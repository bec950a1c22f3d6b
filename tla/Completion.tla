----------------------------- MODULE Completion -----------------------------
(***************************************************************************)
(* POST /tasks/:id/complete against PostgreSQL at READ COMMITTED, next to  *)
(* everything that may run between two of its statements: other requests   *)
(* for the same or another task, task edits and archiving, equipping, and  *)
(* the administrator changing the item catalog.                            *)
(*                                                                         *)
(* A request is one HTTP call.  It walks through the labels of pc, one     *)
(* label per statement whose position relative to other actors matters;    *)
(* the writes of the transaction are visible to nobody before its commit   *)
(* and are kept in buffer[r] until then.  Operations that are a single     *)
(* autocommitted statement are a single step and wait for row locks.       *)
(***************************************************************************)
EXTENDS RewardMath

CONSTANTS
    Users,
    Tasks,
    Requests,       \* calls of the endpoint; bounds how often it is called
    Catalog,        \* item ids, numbered in the order of their names
    Owner,          \* the user a task belongs to
    StartXP,        \* XP a user earned before the modelled period
    ItemRarity,     \* rarity and slot of a catalog item
    ItemSlot,
    TaskKinds,      \* the <<complexity, priority>> pairs the user may enter
    TaskRolls,      \* rolls behind the task multiplier, in billionths
    DropRolls,      \* rolls behind the drop, in billionths
    ItemRolls,      \* rolls behind an item multiplier, in millionths
    None

ASSUME OwnerAssumption == Owner \in [Tasks -> Users]
ASSUME StartAssumption == StartXP \in [Users -> Nat]
ASSUME CatalogAssumption ==
    /\ Catalog \subseteq Nat
    /\ ItemRarity \in [Catalog -> Rarities]
ASSUME KindsAssumption == TaskKinds \subseteq Complexities \X Priorities
ASSUME RollsAssumption ==
    /\ TaskRolls \subseteq 0..(Billion - 1)
    /\ DropRolls \subseteq 0..(Billion - 1)
    /\ ItemRolls \subseteq 0..(Million - 1)
ASSUME NoneAssumption == None \notin Requests

VARIABLES
    tasks,          \* tasks: status, complexity, priority
    progressions,   \* progressions: xp_total, level
    grants,         \* task_xp_grants, by task_id (UNIQUE)
    rolls,          \* task_reward_rolls, by task_id (UNIQUE)
    levelRewards,   \* level_rewards
    inventory,      \* user_inventory_items
    equipped,       \* equipped_items
    catalog,        \* inventory_items: absent, active or disabled
    visual,         \* visual_state: the request whose refresh stored it
    taskLock,       \* the request holding FOR UPDATE on the row, or None
    progressionLock,
    pc,             \* where a request is
    call,           \* the user and the task it is made for
    info,           \* the task row read before the transaction
    plan,           \* the Plan computed before the transaction
    buffer,         \* what its transaction has read and written
    answer          \* the response

database == <<tasks, progressions, grants, rolls, levelRewards, inventory>>
environment == <<equipped, catalog, visual>>
locks == <<taskLock, progressionLock>>
locals == <<call, info, plan, buffer, answer>>
vars == <<database, environment, locks, pc, locals>>

-----------------------------------------------------------------------------
Statuses == {"absent", "active", "completed", "archived"}

NoTask == [status |-> "absent", complexity |-> "tiny", priority |-> "low"]

\* A table with a unique key is a function on the keys present in it.
Insert(table, key, row) ==
    [k \in DOMAIN table \cup {key} |-> IF k = key THEN row ELSE table[k]]

NoPlan == [base |-> 0, taskMult |-> Unit, equipMult |-> Unit, final |-> 0,
           roll |-> 0, rarity |-> NoDrop, worn |-> {}]

NoBuffer == [xp |-> 0, level |-> 1, items |-> {}, rewards |-> {}]

NoAnswer == [kind |-> "none", fresh |-> FALSE, final |-> 0, rarity |-> NoDrop,
             before |-> 0, after |-> 0]

\* A granted item.  by tells apart items of different transactions, as the
\* generated primary key does.
ItemRow(u, c, source, origin, mult, r) ==
    [user |-> u, item |-> c, rarity |-> ItemRarity[c], source |-> source,
     origin |-> origin, mult |-> mult, by |-> r]

Init ==
    /\ tasks = [t \in Tasks |-> NoTask]
    /\ progressions = [u \in Users |->
                          [xp |-> StartXP[u], level |-> LevelForXP(StartXP[u])]]
    /\ grants = [t \in {} |-> NoPlan]
    /\ rolls = [t \in {} |-> NoPlan]
    /\ levelRewards = {}
    /\ inventory = {}
    /\ equipped = [u \in Users |-> {}]
    /\ catalog \in [Catalog -> {"absent", "active"}]
    /\ visual = [u \in Users |-> None]
    /\ taskLock = [t \in Tasks |-> None]
    /\ progressionLock = [u \in Users |-> None]
    /\ pc = [r \in Requests |-> "idle"]
    /\ call \in [Requests -> [user : Users, task : Tasks]]
    /\ info = [r \in Requests |-> NoTask]
    /\ plan = [r \in Requests |-> NoPlan]
    /\ buffer = [r \in Requests |-> NoBuffer]
    /\ answer = [r \in Requests |-> NoAnswer]

Goto(r, from, to) ==
    /\ pc[r] = from
    /\ pc' = [pc EXCEPT ![r] = to]

-----------------------------------------------------------------------------
(* The task and its owner. *)

Create(t) ==
    /\ tasks[t].status = "absent"
    /\ \E k \in TaskKinds :
          tasks' = [tasks EXCEPT ![t] = [status |-> "active",
                                         complexity |-> k[1], priority |-> k[2]]]
    /\ UNCHANGED <<progressions, grants, rolls, levelRewards, inventory,
                   environment, locks, pc, locals>>

\* Mutant: an edit puts the task back on the active list.
UpdateReactivates(t) ==
    /\ tasks[t].status # "absent"
    /\ taskLock[t] = None
    /\ \E k \in TaskKinds :
          tasks' = [tasks EXCEPT ![t] = [status |-> "active",
                                         complexity |-> k[1], priority |-> k[2]]]
    /\ UNCHANGED <<progressions, grants, rolls, levelRewards, inventory,
                   environment, locks, pc, locals>>

\* PATCH sets the fields it is given, whatever the status of the task.
Update(t) ==
    /\ tasks[t].status # "absent"
    /\ taskLock[t] = None
    /\ \E k \in TaskKinds :
          tasks' = [tasks EXCEPT ![t].complexity = k[1], ![t].priority = k[2]]
    /\ UNCHANGED <<progressions, grants, rolls, levelRewards, inventory,
                   environment, locks, pc, locals>>

\* Mutant: the rows that hang on the task go with it.
ArchiveDeletes(t) ==
    /\ tasks[t].status # "absent"
    /\ taskLock[t] = None
    /\ tasks' = [tasks EXCEPT ![t].status = "archived"]
    /\ grants' = [s \in DOMAIN grants \ {t} |-> grants[s]]
    /\ UNCHANGED <<progressions, rolls, levelRewards, inventory,
                   environment, locks, pc, locals>>

\* Archiving asks for no particular status either.
Archive(t) ==
    /\ tasks[t].status # "absent"
    /\ taskLock[t] = None
    /\ tasks' = [tasks EXCEPT ![t].status = "archived"]
    /\ UNCHANGED <<progressions, grants, rolls, levelRewards, inventory,
                   environment, locks, pc, locals>>

SlotOf(it) == ItemSlot[it.item]

\* EquipTx: the slot of the item, one item per user and slot.
Equip(it) ==
    /\ equipped' = [equipped EXCEPT ![it.user] =
                       {e \in @ : SlotOf(e) # SlotOf(it)} \cup {it}]
    /\ UNCHANGED <<database, catalog, visual, locks, pc, locals>>

Unequip(it) ==
    /\ it \in equipped[it.user]
    /\ equipped' = [equipped EXCEPT ![it.user] = @ \ {it}]
    /\ UNCHANGED <<database, catalog, visual, locks, pc, locals>>

(* The administrator: items are created active and can only be disabled. *)

CreateItem(c) ==
    /\ catalog[c] = "absent"
    /\ catalog' = [catalog EXCEPT ![c] = "active"]
    /\ UNCHANGED <<database, equipped, visual, locks, pc, locals>>

DisableItem(c) ==
    /\ catalog[c] # "absent"
    /\ catalog' = [catalog EXCEPT ![c] = "disabled"]
    /\ UNCHANGED <<database, equipped, visual, locks, pc, locals>>

-----------------------------------------------------------------------------
(* Complete and freshComplete: what the service reads before the            *)
(* transaction.                                                            *)

Release(r) ==
    /\ taskLock' = [t \in Tasks |-> IF taskLock[t] = r THEN None ELSE taskLock[t]]
    /\ progressionLock' =
          [u \in Users |-> IF progressionLock[u] = r THEN None ELSE progressionLock[u]]

Forget(r) ==
    /\ info' = [info EXCEPT ![r] = NoTask]
    /\ plan' = [plan EXCEPT ![r] = NoPlan]
    /\ buffer' = [buffer EXCEPT ![r] = NoBuffer]

\* Mutant: the transaction of a failed request stays open.
AbortWithoutRollback(r) ==
    /\ pc' = [pc EXCEPT ![r] = "answered"]
    /\ answer' = [answer EXCEPT ![r] = [NoAnswer EXCEPT !.kind = "error"]]
    /\ Forget(r)
    /\ UNCHANGED <<database, environment, locks, call>>

\* The handler returns an error; the deferred Rollback drops every write.
Abort(r) ==
    /\ pc' = [pc EXCEPT ![r] = "answered"]
    /\ answer' = [answer EXCEPT ![r] = [NoAnswer EXCEPT !.kind = "error"]]
    /\ Release(r)
    /\ Forget(r)
    /\ UNCHANGED <<database, environment, call>>

\* The row WHERE id = task AND user_id = user.
Visible(r) ==
    /\ tasks[call[r].task].status # "absent"
    /\ Owner[call[r].task] = call[r].user

TaskForCompletion(r) ==
    LET row == tasks[call[r].task]
        found == Visible(r)
    IN  /\ Goto(r, "idle", IF ~found THEN "answered"
                           ELSE IF row.status = "completed" THEN "readGrant"
                           ELSE "plan")
        /\ answer' = [answer EXCEPT ![r].kind = IF found THEN "none" ELSE "notFound"]
        /\ info' = [info EXCEPT ![r] = IF pc'[r] = "plan" THEN row ELSE NoTask]
        /\ UNCHANGED <<database, environment, locks, call, plan, buffer>>

\* The rolls, the equipped items and the plan built from them and from the
\* task row read earlier.  The product of the equipment is used as it is and
\* stored in thousandths.
PlanRewards(r) ==
    LET worn == equipped[call[r].user]
        base == BaseXP(info[r].complexity, info[r].priority)
    IN  /\ Goto(r, "plan", "lockTask")
        /\ \E taskRoll \in TaskRolls, dropRoll \in DropRolls,
              used, equipMult \in EquipmentMultiplier(worn) :
            \E final \in FinalXP(base, TaskMultiplier(taskRoll), used) :
            \E rarity \in DropRarity(dropRoll, DropMultiplier(final)) :
              plan' = [plan EXCEPT ![r] =
                         [base |-> base, taskMult |-> TaskMultiplier(taskRoll),
                          equipMult |-> equipMult, final |-> final,
                          roll |-> dropRoll, rarity |-> rarity, worn |-> worn]]
        /\ info' = [info EXCEPT ![r] = NoTask]
        /\ UNCHANGED <<database, environment, locks, call, buffer, answer>>

-----------------------------------------------------------------------------
(* CompleteTx, statement by statement.                                      *)

\* A row that is gone or completed by now ends the transaction again.
LockTask(r) ==
    LET t == call[r].task
        found == Visible(r)
        done == tasks[t].status = "completed"
        proceed == found /\ ~done
    IN  /\ taskLock[t] = None
        /\ Goto(r, "lockTask", IF ~found THEN "answered"
                               ELSE IF done THEN "readGrant"
                               ELSE "lockProgression")
        /\ taskLock' = [taskLock EXCEPT ![t] = IF proceed THEN r ELSE None]
        /\ plan' = [plan EXCEPT ![r] = IF proceed THEN @ ELSE NoPlan]
        /\ answer' = [answer EXCEPT ![r].kind = IF found THEN "none" ELSE "notFound"]
        /\ UNCHANGED <<database, environment, progressionLock, call, info, buffer>>

\* Mutant: the progression is read without FOR UPDATE.
ReadProgressionUnlocked(r) ==
    LET u == call[r].user
    IN  /\ Goto(r, "lockProgression", "insertGrant")
        /\ buffer' = [buffer EXCEPT ![r] =
                         [NoBuffer EXCEPT !.xp = progressions[u].xp,
                                          !.level = progressions[u].level]]
        /\ UNCHANGED <<database, environment, locks, call, info, plan, answer>>

LockProgression(r) ==
    LET u == call[r].user
    IN  /\ progressionLock[u] = None
        /\ Goto(r, "lockProgression", "insertGrant")
        /\ progressionLock' = [progressionLock EXCEPT ![u] = r]
        /\ buffer' = [buffer EXCEPT ![r] =
                         [NoBuffer EXCEPT !.xp = progressions[u].xp,
                                          !.level = progressions[u].level]]
        /\ UNCHANGED <<database, environment, taskLock, call, info, plan, answer>>

\* An insert waits for an uncommitted row with the same unique key.
Inserted(q) == pc[q] \in {"levelRewards", "drop", "commit"}

\* Mutant: the loser of the race answers with its own plan.
InsertGrantAnswersPlan(r) ==
    LET t == call[r].task
        conflict == t \in DOMAIN grants
    IN  /\ Goto(r, "insertGrant", IF conflict THEN "visual" ELSE "levelRewards")
        /\ IF conflict
           THEN /\ Release(r) /\ Forget(r)
                /\ answer' = [answer EXCEPT ![r].final = plan[r].final,
                                            ![r].rarity = plan[r].rarity,
                                            ![r].before = buffer[r].xp,
                                            ![r].after = buffer[r].xp]
           ELSE UNCHANGED <<locks, info, plan, buffer, answer>>
        /\ UNCHANGED <<database, environment, call>>

InsertGrant(r) ==
    LET t == call[r].task
        conflict == t \in DOMAIN grants
    IN  /\ \A q \in Requests \ {r} : ~(Inserted(q) /\ call[q].task = t)
        /\ Goto(r, "insertGrant", IF conflict THEN "readGrant" ELSE "levelRewards")
        /\ IF conflict
           THEN Release(r) /\ Forget(r)
           ELSE UNCHANGED <<locks, info, plan, buffer>>
        /\ UNCHANGED <<database, environment, call, answer>>

FirstActive(rarity) ==
    {c \in Catalog : /\ catalog[c] = "active" /\ ItemRarity[c] = rarity
                     /\ \A d \in Catalog : d < c =>
                           ~(catalog[d] = "active" /\ ItemRarity[d] = rarity)}

NewLevel(r) == LevelForXP(buffer[r].xp + plan[r].final)

\* One legendary item per milestone reached; the level_rewards row is only
\* written when the user has none for the level.
InsertLevelRewards(r) ==
    LET u == call[r].user
        levels == LevelsForReward(buffer[r].level, NewLevel(r))
        Given(l) == \E x \in levelRewards : x.user = u /\ x.level = l
    IN  \/ /\ levels = {}
           /\ Goto(r, "levelRewards", "drop")
           /\ UNCHANGED <<database, environment, locks, locals>>
        \/ /\ levels # {}
           /\ Goto(r, "levelRewards", "drop")
           /\ \E c \in FirstActive("legendary"), roll \in ItemRolls :
                LET Item(l) == ItemRow(u, c, "level_reward", l,
                                       RollRarityMultiplier(roll, "legendary"), r)
                IN  buffer' = [buffer EXCEPT
                       ![r].items = {Item(l) : l \in levels},
                       ![r].rewards = {[user |-> u, level |-> l, item |-> Item(l)] :
                                         l \in {k \in levels : ~Given(k)}}]
           /\ UNCHANGED <<database, environment, locks, call, info, plan, answer>>
        \/ /\ pc[r] = "levelRewards"
           /\ levels # {}
           /\ FirstActive("legendary") = {}
           /\ Abort(r)

\* Mutant: the dropped item is inserted outside the transaction.
InsertDropAtOnce(r) ==
    LET u == call[r].user
        t == call[r].task
        rarity == plan[r].rarity
        storable == RollStorable(plan[r].roll) /\ t \notin DOMAIN rolls
    IN  \/ /\ rarity = NoDrop /\ storable
           /\ Goto(r, "drop", "commit")
           /\ UNCHANGED <<database, environment, locks, locals>>
        \/ /\ rarity # NoDrop /\ storable
           /\ Goto(r, "drop", "commit")
           /\ \E c \in FirstActive(rarity), roll \in ItemRolls :
                LET item == ItemRow(u, c, "task_drop", t, RollRarityMultiplier(roll, rarity), r)
                IN  /\ buffer' = [buffer EXCEPT ![r].items = @ \cup {item}]
                    /\ inventory' = inventory \cup {item}
           /\ UNCHANGED <<tasks, progressions, grants, rolls, levelRewards,
                          environment, locks, call, info, plan, answer>>

\* The dropped item, and the check of the audit row that follows it.
InsertDropAndRoll(r) ==
    LET u == call[r].user
        t == call[r].task
        rarity == plan[r].rarity
        storable == RollStorable(plan[r].roll) /\ t \notin DOMAIN rolls
    IN  \/ /\ rarity = NoDrop /\ storable
           /\ Goto(r, "drop", "commit")
           /\ UNCHANGED <<database, environment, locks, locals>>
        \/ /\ rarity # NoDrop /\ storable
           /\ Goto(r, "drop", "commit")
           /\ \E c \in FirstActive(rarity), roll \in ItemRolls :
                buffer' = [buffer EXCEPT ![r].items =
                   @ \cup {ItemRow(u, c, "task_drop", t,
                                  RollRarityMultiplier(roll, rarity), r)}]
           /\ UNCHANGED <<database, environment, locks, call, info, plan, answer>>
        \/ /\ pc[r] = "drop"
           /\ ~storable \/ (rarity # NoDrop /\ FirstActive(rarity) = {})
           /\ Abort(r)

\* Mutant: items granted by the completion already count as worn.
CommitWearsDrop(r, acknowledged) ==
    LET u == call[r].user
        t == call[r].task
        p == plan[r]
        new == buffer[r].xp + p.final
    IN  /\ Goto(r, "commit", "answered")
        /\ grants' = Insert(grants, t, [base |-> p.base, taskMult |-> p.taskMult,
                                        equipMult |-> p.equipMult, final |-> p.final,
                                        worn |-> p.worn \cup buffer[r].items])
        /\ progressions' = [progressions EXCEPT ![u] =
                               [xp |-> new, level |-> LevelForXP(new)]]
        /\ inventory' = inventory \cup buffer[r].items
        /\ levelRewards' = levelRewards \cup buffer[r].rewards
        /\ rolls' = Insert(rolls, t, [rarity |-> p.rarity, item |-> {}])
        /\ tasks' = [tasks EXCEPT ![t].status = "completed"]
        /\ Release(r)
        /\ Forget(r)
        /\ UNCHANGED <<environment, call, answer>>

\* The remaining writes and the commit.  When the acknowledgement of the
\* commit is lost the rows are durable and the caller sees an error.
Commit(r, acknowledged) ==
    LET u == call[r].user
        t == call[r].task
        p == plan[r]
        new == buffer[r].xp + p.final
    IN  /\ Goto(r, "commit", IF acknowledged THEN "visual" ELSE "answered")
        /\ grants' = Insert(grants, t, [base |-> p.base, taskMult |-> p.taskMult,
                                        equipMult |-> p.equipMult,
                                        final |-> p.final, worn |-> p.worn])
        /\ progressions' = [progressions EXCEPT ![u] =
                               [xp |-> new, level |-> LevelForXP(new)]]
        /\ inventory' = inventory \cup buffer[r].items
        /\ levelRewards' = levelRewards \cup buffer[r].rewards
        /\ rolls' = Insert(rolls, t,
                [rarity |-> p.rarity,
                 item |-> {i \in buffer[r].items : i.source = "task_drop"}])
        /\ tasks' = [tasks EXCEPT ![t].status = "completed"]
        /\ answer' = [answer EXCEPT ![r] =
                IF acknowledged
                THEN [NoAnswer EXCEPT !.fresh = TRUE, !.final = p.final,
                                      !.rarity = p.rarity,
                                      !.before = buffer[r].xp, !.after = new]
                ELSE [NoAnswer EXCEPT !.kind = "error"]]
        /\ Release(r)
        /\ Forget(r)
        /\ UNCHANGED <<environment, call>>

-----------------------------------------------------------------------------
(* PersistedCompletion: three reads, each of the latest committed rows.     *)

ReadGrant(r) ==
    LET t == call[r].task
        found == t \in DOMAIN grants
    IN  /\ Goto(r, "readGrant", IF found THEN "readRoll" ELSE "answered")
        /\ answer' = [answer EXCEPT ![r] =
                IF found THEN [@ EXCEPT !.final = grants[t].final]
                ELSE [@ EXCEPT !.kind = "notFound"]]
        /\ UNCHANGED <<database, environment, locks, call, info, plan, buffer>>

\* An error of this read is ignored: the answer goes on without a drop.
ReadRoll(r) ==
    LET t == call[r].task
        stored == IF t \in DOMAIN rolls THEN rolls[t].rarity ELSE NoDrop
    IN  /\ Goto(r, "readRoll", "readProgression")
        /\ \E rarity \in {stored, NoDrop} :
              answer' = [answer EXCEPT ![r].rarity = rarity]
        /\ UNCHANGED <<database, environment, locks, call, info, plan, buffer>>

ReadProgression(r) ==
    LET xp == progressions[call[r].user].xp
    IN  /\ Goto(r, "readProgression", "visual")
        /\ answer' = [answer EXCEPT ![r].before = xp, ![r].after = xp]
        /\ UNCHANGED <<database, environment, locks, call, info, plan, buffer>>

\* attachVisual: a refresh stores a new random state, or (randomness disabled,
\* or a failure that is only logged) leaves the stored one alone.
AttachVisual(r) ==
    /\ Goto(r, "visual", "answered")
    /\ visual' \in {visual, [visual EXCEPT ![call[r].user] = r]}
    /\ answer' = [answer EXCEPT ![r].kind = "ok"]
    /\ UNCHANGED <<database, equipped, catalog, locks, call, info, plan, buffer>>

\* A statement fails, the caller goes away or the process stops.
Fail(r) ==
    /\ pc[r] \notin {"idle", "answered"}
    /\ Abort(r)

-----------------------------------------------------------------------------
Step(r) ==
    \/ PlanRewards(r)
    \/ LockTask(r)
    \/ LockProgression(r)
    \/ InsertGrant(r)
    \/ InsertLevelRewards(r)
    \/ InsertDropAndRoll(r)
    \/ \E acknowledged \in BOOLEAN : Commit(r, acknowledged)
    \/ ReadGrant(r)
    \/ ReadRoll(r)
    \/ ReadProgression(r)
    \/ AttachVisual(r)

Next ==
    \/ \E r \in Requests : TaskForCompletion(r) \/ Step(r) \/ Fail(r)
    \/ \E t \in Tasks : Create(t) \/ Update(t) \/ Archive(t)
    \/ \E it \in inventory : Equip(it) \/ Unequip(it)
    \/ \E c \in Catalog : CreateItem(c) \/ DisableItem(c)

Spec == Init /\ [][Next]_vars

\* A request once received is a goroutine the scheduler keeps running, and a
\* statement that waits for nobody returns.  Nothing has to fail, no request
\* has to be sent, and users and administrators act when they like.
FairSpec == Spec /\ \A r \in Requests : WF_vars(Step(r))

-----------------------------------------------------------------------------
(* Type correctness. *)

Labels == {"idle", "plan", "lockTask", "lockProgression", "insertGrant",
           "levelRewards", "drop", "commit", "readGrant", "readRoll",
           "readProgression", "visual", "answered"}

RarityOrNone == Rarities \cup {NoDrop}

Items == [user : Users, item : Catalog, rarity : Rarities,
          source : {"task_drop", "level_reward"}, origin : Tasks \cup Nat,
          mult : Nat, by : Requests]

Plans == [base : Nat, taskMult : Nat, equipMult : Nat, final : 0..MaxFinalXP,
          roll : 0..(Billion - 1), rarity : RarityOrNone, worn : SUBSET Items]

Grants == [base : Nat, taskMult : Nat, equipMult : Nat, final : 0..MaxFinalXP,
           worn : SUBSET Items]

Rolls == [rarity : RarityOrNone, item : SUBSET Items]

RewardRows == [user : Users, level : Nat, item : Items]

Buffers == [xp : Nat, level : Nat \ {0}, items : SUBSET Items,
            rewards : SUBSET RewardRows]

Answers == [kind : {"none", "ok", "error", "notFound"}, fresh : BOOLEAN,
            final : 0..MaxFinalXP, rarity : RarityOrNone, before : Nat, after : Nat]

TaskRows == [status : Statuses, complexity : Complexities, priority : Priorities]

DatabaseOK ==
    /\ tasks \in [Tasks -> TaskRows]
    /\ progressions \in [Users -> [xp : Nat, level : Nat \ {0}]]
    /\ DOMAIN grants \subseteq Tasks /\ grants \in [DOMAIN grants -> Grants]
    /\ DOMAIN rolls \subseteq Tasks /\ rolls \in [DOMAIN rolls -> Rolls]
    /\ levelRewards \subseteq RewardRows
    /\ inventory \subseteq Items

EnvironmentOK ==
    /\ equipped \in [Users -> SUBSET Items]
    /\ catalog \in [Catalog -> {"absent", "active", "disabled"}]
    /\ visual \in [Users -> Requests \cup {None}]

LocksOK ==
    /\ taskLock \in [Tasks -> Requests \cup {None}]
    /\ progressionLock \in [Users -> Requests \cup {None}]

RequestsOK ==
    /\ pc \in [Requests -> Labels]
    /\ call \in [Requests -> [user : Users, task : Tasks]]
    /\ info \in [Requests -> TaskRows]
    /\ plan \in [Requests -> Plans]
    /\ buffer \in [Requests -> Buffers]
    /\ answer \in [Requests -> Answers]

\* The columns hold what the schema lets them hold, in particular xp_total >= 0
\* and level >= 1, and a grant never exceeds the largest possible one.
TypeOK == DatabaseOK /\ EnvironmentOK /\ LocksOK /\ RequestsOK

-----------------------------------------------------------------------------
(* What the database promises. *)

\* Level l begins at (l - 1) * XPPerLevel.
MilestonesDue(u) ==
    {l \in 1..progressions[u].level :
        /\ l % MilestoneEvery = 0
        /\ StartXP[u] < (l - 1) * XPPerLevel
        /\ (l - 1) * XPPerLevel <= progressions[u].xp}

LevelItems(u) == {i \in inventory : i.user = u /\ i.source = "level_reward"}

\* The stored level is the level of the stored XP, every milestone up to it was
\* rewarded exactly once, and no milestone item exists that level_rewards does
\* not account for (spec 7.8.3): a lost update of the progression, a level
\* skipped by a jump or a rolled back reward would break it.
MilestonesGivenOnce ==
    \A u \in Users :
        LET given == {x \in levelRewards : x.user = u}
        IN  /\ progressions[u].xp \in
                  ((progressions[u].level - 1) * XPPerLevel)
                  ..(progressions[u].level * XPPerLevel - 1)
            /\ {x.level : x \in given} = MilestonesDue(u)
            /\ Cardinality(given) = Cardinality(MilestonesDue(u))
            /\ LevelItems(u) = {x.item : x \in given}
            /\ \A x \in given : x.item.origin = x.level /\ x.item.rarity = "legendary"

\* Every grant has exactly one audited roll and the other way round; the roll
\* names a rarity exactly when one item dropped for the task, and that item is
\* the owner's and of that rarity (spec 7.8.5).
RollMatchesDrop ==
    /\ DOMAIN rolls = DOMAIN grants
    /\ \A t \in Tasks :
        LET dropped == {i \in inventory : i.source = "task_drop" /\ i.origin = t}
        IN  /\ t \notin DOMAIN rolls => dropped = {}
            /\ t \in DOMAIN rolls =>
                /\ rolls[t].item = dropped
                /\ (rolls[t].rarity = NoDrop) = (dropped = {})
                /\ Cardinality(dropped) <= 1
                /\ \A i \in dropped : i.user = Owner[t] /\ i.rarity = rolls[t].rarity

\* A completed task was paid, and a paid task never becomes active again: the
\* status, the grant and the locks of a request agree after every failure and
\* next to every archive or edit.
CompletedIsGranted ==
    \A t \in Tasks :
        /\ tasks[t].status = "completed" => t \in DOMAIN grants
        /\ t \in DOMAIN grants => tasks[t].status \in {"completed", "archived"}

\* No item obtained by completing a task multiplies the XP of that task
\* (spec 7.7: a drop only influences future tasks).
DropNeverBoostsOwnTask ==
    \A t \in DOMAIN grants : \A i \in grants[t].worn :
        call[i.by].task # t

-----------------------------------------------------------------------------
(* What the row locks are for. *)

InTransaction == {"lockProgression", "insertGrant", "levelRewards", "drop", "commit"}
Writing == InTransaction \ {"lockProgression"}
Granting == Writing \ {"insertGrant"}

TaskLocksHeld ==
    \A r \in Requests : \A t \in Tasks :
        taskLock[t] = r <=> (pc[r] \in InTransaction /\ call[r].task = t)

ProgressionLocksHeld ==
    \A r \in Requests : \A u \in Users :
        progressionLock[u] = r <=> (pc[r] \in Writing /\ call[r].user = u)

\* The service has seen the task under the user's id.
OwnersMatch ==
    \A r \in Requests :
        pc[r] \notin {"idle", "answered"} => Owner[call[r].task] = call[r].user

ReadIsCurrent ==
    \A r \in Requests : pc[r] \in Writing =>
        /\ buffer[r].xp = progressions[call[r].user].xp
        /\ buffer[r].level = progressions[call[r].user].level

NotYetGranted ==
    \A r \in Requests : pc[r] \in Granting => call[r].task \notin DOMAIN grants

\* A row is locked by the one request whose transaction is between taking and
\* releasing it; therefore the progression a transaction has read is still the
\* stored one when it writes the sum, and nobody else pays the task it is about
\* to pay, whatever was retried, failed or edited meanwhile.
LocksProtect ==
    /\ TaskLocksHeld /\ ProgressionLocksHeld /\ OwnersMatch
    /\ ReadIsCurrent /\ NotYetGranted

-----------------------------------------------------------------------------
(* What the callers are told. *)

Answered(r) == answer[r].kind = "ok"

\* All successful answers about a task show the XP that is stored, however often
\* and however concurrently it was completed, and at most one of them claims to be
\* the fresh completion (spec 12.4).  The fresh one shows the stored rarity; a
\* repeated one does, or shows no drop (an error reading the roll is swallowed),
\* and never another rarity.
AnswersAgree ==
    /\ \A r \in Requests : Answered(r) =>
        LET t == call[r].task
        IN  /\ t \in DOMAIN grants
            /\ answer[r].final = grants[t].final
            /\ \/ answer[r].rarity = rolls[t].rarity
               \/ ~answer[r].fresh /\ answer[r].rarity = NoDrop
    /\ \A q, r \in Requests :
        (/\ Answered(q) /\ answer[q].fresh
         /\ Answered(r) /\ answer[r].fresh
         /\ call[q].task = call[r].task) => q = r

\* The progression shown with an answer really contains the task's XP: a fresh
\* answer shows exactly its own step, and a repeated one, whose grant and
\* progression are read by separate statements, never an older total.
AnswerContainsGrant ==
    \A r \in Requests : Answered(r) =>
        LET u == call[r].user
        IN  /\ answer[r].after >= StartXP[u] + answer[r].final
            /\ answer[r].after <= progressions[u].xp
            /\ answer[r].fresh =>
                  answer[r].after = answer[r].before + answer[r].final

\* Grants and rolls are written once: no later step changes or removes one.
GrantsAreFinal ==
    [][/\ \A t \in DOMAIN grants : t \in DOMAIN grants' /\ grants'[t] = grants[t]
       /\ \A t \in DOMAIN rolls : t \in DOMAIN rolls' /\ rolls'[t] = rolls[t]
      ]_<<grants, rolls>>

\* A step changes a progression only by paying one task of that user for the
\* first time, by exactly the amount granted; and it pays no task without it.
XPMovesWithGrants ==
    [][\/ progressions' = progressions /\ grants' = grants
       \/ \E t \in Tasks \ DOMAIN grants :
            /\ DOMAIN grants' = DOMAIN grants \cup {t}
            /\ \A s \in DOMAIN grants : grants'[s] = grants[s]
            /\ \A u \in Users : progressions'[u].xp = progressions[u].xp +
                                  (IF u = Owner[t] THEN grants'[t].final ELSE 0)
      ]_<<progressions, grants>>

-----------------------------------------------------------------------------
(* The abstract specification. *)

\* A request has been told an amount once its answer is complete; milestones
\* reached before the modelled period count as handed out.
TellsLedger == {r \in Requests : Answered(r)}

Ledger == INSTANCE RewardLedger WITH
    Amounts <- 0..MaxFinalXP,
    paid <- [t \in DOMAIN grants |-> grants[t].final],
    total <- [u \in Users |-> progressions[u].xp],
    milestones <- [u \in Users |->
                     LevelsForReward(0, LevelForXP(StartXP[u]))
                     \cup {x.level : x \in {y \in levelRewards : y.user = u}}],
    told <- [r \in TellsLedger |-> answer[r].final]

\* Completion implements the ledger: at its commit, and nowhere else, a task is
\* paid with XP, level and milestones at once, and answers repeat what was paid.
ImplementsLedger == Ledger!LedgerSpec

-----------------------------------------------------------------------------
(* Progress. *)

\* Every call the server has started on is answered: rows stay locked by no
\* request that is over, and no two requests wait for each other.
EveryCallAnswered ==
    \A r \in Requests : pc[r] # "idle" ~> pc[r] = "answered"

-----------------------------------------------------------------------------
(* Statements of the documentation that the code does not keep. *)

\* "complete/equip/archive return the saved result without a repeated side
\* effect": answering for a task that was already paid leaves the visual state.
RepeatHasNoSideEffect ==
    [][\A r \in Requests :
          pc[r] = "visual" /\ pc'[r] = "answered" /\ ~answer[r].fresh
             => visual' = visual]_vars

\* "1. lock task row ... 5. create task_xp_grants": the base XP granted is that
\* of the row that was locked.
GrantMatchesLockedRow ==
    [][\A t \in DOMAIN grants' \ DOMAIN grants :
          grants'[t].base = BaseXP(tasks[t].complexity, tasks[t].priority)]_vars

\* "The result of the roll is always saved": whatever is rolled fits the column.
EveryRollFits == \A r \in Requests : RollStorable(plan[r].roll)

=============================================================================
