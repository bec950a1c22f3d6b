--------------------------- MODULE CompletionProofs ---------------------------
(***************************************************************************)
(* Proofs about Completion for every set of users, tasks and requests.     *)
(*                                                                         *)
(* First type correctness, then the inductive invariant on row locks and   *)
(* what transactions have read, and from it the properties of the stored   *)
(* rows; then what completions hand out: the dropped item of a task, the   *)
(* milestones of a user, and the abstract ledger that all of it, seen from *)
(* outside, amounts to.                                                    *)
(***************************************************************************)
EXTENDS Completion, RewardMathLemmas, FiniteSetTheorems

\* A new item row is a row of user_inventory_items.
LEMMA ItemRowType ==
    ASSUME NEW u \in Users, NEW c \in Catalog,
           NEW source \in {"task_drop", "level_reward"},
           NEW origin \in Tasks \cup Nat, NEW mult \in Nat, NEW r \in Requests
    PROVE  /\ ItemRow(u, c, source, origin, mult, r) \in Items
           /\ ItemRow(u, c, source, origin, mult, r).source = source
  BY CatalogAssumption DEF ItemRow, Items

-----------------------------------------------------------------------------
(* Type correctness. *)

\* What a request starts with and falls back to has the right type
\* (reward/models.go zero values).
LEMMA EmptyRecords ==
    /\ NoTask \in TaskRows /\ NoPlan \in Plans
    /\ NoBuffer \in Buffers /\ NoAnswer \in Answers
  <1>1. 0 \in 0..(Billion - 1)
    BY BillionType, SMT
  <1>2. 0 \in 0..MaxFinalXP
    BY SMT DEF MaxFinalXP
  <1>3. NoTask \in TaskRows
    BY DEF NoTask, TaskRows, Statuses, Complexities, Priorities
  <1>4. Unit \in Nat
    BY SMT DEF Unit
  <1>5. NoPlan \in Plans
    BY <1>1, <1>2, <1>4 DEF NoPlan, Plans, RarityOrNone
  <1>6. NoBuffer \in Buffers
    BY SMT DEF NoBuffer, Buffers
  <1>7. NoAnswer \in Answers
    BY <1>2, SMT DEF NoAnswer, Answers, RarityOrNone
  <1> QED
    BY <1>3, <1>5, <1>6, <1>7

\* The database and the requests start well typed.
LEMMA InitType == Init => TypeOK
  <1> SUFFICES ASSUME Init
               PROVE  TypeOK
    OBVIOUS
  <1>1. \A u \in Users : LevelForXP(StartXP[u]) \in Nat \ {0}
    BY LevelType, StartAssumption
  <1>2. DatabaseOK
    BY <1>1, EmptyRecords, StartAssumption DEF Init, DatabaseOK
  <1>3. EnvironmentOK
    BY DEF Init, EnvironmentOK
  <1>4. LocksOK
    BY DEF Init, LocksOK
  <1>5. RequestsOK
    BY EmptyRecords DEF Init, RequestsOK, Labels
  <1> QED
    BY <1>2, <1>3, <1>4, <1>5 DEF TypeOK

\* The end of a transaction leaves well typed locks (commit or Rollback).
LEMMA ReleaseType ==
    ASSUME LocksOK, NEW r \in Requests, Release(r)
    PROVE  LocksOK'
  BY DEF LocksOK, Release

\* An abandoned request leaves everything well typed (complete_tx.go, the
\* deferred Rollback).
LEMMA AbortType ==
    ASSUME TypeOK, NEW r \in Requests, Abort(r)
    PROVE  TypeOK'
  <1>1. LocksOK'
    BY ReleaseType DEF Abort, TypeOK
  <1>2. [NoAnswer EXCEPT !.kind = "error"] \in Answers
    BY EmptyRecords DEF Answers
  <1>3. RequestsOK'
    BY <1>2, EmptyRecords DEF Abort, Forget, TypeOK, RequestsOK, Labels
  <1>4. DatabaseOK' /\ EnvironmentOK'
    BY DEF Abort, TypeOK, DatabaseOK, EnvironmentOK, database, environment
  <1> QED
    BY <1>1, <1>3, <1>4 DEF TypeOK

\* The steps of the owner and of the administrator.
LEMMA OthersType ==
    ASSUME TypeOK,
           \/ \E t \in Tasks : Create(t) \/ Update(t) \/ Archive(t)
           \/ \E it \in inventory : Equip(it) \/ Unequip(it)
           \/ \E c \in Catalog : CreateItem(c) \/ DisableItem(c)
    PROVE  TypeOK'
  <1> USE DEF TypeOK
  <1>1. ASSUME NEW t \in Tasks, Create(t) \/ Update(t) \/ Archive(t)
        PROVE  TypeOK'
    <2>1. \A k \in TaskKinds : k[1] \in Complexities /\ k[2] \in Priorities
      BY KindsAssumption
    <2>2. tasks' \in [Tasks -> TaskRows]
      <3>1. CASE Create(t)
        <4>1. PICK k \in TaskKinds :
                tasks' = [tasks EXCEPT ![t] = [status |-> "active",
                                 complexity |-> k[1], priority |-> k[2]]]
          BY <3>1 DEF Create
        <4>2. [status |-> "active", complexity |-> k[1], priority |-> k[2]]
                \in TaskRows
          BY <2>1 DEF TaskRows, Statuses
        <4> QED
          BY <4>1, <4>2 DEF DatabaseOK
      <3>2. CASE Update(t)
        <4>1. PICK k \in TaskKinds :
                tasks' = [tasks EXCEPT ![t].complexity = k[1],
                                       ![t].priority = k[2]]
          BY <3>2 DEF Update
        <4> QED
          BY <2>1, <4>1 DEF DatabaseOK, TaskRows
      <3>3. CASE Archive(t)
        BY <3>3 DEF Archive, DatabaseOK, TaskRows, Statuses
      <3> QED
        BY <1>1, <3>1, <3>2, <3>3
    <2>3. UNCHANGED <<progressions, grants, rolls, levelRewards, inventory,
                      environment, locks, pc, locals>>
      BY <1>1 DEF Create, Update, Archive
    <2> QED
      BY <2>2, <2>3 DEF DatabaseOK, EnvironmentOK, LocksOK, RequestsOK,
                        environment, locks, locals
  <1>2. ASSUME NEW it \in inventory, Equip(it) \/ Unequip(it)
        PROVE  TypeOK'
    <2>1. it \in Items
      BY DEF DatabaseOK
    <2>2. equipped' \in [Users -> SUBSET Items]
      BY <1>2, <2>1 DEF Equip, Unequip, EnvironmentOK
    <2>3. UNCHANGED <<database, catalog, visual, locks, pc, locals>>
      BY <1>2 DEF Equip, Unequip
    <2> QED
      BY <2>2, <2>3 DEF DatabaseOK, EnvironmentOK, LocksOK, RequestsOK,
                        database, locks, locals
  <1>3. ASSUME NEW c \in Catalog, CreateItem(c) \/ DisableItem(c)
        PROVE  TypeOK'
    <2>1. catalog' \in [Catalog -> {"absent", "active", "disabled"}]
      BY <1>3 DEF CreateItem, DisableItem, EnvironmentOK
    <2>2. UNCHANGED <<database, equipped, visual, locks, pc, locals>>
      BY <1>3 DEF CreateItem, DisableItem
    <2> QED
      BY <2>1, <2>2 DEF DatabaseOK, EnvironmentOK, LocksOK, RequestsOK,
                        database, locks, locals
  <1> QED
    BY <1>1, <1>2, <1>3

\* Setting a field of an answer to a legal value keeps its type.
LEMMA AnswerFields ==
    ASSUME NEW a \in Answers
    PROVE  /\ \A k \in {"none", "ok", "error", "notFound"} :
                 [a EXCEPT !.kind = k] \in Answers
           /\ \A x \in 0..MaxFinalXP : [a EXCEPT !.final = x] \in Answers
           /\ \A x \in RarityOrNone : [a EXCEPT !.rarity = x] \in Answers
           /\ \A x \in Nat : [a EXCEPT !.before = x, !.after = x] \in Answers
  <1>1. \A k \in {"none", "ok", "error", "notFound"} :
          [a EXCEPT !.kind = k] \in Answers
    BY Zenon DEF Answers
  <1>2. \A x \in 0..MaxFinalXP : [a EXCEPT !.final = x] \in Answers
    BY Zenon DEF Answers
  <1>3. \A x \in RarityOrNone : [a EXCEPT !.rarity = x] \in Answers
    BY Zenon DEF Answers
  <1>4. \A x \in Nat : [a EXCEPT !.before = x, !.after = x] \in Answers
    BY Zenon DEF Answers
  <1> QED
    BY <1>1, <1>2, <1>3, <1>4

\* The steps of a request up to its transaction and after it.
LEMMA ServiceType ==
    ASSUME TypeOK, NEW r \in Requests,
           \/ TaskForCompletion(r) \/ PlanRewards(r) \/ ReadGrant(r)
           \/ ReadRoll(r) \/ ReadProgression(r) \/ AttachVisual(r)
    PROVE  TypeOK'
  <1> USE DEF TypeOK
  <1> call[r].user \in Users /\ call[r].task \in Tasks
    BY DEF RequestsOK
  <1>1. CASE TaskForCompletion(r)
    <2>1. /\ pc' \in [Requests -> Labels]
          /\ answer' \in [Requests -> Answers]
          /\ info' \in [Requests -> TaskRows]
      BY <1>1, EmptyRecords
      DEF TaskForCompletion, Goto, RequestsOK, DatabaseOK, Labels, Answers
    <2>2. UNCHANGED <<database, environment, locks, call, plan, buffer>>
      BY <1>1 DEF TaskForCompletion
    <2> QED
      BY <2>1, <2>2 DEF DatabaseOK, EnvironmentOK, LocksOK, RequestsOK,
                        database, environment, locks
  <1>2. CASE PlanRewards(r)
    <2> DEFINE base == BaseXP(info[r].complexity, info[r].priority)
               worn == equipped[call[r].user]
    <2>1. base \in {50, 100, 150, 200, 250, 350, 400}
      BY BaseType DEF RequestsOK, TaskRows
    <2>2. worn \subseteq Items
      BY DEF EnvironmentOK
    <2> HIDE DEF base, worn
    <2> DEFINE made(taskRoll, dropRoll, equipMult, final, rarity) ==
                 [base |-> base, taskMult |-> TaskMultiplier(taskRoll),
                  equipMult |-> equipMult, final |-> final, roll |-> dropRoll,
                  rarity |-> rarity, worn |-> worn]
    <2>3. PICK taskRoll \in TaskRolls, dropRoll \in DropRolls,
                used, equipMult \in EquipmentMultiplier(worn) :
             \E final \in FinalXP(base, TaskMultiplier(taskRoll), used) :
             \E rarity \in DropRarity(dropRoll, DropMultiplier(final)) :
               plan' = [plan EXCEPT ![r] =
                          made(taskRoll, dropRoll, equipMult, final, rarity)]
      BY <1>2 DEF PlanRewards, base, worn
    <2>4. PICK final \in FinalXP(base, TaskMultiplier(taskRoll), used),
               rarity \in RarityOrNone :
            plan' = [plan EXCEPT ![r] =
                       made(taskRoll, dropRoll, equipMult, final, rarity)]
      BY <2>3, DropRarityType DEF RarityOrNone
    <2>5. TaskMultiplier(taskRoll) \in TaskMultipliers
      BY TaskMultiplierType, RollsAssumption
    <2>6. used \in EquipmentMultipliers /\ equipMult \in EquipmentMultipliers
      BY DEF EquipmentMultiplier
    <2>7. final \in 0..MaxFinalXP
      BY <2>1, <2>5, <2>6, FinalBounds
    <2>8. base \in Nat /\ TaskMultiplier(taskRoll) \in Nat /\ equipMult \in Nat
      BY <2>1, <2>5, <2>6, SMT DEF TaskMultipliers, EquipmentMultipliers, Unit
    <2>9. plan'[r] \in Plans
      BY <2>2, <2>4, <2>7, <2>8, RollsAssumption DEF Plans, RequestsOK
    <2>10. plan' \in [Requests -> Plans]
      BY <2>4, <2>9 DEF RequestsOK
    <2>11. pc' \in [Requests -> Labels] /\ info' \in [Requests -> TaskRows]
      BY <1>2, EmptyRecords DEF PlanRewards, Goto, RequestsOK, Labels
    <2>12. UNCHANGED <<database, environment, locks, call, buffer, answer>>
      BY <1>2 DEF PlanRewards
    <2> QED
      BY <2>10, <2>11, <2>12 DEF DatabaseOK, EnvironmentOK, LocksOK, RequestsOK,
                                database, environment, locks
  <1>3. CASE ReadGrant(r)
    <2>1. call[r].task \in DOMAIN grants =>
            grants[call[r].task].final \in 0..MaxFinalXP
      BY DEF DatabaseOK, Grants
    <2>2. /\ pc' \in [Requests -> Labels]
          /\ answer' \in [Requests -> Answers]
      <3>1. \E a \in Answers : answer' = [answer EXCEPT ![r] = a]
        <4>1. CASE call[r].task \in DOMAIN grants
          BY <1>3, <2>1, <4>1, AnswerFields DEF ReadGrant, RequestsOK
        <4>2. CASE call[r].task \notin DOMAIN grants
          BY <1>3, <4>2, AnswerFields DEF ReadGrant, RequestsOK
        <4> QED
          BY <4>1, <4>2
      <3>2. pc' \in [Requests -> Labels]
        BY <1>3 DEF ReadGrant, Goto, RequestsOK, Labels
      <3> QED
        BY <3>1, <3>2 DEF RequestsOK
    <2>3. UNCHANGED <<database, environment, locks, call, info, plan, buffer>>
      BY <1>3 DEF ReadGrant
    <2> QED
      BY <2>2, <2>3 DEF DatabaseOK, EnvironmentOK, LocksOK, RequestsOK,
                        database, environment, locks
  <1>4. CASE ReadRoll(r)
    <2>1. call[r].task \in DOMAIN rolls => rolls[call[r].task].rarity \in RarityOrNone
      BY DEF DatabaseOK, Rolls
    <2>2. /\ pc' \in [Requests -> Labels]
          /\ answer' \in [Requests -> Answers]
      <3> DEFINE stored == IF call[r].task \in DOMAIN rolls
                           THEN rolls[call[r].task].rarity ELSE NoDrop
      <3>1. {stored, NoDrop} \subseteq RarityOrNone
        BY <2>1 DEF RarityOrNone
      <3> HIDE DEF stored
      <3>2. PICK rarity \in {stored, NoDrop} :
              answer' = [answer EXCEPT ![r] = [answer[r] EXCEPT !.rarity = rarity]]
        BY <1>4 DEF ReadRoll, RequestsOK, stored
      <3>3. pc' \in [Requests -> Labels]
        BY <1>4 DEF ReadRoll, Goto, RequestsOK, Labels
      <3> QED
        BY <3>1, <3>2, <3>3, AnswerFields DEF RequestsOK
    <2>3. UNCHANGED <<database, environment, locks, call, info, plan, buffer>>
      BY <1>4 DEF ReadRoll
    <2> QED
      BY <2>2, <2>3 DEF DatabaseOK, EnvironmentOK, LocksOK, RequestsOK,
                        database, environment, locks
  <1>5. CASE ReadProgression(r)
    <2>1. progressions[call[r].user].xp \in Nat
      BY DEF DatabaseOK
    <2>2. /\ pc' \in [Requests -> Labels]
          /\ answer' \in [Requests -> Answers]
      <3>1. /\ pc' \in [Requests -> Labels]
            /\ call[r].user \in Users
        BY <1>5 DEF ReadProgression, Goto, RequestsOK, Labels
      <3> DEFINE xp == progressions[call[r].user].xp
      <3>2. answer' = [answer EXCEPT ![r] = [answer[r] EXCEPT !.before = xp,
                                                             !.after = xp]]
        BY <1>5 DEF ReadProgression, RequestsOK
      <3> HIDE DEF xp
      <3>3. xp \in Nat
        BY <2>1 DEF xp
      <3> QED
        BY <3>1, <3>2, <3>3, AnswerFields DEF RequestsOK
    <2>3. UNCHANGED <<database, environment, locks, call, info, plan, buffer>>
      BY <1>5 DEF ReadProgression
    <2> QED
      BY <2>2, <2>3 DEF DatabaseOK, EnvironmentOK, LocksOK, RequestsOK,
                        database, environment, locks
  <1>6. CASE AttachVisual(r)
    <2>1. /\ pc' \in [Requests -> Labels]
          /\ answer' \in [Requests -> Answers]
          /\ visual' \in [Users -> Requests \cup {None}]
      <3>1. pc' \in [Requests -> Labels]
        BY <1>6 DEF AttachVisual, Goto, RequestsOK, Labels
      <3>2. answer' = [answer EXCEPT ![r] = [answer[r] EXCEPT !.kind = "ok"]]
        BY <1>6 DEF AttachVisual, RequestsOK
      <3>3. answer' \in [Requests -> Answers]
        BY <3>2, AnswerFields DEF RequestsOK
      <3>4. visual' \in [Users -> Requests \cup {None}]
        BY <1>6 DEF AttachVisual, RequestsOK, EnvironmentOK
      <3> QED
        BY <3>1, <3>3, <3>4
    <2>2. UNCHANGED <<database, equipped, catalog, locks, call, info, plan, buffer>>
      BY <1>6 DEF AttachVisual
    <2> QED
      BY <2>1, <2>2 DEF DatabaseOK, EnvironmentOK, LocksOK, RequestsOK,
                        database, locks
  <1> QED
    BY <1>1, <1>2, <1>3, <1>4, <1>5, <1>6

\* Rows of the milestone and the drop that a transaction inserts.
LEMMA RewardRowsType ==
    ASSUME TypeOK, NEW r \in Requests, InsertLevelRewards(r) \/ InsertDropAndRoll(r)
    PROVE  buffer' \in [Requests -> Buffers]
  <1> DEFINE u == call[r].user
             t == call[r].task
             b == buffer[r]
  <1>1. u \in Users /\ t \in Tasks /\ b \in Buffers /\ plan[r] \in Plans
        /\ buffer \in [Requests -> Buffers]
    BY DEF TypeOK, RequestsOK
  <1>2. \A n \in ItemRolls : n \in 0..(Million - 1)
    BY RollsAssumption
  <1>3. Abort(r) => buffer' \in [Requests -> Buffers]
    BY AbortType DEF TypeOK, RequestsOK
  <1>4. UNCHANGED locals => buffer' \in [Requests -> Buffers]
    BY <1>1 DEF locals
  <1>5. CASE InsertLevelRewards(r)
    <2> DEFINE levels == LevelsForReward(b.level, NewLevel(r))
               Given(l) == \E x \in levelRewards : x.user = u /\ x.level = l
               Item(c, roll, l) ==
                 ItemRow(u, c, "level_reward", l,
                         RollRarityMultiplier(roll, "legendary"), r)
               row(c, roll, l) == [user |-> u, level |-> l, item |-> Item(c, roll, l)]
    <2>1. CASE UNCHANGED locals
      BY <1>4, <2>1
    <2>2. CASE Abort(r)
      BY <1>3, <2>2
    <2>3. ASSUME NEW c \in FirstActive("legendary"), NEW roll \in ItemRolls,
                 buffer' = [buffer EXCEPT
                   ![r].items = {Item(c, roll, l) : l \in levels},
                   ![r].rewards = {row(c, roll, l) :
                                     l \in {k \in levels : ~Given(k)}}]
          PROVE  buffer' \in [Requests -> Buffers]
      <3>1. levels \subseteq Nat
        <4>1. b.level \in Nat
          BY <1>1 DEF Buffers
        <4>2. NewLevel(r) \in Nat
          BY <1>1, LevelType, SMT DEF NewLevel, Buffers, Plans
        <4> QED
          BY <4>1, <4>2, SMT DEF LevelsForReward
      <3>2. RollRarityMultiplier(roll, "legendary") \in Nat
        BY <1>2, ItemMultiplierType DEF Rarities
      <3>3. c \in Catalog
        BY DEF FirstActive
      <3>4. \A l \in levels : Item(c, roll, l) \in Items
        BY <1>1, <3>1, <3>2, <3>3, ItemRowType
      <3> HIDE DEF Item, levels
      <3>5. \A l \in levels : row(c, roll, l) \in RewardRows
        BY <1>1, <3>1, <3>4 DEF RewardRows
      <3> HIDE DEF row, Given
      <3>6. /\ {Item(c, roll, l) : l \in levels} \subseteq Items
            /\ {row(c, roll, l) : l \in {k \in levels : ~Given(k)}}
                  \subseteq RewardRows
        BY <3>4, <3>5
      <3> QED
        BY <1>1, <2>3, <3>6 DEF Buffers
    <2> QED
      BY <1>5, <2>1, <2>2, <2>3 DEF InsertLevelRewards
  <1>6. CASE InsertDropAndRoll(r)
    <2> DEFINE rarity == plan[r].rarity
               item(c, roll) ==
                 ItemRow(u, c, "task_drop", t, RollRarityMultiplier(roll, rarity), r)
    <2>1. CASE UNCHANGED locals
      BY <1>4, <2>1
    <2>2. CASE Abort(r)
      BY <1>3, <2>2
    <2>3. ASSUME rarity # NoDrop, NEW c \in FirstActive(rarity),
                 NEW roll \in ItemRolls,
                 buffer' = [buffer EXCEPT ![r].items = @ \cup {item(c, roll)}]
          PROVE  buffer' \in [Requests -> Buffers]
      <3>1. rarity \in Rarities
        BY <1>1, <2>3 DEF Plans, RarityOrNone
      <3>2. RollRarityMultiplier(roll, rarity) \in Nat
        BY <1>2, <3>1, ItemMultiplierType
      <3>3. c \in Catalog
        BY DEF FirstActive
      <3>4. item(c, roll) \in Items
        BY <1>1, <3>2, <3>3, ItemRowType
      <3> HIDE DEF item
      <3> QED
        BY <1>1, <2>3, <3>4 DEF Buffers
    <2> QED
      BY <1>6, <2>1, <2>2, <2>3 DEF InsertDropAndRoll
  <1> QED
    BY <1>5, <1>6

\* The commit writes rows of the right type.
LEMMA CommitType ==
    ASSUME TypeOK, NEW r \in Requests, NEW acknowledged \in BOOLEAN,
           Commit(r, acknowledged)
    PROVE  TypeOK'
  <1> DEFINE u == call[r].user
             t == call[r].task
             p == plan[r]
             b == buffer[r]
             new == b.xp + p.final
             grant == [base |-> p.base, taskMult |-> p.taskMult,
                       equipMult |-> p.equipMult, final |-> p.final,
                       worn |-> p.worn]
             roll == [rarity |-> p.rarity,
                      item |-> {i \in b.items : i.source = "task_drop"}]
  <1>1. u \in Users /\ t \in Tasks /\ p \in Plans /\ b \in Buffers
    BY DEF TypeOK, RequestsOK
  <1>2. p.final \in Nat /\ b.xp \in Nat
    BY <1>1, SMT DEF Plans, Buffers
  <1>3. new \in Nat /\ LevelForXP(new) \in Nat \ {0}
    <2>1. new \in Nat
      BY <1>2, SMT
    <2> QED
      BY <2>1, LevelType
  <1>4. grant \in Grants
    BY <1>1 DEF Plans, Grants
  <1>5. roll \in Rolls
    BY <1>1 DEF Plans, Buffers, Rolls
  <1>6. grants' = Insert(grants, t, grant) /\ rolls' = Insert(rolls, t, roll)
    BY DEF Commit
  <1> HIDE DEF grant, roll, new
  <1>7. DOMAIN grants' \subseteq Tasks /\ grants' \in [DOMAIN grants' -> Grants]
    BY <1>1, <1>4, <1>6 DEF Insert, TypeOK, DatabaseOK
  <1>8. DOMAIN rolls' \subseteq Tasks /\ rolls' \in [DOMAIN rolls' -> Rolls]
    BY <1>1, <1>5, <1>6 DEF Insert, TypeOK, DatabaseOK
  <1>9. progressions' \in [Users -> [xp : Nat, level : Nat \ {0}]]
    BY <1>3 DEF Commit, new, TypeOK, DatabaseOK
  <1>10. /\ tasks' \in [Tasks -> TaskRows]
         /\ inventory' \subseteq Items
         /\ levelRewards' \subseteq RewardRows
    <2>1. /\ tasks' = [tasks EXCEPT ![t] = [tasks[t] EXCEPT !.status = "completed"]]
          /\ inventory' = inventory \cup b.items
          /\ levelRewards' = levelRewards \cup b.rewards
      BY <1>1 DEF Commit, TypeOK, DatabaseOK
    <2>2. [tasks[t] EXCEPT !.status = "completed"] \in TaskRows
      BY <1>1 DEF TypeOK, DatabaseOK, TaskRows, Statuses
    <2>3. b.items \subseteq Items /\ b.rewards \subseteq RewardRows
      BY <1>1 DEF Buffers
    <2> QED
      BY <1>1, <2>1, <2>2, <2>3 DEF TypeOK, DatabaseOK
  <1>11. DatabaseOK'
    BY <1>7, <1>8, <1>9, <1>10 DEF DatabaseOK
  <1>12. LocksOK'
    BY ReleaseType DEF Commit, TypeOK
  <1>13. answer' \in [Requests -> Answers]
    <2>1. [NoAnswer EXCEPT !.kind = "error"] \in Answers
      BY EmptyRecords, AnswerFields
    <2>2. [NoAnswer EXCEPT !.fresh = TRUE, !.final = p.final, !.rarity = p.rarity,
                           !.before = b.xp, !.after = new] \in Answers
      BY <1>1, <1>2, <1>3 DEF NoAnswer, Answers, Plans
    <2> QED
      BY <2>1, <2>2 DEF Commit, TypeOK, RequestsOK, new
  <1>14. RequestsOK'
    <2>1. pc' \in [Requests -> Labels]
      BY DEF Commit, Goto, TypeOK, RequestsOK, Labels
    <2>2. call' = call /\ Forget(r)
      BY DEF Commit
    <2>3. /\ info' \in [Requests -> TaskRows]
          /\ plan' \in [Requests -> Plans]
          /\ buffer' \in [Requests -> Buffers]
      BY <2>2, EmptyRecords DEF Forget, TypeOK, RequestsOK
    <2> QED
      BY <1>13, <2>1, <2>2, <2>3 DEF TypeOK, RequestsOK
  <1>15. EnvironmentOK'
    BY DEF Commit, TypeOK, EnvironmentOK, environment
  <1> QED
    BY <1>11, <1>12, <1>14, <1>15 DEF TypeOK

\* The statements of a transaction before its commit.
LEMMA TransactionType ==
    ASSUME TypeOK, NEW r \in Requests,
           \/ LockTask(r) \/ LockProgression(r) \/ InsertGrant(r)
           \/ InsertLevelRewards(r) \/ InsertDropAndRoll(r)
    PROVE  TypeOK'
  <1> USE DEF TypeOK
  <1>1. call[r].user \in Users /\ call[r].task \in Tasks
    BY DEF RequestsOK
  <1>2. CASE LockTask(r)
    <2>1. UNCHANGED <<database, environment, progressionLock, call, info, buffer>>
      BY <1>2 DEF LockTask
    <2>2. LocksOK'
      BY <1>1, <1>2 DEF LockTask, LocksOK
    <2>3. pc' \in [Requests -> Labels] /\ plan' \in [Requests -> Plans]
      BY <1>2, EmptyRecords DEF LockTask, Goto, RequestsOK, Labels
    <2>4. answer' \in [Requests -> Answers]
      BY <1>2, AnswerFields DEF LockTask, RequestsOK
    <2> QED
      BY <2>1, <2>2, <2>3, <2>4 DEF DatabaseOK, EnvironmentOK, LocksOK, RequestsOK,
                                    database, environment
  <1>3. CASE LockProgression(r)
    <2>1. UNCHANGED <<database, environment, taskLock, call, info, plan, answer>>
      BY <1>3 DEF LockProgression
    <2>2. LocksOK'
      BY <1>1, <1>3 DEF LockProgression, LocksOK
    <2>3. progressions[call[r].user].xp \in Nat
          /\ progressions[call[r].user].level \in Nat \ {0}
      BY <1>1 DEF DatabaseOK
    <2>4. buffer'[r] \in Buffers /\ buffer' \in [Requests -> Buffers]
      BY <1>3, <2>3 DEF LockProgression, RequestsOK, NoBuffer, Buffers
    <2>5. pc' \in [Requests -> Labels]
      BY <1>3 DEF LockProgression, Goto, RequestsOK, Labels
    <2> QED
      BY <2>1, <2>2, <2>4, <2>5 DEF DatabaseOK, EnvironmentOK, LocksOK, RequestsOK,
                                    database, environment
  <1>4. CASE InsertGrant(r)
    <2>1. UNCHANGED <<database, environment, call, answer>>
      BY <1>4 DEF InsertGrant
    <2>2. LocksOK'
      BY <1>4, ReleaseType DEF InsertGrant, locks, LocksOK
    <2>3. RequestsOK'
      <3>1. pc' \in [Requests -> Labels]
        BY <1>4 DEF InsertGrant, Goto, RequestsOK, Labels
      <3>2. Forget(r) \/ UNCHANGED <<info, plan, buffer>>
        BY <1>4 DEF InsertGrant
      <3>3. /\ info' \in [Requests -> TaskRows]
            /\ plan' \in [Requests -> Plans]
            /\ buffer' \in [Requests -> Buffers]
        <4>1. CASE Forget(r)
          BY <4>1, EmptyRecords DEF Forget, RequestsOK
        <4>2. CASE UNCHANGED <<info, plan, buffer>>
          BY <4>2 DEF RequestsOK
        <4> QED
          BY <3>2, <4>1, <4>2
      <3> QED
        BY <2>1, <3>1, <3>3 DEF RequestsOK
    <2> QED
      BY <2>1, <2>2, <2>3 DEF DatabaseOK, EnvironmentOK, database, environment
  <1>5. CASE InsertLevelRewards(r) \/ InsertDropAndRoll(r)
    <2>1. CASE Abort(r)
      BY <2>1, AbortType
    <2>2. CASE ~Abort(r)
      <3>1. /\ pc' \in [Requests -> Labels]
            /\ UNCHANGED <<database, environment, locks, call, info, plan, answer>>
        BY <1>5, <2>2
        DEF InsertLevelRewards, InsertDropAndRoll, Goto, RequestsOK, Labels, locals
      <3>2. buffer' \in [Requests -> Buffers]
        BY <1>5, RewardRowsType
      <3> QED
        BY <3>1, <3>2 DEF DatabaseOK, EnvironmentOK, LocksOK, RequestsOK,
                          database, environment, locks
    <2> QED
      BY <2>1, <2>2
  <1> QED
    BY <1>2, <1>3, <1>4, <1>5

\* No step of a request, an owner or the administrator breaks a type.
LEMMA NextType == TypeOK /\ [Next]_vars => TypeOK'
  <1> SUFFICES ASSUME TypeOK, [Next]_vars
               PROVE  TypeOK'
    OBVIOUS
  <1>1. ASSUME NEW r \in Requests, TaskForCompletion(r) \/ Step(r) \/ Fail(r)
        PROVE  TypeOK'
    BY <1>1, ServiceType, TransactionType, CommitType, AbortType DEF Step, Fail
  <1>2. CASE UNCHANGED vars
    BY <1>2 DEF vars, database, environment, locks, locals, TypeOK,
                DatabaseOK, EnvironmentOK, LocksOK, RequestsOK
  <1> QED
    BY <1>1, <1>2, OthersType DEF Next

\* Every reachable state has the types the schema and the code give it, in
\* particular no column constraint of a grant, a progression or an item is ever
\* violated by what a completion writes.
THEOREM TypeCorrect == Spec => []TypeOK
  BY InitType, NextType, PTL DEF Spec

-----------------------------------------------------------------------------
(* The inductive invariant.  The locks belong to the requests whose position *)
(* says so (LocksProtect); therefore what a transaction has read under a     *)
(* lock is still true, and nobody else pays the task it is about to pay.     *)

TablesAgree ==
    /\ DOMAIN rolls = DOMAIN grants
    /\ \A u \in Users : progressions[u].level = LevelForXP(progressions[u].xp)

IInv == TypeOK /\ LocksProtect /\ TablesAgree /\ CompletedIsGranted

\* Nobody holds a lock and nothing is granted initially.
LEMMA InitInv == Init => IInv
  <1> SUFFICES ASSUME Init
               PROVE  IInv
    OBVIOUS
  <1>1. TypeOK
    BY InitType
  <1>2. /\ TaskLocksHeld /\ ProgressionLocksHeld /\ OwnersMatch
        /\ ReadIsCurrent /\ NotYetGranted
    BY NoneAssumption
    DEF Init, TaskLocksHeld, ProgressionLocksHeld, OwnersMatch, ReadIsCurrent,
        NotYetGranted, InTransaction, Writing, Granting
  <1>3. TablesAgree /\ CompletedIsGranted
    BY DEF Init, NoTask, TablesAgree, CompletedIsGranted
  <1> QED
    BY <1>1, <1>2, <1>3 DEF IInv, LocksProtect

\* A step that moves no XP and no grant keeps the invariant as soon as it keeps
\* its part on the locks and on what was read.
LEMMA LocksSuffice ==
    ASSUME IInv, TypeOK', UNCHANGED <<tasks, progressions, grants, rolls>>,
           TaskLocksHeld', ProgressionLocksHeld', OwnersMatch',
           ReadIsCurrent', NotYetGranted'
    PROVE  IInv'
  BY DEF IInv, LocksProtect, TablesAgree, CompletedIsGranted

\* An abandoned request holds no lock any more.
LEMMA AbortInv ==
    ASSUME IInv, NEW r \in Requests, Abort(r)
    PROVE  IInv'
  <1>1. TypeOK'
    BY AbortType DEF IInv, LocksProtect
  <1>2. /\ pc' = [pc EXCEPT ![r] = "answered"]
        /\ buffer' = [buffer EXCEPT ![r] = NoBuffer]
        /\ UNCHANGED <<tasks, progressions, grants, rolls, call>>
        /\ Release(r)
    BY DEF Abort, Forget, database
  <1>3. pc \in [Requests -> Labels] /\ buffer \in [Requests -> Buffers] /\ LocksOK
    BY DEF IInv, LocksProtect, TypeOK, RequestsOK
  <1>4. TaskLocksHeld' /\ ProgressionLocksHeld'
    BY <1>2, <1>3, NoneAssumption
    DEF IInv, LocksProtect, Release, LocksOK, TaskLocksHeld, ProgressionLocksHeld, InTransaction,
        Writing
  <1>5. OwnersMatch' /\ ReadIsCurrent' /\ NotYetGranted'
    BY <1>2, <1>3 DEF IInv, LocksProtect, OwnersMatch, ReadIsCurrent, NotYetGranted, InTransaction,
                      Writing, Granting
  <1> QED
    BY <1>1, <1>2, <1>4, <1>5, LocksSuffice

\* Owner and administrator wait for locked rows and leave requests alone.
LEMMA OthersInv ==
    ASSUME IInv,
           \/ \E t \in Tasks : Create(t) \/ Update(t) \/ Archive(t)
           \/ \E it \in inventory : Equip(it) \/ Unequip(it)
           \/ \E c \in Catalog : CreateItem(c) \/ DisableItem(c)
    PROVE  IInv'
  <1>1. TypeOK'
    BY OthersType DEF IInv, LocksProtect
  <1>2. UNCHANGED <<progressions, grants, rolls, taskLock, progressionLock, pc,
                    call, buffer>>
    BY DEF Create, Update, Archive, Equip, Unequip, CreateItem, DisableItem,
           database, locks, locals
  <1>3. /\ TaskLocksHeld' /\ ProgressionLocksHeld' /\ OwnersMatch'
        /\ ReadIsCurrent' /\ NotYetGranted' /\ TablesAgree'
    BY <1>2 DEF IInv, LocksProtect, TaskLocksHeld, ProgressionLocksHeld, OwnersMatch, ReadIsCurrent,
                NotYetGranted, TablesAgree
  <1>4. CompletedIsGranted'
    <2>1. CASE UNCHANGED tasks
      BY <1>2, <2>1 DEF IInv, LocksProtect, CompletedIsGranted
    <2>2. ASSUME NEW t \in Tasks, Create(t)
          PROVE  CompletedIsGranted'
      BY <1>2, <2>2 DEF Create, IInv, LocksProtect, TypeOK, DatabaseOK, CompletedIsGranted
    <2>3. ASSUME NEW t \in Tasks, Update(t)
          PROVE  CompletedIsGranted'
      <3>1. \A s \in Tasks : tasks'[s].status = tasks[s].status
        BY <2>3 DEF Update, IInv, LocksProtect, TypeOK, DatabaseOK, TaskRows
      <3> QED
        BY <1>2, <3>1 DEF IInv, LocksProtect, CompletedIsGranted
    <2>4. ASSUME NEW t \in Tasks, Archive(t)
          PROVE  CompletedIsGranted'
      <3>1. \A s \in Tasks : tasks'[s].status =
                               IF s = t THEN "archived" ELSE tasks[s].status
        BY <2>4 DEF Archive, IInv, LocksProtect, TypeOK, DatabaseOK, TaskRows
      <3> QED
        BY <1>2, <3>1 DEF IInv, LocksProtect, CompletedIsGranted
    <2> QED
      BY <2>1, <2>2, <2>3, <2>4
      DEF Equip, Unequip, CreateItem, DisableItem, database
  <1> QED
    BY <1>1, <1>3, <1>4 DEF IInv, LocksProtect

\* The reads before and after the transaction hold no lock.
LEMMA ServiceInv ==
    ASSUME IInv, NEW r \in Requests,
           \/ TaskForCompletion(r) \/ PlanRewards(r) \/ ReadGrant(r)
           \/ ReadRoll(r) \/ ReadProgression(r) \/ AttachVisual(r)
    PROVE  IInv'
  <1>1. TypeOK'
    BY ServiceType DEF IInv, LocksProtect
  <1>2. /\ UNCHANGED <<tasks, progressions, grants, rolls, taskLock,
                       progressionLock, call, buffer>>
        /\ pc[r] \notin InTransaction
        /\ \E to \in Labels \ InTransaction : pc' = [pc EXCEPT ![r] = to]
    <2>1. CASE TaskForCompletion(r)
      BY <2>1 DEF TaskForCompletion, Goto, database, locks, InTransaction, Labels
    <2>2. CASE PlanRewards(r)
      <3>1. pc[r] = "plan" /\ pc' = [pc EXCEPT ![r] = "lockTask"]
            /\ UNCHANGED <<database, locks, call, buffer>>
        BY <2>2 DEF PlanRewards, Goto
      <3> QED
        BY <3>1 DEF database, locks, InTransaction, Labels
    <2>3. CASE ReadGrant(r)
      BY <2>3 DEF ReadGrant, Goto, database, locks, InTransaction, Labels
    <2>4. CASE ReadRoll(r)
      BY <2>4 DEF ReadRoll, Goto, database, locks, InTransaction, Labels
    <2>5. CASE ReadProgression(r)
      BY <2>5 DEF ReadProgression, Goto, database, locks, InTransaction, Labels
    <2>6. CASE AttachVisual(r)
      BY <2>6 DEF AttachVisual, Goto, database, locks, InTransaction, Labels
    <2> QED
      BY <2>1, <2>2, <2>3, <2>4, <2>5, <2>6
  <1>3. pc \in [Requests -> Labels]
    BY DEF IInv, LocksProtect, TypeOK, RequestsOK
  <1>4. TaskLocksHeld' /\ ProgressionLocksHeld' /\ ReadIsCurrent' /\ NotYetGranted'
    BY <1>2, <1>3 DEF IInv, LocksProtect, TaskLocksHeld, ProgressionLocksHeld, ReadIsCurrent,
                      NotYetGranted, Writing, Granting
  <1>5. OwnersMatch'
    <2>1. pc'[r] \in {"idle", "answered"} \/ Owner[call[r].task] = call[r].user
      BY <1>3 DEF TaskForCompletion, PlanRewards, ReadGrant, ReadRoll,
                  ReadProgression, AttachVisual, Visible, Goto, IInv, LocksProtect, OwnersMatch
    <2> QED
      BY <1>2, <1>3, <2>1 DEF IInv, LocksProtect, OwnersMatch
  <1> QED
    BY <1>1, <1>2, <1>4, <1>5, LocksSuffice

\* The statements before the commit take locks and write nothing others see.
LEMMA TransactionInv ==
    ASSUME IInv, NEW r \in Requests,
           \/ LockTask(r) \/ LockProgression(r) \/ InsertGrant(r)
           \/ InsertLevelRewards(r) \/ InsertDropAndRoll(r)
    PROVE  IInv'
  <1>1. TypeOK'
    BY TransactionType DEF IInv, LocksProtect
  <1>2. /\ call[r].user \in Users /\ call[r].task \in Tasks
        /\ pc \in [Requests -> Labels] /\ buffer \in [Requests -> Buffers]
        /\ LocksOK
    BY DEF IInv, LocksProtect, TypeOK, RequestsOK
  <1>3. CASE LockTask(r)
    <2> DEFINE t == call[r].task
               proceed == Visible(r) /\ tasks[t].status # "completed"
    <2>1. /\ taskLock[t] = None /\ pc[r] = "lockTask"
          /\ taskLock' = [taskLock EXCEPT ![t] = IF proceed THEN r ELSE None]
          /\ proceed => pc' = [pc EXCEPT ![r] = "lockProgression"]
          /\ ~proceed => \E to \in {"answered", "readGrant"} :
                            pc' = [pc EXCEPT ![r] = to]
          /\ UNCHANGED <<tasks, progressions, grants, rolls, progressionLock,
                         call, buffer>>
      BY <1>3 DEF LockTask, Goto, database
    <2> HIDE DEF proceed
    <2>2. TaskLocksHeld'
      BY <1>2, <2>1, NoneAssumption
      DEF IInv, LocksProtect, TaskLocksHeld, InTransaction, LocksOK
    <2>3. ProgressionLocksHeld' /\ OwnersMatch' /\ ReadIsCurrent' /\ NotYetGranted'
      BY <1>2, <2>1
      DEF IInv, LocksProtect, ProgressionLocksHeld, OwnersMatch, ReadIsCurrent, NotYetGranted,
          InTransaction, Writing, Granting
    <2> QED
      BY <1>1, <2>1, <2>2, <2>3, LocksSuffice
  <1>4. CASE LockProgression(r)
    <2>1. /\ progressionLock[call[r].user] = None /\ pc[r] = "lockProgression"
          /\ progressionLock' = [progressionLock EXCEPT ![call[r].user] = r]
          /\ pc' = [pc EXCEPT ![r] = "insertGrant"]
          /\ UNCHANGED <<tasks, progressions, grants, rolls, taskLock, call>>
      BY <1>4 DEF LockProgression, Goto, database
    <2>2. /\ buffer'[r].xp = progressions[call[r].user].xp
          /\ buffer'[r].level = progressions[call[r].user].level
          /\ \A q \in Requests \ {r} : buffer'[q] = buffer[q]
      BY <1>2, <1>4 DEF LockProgression, NoBuffer
    <2>3. TaskLocksHeld' /\ OwnersMatch' /\ NotYetGranted'
      BY <1>2, <2>1 DEF IInv, LocksProtect, TaskLocksHeld, OwnersMatch, NotYetGranted,
                        InTransaction, Writing, Granting
    <2>4. ProgressionLocksHeld'
      BY <1>2, <2>1, NoneAssumption
      DEF IInv, LocksProtect, ProgressionLocksHeld, InTransaction, Writing, LocksOK
    <2>5. ReadIsCurrent'
      BY <1>2, <2>1, <2>2 DEF IInv, LocksProtect, ReadIsCurrent, InTransaction, Writing
    <2> QED
      BY <1>1, <2>1, <2>3, <2>4, <2>5, LocksSuffice
  <1>5. CASE InsertGrant(r)
    <2> DEFINE conflict == call[r].task \in DOMAIN grants
    <2>1. pc[r] = "insertGrant"
          /\ UNCHANGED <<tasks, progressions, grants, rolls, call>>
      BY <1>5 DEF InsertGrant, Goto, database
    <2>2. CASE conflict
      <3>1. /\ pc' = [pc EXCEPT ![r] = "readGrant"]
            /\ buffer' = [buffer EXCEPT ![r] = NoBuffer]
            /\ Release(r)
        BY <1>5, <2>2 DEF InsertGrant, Goto, Forget
      <3>2. TaskLocksHeld' /\ ProgressionLocksHeld'
        BY <1>2, <2>1, <3>1, NoneAssumption
        DEF IInv, LocksProtect, Release, LocksOK, TaskLocksHeld, ProgressionLocksHeld,
            InTransaction, Writing
      <3>3. OwnersMatch' /\ ReadIsCurrent' /\ NotYetGranted'
        BY <1>2, <2>1, <3>1 DEF IInv, LocksProtect, OwnersMatch, ReadIsCurrent, NotYetGranted,
                                InTransaction, Writing, Granting
      <3> QED
        BY <1>1, <2>1, <3>2, <3>3, LocksSuffice
    <2>3. CASE ~conflict
      <3>1. /\ pc' = [pc EXCEPT ![r] = "levelRewards"]
            /\ UNCHANGED <<taskLock, progressionLock, buffer>>
        BY <1>5, <2>3 DEF InsertGrant, Goto, locks
      <3>2. /\ TaskLocksHeld' /\ ProgressionLocksHeld' /\ OwnersMatch'
            /\ ReadIsCurrent' /\ NotYetGranted'
        BY <1>2, <2>1, <2>3, <3>1
        DEF IInv, LocksProtect, TaskLocksHeld, ProgressionLocksHeld, OwnersMatch, ReadIsCurrent,
            NotYetGranted, InTransaction, Writing, Granting
      <3> QED
        BY <1>1, <2>1, <3>2, LocksSuffice
    <2> QED
      BY <2>2, <2>3
  <1>6. CASE InsertLevelRewards(r) \/ InsertDropAndRoll(r)
    <2>1. CASE Abort(r)
      BY <2>1, AbortInv
    <2>2. CASE ~Abort(r)
      <3>1. /\ pc[r] \in {"levelRewards", "drop"}
            /\ \E to \in {"drop", "commit"} : pc' = [pc EXCEPT ![r] = to]
            /\ UNCHANGED <<tasks, progressions, grants, rolls, taskLock,
                           progressionLock, call>>
        BY <1>6, <2>2
        DEF InsertLevelRewards, InsertDropAndRoll, Goto, database, locks, locals
      <3>2. \A q \in Requests : /\ buffer'[q].xp = buffer[q].xp
                                /\ buffer'[q].level = buffer[q].level
        <4>1. CASE InsertLevelRewards(r)
          BY <1>2, <4>1, <2>2 DEF InsertLevelRewards, locals, Buffers
        <4>2. CASE InsertDropAndRoll(r)
          BY <1>2, <4>2, <2>2 DEF InsertDropAndRoll, locals, Buffers
        <4> QED
          BY <1>6, <4>1, <4>2
      <3>3. /\ TaskLocksHeld' /\ ProgressionLocksHeld' /\ OwnersMatch'
            /\ ReadIsCurrent' /\ NotYetGranted'
        <4>1. TaskLocksHeld' /\ ProgressionLocksHeld'
          BY <1>2, <3>1 DEF IInv, LocksProtect, TaskLocksHeld,
                            ProgressionLocksHeld, InTransaction, Writing
        <4>2. OwnersMatch' /\ NotYetGranted'
          BY <1>2, <3>1 DEF IInv, LocksProtect, OwnersMatch, NotYetGranted,
                            InTransaction, Writing, Granting
        <4>3. ReadIsCurrent'
          BY <1>2, <3>1, <3>2 DEF IInv, LocksProtect, ReadIsCurrent,
                                  InTransaction, Writing
        <4> QED
          BY <4>1, <4>2, <4>3
      <3> QED
        BY <1>1, <3>1, <3>3, LocksSuffice
    <2> QED
      BY <2>1, <2>2
  <1> QED
    BY <1>3, <1>4, <1>5, <1>6

\* What a commit does to the tables, as far as the invariant tells them apart.
LEMMA CommitEffect ==
    ASSUME IInv, NEW r \in Requests, NEW acknowledged \in BOOLEAN,
           Commit(r, acknowledged)
    PROVE  LET u == call[r].user
               t == call[r].task
           IN  /\ u \in Users /\ t \in Tasks /\ Owner[t] = u
               /\ t \notin DOMAIN grants
               /\ DOMAIN grants' = DOMAIN grants \cup {t}
               /\ DOMAIN rolls' = DOMAIN rolls \cup {t}
               /\ \A s \in DOMAIN grants : grants'[s] = grants[s]
               /\ \A s \in DOMAIN rolls : rolls'[s] = rolls[s]
               /\ grants'[t].final = plan[r].final
               /\ rolls'[t].rarity = plan[r].rarity
               /\ progressions'[u].xp = progressions[u].xp + grants'[t].final
               /\ progressions'[u].level = LevelForXP(progressions'[u].xp)
               /\ \A v \in Users \ {u} : progressions'[v] = progressions[v]
  <1> DEFINE u == call[r].user
             t == call[r].task
  <1>1. u \in Users /\ t \in Tasks
    BY DEF IInv, LocksProtect, TypeOK, RequestsOK
  <1>2. pc[r] = "commit"
    BY DEF Commit, Goto
  <1>3. /\ Owner[t] = u /\ t \notin DOMAIN grants
        /\ buffer[r].xp = progressions[u].xp
    BY <1>2 DEF IInv, LocksProtect, OwnersMatch, NotYetGranted, ReadIsCurrent, Granting, Writing,
                InTransaction
  <1>4. DOMAIN rolls = DOMAIN grants
    BY DEF IInv, LocksProtect, TablesAgree
  <1>5. /\ DOMAIN grants' = DOMAIN grants \cup {t}
        /\ \A s \in DOMAIN grants : grants'[s] = grants[s]
        /\ grants'[t].final = plan[r].final
    BY <1>3 DEF Commit, Insert
  <1>6. /\ DOMAIN rolls' = DOMAIN rolls \cup {t}
        /\ \A s \in DOMAIN rolls : rolls'[s] = rolls[s]
        /\ rolls'[t].rarity = plan[r].rarity
    BY <1>3, <1>4 DEF Commit, Insert
  <1>7. /\ progressions'[u].xp = progressions[u].xp + plan[r].final
        /\ progressions'[u].level = LevelForXP(progressions'[u].xp)
        /\ \A v \in Users \ {u} : progressions'[v] = progressions[v]
    <2> DEFINE new == buffer[r].xp + plan[r].final
    <2>1. progressions' = [progressions EXCEPT ![u] =
                             [xp |-> new, level |-> LevelForXP(new)]]
      BY DEF Commit
    <2>2. u \in DOMAIN progressions
      BY <1>1 DEF IInv, LocksProtect, TypeOK, DatabaseOK
    <2>3. new = progressions[u].xp + plan[r].final
      BY <1>3
    <2> HIDE DEF new
    <2>4. progressions'[u] = [xp |-> new, level |-> LevelForXP(new)]
      BY <2>1, <2>2
    <2> QED
      BY <2>1, <2>2, <2>3, <2>4 DEF IInv, LocksProtect, TypeOK, DatabaseOK
  <1> QED
    BY <1>1, <1>3, <1>5, <1>6, <1>7

\* The commit pays the locked task out of the locked progression.
LEMMA CommitInv ==
    ASSUME IInv, NEW r \in Requests, NEW acknowledged \in BOOLEAN,
           Commit(r, acknowledged)
    PROVE  IInv'
  <1> DEFINE u == call[r].user
             t == call[r].task
  <1>1. TypeOK'
    BY CommitType DEF IInv, LocksProtect
  <1>2. /\ u \in Users /\ t \in Tasks
        /\ pc \in [Requests -> Labels] /\ buffer \in [Requests -> Buffers]
        /\ call \in [Requests -> [user : Users, task : Tasks]] /\ LocksOK
    BY DEF IInv, LocksProtect, TypeOK, RequestsOK
  <1>3. /\ pc[r] = "commit"
        /\ \E to \in {"visual", "answered"} : pc' = [pc EXCEPT ![r] = to]
        /\ buffer' = [buffer EXCEPT ![r] = NoBuffer]
        /\ UNCHANGED call
        /\ Release(r)
    BY DEF Commit, Goto, Forget
  <1>4. /\ Owner[t] = u
        /\ DOMAIN grants' = DOMAIN grants \cup {t}
        /\ DOMAIN rolls' = DOMAIN rolls \cup {t}
        /\ progressions'[u].level = LevelForXP(progressions'[u].xp)
        /\ \A v \in Users \ {u} : progressions'[v] = progressions[v]
    BY CommitEffect
  <1>5. taskLock[t] = r /\ progressionLock[u] = r
    BY <1>2, <1>3 DEF IInv, LocksProtect, TaskLocksHeld, ProgressionLocksHeld, Writing, InTransaction
  <1>6. TaskLocksHeld' /\ ProgressionLocksHeld'
    BY <1>2, <1>3, NoneAssumption
    DEF IInv, LocksProtect, Release, LocksOK, TaskLocksHeld, ProgressionLocksHeld, InTransaction,
        Writing
  <1>7. OwnersMatch'
    BY <1>2, <1>3, <1>4 DEF IInv, LocksProtect, OwnersMatch
  <1>8. ReadIsCurrent'
    <2> SUFFICES ASSUME NEW q \in Requests, pc'[q] \in Writing
                 PROVE  /\ buffer'[q].xp = progressions'[call[q].user].xp
                        /\ buffer'[q].level = progressions'[call[q].user].level
      BY <1>3 DEF ReadIsCurrent
    <2>1. q # r /\ pc[q] \in Writing /\ buffer'[q] = buffer[q]
      BY <1>2, <1>3 DEF Writing, InTransaction
    <2>2. call[q].user \in Users /\ call[q].user # u
      BY <1>2, <1>5, <2>1 DEF IInv, LocksProtect, ProgressionLocksHeld
    <2> QED
      BY <1>4, <2>1, <2>2 DEF IInv, LocksProtect, ReadIsCurrent
  <1>9. NotYetGranted'
    <2> SUFFICES ASSUME NEW q \in Requests, pc'[q] \in Granting
                 PROVE  call[q].task \notin DOMAIN grants'
      BY <1>3 DEF NotYetGranted
    <2>1. q # r /\ pc[q] \in Granting /\ pc[q] \in InTransaction
      BY <1>2, <1>3 DEF Granting, Writing, InTransaction
    <2>2. call[q].task \in Tasks /\ call[q].task # t
      BY <1>2, <1>5, <2>1 DEF IInv, LocksProtect, TaskLocksHeld
    <2> QED
      BY <1>4, <2>1, <2>2 DEF IInv, LocksProtect, NotYetGranted
  <1>10. TablesAgree'
    BY <1>4 DEF IInv, LocksProtect, TablesAgree
  <1>11. CompletedIsGranted'
    <2>1. \A s \in Tasks : tasks'[s].status =
                             IF s = t THEN "completed" ELSE tasks[s].status
      BY <1>2 DEF Commit, IInv, LocksProtect, TypeOK, DatabaseOK, TaskRows
    <2> QED
      BY <1>4, <2>1 DEF IInv, LocksProtect, CompletedIsGranted
  <1> QED
    BY <1>1, <1>6, <1>7, <1>8, <1>9, <1>10, <1>11 DEF IInv, LocksProtect

\* Every step keeps the invariant.
LEMMA NextInv == IInv /\ [Next]_vars => IInv'
  <1> SUFFICES ASSUME IInv, [Next]_vars
               PROVE  IInv'
    OBVIOUS
  <1>1. ASSUME NEW r \in Requests, TaskForCompletion(r) \/ Step(r) \/ Fail(r)
        PROVE  IInv'
    BY <1>1, ServiceInv, TransactionInv, CommitInv, AbortInv DEF Step, Fail
  <1>2. CASE UNCHANGED vars
    <2>1. TypeOK'
      BY NextType DEF IInv, LocksProtect
    <2>2. UNCHANGED <<tasks, progressions, grants, rolls, taskLock,
                      progressionLock, pc, call, buffer>>
      BY <1>2 DEF vars, database, locks, locals
    <2>3. /\ TaskLocksHeld' /\ ProgressionLocksHeld' /\ OwnersMatch'
          /\ ReadIsCurrent' /\ NotYetGranted'
      BY <2>2 DEF IInv, LocksProtect, TaskLocksHeld, ProgressionLocksHeld, OwnersMatch,
                  ReadIsCurrent, NotYetGranted
    <2> QED
      BY <2>1, <2>2, <2>3, LocksSuffice
  <1> QED
    BY <1>1, <1>2, OthersInv DEF Next

\* The invariant holds in every reachable state.
LEMMA Inductive == Spec => []IInv
  BY InitInv, NextInv, PTL DEF Spec

-----------------------------------------------------------------------------
(* What follows from it. *)

\* Row locks protect what a transaction has read until it commits
\* (rewardrepo/complete_tx.go, SELECT ... FOR UPDATE).
THEOREM LocksProtectReads == Spec => []LocksProtect
  <1>1. IInv => LocksProtect
    BY DEF IInv
  <1> QED
    BY <1>1, Inductive, PTL

\* A completed task has its grant and a granted task never becomes active again,
\* whatever is archived, edited, retried or rolled back next to it.
THEOREM CompletedTasksAreGranted == Spec => []CompletedIsGranted
  <1>1. IInv => CompletedIsGranted
    BY DEF IInv
  <1> QED
    BY <1>1, Inductive, PTL

\* Only a commit writes progressions, grants and rolls.
LEMMA OnlyCommitWrites ==
    ASSUME [Next]_vars
    PROVE  \/ UNCHANGED <<progressions, grants, rolls>>
           \/ \E r \in Requests, acknowledged \in BOOLEAN : Commit(r, acknowledged)
  <1> SUFFICES ASSUME ~UNCHANGED <<progressions, grants, rolls>>
               PROVE  \E r \in Requests, acknowledged \in BOOLEAN :
                        Commit(r, acknowledged)
    OBVIOUS
  <1>1. ASSUME NEW r \in Requests, TaskForCompletion(r) \/ Step(r) \/ Fail(r)
        PROVE  \E acknowledged \in BOOLEAN : Commit(r, acknowledged)
    BY <1>1 DEF Step, Fail, Abort, TaskForCompletion, PlanRewards, LockTask,
                LockProgression, InsertGrant, InsertLevelRewards, InsertDropAndRoll,
                ReadGrant, ReadRoll, ReadProgression, AttachVisual, database
  <1>2. ~UNCHANGED vars
    BY DEF vars, database
  <1>3. ASSUME NEW t \in Tasks
        PROVE  ~(Create(t) \/ Update(t) \/ Archive(t))
    BY DEF Create, Update, Archive
  <1>4. ASSUME NEW it \in inventory
        PROVE  ~(Equip(it) \/ Unequip(it))
    BY DEF Equip, Unequip, database
  <1>5. ASSUME NEW c \in Catalog
        PROVE  ~(CreateItem(c) \/ DisableItem(c))
    BY DEF CreateItem, DisableItem, database
  <1> QED
    BY <1>1, <1>2, <1>3, <1>4, <1>5 DEF Next

\* Grants and rolls are written once: no interleaving of requests, edits,
\* archiving and failures changes or removes one (UNIQUE task_id, ON CONFLICT).
THEOREM GrantsNeverChange == Spec => GrantsAreFinal
  <1> DEFINE Kept ==
        /\ \A t \in DOMAIN grants : t \in DOMAIN grants' /\ grants'[t] = grants[t]
        /\ \A t \in DOMAIN rolls : t \in DOMAIN rolls' /\ rolls'[t] = rolls[t]
  <1>1. IInv /\ [Next]_vars => [Kept]_<<grants, rolls>>
    BY OnlyCommitWrites, CommitEffect
  <1> QED
    BY <1>1, Inductive, PTL DEF Spec, GrantsAreFinal

\* XP moves only with a first grant, to its owner and by exactly its amount: the
\* step by which the XP totals stay the sums of the grants, for any number of
\* users, tasks and concurrent requests.
THEOREM XPMovesOnlyWithGrants == Spec => XPMovesWithGrants
  <1> DEFINE Paid ==
        \/ progressions' = progressions /\ grants' = grants
        \/ \E t \in Tasks \ DOMAIN grants :
             /\ DOMAIN grants' = DOMAIN grants \cup {t}
             /\ \A s \in DOMAIN grants : grants'[s] = grants[s]
             /\ \A u \in Users : progressions'[u].xp = progressions[u].xp +
                                   (IF u = Owner[t] THEN grants'[t].final ELSE 0)
  <1>1. IInv /\ [Next]_vars => [Paid]_<<progressions, grants>>
    <2> SUFFICES ASSUME IInv, [Next]_vars
                 PROVE  Paid
      OBVIOUS
    <2>1. CASE UNCHANGED <<progressions, grants, rolls>>
      BY <2>1
    <2>2. ASSUME NEW r \in Requests, NEW acknowledged \in BOOLEAN,
                 Commit(r, acknowledged)
          PROVE  Paid
      <3> DEFINE t == call[r].task
      <3>1. /\ t \in Tasks \ DOMAIN grants
            /\ DOMAIN grants' = DOMAIN grants \cup {t}
            /\ \A s \in DOMAIN grants : grants'[s] = grants[s]
            /\ progressions'[Owner[t]].xp =
                  progressions[Owner[t]].xp + grants'[t].final
            /\ \A v \in Users \ {Owner[t]} : progressions'[v] = progressions[v]
        BY <2>2, CommitEffect
      <3>2. \A v \in Users : progressions[v].xp \in Nat
        BY DEF IInv, TypeOK, DatabaseOK
      <3>3. \A v \in Users : progressions'[v].xp = progressions[v].xp +
                               (IF v = Owner[t] THEN grants'[t].final ELSE 0)
        BY <3>1, <3>2
      <3> QED
        BY <3>1, <3>3
    <2> QED
      BY <2>1, <2>2, OnlyCommitWrites
  <1> QED
    BY <1>1, Inductive, PTL DEF Spec, XPMovesWithGrants

-----------------------------------------------------------------------------
(* The answers.  What a request has put into its answer is what is stored,   *)
(* and what is stored never changes.                                         *)

\* A user's XP contains each single grant.
XPContainsGrants ==
    /\ \A u \in Users : StartXP[u] <= progressions[u].xp
    /\ \A t \in DOMAIN grants :
          StartXP[Owner[t]] + grants[t].final <= progressions[Owner[t]].xp

ShowsGrant(r) ==
    /\ call[r].task \in DOMAIN grants
    /\ answer[r].final = grants[call[r].task].final

\* The stored rarity, or no drop where a repeated answer could not read it.
ShowsRoll(r) ==
    \/ answer[r].rarity = rolls[call[r].task].rarity
    \/ ~answer[r].fresh /\ answer[r].rarity = NoDrop

ShowsXP(r) ==
    /\ StartXP[call[r].user] + answer[r].final <= answer[r].after
    /\ answer[r].after <= progressions[call[r].user].xp
    /\ answer[r].fresh => answer[r].after = answer[r].before + answer[r].final

AnswerOK(r) ==
    /\ pc[r] \in {"readRoll", "readProgression", "visual"} => ShowsGrant(r)
    /\ pc[r] \in {"readProgression", "visual"} => ShowsRoll(r)
    /\ pc[r] = "visual" => ShowsXP(r)
    /\ answer[r].kind = "ok" =>
          pc[r] = "answered" /\ ShowsGrant(r) /\ ShowsRoll(r) /\ ShowsXP(r)
    /\ answer[r].fresh =>
          pc[r] \in {"visual", "answered"} /\ call[r].task \in DOMAIN grants

OneFresh ==
    \A q, r \in Requests :
        answer[q].fresh /\ answer[r].fresh /\ call[q].task = call[r].task => q = r

AInv ==
    /\ XPContainsGrants
    /\ \A r \in Requests : AnswerOK(r)
    /\ OneFresh

\* The tables only grow.
LEMMA TablesGrow ==
    ASSUME IInv, [Next]_vars
    PROVE  /\ \A t \in DOMAIN grants : t \in DOMAIN grants' /\ grants'[t] = grants[t]
           /\ \A t \in DOMAIN grants : rolls'[t] = rolls[t]
           /\ \A u \in Users : /\ progressions[u].xp \in Nat
                               /\ progressions'[u].xp \in Nat
                               /\ progressions[u].xp <= progressions'[u].xp
  <1>1. DOMAIN rolls = DOMAIN grants
    BY DEF IInv, TablesAgree
  <1>2. \A u \in Users : progressions[u].xp \in Nat
    BY DEF IInv, TypeOK, DatabaseOK
  <1>3. CASE UNCHANGED <<progressions, grants, rolls>>
    BY <1>2, <1>3
  <1>4. ASSUME NEW r \in Requests, NEW acknowledged \in BOOLEAN,
               Commit(r, acknowledged)
        PROVE  /\ \A t \in DOMAIN grants : t \in DOMAIN grants' /\ grants'[t] = grants[t]
               /\ \A t \in DOMAIN grants : rolls'[t] = rolls[t]
               /\ \A u \in Users : /\ progressions'[u].xp \in Nat
                                   /\ progressions[u].xp <= progressions'[u].xp
    <2>1. plan[r].final \in Nat
      BY SMT DEF IInv, TypeOK, RequestsOK, Plans
    <2> DEFINE u == call[r].user
    <2>2. /\ u \in Users
          /\ progressions'[u].xp = progressions[u].xp + plan[r].final
          /\ \A v \in Users \ {u} : progressions'[v] = progressions[v]
      BY <1>4, CommitEffect
    <2>3. \A v \in Users : /\ progressions'[v].xp \in Nat
                           /\ progressions[v].xp <= progressions'[v].xp
      BY <1>2, <2>1, <2>2
    <2> QED
      BY <1>1, <1>4, <2>3, CommitEffect
  <1> QED
    BY <1>2, <1>3, <1>4, OnlyCommitWrites

\* A total that contains every grant of its user's tasks still does after a
\* step (complete_tx.go, UPDATE progressions).
LEMMA XPContainsGrantsStep ==
    ASSUME IInv, [Next]_vars, XPContainsGrants
    PROVE  XPContainsGrants'
  <1>1. \A u \in Users : StartXP[u] \in Nat
    BY StartAssumption
  <1>2. \A t \in DOMAIN grants : Owner[t] \in Users /\ grants[t].final \in Nat
    BY OwnerAssumption, SMT DEF IInv, TypeOK, DatabaseOK, Grants
  <1>3. CASE UNCHANGED <<progressions, grants, rolls>>
    BY <1>3 DEF XPContainsGrants
  <1>4. ASSUME NEW r \in Requests, NEW acknowledged \in BOOLEAN,
               Commit(r, acknowledged)
        PROVE  XPContainsGrants'
    <2> DEFINE t == call[r].task
    <2>1. /\ Owner[t] \in Users
          /\ DOMAIN grants' = DOMAIN grants \cup {t}
          /\ progressions'[Owner[t]].xp = progressions[Owner[t]].xp + grants'[t].final
      BY <1>4, CommitEffect
    <2>2. \A s \in DOMAIN grants :
            StartXP[Owner[s]] + grants'[s].final <= progressions'[Owner[s]].xp
      BY <1>1, <1>2, TablesGrow DEF XPContainsGrants
    <2>3. grants'[t].final \in Nat
      <3>1. plan[r].final \in Nat
        BY SMT DEF IInv, TypeOK, RequestsOK, Plans
      <3> QED
        BY <1>4, <3>1, CommitEffect
    <2>4. StartXP[Owner[t]] + grants'[t].final <= progressions'[Owner[t]].xp
      BY <1>1, <2>1, <2>3, TablesGrow DEF XPContainsGrants
    <2>5. \A u \in Users : StartXP[u] <= progressions'[u].xp
      BY <1>1, TablesGrow DEF XPContainsGrants
    <2> QED
      BY <2>1, <2>2, <2>4, <2>5 DEF XPContainsGrants
  <1> QED
    BY <1>3, <1>4, OnlyCommitWrites

\* A request that does not move keeps its answer, which stays true.
LEMMA AnswerKept ==
    ASSUME IInv, [Next]_vars, NEW q \in Requests, AnswerOK(q),
           pc'[q] = pc[q], answer'[q] = answer[q], call' = call
    PROVE  AnswerOK(q)'
  <1>1. call[q].user \in Users
    BY DEF IInv, TypeOK, RequestsOK
  <1>2. answer[q] \in Answers
    BY DEF IInv, TypeOK, RequestsOK
  <1>3. answer[q].after \in Nat
    BY <1>2 DEF Answers
  <1>4. ShowsGrant(q) => ShowsGrant(q)'
    BY TablesGrow DEF ShowsGrant
  <1>5. ShowsGrant(q) /\ ShowsRoll(q) => ShowsRoll(q)'
    BY TablesGrow DEF ShowsGrant, ShowsRoll
  <1>6. ShowsXP(q) => ShowsXP(q)'
    BY <1>1, <1>3, TablesGrow DEF ShowsXP
  <1>7. answer[q].fresh /\ call[q].task \in DOMAIN grants
          => call[q].task \in DOMAIN grants'
    BY TablesGrow
  <1> QED
    BY <1>4, <1>5, <1>6, <1>7 DEF AnswerOK

\* A step whose request shows nothing afterwards, fails, or has not shown
\* anything yet.
LEMMA NothingShown ==
    ASSUME NEW r \in Requests, answer'[r].kind # "ok", ~answer'[r].fresh,
           pc'[r] \notin {"readRoll", "readProgression", "visual"}
    PROVE  AnswerOK(r)'
  BY DEF AnswerOK

\* Before its transaction commits a request is neither answered nor fresh, and
\* these steps leave it so.
LEMMA AnswerBefore ==
    ASSUME IInv, NEW r \in Requests, AnswerOK(r),
           \/ TaskForCompletion(r) \/ PlanRewards(r) \/ LockTask(r)
           \/ LockProgression(r) \/ InsertGrant(r) \/ Abort(r)
           \/ InsertLevelRewards(r) \/ InsertDropAndRoll(r)
    PROVE  AnswerOK(r)' /\ ~answer'[r].fresh
  <1>1. answer \in [Requests -> Answers] /\ pc \in [Requests -> Labels]
    BY DEF IInv, TypeOK, RequestsOK
  <1>2. answer[r] \in Answers
    BY <1>1
  <1>3. CASE Abort(r)
    BY <1>1, <1>3, NothingShown DEF Abort, NoAnswer
  <1>4. CASE TaskForCompletion(r) \/ LockTask(r)
    <2>1. PICK k \in {"none", "notFound"} :
            answer' = [answer EXCEPT ![r] = [answer[r] EXCEPT !.kind = k]]
      BY <1>1, <1>4 DEF TaskForCompletion, LockTask
    <2>2. answer'[r].kind = k /\ answer'[r].fresh = answer[r].fresh
      BY <1>1, <1>2, <2>1 DEF Answers
    <2>3. /\ pc[r] \in {"idle", "lockTask"}
          /\ pc'[r] \in {"answered", "readGrant", "plan", "lockProgression"}
      BY <1>1, <1>4 DEF TaskForCompletion, LockTask, Goto
    <2>4. ~answer[r].fresh
      BY <2>3 DEF AnswerOK
    <2> QED
      BY <2>2, <2>3, <2>4, NothingShown
  <1>5. CASE \/ PlanRewards(r) \/ LockProgression(r) \/ InsertGrant(r)
             \/ (InsertLevelRewards(r) \/ InsertDropAndRoll(r)) /\ ~Abort(r)
    <2>1. answer' = answer
      BY <1>5 DEF PlanRewards, LockProgression, InsertGrant, InsertLevelRewards,
                  InsertDropAndRoll, locals
    <2>2. /\ pc[r] \notin {"visual", "answered"}
          /\ pc'[r] \notin {"readRoll", "readProgression", "visual", "answered"}
      BY <1>1, <1>5 DEF PlanRewards, LockProgression, InsertGrant,
                        InsertLevelRewards, InsertDropAndRoll, Goto
    <2> QED
      BY <2>1, <2>2, NothingShown DEF AnswerOK
  <1> QED
    BY <1>3, <1>4, <1>5

\* A fresh answer shows what the commit stores.
LEMMA AnswerFresh ==
    ASSUME IInv, XPContainsGrants', NEW r \in Requests,
           NEW acknowledged \in BOOLEAN, Commit(r, acknowledged)
    PROVE  AnswerOK(r)'
  <1> DEFINE u == call[r].user
             t == call[r].task
  <1>1. answer \in [Requests -> Answers] /\ pc \in [Requests -> Labels]
    BY DEF IInv, TypeOK, RequestsOK
  <1>2. CASE ~acknowledged
    <2>1. /\ answer'[r] = [NoAnswer EXCEPT !.kind = "error"]
          /\ pc'[r] = "answered"
      BY <1>1, <1>2 DEF Commit, Goto
    <2> QED
      BY <2>1, NothingShown DEF NoAnswer
  <1>3. CASE acknowledged
    <2> DEFINE new == buffer[r].xp + plan[r].final
    <2>1. /\ pc'[r] = "visual" /\ call' = call
          /\ answer'[r] = [NoAnswer EXCEPT !.fresh = TRUE, !.final = plan[r].final,
                               !.rarity = plan[r].rarity,
                               !.before = buffer[r].xp, !.after = new]
      BY <1>1, <1>3 DEF Commit, Goto
    <2>2. buffer[r].xp = progressions[u].xp
      BY DEF IInv, LocksProtect, ReadIsCurrent, Commit, Goto, Writing, InTransaction
    <2>3. progressions[u].xp \in Nat /\ plan[r].final \in Nat
      BY SMT DEF IInv, TypeOK, DatabaseOK, RequestsOK, Plans
    <2>4. /\ t \in DOMAIN grants' /\ grants'[t].final = plan[r].final
          /\ rolls'[t].rarity = plan[r].rarity
          /\ progressions'[u].xp = new
          /\ Owner[t] = u
      BY <2>2, CommitEffect
    <2>5. StartXP[u] + plan[r].final <= progressions'[u].xp
      BY <2>4 DEF XPContainsGrants
    <2> HIDE DEF new
    <2>6. /\ answer'[r].kind = "none" /\ answer'[r].fresh
          /\ answer'[r].final = plan[r].final /\ answer'[r].rarity = plan[r].rarity
          /\ answer'[r].before = buffer[r].xp /\ answer'[r].after = new
      BY <2>1 DEF NoAnswer
    <2>7. ShowsGrant(r)' /\ ShowsRoll(r)'
      BY <2>1, <2>4, <2>6 DEF ShowsGrant, ShowsRoll
    <2>8. ShowsXP(r)'
      BY <2>1, <2>2, <2>3, <2>4, <2>5, <2>6 DEF ShowsXP, new
    <2> QED
      BY <2>1, <2>4, <2>6, <2>7, <2>8 DEF AnswerOK
  <1> QED
    BY <1>2, <1>3

\* A repeated answer is read from the tables, one table after the other.
LEMMA AnswerRead ==
    ASSUME IInv, XPContainsGrants, NEW r \in Requests, AnswerOK(r),
           ReadGrant(r) \/ ReadRoll(r) \/ ReadProgression(r) \/ AttachVisual(r)
    PROVE  AnswerOK(r)' /\ (answer'[r].fresh => answer[r].fresh)
  <1> DEFINE u == call[r].user
             t == call[r].task
  <1>1. answer \in [Requests -> Answers] /\ pc \in [Requests -> Labels]
        /\ u \in Users
    BY DEF IInv, TypeOK, RequestsOK
  <1>2. answer[r] \in Answers
    BY <1>1
  <1>3. /\ UNCHANGED <<progressions, grants, rolls, call>>
        /\ DOMAIN rolls = DOMAIN grants
    BY DEF ReadGrant, ReadRoll, ReadProgression, AttachVisual, database, IInv,
           TablesAgree
  <1>4. CASE ReadGrant(r)
    <2>1. CASE t \in DOMAIN grants
      <3>1. /\ pc[r] = "readGrant" /\ pc'[r] = "readRoll"
            /\ answer'[r] = [answer[r] EXCEPT !.final = grants[t].final]
        BY <1>1, <1>4, <2>1 DEF ReadGrant, Goto
      <3>2. /\ answer'[r].final = grants[t].final
            /\ answer'[r].kind = answer[r].kind /\ answer'[r].fresh = answer[r].fresh
        BY <1>2, <3>1 DEF Answers
      <3> QED
        BY <1>3, <2>1, <3>1, <3>2 DEF AnswerOK, ShowsGrant
    <2>2. CASE t \notin DOMAIN grants
      <3>1. /\ pc[r] = "readGrant" /\ pc'[r] = "answered"
            /\ answer'[r] = [answer[r] EXCEPT !.kind = "notFound"]
        BY <1>1, <1>4, <2>2 DEF ReadGrant, Goto
      <3>2. answer'[r].kind = "notFound" /\ answer'[r].fresh = answer[r].fresh
        BY <1>2, <3>1 DEF Answers
      <3> QED
        BY <3>1, <3>2 DEF AnswerOK
    <2> QED
      BY <2>1, <2>2
  <1>5. CASE ReadRoll(r)
    <2>1. pc[r] = "readRoll" /\ pc'[r] = "readProgression"
      BY <1>1, <1>5 DEF ReadRoll, Goto
    <2>2. t \in DOMAIN grants
      BY <2>1 DEF AnswerOK, ShowsGrant
    <2>3. PICK rarity \in {rolls[t].rarity, NoDrop} :
            answer'[r] = [answer[r] EXCEPT !.rarity = rarity]
      BY <1>1, <1>3, <1>5, <2>2 DEF ReadRoll
    <2>4. /\ answer'[r].rarity = rarity
          /\ answer'[r].final = answer[r].final
          /\ answer'[r].kind = answer[r].kind /\ answer'[r].fresh = answer[r].fresh
      BY <1>2, <2>3 DEF Answers
    <2>5. ~answer[r].fresh
      BY <2>1 DEF AnswerOK
    <2> QED
      BY <1>3, <2>1, <2>3, <2>4, <2>5 DEF AnswerOK, ShowsGrant, ShowsRoll
  <1>6. CASE ReadProgression(r)
    <2>1. /\ pc[r] = "readProgression" /\ pc'[r] = "visual"
          /\ answer'[r] = [answer[r] EXCEPT !.before = progressions[u].xp,
                                            !.after = progressions[u].xp]
      BY <1>1, <1>6 DEF ReadProgression, Goto
    <2>2. /\ answer'[r].after = progressions[u].xp
          /\ answer'[r].final = answer[r].final /\ answer'[r].rarity = answer[r].rarity
          /\ answer'[r].kind = answer[r].kind /\ answer'[r].fresh = answer[r].fresh
      BY <1>2, <2>1 DEF Answers
    <2>3. t \in DOMAIN grants /\ Owner[t] = u /\ answer[r].final = grants[t].final
      BY <2>1 DEF AnswerOK, ShowsGrant, IInv, LocksProtect, OwnersMatch
    <2>4. /\ StartXP[u] + answer[r].final <= progressions[u].xp
          /\ progressions[u].xp \in Nat
      BY <1>1, <2>3 DEF XPContainsGrants, IInv, TypeOK, DatabaseOK
    <2>5. ~answer[r].fresh
      BY <2>1 DEF AnswerOK
    <2>6. ShowsXP(r)'
      BY <1>3, <2>2, <2>4, <2>5 DEF ShowsXP
    <2> QED
      BY <1>3, <2>1, <2>2, <2>5, <2>6 DEF AnswerOK, ShowsGrant, ShowsRoll
  <1>7. CASE AttachVisual(r)
    <2>1. /\ pc[r] = "visual" /\ pc'[r] = "answered"
          /\ answer'[r] = [answer[r] EXCEPT !.kind = "ok"]
      BY <1>1, <1>7 DEF AttachVisual, Goto
    <2>2. /\ answer'[r].final = answer[r].final /\ answer'[r].rarity = answer[r].rarity
          /\ answer'[r].before = answer[r].before /\ answer'[r].after = answer[r].after
          /\ answer'[r].kind = "ok" /\ answer'[r].fresh = answer[r].fresh
      BY <1>2, <2>1 DEF Answers
    <2> QED
      BY <1>3, <2>1, <2>2 DEF AnswerOK, ShowsGrant, ShowsRoll, ShowsXP
  <1> QED
    BY <1>4, <1>5, <1>6, <1>7

\* Nothing is answered initially.
LEMMA InitAnswers == Init => AInv
  <1> SUFFICES ASSUME Init
               PROVE  AInv
    OBVIOUS
  <1>1. XPContainsGrants
    BY StartAssumption DEF Init, XPContainsGrants
  <1>2. \A r \in Requests : AnswerOK(r) /\ ~answer[r].fresh
    BY DEF Init, AnswerOK, NoAnswer
  <1> QED
    BY <1>1, <1>2 DEF AInv, OneFresh

\* A step of one request leaves the answers of the others alone.
LEMMA OtherAnswers ==
    ASSUME IInv, NEW r \in Requests, TaskForCompletion(r) \/ Step(r) \/ Fail(r),
           NEW q \in Requests \ {r}
    PROVE  pc'[q] = pc[q] /\ answer'[q] = answer[q] /\ call' = call
  <1>1. answer \in [Requests -> Answers] /\ pc \in [Requests -> Labels]
    BY DEF IInv, TypeOK, RequestsOK
  <1>2. Abort(r) => pc'[q] = pc[q] /\ answer'[q] = answer[q] /\ call' = call
    BY <1>1 DEF Abort
  <1> QED
    BY <1>1, <1>2
    DEF Step, Fail, TaskForCompletion, PlanRewards, LockTask, LockProgression,
        InsertGrant, InsertLevelRewards, InsertDropAndRoll, Commit, ReadGrant,
        ReadRoll, ReadProgression, AttachVisual, Goto, locals

\* Every step keeps the invariant about answers.
LEMMA NextAnswers == IInv /\ AInv /\ [Next]_vars => AInv'
  <1> SUFFICES ASSUME IInv, AInv, [Next]_vars
               PROVE  AInv'
    OBVIOUS
  <1>1. XPContainsGrants'
    BY XPContainsGrantsStep DEF AInv
  <1>2. CASE UNCHANGED <<pc, answer, call>>
    <2>1. \A q \in Requests : AnswerOK(q)'
      BY <1>2, AnswerKept DEF AInv
    <2> QED
      BY <1>1, <1>2, <2>1 DEF AInv, OneFresh
  <1>3. ASSUME NEW r \in Requests, TaskForCompletion(r) \/ Step(r) \/ Fail(r)
        PROVE  AInv'
    <2>1. \A q \in Requests \ {r} :
            pc'[q] = pc[q] /\ answer'[q] = answer[q] /\ call' = call
      BY <1>3, OtherAnswers
    <2>2. \A q \in Requests \ {r} : AnswerOK(q)'
      BY <2>1, AnswerKept DEF AInv
    <2>3. /\ AnswerOK(r)'
          /\ \/ answer'[r].fresh => answer[r].fresh
             \/ call[r].task \notin DOMAIN grants
          /\ call' = call
      <3>1. CASE \E acknowledged \in BOOLEAN : Commit(r, acknowledged)
        <4>1. AnswerOK(r)'
          BY <1>1, <3>1, AnswerFresh
        <4>2. call[r].task \notin DOMAIN grants
          BY <3>1, CommitEffect
        <4>3. call' = call
          BY <3>1 DEF Commit
        <4> QED
          BY <4>1, <4>2, <4>3
      <3>2. CASE ReadGrant(r) \/ ReadRoll(r) \/ ReadProgression(r) \/ AttachVisual(r)
        <4>1. AnswerOK(r)' /\ (answer'[r].fresh => answer[r].fresh)
          BY <3>2, AnswerRead DEF AInv
        <4>2. call' = call
          BY <3>2 DEF ReadGrant, ReadRoll, ReadProgression, AttachVisual
        <4> QED
          BY <4>1, <4>2
      <3>3. CASE \/ TaskForCompletion(r) \/ PlanRewards(r) \/ LockTask(r)
                 \/ LockProgression(r) \/ InsertGrant(r) \/ Abort(r)
                 \/ InsertLevelRewards(r) \/ InsertDropAndRoll(r)
        <4>1. AnswerOK(r)' /\ ~answer'[r].fresh
          BY <3>3, AnswerBefore DEF AInv
        <4>2. call' = call
          BY <3>3 DEF TaskForCompletion, PlanRewards, LockTask, LockProgression,
                      InsertGrant, Abort, InsertLevelRewards, InsertDropAndRoll, locals
        <4> QED
          BY <4>1, <4>2
      <3> QED
        BY <1>3, <3>1, <3>2, <3>3 DEF Step, Fail
    <2>4. OneFresh'
      <3> SUFFICES ASSUME NEW p \in Requests, NEW q \in Requests,
                          answer'[p].fresh, answer'[q].fresh,
                          call[p].task = call[q].task, p # q
                   PROVE  FALSE
        BY <2>3 DEF OneFresh
      <3>1. CASE p # r /\ q # r
        BY <2>1, <3>1 DEF AInv, OneFresh
      <3>2. ASSUME NEW s \in Requests \ {r}, answer'[s].fresh, answer'[r].fresh,
                   call[s].task = call[r].task
            PROVE  FALSE
        <4>1. answer[s].fresh /\ call[s].task \in DOMAIN grants
          BY <2>1, <3>2 DEF AInv, AnswerOK
        <4>2. answer[r].fresh
          BY <2>3, <3>2, <4>1
        <4> QED
          BY <3>2, <4>1, <4>2 DEF AInv, OneFresh
      <3> QED
        BY <3>1, <3>2
    <2> QED
      BY <1>1, <2>2, <2>3, <2>4 DEF AInv
  <1>4. ASSUME \/ \E t \in Tasks : Create(t) \/ Update(t) \/ Archive(t)
               \/ \E it \in inventory : Equip(it) \/ Unequip(it)
               \/ \E c \in Catalog : CreateItem(c) \/ DisableItem(c)
        PROVE  UNCHANGED <<pc, answer, call>>
    BY <1>4 DEF Create, Update, Archive, Equip, Unequip, CreateItem, DisableItem,
                locals
  <1>5. UNCHANGED vars => UNCHANGED <<pc, answer, call>>
    BY DEF vars, locals
  <1> QED
    BY <1>2, <1>3, <1>4, <1>5 DEF Next

\* The invariant about answers holds in every reachable state.
LEMMA AnswersInductive == Spec => []AInv
  BY InitAnswers, NextAnswers, Inductive, PTL DEF Spec

\* All successful answers about a task show the grant stored for it, and its
\* roll unless a repeated answer lost the roll to a failed read; at most one of
\* them claims to be the fresh completion, and that one shows the roll.  However
\* many requests for the task run, fail and are repeated.
THEOREM AnswersAlwaysAgree == Spec => []AnswersAgree
  <1>1. AInv => AnswersAgree
    BY DEF AInv, AnswerOK, OneFresh, ShowsGrant, ShowsRoll, AnswersAgree, Answered
  <1> QED
    BY <1>1, AnswersInductive, PTL

\* The XP shown with an answer contains the task's grant and is never more than
\* the stored total, although grant and progression are read separately.
THEOREM AnswersContainGrant == Spec => []AnswerContainsGrant
  <1>1. AInv => AnswerContainsGrant
    BY DEF AInv, AnswerOK, ShowsXP, AnswerContainsGrant, Answered
  <1> QED
    BY <1>1, AnswersInductive, PTL

-----------------------------------------------------------------------------
(* What is handed out: what a transaction is about to insert, and what the   *)
(* rows inserted so far have to do with each other.                          *)

Drops(S) == {i \in S : i.source = "task_drop"}
LevelRows(S) == {i \in S : i.source = "level_reward"}
Given(u) == {x \in levelRewards : x.user = u}
Levels(S) == {x.level : x \in S}

\* The drop of a task is one item of the rarity rolled, its owner's.
DropOf(t, rarity, dropped) ==
    IF rarity = NoDrop THEN dropped = {}
    ELSE \E i \in Items : /\ dropped = {i}
                          /\ i.user = Owner[t] /\ i.rarity = rarity

DropsRecorded ==
    \A t \in Tasks :
        LET dropped == {i \in Drops(inventory) : i.origin = t}
        IN  IF t \in DOMAIN rolls
            THEN rolls[t].item = dropped /\ DropOf(t, rolls[t].rarity, dropped)
            ELSE dropped = {}

\* Items get into the inventory with the grant of their task, and only items of
\* the inventory are worn.
ItemsArePaidFor ==
    /\ \A i \in inventory : call[i.by].task \in DOMAIN grants
    /\ \A u \in Users : equipped[u] \subseteq inventory
    /\ \A r \in Requests : plan[r].worn \subseteq inventory

\* Rows of level_rewards, each with an item of its own.
RewardsOf(u, rewards) ==
    /\ \A x \in rewards : /\ x.user = u
                          /\ x.item.origin = x.level /\ x.item.rarity = "legendary"
    /\ \A x, y \in rewards : x.level = y.level => x = y

MilestonesRecorded ==
    \A u \in Users :
        /\ RewardsOf(u, Given(u))
        /\ Levels(Given(u)) = MilestonesDue(u)
        /\ LevelItems(u) = {x.item : x \in Given(u)}

\* What a transaction has inserted so far: its milestones from the label drop
\* on, its drop at the label commit.
Inserts(r) ==
    LET u == call[r].user
        t == call[r].task
        b == buffer[r]
    IN  /\ pc[r] \notin {"drop", "commit"} => b.items = {} /\ b.rewards = {}
        /\ \A i \in b.items : i.by = r /\ i.user = u
        /\ pc[r] \in {"drop", "commit"} =>
              /\ RewardsOf(u, b.rewards)
              /\ Levels(b.rewards) = LevelsForReward(b.level, NewLevel(r))
              /\ LevelRows(b.items) = {x.item : x \in b.rewards}
        /\ pc[r] = "drop" => Drops(b.items) = {}
        /\ pc[r] = "commit" =>
              /\ \A i \in Drops(b.items) : i.origin = t
              /\ DropOf(t, plan[r].rarity, Drops(b.items))

\* A user never falls below the XP of the beginning.
NeverBelowStart == \A u \in Users : StartXP[u] <= progressions[u].xp

HandInv ==
    /\ DropsRecorded /\ ItemsArePaidFor /\ DropNeverBoostsOwnTask
    /\ MilestonesRecorded /\ NeverBelowStart
    /\ \A r \in Requests : Inserts(r)

-----------------------------------------------------------------------------
(* What a step can do to the parts of the invariant. *)

\* Nothing has been handed out initially.
LEMMA InitHands == Init => HandInv
  <1> SUFFICES ASSUME Init
               PROVE  HandInv
    OBVIOUS
  <1>1. DropsRecorded /\ ItemsArePaidFor /\ DropNeverBoostsOwnTask
    BY DEF Init, NoPlan, DropsRecorded, Drops, ItemsArePaidFor, DropNeverBoostsOwnTask
  <1>2. NeverBelowStart
    BY StartAssumption DEF Init, NeverBelowStart
  <1>3. \A r \in Requests : Inserts(r)
    BY DEF Init, NoBuffer, Inserts
  <1>4. ASSUME NEW u \in Users
        PROVE  /\ Given(u) = {} /\ LevelItems(u) = {}
               /\ MilestonesDue(u) = {}
    <2>1. Given(u) = {} /\ LevelItems(u) = {}
      BY DEF Init, Given, LevelItems
    <2>2. progressions[u].xp = StartXP[u]
      BY DEF Init
    <2>3. progressions[u].level \in Nat /\ StartXP[u] \in Nat
      BY InitType, StartAssumption DEF TypeOK, DatabaseOK
    <2>4. ASSUME NEW l \in MilestonesDue(u)
          PROVE  FALSE
      <3>1. l \in 1..progressions[u].level
        BY DEF MilestonesDue
      <3>2. l \in Int
        BY <2>3, <3>1
      <3>3. StartXP[u] < (l - 1) * XPPerLevel /\ (l - 1) * XPPerLevel <= StartXP[u]
        BY <2>2 DEF MilestonesDue
      <3> QED
        BY <2>3, <3>2, <3>3 DEF XPPerLevel
    <2> QED
      BY <2>1, <2>4
  <1>5. MilestonesRecorded
    BY <1>4 DEF MilestonesRecorded, RewardsOf, Levels
  <1> QED
    BY <1>1, <1>2, <1>3, <1>5 DEF HandInv

\* Only a commit writes what is handed out.
LEMMA OnlyCommitHands ==
    ASSUME [Next]_vars
    PROVE  \/ UNCHANGED <<progressions, grants, rolls, levelRewards, inventory>>
           \/ \E r \in Requests, acknowledged \in BOOLEAN : Commit(r, acknowledged)
  <1> SUFFICES ASSUME ~UNCHANGED <<progressions, grants, rolls, levelRewards, inventory>>
               PROVE  \E r \in Requests, acknowledged \in BOOLEAN :
                        Commit(r, acknowledged)
    OBVIOUS
  <1>1. ASSUME NEW r \in Requests, TaskForCompletion(r) \/ Step(r) \/ Fail(r)
        PROVE  \E acknowledged \in BOOLEAN : Commit(r, acknowledged)
    BY <1>1 DEF Step, Fail, Abort, TaskForCompletion, PlanRewards, LockTask,
                LockProgression, InsertGrant, InsertLevelRewards, InsertDropAndRoll,
                ReadGrant, ReadRoll, ReadProgression, AttachVisual, database
  <1>2. ~UNCHANGED vars
    BY DEF vars, database
  <1>3. ASSUME NEW t \in Tasks
        PROVE  ~(Create(t) \/ Update(t) \/ Archive(t))
    BY DEF Create, Update, Archive
  <1>4. ASSUME NEW it \in inventory
        PROVE  ~(Equip(it) \/ Unequip(it))
    BY DEF Equip, Unequip, database
  <1>5. ASSUME NEW c \in Catalog
        PROVE  ~(CreateItem(c) \/ DisableItem(c))
    BY DEF CreateItem, DisableItem, database
  <1> QED
    BY <1>1, <1>2, <1>3, <1>4, <1>5 DEF Next

\* A call is made once for one task.
LEMMA CallsStay ==
    ASSUME [Next]_vars
    PROVE  UNCHANGED call
  <1>1. ASSUME NEW r \in Requests, TaskForCompletion(r) \/ Step(r) \/ Fail(r)
        PROVE  UNCHANGED call
    BY <1>1 DEF Step, Fail, Abort, TaskForCompletion, PlanRewards, LockTask,
                LockProgression, InsertGrant, InsertLevelRewards, InsertDropAndRoll,
                Commit, ReadGrant, ReadRoll, ReadProgression, AttachVisual, locals
  <1>2. ASSUME NEW t \in Tasks, Create(t) \/ Update(t) \/ Archive(t)
        PROVE  UNCHANGED call
    BY <1>2 DEF Create, Update, Archive, locals
  <1>3. ASSUME NEW it \in inventory, Equip(it) \/ Unequip(it)
        PROVE  UNCHANGED call
    BY <1>3 DEF Equip, Unequip, locals
  <1>4. ASSUME NEW c \in Catalog, CreateItem(c) \/ DisableItem(c)
        PROVE  UNCHANGED call
    BY <1>4 DEF CreateItem, DisableItem, locals
  <1>5. CASE UNCHANGED vars
    BY <1>5 DEF vars, locals
  <1> QED
    BY <1>1, <1>2, <1>3, <1>4, <1>5 DEF Next

-----------------------------------------------------------------------------
(* What a transaction inserts. *)

LEMMA InsertsKept ==
    ASSUME NEW q \in Requests, Inserts(q), UNCHANGED call,
           pc'[q] = pc[q], buffer'[q] = buffer[q], plan'[q] = plan[q]
    PROVE  Inserts(q)'
  BY DEF Inserts, RewardsOf, Levels, LevelRows, Drops, DropOf, NewLevel

\* A request that has inserted nothing, or has rolled back.
LEMMA InsertsNothing ==
    ASSUME NEW q \in Requests, pc'[q] \notin {"drop", "commit"},
           buffer'[q].items = {}, buffer'[q].rewards = {}
    PROVE  Inserts(q)'
  BY DEF Inserts

\* One legendary item and one row for each milestone (level_rewards.go).
LEMMA InsertsMilestones ==
    ASSUME IInv, HandInv, NEW r \in Requests, InsertLevelRewards(r), ~Abort(r)
    PROVE  Inserts(r)'
  <1> DEFINE u == call[r].user
             b == buffer[r]
             levels == LevelsForReward(b.level, NewLevel(r))
             Had(l) == \E x \in levelRewards : x.user = u /\ x.level = l
             Right == /\ RewardsOf(u, buffer'[r].rewards)
                      /\ Levels(buffer'[r].rewards) = levels
                      /\ LevelRows(buffer'[r].items) = {x.item : x \in buffer'[r].rewards}
                      /\ \A i \in buffer'[r].items : i.by = r /\ i.user = u
                      /\ Drops(buffer'[r].items) = {}
  <1>1. /\ u \in Users /\ b \in Buffers /\ buffer \in [Requests -> Buffers]
        /\ pc \in [Requests -> Labels]
    BY DEF IInv, TypeOK, RequestsOK
  <1>2. pc[r] = "levelRewards" /\ pc' = [pc EXCEPT ![r] = "drop"]
        /\ UNCHANGED <<call, plan>>
    BY DEF InsertLevelRewards, Goto, locals
  <1>3. b.items = {} /\ b.rewards = {} /\ b.level = progressions[u].level
    BY <1>2 DEF HandInv, Inserts, IInv, LocksProtect, ReadIsCurrent, Writing, InTransaction
  <1>4. \A l \in levels : ~Had(l)
    <2> SUFFICES ASSUME NEW l \in levels, NEW x \in levelRewards, x.user = u, x.level = l
                 PROVE  FALSE
      OBVIOUS
    <2>1. l \in MilestonesDue(u)
      <3>1. x \in Given(u)
        BY DEF Given
      <3>2. x.level \in Levels(Given(u))
        BY <3>1 DEF Levels
      <3>3. Levels(Given(u)) = MilestonesDue(u)
        BY <1>1 DEF HandInv, MilestonesRecorded
      <3> QED
        BY <3>2, <3>3
    <2>2. l \in 1..b.level
      BY <1>3, <2>1 DEF MilestonesDue
    <2>3. l \in (b.level + 1)..NewLevel(r)
      BY DEF LevelsForReward
    <2>4. b.level \in Nat
      BY <1>1 DEF Buffers
    <2> QED
      BY <2>2, <2>3, <2>4
  <1>5. NewLevel(r)' = NewLevel(r) /\ buffer'[r].level = b.level
    <2>1. buffer'[r].level = b.level /\ buffer'[r].xp = b.xp
      BY <1>1 DEF InsertLevelRewards, locals, Buffers
    <2> QED
      BY <1>2, <2>1 DEF NewLevel
  <1>6. Right
    <2>1. CASE levels = {} /\ UNCHANGED locals
      <3>1. buffer' = buffer
        BY <2>1 DEF locals
      <3> HIDE DEF levels
      <3> QED
        BY <1>3, <2>1, <3>1 DEF RewardsOf, Levels, LevelRows, Drops
    <2>2. ASSUME NEW c \in FirstActive("legendary"), NEW roll \in ItemRolls,
                 buffer' = [buffer EXCEPT
                   ![r].items = {ItemRow(u, c, "level_reward", l,
                                    RollRarityMultiplier(roll, "legendary"), r) :
                                   l \in levels},
                   ![r].rewards =
                      {[user |-> u, level |-> l,
                        item |-> ItemRow(u, c, "level_reward", l,
                                    RollRarityMultiplier(roll, "legendary"), r)] :
                         l \in {k \in levels : ~Had(k)}}]
          PROVE  Right
      <3> DEFINE mult == RollRarityMultiplier(roll, "legendary")
                 it(l) == ItemRow(u, c, "level_reward", l, mult, r)
                 row(l) == [user |-> u, level |-> l, item |-> it(l)]
      <3>1. ItemRarity[c] = "legendary"
        BY DEF FirstActive
      <3> HIDE DEF mult, levels, Had
      <3>2. \A l : /\ it(l).user = u /\ it(l).source = "level_reward"
                   /\ it(l).origin = l /\ it(l).rarity = "legendary" /\ it(l).by = r
        BY <3>1 DEF ItemRow
      <3> HIDE DEF it
      <3>3. \A l : row(l).user = u /\ row(l).level = l /\ row(l).item = it(l)
        OBVIOUS
      <3> HIDE DEF row
      <3>4. {l \in levels : ~Had(l)} = levels
        BY <1>4
      <3>5. /\ buffer'[r].items = {it(l) : l \in levels}
            /\ buffer'[r].rewards = {row(l) : l \in {k \in levels : ~Had(k)}}
        BY <1>1, <2>2 DEF Buffers, it, row, mult
      <3>6. buffer'[r].rewards = {row(l) : l \in levels}
        BY <3>4, <3>5
      <3> DEFINE items == buffer'[r].items
                 rewards == buffer'[r].rewards
      <3>7. items = {it(l) : l \in levels} /\ rewards = {row(l) : l \in levels}
        BY <3>5, <3>6
      <3> HIDE DEF items, rewards
      <3>8. RewardsOf(u, rewards)
        BY <3>2, <3>3, <3>7 DEF RewardsOf
      <3>9. Levels(rewards) = levels
        BY <3>3, <3>7 DEF Levels
      <3>10. LevelRows(items) = {x.item : x \in rewards}
        BY <3>2, <3>3, <3>7 DEF LevelRows
      <3>11. \A i \in items : i.by = r /\ i.user = u /\ i.source # "task_drop"
        BY <3>2, <3>7
      <3> QED
        BY <3>8, <3>9, <3>10, <3>11 DEF items, rewards, Drops, levels
    <2>3. \/ levels = {} /\ UNCHANGED locals
          \/ \E c \in FirstActive("legendary"), roll \in ItemRolls :
                buffer' = [buffer EXCEPT
                   ![r].items = {ItemRow(u, c, "level_reward", l,
                                    RollRarityMultiplier(roll, "legendary"), r) :
                                   l \in levels},
                   ![r].rewards =
                      {[user |-> u, level |-> l,
                        item |-> ItemRow(u, c, "level_reward", l,
                                    RollRarityMultiplier(roll, "legendary"), r)] :
                         l \in {k \in levels : ~Had(k)}}]
      BY DEF InsertLevelRewards
    <2> HIDE DEF Right
    <2> QED
      BY <2>1, <2>2, <2>3
  <1> QED
    BY <1>1, <1>2, <1>5, <1>6 DEF Inserts

\* The dropped item, of the rarity planned (drop.go).
LEMMA InsertsDrop ==
    ASSUME IInv, HandInv, NEW r \in Requests, InsertDropAndRoll(r), ~Abort(r)
    PROVE  Inserts(r)'
  <1> DEFINE u == call[r].user
             t == call[r].task
             b == buffer[r]
             rarity == plan[r].rarity
             it(c, roll) == ItemRow(u, c, "task_drop", t,
                                    RollRarityMultiplier(roll, rarity), r)
  <1>1. /\ u \in Users /\ t \in Tasks /\ b \in Buffers /\ plan[r] \in Plans
        /\ buffer \in [Requests -> Buffers] /\ pc \in [Requests -> Labels]
    BY DEF IInv, TypeOK, RequestsOK
  <1>2. pc[r] = "drop" /\ pc' = [pc EXCEPT ![r] = "commit"]
        /\ UNCHANGED <<call, plan>>
    BY DEF InsertDropAndRoll, Goto, locals
  <1>3. /\ RewardsOf(u, b.rewards)
        /\ Levels(b.rewards) = LevelsForReward(b.level, NewLevel(r))
        /\ LevelRows(b.items) = {x.item : x \in b.rewards}
        /\ Drops(b.items) = {}
        /\ \A i \in b.items : i.by = r /\ i.user = u
    BY <1>2 DEF HandInv, Inserts
  <1>4. Owner[t] = u
    BY <1>2 DEF IInv, LocksProtect, OwnersMatch
  <1>5. CASE rarity = NoDrop /\ UNCHANGED locals
    <2>1. buffer' = buffer
      BY <1>5 DEF locals
    <2>2. NewLevel(r)' = NewLevel(r)
      BY <1>2, <2>1 DEF NewLevel
    <2>3. DropOf(t, rarity, Drops(b.items))
      BY <1>3, <1>5 DEF DropOf
    <2> QED
      BY <1>1, <1>2, <1>3, <2>1, <2>2, <2>3 DEF Inserts
  <1>6. ASSUME rarity # NoDrop,
               NEW c \in FirstActive(rarity), NEW roll \in ItemRolls,
               buffer' = [buffer EXCEPT ![r].items = @ \cup {it(c, roll)}]
        PROVE  Inserts(r)'
    <2> DEFINE i == it(c, roll)
               items == buffer'[r].items
    <2>1. rarity \in Rarities
      BY <1>1, <1>6 DEF Plans, RarityOrNone
    <2>2. c \in Catalog /\ ItemRarity[c] = rarity
      BY DEF FirstActive
    <2>3. RollRarityMultiplier(roll, rarity) \in Nat
      BY <2>1, RollsAssumption, ItemMultiplierType
    <2>4. i \in Items
      BY <1>1, <2>2, <2>3, ItemRowType
    <2>5. /\ i.user = u /\ i.source = "task_drop" /\ i.origin = t
          /\ i.rarity = rarity /\ i.by = r
      BY <2>2 DEF ItemRow
    <2> HIDE DEF it
    <2>6. /\ items = b.items \cup {i}
          /\ buffer'[r].xp = b.xp /\ buffer'[r].level = b.level
          /\ buffer'[r].rewards = b.rewards
      BY <1>1, <1>6 DEF Buffers
    <2> HIDE DEF i, items
    <2>7. Drops(items) = {i}
      BY <1>3, <2>5, <2>6 DEF Drops
    <2>8. LevelRows(items) = LevelRows(b.items)
      BY <2>5, <2>6 DEF LevelRows
    <2>9. DropOf(t, rarity, Drops(items))
      BY <1>4, <1>6, <2>4, <2>5, <2>7 DEF DropOf
    <2>10. NewLevel(r)' = NewLevel(r)
      BY <1>2, <2>6 DEF NewLevel
    <2>11. \A j \in items : j.by = r /\ j.user = u
      BY <1>3, <2>5, <2>6
    <2>12. \A j \in Drops(items) : j.origin = t
      BY <2>5, <2>7
    <2> QED
      BY <1>1, <1>2, <1>3, <2>6, <2>8, <2>9, <2>10, <2>11, <2>12 DEF Inserts, items
  <1>7. \/ rarity = NoDrop /\ UNCHANGED locals
        \/ /\ rarity # NoDrop
           /\ \E c \in FirstActive(rarity), roll \in ItemRolls :
                buffer' = [buffer EXCEPT ![r].items = @ \cup {it(c, roll)}]
    BY DEF InsertDropAndRoll
  <1> QED
    BY <1>5, <1>6, <1>7

\* Nobody else has a hand in what a transaction inserts.
LEMMA InsertsStep ==
    ASSUME IInv, HandInv, [Next]_vars
    PROVE  \A q \in Requests : Inserts(q)'
  <1> SUFFICES ASSUME NEW q \in Requests
               PROVE  Inserts(q)'
    OBVIOUS
  <1>1. Inserts(q) /\ UNCHANGED call
    BY CallsStay DEF HandInv
  <1>2. /\ pc \in [Requests -> Labels] /\ buffer \in [Requests -> Buffers]
        /\ plan \in [Requests -> Plans]
    BY DEF IInv, TypeOK, RequestsOK
  <1>3. CASE UNCHANGED <<pc, plan, buffer>>
    BY <1>1, <1>3, InsertsKept
  <1>4. ASSUME NEW r \in Requests, r # q,
               TaskForCompletion(r) \/ Step(r) \/ Fail(r)
        PROVE  Inserts(q)'
    <2>1. pc'[q] = pc[q] /\ buffer'[q] = buffer[q] /\ plan'[q] = plan[q]
      BY <1>2, <1>4
      DEF Step, Fail, Abort, Forget, TaskForCompletion, PlanRewards, LockTask,
          LockProgression, InsertGrant, InsertLevelRewards, InsertDropAndRoll,
          Commit, ReadGrant, ReadRoll, ReadProgression, AttachVisual, Goto, locals
    <2> QED
      BY <1>1, <2>1, InsertsKept
  <1>5. ASSUME pc'[q] \notin {"drop", "commit"},
               buffer' = [buffer EXCEPT ![q] = NoBuffer]
        PROVE  Inserts(q)'
    BY <1>2, <1>5, InsertsNothing DEF NoBuffer
  <1>6. ASSUME pc[q] \notin {"drop", "commit"}, pc'[q] \notin {"drop", "commit"},
               \/ buffer' = buffer
               \/ buffer'[q].items = {} /\ buffer'[q].rewards = {}
        PROVE  Inserts(q)'
    BY <1>1, <1>6, InsertsNothing DEF Inserts
  <1>7. CASE TaskForCompletion(q)
    BY <1>2, <1>6, <1>7 DEF TaskForCompletion, Goto
  <1>8. CASE Abort(q)
    BY <1>2, <1>5, <1>8 DEF Abort, Forget
  <1>9. CASE PlanRewards(q)
    <2>1. pc[q] = "plan" /\ pc' = [pc EXCEPT ![q] = "lockTask"] /\ buffer' = buffer
      BY <1>9 DEF PlanRewards, Goto
    <2> QED
      BY <1>2, <1>6, <2>1
  <1>10. CASE LockTask(q)
    BY <1>2, <1>6, <1>10 DEF LockTask, Goto
  <1>11. CASE LockProgression(q)
    <2>1. /\ pc[q] = "lockProgression" /\ pc' = [pc EXCEPT ![q] = "insertGrant"]
          /\ buffer'[q].items = {} /\ buffer'[q].rewards = {}
      BY <1>2, <1>11 DEF LockProgression, Goto, NoBuffer
    <2> QED
      BY <1>2, <1>6, <2>1
  <1>12. CASE InsertGrant(q)
    BY <1>2, <1>5, <1>6, <1>12 DEF InsertGrant, Goto, Forget
  <1>13. CASE InsertLevelRewards(q)
    BY <1>8, <1>13, InsertsMilestones
  <1>14. CASE InsertDropAndRoll(q)
    BY <1>8, <1>14, InsertsDrop
  <1>15. ASSUME NEW acknowledged \in BOOLEAN, Commit(q, acknowledged)
         PROVE  Inserts(q)'
    BY <1>2, <1>5, <1>15 DEF Commit, Goto, Forget
  <1>16. CASE ReadGrant(q) \/ ReadRoll(q) \/ ReadProgression(q) \/ AttachVisual(q)
    BY <1>2, <1>6, <1>16 DEF ReadGrant, ReadRoll, ReadProgression, AttachVisual, Goto
  <1>17. ASSUME NEW r \in Requests, TaskForCompletion(r) \/ Step(r) \/ Fail(r)
         PROVE  Inserts(q)'
    BY <1>4, <1>7, <1>8, <1>9, <1>10, <1>11, <1>12, <1>13, <1>14, <1>15, <1>16, <1>17
       DEF Step, Fail
  <1>18. CASE UNCHANGED vars
    BY <1>3, <1>18 DEF vars, locals
  <1>19. ASSUME NEW t \in Tasks, Create(t) \/ Update(t) \/ Archive(t)
         PROVE  Inserts(q)'
    BY <1>3, <1>19 DEF Create, Update, Archive, locals
  <1>20. ASSUME NEW it \in inventory, Equip(it) \/ Unequip(it)
         PROVE  Inserts(q)'
    BY <1>3, <1>20 DEF Equip, Unequip, locals
  <1>21. ASSUME NEW c \in Catalog, CreateItem(c) \/ DisableItem(c)
         PROVE  Inserts(q)'
    BY <1>3, <1>21 DEF CreateItem, DisableItem, locals
  <1> QED
    BY <1>17, <1>18, <1>19, <1>20, <1>21 DEF Next

-----------------------------------------------------------------------------
(* What is worn and what is planned. *)

\* Whoever wears an item, now or in a plan, has it from the inventory.
LEMMA WornStep ==
    ASSUME IInv, HandInv, [Next]_vars
    PROVE  /\ \A u \in Users : equipped'[u] \subseteq inventory
           /\ \A r \in Requests : plan'[r].worn \subseteq inventory
  <1> DEFINE Worn == \A u \in Users : equipped'[u] \subseteq inventory
             Planned == \A r \in Requests : plan'[r].worn \subseteq inventory
  <1>1. /\ \A u \in Users : equipped[u] \subseteq inventory
        /\ \A r \in Requests : plan[r].worn \subseteq inventory
        /\ equipped \in [Users -> SUBSET Items] /\ plan \in [Requests -> Plans]
        /\ call \in [Requests -> [user : Users, task : Tasks]]
    BY DEF HandInv, ItemsArePaidFor, IInv, TypeOK, EnvironmentOK, RequestsOK
  <1>2. CASE UNCHANGED <<equipped, plan>>
    BY <1>1, <1>2
  <1>3. ASSUME NEW r \in Requests, TaskForCompletion(r) \/ Step(r) \/ Fail(r)
        PROVE  Worn /\ Planned
    <2>1. Worn
      BY <1>1, <1>3
      DEF Step, Fail, Abort, TaskForCompletion, PlanRewards, LockTask,
          LockProgression, InsertGrant, InsertLevelRewards, InsertDropAndRoll,
          Commit, ReadGrant, ReadRoll, ReadProgression, AttachVisual, environment
    <2>2. CASE PlanRewards(r)
      <3>1. plan'[r].worn = equipped[call[r].user]
        BY <1>1, <2>2 DEF PlanRewards
      <3>2. \A q \in Requests \ {r} : plan'[q] = plan[q]
        BY <1>1, <2>2 DEF PlanRewards
      <3> QED
        BY <1>1, <2>1, <3>1, <3>2
    <2>3. CASE ~PlanRewards(r)
      <3>1. \/ plan' = plan
            \/ plan' = [plan EXCEPT ![r] = NoPlan]
        BY <1>1, <1>3, <2>3
        DEF Step, Fail, Abort, Forget, TaskForCompletion, LockTask,
            LockProgression, InsertGrant, InsertLevelRewards, InsertDropAndRoll,
            Commit, ReadGrant, ReadRoll, ReadProgression, AttachVisual, locals
      <3> QED
        BY <1>1, <2>1, <3>1 DEF NoPlan
    <2> QED
      BY <2>2, <2>3
  <1>4. ASSUME NEW it \in inventory, Equip(it) \/ Unequip(it)
        PROVE  Worn /\ Planned
    BY <1>1, <1>4 DEF Equip, Unequip, locals
  <1>5. ASSUME NEW t \in Tasks, Create(t) \/ Update(t) \/ Archive(t)
        PROVE  UNCHANGED <<equipped, plan>>
    BY <1>5 DEF Create, Update, Archive, environment, locals
  <1>6. ASSUME NEW c \in Catalog, CreateItem(c) \/ DisableItem(c)
        PROVE  UNCHANGED <<equipped, plan>>
    BY <1>6 DEF CreateItem, DisableItem, locals
  <1>7. CASE UNCHANGED vars
    BY <1>2, <1>7 DEF vars, environment, locals
  <1> QED
    BY <1>2, <1>3, <1>4, <1>5, <1>6, <1>7 DEF Next

-----------------------------------------------------------------------------
(* The commit. *)

\* The rows a commit adds, besides those of CommitEffect.
LEMMA CommitHands ==
    ASSUME IInv, HandInv, NEW r \in Requests, NEW acknowledged \in BOOLEAN,
           Commit(r, acknowledged)
    PROVE  LET u == call[r].user
               t == call[r].task
               b == buffer[r]
           IN  /\ pc[r] = "commit" /\ b \in Buffers /\ UNCHANGED call
               /\ inventory' = inventory \cup b.items
               /\ levelRewards' = levelRewards \cup b.rewards
               /\ rolls'[t].item = Drops(b.items)
               /\ grants'[t].worn = plan[r].worn
               /\ b.level = progressions[u].level /\ b.xp = progressions[u].xp
               /\ RewardsOf(u, b.rewards)
               /\ Levels(b.rewards) = LevelsForReward(b.level, progressions'[u].level)
               /\ LevelRows(b.items) = {x.item : x \in b.rewards}
               /\ \A i \in b.items : i.by = r /\ i.user = u
               /\ \A i \in Drops(b.items) : i.origin = t
               /\ DropOf(t, rolls'[t].rarity, Drops(b.items))
  <1> DEFINE u == call[r].user
             t == call[r].task
             b == buffer[r]
  <1>1. pc[r] = "commit" /\ UNCHANGED call /\ b \in Buffers /\ u \in Users
    BY DEF Commit, Goto, IInv, TypeOK, RequestsOK
  <1>2. /\ inventory' = inventory \cup b.items
        /\ levelRewards' = levelRewards \cup b.rewards
    BY DEF Commit
  <1>3. rolls'[t].item = Drops(b.items) /\ grants'[t].worn = plan[r].worn
    BY DEF Commit, Insert, Drops
  <1>4. b.level = progressions[u].level /\ b.xp = progressions[u].xp
    BY <1>1 DEF IInv, LocksProtect, ReadIsCurrent, Writing, InTransaction
  <1>5. /\ RewardsOf(u, b.rewards)
        /\ Levels(b.rewards) = LevelsForReward(b.level, NewLevel(r))
        /\ LevelRows(b.items) = {x.item : x \in b.rewards}
        /\ \A i \in b.items : i.by = r /\ i.user = u
        /\ \A i \in Drops(b.items) : i.origin = t
        /\ DropOf(t, plan[r].rarity, Drops(b.items))
    BY <1>1 DEF HandInv, Inserts
  <1>6. /\ progressions'[u].level = LevelForXP(progressions'[u].xp)
        /\ progressions'[u].xp = progressions[u].xp + plan[r].final
        /\ rolls'[t].rarity = plan[r].rarity
    BY CommitEffect
  <1>7. NewLevel(r) = progressions'[u].level
    BY <1>4, <1>6 DEF NewLevel
  <1> QED
    BY <1>1, <1>2, <1>3, <1>4, <1>5, <1>6, <1>7

\* The commit of a drop.
LEMMA DropsStep ==
    ASSUME IInv, HandInv, NEW r \in Requests, NEW acknowledged \in BOOLEAN,
           Commit(r, acknowledged)
    PROVE  DropsRecorded'
  <1> DEFINE t == call[r].task
             b == buffer[r]
             dropped(s) == {i \in Drops(inventory) : i.origin = s}
  <1>1. /\ t \notin DOMAIN grants /\ DOMAIN rolls = DOMAIN grants
        /\ DOMAIN rolls' = DOMAIN rolls \cup {t}
        /\ \A s \in DOMAIN rolls : rolls'[s] = rolls[s]
    BY CommitEffect DEF IInv, TablesAgree
  <1>2. /\ inventory' = inventory \cup b.items
        /\ rolls'[t].item = Drops(b.items)
        /\ \A i \in Drops(b.items) : i.origin = t
        /\ DropOf(t, rolls'[t].rarity, Drops(b.items))
    BY CommitHands
  <1>3. Drops(inventory') = Drops(inventory) \cup Drops(b.items)
    BY <1>2 DEF Drops
  <1>4. ASSUME NEW s \in Tasks, s # t
        PROVE  {i \in Drops(inventory') : i.origin = s} = dropped(s)
    BY <1>2, <1>3, <1>4
  <1>5. ASSUME t \in Tasks
        PROVE  {i \in Drops(inventory') : i.origin = t} = Drops(b.items)
    <2>1. dropped(t) = {}
      BY <1>1, <1>5 DEF HandInv, DropsRecorded
    <2> QED
      BY <1>2, <1>3, <2>1
  <1>6. SUFFICES ASSUME NEW s \in Tasks
                 PROVE  LET now == {i \in Drops(inventory') : i.origin = s}
                        IN  IF s \in DOMAIN rolls'
                            THEN rolls'[s].item = now /\ DropOf(s, rolls'[s].rarity, now)
                            ELSE now = {}
    BY DEF DropsRecorded, Drops, DropOf
  <1>7. CASE s = t
    BY <1>1, <1>2, <1>5, <1>7
  <1>8. CASE s # t
    BY <1>1, <1>4, <1>8 DEF HandInv, DropsRecorded
  <1> QED
    BY <1>7, <1>8
\* Items are inserted with the grant of their task, after whatever was worn
\* while it was completed.
LEMMA ItemsStep ==
    ASSUME IInv, HandInv, NEW r \in Requests, NEW acknowledged \in BOOLEAN,
           Commit(r, acknowledged)
    PROVE  ItemsArePaidFor' /\ DropNeverBoostsOwnTask'
  <1> DEFINE t == call[r].task
             b == buffer[r]
  <1>1. /\ t \notin DOMAIN grants
        /\ DOMAIN grants' = DOMAIN grants \cup {t}
        /\ \A s \in DOMAIN grants : grants'[s] = grants[s]
    BY CommitEffect
  <1>2. /\ inventory' = inventory \cup b.items /\ UNCHANGED call
        /\ grants'[t].worn = plan[r].worn
        /\ \A i \in b.items : i.by = r
    BY CommitHands
  <1>3. /\ \A i \in inventory : call[i.by].task \in DOMAIN grants
        /\ plan[r].worn \subseteq inventory
    BY DEF HandInv, ItemsArePaidFor
  <1>4. ASSUME NEW i \in inventory'
        PROVE  call'[i.by].task \in DOMAIN grants'
    <2>1. CASE i \in inventory
      BY <1>1, <1>2, <1>3, <2>1
    <2>2. CASE i \in b.items
      BY <1>1, <1>2, <2>2
    <2> QED
      BY <1>2, <2>1, <2>2
  <1>5. /\ \A u \in Users : equipped'[u] \subseteq inventory'
        /\ \A q \in Requests : plan'[q].worn \subseteq inventory'
    <2>1. /\ \A u \in Users : equipped'[u] \subseteq inventory
          /\ \A q \in Requests : plan'[q].worn \subseteq inventory
      BY WornStep DEF Next, Step
    <2> QED
      BY <1>2, <2>1
  <1>6. ASSUME NEW s \in DOMAIN grants', NEW i \in grants'[s].worn
        PROVE  call'[i.by].task # s
    <2>1. CASE s = t
      BY <1>1, <1>2, <1>3, <1>6, <2>1
    <2>2. CASE s \in DOMAIN grants
      BY <1>1, <1>2, <1>6, <2>2 DEF HandInv, DropNeverBoostsOwnTask
    <2> QED
      BY <1>1, <2>1, <2>2
  <1> QED
    BY <1>4, <1>5, <1>6 DEF ItemsArePaidFor, DropNeverBoostsOwnTask

\* The milestones due after more XP are those due before and those on the way
\* (level_rewards.go, LevelsForReward).
LEMMA MilestonesGrow ==
    ASSUME NEW start \in Nat, NEW xp \in Nat, NEW new \in Nat,
           start <= xp, xp <= new
    PROVE  LET Due(x) == {l \in 1..LevelForXP(x) :
                             /\ l % MilestoneEvery = 0
                             /\ start < (l - 1) * XPPerLevel
                             /\ (l - 1) * XPPerLevel <= x}
           IN  Due(new) = Due(xp) \cup LevelsForReward(LevelForXP(xp), LevelForXP(new))
  <1> DEFINE from == LevelForXP(xp)
             to == LevelForXP(new)
  <1>1. /\ from \in Nat /\ to \in Nat /\ 1 <= from /\ from <= to
        /\ \A l \in Int : l <= from <=> (l - 1) * XPPerLevel <= xp
        /\ \A l \in Int : l <= to <=> (l - 1) * XPPerLevel <= new
    BY SMT DEF LevelForXP, XPPerLevel
  <1> DEFINE Begin(l) == (l - 1) * XPPerLevel
             Due(x, top) == {l \in 1..top : /\ l % MilestoneEvery = 0
                                            /\ start < Begin(l) /\ Begin(l) <= x}
  <1>2. \A l \in Int : Begin(l) \in Int
    BY SMT DEF XPPerLevel
  <1>3. /\ \A l \in Int : l <= from <=> Begin(l) <= xp
        /\ \A l \in Int : l <= to <=> Begin(l) <= new
    BY <1>1
  <1> HIDE DEF Begin, from, to
  <1>4. Due(new, to) = Due(xp, from)
                         \cup {l \in (from + 1)..to : l % MilestoneEvery = 0}
    <2>1. ASSUME NEW l \in Due(new, to)
          PROVE  l \in Due(xp, from) \cup {k \in (from + 1)..to : k % MilestoneEvery = 0}
      <3>1. l \in Int /\ 1 <= l /\ l <= to /\ l % MilestoneEvery = 0 /\ start < Begin(l)
        BY <1>1 DEF from, to
      <3> QED
        BY <1>1, <1>3, <3>1 DEF from, to
    <2>2. ASSUME NEW l \in Due(xp, from)
          PROVE  l \in Due(new, to)
      <3>1. l \in Int /\ 1 <= l /\ l <= from /\ l % MilestoneEvery = 0 /\ start < Begin(l)
        BY <1>1 DEF from, to
      <3>2. l <= to
        BY <1>1, <3>1 DEF from, to
      <3>3. Begin(l) <= new
        BY <1>3, <3>1, <3>2
      <3>4. l \in 1..to
        BY <1>1, <3>1, <3>2 DEF from, to
      <3> QED
        BY <3>1, <3>3, <3>4
    <2>3. ASSUME NEW l \in (from + 1)..to, l % MilestoneEvery = 0
          PROVE  l \in Due(new, to)
      <3>1. l \in Int /\ 1 <= l /\ l <= to /\ ~(l <= from)
        BY <1>1 DEF from, to
      <3>2. Begin(l) <= new /\ ~(Begin(l) <= xp)
        BY <1>3, <3>1
      <3>3. start < Begin(l)
        BY <1>2, <3>1, <3>2
      <3>4. l \in 1..to
        BY <1>1, <3>1 DEF from, to
      <3> QED
        BY <2>3, <3>2, <3>3, <3>4
    <2> HIDE DEF Due
    <2>4. \A l \in {k \in (from + 1)..to : k % MilestoneEvery = 0} : l \in Due(new, to)
      BY <2>3
    <2> QED
      BY <2>1, <2>2, <2>4
  <1> QED
    BY <1>4 DEF LevelsForReward, Due, Begin, from, to
\* XP only grows, and with it the milestones due, for the one who is paid.
LEMMA DueStep ==
    ASSUME IInv, HandInv, NEW r \in Requests, NEW acknowledged \in BOOLEAN,
           Commit(r, acknowledged), NEW u, u = call[r].user
    PROVE  /\ NeverBelowStart'
           /\ MilestonesDue(u)' = MilestonesDue(u) \cup
                 LevelsForReward(progressions[u].level, progressions'[u].level)
           /\ \A v \in Users \ {u} : MilestonesDue(v)' = MilestonesDue(v)
  <1> DEFINE xp == progressions[u].xp
             new == progressions'[u].xp
  <1>1. /\ u \in Users /\ xp \in Nat /\ new \in Nat /\ StartXP[u] \in Nat
        /\ StartXP[u] <= xp /\ xp <= new
    <2>1. /\ u \in Users /\ plan[r].final \in 0..MaxFinalXP
          /\ progressions \in [Users -> [xp : Nat, level : Nat \ {0}]]
      BY DEF IInv, TypeOK, RequestsOK, DatabaseOK, Plans
    <2>2. new = xp + plan[r].final
      BY CommitEffect
    <2>3. xp \in Nat /\ StartXP[u] \in Nat /\ StartXP[u] <= xp
      BY <2>1, StartAssumption DEF HandInv, NeverBelowStart
    <2>4. plan[r].final \in Nat
      <3>1. \A n \in 0..MaxFinalXP : n \in Nat
        BY SMT DEF MaxFinalXP
      <3> QED
        BY <2>1, <3>1
    <2> QED
      BY <2>1, <2>2, <2>3, <2>4, SMT
  <1>2. /\ progressions[u].level = LevelForXP(xp)
        /\ progressions'[u].level = LevelForXP(new)
        /\ \A v \in Users \ {u} : progressions'[v] = progressions[v]
    BY <1>1, CommitEffect DEF IInv, TablesAgree
  <1>3. NeverBelowStart'
    <2>1. StartXP[u] <= new
      BY <1>1
    <2> QED
      BY <1>2, <2>1 DEF HandInv, NeverBelowStart
  <1>4. MilestonesDue(u)' = MilestonesDue(u) \cup
           LevelsForReward(progressions[u].level, progressions'[u].level)
    <2> DEFINE Due(x) == {l \in 1..LevelForXP(x) :
                             /\ l % MilestoneEvery = 0
                             /\ StartXP[u] < (l - 1) * XPPerLevel
                             /\ (l - 1) * XPPerLevel <= x}
    <2>1. MilestonesDue(u) = Due(xp) /\ MilestonesDue(u)' = Due(new)
      BY <1>2 DEF MilestonesDue
    <2>2. Due(new) = Due(xp) \cup LevelsForReward(LevelForXP(xp), LevelForXP(new))
      <3> HIDE DEF xp, new
      <3> QED
        BY <1>1, MilestonesGrow
    <2> QED
      BY <1>2, <2>1, <2>2
  <1>5. \A v \in Users \ {u} : MilestonesDue(v)' = MilestonesDue(v)
    BY <1>2 DEF MilestonesDue
  <1> QED
    BY <1>3, <1>4, <1>5

\* Two sets of rows about different levels.
LEMMA RewardsUnion ==
    ASSUME NEW u, NEW A, NEW B, RewardsOf(u, A), RewardsOf(u, B),
           Levels(A) \cap Levels(B) = {}
    PROVE  RewardsOf(u, A \cup B) /\ Levels(A \cup B) = Levels(A) \cup Levels(B)
  <1>1. \A x \in A, y \in B : x.level # y.level
    BY DEF Levels
  <1> QED
    BY <1>1 DEF RewardsOf, Levels

\* The milestones of a commit.
LEMMA MilestonesStep ==
    ASSUME IInv, HandInv, NEW r \in Requests, NEW acknowledged \in BOOLEAN,
           Commit(r, acknowledged)
    PROVE  MilestonesRecorded'
  <1>0. PICK u : u = call[r].user
    OBVIOUS
  <1> DEFINE b == buffer[r]
             from == progressions[u].level
             to == progressions'[u].level
             Right(v) == /\ RewardsOf(v, Given(v)')
                         /\ Levels(Given(v)') = MilestonesDue(v)'
                         /\ LevelItems(v)' = {x.item : x \in Given(v)'}
  <1>1. /\ inventory' = inventory \cup b.items
        /\ levelRewards' = levelRewards \cup b.rewards
        /\ RewardsOf(u, b.rewards)
        /\ Levels(b.rewards) = LevelsForReward(from, to)
        /\ LevelRows(b.items) = {x.item : x \in b.rewards}
        /\ \A i \in b.items : i.user = u
    BY <1>0, CommitHands
  <1>2. u \in Users
    BY <1>0, CommitEffect
  <1>3. \A v \in Users : /\ RewardsOf(v, Given(v))
                         /\ Levels(Given(v)) = MilestonesDue(v)
                         /\ LevelItems(v) = {x.item : x \in Given(v)}
    BY DEF HandInv, MilestonesRecorded
  <1>4. ASSUME NEW v \in Users, v # u
        PROVE  Right(v)
    <2>1. Given(v)' = Given(v)
      BY <1>1, <1>4 DEF Given, RewardsOf
    <2>2. LevelItems(v)' = LevelItems(v)
      BY <1>1, <1>4 DEF LevelItems
    <2>3. MilestonesDue(v)' = MilestonesDue(v)
      BY <1>0, <1>4, DueStep
    <2> QED
      BY <1>3, <2>1, <2>2, <2>3
  <1>5. Right(u)
    <2>1. Given(u)' = Given(u) \cup b.rewards
      BY <1>1 DEF Given, RewardsOf
    <2>2. LevelItems(u)' = LevelItems(u) \cup LevelRows(b.items)
      BY <1>1 DEF LevelItems, LevelRows
    <2>3. MilestonesDue(u)' = MilestonesDue(u) \cup LevelsForReward(from, to)
      BY <1>0, DueStep
    <2>4. MilestonesDue(u) \cap LevelsForReward(from, to) = {}
      <3>1. from \in Nat
        BY <1>2 DEF IInv, TypeOK, DatabaseOK
      <3>2. \A l \in MilestonesDue(u) : l \in Int /\ l <= from
        BY <3>1 DEF MilestonesDue
      <3>3. to \in Int
        BY <1>2, NextType DEF IInv, TypeOK, DatabaseOK, Next, Step
      <3>4. \A l \in LevelsForReward(from, to) : l \in Int /\ ~(l <= from)
        BY <3>1, <3>3 DEF LevelsForReward
      <3> QED
        BY <3>2, <3>4
    <2>5. /\ RewardsOf(u, Given(u) \cup b.rewards)
          /\ Levels(Given(u) \cup b.rewards) = Levels(Given(u)) \cup Levels(b.rewards)
      <3>1. Levels(Given(u)) \cap Levels(b.rewards) = {}
        BY <1>1, <1>2, <1>3, <2>4
      <3> QED
        <4>1. PICK had, new : had = Given(u) /\ new = b.rewards
          OBVIOUS
        <4>2. RewardsOf(u, had) /\ RewardsOf(u, new) /\ Levels(had) \cap Levels(new) = {}
          BY <1>1, <1>2, <1>3, <3>1, <4>1
        <4>3. /\ RewardsOf(u, had \cup new)
              /\ Levels(had \cup new) = Levels(had) \cup Levels(new)
          BY <4>2, RewardsUnion
        <4> QED
          BY <4>1, <4>3
    <2>6. LevelItems(u)' = {x.item : x \in Given(u) \cup b.rewards}
      BY <1>1, <1>2, <1>3, <2>2
    <2> QED
      BY <1>1, <1>2, <1>3, <2>1, <2>3, <2>5, <2>6
  <1>6. \A v \in Users : Right(v)
    BY <1>4, <1>5
  <1> QED
    BY <1>6 DEF MilestonesRecorded, RewardsOf

-----------------------------------------------------------------------------
(* The invariant. *)

\* Whatever a step does, what is handed out stays accounted for.
LEMMA HandStep == IInv /\ HandInv /\ [Next]_vars => HandInv'
  <1> SUFFICES ASSUME IInv, HandInv, [Next]_vars
               PROVE  HandInv'
    OBVIOUS
  <1>1. \A q \in Requests : Inserts(q)'
    BY InsertsStep
  <1>2. CASE UNCHANGED <<progressions, grants, rolls, levelRewards, inventory>>
    <2>1. call' = call
      BY CallsStay
    <2>2. DropsRecorded' /\ DropNeverBoostsOwnTask'
      BY <1>2, <2>1 DEF HandInv, DropsRecorded, DropOf, Drops, DropNeverBoostsOwnTask
    <2>3. ItemsArePaidFor'
      <3>1. \A i \in inventory : call'[i.by].task \in DOMAIN grants'
        BY <1>2, <2>1 DEF HandInv, ItemsArePaidFor
      <3>2. inventory' = inventory
        BY <1>2
      <3> QED
        BY <3>1, <3>2, WornStep DEF ItemsArePaidFor
    <2>4. MilestonesRecorded'
      BY <1>2 DEF HandInv, MilestonesRecorded, Given, Levels, LevelItems, MilestonesDue,
                  RewardsOf
    <2>5. NeverBelowStart'
      BY <1>2 DEF HandInv, NeverBelowStart
    <2> QED
      BY <1>1, <2>2, <2>3, <2>4, <2>5 DEF HandInv
  <1>3. ASSUME NEW r \in Requests, NEW acknowledged \in BOOLEAN, Commit(r, acknowledged)
        PROVE  HandInv'
    BY <1>1, <1>3, DropsStep, ItemsStep, DueStep, MilestonesStep DEF HandInv
  <1> QED
    BY <1>2, <1>3, OnlyCommitHands

\* What is handed out is accounted for in every reachable state.
LEMMA HandsInductive == Spec => []HandInv
  BY InitHands, HandStep, Inductive, PTL DEF Spec

-----------------------------------------------------------------------------
(* The properties. *)

\* A drop found while a task is completed cannot be worn for that task, however
\* long the plan waits and whatever is equipped meanwhile (drop.go, plan.go).
THEOREM DropsNeverBoostTheirTask == Spec => []DropNeverBoostsOwnTask
  BY HandsInductive, PTL DEF HandInv

\* Grant, roll and dropped item of a task are there together and agree,
\* whichever request, retry or race completed it (complete_tx.go, drop.go).
THEOREM RollsMatchDrops == Spec => []RollMatchesDrop
  <1>1. IInv /\ HandInv => RollMatchesDrop
    <2> SUFFICES ASSUME IInv, HandInv
                 PROVE  RollMatchesDrop
      OBVIOUS
    <2>1. DOMAIN rolls = DOMAIN grants
      BY DEF IInv, TablesAgree
    <2> DEFINE dropped(t) == {i \in inventory : i.source = "task_drop" /\ i.origin = t}
    <2>2. \A t \in Tasks : {i \in Drops(inventory) : i.origin = t} = dropped(t)
      BY DEF Drops
    <2>3. ASSUME NEW t \in Tasks, t \notin DOMAIN rolls
          PROVE  dropped(t) = {}
      BY <2>2, <2>3 DEF HandInv, DropsRecorded
    <2>4. ASSUME NEW t \in Tasks, t \in DOMAIN rolls
          PROVE  /\ rolls[t].item = dropped(t)
                 /\ (rolls[t].rarity = NoDrop) = (dropped(t) = {})
                 /\ Cardinality(dropped(t)) <= 1
                 /\ \A i \in dropped(t) : i.user = Owner[t] /\ i.rarity = rolls[t].rarity
      <3>1. /\ rolls[t].item = dropped(t)
            /\ DropOf(t, rolls[t].rarity, dropped(t))
        BY <2>2, <2>4 DEF HandInv, DropsRecorded
      <3> HIDE DEF dropped
      <3>2. CASE rolls[t].rarity = NoDrop
        BY <3>1, <3>2, FS_EmptySet DEF DropOf
      <3>3. CASE rolls[t].rarity # NoDrop
        <4>1. PICK i \in Items : /\ dropped(t) = {i}
                                 /\ i.user = Owner[t] /\ i.rarity = rolls[t].rarity
          BY <3>1, <3>3 DEF DropOf
        <4>2. Cardinality({i}) = 1
          BY FS_Singleton
        <4> QED
          BY <3>1, <3>3, <4>1, <4>2
      <3> QED
        BY <3>2, <3>3
    <2> QED
      BY <2>1, <2>3, <2>4 DEF RollMatchesDrop
  <1> QED
    BY <1>1, Inductive, HandsInductive, PTL
\* Rows of different levels are as many as their levels.
LEMMA CountLevels ==
    ASSUME NEW u, NEW rewards, RewardsOf(u, rewards), NEW top \in Int,
           Levels(rewards) \subseteq 1..top
    PROVE  Cardinality(rewards) = Cardinality(Levels(rewards))
  <1> DEFINE f == [x \in rewards |-> x.level]
  <1>1. f \in Bijection(rewards, Levels(rewards))
    <2>1. f \in Injection(rewards, Levels(rewards))
      BY DEF RewardsOf, Levels, Injection, IsInjective
    <2>2. f \in Surjection(rewards, Levels(rewards))
      BY DEF Levels, Surjection
    <2> QED
      BY <2>1, <2>2 DEF Bijection
  <1>2. IsFiniteSet(Levels(rewards))
    <2>1. IsFiniteSet(1..top)
      BY FS_Interval
    <2>2. Levels(rewards) \in SUBSET (1..top)
      OBVIOUS
    <2> HIDE DEF f
    <2> QED
      BY <2>1, <2>2, FS_Subset
  <1>3. IsFiniteSet(rewards)
    BY <1>1, <1>2, FS_Injection DEF Bijection
  <1>4. ExistsBijection(rewards, Levels(rewards))
    BY <1>1 DEF ExistsBijection
  <1> QED
    BY <1>3, <1>4, FS_Bijection

\* The stored XP is in the range of the stored level (reward/math.go LevelForXP).
LEMMA LevelRange ==
    ASSUME NEW xp \in Nat
    PROVE  xp \in ((LevelForXP(xp) - 1) * XPPerLevel)..(LevelForXP(xp) * XPPerLevel - 1)
  BY SMT DEF LevelForXP, XPPerLevel

\* Every milestone a user has reached was rewarded with exactly one legendary
\* item, and nothing else was, however many levels one completion jumps and
\* however many run at once (level_rewards.go, complete_tx.go).
THEOREM MilestonesAreGivenOnce == Spec => []MilestonesGivenOnce
  <1>1. IInv /\ HandInv => MilestonesGivenOnce
    <2> SUFFICES ASSUME IInv, HandInv, NEW u \in Users
                 PROVE  /\ progressions[u].xp \in
                              ((progressions[u].level - 1) * XPPerLevel)
                              ..(progressions[u].level * XPPerLevel - 1)
                        /\ Levels(Given(u)) = MilestonesDue(u)
                        /\ Cardinality(Given(u)) = Cardinality(MilestonesDue(u))
                        /\ LevelItems(u) = {x.item : x \in Given(u)}
                        /\ \A x \in Given(u) : /\ x.item.origin = x.level
                                               /\ x.item.rarity = "legendary"
      BY DEF MilestonesGivenOnce, Levels, Given
    <2>1. progressions[u].xp \in Nat /\ progressions[u].level = LevelForXP(progressions[u].xp)
      BY DEF IInv, TypeOK, DatabaseOK, TablesAgree
    <2>2. progressions[u].xp \in ((progressions[u].level - 1) * XPPerLevel)
                                 ..(progressions[u].level * XPPerLevel - 1)
      BY <2>1, LevelRange
    <2>3. /\ RewardsOf(u, Given(u))
          /\ Levels(Given(u)) = MilestonesDue(u)
          /\ LevelItems(u) = {x.item : x \in Given(u)}
      BY DEF HandInv, MilestonesRecorded
    <2>4. Cardinality(Given(u)) = Cardinality(MilestonesDue(u))
      <3>1. PICK given, top : given = Given(u) /\ top = progressions[u].level
        OBVIOUS
      <3>2. MilestonesDue(u) \subseteq 1..top /\ top \in Int
        BY <3>1 DEF MilestonesDue, IInv, TypeOK, DatabaseOK
      <3>3. RewardsOf(u, given) /\ Levels(given) \subseteq 1..top
        BY <2>3, <3>1, <3>2
      <3>4. Cardinality(given) = Cardinality(Levels(given))
        BY <3>2, <3>3, CountLevels
      <3> QED
        BY <2>3, <3>1, <3>4
    <2>5. \A x \in Given(u) : x.item.origin = x.level /\ x.item.rarity = "legendary"
      BY <2>3 DEF RewardsOf
    <2> QED
      BY <2>2, <2>3, <2>4, <2>5
  <1> QED
    BY <1>1, Inductive, HandsInductive, PTL

-----------------------------------------------------------------------------
(* The abstract ledger. *)

\* The mapping of Ledger.
Paid == [t \in DOMAIN grants |-> grants[t].final]
Total == [u \in Users |-> progressions[u].xp]
HandedOut == [u \in Users |-> LevelsForReward(0, LevelForXP(StartXP[u]))
                              \cup {x.level : x \in {y \in levelRewards : y.user = u}}]
Told == [r \in TellsLedger |-> answer[r].final]

\* The milestones reached are those of the beginning and those due since.
LEMMA ReachedMilestones ==
    ASSUME NEW start \in Nat, NEW xp \in Nat, start <= xp
    PROVE  Ledger!Reached(xp) =
              LevelsForReward(0, LevelForXP(start))
              \cup {l \in 1..LevelForXP(xp) : /\ l % MilestoneEvery = 0
                                              /\ start < (l - 1) * XPPerLevel
                                              /\ (l - 1) * XPPerLevel <= xp}
  <1> DEFINE Begin(l) == (l - 1) * XPPerLevel
             low == LevelForXP(start)
             top == LevelForXP(xp)
             Due == {l \in 1..top : /\ l % MilestoneEvery = 0
                                    /\ start < Begin(l) /\ Begin(l) <= xp}
  <1>1. /\ low \in Nat /\ top \in Nat /\ low <= top
        /\ \A l \in Int : l <= low <=> Begin(l) <= start
        /\ \A l \in Int : l <= top <=> Begin(l) <= xp
        /\ \A l \in Int : Begin(l) \in Int
    BY SMT DEF LevelForXP, XPPerLevel
  <1>2. Ledger!Reached(xp) = {l \in 1..top : l % MilestoneEvery = 0}
    BY DEF Ledger!Reached, LevelForXP
  <1>3. LevelsForReward(0, low) = {l \in 1..low : l % MilestoneEvery = 0}
    BY SMT DEF LevelsForReward
  <1> HIDE DEF Begin, low, top
  <1>4. \A l \in 1..top : l \in 1..low \/ start < Begin(l)
    <2> SUFFICES ASSUME NEW l \in 1..top, l \notin 1..low
                 PROVE  start < Begin(l)
      OBVIOUS
    <2>1. l \in Int /\ ~(l <= low)
      BY <1>1
    <2> QED
      BY <1>1, <2>1
  <1>5. \A l \in 1..top : Begin(l) <= xp
    BY <1>1
  <1>6. 1..low \subseteq 1..top
    BY <1>1
  <1>7. {l \in 1..top : l % MilestoneEvery = 0} =
           {l \in 1..low : l % MilestoneEvery = 0} \cup Due
    BY <1>4, <1>5, <1>6
  <1> QED
    BY <1>2, <1>3, <1>7 DEF Begin, low, top

\* Exactly the milestones a user's total reaches are handed out.
ReachedOnly == HandedOut = [u \in Users |-> Ledger!Reached(progressions[u].xp)]

LEMMA HandedOutReached == IInv /\ HandInv => ReachedOnly
  <1> SUFFICES ASSUME IInv, HandInv, NEW u \in Users
               PROVE  HandedOut[u] = Ledger!Reached(progressions[u].xp)
    BY DEF HandedOut, ReachedOnly
  <1>1. HandedOut[u] = LevelsForReward(0, LevelForXP(StartXP[u])) \cup MilestonesDue(u)
    BY DEF HandedOut, HandInv, MilestonesRecorded, Given, Levels
  <1>2. PICK start, xp : start = StartXP[u] /\ xp = progressions[u].xp
    OBVIOUS
  <1>3. start \in Nat /\ xp \in Nat /\ start <= xp /\ progressions[u].level = LevelForXP(xp)
    BY <1>2, StartAssumption DEF HandInv, NeverBelowStart, IInv, TypeOK, DatabaseOK, TablesAgree
  <1>4. Ledger!Reached(xp) = LevelsForReward(0, LevelForXP(start)) \cup MilestonesDue(u)
    BY <1>2, <1>3, ReachedMilestones DEF MilestonesDue
  <1> QED
    BY <1>1, <1>2, <1>4
\* Nobody is told anything before the answer is complete.
LEMMA TellsKept ==
    ASSUME IInv, AInv, [Next]_vars, ~\E r \in Requests : AttachVisual(r)
    PROVE  Told' = Told
  <1>1. ASSUME NEW q \in Requests
        PROVE  /\ Answered(q)' = Answered(q)
               /\ Answered(q) => answer'[q].final = answer[q].final
    <2>1. Answered(q) => pc[q] = "answered"
      BY DEF AInv, AnswerOK, Answered
    <2>2. answer \in [Requests -> Answers]
      BY DEF IInv, TypeOK, RequestsOK
    <2>3. CASE answer'[q] = answer[q]
      BY <2>3 DEF Answered
    <2>4. ASSUME pc[q] # "answered", answer'[q].kind # "ok"
          PROVE  Answered(q)' = Answered(q) /\ ~Answered(q)
      BY <2>1, <2>4 DEF Answered
    <2>5. ASSUME NEW r \in Requests, TaskForCompletion(r) \/ Step(r) \/ Fail(r)
          PROVE  \/ answer'[q] = answer[q]
                 \/ pc[q] # "answered" /\ answer'[q].kind # "ok"
      <3>1. CASE q # r
        <4>1. answer'[q] = answer[q]
          BY <2>2, <2>5, <3>1
          DEF Step, Fail, Abort, TaskForCompletion, PlanRewards, LockTask,
              LockProgression, InsertGrant, InsertLevelRewards, InsertDropAndRoll,
              Commit, ReadGrant, ReadRoll, ReadProgression, AttachVisual, locals
        <4> QED
          BY <4>1
      <3>2. CASE q = r
        <4>1. pc[r] # "answered"
          BY <2>5 DEF Step, Fail, TaskForCompletion, PlanRewards, LockTask,
              LockProgression, InsertGrant, InsertLevelRewards, InsertDropAndRoll,
              Commit, ReadGrant, ReadRoll, ReadProgression, AttachVisual, Goto
        <4>2. answer[r].kind # "ok"
          BY <2>1, <3>2, <4>1 DEF Answered
        <4>3. CASE TaskForCompletion(r) \/ LockTask(r)
          BY <2>2, <3>2, <4>1, <4>3 DEF TaskForCompletion, LockTask, Answers
        <4>4. CASE Abort(r)
          BY <2>2, <3>2, <4>1, <4>4 DEF Abort, NoAnswer
        <4>5. ASSUME NEW acknowledged \in BOOLEAN, Commit(r, acknowledged)
              PROVE  answer'[r].kind # "ok"
          BY <2>2, <4>5 DEF Commit, NoAnswer
        <4>6. CASE ReadGrant(r) \/ ReadRoll(r) \/ ReadProgression(r)
          BY <2>2, <3>2, <4>1, <4>2, <4>6
          DEF ReadGrant, ReadRoll, ReadProgression, Answers
        <4>7. CASE UNCHANGED answer
          BY <4>7
        <4>8. CASE PlanRewards(r) \/ LockProgression(r) \/ InsertGrant(r)
          BY <4>8 DEF PlanRewards, LockProgression, InsertGrant
        <4>9. CASE InsertLevelRewards(r) \/ InsertDropAndRoll(r)
          BY <4>4, <4>7, <4>9 DEF InsertLevelRewards, InsertDropAndRoll, locals
        <4> QED
          BY <2>5, <3>2, <4>1, <4>3, <4>4, <4>5, <4>6, <4>8, <4>9 DEF Step, Fail
      <3> QED
        BY <3>1, <3>2
    <2>6. CASE UNCHANGED answer
      BY <2>3, <2>6
    <2>7. ASSUME \/ \E t \in Tasks : Create(t) \/ Update(t) \/ Archive(t)
                 \/ \E it \in inventory : Equip(it) \/ Unequip(it)
                 \/ \E c \in Catalog : CreateItem(c) \/ DisableItem(c)
          PROVE  UNCHANGED answer
      BY <2>7 DEF Create, Update, Archive, Equip, Unequip, CreateItem, DisableItem, locals
    <2>8. UNCHANGED vars => UNCHANGED answer
      BY DEF vars, locals
    <2> QED
      BY <2>3, <2>4, <2>5, <2>6, <2>7, <2>8 DEF Next
  <1>2. TellsLedger' = TellsLedger
    BY <1>1 DEF TellsLedger
  <1>3. \A q \in TellsLedger : answer'[q].final = answer[q].final
    BY <1>1 DEF TellsLedger
  <1> QED
    BY <1>2, <1>3 DEF Told

\* A commit pays its task.
LEMMA CommitPays ==
    ASSUME IInv, AInv, ReachedOnly, ReachedOnly', [Next]_vars,
           NEW r \in Requests, NEW acknowledged \in BOOLEAN, Commit(r, acknowledged)
    PROVE  Ledger!LedgerNext
  <1>1. PICK u, t : u = call[r].user /\ t = call[r].task
    OBVIOUS
  <1>2. /\ u \in Users /\ t \in Tasks /\ Owner[t] = u
        /\ t \notin DOMAIN grants
        /\ DOMAIN grants' = DOMAIN grants \cup {t}
        /\ \A s \in DOMAIN grants : grants'[s] = grants[s]
        /\ progressions'[u].xp = progressions[u].xp + grants'[t].final
        /\ \A v \in Users \ {u} : progressions'[v] = progressions[v]
    BY <1>1, CommitEffect
  <1>3. grants'[t].final \in 0..MaxFinalXP
    <2>1. grants'[t].final = plan[r].final
      BY <1>1, CommitEffect
    <2> QED
      BY <2>1 DEF IInv, TypeOK, RequestsOK, Plans
  <1>4. Told' = Told
    <2>1. ASSUME NEW q \in Requests, AttachVisual(q)
          PROVE  FALSE
      <3>1. grants' = grants
        BY <2>1 DEF AttachVisual, database
      <3> QED
        BY <1>2, <3>1
    <2> QED
      BY <2>1, TellsKept
  <1>5. /\ t \notin DOMAIN Paid
        /\ DOMAIN Paid' = DOMAIN Paid \cup {t}
        /\ Paid'[t] = grants'[t].final
        /\ \A s \in DOMAIN Paid : Paid'[s] = Paid[s]
    BY <1>2 DEF Paid
  <1>6. Total' = [Total EXCEPT ![u] = @ + Paid'[t]]
    BY <1>2, <1>5 DEF Total
  <1>7. HandedOut' = [HandedOut EXCEPT ![u] = Ledger!Reached(Total'[u])]
    <2>1. Total'[u] = progressions'[u].xp
      BY <1>2 DEF Total
    <2> QED
      BY <1>2, <2>1 DEF ReachedOnly, Ledger!Reached
  <1>8. Ledger!Pay(t)
    BY <1>2, <1>3, <1>4, <1>5, <1>6, <1>7
    DEF Ledger!Pay, Paid, Total, HandedOut, Told
  <1> QED
    BY <1>2, <1>8 DEF Ledger!LedgerNext

\* A complete answer tells what was paid.
LEMMA AttachTells ==
    ASSUME IInv, AInv, [Next]_vars, NEW r \in Requests, AttachVisual(r)
    PROVE  Ledger!LedgerNext
  <1>1. PICK t : t = call[r].task
    OBVIOUS
  <1>2. /\ pc[r] = "visual" /\ t \in Tasks
        /\ answer \in [Requests -> Answers]
        /\ answer' = [answer EXCEPT ![r].kind = "ok"]
        /\ UNCHANGED <<grants, progressions, levelRewards>>
    BY <1>1 DEF AttachVisual, Goto, IInv, TypeOK, RequestsOK, database
  <1>3. /\ t \in DOMAIN grants /\ answer[r].final = grants[t].final
        /\ ~Answered(r)
    BY <1>1, <1>2 DEF AInv, AnswerOK, ShowsGrant, Answered
  <1>4. /\ Answered(r)' /\ answer'[r].final = answer[r].final
        /\ \A q \in Requests \ {r} : answer'[q] = answer[q]
    BY <1>2 DEF Answers, Answered
  <1>5. TellsLedger' = TellsLedger \cup {r} /\ r \notin TellsLedger
    BY <1>3, <1>4 DEF TellsLedger, Answered
  <1>6. Told' = [q \in DOMAIN Told \cup {r} |-> IF q = r THEN Paid[t] ELSE Told[q]]
    <2>1. DOMAIN Told = TellsLedger /\ DOMAIN Told' = TellsLedger \cup {r}
      BY <1>5 DEF Told
    <2>2. Told'[r] = Paid[t]
      BY <1>3, <1>4, <1>5 DEF Told, Paid
    <2>3. \A q \in TellsLedger : Told'[q] = Told[q] /\ q # r
      BY <1>4, <1>5 DEF Told, TellsLedger
    <2>4. Told' = [q \in DOMAIN Told' |-> Told'[q]]
      BY DEF Told
    <2> HIDE DEF Told
    <2> QED
      BY <2>1, <2>2, <2>3, <2>4
  <1>7. UNCHANGED <<Paid, Total, HandedOut>>
    BY <1>2 DEF Paid, Total, HandedOut
  <1>8. Ledger!Tell(r, t)
    BY <1>3, <1>5, <1>6, <1>7 DEF Ledger!Tell, Paid, Total, HandedOut, Told
  <1> QED
    BY <1>2, <1>8 DEF Ledger!LedgerNext

\* Every other step leaves the ledger alone.
LEMMA OthersStutter ==
    ASSUME IInv, AInv, [Next]_vars, ~\E r \in Requests : AttachVisual(r),
           UNCHANGED <<progressions, grants, rolls, levelRewards, inventory>>
    PROVE  UNCHANGED Ledger!ledgerVars
  <1>1. UNCHANGED <<Paid, Total, HandedOut>>
    BY DEF Paid, Total, HandedOut
  <1>2. UNCHANGED Told
    BY TellsKept
  <1> QED
    BY <1>1, <1>2 DEF Ledger!ledgerVars, Paid, Total, HandedOut, Told

\* Seen from outside, completing tasks is a ledger: tasks are paid once, with
\* XP and milestones in one step, and answers tell what was paid, for any
\* number of concurrent, failing and repeated requests (complete_tx.go).
THEOREM CompletionImplementsLedger == Spec => ImplementsLedger
  <1>1. Init => Ledger!LedgerInit
    <2> SUFFICES ASSUME Init
                 PROVE  Ledger!LedgerInit
      OBVIOUS
    <2>1. Paid = [t \in {} |-> 0]
      BY DEF Init, Paid
    <2>2. Total = StartXP
      BY StartAssumption DEF Init, Total
    <2>3. Told = [r \in {} |-> 0]
      <3>1. TellsLedger = {}
        BY DEF Init, TellsLedger, Answered, NoAnswer
      <3> QED
        BY <3>1 DEF Told
    <2>4. HandedOut = [u \in Users |-> Ledger!Reached(StartXP[u])]
      <3>1. HandedOut = [u \in Users |-> Ledger!Reached(progressions[u].xp)]
        BY InitInv, InitHands, HandedOutReached DEF ReachedOnly
      <3>2. \A u \in Users : progressions[u].xp = StartXP[u]
        BY DEF Init
      <3> QED
        BY <3>1, <3>2
    <2> QED
      BY <2>1, <2>2, <2>3, <2>4 DEF Ledger!LedgerInit, Paid, Total, HandedOut, Told
  <1>2. IInv /\ AInv /\ ReachedOnly /\ ReachedOnly' /\ [Next]_vars
           => [Ledger!LedgerNext]_(Ledger!ledgerVars)
    BY OnlyCommitHands, CommitPays, AttachTells, OthersStutter
  <1>3. Spec => []ReachedOnly
    BY HandedOutReached, Inductive, HandsInductive, PTL
  <1> QED
    BY <1>1, <1>2, <1>3, Inductive, AnswersInductive, PTL
    DEF Spec, ImplementsLedger, Ledger!LedgerSpec

=============================================================================
