# Verification of the task companion

TLA+ models of the Go backend and of the API client its two web applications
share: the reward for completing a task, the item inventory, accounts and
sessions, settings, the look of the application, the item catalog and its
administration, and what a device does with its tokens. Every definition is
translated from the source; `PROJECT.json` maps each of them to its lines.

## The system

Users keep tasks. Completing a task pays XP, may raise the user's level, hands
out an item on every fifth level and may drop another item; worn items multiply
the XP of later tasks and dress a mascot. Administrators edit the item catalog.
The backend (`src/backend`) is an HTTP server over PostgreSQL; nearly all state
is in the database (in memory are only the rate limiter and the tracker of
failed logins), every statement runs at READ COMMITTED, and two web clients
(`src/apps`) share one API client (`src/shared/api`).

| component | state | operations | what is hard | correct when |
|---|---|---|---|---|
| reward math (`reward/math.go`, `task/xp.go`) | none | XP, levels, rarities, multipliers | truncation of a float product, threshold boundaries | bounds, every outcome reachable, milestones split |
| completion (`reward`, `rewardrepo`) | tasks, progressions, grants, rolls, level rewards, items | one transaction between two sets of reads | concurrent, repeated, failing and unacknowledged calls; a plan made before the locks | XP moves with grants only; one grant and one roll per task; answers agree |
| tasks and categories (`task`, `taskrepo`) | tasks, categories | create, edit, archive, read, list | no status guard; a total and a page from two statements | a paid task is never paid again; pages fit together |
| inventory (`inventory`, `inventoryrepo`) | owned and equipped items | equip, unequip | the slot is chosen before the transaction | the item is worn in its slot |
| catalog and assets (`admin`, `adminrepo`) | items, asset files, log | create, edit, disable, upload | row and log in one transaction; a file before the row; names that are swapped | log and catalog tell one story; the image shown is whole |
| admin reads (`admin`, `adminrepo`) | none | users, items, log, statistics | two statements, sorts with ties | totals and pages agree |
| sessions (`auth`, `authrepo`) | sessions | login, refresh, logout, family revocation | rotation racing revocation; lost answers | one valid session per family; a reused token ends it |
| access tokens, roles (`auth`, `httpserver`) | none | the two checks before a handler | a token outlives its session | refused before the handler |
| limiter and failure tracker (`auth`) | sliding windows | allow, add, reset | window ends, equality threshold | never more than the limit in a window; a burst raises an alarm |
| registration, profile (`auth`, `profile`, repos) | users, their first rows | register, me, display name | two transactions; one mailbox in several spellings | all rows or none; one user per mailbox |
| settings (`profile`, `profilerepo`) | settings, reminder row | read, patch | read, merge, write of overlapping patches | no lost patch |
| visual state (`visual`, `visualrepo`) | a row per slot | read, refresh | setting read before the save; upserts in any order | no mixed look; disabled means unchanged |
| API client (`shared/api`, auth stores) | tokens, running refresh | request, refresh, retry, bootstrap, logout | a shared refresh, stale bodies, lost answers, restarts | nobody is signed out needlessly; a logout ends the session |
| user interface, wiring, health | view state | | | |

How they meet: a completion reads `equipped_items` and the catalog, and writes
items that the inventory equips; it calls the visual service after its commit.
The inventory reads the catalog. The visual service reads (and makes) one row of
the settings. Registration makes the first rows of settings, profile and
progression. Everything the administrator does writes the audit log in its own
transaction. The client meets all of it through access tokens, and the sessions
through refresh tokens. The parts of the backend never call each other over a
queue: they meet in rows and row locks.

## Modules

### Rewards and inventory

- **RewardMath** - the pure rules. Multipliers are thousandths (the columns are
  `numeric(6,3)`), completion rolls are billionths (what `cryptoRNG.Float64`
  draws). What the code computes in float64 is a set of what the doubles may give.
  `EquipmentMultiplier` has every thousandth between the product rounded down and
  the product rounded up after each factor, within the clamp; a completion picks
  one to pay by and one to store. `FinalXP`: where the exact product is a whole
  number and the multiplier is not a dyadic fraction, the float product may lie
  just below it and lose one XP. `DropRarity`: a roll that equals a threshold may
  hit it or not; elsewhere roll and threshold are too far apart to be confused.
- **RewardMathSamples** - walks through inputs of RewardMath.
- **Completion** - `POST /tasks/:id/complete`. `pc[r]` names the next statement
  of call r: `TaskForCompletion` and `PlanRewards` are the reads and rolls of
  `Complete` and `freshComplete`; `LockTask`, `LockProgression`, `InsertGrant`,
  `InsertLevelRewards`, `InsertDropAndRoll` and `Commit` the statements of
  `CompleteTx`; `ReadGrant`, `ReadRoll` and `ReadProgression` those of
  `PersistedCompletion` (an error of the roll's query is taken for no drop, so
  `ReadRoll` answers with the stored rarity or with none); `AttachVisual` the
  refresh at the end. Uncommitted
  writes sit in `buffer[r]`; `taskLock` and `progressionLock` are the row locks.
  `Fail` is an error, a cancelled request or a stopped process at any statement;
  a commit may be durable without its caller hearing of it. Next to the calls
  run `Create`, `Update`, `Archive`, `Equip`, `Unequip`, `CreateItem` and
  `DisableItem`, each one statement that waits for row locks. Commit makes the
  buffer visible in one step, which is what PostgreSQL guarantees.
- **RewardLedger** - what completion promises: a task is paid once, its XP and
  the milestones reached arrive in the same step, and who is told an amount is
  told the one paid. `Completion!Ledger` is the refinement mapping.
- **Inventory** - equip and unequip. `DecideSlot` is the part of `Equip` before
  the transaction (`ListOwned`, `ActiveMascot`, `slotAccepted`), `LockItem` and
  `UpsertEquipped` are `EquipTx`, `Unequip` is one DELETE. `Grant` stands for
  completions, `UpdateItem` for the administrator moving an item between slots.
  In Completion, `Equip` is a single step: completions only read what is worn.

### Requests over one database

- **Requests** - what every request goes through before its handler: the access
  token, the role and the limiter, in the order of the route (`Receive`), and
  bodies or ids that cannot be read (`Refuse`). `pc[c]` names the next statement
  of call c. A lock is a function of `pc`: a call holds a row exactly while it
  stands between the statement that takes it and the end of its transaction, so
  ending a call in any way releases everything, as the deferred rollback does.
  What a transaction has written is applied at its commit; until then others
  see the old rows, or wait. A commit may take effect and still be reported as an
  error. `Mixes` are workloads: what is stored at first, the requests to draw
  from, how many, how far the clock moves and whether anything fails.
- **Settings** - `ensureSettings` is the transaction that makes missing rows,
  `LockSettings` the `SELECT ... FOR UPDATE`, `ReadAndApply` the reads and the
  merge, `SaveSettings` the updates and the commit. `wanted` is a history: the
  last value that a committed patch gave each field.
- **Visual** - `RefreshVisual` validates and makes the row of the setting,
  `ReadFlag` reads it and rolls, `LoadVisual` is the branch without randomness,
  `UpsertSlot` takes one row after the other in an order chosen as Go chooses
  that of a map, `CommitVisual` shows them. A value is named by the look it was
  part of, so that a mixture is visible.
- **Accounts** - registration (`Register` is the INSERT that waits in the unique
  index, `CommitUser` the first rows and the commit, then a log entry and the
  session, each of which may fail), login (`Login`, then `LoginSucceeded` or
  `RecordFailedLogin`, the tracker's `Reset` and `Add`) and the profile. An
  e-mail is what was typed; `Mailbox` and `FailureKey` are what the database and
  the service fold it to, which is not the same.
- **Paging** - counting, sorting and cutting a page: rows the ORDER BY does not
  tell apart come in any order. **TaskBoard** - tasks, categories and their list.
  **Catalog** - create, edit, disable and upload with the row locks, the unique
  index on the name, the file in two steps and the log entry in the same commit.
  **AdminReads** - lists of users, items and log entries, and the statistics.
- **Server** - composes them: any request, interleaved statement by statement
  with any other, over one database, clock, limiter and log.

### Sessions and the client

- **Sessions** - the end of login and registration, refresh and logout. A
  session is named by the call that created it. `LookupRefresh` is
  `SessionByRefreshHash` with the two checks after it; `Rotate` is the guarded
  UPDATE of `RotateSession`, which takes the row's lock, `CommitRotation` the
  INSERT and the commit; `SnapshotFamily` and `RevokeFamily` are the begin and the
  end of one UPDATE, because a statement at READ COMMITTED sees the rows
  committed when it begins and then waits for locks; `RevokeSession` is logout's
  UPDATE. `Limited` is the 429 of the limiter in front of the refresh: the address
  may be shared and Sessions has no clock, so it can meet any refresh. An answer may be lost after its commit, a call may fail at any
  statement, a session may expire at any moment.
- **TokenFamilies** - what refresh tokens promise: a family has one current
  token, which is replaced or ended and never comes back. `Sessions!Chains` is
  the refinement mapping.
- **ApiClient** - one device over the statements of Sessions. `op[o]` is an
  operation with the access token it was sent with and the body it was built
  with, `at[o]` where it stands; `refreshPromise` the operation whose refresh
  the others wait for. `Denied` and `JoinRefresh` are the 401 branch of
  `request`, `ReadToken`, `Refreshed`, `RefreshRefused` and `RefreshLost` are
  `ensureRefresh` and `runRefresh`, `Resend` is the one retry, `TearDown` the
  session lost, `Bootstrap`, `SignIn` and `SignOut` the stores'. `app` says
  whether the device runs the mobile application, which keeps the refresh token
  over a `Restart`, or the panel, which does not and turns other roles away.
  Reading the stored token and sending it, and storing a new pair and resuming
  those that wait, are one step each: no other operation can tell the order,
  since the code between them touches only the promise. The access and the
  refresh token of a session are both named by the session.
- **MCCompletion**, **MCInventory**, **MCSessions**, **MCServer**,
  **MCApiClient** - the instances for TLC.
- **RewardMathLemmas**, **RewardMathProofs**, **CompletionProofs**,
  **InventoryProofs**, **SessionsProofs**, **ServerProofs**, **ServiceProofs**,
  **ApiClientProofs** - the proofs.

Abstractions: texts are values of small sets, and only as blank, taken or
searched for as an operation asks; descriptions, hashing, the text of tokens and
of answers are left out. In Completion and Inventory titles, names, categories,
deadlines and assets are left out; a catalog item keeps the position of its
name, rarity and (in Completion) slot; rarities of existing items cannot change
in the code either. Rolls are taken from small sets of representatives in the
runs and are arbitrary in the proofs.

## Runs

| run | instance | shows |
|---|---|---|
| `math_samples` | range ends, all thresholds and their neighbours | XP bounds, milestones exactly once however XP is split, all rarities reachable, item multipliers within the schema's ranges |
| `one_task_three_calls` | 2 users, 1 task, 3 calls, 2 kinds of task, drop or none, an item coming and going | a task completed by three overlapping or repeated calls is paid once; every answer shows what is stored, or no drop where a repeat could not read the roll; grants are final; a roll has its item; the item just dropped never boosts its own task; the ledger is implemented |
| `two_tasks_one_user` | 2 tasks, 2 calls, two XP amounts, 2 catalog items, start 300 XP below a milestone | no lost update of the progression, milestones once, answers contain the grant; with fairness every call is answered |
| `equipping` | 2 users, 3 items of 2 catalog entries, 3 slots of which the mascot has 2, 2 calls | equip lands in the slot the catalog gives at that moment and leaves what it replaces, every equip is answered |
| `sessions` | 2 users, 4 calls | one valid session per family, tokens spent once, what a reuse has revoked is never continued, alarms have a cause, a confirmed logout holds, the abstract families are implemented, every call is answered |
| `server` | 16 workloads of 2 to 4 requests | no lost patch, no mixed look, no valid look replaced against the setting, whole registrations, exact windows of the limiter and of the alarm, one story in log and catalog, whole images, pages that fit, every request answered |
| `client` | 1 device with either application, 3 operations, 8 calls, 2 faults | nobody who met no fault and no 429 is sent to the login page but by a logout, a quiet logout ends the session, every operation ends |
| `repeated_visual`, `stale_plan`, `last_roll`, `worn_twice`, `reuse_spares_successor` | | statements of the documentation the code does not keep, see below |

**Bounds.** Two calls are the least that race for a row, and a third one lets a
repeat run while a race is undecided; users start 300 XP below level 5, so that a
completion reaches a milestone and two completions compete for it; one item of
the needed rarity can be absent, present or disabled, two decide by order. Four
calls are a login, two refreshes of its token and a third call (logout, a refresh
of the successor, a second login), so an alarm can meet a rotation, and a
rotation a logout. In Completion, Inventory and Sessions nothing counts, so
there are no bounds in guards: calls, tasks, items and sessions are finite sets.

In Server the bounds are those of the workload: `calls` requests, a clock up to
`until`, and `faults`. Every workload holds requests that meet over the same
rows: three patches of one user; refreshes with the switch that disables them;
four calls of one scope while a window of two time units with room for two or
three slides on, at one address or at two; failed and successful logins of one
key under three spellings with a threshold of two; three registrations of one
mailbox; changes of two items, with swapped names; uploads that fail at each
step; lists of at most two rows next to changes of what they list. Three calls
are needed where a window must be full, a swap meets a third rename, or a page
is followed by another one after a change; two where pairs of statements are all
that can meet. Workloads do not mix because requests of different ones share no
row but the log.

In ApiClient, `MaxFaults` bounds what goes wrong (lost requests and answers,
failing statements, expiring sessions). Access tokens expire, and operations
overlap, without a bound. Three operations include a login, two that share a
refresh, or one and a restart; eight calls are as many as three operations can
make. Larger instances were tried by hand: `MaxFaults = 3`, and four operations
without faults (safety only); everything holds there too.

**Symmetry** (permutations of calls) is used only in the run without liveness; the
ledger mapping is symmetric in calls.

**Fairness.** `FairSpec` of Completion, Inventory and Sessions asks weak fairness
of each call's next statement (`Step`), nothing of failures, users or
administrators. A received request is a goroutine that the Go scheduler runs, and
a statement whose row locks are free returns. Locks are always released because
every transaction ends by commit or by the deferred rollback; removing the
rollback (a mutant) breaks the property. Weak fairness suffices: a lock is given
up for good by a call, and there are finitely many calls. `Server!Spec` asks
less: of all the calls that can go on, some one does. Circles of waiting calls
(upserts in opposite order, swapped names) are broken by the database, which
aborts one of them (`DeadlockVictim`, `NameDeadlock`); a circle it cannot see,
a transaction that waits for a second connection of its own, is the mutant that
breaks `EveryRequestAnswered`. `ClientSpec` asks weak fairness of what an
operation does once an answer is there, and of the server's statements: the
event loop runs what is ready, and a `fetch` either answers or fails. Nothing has
to be lost, to expire or to be asked.

**Deadlock checking** stays on for Completion and Inventory, where edits and
catalog changes remain possible when all calls are answered, and for the math.
It is off in `sessions`, `server` and `client`: their workloads end, and then
nothing is left to do. There `EveryCallAnswered`, `EveryRequestAnswered` and
`EveryOperationEnds` say that nobody is left waiting.

## Divergences found

- Every answer, repeated ones included, may store a new visual state
  (`repeated_visual`).
- The base XP comes from the row read before the transaction locks it; an edit
  in between is ignored (`stale_plan`).
- The largest rolls round to 1.0000000 in `numeric(8,7)` and are refused by the
  CHECK, so a completion may fail with the roll unsaved (`last_roll`). The chance
  is about 5 in 10^8; a retry rolls again.
- Moving a worn item to another slot leaves it worn in the old one; equipped
  again, it is multiplied twice (`worn_twice`).
- The reuse of a revoked token revokes the sessions the UPDATE sees. A rotation
  that commits while the UPDATE waits for its row leaves a successor that stays
  valid (`reuse_spares_successor`); packet P03 says that the family is revoked.
- `FinalXP` truncates: 50 XP at a task multiplier of 1.25 pay 62, where the
  specification (docs/10-rebuild-technical-spec.md:357, 7.8.2) rounds. This one
  follows from the definition and has no run.

Behaviour the models contain that a reader may not expect, and that no document
rules out plainly enough to be called a divergence:

- A logout that overlaps a refresh presents the token just replaced; the session
  that replaced it stays valid until it expires. A refresh that ends after a
  logout stores its tokens again. `QuietLogoutEnds` excludes both.
- A start-up or a refresh without network drops the stored token, although the
  session is valid: the client does not tell a lost answer from a refusal. Nor
  does it tell a 429: twenty refreshes of one address within a minute sign out
  the next device of this address whose access token expires. `StaysSignedIn`
  excludes both.
- A session that expires between the two statements of its refresh is taken for
  a reused token: `NoFalseAlarm` names this among the causes of an alarm.
- A repeated completion whose roll cannot be read succeeds and shows no drop.
- A refresh of the look that found no valid one, with the randomness disabled,
  may overwrite with the fallback a roll that was saved after it had looked.
- A request that waits for a refresh is sent again under whatever token is
  stored then, also after another user has signed in.
- The panel turns a user of another role away by a logout without an access
  token, which is refused: the session stays valid.
- An error of the database during a login counts as a wrong password.
- A registration whose session cannot be made answers with an error; repeated, it
  answers that the e-mail is taken.
- A multiplier above 999.999 passes validation and is refused by the column.
- Pages of a list sorted by a column with equal values may overlap; totals and
  statistics are statements of their own.
- The entries of the log carry the begin of their transaction: sorted by it, they
  may be in another order than the changes they tell of.
- An upload whose row cannot be written leaves its file behind.

## Proofs

All constants are arbitrary (any users, tasks, calls, rolls), under the named
assumptions of Completion: tasks have owners, start XP is a natural number,
rolls lie in the range the generator yields, catalog items are numbered. For
Server the workload is arbitrary too: any requests of any users over any initial
rows, with `WorkloadAssumption` (what comes in is one of the operations, with an
address where the limiter needs one and an e-mail where the handler does; the
routes of settings and looks ask for a token, as server.go registers them; no edit
of an item reaches its image, rarity, age or whether it is active, which the payload
of the route does not have; seeded items are active and have no image),
`AbsenceAssumption` (`None` is no setting, account, look or request),
`NoneAssumption` (and no call or refusal), `SlotAssumption` (a look has a part) and `SortAssumption` (users and seeded rows are finitely many,
and what lists sort by - names, e-mails, dates - is numbers in their order).
For ApiClient `OperationsAssumption` is added to those of Sessions: `None` is no
operation of the device. Who may send which request is no assumption but a guard: a
token is signed for an account that is there (`Signed`), so a new user reads,
patches and refreshes as soon as the registration has committed.

- **TypeCorrect** needs no strengthening. It rests on the lemmas of
  RewardMathLemmas: the multiplier table covers every roll, `FinalXP` stays
  between the base and 1600, levels are at least 1.
- **LocksProtectReads**, **CompletedTasksAreGranted** follow from one inductive
  invariant, `IInv`: types; each row lock is held by exactly the call whose
  transaction is between taking and releasing it; what that call read is still
  stored; it has not been paid for yet; grants and rolls have the same keys; a
  completed task has its grant. `CompletedIsGranted` alone is not inductive: the
  commit sets a status and a grant, and the argument that nobody else does so
  meanwhile is the locks'.
- **GrantsNeverChange**, **XPMovesOnlyWithGrants** are action properties: only
  `Commit` writes these tables (lemma OnlyCommitWrites), and under `IInv` the
  sum it writes is the stored total plus the new grant.
- **AnswersAlwaysAgree**, **AnswersContainGrant** use a second invariant `AInv`
  relative to `IInv`: totals contain each single grant, what a call has read so
  far is still true (tables only grow) or is a roll that could not be read, and at
  most one call per task is fresh.
- **OneLive**, **SpentOnce**, **ReuseLasts**, **LogoutLasts** and the type theorem of
  SessionsProofs rest on one invariant: a row is locked by exactly the rotation
  that has updated it, and is valid until that rotation ends; calls that created
  a session have ended; confirmed logouts have revoked theirs, and reuses that
  were dealt with all they saw. Neither
  `OneLivePerFamily` nor `TokenSpentOnce` is inductive alone: that a commit adds
  the only valid session of its family needs the row to have stayed valid since
  the UPDATE, which is what the lock gives. The only assumption is that `None`
  is no call.
- **Refines** (SessionsProofs) shows that Sessions implements TokenFamilies.
  The mapping is written as an operator of the table, lemmas say what opening,
  renewing, ending and leaving alone do to it, and every step is one of these.
  It needs `OneLivePerFamily` before and after the step, and that a family
  revocation sees rows of one family only (`OneFamilySeen`).
- **AlarmsHaveCauses** needs to know who revoked what (`RevokedByCall`): a
  session that is no longer valid was revoked by a call that has ended, and that
  call either presented the session or raised the alarm over it. A refresh or
  rotation that finds its session not live has therefore met such a call, which
  is the cause the property asks for, and causes stay.
- **DropsNeverBoostTheirTask**, **RollsMatchDrops**, **MilestonesAreGivenOnce**
  rest on `HandInv`, relative to the invariants above: what a
  request is about to insert (`Inserts`) belongs to its task and was made from
  what its locks protect; every drop has the grant and the roll of its task; the
  items given for levels are exactly those of the milestones between the XP of
  the beginning and the XP of now. That each milestone is given by one request
  only comes from the lock on the progression, under which the level was read.
  **CompletionImplementsLedger** uses it too: a commit is the ledger's step of
  paying, with all its milestones at once, an answer is telling what was paid,
  and every other step leaves the ledger alone.
- **TypeCorrect** and **EquipReplacesItsSlot** of InventoryProofs share an
  invariant: what a request decided before its transaction still holds of the
  ownership, the row of the catalog is locked by the one request that is about
  to write its slot, and the slot decided on is the one in the locked row. The
  last part is what the re-check under the lock gives; without it the slot is
  that of an earlier read, which `UpdateItem` may have changed.
- **LooksStayWhole**, **DisabledLooksStay**, **PatchesAreKept**,
  **ImagesAreWhole**, **LimitsAreExact**, **LogTellsTheCatalog** (ServerProofs),
  **RegistrationsAreWhole** and **AlarmsAreExact** (ServiceProofs) hold however
  the calls of all services interleave. Lemmas first say where a step can take a
  call and what it can answer: each service moves its own calls among its own
  labels (`Moves`), and an arrival puts the call at its operation (`CallsOK`).
  Then one invariant per service is shown to survive its own steps, and those of
  the other services because these leave its rows and labels alone. None of the
  properties is inductive alone.
  - `LookInv` adds that a call about to save carries the fallback or the look it
    rolled itself, having met the randomness enabled, and that a valid look which
    the fallback of a waiting call would replace is such a roll, or the fallback.
  - `HolderInv`: whoever is served is registered, and one registration at a time
    has inserted a mailbox, which is free until it commits. Both the patches and
    the first rows need it: it keeps the rows a registration writes apart from
    those a patch has read.
  - `PatchInv` adds that one patch at a time holds the rows of a user, and that
    its draft is what is stored now with its own fields replaced - this is what
    reading after locking gives.
  - `AssetInv` adds that an upload gets to the row of the item only with its file
    written to the end, and that the call which wrote a shown image is over.
  - `LimiterInv`: what the limiter remembers of a key are calls it admitted, and
    it has forgotten none that is still inside the window. Counting what is
    remembered is therefore counting the window, although hits are dropped only
    when a call comes in.
  - `AuditInv`: a call that works on an item is at a place of its own operation
    (`PlaceInv`); an entry of a change belongs to a call that is over, one entry
    per call (`LogInv`); and an item shows what its entries say (`ShelfInv`).
  - `EntryInv` and `RegInv`: registrations stay among their own statements; a
    user without an account has none of the first rows, one that registered has
    all of them; who has registered a mailbox owns it from the commit on, and who
    was told that it is taken does not.
  - `AlarmInv`: the tracker remembers of a key exactly the failures of the run
    that its last decision ended - in the window, since the last success - and
    every run as long as the threshold contains an alarm. The lemmas before it
    (`RunGrows`, `HitsCount`, `ExactGrows`) say what one more decision does to the
    runs of a sequence.
- **PagesFit** (ServiceProofs) is about a sort first: in a sort by keys of one length
  in which no two rows tie, the place of a row is the number of rows before it
  plus one (`PlaceOfRow`), so two sorts of the same rows agree at each place, and
  a page is a piece of such a sort (`PageIsPiece`). The invariants then say that a
  list really sorts and counts what it found: `SortInv`, every row has the numbers
  it is sorted by, whoever wrote it; `LaneInv`, a call at a statement of a list is
  that list; `PageInv`, the total is the number of rows, and the page a piece of a
  sort of the rows, that the request asks for in the table the statement found.
  That a log entry's author is looked up in the requests makes `PageInv` depend on
  `LogInv` of LogTellsTheCatalog: entries are of calls that have come in, whose
  requests do not change.
- **PaysBetween**, **ItemMultipliers**, **MilestonesAddUp**,
  **RaritiesAreReachable**: the math for every input, not only the sampled ones.
- **ClientUsesSessions** (ApiClientProofs) carries all theorems of Sessions over to
  the client: every step of the device is one of Sessions or leaves the server
  alone. Its invariant `Base` joins the one of Sessions with `CallKinds` (a call
  is at a statement of its kind, and a row is a family of its own or the successor
  of the row that was presented), `DeviceOK` and `PlacesOK` (the tokens of the
  device and of its requests were sent to it; one operation has the refresh). What
  a step does to any one operation is said once, in `Lives`: it stays, starts,
  proceeds or ends. The proofs below ask only this.
- **QuietLogoutsEndFamilies**: that no session of the family is live when a quiet
  logout is confirmed says nothing of the time before, so three invariants about
  that are needed. `LoginsApart`: the session of a login under way is alone in its
  family, and nobody stores or refreshes it yet. `Undisturbed`: without a fault
  only the stored token, or the one that the refresh under way brings, is live
  in its family, and every rotation at work is awaited. `QuietEnds`: while a
  quiet logout runs, nothing begins that could continue the family it ends.
- **CalmDevicesStaySignedIn**: who is torn from the session had a refresh refused
  or was denied twice. `CalmInv` excludes both: who asks with a token has one to
  refresh with (`HoldsBoth`); the stored token is valid or is the one being
  refreshed (`StoredIsGood`); a refresh under way finds its session valid or has
  brought a valid one (`Promising`), and so has a login (`GoodLogin`); the
  sessions that the panel revokes are no one else's (`Apart`).

Every safety invariant and action property of a passing run is stated by one of
these theorems. Only model-checked is liveness, which is out of the prover's
reach: that calls, requests and operations end.

## Not modelled

- Pages, components and stores of the user interface other than the two auth
  stores: view state the server does not rely on.
- Logging, CORS, configuration, health, start-up, migration and the static file
  server: no state that an operation reads back. Of the schema the models have
  the keys, ranges and defaults that the operations rely on, of the seed the
  initial states.
- A restart of the server, beyond the failure of the calls it cuts off: the
  limiter and the tracker of failed logins start empty again, which changes what
  their windows promise and nothing else.
- The window of the limiter of the refresh endpoint (its 429 can meet any refresh,
  see `Limited`), and the log entries of refresh and logout: Server has sessions
  as one step, Sessions and ApiClient have no clock.
- The case without a default mascot at a registration: a migration inserts it, and
  nothing in the server removes it, so every registration makes the row of the
  companion.
- Several devices of one user: Sessions has any number of calls with any tokens,
  ApiClient one device.

## The plan

1. **RewardSystem** - Completion composed with Inventory: multipliers of worn
   items while they are equipped, moved and multiplied (each module now has the
   other's operations as single steps).
