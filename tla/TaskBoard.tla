----------------------------- MODULE TaskBoard -----------------------------
(***************************************************************************)
(* The tasks of a user and their categories, as the task endpoints see     *)
(* them.  A task is named by the call that created it or by the seed; a    *)
(* category by its owner and title, which are unique.                      *)
(***************************************************************************)
EXTENDS Paging

VARIABLES task, categories

boardVars == <<task, categories, found>>

systemCategories == {"study", "work", "personal", "general"}
defaultCategory == "general"

BoardInit ==
    /\ task = mix.tasks
    /\ categories = {mix.tasks[t].category : t \in DOMAIN mix.tasks}

Put(table, key, row) == [k \in DOMAIN table \cup {key} |-> IF k = key THEN row ELSE table[k]]

normalizePriority(p) == IF p \in {"low", "normal", "high"} THEN p ELSE "normal"
validComplexity == {"tiny", "small", "medium", "large"}
normalizeComplexity(x) == IF x = None THEN "medium" ELSE x
EnsureSystemCategories(u) == categories' = categories \cup ({u} \X systemCategories)

-----------------------------------------------------------------------------
(* Creating a task: fields, categories, the category asked for, the row. *)

\* A title of None is blank or too long.
CreateTask(c) ==
    /\ pc[c] = "createTask"
    /\ IF req[c].title # None /\ normalizeComplexity(req[c].complexity) \in validComplexity
       THEN EnsureSystemCategories(User(c)) /\ Go(c, "t_category")
       ELSE Answer(c, "validation_error") /\ UNCHANGED categories
    /\ UNCHANGED <<limiterVars, audit, task, found>>

CategoryOf(c) ==
    IF req[c].category = None THEN <<User(c), defaultCategory>> ELSE req[c].category

OwnsCategory(c, category) == category \in categories /\ category[1] = User(c)

ResolveCategory(c) ==
    /\ pc[c] = "t_category"
    /\ IF OwnsCategory(c, CategoryOf(c)) THEN Go(c, "t_insert")
       ELSE Answer(c, IF req[c].category = None THEN "not_found" ELSE "validation_error")
    /\ UNCHANGED <<limiterVars, audit, boardVars>>

InsertTask(c) ==
    /\ pc[c] = "t_insert"
    /\ task' = Put(task, c,
           [owner |-> User(c), status |-> "active", category |-> CategoryOf(c),
            priority |-> normalizePriority(req[c].priority),
            complexity |-> normalizeComplexity(req[c].complexity),
            deadline |-> req[c].deadline, created |-> now])
    /\ AnswerCommit(c, "created")
    /\ UNCHANGED <<limiterVars, audit, categories, found>>

-----------------------------------------------------------------------------
(* Single tasks. *)

Mine(c) == req[c].task \in DOMAIN task /\ task[req[c].task].owner = User(c)

ValidPatchOf(r) ==
    /\ "title" \in DOMAIN r.fields => r.fields.title # None
    /\ "priority" \in DOMAIN r.fields => r.fields.priority \in {"low", "normal", "high"}
    /\ "complexity" \in DOMAIN r.fields => r.fields.complexity \in validComplexity

\* Validation, with the category looked up if it is to change.
PatchTask(c) ==
    /\ pc[c] = "patchTask"
    /\ IF /\ ValidPatchOf(req[c])
          /\ "category" \in DOMAIN req[c].fields => OwnsCategory(c, req[c].fields.category)
       THEN Go(c, "t_update")
       ELSE Answer(c, "validation_error")
    /\ UNCHANGED <<limiterVars, audit, boardVars>>

\* Only the given fields, whatever the status.
UpdateTask(c) ==
    LET t == req[c].task
        given == req[c].fields
    IN  /\ pc[c] = "t_update"
        /\ IF Mine(c)
           THEN /\ task' = [task EXCEPT ![t] =
                       [f \in DOMAIN @ |-> IF f \in DOMAIN given THEN given[f] ELSE @[f]]]
                /\ AnswerCommit(c, "ok")
           ELSE Answer(c, "not_found") /\ UNCHANGED task
        /\ UNCHANGED <<limiterVars, audit, categories, found>>

ArchiveTask(c) ==
    /\ pc[c] = "archiveTask"
    /\ IF Mine(c)
       THEN /\ task' = [task EXCEPT ![req[c].task].status = "archived"]
            /\ AnswerCommit(c, "ok")
       ELSE Answer(c, "not_found") /\ UNCHANGED task
    /\ UNCHANGED <<limiterVars, audit, categories, found>>

GetTask(c) ==
    /\ pc[c] = "getTask"
    /\ Answer(c, IF Mine(c) THEN "ok" ELSE "not_found")
    /\ UNCHANGED <<limiterVars, audit, boardVars>>

GetCategories(c) ==
    /\ pc[c] = "getCategories"
    /\ EnsureSystemCategories(User(c))
    /\ Go(c, "t_categories")
    /\ UNCHANGED <<limiterVars, audit, task, found>>

ReadCategories(c) ==
    /\ pc[c] = "t_categories"
    /\ Answer(c, "ok")
    /\ UNCHANGED <<limiterVars, audit, boardVars>>

-----------------------------------------------------------------------------
(* The list of tasks. *)

Overdue(t) == task[t].status = "active" /\ task[t].deadline # None /\ task[t].deadline < now

\* WHERE: a filter that is empty admits every row.
Matches(t, r) ==
    /\ task[t].owner = r.user
    /\ r.status \in {"all", task[t].status}
    /\ r.category \in {None, task[t].category}
    /\ r.priority \in {None, task[t].priority}

MatchingTasks(r) == {t \in DOMAIN task : Matches(t, r)}

\* ORDER BY: overdue tasks, then by deadline (NULLS LAST), the newest first.
TaskKey(t, r) ==
    LET late == IF Overdue(t) THEN 0 ELSE 1
        due == IF task[t].deadline = None THEN <<1, 0>> ELSE <<0, task[t].deadline>>
    IN  IF r.sort = "created_at" THEN <<late, -task[t].created>>
        ELSE <<late>> \o due \o <<-task[t].created>>

TaskLimit(n) == IF n <= 0 \/ n > MaxLimit THEN DefaultLimit ELSE n

\* Mutant: the total counts the tasks of every priority.
CountTasksLoosely(c) ==
    /\ pc[c] = "listTasks"
    /\ Count(c, MatchingTasks([req[c] EXCEPT !.priority = None]), task)
    /\ Go(c, "t_page")
    /\ UNCHANGED <<limiterVars, audit, task, categories>>

CountTasks(c) ==
    /\ pc[c] = "listTasks"
    /\ Count(c, MatchingTasks(req[c]), task)
    /\ Go(c, "t_page")
    /\ UNCHANGED <<limiterVars, audit, task, categories>>

ListTasks(c) ==
    /\ pc[c] = "t_page"
    /\ ReadPage(c, [t \in MatchingTasks(req[c]) |-> TaskKey(t, req[c])],
                TaskLimit(req[c].limit), task)
    /\ Answer(c, "ok")
    /\ UNCHANGED <<limiterVars, audit, task, categories>>

BoardStep(c) ==
    \/ CreateTask(c) \/ ResolveCategory(c) \/ InsertTask(c)
    \/ PatchTask(c) \/ UpdateTask(c) \/ ArchiveTask(c) \/ GetTask(c)
    \/ GetCategories(c) \/ ReadCategories(c) \/ CountTasks(c) \/ ListTasks(c)

=============================================================================
