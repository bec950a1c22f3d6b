----------------------------- MODULE AdminReads -----------------------------
(***************************************************************************)
(* The lists of the administration: users, items and the log.  A page is   *)
(* read first and the total counted after it; the sort is one column with  *)
(* nothing to break ties.  A search text is the set of the e-mails and     *)
(* names that contain it; descriptions are left out.                       *)
(***************************************************************************)
EXTENDS Accounts, Catalog, TaskBoard

clampLimit(n) == IF n <= 0 THEN DefaultLimit ELSE Least(n, MaxLimit)

\* The value of a sort column, turned around for descending order.
Directed(r, value) == <<IF r.dir = "asc" THEN value ELSE -value>>

ListedUsers(r) ==
    {u \in Users : /\ account[u] # None
                   /\ r.role \in {"user", "admin"} => account[u].role = r.role
                   /\ r.q # None => account[u].email \in r.q.emails \/ profile[u] \in r.q.names}

\* Columns that are not in the allowlist are replaced by created_at.
UserKey(r, u) ==
    Directed(r, CASE r.sort = "email" -> account[u].email
             [] r.sort = "role" -> IF account[u].role = "admin" THEN 1 ELSE 2
             [] OTHER -> account[u].created)

ListedItems(r) ==
    {i \in DOMAIN items : /\ r.rarity \in {None, items[i].rarity}
                          /\ r.active \in {None, items[i].active}
                          /\ r.slot \in {None, items[i].slot_key}
                          /\ r.q # None => items[i].name \in r.q.names}

\* The order of the alphabet.
RarityRank == [common |-> 1, epic |-> 2, legendary |-> 3, rare |-> 4]

ItemKey(r, i) ==
    Directed(r, CASE r.sort = "name" -> items[i].name
             [] r.sort = "rarity" -> RarityRank[items[i].rarity]
             [] r.sort = "slot_key" -> items[i].slot_key
             [] OTHER -> items[i].created)

ListedEntries(r) ==
    {n \in DOMAIN audit : /\ r.actor \in {None, req[audit[n].call].user}
                          /\ r.action \in {None, audit[n].action}
                          /\ r.from # None => audit[n].created >= r.from
                          /\ r.to # None => audit[n].created <= r.to}

EntryKey(n) == <<-audit[n].created>>

-----------------------------------------------------------------------------
ReadList(c, key, table) ==
    /\ ReadPage(c, key, clampLimit(req[c].limit), table)
    /\ Go(c, "count")

ListUsers(c) ==
    /\ pc[c] = "listUsers"
    /\ ReadList(c, [u \in ListedUsers(req[c]) |-> UserKey(req[c], u)], <<account, profile>>)
    /\ UNCHANGED <<limiterVars, audit>>

ListItems(c) ==
    /\ pc[c] = "listItems"
    /\ ReadList(c, [i \in ListedItems(req[c]) |-> ItemKey(req[c], i)], items)
    /\ UNCHANGED <<limiterVars, audit>>

ListAuditLogs(c) ==
    /\ pc[c] = "listLogs"
    /\ ReadList(c, [n \in ListedEntries(req[c]) |-> EntryKey(n)], audit)
    /\ UNCHANGED <<limiterVars, audit>>

CountListed(c) ==
    /\ pc[c] = "count"
    /\ CASE req[c].op = "listUsers" -> Count(c, ListedUsers(req[c]), <<account, profile>>)
         [] req[c].op = "listItems" -> Count(c, ListedItems(req[c]), items)
         [] req[c].op = "listLogs" -> Count(c, ListedEntries(req[c]), audit)
    /\ Answer(c, "ok")
    /\ UNCHANGED <<limiterVars, audit>>

\* Counts of several tables, each in a statement of its own; the tables that only
\* completions write are left out.
StatTables == <<"users", "tasks", "completed_tasks", "items">>

TableSize(name) ==
    Cardinality(CASE name = "users" -> {u \in Users : account[u] # None}
                  [] name = "tasks" -> DOMAIN task
                  [] name = "completed_tasks" -> {t \in DOMAIN task : task[t].status = "completed"}
                  [] name = "items" -> DOMAIN items)

Stats(c) ==
    LET done == found[c].page
    IN  /\ pc[c] = "stats"
        /\ IF Len(done) = Len(StatTables) THEN Answer(c, "ok") /\ UNCHANGED found
           ELSE /\ found' = [found EXCEPT ![c].page =
                                Append(@, TableSize(StatTables[Len(done) + 1]))]
                /\ UNCHANGED <<pc, ans>>
        /\ UNCHANGED <<limiterVars, audit>>

AdminReadStep(c) ==
    /\ ListUsers(c) \/ ListItems(c) \/ ListAuditLogs(c) \/ CountListed(c) \/ Stats(c)
    /\ UNCHANGED <<settingsVars, accountVars, catalogVars, task, categories>>

=============================================================================
