------------------------------- MODULE Paging -------------------------------
(***************************************************************************)
(* The lists.  A list counts its rows in one statement and reads a page of *)
(* them in another, each of which sees what is committed when it begins.   *)
(* Rows that the ORDER BY does not tell apart come in any order.           *)
(***************************************************************************)
EXTENDS Requests

CONSTANTS DefaultLimit, MaxLimit, Lists

ASSUME PagingAssumption == DefaultLimit \in Nat \ {0} /\ MaxLimit \in Nat \ {0}

VARIABLE
    found           \* the answer of a list, and what its statements saw

\* total, page and start are the answer; key orders the rows that the page was
\* cut from; counted and listed are, for the properties only, the tables as the
\* two statements found them.
Nothing == [total |-> 0, page |-> <<>>, start |-> 0, key |-> <<>>,
            counted |-> None, listed |-> None]

PagingInit == found = [c \in Calls |-> Nothing]

\* Sort keys are sequences of numbers, compared from the left.
Before(a, b) ==
    \E i \in DOMAIN a : a[i] < b[i] /\ \A j \in 1..(i - 1) : a[j] = b[j]

\* The orders of the rows that the sort keys allow.
Sorted(key) ==
    {s \in [1..Cardinality(DOMAIN key) -> DOMAIN key] :
        \A i, j \in DOMAIN s :
            i < j => s[i] # s[j] /\ ~Before(key[s[j]], key[s[i]])}

Least(a, b) == IF a < b THEN a ELSE b
Offset(n) == IF n < 0 THEN 0 ELSE n

\* LIMIT and OFFSET.
Pages(key, limit, start) ==
    {SubSeq(s, start + 1, Least(start + limit, Len(s))) : s \in Sorted(key)}

\* SELECT count(*).
Count(c, rows, table) ==
    found' = [found EXCEPT ![c].total = Cardinality(rows), ![c].counted = table]

\* SELECT ... ORDER BY ... LIMIT ... OFFSET.
ReadPage(c, key, limit, table) ==
    LET start == Offset(req[c].offset)
    IN  \E p \in Pages(key, limit, start) :
            found' = [found EXCEPT ![c].page = p, ![c].start = start,
                                   ![c].key = key, ![c].listed = table]

-----------------------------------------------------------------------------
Listed == {c \in Calls : Answered(c, {"ok"}) /\ req[c].op \in Lists}

SameQuery(c, d) ==
    [req[c] EXCEPT !.limit = 0, !.offset = 0] = [req[d] EXCEPT !.limit = 0, !.offset = 0]

Unambiguous(key) == \A x, y \in DOMAIN key : x = y \/ key[x] # key[y]

\* A list that met no change between its statements has the right total; two
\* lists of the same rows, when the sort tells the rows apart and time has not
\* changed its keys, fit together: a row is on both pages only where they
\* overlap, and at the same place.
PagesAgree ==
    /\ \A c \in Listed : found[c].counted = found[c].listed =>
          found[c].total = Cardinality(DOMAIN found[c].key)
    /\ \A c, d \in Listed :
          /\ SameQuery(c, d)
          /\ found[c].listed = found[d].listed /\ found[c].key = found[d].key
          /\ Unambiguous(found[c].key)
          => \A i \in DOMAIN found[c].page, j \in DOMAIN found[d].page :
                found[c].page[i] = found[d].page[j]
                    <=> found[c].start + i = found[d].start + j

=============================================================================
