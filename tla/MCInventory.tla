----------------------------- MODULE MCInventory -----------------------------
(***************************************************************************)
(* Instances of Inventory for TLC: two items of one catalog entry and one  *)
(* of another, of one or two users.                                        *)
(***************************************************************************)
EXTENDS Inventory, TLC

CONSTANTS u1, u2, i1, i2, i3, c1, c2

TwoUsers == {u1, u2}
ThreeItems == {i1, i2, i3}
TwoEntries == {c1, c2}
Of == [i \in Items |-> IF i = i3 THEN c2 ELSE c1]
\* i1 and i3 belong to u1, i2 to u2.
By == [i \in Items |-> IF i = i2 THEN u2 ELSE u1]
HandHeadOrBack == {"hand", "head", "wings"}
HandAndHead == {"hand", "head"}

Symmetry == Permutations(Requests)

=============================================================================
