----------------------------- MODULE MCSessions -----------------------------
(***************************************************************************)
(* Instances of Sessions for TLC: enough calls for a login, a refresh, one *)
(* of its successor, and a late use of the first token or a logout.        *)
(***************************************************************************)
EXTENDS Sessions, TLC

CONSTANTS u1, u2, r1, r2, r3, r4

TwoUsers == {u1, u2}
FourRequests == {r1, r2, r3, r4}

=============================================================================
