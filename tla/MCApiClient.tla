---------------------------- MODULE MCApiClient -----------------------------
(***************************************************************************)
(* An instance of ApiClient for TLC: one device, three operations, and as  *)
(* many calls as they can need.                                            *)
(***************************************************************************)
EXTENDS ApiClient

ThreeOps == 1..3
EightCalls == 1..8
TwoUsers == {"user", "admin"}
AdminOnly == {"admin"}

=============================================================================
