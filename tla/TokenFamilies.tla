--------------------------- MODULE TokenFamilies ---------------------------
(***************************************************************************)
(* What refresh tokens promise, without statements, locks or lost answers: *)
(* a family of tokens begins with one token, its current token may be      *)
(* replaced by a new one, and it may end.  A token that is no longer       *)
(* current never becomes current again, in its own or another family.      *)
(***************************************************************************)
EXTENDS Integers

CONSTANTS Tokens, None

VARIABLES
    current,        \* per family, named by its first token: the valid token
    used            \* the tokens that were valid once

familyVars == <<current, used>>

New(t) == t \notin used /\ \A f \in DOMAIN current : current[f] # t

FamiliesInit == current = [f \in {} |-> None] /\ used = {}

Open(t) ==
    /\ New(t)
    /\ t \notin DOMAIN current
    /\ current' = [f \in DOMAIN current \cup {t} |->
                      IF f = t THEN t ELSE current[f]]
    /\ UNCHANGED used

Renew(f, t) ==
    /\ New(t)
    /\ current[f] # None
    /\ current' = [current EXCEPT ![f] = t]
    /\ used' = used \cup {current[f]}

End(f) ==
    /\ current[f] # None
    /\ current' = [current EXCEPT ![f] = None]
    /\ used' = used \cup {current[f]}

FamiliesNext ==
    \/ \E t \in Tokens : Open(t)
    \/ \E f \in DOMAIN current, t \in Tokens : Renew(f, t)
    \/ \E f \in DOMAIN current : End(f)

FamiliesSpec == FamiliesInit /\ [][FamiliesNext]_familyVars

=============================================================================
