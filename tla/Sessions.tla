------------------------------ MODULE Sessions ------------------------------
(***************************************************************************)
(* Sessions and their refresh tokens: login and registration open a        *)
(* session, a refresh rotates it, presenting a revoked token revokes its   *)
(* family, logout revokes one session.  Requests run statement by          *)
(* statement against PostgreSQL at READ COMMITTED.                         *)
(*                                                                         *)
(* A session is named by the request that created it, and its refresh      *)
(* token by the session.  Only tokens that were sent out are ever          *)
(* presented: a token whose answer was lost is known to nobody.            *)
(***************************************************************************)
EXTENDS Integers, FiniteSets

CONSTANTS
    Users,
    Requests,       \* calls of login, refresh and logout
    None

ASSUME NoneAssumption == None \notin Requests

VARIABLES
    sessions,       \* the rows of sessions, by the request that created them
    lock,           \* the rotation that has updated a row and not committed
    pc,
    call,           \* what is asked, with which token and for which user
    snapshot,       \* the rows a family revocation has seen
    result          \* how the call ended

vars == <<sessions, lock, pc, call, snapshot, result>>

NoCall == [kind |-> "none", token |-> None]

Init ==
    /\ sessions = [s \in {} |-> NoCall]
    /\ lock = [s \in Requests |-> None]
    /\ pc = [r \in Requests |-> "idle"]
    /\ call = [r \in Requests |-> NoCall]
    /\ snapshot = [r \in Requests |-> {}]
    /\ result = [r \in Requests |-> "none"]

Insert(table, key, row) ==
    [k \in DOMAIN table \cup {key} |-> IF k = key THEN row ELSE table[k]]

\* Tokens somebody was sent.
Known == {s \in DOMAIN sessions : result[s] = "ok"}

FamilyOf(s) == {t \in DOMAIN sessions : sessions[t].family = sessions[s].family}

Goto(r, from, to) ==
    /\ pc[r] = from
    /\ pc' = [pc EXCEPT ![r] = to]

Answer(r, from, outcome) ==
    /\ Goto(r, from, "answered")
    /\ result' = [result EXCEPT ![r] = outcome]

Asks(r, kind, token) ==
    call' = [call EXCEPT ![r] = [kind |-> kind, token |-> token]]

Unlock(r) ==
    lock' = [s \in Requests |-> IF lock[s] = r THEN None ELSE lock[s]]

Outcome(acknowledged) == IF acknowledged THEN "ok" ELSE "error"

-----------------------------------------------------------------------------
(* Login and registration: one INSERT opens a family of its own.  An answer  *)
(* that is lost, or a token that cannot be signed, leaves the row behind.    *)

Login(r, u, acknowledged) ==
    /\ Answer(r, "idle", Outcome(acknowledged))
    /\ Asks(r, "login", None)
    /\ sessions' = Insert(sessions, r,
          [user |-> u, family |-> r, parent |-> None,
           revoked |-> FALSE, expired |-> FALSE])
    /\ UNCHANGED <<lock, snapshot>>

-----------------------------------------------------------------------------
(* Refresh *)

\* SessionByRefreshHash.  A revoked session is looked at before an expired one.
LookupRefresh(r, s) ==
    /\ IF sessions[s].revoked
       THEN Goto(r, "idle", "reuse") /\ UNCHANGED result
       ELSE IF sessions[s].expired THEN Answer(r, "idle", "unauthorized")
       ELSE Goto(r, "idle", "rotate") /\ UNCHANGED result
    /\ Asks(r, "refresh", s)
    /\ UNCHANGED <<sessions, lock, snapshot>>

\* A token of no session is refused, and so is any when the read fails.
LookupUnknown(r) ==
    /\ Answer(r, "idle", "unauthorized")
    /\ UNCHANGED <<sessions, lock, call, snapshot>>

\* The limiter in front of the handler: twenty refreshes of one address within a
\* minute are used up.  The address may be shared, so this can meet any call; the
\* token is not looked at.  (A login that is refused leaves nothing either.)
Limited(r, s) ==
    /\ Answer(r, "idle", "limited")
    /\ Asks(r, "refresh", s)
    /\ UNCHANGED <<sessions, lock, snapshot>>

\* Mutant: the update does not ask whether the session is still valid.
RotateUnchecked(r) ==
    LET s == call[r].token
    IN  /\ Goto(r, "rotate", "insert")
        /\ lock[s] = None
        /\ lock' = [lock EXCEPT ![s] = r]
        /\ UNCHANGED <<sessions, call, snapshot, result>>

\* UPDATE ... WHERE revoked_at IS NULL AND expires_at > now(): waits for a
\* rotation of the same row and looks at the row again afterwards.
Rotate(r) ==
    LET s == call[r].token
        valid == ~sessions[s].revoked /\ ~sessions[s].expired
    IN  /\ Goto(r, "rotate", IF valid THEN "insert" ELSE "reuse")
        /\ lock[s] = None
        /\ lock' = [lock EXCEPT ![s] = IF valid THEN r ELSE None]
        /\ UNCHANGED <<sessions, call, snapshot, result>>

\* Mutant: the successor opens a family of its own.
CommitOpensFamily(r, acknowledged) ==
    LET s == call[r].token
    IN  /\ Answer(r, "insert", Outcome(acknowledged))
        /\ sessions' = Insert([sessions EXCEPT ![s].revoked = TRUE], r,
              [user |-> sessions[s].user, family |-> r,
               parent |-> s, revoked |-> FALSE, expired |-> FALSE])
        /\ Unlock(r)
        /\ UNCHANGED <<call, snapshot>>

\* Mutant: every session of the family is revoked, the successor too.
CommitRevokesSuccessor(r, acknowledged) ==
    LET s == call[r].token
    IN  /\ Answer(r, "insert", Outcome(acknowledged))
        /\ sessions' = Insert([sessions EXCEPT ![s].revoked = TRUE], r,
              [user |-> sessions[s].user, family |-> sessions[s].family,
               parent |-> s, revoked |-> TRUE, expired |-> FALSE])
        /\ Unlock(r)
        /\ UNCHANGED <<call, snapshot>>

\* The successor is inserted and both rows become visible together.
CommitRotation(r, acknowledged) ==
    LET s == call[r].token
    IN  /\ Answer(r, "insert", Outcome(acknowledged))
        /\ sessions' = Insert([sessions EXCEPT ![s].revoked = TRUE], r,
              [user |-> sessions[s].user, family |-> sessions[s].family,
               parent |-> s, revoked |-> FALSE, expired |-> FALSE])
        /\ Unlock(r)
        /\ UNCHANGED <<call, snapshot>>

\* RevokeFamily is one UPDATE: it sees the rows committed when it begins ...
SnapshotFamily(r) ==
    /\ Goto(r, "reuse", "revoke")
    /\ snapshot' = [snapshot EXCEPT ![r] = FamilyOf(call[r].token)]
    /\ UNCHANGED <<sessions, lock, call, result>>

\* Mutant: sessions that a rotation is working on are left out.
RevokeFamilySkipsLocked(r) ==
    /\ Answer(r, "revoke", "reuse")
    /\ sessions' = [s \in DOMAIN sessions |->
                       IF s \in snapshot[r] /\ lock[s] = None
                       THEN [sessions[s] EXCEPT !.revoked = TRUE]
                       ELSE sessions[s]]
    /\ UNCHANGED <<lock, call, snapshot>>

\* ... and waits for the rotations that hold one of them.
RevokeFamily(r) ==
    /\ Answer(r, "revoke", "reuse")
    /\ \A s \in snapshot[r] : lock[s] = None
    /\ sessions' = [s \in DOMAIN sessions |->
                       IF s \in snapshot[r]
                       THEN [sessions[s] EXCEPT !.revoked = TRUE]
                       ELSE sessions[s]]
    /\ UNCHANGED <<lock, call, snapshot>>

-----------------------------------------------------------------------------
(* Logout *)

\* The session of the token must be one of the caller's.
LookupLogout(r, s, u) ==
    /\ IF sessions[s].user = u
       THEN Goto(r, "idle", "logout") /\ UNCHANGED result
       ELSE Answer(r, "idle", "unauthorized")
    /\ Asks(r, "logout", s)
    /\ UNCHANGED <<sessions, lock, snapshot>>

\* Mutant: logout leaves a session alone that a rotation is working on.
RevokeSessionSkipsLocked(r, acknowledged) ==
    LET s == call[r].token
    IN  /\ Answer(r, "logout", Outcome(acknowledged))
        /\ sessions' = IF lock[s] = None
                       THEN [sessions EXCEPT ![s].revoked = TRUE] ELSE sessions
        /\ UNCHANGED <<lock, call, snapshot>>

\* Revoking a revoked session changes nothing; the audit row may still fail.
RevokeSession(r, acknowledged) ==
    LET s == call[r].token
    IN  /\ Answer(r, "logout", Outcome(acknowledged))
        /\ lock[s] = None
        /\ sessions' = [sessions EXCEPT ![s].revoked = TRUE]
        /\ UNCHANGED <<lock, call, snapshot>>

-----------------------------------------------------------------------------
\* Mutant: a rotation that fails keeps its transaction open.
FailKeepingLock(r) ==
    /\ pc[r] \notin {"idle", "answered"}
    /\ Answer(r, pc[r], "error")
    /\ UNCHANGED <<sessions, lock, call, snapshot>>

\* A statement fails, the caller goes away or the process stops.  (A family
\* revocation that fails is still answered as unauthorized; only one that has
\* succeeded counts as "reuse" here.)
Fail(r) ==
    /\ pc[r] \notin {"idle", "answered"}
    /\ Answer(r, pc[r], "error")
    /\ Unlock(r)
    /\ UNCHANGED <<sessions, call, snapshot>>

\* A session reaches expires_at.
Expire(s) ==
    /\ ~sessions[s].expired
    /\ sessions' = [sessions EXCEPT ![s].expired = TRUE]
    /\ UNCHANGED <<lock, pc, call, snapshot, result>>

Start(r) ==
    \/ \E u \in Users, acknowledged \in BOOLEAN : Login(r, u, acknowledged)
    \/ LookupUnknown(r)
    \/ \E s \in Known : LookupRefresh(r, s) \/ Limited(r, s)
    \/ \E s \in Known, u \in Users : LookupLogout(r, s, u)

Step(r) ==
    \/ Rotate(r)
    \/ \E acknowledged \in BOOLEAN : CommitRotation(r, acknowledged)
    \/ SnapshotFamily(r)
    \/ RevokeFamily(r)
    \/ \E acknowledged \in BOOLEAN : RevokeSession(r, acknowledged)

Next ==
    \/ \E r \in Requests : Start(r) \/ Step(r) \/ Fail(r)
    \/ \E s \in DOMAIN sessions : Expire(s)

Spec == Init /\ [][Next]_vars

\* A received call is a goroutine the scheduler runs, and a statement that waits
\* for nobody returns.  Nobody has to call, nothing has to fail or to expire.
FairSpec == Spec /\ \A r \in Requests : WF_vars(Step(r))

-----------------------------------------------------------------------------
(* Type correctness. *)

Labels == {"idle", "rotate", "insert", "reuse", "revoke", "logout", "answered"}

Rows == [user : Users, family : Requests, parent : Requests \cup {None},
         revoked : BOOLEAN, expired : BOOLEAN]

RowsOK ==
    /\ DOMAIN sessions \subseteq Requests
    /\ sessions \in [DOMAIN sessions -> Rows]
    /\ \A s \in DOMAIN sessions :
          /\ sessions[s].family \in DOMAIN sessions
          /\ sessions[s].parent # None =>
                /\ sessions[s].parent \in DOMAIN sessions
                /\ sessions[sessions[s].parent].family = sessions[s].family
                /\ sessions[sessions[s].parent].user = sessions[s].user

CallsOK ==
    /\ lock \in [Requests -> Requests \cup {None}]
    /\ pc \in [Requests -> Labels]
    /\ call \in [Requests -> [kind : {"none", "login", "refresh", "logout"},
                              token : Requests \cup {None}]]
    /\ \A r \in Requests : pc[r] \notin {"idle", "answered"} =>
          call[r].token \in DOMAIN sessions
    /\ snapshot \in [Requests -> SUBSET DOMAIN sessions]
    /\ result \in [Requests -> {"none", "ok", "unauthorized", "limited", "reuse", "error"}]

\* Rows refer to rows that exist, calls work on sessions that exist, and a
\* session and its parent are of one family and one user.
TypeOK == RowsOK /\ CallsOK

-----------------------------------------------------------------------------
(* What the sessions promise. *)

Live(s) == ~sessions[s].revoked

\* A family has at most one session that is not revoked, however many refreshes
\* and logouts meet, fail or go unanswered.
OneLivePerFamily ==
    \A s, t \in DOMAIN sessions :
        Live(s) /\ Live(t) /\ sessions[s].family = sessions[t].family => s = t

\* A refresh token is spent once: it has at most one successor, and having one
\* it is revoked.
TokenSpentOnce ==
    /\ \A s, t \in DOMAIN sessions :
          sessions[s].parent = sessions[t].parent /\ sessions[s].parent # None
             => s = t
    /\ \A s \in DOMAIN sessions :
          sessions[s].parent # None => ~Live(sessions[s].parent)

\* Once a reuse has been dealt with, none of the sessions of the family that the
\* UPDATE saw is continued, not even by a rotation that had read or locked one of
\* them before.
ReuseHolds ==
    [][\A r \in DOMAIN sessions' \ DOMAIN sessions : \A q \in Requests :
          result[q] = "reuse" => sessions'[r].parent \notin snapshot[q]]_vars

\* An alarm has a cause: the token was looked up by another call as well, the
\* family was revoked by an earlier alarm, or the session has expired.  The last
\* cause needs no second use: a session that expires between the lookup and the
\* UPDATE raises an alarm against a client that used each token once.
NoFalseAlarm ==
    \A r \in Requests : (pc[r] \in {"reuse", "revoke"} \/ result[r] = "reuse") =>
        LET s == call[r].token
        IN  \/ sessions[s].expired
            \/ \E q \in Requests \ {r} :
                  \/ call[q].token = s /\ result[q] # "limited"
                  \/ result[q] = "reuse" /\ s \in snapshot[q]

\* A session whose logout was confirmed is not continued, not even by a refresh
\* that had read it before.
LogoutHolds ==
    [][\A r \in DOMAIN sessions' \ DOMAIN sessions : \A q \in Requests :
          call[q].kind = "logout" /\ result[q] = "ok"
             => sessions'[r].parent # call[q].token]_vars

-----------------------------------------------------------------------------
(* The abstract specification. *)

Families == {sessions[s].family : s \in DOMAIN sessions}
LiveIn(f) == {s \in DOMAIN sessions : sessions[s].family = f /\ Live(s)}

CurrentTokens == [f \in Families |->
                     IF LiveIn(f) = {} THEN None ELSE CHOOSE s \in LiveIn(f) : TRUE]
SpentTokens == {s \in DOMAIN sessions : ~Live(s)}

Chains == INSTANCE TokenFamilies WITH
    Tokens <- Requests,
    current <- CurrentTokens,
    used <- SpentTokens

\* Sessions implements families of tokens that are renewed one by one.
ImplementsFamilies == Chains!FamiliesSpec

-----------------------------------------------------------------------------
(* Progress. *)

\* Every call the server has started on is answered, also when calls wait for
\* the row of a rotation that fails.
EveryCallAnswered ==
    \A r \in Requests : pc[r] # "idle" ~> pc[r] = "answered"

-----------------------------------------------------------------------------
(* A statement of the documentation that the code does not keep.            *)

\* "Reuse of revoked refresh token revokes session family": once the reuse of a
\* token was dealt with, no session of its family is valid, also not one that a
\* rotation committed while the revocation was waiting for its row.
ReuseRevokesFamily ==
    \A r \in Requests : result[r] = "reuse" =>
        \A s \in FamilyOf(call[r].token) : ~Live(s)

=============================================================================
