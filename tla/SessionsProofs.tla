--------------------------- MODULE SessionsProofs ---------------------------
(***************************************************************************)
(* Proofs about Sessions, for any users and any number of calls.           *)
(***************************************************************************)
EXTENDS Sessions, TLAPS

\* A row is locked by the rotation that has updated it and by nobody else, and
\* stays valid until that rotation ends.
LockHeld ==
    \A r, s \in Requests :
        lock[s] = r <=> (pc[r] = "insert" /\ call[r].token = s)

LockedIsLive ==
    \A r \in Requests : pc[r] = "insert" => Live(call[r].token)

\* How far a call has come.
Stages ==
    /\ \A s \in DOMAIN sessions : pc[s] = "answered"
    /\ \A r \in Requests : pc[r] = "idle" => call[r].token = None
    /\ \A r \in Requests : result[r] # "none" <=> pc[r] = "answered"
    /\ \A r \in Requests : result[r] = "reuse" => call[r].token \in DOMAIN sessions

\* A confirmed logout has revoked its session.
LogoutRevokes ==
    \A q \in Requests : call[q].kind = "logout" /\ result[q] = "ok" =>
        /\ call[q].token \in DOMAIN sessions
        /\ ~Live(call[q].token)

\* A reuse that was answered has revoked the sessions its UPDATE saw.
ReuseRevokes ==
    \A q \in Requests : result[q] = "reuse" => \A s \in snapshot[q] : ~Live(s)

IInv ==
    /\ RowsOK /\ CallsOK
    /\ LockHeld /\ LockedIsLive /\ Stages
    /\ OneLivePerFamily /\ TokenSpentOnce
    /\ ReuseRevokes /\ LogoutRevokes

-----------------------------------------------------------------------------
\* There are no sessions and no calls initially.
LEMMA InitInv == Init => IInv
  <1> SUFFICES ASSUME Init PROVE IInv
    OBVIOUS
  <1>1. DOMAIN sessions = {}
    BY DEF Init
  <1>2. RowsOK
    BY <1>1 DEF Init, RowsOK
  <1>3. CallsOK
    BY <1>1 DEF Init, CallsOK, Labels, NoCall
  <1>4. LockHeld /\ LockedIsLive /\ ReuseRevokes /\ LogoutRevokes
    BY NoneAssumption
    DEF Init, LockHeld, LockedIsLive, ReuseRevokes, LogoutRevokes
  <1>5. Stages /\ OneLivePerFamily /\ TokenSpentOnce
    BY <1>1 DEF Init, Stages, OneLivePerFamily, TokenSpentOnce, NoCall
  <1> QED
    BY <1>2, <1>3, <1>4, <1>5 DEF IInv

\* The end of a call frees what it has locked (commit, or Rollback).
LEMMA UnlockHeld ==
    ASSUME IInv, NEW r \in Requests, Unlock(r), pc[r] # "idle",
           \E to \in Labels \ {"insert"} : pc' = [pc EXCEPT ![r] = to],
           call' = call
    PROVE  LockHeld' /\ lock' \in [Requests -> Requests \cup {None}]
  BY NoneAssumption DEF IInv, CallsOK, LockHeld, Unlock

-----------------------------------------------------------------------------
(* Steps that write no session. *)

\* Without a new session, what is known about the rows stays.
LEMMA SameRows ==
    ASSUME IInv, UNCHANGED sessions
    PROVE  RowsOK' /\ OneLivePerFamily' /\ TokenSpentOnce'
  BY DEF IInv, RowsOK, OneLivePerFamily, TokenSpentOnce, Live

\* Looking a token up starts a call (SessionByRefreshHash).
LEMMA LookupInv ==
    ASSUME IInv, NEW r \in Requests,
           \/ LookupUnknown(r)
           \/ \E s \in Known : LookupRefresh(r, s) \/ Limited(r, s)
           \/ \E s \in Known, u \in Users : LookupLogout(r, s, u)
    PROVE  IInv'
  <1>1. /\ pc[r] = "idle"
        /\ UNCHANGED <<sessions, lock, snapshot>>
        /\ \E to \in {"reuse", "rotate", "logout", "answered"},
              outcome \in {"unauthorized", "limited"} :
              /\ pc' = [pc EXCEPT ![r] = to]
              /\ result' = IF to = "answered"
                           THEN [result EXCEPT ![r] = outcome] ELSE result
        /\ \/ call' = call /\ pc'[r] = "answered"
           \/ \E s \in DOMAIN sessions, k \in {"refresh", "logout"} :
                 call' = [call EXCEPT ![r] = [kind |-> k, token |-> s]]
    BY DEF IInv, CallsOK, LookupUnknown, Limited, LookupRefresh, LookupLogout, Answer,
           Goto, Asks, Known
  <1>2. RowsOK' /\ OneLivePerFamily' /\ TokenSpentOnce'
    BY <1>1, SameRows
  <1>3. CallsOK'
    <2>1. PICK to \in {"reuse", "rotate", "logout", "answered"},
             outcome \in {"unauthorized", "limited"} :
             /\ pc' = [pc EXCEPT ![r] = to]
             /\ result' = IF to = "answered"
                          THEN [result EXCEPT ![r] = outcome] ELSE result
      BY <1>1
    <2>2. pc' \in [Requests -> Labels]
      BY <2>1 DEF IInv, CallsOK, Labels
    <2>3. result' \in [Requests -> {"none", "ok", "unauthorized", "limited", "reuse", "error"}]
      BY <2>1 DEF IInv, CallsOK
    <2>4. call' \in [Requests -> [kind : {"none", "login", "refresh", "logout"},
                                 token : Requests \cup {None}]]
      <3>1. CASE call' = call
        BY <3>1 DEF IInv, CallsOK
      <3>2. CASE call' # call
        <4>1. PICK s \in DOMAIN sessions, k \in {"refresh", "logout"} :
                 call' = [call EXCEPT ![r] = [kind |-> k, token |-> s]]
          BY <1>1, <3>2
        <4>2. [kind |-> k, token |-> s] \in
                 [kind : {"none", "login", "refresh", "logout"},
                  token : Requests \cup {None}]
          BY DEF IInv, RowsOK
        <4> QED
          BY <4>1, <4>2 DEF IInv, CallsOK
      <3> QED
        BY <3>1, <3>2
    <2>5. \A q \in Requests : pc'[q] \notin {"idle", "answered"} =>
             call'[q].token \in DOMAIN sessions
      <3> SUFFICES ASSUME NEW q \in Requests, pc'[q] \notin {"idle", "answered"}
                   PROVE  call'[q].token \in DOMAIN sessions
        OBVIOUS
      <3>1. CASE q = r
        BY <1>1, <2>1, <3>1 DEF IInv, CallsOK
      <3>2. CASE q # r
        BY <1>1, <2>1, <3>2 DEF IInv, CallsOK
      <3> QED
        BY <3>1, <3>2
    <2> QED
      BY <1>1, <2>2, <2>3, <2>4, <2>5 DEF IInv, CallsOK
  <1>4. LockHeld' /\ LockedIsLive'
    BY <1>1 DEF IInv, CallsOK, LockHeld, LockedIsLive, Live
  <1>5. Stages'
    BY <1>1 DEF IInv, CallsOK, RowsOK, Stages
  <1>6. ReuseRevokes' /\ LogoutRevokes'
    BY <1>1 DEF IInv, CallsOK, Stages, ReuseRevokes, LogoutRevokes, Live
  <1> QED
    BY <1>2, <1>3, <1>4, <1>5, <1>6 DEF IInv


\* The update of a rotation locks a valid row, or finds it revoked or expired.
LEMMA RotateInv ==
    ASSUME IInv, NEW r \in Requests, Rotate(r)
    PROVE  IInv'
  <1> DEFINE s == call[r].token
             valid == ~sessions[s].revoked /\ ~sessions[s].expired
             to == IF valid THEN "insert" ELSE "reuse"
  <1>1. /\ pc[r] = "rotate" /\ lock[s] = None
        /\ pc' = [pc EXCEPT ![r] = to]
        /\ lock' = [lock EXCEPT ![s] = IF valid THEN r ELSE None]
        /\ UNCHANGED <<sessions, call, snapshot, result>>
    BY DEF Rotate, Goto
  <1>2. s \in DOMAIN sessions /\ s \in Requests /\ r # None
    BY <1>1, NoneAssumption DEF IInv, CallsOK, RowsOK
  <1>3. RowsOK' /\ OneLivePerFamily' /\ TokenSpentOnce'
    BY <1>1, SameRows
  <1>4. CallsOK'
    <2>1. lock' \in [Requests -> Requests \cup {None}]
      BY <1>1 DEF IInv, CallsOK
    <2>2. pc' \in [Requests -> Labels]
      BY <1>1 DEF IInv, CallsOK, Labels
    <2>3. \A q \in Requests : pc'[q] \notin {"idle", "answered"} =>
             call'[q].token \in DOMAIN sessions
      BY <1>1, <1>2 DEF IInv, CallsOK
    <2> QED
      BY <1>1, <2>1, <2>2, <2>3 DEF IInv, CallsOK
  <1>5. LockHeld'
    <2> SUFFICES ASSUME NEW q \in Requests, NEW t \in Requests
                 PROVE  lock'[t] = q <=> pc'[q] = "insert" /\ call[q].token = t
      BY <1>1 DEF LockHeld
    <2>1. lock[t] = q <=> pc[q] = "insert" /\ call[q].token = t
      BY DEF IInv, LockHeld
    <2>2. CASE q = r
      BY <1>1, <1>2, <2>1, <2>2 DEF IInv, CallsOK
    <2>3. CASE q # r
      BY <1>1, <1>2, <2>1, <2>3, NoneAssumption DEF IInv, CallsOK
    <2> QED
      BY <2>2, <2>3
  <1>6. LockedIsLive'
    BY <1>1 DEF IInv, CallsOK, LockedIsLive, Live
  <1>7. Stages'
    BY <1>1 DEF IInv, CallsOK, RowsOK, Stages
  <1>8. ReuseRevokes' /\ LogoutRevokes'
    BY <1>1 DEF IInv, ReuseRevokes, LogoutRevokes, Live
  <1> QED
    BY <1>3, <1>4, <1>5, <1>6, <1>7, <1>8 DEF IInv

\* The revocation of a family begins: the rows it has seen are noted.
LEMMA SnapshotInv ==
    ASSUME IInv, NEW r \in Requests, SnapshotFamily(r)
    PROVE  IInv'
  <1>1. /\ pc[r] = "reuse"
        /\ pc' = [pc EXCEPT ![r] = "revoke"]
        /\ snapshot' = [snapshot EXCEPT ![r] = FamilyOf(call[r].token)]
        /\ UNCHANGED <<sessions, lock, call, result>>
    BY DEF SnapshotFamily, Goto
  <1>2. RowsOK' /\ OneLivePerFamily' /\ TokenSpentOnce'
    BY <1>1, SameRows
  <1>3. CallsOK'
    <2>1. pc' \in [Requests -> Labels]
      BY <1>1 DEF IInv, CallsOK, Labels
    <2>2. FamilyOf(call[r].token) \in SUBSET DOMAIN sessions
      BY DEF FamilyOf
    <2>3. snapshot' \in [Requests -> SUBSET DOMAIN sessions]
      BY <1>1, <2>2 DEF IInv, CallsOK
    <2>4. \A q \in Requests : pc'[q] \notin {"idle", "answered"} =>
             call'[q].token \in DOMAIN sessions
      BY <1>1 DEF IInv, CallsOK
    <2> QED
      BY <1>1, <2>1, <2>3, <2>4 DEF IInv, CallsOK
  <1>4. LockHeld' /\ LockedIsLive'
    BY <1>1 DEF IInv, CallsOK, LockHeld, LockedIsLive, Live
  <1>5. Stages'
    BY <1>1 DEF IInv, CallsOK, RowsOK, Stages
  <1>6. ReuseRevokes'
    <2>1. result[r] # "reuse"
      BY <1>1 DEF IInv, Stages
    <2> QED
      BY <1>1, <2>1 DEF IInv, CallsOK, ReuseRevokes, Live
  <1>7. LogoutRevokes'
    BY <1>1 DEF IInv, LogoutRevokes, Live
  <1> QED
    BY <1>2, <1>3, <1>4, <1>5, <1>6, <1>7 DEF IInv

\* The end of a call, whatever it writes and answers: the facts about calls
\* other than what a confirmed logout and a reuse have done to the rows.
LEMMA AnswerCalls ==
    ASSUME IInv, NEW r \in Requests, pc[r] # "idle",
           NEW outcome \in {"ok", "reuse", "error"}, Answer(r, pc[r], outcome),
           outcome = "reuse" => call[r].token \in DOMAIN sessions,
           DOMAIN sessions \subseteq DOMAIN sessions',
           DOMAIN sessions' \subseteq DOMAIN sessions \cup {r},
           UNCHANGED <<call, snapshot>>,
           lock' \in [Requests -> Requests \cup {None}]
    PROVE  CallsOK' /\ Stages'
  <1>1. /\ pc' = [pc EXCEPT ![r] = "answered"]
        /\ result' = [result EXCEPT ![r] = outcome]
    BY DEF Answer, Goto
  <1>2. CallsOK'
    <2>1. pc' \in [Requests -> Labels]
      BY <1>1 DEF IInv, CallsOK, Labels
    <2>2. result' \in [Requests -> {"none", "ok", "unauthorized", "limited", "reuse", "error"}]
      BY <1>1 DEF IInv, CallsOK
    <2>3. \A q \in Requests : pc'[q] \notin {"idle", "answered"} =>
             call'[q].token \in DOMAIN sessions'
      BY <1>1 DEF IInv, CallsOK
    <2>4. snapshot' \in [Requests -> SUBSET DOMAIN sessions']
      BY DEF IInv, CallsOK
    <2> QED
      BY <2>1, <2>2, <2>3, <2>4 DEF IInv, CallsOK
  <1>3. Stages'
    <2>1. \A s \in DOMAIN sessions' : pc'[s] = "answered"
      BY <1>1 DEF IInv, CallsOK, RowsOK, Stages
    <2>2. \A q \in Requests : pc'[q] = "idle" => call'[q].token = None
      BY <1>1 DEF IInv, CallsOK, Stages
    <2>3. \A q \in Requests : result'[q] # "none" <=> pc'[q] = "answered"
      BY <1>1 DEF IInv, CallsOK, Stages
    <2>4. \A q \in Requests : result'[q] = "reuse" =>
             call'[q].token \in DOMAIN sessions'
      BY <1>1 DEF IInv, CallsOK, Stages
    <2> QED
      BY <2>1, <2>2, <2>3, <2>4 DEF Stages
  <1> QED
    BY <1>2, <1>3

\* A call that fails is rolled back.
LEMMA FailInv ==
    ASSUME IInv, NEW r \in Requests, Fail(r)
    PROVE  IInv'
  <1>1. /\ pc[r] \notin {"idle", "answered"}
        /\ Answer(r, pc[r], "error")
        /\ pc' = [pc EXCEPT ![r] = "answered"]
        /\ result' = [result EXCEPT ![r] = "error"]
        /\ Unlock(r)
        /\ UNCHANGED <<sessions, call, snapshot>>
    BY DEF Fail, Answer, Goto
  <1>2. RowsOK' /\ OneLivePerFamily' /\ TokenSpentOnce'
    BY <1>1, SameRows
  <1>3. LockHeld' /\ lock' \in [Requests -> Requests \cup {None}]
    BY <1>1, UnlockHeld DEF Labels
  <1>4. CallsOK' /\ Stages'
    BY <1>1, <1>3, AnswerCalls
  <1>5. LockedIsLive'
    BY <1>1 DEF IInv, CallsOK, LockedIsLive, Live
  <1>6. ReuseRevokes' /\ LogoutRevokes'
    BY <1>1 DEF IInv, CallsOK, ReuseRevokes, LogoutRevokes, Live
  <1> QED
    BY <1>2, <1>3, <1>4, <1>5, <1>6 DEF IInv


-----------------------------------------------------------------------------
(* Steps that mark rows and add none. *)

\* What an UPDATE of sessions, or the clock, may do to the rows.
Marks ==
    /\ DOMAIN sessions' = DOMAIN sessions
    /\ sessions' \in [DOMAIN sessions -> Rows]
    /\ \A s \in DOMAIN sessions :
          /\ sessions'[s].user = sessions[s].user
          /\ sessions'[s].family = sessions[s].family
          /\ sessions'[s].parent = sessions[s].parent
          /\ sessions[s].revoked => sessions'[s].revoked

\* Marking rows breaks nothing that is known about them.
LEMMA MarksRows ==
    ASSUME IInv, Marks
    PROVE  RowsOK' /\ OneLivePerFamily' /\ TokenSpentOnce'
  <1>1. RowsOK'
    <2>1. \A s \in DOMAIN sessions' :
             /\ sessions'[s].family \in DOMAIN sessions'
             /\ sessions'[s].parent # None =>
                   /\ sessions'[s].parent \in DOMAIN sessions'
                   /\ sessions'[sessions'[s].parent].family = sessions'[s].family
                   /\ sessions'[sessions'[s].parent].user = sessions'[s].user
      BY DEF IInv, RowsOK, Marks
    <2> QED
      BY <2>1 DEF IInv, RowsOK, Marks
  <1>2. OneLivePerFamily'
    BY DEF IInv, OneLivePerFamily, Live, Marks
  <1>3. TokenSpentOnce'
    BY DEF IInv, RowsOK, TokenSpentOnce, Live, Marks
  <1> QED
    BY <1>1, <1>2, <1>3

\* Setting a flag of a row marks it.
LEMMA SetRevoked ==
    ASSUME IInv, NEW S \in SUBSET DOMAIN sessions,
           sessions' = [s \in DOMAIN sessions |->
                          IF s \in S THEN [sessions[s] EXCEPT !.revoked = TRUE]
                          ELSE sessions[s]]
    PROVE  /\ Marks
           /\ \A s \in S : ~Live(s)'
           /\ \A s \in DOMAIN sessions \ S : sessions'[s] = sessions[s]
  <1>1. sessions \in [DOMAIN sessions -> Rows]
    BY DEF IInv, RowsOK
  <1>2. \A s \in DOMAIN sessions : sessions'[s] \in Rows
    BY <1>1 DEF Rows
  <1>3. \A s \in DOMAIN sessions :
           /\ sessions'[s].user = sessions[s].user
           /\ sessions'[s].family = sessions[s].family
           /\ sessions'[s].parent = sessions[s].parent
           /\ sessions[s].revoked => sessions'[s].revoked
    BY <1>1 DEF Rows
  <1>4. \A s \in S : sessions'[s].revoked
    BY <1>1 DEF Rows
  <1> QED
    BY <1>2, <1>3, <1>4 DEF Marks, Live

\* RevokeFamily waits for the rotations that hold its rows, and so never takes
\* a row from under one.
LEMMA RevokeFamilyInv ==
    ASSUME IInv, NEW r \in Requests, RevokeFamily(r)
    PROVE  IInv'
  <1>1. /\ pc[r] = "revoke"
        /\ Answer(r, pc[r], "reuse")
        /\ pc' = [pc EXCEPT ![r] = "answered"]
        /\ result' = [result EXCEPT ![r] = "reuse"]
        /\ \A s \in snapshot[r] : lock[s] = None
        /\ UNCHANGED <<lock, call, snapshot>>
    BY DEF RevokeFamily, Answer, Goto
  <1>2. snapshot[r] \in SUBSET DOMAIN sessions /\ call[r].token \in DOMAIN sessions
    BY <1>1 DEF IInv, CallsOK
  <1>3. /\ Marks
        /\ \A s \in snapshot[r] : ~Live(s)'
        /\ \A s \in DOMAIN sessions \ snapshot[r] : sessions'[s] = sessions[s]
    BY <1>2, SetRevoked DEF RevokeFamily
  <1>4. RowsOK' /\ OneLivePerFamily' /\ TokenSpentOnce'
    BY <1>3, MarksRows
  <1>5. CallsOK' /\ Stages'
    <2>1. lock' \in [Requests -> Requests \cup {None}]
      BY <1>1 DEF IInv, CallsOK
    <2> QED
      BY <1>1, <1>2, <1>3, <2>1, AnswerCalls DEF Marks
  <1>6. LockHeld'
    BY <1>1 DEF IInv, CallsOK, LockHeld
  <1>7. LockedIsLive'
    <2> SUFFICES ASSUME NEW q \in Requests, pc'[q] = "insert"
                 PROVE  Live(call[q].token)'
      BY <1>1 DEF LockedIsLive, Live
    <2>1. pc[q] = "insert" /\ call[q].token \in DOMAIN sessions
      BY <1>1 DEF IInv, CallsOK
    <2>2. lock[call[q].token] = q /\ Live(call[q].token)
      BY <2>1 DEF IInv, RowsOK, LockHeld, LockedIsLive
    <2>3. call[q].token \notin snapshot[r]
      BY <1>1, <2>2, NoneAssumption
    <2> QED
      BY <1>1, <1>3, <2>1, <2>2, <2>3 DEF Live
  <1>8. ReuseRevokes'
    BY <1>1, <1>3 DEF IInv, CallsOK, ReuseRevokes, Live, Marks
  <1>9. LogoutRevokes'
    BY <1>1, <1>3 DEF IInv, CallsOK, LogoutRevokes, Live, Marks
  <1> QED
    BY <1>4, <1>5, <1>6, <1>7, <1>8, <1>9 DEF IInv

\* Logout waits for a rotation of its session as well.
LEMMA RevokeSessionInv ==
    ASSUME IInv, NEW r \in Requests, NEW acknowledged \in BOOLEAN,
           RevokeSession(r, acknowledged)
    PROVE  IInv'
  <1> DEFINE s == call[r].token
             outcome == Outcome(acknowledged)
  <1>1. /\ pc[r] = "logout"
        /\ Answer(r, pc[r], outcome)
        /\ pc' = [pc EXCEPT ![r] = "answered"]
        /\ result' = [result EXCEPT ![r] = outcome]
        /\ lock[s] = None
        /\ UNCHANGED <<lock, call, snapshot>>
    BY DEF RevokeSession, Answer, Goto
  <1>2. s \in DOMAIN sessions /\ outcome \in {"ok", "error"}
    BY <1>1 DEF IInv, CallsOK, Outcome
  <1>3. /\ Marks
        /\ ~Live(s)'
        /\ \A t \in DOMAIN sessions \ {s} : sessions'[t] = sessions[t]
    <2>1. sessions' = [t \in DOMAIN sessions |->
                         IF t \in {s} THEN [sessions[t] EXCEPT !.revoked = TRUE]
                         ELSE sessions[t]]
      BY <1>2 DEF RevokeSession, IInv, RowsOK
    <2>2. {s} \in SUBSET DOMAIN sessions
      BY <1>2
    <2>3. /\ Marks
          /\ \A t \in {s} : ~Live(t)'
          /\ \A t \in DOMAIN sessions \ {s} : sessions'[t] = sessions[t]
      BY <2>1, <2>2, SetRevoked
    <2> QED
      BY <1>1, <2>3 DEF Live
  <1>4. RowsOK' /\ OneLivePerFamily' /\ TokenSpentOnce'
    BY <1>3, MarksRows
  <1>5. CallsOK' /\ Stages'
    <2>1. lock' \in [Requests -> Requests \cup {None}]
      BY <1>1 DEF IInv, CallsOK
    <2> QED
      BY <1>1, <1>2, <1>3, <2>1, AnswerCalls DEF Marks
  <1>6. LockHeld'
    BY <1>1 DEF IInv, CallsOK, LockHeld
  <1>7. LockedIsLive'
    <2> SUFFICES ASSUME NEW q \in Requests, pc'[q] = "insert"
                 PROVE  Live(call[q].token)'
      BY <1>1 DEF LockedIsLive, Live
    <2>1. pc[q] = "insert" /\ call[q].token \in DOMAIN sessions
      BY <1>1 DEF IInv, CallsOK
    <2>2. lock[call[q].token] = q /\ Live(call[q].token)
      BY <2>1 DEF IInv, RowsOK, LockHeld, LockedIsLive
    <2>3. call[q].token # s
      BY <1>1, <2>2, NoneAssumption
    <2> QED
      BY <1>1, <1>3, <2>1, <2>2, <2>3 DEF Live
  <1>8. ReuseRevokes'
    <2>1. result[r] # "reuse" /\ outcome # "reuse"
      BY <1>1, <1>2 DEF IInv, Stages
    <2> QED
      BY <1>1, <1>3, <2>1 DEF IInv, CallsOK, ReuseRevokes, Live, Marks
  <1>9. LogoutRevokes'
    BY <1>1, <1>2, <1>3 DEF IInv, CallsOK, LogoutRevokes, Live, Marks
  <1> QED
    BY <1>4, <1>5, <1>6, <1>7, <1>8, <1>9 DEF IInv

\* An expired row is as valid or revoked as before.
LEMMA ExpireInv ==
    ASSUME IInv, NEW s \in DOMAIN sessions, Expire(s)
    PROVE  IInv'
  <1>1. /\ sessions' = [sessions EXCEPT ![s].expired = TRUE]
        /\ UNCHANGED <<lock, pc, call, snapshot, result>>
    BY DEF Expire
  <1>2. Marks /\ \A t \in DOMAIN sessions : Live(t)' <=> Live(t)
    <2>1. sessions \in [DOMAIN sessions -> Rows]
      BY DEF IInv, RowsOK
    <2>2. \A t \in DOMAIN sessions : sessions'[t] \in Rows
      BY <1>1, <2>1 DEF Rows
    <2>3. \A t \in DOMAIN sessions :
             /\ sessions'[t].user = sessions[t].user
             /\ sessions'[t].family = sessions[t].family
             /\ sessions'[t].parent = sessions[t].parent
             /\ sessions'[t].revoked = sessions[t].revoked
      BY <1>1, <2>1 DEF Rows
    <2> QED
      BY <1>1, <2>2, <2>3 DEF Marks, Live
  <1>3. RowsOK' /\ OneLivePerFamily' /\ TokenSpentOnce'
    BY <1>2, MarksRows
  <1>4. CallsOK' /\ LockHeld' /\ Stages'
    BY <1>1, <1>2 DEF IInv, CallsOK, LockHeld, Stages, Marks
  <1>5. LockedIsLive' /\ ReuseRevokes' /\ LogoutRevokes'
    BY <1>1, <1>2 DEF IInv, CallsOK, LockedIsLive, ReuseRevokes,
                      LogoutRevokes, Live, Marks
  <1> QED
    BY <1>3, <1>4, <1>5 DEF IInv


-----------------------------------------------------------------------------
(* Steps that add a session. *)

\* A login opens a family that nobody has used.
LEMMA LoginInv ==
    ASSUME IInv, NEW r \in Requests, NEW u \in Users, NEW acknowledged \in BOOLEAN,
           Login(r, u, acknowledged)
    PROVE  IInv'
  <1> DEFINE row == [user |-> u, family |-> r, parent |-> None,
                     revoked |-> FALSE, expired |-> FALSE]
             outcome == Outcome(acknowledged)
  <1>1. /\ pc[r] = "idle"
        /\ pc' = [pc EXCEPT ![r] = "answered"]
        /\ result' = [result EXCEPT ![r] = outcome]
        /\ call' = [call EXCEPT ![r] = [kind |-> "login", token |-> None]]
        /\ UNCHANGED <<lock, snapshot>>
        /\ sessions' = [k \in DOMAIN sessions \cup {r} |->
                          IF k = r THEN row ELSE sessions[k]]
    BY DEF Login, Answer, Goto, Asks, Insert
  <1>2. r \notin DOMAIN sessions /\ outcome \in {"ok", "error"}
    BY <1>1 DEF IInv, Stages, Outcome
  <1>3. /\ DOMAIN sessions' = DOMAIN sessions \cup {r}
        /\ sessions'[r] = row
        /\ \A k \in DOMAIN sessions : sessions'[k] = sessions[k]
    BY <1>1, <1>2
  <1>4. \A k \in DOMAIN sessions :
           /\ sessions[k].family \in DOMAIN sessions
           /\ sessions[k].family # r
           /\ sessions[k].parent # r
    BY <1>2, NoneAssumption DEF IInv, RowsOK
  <1>5. RowsOK'
    <2>1. row \in Rows
      BY DEF Rows
    <2>2. sessions' \in [DOMAIN sessions' -> Rows]
      BY <1>1, <2>1 DEF IInv, RowsOK
    <2>3. \A s \in DOMAIN sessions' :
             /\ sessions'[s].family \in DOMAIN sessions'
             /\ sessions'[s].parent # None =>
                   /\ sessions'[s].parent \in DOMAIN sessions'
                   /\ sessions'[sessions'[s].parent].family = sessions'[s].family
                   /\ sessions'[sessions'[s].parent].user = sessions'[s].user
      BY <1>3 DEF IInv, RowsOK
    <2> QED
      BY <1>3, <2>2, <2>3 DEF IInv, RowsOK
  <1>6. OneLivePerFamily'
    BY <1>3, <1>4 DEF IInv, OneLivePerFamily, Live
  <1>7. TokenSpentOnce'
    BY <1>3 DEF IInv, RowsOK, TokenSpentOnce, Live
  <1>8. CallsOK'
    <2>1. pc' \in [Requests -> Labels]
      BY <1>1 DEF IInv, CallsOK, Labels
    <2>2. call' \in [Requests -> [kind : {"none", "login", "refresh", "logout"},
                                 token : Requests \cup {None}]]
      BY <1>1 DEF IInv, CallsOK
    <2>3. \A q \in Requests : pc'[q] \notin {"idle", "answered"} =>
             call'[q].token \in DOMAIN sessions'
      BY <1>1, <1>3 DEF IInv, CallsOK
    <2>4. snapshot' \in [Requests -> SUBSET DOMAIN sessions']
      BY <1>1, <1>3 DEF IInv, CallsOK
    <2>5. result' \in [Requests -> {"none", "ok", "unauthorized", "limited", "reuse", "error"}]
      BY <1>1, <1>2 DEF IInv, CallsOK
    <2> QED
      BY <1>1, <2>1, <2>2, <2>3, <2>4, <2>5 DEF IInv, CallsOK
  <1>9. LockHeld' /\ LockedIsLive'
    BY <1>1, <1>3 DEF IInv, CallsOK, LockHeld, LockedIsLive, Live
  <1>10. Stages'
    <2>1. \A q \in DOMAIN sessions' : pc'[q] = "answered"
      BY <1>1, <1>3 DEF IInv, CallsOK, RowsOK, Stages
    <2>2. \A q \in Requests : pc'[q] = "idle" => call'[q].token = None
      BY <1>1 DEF IInv, CallsOK, Stages
    <2>3. \A q \in Requests : result'[q] # "none" <=> pc'[q] = "answered"
      BY <1>1, <1>2 DEF IInv, CallsOK, Stages
    <2>4. \A q \in Requests : result'[q] = "reuse" =>
             call'[q].token \in DOMAIN sessions'
      BY <1>1, <1>2, <1>3 DEF IInv, CallsOK, Stages
    <2> QED
      BY <2>1, <2>2, <2>3, <2>4 DEF Stages
  <1>11. ReuseRevokes'
    BY <1>1, <1>2, <1>3 DEF IInv, CallsOK, ReuseRevokes, Live
  <1>12. LogoutRevokes'
    BY <1>1, <1>3 DEF IInv, CallsOK, LogoutRevokes, Live
  <1> QED
    BY <1>5, <1>6, <1>7, <1>8, <1>9, <1>10, <1>11, <1>12 DEF IInv

\* A rotation replaces the one valid session of its family.
LEMMA CommitInv ==
    ASSUME IInv, NEW r \in Requests, NEW acknowledged \in BOOLEAN,
           CommitRotation(r, acknowledged)
    PROVE  IInv'
  <1> DEFINE s == call[r].token
             row == [user |-> sessions[s].user, family |-> sessions[s].family,
                     parent |-> s, revoked |-> FALSE, expired |-> FALSE]
             outcome == Outcome(acknowledged)
  <1>1. /\ pc[r] = "insert"
        /\ Answer(r, pc[r], outcome)
        /\ pc' = [pc EXCEPT ![r] = "answered"]
        /\ result' = [result EXCEPT ![r] = outcome]
        /\ Unlock(r)
        /\ UNCHANGED <<call, snapshot>>
    BY DEF CommitRotation, Answer, Goto
  <1>2. /\ s \in DOMAIN sessions /\ s \in Requests /\ s # None
        /\ r \notin DOMAIN sessions /\ r # s
        /\ outcome \in {"ok", "error"}
        /\ Live(s) /\ lock[s] = r
    BY <1>1, NoneAssumption
    DEF IInv, CallsOK, RowsOK, Stages, LockHeld, LockedIsLive, Outcome
  <1>3. /\ DOMAIN sessions' = DOMAIN sessions \cup {r}
        /\ sessions'[r] = row
        /\ sessions'[s] = [sessions[s] EXCEPT !.revoked = TRUE]
        /\ \A k \in DOMAIN sessions \ {s} : sessions'[k] = sessions[k]
    BY <1>2 DEF CommitRotation, Insert
  <1>4. /\ sessions'[s] \in Rows
        /\ sessions'[s].user = sessions[s].user
        /\ sessions'[s].family = sessions[s].family
        /\ sessions'[s].parent = sessions[s].parent
        /\ sessions'[s].revoked
    <2>1. sessions[s] \in Rows
      BY <1>2 DEF IInv, RowsOK
    <2> QED
      BY <1>3, <2>1 DEF Rows
  <1>5. RowsOK'
    <2>1. row \in Rows
      BY <1>2 DEF IInv, RowsOK, Rows
    <2>2. \A k \in DOMAIN sessions' : sessions'[k] \in Rows
      BY <1>3, <1>4, <2>1 DEF IInv, RowsOK
    <2>3. sessions' \in [DOMAIN sessions' -> Rows]
      BY <2>2 DEF CommitRotation, Insert
    <2>4. \A k \in DOMAIN sessions' :
             /\ sessions'[k].family \in DOMAIN sessions'
             /\ sessions'[k].parent # None =>
                   /\ sessions'[k].parent \in DOMAIN sessions'
                   /\ sessions'[sessions'[k].parent].family = sessions'[k].family
                   /\ sessions'[sessions'[k].parent].user = sessions'[k].user
      <3> SUFFICES ASSUME NEW k \in DOMAIN sessions'
                   PROVE  /\ sessions'[k].family \in DOMAIN sessions'
                          /\ sessions'[k].parent # None =>
                                /\ sessions'[k].parent \in DOMAIN sessions'
                                /\ sessions'[sessions'[k].parent].family
                                      = sessions'[k].family
                                /\ sessions'[sessions'[k].parent].user
                                      = sessions'[k].user
        OBVIOUS
      <3>1. CASE k = r
        <4>1. /\ sessions'[k].user = sessions[s].user
              /\ sessions'[k].family = sessions[s].family
              /\ sessions'[k].parent = s
          BY <1>3, <3>1
        <4>2. sessions[s].family \in DOMAIN sessions
          BY <1>2 DEF IInv, RowsOK
        <4> HIDE DEF s
        <4> QED
          BY <1>2, <1>3, <1>4, <4>1, <4>2
      <3>2. CASE k # r
        <4>1. /\ k \in DOMAIN sessions
              /\ sessions'[k].user = sessions[k].user
              /\ sessions'[k].family = sessions[k].family
              /\ sessions'[k].parent = sessions[k].parent
          BY <1>3, <1>4, <3>2
        <4>2. \A t \in DOMAIN sessions :
                 /\ sessions'[t].user = sessions[t].user
                 /\ sessions'[t].family = sessions[t].family
          BY <1>3, <1>4
        <4> QED
          BY <1>3, <4>1, <4>2 DEF IInv, RowsOK
      <3> QED
        BY <3>1, <3>2
    <2> QED
      BY <1>3, <2>3, <2>4 DEF IInv, RowsOK
  <1>6. OneLivePerFamily'
    <2> SUFFICES ASSUME NEW a \in DOMAIN sessions', NEW b \in DOMAIN sessions',
                        Live(a)', Live(b)',
                        sessions'[a].family = sessions'[b].family
                 PROVE  a = b
      BY DEF OneLivePerFamily
    <2>1. a # s /\ b # s
      BY <1>4 DEF Live
    <2>2. \A k \in DOMAIN sessions \ {s} :
             Live(k)' => sessions'[k].family # sessions[s].family
      BY <1>2, <1>3 DEF IInv, OneLivePerFamily, Live
    <2>3. CASE a = r \/ b = r
      BY <1>3, <2>1, <2>2, <2>3
    <2>4. CASE a # r /\ b # r
      BY <1>3, <2>1, <2>4 DEF IInv, OneLivePerFamily, Live
    <2> QED
      BY <2>3, <2>4
  <1>7. TokenSpentOnce'
    <2>1. \A k \in DOMAIN sessions : sessions[k].parent # s
      BY <1>2 DEF IInv, TokenSpentOnce
    <2>2. \A k \in DOMAIN sessions : sessions'[k].parent = sessions[k].parent
      BY <1>3, <1>4
    <2>3. ASSUME NEW a \in DOMAIN sessions', NEW b \in DOMAIN sessions',
                 sessions'[a].parent = sessions'[b].parent,
                 sessions'[a].parent # None
          PROVE  a = b
      <3>1. CASE a = r \/ b = r
        BY <1>3, <2>1, <2>2, <2>3, <3>1
      <3>2. CASE a # r /\ b # r
        BY <1>3, <2>2, <2>3, <3>2 DEF IInv, TokenSpentOnce
      <3> QED
        BY <3>1, <3>2
    <2>4. ASSUME NEW k \in DOMAIN sessions', sessions'[k].parent # None
          PROVE  sessions'[sessions'[k].parent].revoked
      <3>1. CASE k = r
        <4>1. sessions'[k].parent = s
          BY <1>3, <3>1
        <4> HIDE DEF s
        <4> QED
          BY <1>4, <4>1
      <3>2. CASE k # r
        <4>1. /\ k \in DOMAIN sessions
              /\ sessions'[k].parent = sessions[k].parent
              /\ sessions[k].parent \in DOMAIN sessions
              /\ sessions[sessions[k].parent].revoked
          BY <1>3, <2>2, <2>4, <3>2 DEF IInv, RowsOK, TokenSpentOnce, Live
        <4>2. \A t \in DOMAIN sessions : sessions[t].revoked => sessions'[t].revoked
          BY <1>3, <1>4
        <4> QED
          BY <4>1, <4>2
      <3> QED
        BY <3>1, <3>2
    <2> QED
      BY <2>3, <2>4 DEF TokenSpentOnce, Live
  <1>8. LockHeld' /\ lock' \in [Requests -> Requests \cup {None}]
    BY <1>1, UnlockHeld DEF Labels
  <1>9. CallsOK' /\ Stages'
    BY <1>1, <1>2, <1>3, <1>8, AnswerCalls
  <1>10. LockedIsLive'
    <2> SUFFICES ASSUME NEW q \in Requests, pc'[q] = "insert"
                 PROVE  Live(call[q].token)'
      BY <1>1 DEF LockedIsLive, Live
    <2>1. pc[q] = "insert" /\ q # r /\ call[q].token \in DOMAIN sessions
      BY <1>1 DEF IInv, CallsOK
    <2>2. lock[call[q].token] = q /\ Live(call[q].token)
      BY <2>1 DEF IInv, RowsOK, LockHeld, LockedIsLive
    <2>3. call[q].token # s
      BY <1>2, <2>1, <2>2
    <2> QED
      BY <1>1, <1>3, <2>1, <2>2, <2>3 DEF Live
  <1>11. \A k \in DOMAIN sessions : ~Live(k) => ~Live(k)'
    BY <1>3, <1>4 DEF Live
  <1>12. ReuseRevokes'
    BY <1>1, <1>2, <1>11 DEF IInv, CallsOK, ReuseRevokes, Live
  <1>13. LogoutRevokes'
    <2>1. ~Live(s)'
      BY <1>1, <1>4 DEF Live
    <2> QED
      BY <1>1, <1>2, <1>3, <1>11, <2>1 DEF IInv, CallsOK, LogoutRevokes, Live
  <1> QED
    BY <1>5, <1>6, <1>7, <1>8, <1>9, <1>10, <1>12, <1>13 DEF IInv


-----------------------------------------------------------------------------
(* Every step. *)

\* No step of any call, and no expiry, breaks the invariant.
LEMMA NextInv == IInv /\ [Next]_vars => IInv'
  <1> SUFFICES ASSUME IInv, [Next]_vars PROVE IInv'
    OBVIOUS
  <1>1. ASSUME NEW r \in Requests, Start(r) PROVE IInv'
    BY <1>1, LoginInv, LookupInv DEF Start
  <1>2. ASSUME NEW r \in Requests, Step(r) PROVE IInv'
    BY <1>2, RotateInv, CommitInv, SnapshotInv, RevokeFamilyInv, RevokeSessionInv
    DEF Step
  <1>3. ASSUME NEW r \in Requests, Fail(r) PROVE IInv'
    BY <1>3, FailInv
  <1>4. ASSUME NEW s \in DOMAIN sessions, Expire(s) PROVE IInv'
    BY <1>4, ExpireInv
  <1>5. CASE UNCHANGED vars
    <2> USE <1>5 DEF vars, IInv
    <2>1. RowsOK' /\ OneLivePerFamily' /\ TokenSpentOnce'
      BY SameRows
    <2>2. CallsOK' /\ LockHeld' /\ Stages'
      BY DEF CallsOK, LockHeld, Stages
    <2>3. LockedIsLive' /\ ReuseRevokes' /\ LogoutRevokes'
      BY DEF LockedIsLive, ReuseRevokes, LogoutRevokes, Live
    <2> QED
      BY <2>1, <2>2, <2>3
  <1> QED
    BY <1>1, <1>2, <1>3, <1>4, <1>5 DEF Next

\* IInv holds in every state the calls reach.
LEMMA Inductive == Spec => []IInv
  <1>1. Init => IInv
    BY InitInv
  <1>2. IInv /\ [Next]_vars => IInv'
    BY NextInv
  <1> QED
    BY <1>1, <1>2, PTL DEF Spec

\* Rows refer to rows that exist, calls work on sessions that exist.
THEOREM TypeCorrect == Spec => []TypeOK
  <1>1. IInv => TypeOK
    BY DEF IInv, TypeOK
  <1> QED
    BY <1>1, Inductive, PTL

\* A family never has two valid sessions, whatever refreshes, logouts, alarms
\* and failures meet in it.
THEOREM OneLive == Spec => []OneLivePerFamily
  <1>1. IInv => OneLivePerFamily
    BY DEF IInv
  <1> QED
    BY <1>1, Inductive, PTL

\* A refresh token has at most one successor and is revoked when it has one,
\* however often it is presented.
THEOREM SpentOnce == Spec => []TokenSpentOnce
  <1>1. IInv => TokenSpentOnce
    BY DEF IInv
  <1> QED
    BY <1>1, Inductive, PTL

\* No session that an answered reuse has seen is continued: a rotation that had
\* locked its row made the UPDATE wait, and one that had only read it loses it.
THEOREM ReuseLasts == Spec => ReuseHolds
  <1> DEFINE Keeps == \A r \in DOMAIN sessions' \ DOMAIN sessions : \A q \in Requests :
                          result[q] = "reuse" => sessions'[r].parent \notin snapshot[q]
  <1>1. IInv /\ [Next]_vars => [Keeps]_vars
    <2> SUFFICES ASSUME IInv, Next PROVE Keeps \/ UNCHANGED vars
      OBVIOUS
    <2> SUFFICES ASSUME NEW n \in DOMAIN sessions' \ DOMAIN sessions,
                        NEW q \in Requests, result[q] = "reuse"
                 PROVE  sessions'[n].parent \notin snapshot[q]
      OBVIOUS
    <2>1. /\ snapshot[q] \subseteq Requests
          /\ \A s \in snapshot[q] : ~Live(s)
      BY DEF IInv, RowsOK, CallsOK, ReuseRevokes
    <2>2. CASE \E r \in Requests, u \in Users, acknowledged \in BOOLEAN :
                  Login(r, u, acknowledged)
      <3>1. sessions'[n].parent = None
        BY <2>2 DEF Login, Insert
      <3> QED
        BY <2>1, <3>1, NoneAssumption
    <2>3. CASE \E r \in Requests, acknowledged \in BOOLEAN :
                  CommitRotation(r, acknowledged)
      <3>1. PICK r \in Requests, acknowledged \in BOOLEAN :
               CommitRotation(r, acknowledged)
        BY <2>3
      <3>2. Live(call[r].token)
        BY <3>1 DEF CommitRotation, Answer, Goto, IInv, LockedIsLive
      <3>3. sessions'[n].parent = call[r].token
        BY <3>1 DEF CommitRotation, Insert
      <3> QED
        BY <2>1, <3>2, <3>3
    <2>4. CASE UNCHANGED sessions \/ DOMAIN sessions' = DOMAIN sessions
      BY <2>4
    <2> QED
      BY <2>2, <2>3, <2>4
      DEF Next, Start, Step, LookupRefresh, LookupUnknown, Limited, LookupLogout, Rotate,
          SnapshotFamily, RevokeFamily, RevokeSession, Fail, Expire
  <1> QED
    BY <1>1, Inductive, PTL DEF Spec, ReuseHolds

\* A session whose logout was confirmed has no successor afterwards: a rotation
\* that began before the logout has lost the row, or made the logout wait.
THEOREM LogoutLasts == Spec => LogoutHolds
  <1> DEFINE Continued(r) ==
        \A q \in Requests : call[q].kind = "logout" /\ result[q] = "ok"
                             => sessions'[r].parent # call[q].token
             Keeps == \A r \in DOMAIN sessions' \ DOMAIN sessions : Continued(r)
  <1>1. IInv /\ [Next]_vars => [Keeps]_vars
    <2> SUFFICES ASSUME IInv, Next PROVE Keeps \/ UNCHANGED vars
      OBVIOUS
    <2> SUFFICES ASSUME NEW n \in DOMAIN sessions' \ DOMAIN sessions,
                        NEW q \in Requests,
                        call[q].kind = "logout", result[q] = "ok"
                 PROVE  sessions'[n].parent # call[q].token
      OBVIOUS
    <2>1. /\ call[q].token \in DOMAIN sessions
          /\ call[q].token # None
          /\ ~Live(call[q].token)
      BY NoneAssumption DEF IInv, RowsOK, LogoutRevokes
    <2>2. CASE \E r \in Requests, u \in Users, acknowledged \in BOOLEAN :
                  Login(r, u, acknowledged)
      <3>1. sessions'[n].parent = None
        BY <2>2 DEF Login, Insert
      <3> QED
        BY <2>1, <3>1
    <2>3. CASE \E r \in Requests, acknowledged \in BOOLEAN :
                  CommitRotation(r, acknowledged)
      <3>1. PICK r \in Requests, acknowledged \in BOOLEAN :
               CommitRotation(r, acknowledged)
        BY <2>3
      <3>2. Live(call[r].token)
        BY <3>1 DEF CommitRotation, Answer, Goto, IInv, LockedIsLive
      <3>3. sessions'[n].parent = call[r].token
        BY <3>1 DEF CommitRotation, Insert
      <3> QED
        BY <2>1, <3>2, <3>3
    <2>4. CASE UNCHANGED sessions \/ DOMAIN sessions' = DOMAIN sessions
      BY <2>4
    <2> QED
      BY <2>2, <2>3, <2>4
      DEF Next, Start, Step, LookupRefresh, LookupUnknown, Limited, LookupLogout, Rotate,
          SnapshotFamily, RevokeFamily, RevokeSession, Fail, Expire
  <1> QED
    BY <1>1, Inductive, PTL DEF Spec, LogoutHolds
-----------------------------------------------------------------------------
(* Alarms have a cause. *)

\* Somebody else has a part in session s being revoked or looked at again.
Involved(q, s) ==
    \/ call[q].token = s /\ result[q] # "limited"
    \/ result[q] = "reuse" /\ s \in snapshot[q]

\* A revoked session was revoked by a call that has ended.
RevokedByCall ==
    \A s \in DOMAIN sessions : ~Live(s) =>
        \E q \in Requests : pc[q] = "answered" /\ Involved(q, s)

\* What a call has presented, and what it has dealt with, stays.
LEMMA InvolvedStay ==
    ASSUME IInv, [Next]_vars, NEW q \in Requests, NEW s \in Requests, Involved(q, s)
    PROVE  /\ Involved(q, s)' /\ call'[q] = call[q]
           /\ pc[q] = "answered" => pc'[q] = "answered"
  <1>1. /\ pc \in [Requests -> Labels]
        /\ call \in [Requests -> [kind : {"none", "login", "refresh", "logout"},
                                  token : Requests \cup {None}]]
        /\ result \in [Requests -> {"none", "ok", "unauthorized", "limited", "reuse", "error"}]
        /\ snapshot \in [Requests -> SUBSET Requests]
    BY DEF IInv, CallsOK, RowsOK
  <1>2. pc[q] # "idle" /\ (result[q] = "reuse" => pc[q] = "answered")
    BY NoneAssumption DEF Involved, IInv, Stages
  <1>3. ASSUME NEW r \in Requests, Start(r) \/ Step(r) \/ Fail(r)
        PROVE  /\ call'[q] = call[q] /\ (result'[q] = "limited" => result[q] = "limited")
               /\ pc[q] = "answered" => /\ pc'[q] = "answered" /\ result'[q] = result[q]
                                        /\ snapshot'[q] = snapshot[q]
    <2>1. CASE q = r
      BY <1>1, <1>2, <1>3, <2>1
      DEF Start, Step, Login, LookupUnknown, Limited, LookupRefresh, LookupLogout, Rotate,
          CommitRotation, SnapshotFamily, RevokeFamily, RevokeSession, Fail, Answer, Goto,
          Outcome
    <2>2. CASE q # r
      BY <1>1, <1>3, <2>2
      DEF Start, Step, Login, LookupUnknown, Limited, LookupRefresh, LookupLogout, Rotate,
          CommitRotation, SnapshotFamily, RevokeFamily, RevokeSession, Fail, Answer,
          Goto, Asks
    <2> QED
      BY <2>1, <2>2
  <1>4. ASSUME NEW t \in DOMAIN sessions, Expire(t)
        PROVE  UNCHANGED <<call, pc, result, snapshot>>
    BY <1>4 DEF Expire
  <1>5. CASE UNCHANGED vars
    BY <1>5 DEF vars, Involved
  <1> QED
    BY <1>2, <1>3, <1>4, <1>5 DEF Next, Involved

\* Rows are kept, and expire for good.
LEMMA RowsStay ==
    ASSUME IInv, [Next]_vars, NEW s \in DOMAIN sessions
    PROVE  /\ s \in DOMAIN sessions'
           /\ sessions[s].expired => sessions'[s].expired
           /\ ~Live(s)' => \/ ~Live(s)
                           \/ \E q \in Requests : pc'[q] = "answered" /\ Involved(q, s)'
  <1>1. /\ sessions \in [DOMAIN sessions -> Rows] /\ DOMAIN sessions \subseteq Requests
        /\ pc \in [Requests -> Labels] /\ result \in
              [Requests -> {"none", "ok", "unauthorized", "limited", "reuse", "error"}]
    BY DEF IInv, RowsOK, CallsOK
  <1>2. CASE UNCHANGED sessions
    BY <1>2 DEF Live
  <1>3. ASSUME NEW r \in Requests, NEW u \in Users, NEW acknowledged \in BOOLEAN,
               Login(r, u, acknowledged)
        PROVE  s \in DOMAIN sessions' /\ sessions'[s] = sessions[s]
    <2>1. s # r
      BY <1>3 DEF Login, Answer, Goto, IInv, Stages
    <2> QED
      BY <1>3, <2>1 DEF Login, Insert
  <1>4. ASSUME NEW r \in Requests, NEW acknowledged \in BOOLEAN,
               CommitRotation(r, acknowledged)
        PROVE  /\ s \in DOMAIN sessions' /\ sessions'[s].expired = sessions[s].expired
               /\ s # call[r].token => sessions'[s] = sessions[s]
               /\ pc'[r] = "answered" /\ call' = call /\ result'[r] # "limited"
    <2>1. s # r
      BY <1>4 DEF CommitRotation, Answer, Goto, IInv, Stages
    <2> QED
      BY <1>1, <1>4, <2>1 DEF CommitRotation, Insert, Answer, Goto, Rows, Outcome
  <1>5. ASSUME NEW r \in Requests, RevokeFamily(r)
        PROVE  /\ s \in DOMAIN sessions' /\ sessions'[s].expired = sessions[s].expired
               /\ s \notin snapshot[r] => sessions'[s] = sessions[s]
               /\ pc'[r] = "answered" /\ result'[r] = "reuse" /\ snapshot' = snapshot
    BY <1>1, <1>5 DEF RevokeFamily, Answer, Goto, Rows
  <1>6. ASSUME NEW r \in Requests, NEW acknowledged \in BOOLEAN,
               RevokeSession(r, acknowledged)
        PROVE  /\ s \in DOMAIN sessions' /\ sessions'[s].expired = sessions[s].expired
               /\ s # call[r].token => sessions'[s] = sessions[s]
               /\ pc'[r] = "answered" /\ call' = call /\ result'[r] # "limited"
    BY <1>1, <1>6 DEF RevokeSession, Answer, Goto, Rows, Outcome
  <1>7. ASSUME NEW t \in DOMAIN sessions, Expire(t)
        PROVE  /\ s \in DOMAIN sessions' /\ sessions'[s].revoked = sessions[s].revoked
               /\ sessions[s].expired => sessions'[s].expired
    BY <1>1, <1>7 DEF Expire, Rows
  <1> QED
    BY <1>2, <1>3, <1>4, <1>5, <1>6, <1>7
    DEF Next, Start, Step, LookupUnknown, Limited, LookupRefresh, LookupLogout, Rotate,
        SnapshotFamily, Fail, vars, Live, Involved

\* Sessions are revoked by calls that have presented or dealt with them.
LEMMA RevokedByCallStep ==
    ASSUME IInv, RevokedByCall, [Next]_vars
    PROVE  RevokedByCall'
  <1> SUFFICES ASSUME NEW s \in DOMAIN sessions', ~Live(s)'
               PROVE  \E q \in Requests : pc'[q] = "answered" /\ Involved(q, s)'
    BY DEF RevokedByCall
  <1>1. DOMAIN sessions \subseteq Requests
    BY DEF IInv, RowsOK
  <1>2. CASE s \in DOMAIN sessions
    <2>1. CASE Live(s)
      BY <1>2, <2>1, RowsStay
    <2>2. CASE ~Live(s)
      BY <1>1, <1>2, <2>2, InvolvedStay DEF RevokedByCall
    <2> QED
      BY <2>1, <2>2
  <1>3. CASE s \notin DOMAIN sessions
    <2>1. ASSUME NEW r \in Requests, NEW u \in Users, NEW acknowledged \in BOOLEAN,
                 Login(r, u, acknowledged)
          PROVE  FALSE
      BY <1>3, <2>1 DEF Login, Insert, Live
    <2>2. ASSUME NEW r \in Requests, NEW acknowledged \in BOOLEAN,
                 CommitRotation(r, acknowledged)
          PROVE  FALSE
      BY <1>3, <2>2 DEF CommitRotation, Insert, Live
    <2>3. ASSUME NEW r \in Requests, RevokeFamily(r)
          PROVE  FALSE
      BY <1>3, <2>3 DEF RevokeFamily
    <2>4. ASSUME NEW r \in Requests, NEW acknowledged \in BOOLEAN,
                 RevokeSession(r, acknowledged)
          PROVE  FALSE
      BY <1>3, <2>4 DEF RevokeSession
    <2>5. ASSUME NEW t \in DOMAIN sessions, Expire(t)
          PROVE  FALSE
      BY <1>3, <2>5 DEF Expire
    <2> QED
      BY <1>3, <2>1, <2>2, <2>3, <2>4, <2>5
      DEF Next, Start, Step, LookupUnknown, Limited, LookupRefresh, LookupLogout, Rotate,
          SnapshotFamily, Fail, vars
  <1> QED
    BY <1>2, <1>3

\* A call on its way to an alarm, or one that has raised it.
Alarmed(r) == pc[r] \in {"reuse", "revoke"} \/ result[r] = "reuse"

HasCause(r, s) == \/ sessions[s].expired
                  \/ \E q \in Requests \ {r} : Involved(q, s)

\* An alarm is only set off by a session with a cause for it.
LEMMA AlarmStep ==
    ASSUME IInv, RevokedByCall, NoFalseAlarm, [Next]_vars
    PROVE  NoFalseAlarm'
  <1> SUFFICES ASSUME NEW r \in Requests, Alarmed(r)'
               PROVE  HasCause(r, call[r].token)'
    BY DEF NoFalseAlarm, Alarmed, HasCause, Involved
  <1>1. /\ pc \in [Requests -> Labels] /\ DOMAIN sessions \subseteq Requests
        /\ result \in [Requests -> {"none", "ok", "unauthorized", "limited", "reuse", "error"}]
        /\ call \in [Requests -> [kind : {"none", "login", "refresh", "logout"},
                                  token : Requests \cup {None}]]
    BY DEF IInv, CallsOK, RowsOK
  <1>2. ASSUME NEW s \in DOMAIN sessions, HasCause(r, s), call'[r].token = s
        PROVE  HasCause(r, call[r].token)'
    BY <1>1, <1>2, RowsStay, InvolvedStay DEF HasCause
  <1>3. ASSUME NEW s \in DOMAIN sessions, ~Live(s), pc[r] # "answered"
        PROVE  HasCause(r, s)
    BY <1>3 DEF RevokedByCall, HasCause
  <1>4. CASE Alarmed(r)
    <2>1. call[r].token \in DOMAIN sessions
      BY <1>1, <1>4 DEF Alarmed, IInv, CallsOK, Stages
    <2>2. result[r] # "limited"
      BY <1>1, <1>4 DEF Alarmed, IInv, Stages
    <2>3. call'[r].token = call[r].token
      BY <1>1, <2>1, <2>2, InvolvedStay DEF Involved
    <2>4. HasCause(r, call[r].token)
      BY <1>4 DEF NoFalseAlarm, Alarmed, HasCause, Involved
    <2> QED
      BY <1>2, <2>1, <2>3, <2>4
  <1>5. ASSUME NEW s \in Known, LookupRefresh(r, s), ~Alarmed(r)
        PROVE  HasCause(r, call[r].token)'
    <2>1. s \in DOMAIN sessions /\ pc[r] = "idle" /\ call'[r].token = s
      BY <1>1, <1>5 DEF Known, LookupRefresh, Answer, Goto, Asks
    <2>2. ~Live(s)
      BY <1>1, <1>5 DEF Alarmed, LookupRefresh, Answer, Goto, Live
    <2> QED
      BY <1>2, <1>3, <2>1, <2>2
  <1>6. CASE Rotate(r) /\ ~Alarmed(r)
    <2>1. pc[r] = "rotate" /\ call' = call /\ call[r].token \in DOMAIN sessions
      BY <1>6 DEF Rotate, Goto, IInv, CallsOK
    <2>2. ~Live(call[r].token) \/ sessions[call[r].token].expired
      BY <1>1, <1>6 DEF Rotate, Goto, Alarmed, Live
    <2>3. HasCause(r, call[r].token)
      BY <1>3, <2>1, <2>2 DEF HasCause
    <2> QED
      BY <1>2, <2>1, <2>3
  <1>7. ASSUME ~Alarmed(r), ~Rotate(r), ~\E s \in Known : LookupRefresh(r, s)
        PROVE  FALSE
    <2>1. CASE UNCHANGED <<pc, result>>
      BY <1>7, <2>1 DEF Alarmed
    <2>2. ASSUME NEW q \in Requests, q # r, Start(q) \/ Step(q) \/ Fail(q)
          PROVE  pc'[r] = pc[r] /\ result'[r] = result[r]
      BY <1>1, <2>2
      DEF Start, Step, Login, LookupUnknown, Limited, LookupRefresh, LookupLogout, Rotate,
          CommitRotation, SnapshotFamily, RevokeFamily, RevokeSession, Fail, Answer, Goto
    <2>3. CASE Start(r) \/ Step(r) \/ Fail(r)
      BY <1>1, <1>7, <2>3
      DEF Start, Step, Login, LookupUnknown, Limited, LookupLogout, CommitRotation,
          SnapshotFamily, RevokeFamily, RevokeSession, Fail, Answer, Goto, Alarmed, Outcome
    <2>4. ASSUME NEW t \in DOMAIN sessions, Expire(t)
          PROVE  UNCHANGED <<pc, result>>
      BY <2>4 DEF Expire
    <2> QED
      BY <1>7, <2>1, <2>2, <2>3, <2>4 DEF Next, vars, Alarmed
  <1> QED
    BY <1>4, <1>5, <1>6, <1>7

\* The family of a client that uses each of its tokens once, and only the latest,
\* is revoked only if one of its sessions has expired (which may happen between the
\* lookup and the UPDATE), whatever other clients do: every alarm has a cause
\* (auth/sessions.go Refresh).
THEOREM AlarmsHaveCauses == Spec => []NoFalseAlarm
  <1>1. Init => RevokedByCall /\ NoFalseAlarm
    BY DEF Init, RevokedByCall, NoFalseAlarm
  <1>2. IInv /\ RevokedByCall /\ NoFalseAlarm /\ [Next]_vars
           => RevokedByCall' /\ NoFalseAlarm'
    BY RevokedByCallStep, AlarmStep
  <1> QED
    BY <1>1, <1>2, Inductive, PTL DEF Spec

-----------------------------------------------------------------------------
(* Sessions implements TokenFamilies: opening, rotating and revoking       *)
(* sessions open, renew and end families, and every other step leaves them *)
(* alone.                                                                  *)


\* The mapping of Chains, as operators of the table of sessions.


LiveOf(T, f) == {s \in DOMAIN T : T[s].family = f /\ ~T[s].revoked}

CurrentOf(T, f) ==
    IF LiveOf(T, f) = {} THEN None ELSE CHOOSE s \in LiveOf(T, f) : TRUE

Current(T) ==
    [f \in {T[s].family : s \in DOMAIN T} |-> CurrentOf(T, f)]

Used(T) == {s \in DOMAIN T : T[s].revoked}

OneLiveIn(T) ==
    \A s, t \in DOMAIN T :
        ~T[s].revoked /\ ~T[t].revoked /\ T[s].family = T[t].family => s = t

\* The valid session of a family is its current token.
LEMMA CurrentIsLive ==
    ASSUME NEW T, OneLiveIn(T), NEW s \in DOMAIN T, ~T[s].revoked
    PROVE  CurrentOf(T, T[s].family) = s
  <1>1. LiveOf(T, T[s].family) = {s}
    BY DEF LiveOf, OneLiveIn
  <1> QED
    BY <1>1 DEF CurrentOf

\* The current token, if there is one, is a valid session of the family.
LEMMA CurrentExists ==
    ASSUME NEW T, NEW f, CurrentOf(T, f) # None
    PROVE  /\ CurrentOf(T, f) \in DOMAIN T
           /\ T[CurrentOf(T, f)].family = f
           /\ ~T[CurrentOf(T, f)].revoked
  <1>1. CurrentOf(T, f) \in LiveOf(T, f)
    BY DEF CurrentOf
  <1> QED
    BY <1>1 DEF LiveOf

\* A family keeps its current token when its valid sessions stay the same.
LEMMA CurrentKept ==
    ASSUME NEW T, NEW N, NEW f, LiveOf(T, f) = LiveOf(N, f)
    PROVE  CurrentOf(T, f) = CurrentOf(N, f)
  BY DEF CurrentOf

\* The tables before and after a step, related as the steps of Sessions do it.
Kept(T, N) ==
    /\ DOMAIN T \subseteq DOMAIN N
    /\ \A s \in DOMAIN T : N[s].family = T[s].family

\* When no session is added or revoked, the families stay as they are.
LEMMA Unchanging ==
    ASSUME NEW T, NEW N, Kept(T, N), DOMAIN N = DOMAIN T,
           \A s \in DOMAIN T : N[s].revoked = T[s].revoked
    PROVE  Current(N) = Current(T) /\ Used(N) = Used(T)
  <1>1. {N[s].family : s \in DOMAIN N} = {T[s].family : s \in DOMAIN T}
    BY DEF Kept
  <1>2. \A f : LiveOf(T, f) = LiveOf(N, f)
    BY DEF LiveOf, Kept
  <1>3. \A f : CurrentOf(T, f) = CurrentOf(N, f)
    BY <1>2, CurrentKept
  <1>4. Current(N) = Current(T)
    BY <1>1, <1>3 DEF Current
  <1>5. Used(N) = Used(T)
    BY DEF Used
  <1> QED
    BY <1>4, <1>5

\* Revoking the valid session of a family ends it.
LEMMA Ending ==
    ASSUME NEW T, NEW N, Kept(T, N), DOMAIN N = DOMAIN T, OneLiveIn(T), OneLiveIn(N),
           NEW s \in DOMAIN T, ~T[s].revoked, N[s].revoked,
           \A t \in DOMAIN T \ {s} : N[t].revoked = T[t].revoked
    PROVE  /\ T[s].family \in DOMAIN Current(T)
           /\ Current(T)[T[s].family] = s
           /\ Current(N) = [Current(T) EXCEPT ![T[s].family] = None]
           /\ Used(N) = Used(T) \cup {s}
  <1> DEFINE F == {T[t].family : t \in DOMAIN T}
  <1>1. {N[t].family : t \in DOMAIN N} = F
    BY DEF Kept
  <1>2. T[s].family \in F /\ CurrentOf(T, T[s].family) = s
    BY CurrentIsLive
  <1>3. LiveOf(N, T[s].family) = {}
    BY DEF LiveOf, Kept, OneLiveIn
  <1>4. CurrentOf(N, T[s].family) = None
    BY <1>3 DEF CurrentOf
  <1>5. \A f : f # T[s].family => LiveOf(T, f) = LiveOf(N, f)
    BY DEF LiveOf, Kept
  <1>6. \A f : f # T[s].family => CurrentOf(T, f) = CurrentOf(N, f)
    BY <1>5, CurrentKept
  <1>7. Current(N) = [Current(T) EXCEPT ![T[s].family] = None]
    BY <1>1, <1>2, <1>4, <1>6 DEF Current
  <1>8. Used(N) = Used(T) \cup {s}
    BY DEF Used
  <1> QED
    BY <1>2, <1>7, <1>8 DEF Current


\* A new session of a family of its own opens one.
LEMMA Opening ==
    ASSUME NEW T, NEW N, Kept(T, N), NEW r, r \notin DOMAIN T, r # None,
           None \notin DOMAIN T,
           DOMAIN N = DOMAIN T \cup {r}, OneLiveIn(T), OneLiveIn(N),
           N[r].family = r, ~N[r].revoked,
           \A t \in DOMAIN T : /\ N[t].revoked = T[t].revoked
                               /\ T[t].family \in DOMAIN T
    PROVE  /\ r \notin Used(T)
           /\ \A f \in DOMAIN Current(T) : Current(T)[f] # r
           /\ r \notin DOMAIN Current(T)
           /\ Current(N) = [f \in DOMAIN Current(T) \cup {r} |->
                              IF f = r THEN r ELSE Current(T)[f]]
           /\ Used(N) = Used(T)
  <1> DEFINE F == {T[t].family : t \in DOMAIN T}
  <1>1. {N[t].family : t \in DOMAIN N} = F \cup {r}
    BY DEF Kept
  <1>2. r \notin F
    OBVIOUS
  <1>3. CurrentOf(N, r) = r
    BY CurrentIsLive
  <1>4. \A f : f # r => LiveOf(T, f) = LiveOf(N, f)
    BY DEF LiveOf, Kept
  <1>5. \A f : f # r => CurrentOf(T, f) = CurrentOf(N, f)
    BY <1>4, CurrentKept
  <1>6. \A f \in F : CurrentOf(T, f) # r
    BY CurrentExists
  <1>7. Current(N) = [f \in F \cup {r} |-> IF f = r THEN r ELSE Current(T)[f]]
    <2>1. Current(N) = [f \in F \cup {r} |-> CurrentOf(N, f)]
      BY <1>1 DEF Current
    <2>2. \A f \in F : Current(T)[f] = CurrentOf(T, f)
      BY DEF Current
    <2> QED
      BY <1>2, <1>3, <1>5, <2>1, <2>2
  <1>8. Used(N) = Used(T)
    BY DEF Used
  <1> QED
    BY <1>2, <1>6, <1>7, <1>8 DEF Current, Used

\* A new session in the family of one that is revoked renews the family.
LEMMA Renewing ==
    ASSUME NEW T, NEW N, Kept(T, N), NEW r, r \notin DOMAIN T, None \notin DOMAIN T,
           r # None, DOMAIN N = DOMAIN T \cup {r}, OneLiveIn(T), OneLiveIn(N),
           NEW s \in DOMAIN T, ~T[s].revoked, N[s].revoked,
           N[r].family = T[s].family, ~N[r].revoked,
           \A t \in DOMAIN T \ {s} : N[t].revoked = T[t].revoked
    PROVE  /\ r \notin Used(T)
           /\ \A f \in DOMAIN Current(T) : Current(T)[f] # r
           /\ T[s].family \in DOMAIN Current(T)
           /\ Current(T)[T[s].family] = s
           /\ Current(N) = [Current(T) EXCEPT ![T[s].family] = r]
           /\ Used(N) = Used(T) \cup {s}
  <1> DEFINE F == {T[t].family : t \in DOMAIN T}
  <1>1. {N[t].family : t \in DOMAIN N} = F
    BY DEF Kept
  <1>2. T[s].family \in F /\ CurrentOf(T, T[s].family) = s
    BY CurrentIsLive
  <1>3. CurrentOf(N, T[s].family) = r
    <2>1. CurrentOf(N, N[r].family) = r
      BY CurrentIsLive
    <2> QED
      BY <2>1
  <1>4. \A f : f # T[s].family => LiveOf(T, f) = LiveOf(N, f)
    BY DEF LiveOf, Kept
  <1>5. \A f : f # T[s].family => CurrentOf(T, f) = CurrentOf(N, f)
    BY <1>4, CurrentKept
  <1>6. \A f \in F : CurrentOf(T, f) # r
    BY CurrentExists
  <1>7. Current(N) = [Current(T) EXCEPT ![T[s].family] = r]
    BY <1>1, <1>2, <1>3, <1>5 DEF Current
  <1>8. Used(N) = Used(T) \cup {s}
    BY DEF Used
  <1> QED
    BY <1>2, <1>6, <1>7, <1>8 DEF Current, Used

-----------------------------------------------------------------------------
(* Family revocations see one family. *)

OneFamilySeen ==
    \A r \in Requests : \A s, t \in snapshot[r] :
        sessions[s].family = sessions[t].family

\* No step moves a session to another family.
LEMMA FamiliesKept == IInv /\ [Next]_vars => Kept(sessions, sessions')
  <1> SUFFICES ASSUME IInv, [Next]_vars PROVE Kept(sessions, sessions')
    OBVIOUS
  <1>1. ASSUME NEW r \in Requests, NEW u \in Users, NEW acknowledged \in BOOLEAN,
               Login(r, u, acknowledged)
        PROVE  Kept(sessions, sessions')
    <2>1. r \notin DOMAIN sessions
      BY <1>1 DEF Login, Answer, Goto, IInv, Stages
    <2> QED
      BY <1>1, <2>1 DEF Login, Insert, Kept
  <1>2. ASSUME NEW r \in Requests, NEW acknowledged \in BOOLEAN,
               CommitRotation(r, acknowledged)
        PROVE  Kept(sessions, sessions')
    <2>1. r \notin DOMAIN sessions /\ call[r].token \in DOMAIN sessions
      BY <1>2 DEF CommitRotation, Answer, Goto, IInv, Stages, CallsOK
    <2>2. sessions \in [DOMAIN sessions -> Rows]
      BY DEF IInv, RowsOK
    <2> QED
      BY <1>2, <2>1, <2>2 DEF CommitRotation, Insert, Kept, Rows
  <1>3. ASSUME NEW r \in Requests, RevokeFamily(r) PROVE Kept(sessions, sessions')
    <2>1. snapshot[r] \in SUBSET DOMAIN sessions
      BY DEF IInv, CallsOK
    <2> QED
      BY <1>3, <2>1, SetRevoked DEF RevokeFamily, Marks, Kept
  <1>4. ASSUME NEW r \in Requests, NEW acknowledged \in BOOLEAN,
               RevokeSession(r, acknowledged)
        PROVE  Kept(sessions, sessions')
    <2>1. sessions \in [DOMAIN sessions -> Rows]
      BY DEF IInv, RowsOK
    <2> QED
      BY <1>4, <2>1 DEF RevokeSession, Kept, Rows
  <1>5. ASSUME NEW s \in DOMAIN sessions, Expire(s) PROVE Kept(sessions, sessions')
    <2>1. sessions \in [DOMAIN sessions -> Rows]
      BY DEF IInv, RowsOK
    <2> QED
      BY <1>5, <2>1 DEF Expire, Kept, Rows
  <1>6. CASE UNCHANGED sessions
    BY <1>6 DEF Kept
  <1> QED
    BY <1>1, <1>2, <1>3, <1>4, <1>5, <1>6
    DEF Next, Start, Step, LookupRefresh, LookupUnknown, Limited, LookupLogout, Rotate,
        SnapshotFamily, Fail, vars

\* What a family revocation sees when it begins is one family, and stays one.
LEMMA SeenInv == Spec => []OneFamilySeen
  <1>1. Init => OneFamilySeen
    BY DEF Init, OneFamilySeen
  <1>2. IInv /\ OneFamilySeen /\ [Next]_vars => OneFamilySeen'
    <2> SUFFICES ASSUME IInv, OneFamilySeen, [Next]_vars,
                        NEW r \in Requests,
                        NEW s \in snapshot'[r], NEW t \in snapshot'[r]
                 PROVE  sessions'[s].family = sessions'[t].family
      BY DEF OneFamilySeen
    <2>1. Kept(sessions, sessions')
      BY FamiliesKept
    <2>2. CASE snapshot' = snapshot
      <3>1. s \in DOMAIN sessions /\ t \in DOMAIN sessions
        BY <2>2 DEF IInv, CallsOK
      <3> QED
        BY <2>1, <2>2, <3>1 DEF OneFamilySeen, Kept
    <2>3. CASE \E q \in Requests : SnapshotFamily(q)
      <3>1. PICK q \in Requests : SnapshotFamily(q)
        BY <2>3
      <3>2. CASE q = r
        <4>1. s \in FamilyOf(call[r].token) /\ t \in FamilyOf(call[r].token)
          BY <3>1, <3>2 DEF SnapshotFamily, IInv, CallsOK
        <4> QED
          BY <2>1, <4>1 DEF FamilyOf, Kept
      <3>3. CASE q # r
        <4>1. s \in snapshot[r] /\ t \in snapshot[r]
          BY <3>1, <3>3 DEF SnapshotFamily, IInv, CallsOK
        <4>2. s \in DOMAIN sessions /\ t \in DOMAIN sessions
          BY <4>1 DEF IInv, CallsOK
        <4> QED
          BY <2>1, <4>1, <4>2 DEF OneFamilySeen, Kept
      <3> QED
        BY <3>2, <3>3
    <2> QED
      BY <2>2, <2>3
      DEF Next, Start, Step, Login, LookupRefresh, LookupUnknown, Limited, LookupLogout,
          Rotate, CommitRotation, RevokeFamily, RevokeSession, Fail, Expire, vars
  <1> QED
    BY <1>1, <1>2, Inductive, PTL DEF Spec


-----------------------------------------------------------------------------
(* The refinement, step by step. *)

\* The operators on tables give the mapping of Sessions.
LEMMA MappingIs ==
    /\ CurrentTokens = Current(sessions) /\ SpentTokens = Used(sessions)
    /\ CurrentTokens' = Current(sessions') /\ SpentTokens' = Used(sessions')
  <1>1. CurrentTokens = Current(sessions)
    BY DEF CurrentTokens, Current, CurrentOf, LiveOf, Families, LiveIn, Live
  <1>2. SpentTokens = Used(sessions)
    BY DEF SpentTokens, Used, Live
  <1>3. CurrentTokens' = Current(sessions')
    BY DEF CurrentTokens, Current, CurrentOf, LiveOf, Families, LiveIn, Live
  <1>4. SpentTokens' = Used(sessions')
    BY DEF SpentTokens, Used, Live
  <1> QED
    BY <1>1, <1>2, <1>3, <1>4

\* What the tables before and after a step have to do with each other.
Mapped ==
    LET now == Current(sessions)
        next == Current(sessions')
        spent == Used(sessions)
        after == Used(sessions')
    IN  \/ \E r \in Requests :
              /\ r \notin spent
              /\ \A f \in DOMAIN now : now[f] # r
              /\ \/ /\ r \notin DOMAIN now
                    /\ next = [f \in DOMAIN now \cup {r} |->
                                  IF f = r THEN r ELSE now[f]]
                    /\ after = spent
                 \/ \E f \in DOMAIN now :
                       /\ now[f] # None
                       /\ next = [now EXCEPT ![f] = r]
                       /\ after = spent \cup {now[f]}
        \/ \E f \in DOMAIN now :
              /\ now[f] # None
              /\ next = [now EXCEPT ![f] = None]
              /\ after = spent \cup {now[f]}
        \/ next = now /\ after = spent

\* Mapped is a step of the abstract specification, or none.
LEMMA MappedIsStep == Mapped => [Chains!FamiliesNext]_(Chains!familyVars)
  BY MappingIs
  DEF Mapped, Chains!FamiliesNext, Chains!Open, Chains!Renew, Chains!End,
      Chains!New, Chains!familyVars

\* Rows revoked together that are of one family end it, or change nothing.
LEMMA RevokingIsMapped ==
    ASSUME IInv, IInv', NEW S \in SUBSET DOMAIN sessions,
           \A s, t \in S : sessions[s].family = sessions[t].family,
           Marks,
           \A s \in S : ~Live(s)',
           \A s \in DOMAIN sessions \ S : sessions'[s] = sessions[s]
    PROVE  Mapped
  <1>1. /\ Kept(sessions, sessions')
        /\ DOMAIN sessions' = DOMAIN sessions
        /\ \A s \in S : sessions'[s].revoked
        /\ \A s \in DOMAIN sessions \ S : sessions'[s] = sessions[s]
    BY DEF Marks, Kept, Live
  <1>2. OneLiveIn(sessions) /\ OneLiveIn(sessions')
    BY DEF IInv, OneLivePerFamily, OneLiveIn, Live
  <1>3. \A s \in DOMAIN sessions : sessions[s].revoked \in BOOLEAN
                                   /\ sessions'[s].revoked \in BOOLEAN
    BY <1>1 DEF IInv, RowsOK, Rows
  <1>4. CASE \E s \in S : ~sessions[s].revoked
    <2>1. PICK s \in S : ~sessions[s].revoked
      BY <1>4
    <2>2. \A t \in DOMAIN sessions \ {s} :
             sessions'[t].revoked = sessions[t].revoked
      BY <1>1, <1>2, <1>3, <2>1 DEF OneLiveIn
    <2>3. s # None
      BY NoneAssumption DEF IInv, RowsOK
    <2>4. /\ sessions[s].family \in DOMAIN Current(sessions)
          /\ Current(sessions)[sessions[s].family] = s
          /\ Current(sessions')
                = [Current(sessions) EXCEPT ![sessions[s].family] = None]
          /\ Used(sessions') = Used(sessions) \cup {s}
      <3>1. /\ s \in DOMAIN sessions
            /\ ~sessions[s].revoked /\ sessions'[s].revoked
            /\ Kept(sessions, sessions') /\ DOMAIN sessions' = DOMAIN sessions
        BY <1>1, <2>1
      <3> QED
        BY <1>2, <2>2, <3>1, Ending
    <2> QED
      BY <2>3, <2>4 DEF Mapped
  <1>5. CASE \A s \in S : sessions[s].revoked
    <2>1. \A t \in DOMAIN sessions : sessions'[t].revoked = sessions[t].revoked
      BY <1>1, <1>3, <1>5
    <2> QED
      BY <1>1, <2>1, Unchanging DEF Mapped
  <1> QED
    BY <1>4, <1>5

\* Every step of Sessions is mapped.
LEMMA StepIsMapped ==
    IInv /\ IInv' /\ OneFamilySeen /\ [Next]_vars => Mapped
  <1> SUFFICES ASSUME IInv, IInv', OneFamilySeen, [Next]_vars PROVE Mapped
    OBVIOUS
  <1>1. /\ Kept(sessions, sessions')
        /\ OneLiveIn(sessions) /\ OneLiveIn(sessions')
        /\ None \notin DOMAIN sessions
        /\ \A s \in DOMAIN sessions : sessions[s].family \in DOMAIN sessions
    BY FamiliesKept, NoneAssumption
    DEF IInv, RowsOK, OneLivePerFamily, OneLiveIn, Live
  <1>2. ASSUME NEW r \in Requests, NEW u \in Users, NEW acknowledged \in BOOLEAN,
               Login(r, u, acknowledged)
        PROVE  Mapped
    <2>1. r \notin DOMAIN sessions /\ r # None
      BY <1>2, NoneAssumption DEF Login, Answer, Goto, IInv, Stages
    <2>2. /\ DOMAIN sessions' = DOMAIN sessions \cup {r}
          /\ sessions'[r].family = r /\ ~sessions'[r].revoked
          /\ \A t \in DOMAIN sessions : sessions'[t].revoked = sessions[t].revoked
      BY <1>2, <2>1 DEF Login, Insert
    <2>3. /\ r \notin Used(sessions)
          /\ \A f \in DOMAIN Current(sessions) : Current(sessions)[f] # r
          /\ r \notin DOMAIN Current(sessions)
          /\ Current(sessions') = [f \in DOMAIN Current(sessions) \cup {r} |->
                                     IF f = r THEN r ELSE Current(sessions)[f]]
          /\ Used(sessions') = Used(sessions)
      BY <1>1, <2>1, <2>2, Opening
    <2> QED
      BY <2>3 DEF Mapped
  <1>3. ASSUME NEW r \in Requests, NEW acknowledged \in BOOLEAN,
               CommitRotation(r, acknowledged)
        PROVE  Mapped
    <2> DEFINE s == call[r].token
    <2>1. /\ r \notin DOMAIN sessions /\ r # None
          /\ s \in DOMAIN sessions /\ ~sessions[s].revoked
      BY <1>3, NoneAssumption
      DEF CommitRotation, Answer, Goto, IInv, Stages, CallsOK, LockedIsLive, Live
    <2>2. sessions[s] \in Rows
      BY <2>1 DEF IInv, RowsOK
    <2>3. /\ DOMAIN sessions' = DOMAIN sessions \cup {r}
          /\ sessions'[r].family = sessions[s].family /\ ~sessions'[r].revoked
          /\ sessions'[s].revoked
          /\ \A t \in DOMAIN sessions \ {s} :
                sessions'[t].revoked = sessions[t].revoked
      BY <1>3, <2>1, <2>2 DEF CommitRotation, Insert, Rows
    <2>4. s # None
      BY <1>1, <2>1
    <2> HIDE DEF s
    <2> QED
      BY <1>1, <2>1, <2>3, <2>4, Renewing DEF Mapped
  <1>4. ASSUME NEW r \in Requests, RevokeFamily(r) PROVE Mapped
    <2>1. /\ snapshot[r] \in SUBSET DOMAIN sessions
          /\ \A s, t \in snapshot[r] : sessions[s].family = sessions[t].family
      BY DEF IInv, CallsOK, OneFamilySeen
    <2> QED
      BY <1>4, <2>1, SetRevoked, RevokingIsMapped DEF RevokeFamily
  <1>5. ASSUME NEW r \in Requests, NEW acknowledged \in BOOLEAN,
               RevokeSession(r, acknowledged)
        PROVE  Mapped
    <2>1. {call[r].token} \in SUBSET DOMAIN sessions
      BY <1>5 DEF RevokeSession, Answer, Goto, IInv, CallsOK
    <2>2. sessions' = [s \in DOMAIN sessions |->
                         IF s \in {call[r].token}
                         THEN [sessions[s] EXCEPT !.revoked = TRUE]
                         ELSE sessions[s]]
      BY <1>5, <2>1 DEF RevokeSession, IInv, RowsOK
    <2> QED
      BY <2>1, <2>2, SetRevoked, RevokingIsMapped
  <1>6. ASSUME NEW s \in DOMAIN sessions, Expire(s) PROVE Mapped
    <2>1. sessions \in [DOMAIN sessions -> Rows]
      BY DEF IInv, RowsOK
    <2>2. /\ DOMAIN sessions' = DOMAIN sessions
          /\ \A t \in DOMAIN sessions : sessions'[t].revoked = sessions[t].revoked
      BY <1>6, <2>1 DEF Expire, Rows
    <2> QED
      BY <1>1, <2>2, Unchanging DEF Mapped
  <1>7. CASE UNCHANGED sessions
    BY <1>7 DEF Mapped
  <1> QED
    BY <1>2, <1>3, <1>4, <1>5, <1>6, <1>7
    DEF Next, Start, Step, LookupRefresh, LookupUnknown, Limited, LookupLogout, Rotate,
        SnapshotFamily, Fail, vars

\* Sessions implements families of tokens that are renewed one by one, for any
\* users and any number of calls.
THEOREM Refines == Spec => ImplementsFamilies
  <1>1. Init => Chains!FamiliesInit
    <2> SUFFICES ASSUME Init PROVE Chains!FamiliesInit
      OBVIOUS
    <2>1. DOMAIN sessions = {} /\ Families = {}
      BY DEF Init, Families
    <2>2. CurrentTokens = [f \in {} |-> None] /\ SpentTokens = {}
      BY <2>1 DEF CurrentTokens, SpentTokens
    <2> QED
      BY <2>2 DEF Chains!FamiliesInit
  <1>2. IInv /\ IInv' /\ OneFamilySeen /\ [Next]_vars
           => [Chains!FamiliesNext]_(Chains!familyVars)
    BY StepIsMapped, MappedIsStep
  <1> QED
    BY <1>1, <1>2, Inductive, SeenInv, PTL
    DEF Spec, ImplementsFamilies, Chains!FamiliesSpec

=============================================================================
