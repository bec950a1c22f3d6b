--------------------------- MODULE ApiClientProofs ---------------------------
(***************************************************************************)
(* Proofs about ApiClient, for any operations and calls and any number of  *)
(* faults: what the device asks is what Sessions lets a client ask, a      *)
(* quiet logout ends its family of tokens, and a device that meets no      *)
(* fault stays signed in.                                                  *)
(***************************************************************************)
EXTENDS ApiClient, SessionsProofs

-----------------------------------------------------------------------------
(* What the statements of the server do to rows and calls. *)

\* No row goes, changes its family, its parent or its user, or is valid again.
RowsAge ==
    \A s \in DOMAIN sessions :
        /\ s \in DOMAIN sessions'
        /\ sessions'[s].family = sessions[s].family
        /\ sessions'[s].parent = sessions[s].parent
        /\ sessions'[s].user = sessions[s].user
        /\ Live(s)' => Live(s)

OtherCallsStay(r) ==
    \A q \in Requests : q # r => pc'[q] = pc[q] /\ call'[q] = call[q] /\ result'[q] = result[q]

Valid(s) == Live(s) /\ ~sessions[s].expired

\* The statements that leave the rows alone, add one, and revoke some.
Works(r) ==
    /\ sessions' = sessions
    /\ \/ pc'[r] = "answered" /\ result'[r] = "error"
       \/ pc[r] = "rotate" /\ pc'[r] = "insert"
       \/ pc[r] = "rotate" /\ pc'[r] = "reuse" /\ ~Valid(call[r].token)
       \/ pc[r] = "reuse" /\ pc'[r] = "revoke"

Renews(r) ==
    /\ pc[r] = "insert" /\ pc'[r] = "answered" /\ result'[r] \in {"ok", "error"}
    /\ r \notin DOMAIN sessions /\ DOMAIN sessions' = DOMAIN sessions \cup {r}
    /\ sessions'[r].family = sessions[call[r].token].family
    /\ sessions'[r].parent = call[r].token
    /\ Valid(r)'
    /\ \A s \in DOMAIN sessions \ {call[r].token} : sessions'[s] = sessions[s]

Revokes(r) ==
    /\ DOMAIN sessions' = DOMAIN sessions /\ pc'[r] = "answered"
    /\ \/ pc[r] = "revoke" /\ result'[r] = "reuse"
       \/ /\ pc[r] = "logout" /\ result'[r] \in {"ok", "error"}
          /\ \A s \in DOMAIN sessions \ {call[r].token} : sessions'[s] = sessions[s]

LEMMA RowFields ==
    ASSUME IInv, NEW s \in DOMAIN sessions
    PROVE  /\ s \in Requests /\ sessions[s] \in Rows
           /\ sessions[s].family \in DOMAIN sessions
           /\ DOMAIN sessions[s] = {"user", "family", "parent", "revoked", "expired"}
<1>1. s \in Requests /\ sessions[s] \in Rows /\ sessions[s].family \in DOMAIN sessions
    BY DEF IInv, RowsOK
<1>2. QED BY <1>1 DEF Rows

LEMMA StepMakes ==
    ASSUME IInv, NEW r \in Requests, Step(r) \/ Fail(r)
    PROVE  /\ RowsAge /\ OtherCallsStay(r) /\ call' = call
           /\ pc[r] \notin {"idle", "answered"}
           /\ pc'[r] # "answered" => result'[r] = result[r]
           /\ Works(r) \/ Renews(r) \/ Revokes(r)
<1> USE RowFields DEF Answer, Goto, Live, Valid
<1>1. /\ DOMAIN pc = Requests /\ DOMAIN result = Requests
      /\ pc[r] \notin {"idle", "answered"} => call[r].token \in DOMAIN sessions
      /\ snapshot[r] \subseteq DOMAIN sessions
    BY DEF IInv, CallsOK
<1>2. CASE Fail(r)
    BY <1>1, <1>2 DEF Fail, RowsAge, OtherCallsStay, Works
<1>3. CASE Rotate(r)
    BY <1>1, <1>3 DEF Rotate, RowsAge, OtherCallsStay, Works
<1>4. CASE SnapshotFamily(r)
    BY <1>1, <1>4 DEF SnapshotFamily, RowsAge, OtherCallsStay, Works
<1>5. CASE RevokeFamily(r)
    <2>1. /\ DOMAIN sessions' = DOMAIN sessions
          /\ \A s \in DOMAIN sessions :
                sessions'[s] = IF s \in snapshot[r]
                               THEN [sessions[s] EXCEPT !.revoked = TRUE] ELSE sessions[s]
        BY <1>5 DEF RevokeFamily
    <2>2. RowsAge BY <2>1 DEF RowsAge
    <2>3. QED BY <1>1, <1>5, <2>1, <2>2 DEF RevokeFamily, OtherCallsStay, Revokes
<1>6. CASE \E acknowledged \in BOOLEAN : RevokeSession(r, acknowledged)
    <2>1. /\ DOMAIN sessions' = DOMAIN sessions
          /\ \A s \in DOMAIN sessions :
                sessions'[s] = IF s = call[r].token
                               THEN [sessions[s] EXCEPT !.revoked = TRUE] ELSE sessions[s]
        BY <1>6 DEF RevokeSession
    <2>2. RowsAge BY <2>1 DEF RowsAge
    <2>3. QED BY <1>1, <1>6, <2>1, <2>2 DEF RevokeSession, OtherCallsStay, Revokes, Outcome
<1>7. CASE \E acknowledged \in BOOLEAN : CommitRotation(r, acknowledged)
    <2>1. pc[r] = "insert" /\ r \notin DOMAIN sessions /\ call[r].token \in DOMAIN sessions
        BY <1>1, <1>7 DEF CommitRotation, IInv, Stages
    <2>2. /\ DOMAIN sessions' = DOMAIN sessions \cup {r}
          /\ sessions'[r] = [user |-> sessions[call[r].token].user,
                             family |-> sessions[call[r].token].family,
                             parent |-> call[r].token, revoked |-> FALSE, expired |-> FALSE]
          /\ \A s \in DOMAIN sessions :
                sessions'[s] = IF s = call[r].token
                               THEN [sessions[s] EXCEPT !.revoked = TRUE] ELSE sessions[s]
        BY <1>7, <2>1 DEF CommitRotation, Insert
    <2>3. RowsAge BY <2>2 DEF RowsAge
    <2>4. /\ pc' = [pc EXCEPT ![r] = "answered"] /\ call' = call
          /\ \E outcome \in {"ok", "error"} : result' = [result EXCEPT ![r] = outcome]
        BY <1>7 DEF CommitRotation, Outcome
    <2>5. OtherCallsStay(r) /\ pc'[r] = "answered" /\ result'[r] \in {"ok", "error"}
        BY <1>1, <2>4 DEF OtherCallsStay
    <2>6. Renews(r) BY <2>1, <2>2, <2>5 DEF Renews
    <2>7. QED BY <2>1, <2>3, <2>4, <2>5, <2>6
<1>8. QED BY <1>2, <1>3, <1>4, <1>5, <1>6, <1>7 DEF Step

\* A login adds a family of one row.
LEMMA LoginMakes ==
    ASSUME IInv, NEW r \in Requests, NEW u \in Users,
           \E acknowledged \in BOOLEAN : Login(r, u, acknowledged)
    PROVE  /\ RowsAge /\ OtherCallsStay(r)
           /\ pc[r] = "idle" /\ pc'[r] = "answered"
           /\ call'[r] = [kind |-> "login", token |-> None]
           /\ r \notin DOMAIN sessions /\ DOMAIN sessions' = DOMAIN sessions \cup {r}
           /\ sessions'[r].family = r /\ Valid(r)'
           /\ \A s \in DOMAIN sessions : sessions'[s] = sessions[s]
<1>1. DOMAIN pc = Requests /\ DOMAIN result = Requests /\ DOMAIN call = Requests
    BY DEF IInv, CallsOK
<1>2. pc[r] = "idle" /\ r \notin DOMAIN sessions
    BY DEF Login, Answer, Goto, IInv, Stages
<1>3. /\ DOMAIN sessions' = DOMAIN sessions \cup {r}
      /\ sessions'[r] = [user |-> u, family |-> r, parent |-> None,
                         revoked |-> FALSE, expired |-> FALSE]
      /\ \A s \in DOMAIN sessions : sessions'[s] = sessions[s]
    BY <1>2 DEF Login, Insert
<1>4. /\ pc' = [pc EXCEPT ![r] = "answered"]
      /\ \E outcome : result' = [result EXCEPT ![r] = outcome]
      /\ call' = [call EXCEPT ![r] = [kind |-> "login", token |-> None]]
    BY DEF Login, Answer, Goto, Asks
<1>5. RowsAge /\ Valid(r)' BY <1>3 DEF RowsAge, Live, Valid
<1>6. QED BY <1>1, <1>2, <1>3, <1>4, <1>5 DEF OtherCallsStay

\* Looking a token up changes no row, and the limiter may refuse to.
Looks(r, kind, s) ==
    /\ sessions' = sessions /\ OtherCallsStay(r)
    /\ pc[r] = "idle" /\ call'[r] = [kind |-> kind, token |-> s]
    /\ \/ kind = "logout" /\ pc'[r] = "logout" /\ result'[r] = result[r]
       \/ pc'[r] = "answered" /\ result'[r] = "unauthorized"
             /\ (kind = "refresh" => ~Valid(s))
       \/ kind = "refresh" /\ pc'[r] = "answered" /\ result'[r] = "limited"
       \/ kind = "refresh" /\ pc'[r] = "rotate" /\ Valid(s) /\ result'[r] = result[r]
       \/ kind = "refresh" /\ pc'[r] = "reuse" /\ ~Valid(s) /\ result'[r] = result[r]

LEMMA LookupMakes ==
    ASSUME IInv, NEW r \in Requests, NEW s \in DOMAIN sessions
    PROVE  /\ LookupRefresh(r, s) \/ Limited(r, s) => Looks(r, "refresh", s)
           /\ \A u : LookupLogout(r, s, u) => Looks(r, "logout", s)
<1>1. DOMAIN pc = Requests /\ DOMAIN result = Requests /\ DOMAIN call = Requests
    BY DEF IInv, CallsOK
<1>2. ASSUME LookupRefresh(r, s) \/ Limited(r, s) PROVE Looks(r, "refresh", s)
    BY <1>1, <1>2
    DEF LookupRefresh, Limited, Answer, Goto, Asks, Looks, OtherCallsStay, Live, Valid
<1>3. ASSUME NEW u, LookupLogout(r, s, u) PROVE Looks(r, "logout", s)
    BY <1>1, <1>3 DEF LookupLogout, Answer, Goto, Asks, Looks, OtherCallsStay
<1>4. QED BY <1>2, <1>3

LEMMA ExpireMakes ==
    ASSUME IInv, NEW s \in DOMAIN sessions, Expire(s)
    PROVE  RowsAge /\ DOMAIN sessions' = DOMAIN sessions /\ UNCHANGED <<pc, call, result>>
<1>1. /\ DOMAIN sessions' = DOMAIN sessions
      /\ \A t \in DOMAIN sessions :
            sessions'[t] = IF t = s THEN [sessions[t] EXCEPT !.expired = TRUE] ELSE sessions[t]
    BY DEF Expire
<1>2. QED BY <1>1, RowFields DEF Expire, RowsAge, Live

-----------------------------------------------------------------------------
(* What calls and rows have to do with each other. *)

\* A call is at a statement of its own kind, and the session it leads to is a
\* family of its own or the successor of the one presented.
CallKinds ==
    \A q \in Requests :
       /\ pc[q] \in {"rotate", "insert", "reuse", "revoke"} => call[q].kind = "refresh"
       /\ pc[q] = "logout" => call[q].kind = "logout"
       /\ call[q].kind \in {"refresh", "logout"} => call[q].token \in DOMAIN sessions
       /\ q \in DOMAIN sessions => \/ call[q].kind = "login" /\ sessions[q].family = q
                                  \/ /\ call[q].kind = "refresh"
                                     /\ sessions[q].parent = call[q].token
       /\ call[q].kind = "refresh" /\ result[q] = "ok" => q \in DOMAIN sessions
       /\ call[q].kind = "login" => q \in DOMAIN sessions

LEMMA KindsInit == Init => CallKinds
BY DEF Init, CallKinds, NoCall

\* What is known is not forgotten, and calls that are at work keep their request.
CallsStay ==
    \A q \in Requests : pc[q] # "idle" =>
        /\ pc'[q] # "idle" /\ call'[q] = call[q]
        /\ pc[q] = "answered" => pc'[q] = "answered" /\ result'[q] = result[q]

\* A call that goes on takes no other with it.
LEMMA KindsStay ==
    ASSUME IInv, CallKinds, RowsAge, NEW r \in Requests, OtherCallsStay(r), r \notin DOMAIN sessions,
           DOMAIN sessions' \subseteq DOMAIN sessions \cup {r},
           /\ pc'[r] \in {"rotate", "insert", "reuse", "revoke"} => call'[r].kind = "refresh"
           /\ pc'[r] = "logout" => call'[r].kind = "logout"
           /\ call'[r].kind \in {"refresh", "logout"} => call'[r].token \in DOMAIN sessions'
           /\ r \in DOMAIN sessions' => \/ call'[r].kind = "login" /\ sessions'[r].family = r
                                       \/ /\ call'[r].kind = "refresh"
                                          /\ sessions'[r].parent = call'[r].token
           /\ call'[r].kind = "refresh" /\ result'[r] = "ok" => r \in DOMAIN sessions'
           /\ call'[r].kind = "login" => r \in DOMAIN sessions'
    PROVE  CallKinds'
<1>1. ASSUME NEW q \in Requests, q # r
      PROVE  /\ pc'[q] = pc[q] /\ call'[q] = call[q] /\ result'[q] = result[q]
             /\ q \in DOMAIN sessions' <=> q \in DOMAIN sessions
             /\ q \in DOMAIN sessions =>
                   sessions'[q].family = sessions[q].family /\ sessions'[q].parent = sessions[q].parent
    BY <1>1 DEF OtherCallsStay, RowsAge
<1>2. DOMAIN sessions \subseteq DOMAIN sessions' BY DEF RowsAge
<1>3. QED BY <1>1, <1>2 DEF CallKinds

LEMMA KindsStep ==
    ASSUME IInv, CallKinds, [Next]_vars
    PROVE  CallKinds' /\ RowsAge /\ CallsStay
<1>1. ASSUME UNCHANGED <<sessions, pc, call, result>> PROVE CallKinds' /\ RowsAge /\ CallsStay
    BY <1>1 DEF CallKinds, RowsAge, CallsStay, Live
<1>2. CASE UNCHANGED vars BY <1>1, <1>2 DEF vars
<1>3. ASSUME NEW s \in DOMAIN sessions, Expire(s) PROVE CallKinds' /\ RowsAge /\ CallsStay
    BY <1>3, ExpireMakes DEF CallKinds, RowsAge, CallsStay
<1>4. ASSUME NEW r \in Requests, NEW u \in Users,
             \E acknowledged \in BOOLEAN : Login(r, u, acknowledged)
      PROVE  CallKinds' /\ RowsAge /\ CallsStay
    <2>1. /\ RowsAge /\ OtherCallsStay(r) /\ pc[r] = "idle" /\ pc'[r] = "answered"
          /\ call'[r] = [kind |-> "login", token |-> None]
          /\ r \notin DOMAIN sessions /\ DOMAIN sessions' = DOMAIN sessions \cup {r}
          /\ sessions'[r].family = r
        BY <1>4, LoginMakes
    <2>2. CallKinds' BY <2>1, KindsStay
    <2>3. QED BY <2>1, <2>2 DEF CallsStay, OtherCallsStay
<1>5. ASSUME NEW r \in Requests, NEW s \in DOMAIN sessions, NEW kind \in {"refresh", "logout"},
             Looks(r, kind, s)
      PROVE  CallKinds' /\ RowsAge /\ CallsStay
    <2>1. RowsAge BY <1>5 DEF Looks, RowsAge, Live
    <2>2. r \notin DOMAIN sessions BY <1>5 DEF Looks, IInv, Stages
    <2>3. result[r] = "none" BY <1>5 DEF Looks, IInv, Stages
    <2>4. /\ OtherCallsStay(r) /\ sessions' = sessions
          /\ call'[r].kind = kind /\ call'[r].token = s
          /\ pc'[r] \in {"answered", "rotate", "reuse", "logout"}
          /\ pc'[r] \in {"rotate", "reuse"} => kind = "refresh"
          /\ pc'[r] = "logout" => kind = "logout"
          /\ result'[r] # "ok"
        BY <1>5, <2>3 DEF Looks
    <2>5. CallKinds' BY <2>1, <2>2, <2>4, KindsStay
    <2>6. QED BY <1>5, <2>1, <2>5 DEF CallsStay, Looks, OtherCallsStay
<1>6. ASSUME NEW r \in Requests, LookupUnknown(r) PROVE CallKinds' /\ RowsAge /\ CallsStay
    <2>1. /\ pc[r] = "idle" /\ pc'[r] = "answered" /\ result'[r] = "unauthorized"
          /\ OtherCallsStay(r) /\ sessions' = sessions /\ call' = call
        BY <1>6 DEF LookupUnknown, Answer, Goto, OtherCallsStay, IInv, CallsOK
    <2>2. RowsAge BY <2>1 DEF RowsAge, Live
    <2>3. r \notin DOMAIN sessions BY <2>1 DEF IInv, Stages
    <2>4. CallKinds' BY <2>1, <2>2, <2>3, KindsStay DEF CallKinds
    <2>5. QED BY <2>1, <2>2, <2>4 DEF CallsStay, OtherCallsStay
<1>7. ASSUME NEW r \in Requests, Step(r) \/ Fail(r) PROVE CallKinds' /\ RowsAge /\ CallsStay
    <2>1. r \notin DOMAIN sessions BY <1>7, StepMakes DEF IInv, Stages
    <2>2. pc[r] \in Labels \ {"idle", "answered"} BY <1>7, StepMakes DEF IInv, CallsOK
    <2>3. CallKinds'
        <3>1. CASE Works(r)
            <4>1. DOMAIN sessions' = DOMAIN sessions BY <3>1 DEF Works
            <4>2. QED BY <1>7, <2>1, <2>2, <3>1, <4>1, StepMakes, KindsStay
                      DEF Works, CallKinds, Labels
        <3>2. CASE Renews(r)
            BY <1>7, <2>1, <2>2, <3>2, StepMakes, KindsStay DEF Renews, CallKinds
        <3>3. CASE Revokes(r)
            BY <1>7, <2>1, <2>2, <3>3, StepMakes, KindsStay DEF Revokes, CallKinds
        <3>4. QED BY <1>7, <3>1, <3>2, <3>3, StepMakes
    <2>4. CallsStay
        BY <1>7, <2>2, StepMakes DEF CallsStay, OtherCallsStay, Works, Renews, Revokes
    <2>5. QED BY <1>7, <2>3, <2>4, StepMakes
<1>8. QED
    BY <1>2, <1>3, <1>4, <1>5, <1>6, <1>7, LookupMakes DEF Next, Start, Known

LEMMA KnownStays ==
    ASSUME IInv, RowsAge, CallsStay
    PROVE  Known \subseteq Known'
<1>1. \A s \in DOMAIN sessions : s \in Requests /\ pc[s] = "answered"
    BY DEF IInv, RowsOK, Stages
<1>2. QED BY <1>1 DEF Known, RowsAge, CallsStay

-----------------------------------------------------------------------------
(* The device. *)

Tokens == Requests \cup {None}

Asked ==
    [kind : {"none", "login", "private", "me", "logout", "revoke"},
     sent : Tokens, body : Tokens, call : Tokens, retried : BOOLEAN, overlapped : BOOLEAN]

Places ==
    {"idle", "boot", "sent", "served", "waiting", "reading", "refreshing", "done", "torn", "gone"}

DeviceOK ==
    /\ {accessToken, refreshToken} \subseteq Known \cup {None}
    /\ at \in [Ops -> Places] /\ op \in [Ops -> Asked]
    /\ faults \in Nat

LoggingIn(o) == at[o] = "sent" /\ op[o].kind = "login"

\* What an operation asks fits where it is: tokens were sent to the device, one
\* operation at a time has the refresh, and a logout that waits for it says so.
PlaceOK(o) ==
    /\ at[o] \in {"idle", "boot"} => op[o] = NoOp
    /\ {op[o].sent, op[o].body} \subseteq Known \cup {None}
    /\ LoggingIn(o) => op[o].call \in Requests /\ call[op[o].call].kind = "login"
    /\ at[o] \in {"served", "waiting", "reading", "refreshing"} => op[o].kind # "login"
    /\ at[o] \in {"reading", "refreshing"} => refreshPromise = o
    /\ at[o] = "refreshing" => op[o].call \in Requests /\ call[op[o].call].kind = "refresh"
    /\ at[o] = "served" => op[o].kind \in {"logout", "revoke"} /\ op[o].call \in Requests
    /\ op[o].kind \in {"logout", "revoke"} =>
          op[o].body # None \/ (at[o] = "done" /\ op[o].call = None)
    /\ at[o] \in {"waiting", "reading", "refreshing"} /\ op[o].kind = "logout" =>
          op[o].overlapped

PlacesOK == \A o \in Ops : PlaceOK(o)

LEMMA NoOpIs ==
    /\ NoOp \in Asked
    /\ NoOp.kind = "none" /\ NoOp.sent = None /\ NoOp.body = None /\ NoOp.call = None
    /\ NoOp.retried = FALSE /\ NoOp.overlapped = FALSE
BY DEF NoOp, Asked, Tokens

LEMMA DeviceInit == ClientInit => DeviceOK /\ PlacesOK
<1> SUFFICES ASSUME ClientInit PROVE DeviceOK /\ PlacesOK OBVIOUS
<1>1. DeviceOK BY NoOpIs DEF ClientInit, DeviceOK, Places
<1>2. PlacesOK BY NoOpIs DEF ClientInit, PlacesOK, PlaceOK, LoggingIn
<1>3. QED BY <1>1, <1>2

\* The other calls of the device stay as they are, but that a logout under way
\* meets a refresh.
Same(p) ==
    /\ at'[p] = at[p]
    /\ op'[p] = op[p] \/ (/\ op'[p] = [op[p] EXCEPT !.overlapped = TRUE]
                          /\ op[p].kind = "logout" /\ at[p] \notin Ended)

LEMMA SameFields ==
    ASSUME DeviceOK, NEW p \in Ops, Same(p)
    PROVE  /\ op'[p] \in Asked
           /\ op'[p].kind = op[p].kind /\ op'[p].sent = op[p].sent /\ op'[p].body = op[p].body
           /\ op'[p].call = op[p].call /\ op'[p].retried = op[p].retried
           /\ op[p].overlapped => op'[p].overlapped
           /\ ~op'[p].overlapped \/ at[p] \in Ended => op'[p] = op[p]
BY DEF DeviceOK, Same, Asked

\* Calls that lead to a session have been answered, and those at work with a
\* session have begun.
LEMMA CallsBegun ==
    ASSUME IInv, CallKinds, CallsStay, NEW q \in Requests, call[q].kind \in {"login", "refresh", "logout"}
    PROVE  pc[q] # "idle" /\ call'[q] = call[q]
<1>1. pc[q] # "idle"
    BY NoneAssumption DEF IInv, Stages, RowsOK, CallKinds
<1>2. QED BY <1>1 DEF CallsStay

LEMMA PlaceKept ==
    ASSUME IInv, CallKinds, CallsStay, DeviceOK, Known \subseteq Known', NEW p \in Ops, PlaceOK(p), Same(p),
           at[p] \in {"reading", "refreshing"} => refreshPromise' = refreshPromise
    PROVE  PlaceOK(p)'
<1>1. at'[p] = at[p] BY DEF Same
<1>2. LoggingIn(p)' <=> LoggingIn(p) BY <1>1, SameFields DEF LoggingIn
<1>3. LoggingIn(p) => call'[op[p].call] = call[op[p].call] BY CallsBegun DEF PlaceOK
<1>4. at[p] = "refreshing" => call'[op[p].call] = call[op[p].call] BY CallsBegun DEF PlaceOK
<1>5. at[p] \in {"idle", "boot"} => op'[p] = op[p] BY NoOpIs DEF Same, PlaceOK
<1>6. QED BY <1>1, <1>2, <1>3, <1>4, <1>5, SameFields DEF PlaceOK

Base == IInv /\ CallKinds /\ DeviceOK /\ PlacesOK

LEMMA KnownRows ==
    ASSUME IInv, NEW s \in Known
    PROVE  s \in DOMAIN sessions /\ s \in Requests /\ s # None /\ sessions[s].user \in Users
BY NoneAssumption DEF Known, IInv, RowsOK, Rows

\* Whatever the device does, it asks the server what Sessions lets a client ask.
LEMMA ClientAsks ==
    ASSUME Base, [ClientNext]_allVars
    PROVE  [Next]_vars
<1>1. CASE vars' = vars BY <1>1
<1>2. CASE UNCHANGED allVars BY <1>2 DEF allVars
<1>3. ASSUME NEW o \in Ops, NEW r \in Requests, NEW u \in Users, NEW acknowledged \in BOOLEAN,
             SignIn(o, r, u, acknowledged)
      PROVE  Next
    BY <1>3 DEF SignIn, Next, Start
<1>4. ASSUME NEW o \in Ops, NEW r \in Requests, LogoutArrives(o, r) PROVE Next
    <2>1. /\ LookupLogout(r, op[o].body, sessions[op[o].sent].user)
          /\ at[o] = "sent" /\ op[o].kind \in {"logout", "revoke"} /\ op[o].sent # None
        BY <1>4 DEF LogoutArrives, Admitted
    <2>2. op[o].body \in Known /\ op[o].sent \in Known
        BY <2>1 DEF Base, PlacesOK, PlaceOK
    <2>3. sessions[op[o].sent].user \in Users BY <2>2, KnownRows DEF Base
    <2>4. QED BY <2>1, <2>2, <2>3 DEF Next, Start
<1>5. ASSUME NEW o \in Ops, NEW r \in Requests, ReadToken(o, r) PROVE Next
    <2>1. (LookupRefresh(r, refreshToken) \/ Limited(r, refreshToken)) /\ refreshToken # None
        BY <1>5 DEF ReadToken
    <2>2. refreshToken \in Known BY <2>1 DEF Base, DeviceOK
    <2>3. QED BY <2>1, <2>2 DEF Next, Start
<1>6. ASSUME NEW r \in Requests, ServerStep(r) \/ ServerFails(r) PROVE Next
    BY <1>6 DEF ServerStep, ServerFails, Next
<1>7. ASSUME NEW s \in DOMAIN sessions, SessionExpires(s) PROVE Next
    BY <1>7 DEF SessionExpires, Next
<1>8. QED
    BY <1>1, <1>2, <1>3, <1>4, <1>5, <1>6, <1>7
    DEF ClientNext, Begin, Continue, Request, SignOut, Restart, Bootstrap, Denied, Answered,
        SignedIn, SignedOut, NetworkFails, Refreshed, RefreshRefused, RefreshLost, Age

\* What the server's part of a step gives.
LEMMA BaseStep ==
    ASSUME Base, [ClientNext]_allVars
    PROVE  IInv' /\ CallKinds' /\ RowsAge /\ CallsStay /\ Known \subseteq Known'
<1>1. [Next]_vars BY ClientAsks
<1>2. IInv' BY <1>1, NextInv DEF Base
<1>3. CallKinds' /\ RowsAge /\ CallsStay BY <1>1, KindsStep DEF Base
<1>4. QED BY <1>2, <1>3, KnownStays DEF Base

OthersSame(o) == \A p \in Ops : p # o => Same(p)

\* One operation moves on.
LEMMA PlaceMoves ==
    ASSUME Base, CallsStay, Known \subseteq Known', NEW o \in Ops, OthersSame(o),
           at' = [p \in Ops |-> at'[p]], op' = [p \in Ops |-> op'[p]],
           at'[o] \in Places, op'[o] \in Asked, PlaceOK(o)',
           \A p \in Ops : p # o /\ at[p] \in {"reading", "refreshing"} => refreshPromise' = refreshPromise
    PROVE  at' \in [Ops -> Places] /\ op' \in [Ops -> Asked] /\ PlacesOK'
<1>1. ASSUME NEW p \in Ops, p # o PROVE PlaceOK(p)' /\ at'[p] \in Places /\ op'[p] \in Asked
    <2>1. Same(p) BY <1>1 DEF OthersSame
    <2>2. PlaceOK(p)' BY <1>1, <2>1, PlaceKept DEF Base, PlacesOK
    <2>3. at'[p] \in Places BY <2>1 DEF Same, Base, DeviceOK
    <2>4. QED BY <2>1, <2>2, <2>3, SameFields DEF Base
<1>2. QED BY <1>1 DEF PlacesOK

\* An operation that moves on alone, to a place and with a request of its own.
Alone(o, place, request) ==
    /\ at'[o] = place /\ op'[o] = request
    /\ OthersSame(o)
    /\ at' = [p \in Ops |-> at'[p]] /\ op' = [p \in Ops |-> op'[p]]

LEMMA MovesAlone ==
    ASSUME DeviceOK, NEW o \in Ops, NEW place, at' = [at EXCEPT ![o] = place]
    PROVE  /\ op' = op => Alone(o, place, op[o])
           /\ \A request : op' = [op EXCEPT ![o] = request] => Alone(o, place, request)
           /\ \A r : op' = [op EXCEPT ![o].call = r] => Alone(o, place, [op[o] EXCEPT !.call = r])
<1>1. DOMAIN at = Ops /\ DOMAIN op = Ops /\ at = [p \in Ops |-> at[p]] /\ op = [p \in Ops |-> op[p]]
    BY DEF DeviceOK
<1>2. CASE op' = op BY <1>1, <1>2 DEF Alone, OthersSame, Same
<1>3. ASSUME NEW request, op' = [op EXCEPT ![o] = request] PROVE Alone(o, place, request)
    BY <1>1, <1>3 DEF Alone, OthersSame, Same
<1>4. ASSUME NEW r, op' = [op EXCEPT ![o].call = r]
      PROVE  Alone(o, place, [op[o] EXCEPT !.call = r])
    BY <1>1, <1>4 DEF Alone, OthersSame, Same
<1>5. QED BY <1>2, <1>3, <1>4

\* It keeps its place with what it asks now.
LEMMA PlacesAlone ==
    ASSUME Base, CallsStay, Known \subseteq Known', NEW o \in Ops, NEW place \in Places,
           NEW request \in Asked, Alone(o, place, request), PlaceOK(o)',
           \/ refreshPromise' = refreshPromise
           \/ \A p \in Ops : p # o => at[p] \notin {"reading", "refreshing"}
    PROVE  at' \in [Ops -> Places] /\ op' \in [Ops -> Asked] /\ PlacesOK'
BY PlaceMoves DEF Alone

LEMMA AsksPlace ==
    ASSUME Base, CallsStay, Known \subseteq Known', NEW o \in Ops, NEW request \in Asked,
           Alone(o, "sent", request), refreshPromise' = refreshPromise,
           {request.sent, request.body} \subseteq Known' \cup {None},
           request.kind = "login" => request.call \in Requests /\ call'[request.call].kind = "login",
           request.kind \in {"logout", "revoke"} => request.body # None
    PROVE  at' \in [Ops -> Places] /\ op' \in [Ops -> Asked] /\ PlacesOK'
<1>1. PlaceOK(o)' BY DEF Alone, PlaceOK, LoggingIn
<1>2. QED BY <1>1, PlacesAlone DEF Places

LEMMA DonePlace ==
    ASSUME Base, CallsStay, Known \subseteq Known', NEW o \in Ops,
           at' = [at EXCEPT ![o] = "done"], op' = op, refreshPromise' = refreshPromise,
           at[o] \in {"sent", "served", "boot"}
    PROVE  at' \in [Ops -> Places] /\ op' \in [Ops -> Asked] /\ PlacesOK'
<1>1. Alone(o, "done", op[o]) BY MovesAlone DEF Base
<1>2. op[o] \in Asked /\ PlaceOK(o) BY DEF Base, DeviceOK, PlacesOK
<1>3. PlaceOK(o)' BY <1>1, <1>2, NoOpIs DEF Alone, PlaceOK, LoggingIn
<1>4. QED BY <1>1, <1>2, <1>3, PlacesAlone DEF Places

LEMMA JoinPlace ==
    ASSUME Base, CallsStay, Known \subseteq Known', NEW o \in Ops,
           JoinRefresh(o), at[o] \in {"sent", "served"}, op[o].kind # "login"
    PROVE  at' \in [Ops -> Places] /\ op' \in [Ops -> Asked] /\ PlacesOK'
<1>1. DOMAIN at = Ops /\ op[o] \in Asked /\ PlaceOK(o)
    BY DEF Base, DeviceOK, PlacesOK
<1>2. /\ at' = [at EXCEPT ![o] = IF refreshPromise = None THEN "reading" ELSE "waiting"]
      /\ op' = [p \in Ops |-> IF p \in Running /\ op[p].kind = "logout"
                              THEN [op[p] EXCEPT !.overlapped = TRUE] ELSE op[p]]
      /\ refreshPromise' = IF refreshPromise = None THEN o ELSE refreshPromise
    BY DEF JoinRefresh, MoveTo
<1>3. OthersSame(o) BY <1>1, <1>2 DEF OthersSame, Same, Running
<1>4. /\ at'[o] \in {"reading", "waiting"}
      /\ at'[o] = "reading" => refreshPromise' = o
      /\ op'[o] \in Asked /\ op'[o].kind = op[o].kind /\ op'[o].sent = op[o].sent
      /\ op'[o].body = op[o].body
      /\ op[o].kind = "logout" => op'[o].overlapped
    BY <1>1, <1>2 DEF Asked, Running, Ended
<1>5. PlaceOK(o)' BY <1>1, <1>4 DEF PlaceOK, LoggingIn
<1>6. ASSUME NEW p \in Ops, at[p] \in {"reading", "refreshing"} PROVE refreshPromise' = refreshPromise
    <2>1. refreshPromise = p BY <1>6 DEF Base, PlacesOK, PlaceOK
    <2>2. QED BY <1>2, <2>1, OperationsAssumption
<1>7. at' = [p \in Ops |-> at'[p]] /\ op' = [p \in Ops |-> op'[p]] BY <1>1, <1>2
<1>8. QED BY <1>3, <1>4, <1>5, <1>6, <1>7, PlaceMoves DEF Places

LEMMA TearPlace ==
    ASSUME Base, CallsStay, Known \subseteq Known', NEW failed, TearDown(failed), op' = op,
           \A p \in failed : p \in Ops /\ at[p] \notin Ended
    PROVE  at' \in [Ops -> Places] /\ op' \in [Ops -> Asked] /\ PlacesOK'
<1>1. /\ at' = [p \in Ops |-> IF p \in failed THEN "torn" ELSE at[p]]
      /\ refreshPromise' = IF refreshPromise \in failed THEN None ELSE refreshPromise
    BY DEF TearDown
<1>2. ASSUME NEW p \in Ops PROVE PlaceOK(p)' /\ at'[p] \in Places
    <2>1. PlaceOK(p) /\ at[p] \in Places BY DEF Base, DeviceOK, PlacesOK
    <2>2. CASE p \in failed
        <3>1. at'[p] = "torn" /\ at[p] # "done" BY <1>1, <2>2 DEF Ended
        <3>2. QED BY <2>1, <3>1 DEF PlaceOK, LoggingIn, Places
    <2>3. CASE p \notin failed
        <3>1. Same(p) BY <1>1, <2>3 DEF Same
        <3>2. at[p] \in {"reading", "refreshing"} => refreshPromise' = refreshPromise
            BY <1>1, <2>1, <2>3 DEF PlaceOK
        <3>3. QED BY <2>1, <3>1, <3>2, PlaceKept DEF Base, Same
    <2>4. QED BY <2>2, <2>3
<1>3. QED BY <1>1, <1>2 DEF PlacesOK, Base, DeviceOK

LEMMA ResendPlace ==
    ASSUME Base, CallsStay, Known \subseteq Known', IInv', NEW o \in Ops, NEW r \in Known',
           Resend(Waiters(o), r), at[o] = "refreshing"
    PROVE  at' \in [Ops -> Places] /\ op' \in [Ops -> Asked] /\ PlacesOK'
<1>1. /\ at' = [p \in Ops |-> IF p \in Waiters(o) THEN "sent" ELSE at[p]]
      /\ op' = [p \in Ops |->
                 IF p \in Waiters(o)
                 THEN [op[p] EXCEPT !.sent = r, !.retried = TRUE, !.call = None]
                 ELSE op[p]]
    BY DEF Resend
<1>2. r \in Requests BY DEF Known, IInv, RowsOK
<1>3. ASSUME NEW p \in Ops PROVE PlaceOK(p)' /\ at'[p] \in Places /\ op'[p] \in Asked
    <2>1. PlaceOK(p) /\ PlaceOK(o) /\ at[p] \in Places /\ op[p] \in Asked
        BY DEF Base, DeviceOK, PlacesOK
    <2>2. CASE p \in Waiters(o)
        <3>1. at'[p] = "sent" /\ at[p] \in {"refreshing", "waiting"}
            BY <1>1, <2>2 DEF Waiters
        <3>2. /\ op'[p] \in Asked /\ op'[p].kind = op[p].kind /\ op'[p].sent = r
              /\ op'[p].body = op[p].body /\ op'[p].call = None
            BY <1>1, <1>2, <2>1, <2>2 DEF Asked, Tokens
        <3>3. QED BY <2>1, <3>1, <3>2 DEF PlaceOK, LoggingIn, Places
    <2>3. CASE p \notin Waiters(o)
        <3>1. Same(p) BY <1>1, <2>3 DEF Same
        <3>2. at[p] \notin {"reading", "refreshing"} BY <2>1, <2>3 DEF PlaceOK, Waiters
        <3>3. QED BY <1>1, <2>1, <2>3, <3>1, <3>2, PlaceKept DEF Base, Same
    <2>4. QED BY <2>2, <2>3
<1>4. QED BY <1>1, <1>3 DEF PlacesOK

LEMMA RestartPlace ==
    ASSUME Base, CallsStay, Known \subseteq Known', NEW o \in Ops, Restart(o)
    PROVE  at' \in [Ops -> Places] /\ op' \in [Ops -> Asked] /\ PlacesOK'
<1>1. /\ at' = [p \in Ops |-> IF p = o THEN "boot" ELSE IF p \in Running THEN "gone" ELSE at[p]]
      /\ op' = op /\ at[o] = "idle"
    BY DEF Restart, FreshOp
<1>2. ASSUME NEW p \in Ops PROVE PlaceOK(p)' /\ at'[p] \in Places
    <2>1. PlaceOK(p) /\ at[p] \in Places BY DEF Base, DeviceOK, PlacesOK
    <2>2. CASE p = o BY <1>1, <2>1, <2>2, NoOpIs DEF PlaceOK, LoggingIn, Places
    <2>3. CASE p # o /\ p \in Running
        <3>1. at'[p] = "gone" /\ at[p] # "done" BY <1>1, <2>3 DEF Running, Ended
        <3>2. QED BY <1>1, <2>1, <3>1 DEF PlaceOK, LoggingIn, Places
    <2>4. CASE p # o /\ p \notin Running
        <3>1. Same(p) /\ at[p] \in Ended BY <1>1, <2>4 DEF Same, Running
        <3>2. QED BY <2>1, <3>1, PlaceKept DEF Base, Same, Ended
    <2>5. QED BY <2>2, <2>3, <2>4
<1>3. QED BY <1>1, <1>2 DEF PlacesOK, Base, DeviceOK

LEMMA ActsPlaces ==
    ASSUME Base, [ClientNext]_allVars, NEW o \in Ops, Begin(o) \/ Continue(o) \/ NetworkFails(o) \/ RefreshLost(o)
    PROVE  at' \in [Ops -> Places] /\ op' \in [Ops -> Asked] /\ PlacesOK'
<1> DEFINE Goal == at' \in [Ops -> Places] /\ op' \in [Ops -> Asked] /\ PlacesOK'
<1> HIDE DEF Goal
<1> USE DEF MoveTo
<1>1. IInv' /\ CallKinds' /\ RowsAge /\ CallsStay /\ Known \subseteq Known' BY BaseStep
<1>2. DeviceOK /\ PlaceOK(o) /\ op[o] \in Asked BY DEF Base, PlacesOK, DeviceOK
<1>3. {None, accessToken, refreshToken} \subseteq Known \cup {None} /\ Known \subseteq Requests
    BY KnownRows DEF Base, DeviceOK
<1>4. ASSUME NEW r \in Requests, NEW u \in Users, NEW acknowledged \in BOOLEAN,
             SignIn(o, r, u, acknowledged)
      PROVE  Goal
    <2> DEFINE request == [NoOp EXCEPT !.kind = "login", !.call = r]
    <2>1. request \in Asked /\ request.kind = "login" /\ request.call = r
          /\ request.sent = None /\ request.body = None
        BY DEF NoOp, Asked, Tokens
    <2>2. call'[r].kind = "login"
        <3>1. Login(r, u, acknowledged) BY <1>4 DEF SignIn
        <3>2. QED BY <3>1 DEF Login, Asks, Base, IInv, CallsOK
    <2>3. Alone(o, "sent", request) /\ refreshPromise' = refreshPromise
        BY <1>2, <1>4, MovesAlone DEF SignIn, Ask
    <2> HIDE DEF request
    <2>4. QED BY <1>1, <2>1, <2>2, <2>3, AsksPlace DEF Goal
<1>5. CASE Request(o)
    <2> DEFINE request == [NoOp EXCEPT !.kind = "private", !.sent = accessToken]
    <2>1. request \in Asked /\ request.kind = "private" /\ request.sent = accessToken
          /\ request.body = None
        BY <1>3 DEF NoOp, Asked, Tokens
    <2>2. Alone(o, "sent", request) /\ refreshPromise' = refreshPromise
        BY <1>2, <1>5, MovesAlone DEF Request, Ask
    <2> HIDE DEF request
    <2>3. QED BY <1>1, <1>3, <2>1, <2>2, AsksPlace DEF Goal
<1>6. CASE SignOut(o)
    <2> DEFINE request == [NoOp EXCEPT !.kind = "logout", !.sent = accessToken,
                              !.body = refreshToken, !.overlapped = Waiting # {} \/ faults # 0]
    <2>1. request \in Asked /\ request.kind = "logout" /\ request.sent = accessToken
          /\ request.body = refreshToken /\ request.call = None
        BY <1>3 DEF NoOp, Asked, Tokens
    <2>2. refreshPromise' = refreshPromise BY <1>6 DEF SignOut
    <2>3. CASE refreshToken = None
        <3>1. Alone(o, "done", request) BY <1>2, <1>6, <2>3, MovesAlone DEF SignOut
        <3> HIDE DEF request
        <3>2. PlaceOK(o)' BY <1>1, <1>3, <2>1, <3>1 DEF Alone, PlaceOK, LoggingIn
        <3>3. QED BY <1>1, <2>1, <2>2, <3>1, <3>2, PlacesAlone DEF Goal, Places
    <2>4. CASE refreshToken # None
        <3>1. Alone(o, "sent", request) BY <1>2, <1>6, <2>4, MovesAlone DEF SignOut, Ask
        <3> HIDE DEF request
        <3>2. QED BY <1>1, <1>3, <2>1, <2>2, <2>4, <3>1, AsksPlace DEF Goal
    <2>5. QED BY <2>3, <2>4
<1>7. CASE Restart(o) BY <1>1, <1>7, RestartPlace DEF Goal
<1>8. CASE Bootstrap(o)
    <2> DEFINE request == [NoOp EXCEPT !.kind = "me", !.sent = accessToken]
    <2>1. request \in Asked /\ request.kind = "me" /\ request.sent = accessToken
          /\ request.body = None
        BY <1>3 DEF NoOp, Asked, Tokens
    <2>2. CASE refreshToken = None
        BY <1>1, <1>8, <2>2, DonePlace DEF Bootstrap, Goal
    <2>3. CASE refreshToken # None
        <3>1. Alone(o, "sent", request) /\ refreshPromise' = refreshPromise
            BY <1>2, <1>8, <2>3, MovesAlone DEF Bootstrap, Ask
        <3> HIDE DEF request
        <3>2. QED BY <1>1, <1>3, <2>1, <3>1, AsksPlace DEF Goal
    <2>4. QED BY <2>2, <2>3
<1>9. ASSUME Unauthorized(o), at[o] \in {"sent", "served"}, op[o].kind # "login" PROVE Goal
    <2>1. CASE op[o].retried
        BY <1>1, <1>9, <2>1, TearPlace DEF Unauthorized, Goal, Ended
    <2>2. CASE ~op[o].retried
        BY <1>1, <1>9, <2>2, JoinPlace DEF Unauthorized, Goal
    <2>3. QED BY <2>1, <2>2
<1>10. CASE Denied(o)
    <2>1. Unauthorized(o) /\ at[o] = "sent" /\ op[o].kind # "login" BY <1>10, Zenon DEF Denied
    <2>2. QED BY <1>9, <2>1 DEF Goal
<1>11. CASE Answered(o) BY <1>1, <1>11, DonePlace DEF Answered, Goal
<1>12. CASE SignedIn(o)
    <2> DEFINE r == op[o].call
               request == [NoOp EXCEPT !.kind = "revoke", !.sent = accessToken, !.body = r]
    <2>1. /\ at[o] = "sent" /\ op[o].kind = "login" /\ refreshPromise' = refreshPromise
          /\ \/ at' = [at EXCEPT ![o] = "done"] /\ op' = op
             \/ /\ at' = [at EXCEPT ![o] = "sent"] /\ op' = [op EXCEPT ![o] = request]
                /\ result[r] = "ok"
        BY <1>12 DEF SignedIn, Ask
    <2>2. CASE at' = [at EXCEPT ![o] = "done"] /\ op' = op
        BY <1>1, <2>1, <2>2, DonePlace DEF Goal
    <2>3. CASE /\ at' = [at EXCEPT ![o] = "sent"] /\ op' = [op EXCEPT ![o] = request]
               /\ result[r] = "ok"
        <3>1. r \in Requests /\ call[r].kind = "login"
            BY <1>2, <2>1 DEF PlaceOK, LoggingIn
        <3>2. r \in Known BY <2>3, <3>1 DEF Known, Base, CallKinds
        <3>3. r # None BY <3>1, NoneAssumption
        <3>4. Alone(o, "sent", request) BY <1>2, <2>3, MovesAlone
        <3> HIDE DEF r
        <3>5. request \in Asked /\ request.kind = "revoke" /\ request.sent = accessToken
              /\ request.body = r
            BY <1>3, <3>1 DEF NoOp, Asked, Tokens
        <3> HIDE DEF request
        <3>6. QED BY <1>1, <1>3, <2>1, <3>2, <3>3, <3>4, <3>5, AsksPlace DEF Goal
    <2>4. QED BY <2>1, <2>2, <2>3
<1>13. ASSUME NEW r \in Requests, NEW place,
              \/ place = "served" /\ LogoutArrives(o, r)
              \/ place = "refreshing" /\ ReadToken(o, r)
       PROVE  Goal
    <2> DEFINE request == [op[o] EXCEPT !.call = r]
    <2>1. /\ request \in Asked /\ request.call = r /\ request.kind = op[o].kind
          /\ request.sent = op[o].sent /\ request.body = op[o].body
          /\ request.overlapped = op[o].overlapped
        BY <1>2 DEF Asked, Tokens
    <2>2. Alone(o, place, request) /\ refreshPromise' = refreshPromise
        BY <1>2, <1>13, MovesAlone DEF LogoutArrives, ReadToken
    <2> HIDE DEF request
    <2>3. place = "refreshing" => call'[r].kind = "refresh"
        BY <1>13 DEF ReadToken, LookupRefresh, Limited, Asks, Base, IInv, CallsOK
    <2>4. CASE place = "served"
        <3>1. at[o] = "sent" /\ op[o].kind \in {"logout", "revoke"}
            BY <1>13, <2>4 DEF LogoutArrives
        <3>2. PlaceOK(o)' BY <1>1, <1>2, <2>1, <2>2, <2>4, <3>1 DEF Alone, PlaceOK, LoggingIn
        <3>3. QED BY <1>1, <2>1, <2>2, <2>4, <3>2, PlacesAlone DEF Goal, Places
    <2>5. CASE place = "refreshing"
        <3>1. at[o] = "reading" BY <1>13, <2>5 DEF ReadToken
        <3>2. PlaceOK(o)'
            BY <1>1, <1>2, <2>1, <2>2, <2>3, <2>5, <3>1 DEF Alone, PlaceOK, LoggingIn
        <3>3. QED BY <1>1, <2>1, <2>2, <2>5, <3>2, PlacesAlone DEF Goal, Places
    <2>6. QED BY <1>13, <2>4, <2>5
<1>14. CASE SignedOut(o)
    <2>1. CASE result[op[o].call] = "unauthorized"
        <3>1. Unauthorized(o) /\ at[o] = "served" BY <1>14, <2>1, Zenon DEF SignedOut
        <3>2. QED BY <1>2, <1>9, <3>1 DEF PlaceOK, Goal
    <2>2. CASE result[op[o].call] # "unauthorized"
        BY <1>1, <1>14, <2>2, DonePlace DEF SignedOut, Goal
    <2>3. QED BY <2>1, <2>2
<1>15. CASE NetworkFails(o) BY <1>1, <1>15, DonePlace DEF NetworkFails, Goal
<1>16. CASE Refreshed(o)
    <2>1. /\ at[o] = "refreshing" /\ result[op[o].call] = "ok"
          /\ Resend(Waiters(o), op[o].call)
        BY <1>16 DEF Refreshed
    <2>2. op[o].call \in Known
        BY <1>2, <2>1 DEF PlaceOK, Known, Base, CallKinds
    <2>3. QED BY <1>1, <2>1, <2>2, ResendPlace DEF Goal
<1>17. CASE RefreshRefused(o) \/ RefreshLost(o)
    <2>1. /\ at[o] \in {"reading", "refreshing"} /\ TearDown(Waiters(o)) /\ op' = op
        BY <1>17 DEF RefreshRefused, RefreshLost
    <2>2. \A p \in Waiters(o) : p \in Ops /\ at[p] \notin Ended
        BY <2>1 DEF Waiters, Ended
    <2>3. QED BY <1>1, <2>1, <2>2, TearPlace DEF Goal
<1>18. QED
    BY <1>4, <1>5, <1>6, <1>7, <1>8, <1>10, <1>11, <1>12, <1>13, <1>14, <1>15, <1>16, <1>17
    DEF Begin, Continue, Goal

\* The tokens of a device are those it had, those of a login or a refresh, or none.
LEMMA TokensMove ==
    ASSUME Base, [ClientNext]_allVars
    PROVE  /\ {accessToken', refreshToken'} \subseteq Known' \cup {None}
           /\ faults' \in {faults, faults + 1}
<1> USE DEF KeepTokens, ClearSession, TearDown, JoinRefresh, Unauthorized, Fault
<1>1. Known \subseteq Known' BY BaseStep
<1>2. {accessToken, refreshToken} \subseteq Known \cup {None} BY DEF Base, DeviceOK
<1>3. ASSUME NEW o \in Ops, Refreshed(o)
      PROVE  accessToken' \in Known /\ refreshToken' \in Known /\ faults' = faults
    <2>1. at[o] = "refreshing" /\ result[op[o].call] = "ok" BY <1>3 DEF Refreshed
    <2>2. op[o].call \in Known
        BY <2>1 DEF PlaceOK, PlacesOK, Known, Base, CallKinds
    <2>3. QED BY <1>3, <2>2 DEF Refreshed
<1>4. ASSUME NEW o \in Ops, SignedIn(o)
      PROVE  {accessToken', refreshToken'} \subseteq Known \cup {None} /\ faults' = faults
    <2>1. CASE KeepTokens BY <1>2, <1>4, <2>1 DEF SignedIn
    <2>2. CASE ~KeepTokens
        <3>1. /\ LoggingIn(o) /\ result[op[o].call] = "ok" /\ faults' = faults
              /\ accessToken' = op[o].call /\ refreshToken' = op[o].call
            BY <1>4, <2>2 DEF SignedIn, LoggingIn
        <3>2. op[o].call \in Known
            BY <3>1 DEF PlaceOK, PlacesOK, Known, Base, CallKinds
        <3>3. QED BY <3>1, <3>2
    <2>3. QED BY <2>1, <2>2
<1>5. ASSUME NEW o \in Ops, Begin(o)
      PROVE  {accessToken', refreshToken'} \subseteq Known \cup {None} /\ faults' \in {faults, faults + 1}
    BY <1>2, <1>5 DEF Begin, SignIn, Request, SignOut, Restart
<1>6. ASSUME NEW o \in Ops, Continue(o) \/ NetworkFails(o) \/ RefreshLost(o)
      PROVE  {accessToken', refreshToken'} \subseteq Known \cup {None} /\ faults' \in {faults, faults + 1}
    <2>1. CASE Bootstrap(o) BY <1>2, <2>1 DEF Bootstrap
    <2>2. CASE Denied(o) BY <1>2, <2>2 DEF Denied
    <2>3. CASE Answered(o) BY <1>2, <2>3 DEF Answered
    <2>4. CASE SignedIn(o) BY <1>4, <2>4
    <2>5. CASE SignedOut(o) BY <1>2, <2>5 DEF SignedOut
    <2>6. CASE \E r \in Requests : LogoutArrives(o, r) \/ ReadToken(o, r)
        BY <1>2, <2>6 DEF LogoutArrives, ReadToken
    <2>7. CASE Refreshed(o) BY <1>3, <2>7
    <2>8. CASE RefreshRefused(o) BY <1>2, <2>8 DEF RefreshRefused
    <2>9. CASE NetworkFails(o) BY <1>2, <2>9 DEF NetworkFails
    <2>10. CASE RefreshLost(o) BY <1>2, <2>10 DEF RefreshLost
    <2>11. QED BY <1>6, <2>1, <2>2, <2>3, <2>4, <2>5, <2>6, <2>7, <2>8, <2>9, <2>10 DEF Continue
<1>7. CASE \/ \E r \in Requests : ServerStep(r) \/ ServerFails(r)
           \/ \E s \in DOMAIN sessions : SessionExpires(s) \/ Age(s)
    BY <1>1, <1>2, <1>7 DEF ServerStep, ServerFails, SessionExpires, Age
<1>8. CASE UNCHANGED allVars BY <1>1, <1>2, <1>8 DEF allVars, clientVars
<1>9. QED BY <1>1, <1>5, <1>6, <1>7, <1>8 DEF ClientNext

\* The server's own steps, and time, leave the operations alone.
Outside ==
    \/ \E r \in Requests : ServerStep(r) \/ ServerFails(r)
    \/ \E s \in DOMAIN sessions : SessionExpires(s) \/ Age(s)
    \/ UNCHANGED allVars

LEMMA OutsideKeeps ==
    ASSUME Outside
    PROVE  UNCHANGED <<app, status, user, accessToken, refreshToken, refreshPromise, at, op>>
BY DEF Outside, ServerStep, ServerFails, SessionExpires, Age, KeepTokens, allVars, clientVars

LEMMA ClientCases ==
    ASSUME [ClientNext]_allVars
    PROVE  \/ \E o \in Ops : Begin(o) \/ Continue(o) \/ NetworkFails(o) \/ RefreshLost(o)
           \/ Outside
BY DEF ClientNext, Outside

LEMMA DeviceStep ==
    ASSUME Base, [ClientNext]_allVars
    PROVE  Base'
<1>1. IInv' /\ CallKinds' /\ RowsAge /\ CallsStay /\ Known \subseteq Known' BY BaseStep
<1>2. at' \in [Ops -> Places] /\ op' \in [Ops -> Asked] /\ PlacesOK'
    <2>1. ASSUME NEW o \in Ops, Begin(o) \/ Continue(o) \/ NetworkFails(o) \/ RefreshLost(o)
          PROVE  at' \in [Ops -> Places] /\ op' \in [Ops -> Asked] /\ PlacesOK'
        BY <2>1, ActsPlaces
    <2>2. CASE Outside
        <3>1. UNCHANGED <<at, op, refreshPromise>> BY <2>2, OutsideKeeps
        <3>2. \A p \in Ops : PlaceOK(p)'
            BY <1>1, <3>1, PlaceKept DEF Base, PlacesOK, Same
        <3>3. QED BY <3>1, <3>2 DEF PlacesOK, Base, DeviceOK
    <2>3. QED BY <2>1, <2>2, ClientCases
<1>3. DeviceOK' BY <1>2, TokensMove DEF Base, DeviceOK
<1>4. QED BY <1>1, <1>2, <1>3 DEF Base

LEMMA ClientParts == ClientSpec => ClientInit /\ [][ClientNext]_allVars
BY PTL DEF ClientSpec

LEMMA BaseAlways == ClientSpec => []Base
<1>1. ClientInit => Base BY InitInv, KindsInit, DeviceInit DEF ClientInit, Base
<1>2. Base /\ [ClientNext]_allVars => Base' BY DeviceStep
<1>3. QED BY <1>1, <1>2, ClientParts, PTL

\* The device is one of the clients that Sessions allows for, so all that holds of
\* Sessions holds under it (client.ts and the auth stores against auth/service.go).
THEOREM ClientUsesSessions == ClientSpec => Spec
<1>1. ClientInit => Init BY DEF ClientInit
<1>2. Base /\ [ClientNext]_allVars => [Next]_vars BY ClientAsks
<1>3. QED BY <1>1, <1>2, ClientParts, BaseAlways, PTL DEF Spec

-----------------------------------------------------------------------------
(* What a step may change. *)

\* A new row is that of a login or the successor of the row presented.
LEMMA RowsNext ==
    ASSUME IInv, CallKinds, [Next]_vars, NEW s \in DOMAIN sessions' \ DOMAIN sessions
    PROVE  /\ Valid(s)'
           /\ \/ sessions'[s].family = s
              \/ /\ pc[s] = "insert" /\ s \in Requests /\ call[s].token \in DOMAIN sessions
                 /\ sessions'[s].family = sessions[call[s].token].family
<1>1. ASSUME NEW r \in Requests, NEW u \in Users,
             \E acknowledged \in BOOLEAN : Login(r, u, acknowledged)
      PROVE  Valid(s)' /\ sessions'[s].family = s
    <2>1. /\ DOMAIN sessions' = DOMAIN sessions \cup {r}
          /\ sessions'[r].family = r /\ Valid(r)'
        BY <1>1, LoginMakes
    <2>2. s = r BY <2>1
    <2>3. QED BY <2>1, <2>2
<1>2. ASSUME NEW r \in Requests, Step(r) \/ Fail(r)
      PROVE  /\ Valid(s)' /\ pc[s] = "insert" /\ s \in Requests /\ call[s].token \in DOMAIN sessions
             /\ sessions'[s].family = sessions[call[s].token].family
    <2>1. Renews(r) BY <1>2, StepMakes DEF Works, Revokes
    <2>2. s = r BY <2>1 DEF Renews
    <2>3. QED BY <2>1, <2>2 DEF Renews, CallKinds
<1>3. DOMAIN sessions' = DOMAIN sessions
      \/ (\E r \in Requests : Step(r) \/ Fail(r))
      \/ (\E r \in Requests, u \in Users, acknowledged \in BOOLEAN : Login(r, u, acknowledged))
    BY DEF Next, Start, LookupUnknown, LookupRefresh, Limited, LookupLogout, Expire, vars
<1>4. QED BY <1>1, <1>2, <1>3

\* Only a login, a refresh and a logout of the device are new calls.
LEMMA CallsNext ==
    ASSUME Base, [ClientNext]_allVars, NEW q \in Requests,
           call'[q] # call[q] \/ (pc'[q] # pc[q] /\ pc[q] = "idle")
    PROVE  /\ pc[q] = "idle"
           /\ \/ call'[q].kind = "login" /\ pc'[q] = "answered" /\ sessions'[q].family = q
                    /\ q \in DOMAIN sessions'
              \/ \E o \in Ops : ReadToken(o, q) \/ LogoutArrives(o, q)
<1>1. ASSUME NEW r \in Requests, OtherCallsStay(r) PROVE q = r
    BY <1>1 DEF OtherCallsStay
<1>2. ASSUME NEW o \in Ops, NEW r \in Requests, NEW u \in Users,
             \E acknowledged \in BOOLEAN : SignIn(o, r, u, acknowledged)
      PROVE  /\ call'[q].kind = "login" /\ pc'[q] = "answered" /\ sessions'[q].family = q
             /\ q \in DOMAIN sessions' /\ pc[q] = "idle"
    <2>1. \E acknowledged \in BOOLEAN : Login(r, u, acknowledged) BY <1>2 DEF SignIn
    <2> IInv BY DEF Base
    <2>2. /\ OtherCallsStay(r) /\ pc[r] = "idle" /\ pc'[r] = "answered"
          /\ call'[r] = [kind |-> "login", token |-> None]
          /\ sessions'[r].family = r /\ DOMAIN sessions' = DOMAIN sessions \cup {r}
        BY <2>1, LoginMakes
    <2>3. QED BY <1>1, <2>2
<1>3. ASSUME NEW o \in Ops, NEW r \in Requests, ReadToken(o, r) PROVE pc[q] = "idle" /\ q = r
    <2>1. /\ pc[r] = "idle" /\ pc' = [pc EXCEPT ![r] = pc'[r]] /\ call' = [call EXCEPT ![r] = call'[r]]
        BY <1>3 DEF ReadToken, FreshCall, LookupRefresh, Limited, Asks, Goto, Answer, Base, IInv, CallsOK
    <2>2. QED BY <2>1 DEF Base, IInv, CallsOK
<1>4. ASSUME NEW o \in Ops, NEW r \in Requests, LogoutArrives(o, r) PROVE pc[q] = "idle" /\ q = r
    <2>1. /\ pc[r] = "idle" /\ pc' = [pc EXCEPT ![r] = pc'[r]] /\ call' = [call EXCEPT ![r] = call'[r]]
        BY <1>4 DEF LogoutArrives, FreshCall, LookupLogout, Asks, Goto, Answer, Base, IInv, CallsOK
    <2>2. QED BY <2>1 DEF Base, IInv, CallsOK
<1>5. ASSUME NEW r \in Requests, ServerStep(r) \/ ServerFails(r) PROVE FALSE
    <2>1. Step(r) \/ Fail(r) BY <1>5 DEF ServerStep, ServerFails
    <2>2. OtherCallsStay(r) /\ call' = call /\ pc[r] # "idle" BY <2>1, StepMakes DEF Base
    <2>3. QED BY <1>1, <2>2
<1>6. CASE UNCHANGED <<pc, call>> BY <1>6
<1>7. QED
    BY <1>2, <1>3, <1>4, <1>5, <1>6
    DEF ClientNext, Begin, Continue, Request, SignOut, Restart, Bootstrap, Denied, Answered,
        SignedIn, SignedOut, NetworkFails, Refreshed, RefreshRefused, RefreshLost, Age,
        SessionExpires, Expire, vars, allVars

\* The stored token stays, is dropped, or is that of a refresh or a login.
LEMMA StoredNext ==
    ASSUME Base, [ClientNext]_allVars, refreshToken' \notin {refreshToken, None}
    PROVE  /\ UNCHANGED vars /\ faults' = faults
           /\ accessToken' = refreshToken' /\ result[refreshToken'] = "ok"
           /\ \E o \in Ops : /\ refreshToken' = op[o].call
                             /\ \/ Refreshed(o) /\ at[o] = "refreshing"
                                \/ SignedIn(o) /\ LoggingIn(o) /\ at'[o] = "done"
<1> USE DEF KeepTokens, ClearSession, TearDown, JoinRefresh, Unauthorized
<1>1. ASSUME NEW o \in Ops, SignedIn(o)
      PROVE  /\ UNCHANGED vars /\ faults' = faults
             /\ accessToken' = refreshToken' /\ result[refreshToken'] = "ok"
             /\ refreshToken' = op[o].call /\ LoggingIn(o) /\ at'[o] = "done"
    BY <1>1 DEF SignedIn, LoggingIn, MoveTo, Base, DeviceOK
<1>2. ASSUME NEW o \in Ops, Refreshed(o)
      PROVE  /\ UNCHANGED vars /\ faults' = faults
             /\ accessToken' = refreshToken' /\ result[refreshToken'] = "ok"
             /\ refreshToken' = op[o].call /\ at[o] = "refreshing"
    BY <1>2 DEF Refreshed
<1>3. \E o \in Ops : SignedIn(o) \/ Refreshed(o)
    <2>1. CASE \E o \in Ops : Begin(o)
        BY <2>1 DEF Begin, SignIn, Request, SignOut, Restart
    <2>2. CASE \E o \in Ops : Continue(o)
        BY <2>2 DEF Continue, Bootstrap, Denied, Answered, SignedOut, LogoutArrives, ReadToken,
                    RefreshRefused
    <2>3. CASE \E o \in Ops : NetworkFails(o) \/ RefreshLost(o)
        BY <2>3 DEF NetworkFails, RefreshLost
    <2>4. CASE Outside BY <2>4, OutsideKeeps
    <2>5. QED BY <2>1, <2>2, <2>3, <2>4, ClientCases
<1>4. QED BY <1>1, <1>2, <1>3

-----------------------------------------------------------------------------
(* The life of an operation. *)

\* An operation starts: the application or a page asks, or bootstrap does.
Starts(p) ==
    /\ op[p] = NoOp
    /\ \/ at[p] = "idle" /\ at'[p] = "boot" /\ op'[p] = NoOp
       \/ /\ at[p] = "idle" /\ at'[p] = "sent" /\ op'[p].kind = "login" /\ op'[p].call \in Requests
          /\ \E u \in Users, acknowledged \in BOOLEAN : SignIn(p, op'[p].call, u, acknowledged)
       \/ at[p] = "idle" /\ at'[p] = "sent" /\ op'[p].kind = "private" /\ Request(p)
       \/ /\ at[p] = "idle" /\ op'[p].kind = "logout" /\ SignOut(p)
          /\ op'[p].body = refreshToken /\ op'[p].call = None
          /\ op'[p].overlapped = (Waiting # {} \/ faults # 0)
          /\ at'[p] = IF refreshToken = None THEN "done" ELSE "sent"
       \/ at[p] = "boot" /\ at'[p] = "done" /\ op'[p] = NoOp
       \/ at[p] = "boot" /\ at'[p] = "sent" /\ op'[p].kind = "me" /\ refreshToken # None

SameRequest(p) ==
    op'[p].kind = op[p].kind /\ op'[p].body = op[p].body /\ op'[p].retried = op[p].retried

\* It waits for a refresh, calls the server, or is sent again.
Proceeds(p) ==
    \/ /\ at[p] \in {"sent", "served"} /\ at'[p] \in {"reading", "waiting"} /\ SameRequest(p)
       /\ JoinRefresh(p) /\ op'[p].call = op[p].call
       /\ op[p].kind = "logout" => op'[p].overlapped
    \/ /\ at[p] = "sent" /\ at'[p] = "served" /\ SameRequest(p) /\ op'[p].overlapped = op[p].overlapped
       /\ op'[p].call \in Requests /\ LogoutArrives(p, op'[p].call)
    \/ /\ at[p] = "reading" /\ at'[p] = "refreshing" /\ SameRequest(p) /\ op'[p].overlapped = op[p].overlapped
       /\ op'[p].call \in Requests /\ ReadToken(p, op'[p].call)
    \/ /\ at[p] \in {"waiting", "refreshing"} /\ at'[p] = "sent" /\ op'[p].call = None
       /\ op'[p].kind = op[p].kind /\ op'[p].body = op[p].body /\ op'[p].overlapped = op[p].overlapped
       /\ \E o \in Ops : Refreshed(o)
    \/ /\ LoggingIn(p) /\ at'[p] = "sent" /\ SignedIn(p) /\ result[op[p].call] = "ok"
       /\ op'[p].kind = "revoke" /\ op'[p].body = op[p].call

\* It ends: done, sent to the login page, or gone with the process.
Ends(p) ==
    /\ op'[p] = op[p] /\ at[p] \notin Ended
    /\ \/ /\ at[p] \in {"sent", "served"} /\ at'[p] = "done"
          /\ op[p].kind = "logout" => refreshToken' = None
       \/ at'[p] = "torn" /\ op[p].retried /\ at[p] \in {"sent", "served"}
       \/ /\ at'[p] = "torn" /\ at[p] \in {"reading", "refreshing", "waiting"}
          /\ \E o \in Ops : (RefreshRefused(o) \/ RefreshLost(o)) /\ p \in Waiters(o)
       \/ at'[p] = "gone" /\ \E o \in Ops : Restart(o)

Lives(p) == Same(p) \/ Starts(p) \/ Proceeds(p) \/ Ends(p)

\* A 401 sends an operation to the login page or to the refresh.
LEMMA UnauthorizedLives ==
    ASSUME Base, NEW o \in Ops, Unauthorized(o), at[o] \in {"sent", "served"}, NEW p \in Ops
    PROVE  Lives(p)
<1>1. DOMAIN at = Ops /\ op \in [Ops -> Asked] BY DEF Base, DeviceOK
<1>2. CASE op[o].retried
    <2>1. /\ at' = [q \in Ops |-> IF q \in {o} THEN "torn" ELSE at[q]] /\ op' = op
        BY <1>2 DEF Unauthorized, TearDown
    <2>2. CASE p = o BY <1>2, <2>1, <2>2 DEF Lives, Ends, Ended
    <2>3. CASE p # o BY <2>1, <2>3 DEF Lives, Same
    <2>4. QED BY <2>2, <2>3
<1>3. CASE ~op[o].retried
    <2>1. JoinRefresh(o) BY <1>3 DEF Unauthorized
    <2>2. /\ at' = [at EXCEPT ![o] = IF refreshPromise = None THEN "reading" ELSE "waiting"]
          /\ op' = [q \in Ops |-> IF q \in Running /\ op[q].kind = "logout"
                                  THEN [op[q] EXCEPT !.overlapped = TRUE] ELSE op[q]]
        BY <2>1 DEF JoinRefresh, MoveTo
    <2>3. CASE p = o
        <3>1. op[o] \in Asked /\ o \in Running BY <1>1 DEF Running, Ended
        <3>2. at'[o] \in {"reading", "waiting"} BY <1>1, <2>2
        <3>3. SameRequest(o) /\ op'[o].call = op[o].call /\ (op[o].kind = "logout" => op'[o].overlapped)
            BY <2>2, <3>1 DEF SameRequest, Asked
        <3>4. QED BY <2>1, <2>3, <3>2, <3>3 DEF Lives, Proceeds
    <2>4. CASE p # o BY <1>1, <2>2, <2>4 DEF Lives, Same, Running
    <2>5. QED BY <2>3, <2>4
<1>4. QED BY <1>2, <1>3

\* The steps that move one operation.
LEMMA AloneLives ==
    ASSUME Base, NEW o \in Ops, NEW place, NEW request, Alone(o, place, request),
           Starts(o) \/ Proceeds(o) \/ Ends(o), NEW p \in Ops
    PROVE  Lives(p)
BY DEF Alone, OthersSame, Lives

LEMMA BeginLives ==
    ASSUME Base, NEW o \in Ops, Begin(o), NEW p \in Ops
    PROVE  Lives(p)
<1> USE DEF MoveTo, Ask
<1>1. DeviceOK /\ op[o] \in Asked /\ PlaceOK(o) BY DEF Base, DeviceOK, PlacesOK
<1>2. at[o] = "idle" /\ op[o] = NoOp
    BY <1>1 DEF Begin, SignIn, Request, SignOut, Restart, FreshOp, PlaceOK
<1>3. ASSUME NEW r \in Requests, NEW u \in Users, NEW acknowledged \in BOOLEAN,
             SignIn(o, r, u, acknowledged)
      PROVE  Lives(p)
    <2> DEFINE request == [NoOp EXCEPT !.kind = "login", !.call = r]
    <2>1. request.kind = "login" /\ request.call = r BY DEF NoOp
    <2>2. Alone(o, "sent", request) BY <1>1, <1>3, MovesAlone DEF SignIn
    <2> HIDE DEF request
    <2>3. Starts(o) BY <1>2, <1>3, <2>1, <2>2 DEF Starts, Alone
    <2>4. QED BY <2>2, <2>3, AloneLives
<1>4. CASE Request(o)
    <2> DEFINE request == [NoOp EXCEPT !.kind = "private", !.sent = accessToken]
    <2>1. request.kind = "private" BY DEF NoOp
    <2>2. Alone(o, "sent", request) BY <1>1, <1>4, MovesAlone DEF Request
    <2> HIDE DEF request
    <2>3. Starts(o) BY <1>2, <1>4, <2>1, <2>2 DEF Starts, Alone
    <2>4. QED BY <2>2, <2>3, AloneLives
<1>5. CASE SignOut(o)
    <2> DEFINE request == [NoOp EXCEPT !.kind = "logout", !.sent = accessToken,
                              !.body = refreshToken, !.overlapped = Waiting # {} \/ faults # 0]
    <2>1. /\ request.kind = "logout" /\ request.body = refreshToken /\ request.call = None
          /\ request.overlapped = (Waiting # {} \/ faults # 0)
        BY DEF NoOp
    <2>2. Alone(o, IF refreshToken = None THEN "done" ELSE "sent", request)
        <3>1. CASE refreshToken = None BY <1>1, <1>5, <3>1, MovesAlone DEF SignOut
        <3>2. CASE refreshToken # None BY <1>1, <1>5, <3>2, MovesAlone DEF SignOut
        <3>3. QED BY <3>1, <3>2
    <2> HIDE DEF request
    <2>3. Starts(o) BY <1>2, <1>5, <2>1, <2>2 DEF Starts, Alone
    <2>4. QED BY <2>2, <2>3, AloneLives
<1>6. CASE Restart(o)
    <2>1. /\ at' = [q \in Ops |-> IF q = o THEN "boot" ELSE IF q \in Running THEN "gone" ELSE at[q]]
          /\ op' = op
        BY <1>6 DEF Restart
    <2>2. CASE p = o BY <1>2, <2>1, <2>2 DEF Lives, Starts
    <2>3. CASE p # o /\ p \in Running BY <1>6, <2>1, <2>3 DEF Lives, Ends, Running
    <2>4. CASE p # o /\ p \notin Running BY <2>1, <2>4 DEF Lives, Same
    <2>5. QED BY <2>2, <2>3, <2>4
<1>7. QED BY <1>3, <1>4, <1>5, <1>6 DEF Begin

LEMMA ContinueLives ==
    ASSUME Base, NEW o \in Ops, Continue(o), NEW p \in Ops
    PROVE  Lives(p)
<1> USE DEF MoveTo, Ask
<1>1. DeviceOK /\ op[o] \in Asked /\ PlaceOK(o) /\ op \in [Ops -> Asked] /\ DOMAIN at = Ops
    BY DEF Base, DeviceOK, PlacesOK
<1>2. ASSUME at' = [at EXCEPT ![o] = "done"], op' = op, at[o] \in {"sent", "served"},
             op[o].kind = "logout" => refreshToken' = None
      PROVE  Lives(p)
    <2>1. Alone(o, "done", op[o]) BY <1>1, <1>2, MovesAlone
    <2>2. Ends(o) BY <1>2, <2>1 DEF Alone, Ends, Ended
    <2>3. QED BY <2>1, <2>2, AloneLives
<1>3. CASE Bootstrap(o)
    <2> DEFINE request == [NoOp EXCEPT !.kind = "me", !.sent = accessToken]
    <2>1. request.kind = "me" BY DEF NoOp
    <2>2. op[o] = NoOp /\ at[o] = "boot" BY <1>1, <1>3 DEF Bootstrap, PlaceOK
    <2>3. CASE refreshToken = None
        <3>1. Alone(o, "done", op[o]) BY <1>1, <1>3, <2>3, MovesAlone DEF Bootstrap
        <3>2. Starts(o) BY <2>2, <3>1 DEF Alone, Starts
        <3>3. QED BY <3>1, <3>2, AloneLives
    <2>4. CASE refreshToken # None
        <3>1. Alone(o, "sent", request) BY <1>1, <1>3, <2>4, MovesAlone DEF Bootstrap
        <3> HIDE DEF request
        <3>2. Starts(o) BY <2>1, <2>2, <2>4, <3>1 DEF Alone, Starts
        <3>3. QED BY <3>1, <3>2, AloneLives
    <2>5. QED BY <2>3, <2>4
<1>4. CASE Denied(o)
    <2>1. Unauthorized(o) /\ at[o] = "sent" BY <1>4, Zenon DEF Denied
    <2>2. QED BY <2>1, UnauthorizedLives
<1>5. CASE Answered(o) BY <1>2, <1>5 DEF Answered
<1>6. CASE SignedIn(o)
    <2> DEFINE request == [NoOp EXCEPT !.kind = "revoke", !.sent = accessToken, !.body = op[o].call]
    <2>1. request.kind = "revoke" /\ request.body = op[o].call BY DEF NoOp
    <2>2. LoggingIn(o) BY <1>6 DEF SignedIn, LoggingIn
    <2>3. CASE at' = [at EXCEPT ![o] = "done"] /\ op' = op BY <1>2, <2>2, <2>3 DEF LoggingIn
    <2>4. CASE /\ at' = [at EXCEPT ![o] = "sent"] /\ op' = [op EXCEPT ![o] = request]
               /\ result[op[o].call] = "ok"
        <3>1. Alone(o, "sent", request) BY <1>1, <2>4, MovesAlone
        <3> HIDE DEF request
        <3>2. Proceeds(o) BY <1>6, <2>1, <2>2, <2>4, <3>1 DEF Alone, Proceeds
        <3>3. QED BY <3>1, <3>2, AloneLives
    <2>5. QED BY <1>6, <2>3, <2>4 DEF SignedIn
<1>7. CASE SignedOut(o)
    <2>1. CASE result[op[o].call] = "unauthorized"
        <3>1. Unauthorized(o) /\ at[o] = "served" BY <1>7, <2>1, Zenon DEF SignedOut
        <3>2. QED BY <3>1, UnauthorizedLives
    <2>2. CASE result[op[o].call] # "unauthorized"
        BY <1>2, <1>7, <2>2 DEF SignedOut, ClearSession
    <2>3. QED BY <2>1, <2>2
<1>8. ASSUME NEW r \in Requests, NEW place,
             \/ place = "served" /\ LogoutArrives(o, r)
             \/ place = "refreshing" /\ ReadToken(o, r)
      PROVE  Lives(p)
    <2> DEFINE request == [op[o] EXCEPT !.call = r]
    <2>1. /\ request.call = r /\ request.kind = op[o].kind /\ request.body = op[o].body
          /\ request.overlapped = op[o].overlapped /\ request.retried = op[o].retried
        BY <1>1 DEF Asked
    <2>2. Alone(o, place, request) BY <1>1, <1>8, MovesAlone DEF LogoutArrives, ReadToken
    <2> HIDE DEF request
    <2>3. CASE place = "served"
        <3>1. at[o] = "sent" /\ LogoutArrives(o, r) BY <1>8, <2>3 DEF LogoutArrives
        <3>2. Proceeds(o) BY <2>1, <2>2, <2>3, <3>1 DEF Alone, Proceeds, SameRequest
        <3>3. QED BY <2>2, <3>2, AloneLives
    <2>4. CASE place = "refreshing"
        <3>1. at[o] = "reading" /\ ReadToken(o, r) BY <1>8, <2>4 DEF ReadToken
        <3>2. Proceeds(o) BY <2>1, <2>2, <2>4, <3>1 DEF Alone, Proceeds, SameRequest
        <3>3. QED BY <2>2, <3>2, AloneLives
    <2>5. QED BY <1>8, <2>3, <2>4
<1>9. CASE Refreshed(o)
    <2> DEFINE r == op[o].call
    <2>1. /\ at[o] = "refreshing"
          /\ at' = [q \in Ops |-> IF q \in Waiters(o) THEN "sent" ELSE at[q]]
          /\ op' = [q \in Ops |->
                IF q \in Waiters(o)
                THEN [op[q] EXCEPT !.sent = r, !.retried = TRUE, !.call = None]
                ELSE op[q]]
        BY <1>9 DEF Refreshed, Resend
    <2>2. CASE p \in Waiters(o)
        <3>1. at[p] \in {"waiting", "refreshing"} BY <2>1, <2>2 DEF Waiters
        <3>2. /\ op'[p].call = None /\ op'[p].kind = op[p].kind /\ op'[p].body = op[p].body
              /\ op'[p].overlapped = op[p].overlapped /\ at'[p] = "sent"
            BY <1>1, <2>1, <2>2 DEF Asked
        <3>3. QED BY <1>9, <3>1, <3>2 DEF Lives, Proceeds
    <2>3. CASE p \notin Waiters(o) BY <2>1, <2>3 DEF Lives, Same
    <2>4. QED BY <2>2, <2>3
<1>10. CASE RefreshRefused(o)
    <2>1. /\ at[o] \in {"reading", "refreshing"} /\ op' = op
          /\ at' = [q \in Ops |-> IF q \in Waiters(o) THEN "torn" ELSE at[q]]
        BY <1>10 DEF RefreshRefused, TearDown
    <2>2. CASE p \in Waiters(o)
        <3>1. at[p] \in {"reading", "refreshing", "waiting"} BY <2>1, <2>2 DEF Waiters
        <3>2. at'[p] = "torn" /\ op'[p] = op[p] BY <2>1, <2>2
        <3>3. QED BY <1>10, <2>2, <3>1, <3>2 DEF Lives, Ends, Ended
    <2>3. CASE p \notin Waiters(o) BY <2>1, <2>3 DEF Lives, Same
    <2>4. QED BY <2>2, <2>3
<1>11. QED
    BY <1>3, <1>4, <1>5, <1>6, <1>7, <1>8, <1>9, <1>10 DEF Continue

\* Every step leaves an operation as it is, starts it, takes it on, or ends it.
LEMMA OperationLives ==
    ASSUME Base, [ClientNext]_allVars, NEW p \in Ops
    PROVE  Lives(p)
<1>1. DeviceOK /\ DOMAIN at = Ops BY DEF Base, DeviceOK
<1>2. ASSUME NEW o \in Ops, NetworkFails(o) PROVE Lives(p)
    <2>1. /\ at' = [at EXCEPT ![o] = "done"] /\ op' = op /\ at[o] \in {"sent", "served"}
          /\ op[o].kind = "logout" => refreshToken' = None
        BY <1>2 DEF NetworkFails, MoveTo, ClearSession
    <2>2. Alone(o, "done", op[o]) BY <1>1, <2>1, MovesAlone
    <2>3. Ends(o) BY <2>1, <2>2 DEF Alone, Ends, Ended
    <2>4. QED BY <2>2, <2>3, AloneLives
<1>3. ASSUME NEW o \in Ops, RefreshLost(o) PROVE Lives(p)
    <2>1. /\ at[o] = "refreshing" /\ op' = op
          /\ at' = [q \in Ops |-> IF q \in Waiters(o) THEN "torn" ELSE at[q]]
        BY <1>3 DEF RefreshLost, TearDown
    <2>2. CASE p \in Waiters(o)
        <3>1. at[p] \in {"reading", "refreshing", "waiting"} BY <2>1, <2>2 DEF Waiters
        <3>2. at'[p] = "torn" /\ op'[p] = op[p] BY <2>1, <2>2
        <3>3. QED BY <1>3, <2>2, <3>1, <3>2 DEF Lives, Ends, Ended
    <2>3. CASE p \notin Waiters(o) BY <2>1, <2>3 DEF Lives, Same
    <2>4. QED BY <2>2, <2>3
<1>4. CASE Outside BY <1>4, OutsideKeeps DEF Lives, Same
<1>5. QED BY <1>2, <1>3, <1>4, BeginLives, ContinueLives, ClientCases

-----------------------------------------------------------------------------
(* Logins and the running refresh. *)

\* A refresh the device waits for.
Refresher(q) == \E o \in Ops : at[o] = "refreshing" /\ op[o].call = q

Signs(o, r) == \E u \in Users, acknowledged \in BOOLEAN : SignIn(o, r, u, acknowledged)

\* A login is asked when no other is, and none is taken over.
LEMMA LoginNext ==
    ASSUME Base, [ClientNext]_allVars, NEW o \in Ops, LoggingIn(o)'
    PROVE  \/ LoggingIn(o) /\ op'[o].call = op[o].call
           \/ op'[o].call \in Requests /\ Signs(o, op'[o].call)
<1>1. Lives(o) /\ PlaceOK(o) BY OperationLives DEF Base, PlacesOK
<1>2. at'[o] = "sent" /\ op'[o].kind = "login" BY DEF LoggingIn
<1>3. CASE Same(o) BY <1>2, <1>3, SameFields DEF Base, Same, LoggingIn
<1>4. CASE Starts(o) BY <1>2, <1>4, NoOpIs DEF Starts, Signs
<1>5. CASE Proceeds(o) BY <1>1, <1>2, <1>5 DEF Proceeds, SameRequest, PlaceOK
<1>6. CASE Ends(o) BY <1>2, <1>6 DEF Ends
<1>7. QED BY <1>1, <1>3, <1>4, <1>5, <1>6 DEF Lives

LEMMA SignInMakes ==
    ASSUME Base, NEW o \in Ops, NEW r \in Requests, Signs(o, r)
    PROVE  /\ \A p \in Ops : p # o => at'[p] = at[p] /\ op'[p] = op[p]
           /\ \A p \in Ops : ~LoggingIn(p)
           /\ at[o] = "idle" /\ at'[o] = "sent" /\ op'[o].call = r
           /\ UNCHANGED <<accessToken, refreshToken>> /\ ~isAuthenticated
           /\ pc[r] = "idle" /\ pc'[r] = "answered" /\ call'[r] = [kind |-> "login", token |-> None]
           /\ OtherCallsStay(r) /\ r \notin DOMAIN sessions
           /\ DOMAIN sessions' = DOMAIN sessions \cup {r}
           /\ sessions'[r].family = r /\ Valid(r)'
           /\ \A s \in DOMAIN sessions : sessions'[s] = sessions[s]
           /\ result'[r] = "ok" \/ faults' = faults + 1
<1>1. DOMAIN at = Ops /\ op \in [Ops -> Asked] /\ DOMAIN result = Requests
    BY DEF Base, DeviceOK, IInv, CallsOK
<1>2. /\ at[o] = "idle" /\ at' = [at EXCEPT ![o] = "sent"]
      /\ op' = [op EXCEPT ![o] = [NoOp EXCEPT !.kind = "login", !.call = r]]
      /\ ~isAuthenticated /\ UNCHANGED <<accessToken, refreshToken>>
      /\ \A p \in Running : op[p].kind \notin {"login", "revoke"}
    BY DEF Signs, SignIn, FreshOp, Ask, KeepTokens
<1>3. [NoOp EXCEPT !.kind = "login", !.call = r].call = r BY DEF NoOp
<1>4. op'[o].call = r BY <1>1, <1>2, <1>3
<1>5. \A p \in Ops : ~LoggingIn(p) BY <1>2 DEF LoggingIn, Running, Ended
<1>6. PICK u \in Users : \E acknowledged \in BOOLEAN : Login(r, u, acknowledged)
    BY DEF Signs, SignIn
<1>7. result'[r] = "ok" \/ faults' = faults + 1
    BY <1>1 DEF Signs, SignIn, Login, Answer, Outcome, Fault
<1>8. IInv BY DEF Base
<1>9. /\ RowsAge /\ OtherCallsStay(r)
      /\ pc[r] = "idle" /\ pc'[r] = "answered"
      /\ call'[r] = [kind |-> "login", token |-> None]
      /\ r \notin DOMAIN sessions /\ DOMAIN sessions' = DOMAIN sessions \cup {r}
      /\ sessions'[r].family = r /\ Valid(r)'
      /\ \A s \in DOMAIN sessions : sessions'[s] = sessions[s]
    BY <1>6, <1>8, LoginMakes
<1>10. \A p \in Ops : p # o => at'[p] = at[p] /\ op'[p] = op[p] BY <1>1, <1>2
<1>11. at'[o] = "sent" BY <1>1, <1>2
<1> HIDE DEF Valid, OtherCallsStay
<1>12. QED BY <1>2, <1>4, <1>5, <1>7, <1>9, <1>10, <1>11

LEMMA OneRefresher ==
    ASSUME Base, NEW o \in Ops, NEW p \in Ops,
           at[o] \in {"reading", "refreshing"}, at[p] \in {"reading", "refreshing"}
    PROVE  o = p
BY DEF Base, PlacesOK, PlaceOK

LEMMA RefresherIs ==
    ASSUME Base, NEW q, Refresher(q)
    PROVE  /\ q \in Requests /\ call[q].kind = "refresh" /\ call[q].token \in DOMAIN sessions
           /\ pc[q] # "idle"
           /\ \A r : Refresher(r) => r = q
<1>1. q \in Requests /\ call[q].kind = "refresh" BY DEF Refresher, Base, PlacesOK, PlaceOK
<1>2. call[q].token \in DOMAIN sessions BY <1>1 DEF Base, CallKinds
<1>3. pc[q] # "idle" BY <1>1, <1>2, NoneAssumption DEF Base, IInv, Stages, RowsOK
<1>4. \A r : Refresher(r) => r = q BY OneRefresher DEF Refresher
<1>5. QED BY <1>1, <1>2, <1>3, <1>4

\* A refresh is sent by the operation that reads the token ...
LEMMA RefresherStarts ==
    ASSUME Base, [ClientNext]_allVars, NEW q, Refresher(q)', ~Refresher(q)
    PROVE  \E o \in Ops : /\ q \in Requests /\ ReadToken(o, q) /\ at[o] = "reading" /\ pc[q] = "idle"
                          /\ refreshToken \in DOMAIN sessions /\ refreshToken' = refreshToken
                          /\ Looks(q, "refresh", refreshToken)
                          /\ \A r : ~Refresher(r)
                          /\ faults' = faults
<1>1. PICK o \in Ops : at'[o] = "refreshing" /\ op'[o].call = q BY DEF Refresher
<1>2. Lives(o) BY OperationLives
<1>3. CASE Same(o) BY <1>1, <1>3, SameFields DEF Refresher, Base, Same
<1>4. CASE Starts(o) BY <1>1, <1>4 DEF Starts
<1>5. CASE Proceeds(o)
    <2>1. at[o] = "reading" /\ q \in Requests /\ ReadToken(o, q) BY <1>1, <1>5 DEF Proceeds
    <2>2. pc[q] = "idle" /\ refreshToken' = refreshToken /\ refreshToken # None
          /\ (LookupRefresh(q, refreshToken) \/ Limited(q, refreshToken))
          /\ faults' = faults
        BY <2>1 DEF ReadToken, FreshCall, KeepTokens
    <2>3. refreshToken \in DOMAIN sessions BY <2>2 DEF Base, DeviceOK, Known
    <2>4. Looks(q, "refresh", refreshToken) BY <2>1, <2>2, <2>3, LookupMakes DEF Base
    <2>5. \A r : ~Refresher(r) BY <2>1, OneRefresher DEF Refresher
    <2>6. QED BY <2>1, <2>2, <2>3, <2>4, <2>5
<1>6. CASE Ends(o) BY <1>1, <1>6 DEF Ends
<1>7. QED BY <1>2, <1>3, <1>4, <1>5, <1>6 DEF Lives

\* ... and goes on until its answer is used, unless something goes wrong.
LEMMA RefresherEnds ==
    ASSUME Base, [ClientNext]_allVars, NEW q, Refresher(q), ~Refresher(q)', faults' = 0
    PROVE  /\ pc[q] = "answered" /\ UNCHANGED vars
           /\ \/ refreshToken' = None /\ result[q] # "ok" /\ \E o \in Ops : RefreshRefused(o)
              \/ refreshToken' = q /\ result[q] = "ok" /\ \E o \in Ops : Refreshed(o)
<1>1. PICK o \in Ops : at[o] = "refreshing" /\ op[o].call = q BY DEF Refresher
<1>2. Lives(o) BY OperationLives
<1>3. faults + 1 # 0 BY DEF Base, DeviceOK
<1>4. CASE Same(o) BY <1>1, <1>4, SameFields DEF Refresher, Base, Same
<1>5. CASE Starts(o) BY <1>1, <1>5 DEF Starts
<1>6. CASE Proceeds(o)
    <2>1. PICK p \in Ops : Refreshed(p) BY <1>1, <1>6 DEF Proceeds, LoggingIn
    <2>2. at[p] = "refreshing" BY <2>1 DEF Refreshed
    <2>3. p = o BY <1>1, <2>2, OneRefresher
    <2>4. QED BY <1>1, <2>1, <2>3 DEF Refreshed
<1>7. CASE Ends(o)
    <2>1. CASE \E p \in Ops : RefreshRefused(p) \/ RefreshLost(p)
        <3>1. PICK p \in Ops : RefreshRefused(p) BY <1>3, <2>1 DEF RefreshLost, Fault
        <3>2. at[p] \in {"reading", "refreshing"} BY <3>1 DEF RefreshRefused
        <3>3. p = o BY <1>1, <3>2, OneRefresher
        <3>4. /\ pc[q] = "answered" /\ result[q] # "ok" /\ UNCHANGED vars /\ refreshToken' = None
            BY <1>1, <3>1, <3>3 DEF RefreshRefused, TearDown, ClearSession
        <3>5. QED BY <3>1, <3>4
    <2>2. CASE \E p \in Ops : Restart(p)
        <3>1. o \in Refreshing BY <1>1 DEF Refreshing
        <3>2. faults' = faults + 1 BY <2>2, <3>1 DEF Restart, Fault
        <3>3. QED BY <1>3, <3>2
    <2>3. QED BY <1>1, <1>7, <2>1, <2>2 DEF Ends
<1>8. QED BY <1>2, <1>4, <1>5, <1>6, <1>7 DEF Lives

-----------------------------------------------------------------------------
(* Calls at work. *)

\* A call goes on by its own statement; one that fails is counted.
LEMMA WorkNext ==
    ASSUME Base, [ClientNext]_allVars, NEW q \in Requests, pc[q] # "idle", pc'[q] # pc[q]
    PROVE  /\ Step(q) \/ Fail(q)
           /\ faults' = 0 => result'[q] # "error"
<1>1. ASSUME NEW r \in Requests, OtherCallsStay(r) PROVE q = r
    BY <1>1 DEF OtherCallsStay
<1>2. ASSUME NEW r \in Requests, ServerStep(r) \/ ServerFails(r)
      PROVE  (Step(q) \/ Fail(q)) /\ (faults' = 0 => result'[q] # "error")
    <2>1. Step(r) \/ Fail(r) BY <1>2 DEF ServerStep, ServerFails
    <2>2. OtherCallsStay(r) BY <2>1, StepMakes DEF Base
    <2>3. q = r BY <1>1, <2>2
    <2>4. faults' = 0 => result'[q] # "error"
        BY <1>2, <2>3 DEF ServerStep, ServerFails, Fault, Base, DeviceOK
    <2>5. QED BY <2>1, <2>3, <2>4
<1>3. ASSUME NEW o \in Ops, NEW r \in Requests, Signs(o, r) PROVE FALSE
    <2>1. OtherCallsStay(r) /\ pc[r] = "idle" BY <1>3, SignInMakes
    <2>2. QED BY <1>1, <2>1
<1>4. ASSUME NEW o \in Ops, NEW r \in Requests, ReadToken(o, r) PROVE FALSE
    <2>1. pc[r] = "idle" /\ pc' = [pc EXCEPT ![r] = pc'[r]]
        BY <1>4 DEF ReadToken, FreshCall, LookupRefresh, Limited, Goto, Answer, Base, IInv, CallsOK
    <2>2. QED BY <2>1 DEF Base, IInv, CallsOK
<1>5. ASSUME NEW o \in Ops, NEW r \in Requests, LogoutArrives(o, r) PROVE FALSE
    <2>1. pc[r] = "idle" /\ pc' = [pc EXCEPT ![r] = pc'[r]]
        BY <1>5 DEF LogoutArrives, FreshCall, LookupLogout, Goto, Answer, Base, IInv, CallsOK
    <2>2. QED BY <2>1 DEF Base, IInv, CallsOK
<1>6. QED
    BY <1>2, <1>3, <1>4, <1>5
    DEF ClientNext, Begin, Signs, Continue, Request, SignOut, Restart, Bootstrap, Denied, Answered,
        SignedIn, SignedOut, NetworkFails, Refreshed, RefreshRefused, RefreshLost, Age,
        SessionExpires, Expire, vars, allVars

Pending == {q \in Requests : pc[q] \in {"rotate", "insert"}}

\* A rotation at work was one before, or has just been asked for.
LEMMA PendingNext ==
    ASSUME Base, [ClientNext]_allVars, NEW q \in Pending'
    PROVE  \/ q \in Pending /\ call'[q] = call[q]
           \/ Refresher(q)' /\ ~Refresher(q)
<1>1. q \in Requests /\ pc'[q] \in {"rotate", "insert"} BY DEF Pending
<1>2. CASE pc[q] = "idle"
    <2>1. PICK o \in Ops : ReadToken(o, q) \/ LogoutArrives(o, q) BY <1>1, <1>2, CallsNext
    <2>2. ReadToken(o, q)
        BY <1>1, <2>1 DEF LogoutArrives, LookupLogout, Goto, Answer, Base, IInv, CallsOK
    <2>3. at' = [at EXCEPT ![o] = "refreshing"] /\ op' = [op EXCEPT ![o].call = q]
        BY <2>2 DEF ReadToken, MoveTo
    <2>4. at'[o] = "refreshing" /\ op'[o].call = q BY <2>3 DEF Base, DeviceOK, Asked
    <2>5. QED BY <1>2, <2>4, RefresherIs DEF Refresher
<1>3. CASE pc[q] # "idle"
    <2>1. call'[q] = call[q] /\ pc[q] # "answered" BY <1>1, <1>3, BaseStep DEF CallsStay
    <2>2. CASE pc'[q] = pc[q] BY <1>1, <2>1, <2>2 DEF Pending
    <2>3. CASE pc'[q] # pc[q]
        <3>1. Step(q) \/ Fail(q) BY <1>1, <1>3, <2>3, WorkNext
        <3>2. Works(q) \/ Renews(q) \/ Revokes(q) BY <1>1, <3>1, StepMakes DEF Base
        <3>3. pc[q] = "rotate" BY <1>1, <3>2 DEF Works, Renews, Revokes
        <3>4. QED BY <1>1, <2>1, <3>3 DEF Pending
    <2>4. QED BY <2>2, <2>3
<1>4. QED BY <1>2, <1>3

\* A new row of a family that exists is the successor of one of its rows.
LEMMA FamilyNext ==
    ASSUME Base, [ClientNext]_allVars, NEW t \in DOMAIN sessions, NEW s \in FamilyOf(t)'
    PROVE  \/ s \in FamilyOf(t)
           \/ /\ s \in Pending /\ s \notin DOMAIN sessions /\ pc[s] = "insert"
              /\ call[s].token \in FamilyOf(t) /\ Valid(s)'
<1>1. RowsAge /\ [Next]_vars BY BaseStep, ClientAsks
<1>2. /\ s \in DOMAIN sessions' /\ sessions'[s].family = sessions'[t].family
      /\ sessions'[t].family = sessions[t].family /\ sessions[t].family \in DOMAIN sessions
    BY <1>1 DEF FamilyOf, RowsAge, Base, IInv, RowsOK
<1>3. CASE s \in DOMAIN sessions BY <1>1, <1>2, <1>3 DEF FamilyOf, RowsAge
<1>4. CASE s \notin DOMAIN sessions
    <2>1. /\ pc[s] = "insert" /\ s \in Requests /\ call[s].token \in DOMAIN sessions
          /\ sessions'[s].family = sessions[call[s].token].family /\ Valid(s)'
        BY <1>1, <1>2, <1>4, RowsNext DEF Base
    <2>2. QED BY <1>2, <1>4, <2>1 DEF FamilyOf, Pending
<1>5. QED BY <1>3, <1>4

-----------------------------------------------------------------------------
(* A login under way has a family of its own. *)

\* One login is under way at a time, its session is a family of one, nobody has
\* stored its token and nobody refreshes it.
LoginApart(o) ==
    /\ \A p \in Ops : LoggingIn(p) => p = o
    /\ \A s \in DOMAIN sessions : sessions[s].family = op[o].call => s = op[o].call
    /\ refreshToken # op[o].call
    /\ \A q \in Requests : call[q].kind = "refresh" => call[q].token # op[o].call

LoginsApart == \A o \in Ops : LoggingIn(o) => LoginApart(o)

\* A refresh presents the stored token.
LEMMA RefreshPresents ==
    ASSUME Base, [ClientNext]_allVars, NEW q \in Requests, call'[q].kind = "refresh",
           call'[q] # call[q]
    PROVE  refreshToken # None /\ call'[q].token = refreshToken /\ refreshToken' = refreshToken
           /\ \E o \in Ops : ReadToken(o, q)
<1>1. \E o \in Ops : ReadToken(o, q) \/ LogoutArrives(o, q) BY CallsNext
<1>2. \A o \in Ops : LogoutArrives(o, q) => call'[q].kind = "logout"
    BY DEF LogoutArrives, LookupLogout, Asks, Base, IInv, CallsOK
<1>3. PICK o \in Ops : ReadToken(o, q) BY <1>1, <1>2
<1>4. refreshToken # None /\ call' = [call EXCEPT ![q] = [kind |-> "refresh", token |-> refreshToken]]
      /\ refreshToken' = refreshToken
    BY <1>3 DEF ReadToken, LookupRefresh, Limited, Asks, KeepTokens
<1>5. call'[q].token = refreshToken BY <1>4 DEF Base, IInv, CallsOK
<1>6. QED BY <1>3, <1>4, <1>5

LEMMA LoginStays ==
    ASSUME Base, LoginsApart, [ClientNext]_allVars, NEW o \in Ops, LoggingIn(o), LoggingIn(o)',
           op'[o].call = op[o].call
    PROVE  LoginApart(o)'
<1> DEFINE c == op[o].call
<1>1. LoginApart(o) /\ c \in Requests /\ call[c].kind = "login" /\ c \in DOMAIN sessions
    BY DEF LoginsApart, Base, PlacesOK, PlaceOK, CallKinds
<1>2. \A p \in Ops : LoggingIn(p)' => p = o
    <2>1. ASSUME NEW p \in Ops, LoggingIn(p)', ~LoggingIn(p) PROVE FALSE
        <3>1. Signs(p, op'[p].call) BY <2>1, LoginNext
        <3>2. o \in Running BY DEF Running, Ended, LoggingIn
        <3>3. QED BY <3>1, <3>2 DEF Signs, SignIn, LoggingIn
    <2>2. QED BY <1>1, <2>1 DEF LoginApart
<1>3. ASSUME NEW s \in DOMAIN sessions', sessions'[s].family = c PROVE s = c
    <2>1. sessions[c].family = c BY <1>1 DEF Base, CallKinds
    <2>2. sessions'[c].family = c BY <1>1, <2>1, BaseStep DEF RowsAge
    <2>3. s \in FamilyOf(c)' BY <1>3, <2>2 DEF FamilyOf
    <2>4. CASE s \in FamilyOf(c) BY <1>1, <2>1, <2>4 DEF FamilyOf, LoginApart
    <2>5. CASE s \in Pending /\ call[s].token \in FamilyOf(c)
        <3>1. call[s].token = c BY <1>1, <2>1, <2>5 DEF FamilyOf, LoginApart
        <3>2. call[s].kind = "refresh" /\ s \in Requests BY <2>5 DEF Pending, Base, CallKinds
        <3>3. QED BY <1>1, <3>1, <3>2 DEF LoginApart
    <2>6. QED BY <1>1, <2>3, <2>4, <2>5, FamilyNext
<1>4. refreshToken' # c
    <2>1. CASE refreshToken' \in {refreshToken, None} BY <1>1, <2>1, NoneAssumption DEF LoginApart
    <2>2. CASE refreshToken' \notin {refreshToken, None}
        <3>1. PICK p \in Ops : /\ refreshToken' = op[p].call
                               /\ at[p] = "refreshing" \/ (LoggingIn(p) /\ at'[p] = "done")
            BY <2>2, StoredNext
        <3>2. CASE at[p] = "refreshing" BY <1>1, <3>1, <3>2 DEF Base, PlacesOK, PlaceOK
        <3>3. CASE LoggingIn(p) /\ at'[p] = "done" BY <1>1, <3>3 DEF LoginApart, LoggingIn
        <3>4. QED BY <3>1, <3>2, <3>3
    <2>3. QED BY <2>1, <2>2
<1>5. ASSUME NEW q \in Requests, call'[q].kind = "refresh" PROVE call'[q].token # c
    BY <1>1, <1>5, RefreshPresents DEF LoginApart
<1>6. QED BY <1>2, <1>3, <1>4, <1>5 DEF LoginApart

LEMMA LoginBegins ==
    ASSUME Base, NEW o \in Ops, NEW r \in Requests, Signs(o, r)
    PROVE  LoginApart(o)'
<1>1. /\ \A p \in Ops : p # o => at'[p] = at[p] /\ op'[p] = op[p]
      /\ \A p \in Ops : ~LoggingIn(p)
      /\ op'[o].call = r
      /\ UNCHANGED <<accessToken, refreshToken>>
      /\ pc[r] = "idle" /\ call'[r] = [kind |-> "login", token |-> None]
      /\ OtherCallsStay(r) /\ r \notin DOMAIN sessions
      /\ DOMAIN sessions' = DOMAIN sessions \cup {r}
      /\ \A s \in DOMAIN sessions : sessions'[s] = sessions[s]
    BY SignInMakes
<1>2. \A p \in Ops : LoggingIn(p)' => p = o BY <1>1 DEF LoggingIn
<1>3. ASSUME NEW s \in DOMAIN sessions', sessions'[s].family = r PROVE s = r
    BY <1>1, <1>3 DEF Base, IInv, RowsOK
<1>4. refreshToken' # r BY <1>1, NoneAssumption DEF Base, DeviceOK, Known
<1>5. ASSUME NEW q \in Requests, call'[q].kind = "refresh" PROVE call'[q].token # r
    <2>1. q # r BY <1>1, <1>5
    <2>2. call'[q] = call[q] BY <1>1, <2>1 DEF OtherCallsStay
    <2>3. call[q].token \in DOMAIN sessions BY <1>5, <2>2 DEF Base, CallKinds
    <2>4. QED BY <1>1, <2>2, <2>3
<1>6. QED BY <1>1, <1>2, <1>3, <1>4, <1>5 DEF LoginApart

LEMMA LoginsApartStep ==
    ASSUME Base, LoginsApart, [ClientNext]_allVars
    PROVE  LoginsApart'
<1> SUFFICES ASSUME NEW o \in Ops, LoggingIn(o)' PROVE LoginApart(o)' BY DEF LoginsApart
<1>1. CASE LoggingIn(o) /\ op'[o].call = op[o].call BY <1>1, LoginStays
<1>2. CASE op'[o].call \in Requests /\ Signs(o, op'[o].call)
    BY <1>2, LoginBegins
<1>3. QED BY <1>1, <1>2, LoginNext

-----------------------------------------------------------------------------
(* Without a fault, the device holds the only token that is alive. *)

\* Of the family of the stored token, only that token is alive, or the one that
\* the refresh under way is about to bring.
StoredIsLast ==
    refreshToken # None =>
        \A s \in FamilyOf(refreshToken) : Live(s) => s = refreshToken \/ Refresher(s)

Undisturbed == faults = 0 =>
    /\ \A q \in Pending : Refresher(q)
    /\ StoredIsLast
    /\ \A q \in DOMAIN sessions : Refresher(q) =>
          \A s \in FamilyOf(q) : Live(s) => s = q

LEMMA PendingStays ==
    ASSUME Base, Undisturbed, [ClientNext]_allVars, faults' = 0, faults = 0
    PROVE  \A q \in Pending' : Refresher(q)'
<1> SUFFICES ASSUME NEW q \in Pending' PROVE Refresher(q)' OBVIOUS
<1>1. CASE q \in Pending /\ ~Refresher(q)'
    <2>1. Refresher(q) /\ pc[q] # "answered" BY <1>1 DEF Undisturbed, Pending
    <2>2. QED BY <1>1, <2>1, RefresherEnds
<1>2. QED BY <1>1, PendingNext

\* A row that a commit adds to a family is that of the refresh under way.
LEMMA NewRowIsAwaited ==
    ASSUME Base, Undisturbed, [ClientNext]_allVars, faults' = 0, faults = 0,
           NEW s \in Pending, pc[s] = "insert"
    PROVE  Refresher(s) /\ Refresher(s)'
<1>1. Refresher(s) BY DEF Undisturbed
<1>2. QED BY <1>1, RefresherEnds

LEMMA UndisturbedStep ==
    ASSUME Base, LoginsApart, Undisturbed, [ClientNext]_allVars
    PROVE  Undisturbed'
<1> SUFFICES ASSUME faults' = 0 PROVE Undisturbed' BY DEF Undisturbed
<1>1. faults = 0 BY TokensMove DEF Base, DeviceOK
<1>2. RowsAge BY BaseStep
<1>3. \A q \in Pending' : Refresher(q)' BY <1>1, PendingStays
<1>4. StoredIsLast'
    <2> SUFFICES ASSUME refreshToken' # None, NEW s \in FamilyOf(refreshToken)', Live(s)'
                 PROVE  s = refreshToken' \/ Refresher(s)'
        BY DEF StoredIsLast
    <2>1. CASE refreshToken' = refreshToken
        <3>1. PICK t \in DOMAIN sessions : t = refreshToken
            BY <2>1 DEF Base, DeviceOK, Known
        <3>2. s \in FamilyOf(t)' BY <2>1, <3>1 DEF FamilyOf
        <3>3. CASE s \in FamilyOf(t)
            <4>1. s \in FamilyOf(refreshToken) /\ Live(s)
                BY <1>2, <3>1, <3>3 DEF FamilyOf, RowsAge
            <4>2. s = refreshToken \/ Refresher(s)
                BY <1>1, <2>1, <3>3, <4>1 DEF Undisturbed, StoredIsLast
            <4>3. QED BY <2>1, <4>2, RefresherEnds
        <3>4. CASE s \in Pending /\ pc[s] = "insert" BY <1>1, <3>4, NewRowIsAwaited
        <3>5. QED BY <3>1, <3>2, <3>3, <3>4, FamilyNext
    <2>2. CASE refreshToken' # refreshToken
        <3>1. /\ UNCHANGED vars /\ result[refreshToken'] = "ok"
              /\ \E o \in Ops : /\ refreshToken' = op[o].call
                                /\ at[o] = "refreshing" \/ LoggingIn(o)
            BY <2>2, StoredNext
        <3>2. s \in FamilyOf(refreshToken') /\ Live(s) BY <3>1 DEF vars, FamilyOf, Live
        <3>3. PICK o \in Ops : refreshToken' = op[o].call /\ (at[o] = "refreshing" \/ LoggingIn(o))
            BY <3>1
        <3>4. CASE at[o] = "refreshing"
            <4>1. Refresher(refreshToken') BY <3>3, <3>4 DEF Refresher
            <4>2. refreshToken' \in DOMAIN sessions BY <3>1, <4>1, RefresherIs DEF Base, CallKinds
            <4>3. QED BY <1>1, <3>2, <4>1, <4>2 DEF Undisturbed
        <3>5. CASE LoggingIn(o)
            <4>1. sessions[refreshToken'].family = refreshToken'
                BY <3>3, <3>5 DEF Base, PlacesOK, PlaceOK, CallKinds
            <4>2. QED BY <3>2, <3>3, <3>5, <4>1 DEF LoginsApart, LoginApart, FamilyOf
        <3>6. QED BY <3>3, <3>4, <3>5
    <2>3. QED BY <2>1, <2>2
<1>5. ASSUME NEW q \in DOMAIN sessions', Refresher(q)', NEW s \in FamilyOf(q)', Live(s)'
      PROVE  s = q
    <2>1. CASE q \in DOMAIN sessions
        <3>1. pc[q] = "answered" BY <2>1 DEF Base, IInv, Stages
        <3>2. Refresher(q) BY <1>5, <3>1, RefresherStarts
        <3>3. CASE s \in FamilyOf(q)
            <4>1. Live(s) BY <1>2, <1>5, <3>3 DEF FamilyOf, RowsAge
            <4>2. QED BY <1>1, <2>1, <3>2, <3>3, <4>1 DEF Undisturbed
        <3>4. CASE s \in Pending /\ pc[s] = "insert"
            BY <1>1, <3>2, <3>4, NewRowIsAwaited, RefresherIs
        <3>5. QED BY <1>5, <2>1, <3>3, <3>4, FamilyNext
    <2>2. CASE q \notin DOMAIN sessions
        <3>1. Base' BY DeviceStep
        <3>2. Valid(q)' BY <2>2, <1>5, RowsNext, ClientAsks DEF Base
        <3>3. QED BY <1>5, <3>1, <3>2 DEF Base, IInv, OneLivePerFamily, Valid, FamilyOf
    <2>3. QED BY <2>1, <2>2
<1>6. QED BY <1>3, <1>4, <1>5 DEF Undisturbed

-----------------------------------------------------------------------------
(* A logout that meets no refresh ends its family. *)

Quiet(o) ==
    /\ at[o] \in {"sent", "served", "done"}
    /\ op[o].kind = "logout" /\ ~op[o].overlapped /\ op[o].body # None

\* Nothing but the presented session is alive, nothing is on its way that would
\* continue the family, and while the logout is under way nothing is begun.
FamilyEnds(b) ==
    /\ \A s \in FamilyOf(b) : Live(s) => s = b
    /\ \A q \in Pending : call[q].token \notin FamilyOf(b)
    /\ \A q \in Requests : Refresher(q) => call[q].token \notin FamilyOf(b)
    /\ \A p \in Ops : LoggingIn(p) => op[p].call \notin FamilyOf(b)

QuietLogout(o) ==
    /\ FamilyEnds(op[o].body)
    /\ at[o] \in {"sent", "served"} => Refreshing = {}
    /\ at[o] = "done" => refreshToken \notin FamilyOf(op[o].body)
    /\ at[o] = "sent" => op[o].call = None
    /\ op[o].call # None => call[op[o].call] = [kind |-> "logout", token |-> op[o].body]

QuietEnds == \A o \in Ops : Quiet(o) => QuietLogout(o)

\* A refresh begins with a 401.
LEMMA RefreshBegins ==
    ASSUME Base, [ClientNext]_allVars, Refreshing = {}, Refreshing' # {}
    PROVE  \E p \in Ops : JoinRefresh(p) /\ at[p] \in {"sent", "served"}
<1>1. PICK p \in Ops : at'[p] \in {"reading", "refreshing"} BY DEF Refreshing
<1>2. at[p] \notin {"reading", "refreshing"} BY DEF Refreshing
<1>3. Lives(p) BY OperationLives
<1>4. CASE Same(p) BY <1>1, <1>2, <1>4 DEF Same
<1>5. CASE Starts(p) BY <1>1, <1>5 DEF Starts
<1>6. CASE Proceeds(p) BY <1>1, <1>2, <1>6 DEF Proceeds
<1>7. CASE Ends(p) BY <1>1, <1>7 DEF Ends
<1>8. QED BY <1>3, <1>4, <1>5, <1>6, <1>7 DEF Lives

\* A quiet logout begins when the device holds the last token of the family.
LEMMA QuietBegins ==
    ASSUME Base, LoginsApart, Undisturbed, [ClientNext]_allVars, NEW o \in Ops, Quiet(o)', Starts(o)
    PROVE  QuietLogout(o)'
<1>1. /\ SignOut(o) /\ at[o] = "idle" /\ at'[o] = "sent"
      /\ op'[o].body = refreshToken /\ op'[o].call = None
      /\ Waiting = {} /\ faults = 0 /\ refreshToken # None
    BY NoOpIs DEF Quiet, Starts
<1>2. UNCHANGED vars /\ refreshToken' = refreshToken
    BY <1>1 DEF SignOut, KeepTokens
<1>3. \A q : ~Refresher(q) BY <1>1 DEF Refresher, Waiting
<1>4. ASSUME NEW q, Refresher(q)' PROVE FALSE
    <2>1. \E p \in Ops : at[p] = "reading" BY <1>3, <1>4, RefresherStarts
    <2>2. QED BY <1>1, <2>1 DEF Waiting
<1>5. refreshToken \in DOMAIN sessions BY <1>1 DEF Base, DeviceOK, Known
<1>6. \A s \in FamilyOf(refreshToken) : Live(s) => s = refreshToken
    BY <1>1, <1>3 DEF Undisturbed, StoredIsLast
<1>7. Pending = {} BY <1>1, <1>3 DEF Undisturbed
<1>8. ASSUME NEW p \in Ops, LoggingIn(p)', op'[p].call \in FamilyOf(refreshToken) PROVE FALSE
    <2>1. ~Signs(p, op'[p].call) \/ op'[p].call \notin Requests
        <3>1. ASSUME Signs(p, op'[p].call), op'[p].call \in Requests PROVE FALSE
            <4>1. op'[p].call \notin DOMAIN sessions BY <3>1, SignInMakes
            <4>2. QED BY <1>8, <4>1 DEF FamilyOf
        <3>2. QED BY <3>1
    <2>2. LoggingIn(p) /\ op'[p].call = op[p].call BY <1>8, <2>1, LoginNext
    <2>3. LoginApart(p) /\ sessions[op[p].call].family = op[p].call
        BY <1>8, <2>2 DEF LoginsApart, Base, PlacesOK, PlaceOK, CallKinds, FamilyOf
    <2>4. QED BY <1>5, <1>8, <2>2, <2>3 DEF LoginApart, FamilyOf
<1>9. Refreshing' = {}
    <2>1. Refreshing = {} BY <1>1 DEF Refreshing, Waiting
    <2>2. ASSUME NEW p \in Ops, JoinRefresh(p) PROVE FALSE
        <3>1. op'[o].kind = op[o].kind BY <2>2 DEF JoinRefresh, Base, DeviceOK, Asked
        <3>2. QED BY <3>1, NoOpIs DEF Quiet, Starts
    <2>3. QED BY <2>1, <2>2, RefreshBegins
<1>10. FamilyOf(refreshToken)' = FamilyOf(refreshToken) /\ Pending' = Pending
       /\ \A s : Live(s)' = Live(s)
    BY <1>2 DEF vars, FamilyOf, Pending, Live
<1>11. FamilyEnds(op[o].body)' BY <1>1, <1>2, <1>4, <1>6, <1>7, <1>8, <1>10 DEF FamilyEnds, FamilyOf
<1>12. QED BY <1>1, <1>9, <1>11 DEF QuietLogout

\* Afterwards it arrives and is answered, or fails.
LEMMA QuietNext ==
    ASSUME Base, [ClientNext]_allVars, NEW o \in Ops, Quiet(o)', ~Starts(o)
    PROVE  /\ Quiet(o) /\ op'[o].body = op[o].body
           /\ \/ at'[o] = at[o] /\ op'[o].call = op[o].call
              \/ at'[o] = "served" /\ LogoutArrives(o, op'[o].call) /\ op'[o].call \in Requests
              \/ at'[o] = "done" /\ op'[o].call = op[o].call /\ refreshToken' = None
<1>1. Lives(o) /\ PlaceOK(o) BY OperationLives DEF Base, PlacesOK
<1>2. CASE Same(o) BY <1>2, SameFields DEF Base, Same, Quiet
<1>3. CASE Proceeds(o)
    BY <1>1, <1>3 DEF Proceeds, SameRequest, Quiet, PlaceOK
<1>4. CASE Ends(o) BY <1>4 DEF Ends, Quiet
<1>5. QED BY <1>1, <1>2, <1>3, <1>4 DEF Lives

\* Nothing continues a family that ends, whatever other operations do.
LEMMA FamilyEndsStep ==
    ASSUME Base, LoginsApart, [ClientNext]_allVars, NEW b \in DOMAIN sessions, FamilyEnds(b),
           Refreshing # {} => refreshToken \notin FamilyOf(b)
    PROVE  FamilyEnds(b)' /\ FamilyOf(b)' = FamilyOf(b)
<1>1. RowsAge BY BaseStep
<1>2. FamilyOf(b)' = FamilyOf(b)
    <2>1. FamilyOf(b)' \subseteq FamilyOf(b) BY FamilyNext DEF FamilyEnds
    <2>2. FamilyOf(b) \subseteq FamilyOf(b)' BY <1>1 DEF FamilyOf, RowsAge
    <2>3. QED BY <2>1, <2>2
<1>3. \A s \in FamilyOf(b) : Live(s)' => s = b BY <1>1 DEF FamilyEnds, FamilyOf, RowsAge
<1>4. ASSUME NEW q, Refresher(q)' PROVE q \in Requests /\ call'[q].token \notin FamilyOf(b)
    <2>1. CASE Refresher(q)
        <3>1. q \in Requests /\ pc[q] # "idle" BY <2>1, RefresherIs
        <3>2. call'[q] = call[q] BY <3>1, BaseStep DEF CallsStay
        <3>3. QED BY <2>1, <3>1, <3>2 DEF FamilyEnds
    <2>2. CASE ~Refresher(q)
        <3>1. PICK o \in Ops : q \in Requests /\ at[o] = "reading" /\ Looks(q, "refresh", refreshToken)
            BY <1>4, <2>2, RefresherStarts
        <3>2. call'[q].token = refreshToken BY <3>1 DEF Looks
        <3>3. QED BY <3>1, <3>2 DEF Refreshing
    <2>3. QED BY <2>1, <2>2
<1>5. \A q \in Pending' : call'[q].token \notin FamilyOf(b)
    BY <1>4, PendingNext DEF FamilyEnds
<1>6. ASSUME NEW p \in Ops, LoggingIn(p)' PROVE op'[p].call \notin FamilyOf(b)
    <2>1. CASE LoggingIn(p) /\ op'[p].call = op[p].call BY <2>1 DEF FamilyEnds
    <2>2. CASE op'[p].call \in Requests /\ Signs(p, op'[p].call)
        <3>1. op'[p].call \notin DOMAIN sessions BY <2>2, SignInMakes
        <3>2. QED BY <3>1 DEF FamilyOf
    <2>3. QED BY <1>6, <2>1, <2>2, LoginNext
<1>7. QED BY <1>2, <1>3, <1>4, <1>5, <1>6 DEF FamilyEnds

LEMMA QuietStep ==
    ASSUME Base, LoginsApart, Undisturbed, QuietEnds, [ClientNext]_allVars
    PROVE  QuietEnds'
<1> SUFFICES ASSUME NEW o \in Ops, Quiet(o)' PROVE QuietLogout(o)' BY DEF QuietEnds
<1>1. CASE Starts(o) BY <1>1, QuietBegins
<1>2. CASE ~Starts(o)
    <2>1. /\ Quiet(o) /\ op'[o].body = op[o].body
          /\ \/ at'[o] = at[o] /\ op'[o].call = op[o].call
             \/ at'[o] = "served" /\ LogoutArrives(o, op'[o].call) /\ op'[o].call \in Requests
             \/ at'[o] = "done" /\ op'[o].call = op[o].call /\ refreshToken' = None
        BY <1>2, QuietNext
    <2>2. QuietLogout(o) /\ PlaceOK(o) BY <2>1 DEF QuietEnds, Base, PlacesOK
    <2>3. PICK b \in DOMAIN sessions : b = op[o].body BY <2>1, <2>2 DEF Quiet, PlaceOK, Known
    <2>4. Refreshing # {} => refreshToken \notin FamilyOf(b)
        BY <2>1, <2>2, <2>3 DEF Quiet, QuietLogout
    <2>5. FamilyEnds(b) BY <2>2, <2>3 DEF QuietLogout
    <2>6. FamilyEnds(b)' /\ FamilyOf(b)' = FamilyOf(b) BY <2>4, <2>5, FamilyEndsStep
    <2>7. at'[o] \in {"sent", "served"} => Refreshing' = {}
        <3> SUFFICES ASSUME at'[o] \in {"sent", "served"} PROVE Refreshing' = {} OBVIOUS
        <3>1. at[o] \in {"sent", "served"} BY <2>1 DEF LogoutArrives
        <3>2. ASSUME NEW p \in Ops, JoinRefresh(p) PROVE FALSE
            <4>1. o \in Running BY <3>1 DEF Running, Ended
            <4>2. op'[o] = [op[o] EXCEPT !.overlapped = TRUE]
                BY <2>1, <3>2, <4>1 DEF JoinRefresh, Quiet
            <4>3. QED BY <4>2 DEF Quiet, Base, DeviceOK, Asked
        <3>3. Refreshing = {} BY <2>2, <3>1 DEF QuietLogout
        <3>4. QED BY <3>2, <3>3, RefreshBegins
    <2>8. at'[o] = "done" => refreshToken' \notin FamilyOf(b)
        <3>1. None \notin FamilyOf(b) BY NoneAssumption DEF FamilyOf, Base, IInv, RowsOK
        <3>2. CASE refreshToken' \in {refreshToken, None} BY <2>1, <2>2, <2>3, <3>1, <3>2 DEF QuietLogout
        <3>3. CASE refreshToken' \notin {refreshToken, None}
            <4>1. PICK p \in Ops : /\ refreshToken' = op[p].call /\ result[refreshToken'] = "ok"
                                   /\ at[p] = "refreshing" \/ LoggingIn(p)
                BY <3>3, StoredNext
            <4>2. CASE at[p] = "refreshing"
                <5>1. Refresher(refreshToken') BY <4>1, <4>2 DEF Refresher
                <5>2. PICK r \in Requests : r = refreshToken' BY <5>1, RefresherIs
                <5>3. /\ call[r].kind = "refresh" /\ call[r].token \notin FamilyOf(b)
                    BY <2>5, <5>1, <5>2, RefresherIs DEF FamilyEnds
                <5>4. r \in DOMAIN sessions /\ sessions[r].parent = call[r].token
                    BY <4>1, <5>2, <5>3 DEF Base, CallKinds
                <5>5. /\ call[r].token \in DOMAIN sessions /\ call[r].token # None
                      /\ sessions[call[r].token].family = sessions[r].family
                    BY <5>1, <5>2, <5>4, RefresherIs, NoneAssumption DEF Base, IInv, RowsOK
                <5>6. QED BY <5>2, <5>3, <5>4, <5>5 DEF FamilyOf
            <4>3. CASE LoggingIn(p) BY <2>5, <4>1, <4>3 DEF FamilyEnds
            <4>4. QED BY <4>1, <4>2, <4>3
        <3>4. QED BY <3>2, <3>3
    <2>9. at'[o] = "sent" => op'[o].call = None BY <2>1, <2>2 DEF QuietLogout
    <2>10. op'[o].call # None => call'[op'[o].call] = [kind |-> "logout", token |-> b]
        <3>1. CASE op'[o].call = op[o].call
            <4>1. ASSUME op[o].call # None PROVE call'[op[o].call] = call[op[o].call]
                <5>1. op[o].call \in Requests /\ call[op[o].call].kind = "logout"
                    BY <2>2, <4>1 DEF QuietLogout, Base, DeviceOK, Asked, Tokens
                <5>2. QED BY <5>1, BaseStep, CallsBegun DEF Base
            <4>2. QED BY <2>2, <2>3, <3>1, <4>1 DEF QuietLogout
        <3>2. CASE LogoutArrives(o, op'[o].call) /\ op'[o].call \in Requests
            BY <2>3, <3>2 DEF LogoutArrives, LookupLogout, Asks, Base, IInv, CallsOK
        <3>3. QED BY <2>1, <3>1, <3>2
    <2>11. FamilyEnds(op[o].body)' BY <2>1, <2>3, <2>6
    <2>12. QED BY <2>1, <2>3, <2>6, <2>7, <2>8, <2>9, <2>10, <2>11 DEF QuietLogout, FamilyOf
<1>3. QED BY <1>1, <1>2

DeviceInv == Base /\ LoginsApart /\ Undisturbed /\ QuietEnds

LEMMA DeviceInvInit == ClientInit => DeviceInv
<1> SUFFICES ASSUME ClientInit PROVE DeviceInv OBVIOUS
<1>1. Base BY InitInv, KindsInit, DeviceInit DEF ClientInit, Base
<1>2. /\ \A o \in Ops : at[o] = "idle" /\ op[o] = NoOp
      /\ refreshToken = None /\ \A q \in Requests : pc[q] = "idle"
    BY DEF ClientInit, Init
<1>3. LoginsApart BY <1>2 DEF LoginsApart, LoggingIn
<1>4. Undisturbed
    <2>1. Pending = {} BY <1>2 DEF Pending
    <2>2. \A q : ~Refresher(q) BY <1>2 DEF Refresher
    <2>3. QED BY <1>2, <2>1, <2>2 DEF Undisturbed, StoredIsLast
<1>5. QuietEnds BY <1>2 DEF QuietEnds, Quiet
<1>6. QED BY <1>1, <1>3, <1>4, <1>5 DEF DeviceInv

LEMMA DeviceInvStep == DeviceInv /\ [ClientNext]_allVars => DeviceInv'
<1> SUFFICES ASSUME DeviceInv, [ClientNext]_allVars PROVE DeviceInv' OBVIOUS
<1>1. Base' BY DeviceStep DEF DeviceInv
<1>2. LoginsApart' BY LoginsApartStep DEF DeviceInv
<1>3. Undisturbed' BY UndisturbedStep DEF DeviceInv
<1>4. QuietEnds' BY QuietStep DEF DeviceInv
<1>5. QED BY <1>1, <1>2, <1>3, <1>4 DEF DeviceInv

\* A confirmed logout leaves no valid session of its family behind if it met no
\* refresh and no answer was lost before (auth.ts logout, client.ts refresh).
THEOREM QuietLogoutsEndFamilies == ClientSpec => []QuietLogoutEnds
<1>1. DeviceInv => QuietLogoutEnds
    <2> SUFFICES ASSUME DeviceInv, NEW o \in Ops,
                        at[o] = "done", op[o].kind = "logout", op[o].call # None,
                        result[op[o].call] = "ok", ~op[o].overlapped,
                        NEW s \in FamilyOf(op[o].body), Live(s)
                 PROVE  FALSE
        BY DEF QuietLogoutEnds
    <2>1. IInv /\ PlaceOK(o) /\ op[o].call \in Requests
        BY DEF DeviceInv, Base, PlacesOK, DeviceOK, Asked, Tokens
    <2>2. op[o].body # None BY <2>1 DEF PlaceOK
    <2>3. QuietLogout(o) BY <2>2 DEF DeviceInv, QuietEnds, Quiet
    <2>4. call[op[o].call] = [kind |-> "logout", token |-> op[o].body] /\ s = op[o].body
        BY <2>3 DEF QuietLogout, FamilyEnds
    <2>5. ~Live(op[o].body) BY <2>1, <2>4 DEF IInv, LogoutRevokes
    <2>6. QED BY <2>4, <2>5
<1>2. QED BY <1>1, DeviceInvInit, DeviceInvStep, ClientParts, PTL

-----------------------------------------------------------------------------
(* A device that nothing happens to stays signed in. *)

\* Sessions the panel did not let in: their tokens are stored nowhere.
TurnedAway ==
    {op[o].body : o \in {p \in Ops : op[p].kind = "revoke"}}
      \cup {call[q].token : q \in {p \in Requests : call[p].kind = "logout"}}

Apart(s) ==
    /\ s \in Requests /\ call[s].kind = "login" /\ s # refreshToken
    /\ \A q \in Requests : call[q].kind = "refresh" => call[q].token # s
    /\ \A o \in Ops : LoggingIn(o) => op[o].call # s

Active(o) == at[o] \in {"sent", "served", "waiting", "reading", "refreshing"}

\* Who asks with a token has one to refresh with.
HoldsBoth ==
    /\ accessToken # None => refreshToken # None
    /\ refreshToken = None =>
          \A o \in Ops : Active(o) => op[o].kind \in {"login", "revoke"}

\* A refresh under way finds its session valid, or has brought a valid one.
Promising(q) ==
    \/ pc[q] \in {"rotate", "insert"} /\ Valid(call[q].token)
    \/ q \in DOMAIN sessions /\ result[q] = "ok" /\ Valid(q)

\* The stored token is good for a refresh, or one with it is under way.
StoredIsGood ==
    refreshToken # None =>
        \/ Valid(refreshToken)
        \/ \E q \in Requests : Refresher(q) /\ call[q].token = refreshToken

GoodLogin(o) == result[op[o].call] = "ok" /\ Valid(op[o].call)

CalmInv == calm =>
    /\ HoldsBoth /\ StoredIsGood
    /\ \A q \in Requests : pc[q] \notin {"reuse", "revoke"}
    /\ \A q \in Requests : Refresher(q) => Promising(q)
    /\ \A o \in Ops : LoggingIn(o) => GoodLogin(o)
    /\ \A s \in TurnedAway : Apart(s)

\* What went wrong stays wrong.
LEMMA CalmBefore ==
    ASSUME Base, [ClientNext]_allVars, calm'
    PROVE  calm /\ faults' = 0
<1>1. faults' = 0 /\ faults = 0 BY TokensMove DEF calm, Base, DeviceOK
<1>2. ASSUME NEW o \in Ops, op[o].kind = "logout" PROVE FALSE
    <2>1. Lives(o) BY OperationLives
    <2>2. op'[o].kind = "logout"
        BY <1>2, <2>1, SameFields, NoOpIs DEF Lives, Starts, Proceeds, SameRequest, Ends, LoggingIn, Base
    <2>3. QED BY <2>2 DEF calm
<1>3. ASSUME NEW o \in Ops, at[o] = "torn", op[o].retried PROVE FALSE
    <2>1. Lives(o) BY OperationLives
    <2>2. at'[o] = "torn" /\ op'[o].retried
        BY <1>3, <2>1, SameFields DEF Lives, Same, Starts, Proceeds, Ends, Ended, LoggingIn, Base
    <2>3. QED BY <2>2 DEF calm
<1>4. ASSUME NEW q \in Requests, result[q] = "limited" PROVE FALSE
    <2>1. result'[q] = "limited"
        BY <1>4, BaseStep DEF CallsStay, Base, IInv, Stages
    <2>2. QED BY <2>1 DEF calm
<1>5. QED BY <1>1, <1>2, <1>3, <1>4 DEF calm

Calm == Base /\ LoginsApart /\ Undisturbed /\ CalmInv /\ calm /\ calm' /\ faults = 0 /\ faults' = 0

\* A refresh is not refused.
LEMMA NothingRefused ==
    ASSUME Calm, [ClientNext]_allVars, NEW o \in Ops, RefreshRefused(o) \/ RefreshLost(o)
    PROVE  /\ at[o] = "reading" /\ refreshToken = None
           /\ \A p \in Waiters(o) : op[p].kind = "revoke"
<1>1. RefreshRefused(o) BY DEF RefreshLost, Fault, Calm
<1>2. CASE at[o] = "reading" /\ refreshToken = None
    <2>1. ASSUME NEW p \in Waiters(o) PROVE op[p].kind = "revoke"
        <3>1. p \in Ops /\ at[p] \in {"waiting", "reading"} BY <1>2, <2>1 DEF Waiters
        <3>2. op[p].kind # "login" BY <3>1 DEF Calm, Base, PlacesOK, PlaceOK
        <3>3. QED BY <1>2, <3>1, <3>2 DEF Calm, CalmInv, HoldsBoth, Active
    <2>2. QED BY <1>2, <2>1
<1>3. CASE at[o] = "refreshing" /\ pc[op[o].call] = "answered" /\ result[op[o].call] # "ok"
    <2>1. Refresher(op[o].call) BY <1>3 DEF Refresher
    <2>2. op[o].call \in Requests BY <2>1, RefresherIs DEF Calm
    <2>3. Promising(op[o].call) BY <2>1, <2>2 DEF Calm, CalmInv
    <2>4. QED BY <1>3, <2>3 DEF Promising
<1>4. QED BY <1>1, <1>2, <1>3 DEF RefreshRefused

\* The tokens are kept, are those of a login or a refresh, or the process ended.
LEMMA CalmTokens ==
    ASSUME Calm, [ClientNext]_allVars
    PROVE  \/ UNCHANGED <<accessToken, refreshToken>>
           \/ accessToken' = refreshToken' /\ refreshToken' # None
           \/ accessToken' = None /\ \A o \in Ops : ~Active(o)'
<1> USE DEF KeepTokens, ClearSession
<1>1. ASSUME NEW o \in Ops, op'[o].kind = "logout" PROVE FALSE BY <1>1 DEF Calm, calm
<1>2. ASSUME NEW o \in Ops, op[o].kind = "logout" PROVE FALSE BY <1>2 DEF Calm, calm
<1>3. ASSUME NEW o \in Ops, Unauthorized(o) PROVE UNCHANGED <<accessToken, refreshToken>>
    <2>1. CASE op[o].retried
        <3>1. at'[o] = "torn" /\ op' = op BY <1>3, <2>1 DEF Unauthorized, TearDown
        <3>2. QED BY <2>1, <3>1 DEF Calm, calm
    <2>2. CASE ~op[o].retried BY <1>3, <2>2 DEF Unauthorized, JoinRefresh
    <2>3. QED BY <2>1, <2>2
<1>4. CASE \E o \in Ops : Begin(o)
    <2>1. PICK o \in Ops : Begin(o) BY <1>4
    <2>2. CASE (\E r \in Requests : Signs(o, r)) \/ Request(o) BY <2>2 DEF Signs, SignIn, Request
    <2>3. CASE SignOut(o)
        <3>1. op'[o].kind = "logout" BY <2>3 DEF SignOut, Ask, NoOp, Calm, Base, DeviceOK
        <3>2. QED BY <1>1, <3>1
    <2>4. CASE Restart(o) BY <2>4 DEF Restart, Running, Active, Ended
    <2>5. QED BY <2>1, <2>2, <2>3, <2>4 DEF Begin, Signs
<1>5. CASE \E o \in Ops : Continue(o)
    <2>1. PICK o \in Ops : Continue(o) BY <1>5
    <2>2. CASE Bootstrap(o) BY <2>2 DEF Bootstrap
    <2>3. CASE Denied(o) BY <1>3, <2>3 DEF Denied
    <2>4. CASE Answered(o) BY <2>4 DEF Answered
    <2>5. CASE SignedIn(o)
        BY <2>5, NoneAssumption DEF SignedIn, LoggingIn, Calm, Base, PlacesOK, PlaceOK
    <2>6. CASE SignedOut(o) BY <1>2, <1>3, <2>6 DEF SignedOut
    <2>7. CASE \E r \in Requests : LogoutArrives(o, r) \/ ReadToken(o, r)
        BY <2>7 DEF LogoutArrives, ReadToken
    <2>8. CASE Refreshed(o)
        BY <2>8, NoneAssumption DEF Refreshed, Calm, Base, PlacesOK, PlaceOK
    <2>9. CASE RefreshRefused(o)
        <3>1. refreshToken = None /\ accessToken = None
            BY <2>9, NothingRefused DEF Calm, CalmInv, HoldsBoth
        <3>2. QED BY <2>9, <3>1 DEF RefreshRefused, TearDown
    <2>10. QED BY <2>1, <2>2, <2>3, <2>4, <2>5, <2>6, <2>7, <2>8, <2>9 DEF Continue
<1>6. ASSUME NEW o \in Ops, NetworkFails(o) PROVE UNCHANGED <<accessToken, refreshToken>>
    BY <1>2, <1>6 DEF NetworkFails, Fault, Calm
<1>7. ASSUME NEW o \in Ops, RefreshLost(o) PROVE FALSE BY <1>7 DEF RefreshLost, Fault, Calm
<1>8. CASE Outside BY <1>8, OutsideKeeps
<1>9. QED BY <1>4, <1>5, <1>6, <1>7, <1>8, ClientCases

LEMMA HoldsBothStep ==
    ASSUME Calm, [ClientNext]_allVars
    PROVE  HoldsBoth'
<1>1. HoldsBoth BY DEF Calm, CalmInv
<1>2. accessToken' # None => refreshToken' # None BY <1>1, CalmTokens DEF HoldsBoth
<1>3. ASSUME refreshToken' = None, NEW o \in Ops, Active(o)'
      PROVE  op'[o].kind \in {"login", "revoke"}
    <2>1. refreshToken = None /\ accessToken = None BY <1>1, <1>3, CalmTokens DEF HoldsBoth
    <2>2. Lives(o) BY OperationLives DEF Calm
    <2>3. Active(o) => op[o].kind \in {"login", "revoke"} BY <1>1, <2>1 DEF HoldsBoth
    <2>4. CASE Same(o) BY <1>3, <2>3, <2>4, SameFields DEF Same, Active, Calm, Base
    <2>5. CASE Starts(o)
        BY <1>3, <2>1, <2>5 DEF Starts, Active, Request, SignOut, isAuthenticated
    <2>6. CASE Proceeds(o) BY <2>3, <2>6 DEF Proceeds, SameRequest, Active
    <2>7. CASE Ends(o) BY <1>3, <2>7 DEF Ends, Active
    <2>8. QED BY <2>2, <2>4, <2>5, <2>6, <2>7 DEF Lives
<1>4. QED BY <1>2, <1>3 DEF HoldsBoth

\* Only its own rotation, or the logout of a user turned away, ends a valid session.
LEMMA CalmRows ==
    ASSUME Calm, [ClientNext]_allVars, NEW s \in DOMAIN sessions, Valid(s), ~Valid(s)'
    PROVE  \E r \in Requests :
              /\ call[r].token = s /\ pc'[r] = "answered"
              /\ \/ pc[r] = "insert" /\ call[r].kind = "refresh" /\ Refresher(r) /\ Refresher(r)'
                 \/ pc[r] = "logout" /\ s \in TurnedAway
<1>1. sessions' # sessions BY DEF Valid, Live
<1>2. ASSUME NEW r \in Requests, ServerStep(r) \/ ServerFails(r)
      PROVE  /\ call[r].token = s /\ pc'[r] = "answered"
             /\ \/ pc[r] = "insert" /\ call[r].kind = "refresh" /\ Refresher(r) /\ Refresher(r)'
                \/ pc[r] = "logout" /\ s \in TurnedAway
    <2>1. Step(r) \/ Fail(r) BY <1>2 DEF ServerStep, ServerFails
    <2>2. Works(r) \/ Renews(r) \/ Revokes(r) BY <2>1, StepMakes DEF Calm, Base
    <2>3. CASE Works(r) BY <1>1, <2>3 DEF Works
    <2>4. CASE Renews(r)
        <3>1. r \in Pending /\ pc[r] = "insert" /\ pc'[r] = "answered" BY <2>4 DEF Renews, Pending
        <3>2. call[r].kind = "refresh" BY <3>1 DEF Calm, Base, CallKinds
        <3>3. Refresher(r) /\ Refresher(r)' BY <3>1, NewRowIsAwaited DEF Calm
        <3>4. call[r].token = s BY <2>4 DEF Renews, Valid, Live
        <3>5. QED BY <3>1, <3>2, <3>3, <3>4
    <2>5. CASE Revokes(r)
        <3>1. pc[r] # "revoke" BY DEF Calm, CalmInv
        <3>2. pc[r] = "logout" /\ pc'[r] = "answered" /\ call[r].token = s
            BY <2>5, <3>1 DEF Revokes, Valid, Live
        <3>3. call[r].kind = "logout" BY <3>2 DEF Calm, Base, CallKinds
        <3>4. QED BY <3>2, <3>3 DEF TurnedAway
    <2>6. QED BY <2>2, <2>3, <2>4, <2>5
<1>3. ASSUME NEW o \in Ops, NEW r \in Requests, Signs(o, r) PROVE FALSE
    <2>1. \A t \in DOMAIN sessions : sessions'[t] = sessions[t] BY <1>3, SignInMakes DEF Calm
    <2>2. QED BY <2>1 DEF Valid, Live
<1>4. ASSUME NEW t \in DOMAIN sessions, SessionExpires(t) PROVE FALSE
    BY <1>4 DEF SessionExpires, Fault, Calm
<1>5. ASSUME NEW o \in Ops, NEW r \in Requests, LogoutArrives(o, r) \/ ReadToken(o, r) PROVE FALSE
    BY <1>1, <1>5 DEF LogoutArrives, ReadToken, LookupLogout, LookupRefresh, Limited
<1>6. QED
    BY <1>1, <1>2, <1>3, <1>4, <1>5
    DEF ClientNext, Begin, Signs, Continue, Request, SignOut, Restart, Bootstrap, Denied, Answered,
        SignedIn, SignedOut, NetworkFails, Refreshed, RefreshRefused, RefreshLost, Age, vars, allVars

LEMMA StoredIsGoodStep ==
    ASSUME Calm, [ClientNext]_allVars
    PROVE  StoredIsGood'
<1> SUFFICES ASSUME refreshToken' # None
             PROVE  \/ Valid(refreshToken)'
                    \/ \E q \in Requests : Refresher(q)' /\ call'[q].token = refreshToken'
    BY DEF StoredIsGood
<1>1. CASE refreshToken' = refreshToken
    <2>1. PICK t \in DOMAIN sessions : t = refreshToken BY <1>1 DEF Calm, Base, DeviceOK, Known
    <2>2. CASE Valid(t)
        <3>1. CASE Valid(t)' BY <1>1, <2>1, <3>1 DEF Valid, Live
        <3>2. CASE ~Valid(t)'
            <4>1. t \notin TurnedAway BY <2>1 DEF Calm, CalmInv, Apart
            <4>2. PICK r \in Requests : call[r].token = t /\ pc[r] = "insert" /\ Refresher(r)'
                BY <2>2, <3>2, <4>1, CalmRows
            <4>3. call'[r] = call[r] BY <4>2, BaseStep DEF CallsStay, Calm
            <4>4. QED BY <1>1, <2>1, <4>2, <4>3
        <3>3. QED BY <3>1, <3>2
    <2>3. CASE ~Valid(t)
        <3>1. PICK q \in Requests : Refresher(q) /\ call[q].token = t
            BY <1>1, <2>1, <2>3 DEF Calm, CalmInv, StoredIsGood
        <3>2. call'[q] = call[q] BY <3>1, RefresherIs, BaseStep DEF CallsStay, Calm
        <3>3. CASE Refresher(q)' BY <1>1, <2>1, <3>1, <3>2, <3>3
        <3>4. CASE ~Refresher(q)'
            <4>1. pc[q] = "answered" /\ UNCHANGED vars /\ refreshToken' = q
                BY <3>1, <3>4, RefresherEnds DEF Calm
            <4>2. Valid(q) BY <3>1, <4>1 DEF Calm, CalmInv, Promising
            <4>3. QED BY <4>1, <4>2 DEF vars, Valid, Live
        <3>5. QED BY <3>3, <3>4
    <2>4. QED BY <2>2, <2>3
<1>2. CASE refreshToken' # refreshToken
    <2>1. PICK o \in Ops : /\ refreshToken' = op[o].call /\ UNCHANGED vars
                           /\ result[refreshToken'] = "ok"
                           /\ at[o] = "refreshing" \/ LoggingIn(o)
        BY <1>2, StoredNext DEF Calm
    <2>2. CASE at[o] = "refreshing"
        <3>1. Refresher(refreshToken') BY <2>1, <2>2 DEF Refresher
        <3>2. refreshToken' \in Requests BY <3>1, RefresherIs DEF Calm
        <3>3. Promising(refreshToken') BY <3>1, <3>2 DEF Calm, CalmInv
        <3>4. refreshToken' \in DOMAIN sessions
            BY <2>1, <3>1, RefresherIs DEF Calm, Base, CallKinds
        <3>5. pc[refreshToken'] = "answered" BY <3>4 DEF Calm, Base, IInv, Stages
        <3>6. Valid(refreshToken') BY <3>3, <3>5 DEF Promising
        <3>7. QED BY <2>1, <3>6 DEF vars, Valid, Live
    <2>3. CASE LoggingIn(o)
        <3>1. Valid(refreshToken') BY <2>1, <2>3 DEF Calm, CalmInv, GoodLogin
        <3>2. QED BY <2>1, <3>1 DEF vars, Valid, Live
    <2>4. QED BY <2>1, <2>2, <2>3
<1>3. QED BY <1>1, <1>2

\* The stored token of a refresh that begins is valid.
LEMMA ReadIsValid ==
    ASSUME Calm, NEW o \in Ops, at[o] = "reading", refreshToken \in DOMAIN sessions
    PROVE  Valid(refreshToken)
<1>1. \A q : ~Refresher(q) BY OneRefresher DEF Refresher, Calm
<1>2. refreshToken # None BY NoneAssumption DEF Calm, Base, IInv, RowsOK
<1>3. QED BY <1>1, <1>2 DEF Calm, CalmInv, StoredIsGood

LEMMA NoReuseStep ==
    ASSUME Calm, [ClientNext]_allVars, NEW q \in Requests, pc'[q] \in {"reuse", "revoke"}
    PROVE  FALSE
<1>1. pc[q] \notin {"reuse", "revoke"} BY DEF Calm, CalmInv
<1>2. CASE pc[q] = "idle"
    <2>1. PICK o \in Ops : ReadToken(o, q) \/ LogoutArrives(o, q) BY <1>2, CallsNext DEF Calm
    <2>2. ReadToken(o, q)
        BY <2>1 DEF LogoutArrives, LookupLogout, Goto, Answer, Calm, Base, IInv, CallsOK
    <2>3. at[o] = "reading" /\ refreshToken # None
          /\ (LookupRefresh(q, refreshToken) \/ Limited(q, refreshToken))
        BY <2>2 DEF ReadToken
    <2>4. refreshToken \in DOMAIN sessions BY <2>3 DEF Calm, Base, DeviceOK, Known
    <2>5. Looks(q, "refresh", refreshToken) BY <2>3, <2>4, LookupMakes DEF Calm, Base
    <2>6. Valid(refreshToken) BY <2>3, <2>4, ReadIsValid
    <2>7. QED BY <2>5, <2>6 DEF Looks
<1>3. CASE pc[q] # "idle"
    <2>1. Step(q) \/ Fail(q) BY <1>1, <1>3, WorkNext DEF Calm
    <2>2. Works(q) \/ Renews(q) \/ Revokes(q) BY <2>1, StepMakes DEF Calm, Base
    <2>3. pc[q] = "rotate" /\ ~Valid(call[q].token) BY <1>1, <2>2 DEF Works, Renews, Revokes
    <2>4. Refresher(q) BY <2>3 DEF Calm, Undisturbed, Pending
    <2>5. q \in DOMAIN sessions BY <2>3, <2>4 DEF Calm, CalmInv, Promising
    <2>6. QED BY <2>3, <2>5 DEF Calm, Base, IInv, Stages
<1>4. QED BY <1>2, <1>3

LEMMA PromiseStep ==
    ASSUME Calm, [ClientNext]_allVars, NEW q \in Requests, Refresher(q)'
    PROVE  Promising(q)'
<1>1. CASE ~Refresher(q)
    <2>1. PICK o \in Ops : /\ at[o] = "reading" /\ refreshToken \in DOMAIN sessions
                           /\ Looks(q, "refresh", refreshToken)
        BY <1>1, RefresherStarts DEF Calm
    <2>2. Valid(refreshToken) BY <2>1, ReadIsValid
    <2>3. pc'[q] = "rotate" /\ call'[q].token = refreshToken /\ sessions' = sessions
        BY <2>1, <2>2 DEF Looks, Calm, calm
    <2>4. Valid(call[q].token)' BY <2>2, <2>3 DEF Valid, Live
    <2>5. QED BY <2>3, <2>4 DEF Promising
<1>2. CASE Refresher(q)
    <2>1. /\ Promising(q) /\ call[q].kind = "refresh" /\ call[q].token \in DOMAIN sessions
          /\ call'[q] = call[q] /\ pc[q] # "idle"
        BY <1>2, RefresherIs, BaseStep DEF Calm, CalmInv, CallsStay
    <2>2. ASSUME NEW r \in Requests, pc[r] = "insert", Refresher(r) PROVE r = q
        BY <1>2, <2>2, RefresherIs DEF Calm
    <2>3. CASE pc[q] \in {"rotate", "insert"} /\ Valid(call[q].token)
        <3>1. CASE pc'[q] = pc[q]
            <4>1. PICK t \in DOMAIN sessions : t = call[q].token BY <2>1
            <4>2. t \notin TurnedAway BY <2>1, <4>1 DEF Calm, CalmInv, Apart
            <4>3. Valid(t)' BY <2>2, <2>3, <3>1, <4>1, <4>2, CalmRows
            <4>4. Valid(call[q].token)' BY <2>1, <4>1, <4>3 DEF Valid, Live
            <4>5. QED BY <2>3, <3>1, <4>4 DEF Promising
        <3>2. CASE pc'[q] # pc[q]
            <4>1. (Step(q) \/ Fail(q)) /\ result'[q] # "error" BY <2>1, <3>2, WorkNext DEF Calm
            <4>2. Works(q) \/ Renews(q) \/ Revokes(q) BY <4>1, StepMakes DEF Calm, Base
            <4>3. CASE Works(q)
                <5>1. pc'[q] = "insert" /\ sessions' = sessions
                    BY <2>3, <4>1, <4>3 DEF Works
                <5>2. Valid(call[q].token)' BY <2>1, <2>3, <5>1 DEF Valid, Live
                <5>3. QED BY <5>1, <5>2 DEF Promising
            <4>4. CASE Renews(q) BY <4>1, <4>4 DEF Renews, Promising
            <4>5. CASE Revokes(q) BY <2>3, <4>5 DEF Revokes
            <4>6. QED BY <4>2, <4>3, <4>4, <4>5
        <3>3. QED BY <3>1, <3>2
    <2>4. CASE q \in DOMAIN sessions /\ result[q] = "ok" /\ Valid(q)
        <3>1. pc[q] = "answered" BY <2>4 DEF Calm, Base, IInv, Stages
        <3>2. q \in DOMAIN sessions' /\ result'[q] = "ok"
            BY <2>4, <3>1, BaseStep DEF Calm, RowsAge, CallsStay
        <3>3. q \notin TurnedAway BY <2>1 DEF Calm, CalmInv, Apart
        <3>4. Valid(q)' BY <2>2, <2>4, <3>1, <3>3, CalmRows
        <3>5. QED BY <3>2, <3>4 DEF Promising
    <2>5. QED BY <2>1, <2>3, <2>4 DEF Promising
<1>3. QED BY <1>1, <1>2

LEMMA GoodLoginStep ==
    ASSUME Calm, [ClientNext]_allVars, NEW o \in Ops, LoggingIn(o)'
    PROVE  GoodLogin(o)'
<1>1. CASE LoggingIn(o) /\ op'[o].call = op[o].call
    <2>1. PICK c \in DOMAIN sessions : c = op[o].call
        BY <1>1 DEF Calm, Base, PlacesOK, PlaceOK, CallKinds
    <2>2. LoginApart(o) /\ GoodLogin(o) BY <1>1 DEF Calm, LoginsApart, CalmInv
    <2>3. c \notin TurnedAway BY <1>1, <2>1 DEF Calm, CalmInv, Apart
    <2>4. ASSUME NEW r \in Requests, call[r].kind = "refresh" PROVE call[r].token # c
        BY <2>1, <2>2, <2>4 DEF LoginApart
    <2>5. Valid(c)' BY <2>1, <2>2, <2>3, <2>4, CalmRows DEF GoodLogin
    <2>6. pc[c] = "answered" /\ c \in Requests BY DEF Calm, Base, IInv, Stages, RowsOK
    <2>7. result'[c] = "ok" BY <2>1, <2>2, <2>6, BaseStep DEF Calm, CallsStay, GoodLogin
    <2>8. QED BY <1>1, <2>1, <2>5, <2>7 DEF GoodLogin, Valid, Live
<1>2. CASE op'[o].call \in Requests /\ Signs(o, op'[o].call)
    <2>1. PICK r \in Requests : r = op'[o].call /\ Signs(o, r) BY <1>2
    <2>2. Valid(r)' /\ (result'[r] = "ok" \/ faults' = faults + 1)
        BY <2>1, SignInMakes DEF Calm
    <2>3. result'[r] = "ok" BY <2>2 DEF Calm
    <2>4. QED BY <2>1, <2>2, <2>3 DEF GoodLogin, Valid, Live
<1>3. QED BY <1>1, <1>2, LoginNext DEF Calm

\* The panel turns a user away when the answer of the login is there.
LEMMA TurnedNext ==
    ASSUME Calm, [ClientNext]_allVars, NEW s \in TurnedAway'
    PROVE  \/ s \in TurnedAway
           \/ \E o \in Ops : /\ SignedIn(o) /\ LoggingIn(o) /\ s = op[o].call
                             /\ at'[o] = "sent" /\ op'[o].kind = "revoke"
<1>1. ASSUME NEW o \in Ops, op'[o].kind = "revoke", s = op'[o].body
      PROVE  \/ s \in TurnedAway
             \/ /\ SignedIn(o) /\ LoggingIn(o) /\ s = op[o].call
                /\ at'[o] = "sent" /\ op'[o].kind = "revoke"
    <2>1. Lives(o) BY OperationLives DEF Calm
    <2>2. op[o].kind = "revoke" /\ op[o].body = s => s \in TurnedAway BY DEF TurnedAway
    <2>3. CASE Same(o) BY <1>1, <2>2, <2>3, SameFields DEF Calm, Base
    <2>4. CASE Starts(o) BY <1>1, <2>4, NoOpIs DEF Starts
    <2>5. CASE Proceeds(o) BY <1>1, <2>2, <2>5 DEF Proceeds, SameRequest
    <2>6. CASE Ends(o) BY <1>1, <2>2, <2>6 DEF Ends
    <2>7. QED BY <2>1, <2>3, <2>4, <2>5, <2>6 DEF Lives
<1>2. ASSUME NEW q \in Requests, call'[q].kind = "logout", s = call'[q].token
      PROVE  s \in TurnedAway
    <2>1. CASE call'[q] = call[q] BY <1>2, <2>1 DEF TurnedAway
    <2>2. CASE call'[q] # call[q]
        <3>1. PICK o \in Ops : ReadToken(o, q) \/ LogoutArrives(o, q)
            BY <1>2, <2>2, CallsNext DEF Calm
        <3>2. LogoutArrives(o, q)
            BY <1>2, <3>1 DEF ReadToken, LookupRefresh, Limited, Asks, Calm, Base, IInv, CallsOK
        <3>3. op[o].kind = "revoke" /\ s = op[o].body
            BY <1>2, <3>2
            DEF LogoutArrives, LookupLogout, Asks, Calm, calm, Base, IInv, CallsOK
        <3>4. QED BY <3>3 DEF TurnedAway
    <2>3. QED BY <2>1, <2>2
<1>3. QED BY <1>1, <1>2 DEF TurnedAway

LEMMA ApartStep ==
    ASSUME Calm, [ClientNext]_allVars, NEW s \in TurnedAway'
    PROVE  Apart(s)'
<1>1. CASE s \in TurnedAway
    <2>1. Apart(s) BY <1>1 DEF Calm, CalmInv
    <2>2. s \in Requests /\ pc[s] # "idle" /\ call'[s].kind = "login"
        BY <2>1, BaseStep, CallsBegun DEF Apart, Calm, Base
    <2>3. s # refreshToken'
        <3>1. CASE refreshToken' \in {refreshToken, None}
            BY <2>1, <3>1, NoneAssumption DEF Apart
        <3>2. CASE refreshToken' \notin {refreshToken, None}
            <4>1. PICK p \in Ops : refreshToken' = op[p].call /\ (at[p] = "refreshing" \/ LoggingIn(p))
                BY <3>2, StoredNext DEF Calm
            <4>2. CASE at[p] = "refreshing"
                BY <2>1, <4>1, <4>2 DEF Apart, Calm, Base, PlacesOK, PlaceOK
            <4>3. CASE LoggingIn(p) BY <2>1, <4>1, <4>3 DEF Apart
            <4>4. QED BY <4>1, <4>2, <4>3
        <3>3. QED BY <3>1, <3>2
    <2>4. ASSUME NEW q \in Requests, call'[q].kind = "refresh" PROVE call'[q].token # s
        BY <2>1, <2>4, RefreshPresents DEF Apart, Calm
    <2>5. ASSUME NEW o \in Ops, LoggingIn(o)' PROVE op'[o].call # s
        <3>1. CASE LoggingIn(o) /\ op'[o].call = op[o].call BY <2>1, <3>1 DEF Apart
        <3>2. ASSUME op'[o].call \in Requests, Signs(o, op'[o].call) PROVE op'[o].call # s
            <4>1. pc[op'[o].call] = "idle" BY <3>2 DEF Signs, SignIn, FreshCall
            <4>2. QED BY <2>2, <4>1
        <3>3. QED BY <2>5, <3>1, <3>2, LoginNext DEF Calm
    <2>6. QED BY <2>2, <2>3, <2>4, <2>5 DEF Apart
<1>2. ASSUME NEW o \in Ops, SignedIn(o), LoggingIn(o), s = op[o].call,
             at'[o] = "sent", op'[o].kind = "revoke"
      PROVE  Apart(s)'
    <2>1. LoginApart(o) /\ s \in Requests /\ call[s].kind = "login"
        BY <1>2 DEF Calm, LoginsApart, Base, PlacesOK, PlaceOK
    <2>2. UNCHANGED vars /\ refreshToken' = refreshToken
        BY <1>2 DEF SignedIn, MoveTo, KeepTokens, Calm, Base, DeviceOK
    <2>3. UNCHANGED <<pc, call>> BY <2>2 DEF vars
    <2>4. ASSUME NEW p \in Ops, LoggingIn(p)' PROVE op'[p].call # s
        <3>1. CASE LoggingIn(p)
            <4>1. p = o BY <2>1, <3>1 DEF LoginApart
            <4>2. QED BY <1>2, <2>4, <4>1 DEF LoggingIn
        <3>2. ASSUME op'[p].call \in Requests, Signs(p, op'[p].call) PROVE FALSE
            <4>1. pc[op'[p].call] = "idle" /\ pc'[op'[p].call] = "answered"
                BY <3>2, SignInMakes DEF Calm
            <4>2. QED BY <2>3, <4>1
        <3>3. QED BY <2>4, <3>1, <3>2, LoginNext DEF Calm
    <2>5. QED BY <1>2, <2>1, <2>2, <2>3, <2>4 DEF Apart, LoginApart
<1>3. QED BY <1>1, <1>2, TurnedNext

LEMMA CalmStep ==
    ASSUME DeviceInv, CalmInv, [ClientNext]_allVars
    PROVE  CalmInv'
<1> SUFFICES ASSUME calm' PROVE CalmInv' BY DEF CalmInv
<1>1. Calm BY CalmBefore DEF DeviceInv, Calm, calm
<1>2. HoldsBoth' BY <1>1, HoldsBothStep
<1>3. StoredIsGood' BY <1>1, StoredIsGoodStep
<1>4. \A q \in Requests : pc'[q] \notin {"reuse", "revoke"} BY <1>1, NoReuseStep
<1>5. \A q \in Requests : Refresher(q)' => Promising(q)' BY <1>1, PromiseStep
<1>6. \A o \in Ops : LoggingIn(o)' => GoodLogin(o)' BY <1>1, GoodLoginStep
<1>7. \A s \in TurnedAway' : Apart(s)' BY <1>1, ApartStep
<1>8. QED BY <1>2, <1>3, <1>4, <1>5, <1>6, <1>7 DEF CalmInv

LEMMA CalmInit == ClientInit => CalmInv
<1> SUFFICES ASSUME ClientInit PROVE CalmInv OBVIOUS
<1>1. /\ \A o \in Ops : at[o] = "idle" /\ op[o] = NoOp
      /\ accessToken = None /\ refreshToken = None
      /\ \A q \in Requests : pc[q] = "idle" /\ call[q].kind = "none"
    BY DEF ClientInit, Init, NoCall
<1>2. TurnedAway = {} BY <1>1, NoOpIs DEF TurnedAway
<1>3. HoldsBoth /\ StoredIsGood BY <1>1 DEF HoldsBoth, StoredIsGood, Active
<1>4. \A o \in Ops : ~LoggingIn(o) BY <1>1 DEF LoggingIn
<1>5. \A q : ~Refresher(q) BY <1>1 DEF Refresher
<1>6. QED BY <1>1, <1>2, <1>3, <1>4, <1>5 DEF CalmInv

\* Nobody is sent to the login page who could have stayed signed in, as long as
\* nothing goes wrong and the limiter refuses no refresh (client.ts request and refresh, auth/service.go Refresh).
THEOREM CalmDevicesStaySignedIn == ClientSpec => StaysSignedIn
<1>1. ASSUME DeviceInv, CalmInv, [ClientNext]_allVars
      PROVE  [\A o \in Ops :
                 calm' /\ at[o] # "torn" /\ at'[o] = "torn" => op[o].kind = "revoke"]_allVars
    <2> SUFFICES ASSUME NEW o \in Ops, calm', at[o] # "torn", at'[o] = "torn"
                 PROVE  op[o].kind = "revoke"
        OBVIOUS
    <2>1. Calm BY <1>1, CalmBefore DEF DeviceInv, Calm, calm
    <2>2. Lives(o) BY <1>1, OperationLives DEF DeviceInv
    <2>3. Ends(o) BY <2>2 DEF Lives, Same, Starts, Proceeds
    <2>4. CASE op[o].retried
        <3>1. op'[o] = op[o] BY <2>3 DEF Ends
        <3>2. QED BY <2>4, <3>1 DEF calm
    <2>5. CASE \E p \in Ops : (RefreshRefused(p) \/ RefreshLost(p)) /\ o \in Waiters(p)
        BY <1>1, <2>1, <2>5, NothingRefused
    <2>6. QED BY <2>3, <2>4, <2>5 DEF Ends
<1>2. DeviceInv /\ CalmInv /\ [ClientNext]_allVars => DeviceInv' /\ CalmInv'
    BY DeviceInvStep, CalmStep
<1>3. QED BY <1>1, <1>2, CalmInit, DeviceInvInit, ClientParts, PTL DEF StaysSignedIn

=============================================================================
