----------------------------- MODULE ApiClient ------------------------------
(***************************************************************************)
(* One device with the mobile application or the administrators' panel:    *)
(* its operations share the tokens and one running refresh, and meet the   *)
(* statements of the server (Sessions) over a network that may lose a      *)
(* request or an answer.  The access and the refresh token of a session    *)
(* are named by the session.                                               *)
(***************************************************************************)
EXTENDS Sessions

CONSTANTS
    Ops,            \* the operations the application starts, in their order
    Admins,         \* the users the panel lets in
    MaxFaults       \* bound on what goes wrong in one behaviour

ASSUME OperationsAssumption == None \notin Ops

VARIABLES
    app,            \* "mobile" keeps the refresh token over a restart, "admin" does not
    status,         \* "bootstrapping" until the start of the application is over
    user,
    accessToken,
    refreshToken,
    aged,           \* sessions whose access token has expired
    refreshPromise, \* the operation whose refresh the others wait for
    at,             \* where an operation is
    op,             \* what it asks
    faults          \* how often an answer was lost, a statement failed or a
                    \* session expired

clientVars == <<app, status, user, accessToken, refreshToken, aged,
                refreshPromise, at, op, faults>>
allVars == <<vars, clientVars>>

NoOp == [kind |-> "none", sent |-> None, body |-> None, call |-> None,
         retried |-> FALSE, overlapped |-> FALSE]

\* The first start finds no token.
ClientInit ==
    /\ Init
    /\ app \in {"mobile", "admin"}
    /\ status = "ready"
    /\ user = None /\ accessToken = None /\ refreshToken = None
    /\ aged = {}
    /\ refreshPromise = None
    /\ at = [o \in Ops |-> "idle"]
    /\ op = [o \in Ops |-> NoOp]
    /\ faults = 0

Ended == {"idle", "done", "torn", "gone"}
Running == {o \in Ops : at[o] \notin Ended}
Refreshing == {o \in Ops : at[o] \in {"reading", "refreshing"}}
Waiting == {o \in Ops : at[o] \in {"reading", "refreshing", "waiting"}}

isAuthenticated == status = "ready" /\ user # None /\ accessToken # None

\* Nothing went wrong so far, the limiter refused no refresh, nobody signed out,
\* and no renewed access token expired before the one retry arrived.
calm ==
    /\ faults = 0
    /\ \A r \in Requests : result[r] # "limited"
    /\ \A o \in Ops : op[o].kind # "logout" /\ ~(at[o] = "torn" /\ op[o].retried)

Fault == faults < MaxFaults /\ faults' = faults + 1

\* Operations and calls are taken in order: their names mean nothing.
FreshOp(o) == at[o] = "idle" /\ \A p \in Ops : p < o => at[p] # "idle"
FreshCall(r) == pc[r] = "idle" /\ \A q \in Requests : q < r => pc[q] # "idle"

MoveTo(o, place) == at' = [at EXCEPT ![o] = place]

\* The headers are built when a request is sent.
Ask(o, request) ==
    /\ at' = [at EXCEPT ![o] = "sent"]
    /\ op' = [op EXCEPT ![o] = request]

\* clearSession
ClearSession == accessToken' = None /\ user' = None /\ refreshToken' = None

KeepTokens == UNCHANGED <<accessToken, refreshToken, user>>

-----------------------------------------------------------------------------
(* Starting an operation. *)

\* login and register: no token is needed, and the server's INSERT is one step.
SignIn(o, r, u, acknowledged) ==
    /\ FreshOp(o) /\ FreshCall(r) /\ status = "ready" /\ ~isAuthenticated
    /\ \A p \in Running : op[p].kind \notin {"login", "revoke"}
    /\ Ask(o, [NoOp EXCEPT !.kind = "login", !.call = r])
    /\ Login(r, u, acknowledged)
    /\ IF acknowledged THEN UNCHANGED faults ELSE Fault
    /\ KeepTokens /\ UNCHANGED <<app, status, aged, refreshPromise>>

\* Any other request of a page behind the middleware.
Request(o) ==
    /\ FreshOp(o) /\ isAuthenticated
    /\ Ask(o, [NoOp EXCEPT !.kind = "private", !.sent = accessToken])
    /\ KeepTokens
    /\ UNCHANGED <<vars, app, status, aged, refreshPromise, faults>>

\* logout presents the stored token, if there is one.
SignOut(o) ==
    /\ FreshOp(o) /\ isAuthenticated
    /\ LET request == [NoOp EXCEPT !.kind = "logout", !.sent = accessToken,
                          !.body = refreshToken, !.overlapped = Waiting # {} \/ faults # 0]
       IN  IF refreshToken = None
           THEN ClearSession /\ MoveTo(o, "done") /\ op' = [op EXCEPT ![o] = request]
           ELSE Ask(o, request) /\ KeepTokens
    /\ UNCHANGED <<vars, app, status, aged, refreshPromise, faults>>

\* The process ends at any moment and starts again: what was in memory is gone,
\* requests that were sent go on at the server, and bootstrap is the first
\* operation.
Restart(o) ==
    /\ FreshOp(o) /\ \E p \in Ops : p < o
    /\ status' = "bootstrapping"
    /\ user' = None /\ accessToken' = None
    /\ refreshToken' = IF app = "mobile" THEN refreshToken ELSE None
    /\ refreshPromise' = None
    /\ at' = [p \in Ops |-> IF p = o THEN "boot" ELSE IF p \in Running THEN "gone" ELSE at[p]]
    /\ IF Refreshing = {} /\ \A p \in Running : op[p].kind # "login"
       THEN UNCHANGED faults ELSE Fault
    /\ UNCHANGED <<vars, app, aged, op>>

\* bootstrap asks for the user if a refresh token is stored.
Bootstrap(o) ==
    /\ at[o] = "boot"
    /\ IF refreshToken = None
       THEN MoveTo(o, "done") /\ status' = "ready" /\ UNCHANGED op
       ELSE Ask(o, [NoOp EXCEPT !.kind = "me", !.sent = accessToken]) /\ UNCHANGED status
    /\ KeepTokens
    /\ UNCHANGED <<vars, app, aged, refreshPromise, faults>>

-----------------------------------------------------------------------------
(* The answer of an operation. *)

\* The middleware admits a signed token that has not expired, also of a session
\* that was revoked.
Admitted(o) == op[o].sent # None /\ op[o].sent \notin aged

\* 401 a second time, or no refresh: the client drops its tokens, and the store
\* its session, before the operation fails; the application shows the login page.
TearDown(failed) ==
    /\ ClearSession
    /\ status' = "ready"
    /\ at' = [o \in Ops |-> IF o \in failed THEN "torn" ELSE at[o]]
    /\ refreshPromise' = IF refreshPromise \in failed THEN None ELSE refreshPromise

\* Mutant: every 401 starts a refresh of its own.
JoinRefreshAlone(o) ==
    /\ MoveTo(o, "reading")
    /\ refreshPromise' = o
    /\ op' = [p \in Ops |-> IF p \in Running /\ op[p].kind = "logout"
                            THEN [op[p] EXCEPT !.overlapped = TRUE] ELSE op[p]]
    /\ KeepTokens /\ UNCHANGED <<status, faults>>

\* A first 401 starts a refresh, or waits for the running one.
JoinRefresh(o) ==
    /\ MoveTo(o, IF refreshPromise = None THEN "reading" ELSE "waiting")
    /\ refreshPromise' = IF refreshPromise = None THEN o ELSE refreshPromise
    /\ op' = [p \in Ops |-> IF p \in Running /\ op[p].kind = "logout"
                            THEN [op[p] EXCEPT !.overlapped = TRUE] ELSE op[p]]
    /\ KeepTokens /\ UNCHANGED <<status, faults>>

Unauthorized(o) ==
    IF op[o].retried THEN TearDown({o}) /\ UNCHANGED <<op, faults>>
    ELSE JoinRefresh(o)

Denied(o) ==
    /\ at[o] = "sent" /\ op[o].kind # "login" /\ ~Admitted(o)
    /\ Unauthorized(o)
    /\ UNCHANGED <<vars, app, aged>>

\* The answer of a request without a call of Sessions; bootstrap keeps the user.
Answered(o) ==
    /\ at[o] = "sent" /\ op[o].kind \in {"private", "me"} /\ Admitted(o)
    /\ MoveTo(o, "done")
    /\ IF op[o].kind = "me"
       THEN user' = sessions[op[o].sent].user /\ status' = "ready"
       ELSE UNCHANGED <<user, status>>
    /\ UNCHANGED <<vars, app, accessToken, refreshToken, aged, refreshPromise, op, faults>>

\* A login is stored; the panel turns other roles away and tries to revoke the
\* new session with the token of nobody.
SignedIn(o) ==
    LET r == op[o].call
    IN  /\ at[o] = "sent" /\ op[o].kind = "login"
        /\ IF result[r] # "ok" THEN MoveTo(o, "done") /\ UNCHANGED op /\ KeepTokens
           ELSE IF app = "admin" /\ sessions[r].user \notin Admins
           THEN /\ Ask(o, [NoOp EXCEPT !.kind = "revoke", !.sent = accessToken, !.body = r])
                /\ KeepTokens
           ELSE /\ MoveTo(o, "done") /\ UNCHANGED op
                /\ accessToken' = r /\ refreshToken' = r /\ user' = sessions[r].user
        /\ UNCHANGED <<vars, app, status, aged, refreshPromise, faults>>

\* The server looks the token of a logout up.
LogoutArrives(o, r) ==
    /\ at[o] = "sent" /\ op[o].kind \in {"logout", "revoke"} /\ Admitted(o) /\ FreshCall(r)
    /\ LookupLogout(r, op[o].body, sessions[op[o].sent].user)
    /\ MoveTo(o, "served") /\ op' = [op EXCEPT ![o].call = r]
    /\ KeepTokens /\ UNCHANGED <<app, status, aged, refreshPromise, faults>>

\* Whatever the answer, logout clears the local state; the panel's own attempt
\* stored nothing.
SignedOut(o) ==
    /\ at[o] = "served" /\ pc[op[o].call] = "answered"
    /\ IF result[op[o].call] = "unauthorized" THEN Unauthorized(o)
       ELSE /\ MoveTo(o, "done")
            /\ IF op[o].kind = "logout" THEN ClearSession ELSE KeepTokens
            /\ UNCHANGED <<status, refreshPromise, op, faults>>
    /\ UNCHANGED <<vars, app, aged>>

\* A request or its answer is lost, and the operation fails without a 401.
NetworkFails(o) ==
    /\ at[o] \in {"sent", "served"}
    /\ MoveTo(o, "done")
    /\ CASE op[o].kind = "logout" -> ClearSession /\ UNCHANGED status
         [] op[o].kind = "me" ->
               refreshToken' = None /\ status' = "ready" /\ UNCHANGED <<user, accessToken>>
         [] OTHER -> KeepTokens /\ UNCHANGED status
    /\ IF op[o].kind = "private" THEN UNCHANGED faults ELSE Fault
    /\ UNCHANGED <<vars, app, aged, refreshPromise, op>>

-----------------------------------------------------------------------------
(* The refresh. *)

\* The operations that wait for the refresh of o.
Waiters(o) == {o} \cup {p \in Ops : at[p] = "waiting"}

\* The stored token is read and sent; the server looks it up, unless its limiter
\* refuses the request before.
ReadToken(o, r) ==
    /\ at[o] = "reading" /\ refreshToken # None /\ FreshCall(r)
    /\ LookupRefresh(r, refreshToken) \/ Limited(r, refreshToken)
    /\ MoveTo(o, "refreshing") /\ op' = [op EXCEPT ![o].call = r]
    /\ KeepTokens /\ UNCHANGED <<app, status, aged, refreshPromise, faults>>

Resend(resent, token) ==
    /\ at' = [o \in Ops |-> IF o \in resent THEN "sent" ELSE at[o]]
    /\ op' = [o \in Ops |->
                 IF o \in resent
                 THEN [op[o] EXCEPT !.sent = token, !.retried = TRUE, !.call = None]
                 ELSE op[o]]

\* Mutant: the new refresh token is not stored.
RefreshedUnstored(o) ==
    LET r == op[o].call
    IN  /\ at[o] = "refreshing" /\ pc[r] = "answered" /\ result[r] = "ok"
        /\ accessToken' = r
        /\ refreshPromise' = None
        /\ Resend(Waiters(o), r)
        /\ UNCHANGED <<vars, app, status, user, refreshToken, aged, faults>>

\* Mutant: only the operation that started the refresh goes on.
RefreshedResumesOne(o) ==
    LET r == op[o].call
    IN  /\ at[o] = "refreshing" /\ pc[r] = "answered" /\ result[r] = "ok"
        /\ refreshToken' = r /\ accessToken' = r
        /\ refreshPromise' = None
        /\ Resend({o}, r)
        /\ UNCHANGED <<vars, app, status, user, aged, faults>>

\* The new pair is stored, whoever is signed in by now, and all that wait send
\* their request again, with the body they had.
Refreshed(o) ==
    LET r == op[o].call
    IN  /\ at[o] = "refreshing" /\ pc[r] = "answered" /\ result[r] = "ok"
        /\ refreshToken' = r /\ accessToken' = r
        /\ refreshPromise' = None
        /\ Resend(Waiters(o), r)
        /\ UNCHANGED <<vars, app, status, user, aged, faults>>

\* No token is stored, or the server refuses it.
RefreshRefused(o) ==
    /\ \/ at[o] = "reading" /\ refreshToken = None
       \/ at[o] = "refreshing" /\ pc[op[o].call] = "answered" /\ result[op[o].call] # "ok"
    /\ TearDown(Waiters(o))
    /\ UNCHANGED <<vars, app, aged, op, faults>>

\* A refresh that gets no answer counts as refused.
RefreshLost(o) ==
    /\ at[o] = "refreshing"
    /\ TearDown(Waiters(o))
    /\ Fault
    /\ UNCHANGED <<vars, app, aged, op>>

-----------------------------------------------------------------------------
ServerStep(r) ==
    /\ Step(r)
    /\ IF result'[r] # "error" THEN UNCHANGED faults ELSE Fault
    /\ UNCHANGED <<app, status, user, accessToken, refreshToken, aged, refreshPromise, at, op>>

ServerFails(r) ==
    /\ Fail(r)
    /\ Fault
    /\ UNCHANGED <<app, status, user, accessToken, refreshToken, aged, refreshPromise, at, op>>

SessionExpires(s) ==
    /\ Expire(s)
    /\ Fault
    /\ UNCHANGED <<app, status, user, accessToken, refreshToken, aged, refreshPromise, at, op>>

\* An access token reaches its end (one that nobody holds is left out).
Age(s) ==
    /\ s = accessToken \/ \E o \in Running : op[o].sent = s
    /\ s \notin aged
    /\ aged' = aged \cup {s}
    /\ KeepTokens /\ UNCHANGED <<vars, app, status, refreshPromise, at, op, faults>>

Begin(o) ==
    \/ \E r \in Requests, u \in Users, acknowledged \in BOOLEAN : SignIn(o, r, u, acknowledged)
    \/ Request(o)
    \/ SignOut(o)
    \/ Restart(o)

\* What the application does by itself once an answer is there.
Continue(o) ==
    \/ Bootstrap(o)
    \/ Denied(o) \/ Answered(o) \/ SignedIn(o) \/ SignedOut(o)
    \/ \E r \in Requests : LogoutArrives(o, r) \/ ReadToken(o, r)
    \/ Refreshed(o) \/ RefreshRefused(o)

ClientNext ==
    \/ \E o \in Ops : Begin(o) \/ Continue(o) \/ NetworkFails(o) \/ RefreshLost(o)
    \/ \E r \in Requests : ServerStep(r) \/ ServerFails(r)
    \/ \E s \in DOMAIN sessions : SessionExpires(s) \/ Age(s)

\* The event loop runs what is ready, the network delivers or reports a failure,
\* and the server answers; nothing has to be lost, to expire or to be asked.
ClientSpec ==
    /\ ClientInit /\ [][ClientNext]_allVars
    /\ \A o \in Ops : WF_allVars(Continue(o))
    /\ \A r \in Requests : WF_allVars(ServerStep(r))

-----------------------------------------------------------------------------
\* Nobody is sent to the login page who could have stayed signed in: as long as
\* no answer is lost, no statement fails, no session expires, nobody signs out,
\* no access token expires again before the one retry arrives and the limiter
\* refuses no refresh, any number of requests, late answers and restarts leave a
\* chain of tokens that refreshes.  (A refused refresh does send a device that met
\* no fault to the login page: the client takes its 429 for the end of the session.)
\* (The panel turns users of another role away.)
StaysSignedIn ==
    [][\A o \in Ops :
          calm' /\ at[o] # "torn" /\ at'[o] = "torn" => op[o].kind = "revoke"]_allVars

\* A confirmed logout leaves no valid session of its family behind, if no refresh
\* was under way (one that is leaves a session behind: the logout presents the
\* token it replaces) and, before it, no answer was lost, no statement failed and
\* no session expired.  Earlier logouts, refusals and restarts do not matter.
QuietLogoutEnds ==
    \A o \in Ops :
        (at[o] = "done" /\ op[o].kind = "logout" /\ op[o].call # None
           /\ result[op[o].call] = "ok" /\ ~op[o].overlapped)
        => \A s \in FamilyOf(op[o].body) : ~Live(s)

\* Every operation ends, also one that waits for the refresh of another.
EveryOperationEnds == \A o \in Ops : o \in Running ~> o \notin Running

=============================================================================
