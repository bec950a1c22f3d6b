------------------------------ MODULE Requests ------------------------------
(***************************************************************************)
(* The requests the HTTP server works on, each in its own goroutine, and   *)
(* what the middleware does before a handler runs: the access token, the   *)
(* role, and a limiter of calls per scope and address.  The modules of the *)
(* services extend this one; a service names the next step of a request in *)
(* pc, and every lock of the database is a function of pc, so that ending  *)
(* a request in any way releases what it holds.                            *)
(***************************************************************************)
EXTENDS Integers, Sequences, FiniteSets

CONSTANTS
    Calls,      \* the requests that may come in, numbered in their order
    Mixes,      \* workloads, by name: what is stored at first, the requests to draw from
    Scopes,     \* the rate-limited operations
    Addresses,  \* client addresses
    LimitOf,    \* calls of a scope and an address admitted in a window
    Window,
    AdminOps,   \* operations under /admin
    PublicOps,  \* operations that need no access token
    None

ASSUME RequestAssumption ==
    /\ LimitOf \in [Scopes -> Nat \ {0}]
    /\ Window \in Nat \ {0}
    /\ Calls \subseteq Nat
\* None is no call and no refusal.
ASSUME NoneAssumption ==
    None \notin Calls /\ None \notin {"unauthorized", "forbidden", "rate_limited"}

VARIABLES
    load,       \* the name of the workload of this behaviour
    now,        \* the clock
    pc,
    req,        \* the request of a call
    ans,        \* its answer
    audit,      \* audit_logs, in the order of the commits
    hits,       \* RateLimiter.hits: the admitted calls that are remembered
    at          \* the time the middleware let a call through or refused it

requestVars == <<load, now, pc, req, ans, audit, hits, at>>
limiterVars == <<load, now, req, hits, at>>

\* Requests, calls and until bound a workload; faults says whether anything fails.
mix == Mixes[load]

Keys == Scopes \X Addresses

RequestsInit ==
    /\ load \in DOMAIN Mixes
    /\ now = 0
    /\ pc = [c \in Calls |-> "idle"]
    /\ req = [c \in Calls |-> None]
    /\ ans = [c \in Calls |-> None]
    /\ audit = <<>>
    /\ hits = [k \in Keys |-> {}]
    /\ at = [c \in Calls |-> None]

User(c) == req[c].user
Active(c) == pc[c] \notin {"idle", "done"}
Answered(c, statuses) == pc[c] = "done" /\ ans[c] \in statuses

Go(c, label) ==
    /\ pc' = [pc EXCEPT ![c] = label]
    /\ UNCHANGED ans

Answer(c, status) ==
    /\ pc' = [pc EXCEPT ![c] = "done"]
    /\ ans' = [ans EXCEPT ![c] = status]

\* The answer to a commit: the commit may take effect and still be reported as
\* failed when the connection to the database breaks.
AnswerCommit(c, status) == Answer(c, status) \/ (mix.faults /\ Answer(c, "internal"))

\* created_at is the begin of the transaction, which lies before its commit.
Audited(c, action) ==
    \E begin \in at[c]..now :
        audit' = Append(audit, [action |-> action, call |-> c, created |-> begin])

\* An entry outside any transaction, whose failure is ignored.
BestEffortAudit(c, action) ==
    \/ audit' = Append(audit, [action |-> action, call |-> c, created |-> now])
    \/ mix.faults /\ UNCHANGED audit

\* Calls that wait for each other in a circle; waits is a set of pairs.
InCircle(c, waits) ==
    \E S \in SUBSET Calls :
        /\ c \in S
        /\ \A d \in S : (\E e \in S : <<d, e>> \in waits)
                       /\ (\E e \in S : <<e, d>> \in waits)

-----------------------------------------------------------------------------
\* The claims of a token are valid until its expiry; the role is the one the
\* user had when the token was signed.
Verify(token) == token # None /\ now < token.expires

Key(r) == <<r.op, r.address>>

\* A body, an id or a filter that cannot be read is refused before any service
\* sees it, but after the limiter has counted the call.
Entry(r) == IF r.malformed THEN "malformed" ELSE r.op

\* Mutant: the window is closed at its old end.
KeptClosed(k) == {d \in hits[k] : at[d] >= now - Window}

\* The hits inside the window, which is open at its old end.
Kept(k) == {d \in hits[k] : at[d] > now - Window}

\* RateLimiter.Allow: the old hits are dropped whatever the verdict.
Allow(c, r) ==
    IF Cardinality(Kept(Key(r))) >= LimitOf[r.op]
    THEN /\ hits' = [hits EXCEPT ![Key(r)] = Kept(Key(r))]
         /\ Answer(c, "rate_limited")
    ELSE /\ hits' = [hits EXCEPT ![Key(r)] = Kept(Key(r)) \cup {c}]
         /\ Go(c, Entry(r))

\* A request comes in and passes RequireAuth, RequireAdmin and RateLimit, as
\* far as its route has them, in this order.
Receive(c) ==
    /\ pc[c] = "idle" /\ c <= mix.calls
    /\ \A d \in Calls : d < c => pc[d] # "idle"
    /\ \E r \in mix.requests :
          /\ req' = [req EXCEPT ![c] = r]
          /\ at' = [at EXCEPT ![c] = now]
          /\ IF r.op \notin PublicOps /\ ~Verify(r.token)
             THEN Answer(c, "unauthorized") /\ UNCHANGED <<hits, audit>>
             ELSE IF r.op \in AdminOps /\ r.token.role # "admin"
             THEN /\ Answer(c, "forbidden")
                  /\ BestEffortAudit(c, "admin.role_denied")
                  /\ UNCHANGED hits
             ELSE /\ IF r.op \in Scopes THEN Allow(c, r)
                                        ELSE Go(c, Entry(r)) /\ UNCHANGED hits
                  /\ UNCHANGED audit
    /\ UNCHANGED <<load, now>>

Refuse(c) ==
    /\ pc[c] = "malformed"
    /\ Answer(c, "bad_request")
    /\ UNCHANGED <<limiterVars, audit>>

\* The database, the disk or the caller goes away: the open transaction is
\* rolled back and the call ends as an internal error.
Fail(c) ==
    /\ Active(c) /\ mix.faults
    /\ Answer(c, "internal")
    /\ UNCHANGED <<limiterVars, audit>>

Tick ==
    /\ now < mix.until
    /\ now' = now + 1
    /\ UNCHANGED <<load, pc, req, ans, audit, hits, at>>

-----------------------------------------------------------------------------
Limited(c) ==
    req[c] # None /\ req[c].op \in Scopes /\ ans[c] \notin {"unauthorized", "forbidden"}

\* The calls admitted for the same scope and address, in the window that ends
\* when c comes in.
InWindow(c) ==
    {d \in Calls : /\ Limited(d) /\ ans[d] # "rate_limited"
                   /\ Key(req[d]) = Key(req[c])
                   /\ at[d] > at[c] - Window /\ at[d] <= at[c]}

\* However calls meet at the end of a window, no window ever holds more
\* admitted calls of one scope and address than the limit, and a call is
\* refused only when the window that ends at it is full (registration, login,
\* visual refresh and the changes of the administrator).
LimiterExact ==
    \A c \in Calls : Limited(c) =>
        IF ans[c] = "rate_limited" THEN Cardinality(InWindow(c)) >= LimitOf[req[c].op]
        ELSE Cardinality(InWindow(c)) <= LimitOf[req[c].op]

=============================================================================
