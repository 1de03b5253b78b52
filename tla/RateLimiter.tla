----------------------------- MODULE RateLimiter -----------------------------
(***************************************************************************)
(* The sliding-window rate limiter of the API, app/main.py.                *)
(*                                                                         *)
(* rate_limit_middleware runs on the event loop and RateLimiter.is_allowed *)
(* contains no await, so a call to it is one atomic step.  log[c] is       *)
(* self.requests[client_id]: the stamps kept for a client; a stamp carries *)
(* a serial number because two requests may share a clock reading.         *)
(* admitted[c] is a history variable: everything c was ever let through.   *)
(* The clock (time.time()) is taken to move forward only.                  *)
(***************************************************************************)
EXTENDS Naturals, FiniteSets

CONSTANTS
    Clients,      \* client hosts, the keys of self.requests
    MaxRequests,  \* max_requests, 100 in the deployed limiter
    Window,       \* window_seconds, 60 in the deployed limiter
    Horizon       \* bound on the clock of an instance

ASSUME LimiterAssumption ==
    /\ MaxRequests \in Nat \ {0}
    /\ Window \in Nat \ {0}
    /\ Horizon \in Nat

VARIABLES
    now,       \* time.time()
    log,       \* self.requests
    verdict,   \* the middleware's latest answer to each client
    admitted   \* history: every request a client was let through

vars == <<now, log, verdict, admitted>>

Stamp == [n : Nat \ {0}, at : 0..Horizon]

\* Slip: the stamp holds the end of the window instead of the time of the request.
ExpiryStamp(c) == [n |-> Cardinality(admitted[c]) + 1, at |-> now + Window]

\* The stamp appended at line 105.
NewStamp(c) == [n |-> Cardinality(admitted[c]) + 1, at |-> now]

\* Slip: the comparison off by one, so that a stamp leaves too early.
PrunedTooEarly(c) == {e \in log[c] : now - e.at < Window - 1}

\* Keep the stamps that are younger than the window.
Pruned(c) == {e \in log[c] : now - e.at < Window}

Init ==
    /\ now = 0
    /\ log = [c \in Clients |-> {}]
    /\ verdict = [c \in Clients |-> "none"]
    /\ admitted = [c \in Clients |-> {}]

Tick ==
    /\ now < Horizon
    /\ now' = now + 1
    /\ UNCHANGED <<log, verdict, admitted>>

\* Slip: a refused request is stamped too, so that retrying keeps a client out.
RefuseAndStamp(c) ==
    /\ Cardinality(Pruned(c)) >= MaxRequests
    /\ log' = [log EXCEPT ![c] = Pruned(c) \union {NewStamp(c)}]
    /\ verdict' = [verdict EXCEPT ![c] = "refused"]
    /\ UNCHANGED <<now, admitted>>

\* is_allowed returns False: the pruned list is stored, the request answered 429.
Refuse(c) ==
    /\ Cardinality(Pruned(c)) >= MaxRequests
    /\ log' = [log EXCEPT ![c] = Pruned(c)]
    /\ verdict' = [verdict EXCEPT ![c] = "refused"]
    /\ UNCHANGED <<now, admitted>>

\* is_allowed returns True: the request is stamped and handed to call_next.
Admit(c) ==
    /\ Cardinality(Pruned(c)) < MaxRequests
    /\ log' = [log EXCEPT ![c] = Pruned(c) \union {NewStamp(c)}]
    /\ admitted' = [admitted EXCEPT ![c] = @ \union {NewStamp(c)}]
    /\ verdict' = [verdict EXCEPT ![c] = "allowed"]
    /\ UNCHANGED now

\* "/health" and "/" are passed on without asking the limiter: no state changes.
Next == Tick \/ \E c \in Clients : Admit(c) \/ Refuse(c)

Spec == Init /\ [][Next]_vars

-----------------------------------------------------------------------------

\* Every value the limiter holds is of its kind, and the clock within its bound.
TypeOK ==
    /\ now \in 0..Horizon
    /\ log \in [Clients -> SUBSET Stamp]
    /\ admitted \in [Clients -> SUBSET Stamp]
    /\ verdict \in [Clients -> {"none", "allowed", "refused"}]

\* The promise of the 429 answer ("Max 100 requests per minute"): whichever span of
\* Window time units one looks at, not only those that end now, no client was let
\* through more than MaxRequests times in it, although is_allowed forgets every
\* stamp it prunes.
WindowBound ==
    \A c \in Clients, x \in 0..Horizon :
        Cardinality({e \in admitted[c] : x <= e.at /\ e.at < x + Window}) <= MaxRequests

\* The limiter, which keeps only the stamps it has not pruned, answers every request
\* as the policy that remembers everything would: it never refuses a client that
\* still has room, and a refused attempt does not count against the client.
Policy == INSTANCE RateLimitPolicy WITH
    now <- now, admitted <- admitted, verdict <- verdict
ImplementsPolicy == Policy!Spec
=============================================================================
