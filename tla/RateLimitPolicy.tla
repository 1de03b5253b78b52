--------------------------- MODULE RateLimitPolicy ---------------------------
(***************************************************************************)
(* What the API's rate limiter promises its clients, with no word about    *)
(* how it keeps count (app/main.py): a client whose requests were let      *)
(* through fewer than MaxRequests times during the last Window time units  *)
(* is let through, any other one is refused, and a refusal costs nothing.  *)
(*                                                                         *)
(* admitted[c] is the whole history of what c was let through: a set of    *)
(* entries [n |-> serial number, at |-> clock value].                      *)
(***************************************************************************)
EXTENDS Naturals, FiniteSets

CONSTANTS Clients, MaxRequests, Window, Horizon

VARIABLES now, admitted, verdict

vars == <<now, admitted, verdict>>

\* The requests of c let through during the last Window time units.
Recent(c) == {e \in admitted[c] : now - e.at < Window}

\* The entry for the next request of c that is let through.
Entry(c) == [n |-> Cardinality(admitted[c]) + 1, at |-> now]

Init ==
    /\ now = 0
    /\ admitted = [c \in Clients |-> {}]
    /\ verdict = [c \in Clients |-> "none"]

\* The clock moves on (up to the Horizon of the instance).
Tick ==
    /\ now < Horizon
    /\ now' = now + 1
    /\ UNCHANGED <<admitted, verdict>>

Admit(c) ==
    /\ Cardinality(Recent(c)) < MaxRequests
    /\ admitted' = [admitted EXCEPT ![c] = @ \union {Entry(c)}]
    /\ verdict' = [verdict EXCEPT ![c] = "allowed"]
    /\ UNCHANGED now

Refuse(c) ==
    /\ Cardinality(Recent(c)) >= MaxRequests
    /\ verdict' = [verdict EXCEPT ![c] = "refused"]
    /\ UNCHANGED <<now, admitted>>

Next == Tick \/ \E c \in Clients : Admit(c) \/ Refuse(c)

Spec == Init /\ [][Next]_vars
=============================================================================
