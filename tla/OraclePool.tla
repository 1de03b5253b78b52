----------------------------- MODULE OraclePool -----------------------------
(***************************************************************************)
(* The connection pool of app/sql/oracle_connection.py: one global _POOL   *)
(* for all API threads, built on first use, and closed by force and        *)
(* dropped by any thread that fails to get a connection, which then        *)
(* retries.  No lock is taken; every read and write of _POOL is a step.    *)
(* Sleeps between attempts only delay a thread.                            *)
(*                                                                         *)
(* External, modelled from its use at lines 30, 47 and 69: an oracledb     *)
(* pool hands out at most Size connections and makes further callers wait; *)
(* closed by force it takes its connections with it and fails whoever      *)
(* waits for one.  Making a pool or connecting may fail (a fault); a       *)
(* statement ends, for the database answers or breaks the connection.      *)
(*                                                                         *)
(* A pool is a number; the least one no thread, no connection and not      *)
(* _POOL refers to, and that is not left open, names the next pool.        *)
(***************************************************************************)
EXTENDS FiniteSetsExt

CONSTANTS
    Threads,    \* API threads that call connect_adb
    Attempts,   \* AGENT_DB_CONNECT_RETRIES, 6 by default
    Size,       \* max=4
    None,
    MaxCalls,   \* bound on the calls of a thread
    MaxFaults,  \* bound on the faults of an instance
    MaxPools    \* bound on the pools known at a time, large enough never to matter

ASSUME PoolAssumption ==
    /\ {Attempts, Size, MaxPools} \subseteq Nat \ {0}
    /\ {MaxCalls, MaxFaults} \subseteq Nat
    /\ None \notin Nat

VARIABLES
    configured,  \* are the driver and the environment variables there?
    pool,        \* _POOL
    open,        \* the pools that are open
    pc,          \* where each thread is
    attempt,     \* connect_adb's attempt
    making,      \* get_adb_pool's attempt
    cur,         \* the pool get_adb_pool returned
    conn,        \* the pool whose connection the thread holds
    result,      \* how its latest call ended
    calls,       \* how many calls it made
    met,         \* history: faults its current call met
    faults,      \* how many faults the instance has had
    overlapped,  \* history: did another call run during its current call?
    ever         \* history: have calls ever overlapped?

vars == <<configured, pool, open, pc, attempt, making, cur, conn, result, calls, met, faults,
          overlapped, ever>>

Pools == 1..MaxPools
Active == {t \in Threads : pc[t] # "idle"}
Known == open \union {cur[t] : t \in Threads} \union {conn[t] : t \in Threads} \union {pool}
InUse(p) == {t \in Threads : conn[t] = p}
Faults == <<met, faults>>

Init ==
    /\ configured \in BOOLEAN
    /\ pool = None
    /\ open = {}
    /\ pc = [t \in Threads |-> "idle"]
    /\ attempt = [t \in Threads |-> 0]
    /\ making = [t \in Threads |-> 0]
    /\ cur = [t \in Threads |-> None]
    /\ conn = [t \in Threads |-> None]
    /\ result = [t \in Threads |-> None]
    /\ calls = [t \in Threads |-> 0]
    /\ met = [t \in Threads |-> 0]
    /\ faults = 0
    /\ overlapped = [t \in Threads |-> FALSE]
    /\ ever = FALSE

-----------------------------------------------------------------------------

Goto(t, place) == pc' = [pc EXCEPT ![t] = place]
History == <<configured, calls, overlapped, ever>>

\* A fault strikes t.
Fault(t) ==
    /\ faults < MaxFaults
    /\ faults' = faults + 1
    /\ met' = [met EXCEPT ![t] = @ + 1]

\* `with connect_adb() as connection`.
Call(t) ==
    /\ pc[t] = "idle"
    /\ calls[t] < MaxCalls
    /\ calls' = [calls EXCEPT ![t] = @ + 1]
    /\ attempt' = [attempt EXCEPT ![t] = 1]
    /\ result' = [result EXCEPT ![t] = None]
    /\ overlapped' = [u \in Threads |-> IF u = t THEN Active # {}
                                        ELSE overlapped[u] \/ u \in Active]
    /\ ever' = (ever \/ Active # {})
    /\ met' = [met EXCEPT ![t] = 0]
    /\ Goto(t, "check")
    /\ UNCHANGED <<configured, pool, open, making, cur, conn, faults>>

\* get_adb_pool: `if _POOL is not None`.
Check(t) ==
    /\ pc[t] = "check"
    /\ pool # None
    /\ Goto(t, "return")
    /\ UNCHANGED <<pool, open, attempt, making, cur, conn, result, Faults, History>>

\* No driver, or a setting is missing: get_adb_pool raises at once.
Unconfigured(t) ==
    /\ pc[t] = "check"
    /\ pool = None
    /\ ~configured
    /\ Goto(t, "close")
    /\ UNCHANGED <<pool, open, attempt, making, cur, conn, result, Faults, History>>

StartMaking(t) ==
    /\ pc[t] = "check"
    /\ pool = None
    /\ configured
    /\ making' = [making EXCEPT ![t] = 1]
    /\ Goto(t, "make")
    /\ UNCHANGED <<pool, open, attempt, cur, conn, result, Faults, History>>

\* `_POOL = oracledb.create_pool(...)`, whatever _POOL is by now.
Make(t) ==
    /\ pc[t] = "make"
    /\ Pools \ Known # {}
    /\ pool' = Min(Pools \ Known)
    /\ open' = open \union {pool'}
    /\ making' = [making EXCEPT ![t] = 0]
    /\ Goto(t, "return")
    /\ UNCHANGED <<attempt, cur, conn, result, Faults, History>>

MakeFails(t) ==
    /\ pc[t] = "make"
    /\ Fault(t)
    /\ \/ /\ making[t] < Attempts
          /\ making' = [making EXCEPT ![t] = @ + 1]
          /\ UNCHANGED pc
       \/ /\ making[t] = Attempts
          /\ making' = [making EXCEPT ![t] = 0]
          /\ Goto(t, "close")
    /\ UNCHANGED <<pool, open, attempt, cur, conn, result, History>>

\* `return _POOL` reads it again, and may find None.
Return(t) ==
    /\ pc[t] = "return"
    /\ cur' = [cur EXCEPT ![t] = pool]
    /\ Goto(t, "acquire")
    /\ UNCHANGED <<pool, open, attempt, making, conn, result, Faults, History>>

Acquire(t) ==
    /\ pc[t] = "acquire"
    /\ cur[t] \in open
    /\ Cardinality(InUse(cur[t])) < Size
    /\ conn' = [conn EXCEPT ![t] = cur[t]]
    /\ cur' = [cur EXCEPT ![t] = None]
    /\ Goto(t, "using")
    /\ UNCHANGED <<pool, open, attempt, making, result, Faults, History>>

\* There is no pool, or it is closed, or it cannot connect.
AcquireFails(t) ==
    /\ pc[t] = "acquire"
    /\ \/ cur[t] \notin open /\ UNCHANGED Faults
       \/ cur[t] \in open /\ Cardinality(InUse(cur[t])) < Size /\ Fault(t)
    /\ cur' = [cur EXCEPT ![t] = None]
    /\ Goto(t, "close")
    /\ UNCHANGED <<pool, open, attempt, making, conn, result, History>>

\* _close_pool: `if _POOL is None: return`.
NothingToClose(t) ==
    /\ pc[t] = "close"
    /\ pool = None
    /\ Goto(t, "retry")
    /\ UNCHANGED <<pool, open, attempt, making, cur, conn, result, Faults, History>>

SomethingToClose(t) ==
    /\ pc[t] = "close"
    /\ pool # None
    /\ Goto(t, "force")
    /\ UNCHANGED <<pool, open, attempt, making, cur, conn, result, Faults, History>>

\* Slip: the pool is dropped without being closed.
ForgetPool(t) ==
    /\ pc[t] = "force"
    /\ Goto(t, "clear")
    /\ UNCHANGED <<pool, open, attempt, making, cur, conn, result, Faults, History>>

\* `_POOL.close(force=True)` closes what _POOL is by now; errors are swallowed.
ForceClose(t) ==
    /\ pc[t] = "force"
    /\ open' = open \ {pool}
    /\ Goto(t, "clear")
    /\ UNCHANGED <<pool, attempt, making, cur, conn, result, Faults, History>>

\* Slip: the closed pool stays where the next attempt finds it.
KeepClosed(t) ==
    /\ pc[t] = "clear"
    /\ Goto(t, "retry")
    /\ UNCHANGED <<pool, open, attempt, making, cur, conn, result, Faults, History>>

\* `_POOL = None`.
Clear(t) ==
    /\ pc[t] = "clear"
    /\ pool' = None
    /\ Goto(t, "retry")
    /\ UNCHANGED <<open, attempt, making, cur, conn, result, Faults, History>>

\* The call of t is over.
End(t, ok) ==
    /\ result' = [result EXCEPT ![t] = [ok |-> ok, faults |-> met[t],
                                        overlapped |-> overlapped[t]]]
    /\ attempt' = [attempt EXCEPT ![t] = 0]
    /\ conn' = [conn EXCEPT ![t] = None]
    /\ Goto(t, "idle")

\* Slip: one attempt too many.
RetryOnceMore(t) ==
    /\ pc[t] = "retry"
    /\ attempt[t] <= Attempts
    /\ attempt' = [attempt EXCEPT ![t] = @ + 1]
    /\ Goto(t, "check")
    /\ UNCHANGED <<pool, open, making, cur, conn, result, Faults, History>>

Retry(t) ==
    /\ pc[t] = "retry"
    /\ attempt[t] < Attempts
    /\ attempt' = [attempt EXCEPT ![t] = @ + 1]
    /\ Goto(t, "check")
    /\ UNCHANGED <<pool, open, making, cur, conn, result, Faults, History>>

\* `raise last_error`.
GiveUp(t) ==
    /\ pc[t] = "retry"
    /\ attempt[t] = Attempts
    /\ End(t, FALSE)
    /\ UNCHANGED <<pool, open, making, cur, Faults, History>>

\* Slip: the connection is not used in a `with`, and never goes back.
KeepConnection(t) ==
    /\ pc[t] = "using"
    /\ result' = [result EXCEPT ![t] = [ok |-> TRUE, faults |-> met[t],
                                        overlapped |-> overlapped[t]]]
    /\ attempt' = [attempt EXCEPT ![t] = 0]
    /\ Goto(t, "idle")
    /\ UNCHANGED <<pool, open, making, cur, conn, Faults, History>>

\* The statement is over, and the `with` block hands the connection back; it failed if
\* the pool was closed under it.
Release(t) ==
    /\ pc[t] = "using"
    /\ End(t, conn[t] \in open)
    /\ UNCHANGED <<pool, open, making, cur, Faults, History>>

Step(t) ==
    \/ Check(t) \/ Unconfigured(t) \/ StartMaking(t) \/ Make(t) \/ MakeFails(t) \/ Return(t)
    \/ Acquire(t) \/ AcquireFails(t)
    \/ NothingToClose(t) \/ SomethingToClose(t) \/ ForceClose(t) \/ Clear(t)
    \/ Retry(t) \/ GiveUp(t) \/ Release(t)

Next == \E t \in Threads : Call(t) \/ Step(t)

Spec == Init /\ [][Next]_vars

\* Threads are scheduled and statements end; nobody has to call.
FairSpec == Spec /\ \A t \in Threads : WF_vars(Step(t))

-----------------------------------------------------------------------------

Places == {"idle", "check", "make", "return", "acquire", "using", "close", "force",
           "clear", "retry"}

\* Every variable holds values of its kind, and only a thread that uses a connection
\* holds one.
TypeOK ==
    /\ configured \in BOOLEAN
    /\ pool \in Pools \union {None}
    /\ open \subseteq Pools
    /\ pc \in [Threads -> Places]
    /\ attempt \in [Threads -> 0..Attempts]
    /\ making \in [Threads -> 0..Attempts]
    /\ cur \in [Threads -> Pools \union {None}]
    /\ conn \in [Threads -> Pools \union {None}]
    /\ calls \in [Threads -> 0..MaxCalls]
    /\ \A t \in Threads : /\ pc[t] = "idle" <=> attempt[t] = 0
                          /\ pc[t] = "using" <=> conn[t] # None

\* SETUP_GUIDE.md:97, "Auto-retry on failure": a call that no other call overlaps gives
\* up only after as many faults as it has attempts, in whatever state earlier calls,
\* racing, failing and closing each other's pools, have left the pool.
SoloCallSurvives ==
    \A t \in Threads :
        result[t] # None =>
          (configured /\ ~result[t].ok /\ ~result[t].overlapped =>
             result[t].faults >= Attempts)

\* Retries alone leave no pool behind: as long as calls never overlapped, the only pool
\* that can be open is _POOL, and no connection in use is closed.
OnePoolAlone ==
    ~ever => /\ open \subseteq {pool}
             /\ \A t \in Threads : conn[t] # None => conn[t] \in open

\* Whoever calls gets a connection or an exception in the end, though pools are closed
\* under callers that wait and two threads may close each other's pools in turn.
EveryCallEnds == \A t \in Threads : pc[t] # "idle" ~> pc[t] = "idle"

\* OCI_DEPLOYMENT.md:89, "`max=4` caps concurrency": the process never has more than
\* Size connections in use.
ConcurrencyCapped == Cardinality({t \in Threads : conn[t] \in open}) <= Size
=============================================================================
