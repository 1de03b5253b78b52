--------------------------- MODULE OraclePool_proofs ---------------------------
(***************************************************************************)
(* Proofs about OraclePool, for every set of threads, every number of      *)
(* attempts, connections, calls, faults and pools.                         *)
(*                                                                         *)
(* The argument is about a call that runs alone.  What earlier calls left  *)
(* is either no pool, or an open one: a pool that is closed and still in   *)
(* _POOL is about to be cleared by the thread that closed it.  So a call   *)
(* that is alone meets one fault for each attempt it has used up.          *)
(*                                                                         *)
(* The last part is about calls in any number: a count of the steps a call *)
(* has left falls with every step of its thread and rises with none.       *)
(***************************************************************************)
EXTENDS OraclePool, DataLemmas

\* TypeOK, and the kinds of the history variables.
Kinds ==
    /\ TypeOK
    /\ DOMAIN result = Threads
    /\ met \in [Threads -> Nat]
    /\ faults \in Nat
    /\ overlapped \in [Threads -> BOOLEAN]
    /\ ever \in BOOLEAN
    /\ \A t \in Threads : pc[t] = "make" => making[t] >= 1

\* A closed pool in _POOL is about to be cleared by a thread that closed it.
ClosedIsBeingCleared ==
    pool \in open \/ pool = None \/ \E t \in Threads : pc[t] = "clear"

\* t is in a call that no other call has overlapped.
Solo(t) == pc[t] # "idle" /\ ~overlapped[t]
SoloIsAlone == \A t, u \in Threads : Solo(t) /\ pc[u] # "idle" => t = u

SoloFindsPool ==
    \A t \in Threads : Solo(t) =>
        /\ pc[t] = "return" => pool \in open
        /\ pc[t] = "acquire" => cur[t] \in open
        /\ pc[t] = "using" => conn[t] \in open

\* A call that is alone met a fault in every attempt but the current one, there too once
\* the attempt has failed, and one for each pool it failed to make.
SoloFaults ==
    \A t \in Threads : Solo(t) /\ configured =>
        /\ pc[t] = "make" => met[t] >= attempt[t] + making[t] - 2
        /\ pc[t] \in {"check", "return", "acquire", "using"} => met[t] >= attempt[t] - 1
        /\ pc[t] \in {"close", "force", "clear", "retry"} => met[t] >= attempt[t]

\* Until two calls overlap, a pool is made only where there is none, and dropped closed.
NeverOverlapped ==
    ~ever =>
        \A t \in Threads : /\ ~overlapped[t]
                           /\ pc[t] = "make" => pool = None
                           /\ pc[t] = "clear" => pool \notin open

IInv ==
    /\ Kinds
    /\ ClosedIsBeingCleared
    /\ SoloIsAlone /\ SoloFindsPool /\ SoloFaults
    /\ NeverOverlapped
    /\ SoloCallSurvives /\ OnePoolAlone

-----------------------------------------------------------------------------

\* A thread's step leaves the other threads and the history of the calls alone.
LEMMA StepFrame ==
    ASSUME Kinds, NEW t \in Threads, Step(t)
    PROVE  /\ UNCHANGED History
           /\ \A u \in Threads \ {t} :
                /\ pc'[u] = pc[u] /\ attempt'[u] = attempt[u] /\ making'[u] = making[u]
                /\ cur'[u] = cur[u] /\ conn'[u] = conn[u] /\ result'[u] = result[u]
                /\ met'[u] = met[u]
           /\ pc[t] # "idle"
<1> USE DEF Kinds, TypeOK, Goto, History, Faults, Fault, End
<1>1. CASE Check(t) \/ Unconfigured(t) \/ StartMaking(t) \/ Make(t) \/ Return(t)
  BY <1>1 DEF Check, Unconfigured, StartMaking, Make, Return
<1>2. CASE MakeFails(t)
  BY <1>2 DEF MakeFails
<1>3. CASE Acquire(t) \/ AcquireFails(t)
  BY <1>3 DEF Acquire, AcquireFails
<1>4. CASE NothingToClose(t) \/ SomethingToClose(t) \/ ForceClose(t) \/ Clear(t) \/ Retry(t)
  BY <1>4 DEF NothingToClose, SomethingToClose, ForceClose, Clear, Retry
<1>5. CASE GiveUp(t) \/ Release(t)
  BY <1>5 DEF GiveUp, Release
<1> QED
  BY <1>1, <1>2, <1>3, <1>4, <1>5 DEF Step

\* A new pool is one of the names that nothing refers to.
LEMMA NewPool ==
    ASSUME NEW t \in Threads, Make(t)
    PROVE  pool' \in Pools /\ pool' \notin Known
BY PoolAssumption, MinOfNaturals DEF Make, Pools

\* What PoolAssumption says of the numbers.
LEMMA Parameters ==
    /\ Attempts \in Nat /\ Attempts >= 1
    /\ MaxCalls \in Nat /\ MaxPools \in Nat
    /\ None \notin Pools
BY PoolAssumption DEF Pools

\* Every step keeps the kinds, and a thread gets what its next place needs.
LEMMA KindsStep ==
    ASSUME Kinds, NEW t \in Threads, Step(t)
    PROVE  Kinds'
<1> USE Parameters DEF Kinds, TypeOK, Goto, History, Faults, Places
<1>1. CASE Check(t) \/ Unconfigured(t)
  BY <1>1 DEF Check, Unconfigured
<1>2. CASE StartMaking(t)
  BY <1>2 DEF StartMaking
<1>3. CASE Make(t)
  <2>1. pool' \in Pools
    BY <1>3, NewPool
  <2>2. \A u \in Threads : pc'[u] = "make" => u # t /\ pc[u] = "make" /\ making'[u] = making[u]
    BY <1>3 DEF Make
  <2>3. open' \subseteq Pools /\ making' \in [Threads -> 0..Attempts]
    BY <1>3, <2>1 DEF Make
  <2>4. \A u \in Threads : /\ pc'[u] = "idle" <=> attempt'[u] = 0
                           /\ pc'[u] = "using" <=> conn'[u] # None
    BY <1>3 DEF Make
  <2>5. TypeOK'
    BY <1>3, <2>1, <2>3, <2>4 DEF Make
  <2> QED
    BY <1>3, <2>2, <2>5 DEF Make
<1>4. CASE MakeFails(t)
  BY <1>4 DEF MakeFails, Fault
<1>5. CASE Return(t)
  BY <1>5 DEF Return
<1>6. CASE Acquire(t)
  BY <1>6 DEF Acquire
<1>7. CASE AcquireFails(t)
  BY <1>7 DEF AcquireFails, Fault
<1>8. CASE NothingToClose(t) \/ SomethingToClose(t) \/ ForceClose(t)
  BY <1>8 DEF NothingToClose, SomethingToClose, ForceClose
<1>9. CASE Clear(t)
  BY <1>9 DEF Clear
<1>10. CASE Retry(t)
  BY <1>10 DEF Retry
<1>11. CASE GiveUp(t)
  BY <1>11 DEF GiveUp, End
<1>12. CASE Release(t)
  BY <1>12 DEF Release, End
<1> QED
  BY <1>1, <1>2, <1>3, <1>4, <1>5, <1>6, <1>7, <1>8, <1>9, <1>10, <1>11, <1>12 DEF Step

\* So does a call that starts.
LEMMA CallKinds ==
    ASSUME Kinds, NEW t \in Threads, Call(t)
    PROVE  Kinds'
<1>1. overlapped' \in [Threads -> BOOLEAN] /\ ever' \in BOOLEAN
  BY DEF Call
<1>2. TypeOK'
  BY Parameters DEF Kinds, TypeOK, Goto, Places, Call
<1>3. \A u \in Threads : pc'[u] = "make" => pc[u] = "make" /\ making'[u] = making[u]
  BY DEF Kinds, TypeOK, Call, Goto
<1>4. DOMAIN result' = Threads /\ met' \in [Threads -> Nat] /\ faults' \in Nat
  BY DEF Kinds, Call
<1> QED
  BY <1>1, <1>2, <1>3, <1>4 DEF Kinds

-----------------------------------------------------------------------------

\* Another call may begin, but then it has overlapped those in progress.
LEMMA CallPreserves ==
    ASSUME IInv, NEW t \in Threads, Call(t)
    PROVE  IInv'
<1> USE Parameters DEF IInv, Kinds, TypeOK, Call, Goto
<1>1. Kinds'
  BY CallKinds
<1>2. ClosedIsBeingCleared'
  BY DEF ClosedIsBeingCleared
<1>3. \A u \in Threads : Solo(u)' => u = t /\ Active = {}
  BY DEF Solo, Active
<1>4. SoloIsAlone' /\ SoloFindsPool' /\ SoloFaults'
  BY <1>3 DEF SoloIsAlone, SoloFindsPool, SoloFaults, Active
<1>5. NeverOverlapped'
  BY DEF NeverOverlapped, Active
<1>6. SoloCallSurvives'
  BY DEF SoloCallSurvives
<1>7. OnePoolAlone'
  BY DEF OnePoolAlone
<1> QED
  BY <1>1, <1>2, <1>4, <1>5, <1>6, <1>7

\* A pool is closed only by a thread that is about to clear _POOL.
LEMMA ClosedStep ==
    ASSUME IInv, NEW t \in Threads, Step(t)
    PROVE  ClosedIsBeingCleared'
<1> USE DEF IInv, Kinds, TypeOK, ClosedIsBeingCleared, Goto
<1>1. \A u \in Threads \ {t} : pc'[u] = pc[u]
  BY StepFrame
<1>2. CASE Check(t) \/ Unconfigured(t) \/ StartMaking(t) \/ Make(t) \/ Return(t)
  BY <1>1, <1>2 DEF Check, Unconfigured, StartMaking, Make, Return
<1>3. CASE MakeFails(t) \/ Acquire(t) \/ AcquireFails(t)
  BY <1>1, <1>3 DEF MakeFails, Acquire, AcquireFails
<1>4. CASE NothingToClose(t) \/ SomethingToClose(t) \/ ForceClose(t) \/ Clear(t) \/ Retry(t)
  BY <1>1, <1>4 DEF NothingToClose, SomethingToClose, ForceClose, Clear, Retry
<1>5. CASE GiveUp(t) \/ Release(t)
  BY <1>1, <1>5 DEF GiveUp, Release, End
<1> QED
  BY <1>2, <1>3, <1>4, <1>5 DEF Step

\* Nobody has taken a step while a call was alone but the call itself.
LEMMA AloneStep ==
    ASSUME IInv, NEW t \in Threads, Step(t)
    PROVE  /\ SoloIsAlone'
           /\ \A u \in Threads : Solo(u)' => u = t /\ Solo(u)
<1>1. UNCHANGED overlapped /\ \A u \in Threads \ {t} : pc'[u] = pc[u]
  BY StepFrame DEF IInv, History
<1>2. pc[t] # "idle"
  BY StepFrame DEF IInv
<1> QED
  BY <1>1, <1>2 DEF IInv, SoloIsAlone, Solo

\* No other thread closes the pool of a call that is alone.
LEMMA FindsPoolStep ==
    ASSUME IInv, NEW t \in Threads, Step(t)
    PROVE  SoloFindsPool'
<1> SUFFICES ASSUME Solo(t)
             PROVE  /\ pc'[t] = "return" => pool' \in open'
                    /\ pc'[t] = "acquire" => cur'[t] \in open'
                    /\ pc'[t] = "using" => conn'[t] \in open'
  BY AloneStep DEF SoloFindsPool
<1> USE DEF IInv, Kinds, TypeOK, SoloFindsPool, Goto
<1>1. CASE Check(t)
  <2>1. pool \in open
    BY <1>1 DEF Check, ClosedIsBeingCleared, SoloIsAlone
  <2> QED
    BY <1>1, <2>1 DEF Check
<1>2. CASE Unconfigured(t) \/ StartMaking(t) \/ Make(t) \/ MakeFails(t)
  BY <1>2 DEF Unconfigured, StartMaking, Make, MakeFails
<1>3. CASE Return(t) \/ Acquire(t) \/ AcquireFails(t)
  BY <1>3 DEF Return, Acquire, AcquireFails
<1>4. CASE NothingToClose(t) \/ SomethingToClose(t) \/ ForceClose(t) \/ Clear(t) \/ Retry(t)
  BY <1>4 DEF NothingToClose, SomethingToClose, ForceClose, Clear, Retry
<1>5. CASE GiveUp(t) \/ Release(t)
  BY <1>5 DEF GiveUp, Release, End
<1> QED
  BY <1>1, <1>2, <1>3, <1>4, <1>5 DEF Step

\* A call that is alone uses up an attempt only by a fault.
LEMMA FaultsStep ==
    ASSUME IInv, NEW t \in Threads, Step(t)
    PROVE  SoloFaults'
<1>1. UNCHANGED configured
  BY StepFrame DEF IInv, History
<1> SUFFICES ASSUME Solo(t), configured
             PROVE  /\ pc'[t] = "make" => met'[t] >= attempt'[t] + making'[t] - 2
                    /\ pc'[t] \in {"check", "return", "acquire", "using"}
                         => met'[t] >= attempt'[t] - 1
                    /\ pc'[t] \in {"close", "force", "clear", "retry"}
                         => met'[t] >= attempt'[t]
  BY <1>1, AloneStep DEF SoloFaults
<1> USE Parameters DEF IInv, Kinds, TypeOK, SoloFaults, Goto, Faults, Fault
<1>2. CASE Check(t) \/ Unconfigured(t) \/ StartMaking(t)
  BY <1>2 DEF Check, Unconfigured, StartMaking
<1>3. CASE Make(t) \/ MakeFails(t) \/ Return(t)
  <2>1. pc[t] \in {"make", "return"} /\ (pc[t] = "make" => making[t] \in 1..Attempts)
    BY <1>3 DEF Make, MakeFails, Return
  <2> QED
    BY <1>3, <2>1 DEF Make, MakeFails, Return
<1>4. CASE Acquire(t) \/ AcquireFails(t)
  BY <1>4 DEF Acquire, AcquireFails, SoloFindsPool
<1>5. CASE NothingToClose(t) \/ SomethingToClose(t) \/ ForceClose(t) \/ Clear(t) \/ Retry(t)
  BY <1>5 DEF NothingToClose, SomethingToClose, ForceClose, Clear, Retry
<1>6. CASE GiveUp(t) \/ Release(t)
  BY <1>6 DEF GiveUp, Release, End
<1> QED
  BY <1>2, <1>3, <1>4, <1>5, <1>6 DEF Step

\* A call that is over and was alone has succeeded or met its faults.
LEMMA SurvivesStep ==
    ASSUME IInv, NEW t \in Threads, Step(t)
    PROVE  SoloCallSurvives'
<1> USE Parameters DEF IInv, Kinds, TypeOK, SoloCallSurvives, Goto, History
<1>1. UNCHANGED configured /\ \A u \in Threads \ {t} : result'[u] = result[u]
  BY StepFrame
<1>2. CASE GiveUp(t)
  <2>1. ~overlapped[t] /\ configured => met[t] >= Attempts
    BY <1>2 DEF GiveUp, SoloFaults, Solo
  <2> QED
    BY <1>1, <1>2, <2>1 DEF GiveUp, End
<1>3. CASE Release(t)
  <2>1. ~overlapped[t] => conn[t] \in open
    BY <1>3 DEF Release, SoloFindsPool, Solo
  <2>2. /\ result'[t].ok = (conn[t] \in open)
        /\ result'[t].overlapped = overlapped[t]
    BY <1>3 DEF Release, End
  <2>3. configured' /\ ~result'[t].ok /\ ~result'[t].overlapped => FALSE
    BY <2>1, <2>2
  <2> QED
    BY <1>1, <2>3
<1>4. CASE ~GiveUp(t) /\ ~Release(t)
  <2>1. UNCHANGED result
    BY <1>4 DEF Step, Check, Unconfigured, StartMaking, Make, MakeFails, Return, Acquire,
                AcquireFails, NothingToClose, SomethingToClose, ForceClose, Clear, Retry
  <2> QED
    BY <1>1, <2>1
<1> QED
  BY <1>2, <1>3, <1>4

\* As long as no two calls have overlapped, a thread that takes a step is alone.
LEMMA NeverOverlappedStep ==
    ASSUME IInv, NEW t \in Threads, Step(t), ~ever
    PROVE  /\ \A u \in Threads \ {t} : pc'[u] = "idle" /\ conn'[u] = None
           /\ NeverOverlapped'
           /\ open' \subseteq {pool'}
           /\ conn'[t] # None => conn'[t] \in open'
<1> USE DEF IInv, Kinds, TypeOK, NeverOverlapped, OnePoolAlone, Goto, History
<1>1. /\ UNCHANGED <<ever, overlapped>>
      /\ \A u \in Threads \ {t} : pc'[u] = pc[u] /\ conn'[u] = conn[u]
      /\ pc[t] # "idle"
  BY StepFrame
<1>2. \A u \in Threads \ {t} : pc[u] = "idle" /\ conn[u] = None
  BY <1>1 DEF SoloIsAlone, Solo
<1> SUFFICES /\ pc'[t] = "make" => pool' = None
             /\ pc'[t] = "clear" => pool' \notin open'
             /\ open' \subseteq {pool'}
             /\ conn'[t] # None => conn'[t] \in open'
  BY <1>1, <1>2
<1>3. CASE Check(t) \/ Unconfigured(t) \/ StartMaking(t)
  BY <1>3 DEF Check, Unconfigured, StartMaking
<1>4. CASE Make(t)
  <2>1. open \subseteq {None}
    BY <1>4 DEF Make
  <2>2. open = {}
    BY <2>1, Parameters
  <2> QED
    BY <1>4, <2>2 DEF Make
<1>5. CASE MakeFails(t) \/ Return(t)
  BY <1>5 DEF MakeFails, Return
<1>6. CASE Acquire(t) \/ AcquireFails(t)
  BY <1>6 DEF Acquire, AcquireFails
<1>7. CASE NothingToClose(t) \/ SomethingToClose(t) \/ ForceClose(t)
  BY <1>7 DEF NothingToClose, SomethingToClose, ForceClose
<1>8. CASE Clear(t) \/ Retry(t)
  BY <1>8 DEF Clear, Retry
<1>9. CASE GiveUp(t) \/ Release(t)
  BY <1>9 DEF GiveUp, Release, End
<1> QED
  BY <1>3, <1>4, <1>5, <1>6, <1>7, <1>8, <1>9 DEF Step

\* The steps above together, and calls that start or end.
LEMMA InvariantStep ==
    IInv /\ [Next]_vars => IInv'
<1> SUFFICES ASSUME IInv, [Next]_vars
             PROVE  IInv'
  OBVIOUS
<1>1. CASE UNCHANGED vars
  BY <1>1 DEF vars, IInv, Kinds, TypeOK, ClosedIsBeingCleared, SoloIsAlone, Solo, SoloFindsPool,
              SoloFaults, NeverOverlapped, SoloCallSurvives, OnePoolAlone
<1>2. ASSUME NEW t \in Threads, Call(t)
      PROVE  IInv'
  BY <1>2, CallPreserves
<1>3. ASSUME NEW t \in Threads, Step(t)
      PROVE  IInv'
  <2>1. Kinds'
    BY <1>3, KindsStep DEF IInv
  <2>2. ever' = ever
    BY <1>3, StepFrame DEF IInv, History
  <2>3. NeverOverlapped' /\ OnePoolAlone'
    BY <1>3, <2>2, NeverOverlappedStep DEF NeverOverlapped, OnePoolAlone
  <2> QED
    BY <1>3, <2>1, <2>3, ClosedStep, AloneStep, FindsPoolStep, FaultsStep, SurvivesStep DEF IInv
<1> QED
  BY <1>1, <1>2, <1>3 DEF Next

\* There is no pool and no call at first.
LEMMA InvariantInit ==
    Init => IInv
<1> SUFFICES ASSUME Init
             PROVE  IInv
  OBVIOUS
<1>1. TypeOK
  BY Parameters DEF Init, TypeOK, Places
<1>2. Kinds
  BY <1>1 DEF Init, Kinds
<1> QED
  BY <1>2 DEF Init, IInv, ClosedIsBeingCleared, SoloIsAlone, Solo, SoloFindsPool, SoloFaults,
              NeverOverlapped, SoloCallSurvives, OnePoolAlone

\* So the invariant holds in every state.
LEMMA Inductive == Spec => []IInv
BY InvariantInit, InvariantStep, PTL DEF Spec

\* Every variable holds values of its kind, and only a thread that uses a connection
\* holds one, however many threads make and close pools under each other.
THEOREM TypeCorrect == Spec => []TypeOK
<1>1. IInv => TypeOK
  BY DEF IInv, Kinds
<1> QED
  BY <1>1, Inductive, PTL

\* connect_adb's retries keep their promise: a call no other overlaps gives up only after
\* as many faults as it has attempts, whatever pools racing calls closed before it began.
THEOREM SoloCallsSurvive == Spec => []SoloCallSurvives
<1>1. IInv => SoloCallSurvives
  BY DEF IInv
<1> QED
  BY <1>1, Inductive, PTL

\* Retries leave no pool behind: until two calls overlap, _POOL is the only pool that is
\* open, and a connection in use is one of an open pool.
THEOREM OnePoolWhileAlone == Spec => []OnePoolAlone
<1>1. IInv => OnePoolAlone
  BY DEF IInv
<1> QED
  BY <1>1, Inductive, PTL

-----------------------------------------------------------------------------
(* How long a call takes: what EveryCallEnds rests on.                      *)

\* The steps left of an attempt, for a thread at place that is making a pool for the n-th
\* time; it may fail to make one Attempts times.
OfAttempt(place, n) ==
    CASE place = "check" -> Attempts + 6
      [] place = "make" -> Attempts - n + 6
      [] place = "return" -> 5
      [] place = "acquire" -> 4
      [] place \in {"using", "close"} -> 3
      [] place = "force" -> 2
      [] place = "clear" -> 1
      [] OTHER -> 0

\* The steps left of a call in its i-th attempt; none outside a call.
OfCall(place, i, n) ==
    IF place = "idle" THEN 0 ELSE (Attempts - i) * (Attempts + 7) + OfAttempt(place, n) + 1

StepsLeft(t) == OfCall(pc[t], attempt[t], making[t])
LongestCall == Attempts * (Attempts + 7)

\* An attempt is shorter than Attempts + 7 steps.
LEMMA AttemptBounded ==
    ASSUME NEW place \in Places, NEW n \in 0..Attempts, place = "make" => n >= 1
    PROVE  OfAttempt(place, n) \in 0..(Attempts + 6)
BY Parameters DEF OfAttempt, Places

\* A call in progress has steps left, LongestCall at most.
LEMMA CallBounded ==
    ASSUME NEW place \in Places \ {"idle"}, NEW i \in 1..Attempts, NEW n \in 0..Attempts,
           place = "make" => n >= 1
    PROVE  OfCall(place, i, n) \in 1..LongestCall
<1>1. PICK a \in Nat, k \in Nat, h \in Nat :
        /\ a = Attempts /\ k = Attempts - i /\ h = OfAttempt(place, n)
        /\ k <= a - 1 /\ h <= a + 6
  BY AttemptBounded, Parameters
<1>2. OfCall(place, i, n) = k * (a + 7) + h + 1
  BY <1>1 DEF OfCall
<1>3. k * (a + 7) <= (a - 1) * (a + 7) /\ k * (a + 7) \in Nat
  BY <1>1
<1>4. (a - 1) * (a + 7) = a * (a + 7) - (a + 7) /\ a * (a + 7) \in Nat
  BY <1>1
<1>5. LongestCall = a * (a + 7)
  BY <1>1 DEF LongestCall
<1>6. ASSUME NEW x \in Nat, NEW y \in Int, NEW z \in Nat, x <= y, y = z - (a + 7)
      PROVE  x + h + 1 \in 1..z
  BY <1>1, <1>6
<1>7. (a - 1) * (a + 7) \in Int
  BY <1>1
<1>8. k * (a + 7) + h + 1 \in 1..(a * (a + 7))
  BY <1>3, <1>4, <1>6, <1>7
<1> QED
  BY <1>2, <1>5, <1>8

\* The next attempt, or the next step of this one, leaves a call fewer steps.
LEMMA CallFalls ==
    ASSUME NEW here \in Places \ {"idle"}, NEW i \in 1..Attempts, NEW n \in 0..Attempts,
           NEW there \in Places \ {"idle"}, NEW j \in 1..Attempts, NEW m \in 0..Attempts,
           here = "make" => n >= 1, there = "make" => m >= 1,
           \/ j = i + 1
           \/ j = i /\ OfAttempt(there, m) < OfAttempt(here, n)
    PROVE  OfCall(there, j, m) < OfCall(here, i, n)
<1>1. OfAttempt(here, n) \in 0..(Attempts + 6) /\ OfAttempt(there, m) \in 0..(Attempts + 6)
  BY AttemptBounded
<1>2. PICK a \in Nat, k \in Nat, l \in Nat, h \in Nat, g \in Nat :
        /\ a = Attempts /\ k = Attempts - i /\ l = Attempts - j
        /\ h = OfAttempt(here, n) /\ g = OfAttempt(there, m) /\ g <= a + 6
  <2>1. Attempts \in Nat /\ Attempts - i \in Nat /\ Attempts - j \in Nat
    BY Parameters
  <2>2. OfAttempt(here, n) \in Nat /\ OfAttempt(there, m) \in Nat
    BY <1>1, <2>1
  <2>3. OfAttempt(there, m) <= Attempts + 6
    BY <1>1, <2>1
  <2> QED
    BY <2>1, <2>2, <2>3
<1>3. OfCall(here, i, n) = k * (a + 7) + h + 1 /\ OfCall(there, j, m) = l * (a + 7) + g + 1
  BY <1>2 DEF OfCall
<1>4. k * (a + 7) \in Nat
  BY <1>2
<1>5. CASE j = i /\ OfAttempt(there, m) < OfAttempt(here, n)
  BY <1>2, <1>3, <1>4, <1>5
<1>6. CASE j = i + 1
  <2>1. l = k - 1
    BY <1>2, <1>6
  <2>2. l * (a + 7) = k * (a + 7) - (a + 7)
    BY <1>2, <2>1
  <2>3. ASSUME NEW x \in Nat, NEW y \in Int, y = x - (a + 7)
        PROVE  y + g + 1 < x + h + 1
    BY <1>2, <2>3
  <2>4. l * (a + 7) \in Int
    BY <1>2
  <2> QED
    BY <1>3, <1>4, <2>2, <2>3, <2>4
<1> QED
  BY <1>5, <1>6

\* A thread is somewhere in its call, in one of its attempts.
LEMMA InCall ==
    ASSUME Kinds, NEW t \in Threads
    PROVE  /\ pc[t] \in Places /\ making[t] \in 0..Attempts
           /\ pc[t] = "make" => making[t] >= 1
           /\ pc[t] # "idle" => attempt[t] \in 1..Attempts
BY Parameters DEF Kinds, TypeOK

\* A step stays in its attempt and comes nearer to its end, starts the next attempt, or
\* ends the call.
LEMMA StepAdvances ==
    ASSUME Kinds, NEW t \in Threads, Step(t), pc'[t] # "idle"
    PROVE  \/ attempt'[t] = attempt[t] + 1
           \/ /\ attempt'[t] = attempt[t]
              /\ OfAttempt(pc'[t], making'[t]) < OfAttempt(pc[t], making[t])
<1> USE Parameters DEF Kinds, TypeOK, Goto, OfAttempt
<1>0. Attempts \in Nat /\ making[t] \in 0..Attempts
  OBVIOUS
<1>1. CASE Check(t) \/ Unconfigured(t) \/ StartMaking(t)
  BY <1>0, <1>1 DEF Check, Unconfigured, StartMaking
<1>2. CASE Make(t) \/ Return(t)
  BY <1>0, <1>2 DEF Make, Return
<1>3. CASE MakeFails(t)
  BY <1>0, <1>3 DEF MakeFails
<1>4. CASE Acquire(t) \/ AcquireFails(t)
  BY <1>4 DEF Acquire, AcquireFails
<1>5. CASE NothingToClose(t) \/ SomethingToClose(t) \/ ForceClose(t) \/ Clear(t)
  BY <1>5 DEF NothingToClose, SomethingToClose, ForceClose, Clear
<1>6. CASE Retry(t) \/ GiveUp(t) \/ Release(t)
  BY <1>6 DEF Retry, GiveUp, Release, End
<1> QED
  BY <1>1, <1>2, <1>3, <1>4, <1>5, <1>6 DEF Step

\* So each step of a thread leaves its call fewer steps, and other calls as many as before.
LEMMA StepsLeftFall ==
    ASSUME Kinds, NEW t \in Threads, Step(t)
    PROVE  /\ StepsLeft(t)' < StepsLeft(t)
           /\ \A u \in Threads \ {t} : StepsLeft(u)' = StepsLeft(u)
<1>1. Kinds'
  BY KindsStep
<1>2. pc[t] # "idle"
  BY StepFrame
<1>3. StepsLeft(t) \in 1..LongestCall
  BY <1>2, InCall, CallBounded DEF StepsLeft
<1>4. StepsLeft(t)' < StepsLeft(t)
  <2>1. CASE pc'[t] = "idle"
    <3>1. LongestCall \in Int
      BY Parameters DEF LongestCall
    <3> QED
      BY <1>3, <2>1, <3>1 DEF StepsLeft, OfCall
  <2>2. CASE pc'[t] # "idle"
    <3>1. /\ pc'[t] \in Places \ {"idle"} /\ making'[t] \in 0..Attempts
          /\ pc'[t] = "make" => making'[t] >= 1
          /\ attempt'[t] \in 1..Attempts
      BY <1>1, <2>2, Parameters DEF Kinds, TypeOK
    <3> QED
      BY <1>2, <2>2, <3>1, InCall, StepAdvances, CallFalls DEF StepsLeft
  <2> QED
    BY <2>1, <2>2
<1>5. ASSUME NEW u \in Threads \ {t}
      PROVE  StepsLeft(u)' = StepsLeft(u)
  BY StepFrame DEF StepsLeft
<1> QED
  BY <1>4, <1>5

\* A call that begins has LongestCall steps left at most, and no other call has more than
\* before.
LEMMA StepsLeftAtCall ==
    ASSUME Kinds, NEW t \in Threads, Call(t)
    PROVE  /\ pc[t] = "idle" /\ pc'[t] # "idle"
           /\ \A u \in Threads \ {t} : StepsLeft(u)' = StepsLeft(u)
BY DEF Kinds, TypeOK, Call, Goto, StepsLeft

\* The first half of why every call ends: a call takes LongestCall steps at most, however
\* often pools are closed under it.  Each step of its thread leaves it fewer, and no other
\* thread's step or call leaves it more; it is over when none is left.
CallsGetShorter ==
    \A t \in Threads :
        /\ StepsLeft(t) \in 0..LongestCall
        /\ StepsLeft(t) = 0 <=> pc[t] = "idle"
        /\ Step(t) => StepsLeft(t)' < StepsLeft(t)
        /\ pc[t] # "idle" => StepsLeft(t)' <= StepsLeft(t)

\* The second half: whoever waits for a connection of an open pool, all of them being in
\* use, waits for a thread that is using one and waits for nobody.
UsersAreAwaited ==
    \A t \in Threads :
        /\ pc[t] = "acquire" /\ cur[t] \in open /\ Cardinality(InUse(cur[t])) >= Size
        => \E u \in Threads : pc[u] = "using" /\ conn[u] = cur[t]

\* The connections in use are held by threads that use them.
LEMMA WhoeverWaits ==
    ASSUME IInv
    PROVE  UsersAreAwaited
<1> SUFFICES ASSUME NEW t \in Threads, cur[t] \in open, Cardinality(InUse(cur[t])) >= Size
             PROVE  \E u \in Threads : pc[u] = "using" /\ conn[u] = cur[t]
  BY DEF UsersAreAwaited
<1>1. InUse(cur[t]) # {}
  BY FS_EmptySet, PoolAssumption
<1>2. PICK u \in Threads : conn[u] = cur[t]
  BY <1>1 DEF InUse
<1>3. cur[t] # None
  BY Parameters DEF IInv, Kinds, TypeOK
<1> QED
  BY <1>2, <1>3 DEF IInv, Kinds, TypeOK

\* connect_adb's retries are bounded whoever else is at it: a call takes LongestCall steps at
\* most, also when every pool it finds or makes is closed under it.
THEOREM CallsAreBounded == Spec => [][CallsGetShorter]_vars
<1>1. ASSUME IInv, [Next]_vars
      PROVE  [CallsGetShorter]_vars
  <2>1. ASSUME NEW t \in Threads
        PROVE  StepsLeft(t) \in 0..LongestCall /\ (StepsLeft(t) = 0 <=> pc[t] = "idle")
    <3>1. Kinds /\ LongestCall \in Nat
      BY <1>1, Parameters DEF IInv, LongestCall
    <3>2. CASE pc[t] = "idle"
      BY <3>1, <3>2 DEF StepsLeft, OfCall
    <3>3. CASE pc[t] # "idle"
      <4>1. StepsLeft(t) \in 1..LongestCall
        BY <3>1, <3>3, InCall, CallBounded DEF StepsLeft
      <4> QED
        BY <3>1, <3>3, <4>1
    <3> QED
      BY <3>2, <3>3
  <2>2. ASSUME NEW t \in Threads, Step(t)
        PROVE  StepsLeft(t)' < StepsLeft(t)
    BY <1>1, <2>2, StepsLeftFall DEF IInv
  <2>3. ASSUME NEW t \in Threads, pc[t] # "idle", Next
        PROVE  StepsLeft(t)' <= StepsLeft(t)
    <3>1. StepsLeft(t) \in Int
      BY <2>1, Parameters DEF LongestCall
    <3>2. PICK u \in Threads : Call(u) \/ Step(u)
      BY <2>3 DEF Next
    <3>3. CASE Call(u)
      <4>1. t # u /\ StepsLeft(t)' = StepsLeft(t)
        BY <1>1, <2>3, <3>3, StepsLeftAtCall DEF IInv
      <4> QED
        BY <3>1, <4>1
    <3>4. CASE Step(u)
      <4>1. CASE t = u
        <5>1. StepsLeft(t)' < StepsLeft(t)
          BY <2>2, <3>4, <4>1
        <5>2. StepsLeft(t)' \in Int
          <6>1. Kinds' /\ LongestCall \in Nat
            BY <1>1, <3>4, KindsStep, Parameters DEF IInv, LongestCall
          <6> QED
            BY <6>1, Parameters DEF Kinds, TypeOK, StepsLeft, OfCall, OfAttempt
        <5> QED
          BY <3>1, <5>1, <5>2
      <4>2. CASE t # u
        <5>1. StepsLeft(t)' = StepsLeft(t)
          BY <1>1, <3>4, <4>2, StepsLeftFall DEF IInv
        <5> QED
          BY <3>1, <5>1
      <4> QED
        BY <4>1, <4>2
    <3> QED
      BY <3>2, <3>3, <3>4
  <2>4. CASE Next
    BY <2>1, <2>2, <2>3, <2>4 DEF CallsGetShorter
  <2>5. CASE UNCHANGED vars
    BY <2>5
  <2> QED
    BY <1>1, <2>4, <2>5
<1> QED
  BY <1>1, Inductive, PTL DEF Spec

\* get_adb_pool's pool of Size connections keeps nobody waiting for a waiter: where all are
\* in use, a thread that waits for none is using one.
THEOREM WaitersWaitForUsers == Spec => []UsersAreAwaited
BY WhoeverWaits, Inductive, PTL
=============================================================================
