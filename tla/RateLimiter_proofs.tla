-------------------------- MODULE RateLimiter_proofs --------------------------
(***************************************************************************)
(* Proofs about RateLimiter, for every set of clients, limit and window.   *)
(*                                                                         *)
(* The argument: the limiter only ever prunes a stamp that is at least     *)
(* Window old, and the clock moves forward, so what it keeps for a client, *)
(* once pruned, is exactly what the client was let through recently        *)
(* (LogComplete).  A window that ends at the newest admitted request lies  *)
(* inside what was kept when that request was let through, and that was    *)
(* fewer than MaxRequests stamps.                                          *)
(***************************************************************************)
EXTENDS RateLimiter, FiniteSetTheorems, TLAPS

\* The log of a client is part of its history and holds all its recent requests.
LogComplete ==
    \A c \in Clients :
        /\ log[c] \subseteq admitted[c]
        /\ \A e \in admitted[c] : now - e.at < Window => e \in log[c]

\* Histories are finite, numbered from 1 without a gap above, and not of the future.
HistoryNumbered ==
    \A c \in Clients :
        /\ IsFiniteSet(admitted[c])
        /\ \A e \in admitted[c] : e.n <= Cardinality(admitted[c]) /\ e.at <= now

IInv == TypeOK /\ HistoryNumbered /\ LogComplete /\ WindowBound

-----------------------------------------------------------------------------

\* What pruning leaves is what the policy calls recent (main.py lines 95-99).
LEMMA PrunedIsRecent ==
    ASSUME LogComplete, NEW c \in Clients
    PROVE  Pruned(c) = Policy!Recent(c)
BY DEF LogComplete, Pruned, Policy!Recent

\* The abstract policy, instantiated here, counts as this module does.
LEMMA SameCount == \A S : Policy!Cardinality(S) = Cardinality(S)
BY DEF Cardinality, Policy!Cardinality, IsFiniteSet, Policy!IsFiniteSet

\* A new stamp differs from every stamp admitted before.
LEMMA NewStampFresh ==
    ASSUME TypeOK, HistoryNumbered, NEW c \in Clients
    PROVE  /\ NewStamp(c) \in Stamp
           /\ NewStamp(c) \notin admitted[c]
           /\ Cardinality(admitted[c]) \in Nat
           /\ Cardinality(admitted[c] \union {NewStamp(c)}) = Cardinality(admitted[c]) + 1
<1>1. IsFiniteSet(admitted[c])
  BY DEF HistoryNumbered
<1>2. Cardinality(admitted[c]) \in Nat
  BY <1>1, FS_CardinalityType
<1>3. NewStamp(c) \in Stamp
  BY <1>2 DEF NewStamp, Stamp, TypeOK
<1>4. NewStamp(c) \notin admitted[c]
  <2>1. SUFFICES ASSUME NewStamp(c) \in admitted[c] PROVE FALSE
    OBVIOUS
  <2>2. NewStamp(c).n <= Cardinality(admitted[c])
    BY <2>1 DEF HistoryNumbered
  <2>3. NewStamp(c).n = Cardinality(admitted[c]) + 1
    BY DEF NewStamp
  <2> QED
    BY <2>2, <2>3, <1>2
<1> QED
  BY <1>1, <1>2, <1>3, <1>4, FS_AddElement

\* Letting a request through when fewer than MaxRequests recent ones are known keeps
\* every span within the limit.
LEMMA AdmitKeepsBound ==
    ASSUME IInv, NEW c \in Clients, Admit(c)
    PROVE  WindowBound'
<1> USE LimiterAssumption
<1> SUFFICES ASSUME NEW d \in Clients, NEW x \in 0..Horizon
             PROVE  Cardinality({e \in admitted'[d] : x <= e.at /\ e.at < x + Window})
                        <= MaxRequests
  BY DEF WindowBound
<1> DEFINE Span == {e \in admitted'[d] : x <= e.at /\ e.at < x + Window}
<1>1. CASE d # c
  <2>1. admitted'[d] = admitted[d]
    BY <1>1 DEF Admit, IInv, TypeOK
  <2> QED
    BY <2>1 DEF IInv, WindowBound
<1>2. CASE d = c /\ ~(x <= now /\ now < x + Window)
  <2>1. admitted'[d] = admitted[d] \union {NewStamp(c)}
    BY <1>2 DEF Admit, IInv, TypeOK
  <2>2. Span = {e \in admitted[d] : x <= e.at /\ e.at < x + Window}
    BY <2>1, <1>2 DEF NewStamp
  <2> QED
    BY <2>2 DEF IInv, WindowBound
<1>3. CASE d = c /\ x <= now /\ now < x + Window
  <2>1. admitted'[c] = admitted[c] \union {NewStamp(c)}
    BY DEF Admit, IInv, TypeOK
  <2>2. IsFiniteSet(Pruned(c))
    <3>1. Pruned(c) \subseteq admitted[c]
      BY DEF IInv, LogComplete, Pruned
    <3> QED
      BY <3>1, FS_Subset DEF IInv, HistoryNumbered
  <2>3. Cardinality(Pruned(c)) \in Nat /\ Cardinality(Pruned(c)) < MaxRequests
    BY <2>2, FS_CardinalityType DEF Admit
  <2>4. Span \subseteq Pruned(c) \union {NewStamp(c)}
    <3>1. SUFFICES ASSUME NEW e \in admitted[c], x <= e.at
                   PROVE  e \in Pruned(c)
      BY <2>1, <1>3
    <3>2. now \in Nat /\ e.at \in Nat /\ e.at <= now
      BY DEF IInv, TypeOK, HistoryNumbered, Stamp
    <3>3. now - e.at < Window
      BY <3>1, <3>2, <1>3
    <3> QED
      BY <3>3 DEF IInv, LogComplete, Pruned
  <2>5. /\ IsFiniteSet(Pruned(c) \union {NewStamp(c)})
        /\ Cardinality(Pruned(c) \union {NewStamp(c)}) <= Cardinality(Pruned(c)) + 1
    BY <2>2, <2>3, FS_AddElement
  <2>6. Cardinality(Span) <= Cardinality(Pruned(c) \union {NewStamp(c)})
    BY <2>4, <2>5, FS_Subset
  <2>7. /\ Cardinality(Span) \in Nat
        /\ Cardinality(Pruned(c) \union {NewStamp(c)}) \in Nat
    BY <2>4, <2>5, FS_Subset, FS_CardinalityType
  <2> QED
    BY <2>3, <2>5, <2>6, <2>7, <1>3
<1> QED
  BY <1>1, <1>2, <1>3

-----------------------------------------------------------------------------

\* The limiter starts with empty logs, within every bound.
LEMMA InitIInv == Init => IInv
<1> SUFFICES ASSUME Init PROVE IInv
  OBVIOUS
<1> USE LimiterAssumption
<1>1. TypeOK
  BY DEF Init, TypeOK
<1>2. IsFiniteSet({}) /\ Cardinality({}) = 0
  BY FS_EmptySet
<1>3. HistoryNumbered
  BY <1>2 DEF Init, HistoryNumbered
<1>4. LogComplete
  BY DEF Init, LogComplete
<1>5. WindowBound
  <2> SUFFICES ASSUME NEW c \in Clients, NEW x \in 0..Horizon
               PROVE  Cardinality({e \in admitted[c] : x <= e.at /\ e.at < x + Window})
                          <= MaxRequests
    BY DEF WindowBound
  <2>1. {e \in admitted[c] : x <= e.at /\ e.at < x + Window} = {}
    BY DEF Init
  <2> QED
    BY <2>1, <1>2
<1> QED
  BY <1>1, <1>3, <1>4, <1>5 DEF IInv

\* Every step of the limiter preserves the invariant.
LEMMA NextIInv == IInv /\ [Next]_vars => IInv'
<1> SUFFICES ASSUME IInv, [Next]_vars PROVE IInv'
  OBVIOUS
<1> USE LimiterAssumption
<1>1. CASE Tick
  <2>1. TypeOK'
    BY <1>1 DEF Tick, IInv, TypeOK
  <2>2. HistoryNumbered'
    BY <1>1 DEF Tick, IInv, TypeOK, HistoryNumbered, Stamp
  <2>3. LogComplete'
    BY <1>1 DEF Tick, IInv, TypeOK, LogComplete, Stamp
  <2>4. WindowBound'
    BY <1>1 DEF Tick, IInv, WindowBound
  <2> QED
    BY <2>1, <2>2, <2>3, <2>4 DEF IInv
<1>2. ASSUME NEW c \in Clients, Refuse(c) PROVE IInv'
  <2>1. TypeOK'
    BY <1>2 DEF Refuse, Pruned, IInv, TypeOK
  <2>2. HistoryNumbered'
    BY <1>2 DEF Refuse, IInv, HistoryNumbered
  <2>3. LogComplete'
    BY <1>2 DEF Refuse, Pruned, IInv, TypeOK, LogComplete
  <2>4. WindowBound'
    BY <1>2 DEF Refuse, IInv, WindowBound
  <2> QED
    BY <2>1, <2>2, <2>3, <2>4 DEF IInv
<1>3. ASSUME NEW c \in Clients, Admit(c) PROVE IInv'
  <2>0. /\ NewStamp(c) \in Stamp
        /\ Cardinality(admitted[c]) \in Nat
        /\ Cardinality(admitted[c] \union {NewStamp(c)}) = Cardinality(admitted[c]) + 1
    BY NewStampFresh DEF IInv
  <2>a. /\ admitted' = [admitted EXCEPT ![c] = admitted[c] \union {NewStamp(c)}]
        /\ log' = [log EXCEPT ![c] = Pruned(c) \union {NewStamp(c)}]
        /\ now' = now
    BY <1>3 DEF Admit
  <2>1. TypeOK'
    BY <1>3, <2>0 DEF Admit, Pruned, IInv, TypeOK
  <2>2. HistoryNumbered'
    <3> SUFFICES ASSUME NEW d \in Clients
                 PROVE  /\ IsFiniteSet(admitted'[d])
                        /\ \A e \in admitted'[d] : /\ e.n <= Cardinality(admitted'[d])
                                                   /\ e.at <= now
      BY <2>a DEF HistoryNumbered
    <3>1. CASE d # c
      BY <3>1, <2>a DEF IInv, TypeOK, HistoryNumbered
    <3>2. CASE d = c
      <4>1. admitted'[d] = admitted[c] \union {NewStamp(c)}
        BY <3>2, <2>a DEF IInv, TypeOK
      <4>2. IsFiniteSet(admitted'[d])
        BY <4>1, FS_AddElement DEF IInv, HistoryNumbered
      <4>3. \A e \in admitted[c] : /\ e.n \in Nat /\ e.n <= Cardinality(admitted[c])
                                   /\ e.at <= now
        BY DEF IInv, TypeOK, HistoryNumbered, Stamp
      <4>4. NewStamp(c).n = Cardinality(admitted[c]) + 1 /\ NewStamp(c).at = now
        BY DEF NewStamp
      <4>5. now \in Nat
        BY DEF IInv, TypeOK
      <4> QED
        BY <4>1, <4>2, <4>3, <4>4, <4>5, <2>0
    <3> QED
      BY <3>1, <3>2
  <2>3. LogComplete'
    BY <2>a DEF Pruned, IInv, TypeOK, LogComplete
  <2>4. WindowBound'
    BY <1>3, AdmitKeepsBound
  <2> QED
    BY <2>1, <2>2, <2>3, <2>4 DEF IInv
<1>4. CASE UNCHANGED vars
  BY <1>4 DEF vars, IInv, TypeOK, HistoryNumbered, LogComplete, WindowBound
<1> QED
  BY <1>1, <1>2, <1>3, <1>4 DEF Next

\* The inductive invariant, in every state.
LEMMA IInvAlways == Spec => []IInv
BY InitIInv, NextIInv, PTL DEF Spec

\* Type correctness of the limiter.
THEOREM TypeCorrect == Spec => []TypeOK
<1>1. IInv => TypeOK
  BY DEF IInv
<1> QED
  BY <1>1, IInvAlways, PTL

\* No client is ever let through more than MaxRequests times in any span of Window
\* time units, whatever the limiter has pruned since.
THEOREM LimitHolds == Spec => []WindowBound
<1>1. IInv => WindowBound
  BY DEF IInv
<1> QED
  BY <1>1, IInvAlways, PTL

\* The limiter with its pruned logs implements the policy that remembers everything:
\* it admits exactly when the policy does, and a refusal leaves no trace.
THEOREM LimiterImplementsPolicy == Spec => ImplementsPolicy
<1>1. Init => Policy!Init
  BY DEF Init, Policy!Init
<1>2. IInv /\ [Next]_vars => [Policy!Next]_(Policy!vars)
  <2> SUFFICES ASSUME IInv, [Next]_vars PROVE [Policy!Next]_(Policy!vars)
    OBVIOUS
  <2>1. CASE Tick
    BY <2>1 DEF Tick, Policy!Next, Policy!Tick
  <2>2. ASSUME NEW c \in Clients, Refuse(c) PROVE Policy!Refuse(c)
    BY <2>2, PrunedIsRecent, SameCount DEF IInv, Refuse, Policy!Refuse
  <2>3. ASSUME NEW c \in Clients, Admit(c) PROVE Policy!Admit(c)
    BY <2>3, PrunedIsRecent, SameCount DEF IInv, Admit, NewStamp, Policy!Admit, Policy!Entry
  <2>4. CASE UNCHANGED vars
    BY <2>4 DEF vars, Policy!vars
  <2> QED
    BY <2>1, <2>2, <2>3, <2>4 DEF Next, Policy!Next
<1> QED
  BY <1>1, <1>2, IInvAlways, PTL DEF Spec, Policy!Spec, ImplementsPolicy
=============================================================================
