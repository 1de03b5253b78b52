----------------------- MODULE OfflinePipeline_proofs -----------------------
(***************************************************************************)
(* Proofs about OfflinePipeline, for every set of workers, sessions and    *)
(* questions, every vocabulary, cache and table, and every number of       *)
(* turns.                                                                  *)
(*                                                                         *)
(* Which text a follow-up becomes does not matter to the first two         *)
(* theorems, only what it is resolved against, and that is decided by who  *)
(* wrote the session's history last.  Resolve is opened for the lemmas on  *)
(* rewriting alone, Generate and FindSimilarRows for those on statements.  *)
(***************************************************************************)
EXTENDS OfflinePipeline, DataLemmas

\* The steps of a request after its question has been resolved and recorded.
Answering(r) ==
    \/ GenerateNothing(r) \/ Block(r) \/ GenerateSql(r)
    \/ ExecuteFails(r) \/ ExecuteRaises(r) \/ Execute(r) \/ ExecuteEmpty(r)
    \/ Fallback(r) \/ FallbackMisled(r) \/ FallbackFindsNothing(r)

InFlight(r) == pc[r] \notin {"idle", "done"}

\* Every worker and session has its values, and a request its session.
Shape ==
    /\ pc \in [Workers -> Places]
    /\ DOMAIN asked = Workers
    /\ DOMAIN resolved = Workers
    /\ DOMAIN gen = Workers
    /\ DOMAIN response = Workers
    /\ DOMAIN history = Sessions
    /\ DOMAIN said = Sessions
    /\ DOMAIN context = Sessions
    /\ \A r \in Workers :
         /\ pc[r] # "idle" => asked[r].session \in Sessions \union {NoSession}
         /\ pc[r] # "idle" /\ asked[r].session = NoSession => asked[r].context = NoText
         /\ pc[r] = "record" => asked[r].session # NoSession

\* What the history of a session holds, or is about to hold, the session has said.
HistoryIsSaid ==
    /\ \A s \in Sessions : history[s] \in Seq(said[s])
    /\ \A r \in Workers : pc[r] = "record" => resolved[r] \in said[asked[r].session]

\* The text a follow-up of s is resolved against now.
Previous(s) == IF history[s] = <<>> THEN NoText ELSE Last(history[s])

\* A session whose requests never overlapped has at most one in flight.
OneAtATime ==
    \A r, q \in Workers :
        /\ InFlight(r) /\ InFlight(q)
        /\ asked[r].session = asked[q].session
        /\ asked[r].session \in Sessions \ mixed
        => r = q

\* In such a session the history ends with the question answered last, unless it is
\* just being emptied and extended for the one in flight.
InStep ==
    /\ \A s \in Sessions \ mixed : ~Busy(s) => context[s] = Previous(s)
    /\ \A r \in Workers :
         InFlight(r) /\ asked[r].session \in Sessions \ mixed =>
           /\ pc[r] = "resolve" => asked[r].context = Previous(asked[r].session)
           /\ pc[r] \notin {"resolve", "record"} =>
                 /\ history[asked[r].session] # <<>>
                 /\ resolved[r] = Last(history[asked[r].session])

-----------------------------------------------------------------------------

\* Answering leaves the conversation alone, but for the client's idea of it.
LEMMA AnsweringFrame ==
    ASSUME NEW r \in Workers, Answering(r)
    PROVE  /\ pc[r] \in {"generate", "execute", "fallback"}
           /\ UNCHANGED <<history, asked, resolved, said, mixed>>
           /\ \/ /\ \E p \in {"execute", "fallback"} : pc' = [pc EXCEPT ![r] = p]
                 /\ context' = context
              \/ /\ pc' = [pc EXCEPT ![r] = "done"]
                 /\ context' = IF asked[r].session = NoSession THEN context
                               ELSE [context EXCEPT ![asked[r].session] = resolved[r]]
<1>1. CASE GenerateNothing(r)
  BY <1>1 DEF GenerateNothing, Respond, Goto
<1>2. CASE Block(r)
  BY <1>2 DEF Block, Respond, Goto
<1>3. CASE GenerateSql(r)
  BY <1>3 DEF GenerateSql, Goto
<1>4. CASE ExecuteFails(r)
  BY <1>4 DEF ExecuteFails, Respond, Goto
<1>5. CASE ExecuteRaises(r)
  BY <1>5 DEF ExecuteRaises, Respond, Goto
<1>6. CASE Execute(r)
  BY <1>6 DEF Execute, Respond, Goto
<1>7. CASE ExecuteEmpty(r)
  BY <1>7 DEF ExecuteEmpty, Goto
<1>8. CASE Fallback(r)
  BY <1>8 DEF Fallback, Respond, Goto
<1>9. CASE FallbackFindsNothing(r)
  BY <1>9 DEF FallbackFindsNothing, Respond, Goto
<1>10. CASE FallbackMisled(r)
  BY <1>10 DEF FallbackMisled, Respond, Goto
<1> QED
  BY <1>1, <1>2, <1>3, <1>4, <1>5, <1>6, <1>7, <1>8, <1>9, <1>10 DEF Answering

\* Next, with the steps after the resolution taken together.
LEMMA NextCases ==
    ASSUME [Next]_vars
    PROVE  \/ \E r \in Workers : \E s \in Sessions \union {NoSession}, q \in Questions : Ask(r, s, q)
           \/ \E r \in Workers : \/ ResolveAlone(r) \/ ResolveNewTopic(r)
                                 \/ ResolveFollowUp(r) \/ Record(r) \/ Answering(r)
           \/ HealthCheck
           \/ UNCHANGED vars
BY DEF Next, Step, Answering

\* Nobody is served at first.
LEMMA ShapeInit == Init => Shape
BY DEF Init, Shape, Places

\* Every step keeps the shapes of the variables.
LEMMA ShapeNext == Shape /\ [Next]_vars => Shape'
<1> SUFFICES ASSUME Shape, [Next]_vars PROVE Shape'
  OBVIOUS
<1>1. ASSUME NEW r \in Workers, NEW s \in Sessions \union {NoSession}, NEW q \in Questions,
             Ask(r, s, q)
      PROVE  Shape'
  BY <1>1 DEF Shape, Ask, Goto, Places
<1>2. ASSUME NEW r \in Workers, ResolveAlone(r) PROVE Shape'
  BY <1>2 DEF Shape, ResolveAlone, ResolvesTo, Goto, Places
<1>3. ASSUME NEW r \in Workers, ResolveNewTopic(r) PROVE Shape'
  BY <1>3 DEF Shape, ResolveNewTopic, ResolvesTo, Goto, Places
<1>4. ASSUME NEW r \in Workers, ResolveFollowUp(r) PROVE Shape'
  BY <1>4 DEF Shape, ResolveFollowUp, ResolvesTo, Goto, Places
<1>5. ASSUME NEW r \in Workers, Record(r) PROVE Shape'
  BY <1>5 DEF Shape, Record, Goto, Places
<1>6. ASSUME NEW r \in Workers, Answering(r) PROVE Shape'
  <2>1. DOMAIN gen' = Workers /\ DOMAIN response' = Workers
    BY <1>6 DEF Shape, Answering, GenerateNothing, Block, GenerateSql, ExecuteFails,
       ExecuteRaises, Execute, ExecuteEmpty, Fallback, FallbackMisled, FallbackFindsNothing,
       Respond
  <2> QED
    BY <1>6, <2>1, AnsweringFrame DEF Shape, Places
<1>7. CASE HealthCheck \/ UNCHANGED vars
  BY <1>7 DEF Shape, HealthCheck, HealthCheck, vars
<1> QED
  BY <1>1, <1>2, <1>3, <1>4, <1>5, <1>6, <1>7, NextCases

-----------------------------------------------------------------------------

\* A sequence over a set is one over every larger set.
LEMMA WiderSeq ==
    ASSUME NEW A, NEW B, A \subseteq B, NEW s \in Seq(A)
    PROVE  s \in Seq(B)
  OBVIOUS

\* The last of a sequence is one of its members.
LEMMA LastIsMember ==
    ASSUME NEW A, NEW s \in Seq(A), s # <<>>
    PROVE  Last(s) \in A
BY DEF Last

\* What is appended is the last.
LEMMA LastOfAppend ==
    ASSUME NEW A, NEW s \in Seq(A), NEW e
    PROVE  Append(s, e) # <<>> /\ Last(Append(s, e)) = e
BY DEF Last

\* What a follow-up becomes is never the text it was resolved against.
LEMMA ResolveTwoWays ==
    ASSUME NEW q, NEW p
    PROVE  \/ Resolve(q, p) = q
           \/ p # NoText /\ Resolve(q, p) # p
BY DEF Resolve, RewriteFollowUp

\* A question that stands on its own, or has nothing before it, stays what it is.
LEMMA ResolveAsIs ==
    ASSUME NEW q, NEW p, ~LooksLikeFollowUp(q) \/ p = NoText
    PROVE  Resolve(q, p) = q
BY DEF Resolve

\* Nothing was said at first.
LEMMA SaidInit == Init => HistoryIsSaid /\ ResolvedInSession
BY DEF Init, HistoryIsSaid, ResolvedInSession, IsResolved

\* The history grows by the question just said and shrinks to nothing.
LEMMA SaidNext == Shape /\ HistoryIsSaid /\ [Next]_vars => HistoryIsSaid'
<1> SUFFICES ASSUME Shape, HistoryIsSaid, [Next]_vars PROVE HistoryIsSaid'
  OBVIOUS
<1> USE SessionAssumption
<1>1. ASSUME NEW r \in Workers, NEW s \in Sessions \union {NoSession}, NEW q \in Questions,
             Ask(r, s, q)
      PROVE  HistoryIsSaid'
  BY <1>1 DEF Shape, HistoryIsSaid, Ask, Goto
<1>2. ASSUME NEW r \in Workers, ResolveAlone(r) PROVE HistoryIsSaid'
  <2>1. \A s \in Sessions : said'[s] = said[s]
    BY <1>2 DEF ResolveAlone, ResolvesTo
  <2> QED
    BY <1>2, <2>1 DEF Shape, HistoryIsSaid, ResolveAlone, ResolvesTo, Goto
<1>3. ASSUME NEW r \in Workers, ResolvesTo(r, resolved'[r]),
             NEW t \in Sessions, t = asked[r].session,
             history' \in {history, [history EXCEPT ![t] = <<>>]},
             pc' = [pc EXCEPT ![r] = "record"], asked' = asked
      PROVE  HistoryIsSaid'
  <2>1. said' = [s \in Sessions |-> said[s] \union (IF s = t THEN {resolved'[r]} ELSE {})]
    BY <1>3 DEF ResolvesTo
  <2>2. ASSUME NEW s \in Sessions PROVE history'[s] \in Seq(said'[s])
    <3>1. history'[s] \in Seq(said[s])
      <4>1. history'[s] = history[s] \/ history'[s] = <<>>
        BY <1>3 DEF Shape
      <4>2. history[s] \in Seq(said[s]) /\ <<>> \in Seq(said[s])
        BY DEF HistoryIsSaid
      <4> QED
        BY <4>1, <4>2
    <3>2. said[s] \subseteq said'[s]
      BY <2>1
    <3> QED
      BY <3>1, <3>2, WiderSeq
  <2>3. ASSUME NEW w \in Workers, pc'[w] = "record"
        PROVE  resolved'[w] \in said'[asked'[w].session]
    <3>1. CASE w = r
      BY <1>3, <2>1, <3>1
    <3>2. CASE w # r
      <4>1. pc[w] = "record" /\ resolved'[w] = resolved[w]
        BY <1>3, <2>3, <3>2 DEF Shape, ResolvesTo
      <4>2. asked[w].session \in Sessions
        BY <4>1 DEF Shape
      <4> QED
        BY <1>3, <2>1, <4>1, <4>2 DEF HistoryIsSaid
    <3> QED
      BY <3>1, <3>2
  <2> QED
    BY <2>2, <2>3 DEF HistoryIsSaid
<1>4. ASSUME NEW r \in Workers, ResolveNewTopic(r) PROVE HistoryIsSaid'
  <2>1. asked[r].session \in Sessions
    BY <1>4 DEF Shape, ResolveNewTopic
  <2>2. ResolvesTo(r, resolved'[r])
    BY <1>4 DEF Shape, ResolveNewTopic, ResolvesTo
  <2> QED
    BY <1>3, <1>4, <2>1, <2>2 DEF ResolveNewTopic, Goto
<1>5. ASSUME NEW r \in Workers, ResolveFollowUp(r) PROVE HistoryIsSaid'
  <2>1. asked[r].session \in Sessions
    BY <1>5 DEF Shape, ResolveFollowUp
  <2>2. ResolvesTo(r, resolved'[r])
    BY <1>5 DEF Shape, ResolveFollowUp, ResolvesTo
  <2> QED
    BY <1>3, <1>5, <2>1, <2>2 DEF ResolveFollowUp, Goto
<1>6. ASSUME NEW r \in Workers, Record(r) PROVE HistoryIsSaid'
  <2>1. asked[r].session \in Sessions /\ resolved[r] \in said[asked[r].session]
    BY <1>6 DEF Shape, HistoryIsSaid, Record
  <2>2. \A s \in Sessions : history'[s] \in Seq(said[s])
    BY <1>6, <2>1 DEF Shape, HistoryIsSaid, Record
  <2>3. \A w \in Workers : pc'[w] = "record" => pc[w] = "record"
    BY <1>6 DEF Shape, Record, Goto
  <2> QED
    BY <1>6, <2>2, <2>3 DEF HistoryIsSaid, Record
<1>7. ASSUME NEW r \in Workers, Answering(r) PROVE HistoryIsSaid'
  <2>1. \A w \in Workers : pc'[w] = "record" => pc[w] = "record"
    BY <1>7, AnsweringFrame DEF Shape
  <2> QED
    BY <1>7, <2>1, AnsweringFrame DEF HistoryIsSaid
<1>8. CASE HealthCheck \/ UNCHANGED vars
  BY <1>8 DEF HistoryIsSaid, HealthCheck, vars
<1> QED
  BY <1>1, <1>2, <1>4, <1>5, <1>6, <1>7, <1>8, NextCases

\* A question is resolved against the last one of its session's history.
LEMMA InSessionNext ==
    Shape /\ HistoryIsSaid /\ ResolvedInSession /\ [Next]_vars => ResolvedInSession'
<1> SUFFICES ASSUME Shape, HistoryIsSaid, ResolvedInSession, [Next]_vars
             PROVE  ResolvedInSession'
  OBVIOUS
<1> USE SessionAssumption
<1> DEFINE
      Own(r) == \/ resolved[r] = asked[r].question
                \/ /\ asked[r].session # NoSession
                   /\ \E p \in said[asked[r].session] \ {resolved[r]} :
                         resolved[r] = Resolve(asked[r].question, p)
\* What others have resolved before stays true when a session says more.
<1>1. ASSUME NEW r \in Workers, IsResolved(r),
             resolved'[r] = resolved[r], asked'[r] = asked[r],
             \A s \in Sessions : said[s] \subseteq said'[s]
      PROVE  Own(r)'
  BY <1>1 DEF Shape, ResolvedInSession, IsResolved
<1>2. ASSUME NEW r \in Workers, NEW s \in Sessions \union {NoSession}, NEW q \in Questions,
             Ask(r, s, q)
      PROVE  ResolvedInSession'
  <2>1. ASSUME NEW w \in Workers, IsResolved(w)' PROVE Own(w)'
    <3>1. w # r /\ IsResolved(w)
      BY <1>2, <2>1 DEF Shape, Ask, Goto, IsResolved
    <3> QED
      BY <1>1, <1>2, <3>1 DEF Shape, Ask
  <2> QED
    BY <2>1 DEF ResolvedInSession
<1>3. ASSUME NEW r \in Workers, NEW place \in Places, pc' = [pc EXCEPT ![r] = place],
             ResolvesTo(r, resolved'[r]), asked' = asked, Own(r)'
      PROVE  ResolvedInSession'
  <2>1. ASSUME NEW w \in Workers, IsResolved(w)' PROVE Own(w)'
    <3>1. CASE w # r
      <4>1. IsResolved(w) /\ resolved'[w] = resolved[w] /\ asked'[w] = asked[w]
        BY <1>3, <2>1, <3>1 DEF Shape, ResolvesTo, IsResolved
      <4>2. \A s \in Sessions : said[s] \subseteq said'[s]
        BY <1>3 DEF ResolvesTo
      <4> QED
        BY <1>1, <4>1, <4>2
    <3> QED
      BY <1>3, <3>1
  <2> QED
    BY <2>1 DEF ResolvedInSession
<1>4. ASSUME NEW r \in Workers, ResolveAlone(r) PROVE ResolvedInSession'
  <2>1. resolved'[r] = asked'[r].question /\ ResolvesTo(r, resolved'[r])
    BY <1>4 DEF Shape, ResolveAlone, ResolvesTo
  <2> QED
    BY <1>3, <1>4, <2>1 DEF ResolveAlone, Goto, Places
<1>5. ASSUME NEW r \in Workers, ResolveNewTopic(r) PROVE ResolvedInSession'
  <2>1. resolved'[r] = asked'[r].question /\ ResolvesTo(r, resolved'[r])
    BY <1>5 DEF Shape, ResolveNewTopic, ResolvesTo
  <2> QED
    BY <1>3, <1>5, <2>1 DEF ResolveNewTopic, Goto, Places
<1>6. ASSUME NEW r \in Workers, ResolveFollowUp(r) PROVE ResolvedInSession'
  <2> DEFINE s == asked[r].session
             q == asked[r].question
  <2>1. s \in Sessions /\ asked' = asked
    BY <1>6 DEF Shape, ResolveFollowUp
  <2>2. resolved'[r] = Resolve(q, Previous(s)) /\ ResolvesTo(r, resolved'[r])
    BY <1>6 DEF Shape, ResolveFollowUp, ResolvesTo, Previous
  <2>3. CASE resolved'[r] = q
    BY <1>3, <1>6, <2>1, <2>2, <2>3 DEF ResolveFollowUp, Goto, Places
  <2>4. CASE Previous(s) # NoText /\ resolved'[r] # Previous(s)
    <3>1. Previous(s) \in said[s]
      BY <2>1, <2>4, LastIsMember DEF HistoryIsSaid, Previous
    <3>2. Previous(s) \in said'[s]
      BY <2>1, <2>2, <3>1 DEF ResolvesTo
    <3>3. Own(r)'
      BY <1>6, <2>1, <2>2, <2>4, <3>2 DEF ResolveFollowUp
    <3> QED
      BY <1>3, <1>6, <2>1, <2>2, <3>3 DEF ResolveFollowUp, Goto, Places
  <2> QED
    BY <2>2, <2>3, <2>4, ResolveTwoWays
<1>7. ASSUME NEW r \in Workers, Record(r) \/ Answering(r) PROVE ResolvedInSession'
  <2>1. UNCHANGED <<asked, resolved, said>> /\ \A w \in Workers : IsResolved(w)' => IsResolved(w)
    BY <1>7, AnsweringFrame DEF Shape, Record, Goto, IsResolved
  <2> QED
    BY <1>1, <2>1 DEF ResolvedInSession
<1>8. CASE HealthCheck \/ UNCHANGED vars
  BY <1>8 DEF ResolvedInSession, IsResolved, HealthCheck, vars
<1> QED
  BY <1>2, <1>4, <1>5, <1>6, <1>7, <1>8, NextCases

SessionInv == Shape /\ HistoryIsSaid /\ ResolvedInSession

\* So histories hold what was said in their sessions, in every state.
LEMMA SessionInvAlways == Spec => []SessionInv
<1>1. Init => SessionInv
  BY ShapeInit, SaidInit DEF SessionInv
<1>2. SessionInv /\ [Next]_vars => SessionInv'
  BY ShapeNext, SaidNext, InSessionNext DEF SessionInv
<1> QED
  BY <1>1, <1>2, PTL DEF Spec

\* No question is ever resolved against another session's, however requests of all
\* sessions interleave on the shared history.
THEOREM SessionsApart == Spec => []ResolvedInSession
<1>1. SessionInv => ResolvedInSession
  BY DEF SessionInv
<1> QED
  BY <1>1, SessionInvAlways, PTL

-----------------------------------------------------------------------------

DialogueInv == Shape /\ HistoryIsSaid /\ OneAtATime /\ InStep /\ FollowsTheDialogue

\* No dialogue has started at first.
LEMMA DialogueInit == Init => OneAtATime /\ InStep /\ FollowsTheDialogue
BY DEF Init, OneAtATime, InStep, FollowsTheDialogue, InFlight, IsResolved, Previous

\* A session that waits for its answers has one request in flight.
LEMMA OneAtATimeNext == Shape /\ OneAtATime /\ [Next]_vars => OneAtATime'
<1> SUFFICES ASSUME Shape, OneAtATime, [Next]_vars PROVE OneAtATime'
  OBVIOUS
<1> USE SessionAssumption
<1>1. ASSUME NEW r \in Workers, NEW s \in Sessions \union {NoSession}, NEW q \in Questions,
             Ask(r, s, q)
      PROVE  OneAtATime'
  <2>1. ASSUME NEW v \in Workers, NEW w \in Workers, InFlight(v)', InFlight(w)',
               asked'[v].session = asked'[w].session,
               asked'[v].session \in Sessions \ mixed', v # w
        PROVE  FALSE
    <3>1. ASSUME NEW u \in Workers, u # r, InFlight(u)'
          PROVE  InFlight(u) /\ asked'[u] = asked[u]
      BY <1>1, <3>1 DEF Shape, Ask, Goto, InFlight
    <3>2. asked'[r].session = s
      BY <1>1 DEF Shape, Ask
    <3>3. ASSUME NEW u \in Workers, u # r, InFlight(u)', asked'[u].session = s, s \in Sessions
          PROVE  s \in mixed'
      BY <1>1, <3>1, <3>3 DEF Ask, Busy, InFlight
    <3>4. mixed \subseteq mixed'
      BY <1>1 DEF Ask
    <3>5. CASE v = r
      BY <2>1, <3>2, <3>3, <3>5
    <3>6. CASE w = r
      BY <2>1, <3>2, <3>3, <3>6
    <3>7. CASE v # r /\ w # r
      BY <2>1, <3>1, <3>4, <3>7 DEF OneAtATime
    <3> QED
      BY <3>5, <3>6, <3>7
  <2> QED
    BY <2>1 DEF OneAtATime
<1>2. ASSUME NEW r \in Workers, ResolveAlone(r) \/ ResolveNewTopic(r) \/ ResolveFollowUp(r)
                                \/ Record(r) \/ Answering(r)
      PROVE  OneAtATime'
  <2>1. UNCHANGED <<asked, mixed>> /\ \A w \in Workers : InFlight(w)' => InFlight(w)
    BY <1>2, AnsweringFrame
       DEF Shape, ResolveAlone, ResolveNewTopic, ResolveFollowUp, Record, Goto, InFlight
  <2> QED
    BY <2>1 DEF OneAtATime
<1>3. CASE HealthCheck \/ UNCHANGED vars
  BY <1>3 DEF OneAtATime, InFlight, HealthCheck, vars
<1> QED
  BY <1>1, <1>2, <1>3, NextCases

\* Its history ends with what it asked last, until the next question is recorded.
LEMMA InStepNext == Shape /\ HistoryIsSaid /\ OneAtATime /\ InStep /\ [Next]_vars => InStep'
<1> SUFFICES ASSUME Shape, HistoryIsSaid, OneAtATime, InStep, [Next]_vars PROVE InStep'
  OBVIOUS
<1> USE SessionAssumption
<1> DEFINE
      At(w) == /\ pc[w] = "resolve" => asked[w].context = Previous(asked[w].session)
               /\ pc[w] \notin {"resolve", "record"} =>
                     /\ history[asked[w].session] # <<>>
                     /\ resolved[w] = Last(history[asked[w].session])
\* A step of r touches the conversation of its own session only.
<1>1. ASSUME NEW r \in Workers, NEW place \in Places, InFlight(r),
             pc' = [pc EXCEPT ![r] = place],
             UNCHANGED <<asked, mixed>>,
             \A w \in Workers \ {r} : resolved'[w] = resolved[w],
             \A t \in Sessions \ {asked[r].session} :
                history'[t] = history[t] /\ context'[t] = context[t],
             asked[r].session \in Sessions \ mixed =>
                /\ place \notin {"idle", "done"} => At(r)'
                /\ place \in {"idle", "done"} =>
                      context'[asked[r].session] = Previous(asked[r].session)'
      PROVE  InStep'
  <2>1. ASSUME NEW w \in Workers, w # r
        PROVE  pc'[w] = pc[w] /\ asked'[w] = asked[w] /\ (InFlight(w)' <=> InFlight(w))
    BY <1>1, <2>1 DEF Shape, InFlight
  <2>2. ASSUME NEW t \in Sessions \ mixed', ~Busy(t)' PROVE context'[t] = Previous(t)'
    <3>1. CASE t = asked[r].session
      <4>1. place \in {"idle", "done"}
        BY <1>1, <2>2, <3>1 DEF Shape, Busy
      <4> QED
        BY <1>1, <2>2, <3>1, <4>1
    <3>2. CASE t # asked[r].session
      <4>1. ~Busy(t)
        BY <1>1, <2>1, <2>2, <3>2 DEF Busy
      <4>2. context[t] = Previous(t)
        BY <1>1, <2>2, <4>1 DEF InStep
      <4> QED
        BY <1>1, <2>2, <3>2, <4>2 DEF Previous
    <3> QED
      BY <3>1, <3>2
  <2>3. ASSUME NEW w \in Workers, InFlight(w)', asked'[w].session \in Sessions \ mixed'
        PROVE  At(w)'
    <3>1. CASE w = r
      BY <1>1, <2>3, <3>1 DEF Shape, InFlight
    <3>2. CASE w # r
      <4>1. InFlight(w) /\ asked[w].session \in Sessions \ mixed
        BY <1>1, <2>1, <2>3, <3>2
      <4>2. asked[w].session # asked[r].session
        BY <1>1, <3>2, <4>1 DEF OneAtATime
      <4>3. At(w)
        BY <4>1 DEF InStep
      <4>4. history'[asked[w].session] = history[asked[w].session] /\ resolved'[w] = resolved[w]
        BY <1>1, <3>2, <4>1, <4>2
      <4> QED
        BY <2>1, <3>2, <4>3, <4>4 DEF Previous
    <3> QED
      BY <3>1, <3>2
  <2> QED
    BY <2>2, <2>3 DEF InStep
<1>2. ASSUME NEW r \in Workers, NEW s \in Sessions \union {NoSession}, NEW q \in Questions,
             Ask(r, s, q)
      PROVE  InStep'
  <2>1. UNCHANGED <<history, context>> /\ mixed \subseteq mixed' /\ ~InFlight(r)
    BY <1>2 DEF Ask, InFlight
  <2>2. asked'[r].session = s /\ pc'[r] = "resolve"
    BY <1>2 DEF Shape, Ask, Goto
  <2>3. ASSUME NEW w \in Workers, w # r
        PROVE  pc'[w] = pc[w] /\ asked'[w] = asked[w] /\ resolved'[w] = resolved[w]
    BY <1>2, <2>3 DEF Shape, Ask, Goto
  <2>4. ASSUME NEW t \in Sessions \ mixed', ~Busy(t)' PROVE context'[t] = Previous(t)'
    <3>1. ~Busy(t)
      BY <2>1, <2>3, <2>4 DEF Busy, InFlight
    <3> QED
      BY <2>1, <2>4, <3>1 DEF InStep, Previous
  <2>5. ASSUME NEW w \in Workers, InFlight(w)', asked'[w].session \in Sessions \ mixed'
        PROVE  At(w)'
    <3>1. CASE w = r
      <4>1. s \in Sessions \ mixed /\ ~Busy(s)
        BY <1>2, <2>1, <2>2, <2>5, <3>1 DEF Ask
      <4>2. asked'[r].context = context[s]
        BY <1>2, <4>1 DEF Shape, Ask
      <4> QED
        BY <2>1, <2>2, <3>1, <4>1, <4>2 DEF InStep, Previous
    <3>2. CASE w # r
      BY <2>1, <2>3, <2>5, <3>2 DEF InStep, InFlight, Previous
    <3> QED
      BY <3>1, <3>2
  <2> QED
    BY <2>4, <2>5 DEF InStep
<1>3. ASSUME NEW r \in Workers, ResolveAlone(r) PROVE InStep'
  BY <1>1, <1>3 DEF Shape, ResolveAlone, ResolvesTo, Goto, InFlight, Places
<1>4. ASSUME NEW r \in Workers, ResolveNewTopic(r) PROVE InStep'
  BY <1>1, <1>4 DEF Shape, ResolveNewTopic, ResolvesTo, Goto, InFlight, Places
<1>5. ASSUME NEW r \in Workers, ResolveFollowUp(r) PROVE InStep'
  BY <1>1, <1>5 DEF Shape, ResolveFollowUp, ResolvesTo, Goto, InFlight, Places
<1>6. ASSUME NEW r \in Workers, Record(r) PROVE InStep'
  <2>1. asked[r].session \in Sessions
    BY <1>6 DEF Shape, Record
  <2>2. history[asked[r].session] \in Seq(said[asked[r].session])
    BY <2>1 DEF HistoryIsSaid
  <2>3. history'[asked[r].session] = Append(history[asked[r].session], resolved[r])
    BY <1>6, <2>1 DEF Shape, Record
  <2>4. history'[asked[r].session] # <<>> /\ resolved[r] = Last(history'[asked[r].session])
    BY <2>2, <2>3, LastOfAppend
  <2>5. pc'[r] = "generate" /\ UNCHANGED <<asked, resolved>>
    BY <1>6 DEF Shape, Record, Goto
  <2>6. At(r)'
    BY <2>4, <2>5
  <2> QED
    BY <1>1, <1>6, <2>6 DEF Shape, Record, Goto, InFlight, Places
<1>7. ASSUME NEW r \in Workers, Answering(r) PROVE InStep'
  <2> DEFINE s == asked[r].session
  <2>1. /\ pc[r] \in {"generate", "execute", "fallback"}
        /\ UNCHANGED <<history, asked, resolved, said, mixed>>
    BY <1>7, AnsweringFrame
  <2>2. s \in Sessions \ mixed => history[s] # <<>> /\ resolved[r] = Last(history[s])
    BY <2>1 DEF InStep, InFlight
  <2>3. \A t \in Sessions \ {s} : context'[t] = context[t]
    BY <1>7, AnsweringFrame DEF Shape
  <2>4. CASE \E p \in {"execute", "fallback"} : pc' = [pc EXCEPT ![r] = p]
    <3>1. PICK p \in {"execute", "fallback"} : pc' = [pc EXCEPT ![r] = p]
      BY <2>4
    <3>2. s \in Sessions \ mixed => At(r)'
      BY <2>1, <2>2, <3>1 DEF Shape
    <3> QED
      BY <1>1, <2>1, <2>3, <3>1, <3>2 DEF InFlight, Places
  <2>5. CASE /\ pc' = [pc EXCEPT ![r] = "done"]
             /\ context' = IF s = NoSession THEN context ELSE [context EXCEPT ![s] = resolved[r]]
    <3>1. s \in Sessions \ mixed => context'[s] = Previous(s)'
      BY <2>1, <2>2, <2>5 DEF Shape, Previous
    <3> QED
      BY <1>1, <2>1, <2>3, <2>5, <3>1 DEF InFlight, Places
  <2> QED
    BY <1>7, <2>4, <2>5, AnsweringFrame
<1>8. CASE HealthCheck \/ UNCHANGED vars
  BY <1>8 DEF InStep, InFlight, Busy, Previous, HealthCheck, vars
<1> QED
  BY <1>2, <1>3, <1>4, <1>5, <1>6, <1>7, <1>8, NextCases

\* So its follow-ups continue the question answered last.
LEMMA DialogueNext ==
    Shape /\ InStep /\ FollowsTheDialogue /\ [Next]_vars => FollowsTheDialogue'
<1> SUFFICES ASSUME Shape, InStep, FollowsTheDialogue, [Next]_vars PROVE FollowsTheDialogue'
  OBVIOUS
<1> USE SessionAssumption
<1> DEFINE Follows(w) == resolved[w] = Resolve(asked[w].question, asked[w].context)
<1>1. ASSUME NEW r \in Workers, NEW s \in Sessions \union {NoSession}, NEW q \in Questions,
             Ask(r, s, q)
      PROVE  FollowsTheDialogue'
  <2>1. mixed \subseteq mixed' /\ ~IsResolved(r)'
    BY <1>1 DEF Shape, Ask, Goto, IsResolved
  <2>2. ASSUME NEW w \in Workers, w # r
        PROVE  pc'[w] = pc[w] /\ asked'[w] = asked[w] /\ resolved'[w] = resolved[w]
    BY <1>1, <2>2 DEF Shape, Ask, Goto
  <2>3. ASSUME NEW w \in Workers, IsResolved(w)', asked'[w].session \notin mixed'
        PROVE  Follows(w)'
    BY <2>1, <2>2, <2>3 DEF FollowsTheDialogue, IsResolved
  <2> QED
    BY <2>3 DEF FollowsTheDialogue
<1>2. ASSUME NEW r \in Workers, pc[r] = "resolve", ResolvesTo(r, resolved'[r]),
             NEW place \in Places, pc' = [pc EXCEPT ![r] = place],
             UNCHANGED <<asked, mixed>>,
             asked[r].session \notin mixed => Follows(r)'
      PROVE  FollowsTheDialogue'
  <2>1. ASSUME NEW w \in Workers, w # r
        PROVE  pc'[w] = pc[w] /\ resolved'[w] = resolved[w]
    BY <1>2, <2>1 DEF Shape, ResolvesTo
  <2>2. ASSUME NEW w \in Workers, IsResolved(w)', asked'[w].session \notin mixed'
        PROVE  Follows(w)'
    BY <1>2, <2>1, <2>2 DEF FollowsTheDialogue, IsResolved
  <2> QED
    BY <2>2 DEF FollowsTheDialogue
<1>3. ASSUME NEW r \in Workers, ResolveAlone(r) PROVE FollowsTheDialogue'
  <2>1. resolved'[r] = asked[r].question /\ ResolvesTo(r, resolved'[r])
    BY <1>3 DEF Shape, ResolveAlone, ResolvesTo
  <2>2. asked[r].context = NoText
    BY <1>3 DEF Shape, ResolveAlone
  <2>3. Follows(r)'
    BY <1>3, <2>1, <2>2, ResolveAsIs DEF ResolveAlone
  <2> QED
    BY <1>2, <1>3, <2>1, <2>3 DEF ResolveAlone, Goto, Places
<1>4. ASSUME NEW r \in Workers, ResolveNewTopic(r) PROVE FollowsTheDialogue'
  <2>1. resolved'[r] = asked[r].question /\ ResolvesTo(r, resolved'[r])
    BY <1>4 DEF Shape, ResolveNewTopic, ResolvesTo
  <2>2. Follows(r)'
    BY <1>4, <2>1, ResolveAsIs DEF ResolveNewTopic
  <2> QED
    BY <1>2, <1>4, <2>1, <2>2 DEF ResolveNewTopic, Goto, Places
<1>5. ASSUME NEW r \in Workers, ResolveFollowUp(r) PROVE FollowsTheDialogue'
  <2> DEFINE s == asked[r].session
  <2>1. /\ resolved'[r] = Resolve(asked[r].question, Previous(s))
        /\ ResolvesTo(r, resolved'[r])
    BY <1>5 DEF Shape, ResolveFollowUp, ResolvesTo, Previous
  <2>2. s \notin mixed => asked[r].context = Previous(s)
    BY <1>5 DEF Shape, InStep, ResolveFollowUp, InFlight
  <2>3. s \notin mixed => Follows(r)'
    BY <1>5, <2>1, <2>2 DEF ResolveFollowUp
  <2> QED
    BY <1>2, <1>5, <2>1, <2>3 DEF ResolveFollowUp, Goto, Places
<1>6. ASSUME NEW r \in Workers, Record(r) \/ Answering(r) PROVE FollowsTheDialogue'
  <2>1. /\ UNCHANGED <<asked, resolved, mixed>>
        /\ \A w \in Workers : IsResolved(w)' => IsResolved(w)
    BY <1>6, AnsweringFrame DEF Shape, Record, Goto, IsResolved
  <2> QED
    BY <2>1 DEF FollowsTheDialogue
<1>7. CASE HealthCheck \/ UNCHANGED vars
  BY <1>7 DEF FollowsTheDialogue, IsResolved, HealthCheck, vars
<1> QED
  BY <1>1, <1>3, <1>4, <1>5, <1>6, <1>7, NextCases

\* In every state.
LEMMA DialogueInvAlways == Spec => []DialogueInv
<1>1. Init => DialogueInv
  BY ShapeInit, SaidInit, DialogueInit DEF DialogueInv
<1>2. DialogueInv /\ [Next]_vars => DialogueInv'
  BY ShapeNext, SaidNext, OneAtATimeNext, InStepNext, DialogueNext DEF DialogueInv
<1> QED
  BY <1>1, <1>2, PTL DEF Spec

\* A client that waits for each answer has every follow-up resolved against the question
\* it saw answered last, whatever other sessions do and whatever became of that question.
THEOREM DialogueFollowed == Spec => []FollowsTheDialogue
<1>1. DialogueInv => FollowsTheDialogue
  BY DEF DialogueInv
<1> QED
  BY <1>1, DialogueInvAlways, PTL

-----------------------------------------------------------------------------

\* Unless another call gets in between, the fallback is entered with a statement that
\* returned nothing.
FallbackIsForEmpty == \A r \in Workers \ crossed : pc[r] = "fallback" => Returned(gen[r].sql) = {}

AnswerInv == Shape /\ FallbackIsForEmpty /\ RowsMatchSql

\* The rows found are those of the statement they were found with.
LEMMA FoundRows ==
    ASSUME NEW sql, NEW broken, FindSimilarRows(sql, broken) # NoFallback
    PROVE  FindSimilarRows(sql, broken).rows = Returned(FindSimilarRows(sql, broken).relaxed)
BY DEF FindSimilarRows

\* The fallback is tried for empty results only, and replaces rows and statement.
LEMMA AnswerNext == AnswerInv /\ [Next]_vars => FallbackIsForEmpty' /\ RowsMatchSql'
<1> SUFFICES ASSUME AnswerInv, [Next]_vars PROVE FallbackIsForEmpty' /\ RowsMatchSql'
  OBVIOUS
<1> USE DEF AnswerInv
<1> DEFINE Honest(a) == ~a.error /\ a.sql # NoSql => a.rows = Returned(a.sql)
\* Only r moves, to a place other than "fallback", and what it answers is honest.
<1>1. ASSUME NEW r \in Workers, NEW place \in Places \ {"fallback"},
             pc' = [pc EXCEPT ![r] = place],
             \A w \in Workers \ {r} : gen'[w] = gen[w] /\ response'[w] = response[w],
             crossed \ {r} \subseteq crossed',
             place = "done" => r \in crossed' \/ Honest(response'[r])
      PROVE  FallbackIsForEmpty' /\ RowsMatchSql'
  <2>1. ASSUME NEW w \in Workers, w # r PROVE pc'[w] = pc[w]
    BY <1>1, <2>1 DEF Shape
  <2>2. pc'[r] = place
    BY <1>1 DEF Shape
  <2>3. FallbackIsForEmpty'
    BY <1>1, <2>1, <2>2 DEF FallbackIsForEmpty
  <2>4. ASSUME NEW w \in Workers \ crossed', Done(w)' PROVE Honest(response'[w])
    BY <1>1, <2>1, <2>2, <2>4 DEF RowsMatchSql, Done
  <2> QED
    BY <2>3, <2>4 DEF RowsMatchSql
<1>2. ASSUME NEW r \in Workers, NEW s \in Sessions \union {NoSession}, NEW q \in Questions,
             Ask(r, s, q)
      PROVE  FallbackIsForEmpty' /\ RowsMatchSql'
  BY <1>1, <1>2 DEF Shape, Ask, Goto, Places
<1>3. ASSUME NEW r \in Workers,
             ResolveAlone(r) \/ ResolveNewTopic(r) \/ ResolveFollowUp(r) \/ Record(r)
      PROVE  FallbackIsForEmpty' /\ RowsMatchSql'
  BY <1>1, <1>3 DEF ResolveAlone, ResolveNewTopic, ResolveFollowUp, Record, Goto, Places
\* The answer is given, with or without a new gen.
<1>4. ASSUME NEW r \in Workers, NEW a, Respond(r, a), r \in crossed \/ Honest(a),
             \A w \in Workers \ {r} : gen'[w] = gen[w]
      PROVE  FallbackIsForEmpty' /\ RowsMatchSql'
  <2>1. response'[r] = a /\ \A w \in Workers \ {r} : response'[w] = response[w]
    BY <1>4 DEF Shape, Respond
  <2> QED
    BY <1>1, <1>4, <2>1 DEF Respond, Goto, Places
<1>5. ASSUME NEW r \in Workers, GenerateNothing(r) PROVE FallbackIsForEmpty' /\ RowsMatchSql'
  <2>1. Respond(r, EmptyResponse) /\ \A w \in Workers \ {r} : gen'[w] = gen[w]
    BY <1>5 DEF Shape, GenerateNothing
  <2>2. Honest(EmptyResponse)
    BY DEF EmptyResponse
  <2> QED
    BY <1>4, <2>1, <2>2
<1>6. ASSUME NEW r \in Workers, Block(r) PROVE FallbackIsForEmpty' /\ RowsMatchSql'
  <2>1. PICK sql : Respond(r, ErrorResponse(sql))
    BY <1>6 DEF Block
  <2>2. \A w \in Workers \ {r} : gen'[w] = gen[w]
    BY <1>6 DEF Shape, Block
  <2>3. Honest(ErrorResponse(sql))
    BY DEF ErrorResponse
  <2> QED
    BY <1>4, <2>1, <2>2, <2>3
<1>7. ASSUME NEW r \in Workers, GenerateSql(r) PROVE FallbackIsForEmpty' /\ RowsMatchSql'
  BY <1>1, <1>7 DEF Shape, GenerateSql, Goto, Places
<1>8. ASSUME NEW r \in Workers, ExecuteFails(r) PROVE FallbackIsForEmpty' /\ RowsMatchSql'
  <2>1. Honest(FullResponse(r, FALSE, gen[r].sql, {}, gen[r].approximate, NoFallback))
    BY DEF FullResponse
  <2> QED
    BY <1>4, <1>8, <2>1 DEF ExecuteFails
<1>9. ASSUME NEW r \in Workers, ExecuteRaises(r) PROVE FallbackIsForEmpty' /\ RowsMatchSql'
  <2>1. [ErrorResponse(NoSql) EXCEPT !.confidence = 100].error = TRUE
    BY DEF ErrorResponse
  <2>2. Honest([ErrorResponse(NoSql) EXCEPT !.confidence = 100])
    BY <2>1
  <2> QED
    BY <1>4, <1>9, <2>2 DEF ExecuteRaises
<1>10. ASSUME NEW r \in Workers, Execute(r) PROVE FallbackIsForEmpty' /\ RowsMatchSql'
  <2>1. PICK rows \in MayReturn(r, gen[r].sql) :
           Respond(r, FullResponse(r, TRUE, gen[r].sql, rows, gen[r].approximate, NoFallback))
    BY <1>10 DEF Execute
  <2>2. r \in crossed \/ rows = Returned(gen[r].sql)
    BY <2>1 DEF MayReturn
  <2>3. r \in crossed
           \/ Honest(FullResponse(r, TRUE, gen[r].sql, rows, gen[r].approximate, NoFallback))
    BY <2>2 DEF FullResponse
  <2> QED
    BY <1>4, <1>10, <2>1, <2>3 DEF Execute
<1>11. ASSUME NEW r \in Workers, ExecuteEmpty(r) PROVE FallbackIsForEmpty' /\ RowsMatchSql'
  <2>1. FallbackIsForEmpty'
    BY <1>11 DEF Shape, FallbackIsForEmpty, ExecuteEmpty, MayReturn, Goto
  <2>2. RowsMatchSql'
    BY <1>11 DEF Shape, RowsMatchSql, Done, ExecuteEmpty, Goto
  <2> QED
    BY <2>1, <2>2
<1>12. ASSUME NEW r \in Workers, Fallback(r) PROVE FallbackIsForEmpty' /\ RowsMatchSql'
  <2>1. PICK broken \in SUBSET DOMAIN gen[r].sql.filters :
           LET fb == FindSimilarRows(gen[r].sql, broken) IN
           /\ fb # NoFallback
           /\ Respond(r, FullResponse(r, TRUE, fb.relaxed, fb.rows, TRUE, fb))
    BY <1>12 DEF Fallback
  <2> DEFINE fb == FindSimilarRows(gen[r].sql, broken)
  <2>2. fb.rows = Returned(fb.relaxed)
    BY <2>1, FoundRows
  <2>3. Honest(FullResponse(r, TRUE, fb.relaxed, fb.rows, TRUE, fb))
    BY <2>2 DEF FullResponse
  <2> QED
    BY <1>4, <1>12, <2>1, <2>3 DEF Fallback
<1>13. ASSUME NEW r \in Workers, FallbackFindsNothing(r)
       PROVE  FallbackIsForEmpty' /\ RowsMatchSql'
  <2>1. r \in crossed \/ Returned(gen[r].sql) = {}
    BY <1>13 DEF FallbackIsForEmpty, FallbackFindsNothing
  <2>2. r \in crossed
           \/ Honest(FullResponse(r, TRUE, gen[r].sql, {}, gen[r].approximate, NoFallback))
    BY <2>1 DEF FullResponse
  <2> QED
    BY <1>4, <1>13, <2>2 DEF FallbackFindsNothing
<1>15. ASSUME NEW r \in Workers, FallbackMisled(r)
       PROVE  FallbackIsForEmpty' /\ RowsMatchSql'
  <2>1. r \in crossed /\ gen' = gen /\ \E a : Respond(r, a)
    BY <1>15 DEF FallbackMisled
  <2> QED
    BY <1>4, <2>1
<1>14. CASE HealthCheck \/ UNCHANGED vars
  BY <1>14 DEF FallbackIsForEmpty, RowsMatchSql, Done, HealthCheck, Executing, vars
<1> QED
  BY <1>2, <1>3, <1>5, <1>6, <1>7, <1>8, <1>9, <1>10, <1>11, <1>12, <1>13, <1>14, <1>15,
     NextCases
     DEF Answering

\* Whatever path an answer takes, and whatever ran before and after it, its rows are the
\* rows of the statement shown with it, unless another call used the shared connection
\* while it ran: what the connection then does is the matter of LocalDB.
THEOREM RowsAreOfTheSql == Spec => []RowsMatchSql
<1>1. Init => AnswerInv
  BY ShapeInit DEF Init, AnswerInv, FallbackIsForEmpty, RowsMatchSql, Done
<1>2. AnswerInv /\ [Next]_vars => AnswerInv'
  BY ShapeNext, AnswerNext DEF AnswerInv
<1>3. AnswerInv => RowsMatchSql
  BY DEF AnswerInv
<1> QED
  BY <1>1, <1>2, <1>3, PTL DEF Spec

-----------------------------------------------------------------------------
(* What a follow-up becomes: the words of each rewriting step.              *)

\* The place of the first word of S is a place with a word of S.
LEMMA FoundPlace ==
    ASSUME NEW q, IsSeq(q), NEW S, Names(q, S)
    PROVE  /\ Place(q, S) \in DOMAIN q /\ q[Place(q, S)] \in S
           /\ FirstOf(q, S) \in S /\ FirstOf(q, S) \in ToSet(q)
<1> DEFINE places == {i \in DOMAIN q : q[i] \in S}
<1>1. places \in SUBSET Nat
  BY SeqFacts
<1>2. places # {}
  BY DEF Names
<1>3. Place(q, S) = Min(places)
  BY DEF Place
<1> HIDE DEF places
<1>4. Place(q, S) \in places
  BY <1>1, <1>2, <1>3, MinOfNaturals
<1>5. Place(q, S) \in DOMAIN q /\ q[Place(q, S)] \in S
  BY <1>4 DEF places
<1> QED
  BY <1>5, SeqFacts DEF FirstOf

\* Only a measure is replaced, by a measure.
LEMMA MeasureWords ==
    ASSUME NEW q, IsSeq(q), NEW p, IsSeq(p), NEW r, r = WithMeasure(q, p)
    PROVE  /\ IsSeq(r) /\ DOMAIN r = DOMAIN p /\ Len(r) = Len(p)
           /\ ToSet(r) \subseteq ToSet(p) \union ToSet(q)
           /\ \A i \in DOMAIN p : r[i] = p[i] \/ (p[i] \in Measures /\ r[i] \in Measures)
           /\ Names(q, Measures) /\ Names(p, Measures) =>
                 r[Place(p, Measures)] = FirstOf(q, Measures)
<1>0. \A i \in DOMAIN p : p[i] \in ToSet(p)
  BY SeqFacts
<1>1. CASE Names(q, Measures) /\ Names(p, Measures)
  <2>1. PICK i, x : i = Place(p, Measures) /\ x = FirstOf(q, Measures)
    OBVIOUS
  <2>2. i \in DOMAIN p /\ p[i] \in Measures /\ x \in Measures /\ x \in ToSet(q)
    BY <1>1, <2>1, FoundPlace
  <2>3. r = ReplaceAt(p, i, x)
    BY <1>1, <2>1 DEF WithMeasure
  <2>4. /\ IsSeq(r) /\ Len(r) = Len(p) /\ DOMAIN r = DOMAIN p
        /\ \A j \in DOMAIN p : r[j] = IF j = i THEN x ELSE p[j]
    BY <2>3, Replaced
  <2>5. ToSet(r) \subseteq ToSet(p) \union {x}
    BY <2>3, ReplacedWords
  <2>6. ToSet(r) \subseteq ToSet(p) \union ToSet(q)
    BY <2>2, <2>5
  <2>7. \A j \in DOMAIN p : r[j] = p[j] \/ (p[j] \in Measures /\ r[j] \in Measures)
    BY <2>2, <2>4
  <2>8. r[i] = x
    BY <2>2, <2>4
  <2> QED
    BY <2>1, <2>4, <2>6, <2>7, <2>8
<1>2. CASE ~(Names(q, Measures) /\ Names(p, Measures))
  <2>1. r = p
    BY <1>2 DEF WithMeasure
  <2> QED
    BY <1>2, <2>1
<1> QED
  BY <1>1, <1>2

\* A new dimension keeps what comes before the "by" it follows.
LEMMA DimensionWords ==
    ASSUME NEW q, IsSeq(q), NEW p, IsSeq(p), NEW r, r = WithDimension(q, p)
    PROVE  /\ IsSeq(r)
           /\ ToSet(r) \subseteq ToSet(p) \union ToSet(q) \union {"by"}
           /\ Names(q, Dimensions) => FirstOf(q, Dimensions) \in ToSet(r)
           /\ ~Names(q, Dimensions) => r = p
           /\ \A i \in DOMAIN p : Kept(p, i) => p[i] \in ToSet(r)
<1>1. PICK x : x = FirstOf(q, Dimensions)
  OBVIOUS
<1>2. PICK n : n = Len(p)
  OBVIOUS
<1>3. n \in Nat /\ DOMAIN p = 1..n
  BY <1>2, SeqFacts
<1> DEFINE bys == {i \in 1..(n - 1) : p[i] = "by"}
<1>4. CASE ~Names(q, Dimensions)
  BY <1>4, SeqFacts DEF WithDimension
<1>5. CASE Names(q, Dimensions) /\ bys # {}
  <2>1. bys \in SUBSET Nat
    BY <1>3
  <2>2. PICK b : b = Min(bys)
    OBVIOUS
  <2>3. b \in bys /\ \A c \in bys : b <= c
    BY <1>5, <2>1, <2>2, MinOfNaturals
  <2>4. b \in 1..n /\ b \in 0..n /\ 1 \in 1..n + 1
    BY <1>3, <2>3
  <2>5. PICK a : a = SubSeq(p, 1, b)
    OBVIOUS
  <2>6. a \in Seq(ToSet(p)) /\ Len(a) = b /\ \A i \in 1..b : a[i] = p[i]
    <3>1. PICK T : T = ToSet(p)
      OBVIOUS
    <3>2. p \in Seq(T)
      BY <3>1 DEF IsSeq
    <3> QED
      BY <1>2, <1>3, <2>4, <2>5, <3>1, <3>2, SubSeqProperties
  <2>7. IsSeq(a) /\ ToSet(a) \subseteq ToSet(p) /\ DOMAIN a = 1..b
    BY <2>6, SeqOfSeq, LenProperties
  <2>8. PICK c : c = <<x>>
    OBVIOUS
  <2>9. IsSeq(r) /\ ToSet(r) = ToSet(a) \union {x}
    <3>1. IsSeq(c) /\ ToSet(c) = {x}
      BY <2>8, OneWord
    <3>2. r = a \o c
      BY <1>1, <1>2, <1>5, <2>2, <2>5, <2>8 DEF WithDimension
    <3>3. IsSeq(a \o c) /\ ToSet(a \o c) = ToSet(a) \union ToSet(c)
      BY <2>7, <3>1, ConcatWords
    <3> QED
      BY <3>1, <3>2, <3>3
  <2>10. ASSUME NEW i \in DOMAIN p, Kept(p, i) PROVE p[i] \in ToSet(r)
    <3>1. i \in 1..b
      BY <1>2, <1>3, <2>3, <2>10 DEF Kept
    <3> QED
      BY <2>6, <2>7, <2>9, <3>1, SeqFacts
  <2>11. x \in ToSet(q)
    BY <1>1, <1>5, FoundPlace
  <2> QED
    BY <1>1, <1>5, <2>7, <2>9, <2>10, <2>11
<1>6. CASE Names(q, Dimensions) /\ bys = {}
  <2>0. PICK c : c = <<"by", x>>
    OBVIOUS
  <2>1. r = p \o c
    BY <1>1, <1>2, <1>6, <2>0 DEF WithDimension
  <2>2. IsSeq(r) /\ ToSet(r) = ToSet(p) \union {"by", x}
    <3>1. IsSeq(c) /\ ToSet(c) = {"by", x}
      BY <2>0, TwoWords
    <3>2. IsSeq(p \o c) /\ ToSet(p \o c) = ToSet(p) \union ToSet(c)
      BY <3>1, ConcatWords
    <3> QED
      BY <2>1, <3>1, <3>2
  <2>3. x \in ToSet(q)
    BY <1>1, <1>6, FoundPlace
  <2> QED
    BY <1>1, <1>6, <2>2, <2>3, SeqFacts
<1> QED
  BY <1>4, <1>5, <1>6

\* A new year takes the place of a year, or is added.
LEMMA YearWords ==
    ASSUME NEW q, IsSeq(q), NEW p, IsSeq(p), NEW r, r = WithYear(q, p)
    PROVE  /\ IsSeq(r)
           /\ ToSet(r) \subseteq ToSet(p) \union ToSet(q) \union {"in"}
           /\ Names(q, Years) => FirstOf(q, Years) \in ToSet(r)
           /\ \A x \in ToSet(p) : x \in ToSet(r) \/ x \in Years
           /\ Names(p, Years) => Names(r, Years)
<1>1. PICK y : y = FirstOf(q, Years)
  OBVIOUS
<1>2. CASE ~Names(q, Years)
  BY <1>2 DEF WithYear
<1>3. CASE Names(q, Years) /\ Names(p, Years)
  <2>1. PICK i : i = Place(p, Years)
    OBVIOUS
  <2>2. i \in DOMAIN p /\ p[i] \in Years /\ y \in Years /\ y \in ToSet(q)
    BY <1>1, <1>3, <2>1, FoundPlace
  <2>3. r = ReplaceAt(p, i, y)
    BY <1>1, <1>3, <2>1 DEF WithYear
  <2>4. /\ IsSeq(r) /\ Len(r) = Len(p) /\ DOMAIN r = DOMAIN p
        /\ \A j \in DOMAIN p : r[j] = IF j = i THEN y ELSE p[j]
    BY <2>3, Replaced
  <2>5. ToSet(r) \subseteq ToSet(p) \union {y}
    BY <2>3, ReplacedWords
  <2>6. y \in ToSet(r) /\ Names(r, Years)
    BY <2>2, <2>4, SeqFacts DEF Names
  <2>7. \A x \in ToSet(p) : x \in ToSet(r) \/ x \in Years
    BY <2>2, <2>4 DEF ToSet
  <2> QED
    BY <1>1, <2>2, <2>4, <2>5, <2>6, <2>7
<1>4. CASE Names(q, Years) /\ ~Names(p, Years)
  <2>0. PICK c : c = <<"in", y>>
    OBVIOUS
  <2>1. r = p \o c
    BY <1>1, <1>4, <2>0 DEF WithYear
  <2>2. IsSeq(r) /\ ToSet(r) = ToSet(p) \union {"in", y}
    <3>1. IsSeq(c) /\ ToSet(c) = {"in", y}
      BY <2>0, TwoWords
    <3>2. IsSeq(p \o c) /\ ToSet(p \o c) = ToSet(p) \union ToSet(c)
      BY <3>1, ConcatWords
    <3> QED
      BY <2>1, <3>1, <3>2
  <2>3. y \in ToSet(q)
    BY <1>1, <1>4, FoundPlace
  <2> QED
    BY <1>1, <1>4, <2>2, <2>3
<1> QED
  BY <1>2, <1>3, <1>4

\* The three rewritings, one after the other.
LEMMA Rewritten ==
    ASSUME NEW q, IsSeq(q), NEW p, IsSeq(p), RewriteFollowUp(q, p) # NoText,
           NEW t, t = RewriteFollowUp(q, p)
    PROVE  \E m, d : /\ m = WithMeasure(q, p) /\ IsSeq(m)
                     /\ d = WithDimension(q, m) /\ IsSeq(d)
                     /\ t = WithYear(q, d)
                     /\ IsSeq(t) /\ ToSet(t) \subseteq ToSet(p) \union ToSet(q) \union {"by", "in"}
<1>1. PICK m : m = WithMeasure(q, p)
  OBVIOUS
<1>2. IsSeq(m) /\ ToSet(m) \subseteq ToSet(p) \union ToSet(q)
  BY <1>1, MeasureWords
<1>3. PICK d : d = WithDimension(q, m)
  OBVIOUS
<1>4. IsSeq(d) /\ ToSet(d) \subseteq ToSet(m) \union ToSet(q) \union {"by"}
  BY <1>2, <1>3, DimensionWords
<1>5. t = WithYear(q, d)
  BY <1>1, <1>3 DEF RewriteFollowUp
<1>6. IsSeq(t) /\ ToSet(t) \subseteq ToSet(d) \union ToSet(q) \union {"in"}
  BY <1>4, <1>5, YearWords
<1>7. ToSet(t) \subseteq ToSet(p) \union ToSet(q) \union {"by", "in"}
  BY <1>2, <1>4, <1>6
<1> QED
  BY <1>1, <1>2, <1>3, <1>4, <1>5, <1>6, <1>7

\* A text over words becomes another.
LEMMA ResolveWords ==
    ASSUME NEW q, IsSeq(q), NEW p, p # NoText => IsSeq(p),
           NEW W, {"by", "in"} \subseteq W, ToSet(q) \subseteq W, p # NoText => ToSet(p) \subseteq W
    PROVE  IsSeq(Resolve(q, p)) /\ ToSet(Resolve(q, p)) \subseteq W
<1>1. CASE Resolve(q, p) = q
  BY <1>1
<1>2. CASE Resolve(q, p) # q
  <2>1. PICK t : t = Resolve(q, p)
    OBVIOUS
  <2>2. p # NoText /\ t = RewriteFollowUp(q, p) /\ RewriteFollowUp(q, p) # NoText
    BY <1>2, <2>1 DEF Resolve
  <2>3. IsSeq(t) /\ ToSet(t) \subseteq ToSet(p) \union ToSet(q) \union {"by", "in"}
    BY <2>2, Rewritten
  <2> QED
    BY <2>1, <2>2, <2>3
<1> QED
  BY <1>1, <1>2

\* What FollowUpMerges says of a question, what it continues and what it became.
LEMMA ResolveMerges ==
    ASSUME NEW q, IsSeq(q), NEW p, p # NoText => IsSeq(p), NEW t, t = Resolve(q, p), t # q
    PROVE  /\ Names(q, Dimensions) => FirstOf(q, Dimensions) \in ToSet(t)
           /\ Names(q, Years) => FirstOf(q, Years) \in ToSet(t)
           /\ Names(q, Measures) /\ Names(p, Measures)
                /\ (Names(q, Dimensions) => Kept(p, Place(p, Measures)))
              => FirstOf(q, Measures) \in ToSet(t)
           /\ ~Names(q, Dimensions) => \A S \in Slots : Names(p, S) => Names(t, S)
<1>1. p # NoText /\ IsSeq(p) /\ RewriteFollowUp(q, p) # NoText /\ t = RewriteFollowUp(q, p)
  BY DEF Resolve
<1>2. PICK m, d : /\ m = WithMeasure(q, p) /\ IsSeq(m)
                  /\ d = WithDimension(q, m) /\ IsSeq(d)
                  /\ t = WithYear(q, d) /\ IsSeq(t)
  BY <1>1, Rewritten
<1>3. /\ Names(q, Years) => FirstOf(q, Years) \in ToSet(t)
      /\ \A x \in ToSet(d) : x \in ToSet(t) \/ x \in Years
      /\ Names(d, Years) => Names(t, Years)
  BY <1>2, YearWords
<1>4. /\ Names(q, Dimensions) => FirstOf(q, Dimensions) \in ToSet(d)
      /\ ~Names(q, Dimensions) => d = m
      /\ \A i \in DOMAIN m : Kept(m, i) => m[i] \in ToSet(d)
  BY <1>2, DimensionWords
<1>5. /\ DOMAIN m = DOMAIN p /\ Len(m) = Len(p)
      /\ \A i \in DOMAIN p : m[i] = p[i] \/ (p[i] \in Measures /\ m[i] \in Measures)
      /\ Names(q, Measures) /\ Names(p, Measures) =>
            m[Place(p, Measures)] = FirstOf(q, Measures)
  BY <1>1, <1>2, MeasureWords
<1>6. Names(q, Dimensions) => FirstOf(q, Dimensions) \in ToSet(t)
  <2>1. Names(q, Dimensions) => FirstOf(q, Dimensions) \notin Years
    BY FoundPlace, VocabularyAssumption
  <2> QED
    BY <1>3, <1>4, <2>1
<1>7. ASSUME Names(q, Measures), Names(p, Measures),
             Names(q, Dimensions) => Kept(p, Place(p, Measures))
      PROVE  FirstOf(q, Measures) \in ToSet(t)
  <2>1. PICK i, x : i = Place(p, Measures) /\ x = FirstOf(q, Measures)
    OBVIOUS
  <2>2. i \in DOMAIN m /\ m[i] = x /\ x \in Measures
    BY <1>1, <1>5, <1>7, <2>1, FoundPlace
  <2>3. Kept(p, i) => Kept(m, i)
    <3>1. DOMAIN p = 1..Len(p) /\ Len(p) \in Nat
      BY <1>1, SeqFacts
    <3>2. PICK n : n = Len(p) /\ n = Len(m)
      BY <1>5
    <3>3. \A b \in 1..(n - 1) : m[b] = "by" => p[b] = "by"
      BY <1>5, <3>1, <3>2, VocabularyAssumption
    <3> QED
      BY <3>2, <3>3 DEF Kept
  <2>4. x \in ToSet(d)
    <3>1. CASE Names(q, Dimensions)
      BY <1>4, <1>7, <2>1, <2>2, <2>3, <3>1
    <3>2. CASE ~Names(q, Dimensions)
      BY <1>2, <1>4, <2>2, <3>2, SeqFacts
    <3> QED
      BY <3>1, <3>2
  <2>5. x \notin Years
    BY <2>2, VocabularyAssumption
  <2> QED
    BY <1>3, <2>1, <2>4, <2>5
<1>8. ASSUME ~Names(q, Dimensions), NEW S \in Slots, Names(p, S)
      PROVE  Names(t, S)
  <2>1. PICK i \in DOMAIN p : p[i] \in S
    BY <1>8 DEF Names
  <2>2. m[i] \in S /\ i \in DOMAIN m
    BY <1>5, <1>8, <2>1, VocabularyAssumption DEF Slots
  <2>3. m[i] \in ToSet(d) /\ Names(d, S)
    <3>1. d = m
      BY <1>4, <1>8
    <3> QED
      BY <1>2, <2>2, <3>1, SeqFacts DEF Names
  <2>4. CASE S = Years
    BY <1>3, <2>3, <2>4
  <2>5. CASE S # Years
    <3>1. m[i] \in ToSet(t)
      BY <1>3, <1>8, <2>2, <2>3, <2>5, VocabularyAssumption DEF Slots
    <3> QED
      BY <2>2, <3>1 DEF ToSet, Names
  <2> QED
    BY <2>4, <2>5
<1> QED
  BY <1>3, <1>6, <1>7, <1>8

-----------------------------------------------------------------------------
(* Every question kept is a text over the questions' words.                 *)

Text(x) == IsSeq(x) /\ IsText(x)

Texts ==
    /\ \A s \in Sessions : \A x \in said[s] : Text(x)
    /\ \A s \in Sessions : context[s] # NoText => Text(context[s])
    /\ \A r \in Workers :
         /\ pc[r] # "idle" => /\ asked[r].question \in Questions
                              /\ asked[r].context # NoText => Text(asked[r].context)
         /\ IsResolved(r) => Text(resolved[r])

\* A question is made of words of the questions asked.
LEMMA QuestionText == ASSUME NEW q \in Questions PROVE Text(q)
<1>1. IsSeq(q)
  BY QuestionAssumption DEF IsSeq
<1>2. ToSet(q) \subseteq Words
  BY DEF Words
<1> QED
  BY <1>1, <1>2 DEF Text, IsText

\* So is what a follow-up is resolved to.
LEMMA ResolveText ==
    ASSUME NEW q \in Questions, NEW p, p # NoText => Text(p)
    PROVE  Text(Resolve(q, p))
<1>1. IsSeq(q) /\ ToSet(q) \subseteq Words
  BY QuestionText DEF Text, IsText
<1>2. {"by", "in"} \subseteq Words
  BY DEF Words
<1>3. p # NoText => IsSeq(p) /\ ToSet(p) \subseteq Words
  BY DEF Text, IsText
<1> QED
  BY <1>1, <1>2, <1>3, ResolveWords DEF Text, IsText

\* Nothing was asked at first.
LEMMA TextsInit == Init => Texts
BY DEF Init, Texts, IsResolved

\* A step of r that resolves its question, to a text.
LEMMA TextsResolve ==
    ASSUME Shape, Texts, NEW r \in Workers, NEW text, Text(text), ResolvesTo(r, text),
           NEW place \in Places, pc' = [pc EXCEPT ![r] = place], pc[r] = "resolve",
           UNCHANGED <<asked, context>>
    PROVE  Texts'
<1>1. resolved'[r] = text /\ \A w \in Workers \ {r} : resolved'[w] = resolved[w]
  BY DEF ResolvesTo, Shape
<1>2. \A w \in Workers \ {r} : pc'[w] = pc[w]
  BY DEF Shape
<1>3. \A s \in Sessions : said'[s] \subseteq said[s] \union {text}
  BY DEF ResolvesTo
<1>4. \A s \in Sessions : \A x \in said'[s] : Text(x)
  BY <1>3 DEF Texts
<1>5. ASSUME NEW w \in Workers, IsResolved(w)' PROVE Text(resolved'[w])
  BY <1>1, <1>2, <1>5 DEF Texts, IsResolved
<1>6. ASSUME NEW w \in Workers, pc'[w] # "idle" PROVE pc[w] # "idle"
  BY <1>2, <1>6 DEF Shape
<1> QED
  BY <1>4, <1>5, <1>6 DEF Texts, Text, IsText

\* Every step resolves, remembers and answers such texts only.
LEMMA TextsNext == SessionInv /\ Texts /\ [Next]_vars => Texts'
<1> SUFFICES ASSUME Shape, HistoryIsSaid, Texts, [Next]_vars PROVE Texts'
  BY DEF SessionInv
<1>1. ASSUME NEW r \in Workers, NEW s \in Sessions \union {NoSession}, NEW q \in Questions,
             Ask(r, s, q)
      PROVE  Texts'
  <2>1. UNCHANGED <<said, context>>
    BY <1>1 DEF Ask
  <2>2. ASSUME NEW w \in Workers, w # r
        PROVE  pc'[w] = pc[w] /\ asked'[w] = asked[w] /\ resolved'[w] = resolved[w]
    BY <1>1, <2>2 DEF Shape, Ask, Goto
  <2>3. pc'[r] = "resolve"
    BY <1>1 DEF Shape, Ask, Goto
  <2>4. /\ asked'[r].question = q
        /\ asked'[r].context = IF s = NoSession THEN NoText ELSE context[s]
    BY <1>1 DEF Shape, Ask
  <2>5. asked'[r].context # NoText => Text(asked'[r].context)
    BY <2>4 DEF Texts
  <2>6. ASSUME NEW w \in Workers
        PROVE  /\ pc'[w] # "idle" => /\ asked'[w].question \in Questions
                                     /\ asked'[w].context # NoText => Text(asked'[w].context)
               /\ IsResolved(w)' => Text(resolved'[w])
    <3>1. CASE w = r
      BY <2>3, <2>4, <2>5, <3>1 DEF IsResolved
    <3>2. CASE w # r
      BY <2>2, <3>2 DEF Texts, IsResolved
    <3> QED
      BY <3>1, <3>2
  <2> QED
    BY <2>1, <2>6 DEF Texts, Text, IsText
<1>2. ASSUME NEW r \in Workers, ResolveAlone(r) \/ ResolveNewTopic(r) PROVE Texts'
  <2>1. PICK q : q = asked[r].question
    OBVIOUS
  <2>2. pc[r] = "resolve" /\ q \in Questions
    BY <1>2, <2>1 DEF Texts, ResolveAlone, ResolveNewTopic
  <2>3. /\ ResolvesTo(r, q) /\ UNCHANGED <<asked, context>>
        /\ \E place \in Places : pc' = [pc EXCEPT ![r] = place]
    BY <1>2, <2>1 DEF ResolveAlone, ResolveNewTopic, Goto, Places
  <2> QED
    BY <2>2, <2>3, QuestionText, TextsResolve
<1>3. ASSUME NEW r \in Workers, ResolveFollowUp(r) PROVE Texts'
  <2>1. PICK q, p : q = asked[r].question /\ p = Previous(asked[r].session)
    OBVIOUS
  <2>2. pc[r] = "resolve" /\ q \in Questions /\ asked[r].session \in Sessions
    BY <1>3, <2>1 DEF Shape, Texts, ResolveFollowUp
  <2>3. p # NoText => Text(p)
    <3>1. history[asked[r].session] \in Seq(said[asked[r].session])
      BY <2>2 DEF HistoryIsSaid
    <3>2. p = NoText \/ p \in said[asked[r].session]
      BY <2>1, <3>1, LastIsMember DEF Previous
    <3> QED
      BY <2>2, <3>2 DEF Texts
  <2>4. PICK text : text = Resolve(q, p)
    OBVIOUS
  <2>5. Text(text)
    BY <2>2, <2>3, <2>4, ResolveText
  <2>6. /\ ResolvesTo(r, text) /\ UNCHANGED <<asked, context>>
        /\ pc' = [pc EXCEPT ![r] = "record"]
    BY <1>3, <2>1, <2>4 DEF ResolveFollowUp, Previous, Goto
  <2> QED
    BY <2>2, <2>5, <2>6, TextsResolve DEF Places
<1>4. ASSUME NEW r \in Workers, Record(r) \/ Answering(r) PROVE Texts'
  <2>1. /\ pc[r] \in {"record", "generate", "execute", "fallback"}
        /\ UNCHANGED <<asked, resolved, said>>
        /\ \A w \in Workers \ {r} : pc'[w] = pc[w]
    BY <1>4, AnsweringFrame DEF Shape, Record, Goto
  <2>2. Text(resolved[r])
    BY <2>1 DEF Texts, IsResolved
  <2>3. \A s \in Sessions : context'[s] = context[s] \/ context'[s] = resolved[r]
    BY <1>4, AnsweringFrame DEF Shape, Record
  <2>4. \A s \in Sessions : context'[s] # NoText => Text(context'[s])
    BY <2>2, <2>3 DEF Texts
  <2>5. \A w \in Workers : /\ pc'[w] # "idle" => pc[w] # "idle"
                           /\ IsResolved(w)' => IsResolved(w)
    BY <2>1 DEF IsResolved
  <2> QED
    BY <2>1, <2>4, <2>5 DEF Texts, Text, IsText
<1>5. CASE HealthCheck \/ UNCHANGED vars
  BY <1>5 DEF Texts, Text, IsText, IsResolved, HealthCheck, vars
<1> QED
  BY <1>1, <1>2, <1>3, <1>4, <1>5, NextCases

\* In every state.
LEMMA TextsAlways == Spec => []Texts
<1>1. Init => SessionInv /\ Texts
  BY ShapeInit, SaidInit, TextsInit DEF SessionInv
<1>2. SessionInv /\ [Next]_vars => SessionInv'
  BY ShapeNext, SaidNext, InSessionNext DEF SessionInv
<1> QED
  BY <1>1, <1>2, TextsNext, PTL DEF Spec

\* A follow-up that was rewritten has what it names, and what it continues has not lost
\* a kind of words to it, whatever the questions, the vocabulary and the dialogue.
THEOREM FollowUpsMerge == Spec => []FollowUpMerges
<1>1. DialogueInv /\ Texts => FollowUpMerges
  <2> SUFFICES ASSUME Shape, FollowsTheDialogue, Texts, NEW r \in Workers, IsResolved(r),
                      asked[r].session \notin mixed, resolved[r] # asked[r].question
               PROVE  LET q == asked[r].question
                          p == asked[r].context
                          t == resolved[r]
                      IN  /\ Names(q, Dimensions) => FirstOf(q, Dimensions) \in ToSet(t)
                          /\ Names(q, Years) => FirstOf(q, Years) \in ToSet(t)
                          /\ Names(q, Measures) /\ Names(p, Measures)
                               /\ (Names(q, Dimensions) => Kept(p, Place(p, Measures)))
                             => FirstOf(q, Measures) \in ToSet(t)
                          /\ ~Names(q, Dimensions) =>
                                \A S \in Slots : Names(p, S) => Names(t, S)
    BY DEF DialogueInv, FollowUpMerges
  <2>1. PICK q, p, t : q = asked[r].question /\ p = asked[r].context /\ t = resolved[r]
    OBVIOUS
  <2>2. q \in Questions /\ (p # NoText => Text(p))
    BY <2>1 DEF Texts, IsResolved
  <2>3. IsSeq(q) /\ (p # NoText => IsSeq(p))
    BY <2>2, QuestionText DEF Text
  <2>4. t = Resolve(q, p) /\ t # q
    BY <2>1 DEF FollowsTheDialogue
  <2> QED
    BY <2>1, <2>3, <2>4, ResolveMerges
<1> QED
  BY <1>1, DialogueInvAlways, TextsAlways, PTL

-----------------------------------------------------------------------------
(* What is run is a valid statement, and what replaces it is marked.        *)

\* What the SQL source gives is a statement, or none.
LEMMA GeneratedStatement ==
    ASSUME NEW q, NEW g \in Generate(q), g.sql # NoSql
    PROVE  IsStatement(g.sql)
<1>1. ASSUME NEW sql, NEW provider, NEW approximate
      PROVE  Answer(sql, provider, approximate).sql = sql
  BY DEF Answer
<1>2. IsStatement(EntitySql(q))
  <2>1. PICK e : e = EntitySql(q)
    OBVIOUS
  <2>2. PICK f : f = [column |-> "product_name", value |-> Entity(q)]
    OBVIOUS
  <2>3. e = [name |-> <<"product", FirstOf(q, EntityMeasures)>>, scalar |-> FALSE,
             filters |-> <<f>>]
    BY <2>1, <2>2 DEF EntitySql
  <2>4. PICK n, fs : n = <<"product", FirstOf(q, EntityMeasures)>> /\ fs = <<f>>
    OBVIOUS
  <2>5. e = [name |-> n, scalar |-> FALSE, filters |-> fs]
    BY <2>3, <2>4
  <2>6. e = [name |-> e.name, filters |-> e.filters, scalar |-> e.scalar] /\ e.filters = fs
    BY <2>5
  <2>7. IsSeq(fs) /\ ToSet(fs) = {f}
    BY <2>4, OneWord
  <2>8. f = [column |-> f.column, value |-> f.value]
    BY <2>2
  <2> QED
    BY <2>1, <2>6, <2>7, <2>8 DEF IsStatement, IsSeq
<1>3. ASSUME Best(q) # 0 PROVE IsStatement(Cache[Best(q)].sql)
  <2> DEFINE best == {i \in DOMAIN Cache : \A j \in DOMAIN Cache :
                                              Score(q, Cache[j]) <= Score(q, Cache[i])}
  <2>1. Best(q) = Min(best) /\ best # {}
    BY <1>3 DEF Best
  <2>2. IsSeq(Cache)
    BY StatementAssumption DEF IsSeq
  <2>3. best \in SUBSET Nat
    BY <2>2, SeqFacts
  <2>4. Best(q) \in DOMAIN Cache
    <3> HIDE DEF best
    <3>1. Best(q) \in best
      BY <2>1, <2>3, MinOfNaturals
    <3> QED
      BY <3>1 DEF best
  <2> QED
    BY <2>2, <2>4, SeqFacts, StatementAssumption
<1>4. CASE g = GenerateOffline(q)
  <2> DEFINE near == Score(q, Cache[Best(q)]) < 900
             matches == Best(q) # 0 /\ Score(q, Cache[Best(q)]) >= 620
  <2>1. g = IF IsModelNumber(Entity(q)) THEN Answer(EntitySql(q), "offline_template", FALSE)
            ELSE IF matches THEN Answer(Cache[Best(q)].sql, "offline_cache", near)
            ELSE IF Entity(q) # <<>> THEN Answer(EntitySql(q), "offline_template", FALSE)
            ELSE Answer(NoSql, "offline_cache", FALSE)
    BY <1>4, Zenon DEF GenerateOffline
  <2>2. matches => Best(q) # 0
    OBVIOUS
  <2> HIDE DEF near, matches
  <2>3. CASE g = Answer(EntitySql(q), "offline_template", FALSE)
    BY <1>1, <1>2, <2>3
  <2>4. CASE matches /\ g = Answer(Cache[Best(q)].sql, "offline_cache", near)
    BY <1>1, <1>3, <2>2, <2>4
  <2>5. CASE g = Answer(NoSql, "offline_cache", FALSE)
    BY <1>1, <2>5
  <2> QED
    BY <2>1, <2>3, <2>4, <2>5
<1>5. ASSUME NEW sql \in LiveAnswers \ {NoSql}, g = Answer(sql, "oracle_select_ai", FALSE)
      PROVE  IsStatement(g.sql)
  BY <1>1, <1>5, StatementAssumption
<1> QED
  BY <1>4, <1>5 DEF Generate

\* The substituted statement differs in the requested value only, which it replaces by
\* values that rows have.  An empty result is not that of an aggregate.
LEMMA Substituted ==
    ASSUME NEW sql, IsStatement(sql), NEW broken,
           NEW fb, fb = FindSimilarRows(sql, broken), fb # NoFallback
    PROVE  /\ fb.rows # {}
           /\ Returned(sql) = {} => \A i \in DOMAIN sql.filters :
                LET f == sql.filters[i]
                    g == fb.relaxed.filters[i]
                IN  f # g => /\ f.value = fb.requested
                             /\ \E row \in Table : row[g.column] = g.value
<1>1. PICK helping : helping = {i \in DOMAIN sql.filters : Helps(sql, i, broken)}
  OBVIOUS
<1>2. helping # {} /\ helping \in SUBSET Nat
  <2>1. IsSeq(sql.filters)
    BY DEF IsStatement, IsSeq
  <2>2. DOMAIN sql.filters \subseteq Nat
    BY <2>1, SeqFacts
  <2> QED
    BY <1>1, <2>2 DEF FindSimilarRows
<1>3. PICK k : k = Min(helping)
  OBVIOUS
<1>4. k \in DOMAIN sql.filters /\ Helps(sql, k, broken)
  BY <1>1, <1>2, <1>3, MinOfNaturals
<1>5. PICK f : f = sql.filters[k]
  OBVIOUS
<1>6. PICK r : r = Relaxed(sql, f)
  OBVIOUS
<1>7. /\ fb.requested = f.value /\ fb.relaxed = r /\ fb.rows = Returned(r)
  BY <1>1, <1>2, <1>3, <1>5, <1>6 DEF FindSimilarRows
<1>8. Returned(r) # {}
  BY <1>4, <1>5, <1>6 DEF Helps
<1>9. PICK fs : fs = [i \in DOMAIN sql.filters |->
                        IF sql.filters[i].value = f.value
                        THEN [sql.filters[i] EXCEPT !.value = Closest(f)]
                        ELSE sql.filters[i]]
  OBVIOUS
<1>10. r = [sql EXCEPT !.filters = fs]
  BY <1>6, <1>9 DEF Relaxed, RelaxedTo
<1>11. r.scalar = sql.scalar /\ r.filters = fs
  BY <1>10 DEF IsStatement
<1> SUFFICES ASSUME Returned(sql) = {}
             PROVE  \A i \in DOMAIN sql.filters :
                      LET g == fs[i]
                      IN  sql.filters[i] # g =>
                             /\ sql.filters[i].value = f.value
                             /\ \E row \in Table : row[g.column] = g.value
  BY <1>7, <1>8, <1>11
<1>12. Returned(r) = Matching(r)
  BY <1>11 DEF Returned
<1>13. PICK row \in Table : \A i \in DOMAIN fs : row[fs[i].column] = fs[i].value
  BY <1>8, <1>11, <1>12 DEF Matching
<1>14. ASSUME NEW i \in DOMAIN sql.filters, sql.filters[i] # fs[i]
       PROVE  sql.filters[i].value = f.value
  BY <1>9, <1>14
<1>15. DOMAIN fs = DOMAIN sql.filters
  BY <1>9
<1> QED
  BY <1>13, <1>14, <1>15

\* Only a valid statement is run.
OnlyValid ==
    \A r \in Workers : pc[r] \in {"execute", "fallback"} =>
        Valid(gen[r].sql) /\ IsStatement(gen[r].sql)

Confidences == {0, 20, 30, 50, 55, 90, 100}
Rated == \A r \in Workers : Done(r) => response[r].confidence \in Confidences

\* A confidence is one of the values the code computes.
LEMMA ConfidenceKinds ==
    ASSUME NEW ok, NEW n, NEW clarifies PROVE Confidence(ok, n, clarifies) \in Confidences
<1> DEFINE caps == {90} \union (IF clarifies THEN {55} ELSE {}) \union (IF n = 0 THEN {50} ELSE {})
<1>1. caps \in SUBSET Nat /\ caps # {} /\ caps \subseteq {90, 55, 50}
  OBVIOUS
<1> HIDE DEF caps
<1>2. Min(caps) \in {90, 55, 50}
  BY <1>1, MinOfNaturals
<1>3. Confidence(ok, n, clarifies) \in {20, Min(caps)}
  BY DEF Confidence, caps
<1> QED
  BY <1>2, <1>3 DEF Confidences

\* What SubstitutionMarked says of an answer a, when the source had given g; c says whether
\* another call got in between.
Marked(a, g, c) ==
    a.sql \notin {NoSql, g.sql} =>
        /\ a.approximate
        /\ a.note # NoFallback
        /\ a.rows # {}
        /\ c \/ \A i \in DOMAIN g.sql.filters :
             LET f == g.sql.filters[i]
                 h == a.sql.filters[i]
             IN  f # h => /\ f.value = a.note.requested
                          /\ \E row \in Table : row[h.column] = h.value

MarkedInv == AnswerInv /\ OnlyValid /\ Rated /\ SubstitutionMarked

\* r goes to a place, with the statement or the answer that the place needs.
LEMMA MarkedMove ==
    ASSUME MarkedInv, NEW r \in Workers, NEW place \in Places, pc' = [pc EXCEPT ![r] = place],
           \A w \in Workers \ {r} : gen'[w] = gen[w] /\ response'[w] = response[w],
           place \in {"execute", "fallback"} =>
              Valid(gen'[r].sql) /\ IsStatement(gen'[r].sql),
           crossed \ {r} \subseteq crossed',
           place = "done" => /\ Marked(response'[r], gen'[r], r \in crossed')
                             /\ response'[r].confidence \in Confidences
    PROVE  OnlyValid' /\ Rated' /\ SubstitutionMarked'
<1>1. pc'[r] = place /\ \A w \in Workers \ {r} : pc'[w] = pc[w]
  BY DEF MarkedInv, AnswerInv, Shape
<1>2. OnlyValid'
  BY <1>1 DEF MarkedInv, OnlyValid
<1>3. Rated'
  BY <1>1 DEF MarkedInv, Rated, Done
<1>4. \A w \in Workers : Done(w) => Marked(response[w], gen[w], w \in crossed)
  BY DEF MarkedInv, SubstitutionMarked, Marked
<1>5. ASSUME NEW w \in Workers, Done(w)' PROVE Marked(response'[w], gen'[w], w \in crossed')
  <2>1. CASE w = r
    BY <1>1, <1>5, <2>1 DEF Done
  <2>2. CASE w # r
    <3>1. Done(w) /\ response'[w] = response[w] /\ gen'[w] = gen[w]
      BY <1>1, <1>5, <2>2 DEF Done
    <3>2. Marked(response[w], gen[w], w \in crossed) /\ (w \in crossed => w \in crossed')
      BY <1>4, <2>2, <3>1
    <3> QED
      BY <3>1, <3>2 DEF Marked
  <2> QED
    BY <2>1, <2>2
<1>6. SubstitutionMarked'
  BY <1>5 DEF SubstitutionMarked, Marked
<1> QED
  BY <1>2, <1>3, <1>6

\* The answer a is given.
LEMMA MarkedRespond ==
    ASSUME MarkedInv, NEW r \in Workers, NEW a, Respond(r, a),
           \A w \in Workers \ {r} : gen'[w] = gen[w],
           Marked(a, gen'[r], r \in crossed), a.confidence \in Confidences
    PROVE  OnlyValid' /\ Rated' /\ SubstitutionMarked'
<1>1. response'[r] = a /\ \A w \in Workers \ {r} : response'[w] = response[w]
  BY DEF MarkedInv, AnswerInv, Shape, Respond
<1>2. pc' = [pc EXCEPT ![r] = "done"] /\ "done" \in Places /\ crossed' = crossed
  BY DEF Respond, Goto, Places
<1> QED
  BY <1>1, <1>2, MarkedMove

\* An answer with the statement the source gave, or with none, has nothing to mark.
LEMMA SameStatement ==
    ASSUME NEW a, NEW g, NEW c, a.sql \in {NoSql, g.sql}
    PROVE  Marked(a, g, c)
BY DEF Marked

\* What summarise() makes of an execution has its parts.
LEMMA FullParts ==
    ASSUME NEW r, NEW ok, NEW sql, NEW rows, NEW approximate, NEW note,
           NEW a, a = FullResponse(r, ok, sql, rows, approximate, note)
    PROVE  /\ a.sql = sql /\ a.rows = rows /\ a.approximate = approximate /\ a.note = note
           /\ a.confidence \in Confidences
<1>1. PICK c : c = Confidence(ok, Cardinality(rows), AsksBack(resolved[r]))
  OBVIOUS
<1>2. c \in Confidences
  BY <1>1, ConfidenceKinds
<1>3. a.confidence = c
  BY <1>1 DEF FullResponse
<1>4. a.sql = sql /\ a.rows = rows /\ a.note = note
  BY DEF FullResponse
<1>5. a.approximate = approximate
  BY Zenon DEF FullResponse
<1> QED
  BY <1>2, <1>3, <1>4, <1>5

\* What the fallback finds is shown with its mark.
LEMMA MarkedFallback ==
    ASSUME MarkedInv, NEW r \in Workers, Fallback(r)
    PROVE  OnlyValid' /\ Rated' /\ SubstitutionMarked'
<1>1. PICK broken \in SUBSET DOMAIN gen[r].sql.filters :
         LET fb == FindSimilarRows(gen[r].sql, broken) IN
         /\ fb # NoFallback
         /\ Respond(r, FullResponse(r, TRUE, fb.relaxed, fb.rows, TRUE, fb))
  BY DEF Fallback
<1>2. PICK sql, fb : sql = gen[r].sql /\ fb = FindSimilarRows(sql, broken)
  OBVIOUS
<1>3. PICK a : a = FullResponse(r, TRUE, fb.relaxed, fb.rows, TRUE, fb)
  OBVIOUS
<1>4. Respond(r, a) /\ fb # NoFallback
  BY <1>1, <1>2, <1>3
<1>5. IsStatement(sql) /\ (r \in crossed \/ Returned(sql) = {})
  BY <1>2 DEF MarkedInv, AnswerInv, OnlyValid, FallbackIsForEmpty, Fallback
<1>6. /\ fb.rows # {}
      /\ Returned(sql) = {} => \A i \in DOMAIN sql.filters :
           LET f == sql.filters[i]
               g == fb.relaxed.filters[i]
           IN  f # g => /\ f.value = fb.requested
                        /\ \E row \in Table : row[g.column] = g.value
  BY <1>2, <1>4, <1>5, Substituted, SMTT(20)
<1>7. /\ a.sql = fb.relaxed /\ a.rows = fb.rows /\ a.approximate = TRUE /\ a.note = fb
      /\ a.confidence \in Confidences
  <2>1. PICK s, t : s = fb.relaxed /\ t = fb.rows
    OBVIOUS
  <2>2. a = FullResponse(r, TRUE, s, t, TRUE, fb)
    BY <1>3, <2>1
  <2>3. a.sql = s /\ a.rows = t /\ a.note = fb
    BY <2>2 DEF FullResponse
  <2>4. a.approximate = TRUE
    BY <2>2, Zenon DEF FullResponse
  <2>5. PICK c : c = Confidence(TRUE, Cardinality(t), AsksBack(resolved[r]))
    OBVIOUS
  <2>6. c \in Confidences
    BY <2>5, ConfidenceKinds
  <2>7. a.confidence = c
    BY <2>2, <2>5 DEF FullResponse
  <2> QED
    BY <2>1, <2>3, <2>4, <2>6, <2>7
<1>8. Marked(a, gen[r], r \in crossed)
  <2>1. a.approximate
    BY <1>7
  <2> QED
    BY <1>2, <1>4, <1>5, <1>6, <1>7, <2>1 DEF Marked
<1>9. gen' = gen
  BY DEF Fallback
<1> QED
  BY <1>4, <1>7, <1>8, <1>9, MarkedRespond

\* What a misled fallback shows has its mark too.
LEMMA MarkedMisled ==
    ASSUME MarkedInv, NEW r \in Workers, FallbackMisled(r)
    PROVE  OnlyValid' /\ Rated' /\ SubstitutionMarked'
<1>1. PICK sql, rows, fb :
         /\ rows # {} /\ fb # NoFallback
         /\ Respond(r, FullResponse(r, TRUE, sql, rows, TRUE, fb))
  BY DEF FallbackMisled
<1>2. PICK a : a = FullResponse(r, TRUE, sql, rows, TRUE, fb)
  OBVIOUS
<1>3. a.sql = sql /\ a.rows = rows /\ a.approximate = TRUE /\ a.note = fb
      /\ a.confidence \in Confidences
  <2>1. a.sql = sql /\ a.rows = rows /\ a.note = fb
    BY <1>2 DEF FullResponse
  <2>2. a.approximate = TRUE
    BY <1>2, Zenon DEF FullResponse
  <2>3. PICK c : c = Confidence(TRUE, Cardinality(rows), AsksBack(resolved[r]))
    OBVIOUS
  <2>4. c \in Confidences
    BY <2>3, ConfidenceKinds
  <2>5. a.confidence = c
    BY <1>2, <2>3 DEF FullResponse
  <2> QED
    BY <2>1, <2>2, <2>4, <2>5
<1>4. r \in crossed /\ gen' = gen
  BY DEF FallbackMisled
<1>5. a.approximate
  BY <1>3
<1>6. Marked(a, gen[r], r \in crossed)
  BY <1>1, <1>3, <1>4, <1>5 DEF Marked
<1> QED
  BY <1>1, <1>2, <1>3, <1>4, <1>6, MarkedRespond

\* Every other answer shows the statement that was generated.
LEMMA MarkedNext ==
    MarkedInv /\ [Next]_vars => OnlyValid' /\ Rated' /\ SubstitutionMarked'
<1> SUFFICES ASSUME MarkedInv, [Next]_vars PROVE OnlyValid' /\ Rated' /\ SubstitutionMarked'
  OBVIOUS
<1> DEFINE Good == OnlyValid' /\ Rated' /\ SubstitutionMarked'
<1>1. ASSUME NEW r \in Workers, NEW s \in Sessions \union {NoSession}, NEW q \in Questions,
             Ask(r, s, q)
      PROVE  Good
  BY <1>1, MarkedMove DEF MarkedInv, AnswerInv, Shape, Ask, Goto, Places
<1>2. ASSUME NEW r \in Workers,
             ResolveAlone(r) \/ ResolveNewTopic(r) \/ ResolveFollowUp(r) \/ Record(r)
      PROVE  Good
  <2>1. PICK place \in {"record", "generate"} : pc' = [pc EXCEPT ![r] = place]
    BY <1>2 DEF ResolveAlone, ResolveNewTopic, ResolveFollowUp, Record, Goto
  <2>2. UNCHANGED <<gen, response, crossed>>
    BY <1>2 DEF ResolveAlone, ResolveNewTopic, ResolveFollowUp, Record
  <2> QED
    BY <2>1, <2>2, MarkedMove DEF Places
<1>3. ASSUME NEW r \in Workers, GenerateNothing(r) PROVE Good
  <2>1. Respond(r, EmptyResponse) /\ \A w \in Workers \ {r} : gen'[w] = gen[w]
    BY <1>3 DEF MarkedInv, AnswerInv, Shape, GenerateNothing
  <2>2. PICK a : a = EmptyResponse
    OBVIOUS
  <2>3. a.sql = NoSql /\ a.confidence \in Confidences
    BY <2>2 DEF EmptyResponse, Confidences
  <2> QED
    BY <2>1, <2>2, <2>3, SameStatement, MarkedRespond
<1>4. ASSUME NEW r \in Workers, Block(r) PROVE Good
  <2>1. PICK g : gen' = [gen EXCEPT ![r] = g] /\ Respond(r, ErrorResponse(g.sql))
    BY <1>4 DEF Block
  <2>2. gen'[r] = g /\ \A w \in Workers \ {r} : gen'[w] = gen[w]
    BY <2>1 DEF MarkedInv, AnswerInv, Shape
  <2>3. PICK a : a = ErrorResponse(g.sql)
    OBVIOUS
  <2>4. a.sql = g.sql /\ a.confidence \in Confidences
    BY <2>3 DEF ErrorResponse, Confidences
  <2> QED
    BY <2>1, <2>2, <2>3, <2>4, SameStatement, MarkedRespond
<1>5. ASSUME NEW r \in Workers, GenerateSql(r) PROVE Good
  <2>1. PICK g \in Generate(resolved[r]) :
          g.sql # NoSql /\ Valid(g.sql) /\ gen' = [gen EXCEPT ![r] = g]
    BY <1>5 DEF GenerateSql
  <2>2. gen'[r] = g /\ \A w \in Workers \ {r} : gen'[w] = gen[w]
    BY <2>1 DEF MarkedInv, AnswerInv, Shape
  <2>3. IsStatement(g.sql)
    BY <2>1, GeneratedStatement
  <2>4. pc' = [pc EXCEPT ![r] = "execute"] /\ response' = response /\ crossed \subseteq crossed'
    BY <1>5 DEF GenerateSql, Goto
  <2> QED
    BY <2>1, <2>2, <2>3, <2>4, MarkedMove DEF Places
<1>6. ASSUME NEW r \in Workers, ExecuteFails(r) \/ Execute(r) \/ FallbackFindsNothing(r)
      PROVE  Good
  <2>1. PICK ok, rows : Respond(r, FullResponse(r, ok, gen[r].sql, rows, gen[r].approximate,
                                                NoFallback))
    BY <1>6 DEF ExecuteFails, Execute, FallbackFindsNothing
  <2>2. gen' = gen
    BY <1>6 DEF ExecuteFails, Execute, FallbackFindsNothing
  <2>3. PICK a : a = FullResponse(r, ok, gen[r].sql, rows, gen[r].approximate, NoFallback)
    OBVIOUS
  <2>4. a.sql = gen[r].sql /\ a.confidence \in Confidences
    BY <2>3, FullParts
  <2> QED
    BY <2>1, <2>2, <2>3, <2>4, SameStatement, MarkedRespond
<1>7. ASSUME NEW r \in Workers, ExecuteRaises(r) PROVE Good
  <2>1. PICK e : e = ErrorResponse(NoSql)
    OBVIOUS
  <2>2. PICK a : a = [e EXCEPT !.confidence = 100]
    OBVIOUS
  <2>3. a.sql = NoSql /\ a.confidence \in Confidences
    BY <2>1, <2>2 DEF ErrorResponse, Confidences
  <2>4. Respond(r, a) /\ gen' = gen
    BY <1>7, <2>1, <2>2 DEF ExecuteRaises
  <2> QED
    BY <2>3, <2>4, SameStatement, MarkedRespond
<1>8. ASSUME NEW r \in Workers, ExecuteEmpty(r) PROVE Good
  <2>1. pc[r] = "execute" /\ pc' = [pc EXCEPT ![r] = "fallback"] /\ UNCHANGED <<gen, response, crossed>>
    BY <1>8 DEF ExecuteEmpty, Goto
  <2>2. Valid(gen'[r].sql) /\ IsStatement(gen'[r].sql)
    BY <2>1 DEF MarkedInv, OnlyValid
  <2> QED
    BY <2>1, <2>2, MarkedMove DEF Places
<1>9. CASE HealthCheck \/ UNCHANGED vars
  BY <1>9 DEF MarkedInv, OnlyValid, Rated, SubstitutionMarked, Done, HealthCheck, vars
<1> QED
  BY <1>1, <1>2, <1>3, <1>4, <1>5, <1>6, <1>7, <1>8, <1>9, MarkedFallback, MarkedMisled,
     NextCases
     DEF Answering

\* In every state.
LEMMA MarkedAlways == Spec => []MarkedInv
<1>1. Init => MarkedInv
  BY ShapeInit DEF Init, MarkedInv, AnswerInv, FallbackIsForEmpty, RowsMatchSql, OnlyValid, Rated,
     SubstitutionMarked, Done
<1>2. MarkedInv /\ [Next]_vars => MarkedInv'
  BY ShapeNext, AnswerNext, MarkedNext DEF MarkedInv, AnswerInv
<1> QED
  BY <1>1, <1>2, PTL DEF Spec

\* Whoever is shown another statement than the one generated is told so, and the value
\* put in the place of the requested one is a row's, for every table and every measure of
\* likeness.
THEOREM SubstitutionsMarked == Spec => []SubstitutionMarked
<1>1. MarkedInv => SubstitutionMarked
  BY DEF MarkedInv
<1> QED
  BY <1>1, MarkedAlways, PTL

\* The numbers, the sessions that had two requests at a time, and the workers overlapped.
Counted == turns \in 0..MaxTurns /\ mixed \subseteq Sessions /\ crossed \subseteq Workers

\* No more requests are taken than the bound.
LEMMA CountedNext == Counted /\ [Next]_vars => Counted'
<1> SUFFICES ASSUME Counted, [Next]_vars PROVE Counted'
  OBVIOUS
<1>1. ASSUME NEW r \in Workers, NEW s \in Sessions \union {NoSession}, NEW q \in Questions,
             Ask(r, s, q)
      PROVE  Counted'
  BY <1>1, BoundAssumption DEF Counted, Ask
<1>2. ASSUME NEW r \in Workers, ResolveAlone(r) \/ ResolveNewTopic(r) \/ ResolveFollowUp(r)
                                \/ Record(r) \/ Answering(r)
      PROVE  Counted'
  <2>1. mixed' = mixed
    BY <1>2, AnsweringFrame DEF ResolveAlone, ResolveNewTopic, ResolveFollowUp, Record
  <2>2. turns' = turns
    BY <1>2 DEF ResolveAlone, ResolveNewTopic, ResolveFollowUp, Record, Answering,
       GenerateNothing, Block, GenerateSql, ExecuteFails, ExecuteRaises, Execute,
       ExecuteEmpty, Fallback, FallbackMisled, FallbackFindsNothing, Respond
  <2>3. crossed' \subseteq crossed \union Workers
    BY <1>2 DEF ResolveAlone, ResolveNewTopic, ResolveFollowUp, Record, Answering,
       GenerateNothing, Block, GenerateSql, Executing, ExecuteFails, ExecuteRaises, Execute,
       ExecuteEmpty, Fallback, FallbackMisled, FallbackFindsNothing, Respond
  <2> QED
    BY <2>1, <2>2, <2>3 DEF Counted
<1>3. CASE HealthCheck \/ UNCHANGED vars
  BY <1>3 DEF Counted, HealthCheck, Executing, vars
<1> QED
  BY <1>1, <1>2, <1>3, NextCases

\* Every variable holds values of its kind, and only valid statements are run.
THEOREM TypeCorrect == Spec => []TypeOK
<1>1. Init => Counted
  BY BoundAssumption DEF Init, Counted
<1>2. Spec => []Counted
  BY <1>1, CountedNext, PTL DEF Spec
<1>3. SessionInv /\ Texts /\ MarkedInv /\ Counted => TypeOK
  <2> SUFFICES ASSUME Shape, HistoryIsSaid, Texts, MarkedInv, Counted PROVE TypeOK
    BY DEF SessionInv
  <2>1. ASSUME NEW s \in Sessions, NEW i \in DOMAIN history[s] PROVE IsText(history[s][i])
    <3>1. PICK h, S : h = history[s] /\ S = said[s]
      OBVIOUS
    <3>2. h \in Seq(S)
      BY <3>1 DEF HistoryIsSaid
    <3>3. IsSeq(h) /\ ToSet(h) \subseteq S
      BY <3>2, SeqOfSeq
    <3>4. h[i] \in S
      BY <2>1, <3>1, <3>3, SeqFacts
    <3> QED
      BY <3>1, <3>4 DEF Texts, Text
  <2>2. ASSUME NEW r \in Workers
        PROVE  /\ pc[r] # "idle" => /\ asked[r].session \in Sessions \union {NoSession}
                                    /\ asked[r].question \in Questions
               /\ pc[r] \notin {"idle", "resolve"} => IsText(resolved[r])
               /\ pc[r] \in {"execute", "fallback"} => Valid(gen[r].sql)
               /\ pc[r] = "done" => response[r].confidence \in {0, 20, 30, 50, 55, 90, 100}
    BY DEF Shape, Texts, Text, IsResolved, MarkedInv, OnlyValid, Rated, Done, Confidences
  <2> QED
    BY <2>1, <2>2 DEF TypeOK, Shape, Counted
<1> QED
  BY <1>2, <1>3, SessionInvAlways, TextsAlways, MarkedAlways, PTL
=============================================================================
