--------------------------- MODULE LiveBackend_proofs ---------------------------
(***************************************************************************)
(* Proofs about LiveBackend, for every number of requests at a time, every *)
(* load and every limit on sessions and turns.                             *)
(*                                                                         *)
(* What a session was given, the turns it was shown and those about to be, *)
(* only grows; an orchestrator belongs to the session whose key it has in  *)
(* a dictionary, and to that of the thread that uses it; so what it        *)
(* remembers is its session's own, however threads interleave.             *)
(***************************************************************************)
EXTENDS LiveBackend, DataLemmas

\* What record() keeps are turns it had, no more than the limit.
LEMMA RememberedTurns ==
    ASSUME NEW S, NEW turns \in Seq(S)
    PROVE  Remembered(turns) \in Seq(S) /\ Len(Remembered(turns)) <= MaxRemembered
<1> DEFINE n == Len(turns)
           first == Max({1, n - MaxRemembered + 1})
<1>1. n \in Nat /\ MaxRemembered \in Nat \ {0}
  BY LenProperties, MemoryAssumption
<1> HIDE DEF n
<1>2. first \in {1, n - MaxRemembered + 1} /\ \A m \in {1, n - MaxRemembered + 1} : m <= first
  <2>1. IsFiniteSet({1, n - MaxRemembered + 1})
    BY PairIsFinite
  <2>2. {1, n - MaxRemembered + 1} \in SUBSET Int
    BY <1>1
  <2> QED
    BY <2>1, <2>2, MaxOfFinite
<1> HIDE DEF first
<1>3. first \in Nat /\ 1 <= first /\ first <= n + 1 /\ n - first + 1 <= MaxRemembered
  BY <1>1, <1>2
<1>4. first \in 1..n + 1 /\ n \in 0..n
  BY <1>1, <1>3
<1>5. /\ SubSeq(turns, first, n) \in Seq(S)
      /\ Len(SubSeq(turns, first, n)) = IF first <= n THEN n - first + 1 ELSE 0
  BY <1>4, SubSeqProperties DEF n
<1>6. Remembered(turns) = SubSeq(turns, first, n)
  BY DEF Remembered, first, n
<1> QED
  BY <1>1, <1>3, <1>5, <1>6

-----------------------------------------------------------------------------
(* What every variable holds.                                               *)

Requested == [session : Sessions, question : Seq(STRING)]

\* The items a dictionary may have: keys with an orchestrator of theirs.
Entries ==
    {e \in [key : Sessions, orch : Nat] : e.orch \in DOMAIN owner /\ owner[e.orch] = e.key}

Kinds ==
    /\ setting \in Settings
    /\ pc \in [Workers -> Labels]
    /\ at \in [Workers -> Nat] /\ orch \in [Workers -> Nat]
    /\ DOMAIN request = Workers /\ DOMAIN draft = Workers
    /\ \A w \in Workers : Serving(w) => request[w] \in Requested
    /\ DOMAIN shown = Sessions /\ \A s \in Sessions : IsSeq(shown[s])
    /\ mixed \subseteq Sessions

\* A sequence of questions for every session.
IsHistory(f) == DOMAIN f = Sessions /\ \A s \in Sessions : IsSeq(f[s])

Process ==
    /\ prod \in 0..Len(bySession) /\ offline \in 0..Len(history)
    /\ owner \in Seq(Sessions)
    /\ bySession \in Seq(Seq(Entries))
    /\ IsSeq(memory) /\ Len(memory) = Len(owner)
    /\ IsSeq(history) /\ \A h \in DOMAIN history : IsHistory(history[h])

\* Where a thread that uses a pipeline, or an orchestrator, is.
HasPipeline(w) ==
    pc[w] \notin {"idle", "select", "make", "offline", "make_offline", "offline_record",
                  "offline_answer"}
HasOrchestrator(w) == pc[w] \in {"evict", "pop", "resolve", "append", "slice", "store"}

Using ==
    \A w \in Workers :
        /\ HasPipeline(w) => at[w] \in DOMAIN bySession
        /\ HasOrchestrator(w) => orch[w] \in DOMAIN owner /\ owner[orch[w]] = Session(w)

\* What a thread is about to record has a history to go to.
Ready == \A w \in Workers : At(w, "offline_record") => draft[w].pipeline \in DOMAIN history

\* A thread steps from one place to another and nothing else changes, but for the pipeline
\* it takes when it finds one.
Leads(from, to) ==
    \/ from = "select" /\ to \in {"find", "make"}
    \/ from = "find" /\ to \in {"touch", "construct"}
    \/ from \in {"touch", "construct", "resolve"} /\ to = "offline"
    \/ from = "evict" /\ to \in {"pop", "resolve"}
    \/ from = "offline" /\ to = "make_offline"
Moves(w) ==
    /\ \E place \in Labels :
         /\ pc' = [pc EXCEPT ![w] = place]
         /\ Leads(pc[w], place)
         /\ place = "pop" => TooMany(w)
         /\ place = "construct" => Places(w) = {}
         /\ pc[w] = "evict" /\ place = "resolve" => ~TooMany(w)
         /\ \/ at' = at /\ place # "find"
            \/ at' = [at EXCEPT ![w] = prod] /\ prod # 0 /\ place = "find"
    /\ UNCHANGED <<setting, shared, request, orch, draft, traces>>

Sayings ==
    {"did not execute", "no matching rows", "rows", "ascending", "descending", "highest",
     "lowest", "selected"}

\* Where the rows of a turn come from: there are none, they are made of those of an earlier
\* turn, or a statement was run.
Recalls(w, turn) ==
    /\ Recalled(w) \notin {None, Raised}
    /\ turn.sql = Recalled(w).source.sql
    /\ turn.columns = Recalled(w).columns /\ turn.rows = Recalled(w).rows
    /\ turn.status = "success" /\ turn.says = Recalled(w).says
RunsFor(w, turn) ==
    \E documents : \E run \in Runs(Resolved(w), documents, setting.profile) :
        /\ turn.sql = run.sql /\ turn.status = run.result.status
        /\ turn.columns = run.result.columns /\ turn.rows = run.result.rows
        /\ turn.says \in Sayings
HasSource(w, turn) == turn.rows = <<>> \/ Recalls(w, turn) \/ RunsFor(w, turn)

\* A thread that decided on the turn it will record: the question, and the words it was
\* resolved to unless it is refused without a statement.
Decides(w) ==
    /\ pc[w] = "resolve"
    /\ \E turn :
         /\ Drafts(w, turn)
         /\ turn.question = Question(w)
         /\ \/ turn.resolved = Question(w) /\ turn.sql = None
            \/ turn.resolved = Resolved(w) /\ turn.sql = None
            \/ turn.resolved = Resolved(w) /\ ~IsUnsafe(Question(w))
         /\ HasSource(w, turn)
    /\ UNCHANGED <<setting, shared, request, at, orch, traces>>

\* The summary is one of the texts there are.
LEMMA SummaryIsText == ASSUME NEW result PROVE Summary(result) \in Sayings
BY DEF Summary, Sayings

\* A thread that makes the offline pipeline, or records the question with it.
Prepares(w) ==
    /\ pc[w] \in {"offline", "make_offline", "offline_record"}
    /\ \E place \in OfflinePlaces : Goto(w, place)
    /\ DOMAIN draft' = DOMAIN draft /\ \A v \in Workers \ {w} : draft'[v] = draft[v]
    /\ UNCHANGED <<setting, prod, bySession, memory, request, at, orch, traces>>
    /\ MakeOffline(w) \/ OfflineResolve(w) \/ OfflineRecord(w)

\* Every step of a thread is a move, a decision, or one of those that change what is shared.
LEMMA StepsOf ==
    ASSUME NEW w \in Workers, Kinds, Step(w)
    PROVE  \/ Moves(w) \/ Decides(w) \/ Make(w) \/ Touch(w) \/ Construct(w) \/ Pop(w)
           \/ AppendTurn(w) \/ Slice(w) \/ Store(w) \/ Prepares(w) \/ OfflineAnswer(w)
<1> USE DEF At, Goto
<1>1. CASE Select(w) BY <1>1 DEF Select, Moves, Leads, Labels
<1>2. CASE SelectNone(w) BY <1>2 DEF SelectNone, Moves, Leads, Labels, threads
<1>3. CASE Find(w) BY <1>3 DEF Find, Moves, Leads, Labels
<1>4. CASE FindNone(w) BY <1>4 DEF FindNone, Moves, Leads, Labels
<1>5. CASE Evicted(w) BY <1>5 DEF Evicted, Moves, Leads, Labels
<1>6. CASE ConstructFails(w) BY <1>6 DEF ConstructFails, Moves, Leads, Labels
<1>7. CASE Full(w) BY <1>7 DEF Full, Moves, Leads, Labels
<1>8. CASE NotFull(w) BY <1>8 DEF NotFull, Moves, Leads, Labels
<1>9. CASE RecallRaises(w) BY <1>9 DEF RecallRaises, Accepted, Moves, Leads, Labels
<1>10. CASE WorkRaises(w) BY <1>10 DEF WorkRaises, Accepted, Moves, Leads, Labels
<1>11. CASE OfflineNone(w) BY <1>11 DEF OfflineNone, Moves, Leads, Labels
<1>12. CASE Refuse(w)
  <2>1. PICK turn : turn = Unsupported(w, Question(w))
    OBVIOUS
  <2>2. turn.question = Question(w) /\ turn.resolved = Question(w) /\ turn.sql = None
    BY <2>1 DEF Unsupported, Turn
  <2>3. HasSource(w, turn)
    BY <2>1 DEF Unsupported, Turn, NoRows, Result, HasSource
  <2> QED
    BY <1>12, <2>1, <2>2, <2>3 DEF Refuse, Decides
<1>13. CASE Recall(w)
  <2>1. PICK result : result = Result("success", Recalled(w), Recalled(w).rows)
    OBVIOUS
  <2>2. PICK turn : turn = Turn(w, Resolved(w), None, Recalled(w).source.sql,
                                "answered_from_conversation_memory", result, Recalled(w).says)
    OBVIOUS
  <2>3. /\ turn.question = Question(w) /\ turn.resolved = Resolved(w)
        /\ turn.sql = Recalled(w).source.sql
        /\ turn.columns = Recalled(w).columns /\ turn.rows = Recalled(w).rows
        /\ turn.status = "success" /\ turn.says = Recalled(w).says
    BY <2>1, <2>2 DEF Turn, Result
  <2>4. Drafts(w, turn) /\ Accepted(w) /\ Recalled(w) \notin {None, Raised}
    BY <1>13, <2>1, <2>2 DEF Recall
  <2>5. HasSource(w, turn)
    BY <2>3, <2>4 DEF HasSource, Recalls
  <2> QED
    BY <1>13, <2>3, <2>4, <2>5 DEF Recall, Accepted, Decides
<1>14. CASE WorkUnsupported(w)
  <2>1. PICK turn : turn = Unsupported(w, Resolved(w))
    OBVIOUS
  <2>2. turn.question = Question(w) /\ turn.resolved = Resolved(w) /\ turn.sql = None
    BY <2>1 DEF Unsupported, Turn
  <2>3. HasSource(w, turn)
    BY <2>1 DEF Unsupported, Turn, NoRows, Result, HasSource
  <2> QED
    BY <1>14, <2>1, <2>2, <2>3 DEF WorkUnsupported, Accepted, Decides
<1>15. CASE Work(w)
  <2>1. PICK documents : \E plan : \E run :
          /\ run \in Runs(Resolved(w), documents, setting.profile)
          /\ Drafts(w, Turn(w, Resolved(w), plan, run.sql, Stage(run.sql, run.result),
                            run.result, Summary(run.result)))
    BY <1>15 DEF Work
  <2>2. PICK plan : \E run :
          /\ run \in Runs(Resolved(w), documents, setting.profile)
          /\ Drafts(w, Turn(w, Resolved(w), plan, run.sql, Stage(run.sql, run.result),
                            run.result, Summary(run.result)))
    BY <2>1
  <2>3. PICK run :
          /\ run \in Runs(Resolved(w), documents, setting.profile)
          /\ Drafts(w, Turn(w, Resolved(w), plan, run.sql, Stage(run.sql, run.result),
                            run.result, Summary(run.result)))
    BY <2>2
  <2>4. PICK turn : turn = Turn(w, Resolved(w), plan, run.sql, Stage(run.sql, run.result),
                                run.result, Summary(run.result))
    OBVIOUS
  <2>5. /\ turn.question = Question(w) /\ turn.resolved = Resolved(w)
        /\ turn.sql = run.sql /\ turn.status = run.result.status
        /\ turn.columns = run.result.columns /\ turn.rows = run.result.rows
        /\ turn.says = Summary(run.result)
    BY <2>4 DEF Turn
  <2>6. Summary(run.result) \in Sayings
    BY SummaryIsText
  <2>7. HasSource(w, turn)
    BY <2>3, <2>5, <2>6 DEF HasSource, RunsFor
  <2> QED
    BY <1>15, <2>3, <2>4, <2>5, <2>7 DEF Work, Accepted, Decides
<1>17. DOMAIN draft = Workers
  BY DEF Kinds
<1>16. CASE MakeOffline(w) \/ OfflineResolve(w) \/ OfflineRecord(w)
  <2>1. /\ pc[w] \in {"offline", "make_offline", "offline_record"}
        /\ \E place \in OfflinePlaces : Goto(w, place)
    BY <1>16 DEF MakeOffline, OfflineResolve, OfflineRecord, OfflinePlaces
  <2>2. DOMAIN draft' = DOMAIN draft /\ \A v \in Workers \ {w} : draft'[v] = draft[v]
    <3>1. draft' = draft \/ \E value : draft' = [draft EXCEPT ![w] = value]
      BY <1>16 DEF MakeOffline, OfflineResolve, OfflineRecord
    <3> QED
      BY <1>17, <3>1
  <2>3. UNCHANGED <<setting, prod, bySession, memory, request, at, orch, traces>>
    BY <1>16 DEF MakeOffline, OfflineResolve, OfflineRecord
  <2> QED
    BY <1>16, <2>1, <2>2, <2>3 DEF Prepares
<1> QED
  BY <1>1, <1>2, <1>3, <1>4, <1>5, <1>6, <1>7, <1>8, <1>9, <1>10, <1>11, <1>12, <1>13,
     <1>14, <1>15, <1>16 DEF Step

\* At first there is no pipeline, no orchestrator and no request.
LEMMA InitTyped == Init => Kinds /\ Process /\ Using
<1> SUFFICES ASSUME Init PROVE Kinds /\ Process /\ Using
  OBVIOUS
<1> USE DEF Init
<1>1. Kinds
  <2>1. \A s \in Sessions : IsSeq(shown[s])
    BY EmptySeq DEF IsSeq
  <2> QED
    BY <2>1 DEF Kinds, Labels, Serving
<1>2. Process
  <2>1. IsSeq(<<>>)
    BY EmptySeq DEF IsSeq
  <2>2. Len(<<>>) = 0
    OBVIOUS
  <2> QED
    BY <2>1, <2>2, InSeqEmpty DEF Process
<1>3. Using
  BY DEF Using, HasPipeline, HasOrchestrator
<1> QED
  BY <1>1, <1>2, <1>3

\* The steps that leave alone what the process holds.
LEMMA ProcessKept == Process /\ UNCHANGED <<shared, traces>> => Process'
BY DEF Process, shared, traces, Entries

\* A move is to a place for which the thread has what it needs.
LEMMA MovesTyped ==
    ASSUME NEW w \in Workers, Kinds, Process, Using, Moves(w)
    PROVE  Kinds' /\ Process' /\ Using'
<1> USE DEF shared, traces
<1>1. PICK place \in Labels :
        /\ pc' = [pc EXCEPT ![w] = place] /\ Leads(pc[w], place)
        /\ \/ at' = at /\ place # "find"
           \/ at' = [at EXCEPT ![w] = prod] /\ prod # 0 /\ place = "find"
  BY DEF Moves
<1>2. Process'
  BY ProcessKept DEF Moves
<1>3. bySession \in Seq(Seq(Entries)) /\ prod \in 0..Len(bySession)
  BY DEF Process
<1>4. DOMAIN bySession = 1..Len(bySession) /\ Len(bySession) \in Nat
  BY <1>3, LenProperties
<1>5. prod \in Nat /\ (prod # 0 => prod \in DOMAIN bySession)
  BY <1>3, <1>4
<1>6. at' \in [Workers -> Nat]
  BY <1>1, <1>5 DEF Kinds
<1>7. \A v \in Workers : Serving(v)' => Serving(v)
  BY <1>1 DEF Serving, Kinds, Leads
<1>8. Kinds'
  BY <1>1, <1>6, <1>7 DEF Kinds, Moves, Serving
<1>9. ASSUME NEW v \in Workers
      PROVE  (HasPipeline(v) => at[v] \in DOMAIN bySession)'
  BY <1>1, <1>5 DEF Kinds, Using, HasPipeline, Leads, Moves
<1>10. ASSUME NEW v \in Workers
       PROVE  (HasOrchestrator(v) => orch[v] \in DOMAIN owner /\ owner[orch[v]] = Session(v))'
  BY <1>1 DEF Kinds, Using, HasOrchestrator, Leads, Moves, Session
<1> QED
  BY <1>2, <1>8, <1>9, <1>10 DEF Using

\* A decision sets the thread's draft only.
LEMMA DecidesTyped ==
    ASSUME NEW w \in Workers, Kinds, Process, Using, Decides(w) \/ Slice(w)
    PROVE  Kinds' /\ Process' /\ Using'
<1> USE DEF shared, traces, At, Goto
<1>1. PICK place, value :
        /\ place \in {"append", "store"}
        /\ pc' = [pc EXCEPT ![w] = place] /\ draft' = [draft EXCEPT ![w] = value]
        /\ pc[w] \in {"resolve", "slice"}
        /\ UNCHANGED <<setting, shared, request, at, orch, traces>>
  BY DEF Decides, Drafts, Slice
<1>2. Process'
  BY <1>1, ProcessKept
<1>3. Kinds'
  BY <1>1 DEF Kinds, Labels, Serving
<1>4. Using'
  BY <1>1 DEF Kinds, Using, HasPipeline, HasOrchestrator, Session
<1> QED
  BY <1>2, <1>3, <1>4

\* A request starts without a pipeline or an orchestrator.
LEMMA AskTyped ==
    ASSUME NEW w \in Workers, NEW s \in Sessions, NEW q \in setting.asks[s],
           Kinds, Process, Using, Ask(w, s, q)
    PROVE  Kinds' /\ Process' /\ Using'
<1> USE DEF Ask, shared, At, Goto
<1>1. q \in Seq(STRING)
  BY LiveAssumption DEF Kinds
<1>2. request'[w] \in Requested
  BY <1>1 DEF Requested, Kinds
<1>3. Process'
  BY DEF Process, Entries
<1>4. Kinds'
  BY <1>2 DEF Kinds, Labels, Serving
<1>5. Using'
  BY DEF Kinds, Using, HasPipeline, HasOrchestrator, Session
<1> QED
  BY <1>3, <1>4, <1>5

\* A pipeline that is made has a dictionary without sessions.
LEMMA MakeTyped ==
    ASSUME NEW w \in Workers, Kinds, Process, Using, Make(w)
    PROVE  Kinds' /\ Process' /\ Using'
<1> USE DEF Make, traces, At, Goto
<1>1. bySession \in Seq(Seq(Entries)) /\ <<>> \in Seq(Entries) /\ Entries' = Entries
  BY EmptySeq DEF Process, Entries
<1>2. /\ bySession' \in Seq(Seq(Entries)) /\ Len(bySession') = Len(bySession) + 1
      /\ Len(bySession) \in Nat /\ DOMAIN bySession \subseteq DOMAIN bySession'
  BY <1>1, InSeqAppend
<1>3. Process'
  BY <1>1, <1>2 DEF Process
<1>4. Kinds'
  BY DEF Kinds, Labels, Serving
<1>5. Using'
  BY <1>2 DEF Kinds, Using, HasPipeline, HasOrchestrator, Session
<1> QED
  BY <1>3, <1>4, <1>5

\* The place of a session's item, if there is one.
LEMMA PlaceFound ==
    ASSUME NEW w \in Workers, Kinds, Process, Using, HasPipeline(w), Places(w) # {}
    PROVE  /\ Min(Places(w)) \in 1..Len(bySession[at[w]])
           /\ Item(w) \in Entries /\ Item(w).key = Session(w)
<1>1. bySession[at[w]] \in Seq(Entries)
  BY LenProperties DEF Process, Using
<1>2. PICK d : d = bySession[at[w]]
  OBVIOUS
<1>3. DOMAIN d = 1..Len(d) /\ Len(d) \in Nat /\ \A i \in DOMAIN d : d[i] \in Entries
  BY <1>1, <1>2, LenProperties
<1>4. Places(w) \in SUBSET Nat
  BY <1>2, <1>3 DEF Places
<1>5. PICK i : i = Min(Places(w)) /\ i \in Places(w)
  BY <1>4, MinOfNaturals
<1>6. i \in DOMAIN d /\ d[i].key = Session(w)
  BY <1>2, <1>5 DEF Places, Key
<1> QED
  BY <1>2, <1>3, <1>5, <1>6 DEF Item

\* move_to_end keeps the items of the dictionary.
LEMMA TouchTyped ==
    ASSUME NEW w \in Workers, Kinds, Process, Using, Touch(w)
    PROVE  /\ Kinds' /\ Process' /\ Using' /\ DOMAIN bySession' = DOMAIN bySession
           /\ \A p \in DOMAIN bySession : Len(bySession'[p]) = Len(bySession[p])
<1> USE DEF Touch, At, Goto
<1>1. HasPipeline(w) /\ at[w] \in DOMAIN bySession
  BY DEF HasPipeline, Using
<1>2. PICK i : i = Min(Places(w)) /\ i \in 1..Len(bySession[at[w]])
  BY <1>1, PlaceFound
<1>3. PICK d, e : d = bySession[at[w]] /\ e = Item(w)
  OBVIOUS
<1>4. d \in Seq(Entries) /\ e \in Entries /\ e.key = Session(w)
  BY <1>1, <1>3, PlaceFound, LenProperties DEF Process
<1>5. PICK r : r = RemoveAt(d, i)
  OBVIOUS
<1>6. r \in Seq(Entries) /\ Len(r) = Len(d) - 1
  BY <1>2, <1>3, <1>4, <1>5, RemovedAt
<1>7. PICK n : n = Append(r, e)
  OBVIOUS
<1>8. n \in Seq(Entries) /\ Len(r) \in Nat /\ Len(n) = Len(r) + 1
  BY <1>4, <1>6, <1>7, InSeqAppend
<1>9. Len(n) = Len(d)
  <2>1. Len(d) \in Nat
    BY <1>4, LenProperties
  <2>2. PICK k, l, m : k = Len(n) /\ l = Len(d) /\ m = Len(r)
    OBVIOUS
  <2>3. k = l
    BY <2>1, <2>2, <1>6, <1>8
  <2> QED
    BY <2>2, <2>3
<1>10. bySession' = ReplaceAt(bySession, at[w], n)
  BY <1>2, <1>3, <1>5, <1>7 DEF SetDict, ReplaceAt
<1>11. Entries' = Entries
  BY DEF Entries
<1>12. /\ bySession' \in Seq(Seq(Entries)) /\ Len(bySession') = Len(bySession)
       /\ DOMAIN bySession' = DOMAIN bySession
  BY <1>8, <1>10, InSeqReplace DEF Process
<1>13. \A p \in DOMAIN bySession : Len(bySession'[p]) = Len(bySession[p])
  BY <1>3, <1>9, <1>10 DEF ReplaceAt
<1>14. Process'
  BY <1>11, <1>12 DEF Process
<1>15. orch'[w] = e.orch /\ e.orch \in Nat /\ e.orch \in DOMAIN owner /\ owner[e.orch] = Session(w)
  BY <1>3, <1>4 DEF Entries, Kinds
<1>16. Kinds'
  BY <1>15 DEF Kinds, Labels, Serving
<1>17. Using'
  BY <1>12, <1>15 DEF Kinds, Using, HasPipeline, HasOrchestrator, Session
<1> QED
  BY <1>12, <1>13, <1>14, <1>16, <1>17

\* A new orchestrator belongs to the thread's session and stands under its key.
LEMMA ConstructTyped ==
    ASSUME NEW w \in Workers, Kinds, Process, Using, Construct(w)
    PROVE  /\ Kinds' /\ Process' /\ Using' /\ DOMAIN bySession' = DOMAIN bySession
           /\ \A p \in DOMAIN bySession \ {at[w]} : bySession'[p] = bySession[p]
           /\ Len(bySession[at[w]]) <= Len(bySession'[at[w]])
           /\ Len(bySession'[at[w]]) <= Len(bySession[at[w]]) + 1
           /\ orch'[w] = Len(memory) + 1 /\ Len(memory) + 1 \notin DOMAIN memory
           /\ \A o \in DOMAIN owner : owner'[o] = owner[o]
           /\ owner'[Len(memory) + 1] = Session(w)
<1> USE DEF Construct, At, Goto
<1>1. HasPipeline(w) /\ at[w] \in DOMAIN bySession /\ Session(w) \in Sessions
  BY DEF HasPipeline, Using, Kinds, Requested, Serving, Session
<1>2. PICK o : o = Len(memory) + 1 /\ o = Len(owner) + 1 /\ Len(memory) \in Nat /\ o \in Nat
  BY SeqFacts DEF Process
<1>3. /\ owner' \in Seq(Sessions) /\ Len(owner') = Len(owner) + 1
      /\ DOMAIN owner \subseteq DOMAIN owner'
      /\ \A k \in DOMAIN owner : owner'[k] = owner[k]
      /\ o \in DOMAIN owner' /\ owner'[o] = Session(w)
  BY <1>1, <1>2, InSeqAppend DEF Process
<1>4. Entries \subseteq Entries'
  BY <1>3 DEF Entries
<1>5. PICK item : item = [key |-> Key(w), orch |-> o]
  OBVIOUS
<1>6. item \in Entries' /\ item.orch = o
  BY <1>1, <1>2, <1>3, <1>5 DEF Entries, Key
<1>7. PICK d : d = bySession[at[w]]
  OBVIOUS
<1>8. d \in Seq(Entries) /\ d \in Seq(Entries') /\ Len(d) \in Nat
  BY <1>1, <1>4, <1>7, LenProperties, SeqMonotonic DEF Process
<1>9. PICK n : /\ n = IF Places(w) = {} THEN Append(d, item) ELSE ReplaceAt(d, Min(Places(w)), item)
  OBVIOUS
<1>10. n \in Seq(Entries') /\ Len(n) \in Nat /\ (Len(n) = Len(d) \/ Len(n) = Len(d) + 1)
  <2>1. CASE Places(w) = {}
    BY <2>1, <1>6, <1>8, <1>9, InSeqAppend, LenProperties
  <2>2. CASE Places(w) # {}
    BY <2>2, <1>6, <1>8, <1>9, InSeqReplace, LenProperties
  <2> QED
    BY <2>1, <2>2
<1>11. bySession' = ReplaceAt(bySession, at[w], n)
  BY <1>2, <1>5, <1>7, <1>9 DEF SetDict, ReplaceAt
<1>12. bySession \in Seq(Seq(Entries'))
  <2>1. \A q \in Seq(Entries) : q \in Seq(Entries')
    BY <1>4, SeqMonotonic
  <2>2. Seq(Entries) \subseteq Seq(Entries')
    BY <2>1
  <2> QED
    BY <2>2, SeqMonotonic DEF Process
<1>13. /\ bySession' \in Seq(Seq(Entries')) /\ Len(bySession') = Len(bySession)
       /\ DOMAIN bySession' = DOMAIN bySession
  BY <1>10, <1>11, <1>12, InSeqReplace
<1>14. IsSeq(memory') /\ Len(memory') = Len(memory) + 1 /\ Len(memory) + 1 \notin DOMAIN memory
  BY Appended DEF Process
<1>15. Process'
  BY <1>2, <1>3, <1>13, <1>14 DEF Process
<1>16. orch'[w] = o /\ orch' = [orch EXCEPT ![w] = o]
  BY <1>2 DEF Kinds
<1>17. Kinds'
  BY <1>2, <1>16 DEF Kinds, Labels, Serving
<1>18. Using'
  BY <1>3, <1>13, <1>16 DEF Kinds, Using, HasPipeline, HasOrchestrator, Session
<1>19. Len(d) <= Len(n) /\ Len(n) <= Len(d) + 1
  BY <1>8, <1>10
<1>20. bySession'[at[w]] = n /\ \A p \in DOMAIN bySession \ {at[w]} : bySession'[p] = bySession[p]
  BY <1>1, <1>11 DEF ReplaceAt
<1> QED
  BY <1>2, <1>3, <1>7, <1>13, <1>14, <1>15, <1>16, <1>17, <1>18, <1>19, <1>20

\* popitem takes one item away.
LEMMA PopTyped ==
    ASSUME NEW w \in Workers, Kinds, Process, Using, Pop(w), bySession[at[w]] # <<>>
    PROVE  /\ Kinds' /\ Process' /\ Using' /\ DOMAIN bySession' = DOMAIN bySession
           /\ \A p \in DOMAIN bySession \ {at[w]} : bySession'[p] = bySession[p]
           /\ Len(bySession'[at[w]]) = Len(bySession[at[w]]) - 1
<1> USE DEF Pop, traces, At, Goto
<1>1. HasPipeline(w) /\ at[w] \in DOMAIN bySession
  BY DEF HasPipeline, Using
<1>2. bySession[at[w]] \in Seq(Entries)
  BY <1>1, LenProperties DEF Process
<1>3. PICK n : n = Tail(bySession[at[w]])
  OBVIOUS
<1>4. n \in Seq(Entries) /\ Len(n) = Len(bySession[at[w]]) - 1
  BY <1>2, <1>3, HeadTailProperties
<1>5. bySession' = ReplaceAt(bySession, at[w], n)
  BY <1>3 DEF SetDict, ReplaceAt
<1>6. /\ bySession' \in Seq(Seq(Entries)) /\ Len(bySession') = Len(bySession)
      /\ DOMAIN bySession' = DOMAIN bySession
  BY <1>4, <1>5, InSeqReplace DEF Process
<1>7. Process'
  BY <1>6 DEF Process, Entries
<1>8. Kinds'
  BY DEF Kinds, Labels, Serving
<1>9. Using'
  BY <1>6 DEF Kinds, Using, HasPipeline, HasOrchestrator, Session
<1>10. bySession'[at[w]] = n /\ \A p \in DOMAIN bySession \ {at[w]} : bySession'[p] = bySession[p]
  BY <1>1, <1>5 DEF ReplaceAt
<1> QED
  BY <1>4, <1>6, <1>7, <1>8, <1>9, <1>10

\* The append extends the list the thread's orchestrator has now.
LEMMA AppendTurnTyped ==
    ASSUME NEW w \in Workers, Kinds, Process, Using, AppendTurn(w)
    PROVE  Kinds' /\ Process' /\ Using'
<1>1. IsSeq(memory') /\ Len(memory') = Len(memory)
  <2>1. memory' = ReplaceAt(memory, orch[w], Append(memory[orch[w]], draft[w]))
    BY DEF AppendTurn, ReplaceAt
  <2> QED
    BY <2>1, Replaced DEF Process
<1>2. Process'
  BY <1>1 DEF AppendTurn, traces, Process, Entries
<1>3. Kinds'
  BY DEF AppendTurn, At, Goto, traces, Kinds, Labels, Serving
<1>4. Using'
  BY DEF AppendTurn, At, Goto, traces, Kinds, Using, HasPipeline, HasOrchestrator, Session
<1> QED
  BY <1>2, <1>3, <1>4

\* A thread that answers is idle again.
LEMMA AnswerTyped ==
    ASSUME NEW w \in Workers, NEW response, Kinds, Process, Using, Answer(w, response),
           Serving(w), bySession' = bySession
    PROVE  /\ Kinds' /\ Using'
           /\ shown'[Session(w)] = Append(shown[Session(w)], response)
           /\ \A s \in Sessions \ {Session(w)} : shown'[s] = shown[s]
<1> USE DEF Answer, Goto
<1>1. Session(w) \in Sessions
  BY DEF Kinds, Requested, Session
<1>2. /\ shown'[Session(w)] = Append(shown[Session(w)], response)
      /\ \A s \in Sessions \ {Session(w)} : shown'[s] = shown[s]
  BY <1>1 DEF Kinds
<1>3. PICK q, r : q = shown[Session(w)] /\ r = shown'[Session(w)]
  OBVIOUS
<1>4. IsSeq(r)
  BY <1>1, <1>2, <1>3, Appended DEF Kinds
<1>5. \A s \in Sessions : IsSeq(shown'[s])
  BY <1>2, <1>3, <1>4 DEF Kinds
<1>6. Kinds'
  BY <1>5 DEF Kinds, Labels, Serving
<1>7. Using'
  BY DEF Kinds, Using, HasPipeline, HasOrchestrator, Session
<1> QED
  BY <1>2, <1>6, <1>7

\* The store replaces the memory and answers.
LEMMA StoreTyped ==
    ASSUME NEW w \in Workers, Kinds, Process, Using, Store(w)
    PROVE  Kinds' /\ Process' /\ Using'
<1>1. IsSeq(memory') /\ Len(memory') = Len(memory)
  <2>1. memory' = ReplaceAt(memory, orch[w], draft[w].turns)
    BY DEF Store, ReplaceAt
  <2> QED
    BY <2>1, Replaced DEF Process
<1>2. Process'
  BY <1>1 DEF Store, Process, Answer, Entries
<1>3. Kinds' /\ Using'
  BY AnswerTyped DEF Store, At, Serving
<1> QED
  BY <1>2, <1>3

\* An offline pipeline that is made has no history.
LEMMA MakeOfflineTyped ==
    ASSUME NEW w \in Workers, Process, MakeOffline(w)
    PROVE  /\ IsSeq(history') /\ Len(history') = Len(history) + 1 /\ Len(history) \in Nat
           /\ offline' = Len(history')
           /\ DOMAIN history' = DOMAIN history \union {Len(history) + 1}
           /\ \A h \in DOMAIN history' : IsHistory(history'[h])
           /\ \A h \in DOMAIN history : history'[h] = history[h]
           /\ \A s \in Sessions : history'[Len(history) + 1][s] = <<>>
<1>1. PICK new : new = [s \in Sessions |-> <<>>] /\ IsHistory(new)
  <2>1. PICK none : none = <<>> /\ IsSeq(none)
    BY NoWords
  <2>2. PICK f : f = [s \in Sessions |-> none]
    OBVIOUS
  <2>3. IsHistory(f)
    BY <2>1, <2>2 DEF IsHistory
  <2> QED
    BY <2>1, <2>2, <2>3
<1>2. history' = Append(history, new) /\ offline' = Len(history')
  BY <1>1 DEF MakeOffline
<1>3. PICK q : q = history /\ IsSeq(q)
  BY DEF Process
<1>7. PICK r : r = Append(q, new)
  OBVIOUS
<1>4. /\ IsSeq(r) /\ Len(r) = Len(q) + 1
      /\ DOMAIN r = DOMAIN q \union {Len(q) + 1}
      /\ \A i \in DOMAIN q : r[i] = q[i]
      /\ r[Len(q) + 1] = new
  <2>1. IsSeq(q)
    BY <1>3
  <2>2. Longer(Append(q, new), q, new)
    BY <2>1, AppendedLonger
  <2>3. Longer(r, q, new)
    BY <1>7, <2>2
  <2>4. Len(r) = Len(q) + 1 /\ DOMAIN q = 1..Len(q) /\ Len(q) \in Nat
    BY <2>1, <2>3, SeqFacts DEF Longer
  <2> QED
    BY <2>3, <2>4 DEF Longer
<1>5. Len(q) \in Nat
  BY <1>3, SeqFacts
<1>6. \A h \in DOMAIN q : IsHistory(q[h])
  BY <1>3 DEF Process
<1>8. r = history' /\ \A s \in Sessions : new[s] = <<>>
  BY <1>1, <1>2, <1>3, <1>7
<1>9. DOMAIN r = DOMAIN q \union {Len(q) + 1} /\ \A h \in DOMAIN r : IsHistory(r[h])
  BY <1>1, <1>4, <1>6
<1> QED
  BY <1>2, <1>3, <1>4, <1>5, <1>8, <1>9

\* What a history becomes when the questions of one session in it are set.
Sets(h, s, x) ==
    /\ IsSeq(history') /\ Len(history') = Len(history)
    /\ h \in DOMAIN history /\ DOMAIN history' = DOMAIN history
    /\ \A k \in DOMAIN history' : IsHistory(history'[k])
    /\ \A k \in DOMAIN history, t \in Sessions :
         history'[k][t] = IF k = h /\ t = s THEN x ELSE history[k][t]
LEMMA HistorySet ==
    ASSUME Process, NEW h \in DOMAIN history, NEW s \in Sessions, NEW x, IsSeq(x),
           history' = [history EXCEPT ![h][s] = x]
    PROVE  Sets(h, s, x)
<1>1. PICK f : f = history[h] /\ IsHistory(f)
  BY DEF Process
<1>2. PICK g : g = [f EXCEPT ![s] = x]
  OBVIOUS
<1>3. IsHistory(g) /\ \A t \in Sessions : g[t] = IF t = s THEN x ELSE f[t]
  BY <1>1, <1>2 DEF IsHistory
<1>4. history' = [history EXCEPT ![h] = g]
  BY <1>1, <1>2
<1>5. history' = ReplaceAt(history, h, g)
  BY <1>4 DEF ReplaceAt
<1>6. PICK q : q = history /\ IsSeq(q)
  BY DEF Process
<1>11. PICK r : r = ReplaceAt(q, h, g)
  OBVIOUS
<1>12. r = history'
  BY <1>5, <1>6, <1>11
<1>7. /\ IsSeq(r) /\ Len(r) = Len(q) /\ DOMAIN r = DOMAIN q
      /\ \A j \in DOMAIN q : r[j] = IF j = h THEN g ELSE q[j]
  BY <1>6, <1>11, Replaced
<1>8. \A k \in DOMAIN q : IsHistory(q[k])
  BY <1>6 DEF Process
<1>9. \A k \in DOMAIN r : IsHistory(r[k])
  BY <1>3, <1>7, <1>8
<1>10. \A k \in DOMAIN q, t \in Sessions :
         r[k][t] = IF k = h /\ t = s THEN x ELSE q[k][t]
  BY <1>1, <1>3, <1>6, <1>7
<1>13. \A k \in DOMAIN history, t \in Sessions :
         history'[k][t] = IF k = h /\ t = s THEN x ELSE history[k][t]
  BY <1>6, <1>10, <1>12
<1>14. /\ IsSeq(history') /\ Len(history') = Len(history) /\ DOMAIN history' = DOMAIN history
       /\ \A k \in DOMAIN history' : IsHistory(history'[k])
  BY <1>6, <1>7, <1>9, <1>12
<1> QED
  BY <1>13, <1>14 DEF Sets

\* The questions of the offline pipeline's history that a question follows; one on its own
\* starts them anew.
Before(w) ==
    IF Continues(Question(w)) THEN history[offline][Session(w)] ELSE <<>>
LEMMA ResolveSets ==
    ASSUME NEW w \in Workers, Kinds, Process, OfflineResolve(w)
    PROVE  /\ Session(w) \in Sessions /\ IsSeq(Before(w))
           /\ Sets(offline, Session(w), Before(w))
<1>1. Session(w) \in Sessions
  BY DEF OfflineResolve, At, Kinds, Requested, Session, Serving
<1>2. offline \in DOMAIN history
  BY SeqFacts DEF OfflineResolve, Process
<1>3. IsHistory(history[offline])
  BY <1>2 DEF Process
<1>4. IsSeq(Before(w))
  BY <1>1, <1>3, NoWords DEF Before, IsHistory
<1>5. CASE Continues(Question(w))
  <2>1. history' = history
    BY <1>5 DEF OfflineResolve
  <2>2. Before(w) = history[offline][Session(w)]
    BY <1>5 DEF Before
  <2> QED
    BY <1>1, <1>2, <1>4, <2>1, <2>2 DEF Sets, Process
<1>6. CASE ~Continues(Question(w))
  <2>1. history' = [history EXCEPT ![offline][Session(w)] = Before(w)]
    BY <1>6 DEF OfflineResolve, Before
  <2> QED
    BY <1>1, <1>2, <1>4, <2>1, HistorySet
<1> QED
  BY <1>1, <1>4, <1>5, <1>6

\* What is recorded comes after what the session said there before.
Extended(w) == Append(history[draft[w].pipeline][Session(w)], draft[w].resolved)
LEMMA RecordSets ==
    ASSUME NEW w \in Workers, Kinds, Process, Ready, OfflineRecord(w)
    PROVE  /\ Session(w) \in Sessions /\ Sets(draft[w].pipeline, Session(w), Extended(w))
           /\ IsSeq(history[draft[w].pipeline][Session(w)])
<1>1. Session(w) \in Sessions
  BY DEF OfflineRecord, At, Kinds, Requested, Session, Serving
<1>2. draft[w].pipeline \in DOMAIN history
  BY DEF OfflineRecord, Ready
<1>3. IsHistory(history[draft[w].pipeline])
  BY <1>2 DEF Process
<1>4. IsSeq(history[draft[w].pipeline][Session(w)])
  BY <1>1, <1>3 DEF IsHistory
<1>5. IsSeq(Extended(w))
  BY <1>4, Appended DEF Extended
<1>6. history' = [history EXCEPT ![draft[w].pipeline][Session(w)] = Extended(w)]
  BY DEF OfflineRecord, Extended
<1> QED
  BY <1>1, <1>2, <1>4, <1>5, <1>6, HistorySet

\* Whatever the offline pipeline's thread does to the histories, they stay such.
LEMMA PreparesHistories ==
    ASSUME NEW w \in Workers, Kinds, Process, Ready, Prepares(w)
    PROVE  /\ IsSeq(history') /\ \A h \in DOMAIN history' : IsHistory(history'[h])
           /\ DOMAIN history \subseteq DOMAIN history'
           /\ offline' \in 0..Len(history')
           /\ At(w, "offline_record")' => draft'[w].pipeline \in DOMAIN history'
<1>1. Len(history) \in Nat /\ offline \in 0..Len(history)
  BY SeqFacts DEF Process
<1>2. CASE MakeOffline(w)
  <2>1. offline' \in 0..Len(history')
    BY <1>1, <1>2, MakeOfflineTyped
  <2>2. ~At(w, "offline_record")'
    BY <1>2 DEF MakeOffline, At, Goto, Kinds
  <2> QED
    BY <1>2, <2>1, <2>2, MakeOfflineTyped
<1>3. CASE OfflineResolve(w)
  <2>1. Sets(offline, Session(w), Before(w))
    BY <1>3, ResolveSets
  <2>2. draft'[w].pipeline = offline /\ offline' = offline
    BY <1>3 DEF OfflineResolve, Kinds
  <2> QED
    BY <1>1, <2>1, <2>2 DEF Sets
<1>4. CASE OfflineRecord(w)
  <2>1. Sets(draft[w].pipeline, Session(w), Extended(w))
    BY <1>4, RecordSets
  <2>2. offline' = offline /\ ~At(w, "offline_record")'
    BY <1>4 DEF OfflineRecord, At, Goto, Kinds
  <2> QED
    BY <1>1, <2>1, <2>2 DEF Sets
<1> QED
  BY <1>2, <1>3, <1>4 DEF Prepares

LEMMA PreparesTyped ==
    ASSUME NEW w \in Workers, Kinds, Process, Using, Ready, Prepares(w)
    PROVE  Kinds' /\ Process' /\ Using' /\ Ready'
<1>1. PICK place \in OfflinePlaces :
        /\ pc' = [pc EXCEPT ![w] = place]
        /\ DOMAIN draft' = DOMAIN draft /\ \A v \in Workers \ {w} : draft'[v] = draft[v]
        /\ pc[w] \in {"offline", "make_offline", "offline_record"}
        /\ UNCHANGED <<setting, prod, bySession, memory, request, at, orch, traces>>
  BY DEF Prepares, Goto
<1>2. Process'
  BY <1>1, PreparesHistories DEF Process, Entries, traces
<1>3. Kinds'
  BY <1>1 DEF Kinds, Labels, Serving, OfflinePlaces, traces
<1>4. ASSUME NEW v \in Workers PROVE (At(v, "offline_record") => draft[v].pipeline \in DOMAIN history)'
  <2>1. CASE v = w
    BY <2>1, PreparesHistories
  <2>2. CASE v # w
    BY <1>1, <2>2, PreparesHistories DEF Kinds, Ready, At
  <2> QED
    BY <2>1, <2>2
<1>5. ASSUME NEW v \in Workers
      PROVE  /\ (HasPipeline(v) => at[v] \in DOMAIN bySession)'
             /\ (HasOrchestrator(v) => orch[v] \in DOMAIN owner /\ owner[orch[v]] = Session(v))'
  BY <1>1 DEF Kinds, Using, HasPipeline, HasOrchestrator, OfflinePlaces, Session, traces
<1> QED
  BY <1>2, <1>3, <1>4, <1>5 DEF Using, Ready

\* An offline answer is that of its thread.
LEMMA OfflineAnswerTyped ==
    ASSUME NEW w \in Workers, Kinds, Process, Using, OfflineAnswer(w)
    PROVE  /\ Kinds' /\ Process' /\ Using' /\ history' = history
           /\ Session(w) \in Sessions /\ Serving(w)
<1>1. Session(w) \in Sessions /\ Serving(w)
  BY DEF OfflineAnswer, At, Kinds, Requested, Session, Serving
<1>2. Process'
  BY DEF OfflineAnswer, Process, Answer, Entries, shared
<1>3. Kinds' /\ Using'
  BY <1>1, AnswerTyped DEF OfflineAnswer, shared
<1> QED
  BY <1>1, <1>2, <1>3 DEF OfflineAnswer, shared

-----------------------------------------------------------------------------
(* The size of a dictionary: at most the limit and one more for every      *)
(* thread that is about to evict, and large enough for those that pop.     *)

Evicting(p) == {w \in Workers : pc[w] \in {"evict", "pop"} /\ at[w] = p}
Popping(p) == {w \in Workers : pc[w] = "pop" /\ at[w] = p}
Fits(n, E, P) ==
    /\ n <= MaxSessions + Cardinality(E)
    /\ P # {} => n + Cardinality(Workers) >= MaxSessions + 1 + Cardinality(P)
Room == \A p \in DOMAIN bySession : Fits(Len(bySession[p]), Evicting(p), Popping(p))

\* Cardinalities of sets of workers, of which LiveAssumption has finitely many.
LEMMA SomeWorkers ==
    ASSUME NEW S \in SUBSET Workers
    PROVE  /\ Cardinality(S) \in Nat /\ Cardinality(Workers) \in Nat
           /\ Cardinality(S) <= Cardinality(Workers)
           /\ \A w \in Workers \ S : Cardinality(S \union {w}) = Cardinality(S) + 1
           /\ \A w \in S : /\ Cardinality(S \ {w}) = Cardinality(S) - 1
                           /\ Cardinality(S) >= 1
<1>1. IsFiniteSet(Workers)
  BY LiveAssumption
<1>2. IsFiniteSet(S) /\ Cardinality(S) <= Cardinality(Workers)
  BY <1>1, FS_Subset
<1>3. Cardinality(S) \in Nat /\ Cardinality(Workers) \in Nat
  BY <1>1, <1>2, FS_CardinalityType
<1>4. \A w \in Workers \ S : Cardinality(S \union {w}) = Cardinality(S) + 1
  BY <1>2, FS_AddElement
<1>5. ASSUME NEW w \in S
      PROVE  Cardinality(S \ {w}) = Cardinality(S) - 1 /\ Cardinality(S) >= 1
  <2>1. IsFiniteSet(S \ {w})
    BY <1>2, FS_Subset
  <2>2. Cardinality(S \ {w}) \in Nat /\ Cardinality((S \ {w}) \union {w}) = Cardinality(S \ {w}) + 1
    BY <2>1, FS_AddElement, FS_CardinalityType
  <2>3. (S \ {w}) \union {w} = S
    OBVIOUS
  <2>4. PICK k, l : k = Cardinality(S) /\ l = Cardinality(S \ {w})
    OBVIOUS
  <2>5. k = l + 1 /\ l \in Nat
    BY <2>2, <2>3, <2>4
  <2>6. l = k - 1 /\ k >= 1
    BY <2>5
  <2> QED
    BY <2>4, <2>6
<1> QED
  BY <1>2, <1>3, <1>4, <1>5

\* Room for one more item if one more thread is about to evict,
LEMMA FitsConstruct ==
    ASSUME NEW n \in Nat, NEW m \in Nat, NEW E \in SUBSET Workers, NEW P \in SUBSET Workers,
           NEW w \in Workers \ E, Fits(n, E, P), n <= m, m <= n + 1
    PROVE  Fits(m, E \union {w}, P)
<1>1. PICK a, b, c : a = Cardinality(E) /\ b = Cardinality(P) /\ c = Cardinality(Workers)
  OBVIOUS
<1>2. a \in Nat /\ b \in Nat /\ c \in Nat /\ Cardinality(E \union {w}) = a + 1
  BY <1>1, SomeWorkers
<1>3. m <= MaxSessions + (a + 1)
  BY <1>1, <1>2, LiveAssumption DEF Fits
<1>4. P # {} => m + c >= MaxSessions + 1 + b
  BY <1>1, <1>2, LiveAssumption, SMTT(20) DEF Fits
<1> QED
  BY <1>1, <1>2, <1>3, <1>4 DEF Fits

\* for one less when one has evicted,
LEMMA FitsPop ==
    ASSUME NEW n \in Nat, NEW E \in SUBSET Workers, NEW P \in SUBSET Workers,
           NEW w \in P, Fits(n, E, P)
    PROVE  n >= 1 /\ Fits(n - 1, E, P \ {w})
<1>1. PICK a, b, c : a = Cardinality(E) /\ b = Cardinality(P) /\ c = Cardinality(Workers)
  OBVIOUS
<1>2. a \in Nat /\ b \in Nat /\ c \in Nat /\ Cardinality(P \ {w}) = b - 1 /\ b >= 1
  BY <1>1, SomeWorkers
<1>3. c <= MaxSessions /\ MaxSessions \in Nat
  BY <1>1, LiveAssumption
<1>4. n + c >= MaxSessions + 1 + b /\ n <= MaxSessions + a
  BY <1>1 DEF Fits
<1>5. n >= 1 /\ n - 1 <= MaxSessions + a /\ n - 1 + c >= MaxSessions + 1 + (b - 1)
  BY <1>2, <1>3, <1>4
<1> QED
  BY <1>1, <1>2, <1>5 DEF Fits

\* for a thread that found the dictionary full,
LEMMA FitsFull ==
    ASSUME NEW n \in Nat, NEW E \in SUBSET Workers, NEW P \in SUBSET Workers,
           NEW w \in Workers \ P, Fits(n, E, P), n > MaxSessions
    PROVE  Fits(n, E, P \union {w})
<1>1. PICK b, c, d : b = Cardinality(P) /\ c = Cardinality(Workers) /\ d = Cardinality(P \union {w})
  OBVIOUS
<1>2. b \in Nat /\ c \in Nat /\ d = b + 1 /\ d <= c
  BY <1>1, SomeWorkers
<1>3. n + c >= MaxSessions + 1 + d
  BY <1>2, LiveAssumption
<1> QED
  BY <1>1, <1>3 DEF Fits

\* and for any threads if it was not full.
LEMMA FitsNotFull ==
    ASSUME NEW n \in Nat, NEW E \in SUBSET Workers, NEW P, NEW F \in SUBSET Workers,
           Fits(n, E, P), n <= MaxSessions
    PROVE  Fits(n, F, P)
<1>1. PICK a : a = Cardinality(F) /\ a \in Nat
  BY SomeWorkers
<1>2. n <= MaxSessions + a
  BY <1>1, LiveAssumption
<1> QED
  BY <1>1, <1>2 DEF Fits

\* A thread that pops finds an item.
LEMMA RoomToPop ==
    ASSUME NEW w \in Workers, Kinds, Process, Using, Room, pc[w] = "pop"
    PROVE  at[w] \in DOMAIN bySession /\ bySession[at[w]] # <<>>
<1>1. at[w] \in DOMAIN bySession
  BY DEF Using, HasPipeline
<1>2. PICK p, d : p = at[w] /\ d = bySession[p]
  OBVIOUS
<1>3. d \in Seq(Entries)
  BY <1>1, <1>2, LenProperties DEF Process
<1>4. PICK n : n = Len(d) /\ n \in Nat
  BY <1>3, LenProperties
<1>5. /\ w \in Popping(p) /\ Fits(n, Evicting(p), Popping(p))
      /\ Evicting(p) \in SUBSET Workers /\ Popping(p) \in SUBSET Workers
  BY <1>1, <1>2, <1>4 DEF Room, Popping, Evicting
<1>6. n >= 1
  BY <1>4, <1>5, FitsPop
<1> QED
  BY <1>1, <1>2, <1>4, <1>6

\* The bound is about dictionaries and the threads that evict from them, nothing else.
LEMMA RoomKept ==
    ASSUME Kinds, Process, Using, Room, bySession' = bySession,
           \A p : Evicting(p)' = Evicting(p) /\ Popping(p)' = Popping(p)
    PROVE  Room'
BY DEF Room

\* A dictionary is a sequence of entries, and those who evict from it are workers.
LEMMA DictSize ==
    ASSUME Process, NEW p \in DOMAIN bySession
    PROVE  /\ bySession[p] \in Seq(Entries) /\ Len(bySession[p]) \in Nat
           /\ Evicting(p) \in SUBSET Workers /\ Popping(p) \in SUBSET Workers
BY LenProperties DEF Process, Evicting, Popping

\* A thread goes to pop only when it found the dictionary too large.
LEMMA MovesRoom ==
    ASSUME NEW w \in Workers, Kinds, Process, Using, Room, Moves(w)
    PROVE  Room'
<1>1. PICK place \in Labels :
        /\ pc' = [pc EXCEPT ![w] = place] /\ Leads(pc[w], place)
        /\ place = "pop" => TooMany(w)
        /\ pc[w] = "evict" /\ place = "resolve" => ~TooMany(w)
        /\ \/ at' = at /\ place # "find"
           \/ at' = [at EXCEPT ![w] = prod] /\ prod # 0 /\ place = "find"
  BY DEF Moves
<1>2. bySession' = bySession
  BY DEF Moves, shared
<1>3. SUFFICES ASSUME NEW p \in DOMAIN bySession
               PROVE  Fits(Len(bySession[p]), Evicting(p)', Popping(p)')
  BY <1>2 DEF Room
<1>4. PICK n, E, P : n = Len(bySession[p]) /\ E = Evicting(p) /\ P = Popping(p)
  OBVIOUS
<1>5. n \in Nat /\ E \in SUBSET Workers /\ P \in SUBSET Workers /\ Fits(n, E, P)
  BY <1>4, DictSize DEF Room
<1>6. CASE place = "pop" /\ at[w] = p
  <2>1. n > MaxSessions
    BY <1>1, <1>4, <1>5, <1>6, LiveAssumption DEF TooMany
  <2>2. Evicting(p)' = E /\ Popping(p)' = P \union {w} /\ w \notin P
    BY <1>1, <1>4, <1>6 DEF Evicting, Popping, Leads, Kinds
  <2> QED
    BY <1>4, <1>5, <2>1, <2>2, FitsFull
<1>7. CASE pc[w] = "evict" /\ place = "resolve" /\ at[w] = p
  <2>1. n <= MaxSessions
    BY <1>1, <1>4, <1>5, <1>7, LiveAssumption DEF TooMany
  <2>2. Evicting(p)' \in SUBSET Workers /\ Popping(p)' = P
    BY <1>1, <1>4, <1>7 DEF Evicting, Popping, Kinds
  <2> QED
    BY <1>4, <1>5, <2>1, <2>2, FitsNotFull
<1>8. CASE at[w] # p \/ pc[w] # "evict"
  <2>1. Evicting(p)' = E /\ Popping(p)' = P
    BY <1>1, <1>4, <1>8 DEF Evicting, Popping, Leads, Kinds
  <2> QED
    BY <1>4, <1>5, <2>1
<1> QED
  BY <1>1, <1>6, <1>7, <1>8 DEF Leads

\* The threads that neither begin nor end an eviction.
LEMMA ElsewhereRoom ==
    ASSUME NEW w \in Workers, Kinds,
           \A v \in Workers \ {w} : pc'[v] = pc[v] /\ at'[v] = at[v],
           pc[w] \notin {"evict", "pop"}, pc'[w] \notin {"evict", "pop"}
    PROVE  \A p : Evicting(p)' = Evicting(p) /\ Popping(p)' = Popping(p)
BY DEF Evicting, Popping

\* A dictionary that is made is within its bound,
LEMMA MakeRoom ==
    ASSUME NEW w \in Workers, Kinds, Process, Using, Room, Make(w)
    PROVE  Room'
<1>1. \A p : Evicting(p)' = Evicting(p) /\ Popping(p)' = Popping(p)
  BY ElsewhereRoom DEF Make, At, Goto, Kinds
<1>2. bySession \in Seq(Seq(Entries)) /\ <<>> \in Seq(Entries) /\ Len(<<>>) = 0
  BY EmptySeq DEF Process
<1>3. PICK n : n = Len(bySession) + 1
  OBVIOUS
<1>4. /\ DOMAIN bySession' = DOMAIN bySession \union {n} /\ n \notin DOMAIN bySession
      /\ \A p \in DOMAIN bySession : bySession'[p] = bySession[p]
      /\ bySession'[n] = <<>>
  BY <1>2, <1>3, InSeqAppend DEF Make
<1>5. Evicting(n) \in SUBSET Workers /\ Popping(n) = {}
  BY <1>4 DEF Evicting, Popping, Using, HasPipeline
<1>6. PICK a : a = Cardinality(Evicting(n)) /\ a \in Nat
  BY <1>5, SomeWorkers
<1>7. Fits(0, Evicting(n), Popping(n))
  BY <1>5, <1>6, LiveAssumption DEF Fits
<1>8. \A p \in DOMAIN bySession : Fits(Len(bySession'[p]), Evicting(p)', Popping(p)')
  BY <1>1, <1>4 DEF Room
<1> QED
  BY <1>1, <1>2, <1>4, <1>7, <1>8 DEF Room

\* one that grows has another thread about to evict,
LEMMA ConstructRoom ==
    ASSUME NEW w \in Workers, Kinds, Process, Using, Room, Construct(w)
    PROVE  Room'
<1>1. /\ DOMAIN bySession' = DOMAIN bySession /\ Process'
      /\ \A p \in DOMAIN bySession \ {at[w]} : bySession'[p] = bySession[p]
      /\ Len(bySession[at[w]]) <= Len(bySession'[at[w]])
      /\ Len(bySession'[at[w]]) <= Len(bySession[at[w]]) + 1
  BY ConstructTyped
<1>2. pc[w] = "construct" /\ pc' = [pc EXCEPT ![w] = "evict"] /\ at' = at
  BY DEF Construct, At, Goto
<1>3. SUFFICES ASSUME NEW p \in DOMAIN bySession
               PROVE  Fits(Len(bySession'[p]), Evicting(p)', Popping(p)')
  BY <1>1 DEF Room
<1>4. PICK n, m, E, P : /\ n = Len(bySession[p]) /\ m = Len(bySession'[p])
                        /\ E = Evicting(p) /\ P = Popping(p)
  OBVIOUS
<1>5. n \in Nat /\ E \in SUBSET Workers /\ P \in SUBSET Workers /\ Fits(n, E, P)
  BY <1>4, DictSize DEF Room
<1>6. m \in Nat
  BY <1>1, <1>4, LenProperties DEF Process
<1>7. CASE at[w] = p
  <2>1. Evicting(p)' = E \union {w} /\ Popping(p)' = P /\ w \notin E
    BY <1>2, <1>4, <1>7 DEF Evicting, Popping, Kinds
  <2>2. n <= m /\ m <= n + 1
    BY <1>1, <1>4, <1>7
  <2> QED
    BY <1>4, <1>5, <1>6, <2>1, <2>2, FitsConstruct
<1>8. CASE at[w] # p
  <2>1. Evicting(p)' = E /\ Popping(p)' = P /\ m = n
    BY <1>1, <1>2, <1>4, <1>8 DEF Evicting, Popping, Kinds
  <2> QED
    BY <1>4, <1>5, <2>1
<1> QED
  BY <1>7, <1>8

\* one that shrinks has one less,
LEMMA PopRoom ==
    ASSUME NEW w \in Workers, Kinds, Process, Using, Room, Pop(w)
    PROVE  Room'
<1>1. /\ pc[w] = "pop" /\ pc' = [pc EXCEPT ![w] = "evict"] /\ at' = at
  BY DEF Pop, At, Goto, threads
<1>2. /\ DOMAIN bySession' = DOMAIN bySession
      /\ \A p \in DOMAIN bySession \ {at[w]} : bySession'[p] = bySession[p]
      /\ Len(bySession'[at[w]]) = Len(bySession[at[w]]) - 1
  BY <1>1, RoomToPop, PopTyped
<1>3. SUFFICES ASSUME NEW p \in DOMAIN bySession
               PROVE  Fits(Len(bySession'[p]), Evicting(p)', Popping(p)')
  BY <1>2 DEF Room
<1>4. PICK n, E, P : n = Len(bySession[p]) /\ E = Evicting(p) /\ P = Popping(p)
  OBVIOUS
<1>5. n \in Nat /\ E \in SUBSET Workers /\ P \in SUBSET Workers /\ Fits(n, E, P)
  BY <1>4, DictSize DEF Room
<1>6. CASE at[w] = p
  <2>1. Evicting(p)' = E /\ Popping(p)' = P \ {w} /\ w \in P
    BY <1>1, <1>4, <1>6 DEF Evicting, Popping, Kinds
  <2>2. Len(bySession'[p]) = n - 1
    BY <1>2, <1>4, <1>6
  <2> QED
    BY <1>5, <2>1, <2>2, FitsPop
<1>7. CASE at[w] # p
  <2>1. Evicting(p)' = E /\ Popping(p)' = P /\ Len(bySession'[p]) = n
    BY <1>1, <1>2, <1>4, <1>7 DEF Evicting, Popping, Kinds
  <2> QED
    BY <1>4, <1>5, <2>1
<1> QED
  BY <1>6, <1>7

Typed == Kinds /\ Process /\ Using /\ Ready /\ Room

\* and at first there is none.
LEMMA InitTypedRoom == Init => Typed
<1>1. ASSUME Init PROVE Room /\ Ready
  BY <1>1 DEF Init, Room, Ready, At
<1> QED
  BY <1>1, InitTyped DEF Typed

\* Steps elsewhere leave the dictionaries and those who evict alone.
LEMMA OtherRoom ==
    ASSUME NEW w \in Workers, Typed,
           \/ Decides(w) \/ AppendTurn(w) \/ Slice(w) \/ Store(w) \/ Prepares(w)
           \/ OfflineAnswer(w) \/ \E s \in Sessions : \E q \in setting.asks[s] : Ask(w, s, q)
    PROVE  Room'
<1>1. bySession' = bySession
  BY DEF Decides, AppendTurn, Slice, Store, Prepares, OfflineAnswer, Ask, shared
<1>2. /\ \A v \in Workers \ {w} : pc'[v] = pc[v] /\ at'[v] = at[v]
      /\ pc[w] \notin {"evict", "pop"} /\ pc'[w] \notin {"evict", "pop"}
  <2> USE DEF At, Goto, Typed, Kinds
  <2>1. CASE Decides(w) \/ AppendTurn(w) \/ Slice(w) \/ Prepares(w)
    BY <2>1 DEF Decides, Drafts, AppendTurn, Slice, Prepares, OfflinePlaces
  <2>2. CASE Store(w)
    BY <2>2 DEF Store, Answer
  <2>3. CASE OfflineAnswer(w)
    BY <2>3 DEF OfflineAnswer, Answer
  <2>4. CASE \E s \in Sessions : \E q \in setting.asks[s] : Ask(w, s, q)
    BY <2>4 DEF Ask
  <2> QED
    BY <2>1, <2>2, <2>3, <2>4
<1> QED
  BY <1>1, <1>2, ElsewhereRoom, RoomKept DEF Typed

\* move_to_end changes no size.
LEMMA TouchRoom ==
    ASSUME NEW w \in Workers, Kinds, Process, Using, Room, Touch(w)
    PROVE  Room'
<1>1. \A p : Evicting(p)' = Evicting(p) /\ Popping(p)' = Popping(p)
  BY ElsewhereRoom DEF Touch, At, Goto, Kinds
<1>2. /\ DOMAIN bySession' = DOMAIN bySession
      /\ \A p \in DOMAIN bySession : Len(bySession'[p]) = Len(bySession[p])
  BY TouchTyped
<1> QED
  BY <1>1, <1>2 DEF Room

\* What is about to be recorded is left alone by whoever does not record.
LEMMA ReadyKept ==
    ASSUME NEW w \in Workers, Typed,
           \/ Moves(w) \/ Decides(w) \/ Make(w) \/ Touch(w) \/ Construct(w) \/ Pop(w)
           \/ AppendTurn(w) \/ Slice(w) \/ Store(w) \/ OfflineAnswer(w)
           \/ \E s \in Sessions : \E q \in setting.asks[s] : Ask(w, s, q)
    PROVE  Ready'
<1> USE DEF At, Goto, Typed, Kinds
<1>1. history' = history
  BY DEF Moves, Decides, Make, Touch, Construct, Pop, AppendTurn, Slice, Store, OfflineAnswer,
         Ask, shared
<1>2. pc'[w] # "offline_record" /\ \A v \in Workers \ {w} : pc'[v] = pc[v] /\ draft'[v] = draft[v]
  <2>1. CASE Moves(w)
    BY <2>1 DEF Moves, Leads
  <2>2. CASE Decides(w) \/ Make(w) \/ Touch(w) \/ Construct(w) \/ Pop(w)
    BY <2>2 DEF Decides, Drafts, Make, Touch, Construct, Pop
  <2>3. CASE AppendTurn(w) \/ Slice(w)
    BY <2>3 DEF AppendTurn, Slice
  <2>4. CASE Store(w) \/ OfflineAnswer(w)
    BY <2>4 DEF Store, OfflineAnswer, Answer
  <2>5. CASE \E s \in Sessions : \E q \in setting.asks[s] : Ask(w, s, q)
    BY <2>5 DEF Ask
  <2> QED
    BY <2>1, <2>2, <2>3, <2>4, <2>5
<1> QED
  BY <1>1, <1>2 DEF Ready

\* The steps above together,
LEMMA StepTyped ==
    ASSUME NEW w \in Workers, Typed, Step(w)
    PROVE  Typed'
<1> USE DEF Typed
<1>1. CASE Moves(w)
  BY <1>1, MovesTyped, MovesRoom, ReadyKept
<1>2. CASE Decides(w)
  BY <1>2, DecidesTyped, OtherRoom, ReadyKept
<1>3. CASE Make(w)
  BY <1>3, MakeTyped, MakeRoom, ReadyKept
<1>4. CASE Touch(w)
  BY <1>4, TouchTyped, TouchRoom, ReadyKept
<1>5. CASE Construct(w)
  BY <1>5, ConstructTyped, ConstructRoom, ReadyKept
<1>6. CASE Pop(w)
  <2>1. pc[w] = "pop"
    BY <1>6 DEF Pop, At
  <2> QED
    BY <1>6, <2>1, PopTyped, PopRoom, RoomToPop, ReadyKept
<1>7. CASE AppendTurn(w)
  BY <1>7, AppendTurnTyped, OtherRoom, ReadyKept
<1>8. CASE Slice(w)
  BY <1>8, DecidesTyped, OtherRoom, ReadyKept
<1>9. CASE Store(w)
  BY <1>9, StoreTyped, OtherRoom, ReadyKept
<1>10. CASE Prepares(w)
  BY <1>10, PreparesTyped, OtherRoom
<1>11. CASE OfflineAnswer(w)
  BY <1>11, OfflineAnswerTyped, OtherRoom, ReadyKept
<1> QED
  BY <1>1, <1>2, <1>3, <1>4, <1>5, <1>6, <1>7, <1>8, <1>9, <1>10, <1>11, StepsOf DEF Typed

\* and with the requests that come.
LEMMA NextTyped == Typed /\ [Next]_vars => Typed'
<1> SUFFICES ASSUME Typed, [Next]_vars PROVE Typed'
  OBVIOUS
<1>1. ASSUME NEW w \in Workers, NEW s \in Sessions, NEW q \in setting.asks[s], Ask(w, s, q)
      PROVE  Typed'
  BY <1>1, AskTyped, OtherRoom, ReadyKept DEF Typed
<1>2. CASE UNCHANGED vars
  BY <1>2 DEF vars, shared, threads, traces, Typed, Kinds, Process, Using, Ready, At, Room, Entries, Serving,
              HasPipeline, HasOrchestrator, Session, Evicting, Popping
<1> QED
  BY <1>1, <1>2, StepTyped DEF Next

-----------------------------------------------------------------------------
(* What a session was given only grows.                                     *)

\* The two parts of it: the turns of the answers shown, and those under way.
ShownTurns(s) == {shown[s][i].turn : i \in {j \in DOMAIN shown[s] : shown[s][j].live}}
Underway(s) == {Drafted(w) : w \in {v \in Workers : Recording(v) /\ Session(v) = s}}

\* What a session was given: turns shown, and turns about to be shown.
LEMMA TwoParts ==
    \A s : /\ Given(s) = ShownTurns(s) \union Underway(s)
           /\ Given(s)' = ShownTurns(s)' \union Underway(s)'
BY DEF Given, ShownTurns, Underway

\* The turns under way of the other threads are what they were.
Others(w) ==
    \A v \in Workers \ {w} :
        pc'[v] = pc[v] /\ request'[v] = request[v] /\ draft'[v] = draft[v]

\* What a thread does changes no other thread's draft.
LEMMA OthersUnderway ==
    ASSUME NEW w \in Workers, Others(w)
    PROVE  \A v \in Workers \ {w} :
             Recording(v)' = Recording(v) /\ Session(v)' = Session(v) /\ Drafted(v)' = Drafted(v)
BY DEF Recording, Session, Drafted, At, Others

\* A thread that is not recording leaves what was given as it is.
LEMMA GivenSteady ==
    ASSUME NEW w \in Workers, Others(w), shown' = shown,
           ~Recording(w), ~Recording(w)'
    PROVE  \A s : Given(s)' = Given(s)
<1>1. ASSUME NEW s, NEW turn
      PROVE  turn \in Underway(s)' <=> turn \in Underway(s)
  BY OthersUnderway DEF Underway
<1>2. \A s : Underway(s)' = Underway(s) /\ ShownTurns(s)' = ShownTurns(s)
  BY <1>1 DEF ShownTurns
<1> QED
  BY <1>2, TwoParts

\* A thread goes on recording the same turn.
LEMMA GivenRecording ==
    ASSUME NEW w \in Workers, Others(w), shown' = shown,
           Recording(w), Recording(w)', Session(w)' = Session(w), Drafted(w)' = Drafted(w)
    PROVE  \A s : Given(s)' = Given(s)
<1>1. ASSUME NEW s, NEW turn
      PROVE  turn \in Underway(s)' <=> turn \in Underway(s)
  BY OthersUnderway DEF Underway
<1>2. \A s : Underway(s)' = Underway(s) /\ ShownTurns(s)' = ShownTurns(s)
  BY <1>1 DEF ShownTurns
<1> QED
  BY <1>2, TwoParts

\* A thread that decides on a turn adds it to its session's.
LEMMA GivenDecided ==
    ASSUME NEW w \in Workers, Typed, Decides(w)
    PROVE  /\ \A s : Given(s) \subseteq Given(s)'
           /\ \A s : \A turn \in Given(s)' :
                turn \in Given(s) \/ (s = Session(w) /\ turn = draft'[w])
           /\ draft'[w] \in Given(Session(w))'
<1>1. /\ Others(w) /\ shown' = shown /\ ~Recording(w) /\ Recording(w)' /\ Session(w)' = Session(w)
      /\ Drafted(w)' = draft'[w]
  BY DEF Decides, Drafts, Goto, traces, Typed, Kinds, Others, Recording, Session, Drafted, At
<1>2. ASSUME NEW s, NEW turn
      PROVE  turn \in Underway(s)' <=>
               turn \in Underway(s) \/ (s = Session(w) /\ turn = draft'[w])
  BY <1>1, OthersUnderway DEF Underway
<1>3. \A s : ShownTurns(s)' = ShownTurns(s)
  BY <1>1 DEF ShownTurns
<1>4. \A s, turn : turn \in Given(s)' <=>
               turn \in Given(s) \/ (s = Session(w) /\ turn = draft'[w])
  BY <1>2, <1>3, TwoParts
<1>5. \A turn : turn \in Given(Session(w))' <=> turn \in Given(Session(w)) \/ turn = draft'[w]
  <2>1. PICK s : s = Session(w)
    OBVIOUS
  <2>2. Given(s)' = Given(Session(w))'
    BY <1>1, <2>1 DEF Given, Recording, Session, Drafted, At
  <2> QED
    BY <1>4, <2>1, <2>2
<1> QED
  BY <1>4, <1>5

\* An answer that is shown.
LEMMA ShownMore ==
    ASSUME NEW w \in Workers, NEW response, Typed, Answer(w, response), Serving(w)
    PROVE  /\ Others(w) /\ ~Recording(w)'
           /\ \A s : s # Session(w) => ShownTurns(s)' = ShownTurns(s)
           /\ \A s : s = Session(w) =>
                ShownTurns(s)' =
                  ShownTurns(s) \union (IF response.live THEN {response.turn} ELSE {})
<1>1. Session(w) \in Sessions
  BY DEF Typed, Kinds, Requested, Session
<1>2. /\ Others(w) /\ ~Recording(w)'
      /\ shown' = [shown EXCEPT ![Session(w)] = Append(shown[Session(w)], response)]
  BY DEF Answer, Goto, Typed, Kinds, Others, Recording
<1>3. \A s : s # Session(w) => ShownTurns(s)' = ShownTurns(s)
  BY <1>1, <1>2 DEF ShownTurns, Typed, Kinds
<1>4. ASSUME NEW s, s = Session(w)
      PROVE  ShownTurns(s)' = ShownTurns(s) \union (IF response.live THEN {response.turn} ELSE {})
  <2>1. PICK q, r : q = shown[s] /\ r = Append(q, response)
    OBVIOUS
  <2>2. PICK n : n = Len(q) + 1
    OBVIOUS
  <2>3. /\ DOMAIN r = DOMAIN q \union {n} /\ n \notin DOMAIN q
        /\ \A i \in DOMAIN q : r[i] = q[i]
        /\ r[n] = response
    BY <1>1, <1>4, <2>1, <2>2, Appended DEF Typed, Kinds
  <2>4. shown'[s] = r
    BY <1>1, <1>2, <1>4, <2>1 DEF Typed, Kinds
  <2>5. ShownTurns(s)' = {r[i].turn : i \in {j \in DOMAIN r : r[j].live}}
    BY <2>4 DEF ShownTurns
  <2>6. ShownTurns(s) = {q[i].turn : i \in {j \in DOMAIN q : q[j].live}}
    BY <2>1 DEF ShownTurns
  <2> QED
    BY <2>3, <2>5, <2>6
<1> QED
  BY <1>2, <1>3, <1>4

\* A turn that is stored was about to be shown and now is.
LEMMA GivenStored ==
    ASSUME NEW w \in Workers, Typed, Store(w)
    PROVE  \A s : Given(s)' = Given(s)
<1>1. /\ Recording(w) /\ Serving(w) /\ Drafted(w) = draft[w].turn
      /\ Answer(w, Normalised(draft[w].turn))
  BY DEF Store, At, Recording, Serving, Drafted
<1>2. PICK response : /\ response = Normalised(draft[w].turn)
                      /\ response.live = TRUE /\ response.turn = Drafted(w)
  BY <1>1 DEF Normalised
<1>3. /\ Others(w) /\ ~Recording(w)'
      /\ \A s : s # Session(w) => ShownTurns(s)' = ShownTurns(s)
      /\ \A s : s = Session(w) => ShownTurns(s)' = ShownTurns(s) \union {Drafted(w)}
  BY <1>1, <1>2, ShownMore
<1>4. ASSUME NEW s, NEW turn
      PROVE  turn \in Underway(s) <=>
               turn \in Underway(s)' \/ (s = Session(w) /\ turn = Drafted(w))
  BY <1>1, <1>3, OthersUnderway DEF Underway
<1>5. ASSUME NEW s, NEW turn PROVE turn \in Given(s)' <=> turn \in Given(s)
  BY <1>3, <1>4, TwoParts
<1> QED
  BY <1>5

\* An offline answer is no turn of an orchestrator.
LEMMA GivenOffline ==
    ASSUME NEW w \in Workers, Typed, OfflineAnswer(w)
    PROVE  \A s : Given(s)' = Given(s)
<1>1. PICK response : ~Recording(w) /\ Serving(w) /\ Answer(w, response) /\ response.live = FALSE
  BY DEF OfflineAnswer, At, Recording, Serving
<1>2. Others(w) /\ ~Recording(w)' /\ \A s : ShownTurns(s)' = ShownTurns(s)
  BY <1>1, ShownMore
<1>3. ASSUME NEW s, NEW turn
      PROVE  turn \in Underway(s)' <=> turn \in Underway(s)
  BY <1>1, <1>2, OthersUnderway DEF Underway
<1>4. ASSUME NEW s, NEW turn PROVE turn \in Given(s)' <=> turn \in Given(s)
  BY <1>2, <1>3, TwoParts
<1> QED
  BY <1>4

\* Every step keeps what was given; only a decision adds to it.
LEMMA GivenGrows ==
    ASSUME NEW w \in Workers, Typed,
           Step(w) \/ \E s \in Sessions : \E q \in setting.asks[s] : Ask(w, s, q)
    PROVE  /\ \A s : Given(s) \subseteq Given(s)'
           /\ \A s : \A turn \in Given(s)' :
                turn \in Given(s) \/ (Decides(w) /\ s = Session(w) /\ turn = draft'[w])
<1> SUFFICES ASSUME ~Decides(w)
             PROVE  \A s : Given(s)' = Given(s)
  BY GivenDecided
<1> USE DEF Typed, Kinds, At, Goto, Others, Recording
<1>1. CASE Moves(w)
  BY <1>1, GivenSteady DEF Moves, Leads, traces
<1>2. CASE Make(w) \/ Pop(w) \/ Prepares(w) \/ Touch(w) \/ Construct(w)
  BY <1>2, GivenSteady DEF Make, Pop, Prepares, OfflinePlaces, Touch, Construct, traces, threads
<1>3. CASE AppendTurn(w)
  BY <1>3, GivenRecording DEF AppendTurn, traces, Session, Drafted
<1>4. CASE Slice(w)
  <2>1. draft'[w].turn = draft[w]
    BY <1>4 DEF Slice
  <2> QED
    BY <1>4, <2>1, GivenRecording DEF Slice, traces, Session, Drafted
<1>5. CASE \E s \in Sessions : \E q \in setting.asks[s] : Ask(w, s, q)
  BY <1>5, GivenSteady DEF Ask
<1> QED
  BY <1>1, <1>2, <1>3, <1>4, <1>5, StepsOf, GivenStored, GivenOffline

-----------------------------------------------------------------------------
(* What an orchestrator remembers, and what a thread is about to store in   *)
(* it, are turns of the session it was made for.                            *)

Own ==
    /\ \A s \in Sessions : \A o \in DOMAIN memory : owner[o] = s => memory[o] \in Seq(Given(s))
    /\ \A s \in Sessions : \A w \in Workers : At(w, "store") /\ Session(w) = s =>
         draft[w].turns \in Seq(Given(s)) /\ Len(draft[w].turns) <= MaxRemembered

\* A sequence over fewer values is one over more.
LEMMA GivenSeq ==
    ASSUME NEW S, NEW T, S \subseteq T PROVE Seq(S) \subseteq Seq(T)
BY SeqMonotonic

\* Every orchestrator has an owner and a memory.
LEMMA MemoryDomain ==
    ASSUME Process
    PROVE  /\ DOMAIN memory = DOMAIN owner
           /\ \A o \in DOMAIN memory : owner[o] \in Sessions
BY SeqFacts, LenProperties DEF Process

\* A thread that records a turn uses its session's orchestrator.
LEMMA Recorder ==
    ASSUME NEW w \in Workers, Typed, pc[w] \in {"resolve", "append", "slice", "store"}
    PROVE  /\ orch[w] \in DOMAIN memory /\ owner[orch[w]] = Session(w) /\ Session(w) \in Sessions
           /\ Recording(w) => Drafted(w) \in Given(Session(w))
BY MemoryDomain
   DEF Typed, Using, HasOrchestrator, Kinds, Serving, Requested, Session, Given, Recording

\* Memories stay a session's own while what it was given only grows.
LEMMA OwnKept ==
    ASSUME NEW w \in Workers, Typed, Own, memory' = memory, owner' = owner,
           \A s : Given(s) \subseteq Given(s)',
           Others(w), pc'[w] # "store"
    PROVE  Own'
<1>1. \A s : Seq(Given(s)) \subseteq Seq(Given(s)')
  BY GivenSeq
<1>2. \A s \in Sessions : \A o \in DOMAIN memory' :
        owner'[o] = s => memory'[o] \in Seq(Given(s)')
  BY <1>1 DEF Own
<1>3. ASSUME NEW s \in Sessions, NEW v \in Workers, (At(v, "store") /\ Session(v) = s)'
      PROVE  draft'[v].turns \in Seq(Given(s)') /\ Len(draft'[v].turns) <= MaxRemembered
  <2>1. v # w
    BY <1>3 DEF At
  <2>2. At(v, "store") /\ Session(v) = s /\ draft'[v] = draft[v]
    BY <1>3, <2>1 DEF At, Session, Others
  <2> QED
    BY <1>1, <2>2 DEF Own
<1> QED
  BY <1>2, <1>3 DEF Own

\* append, slice and store put turns of the thread's session in its orchestrator's memory.
LEMMA StepOwn ==
    ASSUME NEW w \in Workers, Typed, Own, Step(w)
    PROVE  Own'
<1>1. \A s : Given(s) \subseteq Given(s)' /\ Seq(Given(s)) \subseteq Seq(Given(s)')
  BY GivenGrows, GivenSeq
<1>2. CASE Moves(w) \/ Decides(w) \/ Make(w) \/ Touch(w) \/ Pop(w) \/ Prepares(w)
  <2>1. memory' = memory /\ owner' = owner /\ Others(w) /\ pc'[w] # "store"
    BY <1>2
       DEF Moves, Leads, Decides, Drafts, Make, Touch, Pop, Prepares, OfflinePlaces, shared, traces, threads,
           Others, At, Goto, Typed, Kinds
  <2> QED
    BY <1>1, <2>1, OwnKept
<1>3. CASE OfflineAnswer(w)
  <2>1. memory' = memory /\ owner' = owner /\ Others(w) /\ pc'[w] # "store"
    BY <1>3 DEF OfflineAnswer, shared, Answer, Others, At, Goto, Typed, Kinds
  <2> QED
    BY <1>1, <2>1, OwnKept
<1>4. ASSUME Others(w), NEW s \in Sessions, NEW v \in Workers \ {w},
             (At(v, "store") /\ Session(v) = s)'
      PROVE  draft'[v].turns \in Seq(Given(s)') /\ Len(draft'[v].turns) <= MaxRemembered
  BY <1>1, <1>4 DEF Own, At, Session, Others
<1>5. CASE Construct(w)
  <2>1. Others(w) /\ pc'[w] # "store"
    BY <1>5 DEF Construct, Others, At, Goto, Typed, Kinds
  <2>2. PICK n : n = Len(memory) + 1
    OBVIOUS
  <2>3. memory' = Append(memory, <<>>)
    BY <1>5 DEF Construct
  <2>4. /\ DOMAIN memory' = DOMAIN memory \union {n} /\ n \notin DOMAIN memory
        /\ \A o \in DOMAIN memory : memory'[o] = memory[o]
        /\ memory'[n] = <<>>
    <3>1. IsSeq(memory)
      BY SeqOfSeq DEF Typed, Process
    <3> QED
      BY <2>2, <2>3, <3>1, Appended
  <2>5. \A o \in DOMAIN memory : owner'[o] = owner[o]
    BY <1>5, ConstructTyped, MemoryDomain DEF Typed
  <2>6. \A s : <<>> \in Seq(Given(s)')
    BY EmptySeq
  <2>7. \A s \in Sessions : \A o \in DOMAIN memory' :
          owner'[o] = s => memory'[o] \in Seq(Given(s)')
    BY <1>1, <2>4, <2>5, <2>6 DEF Own
  <2>8. ASSUME NEW s \in Sessions, NEW v \in Workers, (At(v, "store") /\ Session(v) = s)'
        PROVE  draft'[v].turns \in Seq(Given(s)') /\ Len(draft'[v].turns) <= MaxRemembered
    BY <1>4, <2>1, <2>8 DEF At
  <2> QED
    BY <2>7, <2>8 DEF Own
<1>6. CASE AppendTurn(w)
  <2>1. Others(w) /\ pc'[w] # "store" /\ owner' = owner
    BY <1>6 DEF AppendTurn, Others, At, Goto, Typed, Kinds, traces
  <2>2. pc[w] = "append" /\ draft[w] = Drafted(w)
    BY <1>6 DEF AppendTurn, At, Drafted
  <2>3. PICK o \in DOMAIN memory, s \in Sessions :
          o = orch[w] /\ s = Session(w) /\ owner[o] = s /\ draft[w] \in Given(s)
    BY <2>2, Recorder DEF Recording
  <2>4. PICK q : q = Append(memory[o], draft[w]) /\ q \in Seq(Given(s))
    <3>1. memory[o] \in Seq(Given(s))
      BY <2>3 DEF Own
    <3> QED
      BY <2>3, <3>1, AppendProperties
  <2>5. memory' = [memory EXCEPT ![o] = q]
    BY <1>6, <2>3, <2>4 DEF AppendTurn
  <2>6. \A t \in Sessions : \A k \in DOMAIN memory' :
          owner'[k] = t => memory'[k] \in Seq(Given(t)')
    BY <1>1, <2>1, <2>3, <2>4, <2>5 DEF Own
  <2>7. ASSUME NEW t \in Sessions, NEW v \in Workers, (At(v, "store") /\ Session(v) = t)'
        PROVE  draft'[v].turns \in Seq(Given(t)') /\ Len(draft'[v].turns) <= MaxRemembered
    BY <1>4, <2>1, <2>7 DEF At
  <2> QED
    BY <2>6, <2>7 DEF Own
<1>7. CASE Slice(w)
  <2>1. /\ Others(w) /\ owner' = owner /\ memory' = memory
        /\ Session(w)' = Session(w) /\ pc[w] = "slice"
    BY <1>7 DEF Slice, Others, At, Goto, Typed, Kinds, traces, shared, Session
  <2>2. PICK s \in Sessions : s = Session(w) /\ memory[orch[w]] \in Seq(Given(s))
    BY <2>1, Recorder DEF Own
  <2>3. PICK q : /\ q = Remembered(memory[orch[w]]) /\ q \in Seq(Given(s))
                 /\ Len(q) <= MaxRemembered
    BY <2>2, RememberedTurns
  <2>4. draft'[w].turns = q
    BY <1>7, <2>3 DEF Slice, Turns, Typed, Kinds
  <2>5. \A t \in Sessions : \A k \in DOMAIN memory' :
          owner'[k] = t => memory'[k] \in Seq(Given(t)')
    BY <1>1, <2>1 DEF Own
  <2>6. ASSUME NEW t \in Sessions, NEW v \in Workers, (At(v, "store") /\ Session(v) = t)'
        PROVE  draft'[v].turns \in Seq(Given(t)') /\ Len(draft'[v].turns) <= MaxRemembered
    <3>1. CASE v = w
      BY <1>1, <2>1, <2>2, <2>3, <2>4, <2>6, <3>1
    <3>2. CASE v # w
      BY <1>4, <2>1, <2>6, <3>2
    <3> QED
      BY <3>1, <3>2
  <2> QED
    BY <2>5, <2>6 DEF Own
<1>8. CASE Store(w)
  <2>1. Others(w) /\ owner' = owner /\ pc'[w] # "store" /\ At(w, "store")
    BY <1>8 DEF Store, Answer, Others, At, Goto, Typed, Kinds
  <2>2. PICK o \in DOMAIN memory, s \in Sessions :
          o = orch[w] /\ s = Session(w) /\ owner[o] = s
    BY <2>1, Recorder DEF At
  <2>3. PICK q : q = draft[w].turns /\ q \in Seq(Given(s))
    BY <2>1, <2>2 DEF Own
  <2>4. memory' = [memory EXCEPT ![o] = q]
    BY <1>8, <2>2, <2>3 DEF Store
  <2>5. \A t \in Sessions : \A k \in DOMAIN memory' :
          owner'[k] = t => memory'[k] \in Seq(Given(t)')
    BY <1>1, <2>1, <2>2, <2>3, <2>4 DEF Own
  <2>6. ASSUME NEW t \in Sessions, NEW v \in Workers, (At(v, "store") /\ Session(v) = t)'
        PROVE  draft'[v].turns \in Seq(Given(t)') /\ Len(draft'[v].turns) <= MaxRemembered
    BY <1>4, <2>1, <2>6 DEF At
  <2> QED
    BY <2>5, <2>6 DEF Own
<1> QED
  BY <1>2, <1>3, <1>5, <1>6, <1>7, <1>8, StepsOf DEF Typed

LiveInv == Typed /\ Own

\* LiveInv holds at first,
LEMMA InitLive == Init => LiveInv
<1> SUFFICES ASSUME Init PROVE Own
  BY InitTypedRoom DEF LiveInv
<1>1. memory = <<>> /\ \A w \in Workers : ~At(w, "store")
  BY DEF Init, At
<1> QED
  BY <1>1 DEF Own

\* and after every step.
LEMMA NextLive == LiveInv /\ [Next]_vars => LiveInv'
<1> SUFFICES ASSUME Typed, Own, [Next]_vars PROVE Own'
  BY NextTyped DEF LiveInv
<1>1. ASSUME NEW w \in Workers, NEW s \in Sessions, NEW q \in setting.asks[s], Ask(w, s, q)
      PROVE  Own'
  <2>1. memory' = memory /\ owner' = owner /\ Others(w) /\ pc'[w] # "store"
    BY <1>1 DEF Ask, shared, Others, At, Goto, Typed, Kinds
  <2>2. \A t : Given(t) \subseteq Given(t)'
    BY <1>1, GivenGrows
  <2> QED
    BY <2>1, <2>2, OwnKept
<1>2. CASE UNCHANGED vars
  <2>1. \A s : Given(s)' = Given(s)
    BY <1>2 DEF vars, shared, threads, traces, Given, Recording, Drafted, Session, At
  <2> QED
    BY <1>2, <2>1 DEF vars, shared, threads, traces, Own, At, Session
<1> QED
  BY <1>1, <1>2, StepOwn DEF Next

\* Threads use only what exists, dictionaries are within their bounds, and what an
\* orchestrator remembers was given to its session: production_pipeline.py and memory.py.
THEOREM LiveInvariant == Spec => []LiveInv
BY InitLive, NextLive, PTL DEF Spec

\* production_pipeline.py:98 "bound memory": whatever the requests, their threads and the
\* pipelines built do, no more sessions than the limit are kept in a dictionary, but for one
\* for each thread that is about to evict.
THEOREM MemoryBounded == Spec => []SessionsBounded
<1>1. LiveInv => SessionsBounded
  BY DEF LiveInv, Typed, Room, Fits, Evicting, SessionsBounded
<1> QED
  BY <1>1, LiveInvariant, PTL

\* production_pipeline.py:100: popitem is called on a dictionary that has an item, although
\* other threads may have popped since its length was looked at.
THEOREM PopFindsSession ==
    Spec => [](\A w \in Workers : pc[w] = "pop" => bySession[at[w]] # <<>>)
<1>1. LiveInv => \A w \in Workers : pc[w] = "pop" => bySession[at[w]] # <<>>
  BY RoomToPop DEF LiveInv, Typed
<1> QED
  BY <1>1, LiveInvariant, PTL

\* An orchestrator remembers only turns that its own session was shown, or is about to be:
\* neither another session's, nor any that raised and was answered offline.
THEOREM NothingForeignRemembered == Spec => []RememberedWasShown
<1>1. ASSUME LiveInv, NEW o \in DOMAIN memory
      PROVE  ToSet(memory[o]) \subseteq Given(owner[o])
  <2>1. memory[o] \in Seq(Given(owner[o]))
    BY <1>1, MemoryDomain DEF LiveInv, Own, Typed
  <2> QED
    BY <2>1, SeqOfSeq
<1>2. LiveInv => RememberedWasShown
  BY <1>1 DEF RememberedWasShown
<1> QED
  BY <1>2, LiveInvariant, PTL

-----------------------------------------------------------------------------
(* TypeOK: what is remembered, and the turns being recorded.                *)

Recorders(o) == {w \in Workers : pc[w] \in {"slice", "store"} /\ orch[w] = o}
Short == \A o \in DOMAIN memory : Len(memory[o]) <= MaxRemembered + Cardinality(Recorders(o))

\* What a memory is, for the counting below.
LEMMA MemorySeq ==
    ASSUME Typed, Own, NEW o \in DOMAIN memory
    PROVE  IsSeq(memory[o]) /\ Len(memory[o]) \in Nat /\ Recorders(o) \in SUBSET Workers
<1>1. memory[o] \in Seq(Given(owner[o]))
  BY MemoryDomain DEF Own, Typed
<1> QED
  BY <1>1, SeqOfSeq, LenProperties DEF Recorders

\* A memory is short while the threads between append and store are those counted.
LEMMA ShortKept ==
    ASSUME NEW w \in Workers, Typed, Short, memory' = memory, Others(w),
           \A v \in Workers \ {w} : orch'[v] = orch[v],
           \/ pc[w] \notin {"slice", "store"} /\ pc'[w] \notin {"slice", "store"}
           \/ /\ pc[w] \in {"slice", "store"} /\ pc'[w] \in {"slice", "store"}
              /\ orch'[w] = orch[w]
    PROVE  Short'
<1>1. \A o : Recorders(o)' = Recorders(o)
  BY DEF Recorders, Others
<1> QED
  BY <1>1 DEF Short

\* append adds one turn and one recorder; store leaves MaxRemembered turns at most.
LEMMA StepShort ==
    ASSUME NEW w \in Workers, Typed, Own, Short, Step(w)
    PROVE  Short'
<1>1. CASE Moves(w) \/ Decides(w) \/ Make(w) \/ Touch(w) \/ Pop(w) \/ Prepares(w) \/ Slice(w)
  <2> USE DEF Others, At, Goto, Typed, Kinds, shared, traces, threads
  <2>1. CASE Moves(w)
    BY <2>1, ShortKept DEF Moves, Leads
  <2>2. CASE Decides(w) \/ Slice(w)
    BY <2>2, ShortKept DEF Decides, Drafts, Slice
  <2>3. CASE Make(w) \/ Touch(w) \/ Pop(w) \/ Prepares(w)
    BY <2>3, ShortKept DEF Make, Touch, Pop, Prepares, OfflinePlaces
  <2> QED
    BY <1>1, <2>1, <2>2, <2>3
<1>2. CASE OfflineAnswer(w)
  BY <1>2, ShortKept DEF OfflineAnswer, shared, Answer, Others, At, Goto, Typed, Kinds
<1>3. CASE Construct(w)
  <2>1. PICK n : n = Len(memory) + 1
    OBVIOUS
  <2>2. memory' = Append(memory, <<>>)
    BY <1>3 DEF Construct
  <2>3. /\ DOMAIN memory' = DOMAIN memory \union {n} /\ n \notin DOMAIN memory
        /\ \A o \in DOMAIN memory : memory'[o] = memory[o]
        /\ memory'[n] = <<>>
    BY <2>1, <2>2, Appended DEF Typed, Process
  <2>4. \A o : Recorders(o)' = Recorders(o)
    BY <1>3 DEF Construct, Recorders, At, Goto, Typed, Kinds
  <2>5. PICK c : c = Cardinality(Recorders(n)) /\ c \in Nat
    BY SomeWorkers DEF Recorders
  <2>6. Len(<<>>) = 0 /\ 0 <= MaxRemembered + c
    BY <2>5, MemoryAssumption
  <2> QED
    BY <2>3, <2>4, <2>5, <2>6 DEF Short
<1>4. CASE AppendTurn(w)
  <2>1. pc[w] = "append"
    BY <1>4 DEF AppendTurn, At
  <2>2. PICK o \in DOMAIN memory : o = orch[w]
    BY <2>1, Recorder
  <2>3. PICK q, r : q = memory[o] /\ r = Append(q, draft[w])
    OBVIOUS
  <2>4. memory' = [memory EXCEPT ![o] = r]
    BY <1>4, <2>2, <2>3 DEF AppendTurn
  <2>5. PICK n : n = Len(q) /\ n \in Nat /\ Len(r) = n + 1
    BY <2>3, MemorySeq, Appended
  <2>6. \A k : k # o => Recorders(k)' = Recorders(k)
    BY <1>4, <2>2 DEF AppendTurn, Recorders, At, Goto, Typed, Kinds
  <2>7. Recorders(o)' = Recorders(o) \union {w} /\ w \notin Recorders(o)
    BY <1>4, <2>2 DEF AppendTurn, Recorders, At, Goto, Typed, Kinds
  <2>8. PICK c : /\ c = Cardinality(Recorders(o)) /\ c \in Nat
                 /\ Cardinality(Recorders(o)') = c + 1
    BY <2>7, MemorySeq, SomeWorkers
  <2>9. n + 1 <= MaxRemembered + (c + 1)
    BY <2>3, <2>5, <2>8, MemoryAssumption DEF Short
  <2> QED
    BY <2>4, <2>5, <2>6, <2>8, <2>9 DEF Short
<1>5. CASE Store(w)
  <2>1. At(w, "store")
    BY <1>5 DEF Store
  <2>2. PICK o \in DOMAIN memory : o = orch[w] /\ Session(w) \in Sessions
    BY <2>1, Recorder DEF At
  <2>3. PICK q : q = draft[w].turns /\ Len(q) <= MaxRemembered /\ Len(q) \in Nat
    BY <2>1, <2>2, LenProperties DEF Own
  <2>4. memory' = [memory EXCEPT ![o] = q]
    BY <1>5, <2>2, <2>3 DEF Store
  <2>5. \A k : k # o => Recorders(k)' = Recorders(k)
    BY <1>5, <2>2 DEF Store, Answer, Recorders, At, Goto, Typed, Kinds
  <2>6. PICK c : c = Cardinality(Recorders(o)') /\ c \in Nat
    BY SomeWorkers DEF Recorders
  <2>7. Len(q) <= MaxRemembered + c
    BY <2>3, <2>6, MemoryAssumption
  <2> QED
    BY <2>4, <2>5, <2>6, <2>7 DEF Short
<1> QED
  BY <1>1, <1>2, <1>3, <1>4, <1>5, StepsOf DEF Typed

\* There is no memory at first.
LEMMA InitShort == Init => Short
BY DEF Init, Short

\* The steps together.
LEMMA NextShort == LiveInv /\ Short /\ [Next]_vars => Short'
<1> SUFFICES ASSUME Typed, Own, Short, [Next]_vars PROVE Short'
  BY DEF LiveInv
<1>1. ASSUME NEW w \in Workers, NEW s \in Sessions, NEW q \in setting.asks[s], Ask(w, s, q)
      PROVE  Short'
  BY <1>1, ShortKept DEF Ask, shared, Others, At, Goto, Typed, Kinds
<1>2. CASE UNCHANGED vars
  BY <1>2 DEF vars, shared, threads, traces, Short, Recorders
<1> QED
  BY <1>1, <1>2, StepShort DEF Next

\* Every variable holds values of its kind, a thread uses a pipeline and an orchestrator
\* that exist, and no memory exceeds the limit by more than the turns being recorded.
THEOREM TypeCorrect == Spec => []TypeOK
<1>1. Spec => [](LiveInv /\ Short)
  BY InitLive, NextLive, InitShort, NextShort, PTL DEF Spec
<1>2. ASSUME LiveInv, Short PROVE TypeOK
  <2> USE <1>2 DEF LiveInv, Typed
  <2>1. Len(owner) = Len(memory) /\ prod \in 0..Len(bySession) /\ offline \in 0..Len(history)
    BY DEF Process
  <2>2. setting \in Settings /\ pc \in [Workers -> Labels] /\ mixed \subseteq Sessions
    BY DEF Kinds
  <2>3. ASSUME NEW w \in Workers
        PROVE  /\ Serving(w) => Session(w) \in Sessions
               /\ HasPipeline(w) => at[w] \in DOMAIN bySession
               /\ HasOrchestrator(w) => orch[w] \in DOMAIN memory
    BY MemoryDomain DEF Kinds, Requested, Session, Using
  <2>4. ASSUME NEW o \in DOMAIN memory
        PROVE  Len(memory[o]) <=
                 MaxRemembered + Cardinality({w \in Workers : Recording(w) /\ orch[w] = o})
    <3>1. PICK R : R = {w \in Workers : Recording(w) /\ orch[w] = o}
      OBVIOUS
    <3>2. R \in SUBSET Workers /\ Recorders(o) \in SUBSET R
      BY <3>1 DEF Recorders, Recording
    <3>3. IsFiniteSet(R)
      BY <3>2, LiveAssumption, FS_Subset
    <3>4. PICK n, c, d : /\ n = Len(memory[o]) /\ c = Cardinality(Recorders(o))
                         /\ d = Cardinality(R)
      OBVIOUS
    <3>5. n \in Nat /\ c \in Nat /\ d \in Nat /\ c <= d /\ n <= MaxRemembered + c
      BY <3>2, <3>3, <3>4, FS_Subset, SomeWorkers, MemorySeq DEF Short
    <3>6. n <= MaxRemembered + d
      BY <3>5, MemoryAssumption
    <3> QED
      BY <3>1, <3>4, <3>6
  <2> QED
    BY <2>1, <2>2, <2>3, <2>4 DEF TypeOK, HasPipeline, HasOrchestrator, OfflinePlaces
<1> QED
  BY <1>1, <1>2, PTL

-----------------------------------------------------------------------------
(* The words of a resolved question.                                        *)

\* A question is unsafe by one of its words.
LEMMA UnsafeWord ==
    ASSUME NEW q
    PROVE  IsUnsafe(q) <=> \E word \in ToSet(q) : Stem(word) \in UnsafeIntents
<1>1. \A t : Synonyms(t) \intersect UnsafeIntents = {}
  BY DEF Synonyms, UnsafeIntents
<1>2. StopWords \intersect UnsafeIntents = {}
  BY DEF StopWords, UnsafeIntents
<1>3. SearchTerms(q) \intersect UnsafeIntents =
        {Stem(word) : word \in ToSet(q)} \intersect UnsafeIntents
  BY <1>1, <1>2 DEF SearchTerms
<1> QED
  BY <1>3 DEF IsUnsafe

\* FirstIn finds a word of the list that is in the set.
LEMMA FirstInList ==
    ASSUME NEW list, IsSeq(list), NEW S, \E i \in DOMAIN list : list[i] \in S
    PROVE  FirstIn(list, S) \in S /\ FirstIn(list, S) \in ToSet(list)
<1>1. PICK I : I = {i \in DOMAIN list : list[i] \in S}
  OBVIOUS
<1>2. I \in SUBSET Nat /\ I # {}
  BY <1>1, SeqFacts
<1>3. Min(I) \in I
  BY <1>2, MinOfNaturals
<1> QED
  BY <1>1, <1>3 DEF FirstIn, ToSet

\* Replacing the metric adds that metric and no other word.
LEMMA ReplaceMetricWords ==
    ASSUME NEW p, NEW metric
    PROVE  ToSet(ReplaceMetric(p, metric)) \subseteq ToSet(p) \union {metric}
<1>1. \E i : ReplaceMetric(p, metric) \in {p, ReplaceAt(p, i, metric)}
  BY DEF ReplaceMetric
<1>2. PICK i : ReplaceMetric(p, metric) \in {p, ReplaceAt(p, i, metric)}
  BY <1>1
<1> QED
  BY <1>2, ReplacedWords

\* Adding a metric adds words of the fixed texts only.
LEMMA WithMetricWords ==
    ASSUME NEW p, NEW metric \in ToSet(Metrics)
    PROVE  ToSet(WithMetric(p, metric)) \subseteq ToSet(p) \union Inserted
<1>1. metric \in Inserted
  BY DEF Inserted
<1>2. CASE Mentions(p, <<"profit", "margin">>) /\ Grouped(p) # {}
  <2>1. IsSeq(Groupings)
    BY DEF IsSeq, Groupings, ToSet
  <2>2. Grouped(p) \subseteq ToSet(Groupings)
    BY DEF Grouped
  <2>3. PICK g : g = FirstIn(Groupings, Grouped(p)) /\ g \in ToSet(Groupings)
    BY <1>2, <2>1, <2>2, FirstInList DEF ToSet
  <2>4. g \in Inserted
    BY <2>3 DEF Inserted
  <2>5. WithMetric(p, metric) = <<"what", "is", "total", metric, "by", g>>
    BY <1>2, <2>3 DEF WithMetric
  <2>6. ToSet(<<"what", "is", "total", metric, "by", g>>) = {"what", "is", "total", metric, "by", g}
    BY DEF ToSet
  <2> QED
    BY <1>1, <2>4, <2>5, <2>6 DEF Inserted
<1>3. CASE ~(Mentions(p, <<"profit", "margin">>) /\ Grouped(p) # {})
  BY <1>1, <1>3, ReplaceMetricWords DEF WithMetric
<1> QED
  BY <1>2, <1>3

\* A question made standalone has words of the two questions and of the fixed texts.
LEMMA StandaloneWords ==
    ASSUME NEW q, IsSeq(q), NEW p, IsSeq(p)
    PROVE  ToSet(Standalone(q, p)) \subseteq ToSet(q) \union ToSet(p) \union Inserted
<1>1. PICK m : m = FirstIn(Metrics, ToSet(q))
  OBVIOUS
<1>2. CASE Has(q, ToSet(Metrics)) /\ WithMetric(p, m) # p
  <2>1. IsSeq(Metrics)
    BY DEF IsSeq, Metrics, ToSet
  <2>2. m \in ToSet(Metrics)
    BY <1>1, <1>2, <2>1, FirstInList DEF Has, ToSet
  <2> QED
    BY <1>1, <1>2, <2>2, WithMetricWords DEF Standalone
<1>3. CASE ~(Has(q, ToSet(Metrics)) /\ WithMetric(p, m) # p)
  <2>1. PICK c : c = <<"same", "business", "context", "as", "previous", "question">>
    OBVIOUS
  <2>2. IsSeq(c) /\ ToSet(c) \subseteq Inserted
    <3>1. IsSeq(<<"same", "business", "context", "as", "previous", "question">>)
      BY DEF IsSeq, ToSet
    <3>2. ToSet(<<"same", "business", "context", "as", "previous", "question">>) =
            {"same", "business", "context", "as", "previous", "question"}
      BY DEF ToSet
    <3> QED
      BY <2>1, <3>1, <3>2 DEF Inserted
  <2>3. IsSeq(q \o c) /\ ToSet(q \o c) \subseteq ToSet(q) \union ToSet(c)
    BY <2>2, ConcatWords
  <2>4. ToSet((q \o c) \o p) \subseteq ToSet(q \o c) \union ToSet(p)
    BY <2>3, ConcatWords
  <2>5. Standalone(q, p) = (q \o c) \o p
    BY <1>1, <1>3, <2>1 DEF Standalone
  <2> QED
    BY <2>2, <2>3, <2>4, <2>5
<1> QED
  BY <1>2, <1>3

\* Two questions that ask for no change do not ask for one together.
LEMMA StandaloneSafe ==
    ASSUME NEW q \in Seq(STRING), NEW p \in Seq(STRING), ~IsUnsafe(q), ~IsUnsafe(p)
    PROVE  ~IsUnsafe(Standalone(q, p))
BY SeqOfSeq, UnsafeWord, StandaloneWords, StemAssumption

\* The latest successful turn is one of the turns and has a statement.
LEMMA LatestFound ==
    ASSUME NEW S, NEW turns \in Seq(S), LatestSuccessful(turns) # None
    PROVE  LatestSuccessful(turns) \in S /\ LatestSuccessful(turns).sql # None
<1>1. PICK I : I = {i \in DOMAIN turns : IsSuccessful(turns[i])}
  OBVIOUS
<1>2. DOMAIN turns = 1..Len(turns) /\ Len(turns) \in Nat /\ \A i \in DOMAIN turns : turns[i] \in S
  BY LenProperties
<1>3. I # {} /\ LatestSuccessful(turns) = turns[Max(I)]
  BY <1>1 DEF LatestSuccessful, Latest
<1>4. IsFiniteSet(1..Len(turns))
  BY <1>2, FS_Interval
<1>5. I \in SUBSET Int /\ IsFiniteSet(I)
  BY <1>1, <1>2, <1>4, FS_Subset
<1>6. Max(I) \in I
  BY <1>3, <1>5, MaxOfFinite
<1> QED
  BY <1>1, <1>2, <1>3, <1>6 DEF IsSuccessful

\* What a thread decides to record: its question as it is, or continuing a question of its
\* session that some statement answered.
LEMMA DecidedTurn ==
    ASSUME NEW w \in Workers, Typed, Own, Decides(w)
    PROVE  \E turn : \E q \in Seq(STRING) :
             /\ turn = draft'[w] /\ turn.question = q
             /\ turn.resolved = q \/ \E p \in Given(Session(w)) :
                                       /\ p.sql # None
                                       /\ turn.resolved = Standalone(q, p.question)
             /\ turn.sql # None => ~IsUnsafe(q)
<1>1. Question(w) \in Seq(STRING)
  BY DEF Decides, Typed, Kinds, Requested, Question, Serving
<1>2. PICK turn : /\ turn = draft'[w] /\ turn.question = Question(w)
                  /\ \/ turn.resolved = Question(w) /\ turn.sql = None
                     \/ turn.resolved = Resolved(w) /\ turn.sql = None
                     \/ turn.resolved = Resolved(w) /\ ~IsUnsafe(Question(w))
  BY DEF Decides, Drafts, Typed, Kinds
<1>3. memory[orch[w]] \in Seq(Given(Session(w)))
  BY Recorder DEF Decides, Own
<1>4. PICK turns : turns = memory[orch[w]]
  OBVIOUS
<1>5. PICK last : last = LatestSuccessful(turns)
  OBVIOUS
<1>6. last # None => last \in Given(Session(w)) /\ last.sql # None
  BY <1>3, <1>4, <1>5, LatestFound
<1>7. \/ Resolved(w) = Question(w)
      \/ last # None /\ Resolved(w) = Standalone(Question(w), last.question)
  BY <1>4, <1>5 DEF Resolved, Resolve, IsFollowUp, Turns
<1> QED
  BY <1>1, <1>2, <1>6, <1>7

-----------------------------------------------------------------------------
(* No statement for a question that asks for a change of the data.          *)

Safe ==
    \A s \in Sessions : \A turn \in Given(s) :
        /\ turn.question \in Seq(STRING)
        /\ turn.sql # None => ~IsUnsafe(turn.question) /\ ~IsUnsafe(turn.resolved)

\* Nobody was given anything at first.
LEMMA InitGiven == Init => \A s \in Sessions : Given(s) = {}
BY DEF Init, Given, Recording

\* A session is given a turn only by a thread of its own that decides on it.
LEMMA GivenNext ==
    ASSUME Typed, [Next]_vars, NEW s, NEW turn \in Given(s)'
    PROVE  turn \in Given(s) \/ \E w \in Workers : Decides(w) /\ s = Session(w) /\ turn = draft'[w]
<1>1. CASE UNCHANGED vars
  BY <1>1 DEF vars, shared, threads, traces, Given, Recording, Drafted, Session, At
<1> QED
  BY <1>1, GivenGrows DEF Next

\* A decided statement is for a question without a word that asks for a change.
LEMMA NextSafe == LiveInv /\ Safe /\ [Next]_vars => Safe'
<1> SUFFICES ASSUME Typed, Own, Safe, [Next]_vars,
                    NEW s \in Sessions, NEW turn \in Given(s)'
             PROVE  /\ turn.question \in Seq(STRING)
                    /\ turn.sql # None => ~IsUnsafe(turn.question) /\ ~IsUnsafe(turn.resolved)
  BY DEF LiveInv, Safe
<1>1. CASE turn \in Given(s)
  BY <1>1 DEF Safe
<1>2. ASSUME NEW w \in Workers, Decides(w), s = Session(w), turn = draft'[w]
      PROVE  /\ turn.question \in Seq(STRING)
             /\ turn.sql # None => ~IsUnsafe(turn.question) /\ ~IsUnsafe(turn.resolved)
  <2>1. PICK q \in Seq(STRING) :
          /\ turn.question = q
          /\ turn.resolved = q \/ \E p \in Given(s) :
                                    p.sql # None /\ turn.resolved = Standalone(q, p.question)
          /\ turn.sql # None => ~IsUnsafe(q)
    BY <1>2, DecidedTurn
  <2>2. ASSUME turn.sql # None, NEW p \in Given(s), p.sql # None,
               turn.resolved = Standalone(q, p.question)
        PROVE  ~IsUnsafe(turn.resolved)
    BY <2>1, <2>2, StandaloneSafe DEF Safe
  <2> QED
    BY <2>1, <2>2
<1> QED
  BY <1>1, <1>2, GivenNext

\* support_guard.py:23: whatever the memories and Select AI contribute, no question with a
\* word that asks for a change of the data is answered under a statement, neither by itself
\* nor by the question that it continues.
THEOREM NoStatementForChanges == Spec => []NoUnsafeSql
<1>1. Init => Safe
  BY InitGiven DEF Safe
<1>2. Spec => [](LiveInv /\ Safe)
  BY <1>1, InitLive, NextLive, NextSafe, PTL DEF Spec
<1>3. ASSUME Safe, NEW s \in Sessions, NEW i \in DOMAIN shown[s],
             shown[s][i].live, shown[s][i].turn.sql # None
      PROVE  ~IsUnsafe(shown[s][i].turn.question) /\ ~IsUnsafe(shown[s][i].turn.resolved)
  <2>1. shown[s][i].turn \in Given(s)
    BY <1>3 DEF Given
  <2> QED
    BY <1>3, <2>1 DEF Safe
<1>4. Safe => NoUnsafeSql
  BY <1>3 DEF NoUnsafeSql
<1> QED
  BY <1>2, <1>4, PTL

-----------------------------------------------------------------------------
(* LiveContext: the two pipelines, each with its own history.               *)

\* A turn's question stands for itself or continues that of another turn of the session.
InContext ==
    \A s \in Sessions : \A turn \in Given(s) :
        \/ turn.resolved = turn.question
        \/ \E p \in Given(s) \ {turn} : turn.resolved = Standalone(turn.question, p.question)

\* A decided turn continues a question of its own session.
LEMMA NextInContext == LiveInv /\ InContext /\ [Next]_vars => InContext'
<1> SUFFICES ASSUME Typed, Own, InContext, [Next]_vars,
                    NEW s \in Sessions, NEW turn \in Given(s)'
             PROVE  \/ turn.resolved = turn.question
                    \/ \E p \in Given(s)' \ {turn} :
                         turn.resolved = Standalone(turn.question, p.question)
  BY DEF LiveInv, InContext
<1>1. Given(s) \subseteq Given(s)'
  <2>1. CASE UNCHANGED vars
    BY <2>1 DEF vars, shared, threads, traces, Given, Recording, Drafted, Session, At
  <2> QED
    BY <2>1, GivenGrows DEF Next
<1>2. CASE turn \in Given(s)
  BY <1>1, <1>2 DEF InContext
<1>3. ASSUME turn \notin Given(s), NEW w \in Workers, Decides(w), s = Session(w), turn = draft'[w]
      PROVE  \/ turn.resolved = turn.question
             \/ \E p \in Given(s)' \ {turn} :
                  turn.resolved = Standalone(turn.question, p.question)
  BY <1>1, <1>3, DecidedTurn
<1> QED
  BY <1>2, <1>3, GivenNext

\* What a session resolved offline: the questions of its offline answers, and those of its
\* requests that the offline pipeline is answering.
LEMMA SaidParts ==
    ASSUME NEW s, NEW q
    PROVE  /\ q \in SaidOffline(s) <=>
                \/ \E i \in DOMAIN shown[s] : ~shown[s][i].live /\ shown[s][i].resolved = q
                \/ \E v \in Workers : Resolving(v) /\ Session(v) = s /\ draft[v].resolved = q
           /\ q \in SaidOffline(s)' <=>
                \/ \E i \in DOMAIN shown'[s] : ~shown'[s][i].live /\ shown'[s][i].resolved = q
                \/ \E v \in Workers : Resolving(v)' /\ Session(v)' = s /\ draft'[v].resolved = q
BY DEF SaidOffline, Resolving, Session

\* An answer comes after those shown before, and is the only new one.
LEMMA AnswerLast ==
    ASSUME NEW w \in Workers, NEW response, Typed, Answer(w, response), Serving(w)
    PROVE  /\ Others(w) /\ pc'[w] = "idle" /\ Session(w) \in Sessions
           /\ \E i \in DOMAIN shown'[Session(w)] : shown'[Session(w)][i] = response
           /\ \A s \in Sessions :
                /\ \A i \in DOMAIN shown[s] : i \in DOMAIN shown'[s] /\ shown'[s][i] = shown[s][i]
                /\ \A i \in DOMAIN shown'[s] :
                     \/ i \in DOMAIN shown[s] /\ shown'[s][i] = shown[s][i]
                     \/ s = Session(w) /\ shown'[s][i] = response
<1>1. PICK mine : mine = Session(w)
  OBVIOUS
<1>2. mine \in Sessions
  BY <1>1 DEF Typed, Kinds, Requested, Session
<1>3. PICK old, new : old = shown[mine] /\ new = shown'[mine]
  OBVIOUS
<1>4. /\ new = Append(old, response) /\ IsSeq(old)
      /\ \A s \in Sessions \ {mine} : shown'[s] = shown[s]
  BY <1>1, <1>2, <1>3 DEF Answer, Typed, Kinds
<1>5. PICK n : n = Len(old) + 1
  OBVIOUS
<1>6. /\ DOMAIN new = DOMAIN old \union {n} /\ new[n] = response
      /\ \A i \in DOMAIN old : new[i] = old[i]
  BY <1>4, <1>5, Appended
<1>7. Others(w) /\ pc'[w] = "idle"
  BY DEF Answer, Goto, Others, Typed, Kinds
<1>8. \E i \in DOMAIN shown'[mine] : shown'[mine][i] = response
  BY <1>3, <1>6
<1>9. ASSUME NEW s \in Sessions
      PROVE  /\ \A i \in DOMAIN shown[s] : i \in DOMAIN shown'[s] /\ shown'[s][i] = shown[s][i]
             /\ \A i \in DOMAIN shown'[s] :
                  \/ i \in DOMAIN shown[s] /\ shown'[s][i] = shown[s][i]
                  \/ s = mine /\ shown'[s][i] = response
  <2>1. CASE s = mine
    BY <1>3, <1>6, <2>1
  <2>2. CASE s # mine
    BY <1>4, <2>2
  <2> QED
    BY <2>1, <2>2
<1> QED
  BY <1>1, <1>2, <1>7, <1>8, <1>9

\* What was resolved stays so,
LEMMA SaidGrows ==
    ASSUME NEW w \in Workers, Typed,
           Step(w) \/ \E s \in Sessions : \E q \in setting.asks[s] : Ask(w, s, q)
    PROVE  \A s \in Sessions : SaidOffline(s) \subseteq SaidOffline(s)'
<1> SUFFICES ASSUME NEW s \in Sessions, NEW q \in SaidOffline(s)
             PROVE  q \in SaidOffline(s)'
  OBVIOUS
<1>1. \/ \E i \in DOMAIN shown[s] : ~shown[s][i].live /\ shown[s][i].resolved = q
      \/ \E v \in Workers : Resolving(v) /\ Session(v) = s /\ draft[v].resolved = q
  BY SaidParts
<1>2. CASE /\ Others(w) /\ shown' = shown
           /\ Resolving(w) => Resolving(w)' /\ request'[w] = request[w] /\ draft'[w] = draft[w]
  <2>1. \A v \in Workers : Resolving(v) =>
          Resolving(v)' /\ Session(v)' = Session(v) /\ draft'[v] = draft[v]
    BY <1>2 DEF Others, Resolving, Session
  <2> QED
    BY <1>1, <1>2, <2>1, SaidParts
<1>3. CASE Store(w) \/ OfflineAnswer(w)
  <2>1. PICK response :
          /\ Answer(w, response)
          /\ Resolving(w) => response.live = FALSE /\ response.resolved = draft[w].resolved
    BY <1>3 DEF Store, OfflineAnswer, At, Resolving
  <2>2. Serving(w)
    BY <1>3 DEF Store, OfflineAnswer, At, Serving
  <2>3. /\ Others(w) /\ \E i \in DOMAIN shown'[Session(w)] : shown'[Session(w)][i] = response
        /\ \A i \in DOMAIN shown[s] : i \in DOMAIN shown'[s] /\ shown'[s][i] = shown[s][i]
    BY <2>1, <2>2, AnswerLast
  <2>4. \A v \in Workers \ {w} : Resolving(v) =>
          Resolving(v)' /\ Session(v)' = Session(v) /\ draft'[v] = draft[v]
    BY <2>3 DEF Others, Resolving, Session
  <2>5. CASE \E i \in DOMAIN shown[s] : ~shown[s][i].live /\ shown[s][i].resolved = q
    BY <2>3, <2>5, SaidParts
  <2>6. ASSUME NEW v \in Workers, Resolving(v), Session(v) = s, draft[v].resolved = q
        PROVE  q \in SaidOffline(s)'
    BY <2>1, <2>3, <2>4, <2>6, SaidParts
  <2> QED
    BY <1>1, <2>5, <2>6
<1> USE DEF Typed, Kinds, At, Goto, Others, Resolving
<1>4. CASE Moves(w)
  BY <1>2, <1>4 DEF Moves, Leads, traces
<1>5. CASE Decides(w) \/ Make(w) \/ Pop(w) \/ Touch(w) \/ Construct(w) \/ AppendTurn(w) \/ Slice(w)
  BY <1>2, <1>5 DEF Decides, Drafts, Make, Pop, Touch, Construct, AppendTurn, Slice, traces, threads
<1>6. CASE Prepares(w)
  <2>1. Resolving(w) => Resolving(w)' /\ draft' = draft
    BY <1>6 DEF Prepares, MakeOffline, OfflineResolve, OfflineRecord
  <2> QED
    BY <1>2, <1>6, <2>1 DEF Prepares, OfflinePlaces, traces
<1>7. CASE \E t \in Sessions : \E p \in setting.asks[t] : Ask(w, t, p)
  BY <1>2, <1>7 DEF Ask
<1> QED
  BY <1>3, <1>4, <1>5, <1>6, <1>7, StepsOf DEF Typed

\* A history holds what its session resolved, and what an answer continues, or is to
\* continue, is one of these.
Recorded == \A h \in DOMAIN history, s \in Sessions : ToSet(history[h][s]) \subseteq SaidOffline(s)
Continued ==
    /\ \A s \in Sessions : \A i \in DOMAIN shown[s] :
         ~shown[s][i].live => shown[s][i].continues \in SaidOffline(s) \union {None}
    /\ \A v \in Workers : Resolving(v) =>
         draft[v].continues \in SaidOffline(Session(v)) \union {None}
Histories == Recorded /\ Continued

\* The sessions have the histories they had, in the pipelines there were,
LEMMA RecordedKept ==
    ASSUME NEW w \in Workers, Typed, Recorded,
           Step(w) \/ \E s \in Sessions : \E q \in setting.asks[s] : Ask(w, s, q)
    PROVE  Recorded'
<1>1. \A s \in Sessions : SaidOffline(s) \subseteq SaidOffline(s)'
  BY SaidGrows
<1> SUFFICES ASSUME NEW h \in DOMAIN history', NEW s \in Sessions
             PROVE  ToSet(history'[h][s]) \subseteq SaidOffline(s)'
  BY DEF Recorded
<1>2. CASE h \in DOMAIN history /\ history'[h][s] = history[h][s]
  BY <1>1, <1>2 DEF Recorded
<1>3. CASE history' = history
  BY <1>2, <1>3
<1>4. CASE MakeOffline(w)
  <2>1. (h \in DOMAIN history /\ history'[h] = history[h]) \/ history'[h][s] = <<>>
    BY <1>4, MakeOfflineTyped DEF Typed
  <2> QED
    BY <1>2, <2>1 DEF ToSet
<1>5. CASE OfflineResolve(w)
  <2>1. Sets(offline, Session(w), Before(w)) /\ offline \in DOMAIN history
    BY <1>5, ResolveSets DEF Typed, Sets
  <2>2. /\ h \in DOMAIN history
        /\ \/ history'[h][s] = history[h][s]
           \/ h = offline /\ s = Session(w) /\ history'[h][s] = Before(w)
    BY <2>1 DEF Sets
  <2>3. Before(w) = history[offline][Session(w)] \/ Before(w) = <<>>
    BY DEF Before
  <2> QED
    BY <1>2, <2>2, <2>3 DEF ToSet
<1>6. CASE OfflineRecord(w)
  <2>1. /\ Sets(draft[w].pipeline, Session(w), Extended(w)) /\ Session(w) \in Sessions
        /\ IsSeq(history[draft[w].pipeline][Session(w)])
    BY <1>6, RecordSets DEF Typed
  <2>2. /\ h \in DOMAIN history
        /\ \/ history'[h][s] = history[h][s]
           \/ h = draft[w].pipeline /\ s = Session(w) /\ history'[h][s] = Extended(w)
    BY <2>1 DEF Sets
  <2>3. draft[w].resolved \in SaidOffline(Session(w))'
    <3>1. Resolving(w)' /\ Session(w)' = Session(w) /\ draft' = draft
      BY <1>6 DEF OfflineRecord, Goto, Resolving, Session, Typed, Kinds
    <3>2. PICK t, q : t = Session(w) /\ q = draft[w].resolved
      OBVIOUS
    <3>3. q \in SaidOffline(t)'
      BY <3>1, <3>2, SaidParts
    <3>4. SaidOffline(t)' = SaidOffline(Session(w))'
      BY <3>1, <3>2 DEF SaidOffline, Session, Resolving
    <3> QED
      BY <3>2, <3>3, <3>4
  <2>4. CASE h = draft[w].pipeline /\ s = Session(w) /\ history'[h][s] = Extended(w)
    <3>1. PICK before, q, all : before = history[h][s] /\ q = draft[w].resolved /\ all = history'[h][s]
      OBVIOUS
    <3>2. IsSeq(before) /\ all = Append(before, q)
      BY <2>1, <2>4, <3>1 DEF Extended
    <3>3. PICK n : n = Len(before) + 1
      OBVIOUS
    <3>4. /\ DOMAIN all = DOMAIN before \union {n} /\ all[n] = q
          /\ \A i \in DOMAIN before : all[i] = before[i]
      BY <3>2, <3>3, Appended
    <3>5. ToSet(all) \subseteq ToSet(before) \union {q}
      BY <3>4 DEF ToSet
    <3>6. ToSet(before) \subseteq SaidOffline(s)'
      BY <1>1, <2>2, <3>1 DEF Recorded
    <3>7. q \in SaidOffline(s)'
      <4>1. Session(w)' = Session(w)
        BY <1>6 DEF OfflineRecord, Session
      <4>2. SaidOffline(s)' = SaidOffline(Session(w))'
        BY <2>4, <4>1 DEF SaidOffline, Session, Resolving
      <4> QED
        BY <2>3, <3>1, <4>2
    <3> QED
      BY <3>1, <3>5, <3>6, <3>7
  <2> QED
    BY <1>2, <2>2, <2>4
<1>7. CASE \E t \in Sessions : \E q \in setting.asks[t] : Ask(w, t, q)
  BY <1>3, <1>7 DEF Ask, shared
<1>8. CASE \/ Moves(w) \/ Decides(w) \/ Make(w) \/ Touch(w) \/ Construct(w) \/ Pop(w)
           \/ AppendTurn(w) \/ Slice(w) \/ Store(w) \/ OfflineAnswer(w)
  BY <1>3, <1>8 DEF Moves, Decides, Make, Touch, Construct, Pop, AppendTurn, Slice, Store,
                    OfflineAnswer, shared
<1> QED
  BY <1>4, <1>5, <1>6, <1>7, <1>8, StepsOf DEF Typed, Prepares

\* A question is resolved against one of its session's history, or against none.
LEMMA ResolvedWithin ==
    ASSUME NEW w \in Workers, Typed, Recorded, OfflineResolve(w)
    PROVE  draft'[w].continues \in SaidOffline(Session(w)) \union {None}
<1>1. PICK t, before : t = Session(w) /\ before = history[offline][t]
  OBVIOUS
<1>2. offline \in DOMAIN history /\ t \in Sessions
  BY <1>1, ResolveSets DEF Typed, Sets
<1>3. draft'[w].continues = None \/ (before # <<>> /\ draft'[w].continues = Last(before))
  BY <1>1 DEF OfflineResolve, Typed, Kinds
<1>4. IsSeq(before)
  BY <1>1, <1>2 DEF Typed, Process, IsHistory
<1>5. before # <<>> => Last(before) \in ToSet(before)
  <2>1. before # <<>> => Len(before) \in DOMAIN before
    BY <1>4, SeqFacts
  <2> QED
    BY <2>1 DEF Last, ToSet
<1> QED
  BY <1>1, <1>2, <1>3, <1>5 DEF Recorded

\* and continue only what they may.
LEMMA ContinuedKept ==
    ASSUME NEW w \in Workers, Typed, Recorded, Continued,
           Step(w) \/ \E s \in Sessions : \E q \in setting.asks[s] : Ask(w, s, q)
    PROVE  Continued'
<1>1. \A s \in Sessions : SaidOffline(s) \subseteq SaidOffline(s)'
  BY SaidGrows
<1>2. Others(w) /\ \/ shown' = shown \/ Store(w) \/ OfflineAnswer(w)
  <2> USE DEF Typed, Kinds, Others, Goto
  <2>1. CASE \E t \in Sessions : \E p \in setting.asks[t] : Ask(w, t, p)
    BY <2>1 DEF Ask
  <2>2. CASE Moves(w) \/ Decides(w) \/ Make(w) \/ Pop(w)
    BY <2>2 DEF Moves, Leads, Decides, Drafts, Make, Pop, traces, threads
  <2>3. CASE Touch(w) \/ Construct(w) \/ AppendTurn(w) \/ Slice(w)
    BY <2>3 DEF Touch, Construct, AppendTurn, Slice, traces
  <2>4. CASE Prepares(w)
    BY <2>4 DEF Prepares, traces
  <2>5. CASE Store(w) \/ OfflineAnswer(w)
    BY <2>5 DEF Store, OfflineAnswer, Answer
  <2> QED
    BY <2>1, <2>2, <2>3, <2>4, <2>5, StepsOf DEF Typed
<1>3. ASSUME NEW s \in Sessions, NEW i \in DOMAIN shown'[s], ~shown'[s][i].live
      PROVE  shown'[s][i].continues \in SaidOffline(s)' \union {None}
  <2>1. CASE i \in DOMAIN shown[s] /\ shown'[s][i] = shown[s][i]
    BY <1>1, <1>3, <2>1 DEF Continued
  <2>2. CASE Store(w) \/ OfflineAnswer(w)
    <3>1. PICK response :
            /\ Answer(w, response)
            /\ response.live = TRUE \/ (Resolving(w) /\ response.continues = draft[w].continues)
      BY <2>2 DEF Store, OfflineAnswer, Normalised, At, Resolving
    <3>2. Serving(w)
      BY <2>2 DEF Store, OfflineAnswer, At, Serving
    <3>3. \/ i \in DOMAIN shown[s] /\ shown'[s][i] = shown[s][i]
          \/ s = Session(w) /\ shown'[s][i] = response
      BY <3>1, <3>2, AnswerLast
    <3>4. CASE s = Session(w) /\ shown'[s][i] = response
      <4>1. Resolving(w) /\ shown'[s][i].continues = draft[w].continues
        BY <1>3, <3>1, <3>4
      <4> QED
        BY <1>1, <3>4, <4>1 DEF Continued
    <3> QED
      BY <2>1, <3>3, <3>4
  <2> QED
    BY <1>2, <2>1, <2>2
<1>4. ASSUME NEW v \in Workers, Resolving(v)'
      PROVE  draft'[v].continues \in SaidOffline(Session(v))' \union {None}
  <2>1. PICK t : t = Session(v)
    OBVIOUS
  <2>2. ASSUME request'[v] = request[v], draft'[v].continues \in SaidOffline(t) \union {None},
               Serving(v)
        PROVE  draft'[v].continues \in SaidOffline(Session(v))' \union {None}
    <3>1. t \in Sessions
      BY <2>1, <2>2 DEF Typed, Kinds, Requested, Session
    <3>2. SaidOffline(t)' = SaidOffline(Session(v))'
      BY <2>1, <2>2 DEF SaidOffline, Session, Resolving
    <3> QED
      BY <1>1, <2>2, <3>1, <3>2
  <2>3. CASE v # w
    <3>1. Resolving(v) /\ draft'[v] = draft[v] /\ request'[v] = request[v] /\ Serving(v)
      BY <1>2, <1>4, <2>3 DEF Others, Resolving, Serving
    <3> QED
      BY <2>1, <2>2, <3>1 DEF Continued
  <2>4. CASE v = w /\ OfflineResolve(w)
    <3>1. request' = request /\ Serving(w)
      BY <2>4 DEF OfflineResolve, At, Serving
    <3> QED
      BY <2>1, <2>2, <2>4, <3>1, ResolvedWithin
  <2>5. CASE v = w /\ OfflineRecord(w)
    <3>1. request' = request /\ draft' = draft /\ Serving(w) /\ Resolving(w)
      BY <2>5 DEF OfflineRecord, At, Serving, Resolving
    <3> QED
      BY <2>1, <2>2, <2>5, <3>1 DEF Continued
  <2>6. CASE v = w /\ ~OfflineResolve(w) /\ ~OfflineRecord(w)
    <3> USE DEF At, Goto, Typed, Kinds
    <3>1. ~Resolving(w)'
      <4>1. CASE Moves(w)
        BY <4>1 DEF Moves, Leads, Resolving
      <4>2. CASE Decides(w) \/ Make(w) \/ Touch(w) \/ Construct(w) \/ Pop(w)
        BY <4>2 DEF Decides, Drafts, Make, Touch, Construct, Pop, Resolving
      <4>3. CASE AppendTurn(w) \/ Slice(w)
        BY <4>3 DEF AppendTurn, Slice, Resolving
      <4>4. CASE Store(w) \/ OfflineAnswer(w)
        BY <4>4 DEF Store, OfflineAnswer, Answer, Resolving
      <4>5. CASE \E s \in Sessions : \E q \in setting.asks[s] : Ask(w, s, q)
        BY <4>5 DEF Ask, Resolving
      <4>6. CASE MakeOffline(w)
        BY <4>6 DEF MakeOffline, Resolving
      <4> QED
        BY <2>6, <4>1, <4>2, <4>3, <4>4, <4>5, <4>6, StepsOf DEF Prepares
    <3> QED
      BY <1>4, <2>6, <3>1
  <2> QED
    BY <2>3, <2>4, <2>5, <2>6
<1> QED
  BY <1>3, <1>4 DEF Continued

\* The steps together.
LEMMA NextHistories == LiveInv /\ Histories /\ [Next]_vars => Histories'
<1> SUFFICES ASSUME Typed, Own, Histories, [Next]_vars PROVE Histories'
  BY DEF LiveInv
<1>1. CASE UNCHANGED vars
  <2>1. \A s : SaidOffline(s)' = SaidOffline(s)
    BY <1>1 DEF vars, shared, threads, traces, SaidOffline, Resolving, Session
  <2> QED
    BY <1>1, <2>1 DEF vars, shared, threads, traces, Histories, Recorded, Continued, Resolving,
                      Session
<1> QED
  BY <1>1, RecordedKept, ContinuedKept DEF Next, Histories

\* production_pipeline.py:78-79: however requests, evictions and rebuilt pipelines
\* interleave, a follow-up is resolved against another turn of its own session in the live
\* backend, and in the offline one against a question that its session resolved there.
THEOREM ContextOfOneSession == Spec => []LiveContext
<1>1. Init => InContext /\ Histories
  BY InitGiven DEF Init, InContext, Histories, Recorded, Continued, Resolving
<1>2. Spec => [](LiveInv /\ InContext /\ Histories)
  BY <1>1, InitLive, NextLive, NextInContext, NextHistories, PTL DEF Spec
<1>3. ASSUME LiveInv, InContext, Histories PROVE LiveContext
  BY <1>3 DEF InContext, Histories, Continued, LiveContext
<1> QED
  BY <1>2, <1>3, PTL

-----------------------------------------------------------------------------
(* DeciderAgrees: the first of the decider's rules that applies.            *)

\* The decision of the local rules, by the first that applies (action_decider.py).
LEMMA FirstRule ==
    ASSUME NEW q, NEW state
    PROVE  \/ LocalDecision(q, state) = "MODIFY_PREVIOUS_SQL" /\ q \in BareModify
           \/ LocalDecision(q, state) = "TRANSFORM_PREVIOUS_RESULT"
           \/ LocalDecision(q, state) = "ASK_CLARIFICATION" /\ q \in BareRun
           \/ LocalDecision(q, state) = "RUN_NEW_SQL"
           \/ LocalDecision(q, state) = "MODIFY_PREVIOUS_SQL" /\ (StartsModify(q) \/ state.hasSql)
           \/ LocalDecision(q, state) = "ASK_CLARIFICATION" /\ q = <<>>
<1> DEFINE Rule(a, applies) == [action |-> a, holds |-> applies]
           rules == <<
             Rule("MODIFY_PREVIOUS_SQL", q \in BareModify),
             Rule("TRANSFORM_PREVIOUS_RESULT", q \in BareUse),
             Rule("ASK_CLARIFICATION", q \in BareRun),
             Rule("MODIFY_PREVIOUS_SQL", Has(q, RunNewTerms) /\ state.hasSql),
             Rule("RUN_NEW_SQL", Has(q, RunNewTerms)),
             Rule("TRANSFORM_PREVIOUS_RESULT", AsksTransform(q)),
             Rule("MODIFY_PREVIOUS_SQL",
                    StartsModify(q) \/ (Has(q, ModifyTerms \union YearWords) /\ state.hasSql)),
             Rule("RUN_NEW_SQL", q # <<>>),
             Rule("ASK_CLARIFICATION", TRUE)>>
           I == {i \in DOMAIN rules : rules[i].holds}
<1>1. DOMAIN rules = 1..9
  OBVIOUS
<1>2. /\ rules[1].action = "MODIFY_PREVIOUS_SQL" /\ rules[2].action = "TRANSFORM_PREVIOUS_RESULT"
      /\ rules[3].action = "ASK_CLARIFICATION" /\ rules[4].action = "MODIFY_PREVIOUS_SQL"
      /\ rules[5].action = "RUN_NEW_SQL" /\ rules[6].action = "TRANSFORM_PREVIOUS_RESULT"
      /\ rules[7].action = "MODIFY_PREVIOUS_SQL" /\ rules[8].action = "RUN_NEW_SQL"
      /\ rules[9].action = "ASK_CLARIFICATION"
  OBVIOUS
<1>3. rules[1].holds => q \in BareModify
  OBVIOUS
<1>4. rules[3].holds => q \in BareRun
  OBVIOUS
<1>5. rules[4].holds => state.hasSql
  OBVIOUS
<1>6. rules[7].holds => StartsModify(q) \/ state.hasSql
  OBVIOUS
<1>7. q # <<>> => rules[8].holds
  OBVIOUS
<1>8. rules[9].holds
  OBVIOUS
<1>9. LocalDecision(q, state) = rules[Min(I)].action
  BY DEF LocalDecision
<1> HIDE DEF rules
<1>10. I \in SUBSET Nat /\ 9 \in I
  BY <1>1, <1>8
<1>11. Min(I) \in I /\ \A n \in I : Min(I) <= n
  BY <1>10, MinOfNaturals
<1>12. PICK i \in 1..9 : i = Min(I) /\ rules[i].holds
  BY <1>1, <1>11
<1>13. q # <<>> => i <= 8
  BY <1>1, <1>7, <1>11, <1>12
<1>14. LocalDecision(q, state) = rules[i].action
  BY <1>9, <1>12
<1>15. i \in {1, 2, 3, 4, 5, 6, 7, 8, 9}
  BY <1>12
<1> HIDE DEF I
<1> QED
  BY <1>2, <1>3, <1>4, <1>5, <1>6, <1>12, <1>13, <1>14, <1>15

Selectors == SortMarkers \union Lowest \union Highest \union First \union Final
BareWords == {"modify", "the", "previous", "sql", "query", "run", "a", "new"}

\* None of the bare commands has a word that selects rows.
LEMMA NoSelector == BareWords \intersect Selectors = {}
BY DEF BareWords, Selectors, SortMarkers, Lowest, Highest, First, Final

\* The words of three texts put together.
LEMMA ThreeParts ==
    ASSUME NEW x, NEW o, IsSeq(o), NEW y
    PROVE  ToSet(<<x>> \o o \o <<y>>) \subseteq {x, y} \union ToSet(o)
<1>1. IsSeq(<<x>> \o o) /\ ToSet(<<x>> \o o) \subseteq {x} \union ToSet(o)
  BY OneWord, ConcatWords
<1>2. PICK p : p = <<x>> \o o
  OBVIOUS
<1>3. ToSet(p \o <<y>>) \subseteq ToSet(p) \union {y}
  BY <1>1, <1>2, OneWord, ConcatWords
<1> QED
  BY <1>1, <1>2, <1>3

\* The words of bare changes of a statement,
LEMMA BareModifyWords == ASSUME NEW q \in BareModify PROVE ToSet(q) \subseteq BareWords
<1>1. PICK o \in {<<>>, <<"the">>} \union Objects, word \in {"sql", "query"} :
        q = <<"modify">> \o o \o <<word>>
  BY DEF BareModify
<1>2. IsSeq(o) /\ ToSet(o) \subseteq {"the", "previous"}
  BY <1>1, NoWords, OneWord, TwoWords DEF Objects
<1> QED
  BY <1>1, <1>2, ThreeParts DEF BareWords

\* and of bare commands to run one.
LEMMA BareRunWords == ASSUME NEW q \in BareRun PROVE ToSet(q) \subseteq BareWords
<1>1. CASE q = <<"new", "query">>
  BY <1>1, TwoWords DEF BareWords
<1>2. CASE q # <<"new", "query">>
  <2>1. PICK a \in {<<>>, <<"a">>, <<"new">>, <<"a", "new">>} : q = <<"run">> \o a \o <<"query">>
    BY <1>2 DEF BareRun
  <2>2. IsSeq(a) /\ ToSet(a) \subseteq {"a", "new"}
    BY <2>1, NoWords, OneWord, TwoWords
  <2> QED
    BY <2>1, <2>2, ThreeParts DEF BareWords
<1> QED
  BY <1>1, <1>2

\* Who can be answered from memory is asked back only without a statement to change.
LEMMA DecidesOnItsRows ==
    ASSUME NEW q, NEW turns, AnswerFromPrevious(q, turns) # None,
           Decide(q, turns) = "ASK_CLARIFICATION"
    PROVE  StartsModify(q) /\ LatestSuccessful(turns) = None
<1>1. LatestResult(turns) # None /\ LooksLikeResultReference(q)
  BY DEF AnswerFromPrevious
<1>2. ToSet(q) \intersect Selectors # {}
  BY <1>1 DEF LooksLikeResultReference, Has, Selectors
<1>3. q # <<>> /\ q \notin BareModify /\ q \notin BareRun
  BY <1>2, NoWords, NoSelector, BareModifyWords, BareRunWords
<1>4. PICK state : state = ConversationState(turns)
  OBVIOUS
<1>5. state.hasResult
  BY <1>1, <1>4 DEF ConversationState
<1>6. ASSUME ~state.hasSql PROVE LatestSuccessful(turns) = None
  BY <1>4, <1>6 DEF ConversationState
<1>7. PICK action : action = LocalDecision(q, state)
  OBVIOUS
<1>8. Safeguarded(action, q, state) = "ASK_CLARIFICATION"
  BY <1>4, <1>7 DEF Decide
<1>9. \/ action \in {"TRANSFORM_PREVIOUS_RESULT", "RUN_NEW_SQL"}
      \/ action = "MODIFY_PREVIOUS_SQL" /\ (StartsModify(q) \/ state.hasSql)
  BY <1>3, <1>7, FirstRule
<1>10. action = "MODIFY_PREVIOUS_SQL" /\ ~state.hasSql
  BY <1>5, <1>8, <1>9 DEF Safeguarded
<1> QED
  BY <1>6, <1>9, <1>10

\* action_decider.py:284-311: of every question that the memory can answer from the rows it
\* holds, the decider asks for a clarification only if it is put as a change to an earlier
\* statement, and no turn with a statement is left.
THEOREM DeciderMatchesMemory == Spec => []DeciderAgrees
<1>1. DeciderAgrees
  BY DecidesOnItsRows DEF DeciderAgrees
<1> QED
  BY <1>1, PTL

-----------------------------------------------------------------------------
(* What the eviction of the oldest rests on.                                *)

\* No session is there twice.
Once(u) == \A i, j \in DOMAIN u : u[i] = u[j] => i = j
UsedBefore(u, a, b) == \E i, j \in DOMAIN u : i < j /\ u[i] = a /\ u[j] = b

\* The items of a dictionary stand in the order in which their sessions were last used.
InOrder(d, u) ==
    /\ \A i \in DOMAIN d : d[i].key \in ToSet(u)
    /\ \A i, j \in DOMAIN d : i < j => UsedBefore(u, d[i].key, d[j].key)

\* The keys of a dictionary.
HasKey(d, s) == \E i \in DOMAIN d : d[i].key = s

\* As long as no session has two requests at a time, a key that was not found is still
\* missing when its orchestrator is stored, at the end of the dictionary.
Apart == \A v, w \in Workers : v # w /\ Serving(v) /\ Serving(w) => Session(v) # Session(w)
Missing == \A w \in Workers : At(w, "construct") => ~HasKey(bySession[at[w]], Session(w))
Lru ==
    /\ IsSeq(used) /\ Once(used)
    /\ mixed = {} => Apart /\ Missing
    /\ mixed = {} /\ Len(bySession) = 1 => InOrder(bySession[1], used)

\* A use puts a session last and leaves the others in order.
UsedLast(r, u, x) ==
    /\ IsSeq(r) /\ Once(r) /\ x \in ToSet(r) /\ ToSet(u) \subseteq ToSet(r)
    /\ \A a \in ToSet(u) : a # x => UsedBefore(r, a, x)
    /\ \A a, b : a # x /\ b # x /\ UsedBefore(u, a, b) => UsedBefore(r, a, b)
LEMMA PutLast ==
    ASSUME NEW u, IsSeq(u), Once(u), NEW x, NEW S, S = {i \in DOMAIN u : u[i] # x},
           NEW f, Arranges(f, u, S, Earlier(S)), NEW r, r = Append(f, x)
    PROVE  UsedLast(r, u, x)
<1>1. S \in SUBSET DOMAIN u /\ S \in SUBSET Nat
  BY SeqFacts
<1>2. \A i, j \in S : <<i, j>> \in Earlier(S) => i < j
  BY DEF Earlier
<1>3. IsSeq(f)
  BY DEF Arranges
<1>4. \A i \in S : u[i] \in ToSet(f)
  BY DEF Arranges
<1>5. \A y \in ToSet(f) : \E i \in S : y = u[i]
  BY DEF Arranges
<1>7. PICK n \in Nat : n = Len(f) /\ DOMAIN f = 1..n /\ IsSeq(f)
  BY <1>3, SeqFacts
<1>8. /\ IsSeq(r) /\ DOMAIN r = 1..n + 1
      /\ \A i \in 1..n : r[i] = f[i]
      /\ r[n + 1] = x
  <2>1. Longer(r, f, x)
    BY <1>3, AppendedLonger
  <2> QED
    BY <1>7, <2>1 DEF Longer
<1>9. r[n + 1] = x
  BY <1>8
<1>10. ASSUME NEW k \in 1..n, NEW l \in 1..n, k < l
       PROVE  \E i, j \in S : f[k] = u[i] /\ f[l] = u[j] /\ i < j
  <2>1. PICK i \in S, j \in S : f[k] = u[i] /\ f[l] = u[j] /\ <<i, j>> \in Earlier(S)
    <3>1. k \in DOMAIN f /\ l \in DOMAIN f
      BY <1>7
    <3>2. FromPair(f, u, S, Earlier(S), k, l)
      BY <1>10, <3>1, ArrangedPairs
    <3> QED
      BY <3>2 DEF FromPair
  <2> QED
    BY <1>2, <2>1
<1>11. \A k \in 1..n : f[k] # x /\ f[k] \in ToSet(u)
  <2>1. \A k \in 1..n : f[k] \in ToSet(f)
    BY <1>7 DEF ToSet
  <2> QED
    BY <1>1, <1>5, <2>1 DEF ToSet
<1>12. \A a \in ToSet(u) : a # x => \E k \in 1..n : f[k] = a
  BY <1>4, <1>7 DEF ToSet
<1>13. \A k, l \in 1..n : f[k] = f[l] => k = l
  <2>1. \A k, l \in 1..n : k < l => f[k] # f[l]
    BY <1>1, <1>10 DEF Once
  <2>2. \A k, l \in 1..n : k < l \/ l < k \/ k = l
    OBVIOUS
  <2> QED
    BY <2>1, <2>2
<1>14. \A k \in 1..n + 1 : k \in 1..n \/ k = n + 1
  BY <1>7
<1>15. Once(r)
  <2>1. ASSUME NEW i \in 1..n + 1, NEW j \in 1..n + 1, r[i] = r[j] PROVE i = j
    <3>1. CASE i \in 1..n /\ j \in 1..n
      BY <1>8, <1>13, <2>1, <3>1
    <3>2. CASE i \in 1..n /\ j = n + 1
      BY <1>8, <1>9, <1>11, <2>1, <3>2
    <3>3. CASE i = n + 1 /\ j \in 1..n
      BY <1>8, <1>9, <1>11, <2>1, <3>3
    <3> QED
      BY <1>14, <3>1, <3>2, <3>3
  <2> QED
    BY <1>8, <2>1 DEF Once
<1>16. \A k \in 1..n : k \in 1..n + 1 /\ n + 1 \in 1..n + 1 /\ k < n + 1
  BY <1>7
<1>17. x \in ToSet(r)
  <2>1. n + 1 \in 1..n + 1
    BY <1>7
  <2> QED
    BY <1>8, <1>9, <2>1 DEF ToSet
<1>18. \A a \in ToSet(u) : a # x => UsedBefore(r, a, x)
  <2>1. ASSUME NEW a \in ToSet(u), a # x PROVE UsedBefore(r, a, x)
    <3>1. PICK k \in 1..n : f[k] = a
      BY <1>12, <2>1
    <3>2. r[k] = a /\ k \in DOMAIN r /\ n + 1 \in DOMAIN r /\ k < n + 1
      BY <1>8, <1>16, <3>1
    <3> QED
      BY <1>9, <3>2 DEF UsedBefore
  <2> QED
    BY <2>1
<1>19. ToSet(u) \subseteq ToSet(r)
  BY <1>8, <1>12, <1>16, <1>17 DEF ToSet
<1>20. ASSUME NEW a, NEW b, a # x, b # x, UsedBefore(u, a, b) PROVE UsedBefore(r, a, b)
  <2>1. PICK i \in DOMAIN u, j \in DOMAIN u : i < j /\ u[i] = a /\ u[j] = b
    BY <1>20 DEF UsedBefore
  <2>2. a \in ToSet(u) /\ b \in ToSet(u)
    BY <2>1 DEF ToSet
  <2>3. PICK k \in 1..n, l \in 1..n : f[k] = a /\ f[l] = b
    BY <1>12, <1>20, <2>2
  <2>4. i \in Nat /\ j \in Nat
    BY <1>1, <2>1, SeqFacts
  <2>5. k # l
    BY <2>1, <2>3, <2>4 DEF Once
  <2>6. ~(l < k)
    <3>1. SUFFICES ASSUME l < k PROVE FALSE
      OBVIOUS
    <3>2. PICK p \in S, m \in S : f[l] = u[p] /\ f[k] = u[m] /\ p < m
      BY <1>10, <3>1
    <3>3. p = j /\ m = i
      BY <1>1, <2>1, <2>3, <3>2 DEF Once
    <3> QED
      BY <2>1, <2>4, <3>2, <3>3
  <2>7. k < l
    BY <2>5, <2>6
  <2> QED
    BY <1>8, <1>16, <2>3, <2>7 DEF UsedBefore
<1> QED
  BY <1>8, <1>15, <1>17, <1>18, <1>19, <1>20 DEF UsedLast

LEMMA UsesLast ==
    ASSUME NEW u, IsSeq(u), Once(u), NEW x
    PROVE  UsedLast(Append(Where(u, LAMBDA s : s # x), x), u, x)
<1>1. PICK S : S = {i \in DOMAIN u : u[i] # x}
  OBVIOUS
<1>2. PICK f : f = Arranged(u, S, Earlier(S))
  OBVIOUS
<1>3. S \in SUBSET DOMAIN u /\ S \in SUBSET Nat
  BY <1>1, SeqFacts
<1>4. PICK R : R = Earlier(S) /\ LinearOn(S, R)
  BY <1>3, EarlierIsLinear
<1>5. Arranges(f, u, S, R)
  BY <1>2, <1>3, <1>4, ArrangedSeq
<1>6. Where(u, LAMBDA s : s # x) = f
  BY <1>1, <1>2 DEF Where
<1> QED
  BY <1>1, <1>4, <1>5, <1>6, PutLast

\* What was used before something else is something else.
LEMMA UsedApart ==
    ASSUME NEW u, IsSeq(u), Once(u), NEW a, NEW b, UsedBefore(u, a, b)
    PROVE  a # b
<1>1. PICK i \in DOMAIN u, j \in DOMAIN u : i < j /\ u[i] = a /\ u[j] = b
  BY DEF UsedBefore
<1>2. i \in Nat /\ j \in Nat
  BY SeqFacts
<1> QED
  BY <1>1, <1>2 DEF Once

\* A key is that of an item.
LEMMA KeyOfItem == \A d, s : HasKey(d, s) <=> \E e \in ToSet(d) : e.key = s
BY DEF HasKey, ToSet

\* What is appended adds its key.
LEMMA AddedKeys ==
    ASSUME NEW d, IsSeq(d), NEW e
    PROVE  \A s : HasKey(Append(d, e), s) <=> HasKey(d, s) \/ s = e.key
<1>1. PICK f : f = Append(d, e) /\ ToSet(f) = ToSet(d) \union {e}
  BY AddedItems
<1>2. \A s : HasKey(f, s) <=> HasKey(d, s) \/ s = e.key
  BY <1>1, KeyOfItem
<1> QED
  BY <1>1, <1>2

\* What is moved keeps its key.
LEMMA MovedKeys ==
    ASSUME NEW d, IsSeq(d), NEW i \in DOMAIN d
    PROVE  \A s : HasKey(Append(RemoveAt(d, i), d[i]), s) <=> HasKey(d, s)
<1>1. PICK f : f = Append(RemoveAt(d, i), d[i]) /\ ToSet(f) = ToSet(d)
  BY MovedItems
<1>2. \A s : HasKey(f, s) <=> HasKey(d, s)
  BY <1>1, KeyOfItem
<1> QED
  BY <1>1, <1>2

\* A new key that was used just now goes to the end.
LEMMA AddedInOrder ==
    ASSUME NEW d, IsSeq(d), NEW u, InOrder(d, u), NEW e, ~HasKey(d, e.key),
           NEW r, UsedLast(r, u, e.key)
    PROVE  InOrder(Append(d, e), r)
<1>1. PICK n \in Nat : n = Len(d) /\ DOMAIN d = 1..n
  BY SeqFacts
<1>2. PICK f : f = Append(d, e)
  OBVIOUS
<1>3. DOMAIN f = 1..n + 1 /\ f[n + 1] = e /\ \A i \in 1..n : f[i] = d[i]
  <2>1. Longer(f, d, e)
    BY <1>2, AppendedLonger
  <2> QED
    BY <1>1, <2>1 DEF Longer
<1>4. \A k \in 1..n + 1 : k \in 1..n \/ k = n + 1
  BY <1>1
<1>5. \A i \in 1..n : d[i].key # e.key /\ d[i].key \in ToSet(u)
  BY <1>1 DEF HasKey, InOrder
<1>6. \A i \in 1..n + 1 : f[i].key \in ToSet(r)
  <2>1. ToSet(u) \subseteq ToSet(r) /\ e.key \in ToSet(r)
    BY DEF UsedLast
  <2> QED
    BY <1>3, <1>4, <1>5, <2>1
<1>7. ASSUME NEW i \in 1..n + 1, NEW j \in 1..n + 1, i < j
      PROVE  UsedBefore(r, f[i].key, f[j].key)
  <2>1. i \in 1..n
    BY <1>4, <1>7
  <2>2. CASE j \in 1..n
    <3>1. UsedBefore(u, d[i].key, d[j].key)
      BY <1>1, <1>7, <2>1, <2>2 DEF InOrder
    <3>2. d[i].key # e.key /\ d[j].key # e.key
      BY <1>5, <2>1, <2>2
    <3>3. UsedBefore(r, d[i].key, d[j].key)
      BY <3>1, <3>2 DEF UsedLast
    <3> QED
      BY <1>3, <2>1, <2>2, <3>3
  <2>3. CASE j = n + 1
    <3>1. UsedBefore(r, d[i].key, e.key)
      BY <1>5, <2>1 DEF UsedLast
    <3> QED
      BY <1>3, <2>1, <2>3, <3>1
  <2> QED
    BY <1>4, <2>2, <2>3
<1>8. InOrder(f, r)
  BY <1>3, <1>6, <1>7 DEF InOrder
<1> QED
  BY <1>2, <1>8

\* An item that was used just now is moved to the end.
LEMMA MovedInOrder ==
    ASSUME NEW d, IsSeq(d), NEW u, IsSeq(u), Once(u), InOrder(d, u), NEW i \in DOMAIN d,
           NEW r, UsedLast(r, u, d[i].key)
    PROVE  InOrder(Append(RemoveAt(d, i), d[i]), r)
<1>1. PICK n \in Nat : n = Len(d) /\ DOMAIN d = 1..n
  BY SeqFacts
<1>2. PICK f : f = RemoveAt(d, i) /\ Closes(f, d, i)
  BY RemovedPlaces
<1>3. /\ IsSeq(f) /\ DOMAIN f = 1..n - 1
      /\ \A k \in 1..n - 1 : f[k] = d[IF k < i THEN k ELSE k + 1]
  BY <1>1, <1>2 DEF Closes
<1>4. \A k \in 1..n - 1 : (IF k < i THEN k ELSE k + 1) \in (1..n) \ {i}
  BY <1>1
<1>5. \A j, k \in 1..n - 1 : j < k =>
        (IF j < i THEN j ELSE j + 1) < (IF k < i THEN k ELSE k + 1)
  BY <1>1
<1>6. InOrder(f, u)
  <2>1. \A k \in 1..n - 1 : f[k].key \in ToSet(u)
    BY <1>1, <1>3, <1>4 DEF InOrder
  <2>2. ASSUME NEW j \in 1..n - 1, NEW k \in 1..n - 1, j < k
        PROVE  UsedBefore(u, f[j].key, f[k].key)
    <3>1. PICK a, b : /\ a = IF j < i THEN j ELSE j + 1
                      /\ b = IF k < i THEN k ELSE k + 1
      OBVIOUS
    <3>2. a \in DOMAIN d /\ b \in DOMAIN d /\ a < b /\ f[j] = d[a] /\ f[k] = d[b]
      BY <1>1, <1>3, <1>4, <1>5, <2>2, <3>1
    <3> QED
      BY <3>2 DEF InOrder
  <2> QED
    BY <1>3, <2>1, <2>2 DEF InOrder
<1>7. \A k \in DOMAIN d : k # i => d[k].key # d[i].key
  <2>1. ASSUME NEW k \in DOMAIN d, k < i PROVE d[k].key # d[i].key
    BY <2>1, UsedApart DEF InOrder
  <2>2. ASSUME NEW k \in DOMAIN d, i < k PROVE d[k].key # d[i].key
    BY <2>2, UsedApart DEF InOrder
  <2> QED
    BY <1>1, <2>1, <2>2
<1>8. ~HasKey(f, d[i].key)
  BY <1>1, <1>3, <1>4, <1>7 DEF HasKey
<1> QED
  BY <1>2, <1>3, <1>6, <1>8, AddedInOrder

\* A key that goes was used before those that stay.
OldestOut(n, d, u) ==
    \A s, out : HasKey(n, s) /\ HasKey(d, out) /\ ~HasKey(n, out) => UsedBefore(u, out, s)

\* The first item is the one whose session was used before those of all others.
LEMMA PoppedInOrder ==
    ASSUME NEW d, IsSeq(d), d # <<>>, NEW u
    PROVE  /\ \A s : HasKey(Tail(d), s) => HasKey(d, s)
           /\ InOrder(d, u) =>
                InOrder(Tail(d), u) /\ OldestOut(Tail(d), d, u)
<1>1. PICK n \in Nat : n = Len(d) /\ DOMAIN d = 1..n
  BY SeqFacts
<1>2. PICK f : f = Tail(d)
  OBVIOUS
<1>3. n # 0
  BY <1>1, EmptySeq DEF IsSeq
<1>4. DOMAIN f = 1..n - 1 /\ \A k \in 1..n - 1 : f[k] = d[k + 1]
  <2>1. f \in Seq(ToSet(d)) /\ Len(f) = n - 1 /\ \A k \in 1..n - 1 : f[k] = d[k + 1]
    BY <1>1, <1>2, HeadTailProperties DEF IsSeq
  <2> QED
    BY <2>1, LenProperties
<1>5. \A k \in 1..n - 1 : k + 1 \in 1..n /\ 1 < k + 1
  BY <1>1
<1>6. \A k \in 1..n : k = 1 \/ (k - 1 \in 1..n - 1 /\ k - 1 + 1 = k)
  BY <1>1
<1>7. \A s : HasKey(f, s) => HasKey(d, s)
  BY <1>1, <1>4, <1>5 DEF HasKey
<1>8. ASSUME InOrder(d, u) PROVE InOrder(f, u)
  <2>1. \A j, k \in 1..n - 1 : j < k => j + 1 < k + 1
    OBVIOUS
  <2> QED
    BY <1>1, <1>4, <1>5, <1>8, <2>1 DEF InOrder
<1>9. ASSUME InOrder(d, u), NEW s, NEW out, HasKey(f, s), HasKey(d, out), ~HasKey(f, out)
      PROVE  UsedBefore(u, out, s)
  <2>1. PICK k \in 1..n - 1 : f[k].key = s
    BY <1>4, <1>9 DEF HasKey
  <2>2. PICK j \in 1..n : d[j].key = out
    BY <1>1, <1>9 DEF HasKey
  <2>3. j = 1
    BY <1>4, <1>6, <1>9, <2>2 DEF HasKey
  <2>4. 1 \in DOMAIN d /\ k + 1 \in DOMAIN d /\ 1 < k + 1 /\ d[k + 1].key = s
    BY <1>1, <1>4, <1>5, <2>1, <2>2, <2>3
  <2> QED
    BY <1>9, <2>2, <2>3, <2>4 DEF InOrder
<1>10. InOrder(d, u) => OldestOut(f, d, u)
  BY <1>9, Zenon DEF OldestOut
<1> QED
  BY <1>2, <1>7, <1>8, <1>10

\* Steps that leave the dictionaries alone.
LEMMA ElsewhereLru ==
    ASSUME NEW w \in Workers, Lru, Others(w),
           used' = used, mixed' = mixed, bySession' = bySession,
           \A v \in Workers \ {w} : at'[v] = at[v],
           Serving(w)' => Serving(w) /\ request'[w] = request[w],
           At(w, "construct")' => ~HasKey(bySession'[at'[w]], Session(w)')
    PROVE  Lru'
<1>1. \A v \in Workers : Serving(v)' => Serving(v) /\ Session(v)' = Session(v)
  BY DEF Others, Serving, Session
<1>2. mixed = {} => Apart'
  BY <1>1 DEF Apart, Lru
<1>3. ASSUME mixed = {}, NEW v \in Workers, At(v, "construct")'
      PROVE  ~HasKey(bySession'[at'[v]], Session(v)')
  <2>1. CASE v = w
    BY <1>3, <2>1
  <2>2. CASE v # w
    <3>1. At(v, "construct") /\ at'[v] = at[v] /\ Session(v)' = Session(v)
      BY <1>3, <2>2 DEF Others, At, Session
    <3> QED
      BY <1>3, <3>1 DEF Lru, Missing
  <2> QED
    BY <2>1, <2>2
<1>4. mixed = {} => Missing'
  BY <1>3 DEF Missing
<1> QED
  BY <1>2, <1>4 DEF Lru

\* Steps that change the dictionary a thread uses, without a key of another session's.
LEMMA DictLru ==
    ASSUME NEW w \in Workers, Typed, Lru, Others(w), HasPipeline(w),
           UNCHANGED <<at, request, mixed>>,
           ~At(w, "construct")', Serving(w),
           NEW d, d = bySession[at[w]], NEW n, bySession' = ReplaceAt(bySession, at[w], n),
           \A s : HasKey(n, s) => HasKey(d, s) \/ s = Session(w),
           IsSeq(used'), Once(used'),
           mixed = {} /\ InOrder(d, used) => InOrder(n, used')
    PROVE  Lru'
<1>1. at[w] \in DOMAIN bySession /\ IsSeq(bySession)
  BY SeqOfSeq DEF Typed, Using, Process
<1>2. /\ Len(bySession') = Len(bySession)
      /\ \A p \in DOMAIN bySession : bySession'[p] = IF p = at[w] THEN n ELSE bySession[p]
  BY <1>1, Replaced
<1>3. \A v \in Workers : Session(v)' = Session(v)
  BY DEF Session
<1>4. \A v \in Workers : Serving(v)' => Serving(v)
  BY DEF Others, Serving
<1>5. mixed = {} => Apart'
  BY <1>3, <1>4 DEF Apart, Lru
<1>6. ASSUME mixed = {}, NEW v \in Workers, At(v, "construct")'
      PROVE  ~HasKey(bySession'[at[v]], Session(v))
  <2>1. v # w /\ At(v, "construct")
    BY <1>6 DEF Others, At
  <2>2. Session(v) # Session(w)
    BY <1>6, <2>1 DEF Lru, Apart, Serving, At
  <2>3. at[v] \in DOMAIN bySession
    BY <2>1 DEF Typed, Using, HasPipeline, At
  <2>4. ~HasKey(bySession[at[v]], Session(v))
    BY <1>6, <2>1 DEF Lru, Missing
  <2> QED
    BY <1>2, <2>2, <2>3, <2>4
<1>7. mixed = {} => Missing'
  BY <1>3, <1>6 DEF Missing
<1>8. ASSUME mixed = {}, Len(bySession) = 1 PROVE InOrder(bySession'[1], used')
  <2>1. DOMAIN bySession = 1..Len(bySession)
    BY <1>1, SeqFacts
  <2>2. at[w] = 1
    BY <1>1, <1>8, <2>1
  <2>3. InOrder(d, used)
    BY <1>8, <2>2 DEF Lru
  <2> QED
    BY <1>1, <1>2, <1>8, <2>2, <2>3
<1> QED
  BY <1>2, <1>5, <1>7, <1>8 DEF Lru

\* A thread's use of its session.
LEMMA UsesOnce ==
    ASSUME NEW w, Lru, Uses(w)
    PROVE  UsedLast(used', used, Session(w)) /\ IsSeq(used') /\ Once(used')
<1>1. UsedLast(used', used, Session(w))
  BY UsesLast DEF Lru, Uses
<1> QED
  BY <1>1 DEF UsedLast

\* A lookup: no key goes, and the one that was found is now the last.
LEMMA TouchLru ==
    ASSUME NEW w \in Workers, Typed, Lru, Touch(w)
    PROVE  /\ Lru'
           /\ \A p \in DOMAIN bySession : \A s : HasKey(bySession[p], s) => HasKey(bySession'[p], s)
<1> USE DEF Touch, At, Goto
<1>1. HasPipeline(w) /\ Serving(w) /\ at[w] \in DOMAIN bySession
  BY DEF Typed, HasPipeline, Serving, Using
<1>2. PICK d : d = bySession[at[w]]
  OBVIOUS
<1>3. PICK i : i = Min(Places(w)) /\ i \in 1..Len(d) /\ d[i].key = Session(w)
  BY <1>1, <1>2, PlaceFound DEF Typed, Item
<1>4. IsSeq(d) /\ IsSeq(bySession)
  BY <1>1, <1>2, SeqOfSeq, LenProperties DEF Typed, Process
<1>5. i \in DOMAIN d
  BY <1>3, <1>4, SeqFacts
<1>6. PICK n : n = Append(RemoveAt(d, i), d[i])
  OBVIOUS
<1>7. bySession' = ReplaceAt(bySession, at[w], n)
  BY <1>2, <1>3, <1>6 DEF SetDict, ReplaceAt, Item
<1>8. UsedLast(used', used, Session(w)) /\ IsSeq(used') /\ Once(used')
  BY UsesOnce
<1>9. InOrder(d, used) => InOrder(n, used')
  BY <1>3, <1>4, <1>5, <1>6, <1>8, MovedInOrder DEF Lru
<1>10. \A s : HasKey(n, s) <=> HasKey(d, s)
  BY <1>4, <1>5, <1>6, MovedKeys
<1>11. Others(w) /\ ~At(w, "construct")'
  BY DEF Others, Typed, Kinds
<1>12. Lru'
  BY <1>1, <1>2, <1>7, <1>8, <1>9, <1>10, <1>11, DictLru DEF traces
<1>13. \A p \in DOMAIN bySession : bySession'[p] = IF p = at[w] THEN n ELSE bySession[p]
  BY <1>4, <1>7, Replaced
<1> QED
  BY <1>2, <1>10, <1>12, <1>13

\* A new orchestrator: its key was missing, if no session has two requests at a time.
LEMMA ConstructLru ==
    ASSUME NEW w \in Workers, Typed, Lru, Construct(w)
    PROVE  /\ Lru'
           /\ \A p \in DOMAIN bySession : \A s : HasKey(bySession[p], s) => HasKey(bySession'[p], s)
<1> USE DEF Construct, At, Goto
<1>1. HasPipeline(w) /\ Serving(w) /\ at[w] \in DOMAIN bySession
  BY DEF Typed, HasPipeline, Serving, Using
<1>2. PICK d : d = bySession[at[w]]
  OBVIOUS
<1>3. IsSeq(d) /\ IsSeq(bySession)
  BY <1>1, <1>2, SeqOfSeq, LenProperties DEF Typed, Process
<1>4. PICK item : item = [key |-> Key(w), orch |-> Len(memory) + 1] /\ item.key = Session(w)
  BY DEF Key
<1>5. PICK n : /\ n = IF Places(w) = {} THEN Append(d, item) ELSE ReplaceAt(d, Min(Places(w)), item)
  OBVIOUS
<1>6. bySession' = ReplaceAt(bySession, at[w], n)
  BY <1>2, <1>4, <1>5 DEF SetDict, ReplaceAt
<1>7. UsedLast(used', used, Session(w)) /\ IsSeq(used') /\ Once(used')
  BY UsesOnce
<1>8. Places(w) = {} <=> ~HasKey(d, Session(w))
  BY <1>2 DEF Places, Key, HasKey
<1>9. \A s : HasKey(n, s) <=> HasKey(d, s) \/ s = Session(w)
  <2>1. CASE Places(w) = {}
    BY <1>3, <1>4, <1>5, <2>1, AddedKeys
  <2>2. CASE Places(w) # {}
    <3>1. PICK i : i = Min(Places(w)) /\ i \in 1..Len(d) /\ d[i].key = Session(w)
      BY <1>1, <1>2, <2>2, PlaceFound DEF Typed, Item
    <3>2. DOMAIN n = DOMAIN d /\ \A j \in DOMAIN d : n[j] = IF j = i THEN item ELSE d[j]
      BY <1>3, <1>5, <2>2, <3>1, Replaced
    <3>3. i \in DOMAIN d
      BY <1>3, <3>1, SeqFacts
    <3>4. \A j \in DOMAIN d : n[j].key = d[j].key
      BY <1>4, <3>1, <3>2
    <3> QED
      BY <3>1, <3>2, <3>3, <3>4 DEF HasKey
  <2> QED
    BY <2>1, <2>2
<1>10. mixed = {} /\ InOrder(d, used) => InOrder(n, used')
  <2>1. mixed = {} => ~HasKey(d, Session(w))
    BY <1>2 DEF Lru, Missing
  <2> QED
    BY <1>3, <1>4, <1>5, <1>7, <1>8, <2>1, AddedInOrder
<1>11. Others(w) /\ ~At(w, "construct")'
  BY DEF Others, Typed, Kinds
<1>12. Lru'
  BY <1>1, <1>2, <1>6, <1>7, <1>9, <1>10, <1>11, DictLru
<1>13. \A p \in DOMAIN bySession : bySession'[p] = IF p = at[w] THEN n ELSE bySession[p]
  BY <1>3, <1>6, Replaced
<1> QED
  BY <1>2, <1>9, <1>12, <1>13

\* An eviction: of the key used before all the others, if they are in order.
LEMMA PopLru ==
    ASSUME NEW w \in Workers, Typed, Lru, Pop(w)
    PROVE  /\ Lru'
           /\ \A p \in DOMAIN bySession :
                InOrder(bySession[p], used) => OldestOut(bySession'[p], bySession[p], used)
<1> USE DEF Pop, At, Goto
<1>1. HasPipeline(w) /\ Serving(w) /\ at[w] \in DOMAIN bySession
  BY DEF Typed, HasPipeline, Serving, Using
<1>2. PICK d : d = bySession[at[w]]
  OBVIOUS
<1>3. IsSeq(d) /\ IsSeq(bySession) /\ d # <<>>
  <2>1. d # <<>>
    BY <1>2, RoomToPop DEF Typed
  <2> QED
    BY <1>1, <1>2, <2>1, SeqOfSeq, LenProperties DEF Typed, Process
<1>4. PICK n : n = Tail(d)
  OBVIOUS
<1>5. bySession' = ReplaceAt(bySession, at[w], n)
  BY <1>2, <1>4 DEF SetDict, ReplaceAt
<1>6. \A s : HasKey(n, s) => HasKey(d, s)
  BY <1>3, <1>4, PoppedInOrder
<1>7. InOrder(d, used) => InOrder(n, used)
  BY <1>3, <1>4, PoppedInOrder
<1>8. InOrder(d, used) => OldestOut(n, d, used)
  BY <1>3, <1>4, PoppedInOrder
<1>9. Others(w) /\ ~At(w, "construct")' /\ used' = used
  BY DEF Others, Typed, Kinds, traces
<1>10. Lru'
  BY <1>1, <1>2, <1>5, <1>6, <1>7, <1>9, DictLru DEF Lru, traces
<1>11. \A p \in DOMAIN bySession : bySession'[p] = IF p = at[w] THEN n ELSE bySession[p]
  BY <1>3, <1>5, Replaced
<1>12. \A p \in DOMAIN bySession : OldestOut(bySession[p], bySession[p], used)
  BY DEF OldestOut
<1> QED
  BY <1>2, <1>8, <1>10, <1>11, <1>12

\* A new pipeline has no sessions.
LEMMA MakeLru ==
    ASSUME NEW w \in Workers, Typed, Lru, Make(w)
    PROVE  Lru' /\ \A p \in DOMAIN bySession : bySession'[p] = bySession[p]
<1> USE DEF Make, At, Goto, traces
<1>1. IsSeq(bySession)
  BY SeqOfSeq DEF Typed, Process
<1>2. PICK n \in Nat : n = Len(bySession) /\ DOMAIN bySession = 1..n
  BY <1>1, SeqFacts
<1>3. /\ DOMAIN bySession' = 1..n + 1 /\ Len(bySession') = n + 1
      /\ \A p \in 1..n : bySession'[p] = bySession[p]
      /\ bySession'[n + 1] = <<>>
  <2>1. Longer(bySession', bySession, <<>>) /\ Len(bySession') = Len(bySession) + 1
    BY <1>1, AppendedLonger, Appended
  <2> QED
    BY <1>2, <2>1 DEF Longer
<1>4. \A v \in Workers : Session(v)' = Session(v) /\ (Serving(v)' => Serving(v))
  BY DEF Session, Serving, Typed, Kinds
<1>5. mixed = {} => Apart'
  BY <1>4 DEF Apart, Lru
<1>6. ASSUME mixed = {}, NEW v \in Workers, At(v, "construct")'
      PROVE  ~HasKey(bySession'[at[v]], Session(v))
  <2>1. At(v, "construct") /\ at[v] \in DOMAIN bySession
    BY <1>6 DEF Typed, Kinds, Using, HasPipeline
  <2> QED
    BY <1>2, <1>3, <1>6, <2>1 DEF Lru, Missing
<1>7. mixed = {} => Missing'
  BY <1>4, <1>6 DEF Missing
<1>8. ASSUME Len(bySession') = 1 PROVE InOrder(bySession'[1], used)
  <2>1. n = 0
    BY <1>2, <1>3, <1>8
  <2> QED
    BY <1>3, <2>1, EmptySeq DEF InOrder
<1> QED
  BY <1>2, <1>3, <1>5, <1>7, <1>8 DEF Lru

\* A request: a session that is already served is mixed from then on.
LEMMA AskLru ==
    ASSUME NEW w \in Workers, NEW s \in Sessions, NEW q \in setting.asks[s], Typed, Lru,
           Ask(w, s, q)
    PROVE  Lru'
<1> USE DEF Ask, At, Goto, shared
<1>1. /\ pc' = [pc EXCEPT ![w] = "select"] /\ DOMAIN pc = Workers
      /\ request' = [request EXCEPT ![w] = [session |-> s, question |-> q]]
      /\ DOMAIN request = Workers /\ pc[w] = "idle"
  BY DEF Typed, Kinds
<1>2. /\ Session(w)' = s /\ pc'[w] = "select"
      /\ \A v \in Workers \ {w} : Session(v)' = Session(v) /\ pc'[v] = pc[v]
  BY <1>1 DEF Session
<1>3. mixed' = {} => mixed = {} /\ \A v \in Workers : Serving(v) => Session(v) # s
  OBVIOUS
<1>4. ASSUME mixed' = {}, NEW v \in Workers, NEW u \in Workers, v # u, Serving(v)', Serving(u)'
      PROVE  Session(v)' # Session(u)'
  <2>1. CASE v = w
    BY <1>2, <1>3, <1>4, <2>1 DEF Serving
  <2>2. CASE u = w
    BY <1>2, <1>3, <1>4, <2>2 DEF Serving
  <2>3. CASE v # w /\ u # w
    BY <1>2, <1>3, <1>4, <2>3 DEF Serving, Lru, Apart
  <2> QED
    BY <2>1, <2>2, <2>3
<1>5. mixed' = {} => Apart'
  BY <1>4 DEF Apart
<1>6. mixed' = {} => Missing'
  <2>1. ASSUME mixed = {}, NEW v \in Workers, At(v, "construct")'
        PROVE  ~HasKey(bySession[at[v]], Session(v)')
    <3>1. v # w /\ At(v, "construct")
      BY <1>2, <2>1
    <3> QED
      BY <1>2, <2>1, <3>1 DEF Lru, Missing
  <2> QED
    BY <1>3, <2>1 DEF Missing
<1> QED
  BY <1>3, <1>5, <1>6 DEF Lru

\* What a step of a thread, and any step, does to the dictionaries.
Ages ==
    \A p \in DOMAIN bySession :
        \/ \A s : HasKey(bySession[p], s) => HasKey(bySession'[p], s)
        \/ InOrder(bySession[p], used) => OldestOut(bySession'[p], bySession[p], used)

LEMMA StepLru ==
    ASSUME NEW w \in Workers, Typed, Lru, Step(w)
    PROVE  Lru' /\ Ages
<1> USE DEF At, Goto
<1>1. ASSUME bySession' = bySession PROVE Ages
  BY <1>1 DEF Ages
<1>2. CASE Moves(w)
  <2>1. PICK place \in Labels :
          /\ pc' = [pc EXCEPT ![w] = place] /\ Leads(pc[w], place)
          /\ place = "construct" => Places(w) = {}
          /\ \/ at' = at /\ place # "find"
             \/ at' = [at EXCEPT ![w] = prod] /\ place = "find"
    BY <1>2 DEF Moves
  <2>2. UNCHANGED <<bySession, request, draft, used, mixed>>
    BY <1>2 DEF Moves, shared, traces
  <2>3. Others(w) /\ pc'[w] = place /\ \A v \in Workers \ {w} : at'[v] = at[v]
    BY <2>1, <2>2 DEF Others, Typed, Kinds
  <2>4. Serving(w)' => Serving(w) /\ request'[w] = request[w]
    BY <2>1, <2>2 DEF Serving, Leads
  <2>5. At(w, "construct")' => ~HasKey(bySession'[at'[w]], Session(w)')
    BY <2>1, <2>2, <2>3 DEF Places, Key, HasKey, Session
  <2>6. Lru'
    BY <2>2, <2>3, <2>4, <2>5, ElsewhereLru
  <2> QED
    BY <1>1, <2>2, <2>6
<1>3. CASE Decides(w) \/ AppendTurn(w) \/ Slice(w) \/ Prepares(w)
  <2>1. /\ UNCHANGED <<bySession, request, at, used, mixed>> /\ Serving(w)
    BY <1>3 DEF Decides, AppendTurn, Slice, Prepares, shared, traces, Serving
  <2>2. Others(w) /\ ~At(w, "construct")'
    <3>1. CASE Decides(w) \/ AppendTurn(w) \/ Slice(w)
      BY <2>1, <3>1 DEF Decides, Drafts, AppendTurn, Slice, Others, Typed, Kinds
    <3>2. CASE Prepares(w)
      BY <2>1, <3>2 DEF Prepares, OfflinePlaces, Others, Typed, Kinds
    <3> QED
      BY <1>3, <3>1, <3>2
  <2>3. Lru'
    BY <2>1, <2>2, ElsewhereLru
  <2> QED
    BY <1>1, <2>1, <2>3
<1>4. CASE Store(w) \/ OfflineAnswer(w)
  <2>1. /\ UNCHANGED <<bySession, used, mixed>>
        /\ pc' = [pc EXCEPT ![w] = "idle"] /\ request' = [request EXCEPT ![w] = None]
        /\ at' = [at EXCEPT ![w] = 0] /\ draft' = [draft EXCEPT ![w] = None]
    BY <1>4 DEF Store, OfflineAnswer, Answer, shared
  <2>2. /\ Others(w) /\ ~At(w, "construct")' /\ ~Serving(w)'
        /\ \A v \in Workers \ {w} : at'[v] = at[v]
    BY <2>1 DEF Others, Typed, Kinds, Serving
  <2>3. Lru'
    BY <2>1, <2>2, ElsewhereLru
  <2> QED
    BY <1>1, <2>1, <2>3
<1>5. CASE Make(w)
  BY <1>5, MakeLru DEF Ages
<1>6. CASE Touch(w)
  BY <1>6, TouchLru DEF Ages
<1>7. CASE Construct(w)
  BY <1>7, ConstructLru DEF Ages
<1>8. CASE Pop(w)
  BY <1>8, PopLru DEF Ages
<1> QED
  BY <1>2, <1>3, <1>4, <1>5, <1>6, <1>7, <1>8, StepsOf DEF Typed

LEMMA InitLru == Init => Lru
<1> SUFFICES ASSUME Init PROVE Lru
  OBVIOUS
<1>1. used = <<>> /\ IsSeq(used) /\ Len(bySession) = 0
  BY EmptySeq DEF Init, IsSeq
<1> QED
  BY <1>1 DEF Init, Lru, Once, Apart, Missing, Serving, At

LEMMA NextLru == Typed /\ Lru /\ [Next]_vars => Lru' /\ Ages
<1> SUFFICES ASSUME Typed, Lru, [Next]_vars PROVE Lru' /\ Ages
  OBVIOUS
<1>1. ASSUME NEW w \in Workers, NEW s \in Sessions, NEW q \in setting.asks[s], Ask(w, s, q)
      PROVE  Lru' /\ Ages
  <2>1. bySession' = bySession
    BY <1>1 DEF Ask, shared
  <2> QED
    BY <1>1, <2>1, AskLru DEF Ages
<1>2. CASE UNCHANGED vars
  BY <1>2 DEF vars, shared, threads, traces, Lru, Apart, Missing, At, Serving, Session, Ages
<1> QED
  BY <1>1, <1>2, StepLru DEF Next

\* An order of use is an order of last uses.
LEMMA LastUses ==
    ASSUME Lru, NEW a, NEW b, UsedBefore(used, a, b)
    PROVE  UseOf(a) < UseOf(b)
<1>1. IsSeq(used) /\ Once(used)
  BY DEF Lru
<1>2. PICK i \in DOMAIN used, j \in DOMAIN used : i < j /\ used[i] = a /\ used[j] = b
  BY DEF UsedBefore
<1>3. ASSUME NEW s, NEW k \in DOMAIN used, used[k] = s PROVE UseOf(s) = k
  <2>1. {l \in DOMAIN used : used[l] = s} = {k}
    BY <1>1, <1>3 DEF Once
  <2>2. s \in ToSet(used)
    BY <1>3 DEF ToSet
  <2>3. k \in Nat
    BY <1>1, SeqFacts
  <2>4. IsFiniteSet({k})
    BY FS_Singleton
  <2>5. Max({k}) \in {k}
    BY <2>3, <2>4, MaxOfFinite
  <2> QED
    BY <2>1, <2>2, <2>5 DEF UseOf
<1> QED
  BY <1>2, <1>3

\* production_pipeline.py:98-101, "LRU eviction": as long as no session has two requests at
\* a time and one pipeline was built, a session is evicted only when every other one that is
\* kept was looked up after it.
THEOREM OldestEvicted == Spec => EvictsOldest
<1>1. ASSUME Typed, Lru, Ages, mixed = {}, Len(bySession) = 1 PROVE LeavesOldest(1)
  <2>1. 1 \in DOMAIN bySession
    <3>1. DOMAIN bySession = 1..Len(bySession)
      BY <1>1, LenProperties DEF Typed, Process
    <3> QED
      BY <1>1, <3>1
  <2>2. InOrder(bySession[1], used)
    BY <1>1 DEF Lru
  <2>3. SUFFICES ASSUME NEW out, NEW s, HasKey(bySession[1], out), ~HasKey(bySession'[1], out),
                        HasKey(bySession'[1], s)
                 PROVE  UseOf(out) < UseOf(s)
    BY DEF LeavesOldest, Kept, HasKey
  <2>4. OldestOut(bySession'[1], bySession[1], used)
    BY <1>1, <2>1, <2>2, <2>3 DEF Ages
  <2>5. UsedBefore(used, out, s)
    BY <2>3, <2>4 DEF OldestOut
  <2> QED
    BY <1>1, <2>5, LastUses
<1>2. LiveInv => Typed
  BY DEF LiveInv
<1> QED
  BY <1>1, <1>2, InitLru, NextLru, LiveInvariant, PTL DEF Spec, EvictsOldest

-----------------------------------------------------------------------------
(* The rows of an answer: those of the turn it is made from, or those a      *)
(* statement has in Oracle or in the code.                                   *)

\* The latest turn with rows is one of the turns.
LEMMA LatestRows ==
    ASSUME NEW S, NEW turns \in Seq(S), NEW turn, turn = LatestResult(turns), turn # None
    PROVE  turn \in S /\ turn.rows # <<>>
<1>1. PICK I : I = {i \in DOMAIN turns : HasResultRows(turns[i])}
  OBVIOUS
<1>2. DOMAIN turns = 1..Len(turns) /\ Len(turns) \in Nat /\ \A i \in DOMAIN turns : turns[i] \in S
  BY LenProperties
<1>3. I # {} /\ turn = turns[Max(I)]
  BY <1>1 DEF LatestResult, Latest
<1>4. IsFiniteSet(1..Len(turns))
  BY <1>2, FS_Interval
<1>5. I \in SUBSET Int /\ IsFiniteSet(I)
  BY <1>1, <1>2, <1>4, FS_Subset
<1>6. Max(I) \in I
  BY <1>3, <1>5, MaxOfFinite
<1> QED
  BY <1>1, <1>2, <1>3, <1>6 DEF HasResultRows

\* The last of a sequence that is not empty.
LEMMA LastOne ==
    ASSUME NEW s, IsSeq(s), s # <<>>
    PROVE  Last(s) \in ToSet(s) /\ Len(s) \in DOMAIN s /\ Last(s) = s[Len(s)]
<1>1. DOMAIN s = 1..Len(s) /\ Len(s) \in Nat
  BY SeqFacts
<1>2. Len(s) # 0
  BY EmptySeq DEF IsSeq
<1> QED
  BY <1>1, <1>2 DEF Last, ToSet

\* One of finitely many values is the largest, and one the least.
LEMMA Extremes ==
    ASSUME NEW n \in Nat \ {0}, NEW f \in [1..n -> Int]
    PROVE  /\ \E i \in 1..n : \A j \in 1..n : f[j] <= f[i]
           /\ \E i \in 1..n : \A j \in 1..n : f[i] <= f[j]
<1> DEFINE g == [i \in 1..n |-> 0 - f[i]]
           T == {f[i] : i \in 1..n}
           U == {g[i] : i \in 1..n}
<1>1. IsFiniteSet(1..n)
  BY UpTo
<1>2. f \in Surjection(1..n, T) /\ T \in SUBSET Int /\ T # {}
  <2>1. 1 \in 1..n
    OBVIOUS
  <2> QED
    BY <2>1 DEF Surjection
<1>3. g \in [1..n -> Int]
  OBVIOUS
<1>4. \A i \in 1..n : g[i] = 0 - f[i]
  OBVIOUS
<1> HIDE DEF g
<1>5. g \in Surjection(1..n, U) /\ U \in SUBSET Int /\ U # {}
  <2>1. 1 \in 1..n
    OBVIOUS
  <2> QED
    BY <1>3, <2>1 DEF Surjection
<1>6. IsFiniteSet(T) /\ IsFiniteSet(U)
  BY <1>1, <1>2, <1>5, FS_Surjection
<1>7. PICK m \in T : \A x \in T : x <= m
  BY <1>2, <1>6, LargestOfFinite
<1>8. PICK k \in U : \A x \in U : x <= k
  BY <1>5, <1>6, LargestOfFinite
<1>9. PICK a \in 1..n : m = f[a]
  BY <1>7
<1>10. PICK b \in 1..n : k = g[b]
  BY <1>8
<1>11. \A j \in 1..n : f[j] <= f[a]
  BY <1>7, <1>9
<1>12. ASSUME NEW j \in 1..n PROVE f[b] <= f[j]
  <2>1. g[j] <= g[b]
    BY <1>8, <1>10
  <2>2. f[j] \in Int /\ f[b] \in Int
    OBVIOUS
  <2> QED
    BY <1>4, <2>1, <2>2
<1> QED
  BY <1>11, <1>12

\* max() and min() by a column of numbers.
LEMMA ExtremeRows ==
    ASSUME NEW rows, IsSeq(rows), rows # <<>>, NEW c, \A i \in DOMAIN rows : rows[i][c] \in Int
    PROVE  /\ \E i \in DOMAIN rows :
                HighestRow(rows, c) = rows[i] /\ \A j \in DOMAIN rows : rows[j][c] <= rows[i][c]
           /\ \E i \in DOMAIN rows :
                LowestRow(rows, c) = rows[i] /\ \A j \in DOMAIN rows : rows[i][c] <= rows[j][c]
<1>1. PICK n \in Nat : n = Len(rows) /\ DOMAIN rows = 1..n
  BY SeqFacts
<1>2. n # 0
  BY <1>1, EmptySeq DEF IsSeq
<1> DEFINE f == [i \in 1..n |-> rows[i][c]]
           H == {i \in DOMAIN rows : \A j \in DOMAIN rows : rows[j][c] <= rows[i][c]}
           L == {i \in DOMAIN rows : \A j \in DOMAIN rows : rows[i][c] <= rows[j][c]}
<1>3. f \in [1..n -> Int] /\ \A i \in 1..n : f[i] = rows[i][c]
  BY <1>1
<1> HIDE DEF f
<1>4. H # {} /\ L # {}
  <2>1. n \in Nat \ {0}
    BY <1>2
  <2>2. PICK i \in 1..n : \A j \in 1..n : f[j] <= f[i]
    BY <1>3, <2>1, Extremes
  <2>3. PICK k \in 1..n : \A j \in 1..n : f[k] <= f[j]
    BY <1>3, <2>1, Extremes
  <2> QED
    BY <1>1, <1>3, <2>2, <2>3
<1>5. H \in SUBSET Nat /\ L \in SUBSET Nat
  BY <1>1
<1> HIDE DEF H, L
<1>6. Min(H) \in H /\ Min(L) \in L
  BY <1>4, <1>5, MinOfNaturals
<1>7. HighestRow(rows, c) = rows[Min(H)] /\ LowestRow(rows, c) = rows[Min(L)]
  BY DEF HighestRow, LowestRow, H, L
<1> QED
  BY <1>6, <1>7 DEF H, L

-----------------------------------------------------------------------------
\* With columns of numbers, the measure of an answer is one of them.
LEMMA SomeMetric ==
    ASSUME NEW columns, IsSeq(columns), NEW q, NEW rows, NEW m, m = MetricColumn(q, columns, rows),
           NumericColumns(columns, rows) # <<>>
    PROVE  m \in ToSet(columns) \intersect Numbers
<1>1. PICK n \in Nat : DOMAIN columns = 1..n
  BY SeqFacts
<1> DEFINE S == {i \in DOMAIN columns :
                  columns[i] \in Numbers /\ \E j \in DOMAIN rows : rows[j][columns[i]] # None}
<1>2. PICK r : r = NumericColumns(columns, rows)
  OBVIOUS
<1>3. r = Arranged(columns, S, Earlier(S))
  BY <1>2 DEF NumericColumns, Where
<1>4. S \in SUBSET DOMAIN columns /\ S \in SUBSET Nat
  BY <1>1
<1>5. \A i \in S : columns[i] \in ToSet(columns) \intersect Numbers
  BY DEF ToSet
<1> HIDE DEF S
<1>6. LinearOn(S, Earlier(S))
  BY <1>4, EarlierIsLinear
<1>7. Arranges(r, columns, S, Earlier(S))
  BY <1>3, <1>4, <1>6, ArrangedSeq
<1>8. IsSeq(r) /\ \A x \in ToSet(r) : x \in ToSet(columns) \intersect Numbers
  BY <1>5, <1>7 DEF Arranges
<1>9. m \in ToSet(r)
  <2>1. r # <<>>
    BY <1>2
  <2>2. CASE Has(q, ToSet(r))
    <3>1. m = FirstIn(r, ToSet(q))
      BY <1>2, <2>1, <2>2 DEF MetricColumn
    <3>2. \E i \in DOMAIN r : r[i] \in ToSet(q)
      BY <2>2 DEF Has, ToSet
    <3> QED
      BY <1>8, <3>1, <3>2, FirstInList
  <2>3. CASE ~Has(q, ToSet(r))
    <3>1. m = Last(r)
      BY <1>2, <2>1, <2>3 DEF MetricColumn
    <3> QED
      BY <1>8, <2>1, <3>1, LastOne
  <2> QED
    BY <2>2, <2>3
<1> QED
  BY <1>8, <1>9

\* An answer's measure, if it has one, is a column of numbers.
LEMMA MetricIsNumbers ==
    ASSUME NEW columns, IsSeq(columns), NEW q, NEW rows, NEW m, m = MetricColumn(q, columns, rows),
           m # None
    PROVE  m \in ToSet(columns) \intersect Numbers
BY SomeMetric DEF MetricColumn

\* Sorting keeps the rows; by a measure, none stands before one it should follow.
Steady(r, m, down) ==
    \A k, l \in DOMAIN r : k < l => IF down THEN r[l][m] <= r[k][m] ELSE r[k][m] <= r[l][m]
LEMMA SortedRows ==
    ASSUME NEW s, IsSeq(s), ToSet(s) \subseteq AllRows, NEW q, NEW m,
           m # None => \A i \in DOMAIN s : s[i][m] \in Int,
           NEW r, r = SortRows(q, m, s)
    PROVE  /\ IsSeq(r) /\ ToSet(r) = ToSet(s) /\ Len(r) = Len(s)
           /\ m # None => Steady(r, m, Direction(q) = "descending")
<1> DEFINE S == DOMAIN s
           Below(a, b) == IF m = None THEN TextBefore(a, b) ELSE a[m] < b[m]
           Less(i, j) == IF Direction(q) = "descending" THEN Below(s[j], s[i])
                         ELSE Below(s[i], s[j])
           L == {p \in S \X S : Less(p[1], p[2])}
           R == {p \in S \X S : Less(p[1], p[2]) \/ (p[1] < p[2] /\ ~Less(p[2], p[1]))}
<1>1. S = 1..Len(s) /\ Len(s) \in Nat /\ \A i \in S : s[i] \in ToSet(s)
  BY SeqFacts
<1>2. r = Arranged(s, S, R)
  BY DEF SortRows, Ordered
<1>3. \A i, j \in S : Below(s[i], s[j]) => ~Below(s[j], s[i])
  <2>1. CASE m = None
    BY <1>1, <2>1, TableAssumption
  <2>2. CASE m # None
    BY <2>2
  <2> QED
    BY <2>1, <2>2
<1>4. \A i, j, k \in S : Below(s[i], s[k]) => Below(s[i], s[j]) \/ Below(s[j], s[k])
  <2>1. CASE m = None
    BY <1>1, <2>1, TableAssumption
  <2>2. CASE m # None
    BY <2>2
  <2> QED
    BY <2>1, <2>2
<1>5. m # None => \A i, j \in S : ~Below(s[j], s[i]) => s[i][m] <= s[j][m]
  OBVIOUS
<1> HIDE DEF Below
<1>6. \A i, j \in S : Less(i, j) => ~Less(j, i)
  BY <1>3
<1>7. \A i, j, k \in S : Less(i, k) => Less(i, j) \/ Less(j, k)
  BY <1>4
<1>8. /\ \A i, j \in S : <<i, j>> \in L <=> Less(i, j)
      /\ \A i, j \in S : <<i, j>> \in R <=> Less(i, j) \/ (i < j /\ ~Less(j, i))
  OBVIOUS
<1>9. S \in SUBSET Nat
  BY <1>1
<1>10. ASSUME m # None, NEW i \in S, NEW j \in S, ~Less(j, i)
       PROVE  IF Direction(q) = "descending" THEN s[j][m] <= s[i][m] ELSE s[i][m] <= s[j][m]
  BY <1>5, <1>10
<1> HIDE DEF Less, S, L, R
<1>11. LinearOn(S, R)
  <2>1. /\ \A x, y \in S : <<x, y>> \in L => <<y, x>> \notin L
        /\ \A x, y, z \in S : <<x, z>> \in L => <<x, y>> \in L \/ <<y, z>> \in L
        /\ \A x, y \in S : <<x, y>> \in R <=>
             (<<x, y>> \in L \/ (x < y /\ <<y, x>> \notin L))
    BY <1>6, <1>7, <1>8
  <2> QED
    BY <1>9, <2>1, StableIsLinear
<1>12. Arranges(r, s, S, R)
  <2>1. PICK D \in SUBSET DOMAIN s : D = S
    BY DEF S
  <2>2. LinearOn(D, R) /\ r = Arranged(s, D, R)
    BY <1>2, <1>11, <2>1
  <2>3. Arranges(r, s, D, R)
    BY <2>2, ArrangedSeq
  <2> QED
    BY <2>1, <2>3
<1>13. IsSeq(r) /\ Len(r) = Len(s)
  BY <1>1, <1>12, UpTo DEF Arranges
<1>14. ToSet(r) = ToSet(s)
  <2>1. ToSet(s) = {s[i] : i \in S}
    BY DEF ToSet, S
  <2> QED
    BY <1>12, <2>1 DEF Arranges
<1>15. \A i, j \in S : <<i, j>> \in R => ~Less(j, i)
  BY <1>6, <1>8
<1>16. ASSUME m # None, NEW k \in DOMAIN r, NEW l \in DOMAIN r, k < l
       PROVE  IF Direction(q) = "descending" THEN r[l][m] <= r[k][m] ELSE r[k][m] <= r[l][m]
  <2>1. PICK i \in S, j \in S : r[k] = s[i] /\ r[l] = s[j] /\ <<i, j>> \in R
    <3>1. FromPair(r, s, S, R, k, l)
      BY <1>12, <1>16, ArrangedPairs
    <3> QED
      BY <3>1 DEF FromPair
  <2> QED
    BY <1>10, <1>15, <1>16, <2>1
<1>17. m # None => Steady(r, m, Direction(q) = "descending")
  BY <1>16 DEF Steady
<1> QED
  BY <1>13, <1>14, <1>17

\* What a turn may show: nothing, or rows of a table under its columns.
FromTable(turn) ==
    turn.rows = <<>> \/ \E t \in ResultTables :
        turn.columns = t.columns /\ IsSeq(turn.rows) /\ ToSet(turn.rows) \subseteq ToSet(t.rows)

\* The row shown first is what the answer says of its measure.
SpeaksTruly(answer, rows) ==
    \A i \in DOMAIN rows :
        /\ answer.says \in {"highest", "descending"} =>
             rows[i][answer.metric] <= answer.rows[1][answer.metric]
        /\ answer.says \in {"lowest", "ascending"} =>
             answer.rows[1][answer.metric] <= rows[i][answer.metric]

\* In sorted rows the first is the largest or the least.
LEMMA SortedSpeaks ==
    ASSUME NEW s, IsSeq(s), s # <<>>, ToSet(s) \subseteq AllRows, NEW q, NEW m, m # None,
           \A i \in DOMAIN s : s[i][m] \in Int,
           NEW answer, answer.rows = SortRows(q, m, s), answer.metric = m,
           answer.says = Direction(q)
    PROVE  SpeaksTruly(answer, s)
<1>1. PICK r : r = answer.rows /\ r = SortRows(q, m, s)
  OBVIOUS
<1>2. IsSeq(r) /\ ToSet(r) = ToSet(s) /\ Len(r) = Len(s) /\ Steady(r, m, Direction(q) = "descending")
  BY <1>1, SortedRows
<1>3. PICK n \in Nat : n = Len(s) /\ DOMAIN s = 1..n /\ DOMAIN r = 1..n
  BY <1>2, SeqFacts
<1>4. n # 0
  BY <1>3, EmptySeq DEF IsSeq
<1>5. \A k \in DOMAIN r : r[k][m] \in Int
  <2>1. ASSUME NEW k \in DOMAIN r PROVE r[k][m] \in Int
    <3>1. r[k] \in ToSet(s)
      BY <1>2 DEF ToSet
    <3> QED
      BY <3>1 DEF ToSet
  <2> QED
    BY <2>1
<1>6. Direction(q) \in {"descending", "ascending"}
  BY DEF Direction
<1>7. ASSUME NEW k \in DOMAIN r
      PROVE  IF Direction(q) = "descending" THEN r[k][m] <= r[1][m] ELSE r[1][m] <= r[k][m]
  <2>1. 1 \in DOMAIN r /\ (k = 1 \/ 1 < k)
    BY <1>3, <1>4
  <2>2. CASE k = 1
    BY <1>5, <2>1, <2>2
  <2>3. CASE 1 < k
    BY <1>2, <2>1, <2>3 DEF Steady
  <2> QED
    BY <2>1, <2>2, <2>3
<1>8. ASSUME NEW i \in DOMAIN s
      PROVE  \E k \in DOMAIN r : s[i] = r[k]
  BY <1>2 DEF ToSet
<1>9. ASSUME NEW i \in DOMAIN s
      PROVE  IF Direction(q) = "descending" THEN s[i][m] <= r[1][m] ELSE r[1][m] <= s[i][m]
  BY <1>7, <1>8
<1> QED
  BY <1>1, <1>6, <1>9 DEF SpeaksTruly

\* A row that is selected by its measure is what it is called.
LEMMA SelectedSpeaks ==
    ASSUME NEW s, IsSeq(s), s # <<>>, NEW q, NEW m, m # None,
           \A i \in DOMAIN s : s[i][m] \in Int,
           NEW row, row = SelectRow(q, m, s), row # None,
           NEW answer, answer.rows = <<row>>, answer.metric = m, answer.says = Wording(q)
    PROVE  SpeaksTruly(answer, s)
<1>1. answer.rows[1] = row
  OBVIOUS
<1>2. CASE Has(q, First \union Highest)
  <2>1. row = HighestRow(s, m)
    BY <1>2 DEF SelectRow
  <2>2. Highest \union First = First \union Highest
    OBVIOUS
  <2>3. answer.says = "highest"
    BY <1>2, <2>2 DEF Wording
  <2>4. \E i \in DOMAIN s : row = s[i] /\ \A j \in DOMAIN s : s[j][m] <= s[i][m]
    BY <2>1, ExtremeRows
  <2> QED
    BY <1>1, <2>3, <2>4 DEF SpeaksTruly
<1>3. CASE ~Has(q, First \union Highest)
  <2>1. Highest \union First = First \union Highest /\ Lowest \union Final = Final \union Lowest
    OBVIOUS
  <2>2. Has(q, Final \union Lowest) /\ row = LowestRow(s, m)
    BY <1>3 DEF SelectRow
  <2>3. answer.says = "lowest"
    BY <1>3, <2>1, <2>2 DEF Wording
  <2>4. \E i \in DOMAIN s : row = s[i] /\ \A j \in DOMAIN s : s[i][m] <= s[j][m]
    BY <2>2, ExtremeRows
  <2> QED
    BY <1>1, <2>3, <2>4 DEF SpeaksTruly
<1> QED
  BY <1>2, <1>3

\* A row that is selected is one of the rows.
LEMMA SelectedRow ==
    ASSUME NEW s, IsSeq(s), s # <<>>, NEW q, NEW m,
           m # None => \A i \in DOMAIN s : s[i][m] \in Int,
           NEW row, row = SelectRow(q, m, s), row # None
    PROVE  row \in ToSet(s)
<1>1. 1 \in DOMAIN s
  BY LastOne, SeqFacts
<1>2. CASE m = None
  <2>1. row = Last(s) \/ row = s[1]
    BY <1>2 DEF SelectRow
  <2> QED
    BY <1>1, <2>1, LastOne DEF ToSet
<1>3. CASE m # None
  <2>1. row = HighestRow(s, m) \/ row = LowestRow(s, m)
    BY <1>3 DEF SelectRow
  <2>2. \E i \in DOMAIN s : HighestRow(s, m) = s[i]
    BY <1>3, ExtremeRows
  <2>3. \E i \in DOMAIN s : LowestRow(s, m) = s[i]
    BY <1>3, ExtremeRows
  <2> QED
    BY <2>1, <2>2, <2>3 DEF ToSet
<1> QED
  BY <1>2, <1>3

\* What is answered from memory is rows of one of the turns, of whose measure it speaks truly.
LEMMA AnswerIs ==
    ASSUME NEW S, \A turn \in S : FromTable(turn), NEW turns \in Seq(S), NEW q,
           NEW answer, answer = AnswerFromPrevious(q, turns), answer \notin {None, Raised}
    PROVE  \E source \in S :
             /\ answer.source = source /\ answer.columns = source.columns /\ FromTable(answer)
             /\ source.rows # <<>> /\ answer.rows # <<>>
             /\ ToSet(answer.rows) \subseteq ToSet(source.rows)
             /\ answer.metric # None => SpeaksTruly(answer, source.rows)
             /\ answer.says \in Sayings
<1>1. PICK turn : turn = LatestResult(turns)
  OBVIOUS
<1>2. turn # None /\ LooksLikeResultReference(q)
  BY <1>1 DEF AnswerFromPrevious
<1>3. turn \in S /\ turn.rows # <<>>
  BY <1>1, <1>2, LatestRows
<1>4. PICK t \in ResultTables :
        turn.columns = t.columns /\ IsSeq(turn.rows) /\ ToSet(turn.rows) \subseteq ToSet(t.rows)
  BY <1>3 DEF FromTable
<1>5. PICK s, columns : s = turn.rows /\ columns = turn.columns
  OBVIOUS
<1>6. IsSeq(s) /\ s # <<>> /\ IsSeq(columns) /\ ToSet(s) \subseteq AllRows
  BY <1>3, <1>4, <1>5, TableAssumption DEF IsTable, IsSeq, AllRows
<1>7. \A row \in ToSet(s), c \in ToSet(columns) \intersect Numbers : row[c] = None \/ row[c] \in Int
  BY <1>4, <1>5, TableAssumption DEF IsTable
<1>8. PICK m : m = MetricColumn(q, columns, s)
  OBVIOUS
<1>9. ~(m # None /\ \E i \in DOMAIN s : s[i][m] = None)
  BY <1>1, <1>2, <1>5, <1>8 DEF AnswerFromPrevious
<1>10. m # None => \A i \in DOMAIN s : s[i][m] \in Int
  <2>1. ASSUME m # None, NEW i \in DOMAIN s PROVE s[i][m] \in Int
    <3>1. m \in ToSet(columns) \intersect Numbers
      BY <1>6, <1>8, <2>1, MetricIsNumbers
    <3>2. s[i] \in ToSet(s)
      BY DEF ToSet
    <3> QED
      BY <1>7, <1>9, <2>1, <3>1, <3>2
  <2> QED
    BY <2>1
<1>11. PICK row : row = SelectRow(q, m, s)
  OBVIOUS
<1>15. Direction(q) \in Sayings /\ Wording(q) \in Sayings
  <2>1. Direction(q) \in Sayings
    BY DEF Direction, Sayings
  <2>2. Wording(q) \in {"highest", "lowest", "selected"}
    BY DEF Wording
  <2> QED
    BY <2>1, <2>2 DEF Sayings
<1>12. \/ answer = [rows |-> SortRows(q, m, s), columns |-> columns, source |-> turn,
                    says |-> Direction(q), metric |-> m]
       \/ /\ row # None
          /\ answer = [rows |-> <<row>>, columns |-> columns, source |-> turn,
                       says |-> Wording(q), metric |-> m]
  BY <1>1, <1>2, <1>5, <1>8, <1>9, <1>11 DEF AnswerFromPrevious
<1>13. CASE answer = [rows |-> SortRows(q, m, s), columns |-> columns, source |-> turn,
                      says |-> Direction(q), metric |-> m]
  <2>1. /\ answer.rows = SortRows(q, m, s) /\ answer.columns = columns /\ answer.source = turn
        /\ answer.says = Direction(q) /\ answer.metric = m
    BY <1>13
  <2>2. PICK r : r = answer.rows
    OBVIOUS
  <2>3. IsSeq(r) /\ ToSet(r) = ToSet(s) /\ Len(r) = Len(s)
    BY <1>6, <1>10, <2>1, <2>2, SortedRows
  <2>4. r # <<>>
    <3>1. Last(s) \in ToSet(r)
      BY <1>6, <2>3, LastOne
    <3> QED
      BY <3>1, NoWords
  <2>5. m # None => SpeaksTruly(answer, s)
    BY <1>6, <1>10, <2>1, SortedSpeaks
  <2>6. FromTable(answer)
    BY <1>4, <1>5, <2>1, <2>2, <2>3 DEF FromTable
  <2> QED
    BY <1>3, <1>5, <1>15, <2>1, <2>2, <2>3, <2>4, <2>5, <2>6
<1>14. CASE /\ row # None
            /\ answer = [rows |-> <<row>>, columns |-> columns, source |-> turn,
                         says |-> Wording(q), metric |-> m]
  <2>1. /\ answer.rows = <<row>> /\ answer.columns = columns /\ answer.source = turn
        /\ answer.says = Wording(q) /\ answer.metric = m
    BY <1>14
  <2>2. row \in ToSet(s)
    BY <1>6, <1>10, <1>11, <1>14, SelectedRow
  <2>3. IsSeq(<<row>>) /\ ToSet(<<row>>) = {row}
    BY OneWord
  <2>4. m # None => SpeaksTruly(answer, s)
    BY <1>6, <1>10, <1>11, <1>14, <2>1, SelectedSpeaks
  <2>5. FromTable(answer)
    BY <1>4, <1>5, <2>1, <2>2, <2>3 DEF FromTable
  <2>6. answer.rows # <<>>
    BY <2>1
  <2> QED
    BY <1>3, <1>5, <1>15, <2>1, <2>2, <2>3, <2>4, <2>5, <2>6
<1> QED
  BY <1>12, <1>13, <1>14

-----------------------------------------------------------------------------
\* The first rows of a sequence are some of its rows.
LEMMA FirstRowsOf ==
    ASSUME NEW rows, IsSeq(rows), NEW n \in Nat, NEW r, r = FirstRows(rows, n)
    PROVE  IsSeq(r) /\ ToSet(r) \subseteq ToSet(rows)
<1>1. PICK k \in Nat : k = Len(rows)
  BY SeqFacts
<1>2. PICK m : m = Min({n, k})
  OBVIOUS
<1>3. {n, k} \in SUBSET Nat /\ {n, k} # {}
  OBVIOUS
<1>4. m \in {n, k} /\ m <= n /\ m <= k
  BY <1>2, <1>3, MinOfNaturals
<1>5. PICK T : T = ToSet(rows) /\ rows \in Seq(T)
  BY DEF IsSeq
<1>6. 1 \in 1..k + 1 /\ m \in 0..k
  BY <1>4
<1>7. SubSeq(rows, 1, m) \in Seq(T)
  BY <1>1, <1>5, <1>6, SubSeqProperties
<1>8. r = SubSeq(rows, 1, m)
  BY <1>1, <1>2 DEF FirstRows
<1> QED
  BY <1>5, <1>7, <1>8, SeqOfSeq

\* A statement names what is known, and its row limits are numbers.
IsStatement(sql) ==
    /\ sql \in AllStatements
    /\ sql = [flaws |-> sql.flaws, parts |-> sql.parts, fetch |-> sql.fetch, limit |-> sql.limit]
    /\ sql.fetch = None \/ sql.fetch \in Nat
    /\ TableOf(sql.parts) \in ResultTables

\* What Select AI writes is one,
LEMMA WrittenStatement ==
    ASSUME NEW sql \in Statements, sql # None PROVE IsStatement(sql)
<1>1. /\ sql = [flaws |-> sql.flaws, parts |-> sql.parts, fetch |-> sql.fetch, limit |-> sql.limit]
      /\ sql.fetch = None \/ sql.fetch \in Nat
  BY StatementAssumption
<1>2. sql.parts \in {s.parts : s \in Statements \ {None}}
  OBVIOUS
<1>3. TableOf(sql.parts) \in ResultTables
  BY <1>2 DEF ResultTables
<1> QED
  BY <1>1, <1>3 DEF IsStatement, AllStatements

\* and so is each that the fallback has.
LEMMA QueryStatement ==
    ASSUME NEW parts \in SUBSET NamedByFallback, NEW n \in Nat
    PROVE  IsStatement(Query(parts, n))
<1>1. PICK sql : sql = Query(parts, n)
  OBVIOUS
<1>2. sql = [flaws |-> {}, parts |-> parts \union {"dataset"}, fetch |-> n, limit |-> None]
  BY <1>1 DEF Query
<1>3. sql.parts = parts \union {"dataset"} /\ sql.fetch = n /\ sql.flaws = {} /\ sql.limit = None
  BY <1>2
<1>4. sql.parts \in SUBSET NamedByFallback
  BY <1>3 DEF NamedByFallback
<1>5. TableOf(sql.parts) \in ResultTables
  BY <1>4 DEF ResultTables
<1>6. sql = [flaws |-> sql.flaws, parts |-> sql.parts, fetch |-> sql.fetch, limit |-> sql.limit]
  BY <1>2, <1>3
<1>7. sql \in AllStatements
  <2>1. sql \in [flaws : {{}}, parts : SUBSET NamedByFallback, fetch : Nat, limit : {None}]
    BY <1>2, <1>3, <1>4
  <2> QED
    BY <2>1 DEF AllStatements
<1> QED
  BY <1>1, <1>3, <1>5, <1>6, <1>7 DEF IsStatement

LEMMA FallbackIsStatement ==
    ASSUME NEW prompt, NEW sql, sql = FallbackStatement(prompt), sql # None
    PROVE  IsStatement(sql)
<1> DEFINE In(phrases) == \E p \in phrases : Mentions(prompt, p)
           All(S) == S \subseteq ToSet(prompt)
           five == Min({5, DefaultRowLimit})
           rules == <<
             <<In({<<"profit", "margin">>}) /\ All({"region"}),
               Query({"margin", "profit", "revenue", "region"}, DefaultRowLimit)>>,
             <<All({"revenue", "2024"}) /\ Has(prompt, {"month", "monthly"}),
               Query({"order_date", "2024", "revenue"}, DefaultRowLimit)>>,
             <<In({<<"top", "5", "products">>, <<"top", "five", "products">>}),
               Query({"revenue", "product_name"}, five)>>,
             <<All({"profit", "region"}), Query({"profit", "region"}, DefaultRowLimit)>>,
             <<All({"profit", "category"}), Query({"profit", "category"}, DefaultRowLimit)>>,
             <<In({<<m, "by", "region">> : m \in {"revenue", "sales"}}),
               Query({"revenue", "region"}, DefaultRowLimit)>>,
             <<In({<<m, "by", "category">> : m \in {"revenue", "sales"}}
                    \union {<<"what", "were", "total", "sales", "by", "product", "category">>}),
               Query({"revenue", "category"}, DefaultRowLimit)>>,
             <<TRUE, None>> >>
           I == {i \in DOMAIN rules : rules[i][1]}
<1>1. DefaultRowLimit \in Nat /\ five \in Nat
  <2>1. {5, DefaultRowLimit} \in SUBSET Nat /\ {5, DefaultRowLimit} # {}
    BY RowLimitAssumption
  <2> QED
    BY <2>1, MinOfNaturals
<1>2. sql = rules[Min(I)][2]
  BY DEF FallbackStatement
<1>3. DOMAIN rules = 1..8 /\ rules[8][1]
  OBVIOUS
<1> HIDE DEF five
<1>4. /\ rules[1][2] = Query({"margin", "profit", "revenue", "region"}, DefaultRowLimit)
      /\ rules[2][2] = Query({"order_date", "2024", "revenue"}, DefaultRowLimit)
      /\ rules[3][2] = Query({"revenue", "product_name"}, five)
      /\ rules[4][2] = Query({"profit", "region"}, DefaultRowLimit)
      /\ rules[5][2] = Query({"profit", "category"}, DefaultRowLimit)
      /\ rules[6][2] = Query({"revenue", "region"}, DefaultRowLimit)
      /\ rules[7][2] = Query({"revenue", "category"}, DefaultRowLimit)
      /\ rules[8][2] = None
  OBVIOUS
<1> HIDE DEF rules
<1>5. I \in SUBSET Nat /\ 8 \in I
  BY <1>3
<1>6. Min(I) \in I
  BY <1>5, MinOfNaturals
<1>7. PICK i \in 1..8 : i = Min(I)
  BY <1>3, <1>6
<1>8. i \in {1, 2, 3, 4, 5, 6, 7, 8}
  BY <1>7
<1>9. PICK a, b, c, d, e, f, g :
        /\ a = {"margin", "profit", "revenue", "region"} /\ b = {"order_date", "2024", "revenue"}
        /\ c = {"revenue", "product_name"} /\ d = {"profit", "region"}
        /\ e = {"profit", "category"} /\ f = {"revenue", "region"} /\ g = {"revenue", "category"}
  OBVIOUS
<1>10. {a, b, c, d, e, f, g} \subseteq SUBSET NamedByFallback
  BY <1>9 DEF NamedByFallback
<1>11. \/ \E parts \in {a, b, d, e, f, g} : sql = Query(parts, DefaultRowLimit)
       \/ sql = Query(c, five)
  BY <1>2, <1>4, <1>7, <1>8, <1>9
<1> QED
  BY <1>1, <1>10, <1>11, QueryStatement

\* The rows kept in the code are those of a table.
LEMMA FallbackTableIs ==
    ASSUME NEW sql, NEW name, name = FallbackTable(sql), name # None
    PROVE  CachedTable(name) \in ResultTables
<1> DEFINE Known(S) == S \union {"dataset"} \subseteq sql.parts
           rules == <<
             <<Known({"margin"}), "region_margin">>, <<Known({"order_date", "2024"}), "monthly">>,
             <<Known({"revenue", "product_name"}), "products">>,
             <<Known({"profit", "category"}), "category_profit">>,
             <<Known({"profit", "region"}), "region_profit">>,
             <<Known({"revenue", "region"}), "region_revenue">>,
             <<Known({"revenue", "category"}), "category_sales">>, <<TRUE, None>> >>
           I == {i \in DOMAIN rules : rules[i][1]}
<1>1. name = rules[Min(I)][2]
  BY DEF FallbackTable
<1>2. DOMAIN rules = 1..8 /\ rules[8][1]
  OBVIOUS
<1>3. /\ rules[1][2] = "region_margin" /\ rules[2][2] = "monthly" /\ rules[3][2] = "products"
      /\ rules[4][2] = "category_profit" /\ rules[5][2] = "region_profit"
      /\ rules[6][2] = "region_revenue" /\ rules[7][2] = "category_sales" /\ rules[8][2] = None
  OBVIOUS
<1> HIDE DEF rules
<1>4. I \in SUBSET Nat /\ 8 \in I
  BY <1>2
<1>5. Min(I) \in I
  BY <1>4, MinOfNaturals
<1>6. PICK i \in {1, 2, 3, 4, 5, 6, 7, 8} : i = Min(I)
  BY <1>2, <1>5
<1>7. name \in CachedNames
  BY <1>1, <1>3, <1>6 DEF CachedNames
<1> QED
  BY <1>7 DEF ResultTables

\* A table of which the first rows are shown.
LEMMA ShowsTable ==
    ASSUME NEW t \in ResultTables, NEW status, NEW rows, IsSeq(rows), ToSet(rows) \subseteq ToSet(t.rows),
           NEW result, result = Result(status, t, rows)
    PROVE  FromTable(result) /\ result.rows = rows /\ result.status = status
BY DEF FromTable, Result

\* What running a statement shows: nothing, rows it has in Oracle, or rows that are marked.
LEMMA ExecutionRows ==
    ASSUME NEW sql, sql # None => IsStatement(sql), NEW result \in Executions(sql)
    PROVE  /\ FromTable(result)
           /\ result.rows # <<>> => result.status \in {"success", "fallback_success"}
           /\ result.rows # <<>> =>
                \/ IsValid(sql) /\ ToSet(result.rows) \subseteq ToSet(TableOf(sql.parts).rows)
                \/ result.status = "fallback_success"
<1>1. \A status : NoRows(status).rows = <<>>
  BY DEF NoRows, Result
<1>2. CASE result.rows = <<>>
  BY <1>2 DEF FromTable
<1>3. CASE result.rows # <<>>
  <2>1. IsValid(sql) /\ sql # None
    BY <1>1, <1>3 DEF Executions, IsValid
  <2>2. PICK safe, cached : safe = WithRowLimit(sql) /\ cached = FallbackTable(safe)
    OBVIOUS
  <2>3. safe.parts = sql.parts /\ (safe.fetch = None \/ safe.fetch \in Nat)
    BY <2>1, <2>2, RowLimitAssumption DEF IsStatement, WithRowLimit
  <2>4. PICK t \in ResultTables : t = TableOf(sql.parts) /\ IsSeq(t.rows)
    BY <2>1, TableAssumption DEF IsStatement, IsTable, IsSeq
  <2>5. \/ result = Result("success", t, FirstRows(OracleRows(safe), Min({MaxRowLimit, MaxRows})))
        \/ /\ cached # None
           /\ result = Result("fallback_success", CachedTable(cached), CachedTable(cached).rows)
    BY <1>1, <1>3, <2>1, <2>2, <2>3, <2>4 DEF Executions
  <2>6. ASSUME result = Result("success", t, FirstRows(OracleRows(safe), Min({MaxRowLimit, MaxRows})))
        PROVE  /\ FromTable(result) /\ result.status = "success"
               /\ ToSet(result.rows) \subseteq ToSet(t.rows)
    <3>1. PICK k, n : k = Min({MaxRowLimit, MaxRows})
                      /\ n = IF safe.fetch = None THEN MaxRows ELSE safe.fetch
      OBVIOUS
    <3>2. {MaxRowLimit, MaxRows} \in SUBSET Nat /\ {MaxRowLimit, MaxRows} # {} /\ n \in Nat
      BY <2>3, <3>1, RowLimitAssumption
    <3>3. k \in Nat
      BY <3>1, <3>2, MinOfNaturals
    <3>4. PICK rows : rows = OracleRows(safe)
      OBVIOUS
    <3>5. rows = FirstRows(t.rows, n)
      BY <2>3, <2>4, <3>1, <3>4 DEF OracleRows
    <3>6. IsSeq(rows) /\ ToSet(rows) \subseteq ToSet(t.rows)
      BY <2>4, <3>2, <3>5, FirstRowsOf
    <3>7. PICK first : first = FirstRows(rows, k)
      OBVIOUS
    <3>8. IsSeq(first) /\ ToSet(first) \subseteq ToSet(rows)
      BY <3>3, <3>6, <3>7, FirstRowsOf
    <3>9. result = Result("success", t, first)
      BY <2>6, <3>1, <3>4, <3>7
    <3> QED
      BY <2>4, <3>6, <3>8, <3>9, ShowsTable
  <2>7. ASSUME cached # None,
               result = Result("fallback_success", CachedTable(cached), CachedTable(cached).rows)
        PROVE  FromTable(result) /\ result.status = "fallback_success"
    <3>1. PICK c \in ResultTables : c = CachedTable(cached) /\ IsSeq(c.rows)
      BY <2>2, <2>7, FallbackTableIs, TableAssumption DEF IsTable, IsSeq
    <3> QED
      BY <2>7, <3>1, ShowsTable
  <2> QED
    BY <2>1, <2>4, <2>5, <2>6, <2>7
<1> QED
  BY <1>2, <1>3

\* A run shows what running its own statement shows.
LEMMA RunOf ==
    ASSUME NEW q, NEW documents, NEW profile, NEW run \in Runs(q, documents, profile)
    PROVE  run.result \in Executions(run.sql) /\ (run.sql # None => IsStatement(run.sql))
<1> DEFINE Outcome(sql, result, better) ==
             IF better = None THEN {[sql |-> sql, result |-> result]}
             ELSE {[sql |-> better, result |-> again] : again \in Executions(better)}
<1>1. PICK sql \in Generations(q, documents, profile) :
        \E r \in Executions(sql) : \E better \in Corrections(q, r, profile) :
          run \in Outcome(sql, r, better)
  BY DEF Runs
<1>2. PICK r \in Executions(sql) :
        \E better \in Corrections(q, r, profile) : run \in Outcome(sql, r, better)
  BY <1>1
<1>3. PICK better \in Corrections(q, r, profile) : run \in Outcome(sql, r, better)
  BY <1>2
<1>4. sql # None => IsStatement(sql)
  BY FallbackIsStatement, WrittenStatement DEF Generations, AiStatements
<1>5. better # None => IsStatement(better)
  BY WrittenStatement DEF Corrections, AiStatements
<1>6. CASE better = None
  BY <1>3, <1>4, <1>6
<1>7. CASE better # None
  BY <1>3, <1>5, <1>7
<1> QED
  BY <1>6, <1>7

-----------------------------------------------------------------------------
(* RowsComeFromSql: what a decision shows is of a statement, or of a turn.   *)

\* A decided turn has a source.
LEMMA DecidedSource ==
    ASSUME NEW w \in Workers, Typed, Decides(w)
    PROVE  HasSource(w, draft'[w])
BY DEF Decides, Drafts, Typed, Kinds

\* The rows of a turn are those of its statement, are marked, or are rows of another turn.
Sourced(turn, given) ==
    turn.rows # <<>> =>
      \/ IsValid(turn.sql) /\ ToSet(turn.rows) \subseteq ToSet(TableOf(turn.sql.parts).rows)
      \/ Normalised(turn).approximate
      \/ \E source \in given \ {turn} :
           source.sql = turn.sql /\ ToSet(turn.rows) \subseteq ToSet(source.rows)
Tabled == \A s \in Sessions : \A turn \in Given(s) : FromTable(turn) /\ Sourced(turn, Given(s))

\* What is known of the source of a turn is so still when more turns are given.
LEMMA SourcedStill ==
    ASSUME NEW turn, NEW S, NEW T, S \subseteq T, Sourced(turn, S)
    PROVE  Sourced(turn, T)
BY DEF Sourced

\* A new turn shows rows of its session's turns, or of the statement that was run for it.
LEMMA DecidedRows ==
    ASSUME NEW w \in Workers, Typed, Own, Tabled, Decides(w), NEW turn, turn = draft'[w],
           turn \notin Given(Session(w))
    PROVE  FromTable(turn) /\ Sourced(turn, Given(Session(w)))
<1>1. PICK given : given = Given(Session(w)) /\ Session(w) \in Sessions
  BY Recorder DEF Decides
<1>2. CASE turn.rows = <<>>
  BY <1>2 DEF FromTable, Sourced
<1>3. CASE Recalls(w, turn)
  <2>1. PICK turns : turns = memory[orch[w]] /\ turns \in Seq(given)
    BY <1>1, Recorder DEF Decides, Own
  <2>2. PICK answer : answer = Recalled(w) /\ answer \notin {None, Raised}
                      /\ answer = AnswerFromPrevious(Question(w), turns)
    BY <1>3, <2>1 DEF Recalls, Recalled, Turns
  <2>3. /\ turn.sql = answer.source.sql
        /\ turn.columns = answer.columns /\ turn.rows = answer.rows
    BY <1>3, <2>2 DEF Recalls
  <2>4. \A t \in given : FromTable(t)
    BY <1>1 DEF Tabled
  <2>5. PICK source \in given :
          /\ answer.source = source /\ answer.columns = source.columns /\ FromTable(answer)
          /\ source.rows # <<>> /\ answer.rows # <<>>
          /\ ToSet(answer.rows) \subseteq ToSet(source.rows)
          /\ answer.metric # None => SpeaksTruly(answer, source.rows)
          /\ answer.says \in Sayings
    BY <2>1, <2>2, <2>4, AnswerIs
  <2>6. source # turn
    BY <1>1
  <2>7. FromTable(turn)
    BY <2>3, <2>5 DEF FromTable
  <2>8. Sourced(turn, given)
    BY <2>3, <2>5, <2>6 DEF Sourced
  <2> QED
    BY <1>1, <2>7, <2>8
<1>4. CASE RunsFor(w, turn)
  <2>1. PICK documents : \E run \in Runs(Resolved(w), documents, setting.profile) :
          /\ turn.sql = run.sql /\ turn.status = run.result.status
          /\ turn.columns = run.result.columns /\ turn.rows = run.result.rows
    BY <1>4 DEF RunsFor
  <2>2. PICK run \in Runs(Resolved(w), documents, setting.profile) :
          /\ turn.sql = run.sql /\ turn.status = run.result.status
          /\ turn.columns = run.result.columns /\ turn.rows = run.result.rows
    BY <2>1
  <2>3. run.result \in Executions(run.sql) /\ (run.sql # None => IsStatement(run.sql))
    BY RunOf
  <2>4. PICK sql, result : sql = run.sql /\ result = run.result
    OBVIOUS
  <2>5. /\ FromTable(result)
        /\ result.rows # <<>> =>
             \/ IsValid(sql) /\ ToSet(result.rows) \subseteq ToSet(TableOf(sql.parts).rows)
             \/ result.status = "fallback_success"
    BY <2>3, <2>4, ExecutionRows
  <2>6. FromTable(turn)
    BY <2>2, <2>4, <2>5 DEF FromTable
  <2>7. turn.status = "fallback_success" => Normalised(turn).approximate
    BY DEF Normalised
  <2>8. Sourced(turn, given)
    BY <2>2, <2>4, <2>5, <2>7 DEF Sourced
  <2> QED
    BY <1>1, <2>6, <2>8
<1> QED
  BY <1>2, <1>3, <1>4, DecidedSource DEF HasSource

\* Every turn given shows rows of a table that have a source.
LEMMA NextTabled == LiveInv /\ Tabled /\ [Next]_vars => Tabled'
<1> SUFFICES ASSUME Typed, Own, Tabled, [Next]_vars,
                    NEW s \in Sessions, NEW turn \in Given(s)'
             PROVE  FromTable(turn) /\ Sourced(turn, Given(s)')
  BY DEF LiveInv, Tabled
<1>1. Given(s) \subseteq Given(s)'
  <2>1. CASE UNCHANGED vars
    BY <2>1 DEF vars, shared, threads, traces, Given, Recording, Drafted, Session, At
  <2> QED
    BY <2>1, GivenGrows DEF Next
<1>2. CASE turn \in Given(s)
  BY <1>1, <1>2, SourcedStill DEF Tabled
<1>3. ASSUME turn \notin Given(s), NEW w \in Workers, Decides(w), s = Session(w), turn = draft'[w]
      PROVE  FromTable(turn) /\ Sourced(turn, Given(s)')
  <2>1. FromTable(turn) /\ Sourced(turn, Given(s))
    BY <1>3, DecidedRows
  <2> QED
    BY <1>1, <2>1, SourcedStill
<1> QED
  BY <1>2, <1>3, GivenNext

\* memory.py and sql/: the rows of a live answer are rows that its statement has in Oracle, or
\* are marked as approximate, or are rows of another answer of its session under the same
\* statement, whatever Select AI writes, Oracle answers and the memory makes of it.
THEOREM RowsHaveSource == Spec => []RowsComeFromSql
<1>1. Init => Tabled
  BY InitGiven DEF Tabled
<1>2. Spec => [](LiveInv /\ Tabled)
  BY <1>1, InitLive, NextLive, NextTabled, PTL DEF Spec
<1>3. Tabled => RowsComeFromSql
  BY DEF Tabled, Sourced, RowsComeFromSql
<1> QED
  BY <1>2, <1>3, PTL

\* memory.py:389-411: of the rows an answer is made from, none has a larger measure than the
\* one called the highest, and none a smaller one than the one called the lowest, whatever
\* mixture of words was asked and whatever the turns remembered.
THEOREM SpokenIsTrue == Spec => []SpokenDirection
<1>1. Init => Tabled
  BY InitGiven DEF Tabled
<1>2. Spec => [](LiveInv /\ Tabled)
  BY <1>1, InitLive, NextLive, NextTabled, PTL DEF Spec
<1>3. ASSUME LiveInv, Tabled, NEW o \in DOMAIN memory, NEW q,
             NEW answer, answer = AnswerFromPrevious(q, memory[o]),
             answer \notin {None, Raised}, answer.metric # None
      PROVE  SpeaksTruly(answer, answer.source.rows)
  <2>1. PICK s \in Sessions : s = owner[o] /\ memory[o] \in Seq(Given(s))
    BY <1>3, MemoryDomain DEF LiveInv, Typed, Own
  <2>2. PICK turns, given : turns = memory[o] /\ given = Given(s)
    OBVIOUS
  <2>3. turns \in Seq(given) /\ \A t \in given : FromTable(t)
    BY <1>3, <2>1, <2>2 DEF Tabled
  <2> QED
    BY <1>3, <2>2, <2>3, AnswerIs
<1>4. LiveInv /\ Tabled => SpokenDirection
  BY <1>3 DEF SpokenDirection, SpeaksTruly
<1> QED
  BY <1>2, <1>4, PTL

-----------------------------------------------------------------------------
(* What record() keeps.                                                     *)

\* The last turns, as many as the limit allows.
Limit(n) == IF MaxRemembered <= n THEN MaxRemembered ELSE n
LEMMA RememberedEnds ==
    ASSUME NEW T, IsSeq(T)
    PROVE  Ends(Remembered(T), T, Limit(Len(T)))
<1>1. PICK n \in Nat : n = Len(T) /\ DOMAIN T = 1..n
  BY SeqFacts
<1>2. PICK m \in Nat \ {0} : m = MaxRemembered
  BY MemoryAssumption
<1>3. PICK k \in Nat : k = Limit(n) /\ k <= n /\ k <= m /\ (k = n \/ k = m)
  BY <1>1, <1>2 DEF Limit
<1>4. PICK f : f = Max({1, n - m + 1})
  OBVIOUS
<1>5. f \in {1, n - m + 1} /\ \A x \in {1, n - m + 1} : x <= f
  <2>1. IsFiniteSet({1, n - m + 1})
    BY PairIsFinite
  <2>2. {1, n - m + 1} \in SUBSET Int
    BY <1>1, <1>2
  <2> QED
    BY <1>4, <2>1, <2>2, MaxOfFinite
<1>6. f = n - k + 1 /\ f \in Int /\ n - f + 1 = k
  BY <1>2, <1>3, <1>5 DEF Limit
<1>7. \A i \in f..n : T[i] \in ToSet(T)
  <2>1. \A i \in f..n : i \in 1..n
    BY <1>3, <1>6
  <2> QED
    BY <1>1, <2>1 DEF ToSet
<1>8. PICK r : r = SubSeq(T, f, n)
  OBVIOUS
<1>9. /\ r \in Seq(ToSet(T)) /\ Len(r) = (IF f <= n THEN n - f + 1 ELSE 0)
      /\ \A i \in 1..n - f + 1 : r[i] = T[f + i - 1]
  BY <1>6, <1>7, <1>8, SubSeqProperties
<1>10. Len(r) = k
  BY <1>3, <1>6, <1>9
<1>11. IsSeq(r) /\ DOMAIN r = 1..k
  BY <1>9, <1>10, SeqOfSeq, LenProperties
<1>12. \A i \in 1..k : f + i - 1 = n - k + i
  BY <1>6
<1>13. \A i \in 1..k : r[i] = T[n - k + i]
  BY <1>6, <1>9, <1>12
<1>14. Remembered(T) = r
  BY <1>1, <1>2, <1>4, <1>8 DEF Remembered
<1> QED
  BY <1>1, <1>3, <1>10, <1>11, <1>13, <1>14 DEF Ends

\* To forget before a turn is appended or after makes no difference.
LEMMA RememberedMore ==
    ASSUME NEW T, IsSeq(T), NEW x
    PROVE  /\ Remembered(Append(Remembered(T), x)) = Remembered(Append(T, x))
           /\ IsSeq(Remembered(T)) /\ IsSeq(Append(T, x))
<1>1. PICK n \in Nat : n = Len(T) /\ DOMAIN T = 1..n
  BY SeqFacts
<1>2. PICK m \in Nat \ {0} : m = MaxRemembered
  BY MemoryAssumption
<1>3. PICK k \in Nat : k = Limit(n) /\ k <= n /\ k <= m /\ (k = n \/ k = m)
  BY <1>1, <1>2 DEF Limit
<1>4. PICK R : R = Remembered(T) /\ Ends(R, T, k)
  BY <1>1, <1>3, RememberedEnds
<1>5. PICK A, B : A = Append(R, x) /\ B = Append(T, x)
  OBVIOUS
<1>6. IsSeq(R) /\ Len(R) = k /\ DOMAIN R = 1..k /\ \A i \in 1..k : R[i] = T[n - k + i]
  BY <1>1, <1>4 DEF Ends
<1>7. IsSeq(A) /\ Len(A) = k + 1 /\ A[k + 1] = x /\ \A i \in 1..k : A[i] = R[i]
  <2>1. Longer(A, R, x) /\ Len(A) = Len(R) + 1
    BY <1>5, <1>6, AppendedLonger, Appended
  <2> QED
    BY <1>6, <2>1 DEF Longer
<1>8. IsSeq(B) /\ Len(B) = n + 1 /\ B[n + 1] = x /\ \A i \in 1..n : B[i] = T[i]
  <2>1. Longer(B, T, x) /\ Len(B) = Len(T) + 1
    BY <1>5, AppendedLonger, Appended
  <2> QED
    BY <1>1, <2>1 DEF Longer
<1>9. PICK p \in Nat : p = Limit(k + 1) /\ p = Limit(n + 1) /\ p <= k + 1
  <2>1. Limit(k + 1) = Limit(n + 1)
    BY <1>2, <1>3 DEF Limit
  <2>2. Limit(k + 1) \in Nat /\ Limit(k + 1) <= k + 1
    BY <1>2, <1>3 DEF Limit
  <2> QED
    BY <2>1, <2>2
<1>10. PICK P, Q : P = Remembered(A) /\ Q = Remembered(B) /\ Ends(P, A, p) /\ Ends(Q, B, p)
  BY <1>7, <1>8, <1>9, RememberedEnds
<1>11. /\ IsSeq(P) /\ Len(P) = p /\ \A i \in 1..p : P[i] = A[(k + 1) - p + i]
       /\ IsSeq(Q) /\ Len(Q) = p /\ \A i \in 1..p : Q[i] = B[(n + 1) - p + i]
  BY <1>7, <1>8, <1>10 DEF Ends
<1>12. ASSUME NEW i \in 1..p PROVE P[i] = Q[i]
  <2>1. PICK j, l : j = (k + 1) - p + i /\ l = (n + 1) - p + i
    OBVIOUS
  <2>2. P[i] = A[j] /\ Q[i] = B[l]
    BY <1>11, <2>1
  <2>3. CASE i = p
    <3>1. j = k + 1 /\ l = n + 1
      BY <2>1, <2>3
    <3> QED
      BY <1>7, <1>8, <2>2, <3>1
  <2>4. CASE i # p
    <3>1. 1 <= i /\ i <= p - 1 /\ i \in Int
      BY <2>4
    <3>2. j \in 1..k /\ l \in 1..n /\ n - k + j = l
      BY <1>3, <1>9, <2>1, <3>1
    <3> QED
      BY <1>6, <1>7, <1>8, <2>2, <3>2
  <2> QED
    BY <2>3, <2>4
<1>13. P = Q
  BY <1>11, <1>12, SameSeq
<1> QED
  BY <1>4, <1>5, <1>6, <1>8, <1>10, <1>13

\* Nothing of nothing.
LEMMA RememberedNone == Remembered(<<>>) = <<>>
<1>1. IsSeq(<<>>) /\ Len(<<>>) = 0
  BY NoWords
<1>2. Limit(0) = 0
  BY MemoryAssumption DEF Limit
<1>3. PICK r : r = Remembered(<<>>) /\ Ends(r, <<>>, 0)
  BY <1>1, <1>2, RememberedEnds
<1>4. IsSeq(r) /\ Len(r) = 0
  BY <1>3 DEF Ends
<1> QED
  BY <1>1, <1>3, <1>4, SameSeq

-----------------------------------------------------------------------------
(* The items of a dictionary.                                               *)

\* No key is there twice; a session's orchestrator.
OneKey(d) == \A i, j \in DOMAIN d : d[i].key = d[j].key => i = j
Keeps(d, s, o) == \E i \in DOMAIN d : d[i].key = s /\ d[i].orch = o

\* A key is in a dictionary with an orchestrator.
LEMMA KeyKept == ASSUME NEW d, NEW s PROVE HasKey(d, s) <=> \E o : Keeps(d, s, o)
BY DEF HasKey, Keeps

\* What is appended under a new key,
LEMMA AddedKeeps ==
    ASSUME NEW d, IsSeq(d), OneKey(d), NEW e, ~HasKey(d, e.key), NEW n, n = Append(d, e)
    PROVE  /\ OneKey(n)
           /\ \A s, o : Keeps(n, s, o) <=> Keeps(d, s, o) \/ (s = e.key /\ o = e.orch)
<1>1. PICK m \in Nat : m = Len(d) /\ DOMAIN d = 1..m
  BY SeqFacts
<1>2. DOMAIN n = 1..m + 1 /\ n[m + 1] = e /\ \A i \in 1..m : n[i] = d[i]
  <2>1. Longer(n, d, e)
    BY AppendedLonger
  <2> QED
    BY <1>1, <2>1 DEF Longer
<1>3. \A k \in 1..m + 1 : k \in 1..m \/ k = m + 1
  BY <1>1
<1>4. m + 1 \in 1..m + 1 /\ \A k \in 1..m : k \in 1..m + 1
  BY <1>1
<1>5. \A i \in 1..m : d[i].key # e.key
  BY <1>1 DEF HasKey
<1>6. OneKey(n)
  BY <1>1, <1>2, <1>3, <1>5 DEF OneKey
<1>7. ASSUME NEW s, NEW o
      PROVE  Keeps(n, s, o) <=> Keeps(d, s, o) \/ (s = e.key /\ o = e.orch)
  BY <1>1, <1>2, <1>3, <1>4 DEF Keeps
<1> QED
  BY <1>6, <1>7

\* what is moved to the end,
Moved(n, d, i) == IsSeq(d) /\ OneKey(d) /\ i \in DOMAIN d /\ n = Append(RemoveAt(d, i), d[i])
SameKeys(n, d) == OneKey(n) /\ \A s, o : Keeps(n, s, o) <=> Keeps(d, s, o)
LEMMA MovedKeeps ==
    ASSUME NEW n, NEW d, NEW i, Moved(n, d, i)
    PROVE  SameKeys(n, d)
<1> USE DEF Moved
<1>1. PICK m \in Nat : m = Len(d) /\ DOMAIN d = 1..m
  BY SeqFacts
<1>2. PICK f : f = RemoveAt(d, i) /\ Closes(f, d, i)
  BY RemovedPlaces
<1>3. /\ IsSeq(f) /\ DOMAIN f = 1..m - 1
      /\ \A k \in 1..m - 1 : f[k] = d[IF k < i THEN k ELSE k + 1]
  BY <1>1, <1>2 DEF Closes
<1>4. \A k \in 1..m - 1 : (IF k < i THEN k ELSE k + 1) \in (1..m) \ {i}
  BY <1>1
<1>5. \A j, k \in 1..m - 1 :
        (IF j < i THEN j ELSE j + 1) = (IF k < i THEN k ELSE k + 1) => j = k
  BY <1>1
<1>6. OneKey(f)
  <2>1. ASSUME NEW j \in 1..m - 1, NEW k \in 1..m - 1, f[j].key = f[k].key PROVE j = k
    <3>1. PICK a, b : /\ a = IF j < i THEN j ELSE j + 1
                      /\ b = IF k < i THEN k ELSE k + 1
      OBVIOUS
    <3>2. a \in DOMAIN d /\ b \in DOMAIN d /\ f[j] = d[a] /\ f[k] = d[b]
      BY <1>1, <1>3, <1>4, <3>1
    <3>3. a = b
      BY <2>1, <3>2 DEF OneKey
    <3> QED
      BY <1>5, <3>1, <3>3
  <2> QED
    BY <1>3, <2>1 DEF OneKey
<1>7. ~HasKey(f, d[i].key)
  <2>1. \A k \in 1..m - 1 : f[k].key # d[i].key
    BY <1>1, <1>3, <1>4 DEF OneKey
  <2> QED
    BY <1>3, <2>1 DEF HasKey
<1>8. OneKey(n)
  BY <1>2, <1>3, <1>6, <1>7, AddedKeeps
<1>9. ToSet(n) = ToSet(d)
  BY MovedItems
<1>10. \A c, s, o : Keeps(c, s, o) <=> \E e \in ToSet(c) : e.key = s /\ e.orch = o
  BY DEF Keeps, ToSet
<1>11. \A s, o : Keeps(n, s, o) <=> Keeps(d, s, o)
  BY <1>9, <1>10
<1> QED
  BY <1>8, <1>11 DEF SameKeys

\* what is put in its place,
LEMMA ReplacedKeeps ==
    ASSUME NEW d, IsSeq(d), OneKey(d), NEW i \in DOMAIN d, NEW e, e.key = d[i].key,
           NEW n, n = ReplaceAt(d, i, e)
    PROVE  /\ OneKey(n)
           /\ \A s, o : s # e.key => (Keeps(n, s, o) <=> Keeps(d, s, o))
<1>1. DOMAIN n = DOMAIN d /\ \A j \in DOMAIN d : n[j] = IF j = i THEN e ELSE d[j]
  BY Replaced
<1>2. \A j \in DOMAIN d : n[j].key = d[j].key
  BY <1>1
<1>3. OneKey(n)
  BY <1>1, <1>2 DEF OneKey
<1> QED
  BY <1>1, <1>2, <1>3 DEF Keeps

\* and what is popped.
LEMMA PoppedKeeps ==
    ASSUME NEW d, IsSeq(d), d # <<>>, OneKey(d)
    PROVE  OneKey(Tail(d))
<1>1. PICK m \in Nat : m = Len(d) /\ DOMAIN d = 1..m
  BY SeqFacts
<1>2. PICK f : f = Tail(d)
  OBVIOUS
<1>3. m # 0
  BY <1>1, EmptySeq DEF IsSeq
<1>4. DOMAIN f = 1..m - 1 /\ \A k \in 1..m - 1 : f[k] = d[k + 1]
  <2>1. f \in Seq(ToSet(d)) /\ Len(f) = m - 1 /\ \A k \in 1..m - 1 : f[k] = d[k + 1]
    BY <1>1, <1>2, HeadTailProperties DEF IsSeq
  <2> QED
    BY <2>1, LenProperties
<1>5. \A j, k \in 1..m - 1 : j + 1 \in 1..m /\ (j + 1 = k + 1 => j = k)
  BY <1>1
<1>6. ASSUME NEW j \in 1..m - 1, NEW k \in 1..m - 1, f[j].key = f[k].key PROVE j = k
  <2>1. j + 1 = k + 1
    BY <1>1, <1>4, <1>5, <1>6 DEF OneKey
  <2> QED
    BY <1>5, <2>1
<1>7. OneKey(f)
  BY <1>4, <1>6 DEF OneKey
<1> QED
  BY <1>2, <1>7

\* A dictionary has no more items than keys.
LEMMA ManyKeys ==
    ASSUME NEW d, IsSeq(d), OneKey(d), NEW S, IsFiniteSet(S), Kept(d) \subseteq S
    PROVE  Len(d) <= Cardinality(S)
<1>1. PICK n \in Nat : n = Len(d) /\ DOMAIN d = 1..n
  BY SeqFacts
<1> DEFINE f == [i \in 1..n |-> d[i].key]
<1>2. f \in [1..n -> S]
  BY <1>1 DEF Kept
<1>3. f \in Injection(1..n, S)
  BY <1>1, <1>2 DEF Injection, IsInjective, OneKey
<1> HIDE DEF f
<1>4. Cardinality(1..n) <= Cardinality(S)
  BY <1>3, FS_Injection
<1> QED
  BY <1>1, <1>4, UpTo

-----------------------------------------------------------------------------
(* The answers of a session, live and offline.                              *)

\* The places of a session's live answers, and of the others.
LivePlaces(q) == {i \in DOMAIN q : q[i].live}
OfflineIndexes(q) == {i \in DOMAIN q : ~q[i].live}
LEMMA AnswersOf ==
    \A s : /\ Live(s) = Chosen(shown[s], LivePlaces(shown[s]))
           /\ Live(s)' = Chosen(shown'[s], LivePlaces(shown'[s]))
           /\ Offline(s) = Chosen(shown[s], OfflineIndexes(shown[s]))
           /\ Offline(s)' = Chosen(shown'[s], OfflineIndexes(shown'[s]))
BY DEF Live, Offline, Where, Chosen, LivePlaces, OfflineIndexes

\* A live answer comes last among the live ones, an offline one among the others.
Answered(r, q, a) ==
    /\ IsSeq(Chosen(q, LivePlaces(q))) /\ IsSeq(Chosen(q, OfflineIndexes(q)))
    /\ a.live => /\ Chosen(r, LivePlaces(r)) = Append(Chosen(q, LivePlaces(q)), a)
                 /\ Chosen(r, OfflineIndexes(r)) = Chosen(q, OfflineIndexes(q))
    /\ ~a.live => /\ Chosen(r, OfflineIndexes(r)) = Append(Chosen(q, OfflineIndexes(q)), a)
                  /\ Chosen(r, LivePlaces(r)) = Chosen(q, LivePlaces(q))
LEMMA AnswersMore ==
    ASSUME NEW q, IsSeq(q), NEW a, NEW r, r = Append(q, a)
    PROVE  Answered(r, q, a)
<1>1. PICK n : n = Len(q) + 1
  OBVIOUS
<1>2. /\ DOMAIN r = DOMAIN q \union {n} /\ n \notin DOMAIN q
      /\ \A i \in DOMAIN q : r[i] = q[i]
      /\ r[n] = a
  BY <1>1, Appended
<1>3. PICK S : S = LivePlaces(q) /\ S \in SUBSET DOMAIN q
  BY DEF LivePlaces
<1>4. PICK R : R = OfflineIndexes(q) /\ R \in SUBSET DOMAIN q
  BY DEF OfflineIndexes
<1>5. /\ Chosen(r, S) = Chosen(q, S) /\ Chosen(r, S \union {n}) = Append(Chosen(q, S), a)
      /\ IsSeq(Chosen(q, S))
  <2>1. PICK T : T = S \union {Len(q) + 1}
    OBVIOUS
  <2>2. OneMore(r, q, S, T, a)
    BY <1>3, <2>1, ChosenMore
  <2> QED
    BY <1>1, <2>1, <2>2 DEF OneMore
<1>6. /\ Chosen(r, R) = Chosen(q, R) /\ Chosen(r, R \union {n}) = Append(Chosen(q, R), a)
      /\ IsSeq(Chosen(q, R))
  <2>1. PICK T : T = R \union {Len(q) + 1}
    OBVIOUS
  <2>2. OneMore(r, q, R, T, a)
    BY <1>4, <2>1, ChosenMore
  <2> QED
    BY <1>1, <2>1, <2>2 DEF OneMore
<1>7. LivePlaces(r) = IF a.live THEN S \union {n} ELSE S
  BY <1>2, <1>3 DEF LivePlaces
<1>8. OfflineIndexes(r) = IF a.live THEN R ELSE R \union {n}
  BY <1>2, <1>4 DEF OfflineIndexes
<1> QED
  BY <1>3, <1>4, <1>5, <1>6, <1>7, <1>8 DEF Answered

\* What an answer does to the session's, and to no other session's.
LEMMA AnsweredMore ==
    ASSUME NEW w \in Workers, NEW a, Typed, Answer(w, a), Serving(w)
    PROVE  /\ \A s \in Sessions : s # Session(w) => shown'[s] = shown[s]
           /\ Session(w) \in Sessions
           /\ IsSeq(Live(Session(w))) /\ IsSeq(Offline(Session(w)))
           /\ \A s : s = Session(w) => shown'[s] # <<>>
           /\ \A s : s = Session(w) /\ a.live =>
                /\ Live(s)' = Append(Live(s), a) /\ Offline(s)' = Offline(s)
           /\ \A s : s = Session(w) /\ ~a.live =>
                /\ Offline(s)' = Append(Offline(s), a) /\ Live(s)' = Live(s)
<1>1. PICK mine : mine = Session(w) /\ mine \in Sessions
  BY DEF Typed, Kinds, Requested, Session
<1>2. shown' = [shown EXCEPT ![mine] = Append(shown[mine], a)]
  BY <1>1 DEF Answer
<1>3. PICK q, r : q = shown[mine] /\ r = Append(q, a)
  OBVIOUS
<1>4. IsSeq(q) /\ shown'[mine] = r /\ \A s \in Sessions : s # mine => shown'[s] = shown[s]
  BY <1>1, <1>2, <1>3 DEF Typed, Kinds
<1>5. r # <<>>
  <2>1. IsSeq(q) /\ r = Append(q, a)
    BY <1>3, <1>4
  <2>2. Len(r) = Len(q) + 1 /\ Len(q) \in Nat
    BY <2>1, Appended, SeqFacts
  <2>3. Len(<<>>) = 0
    OBVIOUS
  <2> QED
    BY <2>2, <2>3
<1>6. /\ Live(mine) = Chosen(q, LivePlaces(q)) /\ Live(mine)' = Chosen(r, LivePlaces(r))
      /\ Offline(mine) = Chosen(q, OfflineIndexes(q))
      /\ Offline(mine)' = Chosen(r, OfflineIndexes(r))
  <2> HIDE DEF Chosen
  <2> QED
    BY <1>3, <1>4, AnswersOf
<1>7. /\ IsSeq(Live(mine)) /\ IsSeq(Offline(mine))
      /\ a.live => Live(mine)' = Append(Live(mine), a) /\ Offline(mine)' = Offline(mine)
      /\ ~a.live => Offline(mine)' = Append(Offline(mine), a) /\ Live(mine)' = Live(mine)
  <2>1. IsSeq(q) /\ r = Append(q, a)
    BY <1>3, <1>4
  <2>2. Answered(r, q, a)
    BY <2>1, AnswersMore
  <2> QED
    BY <1>6, <2>2 DEF Answered
<1> QED
  BY <1>1, <1>4, <1>5, <1>7

\* The turns of the live answers,
LEMMA TurnsMore ==
    ASSUME NEW s, IsSeq(Live(s)), NEW a, Live(s)' = Append(Live(s), a)
    PROVE  IsSeq(TurnsShown(s)) /\ TurnsShown(s)' = Append(TurnsShown(s), a.turn)
<1>1. PICK q, r : q = Live(s) /\ r = Live(s)'
  OBVIOUS
<1>2. PICK n \in Nat : n = Len(q) /\ DOMAIN q = 1..n
  BY <1>1, SeqFacts
<1>3. DOMAIN r = 1..n + 1 /\ r[n + 1] = a /\ \A i \in 1..n : r[i] = q[i]
  <2>1. Longer(r, q, a)
    BY <1>1, AppendedLonger
  <2> QED
    BY <1>2, <2>1 DEF Longer
<1>4. PICK T, U : T = TurnsShown(s) /\ U = TurnsShown(s)'
  OBVIOUS
<1>5. T = [i \in 1..n |-> q[i].turn] /\ U = [i \in 1..n + 1 |-> r[i].turn]
  BY <1>1, <1>2, <1>3, <1>4 DEF TurnsShown
<1>6. IsSeq(T) /\ Len(T) = n /\ IsSeq(U) /\ Len(U) = n + 1
  <2>1. T \in [1..n -> ToSet(T)] /\ U \in [1..n + 1 -> ToSet(U)]
    BY <1>5 DEF ToSet
  <2>2. T \in Seq(ToSet(T))
    BY <1>2, <2>1, SeqDef
  <2>3. n + 1 \in Nat
    BY <1>2
  <2>4. U \in Seq(ToSet(U))
    BY <2>1, <2>3, SeqDef
  <2>5. Len(T) = n /\ Len(U) = n + 1
    BY <1>2, <2>1, <2>2, <2>3, <2>4, LenProperties
  <2> QED
    BY <2>2, <2>4, <2>5 DEF IsSeq
<1>7. PICK V : V = Append(T, a.turn)
  OBVIOUS
<1>8. IsSeq(V) /\ Len(V) = n + 1 /\ V[n + 1] = a.turn /\ \A i \in 1..n : V[i] = T[i]
  <2>1. Longer(V, T, a.turn) /\ Len(V) = Len(T) + 1
    BY <1>6, <1>7, AppendedLonger, Appended
  <2>2. DOMAIN T = 1..n
    BY <1>5
  <2> QED
    BY <1>6, <2>1, <2>2 DEF Longer
<1>9. ASSUME NEW i \in 1..n + 1 PROVE U[i] = V[i]
  <2>1. CASE i \in 1..n
    BY <1>3, <1>5, <1>8, <2>1
  <2>2. CASE i = n + 1
    <3>1. U[n + 1] = a.turn
      BY <1>2, <1>3, <1>5
    <3> QED
      BY <1>8, <2>2, <3>1
  <2> QED
    BY <1>2, <2>1, <2>2
<1>10. U = V
  BY <1>6, <1>8, <1>9, SameSeq
<1> QED
  BY <1>4, <1>6, <1>7, <1>10

\* a sequence,
LEMMA TurnsSeq ==
    ASSUME NEW s \in Sessions, Typed
    PROVE  /\ IsSeq(TurnsShown(s)) /\ IsSeq(Live(s)) /\ IsSeq(Offline(s))
           /\ TurnsShown(s) = <<>> => Live(s) = <<>>
<1>1. IsSeq(shown[s])
  BY DEF Typed, Kinds
<1>2. IsSeq(Live(s)) /\ IsSeq(Offline(s))
  <2>1. PICK r : r = Append(shown[s], [live |-> TRUE])
    OBVIOUS
  <2> QED
    BY <1>1, <2>1, AnswersMore, AnswersOf DEF Answered
<1>3. PICK q, T : q = Live(s) /\ T = TurnsShown(s)
  OBVIOUS
<1>4. PICK n \in Nat : n = Len(q) /\ DOMAIN q = 1..n
  BY <1>2, <1>3, SeqFacts
<1>5. T = [i \in 1..n |-> q[i].turn]
  BY <1>3, <1>4 DEF TurnsShown
<1>6. IsSeq(T) /\ Len(T) = n
  <2>1. T \in [1..n -> ToSet(T)]
    BY <1>5 DEF ToSet
  <2>2. T \in Seq(ToSet(T))
    BY <1>4, <2>1, SeqDef
  <2> QED
    BY <1>4, <2>1, <2>2, LenProperties DEF IsSeq
<1>7. ASSUME T = <<>> PROVE q = <<>>
  <2>1. Len(<<>>) = 0
    OBVIOUS
  <2>2. Len(q) = 0
    BY <1>4, <1>6, <1>7, <2>1
  <2> QED
    BY <1>2, <1>3, <2>2, EmptySeq DEF IsSeq
<1> QED
  BY <1>2, <1>3, <1>6, <1>7

\* and none without answers.
LEMMA NoTurns == ASSUME NEW s, shown[s] = <<>> PROVE TurnsShown(s) = <<>> /\ Offline(s) = <<>>
<1>1. DOMAIN <<>> = {} /\ IsSeq(<<>>) /\ Len(<<>>) = 0
  BY NoWords, SeqFacts
<1>2. Cardinality({}) = 0
  BY FS_EmptySet
<1>3. LivePlaces(<<>>) = {} /\ OfflineIndexes(<<>>) = {}
  BY <1>1 DEF LivePlaces, OfflineIndexes
<1>4. PICK c : c = Chosen(<<>>, {})
  OBVIOUS
<1>5. c = [k \in 1..0 |-> <<>>[AtRank({}, Earlier({}), k - 1)]]
  BY <1>2, <1>4 DEF Chosen, Arranged
<1>6. c = <<>>
  BY <1>5
<1>7. Live(s) = <<>> /\ Offline(s) = <<>>
  BY <1>3, <1>4, <1>6, AnswersOf
<1> QED
  BY <1>1, <1>7 DEF TurnsShown

-----------------------------------------------------------------------------
(* The sessions that ask, and the dictionaries that have no place for more. *)

\* What a step leaves to the other threads, and to its own.
Alone(w) ==
    /\ Serving(w) /\ Session(w) \in Sessions /\ mixed' = mixed
    /\ Serving(w)' => request'[w] = request[w]
    /\ \A v \in Workers \ {w} :
         /\ pc'[v] = pc[v] /\ request'[v] = request[v] /\ draft'[v] = draft[v]
         /\ orch'[v] = orch[v] /\ at'[v] = at[v]
LEMMA StepAlone ==
    ASSUME NEW w \in Workers, Typed, Step(w)
    PROVE  /\ Alone(w)
           /\ Store(w) \/ OfflineAnswer(w) \/ (shown' = shown /\ Serving(w)')
<1> USE DEF At, Goto, Typed, Kinds
<1>1. Serving(w) => Session(w) \in Sessions
  BY DEF Session, Requested
<1>2. CASE Moves(w)
  <2>1. PICK place :
          /\ pc' = [pc EXCEPT ![w] = place] /\ Leads(pc[w], place)
          /\ at' = at \/ at' = [at EXCEPT ![w] = prod]
    BY <1>2 DEF Moves
  <2>2. pc[w] # "idle" /\ place # "idle"
    BY <2>1 DEF Leads
  <2>3. UNCHANGED <<request, draft, orch, mixed, shown>>
    BY <1>2 DEF Moves, traces
  <2> QED
    BY <1>1, <2>1, <2>2, <2>3 DEF Alone, Serving
<1>3. CASE Decides(w) \/ AppendTurn(w) \/ Slice(w) \/ Prepares(w)
  <2>1. UNCHANGED <<request, orch, at, mixed, shown>> /\ pc[w] # "idle"
    BY <1>3 DEF Decides, AppendTurn, Slice, Prepares, traces
  <2>2. /\ pc'[w] # "idle"
        /\ \A v \in Workers \ {w} : pc'[v] = pc[v] /\ draft'[v] = draft[v]
    <3>1. CASE Decides(w) \/ AppendTurn(w) \/ Slice(w)
      BY <2>1, <3>1 DEF Decides, Drafts, AppendTurn, Slice
    <3>2. CASE Prepares(w)
      BY <2>1, <3>2 DEF Prepares, OfflinePlaces
    <3> QED
      BY <1>3, <3>1, <3>2
  <2> QED
    BY <1>1, <2>1, <2>2 DEF Alone, Serving
<1>4. CASE Make(w) \/ Touch(w) \/ Construct(w) \/ Pop(w)
  <2>1. /\ UNCHANGED <<request, draft, at, mixed, shown>> /\ pc[w] # "idle"
        /\ \E place, o : /\ pc' = [pc EXCEPT ![w] = place] /\ place # "idle"
                         /\ orch' = orch \/ orch' = [orch EXCEPT ![w] = o]
    BY <1>4 DEF Make, Touch, Construct, Pop, traces
  <2> QED
    BY <1>1, <2>1 DEF Alone, Serving
<1>5. CASE Store(w) \/ OfflineAnswer(w)
  <2>1. /\ UNCHANGED mixed /\ pc[w] # "idle"
        /\ pc' = [pc EXCEPT ![w] = "idle"] /\ request' = [request EXCEPT ![w] = None]
        /\ at' = [at EXCEPT ![w] = 0] /\ orch' = [orch EXCEPT ![w] = 0]
        /\ draft' = [draft EXCEPT ![w] = None]
    BY <1>5 DEF Store, OfflineAnswer, Answer
  <2> QED
    BY <1>1, <1>5, <2>1 DEF Alone, Serving
<1> QED
  BY <1>2, <1>3, <1>4, <1>5, StepsOf DEF Typed

\* Who asks: it has been answered, or is being served.
LEMMA Asks ==
    \A s : /\ s \in Asking <=> (s \in Sessions /\ shown[s] # <<>>)
                                 \/ \E v \in Workers : Serving(v) /\ Session(v) = s
           /\ s \in Asking' <=> (s \in Sessions /\ shown'[s] # <<>>)
                                 \/ \E v \in Workers : Serving(v)' /\ Session(v)' = s
BY DEF Asking

\* Only a request can be the first of its session.
LEMMA StepAsking ==
    ASSUME NEW w \in Workers, Typed, Step(w)
    PROVE  Asking' = Asking
<1>1. Alone(w)
  BY StepAlone
<1>2. ASSUME NEW v \in Workers, Serving(v)'
      PROVE  Serving(v) /\ Session(v)' = Session(v)
  BY <1>1, <1>2 DEF Alone, Serving, Session
<1>3. ASSUME NEW v \in Workers, Serving(v), v # w
      PROVE  Serving(v)' /\ Session(v)' = Session(v)
  BY <1>1, <1>3 DEF Alone, Serving, Session
<1>4. CASE shown' = shown /\ Serving(w)'
  <2>1. ASSUME NEW s PROVE s \in Asking' <=> s \in Asking
    BY <1>2, <1>3, <1>4, Asks
  <2> QED
    BY <2>1
<1>5. CASE Store(w) \/ OfflineAnswer(w)
  <2>1. PICK a : Answer(w, a)
    BY <1>5 DEF Store, OfflineAnswer
  <2>2. Serving(w)
    BY <1>1 DEF Alone
  <2>3. /\ \A s \in Sessions : s # Session(w) => shown'[s] = shown[s]
        /\ \A s : s = Session(w) => shown'[s] # <<>>
        /\ Session(w) \in Sessions
    BY <2>1, <2>2, AnsweredMore
  <2>4. ASSUME NEW s PROVE s \in Asking' <=> s \in Asking
    <3>1. CASE s = Session(w)
      BY <2>2, <2>3, <3>1, Asks
    <3>2. CASE s # Session(w)
      BY <1>2, <1>3, <2>3, <3>2, Asks
    <3> QED
      BY <3>1, <3>2
  <2> QED
    BY <2>4
<1> QED
  BY <1>4, <1>5, StepAlone

Spacious == Cardinality(Asking) <= MaxSessions
Dictionaries ==
    /\ IsFiniteSet(Asking)
    /\ \A p \in DOMAIN bySession : OneKey(bySession[p]) /\ Kept(bySession[p]) \subseteq Asking
    /\ \A w \in Workers : At(w, "pop") => ~Spacious

\* A request adds its session, which leaves no more space than there was.
LEMMA AskAsking ==
    ASSUME NEW w \in Workers, NEW s \in Sessions, NEW q \in setting.asks[s], Typed, Dictionaries,
           Ask(w, s, q)
    PROVE  Asking \subseteq Asking' /\ IsFiniteSet(Asking') /\ (Spacious' => Spacious)
<1>1. /\ pc[w] = "idle" /\ pc'[w] = "select" /\ Session(w)' = s /\ shown' = shown
      /\ \A v \in Workers \ {w} : pc'[v] = pc[v] /\ Session(v)' = Session(v)
  BY DEF Ask, At, Goto, Typed, Kinds, Session
<1>2. ASSUME NEW t PROVE t \in Asking' <=> t \in Asking \/ t = s
  BY <1>1, Asks DEF Serving
<1>3. Asking' = Asking \union {s}
  BY <1>2
<1>4. IsFiniteSet(Asking) /\ IsFiniteSet(Asking')
  BY <1>3, FS_AddElement DEF Dictionaries
<1>5. PICK A, B : A = Asking /\ B = Asking'
  OBVIOUS
<1>6. Cardinality(A) <= Cardinality(B) /\ Cardinality(A) \in Nat /\ Cardinality(B) \in Nat
  <2>1. A \in SUBSET B /\ IsFiniteSet(B) /\ IsFiniteSet(A)
    BY <1>3, <1>4, <1>5
  <2> QED
    BY <2>1, FS_Subset, FS_CardinalityType
<1>7. Spacious' => Spacious
  BY <1>5, <1>6, LiveAssumption DEF Spacious
<1> QED
  BY <1>3, <1>4, <1>7

\* A key is one under which an orchestrator is kept.
LEMMA KeptKeys == ASSUME NEW d PROVE \A s : s \in Kept(d) <=> \E o : Keeps(d, s, o)
BY DEF Kept, Keeps

\* move_to_end leaves every session its orchestrator, and the thread uses its own.
SameItems ==
    /\ DOMAIN bySession' = DOMAIN bySession
    /\ \A p \in DOMAIN bySession :
         /\ OneKey(bySession'[p])
         /\ \A s, o : Keeps(bySession'[p], s, o) <=> Keeps(bySession[p], s, o)
LEMMA TouchItems ==
    ASSUME NEW w \in Workers, Typed, Dictionaries, Touch(w)
    PROVE  /\ at[w] \in DOMAIN bySession /\ SameItems
           /\ Keeps(bySession[at[w]], Session(w), orch'[w])
<1> USE DEF Touch, At, Goto
<1>1. HasPipeline(w) /\ Serving(w) /\ at[w] \in DOMAIN bySession
  BY DEF Typed, HasPipeline, Serving, Using
<1>2. PICK d : d = bySession[at[w]]
  OBVIOUS
<1>3. PICK i : i = Min(Places(w)) /\ i \in 1..Len(d) /\ d[i].key = Session(w)
  BY <1>1, <1>2, PlaceFound DEF Typed, Item
<1>4. IsSeq(d) /\ IsSeq(bySession) /\ OneKey(d)
  BY <1>1, <1>2, SeqOfSeq, LenProperties DEF Typed, Process, Dictionaries
<1>5. i \in DOMAIN d
  BY <1>3, <1>4, SeqFacts
<1>6. PICK n : n = Append(RemoveAt(d, i), d[i])
  OBVIOUS
<1>7. bySession' = ReplaceAt(bySession, at[w], n)
  BY <1>2, <1>3, <1>6 DEF SetDict, ReplaceAt, Item
<1>8. OneKey(n) /\ \A s, o : Keeps(n, s, o) <=> Keeps(d, s, o)
  <2>1. Moved(n, d, i)
    BY <1>4, <1>5, <1>6 DEF Moved
  <2>2. SameKeys(n, d)
    BY <2>1, MovedKeeps
  <2> QED
    BY <2>2 DEF SameKeys
<1>9. /\ DOMAIN bySession' = DOMAIN bySession
      /\ \A p \in DOMAIN bySession : bySession'[p] = IF p = at[w] THEN n ELSE bySession[p]
  BY <1>4, <1>7, Replaced
<1>10. SameItems
  BY <1>2, <1>8, <1>9 DEF SameItems, Dictionaries
<1>11. orch'[w] = d[i].orch
  BY <1>2, <1>3 DEF Item, Typed, Kinds
<1>12. Keeps(d, Session(w), orch'[w])
  BY <1>3, <1>5, <1>11 DEF Keeps
<1> QED
  BY <1>1, <1>2, <1>10, <1>12

\* A new orchestrator is kept for its session, and the others keep theirs.
OneItem(w) ==
    /\ DOMAIN bySession' = DOMAIN bySession
    /\ \A p \in DOMAIN bySession :
         /\ OneKey(bySession'[p])
         /\ \A s, o : s # Session(w) => (Keeps(bySession'[p], s, o) <=> Keeps(bySession[p], s, o))
    /\ (\A o : ~Keeps(bySession[at[w]], Session(w), o)) =>
         \A o : Keeps(bySession'[at[w]], Session(w), o) <=> o = orch'[w]
LEMMA ConstructItems ==
    ASSUME NEW w \in Workers, Typed, Dictionaries, Construct(w)
    PROVE  at[w] \in DOMAIN bySession /\ OneItem(w) /\ orch'[w] = Len(memory) + 1
<1> USE DEF Construct, At, Goto
<1>1. HasPipeline(w) /\ Serving(w) /\ at[w] \in DOMAIN bySession
  BY DEF Typed, HasPipeline, Serving, Using
<1>2. PICK d : d = bySession[at[w]]
  OBVIOUS
<1>3. IsSeq(d) /\ IsSeq(bySession) /\ OneKey(d)
  BY <1>1, <1>2, SeqOfSeq, LenProperties DEF Typed, Process, Dictionaries
<1>4. PICK item : /\ item = [key |-> Key(w), orch |-> Len(memory) + 1]
                  /\ item.key = Session(w) /\ item.orch = Len(memory) + 1
  BY DEF Key
<1>5. PICK n : n = IF Places(w) = {} THEN Append(d, item) ELSE ReplaceAt(d, Min(Places(w)), item)
  OBVIOUS
<1>6. bySession' = ReplaceAt(bySession, at[w], n)
  BY <1>2, <1>4, <1>5 DEF SetDict, ReplaceAt
<1>7. Places(w) = {} <=> ~HasKey(d, Session(w))
  BY <1>2 DEF Places, Key, HasKey
<1>8. orch'[w] = item.orch
  BY <1>4 DEF Typed, Kinds
<1>9. CASE Places(w) = {}
  <2>1. /\ OneKey(n)
        /\ \A s, o : Keeps(n, s, o) <=> Keeps(d, s, o) \/ (s = item.key /\ o = item.orch)
    <3>1. n = Append(d, item) /\ ~HasKey(d, item.key)
      BY <1>4, <1>5, <1>7, <1>9
    <3> QED
      BY <1>3, <3>1, AddedKeeps
  <2>2. \A o : ~Keeps(d, Session(w), o)
    BY <1>7, <1>9, KeyKept
  <2>3. /\ DOMAIN bySession' = DOMAIN bySession
        /\ \A p \in DOMAIN bySession : bySession'[p] = IF p = at[w] THEN n ELSE bySession[p]
    BY <1>3, <1>6, Replaced
  <2>4. OneItem(w)
    BY <1>1, <1>2, <1>4, <1>8, <2>1, <2>2, <2>3 DEF OneItem, Dictionaries
  <2> QED
    BY <1>1, <1>4, <1>8, <2>4
<1>10. CASE Places(w) # {}
  <2>1. PICK i : i = Min(Places(w)) /\ i \in 1..Len(d) /\ d[i].key = Session(w)
    BY <1>1, <1>2, <1>10, PlaceFound DEF Typed, Item
  <2>2. i \in DOMAIN d /\ n = ReplaceAt(d, i, item) /\ item.key = d[i].key
    BY <1>3, <1>4, <1>5, <1>10, <2>1, SeqFacts
  <2>3. OneKey(n) /\ \A s, o : s # item.key => (Keeps(n, s, o) <=> Keeps(d, s, o))
    BY <1>3, <2>2, ReplacedKeeps
  <2>4. /\ DOMAIN bySession' = DOMAIN bySession
        /\ \A p \in DOMAIN bySession : bySession'[p] = IF p = at[w] THEN n ELSE bySession[p]
    BY <1>3, <1>6, Replaced
  <2>5. Keeps(d, Session(w), d[i].orch)
    BY <2>1, <2>2 DEF Keeps
  <2>6. OneItem(w)
    BY <1>2, <1>4, <2>3, <2>4, <2>5 DEF OneItem, Dictionaries
  <2> QED
    BY <1>1, <1>4, <1>8, <2>6
<1> QED
  BY <1>9, <1>10

\* Eviction adds nothing,
LEMMA PopItems ==
    ASSUME NEW w \in Workers, Typed, Dictionaries, Pop(w)
    PROVE  /\ DOMAIN bySession' = DOMAIN bySession
           /\ \A p \in DOMAIN bySession :
                OneKey(bySession'[p]) /\ Kept(bySession'[p]) \subseteq Kept(bySession[p])
<1> USE DEF Pop, At, Goto
<1>1. HasPipeline(w) /\ at[w] \in DOMAIN bySession
  BY DEF Typed, HasPipeline, Using
<1>2. PICK d : d = bySession[at[w]]
  OBVIOUS
<1>3. IsSeq(d) /\ IsSeq(bySession) /\ d # <<>> /\ OneKey(d)
  <2>1. d # <<>>
    BY <1>2, RoomToPop DEF Typed
  <2> QED
    BY <1>1, <1>2, <2>1, SeqOfSeq, LenProperties DEF Typed, Process, Dictionaries
<1>4. PICK n : n = Tail(d)
  OBVIOUS
<1>5. bySession' = ReplaceAt(bySession, at[w], n)
  BY <1>2, <1>4 DEF SetDict, ReplaceAt
<1>6. OneKey(n) /\ \A s : HasKey(n, s) => HasKey(d, s)
  BY <1>3, <1>4, PoppedKeeps, PoppedInOrder
<1>7. Kept(n) \subseteq Kept(d)
  BY <1>6 DEF Kept, HasKey
<1>8. /\ DOMAIN bySession' = DOMAIN bySession
      /\ \A p \in DOMAIN bySession : bySession'[p] = IF p = at[w] THEN n ELSE bySession[p]
  BY <1>3, <1>5, Replaced
<1> QED
  BY <1>2, <1>6, <1>7, <1>8 DEF Dictionaries

\* and a new pipeline keeps nothing.
LEMMA MakeItems ==
    ASSUME NEW w \in Workers, Typed, Make(w)
    PROVE  \E n \in Nat :
             /\ n = Len(bySession) /\ DOMAIN bySession = 1..n
             /\ DOMAIN bySession' = 1..n + 1 /\ Len(bySession') = n + 1
             /\ \A p \in 1..n : bySession'[p] = bySession[p]
             /\ bySession'[n + 1] = <<>>
<1>1. IsSeq(bySession)
  BY SeqOfSeq DEF Typed, Process
<1>2. PICK n \in Nat : n = Len(bySession) /\ DOMAIN bySession = 1..n
  BY <1>1, SeqFacts
<1>3. Longer(bySession', bySession, <<>>) /\ Len(bySession') = Len(bySession) + 1
  BY <1>1, AppendedLonger, Appended DEF Make
<1> QED
  BY <1>2, <1>3 DEF Longer

\* A thread that is about to evict found more keys than there may be.
LEMMA FullMeansMany ==
    ASSUME NEW w \in Workers, Typed, Dictionaries, HasPipeline(w), TooMany(w)
    PROVE  ~Spacious
<1>1. PICK d : d = bySession[at[w]]
  OBVIOUS
<1>2. /\ IsSeq(d) /\ OneKey(d) /\ Kept(d) \subseteq Asking
      /\ IsFiniteSet(Asking) /\ Len(d) > MaxSessions
  BY <1>1, SeqOfSeq, LenProperties DEF Typed, Using, Process, Dictionaries, TooMany
<1>3. PICK n \in Nat, c \in Nat : n = Len(d) /\ c = Cardinality(Asking)
  BY <1>2, SeqFacts, FS_CardinalityType
<1>4. n <= c /\ n > MaxSessions
  BY <1>2, <1>3, ManyKeys
<1> QED
  BY <1>3, <1>4, LiveAssumption DEF Spacious

\* What every step keeps of the dictionaries.
LEMMA StepDictionaries ==
    ASSUME NEW w \in Workers, Typed, Dictionaries, Step(w)
    PROVE  Dictionaries'
<1> USE DEF At, Goto
<1>1. Asking' = Asking /\ Alone(w)
  BY StepAsking, StepAlone
<1>2. IsFiniteSet(Asking') /\ (Spacious' <=> Spacious)
  BY <1>1 DEF Dictionaries, Spacious
<1>3. ASSUME \A p \in DOMAIN bySession' : OneKey(bySession'[p]) /\ Kept(bySession'[p]) \subseteq Asking,
             pc'[w] = "pop" => pc[w] = "pop" \/ ~Spacious
      PROVE  Dictionaries'
  <2>1. ASSUME NEW v \in Workers, pc'[v] = "pop" PROVE ~Spacious
    BY <1>1, <1>3, <2>1 DEF Alone, Dictionaries
  <2> QED
    BY <1>1, <1>2, <1>3, <2>1 DEF Dictionaries
<1>4. CASE Moves(w)
  <2>1. bySession' = bySession
    BY <1>4 DEF Moves, shared
  <2>2. pc'[w] = "pop" => TooMany(w) /\ pc[w] = "evict"
    BY <1>4 DEF Moves, Leads, Typed, Kinds
  <2>3. pc'[w] = "pop" => ~Spacious
    BY <2>2, FullMeansMany DEF HasPipeline
  <2> QED
    BY <1>3, <2>1, <2>3 DEF Dictionaries
<1>5. CASE \/ Decides(w) \/ AppendTurn(w) \/ Slice(w) \/ Prepares(w) \/ Store(w)
           \/ OfflineAnswer(w)
  <2>1. bySession' = bySession
    BY <1>5 DEF Decides, AppendTurn, Slice, Prepares, OfflinePlaces, Store, OfflineAnswer, shared
  <2>2. pc'[w] # "pop"
    BY <1>5 DEF Decides, Drafts, AppendTurn, Slice, Prepares, OfflinePlaces, Store, OfflineAnswer, Answer,
                Typed, Kinds
  <2> QED
    BY <1>3, <2>1, <2>2 DEF Dictionaries
<1>6. CASE Touch(w)
  <2>1. SameItems /\ pc'[w] # "pop"
    BY <1>6, TouchItems DEF Touch, Typed, Kinds
  <2>2. \A p \in DOMAIN bySession : Kept(bySession'[p]) \subseteq Kept(bySession[p])
    BY <2>1, KeptKeys DEF SameItems
  <2> QED
    BY <1>3, <2>1, <2>2 DEF SameItems, Dictionaries
<1>7. CASE Construct(w)
  <2>1. OneItem(w) /\ pc'[w] # "pop"
    BY <1>7, ConstructItems DEF Construct, Typed, Kinds
  <2>2. Session(w) \in Asking
    BY <1>1, Asks DEF Alone
  <2>3. \A p \in DOMAIN bySession : \A s \in Kept(bySession'[p]) : s \in Kept(bySession[p]) \/ s = Session(w)
    BY <2>1, KeptKeys DEF OneItem
  <2> QED
    BY <1>3, <2>1, <2>2, <2>3 DEF OneItem, Dictionaries
<1>8. CASE Pop(w)
  <2>1. pc'[w] # "pop"
    BY <1>8 DEF Pop, Typed, Kinds
  <2> QED
    BY <1>3, <1>8, <2>1, PopItems DEF Dictionaries
<1>9. CASE Make(w)
  <2>1. PICK n \in Nat :
          /\ DOMAIN bySession = 1..n /\ DOMAIN bySession' = 1..n + 1
          /\ \A p \in 1..n : bySession'[p] = bySession[p]
          /\ bySession'[n + 1] = <<>>
    BY <1>9, MakeItems
  <2>2. OneKey(<<>>) /\ Kept(<<>>) = {}
    BY EmptySeq DEF OneKey, Kept
  <2>3. \A p \in 1..n + 1 : p \in 1..n \/ p = n + 1
    BY <2>1
  <2>4. pc'[w] # "pop"
    BY <1>9 DEF Make, Typed, Kinds
  <2> QED
    BY <1>3, <2>1, <2>2, <2>3, <2>4 DEF Dictionaries
<1> QED
  BY <1>4, <1>5, <1>6, <1>7, <1>8, <1>9, StepsOf DEF Typed

\* and every step of the specification.
LEMMA NextDictionaries ==
    ASSUME Typed, Dictionaries, [Next]_vars
    PROVE  Dictionaries'
<1>1. CASE UNCHANGED vars
  BY <1>1 DEF vars, shared, threads, traces, Dictionaries, Spacious, Asking, Serving, Session, At
<1>2. ASSUME NEW w \in Workers, NEW s \in Sessions, NEW q \in setting.asks[s], Ask(w, s, q)
      PROVE  Dictionaries'
  <2>1. /\ bySession' = bySession /\ pc'[w] # "pop"
        /\ \A v \in Workers \ {w} : pc'[v] = pc[v]
    BY <1>2 DEF Ask, At, Goto, shared, Typed, Kinds
  <2>2. Asking \subseteq Asking' /\ IsFiniteSet(Asking') /\ (Spacious' => Spacious)
    BY <1>2, AskAsking
  <2> QED
    BY <2>1, <2>2 DEF Dictionaries, At
<1> QED
  BY <1>1, <1>2, StepDictionaries DEF Next

-----------------------------------------------------------------------------
(* An orchestrator follows its session.                                     *)

Busy(s) == {w \in Workers : Serving(w) /\ Session(w) = s}
Holds(s, o) == \E p \in DOMAIN bySession : Keeps(bySession[p], s, o)

\* What the session's orchestrator remembers: the answers shown, with the one being recorded.
InStep(s, o) ==
    /\ \A w \in Busy(s) : At(w, "slice") => memory[o] = Append(Remembered(TurnsShown(s)), draft[w])
    /\ \A w \in Busy(s) :
         At(w, "store") => draft[w].turns = Remembered(Append(TurnsShown(s), draft[w].turn))
    /\ (\A w \in Busy(s) : pc[w] \notin {"slice", "store"}) =>
         memory[o] = Remembered(TurnsShown(s))

\* A session without an orchestrator has no answers; a request of it works with the one that
\* is kept, or is about to make the first.
Followed(s) ==
    /\ \A w \in Busy(s) :
         /\ At(w, "construct") => \A o : ~Holds(s, o)
         /\ HasOrchestrator(w) => Holds(s, orch[w])
    /\ \A o : Holds(s, o) => InStep(s, o)
    /\ (\A o : ~Holds(s, o)) => TurnsShown(s) = <<>>

\* Nothing is made of the answers but what they are.
LEMMA SameAnswers ==
    ASSUME NEW s, shown'[s] = shown[s]
    PROVE  TurnsShown(s)' = TurnsShown(s) /\ Live(s)' = Live(s) /\ Offline(s)' = Offline(s)
<1>1. Live(s)' = Live(s) /\ Offline(s)' = Offline(s)
  BY AnswersOf
<1> QED
  BY <1>1 DEF TurnsShown

\* A session is followed as before when nothing of it is touched.
LEMMA Undisturbed ==
    ASSUME NEW s, Followed(s), Busy(s)' = Busy(s),
           \A v \in Busy(s) : pc'[v] = pc[v] /\ draft'[v] = draft[v] /\ orch'[v] = orch[v],
           \A o : Holds(s, o)' <=> Holds(s, o),
           \A o : Holds(s, o) => memory'[o] = memory[o],
           TurnsShown(s)' = TurnsShown(s)
    PROVE  Followed(s)'
<1>1. \A o : Holds(s, o) => InStep(s, o)'
  BY DEF Followed, InStep, At
<1> QED
  BY <1>1 DEF Followed, At, HasOrchestrator

\* The only pipeline keeps one orchestrator for a session, made for it.
LEMMA Holder ==
    ASSUME NEW s, NEW o, Typed, Dictionaries, Holds(s, o)
    PROVE  /\ o \in DOMAIN memory /\ owner[o] = s
           /\ Len(bySession) <= 1 =>
                /\ Keeps(bySession[1], s, o) /\ Len(bySession) = 1
                /\ \A n : Holds(s, n) => n = o
<1>1. PICK p \in DOMAIN bySession : Keeps(bySession[p], s, o)
  BY DEF Holds
<1>2. PICK d : d = bySession[p]
  OBVIOUS
<1>3. PICK i \in DOMAIN d : d[i].key = s /\ d[i].orch = o
  BY <1>1, <1>2 DEF Keeps
<1>4. d \in Seq(Entries) /\ IsSeq(bySession)
  BY <1>1, <1>2, SeqOfSeq, LenProperties DEF Typed, Process
<1>5. d[i] \in Entries
  BY <1>3, <1>4, LenProperties
<1>6. o \in DOMAIN memory /\ owner[o] = s
  BY <1>3, <1>5, MemoryDomain DEF Entries, Typed
<1>7. ASSUME Len(bySession) <= 1
      PROVE  /\ Keeps(bySession[1], s, o) /\ Len(bySession) = 1
             /\ \A n : Holds(s, n) => n = o
  <2>1. PICK m \in Nat : m = Len(bySession) /\ DOMAIN bySession = 1..m
    BY <1>4, SeqFacts
  <2>2. m = 1 /\ DOMAIN bySession = {1} /\ p = 1
    BY <1>1, <1>7, <2>1
  <2>3. OneKey(d)
    BY <1>1, <1>2 DEF Dictionaries
  <2>4. ASSUME NEW n, Holds(s, n) PROVE n = o
    <3>1. Keeps(d, s, n)
      BY <1>2, <2>2, <2>4 DEF Holds
    <3>2. PICK j \in DOMAIN d : d[j].key = s /\ d[j].orch = n
      BY <3>1 DEF Keeps
    <3> QED
      BY <1>3, <2>3, <3>2 DEF OneKey
  <2> QED
    BY <1>1, <2>1, <2>2, <2>4
<1> QED
  BY <1>6, <1>7

\* As long as there is space and one pipeline, nothing is evicted, and only a thread that
\* makes an orchestrator changes which is kept, for its own session.
LEMMA StepHolds ==
    ASSUME NEW w \in Workers, Typed, Dictionaries, Step(w), Spacious, Len(bySession') <= 1
    PROVE  /\ Len(bySession) <= 1
           /\ \A s, o : s # Session(w) \/ ~Construct(w) => (Holds(s, o)' <=> Holds(s, o))
<1> USE DEF At, Goto
<1>1. PICK n \in Nat : n = Len(bySession) /\ DOMAIN bySession = 1..n /\ IsSeq(bySession)
  BY SeqOfSeq, SeqFacts DEF Typed, Process
<1>2. Typed'
  BY StepTyped
<1>3. PICK m \in Nat : m = Len(bySession') /\ DOMAIN bySession' = 1..m /\ m <= 1
  BY <1>2, SeqOfSeq, SeqFacts DEF Typed, Process
<1>4. CASE bySession' = bySession
  BY <1>4 DEF Holds
<1>5. CASE Touch(w)
  <2>1. SameItems
    BY <1>5, TouchItems
  <2>2. n = m
    BY <1>1, <1>3, <2>1 DEF SameItems
  <2> QED
    BY <1>1, <1>3, <2>1, <2>2 DEF SameItems, Holds
<1>6. CASE Construct(w)
  <2>1. OneItem(w)
    BY <1>6, ConstructItems
  <2>2. n = m
    BY <1>1, <1>3, <2>1 DEF OneItem
  <2> QED
    BY <1>1, <1>3, <1>6, <2>1, <2>2 DEF OneItem, Holds
<1>7. CASE Pop(w)
  BY <1>7 DEF Pop, Dictionaries
<1>8. CASE Make(w)
  <2>1. /\ DOMAIN bySession' = 1..n + 1 /\ Len(bySession') = n + 1
        /\ bySession'[n + 1] = <<>>
    BY <1>1, <1>8, MakeItems
  <2>2. n = 0
    BY <1>1, <1>3, <2>1
  <2>3. \A s, o : ~Keeps(<<>>, s, o)
    BY EmptySeq DEF Keeps
  <2>4. DOMAIN bySession = {} /\ DOMAIN bySession' = {1} /\ bySession'[1] = <<>>
    BY <1>1, <2>1, <2>2
  <2> QED
    BY <1>1, <2>2, <2>3, <2>4 DEF Holds
<1>9. CASE \/ Moves(w) \/ Decides(w) \/ AppendTurn(w) \/ Slice(w) \/ Prepares(w) \/ Store(w)
           \/ OfflineAnswer(w)
  BY <1>4, <1>9 DEF Moves, Decides, AppendTurn, Slice, Prepares, OfflinePlaces, Store, OfflineAnswer, shared
<1> QED
  BY <1>5, <1>6, <1>7, <1>8, <1>9, StepsOf DEF Typed

\* A thread writes to its own orchestrator only, when it records a turn.
LEMMA StepMemory ==
    ASSUME NEW w \in Workers, Typed, Step(w)
    PROVE  \A o \in DOMAIN memory :
             owner[o] # Session(w) \/ ~(AppendTurn(w) \/ Store(w)) => memory'[o] = memory[o]
<1>1. IsSeq(memory)
  BY DEF Typed, Process
<1>2. CASE AppendTurn(w)
  <2>1. PICK t : memory' = [memory EXCEPT ![orch[w]] = t]
    BY <1>2 DEF AppendTurn
  <2>2. owner[orch[w]] = Session(w)
    BY <1>2 DEF AppendTurn, At, Typed, Using, HasOrchestrator
  <2> QED
    BY <1>2, <2>1, <2>2
<1>3. CASE Store(w)
  <2>1. PICK t : memory' = [memory EXCEPT ![orch[w]] = t]
    BY <1>3 DEF Store
  <2>2. owner[orch[w]] = Session(w)
    BY <1>3 DEF Store, At, Typed, Using, HasOrchestrator
  <2> QED
    BY <1>3, <2>1, <2>2
<1>4. CASE Construct(w)
  <2>1. memory' = Append(memory, <<>>)
    BY <1>4 DEF Construct
  <2>2. \A o \in DOMAIN memory : memory'[o] = memory[o]
    BY <1>1, <2>1, Appended
  <2> QED
    BY <2>2
<1>5. CASE \/ Moves(w) \/ Decides(w) \/ Make(w) \/ Touch(w) \/ Pop(w) \/ Slice(w) \/ Prepares(w)
           \/ OfflineAnswer(w)
  BY <1>5 DEF Moves, Decides, Make, Touch, Pop, Slice, Prepares, OfflinePlaces, OfflineAnswer, shared
<1> QED
  BY <1>2, <1>3, <1>4, <1>5, StepsOf DEF Typed

\* Other sessions' requests do not disturb a session.
LEMMA StepElsewhere ==
    ASSUME NEW w \in Workers, NEW s \in Sessions, s # Session(w), Followed(s),
           Typed, Dictionaries, Step(w), Spacious, Len(bySession') <= 1
    PROVE  Followed(s)'
<1>1. Alone(w)
  BY StepAlone
<1>2. Busy(s)' = Busy(s) /\ w \notin Busy(s)
  BY <1>1 DEF Alone, Busy, Serving, Session
<1>3. \A v \in Busy(s) : pc'[v] = pc[v] /\ draft'[v] = draft[v] /\ orch'[v] = orch[v]
  BY <1>1, <1>2 DEF Alone, Busy
<1>4. \A o : Holds(s, o)' <=> Holds(s, o)
  BY StepHolds
<1>5. \A o : Holds(s, o) => memory'[o] = memory[o]
  BY Holder, StepMemory
<1>6. shown'[s] = shown[s]
  <2>1. CASE Store(w) \/ OfflineAnswer(w)
    <3>1. PICK a : Answer(w, a)
      BY <2>1 DEF Store, OfflineAnswer
    <3> QED
      BY <1>1, <3>1, AnsweredMore DEF Alone
  <2> QED
    BY <2>1, StepAlone
<1> QED
  BY <1>2, <1>3, <1>4, <1>5, <1>6, SameAnswers, Undisturbed

\* Nor does a thread that serves it without recording a turn.
LEMMA OwnSteady ==
    ASSUME NEW w \in Workers, NEW s, Followed(s),
           w \in Busy(s), \A v \in Busy(s) : v = w, \A v \in Busy(s)' : v = w,
           pc[w] \notin {"slice", "store"}, pc'[w] \notin {"slice", "store"},
           \A o : Holds(s, o)' <=> Holds(s, o),
           \A o : Holds(s, o) => memory'[o] = memory[o],
           TurnsShown(s)' = TurnsShown(s),
           pc'[w] = "construct" => \A o : ~Holds(s, o),
           w \in Busy(s)' /\ HasOrchestrator(w)' => Holds(s, orch'[w])
    PROVE  Followed(s)'
<1>1. ASSUME NEW o, Holds(s, o) PROVE InStep(s, o)'
  <2>1. memory[o] = Remembered(TurnsShown(s)) /\ memory'[o] = memory[o]
    BY <1>1 DEF Followed, InStep
  <2> QED
    BY <2>1 DEF InStep, At
<1>2. \A v \in Busy(s)' : At(v, "construct")' => \A o : ~Holds(s, o)
  BY DEF At
<1>3. \A v \in Busy(s)' : HasOrchestrator(v)' => Holds(s, orch'[v])
  OBVIOUS
<1> QED
  BY <1>1, <1>2, <1>3 DEF Followed

\* A turn is appended to those remembered.
LEMMA OwnAppend ==
    ASSUME NEW w \in Workers, NEW s \in Sessions, Followed(s), Typed, Dictionaries,
           w \in Busy(s), \A v \in Busy(s) : v = w, \A v \in Busy(s)' : v = w,
           Len(bySession) <= 1, AppendTurn(w),
           \A o : Holds(s, o)' <=> Holds(s, o), TurnsShown(s)' = TurnsShown(s)
    PROVE  Followed(s)'
<1>1. /\ pc[w] = "append" /\ pc'[w] = "slice" /\ draft' = draft /\ orch' = orch
      /\ memory' = [memory EXCEPT ![orch[w]] = Append(memory[orch[w]], draft[w])]
  BY DEF AppendTurn, At, Goto, Typed, Kinds
<1>2. Holds(s, orch[w])
  BY <1>1 DEF Followed, HasOrchestrator
<1>3. orch[w] \in DOMAIN memory /\ \A o : Holds(s, o) => o = orch[w]
  BY <1>2, Holder
<1>4. memory[orch[w]] = Remembered(TurnsShown(s))
  BY <1>1, <1>2 DEF Followed, InStep
<1>5. memory'[orch[w]] = Append(Remembered(TurnsShown(s)), draft[w])
  BY <1>1, <1>3, <1>4
<1>6. ASSUME w \in Busy(s)' PROVE InStep(s, orch[w])'
  BY <1>1, <1>5, <1>6 DEF InStep, At
<1>7. w \in Busy(s)'
  BY <1>1 DEF Busy, AppendTurn, Serving, Session
<1> QED
  BY <1>1, <1>2, <1>3, <1>6, <1>7 DEF Followed, At, HasOrchestrator

\* It is sliced off with those remembered,
LEMMA OwnSlice ==
    ASSUME NEW w \in Workers, NEW s \in Sessions, Followed(s), Typed, Dictionaries,
           w \in Busy(s), \A v \in Busy(s) : v = w, \A v \in Busy(s)' : v = w,
           Len(bySession) <= 1, Slice(w),
           \A o : Holds(s, o)' <=> Holds(s, o), TurnsShown(s)' = TurnsShown(s)
    PROVE  Followed(s)'
<1>1. /\ pc[w] = "slice" /\ pc'[w] = "store" /\ memory' = memory /\ orch' = orch
      /\ draft'[w] = [turn |-> draft[w], turns |-> Remembered(memory[orch[w]])]
  BY DEF Slice, At, Goto, Typed, Kinds, Turns, shared
<1>2. Holds(s, orch[w])
  BY <1>1 DEF Followed, HasOrchestrator
<1>3. \A o : Holds(s, o) => o = orch[w]
  BY <1>2, Holder
<1>4. PICK T : T = TurnsShown(s) /\ T = TurnsShown(s)' /\ IsSeq(T)
  BY TurnsSeq
<1>5. memory[orch[w]] = Append(Remembered(T), draft[w])
  BY <1>1, <1>2, <1>4 DEF Followed, InStep, At
<1>6. draft'[w].turns = Remembered(Append(T, draft'[w].turn))
  <2>1. PICK t : t = draft[w]
    OBVIOUS
  <2>2. Remembered(Append(Remembered(T), t)) = Remembered(Append(T, t))
    BY <1>4, RememberedMore
  <2> QED
    BY <1>1, <1>5, <2>1, <2>2
<1>7. w \in Busy(s)'
  BY <1>1 DEF Busy, Slice, Serving, Session
<1>8. InStep(s, orch[w])'
  BY <1>1, <1>4, <1>6, <1>7 DEF InStep, At
<1> QED
  BY <1>1, <1>2, <1>3, <1>7, <1>8 DEF Followed, At, HasOrchestrator

\* and stored with the answer, for which it is remembered.
LEMMA OwnStore ==
    ASSUME NEW w \in Workers, NEW s \in Sessions, Followed(s), Typed, Dictionaries,
           w \in Busy(s), s = Session(w), \A v \in Busy(s) : v = w, \A v \in Busy(s)' : v = w,
           Len(bySession) <= 1, Store(w),
           \A o : Holds(s, o)' <=> Holds(s, o)
    PROVE  Followed(s)'
<1>1. /\ pc[w] = "store" /\ Serving(w) /\ pc'[w] = "idle"
      /\ memory' = [memory EXCEPT ![orch[w]] = draft[w].turns]
  BY DEF Store, At, Serving, Answer, Goto, Typed, Kinds
<1>2. Holds(s, orch[w])
  BY <1>1 DEF Followed, HasOrchestrator
<1>3. orch[w] \in DOMAIN memory /\ \A o : Holds(s, o) => o = orch[w]
  BY <1>2, Holder
<1>4. PICK a : /\ Answer(w, a) /\ a.live = TRUE /\ a.turn = draft[w].turn
  BY DEF Store, Normalised
<1>5. IsSeq(Live(s)) /\ Live(s)' = Append(Live(s), a)
  BY <1>1, <1>4, AnsweredMore
<1>6. PICK T : T = TurnsShown(s) /\ IsSeq(T) /\ TurnsShown(s)' = Append(T, a.turn)
  BY <1>5, TurnsMore
<1>7. draft[w].turns = Remembered(Append(T, a.turn))
  BY <1>1, <1>2, <1>4, <1>6 DEF Followed, InStep, At
<1>8. memory'[orch[w]] = Remembered(Append(T, a.turn))
  BY <1>1, <1>3, <1>7
<1>9. Busy(s)' = {}
  BY <1>1 DEF Busy, Serving
<1>10. PICK o : o = orch[w] /\ Holds(s, o) /\ \A n : Holds(s, n) => n = o
  BY <1>2, <1>3
<1>11. memory'[o] = Remembered(TurnsShown(s)')
  BY <1>6, <1>8, <1>10
<1>12. InStep(s, o)'
  BY <1>9, <1>11 DEF InStep
<1> QED
  BY <1>9, <1>10, <1>12 DEF Followed

\* The first orchestrator of a session remembers nothing, and nothing was answered.
LEMMA OwnConstruct ==
    ASSUME NEW w \in Workers, NEW s \in Sessions, Followed(s), Typed, Dictionaries,
           w \in Busy(s), s = Session(w), \A v \in Busy(s) : v = w, \A v \in Busy(s)' : v = w,
           Len(bySession) <= 1, Len(bySession') <= 1, Construct(w),
           TurnsShown(s)' = TurnsShown(s)
    PROVE  Followed(s)'
<1>1. pc[w] = "construct" /\ pc'[w] = "evict" /\ memory' = Append(memory, <<>>)
  BY DEF Construct, At, Goto, Typed, Kinds
<1>2. at[w] \in DOMAIN bySession /\ OneItem(w) /\ orch'[w] = Len(memory) + 1
  BY ConstructItems
<1>3. \A o : ~Holds(s, o)
  BY <1>1 DEF Followed, At
<1>4. TurnsShown(s) = <<>>
  BY <1>3 DEF Followed
<1>5. at[w] = 1 /\ DOMAIN bySession = {1} /\ DOMAIN bySession' = {1}
  <2>1. PICK n \in Nat : n = Len(bySession) /\ DOMAIN bySession = 1..n
    BY SeqOfSeq, SeqFacts DEF Typed, Process
  <2>2. n = 1
    BY <1>2, <2>1
  <2> QED
    BY <1>2, <2>1, <2>2 DEF OneItem
<1>6. \A o : Holds(s, o)' <=> o = orch'[w]
  <2>1. \A o : ~Keeps(bySession[1], s, o)
    BY <1>3, <1>5 DEF Holds
  <2>2. \A o : Keeps(bySession'[1], s, o) <=> o = orch'[w]
    BY <1>2, <1>5, <2>1 DEF OneItem
  <2> QED
    BY <1>5, <2>2 DEF Holds
<1>7. memory'[orch'[w]] = <<>>
  <2>1. IsSeq(memory)
    BY DEF Typed, Process
  <2> QED
    BY <1>1, <1>2, <2>1, Appended
<1>8. PICK o : o = orch'[w]
  OBVIOUS
<1>9. memory'[o] = Remembered(TurnsShown(s)')
  BY <1>4, <1>7, <1>8, RememberedNone
<1>10. InStep(s, o)'
  BY <1>1, <1>9 DEF InStep, At
<1>11. \A v \in Busy(s)' : ~At(v, "construct")' /\ orch'[v] = o
  BY <1>1, <1>8 DEF At
<1> QED
  BY <1>6, <1>8, <1>10, <1>11 DEF Followed

\* A thread that uses a pipeline uses the only one there is.
LEMMA OnlyDict ==
    ASSUME NEW w \in Workers, Typed, HasPipeline(w), Len(bySession) <= 1
    PROVE  at[w] = 1 /\ DOMAIN bySession = {1}
<1>1. at[w] \in DOMAIN bySession /\ IsSeq(bySession)
  BY SeqOfSeq DEF Typed, Using, Process
<1>2. PICK n \in Nat : n = Len(bySession) /\ DOMAIN bySession = 1..n
  BY <1>1, SeqFacts
<1>3. n = 1
  BY <1>1, <1>2
<1> QED
  BY <1>1, <1>2, <1>3

\* A thread that found no orchestrator of its session is about to make the first one.
LEMMA OwnMoves ==
    ASSUME NEW w \in Workers, NEW s \in Sessions, Followed(s), Typed, Dictionaries,
           w \in Busy(s), s = Session(w), \A v \in Busy(s) : v = w, \A v \in Busy(s)' : v = w,
           Len(bySession) <= 1, Moves(w),
           \A o : Holds(s, o)' <=> Holds(s, o), TurnsShown(s)' = TurnsShown(s)
    PROVE  Followed(s)'
<1>1. PICK place \in Labels :
        /\ pc' = [pc EXCEPT ![w] = place] /\ Leads(pc[w], place)
        /\ place = "construct" => Places(w) = {}
        /\ UNCHANGED <<memory, orch>>
  BY DEF Moves, shared
<1>2. pc'[w] = place
  BY <1>1 DEF Typed, Kinds
<1>3. pc[w] \notin {"slice", "store"} /\ place \notin {"slice", "store"}
  BY <1>1 DEF Leads
<1>4. ASSUME place = "construct", NEW o PROVE ~Holds(s, o)
  <2>1. HasPipeline(w) /\ Places(w) = {}
    BY <1>1, <1>4 DEF Leads, HasPipeline
  <2>2. at[w] = 1 /\ DOMAIN bySession = {1}
    BY <2>1, OnlyDict
  <2>3. ~Keeps(bySession[1], s, o)
    BY <2>1, <2>2 DEF Places, Key, Keeps
  <2> QED
    BY <2>2, <2>3 DEF Holds
<1>5. ASSUME HasOrchestrator(w)' PROVE Holds(s, orch'[w])
  <2>1. HasOrchestrator(w)
    BY <1>1, <1>2, <1>5 DEF Leads, HasOrchestrator
  <2>2. Holds(s, orch[w])
    BY <2>1 DEF Followed
  <2> QED
    BY <1>1, <2>2
<1> QED
  BY <1>1, <1>2, <1>3, <1>4, <1>5, OwnSteady

\* An answer of the offline pipeline leaves the live ones as they are.
LEMMA OwnOffline ==
    ASSUME NEW w \in Workers, NEW s \in Sessions, Followed(s), Typed,
           w \in Busy(s), s = Session(w), \A v \in Busy(s) : v = w, \A v \in Busy(s)' : v = w,
           OfflineAnswer(w), \A o : Holds(s, o)' <=> Holds(s, o)
    PROVE  Followed(s)'
<1>1. /\ pc[w] = "offline_answer" /\ pc'[w] = "idle" /\ Serving(w) /\ memory' = memory
      /\ ~Serving(w)' /\ ~HasOrchestrator(w)'
  BY DEF OfflineAnswer, At, Answer, Goto, Typed, Kinds, Serving, HasOrchestrator, shared
<1>2. PICK a : Answer(w, a) /\ a.live = FALSE
  BY DEF OfflineAnswer
<1>3. Live(s)' = Live(s)
  BY <1>1, <1>2, AnsweredMore
<1>4. TurnsShown(s)' = TurnsShown(s)
  BY <1>3 DEF TurnsShown
<1> QED
  BY <1>1, <1>4, OwnSteady

\* The steps of the thread that serves a session, together.
LEMMA OwnStep ==
    ASSUME NEW w \in Workers, NEW s \in Sessions, Followed(s), Typed, Dictionaries,
           w \in Busy(s), s = Session(w), \A v \in Busy(s) : v = w,
           Step(w), Spacious, Len(bySession') <= 1
    PROVE  Followed(s)'
<1> USE DEF At, Goto
<1>1. Alone(w)
  BY StepAlone
<1>2. \A v \in Busy(s)' : v = w
  BY <1>1 DEF Alone, Busy, Serving, Session
<1>3. Len(bySession) <= 1
  BY StepHolds
<1>4. ~Construct(w) => \A o : Holds(s, o)' <=> Holds(s, o)
  BY StepHolds
<1>5. Store(w) \/ OfflineAnswer(w) \/ TurnsShown(s)' = TurnsShown(s)
  BY StepAlone, SameAnswers
<1>6. CASE Moves(w)
  <2>1. ~Construct(w) /\ ~Store(w) /\ ~OfflineAnswer(w)
    <3>1. memory' = memory /\ history' = history /\ shown' = shown
      BY <1>6 DEF Moves, shared, traces
    <3>2. PICK place \in Labels : pc' = [pc EXCEPT ![w] = place] /\ Leads(pc[w], place)
      BY <1>6 DEF Moves
    <3>3. pc'[w] # "idle" /\ ~(pc[w] = "construct" /\ pc'[w] = "evict")
      BY <3>2 DEF Leads, Typed, Kinds
    <3> QED
      BY <3>3 DEF Construct, Store, OfflineAnswer, Answer, Typed, Kinds
  <2> QED
    BY <1>2, <1>3, <1>4, <1>5, <1>6, <2>1, OwnMoves
<1>7. CASE Decides(w)
  <2>1. /\ pc[w] = "resolve" /\ pc'[w] = "append" /\ memory' = memory /\ orch' = orch
        /\ bySession' = bySession /\ shown' = shown
    BY <1>7 DEF Decides, Drafts, shared, traces, Typed, Kinds
  <2>2. (\A o : Holds(s, o)' <=> Holds(s, o)) /\ TurnsShown(s)' = TurnsShown(s)
    BY <2>1, SameAnswers DEF Holds
  <2>3. Holds(s, orch'[w])
    BY <2>1 DEF Followed, HasOrchestrator
  <2> QED
    BY <1>2, <2>1, <2>2, <2>3, OwnSteady
<1>8. CASE Make(w) \/ Prepares(w)
  <2>1. /\ pc[w] \in {"make"} \union OfflinePlaces /\ pc'[w] \in {"select"} \union OfflinePlaces
        /\ memory' = memory /\ shown' = shown
    BY <1>8 DEF Make, Prepares, OfflinePlaces, traces, Typed, Kinds
  <2>2. ~Construct(w)
    BY <2>1 DEF Construct, OfflinePlaces
  <2>3. \A o : Holds(s, o)' <=> Holds(s, o)
    BY <1>4, <2>2
  <2>4. TurnsShown(s)' = TurnsShown(s)
    BY <2>1, SameAnswers
  <2>5. pc'[w] # "construct" /\ ~HasOrchestrator(w)'
    BY <2>1 DEF HasOrchestrator, OfflinePlaces
  <2>6. pc[w] \notin {"slice", "store"} /\ pc'[w] \notin {"slice", "store"}
    BY <2>1 DEF OfflinePlaces
  <2> QED
    BY <1>2, <2>1, <2>3, <2>4, <2>5, <2>6, OwnSteady
<1>9. CASE Touch(w)
  <2>1. /\ pc[w] = "touch" /\ pc'[w] = "resolve" /\ memory' = memory /\ shown' = shown
    BY <1>9 DEF Touch, Typed, Kinds
  <2>2. at[w] \in DOMAIN bySession /\ Keeps(bySession[at[w]], s, orch'[w])
    BY <1>9, TouchItems
  <2>3. Holds(s, orch'[w])
    BY <2>2 DEF Holds
  <2>4. ~Construct(w)
    BY <2>1 DEF Construct
  <2>5. TurnsShown(s)' = TurnsShown(s)
    BY <2>1, SameAnswers
  <2> QED
    BY <1>2, <1>4, <2>1, <2>3, <2>4, <2>5, OwnSteady
<1>10. CASE Construct(w)
  <2>1. shown' = shown
    BY <1>10 DEF Construct
  <2>2. TurnsShown(s)' = TurnsShown(s)
    BY <2>1, SameAnswers
  <2> QED
    BY <1>2, <1>3, <1>10, <2>2, OwnConstruct
<1>11. CASE Pop(w)
  BY <1>11 DEF Pop, Dictionaries
<1>12. CASE AppendTurn(w) \/ Slice(w)
  <2>1. pc[w] # "construct" /\ shown' = shown
    BY <1>12 DEF AppendTurn, Slice, traces
  <2>2. (\A o : Holds(s, o)' <=> Holds(s, o)) /\ TurnsShown(s)' = TurnsShown(s)
    BY <1>4, <2>1, SameAnswers DEF Construct
  <2> QED
    BY <1>2, <1>3, <1>12, <2>2, OwnAppend, OwnSlice
<1>13. CASE Store(w) \/ OfflineAnswer(w)
  <2>1. ~Construct(w)
    BY <1>13 DEF Construct, Store, OfflineAnswer
  <2>2. \A o : Holds(s, o)' <=> Holds(s, o)
    BY <1>4, <2>1
  <2> QED
    BY <1>2, <1>3, <1>13, <2>2, OwnStore, OwnOffline
<1> QED
  BY <1>6, <1>7, <1>8, <1>9, <1>10, <1>11, <1>12, <1>13, StepsOf DEF Typed

\* A request of a session that waits for nothing begins with what is kept for it.
LEMMA AskFollowed ==
    ASSUME NEW w \in Workers, NEW t \in Sessions, NEW q \in setting.asks[t], Typed, Ask(w, t, q),
           NEW s \in Sessions, s \notin mixed', Followed(s)
    PROVE  /\ (\A u, v \in Busy(s) : u = v) => \A u, v \in Busy(s)' : u = v
           /\ Followed(s)'
<1>1. /\ pc[w] = "idle" /\ pc'[w] = "select" /\ Session(w)' = t
      /\ \A v \in Workers \ {w} : pc'[v] = pc[v] /\ Session(v)' = Session(v)
      /\ UNCHANGED <<bySession, memory, draft, orch, shown>>
  BY DEF Ask, At, Goto, shared, Typed, Kinds, Session
<1>2. (\A o : Holds(s, o)' <=> Holds(s, o)) /\ TurnsShown(s)' = TurnsShown(s)
  BY <1>1, SameAnswers DEF Holds
<1>3. CASE t # s
  <2>1. Busy(s)' = Busy(s) /\ w \notin Busy(s)
    BY <1>1, <1>3 DEF Busy, Serving
  <2>2. \A v \in Busy(s) : pc'[v] = pc[v] /\ draft'[v] = draft[v] /\ orch'[v] = orch[v]
    BY <1>1, <2>1 DEF Busy
  <2>3. Followed(s)'
    BY <1>1, <1>2, <2>1, <2>2, Undisturbed
  <2> QED
    BY <2>1, <2>3
<1>4. CASE t = s
  <2>1. \A v \in Workers : ~(Serving(v) /\ Session(v) = s)
    BY <1>4 DEF Ask
  <2>2. Busy(s) = {} /\ Busy(s)' = {w}
    BY <1>1, <1>4, <2>1 DEF Busy, Serving
  <2>3. ASSUME NEW o, Holds(s, o) PROVE InStep(s, o)'
    <3>1. memory[o] = Remembered(TurnsShown(s))
      BY <2>2, <2>3 DEF Followed, InStep
    <3> QED
      BY <1>1, <1>2, <2>2, <3>1 DEF InStep, At
  <2>4. Followed(s)'
    BY <1>1, <1>2, <2>2, <2>3 DEF Followed, At, HasOrchestrator
  <2> QED
    BY <2>2, <2>4
<1> QED
  BY <1>3, <1>4

-----------------------------------------------------------------------------
(* The dialogue of a session that waits for its answers.                    *)

\* It is served by one thread at a time, and followed as long as there is space for all
\* sessions in the one pipeline.
Dialogue ==
    \A s \in Sessions \ mixed :
        /\ \A v, w \in Busy(s) : v = w
        /\ Spacious /\ Len(bySession) <= 1 => Followed(s)

\* There is nothing to follow at first.
LEMMA InitDialogue == Init => Dictionaries /\ Dialogue
<1> SUFFICES ASSUME Init PROVE Dictionaries /\ Dialogue
  OBVIOUS
<1>1. \A w \in Workers : ~Serving(w) /\ pc[w] = "idle"
  BY DEF Init, Serving
<1>2. bySession = <<>> /\ DOMAIN bySession = {}
  BY EmptySeq DEF Init
<1>3. \A s \in Sessions : shown[s] = <<>>
  BY DEF Init
<1>4. Asking = {}
  BY <1>1, <1>3 DEF Asking
<1>5. Dictionaries
  BY <1>1, <1>2, <1>4, FS_EmptySet DEF Dictionaries, At
<1>6. \A s : Busy(s) = {} /\ \A o : ~Holds(s, o)
  BY <1>1, <1>2 DEF Busy, Holds
<1>7. \A s \in Sessions : TurnsShown(s) = <<>>
  BY <1>3, NoTurns
<1>8. \A s \in Sessions : Followed(s)
  BY <1>6, <1>7 DEF Followed
<1> QED
  BY <1>5, <1>6, <1>8 DEF Dialogue

\* and every step follows.
LEMMA NextDialogue ==
    ASSUME Typed, Dictionaries, Dialogue, [Next]_vars
    PROVE  Dialogue'
<1>1. CASE UNCHANGED vars
  <2>1. /\ UNCHANGED <<bySession, memory, pc, request, draft, orch, shown, mixed>>
    BY <1>1 DEF vars, shared, threads, traces
  <2>2. Spacious' = Spacious
    BY <2>1 DEF Spacious, Asking, Serving, Session
  <2>3. ASSUME NEW s \in Sessions \ mixed', Followed(s) PROVE Followed(s)'
    <3>1. Busy(s)' = Busy(s) /\ TurnsShown(s)' = TurnsShown(s)
      BY <2>1, SameAnswers DEF Busy, Serving, Session
    <3>2. \A o : Holds(s, o)' <=> Holds(s, o)
      BY <2>1 DEF Holds
    <3> QED
      BY <2>1, <2>3, <3>1, <3>2, Undisturbed
  <2> QED
    BY <2>1, <2>2, <2>3 DEF Dialogue, Busy, Serving, Session
<1>2. ASSUME NEW w \in Workers, NEW t \in Sessions, NEW q \in setting.asks[t], Ask(w, t, q)
      PROVE  Dialogue'
  <2>1. (Spacious' => Spacious) /\ bySession' = bySession /\ mixed \subseteq mixed'
    BY <1>2, AskAsking DEF Ask, shared
  <2>2. ASSUME NEW s \in Sessions \ mixed'
        PROVE  \A u, v \in Busy(s)' : u = v
    <3>1. \A v \in Workers \ {w} : pc'[v] = pc[v] /\ Session(v)' = Session(v)
      BY <1>2 DEF Ask, Goto, Session, Typed, Kinds
    <3>2. Session(w)' = t
      BY <1>2 DEF Ask, Session, Typed, Kinds
    <3>3. t = s => \A v \in Workers : ~(Serving(v) /\ Session(v) = s)
      BY <1>2, <2>2 DEF Ask
    <3>4. \A u, v \in Busy(s) : u = v
      BY <2>1, <2>2 DEF Dialogue
    <3> QED
      BY <3>1, <3>2, <3>3, <3>4 DEF Busy, Serving
  <2>3. ASSUME NEW s \in Sessions \ mixed', Spacious', Len(bySession') <= 1 PROVE Followed(s)'
    <3>1. Followed(s)
      BY <2>1, <2>3 DEF Dialogue
    <3> QED
      BY <1>2, <3>1, AskFollowed
  <2> QED
    BY <2>2, <2>3 DEF Dialogue
<1>3. ASSUME NEW w \in Workers, Step(w)
      PROVE  Dialogue'
  <2>1. Alone(w) /\ Asking' = Asking
    BY <1>3, StepAlone, StepAsking
  <2>2. mixed' = mixed /\ Spacious' = Spacious /\ \A s : Busy(s)' \subseteq Busy(s)
    BY <2>1 DEF Alone, Spacious, Busy, Serving, Session
  <2>3. ASSUME NEW s \in Sessions \ mixed', Spacious', Len(bySession') <= 1 PROVE Followed(s)'
    <3>1. Len(bySession) <= 1
      BY <1>3, <2>2, <2>3, StepHolds
    <3>2. Followed(s) /\ \A u, v \in Busy(s) : u = v
      BY <2>2, <2>3, <3>1 DEF Dialogue
    <3>3. CASE s = Session(w)
      <4>1. w \in Busy(s)
        BY <2>1, <3>3 DEF Alone, Busy
      <4> QED
        BY <1>3, <2>2, <2>3, <3>2, <3>3, <4>1, OwnStep
    <3>4. CASE s # Session(w)
      BY <1>3, <2>2, <2>3, <3>2, <3>4, StepElsewhere
    <3> QED
      BY <3>3, <3>4
  <2> QED
    BY <2>2, <2>3 DEF Dialogue
<1> QED
  BY <1>1, <1>2, <1>3 DEF Next

\* The one history of the offline pipeline ends with the question of a session that is about
\* to be answered there, and with the one answered last when no other is on its way.
HasLast(s, q) == Len(history) = 1 /\ history[1][s] # <<>> /\ Last(history[1][s]) = q
LastKept(s) ==
    /\ \A v \in Busy(s) : At(v, "offline_answer") => HasLast(s, draft[v].resolved)
    /\ Offline(s) # <<>> /\ (\A v \in Busy(s) : ~Resolving(v)) =>
         HasLast(s, Last(Offline(s)).resolved)
OfflineKept == Len(history) <= 1 => \A s \in Sessions \ mixed : LastKept(s)

\* A step that is none of the session's in the offline pipeline keeps this for it.
LEMMA LastStill ==
    ASSUME NEW w \in Workers, NEW s \in Sessions, LastKept(s), Others(w),
           w \notin Busy(s) \/ ~Resolving(w), w \notin Busy(s)' \/ ~Resolving(w)',
           Offline(s)' = Offline(s), \A q : HasLast(s, q) => HasLast(s, q)'
    PROVE  LastKept(s)'
<1>1. \A v \in Workers \ {w} :
        /\ v \in Busy(s)' <=> v \in Busy(s)
        /\ pc'[v] = pc[v] /\ draft'[v] = draft[v]
  BY DEF Others, Busy, Serving, Session
<1>2. Busy(s) \subseteq Workers /\ Busy(s)' \subseteq Workers
  BY DEF Busy
<1>3. ASSUME NEW v \in Busy(s)', At(v, "offline_answer")'
      PROVE  HasLast(s, draft[v].resolved)'
  <2>1. v # w
    BY <1>3 DEF At, Resolving
  <2>2. PICK q : q = draft[v].resolved
    OBVIOUS
  <2>3. HasLast(s, q) /\ draft'[v].resolved = q
    BY <1>1, <1>2, <1>3, <2>1, <2>2 DEF LastKept, At
  <2>4. HasLast(s, q)'
    BY <2>3
  <2> QED
    BY <2>3, <2>4 DEF HasLast
<1>4. ASSUME Offline(s)' # <<>>, \A v \in Busy(s)' : ~Resolving(v)'
      PROVE  HasLast(s, Last(Offline(s)).resolved)'
  <2>1. \A v \in Busy(s) : ~Resolving(v)
    BY <1>1, <1>2, <1>4 DEF Resolving
  <2>2. PICK q : q = Last(Offline(s)).resolved
    OBVIOUS
  <2>3. HasLast(s, q) /\ Last(Offline(s)').resolved = q
    BY <1>4, <2>1, <2>2 DEF LastKept
  <2>4. HasLast(s, q)'
    BY <2>3
  <2> QED
    BY <2>3, <2>4 DEF HasLast
<1> QED
  BY <1>3, <1>4 DEF LastKept

\* Where no thread enters or leaves the offline pipeline.
LEMMA OfflineStill ==
    ASSUME NEW w \in Workers, Typed, OfflineKept, Others(w), ~Resolving(w), ~Resolving(w)',
           history' = history \/ MakeOffline(w), mixed \subseteq mixed',
           \A s \in Sessions : Offline(s)' = Offline(s)
    PROVE  OfflineKept'
<1>1. PICK n : n = Len(history) /\ n \in Nat
  BY SeqFacts DEF Typed, Process
<1>2. CASE history' = history
  BY <1>2, LastStill DEF OfflineKept, HasLast
<1>3. CASE MakeOffline(w)
  <2>1. Len(history') = n + 1
    BY <1>1, <1>3, MakeOfflineTyped DEF Typed
  <2>2. Len(history') <= 1 => n # 1 /\ n <= 1
    BY <1>1, <2>1
  <2>3. Len(history') <= 1 => \A s, q : ~HasLast(s, q)
    BY <1>1, <2>2 DEF HasLast
  <2> QED
    BY <1>1, <2>2, <2>3, LastStill DEF OfflineKept
<1> QED
  BY <1>2, <1>3

\* What is set is the history of one session, of which all others keep theirs.
LEMMA SetsOne ==
    ASSUME Typed, NEW h, NEW t \in Sessions, NEW x, Sets(h, t, x), Len(history') <= 1
    PROVE  /\ Len(history) = 1 /\ Len(history') = 1 /\ h = 1 /\ history'[1][t] = x
           /\ \A s \in Sessions \ {t} : \A q : HasLast(s, q) => HasLast(s, q)'
<1>1. PICK n : n = Len(history) /\ n \in Nat /\ DOMAIN history = 1..n
  BY SeqFacts DEF Typed, Process
<1>2. Len(history') = n /\ h \in 1..n /\ n <= 1
  BY <1>1 DEF Sets
<1>3. n = 1 /\ h = 1
  BY <1>1, <1>2
<1> QED
  BY <1>1, <1>2, <1>3 DEF Sets, HasLast

\* The steps of a session's thread in the offline pipeline.
LEMMA OwnLast ==
    ASSUME NEW w \in Workers, NEW s \in Sessions, Typed, LastKept(s), Len(history') <= 1,
           s = Session(w), Serving(w), \A v \in Busy(s) : v = w,
           OfflineResolve(w) \/ OfflineRecord(w) \/ OfflineAnswer(w)
    PROVE  LastKept(s)'
<1>1. Others(w) /\ w \in Busy(s)
  <2>1. Others(w)
    BY DEF OfflineResolve, OfflineRecord, OfflineAnswer, Answer, Goto, Others, Typed, Kinds
  <2> QED
    BY <2>1 DEF Busy
<1>2. \A v \in Busy(s)' : v = w
  BY <1>1 DEF Others, Busy, Serving, Session
<1>3. CASE OfflineResolve(w)
  <2>1. pc'[w] = "offline_record" /\ request' = request
    BY <1>3 DEF OfflineResolve, Goto, Typed, Kinds
  <2>2. w \in Busy(s)' /\ Resolving(w)' /\ ~At(w, "offline_answer")'
    BY <1>1, <2>1 DEF Busy, Serving, Session, Resolving, At
  <2> QED
    BY <1>2, <2>2 DEF LastKept
<1>4. CASE OfflineRecord(w)
  <2>1. pc'[w] = "offline_answer" /\ request' = request /\ draft' = draft
    BY <1>4 DEF OfflineRecord, Goto, Typed, Kinds
  <2>2. w \in Busy(s)' /\ Resolving(w)'
    BY <1>1, <2>1 DEF Busy, Serving, Session, Resolving
  <2>3. PICK before, q : before = history[draft[w].pipeline][s] /\ q = draft[w].resolved
    OBVIOUS
  <2>4. IsSeq(before) /\ Sets(draft[w].pipeline, s, Append(before, q))
    BY <1>4, <2>3, RecordSets DEF Typed, Extended
  <2>5. Len(history') = 1 /\ history'[1][s] = Append(before, q)
    BY <2>4, SetsOne
  <2>6. HasLast(s, q)'
    BY <2>4, <2>5, LastAppended DEF HasLast
  <2>7. HasLast(s, draft[w].resolved)'
    BY <2>1, <2>3, <2>6 DEF HasLast
  <2> QED
    BY <1>2, <2>2, <2>7 DEF LastKept
<1>5. CASE OfflineAnswer(w)
  <2>1. PICK a : Answer(w, a) /\ a.live = FALSE /\ a.resolved = draft[w].resolved
    BY <1>5 DEF OfflineAnswer
  <2>2. pc'[w] = "idle" /\ history' = history /\ At(w, "offline_answer")
    BY <1>5 DEF OfflineAnswer, Answer, Goto, Typed, Kinds, shared
  <2>3. w \notin Busy(s)' /\ ~At(w, "offline_answer")'
    BY <2>2 DEF Busy, Serving, At
  <2>4. PICK said : said = Offline(s) /\ IsSeq(said) /\ Offline(s)' = Append(said, a)
    BY <2>1, AnsweredMore
  <2>5. Last(Offline(s)') = a
    BY <2>4, LastAppended
  <2>6. PICK q : q = draft[w].resolved
    OBVIOUS
  <2>7. HasLast(s, q)
    BY <1>1, <2>2, <2>6 DEF LastKept
  <2>8. HasLast(s, Last(Offline(s)).resolved)'
    BY <2>1, <2>2, <2>5, <2>6, <2>7 DEF HasLast
  <2> QED
    BY <1>2, <2>3, <2>8 DEF LastKept
<1> QED
  BY <1>3, <1>4, <1>5

\* They keep it, for the session and for the others.
LEMMA OfflineStepKept ==
    ASSUME NEW w \in Workers, Typed, Dialogue, OfflineKept, Step(w),
           OfflineResolve(w) \/ OfflineRecord(w) \/ OfflineAnswer(w)
    PROVE  OfflineKept'
<1> SUFFICES ASSUME Len(history') <= 1, NEW s \in Sessions \ mixed'
             PROVE  LastKept(s)'
  BY DEF OfflineKept
<1>1. Alone(w)
  BY StepAlone
<1>2. Serving(w) /\ Session(w) \in Sessions /\ mixed' = mixed /\ Others(w)
  BY <1>1 DEF Alone, Others
<1>3. /\ Len(history) <= 1
      /\ s # Session(w) => \A q : HasLast(s, q) => HasLast(s, q)'
  <2>1. CASE OfflineResolve(w)
    BY <1>2, <2>1, ResolveSets, SetsOne DEF Typed
  <2>2. CASE OfflineRecord(w)
    BY <1>2, <2>2, RecordSets, SetsOne DEF Typed
  <2>3. CASE OfflineAnswer(w)
    BY <2>3 DEF OfflineAnswer, shared, HasLast
  <2> QED
    BY <2>1, <2>2, <2>3
<1>4. LastKept(s) /\ \A u, v \in Busy(s) : u = v
  BY <1>2, <1>3 DEF OfflineKept, Dialogue
<1>5. CASE s = Session(w)
  <2>1. w \in Busy(s)
    BY <1>2, <1>5 DEF Busy
  <2> QED
    BY <1>2, <1>4, <1>5, <2>1, OwnLast
<1>6. CASE s # Session(w)
  <2>1. w \notin Busy(s) /\ w \notin Busy(s)'
    BY <1>1, <1>6 DEF Alone, Busy, Session
  <2>2. Offline(s)' = Offline(s)
    <3>1. shown'[s] = shown[s]
      <4>1. CASE OfflineAnswer(w)
        <5>1. PICK a : Answer(w, a)
          BY <4>1 DEF OfflineAnswer
        <5> QED
          BY <1>2, <1>6, <5>1, AnsweredMore
      <4>2. CASE OfflineResolve(w) \/ OfflineRecord(w)
        BY <4>2 DEF OfflineResolve, OfflineRecord, traces
      <4> QED
        BY <4>1, <4>2
    <3> QED
      BY <3>1, SameAnswers
  <2> QED
    BY <1>2, <1>3, <1>4, <1>6, <2>1, <2>2, LastStill
<1> QED
  BY <1>5, <1>6

\* Every step keeps it.
LEMMA NextOfflineKept ==
    ASSUME Typed, Dialogue, OfflineKept, [Next]_vars
    PROVE  OfflineKept'
<1>1. ASSUME NEW w \in Workers, Step(w) PROVE OfflineKept'
  <2>1. CASE OfflineResolve(w) \/ OfflineRecord(w) \/ OfflineAnswer(w)
    BY <1>1, <2>1, OfflineStepKept
  <2>2. mixed' = mixed /\ Others(w)
    BY <1>1, StepAlone DEF Alone, Others
  <2>3. CASE Store(w)
    <3>1. PICK a : Answer(w, a) /\ a.live = TRUE
      BY <2>3 DEF Store, Normalised
    <3>2. Serving(w) /\ history' = history /\ ~Resolving(w) /\ ~Resolving(w)'
      BY <2>3 DEF Store, Answer, At, Goto, Serving, Resolving, Typed, Kinds
    <3>3. /\ \A s \in Sessions : s # Session(w) => shown'[s] = shown[s]
          /\ \A s : s = Session(w) => Offline(s)' = Offline(s)
      BY <3>1, <3>2, AnsweredMore
    <3>4. \A s \in Sessions : Offline(s)' = Offline(s)
      BY <3>3, SameAnswers
    <3> QED
      BY <2>2, <3>2, <3>4, OfflineStill
  <2>4. CASE /\ shown' = shown
             /\ history' = history \/ MakeOffline(w)
             /\ ~Resolving(w) /\ ~Resolving(w)'
    <3>1. \A s \in Sessions : Offline(s)' = Offline(s)
      BY <2>4, SameAnswers
    <3>2. history' = history \/ MakeOffline(w)
      BY <2>4
    <3> QED
      BY <2>2, <2>4, <3>1, <3>2, OfflineStill
  <2> USE DEF At, Goto, Resolving, Typed, Kinds
  <2>5. CASE MakeOffline(w)
    BY <2>4, <2>5 DEF MakeOffline, traces
  <2>6. CASE Moves(w)
    BY <2>4, <2>6 DEF Moves, Leads, shared, traces
  <2>7. CASE Decides(w) \/ Make(w) \/ Touch(w) \/ Construct(w) \/ Pop(w)
    BY <2>4, <2>7 DEF Decides, Drafts, Make, Touch, Construct, Pop, shared, traces
  <2>8. CASE AppendTurn(w) \/ Slice(w)
    BY <2>4, <2>8 DEF AppendTurn, Slice, shared, traces
  <2> QED
    BY <1>1, <2>1, <2>3, <2>5, <2>6, <2>7, <2>8, StepsOf DEF Prepares
<1>2. CASE UNCHANGED vars
  <2>1. \A s \in Sessions : Offline(s)' = Offline(s)
    BY <1>2, SameAnswers DEF vars, traces
  <2>2. \A s : Busy(s)' = Busy(s) /\ \A q : HasLast(s, q)' <=> HasLast(s, q)
    BY <1>2 DEF vars, shared, threads, Busy, Serving, Session, HasLast
  <2>3. ASSUME NEW s \in Sessions, LastKept(s) PROVE LastKept(s)'
    BY <1>2, <2>1, <2>2, <2>3 DEF vars, shared, threads, LastKept, HasLast, At, Resolving
  <2> QED
    BY <1>2, <2>3 DEF vars, shared, traces, OfflineKept
<1>3. ASSUME NEW w \in Workers, NEW t \in Sessions, NEW q \in setting.asks[t], Ask(w, t, q)
      PROVE  OfflineKept'
  <2>1. /\ Others(w) /\ ~Resolving(w) /\ ~Resolving(w)' /\ history' = history
        /\ mixed \subseteq mixed' /\ shown' = shown
    BY <1>3 DEF Ask, At, Goto, shared, Others, Resolving, Typed, Kinds
  <2> QED
    BY <2>1, SameAnswers, OfflineStill
<1> QED
  BY <1>1, <1>2, <1>3 DEF Next

\* What the inductive invariant says of a session that waits for its answers.
LEMMA KeptByInvariant ==
    ASSUME Typed, Dictionaries, Dialogue, NEW s \in Sessions \ mixed, Spacious,
           Busy(s) = {}, Len(bySession) = 1, Live(s) # <<>>
    PROVE  \E i \in DOMAIN bySession[1] :
              LET turns == memory[bySession[1][i].orch]
              IN  /\ bySession[1][i].key = s
                  /\ IsSuffix(turns, TurnsShown(s))
                  /\ Len(turns) = Min({MaxRemembered, Len(TurnsShown(s))})
<1>1. Followed(s)
  BY DEF Dialogue
<1>2. IsSeq(TurnsShown(s)) /\ TurnsShown(s) # <<>>
  BY TurnsSeq
<1>3. PICK o : Holds(s, o)
  BY <1>1, <1>2 DEF Followed
<1>4. Keeps(bySession[1], s, o)
  BY <1>3, Holder
<1>5. memory[o] = Remembered(TurnsShown(s))
  BY <1>1, <1>3 DEF Followed, InStep
<1>6. PICK T, r : T = TurnsShown(s) /\ r = memory[o]
  OBVIOUS
<1>7. PICK n \in Nat : n = Len(T)
  BY <1>2, <1>6, SeqFacts
<1>8. Ends(r, T, Limit(n))
  BY <1>2, <1>5, <1>6, <1>7, RememberedEnds
<1>9. Limit(n) \in 0..n /\ Limit(n) = Min({MaxRemembered, n})
  BY <1>7, MemoryAssumption, MinOfTwo DEF Limit
<1>10. IsSuffix(r, T)
  <2>1. IsSeq(T) /\ Limit(n) \in 0..Len(T)
    BY <1>2, <1>6, <1>7, <1>9
  <2> QED
    BY <1>8, <2>1, EndIsSuffix
<1>11. Len(r) = Min({MaxRemembered, Len(T)})
  BY <1>7, <1>8, <1>9 DEF Ends
<1>12. PICK i \in DOMAIN bySession[1] : bySession[1][i].key = s /\ bySession[1][i].orch = o
  BY <1>4 DEF Keeps
<1> QED
  BY <1>6, <1>10, <1>11, <1>12

\* ConversationMemory "survives across follow-up questions": while a client waits for its
\* answers, there is a place for every session and no pipeline was built twice, the session's
\* orchestrator remembers its latest answers, all of them up to the limit, and the offline
\* pipeline's history ends with its latest question there.
THEOREM DialogueSurvives == Spec => []DialogueKept
<1>1. Init => OfflineKept
  BY NoTurns DEF Init, OfflineKept, LastKept, Busy, Serving
<1>2. Spec => [](Typed /\ Dictionaries /\ Dialogue /\ OfflineKept)
  BY <1>1, InitTypedRoom, NextTyped, NextDictionaries, InitDialogue, NextDialogue,
     NextOfflineKept, PTL DEF Spec
<1>3. ASSUME Typed, Dictionaries, Dialogue, OfflineKept, NEW s \in Sessions \ mixed,
             Spacious, \A w \in Workers : Serving(w) => Session(w) # s
      PROVE  /\ Len(bySession) = 1 /\ Live(s) # <<>> =>
                  \E i \in DOMAIN bySession[1] :
                      LET turns == memory[bySession[1][i].orch]
                      IN  /\ bySession[1][i].key = s
                          /\ IsSuffix(turns, TurnsShown(s))
                          /\ Len(turns) = Min({MaxRemembered, Len(TurnsShown(s))})
             /\ Len(history) = 1 /\ Offline(s) # <<>> =>
                  Last(history[1][s]) = Last(Offline(s)).resolved
  <2>1. Busy(s) = {}
    BY <1>3 DEF Busy
  <2>2. Len(history) = 1 /\ Offline(s) # <<>> =>
          Last(history[1][s]) = Last(Offline(s)).resolved
    BY <1>3, <2>1 DEF OfflineKept, LastKept, HasLast
  <2> QED
    BY <1>3, <2>1, <2>2, KeptByInvariant
<1>4. Typed /\ Dictionaries /\ Dialogue /\ OfflineKept => DialogueKept
  BY <1>3 DEF DialogueKept, Spacious
<1> QED
  BY <1>2, <1>4, PTL
=============================================================================
