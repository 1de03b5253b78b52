------------------------------ MODULE LiveBackend ------------------------------
(***************************************************************************)
(* POST /query with OCI configured: answer_question of                     *)
(* app/production_pipeline.py, its ProductionPipeline with one             *)
(* QueryOrchestrator per session, process_question, and the offline        *)
(* pipeline that answers whenever any of this raises.                      *)
(*                                                                         *)
(* Every request runs on a worker thread.  A step is what a thread does    *)
(* between two uses of what threads share: the two lazily built pipelines, *)
(* the OrderedDict of sessions, and the turns of an orchestrator's memory, *)
(* which two requests of a session use at a time.                          *)
(*                                                                         *)
(* At this commit evaluation/metrics.py has no detect_issue, so that the   *)
(* orchestrator cannot be imported, and process_question uses an unbound   *)
(* action_decision wherever it is about to answer from data or to refuse   *)
(* for want of context.  build tells how much of this is repaired:         *)
(*   "commit"     nothing                                                  *)
(*   "importable" detect_issue exists                                      *)
(*   "repaired"   action_decision is bound as well, as the tests of the    *)
(*                orchestrator take it to be                               *)
(***************************************************************************)
EXTENDS SqlPath, NextActions

CONSTANTS
    Workers, Sessions,
    MaxSessions,      \* MAX_SESSIONS, 100 in the code
    Continues(_),     \* is the question a follow-up for the offline pipeline?
    Rewrite(_, _),    \* what the offline pipeline makes of it and the one before
    Settings          \* the builds, configurations and loads that are looked at: records of
                      \*   build, profile   see above; is SELECT_AI_PROFILE set?
                      \*   threads          bound on the requests at a time
                      \*   requests         bound on the requests altogether
                      \*   asks             the questions each session asks

\* The server runs at most 40 requests at a time, in the threads of its pool.
ASSUME LiveAssumption ==
    /\ MaxSessions \in Nat \ {0}
    /\ IsFiniteSet(Workers) /\ Cardinality(Workers) <= MaxSessions
    /\ \A c \in Settings :
         /\ c.build \in {"commit", "importable", "repaired"} /\ c.profile \in BOOLEAN
         /\ c.threads \in Nat /\ c.requests \in Nat
         /\ c.asks \in [Sessions -> SUBSET Seq(STRING)]

VARIABLES
    \* the process
    setting,          \* one of Settings, for good
    prod,             \* _PROD, 0 or the place of a pipeline in bySession
    bySession,        \* the _by_session of every ProductionPipeline made
    memory,           \* the turns of every orchestrator made
    offline,          \* _PIPELINE of app/pipeline.py, likewise a place in history
    history,          \* the _history of every FullPipeline made
    \* the worker threads
    pc, request,      \* where a thread is, and the session and question it serves
    at, orch,         \* the pipeline and the orchestrator it uses
    draft,            \* the turn it is about to record, and then the sliced turns;
                      \* offline, the question as it was resolved
    \* history variables
    shown,            \* the answers of a session, the last one last
    owner,            \* the session an orchestrator was made for
    used,             \* the sessions in the order of their last lookup
    mixed             \* the sessions that had two requests at a time

shared == <<prod, bySession, memory, offline, history>>
threads == <<pc, request, at, orch, draft>>
traces == <<shown, owner, used, mixed>>
vars == <<setting, shared, threads, traces>>

Init ==
    /\ setting \in Settings
    /\ prod = 0 /\ bySession = <<>> /\ memory = <<>>
    /\ offline = 0 /\ history = <<>>
    /\ pc = [w \in Workers |-> "idle"]
    /\ request = [w \in Workers |-> None]
    /\ at = [w \in Workers |-> 0]
    /\ orch = [w \in Workers |-> 0]
    /\ draft = [w \in Workers |-> None]
    /\ shown = [s \in Sessions |-> <<>>]
    /\ owner = <<>> /\ used = <<>> /\ mixed = {}

Goto(w, place) == pc' = [pc EXCEPT ![w] = place]
At(w, place) == pc[w] = place
Serving(w) == pc[w] # "idle"
Session(w) == request[w].session
Question(w) == request[w].question

\* The requests made so far: those answered and those being served.
Requests ==
    Cardinality({w \in Workers : Serving(w)})
      + FoldFunction(LAMBDA answers, n : n + Len(answers), 0, shown)

Ask(w, s, q) ==
    /\ At(w, "idle") /\ Requests < setting.requests
    /\ Cardinality({v \in Workers : Serving(v)}) < setting.threads
    /\ request' = [request EXCEPT ![w] = [session |-> s, question |-> q]]
    /\ mixed' = IF \E v \in Workers : Serving(v) /\ Session(v) = s
                THEN mixed \union {s} ELSE mixed
    /\ Goto(w, "select")
    /\ UNCHANGED <<setting, shared, at, orch, draft, shown, owner, used>>

-----------------------------------------------------------------------------
(* answer_question: the pipeline is built by whoever finds none, and then   *)
(* read again, so that two may be built and either be used.                 *)

Select(w) ==
    /\ At(w, "select") /\ prod # 0
    /\ at' = [at EXCEPT ![w] = prod]
    /\ Goto(w, "find")
    /\ UNCHANGED <<setting, shared, request, orch, draft, traces>>

SelectNone(w) ==
    /\ At(w, "select") /\ prod = 0
    /\ Goto(w, "make")
    /\ UNCHANGED <<setting, shared, request, at, orch, draft, traces>>

Make(w) ==
    /\ At(w, "make")
    /\ bySession' = Append(bySession, <<>>)
    /\ prod' = Len(bySession')
    /\ Goto(w, "select")
    /\ UNCHANGED <<setting, memory, offline, history, request, at, orch, draft,
                   traces>>

-----------------------------------------------------------------------------
(* _orchestrator: an OrderedDict as the sequence of its items.              *)

Key(w) == Session(w)

Places(w) == {i \in DOMAIN bySession[at[w]] : bySession[at[w]][i].key = Key(w)}
Item(w) == bySession[at[w]][Min(Places(w))]
SetDict(w, items) == bySession' = [bySession EXCEPT ![at[w]] = items]
Uses(w) == used' = Append(Where(used, LAMBDA s : s # Session(w)), Session(w))

Find(w) ==
    /\ At(w, "find") /\ Places(w) # {}
    /\ Goto(w, "touch")
    /\ UNCHANGED <<setting, shared, request, at, orch, draft, traces>>

FindNone(w) ==
    /\ At(w, "find") /\ Places(w) = {}
    /\ Goto(w, "construct")
    /\ UNCHANGED <<setting, shared, request, at, orch, draft, traces>>

\* Slip: the session is looked up without being moved to the end.
TouchInPlace(w) ==
    /\ At(w, "touch") /\ Places(w) # {}
    /\ orch' = [orch EXCEPT ![w] = Item(w).orch]
    /\ Uses(w)
    /\ Goto(w, "resolve")
    /\ UNCHANGED <<setting, shared, request, at, draft, shown, owner, mixed>>

\* move_to_end and the lookup of the next line; the key may have been evicted since it was
\* found.  Evicted between the two lines, it raises as well and leaves the same behind.
Touch(w) ==
    /\ At(w, "touch") /\ Places(w) # {}
    /\ SetDict(w, Append(RemoveAt(bySession[at[w]], Min(Places(w))), Item(w)))
    /\ orch' = [orch EXCEPT ![w] = Item(w).orch]
    /\ Uses(w)
    /\ Goto(w, "resolve")
    /\ UNCHANGED <<setting, prod, memory, offline, history, request, at, draft, shown,
                   owner, mixed>>

Evicted(w) ==
    /\ At(w, "touch") /\ Places(w) = {}
    /\ Goto(w, "offline")
    /\ UNCHANGED <<setting, shared, request, at, orch, draft, traces>>

\* The import of the orchestrator fails at this commit.
ConstructFails(w) ==
    /\ At(w, "construct") /\ setting.build = "commit"
    /\ Goto(w, "offline")
    /\ UNCHANGED <<setting, shared, request, at, orch, draft, traces>>

\* A new orchestrator, with no turns.  A key that came in since it was not found keeps its
\* place in the dictionary and gets this orchestrator in place of the other one.
Construct(w) ==
    LET item == [key |-> Key(w), orch |-> Len(memory) + 1] IN
    /\ At(w, "construct") /\ setting.build # "commit"
    /\ memory' = Append(memory, <<>>)
    /\ owner' = Append(owner, Session(w))
    /\ orch' = [orch EXCEPT ![w] = item.orch]
    /\ SetDict(w, IF Places(w) = {} THEN Append(bySession[at[w]], item)
                  ELSE ReplaceAt(bySession[at[w]], Min(Places(w)), item))
    /\ Uses(w)
    /\ Goto(w, "evict")
    /\ UNCHANGED <<setting, prod, offline, history, request, at, draft, shown, mixed>>

\* Slip: one session too many.
OneTooMany(w) == Len(bySession[at[w]]) > MaxSessions + 1
TooMany(w) == Len(bySession[at[w]]) > MaxSessions

\* The loop of lines 99-101: the length is looked at, and then the first item popped.
Full(w) ==
    /\ At(w, "evict") /\ TooMany(w)
    /\ Goto(w, "pop")
    /\ UNCHANGED <<setting, shared, request, at, orch, draft, traces>>

NotFull(w) ==
    /\ At(w, "evict") /\ ~TooMany(w)
    /\ Goto(w, "resolve")
    /\ UNCHANGED <<setting, shared, request, at, orch, draft, traces>>

\* popitem would raise on an empty dictionary, which no thread meets as long as there are
\* no more threads than sessions (PopFindsSession in LiveBackend_proofs).
Pop(w) ==
    /\ At(w, "pop")
    /\ SetDict(w, Tail(bySession[at[w]]))
    /\ Goto(w, "evict")
    /\ UNCHANGED <<setting, prod, memory, offline, history, request, at, orch, draft, traces>>

-----------------------------------------------------------------------------
(* process_question.                                                        *)

Turns(w) == memory[orch[w]]

Turn(w, text, plan, sql, stage, result, says) ==
    [question |-> Question(w), resolved |-> text, plan |-> plan, sql |-> sql, stage |-> stage,
     columns |-> result.columns, rows |-> result.rows, status |-> result.status, says |-> says]

Unsupported(w, text) ==
    Turn(w, text, None, None, "unsupported_question_no_sql_generated", NoRows("skipped"),
         "not enough context")

Drafts(w, turn) ==
    /\ draft' = [draft EXCEPT ![w] = turn]
    /\ Goto(w, "append")

\* A question that asks for a change of the data is refused before anything else.
Refuse(w) ==
    /\ At(w, "resolve") /\ IsUnsafe(Question(w))
    /\ Drafts(w, Unsupported(w, Question(w)))
    /\ UNCHANGED <<setting, shared, request, at, orch, traces>>

\* What the memory gives for the question: the question and an answer or none.
Resolved(w) == Resolve(Question(w), Turns(w))
Recalled(w) == AnswerFromPrevious(Question(w), Turns(w))
Accepted(w) == At(w, "resolve") /\ ~IsUnsafe(Question(w))

\* _memory_answer_response: the rows of an earlier turn, under the statement of that turn.
Recall(w) ==
    /\ Accepted(w) /\ Recalled(w) \notin {None, Raised}
    /\ Drafts(w, Turn(w, Resolved(w), None, Recalled(w).source.sql,
                      "answered_from_conversation_memory",
                      Result("success", Recalled(w), Recalled(w).rows), Recalled(w).says))
    /\ UNCHANGED <<setting, shared, request, at, orch, traces>>

RecallRaises(w) ==
    /\ Accepted(w) /\ Recalled(w) = Raised
    /\ Goto(w, "offline")
    /\ UNCHANGED <<setting, shared, request, at, orch, draft, traces>>

\* Lines 73-135, of a build that has a value for action_decision.
WorkUnsupported(w) ==
    /\ Accepted(w) /\ Recalled(w) = None /\ setting.build = "repaired"
    /\ \E documents \in Retrievals(Resolved(w)) : ~IsSupported(Resolved(w), documents)
    /\ Drafts(w, Unsupported(w, Resolved(w)))
    /\ UNCHANGED <<setting, shared, request, at, orch, traces>>

Work(w) ==
    /\ Accepted(w) /\ Recalled(w) = None /\ setting.build = "repaired"
    /\ \E documents \in Retrievals(Resolved(w)) :
         /\ IsSupported(Resolved(w), documents)
         /\ \E plan \in Plans(Resolved(w), setting.profile),
              run \in Runs(Resolved(w), documents, setting.profile) :
              Drafts(w, Turn(w, Resolved(w), plan, run.sql, Stage(run.sql, run.result),
                             run.result, Summary(run.result)))
    /\ UNCHANGED <<setting, shared, request, at, orch, traces>>

\* Slip: the turn is recorded before the name is needed.
WorkRecordsAndRaises(w) ==
    /\ Accepted(w) /\ Recalled(w) = None /\ setting.build # "repaired"
    /\ memory' = [memory EXCEPT ![orch[w]] = Append(@, Unsupported(w, Resolved(w)))]
    /\ Goto(w, "offline")
    /\ UNCHANGED <<setting, prod, bySession, offline, history, request, at, orch, draft, traces>>

\* The name is unbound on both ways out, after the statement was run on the second.
WorkRaises(w) ==
    /\ Accepted(w) /\ Recalled(w) = None /\ setting.build # "repaired"
    /\ Goto(w, "offline")
    /\ UNCHANGED <<setting, shared, request, at, orch, draft, traces>>

\* record(): the list is appended to, sliced, and replaced by the slice.
AppendTurn(w) ==
    /\ At(w, "append")
    /\ memory' = [memory EXCEPT ![orch[w]] = Append(@, draft[w])]
    /\ Goto(w, "slice")
    /\ UNCHANGED <<setting, prod, bySession, offline, history, request, at, orch,
                   draft, traces>>

Slice(w) ==
    /\ At(w, "slice")
    /\ draft' = [draft EXCEPT ![w] = [turn |-> draft[w], turns |-> Remembered(Turns(w))]]
    /\ Goto(w, "store")
    /\ UNCHANGED <<setting, shared, request, at, orch, traces>>

-----------------------------------------------------------------------------
(* The answers.                                                             *)

\* Idle again, with nothing kept of the request.
Answer(w, response) ==
    /\ shown' = [shown EXCEPT ![Session(w)] = Append(@, response)]
    /\ Goto(w, "idle")
    /\ request' = [request EXCEPT ![w] = None]
    /\ at' = [at EXCEPT ![w] = 0]
    /\ orch' = [orch EXCEPT ![w] = 0]
    /\ draft' = [draft EXCEPT ![w] = None]
    /\ UNCHANGED <<setting, owner, used, mixed>>

\* run() of the production pipeline, confidence in hundredths.
Confidence(status) ==
    CASE status = "success" -> 90 [] status = "fallback_success" -> 60 [] OTHER -> 30
Normalised(turn) ==
    [live |-> TRUE, turn |-> turn, approximate |-> turn.status = "fallback_success",
     confidence |-> Confidence(turn.status)]

Store(w) ==
    /\ At(w, "store")
    /\ memory' = [memory EXCEPT ![orch[w]] = draft[w].turns]
    /\ Answer(w, Normalised(draft[w].turn))
    /\ UNCHANGED <<prod, bySession, offline, history>>

\* get_pipeline of app/pipeline.py, another pipeline that is built by whoever finds none.
OfflineNone(w) ==
    /\ At(w, "offline") /\ offline = 0
    /\ Goto(w, "make_offline")
    /\ UNCHANGED <<setting, shared, request, at, orch, draft, traces>>

MakeOffline(w) ==
    /\ At(w, "make_offline")
    /\ history' = Append(history, [s \in Sessions |-> <<>>])
    /\ offline' = Len(history')
    /\ Goto(w, "offline")
    /\ UNCHANGED <<setting, prod, bySession, memory, request, at, orch, draft,
                   traces>>

(* FullPipeline.run, whose SQL, execution and summary are OfflinePipeline's: what *)
(* threads share of it is the history of the session's resolved questions.        *)

\* The question is resolved on its own, or against the last one of the history.  Like there,
\* the list that is read may only be extended or replaced meanwhile, so that it is one step.
OfflineResolve(w) ==
    LET s == Session(w)
        q == Question(w)
        prior == IF Continues(q) /\ history[offline][s] # <<>>
                 THEN Last(history[offline][s]) ELSE None
    IN
    /\ At(w, "offline") /\ offline # 0
    /\ history' = IF Continues(q) THEN history ELSE [history EXCEPT ![offline][s] = <<>>]
    /\ draft' = [draft EXCEPT ![w] = [pipeline |-> offline, continues |-> prior,
                    resolved |-> IF prior = None THEN q ELSE Rewrite(q, prior)]]
    /\ Goto(w, "offline_record")
    /\ UNCHANGED <<setting, prod, bySession, memory, offline, request, at, orch, traces>>

\* Slip: the question is recorded with every session.
OfflineRecordsForAll(w) ==
    /\ At(w, "offline_record")
    /\ history' = [history EXCEPT ![draft[w].pipeline] =
                     [s \in Sessions |-> Append(@[s], draft[w].resolved)]]
    /\ Goto(w, "offline_answer")
    /\ UNCHANGED <<setting, prod, bySession, memory, offline, request, at, orch, draft, traces>>

OfflineRecord(w) ==
    /\ At(w, "offline_record")
    /\ history' = [history EXCEPT ![draft[w].pipeline][Session(w)] = Append(@, draft[w].resolved)]
    /\ Goto(w, "offline_answer")
    /\ UNCHANGED <<setting, prod, bySession, memory, offline, request, at, orch, draft, traces>>

OfflineAnswer(w) ==
    /\ At(w, "offline_answer")
    /\ Answer(w, [live |-> FALSE, question |-> Question(w), resolved |-> draft[w].resolved,
                  continues |-> draft[w].continues])
    /\ UNCHANGED shared

Step(w) ==
    \/ Select(w) \/ SelectNone(w) \/ Make(w)
    \/ Find(w) \/ FindNone(w) \/ Touch(w) \/ Evicted(w)
    \/ ConstructFails(w) \/ Construct(w) \/ Full(w) \/ NotFull(w) \/ Pop(w)
    \/ Refuse(w) \/ Recall(w) \/ RecallRaises(w)
    \/ WorkUnsupported(w) \/ Work(w) \/ WorkRaises(w)
    \/ AppendTurn(w) \/ Slice(w) \/ Store(w)
    \/ OfflineNone(w) \/ MakeOffline(w)
    \/ OfflineResolve(w) \/ OfflineRecord(w) \/ OfflineAnswer(w)

Next ==
    \E w \in Workers : Step(w) \/ \E s \in Sessions : \E q \in setting.asks[s] : Ask(w, s, q)

Spec == Init /\ [][Next]_vars
-----------------------------------------------------------------------------

Labels == {"idle", "select", "make", "find", "touch", "construct", "evict", "pop", "resolve",
           "append", "slice", "store", "offline", "make_offline", "offline_record",
           "offline_answer"}
OfflinePlaces == {"offline", "make_offline", "offline_record", "offline_answer"}
Live(s) == Where(shown[s], LAMBDA a : a.live)
Offline(s) == Where(shown[s], LAMBDA a : ~a.live)
TurnsShown(s) == [i \in DOMAIN Live(s) |-> Live(s)[i].turn]
Drafted(w) == IF At(w, "store") THEN draft[w].turn ELSE draft[w]
Recording(w) == pc[w] \in {"append", "slice", "store"}

\* Every variable holds values of its kind; a thread uses the pipeline and the orchestrator
\* that the place it has reached needs; what is remembered never exceeds the limit by more
\* than the turns being recorded.
TypeOK ==
    /\ setting \in Settings
    /\ pc \in [Workers -> Labels]
    /\ prod \in 0..Len(bySession) /\ offline \in 0..Len(history)
    /\ Len(owner) = Len(memory) /\ mixed \subseteq Sessions
    /\ \A w \in Workers :
         /\ Serving(w) => Session(w) \in Sessions
         /\ pc[w] \notin {"idle", "select", "make"} \union OfflinePlaces =>
              at[w] \in DOMAIN bySession
         /\ pc[w] \in {"evict", "pop", "resolve", "append", "slice", "store"} =>
              orch[w] \in DOMAIN memory
    /\ \A o \in DOMAIN memory :
         Len(memory[o]) <= MaxRemembered
                             + Cardinality({w \in Workers : Recording(w) /\ orch[w] = o})

\* The turns a session was shown, and those it is about to be: what it said to the backend.
Given(s) ==
    {shown[s][i].turn : i \in {j \in DOMAIN shown[s] : shown[s][j].live}}
      \union {Drafted(w) : w \in {v \in Workers : Recording(v) /\ Session(v) = s}}

\* The questions a session resolved offline, those in the making included.
Resolving(w) == pc[w] \in {"offline_record", "offline_answer"}
SaidOffline(s) ==
    {shown[s][i].resolved : i \in {j \in DOMAIN shown[s] : ~shown[s][j].live}}
      \union {draft[w].resolved : w \in {v \in Workers : Resolving(v) /\ Session(v) = s}}

\* production_pipeline.py:78-79: however requests, evictions and rebuilt pipelines
\* interleave, a follow-up is resolved against a question of its own session, one that the
\* same backend was asked.
LiveContext ==
    \A s \in Sessions :
        /\ \A turn \in Given(s) :
             \/ turn.resolved = turn.question
             \/ \E p \in Given(s) \ {turn} :
                  turn.resolved = Standalone(turn.question, p.question)
        /\ \A i \in DOMAIN shown[s] :
             ~shown[s][i].live => shown[s][i].continues \in SaidOffline(s) \union {None}

\* ConversationMemory (multi-turn) "survives across follow-up questions": as long as a client
\* waits for its answers, there are no more sessions than the dictionary keeps, and no
\* pipeline was built twice, a session's orchestrator holds its latest answers, all of them
\* up to the limit, and the offline pipeline's history ends with its latest question there.
Asking == {s \in Sessions : shown[s] # <<>>} \union {Session(w) : w \in {v \in Workers : Serving(v)}}
DialogueKept ==
    \A s \in Sessions \ mixed :
        Cardinality(Asking) <= MaxSessions /\ (\A w \in Workers : Serving(w) => Session(w) # s) =>
          /\ Len(bySession) = 1 /\ Live(s) # <<>> =>
               \E i \in DOMAIN bySession[1] :
                   LET turns == memory[bySession[1][i].orch]
                   IN  /\ bySession[1][i].key = s
                       /\ IsSuffix(turns, TurnsShown(s))
                       /\ Len(turns) = Min({MaxRemembered, Len(TurnsShown(s))})
          /\ Len(history) = 1 /\ Offline(s) # <<>> =>
               Last(history[1][s]) = Last(Offline(s)).resolved

\* A turn is remembered only if its answer was given to the session, or is about to be:
\* what raised and was answered offline leaves nothing behind.
RememberedWasShown ==
    \A o \in DOMAIN memory : ToSet(memory[o]) \subseteq Given(owner[o])

\* The rows of a live answer are what its statement returns, or are cached rows and flagged
\* as approximate, or are rows of another answer of the session under the same statement.
RowsComeFromSql ==
    \A s \in Sessions : \A turn \in Given(s) :
        turn.rows # <<>> =>
          \/ IsValid(turn.sql) /\ ToSet(turn.rows) \subseteq ToSet(TableOf(turn.sql.parts).rows)
          \/ Normalised(turn).approximate
          \/ \E source \in Given(s) \ {turn} :
               source.sql = turn.sql /\ ToSet(turn.rows) \subseteq ToSet(source.rows)

\* memory.py:389-411: an answer that calls a row the highest or the lowest "among the
\* previous results" is right about it, whatever mixture of words was asked.
SpokenDirection ==
    \A o \in DOMAIN memory : \A s \in Sessions : \A q \in setting.asks[s] :
        LET answer == AnswerFromPrevious(q, memory[o])
        IN  answer \notin {None, Raised} /\ answer.metric # None =>
              \A i \in DOMAIN answer.source.rows :
                 LET other == answer.source.rows[i][answer.metric]
                     said == answer.rows[1][answer.metric]
                 IN  /\ answer.says \in {"highest", "descending"} => other <= said
                     /\ answer.says \in {"lowest", "ascending"} => said <= other

\* The decider and the memory agree on what can be done: it never asks for a clarification
\* of a question that the memory answers from the rows it holds, even when the turn that ran
\* the SQL has been forgotten and only answers made from it are left; but for a question put
\* as a change to the SQL that was forgotten, "what about the smallest".
DeciderAgrees ==
    \A o \in DOMAIN memory : \A s \in Sessions : \A q \in setting.asks[s] :
        AnswerFromPrevious(q, memory[o]) # None /\ Decide(q, memory[o]) = "ASK_CLARIFICATION" =>
            StartsModify(q) /\ LatestSuccessful(memory[o]) = None

\* support_guard.py:23: no question that asks for a change of the data gets as far as a
\* statement, neither by itself nor as the question that a follow-up continues.
NoUnsafeSql ==
    \A s \in Sessions : \A i \in DOMAIN shown[s] :
        shown[s][i].live /\ shown[s][i].turn.sql # None =>
            ~IsUnsafe(shown[s][i].turn.question) /\ ~IsUnsafe(shown[s][i].turn.resolved)

\* production_pipeline.py:98 "bound memory": but for the requests still about to evict, no
\* more sessions than the limit are kept.
SessionsBounded ==
    \A p \in DOMAIN bySession :
        Len(bySession[p]) <= MaxSessions
          + Cardinality({w \in Workers : pc[w] \in {"evict", "pop"} /\ at[w] = p})

\* "LRU eviction": a session is evicted only when every other one that is kept was looked up
\* after it.
UseOf(s) == IF s \in ToSet(used) THEN Max({i \in DOMAIN used : used[i] = s}) ELSE 0
Kept(d) == {d[i].key : i \in DOMAIN d}
LeavesOldest(p) ==
    \A out \in Kept(bySession[p]) \ Kept(bySession'[p]) :
        \A s \in Kept(bySession'[p]) : UseOf(out) < UseOf(s)
EvictsOldest ==
    [][mixed = {} /\ Len(bySession) = 1 => LeavesOldest(1)]_vars
=============================================================================
