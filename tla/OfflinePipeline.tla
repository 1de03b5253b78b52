--------------------------- MODULE OfflinePipeline ---------------------------
(***************************************************************************)
(* FullPipeline of app/pipeline.py as the API serves it: each request runs *)
(* on a worker thread of its own, and all threads share the pipeline's     *)
(* _history of questions, kept per session.                                *)
(*                                                                         *)
(* A step of a request is what it does between two uses of _history, of    *)
(* the SQL source or of the executor.  _resolve_followup is one step: it   *)
(* uses one list of questions, which other threads replace or extend but   *)
(* never shorten, so a thread that overtakes it is as well before or after *)
(* it; the append at line 252 comes later and is a step of its own.  An    *)
(* absent key and an empty list behave alike and are both <<>>.            *)
(*                                                                         *)
(* A worker thread serves one request at a time and then takes another, of *)
(* any session.  A session is one of Sessions (the API makes up an unused  *)
(* one for a client that has none) or NoSession, a direct call of          *)
(* answer_question(question).                                              *)
(*                                                                         *)
(* All threads share one LocalDB and its connection.  LocalDB.tla shows    *)
(* what that does to the calls that overlap there: one may be given the    *)
(* rows of another, or none.  Here such rows are {Foreign}, for a request  *)
(* whose execution another's, or a health check's, has overlapped.         *)
(***************************************************************************)
EXTENDS SqlSource, RowFallback

CONSTANTS
    Workers, Sessions, NoSession, Nothing,
    Foreign,       \* a row of a statement that another call runs
    MaxTurns,      \* bound on the questions asked
    Questions,     \* the questions clients ask
    Ambiguous      \* words for which detect_clarification asks back

\* A session id is a non-empty string; answer_question without one has none.
ASSUME SessionAssumption == NoSession \notin Sessions

ASSUME BoundAssumption == MaxTurns \in Nat

\* A question is a sequence of words, the cache one of entries, a statement a record.
IsStatement(sql) ==
    /\ sql = [name |-> sql.name, filters |-> sql.filters, scalar |-> sql.scalar]
    /\ sql.filters \in Seq(ToSet(sql.filters))
    /\ \A f \in ToSet(sql.filters) : f = [column |-> f.column, value |-> f.value]
ASSUME QuestionAssumption == \A q \in Questions : q \in Seq(ToSet(q))
ASSUME StatementAssumption ==
    /\ Cache \in Seq(ToSet(Cache))
    /\ \A entry \in ToSet(Cache) : IsStatement(entry.sql)
    /\ \A sql \in LiveAnswers \ {NoSql} : IsStatement(sql)

VARIABLES
    history,    \* self._history: the resolved questions of a session
    pc,         \* where each worker is
    asked,      \* the session and question of its request
    resolved,   \* the standalone question it became
    gen,        \* what the SQL source gave for it
    response,   \* its answer, kept until the worker takes another request
    turns,      \* how many questions have been asked
    said,       \* history variable: every question a session resolved
    context,    \* history variable: the question a session resolved and answered last
    mixed,      \* history variable: sessions that had two requests at a time
    crossed     \* history variable: workers whose execution another call overlapped

vars == <<history, pc, asked, resolved, gen, response, turns, said, context, mixed, crossed>>

Init ==
    /\ history = [s \in Sessions |-> <<>>]
    /\ pc = [r \in Workers |-> "idle"]
    /\ asked = [r \in Workers |-> Nothing]
    /\ resolved = [r \in Workers |-> NoText]
    /\ gen = [r \in Workers |-> Nothing]
    /\ response = [r \in Workers |-> Nothing]
    /\ turns = 0
    /\ said = [s \in Sessions |-> {}]
    /\ context = [s \in Sessions |-> NoText]
    /\ mixed = {}
    /\ crossed = {}

Goto(r, place) == pc' = [pc EXCEPT ![r] = place]

Busy(s) == \E r \in Workers : pc[r] \notin {"idle", "done"} /\ asked[r].session = s

\* POST /query reaches the pipeline; its client may have given up on an earlier
\* question of the session (90 s read timeout) that is still being answered.
Ask(r, s, q) ==
    /\ pc[r] \in {"idle", "done"}
    /\ turns < MaxTurns
    /\ turns' = turns + 1
    /\ asked' = [asked EXCEPT ![r] = [session |-> s, question |-> q,
                    context |-> IF s = NoSession THEN NoText ELSE context[s]]]
    /\ mixed' = IF s # NoSession /\ Busy(s) THEN mixed \union {s} ELSE mixed
    /\ resolved' = [resolved EXCEPT ![r] = NoText]
    /\ gen' = [gen EXCEPT ![r] = Nothing]
    /\ response' = [response EXCEPT ![r] = Nothing]
    /\ crossed' = crossed \ {r}
    /\ Goto(r, "resolve")
    /\ UNCHANGED <<history, said, context>>

\* The question of r is text from now on; of a session, it counts as said.
ResolvesTo(r, text) ==
    /\ resolved' = [resolved EXCEPT ![r] = text]
    /\ said' = [s \in Sessions |->
                  said[s] \union (IF s = asked[r].session THEN {text} ELSE {})]

\* Without a session there is nothing to resolve against and nothing is kept.
ResolveAlone(r) ==
    /\ pc[r] = "resolve"
    /\ asked[r].session = NoSession
    /\ ResolvesTo(r, asked[r].question)
    /\ Goto(r, "generate")
    /\ UNCHANGED <<history, asked, gen, response, turns, context, mixed, crossed>>

\* A question that stands on its own empties the session's history (lines 234-239).
ResolveNewTopic(r) ==
    LET s == asked[r].session IN
    /\ pc[r] = "resolve"
    /\ s # NoSession
    /\ ~LooksLikeFollowUp(asked[r].question)
    /\ history' = [history EXCEPT ![s] = <<>>]
    /\ ResolvesTo(r, asked[r].question)
    /\ Goto(r, "record")
    /\ UNCHANGED <<asked, gen, response, turns, context, mixed, crossed>>

\* Slip: a follow-up is resolved against the first question of the topic.
ResolveFollowUpFirst(r) ==
    LET s == asked[r].session IN
    /\ pc[r] = "resolve"
    /\ s # NoSession
    /\ LooksLikeFollowUp(asked[r].question)
    /\ ResolvesTo(r,
         Resolve(asked[r].question, IF history[s] = <<>> THEN NoText ELSE Head(history[s])))
    /\ Goto(r, "record")
    /\ UNCHANGED <<history, asked, gen, response, turns, context, mixed, crossed>>

\* A follow-up is resolved against the last question of the history (lines 241-244).
ResolveFollowUp(r) ==
    LET s == asked[r].session IN
    /\ pc[r] = "resolve"
    /\ s # NoSession
    /\ LooksLikeFollowUp(asked[r].question)
    /\ ResolvesTo(r,
         Resolve(asked[r].question, IF history[s] = <<>> THEN NoText ELSE Last(history[s])))
    /\ Goto(r, "record")
    /\ UNCHANGED <<history, asked, gen, response, turns, context, mixed, crossed>>

\* Slip: one history for all sessions.
RecordForAll(r) ==
    /\ pc[r] = "record"
    /\ history' = [s \in Sessions |-> Append(history[s], resolved[r])]
    /\ Goto(r, "generate")
    /\ UNCHANGED <<asked, resolved, gen, response, turns, said, context, mixed, crossed>>

\* `self._history.setdefault(session_id, []).append(resolved)`.
Record(r) ==
    /\ pc[r] = "record"
    /\ history' = [history EXCEPT ![asked[r].session] = Append(@, resolved[r])]
    /\ Goto(r, "generate")
    /\ UNCHANGED <<asked, resolved, gen, response, turns, said, context, mixed, crossed>>

-----------------------------------------------------------------------------

\* confidence_score, in hundredths.
Confidence(ok, n, clarifies) ==
    IF ~ok THEN 20
    ELSE Min({90} \union (IF clarifies THEN {55} ELSE {}) \union (IF n = 0 THEN {50} ELSE {}))

AsksBack(q) == Names(q, Ambiguous)

\* The response reaches the client, which learns the question as it was resolved.
Respond(r, answer) ==
    LET s == asked[r].session IN
    /\ response' = [response EXCEPT ![r] = answer]
    /\ context' = IF s = NoSession THEN context ELSE [context EXCEPT ![s] = resolved[r]]
    /\ Goto(r, "done")
    /\ UNCHANGED <<history, asked, resolved, turns, said, mixed, crossed>>

\* _empty_response and _error_response.
EmptyResponse ==
    [sql |-> NoSql, rows |-> {}, approximate |-> FALSE, note |-> NoFallback,
     asksBack |-> TRUE, confidence |-> 30, error |-> FALSE]
ErrorResponse(sql) ==
    [sql |-> sql, rows |-> {}, approximate |-> FALSE, note |-> NoFallback,
     asksBack |-> FALSE, confidence |-> 0, error |-> TRUE]

\* What summarise() and lines 300-324 make of an execution.
FullResponse(r, ok, sql, rows, approximate, note) ==
    [sql |-> sql, rows |-> rows, approximate |-> approximate, note |-> note,
     asksBack |-> note = NoFallback /\ AsksBack(resolved[r]),
     confidence |-> Confidence(ok, Cardinality(rows), AsksBack(resolved[r])),
     error |-> ~ok]

\* No SQL for the question: it is answered with a request for another one.
GenerateNothing(r) ==
    /\ pc[r] = "generate"
    /\ \E g \in Generate(resolved[r]) :
         /\ g.sql = NoSql
         /\ gen' = [gen EXCEPT ![r] = g]
         /\ Respond(r, EmptyResponse)

\* validate_sql refuses the statement: it is shown and not run.
Block(r) ==
    /\ pc[r] = "generate"
    /\ \E g \in Generate(resolved[r]) :
         /\ g.sql # NoSql /\ ~Valid(g.sql)
         /\ gen' = [gen EXCEPT ![r] = g]
         /\ Respond(r, ErrorResponse(g.sql))

\* The requests that use the connection, from their first statement to their last.
Executing == {v \in Workers : pc[v] \in {"execute", "fallback"}}

\* Slip: the statement goes to the executor without validate_sql.
GenerateUnchecked(r) ==
    /\ pc[r] = "generate"
    /\ \E g \in Generate(resolved[r]) :
         /\ g.sql # NoSql
         /\ gen' = [gen EXCEPT ![r] = g]
    /\ Goto(r, "execute")
    /\ UNCHANGED <<history, asked, resolved, response, turns, said, context, mixed, crossed>>

\* The statement passes and goes to the executor.
GenerateSql(r) ==
    /\ pc[r] = "generate"
    /\ \E g \in Generate(resolved[r]) :
         /\ g.sql # NoSql /\ Valid(g.sql)
         /\ gen' = [gen EXCEPT ![r] = g]
    /\ crossed' = crossed \union (IF Executing = {} THEN {} ELSE Executing \union {r})
    /\ Goto(r, "execute")
    /\ UNCHANGED <<history, asked, resolved, response, turns, said, context, mixed>>

\* GET /health runs its "SELECT 1" on the same connection meanwhile.
HealthCheck ==
    /\ Executing # {}
    /\ crossed' = crossed \union Executing
    /\ UNCHANGED <<history, pc, asked, resolved, gen, response, turns, said, context, mixed>>

\* What r may be given for a statement.
MayReturn(r, sql) ==
    {Returned(sql)} \union (IF r \in crossed THEN {{}, {Foreign}} ELSE {})

\* The executor fails, whatever the reason.
ExecuteFails(r) ==
    /\ pc[r] = "execute"
    /\ Respond(r, FullResponse(r, FALSE, gen[r].sql, {}, gen[r].approximate, NoFallback))
    /\ UNCHANGED gen

\* The executor raises (LocalDB without its seed): routes.py answers with the error
\* and leaves every other field of the response at its default.
ExecuteRaises(r) ==
    /\ pc[r] = "execute"
    /\ Respond(r, [ErrorResponse(NoSql) EXCEPT !.confidence = 100])
    /\ UNCHANGED gen

Execute(r) ==
    /\ pc[r] = "execute"
    /\ \E rows \in MayReturn(r, gen[r].sql) \ {{}} :
         Respond(r, FullResponse(r, TRUE, gen[r].sql, rows, gen[r].approximate, NoFallback))
    /\ UNCHANGED gen

ExecuteEmpty(r) ==
    /\ pc[r] = "execute"
    /\ {} \in MayReturn(r, gen[r].sql)
    /\ Goto(r, "fallback")
    /\ UNCHANGED <<history, asked, resolved, gen, response, turns, said, context, mixed, crossed>>

\* Slip: the rows are replaced and the statement shown with them is not.
FallbackKeepsSql(r) ==
    /\ pc[r] = "fallback"
    /\ \E broken \in SUBSET DOMAIN gen[r].sql.filters :
         LET fb == FindSimilarRows(gen[r].sql, broken) IN
         /\ fb # NoFallback
         /\ Respond(r, FullResponse(r, TRUE, gen[r].sql, fb.rows, TRUE, fb))
    /\ UNCHANGED gen

\* Slip: the substituted answer is not marked as approximate.
FallbackUnmarked(r) ==
    /\ pc[r] = "fallback"
    /\ \E broken \in SUBSET DOMAIN gen[r].sql.filters :
         LET fb == FindSimilarRows(gen[r].sql, broken) IN
         /\ fb # NoFallback
         /\ Respond(r, FullResponse(r, TRUE, fb.relaxed, fb.rows, gen[r].approximate, fb))
    /\ UNCHANGED gen

\* Similar rows are found, and answer in place of the empty result (lines 286-294).
Fallback(r) ==
    /\ pc[r] = "fallback"
    /\ \E broken \in SUBSET DOMAIN gen[r].sql.filters :
         LET fb == FindSimilarRows(gen[r].sql, broken) IN
         /\ fb # NoFallback
         /\ Respond(r, FullResponse(r, TRUE, fb.relaxed, fb.rows, TRUE, fb))
    /\ UNCHANGED gen

\* Overlapped, a probe may be given the rows of another statement, whose values stand
\* for the column's (any value of the table is tried), and so may the re-run.
TableValues == UNION {{row[c] : c \in DOMAIN row} : row \in Table}
FallbackMisled(r) ==
    /\ pc[r] = "fallback"
    /\ r \in crossed
    /\ \E i \in DOMAIN gen[r].sql.filters, v \in TableValues :
         LET f == gen[r].sql.filters[i]
             relaxed == RelaxedTo(gen[r].sql, f, v)
         IN  /\ Similar(f.value, v) >= Threshold
             /\ \E rows \in MayReturn(r, relaxed) \ {{}} :
                  LET fb == [requested |-> f.value, matched |-> v, relaxed |-> relaxed,
                             rows |-> rows]
                  IN  /\ fb # NoFallback
                      /\ Respond(r, FullResponse(r, TRUE, relaxed, rows, TRUE, fb))
    /\ UNCHANGED gen

FallbackFindsNothing(r) ==
    /\ pc[r] = "fallback"
    /\ \E broken \in SUBSET DOMAIN gen[r].sql.filters :
         FindSimilarRows(gen[r].sql, broken) = NoFallback
    /\ Respond(r, FullResponse(r, TRUE, gen[r].sql, {}, gen[r].approximate, NoFallback))
    /\ UNCHANGED gen

Step(r) ==
    \/ ResolveAlone(r) \/ ResolveNewTopic(r) \/ ResolveFollowUp(r) \/ Record(r)
    \/ GenerateNothing(r) \/ Block(r) \/ GenerateSql(r)
    \/ ExecuteFails(r) \/ ExecuteRaises(r) \/ Execute(r) \/ ExecuteEmpty(r)
    \/ Fallback(r) \/ FallbackMisled(r) \/ FallbackFindsNothing(r)

Next ==
    \/ HealthCheck
    \/ \E r \in Workers :
        Step(r) \/ \E s \in Sessions \union {NoSession}, q \in Questions : Ask(r, s, q)

Spec == Init /\ [][Next]_vars

-----------------------------------------------------------------------------

Places == {"idle", "resolve", "record", "generate", "execute", "fallback", "done"}
Words == (UNION {ToSet(q) : q \in Questions}) \union {"by", "in"}
IsText(x) == ToSet(x) \subseteq Words

\* Every variable holds values of its kind, and a request has the question, the SQL and
\* the response that the place it has reached needs; only valid SQL is run.
TypeOK ==
    /\ \A s \in Sessions : \A i \in DOMAIN history[s] : IsText(history[s][i])
    /\ pc \in [Workers -> Places]
    /\ turns \in 0..MaxTurns
    /\ mixed \subseteq Sessions
    /\ crossed \subseteq Workers
    /\ \A r \in Workers :
         /\ pc[r] # "idle" => /\ asked[r].session \in Sessions \union {NoSession}
                              /\ asked[r].question \in Questions
         /\ pc[r] \notin {"idle", "resolve"} => IsText(resolved[r])
         /\ pc[r] \in {"execute", "fallback"} => Valid(gen[r].sql)
         /\ pc[r] = "done" => response[r].confidence \in {0, 20, 30, 50, 55, 90, 100}

IsResolved(r) == pc[r] \notin {"idle", "resolve"}
Done(r) == pc[r] = "done"

\* However requests overlap, a question is resolved on its own or against a question the
\* same session resolved before: never against another session's.
ResolvedInSession ==
    \A r \in Workers :
        IsResolved(r) =>
            \/ resolved[r] = asked[r].question
            \/ /\ asked[r].session # NoSession
               /\ \E p \in said[asked[r].session] \ {resolved[r]} :
                     resolved[r] = Resolve(asked[r].question, p)

\* ARCHITECTURE.md:72-73: as long as a client waits for each answer, its follow-up is
\* resolved against the question it saw answered last, and so on along the dialogue,
\* whatever became of that question (answered, blocked, failed or out of scope).
FollowsTheDialogue ==
    \A r \in Workers :
        IsResolved(r) /\ asked[r].session \notin mixed =>
            resolved[r] = Resolve(asked[r].question, asked[r].context)

Slots == {Measures, Dimensions, Years}

\* Does place i of a question come before what a new dimension takes the place of?
Kept(text, i) == \A b \in 1..(Len(text) - 1) : text[b] = "by" => i < b

\* A follow-up that was rewritten has the dimension and the year it names, and its
\* measure where the previous question had one, before its "by" if a dimension is named,
\* which cuts the end off; and if none is, all kinds of words the previous question had
\* are still there.
FollowUpMerges ==
    \A r \in Workers :
        LET q == asked[r].question
            p == asked[r].context
            t == resolved[r]
        IN  IsResolved(r) /\ asked[r].session \notin mixed /\ t # q =>
              /\ Names(q, Dimensions) => FirstOf(q, Dimensions) \in ToSet(t)
              /\ Names(q, Years) => FirstOf(q, Years) \in ToSet(t)
              /\ Names(q, Measures) /\ Names(p, Measures)
                   /\ (Names(q, Dimensions) => Kept(p, Place(p, Measures)))
                 => FirstOf(q, Measures) \in ToSet(t)
              /\ ~Names(q, Dimensions) => \A S \in Slots : Names(p, S) => Names(t, S)

\* Unless another call used the executor meanwhile, the rows of a response are the rows its
\* own statement returns, on the fallback path too: the SQL shown to the user is the SQL
\* that was run, however the requests overlapped before and after.
RowsMatchSql ==
    \A r \in Workers \ crossed :
        Done(r) /\ ~response[r].error /\ response[r].sql # NoSql =>
            response[r].rows = Returned(response[r].sql)

\* ARCHITECTURE.md:74-76: whoever is shown another statement than the one generated for
\* the question is told so and shown rows, and the value put in its place really occurs,
\* unless another call used the executor meanwhile.
SubstitutionMarked ==
    \A r \in Workers :
        Done(r) /\ response[r].sql \notin {NoSql, gen[r].sql} =>
            /\ response[r].approximate
            /\ response[r].note # NoFallback
            /\ response[r].rows # {}
            /\ r \in crossed \/ \A i \in DOMAIN gen[r].sql.filters :
                 LET f == gen[r].sql.filters[i]
                     g == response[r].sql.filters[i]
                 IN  f # g => /\ f.value = response[r].note.requested
                              /\ \E row \in Table : row[g.column] = g.value

\* followups.py:21-26: a follow-up "swaps in" its measure or dimension; the other parts
\* of the question it continues stay.  In particular its year does.
SlotsKept ==
    \A r \in Workers :
        LET p == asked[r].context
        IN  IsResolved(r) /\ asked[r].session \notin mixed /\ resolved[r] # asked[r].question =>
              \A S \in Slots : Names(p, S) => Names(resolved[r], S)
=============================================================================
