------------------------------ MODULE AnswerStage ------------------------------
(***************************************************************************)
(* The last stage of an answer, in a process that imports sql_agent: the   *)
(* API server, whose threads summarise results for the chat page, or the   *)
(* benchmark script (evaluation/benchmark.py, scripts/run_benchmark.py),   *)
(* which runs an agent over the golden queries and scores its rows.  In    *)
(* either, threads write log records through the PII filter.               *)
(*                                                                         *)
(* A golden query is [sql, rows, ordered, difficulty].  A statement is the *)
(* set of what it does, as _fallback_explanation and the comparison of two *)
(* syntax trees see it, and {} when it cannot be parsed.  The columns of a *)
(* result have different names, so that rows go through dicts unchanged.   *)
(***************************************************************************)
EXTENDS PageInsights, Metrics

CONSTANTS
    Settings,   \* the processes looked at, see Init
    Raises      \* a reply of the language model that makes summarise() raise

Cells == Words \union Int \union {NULL}
Records == Seq(Seq(Words))

\* Log records are texts, each row of a result has a cell for each column, the statements
\* of golden queries can be parsed, and an answer takes no less than no time.
ASSUME SettingAssumption ==
    \A s \in Settings :
        /\ s.threads \subseteq Callers /\ s.logs \in Nat
        /\ s.agent \in {"pipeline", "mock", "stub"}
        /\ s.records \subseteq Records /\ s.latencies \subseteq Nat
        /\ \A result \in s.results :
             LET table == result.table
             IN  /\ table.rows \in Seq(Seq(Cells))
                 /\ DOMAIN table.columns = 1..Len(table.columns) /\ Len(table.columns) \in Nat
                 /\ \A r \in DOMAIN table.rows : DOMAIN table.rows[r] = DOMAIN table.columns
        /\ s.golden \in Seq(ToSet(s.golden))
        /\ \A i \in DOMAIN s.golden : /\ s.golden[i].rows \in Seq(Seq(Cells))
                                     /\ s.golden[i].sql # {}

VARIABLES
    setting,    \* the process, see Init
    logs,       \* how many log records were written or are being written
    shown,      \* the last result a thread answered with, its summary and its page
    cases,      \* run_benchmark: the cases scored, with the query and the rows
    report      \* run_benchmark: the metrics of the run

stageVars == <<setting, logs, shown, cases, report>>
vars == <<poolVars, stageVars>>

\* results: what a query may come to, [table, sql]; replies: what the model may answer;
\* records, logs: the records logged, and how many; golden: the queries of a benchmark;
\* agent: "pipeline", "mock" or "stub"; latencies: what an answer may take.
Init ==
    /\ PoolInit
    /\ setting \in Settings
    /\ logs = 0
    /\ shown = [c \in Callers |-> Nobody]
    /\ cases = <<>>
    /\ report = Nobody

LogRecord(c) ==
    /\ logs < setting.logs
    /\ logs' = logs + 1
    /\ \E record \in setting.records : Log(c, record)
    /\ UNCHANGED <<setting, shown, cases, report>>

Filtering(c) == Caller(c) /\ UNCHANGED stageVars
Detecting(w) == (Start(w) \/ Result(w)) /\ UNCHANGED stageVars

\* The summary of a result, the texts of the language model being reply.
Answer(result, reply) ==
    [table |-> result.table, summary |-> Summarised(result.table, result.sql, reply),
     page |-> Page(result.table)]

\* routes.py: an exception is answered with its text and no rows.
NoAnswer ==
    LET none == [ok |-> FALSE, columns |-> <<>>, rows |-> <<>>]
    IN  [table |-> none, page |-> Page(none),
         summary |-> [Failed EXCEPT !.answer = Sentence("error", <<>>, <<>>)]]

\* A thread of the server answers, once, since no answer depends on one before.  A result
\* that failed is summarised without the model; for others what the model's client raises,
\* and a text that is JSON and not an object, come out of summarise(), and the question
\* has no answer.
Summarise(c) ==
    /\ setting.golden = <<>> /\ ~Scrubbing(c) /\ shown[c] = Nobody
    /\ \E result \in setting.results, reply \in setting.replies :
         /\ result.table.ok => reply # Raises
         /\ shown' = [shown EXCEPT ![c] =
                         Answer(result, IF reply = Raises THEN {} ELSE reply)]
    /\ UNCHANGED <<poolVars, setting, logs, cases, report>>

SummariseRaises(c) ==
    /\ setting.golden = <<>> /\ ~Scrubbing(c) /\ shown[c] = Nobody
    /\ Raises \in setting.replies
    /\ \E result \in setting.results : result.table.ok
    /\ shown' = [shown EXCEPT ![c] = NoAnswer]
    /\ UNCHANGED <<poolVars, setting, logs, cases, report>>

-----------------------------------------------------------------------------

\* sql_ast_match of canonical forms, which forget aliases and the order of operands.
AstMatch(expected, sql) == expected # {} /\ expected = sql

\* What an agent gives for a golden query: the real pipeline, make_mock_agent,
\* make_stub_agent(correct=True).
Output(sql, rows, retries, crashed) ==
    [sql |-> sql, rows |-> rows, retries |-> retries, crashed |-> crashed]
Rows(table) == IF table.ok THEN table.rows ELSE <<>>
Outputs(query) ==
    CASE setting.agent = "pipeline" ->
           {Output(result.sql, Rows(result.table), 0, FALSE) : result \in setting.results}
      [] setting.agent = "mock" ->
           {Output(query.sql, query.rows, n, FALSE) : n \in 0..1}
             \union {Output(query.sql, rows, n, FALSE) :
                       rows \in {<<>>} \union (IF query.rows = <<>> THEN {} ELSE {Front(query.rows)}),
                       n \in 1..3}
      [] setting.agent = "stub" -> {Output(query.sql, query.rows, 0, FALSE)}

\* score_case.
ScoreCase(query, output, latency) ==
    [difficulty |-> query.difficulty,
     executionMatch |-> ExecutionAccuracy(query.rows, output.rows, query.ordered),
     setMatch |-> ExactSetMatch(query.rows, output.rows),
     partialMatch |-> PartialMatch(query.rows, output.rows),
     astMatch |-> output.sql # {} /\ AstMatch(query.sql, output.sql),
     retries |-> output.retries, latency |-> latency,
     query |-> query, output |-> output]

\* One round of run_benchmark's loop; a result without a latency is timed by the script.
RunCase(outputs) ==
    /\ Len(cases) < Len(setting.golden)
    /\ LET query == setting.golden[Len(cases) + 1] IN
       \E output \in outputs, latency \in setting.latencies :
         cases' = Append(cases, ScoreCase(query, output, latency))
    /\ UNCHANGED <<poolVars, setting, logs, shown, report>>

Case ==
    /\ Len(cases) < Len(setting.golden)
    /\ RunCase(Outputs(setting.golden[Len(cases) + 1]))

\* "a crashing agent is a failed case, not a crashed run": it is scored without rows.
CrashedCase ==
    /\ setting.agent = "pipeline"
    /\ RunCase({Output({}, <<>>, 0, TRUE)})

Report ==
    /\ setting.golden # <<>>
    /\ Len(cases) = Len(setting.golden)
    /\ report = Nobody
    /\ report' = [passed |-> CountIn(cases, LAMBDA c : c.executionMatch),
                  metrics |-> ComputeMetrics(cases)]
    /\ UNCHANGED <<poolVars, setting, logs, shown, cases>>

Next ==
    \/ \E c \in setting.threads :
         LogRecord(c) \/ Filtering(c) \/ Summarise(c) \/ SummariseRaises(c)
    \/ \E w \in PoolThreads : Detecting(w)
    \/ Case \/ CrashedCase \/ Report

\* The fairness of PiiFilter; nobody has to ask or to log.
Fairness ==
    /\ \A c \in Callers : WF_vars(Filtering(c))
    /\ \A w \in PoolThreads : WF_vars(Start(w) /\ UNCHANGED stageVars)

Spec == Init /\ [][Next]_vars /\ Fairness

-----------------------------------------------------------------------------

Busy == {w \in PoolThreads : running[w] # Nobody}
Issued(job) == job.ticket \in 1..scrub[job.caller].ticket
Apart(job, other) == <<job.caller, job.ticket>> # <<other.caller, other.ticket>>

\* A job belongs to a scrub of its caller, and to no other job's ticket; a caller waits
\* only between two detectors; what is shown and scored is of the process' own kind.
TypeOK ==
    /\ logs \in 0..setting.logs
    /\ \A w \in Busy : Issued(running[w]) /\ \A v \in Busy \ {w} : Apart(running[w], running[v])
    /\ \A i \in DOMAIN queue :
         /\ Issued(queue[i])
         /\ \A j \in DOMAIN queue \ {i} : Apart(queue[i], queue[j])
         /\ \A w \in Busy : Apart(queue[i], running[w])
    /\ \A c \in Callers :
         /\ At(scrub[c]) \in 0..Len(Detectors)
         /\ scrub[c].waiting => Scrubbing(c) /\ At(scrub[c]) < Len(Detectors)
    /\ Len(cases) <= Len(setting.golden)
    /\ report # Nobody => Len(cases) = Len(setting.golden)

\* The sentences about an answer's result that name who is ahead, words as they are
\* after scrubbing.
Ahead == {"leader", "leads", "highest", "peaked"}
Own(sentences) == IF sentences = ByModel THEN <<>> ELSE sentences
BackendSentences(s) ==
    ToSet(s.insights) \union ToSet(Own(s.trends))
      \union ({s.answer, s.takeaway} \ {ByModel})
PageSentences(p) == ToSet(p.highlights) \union {p.explanation}
Leaders(sentences) == {<<Redact(t.words[1], DefaultRules), t.numbers[1]>> :
                         t \in {u \in sentences : u.says \in Ahead}}

SameRoles(table) == PageMeasure(table) = Measure(table) /\ TextColumn(table) = Dimension(table)

\* The answer, the takeaway, the insights of the backend and, where the page reads the
\* same columns, the highlights it works out itself all name one and the same leader with
\* one and the same value, ties and missing values included.
LeadersAgree ==
    \A c \in Callers :
        LET s == shown[c].summary
            page == IF SameRoles(shown[c].table) THEN PageSentences(shown[c].page) ELSE {}
        IN  shown[c] # Nobody =>
                Cardinality(Leaders(BackendSentences(s) \union page)) <= 1

\* Is the sentence true of the rows, value being the column it speaks of and label the
\* column of the names?
True(t, table, label, value) ==
    LET known == Known(table, value)
        Row(word, number) == \E r \in known : /\ table.rows[r][value] = number
                                              /\ table.rows[r][label] = word
    IN  CASE t.says \in Ahead ->
               /\ Row(t.words[1], t.numbers[1])
               /\ \A r \in known : table.rows[r][value] <= t.numbers[1]
          [] t.says = "lowest" ->
               /\ Row(t.words[1], t.numbers[1])
               /\ \A r \in known : table.rows[r][value] >= t.numbers[1]
          [] t.says \in {"rose", "fell"} ->
               /\ Row(t.words[1], t.numbers[1]) /\ Row(t.words[2], t.numbers[2])
               /\ t.says = "rose" <=> t.numbers[1] <= t.numbers[2]
               /\ \A r \in known : \E f, l \in known :
                    /\ f <= r /\ table.rows[f][value] = t.numbers[1]
                    /\ r <= l /\ table.rows[l][value] = t.numbers[2]
          [] OTHER -> TRUE

\* The share a leader is given is its share of the total listed under the numbers.
ShareOfTotal(t, numbers, value) ==
    \A k \in DOMAIN numbers :
        (t.says = "leads" /\ Len(t.numbers) = 2 /\ numbers[k].says = "total"
           /\ numbers[k].numbers[1] = value) =>
            t.numbers[2] = Percent(t.numbers[1], numbers[k].numbers[2])

\* summariser.py:282, "no hallucination": what the trends and the highlights say of the
\* rows is so, by a look at every row; shares are of the total the same answer states.
InsightsTrue ==
    \A c \in Callers :
        LET s == shown[c].summary
            p == shown[c].page
            table == shown[c].table
        IN  shown[c] # Nobody /\ table.ok =>
              /\ \A i \in DOMAIN Own(s.trends) :
                   /\ True(s.trends[i], table, Dimension(table), Measure(table))
                   /\ ShareOfTotal(s.trends[i], Own(s.numbers), Measure(table))
              /\ \A i \in DOMAIN p.highlights :
                   /\ True(p.highlights[i], table, TextColumn(table), PageMeasure(table))
                   /\ ShareOfTotal(p.highlights[i], p.highlights, PageMeasure(table))

\* The three scores of a case are one stricter than the other; an agent that crashed
\* fails a query that has rows, and passes one whose rows are not captured yet (benchmark.py:
\* 146 would have it fail there too); and one that answers with the golden rows and
\* statement passes in every respect (make_stub_agent: "a perfect run").
ScoresAgree ==
    \A i \in DOMAIN cases :
        LET c == cases[i] IN
        /\ c.executionMatch => c.setMatch
        /\ c.setMatch => c.partialMatch = 10000
        /\ c.output.crashed => IF c.query.rows = <<>> THEN c.executionMatch
                                ELSE c.partialMatch = 0 /\ ~c.executionMatch
        /\ setting.agent = "stub" => c.executionMatch /\ c.astMatch

\* Is r the ratio of n and d to half a unit?
Nearest(r, n, d) == 2 * r * d <= 2 * n + d /\ 2 * n <= 2 * r * d + d

\* What a run reports keeps, rounded, the order of the scores it is made of; the accuracy
\* lies between those of its tiers if each query has one, and is that of the number of
\* queries passed to half a unit of its last digit; the percentiles of the latency are in
\* order, and between the fastest and the slowest case to a tenth of a millisecond.
MetricsOrdered ==
    LET m == report.metrics
        times == {cases[i].latency : i \in DOMAIN cases}
        tiers == {m.tiers[t] : t \in DOMAIN m.tiers}
    IN  report # Nobody =>
          /\ m.accuracy <= m.setMatch /\ m.setMatch <= m.partial
          /\ (\A i \in DOMAIN cases : cases[i].difficulty \in Tiers) =>
               Min(tiers) <= m.accuracy /\ m.accuracy <= Max(tiers)
          /\ Tenths(100 * Min(times)) <= m.p50 /\ m.p50 <= m.p95
          /\ m.p95 <= Tenths(100 * Max(times))
          /\ Nearest(m.accuracy, 10000 * report.passed, Len(cases))
=============================================================================
