# TLA+ models of the IADS agentic SQL agent

The agent answers questions about product sales. A FastAPI service takes a question, turns
it into SQL (from Oracle Select AI, from templates or from a cache of curated questions),
checks the SQL, runs it on Oracle or on a local DuckDB table, and returns rows, a summary
and some notes. A Streamlit page keeps a conversation with it, and answers some follow-ups
from the rows it already has. This directory holds models of the parts whose behaviour
depends on order: threads that share state without a lock, conversations whose turns refer
to each other, fallbacks that replace part of an answer, retries that disturb other calls.

Source paths below are relative to the repository.

## The system

| Component | State it keeps | Operations | What makes it correct |
|---|---|---|---|
| Rate limiter, `app/main.py` 80-128 | stamps of admitted requests, per client host | `is_allowed`, the middleware | no window of 60 s lets more than 100 requests through; nobody with room is refused |
| Offline executor, `evaluation/local_db.py` | `_DEFAULT`, one DuckDB connection, its table, its current result | `get_local_db`, `_connect`, `execute` | an answer holds the rows of its own statement; start-up may be raced, or fail for want of a seed, and leaves a usable connection |
| Oracle connection pool, `app/sql/oracle_connection.py` | `_POOL` | `connect_adb`, `get_adb_pool`, `_close_pool` | calls end; retries recover; the process does not exceed the pool's size |
| Follow-up resolution, `app/agents/followups.py` | none | `looks_like_follow_up`, `rewrite_follow_up`, `resolve` | a rewritten follow-up has what it names and keeps the rest of the previous question |
| Offline pipeline, `app/pipeline.py` | `_history`, the questions of each session | `FullPipeline.run`, `SQLSource.generate` | a follow-up continues its own dialogue; rows, SQL and flags of an answer belong together |
| Similar-rows fallback, `src/sql_agent/retrieval/row_fallback.py` | none | `find_similar_rows` | a substituted answer is marked, and the value put in its place exists |
| Chat page, `frontend/streamlit_app.py`, `intel_ui.py` | session id, answers shown, last rows, queued question | type, example, chip, Clear, API call | one backend session per conversation; transforms start from the rows the user means |
| In-memory transforms, `frontend/result_transforms.py` | none | `classify`, `apply` | a transform only reshapes rows, and "top n" gives the n largest |
| Production pipeline, `app/production_pipeline.py` | `_PROD`, an LRU of 100 orchestrators, one per session | `answer_question`, `_orchestrator`, offline fallback | a session keeps one memory; eviction takes the oldest; what raises is answered offline and leaves nothing behind |
| Conversation memory and decider, `app/agents/memory.py`, `action_decider.py` | the last 6 turns of a session | `record`, `resolve`, `answer_from_previous_results`, `decide` | a follow-up is understood within its own dialogue; an answer from memory is true of rows the session has seen |
| Cached transformer and follow-up suggester, `app/agents/result_transformer.py`, `followup_suggester.py` | none | `transform`, `suggest` | not modelled: nothing a request gets depends on them |
| Query orchestrator, `app/agents/` | none but the memory | `process_question`: guards, memory, retrieve, plan, generate, validate, execute, reflect, summarise | rows, statement and status of an answer belong together; a request to change data never gets to the SQL path |
| SQL validator, generator and safe executor, `app/sql/` | none | `validate_sql`, `generate`, `execute`, cached rows | only bounded reads are run; cached rows are marked |
| Document retriever, `app/rag/` | none | `retrieve`, local search | finds the documents the guards and prompts need |
| PII filter, `src/sql_agent/safety/pii_filter.py` | a pool of two threads | `scrub` with detectors, the log filter, `scrub_summary` | regular rules always apply; a detector that hangs never stops a log record |
| Summariser, `src/sql_agent/agents/summariser.py` | none | `summarise`, insights, chart | what it says of the rows is true of the rows |
| Dashboard helpers, `frontend/dash_intel.py` | none | highlights, charts, explanation, suggestions | the page agrees with the backend about the same rows |
| Benchmark, `evaluation/benchmark.py`, `metrics.py`, `scripts/run_benchmark.py` | the cases scored so far | `run_benchmark`, scores, statistics | the headline numbers do not contradict each other |
| Prompts, token counter, monitoring, other scripts | little or none | formatting, accounting, one-shot jobs | not about order |

How they interact: the page calls `POST /query` (90 s timeout) with the session id it got
from the previous answer. Endpoints are plain functions, so FastAPI runs each request on a
worker thread, and all of them share the module-wide pipeline, LocalDB, Oracle pool and
orchestrators. `GET /health` runs `SELECT 1` on the shared LocalDB. The middleware of the
rate limiter runs on the event loop before them. The production pipeline calls the
orchestrator of the session and falls back on the offline pipeline, silently, whenever
anything raises, the import of the orchestrator included; the offline pipeline calls
`FollowUps`, `SQLSource`, the validator, the executor and the similar-rows fallback, in this
order, and then the summariser, whose answer passes through `scrub_summary`. The page works
out highlights and charts of its own from the rows.

What is hard: no lock is taken anywhere in the Python code; a client that timed out asks
again while its first question is still being answered; `_POOL`, `_DEFAULT` and
`self._con` are tested, built and read in separate steps; a failed call closes what other
calls use; an orchestrator may be evicted while a request is inside it; the seed is read while it is
being written; a detector that timed out goes on running, and the warning about it passes
through the same detectors; whatever the user does while the page waits for the API ends
the run that waits; the page keeps state that Clear does not reset. `PROJECT.json` lists these
hazards, each at its line with the properties that guard it.

## The modules

| Module | Models | State and actions |
|---|---|---|
| `RateLimitPolicy` | what the limiter promises, with full memory | `Admit` and `Refuse` look at the whole history of a client |
| `RateLimiter` | `RateLimiter.is_allowed` and the middleware | `log` is `self.requests`; `Pruned` is lines 95-99; implements the policy |
| `LocalDB` | the offline executor under API threads | one action for each read or write of `_DEFAULT`, `self._con`, the table and the current result; the script that writes the seed opens it in one action and ends it in another, if ever |
| `FollowUps` | follow-up resolution | operators on sequences of words |
| `SqlSource` | `SQLSource.generate` | operators: entity template, similarity cache, Select AI as a set of possible answers |
| `RowFallback` | `find_similar_rows` | operators: which filter is relaxed, to what, with which rows |
| `OfflinePipeline` | `FullPipeline.run`, composing the three above | one action for what a request does between two uses of the history, the SQL source or the executor; `crossed` are the requests whose statements another's, or those of a `HealthCheck`, overlapped on the one connection |
| `Ranking` | `sorted()`, `sort_values()` and comprehensions, as the code uses them (external) | `Ordered` and `Where`, which find an element by its rank: no recursion, so that proofs can use them |
| `ResultTransforms` | `classify` and `apply` of the page's transforms | operators on results |
| `ChatFrontend` | one browser session, composing the transforms with the API | one action per run of the page's script, or two where the run waits for the API: the user may end it there |
| `OraclePool` | the shared connection pool under API threads | one action for each read or write of `_POOL`, with both retry loops |
| `ConversationMemory` | `ConversationMemory` of `memory.py` | operators on turns: what is remembered, how a follow-up is resolved, which row a question picks |
| `NextActions` | the decider | operators on questions and turns |
| `SqlPath` | the way from a question to rows: guards, retriever, planner, generator, validator, executor, reflector, summary | operators; what Oracle, Select AI and the embeddings answer are sets |
| `LiveBackend` | `answer_question` with its pipelines, orchestrators and threads, composing the three above with the offline history | one action for each use of `_PROD`, `_by_session`, a memory, `_PIPELINE` or an offline history (`OfflineResolve`, `OfflineRecord`, `OfflineAnswer`) |
| `RedactedLog` | what the log filter promises | `Log`, and `Write`, which redacts in some safe way |
| `PiiFilter` | the rules, the detectors and their pool; implements `RedactedLog` | `scrub` is what each caller is doing, `queue` and `running` the pool; a job that was given up goes on; `warnings` are the filter's own records about it, nested in the record they interrupt |
| `Summariser` | the summary of a result | operators on results: roles of columns, sentences with the labels and numbers they mention |
| `PageInsights` | highlights, charts and explanation of the page | operators on results |
| `Metrics` | scores and statistics of the benchmark | operators on rows and cases |
| `AnswerStage` | a process that summarises, logs or runs the benchmark, composing the four above | threads of the server, or the loop of `run_benchmark` |
| `MC*` | instances for TLC | values of the constants |
| `*_proofs` | TLAPS proofs | theorems of `RateLimiter`, `LocalDB`, `OfflinePipeline`, `OraclePool`, `AnswerStage`, `LiveBackend`, `ChatFrontend` |
| `DataLemmas` | | lemmas on numbers and sequences that the proofs share |

Two systems implement an abstract one: `RateLimiter` implements `RateLimitPolicy`
(`ImplementsPolicy`, proved), `PiiFilter` implements `RedactedLog` with `writing` mapped to
the record whose strings are still being scrubbed (`ImplementsRedactedLog`, proved).

Grain of the steps. `is_allowed` has no `await` and runs on the event loop, so it is one
step. In `LocalDB` and `OraclePool` any thread may be overtaken between two accesses to
shared state, so every access is a step, `return _POOL` and `return _DEFAULT` (which read
the variable again) among them. In `OfflinePipeline` resolving a follow-up is one step,
because it uses one list object that other threads replace or extend and never shorten; the
append that follows is another, and so in the offline part of `LiveBackend`. What
overlapping statements do to each other on the one connection is the subject of `LocalDB`;
`OfflinePipeline` takes its result, that such a call may be given foreign rows or none, and
does not repeat its steps. A Streamlit session runs its script one run at a time, and
Streamlit ends the run when the user acts. In `ChatFrontend` a run can be ended where it
waits for the API (up to 90 s), between taking the question and storing the answer; what it
does before and after takes no noticeable time and is one step each. A chip or an example
only queues a question, which a later run takes. In `LiveBackend` a request of one session
may be overtaken wherever it reads or writes what requests share; between "resolve" and
"append" it works on data of its own, so that retrieval, SQL and summary are one step.
`record` appends and then replaces the list by a slice, which is three steps. A detector
ends in a step of its own pool thread, which may be after its caller gave it up. A warning
is scrubbed inside the scrub that logs it, so it takes the same steps, nested.

`LiveBackend` and `AnswerStage` start in any of the `Settings` of the instance and stay in
it. For `LiveBackend` a setting tells the build (see below), whether a Select AI profile is
configured, which questions which session asks, and how many requests there are; for
`AnswerStage` it tells whether the process logs, summarises, or runs a benchmark with the
real, the mock or the stub agent, and on which golden queries. This looks at each question
separately instead of at their product.

Builds. At this commit `app/agents/reflector.py:12` imports `detect_issue`, which
`evaluation/metrics.py` does not define: every orchestrator fails to be made, and every
question is answered offline. Behind that `process_question` reads `action_decision`
(lines 85 and 132), which nothing binds. `LiveBackend` models the commit ("commit"), the
commit with the import repaired ("importable"), and with both repaired ("repaired"), as the
orchestrator's own tests presume; without the last, most of the live backend is dead code.

Definitions whose comment begins with "Slip:" are not part of any specification. Each is
the definition after it with a plausible mistake (a dropped check, a swapped order, a
missing reset); putting it in that place makes a property fail, which shows that the
property depends on that line of code.

### What is abstracted

- A question is a sequence of words, and a phrase the code matches as a whole is one word.
  Scores are in thousandths. `difflib`'s ratio is external: in `SqlSource` it is the share
  of the common beginning and end, in `RowFallback` a constant operator.
- A statement is its name, its `column = 'value'` filters and whether it is an aggregate
  without GROUP BY. The verdict of `validate_sql` is a constant operator.
- Rows of `product_sales` never change: every write is refused before it reaches a database.
- A DuckDB connection holds one current result, which the next statement replaces, as
  `local_db.py` uses it. An oracledb pool hands out at most `Size` connections, makes other
  callers wait, and fails those who wait or hold one when it is closed by force.
- The clock of the limiter never goes back.
- The seed of `LocalDB` is absent, partly written or whole. DuckDB may accept a partly
  written file, with the rows there are, or reject it; which of the two is left open. Whose
  rows a table has is followed no further than that (`torn`).
- In `SqlPath` a statement is what the validator, the row limit and the canned rows read of
  it: the checks it fails, the tables, measures and years it names, its FETCH FIRST and
  LIMIT. Rows are functions from columns to values, NULL among the values.
- In `Summariser` and `PageInsights` a sentence is what it says of which labels with which
  numbers; percentages are rounded down. A column is its name and what the name looks like
  to the code (an id, a month, a percentage, money).
- In `PiiFilter` a text is a sequence of words and a word has the rules whose pattern
  matches it; the regular expressions themselves are not modelled. The message of a warning
  is the one word `Warning`, and Python's recursion limit is `Depth`, a number of warnings.
- In `Metrics` ratios are whole numbers of ten-thousandths and percentiles of tenths, as
  they are reported, rounded as `round()` does it, a half to the even neighbour; the
  latencies of cases are hundredths of a millisecond, as `benchmark.py` rounds them. A float
  that lies next to a half may be rounded the other way in the code. A cell is a multiple
  of half the tolerance of `_norm_cell`.
- Wording, prompts, logging formats, wallets and connection strings are left out.

## The runs

| Run | Instance | What it shows |
|---|---|---|
| `rate_limiter` | 2 clients, limit 2, window 3, clock to 6 | `WindowBound` over every window, not only the ones ending now; `ImplementsPolicy`: pruning never changes an answer |
| `local_db` | 3 threads, one call each, a table query, a query without table, a refused one | `SoloCallCorrect`, `TableWhenQuiet`, `OnlyOverlappingLeak` in every interleaving of start-up and execution |
| `local_db_shared` (violated) | the same | `OwnRows`: two overlapping calls, and one answers the other's rows |
| `local_db_seed` (violated) | the same | `ServesTheSeed`: a start-up while the seed is written is kept for good |
| `pipeline` | 2 workers, 2 sessions and session-less calls, 3 questions of 4 kinds, statements with filters that can be relaxed, health checks | `ResolvedInSession`, `FollowsTheDialogue`, `FollowUpMerges`, `RowsMatchSql`, `SubstitutionMarked`, for every outcome of generation, validation, execution, fallback and overlap |
| `pipeline_year` (violated) | the same | `SlotsKept`: a dimension swap loses the year |
| `chat` | 4 answers, 4 kinds of question, 2 kinds of result, failing calls, Clear at any time | `OneSessionPerConversation`, `TransformsNewestRows`, `ReshapesOnly`, and `ClickedIsAnswered` under fairness |
| `chat_cleared` (violated) | the same | `SourceOnScreen`: Clear keeps the rows |
| `oracle_pool` | 2 threads, 2 calls each, pool of 1, 2 attempts, 3 faults | `SoloCallSurvives`, `OnePoolAlone`, and `EveryCallEnds` under fairness |
| `oracle_pool_cap` (violated) | the same | `ConcurrencyCapped`: two pools are built |
| `live_backend` | 8 settings: a dialogue of one session over 6 questions with and without Select AI, two requests of a session at a time, two sessions at a time, 3 sessions for 2 places, the three builds; memory of 2 turns | `LiveContext`, `DialogueKept`, `RememberedWasShown`, `RowsComeFromSql`, `SpokenDirection`, `DeciderAgrees`, `NoUnsafeSql`, `SessionsBounded`, `EvictsOldest` |
| `answers` | 9 settings: 1 or 2 threads that log 2 records through a detector and 2 pool threads; results of 19 forms with no language model, and with every set of fields the model may supply; 3 golden queries for each of 3 agents, for one agent 2 of which one has no tier, and one whose rows are not captured | `ImplementsRedactedLog` and, under fairness, `EveryRecordWritten`; `LeadersAgree`, `InsightsTrue`; `ScoresAgree`, `MetricsOrdered` |

Every passing run also checks its module's `TypeOK`.

Bounds. `MaxCalls`, `MaxTurns`, `MaxAnswers`, `MaxFaults` and `Horizon` bound how long an
instance runs; `MaxPools` only names pools and is larger than the number that can be known
at a time, so it never disables a step. A limiter that is full, empties in part and fills
again needs a clock of twice the window. Three threads of LocalDB let two race to open the
connection while a third uses it; the properties speak about pairs of calls, and the proofs
cover any number. Three turns give a question, a follow-up and a follow-up of the follow-up,
or two overlapping turns and one that sees what they left. Four answers of the page give a
question, its transform, a Clear and a question after it. In the pool two calls for each of
two threads give a race, its failure, and a later call that finds what it left; three faults
are enough for one call to fail for good and another to be disturbed. In `live_backend` a
memory of two turns (6 in the code) is full after two questions, so that the third shows
what is forgotten while an older answer is still on the page; two places (100 in the code)
and three sessions make every session be evicted by another, between the test and the use as
well; three requests of one session, two at a time, give a lost append and a turn that sees
what is left. Its tables hold a NULL, since comparisons raise there. Two pool threads hung
by two detections, and a string after them, are what makes a detector time out without
having started; two strings in a record make a late result meet the next text. With `Depth`
2 a warning is about a warning and meets the recursion limit. Latencies of 0.04 and 0.26 ms
are rounded down to 0.0 and up to 0.3, and two queries of three passed make 0.6667, above
the ratio. The results of `answers` hold ties, missing values, a zero total, a negative
value, a time column, a percentage, ids, a single row and a single cell. The systems stop
when their bounds are used up, so deadlock is not checked in these runs.

Fairness. `OraclePool` assumes weak fairness of each thread's `Step`: the operating system
schedules threads, a statement ends in the database or breaks its connection (`executor.py`
sets a call timeout of its own; `generator.py` does not and relies on the driver), and a
caller waiting for a connection is served or failed. Nobody has to call: `Call` is not fair.
A waiting thread is blocked while the pool is exhausted, and weak fairness is enough since
the pool's only connection is given back for good once the bounded number of calls is over;
starvation under endless load is not ruled out by this run. `AnswerStage` assumes it of a
caller inside `scrub` (it runs, or its wait ends after a second) and of a pool thread taking
the next job, and of no detector: `EveryRecordWritten` holds with both pool threads hung for
ever, because the warnings about them end at the recursion limit, where the filter's own
handler swallows the error. `ChatFrontend` assumes it of the run that takes up a click,
since the click's own run ends with `st.rerun()`, and of a call of the API, which ends by
its answer or by its time-out; nobody has to click, or to wait: `ClickedIsAnswered` has the
user's own next act as its exception.

## What the violated runs found

1. `local_db_shared`: `LocalDB` keeps one connection for all threads. A statement another
   thread runs between `con.execute` (`local_db.py:79`) and `fetchall` (line 81) replaces
   the result, and the call returns success with the wrong rows.
2. `local_db_seed`: `self._con` is set (`local_db.py:57`) before `CREATE TABLE` reads the
   seed. While `preprocess_raw_data.py` writes it, or after a run of it that was killed,
   the file exists and is not whole; `CREATE` raises, the connection is kept, and no later
   `make preprocess`, which the message at lines 54-55 asks for, is ever read.
3. `pipeline_year`: `by_clause` (`followups.py:225`) reaches to the end of the question, so
   "and by category" after "the total profit by region in 2024" asks for all years. The
   docstring says the follow-up swaps in its part and uses the question as a template.
4. `chat_cleared`: Clear (`streamlit_app.py:1022`) keeps `last_result_df`, so "top 3" on
   the empty page is answered from the cleared conversation, as a transform of "the rows
   already on screen".
5. `oracle_pool_cap`: `_POOL` is tested and built without a lock (`oracle_connection.py`
   57, 69). Two threads build two pools; both hand out connections and the overwritten one
   is never closed. `docs/OCI_DEPLOYMENT.md:89` says that `max=4` caps concurrency.

## What modelling the code showed beside

No run is devoted to these; the models contain them as behaviour. The first six contradict
a doc or a comment as well.

- A follow-up asked twice is answered as it stands the second time, without the measure of
  its question: the rewritten text is the previous question, which counts as unchanged
  (`followups.py:244`). `docs/ARCHITECTURE.md:72-73` says "not answered blind".
- Containment lifts a score to 0.9 (`pipeline.py:139`), the value from which an answer is
  not approximate (line 147): a question that adds a year to a cached one gets the cached
  statement without the flag that `docs/ARCHITECTURE.md:74-76` promises.
- Two first requests may build two offline pipelines (`pipeline.py:351`). The one that is
  kept does not know the turn the other answered, and the session's next follow-up is
  answered as it stands.
- An answer without rows leaves `last_result_df` as it is (`streamlit_app.py:786`), so
  "top 3" after it transforms the rows of an older answer; the docstring at lines 779-780
  says that the new result is remembered for the next follow-up.
- A detector that times out logs a warning (`pii_filter.py:161`), which is scrubbed with the
  same detectors by the same two workers. With both hung, one record waits for as many
  seconds as warnings can nest, and more; `_run_detector` is documented so that "a latency
  spike never stalls the request" (lines 152-153).
- A crashed agent passes a golden query whose rows are not captured yet; all lines of
  `synthetic_queries.jsonl` are such. `benchmark.py:146` calls it "a failed case".

- Every question is answered offline at this commit, for the import above;
  `production_pipeline.py:19` says that DEPLOY_TARGET=oracle makes it "fail loudly if
  misconfigured".
- `action_decider`, `result_transformer`, `_clarification_response` and
  `_resolve_for_action` are never called, and the decider's Select AI branch cannot be
  reached. `NextActions` models the decider for what its tests presume. The suggestions of
  `followup_suggester` do not leave `ProductionPipeline.run`, which returns neither them nor
  a transform.
- The answer from memory to an answer that was approximate is not marked as such (it has
  status "success" and confidence 0.9). "last" with a metric picks the smallest value. A
  NULL in the metric makes the memory raise, and the question is answered offline.
- The English stop words "previous" and "business" are looked up in the form without their
  "s" and so are not stopped; the plural keys of `SYNONYMS` are never found; no document has
  the type "table_schema" that `_with_required_schema_context` looks for.
- `summarise` raises whatever the model's client raises, although its docstring says the
  pipeline never returns nothing. `scrub_summary` leaves `important_numbers`,
  `trends_anomalies` and `final_takeaway` as they are.
- A date such as 2024-01-15 has eight digits and dashes, and becomes [PHONE] in an answer.
- The trend of a result goes from its first row to its last, in whatever order the statement
  gave them. The page takes the first column named like revenue, the backend the first
  numeric one; `LeadersAgree` compares them where they read the same column.
- A clicked question is taken from the queue (`intel_ui.py:199-201`) before the API is
  called and its answer stored: if the user clicks, types or clears meanwhile, it is never
  answered (`dropped`).
- The first click on a chip under the answer to a typed question is lost: that answer is
  drawn with the key "current", and later runs draw it with another (`LoseClick`).

## The proofs

TLAPS proves each of these for every value of the constants. Assumptions are only those
named in the modules, which TLC evaluates in the runs. Every invariant, action property and
refinement of a passing run is a theorem; what is left to TLC is liveness (see the end of
this section).

`RateLimiter_proofs` (from `LimiterAssumption`: limit and window are positive, the horizon
is a number): `TypeCorrect`, `LimitHolds`, `LimiterImplementsPolicy`. `WindowBound` is not
inductive by itself: it speaks about everything a client was let through and the code
decides on what it has not pruned. `LogComplete` ties the two (every admitted request
younger than the window is still in the log) and holds because the clock moves forward;
`HistoryNumbered` makes a new stamp distinct from all others, so that cardinalities add up.
The refinement is then a step-by-step match, since pruning leaves exactly what the policy
calls recent.

`LocalDB_proofs` (from `LocalDBAssumption` and `NoneAssumption`: `None` is none of the
other values, the kinds of statement are disjoint): `TypeCorrect`, `SoloCallsAreCorrect`,
`ConnectionHasItsTable`, `LeaksOnlyOverlap`. The invariant adds: a call knows the
statements of all calls beside it (`Overlaps`), a published connection has its table or a
thread about to make it, as long as no thread has read an unfinished seed (`TableOrMaker`;
`SoloCallCorrect` and `TableWhenQuiet` have the same exception, and `local_db_seed` shows
that it is needed), tables are only on opened connections
(`TablesOfOpen`), a call that met no other finds everything as it left it (`Undisturbed`),
and from start to last read the result a call's connection holds is its own or that of a
call beside it (`ResultSeen`).

`OfflinePipeline_proofs`: `SessionsApart`, `DialogueFollowed` and `RowsAreOfTheSql` need
`SessionAssumption` (no session is named like the lack of one) and keep folded the operators
that resolve, generate and fall back, so they hold for any vocabulary, cache and table.
`SessionsApart` rests on `HistoryIsSaid` (a session's history holds what that session
resolved); `DialogueFollowed` on `OneAtATime` (a session without overlapping requests has
one in flight) and `InStep` (its history ends with the question answered last, save while
it is being replaced); `RowsAreOfTheSql`, about requests whose statements no other call
overlapped (for those that one did, `LocalDB` says what may happen), on
`FallbackIsForEmpty`: a request that looks for similar rows was answered none.
`FollowUpsMerge`, `SubstitutionsMarked` and `TypeCorrect` open those operators. They need
`QuestionAssumption` and `StatementAssumption` (questions are finite texts, a generated
statement has its kind) and `VocabularyAssumption` (the word "by" is in none of the word
lists). `Texts` says that what is resolved, remembered or answered is made of words of the
questions asked; `MarkedInv` that only valid statements reach the executor (`OnlyValid`) and
that a confidence is one of the values the code computes (`Rated`).

`OraclePool_proofs` (from `PoolAssumption`): `TypeCorrect`, `SoloCallsSurvive`,
`OnePoolWhileAlone`. `SoloCallSurvives` speaks about the end of a call and rests on what
calls before it left: a closed pool in `_POOL` has a thread about to clear it
(`ClosedIsBeingCleared`), so a call that is alone (`SoloIsAlone`) finds no pool or an open
one (`SoloFindsPool`), and meets one fault for each attempt it has used (`SoloFaults`).
`NeverOverlapped` is what `OnePoolAlone` adds. `CallsAreBounded` and `WaitersWaitForUsers`
are about calls in any number and order, and are what `EveryCallEnds` rests on. `StepsLeft`
counts what a call can still take: attempts left times the length of an attempt, plus what
is left of the current one, each failed try to make a pool included. It falls with each step
of the thread and no other thread raises it, so two threads that close each other's pools in
turn use up their attempts; and who waits for a connection waits for a user of one.

`AnswerStage_proofs` (from `WordAssumption`: the labels the rules put in match no rule, and
`SettingAssumption`: records, results and golden queries are finite texts and tables, an
answer takes a natural number of time units): `TypeCorrect`, `FilterRedacts`,
`ScoresNested`, `HeadlinesOrdered`, `NoHallucination`, `OneLeaderNamed`. `FilterRedacts` is
the refinement of `RedactedLog`: only `Init` and the steps that take a record and write it
show there, all others stutter. Its invariant is that every text in work is a safe form of
its string (`SafeSoFar`), also when it is what a detector returned, since a pool thread
holds a job given up, which nobody reads, or one whose text is still its caller's
(`JobsKnown`, by tickets that `JobsApart` keeps distinct). A warning interrupts the scrub of
a string and never touches its text: what detectors make of a warning's own message is
dropped with it (`PastOne`, `WarningsNest`). The others hold of operators on results:
`ScoresInv`, `InsightsInv` and `LeadersInv` say that what the steps store is one of their
values, and the lemmas say of these values that the scores are nested, that what a sentence
claims was computed from the rows, and that all parties choose the first of the largest,
ties included. `OneLeaderNamed` is about the sentences the code makes, not those a language
model wrote in their place, nor the chart; the page's own are in it where the page reads the
same columns as the backend. `HeadlinesOrdered` is about sums over all cases. `SumOf` adds
up with a recursive function; that it is unique, monotone and between the counts it is
compared with is shown by the least length at which that would fail (`TotalsExist`,
`SumIsAbove`). A percentile interpolates between two neighbours of the sorted latencies and
ascends with its rank (`BetweenAscends`, `PercentilesAscend`). The accuracy is a ratio of
counts, and a ratio of sums lies between the least and the largest of the ratios of the
parts (`RatioOfParts`, `TiersAround`). All are compared as they are reported: a rounded
ratio is within half a unit of it, and even when it is half a unit off (`Rounded`), so
rounding keeps the order of two ratios, ties included (`RoundGrows`). `MetricsInv` says that
the cases are numbers of this kind (`Numbered`) and that the report is `ComputeMetrics` of
them (`Reported`).

`LiveBackend_proofs`: `TypeCorrect`, `MemoryBounded`, `PopFindsSession`,
`NothingForeignRemembered`, `NoStatementForChanges`, `ContextOfOneSession`,
`DeciderMatchesMemory`, `OldestEvicted`, `DialogueSurvives`, `RowsHaveSource`,
`SpokenIsTrue`. They need `LiveAssumption` (finitely many workers, no more than
`MaxSessions`; the server has 40 threads and keeps 100 sessions), `MemoryAssumption`,
`RowLimitAssumption` (both limits positive), `StemAssumption` (no stem of a word that
resolving inserts is a forbidden one) and, where rows matter, `StatementAssumption` and
`TableAssumption` (statements are records of their parts; what Oracle returns is a table,
and text has an order that sorting can follow). `LiveInv` has two parts. `Typed` says what
threads hold and, in `Room`, that a dictionary exceeds its limit by no more than the threads
between adding and evicting: without the bound on workers `popitem` could meet an empty
dictionary, which is why `PopFindsSession` is a theorem of its own. `Own` says that an
orchestrator's memory holds only turns given to the session under whose key it stands or
stood; it is carried over evictions by `Using`, which ties a thread's orchestrator to its
session. `Histories` says the same of the offline pipelines: a history holds what its
session resolved (`Recorded`), and what a request continues was in one (`Continued`), also
while it is between reading the history and appending to it, and whichever of two pipelines
it uses. `NoStatementForChanges` is an argument about words: what resolving adds to a
question is never a word that asks for a change. `DeciderMatchesMemory` compares two lists
of rules. `OldestEvicted` is an action property with an invariant of its own, `Lru`: as long
as no session had two requests at a time, the one dictionary has no key twice, its keys
stand in the order of their last lookup (`InOrder`), and a thread about to add a key finds
it missing. A request that looks its session up moves it to the end of both orders, so the
first item, which `popitem` takes, is that of the oldest lookup. `DialogueSurvives` says of
a whole dialogue that nothing of it is lost. `Followed` is what one step has to keep: a
session without an orchestrator has no answers; a request works with the orchestrator that
is kept, or is about to make the first one; and that one remembers the answers shown, with
the turn being recorded while `record()` is between appending, slicing and storing
(`InStep`). Two facts carry it over the steps. `RememberedMore`: to forget before a turn is
appended or after makes no difference, so the list that is stored is that of all answers,
cut. `Dictionaries`: keys are sessions that ask, each once, so while they all have a place
nothing is evicted. That other threads do not disturb any of this is `StepElsewhere`. The
lemmas on ranks give what `TurnsShown`, a selection from the answers, becomes when one is
added (`ChosenMore`). `OfflineKept` is the part about the offline pipeline. `RowsHaveSource`
and `SpokenIsTrue` share `Tabled`: every turn given has the rows of a table (`FromTable`)
and a source for them (`Sourced`). Its step opens each way a turn comes about, a refusal, a
recollection, a statement that ran, one that was refused or came back empty and the cached
rows in its place; `ExecutionRows` says what running and limiting leave of a table, and
`SortedRows`, `ExtremeRows` and `AnswerIs` what the memory makes of one.

`ChatFrontend_proofs`: `OneConversation`, `NewestRowsKept`, `TypeCorrect`,
`TransformsReshape`, `ClicksWait`. The first two need no assumption. Their invariant
`ChatInv` says that the id sent is one made up and not given up (`Ids`) and that the answers
of the database on the page have that id (`Page`). `TransformsNewestRows` speaks about the
answers as they stand on the page, without a variable that tells which rows were kept; what
ties the two is `KeptIsNewest`: if the page has an answer with rows, the kept ones are those
of the newest. The others need `OrderAssumption` (the order of names is one that
sorting can follow, ties allowed), `ResultAssumption` (what the API returns is a table:
named columns, rows over these) and `AskAssumption` (what the parsers may find in a
question). `PageInv` says that every answer on the page is a table, that one made from
memory is `Apply` of the rows kept when it was asked, and that a click that was taken leaves
room for its answer. What is left is a lemma on `Apply` for each transform: what filtering,
sorting, cutting and choosing columns each return, and so what `Apply` makes of a table
(`ApplyReshapes`). `ClicksWait` is the action property `ClicksAreKept`, what
`ClickedIsAnswered` rests on: a queued question stays until a run takes it up, also when the
conversation is cleared before that; the run stays until its answer is the last on the page
or the user ends it; and no queued question waits for an example, or for a run that waits,
since the page takes one click at a time (`Counters`).

`DataLemmas` has what these share: the least and largest of a set of numbers, which the
library's `Min` and `Max` choose, and what sequence operators return. It proves them without
the library's induction theorems, from well-foundedness of inclusion among finite sets. Its
lemmas on ranks say that in a linear order of a finite set every rank below its size has one
element (`RankedIs`, `RankedAll`), so that `Where` and `Ordered` return the elements of
their sequence at distinct places, in order (`ArrangedSeq`). The model uses these two and
not `SelectSeq` and `SortSeq`: the first is recursive; the second, by its definition, has no
value where two different rows compare as equal, and the code does sort such rows. Its
lemmas on numbers say that the sizes of the parts of a set add up (`PartsAddUp`,
`ArrangedCounts`), and that numbers put in order ascend (`SortedNumbers`).

Attempts at proofs changed four statements. `FollowUpMerges` claimed that the measure of
the previous question survives a new dimension: it does not where it stands after the "by",
which `by_clause` cuts off. `DeciderAgrees` was false without its exception: "what about the
smallest" after a turn whose statement was forgotten. `TypeOK` of `LiveBackend` bounded the
memories by the number of requests, which is no invariant of theirs. `MetricsOrdered` put the
accuracy between those of the tiers always: a golden query need not have a tier
(`GoldenQuery.difficulty` is optional), and then the accuracy may lie outside.

Only model-checked is liveness: `EveryCallEnds`, `ClickedIsAnswered` and
`EveryRecordWritten` rest on fairness, and so on `ENABLED`, which is out of the prover's
reach. Proved is what does not depend on it (`CallsAreBounded`, `WaitersWaitForUsers`,
`ClicksWait`): that fair steps lead to the end and that nothing undoes them.

## Not modelled

- `result_transformer` and `followup_suggester`: no request gets what they make.
- `classify_and_rewrite_live`, the LLM variant of follow-up resolution.
- Seeding the Oracle document table, the signer's clock correction, wallets: I/O only.
- `suggest_followups` and `analyze_intent` of the page: they choose words; the chips are
  any question in `ChatFrontend`.
- The detectors themselves, `scrub_rows`, `scrub_obj` and `found`: maps over `scrub` or a
  list for an audit. `sql_structural_similarity`: nothing calls it.
- Prompts and token counter: formatting and sums; nothing decides by them.
- Monitoring: collects figures nothing in the request path records.
- Rendering, file upload, table browser, exports, data preparation scripts: rendering and
  one-shot jobs, whose one visible effect, the seed file, is two actions of `LocalDB`.

## Plan

All components with an order of their own are modelled, and all safety properties are
proved. When `detect_issue` or `action_decision` is repaired in the code, `build` in
`LiveBackend` loses the builds that are gone.
