----------------------------- MODULE ChatFrontend -----------------------------
(***************************************************************************)
(* The chat page, frontend/streamlit_app.py and intel_ui.py: one browser   *)
(* session.  A click on an example or on a suggestion only queues a        *)
(* question, and a later run of the script takes it up.  A question that   *)
(* is not answered in memory waits for the API, and whatever the user does *)
(* in this time ends the run: Streamlit starts a new one, and the answer,  *)
(* which the old run would have stored, is lost with the question.         *)
(*                                                                         *)
(* A run is ended only where it waits for the API, which takes up to 90    *)
(* seconds; what it does before and after takes no time and is one step.   *)
(*                                                                         *)
(* External: POST /query.  It answers with rows or without, under the      *)
(* session id it was sent or, sent none, under a new one; or the call      *)
(* fails (unreachable, 90 s read timeout, HTTP error) and tells no id.     *)
(***************************************************************************)
EXTENDS ResultTransforms

CONSTANTS
    Asks,         \* the questions typed or suggested, as ResultTransforms has them
    Results,      \* the results with rows the database may give
    MaxAnswers    \* bound on the answers of a browser session

\* The names the database may give, in an order as of an alphabet.
NamesOf(result) ==
    IF "name" \in result.columns THEN {result.rows[i].name : i \in DOMAIN result.rows} ELSE {}
Names == UNION {NamesOf(result) : result \in Results}
ASSUME OrderAssumption ==
    \A a, b, c \in Names :
        /\ Precedes(a, b) => ~Precedes(b, a)
        /\ Precedes(a, c) => Precedes(a, b) \/ Precedes(b, c)

\* A row has a value in every column; there are rows only under a column.
IsRow(row, columns) ==
    /\ row = [column \in columns |-> row[column]]
    /\ "name" \in columns => row.name \in Names
    /\ "amount" \in columns => row.amount \in Int
IsTable(result) ==
    /\ result.columns \in SUBSET Columns
    /\ result.rows \in Seq(ToSet(result.rows))
    /\ \A row \in ToSet(result.rows) : IsRow(row, result.columns)
    /\ result.rows # <<>> => result.columns # {}
ASSUME ResultAssumption == \A result \in Results : IsTable(result) /\ result.rows # <<>>

\* What the parsers of result_transforms.py may find in a question.
ASSUME AskAssumption ==
    /\ MaxAnswers \in Nat
    /\ \A q \in Asks :
         /\ q.sort \in {"none", "bare", "asc", "desc"}
         /\ q.top \in {"none", "top", "bottom", "head", "tail"} /\ q.n \in Nat
         /\ q.select \in {"none", "keep", "drop"}

VARIABLES
    sessionId,   \* st.session_state.session_id; 0 for None
    shown,       \* st.session_state.history: the answers on the page
    lastResult,  \* st.session_state.last_result_df; NoResult for None
    asking,      \* the question whose run waits for the API, at most one
    example,     \* is st.session_state._example_question set?
    queued,      \* st.session_state._queued_question, at most one
    typed,       \* was the newest answer drawn by the run that answered a typed question?
    answers,     \* how many answers were given: an answer is named by its number
    ids,         \* how many session ids the API has made up
    retired,     \* history variable: ids of cleared conversations
    lastFrom,    \* history variable: the answer lastResult was stored by
    dropped      \* history variable: the question whose run the last step has ended

page == <<sessionId, shown, lastResult, answers, ids, retired, lastFrom>>
vars == <<page, asking, example, queued, typed, dropped>>

Init ==
    /\ sessionId = 0
    /\ shown = <<>>
    /\ lastResult = NoResult
    /\ asking = {}
    /\ example = FALSE
    /\ queued = {}
    /\ typed = FALSE
    /\ answers = 0
    /\ ids = 0
    /\ retired = {}
    /\ lastFrom = 0
    /\ dropped = {}

Entry(via, session, result, question, source, base) ==
    [n |-> answers + 1, via |-> via, session |-> session, result |-> result,
     question |-> question, source |-> source, base |-> base]

\* Slip: an answer without rows replaces the kept ones as well.
StoreEmptyToo(entry) ==
    /\ sessionId' = IF entry.session # 0 THEN entry.session ELSE sessionId
    /\ shown' = Append(shown, entry)
    /\ answers' = answers + 1
    /\ lastResult' = entry.result
    /\ lastFrom' = entry.n
    /\ UNCHANGED retired

\* Slip: only rows that came from the database are kept for the next follow-up.
StoreDatabaseRows(entry) ==
    /\ sessionId' = IF entry.session # 0 THEN entry.session ELSE sessionId
    /\ shown' = Append(shown, entry)
    /\ answers' = answers + 1
    /\ LET stores == entry.result.rows # <<>> /\ entry.via = "database" IN
       /\ lastResult' = IF stores THEN entry.result ELSE lastResult
       /\ lastFrom' = IF stores THEN entry.n ELSE lastFrom
    /\ UNCHANGED retired

\* _run_and_store keeps the answer's session id and, when it has rows, the rows.
Store(entry) ==
    /\ sessionId' = IF entry.session # 0 THEN entry.session ELSE sessionId
    /\ shown' = Append(shown, entry)
    /\ answers' = answers + 1
    /\ LET stores == entry.result.rows # <<>> IN
       /\ lastResult' = IF stores THEN entry.result ELSE lastResult
       /\ lastFrom' = IF stores THEN entry.n ELSE lastFrom
    /\ UNCHANGED retired

\* run_or_transform without the API: a new answer from the rows of an earlier one.
Transform(q) ==
    /\ Classify(q) /\ ~FallsBack(q, lastResult)
    /\ Store(Entry("memory", sessionId, Apply(q, lastResult), q, lastFrom, lastResult))
    /\ UNCHANGED ids

\* call_api, answered with the rows of result, which may be none.
ApiAnswers(q, result) ==
    /\ ids' = IF sessionId = 0 THEN ids + 1 ELSE ids
    /\ Store(Entry("database", IF sessionId = 0 THEN ids + 1 ELSE sessionId,
                   result, q, 0, NoResult))

\* call_api fails: the error is shown under the id that was sent.
ApiFails(q) ==
    /\ Store(Entry("error", sessionId, NoResult, q, 0, NoResult))
    /\ UNCHANGED ids

\* The run that answers q calls the API and waits; asked by typing, its answer will be
\* drawn last, with the key "current".
Wait(q, byTyping) ==
    /\ asking' = {[question |-> q, byTyping |-> byTyping]}
    /\ typed' = FALSE
    /\ UNCHANGED page

\* _run_and_store(question, use_prev=True), as far as it goes without the API's answer.
RunAndStore(q, byTyping) ==
    \/ Transform(q) /\ asking' = {} /\ typed' = byTyping
    \/ (Classify(q) => FallsBack(q, lastResult)) /\ Wait(q, byTyping)

\* The API's answer, or its failure, is stored.
Answered ==
    /\ \E a \in asking :
         /\ ApiFails(a.question)
              \/ \E result \in Results \union {NoResult} : ApiAnswers(a.question, result)
         /\ typed' = a.byTyping
    /\ asking' = {}
    /\ dropped' = {}
    /\ UNCHANGED <<example, queued>>

\* What the user does ends a run that waits, and its question is forgotten.
EndsRun == dropped' = {a.question : a \in asking}

Idle == ~example /\ queued = {} /\ answers < MaxAnswers

\* A question typed into the chat input: the answers before it are drawn first.
Type(q) ==
    /\ Idle
    /\ EndsRun
    /\ RunAndStore(q, TRUE)
    /\ UNCHANGED <<example, queued>>

\* The example buttons are on the page while the conversation is empty.
ClickExample ==
    /\ Idle
    /\ shown = <<>>
    /\ EndsRun /\ asking' = {}
    /\ example' = TRUE
    /\ UNCHANGED <<page, queued, typed>>

\* An example is a fresh query: _run_and_store(eq, use_prev=False).
RunExample ==
    /\ example
    /\ example' = FALSE
    /\ \E q \in Asks : Wait(q, FALSE)
    /\ UNCHANGED <<queued, dropped>>

\* The suggestion chips go with a result that has rows.  Those of earlier answers have
\* the keys the next run draws them with.
ClickChip(q) ==
    /\ Idle
    /\ \E i \in DOMAIN shown : shown[i].result.rows # <<>> /\ (typed => i < Len(shown))
    /\ EndsRun /\ asking' = {}
    /\ queued' = {q}
    /\ typed' = FALSE
    /\ UNCHANGED <<page, example>>

\* A click on a chip with the key "current", or on an example still drawn above the first
\* answer: the run it starts draws no such button, and the click is lost.  A toggle of the
\* sidebar draws the page anew as well.
LoseClick ==
    /\ typed \/ asking # {}
    /\ EndsRun /\ asking' = {}
    /\ typed' = FALSE
    /\ UNCHANGED <<page, example, queued>>

\* Slip: a queued question is taken up only while there is a conversation.
RunQueuedOnPage ==
    /\ ~example
    /\ shown # <<>>
    /\ \E q \in queued : RunAndStore(q, FALSE)
    /\ queued' = {}
    /\ UNCHANGED <<example, dropped>>

\* pop_queued_question, and the question it gives is taken up.
RunQueued ==
    /\ ~example
    /\ \E q \in queued : RunAndStore(q, FALSE)
    /\ queued' = {}
    /\ UNCHANGED <<example, dropped>>

\* Slip: the page is emptied and the backend session goes on.
ClearPageOnly ==
    /\ EndsRun /\ asking' = {}
    /\ shown' = <<>>
    /\ retired' = IF sessionId = 0 THEN retired ELSE retired \union {sessionId}
    /\ typed' = FALSE
    /\ UNCHANGED <<sessionId, lastResult, example, queued, answers, ids, lastFrom>>

\* "Clear conversation", lines 1021-1024.
Clear ==
    /\ EndsRun /\ asking' = {}
    /\ shown' = <<>>
    /\ sessionId' = 0
    /\ retired' = IF sessionId = 0 THEN retired ELSE retired \union {sessionId}
    /\ typed' = FALSE
    /\ UNCHANGED <<lastResult, example, queued, answers, ids, lastFrom>>

UserActs ==
    \/ \E q \in Asks : Type(q) \/ ClickChip(q)
    \/ ClickExample \/ LoseClick \/ Clear

Next == UserActs \/ Answered \/ RunExample \/ RunQueued

\* A click that was taken ends its run with st.rerun(), so that the run which takes its
\* question up needs nobody; and a call of the API that nobody ends has its time-out.
Fairness == WF_vars(RunExample) /\ WF_vars(RunQueued) /\ WF_vars(Answered)

Spec == Init /\ [][Next]_vars /\ Fairness

-----------------------------------------------------------------------------

WellFormed(result) ==
    /\ result.columns \subseteq Columns
    /\ \A i \in DOMAIN result.rows : DOMAIN result.rows[i] = result.columns

\* Every result is rectangular, a kept result has rows, and the counters are in bounds.
TypeOK ==
    /\ sessionId \in 0..ids /\ ids \in 0..answers /\ answers \in 0..MaxAnswers
    /\ queued \subseteq Asks /\ Cardinality(queued \union asking) <= 1
    /\ WellFormed(lastResult)
    /\ lastResult # NoResult => lastResult.rows # <<>>
    /\ \A i \in DOMAIN shown :
         /\ WellFormed(shown[i].result)
         /\ shown[i].n \in 1..answers /\ shown[i].session \in 0..ids

\* The answers of a conversation that reached the backend were all given in one backend
\* session, which no conversation before the last Clear took part in: the backend
\* resolves follow-ups within what the page shows, whatever calls timed out on the way.
OneSessionPerConversation ==
    \A i, j \in DOMAIN shown :
        shown[i].via = "database" =>
            /\ shown[i].session \notin retired
            /\ shown[j].via = "database" => shown[i].session = shown[j].session

\* Of the answers before place i, is the one at j the newest with rows?
NewestBefore(i, j) ==
    /\ j \in 1..(i - 1)
    /\ shown[j].result.rows # <<>>
    /\ \A k \in (j + 1)..(i - 1) : shown[k].result.rows = <<>>

\* intel_ui.py:7, "the previous result": an answer from memory is made of the answer above
\* it that is the newest with rows, be that from the database or itself made in memory,
\* however many questions failed, found nothing or were ended by the user in between.
TransformsNewestRows ==
    \A i \in DOMAIN shown :
        shown[i].via = "memory" =>
            \A j \in DOMAIN shown :
                NewestBefore(i, j) =>
                    shown[i].source = shown[j].n /\ shown[i].base = shown[j].result

\* What a transform shows are rows of its source, as far as columns are kept, in number
\* at most what was asked for; and with the measure at hand "top n" are n largest ones.
ReshapesOnly ==
    \A i \in DOMAIN shown :
        LET e == shown[i]
            q == e.question
            from == ToSet(Filtered(q, e.base))
            ranks == q.top = "top" /\ {"name", "amount"} \subseteq e.result.columns
        IN  e.via = "memory" =>
              /\ Len(e.result.rows) <= Len(e.base.rows)
              /\ q.top # "none" => Len(e.result.rows) <= q.n
              /\ \A k \in DOMAIN e.result.rows :
                   \E row \in from : Restrict(row, e.result.columns) = e.result.rows[k]
              /\ ranks => \A row \in from \ ToSet(e.result.rows), k \in DOMAIN e.result.rows :
                            row.amount <= e.result.rows[k].amount

\* The newest answer on the page is to q.
AnsweredLast(q) == shown # <<>> /\ shown[Len(shown)].question = q

\* A click that queued a question is answered, that very question as the newest on the
\* page, or the user does something else while it waits for its answer: nothing that is
\* cleared, typed or failing before it is taken up can lose it.  An example is taken up too.
ClickedIsAnswered ==
    /\ example ~> ~example
    /\ \A q \in Asks : q \in queued ~> AnsweredLast(q) \/ q \in dropped

\* intel_ui.py:56-57: a follow-up answered in memory transforms "the rows already on
\* screen", so the answer it starts from is one the page shows.
SourceOnScreen ==
    \A i \in DOMAIN shown :
        shown[i].via = "memory" => \E j \in DOMAIN shown : shown[j].n = shown[i].source
=============================================================================
