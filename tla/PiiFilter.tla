------------------------------- MODULE PiiFilter -------------------------------
(***************************************************************************)
(* The PII filter, sql_agent/safety/pii_filter.py: the regex rules, which  *)
(* always apply, and the pluggable detectors behind the log filter, which  *)
(* run in a pool of two threads (_EXECUTOR) and are given one second each. *)
(*                                                                         *)
(* A text is a sequence of words, a redacted word is the label of its      *)
(* rule.  External: a detector redacts the words it recognises, or raises, *)
(* or returns no string, or never returns.                                 *)
(*                                                                         *)
(* The filter is on the handler of the root logger (install_log_redaction) *)
(* and so meets its own records: a detector that times out or raises is    *)
(* logged, and before that call is over the warning has been through the   *)
(* filter, with the same detectors and the same pool.  Warnings nest until *)
(* Python's recursion limit.                                               *)
(***************************************************************************)
EXTENDS Integers, SequencesExt, FiniteSetsExt

CONSTANTS
    Callers,       \* threads that write log records
    PoolThreads,   \* the threads of _EXECUTOR
    Nobody,        \* a pool thread that runs no detector, a future without a result
    Words,         \* words of names, labels and numbers, none of them a rule's label
    Warning,       \* the message of the filter's own warnings, as a word
    Depth,         \* how many warnings can nest
    Shapes,        \* a word's set of rules whose pattern matches it
    PhoneDigits,   \* how many digits a word has
    Separated,     \* the words with a space, dash, dot or bracket in them, or a plus
    Strict,        \* PIIFilter(strict=True)?
    Detectors      \* extra_detectors, each the set of words it recognises

Labels == {"EMAIL", "CARD", "SSN", "IP", "PHONE", "POSTCODE", "ID"}

ASSUME WordAssumption ==
    /\ Words \intersect (Labels \union {"NER"}) = {}
    /\ Shapes \in [Words -> SUBSET Labels]
    /\ PhoneDigits \in [Words -> Nat]
    /\ Warning \in Words /\ Shapes[Warning] = {}
    /\ Depth \in Nat
    /\ Detectors \in Seq(SUBSET Words)

DefaultRules == <<"EMAIL", "CARD", "SSN", "IP", "PHONE">>
Rules == DefaultRules \o IF Strict THEN <<"POSTCODE", "ID">> ELSE <<>>

IsPhone(word) == PhoneDigits[word] \in 7..15 /\ word \in Separated
Hits(word, label) == label \in Shapes[word] /\ (label = "PHONE" => IsPhone(word))

\* The rules are tried in their order, and a placeholder is never redacted again.
Redact(word, rules) ==
    LET hits == {i \in DOMAIN rules : word \in Words /\ Hits(word, rules[i])}
    IN  IF hits = {} THEN word ELSE rules[Min(hits)]

\* _apply_regex.
ApplyRegex(text, rules) == [i \in DOMAIN text |-> Redact(text[i], rules)]

\* What detector d makes of a text.
Detected(d, text) ==
    [i \in DOMAIN text |-> IF text[i] \in Detectors[d] THEN "NER" ELSE text[i]]

-----------------------------------------------------------------------------

VARIABLES
    queue,     \* jobs submitted to the pool and not yet started
    running,   \* the job each pool thread runs
    scrub,     \* the scrub() each caller is in, see Idle
    future,    \* the result of the job each caller waits for
    written    \* the last record each caller wrote, [from, to]

poolVars == <<queue, running, scrub, future, written>>

\* todo: the strings of the record left, done: those scrubbed; text: the string in work,
\* at: the detectors it is past; ticket: how many jobs the caller submitted; warnings: the
\* warnings it is in, the innermost last, each the number of detectors its message is past.
Idle == [at |-> 0, todo |-> <<>>, done |-> <<>>, text |-> <<>>, waiting |-> FALSE,
         ticket |-> 0, from |-> <<>>, warnings |-> <<>>]

PoolInit ==
    /\ queue = <<>>
    /\ running = [w \in PoolThreads |-> Nobody]
    /\ scrub = [c \in Callers |-> Idle]
    /\ future = [c \in Callers |-> Nobody]
    /\ written = [c \in Callers |-> Nobody]

Scrubbing(c) == scrub[c].todo # <<>>

\* The string the detectors work on, and those it is past: the innermost warning's, or
\* the record's own.
InWork(s) == IF s.warnings = <<>> THEN s.text ELSE <<Warning>>
At(s) == IF s.warnings = <<>> THEN s.at ELSE Last(s.warnings)

\* The next string of the record, the floor applied to it.
Begin(s, todo) ==
    [s EXCEPT !.todo = todo, !.at = 0,
              !.text = IF todo = <<>> THEN <<>> ELSE ApplyRegex(Head(todo), Rules)]

\* PIIRedactingLogFilter.filter: the message and the arguments that are strings.
Log(c, record) ==
    /\ ~Scrubbing(c)
    /\ scrub' = [scrub EXCEPT ![c] = Begin([@ EXCEPT !.from = record, !.done = <<>>], record)]
    /\ UNCHANGED <<queue, running, future, written>>

\* `_EXECUTOR.submit(detector, text)`.
Submit(c) ==
    /\ Scrubbing(c) /\ ~scrub[c].waiting /\ At(scrub[c]) < Len(Detectors)
    /\ scrub' = [scrub EXCEPT ![c].waiting = TRUE, ![c].ticket = @ + 1]
    /\ queue' = Append(queue, [caller |-> c, ticket |-> scrub[c].ticket + 1,
                               detector |-> At(scrub[c]) + 1, text |-> InWork(scrub[c])])
    /\ future' = [future EXCEPT ![c] = Nobody]
    /\ UNCHANGED <<running, written>>

\* The string in work is past one more detector.
PastDetector(s, text) ==
    IF s.warnings = <<>>
    THEN [s EXCEPT !.at = @ + 1, !.text = text]
    ELSE [s EXCEPT !.warnings = Append(Front(@), Last(@) + 1)]

\* Slip: the caller still counts as waiting.
PastWaiting(s, text) == PastDetector(s, text)

\* The wait of _run_detector is over, with a text.
Past(s, text) == [PastDetector(s, text) EXCEPT !.waiting = FALSE]

\* A warning is logged, from inside the scrub it is about.  At the recursion limit the
\* call raises instead: filter() swallows the RecursionError of the scrub it is in, or
\* that of its own handler reaches a filter() further out, whose warning ends as it is.
Warned(warnings) ==
    IF Len(warnings) < Depth
    THEN {Append(warnings, 0)}
    ELSE {SubSeq(warnings, 1, k) : k \in 0..Len(warnings)}

\* The detector is given up, with a warning and the text as it was.
GiveUp(c) ==
    LET s == Past(scrub[c], scrub[c].text) IN
    \E warnings \in Warned(s.warnings) :
      scrub' = [scrub EXCEPT ![c] = [s EXCEPT !.warnings = warnings]]

\* The future has a result: the detector's text, or none when it raised or returned
\* something else; only what it raised is logged.
Take(c) ==
    /\ scrub[c].waiting
    /\ future[c] # Nobody
    /\ \/ LET text == IF future[c] = <<>> THEN scrub[c].text ELSE future[c]
          IN  scrub' = [scrub EXCEPT ![c] = Past(@, text)]
       \/ future[c] = <<>> /\ GiveUp(c)
    /\ UNCHANGED <<queue, running, future, written>>

\* Slip: the second is counted from when the detector starts.
TimeOutStarted(c) ==
    /\ scrub[c].waiting
    /\ future[c] = Nobody
    /\ \E w \in PoolThreads : running[w] # Nobody /\ running[w].caller = c
                              /\ running[w].ticket = scrub[c].ticket
    /\ GiveUp(c)
    /\ UNCHANGED <<queue, running, future, written>>

\* FutureTimeout: the caller goes on with what it has; the job is not cancelled.
TimeOut(c) ==
    /\ scrub[c].waiting
    /\ future[c] = Nobody
    /\ GiveUp(c)
    /\ UNCHANGED <<queue, running, future, written>>

\* A warning that is past every detector is written, and the scrub it is about goes on.
EndWarning(c) ==
    /\ scrub[c].warnings # <<>> /\ ~scrub[c].waiting /\ At(scrub[c]) = Len(Detectors)
    /\ scrub' = [scrub EXCEPT ![c].warnings = Front(@)]
    /\ UNCHANGED <<queue, running, future, written>>

\* The string is scrubbed, and with the last one the record is written.
Finish(c) ==
    LET s == scrub[c]
        done == Append(s.done, s.text)
    IN  /\ Scrubbing(c) /\ ~s.waiting /\ s.warnings = <<>> /\ s.at = Len(Detectors)
        /\ scrub' = [scrub EXCEPT ![c] = Begin([s EXCEPT !.done = done], Tail(s.todo))]
        /\ written' = IF Len(s.todo) > 1 THEN written
                      ELSE [written EXCEPT ![c] = [from |-> s.from, to |-> done]]
        /\ UNCHANGED <<queue, running, future>>

\* A pool thread that is free takes the oldest job, given up by its caller or not.
Start(w) ==
    /\ running[w] = Nobody
    /\ queue # <<>>
    /\ running' = [running EXCEPT ![w] = Head(queue)]
    /\ queue' = Tail(queue)
    /\ UNCHANGED <<scrub, future, written>>

\* Slip: the result goes to the caller, whatever it waits for by now.
ResultToCaller(w) ==
    /\ running[w] # Nobody
    /\ \E result \in {Detected(running[w].detector, running[w].text), <<>>} :
         future' = [future EXCEPT ![running[w].caller] = result]
    /\ running' = [running EXCEPT ![w] = Nobody]
    /\ UNCHANGED <<queue, scrub, written>>

\* The detector returns a text, or raises or returns something else (<<>>): the result
\* is the job's future's, which nobody reads once its caller gave up.
Result(w) ==
    LET job == running[w] IN
    /\ job # Nobody
    /\ \E result \in {Detected(job.detector, job.text), <<>>} :
         future' = IF scrub[job.caller].waiting /\ scrub[job.caller].ticket = job.ticket
                   THEN [future EXCEPT ![job.caller] = result] ELSE future
    /\ running' = [running EXCEPT ![w] = Nobody]
    /\ UNCHANGED <<queue, scrub, written>>

\* What a caller inside scrub() does next.
Caller(c) == Submit(c) \/ Take(c) \/ TimeOut(c) \/ EndWarning(c) \/ Finish(c)

-----------------------------------------------------------------------------

\* One word of a text and of what became of it: the same word if no rule hits it, the
\* label of the first rule that does, or NER where some detector knows the word.
SafeWord(word, out) ==
    \/ out = Redact(word, Rules)
    \/ out = "NER" /\ Redact(word, Rules) = word
         /\ \E d \in DOMAIN Detectors : word \in Detectors[d]

\* pii_filter.py:118-121, "the GUARANTEED floor": whatever the detectors do and however
\* late, a record is written once, between the call that logs it and that call's end, its
\* strings in their order and word for word, redacted wherever a rule hits.
Redacted == INSTANCE RedactedLog WITH
    writing <- [c \in Callers |-> IF Scrubbing(c) THEN scrub[c].from ELSE <<>>],
    written <- written,
    Safe <- SafeWord
ImplementsRedactedLog == Redacted!Spec

\* pii_filter.py:42-43: a detector "can never hang the request": every record is written,
\* even with every pool thread taken by a detector that never returns, since the warnings
\* about it end, at the recursion limit if nowhere before.
EveryRecordWritten == \A c \in Callers : Scrubbing(c) ~> ~Scrubbing(c)
=============================================================================
