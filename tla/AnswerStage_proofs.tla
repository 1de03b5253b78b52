--------------------------- MODULE AnswerStage_proofs ---------------------------
(***************************************************************************)
(* Proofs about AnswerStage, for every set of threads, vocabulary, choice  *)
(* of detectors and golden queries.                                        *)
(*                                                                         *)
(* The log filter implements the redacting log: a caller's text is always  *)
(* a safe form of the string it is scrubbing, because a pool thread holds  *)
(* either a job its caller has given up, of which nothing is read any      *)
(* more, or the current one, whose text is the caller's text still.        *)
(*                                                                         *)
(* The headline numbers of a benchmark are sums, ratios and percentiles of *)
(* the scores of its cases.  That a sum grows with its numbers is shown    *)
(* without an induction rule: of the lengths where it did not there would  *)
(* be a least.                                                             *)
(***************************************************************************)
EXTENDS AnswerStage, DataLemmas

Text == Seq(Words \union Labels \union {"NER"})

Job == [caller : Callers, ticket : Nat, detector : DOMAIN Detectors, text : Text]
Scrub ==
    [at : 0..Len(Detectors), todo : Records, done : Seq(Text), text : Text,
     waiting : BOOLEAN, ticket : Nat, from : Records, warnings : Seq(0..Len(Detectors))]

Kinds ==
    /\ setting \in Settings
    /\ queue \in Seq(Job)
    /\ running \in [PoolThreads -> Job \union {Nobody}]
    /\ scrub \in [Callers -> Scrub]
    /\ future \in [Callers -> Text \union {Nobody}]
    /\ DOMAIN written = Callers

\* A caller waits only for a detector, and with a string to scrub.
WaitsForDetector ==
    \A c \in Callers :
        scrub[c].waiting => Scrubbing(c) /\ At(scrub[c]) < Len(Detectors)

\* The job whose result its caller still waits for.
Current(job) == scrub[job.caller].waiting /\ scrub[job.caller].ticket = job.ticket
Kept(job) ==
    /\ Issued(job)
    /\ Current(job) /\ scrub[job.caller].warnings = <<>> => job.text = scrub[job.caller].text

JobsKnown ==
    /\ \A i \in DOMAIN queue : Kept(queue[i])
    /\ \A w \in Busy : Kept(running[w])

\* The strings done are safe forms of those of the record, and the others are to do.
Faithful(s) ==
    s.todo # <<>> =>
        /\ Len(s.from) = Len(s.done) + Len(s.todo)
        /\ \A i \in DOMAIN s.done : Redacted!SafeString(s.from[i], s.done[i])
        /\ \A i \in DOMAIN s.todo : s.todo[i] = s.from[Len(s.done) + i]
        /\ Redacted!SafeString(s.todo[1], s.text)

SafeSoFar ==
    \A c \in Callers :
        /\ Faithful(scrub[c])
        /\ scrub[c].waiting /\ scrub[c].warnings = <<>> /\ future[c] \notin {Nobody, <<>>}
             => Redacted!SafeString(scrub[c].todo[1], future[c])

FilterInv == Kinds /\ WaitsForDetector /\ JobsKnown /\ SafeSoFar
-----------------------------------------------------------------------------

\* A word is redacted to a label or stays as it is, and a label is never a word.
LEMMA RedactWord ==
    ASSUME NEW word, NEW rules \in Seq(Labels)
    PROVE  /\ Redact(word, rules) = word \/ Redact(word, rules) \in Labels
           /\ word \notin Words => Redact(word, rules) = word
<1> DEFINE hits == {i \in DOMAIN rules : word \in Words /\ Hits(word, rules[i])}
<1>1. CASE hits = {}
  BY <1>1 DEF Redact
<1>2. CASE hits # {}
  <2>1. hits \in SUBSET Nat
    OBVIOUS
  <2>2. Min(hits) \in hits
    BY <1>2, <2>1, MinOfNaturals
  <2> QED
    BY <1>2, <2>2 DEF Redact
<1> QED
  BY <1>1, <1>2

\* The rules of _apply_regex are a list of labels.
LEMMA RulesAreLabels == Rules \in Seq(Labels) /\ DefaultRules \in Seq(Labels)
<1>1. DefaultRules \in Seq(Labels)
  BY DEF DefaultRules, Labels
<1>2. (IF Strict THEN <<"POSTCODE", "ID">> ELSE <<>>) \in Seq(Labels)
  <2>1. CASE Strict
    BY <2>1 DEF Labels
  <2>2. CASE ~Strict
    BY <2>2
  <2> QED
    BY <2>1, <2>2
<1> QED
  BY <1>1, <1>2, ConcatProperties DEF Rules

\* What the rules make of a text is a safe form of it (pii_filter.py, _apply_regex).
LEMMA AppliedRegex ==
    ASSUME NEW text \in Seq(Words)
    PROVE  /\ ApplyRegex(text, Rules) \in Text
           /\ Redacted!SafeString(text, ApplyRegex(text, Rules))
<1>1. \A i \in DOMAIN text : Redact(text[i], Rules) \in Words \union Labels \union {"NER"}
  BY RedactWord, RulesAreLabels
<1>2. ApplyRegex(text, Rules) \in Text
  BY <1>1 DEF ApplyRegex, Text
<1>3. Len(ApplyRegex(text, Rules)) = Len(text)
  BY DEF ApplyRegex
<1> QED
  BY <1>2, <1>3 DEF ApplyRegex, SafeWord, Redacted!SafeString

\* A detector leaves a safe form safe: it redacts words only, which no rule has hit.
LEMMA DetectedIsSafe ==
    ASSUME NEW text \in Text, NEW d \in DOMAIN Detectors
    PROVE  /\ Detected(d, text) \in Text
           /\ \A from \in Seq(Words) :
                Redacted!SafeString(from, text) => Redacted!SafeString(from, Detected(d, text))
<1>1. Detected(d, text) \in Text /\ Len(Detected(d, text)) = Len(text)
  BY DEF Detected, Text
<1>2. ASSUME NEW word, NEW out \in Detectors[d], SafeWord(word, out)
      PROVE  SafeWord(word, "NER")
  <2>1. out \in Words /\ out \notin Labels \union {"NER"}
    BY WordAssumption
  <2>2. out = Redact(word, Rules)
    BY <1>2, <2>1 DEF SafeWord
  <2>3. out = word
    BY <2>1, <2>2, RedactWord, RulesAreLabels
  <2> QED
    BY <2>2, <2>3 DEF SafeWord
<1>3. ASSUME NEW from \in Seq(Words), Redacted!SafeString(from, text), NEW k \in DOMAIN from
      PROVE  SafeWord(from[k], Detected(d, text)[k])
  <2>1. k \in DOMAIN text /\ SafeWord(from[k], text[k])
    BY <1>3 DEF Redacted!SafeString, Text
  <2> QED
    BY <1>2, <2>1 DEF Detected
<1> QED
  BY <1>1, <1>3 DEF Redacted!SafeString

-----------------------------------------------------------------------------

\* The next string of a record, or none.
LEMMA BeginIsSafe ==
    ASSUME NEW s \in Scrub, NEW todo \in Records
    PROVE  LET b == Begin(s, todo) IN
           /\ b \in Scrub
           /\ b.todo = todo /\ b.waiting = s.waiting /\ b.ticket = s.ticket
           /\ b.from = s.from /\ b.done = s.done
           /\ todo # <<>> => Redacted!SafeString(todo[1], b.text)
<1> DEFINE text == IF todo = <<>> THEN <<>> ELSE ApplyRegex(Head(todo), Rules)
<1>1. Begin(s, todo) = [s EXCEPT !.todo = todo, !.at = 0, !.text = text]
  BY DEF Begin
<1>2. todo # <<>> => todo[1] \in Seq(Words) /\ Head(todo) = todo[1]
  BY DEF Records
<1>3. text \in Text /\ (todo # <<>> => Redacted!SafeString(todo[1], text))
  <2>1. CASE todo = <<>>
    BY <2>1 DEF Text
  <2>2. CASE todo # <<>>
    BY <1>2, <2>2, AppliedRegex
  <2> QED
    BY <2>1, <2>2
<1>4. 0 \in 0..Len(Detectors)
  BY WordAssumption
<1> HIDE DEF text
<1> QED
  BY <1>1, <1>3, <1>4 DEF Scrub

\* A record that enters the filter is scrubbed by the rules before anything is submitted.
LEMMA LogStep ==
    ASSUME FilterInv, NEW c \in Callers, NEW record \in Records, Log(c, record), UNCHANGED setting
    PROVE  FilterInv'
<1> USE DEF FilterInv, Kinds
<1> DEFINE fresh == [scrub[c] EXCEPT !.from = record, !.done = <<>>]
           next == Begin(fresh, record)
<1>1. fresh \in Scrub /\ fresh.done = <<>> /\ fresh.from = record
        /\ fresh.waiting = scrub[c].waiting /\ fresh.ticket = scrub[c].ticket
  <2>1. scrub[c] \in Scrub /\ <<>> \in Seq(Text)
    OBVIOUS
  <2> QED
    BY <2>1 DEF Scrub
<1>2. /\ next \in Scrub
      /\ next.todo = record /\ next.from = record /\ next.done = <<>>
      /\ ~next.waiting /\ ~scrub[c].waiting /\ next.ticket = scrub[c].ticket
      /\ record # <<>> => Redacted!SafeString(record[1], next.text)
  <2>1. ~scrub[c].waiting
    BY DEF WaitsForDetector, Log
  <2> HIDE DEF fresh
  <2> QED
    BY <1>1, <2>1, BeginIsSafe
<1>3. scrub' = [scrub EXCEPT ![c] = next] /\ UNCHANGED <<queue, running, future, written>>
  BY DEF Log
<1> HIDE DEF fresh, next
<1>4. Kinds'
  BY <1>2, <1>3
<1>5. WaitsForDetector'
  BY <1>2, <1>3 DEF WaitsForDetector, Scrubbing
<1>6. JobsKnown'
  <2>1. ASSUME NEW job \in Job, Kept(job)
        PROVE  Kept(job)'
    BY <1>2, <1>3, <2>1 DEF Kept, Issued, Current, Job, Scrub
  <2> QED
    BY <1>3, <2>1 DEF JobsKnown, Busy
<1>7. SafeSoFar'
  <2>1. Faithful(next)
    BY <1>2 DEF Faithful, Records
  <2> QED
    BY <1>2, <1>3, <2>1 DEF SafeSoFar
<1> QED
  BY <1>4, <1>5, <1>6, <1>7

\* The string a detector is given, and which detector.
LEMMA InnermostString ==
    ASSUME NEW s \in Scrub
    PROVE  /\ At(s) \in 0..Len(Detectors)
           /\ InWork(s) \in Text
           /\ s.warnings # <<>> => Front(s.warnings) \in Seq(0..Len(Detectors))
<1>1. s.warnings \in Seq(0..Len(Detectors)) /\ s.at \in 0..Len(Detectors) /\ s.text \in Text
  BY DEF Scrub
<1>2. ASSUME NEW w \in Seq(0..Len(Detectors)), w # <<>>
      PROVE  w[Len(w)] \in 0..Len(Detectors) /\ SubSeq(w, 1, Len(w) - 1) \in Seq(0..Len(Detectors))
  BY <1>2
<1>3. <<Warning>> \in Text
  BY WordAssumption DEF Text
<1> QED
  BY <1>1, <1>2, <1>3 DEF At, InWork, Last, Front

\* A job holds its caller's text and a ticket of its own.
LEMMA SubmitStep ==
    ASSUME FilterInv, NEW c \in Callers, Submit(c), UNCHANGED setting
    PROVE  FilterInv'
<1> USE DEF FilterInv, Kinds
<1> DEFINE next == [scrub[c] EXCEPT !.waiting = TRUE, !.ticket = @ + 1]
<1>0. PICK job : job = [caller |-> c, ticket |-> scrub[c].ticket + 1,
                        detector |-> At(scrub[c]) + 1, text |-> InWork(scrub[c])]
  OBVIOUS
<1>1. /\ scrub' = [scrub EXCEPT ![c] = next]
      /\ queue' = Append(queue, job)
      /\ future' = [future EXCEPT ![c] = Nobody]
      /\ UNCHANGED <<running, written>>
  BY <1>0 DEF Submit
<1>2. /\ next \in Scrub
      /\ next.waiting /\ next.ticket = scrub[c].ticket + 1
      /\ next.at = scrub[c].at /\ next.todo = scrub[c].todo /\ next.from = scrub[c].from
      /\ next.done = scrub[c].done /\ next.text = scrub[c].text
      /\ next.warnings = scrub[c].warnings
  <2>1. scrub[c] \in Scrub /\ scrub[c].ticket + 1 \in Nat
    BY DEF Scrub
  <2> QED
    BY <2>1 DEF Scrub
<1>3. /\ job \in Job
      /\ job.caller = c /\ job.ticket = next.ticket
      /\ next.warnings = <<>> => job.text = next.text
  <2>1. Len(Detectors) \in Nat /\ DOMAIN Detectors = 1..Len(Detectors)
    BY WordAssumption
  <2>2. scrub[c] \in Scrub
    OBVIOUS
  <2>3. At(scrub[c]) + 1 \in DOMAIN Detectors /\ InWork(scrub[c]) \in Text
    BY <2>1, <2>2, InnermostString DEF Submit
  <2> QED
    BY <1>0, <1>2, <2>3 DEF Job, Scrub, InWork
<1> HIDE DEF next
<1>4. Kinds'
  BY <1>1, <1>2, <1>3
<1>5. WaitsForDetector'
  BY <1>1, <1>2 DEF WaitsForDetector, Scrubbing, Submit, At
<1>6. JobsKnown'
  <2>1. ASSUME NEW other \in Job, Kept(other)
        PROVE  Kept(other)'
    BY <1>1, <1>2, <2>1 DEF Kept, Issued, Current, Job, Scrub
  <2>2. Kept(job)'
    BY <1>1, <1>2, <1>3 DEF Kept, Issued, Current, Job, Scrub
  <2>3. \A i \in DOMAIN queue' : Kept(queue[i])'
    <3> SUFFICES ASSUME NEW i \in DOMAIN queue'
                 PROVE  Kept(queue[i])'
      OBVIOUS
    <3>1. CASE i = Len(queue) + 1
      <4>1. queue'[i] = job
        BY <1>1, <3>1
      <4> QED
        BY <2>2, <4>1 DEF Kept, Issued, Current
    <3>2. CASE i # Len(queue) + 1
      <4>1. i \in DOMAIN queue /\ queue'[i] = queue[i]
        BY <1>1, <3>2
      <4>2. queue[i] \in Job /\ Kept(queue[i])
        BY <4>1 DEF JobsKnown
      <4> QED
        BY <2>1, <4>1, <4>2 DEF Kept, Issued, Current
    <3> QED
      BY <3>1, <3>2
  <2> QED
    BY <1>1, <2>1, <2>3 DEF JobsKnown, Busy
<1>7. SafeSoFar'
  <2>2. Faithful(scrub[c])
    BY DEF SafeSoFar
  <2>1. Faithful(next)
    BY <1>2, <2>2 DEF Faithful
  <2> QED
    BY <1>1, <1>2, <2>1 DEF SafeSoFar
<1> QED
  BY <1>4, <1>5, <1>6, <1>7

\* The detector after the last one is not past the end.
LEMMA PastOne ==
    ASSUME NEW s \in Scrub, NEW text \in Text, At(s) < Len(Detectors)
    PROVE  LET p == Past(s, text) IN
           /\ p \in Scrub /\ ~p.waiting /\ p.ticket = s.ticket /\ p.todo = s.todo
           /\ p.from = s.from /\ p.done = s.done
           /\ p.text = IF s.warnings = <<>> THEN text ELSE s.text
<1>1. At(s) + 1 \in 0..Len(Detectors)
  BY InnermostString, WordAssumption
<1>2. CASE s.warnings = <<>>
  <2>1. Past(s, text) = [s EXCEPT !.at = At(s) + 1, !.text = text, !.waiting = FALSE]
    BY <1>2 DEF Past, PastDetector, At
  <2> QED
    BY <1>1, <1>2, <2>1 DEF Scrub
<1>3. CASE s.warnings # <<>>
  <2>1. PICK w : w = Append(Front(s.warnings), At(s) + 1)
    OBVIOUS
  <2>2. w \in Seq(0..Len(Detectors))
    BY <1>1, <1>3, <2>1, InnermostString, AppendProperties
  <2>3. Past(s, text) = [s EXCEPT !.warnings = w, !.waiting = FALSE]
    BY <1>3, <2>1 DEF Past, PastDetector, At
  <2> QED
    BY <1>3, <2>2, <2>3 DEF Scrub
<1> QED
  BY <1>2, <1>3

\* A warning nests in the others, or cuts some of them off.
LEMMA WarningsNest ==
    ASSUME NEW warnings \in Seq(0..Len(Detectors)), NEW w \in Warned(warnings)
    PROVE  w \in Seq(0..Len(Detectors))
<1>1. 0 \in 0..Len(Detectors)
  BY WordAssumption
<1>2. Append(warnings, 0) \in Seq(0..Len(Detectors))
  BY <1>1, AppendProperties
<1>3. ASSUME NEW k \in 0..Len(warnings)
      PROVE  SubSeq(warnings, 1, k) \in Seq(0..Len(Detectors))
  BY <1>3
<1> QED
  BY <1>2, <1>3 DEF Warned

\* Where a caller is between the start of a record's string and its end.
Further(c, next) ==
    /\ next \in Scrub /\ ~next.waiting
    /\ next.ticket = scrub[c].ticket /\ next.todo = scrub[c].todo
    /\ next.from = scrub[c].from /\ next.done = scrub[c].done
    /\ next.todo # <<>> => Redacted!SafeString(next.todo[1], next.text)

\* The text stays as safe as it was: it is a result the caller still waits for, or what the
\* caller had before.
LEMMA WaitEnds ==
    ASSUME FilterInv, NEW c \in Callers, Take(c) \/ TimeOut(c) \/ EndWarning(c)
    PROVE  /\ \E next : Further(c, next) /\ scrub' = [scrub EXCEPT ![c] = next]
           /\ UNCHANGED <<queue, running, future, written>>
<1> USE DEF FilterInv, Kinds
<1>1. /\ scrub[c] \in Scrub /\ scrub[c].text \in Text
      /\ scrub[c].todo # <<>> => Redacted!SafeString(scrub[c].todo[1], scrub[c].text)
  BY DEF Scrub, SafeSoFar, Faithful
<1>2. ASSUME NEW text \in Text, scrub[c].waiting,
             scrub[c].warnings = <<>> => Redacted!SafeString(scrub[c].todo[1], text)
      PROVE  Further(c, Past(scrub[c], text))
  <2>1. At(scrub[c]) < Len(Detectors)
    BY <1>2 DEF WaitsForDetector
  <2>2. PICK p : p = Past(scrub[c], text)
    OBVIOUS
  <2>3. /\ p \in Scrub /\ ~p.waiting /\ p.ticket = scrub[c].ticket /\ p.todo = scrub[c].todo
        /\ p.from = scrub[c].from /\ p.done = scrub[c].done
        /\ p.text = IF scrub[c].warnings = <<>> THEN text ELSE scrub[c].text
    BY <1>1, <2>1, <2>2, PastOne
  <2> QED
    BY <1>1, <1>2, <2>2, <2>3 DEF Further
<1>3. ASSUME NEW s, Further(c, s), NEW w \in Seq(0..Len(Detectors))
      PROVE  Further(c, [s EXCEPT !.warnings = w])
  BY <1>3 DEF Further, Scrub
<1>4. ASSUME GiveUp(c), scrub[c].waiting
      PROVE  \E next : Further(c, next) /\ scrub' = [scrub EXCEPT ![c] = next]
  <2>1. PICK s : s = Past(scrub[c], scrub[c].text)
    OBVIOUS
  <2>2. Further(c, s)
    BY <1>1, <1>2, <1>4, <2>1 DEF WaitsForDetector, Scrubbing
  <2>3. PICK w \in Warned(s.warnings) : scrub' = [scrub EXCEPT ![c] = [s EXCEPT !.warnings = w]]
    BY <1>4, <2>1 DEF GiveUp
  <2>4. w \in Seq(0..Len(Detectors))
    BY <2>2, <2>3, WarningsNest DEF Further, Scrub
  <2> QED
    BY <1>3, <2>2, <2>3, <2>4
<1>5. CASE Take(c)
  <2>1. PICK text : text = IF future[c] = <<>> THEN scrub[c].text ELSE future[c]
    OBVIOUS
  <2>2. text \in Text
    BY <1>1, <1>5, <2>1 DEF Take
  <2>3. scrub[c].warnings = <<>> => Redacted!SafeString(scrub[c].todo[1], text)
    BY <1>1, <1>5, <2>1 DEF Take, SafeSoFar, WaitsForDetector, Scrubbing
  <2>4. Further(c, Past(scrub[c], text))
    BY <1>2, <1>5, <2>2, <2>3 DEF Take
  <2> QED
    BY <1>4, <1>5, <2>1, <2>4 DEF Take
<1>6. CASE TimeOut(c)
  BY <1>4, <1>6 DEF TimeOut
<1>7. CASE EndWarning(c)
  <2>1. Front(scrub[c].warnings) \in Seq(0..Len(Detectors))
    BY <1>1, <1>7, InnermostString DEF EndWarning
  <2>2. Further(c, scrub[c])
    BY <1>1, <1>7 DEF EndWarning, Further
  <2>3. Further(c, [scrub[c] EXCEPT !.warnings = Front(scrub[c].warnings)])
    BY <1>3, <2>1, <2>2
  <2> QED
    BY <1>7, <2>3 DEF EndWarning
<1> QED
  BY <1>5, <1>6, <1>7 DEF Take, TimeOut, EndWarning

\* A result taken in time is that of the current job; a job given up is current no more.
LEMMA WaitStep ==
    ASSUME FilterInv, NEW c \in Callers, Take(c) \/ TimeOut(c) \/ EndWarning(c),
           UNCHANGED setting
    PROVE  FilterInv'
<1> USE DEF FilterInv, Kinds
<1>1. PICK next : Further(c, next) /\ scrub' = [scrub EXCEPT ![c] = next]
  BY WaitEnds
<1>2. UNCHANGED <<queue, running, future, written>>
  BY WaitEnds
<1>3. /\ next \in Scrub
      /\ ~next.waiting /\ next.ticket = scrub[c].ticket
      /\ next.todo = scrub[c].todo /\ next.from = scrub[c].from
      /\ next.done = scrub[c].done
      /\ next.todo # <<>> => Redacted!SafeString(next.todo[1], next.text)
  BY <1>1 DEF Further
<1>4. Kinds'
  BY <1>1, <1>2, <1>3
<1>5. WaitsForDetector'
  BY <1>1, <1>3 DEF WaitsForDetector, Scrubbing
<1>6. JobsKnown'
  <2>1. ASSUME NEW job \in Job, Kept(job)
        PROVE  Kept(job)'
    BY <1>1, <1>3, <2>1 DEF Kept, Issued, Current, Job, Scrub
  <2> QED
    BY <1>2, <2>1 DEF JobsKnown, Busy
<1>7. SafeSoFar'
  <2>0. Faithful(scrub[c])
    BY DEF SafeSoFar
  <2>1. Faithful(next)
    BY <1>3, <2>0 DEF Faithful
  <2> QED
    BY <1>1, <1>2, <1>3, <2>1 DEF SafeSoFar
<1> QED
  BY <1>4, <1>5, <1>6, <1>7

\* With a string done, the record is one string further, and written after the last one.
LEMMA StringDone ==
    ASSUME NEW from \in Records, NEW done \in Seq(Text), NEW todo \in Records, NEW text \in Text,
           todo # <<>>, Len(from) = Len(done) + Len(todo),
           \A i \in DOMAIN done : Redacted!SafeString(from[i], done[i]),
           \A i \in DOMAIN todo : todo[i] = from[Len(done) + i],
           Redacted!SafeString(todo[1], text)
    PROVE  LET more == Append(done, text) IN
           /\ more \in Seq(Text) /\ Tail(todo) \in Records
           /\ Len(from) = Len(more) + Len(Tail(todo))
           /\ \A i \in DOMAIN more : Redacted!SafeString(from[i], more[i])
           /\ \A i \in DOMAIN Tail(todo) : Tail(todo)[i] = from[Len(more) + i]
           /\ from # <<>>
           /\ Tail(todo) = <<>> <=> ~(Len(todo) > 1)
           /\ Tail(todo) = <<>> => Redacted!SafeRecord(from, more)
<1> USE DEF Records
<1> DEFINE more == Append(done, text)
           rest == Tail(todo)
<1>1. /\ Len(done) \in Nat /\ DOMAIN done = 1..Len(done)
      /\ Len(todo) \in Nat /\ Len(todo) >= 1 /\ DOMAIN todo = 1..Len(todo)
  OBVIOUS
<1>2. /\ rest \in Records /\ Len(rest) = Len(todo) - 1
      /\ \A i \in DOMAIN rest : rest[i] = todo[i + 1] /\ i + 1 \in DOMAIN todo
      /\ rest = <<>> <=> Len(rest) = 0
      /\ DOMAIN rest \subseteq Nat
  <2>1. rest \in Records /\ Len(rest) = Len(todo) - 1
    OBVIOUS
  <2>2. \A i \in DOMAIN rest : rest[i] = todo[i + 1] /\ i + 1 \in DOMAIN todo
    OBVIOUS
  <2> HIDE DEF rest
  <2>3. rest = <<>> <=> Len(rest) = 0
    BY <2>1, EmptySeq
  <2>4. DOMAIN rest = 1..Len(rest)
    BY <2>1, LenProperties
  <2>5. DOMAIN rest \subseteq Nat
    BY <1>1, <2>1, <2>4
  <2> QED
    BY <2>1, <2>2, <2>3, <2>5
<1>3. /\ more \in Seq(Text) /\ Len(more) = Len(done) + 1
      /\ \A i \in DOMAIN done : more[i] = done[i]
      /\ more[Len(done) + 1] = text
      /\ DOMAIN more = 1..(Len(done) + 1)
  BY <1>1, AppendProperties
<1> HIDE DEF more, rest
<1>4. Len(from) = Len(more) + Len(rest)
  BY <1>1, <1>2, <1>3
<1>5. from # <<>>
  <2>1. Len(from) # 0
    BY <1>1
  <2> QED
    BY <2>1
<1>6. from[Len(done) + 1] = todo[1]
  <2>1. 1 \in DOMAIN todo
    BY <1>1
  <2> QED
    BY <2>1
<1>7. \A i \in DOMAIN more : Redacted!SafeString(from[i], more[i])
  <2>1. \A i \in DOMAIN more : i \in DOMAIN done \/ i = Len(done) + 1
    BY <1>1, <1>3
  <2> QED
    BY <1>3, <1>6, <2>1
<1>8. ASSUME NEW i \in DOMAIN rest
      PROVE  rest[i] = from[Len(more) + i]
  <2>1. Len(more) + i = Len(done) + (i + 1) /\ i + 1 \in DOMAIN todo
    BY <1>1, <1>2, <1>3
  <2> QED
    BY <1>2, <2>1
<1>9. rest = <<>> <=> ~(Len(todo) > 1)
  BY <1>1, <1>2
<1>10. ASSUME rest = <<>>
       PROVE  Redacted!SafeRecord(from, more)
  <2>0. Len(rest) = 0
    BY <1>10
  <2>1. Len(more) = Len(from)
    BY <1>1, <1>3, <1>4, <2>0
  <2>2. DOMAIN more = DOMAIN from
    BY <1>1, <1>3, <2>1
  <2> QED
    BY <1>7, <2>1, <2>2 DEF Redacted!SafeRecord
<1> QED
  BY <1>2, <1>3, <1>4, <1>5, <1>7, <1>8, <1>9, <1>10 DEF more, rest

\* The string a caller finishes is safe, and the strings still to do stay in step.
LEMMA FinishIsSafe ==
    ASSUME FilterInv, NEW c \in Callers, Finish(c)
    PROVE  LET done == Append(scrub[c].done, scrub[c].text)
               todo == Tail(scrub[c].todo)
           IN  /\ done \in Seq(Text) /\ todo \in Records
               /\ Len(scrub[c].from) = Len(done) + Len(todo)
               /\ \A i \in DOMAIN done : Redacted!SafeString(scrub[c].from[i], done[i])
               /\ \A i \in DOMAIN todo : todo[i] = scrub[c].from[Len(done) + i]
               /\ scrub[c].from # <<>>
               /\ todo = <<>> <=> ~(Len(scrub[c].todo) > 1)
               /\ todo = <<>> => Redacted!SafeRecord(scrub[c].from, done)
<1>0. PICK from, done, todo, text : /\ from = scrub[c].from /\ done = scrub[c].done
                                    /\ todo = scrub[c].todo /\ text = scrub[c].text
  OBVIOUS
<1>1. /\ todo \in Records /\ from \in Records /\ todo # <<>>
      /\ done \in Seq(Text) /\ text \in Text
  BY <1>0 DEF FilterInv, Kinds, Scrub, Finish, Scrubbing
<1>2. /\ Len(from) = Len(done) + Len(todo)
      /\ \A i \in DOMAIN done : Redacted!SafeString(from[i], done[i])
      /\ \A i \in DOMAIN todo : todo[i] = from[Len(done) + i]
      /\ Redacted!SafeString(todo[1], text)
  BY <1>0, <1>1 DEF FilterInv, SafeSoFar, Faithful
<1>3. LET more == Append(done, text) IN
      /\ more \in Seq(Text) /\ Tail(todo) \in Records
      /\ Len(from) = Len(more) + Len(Tail(todo))
      /\ \A i \in DOMAIN more : Redacted!SafeString(from[i], more[i])
      /\ \A i \in DOMAIN Tail(todo) : Tail(todo)[i] = from[Len(more) + i]
      /\ from # <<>>
      /\ Tail(todo) = <<>> <=> ~(Len(todo) > 1)
      /\ Tail(todo) = <<>> => Redacted!SafeRecord(from, more)
  BY <1>1, <1>2, StringDone
<1> QED
  BY <1>0, <1>3

\* The next string of the record starts from its own text.
LEMMA FinishStep ==
    ASSUME FilterInv, NEW c \in Callers, Finish(c), UNCHANGED setting
    PROVE  FilterInv'
<1> USE DEF FilterInv, Kinds
<1> DEFINE done == Append(scrub[c].done, scrub[c].text)
           todo == Tail(scrub[c].todo)
           more == [scrub[c] EXCEPT !.done = done]
           next == Begin(more, todo)
<1>1. /\ scrub' = [scrub EXCEPT ![c] = next]
      /\ UNCHANGED <<queue, running, future>>
      /\ DOMAIN written' = Callers
      /\ ~scrub[c].waiting
  BY DEF Finish
<1>2. /\ more \in Scrub /\ more.done = done /\ more.from = scrub[c].from
      /\ more.waiting = scrub[c].waiting /\ more.ticket = scrub[c].ticket
  <2>1. scrub[c] \in Scrub /\ done \in Seq(Text)
    BY FinishIsSafe
  <2> HIDE DEF done
  <2> QED
    BY <2>1 DEF Scrub
<1>3. /\ next \in Scrub
      /\ ~next.waiting /\ next.ticket = scrub[c].ticket /\ next.from = scrub[c].from
      /\ next.todo = todo /\ next.done = done
      /\ todo # <<>> => Redacted!SafeString(todo[1], next.text)
  <2>1. todo \in Records
    BY FinishIsSafe
  <2> HIDE DEF more, todo, done
  <2> QED
    BY <1>1, <1>2, <2>1, BeginIsSafe
<1>4. Faithful(next)
  <2>1. /\ Len(scrub[c].from) = Len(done) + Len(todo)
        /\ \A i \in DOMAIN done : Redacted!SafeString(scrub[c].from[i], done[i])
        /\ \A i \in DOMAIN todo : todo[i] = scrub[c].from[Len(done) + i]
    BY FinishIsSafe, ZenonT(30)
  <2> HIDE DEF next, done, todo
  <2> QED
    BY <1>3, <2>1, Zenon DEF Faithful
<1> HIDE DEF done, todo, more, next
<1>5. Kinds'
  BY <1>1, <1>3
<1>6. WaitsForDetector'
  BY <1>1, <1>3 DEF WaitsForDetector, Scrubbing
<1>7. JobsKnown'
  <2>1. ASSUME NEW job \in Job, Kept(job)
        PROVE  Kept(job)'
    BY <1>1, <1>3, <2>1 DEF Kept, Issued, Current, Job, Scrub
  <2> QED
    BY <1>1, <2>1 DEF JobsKnown, Busy
<1>8. SafeSoFar'
  BY <1>1, <1>3, <1>4 DEF SafeSoFar
<1> QED
  BY <1>5, <1>6, <1>7, <1>8

\* A job keeps its text when a pool thread takes it.
LEMMA StartStep ==
    ASSUME FilterInv, NEW w \in PoolThreads, Start(w), UNCHANGED setting
    PROVE  FilterInv'
<1> USE DEF FilterInv, Kinds
<1>1. /\ queue # <<>> /\ queue' = Tail(queue) /\ running' = [running EXCEPT ![w] = queue[1]]
      /\ UNCHANGED <<scrub, future, written>>
  BY DEF Start
<1>2. /\ queue' \in Seq(Job) /\ queue[1] \in Job /\ 1 \in DOMAIN queue
      /\ \A i \in DOMAIN queue' : i + 1 \in DOMAIN queue /\ queue'[i] = queue[i + 1]
  BY <1>1
<1>3. Kinds'
  BY <1>1, <1>2
<1>4. JobsKnown'
  BY <1>1, <1>2 DEF JobsKnown, Busy, Kept, Issued, Current
<1> QED
  BY <1>1, <1>3, <1>4 DEF WaitsForDetector, SafeSoFar, Scrubbing

\* A detector's result is a safe form of the text of its job.
LEMMA ResultStep ==
    ASSUME FilterInv, NEW w \in PoolThreads, Result(w), UNCHANGED setting
    PROVE  FilterInv'
<1> USE DEF FilterInv, Kinds
<1> DEFINE job == running[w]
<1>1. job \in Job /\ Kept(job) /\ w \in Busy
  BY DEF Result, Busy, JobsKnown
<1>2. PICK result \in {Detected(job.detector, job.text), <<>>} :
        future' = IF Current(job) THEN [future EXCEPT ![job.caller] = result] ELSE future
  BY DEF Result, Current
<1>3. /\ running' = [running EXCEPT ![w] = Nobody]
      /\ UNCHANGED <<queue, scrub, written>>
  BY DEF Result
<1>4. result \in Text
  <2>1. <<>> \in Text /\ job.detector \in DOMAIN Detectors /\ job.text \in Text
    BY <1>1 DEF Job, Text
  <2> QED
    BY <1>2, <2>1, DetectedIsSafe
<1>5. Kinds'
  BY <1>1, <1>2, <1>3, <1>4 DEF Job
<1>6. JobsKnown'
  BY <1>3 DEF JobsKnown, Busy, Kept, Issued, Current
<1>7. SafeSoFar'
  <2>1. ASSUME Current(job), scrub[job.caller].warnings = <<>>, result # <<>>
        PROVE  Redacted!SafeString(scrub[job.caller].todo[1], result)
    <3>1. /\ scrub[job.caller].todo # <<>> /\ scrub[job.caller].todo \in Records
          /\ job.caller \in Callers /\ job.text = scrub[job.caller].text /\ job.text \in Text
          /\ job.detector \in DOMAIN Detectors
      BY <1>1, <2>1 DEF Current, Kept, WaitsForDetector, Scrubbing, Job, Scrub
    <3>2. scrub[job.caller].todo[1] \in Seq(Words)
      BY <3>1 DEF Records
    <3>3. Redacted!SafeString(scrub[job.caller].todo[1], job.text)
      BY <3>1 DEF SafeSoFar, Faithful
    <3> QED
      BY <1>2, <2>1, <3>1, <3>2, <3>3, DetectedIsSafe
  <2>2. ASSUME NEW c \in Callers, scrub[c].waiting, scrub[c].warnings = <<>>,
               future'[c] \notin {Nobody, <<>>}
        PROVE  Redacted!SafeString(scrub[c].todo[1], future'[c])
    BY <1>1, <1>2, <2>1, <2>2 DEF SafeSoFar, Job
  <2> QED
    BY <1>3, <2>2 DEF SafeSoFar
<1> QED
  BY <1>3, <1>5, <1>6, <1>7 DEF WaitsForDetector, Scrubbing

-----------------------------------------------------------------------------

\* Nobody scrubs at first.
LEMMA FilterInit == Init => FilterInv
<1> SUFFICES ASSUME Init
             PROVE  FilterInv
  OBVIOUS
<1> USE DEF Init, PoolInit
<1>1. Idle \in Scrub
  BY WordAssumption DEF Idle, Scrub, Records, Text
<1>2. Kinds
  BY <1>1 DEF Kinds
<1> QED
  BY <1>2 DEF FilterInv, WaitsForDetector, JobsKnown, Busy, SafeSoFar, Faithful, Idle

\* The steps of the process that the filter has no part in.
Elsewhere ==
    \/ \E c \in setting.threads : Summarise(c) \/ SummariseRaises(c)
    \/ Case \/ CrashedCase \/ Report

\* What a step of the process is to the filter: one of its own steps, or nothing.
LEMMA StageSteps ==
    ASSUME FilterInv, Next
    PROVE  /\ UNCHANGED setting
           /\ \/ \E c \in Callers : \E record \in Records : Log(c, record)
              \/ \E c \in Callers : Caller(c)
              \/ \E w \in PoolThreads : Start(w) \/ Result(w)
              \/ UNCHANGED poolVars
<1>1. setting \in Settings /\ setting.threads \subseteq Callers /\ setting.records \subseteq Records
  BY SettingAssumption DEF FilterInv, Kinds
<1>2. CASE \E c \in setting.threads : LogRecord(c)
  BY <1>1, <1>2 DEF LogRecord
<1>3. CASE \E c \in setting.threads : Filtering(c)
  BY <1>1, <1>3 DEF Filtering, stageVars
<1>4. CASE \E w \in PoolThreads : Detecting(w)
  BY <1>4 DEF Detecting, stageVars
<1>5. CASE Elsewhere
  BY <1>5 DEF Elsewhere, Summarise, SummariseRaises, Case, CrashedCase, RunCase, Report
<1> QED
  BY <1>2, <1>3, <1>4, <1>5 DEF Next, Elsewhere

\* The steps above together.
LEMMA FilterStep == FilterInv /\ [Next]_vars => FilterInv'
<1> SUFFICES ASSUME FilterInv, [Next]_vars
             PROVE  FilterInv'
  OBVIOUS
<1>1. ASSUME UNCHANGED <<poolVars, setting>>
      PROVE  FilterInv'
  BY <1>1 DEF poolVars, FilterInv, Kinds, WaitsForDetector, JobsKnown, Busy, Kept, Issued,
              Current, SafeSoFar, Scrubbing
<1>2. CASE UNCHANGED vars
  BY <1>1, <1>2 DEF vars, stageVars
<1>3. CASE Next
  BY <1>1, <1>3, StageSteps, LogStep, SubmitStep, WaitStep, FinishStep, StartStep, ResultStep
     DEF Caller
<1> QED
  BY <1>2, <1>3

-----------------------------------------------------------------------------

\* Only Log and Finish change what the redacting log sees.
Writing == [c \in Callers |-> IF Scrubbing(c) THEN scrub[c].from ELSE <<>>]

\* Between the two ends of a record nothing shows.
LEMMA QuietStep ==
    ASSUME FilterInv, NEW c \in Callers, Submit(c) \/ Take(c) \/ TimeOut(c) \/ EndWarning(c)
    PROVE  UNCHANGED <<Writing, written>>
<1>1. /\ scrub \in [Callers -> Scrub]
      /\ UNCHANGED written
  BY DEF FilterInv, Kinds, Submit, Take, TimeOut, EndWarning
<1>2. \A d \in Callers : scrub'[d].todo = scrub[d].todo /\ scrub'[d].from = scrub[d].from
  <2>1. CASE Submit(c)
    BY <1>1, <2>1 DEF Submit, Scrub
  <2>2. CASE Take(c) \/ TimeOut(c) \/ EndWarning(c)
    <3>1. PICK next : Further(c, next) /\ scrub' = [scrub EXCEPT ![c] = next]
      BY <2>2, WaitEnds
    <3> QED
      BY <1>1, <3>1 DEF Further
  <2> QED
    BY <2>1, <2>2
<1> QED
  BY <1>1, <1>2 DEF Writing, Scrubbing

\* A record that is logged is one the abstract log takes.
LEMMA LogRefines ==
    ASSUME FilterInv, NEW c \in Callers, NEW record \in Records, Log(c, record)
    PROVE  Redacted!Log(c) \/ UNCHANGED <<Writing, written>>
<1>1. scrub \in [Callers -> Scrub] /\ UNCHANGED written /\ ~Scrubbing(c)
  BY DEF FilterInv, Kinds, Log
<1>2. scrub'[c].todo = record /\ scrub'[c].from = record
  BY <1>1 DEF Log, Begin, Scrub
<1>3. \A d \in Callers \ {c} : scrub'[d] = scrub[d]
  BY <1>1 DEF Log
<1>4. Writing' = [Writing EXCEPT ![c] = record]
  BY <1>2, <1>3 DEF Writing, Scrubbing
<1>5. Writing[c] = <<>>
  BY <1>1 DEF Writing
<1>6. CASE record = <<>>
  BY <1>1, <1>4, <1>5, <1>6 DEF Writing
<1>7. CASE record # <<>>
  <2>1. Writing'[c] = record
    BY <1>4 DEF Writing
  <2> QED
    BY <1>1, <1>4, <1>5, <1>7, <2>1 DEF Redacted!Log, Writing
<1> QED
  BY <1>6, <1>7

\* The last string writes the record; the others do not show.
LEMMA FinishRefines ==
    ASSUME FilterInv, NEW c \in Callers, Finish(c)
    PROVE  Redacted!Write(c) \/ UNCHANGED <<Writing, written>>
<1> DEFINE done == Append(scrub[c].done, scrub[c].text)
           todo == Tail(scrub[c].todo)
<1>1. /\ scrub \in [Callers -> Scrub] /\ Scrubbing(c) /\ DOMAIN written = Callers
      /\ scrub[c].todo \in Records /\ scrub[c].from \in Records
  BY DEF FilterInv, Kinds, Finish, Scrub
<1>2. scrub'[c].todo = todo /\ scrub'[c].from = scrub[c].from
  BY <1>1 DEF Finish, Begin, Scrub
<1>3. \A d \in Callers \ {c} : scrub'[d] = scrub[d]
  BY <1>1 DEF Finish
<1>6. /\ scrub[c].from # <<>>
      /\ todo = <<>> <=> ~(Len(scrub[c].todo) > 1)
      /\ todo = <<>> => Redacted!SafeRecord(scrub[c].from, done)
  BY FinishIsSafe
<1>4. CASE Len(scrub[c].todo) > 1
  <2>1. todo # <<>> /\ UNCHANGED written
    BY <1>4, <1>6 DEF Finish
  <2> HIDE DEF todo
  <2> QED
    BY <1>1, <1>2, <1>3, <2>1 DEF Writing, Scrubbing
<1>5. CASE ~(Len(scrub[c].todo) > 1)
  <2>1. todo = <<>>
    BY <1>5, <1>6
  <2>2. Writing' = [Writing EXCEPT ![c] = <<>>] /\ Writing[c] = scrub[c].from
    BY <1>1, <1>2, <1>3, <2>1 DEF Writing, Scrubbing
  <2>3. written' = [written EXCEPT ![c] = [from |-> scrub[c].from, to |-> done]]
    BY <1>5 DEF Finish
  <2>4. scrub[c].from # <<>>
    BY <1>6
  <2>5. Redacted!SafeRecord(scrub[c].from, done)
    BY <1>6, <2>1
  <2> HIDE DEF done, todo
  <2>6. written'[c] = [from |-> scrub[c].from, to |-> done]
    BY <1>1, <2>3
  <2>7. Writing' = [Writing EXCEPT ![c] = <<>>] /\ written' = [written EXCEPT ![c] = written'[c]]
    BY <2>2, <2>3, <2>6
  <2>8. written'[c].from = Writing[c] /\ Redacted!SafeRecord(Writing[c], written'[c].to)
    BY <2>2, <2>5, <2>6
  <2> QED
    BY <2>2, <2>4, <2>7, <2>8 DEF Redacted!Write, Writing
<1> QED
  BY <1>4, <1>5

\* Every step of the stage is a step of the abstract log or does not show.
LEMMA StepRefines ==
    ASSUME FilterInv, [Next]_vars
    PROVE  [Redacted!Next]_<<Writing, written>>
<1>1. ASSUME UNCHANGED <<scrub, written>>
      PROVE  UNCHANGED <<Writing, written>>
  BY <1>1 DEF Writing, Scrubbing
<1>2. CASE UNCHANGED vars
  BY <1>1, <1>2 DEF vars, poolVars
<1>3. ASSUME NEW c \in Callers, NEW record \in Records, Log(c, record)
      PROVE  [Redacted!Next]_<<Writing, written>>
  BY <1>3, LogRefines DEF Redacted!Next
<1>4. ASSUME NEW c \in Callers, Caller(c)
      PROVE  [Redacted!Next]_<<Writing, written>>
  BY <1>4, QuietStep, FinishRefines DEF Redacted!Next, Caller
<1>5. ASSUME NEW w \in PoolThreads, Start(w) \/ Result(w)
      PROVE  UNCHANGED <<Writing, written>>
  BY <1>1, <1>5 DEF Start, Result
<1>6. CASE UNCHANGED poolVars
  BY <1>1, <1>6 DEF poolVars
<1> QED
  BY <1>2, <1>3, <1>4, <1>5, <1>6, StageSteps

\* pii_filter.py:118-121, "the GUARANTEED floor": the log filter writes each record once,
\* its strings in their order and every word redacted wherever a rule hits it, whichever
\* detectors hang, raise or answer late, and however calls and pool threads interleave.
THEOREM FilterRedacts == Spec => ImplementsRedactedLog
<1>1. Init => Redacted!Init
  BY DEF Init, PoolInit, Idle, Scrubbing, Redacted!Init
<1>2. FilterInv /\ [Next]_vars => [Redacted!Next]_(Redacted!vars)
  BY StepRefines DEF Redacted!vars, Writing
<1> QED
  BY <1>1, <1>2, FilterInit, FilterStep, PTL DEF Spec, ImplementsRedactedLog, Redacted!Spec

-----------------------------------------------------------------------------
(* The benchmark: the scores of a case, for all rows.                      *)

Table == Seq(Seq(Cells))

\* Normalising keeps the number of rows, and there are finitely many of them.
LEMMA NormalisedRows ==
    ASSUME NEW rows \in Table
    PROVE  /\ DOMAIN NormRows(rows) = DOMAIN rows
           /\ IsFiniteSet(DOMAIN rows) /\ IsFiniteSet(ToSet(NormRows(rows)))
           /\ rows = <<>> <=> ToSet(NormRows(rows)) = {}
<1> DEFINE norm == NormRows(rows)
<1>1. DOMAIN norm = DOMAIN rows
  BY DEF NormRows
<1>2. DOMAIN rows = 1..Len(rows) /\ Len(rows) \in Nat
  BY LenProperties DEF Table
<1>3. IsFiniteSet(DOMAIN rows)
  BY <1>2, FS_Interval
<1> HIDE DEF norm
<1>4. IsFiniteSet(ToSet(norm))
  <2>1. norm \in Surjection(DOMAIN norm, ToSet(norm))
    BY DEF Surjection, ToSet, norm, NormRows
  <2> QED
    BY <1>1, <1>3, <2>1, FS_Surjection
<1>5. ToSet(norm) = {} <=> DOMAIN rows = {}
  BY <1>1 DEF ToSet
<1>6. rows = <<>> <=> Len(rows) = 0
  BY EmptySeq DEF Table
<1>7. DOMAIN rows = {} <=> Len(rows) = 0
  BY <1>2
<1> QED
  BY <1>1, <1>3, <1>4, <1>5, <1>6, <1>7 DEF norm

\* Rows that match in the same order or as often as each other are the same rows.
LEMMA ExecutionImpliesSet ==
    ASSUME NEW expected \in Table, NEW actual \in Table, NEW ordered,
           ExecutionAccuracy(expected, actual, ordered)
    PROVE  ExactSetMatch(expected, actual)
<1> DEFINE e == NormRows(expected)
           a == NormRows(actual)
           Places(rows, row) == {i \in DOMAIN rows : rows[i] = row}
<1>1. CASE ordered
  BY <1>1 DEF ExecutionAccuracy, ExactSetMatch
<1>2. CASE ~ordered
  <2>1. \A row \in ToSet(e) \union ToSet(a) :
          Cardinality(Places(e, row)) = Cardinality(Places(a, row))
    BY <1>2 DEF ExecutionAccuracy
  <2>2. ASSUME NEW row
        PROVE  /\ IsFiniteSet(Places(e, row)) /\ IsFiniteSet(Places(a, row))
               /\ row \in ToSet(e) <=> Places(e, row) # {}
               /\ row \in ToSet(a) <=> Places(a, row) # {}
    <3>1. IsFiniteSet(DOMAIN e) /\ IsFiniteSet(DOMAIN a)
      BY NormalisedRows
    <3> HIDE DEF e, a
    <3> QED
      BY <3>1, FS_Subset DEF ToSet
  <2> HIDE DEF e, a, Places
  <2>3. \A row \in ToSet(e) \union ToSet(a) : row \in ToSet(e) /\ row \in ToSet(a)
    BY <2>1, <2>2, FS_EmptySet
  <2> QED
    BY <2>3 DEF ExactSetMatch, e, a
<1> QED
  BY <1>1, <1>2

\* Numbers doubled, times a number, as their product.
LEMMA Doubled ==
    ASSUME NEW r \in Int, NEW d \in Nat
    PROVE  r * d \in Int /\ 2 * r * d = 2 * (r * d) /\ (r + 1) * d = r * d + d
OBVIOUS

\* A rounded ratio is within half a unit of it, and even when it is half a unit off.
HalfAway(r, n, d) == 2 * (r * d) = 2 * n + d \/ 2 * n = 2 * (r * d) + d
LEMMA Rounded ==
    ASSUME NEW n \in Nat, NEW d \in Nat \ {0}
    PROVE  /\ Round(n, d) \in Nat
           /\ Nearest(Round(n, d), n, d)
           /\ HalfAway(Round(n, d), n, d) => Round(n, d) % 2 = 0
<1>1. PICK q \in Nat, e \in Nat, p \in Nat :
        q = n \div d /\ e = n % d /\ p = q * d /\ n = p + e /\ e < d
  <2>1. n \div d \in Nat /\ n % d \in Nat /\ n % d < d /\ n = d * (n \div d) + (n % d)
    OBVIOUS
  <2>2. PICK q \in Nat, e \in Nat : q = n \div d /\ e = n % d
    BY <2>1
  <2>3. q * d \in Nat /\ d * q = q * d
    OBVIOUS
  <2> QED
    BY <2>1, <2>2, <2>3
<1>2. PICK r : r = Round(n, d)
  OBVIOUS
<1>3. CASE 2 * e < d \/ (2 * e = d /\ q % 2 = 0)
  <2>1. r = q
    BY <1>1, <1>2, <1>3 DEF Round
  <2>2. 2 * r * d = 2 * p /\ r * d = p
    BY <1>1, <2>1, Doubled
  <2> QED
    BY <1>1, <1>2, <1>3, <2>1, <2>2 DEF Nearest, HalfAway
<1>4. CASE ~(2 * e < d \/ (2 * e = d /\ q % 2 = 0))
  <2>1. r = q + 1 /\ r \in Nat
    BY <1>1, <1>2, <1>4 DEF Round
  <2>2. r * d = p + d
    BY <1>1, <2>1, Doubled
  <2>3. 2 * r * d = 2 * (p + d)
    BY <2>1, <2>2, Doubled
  <2>4. 2 * e = d => r % 2 = 0
    BY <1>4, <2>1
  <2>5. 2 * e >= d
    BY <1>1, <1>4
  <2>6. Nearest(r, n, d)
    BY <1>1, <2>3, <2>5 DEF Nearest
  <2>7. HalfAway(r, n, d) => 2 * e = d
    BY <1>1, <2>2 DEF HalfAway
  <2> QED
    BY <1>2, <2>1, <2>4, <2>6, <2>7
<1> QED
  BY <1>3, <1>4

\* Products of a number and each side.
LEMMA Times ==
    ASSUME NEW a \in Int, NEW b \in Int, a <= b, NEW k \in Nat
    PROVE  a * k <= b * k /\ a * k \in Int /\ b * k \in Int
OBVIOUS

\* A common factor cancels out.
LEMMA Cancelled ==
    ASSUME NEW i \in Nat, NEW j \in Nat, NEW k \in Nat \ {0}, i * k = j * k
    PROVE  i = j
OBVIOUS

\* Rounding keeps the order of two ratios.
LEMMA RoundGrows ==
    ASSUME NEW n \in Nat, NEW d \in Nat \ {0}, NEW m \in Nat, NEW e \in Nat \ {0},
           n * e <= m * d
    PROVE  Round(n, d) <= Round(m, e)
<1>1. PICK r \in Nat : /\ r = Round(n, d) /\ 2 * (r * d) <= 2 * n + d
                       /\ HalfAway(r, n, d) => r % 2 = 0
  <2>1. PICK r \in Nat : /\ r = Round(n, d) /\ Nearest(r, n, d)
                         /\ HalfAway(r, n, d) => r % 2 = 0
    BY Rounded
  <2>2. 2 * r * d = 2 * (r * d)
    BY Doubled
  <2>3. 2 * (r * d) <= 2 * n + d
    BY <2>1, <2>2 DEF Nearest
  <2> QED
    BY <2>1, <2>3
<1>2. PICK s \in Nat : /\ s = Round(m, e) /\ 2 * m <= 2 * (s * e) + e
                       /\ HalfAway(s, m, e) => s % 2 = 0
  <2>1. PICK s \in Nat : /\ s = Round(m, e) /\ Nearest(s, m, e)
                         /\ HalfAway(s, m, e) => s % 2 = 0
    BY Rounded
  <2>2. 2 * s * e = 2 * (s * e)
    BY Doubled
  <2>3. 2 * m <= 2 * (s * e) + e
    BY <2>1, <2>2 DEF Nearest
  <2> QED
    BY <2>1, <2>3
<1>3. SUFFICES ASSUME r > s PROVE FALSE
  BY <1>1, <1>2
<1>4. PICK h \in Nat : h = s + 1 /\ h <= r
  BY <1>3
<1>5. PICK x \in Nat, y \in Nat : x = n * e /\ y = m * d /\ x <= y
  OBVIOUS
<1>6. PICK z \in Nat : z = d * e /\ z # 0
  OBVIOUS
<1>7. PICK t \in Nat, u \in Nat : t = (r * d) * e /\ u = (s * e) * d
  OBVIOUS
<1>8. 2 * t <= 2 * x + z
  <2>1. PICK i \in Nat, j \in Nat : i = 2 * (r * d) /\ j = 2 * n + d /\ i <= j
    BY <1>1
  <2>2. i * e <= j * e
    BY <2>1, Times
  <2>3. i * e = 2 * t /\ j * e = 2 * x + z
    BY <1>5, <1>6, <1>7, <2>1
  <2> QED
    BY <2>2, <2>3
<1>9. 2 * y <= 2 * u + z
  <2>1. PICK i \in Nat, j \in Nat : i = 2 * m /\ j = 2 * (s * e) + e /\ i <= j
    BY <1>2
  <2>2. i * d <= j * d
    BY <2>1, Times
  <2>3. i * d = 2 * y /\ j * d = 2 * u + z
    BY <1>5, <1>6, <1>7, <2>1
  <2> QED
    BY <2>2, <2>3
<1>10. t = r * z /\ u = s * z
  BY <1>6, <1>7
<1>11. u + z <= t
  <2>1. h * z <= r * z
    BY <1>4, Times
  <2>2. h * z = s * z + z
    BY <1>4, Doubled
  <2> QED
    BY <1>10, <2>1, <2>2
<1>12. t = u + z /\ x = y /\ 2 * t = 2 * x + z /\ 2 * y = 2 * u + z
  BY <1>5, <1>8, <1>9, <1>11
<1>13. r = s + 1
  <2>1. SUFFICES ASSUME h + 1 <= r PROVE FALSE
    BY <1>4
  <2>2. (h + 1) * z <= r * z
    BY <2>1, Times
  <2>3. (h + 1) * z = s * z + z + z
    <3>1. (h + 1) * z = h * z + z
      BY Doubled
    <3>2. h * z = s * z + z
      BY <1>4, Doubled
    <3> QED
      BY <3>1, <3>2
  <2> QED
    BY <1>6, <1>7, <1>10, <1>12, <2>2, <2>3
<1>14. HalfAway(r, n, d)
  <2>1. PICK i \in Nat, j \in Nat : i = 2 * (r * d) /\ j = 2 * n + d
    OBVIOUS
  <2>2. i * e = 2 * t /\ j * e = 2 * x + z
    BY <1>5, <1>6, <1>7, <2>1
  <2>3. i = j
    BY <1>12, <2>1, <2>2, Cancelled
  <2> QED
    BY <2>1, <2>3 DEF HalfAway
<1>15. HalfAway(s, m, e)
  <2>1. PICK i \in Nat, j \in Nat : i = 2 * m /\ j = 2 * (s * e) + e
    OBVIOUS
  <2>2. i * d = 2 * y /\ j * d = 2 * u + z
    BY <1>5, <1>6, <1>7, <2>1
  <2>3. i = j
    BY <1>12, <2>1, <2>2, Cancelled
  <2> QED
    BY <2>1, <2>3 DEF HalfAway
<1> QED
  BY <1>1, <1>2, <1>13, <1>14, <1>15

\* Arithmetic of Ratio: all of n is 10000 ten-thousandths.
LEMMA WholeShare ==
    ASSUME NEW n \in Nat \ {0}
    PROVE  Round(10000 * n, n) = 10000 /\ Round(10000 * 0, n) = 0
<1>1. (10000 * n) \div n = 10000 /\ (10000 * n) % n = 0 /\ 0 \div n = 0 /\ 0 % n = 0
  OBVIOUS
<1> QED
  BY <1>1 DEF Round

\* Equal sets of rows are a partial match of 10000.
LEMMA SetImpliesPartial ==
    ASSUME NEW expected \in Table, NEW actual \in Table, ExactSetMatch(expected, actual)
    PROVE  PartialMatch(expected, actual) = 10000
<1> DEFINE e == ToSet(NormRows(expected))
           a == ToSet(NormRows(actual))
<1>1. e = a
  BY DEF ExactSetMatch
<1>2. CASE e = {}
  <2>1. actual = <<>>
    BY <1>1, <1>2, NormalisedRows
  <2> QED
    BY <1>2, <2>1 DEF PartialMatch
<1>3. CASE e # {}
  <2>1. Cardinality(e) \in Nat \ {0}
    BY <1>3, NormalisedRows, FS_CardinalityType, FS_EmptySet
  <2>2. e \intersect a = e
    BY <1>1
  <2> DEFINE Share(k, n) == Round(10000 * k, n)
  <2>3. PartialMatch(expected, actual) = Share(Cardinality(e \intersect a), Cardinality(e))
    BY <1>3 DEF PartialMatch
  <2>4. Share(Cardinality(e), Cardinality(e)) = 10000
    <3> HIDE DEF e
    <3> QED
      BY <2>1, WholeShare
  <2> HIDE DEF e, a, Share
  <2> QED
    BY <2>2, <2>3, <2>4
<1> QED
  BY <1>2, <1>3

\* Without rows nothing is found of a query that has some.
LEMMA NoRowsFail ==
    ASSUME NEW expected \in Table, expected # <<>>, NEW ordered
    PROVE  /\ PartialMatch(expected, <<>>) = 0
           /\ ~ExecutionAccuracy(expected, <<>>, ordered)
<1> DEFINE e == ToSet(NormRows(expected))
           Share(k, n) == Round(10000 * k, n)
<1>1. ToSet(NormRows(<<>>)) = {} /\ <<>> \in Table
  BY DEF ToSet, NormRows, Table
<1>2. e # {} /\ IsFiniteSet(e)
  BY NormalisedRows
<1>3. Cardinality(e) \in Nat \ {0} /\ Cardinality({}) = 0
  BY <1>2, FS_CardinalityType, FS_EmptySet
<1>4. PartialMatch(expected, <<>>) = Share(Cardinality({}), Cardinality(e))
  <2>1. e \intersect ToSet(NormRows(<<>>)) = {}
    BY <1>1
  <2>2. PartialMatch(expected, <<>>)
          = Share(Cardinality(e \intersect ToSet(NormRows(<<>>))), Cardinality(e))
    BY <1>2 DEF PartialMatch
  <2> HIDE DEF e, Share
  <2> QED
    BY <2>1, <2>2
<1>5. PartialMatch(expected, <<>>) = 0
  <2>1. Share(0, Cardinality(e)) = 0
    <3> HIDE DEF e
    <3> QED
      BY <1>3, WholeShare
  <2> HIDE DEF e, Share
  <2> QED
    BY <1>3, <1>4, <2>1
<1>6. ~ExactSetMatch(expected, <<>>)
  BY <1>1, <1>2 DEF ExactSetMatch
<1> QED
  BY <1>1, <1>5, <1>6, ExecutionImpliesSet

\* Rows match themselves, in order and out of it.
LEMMA SameRowsMatch ==
    ASSUME NEW rows, NEW ordered
    PROVE  ExecutionAccuracy(rows, rows, ordered)
BY DEF ExecutionAccuracy

\* The golden queries are where score_case reads them, and so are their rows.
LEMMA GoldenQuery ==
    ASSUME setting \in Settings, NEW n \in 1..Len(setting.golden)
    PROVE  /\ setting.golden[n].rows \in Table /\ setting.golden[n].sql # {}
           /\ Len(setting.golden) \in Nat
<1>1. setting.golden \in Seq(ToSet(setting.golden))
  BY SettingAssumption
<1>2. DOMAIN setting.golden = 1..Len(setting.golden) /\ Len(setting.golden) \in Nat
  BY <1>1, LenProperties
<1> QED
  BY <1>2, SettingAssumption DEF Table

\* Whatever an agent answers, its rows are rows of a result.
LEMMA OutputRows ==
    ASSUME setting \in Settings, NEW query, query.rows \in Table, query.sql # {},
           NEW output \in Outputs(query) \union {Output({}, <<>>, 0, TRUE)}
    PROVE  /\ output.rows \in Table
           /\ output.crashed => output.rows = <<>>
           /\ setting.agent = "stub" /\ output \in Outputs(query) =>
                output.rows = query.rows /\ output.sql = query.sql
<1>1. <<>> \in Table
  BY DEF Table
<1>2. CASE output = Output({}, <<>>, 0, TRUE) /\ output \notin Outputs(query)
  BY <1>1, <1>2 DEF Output
<1>3. CASE setting.agent = "pipeline" /\ output \in Outputs(query)
  <2>0. Outputs(query)
          = {Output(result.sql, Rows(result.table), 0, FALSE) : result \in setting.results}
    BY <1>3 DEF Outputs
  <2>1. PICK result \in setting.results :
          output = Output(result.sql, Rows(result.table), 0, FALSE)
    BY <1>3, <2>0
  <2>2. Rows(result.table) \in Table
    BY <1>1, SettingAssumption DEF Rows, Table
  <2> QED
    BY <1>3, <2>1, <2>2 DEF Output
<1>4. CASE setting.agent = "mock" /\ output \in Outputs(query)
  <2>1. query.rows # <<>> => Front(query.rows) \in Table
    <3>1. Len(query.rows) \in Nat
      BY LenProperties DEF Table
    <3>2. \/ 1 \in 1..Len(query.rows)+1 /\ Len(query.rows) - 1 \in 0..Len(query.rows)
          \/ query.rows = <<>>
      BY <3>1, EmptySeq DEF Table
    <3> QED
      BY <3>2, SubSeqProperties DEF Front, Table
  <2> DEFINE some == {<<>>} \union (IF query.rows = <<>> THEN {} ELSE {Front(query.rows)})
             whole == {Output(query.sql, query.rows, n, FALSE) : n \in 0..1}
             part == {Output(query.sql, rows, n, FALSE) : rows \in some, n \in 1..3}
  <2>3. Outputs(query) = whole \union part
    BY <1>4 DEF Outputs
  <2>2. PICK rows, n : /\ output = Output(query.sql, rows, n, FALSE)
                       /\ rows = query.rows \/ rows \in some
    <3> HIDE DEF some
    <3>1. CASE output \in whole
      BY <3>1
    <3>2. CASE output \in part
      <4>1. PICK rows \in some, n \in 1..3 : output = Output(query.sql, rows, n, FALSE)
        BY <3>2 DEF Output
      <4> QED
        BY <4>1
    <3> HIDE DEF whole, part
    <3> QED
      BY <1>4, <2>3, <3>1, <3>2
  <2> QED
    BY <1>1, <1>4, <2>1, <2>2 DEF Output
<1>5. CASE setting.agent = "stub" /\ output \in Outputs(query)
  BY <1>5 DEF Outputs, Output
<1>6. setting.agent \in {"pipeline", "mock", "stub"}
  BY SettingAssumption
<1> QED
  BY <1>2, <1>3, <1>4, <1>5, <1>6

\* What ScoresAgree says of one case.
CaseAgrees(c) ==
    /\ c.executionMatch => c.setMatch
    /\ c.setMatch => c.partialMatch = 10000
    /\ c.output.crashed => IF c.query.rows = <<>> THEN c.executionMatch
                            ELSE c.partialMatch = 0 /\ ~c.executionMatch
    /\ setting.agent = "stub" => c.executionMatch /\ c.astMatch

\* The scores of one case agree, whatever the agent answered.
LEMMA ScoredCaseAgrees ==
    ASSUME NEW query, query.rows \in Table, query.sql # {},
           NEW output, output.rows \in Table, output.crashed => output.rows = <<>>,
           setting.agent = "stub" => output.rows = query.rows /\ output.sql = query.sql,
           NEW latency
    PROVE  CaseAgrees(ScoreCase(query, output, latency))
<1> DEFINE c == ScoreCase(query, output, latency)
<1>1. /\ c.executionMatch = ExecutionAccuracy(query.rows, output.rows, query.ordered)
      /\ c.setMatch = ExactSetMatch(query.rows, output.rows)
      /\ c.partialMatch = PartialMatch(query.rows, output.rows)
      /\ c.astMatch = (output.sql # {} /\ AstMatch(query.sql, output.sql))
      /\ c.query = query /\ c.output = output
  BY DEF ScoreCase
<1> HIDE DEF c
<1>2. c.executionMatch => c.setMatch
  BY <1>1, ExecutionImpliesSet
<1>3. c.setMatch => c.partialMatch = 10000
  <2>1. ASSUME c.setMatch PROVE ExactSetMatch(query.rows, output.rows)
    BY <1>1, <2>1
  <2>2. ASSUME ExactSetMatch(query.rows, output.rows)
        PROVE  PartialMatch(query.rows, output.rows) = 10000
    BY <2>2, SetImpliesPartial
  <2> QED
    BY <1>1, <2>1, <2>2
<1>4. c.output.crashed => IF c.query.rows = <<>> THEN c.executionMatch
                          ELSE c.partialMatch = 0 /\ ~c.executionMatch
  BY <1>1, NoRowsFail, SameRowsMatch
<1>5. setting.agent = "stub" => c.executionMatch /\ c.astMatch
  <2>1. ASSUME setting.agent = "stub" PROVE ExecutionAccuracy(query.rows, output.rows, query.ordered)
    BY <2>1, SameRowsMatch
  <2> QED
    BY <1>1, <2>1 DEF AstMatch
<1> QED
  BY <1>2, <1>3, <1>4, <1>5 DEF CaseAgrees, c

ScoresInv ==
    /\ setting \in Settings
    /\ cases \in Seq(ToSet(cases)) /\ Len(cases) <= Len(setting.golden)
    /\ ScoresAgree
    /\ report # Nobody => Len(cases) = Len(setting.golden)

\* Scoring a case leaves those before it alone, and its own scores agree.
LEMMA ScoreStep ==
    ASSUME ScoresInv, UNCHANGED <<setting, report>>, Len(cases) < Len(setting.golden),
           NEW output, NEW latency,
           NEW query, query = setting.golden[Len(cases) + 1],
           output \in Outputs(query) \union {Output({}, <<>>, 0, TRUE)},
           setting.agent = "stub" => output \in Outputs(query),
           cases' = Append(cases, ScoreCase(query, output, latency))
    PROVE  ScoresInv'
<1> DEFINE c == ScoreCase(query, output, latency)
           all == ToSet(cases) \union {c}
<1>1. cases \in Seq(ToSet(cases)) /\ Len(cases) \in Nat /\ DOMAIN cases = 1..Len(cases)
  BY LenProperties DEF ScoresInv
<1>2. Len(cases) + 1 \in 1..Len(setting.golden) /\ Len(setting.golden) \in Nat
  BY <1>1, SettingAssumption DEF ScoresInv
<1>3. query.rows \in Table /\ query.sql # {}
  BY <1>2, GoldenQuery DEF ScoresInv
<1>4. CaseAgrees(c)
  BY <1>3, OutputRows, ScoredCaseAgrees DEF ScoresInv
<1> HIDE DEF c
<1>5. cases \in Seq(all) /\ cases' = Append(cases, c)
  BY <1>1, SeqMonotonic DEF c
<1>6. /\ cases' \in Seq(all) /\ Len(cases') = Len(cases) + 1
      /\ \A i \in 1..Len(cases) : cases'[i] = cases[i]
      /\ cases'[Len(cases) + 1] = c
  BY <1>1, <1>5, AppendProperties
<1>7. DOMAIN cases' = 1..(Len(cases) + 1)
  BY <1>6, LenProperties
<1>8. cases' \in Seq(ToSet(cases'))
  <2>1. DOMAIN cases' = 1..(Len(cases) + 1) /\ \A i \in DOMAIN cases' : cases'[i] \in ToSet(cases')
    BY <1>7 DEF ToSet
  <2> HIDE DEF all
  <2> QED
    BY <1>6, <2>1, LenProperties, SeqDef
<1>9. \A i \in DOMAIN cases' : CaseAgrees(cases'[i])
  BY <1>1, <1>4, <1>6, <1>7 DEF ScoresInv, ScoresAgree, CaseAgrees
<1>10. Len(cases') <= Len(setting.golden)
  BY <1>1, <1>2, <1>6
<1>11. report # Nobody => Len(cases') = Len(setting.golden)
  BY <1>1, <1>2 DEF ScoresInv
<1> QED
  BY <1>8, <1>9, <1>10, <1>11 DEF ScoresInv, ScoresAgree, CaseAgrees

\* Cases are only added, each scored as above.
LEMMA ScoresStep == ScoresInv /\ [Next]_vars => ScoresInv'
<1> SUFFICES ASSUME ScoresInv, [Next]_vars
             PROVE  ScoresInv'
  OBVIOUS
<1>1. ASSUME UNCHANGED <<setting, cases, report>>
      PROVE  ScoresInv'
  BY <1>1 DEF ScoresInv, ScoresAgree
<1>2. CASE UNCHANGED vars
  BY <1>1, <1>2 DEF vars, stageVars
<1>3. CASE \E c \in setting.threads :
             LogRecord(c) \/ Filtering(c) \/ Summarise(c) \/ SummariseRaises(c)
  BY <1>1, <1>3 DEF LogRecord, Filtering, stageVars, Summarise, SummariseRaises
<1>4. CASE \E w \in PoolThreads : Detecting(w)
  BY <1>1, <1>4 DEF Detecting, stageVars
<1>5. CASE Case
  BY <1>5, ScoreStep DEF Case, RunCase
<1>6. CASE CrashedCase
  BY <1>6, ScoreStep DEF CrashedCase, RunCase
<1>7. CASE Report
  BY <1>7 DEF Report, ScoresInv, ScoresAgree
<1> QED
  BY <1>2, <1>3, <1>4, <1>5, <1>6, <1>7 DEF Next

\* metrics.py, benchmark.py:score_case: for every set of golden queries and every agent a
\* match of the rows is a match of the sets, that is the whole partial score, a crashed
\* agent fails every query with rows, and one that answers with the golden rows passes.
THEOREM ScoresNested == Spec => []ScoresAgree
<1>1. Init => ScoresInv
  BY SettingAssumption, EmptySeq DEF Init, ScoresInv, ScoresAgree, ToSet
<1>2. ScoresInv => ScoresAgree
  BY DEF ScoresInv
<1> QED
  BY <1>1, <1>2, ScoresStep, PTL DEF Spec

-----------------------------------------------------------------------------
(* The benchmark: the headline numbers, for all cases.                     *)

\* The sums of the first values are as SumOf adds them up.
Totals(f, values, n) == f = [k \in 0..n |-> IF k = 0 THEN 0 ELSE f[k - 1] + values[k]]

\* There is such a function, whatever the number of values.
LEMMA TotalsExist ==
    ASSUME NEW values, NEW n \in Nat
    PROVE  \E f : Totals(f, values, n)
<1> DEFINE Bad == {k \in 0..n : ~\E f : Totals(f, values, k)}
<1>1. SUFFICES ASSUME Bad # {} PROVE FALSE
  OBVIOUS
<1>2. PICK m \in Bad : \A k \in Bad : m <= k
  <2>1. Bad \in SUBSET Nat
    OBVIOUS
  <2> HIDE DEF Bad
  <2> QED
    BY <1>1, <2>1, LeastNatural
<1>3. m # 0
  <2>1. Totals([k \in 0..0 |-> 0], values, 0)
    BY DEF Totals
  <2> QED
    BY <2>1
<1>4. m \in Nat /\ m - 1 \in 0..n /\ m \in 0..n
  BY <1>3
<1>5. PICK f : Totals(f, values, m - 1)
  BY <1>2, <1>4
<1> DEFINE g == [k \in 0..m |-> IF k = m THEN f[m - 1] + values[m] ELSE f[k]]
<1>6. ASSUME NEW k \in 0..m
      PROVE  g[k] = IF k = 0 THEN 0 ELSE g[k - 1] + values[k]
  <2>1. CASE k = m
    BY <1>3, <1>4, <2>1
  <2>2. CASE k # m
    <3>1. k \in 0..m - 1
      BY <1>4, <2>2
    <3>2. f[k] = IF k = 0 THEN 0 ELSE f[k - 1] + values[k]
      BY <1>5, <3>1 DEF Totals
    <3>3. k # 0 => k - 1 \in 0..m /\ k - 1 # m
      BY <1>4, <3>1
    <3> QED
      BY <2>2, <3>2, <3>3
  <2> QED
    BY <2>1, <2>2
<1>7. Totals(g, values, m)
  BY <1>6 DEF Totals
<1> QED
  BY <1>2, <1>7

\* The sum of numbers is a number, and not below b times as many as have b for a bound.
Bounded(values, n, S, b) ==
    /\ Len(values) = n /\ \A i \in 1..n : values[i] \in Nat
    /\ S \in SUBSET (1..n) /\ \A i \in S : values[i] >= b
LEMMA SumIsAbove ==
    ASSUME NEW n \in Nat, NEW b \in Nat, NEW values, NEW S, Bounded(values, n, S, b)
    PROVE  SumOf(values) \in Nat /\ SumOf(values) >= b * Cardinality(S)
<1> USE DEF Bounded
<1>1. PICK f : Totals(f, values, n) /\ SumOf(values) = f[n]
  <2> DEFINE total == CHOOSE f : Totals(f, values, Len(values))
  <2>1. Totals(total, values, n)
    <3>1. \E f : Totals(f, values, Len(values))
      BY TotalsExist
    <3>2. Totals(total, values, Len(values))
      BY <3>1, Zenon
    <3> QED
      BY <3>2
  <2>2. SumOf(values) = total[n]
    BY DEF SumOf, Totals
  <2> QED
    BY <2>1, <2>2
<1> DEFINE T(k) == {i \in S : i <= k}
           Holds(k) == f[k] \in Nat /\ f[k] >= b * Cardinality(T(k))
           Bad == {k \in 0..n : ~Holds(k)}
<1>2. \A i \in S : i \in Nat /\ 1 <= i /\ i <= n
  OBVIOUS
<1>3. T(0) = {} /\ T(n) = S
  <2>1. \A i \in S : ~(i <= 0) /\ i <= n
    BY <1>2
  <2>2. \A i : i \notin T(0)
    BY <2>1
  <2>3. \A i : i \in T(n) <=> i \in S
    BY <2>1
  <2> HIDE DEF T
  <2> QED
    BY <2>2, <2>3
<1>4. ASSUME NEW m \in 1..n, Holds(m - 1) PROVE Holds(m)
  <2>1. PICK c : c = Cardinality(T(m - 1)) /\ IsFiniteSet(T(m - 1)) /\ c \in Nat
    <3>1. T(m - 1) \in SUBSET (1..n)
      OBVIOUS
    <3> QED
      BY <3>1, UpTo, FS_Subset, FS_CardinalityType
  <2>2. f[m - 1] \in Nat /\ f[m - 1] >= b * c
    BY <1>4, <2>1
  <2>3. f[m] = f[m - 1] + values[m] /\ values[m] \in Nat
    BY <1>1 DEF Totals
  <2>4. CASE m \in S
    <3>1. /\ \A i \in S : i <= m <=> i <= m - 1 \/ i = m
          /\ ~(m <= m - 1)
      BY <1>2
    <3>2. T(m) = T(m - 1) \union {m} /\ m \notin T(m - 1)
      <4>1. /\ \A i \in S : i \in T(m) => i \in T(m - 1) \/ i = m
            /\ \A i \in S : i \in T(m - 1) => i \in T(m)
            /\ m \in T(m) /\ m \notin T(m - 1)
        BY <2>4, <3>1
      <4>2. T(m) \subseteq S /\ T(m - 1) \subseteq S
        OBVIOUS
      <4> HIDE DEF T
      <4>3. PICK A \in SUBSET S, B \in SUBSET S : A = T(m) /\ B = T(m - 1)
        BY <4>2
      <4>4. A = B \union {m}
        BY <4>1, <4>3
      <4> QED
        BY <4>1, <4>3, <4>4
    <3> HIDE DEF T
    <3>3. Cardinality(T(m)) = c + 1
      BY <2>1, <3>2, FS_AddElement, Zenon
    <3>4. values[m] >= b
      BY <2>4
    <3>5. f[m] \in Nat /\ f[m] >= b * (c + 1)
      <4>1. PICK e \in Nat, v \in Nat : e = f[m - 1] /\ v = values[m]
        BY <2>2, <2>3
      <4>2. e >= b * c /\ v >= b /\ f[m] = e + v
        BY <2>2, <2>3, <3>4, <4>1
      <4>3. e + v \in Nat /\ e + v >= b * (c + 1)
        <5>1. PICK h \in Nat : h = b * c /\ b * (c + 1) = h + b
          <6>1. b * c \in Nat /\ b * (c + 1) = b * c + b
            BY <2>1
          <6> QED
            BY <6>1
        <5> QED
          BY <4>1, <4>2, <5>1
      <4> QED
        BY <4>2, <4>3
    <3> QED
      BY <3>3, <3>5
  <2>5. CASE m \notin S
    <3>1. \A i \in S : i <= m <=> i <= m - 1
      BY <1>2, <2>5
    <3>2. T(m) = T(m - 1)
      BY <3>1
    <3> HIDE DEF T
    <3>3. f[m] \in Nat /\ f[m] >= b * c
      BY <2>1, <2>2, <2>3
    <3> QED
      BY <2>1, <3>2, <3>3
  <2> QED
    BY <2>4, <2>5
<1>5. Holds(0)
  <2>1. f[0] = 0
    BY <1>1 DEF Totals
  <2> HIDE DEF T
  <2> QED
    BY <1>3, <2>1, FS_EmptySet
<1> HIDE DEF Holds
<1>6. ASSUME Bad # {} PROVE FALSE
  <2>1. PICK m \in Bad : \A k \in Bad : m <= k
    <3>1. Bad \in SUBSET Nat
      OBVIOUS
    <3> HIDE DEF Bad
    <3> QED
      BY <1>6, <3>1, LeastNatural
  <2>2. m \in 1..n
    BY <1>5
  <2>3. m - 1 \in 0..n /\ ~(m <= m - 1)
    BY <2>2
  <2>4. Holds(m - 1)
    BY <2>1, <2>3
  <2> QED
    BY <1>4, <2>2, <2>4
<1>7. Holds(n)
  BY <1>6
<1> HIDE DEF T
<1> QED
  BY <1>1, <1>3, <1>7 DEF Holds

\* Arithmetic of an interpolation: a part of a hundredth of a difference.
LEMMA PartOf ==
    ASSUME NEW d \in Nat, NEW f \in 0..99, NEW g \in 0..99, f <= g
    PROVE  0 <= d * f /\ d * f <= d * g /\ d * g <= 100 * d
OBVIOUS

\* Between which two numbers a rank lies.
LEMMA PlacesOf ==
    ASSUME NEW r \in Nat, NEW m \in Nat, r <= 100 * m
    PROVE  /\ r \div 100 \in 0..m /\ (r + 99) \div 100 \in 0..m
           /\ r % 100 \in 0..99 /\ r = 100 * (r \div 100) + (r % 100)
           /\ (r + 99) \div 100 = IF r % 100 = 0 THEN r \div 100 ELSE r \div 100 + 1
OBVIOUS

\* The value at rank r hundredths of the numbers xs.
Between(xs, r) ==
    100 * xs[r \div 100 + 1] + (xs[(r + 99) \div 100 + 1] - xs[r \div 100 + 1]) * (r % 100)

\* It lies between the least and the largest and does not fall with the rank.
LEMMA BetweenAscends ==
    ASSUME NEW m \in Nat, NEW xs, \A k \in 1..m + 1 : xs[k] \in Nat,
           \A k, l \in 1..m + 1 : k <= l => xs[k] <= xs[l],
           NEW r \in Nat, NEW s \in Nat, r <= s, s <= 100 * m
    PROVE  /\ Between(xs, r) \in Nat /\ Between(xs, s) \in Nat
           /\ 100 * xs[1] <= Between(xs, r) /\ Between(xs, r) <= Between(xs, s)
           /\ Between(xs, s) <= 100 * xs[m + 1]
<1> DEFINE low(x) == xs[x \div 100 + 1]
           high(x) == xs[(x + 99) \div 100 + 1]
<1>1. ASSUME NEW x \in Nat, x <= 100 * m
      PROVE  /\ low(x) \in Nat /\ high(x) \in Nat /\ low(x) <= high(x)
             /\ xs[1] <= low(x) /\ high(x) <= xs[m + 1]
             /\ 0 <= (high(x) - low(x)) * (x % 100)
             /\ (high(x) - low(x)) * (x % 100) <= 100 * (high(x) - low(x))
             /\ Between(xs, x) \in Nat
             /\ 100 * low(x) <= Between(xs, x) /\ Between(xs, x) <= 100 * high(x)
  <2>1. /\ x \div 100 \in 0..m /\ (x + 99) \div 100 \in 0..m
        /\ x % 100 \in 0..99 /\ x \div 100 <= (x + 99) \div 100
    BY <1>1, PlacesOf
  <2>2. PICK a \in 1..m + 1, b \in 1..m + 1 :
          a = x \div 100 + 1 /\ b = (x + 99) \div 100 + 1 /\ a <= b
    BY <2>1
  <2>3. 1 \in 1..m + 1 /\ m + 1 \in 1..m + 1 /\ 1 <= a /\ b <= m + 1
    BY <2>2
  <2>4. /\ xs[a] \in Nat /\ xs[b] \in Nat /\ xs[1] \in Nat /\ xs[m + 1] \in Nat
        /\ xs[a] <= xs[b] /\ xs[1] <= xs[a] /\ xs[b] <= xs[m + 1]
    BY <2>2, <2>3
  <2>5. PICK d \in Nat, f \in 0..99 : d = xs[b] - xs[a] /\ f = x % 100
    BY <2>1, <2>4
  <2>6. 0 <= d * f /\ d * f <= 100 * d /\ d * f \in Nat
    <3>1. f <= f /\ d * f \in Nat
      OBVIOUS
    <3> QED
      BY <3>1, PartOf
  <2>7. Between(xs, x) = 100 * xs[a] + d * f
    BY <2>2, <2>5 DEF Between
  <2>8. PICK e \in Nat : e = d * f
    BY <2>6
  <2>9. Between(xs, x) \in Nat /\ 100 * xs[a] <= Between(xs, x) /\ Between(xs, x) <= 100 * xs[b]
    BY <2>4, <2>5, <2>6, <2>7, <2>8
  <2>10. low(x) = xs[a] /\ high(x) = xs[b]
    BY <2>2
  <2> HIDE DEF low, high
  <2> QED
    BY <2>4, <2>5, <2>6, <2>9, <2>10
<1> HIDE DEF low, high
<1>2. r <= 100 * m
  OBVIOUS
<1>3. /\ Between(xs, r) \in Nat /\ Between(xs, s) \in Nat /\ 100 * xs[1] <= Between(xs, r)
      /\ Between(xs, s) <= 100 * xs[m + 1]
  <2>1. xs[1] \in Nat /\ xs[m + 1] \in Nat
    OBVIOUS
  <2> QED
    BY <1>1, <1>2, <2>1
<1>4. Between(xs, r) <= Between(xs, s)
  <2>1. CASE r \div 100 = s \div 100
    <3>1. r % 100 \in 0..99 /\ s % 100 \in 0..99 /\ r % 100 <= s % 100
      BY <1>2, <2>1, PlacesOf
    <3>2. low(r) = low(s)
      BY <2>1 DEF low
    <3>3. CASE r % 100 = 0
      <4>1. Between(xs, r) = 100 * low(r)
        <5>1. PICK d \in Nat, a \in Nat : d = high(r) - low(r) /\ a = low(r)
          BY <1>1, <1>2
        <5>2. Between(xs, r) = 100 * a + d * 0
          BY <3>3, <5>1 DEF Between, low, high
        <5> QED
          BY <5>1, <5>2
      <4> QED
        BY <1>1, <3>2, <4>1
    <3>4. CASE r % 100 # 0
      <4>1. high(r) = high(s)
        <5>1. s % 100 # 0
          BY <3>1, <3>4
        <5>2. (r + 99) \div 100 = (s + 99) \div 100
          BY <1>2, <2>1, <3>4, <5>1, PlacesOf
        <5> QED
          BY <5>2 DEF high
      <4>2. PICK d \in Nat, a \in Nat, f \in 0..99, g \in 0..99 :
              /\ d = high(r) - low(r) /\ a = low(r) /\ f = r % 100 /\ g = s % 100 /\ f <= g
        <5>1. low(r) \in Nat /\ high(r) \in Nat /\ low(r) <= high(r)
          BY <1>1, <1>2
        <5>2. high(r) - low(r) \in Nat
          BY <5>1
        <5> QED
          BY <3>1, <5>1, <5>2
      <4>3. d * f <= d * g /\ d * f \in Nat /\ d * g \in Nat
        <5>1. d * f \in Nat /\ d * g \in Nat
          BY <4>2
        <5>2. d * f <= d * g
          BY <4>2, PartOf
        <5> QED
          BY <5>1, <5>2
      <4>4. Between(xs, r) = 100 * a + d * f /\ Between(xs, s) = 100 * a + d * g
        BY <3>2, <4>1, <4>2 DEF Between, low, high
      <4> QED
        BY <4>2, <4>3, <4>4
    <3> QED
      BY <3>3, <3>4
  <2>2. CASE r \div 100 # s \div 100
    <3>1. /\ (r + 99) \div 100 <= s \div 100
          /\ (r + 99) \div 100 \in 0..m /\ s \div 100 \in 0..m
      BY <1>2, <2>2, PlacesOf
    <3>2. high(r) <= low(s)
      BY <3>1 DEF low, high
    <3>3. high(r) \in Nat /\ low(s) \in Nat
      BY <1>1, <1>2
    <3> QED
      BY <1>1, <1>2, <1>3, <3>2, <3>3
  <2> QED
    BY <2>1, <2>2
<1> QED
  BY <1>3, <1>4

\* metrics.py:percentile, for any latencies.
LEMMA PercentilesAscend ==
    ASSUME NEW values, IsSeq(values), values # <<>>, ToSet(values) \subseteq Nat
    PROVE  /\ 100 * Min(ToSet(values)) <= Percentile(values, 50)
           /\ Percentile(values, 50) <= Percentile(values, 95)
           /\ Percentile(values, 95) <= 100 * Max(ToSet(values))
           /\ Percentile(values, 50) \in Nat /\ Percentile(values, 95) \in Nat
           /\ Min(ToSet(values)) \in Nat /\ Max(ToSet(values)) \in Nat
<1>1. PICK xs : xs = Upwards(values)
  OBVIOUS
<1>2. PICK n : /\ n = Len(values) /\ n \in Nat /\ n # 0 /\ DOMAIN values = 1..n
               /\ IsFiniteSet(ToSet(values)) /\ ToSet(values) # {}
  <2>1. PICK n : n = Len(values) /\ n \in Nat /\ DOMAIN values = 1..n
    BY SeqFacts
  <2>2. n # 0
    BY <2>1, EmptySeq DEF IsSeq
  <2>3. ToSet(values) # {}
    BY <2>1, <2>2, SMTT(20) DEF ToSet
  <2>4. IsFiniteSet(ToSet(values))
    <3>1. values \in Surjection(1..n, ToSet(values))
      BY <2>1 DEF IsSeq, Surjection, ToSet
    <3> QED
      BY <2>1, <3>1, UpTo, FS_Surjection
  <2> QED
    BY <2>1, <2>2, <2>3, <2>4
<1>3. PICK m \in Nat : n = m + 1
  <2>1. n - 1 \in Nat /\ n = (n - 1) + 1
    BY <1>2
  <2> QED
    BY <2>1
<1>4. /\ DOMAIN xs = 1..m + 1 /\ Len(xs) = m + 1
      /\ \A k \in 1..m + 1 : xs[k] \in ToSet(values)
      /\ \A k, l \in 1..m + 1 : k <= l => xs[k] <= xs[l]
  BY <1>1, <1>2, <1>3, SortedNumbers
<1>5. \A k \in 1..m + 1 : xs[k] \in Nat
  BY <1>4
<1>6. /\ Percentile(values, 50) = Between(xs, 50 * (Len(xs) - 1))
      /\ Percentile(values, 95) = Between(xs, 95 * (Len(xs) - 1))
  BY <1>1 DEF Percentile, Ordered, Upwards, Between
<1>7. PICK r \in Nat, s \in Nat : r = 50 * (Len(xs) - 1) /\ s = 95 * (Len(xs) - 1)
                                /\ r <= s /\ s <= 100 * m
  <2>1. Len(xs) - 1 = m
    BY <1>4
  <2> QED
    BY <2>1
<1>8. /\ Between(xs, r) \in Nat /\ Between(xs, s) \in Nat
      /\ 100 * xs[1] <= Between(xs, r) /\ Between(xs, r) <= Between(xs, s)
      /\ Between(xs, s) <= 100 * xs[m + 1]
  <2>1. \A k, l \in 1..m + 1 : k <= l => xs[k] <= xs[l]
    BY <1>4
  <2>2. r <= s /\ s <= 100 * m
    BY <1>7
  <2> QED
    BY <1>5, <2>1, <2>2, BetweenAscends
<1>9. /\ Min(ToSet(values)) \in Nat /\ Min(ToSet(values)) <= xs[1] /\ xs[1] \in Nat
      /\ Max(ToSet(values)) \in Nat /\ xs[m + 1] <= Max(ToSet(values)) /\ xs[m + 1] \in Nat
  <2>1. xs[1] \in ToSet(values) /\ xs[m + 1] \in ToSet(values)
    BY <1>4
  <2>2. ToSet(values) \in SUBSET Int
    OBVIOUS
  <2> QED
    BY <1>2, <2>1, <2>2, MinOfNaturals, MaxOfFinite
<1>10. PICK least \in Nat, most \in Nat : least = Min(ToSet(values)) /\ most = Max(ToSet(values))
  BY <1>9
<1>11. PICK p \in Nat, q \in Nat : p = Between(xs, r) /\ q = Between(xs, s)
  BY <1>8
<1>12. Percentile(values, 50) = p /\ Percentile(values, 95) = q
  BY <1>6, <1>7, <1>11
<1>13. 100 * least <= 100 * xs[1] /\ 100 * xs[m + 1] <= 100 * most
  BY <1>9, <1>10
<1>14. 100 * least <= p /\ p <= q /\ q <= 100 * most
  <2>1. 100 * xs[1] <= p /\ p <= q /\ q <= 100 * xs[m + 1]
    BY <1>8, <1>11
  <2>2. PICK a \in Nat, b \in Nat : a = xs[1] /\ b = xs[m + 1]
    BY <1>9
  <2>3. /\ 100 * least <= 100 * a /\ 100 * a <= p /\ p <= q
        /\ q <= 100 * b /\ 100 * b <= 100 * most
    BY <1>13, <2>1, <2>2
  <2>4. PICK e \in Nat, f \in Nat, g \in Nat, h \in Nat :
          e = 100 * least /\ f = 100 * a /\ g = 100 * b /\ h = 100 * most
    OBVIOUS
  <2>5. e <= f /\ f <= p /\ p <= q /\ q <= g /\ g <= h
    BY <2>3, <2>4
  <2>6. e <= p /\ p <= q /\ q <= h
    BY <2>5
  <2> QED
    BY <2>4, <2>6, Zenon
<1> QED
  BY <1>9, <1>10, <1>11, <1>12, <1>14

\* A ratio is a number of ten-thousandths, the nearest to the share.
LEMMA RatioRounds ==
    ASSUME NEW p \in Nat, NEW n \in Nat \ {0}
    PROVE  Ratio(p, n) \in Nat /\ Nearest(Ratio(p, n), 10000 * p, n)
<1>1. PICK a \in Nat : a = 10000 * p
  OBVIOUS
<1>2. Round(a, n) \in Nat /\ Nearest(Round(a, n), a, n)
  BY Rounded
<1> QED
  BY <1>1, <1>2 DEF Ratio

\* A larger share is not a smaller ratio.
LEMMA RatioGrows ==
    ASSUME NEW p \in Nat, NEW n \in Nat \ {0}, NEW q \in Nat, NEW k \in Nat \ {0}, p * k <= q * n
    PROVE  Ratio(p, n) <= Ratio(q, k)
<1>1. PICK a \in Nat, b \in Nat : a = 10000 * p /\ b = 10000 * q
  OBVIOUS
<1>2. a * k <= b * n
  <2>1. a * k = 10000 * (p * k) /\ b * n = 10000 * (q * n)
    BY <1>1
  <2>2. p * k \in Nat /\ q * n \in Nat
    OBVIOUS
  <2> QED
    BY <2>1, <2>2
<1>3. Round(a, n) <= Round(b, k)
  BY <1>2, RoundGrows
<1> QED
  BY <1>1, <1>3 DEF Ratio

\* The ratio of several parts together lies between their own.
Around(n1, n2, n3, p1, p2, p3, a) ==
    /\ \/ n1 # 0 /\ Ratio(p1, n1) <= a
       \/ n2 # 0 /\ Ratio(p2, n2) <= a
       \/ n3 # 0 /\ Ratio(p3, n3) <= a
    /\ \/ n1 # 0 /\ Ratio(p1, n1) >= a
       \/ n2 # 0 /\ Ratio(p2, n2) >= a
       \/ n3 # 0 /\ Ratio(p3, n3) >= a
LEMMA RatioOfParts ==
    ASSUME NEW n1 \in Nat, NEW n2 \in Nat, NEW n3 \in Nat,
           NEW p1 \in Nat, NEW p2 \in Nat, NEW p3 \in Nat,
           n1 = 0 => p1 = 0, n2 = 0 => p2 = 0, n3 = 0 => p3 = 0,
           NEW n \in Nat \ {0}, n = n1 + n2 + n3, NEW p, p = p1 + p2 + p3
    PROVE  Around(n1, n2, n3, p1, p2, p3, Ratio(p, n))
<1>0. PICK s \in Nat : s = p
  OBVIOUS
<1>1. ASSUME NEW k \in Nat, NEW q \in Nat, k = 0 => q = 0
      PROVE  /\ q * n \in Nat /\ s * k \in Nat
             /\ k = 0 => q * n = 0 /\ s * k = 0
             /\ k # 0 /\ q * n <= s * k => Ratio(q, k) <= Ratio(s, n)
             /\ k # 0 /\ q * n >= s * k => Ratio(q, k) >= Ratio(s, n)
  <2>1. q * n \in Nat /\ s * k \in Nat /\ (k = 0 => q * n = 0 /\ s * k = 0)
    BY <1>1
  <2>2. ASSUME k # 0, q * n <= s * k PROVE Ratio(q, k) <= Ratio(s, n)
    BY <1>1, <2>2, RatioGrows
  <2>3. ASSUME k # 0, q * n >= s * k PROVE Ratio(q, k) >= Ratio(s, n)
    <3>1. s * k <= q * n
      BY <2>1, <2>3
    <3>2. Ratio(s, n) <= Ratio(q, k) /\ Ratio(s, n) \in Nat
      BY <1>1, <2>3, <3>1, RatioGrows, RatioRounds
    <3>3. Ratio(q, k) \in Nat
      BY <1>1, <2>3, RatioRounds
    <3> QED
      BY <3>2, <3>3
  <2> QED
    BY <2>1, <2>2, <2>3
<1>2. PICK m1 \in Nat, m2 \in Nat, m3 \in Nat, s1 \in Nat, s2 \in Nat, s3 \in Nat :
        /\ m1 = p1 * n /\ m2 = p2 * n /\ m3 = p3 * n
        /\ s1 = s * n1 /\ s2 = s * n2 /\ s3 = s * n3
  BY <1>1
<1>3. m1 + m2 + m3 = s1 + s2 + s3
  <2>1. (p1 + p2 + p3) * n = p1 * n + p2 * n + p3 * n
    OBVIOUS
  <2>2. s * (n1 + n2 + n3) = s * n1 + s * n2 + s * n3
    OBVIOUS
  <2> QED
    BY <1>0, <1>2, <2>1, <2>2
<1>4. /\ n1 = 0 => m1 = 0 /\ s1 = 0
      /\ n1 # 0 /\ m1 <= s1 => Ratio(p1, n1) <= Ratio(s, n)
      /\ n1 # 0 /\ m1 >= s1 => Ratio(p1, n1) >= Ratio(s, n)
  BY <1>1, <1>2
<1>5. /\ n2 = 0 => m2 = 0 /\ s2 = 0
      /\ n2 # 0 /\ m2 <= s2 => Ratio(p2, n2) <= Ratio(s, n)
      /\ n2 # 0 /\ m2 >= s2 => Ratio(p2, n2) >= Ratio(s, n)
  BY <1>1, <1>2
<1>6. /\ n3 = 0 => m3 = 0 /\ s3 = 0
      /\ n3 # 0 /\ m3 <= s3 => Ratio(p3, n3) <= Ratio(s, n)
      /\ n3 # 0 /\ m3 >= s3 => Ratio(p3, n3) >= Ratio(s, n)
  BY <1>1, <1>2
<1>7. n1 # 0 \/ n2 # 0 \/ n3 # 0
  OBVIOUS
<1>8. \/ n1 # 0 /\ m1 <= s1
      \/ n2 # 0 /\ m2 <= s2
      \/ n3 # 0 /\ m3 <= s3
  BY <1>3, <1>4, <1>5, <1>6, <1>7
<1>9. \/ n1 # 0 /\ m1 >= s1
      \/ n2 # 0 /\ m2 >= s2
      \/ n3 # 0 /\ m3 >= s3
  BY <1>3, <1>4, <1>5, <1>6, <1>7
<1> QED
  BY <1>0, <1>4, <1>5, <1>6, <1>8, <1>9 DEF Around

\* A case as score_case leaves it.
Scored(c) ==
    /\ c.executionMatch => c.setMatch
    /\ c.setMatch => c.partialMatch = 10000
    /\ c.partialMatch \in Nat /\ c.latency \in Nat

\* The cases of a tier, and those that passed.
CasesOf(cs, t) == {i \in DOMAIN cs : cs[i].difficulty = t}
PassedCases(cs) == {i \in DOMAIN cs : cs[i].executionMatch}

\* The accuracy of a tier is that of its cases.
LEMMA TierAccuracy ==
    ASSUME NEW cs, IsSeq(cs), NEW t
    PROVE  /\ Accuracy(Tier(cs, t)) = Ratio(Cardinality(PassedCases(cs) \intersect CasesOf(cs, t)),
                                            Cardinality(CasesOf(cs, t)))
           /\ Tier(cs, t) # <<>> <=> Cardinality(CasesOf(cs, t)) # 0
<1> DEFINE S == CasesOf(cs, t)
           V == {c \in ToSet(cs) : c.executionMatch}
<1>1. PICK r : r = Tier(cs, t) /\ r = Arranged(cs, S, Earlier(S))
  BY DEF Tier, Where, CasesOf
<1>2. S \in SUBSET DOMAIN cs
  BY DEF CasesOf
<1>3. LinearOn(S, Earlier(S))
  <2>1. S \in SUBSET Nat
    BY <1>2, SeqFacts
  <2> HIDE DEF S
  <2> QED
    BY <2>1, EarlierIsLinear
<1> HIDE DEF S
<1>4. Arranges(r, cs, S, Earlier(S))
  BY <1>1, <1>2, <1>3, ArrangedSeq
<1>5. Cardinality(OfKind(r, DOMAIN r, V)) = Cardinality(OfKind(cs, S, V))
  <2> HIDE DEF V
  <2> QED
    BY <1>1, <1>2, <1>3, ArrangedCounts
<1>6. OfKind(r, DOMAIN r, V) = {k \in DOMAIN r : r[k].executionMatch}
  <2>1. \A k \in DOMAIN r : r[k] \in ToSet(cs)
    <3>1. \A k \in DOMAIN r : r[k] \in ToSet(r)
      BY DEF ToSet
    <3>2. \A x \in ToSet(r) : \E i \in S : x = cs[i]
      BY <1>4 DEF Arranges
    <3>3. \A i \in S : cs[i] \in ToSet(cs)
      BY <1>2 DEF ToSet
    <3> QED
      BY <3>1, <3>2, <3>3
  <2> QED
    BY <2>1, Zenon DEF OfKind
<1>7. OfKind(cs, S, V) = PassedCases(cs) \intersect S
  <2>1. \A i \in S : i \in DOMAIN cs /\ cs[i] \in ToSet(cs)
    BY <1>2 DEF ToSet
  <2> QED
    BY <2>1, Zenon DEF PassedCases, OfKind
<1>8. Len(r) = Cardinality(S)
  BY <1>4 DEF Arranges
<1>9. Accuracy(r) = Ratio(Cardinality({k \in DOMAIN r : r[k].executionMatch}), Len(r))
  BY DEF Accuracy, CountIn
<1>10. r # <<>> <=> Cardinality(S) # 0
  <2>1. IsSeq(r)
    BY <1>4 DEF Arranges
  <2> QED
    BY <1>8, <2>1, EmptySeq DEF IsSeq
<1> QED
  BY <1>1, <1>5, <1>6, <1>7, <1>8, <1>9, <1>10 DEF S

\* The accuracy of all cases lies between the least and the largest of the tiers.
LEMMA TiersAround ==
    ASSUME NEW cs, IsSeq(cs), cs # <<>>, \A i \in DOMAIN cs : cs[i].difficulty \in Tiers,
           NEW T, T = {Accuracy(Tier(cs, t)) : t \in {u \in Tiers : Tier(cs, u) # <<>>}}
    PROVE  Min(T) <= Accuracy(cs) /\ Accuracy(cs) <= Max(T)
<1> DEFINE S(t) == CasesOf(cs, t)
           P(t) == PassedCases(cs) \intersect S(t)
<1>1. PICK n : n = Len(cs) /\ n \in Nat /\ n # 0 /\ DOMAIN cs = 1..n
               /\ IsFiniteSet(DOMAIN cs) /\ Cardinality(DOMAIN cs) = n
  <2>1. PICK n : n = Len(cs) /\ n \in Nat /\ DOMAIN cs = 1..n
    BY SeqFacts
  <2>2. n # 0
    BY <2>1, EmptySeq DEF IsSeq
  <2> QED
    BY <2>1, <2>2, UpTo
<1>2. /\ DOMAIN cs = S("easy") \union S("medium") \union S("hard")
      /\ S("easy") \intersect S("medium") = {} /\ S("easy") \intersect S("hard") = {}
      /\ S("medium") \intersect S("hard") = {}
  BY DEF Tiers, CasesOf
<1>3. /\ PassedCases(cs) = P("easy") \union P("medium") \union P("hard")
      /\ P("easy") \intersect P("medium") = {} /\ P("easy") \intersect P("hard") = {}
      /\ P("medium") \intersect P("hard") = {}
  <2>1. \A i \in PassedCases(cs) : i \in DOMAIN cs
    BY DEF PassedCases
  <2> HIDE DEF S
  <2> QED
    BY <1>2, <2>1
<1>4. IsFiniteSet(PassedCases(cs))
  <2>1. PassedCases(cs) \in SUBSET DOMAIN cs
    BY DEF PassedCases
  <2> QED
    BY <1>1, <2>1, FS_Subset
<1>5. PICK n1 \in Nat, n2 \in Nat, n3 \in Nat :
        /\ n1 = Cardinality(S("easy")) /\ n2 = Cardinality(S("medium"))
        /\ n3 = Cardinality(S("hard")) /\ n = n1 + n2 + n3
  <2>1. PICK A, B, C : A = S("easy") /\ B = S("medium") /\ C = S("hard")
    OBVIOUS
  <2> HIDE DEF S
  <2>2. PICK D : D = DOMAIN cs /\ D = A \union B \union C /\ IsFiniteSet(D) /\ n = Cardinality(D)
    BY <1>1, <1>2, <2>1
  <2>3. A \intersect B = {} /\ A \intersect C = {} /\ B \intersect C = {}
    BY <1>2, <2>1
  <2>4. Parts(D, A, B, C)
    BY <2>2, <2>3, PartsAddUp
  <2> QED
    BY <2>1, <2>2, <2>4 DEF Parts
<1>6. PICK p1 \in Nat, p2 \in Nat, p3 \in Nat :
        /\ p1 = Cardinality(P("easy")) /\ p2 = Cardinality(P("medium"))
        /\ p3 = Cardinality(P("hard")) /\ Cardinality(PassedCases(cs)) = p1 + p2 + p3
  <2>1. PICK A, B, C : A = P("easy") /\ B = P("medium") /\ C = P("hard")
    OBVIOUS
  <2> HIDE DEF S, P
  <2>2. PICK D : D = PassedCases(cs) /\ D = A \union B \union C /\ IsFiniteSet(D)
    BY <1>3, <1>4, <2>1
  <2>3. A \intersect B = {} /\ A \intersect C = {} /\ B \intersect C = {}
    BY <1>3, <2>1
  <2>4. Parts(D, A, B, C)
    BY <2>2, <2>3, PartsAddUp
  <2> QED
    BY <2>1, <2>2, <2>4 DEF Parts
<1>7. ASSUME NEW t, Cardinality(S(t)) = 0 PROVE Cardinality(P(t)) = 0
  <2>1. S(t) \in SUBSET DOMAIN cs /\ P(t) \in SUBSET S(t)
    BY DEF CasesOf
  <2>2. IsFiniteSet(S(t)) /\ Cardinality({}) = 0
    BY <1>1, <2>1, FS_Subset, FS_EmptySet
  <2>3. S(t) = {}
    <3> HIDE DEF S
    <3> QED
      BY <1>7, <2>2, FS_EmptySet
  <2> HIDE DEF S
  <2>4. P(t) = {}
    BY <2>3
  <2> QED
    BY <2>2, <2>4
<1>8. PICK p \in Nat : p = p1 + p2 + p3
  OBVIOUS
<1> DEFINE a == Ratio(p, n)
<1>9. Accuracy(cs) = a
  <2>1. Accuracy(cs) = Ratio(Cardinality(PassedCases(cs)), Len(cs))
    BY DEF Accuracy, CountIn, PassedCases
  <2> QED
    BY <1>1, <1>6, <1>8, <2>1
<1>10. ASSUME NEW t \in Tiers, Cardinality(S(t)) # 0
      PROVE  Ratio(Cardinality(P(t)), Cardinality(S(t))) \in T
  <2>1. Accuracy(Tier(cs, t)) = Ratio(Cardinality(P(t)), Cardinality(S(t))) /\ Tier(cs, t) # <<>>
    BY <1>10, TierAccuracy
  <2> QED
    BY <2>1
<1>11. /\ n1 # 0 => Ratio(p1, n1) \in T
       /\ n2 # 0 => Ratio(p2, n2) \in T
       /\ n3 # 0 => Ratio(p3, n3) \in T
  <2>1. "easy" \in Tiers /\ "medium" \in Tiers /\ "hard" \in Tiers
    BY DEF Tiers
  <2> HIDE DEF S, P
  <2> QED
    BY <1>5, <1>6, <1>10, <2>1
<1>12. Around(n1, n2, n3, p1, p2, p3, a)
  <2>1. n \in Nat \ {0} /\ n = n1 + n2 + n3
    BY <1>1, <1>5
  <2>2. n1 = 0 => p1 = 0
    BY <1>5, <1>6, <1>7
  <2>3. n2 = 0 => p2 = 0
    BY <1>5, <1>6, <1>7
  <2>4. n3 = 0 => p3 = 0
    BY <1>5, <1>6, <1>7
  <2> HIDE DEF S, P
  <2> QED
    BY <1>8, <2>1, <2>2, <2>3, <2>4, RatioOfParts
<1>13. a \in Nat /\ \E x, y \in T : x <= a /\ y >= a
  <2>1. a \in Nat
    <3>1. n \in Nat \ {0}
      BY <1>1, <1>8
    <3> QED
      BY <1>8, <3>1, RatioRounds
  <2> HIDE DEF a
  <2>2. (\E x \in T : x <= a) /\ (\E y \in T : y >= a)
    BY <1>11, <1>12 DEF Around
  <2> QED
    BY <2>1, <2>2
<1>14. T \in SUBSET Nat /\ IsFiniteSet(T)
  <2> DEFINE U == {u \in Tiers : Tier(cs, u) # <<>>}
             f == [t \in U |-> Accuracy(Tier(cs, t))]
  <2>1. ASSUME NEW t \in U PROVE f[t] \in Nat
    <3>1. PICK q, k : q = Cardinality(P(t)) /\ k = Cardinality(S(t))
      OBVIOUS
    <3>2. Accuracy(Tier(cs, t)) = Ratio(q, k) /\ k # 0
      BY <3>1, TierAccuracy
    <3>3. P(t) \in SUBSET DOMAIN cs /\ S(t) \in SUBSET DOMAIN cs
      BY DEF CasesOf
    <3>4. q \in Nat /\ k \in Nat
      BY <1>1, <3>1, <3>3, FS_Subset, FS_CardinalityType
    <3> QED
      BY <3>2, <3>4, RatioRounds
  <2>2. IsFiniteSet(U)
    <3>1. IsFiniteSet({"easy"} \union {"medium"} \union {"hard"})
      BY FS_Singleton, FS_Union
    <3>2. U \in SUBSET ({"easy"} \union {"medium"} \union {"hard"})
      BY DEF Tiers
    <3> QED
      BY <3>1, <3>2, FS_Subset
  <2>3. f \in Surjection(U, T)
    BY DEF Surjection
  <2>4. \A x \in T : \E t \in U : x = f[t]
    OBVIOUS
  <2> HIDE DEF U, f
  <2> QED
    BY <2>1, <2>2, <2>3, <2>4, FS_Surjection
<1>15. PICK x \in T, y \in T : x <= a /\ y >= a
  BY <1>13
<1>16. /\ Min(T) \in T /\ Max(T) \in T
       /\ Min(T) <= x /\ y <= Max(T)
  <2>1. T # {} /\ T \in SUBSET Int
    BY <1>14, <1>15
  <2> QED
    BY <1>14, <2>1, MinOfNaturals, MaxOfFinite
<1> HIDE DEF a
<1> QED
  <2>1. PICK least \in Nat, most \in Nat : least = Min(T) /\ most = Max(T)
    BY <1>14, <1>16
  <2>2. x \in Nat /\ y \in Nat
    BY <1>14, <1>15
  <2>3. least <= a /\ a <= most
    BY <1>13, <1>15, <1>16, <2>1, <2>2
  <2> QED
    BY <1>9, <2>1, <2>3

\* Of the same number, more are not a smaller ratio.
LEMMA SharesGrow ==
    ASSUME NEW p \in Nat, NEW q \in Nat, NEW n \in Nat \ {0}, p <= q
    PROVE  Ratio(p, n) <= Ratio(q, n) /\ Nearest(Ratio(p, n), 10000 * p, n)
<1>1. p * n <= q * n
  BY Times
<1>2. Ratio(p, n) <= Ratio(q, n)
  BY <1>1, RatioGrows
<1> QED
  BY <1>2, RatioRounds

\* The sum of numbers some of which are a whole, in ten-thousandths.
WholesIn(values, n, S) ==
    /\ Len(values) = n /\ \A i \in 1..n : values[i] \in Nat
    /\ S \in SUBSET (1..n) /\ \A i \in S : values[i] = 10000
LEMMA SumOfWholes ==
    ASSUME NEW n \in Nat, NEW values, NEW S, WholesIn(values, n, S)
    PROVE  SumOf(values) \in Nat /\ SumOf(values) >= 10000 * Cardinality(S)
<1>1. PICK b \in Nat : b = 10000
  OBVIOUS
<1>2. \A i \in S : values[i] >= b
  BY <1>1 DEF WholesIn
<1>3. Bounded(values, n, S, b)
  BY <1>2 DEF Bounded, WholesIn
<1>4. SumOf(values) \in Nat /\ SumOf(values) >= b * Cardinality(S)
  BY <1>3, SumIsAbove
<1> QED
  BY <1>1, <1>4

\* The cases whose set of rows matched.
MatchedCases(cs) == {i \in DOMAIN cs : cs[i].setMatch}

\* The three scores of a run are in order, and the accuracy is that of what passed.
LEMMA ScoresOrdered ==
    ASSUME NEW cs, IsSeq(cs), cs # <<>>, \A i \in DOMAIN cs : Scored(cs[i]),
           NEW values, values = [i \in DOMAIN cs |-> cs[i].partialMatch]
    PROVE  /\ Accuracy(cs) <= Ratio(Cardinality(MatchedCases(cs)), Len(cs))
           /\ Ratio(Cardinality(MatchedCases(cs)), Len(cs)) <= Mean(values)
           /\ Nearest(Accuracy(cs), 10000 * Cardinality(PassedCases(cs)), Len(cs))
<1>1. PICK n : n = Len(cs) /\ n \in Nat /\ n # 0 /\ DOMAIN cs = 1..n /\ IsFiniteSet(DOMAIN cs)
  <2>1. PICK n : n = Len(cs) /\ n \in Nat /\ DOMAIN cs = 1..n
    BY SeqFacts
  <2>2. n # 0
    BY <2>1, EmptySeq DEF IsSeq
  <2> QED
    BY <2>1, <2>2, UpTo
<1>2. PassedCases(cs) \in SUBSET MatchedCases(cs)
  <2>1. \A i \in DOMAIN cs : cs[i].executionMatch => cs[i].setMatch
    BY DEF Scored
  <2> QED
    BY <2>1, Zenon DEF PassedCases, MatchedCases
<1>3. MatchedCases(cs) \in SUBSET (1..n)
  BY <1>1 DEF MatchedCases
<1>4. PICK p \in Nat, q \in Nat :
        /\ p = Cardinality(PassedCases(cs)) /\ q = Cardinality(MatchedCases(cs))
        /\ p <= q
  <2>1. IsFiniteSet(MatchedCases(cs))
    BY <1>1, <1>3, FS_Subset
  <2> QED
    BY <1>2, <2>1, FS_Subset, FS_CardinalityType
<1>5. Accuracy(cs) = Ratio(p, n)
  <2>1. Accuracy(cs) = Ratio(Cardinality(PassedCases(cs)), Len(cs))
    BY DEF Accuracy, CountIn, PassedCases
  <2> QED
    BY <1>1, <1>4, <2>1
<1>6. n \in Nat \ {0}
  BY <1>1
<1>7. Ratio(p, n) <= Ratio(q, n) /\ Nearest(Ratio(p, n), 10000 * p, n)
  BY <1>4, <1>6, SharesGrow
<1>9. values \in [1..n -> Nat] /\ Len(values) = n /\ values # <<>>
  <2>1. values \in [1..n -> Nat]
    BY <1>1 DEF Scored
  <2>2. values \in Seq(Nat)
    BY <1>1, <2>1, SeqDef
  <2>3. Len(values) = n
    BY <1>1, <2>1, <2>2, LenProperties
  <2> QED
    BY <1>1, <2>1, <2>2, <2>3, EmptySeq
<1>10. \A i \in MatchedCases(cs) : values[i] = 10000
  <2>1. \A i \in MatchedCases(cs) : i \in DOMAIN cs /\ cs[i].partialMatch = 10000
    BY DEF MatchedCases, Scored
  <2> QED
    BY <2>1
<1>11. PICK sum \in Nat : sum = SumOf(values) /\ sum >= 10000 * q
  <2>1. \A i \in 1..n : values[i] \in Nat
    BY <1>9
  <2>2. PICK S : S = MatchedCases(cs)
    OBVIOUS
  <2>3. WholesIn(values, n, S)
    <3>1. S \in SUBSET (1..n) /\ \A i \in S : values[i] = 10000
      BY <1>3, <1>10, <2>2
    <3>2. Len(values) = n
      BY <1>9
    <3> QED
      BY <2>1, <3>1, <3>2 DEF WholesIn
  <2>4. SumOf(values) \in Nat /\ SumOf(values) >= 10000 * Cardinality(S)
    BY <1>6, <2>3, SumOfWholes
  <2> QED
    BY <1>4, <2>2, <2>4
<1>12. Mean(values) = Round(sum, n)
  BY <1>9, <1>11 DEF Mean
<1>13. Ratio(q, n) <= Round(sum, n)
  <2>1. PICK k \in Nat : k = 10000 * q /\ k <= sum
    BY <1>11
  <2>2. k * n <= sum * n
    BY <1>6, <2>1, Times
  <2>3. Round(k, n) <= Round(sum, n)
    BY <1>6, <2>2, RoundGrows
  <2> QED
    BY <1>6, <2>1, <2>3 DEF Ratio
<1> QED
  BY <1>1, <1>4, <1>5, <1>7, <1>12, <1>13

\* Rounding keeps the order of latencies.
LEMMA TenthsGrow ==
    ASSUME NEW x \in Nat, NEW y \in Nat, x <= y
    PROVE  Tenths(x) <= Tenths(y)
<1>1. x * 1000 <= y * 1000
  OBVIOUS
<1> QED
  BY <1>1, RoundGrows DEF Tenths

\* What MetricsOrdered says of the report of the cases.
InOrderOf(cs, passed, m) ==
    LET times == {cs[i].latency : i \in DOMAIN cs}
        tiers == {m.tiers[t] : t \in DOMAIN m.tiers}
    IN  /\ m.accuracy <= m.setMatch /\ m.setMatch <= m.partial
        /\ (\A i \in DOMAIN cs : cs[i].difficulty \in Tiers) =>
             Min(tiers) <= m.accuracy /\ m.accuracy <= Max(tiers)
        /\ Tenths(100 * Min(times)) <= m.p50 /\ m.p50 <= m.p95
        /\ m.p95 <= Tenths(100 * Max(times))
        /\ Nearest(m.accuracy, 10000 * passed, Len(cs))

\* compute_metrics makes such a report of any cases as score_case leaves them.
LEMMA MetricsAreOrdered ==
    ASSUME NEW cs, IsSeq(cs), cs # <<>>, \A i \in DOMAIN cs : Scored(cs[i]),
           NEW m, m = ComputeMetrics(cs), NEW passed, passed = Cardinality(PassedCases(cs))
    PROVE  InOrderOf(cs, passed, m)
<1>1. PICK values, latencies, T :
        /\ values = [i \in DOMAIN cs |-> cs[i].partialMatch]
        /\ latencies = [i \in DOMAIN cs |-> cs[i].latency]
        /\ T = [t \in {u \in Tiers : Tier(cs, u) # <<>>} |-> Accuracy(Tier(cs, t))]
  OBVIOUS
<1>2. /\ m.accuracy = Accuracy(cs) /\ m.setMatch = Ratio(Cardinality(MatchedCases(cs)), Len(cs))
      /\ m.partial = Mean(values) /\ m.tiers = T
      /\ m.p50 = Tenths(Percentile(latencies, 50)) /\ m.p95 = Tenths(Percentile(latencies, 95))
  BY <1>1 DEF ComputeMetrics, MatchedCases, CountIn
<1>3. /\ m.accuracy <= m.setMatch /\ m.setMatch <= m.partial
      /\ Nearest(m.accuracy, 10000 * passed, Len(cs))
  BY <1>1, <1>2, ScoresOrdered
<1>4. ASSUME \A i \in DOMAIN cs : cs[i].difficulty \in Tiers
      PROVE  /\ Min({m.tiers[t] : t \in DOMAIN m.tiers}) <= m.accuracy
             /\ m.accuracy <= Max({m.tiers[t] : t \in DOMAIN m.tiers})
  <2>1. PICK U : U = {Accuracy(Tier(cs, t)) : t \in {u \in Tiers : Tier(cs, u) # <<>>}}
    OBVIOUS
  <2>2. {m.tiers[t] : t \in DOMAIN m.tiers} = U
    BY <1>1, <1>2, <2>1
  <2>3. Min(U) <= Accuracy(cs) /\ Accuracy(cs) <= Max(U)
    BY <1>4, <2>1, TiersAround
  <2> QED
    BY <1>2, <2>2, <2>3
<1>5. /\ Tenths(100 * Min({cs[i].latency : i \in DOMAIN cs})) <= m.p50 /\ m.p50 <= m.p95
      /\ m.p95 <= Tenths(100 * Max({cs[i].latency : i \in DOMAIN cs}))
  <2>1. PICK n : n = Len(cs) /\ n \in Nat /\ n # 0 /\ DOMAIN cs = 1..n
    <3>1. PICK n : n = Len(cs) /\ n \in Nat /\ DOMAIN cs = 1..n
      BY SeqFacts
    <3>2. n # 0
      BY <3>1, EmptySeq DEF IsSeq
    <3> QED
      BY <3>1, <3>2
  <2>2. latencies \in [1..n -> Nat]
    BY <1>1, <2>1 DEF Scored
  <2>3. latencies \in Seq(Nat)
    BY <2>1, <2>2, SeqDef
  <2>4. IsSeq(latencies) /\ ToSet(latencies) \subseteq Nat
    BY <2>3, SeqOfSeq
  <2>5. latencies # <<>>
    BY <2>1, <2>2, <2>3, LenProperties, EmptySeq
  <2>6. ToSet(latencies) = {cs[i].latency : i \in DOMAIN cs}
    BY <1>1 DEF ToSet
  <2>7. /\ 100 * Min(ToSet(latencies)) <= Percentile(latencies, 50)
        /\ Percentile(latencies, 50) <= Percentile(latencies, 95)
        /\ Percentile(latencies, 95) <= 100 * Max(ToSet(latencies))
    BY <2>4, <2>5, PercentilesAscend
  <2>8. PICK a \in Nat, b \in Nat, c \in Nat, d \in Nat :
          /\ a = 100 * Min(ToSet(latencies)) /\ b = Percentile(latencies, 50)
          /\ c = Percentile(latencies, 95) /\ d = 100 * Max(ToSet(latencies))
    BY <2>4, <2>5, PercentilesAscend
  <2>9. a <= b /\ b <= c /\ c <= d
    BY <2>7, <2>8
  <2>10. Tenths(a) <= Tenths(b) /\ Tenths(b) <= Tenths(c) /\ Tenths(c) <= Tenths(d)
    BY <2>9, TenthsGrow
  <2> QED
    BY <1>2, <2>6, <2>8, <2>10
<1> QED
  BY <1>3, <1>4, <1>5 DEF InOrderOf

\* The partial score is never negative.
LEMMA PartialIsNatural ==
    ASSUME NEW expected \in Table, NEW actual \in Table
    PROVE  PartialMatch(expected, actual) \in Nat
<1> DEFINE e == ToSet(NormRows(expected))
           found == e \intersect ToSet(NormRows(actual))
<1>1. CASE e = {}
  BY <1>1 DEF PartialMatch
<1>2. CASE e # {}
  <2>1. PICK k, n : k = Cardinality(found) /\ n = Cardinality(e)
    OBVIOUS
  <2>2. IsFiniteSet(e)
    BY NormalisedRows
  <2>3. k \in Nat /\ n \in Nat \ {0}
    <3> HIDE DEF e
    <3> QED
      BY <1>2, <2>1, <2>2, FS_Subset, FS_CardinalityType, FS_EmptySet
  <2>4. PartialMatch(expected, actual) = Round(10000 * k, n)
    BY <1>2, <2>1 DEF PartialMatch
  <2>5. Round(10000 * k, n) \in Nat
    <3>1. 10000 * k \in Nat
      BY <2>3
    <3> QED
      BY <2>3, <3>1, Rounded
  <2> QED
    BY <2>4, <2>5
<1> QED
  BY <1>1, <1>2

\* The numbers of a case are natural numbers, and what is reported is of the cases.
Numbered == \A i \in DOMAIN cases : cases[i].partialMatch \in Nat /\ cases[i].latency \in Nat
Reported(r, cs) ==
    r # Nobody =>
      /\ cs # <<>> /\ r.passed = Cardinality(PassedCases(cs)) /\ r.metrics = ComputeMetrics(cs)
MetricsInv == ScoresInv /\ Numbered /\ Reported(report, cases)

\* So is a further case.
LEMMA NumberStep ==
    ASSUME MetricsInv, ScoresInv', UNCHANGED <<setting, report>>, Len(cases) < Len(setting.golden),
           NEW output, NEW latency \in setting.latencies,
           NEW query, query = setting.golden[Len(cases) + 1],
           output \in Outputs(query) \union {Output({}, <<>>, 0, TRUE)},
           cases' = Append(cases, ScoreCase(query, output, latency))
    PROVE  MetricsInv'
<1> DEFINE c == ScoreCase(query, output, latency)
<1>1. IsSeq(cases) /\ Len(cases) \in Nat /\ DOMAIN cases = 1..Len(cases)
  BY LenProperties DEF MetricsInv, ScoresInv, IsSeq
<1>2. setting \in Settings /\ Len(cases) + 1 \in 1..Len(setting.golden)
  <2>1. setting \in Settings /\ setting.golden \in Seq(ToSet(setting.golden))
    BY SettingAssumption DEF MetricsInv, ScoresInv
  <2> QED
    BY <1>1, <2>1, LenProperties
<1>3. query.rows \in Table /\ query.sql # {}
  BY <1>2, GoldenQuery
<1>4. output.rows \in Table
  BY <1>2, <1>3, OutputRows
<1>5. c.partialMatch \in Nat /\ c.latency \in Nat
  <2>1. c.partialMatch = PartialMatch(query.rows, output.rows) /\ c.latency = latency
    BY DEF ScoreCase
  <2>2. latency \in Nat
    BY <1>2, SettingAssumption
  <2> QED
    BY <1>3, <1>4, <2>1, <2>2, PartialIsNatural
<1> HIDE DEF c
<1>6. cases' = Append(cases, c)
  BY DEF c
<1>7. Longer(cases', cases, c)
  BY <1>1, <1>6, AppendedLonger
<1>8. Numbered'
  BY <1>1, <1>5, <1>7 DEF MetricsInv, Numbered, Longer
<1>9. report = Nobody /\ report' = Nobody
  BY <1>1, <1>2 DEF MetricsInv, ScoresInv
<1> QED
  BY <1>8, <1>9 DEF MetricsInv, Reported

\* The report is made of all cases and of no other.
LEMMA MetricsStep == MetricsInv /\ [Next]_vars => MetricsInv'
<1> SUFFICES ASSUME MetricsInv, [Next]_vars
             PROVE  MetricsInv'
  OBVIOUS
<1>1. ScoresInv /\ ScoresInv'
  BY ScoresStep DEF MetricsInv
<1>2. ASSUME UNCHANGED <<setting, cases, report>>
      PROVE  MetricsInv'
  BY <1>1, <1>2 DEF MetricsInv, Numbered, Reported, PassedCases
<1>3. CASE UNCHANGED vars
  BY <1>2, <1>3 DEF vars, stageVars
<1>4. CASE \E c \in setting.threads :
             LogRecord(c) \/ Filtering(c) \/ Summarise(c) \/ SummariseRaises(c)
  BY <1>2, <1>4 DEF LogRecord, Filtering, stageVars, Summarise, SummariseRaises
<1>5. CASE \E w \in PoolThreads : Detecting(w)
  BY <1>2, <1>5 DEF Detecting, stageVars
<1>6. CASE Case
  BY <1>1, <1>6, NumberStep DEF Case, RunCase
<1>7. CASE CrashedCase
  BY <1>1, <1>7, NumberStep DEF CrashedCase, RunCase
<1>8. CASE Report
  <2>1. UNCHANGED <<setting, cases>> /\ Len(cases) = Len(setting.golden) /\ setting.golden # <<>>
    BY <1>8 DEF Report
  <2>2. cases # <<>>
    <3>1. setting.golden \in Seq(ToSet(setting.golden)) /\ cases \in Seq(ToSet(cases))
      BY <1>1, SettingAssumption DEF ScoresInv
    <3> QED
      BY <2>1, <3>1, EmptySeq
  <2>3. report' = [passed |-> Cardinality(PassedCases(cases)), metrics |-> ComputeMetrics(cases)]
    BY <1>8 DEF Report, CountIn, PassedCases
  <2>4. Reported(report', cases)
    BY <2>2, <2>3 DEF Reported
  <2>5. Numbered'
    BY <2>1 DEF MetricsInv, Numbered
  <2> QED
    BY <1>1, <2>1, <2>4, <2>5 DEF MetricsInv
<1> QED
  BY <1>3, <1>4, <1>5, <1>6, <1>7, <1>8 DEF Next

\* metrics.py:compute_metrics, for every set of golden queries, every agent and every
\* latency: the headline numbers are in the order of the scores they are made of, the
\* accuracy lies between those of the tiers and is that of the queries passed, and the
\* percentiles of the latency lie between the least and the largest, all as rounded.
THEOREM HeadlinesOrdered == Spec => []MetricsOrdered
<1>1. Init => MetricsInv
  <2> SUFFICES ASSUME Init
               PROVE  MetricsInv
    OBVIOUS
  <2>1. ScoresInv
    BY SettingAssumption, EmptySeq DEF Init, ScoresInv, ScoresAgree, ToSet
  <2>2. Numbered /\ Reported(report, cases)
    BY EmptySeq DEF Init, Numbered, Reported
  <2> QED
    BY <2>1, <2>2 DEF MetricsInv
<1>2. MetricsInv => MetricsOrdered
  <2> SUFFICES ASSUME MetricsInv, report # Nobody
               PROVE  InOrderOf(cases, report.passed, report.metrics)
    BY DEF MetricsOrdered, InOrderOf
  <2>1. IsSeq(cases) /\ cases # <<>>
    BY DEF MetricsInv, ScoresInv, IsSeq, Reported
  <2>2. \A i \in DOMAIN cases : Scored(cases[i])
    BY DEF MetricsInv, ScoresInv, ScoresAgree, Numbered, Scored
  <2>3. PICK m, passed : m = report.metrics /\ passed = report.passed
    OBVIOUS
  <2>4. m = ComputeMetrics(cases) /\ passed = Cardinality(PassedCases(cases))
    BY <2>3 DEF MetricsInv, Reported
  <2> QED
    BY <2>1, <2>2, <2>3, <2>4, MetricsAreOrdered
<1> QED
  BY <1>1, <1>2, MetricsStep, PTL DEF Spec

-----------------------------------------------------------------------------

JobsApart ==
    /\ \A i, j \in DOMAIN queue : i # j => Apart(queue[i], queue[j])
    /\ \A i \in DOMAIN queue : \A w \in Busy : Apart(queue[i], running[w])
    /\ \A w, v \in Busy : w # v => Apart(running[w], running[v])

TypeInv == FilterInv /\ JobsApart /\ logs \in 0..setting.logs /\ ScoresInv

\* A ticket is new when it is submitted, since those of jobs were issued before.
LEMMA SubmitApart ==
    ASSUME FilterInv, JobsApart, NEW c \in Callers, Submit(c)
    PROVE  JobsApart'
<1>0. PICK job : job = [caller |-> c, ticket |-> scrub[c].ticket + 1,
                        detector |-> At(scrub[c]) + 1, text |-> InWork(scrub[c])]
  OBVIOUS
<1>1. /\ queue' = Append(queue, job) /\ queue \in Seq(Job)
      /\ UNCHANGED running /\ running \in [PoolThreads -> Job \union {Nobody}]
  BY <1>0 DEF Submit, FilterInv, Kinds
<1>2. job.caller = c /\ job.ticket = scrub[c].ticket + 1 /\ scrub[c].ticket \in Nat
  BY <1>0 DEF FilterInv, Kinds, Scrub
<1>3. ASSUME NEW other \in Job, Kept(other)
      PROVE  Apart(other, job) /\ Apart(job, other)
  BY <1>2, <1>3 DEF Kept, Issued, Apart, Job
<1>4. \A i \in DOMAIN queue : queue[i] \in Job /\ Kept(queue[i])
  BY <1>1 DEF FilterInv, JobsKnown
<1>5. \A w \in Busy : running[w] \in Job /\ Kept(running[w])
  BY <1>1 DEF FilterInv, JobsKnown, Busy
<1>6. /\ DOMAIN queue' = DOMAIN queue \union {Len(queue) + 1}
      /\ Len(queue) + 1 \notin DOMAIN queue
      /\ \A i \in DOMAIN queue : queue'[i] = queue[i]
      /\ queue'[Len(queue) + 1] = job
  BY <1>1
<1>7. Busy' = Busy
  BY <1>1 DEF Busy
<1>8. \A i, j \in DOMAIN queue' : i # j => Apart(queue'[i], queue'[j])
  BY <1>3, <1>4, <1>6 DEF JobsApart
<1>9. \A i \in DOMAIN queue' : \A w \in Busy : Apart(queue'[i], running[w])
  BY <1>3, <1>5, <1>6 DEF JobsApart
<1> QED
  BY <1>1, <1>7, <1>8, <1>9 DEF JobsApart, Apart

\* A pool thread that takes the first job of the queue leaves no copy of it there.
LEMMA StartApart ==
    ASSUME FilterInv, JobsApart, NEW w \in PoolThreads, Start(w)
    PROVE  JobsApart'
<1>1. /\ queue # <<>> /\ queue \in Seq(Job) /\ queue' = Tail(queue)
      /\ running' = [running EXCEPT ![w] = queue[1]] /\ running[w] = Nobody
      /\ running \in [PoolThreads -> Job \union {Nobody}]
  BY DEF Start, FilterInv, Kinds
<1>2. /\ 1 \in DOMAIN queue
      /\ \A i \in DOMAIN queue' : /\ i + 1 \in DOMAIN queue /\ i + 1 # 1
                                  /\ i \in Nat /\ queue'[i] = queue[i + 1]
  BY <1>1
<1>3. \A v \in Busy' : \/ v = w /\ running'[v] = queue[1]
                       \/ v # w /\ v \in Busy /\ running'[v] = running[v]
  BY <1>1 DEF Busy
<1>4. \A i, j \in DOMAIN queue' : i # j => Apart(queue'[i], queue'[j])
  <2> SUFFICES ASSUME NEW i \in DOMAIN queue', NEW j \in DOMAIN queue', i # j
               PROVE  Apart(queue'[i], queue'[j])
    OBVIOUS
  <2>1. i + 1 # j + 1
    BY <1>2
  <2> QED
    BY <1>2, <2>1 DEF JobsApart
<1>5. \A i \in DOMAIN queue' : \A v \in Busy' : Apart(queue'[i], running'[v])
  BY <1>2, <1>3 DEF JobsApart
<1>6. \A v, u \in Busy' : v # u => Apart(running'[v], running'[u])
  BY <1>2, <1>3 DEF JobsApart, Apart
<1> QED
  BY <1>4, <1>5, <1>6 DEF JobsApart, Apart

\* Tickets only go up, so that a new job is apart from all others.
LEMMA TypeStep == TypeInv /\ [Next]_vars => TypeInv'
<1> SUFFICES ASSUME TypeInv, [Next]_vars
             PROVE  TypeInv'
  OBVIOUS
<1>1. FilterInv' /\ ScoresInv'
  BY FilterStep, ScoresStep DEF TypeInv
<1>2. UNCHANGED setting
  BY StageSteps DEF TypeInv, vars, stageVars
<1>3. logs' \in 0..setting.logs
  <2>1. setting.logs \in Nat /\ logs \in 0..setting.logs
    BY SettingAssumption DEF TypeInv, ScoresInv
  <2>2. CASE \E c \in setting.threads : LogRecord(c)
    BY <2>1, <2>2 DEF LogRecord
  <2>3. CASE UNCHANGED logs
    BY <2>1, <2>3
  <2> QED
    BY <2>2, <2>3 DEF Next, Filtering, Detecting, stageVars, vars, Summarise, SummariseRaises,
                      Case, CrashedCase, RunCase, Report
<1>4. JobsApart'
  <2> USE DEF TypeInv
  <2>1. ASSUME UNCHANGED <<queue, running>>
        PROVE  JobsApart'
    BY <2>1 DEF JobsApart, Busy, Apart
  <2>2. ASSUME NEW c \in Callers, Caller(c)
        PROVE  JobsApart'
    BY <2>1, <2>2, SubmitApart DEF Caller, Take, TimeOut, EndWarning, Finish
  <2>3. ASSUME NEW w \in PoolThreads, Result(w)
        PROVE  JobsApart'
    <3>1. /\ UNCHANGED queue /\ running' = [running EXCEPT ![w] = Nobody]
          /\ running \in [PoolThreads -> Job \union {Nobody}]
      BY <2>3 DEF Result, FilterInv, Kinds
    <3>2. \A v \in Busy' : v \in Busy /\ running'[v] = running[v]
      BY <3>1 DEF Busy
    <3> QED
      BY <3>1, <3>2 DEF JobsApart, Apart
  <2>4. CASE UNCHANGED vars
    BY <2>1, <2>4 DEF vars, poolVars
  <2>5. CASE Next
    BY <2>1, <2>2, <2>3, <2>5, StageSteps, StartApart DEF Log, poolVars
  <2> QED
    BY <2>4, <2>5
<1> QED
  BY <1>1, <1>2, <1>3, <1>4 DEF TypeInv

\* Every job belongs to a scrub of its caller and has a ticket of its own, and a caller
\* waits only between two detectors.
THEOREM TypeCorrect == Spec => []TypeOK
<1>1. Init => TypeInv
  <2> SUFFICES ASSUME Init
               PROVE  TypeInv
    OBVIOUS
  <2>1. ScoresInv
    BY SettingAssumption, EmptySeq DEF Init, ScoresInv, ScoresAgree, ToSet
  <2>2. JobsApart /\ logs \in 0..setting.logs
    BY SettingAssumption DEF Init, PoolInit, JobsApart, Busy
  <2> QED
    BY <2>1, <2>2, FilterInit DEF TypeInv
<1>2. TypeInv => TypeOK
  <2> SUFFICES ASSUME TypeInv
               PROVE  TypeOK
    OBVIOUS
  <2>1. \A c \in Callers : At(scrub[c]) \in 0..Len(Detectors)
    BY InnermostString DEF TypeInv, FilterInv, Kinds
  <2>2. \A w \in Busy : \A v \in Busy \ {w} : Apart(running[w], running[v])
    BY DEF TypeInv, JobsApart
  <2> QED
    BY <2>1, <2>2 DEF TypeInv, FilterInv, WaitsForDetector, JobsKnown, Kept, JobsApart,
                      ScoresInv, TypeOK
<1> QED
  BY <1>1, <1>2, TypeStep, PTL DEF Spec

-----------------------------------------------------------------------------

\* What SettingAssumption says of the table of a result.
WellFormed(table) ==
    /\ table.rows \in Table
    /\ DOMAIN table.columns = 1..Len(table.columns) /\ Len(table.columns) \in Nat
    /\ \A r \in DOMAIN table.rows : DOMAIN table.rows[r] = DOMAIN table.columns

\* A finite nonempty set of rows has one with the largest and one with the least value.
LEMMA Extremes ==
    ASSUME NEW S, S # {}, IsFiniteSet(S), NEW f \in [S -> Int]
    PROVE  /\ {r \in S : \A s \in S : f[s] <= f[r]} # {}
           /\ {r \in S : \A s \in S : f[s] >= f[r]} # {}
<1>1. ASSUME NEW g \in [S -> Int]
      PROVE  \E r \in S : \A s \in S : g[s] <= g[r]
  <2> DEFINE V == {g[r] : r \in S}
  <2>1. g \in Surjection(S, V)
    BY DEF Surjection
  <2>2. IsFiniteSet(V)
    <3> HIDE DEF V
    <3> QED
      BY <2>1, FS_Surjection
  <2>3. V \in SUBSET Int /\ V # {}
    OBVIOUS
  <2>4. PICK m \in V : \A n \in V : n <= m
    <3> HIDE DEF V
    <3> QED
      BY <2>2, <2>3, LargestOfFinite
  <2> QED
    BY <2>4
<1>2. PICK r \in S : \A s \in S : f[s] <= f[r]
  BY <1>1
<1> DEFINE g == [s \in S |-> 0 - f[s]]
<1>3. g \in [S -> Int]
  OBVIOUS
<1>4. PICK q \in S : \A s \in S : g[s] <= g[q]
  <2> HIDE DEF g
  <2> QED
    BY <1>1, <1>3
<1>5. \A s \in S : f[s] >= f[q]
  BY <1>4
<1> QED
  BY <1>2, <1>5

\* The rows with the largest and with the smallest value of a column.
Largest(table, i) ==
    {r \in Known(table, i) : \A s \in Known(table, i) : table.rows[s][i] <= table.rows[r][i]}
Smallest(table, i) ==
    {r \in Known(table, i) : \A s \in Known(table, i) : table.rows[s][i] >= table.rows[r][i]}

\* The rows with a value in a numeric column: the first, the last, the largest and the
\* smallest of them are among them.
LEMMA NumericColumn ==
    ASSUME NEW table, WellFormed(table), NEW i \in DOMAIN table.columns, IsNumeric(table, i)
    PROVE  /\ \A r \in Known(table, i) : table.rows[r][i] \in Int /\ r \in Nat
           /\ Min(Known(table, i)) \in Known(table, i)
           /\ Max(Known(table, i)) \in Known(table, i)
           /\ \A r \in Known(table, i) : Min(Known(table, i)) <= r /\ r <= Max(Known(table, i))
           /\ Min(Largest(table, i)) \in Largest(table, i)
           /\ Min(Smallest(table, i)) \in Smallest(table, i)
           /\ Max(Smallest(table, i)) \in Smallest(table, i)
<1> DEFINE known == Known(table, i)
           tops == Largest(table, i)
           bottoms == Smallest(table, i)
           f == [r \in known |-> table.rows[r][i]]
<1>1. table.rows \in Seq(Seq(Cells)) /\ DOMAIN table.rows = 1..Len(table.rows)
      /\ Len(table.rows) \in Nat
  BY LenProperties DEF WellFormed, Table
<1>2. known # {} /\ known \subseteq DOMAIN table.rows
  BY DEF IsNumeric, Known
<1>3. IsFiniteSet(known) /\ known \in SUBSET Nat
  <2>1. IsFiniteSet(DOMAIN table.rows) /\ DOMAIN table.rows \subseteq Nat
    BY <1>1, FS_Interval
  <2> HIDE DEF known
  <2> QED
    BY <1>2, <2>1, FS_Subset
<1>4. \A r \in known : table.rows[r][i] \in Int
  <2> SUFFICES ASSUME NEW r \in known
               PROVE  table.rows[r][i] \in Int
    OBVIOUS
  <2>1. table.rows[r] \in Seq(Cells) /\ i \in DOMAIN table.rows[r]
    BY <1>1, <1>2 DEF WellFormed
  <2>2. table.rows[r][i] \in Cells
    BY <2>1
  <2>3. Number(table.rows[r][i])
    BY DEF IsNumeric
  <2> QED
    BY <2>2, <2>3 DEF Number, Cells
<1>5. f \in [known -> Int]
  BY <1>4
<1>6. tops # {} /\ bottoms # {}
  <2>1. /\ {r \in known : \A s \in known : f[s] <= f[r]} # {}
        /\ {r \in known : \A s \in known : f[s] >= f[r]} # {}
    <3> HIDE DEF known, f
    <3> QED
      BY <1>2, <1>3, <1>5, Extremes
  <2> QED
    BY <2>1 DEF Largest, Smallest
<1>7. /\ tops \in SUBSET Nat /\ bottoms \in SUBSET Nat /\ IsFiniteSet(bottoms)
      /\ bottoms \in SUBSET Int /\ known \in SUBSET Int
  <2>1. tops \subseteq known /\ bottoms \subseteq known
    BY DEF Largest, Smallest
  <2> HIDE DEF known, tops, bottoms
  <2>2. IsFiniteSet(bottoms)
    BY <1>3, <2>1, FS_Subset
  <2> QED
    BY <1>3, <2>1, <2>2
<1> HIDE DEF known, f, tops, bottoms
<1>8. Min(known) \in known /\ \A r \in known : Min(known) <= r
  BY <1>2, <1>3, MinOfNaturals
<1>9. Max(known) \in known /\ \A r \in known : r <= Max(known)
  BY <1>2, <1>3, <1>7, MaxOfFinite
<1>10. Min(tops) \in tops /\ Min(bottoms) \in bottoms /\ Max(bottoms) \in bottoms
  BY <1>6, <1>7, MinOfNaturals, MaxOfFinite
<1> QED
  BY <1>3, <1>4, <1>8, <1>9, <1>10 DEF known, tops, bottoms

\* First of a set of columns is in it, or there is none.
LEMMA FirstColumn ==
    ASSUME NEW S \in SUBSET Nat
    PROVE  First(S) = 0 \/ First(S) \in S
BY MinOfNaturals DEF First

\* The measure of the backend is a numeric column (summariser.py, _roles).
LEMMA MeasureIsNumeric ==
    ASSUME NEW table, WellFormed(table), Measure(table) # 0
    PROVE  Measure(table) \in DOMAIN table.columns /\ IsNumeric(table, Measure(table))
<1> DEFINE S == {i \in DOMAIN table.columns :
                   /\ IsNumeric(table, i)
                   /\ \A hint \in {"id", "rank", "temporal"} : ~Looks(table, i, hint)}
<1>1. S \in SUBSET Nat
  BY DEF WellFormed
<1>2. Measure(table) = First(S)
  BY DEF Measure
<1> QED
  BY <1>1, <1>2, FirstColumn

\* The measure of the page is a numeric column (dash_intel.py).
LEMMA PageMeasureIsNumeric ==
    ASSUME NEW table, WellFormed(table), PageMeasure(table) # 0
    PROVE  PageMeasure(table) \in DOMAIN table.columns /\ IsNumeric(table, PageMeasure(table))
<1> DEFINE own == {i \in Numeric(table) : ~Looks(table, i, "id")}
           nums == IF own = {} THEN Numeric(table) ELSE own
           Named(k) == {i \in nums : Looks(table, i, Needles[k])}
           found == {k \in DOMAIN Needles : Named(k) # {}}
<1>1. nums \subseteq Numeric(table) /\ Numeric(table) \subseteq DOMAIN table.columns
  BY DEF Numeric
<1>2. nums \in SUBSET Nat /\ nums \in SUBSET Int /\ IsFiniteSet(nums)
  <2>1. IsFiniteSet(DOMAIN table.columns) /\ DOMAIN table.columns \subseteq Nat
    BY FS_Interval DEF WellFormed
  <2> HIDE DEF nums
  <2> QED
    BY <1>1, <2>1, FS_Subset
<1>3. found \in SUBSET Nat
  BY DEF Needles
<1>4. PageMeasure(table) = IF nums = {} THEN 0
                           ELSE IF found # {} THEN Min(Named(Min(found)))
                           ELSE Max(nums)
  BY DEF PageMeasure
<1>5. ASSUME nums # {}, found # {}
      PROVE  Min(Named(Min(found))) \in nums
  <2>1. Min(found) \in found
    <3> HIDE DEF found
    <3> QED
      BY <1>3, <1>5, MinOfNaturals
  <2>2. Named(Min(found)) # {} /\ Named(Min(found)) \subseteq nums
    BY <2>1
  <2> HIDE DEF Named, nums
  <2> QED
    BY <1>2, <2>2, MinOfNaturals
<1> HIDE DEF nums, found, Named
<1>6. PageMeasure(table) \in nums
  BY <1>2, <1>4, <1>5, MaxOfFinite
<1> QED
  BY <1>1, <1>6 DEF Numeric

\* The row that a sentence about the leader is to speak of.
FirstTop(table, value) ==
    Min({r \in Known(table, value) : \A s \in Known(table, value) :
           table.rows[s][value] <= table.rows[r][value]})
OfFirstTop(t, table, label, value) ==
    /\ t = Sentence(t.says, t.words, t.numbers)
    /\ t.says \in Ahead =>
         /\ t.words = <<table.rows[FirstTop(table, value)][label]>>
         /\ t.numbers[1] = table.rows[FirstTop(table, value)][value]

\* A sentence is true of the rows and about the first leader, and the share it gives is
\* one of their total.
Good(t, table, label, value) ==
    /\ True(t, table, label, value)
    /\ OfFirstTop(t, table, label, value)
    /\ t.says = "leads" /\ Len(t.numbers) = 2 =>
         t.numbers[2] = Percent(t.numbers[1], Total(table, value))

TotalsOf(numbers, table) ==
    \A k \in DOMAIN numbers :
        numbers[k].says = "total" =>
            numbers[k].numbers[2] = Total(table, numbers[k].numbers[1])

\* A share of the total is a share of the total that is stated beside it.
LEMMA SharesOfTotals ==
    ASSUME NEW t, NEW table, NEW label, NEW value, Good(t, table, label, value),
           NEW numbers, TotalsOf(numbers, table)
    PROVE  ShareOfTotal(t, numbers, value)
BY DEF Good, TotalsOf, ShareOfTotal

Plain == {"concentrated", "top three", "single", "total", "outlier"}
\* A sentence that claims nothing of a row is good of any rows.
LEMMA PlainIsGood ==
    ASSUME NEW says \in Plain, NEW words, NEW numbers,
           NEW table, NEW label, NEW value
    PROVE  Good(Sentence(says, words, numbers), table, label, value)
BY DEF Good, True, Sentence, Plain, Ahead, OfFirstTop

\* A sentence about the first of the largest is good, with its share or without.
LEMMA AheadIsGood ==
    ASSUME NEW says \in Ahead, NEW table, NEW label, NEW value,
           NEW r \in Known(table, value), r = FirstTop(table, value),
           \A s \in Known(table, value) : table.rows[s][value] <= table.rows[r][value],
           NEW numbers,
           \/ numbers = <<table.rows[r][value]>>
           \/ numbers = <<table.rows[r][value],
                          Percent(table.rows[r][value], Total(table, value))>>
    PROVE  Good(Sentence(says, <<table.rows[r][label]>>, numbers), table, label, value)
<1> DEFINE t == Sentence(says, <<table.rows[r][label]>>, numbers)
<1>1. /\ t.says = says /\ t.words[1] = table.rows[r][label]
      /\ t.words = <<table.rows[r][label]>>
      /\ t.numbers = numbers /\ t.numbers[1] = table.rows[r][value]
  BY DEF Sentence
<1>2. True(t, table, label, value)
  <2> HIDE DEF t
  <2>1. /\ \E s \in Known(table, value) : /\ table.rows[s][value] = t.numbers[1]
                                         /\ table.rows[s][label] = t.words[1]
        /\ \A s \in Known(table, value) : table.rows[s][value] <= t.numbers[1]
    BY <1>1
  <2>2. t.says \in Ahead
    BY <1>1
  <2> QED
    BY <2>1, <2>2 DEF True, Ahead
<1>3. Len(numbers) = 2 => numbers[2] = Percent(table.rows[r][value], Total(table, value))
  OBVIOUS
<1> HIDE DEF t
<1> QED
  BY <1>1, <1>2, <1>3 DEF Good, OfFirstTop, Sentence, t

\* A sentence about a least row is good.
LEMMA LowestIsGood ==
    ASSUME NEW table, NEW label, NEW value,
           NEW r \in Known(table, value),
           \A s \in Known(table, value) : table.rows[s][value] >= table.rows[r][value]
    PROVE  Good(Sentence("lowest", <<table.rows[r][label]>>, <<table.rows[r][value]>>),
                table, label, value)
<1> DEFINE t == Sentence("lowest", <<table.rows[r][label]>>, <<table.rows[r][value]>>)
<1>1. /\ t.says = "lowest" /\ t.words[1] = table.rows[r][label]
      /\ t.numbers[1] = table.rows[r][value]
  BY DEF Sentence
<1> HIDE DEF t
<1> QED
  BY <1>1 DEF True, Good, OfFirstTop, Ahead, Sentence, t

\* Every sentence of the trends is good.
LEMMA TrendsAreGood ==
    ASSUME NEW table, WellFormed(table), HasRoles(table), NEW k \in DOMAIN TrendInsights(table)
    PROVE  Good(TrendInsights(table)[k], table, Dimension(table), Measure(table))
<1> DEFINE i == Measure(table)
           label == Dimension(table)
           from == Min(Pairs(table))
           to == Max(Pairs(table))
           change == Value(table, to) - Value(table, from)
           trend == Sentence(IF change >= 0 THEN "rose" ELSE "fell",
                             <<Label(table, from), Label(table, to)>>,
                             <<Value(table, from), Value(table, to)>>)
           peak == Sentence("peaked", <<Label(table, Top(table))>>, <<Value(table, Top(table))>>)
<1>1. i \in DOMAIN table.columns /\ IsNumeric(table, i)
  BY MeasureIsNumeric DEF HasRoles
<1> HIDE DEF i
<1>2. /\ \A r \in Known(table, i) : table.rows[r][i] \in Int
      /\ from \in Known(table, i) /\ to \in Known(table, i)
      /\ \A r \in Known(table, i) : from <= r /\ r <= to
      /\ Top(table) \in Known(table, i) /\ Top(table) = FirstTop(table, i)
      /\ \A s \in Known(table, i) : table.rows[s][i] <= table.rows[Top(table)][i]
  <2> DEFINE tops == Largest(table, i)
  <2>1. from = Min(Known(table, i)) /\ to = Max(Known(table, i)) /\ Top(table) = Min(tops)
      /\ FirstTop(table, i) = Min(tops)
    BY DEF Top, FirstTop, Pairs, Value, Largest, i
  <2> HIDE DEF from, to
  <2>2. Min(tops) \in tops
    BY <1>1, NumericColumn
  <2> QED
    BY <1>1, <2>1, <2>2, NumericColumn DEF Largest
<1> HIDE DEF from, to, label
<1>3. Good(peak, table, label, i)
  BY <1>2, AheadIsGood DEF Ahead, Label, Value, i, label
<1>4. Good(trend, table, label, i)
  <2> DEFINE v == table.rows[from][i]
             w == table.rows[to][i]
  <2>1. /\ trend.says = IF w - v >= 0 THEN "rose" ELSE "fell"
        /\ trend.words[1] = table.rows[from][label] /\ trend.words[2] = table.rows[to][label]
        /\ trend.numbers[1] = v /\ trend.numbers[2] = w
    BY DEF Sentence, Label, Value, i, label
  <2>2. v \in Int /\ w \in Int
    BY <1>2
  <2> HIDE DEF trend, v, w
  <2>3. trend.says \in {"rose", "fell"} /\ (trend.says = "rose" <=> v <= w)
    BY <2>1, <2>2
  <2>4. True(trend, table, label, i)
    <3>1. /\ \E r \in Known(table, i) : table.rows[r][i] = v
                                        /\ table.rows[r][label] = trend.words[1]
          /\ \E r \in Known(table, i) : table.rows[r][i] = w
                                        /\ table.rows[r][label] = trend.words[2]
      BY <1>2, <2>1 DEF v, w
    <3>2. \A r \in Known(table, i) : \E f, l \in Known(table, i) :
            /\ f <= r /\ table.rows[f][i] = v
            /\ r <= l /\ table.rows[l][i] = w
      BY <1>2 DEF v, w
    <3> QED
      BY <2>1, <2>3, <3>1, <3>2 DEF True, Ahead
  <2> QED
    BY <2>3, <2>4 DEF Good, OfFirstTop, Ahead, Sentence, trend
<1>5. TrendInsights(table) = (IF Value(table, from) = 0 THEN <<>> ELSE <<trend>>) \o <<peak>>
  BY DEF TrendInsights, from, to
<1> HIDE DEF trend, peak
<1>6. TrendInsights(table)[k] \in {trend, peak}
  <2>1. (IF Value(table, from) = 0 THEN <<>> ELSE <<trend>>) \in Seq({trend, peak})
    <3>1. CASE Value(table, from) = 0
      BY <3>1
    <3>2. CASE Value(table, from) # 0
      BY <3>2
    <3> QED
      BY <3>1, <3>2
  <2>2. <<peak>> \in Seq({trend, peak})
    OBVIOUS
  <2>3. TrendInsights(table) \in Seq({trend, peak})
    BY <1>5, <2>1, <2>2, ConcatProperties
  <2> QED
    BY <2>3
<1> QED
  BY <1>3, <1>4, <1>6 DEF i, label

\* Every sentence of a ranking is good.
LEMMA RanksAreGood ==
    ASSUME NEW table, WellFormed(table), HasRoles(table), NEW k \in DOMAIN RankInsights(table)
    PROVE  Good(RankInsights(table)[k], table, Dimension(table), Measure(table))
<1> DEFINE i == Measure(table)
           label == Dimension(table)
           top == Top(table)
           bottom == Bottom(table)
           ordered == SortSeq(SetToSeq({<<Value(table, r), r>> : r \in Pairs(table)}),
                              LAMBDA a, b : a[1] > b[1] \/ (a[1] = b[1] /\ a[2] < b[2]))
           sum == Total(table, i)
           three == ordered[1][1] + ordered[2][1] + ordered[3][1]
           last == Sentence("lowest", <<Label(table, bottom)>>, <<Value(table, bottom)>>)
           lowest == IF Label(table, bottom) = Label(table, top) THEN <<>> ELSE <<last>>
           share == Percent(Value(table, top), sum)
           highest == Sentence("highest", <<Label(table, top)>>, <<Value(table, top)>>)
           leads == Sentence("leads", <<Label(table, top)>>, <<Value(table, top), share>>)
           most == Sentence("concentrated", <<Label(table, top)>>, <<share>>)
           first == Sentence("top three", <<>>, <<Percent(three, sum)>>)
           all == {last, highest, leads, most, first}
           rest == IF share >= 40 THEN <<most>>
                   ELSE IF Len(ordered) >= 3 THEN <<first>> ELSE <<>>
           shares == IF sum = 0 THEN <<>> ELSE <<leads>> \o rest
<1>1. RankInsights(table) =
        IF Looks(table, i, "pct") THEN <<highest>> \o lowest ELSE shares \o lowest
  BY DEF RankInsights
<1>2. i \in DOMAIN table.columns /\ IsNumeric(table, i)
  BY MeasureIsNumeric DEF HasRoles
<1> HIDE DEF i, ordered, three
<1>3. /\ top \in Known(table, i) /\ top = FirstTop(table, i)
      /\ bottom \in Known(table, i)
      /\ \A s \in Known(table, i) : table.rows[s][i] <= table.rows[top][i]
      /\ \A s \in Known(table, i) : table.rows[s][i] >= table.rows[bottom][i]
  <2> DEFINE tops == Largest(table, i)
             bottoms == Smallest(table, i)
  <2>1. /\ Top(table) = Min(tops) /\ Bottom(table) = Max(bottoms)
        /\ FirstTop(table, i) = Min(tops)
    BY DEF Top, FirstTop, Bottom, Pairs, Value, Largest, Smallest, i
  <2>2. Min(tops) \in tops /\ Max(bottoms) \in bottoms
    BY <1>2, NumericColumn
  <2> QED
    BY <2>1, <2>2 DEF Largest, Smallest
<1> HIDE DEF top, bottom, label, sum
<1>4. Good(last, table, label, i)
  BY <1>3, LowestIsGood DEF Label, Value, i, label
<1>5. Good(highest, table, label, i)
  BY <1>3, AheadIsGood DEF Label, Value, i, label, Ahead
<1>6. Good(leads, table, label, i)
  BY <1>3, AheadIsGood DEF Label, Value, i, label, Ahead, sum
<1> HIDE DEF share
<1>7. Good(most, table, label, i) /\ Good(first, table, label, i)
  BY PlainIsGood DEF Plain
<1> HIDE DEF last, highest, leads, most, first
<1>8. RankInsights(table) \in Seq(all)
  <2>1. lowest \in Seq(all)
    <3>1. CASE Label(table, bottom) = Label(table, top)
      BY <3>1
    <3>2. CASE Label(table, bottom) # Label(table, top)
      BY <3>2
    <3> QED
      BY <3>1, <3>2
  <2>2. rest \in Seq(all)
    <3>1. <<most>> \in Seq(all) /\ <<first>> \in Seq(all) /\ <<>> \in Seq(all)
      OBVIOUS
    <3> HIDE DEF all
    <3> QED
      BY <3>1
  <2>3. <<leads>> \in Seq(all) /\ <<highest>> \in Seq(all) /\ <<>> \in Seq(all)
    OBVIOUS
  <2> HIDE DEF all, rest, lowest
  <2>4. <<leads>> \o rest \in Seq(all) /\ <<highest>> \o lowest \in Seq(all)
    BY <2>1, <2>2, <2>3, ConcatProperties
  <2>5. shares \in Seq(all)
    <3>1. CASE sum = 0
      BY <2>3, <3>1
    <3>2. CASE sum # 0
      BY <2>4, <3>2
    <3> QED
      BY <3>1, <3>2
  <2> HIDE DEF shares
  <2>6. shares \o lowest \in Seq(all)
    BY <2>1, <2>5, ConcatProperties
  <2> QED
    BY <1>1, <2>4, <2>6
<1>9. RankInsights(table)[k] \in all
  <2> HIDE DEF all
  <2> QED
    BY <1>8
<1> QED
  BY <1>4, <1>5, <1>6, <1>7, <1>9 DEF i, label

\* Two singletons make a pair.
LEMMA PairOfTwo == ASSUME NEW a, NEW b PROVE <<a>> \o <<b>> = <<a, b>>
<1> DEFINE S == {a, b}
<1>1. /\ <<a>> \in Seq(S) /\ <<b>> \in Seq(S) /\ <<a, b>> \in Seq(S)
      /\ Len(<<a>>) = 1 /\ Len(<<b>>) = 1 /\ Len(<<a, b>>) = 2
      /\ <<a>>[1] = a /\ <<b>>[1] = b /\ <<a, b>>[1] = a /\ <<a, b>>[2] = b
  OBVIOUS
<1> HIDE DEF S
<1>2. PICK x, y, z : x = <<a>> /\ y = <<b>> /\ z = <<a, b>>
  OBVIOUS
<1>3. /\ x \o y \in Seq(S) /\ Len(x \o y) = 2
      /\ (x \o y)[1] = a /\ (x \o y)[2] = b
  BY <1>1, <1>2, ConcatProperties
<1>4. x \o y = z
  <2>1. PICK q : q = x \o y
    OBVIOUS
  <2>2. q \in Seq(S) /\ z \in Seq(S) /\ Len(q) = 2 /\ Len(z) = 2
    BY <1>1, <1>2, <1>3, <2>1
  <2>3. q[1] = z[1] /\ q[2] = z[2]
    BY <1>1, <1>2, <1>3, <2>1
  <2>4. \A i \in 1..Len(q) : q[i] = z[i]
    BY <2>2, <2>3
  <2> QED
    BY <2>1, <2>2, <2>4, SeqEqual
<1> QED
  BY <1>2, <1>4

\* What the chat page works out itself is good as well, and so are both lists of totals.
LEMMA HighlightsAreGood ==
    ASSUME NEW table, WellFormed(table)
    PROVE  /\ \A k \in DOMAIN PageHighlights(table) :
                Good(PageHighlights(table)[k], table, TextColumn(table), PageMeasure(table))
           /\ TotalsOf(PageHighlights(table), table)
<1> DEFINE i == PageMeasure(table)
           label == TextColumn(table)
           sum == Total(table, i)
           top == PageTop(table)
           bottom == PageBottom(table)
           only == Sentence("single", <<>>, <<PageValue(table, 1)>>)
           share == IF sum = 0 THEN <<>> ELSE <<Percent(PageValue(table, top), sum)>>
           leads == Sentence("leads", <<PageLabel(table, top)>>, <<PageValue(table, top)>> \o share)
           lowest == Sentence("lowest", <<PageLabel(table, bottom)>>, <<PageValue(table, bottom)>>)
           total == Sentence("total", <<>>, <<i, sum>>)
           far == Sentence("outlier", <<PageLabel(table, Outlier(table))>>,
                           <<PageValue(table, Outlier(table))>>)
           all == {only, leads, lowest, total, far}
           Fine(t) == /\ Good(t, table, label, i)
                      /\ t.says = "total" => t.numbers[2] = Total(table, t.numbers[1])
           ranked == IF label = 0 THEN <<>> ELSE <<leads, lowest>>
           odd == IF label = 0 \/ Outliers(table) = {} THEN <<>> ELSE <<far>>
<1>1. PageHighlights(table) =
        IF table.rows = <<>> \/ i = 0 THEN <<>>
        ELSE IF Len(table.rows) = 1 THEN <<only>> ELSE ranked \o <<total>> \o odd
  BY DEF PageHighlights
<1>2. CASE i = 0
  BY <1>1, <1>2 DEF TotalsOf
<1>3. CASE i # 0
  <2>1. i \in DOMAIN table.columns /\ IsNumeric(table, i)
    BY <1>3, PageMeasureIsNumeric
  <2> HIDE DEF i
  <2>2. /\ top \in Known(table, i) /\ top = FirstTop(table, i)
        /\ bottom \in Known(table, i)
        /\ \A s \in Known(table, i) : table.rows[s][i] <= table.rows[top][i]
        /\ \A s \in Known(table, i) : table.rows[s][i] >= table.rows[bottom][i]
    <3> DEFINE tops == Largest(table, i)
               bottoms == Smallest(table, i)
    <3>1. /\ PageTop(table) = Min(tops) /\ PageBottom(table) = Min(bottoms)
          /\ FirstTop(table, i) = Min(tops)
      BY DEF PageTop, FirstTop, PageBottom, PageKnown, PageValue, Largest, Smallest, i
    <3>2. Min(tops) \in tops /\ Min(bottoms) \in bottoms
      BY <2>1, NumericColumn
    <3> QED
      BY <3>1, <3>2 DEF Largest, Smallest
  <2> HIDE DEF top, bottom, label, sum
  <2>3. Fine(leads)
    <3>1. \/ <<PageValue(table, top)>> \o share = <<table.rows[top][i]>>
          \/ <<PageValue(table, top)>> \o share
                = <<table.rows[top][i], Percent(table.rows[top][i], sum)>>
      <4>1. CASE sum = 0
        BY <4>1 DEF PageValue, i
      <4>2. CASE sum # 0
        BY <4>2, PairOfTwo DEF PageValue, i
      <4> QED
        BY <4>1, <4>2
    <3>2. Good(leads, table, label, i)
      BY <2>2, <3>1, AheadIsGood DEF PageLabel, label, Ahead, sum
    <3> QED
      BY <3>2 DEF Sentence
  <2>4. Fine(lowest)
    BY <2>2, LowestIsGood DEF PageLabel, PageValue, i, label, Sentence
  <2>5. Fine(only) /\ Fine(far)
    <3>1. Good(only, table, label, i) /\ Good(far, table, label, i)
      BY PlainIsGood DEF Plain
    <3> QED
      BY <3>1 DEF Sentence
  <2>6. Fine(total)
    <3>1. Good(total, table, label, i)
      BY PlainIsGood DEF Plain
    <3> QED
      BY <3>1 DEF Sentence, sum
  <2> HIDE DEF only, leads, lowest, total, far
  <2>7. PageHighlights(table) \in Seq(all)
    <3>1. ranked \in Seq(all) /\ odd \in Seq(all)
      <4>1. <<leads, lowest>> \in Seq(all) /\ <<far>> \in Seq(all) /\ <<>> \in Seq(all)
        OBVIOUS
      <4> HIDE DEF all
      <4> QED
        BY <4>1
    <3>2. <<total>> \in Seq(all) /\ <<only>> \in Seq(all) /\ <<>> \in Seq(all)
      OBVIOUS
    <3> HIDE DEF all, ranked, odd
    <3>3. ranked \o <<total>> \in Seq(all)
      BY <3>1, <3>2, ConcatProperties
    <3>4. ranked \o <<total>> \o odd \in Seq(all)
      BY <3>1, <3>3, ConcatProperties
    <3> QED
      BY <1>1, <3>2, <3>4
  <2>8. \A k \in DOMAIN PageHighlights(table) : PageHighlights(table)[k] \in all
    <3> HIDE DEF all
    <3> QED
      BY <2>7
  <2> HIDE DEF Fine
  <2>9. \A k \in DOMAIN PageHighlights(table) : Fine(PageHighlights(table)[k])
    BY <2>3, <2>4, <2>5, <2>6, <2>8
  <2> QED
    BY <2>9 DEF Fine, TotalsOf, i, label
<1> QED
  BY <1>2, <1>3

\* The important numbers give the total the shares are of.
LEMMA NumbersAreTotals ==
    ASSUME NEW table
    PROVE  TotalsOf(ImportantNumbers(table), table)
<1> DEFINE numeric == SelectSeq([i \in DOMAIN table.columns |-> i],
                                LAMBDA i : IsNumeric(table, i))
           totals == [k \in DOMAIN numeric |->
                        Sentence("total", <<>>, <<numeric[k], Total(table, numeric[k])>>)]
<1>1. ImportantNumbers(table) = IF table.rows = <<>> THEN <<>>
                                ELSE IF numeric = <<>> THEN <<Counting(table)>> ELSE totals
  BY DEF ImportantNumbers
<1> HIDE DEF numeric
<1>2. TotalsOf(totals, table)
  BY DEF TotalsOf, Sentence
<1>3. TotalsOf(<<Counting(table)>>, table) /\ TotalsOf(<<>>, table)
  BY DEF TotalsOf, Counting, Sentence
<1> HIDE DEF totals
<1> QED
  BY <1>1, <1>2, <1>3

\* What InsightsTrue says of one answer.
Truthful(s, p, table) ==
    /\ \A i \in DOMAIN Own(s.trends) :
         /\ True(s.trends[i], table, Dimension(table), Measure(table))
         /\ ShareOfTotal(s.trends[i], Own(s.numbers), Measure(table))
    /\ \A i \in DOMAIN p.highlights :
         /\ True(p.highlights[i], table, TextColumn(table), PageMeasure(table))
         /\ ShareOfTotal(p.highlights[i], p.highlights, PageMeasure(table))

\* All an answer and its page say of a result is good of its rows.
LEMMA AnswersAreTruthful ==
    ASSUME NEW result, NEW reply, WellFormed(result.table), result.table.ok
    PROVE  Truthful(Answer(result, reply).summary, Answer(result, reply).page, result.table)
<1> DEFINE table == result.table
           s == Answer(result, reply).summary
           p == Answer(result, reply).page
<1>1. /\ s.trends = ByModel \/ s.trends = Insights(table)
      /\ s.numbers = ByModel \/ s.numbers = ImportantNumbers(table)
  BY DEF Answer, Summarised
<1>2. p.highlights = PageHighlights(table)
  BY DEF Answer, Page
<1> HIDE DEF s, p
<1>3. \A k \in DOMAIN Insights(table) :
        Good(Insights(table)[k], table, Dimension(table), Measure(table))
  <2> HIDE DEF table
  <2>1. \/ Insights(table) = <<>>
        \/ HasRoles(table) /\ Insights(table) = TrendInsights(table)
        \/ HasRoles(table) /\ Insights(table) = RankInsights(table)
    BY DEF Insights
  <2>2. WellFormed(table)
    BY DEF table
  <2> QED
    BY <2>1, <2>2, TrendsAreGood, RanksAreGood
<1> HIDE DEF table
<1>4. TotalsOf(Own(s.numbers), table)
  <2>1. TotalsOf(<<>>, table)
    BY DEF TotalsOf
  <2> QED
    BY <1>1, <2>1, NumbersAreTotals DEF Own
<1>5. \A k \in DOMAIN Own(s.trends) : Good(s.trends[k], table, Dimension(table), Measure(table))
  BY <1>1, <1>3 DEF Own
<1>6. /\ \A k \in DOMAIN p.highlights :
            Good(p.highlights[k], table, TextColumn(table), PageMeasure(table))
      /\ TotalsOf(p.highlights, table)
  BY <1>2, HighlightsAreGood DEF table
<1>7. Truthful(s, p, table)
  BY <1>4, <1>5, <1>6, SharesOfTotals DEF Truthful, Good
<1> QED
  BY <1>7 DEF s, p, table

\* The steps by which a thread answers; every other one leaves what is shown alone.
Shows(c) ==
    /\ shown[c] = Nobody
    /\ \E answer :
         /\ shown' = [shown EXCEPT ![c] = answer]
         /\ \/ answer = NoAnswer
            \/ \E reply : \E result \in setting.results :
                    answer = Answer(result, reply)

ShownStep == UNCHANGED setting /\ (UNCHANGED shown \/ \E c \in Callers : Shows(c))

\* Who answers shows a summary of a result of the setting, or the text of the exception.
LEMMA StagesShow == ASSUME setting \in Settings, [Next]_vars PROVE ShownStep
<1>1. setting.threads \subseteq Callers
  BY SettingAssumption
<1>2. ASSUME NEW c \in setting.threads, Summarise(c) \/ SummariseRaises(c)
      PROVE  ShownStep
  <2>1. CASE Summarise(c)
    <3>1. PICK result \in setting.results, reply \in setting.replies :
            shown' = [shown EXCEPT ![c] =
                        Answer(result, IF reply = Raises THEN {} ELSE reply)]
      BY <2>1 DEF Summarise
    <3> DEFINE used == IF reply = Raises THEN {} ELSE reply
    <3>2. shown' = [shown EXCEPT ![c] = Answer(result, used)]
      BY <3>1
    <3> HIDE DEF used
    <3> QED
      BY <1>1, <2>1, <3>2 DEF Summarise, ShownStep, Shows
  <2>2. CASE SummariseRaises(c)
    BY <1>1, <2>2 DEF SummariseRaises, ShownStep, Shows
  <2> QED
    BY <1>2, <2>1, <2>2
<1>3. CASE UNCHANGED <<setting, shown>>
  BY <1>3 DEF ShownStep
<1> QED
  BY <1>2, <1>3 DEF Next, vars, stageVars, LogRecord, Filtering, Detecting, Case, CrashedCase,
                    RunCase, Report

InsightsInv == setting \in Settings /\ DOMAIN shown = Callers /\ InsightsTrue

\* So what is shown was truthful when it was shown, and is not changed.
LEMMA InsightsStep == InsightsInv /\ [Next]_vars => InsightsInv'
<1> SUFFICES ASSUME InsightsInv, [Next]_vars
             PROVE  InsightsInv'
  OBVIOUS
<1>1. ShownStep
  BY StagesShow DEF InsightsInv
<1>2. CASE UNCHANGED shown
  BY <1>1, <1>2 DEF ShownStep, InsightsInv, InsightsTrue
<1>3. ASSUME NEW c \in Callers, Shows(c)
      PROVE  InsightsInv'
  <2>1. PICK answer : /\ shown' = [shown EXCEPT ![c] = answer]
                      /\ \/ answer = NoAnswer
                         \/ \E reply : \E result \in setting.results :
                                 answer = Answer(result, reply)
    BY <1>3 DEF Shows
  <2>2. answer.table.ok => Truthful(answer.summary, answer.page, answer.table)
    <3>1. CASE answer = NoAnswer
      BY <3>1 DEF NoAnswer
    <3>2. ASSUME NEW result \in setting.results, NEW reply, answer = Answer(result, reply)
          PROVE  answer.table.ok => Truthful(answer.summary, answer.page, answer.table)
      <4>1. WellFormed(result.table)
        BY SettingAssumption DEF WellFormed, Table, InsightsInv
      <4>2. answer.table = result.table
        BY <3>2 DEF Answer
      <4> QED
        BY <3>2, <4>1, <4>2, AnswersAreTruthful
    <3> QED
      BY <2>1, <3>1, <3>2
  <2>3. \A d \in Callers : shown'[d] = IF d = c THEN answer ELSE shown[d]
    BY <2>1 DEF InsightsInv
  <2>4. InsightsTrue'
    BY <2>2, <2>3 DEF InsightsInv, InsightsTrue, Truthful
  <2> QED
    BY <1>1, <2>1, <2>4 DEF InsightsInv, ShownStep
<1> QED
  BY <1>1, <1>2, <1>3 DEF ShownStep

\* summariser.py:282, "no hallucination", and dash_intel.py: whatever the rows hold, gaps,
\* ties, zeros and negative numbers included, what the summary and the page say of who
\* leads, trails, rose or fell is so, and shares are of the total given beside them.
THEOREM NoHallucination == Spec => []InsightsTrue
<1>1. Init => InsightsInv
  BY DEF Init, InsightsInv, InsightsTrue
<1>2. InsightsInv => InsightsTrue
  BY DEF InsightsInv
<1> QED
  BY <1>1, <1>2, InsightsStep, PTL DEF Spec

-----------------------------------------------------------------------------

\* A label that was redacted is no word any more.
LEMMA RedactTwice ==
    ASSUME NEW word
    PROVE  Redact(Redact(word, DefaultRules), DefaultRules) = Redact(word, DefaultRules)
BY RedactWord, RulesAreLabels, WordAssumption

\* Scrubbing a sentence of one word scrubs that word only.
LEMMA CleanSentence ==
    ASSUME NEW t, NEW word, t = Sentence(t.says, t.words, t.numbers), t.words = <<word>>
    PROVE  /\ Clean(t).says = t.says /\ Clean(t).numbers = t.numbers
           /\ Clean(t).words[1] = Redact(word, DefaultRules)
<1> DEFINE redacted == ApplyRegex(t.words, DefaultRules)
<1>1. redacted[1] = Redact(word, DefaultRules)
  BY DEF ApplyRegex
<1> HIDE DEF redacted
<1>2. Clean(t) = Sentence(t.says, redacted, t.numbers)
  BY DEF Clean, Sentence, redacted
<1> QED
  BY <1>1, <1>2 DEF Sentence

CleanSays ==
    \A t : t = Sentence(t.says, t.words, t.numbers) => Clean(t).says = t.says
\* scrub_summary changes words, never what a sentence says or its numbers.
LEMMA CleaningKeepsSays == CleanSays
BY DEF CleanSays, Clean, Sentence

\* The word and the number that a sentence about the leader is compared by.
Named(t) == <<Redact(t.words[1], DefaultRules), t.numbers[1]>>
Leader(table) ==
    <<Redact(table.rows[FirstTop(table, Measure(table))][Dimension(table)], DefaultRules),
      table.rows[FirstTop(table, Measure(table))][Measure(table)]>>
Agrees(t, table) == t.says \in Ahead => Named(t) = Leader(table)

\* A sentence about the first of the largest agrees, scrubbed or not.
LEMMA FirstTopAgrees ==
    ASSUME NEW t, NEW table, OfFirstTop(t, table, Dimension(table), Measure(table))
    PROVE  Agrees(t, table) /\ Agrees(Clean(t), table)
<1>1. Clean(t).says = t.says
  BY CleaningKeepsSays DEF CleanSays, OfFirstTop
<1>2. ASSUME t.says \in Ahead
      PROVE  Named(t) = Leader(table) /\ Named(Clean(t)) = Leader(table)
  <2> DEFINE word == table.rows[FirstTop(table, Measure(table))][Dimension(table)]
             number == table.rows[FirstTop(table, Measure(table))][Measure(table)]
  <2>1. /\ t = Sentence(t.says, t.words, t.numbers) /\ t.words = <<word>>
        /\ t.numbers[1] = number /\ Leader(table) = <<Redact(word, DefaultRules), number>>
    BY <1>2 DEF OfFirstTop, Leader
  <2> HIDE DEF word, number
  <2>2. Clean(t).numbers = t.numbers /\ Clean(t).words[1] = Redact(word, DefaultRules)
    BY <2>1, CleanSentence
  <2>3. t.words[1] = word
    BY <2>1
  <2> QED
    BY <2>1, <2>2, <2>3, RedactTwice DEF Named
<1> QED
  BY <1>1, <1>2 DEF Agrees

\* The answer names the first of the largest.
LEMMA LeadingIsOfFirstTop ==
    ASSUME NEW table
    PROVE  OfFirstTop(Leading(table), table, Dimension(table), Measure(table))
<1>1. Top(table) = FirstTop(table, Measure(table))
  BY DEF Top, FirstTop, Pairs, Value
<1> QED
  BY <1>1 DEF OfFirstTop, Leading, Sentence, Ahead, Label, Value

\* Sentences that all agree with one table name one leader.
LEMMA OneLeader ==
    ASSUME NEW sentences, NEW table, \A t \in sentences : Agrees(t, table)
    PROVE  Cardinality(Leaders(sentences)) <= 1
<1>1. Leaders(sentences) \subseteq {Leader(table)}
  BY DEF Leaders, Agrees, Named
<1>2. IsFiniteSet({Leader(table)}) /\ Cardinality({Leader(table)}) = 1
  BY FS_Singleton
<1>3. IsFiniteSet(Leaders(sentences)) /\ Cardinality(Leaders(sentences)) <= 1
  BY <1>1, <1>2, FS_Subset
<1> QED
  BY <1>3

\* Whatever the backend says of who is ahead is of the first of the largest.
LEMMA BackendAgrees ==
    ASSUME NEW table, WellFormed(table), NEW sql, NEW reply,
           NEW t \in BackendSentences(Summarised(table, sql, reply))
    PROVE  Agrees(t, table)
<1> DEFINE s == Summarised(table, sql, reply)
<1>1. CASE ~table.ok
  <2>1. /\ s.insights = <<>> /\ Own(s.trends) = <<>>
        /\ s.answer = Sentence("failed", <<>>, <<>>)
        /\ s.takeaway = Sentence("nothing", <<>>, <<>>)
    BY <1>1 DEF Summarised, Failed, Own
  <2> HIDE DEF s
  <2>2. t \in {Sentence("failed", <<>>, <<>>), Sentence("nothing", <<>>, <<>>)}
    BY <2>1 DEF BackendSentences, ToSet, s
  <2> QED
    BY <2>2 DEF Agrees, Ahead, Sentence
<1>2. CASE table.ok
  <2>1. /\ s.insights = CleanAll(Insights(table))
        /\ s.trends = ByModel \/ s.trends = Insights(table)
        /\ s.answer = ByModel \/ s.answer = Clean(FallbackAnswer(table))
        /\ s.takeaway = ByModel \/ s.takeaway = Takeaway(table)
    BY <1>2 DEF Summarised
  <2>2. \A k \in DOMAIN Insights(table) :
          OfFirstTop(Insights(table)[k], table, Dimension(table), Measure(table))
    <3>1. \/ Insights(table) = <<>>
          \/ HasRoles(table) /\ Insights(table) = TrendInsights(table)
          \/ HasRoles(table) /\ Insights(table) = RankInsights(table)
      BY DEF Insights
    <3> QED
      BY <3>1, TrendsAreGood, RanksAreGood DEF Good
  <2>3. /\ OfFirstTop(FallbackAnswer(table), table, Dimension(table), Measure(table))
        /\ OfFirstTop(Takeaway(table), table, Dimension(table), Measure(table))
    <3>1. \A says \in {"nothing", "record", "records"} : \A words, numbers :
            OfFirstTop(Sentence(says, words, numbers), table, Dimension(table), Measure(table))
      BY DEF OfFirstTop, Sentence, Ahead
    <3>2. \/ \E says \in {"nothing", "record", "records"} : \E words, numbers :
               FallbackAnswer(table) = Sentence(says, words, numbers)
          \/ FallbackAnswer(table) = Leading(table)
      BY DEF FallbackAnswer, Counting
    <3>3. \/ \E says \in {"nothing", "record", "records"} : \E words, numbers :
               Takeaway(table) = Sentence(says, words, numbers)
          \/ Takeaway(table) = Leading(table)
      BY DEF Takeaway, Counting
    <3> QED
      BY <3>1, <3>2, <3>3, LeadingIsOfFirstTop
  <2> HIDE DEF s
  <2>4. \/ \E k \in DOMAIN Insights(table) : t \in {Insights(table)[k], Clean(Insights(table)[k])}
        \/ t \in {Clean(FallbackAnswer(table)), Takeaway(table)}
    BY <2>1 DEF BackendSentences, ToSet, Own, CleanAll, s
  <2> QED
    BY <2>2, <2>3, <2>4, FirstTopAgrees
<1> QED
  BY <1>1, <1>2

\* So is whatever the page says, where it reads the same columns.
LEMMA PageAgrees ==
    ASSUME NEW table, WellFormed(table), SameRoles(table), NEW t \in PageSentences(Page(table))
    PROVE  Agrees(t, table)
<1>1. CASE \E k \in DOMAIN PageHighlights(table) : t = PageHighlights(table)[k]
  <2>1. OfFirstTop(t, table, Dimension(table), Measure(table))
    BY <1>1, HighlightsAreGood DEF Good, SameRoles
  <2> QED
    BY <2>1, FirstTopAgrees
<1>2. CASE t = PageExplanation(table)
  <2>1. PageTop(table) = FirstTop(table, Measure(table))
    BY DEF PageTop, FirstTop, PageKnown, PageValue, SameRoles
  <2> DEFINE leads == Sentence("leads", <<PageLabel(table, PageTop(table))>>,
                               <<PageValue(table, PageTop(table))>>)
  <2>2. \/ \E says \in {"nothing", "single", "records", "ranges"} : \E words, numbers :
             t = Sentence(says, words, numbers)
        \/ t = leads
    BY <1>2 DEF PageExplanation, Counting
  <2>3. OfFirstTop(leads, table, Dimension(table), Measure(table))
    BY <2>1 DEF OfFirstTop, Sentence, Ahead, PageLabel, PageValue, SameRoles
  <2>4. \A says \in {"nothing", "single", "records", "ranges"} : \A words, numbers :
          Agrees(Sentence(says, words, numbers), table)
    BY DEF Agrees, Sentence, Ahead
  <2> HIDE DEF leads
  <2> QED
    BY <2>2, <2>3, <2>4, FirstTopAgrees
<1> QED
  BY <1>1, <1>2 DEF PageSentences, Page, ToSet

\* What LeadersAgree says of one answer.
OneName(answer) ==
    LET page == IF SameRoles(answer.table) THEN PageSentences(answer.page) ELSE {}
    IN  Cardinality(Leaders(BackendSentences(answer.summary) \union page)) <= 1

\* So an answer has one leader at most,
LEMMA AnswerHasOneName ==
    ASSUME NEW result, NEW reply, WellFormed(result.table)
    PROVE  OneName(Answer(result, reply))
<1> DEFINE table == result.table
           s == Summarised(table, result.sql, reply)
           page == IF SameRoles(table) THEN PageSentences(Page(table)) ELSE {}
<1>1. \A t \in BackendSentences(s) \union page : Agrees(t, table)
  BY BackendAgrees, PageAgrees
<1>2. Cardinality(Leaders(BackendSentences(s) \union page)) <= 1
  <2> HIDE DEF table, s, page
  <2> QED
    BY <1>1, OneLeader
<1>3. /\ Answer(result, reply).table = table /\ Answer(result, reply).summary = s
      /\ Answer(result, reply).page = Page(table)
  BY DEF Answer
<1> HIDE DEF table, s
<1> QED
  BY <1>2, <1>3 DEF OneName

\* and an exception has none.
LEMMA NoAnswerHasOneName == OneName(NoAnswer)
<1> DEFINE none == [ok |-> FALSE, columns |-> <<>>, rows |-> <<>>]
           failed == [Failed EXCEPT !.answer = Sentence("error", <<>>, <<>>)]
<1>1. WellFormed(none)
  BY DEF WellFormed, Table
<1>2. \A t \in BackendSentences(failed) : Agrees(t, none)
  <2>1. /\ failed.insights = <<>> /\ Own(failed.trends) = <<>>
        /\ failed.answer = Sentence("error", <<>>, <<>>)
        /\ failed.takeaway = Sentence("nothing", <<>>, <<>>)
    BY DEF Failed, Own
  <2> HIDE DEF failed
  <2>2. BackendSentences(failed)
          \subseteq {Sentence("error", <<>>, <<>>), Sentence("nothing", <<>>, <<>>)}
    BY <2>1 DEF BackendSentences, ToSet
  <2>3. \A t \in {Sentence("error", <<>>, <<>>), Sentence("nothing", <<>>, <<>>)} :
          Agrees(t, none)
    BY DEF Agrees, Ahead, Sentence
  <2> QED
    BY <2>2, <2>3
<1>3. NoAnswer.table = none /\ NoAnswer.page = Page(none) /\ NoAnswer.summary = failed
  BY DEF NoAnswer
<1> DEFINE page == IF SameRoles(none) THEN PageSentences(Page(none)) ELSE {}
<1> HIDE DEF none, failed
<1>4. Cardinality(Leaders(BackendSentences(failed) \union page)) <= 1
  BY <1>1, <1>2, PageAgrees, OneLeader
<1> QED
  BY <1>3, <1>4 DEF OneName

LeadersInv == setting \in Settings /\ DOMAIN shown = Callers /\ LeadersAgree

\* What is shown has one leader when it is shown, and is not changed.
LEMMA LeadersStep == LeadersInv /\ [Next]_vars => LeadersInv'
<1> SUFFICES ASSUME LeadersInv, [Next]_vars
             PROVE  LeadersInv'
  OBVIOUS
<1>1. ShownStep
  BY StagesShow DEF LeadersInv
<1>2. CASE UNCHANGED shown
  BY <1>1, <1>2 DEF ShownStep, LeadersInv, LeadersAgree
<1>3. ASSUME NEW c \in Callers, Shows(c)
      PROVE  LeadersInv'
  <2>1. PICK answer : /\ shown' = [shown EXCEPT ![c] = answer]
                      /\ \/ answer = NoAnswer
                         \/ \E reply : \E result \in setting.results :
                                 answer = Answer(result, reply)
    BY <1>3 DEF Shows
  <2>2. OneName(answer)
    <3>1. \A result \in setting.results : WellFormed(result.table)
      BY SettingAssumption DEF WellFormed, Table, LeadersInv
    <3> QED
      BY <2>1, <3>1, AnswerHasOneName, NoAnswerHasOneName
  <2>3. \A d \in Callers : shown'[d] = IF d = c THEN answer ELSE shown[d]
    BY <2>1 DEF LeadersInv
  <2>4. LeadersAgree'
    BY <2>2, <2>3 DEF LeadersInv, LeadersAgree, OneName
  <2> QED
    BY <1>1, <2>1, <2>4 DEF LeadersInv, ShownStep
<1> QED
  BY <1>1, <1>2, <1>3 DEF ShownStep

\* summariser.py chooses the leader of a result in four places, dash_intel.py in a fifth.
\* For every result, ties and missing values included, what is said of a leader by the
\* answer, the takeaway, the insights and the trends, as far as the language model did not
\* write them, and by the highlights and the explanation of the page, where it reads the
\* same columns as the backend, names one label with one value.  Nothing is claimed of the
\* chart and of what the model wrote.
THEOREM OneLeaderNamed == Spec => []LeadersAgree
<1>1. Init => LeadersInv
  BY DEF Init, LeadersInv, LeadersAgree
<1>2. LeadersInv => LeadersAgree
  BY DEF LeadersInv
<1> QED
  BY <1>1, <1>2, LeadersStep, PTL DEF Spec
=============================================================================
