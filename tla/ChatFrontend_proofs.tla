-------------------------- MODULE ChatFrontend_proofs --------------------------
(***************************************************************************)
(* Proofs about ChatFrontend, for every set of questions and results and   *)
(* every number of answers.                                                *)
(*                                                                         *)
(* An answer from the database carries the session id that the page sends  *)
(* from then on, and only Clear gives that id up: so the answers on the    *)
(* page have the id that is sent, which no conversation before used.       *)
(***************************************************************************)
EXTENDS ChatFrontend, DataLemmas

\* The ids made up so far, the one that is sent, and those given up.
Ids ==
    /\ ids \in Nat /\ sessionId \in 0..ids
    /\ retired \subseteq 1..ids /\ sessionId \notin retired

\* The answers on the page, and the ones from the database under the id that is sent.
IsEntry(e) == e.via = "database" => e.session = sessionId /\ sessionId # 0
Page ==
    /\ shown \in Seq({shown[i] : i \in DOMAIN shown})
    /\ \A i \in DOMAIN shown : IsEntry(shown[i])

ChatInv == Ids /\ Page

\* The page is empty at first.
LEMMA InitChat == Init => ChatInv
<1> SUFFICES ASSUME Init PROVE ChatInv
  OBVIOUS
<1> USE DEF Init
<1>1. Ids
  BY DEF Ids
<1>2. Page
  BY EmptySeq DEF Page
<1> QED
  BY <1>1, <1>2 DEF ChatInv

\* An answer appended to the page is its last and leaves the others alone.
LEMMA PageGrows ==
    ASSUME Page, NEW e, shown' = Append(shown, e)
    PROVE  /\ shown' \in Seq({shown'[i] : i \in DOMAIN shown'})
           /\ \A i \in DOMAIN shown' :
                (i \in DOMAIN shown /\ shown'[i] = shown[i]) \/ shown'[i] = e
<1>1. PICK S, q : q = shown /\ S = {shown[i] : i \in DOMAIN shown} \union {e}
  OBVIOUS
<1>2. q \in Seq(S) /\ e \in S
  BY <1>1, SeqMonotonic DEF Page
<1>3. PICK r : r = Append(q, e)
  OBVIOUS
<1>4. PICK n, m : n = Len(q) /\ m = Len(r)
  OBVIOUS
<1>5. /\ r \in Seq(S) /\ m = n + 1 /\ n \in Nat
      /\ \A i \in 1..n : r[i] = q[i]
      /\ r[n + 1] = e
  BY <1>2, <1>3, <1>4, AppendProperties, LenProperties
<1>6. DOMAIN r = 1..m /\ DOMAIN q = 1..n
  BY <1>2, <1>4, <1>5, LenProperties
<1>7. PICK T : T = {r[i] : i \in DOMAIN r}
  OBVIOUS
<1>8. r \in [1..m -> T] /\ m \in Nat
  BY <1>5, <1>6, <1>7, LenProperties
<1>9. r \in Seq(T)
  BY <1>5, <1>6, <1>7, <1>8, SeqDef, SMTT(20)
<1> QED
  BY <1>1, <1>3, <1>5, <1>6, <1>7, <1>9

\* An answer is kept with the id that was sent, or from the database with a new one.
LEMMA StoreChat ==
    ASSUME ChatInv, NEW e, Store(e),
           \/ e.session = sessionId /\ ids' = ids /\ (e.via = "database" => sessionId # 0)
           \/ sessionId = 0 /\ e.session = ids + 1 /\ ids' = ids + 1
    PROVE  ChatInv'
<1>1. /\ sessionId' = IF e.session # 0 THEN e.session ELSE sessionId
      /\ shown' = Append(shown, e) /\ retired' = retired
  BY DEF Store, ChatInv
<1>2. sessionId' = e.session /\ (sessionId # 0 => sessionId' = sessionId)
  BY <1>1 DEF ChatInv, Ids
<1>3. Ids'
  BY <1>1, <1>2 DEF ChatInv, Ids
<1>4. /\ shown' \in Seq({shown'[i] : i \in DOMAIN shown'})
      /\ \A i \in DOMAIN shown' :
           (i \in DOMAIN shown /\ shown'[i] = shown[i]) \/ shown'[i] = e
  BY <1>1, PageGrows DEF ChatInv
<1>5. \A i \in DOMAIN shown : IsEntry(shown[i])
  BY DEF ChatInv, Page
<1>6. e.via = "database" => sessionId' # 0
  BY <1>2 DEF ChatInv, Ids
<1>7. ASSUME NEW i \in DOMAIN shown', shown'[i].via = "database"
      PROVE  shown'[i].session = sessionId' /\ sessionId' # 0
  BY <1>2, <1>4, <1>5, <1>6, <1>7 DEF IsEntry
<1> QED
  BY <1>1, <1>3, <1>4, <1>7 DEF ChatInv, Page, IsEntry

\* The API answers q, or fails.
ApiGives(q) == ApiFails(q) \/ \E result \in Results \union {NoResult} : ApiAnswers(q, result)

\* An answer of the API carries the id that is sent from then on.
LEMMA ApiChat == ASSUME ChatInv, NEW q, ApiGives(q) PROVE ChatInv'
<1>1. CASE ApiFails(q)
  BY <1>1, StoreChat DEF ApiFails, Entry
<1>2. ASSUME NEW result, ApiAnswers(q, result)
      PROVE  ChatInv'
  <2> DEFINE o == IF sessionId = 0 THEN ids + 1 ELSE sessionId
  <2>0. PICK e : e = Entry("database", o, result, q, 0, NoResult)
    OBVIOUS
  <2>1. e.session = o
    BY <2>0, Z3 DEF Entry
  <2>2. Store(e) /\ ids' = IF sessionId = 0 THEN ids + 1 ELSE ids
    BY <1>2, <2>0 DEF ApiAnswers
  <2> QED
    BY <2>1, <2>2, StoreChat
<1> QED
  BY <1>1, <1>2 DEF ApiGives

\* What is sent, what was given up and what is on the page stay as they are while a run
\* waits,
LEMMA PageKept == ASSUME ChatInv, UNCHANGED page PROVE ChatInv'
BY DEF ChatInv, Ids, Page, IsEntry, page

\* and a transform answers under the id that is sent.
LEMMA RunAndStoreChat == ASSUME ChatInv, NEW q, NEW b, RunAndStore(q, b) PROVE ChatInv'
<1>1. CASE Transform(q)
  <2>0. PICK e : e = Entry("memory", sessionId, Apply(q, lastResult), q, lastFrom, lastResult)
    OBVIOUS
  <2>1. e.session = sessionId /\ e.via = "memory"
    BY <2>0, Z3 DEF Entry
  <2>2. Store(e) /\ ids' = ids
    BY <1>1, <2>0 DEF Transform
  <2> QED
    BY <2>1, <2>2, StoreChat
<1> QED
  BY <1>1, PageKept DEF RunAndStore, Wait

\* Clear empties the page when it gives the id up.
LEMMA ClearChat == ASSUME ChatInv, Clear PROVE ChatInv'
<1>1. Ids'
  BY DEF Clear, ChatInv, Ids
<1>2. Page'
  BY EmptySeq DEF Clear, Page
<1> QED
  BY <1>1, <1>2 DEF Clear, ChatInv

\* The steps together; clicks answer nothing.
LEMMA NextChat == ChatInv /\ [Next]_vars => ChatInv'
<1> SUFFICES ASSUME ChatInv, [Next]_vars PROVE ChatInv'
  OBVIOUS
<1>1. ASSUME NEW q \in Asks, Type(q) PROVE ChatInv'
  BY <1>1, RunAndStoreChat DEF Type
<1>2. ASSUME NEW q \in Asks, ClickChip(q) PROVE ChatInv'
  BY <1>2, PageKept DEF ClickChip
<1>3. CASE ClickExample
  BY <1>3, PageKept DEF ClickExample
<1>4. CASE RunExample
  BY <1>4, PageKept DEF RunExample, Wait
<1>5. CASE LoseClick
  BY <1>5, PageKept DEF LoseClick
<1>6. CASE RunQueued
  BY <1>6, RunAndStoreChat DEF RunQueued
<1>7. CASE Answered
  BY <1>7, ApiChat DEF Answered, ApiGives
<1>8. CASE UNCHANGED vars
  BY <1>8, PageKept DEF vars
<1> QED
  BY <1>1, <1>2, <1>3, <1>4, <1>5, <1>6, <1>7, <1>8, ClearChat DEF Next, UserActs

\* In every state of the page's session (streamlit_app.py) the answers shown are of the
\* session whose id is sent next.
THEOREM ChatInvariant == Spec => []ChatInv
BY InitChat, NextChat, PTL DEF Spec

\* streamlit_app.py:1021-1024 and _run_and_store: the answers on the page that came from the
\* backend were given in one session of it, which no conversation cleared before took part
\* in, whatever calls failed and however queued clicks and Clear come between.
THEOREM OneConversation == Spec => []OneSessionPerConversation
<1>1. ASSUME ChatInv, NEW i \in DOMAIN shown, NEW j \in DOMAIN shown, shown[i].via = "database"
      PROVE  /\ shown[i].session \notin retired
             /\ shown[j].via = "database" => shown[i].session = shown[j].session
  BY <1>1 DEF ChatInv, Ids, Page, IsEntry
<1>2. ChatInv => OneSessionPerConversation
  BY <1>1 DEF OneSessionPerConversation
<1> QED
  BY <1>2, ChatInvariant, PTL

-----------------------------------------------------------------------------
(* Which answer a transform starts from.                                    *)

\* The kept result is that of the newest answer on the page with rows, if there is one; a
\* transform starts from the one that was kept.
KeptIsNewest ==
    \A j \in DOMAIN shown :
        NewestBefore(Len(shown) + 1, j) => lastFrom = shown[j].n /\ lastResult = shown[j].result
NewestInv == KeptIsNewest /\ TransformsNewestRows

\* An answer is stored with what was kept before, if it is a transform.
FromKept(e) == e.via = "memory" => e.source = lastFrom /\ e.base = lastResult
LEMMA StoreNewest ==
    ASSUME Page, NewestInv, NEW e, Store(e), FromKept(e)
    PROVE  NewestInv'
<1>1. /\ shown' = Append(shown, e)
      /\ lastResult' = IF e.result.rows # <<>> THEN e.result ELSE lastResult
      /\ lastFrom' = IF e.result.rows # <<>> THEN e.n ELSE lastFrom
  BY DEF Store
<1>2. PICK n, S : n = Len(shown) /\ S = {shown[i] : i \in DOMAIN shown}
  OBVIOUS
<1>3. /\ n \in Nat /\ DOMAIN shown = 1..n
      /\ Len(shown') = n + 1 /\ DOMAIN shown' = 1..(n + 1)
      /\ \A i \in 1..n : shown'[i] = shown[i]
      /\ shown'[n + 1] = e
  <2>1. shown \in Seq(S \union {e}) /\ e \in S \union {e}
    BY <1>2, SeqMonotonic DEF Page
  <2> QED
    BY <1>1, <1>2, <2>1, AppendProperties, LenProperties
<1>4. ASSUME NEW i \in 1..(n + 1), NEW j \in 1..(n + 1), NewestBefore(i, j)'
      PROVE  j \in 1..n /\ NewestBefore(i, j) /\ shown'[j] = shown[j]
  <2>1. /\ j \in 1..(i - 1) /\ shown'[j].result.rows # <<>>
        /\ \A k \in (j + 1)..(i - 1) : shown'[k].result.rows = <<>>
    BY <1>4 DEF NewestBefore
  <2>2. i - 1 <= n /\ j \in 1..n
    BY <1>3, <2>1
  <2>3. \A k \in (j + 1)..(i - 1) : k \in 1..n
    BY <1>3, <2>2
  <2>4. \A k \in (j + 1)..(i - 1) : shown'[k] = shown[k]
    BY <1>3, <2>3
  <2>5. shown'[j] = shown[j]
    BY <1>3, <2>2
  <2>6. \A k \in (j + 1)..(i - 1) : shown[k].result.rows = <<>>
    BY <2>1, <2>4
  <2>7. shown[j].result.rows # <<>>
    BY <2>1, <2>5
  <2> QED
    BY <2>1, <2>2, <2>5, <2>6, <2>7 DEF NewestBefore
<1>5. KeptIsNewest'
  <2>1. SUFFICES ASSUME NEW j \in 1..(n + 1), NewestBefore(n + 2, j)'
                 PROVE  lastFrom' = shown'[j].n /\ lastResult' = shown'[j].result
    BY <1>3 DEF KeptIsNewest
  <2>2. /\ shown'[j].result.rows # <<>>
        /\ \A k \in (j + 1)..(n + 1) : shown'[k].result.rows = <<>>
    BY <1>3, <2>1 DEF NewestBefore
  <2>3. CASE j = n + 1
    BY <1>1, <1>3, <2>2, <2>3
  <2>4. CASE j # n + 1
    <3>1. j \in 1..n /\ n + 1 \in (j + 1)..(n + 1)
      BY <1>3, <2>1, <2>4
    <3>2. e.result.rows = <<>>
      BY <1>3, <2>2, <3>1
    <3>3. NewestBefore(n + 1, j)'
      <4>1. \A k \in (j + 1)..(n + 1 - 1) : k \in (j + 1)..(n + 1)
        BY <1>3, <3>1
      <4>2. j \in 1..(n + 1 - 1)
        BY <1>3, <3>1
      <4>3. \A k \in (j + 1)..(n + 1 - 1) : shown'[k].result.rows = <<>>
        BY <2>2, <4>1
      <4>4. shown'[j].result.rows # <<>>
        BY <2>2
      <4> QED
        BY <1>3, <4>2, <4>3, <4>4 DEF NewestBefore
    <3>4. NewestBefore(n + 1, j) /\ shown'[j] = shown[j]
      BY <1>3, <1>4, <3>1, <3>3
    <3>5. lastFrom = shown[j].n /\ lastResult = shown[j].result
      BY <1>2, <1>3, <3>1, <3>4 DEF NewestInv, KeptIsNewest
    <3> QED
      BY <1>1, <3>2, <3>4, <3>5
  <2> QED
    BY <2>3, <2>4
<1>6. TransformsNewestRows'
  <2>1. SUFFICES ASSUME NEW i \in 1..(n + 1), shown'[i].via = "memory",
                        NEW j \in 1..(n + 1), NewestBefore(i, j)'
                 PROVE  shown'[i].source = shown'[j].n /\ shown'[i].base = shown'[j].result
    BY <1>3 DEF TransformsNewestRows
  <2>2. j \in 1..n /\ NewestBefore(i, j) /\ shown'[j] = shown[j]
    BY <1>4, <2>1
  <2>3. CASE i = n + 1
    <3>1. lastFrom = shown[j].n /\ lastResult = shown[j].result
      BY <1>2, <1>3, <2>2, <2>3 DEF NewestInv, KeptIsNewest
    <3> QED
      BY <1>3, <2>1, <2>2, <2>3, <3>1 DEF FromKept
  <2>4. CASE i # n + 1
    <3>1. i \in 1..n
      BY <1>3, <2>4
    <3>2. shown'[i] = shown[i]
      BY <1>3, <3>1
    <3> QED
      BY <1>3, <2>1, <2>2, <3>1, <3>2 DEF NewestInv, TransformsNewestRows
  <2> QED
    BY <2>3, <2>4
<1> QED
  BY <1>5, <1>6 DEF NewestInv

\* What the API gives is no transform.
LEMMA ApiNewest == ASSUME Page, NewestInv, NEW q, ApiGives(q) PROVE NewestInv'
<1>1. CASE ApiFails(q)
  <2>1. PICK e : e = Entry("error", sessionId, NoResult, q, 0, NoResult)
    OBVIOUS
  <2>2. e.via = "error" /\ Store(e)
    BY <1>1, <2>1, Z3 DEF ApiFails, Entry
  <2> QED
    BY <2>2, StoreNewest DEF FromKept
<1>2. ASSUME NEW result, ApiAnswers(q, result) PROVE NewestInv'
  <2>1. PICK e : e = Entry("database", IF sessionId = 0 THEN ids + 1 ELSE sessionId,
                           result, q, 0, NoResult)
    OBVIOUS
  <2>2. e.via = "database"
    BY <2>1, Z3 DEF Entry
  <2>3. Store(e)
    BY <1>2, <2>1 DEF ApiAnswers
  <2> QED
    BY <2>2, <2>3, StoreNewest DEF FromKept
<1> QED
  BY <1>1, <1>2 DEF ApiGives

LEMMA NewestKept ==
    ASSUME NewestInv, UNCHANGED page
    PROVE  NewestInv'
BY DEF NewestInv, KeptIsNewest, TransformsNewestRows, NewestBefore, page

LEMMA RunNewest == ASSUME Page, NewestInv, NEW q, NEW b, RunAndStore(q, b) PROVE NewestInv'
<1>1. CASE Transform(q)
  <2>1. PICK e : e = Entry("memory", sessionId, Apply(q, lastResult), q, lastFrom, lastResult)
    OBVIOUS
  <2>2. e.source = lastFrom /\ e.base = lastResult
    BY <2>1, Z3 DEF Entry
  <2>3. Store(e)
    BY <1>1, <2>1 DEF Transform
  <2> QED
    BY <2>2, <2>3, StoreNewest DEF FromKept
<1> QED
  BY <1>1, NewestKept DEF RunAndStore, Wait

\* An empty page has no answer to start from.
LEMMA EmptyNewest == shown = <<>> => NewestInv
BY EmptySeq DEF NewestInv, KeptIsNewest, TransformsNewestRows

LEMMA NextNewest == ChatInv /\ NewestInv /\ [Next]_vars => NewestInv'
<1> SUFFICES ASSUME ChatInv, NewestInv, [Next]_vars PROVE NewestInv'
  OBVIOUS
<1>0. Page
  BY DEF ChatInv
<1>1. ASSUME NEW q \in Asks, Type(q) PROVE NewestInv'
  BY <1>0, <1>1, RunNewest DEF Type
<1>2. CASE (\E q \in Asks : ClickChip(q)) \/ ClickExample \/ LoseClick \/ RunExample
  BY <1>2, NewestKept DEF ClickChip, ClickExample, LoseClick, RunExample, Wait
<1>3. CASE Clear
  <2>1. PICK s : s = shown' /\ s = <<>>
    BY <1>3 DEF Clear
  <2> QED
    BY <2>1, EmptySeq DEF NewestInv, KeptIsNewest, TransformsNewestRows
<1>4. CASE Answered
  BY <1>0, <1>4, ApiNewest DEF Answered, ApiGives
<1>5. CASE RunQueued
  BY <1>0, <1>5, RunNewest DEF RunQueued
<1>6. CASE UNCHANGED vars
  BY <1>6, NewestKept DEF vars
<1> QED
  BY <1>1, <1>2, <1>3, <1>4, <1>5, <1>6 DEF Next, UserActs

\* intel_ui.py:7, "the previous result": what an answer made in memory starts from is the
\* newest answer above it that has rows, whatever was asked, failed, found nothing or was
\* ended by the user in between; only the first answers of a cleared page start elsewhere.
THEOREM NewestRowsKept == Spec => []TransformsNewestRows
<1>1. Init => NewestInv
  BY EmptyNewest DEF Init
<1>2. Spec => []NewestInv
  BY <1>1, NextNewest, ChatInvariant, PTL DEF Spec
<1>3. NewestInv => TransformsNewestRows
  BY DEF NewestInv
<1> QED
  BY <1>2, <1>3, PTL

-----------------------------------------------------------------------------
(* What a transform makes of the rows (result_transforms.py, apply).        *)

\* A filter keeps some of the rows, in their order.
LEMMA FilteredRows ==
    ASSUME NEW q, NEW df, IsTable(df), NEW r, r = Filtered(q, df)
    PROVE  IsSeq(r) /\ ToSet(r) \subseteq ToSet(df.rows) /\ Len(r) <= Len(df.rows)
<1>1. PICK s : s = df.rows
  OBVIOUS
<1>2. IsSeq(s)
  BY <1>1 DEF IsTable, IsSeq
<1>3. DOMAIN s = 1..Len(s) /\ Len(s) \in Nat
  BY <1>2, SeqFacts
<1>4. ASSUME NEW S \in SUBSET DOMAIN s, r = Arranged(s, S, Earlier(S))
      PROVE  IsSeq(r) /\ ToSet(r) \subseteq ToSet(s) /\ Len(r) <= Len(s)
  <2>1. PICK R : R = Earlier(S) /\ LinearOn(S, R) /\ r = Arranged(s, S, R)
    BY <1>3, <1>4, EarlierIsLinear
  <2>2. Arranges(r, s, S, R)
    BY <1>2, <2>1, ArrangedSeq
  <2> QED
    BY <2>2 DEF Arranges, ToSet
<1>5. r = s \/ \E S \in SUBSET DOMAIN s : r = Arranged(s, S, Earlier(S))
  <2>1. CASE ~Filters(q, df)
    BY <1>1, <2>1 DEF Filtered
  <2>2. CASE Filters(q, df) /\ Is(q)
    <3>1. PICK S : S = {i \in DOMAIN s : s[i].name = q.filter.is}
      OBVIOUS
    <3>2. r = Arranged(s, S, Earlier(S))
      BY <1>1, <2>2, <3>1 DEF Filtered, Where
    <3> QED
      BY <3>1, <3>2
  <2>3. CASE Filters(q, df) /\ ~Is(q)
    <3>1. PICK S : S = {i \in DOMAIN s : s[i].amount > q.filter.over}
      OBVIOUS
    <3>2. r = Arranged(s, S, Earlier(S))
      BY <1>1, <2>3, <3>1 DEF Filtered, Where
    <3> QED
      BY <3>1, <3>2
  <2> QED
    BY <2>1, <2>2, <2>3
<1> QED
  BY <1>1, <1>2, <1>3, <1>4, <1>5

\* Sorting keeps the rows and puts them in the order of the measure, if there is one.
LEMMA OrderedRows ==
    ASSUME NEW s, IsSeq(s), NEW df, df.columns \in SUBSET Columns, df.columns # {},
           \A row \in ToSet(s) : IsRow(row, df.columns),
           NEW up \in BOOLEAN,
           NEW r, r = IF up THEN Ascending(df, s) ELSE Descending(df, s)
    PROVE  /\ IsSeq(r) /\ ToSet(r) = ToSet(s) /\ Len(r) = Len(s)
           /\ "amount" \in df.columns =>
                \A k, l \in DOMAIN r : k < l =>
                  IF up THEN r[k].amount <= r[l].amount ELSE r[l].amount <= r[k].amount
<1> DEFINE S == DOMAIN s
           Less(i, j) == IF up THEN Below(df, s[i], s[j]) ELSE Below(df, s[j], s[i])
           L == {p \in S \X S : Less(p[1], p[2])}
           R == {p \in S \X S : Less(p[1], p[2]) \/ (p[1] < p[2] /\ ~Less(p[2], p[1]))}
<1>1. S = 1..Len(s) /\ Len(s) \in Nat /\ \A i \in S : s[i] \in ToSet(s)
  BY SeqFacts
<1>2. r = Arranged(s, S, R)
  <2>1. CASE up
    BY <2>1 DEF Ascending, Ordered
  <2>2. CASE ~up
    BY <2>2 DEF Descending, Ordered
  <2> QED
    BY <2>1, <2>2
<1>3. \A i \in S : /\ "amount" \in df.columns => s[i].amount \in Int
                   /\ "amount" \notin df.columns => s[i].name \in Names
  BY <1>1 DEF IsRow, Columns
<1>4. \A i, j \in S : Less(i, j) => ~Less(j, i)
  <2>1. CASE "amount" \in df.columns
    BY <1>3, <2>1 DEF Below
  <2>2. CASE "amount" \notin df.columns
    BY <1>3, <2>2, OrderAssumption DEF Below
  <2> QED
    BY <2>1, <2>2
<1>5. \A i, j, k \in S : Less(i, k) => Less(i, j) \/ Less(j, k)
  <2>1. CASE "amount" \in df.columns
    BY <1>3, <2>1 DEF Below
  <2>2. CASE "amount" \notin df.columns
    BY <1>3, <2>2, OrderAssumption DEF Below
  <2> QED
    BY <2>1, <2>2
<1>6. "amount" \in df.columns => \A i, j \in S : ~Less(j, i) =>
        IF up THEN s[i].amount <= s[j].amount ELSE s[j].amount <= s[i].amount
  BY <1>3 DEF Below
<1>7. /\ \A i, j \in S : <<i, j>> \in L <=> Less(i, j)
      /\ \A i, j \in S : <<i, j>> \in R <=> Less(i, j) \/ (i < j /\ ~Less(j, i))
  OBVIOUS
<1>8. S \in SUBSET Nat
  BY <1>1
<1> HIDE DEF Less, S, L, R
<1>9. LinearOn(S, R)
  <2>1. /\ \A x, y \in S : <<x, y>> \in L => <<y, x>> \notin L
        /\ \A x, y, z \in S : <<x, z>> \in L => <<x, y>> \in L \/ <<y, z>> \in L
        /\ \A x, y \in S : <<x, y>> \in R <=>
             (<<x, y>> \in L \/ (x < y /\ <<y, x>> \notin L))
    BY <1>4, <1>5, <1>7
  <2> QED
    BY <1>8, <2>1, StableIsLinear
<1>10. Arranges(r, s, S, R)
  <2>1. PICK D \in SUBSET DOMAIN s : D = S
    BY DEF S
  <2>2. LinearOn(D, R) /\ r = Arranged(s, D, R)
    BY <1>2, <1>9, <2>1
  <2>3. Arranges(r, s, D, R)
    BY <2>2, ArrangedSeq
  <2> QED
    BY <2>1, <2>3
<1>11. IsSeq(r) /\ Len(r) = Len(s)
  BY <1>1, <1>10, UpTo DEF Arranges
<1>12. ToSet(r) = ToSet(s)
  <2>1. ToSet(s) = {s[i] : i \in S}
    BY DEF ToSet, S
  <2> QED
    BY <1>10, <2>1 DEF Arranges
<1>13. \A i, j \in S : <<i, j>> \in R => ~Less(j, i)
  BY <1>4, <1>7
<1>14. ASSUME "amount" \in df.columns, NEW k \in DOMAIN r, NEW l \in DOMAIN r, k < l
       PROVE  IF up THEN r[k].amount <= r[l].amount ELSE r[l].amount <= r[k].amount
  <2>1. PICK i \in S, j \in S : r[k] = s[i] /\ r[l] = s[j] /\ <<i, j>> \in R
    <3>1. FromPair(r, s, S, R, k, l)
      BY <1>10, <1>14, ArrangedPairs
    <3> QED
      BY <3>1 DEF FromPair
  <2> QED
    BY <1>6, <1>13, <1>14, <2>1
<1> QED
  BY <1>11, <1>12, <1>14

\* Ranking and sorting keep the rows; the largest come first for a "top".
LEMMA SortedRows ==
    ASSUME NEW q \in Asks, NEW df, IsTable(df), df.rows # <<>>,
           NEW s, IsSeq(s), ToSet(s) \subseteq ToSet(df.rows),
           NEW r, r = Sorted(q, df, s)
    PROVE  /\ IsSeq(r) /\ ToSet(r) = ToSet(s) /\ Len(r) = Len(s)
           /\ q.top = "top" /\ "amount" \in df.columns =>
                \A k, l \in DOMAIN r : k < l => r[l].amount <= r[k].amount
<1>1. /\ df.columns \in SUBSET Columns /\ df.columns # {}
      /\ \A row \in ToSet(s) : IsRow(row, df.columns)
  BY DEF IsTable
<1>2. CASE r = Ascending(df, s) /\ ~(q.top = "top" /\ "amount" \in df.columns)
  <2>1. PICK up \in BOOLEAN : up /\ r = IF up THEN Ascending(df, s) ELSE Descending(df, s)
    BY <1>2
  <2> QED
    BY <1>1, <1>2, <2>1, OrderedRows
<1>3. CASE r = Descending(df, s)
  <2>1. PICK up \in BOOLEAN : ~up /\ r = IF up THEN Ascending(df, s) ELSE Descending(df, s)
    BY <1>3
  <2> QED
    BY <1>1, <2>1, OrderedRows
<1>4. CASE r = s /\ ~(q.top = "top" /\ "amount" \in df.columns)
  BY <1>4
<1>5. q.sort \in {"none", "bare", "asc", "desc"}
  BY AskAssumption
<1> QED
  BY <1>2, <1>3, <1>4, <1>5 DEF Sorted, Ranked

\* r is the part of s from a to b.
IsPart(r, s, a, b) ==
    /\ IsSeq(r) /\ ToSet(r) \subseteq ToSet(s) /\ DOMAIN r = 1..Len(r)
    /\ Len(r) = IF a <= b THEN b - a + 1 ELSE 0
    /\ a = 1 => \A i \in 1..b : r[i] = s[i]

\* A part of a sequence consists of its elements.
LEMMA PartOf ==
    ASSUME NEW s, IsSeq(s), NEW a \in Nat \ {0}, NEW b \in Nat, b <= Len(s),
           NEW r, r = SubSeq(s, a, b)
    PROVE  IsPart(r, s, a, b)
<1>1. \A i \in a..b : s[i] \in ToSet(s)
  <2>1. PICK n : n = Len(s) /\ n \in Nat /\ DOMAIN s = 1..n /\ b <= n
    BY SeqFacts
  <2> QED
    BY <2>1, SeqFacts
<1>2. /\ r \in Seq(ToSet(s)) /\ Len(r) = IF a <= b THEN b - a + 1 ELSE 0
      /\ \A i \in 1..b - a + 1 : r[i] = s[a + i - 1]
  BY <1>1, SubSeqProperties
<1>3. IsSeq(r) /\ ToSet(r) \subseteq ToSet(s) /\ DOMAIN r = 1..Len(r)
  BY <1>2, SeqOfSeq, SeqFacts
<1>4. a = 1 => \A i \in 1..b : r[i] = s[i]
  BY <1>2
<1> QED
  BY <1>2, <1>3, <1>4 DEF IsPart

\* A cut leaves as many rows as there are, or as were asked for; "top" leaves the first.
IsCut(r, q, s) ==
    /\ IsSeq(r) /\ ToSet(r) \subseteq ToSet(s) /\ Len(r) <= Len(s)
    /\ q.top # "none" => Len(r) <= q.n
    /\ q.top = "top" => /\ \A k \in DOMAIN r : k \in DOMAIN s /\ r[k] = s[k]
                        /\ \A i \in DOMAIN s \ DOMAIN r : \A k \in DOMAIN r : k < i
LEMMA CutRows ==
    ASSUME NEW q \in Asks, NEW s, IsSeq(s), NEW r, r = Cut(q, s)
    PROVE  IsCut(r, q, s)
<1>1. q.n \in Nat /\ q.top \in {"none", "top", "bottom", "head", "tail"}
  BY AskAssumption
<1>2. PICK len : len = Len(s) /\ len \in Nat /\ DOMAIN s = 1..len
  BY SeqFacts
<1>3. PICK n \in Nat : n = Min({q.n, len}) /\ n <= q.n /\ n <= len
  BY <1>1, <1>2, MinOfTwo
<1>4. CASE q.top = "none"
  BY <1>2, <1>4 DEF Cut, IsCut
<1>5. CASE q.top = "tail"
  <2>1. PICK a \in Nat \ {0} : a = len - n + 1
    BY <1>2, <1>3
  <2>2. r = SubSeq(s, a, len)
    BY <1>2, <1>3, <1>5, <2>1 DEF Cut
  <2>3. IsPart(r, s, a, len)
    <3>1. len \in Nat /\ len <= Len(s)
      BY <1>2
    <3> QED
      BY <3>1, <2>1, <2>2, PartOf
  <2>4. IsSeq(r) /\ ToSet(r) \subseteq ToSet(s) /\ Len(r) = IF a <= len THEN len - a + 1 ELSE 0
    BY <2>3 DEF IsPart
  <2>5. Len(r) = n
    BY <1>2, <1>3, <2>1, <2>4
  <2> QED
    BY <1>2, <1>3, <1>5, <2>4, <2>5 DEF IsCut
<1>6. CASE q.top \notin {"none", "tail"}
  <2>1. r = SubSeq(s, 1, n)
    BY <1>2, <1>3, <1>6 DEF Cut
  <2>2. IsPart(r, s, 1, n)
    <3>1. n \in Nat /\ n <= Len(s) /\ 1 \in Nat \ {0}
      BY <1>2, <1>3
    <3> QED
      BY <2>1, <3>1, PartOf
  <2>3. /\ IsSeq(r) /\ ToSet(r) \subseteq ToSet(s) /\ DOMAIN r = 1..Len(r)
        /\ Len(r) = IF 1 <= n THEN n - 1 + 1 ELSE 0
        /\ \A i \in 1..n : r[i] = s[i]
    BY <2>2 DEF IsPart
  <2>4. Len(r) = n /\ DOMAIN r = 1..n
    BY <1>3, <2>3
  <2>5. \A k \in DOMAIN r : k \in DOMAIN s /\ r[k] = s[k]
    <3>1. ASSUME NEW k \in DOMAIN r PROVE k \in DOMAIN s /\ r[k] = s[k]
      <4>1. k \in 1..n
        BY <2>4
      <4>2. k \in 1..len
        BY <1>2, <1>3, <4>1
      <4> QED
        BY <1>2, <2>3, <4>1, <4>2
    <3> QED
      BY <3>1
  <2>6. \A i \in DOMAIN s \ DOMAIN r : \A k \in DOMAIN r : k < i
    BY <1>2, <1>3, <2>4
  <2> QED
    BY <1>2, <1>3, <2>3, <2>4, <2>5, <2>6 DEF IsCut
<1> QED
  BY <1>4, <1>5, <1>6

\* With the columns to keep, or all of them, the rows make a table.
IsShown(r, df, s) ==
    /\ IsTable(r) /\ r.columns \subseteq df.columns
    /\ DOMAIN r.rows = DOMAIN s /\ Len(r.rows) = Len(s)
    /\ \A k \in DOMAIN s : r.rows[k] = Restrict(s[k], r.columns)
LEMMA ShownRows ==
    ASSUME NEW q, NEW df, IsTable(df), NEW s, IsSeq(s), ToSet(s) \subseteq ToSet(df.rows),
           NEW r, r = Shown(q, df, s)
    PROVE  IsShown(r, df, s)
<1>1. PICK K, len : K = Kept(q, df) /\ len = Len(s)
  OBVIOUS
<1>2. DOMAIN s = 1..len /\ len \in Nat /\ \A i \in DOMAIN s : s[i] \in ToSet(s)
  BY <1>1, SeqFacts
<1>3. \A row \in ToSet(s) : IsRow(row, df.columns)
  BY DEF IsTable
<1>4. s # <<>> => df.columns # {}
  <2>1. SUFFICES ASSUME df.columns = {} PROVE s = <<>>
    OBVIOUS
  <2>2. df.rows = <<>>
    BY <2>1 DEF IsTable
  <2>3. ToSet(s) = {}
    BY <2>2, NoWords
  <2> QED
    BY <2>3, EmptySeq DEF IsSeq
<1>5. CASE K = {}
  <2>1. r.columns = df.columns /\ r.rows = s
    BY <1>1, <1>5 DEF Shown
  <2>2. IsTable(r)
    BY <1>3, <1>4, <2>1 DEF IsTable, IsSeq
  <2>3. \A k \in DOMAIN s : s[k] = Restrict(s[k], df.columns)
    BY <1>2, <1>3 DEF IsRow, Restrict
  <2> QED
    BY <2>1, <2>2, <2>3 DEF IsShown
<1>6. CASE K # {}
  <2>1. PICK t : t = [i \in DOMAIN s |-> Restrict(s[i], K)]
    OBVIOUS
  <2>2. r.columns = K /\ r.rows = t
    BY <1>1, <1>6, <2>1 DEF Shown
  <2>3. K \subseteq df.columns /\ K \in SUBSET Columns
    BY <1>1 DEF Kept, Mentioned, IsTable
  <2>4. t \in [1..len -> ToSet(t)]
    BY <1>2, <2>1 DEF ToSet
  <2>5. IsSeq(t) /\ Len(t) = len
    BY <1>2, <2>4, SeqDef, LenProperties DEF IsSeq
  <2>6. ASSUME NEW row \in ToSet(t) PROVE IsRow(row, K)
    <3>1. PICK i \in DOMAIN s : row = Restrict(s[i], K)
      BY <2>1 DEF ToSet
    <3>2. IsRow(s[i], df.columns)
      BY <1>2, <1>3
    <3>3. row = [column \in K |-> s[i][column]]
      BY <3>1 DEF Restrict
    <3> QED
      BY <2>3, <3>2, <3>3 DEF IsRow
  <2>7. IsTable(r)
    BY <1>6, <2>2, <2>3, <2>5, <2>6 DEF IsTable, IsSeq
  <2> QED
    BY <1>1, <2>1, <2>2, <2>3, <2>5, <2>7 DEF IsShown
<1> QED
  BY <1>5, <1>6

\* What apply makes of a table: rows of it, no more than asked for, the largest at the top.
Reshaped(r, q, df) ==
    LET from == ToSet(Filtered(q, df)) IN
    /\ IsTable(r)
    /\ Len(r.rows) <= Len(df.rows)
    /\ q.top # "none" => Len(r.rows) <= q.n
    /\ \A k \in DOMAIN r.rows : \E row \in from : Restrict(row, r.columns) = r.rows[k]
    /\ q.top = "top" /\ {"name", "amount"} \subseteq r.columns =>
         \A row \in from \ ToSet(r.rows), k \in DOMAIN r.rows :
            row.amount <= r.rows[k].amount
LEMMA ApplyReshapes ==
    ASSUME NEW q \in Asks, NEW df, IsTable(df), df.rows # <<>>, NEW r, r = Apply(q, df)
    PROVE  Reshaped(r, q, df)
<1>1. PICK f : f = Filtered(q, df)
  OBVIOUS
<1>2. PICK o : o = Sorted(q, df, f)
  OBVIOUS
<1>3. PICK c : c = Cut(q, o)
  OBVIOUS
<1>4. r = Shown(q, df, c)
  BY <1>1, <1>2, <1>3 DEF Apply
<1>5. PICK lf, ld : lf = Len(f) /\ ld = Len(df.rows)
  OBVIOUS
<1>6. IsSeq(f) /\ ToSet(f) \subseteq ToSet(df.rows) /\ lf <= ld
  BY <1>1, <1>5, FilteredRows
<1>7. IsSeq(o) /\ ToSet(o) = ToSet(f) /\ Len(o) = lf
  BY <1>2, <1>5, <1>6, SortedRows
<1>8. q.top = "top" /\ "amount" \in df.columns =>
        \A k, l \in DOMAIN o : k < l => o[l].amount <= o[k].amount
  BY <1>2, <1>6, SortedRows
<1>9. IsCut(c, q, o)
  BY <1>3, <1>7, CutRows
<1>10. PICK lc : lc = Len(c)
  OBVIOUS
<1>11. IsSeq(c) /\ ToSet(c) \subseteq ToSet(f) /\ lc <= lf /\ (q.top # "none" => lc <= q.n)
  BY <1>7, <1>9, <1>10 DEF IsCut
<1>12. IsShown(r, df, c)
  BY <1>4, <1>6, <1>11, ShownRows
<1>13. /\ IsTable(r) /\ DOMAIN r.rows = DOMAIN c /\ Len(r.rows) = lc
       /\ r.columns \subseteq df.columns
       /\ \A k \in DOMAIN c : r.rows[k] = Restrict(c[k], r.columns)
  BY <1>10, <1>12 DEF IsShown
<1>14. lc <= ld
  <2>1. lc \in Nat /\ lf \in Nat /\ ld \in Nat
    BY <1>5, <1>6, <1>10, <1>11, SeqFacts DEF IsTable, IsSeq
  <2> QED
    BY <1>6, <1>11, <2>1
<1>15. ASSUME NEW k \in DOMAIN r.rows
       PROVE  \E row \in ToSet(f) : Restrict(row, r.columns) = r.rows[k]
  <2>1. c[k] \in ToSet(f)
    BY <1>11, <1>13, SeqFacts
  <2> QED
    BY <1>13, <2>1
<1>16. ASSUME q.top = "top", {"name", "amount"} \subseteq r.columns,
              NEW row \in ToSet(f) \ ToSet(r.rows), NEW k \in DOMAIN r.rows
       PROVE  row.amount <= r.rows[k].amount
  <2>1. r.columns = df.columns /\ "amount" \in df.columns
    BY <1>13, <1>16 DEF IsTable, Columns
  <2>2. PICK i \in DOMAIN o : row = o[i]
    BY <1>7 DEF ToSet
  <2>3. row = Restrict(row, r.columns)
    BY <1>6, <2>1 DEF IsTable, IsRow, Restrict
  <2>4. i \notin DOMAIN c
    <3>1. SUFFICES ASSUME i \in DOMAIN c PROVE FALSE
      OBVIOUS
    <3>2. c[i] = row
      BY <1>9, <1>16, <2>2, <3>1 DEF IsCut
    <3>3. r.rows[i] = row /\ i \in DOMAIN r.rows
      BY <1>13, <2>3, <3>1, <3>2
    <3> QED
      BY <1>16, <3>3 DEF ToSet
  <2>5. k < i /\ k \in DOMAIN o /\ c[k] = o[k]
    BY <1>9, <1>13, <1>16, <2>4 DEF IsCut
  <2>6. r.rows[k].amount = o[k].amount
    <3>1. r.rows[k] = Restrict(o[k], r.columns)
      BY <1>13, <1>16, <2>5
    <3> QED
      BY <1>16, <3>1 DEF Restrict
  <2> QED
    BY <1>8, <1>16, <2>1, <2>2, <2>5, <2>6
<1> QED
  <2>1. IsTable(r) /\ Len(r.rows) <= ld /\ (q.top # "none" => Len(r.rows) <= q.n)
    BY <1>11, <1>13, <1>14
  <2> QED
    BY <1>1, <1>5, <1>15, <1>16, <2>1 DEF Reshaped

-----------------------------------------------------------------------------
(* Every answer on the page and the rows kept.  A transform starts from a   *)
(* table with rows, and the answer it gives is one again; a click that was  *)
(* taken leaves room for its answer.                                        *)

\* What a transform stored on the page was made of.
Made(e) ==
    e.via = "memory" =>
      /\ e.question \in Asks /\ IsTable(e.base) /\ e.base.rows # <<>>
      /\ e.result = Apply(e.question, e.base)

IsAnswer(e) ==
    /\ IsTable(e.result) /\ Made(e)
    /\ e.n \in 1..answers /\ e.session \in 0..ids

\* The counters, and the one question that may be waiting.
Counters ==
    /\ sessionId \in 0..ids /\ ids \in 0..answers /\ answers \in 0..MaxAnswers
    /\ queued = {} \/ \E q \in Asks : queued = {q}
    /\ asking = {} \/ \E q \in Asks, b \in BOOLEAN : asking = {[question |-> q, byTyping |-> b]}
    /\ example \/ queued # {} \/ asking # {} => answers < MaxAnswers
    /\ example => queued = {}
    /\ example \/ queued # {} => asking = {}

KeptRows == IsTable(lastResult) /\ (lastResult # NoResult => lastResult.rows # <<>>)

PageInv == Page /\ Counters /\ KeptRows /\ \A i \in DOMAIN shown : IsAnswer(shown[i])

\* No result is a table, without a column.
LEMMA NoResultIsTable == IsTable(NoResult) /\ NoResult.rows = <<>>
<1>1. PICK s : s = <<>>
  OBVIOUS
<1>2. ToSet(s) = {} /\ s \in Seq({})
  BY <1>1, EmptySeq, NoWords
<1>3. NoResult.rows = s /\ NoResult.columns = {}
  BY <1>1 DEF NoResult
<1> QED
  BY <1>1, <1>2, <1>3 DEF IsTable

\* Nothing is kept and nothing is shown at first.
LEMMA InitPage == Init => PageInv
<1> SUFFICES ASSUME Init PROVE PageInv
  OBVIOUS
<1>1. Page
  BY InitChat DEF ChatInv
<1>2. Counters
  BY AskAssumption DEF Init, Counters
<1>3. KeptRows
  BY NoResultIsTable DEF Init, KeptRows
<1>4. \A i \in DOMAIN shown : IsAnswer(shown[i])
  BY EmptySeq DEF Init
<1> QED
  BY <1>1, <1>2, <1>3, <1>4 DEF PageInv

\* Store puts an answer on the page and keeps its rows, if it has any.
Tidy ==
    /\ IsTable(lastResult') /\ (lastResult' # NoResult => lastResult'.rows # <<>>)
    /\ sessionId' \in 0..ids' /\ ids' \in 0..answers' /\ answers' = answers + 1
    /\ \A i \in DOMAIN shown' : IsAnswer(shown[i])'
LEMMA StorePage ==
    ASSUME PageInv, NEW e, Store(e), IsTable(e.result), Made(e),
           e.n = answers + 1, e.session \in 0..ids',
           ids' = ids \/ ids' = ids + 1
    PROVE  Tidy
<1>1. /\ sessionId' = IF e.session # 0 THEN e.session ELSE sessionId
      /\ shown' = Append(shown, e) /\ answers' = answers + 1
      /\ lastResult' = IF e.result.rows # <<>> THEN e.result ELSE lastResult
  BY DEF Store
<1>2. sessionId \in 0..ids /\ ids \in 0..answers /\ answers \in Nat
  BY AskAssumption DEF PageInv, Counters
<1>3. sessionId' \in 0..ids' /\ ids' \in 0..answers'
  BY <1>1, <1>2
<1>4. IsTable(lastResult') /\ (lastResult' # NoResult => lastResult'.rows # <<>>)
  BY <1>1 DEF PageInv, KeptRows
<1>5. \A i \in DOMAIN shown' :
        (i \in DOMAIN shown /\ shown'[i] = shown[i]) \/ shown'[i] = e
  BY <1>1, PageGrows DEF PageInv
<1>6. ASSUME NEW i \in DOMAIN shown' PROVE IsAnswer(shown[i])'
  <2>1. PICK x : x = shown'[i]
    OBVIOUS
  <2>2. CASE x = e
    <3>1. e.n \in 1..answers' /\ e.session \in 0..ids'
      BY <1>1, <1>2
    <3> QED
      BY <2>1, <2>2, <3>1 DEF IsAnswer, Made
  <2>3. CASE i \in DOMAIN shown /\ x = shown[i]
    <3>1. IsAnswer(x)
      BY <2>3 DEF PageInv
    <3>2. x.n \in 1..answers' /\ x.session \in 0..ids'
      BY <1>1, <1>2, <3>1 DEF IsAnswer
    <3> QED
      BY <2>1, <3>1, <3>2 DEF IsAnswer, Made
  <2> QED
    BY <1>5, <2>1, <2>2, <2>3
<1> QED
  BY <1>1, <1>3, <1>4, <1>6 DEF Tidy

\* An answer of the API is a result of the database or none.
LEMMA ApiPage == ASSUME PageInv, NEW q, ApiGives(q) PROVE Tidy
<1>1. sessionId \in 0..ids /\ ids \in Nat
  BY DEF PageInv, Counters
<1>2. CASE ApiFails(q)
  <2>0. PICK e : e = Entry("error", sessionId, NoResult, q, 0, NoResult)
    OBVIOUS
  <2>1. e.session = sessionId /\ e.via = "error" /\ e.n = answers + 1 /\ e.result = NoResult
    BY <2>0, Z3 DEF Entry
  <2>2. Store(e) /\ ids' = ids
    BY <1>2, <2>0 DEF ApiFails
  <2> QED
    BY <1>1, <2>1, <2>2, StorePage, NoResultIsTable DEF Made
<1>3. ASSUME NEW result \in Results \union {NoResult}, ApiAnswers(q, result)
      PROVE  Tidy
  <2> DEFINE o == IF sessionId = 0 THEN ids + 1 ELSE sessionId
  <2>0. PICK e : e = Entry("database", o, result, q, 0, NoResult)
    OBVIOUS
  <2>1. e.session = o /\ e.via = "database" /\ e.n = answers + 1 /\ e.result = result
    BY <2>0, Z3 DEF Entry
  <2>2. Store(e) /\ ids' = IF sessionId = 0 THEN ids + 1 ELSE ids
    BY <1>3, <2>0 DEF ApiAnswers
  <2>3. e.session \in 0..ids' /\ (ids' = ids \/ ids' = ids + 1)
    BY <1>1, <2>1, <2>2
  <2>4. IsTable(e.result) /\ Made(e)
    BY <2>1, NoResultIsTable, ResultAssumption DEF Made
  <2> QED
    BY <2>1, <2>2, <2>3, <2>4, StorePage
<1> QED
  BY <1>2, <1>3 DEF ApiGives

\* So is what a transform makes of the rows kept.
LEMMA TransformPage == ASSUME PageInv, NEW q \in Asks, Transform(q) PROVE Tidy
<1>0. PICK r : r = Apply(q, lastResult)
  OBVIOUS
<1>1. PICK e : e = Entry("memory", sessionId, r, q, lastFrom, lastResult)
  OBVIOUS
<1>2. /\ e.session = sessionId /\ e.n = answers + 1 /\ e.result = r
      /\ e.question = q /\ e.base = lastResult
  BY <1>1, Z3 DEF Entry
<1>3. Store(e) /\ ids' = ids /\ lastResult.rows # <<>>
  BY <1>0, <1>1 DEF Transform, FallsBack
<1>4. IsTable(lastResult) /\ IsTable(r)
  BY <1>0, <1>3, ApplyReshapes DEF PageInv, KeptRows, Reshaped
<1>5. Made(e) /\ IsTable(e.result)
  BY <1>0, <1>2, <1>3, <1>4 DEF Made
<1>6. e.session \in 0..ids'
  BY <1>2, <1>3 DEF PageInv, Counters
<1> QED
  BY <1>2, <1>3, <1>5, <1>6, StorePage

\* An answer given while there was room for it leaves no question waiting.
LEMMA TidyPage ==
    ASSUME PageInv, Page', Tidy, answers < MaxAnswers,
           example' = FALSE, queued' = {}, asking' = {}
    PROVE  PageInv'
<1>1. Counters'
  BY AskAssumption DEF Tidy, Counters, PageInv
<1>2. KeptRows'
  BY DEF Tidy, KeptRows
<1> QED
  BY <1>1, <1>2 DEF PageInv, Tidy

\* A step that answers nothing keeps what is on the page.
LEMMA NotAnswered ==
    ASSUME PageInv, Page', Counters', UNCHANGED <<shown, lastResult, answers, ids>>
    PROVE  PageInv'
BY DEF PageInv, KeptRows, IsAnswer, Made

\* A run that takes a question up while there is room for its answer.
LEMMA RunPage ==
    ASSUME PageInv, Page', NEW q \in Asks, NEW b \in BOOLEAN, RunAndStore(q, b),
           answers < MaxAnswers, example' = FALSE, queued' = {}
    PROVE  PageInv'
<1>1. CASE Transform(q) /\ asking' = {}
  BY <1>1, TransformPage, TidyPage
<1>2. CASE Wait(q, b)
  <2>1. UNCHANGED <<sessionId, shown, lastResult, answers, ids>>
        /\ asking' = {[question |-> q, byTyping |-> b]}
    BY <1>2 DEF Wait, page
  <2>2. Counters'
    BY <2>1 DEF PageInv, Counters
  <2> QED
    BY <2>1, <2>2, NotAnswered
<1> QED
  BY <1>1, <1>2 DEF RunAndStore

\* The steps together.
LEMMA NextPage == ChatInv /\ PageInv /\ [Next]_vars => PageInv'
<1> SUFFICES ASSUME ChatInv, PageInv, [Next]_vars PROVE PageInv'
  OBVIOUS
<1>0. Page'
  BY NextChat DEF ChatInv
<1>c. Counters
  BY DEF PageInv
<1>1. ASSUME NEW q \in Asks, Type(q) PROVE PageInv'
  <2>1. answers < MaxAnswers /\ example' = FALSE /\ queued' = {}
    BY <1>1 DEF Type, Idle
  <2>2. PICK b \in BOOLEAN : RunAndStore(q, b)
    BY <1>1 DEF Type
  <2> QED
    BY <1>0, <2>1, <2>2, RunPage
<1>2. ASSUME NEW q \in Asks, ClickChip(q) PROVE PageInv'
  <2>1. UNCHANGED <<sessionId, shown, lastResult, answers, ids>>
    BY <1>2 DEF ClickChip, page
  <2>2. Counters'
    BY <1>c, <1>2, <2>1 DEF ClickChip, Idle, Counters
  <2> QED
    BY <1>0, <2>1, <2>2, NotAnswered
<1>3. CASE ClickExample
  <2>1. UNCHANGED <<sessionId, shown, lastResult, answers, ids>>
    BY <1>3 DEF ClickExample, page
  <2>2. Counters'
    BY <1>c, <1>3, <2>1 DEF ClickExample, Idle, Counters
  <2> QED
    BY <1>0, <2>1, <2>2, NotAnswered
<1>4. CASE RunExample
  <2>1. PICK q \in Asks : Wait(q, FALSE)
    BY <1>4 DEF RunExample
  <2>2. UNCHANGED <<sessionId, shown, lastResult, answers, ids>>
        /\ asking' = {[question |-> q, byTyping |-> FALSE]}
    BY <2>1 DEF Wait, page
  <2>3. answers < MaxAnswers /\ example' = FALSE /\ queued' = {}
    BY <1>c, <1>4 DEF RunExample, Counters
  <2>4. Counters'
    BY <1>c, <2>2, <2>3 DEF Counters
  <2> QED
    BY <1>0, <2>2, <2>4, NotAnswered
<1>5. CASE LoseClick
  <2>1. UNCHANGED <<sessionId, shown, lastResult, answers, ids>>
    BY <1>5 DEF LoseClick, page
  <2>2. Counters'
    BY <1>c, <1>5, <2>1 DEF LoseClick, Counters
  <2> QED
    BY <1>0, <2>1, <2>2, NotAnswered
<1>6. CASE RunQueued
  <2>1. PICK q \in queued : RunAndStore(q, FALSE)
    BY <1>6 DEF RunQueued
  <2>2. q \in Asks /\ answers < MaxAnswers
    BY <1>c, <2>1 DEF Counters
  <2>3. example' = FALSE /\ queued' = {}
    <3>1. ~example /\ example' = example
      BY <1>6 DEF RunQueued
    <3> QED
      BY <1>6, <3>1 DEF RunQueued
  <2> QED
    BY <1>0, <2>1, <2>2, <2>3, RunPage
<1>7. CASE Clear
  <2>1. Counters'
    BY <1>c, <1>7 DEF Clear, Counters
  <2>2. shown' = <<>> /\ UNCHANGED <<lastResult, answers, ids>>
    BY <1>7 DEF Clear
  <2>3. KeptRows'
    BY <2>2 DEF PageInv, KeptRows
  <2> QED
    BY <1>0, <2>1, <2>2, <2>3, EmptySeq DEF PageInv
<1>8. CASE Answered
  <2>1. PICK a \in asking : ApiGives(a.question)
    BY <1>8 DEF Answered, ApiGives
  <2>2. /\ asking' = {} /\ example' = example /\ queued' = queued
        /\ answers < MaxAnswers /\ ~example /\ queued = {}
    BY <1>c, <1>8, <2>1 DEF Answered, Counters
  <2>3. example' = FALSE /\ queued' = {}
    BY <2>2
  <2> QED
    BY <1>0, <2>1, <2>2, <2>3, ApiPage, TidyPage
<1>9. CASE UNCHANGED vars
  <2>1. UNCHANGED <<sessionId, shown, lastResult, answers, ids>>
    BY <1>9 DEF vars, page
  <2>2. Counters'
    BY <1>c, <1>9, <2>1 DEF vars, Counters
  <2> QED
    BY <1>0, <2>1, <2>2, NotAnswered
<1> QED
  BY <1>1, <1>2, <1>3, <1>4, <1>5, <1>6, <1>7, <1>8, <1>9 DEF Next, UserActs

\* In every state the answers on the page are tables, those made in memory are apply's of
\* the rows kept when they were made, and a click that was taken can still be answered.
THEOREM PageInvariant == Spec => []PageInv
BY InitChat, NextChat, InitPage, NextPage, PTL DEF Spec

\* streamlit_app.py: every result is rectangular, a kept result has rows, and the counters
\* are in bounds.
THEOREM TypeCorrect == Spec => []TypeOK
<1>1. ASSUME NEW r, IsTable(r) PROVE WellFormed(r)
  <2>1. \A i \in DOMAIN r.rows : r.rows[i] \in ToSet(r.rows)
    BY DEF ToSet
  <2>2. \A row \in ToSet(r.rows) : row = [column \in r.columns |-> row[column]]
    BY <1>1 DEF IsTable, IsRow
  <2>3. ASSUME NEW row \in ToSet(r.rows) PROVE DOMAIN row = r.columns
    <3>1. PICK f : f = [column \in r.columns |-> row[column]]
      OBVIOUS
    <3> QED
      BY <2>2, <3>1
  <2> QED
    BY <1>1, <2>1, <2>3 DEF WellFormed, IsTable
<1>2. ASSUME Counters PROVE queued \subseteq Asks /\ Cardinality(queued \union asking) <= 1
  <2>1. PICK S : S = queued \union asking
    OBVIOUS
  <2>2. S = {} \/ \E x : S = {x}
    BY <1>2, <2>1 DEF Counters
  <2>3. Cardinality(S) <= 1
    <3>1. CASE S = {}
      BY <3>1, FS_EmptySet
    <3>2. ASSUME NEW x, S = {x} PROVE Cardinality(S) <= 1
      <4>1. Cardinality(S) = 1
        BY <3>2, FS_Singleton
      <4> QED
        BY <4>1
    <3> QED
      BY <2>2, <3>1, <3>2
  <2> QED
    BY <1>2, <2>1, <2>3 DEF Counters
<1>3. PageInv => TypeOK
  BY <1>1, <1>2 DEF PageInv, Counters, KeptRows, IsAnswer, TypeOK
<1> QED
  BY <1>3, PageInvariant, PTL

\* result_transforms.py, apply: filter, rank or sort, cut and select in this order.  What is
\* shown are rows of the previous result that passed the filter, in number at most what was
\* asked for, and a "top" by the measure leaves none out that is larger.
THEOREM TransformsReshape == Spec => []ReshapesOnly
<1>1. ASSUME NEW e, IsAnswer(e), e.via = "memory"
      PROVE  Reshaped(e.result, e.question, e.base)
  BY <1>1, ApplyReshapes DEF IsAnswer, Made
<1>2. ASSUME PageInv, NEW i \in DOMAIN shown, shown[i].via = "memory"
      PROVE  Reshaped(shown[i].result, shown[i].question, shown[i].base)
  BY <1>1, <1>2 DEF PageInv
<1>3. PageInv => ReshapesOnly
  BY <1>2 DEF ReshapesOnly, Reshaped
<1> QED
  BY <1>3, PageInvariant, PTL

-----------------------------------------------------------------------------
(* A click that was taken: what ClickedIsAnswered rests on.                 *)

\* The step answers q, as the last of the page.
Answers(q) == answers' = answers + 1 /\ shown' # <<>> /\ shown'[Len(shown')].question = q

\* What ClickedIsAnswered rests on.  A click that was taken waits, whatever is cleared or
\* lost meanwhile, until a run takes its question up; the run answers it, or waits for its
\* answer; and only the answer, or something the user does, ends this wait.  Nothing that
\* waits has to wait for anything else that does.
ClicksAreKept ==
    /\ example \/ queued # {} => asking = {}
    /\ example => queued = {}
    /\ example /\ ~example' => \E q \in Asks : asking' = {[question |-> q, byTyping |-> FALSE]}
    /\ \A q \in queued \ queued' :
         Answers(q) \/ asking' = {[question |-> q, byTyping |-> FALSE]}
    /\ \A a \in asking \ asking' :
         Answers(a.question) \/ (UserActs /\ dropped' = {a.question})

\* An answer that is stored is the last of the page.
LEMMA AnswerIsLast ==
    ASSUME Page, NEW q, Transform(q) \/ ApiGives(q)
    PROVE  Answers(q)
<1>1. ASSUME NEW e, Store(e), e.question = q
      PROVE  Answers(q)
  BY <1>1 DEF Store, Page, Answers
<1>2. \A via, session, result, source, base :
        Entry(via, session, result, q, source, base).question = q
  BY DEF Entry
<1>3. CASE ApiGives(q)
  BY <1>1, <1>2, <1>3 DEF ApiGives, ApiFails, ApiAnswers
<1>4. CASE Transform(q)
  BY <1>1, <1>2, <1>4 DEF Transform
<1> QED
  BY <1>3, <1>4

\* streamlit_app.py: a question a chip has queued, and an example, is taken up by the run that
\* answers it and by nothing else, a cleared conversation included; from then on it is lost
\* only to a user who does something else before the answer is there.
THEOREM ClicksWait == Spec => [][ClicksAreKept]_vars
<1>1. ASSUME ChatInv, PageInv, [Next]_vars
      PROVE  [ClicksAreKept]_vars
  <2> SUFFICES ASSUME Next PROVE ClicksAreKept
    BY <1>1
  <2>1. /\ Page
        /\ example => queued = {}
        /\ example \/ queued # {} => asking = {}
        /\ queued = {} \/ \E q \in Asks : queued = {q}
        /\ asking = {} \/ \E q \in Asks, b \in BOOLEAN : asking = {[question |-> q, byTyping |-> b]}
    BY <1>1 DEF ChatInv, PageInv, Counters
  <2>2. \A a \in asking : {x.question : x \in asking} = {a.question}
    BY <2>1
  <2>3. CASE UserActs
    <3>1. example' = example \/ example' = TRUE
      BY <2>3 DEF UserActs, Type, ClickChip, ClickExample, LoseClick, Clear
    <3>2. queued \ queued' = {}
      BY <2>1, <2>3 DEF UserActs, Type, ClickChip, ClickExample, LoseClick, Clear, Idle
    <3>3. EndsRun
      BY <2>3 DEF UserActs, Type, ClickChip, ClickExample, LoseClick, Clear
    <3>4. ~(example /\ ~example')
      BY <3>1
    <3> QED
      BY <2>1, <2>2, <2>3, <3>2, <3>3, <3>4 DEF ClicksAreKept, EndsRun
  <2>4. CASE Answered
    <3>1. PICK a \in asking : ApiGives(a.question)
      BY <2>4 DEF Answered, ApiGives
    <3>2. asking = {a} /\ example' = example /\ queued' = queued
      BY <2>1, <2>4, <3>1 DEF Answered
    <3>3. Answers(a.question)
      BY <2>1, <3>1, AnswerIsLast
    <3>4. \A x \in asking \ asking' : Answers(x.question)
      BY <3>2, <3>3
    <3>5. ~(example /\ ~example') /\ queued \ queued' = {}
      BY <3>2
    <3> QED
      BY <2>1, <3>4, <3>5 DEF ClicksAreKept
  <2>5. CASE RunExample
    <3>1. PICK q \in Asks : asking' = {[question |-> q, byTyping |-> FALSE]}
      BY <2>5 DEF RunExample, Wait
    <3>2. asking = {} /\ queued' = queued
      BY <2>1, <2>5 DEF RunExample
    <3> QED
      BY <2>1, <3>1, <3>2 DEF ClicksAreKept
  <2>6. CASE RunQueued
    <3>1. PICK q \in queued : RunAndStore(q, FALSE)
      BY <2>6 DEF RunQueued
    <3>2. queued = {q} /\ asking = {}
      BY <2>1, <3>1
    <3>3. ~example /\ UNCHANGED example
      BY <2>6 DEF RunQueued
    <3>4. Answers(q) \/ asking' = {[question |-> q, byTyping |-> FALSE]}
      BY <2>1, <3>1, AnswerIsLast DEF RunAndStore, Wait
    <3> QED
      BY <2>1, <3>2, <3>3, <3>4 DEF ClicksAreKept
  <2> QED
    BY <2>3, <2>4, <2>5, <2>6 DEF Next
<1>2. Spec => []ChatInv
  BY ChatInvariant
<1> QED
  BY <1>1, <1>2, PageInvariant, PTL DEF Spec
=============================================================================
