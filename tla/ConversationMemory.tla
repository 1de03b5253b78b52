--------------------------- MODULE ConversationMemory ---------------------------
(***************************************************************************)
(* ConversationMemory of app/agents/memory.py: what a session of the live  *)
(* backend remembers, how a follow-up is put into words that stand alone,  *)
(* and which questions are answered from the rows of an earlier turn.      *)
(*                                                                         *)
(* A question is a sequence of lower-case words without punctuation.  A    *)
(* turn is a record of                                                     *)
(*   question, resolved   as asked and as it was understood                *)
(*   sql, stage           the statement shown, and pipeline_stage          *)
(*   columns, rows        query_results; a row maps each column to a value *)
(* None is Python's None: no SQL, no turn, no answer, or a NULL in a row.  *)
(***************************************************************************)
EXTENDS Ranking

CONSTANTS
    None,
    MaxRemembered,      \* max_turns, 6 in the code
    Numbers,            \* the columns whose values are numbers
    TextBefore(_, _)    \* the order of two rows written out as text

ASSUME MemoryAssumption == MaxRemembered \in Nat \ {0}

FollowUpMarkers ==
    {"also", "again", "same", "previous", "last", "instead", "compare", "it", "that",
     "them", "these", "those"}
BusinessTerms ==
    {"category", "city", "country", "customer", "customers", "margin", "month", "monthly",
     "orders", "product", "products", "profit", "quantity", "region", "revenue", "sales",
     "state", "year"}
ResultReferences ==
    {"above", "answer", "list", "previous", "result", "results", "row", "rows", "table",
     "this", "them", "these", "those"}
Lowest == {"bottom", "least", "lowest", "min", "minimum", "smallest", "worst"}
Highest == {"best", "highest", "largest", "max", "maximum", "most", "top"}
First == {"first", "1st"}
Final == {"last", "final"}
SortMarkers == {"order", "ordered", "reorder", "sort", "sorted"}
AscendingMarkers == {"asc", "ascending", "ascendingly", "increasing"}
DescendingMarkers == {"desc", "descending", "descendingly", "decreasing"}
Metrics == <<"profit", "revenue", "sales", "quantity", "orders">>
Groupings ==
    <<"category", "city", "country", "customer", "month", "product", "region", "state", "year">>

Has(q, S) == ToSet(q) \intersect S # {}
StartsWith(q, phrase) == IsPrefix(phrase, q)
Mentions(q, phrase) ==
    \E i \in 1..(Len(q) - Len(phrase) + 1) : SubSeq(q, i, i + Len(phrase) - 1) = phrase
FirstIn(list, S) == list[Min({i \in DOMAIN list : list[i] \in S})]

-----------------------------------------------------------------------------

\* The turns that ran SQL, and the turns that showed rows: not the same turns.
IsSuccessful(turn) ==
    /\ turn.stage \in {"sql_executed_successfully", "sql_executed_with_fallback"}
    /\ turn.sql # None
HasResultRows(turn) == turn.rows # <<>>

Latest(turns, Test(_)) ==
    IF \E i \in DOMAIN turns : Test(turns[i])
    THEN turns[Max({i \in DOMAIN turns : Test(turns[i])})]
    ELSE None
LatestSuccessful(turns) == Latest(turns, IsSuccessful)

LatestResult(turns) == Latest(turns, HasResultRows)

\* Slip: one turn too many, and the first turns instead of the last ones.
RememberedOneMore(turns) == SubSeq(turns, Max({1, Len(turns) - MaxRemembered}), Len(turns))
RememberedFirst(turns) == SubSeq(turns, 1, Min({Len(turns), MaxRemembered}))

\* Line 207: the turns that remain of the list that record() appended to.
Remembered(turns) ==
    SubSeq(turns, Max({1, Len(turns) - MaxRemembered + 1}), Len(turns))

-----------------------------------------------------------------------------

\* "and ", "for " are prefixes of a question only if another word follows.
StrongFollowUp(q) ==
    \/ \E p \in {<<"what", "about">>, <<"how", "about">>, <<"same", "for">>,
                 <<"do", "the", "same">>} : StartsWith(q, p)
    \/ Len(q) > 1 /\ q[1] \in {"and", "for"}

LooksLikeFollowUp(q) ==
    \/ StrongFollowUp(q)
    \/ Has(q, FollowUpMarkers)
    \/ Len(q) <= 4 /\ Has(q, BusinessTerms)

SelfContained(q) ==
    /\ Cardinality(ToSet(q) \intersect BusinessTerms) >= 2
    /\ Has(q, {"bottom", "least", "top", "by", "group", "grouped", "monthly"})

\* _replace_previous_metric: "total <other>" before "<other>", in the order of the aliases.
ReplaceMetric(p, metric) ==
    LET aliases == SelectSeq(Metrics, LAMBDA m : m # metric)
        totals == {i \in 2..Len(p) : p[i - 1] = "total"}
        Places(I, m) == {i \in I : p[i] = m}
        Swap(I) == LET m == FirstIn(aliases, {p[i] : i \in I})
                   IN  ReplaceAt(p, Min(Places(I, m)), metric)
        Named(I) == {p[i] : i \in I} \intersect ToSet(aliases) # {}
    IN  CASE Named(totals)    -> Swap(totals)
          [] ~Named(totals) /\ Named(DOMAIN p) -> Swap(DOMAIN p)
          [] OTHER -> p

\* A question about the profit margin of a grouping becomes a total by that grouping.
Grouped(p) == {g \in ToSet(Groupings) : Mentions(p, <<"by", g>>)}
WithMetric(p, metric) ==
    IF Mentions(p, <<"profit", "margin">>) /\ Grouped(p) # {}
    THEN <<"what", "is", "total", metric, "by", FirstIn(Groupings, Grouped(p))>>
    ELSE ReplaceMetric(p, metric)

\* _standalone_follow_up: the question in words that stand alone, p being the question of
\* the turn it continues, as it was asked.
Standalone(q, p) ==
    LET metric == FirstIn(Metrics, ToSet(q))
    IN  IF Has(q, ToSet(Metrics)) /\ WithMetric(p, metric) # p
        THEN WithMetric(p, metric)
        ELSE q \o <<"same", "business", "context", "as", "previous", "question">> \o p

IsFollowUp(q, turns) ==
    /\ LatestSuccessful(turns) # None
    /\ LooksLikeFollowUp(q)
    /\ StrongFollowUp(q) \/ ~SelfContained(q)

\* Slip: the question is resolved against the latest turn, whatever became of it.
ResolveLast(q, turns) ==
    IF turns # <<>> /\ LooksLikeFollowUp(q) /\ (StrongFollowUp(q) \/ ~SelfContained(q))
    THEN Standalone(q, Last(turns).question) ELSE q

\* resolve().
Resolve(q, turns) ==
    IF IsFollowUp(q, turns) THEN Standalone(q, LatestSuccessful(turns).question) ELSE q

-----------------------------------------------------------------------------

LooksLikeResultReference(q) ==
    LET selector == Has(q, Lowest \union Highest \union First \union Final)
    IN  \/ /\ Has(q, SortMarkers)
           /\ Has(q, ResultReferences \union AscendingMarkers \union DescendingMarkers)
        \/ selector /\ (Has(q, ResultReferences) \/ Cardinality(ToSet(q)) <= 4)

\* The columns of numbers: those of them with a value other than NULL.
NumericColumns(columns, rows) ==
    Where(columns, LAMBDA c : c \in Numbers /\ \E i \in DOMAIN rows : rows[i][c] # None)

\* A column the question names in full, or else the last one; None without any.
MetricColumn(q, columns, rows) ==
    LET numeric == NumericColumns(columns, rows)
    IN  IF numeric = <<>> THEN None
        ELSE IF Has(q, ToSet(numeric)) THEN FirstIn(numeric, ToSet(q))
        ELSE Last(numeric)

Direction(q) == IF Has(q, DescendingMarkers) THEN "descending" ELSE "ascending"

SortRows(q, metric, rows) ==
    LET Before(a, b) == IF metric = None THEN TextBefore(a, b) ELSE a[metric] < b[metric]
    IN  Ordered(rows, LAMBDA a, b : IF Direction(q) = "descending"
                                    THEN Before(b, a) ELSE Before(a, b))

\* max() and min() return the first of equal rows.
HighestRow(rows, c) ==
    rows[Min({i \in DOMAIN rows : \A j \in DOMAIN rows : rows[j][c] <= rows[i][c]})]
LowestRow(rows, c) ==
    rows[Min({i \in DOMAIN rows : \A j \in DOMAIN rows : rows[i][c] <= rows[j][c]})]

\* Slip: "lowest" is looked at before "highest", as in the wording of the answer.
SelectRowLowestFirst(q, metric, rows) ==
    CASE metric # None /\ Has(q, Final \union Lowest)   -> LowestRow(rows, metric)
      [] metric # None /\ ~Has(q, Final \union Lowest) /\ Has(q, First \union Highest)
             -> HighestRow(rows, metric)
      [] metric = None /\ Has(q, Final) -> Last(rows)
      [] metric = None /\ ~Has(q, Final) /\ Has(q, First) -> rows[1]
      [] OTHER -> None

\* _select_referenced_row: "last" means the lowest when there is a measure.
SelectRow(q, metric, rows) ==
    CASE metric # None /\ Has(q, First \union Highest)  -> HighestRow(rows, metric)
      [] metric # None /\ ~Has(q, First \union Highest) /\ Has(q, Final \union Lowest)
             -> LowestRow(rows, metric)
      [] metric = None /\ Has(q, Final) -> Last(rows)
      [] metric = None /\ ~Has(q, Final) /\ Has(q, First) -> rows[1]
      [] OTHER -> None

\* The word of the answer for the row it selects.
Wording(q) ==
    CASE Has(q, Highest \union First) -> "highest"
      [] ~Has(q, Highest \union First) /\ Has(q, Lowest \union Final) -> "lowest"
      [] OTHER -> "selected"

\* Rows are compared by the metric whenever there is one, and float("None") raises.
Raised == [rows |-> <<>>, says |-> "raises"]

\* answer_from_previous_results: None, Raised, or rows of the latest turn that had some.
AnswerFromPrevious(q, turns) ==
    LET turn == LatestResult(turns)
        metric == MetricColumn(q, turn.columns, turn.rows)
        row == SelectRow(q, metric, turn.rows)
        Answer(rows, says) ==
            [rows |-> rows, columns |-> turn.columns, source |-> turn, says |-> says,
             metric |-> metric]
    IN  CASE turn = None \/ ~LooksLikeResultReference(q) -> None
          [] turn # None /\ LooksLikeResultReference(q) ->
               IF metric # None /\ \E i \in DOMAIN turn.rows : turn.rows[i][metric] = None
               THEN Raised
               ELSE IF Has(q, SortMarkers)
               THEN Answer(SortRows(q, metric, turn.rows), Direction(q))
               ELSE IF row # None THEN Answer(<<row>>, Wording(q)) ELSE None
=============================================================================
