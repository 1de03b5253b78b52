------------------------------ MODULE PageInsights ------------------------------
(***************************************************************************)
(* What the chat page works out by itself from the rows of an answer,      *)
(* frontend/dash_intel.py: highlights, charts, an explanation and the next *)
(* questions.  It reads the same rows as the summariser and chooses its    *)
(* own measure and labels.                                                 *)
(***************************************************************************)
EXTENDS Summariser

\* _numeric_cols and _text_cols: pandas takes a column of numbers and gaps for numbers.
Numeric(table) == {i \in DOMAIN table.columns : IsNumeric(table, i)}
TextColumn(table) == First(DOMAIN table.columns \ Numeric(table))

\* _primary_numeric: the first of these words that some numeric column's name holds, or
\* the last numeric column.
Needles == <<"revenue", "sales", "total", "profit", "amount", "value", "count">>
PageMeasure(table) ==
    LET own == {i \in Numeric(table) : ~Looks(table, i, "id")}
        nums == IF own = {} THEN Numeric(table) ELSE own
        Named(k) == {i \in nums : Looks(table, i, Needles[k])}
        found == {k \in DOMAIN Needles : Named(k) # {}}
    IN  IF nums = {} THEN 0
        ELSE IF found # {} THEN Min(Named(Min(found)))
        ELSE Max(nums)

PageValue(table, r) == table.rows[r][PageMeasure(table)]
PageKnown(table) == Known(table, PageMeasure(table))
PageLabel(table, r) == table.rows[r][TextColumn(table)]

\* idxmax and idxmin: the first of the largest and of the smallest.
PageTop(table) ==
    Min({r \in PageKnown(table) : \A s \in PageKnown(table) :
                                     PageValue(table, s) <= PageValue(table, r)})
PageBottom(table) ==
    Min({r \in PageKnown(table) : \A s \in PageKnown(table) :
                                     PageValue(table, s) >= PageValue(table, r)})

\* Lines 188-195: rows two standard deviations or more from the mean, the farthest first.
\* With n values, sum and sum of squares q: (n*v - sum)^2 >= 4 * (n*q - sum^2).
Distance(table, r) ==
    LET n == Cardinality(PageKnown(table))
    IN  (n * PageValue(table, r) - Total(table, PageMeasure(table))) ^ 2
Spread(table) ==
    LET n == Cardinality(PageKnown(table))
        squares == MapThenSumSet(LAMBDA r : PageValue(table, r) ^ 2, PageKnown(table))
    IN  n * squares - Total(table, PageMeasure(table)) ^ 2
Outliers(table) ==
    IF Len(table.rows) < 4 \/ Spread(table) = 0 THEN {}
    ELSE {r \in PageKnown(table) : Distance(table, r) >= 4 * Spread(table)}
Outlier(table) ==
    Min({r \in Outliers(table) : \A s \in Outliers(table) :
                                    Distance(table, s) <= Distance(table, r)})

\* compute_insights.
PageHighlights(table) ==
    LET sum == Total(table, PageMeasure(table))
        top == PageTop(table)
        labelled == TextColumn(table) # 0
    IN  IF table.rows = <<>> \/ PageMeasure(table) = 0 THEN <<>>
        ELSE IF Len(table.rows) = 1 THEN <<Sentence("single", <<>>, <<PageValue(table, 1)>>)>>
        ELSE (IF ~labelled THEN <<>>
              ELSE <<Sentence("leads", <<PageLabel(table, top)>>,
                              <<PageValue(table, top)>>
                                \o IF sum = 0 THEN <<>>
                                   ELSE <<Percent(PageValue(table, top), sum)>>),
                     Sentence("lowest", <<PageLabel(table, PageBottom(table))>>,
                              <<PageValue(table, PageBottom(table))>>)>>)
             \o <<Sentence("total", <<>>, <<PageMeasure(table), sum>>)>>
             \o IF ~labelled \/ Outliers(table) = {} THEN <<>>
                ELSE <<Sentence("outlier", <<PageLabel(table, Outlier(table))>>,
                                <<PageValue(table, Outlier(table))>>)>>

\* recommend_charts: the charts on offer in their order; the first one is recommended.
PageCharts(table) ==
    LET n == Len(table.rows)
        dates == First({i \in DOMAIN table.columns : Looks(table, i, "temporal")})
        nums == Numeric(table)
        Option(type, x, y) == <<[type |-> type, x |-> x, y |-> y]>>
        measured == TextColumn(table) # 0 /\ PageMeasure(table) # 0
        When(condition, option) == IF condition THEN option ELSE <<>>
    IN  IF n = 0 THEN <<>>
        ELSE IF n = 1 /\ Cardinality(nums) = 1
        THEN Option("metric", 0, Min(nums)) \o Option("table", 0, 0)
        ELSE When(dates # 0 /\ nums # {}, Option("line", dates, PageMeasure(table)))
             \o When(measured, Option("bar", TextColumn(table), PageMeasure(table)))
             \o When(measured /\ n \in 2..6, Option("pie", TextColumn(table), PageMeasure(table)))
             \o When(Cardinality(nums) >= 2 /\ n > 3,
                     Option("scatter", Min(nums), Min(nums \ {Min(nums)})))
             \o Option("table", 0, 0)

\* explain_answer.
PageExplanation(table) ==
    IF table.rows = <<>> THEN Sentence("nothing", <<>>, <<>>)
    ELSE IF Len(table.rows) = 1 /\ Cardinality(Numeric(table)) = 1
    THEN Sentence("single", <<>>, <<table.rows[1][Min(Numeric(table))]>>)
    ELSE IF Len(table.rows) = 1 \/ PageMeasure(table) = 0 THEN Counting(table)
    ELSE IF TextColumn(table) # 0
    THEN Sentence("leads", <<PageLabel(table, PageTop(table))>>, <<PageValue(table, PageTop(table))>>)
    ELSE Sentence("ranges", <<>>, <<PageValue(table, PageBottom(table)),
                                    PageValue(table, PageTop(table))>>)

\* What the page shows of a result beside the summary of the backend.
Page(table) ==
    [highlights |-> PageHighlights(table), charts |-> PageCharts(table),
     explanation |-> PageExplanation(table)]
=============================================================================
