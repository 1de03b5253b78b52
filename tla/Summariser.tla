------------------------------ MODULE Summariser ------------------------------
(***************************************************************************)
(* The summariser of the offline pipeline, sql_agent/agents/summariser.py: *)
(* which rows and columns the answer, the insights, the chart and the      *)
(* takeaway of a result are about.                                         *)
(*                                                                         *)
(* A result is [ok, columns, rows]: a column is [name, hints], where hints *)
(* says what its name looks like, and a cell is a number, a word or NULL.  *)
(* A sentence is [says, words, numbers], what it says of which labels and  *)
(* with which numbers; percentages are rounded down.                       *)
(***************************************************************************)
EXTENDS PiiFilter

CONSTANTS
    NULL,
    ByModel    \* a text the language model wrote

Number(cell) == cell # NULL /\ cell \notin Words

\* The rows that have a value in column i.  A column is numeric if it has values and all
\* of them are numbers (profile_result).
Known(table, i) == {r \in DOMAIN table.rows : table.rows[r][i] # NULL}
IsNumeric(table, i) ==
    Known(table, i) # {} /\ \A r \in Known(table, i) : Number(table.rows[r][i])
Total(table, i) == MapThenSumSet(LAMBDA r : table.rows[r][i], Known(table, i))
Looks(table, i, hint) == hint \in table.columns[i].hints

First(S) == IF S = {} THEN 0 ELSE Min(S)

\* _column_roles: the number of the measure and of the dimension, 0 for none.
Measure(table) ==
    First({i \in DOMAIN table.columns :
             /\ IsNumeric(table, i)
             /\ \A hint \in {"id", "rank", "temporal"} : ~Looks(table, i, hint)})
Dimension(table) ==
    LET texts == {i \in DOMAIN table.columns : ~IsNumeric(table, i)}
        keys == {i \in DOMAIN table.columns :
                   Looks(table, i, "temporal") /\ i # Measure(table)}
    IN  IF texts # {} THEN Min(texts) ELSE First(keys)
HasRoles(table) == Dimension(table) # 0 /\ Measure(table) # 0
OverTime(table) == Dimension(table) # 0 /\ Looks(table, Dimension(table), "temporal")

Value(table, r) == table.rows[r][Measure(table)]
Label(table, r) == table.rows[r][Dimension(table)]

\* generate_insights leaves out the rows without a value; max() and sorted() raise.
Pairs(table) == Known(table, Measure(table))
Complete(table) == Pairs(table) = DOMAIN table.rows \/ Len(table.rows) = 1

\* Slip: the last of the largest.
LastTop(table) ==
    Max({r \in Pairs(table) : \A s \in Pairs(table) : Value(table, s) <= Value(table, r)})

\* max(): the first of the largest.
Top(table) == Min({r \in Pairs(table) : \A s \in Pairs(table) : Value(table, s) <= Value(table, r)})

\* sorted() is stable: the last of the smallest.
Bottom(table) ==
    Max({r \in Pairs(table) : \A s \in Pairs(table) : Value(table, s) >= Value(table, r)})

Sentence(says, words, numbers) == [says |-> says, words |-> words, numbers |-> numbers]
Percent(a, b) == IF b > 0 THEN (100 * a) \div b ELSE (100 * (0 - a)) \div (0 - b)

IsScalar(table) == Len(table.rows) = 1 /\ Len(table.columns) = 1

\* Slip: the change is taken from the last row to the first.
TrendBackwards(table) ==
    LET from == Max(Pairs(table))
        to == Min(Pairs(table))
        change == Value(table, to) - Value(table, from)
    IN  (IF Value(table, from) = 0 THEN <<>>
         ELSE <<Sentence(IF change >= 0 THEN "rose" ELSE "fell",
                         <<Label(table, from), Label(table, to)>>,
                         <<Value(table, from), Value(table, to)>>)>>)
        \o <<Sentence("peaked", <<Label(table, Top(table))>>, <<Value(table, Top(table))>>)>>

\* Lines 296-305: from the first row to the last one, and the peak.
TrendInsights(table) ==
    LET from == Min(Pairs(table))
        to == Max(Pairs(table))
        change == Value(table, to) - Value(table, from)
    IN  (IF Value(table, from) = 0 THEN <<>>
         ELSE <<Sentence(IF change >= 0 THEN "rose" ELSE "fell",
                         <<Label(table, from), Label(table, to)>>,
                         <<Value(table, from), Value(table, to)>>)>>)
        \o <<Sentence("peaked", <<Label(table, Top(table))>>, <<Value(table, Top(table))>>)>>

\* Lines 307-331: a percentage is ranked, anything else is shared out.
RankInsights(table) ==
    LET top == Top(table)
        bottom == Bottom(table)
        ordered == SortSeq(SetToSeq({<<Value(table, r), r>> : r \in Pairs(table)}),
                           LAMBDA a, b : a[1] > b[1] \/ (a[1] = b[1] /\ a[2] < b[2]))
        sum == Total(table, Measure(table))
        three == ordered[1][1] + ordered[2][1] + ordered[3][1]
        lowest == IF Label(table, bottom) = Label(table, top) THEN <<>>
                  ELSE <<Sentence("lowest", <<Label(table, bottom)>>, <<Value(table, bottom)>>)>>
        share == Percent(Value(table, top), sum)
        leader == <<Label(table, top)>>
    IN  IF Looks(table, Measure(table), "pct")
        THEN <<Sentence("highest", leader, <<Value(table, top)>>)>> \o lowest
        ELSE (IF sum = 0 THEN <<>>
              ELSE <<Sentence("leads", leader, <<Value(table, top), share>>)>>
                   \o IF share >= 40 THEN <<Sentence("concentrated", leader, <<share>>)>>
                      ELSE IF Len(ordered) >= 3
                      THEN <<Sentence("top three", <<>>, <<Percent(three, sum)>>)>>
                      ELSE <<>>)
             \o lowest

\* generate_insights; lists of at most three, as all of these are.
Insights(table) ==
    IF table.rows = <<>> \/ IsScalar(table) \/ ~HasRoles(table) THEN <<>>
    ELSE IF OverTime(table) THEN TrendInsights(table) ELSE RankInsights(table)

\* suggest_chart.
Chart(table) ==
    IF table.rows = <<>> \/ IsScalar(table) \/ ~HasRoles(table)
    THEN [type |-> "none", x |-> 0, y |-> 0]
    ELSE [type |-> IF OverTime(table) THEN "line"
                   ELSE IF Looks(table, Measure(table), "pct") \/ Len(table.rows) > 6 THEN "bar"
                   ELSE "pie",
          x |-> Dimension(table), y |-> Measure(table)]

Leading(table) ==
    Sentence("leader", <<Label(table, Top(table))>>, <<Value(table, Top(table))>>)
Counting(table) == Sentence("records", <<>>, <<Len(table.rows)>>)

\* _fallback_answer; a row without a measure makes max() raise, which is caught.
FallbackAnswer(table) ==
    IF table.rows = <<>> THEN Sentence("nothing", <<>>, <<>>)
    ELSE IF Len(table.rows) = 1 THEN Sentence("record", table.rows[1], <<>>)
    ELSE IF HasRoles(table) /\ Complete(table) THEN Leading(table)
    ELSE Counting(table)

\* Lines 485-495.
Takeaway(table) ==
    IF table.rows = <<>> THEN Sentence("nothing", <<>>, <<>>)
    ELSE IF HasRoles(table) /\ Complete(table) THEN Leading(table)
    ELSE Counting(table)

\* Lines 471-480: the total of each numeric column, or the number of rows.
ImportantNumbers(table) ==
    LET numeric == SelectSeq([i \in DOMAIN table.columns |-> i], LAMBDA i : IsNumeric(table, i))
    IN  IF table.rows = <<>> THEN <<>>
        ELSE IF numeric = <<>> THEN <<Counting(table)>>
        ELSE [k \in DOMAIN numeric |->
                Sentence("total", <<>>, <<numeric[k], Total(table, numeric[k])>>)]

\* _fallback_explanation: the first four of what the statement does.
Bullets == <<"tables", "join", "where", "aggregate", "order">>
FallbackExplanation(sql) ==
    LET bullets == SelectSeq(Bullets, LAMBDA b : b \in sql)
    IN  IF bullets = <<>> THEN <<"read">> ELSE SubSeq(bullets, 1, Min({4, Len(bullets)}))

\* scrub_summary, with the default filter, which has no detectors; the numbers, trends
\* and takeaway keep their words.
Clean(sentence) == [sentence EXCEPT !.words = ApplyRegex(@, DefaultRules)]
CleanAll(sentences) == [i \in DOMAIN sentences |-> Clean(sentences[i])]

Failed ==
    [answer |-> Sentence("failed", <<>>, <<>>), numbers |-> <<>>, trends |-> <<>>,
     takeaway |-> Sentence("nothing", <<>>, <<>>), explanation |-> <<"error">>,
     insights |-> <<>>, chart |-> [type |-> "none", x |-> 0, y |-> 0]]

\* summarise.  A reply is what the language model's texts hold: the fields of its JSON
\* object, "explanation" among them.  Without a client, or with one whose text is no JSON,
\* there are none; without an answer, the other fields of the first text are not used.
Summarised(table, sql, reply) ==
    LET used == IF "answer" \in reply THEN reply ELSE reply \intersect {"explanation"}
        Or(field, own) == IF field \in used THEN ByModel ELSE own
    IN  IF ~table.ok THEN Failed
        ELSE [answer |-> Or("answer", Clean(FallbackAnswer(table))),
              numbers |-> Or("important_numbers", ImportantNumbers(table)),
              trends |-> Or("trends_anomalies", Insights(table)),
              takeaway |-> Or("final_takeaway", Takeaway(table)),
              explanation |-> Or("explanation", FallbackExplanation(sql)),
              insights |-> CleanAll(Insights(table)),
              chart |-> Chart(table)]
=============================================================================
