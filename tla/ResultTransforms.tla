--------------------------- MODULE ResultTransforms ---------------------------
(***************************************************************************)
(* In-memory transforms of the previous result, result_transforms.py of    *)
(* the frontend: which questions only reshape the rows on screen, and what *)
(* the reshaped rows are.                                                  *)
(*                                                                         *)
(* A result is [columns, rows]: rows is a sequence of records with exactly *)
(* these columns, here "name" (text) and "amount" (the measure).  A        *)
(* question is the record of what the parsers find in it:                  *)
(*   filter  NoFilter, [over |-> n], or [is |-> name]                      *)
(*   sort    "none", "bare" (a sort verb only), "asc" or "desc"            *)
(*   top     "none", "top", "bottom", "head" or "tail", and its size n     *)
(*   select  "none", "keep" or "drop", and the columns it mentions         *)
(*   refers  does it refer back ("them")?  standalone: "<measure> by ..."? *)
(*   short   at most six words                                             *)
(***************************************************************************)
EXTENDS Ranking

CONSTANTS
    NoFilter,        \* the question filters nothing
    Precedes(_, _)   \* the alphabetical order of the names

Columns == {"name", "amount"}
NoResult == [columns |-> {}, rows |-> <<>>]

Over(q) == q.filter # NoFilter /\ "over" \in DOMAIN q.filter
Is(q) == q.filter # NoFilter /\ "is" \in DOMAIN q.filter

\* classify: something to do, not a question of its own, and explicit or brief enough.
Classify(q) ==
    /\ q.filter # NoFilter \/ q.sort # "none" \/ q.top # "none" \/ q.select # "none"
    /\ q.standalone => q.refers
    /\ q.sort \in {"asc", "desc"} \/ q.refers \/ q.short

\* _parse_filter: a value that no row has is missing; a bound needs the measure.
Missing(q, df) ==
    Is(q) /\ ("name" \in df.columns =>
                \A i \in DOMAIN df.rows : df.rows[i].name # q.filter.is)
Filters(q, df) == Is(q) \/ (Over(q) /\ "amount" \in df.columns)

\* _parse_select: nothing to select if the result has no column that is mentioned.  A
\* "drop" of every column leaves none to keep, and then all of them are shown.
Mentioned(q, df) == IF q.select = "none" THEN {} ELSE q.mentions \intersect df.columns
Kept(q, df) ==
    IF q.select = "drop" /\ Mentioned(q, df) # {} THEN df.columns \ Mentioned(q, df)
    ELSE Mentioned(q, df)

\* apply gives up, and the question goes to the database.
FallsBack(q, df) ==
    \/ df.rows = <<>>
    \/ Missing(q, df)
    \/ ~Filters(q, df) /\ q.sort = "none" /\ q.top = "none" /\ Mentioned(q, df) = {}

\* The order of the sorted rows: by the measure, or by the first column without one.
Below(df, a, b) ==
    IF "amount" \in df.columns THEN a.amount < b.amount ELSE Precedes(a.name, b.name)
Ascending(df, rows) == Ordered(rows, LAMBDA a, b : Below(df, a, b))
Descending(df, rows) == Ordered(rows, LAMBDA a, b : Below(df, b, a))

Filtered(q, df) ==
    IF ~Filters(q, df) THEN df.rows
    ELSE IF Is(q) THEN Where(df.rows, LAMBDA row : row.name = q.filter.is)
    ELSE Where(df.rows, LAMBDA row : row.amount > q.filter.over)

\* A "top" or "bottom" sorts by the measure if there is one, and then drops the sort.
Ranked(q, df) == q.top \in {"top", "bottom"} /\ "amount" \in df.columns
Sorted(q, df, rows) ==
    IF Ranked(q, df)
    THEN IF q.top = "top" THEN Descending(df, rows) ELSE Ascending(df, rows)
    ELSE CASE q.sort = "none" -> rows
           [] q.sort = "asc" -> Ascending(df, rows)
           [] q.sort \in {"bare", "desc"} -> Descending(df, rows)

Cut(q, rows) ==
    LET n == Min({q.n, Len(rows)})
    IN  CASE q.top = "none" -> rows
          [] q.top = "tail" -> SubSeq(rows, Len(rows) - n + 1, Len(rows))
          [] OTHER -> SubSeq(rows, 1, n)

Shown(q, df, rows) ==
    IF Kept(q, df) = {} THEN [columns |-> df.columns, rows |-> rows]
    ELSE [columns |-> Kept(q, df),
          rows |-> [i \in DOMAIN rows |-> Restrict(rows[i], Kept(q, df))]]

\* Slip: the rows are cut before they are ranked.
ApplyCutFirst(q, df) == Shown(q, df, Sorted(q, df, Cut(q, Filtered(q, df))))

\* apply: filter, rank or sort, cut, select, in this order.
Apply(q, df) == Shown(q, df, Cut(q, Sorted(q, df, Filtered(q, df))))
=============================================================================
