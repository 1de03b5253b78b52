----------------------------- MODULE RowFallback -----------------------------
(***************************************************************************)
(* Statements, what they return, and the similar-rows fallback,            *)
(* src/sql_agent/retrieval/row_fallback.py.                                *)
(*                                                                         *)
(* A statement is [name, filters, scalar]: filters is the sequence of its  *)
(* `column = 'value'` conditions, and a scalar statement (an aggregate     *)
(* without GROUP BY) returns one row whatever it matches.  The table is    *)
(* what the executor loaded, and never changes: it refuses every write.    *)
(***************************************************************************)
EXTENDS FiniteSetsExt, Sequences

CONSTANTS
    Table,           \* the rows of product_sales, functions from columns to values
    Similar(_, _),   \* _lexical_similarity in thousandths (external: difflib)
    CaseFold(_),     \* str.lower of a value
    NoFallback       \* find_similar_rows found nothing to offer

Threshold == 450
SameText == 999
ScalarRow == "aggregate"

Matching(sql) == {row \in Table : \A i \in DOMAIN sql.filters :
                                     row[sql.filters[i].column] = sql.filters[i].value}

\* The rows a statement returns.
Returned(sql) == IF sql.scalar THEN {ScalarRow} ELSE Matching(sql)

\* SELECT DISTINCT column, and the value closest to the requested one.
Distinct(column) == {row[column] : row \in Table}
Closest(f) ==
    CHOOSE v \in Distinct(f.column) :
        \A w \in Distinct(f.column) : Similar(f.value, w) <= Similar(f.value, v)

\* Line 97: the closest value is the requested one, the case of its letters apart.
AlreadyExact(f) ==
    /\ Similar(f.value, Closest(f)) >= SameText
    /\ CaseFold(Closest(f)) = CaseFold(f.value)

\* Line 100 replaces the quoted value wherever the statement holds it.
RelaxedTo(sql, f, value) ==
    [sql EXCEPT !.filters = [i \in DOMAIN sql.filters |->
        IF sql.filters[i].value = f.value
        THEN [sql.filters[i] EXCEPT !.value = value]
        ELSE sql.filters[i]]]
Relaxed(sql, f) == RelaxedTo(sql, f, Closest(f))

\* The i-th filter leads to rows.  broken: the filters whose probe or re-run failed.
Helps(sql, i, broken) ==
    LET f == sql.filters[i]
    IN  /\ i \notin broken
        /\ Distinct(f.column) # {}
        /\ Similar(f.value, Closest(f)) >= Threshold
        /\ ~AlreadyExact(f)
        /\ Returned(Relaxed(sql, f)) # {}

\* The first filter whose closest real value leads to rows decides.
FindSimilarRows(sql, broken) ==
    LET helping == {i \in DOMAIN sql.filters : Helps(sql, i, broken)}
        f == sql.filters[Min(helping)]
    IN  IF helping = {} THEN NoFallback
        ELSE [requested |-> f.value, matched |-> Closest(f),
              relaxed |-> Relaxed(sql, f), rows |-> Returned(Relaxed(sql, f))]
=============================================================================
