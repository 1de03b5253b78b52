------------------------------ MODULE SqlSource ------------------------------
(***************************************************************************)
(* Where the offline pipeline takes its SQL from, class SQLSource of       *)
(* app/pipeline.py: Oracle Select AI when it is configured, a template for *)
(* questions about one product, and a cache of curated questions matched   *)
(* by similarity.  Scores are in thousandths.                              *)
(*                                                                         *)
(* External: difflib's ratio of two questions is taken as the share of     *)
(* words in their common beginning and end.  Select AI may answer          *)
(* anything: LiveAnswers is the set of the statements it may return.       *)
(***************************************************************************)
EXTENDS FollowUps

CONSTANTS
    Cache,           \* the curated questions, a sequence of [text, sql, grouped]
    LiveAnswers,     \* what Select AI may return, NoSql included; {} if not configured
    EntityMeasures,  \* the keys of _MEASURE_COL
    DigitWords,      \* words with a digit and no letter; all others hold a letter
    Valid(_),        \* does validate_sql let the statement pass?
    NoSql

Prepositions == {"for", "of", "from", "on"}
CutWords == {"category", "product", "region"}

\* _ENTITY_RE: what follows the first preposition after the first measure, cut before
\* "category", "product", "region" or "in <year>"; <<>> when the question has none.
EntityPlace(q) ==
    {i \in 2..Len(q) : /\ q[i - 1] \in Prepositions
                       /\ \E m \in 1..(i - 2) : q[m] \in EntityMeasures}
Entity(q) ==
    IF EntityPlace(q) = {} THEN <<>>
    ELSE LET place == Min(EntityPlace(q))
             first == IF q[place] = "the" /\ place < Len(q) THEN place + 1 ELSE place
             cuts == {i \in first..Len(q) :
                        \/ q[i] \in CutWords
                        \/ q[i] = "in" /\ i < Len(q) /\ q[i + 1] \in Years}
         IN  SubSeq(q, first, IF cuts = {} THEN Len(q) ELSE Min(cuts) - 1)

IsModelNumber(entity) ==
    /\ \E i \in DOMAIN entity : entity[i] \in DigitWords
    /\ \E i \in DOMAIN entity : entity[i] \notin DigitWords

\* _entity_filter_sql: SELECT product_name, SUM(m) ... WHERE product_name = '<entity>'.
EntitySql(q) ==
    [name |-> <<"product", FirstOf(q, EntityMeasures)>>, scalar |-> FALSE,
     filters |-> <<[column |-> "product_name", value |-> Entity(q)]>>]

\* The score of a cached question (lines 135-142).
Common(a, b) ==
    Max({n \in 0..Min({Len(a), Len(b)}) : SubSeq(a, 1, n) = SubSeq(b, 1, n)})
Ratio(a, b) ==
    LET common == Min({Common(a, b) + Common(Reverse(a), Reverse(b)), Len(a), Len(b)})
    IN  IF Len(a) + Len(b) = 0 THEN 1000
        ELSE (2000 * common) \div (Len(a) + Len(b))
Jaccard(a, b) ==
    IF ToSet(a) \union ToSet(b) = {} THEN 0
    ELSE (1000 * Cardinality(ToSet(a) \intersect ToSet(b)))
            \div Cardinality(ToSet(a) \union ToSet(b))
Within(a, b) == a \in SubSeqs(b)
Score(q, entry) ==
    LET mean == (Ratio(q, entry.text) + Jaccard(q, entry.text)) \div 2
        contained == q # <<>> /\ (Within(q, entry.text) \/ Within(entry.text, q))
    IN  Max({mean, IF contained THEN 900 ELSE 0})
          + (IF Names(q, {"by"}) /\ entry.grouped THEN 80 ELSE 0)

\* The earliest of the best entries; 0 when nothing scores.
Best(q) ==
    LET best == {i \in DOMAIN Cache : \A j \in DOMAIN Cache :
                                         Score(q, Cache[j]) <= Score(q, Cache[i])}
    IN  IF best = {} THEN 0 ELSE Min(best)

Answer(sql, provider, approximate) ==
    [sql |-> sql, provider |-> provider, approximate |-> approximate]

\* Lines 122-159, tried in this order.
GenerateOffline(q) ==
    IF IsModelNumber(Entity(q))
    THEN Answer(EntitySql(q), "offline_template", FALSE)
    ELSE IF Best(q) # 0 /\ Score(q, Cache[Best(q)]) >= 620
    THEN Answer(Cache[Best(q)].sql, "offline_cache", Score(q, Cache[Best(q)]) < 900)
    ELSE IF Entity(q) # <<>>
    THEN Answer(EntitySql(q), "offline_template", FALSE)
    ELSE Answer(NoSql, "offline_cache", FALSE)

\* generate: Select AI's statement if it gives one, what there is offline otherwise.
Generate(q) ==
    {Answer(sql, "oracle_select_ai", FALSE) : sql \in LiveAnswers \ {NoSql}}
    \union (IF LiveAnswers = {} \/ NoSql \in LiveAnswers THEN {GenerateOffline(q)} ELSE {})
=============================================================================
