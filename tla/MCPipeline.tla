------------------------------ MODULE MCPipeline ------------------------------
(* Dialogues of up to three turns, or overlapping requests, in two sessions.  *)
(* The questions are a cached one, two follow-ups (a dimension, and one with  *)
(* a year) and one for a product under a misspelt name.                       *)
EXTENDS OfflinePipeline
CONSTANTS w1, w2, s1, s2

MCMeasures == {"profit", "revenue"}
MCDimensions == {"region", "category"}
MCYears == {"2024"}
MCTriggers == {"what about", "and"}
MCMarkers == {"same"}
MCEntityMeasures == {"profit", "revenue"}
MCDigitWords == {"2024", "15"}

ProfitByRegion == <<"the", "total", "profit", "by", "region">>
RevenueOfPhone == <<"revenue", "for", "iphnoe", "15">>
MCQuestions ==
    {ProfitByRegion, RevenueOfPhone,
     <<"and", "by", "category">>, <<"what about", "region", "in", "2024">>}

Statement(name, scalar, filters) == [name |-> name, scalar |-> scalar, filters |-> filters]
Filter(column, value) == [column |-> column, value |-> value]
RegionSql == Statement(<<"statement", "profit by region">>, FALSE, <<>>)
CategorySql == Statement(<<"statement", "profit by category">>, FALSE,
                     <<Filter("product_name", <<"iphone", "15">>), Filter("region", <<"wset">>)>>)
DropSql == Statement(<<"statement", "drop">>, FALSE, <<>>)

\* The second cached statement has two filters, one of them with a value that the table
\* does not spell that way.
ProfitByCategory == <<"the", "total", "profit", "by", "category">>
MCCache == <<[text |-> ProfitByRegion, sql |-> RegionSql, grouped |-> TRUE],
             [text |-> ProfitByCategory, sql |-> CategorySql, grouped |-> TRUE]>>
MCLiveAnswers == {NoSql, DropSql}

MCTable == {[region |-> <<"west">>, product_name |-> <<"iphone", "15">>],
            [region |-> <<"east">>, product_name |-> <<"lamp">>]}
MCSimilar(a, b) ==
    IF a = b THEN 1000
    ELSE CASE <<a, b>> = << <<"iphnoe", "15">>, <<"iphone", "15">> >> -> 888
           [] <<a, b>> = << <<"iphnoe", "15", "by">>, <<"iphone", "15">> >> -> 761
           [] <<a, b>> = << <<"wset">>, <<"west">> >> -> 750
           [] <<a, b>> = << <<"wset">>, <<"east">> >> -> 500
           [] OTHER -> 100
MCCaseFold(v) == v
MCValid(sql) == sql # DropSql
Symmetry == Permutations({w1, w2}) \union Permutations({s1, s2})
=============================================================================
