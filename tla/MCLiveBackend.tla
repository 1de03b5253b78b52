----------------------------- MODULE MCLiveBackend -----------------------------
(***************************************************************************)
(* A small instance of the live backend: one session that leads a          *)
(* dialogue, others that compete with it for a place, Select AI that       *)
(* writes a good or a refused statement or fails, and tables with a NULL.  *)
(***************************************************************************)
EXTENDS LiveBackend, TLC

CONSTANTS s1, s2, s3, w1, w2

RevenueByRegion == <<"revenue", "by", "region">>
AboutProfit == <<"what", "about", "profit">>
HighestOfThese == <<"which", "is", "the", "highest", "of", "these">>
LastAndTop == <<"last", "or", "top", "row">>
Sorted == <<"sort", "them", "descending">>
Delete == <<"delete", "these", "orders">>
Compare == <<"compare", "profit", "by", "region">>

Setting(build, profile, atATime, requests, leads, others) ==
    [build |-> build, profile |-> profile, threads |-> atATime, requests |-> requests,
     asks |-> [s \in {s1, s2, s3} |-> IF s = s1 THEN leads ELSE others]]

\* One session in a dialogue, with and without Select AI; two requests at a time, of one
\* session and of several; three sessions for two places, in turn and two at a time; and
\* sessions that are answered offline.
Loads ==
    {Setting("repaired", FALSE, 1, 3,
             {RevenueByRegion, AboutProfit, HighestOfThese, LastAndTop, Sorted, Delete}, {}),
     Setting("repaired", TRUE, 1, 3, {RevenueByRegion, Compare, AboutProfit, HighestOfThese}, {}),
     Setting("repaired", FALSE, 2, 3, {AboutProfit}, {}),
     Setting("repaired", FALSE, 2, 2, {RevenueByRegion}, {AboutProfit}),
     Setting("repaired", FALSE, 1, 5, {Delete}, {Delete}),
     Setting("importable", FALSE, 2, 4, {Delete}, {Delete}),
     Setting("importable", FALSE, 2, 3, {RevenueByRegion, AboutProfit}, {}),
     Setting("commit", FALSE, 2, 3, {RevenueByRegion}, {AboutProfit})}

StemOf(w) ==
    CASE w = "orders" -> "order" [] w = "sales" -> "sale" [] w = "customers" -> "customer"
      [] w = "previous" -> "previou" [] w = "business" -> "busines" [] OTHER -> w

Doc(type, words) == [type |-> type, words |-> words]
Docs == <<Doc("kpi_definition", <<"revenue", "sales">>),
          Doc("sql_pattern", <<"profit", "by", "region">>)>>
Vectors == {<<>>, <<Docs[1]>>}

RevenueTable ==
    [columns |-> <<"region", "total_revenue">>,
     rows |-> <<[region |-> "east", total_revenue |-> 3], [region |-> "west", total_revenue |-> 5],
                [region |-> "south", total_revenue |-> 4]>>]
ProfitTable ==
    [columns |-> <<"region", "total_profit">>,
     rows |-> <<[region |-> "west", total_profit |-> 2], [region |-> "east", total_profit |-> None]>>]
Tables(parts) == IF "profit" \in parts THEN ProfitTable ELSE RevenueTable
Cached(name) ==
    [columns |-> <<"region", "total_profit">>,
     rows |-> <<[region |-> "east", total_profit |-> 9], [region |-> "west", total_profit |-> 8]>>]

Refused == [Query({}, None) EXCEPT !.flaws = {"blocked_keyword"}]
Written == {Query({"profit", "region"}, None), Query({"revenue", "region"}, None), Refused}
Answers(q, sql) == sql = Refused \/ ("profit" \in sql.parts <=> "profit" \in ToSet(q))
Interchangeable == Permutations({w1, w2}) \union Permutations({s2, s3})
RowText(a, b) == a.region = "east" /\ b.region # "east"
LooksOn(q) == StartsWith(q, <<"what", "about">>)
Joined(q, before) == before \o q
=============================================================================
