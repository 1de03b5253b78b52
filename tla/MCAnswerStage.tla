----------------------------- MODULE MCAnswerStage -----------------------------
(* Nine processes: two threads and one logging through the filter; the server      *)
(* summarising results of many forms, without a language model and with one; the   *)
(* benchmark with the pipeline, the mock and the stub, the mock on queries without *)
(* a difficulty, and the pipeline on one whose rows are not captured yet.          *)
EXTENDS AnswerStage

CONSTANTS East, West, North, Padded, Mail, Day, Card, Code, Ada, c1, c2

ShapesOf ==
    [w \in Words |-> CASE w = Mail -> {"EMAIL", "ID"}
                       [] w = Day -> {"PHONE"}
                       [] w = Card -> {"CARD", "PHONE"}
                       [] w = Code -> {"PHONE", "ID"}
                       [] OTHER -> {}]
DigitsOf == [w \in Words |-> CASE w = Day -> 8 [] w = Card -> 16 [] w = Code -> 9 [] OTHER -> 0]
MCDetectors == <<{Ada, East}>>
Stripped(cell) == IF cell = Padded THEN East ELSE cell

Column(name, hints) == [name |-> name, hints |-> hints]
Region == Column("region", {})
Revenue == Column("revenue", {"revenue"})
Quantity == Column("quantity", {})
Margin == Column("margin", {"pct"})
Month == Column("month", {"temporal"})
Id == Column("order_id", {"id"})
ResultOf(columns, rows) ==
    [table |-> [ok |-> TRUE, columns |-> columns, rows |-> rows],
     sql |-> {"tables", "aggregate", "order"}]
Failure == [table |-> [ok |-> FALSE, columns |-> <<>>, rows |-> <<>>], sql |-> {}]

Tables ==
    {ResultOf(<<Region, Revenue>>, rows) : rows \in {
        <<>>, <<<<East, 4>>>>, <<<<East, 30>>, <<West, 10>>, <<North, 10>>>>,
        <<<<East, 20>>, <<West, 20>>>>, <<<<East, NULL>>, <<West, 5>>, <<North, 7>>>>,
        <<<<East, 5>>, <<West, 0 - 5>>>>, <<<<NULL, 3>>, <<East, 3>>, <<Mail, 3>>>>,
        <<<<East, 1>>, <<West, 1>>, <<North, 1>>, <<Mail, 1>>, <<Ada, 1>>, <<Day, 9>>, <<Code, 1>>>>}}
    \union {ResultOf(<<Month, Revenue>>, rows) : rows \in {
        <<<<1, 10>>, <<2, 30>>, <<3, 20>>>>, <<<<1, 30>>, <<2, NULL>>, <<3, 10>>>>,
        <<<<1, NULL>>, <<2, 0>>, <<3, 8>>>>, <<<<Day, 2>>, <<Card, 6>>>>}}
    \union {ResultOf(<<Region, Margin>>, <<<<East, 12>>, <<West, 30>>>>),
            ResultOf(<<Region, Quantity, Revenue>>, <<<<East, 9, 10>>, <<West, 2, 80>>>>),
            ResultOf(<<Revenue>>, <<<<7>>>>), ResultOf(<<Revenue>>, <<<<7>>, <<9>>>>),
            ResultOf(<<Id, Revenue>>, <<<<1, 7>>, <<2, 9>>>>),
            ResultOf(<<Id, Region>>, <<<<1, East>>, <<2, West>>>>),
            Failure}

Fields == {"answer", "important_numbers", "trends_anomalies", "final_takeaway", "explanation"}

Golden(sql, rows, ordered, difficulty) ==
    [sql |-> sql, rows |-> rows, ordered |-> ordered, difficulty |-> difficulty]
Queries ==
    <<Golden({"tables", "order"}, <<<<East, 20>>, <<West, 10>>>>, TRUE, "easy"),
      Golden({"tables", "where"}, <<<<East, 20>>, <<East, 20>>, <<West, 10>>>>, FALSE, "easy"),
      Golden({"tables", "aggregate"}, <<<<12>>>>, FALSE, "hard")>>
Ungraded == <<Queries[1], Golden({"tables", "where"}, <<<<12>>>>, FALSE, "none")>>
Uncaptured == <<Golden({"tables", "where"}, <<>>, FALSE, "easy")>>
Retrieved ==
    {ResultOf(<<Region, Revenue>>, rows) : rows \in {
        <<<<East, 20>>, <<West, 10>>>>, <<<<West, 11>>, <<Padded, 20>>>>,
        <<<<West, 10>>, <<East, 20>>, <<East, 21>>>>}}
    \union {ResultOf(<<Revenue>>, <<<<13>>>>), Failure}

Setting(threads, records, n, results, replies, golden, agent) ==
    [threads |-> threads, records |-> records, logs |-> n, results |-> results,
     replies |-> replies, golden |-> golden, agent |-> agent, latencies |-> {4, 26}]
Record1 == <<<<East, Mail>>>>
Record2 == <<<<Ada, Card, West>>, <<Code, Day>>>>
Loads ==
    {Setting({c1, c2}, {Record1}, 2, {}, {}, <<>>, "pipeline"),
     Setting({c1}, {Record2}, 2, {}, {}, <<>>, "pipeline"),
     Setting({c1}, {}, 0, Tables, {{}}, <<>>, "pipeline"),
     Setting({c1}, {}, 0, Tables, (SUBSET Fields) \union {Raises}, <<>>, "pipeline")}
    \union {Setting({c1}, {}, 0, Retrieved, {{}}, Queries, agent) :
              agent \in {"pipeline", "mock", "stub"}}
    \union {Setting({c1}, {}, 0, Retrieved, {{}}, Ungraded, "mock"),
            Setting({c1}, {}, 0, Retrieved, {{}}, Uncaptured, "pipeline")}
=============================================================================
