---------------------------- MODULE MCChatFrontend ----------------------------
(* Four answers in a browser session, cleared at any time: a plain question, a *)
(* cut to the largest, a filter that may miss, and one that drops a column.    *)
EXTENDS ChatFrontend

Question(filter, sort, top, n, select, standalone) ==
    [filter |-> filter, sort |-> sort, top |-> top, n |-> n, select |-> select,
     mentions |-> {"amount"},
     refers |-> FALSE, standalone |-> standalone, short |-> TRUE]
MCAsks ==
    {Question(NoFilter, "bare", "none", 0, "none", TRUE),
     Question(NoFilter, "asc", "top", 1, "none", FALSE),
     Question([is |-> "west"], "none", "none", 0, "none", FALSE),
     Question([over |-> 15], "none", "none", 0, "drop", FALSE)}
MCPrecedes(a, b) == a = "east" /\ b = "west"
Row(name, amount) == [name |-> name, amount |-> amount]
MCResults ==
    {[columns |-> Columns, rows |-> <<Row("east", 10), Row("west", 20)>>],
     [columns |-> {"amount"}, rows |-> <<[amount |-> 15]>>]}
=============================================================================
