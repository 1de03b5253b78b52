--------------------------- MODULE LocalDB_proofs ---------------------------
(***************************************************************************)
(* Proofs about LocalDB, for every set of threads and statements and every *)
(* number of calls: what the shared connection can do to an answer.        *)
(***************************************************************************)
EXTENDS LocalDB, TLAPS

\* A call knows the statements of all calls that run beside it.
Overlaps ==
    \A t, u \in Active : t # u => query[u] \in met[t]

\* A connection an object has published has its table, or a thread is about to make it,
\* as long as no thread has read an incomplete seed.
TableOrMaker ==
    ~torn => \A o \in Threads :
        con[o] # None /\ con[o] \notin table =>
            \E u \in Threads : pc[u] = "create" /\ db[u] = o

\* A connection belongs to one object, and only connections that some object has opened
\* have tables.
TablesOfOpen ==
    /\ \A o \in Threads : con[o] # None => con[o][1] = o
    /\ \A c \in table : con[c[1]] # None

\* How a call that runs by itself finds the object, the connection and the result.
Calm(t) ==
    /\ pc[t] = "open" => con[db[t]] = None
    /\ pc[t] = "create" => con[db[t]] \notin table
    /\ ~torn /\ pc[t] = "return" => con[db[t]] \in table
    /\ ~torn /\ pc[t] \in OnCursor => cur[t] \in table
    /\ pc[t] \in {"describe", "fetch"} =>
         result[cur[t]] = [of |-> query[t], spent |-> FALSE]
    /\ pc[t] = "fetch" => columns[t] = query[t]

Undisturbed == \A t \in Active : met[t] = {} => Calm(t)

\* What a call may be given, judged by the calls it has met.
Seen(q, m) == {q} \union m \union (IF m = {} THEN {} ELSE {None, CreateTable})

\* From its start to its last read, the result a statement's connection holds is of the
\* call itself or of one beside it.
SeesOnly(t) ==
    /\ pc[t] \in {"running", "describe", "fetch"} /\ result[cur[t]] # None =>
         result[cur[t]].of \in Seen(query[t], met[t])
    /\ pc[t] = "fetch" => columns[t] \in Seen(query[t], met[t])

ResultSeen == \A t \in Threads : SeesOnly(t)

\* The invariant that carries the properties of the answers.
IInv ==
    /\ TypeOK
    /\ Overlaps
    /\ TableOrMaker
    /\ TablesOfOpen
    /\ Undisturbed
    /\ ResultSeen
    /\ SoloCallCorrect
    /\ OnlyOverlappingLeak

-----------------------------------------------------------------------------
(* Typing.                                                                 *)

\* A reply keeps every variable's kind when it leaves the connections alone.
LEMMA ReplyType ==
    ASSUME TypeOK,
           NEW t \in Threads, pc[t] # "idle",
           NEW ok \in BOOLEAN, NEW rows \in Statements \union {None},
           Reply(t, ok, rows),
           seed' \in Seeds, torn' \in BOOLEAN, default' = default, con' = con, table' \in SUBSET Connections,
           result' \in [Connections -> Results \union {None}]
    PROVE  TypeOK'
<1>1. answer' \in Answers \union {None}
  <2>1. [query |-> query[t], ok |-> ok, columns |-> IF ok THEN columns[t] ELSE None,
         rows |-> rows, met |-> met[t], seed |-> seed] \in Answers
    <3>1. query[t] \in Queries
      BY DEF TypeOK
    <3>2. QED
      BY <3>1 DEF TypeOK, Answers
  <2>2. QED
    BY <2>1 DEF TypeOK, Reply
<1>2. /\ query' \in [Threads -> Queries \union {None}]
      /\ db' \in [Threads -> Threads \union {None}]
      /\ cur' \in [Threads -> Connections \union {None}]
      /\ columns' \in [Threads -> Statements \union {None}]
      /\ calls' \in [Threads -> 0..MaxCalls]
      /\ met' \in [Threads -> SUBSET Queries]
      /\ pc' \in [Threads -> Places]
  BY DEF TypeOK, Reply, Goto, Places
<1>3. ASSUME NEW u \in Threads
      PROVE  /\ pc'[u] # "idle" => query'[u] # None
             /\ pc'[u] = "take" => default' # None
             /\ pc'[u] \in Holding => db'[u] # None
             /\ pc'[u] \in {"create", "return"} => con'[db'[u]] # None
             /\ pc'[u] \in OnCursor => cur'[u] # None
  BY DEF TypeOK, Reply, Goto, Holding, OnCursor
<1>4. QED
  BY <1>1, <1>2, <1>3 DEF TypeOK

\* Every step keeps every variable's kind.
LEMMA TypeStep ==
    ASSUME TypeOK, [Next]_vars
    PROVE  TypeOK'
<1> USE LocalDBAssumption DEF Goto, Places, Holding, OnCursor
<1>1. CASE TruncateSeed \/ FinishSeed
  BY <1>1 DEF TypeOK, TruncateSeed, FinishSeed, Locals, Seeds
<1>2. ASSUME NEW t \in Threads, NEW q \in Queries, Call(t, q)
      PROVE  TypeOK'
  <2>1. {query[v] : v \in Active} \subseteq Queries
    BY DEF TypeOK, Active
  <2>2. met' \in [Threads -> SUBSET Queries]
    BY <1>2, <2>1 DEF TypeOK, Call
  <2>3. query' \in [Threads -> Queries \union {None}] /\ calls' \in [Threads -> 0..MaxCalls]
    BY <1>2 DEF TypeOK, Call
  <2>4. QED
    BY <1>2, <2>2, <2>3 DEF TypeOK, Call, shared
<1>3. ASSUME NEW t \in Threads, Lookup(t)
      PROVE  TypeOK'
  BY <1>3 DEF TypeOK, Lookup, shared, Locals
<1>4. ASSUME NEW t \in Threads, Construct(t)
      PROVE  TypeOK'
  BY <1>4 DEF TypeOK, Construct, shared, Locals
<1>5. ASSUME NEW t \in Threads, Take(t)
      PROVE  TypeOK'
  BY <1>5 DEF TypeOK, Take, shared, Locals
<1>6. ASSUME NEW t \in Threads, Accept(t)
      PROVE  TypeOK'
  BY <1>6 DEF TypeOK, Accept, shared, Locals
<1>7. ASSUME NEW t \in Threads, AlreadyOpen(t)
      PROVE  TypeOK'
  BY <1>7 DEF TypeOK, AlreadyOpen, shared, Locals
<1>8. ASSUME NEW t \in Threads, SeedFound(t)
      PROVE  TypeOK'
  BY <1>8 DEF TypeOK, SeedFound, shared, Locals
<1>9. ASSUME NEW t \in Threads, Open(t)
      PROVE  TypeOK'
  <2>1. <<db[t], t>> \in Connections
    BY <1>9 DEF TypeOK, Open, Connections
  <2>2. <<db[t], t>> # None
    BY <2>1
  <2>3. QED
    BY <1>9, <2>1, <2>2 DEF TypeOK, Open, Locals
<1>10. ASSUME NEW t \in Threads, Create(t)
      PROVE  TypeOK'
  BY <1>10 DEF TypeOK, Create, shared, Locals, Results, Statements
<1>11. ASSUME NEW t \in Threads, Return(t)
      PROVE  TypeOK'
  BY <1>11 DEF TypeOK, Return, shared, Locals
<1>12. ASSUME NEW t \in Threads, Start(t)
      PROVE  TypeOK'
  BY <1>12 DEF TypeOK, Start, shared, Locals
<1>13. ASSUME NEW t \in Threads, Complete(t)
      PROVE  TypeOK'
  BY <1>13 DEF TypeOK, Complete, shared, Locals, Results, Statements
<1>14. ASSUME NEW t \in Threads, Describe(t)
      PROVE  TypeOK'
  BY <1>14 DEF TypeOK, Describe, shared, Locals, Results, Statements
<1>15. ASSUME NEW t \in Threads, Refuse(t)
      PROVE  TypeOK'
  BY <1>15, ReplyType DEF TypeOK, Refuse, shared
<1>16. ASSUME NEW t \in Threads, SeedMissing(t)
      PROVE  TypeOK'
  BY <1>16, ReplyType DEF TypeOK, SeedMissing, shared
<1>17. ASSUME NEW t \in Threads, CreateFails(t)
      PROVE  TypeOK'
  <2>1. result' \in [Connections -> Results \union {None}]
    BY <1>17 DEF TypeOK, CreateFails
  <2>2. QED
    BY <1>17, <2>1, ReplyType DEF TypeOK, CreateFails
<1>18. ASSUME NEW t \in Threads, Fail(t)
      PROVE  TypeOK'
  BY <1>18, ReplyType DEF TypeOK, Fail, shared
<1>19. ASSUME NEW t \in Threads, FetchFails(t)
      PROVE  TypeOK'
  BY <1>19, ReplyType DEF TypeOK, FetchFails, shared
<1>20. ASSUME NEW t \in Threads, Fetch(t)
      PROVE  TypeOK'
  <2>1. cur[t] \in Connections /\ result[cur[t]] \in Results
    BY <1>20 DEF TypeOK, Fetch
  <2>2. result' \in [Connections -> Results \union {None}]
    BY <1>20, <2>1 DEF TypeOK, Fetch, Results
  <2>3. (IF result[cur[t]].spent THEN None ELSE result[cur[t]].of)
            \in Statements \union {None}
    BY <2>1 DEF Results
  <2>4. QED
    BY <1>20, <2>2, <2>3, ReplyType DEF TypeOK, Fetch
<1>21. CASE UNCHANGED vars
  BY <1>21 DEF TypeOK, vars
<1>22. QED
  BY <1>1, <1>2, <1>3, <1>4, <1>5, <1>6, <1>7, <1>8, <1>9, <1>10, <1>11,
     <1>12, <1>13, <1>14, <1>15, <1>16, <1>17, <1>18, <1>19, <1>20, <1>21 DEF Next, Step

-----------------------------------------------------------------------------
(* What a step of one thread leaves alone.                                 *)

\* A step of t is t's own affair: it changes no other thread's variables, and not its
\* statement nor whom it has met while its call goes on.
LEMMA StepFrame ==
    ASSUME TypeOK, NEW t \in Threads, Step(t)
    PROVE  /\ pc[t] # "idle"
           /\ seed' = seed
           /\ torn => torn'
           /\ \A u \in Threads \ {t} :
                /\ pc'[u] = pc[u] /\ query'[u] = query[u] /\ met'[u] = met[u]
                /\ db'[u] = db[u] /\ cur'[u] = cur[u] /\ columns'[u] = columns[u]
           /\ pc'[t] # "idle" => query'[t] = query[t] /\ met'[t] = met[t]
<1> USE DEF TypeOK, Goto
<1>1. CASE \/ Lookup(t) \/ Construct(t) \/ Take(t) \/ Accept(t)
            \/ AlreadyOpen(t) \/ SeedFound(t)
  BY <1>1 DEF Lookup, Construct, Take, Accept, AlreadyOpen, SeedFound, shared, Locals
<1>2. CASE Open(t) \/ Create(t) \/ Return(t) \/ Start(t) \/ Complete(t) \/ Describe(t)
  BY <1>2 DEF Open, Create, Return, Start, Complete, Describe, shared, Locals
<1>3. CASE \/ Refuse(t) \/ SeedMissing(t) \/ CreateFails(t)
            \/ Fail(t) \/ Fetch(t) \/ FetchFails(t)
  BY <1>3 DEF Refuse, SeedMissing, CreateFails, Fail, Fetch, FetchFails, shared, Reply
<1>4. QED
  BY <1>1, <1>2, <1>3 DEF Step

\* A call that has met no other call is the only one.
LEMMA Alone ==
    ASSUME Overlaps, NEW t \in Active, NEW u \in Active, met[t] = {}
    PROVE  u = t
  BY DEF Overlaps

\* Calls that start or go on beside each other keep knowing each other's statements.
LEMMA OverlapsStep ==
    ASSUME TypeOK, Overlaps, [Next]_vars
    PROVE  Overlaps'
<1>1. CASE TruncateSeed \/ FinishSeed \/ UNCHANGED vars
  BY <1>1 DEF Overlaps, Active, TruncateSeed, FinishSeed, Locals, vars
<1>2. ASSUME NEW t \in Threads, NEW q \in Queries, Call(t, q)
      PROVE  Overlaps'
  <2>1. Active' = Active \union {t} /\ t \notin Active
    BY <1>2 DEF Active, Call, Goto, TypeOK
  <2>2. query'[t] = q /\ \A u \in Active : query'[u] = query[u]
    BY <1>2, <2>1 DEF Active, Call, TypeOK
  <2>3. met'[t] = {query[v] : v \in Active} /\ \A u \in Active : met'[u] = met[u] \union {q}
    BY <1>2, <2>1 DEF Active, Call, TypeOK
  <2>4. QED
    BY <2>1, <2>2, <2>3 DEF Overlaps
<1>3. ASSUME NEW t \in Threads, Step(t)
      PROVE  Overlaps'
  BY <1>3, StepFrame DEF Overlaps, Active
<1>4. QED
  BY <1>1, <1>2, <1>3 DEF Next

\* The rest of the system stands still while a step only moves t on.
Quiet(t) ==
    \/ Lookup(t) \/ Construct(t) \/ Take(t) \/ Refuse(t) \/ Accept(t)
    \/ AlreadyOpen(t) \/ SeedMissing(t) \/ SeedFound(t)
    \/ Return(t) \/ Start(t) \/ Complete(t) \/ Fail(t) \/ Describe(t)
    \/ Fetch(t) \/ FetchFails(t)

\* Only Open changes a connection, and only Create a table.
LEMMA QuietFrame ==
    ASSUME NEW t \in Threads, Quiet(t)
    PROVE  con' = con /\ table' = table /\ torn' = torn /\ pc[t] # "create"
  BY DEF Quiet, Lookup, Construct, Take, Refuse, Accept, AlreadyOpen, SeedMissing, SeedFound,
         Return, Start, Complete, Fail, Describe, Fetch, FetchFails, shared

\* A published connection stays with or gets its table.
LEMMA TableStep ==
    ASSUME TypeOK, TableOrMaker, TablesOfOpen, [Next]_vars
    PROVE  TableOrMaker' /\ TablesOfOpen'
<1> USE DEF TableOrMaker, TablesOfOpen
<1>1. CASE TruncateSeed \/ FinishSeed \/ UNCHANGED vars
  BY <1>1 DEF TruncateSeed, FinishSeed, Locals, vars
<1>2. ASSUME NEW t \in Threads, NEW q \in Queries, Call(t, q)
      PROVE  TableOrMaker' /\ TablesOfOpen'
  BY <1>2 DEF Call, Goto, TypeOK, shared
<1>3. ASSUME NEW t \in Threads, Quiet(t)
      PROVE  TableOrMaker' /\ TablesOfOpen'
  <2>1. Step(t)
    BY <1>3 DEF Quiet, Step
  <2>2. con' = con /\ table' = table /\ torn' = torn /\ pc[t] # "create"
    BY <1>3, QuietFrame
  <2>3. \A u \in Threads : pc[u] = "create" => pc'[u] = "create" /\ db'[u] = db[u]
    BY <2>1, <2>2, StepFrame
  <2>4. QED
    BY <2>2, <2>3
<1>4. ASSUME NEW t \in Threads, Open(t)
      PROVE  TableOrMaker' /\ TablesOfOpen'
  <2>1. /\ db[t] \in Threads
        /\ con' = [con EXCEPT ![db[t]] = <<db[t], t>>]
        /\ <<db[t], t>> # None
        /\ table' = table /\ torn' = torn
        /\ table \subseteq Connections
        /\ pc'[t] = "create" /\ db' = db
        /\ \A u \in Threads : pc[u] = "create" => pc'[u] = "create"
    BY <1>4, LocalDBAssumption DEF Open, Goto, TypeOK, Holding, Locals, Connections
  <2>2. con \in [Threads -> Connections \union {None}]
    BY DEF TypeOK
  <2>3. TableOrMaker'
    BY <2>1, <2>2
  <2>4. TablesOfOpen'
    BY <2>1, <2>2 DEF Connections
  <2>5. QED
    BY <2>3, <2>4
<1>5. ASSUME NEW t \in Threads, Create(t)
      PROVE  TableOrMaker' /\ TablesOfOpen'
  <2>1. /\ db[t] \in Threads
        /\ con[db[t]] # None
        /\ con' = con
        /\ table' = table \union {con[db[t]]} /\ (torn => torn')
        /\ db' = db
        /\ \A u \in Threads \ {t} : pc[u] = "create" => pc'[u] = "create"
    BY <1>5 DEF Create, Goto, TypeOK, Holding, Locals
  <2>2. TableOrMaker'
    BY <2>1
  <2>3. TablesOfOpen'
    BY <2>1
  <2>4. QED
    BY <2>2, <2>3
<1>6. ASSUME NEW t \in Threads, CreateFails(t)
      PROVE  TableOrMaker' /\ TablesOfOpen'
  <2>1. /\ con[db[t]] \in table \/ torn'
        /\ torn => torn'
        /\ con' = con /\ table' = table
    BY <1>6 DEF CreateFails
  <2>2. \A u \in Threads \ {t} : pc'[u] = pc[u] /\ db'[u] = db[u]
    BY <1>6, StepFrame DEF Step
  <2>3. QED
    BY <2>1, <2>2
<1>7. QED
  BY <1>1, <1>2, <1>3, <1>4, <1>5, <1>6 DEF Next, Step, Quiet

-----------------------------------------------------------------------------
(* A call by itself.                                                       *)

\* As long as a call has met no other, all it sets up stays as it left it.
LEMMA UndisturbedStep ==
    ASSUME TypeOK, Overlaps, TableOrMaker, TablesOfOpen, Undisturbed, [Next]_vars
    PROVE  Undisturbed'
<1> USE DEF Calm
<1>1. CASE TruncateSeed \/ FinishSeed \/ UNCHANGED vars
  BY <1>1 DEF Undisturbed, Active, TruncateSeed, FinishSeed, Locals, vars
<1>2. ASSUME NEW t \in Threads, NEW q \in Queries, Call(t, q)
      PROVE  Undisturbed'
  <2> SUFFICES ASSUME NEW u \in Active', met'[u] = {}
               PROVE  Calm(u)'
    BY DEF Undisturbed
  <2>1. CASE u = t
    BY <1>2, <2>1 DEF Call, Goto, TypeOK, OnCursor
  <2>2. CASE u # t
    <3>1. u \in Active
      BY <1>2, <2>2 DEF Call, Goto, TypeOK, Active
    <3>2. q \in met'[u]
      BY <1>2, <2>2, <3>1 DEF Call, TypeOK, Active
    <3>3. QED
      BY <3>2
  <2>3. QED
    BY <2>1, <2>2
<1>3. ASSUME NEW t \in Threads, Step(t)
      PROVE  Undisturbed'
  <2> SUFFICES ASSUME NEW u \in Active', met'[u] = {}
               PROVE  Calm(u)'
    BY DEF Undisturbed
  <2>1. t \in Active
    BY <1>3, StepFrame DEF Active
  <2>2. u = t
    <3>1. ASSUME u # t
          PROVE  FALSE
      <4>1. u \in Active /\ met[u] = {}
        BY <1>3, <3>1, StepFrame DEF Active
      <4>2. QED
        BY <2>1, <3>1, <4>1, Alone
    <3>2. QED
      BY <3>1
  <2>3. pc'[t] # "idle" /\ query'[t] = query[t] /\ met[t] = {}
    BY <1>3, <2>2, StepFrame DEF Active
  <2>4. Calm(t)
    BY <2>1, <2>3 DEF Undisturbed
  <2>5. CASE Lookup(t) \/ Construct(t) \/ Take(t) \/ Accept(t)
    BY <2>2, <2>5 DEF Lookup, Construct, Take, Accept, Goto, TypeOK, OnCursor
  <2>6. CASE \/ Refuse(t) \/ SeedMissing(t) \/ CreateFails(t) \/ Fail(t)
             \/ Fetch(t) \/ FetchFails(t)
    BY <2>3, <2>6 DEF Refuse, SeedMissing, CreateFails, Fail, Fetch, FetchFails, Reply, Goto,
                      TypeOK
  <2>7. CASE AlreadyOpen(t)
    <3>1. db[t] \in Threads /\ con[db[t]] # None
      BY <2>7 DEF AlreadyOpen, TypeOK, Holding
    <3>2. \A v \in Threads : pc[v] # "create"
      <4>1. ASSUME NEW v \in Threads, pc[v] = "create"
            PROVE  FALSE
        <5>1. v \in Active
          BY <4>1 DEF Active
        <5>2. v = t
          BY <2>1, <2>3, <5>1, Alone
        <5>3. QED
          BY <2>7, <4>1, <5>2 DEF AlreadyOpen
      <4>2. QED
        BY <4>1
    <3>3. ~torn => con[db[t]] \in table
      BY <3>1, <3>2 DEF TableOrMaker
    <3>4. QED
      BY <2>2, <2>7, <3>3 DEF AlreadyOpen, Goto, TypeOK, shared, Locals, OnCursor
  <2>8. CASE SeedFound(t)
    BY <2>2, <2>8 DEF SeedFound, Goto, TypeOK, shared, Locals, OnCursor
  <2>9. CASE Open(t)
    <3>1. db[t] \in Threads /\ con[db[t]] = None
      BY <2>4, <2>9 DEF Open, TypeOK, Holding
    <3>2. <<db[t], t>> \notin table
      <4>1. <<db[t], t>>[1] = db[t]
        OBVIOUS
      <4>2. QED
        BY <3>1, <4>1 DEF TablesOfOpen
    <3>3. con'[db'[t]] = <<db[t], t>> /\ table' = table /\ pc'[t] = "create"
      BY <2>9, <3>1 DEF Open, Goto, TypeOK, Locals
    <3>4. QED
      BY <2>2, <3>2, <3>3 DEF OnCursor
  <2>10. CASE Create(t)
    BY <2>2, <2>10 DEF Create, Goto, TypeOK, Locals, OnCursor
  <2>11. CASE Return(t)
    BY <2>2, <2>4, <2>11 DEF Return, Goto, TypeOK, shared, OnCursor
  <2>12. CASE Start(t)
    BY <2>2, <2>4, <2>12 DEF Start, Goto, TypeOK, Locals, OnCursor
  <2>13. CASE Complete(t)
    <3>1. cur[t] \in Connections
      BY <2>13 DEF Complete, TypeOK, OnCursor
    <3>2. QED
      BY <2>2, <2>4, <2>13, <3>1 DEF Complete, Goto, TypeOK, Locals, OnCursor
  <2>14. CASE Describe(t)
    <3>1. result[cur[t]] = [of |-> query[t], spent |-> FALSE]
      BY <2>4, <2>14 DEF Describe
    <3>2. cur[t] \in Connections /\ result[cur[t]] # None
      <4>1. cur[t] \in Connections /\ query[t] \in Statements
        BY <2>14 DEF Describe, TypeOK, OnCursor, Statements
      <4>2. result[cur[t]] \in Results
        BY <3>1, <4>1 DEF Results
      <4>3. QED
        BY <4>1, <4>2, NoneAssumption
    <3>3. columns'[t] = query[t]
      BY <2>14, <3>1, <3>2 DEF Describe, TypeOK
    <3>4. QED
      BY <2>2, <2>4, <2>14, <3>1, <3>3 DEF Describe, Goto, TypeOK, shared, OnCursor
  <2>15. QED
    BY <1>3, <2>5, <2>6, <2>7, <2>8, <2>9, <2>10, <2>11, <2>12, <2>13, <2>14 DEF Step
<1>4. QED
  BY <1>1, <1>2, <1>3 DEF Next

-----------------------------------------------------------------------------
(* Calls beside each other.                                                *)

\* What a step of t may do to the result of a connection: keep its statement, drop it,
\* or put t's own statement or that of CREATE TABLE in its place.
LEMMA ResultFrame ==
    ASSUME TypeOK, NEW t \in Threads, Step(t), NEW c \in Connections, result'[c] # None
    PROVE  \/ result[c] # None /\ result'[c].of = result[c].of
           \/ result'[c].of \in {query[t], CreateTable}
<1> USE DEF TypeOK
<1>1. CASE result' = result
  BY <1>1
<1>2. CASE Create(t)
  <2>1. c # con[db[t]] => result'[c] = result[c]
    BY <1>2 DEF Create
  <2>2. c = con[db[t]] => result'[c] = [of |-> CreateTable, spent |-> FALSE]
    BY <1>2 DEF Create
  <2>3. QED
    BY <2>1, <2>2
<1>3. CASE CreateFails(t)
  BY <1>3 DEF CreateFails
<1>4. CASE Start(t) \/ Complete(t)
  BY <1>4 DEF Start, Complete
<1>5. CASE Fetch(t)
  <2>1. CASE c = cur[t]
    <3>1. result[c] \in Results
      BY <1>5, <2>1 DEF Fetch
    <3>2. result'[c] = [result[c] EXCEPT !.spent = TRUE]
      BY <1>5, <2>1 DEF Fetch
    <3>3. QED
      BY <1>5, <2>1, <3>1, <3>2 DEF Fetch, Results
  <2>2. CASE c # cur[t]
    BY <1>5, <2>2 DEF Fetch
  <2>3. QED
    BY <2>1, <2>2
<1>6. QED
  BY <1>1, <1>2, <1>3, <1>4, <1>5
     DEF Step, Lookup, Construct, Take, Refuse, Accept, AlreadyOpen, SeedMissing, SeedFound,
         Open, Return, Fail, Describe, FetchFails, shared

\* What a call can read stays its own or that of a call beside it.
LEMMA ResultSeenStep ==
    ASSUME TypeOK, Overlaps, Undisturbed, ResultSeen, [Next]_vars
    PROVE  ResultSeen'
<1>1. CASE TruncateSeed \/ FinishSeed \/ UNCHANGED vars
  BY <1>1 DEF ResultSeen, SeesOnly, TruncateSeed, FinishSeed, Locals, vars
<1>2. ASSUME NEW t \in Threads, NEW q \in Queries, Call(t, q)
      PROVE  ResultSeen'
  <2> SUFFICES ASSUME NEW u \in Threads
               PROVE  SeesOnly(u)'
    BY DEF ResultSeen
  <2>1. CASE u = t \/ u \notin Active
    BY <1>2, <2>1 DEF SeesOnly, Call, Goto, TypeOK, Active
  <2>2. CASE u # t /\ u \in Active
    <3>1. /\ pc'[u] = pc[u] /\ query'[u] = query[u] /\ met'[u] = met[u] \union {q}
          /\ cur' = cur /\ columns' = columns /\ result' = result
      BY <1>2, <2>2 DEF Call, Goto, TypeOK, Active, shared
    <3>2. Seen(query[u], met[u]) \subseteq Seen(query[u], met[u] \union {q})
      BY DEF Seen
    <3>3. SeesOnly(u)
      BY DEF ResultSeen
    <3>4. QED
      BY <3>1, <3>2, <3>3 DEF SeesOnly
  <2>3. QED
    BY <2>1, <2>2
<1>3. ASSUME NEW t \in Threads, Step(t)
      PROVE  ResultSeen'
  <2> SUFFICES ASSUME NEW u \in Threads
               PROVE  SeesOnly(u)'
    BY DEF ResultSeen
  <2>1. t \in Active
    BY <1>3, StepFrame DEF Active
  <2>2. SeesOnly(u)
    BY DEF ResultSeen
  <2>3. CASE u # t
    <3>1. /\ pc'[u] = pc[u] /\ query'[u] = query[u] /\ met'[u] = met[u]
          /\ cur'[u] = cur[u] /\ columns'[u] = columns[u]
      BY <1>3, <2>3, StepFrame
    <3>2. ASSUME pc[u] \in {"running", "describe", "fetch"}, result'[cur[u]] # None
          PROVE  result'[cur[u]].of \in Seen(query[u], met[u])
      <4>1. u \in Active /\ cur[u] \in Connections
        BY <3>2 DEF Active, TypeOK, OnCursor
      <4>2. query[t] \in met[u]
        BY <2>1, <2>3, <4>1 DEF Overlaps
      <4>3. {query[t], CreateTable} \subseteq Seen(query[u], met[u])
        BY <4>2 DEF Seen
      <4>4. \/ result[cur[u]] # None /\ result'[cur[u]].of = result[cur[u]].of
            \/ result'[cur[u]].of \in {query[t], CreateTable}
        BY <1>3, <3>2, <4>1, ResultFrame
      <4>5. QED
        BY <2>2, <3>2, <4>3, <4>4 DEF SeesOnly
    <3>3. QED
      BY <2>2, <3>1, <3>2 DEF SeesOnly
  <2>4. CASE u = t
    <3>1. CASE Start(t)
      <4>1. cur[t] \in Connections /\ cur' = cur
        BY <3>1 DEF Start, TypeOK, OnCursor, Locals
      <4>2. QED
        BY <2>4, <3>1, <4>1 DEF Start, SeesOnly, Goto, TypeOK
    <3>2. CASE Complete(t)
      <4>1. cur[t] \in Connections /\ cur' = cur /\ query' = query
        BY <3>2 DEF Complete, TypeOK, OnCursor, Locals
      <4>2. result'[cur[t]].of = query[t] /\ pc'[t] = "describe"
        BY <3>2, <4>1 DEF Complete, Goto, TypeOK
      <4>3. QED
        BY <2>4, <4>1, <4>2 DEF SeesOnly, Seen
    <3>3. CASE Describe(t)
      <4>1. /\ pc'[t] = "fetch" /\ cur' = cur /\ query' = query /\ met' = met
            /\ result' = result
            /\ columns'[t] = IF result[cur[t]] = None THEN None ELSE result[cur[t]].of
        BY <3>3 DEF Describe, Goto, TypeOK, shared
      <4>2. cur[t] \in Connections /\ query[t] \in Statements
        BY <3>3 DEF Describe, TypeOK, OnCursor, Statements
      <4>3. result[cur[t]] = None => met[t] # {}
        <5>1. ASSUME met[t] = {}
              PROVE  result[cur[t]] # None
          <6>1. result[cur[t]] = [of |-> query[t], spent |-> FALSE]
            BY <2>1, <3>3, <5>1 DEF Undisturbed, Calm, Describe
          <6>2. result[cur[t]] \in Results
            BY <4>2, <6>1 DEF Results
          <6>3. QED
            BY <6>2, NoneAssumption
        <5>2. QED
          BY <5>1
      <4>4. result[cur[t]] # None => result[cur[t]].of \in Seen(query[t], met[t])
        BY <2>2, <2>4, <3>3 DEF SeesOnly, Describe
      <4>5. QED
        BY <2>4, <4>1, <4>3, <4>4 DEF SeesOnly, Seen
    <3>4. CASE ~(Start(t) \/ Complete(t) \/ Describe(t))
      <4>1. pc'[t] \notin {"running", "describe", "fetch"}
        BY <1>3, <3>4
           DEF Step, Lookup, Construct, Take, Refuse, Accept, AlreadyOpen, SeedMissing,
               SeedFound, Open, Create, CreateFails, Return, Fail, Fetch, FetchFails,
               Reply, Goto, TypeOK
      <4>2. QED
        BY <2>4, <4>1 DEF SeesOnly
    <3>5. QED
      BY <3>1, <3>2, <3>3, <3>4
  <2>5. QED
    BY <2>3, <2>4
<1>4. QED
  BY <1>1, <1>2, <1>3 DEF Next

-----------------------------------------------------------------------------
(* Answers.                                                                *)

\* What the two properties say of the answer a step gives.
SoloAnswer(a) ==
    ~torn /\ a.met = {} /\ a.seed # "none" /\ a.query \notin Refused =>
        a.ok /\ a.columns = a.query /\ a.rows = a.query
SeenAnswer(a) ==
    a.ok => a.columns \in Seen(a.query, a.met) /\ a.rows \in Seen(a.query, a.met)
GoodAnswer == answer # None => SoloAnswer(answer) /\ SeenAnswer(answer)

\* The two properties of answers, as one.
LEMMA AnswersAreGood ==
    SoloCallCorrect /\ OnlyOverlappingLeak <=> GoodAnswer
  BY Zenon DEF SoloCallCorrect, OnlyOverlappingLeak, GoodAnswer, SoloAnswer, SeenAnswer, Seen

\* The answer a reply records.
LEMMA ReplyAnswer ==
    ASSUME NEW t \in Threads, NEW ok \in BOOLEAN, NEW rows, Reply(t, ok, rows)
    PROVE  /\ answer'.query = query[t] /\ answer'.met = met[t]
           /\ answer'.seed = seed /\ answer'.ok = ok
           /\ answer'.columns = IF ok THEN columns[t] ELSE None
           /\ answer'.rows = rows
  BY DEF Reply

\* Whatever ends a call, its answer is as it should be.
LEMMA AnswerStep ==
    ASSUME TypeOK, Overlaps, Undisturbed, ResultSeen, SoloCallCorrect, OnlyOverlappingLeak,
           [Next]_vars
    PROVE  SoloCallCorrect' /\ OnlyOverlappingLeak'
<1> SUFFICES GoodAnswer'
  <2>1. (SoloCallCorrect /\ OnlyOverlappingLeak)' <=> GoodAnswer'
    BY AnswersAreGood, PTL
  <2>2. QED
    BY <2>1
<1>1. CASE answer' = None
  BY <1>1 DEF GoodAnswer
<1>2. CASE UNCHANGED vars
  BY <1>2, AnswersAreGood DEF GoodAnswer, SoloAnswer, SeenAnswer, vars
<1>3. ASSUME NEW t \in Threads, Step(t)
      PROVE  GoodAnswer'
  <2>1. t \in Active
    BY <1>3, StepFrame DEF Active
  <2>2. met[t] = {} => Calm(t)
    BY <2>1 DEF Undisturbed
  <2>3. SeesOnly(t)
    BY DEF ResultSeen
  <2>4. CASE Refuse(t)
    BY <2>4, ReplyAnswer DEF Refuse, GoodAnswer, SoloAnswer, SeenAnswer
  <2>5. CASE SeedMissing(t)
    BY <2>5, ReplyAnswer DEF SeedMissing, GoodAnswer, SoloAnswer, SeenAnswer
  <2>6. CASE CreateFails(t)
    <3>1. met[t] # {} \/ torn'
      BY <2>2, <2>6 DEF CreateFails, Calm
    <3>2. QED
      BY <2>6, <3>1, ReplyAnswer DEF CreateFails, GoodAnswer, SoloAnswer, SeenAnswer
  <2>7. CASE Fail(t)
    <3>1. met[t] # {} \/ torn
      BY <2>2, <2>7 DEF Fail, Runnable, Calm, OnCursor
    <3>2. QED
      BY <2>7, <3>1, ReplyAnswer DEF Fail, shared, GoodAnswer, SoloAnswer, SeenAnswer
  <2>8. CASE FetchFails(t)
    <3>1. met[t] # {}
      <4>1. query[t] \in Statements
        BY <2>8 DEF FetchFails, TypeOK, Statements
      <4>2. [of |-> query[t], spent |-> FALSE] \in Results
        BY <4>1 DEF Results
      <4>3. QED
        BY <2>2, <2>8, <4>2, NoneAssumption DEF FetchFails, Calm
    <3>2. QED
      BY <2>8, <3>1, ReplyAnswer DEF FetchFails, GoodAnswer, SoloAnswer, SeenAnswer
  <2>9. CASE Fetch(t)
    <3> DEFINE rows == IF result[cur[t]].spent THEN None ELSE result[cur[t]].of
    <3>1. Reply(t, TRUE, rows) /\ pc[t] = "fetch" /\ result[cur[t]] # None
      BY <2>9 DEF Fetch
    <3>2. /\ answer'.query = query[t] /\ answer'.met = met[t]
          /\ answer'.columns = columns[t] /\ answer'.rows = rows
          /\ answer'.ok = TRUE
      <4> HIDE DEF rows
      <4>1. QED
        BY <3>1, ReplyAnswer
    <3>3. met[t] = {} => /\ result[cur[t]] = [of |-> query[t], spent |-> FALSE]
                         /\ columns[t] = query[t]
      BY <2>2, <3>1 DEF Calm
    <3>4. met[t] = {} => rows = query[t]
      BY <3>3
    <3>5. columns[t] \in Seen(query[t], met[t]) /\ result[cur[t]].of \in Seen(query[t], met[t])
      BY <2>3, <3>1 DEF SeesOnly
    <3>6. rows \in Seen(query[t], met[t])
      BY <3>4, <3>5 DEF Seen
    <3>7. QED
      BY <3>2, <3>3, <3>4, <3>5, <3>6 DEF GoodAnswer, SoloAnswer, SeenAnswer
  <2>10. QED
    BY <1>1, <1>3, <2>4, <2>5, <2>6, <2>7, <2>8, <2>9
       DEF Step, Lookup, Construct, Take, Accept, AlreadyOpen, SeedFound, Open, Create, Return,
           Start, Complete, Describe, Goto
<1>4. QED
  BY <1>1, <1>2, <1>3 DEF Next, TruncateSeed, FinishSeed, Call, Goto

-----------------------------------------------------------------------------
(* The properties of the executor.                                         *)

\* Nothing is open and nobody calls at first.
LEMMA InvInit == Init => IInv
<1> SUFFICES ASSUME Init
             PROVE  IInv
  OBVIOUS
<1>1. TypeOK
  <2>1. seed \in Seeds /\ torn \in BOOLEAN /\ table \in SUBSET Connections
    BY DEF Init
  <2>2. QED
    BY <2>1, LocalDBAssumption DEF Init, TypeOK, Places, Holding, OnCursor
<1>2. Overlaps /\ TableOrMaker /\ TablesOfOpen /\ Undisturbed
  BY DEF Init, Overlaps, TableOrMaker, TablesOfOpen, Undisturbed, Active
<1>3. ResultSeen
  BY DEF Init, ResultSeen, SeesOnly
<1>4. SoloCallCorrect /\ OnlyOverlappingLeak
  BY DEF Init, SoloCallCorrect, OnlyOverlappingLeak
<1>5. QED
  BY <1>1, <1>2, <1>3, <1>4 DEF IInv

\* The steps above together.
LEMMA InvStep == IInv /\ [Next]_vars => IInv'
  BY TypeStep, OverlapsStep, TableStep, UndisturbedStep, ResultSeenStep, AnswerStep DEF IInv

\* In every state of local_db.py under API threads the invariant holds.
THEOREM Invariance == Spec => []IInv
  BY InvInit, InvStep, PTL DEF Spec

\* For every set of threads and statements, every variable holds values of its kind, and
\* a thread has what the place it has reached needs.
THEOREM TypeCorrect == Spec => []TypeOK
<1>1. IInv => TypeOK
  BY DEF IInv
<1>2. QED
  BY <1>1, Invariance, PTL

\* Unless a table was made of an incomplete seed, LocalDB.execute, called while no other
\* call runs, answers its own statement, whatever calls that raced through start-up or
\* overtook each other left behind.
THEOREM SoloCallsAreCorrect == Spec => []SoloCallCorrect
<1>1. IInv => SoloCallCorrect
  BY DEF IInv
<1>2. QED
  BY <1>1, Invariance, PTL

\* Whenever no call runs, the shared connection is closed or has the sales table, unless a
\* start-up read an incomplete seed.
THEOREM ConnectionHasItsTable == Spec => []TableWhenQuiet
<1>1. IInv => TableWhenQuiet
  <2> SUFFICES ASSUME IInv, Active = {}, default # None, ~torn
               PROVE  con[default] \in table \union {None}
    BY DEF TableWhenQuiet
  <2>1. default \in Threads
    BY DEF IInv, TypeOK
  <2>2. \A u \in Threads : pc[u] # "create"
    BY DEF Active
  <2>3. QED
    BY <2>1, <2>2 DEF IInv, TableOrMaker
<1>2. QED
  BY <1>1, Invariance, PTL

\* An answer holds nothing but its own statement's result, that of a call it overlapped,
\* or, only if it overlapped one, nothing or the result of CREATE TABLE.
THEOREM LeaksOnlyOverlap == Spec => []OnlyOverlappingLeak
<1>1. IInv => OnlyOverlappingLeak
  BY DEF IInv
<1>2. QED
  BY <1>1, Invariance, PTL
=============================================================================
