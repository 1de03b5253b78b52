------------------------------- MODULE LocalDB -------------------------------
(***************************************************************************)
(* The offline executor, evaluation/local_db.py, as the API uses it: the   *)
(* endpoints are plain functions, so FastAPI runs each on a worker thread, *)
(* and all of them share one module-wide LocalDB and its one DuckDB        *)
(* connection.  No lock is taken anywhere.  A thread may be overtaken      *)
(* between any two reads or writes of the shared state, so each is a step. *)
(*                                                                         *)
(* A thread builds at most one LocalDB (then _DEFAULT is set for good) and *)
(* opens at most one connection for each, so an object is named by the     *)
(* thread that built it and a connection by <<object, thread>>.            *)
(*                                                                         *)
(* External, modelled from its use at lines 57-81: a DuckDB connection     *)
(* holds ONE current result.  Starting a statement drops it, completing    *)
(* one installs its own, description and fetchall() read whichever result  *)
(* the connection holds then, and a fetched result is spent.               *)
(***************************************************************************)
EXTENDS Naturals, FiniteSets

CONSTANTS
    Threads,      \* worker threads of the API process
    Tabular,      \* statements that read the sales table
    Constant,     \* statements that need no table, /health's "SELECT 1"
    Refused,      \* statements execute() turns away unrun (lines 66-75)
    MaxCalls,     \* bound on the calls one thread makes
    None

Queries == Tabular \union Constant \union Refused
Connections == Threads \X Threads
CreateTable == "create table"
Statements == Queries \union {CreateTable}
Results == [of : Statements, spent : BOOLEAN]

\* The seed CSV: not there yet, opened for writing and not finished, or complete.
Seeds == {"none", "part", "whole"}

\* An answer, with the circumstances it was given in.
Answers == [query : Queries, ok : BOOLEAN, columns : Statements \union {None},
            rows : Statements \union {None}, met : SUBSET Queries, seed : Seeds]

ASSUME LocalDBAssumption ==
    /\ None \notin Threads \union Connections \union Queries \union {CreateTable}
    /\ CreateTable \notin Queries
    /\ Refused \intersect (Tabular \union Constant) = {}
    /\ Tabular \intersect Constant = {}
    /\ MaxCalls \in Nat

\* None is none of the records either.
ASSUME NoneAssumption == None \notin Results \union Answers

VARIABLES
    seed,       \* the seed CSV
    default,    \* _DEFAULT: the shared object
    con,        \* con[o]: self._con of object o
    table,      \* connections whose product_sales table has been created
    result,     \* result[c]: the current result of connection c
    pc,         \* where each thread is
    query,      \* the statement each thread is to run
    db,         \* the object get_local_db() returned to it
    cur,        \* the connection _connect() returned to it
    columns,    \* the columns it has read
    answer,     \* the answer the latest step gave, if it ended a call
    calls,      \* how many calls it has made
    met,        \* history: statements of the calls its own call has overlapped
    torn        \* history: has some CREATE TABLE read an incomplete seed?

shared == <<seed, default, con, table, result, torn>>
vars == <<seed, default, con, table, result, torn, pc, query, db, cur, columns, answer, calls, met>>

Active == {t \in Threads : pc[t] # "idle"}
Init ==
    /\ seed \in Seeds
    /\ torn = FALSE
    /\ default = None
    /\ con = [o \in Threads |-> None]
    /\ table = {}
    /\ result = [c \in Connections |-> None]
    /\ pc = [t \in Threads |-> "idle"]
    /\ query = [t \in Threads |-> None]
    /\ db = [t \in Threads |-> None]
    /\ cur = [t \in Threads |-> None]
    /\ columns = [t \in Threads |-> None]
    /\ answer = None
    /\ calls = [t \in Threads |-> 0]
    /\ met = [t \in Threads |-> {}]

-----------------------------------------------------------------------------

\* The call of t goes on at place, and no call ends.
Goto(t, place) ==
    /\ pc' = [pc EXCEPT ![t] = place]
    /\ answer' = None

\* The call of t ends: with an ExecutionResult, or with an exception (ok is FALSE).
Reply(t, ok, rows) ==
    /\ answer' = [query |-> query[t], ok |-> ok, columns |-> IF ok THEN columns[t] ELSE None,
                  rows |-> rows, met |-> met[t], seed |-> seed]
    /\ query' = [query EXCEPT ![t] = None]
    /\ db' = [db EXCEPT ![t] = None]
    /\ cur' = [cur EXCEPT ![t] = None]
    /\ columns' = [columns EXCEPT ![t] = None]
    /\ met' = [met EXCEPT ![t] = {}]
    /\ pc' = [pc EXCEPT ![t] = "idle"]
    /\ UNCHANGED calls

Locals == <<query, db, cur, columns, calls, met>>

\* `make preprocess`, run or run again while the API is up: open("w") makes the file, or
\* empties the one that is there.
TruncateSeed ==
    /\ seed' = "part"
    /\ answer' = None
    /\ UNCHANGED <<default, con, table, result, torn, pc>>
    /\ UNCHANGED Locals

\* The last row is written and the file closed; a run that is killed never gets here.
FinishSeed ==
    /\ seed = "part"
    /\ seed' = "whole"
    /\ answer' = None
    /\ UNCHANGED <<default, con, table, result, torn, pc>>
    /\ UNCHANGED Locals

\* A request reaches its thread, which calls get_local_db().execute(q).
Call(t, q) ==
    /\ pc[t] = "idle"
    /\ calls[t] < MaxCalls
    /\ calls' = [calls EXCEPT ![t] = @ + 1]
    /\ query' = [query EXCEPT ![t] = q]
    /\ met' = [u \in Threads |->
                 IF u = t THEN {query[v] : v \in Active}
                 ELSE IF u \in Active THEN met[u] \union {q} ELSE met[u]]
    /\ Goto(t, "lookup")
    /\ UNCHANGED shared
    /\ UNCHANGED <<db, cur, columns>>

\* Slip: the check for None is gone.
LookupUnchecked(t) ==
    /\ pc[t] = "lookup"
    /\ Goto(t, "take")
    /\ UNCHANGED shared
    /\ UNCHANGED Locals

\* get_local_db: `if _DEFAULT is None`.
Lookup(t) ==
    /\ pc[t] = "lookup"
    /\ Goto(t, IF default = None THEN "construct" ELSE "take")
    /\ UNCHANGED shared
    /\ UNCHANGED Locals

\* `_DEFAULT = LocalDB()`: a new object, its connection not open.
Construct(t) ==
    /\ pc[t] = "construct"
    /\ default' = t
    /\ Goto(t, "take")
    /\ UNCHANGED <<seed, con, table, result, torn>>
    /\ UNCHANGED Locals

\* `return _DEFAULT` reads the variable again.
Take(t) ==
    /\ pc[t] = "take"
    /\ db' = [db EXCEPT ![t] = default]
    /\ Goto(t, "guard")
    /\ UNCHANGED shared
    /\ UNCHANGED <<query, cur, columns, calls, met>>

\* An empty, writing or unparsable statement is refused before _connect().
Refuse(t) ==
    /\ pc[t] = "guard"
    /\ query[t] \in Refused
    /\ Reply(t, FALSE, None)
    /\ UNCHANGED shared

Accept(t) ==
    /\ pc[t] = "guard"
    /\ query[t] \notin Refused
    /\ Goto(t, "connect")
    /\ UNCHANGED shared
    /\ UNCHANGED Locals

\* _connect, connection open: `if self._con is None` is false.
AlreadyOpen(t) ==
    /\ pc[t] = "connect"
    /\ con[db[t]] # None
    /\ Goto(t, "return")
    /\ UNCHANGED shared
    /\ UNCHANGED Locals

\* Slip: duckdb.connect() is called before the seed is looked for.
ConnectThenLook(t) ==
    /\ pc[t] = "connect"
    /\ con[db[t]] = None
    /\ seed = "none"
    /\ con' = [con EXCEPT ![db[t]] = <<db[t], t>>]
    /\ Reply(t, FALSE, None)
    /\ UNCHANGED <<seed, default, table, result, torn>>

\* _connect without a seed: FileNotFoundError, and the connection is not opened.
SeedMissing(t) ==
    /\ pc[t] = "connect"
    /\ con[db[t]] = None
    /\ seed = "none"
    /\ Reply(t, FALSE, None)
    /\ UNCHANGED shared

\* seed.exists(): an unfinished file exists too.
SeedFound(t) ==
    /\ pc[t] = "connect"
    /\ con[db[t]] = None
    /\ seed # "none"
    /\ Goto(t, "open")
    /\ UNCHANGED shared
    /\ UNCHANGED Locals

\* Slip: the connection is opened and returned without its table.
OpenBare(t) ==
    /\ pc[t] = "open"
    /\ con' = [con EXCEPT ![db[t]] = <<db[t], t>>]
    /\ Goto(t, "return")
    /\ UNCHANGED <<seed, default, table, result, torn>>
    /\ UNCHANGED Locals

\* `self._con = duckdb.connect()`: published before it has a table.
Open(t) ==
    /\ pc[t] = "open"
    /\ con' = [con EXCEPT ![db[t]] = <<db[t], t>>]
    /\ Goto(t, "create")
    /\ UNCHANGED <<seed, default, table, result, torn>>
    /\ UNCHANGED Locals

\* `self._con.execute("CREATE TABLE ... read_csv_auto(...)")` on the connection self._con
\* holds by now; of an incomplete seed it makes a table of the rows there are.
Create(t) ==
    /\ pc[t] = "create"
    /\ con[db[t]] \notin table
    /\ table' = table \union {con[db[t]]}
    /\ result' = [result EXCEPT ![con[db[t]]] = [of |-> CreateTable, spent |-> FALSE]]
    /\ torn' = (torn \/ seed = "part")
    /\ Goto(t, "return")
    /\ UNCHANGED <<seed, default, con>>
    /\ UNCHANGED Locals

\* A table that exists already is an error, and so is a file without a header or cut off
\* in the middle of a row; it leaves execute() as an exception and self._con as it is.
CreateFails(t) ==
    /\ pc[t] = "create"
    /\ con[db[t]] \in table \/ seed = "part"
    /\ result' = [result EXCEPT ![con[db[t]]] = None]
    /\ torn' = (torn \/ con[db[t]] \notin table)
    /\ Reply(t, FALSE, None)
    /\ UNCHANGED <<seed, default, con, table>>

\* `return self._con`.
Return(t) ==
    /\ pc[t] = "return"
    /\ cur' = [cur EXCEPT ![t] = con[db[t]]]
    /\ Goto(t, "execute")
    /\ UNCHANGED shared
    /\ UNCHANGED <<query, db, columns, calls, met>>

\* Slip: a result the connection already holds is taken for this statement's.
StartUnlessHeld(t) ==
    /\ pc[t] = "execute"
    /\ Goto(t, IF result[cur[t]] = None THEN "running" ELSE "describe")
    /\ UNCHANGED shared
    /\ UNCHANGED Locals

\* `con.execute(duck_sql)` starts: the connection drops the result it held.
Start(t) ==
    /\ pc[t] = "execute"
    /\ result' = [result EXCEPT ![cur[t]] = None]
    /\ Goto(t, "running")
    /\ UNCHANGED <<seed, default, con, table, torn>>
    /\ UNCHANGED Locals

Runnable(t) == query[t] \in Tabular => cur[t] \in table

\* The statement completes and its result becomes the connection's.
Complete(t) ==
    /\ pc[t] = "running"
    /\ Runnable(t)
    /\ result' = [result EXCEPT ![cur[t]] = [of |-> query[t], spent |-> FALSE]]
    /\ Goto(t, "describe")
    /\ UNCHANGED <<seed, default, con, table, torn>>
    /\ UNCHANGED Locals

\* The table is not there: "Execution error: ...".
Fail(t) ==
    /\ pc[t] = "running"
    /\ ~Runnable(t)
    /\ Reply(t, FALSE, None)
    /\ UNCHANGED shared

\* The columns, from cur.description; a connection without a result describes none.
Describe(t) ==
    /\ pc[t] = "describe"
    /\ columns' = [columns EXCEPT ![t] =
                     IF result[cur[t]] = None THEN None ELSE result[cur[t]].of]
    /\ Goto(t, "fetch")
    /\ UNCHANGED shared
    /\ UNCHANGED <<query, db, cur, calls, met>>

\* The rows, from cur.fetchall(): all of the current result the first time, then none.
Fetch(t) ==
    /\ pc[t] = "fetch"
    /\ result[cur[t]] # None
    /\ Reply(t, TRUE, IF result[cur[t]].spent THEN None ELSE result[cur[t]].of)
    /\ result' = [result EXCEPT ![cur[t]].spent = TRUE]
    /\ UNCHANGED <<seed, default, con, table, torn>>

\* Without a current result fetchall() raises, and execute() answers a failure.
FetchFails(t) ==
    /\ pc[t] = "fetch"
    /\ result[cur[t]] = None
    /\ Reply(t, FALSE, None)
    /\ UNCHANGED shared

Step(t) ==
    \/ Lookup(t) \/ Construct(t) \/ Take(t) \/ Refuse(t) \/ Accept(t)
    \/ AlreadyOpen(t) \/ SeedMissing(t) \/ SeedFound(t) \/ Open(t)
    \/ Create(t) \/ CreateFails(t) \/ Return(t)
    \/ Start(t) \/ Complete(t) \/ Fail(t) \/ Describe(t) \/ Fetch(t) \/ FetchFails(t)

Next ==
    \/ TruncateSeed
    \/ FinishSeed
    \/ \E t \in Threads : Step(t) \/ \E q \in Queries : Call(t, q)

Spec == Init /\ [][Next]_vars

-----------------------------------------------------------------------------

Places == {"idle", "lookup", "construct", "take", "guard", "connect", "open", "create",
           "return", "execute", "running", "describe", "fetch"}
Holding == {"guard", "connect", "open", "create", "return", "execute", "running",
            "describe", "fetch"}
OnCursor == {"execute", "running", "describe", "fetch"}

\* Every variable holds values of its kind, and a thread has the statement, the object
\* and the connection that the place it has reached needs.
TypeOK ==
    /\ seed \in Seeds
    /\ torn \in BOOLEAN
    /\ default \in Threads \union {None}
    /\ con \in [Threads -> Connections \union {None}]
    /\ table \in SUBSET Connections
    /\ result \in [Connections -> Results \union {None}]
    /\ pc \in [Threads -> Places]
    /\ query \in [Threads -> Queries \union {None}]
    /\ db \in [Threads -> Threads \union {None}]
    /\ cur \in [Threads -> Connections \union {None}]
    /\ columns \in [Threads -> Statements \union {None}]
    /\ answer \in Answers \union {None}
    /\ calls \in [Threads -> 0..MaxCalls]
    /\ met \in [Threads -> SUBSET Queries]
    /\ \A t \in Threads :
         /\ pc[t] # "idle" => query[t] # None
         /\ pc[t] = "take" => default # None
         /\ pc[t] \in Holding => db[t] # None
         /\ pc[t] \in {"create", "return"} => con[db[t]] # None
         /\ pc[t] \in OnCursor => cur[t] # None

\* Unless a table was made of an incomplete seed (ServesTheSeed says what follows then), a
\* call no other call overlapped answers its own statement, columns and rows, once the
\* seed is there: whatever earlier calls did to the shared object, to its connection and
\* to the result they left behind, racing or failing on the way.
SoloCallCorrect ==
    ~torn /\ answer # None =>
      LET a == answer
      IN  a.met = {} /\ a.seed # "none" /\ a.query \notin Refused =>
            a.ok /\ a.columns = a.query /\ a.rows = a.query

\* A start-up that found no seed, or in which calls raced to open the connection, never
\* leaves the process with a connection that has no sales table; only one that read an
\* incomplete seed can.
TableWhenQuiet ==
    Active = {} /\ default # None /\ ~torn => con[default] \in table \union {None}

\* What the shared connection can do to an answer is bounded by what ran at the same
\* time: columns and rows are the call's own, those of a call it overlapped, or, only
\* if it overlapped one, nothing or the count CREATE TABLE returns.  The result of a
\* call that had ended before is never served.
OnlyOverlappingLeak ==
    answer # None =>
      LET a == answer
          seen == {a.query} \union a.met
                    \union (IF a.met = {} THEN {} ELSE {None, CreateTable})
      IN  a.ok => a.columns \in seen /\ a.rows \in seen

\* local_db.py:65, "Run `sql` (Oracle dialect) locally and return an ExecutionResult":
\* a successful result holds the columns and the rows of the statement it was asked for.
OwnRows ==
    answer # None =>
      (answer.ok => answer.columns = answer.query /\ answer.rows = answer.query)

\* local_db.py:54, "Run `make preprocess` ... first.": with the seed complete, a call no
\* other call overlaps is answered, whatever start-ups found before.
ServesTheSeed ==
    answer # None =>
      LET a == answer
      IN  a.met = {} /\ a.seed = "whole" /\ a.query \notin Refused => a.ok
=============================================================================
