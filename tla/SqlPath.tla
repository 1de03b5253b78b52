-------------------------------- MODULE SqlPath --------------------------------
(***************************************************************************)
(* From a question to rows on the live backend: the intent and support     *)
(* guards, the retriever, the planner, Select AI's SQL and its             *)
(* deterministic fallback, the validator, the executor with its cached     *)
(* results, the reflector and the summariser (app/agents, app/rag,         *)
(* app/sql).  Nothing here keeps a state that a later answer depends on.   *)
(*                                                                         *)
(* A document is [type, words].  A statement is a record of                *)
(*   flaws   the checks of validate_sql it fails                           *)
(*   parts   the tables, measures, columns and years its text names        *)
(*   fetch   the number of its first FETCH FIRST, or None                  *)
(*   limit   the number of its LIMIT, or None                              *)
(* What Oracle, Select AI and the embedding service answer is a choice:    *)
(* sets of answers, one of which may be a failure.                         *)
(***************************************************************************)
EXTENDS ConversationMemory

CONSTANTS
    Documents,        \* load_documents(), in their order
    TopK,             \* top_k, 4 in the code
    DefaultRowLimit,  \* 100 in the code
    MaxRowLimit,      \* 500 in the code
    MaxRows,          \* AGENT_MAX_ROWS_RETURNED
    Stem(_),          \* a word without its plural s
    VectorAnswers,    \* what the vector search may find, a set of lists of documents
    Statements,       \* what Select AI may write; None for an empty text
    Writes(_, _),     \* may it write this for a question?
    TableOf(_),       \* the columns and rows a statement with these parts has in Oracle
    CachedTable(_)    \* the columns and rows fallbacks.py keeps under a name

ASSUME RowLimitAssumption ==
    /\ {DefaultRowLimit, MaxRowLimit, MaxRows, TopK} \subseteq Nat \ {0}
    /\ DefaultRowLimit <= MaxRowLimit

UnsafeIntents ==
    {"alter", "create", "delete", "drop", "insert", "merge", "replace", "revoke", "truncate",
     "update"}
StopWords ==
    {"a", "an", "about", "again", "and", "are", "as", "by", "business", "context", "do", "for",
     "from", "how", "in", "is", "last", "of", "on", "or", "previous", "same", "show", "sql",
     "select", "sum", "the", "to", "use", "using", "what", "when", "which", "who", "with"}
\* SYNONYMS; stems are looked up, so that the entries for plurals are never found.
Synonyms(term) ==
    CASE term \in {"revenue"} -> {"sales", "turnover"}
      [] term = "turnover" -> {"revenue", "sales"}
      [] term = "profit" -> {"margin", "earnings"}
      [] term = "margin" -> {"profit"}
      [] term = "quantity" -> {"units"}
      [] term = "customer" -> {"customers"}
      [] term = "product" -> {"products"}
      [] term = "category" -> {"categories"}
      [] term = "region" -> {"area", "zone"}
      [] term = "total" -> {"sum"}
      [] OTHER -> {}

\* extract_search_terms, as a set: every use of it is one of a set.
SearchTerms(text) ==
    LET stems == {Stem(w) : w \in ToSet(text)} \ StopWords
    IN  stems \union UNION {Synonyms(t) : t \in stems}

\* The words that resolving puts in beside those of the two questions.
Inserted ==
    {"same", "business", "context", "as", "previous", "question", "what", "is", "total", "by"}
      \union ToSet(Metrics) \union ToSet(Groupings)

\* _normalize_word: a stem is the word, or a word of more than three letters without a last
\* "s"; that of a word put in never asks for a change.
ASSUME StemAssumption == \A w \in Inserted : Stem(w) \notin UnsafeIntents

\* assess_question_intent_safety, of the question as it was asked.
IsUnsafe(q) == SearchTerms(q) \intersect UnsafeIntents # {}

\* assess_question_support: some term of the question occurs in a retrieved document.
IsSupported(q, documents) ==
    \E i \in DOMAIN documents :
        SearchTerms(q) \intersect SearchTerms(documents[i].words) # {}

-----------------------------------------------------------------------------

Query(parts, n) == [flaws |-> {}, parts |-> parts \union {"dataset"}, fetch |-> n, limit |-> None]

\* What Oracle may be asked for, and what it and fallbacks.py answer.
NamedByFallback ==
    {"dataset", "region", "category", "product_name", "order_date", "2024", "revenue", "profit",
     "margin"}
CachedNames ==
    {"region_margin", "monthly", "products", "category_profit", "region_profit",
     "region_revenue", "category_sales"}
ResultTables ==
    {TableOf(parts) :
        parts \in (SUBSET NamedByFallback) \union {sql.parts : sql \in Statements \ {None}}}
      \union {CachedTable(name) : name \in CachedNames}
AllRows == UNION {ToSet(table.rows) : table \in ResultTables}
AllStatements ==
    Statements
      \union [flaws : {{}}, parts : SUBSET NamedByFallback, fetch : Nat, limit : {None}]

\* A row has numbers or NULL in the columns of numbers.
IsTable(table) ==
    /\ table.columns \in Seq(ToSet(table.columns)) /\ table.rows \in Seq(ToSet(table.rows))
    /\ \A row \in ToSet(table.rows), c \in ToSet(table.columns) \intersect Numbers :
         row[c] = None \/ row[c] \in Int

\* Numbers of rows are naturals; rows are put in the order of a text made of each.
ASSUME StatementAssumption ==
    \A sql \in Statements \ {None} :
        /\ sql = [flaws |-> sql.flaws, parts |-> sql.parts, fetch |-> sql.fetch, limit |-> sql.limit]
        /\ \A n \in {sql.fetch, sql.limit} : n = None \/ n \in Nat
ASSUME TableAssumption ==
    /\ \A table \in ResultTables : IsTable(table)
    /\ \A a, b, c \in AllRows :
         /\ TextBefore(a, b) => ~TextBefore(b, a)
         /\ TextBefore(a, c) => TextBefore(a, b) \/ TextBefore(b, c)

-----------------------------------------------------------------------------

\* _with_required_schema_context: a table_schema document comes first when none was found.
IsSchema(document) == document.type = "table_schema"
WithSchema(found) ==
    LET schemas == SelectSeq(Documents, IsSchema)
    IN  IF found = <<>> \/ SelectSeq(found, IsSchema) # <<>> \/ schemas = <<>> THEN found
        ELSE <<schemas[1]>> \o SubSeq(found, 1, Min({Len(found), TopK - 1}))

\* _local_search: the documents that name a term, those that name more of them first.
Count(document, terms) == Len(SelectSeq(document.words, LAMBDA w : w \in terms))
LocalSearch(terms) ==
    LET scored == Where(Documents, LAMBDA d : Count(d, terms) > 0)
        ranked == Ordered(scored, LAMBDA a, b : Count(a, terms) > Count(b, terms))
    IN  SubSeq(ranked, 1, Min({TopK, Len(ranked)}))

\* retrieve(): what may come back.  The vector search, and the embedding of the question
\* before it, may fail or find nothing, and then the words of the question are searched.
Retrievals(q) ==
    {WithSchema(found) : found \in
        (VectorAnswers \ {<<>>})
          \union (IF <<>> \in VectorAnswers THEN {LocalSearch(SearchTerms(q))} ELSE {})}

\* plan(): a question of several steps is planned by Select AI, if it answers.  The plan is
\* reported and nothing is run by it.
ComplexTerms == {"compare", "vs", "trend", "growth", "why", "reason", "difference"}
Plans(q, profile) ==
    {"single_step"} \union (IF Has(q, ComplexTerms) /\ profile THEN {"multi_step"} ELSE {})

\* build_prompt: the question, and under it the documents.
Prompt(q, documents) ==
    q \o FoldSeq(LAMBDA d, text : d.words \o text, <<>>, documents)

-----------------------------------------------------------------------------

\* fallback_sql_for_prompt looks for words anywhere in the prompt, documents included.
FallbackStatement(prompt) ==
    LET In(phrases) == \E p \in phrases : Mentions(prompt, p)
        All(S) == S \subseteq ToSet(prompt)
        rules == <<
          <<In({<<"profit", "margin">>}) /\ All({"region"}),
            Query({"margin", "profit", "revenue", "region"}, DefaultRowLimit)>>,
          <<All({"revenue", "2024"}) /\ Has(prompt, {"month", "monthly"}),
            Query({"order_date", "2024", "revenue"}, DefaultRowLimit)>>,
          <<In({<<"top", "5", "products">>, <<"top", "five", "products">>}),
            Query({"revenue", "product_name"}, Min({5, DefaultRowLimit}))>>,
          <<All({"profit", "region"}), Query({"profit", "region"}, DefaultRowLimit)>>,
          <<All({"profit", "category"}), Query({"profit", "category"}, DefaultRowLimit)>>,
          <<In({<<m, "by", "region">> : m \in {"revenue", "sales"}}),
            Query({"revenue", "region"}, DefaultRowLimit)>>,
          <<In({<<m, "by", "category">> : m \in {"revenue", "sales"}}
                 \union {<<"what", "were", "total", "sales", "by", "product", "category">>}),
            Query({"revenue", "category"}, DefaultRowLimit)>>,
          <<TRUE, None>> >>
    IN  rules[Min({i \in DOMAIN rules : rules[i][1]})][2]

AiStatements(q) == {sql \in Statements : Writes(q, sql)}

\* generate(): Select AI's statement, or when it is not set up or fails the fallback.
Generations(q, documents, profile) ==
    {FallbackStatement(Prompt(q, documents))} \union (IF profile THEN AiStatements(q) ELSE {})

\* The checks of validate_sql in their order, and the statement with its row limit.
Checks == <<"comment", "blocked_keyword", "unparsed", "several", "not_select", "writes">>
Refusal(sql) == IF sql = None THEN "no_sql" ELSE FirstIn(Checks, sql.flaws)
IsValid(sql) == sql # None /\ sql.flaws = {}
WithRowLimit(sql) ==
    CASE sql.fetch # None ->
           IF sql.fetch <= MaxRowLimit THEN sql ELSE [sql EXCEPT !.fetch = MaxRowLimit]
      [] sql.fetch = None ->
           IF sql.limit # None /\ sql.limit <= MaxRowLimit THEN sql
           ELSE [sql EXCEPT !.fetch = DefaultRowLimit]

\* fallback_results_for_sql: rows kept in the code, whatever filter the statement has.
FallbackTable(sql) ==
    LET Names(S) == S \union {"dataset"} \subseteq sql.parts
        rules == <<
          <<Names({"margin"}), "region_margin">>, <<Names({"order_date", "2024"}), "monthly">>,
          <<Names({"revenue", "product_name"}), "products">>,
          <<Names({"profit", "category"}), "category_profit">>,
          <<Names({"profit", "region"}), "region_profit">>,
          <<Names({"revenue", "region"}), "region_revenue">>,
          <<Names({"revenue", "category"}), "category_sales">>, <<TRUE, None>> >>
    IN  rules[Min({i \in DOMAIN rules : rules[i][1]})][2]

FirstRows(rows, n) == SubSeq(rows, 1, Min({n, Len(rows)}))

Result(status, table, rows) == [status |-> status, columns |-> table.columns, rows |-> rows]
NoRows(status) == Result(status, [columns |-> <<>>], <<>>)

\* Oracle's rows for the statement; it has no LIMIT clause.
OracleRows(sql) ==
    FirstRows(TableOf(sql.parts).rows, IF sql.fetch = None THEN MaxRows ELSE sql.fetch)

\* execute() of validate_sql(sql): what may come back.
Executions(sql) ==
    LET safe == WithRowLimit(sql)
        cached == FallbackTable(safe)
        live == Result("success", TableOf(safe.parts),
                       FirstRows(OracleRows(safe), Min({MaxRowLimit, MaxRows})))
    IN  IF ~IsValid(sql) THEN {NoRows("skipped")}
        ELSE (IF safe.limit = None THEN {live} ELSE {})
             \union {IF cached = None THEN NoRows("error")
                     ELSE Result("fallback_success", CachedTable(cached),
                                 CachedTable(cached).rows)}

\* reflect(): with an issue, Select AI may write another statement, which is then run in
\* place of the first one.  detect_issue is missing at this commit; a result that is not
\* of a successful execution is taken for the issue it looks for.
HasIssue(result) == result.status \notin {"success", "fallback_success"}
Corrections(q, result, profile) ==
    {None} \union (IF HasIssue(result) /\ profile THEN AiStatements(q) \ {None} ELSE {})

\* Slip: the corrected statement is run and the first one reported.
RunsReportingFirst(q, documents, profile) ==
    UNION {UNION {UNION {
        {[sql |-> sql, result |-> again] :
            again \in IF better = None THEN {result} ELSE Executions(better)}
        : better \in Corrections(q, result, profile)}
        : result \in Executions(sql)}
        : sql \in Generations(q, documents, profile)}

\* A statement and the result of running it, after the reflector had its say.
Runs(q, documents, profile) ==
    UNION {UNION {UNION {
        IF better = None THEN {[sql |-> sql, result |-> result]}
        ELSE {[sql |-> better, result |-> again] : again \in Executions(better)}
        : better \in Corrections(q, result, profile)}
        : result \in Executions(sql)}
        : sql \in Generations(q, documents, profile)}

\* _pipeline_stage.
Stage(sql, result) ==
    CASE sql = None -> "rag_context_prepared_for_select_ai_sql_generation"
      [] sql # None /\ ~IsValid(sql) -> "sql_generated_but_validation_failed"
      [] sql # None /\ IsValid(sql) ->
           CASE result.status = "fallback_success" -> "sql_executed_with_fallback"
             [] result.status = "success" -> "sql_executed_successfully"
             [] OTHER -> "sql_validated_but_execution_failed"

\* summarise(): what the answer speaks of, in Select AI's words or in its own.
Summary(result) ==
    CASE result.status \notin {"success", "fallback_success"} -> "did not execute"
      [] result.status \in {"success", "fallback_success"} ->
           IF result.rows = <<>> THEN "no matching rows" ELSE "rows"
=============================================================================
