------------------------------ MODULE NextActions ------------------------------
(***************************************************************************)
(* QueryActionDecider (app/agents/action_decider.py), which says what to   *)
(* do with a message: whether to run SQL, to modify the last one, to work  *)
(* on the rows at hand, or to ask.  The orchestrator builds one and never  *)
(* asks it; its tests do.                                                  *)
(***************************************************************************)
EXTENDS ConversationMemory

TransformTerms ==
    {"bottom", "chart", "explain", "filter", "format", "highest", "list", "lowest", "maximum",
     "minimum", "rename", "sort", "summarize", "summary", "table", "top"}
TransformReferences ==
    {"above", "answer", "it", "result", "results", "them", "this", "those"}
FilterVerbs ==
    {"contain", "containing", "contains", "has", "have", "include", "includes", "including", "with"}
ModifyTerms ==
    {"category", "city", "country", "customer", "month", "product", "region", "segment",
     "state", "year"}
YearWords == {"2023", "2024", "2025"}    \* words that match 20\d{2}
RunNewTerms == {"fresh", "latest", "new", "refresh", "rerun", "re-run", "update"}
StandaloneTerms ==
    {"by", "customer", "customers", "five", "list", "margin", "monthly", "product", "products",
     "profit", "revenue", "sales", "show", "top", "total", "what"}
Objects == {<<"previous">>, <<"the", "previous">>}
BareModify ==
    {<<"modify">> \o o \o <<w>> :
        o \in {<<>>, <<"the">>} \union Objects, w \in {"sql", "query"}}
BareUse ==
    {v \o o \o <<w>> : v \in {<<>>, <<"use">>}, o \in Objects, w \in {"result", "results"}}
BareRun ==
    {<<"run">> \o a \o <<"query">> : a \in {<<>>, <<"a">>, <<"new">>, <<"a", "new">>}}
      \union {<<"new", "query">>}

\* _conversation_state, as far as it decides something.
ConversationState(turns) ==
    [hasResult |-> LatestResult(turns) # None, hasSql |-> LatestSuccessful(turns) # None]

LooksStandalone(q) == Cardinality(ToSet(q) \intersect StandaloneTerms) >= 2

\* A constraint is a prefix of the message, or a year or dimension in it after some SQL.
StartsModify(q) ==
    \/ \E p \in {<<"same", "but">>, <<"same", "for">>, <<"but", "for">>, <<"what", "about">>,
                 <<"how", "about">>} : StartsWith(q, p)
    \/ Len(q) > 1 /\ q[1] \in {"for", "only"}
AsksTransform(q) ==
    \/ Has(q, TransformTerms)
         /\ (Has(q, TransformReferences) \/ Cardinality(ToSet(q)) <= 4)
    \/ Has(q, TransformReferences) /\ Has(q, FilterVerbs)

\* _local_decision: the first rule that applies.  It always gives an action, and Select AI
\* is never asked for one (lines 118-148).
LocalDecision(q, state) ==
    LET Rule(a, applies) == [action |-> a, holds |-> applies]
        rules == <<
          Rule("MODIFY_PREVIOUS_SQL", q \in BareModify),
          Rule("TRANSFORM_PREVIOUS_RESULT", q \in BareUse),
          Rule("ASK_CLARIFICATION", q \in BareRun),
          Rule("MODIFY_PREVIOUS_SQL", Has(q, RunNewTerms) /\ state.hasSql),
          Rule("RUN_NEW_SQL", Has(q, RunNewTerms)),
          Rule("TRANSFORM_PREVIOUS_RESULT", AsksTransform(q)),
          Rule("MODIFY_PREVIOUS_SQL",
                    StartsModify(q) \/ (Has(q, ModifyTerms \union YearWords) /\ state.hasSql)),
          Rule("RUN_NEW_SQL", q # <<>>),
          Rule("ASK_CLARIFICATION", TRUE)>>
    IN  rules[Min({i \in DOMAIN rules : rules[i].holds})].action

\* Slip: a transform goes ahead as soon as some SQL was run.
SafeguardedBySql(action, q, state) ==
    CASE action = "TRANSFORM_PREVIOUS_RESULT" /\ ~state.hasSql -> "ASK_CLARIFICATION"
      [] action = "MODIFY_PREVIOUS_SQL" /\ ~state.hasSql ->
           IF LooksStandalone(q) THEN "RUN_NEW_SQL" ELSE "ASK_CLARIFICATION"
      [] OTHER -> action

\* _apply_safeguards.
Safeguarded(action, q, state) ==
    CASE action = "TRANSFORM_PREVIOUS_RESULT" /\ ~state.hasResult -> "ASK_CLARIFICATION"
      [] action = "MODIFY_PREVIOUS_SQL" /\ ~state.hasSql ->
           IF LooksStandalone(q) THEN "RUN_NEW_SQL" ELSE "ASK_CLARIFICATION"
      [] OTHER -> action

\* decide_next_action.
Decide(q, turns) ==
    LET state == ConversationState(turns)
    IN  Safeguarded(LocalDecision(q, state), q, state)
=============================================================================
