------------------------------ MODULE FollowUps ------------------------------
(***************************************************************************)
(* Follow-up resolution, app/agents/followups.py: which questions continue *)
(* the previous turn, and what standalone question they become.            *)
(*                                                                         *)
(* A question is a sequence of lower-case words; a phrase the code matches *)
(* as a whole ("sub category", "what about") is one word, and the question *)
(* mark at the end is left out.                                            *)
(***************************************************************************)
EXTENDS SequencesExt

CONSTANTS
    Measures,     \* MEASURE_WORDS
    Dimensions,   \* DIMENSION_WORDS
    Years,        \* words that match \b(19|20)\d{2}\b
    Triggers,     \* the words of TRIGGER_PREFIXES
    Markers,      \* FOLLOW_UP_MARKERS
    NoText        \* None: no previous question, or nothing to rewrite

ASSUME VocabularyAssumption ==
    /\ Measures \intersect (Dimensions \union Years) = {}
    /\ Dimensions \intersect Years = {}
    /\ {"by", "in"} \intersect (Measures \union Dimensions \union Years) = {}

\* Does the question hold a word of S?  The first one, and its place.
Names(text, S) == \E i \in DOMAIN text : text[i] \in S
Place(text, S) == Min({i \in DOMAIN text : text[i] \in S})
FirstOf(text, S) == text[Place(text, S)]

\* "total sales by region" stands on its own.
SelfContained(q) == Names(q, Measures) /\ (Names(q, Dimensions) \/ Names(q, Years))

StartsWithTrigger(q) == q # <<>> /\ Head(q) \in Triggers

\* Line 180 counts the words of the question.
ShortFragment(q) ==
    Len(q) <= 3 /\ Names(q, Measures \union Dimensions \union Years)

LooksLikeFollowUp(q) ==
    /\ q # <<>>
    /\ \/ StartsWithTrigger(q)
       \/ Names(q, Markers)
       \/ ~SelfContained(q) /\ ShortFragment(q)

\* Lines 216-218: a measure is only ever swapped for a measure.
WithMeasure(q, p) ==
    IF Names(q, Measures) /\ Names(p, Measures)
    THEN ReplaceAt(p, Place(p, Measures), FirstOf(q, Measures))
    ELSE p

\* Lines 224-232: the dimension takes the place of all that follows the first "by",
\* for by_clause matches up to the end of the question; with no "by" it is appended.
WithDimension(q, p) ==
    LET bys == {i \in 1..(Len(p) - 1) : p[i] = "by"}
    IN  IF ~Names(q, Dimensions) THEN p
        ELSE IF bys # {} THEN SubSeq(p, 1, Min(bys)) \o <<FirstOf(q, Dimensions)>>
        ELSE p \o <<"by", FirstOf(q, Dimensions)>>

\* Lines 235-241.
WithYear(q, p) ==
    IF ~Names(q, Years) THEN p
    ELSE IF Names(p, Years) THEN ReplaceAt(p, Place(p, Years), FirstOf(q, Years))
    ELSE p \o <<"in", FirstOf(q, Years)>>

\* Slip: the year is put in before the dimension is swapped.
RewriteYearFirst(q, p) ==
    LET rewritten == WithDimension(q, WithYear(q, WithMeasure(q, p)))
    IN  IF p = <<>> \/ rewritten = p THEN NoText ELSE rewritten

\* The follow-up q put into the previous question p; NoText when that changes nothing.
RewriteFollowUp(q, p) ==
    LET rewritten == WithYear(q, WithDimension(q, WithMeasure(q, p)))
    IN  IF p = <<>> \/ rewritten = p THEN NoText ELSE rewritten

\* resolve: p is NoText when there is no previous turn.
Resolve(q, p) ==
    IF p # NoText /\ LooksLikeFollowUp(q) /\ RewriteFollowUp(q, p) # NoText
    THEN RewriteFollowUp(q, p)
    ELSE q
=============================================================================
