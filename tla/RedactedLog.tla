------------------------------ MODULE RedactedLog ------------------------------
(***************************************************************************)
(* What a redacting log promises, with no word about detectors, threads or *)
(* time (sql_agent/safety/pii_filter.py, PIIRedactingLogFilter): a thread  *)
(* that logs a record has it written once, with every string in its place, *)
(* and every word as Safe allows it.                                       *)
(*                                                                         *)
(* A record is a sequence of strings, a string a sequence of words.        *)
(***************************************************************************)
EXTENDS Sequences

CONSTANTS
    Callers,    \* threads that write log records
    Nobody,     \* no record
    Safe(_, _)  \* may the first word be written as the second?

VARIABLES
    writing,    \* the record each caller is about to write, <<>> for none
    written     \* the last record each caller wrote, [from, to]

vars == <<writing, written>>

SafeString(from, to) ==
    Len(to) = Len(from) /\ \A k \in DOMAIN from : Safe(from[k], to[k])
SafeRecord(from, to) ==
    Len(to) = Len(from) /\ \A i \in DOMAIN from : SafeString(from[i], to[i])

Init ==
    /\ writing = [c \in Callers |-> <<>>]
    /\ written = [c \in Callers |-> Nobody]

\* A caller logs a record, any one.
Log(c) ==
    /\ writing[c] = <<>>
    /\ writing'[c] # <<>>
    /\ writing' = [writing EXCEPT ![c] = writing'[c]]
    /\ UNCHANGED written

\* The record is written, redacted in one of the ways that are safe.
Write(c) ==
    /\ writing[c] # <<>>
    /\ writing' = [writing EXCEPT ![c] = <<>>]
    /\ written' = [written EXCEPT ![c] = written'[c]]
    /\ written'[c].from = writing[c]
    /\ SafeRecord(writing[c], written'[c].to)

Next == \E c \in Callers : Log(c) \/ Write(c)

Spec == Init /\ [][Next]_vars
=============================================================================
