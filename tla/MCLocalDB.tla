------------------------------ MODULE MCLocalDB ------------------------------
(* Three API threads with one call each, and two kinds of statement besides *)
(* one that is refused: enough for two to race to open the connection while *)
(* a third already uses it.                                                 *)
EXTENDS LocalDB, TLC
CONSTANTS t1, t2, t3, revenue, select1, drop
MCThreads == {t1, t2, t3}
MCTabular == {revenue}
MCConstant == {select1}
MCRefused == {drop}
Symmetry == Permutations(MCThreads)
=============================================================================
