---------------------------- MODULE MCOraclePool ----------------------------
(* Two threads with two calls each on a pool of one connection: one waits   *)
(* for the other, one closes the pool under the other, and a call follows   *)
(* whatever two racing ones left.                                           *)
EXTENDS OraclePool
CONSTANTS t1, t2
MCThreads == {t1, t2}
=============================================================================
