---------------------------- MODULE MCRateLimiter ----------------------------
(* An instance of RateLimiter in which a client can fill its window, be      *)
(* refused, and come back after the window has moved past its first stamps.  *)
EXTENDS RateLimiter
CONSTANTS c1, c2
MCClients == {c1, c2}
=============================================================================
