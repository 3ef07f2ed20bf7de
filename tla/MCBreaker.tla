------------------------------ MODULE MCBreaker ------------------------------
(* A small instance of Breaker for TLC: two callers of one group.            *)
EXTENDS Breaker
==============================================================================
