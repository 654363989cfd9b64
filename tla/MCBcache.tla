------------------------------ MODULE MCBcache ------------------------------
(* Bcache for TLC. *)
EXTENDS Bcache

CONSTANTS b1, b2

MCMRU == <<b2, b1>>
MCNest == {<<1, 2>>}
============================================================================
