---------------------------- MODULE MCWatchdogs -----------------------------
(* Watchdogs, which has no constants: one account, any number of drops.    *)
EXTENDS Watchdogs
=============================================================================
