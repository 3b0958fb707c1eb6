--------------------------- MODULE MCConfigReload ---------------------------
(* ConfigReload for one account, two operators and a daemon.               *)
EXTENDS ConfigReload
CONSTANTS home, alice, bob, plain, tuned, broken
=============================================================================
