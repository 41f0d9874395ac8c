-------------------------------- MODULE MCWatcher --------------------------------
(* Small instances of Watcher for TLC. *)
EXTENDS Watcher

CONSTANTS h1, h2, alice
==================================================================================
