----------------------------- MODULE MCTaskLoop -----------------------------
(* TLC instances of TaskLoop: the .cfg files give the constants values.      *)
EXTENDS TaskLoop
=============================================================================
