------------------------------ MODULE MCSched -------------------------------
(* TLC instances of Sched: the .cfg files give the constants values.  User   *)
(* timers are interchangeable.                                               *)
EXTENDS Sched, TLC

UserSymmetry == Permutations(User)
=============================================================================
