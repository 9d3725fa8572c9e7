----------------------------- MODULE MCReminders -----------------------------
(* TLC instances of Reminders: the two dispatchers are alike.              *)
EXTENDS Reminders, TLC

Symmetry == Permutations(Dispatchers)
=============================================================================
