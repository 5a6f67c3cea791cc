---------------------------- MODULE MCReminders ----------------------------
(* Instances of Reminders for TLC: chats and instances are alike.            *)
EXTENDS Reminders, TLC

Symmetry == Permutations(Chats) \cup Permutations(Instances)
=============================================================================
