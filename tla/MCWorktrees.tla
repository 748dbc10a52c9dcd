------------------------------ MODULE MCWorktrees ------------------------------
(* One target with a few generations for TLC. *)
EXTENDS ManagedWorktrees

FourNonces == 1 .. 4
=============================================================================
