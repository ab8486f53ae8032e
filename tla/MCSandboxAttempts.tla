-------------------------- MODULE MCSandboxAttempts --------------------------
(* Small instances of SandboxAttempts for TLC.                             *)
EXTENDS SandboxAttempts, TLC

CONSTANTS c1, c2

OneAttempt == 1 .. 1
TwoAttempts == 1 .. 2
CallSlots == Permutations(Calls)
=============================================================================
