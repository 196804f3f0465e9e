------------------------------ MODULE MCRunner ------------------------------
(* Instances of Runner for TLC. *)
EXTENDS Runner

LeavesCatch == {"LEAVE_CATCH"}
Leaks == {"LEAK"}
=============================================================================
