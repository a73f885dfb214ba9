----------------------------- MODULE MCScheduler -----------------------------
(* An instance of Scheduler, and of its theorems' assumptions, for TLC. *)
EXTENDS SchedulerProofs
=============================================================================
