-------------------------- MODULE MCIntakeWorkers --------------------------
(* Small instances of IntakeWorkers for TLC: drafts without cards.         *)
EXTENDS IntakeWorkers, TLC
=============================================================================
