---------------------------- MODULE MCSourceRuns ----------------------------
(***************************************************************************)
(* Instances of SourceRuns for TLC.  The 24 hours of the lease are scaled  *)
(* to ticks; the failure threshold is 2 where only its boundary matters.   *)
(***************************************************************************)
EXTENDS SourceRuns, TLC

=============================================================================
