--------------------------- MODULE MCDailySchedule ---------------------------
(***************************************************************************)
(* The instance of DailySchedule in which one material comes in and nobody *)
(* makes a report by hand.                                                 *)
(***************************************************************************)
EXTENDS DailySchedule, TLC

=============================================================================
