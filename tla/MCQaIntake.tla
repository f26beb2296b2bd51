----------------------------- MODULE MCQaIntake -----------------------------
(***************************************************************************)
(* Instances of QaIntake for TLC: every question is asked in one thread.   *)
(***************************************************************************)
EXTENDS QaIntake, TLC

CONSTANTS t1

MCThreadOf == [q \in Questions |-> t1]

=============================================================================
