--------------------------- MODULE MCAnalysisQueue ---------------------------
(***************************************************************************)
(* Instances of AnalysisQueue for TLC.  da1 and da2 are two contents of    *)
(* document da, db1 is a copy of da1 in document db, dc1 another copy in   *)
(* dc; lease and retry delay are scaled to ticks.                          *)
(***************************************************************************)
EXTENDS AnalysisQueue, TLC

CONSTANTS da1, da2, db1, dc1, da, db, dc

MCDocOf == [v \in Versions |-> IF v \in {da1, da2} THEN da ELSE IF v = db1 THEN db ELSE dc]
MCContentOf == [v \in Versions |-> IF v = da2 THEN "revised" ELSE "original"]

=============================================================================
