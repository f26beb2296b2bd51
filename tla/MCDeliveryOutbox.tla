-------------------------- MODULE MCDeliveryOutbox --------------------------
(***************************************************************************)
(* Instances of DeliveryOutbox for TLC: every key goes to the group it is  *)
(* given here; retry delays and lease are scaled to ticks.                 *)
(***************************************************************************)
EXTENDS DeliveryOutbox, TLC

CONSTANTS r1, m1, g1, g2

\* The report goes to the group the daemon is bound to first.
MCGroupOf == [k \in Keys |-> g1]

\* Two attempts in all: the shape of the retry chain with one delay.
MCDelays1 == <<1>>

=============================================================================
