---------------------------- MODULE ReportPromise ----------------------------
(***************************************************************************)
(* What the delivery of a daily report promises, seen from the group and   *)
(* from the database and without rows, leases or workers: the content is   *)
(* free until the report is committed to, never changes afterwards, the    *)
(* group is shown exactly that content in at most one message, and the     *)
(* report is recorded as delivered only after the group has it.            *)
(* "daily:{group_id}:{report_date}" is one successful send per day and     *)
(* group (docs/superpowers/specs/2026-07-20-ai-intelligence-delivery-      *)
(* design.md:271).                                                         *)
(***************************************************************************)
CONSTANTS Reports, Payloads, Uuids, NoPayload

VARIABLES
  stage,     \* open, committed or delivered
  content,   \* the content committed to
  shown      \* the messages the group can see: <<uuid, content>>

vars == <<stage, content, shown>>

Stages == {"open", "committed", "delivered"}

TypeOK ==
  /\ stage \in [Reports -> Stages]
  /\ content \in [Reports -> Payloads \cup {NoPayload}]
  /\ shown \in [Reports -> SUBSET (Uuids \X Payloads)]

Init ==
  /\ stage = [r \in Reports |-> "open"]
  /\ content = [r \in Reports |-> NoPayload]
  /\ shown = [r \in Reports |-> {}]

\* The report is queued: its content is fixed.
Commit(r, p) ==
  /\ stage[r] = "open"
  /\ stage' = [stage EXCEPT ![r] = "committed"]
  /\ content' = [content EXCEPT ![r] = p]
  /\ UNCHANGED shown

\* The group is shown the report. Only the first showing changes anything.
ShowReport(r) ==
  /\ stage[r] # "open"
  /\ shown[r] = {}
  /\ \E u \in Uuids : shown' = [shown EXCEPT ![r] = {<<u, content[r]>>}]
  /\ UNCHANGED <<stage, content>>

\* The success is recorded.
Deliver(r) ==
  /\ stage[r] = "committed"
  /\ shown[r] # {}
  /\ stage' = [stage EXCEPT ![r] = "delivered"]
  /\ UNCHANGED <<content, shown>>

Next == \E r \in Reports : (\E p \in Payloads : Commit(r, p)) \/ ShowReport(r) \/ Deliver(r)

Spec == Init /\ [][Next]_vars
=============================================================================
