-------------------------- MODULE SourceRuns_proofs --------------------------
(***************************************************************************)
(* Theorems about SourceRuns, for any daemon calls, manual calls, lease,   *)
(* threshold and number of revisions.                                      *)
(***************************************************************************)
EXTENDS SourceRuns, TLAPS

\* The lease runs down as fast as its holder ages.
LeaseAges ==
  \A r \in Runners :
    runner[r].phase \in Critical /\ lease.holder = r => lease.left + runner[r].age = LeaseTicks

\* A call has stored what it counts as stored of the response it is going through.
OkIn(call, items) ==
  /\ call.phase \in {"leased", "running"} => call.fetched = 0 /\ call.next = 1 /\ ~call.bad
  /\ call.phase = "ingesting" /\ ~call.bad => \A i \in 1..call.next - 1 : i \in items
  /\ call.phase = "finishing" /\ call.status = "success" => 1..call.fetched \subseteq items

ItemsStored == \A r \in Runners : OkIn(runner[r], stored)

IInv == /\ TypeOK
        /\ LeaseAges
        /\ LeaseUntilOverrun
        /\ SuspendedAtThreshold
        /\ ItemsStored

THEOREM InitIInv == Init => IInv
BY RunsAssumption DEF Init, IInv, TypeOK, LeaseAges, LeaseUntilOverrun, SuspendedAtThreshold, ItemsStored,
   OkIn, Idle, Fresh, NoLease, Critical, Runner, Phase, RunStatus, HealthStatus, Items

\* The records a call starts with and returns to.
LEMMA FreshIsRunner == \A phase \in Phase : Fresh(phase) \in Runner
<1>1. 0 \in 0..LeaseTicks /\ 0 \in 0..MaxRev /\ 1 \in 1..MaxRev + 1
  BY RunsAssumption
<1> QED
  BY <1>1, Zenon DEF Fresh, Runner, RunStatus

LEMMA IdleIsRunner == Idle \in Runner /\ Fresh("leased") \in Runner
BY FreshIsRunner DEF Idle, Phase

LEMMA FinishingIsRunner ==
  ASSUME TypeOK, NEW r \in Runners, NEW status \in RunStatus
  PROVE  Finishing(r, status) \in [Runners -> Runner]
<1>1. [runner[r] EXCEPT !.phase = "finishing", !.status = status] \in Runner
  BY ZenonT(60) DEF TypeOK, Runner, Phase
<1>2. Finishing(r, status) =
        [runner EXCEPT ![r] = [runner[r] EXCEPT !.phase = "finishing", !.status = status]]
  BY DEF TypeOK, Finishing
<1> QED
  BY <1>1, <1>2 DEF TypeOK

\* Every step keeps the types.
LEMMA TypeStep == ASSUME TypeOK, Next PROVE TypeOK'
<1> USE RunsAssumption DEF TypeOK
<1>1. ASSUME NEW r \in Runners, Start(r) PROVE TypeOK'
  BY <1>1 DEF Start, Goto, Runner, Phase
<1>2. ASSUME NEW r \in Runners, ClaimSource(r) PROVE TypeOK'
  <2>2. runner' \in [Runners -> Runner]
    BY <1>2, IdleIsRunner DEF ClaimSource
  <2>3. lease' \in [holder : Runners \cup {NoRunner}, left : 0..LeaseTicks]
    BY <1>2 DEF ClaimSource
  <2> QED
    BY <1>2, <2>2, <2>3 DEF ClaimSource
<1>3. ASSUME NEW r \in Runners, StartRun(r) PROVE TypeOK'
  BY <1>3 DEF StartRun, Goto, Runner, Phase
<1>4. ASSUME NEW r \in Runners,
             RefuseSource(r) \/ FetchFails(r) \/ FetchNotModified(r) \/ CollectorFails(r)
      PROVE  TypeOK'
  BY <1>4 DEF RefuseSource, FetchFails, FetchNotModified, CollectorFails, Finishing, Runner, Phase, RunStatus
<1>5. ASSUME NEW r \in Runners, FetchModified(r) PROVE TypeOK'
  <2>1. [runner[r] EXCEPT !.phase = "ingesting", !.fetched = rev] \in Runner
    BY ZenonT(60) DEF Runner, Phase
  <2>2. runner' = [runner EXCEPT ![r] = [runner[r] EXCEPT !.phase = "ingesting", !.fetched = rev]]
    BY <1>5 DEF FetchModified
  <2> QED
    BY <1>5, <2>1, <2>2 DEF FetchModified
<1>6. ASSUME NEW r \in Runners, IngestItem(r) \/ CollectedFailure(r) PROVE TypeOK'
  BY <1>6 DEF IngestItem, CollectedFailure, HasNext, Runner, Phase, Items
<1>7. ASSUME NEW r \in Runners, EndOfItems(r) PROVE TypeOK'
  <2>1. StatusOf(r) \in RunStatus
    BY DEF StatusOf, RunStatus
  <2> QED
    BY <1>7, <2>1, FinishingIsRunner DEF EndOfItems
<1>8. ASSUME NEW r \in Runners, FinishRun(r) PROVE TypeOK'
  <2>1. HealthAfter(health, runner[r].status) \in
          [failures : 0..Threshold, status : HealthStatus, succeeded : BOOLEAN]
    BY DEF HealthAfter, Succeeded, Skipped, Failed, Counted, HealthStatus
  <2> QED
    BY <1>8, <2>1 DEF FinishRun, Goto, Runner, Phase
<1>9. ASSUME NEW r \in Runners, FinishFails(r) PROVE TypeOK'
  BY <1>9 DEF FinishFails, Goto, Runner, Phase
<1>10. ASSUME NEW r \in Runners, ReleaseSource(r) PROVE TypeOK'
  BY <1>10, IdleIsRunner DEF ReleaseSource, NoLease
<1>11. ASSUME NEW r \in Runners, Cancel(r) PROVE TypeOK'
  <2>1. [runner EXCEPT ![r] = Idle] \in [Runners -> Runner]
    BY IdleIsRunner
  <2>2. Goto(r, "releasing") \in [Runners -> Runner]
    BY DEF Goto, Runner, Phase
  <2>3. Finishing(r, "failed") \in [Runners -> Runner]
    BY FinishingIsRunner DEF RunStatus
  <2>4. runner' \in [Runners -> Runner]
    BY <1>11, <2>1, <2>2, <2>3 DEF Cancel
  <2> QED
    BY <1>11, <2>4 DEF Cancel
<1>12. ASSUME NEW r \in Runners, Abandon(r) PROVE TypeOK'
  BY <1>12, IdleIsRunner DEF Abandon
<1>13. ASSUME DaemonCrash PROVE TypeOK'
  BY <1>13, IdleIsRunner DEF DaemonCrash
<1>14. ASSUME Publish PROVE TypeOK'
  BY <1>14 DEF Publish
<1>15. ASSUME Tick PROVE TypeOK'
  BY <1>15 DEF Tick, CountDown, CountUp, Runner
<1> QED
  BY <1>1, <1>2, <1>3, <1>4, <1>5, <1>6, <1>7, <1>8, <1>9, <1>10, <1>11, <1>12, <1>13, <1>14,
     <1>15 DEF Next, Execute

----------------------------------------------------------------------------
(***************************************************************************)
(* The lease.                                                              *)
(***************************************************************************)

\* A step that leaves the lease alone, lets no call into the critical phases and
\* changes no age.
LEMMA LeaseUntouched ==
  ASSUME IInv, lease' = lease,
         \A q \in Runners : runner'[q].phase \in Critical =>
           runner[q].phase \in Critical /\ runner'[q].age = runner[q].age
  PROVE  LeaseAges' /\ LeaseUntilOverrun'
BY DEF IInv, LeaseAges, LeaseUntilOverrun

LEMMA LeaseStep == ASSUME IInv, Next PROVE LeaseAges' /\ LeaseUntilOverrun'
<1> DEFINE Calm == \A q \in Runners : runner'[q].phase \in Critical =>
                     runner[q].phase \in Critical /\ runner'[q].age = runner[q].age
<1>a. TypeOK
  BY DEF IInv
<1>1. ASSUME NEW r \in Runners, Start(r) PROVE lease' = lease /\ Calm
  BY <1>1, <1>a DEF Start, Goto, Critical, TypeOK, Runner
<1>2. ASSUME NEW r \in Runners, ClaimSource(r) PROVE LeaseAges' /\ LeaseUntilOverrun'
  <2>1. CASE Reclaimable
    <3>1. /\ lease' = [holder |-> r, left |-> LeaseTicks]
          /\ runner' = [runner EXCEPT ![r] = Fresh("leased")]
      BY <1>2, <2>1 DEF ClaimSource
    <3>2. runner'[r].age = 0 /\ \A q \in Runners \ {r} : runner'[q] = runner[q]
      BY <3>1, <1>a DEF TypeOK, Fresh
    <3>3. \A q \in Runners \ {r} : runner[q].phase \in Critical => runner[q].age = LeaseTicks
      BY <2>1, <1>a, RunsAssumption
         DEF IInv, LeaseUntilOverrun, LeaseAges, Reclaimable, TypeOK, Runner
    <3> QED
      BY <3>1, <3>2, <3>3, <1>a, RunsAssumption DEF LeaseAges, LeaseUntilOverrun, TypeOK
  <2>2. CASE ~Reclaimable
    <3>1. lease' = lease /\ Calm
      BY <1>2, <2>2, <1>a DEF ClaimSource, Idle, Fresh, Critical, TypeOK
    <3> QED
      BY <3>1, LeaseUntouched
  <2> QED
    BY <2>1, <2>2
<1>3. ASSUME NEW r \in Runners, StartRun(r) PROVE lease' = lease /\ Calm
  BY <1>3, <1>a DEF StartRun, Goto, Critical, TypeOK, Runner
<1>4. ASSUME NEW r \in Runners,
             RefuseSource(r) \/ FetchFails(r) \/ FetchNotModified(r) \/ EndOfItems(r)
               \/ CollectorFails(r)
      PROVE  lease' = lease /\ Calm
  BY <1>4, <1>a DEF RefuseSource, FetchFails, FetchNotModified, EndOfItems, CollectorFails,
     Finishing, Critical, TypeOK, Runner
<1>5. ASSUME NEW r \in Runners, FetchModified(r) \/ IngestItem(r) \/ CollectedFailure(r)
      PROVE  lease' = lease /\ Calm
  BY <1>5, <1>a DEF FetchModified, IngestItem, CollectedFailure, Critical, TypeOK, Runner
<1>6. ASSUME NEW r \in Runners, FinishRun(r) \/ FinishFails(r) PROVE lease' = lease /\ Calm
  BY <1>6, <1>a DEF FinishRun, FinishFails, Goto, Critical, TypeOK, Runner
<1>7. ASSUME NEW r \in Runners, ReleaseSource(r) PROVE LeaseAges' /\ LeaseUntilOverrun'
  <2>1. Calm /\ runner'[r].phase \notin Critical
    BY <1>7, <1>a DEF ReleaseSource, Idle, Fresh, Critical, TypeOK
  <2>2. CASE OwnsLease(r)
    <3>1. lease' = NoLease
      BY <1>7, <2>2 DEF ReleaseSource
    <3> QED
      BY <2>1, <2>2, <3>1, RunsAssumption DEF OwnsLease, NoLease, IInv, LeaseAges, LeaseUntilOverrun
  <2>3. CASE ~OwnsLease(r)
    <3>1. lease' = lease
      BY <1>7, <2>3 DEF ReleaseSource
    <3> QED
      BY <2>1, <3>1, LeaseUntouched
  <2> QED
    BY <2>2, <2>3
<1>8. ASSUME NEW r \in Runners, Cancel(r) PROVE lease' = lease /\ Calm
  <2>1. CASE runner[r].phase = "checked"
    BY <1>8, <2>1, <1>a DEF Cancel, Idle, Fresh, Critical, TypeOK
  <2>2. CASE runner[r].phase \in {"leased", "finishing"}
    BY <1>8, <2>2, <1>a DEF Cancel, Goto, Critical, TypeOK, Runner
  <2>3. CASE runner[r].phase \in {"running", "ingesting"}
    <3>1. runner' = Finishing(r, "failed")
      BY <1>8, <2>3 DEF Cancel
    <3> QED
      BY <1>8, <2>3, <3>1, <1>a DEF Cancel, Finishing, Critical, TypeOK, Runner
  <2> QED
    BY <1>8, <2>1, <2>2, <2>3, <1>a DEF Cancel, TypeOK, Runner, Phase
<1>9. ASSUME NEW r \in Runners, Abandon(r) PROVE lease' = lease /\ Calm
  BY <1>9, <1>a DEF Abandon, Idle, Fresh, Critical, TypeOK
<1>10. ASSUME DaemonCrash PROVE lease' = lease /\ Calm
  BY <1>10, <1>a DEF DaemonCrash, Idle, Fresh, Critical, TypeOK
<1>11. ASSUME Publish PROVE lease' = lease /\ Calm
  BY <1>11 DEF Publish
<1>12. ASSUME Tick PROVE LeaseAges' /\ LeaseUntilOverrun'
  <2>1. lease'.holder = lease.holder /\ lease'.left = CountDown(lease.left)
    BY <1>12, <1>a DEF Tick, TypeOK
  <2>2. \A q \in Runners :
          /\ runner'[q].phase = runner[q].phase
          /\ (runner[q].phase \in Critical => runner'[q].age = CountUp(runner[q].age))
    BY <1>12, <1>a DEF Tick, TypeOK, Runner
  <2>3. lease.left \in 0..LeaseTicks /\ \A q \in Runners : runner[q].age \in 0..LeaseTicks
    BY <1>a DEF TypeOK, Runner
  <2>4. LeaseAges'
    <3> SUFFICES ASSUME NEW q \in Runners, runner[q].phase \in Critical, lease.holder = q
                 PROVE  lease'.left + runner'[q].age = LeaseTicks
      BY <2>1, <2>2 DEF LeaseAges, Critical
    <3>1. lease.left + runner[q].age = LeaseTicks
      BY DEF IInv, LeaseAges
    <3>2. lease.left \in 0..LeaseTicks /\ runner[q].age \in 0..LeaseTicks
      BY <2>3
    <3>3. CountDown(lease.left) + CountUp(runner[q].age) = LeaseTicks
      BY <3>1, <3>2, RunsAssumption DEF CountDown, CountUp
    <3> QED
      BY <2>1, <2>2, <3>3
  <2>5. LeaseUntilOverrun'
    <3> SUFFICES ASSUME NEW q \in Runners, runner[q].phase \in Critical,
                        CountUp(runner[q].age) < LeaseTicks
                 PROVE  lease.holder = q
      BY <2>1, <2>2 DEF LeaseUntilOverrun, Critical
    <3>1. runner[q].age < LeaseTicks
      BY <2>3, RunsAssumption DEF CountUp
    <3> QED
      BY <3>1 DEF IInv, LeaseUntilOverrun
  <2> QED
    BY <2>4, <2>5
<1> QED
  BY <1>1, <1>2, <1>3, <1>4, <1>5, <1>6, <1>7, <1>8, <1>9, <1>10, <1>11, <1>12, LeaseUntouched
     DEF Next, Execute

----------------------------------------------------------------------------
(***************************************************************************)
(* The circuit and the items.                                              *)
(***************************************************************************)
LEMMA CircuitStep == ASSUME IInv, Next PROVE SuspendedAtThreshold'
<1>1. ASSUME NEW r \in Runners, FinishRun(r) PROVE SuspendedAtThreshold'
  <2>1. health' = HealthAfter(health, runner[r].status)
    BY <1>1 DEF FinishRun
  <2> QED
    BY <2>1, RunsAssumption DEF IInv, TypeOK, SuspendedAtThreshold, HealthAfter, Succeeded, Skipped,
       Failed, Counted, HealthStatus
<1>2. ASSUME ~\E r \in Runners : FinishRun(r) PROVE health' = health
  BY <1>2 DEF Next, Execute, Start, ClaimSource, StartRun, RefuseSource, FetchFails,
     FetchNotModified, FetchModified, IngestItem, CollectedFailure, EndOfItems, CollectorFails, FinishFails,
     ReleaseSource, Cancel, Abandon, DaemonCrash, Publish, Tick
<1> QED
  BY <1>1, <1>2 DEF IInv, SuspendedAtThreshold

\* More items stored can only help.
LEMMA OkMonotone ==
  ASSUME NEW call, NEW S, NEW T, OkIn(call, S), S \subseteq T PROVE OkIn(call, T)
BY DEF OkIn

LEMMA ItemsStep == ASSUME IInv, Next PROVE ItemsStored'
<1> DEFINE Others(r) == \A q \in Runners \ {r} : runner'[q] = runner[q]
<1>a. TypeOK /\ ItemsStored
  BY DEF IInv
<1>b. stored \subseteq stored'
  BY DEF Next, Execute, Start, ClaimSource, StartRun, RefuseSource, FetchFails,
     FetchNotModified, FetchModified, IngestItem, CollectedFailure, EndOfItems, CollectorFails, FinishRun,
     FinishFails, ReleaseSource, Cancel, Abandon, DaemonCrash, Publish, Tick
<1>c. ASSUME NEW r \in Runners, Others(r), OkIn(runner'[r], stored') PROVE ItemsStored'
  <2> SUFFICES ASSUME NEW q \in Runners PROVE OkIn(runner[q], stored)'
    BY DEF ItemsStored
  <2>1. CASE q = r
    BY <1>c, <2>1
  <2>2. CASE q # r
    <3>1. runner'[q] = runner[q] /\ OkIn(runner[q], stored)
      BY <1>a, <1>c, <2>2 DEF ItemsStored
    <3>2. OkIn(runner[q], stored')
      BY <1>b, <3>1, OkMonotone
    <3> QED
      BY <3>1, <3>2
  <2> QED
    BY <2>1, <2>2
<1>1. ASSUME NEW r \in Runners, Start(r) PROVE ItemsStored'
  BY <1>1, <1>a, <1>c DEF OkIn, Start, Goto, TypeOK, Runner
<1>2. ASSUME NEW r \in Runners, ClaimSource(r) PROVE ItemsStored'
  <2>1. OkIn(Idle, stored') /\ OkIn(Fresh("leased"), stored')
    BY DEF OkIn, Idle, Fresh
  <2> QED
    BY <1>2, <1>a, <1>c, <2>1 DEF ClaimSource, TypeOK
<1>3. ASSUME NEW r \in Runners, StartRun(r) PROVE ItemsStored'
  <2>1. OkIn(runner[r], stored)
    BY <1>a DEF ItemsStored
  <2>2. OkIn(runner'[r], stored')
    BY <1>3, <1>a, <2>1 DEF StartRun, Goto, OkIn, TypeOK, Runner
  <2> QED
    BY <1>3, <1>a, <1>c, <2>2 DEF StartRun, Goto, TypeOK
<1>4. ASSUME NEW r \in Runners, RefuseSource(r) \/ FetchFails(r) \/ CollectorFails(r)
      PROVE  ItemsStored'
  <2>1. runner'[r].phase = "finishing" /\ runner'[r].status # "success" /\ Others(r)
    BY <1>4, <1>a DEF RefuseSource, FetchFails, CollectorFails, Finishing, TypeOK, Runner
  <2> QED
    BY <2>1, <1>c DEF OkIn
<1>5. ASSUME NEW r \in Runners, FetchNotModified(r) PROVE ItemsStored'
  <2>1. runner[r].fetched = 0
    BY <1>5, <1>a DEF FetchNotModified, ItemsStored, OkIn
  <2>2. /\ runner'[r].phase = "finishing" /\ runner'[r].fetched = 0
        /\ Others(r)
    BY <1>5, <1>a, <2>1 DEF FetchNotModified, Finishing, TypeOK, Runner
  <2> QED
    BY <2>2, <1>c DEF OkIn
<1>6. ASSUME NEW r \in Runners, FetchModified(r) PROVE ItemsStored'
  <2>1. runner[r].next = 1
    BY <1>6, <1>a DEF FetchModified, ItemsStored, OkIn
  <2>2. runner'[r].phase = "ingesting" /\ runner'[r].next = 1 /\ Others(r)
    BY <1>6, <1>a, <2>1 DEF FetchModified, TypeOK, Runner
  <2> QED
    BY <2>2, <1>c DEF OkIn
<1>7. ASSUME NEW r \in Runners, IngestItem(r) PROVE ItemsStored'
  <2>1. /\ runner[r].phase = "ingesting" /\ OkIn(runner[r], stored)
        /\ runner[r].next \in Nat
    BY <1>7, <1>a DEF IngestItem, ItemsStored, TypeOK, Runner
  <2>2. /\ runner'[r].phase = "ingesting" /\ runner'[r].next = runner[r].next + 1 /\ Others(r)
        /\ \/ runner'[r].bad
           \/ runner'[r].bad = runner[r].bad /\ stored' = stored \cup {runner[r].next}
    BY <1>7, <1>a DEF IngestItem, TypeOK, Runner
  <2> QED
    BY <2>1, <2>2, <1>c DEF OkIn
<1>8. ASSUME NEW r \in Runners, EndOfItems(r) PROVE ItemsStored'
  <2>1. /\ runner[r].phase = "ingesting" /\ OkIn(runner[r], stored)
        /\ runner[r].next > runner[r].fetched
        /\ runner[r].next \in Nat /\ runner[r].fetched \in Nat
    BY <1>8, <1>a DEF EndOfItems, HasNext, ItemsStored, TypeOK, Runner
  <2>2. /\ runner'[r].phase = "finishing" /\ runner'[r].fetched = runner[r].fetched
        /\ runner'[r].status = StatusOf(r) /\ Others(r) /\ stored' = stored
    BY <1>8, <1>a DEF EndOfItems, Finishing, TypeOK, Runner
  <2>3. runner'[r].status = "success" => ~runner[r].bad
    BY <2>2 DEF StatusOf
  <2> QED
    BY <2>1, <2>2, <2>3, <1>c DEF OkIn
<1>9. ASSUME NEW r \in Runners, FinishRun(r) \/ FinishFails(r) PROVE ItemsStored'
  <2>1. runner'[r].phase = "releasing" /\ Others(r)
    BY <1>9, <1>a DEF FinishRun, FinishFails, Goto, TypeOK, Runner
  <2> QED
    BY <2>1, <1>c DEF OkIn
<1>10. ASSUME NEW r \in Runners, ReleaseSource(r) \/ Abandon(r) PROVE ItemsStored'
  <2>1. runner'[r].phase = "idle" /\ Others(r)
    BY <1>10, <1>a DEF ReleaseSource, Abandon, Idle, Fresh, TypeOK
  <2> QED
    BY <2>1, <1>c DEF OkIn
<1>11. ASSUME NEW r \in Runners, Cancel(r) PROVE ItemsStored'
  <2>1. CASE runner[r].phase = "checked"
    <3>1. runner'[r].phase = "idle" /\ Others(r)
      BY <1>11, <2>1, <1>a DEF Cancel, Idle, Fresh, TypeOK
    <3> QED
      BY <3>1, <1>c DEF OkIn
  <2>2. CASE runner[r].phase \in {"leased", "finishing"}
    <3>1. runner'[r].phase = "releasing" /\ Others(r)
      BY <1>11, <2>2, <1>a DEF Cancel, Goto, TypeOK, Runner
    <3> QED
      BY <3>1, <1>c DEF OkIn
  <2>3. CASE runner[r].phase \in {"running", "ingesting"}
    <3>1. runner' = Finishing(r, "failed")
      BY <1>11, <2>3 DEF Cancel
    <3>2. runner'[r].phase = "finishing" /\ runner'[r].status = "failed" /\ Others(r)
      BY <3>1, <1>a DEF Finishing, TypeOK, Runner
    <3> QED
      BY <3>2, <1>c DEF OkIn
  <2> QED
    BY <1>11, <2>1, <2>2, <2>3, <1>a DEF Cancel, TypeOK, Runner, Phase
<1>12. ASSUME DaemonCrash PROVE ItemsStored'
  <2>1. \A q \in Runners : runner'[q] = runner[q] \/ runner'[q].phase = "idle"
    BY <1>12 DEF DaemonCrash, Idle, Fresh
  <2> QED
    BY <2>1, <1>a, <1>b DEF ItemsStored, OkIn
<1>13. ASSUME Publish PROVE ItemsStored'
  BY <1>13, <1>a DEF Publish, ItemsStored
<1>14. ASSUME Tick PROVE ItemsStored'
  <2>1. \A q \in Runners : /\ runner'[q].phase = runner[q].phase
                          /\ runner'[q].fetched = runner[q].fetched
                          /\ runner'[q].next = runner[q].next
                          /\ runner'[q].bad = runner[q].bad
                          /\ runner'[q].status = runner[q].status
    BY <1>14, <1>a DEF Tick, TypeOK, Runner
  <2>2. stored' = stored
    BY <1>14 DEF Tick
  <2> QED
    BY <2>1, <2>2, <1>a DEF ItemsStored, OkIn
<1>15. ASSUME NEW r \in Runners, CollectedFailure(r) PROVE ItemsStored'
  <2>1. runner'[r].phase = "ingesting" /\ runner'[r].bad /\ Others(r)
    BY <1>15, <1>a DEF CollectedFailure, TypeOK, Runner
  <2> QED
    BY <2>1, <1>c DEF OkIn
<1> QED
  BY <1>1, <1>2, <1>3, <1>4, <1>5, <1>6, <1>7, <1>8, <1>9, <1>10, <1>11, <1>12, <1>13, <1>14,
     <1>15 DEF Next, Execute

----------------------------------------------------------------------------
(***************************************************************************)
(* The theorems.                                                           *)
(***************************************************************************)

\* Every step of the runs keeps the inductive invariant.
THEOREM NextIInv == IInv /\ [Next]_vars => IInv'
<1> SUFFICES ASSUME IInv, [Next]_vars PROVE IInv'
  OBVIOUS
<1>1. CASE Next
  BY <1>1, TypeStep, LeaseStep, CircuitStep, ItemsStep DEF IInv
<1>2. CASE UNCHANGED vars
  BY <1>2 DEF vars, IInv, TypeOK, LeaseAges, LeaseUntilOverrun, SuspendedAtThreshold, ItemsStored,
     Reclaimable
<1> QED
  BY <1>1, <1>2

THEOREM Invariance == Spec => []IInv
BY InitIInv, NextIInv, PTL DEF Spec

\* Every reachable state has the types of the tables and of the calls.
THEOREM TypeCorrect == Spec => []TypeOK
BY Invariance, PTL DEF IInv

\* claim_source and release_source keep the lease with its call until the call has
\* outlived it, for any number of overlapping daemon and manual calls.
THEOREM LeaseKept == Spec => []LeaseUntilOverrun
BY Invariance, PTL DEF IInv

\* finish_run opens the circuit at the threshold and at no other count.
THEOREM CircuitAtThreshold == Spec => []SuspendedAtThreshold
BY Invariance, PTL DEF IInv

\* _run_started reports a success only when every item of the response is stored.
THEOREM SuccessesAreComplete == Spec => []SuccessStoredAll
<1>1. IInv => SuccessStoredAll
  BY DEF IInv, ItemsStored, OkIn, SuccessStoredAll
<1> QED
  BY <1>1, Invariance, PTL
=============================================================================
