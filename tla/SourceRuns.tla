----------------------------- MODULE SourceRuns -----------------------------
(***************************************************************************)
(* The runs of one source of src/src/commerce_agent: _execute_source and   *)
(* _run_started of ingestion/service.py over the source_leases and         *)
(* source_health tables of persistence/ingestion.py (nothing reads the     *)
(* fetch_runs rows back).  Sources share nothing here but the semaphore of *)
(* run_all, so one source is the whole story: a feed or an API, whose      *)
(* items carry the validators of the response that lists them.             *)
(*                                                                         *)
(* An action is one transaction, one response of the source's server or    *)
(* one item ingested.  The daemon may be at the source twice at once (the  *)
(* ingestion job and the pre-report pipeline both call run_all); a manual  *)
(* run is a process of its own, whose service starts without validators.   *)
(* _execute_source reads the clock before the suspension check; the model  *)
(* reads it at the claim.                                                  *)
(***************************************************************************)
EXTENDS Naturals

CONSTANTS
  Scheduled,    \* calls of run_all by the daemon, with Trigger.SCHEDULED
  Manual,       \* runs and probes from the command line, with Trigger.MANUAL
  LeaseTicks,   \* SOURCE_LEASE_TTL, in ticks
  Threshold,    \* SOURCE_FAILURE_THRESHOLD
  MaxRev,       \* bound on the revisions the server publishes
  NoRunner

Runners == Scheduled \cup Manual
Items   == 1..MaxRev       \* the item published with each revision

ASSUME RunsAssumption ==
  /\ Scheduled \cap Manual = {}
  /\ LeaseTicks \in Nat \ {0}
  /\ Threshold \in Nat \ {0}
  /\ MaxRev \in Nat
  /\ NoRunner \notin Runners

VARIABLES
  lease,      \* the source_leases row: who holds it and the ticks until it may be reclaimed
  health,     \* the source_health row; succeeded: last_success_at = last_attempt_at
  runner,     \* what each call of _execute_source holds in memory
  validator,  \* _conditionals of the daemon: the revision its validators name, 0 for none
  stored,     \* items that have a document version
  rev         \* external: the revision the server serves

vars == <<lease, health, runner, validator, stored, rev>>

----------------------------------------------------------------------------
HealthStatus == {"unknown", "healthy", "degraded", "error", "suspended"}
RunStatus    == {"success", "partial", "failed", "skipped"}
Phase        == {"idle", "checked", "leased", "running", "ingesting", "finishing", "releasing"}

\* Between claim_source and release_source.
Critical == {"leased", "running", "ingesting", "finishing", "releasing"}

\* age: ticks since the claim, counted up to LeaseTicks; etag: the validators the request
\* carries; fetched: the revision of the response; next: the item to ingest; good, bad: whether items succeeded and failed.
Runner == [phase : Phase, age : 0..LeaseTicks, etag : 0..MaxRev,
           fetched : 0..MaxRev, next : 1..MaxRev + 1,
           good : BOOLEAN, bad : BOOLEAN, status : RunStatus]

Fresh(phase) == [phase |-> phase, age |-> 0, etag |-> 0, fetched |-> 0, next |-> 1,
                 good |-> FALSE, bad |-> FALSE, status |-> "skipped"]
Idle == Fresh("idle")

NoLease == [holder |-> NoRunner, left |-> 0]

TypeOK ==
  /\ lease \in [holder : Runners \cup {NoRunner}, left : 0..LeaseTicks]
  /\ health \in [failures : 0..Threshold, status : HealthStatus, succeeded : BOOLEAN]
  /\ runner \in [Runners -> Runner]
  /\ validator \in 0..MaxRev
  /\ stored \subseteq Items
  /\ rev \in 0..MaxRev

Init ==
  /\ lease = NoLease
  /\ health = [failures |-> 0, status |-> "unknown", succeeded |-> FALSE]
  /\ runner = [r \in Runners |-> Idle]
  /\ validator = 0
  /\ stored = {}
  /\ rev = 0

Goto(r, phase) == [runner EXCEPT ![r].phase = phase]

----------------------------------------------------------------------------
(***************************************************************************)
(* Before the run.                                                         *)
(***************************************************************************)

\* A scheduled run first asks is_source_suspended and returns if so.
Start(r) ==
  /\ runner[r].phase = "idle"
  /\ r \in Scheduled => health.status # "suspended"
  /\ runner' = Goto(r, "checked")
  /\ UNCHANGED <<lease, health, validator, stored, rev>>

\* Mutant: an expired lease is not deleted.
ReclaimableNever == lease.holder = NoRunner

Reclaimable == lease.holder = NoRunner \/ lease.left = 0

\* claim_source; a source that is already running is skipped.
ClaimSource(r) ==
  /\ runner[r].phase = "checked"
  /\ \/ /\ Reclaimable
        /\ lease' = [holder |-> r, left |-> LeaseTicks]
        /\ runner' = [runner EXCEPT ![r] = Fresh("leased")]
     \/ /\ ~Reclaimable
        /\ runner' = [runner EXCEPT ![r] = Idle]
        /\ UNCHANGED lease
  /\ UNCHANGED <<health, validator, stored, rev>>

\* start_run, after which the validators are read; when it raises only the lease is
\* given back.
StartRun(r) ==
  /\ runner[r].phase = "leased"
  /\ \/ runner' = [runner EXCEPT ![r].phase = "running",
                                 ![r].etag = IF r \in Scheduled THEN validator ELSE 0]
     \/ runner' = Goto(r, "releasing")
  /\ UNCHANGED <<lease, health, validator, stored, rev>>

----------------------------------------------------------------------------
(***************************************************************************)
(* _run_started.                                                           *)
(***************************************************************************)
Finishing(r, status) == [runner EXCEPT ![r].phase = "finishing", ![r].status = status]

\* The compliance policy of the runner's registry refuses the source.
RefuseSource(r) ==
  /\ runner[r].phase = "running"
  /\ runner' = Finishing(r, "skipped")
  /\ UNCHANGED <<lease, health, validator, stored, rev>>

\* The collector is missing, or the first request fails.
FetchFails(r) ==
  /\ runner[r].phase = "running"
  /\ runner' = Finishing(r, "failed")
  /\ UNCHANGED <<lease, health, validator, stored, rev>>

NotModified(r) == runner[r].etag # 0 /\ runner[r].etag = rev

\* The validators still name what the server has: no items, and a success.
FetchNotModified(r) ==
  /\ runner[r].phase = "running"
  /\ NotModified(r)
  /\ runner' = Finishing(r, "success")
  /\ UNCHANGED <<lease, health, validator, stored, rev>>

\* The response lists every item up to the server's revision.
FetchModified(r) ==
  /\ runner[r].phase = "running"
  /\ ~NotModified(r)
  /\ runner' = [runner EXCEPT ![r].phase = "ingesting", ![r].fetched = rev]
  /\ UNCHANGED <<lease, health, validator, stored, rev>>

\* Mutant: one item past the end.
HasNextOneMore(r) == runner[r].next <= runner[r].fetched + 1

HasNext(r) == runner[r].next <= runner[r].fetched

\* _remember_conditionals, then _ingest_item, which stores the item or raises.
IngestItem(r) ==
  /\ runner[r].phase = "ingesting"
  /\ HasNext(r)
  /\ validator' = IF r \in Scheduled THEN runner[r].fetched ELSE validator
  /\ \/ /\ stored' = stored \cup {runner[r].next}
        /\ runner' = [runner EXCEPT ![r].next = @ + 1, ![r].good = TRUE]
     \/ /\ runner' = [runner EXCEPT ![r].next = @ + 1, ![r].bad = TRUE]
        /\ UNCHANGED stored
  /\ UNCHANGED <<lease, health, rev>>

\* The collector yields a failure in the place of an item.
CollectedFailure(r) ==
  /\ runner[r].phase = "ingesting"
  /\ HasNext(r)
  /\ runner' = [runner EXCEPT ![r].next = @ + 1, ![r].bad = TRUE]
  /\ UNCHANGED <<lease, health, validator, stored, rev>>

\* Mutant: one item stored makes the run a success.
StatusOfAny(r) == IF runner[r].good \/ ~runner[r].bad THEN "success" ELSE "failed"

StatusOf(r) == IF ~runner[r].bad THEN "success" ELSE IF runner[r].good THEN "partial" ELSE "failed"

EndOfItems(r) ==
  /\ runner[r].phase = "ingesting"
  /\ ~HasNext(r)
  /\ runner' = Finishing(r, StatusOf(r))
  /\ UNCHANGED <<lease, health, validator, stored, rev>>

\* The collector raises: one more failure.
CollectorFails(r) ==
  /\ runner[r].phase = "ingesting"
  /\ runner' = Finishing(r, IF runner[r].good THEN "partial" ELSE "failed")
  /\ UNCHANGED <<lease, health, validator, stored, rev>>

----------------------------------------------------------------------------
(***************************************************************************)
(* After the run.                                                          *)
(***************************************************************************)

\* The count matters only up to the threshold it is compared with.
Counted(n) == IF n < Threshold THEN n + 1 ELSE n

Succeeded  == [failures |-> 0, status |-> "healthy", succeeded |-> TRUE]
Skipped(h) == [failures |-> h.failures, succeeded |-> FALSE,
               status |-> IF h.status = "suspended" THEN h.status ELSE "healthy"]
Failed(h, status) == [failures |-> Counted(h.failures), succeeded |-> FALSE,
                      status |-> IF Counted(h.failures) >= Threshold THEN "suspended"
                                 ELSE IF status = "partial" THEN "degraded" ELSE "error"]

\* Mutant: a skipped run makes any source healthy.
HealthAfterForgiving(h, status) ==
  CASE status = "success" -> Succeeded
    [] status = "skipped" -> [Skipped(h) EXCEPT !.status = "healthy"]
    [] OTHER -> Failed(h, status)

HealthAfter(h, status) ==
  CASE status = "success" -> Succeeded
    [] status = "skipped" -> Skipped(h)
    [] OTHER -> Failed(h, status)

\* finish_run.
FinishRun(r) ==
  /\ runner[r].phase = "finishing"
  /\ health' = HealthAfter(health, runner[r].status)
  /\ runner' = Goto(r, "releasing")
  /\ UNCHANGED <<lease, validator, stored, rev>>

\* finish_run raises: the health stays as it was, the lease is given back all the same.
FinishFails(r) ==
  /\ runner[r].phase = "finishing"
  /\ runner' = Goto(r, "releasing")
  /\ UNCHANGED <<lease, health, validator, stored, rev>>

\* Mutant: the lease is deleted whoever holds it.
OwnsAnyLease(r) == lease.holder # NoRunner

OwnsLease(r) == lease.holder = r

\* release_source deletes the lease that carries its token.
ReleaseSource(r) ==
  /\ runner[r].phase = "releasing"
  /\ lease' = IF OwnsLease(r) THEN NoLease ELSE lease
  /\ runner' = [runner EXCEPT ![r] = Idle]
  /\ UNCHANGED <<health, validator, stored, rev>>

----------------------------------------------------------------------------
(***************************************************************************)
(* Cancellation, crashes and the outside.                                  *)
(***************************************************************************)

\* The pre-report deadline or a shutdown cancels the call.  In the run it is recorded
\* as failed; in another transaction that transaction is rolled back.
Cancel(r) ==
  /\ runner[r].phase \notin {"idle", "releasing"}
  /\ runner' = CASE runner[r].phase = "checked" -> [runner EXCEPT ![r] = Idle]
                 [] runner[r].phase \in {"leased", "finishing"} -> Goto(r, "releasing")
                 [] OTHER -> Finishing(r, "failed")
  /\ UNCHANGED <<lease, health, validator, stored, rev>>

\* claim_source is cancelled around its commit, release_source is or raises, or a
\* manual process dies: the lease stays.
Abandon(r) ==
  /\ \/ runner[r].phase \in {"leased", "releasing"}
     \/ r \in Manual /\ runner[r].phase # "idle"
  /\ runner' = [runner EXCEPT ![r] = Idle]
  /\ UNCHANGED <<lease, health, validator, stored, rev>>

\* The daemon dies: its calls and its validators are gone.
DaemonCrash ==
  /\ runner' = [r \in Runners |-> IF r \in Scheduled THEN Idle ELSE runner[r]]
  /\ validator' = 0
  /\ UNCHANGED <<lease, health, stored, rev>>

\* The server publishes an item.
Publish ==
  /\ rev < MaxRev
  /\ rev' = rev + 1
  /\ UNCHANGED <<lease, health, runner, validator, stored>>

CountDown(n) == IF n = 0 THEN 0 ELSE n - 1
CountUp(n)   == IF n = LeaseTicks THEN n ELSE n + 1

Tick ==
  /\ lease.left > 0 \/ \E r \in Runners : runner[r].phase \in Critical /\ runner[r].age < LeaseTicks
  /\ lease' = [lease EXCEPT !.left = CountDown(@)]
  /\ runner' = [r \in Runners |-> IF runner[r].phase \in Critical
                                  THEN [runner[r] EXCEPT !.age = CountUp(@)] ELSE runner[r]]
  /\ UNCHANGED <<health, validator, stored, rev>>

----------------------------------------------------------------------------
\* What a call does by itself.
Execute(r) ==
  \/ Start(r)
  \/ ClaimSource(r)
  \/ StartRun(r)
  \/ RefuseSource(r)
  \/ FetchFails(r)
  \/ FetchNotModified(r)
  \/ FetchModified(r)
  \/ IngestItem(r)
  \/ CollectedFailure(r)
  \/ EndOfItems(r)
  \/ CollectorFails(r)
  \/ FinishRun(r)
  \/ FinishFails(r)
  \/ ReleaseSource(r)

Next ==
  \/ \E r \in Runners : Execute(r)
  \/ \E r \in Runners : Cancel(r)
  \/ \E r \in Runners : Abandon(r)
  \/ DaemonCrash
  \/ Publish
  \/ Tick

Spec == Init /\ [][Next]_vars

\* The daemon's jobs fire again and again, a call ends (every request has a timeout),
\* and calls are not always cancelled in the moment between the check and the claim: the
\* pre-report deadline comes a quarter of an hour after its start.
Fairness ==
  /\ WF_vars(Tick)
  /\ \A r \in Scheduled : WF_vars(Execute(r)) /\ SF_vars(ClaimSource(r))

FairSpec == Spec /\ Fairness

----------------------------------------------------------------------------
(***************************************************************************)
(* Properties.                                                             *)
(***************************************************************************)

\* Runs of a source overlap only if the elder outlived its lease: until then nobody
\* takes or releases the lease of a call, not even an overrun one that ends late.
LeaseUntilOverrun ==
  \A r \in Runners :
    runner[r].phase \in Critical /\ runner[r].age < LeaseTicks => lease.holder = r

\* The circuit is open exactly when the failure count is at the threshold, whatever
\* mixture of failed, skipped and successful runs, overlapping or not, got it there.
SuspendedAtThreshold == health.status = "suspended" <=> health.failures >= Threshold

\* A run that will be recorded as a success has stored every item it was served, even
\* when other runs of the source fail on the same items.
SuccessStoredAll ==
  \A r \in Runners :
    runner[r].phase = "finishing" /\ runner[r].status = "success" =>
      1..runner[r].fetched \subseteq stored

\* Whoever leaks the lease (a crash, a failing release), the source does not stay
\* blocked: a later scheduled run takes the lease over unless the circuit is open.
Leaked == lease.holder # NoRunner /\ runner[lease.holder].phase \notin Critical
LeakedLeaseComesBack == Leaked ~> ~Leaked \/ health.status = "suspended"

\* What docs/operations/source-ingestion-runbook.md:100 says of the circuit: a scheduled
\* run of a suspended source makes no request.
SuspendedIsNotFetched ==
  health.status = "suspended" => \A r \in Scheduled : runner[r].phase # "running"

\* What docs/superpowers/specs/2026-07-20-source-ingestion-design.md:372 and
\* docs/operations/source-ingestion-runbook.md:122 say together: a changed body gets its
\* version, so a source whose last run succeeded on the server's present revision has
\* stored what the server serves.
HealthyIsUpToDate ==
  health.succeeded /\ validator = rev /\ (\A r \in Runners : runner[r].phase = "idle")
    => 1..rev \subseteq stored
=============================================================================
