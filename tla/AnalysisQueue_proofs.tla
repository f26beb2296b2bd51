------------------------- MODULE AnalysisQueue_proofs -------------------------
(***************************************************************************)
(* Theorems about AnalysisQueue, for every set of versions, documents and  *)
(* drains.  IInv is inductive: JobShape says what the lease columns of a   *)
(* row can be and which versions have a job, ClaimShape what a drain knows *)
(* of the rows it claimed, AnalysisShape how the ids of analyses are       *)
(* handed out; without the last a duplicate could point to an analysis     *)
(* that is stored later under the same id.                                 *)
(***************************************************************************)
EXTENDS AnalysisQueue, TLAPS, WellFoundedInduction

JobShape ==
  \A v \in Versions :
    /\ job[v].holder # NoWorker <=> job[v].status = "running"
    /\ job[v].status # "none" => v \in stored
    /\ v \in stored \ Legacy => job[v].status # "none"
    /\ job[v].status = "pending" => job[v].attempts = 0
    /\ job[v].status = "retry_wait" => job[v].attempts < MaxAttempts
    /\ job[v].status # "retry_wait" => job[v].wait = 0
    /\ job[v].status # "running" => job[v].lease = 0

ClaimShape ==
  \A w \in Workers : \A v \in Held(w) :
    /\ job[v].status # "none"
    /\ Current(w, v) => drain[w].claims[v] = job[v].attempts

AnalysisShape ==
  /\ \A v \in Versions : analysis[v] <= lastAnalysis
  /\ AnalysisMatchesJob

IInv ==
  /\ TypeOK
  /\ JobShape
  /\ ClaimShape
  /\ AnalysisShape
  /\ DuplicateHasCanonical
  /\ redacted \subseteq stored
  /\ RedactedHasNoOpenJob

----------------------------------------------------------------------------
\* A set of numbers that is not empty has a least one.
LEMMA LeastNumber ==
  ASSUME NEW S \in SUBSET Nat, S # {}
  PROVE  Min(S) \in S
<1>1. PICK x \in S : \A y \in S : ~(<<y, x>> \in OpToRel(<, Nat))
  BY WFMin, NatLessThanWellFounded
<1>2. \A y \in S : ~(y < x)
  BY <1>1 DEF OpToRel
<1>3. \A y \in S : x <= y
  BY <1>2
<1>. QED BY <1>3 DEF Min

LEMMA InitIInv == Init => IInv
<1> SUFFICES ASSUME Init PROVE IInv
  OBVIOUS
<1>1. TypeOK
  <2>1. NoJob \in Job /\ Idle \in Drain
    BY QueueAssumption DEF NoJob, Job, JobStatus, Idle, NoClaims, Drain, Phase
  <2>2. Legacy \subseteq Versions
    BY QueueAssumption
  <2>. QED BY <2>1, <2>2 DEF Init, TypeOK
<1>2. JobShape /\ AnalysisShape /\ DuplicateHasCanonical
  BY DEF Init, JobShape, NoJob, AnalysisShape, AnalysisMatchesJob, DuplicateHasCanonical
<1>3. ClaimShape
  BY DEF Init, ClaimShape, Held, Idle, NoClaims
<1>4. redacted \subseteq stored /\ RedactedHasNoOpenJob
  BY DEF Init, RedactedHasNoOpenJob
<1>. QED BY <1>1, <1>2, <1>3, <1>4 DEF IInv

----------------------------------------------------------------------------
(***************************************************************************)
(* What the updates do to a row.                                           *)
(***************************************************************************)
LEMMA NewRow ==
  ASSUME NEW id \in Nat
  PROVE  /\ NewJob(id) \in Job
         /\ NewJob(id).status = "pending" /\ NewJob(id).attempts = 0
         /\ NewJob(id).wait = 0 /\ NewJob(id).lease = 0 /\ NewJob(id).holder = NoWorker
<1>1. 0 \in 0..MaxAttempts /\ 0 \in 0..RetryTicks /\ 0 \in 0..LeaseTicks
  BY QueueAssumption
<1>. QED BY <1>1 DEF NewJob, Job, JobStatus, Open

LEMMA ReleasedRow ==
  ASSUME NEW row \in Job, NEW status \in JobStatus, NEW wait \in 0..RetryTicks
  PROVE  /\ Released(row, status, wait) \in Job
         /\ Released(row, status, wait).status = status
         /\ Released(row, status, wait).attempts = row.attempts
         /\ Released(row, status, wait).wait = wait
         /\ Released(row, status, wait).lease = 0
         /\ Released(row, status, wait).holder = NoWorker
<1>1. 0 \in 0..LeaseTicks
  BY QueueAssumption
<1>. QED BY <1>1 DEF Released, Job

LEMMA LeasedRow ==
  ASSUME NEW row \in Job, NEW w \in Workers, row.attempts < MaxAttempts
  PROVE  /\ Leased(row, w) \in Job
         /\ Leased(row, w).status = "running" /\ Leased(row, w).holder = w
         /\ Leased(row, w).attempts = row.attempts + 1 /\ Leased(row, w).wait = 0
         /\ row.attempts + 1 \in 0..MaxAttempts
<1>1. /\ row.attempts + 1 \in 0..MaxAttempts /\ LeaseTicks \in 0..LeaseTicks
      /\ 0 \in 0..RetryTicks /\ "running" \in JobStatus
  BY QueueAssumption DEF Job, JobStatus, Open
<1>. QED BY <1>1 DEF Leased, Job

LEMMA CountedDownRow ==
  ASSUME NEW row \in Job, NEW next,
         next = [row EXCEPT !.wait = CountDown(@), !.lease = CountDown(@)]
  PROVE  /\ next \in Job
         /\ next.status = row.status /\ next.holder = row.holder
         /\ next.attempts = row.attempts
         /\ row.wait = 0 => next.wait = 0
         /\ row.lease = 0 => next.lease = 0
<1>1. CountDown(0) = 0 /\ \A n \in Nat : CountDown(n) \in Nat /\ CountDown(n) <= n
  BY DEF CountDown
<1>2. /\ row.wait \in 0..RetryTicks /\ RetryTicks \in Nat
      /\ row.lease \in 0..LeaseTicks /\ LeaseTicks \in Nat
  BY QueueAssumption DEF Job
<1>3. CountDown(row.wait) \in 0..RetryTicks /\ CountDown(row.lease) \in 0..LeaseTicks
  BY <1>1, <1>2
<1>. QED BY <1>1, <1>3 DEF Job

(***************************************************************************)
(* Steps that leave parts of the invariant alone.                          *)
(***************************************************************************)

\* Drains that only lose claims, over rows that only lose leases.
LEMMA ClaimsKept ==
  ASSUME IInv,
         \A w \in Workers : \A v \in Held(w)' :
           v \in Held(w) /\ drain'[w].claims[v] = drain[w].claims[v],
         \A v \in Versions :
           /\ job[v].status # "none" => job'[v].status # "none"
           /\ job'[v].status = "running" =>
                /\ job[v].status = "running" /\ job[v].holder = job'[v].holder
                /\ job[v].attempts = job'[v].attempts
  PROVE  ClaimShape'
<1>1. \A w \in Workers : Held(w)' \subseteq Versions
  BY DEF Held
<1>. QED BY <1>1 DEF IInv, ClaimShape, Current

\* Rows that complete or become duplicates only as before.
LEMMA LinksKept ==
  ASSUME IInv, UNCHANGED <<analysis, lastAnalysis, canonical>>,
         \A v \in Versions :
           /\ job'[v].status = "completed" <=> job[v].status = "completed"
           /\ job'[v].status = "duplicate" <=> job[v].status = "duplicate"
  PROVE  AnalysisShape' /\ DuplicateHasCanonical'
<1>1. AnalysisShape'
  BY DEF IInv, AnalysisShape, AnalysisMatchesJob
<1>2. DuplicateHasCanonical'
  BY DEF IInv, DuplicateHasCanonical
<1>. QED BY <1>1, <1>2

\* Drains alone move.
LEMMA TablesUnchanged ==
  ASSUME IInv, UNCHANGED <<stored, current, allowed, redacted, job, lastJob, analysis,
                           lastAnalysis, canonical>>,
         drain' \in [Workers -> Drain],
         \A w \in Workers : \A v \in Held(w)' :
           v \in Held(w) /\ drain'[w].claims[v] = drain[w].claims[v]
  PROVE  IInv'
<1>1. TypeOK'
  BY DEF IInv, TypeOK
<1>2. ClaimShape'
  BY ClaimsKept
<1>3. JobShape' /\ redacted' \subseteq stored' /\ RedactedHasNoOpenJob'
  BY DEF IInv, JobShape, RedactedHasNoOpenJob
<1>4. AnalysisShape' /\ DuplicateHasCanonical'
  BY LinksKept
<1>. QED BY <1>1, <1>2, <1>3, <1>4 DEF IInv

----------------------------------------------------------------------------
(***************************************************************************)
(* Versions, sources and retention.                                        *)
(***************************************************************************)
LEMMA SameDrain ==
  ASSUME UNCHANGED drain
  PROVE  \A w \in Workers : \A v \in Held(w)' :
           v \in Held(w) /\ drain'[w].claims[v] = drain[w].claims[v]
  BY DEF Held

LEMMA PersistVersionIInv ==
  ASSUME IInv, NEW v \in Versions, NEW latest \in BOOLEAN, PersistVersion(v, latest)
  PROVE  IInv'
<1>1. CASE v \in stored
  <2>1. UNCHANGED <<stored, redacted, job, lastJob, analysis, lastAnalysis, canonical, drain>>
    BY <1>1 DEF PersistVersion
  <2>2. TypeOK'
    BY <2>1, QueueAssumption DEF PersistVersion, IInv, TypeOK
  <2>3. ClaimShape' /\ AnalysisShape' /\ DuplicateHasCanonical'
    BY <2>1, SameDrain, ClaimsKept, LinksKept
  <2>4. JobShape' /\ redacted' \subseteq stored' /\ RedactedHasNoOpenJob'
    BY <2>1 DEF IInv, JobShape, RedactedHasNoOpenJob
  <2>. QED BY <2>2, <2>3, <2>4 DEF IInv
<1>2. CASE v \notin stored
  <2>1. /\ stored' = stored \cup {v} /\ job' = [job EXCEPT ![v] = NewJob(lastJob + 1)]
        /\ lastJob' = lastJob + 1
        /\ UNCHANGED <<redacted, analysis, lastAnalysis, canonical, drain>>
    BY <1>2 DEF PersistVersion
  <2>2. job[v].status = "none"
    BY <1>2 DEF IInv, JobShape
  <2>3. /\ job'[v] \in Job /\ job'[v].status = "pending" /\ job'[v].attempts = 0
        /\ job'[v].wait = 0 /\ job'[v].lease = 0 /\ job'[v].holder = NoWorker
    BY <2>1, NewRow DEF IInv, TypeOK
  <2>4. \A u \in Versions : u # v => job'[u] = job[u]
    BY <2>1 DEF IInv, TypeOK
  <2>5. TypeOK'
    <3>1. job' \in [Versions -> Job] /\ lastJob' \in Nat /\ stored' \subseteq Versions
      BY <2>1, <2>3 DEF IInv, TypeOK
    <3>2. current' \in [Documents -> Versions \cup {NoVersion}]
      BY QueueAssumption DEF PersistVersion, IInv, TypeOK
    <3>. QED BY <2>1, <3>1, <3>2 DEF PersistVersion, IInv, TypeOK
  <2>6. ClaimShape'
    BY <2>1, <2>3, <2>4, SameDrain, ClaimsKept
  <2>7. AnalysisShape' /\ DuplicateHasCanonical'
    BY <2>1, <2>2, <2>3, <2>4, LinksKept
  <2>8. JobShape'
    BY <2>1, <2>3, <2>4 DEF IInv, JobShape
  <2>9. redacted' \subseteq stored' /\ RedactedHasNoOpenJob'
    BY <1>2, <2>1, <2>4 DEF IInv, TypeOK, RedactedHasNoOpenJob
  <2>. QED BY <2>5, <2>6, <2>7, <2>8, <2>9 DEF IInv
<1>. QED BY <1>1, <1>2

LEMMA BackfillJobIInv == ASSUME IInv, NEW v \in Versions, BackfillJob(v) PROVE IInv'
<1>1. /\ v \in stored /\ job[v].status = "none"
      /\ job' = [job EXCEPT ![v] = NewJob(lastJob + 1)]
      /\ UNCHANGED <<stored, redacted, analysis, lastAnalysis, canonical, drain>>
  BY DEF BackfillJob
<1>2. /\ job'[v] \in Job /\ job'[v].status = "pending" /\ job'[v].attempts = 0
      /\ job'[v].wait = 0 /\ job'[v].lease = 0 /\ job'[v].holder = NoWorker
  BY <1>1, NewRow DEF IInv, TypeOK
<1>3. \A u \in Versions : u # v => job'[u] = job[u]
  BY <1>1 DEF IInv, TypeOK
<1>4. TypeOK'
  BY <1>1, <1>2 DEF BackfillJob, IInv, TypeOK
<1>5. ClaimShape'
  BY <1>1, <1>2, <1>3, SameDrain, ClaimsKept
<1>6. AnalysisShape' /\ DuplicateHasCanonical'
  BY <1>1, <1>2, <1>3, LinksKept
<1>7. JobShape'
  BY <1>1, <1>2, <1>3 DEF IInv, JobShape
<1>8. v \in Legacy
  BY <1>1 DEF IInv, JobShape
<1>9. redacted' \subseteq stored' /\ RedactedHasNoOpenJob'
  BY <1>1, <1>3, <1>8 DEF IInv, TypeOK, RedactedHasNoOpenJob
<1>. QED BY <1>4, <1>5, <1>6, <1>7, <1>9 DEF IInv

LEMMA SyncSourceIInv == ASSUME IInv, NEW d \in Reclassified, SyncSource(d) PROVE IInv'
<1>1. UNCHANGED <<stored, redacted, job, lastJob, analysis, lastAnalysis, canonical, drain>>
  BY DEF SyncSource
<1>2. TypeOK'
  BY QueueAssumption DEF SyncSource, IInv, TypeOK
<1>3. ClaimShape' /\ AnalysisShape' /\ DuplicateHasCanonical'
  BY <1>1, SameDrain, ClaimsKept, LinksKept
<1>4. JobShape' /\ redacted' \subseteq stored' /\ RedactedHasNoOpenJob'
  BY <1>1 DEF IInv, JobShape, RedactedHasNoOpenJob
<1>. QED BY <1>2, <1>3, <1>4 DEF IInv

LEMMA RedactBodiesIInv ==
  ASSUME IInv, NEW old \in SUBSET {v \in stored \ redacted : DocOf[v] \in Media}, RedactBodies(old)
  PROVE  IInv'
<1>1. /\ redacted' = redacted \cup old /\ old \subseteq stored
      /\ UNCHANGED <<stored, lastJob, analysis, lastAnalysis, canonical, drain>>
  BY DEF RedactBodies
<1>2. ASSUME NEW v \in Versions
      PROVE  \/ /\ v \notin old \/ job[v].status \notin Open
                /\ job'[v] = job[v]
             \/ /\ job[v].status \in Open /\ job'[v] \in Job
                /\ job'[v].status = "failed" /\ job'[v].attempts = job[v].attempts
                /\ job'[v].wait = 0 /\ job'[v].lease = 0 /\ job'[v].holder = NoWorker
  <2>1. job'[v] = IF v \in old /\ Redactable(v) THEN Released(job[v], "failed", 0) ELSE job[v]
    BY DEF RedactBodies
  <2>2. job[v] \in Job /\ "failed" \in JobStatus /\ 0 \in 0..RetryTicks
    BY QueueAssumption DEF IInv, TypeOK, JobStatus, Settled
  <2>. QED BY <2>1, <2>2, ReleasedRow DEF Redactable
<1>3. TypeOK'
  <2>1. job' \in [Versions -> Job]
    BY <1>2 DEF RedactBodies, IInv, TypeOK
  <2>. QED BY <1>1, <2>1 DEF RedactBodies, IInv, TypeOK
<1>4. ClaimShape'
  <2>1. \A v \in Versions :
          /\ job[v].status # "none" => job'[v].status # "none"
          /\ job'[v].status = "running" => job'[v] = job[v]
    BY <1>2
  <2>. QED BY <1>1, <2>1, SameDrain, ClaimsKept
<1>5. AnalysisShape' /\ DuplicateHasCanonical'
  BY <1>1, <1>2, LinksKept DEF Open
<1>6. JobShape'
  BY <1>1, <1>2 DEF IInv, JobShape, Open
<1>7. redacted' \subseteq stored' /\ RedactedHasNoOpenJob'
  <2>1. \A v \in redacted' \ Legacy : v \in stored /\ v \in Versions /\ job[v].status # "none"
    BY <1>1 DEF IInv, TypeOK, JobShape
  <2>2. \A v \in Versions : job[v].status \in {"none"} \cup Open \cup Settled
    BY DEF IInv, TypeOK, Job, JobStatus
  <2>. QED BY <1>1, <1>2, <2>1, <2>2 DEF IInv, RedactedHasNoOpenJob, Settled
<1>. QED BY <1>3, <1>4, <1>5, <1>6, <1>7 DEF IInv

----------------------------------------------------------------------------
(***************************************************************************)
(* Drains: the steps of a batch.                                           *)
(***************************************************************************)

\* Dropping a claim.
LEMMA DroppedClaim ==
  ASSUME IInv, NEW w \in Workers, NEW v \in Held(w), drain' = Dropped(w, v)
  PROVE  /\ drain' \in [Workers -> Drain]
         /\ \A x \in Workers : \A u \in Held(x)' :
              u \in Held(x) /\ drain'[x].claims[u] = drain[x].claims[u]
<1>1. v \in Versions /\ drain[w] \in Drain /\ drain \in [Workers -> Drain]
  BY DEF Held, IInv, TypeOK
<1>2. \A x \in Workers : x # w => drain'[x] = drain[x]
  BY <1>1 DEF Dropped
<1>3. 0 \in 0..MaxAttempts
  BY QueueAssumption
<1>4. CASE Held(w) = {v}
  <2>1. drain' = [drain EXCEPT ![w] = Idle]
    BY <1>4 DEF Dropped
  <2>2. Idle \in Drain
    BY <1>3 DEF Idle, NoClaims, Drain, Phase
  <2>3. Held(w)' = {}
    BY <1>1, <2>1 DEF Held, Idle, NoClaims
  <2>. QED BY <1>1, <1>2, <2>1, <2>2, <2>3 DEF Held
<1>5. CASE Held(w) # {v}
  <2>1. drain' = [drain EXCEPT ![w] =
                    [phase |-> drain[w].phase, claims |-> [drain[w].claims EXCEPT ![v] = 0],
                     analyzed |-> drain[w].analyzed \ {v}]]
    BY <1>5 DEF Dropped
  <2>2. drain'[w] = [phase |-> drain[w].phase, claims |-> [drain[w].claims EXCEPT ![v] = 0],
                     analyzed |-> drain[w].analyzed \ {v}]
    BY <1>1, <2>1
  <2>3. drain'[w] \in Drain
    BY <1>1, <1>3, <2>2 DEF Drain
  <2>4. drain' \in [Workers -> Drain]
    BY <1>1, <2>1, <2>3
  <2>5. \A u \in Held(w)' : u \in Held(w) /\ drain'[w].claims[u] = drain[w].claims[u]
    BY <1>1, <2>2 DEF Held, Drain
  <2>. QED BY <1>2, <2>4, <2>5 DEF Held
<1>. QED BY <1>4, <1>5

LEMMA AnalyzeIInv ==
  ASSUME IInv, NEW w \in Workers, NEW v \in Versions, Analyze(w, v) PROVE IInv'
<1>1. drain' = [drain EXCEPT ![w] = [drain[w] EXCEPT !.analyzed = drain[w].analyzed \cup {v}]]
  BY DEF Analyze
<1>2. drain[w] \in Drain
  BY DEF IInv, TypeOK
<1>3. drain'[w] = [phase |-> drain[w].phase, claims |-> drain[w].claims,
                   analyzed |-> drain[w].analyzed \cup {v}]
  BY <1>1, <1>2 DEF IInv, TypeOK, Drain
<1>4. drain'[w] \in Drain
  BY <1>2, <1>3 DEF Drain
<1>5. drain' \in [Workers -> Drain]
  BY <1>1, <1>4 DEF IInv, TypeOK
<1>6. \A x \in Workers : drain'[x].claims = drain[x].claims
  BY <1>1, <1>3 DEF IInv, TypeOK
<1>7. \A x \in Workers : \A u \in Held(x)' :
        u \in Held(x) /\ drain'[x].claims[u] = drain[x].claims[u]
  BY <1>6 DEF Held
<1>. QED BY <1>5, <1>7, TablesUnchanged DEF Analyze

LEMMA FailureNotRecordedIInv ==
  ASSUME IInv, NEW w \in Workers, NEW v \in Versions, FailureNotRecorded(w, v) PROVE IInv'
  BY DroppedClaim, TablesUnchanged DEF FailureNotRecorded

LEMMA CrashIInv == ASSUME IInv, NEW w \in Workers, Crash(w) PROVE IInv'
<1>1. drain' = [drain EXCEPT ![w] = Idle]
  BY DEF Crash
<1>2. Idle \in Drain
  BY QueueAssumption DEF Idle, NoClaims, Drain, Phase
<1>3. drain' \in [Workers -> Drain]
  BY <1>1, <1>2 DEF IInv, TypeOK
<1>4. Held(w)' = {} /\ \A x \in Workers : x # w => drain'[x] = drain[x]
  BY <1>1 DEF IInv, TypeOK, Held, Idle, NoClaims
<1>5. \A x \in Workers : \A u \in Held(x)' :
        u \in Held(x) /\ drain'[x].claims[u] = drain[x].claims[u]
  BY <1>4 DEF Held
<1>. QED BY <1>3, <1>5, TablesUnchanged DEF Crash

\* A row that is given back by the drain that holds it: what it is then.
LEMMA GivenBackRow ==
  ASSUME IInv, NEW v \in Versions, NEW status \in {"completed", "retry_wait", "failed"},
         NEW wait \in 0..RetryTicks, job[v].status = "running",
         job' = [job EXCEPT ![v] = Released(@, status, wait)]
  PROVE  /\ job' \in [Versions -> Job]
         /\ job'[v].status = status /\ job'[v].attempts = job[v].attempts
         /\ job'[v].wait = wait /\ job'[v].lease = 0 /\ job'[v].holder = NoWorker
         /\ \A u \in Versions : u # v => job'[u] = job[u]
<1>1. job[v] \in Job /\ status \in JobStatus
  BY DEF IInv, TypeOK, JobStatus, Open, Settled
<1>. QED BY <1>1, ReleasedRow DEF IInv, TypeOK

LEMMA CompleteAnalysisIInv ==
  ASSUME IInv, NEW w \in Workers, NEW v \in Versions, CompleteAnalysis(w, v) PROVE IInv'
<1>1. /\ v \in Held(w) /\ drain' = Dropped(w, v)
      /\ UNCHANGED <<stored, current, allowed, redacted, lastJob, canonical>>
  BY DEF CompleteAnalysis
<1>2. CASE ~Current(w, v)
  <2>1. UNCHANGED <<job, analysis, lastAnalysis>>
    BY <1>2 DEF CompleteAnalysis
  <2>. QED BY <1>1, <2>1, DroppedClaim, TablesUnchanged
<1>3. CASE Current(w, v)
  <2>1. /\ job' = [job EXCEPT ![v] = Released(@, "completed", 0)]
        /\ analysis' = [analysis EXCEPT ![v] = lastAnalysis + 1]
        /\ lastAnalysis' = lastAnalysis + 1
        /\ job[v].status = "running"
    BY <1>3 DEF CompleteAnalysis, Current
  <2>2. 0 \in 0..RetryTicks
    BY QueueAssumption
  <2>3. /\ job' \in [Versions -> Job]
        /\ job'[v].status = "completed" /\ job'[v].attempts = job[v].attempts
        /\ job'[v].wait = 0 /\ job'[v].lease = 0 /\ job'[v].holder = NoWorker
        /\ \A u \in Versions : u # v => job'[u] = job[u]
    BY <2>1, <2>2, GivenBackRow
  <2>4. TypeOK'
    BY <1>1, <2>1, <2>3, DroppedClaim DEF IInv, TypeOK
  <2>5. ClaimShape'
    BY <1>1, <2>3, DroppedClaim, ClaimsKept
  <2>6. JobShape'
    BY <1>1, <2>1, <2>3 DEF IInv, JobShape
  <2>7. analysis[v] = 0 /\ canonical[v] = 0
    BY <2>1 DEF IInv, AnalysisShape, AnalysisMatchesJob, DuplicateHasCanonical
  <2>8. /\ analysis'[v] = lastAnalysis + 1 /\ lastAnalysis \in Nat
        /\ \A u \in Versions : u # v => analysis'[u] = analysis[u]
        /\ \A u \in Versions : analysis[u] \in Nat /\ analysis[u] <= lastAnalysis
    BY <2>1 DEF IInv, TypeOK, AnalysisShape
  <2>9. AnalysisShape'
    BY <2>1, <2>3, <2>8 DEF IInv, AnalysisShape, AnalysisMatchesJob
  <2>10. DuplicateHasCanonical'
    BY <1>1, <2>1, <2>3, <2>7, <2>8 DEF IInv, DuplicateHasCanonical
  <2>11. redacted' \subseteq stored' /\ RedactedHasNoOpenJob'
    BY <1>1, <2>3 DEF IInv, TypeOK, RedactedHasNoOpenJob, Settled
  <2>. QED BY <2>4, <2>5, <2>6, <2>9, <2>10, <2>11 DEF IInv
<1>. QED BY <1>2, <1>3

LEMMA FailAnalysisIInv ==
  ASSUME IInv, NEW w \in Workers, NEW v \in Versions, FailAnalysis(w, v) PROVE IInv'
<1>1. /\ v \in Held(w) /\ drain' = Dropped(w, v)
      /\ UNCHANGED <<stored, current, allowed, redacted, lastJob, analysis, lastAnalysis, canonical>>
  BY DEF FailAnalysis
<1>2. CASE ~Current(w, v)
  <2>1. UNCHANGED job
    BY <1>2 DEF FailAnalysis
  <2>. QED BY <1>1, <2>1, DroppedClaim, TablesUnchanged
<1>3. ASSUME NEW status \in {"retry_wait", "failed"}, NEW wait \in 0..RetryTicks, Current(w, v),
             job' = [job EXCEPT ![v] = Released(@, status, wait)],
             status = "retry_wait" => job[v].attempts < MaxAttempts,
             status # "retry_wait" => wait = 0
      PROVE  IInv'
  <2>1. job[v].status = "running"
    BY <1>3 DEF Current
  <2>2. /\ job' \in [Versions -> Job]
        /\ job'[v].status = status /\ job'[v].attempts = job[v].attempts
        /\ job'[v].wait = wait /\ job'[v].lease = 0 /\ job'[v].holder = NoWorker
        /\ \A u \in Versions : u # v => job'[u] = job[u]
    BY <1>3, <2>1, GivenBackRow
  <2>3. TypeOK'
    BY <1>1, <2>2, DroppedClaim DEF IInv, TypeOK
  <2>4. ClaimShape'
    BY <1>1, <2>2, DroppedClaim, ClaimsKept
  <2>5. JobShape'
    BY <1>1, <1>3, <2>1, <2>2 DEF IInv, JobShape
  <2>6. AnalysisShape' /\ DuplicateHasCanonical'
    BY <1>1, <2>1, <2>2, LinksKept
  <2>7. redacted' \subseteq stored' /\ RedactedHasNoOpenJob'
    BY <1>1, <2>1, <2>2 DEF IInv, TypeOK, RedactedHasNoOpenJob, Settled
  <2>. QED BY <2>3, <2>4, <2>5, <2>6, <2>7 DEF IInv
<1>4. CASE Current(w, v) /\ Retries(job[v])
  <2>1. job' = [job EXCEPT ![v] = Released(@, "retry_wait", RetryTicks)]
    BY <1>4 DEF FailAnalysis
  <2>2. RetryTicks \in 0..RetryTicks
    BY QueueAssumption
  <2>. QED BY <1>3, <1>4, <2>1, <2>2 DEF Retries
<1>5. CASE Current(w, v) /\ ~Retries(job[v])
  <2>1. job' = [job EXCEPT ![v] = Released(@, "failed", 0)]
    BY <1>5 DEF FailAnalysis
  <2>2. 0 \in 0..RetryTicks
    BY QueueAssumption
  <2>. QED BY <1>3, <1>5, <2>1, <2>2
<1>. QED BY <1>2, <1>4, <1>5

LEMMA TickIInv == ASSUME IInv, Tick PROVE IInv'
<1>1. UNCHANGED <<stored, current, allowed, redacted, lastJob, analysis, lastAnalysis, canonical, drain>>
  BY DEF Tick
<1>2. ASSUME NEW v \in Versions
      PROVE  /\ job'[v] \in Job
             /\ job'[v].status = job[v].status /\ job'[v].holder = job[v].holder
             /\ job'[v].attempts = job[v].attempts
             /\ job[v].wait = 0 => job'[v].wait = 0
             /\ job[v].lease = 0 => job'[v].lease = 0
  <2>1. job[v] \in Job
    BY DEF IInv, TypeOK
  <2>2. job'[v] = [job[v] EXCEPT !.wait = CountDown(@), !.lease = CountDown(@)]
    BY DEF Tick
  <2>. QED BY <2>1, <2>2, CountedDownRow
<1>3. TypeOK'
  <2>1. job' \in [Versions -> Job]
    BY <1>2 DEF Tick
  <2>. QED BY <1>1, <2>1 DEF IInv, TypeOK
<1>4. ClaimShape'
  BY <1>1, <1>2, SameDrain, ClaimsKept
<1>5. AnalysisShape' /\ DuplicateHasCanonical'
  BY <1>1, <1>2, LinksKept
<1>6. JobShape'
  BY <1>1, <1>2 DEF IInv, JobShape
<1>7. redacted' \subseteq stored' /\ RedactedHasNoOpenJob'
  BY <1>1, <1>2 DEF IInv, TypeOK, RedactedHasNoOpenJob
<1>. QED BY <1>3, <1>4, <1>5, <1>6, <1>7 DEF IInv

----------------------------------------------------------------------------
(***************************************************************************)
(* The claim: link, sweep, lease.                                          *)
(***************************************************************************)
LEMMA DueRow ==
  ASSUME IInv, NEW v \in Versions, Due(job[v])
  PROVE  job[v].status \in Open /\ job[v].attempts < MaxAttempts
<1>1. MaxAttempts \in Nat \ {0}
  BY QueueAssumption
<1>. QED BY <1>1 DEF Due, Open, IInv, JobShape

LEMMA SweptRow ==
  ASSUME IInv, NEW v \in Versions
  PROVE  /\ Swept[v] \in Job
         /\ Swept[v].attempts = job[v].attempts
         /\ \/ /\ v \in Linked /\ job[v].status \in Open
               /\ Swept[v].status = "duplicate" /\ Swept[v].holder = NoWorker
               /\ Swept[v].wait = 0 /\ Swept[v].lease = 0
            \/ /\ v \notin Linked /\ job[v].status = "running"
               /\ Swept[v].status = "failed" /\ Swept[v].holder = NoWorker
               /\ Swept[v].wait = 0 /\ Swept[v].lease = 0
            \/ v \notin Linked /\ Swept[v] = job[v]
<1>1. /\ job[v] \in Job /\ 0 \in 0..RetryTicks
      /\ "failed" \in JobStatus /\ "duplicate" \in JobStatus
  BY QueueAssumption DEF IInv, TypeOK, JobStatus, Settled
<1>2. Swept[v] = SweptJob(v)
  BY DEF Swept
<1>3. CASE v \in Linked
  <2>1. Due(job[v])
    BY <1>3 DEF Linked
  <2>2. Swept[v] = Released(job[v], "duplicate", 0)
    BY <1>2, <1>3 DEF SweptJob
  <2>. QED BY <1>1, <1>3, <2>1, <2>2, DueRow, ReleasedRow
<1>4. CASE v \notin Linked /\ Exhausted(job[v])
  <2>1. Swept[v] = Released(job[v], "failed", 0) /\ job[v].status = "running"
    BY <1>2, <1>4 DEF SweptJob, Exhausted
  <2>. QED BY <1>1, <1>4, <2>1, ReleasedRow
<1>5. CASE v \notin Linked /\ ~Exhausted(job[v])
  BY <1>1, <1>2, <1>5 DEF SweptJob
<1>. QED BY <1>3, <1>4, <1>5

\* A link points to another version's analysis.
LEMMA LinkedVersion ==
  ASSUME IInv, NEW v \in Linked
  PROVE  /\ v \in Versions /\ FirstAnalysis(v) \in Nat \ {0}
         /\ \E u \in Versions \ {v} : analysis[u] = FirstAnalysis(v)
<1> DEFINE S == {analysis[u] : u \in AnalysesOf(v)}
<1>1. v \in Versions /\ AnalysesOf(v) # {} /\ AnalysesOf(v) \subseteq Versions \ {v}
  BY DEF Linked, AnalysesOf
<1>2. \A u \in AnalysesOf(v) : analysis[u] \in Nat /\ analysis[u] # 0
  BY DEF AnalysesOf, IInv, TypeOK
<1>3. S \subseteq Nat /\ S # {}
  BY <1>1, <1>2
<1>4. Min(S) \in S
  BY <1>3, LeastNumber
<1>5. PICK u \in AnalysesOf(v) : analysis[u] = Min(S)
  BY <1>4
<1>. QED BY <1>1, <1>2, <1>5 DEF FirstAnalysis

\* The rows a claim leaves behind: swept, but for the one it may lease.
LEMMA SweptTables ==
  ASSUME IInv, NEW w \in Workers, ClaimNext(w),
         \A v \in Versions :
           /\ job'[v] \in Job
           /\ job'[v] = Swept[v]
              \/ /\ v \notin Linked /\ job[v].status \in Open
                 /\ job'[v].status = "running" /\ job'[v].holder \in Workers
                 /\ job'[v].wait = 0
  PROVE  /\ JobShape' /\ AnalysisShape' /\ DuplicateHasCanonical'
         /\ redacted' \subseteq stored' /\ RedactedHasNoOpenJob'
<1>1. /\ UNCHANGED <<stored, redacted, analysis, lastAnalysis>>
      /\ canonical' = [v \in Versions |-> IF v \in Linked /\ canonical[v] = 0
                                          THEN FirstAnalysis(v) ELSE canonical[v]]
  BY DEF ClaimNext
<1>2. NoWorker \notin Workers
  BY QueueAssumption
<1>3. JobShape'
  BY <1>1, <1>2, SweptRow DEF IInv, JobShape, Open
<1>4. \A v \in Versions :
        /\ job'[v].status = "completed" <=> job[v].status = "completed"
        /\ job'[v].status = "duplicate" <=> (job[v].status = "duplicate" \/ v \in Linked)
        /\ v \in Linked => job[v].status # "duplicate"
        /\ job[v].status \in Settled => job'[v] = job[v]
  BY SweptRow DEF Open, Settled
<1>5. AnalysisShape'
  BY <1>1, <1>4 DEF IInv, AnalysisShape, AnalysisMatchesJob
<1>6. DuplicateHasCanonical'
  <2>1. ASSUME NEW v \in Versions, v \in Linked
        PROVE  /\ canonical'[v] = FirstAnalysis(v) /\ canonical'[v] # 0
               /\ \E u \in Versions \ {v} : analysis[u] = canonical'[v]
    BY <1>1, <1>4, <2>1, LinkedVersion DEF IInv, DuplicateHasCanonical
  <2>2. ASSUME NEW v \in Versions, v \notin Linked
        PROVE  canonical'[v] = canonical[v]
    BY <1>1, <2>2
  <2>. QED BY <1>1, <1>4, <2>1, <2>2 DEF IInv, DuplicateHasCanonical
<1>7. redacted' \subseteq stored' /\ RedactedHasNoOpenJob'
  BY <1>1, <1>4 DEF IInv, TypeOK, RedactedHasNoOpenJob
<1>. QED BY <1>3, <1>5, <1>6, <1>7

LEMMA ClaimNextIInv == ASSUME IInv, NEW w \in Workers, ClaimNext(w) PROVE IInv'
<1>1. UNCHANGED <<stored, current, allowed, redacted, lastJob, analysis, lastAnalysis>>
  BY DEF ClaimNext
<1>2. canonical' \in [Versions -> Nat]
  BY LinkedVersion DEF ClaimNext, IInv, TypeOK
<1>3. CASE /\ job' = Swept
           /\ drain' = [drain EXCEPT ![w].phase = IF Held(w) = {} THEN "idle" ELSE "analyzing"]
  <2>1. job' \in [Versions -> Job]
    BY <1>3, SweptRow DEF Swept
  <2>2. JobShape' /\ AnalysisShape' /\ DuplicateHasCanonical'
        /\ redacted' \subseteq stored' /\ RedactedHasNoOpenJob'
    BY <1>3, SweptRow, SweptTables
  <2>3. /\ drain' \in [Workers -> Drain]
        /\ \A x \in Workers : drain'[x].claims = drain[x].claims
    BY ZenonT(60), <1>3 DEF IInv, TypeOK, Drain, Phase
  <2>4. ClaimShape'
    <3>1. \A x \in Workers : \A u \in Held(x)' :
            u \in Held(x) /\ drain'[x].claims[u] = drain[x].claims[u]
      BY <2>3 DEF Held
    <3>. QED BY <1>3, <3>1, SweptRow, ClaimsKept
  <2>. QED BY <1>1, <1>2, <2>1, <2>2, <2>3, <2>4 DEF IInv, TypeOK
<1>4. ASSUME NEW v \in Claimable,
             job' = [Swept EXCEPT ![v] = Leased(@, w)],
             drain' = [drain EXCEPT ![w] =
                         [phase |-> IF Cardinality(Held(w)) + 1 < Limit
                                    THEN "claiming" ELSE "analyzing",
                          claims |-> [@.claims EXCEPT ![v] = Swept[v].attempts + 1],
                          analyzed |-> @.analyzed]]
      PROVE  IInv'
  <2>1. v \in Versions /\ Due(Swept[v])
    BY DEF Claimable
  <2>2. /\ Swept[v] = job[v] /\ v \notin Linked /\ job[v] \in Job
        /\ job[v].status \in Open /\ job[v].attempts < MaxAttempts
    BY <2>1, SweptRow, DueRow DEF Due, Open
  <2>3. /\ job'[v] \in Job /\ job'[v].status = "running" /\ job'[v].holder = w
        /\ job'[v].attempts = job[v].attempts + 1 /\ job'[v].wait = 0
        /\ job[v].attempts + 1 \in 0..MaxAttempts
    BY <1>4, <2>1, <2>2, LeasedRow DEF Swept
  <2>4. \A u \in Versions : u # v => job'[u] = Swept[u]
    BY <1>4 DEF Swept
  <2>5. job' \in [Versions -> Job]
    BY <1>4, <2>3, <2>4, SweptRow DEF Swept
  <2>6. \A u \in Versions :
          /\ job'[u] \in Job
          /\ job'[u] = Swept[u]
             \/ /\ u \notin Linked /\ job[u].status \in Open
                /\ job'[u].status = "running" /\ job'[u].holder \in Workers
                /\ job'[u].wait = 0
    BY <2>2, <2>3, <2>4, <2>5
  <2>7. JobShape' /\ AnalysisShape' /\ DuplicateHasCanonical'
        /\ redacted' \subseteq stored' /\ RedactedHasNoOpenJob'
    BY <2>6, SweptTables
  <2>8. drain[w] \in Drain /\ drain \in [Workers -> Drain]
    BY DEF IInv, TypeOK
  <2>9. /\ drain'[w] \in Drain
        /\ drain'[w].claims = [drain[w].claims EXCEPT ![v] = job[v].attempts + 1]
    BY <1>4, <2>2, <2>3, <2>8 DEF Drain, Phase
  <2>10. drain' \in [Workers -> Drain] /\ \A x \in Workers : x # w => drain'[x] = drain[x]
    BY <1>4, <2>8, <2>9
  <2>11. ClaimShape'
    <3>1. \A u \in Versions :
            /\ job[u].status # "none" => job'[u].status # "none"
            /\ u # v /\ job'[u].status = "running" => job'[u] = job[u]
      BY <2>3, <2>4, SweptRow
    <3>2. ASSUME NEW x \in Workers, NEW u \in Held(x)', u # v \/ x # w
          PROVE  /\ u \in Versions /\ u \in Held(x)
                 /\ drain'[x].claims[u] = drain[x].claims[u]
      BY <2>8, <2>9, <2>10, <3>2 DEF Held, Drain
    <3>3. drain'[w].claims[v] = job'[v].attempts
      BY <2>1, <2>3, <2>8, <2>9 DEF Drain
    <3>4. ASSUME NEW x \in Workers, NEW u \in Held(x)'
          PROVE  /\ job'[u].status # "none"
                 /\ Current(x, u)' => drain'[x].claims[u] = job'[u].attempts
      <4>1. CASE u = v /\ x = w
        BY <2>3, <3>3, <4>1
      <4>2. CASE u = v /\ x # w
        BY <2>3, <4>2 DEF Current
      <4>3. CASE u # v
        BY <3>1, <3>2, <4>3 DEF IInv, ClaimShape, Current
      <4>. QED BY <4>1, <4>2, <4>3
    <3>. QED BY <3>4 DEF ClaimShape
  <2>. QED BY <1>1, <1>2, <2>5, <2>7, <2>10, <2>11 DEF IInv, TypeOK
<1>. QED BY <1>3, <1>4 DEF ClaimNext

LEMMA NextIInv == IInv /\ [Next]_vars => IInv'
<1> SUFFICES ASSUME IInv, [Next]_vars PROVE IInv'
  OBVIOUS
<1>1. CASE UNCHANGED vars
  BY <1>1 DEF vars, IInv, TypeOK, JobShape, ClaimShape, Held, Current, AnalysisShape,
     AnalysisMatchesJob, DuplicateHasCanonical, RedactedHasNoOpenJob
<1>2. ASSUME NEW v \in Versions, NEW latest \in BOOLEAN, PersistVersion(v, latest) PROVE IInv'
  BY <1>2, PersistVersionIInv
<1>3. ASSUME NEW v \in Versions, BackfillJob(v) PROVE IInv'
  BY <1>3, BackfillJobIInv
<1>4. ASSUME NEW d \in Reclassified, SyncSource(d) PROVE IInv'
  BY <1>4, SyncSourceIInv
<1>5. ASSUME NEW old \in SUBSET {v \in stored \ redacted : DocOf[v] \in Media}, RedactBodies(old)
      PROVE  IInv'
  BY <1>5, RedactBodiesIInv
<1>6. ASSUME NEW w \in Workers, Progress(w) \/ Crash(w) PROVE IInv'
  BY <1>6, ClaimNextIInv, AnalyzeIInv, CompleteAnalysisIInv, FailAnalysisIInv,
     FailureNotRecordedIInv, CrashIInv DEF Progress
<1>7. CASE Tick
  BY <1>7, TickIInv
<1>. QED BY <1>1, <1>2, <1>3, <1>4, <1>5, <1>6, <1>7 DEF Next

----------------------------------------------------------------------------
(***************************************************************************)
(* Theorems.                                                               *)
(***************************************************************************)

\* The strengthened invariant holds of every behaviour.
THEOREM Invariance == Spec => []IInv
  BY InitIInv, NextIInv, PTL DEF Spec

\* Every reachable state has the types of the tables and of the drains' memory.
THEOREM TypeCorrect == Spec => []TypeOK
<1>1. IInv => TypeOK
  BY DEF IInv
<1>. QED BY <1>1, Invariance, PTL

\* complete_analysis stores one analysis per version and leaves its job completed.
THEOREM AnalysesMatchJobs == Spec => []AnalysisMatchesJob
<1>1. IInv => AnalysisMatchesJob
  BY DEF IInv, AnalysisShape
<1>. QED BY <1>1, Invariance, PTL

\* A duplicate points to an analysis of another version, and to nothing else.
THEOREM DuplicatesHaveCanonicals == Spec => []DuplicateHasCanonical
<1>1. IInv => DuplicateHasCanonical
  BY DEF IInv
<1>. QED BY <1>1, Invariance, PTL

\* Retention leaves no job that could hand a replaced body to the model.
THEOREM RedactedJobsAreSettled == Spec => []RedactedHasNoOpenJob
<1>1. IInv => RedactedHasNoOpenJob
  BY DEF IInv
<1>. QED BY <1>1, Invariance, PTL

\* A drain whose token the row carries holds the row's latest claim.
THEOREM LeasesMatchClaims == Spec => []LeaseMatchesClaim
<1>1. IInv => LeaseMatchesClaim
  BY DEF IInv, ClaimShape, LeaseMatchesClaim
<1>. QED BY <1>1, Invariance, PTL

----------------------------------------------------------------------------
(***************************************************************************)
(* Settled jobs.  Each action that changes rows changes one it found open, *)
(* or none; a tick finds nothing to count down in a settled row.           *)
(***************************************************************************)
LEMMA OpenRowsSettled ==
  ASSUME UNCHANGED <<analysis, canonical>>,
         \A v \in Versions : job'[v] = job[v] \/ job[v].status \notin Settled
  PROVE  SettledStep
  BY DEF SettledStep

LEMMA ClaimNextSettled == ASSUME IInv, NEW w \in Workers, ClaimNext(w) PROVE SettledStep
<1>1. \A v \in Versions : job[v].status \in Settled => Swept[v] = job[v]
  BY SweptRow DEF Open, Settled
<1>2. \A v \in Versions : canonical[v] # 0 => canonical'[v] = canonical[v]
  BY DEF ClaimNext
<1>3. \A v \in Claimable : v \in Versions /\ Swept[v].status \in Open
  BY DEF Claimable, Due, Open
<1>4. \A v \in Versions : job[v].status \in Settled => job'[v] = job[v]
  BY <1>1, <1>3 DEF ClaimNext, Swept, Open, Settled
<1>. QED BY <1>2, <1>4 DEF SettledStep, ClaimNext

LEMMA CompleteAnalysisSettled ==
  ASSUME IInv, NEW w \in Workers, NEW v \in Versions, CompleteAnalysis(w, v) PROVE SettledStep
<1>1. CASE ~Current(w, v)
  BY <1>1 DEF CompleteAnalysis, SettledStep
<1>2. CASE Current(w, v)
  <2>1. job[v].status = "running" /\ analysis[v] = 0
    BY <1>2 DEF Current, IInv, AnalysisShape, AnalysisMatchesJob
  <2>2. \A u \in Versions : u # v => job'[u] = job[u] /\ analysis'[u] = analysis[u]
    BY <1>2 DEF CompleteAnalysis, IInv, TypeOK
  <2>. QED BY <2>1, <2>2 DEF CompleteAnalysis, SettledStep, Settled
<1>. QED BY <1>1, <1>2

LEMMA FailAnalysisSettled ==
  ASSUME IInv, NEW w \in Workers, NEW v \in Versions, FailAnalysis(w, v) PROVE SettledStep
<1>1. UNCHANGED <<analysis, canonical>>
  BY DEF FailAnalysis
<1>2. Current(w, v) => job[v].status \notin Settled
  BY DEF Current, Settled
<1>3. \A u \in Versions : u # v => job'[u] = job[u]
  BY DEF FailAnalysis, IInv, TypeOK
<1>4. ~Current(w, v) => job' = job
  BY DEF FailAnalysis
<1>. QED BY <1>1, <1>2, <1>3, <1>4, OpenRowsSettled

LEMMA TickSettled == ASSUME IInv, Tick PROVE SettledStep
<1>1. UNCHANGED <<analysis, canonical>>
  BY DEF Tick
<1>2. ASSUME NEW v \in Versions, job[v].status \in Settled PROVE job'[v] = job[v]
  <2>1. job[v] \in Job /\ job[v].wait = 0 /\ job[v].lease = 0
    BY <1>2 DEF IInv, TypeOK, JobShape, Settled
  <2>2. CountDown(0) = 0
    BY DEF CountDown
  <2>3. job'[v] = [job[v] EXCEPT !.wait = 0, !.lease = 0]
    BY <2>1, <2>2 DEF Tick
  <2>. QED BY <2>1, <2>3 DEF Job
<1>. QED BY <1>1, <1>2, OpenRowsSettled

LEMMA NextSettled == ASSUME IInv, [Next]_vars PROVE SettledStep
<1>1. CASE UNCHANGED <<job, analysis, canonical>>
  BY <1>1 DEF SettledStep
<1>2. ASSUME NEW v \in Versions, NEW latest \in BOOLEAN, PersistVersion(v, latest)
      PROVE  SettledStep
  <2>1. v \notin stored => job[v].status = "none"
    BY DEF IInv, JobShape
  <2>2. \A u \in Versions : u # v \/ v \in stored => job'[u] = job[u]
    BY <1>2 DEF PersistVersion, IInv, TypeOK
  <2>. QED BY <1>2, <2>1, <2>2, OpenRowsSettled DEF PersistVersion, Settled
<1>3. ASSUME NEW v \in Versions, BackfillJob(v) PROVE SettledStep
  <2>1. job[v].status = "none" /\ \A u \in Versions : u # v => job'[u] = job[u]
    BY <1>3 DEF BackfillJob, IInv, TypeOK
  <2>. QED BY <1>3, <2>1, OpenRowsSettled DEF BackfillJob, Settled
<1>4. ASSUME NEW d \in Reclassified, SyncSource(d) PROVE UNCHANGED <<job, analysis, canonical>>
  BY <1>4 DEF SyncSource
<1>5. ASSUME NEW old, RedactBodies(old) PROVE SettledStep
  BY <1>5, OpenRowsSettled DEF RedactBodies, Redactable, Open, Settled
<1>6. ASSUME NEW w \in Workers, Progress(w) PROVE SettledStep
  <2>1. ASSUME NEW v \in Versions, Analyze(w, v) \/ FailureNotRecorded(w, v) PROVE SettledStep
    BY <2>1 DEF Analyze, FailureNotRecorded, SettledStep
  <2>. QED BY <1>6, <2>1, ClaimNextSettled, CompleteAnalysisSettled, FailAnalysisSettled
       DEF Progress
<1>7. ASSUME NEW w \in Workers, Crash(w) PROVE UNCHANGED <<job, analysis, canonical>>
  BY <1>7 DEF Crash
<1>. QED BY <1>1, <1>2, <1>3, <1>4, <1>5, <1>6, <1>7, TickSettled DEF Next, vars

\* A settled job keeps its row, and its version its analysis or link, for good.
THEOREM SettledStaysSettled == Spec => SettledForGood
<1>1. IInv /\ [Next]_vars => [SettledStep]_vars
  BY NextSettled
<1>. QED BY <1>1, Invariance, PTL DEF Spec, SettledForGood

=============================================================================
