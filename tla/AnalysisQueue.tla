---------------------------- MODULE AnalysisQueue ----------------------------
(***************************************************************************)
(* The analysis queue of src/src/commerce_agent: the analysis_jobs,        *)
(* document_analyses and analysis_duplicates tables of                     *)
(* intelligence/repository.py, AnalysisService.drain of                    *)
(* intelligence/service.py, and the two writers of                         *)
(* persistence/ingestion.py that share them, persist_version and           *)
(* redact_expired_media_bodies.                                            *)
(*                                                                         *)
(* An action is one database transaction or the end of one model call; the *)
(* scheduler's analysis job, the pre-report pipeline and the command line  *)
(* drain the same queue.  Deadlines are kept as ticks still to run.        *)
(* drain reads the clock once and then claims until nothing is due; the    *)
(* model reads it at each claim.  The versions are those with the content  *)
(* scope full_text: the others are never claimed and block nothing.        *)
(***************************************************************************)
EXTENDS Naturals, FiniteSets, FiniteSetsExt

CONSTANTS
  Versions,     \* document versions, one per (document, content)
  Documents,    \* documents, one per (source, canonical URL)
  DocOf,        \* the document of a version
  ContentOf,    \* the content hash of a version
  Reclassified, \* documents whose source's compliance changes
  Media,        \* documents of sources whose trust tier is media
  Legacy,       \* versions stored before analysis jobs existed
  Scheduled,    \* drains the daemon starts: the analysis job, the pre-report pipeline
  Operators,    \* drains started from the command line
  Limit,        \* drain's limit on claims
  LeaseTicks,   \* lease_seconds, in ticks
  RetryTicks,   \* the five minutes of fail_analysis, in ticks
  MaxAttempts,  \* the literal 2 of the claim query and of fail_analysis
  NoVersion, NoWorker

Workers == Scheduled \cup Operators

ASSUME QueueAssumption ==
  /\ IsFiniteSet(Versions)
  /\ DocOf \in [Versions -> Documents]
  /\ \A u, v \in Versions : DocOf[u] = DocOf[v] /\ ContentOf[u] = ContentOf[v] => u = v
  /\ Legacy \subseteq Versions
  /\ Media \subseteq Documents
  /\ Reclassified \subseteq Documents
  /\ Limit \in Nat \ {0}
  /\ LeaseTicks \in Nat \ {0}
  /\ RetryTicks \in Nat \ {0}
  /\ MaxAttempts \in Nat \ {0}
  /\ NoVersion \notin Versions
  /\ NoWorker \notin Workers

VARIABLES
  stored,        \* document_versions rows
  current,       \* documents.current_version_id; content_group_hash is its content's
  allowed,       \* documents whose source has compliance "allowed"
  redacted,      \* versions whose body retention has replaced
  job,           \* analysis_jobs rows
  lastJob,       \* the highest job id
  analysis,      \* id of the version's document_analyses row, 0 for none
  lastAnalysis,  \* the highest analysis id
  canonical,     \* analysis_duplicates.canonical_analysis_id, 0 for none
  drain          \* what each drain holds in memory

vars == <<stored, current, allowed, redacted, job, lastJob, analysis, lastAnalysis,
          canonical, drain>>

----------------------------------------------------------------------------
Open      == {"pending", "retry_wait", "running"}
Settled   == {"completed", "failed", "duplicate"}
JobStatus == {"none"} \cup Open \cup Settled
Phase     == {"idle", "claiming", "analyzing"}

Job == [status : JobStatus, id : Nat, attempts : 0..MaxAttempts, wait : 0..RetryTicks,
        lease : 0..LeaseTicks, holder : Workers \cup {NoWorker}]

\* claims: the attempt number of each claim held, 0 for none; analyzed: the claims
\* whose model call has answered.
Drain == [phase : Phase, claims : [Versions -> 0..MaxAttempts], analyzed : SUBSET Versions]

NoJob == [status |-> "none", id |-> 0, attempts |-> 0, wait |-> 0, lease |-> 0,
          holder |-> NoWorker]

NoClaims == [v \in Versions |-> 0]
Idle     == [phase |-> "idle", claims |-> NoClaims, analyzed |-> {}]

TypeOK ==
  /\ stored \subseteq Versions
  /\ current \in [Documents -> Versions \cup {NoVersion}]
  /\ allowed \subseteq Documents
  /\ redacted \subseteq Versions
  /\ job \in [Versions -> Job]
  /\ lastJob \in Nat
  /\ analysis \in [Versions -> Nat]
  /\ lastAnalysis \in Nat
  /\ canonical \in [Versions -> Nat]
  /\ drain \in [Workers -> Drain]

\* A database that has been migrated: legacy versions are current, without jobs.
Init ==
  /\ stored = Legacy
  /\ current \in [Documents -> Legacy \cup {NoVersion}]
  /\ \A d \in Documents : IF \E v \in Legacy : DocOf[v] = d
                          THEN current[d] \in Legacy /\ DocOf[current[d]] = d
                          ELSE current[d] = NoVersion
  /\ allowed = Documents
  /\ redacted = {}
  /\ job = [v \in Versions |-> NoJob]
  /\ lastJob = 0
  /\ analysis = [v \in Versions |-> 0]
  /\ lastAnalysis = 0
  /\ canonical = [v \in Versions |-> 0]
  /\ drain = [w \in Workers |-> Idle]

----------------------------------------------------------------------------
(***************************************************************************)
(* Versions and their jobs.                                                *)
(***************************************************************************)
NewJob(id) == [status |-> "pending", id |-> id, attempts |-> 0, wait |-> 0, lease |-> 0,
               holder |-> NoWorker]

\* persist_version: a new version gets its job in the same transaction; an article
\* fetched later than the document was last seen becomes its current version.
PersistVersion(v, latest) ==
  /\ (\A u \in stored : DocOf[u] # DocOf[v]) => latest
  /\ stored' = stored \cup {v}
  /\ job' = IF v \in stored THEN job ELSE [job EXCEPT ![v] = NewJob(lastJob + 1)]
  /\ lastJob' = IF v \in stored THEN lastJob ELSE lastJob + 1
  /\ current' = IF latest THEN [current EXCEPT ![DocOf[v]] = v] ELSE current
  /\ UNCHANGED <<allowed, redacted, analysis, lastAnalysis, canonical, drain>>

\* backfill_jobs gives a stored version without a job one.
BackfillJob(v) ==
  /\ v \in stored
  /\ job[v].status = "none"
  /\ job' = [job EXCEPT ![v] = NewJob(lastJob + 1)]
  /\ lastJob' = lastJob + 1
  /\ UNCHANGED <<stored, current, allowed, redacted, analysis, lastAnalysis, canonical, drain>>

\* sync_sources changes the compliance of a document's source.
SyncSource(d) ==
  /\ allowed' = IF d \in allowed THEN allowed \ {d} ELSE allowed \cup {d}
  /\ UNCHANGED <<stored, current, redacted, job, lastJob, analysis, lastAnalysis, canonical, drain>>

\* A row that leaves "running" or is settled: every such update clears the lease.
Released(row, status, wait) ==
  [row EXCEPT !.status = status, !.wait = wait, !.lease = 0, !.holder = NoWorker]

\* Mutants: retention forgets the jobs a worker is running, or fails finished ones too.
RedactableIdle(v) == job[v].status \in {"pending", "retry_wait"}
RedactableAny(v)  == job[v].status # "none"

Redactable(v) == job[v].status \in Open

\* redact_expired_media_bodies: the media versions past their retention, whichever
\* their age makes them.
RedactBodies(old) ==
  /\ old # {}
  /\ job' = [v \in Versions |-> IF v \in old /\ Redactable(v)
                                THEN Released(job[v], "failed", 0) ELSE job[v]]
  /\ redacted' = redacted \cup old
  /\ UNCHANGED <<stored, current, allowed, lastJob, analysis, lastAnalysis, canonical, drain>>

----------------------------------------------------------------------------
(***************************************************************************)
(* claim_next.                                                             *)
(***************************************************************************)

\* A job's group is the content of its document's current version, not its own.
GroupOf(v)  == ContentOf[current[DocOf[v]]]
Eligible(v) == DocOf[v] \in allowed

\* Mutant of the due clause: expired leases are forgotten.
DueNotExpired(row) ==
  \/ row.status = "pending"
  \/ row.status = "retry_wait" /\ row.wait = 0

Due(row) ==
  \/ row.status = "pending"
  \/ row.status = "retry_wait" /\ row.wait = 0
  \/ row.status = "running" /\ row.lease = 0 /\ row.attempts < MaxAttempts

\* Mutant: any version with a settled job passes for analysed.
AnalysesOfSettled(v) ==
  {u \in Versions \ {v} : job[u].status \in {"completed", "duplicate"} /\ GroupOf(u) = GroupOf(v)}

\* The analysed versions v may be linked to: those in the same group.
AnalysesOf(v) ==
  {u \in Versions \ {v} : analysis[u] # 0 /\ job[u].status = "completed" /\ GroupOf(u) = GroupOf(v)}

\* _link_completed_duplicates: the due jobs whose group has an analysis.
Linked == {v \in Versions : Due(job[v]) /\ Eligible(v) /\ AnalysesOf(v) # {}}

\* The lowest analysis id among them.
FirstAnalysis(v) == Min({analysis[u] : u \in AnalysesOf(v)})

Exhausted(row) == row.status = "running" /\ row.lease = 0 /\ row.attempts >= MaxAttempts

\* The jobs after the two update statements that precede the claim.
SweptJob(v) ==
  IF v \in Linked THEN Released(job[v], "duplicate", 0)
  ELSE IF Exhausted(job[v]) THEN Released(job[v], "failed", 0)
  ELSE job[v]

Swept == [v \in Versions |-> SweptJob(v)]

\* earlier_same_content: an earlier job of the group that is at work or done.
Blocks(u, v) ==
  /\ GroupOf(u) = GroupOf(v)
  /\ Swept[u].id < Swept[v].id
  /\ Eligible(u)
  /\ \/ Swept[u].status \in {"pending", "running", "completed"}
     \/ Swept[u].status = "retry_wait" /\ Swept[u].wait = 0

Claimable == {v \in Versions : /\ Due(Swept[v])
                               /\ Eligible(v)
                               /\ \A u \in Versions : Swept[u].status # "none" => ~Blocks(u, v)}

Held(w) == {v \in Versions : drain[w].claims[v] > 0}

\* Mutant: a reclaim keeps the token the row already has.
LeasedSameToken(row, w) ==
  [row EXCEPT !.status = "running", !.attempts = @ + 1, !.wait = 0, !.lease = LeaseTicks,
              !.holder = IF @ = NoWorker THEN w ELSE @]

Leased(row, w) == [row EXCEPT !.status = "running", !.attempts = @ + 1, !.wait = 0,
                              !.lease = LeaseTicks, !.holder = w]

\* One turn of drain's claim loop: claim_next links, sweeps and leases the oldest
\* claimable job; the loop ends when there is none or at the limit.
ClaimNext(w) ==
  /\ drain[w].phase \in {"idle", "claiming"}
  /\ canonical' = [v \in Versions |-> IF v \in Linked /\ canonical[v] = 0
                                      THEN FirstAnalysis(v) ELSE canonical[v]]
  /\ \/ /\ Claimable = {}
        /\ job' = Swept
        /\ drain' = [drain EXCEPT ![w].phase = IF Held(w) = {} THEN "idle" ELSE "analyzing"]
     \/ \E v \in Claimable :
          /\ \A u \in Claimable : Swept[v].id <= Swept[u].id
          /\ job' = [Swept EXCEPT ![v] = Leased(@, w)]
          /\ drain' = [drain EXCEPT ![w] =
                         [phase |-> IF Cardinality(Held(w)) + 1 < Limit
                                    THEN "claiming" ELSE "analyzing",
                          claims |-> [@.claims EXCEPT ![v] = Swept[v].attempts + 1],
                          analyzed |-> @.analyzed]]
  /\ UNCHANGED <<stored, current, allowed, redacted, lastJob, analysis, lastAnalysis>>

----------------------------------------------------------------------------
(***************************************************************************)
(* The batch.                                                              *)
(***************************************************************************)

\* Mutant: a worker's update is not checked against its lease token.
CurrentUnchecked(w, v) == v \in Held(w)

\* The row still carries the token of w's claim on v.
Current(w, v) == job[v].status = "running" /\ job[v].holder = w

\* The drain is through with v; with its last claim it returns.
Dropped(w, v) ==
  [drain EXCEPT ![w] = IF Held(w) = {v} THEN Idle
                       ELSE [phase |-> @.phase, claims |-> [@.claims EXCEPT ![v] = 0],
                             analyzed |-> @.analyzed \ {v}]]

\* The model answered with a result that passes validation.
Analyze(w, v) ==
  /\ drain[w].phase = "analyzing"
  /\ v \in Held(w) \ drain[w].analyzed
  /\ drain' = [drain EXCEPT ![w].analyzed = @ \cup {v}]
  /\ UNCHANGED <<stored, current, allowed, redacted, job, lastJob, analysis, lastAnalysis, canonical>>

\* Scoring starts when gather has collected every model call.
AtScoring(w) == Held(w) \subseteq drain[w].analyzed

\* complete_analysis; a stale lease raises and changes nothing.
CompleteAnalysis(w, v) ==
  /\ drain[w].phase = "analyzing"
  /\ v \in Held(w)
  /\ AtScoring(w)
  /\ LET commits == Current(w, v)
     IN  /\ job' = IF commits THEN [job EXCEPT ![v] = Released(@, "completed", 0)] ELSE job
         /\ analysis' = IF commits THEN [analysis EXCEPT ![v] = lastAnalysis + 1] ELSE analysis
         /\ lastAnalysis' = IF commits THEN lastAnalysis + 1 ELSE lastAnalysis
  /\ drain' = Dropped(w, v)
  /\ UNCHANGED <<stored, current, allowed, redacted, lastJob, canonical>>

\* Mutant: a job is retried after its last attempt.
RetriesOneMore(row) == row.attempts <= MaxAttempts

\* should_retry.
Retries(row) == row.attempts < MaxAttempts

\* The model call, or scoring and storing, failed: fail_analysis, token-checked.
FailAnalysis(w, v) ==
  /\ drain[w].phase = "analyzing"
  /\ v \in Held(w)
  /\ v \in drain[w].analyzed => AtScoring(w)
  /\ job' = IF Current(w, v)
            THEN [job EXCEPT ![v] = IF Retries(@)
                                    THEN Released(@, "retry_wait", RetryTicks)
                                    ELSE Released(@, "failed", 0)]
            ELSE job
  /\ drain' = Dropped(w, v)
  /\ UNCHANGED <<stored, current, allowed, redacted, lastJob, analysis, lastAnalysis, canonical>>

\* fail_analysis itself raised: drain logs it and goes on.
FailureNotRecorded(w, v) ==
  /\ drain[w].phase = "analyzing"
  /\ v \in Held(w)
  /\ v \in drain[w].analyzed => AtScoring(w)
  /\ drain' = Dropped(w, v)
  /\ UNCHANGED <<stored, current, allowed, redacted, job, lastJob, analysis, lastAnalysis, canonical>>

\* The drain is cancelled or its process dies: its claims are forgotten.
Crash(w) ==
  /\ drain[w].phase # "idle"
  /\ drain' = [drain EXCEPT ![w] = Idle]
  /\ UNCHANGED <<stored, current, allowed, redacted, job, lastJob, analysis, lastAnalysis, canonical>>

CountDown(n) == IF n = 0 THEN 0 ELSE n - 1

Tick ==
  /\ \E v \in Versions : job[v].wait > 0 \/ job[v].lease > 0
  /\ job' = [v \in Versions |-> [job[v] EXCEPT !.wait = CountDown(@), !.lease = CountDown(@)]]
  /\ UNCHANGED <<stored, current, allowed, redacted, lastJob, analysis, lastAnalysis, canonical, drain>>

----------------------------------------------------------------------------
\* What a drain does by itself.
Progress(w) ==
  \/ ClaimNext(w)
  \/ \E v \in Versions : \/ Analyze(w, v)
                         \/ CompleteAnalysis(w, v)
                         \/ FailAnalysis(w, v)
                         \/ FailureNotRecorded(w, v)

Next ==
  \/ \E v \in Versions, latest \in BOOLEAN : PersistVersion(v, latest)
  \/ \E v \in Versions : BackfillJob(v)
  \/ \E d \in Reclassified : SyncSource(d)
  \/ \E old \in SUBSET {v \in stored \ redacted : DocOf[v] \in Media} : RedactBodies(old)
  \/ \E w \in Workers : Progress(w)
  \/ \E w \in Workers : Crash(w)
  \/ Tick

Spec == Init /\ [][Next]_vars

\* The daemon's interval job fires again and again and carries a batch through (a
\* model call ends in a result or a timeout); nothing is assumed of the others.
Fairness == WF_vars(Tick) /\ \A w \in Scheduled : WF_vars(Progress(w))

FairSpec == Spec /\ Fairness
----------------------------------------------------------------------------
(***************************************************************************)
(* Properties.                                                             *)
(***************************************************************************)

\* A job is completed exactly when its version has its one analysis: complete_analysis
\* never runs into the unique document_version_id of document_analyses, and no late
\* failure, link or sweep takes a job with an analysis out of "completed".
AnalysisMatchesJob ==
  \A v \in Versions :
    /\ job[v].status = "completed" <=> analysis[v] # 0
    /\ \A u \in Versions : analysis[u] = analysis[v] /\ u # v => analysis[v] = 0

\* A job is a duplicate exactly when it points to an analysis, and that analysis is
\* another version's own: links never form chains, cycles or dangling references.
DuplicateHasCanonical ==
  \A v \in Versions :
    /\ job[v].status = "duplicate" <=> canonical[v] # 0
    /\ canonical[v] # 0 => \E u \in Versions \ {v} : analysis[u] = canonical[v]

\* Once retention has replaced a body no claim can hand it to the model: the job of
\* the version is settled. (A version stored before there were jobs has none, and
\* backfill_jobs may still give it one.)
RedactedHasNoOpenJob ==
  \A v \in redacted \ Legacy : job[v].status \in Settled

\* As long as the row carries a drain's token, the drain holds the row's latest claim:
\* a result or failure is stored only for the attempt it belongs to.
LeaseMatchesClaim ==
  \A w \in Workers : \A v \in Held(w) : Current(w, v) => drain[w].claims[v] = job[v].attempts

SettledStep ==
  \A v \in Versions :
    /\ job[v].status \in Settled => job'[v] = job[v]
    /\ analysis[v] # 0 => analysis'[v] = analysis[v]
    /\ canonical[v] # 0 => canonical'[v] = canonical[v]

\* A completed, failed or duplicate job stays what it is, with its analysis or link:
\* no late drain, reclaim, re-fetch of the article or retention reopens it.
SettledForGood == [][SettledStep]_vars

\* Every job of a source that stays allowed is eventually settled, with drains
\* crashing, model calls failing and failures going unrecorded at any point.
EventuallySettled ==
  \A v \in Versions : job[v].status \in Open ~> job[v].status \notin Open \/ ~Eligible(v)

\* What docs/superpowers/plans/2026-07-27-ten-platform-data-coverage-implementation.md:796
\* says of the queue: one body is analysed once, whatever brought it in.
OneAnalysisPerContent ==
  \A u, v \in Versions :
    analysis[u] # 0 /\ analysis[v] # 0 /\ ContentOf[u] = ContentOf[v] => u = v

\* What docs/superpowers/specs/2026-07-20-ai-intelligence-delivery-design.md:12 implies
\* of it: a new version goes without an analysis only if its own content has one.
DuplicateHasSameContent ==
  \A v \in Versions : canonical[v] # 0 =>
    \E u \in Versions : analysis[u] = canonical[v] /\ ContentOf[u] = ContentOf[v]
=============================================================================
