# A verification project for the cross-border commerce intelligence agent

The program (`src/src/commerce_agent`) collects public notices and trade-press articles, stores
them as versioned documents, has a model analyse each version, scores and ranks the analyses, and
delivers daily reports, alerts and answers to one Feishu group. It is a single asyncio daemon with
several background jobs plus two administrative command lines, and all of them share one SQLite
database. What must not go wrong is therefore mostly a matter of leases, statuses and retries kept
in tables that several processes change at once, and of requests to services that can fail after
they have succeeded.

This directory holds TLA+ models of those parts, TLC configurations, and TLAPS proofs.
`PROJECT.json` lists, for every definition, the source lines it stands for; for every property,
the run that checks it and a plausible bug (a *mutant* definition in the module) that the run
catches; and every hazard we know of, covered or not.

## 1. Inventory

Paths are relative to `src/src/commerce_agent`.

| Component | Code | State | Operations | Status |
|---|---|---|---|---|
| Delivery outbox | `intelligence/repository.py` 774-1341, `intelligence/delivery.py`, `intelligence/reports.py` 430-515 | `delivery_outbox`, `daily_reports`, `group_bindings` | save and preview a report, queue it, queue alerts and answers, claim, send, mark sent, fail, skip, rebind the group | modelled but for report variants |
| Analysis queue | `intelligence/repository.py` 95-420, 1344-1460, `intelligence/service.py`, `persistence/ingestion.py` 340-520 | `analysis_jobs`, `document_analyses`, `analysis_duplicates`, current versions | store a version with its job, backfill, link duplicates, claim, analyse, complete, fail, redact, change compliance | modelled |
| Source runs | `ingestion/service.py` 250-528, `persistence/ingestion.py` 220-300 and 574-640 | `source_leases`, `source_health`, the validators a service remembers, stored items | check the circuit, claim, start a run, fetch, ingest items, finish, release, cancel | modelled except the rows of `fetch_runs` |
| Question answering | `integrations/feishu.py`, `intelligence/qa.py` | slots, pending tasks, locks, thread contexts, the closed flag | acknowledge, hand over, look up, lock, answer, queue, remember, cancel, close | modelled up to the row of the answer, without times; sending is in `DeliveryOutbox` |
| Alert queueing | `intelligence/repository.py` 1655-1847, `intelligence/reports.py` 517-636 | recent alert rows, the group's risk profile | find candidates, judge, compose messages, deduplicate, derive a requeue key, insert | modelled |
| Scoring | `intelligence/risk.py`, `intelligence/evidence.py` | none | pure functions | modelled |
| Report selection and retrieval | `intelligence/reports.py` 120-430, `intelligence/retrieval.py`, `intelligence/repository.py` | platforms of versions, the paged search | list and merge analyses of a report, search page by page, resolve platforms of older versions | modelled, see *Not modelled* |
| Daily schedule | `intelligence/scheduler.py`, `ingestion/pre_report.py` | jobs, running tasks, the day's report | 08:40 preparation, 09:00 sending, catch-up at start, hand commands, rebinding, stop | modelled for the default hour |
| Media retention | `ingestion/service.py` 184-242, `ingestion/snapshots.py` | snapshot files, `snapshot_path`, bodies | list, prune, redact | modelled; what redaction does to jobs is in `AnalysisQueue` |
| Official notices | `ingestion/email_notices.py`, `official_notices.py`, `manual_submissions.py` | the mailbox's seen flags, remembered UIDs, audits | poll, validate, submit by mail or by hand | modelled |
| Fetching | `ingestion/http.py` | run-wide circuit, semaphore, host limiter | validate, wait, send, retry, redirect, trip, cancel | modelled without addresses and DNS |
| Firecrawl client | `integrations/firecrawl.py` | semaphore, time of the last request | wait for a slot, post, retry | modelled without the documents |
| Building and closing | `runtime.py`, `ingestion_cli.py`, `intelligence_cli.py`, `ingestion/bootstrap.py`, both `scheduler.py` | open resources, jobs and answers at work | build, serve, interrupt, close | modelled |
| Collectors, extraction, URL and text handling, prompts, registry validation, configuration, command parsing | the rest | none that outlives a call | parsing, formatting, construction | not modelled: I/O and text processing |

How they interact. Source runs store versions (`persist_version`), which creates analysis jobs in
the same transaction. The analysis drain turns jobs into analyses; the retention job redacts bodies
and fails jobs. Reports and alerts read analyses and put rows into the outbox. The delivery job, the
question tasks and the admin command drain the outbox. `AsyncIOScheduler` runs each job with
`max_instances=1` but different jobs interleave at every `await`; the command lines are processes of
their own. A transaction is atomic (SQLite serialises writers), so an action of a model is one
transaction, one request to an outside service, or one local decision between two of them.

What makes it hard: leases that run out while their holder is still at work; answers that are lost
after the request had its effect; crashes between a send and its record; cancellation at the 08:55
deadline and at shutdown; state read in one transaction and used in the next (the circuit, the
binding, a report's status); two tables that must agree (report and row, job and analysis); retry
counts compared in several places with the same literal.

What makes each component correct is stated as its properties in section 3.

## 2. Modules

| Module | What it is |
|---|---|
| `DeliveryOutbox` | reports, outbox rows, workers, the Feishu service's uuid deduplication |
| `ReportPromise` | the abstract promise of a daily report: one content, shown at most once, recorded only after it was shown |
| `AnalysisQueue` | versions, jobs, analyses, duplicates, drains |
| `SourceRuns` | lease, circuit, validators, items and the calls on one source |
| `QaIntake` | message handlers, their slots and tasks, locks and thread contexts of questions |
| `RiskPolicy` | evidence scores, corroboration, risk floors and profiles, as operators |
| `AlertDedup` | candidates, messages, deduplication and rows of alerts (uses `RiskPolicy`) |
| `CorpusReads` | the report's selection and the search of a question over a changing corpus |
| `DailySchedule` | two days of the jobs around nine o'clock, with the process and the hand commands |
| `MediaRetention` | files, paths and bodies under overlapping retention passes |
| `NoticeIntake` | the mailbox, its polls and the submissions |
| `FetchPolicy` | the fetches of one run: semaphore, limiter, circuit, retries, redirects |
| `FirecrawlPacing` | the scrapes of one process |
| `Lifecycle` | opening and closing of the three programs with the work going on in them |
| `MC*` | instances for TLC; `MCBackground` holds the last eight state machines |
| `DeliveryOutbox_proofs`, `AnalysisQueue_proofs`, `SourceRuns_proofs`, `QaIntake_proofs` | theorems and TLAPS proofs about the module of that name |
| `Ingestion_proofs`, `Intelligence_proofs`, `Background_proofs` | the same about the machines of `MCBackground`, by the part of the program they belong to, and about their composition |
| `FiniteOrders` | induction over sets, orders, maxima and sequences, for the three before |

Conventions. Time is kept as *ticks still to run* (of a lease, of a retry delay): `deadline <=
now` in the code is `= 0` in the model, and no clock value has to be bounded. A lease token is a
fresh UUID per claim; because a worker holds at most one claim on a row at a time, the model names
the token by its holder; a crash forgets the claim and a reclaim changes the holder. Bodies,
hashes and payloads are model values: what the properties tell apart is only whether two are
equal. Definitions marked *Mutant* are the faulty variants; nothing in the specifications refers
to them.

`DeliveryOutbox`, `AnalysisQueue`, `SourceRuns` and `QaIntake` are the machines several processes
contend for, and have runs of their own. The other eight share no variable with each other.
`MCBackground` puts them side by side: a behaviour chooses one at its start and leaves the others
at their initial states, so the run's state space is their sum.

### DeliveryOutbox

`outbox` has one row per key (the unique `idempotency_key`), `report` the `daily_reports` rows,
`earlier` the order by `created_at, id`, `worker` what each delivery worker remembers,
`previewing` what a preview between its two transactions remembers, `visible` what the group has
seen per uuid. `SaveReport`, `MarkReportPreviewed`, `QueueReport`, `QueueMessage` are the writers
of `repository.py` (774-960); `ClaimNext`/`ClaimById` are `_claim_delivery` with its sweep;
`CheckBinding`, `SendAccepted`, `SendCardRefused`, `SendRefused` follow `_deliver` and
`FeishuDeliveryPort.send`; `MarkSent`, `FailDelivery`, `SkipDelivery` are the token-checked
updates; `Crash` forgets a claim in any phase. `SendAccepted` covers a lost answer: the group has
the message and the worker either learns of it or sees a transport error.

Assumed of Feishu: a message is shown once per uuid, however often it is requested, also after the
lease and all retry delays (external; the code passes the same uuid for that very purpose).

### AnalysisQueue

A version belongs to a document and has a content; `current` is the document's current version,
`allowed` the documents whose source is compliant. `ClaimNext` is `claim_next`: link duplicates,
sweep exhausted jobs, lease the oldest claimable one; the links and the sweep happen whether or not
anything is claimed. A drain claims up to `Limit` jobs, waits for every model call
(`AtScoring`), then completes or fails them one by one. `RedactBodies` is the retention update,
`BackfillJob`, `SyncSource` and `PersistVersion` are the other writers. The code reads the clock
once per drain where the model reads it at each claim.

### SourceRuns

One source and the calls that may be at it: the ingestion job and the pre-report pipeline of the
daemon, which share the remembered validators, and manual runs, which are processes of their own
and start without. A runner passes *checked*, *leased*, *running*, *ingesting*, *finishing* and
*releasing*; cancellation, exceptions and crashes leave it from each of them the way the `finally`
clauses do. `health` is the `source_health` row; its failure count is kept up to the threshold,
which is all the code compares it with. The server publishes revision after revision; a response
lists every item so far, and a conditional request with current validators is answered 304. That is
the behaviour of the feed and API collectors.

### QaIntake

A handler is one call of `_on_message` and the background task it becomes; its phases are the
awaits it can be at. An action is what the event loop runs between two awaits: `ReserveQaSlot`
(after `qa_available`), `Acknowledged` or `AcknowledgementFails` (the reply), `StartTask`,
`CheckActive`, `FindDelivery`, `AcquireLock`, `FindDeliveryAgain` (with the reading of the context),
`Answer` (retrieval and model), `QueueDelivery`, `RememberTurn`, `FinishTask`; `QueueFails` is an
exception at any of them. The SDK may deliver any message at any time, again and again. `Close`
cancels the tasks that exist, `Unwind` is the cancellation reaching one of them (a task that never
ran has no `finally` clause to reach; an insertion under way may be committed), and `Restart` is
the end of the process, which forgets everything but the rows. Left to choice: whether the
group is bound at each of the two checks, whether an answer passes its citation checks, whether
a context has outlived its ttl, and every failure.

### AlertDedup and RiskPolicy

`QueueDue` is `queue_due` with the transaction of `queue_alerts`: the analyses of the last 24 hours,
their judgement under the group's profile (`Assess` of `RiskPolicy`, with the risk floor of the
event type), verified high risks one by one and the rest as one batch, then every message against
the items of recent rows and of the messages before it, then the key, which is derived anew when
the same items were lost before, then the insertion, which a taken key swallows. In the code the
three reads are transactions; only the analysis job queues alerts and one at a time
(`max_instances=1`), so what others do between the reads could as well come before or after them.
`CompleteAnalysis`, `Withdraw`, `SetProfile`, `LoseAlert` and the clock are the others.

### CorpusReads

`BuildDraft` is what a report's `build` stores (platforms of the articles it lists), `Compose` which
articles it lists: one representative per event, an official one if there is any, ranked with the
platforms of everything said of the event, then cut. To the platforms of an article,
`list_report_analyses` adds those stored with the copies linked to its analysis
(`ReportPlatforms`), and ranks by the foremost of them: a copy from another source may change the
representative, the order and the cut. `LinkArticle` is a link of `_link_completed_duplicates`;
`MayBeCopy` allows every link the code can make, since it compares documents, whose content may be
that of a later version.
`StartSearch` and `SearchPage` are `CorpusRetriever.search`, one transaction per page, the platform
backfill of `list_corpus_candidates` included. `PersistArticle`, `CompleteArticle`,
`LinkArticle`, `WithdrawArticle`, `RedactArticle` and `SyncRegistry` are the writers that come between. Freshness
falls with age, so it orders results as their times do and is no part of `ResultKey`.

### DailySchedule

The clock is in phases: day, night, from 08:40, and from 08:59 to nine. A window goes from nine to
nine, and its report is a row per group. The cron jobs fire with the clock; each reads the bound
group and its date once, when it starts, and a preparation does not start while one still runs
(`max_instances=1`). `EndCollect`, `SavePreview`, `MarkPreview` are the pipeline
of `pre_report.py`: the collection ends at its deadline at the latest, the drain may run over
08:59 with its last batch. `Start` fires the catch-up between nine and midnight. `troubled` is a
history of the windows the property does not promise anything about.

The code, as it stands: APScheduler's `misfire_grace_time` is left at one second
(`scheduler.py:140`), so a firing noticed later is dropped (`Misfire`). `daily_hour` may be 0 to
23 but the window always ends at nine (`scheduler.py:118`): the model has the default. A
preparation that runs over nine leaves the 09:00 job with `daily_report_not_prepared`. A preview
made by hand earlier in the day is sent as it was if the preparation fails. A group that binds the
bot between 08:40 and 09:00 gets no report that day, nor does the old one.

### MediaRetention

A pass is `ListPaths`, `PruneFiles`, `RedactBodies`; each may fail, pruning also after some of its
files, and the process may end between them. `Due` is which files are pruned: temporary ones by
date, those from before files were named by their kind (*legacy*) if this process's registry calls
their source media, and what was listed. `Dated` is the moment a file is taken to be from: of a
legacy file only the day is known, and the code takes its start (`snapshots.py:201-204`,
`test_legacy_snapshot_uses_utc_day_start_as_fail_safe_timestamp`), so such a file may go up to a day
before its version expires. `ClearedPaths` is empty unless both earlier steps succeeded. Every
process that starts runs a pass, so passes overlap. Each has a registry of its own
(`mediaRegistry`): by it `SaveSnapshot` names a file temporary or archive, and `SyncSources` makes
the database follow it, so a file may be an archive of a version that has become media since. The
time a file is named by is the `fetched_at` of its version; both are `savedOn`.

### NoticeIntake

`FetchUnseen` fetches whole messages, which flags them `\Seen` on the server, whatever happens to
them afterwards; `PassOver` and `Accept` judge them one by one; `SubmitMail` and `Audit` are the
two transactions of a submission, `SubmitByHand` the same for a message of the group (one of a
notice at a time: two at once store one version and write two audits, as two in turn do).
`AbandonPoll` is any statement raising; `Restart` forgets the remembered UIDs.

### FetchPolicy

A fetch is at one of the awaits of `get`: validation, the semaphore, the host's lock, the pace,
the answer, the backoff. The circuit is asked after validation, after the semaphore and after the
pace. `CancelFetch` is the 08:55 deadline reaching it at any of them; the context managers give
permit and lock back. What an answer is (final, forbidden, to be retried, exhausted, a redirect to
any host) is a choice.

### FirecrawlPacing

`AwaitSlot` reads the time left since the last request, `EndSpacing` sends when the sleep is over
without reading it again. A scrape keeps its permit over the sleep, the request and the delay of a
retry; `Retry-After` is slept in full, however long, so a retry may come at any time.

### Lifecycle

`open` is built in the order of `OpenedAt` and closed in the order of `ClosedAt`, which is the same
list for the three programs, each with the parts it has. `BuildFails` and `Leave` lead to the
closing; `StartClosing` and `FinishClosing` are the request and the end of one `aclose`,
`ClosingRaises` its failure, which is kept while the next one is closed. `Begin` and `Finish` are
jobs of a scheduler or answers of the adapter; a closing scheduler cancels its jobs and waits for
them, the adapter waits a second at most.

As the code stands: the intelligence command catches `Exception` only, so a Ctrl-C at work walks
past its `aclose` (`intelligence_cli.py:213`), which `NothingLeftOpen` names. Answers that the
adapter has cancelled and waited a second for may still reach a database that is closed
(`feishu.py:189-201`; a test keeps the wait bounded). So may its foreground handlers, whose commands
are answered inside the handler (`feishu.py:103-104`): `close` neither lists nor cancels them, and
they are not workers of the model. Only one Ctrl-C
is modelled: a second one raises `KeyboardInterrupt` wherever the event loop is.

## 3. Runs

| Run | Instance | Properties | States |
|---|---|---|---|
| `outbox_safety` | a report and a message to one group, two groups, the delivery job, an admin worker, a previewer; two contents, one refused as a card; lease 1, two attempts | `TypeOK`, `ReportRowAgreement`, `OneVisibleMessage`, `SentIsVisible`, `LeaseMatchesClaim`, `SettledForGood`, `KeepsReportPromise` | 1.4 million |
| `outbox_liveness` | the same with one content | `EventuallySettled` | 0.3 million |
| `analysis_safety` | two revisions of one document and a copy of the first in another, a media source, two drains of two jobs | `TypeOK`, `AnalysisMatchesJob`, `DuplicateHasCanonical`, `RedactedHasNoOpenJob`, `LeaseMatchesClaim`, `SettledForGood` | 0.8 million |
| `analysis_liveness` | two copies, one of them stored before there were jobs | `EventuallySettled` | 27 thousand |
| `analysis_copies` | two copies of one body | `OneAnalysisPerContent` is violated | |
| `analysis_revisions` | two revisions of one document | `DuplicateHasSameContent` is violated | |
| `sources` | the ingestion job and a manual run, two revisions; lease 2, threshold 2 | `TypeOK`, `LeaseUntilOverrun`, `SuspendedAtThreshold`, `SuccessStoredAll`, `LeakedLeaseComesBack` | 0.6 million |
| `sources_suspended` | ingestion job and a manual run, threshold 3 | `SuspendedIsNotFetched` is violated | |
| `sources_missed` | the ingestion job alone | `HealthyIsUpToDate` is violated | |
| `qa_intake` | three handlers, two questions of one thread and an AI test, two slots, contexts of one turn | `TypeOK`, `SlotsMatchWork`, `ClosedTasksAreCancelled`, `AnsweredOnce`, `ContextHoldsAnswers`, `SlotComesBack` | 0.15 million |
| `background` | the machines of `MCBackground`, bounds below | `BackgroundTypeOK`, `AlertedOnce`, `NoAlertSwallowed`, `ReportTops`, `SearchMatches`, `DayIsReported`, `ForgottenPathHasNoFile`, `ArchiveIsKept`, `MailSubmittedOnce`, `PermitsAccounted`, `NoSendAfterTrip`, `SpacedStarts`, `WorkHasItsMeans`, `NothingLeftOpen` | 0.7 million |
| `late_material` | one material over two days, one group, nothing by hand | `LateGoesIntoNext` is violated | |

Why the bounds are enough. Two workers are what a stale claim and its successor need; a third only
repeats one of the two. Two attempts make every branch of the retry rule happen (a retry, a last
attempt, an exhausted reclaim); the code's four attempts of a delivery lengthen the chain with the
same comparison (an analysis really has two). One tick of lease makes every "expired while at
work" interleaving possible because `Tick` may come between any two steps, and `sources` takes two
so that "half run down" exists. Three versions are the least with a revision, a copy and a job
that waits for another. Two contents of a report are what a drift needs. Three handlers and two
slots are two deliveries of one question, or two questions of a thread, with one more message that
finds no slot; a context of one turn has to drop one as soon as a second is remembered. The
theorems of section 5 hold for all these numbers.

The bounds of `background`, machine by machine:

| Machine | Bounds | What they have to contain |
|---|---|---|
| alerts | two copies of an article and a third on the same event with another content and a higher risk; 24 hours are 2 ticks, the clock goes to 2, two rows | a day boundary inside the window, a lost row and its successor, a rise of the risk, a message that loses items |
| reads | three articles (one from before platforms were kept), two of one event that are copies of one body; reports of one item, pages of two, two results; two registries | more events than the report holds, a press article above the official one of its event, a copy whose platform lifts its event over another, two pages with writers between them, a full result |
| schedule | one material, two windows, two groups (symmetric), the first window also by hand | a catch-up over a late preparation, a preview by hand before the job, a takeover between two jobs |
| retention | a legacy version and a new one, two runners, two registries (everything is media or nothing is); one day of retention, days of two ticks, the clock goes to 4 | a legacy file dated by its day and deleted early, a temporary file deleted, an archive deleted because its version became media, a pass over the other's files, a version that becomes media between list and redaction |
| notices | two mails with the same notice and one that is refused; one submission by hand, one restart | a poll that fails with accepted mails in hand, a restart before the next poll |
| fetches | two fetches of two sources over two hosts, two permits, one retry, one redirect | a fetch waiting at a host while another trips it, a redirect into a tripped host |
| scrapes | two scrapes, one permit, interval 2, two requests each | a sleep inside which the other waits, a retry |
| lifecycle | the three programs, each with all its optional parts or none | every part failing, every closing raising, jobs starting while others are closed |

In the alert machine a row more, or in the schedule a material more, would multiply the run; the properties of all eight are proved without bounds.

Deadlock is checked in every run but `background` and `late_material`: their machines may really
stop, because a clock at its bound, a fetch that has ended or a program that has closed does
nothing more.

What the properties say, in short:

* `ReportRowAgreement`: a report has its row from the moment it is queued, both are sent together,
  and the contents agree; the two internal errors of `queue_report` and `mark_delivery_sent` never
  fire.
* `OneVisibleMessage`, `SentIsVisible`: at most one message per key, with the row's content; a sent
  row has been seen.
* `KeepsReportPromise`: `DeliveryOutbox` implements `ReportPromise`, through the mapping in the
  module (a report is committed when its row exists, shown when any uuid of it is visible).
* `LeaseMatchesClaim` (outbox and analysis): while a row carries a worker's token, what the worker
  remembers (attempt, content) is what the row says.
* `SettledForGood` (outbox): no late worker, sweep or save changes a settled row; only an explicit
  requeue reopens a failed or skipped report. In the analysis queue: a settled job stays settled.
* `AnalysisMatchesJob`, `DuplicateHasCanonical`, `RedactedHasNoOpenJob`: job status, analyses, links
  and redacted bodies agree.
* `LeaseUntilOverrun`: runs of a source overlap only once the elder has outlived its lease, and its
  late release leaves the younger lease alone.
* `SuspendedAtThreshold`: the circuit is open exactly when the failure count has reached the
  threshold, whatever mixture of results brought it there.
* `SuccessStoredAll`: a run recorded as a success has stored every item it was served.
* `SlotsMatchWork`, `SlotComesBack`: the slots in use are the questions being acknowledged or
  answered, and every question gives its slot back. (A task cancelled before its first step keeps
  its slot; the adapter is closed by then.)
* `ClosedTasksAreCancelled`: no handler that was awaiting a reply when `close` took its list
  starts a task afterwards.
* `AnsweredOnce`, `ContextHoldsAnswers`: deliveries of one question that overlap ask the model one
  at a time and only while there is no answer; a thread remembers a turn once, and only after its
  grounded answer was queued.
* `AlertedOnce`: within 24 hours an event is alerted again only with a higher risk or with another
  document of another content, whatever mixture of single alerts, batches, requeued rows and
  profile changes led there.
* `NoAlertSwallowed`: when alerts are queued, everything worth an alert is spoken for by rows
  that can still reach the group, one with its version or content and one with its risk: no taken
  key drops it. One case is excepted and named
  (`CopyWasLost`): the key of a lost alert also swallows the alert of a copy of the same article,
  since it is made of the content while the items that find the lost row are compared with their
  version.
* `ReportTops`: a report has each event once, by the highest of its analyses (of its official ones,
  if it has any), fills its places in order, and leaves out no event that ranks above one it lists;
  an event ranks with the platforms of all its analyses and of their linked copies.
* `SearchMatches`: a search names nothing twice and misses nothing that matched from its first
  page to its last, although every page is a transaction of its own and stores platforms itself.
* `DayIsReported`: by midnight the day's report is queued, unless one of the day's jobs did not run,
  failed, ran over nine or was split by a takeover, and nobody started the process again that day.
* `ForgottenPathHasNoFile`, `ArchiveIsKept`: a pass forgets no listed path whose file is still
  there (an archive could never be found again), and deletes nothing that never was media or is
  not old enough. A legacy file may go less than a day early, because the code knows only its day.
* `MailSubmittedOnce`: a notice has at most as many audits by mail as mails that carry it, also
  after restarts. Nothing says a mail is submitted *at least* once: see section 4.
* `PermitsAccounted`, `NoSendAfterTrip`: no end of a fetch leaks a permit or a host's lock, and no
  request goes out once the run's circuit has opened for its host or source.
* `SpacedStarts`: with one permit, requests to Firecrawl start an interval apart. With more
  permits (`firecrawl_max_concurrency` may be up to 8) the code does not guarantee it, and the
  property says so.
* `WorkHasItsMeans`: a job of a scheduler does not outlive the clients and the database it runs
  on, not even when it is cancelled, unless the wait for it was interrupted; nor does an answer that
  is not cancelled. Nothing is said of answers the adapter has cancelled, which it awaits for a
  second only, nor of foreground handlers, which are not modelled.
* `NothingLeftOpen`: whatever fails, an ended program has tried to close all it opened, the
  interrupted intelligence command apart.
* `EventuallySettled` (outbox and analysis), `LeakedLeaseComesBack`: crashes, failures and leaks are
  recovered from.

## 4. Findings

Five runs show a disagreement between what the repository says and what the code does; each is a
short trace that TLC prints.

* `analysis_copies`: two copies of one body may both be analysed, because a copy in `retry_wait`
  does not hold back a later one (`repository.py:130`).
* `analysis_revisions`: the duplicate test compares with the hash of the document's *current*
  version, so a job for one revision can be linked to the analysis of another (`repository.py:262`).
* `sources_suspended`: the circuit is checked before the lease is claimed and never again, so a
  source suspended in between is fetched by a scheduled run (`ingestion/service.py:277`).
* `sources_missed`: validators are remembered before the items are ingested, so a failed item is
  not served again: the next request is answered 304 and recorded as a success
  (`ingestion/service.py:432`).
* `late_material`: a report lists what was *fetched* in its window and is frozen before nine, so
  what is fetched in time and analysed late is in neither its own report nor the next
  (`repository.py:582`).

Met while modelling and not stated as runs:

* Reports list no duplicate whose canonical analysis belongs to a source that has been denied
  (`repository.py:581`); a delivery already past its binding check reaches a group that is unbound
  meanwhile (`delivery.py:483`). Nothing in the repository contradicts either.
* A mail that was fetched and whose poll then failed is flagged `\Seen` by the fetch itself and is
  never polled again: its notice is lost (`email_notices.py:153`; the data-coverage plan, line
  762, wants its UID remembered only after it was stored). `MailSubmittedOnce` therefore bounds
  submissions from above only.
* The audit of a submission by hand is written after the version (`manual_submissions.py:138`): a
  failure between leaves a version without one.
* The context of a thread is stamped with the clock read before the model call (`qa.py:195`).
* `run_all` raises the first source's exception after the others have ended; `IngestionScheduler`
  cancels its jobs at once, where the design of the ingestion promises in-flight writes a limited
  time (`docs/superpowers/specs/2026-07-20-source-ingestion-design.md:212`).

## 5. Proofs

The proof modules prove for every value of the constants allowed by the modules' assumptions (any
sets of keys, workers, versions and runners, any lease, delays, attempts and thresholds):

* `DeliveryOutbox_proofs`: type correctness, `ReportRowAgreement`, `OneVisibleMessage`,
  `SentIsVisible`, `LeaseMatchesClaim`, the action property `SettledForGood`, and the refinement
  `KeepsReportPromise`.
* `AnalysisQueue_proofs`: type correctness, `AnalysisMatchesJob`, `DuplicateHasCanonical`,
  `RedactedHasNoOpenJob`, `LeaseMatchesClaim`, `SettledForGood`.
* `SourceRuns_proofs`: type correctness, `LeaseUntilOverrun`, `SuspendedAtThreshold`,
  `SuccessStoredAll`.
* `QaIntake_proofs`: type correctness, `SlotsMatchWork`, `ClosedTasksAreCancelled`, `AnsweredOnce`,
  `ContextHoldsAnswers`.
* `Ingestion_proofs`, the machines of `ingestion/`: of `MediaRetention` type correctness,
  `ForgottenPathHasNoFile` and `ArchiveIsKept`; of `FetchPolicy` type correctness,
  `PermitsAccounted` and `NoSendAfterTrip`; of `FirecrawlPacing` type correctness and
  `SpacedStarts`; of `NoticeIntake` type correctness and `MailSubmittedOnce`.
* `Intelligence_proofs`: of `RiskPolicy`, that an event reported by one media publisher alone is
  verified for no profile, through however many of its feeds it comes, and that profiles are
  nested; of `AlertDedup` type correctness, `AlertedOnce` and `NoAlertSwallowed`; of `CorpusReads`
  type correctness, `ReportTops` and the action property `SearchMatches`.
* `Background_proofs`: of `DailySchedule` type correctness and `DayIsReported`; of `Lifecycle` type
  correctness, `WorkHasItsMeans` and `NothingLeftOpen`; of the composition `MCBackground`, that it
  implies the specification of each of its eight machines, so that their theorems are theorems
  about the run `background`, and `BackgroundTypeOK`.
* `FiniteOrders`: what the last three use of numbers, finite sets, orders and sequences.

Every state machine has one inductive invariant (`IInv`, or `AlertIInv`, `ReadIInv` and so on where
one module holds several), proved from `Init`, kept by one lemma per action (or group of actions),
and made a temporal theorem; the properties follow from it.
`PermitsAccounted` is inductive together with its types; none of the other checked invariants is.
What had to be added, and why:

* Outbox. `RowShape`: a row has a holder exactly while it is *sending*, a rescheduled row has an
  attempt left, only a waiting row has a delay; without it a sweep could not be told from a retry.
  `ClaimShape`: a worker's payload is its row's, a worker in the text fallback has a refused card,
  an accepted one has made something visible, and the attempt it remembers is the row's as long as
  the row carries its token. `VisibleShape`: what is visible has the row's content, and under the
  text uuid exactly if the card is refused, which is why card and text are never both visible:
  whether a card is refused depends on its content alone, and the content never changes once
  shown. `ReportShape` and `PreviewShape` tie the pending preview to a saved report. The
  refinement theorem maps `Init` to `Init` and each action to a step of `ReportPromise` or a
  stutter, one lemma per action that touches a report's row or what is visible.
* Analysis. `JobShape` as above; `ClaimShape`: a drain's claim number is the job's attempt count
  while it holds the lease; `AnalysisShape`: analysis ids are handed out in order, without which a
  link could come to name an analysis stored later under the same id.
* Source runs. `LeaseAges`: remaining lease and age of its holder add up to the whole lease, so a
  lease that can be reclaimed has a holder that outlived it. `ItemsStored` follows a run's items
  one by one, also while other runs of the source store and fail the same ones.
* Questions. `LocksMatchWork`: a lock is held by exactly the handler that is past it, from which
  two handlers past the lock have two questions; `Unanswered` and `ToRemember` carry what the
  second look-up found up to the insertion and to the turn. `CancelledTasks`: only tasks of a closed
  adapter are cancelled, so the one path that keeps its slot is one of a closed adapter. The slot
  count is an argument about the cardinality of `Busy`: each step adds one handler, removes one, or
  neither.
* Retention. `PassOK`: what a pass has listed has been media and is older than its cutoff, the
  cutoff has passed, and once a pass has pruned without a failure its listed files are gone (the day
  of a file starts no later than the file: `DatedOK`, which also bounds how early a legacy file goes).
  It must hold while *other* passes prune and redact. `FilesOK`: a version is saved once, so no file
  that is gone comes back, and a temporary one belongs to a source that has been media, although the
  registry that named it may be another than the database's.
* Fetches. The sum of free permits and holders, as for the question slots: every step moves one
  fetch between two stages, and the free permits by what the two differ in.
* Scrapes. `AloneOK` (with one permit whoever holds it is alone), and `SpacingOK`: the ticks a
  sleeper still sleeps and those since the last request make up the interval. `AttemptsOK` bounds
  the requests.
* Lifecycle. `MeansAround`: what a worker needs is opened before it and closed after it. From it
  `MeansOK` (an open worker not yet asked to close has its means), `ClosingOK` (so has the one
  being closed, which is no means of those that come later) and `WorkOK` (what runs belongs to an
  open worker, and a closed scheduler has nothing left).

* Notices. `FlightOK`: what a poll holds are flagged mails, each once, either fetched or accepted and
  not both; between two polls nothing is held and no audit by mail is owed. `Counted`: for each notice, the audits by mail,
  and the one still to be written are no more than the flagged mails that carry it and are in no
  poll's hands; a poll that is cut off only lets mails out of its hands. `MailSubmittedOnce`
  alone says nothing about a mail that is fetched and not yet submitted.
* Alerts. `KeyFits`: what a row's key says of it, either a key of its items and its day or
  *requeued* with the number of an earlier row that says the same. With it two rows of one key
  have the same items or (a lost row of the same content) are the case `CopyWasLost`. `OnceIn` is
  `AlertedOnce` of any sequence of rows, so that it can be carried row by row through the fold of
  `Inserted`, and `SingleIsHigh` keeps single alerts apart from batches. Within the fold of
  `Deduplicated` the lemma says what the accumulated items are: those of the recent rows and of all
  messages let through so far.
* Reads. `IdsInOrder`: ids are given in order, each once, only to stored articles, so two articles
  never rank equal. `SearchSound`: everything ranked lies on a page behind (its key is not below the
  last key read), and whatever has matched since the first page lies ahead, is ranked, or is beaten
  by a full result. An article beaten once stays beaten, which is an argument about cardinality: a
  ranking that drops one of `MaxResults` better articles has found as many still better ones.
  `FoundAgain`: resolving the backlog of platforms takes no match away. `ReportTops` needs no
  history: it holds of any state whose ids are in order, because a finite set in a total order has
  a first element and the representatives of two events are different articles.
* Schedule. `OnTime` is the plan of an untroubled window: from 08:40 its preparation is due, runs or
  has left a preview; at nine its send is due with the preview ready, or a catch-up is due or
  runs, or the report is queued; past nine it is queued. `JobsOK` ties what is due to its phase.

Proof attempts found two mistakes, both in what was written down and not in the program.
`NoAlertSwallowed` had asked for *one* live row that covers an item; with the levels of three
versions rising and falling there need not be one, when one row has the item's content and another
its risk. The code compares an item with the items of all recent rows: the property now does, too. And `ReportTops` could not be proved
of a ranking by an article's own platforms, because there is none in the code: `_preferred_event_item`
gives the representative the platforms of all the event's analyses, each with those of its linked
copies, before `compose` ranks it. The module has that as `EventKey`.

Two notes on the method. The library's induction theorems take an operator as parameter, which no
prover here can instantiate. Where an induction is over numbers or finite sets, `FiniteOrders` states
it for a *set* that holds 0 and successors (or the empty set and sets grown by one element) and
derives it from the well-foundedness theorems, which have no such parameter; that is how maxima,
sorted sequences and the folds of `AlertDedup` are reasoned about. And sorting is specified in
`CorpusReads` as the choice of a sequence that lists a set in a given order (`Ordered`); the proof
shows that there is one.

The assumptions on constants are named in the modules (`ConstantsAssumption`, `QueueAssumption`,
`RunsAssumption`, `IntakeAssumption`, `RetentionAssumption`, `FetchAssumption`,
`FirecrawlAssumption`, `NoticesAssumption`, `AlertsAssumption`, `ArticlesAssumption`,
`ScheduleAssumption`): disjoint roles, positive lengths, as many retry delays as there
are retries, finitely many versions (for the lowest analysis id among the candidates), handlers,
fetches and scrapes (for the counts), articles and platforms with numbers for what they are ranked
by. TLC evaluates them in every run. Analyses, workers and tokens are otherwise unconstrained.

Only model-checked: the liveness properties (`EventuallySettled` of both queues,
`LeakedLeaseComesBack`, `SlotComesBack`), which rest on fairness and `ENABLED`, out of the prover's
reach. Every invariant, action property and refinement that a passing run checks has its theorem.

## 6. Fairness

`DeliveryOutbox` and `AnalysisQueue`: weak fairness of `Tick` (time passes), and of what the
daemon's interval jobs do (`minutes=1` and `minutes=5`, `scheduler.py:103-113`): the job fires
again and again and, with a claim in hand, takes its next step, since every request has a timeout
and every exception is caught by the job. Nothing is assumed of operators, question tasks, the
outside services' answers, or crashes, which may happen at any step as often as they like.
`SourceRuns`: weak fairness of `Tick` and of each call's own steps, and strong fairness of
`ClaimSource` for scheduled calls: a call is not cancelled every single time in the moment between
the circuit check and the claim, because the pre-report deadline comes a quarter of an hour after
the pipeline's start and a shutdown ends the daemon. `QaIntake`: weak fairness of each handler's
own steps (the event loop runs what is ready, and requests return or time out) and strong fairness
of `AcquireLock`, since `asyncio.Lock` serves its waiters in turn; nothing of messages, closing
and restarts. The machines of `MCBackground` are checked for safety only and state no fairness.

## 7. Not modelled

* *Collectors, extraction, deduplication of URLs and bodies, registry validation, the analyzer's
  prompts and schema checks, command parsing, configuration, cards.* Text in, values out: nothing
  they do outlives a call, and the modules take their results as choices or model values.
* *`queue_report_variant`*: its rows are deliveries under keys of their own, already a message of
  `DeliveryOutbox`.
* *`fetch_runs` rows*: written and never read back by the program.
* *Times of thread contexts*: whether an entry has outlived its ttl is a choice.
* *`CorpusReads`*: the source references that linked copies add to an item, which are only shown
  (the platforms they add rank it, and are modelled), the coverage table
  (`list_coverage` only reads), and the time range and region of a question.
* *`daily_hour` other than nine*, and the jobs of five minutes and one minute inside
  `DailySchedule`: they are actions of the other modules.
* *Addresses, DNS and the pinned transport* of `http.py`: a URL is valid or refused.
* *Foreground handlers* of the adapter in `Lifecycle`: commands other than questions are answered
  inside the handler, which nothing lists, so nothing can be said of when they end.
* *Liveness of fetches, scrapes and closing*. A fetch ends because retries, redirects and delays
  are bounded (`http.py:34` caps `Retry-After` at a minute); that is not checked. Firecrawl's
  `Retry-After` is slept in full and a closing may hang in a client: the code bounds neither.

What would come next: the machines of `MCBackground` joined to the queues they feed (retention with
`AnalysisQueue`, the schedule with `DeliveryOutbox`), and an abstract promise of the analysis queue
as `ReportPromise` is one of the outbox.

## 8. How to run

`tlc -config DeliveryOutbox_safety.cfg MCDeliveryOutbox` (and likewise for the other pairs in
`PROJECT.json`), `tlapm DeliveryOutbox_proofs.tla`. With two workers no run takes more than about three
minutes; each proof module is checked in a few minutes at most.
