--------------------------- MODULE DeliveryOutbox ---------------------------
(***************************************************************************)
(* The delivery outbox of src/src/commerce_agent: the delivery_outbox and  *)
(* daily_reports tables of intelligence/repository.py, the DeliveryWorker  *)
(* and FeishuDeliveryPort of intelligence/delivery.py, and the report      *)
(* commands of intelligence/reports.py that put rows there.                *)
(*                                                                         *)
(* An action is one database transaction, one read, or one request to the  *)
(* Feishu service; everything between two of them may interleave with the  *)
(* other workers (the delivery job of the daemon, the question-answering   *)
(* tasks and the admin command line share one SQLite file).                *)
(*                                                                         *)
(* Time: a deadline is kept as the number of ticks still to run, so        *)
(* "deadline <= now" is "= 0" and no clock value has to be bounded.        *)
(***************************************************************************)
EXTENDS Naturals, Sequences, FiniteSets

CONSTANTS
  Reports,      \* official daily reports, one per (group, date): key daily:<group>:<date>
  Messages,     \* the other idempotency keys: alerts, answers, test and correction reports
  Payloads,     \* message contents
  CardRefused,  \* contents whose card Feishu answers with a format error
  Groups,       \* chat groups
  GroupOf,      \* the group a key is addressed to (NoGroup when the column is NULL)
  Drainers,     \* delivery jobs of the scheduler: DeliveryWorker.drain
  Senders,      \* callers of DeliveryWorker.send_id: admin commands, answer tasks
  Previewers,   \* callers of DailyReportService.preview
  LeaseTicks,   \* lease_seconds, in ticks
  RetryDelays,  \* RETRY_DELAYS, in ticks
  MaxAttempts,  \* the literal 4 of the claim query
  NoGroup, NoPayload, NoWorker, NoKey, NoReport

Keys    == Reports \cup Messages
Workers == Drainers \cup Senders
Uuids   == {"key", "key:text"}      \* _delivery_uuid without and with the ":text" suffix

ASSUME ConstantsAssumption ==
  /\ Reports \cap Messages = {}
  /\ Drainers \cap Senders = {}
  /\ CardRefused \subseteq Payloads
  /\ GroupOf \in [Keys -> Groups \cup {NoGroup}]
  /\ LeaseTicks \in Nat \ {0}
  /\ MaxAttempts \in Nat \ {0}
  /\ RetryDelays \in Seq(Nat \ {0})
  /\ Len(RetryDelays) = MaxAttempts - 1
  /\ NoGroup \notin Groups
  /\ NoPayload \notin Payloads
  /\ NoWorker \notin Workers
  /\ NoKey \notin Keys
  /\ NoReport \notin Reports

VARIABLES
  report,      \* daily_reports rows: status and report_payload
  closed,      \* reports whose window has ended
  previewing,  \* reports saved by a preview that has not yet marked them previewed
  outbox,      \* delivery_outbox rows
  earlier,     \* pairs of keys in (created_at, id) order
  worker,      \* what each worker holds in memory: its claim and how far it is
  visible,     \* external: the message the group sees under each uuid
  active       \* the one active group binding

vars == <<report, closed, previewing, outbox, earlier, worker, visible, active>>

----------------------------------------------------------------------------
ReportStatus == {"none", "draft", "previewed", "queued", "sent"}
RowStatus    == {"absent", "pending", "sending", "retry_wait", "sent", "failed", "skipped"}
Unsettled    == {"pending", "sending", "retry_wait"}
Phase        == {"idle", "claimed", "bound", "unbound", "fallback", "accepted", "refused"}

Row == [status : RowStatus, attempts : 0..MaxAttempts, wait : Nat, lease : 0..LeaseTicks,
        holder : Workers \cup {NoWorker}, payload : Payloads \cup {NoPayload}]

Claim == [phase : Phase, key : Keys \cup {NoKey}, attempt : 0..MaxAttempts,
          payload : Payloads \cup {NoPayload}]

NoRow == [status |-> "absent", attempts |-> 0, wait |-> 0, lease |-> 0,
          holder |-> NoWorker, payload |-> NoPayload]

Idle == [phase |-> "idle", key |-> NoKey, attempt |-> 0, payload |-> NoPayload]

TypeOK ==
  /\ report \in [Reports -> [status : ReportStatus, payload : Payloads \cup {NoPayload}]]
  /\ closed \subseteq Reports
  /\ previewing \in [Previewers -> Reports \cup {NoReport}]
  /\ outbox \in [Keys -> Row]
  /\ earlier \subseteq Keys \X Keys
  /\ worker \in [Workers -> Claim]
  /\ visible \in [Keys -> [Uuids -> Payloads \cup {NoPayload}]]
  /\ active \in Groups \cup {NoGroup}

Init ==
  /\ report = [r \in Reports |-> [status |-> "none", payload |-> NoPayload]]
  /\ closed = {}
  /\ previewing = [p \in Previewers |-> NoReport]
  /\ outbox = [k \in Keys |-> NoRow]
  /\ earlier = {}
  /\ worker = [w \in Workers |-> Idle]
  /\ visible = [k \in Keys |-> [u \in Uuids |-> NoPayload]]
  /\ active = NoGroup

----------------------------------------------------------------------------
(***************************************************************************)
(* Rows: how the update statements change one.                             *)
(***************************************************************************)
Present == {k \in Keys : outbox[k].status # "absent"}

\* A row as it is inserted, or reset by queue_report: due at once.
Pending(p) == [status |-> "pending", attempts |-> 0, wait |-> 0, lease |-> 0,
               holder |-> NoWorker, payload |-> p]

\* The row leaves "sending": every such update clears the lease columns.
Released(row, status, wait) ==
  [row EXCEPT !.status = status, !.wait = wait, !.lease = 0, !.holder = NoWorker]

\* Mutant: the sweep forgets to look at the status.
ExhaustedAnyStatus(row) == row.lease = 0 /\ row.attempts >= MaxAttempts

Exhausted(row) == row.status = "sending" /\ row.lease = 0 /\ row.attempts >= MaxAttempts

\* Mutants of the claim query's due clause: one attempt too many, one too few.
DueOneMore(row) ==
  \/ row.status = "pending"
  \/ row.status = "retry_wait" /\ row.wait = 0
  \/ row.status = "sending" /\ row.lease = 0 /\ row.attempts <= MaxAttempts
DueOneLess(row) ==
  \/ row.status = "pending"
  \/ row.status = "retry_wait" /\ row.wait = 0
  \/ row.status = "sending" /\ row.lease = 0 /\ row.attempts < MaxAttempts - 1

Due(row) ==
  \/ row.status = "pending"
  \/ row.status = "retry_wait" /\ row.wait = 0
  \/ row.status = "sending" /\ row.lease = 0 /\ row.attempts < MaxAttempts

\* The first statement of a claim: expired leases with no attempt left fail.
Swept == [k \in Keys |-> IF Exhausted(outbox[k])
                         THEN Released(outbox[k], "failed", 0) ELSE outbox[k]]

\* Mutant: a reclaim keeps the token the row already has.
LeasedSameToken(row, w) ==
  [row EXCEPT !.status = "sending", !.attempts = @ + 1, !.wait = 0, !.lease = LeaseTicks,
              !.holder = IF @ = NoWorker THEN w ELSE @]

Leased(row, w) == [row EXCEPT !.status = "sending", !.attempts = @ + 1, !.wait = 0,
                              !.lease = LeaseTicks, !.holder = w]

\* created_at = now: k becomes the newest row.
MovedLast(k) == {pair \in earlier : pair[1] # k /\ pair[2] # k}
                  \cup {<<j, k>> : j \in Present \ {k}}

----------------------------------------------------------------------------
(***************************************************************************)
(* Daily reports.                                                          *)
(***************************************************************************)

\* The clock passes 09:00 of the report's date.
CloseWindow(r) ==
  /\ r \notin closed
  /\ closed' = closed \cup {r}
  /\ UNCHANGED <<report, previewing, outbox, earlier, worker, visible, active>>

\* Mutant: a queued report is saved over, as a previewed one is.
MaySaveOverQueued(r, p) == report[r].status # "sent"

\* save_report refuses a sent report, and a queued one with another content.
MaySave(r, p) ==
  /\ report[r].status # "sent"
  /\ report[r].status = "queued" => report[r].payload = p

\* preview, first transaction: save_report with whatever build composed.
SaveReport(v, r, p) ==
  /\ previewing[v] = NoReport
  /\ MaySave(r, p)
  /\ report' = [report EXCEPT ![r] = [status  |-> IF @.status = "none" THEN "draft" ELSE @.status,
                                      payload |-> p]]
  /\ previewing' = [previewing EXCEPT ![v] = r]
  /\ UNCHANGED <<closed, outbox, earlier, worker, visible, active>>

\* preview, second transaction.
MarkReportPreviewed(v) ==
  /\ previewing[v] # NoReport
  /\ report' = [report EXCEPT ![previewing[v]].status = IF @ = "draft" THEN "previewed" ELSE @]
  /\ previewing' = [previewing EXCEPT ![v] = NoReport]
  /\ UNCHANGED <<closed, outbox, earlier, worker, visible, active>>

\* The preview is cancelled or its process dies between the two transactions.
AbandonPreview(v) ==
  /\ previewing[v] # NoReport
  /\ previewing' = [previewing EXCEPT ![v] = NoReport]
  /\ UNCHANGED <<report, closed, outbox, earlier, worker, visible, active>>

\* queue_previewed and queue_report: a new row, a reset of a failed or skipped
\* row, or the existing row as it is.
QueueReport(r) ==
  /\ r \in closed
  /\ report[r].status \in {"previewed", "queued"}
  /\ \/ /\ outbox[r].status = "absent"
        /\ report[r].status = "previewed"
        /\ outbox' = [outbox EXCEPT ![r] = Pending(report[r].payload)]
        /\ earlier' = MovedLast(r)
     \/ /\ outbox[r].status \in {"skipped", "failed"}
        /\ outbox' = [outbox EXCEPT ![r] = Pending(report[r].payload)]
        /\ earlier' = MovedLast(r)
     \/ /\ outbox[r].status \in Unsettled \cup {"sent"}
        /\ UNCHANGED <<outbox, earlier>>
  /\ report' = [report EXCEPT ![r].status = "queued"]
  /\ UNCHANGED <<closed, previewing, worker, visible, active>>

\* queue_delivery, queue_report_variant and queue_alerts: insert, or leave the
\* row that already has the key.
QueueMessage(m, p) ==
  /\ outbox[m].status = "absent"
  /\ outbox' = [outbox EXCEPT ![m] = Pending(p)]
  /\ earlier' = MovedLast(m)
  /\ UNCHANGED <<report, closed, previewing, worker, visible, active>>

----------------------------------------------------------------------------
(***************************************************************************)
(* Delivery workers.                                                       *)
(***************************************************************************)
Candidates(keys) == {k \in keys : Due(outbox[k])}

\* _claim_delivery: sweep, then lease the oldest due row, if any.
ClaimDelivery(w, keys) ==
  /\ worker[w].phase = "idle"
  /\ \/ /\ Candidates(keys) = {}
        /\ outbox' = Swept
        /\ UNCHANGED worker
     \/ \E k \in Candidates(keys) :
          /\ \A j \in Candidates(keys) : <<j, k>> \notin earlier
          /\ outbox' = [Swept EXCEPT ![k] = Leased(@, w)]
          /\ worker' = [worker EXCEPT ![w] =
                          [phase |-> "claimed", key |-> k, attempt |-> outbox[k].attempts + 1,
                           payload |-> outbox[k].payload]]
  /\ UNCHANGED <<report, closed, previewing, earlier, visible, active>>

ClaimNext(w)    == ClaimDelivery(w, Keys)
ClaimById(w, k) == outbox[k].status # "absent" /\ ClaimDelivery(w, {k})

IsActive(g) == g # NoGroup /\ active = g

\* _deliver: the binding is read once, before the send.
CheckBinding(w) ==
  /\ worker[w].phase = "claimed"
  /\ worker' = [worker EXCEPT ![w].phase = IF IsActive(GroupOf[worker[w].key])
                                           THEN "bound" ELSE "unbound"]
  /\ UNCHANGED <<report, closed, previewing, outbox, earlier, visible, active>>

\* External: Feishu shows a message once per uuid.
Show(k, u, p) == [visible EXCEPT ![k][u] = IF @ = NoPayload THEN p ELSE @]

\* Mutant: the uuid follows the attempt.
UuidOfAttempt(w) == IF worker[w].attempt > 1 THEN "key:text" ELSE "key"

\* The uuid of the request a worker is about to make, and whether Feishu can take it.
UuidOf(w) == IF worker[w].phase = "fallback" THEN "key:text" ELSE "key"
Takes(w)  == worker[w].phase = "fallback" \/ worker[w].payload \notin CardRefused

\* channel.send reaches Feishu. The answer comes back, or is lost on the way and
\* the port raises a transport error although the group has the message.
SendAccepted(w) ==
  /\ worker[w].phase \in {"bound", "fallback"}
  /\ Takes(w)
  /\ visible' = Show(worker[w].key, UuidOf(w), worker[w].payload)
  /\ \E answer \in {"accepted", "refused"} : worker' = [worker EXCEPT ![w].phase = answer]
  /\ UNCHANGED <<report, closed, previewing, outbox, earlier, active>>

\* The card is answered with a format error: the port sends the text next.
SendCardRefused(w) ==
  /\ worker[w].phase = "bound"
  /\ worker[w].payload \in CardRefused
  /\ worker' = [worker EXCEPT ![w].phase = "fallback"]
  /\ UNCHANGED <<report, closed, previewing, outbox, earlier, visible, active>>

\* Mutant: SendResult.success is not looked at.
SendUnchecked(w) ==
  /\ worker[w].phase \in {"bound", "fallback"}
  /\ worker' = [worker EXCEPT ![w].phase = "accepted"]
  /\ UNCHANGED <<report, closed, previewing, outbox, earlier, visible, active>>

\* Any other error: rate limit, permission, transport, rendering.
SendRefused(w) ==
  /\ worker[w].phase \in {"bound", "fallback"}
  /\ worker' = [worker EXCEPT ![w].phase = "refused"]
  /\ UNCHANGED <<report, closed, previewing, outbox, earlier, visible, active>>

\* The row still carries the lease token of w's claim: a token is fresh per claim
\* and a worker holds at most one claim, so the worker itself names its token.
Current(w) == /\ outbox[worker[w].key].status = "sending"
              /\ outbox[worker[w].key].holder = w

\* mark_delivery_sent, with the linked report in the same transaction; a stale
\* lease or a report that is not queued raises and rolls everything back.
MarkSent(w) ==
  /\ worker[w].phase = "accepted"
  /\ LET k == worker[w].key
         commits == Current(w) /\ (k \in Reports => report[k].status = "queued")
     IN  /\ outbox' = IF commits
                      THEN [outbox EXCEPT ![k] = Released(@, "sent", 0)] ELSE outbox
         /\ report' = IF commits /\ k \in Reports
                      THEN [report EXCEPT ![k].status = "sent"] ELSE report
  /\ worker' = [worker EXCEPT ![w] = Idle]
  /\ UNCHANGED <<closed, previewing, earlier, visible, active>>

\* fail_delivery: the delay is chosen from the claim's attempt count.
FailDelivery(w) ==
  /\ worker[w].phase = "refused"
  /\ LET k == worker[w].key
         n == worker[w].attempt
     IN  outbox' = IF Current(w)
                   THEN [outbox EXCEPT ![k] = IF n <= Len(RetryDelays)
                                              THEN Released(@, "retry_wait", RetryDelays[n])
                                              ELSE Released(@, "failed", 0)]
                   ELSE outbox
  /\ worker' = [worker EXCEPT ![w] = Idle]
  /\ UNCHANGED <<report, closed, previewing, earlier, visible, active>>

\* skip_delivery.
SkipDelivery(w) ==
  /\ worker[w].phase = "unbound"
  /\ LET k == worker[w].key
     IN  outbox' = IF Current(w)
                   THEN [outbox EXCEPT ![k] = Released(@, "skipped", 0)] ELSE outbox
  /\ worker' = [worker EXCEPT ![w] = Idle]
  /\ UNCHANGED <<report, closed, previewing, earlier, visible, active>>

\* The task is cancelled or its process dies: the claim is forgotten.
Crash(w) ==
  /\ worker[w].phase # "idle"
  /\ worker' = [worker EXCEPT ![w] = Idle]
  /\ UNCHANGED <<report, closed, previewing, outbox, earlier, visible, active>>

----------------------------------------------------------------------------
(***************************************************************************)
(* Environment.                                                            *)
(***************************************************************************)

\* GroupBindingStore.bind: every other binding is cleared in the same transaction.
Bind(g) ==
  /\ active' = g
  /\ UNCHANGED <<report, closed, previewing, outbox, earlier, worker, visible>>

CountDown(n) == IF n = 0 THEN 0 ELSE n - 1

\* One tick of the clock.
Tick ==
  /\ \E k \in Keys : outbox[k].wait > 0 \/ outbox[k].lease > 0
  /\ outbox' = [k \in Keys |-> [outbox[k] EXCEPT !.wait = CountDown(@), !.lease = CountDown(@)]]
  /\ UNCHANGED <<report, closed, previewing, earlier, worker, visible, active>>

----------------------------------------------------------------------------
\* What a worker does once it holds a claim.
Deliver(w) ==
  \/ CheckBinding(w)
  \/ SendAccepted(w)
  \/ SendCardRefused(w)
  \/ SendRefused(w)
  \/ MarkSent(w)
  \/ FailDelivery(w)
  \/ SkipDelivery(w)

Next ==
  \/ \E r \in Reports : CloseWindow(r)
  \/ \E v \in Previewers, r \in Reports, p \in Payloads : SaveReport(v, r, p)
  \/ \E v \in Previewers : MarkReportPreviewed(v)
  \/ \E v \in Previewers : AbandonPreview(v)
  \/ \E r \in Reports : QueueReport(r)
  \/ \E m \in Messages, p \in Payloads : QueueMessage(m, p)
  \/ \E w \in Drainers : ClaimNext(w)
  \/ \E w \in Senders, k \in Keys : ClaimById(w, k)
  \/ \E w \in Workers : Deliver(w)
  \/ \E w \in Workers : Crash(w)
  \/ \E g \in Groups : Bind(g)
  \/ Tick

Spec == Init /\ [][Next]_vars

(***************************************************************************)
(* The interval job fires every minute and a claim it holds is carried     *)
(* through (channel.send returns or raises); nothing is assumed of the     *)
(* admin commands, of crashes, or of what operators queue.                 *)
(***************************************************************************)
Fairness ==
  /\ WF_vars(Tick)
  /\ \A w \in Drainers : WF_vars(ClaimNext(w)) /\ WF_vars(Deliver(w))

FairSpec == Spec /\ Fairness

----------------------------------------------------------------------------
(***************************************************************************)
(* Properties.                                                             *)
(***************************************************************************)

\* A report has an official outbox row exactly from the moment it is queued, the
\* row is sent exactly when the report is, and the row carries the report's
\* content: the two RuntimeErrors of queue_report and mark_delivery_sent ("missing
\* its outbox row", "linked daily report is not queued") never fire.
ReportRowAgreement ==
  \A r \in Reports :
    /\ outbox[r].status # "absent" <=> report[r].status \in {"queued", "sent"}
    /\ outbox[r].status = "sent" <=> report[r].status = "sent"
    /\ outbox[r].status # "absent" => outbox[r].payload = report[r].payload

\* Whatever is retried, reclaimed, swept or requeued, a key shows the group at most
\* one message, card or text, with the content of its row.
OneVisibleMessage ==
  \A k \in Keys : \A u \in Uuids :
    visible[k][u] # NoPayload =>
      /\ visible[k][u] = outbox[k].payload
      /\ \A other \in Uuids \ {u} : visible[k][other] = NoPayload

\* A row recorded as sent, by whichever worker held the lease at the end, is
\* visible in its group.
SentIsVisible ==
  \A k \in Keys : outbox[k].status = "sent" => \E u \in Uuids : visible[k][u] # NoPayload

\* As long as the row carries a worker's token, what the worker remembers is what
\* the row says: the attempt number fail_delivery picks the delay from and the content
\* it sends are never those of an earlier claim.
LeaseMatchesClaim ==
  \A w \in Workers :
    worker[w].phase # "idle" /\ Current(w) =>
      /\ worker[w].attempt = outbox[worker[w].key].attempts
      /\ worker[w].payload = outbox[worker[w].key].payload

SettledStep ==
  /\ \A r \in Reports :
       /\ report[r].status \in {"queued", "sent"} => report'[r].payload = report[r].payload
       /\ report[r].status = "sent" => report'[r] = report[r]
  /\ \A k \in Keys : outbox[k].status = "sent" => outbox'[k] = outbox[k]

ReopenedStep ==
  \A k \in Keys :
    /\ outbox[k].status \in {"failed", "skipped"}
    /\ outbox'[k].status # outbox[k].status
    => /\ k \in Reports /\ report[k].status = "queued"
       /\ outbox'[k].attempts = 0 /\ outbox'[k].status = "pending"

\* Once it has a row a report's content never changes again, and a sent row or
\* report is never touched: no late worker, requeue or preview reopens it.  A row that
\* was given up comes back only as a report an operator queues again, with all its
\* attempts.
SettledForGood == [][SettledStep /\ ReopenedStep]_vars

\* Every queued row is eventually sent, failed or skipped, with workers crashing at
\* any point, answers lost and bindings changing.
EventuallySettled ==
  \A k \in Keys : outbox[k].status \in Unsettled ~> outbox[k].status \notin Unsettled

----------------------------------------------------------------------------
(***************************************************************************)
(* Refinement: what ReportPromise calls the stage, the content and the     *)
(* messages of a report.                                                   *)
(***************************************************************************)
Committed(r) == report[r].status \in {"queued", "sent"}

PromiseStage == [r \in Reports |-> IF report[r].status = "sent" THEN "delivered"
                                   ELSE IF Committed(r) THEN "committed" ELSE "open"]
PromiseContent == [r \in Reports |-> IF Committed(r) THEN report[r].payload ELSE NoPayload]
PromiseShown == [r \in Reports |->
                  {<<u, visible[r][u]>> : u \in {v \in Uuids : visible[r][v] # NoPayload}}]

Promise == INSTANCE ReportPromise
             WITH stage <- PromiseStage, content <- PromiseContent, shown <- PromiseShown

\* The outbox, its workers and their crashes implement the promise: no interleaving
\* shows a report before it is queued, twice, or with another content, or records it
\* as sent before the group has it.
KeepsReportPromise == Promise!Spec
=============================================================================
