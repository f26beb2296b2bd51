------------------------ MODULE DeliveryOutbox_proofs ------------------------
(***************************************************************************)
(* Theorems about DeliveryOutbox, for every set of reports, messages,      *)
(* workers and payloads, every lease length and every retry chain.         *)
(*                                                                         *)
(* IInv is inductive.  Beyond the invariants the runs check it says what   *)
(* the lease columns of a row can be (RowShape), what a worker knows of    *)
(* the row it claimed (ClaimShape) and under which uuid a message can be   *)
(* visible (VisibleShape): without ClaimShape a late worker could show a   *)
(* content the row no longer has, and without the attempt numbers of       *)
(* RowShape a fourth failure could be rescheduled.                         *)
(***************************************************************************)
EXTENDS DeliveryOutbox, TLAPS

RowShape ==
  \A k \in Keys :
    /\ outbox[k].holder # NoWorker <=> outbox[k].status = "sending"
    /\ outbox[k].status # "absent" => outbox[k].payload \in Payloads
    /\ outbox[k].status = "pending" => outbox[k].attempts = 0
    /\ outbox[k].status = "retry_wait" => outbox[k].attempts < MaxAttempts
    /\ outbox[k].status # "retry_wait" => outbox[k].wait = 0
    /\ outbox[k].status # "sending" => outbox[k].lease = 0

ReportShape ==
  \A r \in Reports : report[r].status # "none" => report[r].payload \in Payloads

PreviewShape ==
  \A v \in Previewers : previewing[v] # NoReport => report[previewing[v]].status # "none"

ClaimShape ==
  \A w \in Workers : worker[w].phase # "idle" =>
    /\ worker[w].key \in Keys
    /\ worker[w].attempt > 0
    /\ outbox[worker[w].key].status # "absent"
    /\ worker[w].payload = outbox[worker[w].key].payload
    /\ worker[w].phase = "fallback" => worker[w].payload \in CardRefused
    /\ worker[w].phase = "accepted" => \E u \in Uuids : visible[worker[w].key][u] # NoPayload
    /\ Current(w) => worker[w].attempt = outbox[worker[w].key].attempts

VisibleShape ==
  \A k \in Keys : \A u \in Uuids : visible[k][u] # NoPayload =>
    /\ outbox[k].status # "absent"
    /\ visible[k][u] = outbox[k].payload
    /\ u = "key:text" <=> outbox[k].payload \in CardRefused

IInv ==
  /\ TypeOK
  /\ RowShape
  /\ ReportShape
  /\ PreviewShape
  /\ ReportRowAgreement
  /\ ClaimShape
  /\ VisibleShape
  /\ SentIsVisible

----------------------------------------------------------------------------
\* IInv implies the invariants of the runs that are not conjuncts of it.
LEMMA IInvOneVisibleMessage == IInv => OneVisibleMessage
  BY DEF IInv, VisibleShape, OneVisibleMessage, Uuids

LEMMA IInvLeaseMatchesClaim == IInv => LeaseMatchesClaim
  BY DEF IInv, ClaimShape, LeaseMatchesClaim

LEMMA InitIInv == Init => IInv
<1> SUFFICES ASSUME Init PROVE IInv
  OBVIOUS
<1>1. TypeOK
  BY ConstantsAssumption
  DEF Init, TypeOK, Row, Claim, NoRow, Idle, RowStatus, ReportStatus, Phase
<1>2. RowShape /\ ReportRowAgreement /\ VisibleShape /\ SentIsVisible
  BY DEF Init, RowShape, ReportRowAgreement, VisibleShape, SentIsVisible, NoRow, Keys
<1>3. ReportShape /\ PreviewShape /\ ClaimShape
  BY DEF Init, ReportShape, PreviewShape, ClaimShape, Idle
<1>. QED BY <1>1, <1>2, <1>3 DEF IInv

----------------------------------------------------------------------------
(***************************************************************************)
(* Steps that leave the rows, the claims and what is visible alone.        *)
(***************************************************************************)
LEMMA CloseWindowIInv == ASSUME IInv, NEW r \in Reports, CloseWindow(r) PROVE IInv'
  BY DEF CloseWindow, IInv, TypeOK, RowShape, ReportShape, PreviewShape, ReportRowAgreement,
         ClaimShape, Current, VisibleShape, SentIsVisible

LEMMA BindIInv == ASSUME IInv, NEW g \in Groups, Bind(g) PROVE IInv'
  BY DEF Bind, IInv, TypeOK, RowShape, ReportShape, PreviewShape, ReportRowAgreement,
         ClaimShape, Current, VisibleShape, SentIsVisible

LEMMA AbandonPreviewIInv == ASSUME IInv, NEW v \in Previewers, AbandonPreview(v) PROVE IInv'
  BY DEF AbandonPreview, IInv, TypeOK, RowShape, ReportShape, PreviewShape,
         ReportRowAgreement, ClaimShape, Current, VisibleShape, SentIsVisible

\* save_report: only a report that has no row gets a new content.
LEMMA SaveReportIInv ==
  ASSUME IInv, NEW v \in Previewers, NEW r \in Reports, NEW p \in Payloads, SaveReport(v, r, p)
  PROVE  IInv'
<1>1. TypeOK' /\ ReportShape' /\ PreviewShape'
  BY ConstantsAssumption
  DEF SaveReport, MaySave, IInv, TypeOK, ReportShape, PreviewShape, ReportStatus
<1>2. ReportRowAgreement'
  BY DEF SaveReport, MaySave, IInv, TypeOK, ReportRowAgreement, ReportStatus
<1>3. RowShape' /\ ClaimShape' /\ VisibleShape' /\ SentIsVisible'
  BY DEF SaveReport, IInv, RowShape, ClaimShape, Current, VisibleShape, SentIsVisible
<1>. QED BY <1>1, <1>2, <1>3 DEF IInv

LEMMA MarkReportPreviewedIInv ==
  ASSUME IInv, NEW v \in Previewers, MarkReportPreviewed(v) PROVE IInv'
<1>1. TypeOK' /\ ReportShape' /\ PreviewShape' /\ ReportRowAgreement'
  BY ConstantsAssumption
  DEF MarkReportPreviewed, IInv, TypeOK, ReportShape, PreviewShape, ReportRowAgreement, ReportStatus
<1>2. RowShape' /\ ClaimShape' /\ VisibleShape' /\ SentIsVisible'
  BY DEF MarkReportPreviewed, IInv, RowShape, ClaimShape, Current, VisibleShape, SentIsVisible
<1>. QED BY <1>1, <1>2 DEF IInv

(***************************************************************************)
(* Steps of a worker that only move its own phase.                         *)
(***************************************************************************)
LEMMA TablesUnchanged ==
  ASSUME IInv, UNCHANGED <<report, previewing, outbox, visible>>
  PROVE  /\ RowShape' /\ ReportShape' /\ PreviewShape'
         /\ ReportRowAgreement' /\ VisibleShape' /\ SentIsVisible'
  BY DEF IInv, RowShape, ReportShape, PreviewShape, ReportRowAgreement, VisibleShape,
         SentIsVisible

LEMMA CrashIInv == ASSUME IInv, NEW w \in Workers, Crash(w) PROVE IInv'
<1>1. TypeOK' /\ ClaimShape'
  BY SMTT(30), ConstantsAssumption DEF Crash, IInv, TypeOK, ClaimShape, Current, Claim, Idle, Phase
<1>. QED BY <1>1, TablesUnchanged DEF Crash, IInv

LEMMA CheckBindingIInv == ASSUME IInv, NEW w \in Workers, CheckBinding(w) PROVE IInv'
<1>1. TypeOK' /\ ClaimShape'
  BY SMTT(30) DEF CheckBinding, IInv, TypeOK, ClaimShape, Current, Claim, Phase
<1>. QED BY <1>1, TablesUnchanged DEF CheckBinding, IInv

LEMMA SendCardRefusedIInv == ASSUME IInv, NEW w \in Workers, SendCardRefused(w) PROVE IInv'
<1>1. TypeOK' /\ ClaimShape'
  BY SMTT(30) DEF SendCardRefused, IInv, TypeOK, ClaimShape, Current, Claim, Phase
<1>. QED BY <1>1, TablesUnchanged DEF SendCardRefused, IInv

LEMMA SendRefusedIInv == ASSUME IInv, NEW w \in Workers, SendRefused(w) PROVE IInv'
<1>1. TypeOK' /\ ClaimShape'
  BY ZenonT(60) DEF SendRefused, IInv, TypeOK, ClaimShape, Current, Claim, Phase
<1>. QED BY <1>1, TablesUnchanged DEF SendRefused, IInv

(***************************************************************************)
(* The request to Feishu: the message that appears is the row's content,   *)
(* under the uuid that content is always sent with.                        *)
(***************************************************************************)
LEMMA SendAcceptedIInv == ASSUME IInv, NEW w \in Workers, SendAccepted(w) PROVE IInv'
<1> DEFINE k == worker[w].key
           u == UuidOf(w)
           p == worker[w].payload
<1>1. /\ k \in Keys /\ u \in Uuids /\ p \in Payloads /\ p # NoPayload
      /\ outbox[k].status # "absent" /\ outbox[k].payload = p
      /\ u = "key:text" <=> p \in CardRefused
  BY ConstantsAssumption
  DEF SendAccepted, Takes, UuidOf, Uuids, IInv, TypeOK, ClaimShape, RowShape
<1>2. PICK answer \in {"accepted", "refused"} : worker' = [worker EXCEPT ![w].phase = answer]
  BY DEF SendAccepted
<1>3. visible' = [visible EXCEPT ![k][u] = IF @ = NoPayload THEN p ELSE @]
  BY DEF SendAccepted, Show
<1>4. TypeOK'
  BY SMTT(30), <1>1, <1>2, <1>3 DEF SendAccepted, IInv, TypeOK, Claim, Phase
<1>5. \A j \in Keys, v \in Uuids :
        /\ visible[j][v] # NoPayload => visible'[j][v] = visible[j][v]
        /\ visible'[j][v] # visible[j][v] => j = k /\ v = u /\ visible'[j][v] = p
        /\ visible'[k][u] # NoPayload
  BY <1>1, <1>3 DEF IInv, TypeOK
<1>6. VisibleShape' /\ SentIsVisible'
  BY <1>1, <1>5 DEF SendAccepted, IInv, VisibleShape, SentIsVisible
<1>7. ClaimShape'
  <2>1. ASSUME NEW x \in Workers, x # w
        PROVE  worker'[x] = worker[x]
    BY <1>2, <2>1 DEF IInv, TypeOK
  <2>2. /\ worker'[w].phase = answer /\ worker'[w].key = k
        /\ worker'[w].payload = p /\ worker'[w].attempt = worker[w].attempt
    BY <1>2 DEF IInv, TypeOK, Claim
  <2>3. outbox' = outbox
    BY DEF SendAccepted
  <2>4. worker[w].phase # "idle"
    BY DEF SendAccepted
  <2>. QED BY <1>1, <1>5, <2>1, <2>2, <2>3, <2>4 DEF IInv, ClaimShape, Current
<1>8. RowShape' /\ ReportShape' /\ PreviewShape' /\ ReportRowAgreement'
  BY DEF SendAccepted, IInv, RowShape, ReportShape, PreviewShape, ReportRowAgreement
<1>. QED BY <1>4, <1>6, <1>7, <1>8 DEF IInv

(***************************************************************************)
(* Rows that are inserted, reset, leased or given back.                    *)
(***************************************************************************)
LEMMA PendingType == ASSUME NEW p \in Payloads PROVE Pending(p) \in Row
<1>1. 0 \in 0..MaxAttempts /\ 0 \in 0..LeaseTicks
  BY ConstantsAssumption
<1>. QED BY <1>1 DEF Pending, Row, RowStatus

LEMMA QueueMessageIInv ==
  ASSUME IInv, NEW m \in Messages, NEW p \in Payloads, QueueMessage(m, p) PROVE IInv'
<1>1. TypeOK'
  BY PendingType DEF QueueMessage, IInv, TypeOK, MovedLast, Present, Keys
<1>2. RowShape' /\ ClaimShape' /\ VisibleShape' /\ SentIsVisible'
  BY DEF QueueMessage, IInv, TypeOK, RowShape, ClaimShape, Current, VisibleShape,
         SentIsVisible, Pending, Keys
<1>3. ReportShape' /\ PreviewShape' /\ ReportRowAgreement'
  BY ConstantsAssumption
  DEF QueueMessage, IInv, TypeOK, ReportShape, PreviewShape, ReportRowAgreement, Keys
<1>. QED BY <1>1, <1>2, <1>3 DEF IInv

LEMMA QueueReportIInv == ASSUME IInv, NEW r \in Reports, QueueReport(r) PROVE IInv'
<1>1. /\ r \in Keys /\ report[r].payload \in Payloads
      /\ outbox[r].status # "absent" => outbox[r].payload = report[r].payload
  BY DEF QueueReport, IInv, ReportShape, ReportRowAgreement, Keys
<1>2. report' = [report EXCEPT ![r].status = "queued"] /\ outbox[r].status # "sent"
  BY DEF QueueReport, IInv, ReportRowAgreement
<1>3. ReportShape' /\ PreviewShape'
  BY <1>1, <1>2 DEF QueueReport, IInv, TypeOK, ReportShape, PreviewShape
<1>4. CASE outbox[r].status # "absent" /\ UNCHANGED <<outbox, earlier>>
  <2>1. TypeOK'
    BY <1>2, <1>4 DEF QueueReport, IInv, TypeOK, ReportStatus
  <2>2. ReportRowAgreement'
    BY <1>2, <1>4 DEF QueueReport, IInv, TypeOK, ReportRowAgreement
  <2>3. RowShape' /\ ClaimShape' /\ VisibleShape' /\ SentIsVisible'
    BY <1>4 DEF QueueReport, IInv, RowShape, ClaimShape, Current, VisibleShape, SentIsVisible
  <2>. QED BY <1>3, <2>1, <2>2, <2>3 DEF IInv
<1>5. CASE /\ outbox[r].status \in {"absent", "skipped", "failed"}
           /\ outbox' = [outbox EXCEPT ![r] = Pending(report[r].payload)]
           /\ earlier' = MovedLast(r)
  <2>1. TypeOK'
    BY <1>1, <1>2, <1>5, PendingType
    DEF QueueReport, IInv, TypeOK, MovedLast, Present, ReportStatus
  <2>2. ReportRowAgreement'
    BY <1>1, <1>2, <1>5 DEF IInv, TypeOK, ReportRowAgreement, Pending, Keys
  <2>3. RowShape' /\ SentIsVisible'
    BY <1>1, <1>5 DEF QueueReport, IInv, TypeOK, RowShape, SentIsVisible, Pending
  <2>4. VisibleShape'
    BY <1>1, <1>5 DEF QueueReport, IInv, TypeOK, VisibleShape, Pending
  <2>5. ClaimShape'
    BY <1>1, <1>5 DEF QueueReport, IInv, TypeOK, ClaimShape, Current, Pending
  <2>. QED BY <1>3, <2>1, <2>2, <2>3, <2>4, <2>5 DEF IInv
<1>. QED BY <1>4, <1>5 DEF QueueReport, Unsettled

\* What giving a row back does to it.
LEMMA ReleasedRow ==
  ASSUME NEW row \in Row, NEW status \in RowStatus, NEW wait \in Nat
  PROVE  /\ Released(row, status, wait) \in Row
         /\ Released(row, status, wait).status = status
         /\ Released(row, status, wait).wait = wait
         /\ Released(row, status, wait).lease = 0
         /\ Released(row, status, wait).holder = NoWorker
         /\ Released(row, status, wait).attempts = row.attempts
         /\ Released(row, status, wait).payload = row.payload
<1>1. 0 \in 0..LeaseTicks
  BY ConstantsAssumption
<1>. QED BY <1>1 DEF Released, Row

\* A row that is given back by its current worker keeps the invariant, provided a
\* report that is marked sent changes with it and the row is then visible.
LEMMA GivenBackIInv ==
  ASSUME IInv, NEW w \in Workers, worker[w].phase # "idle",
         worker' = [worker EXCEPT ![w] = Idle],
         NEW k, k = worker[w].key,
         NEW status \in RowStatus \ {"absent", "pending", "sending"}, NEW wait \in Nat,
         Current(w),
         outbox' = [outbox EXCEPT ![k] = Released(@, status, wait)],
         status = "retry_wait" => outbox[k].attempts < MaxAttempts,
         status # "retry_wait" => wait = 0,
         status = "sent" => \E u \in Uuids : visible[k][u] # NoPayload,
         status = "sent" /\ k \in Reports => report' = [report EXCEPT ![k].status = "sent"],
         ~(status = "sent" /\ k \in Reports) => report' = report,
         UNCHANGED <<closed, previewing, earlier, visible, active>>
  PROVE  IInv'
<1>1. k \in Keys /\ outbox[k] \in Row /\ outbox[k].status = "sending" /\ status \in RowStatus
  BY DEF IInv, ClaimShape, TypeOK, Current
<1>2. /\ outbox'[k] \in Row /\ outbox'[k].status = status /\ outbox'[k].holder = NoWorker
      /\ outbox'[k].wait = wait /\ outbox'[k].lease = 0
      /\ outbox'[k].attempts = outbox[k].attempts /\ outbox'[k].payload = outbox[k].payload
  BY <1>1, ReleasedRow DEF IInv, TypeOK
<1>3. \A j \in Keys : j # k => outbox'[j] = outbox[j]
  BY DEF IInv, TypeOK
<1>4. TypeOK'
  <2>1. outbox' \in [Keys -> Row]
    BY <1>1, <1>2 DEF IInv, TypeOK
  <2>2. worker' \in [Workers -> Claim]
    BY ConstantsAssumption DEF IInv, TypeOK, Idle, Claim, Phase
  <2>3. report' \in [Reports -> [status : ReportStatus, payload : Payloads \cup {NoPayload}]]
    <3>1. CASE status = "sent" /\ k \in Reports
      <4>1. report' = [report EXCEPT ![k].status = "sent"]
        BY <3>1
      <4>. QED BY ZenonT(60), <4>1 DEF IInv, TypeOK, ReportStatus
    <3>2. CASE ~(status = "sent" /\ k \in Reports)
      BY <3>2 DEF IInv, TypeOK
    <3>. QED BY <3>1, <3>2
  <2>. QED BY <2>1, <2>2, <2>3 DEF IInv, TypeOK
<1>5. RowShape' /\ SentIsVisible'
  <2>1. status \notin {"absent", "pending", "sending"}
    OBVIOUS
  <2>2. outbox[k].payload \in Payloads
    BY <1>1 DEF IInv, RowShape
  <2>3. RowShape'
    <3>1. ASSUME NEW j \in Keys, j # k PROVE outbox'[j] = outbox[j]
      BY <1>3, <3>1
    <3>. QED BY <1>1, <1>2, <2>1, <2>2, <3>1 DEF IInv, RowShape
  <2>4. visible' = visible
    OBVIOUS
  <2>5. SentIsVisible'
    <3>1. ASSUME NEW j \in Keys, outbox'[j].status = "sent"
          PROVE  \E u \in Uuids : visible[j][u] # NoPayload
      <4>1. CASE j = k
        BY <1>2, <3>1, <4>1
      <4>2. CASE j # k
        BY <1>3, <3>1, <4>2 DEF IInv, SentIsVisible
      <4>. QED BY <4>1, <4>2
    <3>. QED BY <2>4, <3>1 DEF SentIsVisible
  <2>. QED BY <2>3, <2>5
<1>6. VisibleShape'
  BY <1>1, <1>2, <1>3 DEF IInv, VisibleShape
<1>7. ReportShape' /\ PreviewShape' /\ ReportRowAgreement'
  <2>1. k \in Reports => report[k].status = "queued"
    BY <1>1 DEF IInv, ReportRowAgreement
  <2>2. \A r \in Reports :
          /\ report'[r].payload = report[r].payload
          /\ report'[r].status = IF r = k /\ status = "sent" THEN "sent" ELSE report[r].status
    BY DEF IInv, TypeOK
  <2>3. \A r \in Reports : report'[r].status # "none" <=> report[r].status # "none"
    BY <2>1, <2>2
  <2>4. ReportShape'
    BY <2>2, <2>3 DEF IInv, ReportShape
  <2>5. PreviewShape'
    BY <2>3 DEF IInv, TypeOK, PreviewShape
  <2>6. ReportRowAgreement'
    BY <1>1, <1>2, <1>3, <2>1, <2>2 DEF IInv, ReportRowAgreement, Keys
  <2>. QED BY <2>4, <2>5, <2>6
<1>8. ClaimShape'
  <2>1. ASSUME NEW x \in Workers, worker'[x].phase # "idle"
        PROVE  x # w /\ worker'[x] = worker[x] /\ worker[x].key \in Keys
    BY <2>1 DEF IInv, TypeOK, Idle, ClaimShape
  <2>2. /\ visible' = visible /\ status # "absent" /\ status # "sending"
    OBVIOUS
  <2>3. ASSUME NEW x \in Workers, worker'[x].phase # "idle"
        PROVE  /\ outbox'[worker[x].key].status # "absent"
               /\ outbox'[worker[x].key].payload = outbox[worker[x].key].payload
               /\ Current(x)' => Current(x) /\ outbox'[worker[x].key] = outbox[worker[x].key]
    <3>1. x # w /\ worker'[x] = worker[x] /\ worker[x].key \in Keys
      BY <2>1, <2>3
    <3>2. CASE worker[x].key = k
      BY <1>2, <2>2, <3>1, <3>2 DEF Current
    <3>3. CASE worker[x].key # k
      <4>1. outbox'[worker[x].key] = outbox[worker[x].key]
        BY <1>3, <3>1, <3>3
      <4>2. outbox[worker[x].key].status # "absent"
        BY <3>1, <2>3 DEF IInv, ClaimShape
      <4>. QED BY <3>1, <4>1, <4>2 DEF Current
    <3>. QED BY <3>2, <3>3
  <2>. QED BY <2>1, <2>2, <2>3 DEF IInv, ClaimShape
<1>. QED BY <1>4, <1>5, <1>6, <1>7, <1>8 DEF IInv

\* A worker whose lease is gone changes nothing but itself.
LEMMA StaleIInv ==
  ASSUME IInv, NEW w \in Workers, worker' = [worker EXCEPT ![w] = Idle],
         UNCHANGED <<report, closed, previewing, outbox, earlier, visible, active>>
  PROVE  IInv'
<1>1. TypeOK' /\ ClaimShape'
  BY ConstantsAssumption DEF IInv, TypeOK, ClaimShape, Current, Claim, Idle, Phase
<1>. QED BY <1>1, TablesUnchanged DEF IInv

LEMMA MarkSentIInv == ASSUME IInv, NEW w \in Workers, MarkSent(w) PROVE IInv'
<1> DEFINE k == worker[w].key
<1>1. /\ k \in Keys /\ worker[w].phase # "idle" /\ \E u \in Uuids : visible[k][u] # NoPayload
      /\ worker' = [worker EXCEPT ![w] = Idle]
      /\ UNCHANGED <<closed, previewing, earlier, visible, active>>
  BY DEF MarkSent, IInv, ClaimShape
<1>2. CASE Current(w) /\ (k \in Reports => report[k].status = "queued")
  <2>1. /\ outbox' = [outbox EXCEPT ![k] = Released(@, "sent", 0)]
        /\ report' = IF k \in Reports THEN [report EXCEPT ![k].status = "sent"] ELSE report
    BY <1>2 DEF MarkSent
  <2>. QED BY <1>1, <1>2, <2>1, GivenBackIInv DEF RowStatus
<1>3. CASE ~(Current(w) /\ (k \in Reports => report[k].status = "queued"))
  <2>1. UNCHANGED <<report, outbox>>
    BY <1>3 DEF MarkSent
  <2>. QED BY <1>1, <2>1, StaleIInv
<1>. QED BY <1>2, <1>3

LEMMA FailDeliveryIInv == ASSUME IInv, NEW w \in Workers, FailDelivery(w) PROVE IInv'
<1> DEFINE k == worker[w].key
           n == worker[w].attempt
<1>1. /\ k \in Keys /\ worker[w].phase # "idle" /\ n \in Nat /\ n > 0
      /\ worker' = [worker EXCEPT ![w] = Idle]
      /\ UNCHANGED <<report, closed, previewing, earlier, visible, active>>
  BY ConstantsAssumption DEF FailDelivery, IInv, TypeOK, ClaimShape, Claim
<1>2. CASE Current(w) /\ n <= Len(RetryDelays)
  <2>1. outbox' = [outbox EXCEPT ![k] = Released(@, "retry_wait", RetryDelays[n])]
    BY <1>2 DEF FailDelivery
  <2>2. RetryDelays[n] \in Nat /\ n < MaxAttempts
    BY <1>1, <1>2, ConstantsAssumption
  <2>3. n = outbox[k].attempts
    BY <1>1, <1>2 DEF IInv, ClaimShape
  <2>4. "retry_wait" \in RowStatus \ {"absent", "pending", "sending"}
    BY DEF RowStatus
  <2>. QED BY <1>1, <1>2, <2>1, <2>2, <2>3, <2>4, GivenBackIInv
<1>3. CASE Current(w) /\ ~(n <= Len(RetryDelays))
  <2>1. outbox' = [outbox EXCEPT ![k] = Released(@, "failed", 0)]
    BY <1>3 DEF FailDelivery
  <2>2. "failed" \in RowStatus \ {"absent", "pending", "sending"} /\ 0 \in Nat
    BY DEF RowStatus
  <2>. QED BY <1>1, <1>3, <2>1, <2>2, GivenBackIInv
<1>4. CASE ~Current(w)
  <2>1. outbox' = outbox
    BY <1>4 DEF FailDelivery
  <2>. QED BY <1>1, <2>1, StaleIInv
<1>. QED BY <1>2, <1>3, <1>4

LEMMA SkipDeliveryIInv == ASSUME IInv, NEW w \in Workers, SkipDelivery(w) PROVE IInv'
<1> DEFINE k == worker[w].key
<1>1. /\ k \in Keys /\ worker[w].phase # "idle"
      /\ worker' = [worker EXCEPT ![w] = Idle]
      /\ UNCHANGED <<report, closed, previewing, earlier, visible, active>>
  BY DEF SkipDelivery, IInv, ClaimShape
<1>2. CASE Current(w)
  <2>1. outbox' = [outbox EXCEPT ![k] = Released(@, "skipped", 0)]
    BY <1>2 DEF SkipDelivery
  <2>2. "skipped" \in RowStatus \ {"absent", "pending", "sending"} /\ 0 \in Nat
    BY DEF RowStatus
  <2>. QED BY <1>1, <1>2, <2>1, <2>2, GivenBackIInv
<1>3. CASE ~Current(w)
  <2>1. outbox' = outbox
    BY <1>3 DEF SkipDelivery
  <2>. QED BY <1>1, <2>1, StaleIInv
<1>. QED BY <1>2, <1>3

----------------------------------------------------------------------------
(***************************************************************************)
(* Steps that change every row at once.                                    *)
(***************************************************************************)

\* What a tick does to a row.
LEMMA CountedDownRow ==
  ASSUME NEW row \in Row, NEW next,
         next = [row EXCEPT !.wait = CountDown(@), !.lease = CountDown(@)]
  PROVE  /\ next \in Row
         /\ next.status = row.status /\ next.holder = row.holder
         /\ next.payload = row.payload /\ next.attempts = row.attempts
         /\ row.wait = 0 => next.wait = 0
         /\ row.lease = 0 => next.lease = 0
<1>1. CountDown(0) = 0 /\ \A n \in Nat : CountDown(n) \in Nat /\ CountDown(n) <= n
  BY DEF CountDown
<1>2. row.wait \in Nat /\ row.lease \in 0..LeaseTicks /\ LeaseTicks \in Nat
  BY ConstantsAssumption DEF Row
<1>3. CountDown(row.wait) \in Nat /\ CountDown(row.lease) \in 0..LeaseTicks
  BY <1>1, <1>2
<1>. QED BY <1>1, <1>3 DEF Row

LEMMA TickIInv == ASSUME IInv, Tick PROVE IInv'
<1>2. ASSUME NEW j \in Keys
      PROVE  /\ outbox'[j] \in Row
             /\ outbox'[j].status = outbox[j].status /\ outbox'[j].holder = outbox[j].holder
             /\ outbox'[j].payload = outbox[j].payload /\ outbox'[j].attempts = outbox[j].attempts
             /\ outbox[j].wait = 0 => outbox'[j].wait = 0
             /\ outbox[j].lease = 0 => outbox'[j].lease = 0
  <2>1. outbox[j] \in Row
    BY DEF IInv, TypeOK
  <2>2. outbox'[j] = [outbox[j] EXCEPT !.wait = CountDown(@), !.lease = CountDown(@)]
    BY DEF Tick
  <2>. QED BY <2>1, <2>2, CountedDownRow
<1>3. TypeOK'
  <2>1. outbox' \in [Keys -> Row]
    BY <1>2 DEF Tick
  <2>. QED BY <2>1 DEF Tick, IInv, TypeOK
<1>4. ReportShape' /\ PreviewShape'
  BY DEF Tick, IInv, ReportShape, PreviewShape
<1>5. RowShape' /\ SentIsVisible'
  <2>1. visible' = visible
    BY DEF Tick
  <2>2. RowShape'
    BY <1>2 DEF IInv, RowShape
  <2>3. SentIsVisible'
    BY <1>2, <2>1 DEF IInv, SentIsVisible
  <2>. QED BY <2>2, <2>3
<1>a. visible' = visible /\ report' = report
  BY DEF Tick
<1>6. VisibleShape'
  BY <1>2, <1>a DEF IInv, VisibleShape
<1>7. ReportRowAgreement'
  BY <1>2, <1>a DEF IInv, ReportRowAgreement, Keys
<1>8. ClaimShape'
  <2>1. worker' = worker /\ visible' = visible
    BY DEF Tick
  <2>. QED BY <1>2, <2>1 DEF IInv, ClaimShape, Current
<1>. QED BY <1>3, <1>4, <1>5, <1>6, <1>7, <1>8 DEF IInv

\* The first statement of a claim: a row is left as it is, or was leased and fails.
LEMMA SweptRow ==
  ASSUME IInv, NEW j \in Keys
  PROVE  /\ Swept[j] \in Row
         /\ Swept[j].payload = outbox[j].payload
         /\ Swept[j].attempts = outbox[j].attempts
         /\ \/ Swept[j] = outbox[j]
            \/ /\ outbox[j].status = "sending"
               /\ Swept[j].status = "failed" /\ Swept[j].holder = NoWorker
               /\ Swept[j].wait = 0 /\ Swept[j].lease = 0
<1>1. outbox[j] \in Row /\ "failed" \in RowStatus /\ 0 \in Nat
  BY DEF IInv, TypeOK, RowStatus
<1>2. Swept[j] = IF Exhausted(outbox[j]) THEN Released(outbox[j], "failed", 0) ELSE outbox[j]
  BY DEF Swept
<1>3. CASE Exhausted(outbox[j])
  BY <1>1, <1>2, <1>3, ReleasedRow DEF Exhausted
<1>4. CASE ~Exhausted(outbox[j])
  BY <1>1, <1>2, <1>4
<1>. QED BY <1>3, <1>4

\* The second: what leasing a due row does to it.
LEMMA LeasedRow ==
  ASSUME NEW row \in Row, NEW w \in Workers, row.attempts < MaxAttempts
  PROVE  /\ Leased(row, w) \in Row
         /\ Leased(row, w).status = "sending" /\ Leased(row, w).holder = w
         /\ Leased(row, w).attempts = row.attempts + 1 /\ Leased(row, w).wait = 0
         /\ Leased(row, w).payload = row.payload
<1>1. /\ row.attempts + 1 \in 0..MaxAttempts /\ LeaseTicks \in 0..LeaseTicks
      /\ "sending" \in RowStatus
  BY ConstantsAssumption DEF Row, RowStatus
<1>. QED BY <1>1 DEF Leased, Row

\* A row that is due has an attempt left, has been inserted and is not settled, and
\* the sweep leaves it alone.
LEMMA DueRow ==
  ASSUME IInv, NEW k \in Keys, Due(outbox[k])
  PROVE  /\ outbox[k].attempts < MaxAttempts
         /\ outbox[k].status \in Unsettled
         /\ Swept[k] = outbox[k]
<1>1. outbox[k].attempts \in Nat /\ MaxAttempts \in Nat \ {0}
  BY ConstantsAssumption DEF IInv, TypeOK, Row
<1>2. outbox[k].attempts < MaxAttempts /\ outbox[k].status \in Unsettled
  BY <1>1 DEF Due, IInv, RowShape, Unsettled
<1>3. ~Exhausted(outbox[k])
  BY <1>1, <1>2 DEF Exhausted
<1>. QED BY <1>2, <1>3 DEF Swept

\* Rows that keep their contents, and are inserted or sent only as before, keep the
\* parts of the invariant that are not about claims.
LEMMA RowsKept ==
  ASSUME IInv, UNCHANGED <<report, previewing, visible>>,
         \A j \in Keys :
           /\ outbox'[j].payload = outbox[j].payload
           /\ outbox'[j].status = "absent" <=> outbox[j].status = "absent"
           /\ outbox'[j].status = "sent" <=> outbox[j].status = "sent"
  PROVE  ReportShape' /\ PreviewShape' /\ ReportRowAgreement' /\ VisibleShape' /\ SentIsVisible'
<1>1. ReportShape' /\ PreviewShape'
  BY DEF IInv, ReportShape, PreviewShape
<1>2. ReportRowAgreement'
  BY DEF IInv, ReportRowAgreement, Keys
<1>3. VisibleShape' /\ SentIsVisible'
  BY DEF IInv, VisibleShape, SentIsVisible
<1>. QED BY <1>1, <1>2, <1>3

LEMMA ClaimDeliveryIInv ==
  ASSUME IInv, NEW w \in Workers, NEW keys \in SUBSET Keys, ClaimDelivery(w, keys)
  PROVE  IInv'
<1>1. /\ worker[w].phase = "idle"
      /\ UNCHANGED <<report, closed, previewing, earlier, visible, active>>
  BY DEF ClaimDelivery
<1>2. CASE outbox' = Swept /\ UNCHANGED worker
  <2>1. TypeOK'
    <3>1. outbox' \in [Keys -> Row]
      BY <1>2, SweptRow DEF Swept
    <3>. QED BY <1>1, <1>2, <3>1 DEF IInv, TypeOK
  <2>2. RowShape'
    BY <1>2, SweptRow DEF IInv, RowShape
  <2>3. ReportShape' /\ PreviewShape' /\ ReportRowAgreement' /\ VisibleShape' /\ SentIsVisible'
    BY <1>1, <1>2, SweptRow, RowsKept
  <2>4. ClaimShape'
    <3>1. \A j \in Keys :
            /\ outbox'[j].payload = outbox[j].payload
            /\ outbox'[j].attempts = outbox[j].attempts
            /\ outbox[j].status # "absent" => outbox'[j].status # "absent"
            /\ outbox'[j].status = "sending" => outbox'[j] = outbox[j]
      BY <1>2, SweptRow
    <3>. QED BY <1>1, <1>2, <3>1 DEF IInv, ClaimShape, Current
  <2>. QED BY <2>1, <2>2, <2>3, <2>4 DEF IInv
<1>3. ASSUME NEW k \in Candidates(keys),
             outbox' = [Swept EXCEPT ![k] = Leased(@, w)],
             worker' = [worker EXCEPT ![w] =
                          [phase |-> "claimed", key |-> k, attempt |-> outbox[k].attempts + 1,
                           payload |-> outbox[k].payload]]
      PROVE  IInv'
  <2>1. /\ k \in Keys /\ outbox[k] \in Row /\ outbox[k].attempts < MaxAttempts
        /\ outbox[k].status \in Unsettled /\ Swept[k] = outbox[k]
    BY DueRow DEF Candidates, IInv, TypeOK
  <2>2. outbox'[k] = Leased(outbox[k], w) /\ \A j \in Keys : j # k => outbox'[j] = Swept[j]
    BY <1>3, <2>1 DEF Swept
  <2>3. /\ outbox'[k] \in Row /\ outbox'[k].status = "sending" /\ outbox'[k].holder = w
        /\ outbox'[k].attempts = outbox[k].attempts + 1 /\ outbox'[k].wait = 0
        /\ outbox'[k].payload = outbox[k].payload
    BY <2>1, <2>2, LeasedRow
  <2>4. TypeOK'
    <3>1. outbox' \in [Keys -> Row]
      BY <1>3, <2>2, <2>3, SweptRow DEF Swept
    <3>2. worker' \in [Workers -> Claim]
      <4>1. /\ outbox[k].attempts + 1 \in 0..MaxAttempts
            /\ outbox[k].payload \in Payloads \cup {NoPayload}
        BY <2>1, ConstantsAssumption DEF Row
      <4>. QED BY <1>3, <2>1, <4>1 DEF IInv, TypeOK, Claim, Phase
    <3>. QED BY <1>1, <3>1, <3>2 DEF IInv, TypeOK
  <2>5. RowShape'
    <3>1. w # NoWorker /\ outbox'[k].payload \in Payloads
      BY <2>1, <2>3, ConstantsAssumption DEF IInv, RowShape, Unsettled
    <3>. QED BY <2>2, <2>3, <3>1, SweptRow DEF IInv, RowShape
  <2>6. ReportShape' /\ PreviewShape' /\ ReportRowAgreement' /\ VisibleShape' /\ SentIsVisible'
    <3>1. \A j \in Keys :
            /\ outbox'[j].payload = outbox[j].payload
            /\ outbox'[j].status = "absent" <=> outbox[j].status = "absent"
            /\ outbox'[j].status = "sent" <=> outbox[j].status = "sent"
      BY <2>1, <2>2, <2>3, SweptRow DEF Unsettled
    <3>. QED BY <1>1, <3>1, RowsKept
  <2>7. ClaimShape'
    <3>1. ASSUME NEW x \in Workers, x # w
          PROVE  worker'[x] = worker[x]
      BY <1>3, <3>1 DEF IInv, TypeOK
    <3>2. /\ worker'[w].phase = "claimed" /\ worker'[w].key = k
          /\ worker'[w].attempt = outbox[k].attempts + 1
          /\ worker'[w].payload = outbox[k].payload
      BY <1>3 DEF IInv, TypeOK
    <3>3. outbox[k].attempts \in Nat
      BY <2>1 DEF Row
    <3>4. \A j \in Keys :
            /\ outbox'[j].payload = outbox[j].payload
            /\ outbox[j].status # "absent" => outbox'[j].status # "absent"
            /\ j # k /\ outbox'[j].status = "sending" => outbox'[j] = outbox[j]
      BY <2>2, <2>3, SweptRow
    <3>5. visible' = visible
      BY <1>1
    <3>6. ASSUME NEW x \in Workers, worker'[x].phase # "idle", x # w
          PROVE  /\ worker'[x].key \in Keys
                 /\ worker'[x].attempt > 0
                 /\ outbox'[worker'[x].key].status # "absent"
                 /\ worker'[x].payload = outbox'[worker'[x].key].payload
                 /\ worker'[x].phase = "fallback" => worker'[x].payload \in CardRefused
                 /\ worker'[x].phase = "accepted" =>
                      \E u \in Uuids : visible'[worker'[x].key][u] # NoPayload
                 /\ Current(x)' => worker'[x].attempt = outbox'[worker'[x].key].attempts
      BY <2>3, <3>1, <3>4, <3>5, <3>6 DEF IInv, ClaimShape, Current
    <3>7. outbox[k].attempts + 1 > 0
      BY <3>3
    <3>. QED BY <2>1, <2>3, <3>2, <3>6, <3>7 DEF ClaimShape, Current
  <2>. QED BY <2>4, <2>5, <2>6, <2>7 DEF IInv
<1>. QED BY <1>2, <1>3 DEF ClaimDelivery

----------------------------------------------------------------------------
(***************************************************************************)
(* The invariant holds in every behaviour.                                 *)
(***************************************************************************)
LEMMA NextIInv == IInv /\ [Next]_vars => IInv'
<1> SUFFICES ASSUME IInv, [Next]_vars PROVE IInv'
  OBVIOUS
<1>1. CASE UNCHANGED vars
  BY <1>1
  DEF vars, IInv, TypeOK, RowShape, ReportShape, PreviewShape, ReportRowAgreement,
      ClaimShape, Current, VisibleShape, SentIsVisible
<1>2. ASSUME NEW r \in Reports, CloseWindow(r) \/ QueueReport(r) PROVE IInv'
  BY <1>2, CloseWindowIInv, QueueReportIInv
<1>3. ASSUME NEW v \in Previewers, NEW r \in Reports, NEW p \in Payloads, SaveReport(v, r, p)
      PROVE  IInv'
  BY <1>3, SaveReportIInv
<1>4. ASSUME NEW v \in Previewers, MarkReportPreviewed(v) \/ AbandonPreview(v) PROVE IInv'
  BY <1>4, MarkReportPreviewedIInv, AbandonPreviewIInv
<1>5. ASSUME NEW m \in Messages, NEW p \in Payloads, QueueMessage(m, p) PROVE IInv'
  BY <1>5, QueueMessageIInv
<1>6. ASSUME NEW w \in Drainers, ClaimNext(w) PROVE IInv'
  BY <1>6, ClaimDeliveryIInv DEF ClaimNext, Workers
<1>7. ASSUME NEW w \in Senders, NEW k \in Keys, ClaimById(w, k) PROVE IInv'
  BY <1>7, ClaimDeliveryIInv DEF ClaimById, Workers
<1>8. ASSUME NEW w \in Workers, Deliver(w) PROVE IInv'
  BY <1>8, CheckBindingIInv, SendAcceptedIInv, SendCardRefusedIInv, SendRefusedIInv,
     MarkSentIInv, FailDeliveryIInv, SkipDeliveryIInv
  DEF Deliver
<1>9. ASSUME NEW w \in Workers, Crash(w) PROVE IInv'
  BY <1>9, CrashIInv
<1>10. ASSUME NEW g \in Groups, Bind(g) PROVE IInv'
  BY <1>10, BindIInv
<1>. QED
  BY <1>1, <1>2, <1>3, <1>4, <1>5, <1>6, <1>7, <1>8, <1>9, <1>10, TickIInv DEF Next

\* IInv is an invariant of the specification.
THEOREM Invariance == Spec => []IInv
  BY InitIInv, NextIInv, PTL DEF Spec

\* Every reachable state has the types of the tables and of the workers' memory.
THEOREM TypeCorrect == Spec => []TypeOK
<1>1. IInv => TypeOK
  BY DEF IInv
<1>. QED BY <1>1, Invariance, PTL

\* A report and its official row agree on stage and content, so neither RuntimeError
\* of queue_report and mark_delivery_sent can be raised.
THEOREM RowsAgreeWithReports == Spec => []ReportRowAgreement
<1>1. IInv => ReportRowAgreement
  BY DEF IInv
<1>. QED BY <1>1, Invariance, PTL

\* The group sees at most one message of a key, with the content of its row.
THEOREM AtMostOneMessage == Spec => []OneVisibleMessage
  BY IInvOneVisibleMessage, Invariance, PTL

\* A row recorded as sent is visible in its group.
THEOREM SentRowsAreVisible == Spec => []SentIsVisible
<1>1. IInv => SentIsVisible
  BY DEF IInv
<1>. QED BY <1>1, Invariance, PTL

\* A worker that still owns a row's lease remembers the row's attempt and content.
THEOREM LeasesMatchClaims == Spec => []LeaseMatchesClaim
  BY IInvLeaseMatchesClaim, Invariance, PTL

----------------------------------------------------------------------------
(***************************************************************************)
(* What a step may do to reports and rows that are settled.  A row is      *)
(* given back only by the worker whose token it carries, and then it is    *)
(* "sending"; a claim and a tick leave settled rows alone.                 *)
(***************************************************************************)
StepsSettled == SettledStep /\ ReopenedStep

LEMMA TablesUnchangedSettled == ASSUME UNCHANGED <<report, outbox>> PROVE StepsSettled
  BY DEF StepsSettled, SettledStep, ReopenedStep

\* A step that changes one row and leaves the reports alone.
LEMMA OneRowSettled ==
  ASSUME IInv, UNCHANGED report, NEW k \in Keys,
         \A j \in Keys : j # k => outbox'[j] = outbox[j],
         outbox[k].status \notin {"sent", "failed", "skipped"}
  PROVE  StepsSettled
  BY DEF StepsSettled, SettledStep, ReopenedStep

LEMMA ReportStepsSettled ==
  ASSUME IInv, NEW r \in Reports,
         \/ \E v \in Previewers, p \in Payloads : SaveReport(v, r, p)
         \/ QueueReport(r)
  PROVE  StepsSettled
<1>1. ASSUME NEW v \in Previewers, NEW p \in Payloads, SaveReport(v, r, p) PROVE StepsSettled
  BY <1>1 DEF SaveReport, MaySave, IInv, TypeOK, StepsSettled, SettledStep, ReopenedStep
<1>2. CASE QueueReport(r)
  <2>1. r \in Keys /\ report' = [report EXCEPT ![r].status = "queued"] /\ report[r].status # "sent"
    BY <1>2 DEF QueueReport, Keys
  <2>2. \A s \in Reports :
          /\ report'[s].payload = report[s].payload
          /\ report[s].status = "sent" => report'[s] = report[s]
    BY <2>1 DEF IInv, TypeOK
  <2>3. \A j \in Keys : j # r => outbox'[j] = outbox[j]
    BY <1>2 DEF QueueReport, IInv, TypeOK
  <2>4. outbox'[r] = outbox[r] \/ (outbox[r].status # "sent" /\ outbox'[r] = Pending(report[r].payload))
    BY <1>2, <2>1 DEF QueueReport, IInv, TypeOK
  <2>5. outbox[r].status # "absent" => report[r].status = "queued"
    BY <2>1 DEF IInv, ReportRowAgreement
  <2>6. SettledStep
    BY <2>2, <2>3, <2>4 DEF SettledStep
  <2>7. ReopenedStep
    BY <2>3, <2>4, <2>5 DEF ReopenedStep, Pending
  <2>. QED BY <2>6, <2>7 DEF StepsSettled
<1>. QED BY <1>1, <1>2

LEMMA MarkReportPreviewedSettled ==
  ASSUME IInv, NEW v \in Previewers, MarkReportPreviewed(v) PROVE StepsSettled
  BY DEF MarkReportPreviewed, IInv, TypeOK, StepsSettled, SettledStep, ReopenedStep

LEMMA ClaimDeliverySettled ==
  ASSUME IInv, NEW w \in Workers, NEW keys \in SUBSET Keys, ClaimDelivery(w, keys)
  PROVE  StepsSettled
<1>1. report' = report
  BY DEF ClaimDelivery
<1>2. \A j \in Keys : outbox[j].status \in {"sent", "failed", "skipped"} => Swept[j] = outbox[j]
  BY SweptRow
<1>3. CASE outbox' = Swept
  BY <1>1, <1>2, <1>3 DEF StepsSettled, SettledStep, ReopenedStep
<1>4. ASSUME NEW k \in Candidates(keys), outbox' = [Swept EXCEPT ![k] = Leased(@, w)]
      PROVE  StepsSettled
  <2>1. k \in Keys /\ outbox[k].status \in Unsettled
    BY DueRow DEF Candidates
  <2>2. \A j \in Keys : j # k => outbox'[j] = Swept[j]
    BY <1>4 DEF Swept
  <2>. QED BY <1>1, <1>2, <2>1, <2>2 DEF StepsSettled, SettledStep, ReopenedStep, Unsettled
<1>. QED BY <1>3, <1>4 DEF ClaimDelivery

LEMMA GiveBackSettled ==
  ASSUME IInv, NEW w \in Workers, MarkSent(w) \/ FailDelivery(w) \/ SkipDelivery(w)
  PROVE  StepsSettled
<1> DEFINE k == worker[w].key
<1>1. k \in Keys
  BY DEF MarkSent, FailDelivery, SkipDelivery, IInv, ClaimShape
<1>2. CASE Current(w)
  <2>1. outbox[k].status = "sending"
    BY <1>2 DEF Current
  <2>2. \A j \in Keys : j # k => outbox'[j] = outbox[j]
    <3>1. CASE MarkSent(w)
      BY <3>1 DEF MarkSent, IInv, TypeOK
    <3>2. CASE FailDelivery(w)
      BY <3>2 DEF FailDelivery, IInv, TypeOK
    <3>3. CASE SkipDelivery(w)
      BY <3>3 DEF SkipDelivery, IInv, TypeOK
    <3>. QED BY <3>1, <3>2, <3>3
  <2>3. CASE report' = report
    BY <1>1, <2>1, <2>2, <2>3, OneRowSettled
  <2>4. CASE report' # report
    <3>1. /\ k \in Reports /\ report[k].status = "queued"
          /\ report' = [report EXCEPT ![k].status = "sent"]
      BY <2>4 DEF MarkSent, FailDelivery, SkipDelivery
    <3>2. \A r \in Reports :
            /\ report'[r].payload = report[r].payload
            /\ report[r].status = "sent" => report'[r] = report[r]
      BY <3>1 DEF IInv, TypeOK
    <3>. QED BY <2>1, <2>2, <3>2 DEF StepsSettled, SettledStep, ReopenedStep
  <2>. QED BY <2>3, <2>4
<1>3. CASE ~Current(w)
  <2>1. UNCHANGED <<report, outbox>>
    BY <1>3 DEF MarkSent, FailDelivery, SkipDelivery
  <2>. QED BY <2>1, TablesUnchangedSettled
<1>. QED BY <1>2, <1>3

LEMMA TickSettled == ASSUME IInv, Tick PROVE StepsSettled
<1>1. ASSUME NEW j \in Keys PROVE outbox'[j].status = outbox[j].status
  <2>1. outbox[j] \in Row /\ outbox'[j] = [outbox[j] EXCEPT !.wait = CountDown(@), !.lease = CountDown(@)]
    BY DEF Tick, IInv, TypeOK
  <2>. QED BY <2>1, CountedDownRow
<1>2. ASSUME NEW j \in Keys, outbox[j].status = "sent" PROVE outbox'[j] = outbox[j]
  <2>1. outbox[j] \in Row /\ outbox[j].wait = 0 /\ outbox[j].lease = 0
    BY <1>2 DEF IInv, TypeOK, RowShape
  <2>2. CountDown(0) = 0
    BY DEF CountDown
  <2>3. outbox'[j] = [outbox[j] EXCEPT !.wait = 0, !.lease = 0]
    BY <2>1, <2>2 DEF Tick
  <2>. QED BY <2>1, <2>3 DEF Row
<1>. QED BY <1>1, <1>2 DEF Tick, StepsSettled, SettledStep, ReopenedStep

LEMMA NextSettled == ASSUME IInv, [Next]_vars PROVE StepsSettled
<1>1. CASE UNCHANGED vars
  BY <1>1, TablesUnchangedSettled DEF vars
<1>2. ASSUME NEW r \in Reports, CloseWindow(r) PROVE StepsSettled
  BY <1>2, TablesUnchangedSettled DEF CloseWindow
<1>3. ASSUME NEW r \in Reports, NEW v \in Previewers, NEW p \in Payloads,
             SaveReport(v, r, p) \/ QueueReport(r)
      PROVE  StepsSettled
  BY <1>3, ReportStepsSettled
<1>4. ASSUME NEW r \in Reports, QueueReport(r) PROVE StepsSettled
  BY <1>4, ReportStepsSettled
<1>5. ASSUME NEW v \in Previewers, MarkReportPreviewed(v) \/ AbandonPreview(v)
      PROVE  StepsSettled
  BY <1>5, MarkReportPreviewedSettled, TablesUnchangedSettled DEF AbandonPreview
<1>6. ASSUME NEW m \in Messages, NEW p \in Payloads, QueueMessage(m, p) PROVE StepsSettled
  <2>1. /\ m \in Keys /\ outbox[m].status = "absent" /\ report' = report
        /\ \A j \in Keys : j # m => outbox'[j] = outbox[j]
    BY <1>6 DEF QueueMessage, Keys, IInv, TypeOK
  <2>. QED BY <2>1, OneRowSettled
<1>7. ASSUME NEW w \in Drainers, ClaimNext(w) PROVE StepsSettled
  BY <1>7, ClaimDeliverySettled DEF ClaimNext, Workers
<1>8. ASSUME NEW w \in Senders, NEW k \in Keys, ClaimById(w, k) PROVE StepsSettled
  BY <1>8, ClaimDeliverySettled DEF ClaimById, Workers
<1>9. ASSUME NEW w \in Workers, Deliver(w) \/ Crash(w) PROVE StepsSettled
  <2>1. CASE MarkSent(w) \/ FailDelivery(w) \/ SkipDelivery(w)
    BY <2>1, GiveBackSettled
  <2>2. CASE CheckBinding(w) \/ SendAccepted(w) \/ SendCardRefused(w) \/ SendRefused(w) \/ Crash(w)
    BY <2>2, TablesUnchangedSettled
    DEF CheckBinding, SendAccepted, SendCardRefused, SendRefused, Crash
  <2>. QED BY <1>9, <2>1, <2>2 DEF Deliver
<1>10. ASSUME NEW g \in Groups, Bind(g) PROVE StepsSettled
  BY <1>10, TablesUnchangedSettled DEF Bind
<1>. QED
  BY <1>1, <1>2, <1>3, <1>4, <1>5, <1>6, <1>7, <1>8, <1>9, <1>10, TickSettled DEF Next

\* Once a report has a row its content never changes, what is sent stays as it is, and
\* only queue_report reopens what was given up.
THEOREM SettledStaysSettled == Spec => SettledForGood
<1>1. IInv /\ [Next]_vars => [SettledStep /\ ReopenedStep]_vars
  BY NextSettled DEF StepsSettled
<1>. QED BY <1>1, Invariance, PTL DEF Spec, SettledForGood

----------------------------------------------------------------------------
(***************************************************************************)
(* Refinement: every step is a step of ReportPromise, or leaves stage,     *)
(* content and messages as they are.                                       *)
(***************************************************************************)
PromiseStep == [Promise!Next]_(Promise!vars)

LEMMA PromiseUnchanged == ASSUME UNCHANGED <<report, visible>> PROVE PromiseStep
  BY DEF PromiseStep, Promise!vars, PromiseStage, PromiseContent, PromiseShown, Committed

\* Before a report is queued its status and content are free.
LEMMA PromiseDraft ==
  ASSUME IInv, UNCHANGED visible,
         \A r \in Reports :
           /\ report'[r].status = report[r].status \/ {report[r].status, report'[r].status}
                \cap {"queued", "sent"} = {}
           /\ Committed(r) => report'[r].payload = report[r].payload
  PROVE  PromiseStep
<1>1. \A r \in Reports :
        /\ Committed(r)' <=> Committed(r)
        /\ report'[r].status = "sent" <=> report[r].status = "sent"
        /\ Committed(r) => report'[r].payload = report[r].payload
  BY DEF Committed
<1>2. PromiseStage' = PromiseStage /\ PromiseContent' = PromiseContent
  BY <1>1 DEF PromiseStage, PromiseContent, Committed
<1>3. PromiseShown' = PromiseShown
  BY DEF PromiseShown
<1>. QED BY <1>2, <1>3 DEF PromiseStep, Promise!vars

LEMMA PromiseSaveReport ==
  ASSUME IInv, NEW v \in Previewers, NEW r \in Reports, NEW p \in Payloads, SaveReport(v, r, p)
  PROVE  PromiseStep
<1>1. UNCHANGED visible
  BY DEF SaveReport
<1>2. \A s \in Reports :
        /\ report'[s].status = report[s].status \/ {report[s].status, report'[s].status}
             \cap {"queued", "sent"} = {}
        /\ Committed(s) => report'[s].payload = report[s].payload
  BY DEF SaveReport, MaySave, Committed, IInv, TypeOK
<1>. QED BY <1>1, <1>2, PromiseDraft

LEMMA PromiseMarkReportPreviewed ==
  ASSUME IInv, NEW v \in Previewers, MarkReportPreviewed(v) PROVE PromiseStep
<1>1. UNCHANGED visible
  BY DEF MarkReportPreviewed
<1>2. \A s \in Reports :
        /\ report'[s].status = report[s].status \/ {report[s].status, report'[s].status}
             \cap {"queued", "sent"} = {}
        /\ Committed(s) => report'[s].payload = report[s].payload
  BY DEF MarkReportPreviewed, IInv, TypeOK
<1>. QED BY <1>1, <1>2, PromiseDraft

\* Queueing a report for the first time commits to its content.
LEMMA PromiseQueueReport == ASSUME IInv, NEW r \in Reports, QueueReport(r) PROVE PromiseStep
<1>1. /\ report[r].status \in {"previewed", "queued"} /\ report[r].payload \in Payloads
      /\ report' = [report EXCEPT ![r].status = "queued"] /\ UNCHANGED visible
  BY DEF QueueReport, IInv, ReportShape
<1>2. PromiseShown' = PromiseShown
  BY <1>1 DEF PromiseShown
<1>3. \A s \in Reports : s # r => report'[s] = report[s]
  BY <1>1 DEF IInv, TypeOK
<1>4. report'[r].status = "queued" /\ report'[r].payload = report[r].payload
  BY <1>1 DEF IInv, TypeOK
<1>5. CASE report[r].status = "queued"
  <2>1. PromiseStage' = PromiseStage /\ PromiseContent' = PromiseContent
    BY <1>3, <1>4, <1>5 DEF PromiseStage, PromiseContent, Committed
  <2>. QED BY <1>2, <2>1 DEF PromiseStep, Promise!vars
<1>6. CASE report[r].status = "previewed"
  <2>1. PromiseStage[r] = "open"
    BY <1>6 DEF PromiseStage, Committed
  <2>2. PromiseStage' = [PromiseStage EXCEPT ![r] = "committed"]
    BY <1>3, <1>4 DEF PromiseStage, Committed
  <2>3. PromiseContent' = [PromiseContent EXCEPT ![r] = report[r].payload]
    BY <1>3, <1>4 DEF PromiseContent, Committed
  <2>. QED BY <1>1, <1>2, <2>1, <2>2, <2>3 DEF PromiseStep, Promise!Next, Promise!Commit
<1>. QED BY <1>1, <1>5, <1>6

\* A request for a report's key that Feishu takes shows it, the first time.
LEMMA PromiseSendAccepted == ASSUME IInv, NEW w \in Workers, SendAccepted(w) PROVE PromiseStep
<1> DEFINE k == worker[w].key
           u == UuidOf(w)
           p == worker[w].payload
<1>1. /\ k \in Keys /\ u \in Uuids /\ p \in Payloads /\ p # NoPayload
      /\ outbox[k].status # "absent" /\ outbox[k].payload = p
      /\ u = "key:text" <=> p \in CardRefused
  BY ConstantsAssumption
  DEF SendAccepted, Takes, UuidOf, Uuids, IInv, TypeOK, ClaimShape, RowShape
<1>2. visible' = [visible EXCEPT ![k][u] = IF @ = NoPayload THEN p ELSE @] /\ UNCHANGED report
  BY DEF SendAccepted, Show
<1>3. PromiseStage' = PromiseStage /\ PromiseContent' = PromiseContent
  BY <1>2 DEF PromiseStage, PromiseContent, Committed
<1>4. CASE k \in Reports /\ visible[k][u] = NoPayload
  <2>1. /\ report[k].status \in {"queued", "sent"} /\ report[k].payload = p
    BY <1>1, <1>4 DEF IInv, ReportRowAgreement
  <2>2. PromiseStage[k] # "open" /\ PromiseContent[k] = p
    BY <1>4, <2>1 DEF PromiseStage, PromiseContent, Committed
  <2>3. \A x \in Uuids : visible[k][x] = NoPayload
    BY <1>1, <1>4 DEF IInv, VisibleShape, Uuids
  <2>4. \A r \in Reports, x \in Uuids :
          visible'[r][x] = IF r = k /\ x = u THEN p ELSE visible[r][x]
    BY <1>1, <1>2, <1>4 DEF IInv, TypeOK, Keys
  <2>5. PromiseShown[k] = {}
    BY <1>4, <2>3 DEF PromiseShown
  <2>6. PromiseShown' = [PromiseShown EXCEPT ![k] = {<<u, p>>}]
    <3>1. \A r \in Reports : r # k =>
            {<<x, visible'[r][x]>> : x \in {y \in Uuids : visible'[r][y] # NoPayload}}
              = {<<x, visible[r][x]>> : x \in {y \in Uuids : visible[r][y] # NoPayload}}
      BY <2>4
    <3>2. {y \in Uuids : visible'[k][y] # NoPayload} = {u}
      BY <1>1, <1>4, <2>3, <2>4
    <3>3. {<<x, visible'[k][x]>> : x \in {y \in Uuids : visible'[k][y] # NoPayload}} = {<<u, p>>}
      BY <1>1, <1>4, <2>4, <3>2
    <3>. QED BY <1>4, <3>1, <3>3 DEF PromiseShown
  <2>. QED BY <1>1, <1>3, <1>4, <2>2, <2>5, <2>6
       DEF PromiseStep, Promise!Next, Promise!ShowReport
<1>5. CASE ~(k \in Reports /\ visible[k][u] = NoPayload)
  <2>1. \A r \in Reports, x \in Uuids : visible'[r][x] = visible[r][x]
    BY <1>1, <1>2, <1>5 DEF IInv, TypeOK, Keys
  <2>2. PromiseShown' = PromiseShown
    BY <2>1 DEF PromiseShown
  <2>. QED BY <1>3, <2>2 DEF PromiseStep, Promise!vars
<1>. QED BY <1>4, <1>5

\* A success is recorded only when the group has the message.
LEMMA PromiseMarkSent == ASSUME IInv, NEW w \in Workers, MarkSent(w) PROVE PromiseStep
<1> DEFINE k == worker[w].key
<1>1. UNCHANGED visible /\ PromiseShown' = PromiseShown
  BY DEF MarkSent, PromiseShown
<1>2. CASE report' = report
  BY <1>1, <1>2, PromiseUnchanged
<1>3. CASE report' # report
  <2>1. /\ k \in Reports /\ report[k].status = "queued"
        /\ report' = [report EXCEPT ![k].status = "sent"]
    BY <1>3 DEF MarkSent
  <2>2. \E x \in Uuids : visible[k][x] # NoPayload
    BY DEF MarkSent, IInv, ClaimShape
  <2>3. PromiseShown[k] # {}
    BY <2>1, <2>2 DEF PromiseShown
  <2>4. /\ \A r \in Reports : r # k => report'[r] = report[r]
        /\ report'[k].status = "sent" /\ report'[k].payload = report[k].payload
    BY <2>1 DEF IInv, TypeOK
  <2>5. PromiseStage[k] = "committed"
    BY <2>1 DEF PromiseStage, Committed
  <2>6. PromiseStage' = [PromiseStage EXCEPT ![k] = "delivered"]
    BY <2>1, <2>4 DEF PromiseStage, Committed
  <2>7. PromiseContent' = PromiseContent
    BY <2>1, <2>4 DEF PromiseContent, Committed
  <2>. QED BY <1>1, <2>1, <2>3, <2>5, <2>6, <2>7 DEF PromiseStep, Promise!Next, Promise!Deliver
<1>. QED BY <1>2, <1>3

LEMMA NextPromise == ASSUME IInv, [Next]_vars PROVE PromiseStep
<1>1. CASE UNCHANGED <<report, visible>>
  BY <1>1, PromiseUnchanged
<1>2. ASSUME NEW v \in Previewers, NEW r \in Reports, NEW p \in Payloads, SaveReport(v, r, p)
      PROVE  PromiseStep
  BY <1>2, PromiseSaveReport
<1>3. ASSUME NEW v \in Previewers, MarkReportPreviewed(v) PROVE PromiseStep
  BY <1>3, PromiseMarkReportPreviewed
<1>4. ASSUME NEW r \in Reports, QueueReport(r) PROVE PromiseStep
  BY <1>4, PromiseQueueReport
<1>5. ASSUME NEW w \in Workers, SendAccepted(w) \/ MarkSent(w) PROVE PromiseStep
  BY <1>5, PromiseSendAccepted, PromiseMarkSent
<1>6. ASSUME NEW w \in Workers, Deliver(w), ~SendAccepted(w), ~MarkSent(w)
      PROVE  UNCHANGED <<report, visible>>
  BY <1>6 DEF Deliver, CheckBinding, SendCardRefused, SendRefused, FailDelivery, SkipDelivery
<1>7. ASSUME NEW w \in Workers, NEW keys, ClaimDelivery(w, keys)
      PROVE  UNCHANGED <<report, visible>>
  BY <1>7 DEF ClaimDelivery
<1>8. (\E w \in Drainers : ClaimNext(w)) \/ (\E w \in Senders, k \in Keys : ClaimById(w, k))
        => UNCHANGED <<report, visible>>
  BY <1>7 DEF ClaimNext, ClaimById, Workers
<1>9. ASSUME \/ \E r \in Reports : CloseWindow(r)
             \/ \E v \in Previewers : AbandonPreview(v)
             \/ \E m \in Messages, p \in Payloads : QueueMessage(m, p)
             \/ \E w \in Workers : Crash(w)
             \/ \E g \in Groups : Bind(g)
             \/ Tick
      PROVE  UNCHANGED <<report, visible>>
  BY <1>9 DEF CloseWindow, AbandonPreview, QueueMessage, Crash, Bind, Tick
<1>. QED BY <1>1, <1>2, <1>3, <1>4, <1>5, <1>6, <1>8, <1>9 DEF Next, vars

LEMMA InitPromise == Init => Promise!Init
<1> SUFFICES ASSUME Init PROVE Promise!Init
  OBVIOUS
<1>1. PromiseStage = [r \in Reports |-> "open"] /\ PromiseContent = [r \in Reports |-> NoPayload]
  BY DEF Init, PromiseStage, PromiseContent, Committed
<1>2. \A r \in Reports : {v \in Uuids : visible[r][v] # NoPayload} = {}
  BY DEF Init, Keys
<1>3. PromiseShown = [r \in Reports |-> {}]
  BY <1>2 DEF PromiseShown
<1>. QED BY <1>1, <1>3 DEF Promise!Init

\* The outbox with its workers, crashes and requeues implements ReportPromise: one
\* message per report, of the content queued, shown before success is recorded.
THEOREM ImplementsReportPromise == Spec => KeepsReportPromise
<1>1. IInv /\ [Next]_vars => [Promise!Next]_(Promise!vars)
  BY NextPromise DEF PromiseStep
<1>. QED BY <1>1, InitPromise, Invariance, PTL DEF Spec, KeepsReportPromise, Promise!Spec

=============================================================================
