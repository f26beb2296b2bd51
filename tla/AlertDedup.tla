----------------------------- MODULE AlertDedup -----------------------------
(***************************************************************************)
(* Which alerts are queued: queue_due of                                   *)
(* src/src/commerce_agent/intelligence/reports.py and queue_alerts of      *)
(* repository.py, run by the analysis job after each batch, while analyses *)
(* arrive and are superseded, the group changes its profile and the        *)
(* delivery job settles rows.  One group; an action is one transaction.    *)
(* Only the analysis job queues alerts, and one at a time.                 *)
(***************************************************************************)
EXTENDS RiskPolicy, Sequences, SequencesExt

CONSTANTS
  Versions,   \* document versions that get an analysis, numbers in the order of their ids
  Analysis,   \* of each: event (fingerprint), content (hash), type, level, score
  DayTicks,   \* 24 hours: the dedup window, the candidates' age and the key's bucket
  MaxHour,    \* bound on the clock
  MaxAlerts   \* bound on the rows

ASSUME AlertsAssumption ==
  /\ Versions \subseteq Nat
  /\ \A v \in Versions : Analysis[v].level \in RiskLevels
  /\ DayTicks \in Nat \ {0}
  /\ MaxHour \in Nat /\ MaxAlerts \in Nat

VARIABLES
  hour,       \* the clock, in ticks
  analyzed,   \* analyzed_at of each version; Unlisted before that, and once the version
              \* is superseded or its source no longer allowed
  profile,    \* the group's risk profile
  alerts      \* the alert rows of the outbox, by id

alertVars == <<hour, analyzed, profile, alerts>>

Unlisted == {-2, -1}   \* withdrawn, not analysed yet

AlertInit ==
  /\ hour = 0
  /\ analyzed = [v \in Versions |-> -1]
  /\ profile = "default"
  /\ alerts = <<>>

----------------------------------------------------------------------------
(***************************************************************************)
(* The messages of a batch of analyses.                                    *)
(***************************************************************************)
Bucket(now) == now \div DayTicks

Decision(v, p) == Assess(Analysis[v].type, Analysis[v].level, Analysis[v].score, p)

AlertItem(v, p) == [event   |-> Analysis[v].event, risk    |-> Decision(v, p).risk,
                    version |-> v,                 content |-> Analysis[v].content]

HighAlert(v, p, now) ==
  [kind  |-> "high_alert",
   key   |-> <<"alert", Analysis[v].event, Analysis[v].content, Bucket(now)>>,
   items |-> {AlertItem(v, p)}]

\* The key of a batch says event, risk and content of its items, not their versions.
BatchKey(items, now) ==
  <<"alert-batch", {<<i.event, i.risk, i.content>> : i \in items}, Bucket(now)>>

MediumBatch(vs, p, now) ==
  LET items == {AlertItem(v, p) : v \in vs}
  IN [kind |-> "medium_alert_batch", key |-> BatchKey(items, now), items |-> items]

Alertable(vs, p) == {v \in vs : Decision(v, p).qualification # "none"}

\* The order of the candidates.
ByAnalysis(vs) ==
  LET before(u, v) == analyzed[u] < analyzed[v] \/ (analyzed[u] = analyzed[v] /\ u < v)
  IN CHOOSE s \in SetToSeqs(vs) : \A i, j \in DOMAIN s : i < j => before(s[i], s[j])

\* _compose_messages: verified high risks one by one, by analysis time, then the others
\* that qualify in one batch.
Messages(vs, p, now) ==
  LET eligible == Alertable(vs, p)
      verified == {v \in eligible : Decision(v, p).risk = "high"
                                      /\ Decision(v, p).qualification = "verified"}
      orange   == eligible \ verified
      highs    == ByAnalysis(verified)
  IN [n \in DOMAIN highs |-> HighAlert(highs[n], p, now)]
       \o IF orange = {} THEN <<>> ELSE <<MediumBatch(orange, p, now)>>

----------------------------------------------------------------------------
(***************************************************************************)
(* queue_alerts.                                                           *)
(***************************************************************************)

\* live: pending, sending, retry_wait or sent (_ALERT_DEDUP_STATUSES); lost: failed or
\* skipped.
AlertStatus == {"live", "lost"}

\* Mutant: the window is a calendar day.
RecentToday(now) ==
  {n \in DOMAIN alerts : alerts[n].status = "live" /\ Bucket(alerts[n].created) = Bucket(now)}

RecentAlerts(now) ==
  {n \in DOMAIN alerts : /\ alerts[n].status = "live"
                         /\ alerts[n].created > now - DayTicks /\ alerts[n].created <= now}

RecentItems(now) == UNION {alerts[n].items : n \in RecentAlerts(now)}

\* _alert_item_allowed: the event is new, or its risk has risen above all that was
\* alerted, or nothing alerted of it has this version or this content.
Allowed(item, recent) ==
  LET matching == {i \in recent : i.event = item.event}
  IN \/ \A i \in matching : RiskRank[item.risk] > RiskRank[i.risk]
     \/ \A i \in matching : item.version # i.version /\ item.content # i.content

\* _with_alert_items: a message that loses items gets a key of its own.
WithItems(m, items, now) ==
  IF items = m.items THEN m
  ELSE [m EXCEPT !.items = items, !.key = <<"alert-filtered", items, Bucket(now)>>]

\* _deduplicate_alert_messages: each message against the recent rows and the messages
\* before it; one that loses every item is dropped.
AddMessage(acc, m, now) ==
  LET kept == {i \in m.items : Allowed(i, acc.recent)}
  IN IF kept = {} THEN acc
     ELSE [recent |-> acc.recent \cup kept, out |-> Append(acc.out, WithItems(m, kept, now))]

Deduplicated(messages, now) ==
  FoldLeft(LAMBDA acc, m : AddMessage(acc, m, now),
           [recent |-> RecentItems(now), out |-> <<>>], messages).out

\* Mutant: a lost alert keeps its key, which is taken.
NextKeyAgain(m, rows) == m.key

\* _next_alert_idempotency_key: an alert whose like was lost is queued again under a key
\* derived from the newest lost row.
NextKey(m, rows) ==
  LET lost == {n \in DOMAIN rows : /\ rows[n].kind = m.kind /\ rows[n].status = "lost"
                                   /\ rows[n].items = m.items}
  IN IF lost = {} THEN m.key
     ELSE <<"alert-requeue", m.key, CHOOSE n \in lost : \A k \in lost : k <= n>>

\* A key that is taken inserts nothing.
AddRow(rows, m, now) ==
  LET key == NextKey(m, rows)
  IN IF \E n \in DOMAIN rows : rows[n].key = key THEN rows
     ELSE Append(rows, [kind |-> m.kind, key |-> key, items |-> m.items,
                        status |-> "live", created |-> now])

Inserted(messages, now) == FoldLeft(LAMBDA rows, m : AddRow(rows, m, now), alerts, messages)

----------------------------------------------------------------------------
(***************************************************************************)
(* Actions.                                                                *)
(***************************************************************************)

Candidates == {v \in Versions : analyzed[v] \notin Unlisted /\ analyzed[v] >= hour - DayTicks}

\* queue_due: the candidates, the profile, and the messages queued in one transaction.
\* What other actions do between these reads would do as well before or after them.
RowsQueued == Inserted(Deduplicated(Messages(Candidates, profile, hour), hour), hour)

QueueDue ==
  /\ Len(RowsQueued) <= MaxAlerts
  /\ alerts' = RowsQueued
  /\ UNCHANGED <<hour, analyzed, profile>>

\* complete_analysis.
CompleteAnalysis(v) ==
  /\ analyzed[v] = -1
  /\ analyzed' = [analyzed EXCEPT ![v] = hour]
  /\ UNCHANGED <<hour, profile, alerts>>

\* The document gets a new current version, or its source is denied.
Withdraw(v) ==
  /\ analyzed[v] \notin Unlisted
  /\ analyzed' = [analyzed EXCEPT ![v] = -2]
  /\ UNCHANGED <<hour, profile, alerts>>

SetProfile(p) ==
  /\ p # profile
  /\ profile' = p
  /\ UNCHANGED <<hour, analyzed, alerts>>

\* fail_delivery or skip_delivery, for good.
LoseAlert(n) ==
  /\ alerts[n].status = "live"
  /\ alerts' = [alerts EXCEPT ![n].status = "lost"]
  /\ UNCHANGED <<hour, analyzed, profile>>

AlertTick ==
  /\ hour < MaxHour
  /\ hour' = hour + 1
  /\ UNCHANGED <<analyzed, profile, alerts>>

AlertNext ==
  \/ QueueDue
  \/ \E v \in Versions : CompleteAnalysis(v) \/ Withdraw(v)
  \/ \E p \in Profiles : SetProfile(p)
  \/ \E n \in DOMAIN alerts : LoseAlert(n)
  \/ AlertTick

AlertSpec == AlertInit /\ [][AlertNext]_alertVars

----------------------------------------------------------------------------
(***************************************************************************)
(* Properties.                                                             *)
(***************************************************************************)
AlertItems == [event : {Analysis[v].event : v \in Versions}, risk : RiskLevels,
               version : Versions, content : {Analysis[v].content : v \in Versions}]

AlertTypeOK ==
  /\ hour \in 0..MaxHour
  /\ analyzed \in [Versions -> -2..MaxHour]
  /\ profile \in Profiles
  /\ Len(alerts) <= MaxAlerts
  /\ \A n \in DOMAIN alerts :
       /\ alerts[n].status \in AlertStatus
       /\ alerts[n].items # {} /\ alerts[n].items \subseteq AlertItems
       /\ alerts[n].created \in 0..MaxHour

Live(n) == alerts[n].status = "live"

\* An event already alerted in the last 24 hours, in a row that is not lost, is alerted
\* again only when its risk has risen or the document is another with another content:
\* whatever the profile was in between, and whether a batch, a single alert or a requeued
\* one brought it.
AlertedOnce ==
  \A n \in DOMAIN alerts : \A k \in 1..(n - 1) :
    Live(k) /\ Live(n) /\ alerts[n].created - alerts[k].created < DayTicks =>
      \A i \in alerts[k].items, j \in alerts[n].items :
        i.event = j.event => \/ RiskRank[j.risk] > RiskRank[i.risk]
                             \/ j.version # i.version /\ j.content # i.content

\* The live rows of the window, together, speak for an item: one has the version or the
\* content, one (another, it may be) has the risk.
Covered(item, now, rows) ==
  LET heard == {n \in DOMAIN rows : rows[n].status = "live" /\ rows[n].created > now - DayTicks}
  IN ~Allowed(item, UNION {rows[n].items : n \in heard})

\* A lost row has the content of a candidate under another version.
CopyWasLost ==
  \E n \in DOMAIN alerts, v \in Candidates : \E i \in alerts[n].items :
    alerts[n].status = "lost" /\ i.content = Analysis[v].content /\ i.version # v

\* When alerts are queued, every candidate worth an alert is covered by rows that can
\* still reach the group, also when the same alert was lost before: no taken key swallows
\* it, except where the lost alert was of a copy of the article, whose key has the same
\* content hash and another identity.
NoAlertSwallowed ==
  LET rows == RowsQueued
  IN Len(rows) <= MaxAlerts /\ ~CopyWasLost =>
       \A v \in Alertable(Candidates, profile) : Covered(AlertItem(v, profile), hour, rows)
=============================================================================
