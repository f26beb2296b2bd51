--------------------------- MODULE DailySchedule ---------------------------
(***************************************************************************)
(* The day of the report: the jobs of                                      *)
(* src/src/commerce_agent/intelligence/scheduler.py that prepare it before *)
(* nine, send it at nine and catch up after a late start, the pipeline     *)
(* they run (ingestion/pre_report.py), and the report they build, preview  *)
(* and queue (reports.py, repository.py), while material is fetched and    *)
(* analysed all day and the process stops and starts.  The hour of the     *)
(* report is nine, the default.  What happens to a queued report is in     *)
(* DeliveryOutbox.                                                         *)
(***************************************************************************)
EXTENDS Integers, FiniteSets

CONSTANTS
  Materials,    \* document versions worth a report (score, platform, compliance)
  ByHand,       \* bound: windows whose report is previewed or sent by hand
  LastWindow,   \* bound: windows 0..LastWindow
  Groups,       \* chat groups that may bind the bot
  NoWindow, NoGroup

ASSUME ScheduleAssumption ==
  /\ LastWindow \in Nat /\ ByHand \subseteq 0..LastWindow
  /\ NoWindow \notin Nat /\ NoGroup \notin Groups

VARIABLES
  now,          \* the clock, in phases
  fetchedAt, analysed,   \* of each material; Unfetched before
  report,       \* of each group and window: its status and items
  up,           \* does the process run
  active,       \* the group that has bound the bot last; NoGroup before any has
  due,          \* jobs the scheduler has fired and not started, with the window they take
  prepare, catchup,      \* the running jobs
  troubled      \* history: windows whose jobs did not run, failed or ended after nine, or
                \* served two groups

scheduleVars == <<now, fetchedAt, analysed, report, up, active, due, prepare, catchup, troubled>>

\* A window goes from nine to nine; its report carries the date of its end.  It has the
\* phases Day (to midnight), Night, Prepare (from 8:40) and Late (8:59 to nine).
Day == 0
Night == 1
Prepare == 2
Late == 3
Phase == now % 4
Window == now \div 4

Windows == 0..LastWindow
Unfetched == -1
Statuses == {"none", "draft", "previewed", "queued"}
Stages == {"idle", "collecting", "draining", "saved"}
NoJob == [stage |-> "idle", window |-> NoWindow, group |-> NoGroup]

ScheduleInit ==
  /\ now = 0
  /\ fetchedAt = [m \in Materials |-> Unfetched]
  /\ analysed = {}
  /\ report = [r \in Groups \X Windows |-> [status |-> "none", items |-> {}]]
  /\ up = TRUE /\ active = NoGroup
  /\ due = {}
  /\ prepare = NoJob /\ catchup = NoJob
  /\ troubled = {}

----------------------------------------------------------------------------
(***************************************************************************)
(* Material.                                                               *)
(***************************************************************************)

\* A collection, a mail or a message of the group brings it.
Fetch(m) ==
  /\ up /\ fetchedAt[m] = Unfetched
  /\ fetchedAt' = [fetchedAt EXCEPT ![m] = now]
  /\ UNCHANGED <<now, analysed, report, up, active, due, prepare, catchup, troubled>>

\* The analysis job or the drain of the pipeline.
Analyse(m) ==
  /\ up /\ fetchedAt[m] # Unfetched /\ m \notin analysed
  /\ analysed' = analysed \cup {m}
  /\ UNCHANGED <<now, fetchedAt, report, up, active, due, prepare, catchup, troubled>>

----------------------------------------------------------------------------
(***************************************************************************)
(* The report.                                                             *)
(***************************************************************************)

\* report_window.
InWindow(t, w) == 4 * w <= t /\ t < 4 * (w + 1)

\* build: what list_report_analyses finds.
Build(w) == {m \in analysed : InWindow(fetchedAt[m], w)}

\* save_report raises for a queued report whose content is another, and for a sent one,
\* which is queued here.
Savable(r) == report[r].status # "queued" \/ report[r].items = Build(r[2])

Saved(r) ==
  [report EXCEPT ![r] = CASE @.status = "none" -> [status |-> "draft", items |-> Build(r[2])]
                          [] @.status \in {"draft", "previewed"} -> [@ EXCEPT !.items = Build(r[2])]
                          [] OTHER -> @]

\* mark_report_previewed.
Marked(r) == [report EXCEPT ![r].status = IF @ = "draft" THEN "previewed" ELSE @]

\* queue_previewed: the window is over and there is a preview for this group.
Queueable(r) == now >= 4 * (r[2] + 1) /\ report[r].status \in {"previewed", "queued"}
Committed(r) == report[r].status = "queued"
Queued(r) == [report EXCEPT ![r].status = "queued"]

\* The commands report preview and report send, each in a process of its own.
PreviewByHand(w) ==
  /\ active # NoGroup /\ w <= Window /\ ~Committed(<<active, w>>)
  /\ report' = [Saved(<<active, w>>) EXCEPT ![<<active, w>>].status = "previewed"]
  /\ UNCHANGED <<now, fetchedAt, analysed, up, active, due, prepare, catchup, troubled>>

SendByHand(w) ==
  /\ active # NoGroup /\ Queueable(<<active, w>>) /\ ~Committed(<<active, w>>)
  /\ report' = Queued(<<active, w>>)
  /\ UNCHANGED <<now, fetchedAt, analysed, up, active, due, prepare, catchup, troubled>>

----------------------------------------------------------------------------
(***************************************************************************)
(* The jobs.                                                               *)
(***************************************************************************)
Job(kind, w) == [kind |-> kind, window |-> w]
Started(w) == [stage |-> "collecting", window |-> w, group |-> active]
Row(job) == <<job.group, job.window>>

\* A job finds no bound group and ends.
IdleJob ==
  /\ active = NoGroup
  /\ \E j \in due : due' = due \ {j} /\ troubled' = troubled \cup {j.window}
  /\ UNCHANGED <<now, fetchedAt, analysed, report, up, active, prepare, catchup>>

\* _run_daily_prepare, one at a time (max_instances): the group and the date are read once;
\* sources are collected until 8:55.
StartPrepare ==
  /\ active # NoGroup /\ prepare = NoJob
  /\ \E w \in Windows : /\ Job("prepare", w) \in due
                        /\ due' = due \ {Job("prepare", w)} /\ prepare' = Started(w)
  /\ UNCHANGED <<now, fetchedAt, analysed, report, up, active, catchup, troubled>>

\* _run_daily_catchup.
StartCatchup ==
  /\ active # NoGroup
  /\ \E w \in Windows : /\ Job("catchup", w) \in due
                        /\ due' = due \ {Job("catchup", w)} /\ catchup' = Started(w)
  /\ UNCHANGED <<now, fetchedAt, analysed, report, up, active, prepare, troubled>>

\* The pipeline, for either job: the collection ends or is cancelled at its deadline (at
\* once when that is over) ...
EndCollect ==
  /\ \/ prepare.stage = "collecting" /\ prepare' = [prepare EXCEPT !.stage = "draining"]
        /\ UNCHANGED catchup
     \/ catchup.stage = "collecting" /\ catchup' = [catchup EXCEPT !.stage = "draining"]
        /\ UNCHANGED prepare
  /\ UNCHANGED <<now, fetchedAt, analysed, report, up, active, due, troubled>>

\* ... the drain ends, when nothing is left to claim (another job may hold the rest), at
\* 8:59 or with the batch that runs over it, and the report is built and saved ...
SavePreview ==
  /\ \/ /\ prepare.stage = "draining" /\ Savable(Row(prepare))
        /\ report' = Saved(Row(prepare))
        /\ prepare' = [prepare EXCEPT !.stage = "saved"] /\ UNCHANGED catchup
     \/ /\ catchup.stage = "draining" /\ Savable(Row(catchup))
        /\ report' = Saved(Row(catchup))
        /\ catchup' = [catchup EXCEPT !.stage = "saved"] /\ UNCHANGED prepare
  /\ UNCHANGED <<now, fetchedAt, analysed, up, active, due, troubled>>

\* Mutant: the report stays a draft.
KeepDraft ==
  /\ prepare.stage = "saved"
  /\ prepare' = NoJob
  /\ UNCHANGED <<now, fetchedAt, analysed, report, up, active, due, catchup, troubled>>

\* ... and marked.  A preparation that ends after nine is of no use to the send.
MarkPreview ==
  /\ prepare.stage = "saved"
  /\ report' = Marked(Row(prepare))
  /\ prepare' = NoJob
  /\ UNCHANGED <<now, fetchedAt, analysed, up, active, due, catchup, troubled>>

\* The catchup marks and queues what it has saved: it runs after nine.
QueueCatchup ==
  /\ catchup.stage = "saved"
  /\ report' = Queued(Row(catchup))
  /\ catchup' = NoJob
  /\ UNCHANGED <<now, fetchedAt, analysed, up, active, due, prepare, troubled>>

\* _run_daily_send: queues the group's preview or, without one, reports daily_report_not_prepared.
SendDaily ==
  /\ active # NoGroup
  /\ \E w \in Windows : /\ Job("send", w) \in due
                        /\ due' = due \ {Job("send", w)}
                        /\ LET r == <<active, w>> IN report' = IF Queueable(r) THEN Queued(r) ELSE report
  /\ UNCHANGED <<now, fetchedAt, analysed, up, active, prepare, catchup, troubled>>

\* A running job raises: it is logged and over.
FailJob ==
  /\ \/ prepare # NoJob /\ prepare' = NoJob /\ UNCHANGED catchup
        /\ troubled' = troubled \cup {prepare.window}
     \/ catchup # NoJob /\ catchup' = NoJob /\ UNCHANGED prepare
        /\ troubled' = troubled \cup {catchup.window}
  /\ UNCHANGED <<now, fetchedAt, analysed, report, up, active, due>>

\* The scheduler skips a firing it notices too late (misfire_grace_time is left at a
\* second), and a preparation while that of the day before still runs.
Misfire ==
  /\ \E j \in due : due' = due \ {j} /\ troubled' = troubled \cup {j.window}
  /\ UNCHANGED <<now, fetchedAt, analysed, report, up, active, prepare, catchup>>

----------------------------------------------------------------------------
(***************************************************************************)
(* The clock and the process.                                              *)
(***************************************************************************)

\* What the scheduler fires when the clock comes to a phase.
Fired(t) ==
  IF ~up THEN {}
  ELSE IF t % 4 = Prepare THEN {Job("prepare", t \div 4)}
  ELSE IF t % 4 = Day THEN {Job("send", t \div 4 - 1)} ELSE {}

\* The window a firing of this phase is about.
About(t) == IF t % 4 = Day THEN t \div 4 - 1 ELSE t \div 4

\* A job that is fired starts, and a send or a catchup ends, well within a phase; only a
\* preparation may take longer.
Advance ==
  /\ now < 4 * (LastWindow + 1) + 1
  /\ due = {} /\ catchup = NoJob
  /\ now' = now + 1
  /\ due' = Fired(now')
  /\ troubled' = troubled \cup
       {w \in Windows : /\ now' % 4 \in {Prepare, Day} /\ w = About(now')
                        /\ ~up \/ (now' % 4 = Day /\ prepare # NoJob)}
  /\ UNCHANGED <<fetchedAt, analysed, report, up, active, prepare, catchup>>

\* Stop or crash: the jobs are gone.
Stop ==
  /\ up
  /\ up' = FALSE
  /\ due' = {} /\ prepare' = NoJob /\ catchup' = NoJob
  /\ troubled' = troubled \cup {j.window : j \in due}
                   \cup ({prepare.window, catchup.window} \ {NoWindow})
  /\ UNCHANGED <<now, fetchedAt, analysed, report, active>>

\* start: after nine, and before midnight, the day's report is caught up.
Start ==
  /\ ~up
  /\ up' = TRUE
  /\ IF Phase = Day /\ Window > 0
     THEN due' = {Job("catchup", Window - 1)} /\ troubled' = troubled \ {Window - 1}
     ELSE UNCHANGED <<due, troubled>>
  /\ UNCHANGED <<now, fetchedAt, analysed, report, active, prepare, catchup>>

\* bind, for a group's command: nothing ever unbinds the bot, another group takes it over.
\* Between a preparation and its send that leaves the day without a report.
Bind(g) ==
  /\ g # active
  /\ active' = g
  /\ troubled' = troubled
       \cup (IF Phase \in {Prepare, Late} /\ Job("prepare", Window) \notin due THEN {Window} ELSE {})
       \cup {w \in Windows : Job("send", w) \in due}
  /\ UNCHANGED <<now, fetchedAt, analysed, report, up, due, prepare, catchup>>

ScheduleNext ==
  \/ \E m \in Materials : Fetch(m) \/ Analyse(m)
  \/ \E w \in ByHand : PreviewByHand(w) \/ SendByHand(w)
  \/ IdleJob \/ StartPrepare \/ StartCatchup \/ EndCollect \/ SavePreview \/ MarkPreview \/ QueueCatchup
  \/ SendDaily \/ FailJob \/ Misfire \/ Advance \/ Stop \/ Start
  \/ \E g \in Groups : Bind(g)

ScheduleSpec == ScheduleInit /\ [][ScheduleNext]_scheduleVars

----------------------------------------------------------------------------
(***************************************************************************)
(* Properties.                                                             *)
(***************************************************************************)
ScheduleTypeOK ==
  /\ now \in 0..(4 * (LastWindow + 1) + 1)
  /\ fetchedAt \in [Materials -> Unfetched..now]
  /\ analysed \subseteq {m \in Materials : fetchedAt[m] # Unfetched}
  /\ \A r \in Groups \X Windows : report[r].status \in Statuses /\ report[r].items \subseteq analysed
  /\ up \in BOOLEAN /\ active \in Groups \cup {NoGroup}
  /\ \A j \in due : j.kind \in {"prepare", "send", "catchup"} /\ j.window \in Windows
  /\ {prepare.stage, catchup.stage} \subseteq Stages
  /\ troubled \subseteq Windows

\* By midnight the day's report is queued, unless one of its jobs did not run, failed or
\* ran past nine, or another group took the bot over between the jobs, and the process was
\* not started again that day: neither a preview by hand, nor a report of another group,
\* nor a preparation or catchup that overlaps another job gets in the way.
DayIsReported ==
  \A w \in Windows : now > 4 * (w + 1) /\ w \notin troubled => \E g \in Groups : Committed(<<g, w>>)

\* The plan's rule for late material: what the report of its window has left out is in
\* the next one.  Checked when that one is queued, for material analysed by then, and
\* where nothing went wrong with the jobs.
LateGoesIntoNext ==
  [][\A w \in Windows \ {0}, g \in Groups :
       LET last == <<g, w - 1>>
           next == <<g, w>>
       IN ~Committed(next) /\ Committed(next)' /\ Committed(last) /\ {w - 1, w} \cap troubled = {} =>
            \A m \in analysed : InWindow(fetchedAt[m], w - 1) =>
              m \in report[last].items \cup report'[next].items]_scheduleVars
=============================================================================
