------------------------- MODULE Background_proofs --------------------------
(***************************************************************************)
(* Theorems about the schedule of a day, about opening and closing, and    *)
(* about the composition of the machines around the queues.                *)
(***************************************************************************)
EXTENDS MCBackground, Ingestion_proofs, Intelligence_proofs

----------------------------------------------------------------------------
(***************************************************************************)
(* DailySchedule.                                                          *)
(* By midnight the day's report is queued.                                 *)
(***************************************************************************)
RunningJob == [stage : Stages \ {"idle"}, window : Windows, group : Groups]
Jobs == [kind : {"prepare", "send", "catchup"}, window : Windows]
Contents == [status : Statuses, items : SUBSET Materials]

\* The types, with what a record holds.
ShapeOK ==
  /\ ScheduleTypeOK
  /\ report \in [Groups \X Windows -> Contents]
  /\ due \subseteq Jobs
  /\ prepare \in RunningJob \cup {NoJob} /\ catchup \in RunningJob \cup {NoJob}

\* A stopped process has no jobs; what is due was fired in this phase; a catchup ends before
\* midnight; a saved preview has a report.
JobsOK ==
  /\ ~up => due = {} /\ prepare = NoJob /\ catchup = NoJob
  /\ \A j \in due : now = IF j.kind = "prepare" THEN 4 * j.window + 2 ELSE 4 * (j.window + 1)
  /\ catchup # NoJob => now = 4 * (catchup.window + 1)
  /\ prepare.stage = "saved" => report[Row(prepare)].status # "none"

Shown == {"previewed", "queued"}
Ready(w) == active \in Groups /\ report[<<active, w>>].status \in Shown
Reported(w) == \E g \in Groups : Committed(<<g, w>>)

\* The way of a window's report that meets no trouble: from 8:40 its preparation is due, or
\* runs for the group that has the bot, or has left the preview; at nine its send is due and
\* will find the preview, or a catchup is due or runs; then it is queued.
Preparing(w) ==
  \/ Job("prepare", w) \in due
  \/ prepare # NoJob /\ prepare.window = w /\ prepare.group = active
  \/ Ready(w)

Sending(w) ==
  \/ Job("send", w) \in due /\ Ready(w)
  \/ Job("catchup", w) \in due
  \/ catchup # NoJob /\ catchup.window = w
  \/ Reported(w)

OnTime(w) ==
  /\ now \in {4 * w + 2, 4 * w + 3} => Preparing(w)
  /\ now = 4 * (w + 1) => Sending(w)
  /\ now > 4 * (w + 1) => Reported(w)

ScheduleIInv == ShapeOK /\ JobsOK /\ \A w \in Windows \ troubled : OnTime(w)

----------------------------------------------------------------------------
(***************************************************************************)
(* The clock, the rows and the jobs.                                       *)
(***************************************************************************)
LEMMA Clock ==
  ASSUME NEW t \in Int
  PROVE  /\ t \div 4 \in Int /\ t % 4 \in 0..3 /\ t = 4 * (t \div 4) + (t % 4)
  OBVIOUS

LEMMA ScheduleNumbers ==
  ASSUME ShapeOK
  PROVE  /\ LastWindow \in Nat /\ now \in Nat /\ now <= 4 * (LastWindow + 1) + 1
         /\ Windows \subseteq Nat /\ \A w \in Windows : w <= LastWindow
         /\ NoWindow \notin Windows
  BY ScheduleAssumption DEF ShapeOK, ScheduleTypeOK, Windows

LEMMA JobFacts ==
  ASSUME NEW w \in Windows
  PROVE  /\ \A k \in {"prepare", "send", "catchup"} : Job(k, w) \in Jobs
         /\ \A g \in Groups : [stage |-> "collecting", window |-> w, group |-> g] \in RunningJob
  BY DEF Job, Jobs, RunningJob, Stages

\* Only the idle job is not running.
LEMMA JobRunning ==
  ASSUME NEW j \in RunningJob \cup {NoJob}
  PROVE  /\ j # NoJob <=> j \in RunningJob
         /\ j # NoJob <=> j.stage # "idle"
         /\ j # NoJob => j.window \in Windows /\ j.group \in Groups /\ Row(j) \in Groups \X Windows
         /\ j.stage \in Stages
  BY DEF RunningJob, NoJob, Stages, Row

\* What every change of the reports preserves: a report is never less than it was.
Kept(new) ==
  /\ new \in [Groups \X Windows -> Contents]
  /\ \A r \in Groups \X Windows :
       /\ new[r].items \subseteq analysed
       /\ report[r].status # "none" => new[r].status # "none"
       /\ report[r].status \in Shown => new[r].status \in Shown
       /\ report[r].status = "queued" => new[r].status = "queued"

LEMMA BuildOK == ASSUME ShapeOK, NEW w PROVE Build(w) \subseteq analysed /\ Build(w) \subseteq Materials
  BY DEF Build, ShapeOK, ScheduleTypeOK

LEMMA SavedOK ==
  ASSUME ShapeOK, NEW r \in Groups \X Windows
  PROVE  Kept(Saved(r)) /\ Saved(r)[r].status # "none"
<1> DEFINE old == report[r]
           new == CASE old.status = "none" -> [status |-> "draft", items |-> Build(r[2])]
                    [] old.status \in {"draft", "previewed"} -> [old EXCEPT !.items = Build(r[2])]
                    [] OTHER -> old
<1>1. old \in Contents /\ old.items \subseteq analysed /\ report \in [Groups \X Windows -> Contents]
  BY DEF ShapeOK, ScheduleTypeOK
<1>2. Saved(r) = [report EXCEPT ![r] = new]
  BY DEF Saved
<1>3. /\ new \in Contents /\ new.items \subseteq analysed
      /\ new.status = IF old.status = "none" THEN "draft" ELSE old.status
  <2>1. CASE old.status = "none"
    BY <2>1, BuildOK DEF Contents, Statuses
  <2>2. CASE old.status \in {"draft", "previewed"}
    <3>1. new = [status |-> old.status, items |-> Build(r[2])]
      BY <1>1, <2>2 DEF Contents
    <3>. QED BY <1>1, <2>2, <3>1, BuildOK DEF Contents
  <2>3. CASE old.status = "queued"
    BY <1>1, <2>3
  <2>. QED BY <1>1, <2>1, <2>2, <2>3 DEF Contents, Statuses
<1> HIDE DEF new
<1>4. \A q \in Groups \X Windows : report[q].items \subseteq analysed
  BY DEF ShapeOK, ScheduleTypeOK
<1>. QED BY <1>1, <1>2, <1>3, <1>4 DEF Kept, Shown

\* A report that is no longer nothing may be given a later status.
LEMMA StatusOK ==
  ASSUME ShapeOK, NEW r \in Groups \X Windows, NEW new, new \in [Groups \X Windows -> Contents],
         Kept(new), NEW s \in Shown, new[r].status = "queued" => s = "queued"
  PROVE  /\ Kept([new EXCEPT ![r].status = s])
         /\ [new EXCEPT ![r].status = s][r].status = s
<1> DEFINE row == [status |-> s, items |-> new[r].items]
<1>1. [new EXCEPT ![r].status = s] = [new EXCEPT ![r] = row]
  <2>1. [new[r] EXCEPT !.status = s] = row
    BY DEF Contents
  <2>. QED BY <2>1
<1>2. row \in Contents /\ row.items \subseteq analysed
  BY DEF Contents, Kept, Shown, Statuses
<1>3. report[r].status = "queued" => row.status = "queued"
  BY DEF Kept
<1>4. row.status = s
  OBVIOUS
<1> HIDE DEF row
<1>. QED BY <1>1, <1>2, <1>3, <1>4 DEF Kept, Shown

LEMMA ReportKept == ASSUME ShapeOK PROVE Kept(report)
  BY DEF ShapeOK, ScheduleTypeOK, Kept

----------------------------------------------------------------------------
(***************************************************************************)
(* What a step that moves neither the clock nor the material has to show.  *)
(***************************************************************************)
LEMMA ShapeKept ==
  ASSUME ShapeOK, Kept(report'), now' = now, fetchedAt' = fetchedAt, analysed' = analysed,
         up' \in BOOLEAN, active' \in Groups \cup {NoGroup}, due' \subseteq Jobs,
         prepare' \in RunningJob \cup {NoJob}, catchup' \in RunningJob \cup {NoJob},
         troubled' \subseteq Windows
  PROVE  ShapeOK'
<1>1. \A j \in due' : j.kind \in {"prepare", "send", "catchup"} /\ j.window \in Windows
  BY DEF Jobs
<1>2. prepare'.stage \in Stages /\ catchup'.stage \in Stages
  BY DEF RunningJob, NoJob, Stages
<1>3. \A r \in Groups \X Windows : report'[r].status \in Statuses /\ report'[r].items \subseteq analysed
  BY DEF Kept, Contents
<1>. QED BY <1>1, <1>2, <1>3 DEF ShapeOK, ScheduleTypeOK, Kept

LEMMA OnTimeKept ==
  ASSUME ShapeOK, NEW w \in Windows, OnTime(w), now' = now, Kept(report'),
         now \in {4 * w + 2, 4 * w + 3} /\ Preparing(w) => Preparing(w)',
         now = 4 * (w + 1) /\ Sending(w) => Sending(w)'
  PROVE  OnTime(w)'
<1>1. Reported(w) => Reported(w)'
  BY DEF Reported, Committed, Kept
<1>2. now' > 4 * (w + 1) => Reported(w)'
  BY <1>1 DEF OnTime
<1>3. now' \in {4 * w + 2, 4 * w + 3} => Preparing(w)'
  BY DEF OnTime
<1>4. now' = 4 * (w + 1) => Sending(w)'
  BY DEF OnTime
<1>. QED BY <1>2, <1>3, <1>4 DEF OnTime

\* Better reports of the same group.
LEMMA ReadyKept ==
  ASSUME NEW w \in Windows, active' = active, Kept(report')
  PROVE  (Ready(w) => Ready(w)') /\ (Reported(w) => Reported(w)')
  BY DEF Ready, Reported, Committed, Kept

LEMMA ScheduleInitOK == ScheduleInit => ScheduleIInv
<1> SUFFICES ASSUME ScheduleInit PROVE ScheduleIInv
  OBVIOUS
<1>1. report \in [Groups \X Windows -> Contents]
  BY DEF ScheduleInit, Contents, Statuses
<1>2. \A r \in Groups \X Windows : report[r].status \in Statuses /\ report[r].items \subseteq analysed
  BY DEF ScheduleInit, Statuses
<1>3. ShapeOK
  BY <1>1, <1>2, ScheduleAssumption
  DEF ScheduleInit, ShapeOK, ScheduleTypeOK, Unfetched, NoJob, Stages
<1>4. JobsOK
  BY DEF ScheduleInit, JobsOK, NoJob
<1>5. \A w \in Windows : OnTime(w)
  BY <1>3, ScheduleNumbers DEF ScheduleInit, OnTime
<1>. QED BY <1>3, <1>4, <1>5 DEF ScheduleIInv

----------------------------------------------------------------------------
(***************************************************************************)
(* Material, and reports by hand.                                          *)
(***************************************************************************)
LEMMA MaterialOK == ASSUME ScheduleIInv, NEW m \in Materials, Fetch(m) \/ Analyse(m) PROVE ScheduleIInv'
<1>1. /\ now' = now /\ report' = report /\ up' = up /\ active' = active /\ due' = due
      /\ prepare' = prepare /\ catchup' = catchup /\ troubled' = troubled
  BY DEF Fetch, Analyse
<1>2. fetchedAt' \in [Materials -> Unfetched..now] /\ analysed \subseteq analysed'
      /\ analysed' \subseteq {n \in Materials : fetchedAt'[n] # Unfetched}
  <2>1. now \in Unfetched..now /\ now # Unfetched
    BY ScheduleNumbers DEF ScheduleIInv, Unfetched
  <2>. QED BY <2>1 DEF ScheduleIInv, ShapeOK, ScheduleTypeOK, Fetch, Analyse
<1>3. ShapeOK'
  <2>1. \A r \in Groups \X Windows : report[r].items \subseteq analysed'
    BY <1>2 DEF ScheduleIInv, ShapeOK, ScheduleTypeOK
  <2>. QED BY <1>1, <1>2, <2>1 DEF ScheduleIInv, ShapeOK, ScheduleTypeOK
<1>. QED
  BY <1>1, <1>3 DEF ScheduleIInv, JobsOK, Row, OnTime, Preparing, Sending, Ready, Reported, Committed

LEMMA ByHandOK == ASSUME ScheduleIInv, NEW w \in ByHand, PreviewByHand(w) \/ SendByHand(w) PROVE ScheduleIInv'
<1>1. /\ now' = now /\ up' = up /\ active' = active /\ due' = due /\ fetchedAt' = fetchedAt
      /\ analysed' = analysed /\ prepare' = prepare /\ catchup' = catchup /\ troubled' = troubled
  BY DEF PreviewByHand, SendByHand
<1> DEFINE r == <<active, w>>
<1>2. r \in Groups \X Windows /\ report[r].status # "queued" /\ ShapeOK
  BY ScheduleAssumption
  DEF ScheduleIInv, ShapeOK, ScheduleTypeOK, PreviewByHand, SendByHand, Committed, Windows
<1>3. Kept(report')
  <2>1. CASE PreviewByHand(w)
    <3>1. Kept(Saved(r)) /\ Saved(r) \in [Groups \X Windows -> Contents]
      BY <1>2, SavedOK DEF Kept
    <3>2. Saved(r)[r].status # "queued"
      BY <1>2 DEF Saved, ScheduleIInv, ShapeOK, Contents, Statuses
    <3>. QED BY <2>1, <1>2, <3>1, <3>2, StatusOK DEF PreviewByHand, Shown
  <2>2. CASE SendByHand(w)
    BY <2>2, <1>2, ReportKept, StatusOK DEF SendByHand, Queued, Shown, ShapeOK
  <2>. QED BY <2>1, <2>2
<1>4. ShapeOK'
  BY <1>1, <1>2, <1>3, ShapeKept DEF ShapeOK, ScheduleTypeOK
<1>5. JobsOK'
  <2>1. prepare.stage = "saved" => Row(prepare) \in Groups \X Windows
    BY JobRunning, <1>2 DEF ShapeOK
  <2>. QED BY <1>1, <1>3, <2>1 DEF ScheduleIInv, JobsOK, Kept, Row
<1>6. ASSUME NEW v \in Windows, OnTime(v) PROVE OnTime(v)'
  <2>1. Ready(v) => Ready(v)'
    BY <1>1, <1>3, ReadyKept
  <2>2. Reported(v) => Reported(v)'
    BY <1>1, <1>3, ReadyKept
  <2>. QED BY <1>1, <1>2, <1>3, <1>6, <2>1, <2>2, OnTimeKept DEF Preparing, Sending
<1>. QED BY <1>1, <1>4, <1>5, <1>6 DEF ScheduleIInv

----------------------------------------------------------------------------
(***************************************************************************)
(* The jobs.                                                               *)
(***************************************************************************)
\* A job that does not start troubles its window.
LEMMA JobDropOK == ASSUME ScheduleIInv, IdleJob \/ Misfire PROVE ScheduleIInv'
<1>1. /\ now' = now /\ up' = up /\ active' = active /\ report' = report /\ fetchedAt' = fetchedAt
      /\ analysed' = analysed /\ prepare' = prepare /\ catchup' = catchup
  BY DEF IdleJob, Misfire
<1>2. PICK j \in due : due' = due \ {j} /\ troubled' = troubled \cup {j.window}
  BY DEF IdleJob, Misfire
<1>3. ShapeOK /\ j \in Jobs /\ Kept(report')
  BY <1>1, ReportKept DEF ScheduleIInv, ShapeOK
<1>4. ShapeOK'
  BY <1>1, <1>2, <1>3, ShapeKept DEF ShapeOK, ScheduleTypeOK, Jobs
<1>5. JobsOK'
  BY <1>1, <1>2 DEF ScheduleIInv, JobsOK, Row
<1>6. ASSUME NEW w \in Windows \ troubled' PROVE OnTime(w)'
  <2>1. w \notin troubled /\ w # j.window
    BY <1>2
  <2>2. \A k : Job(k, w) \in due => Job(k, w) \in due'
    BY <1>2, <2>1 DEF Job
  <2>. QED
    BY <1>1, <1>3, <2>1, <2>2, OnTimeKept, ReadyKept DEF ScheduleIInv, Preparing, Sending
<1>. QED BY <1>4, <1>5, <1>6 DEF ScheduleIInv

LEMMA StartPrepareOK == ASSUME ScheduleIInv, StartPrepare PROVE ScheduleIInv'
<1>1. /\ now' = now /\ up' = up /\ active' = active /\ report' = report /\ fetchedAt' = fetchedAt
      /\ analysed' = analysed /\ catchup' = catchup /\ troubled' = troubled /\ active # NoGroup
  BY DEF StartPrepare
<1>2. PICK v \in Windows : /\ Job("prepare", v) \in due
                           /\ due' = due \ {Job("prepare", v)} /\ prepare' = Started(v)
  BY DEF StartPrepare
<1>3. ShapeOK /\ Kept(report') /\ active \in Groups
  BY <1>1, ReportKept DEF ScheduleIInv, ShapeOK, ScheduleTypeOK
<1>4. prepare' \in RunningJob /\ prepare'.stage = "collecting" /\ prepare'.window = v
      /\ prepare'.group = active /\ prepare' # NoJob
  BY <1>2, <1>3, JobFacts DEF Started, NoJob
<1>5. ShapeOK'
  BY <1>1, <1>2, <1>3, <1>4, ShapeKept DEF ShapeOK, ScheduleTypeOK
<1>6. JobsOK'
  BY <1>1, <1>2, <1>4 DEF ScheduleIInv, JobsOK
<1>7. ASSUME NEW w \in Windows \ troubled' PROVE OnTime(w)'
  <2>1. \A k : k # "prepare" => (Job(k, w) \in due <=> Job(k, w) \in due')
    BY <1>2 DEF Job
  <2>2. now \in {4 * w + 2, 4 * w + 3} => Preparing(w)'
    <3>1. CASE w = v
      BY <3>1, <1>1, <1>4 DEF Preparing
    <3>2. CASE w # v
      <4>1. now = 4 * v + 2
        BY <1>2 DEF ScheduleIInv, JobsOK, Job
      <4>2. now \notin {4 * w + 2, 4 * w + 3}
        BY <3>2, <4>1, <1>3, ScheduleNumbers
      <4>. QED BY <4>2
    <3>. QED BY <3>1, <3>2
  <2>3. OnTime(w) /\ (Sending(w) => Sending(w)')
    BY <1>1, <1>3, <2>1, ReadyKept DEF ScheduleIInv, Sending
  <2>. QED BY <1>1, <1>3, <2>2, <2>3, OnTimeKept
<1>. QED BY <1>5, <1>6, <1>7 DEF ScheduleIInv

LEMMA StartCatchupOK == ASSUME ScheduleIInv, StartCatchup PROVE ScheduleIInv'
<1>1. /\ now' = now /\ up' = up /\ active' = active /\ report' = report /\ fetchedAt' = fetchedAt
      /\ analysed' = analysed /\ prepare' = prepare /\ troubled' = troubled /\ active # NoGroup
  BY DEF StartCatchup
<1>2. PICK v \in Windows : /\ Job("catchup", v) \in due
                           /\ due' = due \ {Job("catchup", v)} /\ catchup' = Started(v)
  BY DEF StartCatchup
<1>3. ShapeOK /\ Kept(report') /\ active \in Groups
  BY <1>1, ReportKept DEF ScheduleIInv, ShapeOK, ScheduleTypeOK
<1>4. catchup' \in RunningJob /\ catchup'.window = v /\ catchup' # NoJob
  BY <1>2, <1>3, JobFacts DEF Started, NoJob
<1>5. ShapeOK'
  BY <1>1, <1>2, <1>3, <1>4, ShapeKept DEF ShapeOK, ScheduleTypeOK
<1>6. now = 4 * (v + 1)
  BY <1>2 DEF ScheduleIInv, JobsOK, Job
<1>7. JobsOK'
  BY <1>1, <1>2, <1>4, <1>6 DEF ScheduleIInv, JobsOK, Row
<1>8. ASSUME NEW w \in Windows \ troubled' PROVE OnTime(w)'
  <2>1. \A k : k # "catchup" => (Job(k, w) \in due <=> Job(k, w) \in due')
    BY <1>2 DEF Job
  <2>2. now = 4 * (w + 1) => Sending(w)'
    <3>1. CASE w = v
      BY <3>1, <1>4 DEF Sending
    <3>2. CASE w # v
      BY <3>2, <1>3, <1>6, ScheduleNumbers
    <3>. QED BY <3>1, <3>2
  <2>3. OnTime(w) /\ (Preparing(w) => Preparing(w)')
    BY <1>1, <1>3, <2>1, ReadyKept DEF ScheduleIInv, Preparing
  <2>. QED BY <1>1, <1>3, <2>2, <2>3, OnTimeKept
<1>. QED BY <1>5, <1>7, <1>8 DEF ScheduleIInv

\* A job goes on: it keeps its window and group.
LEMMA GoesOn ==
  ASSUME NEW j \in RunningJob, NEW s \in Stages \ {"idle"}
  PROVE  /\ [j EXCEPT !.stage = s] \in RunningJob
         /\ [j EXCEPT !.stage = s] # NoJob
         /\ [j EXCEPT !.stage = s].stage = s
         /\ [j EXCEPT !.stage = s].window = j.window
         /\ [j EXCEPT !.stage = s].group = j.group
         /\ Row([j EXCEPT !.stage = s]) = Row(j)
  BY DEF RunningJob, NoJob, Row

\* A step in which jobs only go on or leave reports better.
LEMMA WindowsGoOn ==
  ASSUME ScheduleIInv, now' = now, active' = active, due' = due, troubled' = troubled, Kept(report'),
         prepare # NoJob =>
           \/ prepare' # NoJob /\ prepare'.window = prepare.window /\ prepare'.group = prepare.group
           \/ report'[Row(prepare)].status \in Shown,
         catchup # NoJob =>
           \/ catchup' # NoJob /\ catchup'.window = catchup.window
           \/ report'[Row(catchup)].status = "queued"
  PROVE  \A w \in Windows \ troubled' : OnTime(w)'
<1> SUFFICES ASSUME NEW w \in Windows \ troubled PROVE OnTime(w)'
  OBVIOUS
<1>1. ShapeOK /\ OnTime(w)
  BY DEF ScheduleIInv
<1>2. Preparing(w) => Preparing(w)'
  <2>1. prepare # NoJob /\ prepare.window = w /\ prepare.group = active => Preparing(w)'
    <3>1. prepare # NoJob => prepare.group \in Groups
      BY <1>1, JobRunning DEF ShapeOK
    <3>. QED BY <3>1 DEF Preparing, Ready, Row
  <2>. QED BY <2>1, ReadyKept DEF Preparing
<1>3. Sending(w) => Sending(w)'
  <2>1. catchup # NoJob /\ catchup.window = w => Sending(w)'
    <3>1. catchup # NoJob => catchup.group \in Groups
      BY <1>1, JobRunning DEF ShapeOK
    <3>. QED BY <3>1 DEF Sending, Reported, Committed, Row
  <2>. QED BY <2>1, ReadyKept DEF Sending
<1>. QED BY <1>1, <1>2, <1>3, OnTimeKept

LEMMA EndCollectOK == ASSUME ScheduleIInv, EndCollect PROVE ScheduleIInv'
<1>1. /\ now' = now /\ up' = up /\ active' = active /\ report' = report /\ fetchedAt' = fetchedAt
      /\ analysed' = analysed /\ due' = due /\ troubled' = troubled
  BY DEF EndCollect
<1>2. ShapeOK /\ JobsOK /\ Kept(report')
  BY <1>1, ReportKept DEF ScheduleIInv
<1>3. CASE prepare.stage = "collecting" /\ prepare' = [prepare EXCEPT !.stage = "draining"]
           /\ catchup' = catchup
  <2>1. prepare \in RunningJob
    BY <1>2, <1>3, JobRunning DEF ShapeOK
  <2>2. "draining" \in Stages \ {"idle"}
    BY DEF Stages
  <2>3. /\ prepare' \in RunningJob /\ prepare' # NoJob /\ prepare'.stage = "draining"
        /\ prepare'.window = prepare.window /\ prepare'.group = prepare.group
    BY <1>3, <2>1, <2>2, GoesOn
  <2>4. ShapeOK'
    BY <1>1, <1>2, <1>3, <2>3, ShapeKept DEF ShapeOK, ScheduleTypeOK
  <2>5. prepare # NoJob
    BY <2>1, JobRunning
  <2>6. JobsOK'
    BY <1>1, <1>2, <1>3, <2>3, <2>5 DEF JobsOK
  <2>. QED BY <1>1, <1>2, <1>3, <2>3, <2>4, <2>6, WindowsGoOn DEF ScheduleIInv
<1>4. CASE catchup.stage = "collecting" /\ catchup' = [catchup EXCEPT !.stage = "draining"]
           /\ prepare' = prepare
  <2>1. catchup \in RunningJob
    BY <1>2, <1>4, JobRunning DEF ShapeOK
  <2>2. "draining" \in Stages \ {"idle"}
    BY DEF Stages
  <2>3. catchup' \in RunningJob /\ catchup' # NoJob /\ catchup'.window = catchup.window
    BY <1>4, <2>1, <2>2, GoesOn
  <2>4. ShapeOK'
    BY <1>1, <1>2, <1>4, <2>3, ShapeKept DEF ShapeOK, ScheduleTypeOK
  <2>5. catchup # NoJob
    BY <2>1, JobRunning
  <2>6. JobsOK'
    BY <1>1, <1>2, <1>4, <2>3, <2>5 DEF JobsOK, Row
  <2>. QED BY <1>1, <1>2, <1>4, <2>3, <2>4, <2>6, WindowsGoOn DEF ScheduleIInv
<1>. QED BY <1>3, <1>4 DEF EndCollect

LEMMA SavePreviewOK == ASSUME ScheduleIInv, SavePreview PROVE ScheduleIInv'
<1>1. /\ now' = now /\ up' = up /\ active' = active /\ fetchedAt' = fetchedAt
      /\ analysed' = analysed /\ due' = due /\ troubled' = troubled
  BY DEF SavePreview
<1>2. ShapeOK /\ JobsOK /\ "saved" \in Stages \ {"idle"}
  BY DEF ScheduleIInv, Stages
<1>3. CASE /\ prepare.stage = "draining" /\ report' = Saved(Row(prepare))
           /\ prepare' = [prepare EXCEPT !.stage = "saved"] /\ catchup' = catchup
  <2>1. prepare \in RunningJob /\ prepare # NoJob /\ Row(prepare) \in Groups \X Windows
    BY <1>2, <1>3, JobRunning DEF ShapeOK
  <2>2. Kept(report') /\ report'[Row(prepare)].status # "none"
    BY <1>2, <1>3, <2>1, SavedOK
  <2>3. /\ prepare' \in RunningJob /\ prepare' # NoJob /\ Row(prepare') = Row(prepare)
        /\ prepare'.window = prepare.window /\ prepare'.group = prepare.group
    BY <1>2, <1>3, <2>1, GoesOn
  <2>4. ShapeOK'
    BY <1>1, <1>2, <1>3, <2>2, <2>3, ShapeKept DEF ShapeOK, ScheduleTypeOK
  <2>5. JobsOK'
    <3>1. Row(prepare)' = Row(prepare)
      BY <2>3 DEF Row
    <3>. QED BY <1>1, <1>2, <1>3, <2>1, <2>2, <3>1 DEF JobsOK
  <2>. QED BY <1>1, <1>2, <1>3, <2>2, <2>3, <2>4, <2>5, WindowsGoOn DEF ScheduleIInv
<1>4. CASE /\ catchup.stage = "draining" /\ report' = Saved(Row(catchup))
           /\ catchup' = [catchup EXCEPT !.stage = "saved"] /\ prepare' = prepare
  <2>1. catchup \in RunningJob /\ catchup # NoJob /\ Row(catchup) \in Groups \X Windows
    BY <1>2, <1>4, JobRunning DEF ShapeOK
  <2>2. Kept(report')
    BY <1>2, <1>4, <2>1, SavedOK
  <2>3. catchup' \in RunningJob /\ catchup' # NoJob /\ catchup'.window = catchup.window
    BY <1>2, <1>4, <2>1, GoesOn
  <2>4. ShapeOK'
    BY <1>1, <1>2, <1>4, <2>2, <2>3, ShapeKept DEF ShapeOK, ScheduleTypeOK
  <2>5. JobsOK'
    <3>1. prepare.stage = "saved" => report'[Row(prepare)].status # "none"
      BY <1>2, <2>2, JobRunning DEF JobsOK, ShapeOK, Kept, NoJob
    <3>. QED BY <1>1, <1>2, <1>4, <2>1, <2>3, <3>1 DEF JobsOK, Row
  <2>. QED BY <1>1, <1>2, <1>4, <2>2, <2>3, <2>4, <2>5, WindowsGoOn DEF ScheduleIInv
<1>. QED BY <1>3, <1>4 DEF SavePreview

LEMMA MarkPreviewOK == ASSUME ScheduleIInv, MarkPreview PROVE ScheduleIInv'
<1>1. /\ now' = now /\ up' = up /\ active' = active /\ fetchedAt' = fetchedAt
      /\ analysed' = analysed /\ due' = due /\ troubled' = troubled /\ catchup' = catchup
      /\ prepare' = NoJob /\ prepare.stage = "saved" /\ report' = Marked(Row(prepare))
  BY DEF MarkPreview
<1> DEFINE r == Row(prepare)
<1>2. ShapeOK /\ JobsOK
  BY DEF ScheduleIInv
<1>3. r \in Groups \X Windows /\ report[r].status # "none" /\ report[r] \in Contents
  BY <1>1, <1>2, JobRunning DEF ShapeOK, JobsOK, NoJob
<1>4. Kept(report') /\ report'[r].status \in Shown
  <2> DEFINE s == IF report[r].status = "draft" THEN "previewed" ELSE report[r].status
  <2>1. s \in Shown /\ (report[r].status = "queued" => s = "queued")
    BY <1>3 DEF Shown, Contents, Statuses
  <2>2. report' = [report EXCEPT ![r].status = s]
    BY <1>1 DEF Marked
  <2> HIDE DEF s
  <2>3. Kept([report EXCEPT ![r].status = s]) /\ [report EXCEPT ![r].status = s][r].status = s
    BY <1>2, <1>3, <2>1, ReportKept, StatusOK DEF ShapeOK
  <2>. QED BY <2>1, <2>2, <2>3
<1>5. ShapeOK'
  BY <1>1, <1>2, <1>4, ShapeKept DEF ShapeOK, ScheduleTypeOK
<1>6. JobsOK'
  BY <1>1, <1>2 DEF JobsOK, NoJob
<1>. QED BY <1>1, <1>4, <1>5, <1>6, WindowsGoOn DEF ScheduleIInv

LEMMA QueueCatchupOK == ASSUME ScheduleIInv, QueueCatchup PROVE ScheduleIInv'
<1>1. /\ now' = now /\ up' = up /\ active' = active /\ fetchedAt' = fetchedAt
      /\ analysed' = analysed /\ due' = due /\ troubled' = troubled /\ prepare' = prepare
      /\ catchup' = NoJob /\ catchup.stage = "saved" /\ report' = Queued(Row(catchup))
  BY DEF QueueCatchup
<1> DEFINE r == Row(catchup)
<1>2. ShapeOK /\ JobsOK
  BY DEF ScheduleIInv
<1>3. r \in Groups \X Windows
  BY <1>1, <1>2, JobRunning DEF ShapeOK, NoJob
<1>4. Kept(report') /\ report'[r].status = "queued"
  BY <1>1, <1>2, <1>3, ReportKept, StatusOK DEF Queued, Shown, ShapeOK
<1>5. ShapeOK'
  BY <1>1, <1>2, <1>4, ShapeKept DEF ShapeOK, ScheduleTypeOK
<1>6. JobsOK'
  <2>1. prepare.stage = "saved" => report'[Row(prepare)].status # "none"
    BY <1>2, <1>4, JobRunning DEF JobsOK, ShapeOK, Kept, NoJob
  <2>. QED BY <1>1, <1>2, <2>1 DEF JobsOK, Row
<1>. QED BY <1>1, <1>4, <1>5, <1>6, WindowsGoOn DEF ScheduleIInv

LEMMA SendDailyOK == ASSUME ScheduleIInv, SendDaily PROVE ScheduleIInv'
<1>1. /\ now' = now /\ up' = up /\ active' = active /\ fetchedAt' = fetchedAt
      /\ analysed' = analysed /\ troubled' = troubled /\ prepare' = prepare
      /\ catchup' = catchup /\ active # NoGroup
  BY DEF SendDaily
<1>2. PICK v \in Windows :
        /\ Job("send", v) \in due /\ due' = due \ {Job("send", v)}
        /\ report' = IF Queueable(<<active, v>>) THEN Queued(<<active, v>>) ELSE report
  BY DEF SendDaily
<1> DEFINE r == <<active, v>>
<1>3. ShapeOK /\ JobsOK /\ r \in Groups \X Windows
  BY <1>1 DEF ScheduleIInv, ShapeOK, ScheduleTypeOK
<1>4. now = 4 * (v + 1) /\ v \in Nat
  BY <1>2, <1>3, ScheduleNumbers DEF JobsOK, Job
<1>5. Kept(report') /\ (Ready(v) => report'[r].status = "queued")
  <2>1. CASE Queueable(r)
    BY <1>2, <1>3, <2>1, ReportKept, StatusOK DEF Queued, Shown, ShapeOK
  <2>2. CASE ~Queueable(r)
    <3>1. ~Ready(v)
      BY <1>4, <2>2 DEF Queueable, Ready, Shown
    <3>. QED BY <1>2, <1>3, <2>2, <3>1, ReportKept
  <2>. QED BY <2>1, <2>2
<1>6. ShapeOK'
  BY <1>1, <1>2, <1>3, <1>5, ShapeKept DEF ShapeOK, ScheduleTypeOK
<1>7. JobsOK'
  <2>1. prepare.stage = "saved" => report'[Row(prepare)].status # "none"
    BY <1>3, <1>5, JobRunning DEF JobsOK, ShapeOK, Kept, NoJob
  <2>. QED BY <1>1, <1>2, <1>3, <2>1 DEF JobsOK, Row
<1>8. ASSUME NEW w \in Windows \ troubled' PROVE OnTime(w)'
  <2>1. \A k : k # "send" => (Job(k, w) \in due <=> Job(k, w) \in due')
    BY <1>2 DEF Job
  <2>2. OnTime(w) /\ (Preparing(w) => Preparing(w)')
    BY <1>1, <1>5, <2>1, ReadyKept DEF ScheduleIInv, Preparing
  <2>3. now = 4 * (w + 1) /\ Sending(w) => Sending(w)'
    <3>1. CASE w = v
      <4>1. Ready(v) => Reported(v)'
        BY <1>3, <1>5 DEF Reported, Committed
      <4>. QED BY <1>1, <1>5, <2>1, <3>1, <4>1, ReadyKept DEF Sending
    <3>2. CASE w # v
      BY <3>2, <1>3, <1>4, ScheduleNumbers
    <3>. QED BY <3>1, <3>2
  <2>. QED BY <1>1, <1>3, <1>5, <2>2, <2>3, OnTimeKept
<1>. QED BY <1>6, <1>7, <1>8 DEF ScheduleIInv

LEMMA FailJobOK == ASSUME ScheduleIInv, FailJob PROVE ScheduleIInv'
<1>1. /\ now' = now /\ up' = up /\ active' = active /\ report' = report /\ fetchedAt' = fetchedAt
      /\ analysed' = analysed /\ due' = due
  BY DEF FailJob
<1>2. ShapeOK /\ JobsOK /\ Kept(report')
  BY <1>1, ReportKept DEF ScheduleIInv
<1>3. CASE prepare # NoJob /\ prepare' = NoJob /\ catchup' = catchup
           /\ troubled' = troubled \cup {prepare.window}
  <2>1. ShapeOK'
    BY <1>1, <1>2, <1>3, JobRunning, ShapeKept DEF ShapeOK, ScheduleTypeOK
  <2>2. JobsOK'
    BY <1>1, <1>2, <1>3 DEF JobsOK, NoJob
  <2>3. ASSUME NEW w \in Windows \ troubled' PROVE OnTime(w)'
    BY <1>1, <1>2, <1>3, <2>3, OnTimeKept, ReadyKept DEF ScheduleIInv, Preparing, Sending
  <2>. QED BY <2>1, <2>2, <2>3 DEF ScheduleIInv
<1>4. CASE catchup # NoJob /\ catchup' = NoJob /\ prepare' = prepare
           /\ troubled' = troubled \cup {catchup.window}
  <2>1. ShapeOK'
    BY <1>1, <1>2, <1>4, JobRunning, ShapeKept DEF ShapeOK, ScheduleTypeOK
  <2>2. JobsOK'
    BY <1>1, <1>2, <1>4 DEF JobsOK, Row
  <2>3. ASSUME NEW w \in Windows \ troubled' PROVE OnTime(w)'
    BY <1>1, <1>2, <1>4, <2>3, OnTimeKept, ReadyKept DEF ScheduleIInv, Preparing, Sending
  <2>. QED BY <2>1, <2>2, <2>3 DEF ScheduleIInv
<1>. QED BY <1>3, <1>4 DEF FailJob

----------------------------------------------------------------------------
(***************************************************************************)
(* The process and the bot.                                                *)
(***************************************************************************)
\* With no job at all, a window that is not troubled has its preview or its report already.
LEMMA StopOK == ASSUME ScheduleIInv, Stop PROVE ScheduleIInv'
<1>1. /\ now' = now /\ active' = active /\ report' = report /\ fetchedAt' = fetchedAt
      /\ analysed' = analysed /\ up' = FALSE /\ due' = {} /\ prepare' = NoJob /\ catchup' = NoJob
      /\ troubled' = troubled \cup {j.window : j \in due}
                       \cup ({prepare.window, catchup.window} \ {NoWindow})
  BY DEF Stop
<1>2. ShapeOK /\ Kept(report')
  BY <1>1, ReportKept DEF ScheduleIInv
<1>3. \A j \in RunningJob \cup {NoJob} : j.window # NoWindow => j.window \in Windows
  BY DEF RunningJob, NoJob
<1>4. troubled' \subseteq Windows
  BY <1>1, <1>2, <1>3 DEF ShapeOK, ScheduleTypeOK, Jobs
<1>5. ShapeOK'
  BY <1>1, <1>2, <1>4, ShapeKept DEF ShapeOK, ScheduleTypeOK
<1>6. JobsOK'
  BY <1>1 DEF JobsOK, NoJob
<1>7. ASSUME NEW w \in Windows \ troubled' PROVE OnTime(w)'
  <2>1. \A k : Job(k, w) \notin due
    BY <1>1, <1>7 DEF Job
  <2>2. prepare.window # w /\ catchup.window # w
    BY <1>1, <1>2, <1>7, ScheduleNumbers
  <2>. QED
    BY <1>1, <1>2, <1>7, <2>1, <2>2, OnTimeKept, ReadyKept DEF ScheduleIInv, Preparing, Sending
<1>. QED BY <1>5, <1>6, <1>7 DEF ScheduleIInv

LEMMA StartOK == ASSUME ScheduleIInv, Start PROVE ScheduleIInv'
<1>1. /\ now' = now /\ active' = active /\ report' = report /\ fetchedAt' = fetchedAt
      /\ analysed' = analysed /\ up' = TRUE /\ ~up /\ prepare' = prepare /\ catchup' = catchup
  BY DEF Start
<1>2. ShapeOK /\ JobsOK /\ Kept(report') /\ due = {} /\ prepare = NoJob /\ catchup = NoJob
  BY <1>1, ReportKept DEF ScheduleIInv, JobsOK
<1>3. CASE Phase = Day /\ Window > 0
  <2> DEFINE v == Window - 1
  <2>1. due' = {Job("catchup", v)} /\ troubled' = troubled \ {v}
    BY <1>3 DEF Start
  <2>2. now = 4 * (v + 1) /\ v \in Windows
    <3>1. now \in Int /\ now = 4 * Window
      BY <1>2, <1>3, ScheduleNumbers, Clock DEF Phase, Window, Day
    <3>2. Window \in Int
      BY <3>1, Clock DEF Window
    <3>. QED BY <1>2, <1>3, <3>1, <3>2, ScheduleNumbers DEF Windows
  <2> HIDE DEF v
  <2>3. Job("catchup", v) \in Jobs
    BY <2>2, JobFacts
  <2>4. ShapeOK'
    BY <1>1, <1>2, <2>1, <2>3, ShapeKept DEF ShapeOK, ScheduleTypeOK
  <2>5. JobsOK'
    BY <1>1, <1>2, <2>1, <2>2 DEF JobsOK, Job, NoJob
  <2>6. ASSUME NEW w \in Windows \ troubled' PROVE OnTime(w)'
    <3>1. CASE w = v
      <4>1. Sending(w)'
        BY <2>1, <3>1 DEF Sending
      <4>2. now' \notin {4 * w + 2, 4 * w + 3} /\ ~(now' > 4 * (w + 1))
        BY <1>1, <1>2, <2>2, <3>1, ScheduleNumbers
      <4>. QED BY <4>1, <4>2 DEF OnTime
    <3>2. CASE w # v
      <4>1. OnTime(w)
        BY <2>1, <2>6, <3>2 DEF ScheduleIInv
      <4>. QED
        BY <1>1, <1>2, <4>1, OnTimeKept, ReadyKept DEF Preparing, Sending
    <3>. QED BY <3>1, <3>2
  <2>. QED BY <2>4, <2>5, <2>6 DEF ScheduleIInv
<1>4. CASE ~(Phase = Day /\ Window > 0)
  <2>1. due' = due /\ troubled' = troubled
    BY <1>4 DEF Start
  <2>2. ShapeOK'
    BY <1>1, <1>2, <2>1, ShapeKept DEF ShapeOK, ScheduleTypeOK
  <2>3. JobsOK'
    BY <1>1, <1>2, <2>1 DEF JobsOK, NoJob
  <2>4. ASSUME NEW w \in Windows \ troubled' PROVE OnTime(w)'
    BY <1>1, <1>2, <2>1, <2>4, OnTimeKept, ReadyKept DEF ScheduleIInv, Preparing, Sending
  <2>. QED BY <2>2, <2>3, <2>4 DEF ScheduleIInv
<1>. QED BY <1>3, <1>4

\* Another group takes the bot over: a window whose preview the first has is troubled.
LEMMA BindOK == ASSUME ScheduleIInv, NEW g \in Groups, Bind(g) PROVE ScheduleIInv'
<1>1. /\ now' = now /\ active' = g /\ report' = report /\ fetchedAt' = fetchedAt /\ up' = up
      /\ analysed' = analysed /\ due' = due /\ prepare' = prepare /\ catchup' = catchup
      /\ troubled' = troubled
           \cup (IF Phase \in {Prepare, Late} /\ Job("prepare", Window) \notin due THEN {Window} ELSE {})
           \cup {w \in Windows : Job("send", w) \in due}
  BY DEF Bind
<1>2. ShapeOK /\ JobsOK /\ Kept(report')
  BY <1>1, ReportKept DEF ScheduleIInv
<1>3. now \in Int /\ now = 4 * Window + Phase /\ Window \in Int /\ Phase \in 0..3
  BY <1>2, ScheduleNumbers, Clock DEF Phase, Window
<1>4. Phase \in {Prepare, Late} => Window \in Windows
  BY <1>2, <1>3, ScheduleNumbers DEF Windows, Prepare, Late
<1>5. ShapeOK'
  BY <1>1, <1>2, <1>4, ShapeKept DEF ShapeOK, ScheduleTypeOK
<1>6. JobsOK'
  BY <1>1, <1>2 DEF JobsOK, Row
<1>7. ASSUME NEW w \in Windows \ troubled' PROVE OnTime(w)'
  <2>1. Job("send", w) \notin due
    BY <1>1, <1>7
  <2>2. now \in {4 * w + 2, 4 * w + 3} => Job("prepare", w) \in due
    <3>1. now \in {4 * w + 2, 4 * w + 3} => w = Window /\ Phase \in {Prepare, Late}
      BY <1>2, <1>3, ScheduleNumbers DEF Prepare, Late
    <3>. QED BY <1>1, <1>7, <3>1
  <2>3. Reported(w) => Reported(w)'
    BY <1>1 DEF Reported, Committed
  <2>4. OnTime(w)
    BY <1>1, <1>7 DEF ScheduleIInv
  <2>. QED
    BY <1>1, <1>2, <2>1, <2>2, <2>3, <2>4, OnTimeKept DEF Preparing, Sending
<1>. QED BY <1>5, <1>6, <1>7 DEF ScheduleIInv

----------------------------------------------------------------------------
(***************************************************************************)
(* The clock.                                                              *)
(***************************************************************************)
\* What the clock fires when it comes to t, and of which window.
LEMMA FiredOK ==
  ASSUME NEW t \in Nat, t <= 4 * (LastWindow + 1) + 1, t > 0, LastWindow \in Nat
  PROVE  /\ Fired(t) \subseteq Jobs
         /\ \A j \in Fired(t) : t = IF j.kind = "prepare" THEN 4 * j.window + 2 ELSE 4 * (j.window + 1)
         /\ \A w \in Windows : t = 4 * w + 2 =>
              t % 4 = Prepare /\ About(t) = w /\ (up => Fired(t) = {Job("prepare", w)})
         /\ \A w \in Windows : t = 4 * (w + 1) =>
              t % 4 = Day /\ About(t) = w /\ (up => Fired(t) = {Job("send", w)})
<1>1. t \div 4 \in Int /\ t % 4 \in 0..3 /\ t = 4 * (t \div 4) + (t % 4)
  BY Clock
<1> DEFINE q == t \div 4
           k == t % 4
<1>2. q \in Int /\ k \in 0..3 /\ t = 4 * q + k
  BY <1>1
<1>3. /\ Fired(t) = IF ~up THEN {} ELSE IF k = 2 THEN {Job("prepare", q)}
                     ELSE IF k = 0 THEN {Job("send", q - 1)} ELSE {}
      /\ About(t) = IF k = 0 THEN q - 1 ELSE q
  BY DEF Fired, About, Prepare, Day
<1>4. \A w \in Windows : w \in Int
  BY DEF Windows
<1> HIDE DEF q, k
<1>5. CASE k = 2
  <2>1. q \in Windows
    BY <1>2, <1>5 DEF Windows
  <2>2. \A w \in Windows : (t = 4 * w + 2 => w = q) /\ t # 4 * (w + 1)
    BY <1>2, <1>4, <1>5
  <2>3. Fired(t) \subseteq {Job("prepare", q)}
    BY <1>3, <1>5
  <2>4. Job("prepare", q) \in Jobs /\ Job("prepare", q).kind = "prepare"
        /\ Job("prepare", q).window = q /\ t = 4 * q + 2
    BY <1>2, <1>5, <2>1, JobFacts DEF Job
  <2>5. t % 4 = Prepare /\ About(t) = q /\ (up => Fired(t) = {Job("prepare", q)})
    BY <1>3, <1>5 DEF Prepare, k
  <2>. QED BY <2>2, <2>3, <2>4, <2>5
<1>6. CASE k = 0
  <2>1. q - 1 \in Windows /\ t = 4 * ((q - 1) + 1)
    BY <1>2, <1>6 DEF Windows
  <2>2. \A w \in Windows : (t = 4 * (w + 1) => w = q - 1) /\ t # 4 * w + 2
    BY <1>2, <1>4, <1>6
  <2>3. Fired(t) \subseteq {Job("send", q - 1)}
    BY <1>3, <1>6
  <2>4. Job("send", q - 1) \in Jobs /\ Job("send", q - 1).kind = "send"
        /\ Job("send", q - 1).window = q - 1
    BY <2>1, JobFacts DEF Job
  <2>5. t % 4 = Day /\ About(t) = q - 1 /\ (up => Fired(t) = {Job("send", q - 1)})
    BY <1>3, <1>6 DEF Day, k
  <2>. QED BY <2>1, <2>2, <2>3, <2>4, <2>5
<1>7. CASE k \notin {0, 2}
  <2>1. \A w \in Windows : t # 4 * w + 2 /\ t # 4 * (w + 1)
    BY <1>2, <1>4, <1>7
  <2>. QED BY <1>3, <1>7, <2>1
<1>. QED BY <1>5, <1>6, <1>7

LEMMA AdvanceOK == ASSUME ScheduleIInv, Advance PROVE ScheduleIInv'
<1> DEFINE t == now + 1
<1>1. /\ now' = t /\ up' = up /\ active' = active /\ report' = report /\ fetchedAt' = fetchedAt
      /\ analysed' = analysed /\ prepare' = prepare /\ catchup' = catchup /\ due' = Fired(t)
      /\ due = {} /\ catchup = NoJob /\ now < 4 * (LastWindow + 1) + 1
      /\ troubled' = troubled \cup
           {w \in Windows : /\ t % 4 \in {Prepare, Day} /\ w = About(t)
                            /\ ~up \/ (t % 4 = Day /\ prepare # NoJob)}
  BY DEF Advance
<1>2. ShapeOK /\ JobsOK
  BY DEF ScheduleIInv
<1>3. /\ t \in Nat /\ t > 0 /\ t <= 4 * (LastWindow + 1) + 1 /\ LastWindow \in Nat /\ now \in Nat
      /\ t = now + 1
  BY <1>1, <1>2, ScheduleNumbers
<1>4. \A w \in Windows : w \in Nat
  BY DEF Windows
<1> HIDE DEF t
<1>5. ShapeOK'
  <2>1. due' \subseteq Jobs /\ \A j \in due' : j.kind \in {"prepare", "send", "catchup"} /\ j.window \in Windows
    BY <1>1, <1>3, FiredOK DEF Jobs
  <2>2. fetchedAt' \in [Materials -> Unfetched..now']
    <3>1. Unfetched..now \subseteq Unfetched..now'
      BY <1>1, <1>3 DEF Unfetched
    <3>. QED BY <1>1, <1>2, <3>1 DEF ShapeOK, ScheduleTypeOK
  <2>3. now' \in 0..(4 * (LastWindow + 1) + 1) /\ troubled' \subseteq Windows
    BY <1>1, <1>2, <1>3 DEF ShapeOK, ScheduleTypeOK
  <2>. QED BY <1>1, <1>2, <2>1, <2>2, <2>3 DEF ShapeOK, ScheduleTypeOK
<1>6. JobsOK'
  <2>1. ~up => due' = {}
    BY <1>1 DEF Fired
  <2>2. \A j \in due' : now' = IF j.kind = "prepare" THEN 4 * j.window + 2 ELSE 4 * (j.window + 1)
    BY <1>1, <1>3, FiredOK
  <2>. QED BY <1>1, <1>2, <2>1, <2>2 DEF JobsOK, Row
<1>7. ASSUME NEW w \in Windows \ troubled' PROVE OnTime(w)'
  <2>1. OnTime(w) /\ w \in Nat
    BY <1>1, <1>4, <1>7 DEF ScheduleIInv
  <2>2. (Ready(w) => Ready(w)') /\ (Reported(w) => Reported(w)')
    BY <1>1 DEF Ready, Reported, Committed
  <2>3. CASE t = 4 * w + 2
    <3>1. t % 4 = Prepare /\ About(t) = w /\ (up => Fired(t) = {Job("prepare", w)})
      BY <1>3, <2>3, FiredOK
    <3>2. up
      BY <1>1, <1>7, <3>1
    <3>3. Preparing(w)'
      BY <1>1, <3>1, <3>2 DEF Preparing
    <3>. QED BY <1>1, <2>1, <2>3, <3>3 DEF OnTime
  <2>4. CASE t = 4 * w + 3
    <3>1. Preparing(w)
      BY <1>3, <2>1, <2>4 DEF OnTime
    <3>2. Preparing(w)'
      BY <1>1, <2>2, <3>1 DEF Preparing
    <3>. QED BY <1>1, <2>1, <2>4, <3>2 DEF OnTime
  <2>5. CASE t = 4 * (w + 1)
    <3>1. t % 4 = Day /\ About(t) = w /\ (up => Fired(t) = {Job("send", w)})
      BY <1>3, <2>5, FiredOK
    <3>2. up /\ prepare = NoJob
      BY <1>1, <1>7, <3>1
    <3>3. Preparing(w)
      BY <1>3, <2>1, <2>5 DEF OnTime
    <3>4. Sending(w)'
      BY <1>1, <2>2, <3>1, <3>2, <3>3 DEF Preparing, Sending
    <3>. QED BY <1>1, <2>1, <2>5, <3>4 DEF OnTime
  <2>6. CASE t > 4 * (w + 1)
    <3>1. Reported(w)
      BY <1>1, <1>3, <2>1, <2>6 DEF OnTime, Sending
    <3>. QED BY <1>1, <2>1, <2>2, <2>6, <3>1 DEF OnTime
  <2>7. CASE t < 4 * w + 2
    BY <1>1, <1>3, <2>1, <2>7 DEF OnTime
  <2>. QED BY <1>3, <2>1, <2>3, <2>4, <2>5, <2>6, <2>7
<1>. QED BY <1>5, <1>6, <1>7 DEF ScheduleIInv

LEMMA ScheduleNextOK == ScheduleIInv /\ [ScheduleNext]_scheduleVars => ScheduleIInv'
<1> SUFFICES ASSUME ScheduleIInv, [ScheduleNext]_scheduleVars PROVE ScheduleIInv'
  OBVIOUS
<1>1. CASE UNCHANGED scheduleVars
  BY <1>1 DEF scheduleVars, ScheduleIInv, ShapeOK, ScheduleTypeOK, JobsOK, Row, OnTime, Preparing, Sending,
              Ready, Reported, Committed
<1>. QED
  BY <1>1, MaterialOK, ByHandOK, JobDropOK, StartPrepareOK, StartCatchupOK, EndCollectOK, SavePreviewOK,
     MarkPreviewOK, QueueCatchupOK, SendDailyOK, FailJobOK, AdvanceOK, StopOK, StartOK, BindOK
  DEF ScheduleNext

THEOREM ScheduleInvariance == ScheduleSpec => []ScheduleIInv
  BY ScheduleInitOK, ScheduleNextOK, PTL DEF ScheduleSpec

----------------------------------------------------------------------------
\* Reports and jobs keep their types: what is reported has been analysed, and every job has a
\* window of the model.
THEOREM ScheduleKeepsItsTypes == ScheduleSpec => []ScheduleTypeOK
<1>1. ScheduleIInv => ScheduleTypeOK
  BY DEF ScheduleIInv, ShapeOK
<1>. QED BY <1>1, ScheduleInvariance, PTL

\* By midnight the report of an untroubled day is queued, for any number of days, groups,
\* materials and reports by hand.
THEOREM TheDayIsReported == ScheduleSpec => []DayIsReported
<1>1. ScheduleIInv => DayIsReported
  BY DEF ScheduleIInv, DayIsReported, OnTime, Reported
<1>. QED BY <1>1, ScheduleInvariance, PTL

----------------------------------------------------------------------------
(***************************************************************************)
(* Lifecycle.                                                              *)
(* What runs has its means, and every end has tried to close everything.   *)
(***************************************************************************)
\* The two orders fit together: what a worker needs is opened before and closed after it.
LEMMA MeansAround ==
  ASSUME NEW w \in Workers, NEW r \in Means[w]
  PROVE  r \in Resources /\ OpenedAt[r] < OpenedAt[w] /\ ClosedAt[w] < ClosedAt[r]
<1>1. CASE w = "intelligence"
  BY <1>1 DEF Means, OpenedAt, ClosedAt, Resources, Bot, IngestionStack, IntelligenceCommand
<1>2. CASE w = "mail"
  BY <1>2 DEF Means, OpenedAt, ClosedAt, Resources, Bot
<1>3. CASE w = "ingestion"
  BY <1>3 DEF Means, OpenedAt, ClosedAt, Resources, Bot, IngestionStack, IngestionCommand
<1>4. CASE w = "adapter"
  BY <1>4 DEF Means, OpenedAt, ClosedAt, Resources, Bot, IntelligenceCommand
<1>. QED BY <1>1, <1>2, <1>3, <1>4 DEF Workers, Schedulers

LEMMA OrdersAreNumbers ==
  ASSUME NEW r \in Resources
  PROVE  OpenedAt[r] \in Nat /\ ClosedAt[r] \in Nat
  BY DEF OpenedAt, ClosedAt, Resources, Bot, IngestionStack, Workers, Schedulers

LEMMA NoneIsNoResource == "none" \notin Resources /\ Workers \subseteq Resources
  BY DEF Resources, Bot, IngestionStack, Workers, Schedulers

----------------------------------------------------------------------------
(***************************************************************************)
(* The inductive invariant.  An open worker that has not been asked to     *)
(* close has its means; so has the one that is being closed, and what is   *)
(* being closed is no means of the ones that come later; what runs belongs *)
(* to an open worker, and a scheduler that is closed has nothing left.     *)
(***************************************************************************)
ClosingOK ==
  closing # "none" =>
    /\ IsClosing
    /\ closing \in open \intersect attempted
    /\ closing \in Workers => Means[closing] \intersect Parts \subseteq open
    /\ \A w \in Workers \intersect (open \ attempted) : closing \notin Means[w]

MeansOK == \A w \in Workers \intersect (open \ attempted) : Means[w] \intersect Parts \subseteq open

WorkOK ==
  \A w \in Workers :
    /\ work[w] = "running" => w \in open \ attempted
    /\ work[w] = "cancelled" => w \in attempted
    /\ w \in Schedulers \intersect (attempted \ open) => work[w] = "none"

LifecycleIInv == LifecycleTypeOK /\ ClosingOK /\ MeansOK /\ WorkOK /\ NothingLeftOpen

LEMMA LifecycleInitOK == LifecycleInit => LifecycleIInv
  BY DEF LifecycleInit, LifecycleIInv, LifecycleTypeOK, ClosingOK, MeansOK, WorkOK, NothingLeftOpen

----------------------------------------------------------------------------
(***************************************************************************)
(* Building, serving and leaving.                                          *)
(***************************************************************************)
LEMMA OpenOK == ASSUME LifecycleIInv, Open PROVE LifecycleIInv'
<1>1. PICK r \in Resources : IsFirst(r, Parts \ open, OpenedAt) /\ open' = open \union {r}
  BY DEF Open
<1>2. /\ phase = "building" /\ phase' = phase /\ closing' = closing /\ interrupted' = interrupted
      /\ attempted' = attempted /\ work' = work /\ program' = program /\ options' = options
      /\ Parts' = Parts
  BY DEF Open, Parts
<1>3. closing = "none"
  BY <1>2 DEF LifecycleIInv, ClosingOK, IsClosing
<1>4. LifecycleTypeOK'
  BY <1>1, <1>2 DEF LifecycleIInv, LifecycleTypeOK, IsFirst
<1>5. MeansOK'
  <2> SUFFICES ASSUME NEW w \in Workers, w \in open' \ attempted',
                      NEW q \in Means[w], q \in Parts
               PROVE  q \in open'
    BY <1>2 DEF MeansOK
  <2>1. CASE w \in open
    BY <2>1, <1>1, <1>2 DEF LifecycleIInv, MeansOK
  <2>2. CASE w = r
    <3>1. OpenedAt[q] < OpenedAt[r] /\ q \in Resources
      BY <2>2, MeansAround
    <3>2. OpenedAt[q] \in Nat /\ OpenedAt[r] \in Nat
      BY <3>1, OrdersAreNumbers
    <3>3. q \in open
      BY <1>1, <3>1, <3>2 DEF IsFirst
    <3>. QED BY <3>3, <1>1
  <2>. QED BY <2>1, <2>2, <1>1
<1>6. WorkOK'
  BY <1>1, <1>2 DEF LifecycleIInv, WorkOK
<1>. QED BY <1>2, <1>3, <1>4, <1>5, <1>6 DEF LifecycleIInv, ClosingOK, NothingLeftOpen

LEMMA PhaseOK ==
  ASSUME LifecycleIInv, Serve \/ BuildFails \/ Leave \/ Interrupt \/ End
  PROVE  LifecycleIInv'
<1>1. /\ open' = open /\ attempted' = attempted /\ closing' = closing /\ work' = work
      /\ program' = program /\ options' = options /\ Parts' = Parts
  BY DEF Serve, BuildFails, Leave, Interrupt, End, Parts
<1>2. closing = "none"
  BY DEF LifecycleIInv, ClosingOK, IsClosing, Serve, BuildFails, Leave, Interrupt, End
<1>3. LifecycleTypeOK'
  BY <1>1 DEF LifecycleIInv, LifecycleTypeOK, Serve, BuildFails, Leave, Interrupt, End
<1>4. MeansOK' /\ WorkOK' /\ ClosingOK'
  BY <1>1, <1>2 DEF LifecycleIInv, MeansOK, WorkOK, ClosingOK
<1>5. NothingLeftOpen'
  BY <1>1 DEF LifecycleIInv, NothingLeftOpen, IsClosing, Serve, BuildFails, Leave, Interrupt, End
<1>. QED BY <1>3, <1>4, <1>5 DEF LifecycleIInv

LEMMA WorkStepsOK == ASSUME LifecycleIInv, NEW w \in Workers, Begin(w) \/ Finish(w) PROVE LifecycleIInv'
<1>1. /\ open' = open /\ attempted' = attempted /\ closing' = closing /\ phase' = phase
      /\ program' = program /\ options' = options /\ interrupted' = interrupted /\ Parts' = Parts
  BY DEF Begin, Finish, Parts
<1>2. work' \in [Workers -> {"none", "running", "cancelled"}]
  BY DEF LifecycleIInv, LifecycleTypeOK, Begin, Finish
<1>3. WorkOK'
  BY <1>1 DEF LifecycleIInv, LifecycleTypeOK, WorkOK, Begin, Finish
<1>. QED
  BY <1>1, <1>2, <1>3 DEF LifecycleIInv, LifecycleTypeOK, ClosingOK, MeansOK, NothingLeftOpen, IsClosing

----------------------------------------------------------------------------
(***************************************************************************)
(* Closing.                                                                *)
(***************************************************************************)
LEMMA StartClosingOK == ASSUME LifecycleIInv, StartClosing PROVE LifecycleIInv'
<1>1. PICK r \in Resources :
        /\ IsFirst(r, open \ attempted, ClosedAt)
        /\ closing' = r
        /\ attempted' = attempted \union {r}
        /\ work' = [w \in Workers |-> IF w = r /\ work[w] = "running" THEN "cancelled" ELSE work[w]]
  BY DEF StartClosing
<1>2. /\ open' = open /\ phase' = phase /\ interrupted' = interrupted
      /\ program' = program /\ options' = options /\ Parts' = Parts /\ IsClosing /\ IsClosing'
  BY DEF StartClosing, Parts, IsClosing
<1>3. r \in open \ attempted
  BY <1>1 DEF IsFirst
<1>4. LifecycleTypeOK'
  <2>1. work' \in [Workers -> {"none", "running", "cancelled"}]
    BY <1>1 DEF LifecycleIInv, LifecycleTypeOK
  <2>. QED BY <1>1, <1>2, <1>3, <2>1 DEF LifecycleIInv, LifecycleTypeOK
<1>5. ClosingOK'
  <2>1. r \in Workers => Means[r] \intersect Parts \subseteq open
    BY <1>3 DEF LifecycleIInv, MeansOK
  <2>2. ASSUME NEW w \in Workers, w \in open \ attempted PROVE r \notin Means[w]
    <3>1. ClosedAt[r] <= ClosedAt[w]
      BY <1>1, <2>2 DEF IsFirst
    <3>2. ClosedAt[r] \in Nat /\ ClosedAt[w] \in Nat
      BY OrdersAreNumbers, NoneIsNoResource
    <3>. QED BY <3>1, <3>2, MeansAround
  <2>. QED BY <1>1, <1>2, <1>3, <2>1, <2>2 DEF ClosingOK
<1>6. MeansOK'
  BY <1>1, <1>2 DEF LifecycleIInv, MeansOK
<1>7. WorkOK'
  BY <1>1, <1>2, <1>3 DEF LifecycleIInv, WorkOK
<1>8. NothingLeftOpen'
  BY <1>2 DEF NothingLeftOpen, IsClosing
<1>. QED BY <1>4, <1>5, <1>6, <1>7, <1>8 DEF LifecycleIInv

LEMMA FinishClosingOK == ASSUME LifecycleIInv, FinishClosing PROVE LifecycleIInv'
<1>1. /\ closing # "none" /\ Unwound /\ open' = open \ {closing} /\ closing' = "none"
      /\ phase' = phase /\ interrupted' = interrupted /\ attempted' = attempted /\ work' = work
      /\ program' = program /\ options' = options /\ Parts' = Parts
  BY DEF FinishClosing, Parts
<1>2. LifecycleTypeOK' /\ ClosingOK' /\ NothingLeftOpen'
  BY <1>1 DEF LifecycleIInv, LifecycleTypeOK, ClosingOK, NothingLeftOpen, IsClosing
<1>3. MeansOK'
  <2> SUFFICES ASSUME NEW w \in Workers, w \in open' \ attempted'
               PROVE  Means[w] \intersect Parts \subseteq open'
    BY <1>1 DEF MeansOK
  <2>1. w \in open \ attempted
    BY <1>1
  <2>2. Means[w] \intersect Parts \subseteq open /\ closing \notin Means[w]
    BY <1>1, <2>1 DEF LifecycleIInv, MeansOK, ClosingOK
  <2>. QED BY <1>1, <2>2
<1>4. WorkOK'
  BY <1>1 DEF LifecycleIInv, WorkOK, ClosingOK, Unwound
<1>. QED BY <1>2, <1>3, <1>4 DEF LifecycleIInv

LEMMA ClosingRaisesOK == ASSUME LifecycleIInv, ClosingRaises PROVE LifecycleIInv'
<1>1. /\ closing # "none" /\ open' = open /\ closing' = "none" /\ phase' = phase
      /\ attempted' = attempted /\ work' = work
      /\ program' = program /\ options' = options /\ Parts' = Parts
  BY DEF ClosingRaises, Parts
<1>2. phase \in {"failing", "stopping"}
  BY <1>1 DEF LifecycleIInv, ClosingOK, IsClosing
<1>3. LifecycleTypeOK'
  BY <1>1, <1>2 DEF LifecycleIInv, LifecycleTypeOK, ClosingRaises
<1>4. MeansOK' /\ WorkOK' /\ ClosingOK' /\ NothingLeftOpen'
  BY <1>1, <1>2 DEF LifecycleIInv, MeansOK, WorkOK, ClosingOK, NothingLeftOpen
<1>. QED BY <1>3, <1>4 DEF LifecycleIInv

LEMMA LifecycleNextOK == LifecycleIInv /\ [LifecycleNext]_lifecycleVars => LifecycleIInv'
<1> SUFFICES ASSUME LifecycleIInv, [LifecycleNext]_lifecycleVars PROVE LifecycleIInv'
  OBVIOUS
<1>1. CASE UNCHANGED lifecycleVars
  BY <1>1 DEF lifecycleVars, LifecycleIInv, LifecycleTypeOK, ClosingOK, MeansOK, WorkOK, NothingLeftOpen,
              Parts, IsClosing
<1>. QED
  BY <1>1, OpenOK, PhaseOK, WorkStepsOK, StartClosingOK, FinishClosingOK, ClosingRaisesOK
  DEF LifecycleNext

THEOREM LifecycleInvariance == LifecycleSpec => []LifecycleIInv
  BY LifecycleInitOK, LifecycleNextOK, PTL DEF LifecycleSpec

----------------------------------------------------------------------------
\* The variables keep their types, and nothing is open but what the program has.
THEOREM ProgramsKeepTheirTypes == LifecycleSpec => []LifecycleTypeOK
<1>1. LifecycleIInv => LifecycleTypeOK
  BY DEF LifecycleIInv
<1>. QED BY <1>1, LifecycleInvariance, PTL

\* No job of a scheduler, unless the wait for it was interrupted, and no answer that has not
\* been cancelled outlives what it runs on, in whatever order parts fail to be built, closings
\* raise and jobs take their time.
THEOREM NoWorkWithoutMeans == LifecycleSpec => []WorkHasItsMeans
<1>1. LifecycleIInv => WorkHasItsMeans
  <2> SUFFICES ASSUME LifecycleIInv, NEW w \in Workers,
                      \/ work[w] = "running"
                      \/ w \in Schedulers \ Failed /\ work[w] = "cancelled"
               PROVE  Means[w] \intersect Parts \subseteq open
    BY DEF WorkHasItsMeans
  <2>1. CASE work[w] = "running"
    BY <2>1 DEF LifecycleIInv, WorkOK, MeansOK
  <2>2. CASE w \in Schedulers \ Failed /\ work[w] = "cancelled"
    <3>1. w \in attempted /\ w \in open
      BY <2>2 DEF LifecycleIInv, WorkOK
    <3>2. closing = w /\ closing # "none"
      BY <2>2, <3>1, NoneIsNoResource DEF Failed
    <3>. QED BY <3>2 DEF LifecycleIInv, ClosingOK
  <2>. QED BY <2>1, <2>2
<1>. QED BY <1>1, LifecycleInvariance, PTL

\* Whatever fails, an ended program has tried to close all it opened, but for the
\* intelligence command interrupted at work.
THEOREM EverythingIsClosed == LifecycleSpec => []NothingLeftOpen
<1>1. LifecycleIInv => NothingLeftOpen
  BY DEF LifecycleIInv
<1>. QED BY <1>1, LifecycleInvariance, PTL

----------------------------------------------------------------------------
(***************************************************************************)
(* MCBackground.                                                           *)
(***************************************************************************)
LEMMA MachineSteps ==
  ASSUME [BackgroundNext]_<<part, alertVars, readVars, scheduleVars, retentionVars, noticeVars,
                           fetchVars, firecrawlVars, lifecycleVars>>
  PROVE  /\ [AlertNext]_alertVars /\ [ReadNext]_readVars /\ [ScheduleNext]_scheduleVars
         /\ [RetentionNext]_retentionVars /\ [NoticeNext]_noticeVars /\ [FetchNext]_fetchVars
         /\ [FirecrawlNext]_firecrawlVars /\ [LifecycleNext]_lifecycleVars
         /\ part' = part
BY DEF BackgroundNext, RunAlerts, RunRead, RunSchedule, RunRetention, RunNotice, RunFetch,
       RunFirecrawl, RunLifecycle

\* The composition adds nothing: what it does to the variables of a machine, that machine
\* does by its own specification.
THEOREM MachinesRunByThemselves ==
  BackgroundSpec =>
    /\ AlertSpec /\ ReadSpec /\ ScheduleSpec /\ RetentionSpec
    /\ NoticeSpec /\ FetchSpec /\ FirecrawlSpec /\ LifecycleSpec
<1>1. BackgroundInit => /\ AlertInit /\ ReadInit /\ ScheduleInit /\ RetentionInit
                        /\ NoticeInit /\ FetchInit /\ FirecrawlInit /\ LifecycleInit
  BY DEF BackgroundInit
<1>. QED BY <1>1, MachineSteps, PTL
         DEF BackgroundSpec, AlertSpec, ReadSpec, ScheduleSpec, RetentionSpec, NoticeSpec,
             FetchSpec, FirecrawlSpec, LifecycleSpec

\* Whichever machine runs, it keeps its types.
THEOREM BackgroundKeepsItsTypes == BackgroundSpec => []BackgroundTypeOK
<1> DEFINE PartOK == part \in Machines
<1>1. BackgroundSpec => []PartOK
  <2>1. BackgroundInit => PartOK
    BY DEF BackgroundInit
  <2>2. ASSUME PartOK, [BackgroundNext]_<<part, alertVars, readVars, scheduleVars, retentionVars,
                          noticeVars, fetchVars, firecrawlVars, lifecycleVars>>
        PROVE  PartOK'
    BY <2>2, MachineSteps
  <2>. QED BY <2>1, <2>2, PTL DEF BackgroundSpec
<1>2. ASSUME PartOK, AlertTypeOK, ReadTypeOK, ScheduleTypeOK, RetentionTypeOK, NoticeTypeOK,
             FetchTypeOK, FirecrawlTypeOK, LifecycleTypeOK
      PROVE  BackgroundTypeOK
  BY <1>2 DEF BackgroundTypeOK, Machines
<1>. QED BY <1>1, <1>2, MachinesRunByThemselves, AlertsKeepTheirTypes, ReadsKeepTheirTypes,
            ScheduleKeepsItsTypes, RetentionKeepsItsTypes, NoticesKeepTheirTypes,
            FetchesKeepTheirTypes, ScrapesKeepTheirTypes, ProgramsKeepTheirTypes, PTL
=============================================================================
