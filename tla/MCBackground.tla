---------------------------- MODULE MCBackground ----------------------------
(***************************************************************************)
(* Instances for TLC of the smaller machines around the three queues:      *)
(* alerts, the readers of the corpus, the schedule of a day, retention,    *)
(* notices, HTTP, Firecrawl, opening and closing.  They share no variable, *)
(* so one behaviour runs one of them, chosen at the start, and leaves the  *)
(* others at their initial states.                                         *)
(***************************************************************************)
EXTENDS AlertDedup, CorpusReads, DailySchedule, MediaRetention, NoticeIntake, FetchPolicy,
        FirecrawlPacing, Lifecycle, TLC

CONSTANTS s1, s2, f1, f2, h1, h2

VARIABLE part   \* the machine that runs

Machines == {"alerts", "reads", "schedule", "retention", "notices", "fetch", "firecrawl",
             "lifecycle"}

BackgroundInit ==
  /\ part \in Machines
  /\ AlertInit /\ ReadInit /\ ScheduleInit /\ RetentionInit /\ NoticeInit /\ FetchInit /\ FirecrawlInit
  /\ LifecycleInit
  /\ part = "reads" \/ registry = CHOOSE r \in Registries : TRUE
  /\ part = "retention" \/ media = CHOOSE ids \in MediaRegistries : TRUE
  /\ \A v \in Legacy : savedOn[v] = moment
  /\ part = "fetch" \/ target = [f \in Fetches |-> h1]
  /\ part = "lifecycle" \/ program = "intelligence"
  /\ options \in {{}, Optional \intersect PartsOf[program]}

RunAlerts ==
  /\ part = "alerts" /\ AlertNext
  /\ UNCHANGED <<part, readVars, scheduleVars, retentionVars, noticeVars, fetchVars,
                 firecrawlVars, lifecycleVars>>

RunRead ==
  /\ part = "reads" /\ ReadNext
  /\ UNCHANGED <<part, alertVars, scheduleVars, retentionVars, noticeVars, fetchVars,
                 firecrawlVars, lifecycleVars>>

RunSchedule ==
  /\ part = "schedule" /\ ScheduleNext
  /\ UNCHANGED <<part, alertVars, readVars, retentionVars, noticeVars, fetchVars,
                 firecrawlVars, lifecycleVars>>

RunRetention ==
  /\ part = "retention" /\ RetentionNext
  /\ UNCHANGED <<part, alertVars, readVars, scheduleVars, noticeVars, fetchVars,
                 firecrawlVars, lifecycleVars>>

RunNotice ==
  /\ part = "notices" /\ NoticeNext
  /\ UNCHANGED <<part, alertVars, readVars, scheduleVars, retentionVars, fetchVars,
                 firecrawlVars, lifecycleVars>>

RunFetch ==
  /\ part = "fetch" /\ FetchNext
  /\ UNCHANGED <<part, alertVars, readVars, scheduleVars, retentionVars, noticeVars,
                 firecrawlVars, lifecycleVars>>

RunFirecrawl ==
  /\ part = "firecrawl" /\ FirecrawlNext
  /\ UNCHANGED <<part, alertVars, readVars, scheduleVars, retentionVars, noticeVars, fetchVars,
                 lifecycleVars>>

RunLifecycle ==
  /\ part = "lifecycle" /\ LifecycleNext
  /\ UNCHANGED <<part, alertVars, readVars, scheduleVars, retentionVars, noticeVars, fetchVars,
                 firecrawlVars>>

BackgroundNext ==
  RunAlerts \/ RunRead \/ RunSchedule \/ RunRetention \/ RunNotice \/ RunFetch \/ RunFirecrawl
    \/ RunLifecycle

BackgroundSpec ==
  BackgroundInit
    /\ [][BackgroundNext]_<<part, alertVars, readVars, scheduleVars, retentionVars,
                           noticeVars, fetchVars, firecrawlVars, lifecycleVars>>

\* The machine that runs has its types; the others are as they started.
BackgroundTypeOK ==
  CASE part = "alerts" -> AlertTypeOK
    [] part = "reads" -> ReadTypeOK
    [] part = "schedule" -> ScheduleTypeOK
    [] part = "retention" -> RetentionTypeOK
    [] part = "notices" -> NoticeTypeOK
    [] part = "fetch" -> FetchTypeOK
    [] part = "firecrawl" -> FirecrawlTypeOK
    [] part = "lifecycle" -> LifecycleTypeOK

----------------------------------------------------------------------------
\* Two copies of an article on a fee, and another article on the same event.
MCAnalysis ==
  LET Fee(content) == [event |-> "e1", content |-> content, type |-> "fees", level |-> "low", score |-> 80]
  IN <<Fee("c1"), Fee("c1"),
       [event |-> "e1", content |-> "c2", type |-> "listing_restriction", level |-> "medium", score |-> 70]>>

\* A press article and a notice of one event, the one a copy of the other, and a notice of
\* another event that ranks between them.
MCArticle ==
  LET Base == [feed |-> "notices", content |-> "c1", event |-> "fees", official |-> TRUE, risk |-> 1,
               score |-> 70, fetched |-> 1, due |-> TRUE, hits |-> 2, mentions |-> {}]
  IN <<[Base EXCEPT !.feed = "press", !.official = FALSE, !.risk = 3, !.hits = 1,
                    !.mentions = {"temu"}],
       Base,
       [Base EXCEPT !.content = "c2", !.event = "tax", !.score = 80, !.fetched = 2, !.hits = 1]>>

\* The press is gated and covers a platform more than the notices; another registry drops a
\* platform and stops gating it.
MCRegistries ==
  {[offers |-> [press |-> {"temu", "shein"}, notices |-> {"shein"}], gated |-> {"press"}],
   [offers |-> [press |-> {"temu"}, notices |-> {"temu"}], gated |-> {}]}

MCPriority == [p \in Platforms |-> IF p = "temu" THEN 3 ELSE 2]
MCQuestions == {{}, {"shein"}}

\* Two mails with one notice, one that is refused; accounts of which one sends no mail.
Fee == [account |-> "amazon", platform |-> "amazon", host |-> "sell.amazon", empty |-> FALSE,
        private |-> FALSE]
Ban == [Fee EXCEPT !.account = "temu", !.platform = "temu", !.host = "temu.com"]
Leak == [Fee EXCEPT !.private = TRUE]
MCNotices == {Fee, Ban, Leak}
MCAccounts ==
  ("amazon" :> [platforms |-> {"amazon"}, hosts |-> {"sell.amazon"}, transports |-> Transports])
  @@ ("temu" :> [platforms |-> {"temu"}, hosts |-> {"temu.com"}, transports |-> {"feishu"}])
MCLetter ==
  [m \in Mails |-> [sender |-> "known", size |-> "small", attachment |-> "none",
                    notice |-> IF m <= 2 THEN Fee ELSE Leak]]

\* Both groups start unbound; the other machines do not know them.
MCSymmetry == Permutations(Groups)

MCSourceOf == [f \in Fetches |-> IF f = f1 THEN s1 ELSE s2]
=============================================================================
