-------------------------- MODULE Ingestion_proofs --------------------------
(***************************************************************************)
(* Theorems about the machines of src/src/commerce_agent/ingestion around  *)
(* the source runs: the HTTP client, the Firecrawl client, official        *)
(* notices and retention.                                                  *)
(***************************************************************************)
EXTENDS FetchPolicy, FirecrawlPacing, NoticeIntake, MediaRetention, FiniteOrders

----------------------------------------------------------------------------
(***************************************************************************)
(* FetchPolicy.                                                            *)
(* The permits and locks of the HTTP client are accounted for in every     *)
(* state, and the circuit stops whatever has not been sent yet.            *)
(***************************************************************************)
FetchStages == {"idle"} \union Running \union Outcomes
Holding == {f \in Fetches : stage[f] \in HoldsSlot}
PermitsOf(s) == IF s \in HoldsSlot THEN 1 ELSE 0

SlotsOK == slots + Cardinality(Holding) = Slots
LocksOK == \A h \in Hosts, f \in Fetches : pacing[h] = f <=> stage[f] = "paced" /\ target[f] = h

FetchIInv == FetchTypeOK /\ SlotsOK /\ LocksOK

LEMMA PermitsAreAccounted == SlotsOK /\ LocksOK <=> PermitsAccounted
  BY DEF SlotsOK, LocksOK, PermitsAccounted, Holding

LEMMA HoldersAreCounted == IsFiniteSet(Holding) /\ Cardinality(Holding) \in Nat
<1>1. Holding \subseteq Fetches
  BY DEF Holding
<1>. QED BY <1>1, FetchAssumption, FS_Subset, FS_CardinalityType

----------------------------------------------------------------------------
(***************************************************************************)
(* A fetch moves to another stage and takes or gives back the permit that  *)
(* the two stages differ by: the sum stays.                                *)
(***************************************************************************)
Moves(f, s) ==
  /\ stage' = [stage EXCEPT ![f] = s]
  /\ slots' = slots + PermitsOf(stage[f]) - PermitsOf(s)

LEMMA SumIsKept ==
  ASSUME FetchIInv, NEW f \in Fetches, NEW s \in FetchStages, Moves(f, s)
  PROVE  SlotsOK'
<1> DEFINE others == {g \in Fetches \ {f} : stage[g] \in HoldsSlot}
<1>1. /\ stage \in [Fetches -> FetchStages] /\ slots \in Int /\ Slots \in Int
      /\ stage' = [stage EXCEPT ![f] = s]
  BY FetchAssumption DEF FetchIInv, FetchTypeOK, FetchStages, Moves
<1>2. Holding = IF stage[f] \in HoldsSlot THEN others \union {f} ELSE others
  BY DEF Holding
<1>3. Holding' = IF s \in HoldsSlot THEN others \union {f} ELSE others
  BY <1>1 DEF Holding
<1>4. IsFiniteSet(others) /\ Cardinality(others) \in Nat
  <2>1. others \subseteq Fetches
    OBVIOUS
  <2>. QED BY <2>1, FetchAssumption, FS_Subset, FS_CardinalityType
<1>5. Cardinality(others \union {f}) = Cardinality(others) + 1
  <2>1. f \notin others
    OBVIOUS
  <2>. QED BY <2>1, <1>4, FS_AddElement
<1>6. Cardinality(Holding) = Cardinality(others) + PermitsOf(stage[f])
  BY <1>2, <1>4, <1>5 DEF PermitsOf
<1>7. Cardinality(Holding') = Cardinality(others) + PermitsOf(s)
  BY <1>3, <1>4, <1>5 DEF PermitsOf
<1>8. PermitsOf(s) \in Int /\ PermitsOf(stage[f]) \in Int
  BY DEF PermitsOf
<1> HIDE DEF others
<1>9. slots' + Cardinality(Holding') = Slots
  BY <1>1, <1>4, <1>6, <1>7, <1>8 DEF Moves, FetchIInv, SlotsOK
<1>. QED BY <1>9 DEF SlotsOK

\* Each step of a fetch moves it, or at least neither stage nor permits.
LEMMA StepsMove ==
  ASSUME FetchIInv, NEW f \in Fetches, StartFetch(f) \/ FetchStep(f) \/ CancelFetch(f)
  PROVE  \E s \in FetchStages : Moves(f, s)
<1> USE DEF Moves, PermitsOf, HoldsSlot, FetchStages, Running, Outcomes
<1>1. slots \in Int
  BY FetchAssumption DEF FetchIInv, FetchTypeOK
<1>2. CASE StartFetch(f)
  BY <1>1, <1>2 DEF StartFetch
<1>3. CASE ValidateUrl(f)
  BY <1>1, <1>3 DEF ValidateUrl, BlockedCode
<1>4. CASE TakeSlot(f)
  BY <1>1, <1>4 DEF TakeSlot, BlockedCode
<1>5. CASE TakeTurn(f)
  BY <1>1, <1>5 DEF TakeTurn
<1>6. CASE Send(f)
  BY <1>1, <1>6 DEF Send, FinishPace, BlockedCode
<1>7. CASE Answer(f)
  <2>1. stage[f] = "sent" /\ slots' = slots + 1
    BY <1>7 DEF Answer, Answered, AnswerFinal, AnswerForbidden, AnswerRetry, AnswerExhausted,
               AnswerRedirect
  <2>2. PICK s \in FetchStages : s \notin HoldsSlot /\ stage' = [stage EXCEPT ![f] = s]
    BY <1>7 DEF Answer, AnswerFinal, AnswerForbidden, AnswerRetry, AnswerExhausted, AnswerRedirect
  <2>3. PermitsOf(s) = 0 /\ PermitsOf(stage[f]) = 1
    BY <2>1, <2>2
  <2>4. slots' = slots + PermitsOf(stage[f]) - PermitsOf(s)
    BY <1>1, <2>1, <2>3
  <2>. QED BY <2>2, <2>4
<1>8. CASE EndBackoff(f)
  BY <1>1, <1>8 DEF EndBackoff
<1>9. CASE CancelFetch(f)
  BY <1>1, <1>9 DEF CancelFetch
<1>. QED BY <1>2, <1>3, <1>4, <1>5, <1>6, <1>7, <1>8, <1>9 DEF FetchStep

----------------------------------------------------------------------------
(***************************************************************************)
(* Types.                                                                  *)
(***************************************************************************)
\* The semaphore stays within its permits because the sum does.
LEMMA SlotsInRange ==
  ASSUME slots \in Int, slots >= 0, SlotsOK
  PROVE  slots \in 0..Slots
  BY HoldersAreCounted, FetchAssumption DEF SlotsOK

TypesButSlots ==
  /\ stage \in [Fetches -> FetchStages]
  /\ target \in [Fetches -> Hosts]
  /\ retries \in [Fetches -> 0..MaxRetries]
  /\ hops \in [Fetches -> 0..MaxRedirects]
  /\ slots \in Int /\ slots >= 0
  /\ pacing \in [Hosts -> Fetches \union {NoFetch}]
  /\ quiet \in [Hosts -> 0..Interval]
  /\ blockedHosts \subseteq Hosts /\ blockedSources \subseteq Sources

LEMMA TypesAgree == FetchTypeOK => TypesButSlots
  BY FetchAssumption DEF FetchTypeOK, TypesButSlots, FetchStages

LEMMA TypesComplete == TypesButSlots /\ slots \in 0..Slots => FetchTypeOK
  BY DEF FetchTypeOK, TypesButSlots, FetchStages

LEMMA TypesOfFetch ==
  ASSUME FetchIInv, NEW f \in Fetches, StartFetch(f) \/ FetchStep(f) \/ CancelFetch(f)
  PROVE  TypesButSlots'
<1>1. TypesButSlots
  BY TypesAgree DEF FetchIInv
<1>2. stage' \in [Fetches -> FetchStages]
  <2>1. PICK s \in FetchStages : stage' = [stage EXCEPT ![f] = s]
    BY StepsMove DEF Moves
  <2>. QED BY <1>1, <2>1 DEF TypesButSlots
<1>3. CASE StartFetch(f)
  BY <1>1, <1>2, <1>3 DEF TypesButSlots, StartFetch
<1>4. CASE ValidateUrl(f) \/ EndBackoff(f)
  BY <1>1, <1>2, <1>4 DEF TypesButSlots, ValidateUrl, EndBackoff
<1>5. CASE TakeSlot(f)
  BY <1>1, <1>2, <1>5 DEF TypesButSlots, TakeSlot
<1>6. CASE TakeTurn(f)
  BY <1>1, <1>2, <1>6 DEF TypesButSlots, TakeTurn
<1>7. CASE Send(f)
  BY <1>1, <1>2, <1>7, FetchAssumption DEF TypesButSlots, Send, FinishPace
<1>8. CASE AnswerFinal(f) \/ AnswerForbidden(f) \/ AnswerExhausted(f)
  BY <1>1, <1>2, <1>8, FetchAssumption
  DEF TypesButSlots, AnswerFinal, AnswerForbidden, AnswerExhausted, Answered
<1>9. CASE AnswerRetry(f)
  BY <1>1, <1>2, <1>9, FetchAssumption DEF TypesButSlots, AnswerRetry, Answered
<1>10. CASE AnswerRedirect(f)
  BY <1>1, <1>2, <1>10, FetchAssumption DEF TypesButSlots, AnswerRedirect, Answered
<1>11. CASE CancelFetch(f)
  BY <1>1, <1>2, <1>11 DEF TypesButSlots, CancelFetch
<1>. QED
  BY <1>3, <1>4, <1>5, <1>6, <1>7, <1>8, <1>9, <1>10, <1>11 DEF FetchStep, Answer

----------------------------------------------------------------------------
(***************************************************************************)
(* Locks.                                                                  *)
(***************************************************************************)
LEMMA LocksOfFetch ==
  ASSUME FetchIInv, NEW f \in Fetches, StartFetch(f) \/ FetchStep(f) \/ CancelFetch(f)
  PROVE  LocksOK'
<1>1. /\ LocksOK /\ NoFetch \notin Fetches
      /\ stage \in [Fetches -> FetchStages] /\ target \in [Fetches -> Hosts]
      /\ pacing \in [Hosts -> Fetches \union {NoFetch}]
  BY FetchAssumption DEF FetchIInv, FetchTypeOK, FetchStages
<1>2. CASE TakeTurn(f)
  BY <1>1, <1>2 DEF LocksOK, TakeTurn
<1>3. CASE Send(f)
  <2>1. /\ stage[f] = "paced" /\ stage'[f] # "paced" /\ target' = target
        /\ \A g \in Fetches \ {f} : stage'[g] = stage[g]
        /\ pacing' = [pacing EXCEPT ![target[f]] = NoFetch]
    BY <1>1, <1>3 DEF Send, FinishPace, BlockedCode
  <2>. QED BY <1>1, <2>1 DEF LocksOK
<1>4. CASE CancelFetch(f)
  BY <1>1, <1>4 DEF LocksOK, CancelFetch
<1>5. CASE StartFetch(f) \/ ValidateUrl(f) \/ TakeSlot(f) \/ Answer(f) \/ EndBackoff(f)
  <2>1. /\ stage[f] # "paced" /\ stage'[f] # "paced" /\ pacing' = pacing
        /\ \A g \in Fetches \ {f} : stage'[g] = stage[g] /\ target'[g] = target[g]
    <3>1. CASE StartFetch(f) \/ ValidateUrl(f) \/ TakeSlot(f) \/ EndBackoff(f)
      BY <1>1, <3>1 DEF StartFetch, ValidateUrl, TakeSlot, EndBackoff, BlockedCode
    <3>2. CASE AnswerFinal(f) \/ AnswerForbidden(f) \/ AnswerRetry(f) \/ AnswerExhausted(f)
      BY <1>1, <3>2 DEF AnswerFinal, AnswerForbidden, AnswerRetry, AnswerExhausted, Answered
    <3>3. CASE AnswerRedirect(f)
      BY <1>1, <3>3 DEF AnswerRedirect, Answered
    <3>. QED BY <1>5, <3>1, <3>2, <3>3 DEF Answer
  <2>. QED BY <1>1, <2>1 DEF LocksOK
<1>. QED BY <1>2, <1>3, <1>4, <1>5 DEF FetchStep

----------------------------------------------------------------------------
LEMMA FetchInitOK == FetchInit => FetchIInv
<1> SUFFICES ASSUME FetchInit PROVE FetchIInv
  OBVIOUS
<1>1. LocksOK
  BY FetchAssumption DEF FetchInit, LocksOK
<1>2. SlotsOK
  <2>1. Holding = {}
    BY DEF FetchInit, Holding, HoldsSlot
  <2>. QED BY <2>1, FS_EmptySet, FetchAssumption DEF FetchInit, SlotsOK
<1>3. TypesButSlots
  BY FetchAssumption DEF FetchInit, TypesButSlots, FetchStages
<1>. QED BY <1>1, <1>2, <1>3, SlotsInRange, TypesComplete DEF FetchIInv, TypesButSlots

LEMMA FetchNextOK == FetchIInv /\ [FetchNext]_fetchVars => FetchIInv'
<1> SUFFICES ASSUME FetchIInv, [FetchNext]_fetchVars PROVE FetchIInv'
  OBVIOUS
<1>1. ASSUME NEW f \in Fetches, StartFetch(f) \/ FetchStep(f) \/ CancelFetch(f) PROVE FetchIInv'
  <2>1. TypesButSlots' /\ LocksOK'
    BY <1>1, TypesOfFetch, LocksOfFetch
  <2>2. SlotsOK'
    BY <1>1, StepsMove, SumIsKept
  <2>3. slots' \in 0..Slots
    <3>1. Holding' \subseteq Fetches
      BY DEF Holding
    <3>2. Cardinality(Holding') \in Nat
      BY <3>1, FetchAssumption, FS_Subset, FS_CardinalityType
    <3>. QED BY <2>1, <2>2, <3>2, FetchAssumption DEF TypesButSlots, SlotsOK
  <2>4. FetchTypeOK'
    BY <2>1, <2>3 DEF FetchTypeOK, TypesButSlots, FetchStages
  <2>. QED BY <2>1, <2>2, <2>4 DEF FetchIInv
<1>2. CASE FetchTick
  <2>1. quiet' \in [Hosts -> 0..Interval]
    BY <1>2, FetchAssumption DEF FetchTick, FetchIInv, FetchTypeOK
  <2>. QED BY <1>2, <2>1 DEF FetchTick, FetchIInv, FetchTypeOK, SlotsOK, LocksOK, Holding
<1>3. CASE UNCHANGED fetchVars
  BY <1>3 DEF fetchVars, FetchIInv, FetchTypeOK, SlotsOK, LocksOK, Holding
<1>. QED BY <1>1, <1>2, <1>3 DEF FetchNext

THEOREM FetchInvariance == FetchSpec => []FetchIInv
  BY FetchInitOK, FetchNextOK, PTL DEF FetchSpec

----------------------------------------------------------------------------
\* Variables keep their types: no fetch is retried or redirected too often, and the
\* semaphore never has more permits than it was made with.
THEOREM FetchesKeepTheirTypes == FetchSpec => []FetchTypeOK
<1>1. FetchIInv => FetchTypeOK
  BY DEF FetchIInv
<1>. QED BY <1>1, FetchInvariance, PTL

\* Errors, tripped circuits and cancellations leak neither a permit nor a host's lock.
THEOREM NothingLeaks == FetchSpec => []PermitsAccounted
<1>1. FetchIInv => PermitsAccounted
  BY PermitsAreAccounted DEF FetchIInv
<1>. QED BY <1>1, FetchInvariance, PTL

\* Whatever waits while the circuit opens is not sent.
THEOREM CircuitStopsWaiters == FetchSpec => NoSendAfterTrip
<1>1. FetchIInv /\ [FetchNext]_fetchVars => [NoSendAfterTripStep]_fetchVars
  <2> SUFFICES ASSUME FetchIInv, FetchNext, NEW g \in Fetches, stage[g] # "sent", stage'[g] = "sent"
               PROVE  target[g] \notin blockedHosts /\ SourceOf[g] \notin blockedSources
    BY DEF NoSendAfterTripStep
  <2>1. stage \in [Fetches -> FetchStages]
    BY DEF FetchIInv, FetchTypeOK, FetchStages
  <2>2. PICK f \in Fetches : StartFetch(f) \/ FetchStep(f) \/ CancelFetch(f)
    BY DEF FetchNext, FetchTick
  <2>3. g = f
    <3>1. PICK s \in FetchStages : stage' = [stage EXCEPT ![f] = s]
      BY <2>2, StepsMove DEF Moves
    <3>. QED BY <2>1, <3>1
  <2>4. Send(g)
    <3>1. ~(StartFetch(f) \/ ValidateUrl(f) \/ TakeSlot(f) \/ TakeTurn(f) \/ EndBackoff(f))
      BY <2>1, <2>3
      DEF StartFetch, ValidateUrl, TakeSlot, TakeTurn, EndBackoff, BlockedCode
    <3>2. ~Answer(f) /\ ~CancelFetch(f)
      BY <2>1, <2>3 DEF Answer, Answered, AnswerFinal, AnswerForbidden, AnswerRetry,
                        AnswerExhausted, AnswerRedirect, CancelFetch
    <3>. QED BY <2>2, <2>3, <3>1, <3>2 DEF FetchStep
  <2>. QED BY <2>1, <2>4 DEF Send, Blocked, BlockedCode
<1>. QED BY <1>1, FetchInvariance, PTL DEF FetchSpec, NoSendAfterTrip

----------------------------------------------------------------------------
(***************************************************************************)
(* FirecrawlPacing.                                                        *)
(* With one permit, requests to Firecrawl start an interval apart, though  *)
(* the time is read before the sleep: whoever sleeps is alone, and the     *)
(* ticks it still sleeps and those already past make up the interval.      *)
(***************************************************************************)
ScrapeStages == {"idle", "waiting"} \union HoldsPermit \union Ended

\* A scrape that is about to send has attempts left.
AttemptsOK ==
  \A c \in Scrapes :
    /\ scrape[c] \in {"idle", "waiting"} => posts[c] = 0
    /\ scrape[c] \in {"spacing", "retrying"} => posts[c] < MaxPosts

AloneOK ==
  Permits = 1 =>
    \A c, d \in Scrapes : scrape[c] \in HoldsPermit /\ scrape[d] \in HoldsPermit => c = d

SpacingOK ==
  Permits = 1 => \A c \in Scrapes : scrape[c] = "spacing" => wait[c] + sinceStart >= MinInterval

FirecrawlIInv == FirecrawlTypeOK /\ AttemptsOK /\ AloneOK /\ SpacingOK

\* Only a scrape with attempts left asks for a slot, and with one permit nobody else holds it.
MayAsk(c) ==
  /\ scrape[c] \in {"waiting", "retrying"} /\ posts[c] < MaxPosts
  /\ Permits = 1 => \A d \in Scrapes \ {c} : scrape[d] \notin HoldsPermit

LEMMA NobodyHolds ==
  ASSUME Permits = 1, Cardinality({d \in Scrapes : scrape[d] \in HoldsPermit}) < Permits
  PROVE  \A d \in Scrapes : scrape[d] \notin HoldsPermit
<1> DEFINE holders == {d \in Scrapes : scrape[d] \in HoldsPermit}
<1>1. holders \subseteq Scrapes
  OBVIOUS
<1>2. IsFiniteSet(holders)
  BY <1>1, FirecrawlAssumption, FS_Subset
<1>3. Cardinality(holders) \in Nat
  BY <1>2, FS_CardinalityType
<1>4. Cardinality(holders) = 0
  <2> HIDE DEF holders
  <2>1. Cardinality(holders) < 1
    BY DEF holders
  <2>. QED BY <1>3, <2>1
<1>5. holders = {}
  BY <1>2, <1>4, FS_EmptySet
<1>. QED BY <1>5

LEMMA AskersMay ==
  ASSUME FirecrawlIInv, NEW c \in Scrapes, TakePermit(c) \/ EndRetryDelay(c)
  PROVE  MayAsk(c) /\ AwaitSlot(c)
<1>1. CASE TakePermit(c)
  <2>1. Permits = 1 => \A d \in Scrapes : scrape[d] \notin HoldsPermit
    BY <1>1, NobodyHolds DEF TakePermit
  <2>2. scrape[c] = "waiting" /\ posts[c] < MaxPosts /\ AwaitSlot(c)
    BY <1>1, FirecrawlAssumption DEF TakePermit, FirecrawlIInv, AttemptsOK
  <2>. QED BY <2>1, <2>2 DEF MayAsk
<1>2. CASE EndRetryDelay(c)
  <2>1. scrape[c] = "retrying" /\ posts[c] < MaxPosts /\ AwaitSlot(c)
    BY <1>2 DEF EndRetryDelay, FirecrawlIInv, AttemptsOK
  <2>2. Permits = 1 => \A d \in Scrapes \ {c} : scrape[d] \notin HoldsPermit
    BY <2>1 DEF FirecrawlIInv, AloneOK, HoldsPermit
  <2>. QED BY <2>1, <2>2 DEF MayAsk
<1>. QED BY <1>1, <1>2

----------------------------------------------------------------------------
\* A request starts: the sender was alone, so nobody else sleeps for a slot.
LEMMA PostOK ==
  ASSUME FirecrawlIInv, NEW c \in Scrapes, Post(c), posts[c] < MaxPosts,
         Permits = 1 => \A d \in Scrapes \ {c} : scrape[d] \notin HoldsPermit
  PROVE  FirecrawlIInv'
<1>1. /\ scrape \in [Scrapes -> ScrapeStages] /\ posts \in [Scrapes -> 0..MaxPosts]
      /\ wait \in [Scrapes -> 0..MinInterval] /\ sinceStart \in 0..MinInterval
      /\ MaxPosts \in Nat /\ MinInterval \in Nat
  BY FirecrawlAssumption DEF FirecrawlIInv, FirecrawlTypeOK, ScrapeStages
<1>2. /\ scrape' = [scrape EXCEPT ![c] = "posted"] /\ posts' = [posts EXCEPT ![c] = posts[c] + 1]
      /\ wait' = [wait EXCEPT ![c] = 0] /\ sinceStart' = 0
  BY DEF Post
<1>3. FirecrawlTypeOK'
  <2>1. scrape' \in [Scrapes -> ScrapeStages]
    BY <1>1, <1>2 DEF ScrapeStages, HoldsPermit
  <2>2. posts' \in [Scrapes -> 0..MaxPosts]
    <3>1. posts[c] + 1 \in 0..MaxPosts
      BY <1>1
    <3>. QED BY <1>1, <1>2, <3>1
  <2>3. wait' \in [Scrapes -> 0..MinInterval] /\ sinceStart' \in 0..MinInterval
    BY <1>1, <1>2
  <2>. QED BY <2>1, <2>2, <2>3 DEF FirecrawlTypeOK, ScrapeStages
<1>4. AttemptsOK'
  BY <1>1, <1>2 DEF FirecrawlIInv, AttemptsOK
<1>5. AloneOK' /\ SpacingOK'
  BY <1>1, <1>2 DEF FirecrawlIInv, AloneOK, SpacingOK, HoldsPermit
<1>. QED BY <1>3, <1>4, <1>5 DEF FirecrawlIInv

LEMMA AwaitSlotOK ==
  ASSUME FirecrawlIInv, NEW c \in Scrapes, MayAsk(c), AwaitSlot(c)
  PROVE  FirecrawlIInv'
<1>1. CASE sinceStart >= MinInterval
  <2>1. Post(c)
    BY <1>1, FirecrawlAssumption DEF AwaitSlot, FirecrawlIInv, FirecrawlTypeOK
  <2>. QED BY <2>1, PostOK DEF MayAsk
<1>2. CASE sinceStart < MinInterval
  <2>1. /\ scrape \in [Scrapes -> ScrapeStages] /\ posts \in [Scrapes -> 0..MaxPosts]
        /\ wait \in [Scrapes -> 0..MinInterval] /\ sinceStart \in 0..MinInterval
        /\ MinInterval \in Nat
    BY FirecrawlAssumption DEF FirecrawlIInv, FirecrawlTypeOK, ScrapeStages
  <2>2. /\ scrape' = [scrape EXCEPT ![c] = "spacing"]
        /\ wait' = [wait EXCEPT ![c] = MinInterval - sinceStart]
        /\ posts' = posts /\ sinceStart' = sinceStart
    BY <1>2 DEF AwaitSlot
  <2>3. MinInterval - sinceStart \in 0..MinInterval
    BY <2>1
  <2>4. FirecrawlTypeOK'
    <3>1. scrape' \in [Scrapes -> ScrapeStages]
      BY <2>1, <2>2 DEF ScrapeStages, HoldsPermit
    <3>2. wait' \in [Scrapes -> 0..MinInterval]
      BY <2>1, <2>2, <2>3
    <3>. QED BY <2>1, <2>2, <3>1, <3>2 DEF FirecrawlTypeOK, ScrapeStages
  <2>5. AttemptsOK'
    BY <2>1, <2>2 DEF FirecrawlIInv, AttemptsOK, MayAsk
  <2>6. AloneOK'
    BY <2>1, <2>2 DEF FirecrawlIInv, AloneOK, MayAsk, HoldsPermit
  <2>7. SpacingOK'
    <3>1. wait'[c] + sinceStart' >= MinInterval
      BY <2>1, <2>2
    <3>. QED BY <2>1, <2>2, <3>1 DEF FirecrawlIInv, SpacingOK
  <2>. QED BY <2>4, <2>5, <2>6, <2>7 DEF FirecrawlIInv
<1>. QED BY <1>1, <1>2, FirecrawlAssumption DEF FirecrawlIInv, FirecrawlTypeOK

LEMMA MayPostAfterSpacing ==
  ASSUME FirecrawlIInv, NEW c \in Scrapes, EndSpacing(c)
  PROVE  /\ Post(c) /\ posts[c] < MaxPosts
         /\ Permits = 1 => /\ sinceStart >= MinInterval
                           /\ \A d \in Scrapes \ {c} : scrape[d] \notin HoldsPermit
<1>1. scrape[c] = "spacing" /\ wait[c] = 0 /\ Post(c) /\ posts[c] < MaxPosts
  BY DEF EndSpacing, FirecrawlIInv, AttemptsOK
<1>2. Permits = 1 => sinceStart >= MinInterval
  BY <1>1, FirecrawlAssumption DEF FirecrawlIInv, SpacingOK, FirecrawlTypeOK
<1>3. Permits = 1 => \A d \in Scrapes \ {c} : scrape[d] \notin HoldsPermit
  BY <1>1 DEF FirecrawlIInv, AloneOK, HoldsPermit
<1>. QED BY <1>1, <1>2, <1>3

----------------------------------------------------------------------------
LEMMA FirecrawlInitOK == FirecrawlInit => FirecrawlIInv
<1> SUFFICES ASSUME FirecrawlInit PROVE FirecrawlIInv
  OBVIOUS
<1>1. FirecrawlTypeOK
  BY FirecrawlAssumption DEF FirecrawlInit, FirecrawlTypeOK
<1>2. AttemptsOK /\ AloneOK /\ SpacingOK
  BY DEF FirecrawlInit, AttemptsOK, AloneOK, SpacingOK, HoldsPermit
<1>. QED BY <1>1, <1>2 DEF FirecrawlIInv

\* A scrape starts or ends, or waits for its retry: no new holder, and none that sleeps for
\* its slot.
LEMMA OtherStepsOK ==
  ASSUME FirecrawlIInv, NEW c \in Scrapes, StartScrape(c) \/ ScrapeAnswered(c)
  PROVE  FirecrawlIInv'
<1>1. scrape \in [Scrapes -> ScrapeStages] /\ posts' = posts /\ wait' = wait /\ sinceStart' = sinceStart
  BY DEF FirecrawlIInv, FirecrawlTypeOK, ScrapeStages, StartScrape, ScrapeAnswered
<1>2. PICK s \in {"waiting", "retrying"} \union Ended :
        /\ scrape' = [scrape EXCEPT ![c] = s]
        /\ s = "waiting" => posts[c] = 0
        /\ s = "retrying" => scrape[c] = "posted" /\ posts[c] < MaxPosts
  BY DEF StartScrape, ScrapeAnswered, FirecrawlIInv, AttemptsOK, Ended
<1>3. FirecrawlTypeOK'
  BY <1>1, <1>2 DEF FirecrawlIInv, FirecrawlTypeOK, ScrapeStages, HoldsPermit
<1>4. AttemptsOK'
  BY <1>1, <1>2 DEF FirecrawlIInv, AttemptsOK, Ended
<1>5. AloneOK'
  BY <1>1, <1>2 DEF FirecrawlIInv, AloneOK, HoldsPermit, Ended
<1>6. SpacingOK'
  BY <1>1, <1>2 DEF FirecrawlIInv, SpacingOK, Ended
<1>. QED BY <1>3, <1>4, <1>5, <1>6 DEF FirecrawlIInv

LEMMA FirecrawlTickOK == ASSUME FirecrawlIInv, FirecrawlTick PROVE FirecrawlIInv'
<1>1. /\ wait \in [Scrapes -> 0..MinInterval] /\ sinceStart \in 0..MinInterval
      /\ MinInterval \in Nat
  BY FirecrawlAssumption DEF FirecrawlIInv, FirecrawlTypeOK
<1>2. /\ sinceStart < MinInterval /\ sinceStart' = sinceStart + 1
      /\ wait' = [c \in Scrapes |-> IF wait[c] > 0 THEN wait[c] - 1 ELSE 0]
      /\ scrape' = scrape /\ posts' = posts
  BY DEF FirecrawlTick
<1>3. \A c \in Scrapes : wait'[c] \in 0..MinInterval /\ wait'[c] >= wait[c] - 1
  BY <1>1, <1>2
<1>4. FirecrawlTypeOK'
  <2>1. wait' \in [Scrapes -> 0..MinInterval] /\ sinceStart' \in 0..MinInterval
    BY <1>1, <1>2
  <2>. QED BY <1>2, <2>1 DEF FirecrawlIInv, FirecrawlTypeOK
<1>5. AttemptsOK' /\ AloneOK'
  BY <1>2 DEF FirecrawlIInv, AttemptsOK, AloneOK
<1>6. SpacingOK'
  <2> SUFFICES ASSUME Permits = 1, NEW c \in Scrapes, scrape[c] = "spacing"
               PROVE  wait'[c] + sinceStart' >= MinInterval
    BY <1>2 DEF SpacingOK
  <2>1. wait[c] + sinceStart >= MinInterval
    BY DEF FirecrawlIInv, SpacingOK
  <2>2. wait[c] \in Int /\ wait'[c] \in Int /\ wait'[c] >= wait[c] - 1
    BY <1>1, <1>3
  <2>. QED BY <1>1, <1>2, <2>1, <2>2
<1>. QED BY <1>4, <1>5, <1>6 DEF FirecrawlIInv

LEMMA FirecrawlNextOK == FirecrawlIInv /\ [FirecrawlNext]_firecrawlVars => FirecrawlIInv'
<1> SUFFICES ASSUME FirecrawlIInv, [FirecrawlNext]_firecrawlVars PROVE FirecrawlIInv'
  OBVIOUS
<1>1. ASSUME NEW c \in Scrapes, TakePermit(c) \/ EndRetryDelay(c) PROVE FirecrawlIInv'
  BY <1>1, AskersMay, AwaitSlotOK
<1>2. ASSUME NEW c \in Scrapes, EndSpacing(c) PROVE FirecrawlIInv'
  BY <1>2, MayPostAfterSpacing, PostOK
<1>3. ASSUME NEW c \in Scrapes, StartScrape(c) \/ ScrapeAnswered(c) PROVE FirecrawlIInv'
  BY <1>3, OtherStepsOK
<1>4. CASE FirecrawlTick
  BY <1>4, FirecrawlTickOK
<1>5. CASE UNCHANGED firecrawlVars
  BY <1>5 DEF firecrawlVars, FirecrawlIInv, FirecrawlTypeOK, AttemptsOK, AloneOK, SpacingOK
<1>. QED BY <1>1, <1>2, <1>3, <1>4, <1>5 DEF FirecrawlNext

\* The inductive invariant: types, attempts left, and with one permit a single holder whose
\* sleep covers the interval.
THEOREM FirecrawlInvariance == FirecrawlSpec => []FirecrawlIInv
  BY FirecrawlInitOK, FirecrawlNextOK, PTL DEF FirecrawlSpec

\* No scrape sends more requests than firecrawl_max_attempts, and no sleep is longer than
\* the interval.
THEOREM ScrapesKeepTheirTypes == FirecrawlSpec => []FirecrawlTypeOK
<1>1. FirecrawlIInv => FirecrawlTypeOK
  BY DEF FirecrawlIInv
<1>. QED BY <1>1, FirecrawlInvariance, PTL

\* With one permit, no two requests start closer than the interval.
THEOREM StartsAreSpaced == FirecrawlSpec => SpacedStarts
<1> DEFINE Spaced ==
      Permits = 1 => ((\E c \in Scrapes : posts'[c] > posts[c]) => sinceStart >= MinInterval)
<1>1. FirecrawlIInv /\ [FirecrawlNext]_firecrawlVars => [Spaced]_firecrawlVars
  <2> SUFFICES ASSUME FirecrawlIInv, FirecrawlNext, Permits = 1,
                      NEW c \in Scrapes, posts'[c] > posts[c]
               PROVE  sinceStart >= MinInterval
    OBVIOUS
  <2>1. /\ posts \in [Scrapes -> 0..MaxPosts] /\ sinceStart \in 0..MinInterval
        /\ MaxPosts \in Nat /\ MinInterval \in Nat
    BY FirecrawlAssumption DEF FirecrawlIInv, FirecrawlTypeOK
  <2>2. posts' # posts
    BY <2>1
  <2>3. PICK d \in Scrapes : TakePermit(d) \/ EndRetryDelay(d) \/ EndSpacing(d)
    BY <2>2 DEF FirecrawlNext, StartScrape, ScrapeAnswered, FirecrawlTick
  <2>4. CASE TakePermit(d) \/ EndRetryDelay(d)
    <3>1. AwaitSlot(d)
      BY <2>4, AskersMay
    <3>. QED BY <2>1, <2>2, <3>1 DEF AwaitSlot
  <2>5. CASE EndSpacing(d)
    BY <2>5, MayPostAfterSpacing
  <2>. QED BY <2>3, <2>4, <2>5
<1>. QED BY <1>1, FirecrawlInvariance, PTL DEF FirecrawlSpec, SpacedStarts

----------------------------------------------------------------------------
(***************************************************************************)
(* NoticeIntake.                                                           *)
(* A mail is submitted once.                                               *)
(***************************************************************************)
\* The mails a poll has fetched and not submitted, and the mails that carry a notice.
InFlight == ToSet(fetched) \cup ToSet(accepted)
Carriers(n, mails) == {m \in mails : Letter[m].notice = n /\ AcceptedMail(m)}

\* A poll holds each mail once, among the ones it has fetched or the ones it has accepted,
\* and between polls nothing is held.
FlightOK ==
  /\ IsInjective(fetched) /\ IsInjective(accepted)
  /\ ToSet(fetched) \cap ToSet(accepted) = {}
  /\ InFlight \subseteq seen
  /\ \A m \in ToSet(accepted) : AcceptedMail(m)
  /\ ~polling => fetched = <<>> /\ accepted = <<>> /\ \A n \in Notices : <<n, "email">> \notin unaudited

\* What a notice's audits, with the one to come, are paid with: a mail that carries it, is
\* flagged \Seen and no longer held.  The server never shows it unseen again.
Pending(n) == IF <<n, "email">> \in unaudited THEN 1 ELSE 0
Counted(n) == audits[<<n, "email">>] + Pending(n) <= Cardinality(Carriers(n, seen \ InFlight))

NoticeShape ==
  /\ NoticeTypeOK
  /\ IsFiniteSet(arrived)
  /\ audits \in [Notices \X Transports -> Nat]

NoticeIInv == NoticeShape /\ FlightOK /\ \A n \in Notices : Counted(n)

----------------------------------------------------------------------------
LEMMA CarriersOK ==
  ASSUME NEW n, NEW big, IsFiniteSet(big), NEW small \in SUBSET big
  PROVE  /\ IsFiniteSet(Carriers(n, big)) /\ IsFiniteSet(Carriers(n, small))
         /\ Cardinality(Carriers(n, big)) \in Nat /\ Cardinality(Carriers(n, small)) \in Nat
         /\ Cardinality(Carriers(n, small)) <= Cardinality(Carriers(n, big))
<1>1. Carriers(n, big) \in SUBSET big /\ Carriers(n, small) \in SUBSET Carriers(n, big)
  BY DEF Carriers
<1>2. IsFiniteSet(Carriers(n, big))
  BY <1>1, FS_Subset
<1>. QED BY <1>1, <1>2, FS_Subset, FS_CardinalityType

\* The count holds while no audit is due or made, and no mail is taken up again.
LEMMA CountKept ==
  ASSUME NoticeIInv, NEW n \in Notices, NEW held, IsFiniteSet(held), seen \ InFlight \subseteq held,
         NEW a \in Nat, NEW p \in Nat, a + p <= audits[<<n, "email">>] + Pending(n)
  PROVE  a + p <= Cardinality(Carriers(n, held))
<1>1. Counted(n) /\ audits[<<n, "email">>] \in Nat /\ Pending(n) \in Nat
  BY DEF NoticeIInv, NoticeShape, Transports, Pending
<1>2. Cardinality(Carriers(n, seen \ InFlight)) <= Cardinality(Carriers(n, held))
      /\ Cardinality(Carriers(n, seen \ InFlight)) \in Nat /\ Cardinality(Carriers(n, held)) \in Nat
  BY CarriersOK
<1>. QED BY <1>1, <1>2 DEF Counted

LEMMA SeenIsFinite ==
  ASSUME NoticeShape PROVE IsFiniteSet(seen) /\ \A T \in SUBSET seen : IsFiniteSet(T)
<1>1. IsFiniteSet(seen)
  BY FS_Subset DEF NoticeShape, NoticeTypeOK
<1>. QED BY <1>1, FS_Subset

\* The searched mails in the order of their UIDs, each once.
LEMMA InOrderOK ==
  ASSUME NEW mails, mails \subseteq Mails, IsFiniteSet(mails)
  PROVE  InOrder(mails) \in Seq(Mails) /\ IsInjective(InOrder(mails)) /\ ToSet(InOrder(mails)) \subseteq mails
<1> DEFINE R == {p \in Nat \X Nat : p[1] < p[2]}
           n == Cardinality(mails)
<1>1. \A a, b \in Nat : <<a, b>> \in R <=> a < b
  OBVIOUS
<1> HIDE DEF R
<1>2. mails \subseteq Nat /\ n \in Nat
  BY NoticesAssumption, FS_CardinalityType
<1>3. Orders(R, mails)
  BY <1>1, <1>2 DEF Orders
<1>4. PICK t : InOrderOf(t, mails, R)
  BY <1>3, OrderExists
<1>5. t \in [1..n -> mails] /\ \A i, j \in DOMAIN t : i < j => t[i] < t[j]
  <2>1. t \in [1..n -> mails] /\ \A i, j \in 1..n : i < j => <<t[i], t[j]>> \in R
    BY <1>4 DEF InOrderOf
  <2>. QED BY <1>1, <1>2, <2>1
<1> DEFINE s == InOrder(mails)
<1>6. s \in [1..n -> mails] /\ \A i, j \in DOMAIN s : i < j => s[i] < s[j]
  BY <1>5 DEF InOrder
<1> HIDE DEF n, s
<1>7. s \in Seq(Mails)
  <2>1. s \in [1..n -> Mails]
    BY <1>6
  <2>. QED BY <1>2, <2>1
<1>8. IsInjective(s)
  <2> SUFFICES ASSUME NEW i \in DOMAIN s, NEW j \in DOMAIN s, s[i] = s[j] PROVE i = j
    BY DEF IsInjective
  <2>1. i \in 1..n /\ j \in 1..n
    BY <1>6
  <2>2. i \in Nat /\ j \in Nat
    BY <1>2, <2>1
  <2>3. s[i] \in mails /\ s[j] \in mails
    BY <1>6, <2>1
  <2>4. s[i] \in Nat /\ s[j] \in Nat
    BY <1>2, <2>3
  <2>5. ~(i < j) /\ ~(j < i)
    BY <1>6, <2>2, <2>4
  <2>. QED BY <2>2, <2>5
<1>9. ToSet(s) \subseteq mails
  BY <1>6 DEF ToSet
<1>. QED BY <1>7, <1>8, <1>9 DEF s

LEMMA NoticeInitOK == NoticeInit => NoticeIInv
<1> SUFFICES ASSUME NoticeInit PROVE NoticeIInv
  OBVIOUS
<1>1. NoticeShape
  <2>1. audits \in [Notices \X Transports -> Nat]
    BY DEF NoticeInit
  <2>2. fetched \in Seq(Mails) /\ accepted \in Seq(Mails)
    BY DEF NoticeInit
  <2>3. polling \in BOOLEAN
    BY DEF NoticeInit
  <2>5. hand \in 0..MaxHand /\ restarts \in 0..MaxRestarts
    BY NoticesAssumption DEF NoticeInit
  <2>6. DOMAIN audits = Notices \X Transports
    BY DEF NoticeInit
  <2>7. NoticeTypeOK
    BY <2>6, <2>2, <2>3, <2>5 DEF NoticeInit, NoticeTypeOK
  <2>4. IsFiniteSet(arrived)
    BY FS_EmptySet DEF NoticeInit
  <2>. QED BY <2>1, <2>4, <2>7 DEF NoticeShape
<1>2. FlightOK
  BY DEF NoticeInit, FlightOK, InFlight, ToSet, IsInjective
<1>3. \A n \in Notices : Counted(n)
  <2> SUFFICES ASSUME NEW n \in Notices PROVE Counted(n)
    OBVIOUS
  <2>1. Carriers(n, seen \ InFlight) = {}
    BY DEF NoticeInit, Carriers
  <2>2. audits[<<n, "email">>] = 0 /\ Pending(n) = 0
    BY DEF NoticeInit, Pending, Transports
  <2>. QED BY <2>1, <2>2, FS_EmptySet DEF Counted
<1>. QED BY <1>1, <1>2, <1>3 DEF NoticeIInv

----------------------------------------------------------------------------
(***************************************************************************)
(* The poll.                                                               *)
(***************************************************************************)
\* A step leaves every count right that shows no seen mail again and takes up no audit.
LEMMA CountsKept ==
  ASSUME NoticeIInv, NoticeShape', seen \ InFlight \subseteq seen' \ InFlight',
         \A n \in Notices : audits'[<<n, "email">>] + Pending(n)' <= audits[<<n, "email">>] + Pending(n)
  PROVE  \A n \in Notices : Counted(n)'
<1> SUFFICES ASSUME NEW n \in Notices PROVE Counted(n)'
  OBVIOUS
<1>1. IsFiniteSet(seen' \ InFlight')
  <2>1. IsFiniteSet(seen')
    BY FS_Subset DEF NoticeShape, NoticeTypeOK
  <2>. QED BY <2>1, FS_Difference
<1>2. audits'[<<n, "email">>] \in Nat /\ Pending(n)' \in Nat
  BY DEF NoticeShape, Transports, Pending
<1>3. audits'[<<n, "email">>] + Pending(n)' <= Cardinality(Carriers(n, seen' \ InFlight'))
  BY <1>1, <1>2, CountKept
<1>. QED BY <1>3 DEF Counted, Carriers, AcceptedMail, ValidNotice

LEMMA NoAudit ==
  ASSUME NoticeIInv, NoticeShape', seen \ InFlight \subseteq seen' \ InFlight',
         audits' = audits, unaudited' \subseteq unaudited
  PROVE  \A n \in Notices : Counted(n)'
<1>1. ASSUME NEW n \in Notices
      PROVE  audits'[<<n, "email">>] + Pending(n)' <= audits[<<n, "email">>] + Pending(n)
  <2>1. audits'[<<n, "email">>] = audits[<<n, "email">>] /\ audits[<<n, "email">>] \in Nat
    BY DEF NoticeIInv, NoticeShape, Transports
  <2>2. Pending(n)' \in Nat /\ Pending(n) \in Nat /\ Pending(n)' <= Pending(n)
    BY DEF Pending
  <2>. QED BY <2>1, <2>2
<1>. QED BY <1>1, CountsKept

LEMMA MailArrivesOK == ASSUME NoticeIInv, NEW m \in Mails, MailArrives(m) PROVE NoticeIInv'
<1>1. /\ arrived' = arrived \cup {m} /\ seen' = seen /\ hashes' = hashes /\ polling' = polling
      /\ fetched' = fetched /\ accepted' = accepted /\ unaudited' = unaudited /\ stored' = stored
      /\ audits' = audits /\ hand' = hand /\ restarts' = restarts
  BY DEF MailArrives
<1>2. IsFiniteSet(arrived')
  BY <1>1, FS_AddElement DEF NoticeIInv, NoticeShape
<1>3. NoticeShape'
  BY <1>1, <1>2 DEF NoticeIInv, NoticeShape, NoticeTypeOK
<1>4. FlightOK' /\ InFlight' = InFlight
  BY <1>1 DEF NoticeIInv, FlightOK, InFlight
<1>. QED BY <1>1, <1>3, <1>4, NoAudit DEF NoticeIInv

LEMMA FetchUnseenOK == ASSUME NoticeIInv, FetchUnseen PROVE NoticeIInv'
<1>1. /\ arrived' = arrived /\ hashes' = hashes /\ accepted' = accepted /\ unaudited' = unaudited
      /\ stored' = stored /\ audits' = audits /\ hand' = hand /\ restarts' = restarts /\ ~polling
  BY DEF FetchUnseen
<1>2. PICK got \in SUBSET UnseenMails :
        /\ seen' = seen \cup got
        /\ \/ polling' = TRUE /\ fetched' = InOrder(got)
           \/ polling' = FALSE /\ fetched' = fetched
  BY DEF FetchUnseen
<1>3. NoticeShape /\ fetched = <<>> /\ accepted = <<>> /\ ToSet(accepted) = {} /\ ToSet(fetched) = {}
      /\ IsInjective(fetched) /\ IsInjective(accepted) /\ InFlight = {}
  BY <1>1 DEF NoticeIInv, FlightOK, ToSet, InFlight
<1>4. got \subseteq arrived /\ got \cap seen = {} /\ got \subseteq Mails /\ IsFiniteSet(got)
  <2>1. got \subseteq arrived /\ got \cap seen = {} /\ got \subseteq Mails
    BY <1>3 DEF UnseenMails, NoticeShape, NoticeTypeOK
  <2>. QED BY <1>3, <2>1, FS_Subset DEF NoticeShape
<1>5. fetched' \in Seq(Mails) /\ IsInjective(fetched') /\ ToSet(fetched') \subseteq got
  <2>1. fetched \in Seq(Mails)
    BY <1>3 DEF NoticeShape, NoticeTypeOK
  <2>. QED BY <1>2, <1>3, <1>4, <2>1, InOrderOK
<1>6. polling' \in BOOLEAN /\ (~polling' => fetched' = <<>>)
  BY <1>2, <1>3
<1>7. NoticeShape'
  BY <1>1, <1>2, <1>3, <1>4, <1>5, <1>6 DEF NoticeShape, NoticeTypeOK
<1>8. ToSet(accepted)' = {} /\ InFlight' = ToSet(fetched')
  <2>1. ToSet(accepted)' = ToSet(accepted)
    BY <1>1
  <2>. QED BY <1>3, <2>1 DEF InFlight
<1>9. FlightOK'
  <2>1. \A n \in Notices : <<n, "email">> \notin unaudited'
    BY <1>1 DEF NoticeIInv, FlightOK
  <2>2. InFlight' \subseteq seen'
    BY <1>2, <1>5, <1>8
  <2>3. IsInjective(accepted') /\ accepted' = <<>>
    BY <1>1, <1>3
  <2>. QED BY <1>5, <1>6, <1>8, <2>1, <2>2, <2>3 DEF FlightOK
<1>10. seen \ InFlight \subseteq seen' \ InFlight'
  BY <1>2, <1>4, <1>5, <1>8
<1>. QED BY <1>1, <1>7, <1>9, <1>10, NoAudit DEF NoticeIInv

LEMMA PassOverOK == ASSUME NoticeIInv, PassOver PROVE NoticeIInv'
<1>1. /\ arrived' = arrived /\ seen' = seen /\ hashes' = hashes /\ polling' = polling
      /\ accepted' = accepted /\ unaudited' = unaudited /\ stored' = stored /\ audits' = audits
      /\ hand' = hand /\ restarts' = restarts /\ fetched # <<>> /\ fetched' = Tail(fetched)
  BY DEF PassOver
<1>2. NoticeShape /\ FlightOK /\ fetched \in Seq(Mails)
  BY DEF NoticeIInv, NoticeShape, NoticeTypeOK
<1>3. /\ fetched' \in Seq(Mails) /\ IsInjective(fetched')
      /\ ToSet(fetched') = ToSet(fetched) \ {Head(fetched)}
  BY <1>1, <1>2, TailOfDistinct DEF FlightOK
<1>4. NoticeShape'
  BY <1>1, <1>2, <1>3 DEF NoticeShape, NoticeTypeOK
<1>5. InFlight' = ToSet(fetched') \cup ToSet(accepted) /\ InFlight' \subseteq InFlight
  BY <1>1, <1>3 DEF InFlight
<1>6. FlightOK'
  BY <1>1, <1>2, <1>3, <1>5 DEF FlightOK
<1>7. seen \ InFlight \subseteq seen' \ InFlight'
  BY <1>1, <1>5
<1>. QED BY <1>1, <1>4, <1>6, <1>7, NoAudit DEF NoticeIInv

\* The head of the fetched mails goes to the accepted ones: the same mails are held.
LEMMA AcceptOK == ASSUME NoticeIInv, Accept PROVE NoticeIInv'
<1> DEFINE m == Head(fetched)
<1>1. /\ arrived' = arrived /\ seen' = seen \cup {m} /\ hashes' = hashes \cup {m} /\ polling' = polling
      /\ accepted' = Append(accepted, m) /\ unaudited' = unaudited /\ stored' = stored /\ audits' = audits
      /\ hand' = hand /\ restarts' = restarts /\ fetched # <<>> /\ fetched' = Tail(fetched)
      /\ AcceptedMail(m)
  BY DEF Accept
<1>2. NoticeShape /\ FlightOK /\ fetched \in Seq(Mails) /\ accepted \in Seq(Mails)
  BY DEF NoticeIInv, NoticeShape, NoticeTypeOK
<1>3. /\ fetched' \in Seq(Mails) /\ IsInjective(fetched') /\ m \in ToSet(fetched) /\ m \in Mails
      /\ ToSet(fetched') = ToSet(fetched) \ {m}
  BY <1>1, <1>2, TailOfDistinct DEF FlightOK
<1>4. /\ accepted' \in Seq(Mails) /\ IsInjective(accepted')
      /\ ToSet(accepted') = ToSet(accepted) \cup {m}
  <2>1. m \in Mails \ ToSet(accepted) /\ IsInjective(accepted)
    BY <1>2, <1>3 DEF FlightOK
  <2> HIDE DEF m
  <2>. QED BY <1>1, <1>2, <2>1, AppendToDistinct
<1> HIDE DEF m
<1>5. seen' = seen /\ hashes' \subseteq seen'
  BY <1>1, <1>2, <1>3 DEF FlightOK, InFlight, NoticeShape, NoticeTypeOK
<1>6. NoticeShape'
  BY <1>1, <1>2, <1>3, <1>4, <1>5 DEF NoticeShape, NoticeTypeOK
<1>7. InFlight' = ToSet(fetched') \cup ToSet(accepted') /\ InFlight' = InFlight
  BY <1>3, <1>4 DEF InFlight
<1>8. FlightOK'
  <2>1. polling'
    BY <1>1, <1>2 DEF FlightOK
  <2>2. \A q \in ToSet(accepted') : AcceptedMail(q)
    BY <1>1, <1>2, <1>4 DEF FlightOK
  <2>3. ToSet(fetched') \cap ToSet(accepted') = {} /\ InFlight' \subseteq seen'
    BY <1>2, <1>3, <1>4, <1>5, <1>7 DEF FlightOK
  <2>. QED BY <1>3, <1>4, <2>1, <2>2, <2>3 DEF FlightOK, AcceptedMail, ValidNotice
<1>. QED BY <1>1, <1>5, <1>6, <1>7, <1>8, NoAudit DEF NoticeIInv

LEMMA EndPollOK == ASSUME NoticeIInv, EndPoll PROVE NoticeIInv'
<1>1. /\ arrived' = arrived /\ seen' = seen /\ hashes' = hashes /\ polling' = FALSE
      /\ accepted' = accepted /\ unaudited' = unaudited /\ stored' = stored /\ audits' = audits
      /\ hand' = hand /\ restarts' = restarts /\ fetched' = fetched
      /\ fetched = <<>> /\ accepted = <<>> /\ ~AuditPending
  BY DEF EndPoll
<1>2. NoticeShape'
  BY <1>1 DEF NoticeIInv, NoticeShape, NoticeTypeOK
<1>3. FlightOK' /\ InFlight' = InFlight
  BY <1>1 DEF NoticeIInv, FlightOK, InFlight, AuditPending
<1>. QED BY <1>1, <1>2, <1>3, NoAudit DEF NoticeIInv

\* A poll is dropped, alone or with the process: its mails stay \Seen.
LEMMA PollDropOK == ASSUME NoticeIInv, AbandonPoll \/ Restart PROVE NoticeIInv'
<1>1. /\ arrived' = arrived /\ seen' = seen /\ hashes' \subseteq hashes /\ polling' = FALSE
      /\ accepted' = <<>> /\ fetched' = <<>> /\ stored' = stored /\ audits' = audits
      /\ hand' = hand /\ restarts' \in 0..MaxRestarts
  BY NoticesAssumption DEF AbandonPoll, Restart, NoticeIInv, NoticeShape, NoticeTypeOK
<1>2. unaudited' \subseteq unaudited /\ \A n \in Notices : <<n, "email">> \notin unaudited'
  BY DEF AbandonPoll, Restart
<1>3. NoticeShape'
  <2>1. fetched' \in Seq(Mails) /\ accepted' \in Seq(Mails)
    BY <1>1
  <2>2. polling' \in BOOLEAN
    BY <1>1
  <2>. QED BY <1>1, <1>2, <2>1, <2>2 DEF NoticeIInv, NoticeShape, NoticeTypeOK
<1>4. InFlight' = {} /\ FlightOK'
  <2>1. ToSet(<<>>) = {} /\ IsInjective(<<>>)
    BY DEF ToSet, IsInjective
  <2>2. /\ ToSet(fetched)' = ToSet(<<>>) /\ ToSet(accepted)' = ToSet(<<>>)
        /\ IsInjective(fetched)' /\ IsInjective(accepted)'
    BY <1>1, <2>1
  <2>3. InFlight' = {}
    BY <2>1, <2>2 DEF InFlight
  <2>. QED BY <1>1, <1>2, <2>1, <2>2, <2>3 DEF FlightOK
<1>. QED BY <1>1, <1>2, <1>3, <1>4, NoAudit DEF NoticeIInv

----------------------------------------------------------------------------
(***************************************************************************)
(* Submissions.                                                            *)
(***************************************************************************)
\* The mail that is submitted pays for the audit that is now due.
LEMMA SubmitMailOK == ASSUME NoticeIInv, SubmitMail PROVE NoticeIInv'
<1> DEFINE m == Head(accepted)
           k == Letter[m].notice
<1>1. /\ arrived' = arrived /\ seen' = seen /\ hashes' = hashes /\ polling' = polling /\ fetched' = fetched
      /\ unaudited' = unaudited \cup {<<k, "email">>} /\ audits' = audits /\ stored' = stored \cup {k}
      /\ hand' = hand /\ restarts' = restarts /\ polling /\ accepted # <<>>
      /\ accepted' = Tail(accepted) /\ ~AuditPending
  BY DEF SubmitMail, Persist
<1>2. NoticeShape /\ FlightOK /\ accepted \in Seq(Mails)
  BY DEF NoticeIInv, NoticeShape, NoticeTypeOK
<1>3. /\ accepted' \in Seq(Mails) /\ IsInjective(accepted') /\ m \in ToSet(accepted) /\ m \in Mails
      /\ ToSet(accepted') = ToSet(accepted) \ {m}
  BY <1>1, <1>2, TailOfDistinct DEF FlightOK
<1> HIDE DEF m
<1>4. k \in Notices /\ AcceptedMail(m) /\ m \in seen /\ m \in InFlight /\ m \notin ToSet(fetched)
  BY <1>2, <1>3, NoticesAssumption DEF FlightOK, InFlight
<1>5. NoticeShape'
  <2>1. <<k, "email">> \in Notices \X Transports
    BY <1>4 DEF Transports
  <2>. QED BY <1>1, <1>2, <1>3, <1>4, <2>1 DEF NoticeShape, NoticeTypeOK
<1>6. InFlight' = ToSet(fetched) \cup ToSet(accepted') /\ InFlight' = InFlight \ {m}
  BY <1>1, <1>3, <1>4 DEF InFlight
<1>7. FlightOK'
  <2>1. IsInjective(fetched') /\ ToSet(fetched') \cap ToSet(accepted') = {} /\ InFlight' \subseteq seen'
    BY <1>1, <1>2, <1>3, <1>6 DEF FlightOK
  <2>2. \A q \in ToSet(accepted') : AcceptedMail(q)
    BY <1>2, <1>3 DEF FlightOK
  <2>. QED BY <1>1, <1>3, <2>1, <2>2 DEF FlightOK, AcceptedMail, ValidNotice
<1>8. ASSUME NEW n \in Notices PROVE Counted(n)'
  <2> DEFINE held == seen \ InFlight
             now == seen' \ InFlight'
  <2>1. now = held \cup {m} /\ m \notin held /\ IsFiniteSet(held) /\ IsFiniteSet(now)
    BY <1>1, <1>2, <1>4, <1>6, SeenIsFinite
  <2>2. audits'[<<n, "email">>] = audits[<<n, "email">>] /\ audits[<<n, "email">>] \in Nat
    BY <1>1, <1>2 DEF NoticeShape, Transports
  <2>3. Pending(n) = 0 /\ Pending(n)' = IF n = k THEN 1 ELSE 0
    BY <1>1, <1>8 DEF Pending, AuditPending
  <2>4. CASE n = k
    <3>1. Carriers(n, now) = Carriers(n, held) \cup {m} /\ m \notin Carriers(n, held)
      BY <1>4, <2>1, <2>4 DEF Carriers
    <3>2. IsFiniteSet(Carriers(n, held)) /\ Cardinality(Carriers(n, held)) \in Nat
      BY <2>1, CarriersOK
    <3>3. Cardinality(Carriers(n, now)) = Cardinality(Carriers(n, held)) + 1
      BY <3>1, <3>2, FS_AddElement
    <3>4. audits[<<n, "email">>] <= Cardinality(Carriers(n, held))
      <4>1. audits[<<n, "email">>] + Pending(n) <= Cardinality(Carriers(n, held))
        BY DEF NoticeIInv, Counted
      <4>. QED BY <2>2, <2>3, <3>2, <4>1
    <3>5. audits'[<<n, "email">>] + Pending(n)' <= Cardinality(Carriers(n, now))
      BY <2>2, <2>3, <2>4, <3>2, <3>3, <3>4
    <3>. QED BY <3>5 DEF Counted, Carriers, AcceptedMail, ValidNotice
  <2>5. CASE n # k
    <3>1. audits'[<<n, "email">>] + Pending(n)' <= Cardinality(Carriers(n, now))
      BY <2>1, <2>2, <2>3, <2>5, CountKept
    <3>. QED BY <3>1 DEF Counted, Carriers, AcceptedMail, ValidNotice
  <2>. QED BY <2>4, <2>5
<1>. QED BY <1>5, <1>7, <1>8 DEF NoticeIInv

LEMMA SubmitByHandOK == ASSUME NoticeIInv, NEW n \in Notices, SubmitByHand(n) PROVE NoticeIInv'
<1>1. /\ arrived' = arrived /\ seen' = seen /\ hashes' = hashes /\ polling' = polling /\ fetched' = fetched
      /\ unaudited' = unaudited \cup {<<n, "feishu">>} /\ audits' = audits /\ stored' = stored \cup {n}
      /\ hand' \in 0..MaxHand /\ restarts' = restarts /\ accepted' = accepted
  BY NoticesAssumption DEF SubmitByHand, Persist, NoticeIInv, NoticeShape, NoticeTypeOK
<1>2. NoticeShape'
  <2>1. <<n, "feishu">> \in Notices \X Transports
    BY DEF Transports
  <2>. QED BY <1>1, <2>1 DEF NoticeIInv, NoticeShape, NoticeTypeOK
<1>3. \A k \in Notices : <<k, "email">> \in unaudited' <=> <<k, "email">> \in unaudited
  BY <1>1
<1>4. FlightOK' /\ InFlight' = InFlight
  BY <1>1, <1>3 DEF NoticeIInv, FlightOK, InFlight
<1>5. \A k \in Notices : Counted(k)'
  BY <1>1, <1>3, <1>4 DEF NoticeIInv, Counted, Pending, Carriers, AcceptedMail, ValidNotice
<1>. QED BY <1>2, <1>4, <1>5 DEF NoticeIInv

LEMMA AuditOK == ASSUME NoticeIInv, NEW s \in unaudited, Audit(s) PROVE NoticeIInv'
<1>1. /\ arrived' = arrived /\ seen' = seen /\ hashes' = hashes /\ polling' = polling /\ fetched' = fetched
      /\ unaudited' = unaudited \ {s} /\ audits' = [audits EXCEPT ![s] = @ + 1] /\ stored' = stored
      /\ hand' = hand /\ restarts' = restarts /\ accepted' = accepted
  BY DEF Audit
<1>2. NoticeShape /\ s \in Notices \X Transports /\ audits[s] \in Nat
      /\ audits \in [Notices \X Transports -> Nat]
  BY DEF NoticeIInv, NoticeShape, NoticeTypeOK
<1>3. NoticeShape'
  <2>1. audits' \in [Notices \X Transports -> Nat]
    BY <1>1, <1>2
  <2>2. unaudited' \subseteq Notices \X Transports
    BY <1>1, <1>2 DEF NoticeShape, NoticeTypeOK
  <2>. QED BY <1>1, <1>2, <2>1, <2>2 DEF NoticeShape, NoticeTypeOK
<1>4. FlightOK' /\ InFlight' = InFlight
  BY <1>1 DEF NoticeIInv, FlightOK, InFlight
<1>5. ASSUME NEW n \in Notices
      PROVE  audits'[<<n, "email">>] + Pending(n)' <= audits[<<n, "email">>] + Pending(n)
  <2>1. <<n, "email">> \in Notices \X Transports /\ audits[<<n, "email">>] \in Nat
    BY <1>2 DEF Transports
  <2>2. CASE s = <<n, "email">>
    <3>1. Pending(n) = 1 /\ Pending(n)' = 0
      BY <1>1, <2>2 DEF Pending
    <3>2. audits'[<<n, "email">>] = audits[<<n, "email">>] + 1
      BY <1>1, <1>2, <2>2
    <3>. QED BY <2>1, <3>1, <3>2
  <2>3. CASE s # <<n, "email">>
    <3>1. audits'[<<n, "email">>] = audits[<<n, "email">>]
      BY <1>1, <1>2, <2>1, <2>3
    <3>2. Pending(n)' = Pending(n) /\ Pending(n) \in Nat
      BY <1>1, <2>3 DEF Pending
    <3>. QED BY <2>1, <3>1, <3>2
  <2>. QED BY <2>2, <2>3
<1>6. seen \ InFlight \subseteq seen' \ InFlight'
  BY <1>1, <1>4
<1>. QED BY <1>3, <1>4, <1>5, <1>6, CountsKept DEF NoticeIInv

LEMMA NoticeNextOK == NoticeIInv /\ [NoticeNext]_noticeVars => NoticeIInv'
<1> SUFFICES ASSUME NoticeIInv, [NoticeNext]_noticeVars PROVE NoticeIInv'
  OBVIOUS
<1>1. CASE UNCHANGED noticeVars
  <2>1. NoticeShape' /\ FlightOK' /\ InFlight' = InFlight
    BY <1>1 DEF noticeVars, NoticeIInv, NoticeShape, NoticeTypeOK, FlightOK, InFlight
  <2>. QED BY <1>1, <2>1, NoAudit DEF noticeVars, NoticeIInv
<1>. QED
  BY <1>1, MailArrivesOK, FetchUnseenOK, PassOverOK, AcceptOK, SubmitMailOK, EndPollOK, PollDropOK,
     SubmitByHandOK, AuditOK
  DEF NoticeNext

THEOREM NoticeInvariance == NoticeSpec => []NoticeIInv
  BY NoticeInitOK, NoticeNextOK, PTL DEF NoticeSpec

----------------------------------------------------------------------------
\* What is flagged has arrived, what is remembered is flagged, and what is stored is a notice
\* of the model, whatever fails between the statements of a poll.
THEOREM NoticesKeepTheirTypes == NoticeSpec => []NoticeTypeOK
<1>1. NoticeIInv => NoticeTypeOK
  BY DEF NoticeIInv, NoticeShape
<1>. QED BY <1>1, NoticeInvariance, PTL

\* A notice has no more audits by mail than accepted mails that carry it, for any number of
\* mails, submissions by hand, failures and restarts.
THEOREM MailIsSubmittedOnce == NoticeSpec => []MailSubmittedOnce
<1>1. NoticeIInv => MailSubmittedOnce
  <2> SUFFICES ASSUME NoticeIInv, NEW n \in Notices
               PROVE  audits[<<n, "email">>] <= Cardinality(Carriers(n, arrived))
    BY DEF MailSubmittedOnce, Carriers
  <2>1. seen \ InFlight \subseteq arrived /\ IsFiniteSet(arrived) /\ audits[<<n, "email">>] \in Nat
    BY DEF NoticeIInv, NoticeShape, NoticeTypeOK, Transports
  <2>2. audits[<<n, "email">>] + 0 <= audits[<<n, "email">>] + Pending(n)
    BY <2>1 DEF Pending
  <2>3. audits[<<n, "email">>] + 0 <= Cardinality(Carriers(n, arrived))
    BY <2>1, <2>2, CountKept
  <2>. QED BY <2>1, <2>3
<1>. QED BY <1>1, NoticeInvariance, PTL

----------------------------------------------------------------------------
(***************************************************************************)
(* MediaRetention.                                                         *)
(* Overlapping retention passes forget no file and delete no archive.      *)
(***************************************************************************)
PassType == [step : {"idle", "listed", "pruned"}, cutoff : 0..MaxMoment,
             listed : SUBSET Snapshots, ready : BOOLEAN]

\* What has not been saved has neither file nor body, and a temporary file belongs to a
\* source that has been media.
FilesOK ==
  \A v \in Snapshots :
    /\ savedOn[v] = NotYet => body[v] = "none" /\ file[v] = "none"
    /\ file[v] = "temporary" => v \in everMedia

\* A pass works with a cutoff that has passed, on versions that were media and older; once
\* it has pruned without a failure the listed files are gone.
PassOK(r) ==
  /\ pass[r].step # "idle" => pass[r].cutoff <= moment - Retention
  /\ \A v \in pass[r].listed :
       v \in everMedia /\ savedOn[v] # NotYet /\ savedOn[v] < pass[r].cutoff
  /\ pass[r].step = "pruned" /\ pass[r].ready => \A v \in pass[r].listed : file[v] = "none"

RetentionIInv == RetentionTypeOK /\ FilesOK /\ \A r \in Runners : PassOK(r)

LEMMA MomentsAreNumbers ==
  ASSUME RetentionTypeOK
  PROVE  /\ Retention \in Nat /\ MaxMoment \in Nat /\ TicksPerDay \in Nat /\ TicksPerDay > 0
         /\ NotYet \in Int /\ moment \in Nat /\ moment <= MaxMoment
         /\ \A v \in Snapshots : savedOn[v] \in Int /\ savedOn[v] >= NotYet /\ savedOn[v] <= MaxMoment
         /\ \A r \in Runners : pass[r].cutoff \in Nat
  BY RetentionAssumption DEF RetentionTypeOK, NotYet

\* The day of a legacy file starts less than a day before the file.
LEMMA DatedOK ==
  ASSUME RetentionTypeOK, NEW v \in Snapshots
  PROVE  /\ Dated(v) \in Int /\ Dated(v) <= savedOn[v] /\ savedOn[v] < Dated(v) + TicksPerDay
         /\ file[v] # "legacy" => Dated(v) = savedOn[v]
<1>1. /\ savedOn[v] \in Int /\ TicksPerDay \in Nat /\ TicksPerDay > 0
  BY MomentsAreNumbers
<1>2. savedOn[v] % TicksPerDay \in 0..(TicksPerDay - 1)
  BY <1>1
<1>. QED BY <1>1, <1>2 DEF Dated

\* A step that leaves the passes alone and only ages, stores or reclassifies.
LEMMA PassesKept ==
  ASSUME RetentionIInv, pass' = pass, moment' \in Nat, moment' >= moment, everMedia \subseteq everMedia',
         \A v \in Snapshots : savedOn[v] # NotYet => savedOn'[v] = savedOn[v] /\ file'[v] = file[v]
  PROVE  \A r \in Runners : PassOK(r)'
<1> SUFFICES ASSUME NEW r \in Runners PROVE PassOK(r)'
  OBVIOUS
<1>1. RetentionTypeOK /\ PassOK(r)
  BY DEF RetentionIInv
<1>2. pass[r].listed \subseteq Snapshots
  BY <1>1 DEF RetentionTypeOK
<1>3. pass[r].step # "idle" => pass[r].cutoff <= moment' - Retention
  BY <1>1, MomentsAreNumbers DEF PassOK
<1>. QED BY <1>1, <1>2, <1>3 DEF PassOK

LEMMA RetentionInitOK == RetentionInit => RetentionIInv
<1> SUFFICES ASSUME RetentionInit PROVE RetentionIInv
  OBVIOUS
<1>1. Idle \in PassType
  BY RetentionAssumption DEF Idle, PassType
<1>2. PICK at \in [Legacy -> 0..moment] :
        savedOn = [v \in Snapshots |-> IF v \in Legacy THEN at[v] ELSE NotYet]
  BY DEF RetentionInit
<1>3. moment \in 0..MaxMoment
  BY RetentionAssumption DEF RetentionInit
<1>4. savedOn \in [Snapshots -> NotYet..MaxMoment]
  <2> SUFFICES ASSUME NEW v \in Snapshots PROVE savedOn[v] \in NotYet..MaxMoment
    BY <1>2
  <2>1. CASE v \in Legacy
    BY <1>2, <1>3, <2>1, RetentionAssumption DEF NotYet
  <2>2. CASE v \notin Legacy
    BY <1>2, <2>2, RetentionAssumption DEF NotYet
  <2>. QED BY <2>1, <2>2
<1>5. RetentionTypeOK
  BY <1>1, <1>3, <1>4, RetentionAssumption DEF RetentionInit, RetentionTypeOK, PassType
<1>6. \A v \in Snapshots : savedOn[v] = NotYet => v \notin Legacy
  BY <1>2 DEF NotYet
<1>7. FilesOK
  BY <1>6 DEF RetentionInit, FilesOK
<1>8. \A r \in Runners : PassOK(r)
  BY DEF RetentionInit, PassOK, Idle
<1>. QED BY <1>5, <1>7, <1>8 DEF RetentionIInv

----------------------------------------------------------------------------
LEMMA SaveSnapshotOK ==
  ASSUME RetentionIInv, NEW r \in Runners, NEW v \in Snapshots, SaveSnapshot(r, v)
  PROVE  RetentionIInv'
<1>1. RetentionTypeOK /\ FilesOK
  BY DEF RetentionIInv
<1>2. RetentionTypeOK'
  BY <1>1, MomentsAreNumbers DEF RetentionTypeOK, SaveSnapshot, NotYet
<1>3. FilesOK'
  BY <1>1, MomentsAreNumbers DEF RetentionTypeOK, FilesOK, SaveSnapshot, NotYet
<1>4. \A s \in Runners : PassOK(s)'
  BY <1>1, MomentsAreNumbers, PassesKept DEF RetentionTypeOK, SaveSnapshot
<1>. QED BY <1>2, <1>3, <1>4 DEF RetentionIInv

LEMMA PersistVersionOK ==
  ASSUME RetentionIInv, NEW v \in Snapshots, PersistVersion(v)
  PROVE  RetentionIInv'
<1>1. RetentionTypeOK /\ FilesOK
  BY DEF RetentionIInv
<1>2. RetentionTypeOK'
  BY <1>1 DEF RetentionTypeOK, PersistVersion
<1>3. FilesOK'
  BY <1>1, MomentsAreNumbers DEF RetentionTypeOK, FilesOK, PersistVersion, NotYet
<1>4. \A s \in Runners : PassOK(s)'
  BY <1>1, MomentsAreNumbers, PassesKept DEF PersistVersion
<1>. QED BY <1>2, <1>3, <1>4 DEF RetentionIInv

LEMMA SyncSourcesOK ==
  ASSUME RetentionIInv, NEW r \in Runners, NEW ids \in MediaRegistries, SyncSources(r, ids)
  PROVE  RetentionIInv'
<1>1. RetentionTypeOK /\ FilesOK
  BY DEF RetentionIInv
<1>2. /\ everMedia' = everMedia \cup ids /\ ids \subseteq Snapshots
      /\ mediaRegistry' = [mediaRegistry EXCEPT ![r] = ids] /\ media' \subseteq media \cup ids
      /\ moment' = moment /\ file' = file /\ savedOn' = savedOn /\ body' = body
      /\ path' = path /\ pass' = pass
  BY RetentionAssumption DEF SyncSources
<1>3. mediaRegistry' \in [Runners -> SUBSET everMedia']
  BY <1>1, <1>2 DEF RetentionTypeOK
<1>4. RetentionTypeOK'
  BY <1>1, <1>2, <1>3 DEF RetentionTypeOK
<1>5. FilesOK'
  BY <1>1, <1>2 DEF FilesOK
<1>6. \A s \in Runners : PassOK(s)'
  BY <1>1, <1>2, MomentsAreNumbers, PassesKept
<1>. QED BY <1>4, <1>5, <1>6 DEF RetentionIInv

LEMMA RetentionTickOK == ASSUME RetentionIInv, RetentionTick PROVE RetentionIInv'
<1>1. RetentionTypeOK /\ FilesOK
  BY DEF RetentionIInv
<1>2. RetentionTypeOK'
  BY <1>1, MomentsAreNumbers DEF RetentionTypeOK, RetentionTick
<1>3. FilesOK'
  BY <1>1 DEF FilesOK, RetentionTick
<1>4. \A r \in Runners : PassOK(r)'
  BY <1>1, MomentsAreNumbers, PassesKept DEF RetentionTick
<1>. QED BY <1>2, <1>3, <1>4 DEF RetentionIInv

----------------------------------------------------------------------------
(***************************************************************************)
(* The steps of a pass.                                                    *)
(***************************************************************************)
\* Only the pass of one runner changes: the others stay as good as they were, since files
\* only go.
LEMMA OtherPasses ==
  ASSUME RetentionIInv, NEW r \in Runners, NEW p \in PassType, pass' = [pass EXCEPT ![r] = p],
         moment' = moment, everMedia' = everMedia, savedOn' = savedOn,
         \A v \in Snapshots : file'[v] \in {file[v], "none"}, PassOK(r)'
  PROVE  pass' \in [Runners -> PassType] /\ \A s \in Runners : PassOK(s)'
<1>1. RetentionTypeOK /\ pass \in [Runners -> PassType]
  BY DEF RetentionIInv, RetentionTypeOK, PassType
<1>2. ASSUME NEW s \in Runners, s # r PROVE PassOK(s)'
  <2>1. PassOK(s) /\ pass'[s] = pass[s] /\ pass[s].listed \subseteq Snapshots
    BY <1>1, <1>2 DEF RetentionIInv, PassType
  <2>. QED BY <2>1 DEF PassOK
<1>. QED BY <1>1, <1>2

LEMMA ListPathsOK == ASSUME RetentionIInv, NEW r \in Runners, ListPaths(r) PROVE RetentionIInv'
<1>1. RetentionTypeOK /\ FilesOK
  BY DEF RetentionIInv
<1> DEFINE cutoff == moment - Retention
<1>2. PICK ok \in BOOLEAN :
        pass' = [pass EXCEPT ![r] = [step |-> "listed", cutoff |-> cutoff, ready |-> ok,
                                     listed |-> IF ok THEN path \cap Expired(cutoff) ELSE {}]]
  BY DEF ListPaths
<1> DEFINE p == [step |-> "listed", cutoff |-> cutoff, ready |-> ok,
                 listed |-> IF ok THEN path \cap Expired(cutoff) ELSE {}]
<1>3. /\ moment' = moment /\ mediaRegistry' = mediaRegistry /\ media' = media
      /\ everMedia' = everMedia /\ file' = file /\ savedOn' = savedOn
      /\ body' = body /\ path' = path /\ moment >= Retention
  BY DEF ListPaths
<1>4. p \in PassType
  <2>1. cutoff \in 0..MaxMoment
    BY <1>1, <1>3, MomentsAreNumbers
  <2>2. p.listed \in SUBSET Snapshots
    BY <1>1 DEF RetentionTypeOK, Expired
  <2>. QED BY <2>1, <2>2 DEF PassType
<1>5. PassOK(r)'
  <2>1. pass'[r] = p
    BY <1>1, <1>2 DEF RetentionTypeOK
  <2>2. \A v \in p.listed : v \in everMedia /\ savedOn[v] # NotYet /\ savedOn[v] < cutoff
    BY <1>1 DEF RetentionTypeOK, FilesOK, Expired
  <2>. QED BY <2>1, <2>2, <1>1, <1>3, MomentsAreNumbers DEF PassOK
<1>6. pass' = [pass EXCEPT ![r] = p]
  BY <1>2
<1> HIDE DEF p
<1>7. pass' \in [Runners -> PassType] /\ \A s \in Runners : PassOK(s)'
  BY <1>3, <1>4, <1>5, <1>6, OtherPasses
<1>8. RetentionTypeOK'
  BY <1>1, <1>3, <1>7 DEF RetentionTypeOK, PassType
<1>9. FilesOK'
  BY <1>1, <1>3 DEF FilesOK
<1>. QED BY <1>7, <1>8, <1>9 DEF RetentionIInv

LEMMA PruneFilesOK == ASSUME RetentionIInv, NEW r \in Runners, PruneFiles(r) PROVE RetentionIInv'
<1>1. RetentionTypeOK /\ FilesOK /\ PassOK(r)
  BY DEF RetentionIInv
<1>2. PICK ready \in BOOLEAN, gone \in SUBSET Due(r) :
        /\ file' = [v \in Snapshots |-> IF v \in gone THEN "none" ELSE file[v]]
        /\ pass' = [pass EXCEPT ![r] = [step |-> "pruned", cutoff |-> pass[r].cutoff,
                                        listed |-> pass[r].listed, ready |-> ready]]
        /\ ready => gone = Due(r)
  <2>1. PICK gone \in SUBSET Due(r), done \in BOOLEAN :
          /\ done => gone = Due(r)
          /\ file' = [v \in Snapshots |-> IF v \in gone THEN "none" ELSE file[v]]
          /\ pass' = [pass EXCEPT ![r] = [step |-> "pruned", cutoff |-> pass[r].cutoff,
                                          listed |-> pass[r].listed,
                                          ready |-> pass[r].ready /\ done]]
    BY DEF PruneFiles
  <2>2. (pass[r].ready /\ done) \in BOOLEAN /\ ((pass[r].ready /\ done) => gone = Due(r))
    BY <2>1
  <2>. QED BY <2>1, <2>2
<1>3. /\ moment' = moment /\ mediaRegistry' = mediaRegistry /\ media' = media
      /\ everMedia' = everMedia /\ savedOn' = savedOn
      /\ body' = body /\ path' = path /\ pass[r].step = "listed"
  BY DEF PruneFiles
<1> DEFINE p == [step |-> "pruned", cutoff |-> pass[r].cutoff, listed |-> pass[r].listed,
                 ready |-> ready]
<1>4. p \in PassType /\ pass'[r] = p
  BY <1>1, <1>2 DEF RetentionTypeOK, PassType
<1>5. PassOK(r)'
  <2>1. ASSUME NEW v \in pass[r].listed, file[v] # "none" PROVE v \in Due(r)
    <3>1. v \in Snapshots /\ savedOn[v] < pass[r].cutoff
      BY <1>1 DEF RetentionTypeOK, PassOK
    <3>2. Dated(v) < pass[r].cutoff
      BY <1>1, <3>1, DatedOK, MomentsAreNumbers
    <3>. QED BY <2>1, <3>1, <3>2 DEF Due
  <2>3. pass[r].listed \subseteq Snapshots
    BY <1>1 DEF RetentionTypeOK
  <2>2. ready => \A v \in pass[r].listed : file'[v] = "none"
    BY <1>2, <2>1, <2>3
  <2>. QED BY <1>1, <1>3, <1>4, <2>2 DEF PassOK
<1>6. pass' = [pass EXCEPT ![r] = p] /\ \A v \in Snapshots : file'[v] \in {file[v], "none"}
  BY <1>2
<1> HIDE DEF p
<1>7. pass' \in [Runners -> PassType] /\ \A s \in Runners : PassOK(s)'
  BY <1>3, <1>4, <1>5, <1>6, OtherPasses
<1>8. RetentionTypeOK'
  BY <1>1, <1>2, <1>3, <1>7 DEF RetentionTypeOK, PassType
<1>9. FilesOK'
  BY <1>1, <1>2, <1>3 DEF FilesOK
<1>. QED BY <1>7, <1>8, <1>9 DEF RetentionIInv

LEMMA EndPassOK == ASSUME RetentionIInv, NEW r \in Runners, RedactBodies(r) \/ StopPass(r) PROVE RetentionIInv'
<1>1. RetentionTypeOK /\ FilesOK
  BY DEF RetentionIInv
<1>2. /\ moment' = moment /\ mediaRegistry' = mediaRegistry /\ media' = media
      /\ everMedia' = everMedia /\ file' = file /\ savedOn' = savedOn
      /\ pass' = [pass EXCEPT ![r] = Idle]
  BY DEF RedactBodies, StopPass
<1>3. Idle \in PassType
  BY RetentionAssumption DEF Idle, PassType
<1>4. PassOK(r)'
  BY <1>1, <1>2 DEF RetentionTypeOK, PassOK, Idle
<1>5. pass' \in [Runners -> PassType] /\ \A s \in Runners : PassOK(s)'
  BY <1>2, <1>3, <1>4, OtherPasses
<1>6. path' \subseteq path /\ body' \in [Snapshots -> {"none", "full", "expired"}]
      /\ \A v \in Snapshots : body[v] = "none" => body'[v] = "none"
  BY <1>1 DEF RetentionTypeOK, RedactBodies, StopPass, Expired
<1>7. RetentionTypeOK'
  BY <1>1, <1>2, <1>5, <1>6 DEF RetentionTypeOK, PassType
<1>8. FilesOK'
  BY <1>1, <1>2, <1>6 DEF FilesOK
<1>. QED BY <1>5, <1>7, <1>8 DEF RetentionIInv

LEMMA RetentionNextOK == RetentionIInv /\ [RetentionNext]_retentionVars => RetentionIInv'
<1>1. RetentionIInv /\ UNCHANGED retentionVars => RetentionIInv'
  BY DEF retentionVars, RetentionIInv, RetentionTypeOK, FilesOK, PassOK
<1>. QED
  BY <1>1, SaveSnapshotOK, PersistVersionOK, SyncSourcesOK, ListPathsOK, PruneFilesOK, EndPassOK,
     RetentionTickOK DEF RetentionNext

THEOREM RetentionInvariance == RetentionSpec => []RetentionIInv
  BY RetentionInitOK, RetentionNextOK, PTL DEF RetentionSpec

----------------------------------------------------------------------------
\* Whatever passes overlap and fail, the variables keep their types.
THEOREM RetentionKeepsItsTypes == RetentionSpec => []RetentionTypeOK
<1>1. RetentionIInv => RetentionTypeOK
  BY DEF RetentionIInv
<1>. QED BY <1>1, RetentionInvariance, PTL

\* redact_expired_media_bodies clears no listed path whose file is still there.
THEOREM NoFileIsForgotten == RetentionSpec => ForgottenPathHasNoFile
<1> DEFINE Step ==
      \A r \in Runners, v \in path \ path' :
        pass[r].step = "pruned" /\ pass'[r] = Idle => file[v] = "none" \/ v \notin pass[r].listed
<1>1. RetentionIInv /\ [RetentionNext]_retentionVars => [Step]_retentionVars
  <2> SUFFICES ASSUME RetentionIInv, RetentionNext, NEW r \in Runners, NEW v \in path \ path',
                      pass[r].step = "pruned", pass'[r] = Idle, v \in pass[r].listed
               PROVE  file[v] = "none"
    OBVIOUS
  <2>1. PICK s \in Runners : RedactBodies(s)
    BY DEF RetentionNext, SaveSnapshot, PersistVersion, SyncSources, ListPaths, PruneFiles, StopPass,
           RetentionTick
  <2>2. v \in ClearedPaths(s) /\ pass' = [pass EXCEPT ![s] = Idle]
    BY <2>1 DEF RedactBodies
  <2>3. s = r
    <3>1. pass[r] # Idle
      BY DEF Idle
    <3>. QED BY <2>2, <3>1
  <2>4. pass[r].ready
    BY <2>2, <2>3 DEF ClearedPaths
  <2>. QED BY <2>4 DEF RetentionIInv, PassOK
<1>. QED BY <1>1, RetentionInvariance, PTL DEF RetentionSpec, ForgottenPathHasNoFile

\* Only what has been media is deleted, and when its days are over; a legacy file, which is
\* dated by the start of its day, less than a day early.
THEOREM ArchivesAreKept == RetentionSpec => ArchiveIsKept
<1> DEFINE Step ==
      \A v \in Snapshots : file[v] # "none" /\ file'[v] = "none" =>
        /\ v \in everMedia
        /\ \/ savedOn[v] < moment - Retention
           \/ file[v] = "legacy" /\ savedOn[v] < moment - Retention + TicksPerDay
<1>1. RetentionIInv /\ [RetentionNext]_retentionVars => [Step]_retentionVars
  <2> SUFFICES ASSUME RetentionIInv, RetentionNext, NEW v \in Snapshots, file[v] # "none", file'[v] = "none"
               PROVE  /\ v \in everMedia
                      /\ \/ savedOn[v] < moment - Retention
                         \/ file[v] = "legacy" /\ savedOn[v] < moment - Retention + TicksPerDay
    OBVIOUS
  <2>1. RetentionTypeOK
    BY DEF RetentionIInv
  <2>2. PICK r \in Runners : PruneFiles(r)
    BY <2>1 DEF RetentionNext, SaveSnapshot, PersistVersion, SyncSources, ListPaths, RedactBodies,
                StopPass, RetentionTick, RetentionTypeOK
  <2>3. v \in Due(r) /\ pass[r].step = "listed"
    BY <2>2 DEF PruneFiles
  <2>4. Dated(v) < pass[r].cutoff /\ pass[r].cutoff <= moment - Retention
    BY <2>3 DEF Due, RetentionIInv, PassOK
  <2>5. v \in everMedia
    BY <2>1, <2>3 DEF Due, RetentionIInv, RetentionTypeOK, PassOK, FilesOK
  <2>6. Dated(v) < moment - Retention
    BY <2>1, <2>4, DatedOK, MomentsAreNumbers
  <2>7. \/ savedOn[v] < moment - Retention
        \/ file[v] = "legacy" /\ savedOn[v] < moment - Retention + TicksPerDay
    BY <2>1, <2>6, DatedOK, MomentsAreNumbers
  <2>. QED BY <2>5, <2>7
<1>. QED BY <1>1, RetentionInvariance, PTL DEF RetentionSpec, ArchiveIsKept
=============================================================================
