-------------------------- MODULE FirecrawlPacing --------------------------
(***************************************************************************)
(* The Firecrawl client of src/src/commerce_agent/integrations/firecrawl.py*)
(* with the collector that asks it before its own fetch                    *)
(* (ingestion/collectors/firecrawl.py).  The scrapes of a process share a  *)
(* semaphore and the time of the last request; a step of a scrape is what  *)
(* it does between two awaits.                                             *)
(***************************************************************************)
EXTENDS Integers, FiniteSets

CONSTANTS
  Scrapes,        \* calls of scrape
  Permits,        \* firecrawl_max_concurrency
  MinInterval,    \* firecrawl_min_request_interval_seconds, in ticks
  MaxPosts        \* firecrawl_max_attempts

ASSUME FirecrawlAssumption ==
  /\ IsFiniteSet(Scrapes)
  /\ Permits \in Nat \ {0} /\ MaxPosts \in Nat \ {0}
  /\ MinInterval \in Nat

VARIABLES
  scrape,     \* where each scrape is
  posts,      \* requests each has sent
  wait,       \* ticks each still sleeps
  sinceStart  \* ticks since the last request started, up to MinInterval

firecrawlVars == <<scrape, posts, wait, sinceStart>>

\* waiting: at the semaphore; spacing: sleeps for its slot; posted: awaits the answer;
\* retrying: sleeps before another request.
HoldsPermit == {"spacing", "posted", "retrying"}
Ended == {"document", "error"}

FirecrawlInit ==
  /\ scrape = [c \in Scrapes |-> "idle"]
  /\ posts = [c \in Scrapes |-> 0]
  /\ wait = [c \in Scrapes |-> 0]
  /\ sinceStart = MinInterval

----------------------------------------------------------------------------
StartScrape(c) ==
  /\ scrape[c] = "idle"
  /\ scrape' = [scrape EXCEPT ![c] = "waiting"]
  /\ UNCHANGED <<posts, wait, sinceStart>>

\* The request starts: its time is recorded.
Post(c) ==
  /\ scrape' = [scrape EXCEPT ![c] = "posted"]
  /\ posts' = [posts EXCEPT ![c] = @ + 1]
  /\ wait' = [wait EXCEPT ![c] = 0]
  /\ sinceStart' = 0

\* _wait_for_request_slot: the time left is computed from the last start, and slept.
AwaitSlot(c) ==
  IF sinceStart < MinInterval
  THEN /\ scrape' = [scrape EXCEPT ![c] = "spacing"]
       /\ wait' = [wait EXCEPT ![c] = MinInterval - sinceStart]
       /\ UNCHANGED <<posts, sinceStart>>
  ELSE Post(c)

\* Mutant: no semaphore.
TakeNoPermit(c) == scrape[c] = "waiting" /\ AwaitSlot(c)

TakePermit(c) ==
  /\ scrape[c] = "waiting"
  /\ Cardinality({d \in Scrapes : scrape[d] \in HoldsPermit}) < Permits
  /\ AwaitSlot(c)

\* The start is not computed again after the sleep.
EndSpacing(c) == scrape[c] = "spacing" /\ wait[c] = 0 /\ Post(c)

\* 408, 429 and the server errors are asked again while attempts are left, after the
\* answer's Retry-After or a backoff; a transport error is not.
ScrapeAnswered(c) ==
  /\ scrape[c] = "posted"
  /\ \/ \E end \in Ended : scrape' = [scrape EXCEPT ![c] = end]
     \/ posts[c] < MaxPosts /\ scrape' = [scrape EXCEPT ![c] = "retrying"]
  /\ UNCHANGED <<posts, wait, sinceStart>>

EndRetryDelay(c) == scrape[c] = "retrying" /\ AwaitSlot(c)

FirecrawlTick ==
  /\ sinceStart < MinInterval
  /\ sinceStart' = sinceStart + 1
  /\ wait' = [c \in Scrapes |-> IF wait[c] > 0 THEN wait[c] - 1 ELSE 0]
  /\ UNCHANGED <<scrape, posts>>

FirecrawlNext ==
  \/ \E c \in Scrapes : StartScrape(c) \/ TakePermit(c) \/ EndSpacing(c) \/ ScrapeAnswered(c)
                          \/ EndRetryDelay(c)
  \/ FirecrawlTick

FirecrawlSpec == FirecrawlInit /\ [][FirecrawlNext]_firecrawlVars

----------------------------------------------------------------------------
FirecrawlTypeOK ==
  /\ scrape \in [Scrapes -> {"idle", "waiting"} \cup HoldsPermit \cup Ended]
  /\ posts \in [Scrapes -> 0..MaxPosts]
  /\ wait \in [Scrapes -> 0..MinInterval]
  /\ sinceStart \in 0..MinInterval

\* With the default of one permit, no two requests start closer than the interval, a retry
\* and another scrape's first request included.  The time is read before a sleep and used
\* after it, so only the permit keeps this true.
SpacedStarts ==
  [][Permits = 1 => ((\E c \in Scrapes : posts'[c] > posts[c]) => sinceStart >= MinInterval)]_firecrawlVars
=============================================================================
