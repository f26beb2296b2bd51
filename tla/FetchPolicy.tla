---------------------------- MODULE FetchPolicy ----------------------------
(***************************************************************************)
(* The bounded HTTP client of src/src/commerce_agent/ingestion/http.py as  *)
(* the collectors of one run share it: a global semaphore, a lock and a    *)
(* pace per host, retries with backoff, redirects that may change the      *)
(* host, and the circuit that the run opens for a rate limited host or a   *)
(* forbidden source.  A step of a fetch is what it does between two        *)
(* awaits; its locks other than a host's are never held across one.        *)
(***************************************************************************)
EXTENDS Integers, FiniteSets

CONSTANTS
  Fetches,       \* the requests of the run's collectors
  Hosts,
  Sources,
  SourceOf,      \* the source that makes each fetch
  Slots,         \* global_concurrency
  Interval,      \* 1 / domain_rps, in ticks
  MaxRetries,
  MaxRedirects,
  NoFetch

ASSUME FetchAssumption ==
  /\ SourceOf \in [Fetches -> Sources]
  /\ Slots \in Nat \ {0}
  /\ Interval \in Nat /\ MaxRetries \in Nat /\ MaxRedirects \in Nat
  /\ IsFiniteSet(Fetches)
  /\ NoFetch \notin Fetches

VARIABLES
  stage,           \* where each fetch is
  target,          \* the host of its current URL
  retries, hops,   \* attempts failed on this hop, redirects followed
  slots,           \* free permits of the semaphore
  pacing,          \* the fetch that holds each host's limiter lock
  quiet,           \* ticks since the host's last start, up to Interval
  blockedHosts, blockedSources   \* RunDomainCircuit

fetchVars == <<stage, target, retries, hops, slots, pacing, quiet, blockedHosts, blockedSources>>

\* validating: before validate() and require_open; queued: at the semaphore; limited: at
\* the host's lock; paced: holds it until the interval is over; sent: awaits the answer;
\* backoff: sleeps before a retry.
Running == {"validating", "queued", "limited", "paced", "sent", "backoff"}
HoldsSlot == {"limited", "paced", "sent"}
Outcomes == {"ok", "refused", "rate_limited", "retry_exhausted", "compliance_review_required",
             "too_many_redirects", "cancelled"}

FetchInit ==
  /\ stage = [f \in Fetches |-> "idle"]
  /\ target \in [Fetches -> Hosts]
  /\ retries = [f \in Fetches |-> 0]
  /\ hops = [f \in Fetches |-> 0]
  /\ slots = Slots
  /\ pacing = [h \in Hosts |-> NoFetch]
  /\ quiet = [h \in Hosts |-> Interval]
  /\ blockedHosts = {}
  /\ blockedSources = {}

----------------------------------------------------------------------------
\* require_open: the source's verdict is looked up before the host's.
Blocked(f) == SourceOf[f] \in blockedSources \/ target[f] \in blockedHosts
BlockedCode(f) ==
  IF SourceOf[f] \in blockedSources THEN "compliance_review_required" ELSE "rate_limited"

\* get.
StartFetch(f) ==
  /\ stage[f] = "idle"
  /\ stage' = [stage EXCEPT ![f] = "validating"]
  /\ UNCHANGED <<target, retries, hops, slots, pacing, quiet, blockedHosts, blockedSources>>

\* The URL is validated (or refused) and the circuit asked, on the first hop and on each
\* redirect.
ValidateUrl(f) ==
  /\ stage[f] = "validating"
  /\ \/ stage' = [stage EXCEPT ![f] = "refused"]
     \/ Blocked(f) /\ stage' = [stage EXCEPT ![f] = BlockedCode(f)]
     \/ ~Blocked(f) /\ stage' = [stage EXCEPT ![f] = "queued"]
  /\ UNCHANGED <<target, retries, hops, slots, pacing, quiet, blockedHosts, blockedSources>>

\* _send_once: the semaphore, and the circuit once more.
TakeSlot(f) ==
  /\ stage[f] = "queued" /\ slots > 0
  /\ IF Blocked(f) THEN stage' = [stage EXCEPT ![f] = BlockedCode(f)] /\ UNCHANGED slots
     ELSE stage' = [stage EXCEPT ![f] = "limited"] /\ slots' = slots - 1
  /\ UNCHANGED <<target, retries, hops, pacing, quiet, blockedHosts, blockedSources>>

\* _DomainLimiter.wait: the host's lock.
TakeTurn(f) ==
  /\ stage[f] = "limited" /\ pacing[target[f]] = NoFetch
  /\ stage' = [stage EXCEPT ![f] = "paced"]
  /\ pacing' = [pacing EXCEPT ![target[f]] = f]
  /\ UNCHANGED <<target, retries, hops, slots, quiet, blockedHosts, blockedSources>>

\* The interval is over: the start is recorded, the lock released, the circuit asked a last
\* time, and the request goes out.
FinishPace(f) ==
  /\ stage[f] = "paced" /\ quiet[target[f]] >= Interval
  /\ pacing' = [pacing EXCEPT ![target[f]] = NoFetch]
  /\ quiet' = [quiet EXCEPT ![target[f]] = 0]

\* Mutant: the circuit is not asked again after the wait.
SendUnchecked(f) ==
  /\ FinishPace(f)
  /\ stage' = [stage EXCEPT ![f] = "sent"] /\ UNCHANGED slots
  /\ UNCHANGED <<target, retries, hops, blockedHosts, blockedSources>>

\* Mutant: a request the circuit stops keeps its permit.
SendLeaking(f) ==
  /\ FinishPace(f)
  /\ stage' = [stage EXCEPT ![f] = IF Blocked(f) THEN BlockedCode(f) ELSE "sent"]
  /\ UNCHANGED <<target, retries, hops, slots, blockedHosts, blockedSources>>

Send(f) ==
  /\ FinishPace(f)
  /\ IF Blocked(f) THEN stage' = [stage EXCEPT ![f] = BlockedCode(f)] /\ slots' = slots + 1
     ELSE stage' = [stage EXCEPT ![f] = "sent"] /\ UNCHANGED slots
  /\ UNCHANGED <<target, retries, hops, blockedHosts, blockedSources>>

\* An answer or a network error: the permit is released, and the hop ends or is retried.
Answered(f) ==
  /\ stage[f] = "sent"
  /\ slots' = slots + 1
  /\ UNCHANGED <<pacing, quiet>>

\* 2xx and 304, or an answer that is an error at once (401, 4xx, too large, a broken
\* transport or redirect).
AnswerFinal(f) ==
  /\ Answered(f)
  /\ \E outcome \in {"ok", "refused"} : stage' = [stage EXCEPT ![f] = outcome]
  /\ UNCHANGED <<target, retries, hops, blockedHosts, blockedSources>>

AnswerForbidden(f) ==
  /\ Answered(f)
  /\ stage' = [stage EXCEPT ![f] = "compliance_review_required"]
  /\ blockedSources' = blockedSources \cup {SourceOf[f]}
  /\ UNCHANGED <<target, retries, hops, blockedHosts>>

\* Mutant: one retry too many.
AnswerRetryOneMore(f) ==
  /\ Answered(f)
  /\ retries[f] <= MaxRetries
  /\ stage' = [stage EXCEPT ![f] = "backoff"]
  /\ retries' = [retries EXCEPT ![f] = @ + 1]
  /\ UNCHANGED <<target, hops, blockedHosts, blockedSources>>

\* 429, 5xx or a transient network error with an attempt left.
AnswerRetry(f) ==
  /\ Answered(f)
  /\ retries[f] < MaxRetries
  /\ stage' = [stage EXCEPT ![f] = "backoff"]
  /\ retries' = [retries EXCEPT ![f] = @ + 1]
  /\ UNCHANGED <<target, hops, blockedHosts, blockedSources>>

\* The last attempt: a host is tripped for its 429 only, not for 5xx or network errors.
AnswerExhausted(f) ==
  /\ Answered(f)
  /\ retries[f] = MaxRetries
  /\ \/ /\ stage' = [stage EXCEPT ![f] = "rate_limited"]
        /\ blockedHosts' = blockedHosts \cup {target[f]}
     \/ /\ stage' = [stage EXCEPT ![f] = "retry_exhausted"]
        /\ UNCHANGED blockedHosts
  /\ UNCHANGED <<target, retries, hops, blockedSources>>

AnswerRedirect(f) ==
  /\ Answered(f)
  /\ IF hops[f] = MaxRedirects
     THEN stage' = [stage EXCEPT ![f] = "too_many_redirects"] /\ UNCHANGED <<target, retries, hops>>
     ELSE \E h \in Hosts :
            /\ stage' = [stage EXCEPT ![f] = "validating"]
            /\ target' = [target EXCEPT ![f] = h]
            /\ hops' = [hops EXCEPT ![f] = @ + 1]
            /\ retries' = [retries EXCEPT ![f] = 0]
  /\ UNCHANGED <<blockedHosts, blockedSources>>

Answer(f) ==
  AnswerFinal(f) \/ AnswerForbidden(f) \/ AnswerRetry(f) \/ AnswerExhausted(f) \/ AnswerRedirect(f)

\* The backoff or the Retry-After is over, whichever is longer.
EndBackoff(f) ==
  /\ stage[f] = "backoff"
  /\ stage' = [stage EXCEPT ![f] = "queued"]
  /\ UNCHANGED <<target, retries, hops, slots, pacing, quiet, blockedHosts, blockedSources>>

\* The deadline of the collection cancels its tasks at whatever they await; the context
\* managers give the permit and the lock back.
CancelFetch(f) ==
  /\ stage[f] \in Running
  /\ stage' = [stage EXCEPT ![f] = "cancelled"]
  /\ slots' = IF stage[f] \in HoldsSlot THEN slots + 1 ELSE slots
  /\ pacing' = [h \in Hosts |-> IF pacing[h] = f THEN NoFetch ELSE pacing[h]]
  /\ UNCHANGED <<target, retries, hops, quiet, blockedHosts, blockedSources>>

FetchTick ==
  /\ \E h \in Hosts : quiet[h] < Interval
  /\ quiet' = [h \in Hosts |-> IF quiet[h] < Interval THEN quiet[h] + 1 ELSE quiet[h]]
  /\ UNCHANGED <<stage, target, retries, hops, slots, pacing, blockedHosts, blockedSources>>

\* The steps of a fetch once it runs.
FetchStep(f) ==
  ValidateUrl(f) \/ TakeSlot(f) \/ TakeTurn(f) \/ Send(f) \/ Answer(f) \/ EndBackoff(f)

FetchNext ==
  \/ \E f \in Fetches : StartFetch(f) \/ FetchStep(f) \/ CancelFetch(f)
  \/ FetchTick

FetchSpec == FetchInit /\ [][FetchNext]_fetchVars

----------------------------------------------------------------------------
(***************************************************************************)
(* Properties.                                                             *)
(***************************************************************************)
FetchTypeOK ==
  /\ stage \in [Fetches -> {"idle"} \cup Running \cup Outcomes]
  /\ target \in [Fetches -> Hosts]
  /\ retries \in [Fetches -> 0..MaxRetries]
  /\ hops \in [Fetches -> 0..MaxRedirects]
  /\ slots \in 0..Slots
  /\ pacing \in [Hosts -> Fetches \cup {NoFetch}]
  /\ quiet \in [Hosts -> 0..Interval]
  /\ blockedHosts \subseteq Hosts /\ blockedSources \subseteq Sources

\* Every permit of the semaphore is free or with a fetch that awaits its turn or an
\* answer, and a host's lock is with the fetch that paces it: an error, a tripped circuit
\* or a cancellation leaks neither.
PermitsAccounted ==
  /\ slots + Cardinality({f \in Fetches : stage[f] \in HoldsSlot}) = Slots
  /\ \A h \in Hosts, f \in Fetches :
       pacing[h] = f <=> stage[f] = "paced" /\ target[f] = h

\* No request goes out to a host or for a source after the run's circuit has opened for
\* it, also from a fetch that was waiting for a permit, for the pace or for its backoff
\* at the time.
NoSendAfterTripStep ==
  \A f \in Fetches : stage[f] # "sent" /\ stage'[f] = "sent" =>
    target[f] \notin blockedHosts /\ SourceOf[f] \notin blockedSources

NoSendAfterTrip == [][NoSendAfterTripStep]_fetchVars
=============================================================================
