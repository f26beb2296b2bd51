------------------------------ MODULE Lifecycle ------------------------------
(***************************************************************************)
(* Opening and closing: the three programs of the repository (the bot, and *)
(* the commands for ingestion and for intelligence) build what they need   *)
(* in a fixed order, serve, and close it in another one, whatever fails or *)
(* is interrupted on the way.  In the bot, jobs of three schedulers and    *)
(* background answers of the adapter are at work when that starts.         *)
(***************************************************************************)
EXTENDS Naturals

VARIABLES
  program,      \* which program runs
  options,      \* the optional parts its settings ask for
  phase,        \* "building", "serving", closing after either, or "ended"
  open,         \* the resources opened and not closed
  attempted,    \* those whose closing has started
  closing,      \* the one whose closing is awaited, or "none"
  interrupted,  \* the phase in which Ctrl-C cancelled the main task, or "no"
  work          \* what runs for a scheduler or the adapter

lifecycleVars == <<program, options, phase, open, attempted, closing, interrupted, work>>

Schedulers == {"intelligence", "mail", "ingestion"}
Workers == Schedulers \union {"adapter"}
Optional == {"resolver", "firecrawl", "intelligence", "mail"}

\* _build_ingestion: the resolver of the configured DNS mode, the HTTP client, and
\* Firecrawl when there is a key.
IngestionStack == {"resolver", "http", "firecrawl"}
Bot == {"database", "model", "channel"} \union IngestionStack \union Workers
IngestionCommand == {"database"} \union IngestionStack
IntelligenceCommand == {"database", "model", "channel"}

Resources == Bot
PartsOf == [bot |-> Bot, ingestion |-> IngestionCommand, intelligence |-> IntelligenceCommand]
Parts == {r \in PartsOf[program] : r \in Optional => r \in options}

\* A scheduler counts as open from its start.
OpenedAt == [database |-> 1, resolver |-> 2, http |-> 3, firecrawl |-> 4, model |-> 5,
             channel |-> 6, adapter |-> 7, intelligence |-> 8, mail |-> 9, ingestion |-> 10]

\* The commands close in the same order as the bot what they have of it.
ClosedAt == [intelligence |-> 1, mail |-> 2, ingestion |-> 3, adapter |-> 4, channel |-> 5,
             firecrawl |-> 6, http |-> 7, resolver |-> 8, model |-> 9, database |-> 10]

\* What the jobs of a scheduler, or the answers of the adapter, are built on.
Means == [intelligence |-> IntelligenceCommand \union IngestionStack, mail |-> {"database"},
          ingestion |-> IngestionCommand, adapter |-> IntelligenceCommand]

IsFirst(r, rs, order) == r \in rs /\ \A q \in rs : order[r] <= order[q]

\* The closings that raised or were interrupted; the others went on all the same.
Failed == (open \intersect attempted) \ {closing}

LifecycleTypeOK ==
  /\ program \in {"bot", "ingestion", "intelligence"}
  /\ options \subseteq Optional \intersect PartsOf[program]
  /\ phase \in {"building", "serving", "failing", "stopping", "ended"}
  /\ open \subseteq Parts
  /\ attempted \subseteq Parts
  /\ closing \in Resources \union {"none"}
  /\ interrupted \in {"no", "building", "serving", "failing", "stopping"}
  /\ work \in [Workers -> {"none", "running", "cancelled"}]

LifecycleInit ==
  /\ program \in {"bot", "ingestion", "intelligence"}
  /\ options \in SUBSET (Optional \intersect PartsOf[program])
  /\ phase = "building"
  /\ open = {} /\ attempted = {}
  /\ closing = "none"
  /\ interrupted = "no"
  /\ work = [w \in Workers |-> "none"]

----------------------------------------------------------------------------
\* The next part is built, or the next scheduler of _serve started.
Open ==
  /\ phase = "building"
  /\ \E r \in Resources : IsFirst(r, Parts \ open, OpenedAt) /\ open' = open \union {r}
  /\ UNCHANGED <<program, options, phase, attempted, closing, interrupted, work>>

\* The bot connects its channel; a command calls its application.
Serve ==
  /\ phase = "building" /\ Parts \subseteq open
  /\ phase' = "serving"
  /\ UNCHANGED <<program, options, open, attempted, closing, interrupted, work>>

\* A part cannot be built, or the first Ctrl-C comes: what is open so far is closed.
BuildFails ==
  /\ phase = "building"
  /\ phase' = "failing"
  /\ interrupted' \in {"no", "building"}
  /\ UNCHANGED <<program, options, open, attempted, closing, work>>

\* The channel disconnects or the command returns; either may have raised.
Leave ==
  /\ phase = "serving"
  /\ phase' = "stopping"
  /\ UNCHANGED <<program, options, open, attempted, closing, interrupted, work>>

\* Ctrl-C while it serves.  The bot and the ingestion command close in a finally; the
\* intelligence command catches Exception only and walks past its aclose.
Interrupt ==
  /\ phase = "serving" /\ interrupted = "no"
  /\ interrupted' = "serving"
  /\ phase' = IF program = "intelligence" THEN "ended" ELSE "stopping"
  /\ UNCHANGED <<program, options, open, attempted, closing, work>>

----------------------------------------------------------------------------
\* A job fires while its scheduler runs, also while another one is being closed; the
\* adapter hands questions over to background tasks from connect to close.  Its foreground
\* handlers are not here: no list holds them and no closing cancels them.
Begin(w) ==
  /\ w \in open \ attempted /\ work[w] = "none"
  /\ phase \in {"serving", "stopping"} \/ (phase = "failing" /\ w \in Schedulers)
  /\ work' = [work EXCEPT ![w] = "running"]
  /\ UNCHANGED <<program, options, phase, open, attempted, closing, interrupted>>

\* It ends by itself, or unwinds after it was cancelled.
Finish(w) ==
  /\ work[w] # "none"
  /\ work' = [work EXCEPT ![w] = "none"]
  /\ UNCHANGED <<program, options, phase, open, attempted, closing, interrupted>>

----------------------------------------------------------------------------
IsClosing == phase \in {"failing", "stopping"}

\* The next resource is asked to close: a scheduler and the adapter take nothing new and
\* cancel what runs.
StartClosing ==
  /\ IsClosing /\ closing = "none"
  /\ \E r \in Resources :
       /\ IsFirst(r, open \ attempted, ClosedAt)
       /\ closing' = r
       /\ attempted' = attempted \union {r}
       /\ work' = [w \in Workers |-> IF w = r /\ work[w] = "running" THEN "cancelled" ELSE work[w]]
  /\ UNCHANGED <<program, options, phase, open, interrupted>>

\* A scheduler awaits its cancelled jobs, however long they take; the adapter gives its
\* tasks a second and goes on.
Unwound == closing \in Schedulers => work[closing] = "none"

\* Mutant: the cancelled jobs are not awaited.
FinishAtOnce ==
  /\ closing # "none"
  /\ open' = open \ {closing}
  /\ closing' = "none"
  /\ UNCHANGED <<program, options, phase, attempted, interrupted, work>>

FinishClosing ==
  /\ closing # "none" /\ Unwound
  /\ open' = open \ {closing}
  /\ closing' = "none"
  /\ UNCHANGED <<program, options, phase, attempted, interrupted, work>>

\* Mutant: the first error ends the closing.
RaiseAtOnce ==
  /\ closing # "none" /\ closing \notin Workers
  /\ closing' = "none"
  /\ phase' = "ended"
  /\ UNCHANGED <<program, options, open, attempted, interrupted, work>>

\* It raises: the error is kept for the end and the next one is closed.  Schedulers and
\* adapter raise only when the wait is interrupted.
ClosingRaises ==
  /\ closing # "none"
  /\ \/ closing \notin Workers /\ UNCHANGED interrupted
     \/ interrupted = "no" /\ interrupted' = phase
  /\ closing' = "none"
  /\ UNCHANGED <<program, options, phase, open, attempted, work>>

End ==
  /\ IsClosing /\ closing = "none" /\ open \subseteq attempted
  /\ phase' = "ended"
  /\ UNCHANGED <<program, options, open, attempted, closing, interrupted, work>>

LifecycleNext ==
  \/ Open \/ Serve \/ BuildFails \/ Leave \/ Interrupt
  \/ \E w \in Workers : Begin(w) \/ Finish(w)
  \/ StartClosing \/ FinishClosing \/ ClosingRaises \/ End

LifecycleSpec == LifecycleInit /\ [][LifecycleNext]_lifecycleVars

----------------------------------------------------------------------------
\* What runs has what it runs on: no job of a scheduler, cancelled ones that still write
\* their outcome included, and no answer that is not cancelled outlives a client or the
\* database it uses - unless the wait for it was interrupted.  Answers that the adapter has
\* cancelled and waited a second for, and its foreground handlers, may.
WorkHasItsMeans ==
  \A w \in Workers :
    \/ work[w] = "running"
    \/ w \in Schedulers \ Failed /\ work[w] = "cancelled"
    => Means[w] \intersect Parts \subseteq open

\* However a program ends, it has tried to close everything it opened, also when a part
\* could not be built or a closing raised before: all but the intelligence command that
\* is interrupted at work.
NothingLeftOpen ==
  phase = "ended" => \/ open \subseteq attempted
                     \/ program = "intelligence" /\ interrupted = "serving"
=============================================================================
