------------------------------- MODULE QaIntake -------------------------------
(***************************************************************************)
(* Messages of the chat in src/src/commerce_agent: FeishuAdapter of        *)
(* integrations/feishu.py, BotService.queue_question of application.py,    *)
(* and QaService with its ThreadContextStore of intelligence/qa.py.        *)
(*                                                                         *)
(* A handler is one call of _on_message, with the background task it may   *)
(* become; the SDK may deliver a message again and again and run several   *)
(* handlers at once.  Everything runs in one event loop: an action is what *)
(* happens between two awaits.  The row of an answer goes on in            *)
(* DeliveryOutbox; here only its existence matters. Which group is bound   *)
(* when is_active is asked is a choice.                                    *)
(*                                                                         *)
(* Time is left out: whether the entry of a thread is past its ttl when it *)
(* is read is a choice.                                                    *)
(***************************************************************************)
EXTENDS Naturals, Sequences, FiniteSets

CONSTANTS
  Handlers,      \* calls of _on_message that can be at work at once
  Questions,     \* ids of messages that are questions
  Tests,         \* ids of messages that are "AI test" commands
  Threads,       \* keys of the thread contexts
  ThreadOf,      \* the thread a question is asked in
  QaConcurrency, \* qa_concurrency
  MaxTurns,      \* max_turns
  NoHandler, NoMessage

ASSUME IntakeAssumption ==
  /\ IsFiniteSet(Handlers)
  /\ Questions \cap Tests = {}
  /\ ThreadOf \in [Questions -> Threads]
  /\ QaConcurrency \in Nat \ {0}
  /\ MaxTurns \in Nat \ {0}
  /\ NoHandler \notin Handlers
  /\ NoMessage \notin Questions \cup Tests

VARIABLES
  handler,   \* what each handler is doing
  slots,     \* _qa_slots_in_use
  closed,    \* _closed
  cancelled, \* the handlers whose task close() has cancelled
  lock,      \* the holder of each question's lock in _idempotency_locks
  row,       \* the outbox row of each question's answer
  context    \* the turns of each thread in ThreadContextStore
vars == <<handler, slots, closed, cancelled, lock, row, context>>

Answering == {"answering", "storing", "remembering"}
Locked    == {"locked"} \cup Answering
Started   == {"binding", "looking", "waiting", "ending"} \cup Locked
Task      == {"created", "testing"} \cup Started
Slotted   == {"acking", "created"} \cup Started
Phase     == {"idle", "arrived", "acking", "testAcking"} \cup Task

\* grounded: whether the answer that is being stored is.
Handler == [phase : Phase, message : Questions \cup Tests \cup {NoMessage}, grounded : BOOLEAN]

InPhase(phase, m) == [phase |-> phase, message |-> m, grounded |-> FALSE]
Idle == InPhase("idle", NoMessage)

TypeOK ==
  /\ handler \in [Handlers -> Handler]
  /\ slots \in 0..QaConcurrency
  /\ closed \in BOOLEAN
  /\ cancelled \subseteq Handlers
  /\ lock \in [Questions -> Handlers \cup {NoHandler}]
  /\ row \in [Questions -> {"none", "refusal", "grounded"}]
  /\ context \in [Threads -> Seq(Questions)]
  /\ \A t \in Threads : Len(context[t]) <= MaxTurns

Init ==
  /\ handler = [h \in Handlers |-> Idle]
  /\ slots = 0
  /\ closed = FALSE
  /\ cancelled = {}
  /\ lock = [q \in Questions |-> NoHandler]
  /\ row = [q \in Questions |-> "none"]
  /\ context = [t \in Threads |-> <<>>]

Goto(h, phase) == [handler EXCEPT ![h].phase = phase]
Leave(h)       == [handler EXCEPT ![h] = Idle]
End(h)         == [handler EXCEPT ![h] = InPhase("ending", NoMessage)]
At(h, phases)  == handler[h].phase \in phases /\ h \notin cancelled

----------------------------------------------------------------------------
(***************************************************************************)
(* _on_message.                                                            *)
(***************************************************************************)

\* A message arrives; commands other than these two change nothing but the binding.
OnMessage(h, m) ==
  /\ handler[h].phase = "idle"
  /\ ~closed
  /\ handler' = [handler EXCEPT ![h] = InPhase(IF m \in Tests THEN "testAcking" ELSE "arrived", m)]
  /\ UNCHANGED <<slots, closed, cancelled, lock, row, context>>

\* qa_available has answered: the chat is not the one bound, there is no slot, or the
\* question gets one and is acknowledged.
ReserveQaSlot(h) ==
  /\ At(h, {"arrived"})
  /\ \E bound \in BOOLEAN :
       IF bound /\ slots < QaConcurrency
       THEN slots' = slots + 1 /\ handler' = Goto(h, "acking")
       ELSE handler' = Leave(h) /\ UNCHANGED slots
  /\ UNCHANGED <<closed, cancelled, lock, row, context>>

\* Mutant: the task is created without another look at _closed.
StaysOpen == TRUE

HandsOver == ~closed

\* The acknowledgement of a question is sent: its task is created.
Acknowledged(h) ==
  /\ At(h, {"acking"})
  /\ IF HandsOver
     THEN handler' = Goto(h, "created") /\ UNCHANGED slots
     ELSE handler' = Leave(h) /\ slots' = slots - 1
  /\ UNCHANGED <<closed, cancelled, lock, row, context>>

\* The acknowledgement of an AI test is sent.
TestAcknowledged(h) ==
  /\ At(h, {"testAcking"})
  /\ handler' = IF HandsOver THEN Goto(h, "testing") ELSE Leave(h)
  /\ UNCHANGED <<slots, closed, cancelled, lock, row, context>>

\* Mutant: the slot comes back only with the task.
SlotsKept(h) == slots

SlotsAfterFailure(h) == IF handler[h].phase = "acking" THEN slots - 1 ELSE slots

\* The acknowledgement raises.
AcknowledgementFails(h) ==
  /\ At(h, {"acking", "testAcking"})
  /\ slots' = SlotsAfterFailure(h)
  /\ handler' = Leave(h)
  /\ UNCHANGED <<closed, cancelled, lock, row, context>>

\* _complete_ai_test has replied, or failed to.
CompleteAiTest(h) ==
  /\ At(h, {"testing"})
  /\ handler' = Leave(h)
  /\ UNCHANGED <<slots, closed, cancelled, lock, row, context>>

----------------------------------------------------------------------------
(***************************************************************************)
(* _run_reserved_qa, queue_question, queue_answer.                         *)
(***************************************************************************)

\* The task runs up to its first await.
StartTask(h) ==
  /\ At(h, {"created"})
  /\ handler' = Goto(h, "binding")
  /\ UNCHANGED <<slots, closed, cancelled, lock, row, context>>

\* queue_question: the chat is still the one bound, or no longer.
CheckActive(h) ==
  /\ At(h, {"binding"})
  /\ \E bound \in BOOLEAN : handler' = IF bound THEN Goto(h, "looking") ELSE End(h)
  /\ UNCHANGED <<slots, closed, cancelled, lock, row, context>>

\* The first find_delivery_id.
FindDelivery(h) ==
  /\ At(h, {"looking"})
  /\ handler' = IF row[handler[h].message] = "none" THEN Goto(h, "waiting") ELSE End(h)
  /\ UNCHANGED <<slots, closed, cancelled, lock, row, context>>

AcquireLock(h) ==
  /\ At(h, {"waiting"})
  /\ lock[handler[h].message] = NoHandler
  /\ lock' = [lock EXCEPT ![handler[h].message] = h]
  /\ handler' = Goto(h, "locked")
  /\ UNCHANGED <<slots, closed, cancelled, row, context>>

\* The lock h may hold is released.
Released(h) == [q \in Questions |-> IF lock[q] = h THEN NoHandler ELSE lock[q]]

\* ThreadContextStore.get: what is left of an entry, which is dropped past its ttl.
Get(turns) == {turns, <<>>}

\* Mutant: the second look-up is left out.
IsNewAlways(q) == TRUE

IsNew(q) == row[q] = "none"

\* The second find_delivery_id, under the lock; then the clock and the context are read.
FindDeliveryAgain(h) ==
  /\ At(h, {"locked"})
  /\ LET q == handler[h].message
         t == ThreadOf[q]
     IN  IF IsNew(q)
         THEN /\ handler' = Goto(h, "answering")
              /\ \E turns \in Get(context[t]) : context' = [context EXCEPT ![t] = turns]
              /\ UNCHANGED lock
         ELSE /\ handler' = End(h)
              /\ lock' = Released(h)
              /\ UNCHANGED context
  /\ UNCHANGED <<slots, closed, cancelled, row>>

\* Retrieval and the model: an answer with valid citations, or the refusal.
Answer(h) ==
  /\ At(h, {"answering"})
  /\ \E grounded \in BOOLEAN :
       handler' = [handler EXCEPT ![h] =
                     [phase |-> "storing", message |-> handler[h].message, grounded |-> grounded]]
  /\ UNCHANGED <<slots, closed, cancelled, lock, row, context>>

\* queue_delivery: a row that exists is left alone.
Inserted(h) == [row EXCEPT ![handler[h].message] =
                  IF @ # "none" THEN @
                  ELSE IF handler[h].grounded THEN "grounded" ELSE "refusal"]

QueueDelivery(h) ==
  /\ At(h, {"storing"})
  /\ row' = Inserted(h)
  /\ handler' = Goto(h, "remembering")
  /\ UNCHANGED <<slots, closed, cancelled, lock, context>>

\* Mutant: the entries grow.
AllTurns(s, n) == s

\* ThreadContextStore.append keeps the last turns.
LastTurns(s, n) == IF Len(s) <= n THEN s ELSE SubSeq(s, Len(s) - n + 1, Len(s))

\* Mutant: a refusal is remembered as a turn.
RemembersAny(h) == TRUE

Remembers(h) == handler[h].grounded

RememberTurn(h) ==
  /\ At(h, {"remembering"})
  /\ LET q == handler[h].message
         t == ThreadOf[q]
     IN  IF Remembers(h)
         THEN \E turns \in Get(context[t]) :
                context' = [context EXCEPT ![t] = LastTurns(Append(turns, q), MaxTurns)]
         ELSE UNCHANGED context
  /\ lock' = Released(h)
  /\ handler' = End(h)
  /\ UNCHANGED <<slots, closed, cancelled, row>>

\* Mutant: an exception leaves the lock behind.
LockKept(h) == lock

LockAfterFailure(h) == Released(h)

\* queue_question raises: a look-up, the retrieval or the insertion fails.
QueueFails(h) ==
  /\ At(h, {"binding", "looking", "locked", "answering", "storing"})
  /\ lock' = LockAfterFailure(h)
  /\ handler' = End(h)
  /\ UNCHANGED <<slots, closed, cancelled, row, context>>

\* send_id of the row, or the reply that the search failed, is over (both are skipped
\* once the adapter is closed); the slot comes back.
FinishTask(h) ==
  /\ At(h, {"ending"})
  /\ slots' = slots - 1
  /\ handler' = Leave(h)
  /\ UNCHANGED <<closed, cancelled, lock, row, context>>

----------------------------------------------------------------------------
(***************************************************************************)
(* close and the rest of the world.                                        *)
(***************************************************************************)

\* close: every pending task is cancelled.
Close ==
  /\ ~closed
  /\ closed' = TRUE
  /\ cancelled' = {h \in Handlers : handler[h].phase \in Task}
  /\ UNCHANGED <<handler, slots, lock, row, context>>

\* The cancellation reaches the task, which ends. A task that never ran does not come
\* to its finally clause; an insertion that is under way may still be committed.
Unwind(h) ==
  /\ h \in cancelled
  /\ cancelled' = cancelled \ {h}
  /\ handler' = Leave(h)
  /\ lock' = Released(h)
  /\ slots' = IF handler[h].phase \in Started THEN slots - 1 ELSE slots
  /\ \/ UNCHANGED row
     \/ handler[h].phase = "storing" /\ row' = Inserted(h)
  /\ UNCHANGED <<closed, context>>

\* The process ends, closed or not, and is started again: only the rows are kept.
Restart ==
  /\ handler' = [h \in Handlers |-> Idle]
  /\ slots' = 0
  /\ closed' = FALSE
  /\ cancelled' = {}
  /\ lock' = [q \in Questions |-> NoHandler]
  /\ context' = [t \in Threads |-> <<>>]
  /\ UNCHANGED row

\* What a handler does by itself.
Proceed(h) ==
  \/ ReserveQaSlot(h) \/ Acknowledged(h) \/ TestAcknowledged(h) \/ AcknowledgementFails(h)
  \/ CompleteAiTest(h) \/ StartTask(h) \/ CheckActive(h) \/ FindDelivery(h)
  \/ FindDeliveryAgain(h) \/ Answer(h) \/ QueueDelivery(h) \/ RememberTurn(h)
  \/ QueueFails(h) \/ FinishTask(h) \/ Unwind(h)

Next ==
  \/ \E h \in Handlers : \/ \E m \in Questions \cup Tests : OnMessage(h, m)
                         \/ Proceed(h)
                         \/ AcquireLock(h)
  \/ Close \/ Restart

Spec == Init /\ [][Next]_vars

\* The event loop runs what is ready (replies, look-ups and model calls return or time
\* out), and asyncio.Lock serves its waiters in turn; nothing is assumed of messages,
\* closing and crashes.
Fairness == \A h \in Handlers : WF_vars(Proceed(h)) /\ SF_vars(AcquireLock(h))

FairSpec == Spec /\ Fairness

----------------------------------------------------------------------------
(***************************************************************************)
(* Properties.                                                             *)
(***************************************************************************)

\* The slots in use are those of the questions being acknowledged or answered: no path
\* (a failed reply, an exception, closing in between) returns one twice, and none of an
\* adapter that is open leaks one.
Busy == {h \in Handlers : handler[h].phase \in Slotted}
SlotsMatchWork == /\ Cardinality(Busy) <= slots
                  /\ ~closed => slots = Cardinality(Busy)

\* Nothing runs on behalf of a closed adapter but tasks that are being cancelled,
\* whichever reply was awaited when close took its list.
ClosedTasksAreCancelled ==
  closed => \A h \in Handlers : handler[h].phase \in Task => h \in cancelled

\* However often a question is delivered, before, while and after it is answered, the
\* model is asked only while it has no answer, and by one handler at a time.
AnsweredOnce ==
  \A g, h \in Handlers : handler[h].phase \in {"answering", "storing"} =>
    /\ row[handler[h].message] = "none"
    /\ g # h /\ handler[g].phase \in Answering => handler[g].message # handler[h].message

\* The context of a thread holds only turns whose grounded answer was queued, each once:
\* a refusal, a failed insertion or a repeated delivery is not remembered.
ContextHoldsAnswers ==
  \A t \in Threads : LET turns == context[t]
                     IN  /\ \A i \in DOMAIN turns : row[turns[i]] = "grounded"
                                                    /\ ThreadOf[turns[i]] = t
                         /\ \A i, j \in DOMAIN turns : turns[i] = turns[j] => i = j

\* A question that took a slot gives it back, whoever holds the lock it waits for.
SlotComesBack ==
  \A h \in Handlers : handler[h].phase = "acking" ~> handler[h].phase \notin Slotted

=============================================================================
