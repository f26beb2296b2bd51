--------------------------- MODULE QaIntake_proofs ---------------------------
(***************************************************************************)
(* Theorems about QaIntake, for any handlers, messages, threads, number of *)
(* slots and number of turns.                                              *)
(***************************************************************************)
EXTENDS QaIntake, FiniteSetTheorems, TLAPS

\* Only tasks are cancelled, and only by close.
CancelledTasks == /\ \A h \in cancelled : handler[h].phase \in Task
                  /\ cancelled # {} => closed

\* A lock is held by the one handler that is past it.
LocksMatchWork ==
  /\ \A h \in Handlers : handler[h].phase \in Locked =>
       handler[h].message \in Questions /\ lock[handler[h].message] = h
  /\ \A q \in Questions : lock[q] \in Handlers =>
       handler[lock[q]].phase \in Locked /\ handler[lock[q]].message = q

\* A handler with a slot works on a question until it comes to an end.
Asking == ({"arrived"} \cup Slotted) \ {"ending"}
AskedQuestions == \A h \in Handlers : handler[h].phase \in Asking => handler[h].message \in Questions

\* A question is answered while it has no row.
Unanswered == \A h \in Handlers : handler[h].phase \in {"answering", "storing"} =>
                                    row[handler[h].message] = "none"

\* What is about to be remembered has been stored, and is not yet remembered.
Absent(q, turns) == \A i \in DOMAIN turns : turns[i] # q
ToRemember == \A h \in Handlers : handler[h].phase = "remembering" /\ handler[h].grounded =>
                /\ row[handler[h].message] = "grounded"
                /\ Absent(handler[h].message, context[ThreadOf[handler[h].message]])

IInv == /\ TypeOK
        /\ SlotsMatchWork
        /\ CancelledTasks
        /\ ClosedTasksAreCancelled
        /\ LocksMatchWork
        /\ AskedQuestions
        /\ Unanswered
        /\ ToRemember
        /\ ContextHoldsAnswers

LEMMA Records ==
  ASSUME NEW phase \in Phase, NEW m \in Questions \cup Tests \cup {NoMessage}
  PROVE  /\ InPhase(phase, m) \in Handler
         /\ InPhase(phase, m).phase = phase
         /\ InPhase(phase, m).message = m
BY Zenon DEF Handler, InPhase

LEMMA IdleRecord == Idle \in Handler /\ Idle.phase = "idle"
BY Records DEF Idle, Phase

LEMMA InitIInv == Init => IInv
<1> SUFFICES ASSUME Init PROVE IInv
  OBVIOUS
<1>1. Busy = {}
  BY DEF Init, Busy, Idle, InPhase, Slotted, Started, Locked, Answering
<1>2. SlotsMatchWork
  BY <1>1, FS_EmptySet DEF Init, SlotsMatchWork
<1>3. TypeOK
  <2>1. handler \in [Handlers -> Handler]
    BY IdleRecord DEF Init
  <2>2. slots \in 0..QaConcurrency
    BY IntakeAssumption DEF Init
  <2>3. context \in [Threads -> Seq(Questions)] /\ \A t \in Threads : Len(context[t]) <= MaxTurns
    BY IntakeAssumption DEF Init
  <2> QED
    BY <2>1, <2>2, <2>3 DEF Init, TypeOK
<1> QED
  BY <1>2, <1>3, IntakeAssumption DEF Init, IInv, Idle, InPhase, CancelledTasks,
     ClosedTasksAreCancelled, LocksMatchWork, AskedQuestions, Asking, Unanswered, ToRemember,
     ContextHoldsAnswers, Slotted, Task, Started, Locked, Answering

----------------------------------------------------------------------------
(***************************************************************************)
(* The steps of a handler.                                                 *)
(***************************************************************************)

\* What becomes of the other handlers.
OthersKept(h, f) == \A g \in Handlers \ {h} : f[g] = handler[g]

LEMMA GotoStep ==
  ASSUME TypeOK, NEW h \in Handlers, NEW phase \in Phase
  PROVE  /\ Goto(h, phase) \in [Handlers -> Handler]
         /\ Goto(h, phase)[h].phase = phase
         /\ Goto(h, phase)[h].message = handler[h].message
         /\ Goto(h, phase)[h].grounded = handler[h].grounded
         /\ OthersKept(h, Goto(h, phase))
<1> DEFINE rec == [handler[h] EXCEPT !.phase = phase]
<1>1. handler \in [Handlers -> Handler]
  BY DEF TypeOK
<1>2. rec \in Handler /\ rec.phase = phase /\ rec.message = handler[h].message
        /\ rec.grounded = handler[h].grounded
  BY <1>1, ZenonT(60) DEF Handler
<1>3. Goto(h, phase) = [handler EXCEPT ![h] = rec]
  BY <1>1 DEF Goto
<1> HIDE DEF rec
<1> QED
  BY <1>1, <1>2, <1>3 DEF OthersKept

LEMMA OnMessageStep ==
  ASSUME TypeOK, NEW h \in Handlers, NEW m \in Questions \cup Tests, OnMessage(h, m)
  PROVE  /\ handler' \in [Handlers -> Handler]
         /\ handler'[h].phase = IF m \in Tests THEN "testAcking" ELSE "arrived"
         /\ handler'[h].message = m
         /\ OthersKept(h, handler')
<1> DEFINE phase == IF m \in Tests THEN "testAcking" ELSE "arrived"
<1>1. handler \in [Handlers -> Handler] /\ phase \in Phase
  BY DEF TypeOK, Phase
<1>2. handler' = [handler EXCEPT ![h] = InPhase(phase, m)]
  BY DEF OnMessage
<1> HIDE DEF phase
<1>3. /\ handler' \in [Handlers -> Handler]
      /\ handler'[h].phase = phase
      /\ handler'[h].message = m
      /\ OthersKept(h, handler')
  BY <1>1, <1>2, Records DEF OthersKept
<1> QED
  BY <1>3 DEF phase

LEMMA LeaveStep ==
  ASSUME TypeOK, NEW h \in Handlers
  PROVE  /\ Leave(h) \in [Handlers -> Handler]
         /\ Leave(h)[h].phase = "idle"
         /\ OthersKept(h, Leave(h))
<1>1. handler \in [Handlers -> Handler]
  BY DEF TypeOK
<1> QED
  BY <1>1, IdleRecord DEF Leave, OthersKept

LEMMA EndStep ==
  ASSUME TypeOK, NEW h \in Handlers
  PROVE  /\ End(h) \in [Handlers -> Handler]
         /\ End(h)[h].phase = "ending"
         /\ OthersKept(h, End(h))
<1>1. "ending" \in Phase
  BY DEF Phase, Task, Started
<1>2. handler \in [Handlers -> Handler]
  BY DEF TypeOK
<1>3. InPhase("ending", NoMessage) \in Handler /\ InPhase("ending", NoMessage).phase = "ending"
  BY <1>1, Records
<1> QED
  BY <1>2, <1>3 DEF End, OthersKept

LEMMA AnswerStep ==
  ASSUME TypeOK, NEW h \in Handlers, Answer(h)
  PROVE  /\ handler' \in [Handlers -> Handler]
         /\ handler'[h].phase = "storing"
         /\ handler'[h].message = handler[h].message
         /\ OthersKept(h, handler')
<1>1. handler \in [Handlers -> Handler]
  BY DEF TypeOK
<1>2. PICK grounded \in BOOLEAN :
        handler' = [handler EXCEPT ![h] =
                      [phase |-> "storing", message |-> handler[h].message, grounded |-> grounded]]
  BY DEF Answer
<1> DEFINE rec == [phase |-> "storing", message |-> handler[h].message, grounded |-> grounded]
<1>3. "storing" \in Phase
  BY DEF Phase, Task, Started, Locked, Answering
<1>4. rec \in Handler /\ rec.phase = "storing" /\ rec.message = handler[h].message
  BY <1>1, <1>3, Zenon DEF Handler
<1> HIDE DEF rec
<1> QED
  BY <1>1, <1>2, <1>4 DEF OthersKept, rec

----------------------------------------------------------------------------
(***************************************************************************)
(* The slots.                                                              *)
(***************************************************************************)

\* What a step of one handler makes of Busy: nothing, one more, one less.
LEMMA BusySteps ==
  ASSUME IInv, NEW h \in Handlers, OthersKept(h, handler')
  PROVE  /\ Cardinality(Busy) \in Nat
         /\ h \in Busy /\ handler'[h].phase \in Slotted => Busy' = Busy
         /\ h \notin Busy /\ handler'[h].phase \notin Slotted => Busy' = Busy
         /\ h \notin Busy /\ handler'[h].phase \in Slotted =>
              Cardinality(Busy') = Cardinality(Busy) + 1
         /\ h \in Busy /\ handler'[h].phase \notin Slotted =>
              Cardinality(Busy) # 0 /\ Cardinality(Busy') = Cardinality(Busy) - 1
<1>1. IsFiniteSet(Busy) /\ Cardinality(Busy) \in Nat
  BY IntakeAssumption, FS_Subset, FS_CardinalityType DEF Busy
<1>2. handler'[h].phase \in Slotted => Busy' = Busy \cup {h}
  BY DEF Busy, OthersKept, Slotted, Started, Locked, Answering
<1>3. handler'[h].phase \notin Slotted => Busy' = Busy \ {h}
  BY DEF Busy, OthersKept, Slotted, Started, Locked, Answering
<1>4. Cardinality(Busy \cup {h}) = IF h \in Busy THEN Cardinality(Busy) ELSE Cardinality(Busy) + 1
  BY <1>1, FS_AddElement
<1>5. Cardinality(Busy \ {h}) = IF h \in Busy THEN Cardinality(Busy) - 1 ELSE Cardinality(Busy)
  BY <1>1, FS_RemoveElement
<1>6. h \in Busy => Cardinality(Busy) # 0
  BY <1>1, FS_EmptySet
<1> QED
  BY <1>1, <1>2, <1>3, <1>4, <1>5, <1>6

\* The slots after such a step.
SlotMove(h) ==
  /\ OthersKept(h, handler')
  /\ closed' = closed
  /\ \/ /\ slots' = slots
        /\ handler[h].phase \in Slotted <=> handler'[h].phase \in Slotted
     \/ /\ slots' = slots + 1 /\ slots < QaConcurrency
        /\ handler[h].phase \notin Slotted /\ handler'[h].phase \in Slotted
     \/ /\ slots' = slots - 1
        /\ handler[h].phase \in Slotted /\ handler'[h].phase \notin Slotted

LEMMA SlotsFollow ==
  ASSUME IInv, NEW h \in Handlers, SlotMove(h)
  PROVE  SlotsMatchWork' /\ slots' \in 0..QaConcurrency
<1>1. h \in Busy <=> handler[h].phase \in Slotted
  BY DEF Busy
<1>2. slots \in 0..QaConcurrency /\ QaConcurrency \in Nat /\ Cardinality(Busy) <= slots
        /\ (~closed => slots = Cardinality(Busy))
  BY IntakeAssumption DEF IInv, TypeOK, SlotsMatchWork
<1>3. SlotsMatchWork' <=> Cardinality(Busy') <= slots' /\ (~closed => slots' = Cardinality(Busy'))
  BY DEF SlotsMatchWork, SlotMove
<1> QED
  BY <1>1, <1>2, <1>3, BusySteps DEF SlotMove

LEMMA SlotsStep == ASSUME IInv, Next PROVE SlotsMatchWork' /\ slots' \in 0..QaConcurrency
<1> USE DEF Slotted, Started, Locked, Answering, Task, Phase, At
<1>t. TypeOK
  BY DEF IInv
<1>1. ASSUME NEW h \in Handlers, NEW m \in Questions \cup Tests, OnMessage(h, m) PROVE SlotMove(h)
  BY <1>t, <1>1, OnMessageStep DEF OnMessage, SlotMove
<1>2. ASSUME NEW h \in Handlers, ReserveQaSlot(h) PROVE SlotMove(h)
  BY <1>t, <1>2, GotoStep, LeaveStep DEF ReserveQaSlot, SlotMove
<1>3. ASSUME NEW h \in Handlers, Acknowledged(h) PROVE SlotMove(h)
  BY <1>t, <1>3, GotoStep, LeaveStep DEF Acknowledged, SlotMove
<1>4. ASSUME NEW h \in Handlers, TestAcknowledged(h) \/ CompleteAiTest(h) PROVE SlotMove(h)
  BY <1>t, <1>4, GotoStep, LeaveStep DEF TestAcknowledged, CompleteAiTest, SlotMove
<1>5. ASSUME NEW h \in Handlers, AcknowledgementFails(h) PROVE SlotMove(h)
  BY <1>t, <1>5, LeaveStep DEF AcknowledgementFails, SlotsAfterFailure, SlotMove
<1>6. ASSUME NEW h \in Handlers, StartTask(h) \/ CheckActive(h) \/ FindDelivery(h) PROVE SlotMove(h)
  BY <1>t, <1>6, GotoStep, EndStep DEF StartTask, CheckActive, FindDelivery, SlotMove
<1>7. ASSUME NEW h \in Handlers, AcquireLock(h) \/ FindDeliveryAgain(h) PROVE SlotMove(h)
  BY <1>t, <1>7, GotoStep, EndStep DEF AcquireLock, FindDeliveryAgain, SlotMove
<1>8. ASSUME NEW h \in Handlers, Answer(h) PROVE SlotMove(h)
  BY <1>t, <1>8, AnswerStep DEF Answer, SlotMove
<1>9. ASSUME NEW h \in Handlers, QueueDelivery(h) \/ RememberTurn(h) \/ QueueFails(h) PROVE SlotMove(h)
  BY <1>t, <1>9, GotoStep, EndStep DEF QueueDelivery, RememberTurn, QueueFails, SlotMove
<1>10. ASSUME NEW h \in Handlers, FinishTask(h) PROVE SlotMove(h)
  BY <1>t, <1>10, LeaveStep DEF FinishTask, SlotMove
<1>11. ASSUME NEW h \in Handlers, Unwind(h)
       PROVE  SlotsMatchWork' /\ slots' \in 0..QaConcurrency
  <2>1. OthersKept(h, handler') /\ handler'[h].phase = "idle" /\ closed' = closed
    BY <1>t, <1>11, LeaveStep DEF Unwind
  <2>2. handler[h].phase \in Task /\ closed
    BY <1>11 DEF IInv, CancelledTasks, Unwind
  <2>3. slots' = IF handler[h].phase \in Started THEN slots - 1 ELSE slots
    BY <1>11 DEF Unwind
  <2>4. CASE handler[h].phase \in Slotted
    <3>1. Cardinality(Busy) \in Nat /\ Cardinality(Busy) # 0 /\ Cardinality(Busy') = Cardinality(Busy) - 1
      BY <2>1, <2>4, BusySteps DEF Busy
    <3>2. slots \in 0..QaConcurrency /\ QaConcurrency \in Nat /\ Cardinality(Busy) <= slots
      BY IntakeAssumption DEF IInv, TypeOK, SlotsMatchWork
    <3> QED
      BY <2>1, <2>2, <2>3, <3>1, <3>2 DEF SlotsMatchWork
  <2>5. CASE handler[h].phase \notin Slotted
    BY <2>1, <2>3, <2>5, SlotsFollow DEF SlotMove
  <2> QED
    BY <2>4, <2>5
<1>12. ASSUME NEW h \in Handlers, Proceed(h) \/ AcquireLock(h)
       PROVE  SlotsMatchWork' /\ slots' \in 0..QaConcurrency
  BY <1>2, <1>3, <1>4, <1>5, <1>6, <1>7, <1>8, <1>9, <1>10, <1>11, <1>12, SlotsFollow DEF Proceed
<1>13. Close => SlotsMatchWork' /\ slots' \in 0..QaConcurrency
  BY DEF IInv, TypeOK, SlotsMatchWork, Close, Busy
<1>14. Restart => SlotsMatchWork' /\ slots' \in 0..QaConcurrency
  <2> SUFFICES ASSUME Restart PROVE SlotsMatchWork' /\ slots' \in 0..QaConcurrency
    OBVIOUS
  <2>1. Busy' = {}
    <3>1. \A h \in Handlers : handler'[h].phase = "idle"
      BY IdleRecord DEF Restart
    <3> QED
      BY <3>1 DEF Busy
  <2> QED
    <3>1. Cardinality(Busy') = 0
      BY <2>1, FS_EmptySet
    <3>2. slots' = 0 /\ 0 \in 0..QaConcurrency
      BY IntakeAssumption DEF Restart
    <3> QED
      BY <3>1, <3>2 DEF SlotsMatchWork
<1> QED
  BY <1>1, <1>12, <1>13, <1>14, SlotsFollow DEF Next

----------------------------------------------------------------------------
(***************************************************************************)
(* Types.                                                                  *)
(***************************************************************************)

\* What append leaves of the turns: no more than MaxTurns, old ones or the new one.
LEMMA LastTurnsKept ==
  ASSUME NEW turns \in Seq(Questions), NEW q \in Questions,
         NEW last, last = LastTurns(Append(turns, q), MaxTurns)
  PROVE  /\ last \in Seq(Questions)
         /\ Len(last) <= MaxTurns
         /\ \A i \in DOMAIN last : last[i] = q \/ \E j \in DOMAIN turns : last[i] = turns[j]
         /\ Absent(q, turns) /\ (\A i, j \in DOMAIN turns : turns[i] = turns[j] => i = j)
              => \A i, j \in DOMAIN last : last[i] = last[j] => i = j
<1> DEFINE all == Append(turns, q)
           skip == IF Len(all) <= MaxTurns THEN 0 ELSE Len(all) - MaxTurns
<1>1. all \in Seq(Questions) /\ Len(all) = Len(turns) + 1 /\ Len(turns) \in Nat
        /\ all[Len(turns) + 1] = q /\ (\A i \in 1..Len(turns) : all[i] = turns[i])
  OBVIOUS
<1>2. skip \in Nat /\ skip <= Len(turns) /\ Len(all) - skip <= MaxTurns
  BY <1>1, IntakeAssumption
<1>3. /\ last \in Seq(Questions)
      /\ Len(last) = Len(all) - skip
      /\ \A i \in 1..Len(last) : last[i] = all[i + skip]
  <2>1. CASE Len(all) <= MaxTurns
    BY <2>1, <1>1 DEF LastTurns
  <2>2. CASE ~(Len(all) <= MaxTurns)
    <3>1. last = SubSeq(all, skip + 1, Len(all))
      BY <2>2 DEF LastTurns
    <3> HIDE DEF all, skip
    <3> QED
      BY <3>1, <1>1, <1>2
  <2> QED
    BY <2>1, <2>2
<1>4. DOMAIN last = 1..Len(last) /\ DOMAIN turns = 1..Len(turns)
  BY <1>3
<1> HIDE DEF all, skip
<1>5. ASSUME NEW i \in 1..Len(last)
      PROVE  \/ i + skip = Len(turns) + 1 /\ last[i] = q
             \/ i + skip \in 1..Len(turns) /\ last[i] = turns[i + skip]
  <2>1. i + skip \in 1..Len(turns) + 1
    BY <1>1, <1>2, <1>3
  <2> QED
    BY <2>1, <1>1, <1>3
<1>6. ASSUME Absent(q, turns), \A i, j \in DOMAIN turns : turns[i] = turns[j] => i = j,
             NEW i \in 1..Len(last), NEW j \in 1..Len(last), last[i] = last[j]
      PROVE  i = j
  <2>1. i + skip = j + skip
    BY <1>4, <1>5, <1>6 DEF Absent
  <2> QED
    BY <2>1, <1>2
<1>7. \A i \in DOMAIN last : last[i] = q \/ \E j \in DOMAIN turns : last[i] = turns[j]
  BY <1>4, <1>5
<1>8. Absent(q, turns) /\ (\A i, j \in DOMAIN turns : turns[i] = turns[j] => i = j)
        => \A i, j \in DOMAIN last : last[i] = last[j] => i = j
  BY <1>4, <1>6, Zenon
<1> QED
  BY <1>1, <1>2, <1>3, <1>7, <1>8

LEMMA GetKept ==
  ASSUME NEW turns \in Seq(Questions), NEW left \in Get(turns)
  PROVE  /\ left \in Seq(Questions)
         /\ Len(left) <= Len(turns)
         /\ left = turns \/ DOMAIN left = {}
<1>1. <<>> \in Seq(Questions) /\ Len(<<>>) = 0 /\ DOMAIN <<>> = {} /\ Len(turns) \in Nat
  OBVIOUS
<1>2. left = turns \/ left = <<>>
  BY DEF Get
<1>3. CASE left = turns
  BY <1>3
<1>4. CASE left = <<>>
  BY <1>1, <1>4
<1> QED
  BY <1>2, <1>3, <1>4

\* The threads after the question q is remembered in t.
TurnAdded(t, q) ==
  /\ context' \in [Threads -> Seq(Questions)]
  /\ \A s \in Threads \ {t} : context'[s] = context[s]
  /\ Len(context'[t]) <= MaxTurns
  /\ \A i \in DOMAIN context'[t] :
       context'[t][i] = q \/ \E j \in DOMAIN context[t] : context'[t][i] = context[t][j]
  /\ \A i, j \in DOMAIN context'[t] : context'[t][i] = context'[t][j] => i = j

LEMMA Remembered ==
  ASSUME IInv, NEW h \in Handlers, RememberTurn(h), handler[h].grounded
  PROVE  TurnAdded(ThreadOf[handler[h].message], handler[h].message)
<1> DEFINE q == handler[h].message
           t == ThreadOf[q]
<1>1. handler[h].phase = "remembering"
  BY DEF RememberTurn, At
<1>2. q \in Questions /\ t \in Threads
  BY <1>1, IntakeAssumption DEF IInv, AskedQuestions, Asking, Slotted, Started, Locked, Answering
<1>3. context \in [Threads -> Seq(Questions)] /\ context[t] \in Seq(Questions)
  BY <1>2 DEF IInv, TypeOK
<1>4. Absent(q, context[t]) /\ \A i, j \in DOMAIN context[t] : context[t][i] = context[t][j] => i = j
  BY <1>1, <1>2 DEF IInv, ToRemember, ContextHoldsAnswers
<1>5. PICK left \in Get(context[t]) :
        context' = [context EXCEPT ![t] = LastTurns(Append(left, q), MaxTurns)]
  BY DEF RememberTurn, Remembers
<1> HIDE DEF q, t
<1>6. /\ left \in Seq(Questions)
      /\ left = context[t] \/ DOMAIN left = {}
  BY <1>3, <1>5, GetKept
<1>7. Absent(q, left) /\ \A i, j \in DOMAIN left : left[i] = left[j] => i = j
  BY <1>4, <1>6 DEF Absent
<1>8. context'[t] = LastTurns(Append(left, q), MaxTurns)
  BY <1>2, <1>3, <1>5
<1>9. /\ context'[t] \in Seq(Questions)
      /\ Len(context'[t]) <= MaxTurns
      /\ \A i \in DOMAIN context'[t] :
              context'[t][i] = q \/ \E j \in DOMAIN left : context'[t][i] = left[j]
      /\ \A i, j \in DOMAIN context'[t] : context'[t][i] = context'[t][j] => i = j
  BY <1>2, <1>6, <1>7, <1>8, LastTurnsKept
<1>10. context' \in [Threads -> Seq(Questions)] /\ \A s \in Threads \ {t} : context'[s] = context[s]
  BY <1>2, <1>3, <1>5, <1>8, <1>9
<1>11. \A i \in DOMAIN context'[t] :
              context'[t][i] = q \/ \E j \in DOMAIN context[t] : context'[t][i] = context[t][j]
  BY <1>6, <1>9
<1>12. TurnAdded(t, q)
  BY <1>9, <1>10, <1>11, Zenon DEF TurnAdded
<1> QED
  BY <1>12 DEF q, t

\* What a thread holds after a step it held before, or it is the question remembered.
RememberedNow(h, t, q) ==
  /\ RememberTurn(h)
  /\ handler[h].phase = "remembering" /\ handler[h].grounded
  /\ q = handler[h].message /\ t = ThreadOf[q]

ContextMove ==
  /\ context' \in [Threads -> Seq(Questions)]
  /\ \A t \in Threads :
       /\ Len(context'[t]) <= MaxTurns
       /\ \A i \in DOMAIN context'[t] :
            \/ \E j \in DOMAIN context[t] : context'[t][i] = context[t][j]
            \/ \E h \in Handlers : RememberedNow(h, t, context'[t][i])
       /\ \A i, j \in DOMAIN context'[t] : context'[t][i] = context'[t][j] => i = j

LEMMA ContextDropped ==
  ASSUME IInv, \A t \in Threads : context'[t] = context[t] \/ context'[t] = <<>>,
         context' \in [Threads -> Seq(Questions)]
  PROVE  ContextMove
<1>1. Len(<<>>) = 0 /\ DOMAIN <<>> = {} /\ 0 <= MaxTurns
  BY IntakeAssumption
<1>2. ASSUME NEW t \in Threads, context'[t] = context[t]
      PROVE  /\ Len(context'[t]) <= MaxTurns
             /\ \A i \in DOMAIN context'[t] : \E j \in DOMAIN context[t] : context'[t][i] = context[t][j]
             /\ \A i, j \in DOMAIN context'[t] : context'[t][i] = context'[t][j] => i = j
  BY <1>2 DEF IInv, TypeOK, ContextHoldsAnswers
<1>3. ASSUME NEW t \in Threads, context'[t] = <<>>
      PROVE  Len(context'[t]) <= MaxTurns /\ DOMAIN context'[t] = {}
  BY <1>1, <1>3
<1> QED
  BY <1>2, <1>3 DEF ContextMove

LEMMA ContextStep == ASSUME IInv, Next PROVE ContextMove
<1>1. ASSUME UNCHANGED context PROVE ContextMove
  BY <1>1, ContextDropped DEF IInv, TypeOK
<1>2. ASSUME NEW h \in Handlers, FindDeliveryAgain(h) PROVE ContextMove
  <2>1. ASSUME NEW t \in Threads, NEW left \in Get(context[t]), context' = [context EXCEPT ![t] = left]
        PROVE  ContextMove
    <3>1. left = context[t] \/ left = <<>>
      BY DEF Get
    <3>2. context' \in [Threads -> Seq(Questions)]
            /\ \A s \in Threads : context'[s] = context[s] \/ context'[s] = <<>>
      <4>1. context \in [Threads -> Seq(Questions)] /\ left \in Seq(Questions)
        <5>1. <<>> \in Seq(Questions)
          OBVIOUS
        <5> QED
          BY <3>1, <5>1 DEF IInv, TypeOK
      <4> QED
        BY <2>1, <3>1, <4>1
    <3> QED
      BY <3>2, ContextDropped
  <2>2. ThreadOf[handler[h].message] \in Threads
    BY <1>2, IntakeAssumption DEF FindDeliveryAgain, At, IInv, LocksMatchWork, Locked
  <2> QED
    BY <1>1, <1>2, <2>1, <2>2 DEF FindDeliveryAgain
<1>3. ASSUME NEW h \in Handlers, RememberTurn(h) PROVE ContextMove
  <2>1. CASE handler[h].grounded
    <3> DEFINE q == handler[h].message
               t == ThreadOf[q]
    <3>1. TurnAdded(t, q)
      BY <1>3, <2>1, Remembered
    <3>2. handler[h].phase = "remembering"
      BY <1>3 DEF RememberTurn, At
    <3>3. RememberedNow(h, t, q)
      BY <1>3, <2>1, <3>2 DEF RememberedNow
    <3> HIDE DEF q, t
    <3>4. ASSUME NEW s \in Threads \ {t}
          PROVE  /\ Len(context'[s]) <= MaxTurns
                 /\ \A i \in DOMAIN context'[s] : \E j \in DOMAIN context[s] : context'[s][i] = context[s][j]
                 /\ \A i, j \in DOMAIN context'[s] : context'[s][i] = context'[s][j] => i = j
      BY <3>1 DEF IInv, TypeOK, ContextHoldsAnswers, TurnAdded
    <3>5. \A i \in DOMAIN context'[t] : \/ \E j \in DOMAIN context[t] : context'[t][i] = context[t][j]
                                        \/ \E g \in Handlers : RememberedNow(g, t, context'[t][i])
      BY <3>1, <3>3 DEF TurnAdded
    <3>6. ASSUME NEW s \in Threads
          PROVE  /\ Len(context'[s]) <= MaxTurns
                 /\ \A i \in DOMAIN context'[s] :
                      \/ \E j \in DOMAIN context[s] : context'[s][i] = context[s][j]
                      \/ \E g \in Handlers : RememberedNow(g, s, context'[s][i])
                 /\ \A i, j \in DOMAIN context'[s] : context'[s][i] = context'[s][j] => i = j
      <4>1. CASE s = t
        BY <3>1, <3>5, <4>1, Zenon DEF TurnAdded
      <4>2. CASE s # t
        BY <3>4, <4>2, Zenon
      <4> QED
        BY <4>1, <4>2
    <3> QED
      BY <3>1, <3>6, Zenon DEF ContextMove, TurnAdded
  <2>2. CASE ~handler[h].grounded
    BY <1>1, <1>3, <2>2 DEF RememberTurn, Remembers
  <2> QED
    BY <2>1, <2>2
<1>4. Restart => ContextMove
  <2>1. ASSUME Restart
        PROVE  /\ context' \in [Threads -> Seq(Questions)]
               /\ \A t \in Threads : context'[t] = <<>>
    BY <2>1 DEF Restart
  <2> QED
    BY <2>1, ContextDropped
<1> QED
  BY <1>1, <1>2, <1>3, <1>4 DEF Next, Proceed, OnMessage, ReserveQaSlot, Acknowledged,
     TestAcknowledged, AcknowledgementFails, CompleteAiTest, StartTask, CheckActive, FindDelivery,
     AcquireLock, Answer, QueueDelivery, QueueFails, FinishTask, Close, Unwind

\* Every step keeps the types.
LEMMA TypeStep == ASSUME IInv, Next PROVE TypeOK'
<1> USE DEF IInv
<1>1. handler' \in [Handlers -> Handler]
  <2>1. ASSUME NEW h \in Handlers, NEW m \in Questions \cup Tests, OnMessage(h, m)
        PROVE  handler' \in [Handlers -> Handler]
    BY <2>1, OnMessageStep
  <2>2. ASSUME NEW h \in Handlers, ReserveQaSlot(h) \/ Acknowledged(h) \/ TestAcknowledged(h) \/ AcknowledgementFails(h) \/ CompleteAiTest(h)
        PROVE  handler' \in [Handlers -> Handler]
    BY <2>2, GotoStep, LeaveStep DEF ReserveQaSlot, Acknowledged, TestAcknowledged,
       AcknowledgementFails, CompleteAiTest, Phase, Task
  <2>3. ASSUME NEW h \in Handlers, StartTask(h) \/ CheckActive(h) \/ FindDelivery(h) \/ AcquireLock(h) \/ FindDeliveryAgain(h)
        PROVE  handler' \in [Handlers -> Handler]
    BY <2>3, GotoStep, EndStep DEF StartTask, CheckActive, FindDelivery, AcquireLock,
       FindDeliveryAgain, Phase, Task, Started, Locked, Answering
  <2>4. ASSUME NEW h \in Handlers, Answer(h)
        PROVE  handler' \in [Handlers -> Handler]
    BY <2>4, AnswerStep
  <2>5. ASSUME NEW h \in Handlers, QueueDelivery(h) \/ RememberTurn(h) \/ QueueFails(h) \/ FinishTask(h) \/ Unwind(h)
        PROVE  handler' \in [Handlers -> Handler]
    BY <2>5, GotoStep, EndStep, LeaveStep DEF QueueDelivery, RememberTurn, QueueFails, FinishTask,
       Unwind, Phase, Task, Started, Locked, Answering
  <2>6. Restart => handler' \in [Handlers -> Handler]
    BY IdleRecord DEF Restart
  <2> QED
    BY <2>1, <2>2, <2>3, <2>4, <2>5, <2>6 DEF Next, Proceed, Close, TypeOK
<1>2. slots' \in 0..QaConcurrency
  BY SlotsStep
<1>3. cancelled' \subseteq Handlers
  BY DEF TypeOK, Next, Proceed, OnMessage, ReserveQaSlot, Acknowledged, TestAcknowledged,
     AcknowledgementFails, CompleteAiTest, StartTask, CheckActive, FindDelivery, AcquireLock,
     FindDeliveryAgain, Answer, QueueDelivery, RememberTurn, QueueFails, FinishTask, Close, Unwind, Restart
<1>4. lock' \in [Questions -> Handlers \cup {NoHandler}]
  <2>1. \A h \in Handlers : Released(h) \in [Questions -> Handlers \cup {NoHandler}]
    BY DEF TypeOK, Released
  <2> QED
    BY <2>1 DEF TypeOK, Next, Proceed, OnMessage, ReserveQaSlot, Acknowledged, TestAcknowledged,
       AcknowledgementFails, CompleteAiTest, StartTask, CheckActive, FindDelivery, AcquireLock,
       FindDeliveryAgain, Answer, QueueDelivery, RememberTurn, QueueFails, LockAfterFailure, FinishTask,
       Close, Unwind, Restart
<1>5. row' \in [Questions -> {"none", "refusal", "grounded"}]
  <2>1. \A h \in Handlers : Inserted(h) \in [Questions -> {"none", "refusal", "grounded"}]
    BY DEF TypeOK, Inserted
  <2> QED
    BY <2>1 DEF TypeOK, Next, Proceed, OnMessage, ReserveQaSlot, Acknowledged, TestAcknowledged,
       AcknowledgementFails, CompleteAiTest, StartTask, CheckActive, FindDelivery, AcquireLock,
       FindDeliveryAgain, Answer, QueueDelivery, RememberTurn, QueueFails, FinishTask,
       Close, Unwind, Restart
<1>6. context' \in [Threads -> Seq(Questions)] /\ \A t \in Threads : Len(context'[t]) <= MaxTurns
  BY ContextStep DEF ContextMove
<1>7. closed' \in BOOLEAN
  BY ZenonT(60) DEF TypeOK, Next, Proceed, OnMessage, ReserveQaSlot, Acknowledged, TestAcknowledged,
     AcknowledgementFails, CompleteAiTest, StartTask, CheckActive, FindDelivery, AcquireLock,
     FindDeliveryAgain, Answer, QueueDelivery, RememberTurn, QueueFails, FinishTask, Close, Unwind, Restart
<1> QED
  BY <1>1, <1>2, <1>3, <1>4, <1>5, <1>6, <1>7 DEF TypeOK

----------------------------------------------------------------------------
(***************************************************************************)
(* Cancellation and locks.                                                 *)
(***************************************************************************)

\* A step that cancels nothing and starts no task of a closed adapter.
CancelMove(h) ==
  /\ OthersKept(h, handler')
  /\ closed' = closed
  /\ \/ /\ cancelled' = cancelled /\ h \notin cancelled
        /\ handler'[h].phase \in Task => handler[h].phase \in Task \/ ~closed
     \/ cancelled' = cancelled \ {h} /\ handler'[h].phase \notin Task

LEMMA CancelFollows ==
  ASSUME IInv, NEW h \in Handlers, CancelMove(h)
  PROVE  CancelledTasks' /\ ClosedTasksAreCancelled'
<1> USE DEF IInv, TypeOK, CancelMove, OthersKept, CancelledTasks, ClosedTasksAreCancelled
<1> HIDE DEF Task
<1>1. CASE cancelled' = cancelled /\ h \notin cancelled
  BY <1>1
<1>2. CASE cancelled' = cancelled \ {h} /\ handler'[h].phase \notin Task
  BY <1>2
<1> QED
  BY <1>1, <1>2

LEMMA CancelStep == ASSUME IInv, Next PROVE CancelledTasks' /\ ClosedTasksAreCancelled'
<1> USE DEF Started, Locked, Answering, Task, Phase, At
<1>t. TypeOK
  BY DEF IInv
<1>1. ASSUME NEW h \in Handlers, NEW m \in Questions \cup Tests, OnMessage(h, m) PROVE CancelMove(h)
  BY <1>t, <1>1, OnMessageStep DEF OnMessage, CancelMove, IInv, CancelledTasks
<1>2. ASSUME NEW h \in Handlers, ReserveQaSlot(h) PROVE CancelMove(h)
  BY <1>t, <1>2, GotoStep, LeaveStep DEF ReserveQaSlot, CancelMove
<1>3. ASSUME NEW h \in Handlers, Acknowledged(h) \/ TestAcknowledged(h) PROVE CancelMove(h)
  BY <1>t, <1>3, GotoStep, LeaveStep DEF Acknowledged, TestAcknowledged, HandsOver, CancelMove
<1>4. ASSUME NEW h \in Handlers, AcknowledgementFails(h) \/ CompleteAiTest(h) \/ FinishTask(h)
      PROVE  CancelMove(h)
  BY <1>t, <1>4, LeaveStep DEF AcknowledgementFails, CompleteAiTest, FinishTask, CancelMove
<1>5. ASSUME NEW h \in Handlers, StartTask(h) \/ CheckActive(h) \/ FindDelivery(h) PROVE CancelMove(h)
  BY <1>t, <1>5, GotoStep, EndStep DEF StartTask, CheckActive, FindDelivery, CancelMove
<1>6. ASSUME NEW h \in Handlers, AcquireLock(h) \/ FindDeliveryAgain(h) PROVE CancelMove(h)
  BY <1>t, <1>6, GotoStep, EndStep DEF AcquireLock, FindDeliveryAgain, CancelMove
<1>7. ASSUME NEW h \in Handlers, Answer(h) PROVE CancelMove(h)
  BY <1>t, <1>7, AnswerStep DEF Answer, CancelMove
<1>8. ASSUME NEW h \in Handlers, QueueDelivery(h) \/ RememberTurn(h) \/ QueueFails(h)
      PROVE  CancelMove(h)
  BY <1>t, <1>8, GotoStep, EndStep DEF QueueDelivery, RememberTurn, QueueFails, CancelMove
<1>9. ASSUME NEW h \in Handlers, Unwind(h) PROVE CancelMove(h)
  BY <1>t, <1>9, LeaveStep DEF Unwind, CancelMove
<1>10. Close => CancelledTasks' /\ ClosedTasksAreCancelled'
  BY <1>t DEF Close, CancelledTasks, ClosedTasksAreCancelled
<1>11. Restart => CancelledTasks' /\ ClosedTasksAreCancelled'
  BY DEF Restart, CancelledTasks, ClosedTasksAreCancelled
<1> QED
  BY <1>1, <1>2, <1>3, <1>4, <1>5, <1>6, <1>7, <1>8, <1>9, <1>10, <1>11, CancelFollows
     DEF Next, Proceed

\* A step that keeps its lock and its message, takes the lock, or lets go of it.
LockMove(h) ==
  /\ OthersKept(h, handler')
  /\ \/ /\ lock' = lock
        /\ handler'[h].phase \in Locked <=> handler[h].phase \in Locked
        /\ handler[h].phase \in Locked => handler'[h].message = handler[h].message
     \/ /\ handler[h].message \in Questions
        /\ handler[h].phase \notin Locked
        /\ lock[handler[h].message] = NoHandler
        /\ lock' = [lock EXCEPT ![handler[h].message] = h]
        /\ handler'[h].phase \in Locked /\ handler'[h].message = handler[h].message
     \/ lock' = Released(h) /\ handler'[h].phase \notin Locked

LEMMA LockFollows == ASSUME IInv, NEW h \in Handlers, LockMove(h) PROVE LocksMatchWork'
<1> USE IntakeAssumption DEF IInv, TypeOK, OthersKept, LocksMatchWork
<1>1. CASE /\ lock' = lock
           /\ handler'[h].phase \in Locked <=> handler[h].phase \in Locked
           /\ handler[h].phase \in Locked => handler'[h].message = handler[h].message
  BY <1>1 DEF LockMove
<1>2. CASE /\ handler[h].message \in Questions
           /\ handler[h].phase \notin Locked
           /\ lock[handler[h].message] = NoHandler
           /\ lock' = [lock EXCEPT ![handler[h].message] = h]
           /\ handler'[h].phase \in Locked /\ handler'[h].message = handler[h].message
  <2> DEFINE m == handler[h].message
  <2> HIDE DEF Locked
  <2>1. \A g \in Handlers : handler[g].phase \in Locked => handler[g].message # m
    BY <1>2
  <2>2. lock'[m] = h /\ \A q \in Questions \ {m} : lock'[q] = lock[q]
    BY <1>2
  <2>3. ASSUME NEW g \in Handlers, handler'[g].phase \in Locked
        PROVE  handler'[g].message \in Questions /\ lock'[handler'[g].message] = g
    <3>1. CASE g = h
      BY <1>2, <2>2, <3>1
    <3>2. CASE g # h
      BY <2>1, <2>2, <2>3, <3>2 DEF LockMove
    <3> QED
      BY <3>1, <3>2
  <2>4. ASSUME NEW q \in Questions, lock'[q] \in Handlers
        PROVE  handler'[lock'[q]].phase \in Locked /\ handler'[lock'[q]].message = q
    <3>1. CASE q = m
      BY <1>2, <2>2, <3>1
    <3>2. CASE q # m
      <4>1. lock'[q] = lock[q]
        BY <2>2, <3>2
      <4>2. handler[lock[q]].phase \in Locked /\ handler[lock[q]].message = q /\ lock[q] # h
        BY <1>2, <2>4, <4>1
      <4> QED
        BY <2>4, <4>1, <4>2 DEF LockMove
    <3> QED
      BY <3>1, <3>2
  <2> QED
    BY <2>3, <2>4
<1>3. CASE lock' = Released(h) /\ handler'[h].phase \notin Locked
  BY <1>3 DEF LockMove, Released
<1> QED
  BY <1>1, <1>2, <1>3 DEF LockMove

LEMMA LockStep == ASSUME IInv, Next PROVE LocksMatchWork'
<1> USE DEF Slotted, Started, Locked, Answering, Task, Phase, At
<1>t. TypeOK
  BY DEF IInv
<1>1. ASSUME NEW h \in Handlers, NEW m \in Questions \cup Tests, OnMessage(h, m) PROVE LockMove(h)
  BY <1>t, <1>1, OnMessageStep DEF OnMessage, LockMove
<1>2. ASSUME NEW h \in Handlers, ReserveQaSlot(h) \/ Acknowledged(h) \/ TestAcknowledged(h) PROVE LockMove(h)
  <2>1. CASE ReserveQaSlot(h)
    BY <1>t, <2>1, GotoStep, LeaveStep DEF ReserveQaSlot, LockMove
  <2>2. CASE Acknowledged(h)
    BY <1>t, <2>2, GotoStep, LeaveStep DEF Acknowledged, LockMove
  <2>3. CASE TestAcknowledged(h)
    BY <1>t, <2>3, GotoStep, LeaveStep DEF TestAcknowledged, LockMove
  <2> QED
    BY <1>2, <2>1, <2>2, <2>3
<1>3. ASSUME NEW h \in Handlers, AcknowledgementFails(h) \/ CompleteAiTest(h) \/ FinishTask(h)
      PROVE  LockMove(h)
  BY <1>t, <1>3, LeaveStep DEF AcknowledgementFails, CompleteAiTest, FinishTask, LockMove
<1>4. ASSUME NEW h \in Handlers, StartTask(h) \/ CheckActive(h) \/ FindDelivery(h) PROVE LockMove(h)
  <2>1. CASE StartTask(h)
    BY <1>t, <2>1, GotoStep, EndStep DEF StartTask, LockMove
  <2>2. CASE CheckActive(h)
    BY <1>t, <2>2, GotoStep, EndStep DEF CheckActive, LockMove
  <2>3. CASE FindDelivery(h)
    BY <1>t, <2>3, GotoStep, EndStep DEF FindDelivery, LockMove
  <2> QED
    BY <1>4, <2>1, <2>2, <2>3
<1>5. ASSUME NEW h \in Handlers, AcquireLock(h) PROVE LockMove(h)
  BY <1>t, <1>5, GotoStep DEF AcquireLock, LockMove, IInv, AskedQuestions, Asking
<1>6. ASSUME NEW h \in Handlers, FindDeliveryAgain(h) PROVE LockMove(h)
  BY <1>t, <1>6, GotoStep, EndStep DEF FindDeliveryAgain, LockMove
<1>7. ASSUME NEW h \in Handlers, Answer(h) PROVE LockMove(h)
  BY <1>t, <1>7, AnswerStep DEF Answer, LockMove
<1>8. ASSUME NEW h \in Handlers, QueueDelivery(h) \/ RememberTurn(h) \/ QueueFails(h)
      PROVE  LockMove(h)
  BY <1>t, <1>8, GotoStep, EndStep DEF QueueDelivery, RememberTurn, QueueFails, LockAfterFailure, LockMove
<1>9. ASSUME NEW h \in Handlers, Unwind(h) PROVE LockMove(h)
  BY <1>t, <1>9, LeaveStep DEF Unwind, LockMove
<1>10. Close => LocksMatchWork'
  BY DEF Close, IInv, LocksMatchWork
<1>11. Restart => LocksMatchWork'
  <2> SUFFICES ASSUME Restart PROVE LocksMatchWork'
    OBVIOUS
  <2>1. \A h \in Handlers : handler'[h].phase = "idle"
    BY IdleRecord DEF Restart
  <2> QED
    BY <2>1, IntakeAssumption DEF Restart, LocksMatchWork
<1> QED
  BY <1>1, <1>2, <1>3, <1>4, <1>5, <1>6, <1>7, <1>8, <1>9, <1>10, <1>11, LockFollows
     DEF Next, Proceed

\* A step that leaves the others alone, and asks about questions.
AskedMove(h) ==
  /\ OthersKept(h, handler')
  /\ handler'[h].phase \in Asking => handler'[h].message \in Questions

LEMMA AskedFollows == ASSUME IInv, NEW h \in Handlers, AskedMove(h) PROVE AskedQuestions'
BY DEF IInv, AskedMove, AskedQuestions, OthersKept

LEMMA AskedStep == ASSUME IInv, Next PROVE AskedQuestions'
<1> USE DEF Asking, Slotted, Started, Locked, Answering, Task, Phase, At
<1>t. TypeOK /\ AskedQuestions
  BY DEF IInv
<1>1. ASSUME NEW h \in Handlers, NEW m \in Questions \cup Tests, OnMessage(h, m) PROVE AskedMove(h)
  BY <1>t, <1>1, OnMessageStep DEF AskedMove
<1>2. ASSUME NEW h \in Handlers, ReserveQaSlot(h) \/ Acknowledged(h) \/ TestAcknowledged(h)
      PROVE  AskedMove(h)
  <2>1. CASE ReserveQaSlot(h)
    <3>1. handler[h].message \in Questions
      BY <1>t, <2>1 DEF ReserveQaSlot, AskedQuestions
    <3> QED
      BY <1>t, <2>1, <3>1, GotoStep, LeaveStep DEF ReserveQaSlot, AskedMove
  <2>2. CASE Acknowledged(h)
    <3>1. handler[h].message \in Questions
      BY <1>t, <2>2 DEF Acknowledged, AskedQuestions
    <3> QED
      BY <1>t, <2>2, <3>1, GotoStep, LeaveStep DEF Acknowledged, AskedMove
  <2>3. CASE TestAcknowledged(h)
    BY <1>t, <2>3, GotoStep, LeaveStep DEF TestAcknowledged, AskedMove
  <2> QED
    BY <1>2, <2>1, <2>2, <2>3
<1>3. ASSUME NEW h \in Handlers, AcknowledgementFails(h) \/ CompleteAiTest(h) \/ FinishTask(h) \/ Unwind(h)
      PROVE  AskedMove(h)
  BY <1>t, <1>3, LeaveStep DEF AcknowledgementFails, CompleteAiTest, FinishTask, Unwind, AskedQuestions, AskedMove
<1>4. ASSUME NEW h \in Handlers, StartTask(h) \/ CheckActive(h) \/ FindDelivery(h) PROVE AskedMove(h)
  <2>1. CASE StartTask(h)
    <3>1. handler[h].message \in Questions
      BY <1>t, <2>1 DEF StartTask, AskedQuestions
    <3> QED
      BY <1>t, <2>1, <3>1, GotoStep, EndStep DEF StartTask, AskedMove
  <2>2. CASE CheckActive(h)
    <3>1. handler[h].message \in Questions
      BY <1>t, <2>2 DEF CheckActive, AskedQuestions
    <3> QED
      BY <1>t, <2>2, <3>1, GotoStep, EndStep DEF CheckActive, AskedMove
  <2>3. CASE FindDelivery(h)
    <3>1. handler[h].message \in Questions
      BY <1>t, <2>3 DEF FindDelivery, AskedQuestions
    <3> QED
      BY <1>t, <2>3, <3>1, GotoStep, EndStep DEF FindDelivery, AskedMove
  <2> QED
    BY <1>4, <2>1, <2>2, <2>3
<1>5. ASSUME NEW h \in Handlers, AcquireLock(h) \/ FindDeliveryAgain(h) PROVE AskedMove(h)
  BY <1>t, <1>5, GotoStep, EndStep DEF AcquireLock, FindDeliveryAgain, AskedQuestions, AskedMove
<1>6. ASSUME NEW h \in Handlers, Answer(h) PROVE AskedMove(h)
  BY <1>t, <1>6, AnswerStep DEF Answer, AskedQuestions, AskedMove
<1>7. ASSUME NEW h \in Handlers, QueueDelivery(h) \/ RememberTurn(h) \/ QueueFails(h)
      PROVE  AskedMove(h)
  BY <1>t, <1>7, GotoStep, EndStep DEF QueueDelivery, RememberTurn, QueueFails, AskedQuestions, AskedMove
<1>8. Close => AskedQuestions'
  BY <1>t DEF Close, AskedQuestions
<1>9. Restart => AskedQuestions'
  BY IdleRecord DEF Restart, AskedQuestions
<1> QED
  BY <1>1, <1>2, <1>3, <1>4, <1>5, <1>6, <1>7, <1>8, <1>9, AskedFollows DEF Next, Proceed

----------------------------------------------------------------------------
(***************************************************************************)
(* Answers and contexts.                                                   *)
(***************************************************************************)

\* How a handler comes to be answering, and goes on.
AnsweringMove(g) ==
  \/ handler'[g] = handler[g]
  \/ handler'[g].phase \notin Answering
  \/ /\ FindDeliveryAgain(g) /\ UNCHANGED row
     /\ handler'[g].phase = "answering" /\ handler'[g].message = handler[g].message
     /\ row[handler[g].message] = "none"
  \/ /\ Answer(g) /\ UNCHANGED row
     /\ handler[g].phase = "answering"
     /\ handler'[g].phase = "storing" /\ handler'[g].message = handler[g].message
  \/ /\ QueueDelivery(g) /\ row' = Inserted(g)
     /\ handler[g].phase = "storing"
     /\ handler'[g].phase = "remembering" /\ handler'[g].message = handler[g].message
     /\ handler'[g].grounded = handler[g].grounded

LEMMA AnsweringStep == ASSUME IInv, Next, NEW g \in Handlers PROVE AnsweringMove(g)
<1> USE DEF Slotted, Started, Locked, Answering, Task, Phase, At
<1>t. TypeOK
  BY DEF IInv
<1>0. ASSUME NEW h \in Handlers, OthersKept(h, handler'), AnsweringMove(h) PROVE AnsweringMove(g)
  BY <1>0 DEF AnsweringMove, OthersKept
<1> DEFINE Good(h) == OthersKept(h, handler') /\ AnsweringMove(h)
<1>1. ASSUME NEW h \in Handlers, NEW m \in Questions \cup Tests, OnMessage(h, m) PROVE Good(h)
  BY <1>t, <1>1, OnMessageStep DEF AnsweringMove
<1>2. ASSUME NEW h \in Handlers, ReserveQaSlot(h) \/ Acknowledged(h) \/ TestAcknowledged(h) PROVE Good(h)
  <2>1. CASE ReserveQaSlot(h)
    BY <1>t, <2>1, GotoStep, LeaveStep DEF ReserveQaSlot, AnsweringMove
  <2>2. CASE Acknowledged(h)
    BY <1>t, <2>2, GotoStep, LeaveStep DEF Acknowledged, AnsweringMove
  <2>3. CASE TestAcknowledged(h)
    BY <1>t, <2>3, GotoStep, LeaveStep DEF TestAcknowledged, AnsweringMove
  <2> QED
    BY <1>2, <2>1, <2>2, <2>3
<1>3. ASSUME NEW h \in Handlers, AcknowledgementFails(h) \/ CompleteAiTest(h) \/ FinishTask(h) \/ Unwind(h)
      PROVE  Good(h)
  BY <1>t, <1>3, LeaveStep DEF AcknowledgementFails, CompleteAiTest, FinishTask, Unwind, AnsweringMove
<1>4. ASSUME NEW h \in Handlers, StartTask(h) \/ CheckActive(h) \/ FindDelivery(h) PROVE Good(h)
  <2>1. CASE StartTask(h)
    BY <1>t, <2>1, GotoStep, EndStep DEF StartTask, AnsweringMove
  <2>2. CASE CheckActive(h)
    BY <1>t, <2>2, GotoStep, EndStep DEF CheckActive, AnsweringMove
  <2>3. CASE FindDelivery(h)
    BY <1>t, <2>3, GotoStep, EndStep DEF FindDelivery, AnsweringMove
  <2> QED
    BY <1>4, <2>1, <2>2, <2>3
<1>5. ASSUME NEW h \in Handlers, AcquireLock(h) PROVE Good(h)
  BY <1>t, <1>5, GotoStep DEF AcquireLock, AnsweringMove
<1>6. ASSUME NEW h \in Handlers, FindDeliveryAgain(h) PROVE Good(h)
  BY <1>t, <1>6, GotoStep, EndStep DEF FindDeliveryAgain, IsNew, AnsweringMove
<1>7. ASSUME NEW h \in Handlers, Answer(h) PROVE Good(h)
  BY <1>t, <1>7, AnswerStep DEF Answer, AnsweringMove
<1>8. ASSUME NEW h \in Handlers, QueueDelivery(h) PROVE Good(h)
  BY <1>t, <1>8, GotoStep DEF QueueDelivery, AnsweringMove
<1>9. ASSUME NEW h \in Handlers, RememberTurn(h) \/ QueueFails(h) PROVE Good(h)
  BY <1>t, <1>9, EndStep DEF RememberTurn, QueueFails, AnsweringMove
<1>10. Close => AnsweringMove(g)
  BY DEF Close, AnsweringMove
<1>11. Restart => AnsweringMove(g)
  BY IdleRecord DEF Restart, AnsweringMove
<1> HIDE DEF Slotted, Started, Locked, Answering, Task, Phase, At
<1> QED
  BY <1>0, <1>1, <1>2, <1>3, <1>4, <1>5, <1>6, <1>7, <1>8, <1>9, <1>10, <1>11 DEF Next, Proceed

\* A row appears, once, for the question that is being stored.
RowMove(q) ==
  \/ row'[q] = row[q]
  \/ /\ row[q] = "none"
     /\ \E h \in Handlers : /\ handler[h].phase = "storing" /\ handler[h].message = q
                            /\ QueueDelivery(h) \/ handler'[h].phase = "idle"

LEMMA RowStep == ASSUME IInv, Next, NEW q \in Questions PROVE RowMove(q)
<1>1. ASSUME NEW h \in Handlers, QueueDelivery(h) PROVE RowMove(q)
  BY <1>1 DEF QueueDelivery, Inserted, At, RowMove, IInv, TypeOK
<1>2. ASSUME NEW h \in Handlers, Unwind(h) PROVE RowMove(q)
  <2>1. handler'[h].phase = "idle"
    BY <1>2, LeaveStep DEF Unwind, IInv
  <2> QED
    BY <1>2, <2>1 DEF Unwind, Inserted, RowMove, IInv, TypeOK
<1>3. UNCHANGED row => RowMove(q)
  BY DEF RowMove
<1> QED
  BY <1>1, <1>2, <1>3 DEF Next, Proceed, OnMessage, ReserveQaSlot, Acknowledged, TestAcknowledged,
     AcknowledgementFails, CompleteAiTest, StartTask, CheckActive, FindDelivery, AcquireLock,
     FindDeliveryAgain, Answer, RememberTurn, QueueFails, FinishTask, Close, Restart

\* Two handlers past the lock are at work on two questions.
LEMMA OneHolder ==
  ASSUME IInv, NEW g \in Handlers, NEW h \in Handlers, handler[g].phase \in Locked,
         handler[h].phase \in Locked, handler[g].message = handler[h].message
  PROVE  g = h
BY DEF IInv, LocksMatchWork

LEMMA UnansweredStep == ASSUME IInv, Next PROVE Unanswered'
<1> SUFFICES ASSUME NEW g \in Handlers, handler'[g].phase \in {"answering", "storing"}
             PROVE  row'[handler'[g].message] = "none"
  BY DEF Unanswered
<1>1. CASE handler'[g] = handler[g]
  <2> DEFINE q == handler[g].message
  <2>1. q \in Questions /\ row[q] = "none" /\ handler[g].phase \in Locked
    BY <1>1 DEF IInv, Unanswered, LocksMatchWork, Locked, Answering
  <2>2. ASSUME row'[q] # row[q] PROVE FALSE
    <3>1. PICK h \in Handlers : /\ handler[h].phase = "storing" /\ handler[h].message = q
                                /\ QueueDelivery(h) \/ handler'[h].phase = "idle"
      <4>1. RowMove(q)
        BY <2>1, RowStep
      <4> HIDE DEF q
      <4> QED
        BY <2>2, <4>1 DEF RowMove
    <3>2. h = g
      BY <2>1, <3>1, OneHolder DEF Locked, Answering
    <3>3. QueueDelivery(g) => handler'[g].phase = "remembering"
      BY GotoStep DEF QueueDelivery, IInv, Phase, Task, Started, Locked, Answering
    <3> QED
      BY <3>1, <3>2, <3>3
  <2> QED
    BY <1>1, <2>1, <2>2
<1>2. CASE FindDeliveryAgain(g) /\ UNCHANGED row /\ handler'[g].message = handler[g].message
             /\ row[handler[g].message] = "none"
  BY <1>2
<1>3. CASE Answer(g) /\ UNCHANGED row /\ handler[g].phase = "answering"
             /\ handler'[g].message = handler[g].message
  BY <1>3 DEF IInv, Unanswered
<1> QED
  BY <1>1, <1>2, <1>3, AnsweringStep DEF AnsweringMove, Answering

LEMMA ToRememberStep == ASSUME IInv, Next PROVE ToRemember'
<1> SUFFICES ASSUME NEW g \in Handlers, handler'[g].phase = "remembering", handler'[g].grounded
             PROVE  /\ row'[handler'[g].message] = "grounded"
                    /\ Absent(handler'[g].message, context'[ThreadOf[handler'[g].message]])
  BY DEF ToRemember, Absent
<1> DEFINE q == handler[g].message
           t == ThreadOf[q]
<1>1. handler[g].phase \in {"remembering", "storing"} /\ handler[g].grounded /\ handler'[g].message = q
  BY AnsweringStep DEF AnsweringMove, Answering
<1>2. q \in Questions /\ t \in Threads
  BY <1>1, IntakeAssumption DEF IInv, LocksMatchWork, Locked, Answering
<1>3. Absent(q, context[t])
  <2>1. CASE handler[g].phase = "remembering"
    BY <1>1, <2>1 DEF IInv, ToRemember
  <2>2. CASE handler[g].phase = "storing"
    <3>1. row[q] = "none"
      BY <2>2 DEF IInv, Unanswered
    <3> QED
      BY <1>2, <3>1 DEF Absent, IInv, ContextHoldsAnswers
  <2> QED
    BY <1>1, <2>1, <2>2
<1>4. ASSUME NEW i \in DOMAIN context'[t], context'[t][i] = q PROVE FALSE
  <2>1. PICK h \in Handlers : RememberedNow(h, t, context'[t][i])
    BY <1>2, <1>3, <1>4, ContextStep DEF ContextMove, Absent
  <2>2. handler[h].phase = "remembering" /\ handler[h].message = q /\ RememberTurn(h)
    BY <1>4, <2>1 DEF RememberedNow
  <2>3. h = g
    BY <1>1, <2>2, OneHolder DEF Locked, Answering
  <2>4. handler'[h].phase = "ending"
    BY <2>2, EndStep DEF RememberTurn, IInv
  <2> QED
    BY <2>3, <2>4
<1>5. row'[q] = "grounded"
  <2>1. CASE handler[g].phase = "remembering"
    <3>1. row[q] = "grounded"
      BY <1>1, <2>1 DEF IInv, ToRemember
    <3> QED
      BY <1>2, <3>1, RowStep DEF RowMove
  <2>2. CASE handler[g].phase = "storing"
    <3>1. row' = Inserted(g)
      BY <2>2, AnsweringStep DEF AnsweringMove, Answering
    <3> QED
      BY <1>1, <1>2, <2>2, <3>1 DEF Inserted, IInv, Unanswered, TypeOK
  <2> QED
    BY <1>1, <2>1, <2>2
<1> QED
  BY <1>1, <1>4, <1>5 DEF Absent

LEMMA ContextHoldsStep == ASSUME IInv, Next PROVE ContextHoldsAnswers'
<1>1. ASSUME NEW t \in Threads, NEW i \in DOMAIN context'[t]
      PROVE  row'[context'[t][i]] = "grounded" /\ ThreadOf[context'[t][i]] = t
  <2>1. ASSUME NEW q \in Questions, row[q] = "grounded" PROVE row'[q] = "grounded"
    BY <2>1, RowStep DEF RowMove
  <2>2. CASE \E j \in DOMAIN context[t] : context'[t][i] = context[t][j]
    <3>1. PICK j \in DOMAIN context[t] : context'[t][i] = context[t][j]
      BY <2>2
    <3>2. context[t][j] \in Questions
      BY <3>1 DEF IInv, TypeOK
    <3> QED
      BY <2>1, <3>1, <3>2 DEF IInv, ContextHoldsAnswers
  <2>3. CASE \E h \in Handlers : RememberedNow(h, t, context'[t][i])
    <3>1. PICK h \in Handlers : RememberedNow(h, t, context'[t][i])
      BY <2>3
    <3> DEFINE q == handler[h].message
    <3>2. context'[t][i] = q /\ t = ThreadOf[q] /\ handler[h].phase = "remembering" /\ handler[h].grounded
      BY <3>1 DEF RememberedNow
    <3>3. q \in Questions /\ row[q] = "grounded"
      BY <3>2 DEF IInv, LocksMatchWork, ToRemember, Locked, Answering
    <3> QED
      BY <2>1, <3>2, <3>3
  <2> QED
    BY <2>2, <2>3, ContextStep DEF ContextMove
<1>2. \A t \in Threads : \A i, j \in DOMAIN context'[t] : context'[t][i] = context'[t][j] => i = j
  BY ContextStep DEF ContextMove
<1> QED
  BY <1>1, <1>2, Zenon DEF ContextHoldsAnswers

----------------------------------------------------------------------------
(***************************************************************************)
(* The invariant and the theorems.                                         *)
(***************************************************************************)
LEMMA NextIInv == IInv /\ [Next]_vars => IInv'
<1> SUFFICES ASSUME IInv, [Next]_vars PROVE IInv'
  OBVIOUS
<1>1. CASE Next
  BY <1>1, TypeStep, SlotsStep, CancelStep, LockStep, AskedStep, UnansweredStep, ToRememberStep,
     ContextHoldsStep DEF IInv
<1>2. CASE UNCHANGED vars
  BY <1>2 DEF vars, IInv, TypeOK, SlotsMatchWork, Busy, CancelledTasks, ClosedTasksAreCancelled,
     LocksMatchWork, AskedQuestions, Unanswered, ToRemember, Absent, ContextHoldsAnswers
<1> QED
  BY <1>1, <1>2

THEOREM Invariance == Spec => []IInv
BY InitIInv, NextIInv, PTL DEF Spec

\* The state of the adapter and of QaService has its type.
THEOREM TypeCorrect == Spec => []TypeOK
<1>1. IInv => TypeOK
  BY DEF IInv
<1> QED
  BY <1>1, Invariance, PTL

\* No path through the handler returns a slot twice, and none of an open adapter leaks one.
THEOREM SlotsAreCounted == Spec => []SlotsMatchWork
<1>1. IInv => SlotsMatchWork
  BY DEF IInv
<1> QED
  BY <1>1, Invariance, PTL

\* A closed adapter runs nothing but tasks that are being cancelled.
THEOREM NoTaskOutlivesClose == Spec => []ClosedTasksAreCancelled
<1>1. IInv => ClosedTasksAreCancelled
  BY DEF IInv
<1> QED
  BY <1>1, Invariance, PTL

\* However often it is delivered, a question is asked of the model by one handler at a
\* time, and only while it has no answer.
THEOREM QuestionsAnsweredOnce == Spec => []AnsweredOnce
<1>1. ASSUME IInv PROVE AnsweredOnce
  <2> SUFFICES ASSUME NEW g \in Handlers, NEW h \in Handlers, handler[h].phase \in {"answering", "storing"}
               PROVE  /\ row[handler[h].message] = "none"
                      /\ g # h /\ handler[g].phase \in Answering => handler[g].message # handler[h].message
    BY DEF AnsweredOnce
  <2>1. row[handler[h].message] = "none"
    BY <1>1 DEF IInv, Unanswered
  <2> QED
    BY <1>1, <2>1, OneHolder DEF Locked, Answering
<1> QED
  BY <1>1, Invariance, PTL

\* A thread remembers the turns whose grounded answer was queued, and each once.
THEOREM ContextsHoldAnswers == Spec => []ContextHoldsAnswers
<1>1. IInv => ContextHoldsAnswers
  BY DEF IInv
<1> QED
  BY <1>1, Invariance, PTL

=============================================================================
