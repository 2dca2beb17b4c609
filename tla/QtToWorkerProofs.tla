--------------------------- MODULE QtToWorkerProofs ---------------------------
(***************************************************************************)
(* Proofs about what Qt sends to the worker.                               *)
(*                                                                         *)
(* WorkerMailbox: for every capacity and number of actions, the queue to   *)
(* the worker keeps its bound and its last slot for ShutdownRequest, and   *)
(* quitting loses nothing that was admitted.                               *)
(*                                                                         *)
(* ServerRequests: for every set of requests, however they share ids, what *)
(* the user is offered is what the server waits for, what he wrote is      *)
(* kept, and an answer leaves for the request it was written for, once.    *)
(***************************************************************************)
EXTENDS WorkerMailbox, ServerRequests, TLAPS

-----------------------------------------------------------------------------
\* The mailbox

(* Types; Qt's count of the queue is never too small, and it leaves a slot *)
(* for ShutdownRequest until it has sent it.                               *)
MailboxTypes ==
  /\ qtToWorker \in Seq(Nat)
  /\ sizeSeen \in Nat
  /\ Len(qtToWorker) <= sizeSeen /\ sizeSeen <= Capacity
  /\ sessionAt \in {"open", "stopping"} => sizeSeen <= Capacity - 1
  /\ wakeSignaled \in BOOLEAN
  /\ sessionAt \in {"open", "stopping", "joining", "closed"}
  /\ admitted \in 0 .. MaxActions
  /\ receiverAt \in {"idle", "consuming"}
  /\ drainScheduled \in BOOLEAN /\ closing \in BOOLEAN
  /\ stopRequested \in BOOLEAN /\ workerFinished \in BOOLEAN
  /\ handled \in Seq(Nat)
  /\ shutdownHandled \in BOOLEAN

(* A receiver that is closed handles nothing any more, the worker finishes *)
(* only behind a closed one, and the request comes after the last action.  *)
ClosedInv ==
  /\ receiverAt = "consuming" => ~closing
  /\ workerFinished => closing
  /\ shutdownHandled => sessionAt \in {"joining", "closed"}

(* ShutdownRequest is in the queue, unless the receiver closed first.      *)
ShutdownWaits == sessionAt \in {"joining", "closed"} /\ ~shutdownHandled

(* As long as the receiver is open, the actions handled and those in the   *)
(* queue are all that were admitted, in order, and ShutdownRequest is the  *)
(* last entry.                                                             *)
OrderInv ==
  ~closing =>
    /\ \A i \in 1 .. Len(handled) : handled[i] = i
    /\ \A i \in 1 .. Len(qtToWorker) :
         qtToWorker[i] = IF ShutdownWaits /\ i = Len(qtToWorker)
                           THEN ShutdownRequest ELSE Len(handled) + i
    /\ Len(handled) + Len(qtToWorker) = IF ShutdownWaits THEN admitted + 1 ELSE admitted
    /\ ShutdownWaits => Len(qtToWorker) > 0

MailboxInv == MailboxTypes /\ ClosedInv /\ OrderInv /\ NothingLostByShutdown

----------------------------------------------------------------------------
(* A step of one of the actions, each named.                               *)
LEMMA StepCases ==
  ASSUME [Next]_vars
  PROVE  \/ SendAction \/ BeginShutdown \/ SendShutdown \/ SkipShutdown \/ Join
         \/ ReadEvent \/ ReadEventFails \/ ReadTimeout \/ NextTick
         \/ ConsumeNothing \/ ConsumeAction \/ ConsumeThrows \/ ConsumeShutdown
         \/ RuntimeFails \/ ShutdownEvent \/ FinishWorker
         \/ UNCHANGED vars
  BY DEF Next, QtStep, ShutdownStep, WorkerStep, ConsumeStep, ConsumeMessage, StopStep, Ended

(* What a push and a pop do to a queue of numbers.                         *)
LEMMA AppendFacts ==
  ASSUME NEW s \in Seq(Nat), NEW e \in Nat
  PROVE  /\ Append(s, e) \in Seq(Nat)
         /\ Len(Append(s, e)) = Len(s) + 1
         /\ \A i \in 1 .. Len(s) : Append(s, e)[i] = s[i]
         /\ Append(s, e)[Len(s) + 1] = e
         /\ Len(s) \in Nat
  OBVIOUS

\* A queue without its first member.
LEMMA TailFacts ==
  ASSUME NEW s \in Seq(Nat), s # <<>>
  PROVE  /\ Tail(s) \in Seq(Nat)
         /\ Len(s) \in Nat \ {0}
         /\ Len(Tail(s)) = Len(s) - 1
         /\ \A i \in 1 .. Len(s) - 1 : Tail(s)[i] = s[i + 1]
         /\ Head(s) = s[1] /\ Head(s) \in Nat
  OBVIOUS

(* The queue is empty and nothing has been admitted.                       *)
LEMMA MailboxInit == Init => MailboxInv
<1> SUFFICES ASSUME Init PROVE MailboxInv
  OBVIOUS
<1>1. /\ qtToWorker = <<>> /\ handled = <<>>
      /\ qtToWorker \in Seq(Nat) /\ Len(qtToWorker) = 0
      /\ handled \in Seq(Nat) /\ Len(handled) = 0
  BY DEF Init
<1>2. MailboxTypes
  <2>1. /\ wakeSignaled \in BOOLEAN /\ drainScheduled \in BOOLEAN /\ closing \in BOOLEAN
        /\ stopRequested \in BOOLEAN /\ workerFinished \in BOOLEAN
        /\ shutdownHandled \in BOOLEAN
    BY Zenon DEF Init
  <2>2. /\ sizeSeen = 0 /\ sessionAt = "open" /\ admitted = 0 /\ receiverAt = "idle"
    BY DEF Init
  <2>3. QED
    BY <1>1, <2>1, <2>2, CapacityAssumption, MaxActionsAssumption DEF MailboxTypes
<1>3. ClosedInv /\ NothingLostByShutdown
  BY DEF Init, ClosedInv, NothingLostByShutdown
<1>4. OrderInv
  BY <1>1 DEF Init, OrderInv, ShutdownWaits
<1>5. QED
  BY <1>2, <1>3, <1>4 DEF MailboxInv

(* Pushes and pops keep the types and the bound of the queue.              *)
LEMMA TypesStep == MailboxTypes /\ [Next]_vars => MailboxTypes'
<1> SUFFICES ASSUME MailboxTypes, [Next]_vars PROVE MailboxTypes'
  OBVIOUS
<1> USE CapacityAssumption, MaxActionsAssumption DEF MailboxTypes
<1>1. CASE SendAction
  <2>1. /\ admitted + 1 \in Nat
        /\ \E size \in Nat : /\ Len(qtToWorker) <= size /\ size < Capacity - 1
                            /\ qtToWorker' = Append(qtToWorker, admitted + 1)
                            /\ sizeSeen' = size + 1
    BY <1>1 DEF SendAction, SizesApprox, HasRoomForAction, Push
  <2>2. /\ qtToWorker' \in Seq(Nat)
        /\ Len(qtToWorker') = Len(qtToWorker) + 1
    BY <2>1, AppendFacts
  <2>3. wakeSignaled' \in BOOLEAN
    BY <1>1 DEF SendAction, Push
  <2>4. /\ admitted' \in 0 .. MaxActions
        /\ UNCHANGED <<sessionAt, workerVars>>
    BY <1>1 DEF SendAction
  <2>5. QED
    BY <2>1, <2>2, <2>3, <2>4 DEF workerVars
<1>2. CASE SendShutdown
  <2>1. \E size \in Nat : /\ Len(qtToWorker) <= size /\ size <= Capacity - 1
                         /\ qtToWorker' = Append(qtToWorker, ShutdownRequest)
                         /\ sizeSeen' = size + 1
    BY <1>2 DEF SendShutdown, SizesApprox, Push
  <2>2. /\ qtToWorker' \in Seq(Nat)
        /\ Len(qtToWorker') = Len(qtToWorker) + 1
    BY <2>1, AppendFacts DEF ShutdownRequest
  <2>3. wakeSignaled' \in BOOLEAN
    BY <1>2 DEF SendShutdown, Push
  <2>4. sessionAt' = "joining" /\ UNCHANGED <<admitted, workerVars>>
    BY <1>2 DEF SendShutdown
  <2>5. QED
    BY <2>1, <2>2, <2>3, <2>4 DEF workerVars
<1>3. CASE BeginShutdown \/ SkipShutdown \/ Join
  BY <1>3 DEF BeginShutdown, SkipShutdown, Join, workerVars
<1>4. CASE ReadEvent \/ ReadEventFails \/ ReadTimeout \/ NextTick \/ ConsumeNothing
  BY <1>4 DEF ReadEvent, ReadEventFails, ReadTimeout, NextTick, ConsumeNothing, Fail, qtVars
<1>5. CASE ConsumeAction \/ ConsumeThrows \/ ConsumeShutdown
  <2>1. qtToWorker # <<>> /\ qtToWorker' = Tail(qtToWorker) /\ UNCHANGED qtVars
    BY <1>5 DEF ConsumeAction, ConsumeThrows, ConsumeShutdown, Consuming
  <2>2. /\ qtToWorker' \in Seq(Nat)
        /\ Len(qtToWorker') = Len(qtToWorker) - 1
        /\ Len(qtToWorker) \in Nat
        /\ Head(qtToWorker) \in Nat
    BY <2>1, TailFacts
  <2>3. handled' \in Seq(Nat)
    BY <1>5, <2>2, AppendFacts DEF ConsumeAction, ConsumeThrows, ConsumeShutdown
  <2>4. /\ receiverAt' \in {"idle", "consuming"}
        /\ drainScheduled' \in BOOLEAN /\ closing' \in BOOLEAN
        /\ stopRequested' \in BOOLEAN /\ workerFinished' \in BOOLEAN
        /\ shutdownHandled' \in BOOLEAN /\ wakeSignaled' \in BOOLEAN
    <3>1. CASE ConsumeAction
      BY <3>1 DEF ConsumeAction, AfterMessage
    <3>2. CASE ConsumeThrows
      BY <3>2 DEF ConsumeThrows, Fail
    <3>3. CASE ConsumeShutdown
      BY <3>3 DEF ConsumeShutdown, AfterMessage
    <3>4. QED
      BY <1>5, <3>1, <3>2, <3>3
  <2>5. QED
    BY <2>1, <2>2, <2>3, <2>4 DEF qtVars
<1>6. CASE RuntimeFails \/ ShutdownEvent \/ FinishWorker \/ UNCHANGED vars
  BY <1>6 DEF RuntimeFails, ShutdownEvent, FinishWorker, vars, qtVars, workerVars
<1>7. QED
  BY <1>1, <1>2, <1>3, <1>4, <1>5, <1>6, StepCases

(* The entry at the head of an open receiver's queue.                      *)
LEMMA HeadEntry ==
  ASSUME OrderInv, ~closing, Len(qtToWorker) \in Nat \ {0}
  PROVE  qtToWorker[1] = IF ShutdownWaits /\ 1 = Len(qtToWorker)
                           THEN ShutdownRequest ELSE Len(handled) + 1
<1>1. 1 \in 1 .. Len(qtToWorker)
  OBVIOUS
<1>2. \A i \in 1 .. Len(qtToWorker) :
        qtToWorker[i] = IF ShutdownWaits /\ i = Len(qtToWorker)
                          THEN ShutdownRequest ELSE Len(handled) + i
  BY DEF OrderInv
<1>3. QED
  BY <1>1, <1>2

(* Before ShutdownRequest is taken from an open queue, all actions are out. *)
LEMMA RequestIsLast ==
  ASSUME MailboxTypes, ClosedInv, OrderInv, receiverAt = "consuming", qtToWorker # <<>>
  PROVE  /\ Head(qtToWorker) = ShutdownRequest
              => ShutdownWaits /\ Len(qtToWorker) = 1 /\ Len(handled) = admitted
         /\ Head(qtToWorker) # ShutdownRequest => Head(qtToWorker) = Len(handled) + 1
<1>1. /\ Len(qtToWorker) \in Nat \ {0} /\ Head(qtToWorker) = qtToWorker[1]
      /\ Len(handled) \in Nat /\ admitted \in Nat
  BY TailFacts DEF MailboxTypes
<1>2. ~closing
  BY DEF ClosedInv
<1>3. qtToWorker[1] = IF ShutdownWaits /\ 1 = Len(qtToWorker)
                        THEN ShutdownRequest ELSE Len(handled) + 1
  BY <1>1, <1>2, HeadEntry
<1>4. QED
  BY <1>1, <1>2, <1>3 DEF OrderInv, ShutdownRequest

(* A closed receiver stays closed and idle.                                *)
LEMMA ClosedStep == MailboxTypes /\ ClosedInv /\ OrderInv /\ [Next]_vars => ClosedInv'
<1> SUFFICES ASSUME MailboxTypes, ClosedInv, OrderInv, [Next]_vars PROVE ClosedInv'
  OBVIOUS
<1> USE DEF ClosedInv
<1>1. CASE SendAction \/ BeginShutdown \/ SendShutdown \/ SkipShutdown \/ Join
  BY <1>1 DEF SendAction, BeginShutdown, SendShutdown, SkipShutdown, Join, workerVars
<1>2. CASE ReadEvent \/ ReadEventFails \/ ReadTimeout \/ NextTick
  BY <1>2 DEF ReadEvent, ReadEventFails, ReadTimeout, NextTick, Listening, Fail, qtVars
<1>3. CASE ConsumeNothing \/ ConsumeAction \/ ConsumeThrows
  BY <1>3 DEF ConsumeNothing, ConsumeAction, ConsumeThrows, Consuming, AfterMessage, Fail, qtVars
<1>4. CASE ConsumeShutdown
  <2>1. sessionAt \in {"joining", "closed"}
    BY <1>4, RequestIsLast DEF ConsumeShutdown, Consuming, ShutdownWaits
  <2>2. QED
    BY <1>4, <2>1 DEF ConsumeShutdown, Consuming, qtVars
<1>5. CASE RuntimeFails \/ ShutdownEvent \/ FinishWorker \/ UNCHANGED vars
  BY <1>5 DEF RuntimeFails, ShutdownEvent, FinishWorker, vars, qtVars, workerVars
<1>6. QED
  BY <1>1, <1>2, <1>3, <1>4, <1>5, StepCases

(* Every step of an open receiver and of Qt keeps the order.               *)
LEMMA OrderStep == MailboxTypes /\ ClosedInv /\ OrderInv /\ [Next]_vars => OrderInv'
<1> SUFFICES ASSUME MailboxTypes, ClosedInv, OrderInv, [Next]_vars, ~closing' PROVE OrderInv'
  BY DEF OrderInv
<1>1. /\ Len(qtToWorker) \in Nat /\ Len(handled) \in Nat /\ admitted \in Nat
      /\ qtToWorker \in Seq(Nat) /\ handled \in Seq(Nat)
  BY DEF MailboxTypes
<1>2. ASSUME ~closing, UNCHANGED <<qtToWorker, handled, admitted>>, ShutdownWaits' = ShutdownWaits
      PROVE  OrderInv'
  BY <1>2 DEF OrderInv
<1>3. CASE SendAction
  <2>1. /\ sessionAt = "open" /\ sessionAt' = "open" /\ handled' = handled /\ ~closing
        /\ qtToWorker' = Append(qtToWorker, admitted + 1) /\ admitted' = admitted + 1
    BY <1>3 DEF SendAction, Push, workerVars
  <2>2. /\ Len(qtToWorker') = Len(qtToWorker) + 1
        /\ \A i \in 1 .. Len(qtToWorker) : qtToWorker'[i] = qtToWorker[i]
        /\ qtToWorker'[Len(qtToWorker) + 1] = admitted + 1
    BY <1>1, <2>1, AppendFacts
  <2>3. ~ShutdownWaits /\ ~ShutdownWaits'
    BY <2>1 DEF ShutdownWaits
  <2>4. QED
    BY <1>1, <2>1, <2>2, <2>3 DEF OrderInv
<1>4. CASE SendShutdown
  <2>1. /\ sessionAt = "stopping" /\ sessionAt' = "joining" /\ handled' = handled /\ ~closing
        /\ qtToWorker' = Append(qtToWorker, ShutdownRequest) /\ admitted' = admitted
        /\ shutdownHandled' = shutdownHandled
    BY <1>4 DEF SendShutdown, Push, workerVars
  <2>2. /\ Len(qtToWorker') = Len(qtToWorker) + 1
        /\ \A i \in 1 .. Len(qtToWorker) : qtToWorker'[i] = qtToWorker[i]
        /\ qtToWorker'[Len(qtToWorker) + 1] = ShutdownRequest
    BY <1>1, <2>1, AppendFacts DEF ShutdownRequest
  <2>3. ~ShutdownWaits /\ ShutdownWaits'
    BY <2>1 DEF ShutdownWaits, ClosedInv
  <2>4. /\ \A i \in 1 .. Len(handled) : handled[i] = i
        /\ \A i \in 1 .. Len(qtToWorker) : qtToWorker[i] = Len(handled) + i
        /\ Len(handled) + Len(qtToWorker) = admitted
    BY <2>1, <2>3 DEF OrderInv
  <2>5. \A i \in 1 .. Len(qtToWorker') :
          qtToWorker'[i] = IF i = Len(qtToWorker') THEN ShutdownRequest ELSE Len(handled) + i
    BY <1>1, <2>2, <2>4
  <2>6. QED
    BY <1>1, <2>1, <2>2, <2>3, <2>4, <2>5 DEF OrderInv
<1>5. CASE BeginShutdown \/ SkipShutdown \/ Join
  <2>1. ~closing /\ ~workerFinished
    BY <1>5 DEF BeginShutdown, SkipShutdown, Join, workerVars, ClosedInv
  <2>2. QED
    BY <1>2, <1>5, <2>1 DEF BeginShutdown, SkipShutdown, Join, workerVars, ShutdownWaits
<1>6. CASE ReadEvent \/ ReadEventFails \/ ReadTimeout \/ NextTick \/ ConsumeNothing
  BY <1>2, <1>6
     DEF ReadEvent, ReadEventFails, ReadTimeout, NextTick, ConsumeNothing, Fail, qtVars, ShutdownWaits
<1>7. CASE ConsumeAction
  <2>1. /\ receiverAt = "consuming" /\ qtToWorker # <<>> /\ Head(qtToWorker) # ShutdownRequest
        /\ qtToWorker' = Tail(qtToWorker) /\ handled' = Append(handled, Head(qtToWorker))
        /\ UNCHANGED <<sessionAt, admitted, shutdownHandled>> /\ ~closing
    BY <1>7 DEF ConsumeAction, Consuming, qtVars
  <2>2. /\ Len(qtToWorker) \in Nat \ {0}
        /\ Len(qtToWorker') = Len(qtToWorker) - 1
        /\ \A i \in 1 .. Len(qtToWorker) - 1 : qtToWorker'[i] = qtToWorker[i + 1]
        /\ Head(qtToWorker) = Len(handled) + 1
        /\ Head(qtToWorker) = qtToWorker[1]
    BY <1>1, <2>1, TailFacts, RequestIsLast
  <2>3. /\ Len(handled') = Len(handled) + 1
        /\ \A i \in 1 .. Len(handled) : handled'[i] = handled[i]
        /\ handled'[Len(handled) + 1] = Len(handled) + 1
    BY <1>1, <2>1, <2>2, AppendFacts
  <2>4. ShutdownWaits' = ShutdownWaits
    BY <2>1 DEF ShutdownWaits
  <2>5. ShutdownWaits => Len(qtToWorker) > 1
    <3>1. qtToWorker[1] = IF ShutdownWaits /\ 1 = Len(qtToWorker)
                            THEN ShutdownRequest ELSE Len(handled) + 1
      BY <2>1, <2>2, HeadEntry
    <3>2. QED
      BY <2>1, <2>2, <3>1
  <2>6. ASSUME NEW i \in 1 .. Len(qtToWorker')
        PROVE  qtToWorker'[i] = IF ShutdownWaits /\ i = Len(qtToWorker')
                                  THEN ShutdownRequest ELSE Len(handled') + i
    <3>1. i \in 1 .. Len(qtToWorker) - 1 /\ i + 1 \in 1 .. Len(qtToWorker)
      BY <1>1, <2>2
    <3>2. qtToWorker[i + 1] = IF ShutdownWaits /\ i + 1 = Len(qtToWorker)
                                THEN ShutdownRequest ELSE Len(handled) + (i + 1)
      BY <2>1, <3>1 DEF OrderInv
    <3>3. QED
      BY <1>1, <2>2, <2>3, <3>1, <3>2
  <2>7. Len(handled) + Len(qtToWorker) = IF ShutdownWaits THEN admitted + 1 ELSE admitted
    BY <2>1 DEF OrderInv
  <2>8. \A i \in 1 .. Len(handled') : handled'[i] = i
    BY <1>1, <2>1, <2>3 DEF OrderInv
  <2>9. /\ Len(handled') + Len(qtToWorker') = Len(handled) + Len(qtToWorker)
        /\ Len(qtToWorker) > 1 => Len(qtToWorker') > 0
    BY <1>1, <2>2, <2>3
  <2>10. QED
    BY <2>1, <2>4, <2>5, <2>6, <2>7, <2>8, <2>9 DEF OrderInv
<1>8. CASE ConsumeThrows
  BY <1>8 DEF ConsumeThrows, Fail
<1>9. CASE ConsumeShutdown
  <2>1. /\ receiverAt = "consuming" /\ qtToWorker # <<>> /\ Head(qtToWorker) = ShutdownRequest
        /\ qtToWorker' = Tail(qtToWorker) /\ shutdownHandled' = TRUE
        /\ UNCHANGED <<sessionAt, admitted, handled>> /\ ~closing
    BY <1>9 DEF ConsumeShutdown, Consuming, qtVars
  <2>2. Len(qtToWorker') = 0 /\ Len(handled) = admitted
    BY <1>1, <2>1, TailFacts, RequestIsLast
  <2>3. ~ShutdownWaits'
    BY <2>1 DEF ShutdownWaits
  <2>4. QED
    BY <1>1, <2>1, <2>2, <2>3 DEF OrderInv
<1>10. CASE RuntimeFails \/ ShutdownEvent \/ FinishWorker \/ UNCHANGED vars
  BY <1>2, <1>10
     DEF RuntimeFails, ShutdownEvent, FinishWorker, vars, qtVars, workerVars, ShutdownWaits
<1>11. QED
  BY <1>3, <1>4, <1>5, <1>6, <1>7, <1>8, <1>9, <1>10, StepCases

(* Only an open receiver takes ShutdownRequest; nothing is admitted then.  *)
LEMMA NothingLostStep == MailboxInv /\ [Next]_vars => NothingLostByShutdown'
<1> SUFFICES ASSUME MailboxTypes, ClosedInv, OrderInv, NothingLostByShutdown,
                    [Next]_vars, shutdownHandled'
             PROVE  handled' = [i \in 1 .. admitted' |-> i]
  BY DEF MailboxInv, NothingLostByShutdown
<1>1. CASE shutdownHandled
  <2>1. sessionAt \in {"joining", "closed"} /\ handled = [i \in 1 .. admitted |-> i]
    BY <1>1 DEF ClosedInv, NothingLostByShutdown
  <2>2. CASE ConsumeAction
    <3>1. /\ receiverAt = "consuming" /\ qtToWorker # <<>> /\ Head(qtToWorker) # ShutdownRequest
      BY <2>2 DEF ConsumeAction, Consuming
    <3>2. ~closing /\ ~ShutdownWaits /\ Len(qtToWorker) > 0 /\ Len(handled) \in Nat
      BY <1>1, <3>1, TailFacts DEF ClosedInv, ShutdownWaits, MailboxTypes
    <3>3. Len(handled) + Len(qtToWorker) = admitted
      BY <3>2 DEF OrderInv
    <3>4. Len(handled) = admitted
      BY <2>1, <3>2 DEF MailboxTypes
    <3>5. QED
      BY <3>2, <3>3, <3>4, TailFacts DEF MailboxTypes
  <2>3. CASE UNCHANGED <<handled, admitted>>
    BY <2>1, <2>3
  <2>4. QED
    BY <2>1, <2>2, <2>3, StepCases
       DEF SendAction, BeginShutdown, SendShutdown, SkipShutdown, Join, ReadEvent, ReadEventFails,
           ReadTimeout, NextTick, ConsumeNothing, ConsumeThrows, ConsumeShutdown, RuntimeFails,
           ShutdownEvent, FinishWorker, vars, qtVars, workerVars
<1>2. CASE ~shutdownHandled
  <2>1. ConsumeShutdown
    BY <1>2, StepCases
       DEF SendAction, BeginShutdown, SendShutdown, SkipShutdown, Join, ReadEvent, ReadEventFails,
           ReadTimeout, NextTick, ConsumeNothing, ConsumeAction, ConsumeThrows, RuntimeFails,
           ShutdownEvent, FinishWorker, vars, qtVars, workerVars
  <2>2. /\ receiverAt = "consuming" /\ qtToWorker # <<>> /\ Head(qtToWorker) = ShutdownRequest
        /\ UNCHANGED <<handled, admitted>>
    BY <2>1 DEF ConsumeShutdown, Consuming, qtVars
  <2>3. Len(handled) = admitted
    BY <2>2, RequestIsLast
  <2>4. handled \in Seq(Nat) /\ \A i \in 1 .. Len(handled) : handled[i] = i
    BY <2>2 DEF MailboxTypes, ClosedInv, OrderInv
  <2>5. handled = [i \in 1 .. Len(handled) |-> handled[i]]
    BY <2>4
  <2>6. QED
    BY <2>2, <2>3, <2>4, <2>5
<1>3. QED
  BY <1>1, <1>2

----------------------------------------------------------------------------
(* The theorems                                                            *)

(* The inductive invariant of the sends, of WorkerMailboxReceiver and of   *)
(* FrontendSession::shutdown holds of every behaviour.                     *)
THEOREM MailboxInvariant == Spec => []MailboxInv
<1>1. MailboxInv /\ [Next]_vars => MailboxInv'
  BY TypesStep, ClosedStep, OrderStep, NothingLostStep DEF MailboxInv
<1>2. QED
  BY MailboxInit, <1>1, PTL DEF Spec

(* When ShutdownRequest reaches the worker, every action that sendNodeAction *)
(* and sendRuntimeAction admitted has been handled, once and in order,     *)
(* however late each thread sees the other's progress in the queue.        *)
THEOREM ShutdownLosesNothing == Spec => []NothingLostByShutdown
<1>1. MailboxInv => NothingLostByShutdown
  BY DEF MailboxInv
<1>2. QED
  BY MailboxInvariant, <1>1, PTL

(* The last slot is free as long as ShutdownRequest has not been sent.     *)
ShutdownSlotFree == sessionAt = "stopping" => sizeSeen < Capacity

(* sendShutdown is never refused, however late Qt sees the worker's pops:  *)
(* HasRoomForAction has kept the last slot even in the oldest view.        *)
THEOREM ShutdownFindsRoom == Spec => []ShutdownSlotFree
<1>1. MailboxInv => ShutdownSlotFree
  BY CapacityAssumption DEF MailboxInv, MailboxTypes, ShutdownSlotFree
<1>2. QED
  BY MailboxInvariant, <1>1, PTL

-----------------------------------------------------------------------------
\* Server requests

NodeState == {"absent", "Pending", "Failed", "removed"}
Ids == {IdOf[r] : r \in Requests}

RequestTypes ==
    /\ generation \in Nat
    /\ awaited \subseteq Requests /\ recoveryOnly \subseteq Requests
    /\ pendingServerRequests \in [Requests -> Nat \cup {NoEntry}]
    /\ node \in [Requests -> NodeState]
    /\ key \in [Requests -> Ids \X Nat]
    /\ stamp \in [Requests -> Nat] /\ responseRevision \in [Requests -> Nat]
    /\ retained \in [Requests -> Nat]
    /\ authored \in [Requests -> Nat] /\ submitted \in [Requests -> Nat]
    /\ local \in [Requests -> Nat \cup {NoEntry, Kept}]
    /\ sent \in [Requests -> Seq(Requests \X Nat)]
    /\ actions \in Seq(Requests \X Nat)

Plain(r) == <<IdOf[r], Unscoped>>
Scoped(r) == <<IdOf[r], stamp[r]>>

\* No two nodes share a key, and a scoped key stands beside a preserved plain one.  A preserved
\* request is of an earlier generation than the connection, any other live one of its own.
KeyInv ==
    /\ connected => generation # 0
    /\ \A r \in Requests :
         /\ stamp[r] <= generation
         /\ key[r] = Plain(r) \/ key[r] = Scoped(r)
         /\ Live(r) /\ r \notin recoveryOnly => stamp[r] = generation
         /\ r \in recoveryOnly => Live(r) /\ (connected => stamp[r] < generation)
         /\ Live(r) /\ key[r] # Plain(r) => \E q \in recoveryOnly : key[q] = Plain(r)
    /\ \A q, r \in Requests : Live(q) /\ Live(r) /\ key[q] = key[r] => q = r

\* The response submitted last, which is the last one written, is on its way for a node that is
\* still submitting it, or was given back; no other response is on its way.
Submitting(r) == local[r] = responseRevision[r]
IsLatest(r, response) ==
    /\ node[r] # "absent"
    /\ Live(r) => Submitting(r) /\ response = authored[r] /\ response = submitted[r]
ActionsInv ==
    /\ \A i \in DOMAIN actions : IsLatest(actions[i][1], actions[i][2])
    /\ \A i, j \in DOMAIN actions : actions[i][1] = actions[j][1] => i = j
ShellInv ==
    \A r \in Requests :
        /\ node[r] = "absent" => submitted[r] = 0 /\ local[r] = NoEntry
        /\ Live(r) /\ local[r] >= 0 /\ responseRevision[r] > local[r] => retained[r] = submitted[r]
        /\ Live(r) /\ submitted[r] > 0 => local[r] # NoEntry \/ retained[r] = submitted[r]
        /\ Live(r) \/ node[r] = "absent" => sent[r] = <<>>

RequestInv == RequestTypes /\ KeyInv /\ OpenIsActionable /\ ActionsInv /\ ShellInv

-----------------------------------------------------------------------------
\* The initial state satisfies the invariant.
LEMMA RequestInvAtStart == RequestInit => RequestInv
<1> SUFFICES ASSUME RequestInit PROVE RequestInv
  OBVIOUS
<1> USE DEF RequestInit
<1>1. RequestTypes
  BY DEF RequestTypes, NodeState, Ids, Unscoped, NoEntry
<1>2. KeyInv
  BY DEF KeyInv, Live, Plain
<1>3. OpenIsActionable
  BY DEF OpenIsActionable, Live
<1>4. ActionsInv
  BY DEF ActionsInv
<1>5. ShellInv
  BY DEF ShellInv, Live
<1>6. QED
  BY <1>1, <1>2, <1>3, <1>4, <1>5 DEF RequestInv

\* A failed response is one of the two ways a response comes back.
FailHead == Take /\ FailResponse(Head(actions)[1], Head(actions)[2])
\* A new connection, a lost one, or a new provider.
ResetStep ==
    /\ Reset
    /\ generation' \in Nat /\ generation <= generation'
    /\ connected' => generation < generation'

\* Which handler a step is.
LEMMA RequestStepCases ==
  ASSUME RequestTypes, [RequestNext]_requestVars
  PROVE  \/ ResetStep \/ BridgeState
         \/ \E r \in Requests : Request(r) \/ CurrentTimeRead(r) \/ Resolved(r)
         \/ FailHead \/ SendResponse
         \/ \E r \in Requests : SubmitPending(r) \/ SubmitBusy(r) \/ RemovalArrives(r)
         \/ PendingRequestSummary
         \/ UNCHANGED requestVars
<1>1. Connect \/ Disconnect \/ NewProvider => ResetStep
  BY DEF Connect, Disconnect, NewProvider, ResetStep, RequestTypes
<1>2. RejectResponse \/ RefuseResponse => FailHead
  BY DEF RejectResponse, RefuseResponse, FailHead
<1>3. QED
  BY <1>1, <1>2 DEF RequestNext, ResolveInteraction

\* The action the worker takes next is a response to some request.
LEMMA HeadAction ==
  ASSUME RequestTypes, Take
  PROVE  /\ Head(actions) \in Requests \X Nat /\ Head(actions) = actions[1]
         /\ 1 \in DOMAIN actions /\ actions' = Tail(actions) /\ actions' \in Seq(Requests \X Nat)
         /\ Len(actions) \in Nat \ {0} /\ Len(actions') = Len(actions) - 1
         /\ \A i \in DOMAIN actions' : i + 1 \in DOMAIN actions /\ actions'[i] = actions[i + 1]
         /\ actions # <<>>
<1>1. actions # <<>> /\ actions' = Tail(actions) /\ actions \in Seq(Requests \X Nat)
  BY DEF Take, RequestTypes
<1>2. QED
  BY <1>1

\* Every key is an id with a generation.
LEMMA KeyForType ==
  ASSUME RequestTypes, NEW r \in Requests
  PROVE  /\ KeyFor(r) \in Ids \X Nat
         /\ KeyFor(r) \in {Plain(r), <<IdOf[r], generation>>}
  BY DEF KeyFor, RequestTypes, Ids, Unscoped, Plain

\* Every step keeps the types.
LEMMA RequestTypesStep == RequestTypes /\ [RequestNext]_requestVars => RequestTypes'
<1> SUFFICES ASSUME RequestTypes, [RequestNext]_requestVars PROVE RequestTypes'
  OBVIOUS
<1> USE DEF RequestTypes
<1>1. CASE ResetStep
  BY <1>1 DEF ResetStep, Reset, shell, NodeState
<1>2. CASE BridgeState
  BY <1>2 DEF BridgeState, worker, shell
<1>3. ASSUME NEW r \in Requests, Request(r) PROVE RequestTypes'
  BY <1>3, KeyForType DEF Request, ApplyInteraction, connection, shell, NodeState
<1>4. ASSUME NEW r \in Requests, CurrentTimeRead(r) PROVE RequestTypes'
  BY <1>4, KeyForType DEF CurrentTimeRead, ApplyInteraction, connection, shell, NodeState
<1>5. ASSUME NEW r \in Requests, Resolved(r) PROVE RequestTypes'
  <2>1. node' \in [Requests -> NodeState]
        /\ pendingServerRequests' \in [Requests -> Nat \cup {NoEntry}]
    BY <1>5 DEF Resolved, SameId, NodeState
  <2>2. QED
    BY <1>5, <2>1 DEF Resolved, connection, shell
<1>6. CASE FailHead
  <2>1. /\ Head(actions)[1] \in Requests /\ Head(actions)[2] \in Nat
        /\ actions' \in Seq(Requests \X Nat)
    BY <1>6, HeadAction DEF FailHead
  <2>2. /\ node' \in [Requests -> NodeState] /\ retained' \in [Requests -> Nat]
        /\ responseRevision' \in [Requests -> Nat]
    <3>1. PICK r \in Requests :
            /\ node' = [node EXCEPT ![r] = IF Live(r) THEN "Failed" ELSE @]
            /\ retained' = [retained EXCEPT ![r] = IF Live(r) THEN Head(actions)[2] ELSE @]
            /\ responseRevision' = [responseRevision EXCEPT ![r] = IF Live(r) THEN @ + 1 ELSE @]
      BY <1>6, <2>1 DEF FailHead, FailResponse
    <3>2. node' \in [Requests -> NodeState]
      BY <3>1 DEF NodeState
    <3>3. retained' \in [Requests -> Nat]
      BY <2>1, <3>1
    <3>4. responseRevision' \in [Requests -> Nat]
      <4>1. responseRevision[r] \in Nat /\ responseRevision[r] + 1 \in Nat
        OBVIOUS
      <4>2. QED
        BY <3>1, <4>1
    <3>5. QED
      BY <3>2, <3>3, <3>4
  <2>3. QED
    BY <1>6, <2>1, <2>2 DEF FailHead, FailResponse, connection, shell
<1>7. CASE SendResponse
  <2>1. /\ Head(actions) \in Requests \X Nat /\ actions' \in Seq(Requests \X Nat)
        /\ actions # <<>>
    BY <1>7, HeadAction DEF SendResponse
  <2>2. PICK q \in EntriesFor(Head(actions)[1]) :
          /\ sent' = [sent EXCEPT ![q] = Append(@, Head(actions))]
          /\ awaited' = awaited \ {q}
    BY <1>7 DEF SendResponse
  <2>3. sent' \in [Requests -> Seq(Requests \X Nat)]
    <3>1. ASSUME q \in Requests PROVE sent[q] \in Seq(Requests \X Nat)
      BY <3>1
    <3>2. ASSUME NEW s \in Seq(Requests \X Nat), NEW e \in Requests \X Nat
          PROVE  Append(s, e) \in Seq(Requests \X Nat)
      OBVIOUS
    <3>3. QED
      BY <2>1, <2>2, <3>1, <3>2
  <2>4. QED
    BY <1>7, <2>1, <2>2, <2>3 DEF SendResponse, connection, shell, NodeState
<1>8. ASSUME NEW r \in Requests, SubmitPending(r) PROVE RequestTypes'
  <2>1. authored' \in [Requests -> Nat] /\ submitted' \in [Requests -> Nat]
    BY <1>8 DEF SubmitPending, Writes
  <2>2. /\ local' \in [Requests -> Nat \cup {NoEntry, Kept}]
        /\ actions' \in Seq(Requests \X Nat)
    <3>1. CASE local' = [local EXCEPT ![r] = Kept] /\ UNCHANGED actions
      BY <3>1
    <3>2. CASE /\ local' = [local EXCEPT ![r] = responseRevision[r]]
               /\ actions' = Append(actions, <<r, authored'[r]>>)
      <4>1. <<r, authored'[r]>> \in Requests \X Nat
        BY <2>1
      <4>2. actions' \in Seq(Requests \X Nat)
        BY <3>2, <4>1
      <4>3. local' \in [Requests -> Nat \cup {NoEntry, Kept}]
        BY <3>2
      <4>4. QED
        BY <4>2, <4>3
    <3>3. QED
      BY <1>8, <3>1, <3>2 DEF SubmitPending
  <2>3. QED
    BY <1>8, <2>1, <2>2 DEF SubmitPending, connection, worker
<1>9. ASSUME NEW r \in Requests, RemovalArrives(r) PROVE RequestTypes'
  BY <1>9 DEF RemovalArrives, connection, worker
<1>10. CASE PendingRequestSummary
  BY <1>10 DEF PendingRequestSummary, AppliedLocal, connection, worker
<1>11. ASSUME NEW r \in Requests, SubmitBusy(r) PROVE RequestTypes'
  BY <1>11 DEF SubmitBusy, Writes, connection, worker
<1>12. CASE UNCHANGED requestVars
  BY <1>12 DEF requestVars, connection, worker, shell
<1>13. QED
  BY <1>1, <1>2, <1>3, <1>4, <1>5, <1>6, <1>7, <1>8, <1>9, <1>10, <1>11, <1>12, RequestStepCases
-----------------------------------------------------------------------------
(* Keys *)

\* While connected, a new request takes the key of exactly the requests under its id that the
\* server still waits for: a preserved one keeps its key.
LEMMA KeyForReplaces ==
  ASSUME RequestTypes, KeyInv, OpenIsActionable, connected, NEW r \in Requests
  PROVE  \A q \in Requests : Live(q) /\ key[q] = KeyFor(r) <=> q \in awaited /\ q \in SameId(r)
<1>1. /\ generation \in Nat \ {0}
      /\ \A q \in Requests : stamp[q] \in Nat /\ stamp[q] <= generation
  BY DEF RequestTypes, KeyInv
<1>2. \A q \in Requests : q \in awaited <=> Live(q) /\ q \notin recoveryOnly
  BY DEF OpenIsActionable
<1>3. \A q \in Requests : q \in recoveryOnly <=> Live(q) /\ stamp[q] # generation
  <2>1. ASSUME NEW q \in recoveryOnly PROVE Live(q) /\ stamp[q] # generation
    <3>1. q \in Requests /\ Live(q) /\ stamp[q] < generation
      BY DEF RequestTypes, KeyInv
    <3>2. QED
      BY <1>1, <3>1
  <2>2. ASSUME NEW q \in Requests, Live(q), stamp[q] # generation PROVE q \in recoveryOnly
    BY <2>2 DEF KeyInv
  <2>3. QED
    BY <2>1, <2>2
<1>4. \A q \in Requests : q \in SameId(r) <=> IdOf[q] = IdOf[r]
  BY DEF SameId
<1>5. Plain(r) # <<IdOf[r], generation>>
  BY <1>1 DEF Plain, Unscoped
<1>6. CASE \E q \in Requests : Live(q) /\ key[q] = Plain(r) /\ (q \in recoveryOnly \/ stamp[q] # generation)
  <2>1. KeyFor(r) = <<IdOf[r], generation>>
    BY <1>6 DEF KeyFor, Plain
  <2>2. PICK p \in Requests : Live(p) /\ key[p] = Plain(r) /\ p \in recoveryOnly
    BY <1>3, <1>6
  <2>3. ASSUME NEW q \in Requests, Live(q), key[q] = KeyFor(r)
        PROVE  q \in awaited /\ q \in SameId(r)
    <3>1. key[q] = Scoped(q) /\ IdOf[q] = IdOf[r] /\ stamp[q] = generation
      BY <1>1, <1>5, <2>1, <2>3 DEF KeyInv, Plain, Scoped, Unscoped
    <3>2. QED
      BY <1>2, <1>3, <1>4, <2>3, <3>1
  <2>4. ASSUME NEW q \in Requests, q \in awaited, q \in SameId(r)
        PROVE  Live(q) /\ key[q] = KeyFor(r)
    <3>1. Live(q) /\ stamp[q] = generation /\ IdOf[q] = IdOf[r] /\ q # p
      BY <1>2, <1>3, <1>4, <2>2, <2>4
    <3>2. key[q] # Plain(r)
      BY <2>2, <3>1 DEF KeyInv
    <3>3. QED
      BY <2>1, <3>1, <3>2 DEF KeyInv, Plain, Scoped
  <2>5. QED
    BY <2>3, <2>4
<1>7. CASE ~\E q \in Requests : Live(q) /\ key[q] = Plain(r) /\ (q \in recoveryOnly \/ stamp[q] # generation)
  <2>1. KeyFor(r) = Plain(r)
    BY <1>7 DEF KeyFor, Plain
  <2>2. ASSUME NEW q \in Requests, Live(q), key[q] = KeyFor(r)
        PROVE  q \in awaited /\ q \in SameId(r)
    BY <1>2, <1>4, <1>7, <2>1, <2>2 DEF KeyInv, Plain, Scoped
  <2>3. ASSUME NEW q \in Requests, q \in awaited, q \in SameId(r)
        PROVE  Live(q) /\ key[q] = KeyFor(r)
    <3>1. Live(q) /\ stamp[q] = generation /\ IdOf[q] = IdOf[r] /\ Plain(q) = Plain(r)
      BY <1>2, <1>3, <1>4, <2>3 DEF Plain
    <3>2. key[q] = Plain(q)
      <4>1. SUFFICES ASSUME key[q] # Plain(q) PROVE FALSE
        OBVIOUS
      <4>2. PICK p \in recoveryOnly : key[p] = Plain(q)
        BY <3>1, <4>1 DEF KeyInv
      <4>3. p \in Requests /\ Live(p)
        BY <4>2 DEF RequestTypes, KeyInv
      <4>4. QED
        BY <1>7, <3>1, <4>2, <4>3
    <3>3. QED
      BY <2>1, <3>1, <3>2
  <2>4. QED
    BY <2>2, <2>3
<1>8. QED
  BY <1>6, <1>7

\* The server waits for one request under an id at a time.
LEMMA OneAwaited ==
  ASSUME RequestTypes, KeyInv, OpenIsActionable,
         NEW q \in awaited, NEW r \in awaited, IdOf[q] = IdOf[r]
  PROVE  q = r
<1>1. /\ q \in Requests /\ Live(q) /\ q \notin recoveryOnly /\ stamp[q] = generation
      /\ r \in Requests /\ Live(r) /\ r \notin recoveryOnly /\ stamp[r] = generation
  BY DEF RequestTypes, KeyInv, OpenIsActionable
<1>2. Plain(q) = Plain(r) /\ Scoped(q) = Scoped(r)
  BY <1>1 DEF Plain, Scoped
<1>3. ~(key[q] = Plain(q) /\ key[r] # Plain(r))
  <2>1. SUFFICES ASSUME key[q] = Plain(q), key[r] # Plain(r) PROVE FALSE
    OBVIOUS
  <2>2. PICK p \in recoveryOnly : key[p] = Plain(r)
    BY <1>1, <2>1 DEF KeyInv
  <2>3. p \in Requests /\ Live(p)
    BY DEF RequestTypes, KeyInv
  <2>4. QED
    BY <1>1, <1>2, <2>1, <2>2, <2>3 DEF KeyInv
<1>4. ~(key[r] = Plain(r) /\ key[q] # Plain(q))
  <2>1. SUFFICES ASSUME key[r] = Plain(r), key[q] # Plain(q) PROVE FALSE
    OBVIOUS
  <2>2. PICK p \in recoveryOnly : key[p] = Plain(q)
    BY <1>1, <2>1 DEF KeyInv
  <2>3. p \in Requests /\ Live(p)
    BY DEF RequestTypes, KeyInv
  <2>4. QED
    BY <1>1, <1>2, <2>1, <2>2, <2>3 DEF KeyInv
<1>5. key[q] = key[r]
  BY <1>1, <1>2, <1>3, <1>4 DEF KeyInv
<1>6. QED
  BY <1>1, <1>5 DEF KeyInv

\* What only ends the life of requests keeps the keys apart.
LEMMA KeysKept ==
  ASSUME RequestTypes, KeyInv,
         UNCHANGED <<connected, generation, key, stamp, recoveryOnly>>,
         \A q \in Requests : Live(q)' => Live(q),
         \A q \in recoveryOnly : Live(q)'
  PROVE  KeyInv'
<1>1. \A r \in Requests : Plain(r)' = Plain(r) /\ Scoped(r)' = Scoped(r)
  BY DEF Plain, Scoped
<1>2. QED
  BY <1>1 DEF KeyInv, RequestTypes

\* A reset preserves what was live and ends everything the server waited for.
LEMMA ResetKeeps ==
  ASSUME RequestTypes, KeyInv, ResetStep
  PROVE  KeyInv' /\ OpenIsActionable'
<1>1. /\ generation \in Nat /\ generation' \in Nat /\ generation <= generation'
      /\ connected' => generation < generation'
      /\ pendingServerRequests' = [r \in Requests |-> NoEntry]
      /\ awaited' = {} /\ key' = key /\ stamp' = stamp
      /\ recoveryOnly' = recoveryOnly \cup {r \in Requests : Live(r)}
      /\ \A r \in Requests : stamp[r] \in Nat
  BY DEF ResetStep, Reset, RequestTypes
<1>2. \A r \in Requests : Live(r)' <=> Live(r)
  BY DEF ResetStep, Reset, Live
<1>3. \A r \in Requests : r \in recoveryOnly' <=> Live(r)
  BY <1>1 DEF RequestTypes, KeyInv
<1>4. \A r \in Requests : Plain(r)' = Plain(r) /\ Scoped(r)' = Scoped(r)
  BY <1>1 DEF Plain, Scoped
<1>5. OpenIsActionable'
  BY <1>1, <1>2, <1>3 DEF OpenIsActionable
<1>6. \A r \in Requests : stamp'[r] <= generation' /\ (connected' => stamp'[r] < generation')
  BY <1>1 DEF KeyInv
<1>7. connected' => generation' # 0
  BY <1>1
<1>8. ASSUME NEW r \in Requests, Live(r)', key'[r] # Plain(r)'
      PROVE  \E q \in recoveryOnly' : key'[q] = Plain(r)'
  BY <1>1, <1>2, <1>4, <1>8 DEF KeyInv
<1>9. \A r \in Requests : key'[r] = Plain(r)' \/ key'[r] = Scoped(r)'
  BY <1>1, <1>4 DEF KeyInv
<1>10. \A q, r \in Requests : Live(q)' /\ Live(r)' /\ key'[q] = key'[r] => q = r
  BY <1>1, <1>2 DEF KeyInv
<1>11. recoveryOnly' \subseteq Requests
  BY <1>1 DEF RequestTypes
<1>12. QED
  BY <1>2, <1>3, <1>5, <1>6, <1>7, <1>8, <1>9, <1>10, <1>11 DEF KeyInv

\* A request of the server, or one the worker answers itself: what is replaced is what the
\* server gave up.
LEMMA ApplyKeeps ==
  ASSUME RequestTypes, KeyInv, OpenIsActionable, connected,
         NEW r \in Requests, node[r] = "absent",
         NEW state \in {"Pending", "removed"}, ApplyInteraction(r, state),
         UNCHANGED <<connected, generation, recoveryOnly>>
  PROVE  /\ KeyInv'
         /\ \A q \in Requests \ {r} : Live(q)' <=> Live(q) /\ ~(q \in awaited /\ q \in SameId(r))
         /\ Live(r)' <=> state = "Pending"
         /\ r \notin recoveryOnly
<1>1. \A q \in Requests : Live(q) /\ key[q] = KeyFor(r) <=> q \in awaited /\ q \in SameId(r)
  BY KeyForReplaces
<1>2. ~Live(r) /\ r \notin recoveryOnly
  BY DEF Live, KeyInv
<1>3. /\ node' = [q \in Requests |-> IF q = r THEN state
                     ELSE IF Live(q) /\ key[q] = KeyFor(r) THEN "removed" ELSE node[q]]
      /\ key' = [key EXCEPT ![r] = KeyFor(r)]
      /\ stamp' = [stamp EXCEPT ![r] = generation]
  BY DEF ApplyInteraction
<1>4. \A q \in Requests \ {r} : Live(q)' <=> Live(q) /\ ~(q \in awaited /\ q \in SameId(r))
  BY <1>1, <1>3 DEF Live
<1>5. Live(r)' <=> state = "Pending"
  BY <1>3 DEF Live
<1>6. /\ \A q \in Requests \ {r} : key'[q] = key[q] /\ stamp'[q] = stamp[q]
      /\ key'[r] = KeyFor(r) /\ stamp'[r] = generation
  BY <1>3 DEF RequestTypes
<1>7. \A q \in Requests : Plain(q)' = Plain(q)
  BY DEF Plain
<1>8. /\ generation \in Nat \ {0} /\ \A q \in Requests : stamp[q] \in Nat
      /\ recoveryOnly \subseteq Requests
  BY DEF RequestTypes, KeyInv
<1>9. \A q \in recoveryOnly : q # r /\ Live(q)' /\ Live(q)
  BY <1>2, <1>4, <1>8 DEF OpenIsActionable, KeyInv
<1>10. ASSUME NEW q \in Requests
       PROVE  /\ stamp'[q] <= generation'
              /\ key'[q] = Plain(q)' \/ key'[q] = Scoped(q)'
  <2>1. CASE q = r
    BY <1>6, <1>7, <1>8, <2>1, KeyForType DEF Scoped
  <2>2. CASE q # r
    BY <1>6, <1>7, <2>2 DEF KeyInv, Scoped
  <2>3. QED
    BY <2>1, <2>2
<1>11. ASSUME NEW q \in Requests, Live(q)', q \notin recoveryOnly' PROVE stamp'[q] = generation'
  BY <1>4, <1>6, <1>11 DEF KeyInv
<1>12. ASSUME NEW q \in recoveryOnly' PROVE Live(q)' /\ stamp'[q] < generation'
  BY <1>6, <1>8, <1>9, <1>12 DEF KeyInv
<1>13. ASSUME NEW q \in Requests, Live(q)', key'[q] # Plain(q)'
       PROVE  \E p \in recoveryOnly' : key'[p] = Plain(q)'
  <2>1. \E p \in recoveryOnly : key[p] = Plain(q)
    <3>1. CASE q = r
      <4>1. PICK p \in Requests : /\ Live(p) /\ key[p] = Plain(r)
                                  /\ p \in recoveryOnly \/ stamp[p] # generation
        BY <1>6, <1>7, <1>13, <3>1 DEF KeyFor, Plain
      <4>2. QED
        BY <3>1, <4>1 DEF KeyInv
    <3>2. CASE q # r
      BY <1>4, <1>6, <1>7, <1>13, <3>2 DEF KeyInv
    <3>3. QED
      BY <3>1, <3>2
  <2>2. QED
    BY <1>6, <1>7, <1>8, <1>9, <2>1
<1>14. ASSUME NEW p \in Requests, NEW q \in Requests, Live(p)', Live(q)', key'[p] = key'[q]
       PROVE  p = q
  <2>1. CASE p # r /\ q # r
    BY <1>4, <1>6, <1>14, <2>1 DEF KeyInv
  <2>2. CASE p = r /\ q # r
    BY <1>1, <1>4, <1>6, <1>14, <2>2
  <2>3. CASE p # r /\ q = r
    BY <1>1, <1>4, <1>6, <1>14, <2>3
  <2>4. QED
    BY <2>1, <2>2, <2>3
<1>15. KeyInv'
  BY <1>8, <1>10, <1>11, <1>12, <1>13, <1>14 DEF KeyInv
<1>16. QED
  BY <1>2, <1>4, <1>5, <1>15
\* What the typed entry of a request tells of it.
LEMMA EntryMeans ==
  ASSUME RequestTypes, OpenIsActionable, NEW r \in Requests
  PROVE  /\ pendingServerRequests[r] = generation <=> r \in awaited
         /\ generation # NoEntry
  BY DEF RequestTypes, OpenIsActionable, NoEntry

\* Every step keeps the keys apart, and what is offered in step with what is waited for.
LEMMA OpenStep ==
  RequestTypes /\ KeyInv /\ OpenIsActionable /\ [RequestNext]_requestVars => KeyInv' /\ OpenIsActionable'
<1> SUFFICES ASSUME RequestTypes, KeyInv, OpenIsActionable, [RequestNext]_requestVars
             PROVE  KeyInv' /\ OpenIsActionable'
  OBVIOUS
<1>1. ASSUME UNCHANGED <<connected, generation, awaited, pendingServerRequests, node, key, stamp,
                         recoveryOnly>>
      PROVE  KeyInv' /\ OpenIsActionable'
  <2>1. \A r \in Requests : Live(r)' <=> Live(r)
    BY <1>1 DEF Live
  <2>2. \A q \in recoveryOnly : Live(q)'
    BY <2>1 DEF KeyInv, RequestTypes
  <2>3. KeyInv'
    BY <1>1, <2>1, <2>2, KeysKept
  <2>4. OpenIsActionable'
    BY <1>1, <2>1 DEF OpenIsActionable
  <2>5. QED
    BY <2>3, <2>4
<1>2. CASE ResetStep
  BY <1>2, ResetKeeps
<1>3. ASSUME NEW r \in Requests, Request(r) PROVE KeyInv' /\ OpenIsActionable'
  <2>1. /\ connected /\ node[r] = "absent" /\ ApplyInteraction(r, "Pending")
        /\ UNCHANGED <<connected, generation, recoveryOnly>>
        /\ awaited' = (awaited \ SameId(r)) \cup {r}
        /\ pendingServerRequests' = [q \in Requests |->
             IF q = r THEN generation
             ELSE IF q \in SameId(r) THEN NoEntry ELSE pendingServerRequests[q]]
    BY <1>3 DEF Request, Asks, connection
  <2>2. /\ KeyInv'
        /\ \A q \in Requests \ {r} : Live(q)' <=> Live(q) /\ ~(q \in awaited /\ q \in SameId(r))
        /\ Live(r)' /\ r \notin recoveryOnly
    BY <2>1, ApplyKeeps
  <2>3. generation # NoEntry
    BY EntryMeans
  <2>4. ASSUME NEW q \in Requests
        PROVE  /\ q \in awaited' <=> Live(q)' /\ q \notin recoveryOnly'
               /\ q \in awaited' <=> pendingServerRequests'[q] # NoEntry
               /\ pendingServerRequests'[q] \in {NoEntry, generation'}
    <3>1. CASE q = r
      BY <2>1, <2>2, <2>3, <3>1
    <3>2. CASE q # r
      BY <2>1, <2>2, <3>2 DEF OpenIsActionable
    <3>3. QED
      BY <3>1, <3>2
  <2>5. QED
    BY <2>2, <2>4 DEF OpenIsActionable
<1>4. ASSUME NEW r \in Requests, CurrentTimeRead(r) PROVE KeyInv' /\ OpenIsActionable'
  <2>1. /\ connected /\ node[r] = "absent" /\ ApplyInteraction(r, "removed")
        /\ UNCHANGED <<connected, generation, recoveryOnly>>
        /\ awaited' = awaited \ SameId(r)
        /\ pendingServerRequests' = [q \in Requests |->
             IF q \in SameId(r) THEN NoEntry ELSE pendingServerRequests[q]]
    BY <1>4 DEF CurrentTimeRead, Asks, connection
  <2>2. /\ KeyInv'
        /\ \A q \in Requests \ {r} : Live(q)' <=> Live(q) /\ ~(q \in awaited /\ q \in SameId(r))
        /\ ~Live(r)' /\ r \notin recoveryOnly
    BY <2>1, ApplyKeeps
  <2>3. r \in SameId(r)
    BY DEF SameId
  <2>4. ASSUME NEW q \in Requests
        PROVE  /\ q \in awaited' <=> Live(q)' /\ q \notin recoveryOnly'
               /\ q \in awaited' <=> pendingServerRequests'[q] # NoEntry
               /\ pendingServerRequests'[q] \in {NoEntry, generation'}
    <3>1. CASE q = r
      BY <2>1, <2>2, <2>3, <3>1
    <3>2. CASE q # r
      BY <2>1, <2>2, <3>2 DEF OpenIsActionable
    <3>3. QED
      BY <3>1, <3>2
  <2>5. QED
    BY <2>2, <2>4 DEF OpenIsActionable
<1>5. ASSUME NEW r \in Requests,
             r \in awaited, awaited' = awaited \ {r},
             node' = [node EXCEPT ![r] = "removed"],
             pendingServerRequests' = [pendingServerRequests EXCEPT ![r] = NoEntry],
             UNCHANGED <<connected, generation, key, stamp, recoveryOnly>>
      PROVE  KeyInv' /\ OpenIsActionable'
  <2>1. r \notin recoveryOnly
    BY <1>5 DEF OpenIsActionable
  <2>2. /\ \A q \in Requests \ {r} : Live(q)' <=> Live(q)
        /\ ~Live(r)'
    BY <1>5 DEF RequestTypes, Live
  <2>3. KeyInv'
    <3>1. \A q \in Requests : Live(q)' => Live(q)
      BY <2>2
    <3>2. \A q \in recoveryOnly : Live(q)'
      BY <2>1, <2>2 DEF KeyInv, RequestTypes
    <3>3. QED
      BY <1>5, <3>1, <3>2, KeysKept
  <2>4. OpenIsActionable'
    BY <1>5, <2>1, <2>2 DEF RequestTypes, OpenIsActionable
  <2>5. QED
    BY <2>3, <2>4
<1>6. ASSUME NEW r \in Requests, Resolved(r) PROVE KeyInv' /\ OpenIsActionable'
  <2>1. /\ r \in awaited /\ awaited' = awaited \ {r}
        /\ UNCHANGED <<connected, generation, key, stamp, recoveryOnly>>
    BY <1>6 DEF Resolved, connection
  <2>2. {q \in SameId(r) : pendingServerRequests[q] = generation} = {r}
    BY <2>1, OneAwaited, EntryMeans DEF SameId
  <2>3. /\ node' = [node EXCEPT ![r] = IF Live(r) THEN "removed" ELSE @]
        /\ pendingServerRequests' = [pendingServerRequests EXCEPT ![r] = NoEntry]
    BY <1>6, <2>2 DEF Resolved
  <2>4. Live(r)
    BY <2>1 DEF OpenIsActionable
  <2>5. QED
    BY <1>5, <2>1, <2>3, <2>4
<1>7. CASE FailHead
  <2>1. /\ UNCHANGED <<connected, generation, awaited, pendingServerRequests, key, stamp, recoveryOnly>>
        /\ node' = [node EXCEPT ![Head(actions)[1]] = IF Live(Head(actions)[1]) THEN "Failed" ELSE @]
    BY <1>7 DEF FailHead, FailResponse, connection
  <2>2. \A q \in Requests : Live(q)' <=> Live(q)
    BY <2>1 DEF RequestTypes, Live
  <2>3. \A q \in recoveryOnly : Live(q)'
    BY <2>2 DEF KeyInv, RequestTypes
  <2>4. KeyInv'
    BY <2>1, <2>2, <2>3, KeysKept
  <2>5. OpenIsActionable'
    BY <2>1, <2>2 DEF OpenIsActionable
  <2>6. QED
    BY <2>4, <2>5
<1>8. CASE SendResponse
  <2>1. PICK r \in Requests : r = Head(actions)[1]
    BY <1>8, HeadAction DEF SendResponse
  <2>2. /\ CanRespond(r)
        /\ \E q \in EntriesFor(r) : awaited' = awaited \ {q}
        /\ node' = [node EXCEPT ![r] = "removed"]
        /\ pendingServerRequests' = [pendingServerRequests EXCEPT ![r] = NoEntry]
        /\ UNCHANGED <<connected, generation, key, stamp, recoveryOnly>>
    BY <1>8, <2>1 DEF SendResponse, connection
  <2>3. EntriesFor(r) = {r} /\ r \in awaited
    BY <2>2, EntryMeans DEF CanRespond, EntriesFor
  <2>4. QED
    BY <1>5, <2>2, <2>3
<1>9. CASE BridgeState \/ PendingRequestSummary \/ UNCHANGED requestVars
  BY <1>1, <1>9 DEF BridgeState, PendingRequestSummary, requestVars, connection, worker
<1>10. ASSUME NEW r \in Requests, SubmitPending(r) \/ SubmitBusy(r) \/ RemovalArrives(r)
       PROVE  KeyInv' /\ OpenIsActionable'
  BY <1>1, <1>10 DEF SubmitPending, SubmitBusy, RemovalArrives, connection, worker
<1>11. QED
  BY <1>2, <1>3, <1>4, <1>6, <1>7, <1>8, <1>9, <1>10, RequestStepCases
-----------------------------------------------------------------------------
(* Responses *)

\* A node is made once and ends once.
LifeGoesOn ==
    \A r \in Requests :
        /\ node'[r] = "absent" => node[r] = "absent"
        /\ Live(r)' => Live(r) \/ node[r] = "absent"

\* Every step keeps that.
LEMMA LifeStep == ASSUME RequestTypes, [RequestNext]_requestVars PROVE LifeGoesOn
<1> USE DEF LifeGoesOn, Live
<1>1. ASSUME NEW r \in Requests, Request(r) \/ CurrentTimeRead(r) PROVE LifeGoesOn
  <2>1. PICK state \in {"Pending", "removed"} : ApplyInteraction(r, state) /\ node[r] = "absent"
    BY <1>1 DEF Request, CurrentTimeRead, Asks
  <2>2. QED
    BY <2>1 DEF ApplyInteraction
<1>2. ASSUME NEW r \in Requests, Resolved(r) PROVE LifeGoesOn
  <2>1. \A q \in Requests : node'[q] = node[q] \/ node'[q] = "removed"
    BY <1>2 DEF Resolved, RequestTypes
  <2>2. ASSUME NEW q \in Requests, node'[q] = "absent" PROVE node[q] = "absent"
    BY <2>1, <2>2
  <2>3. ASSUME NEW q \in Requests, Live(q)' PROVE Live(q)
    BY <2>1, <2>3
  <2>4. QED
    BY <2>2, <2>3
<1>3. CASE ResetStep
  BY <1>3 DEF ResetStep, Reset
<1>4. CASE FailHead
  BY <1>4 DEF FailHead, FailResponse, RequestTypes
<1>5. CASE SendResponse
  BY <1>5 DEF SendResponse, RequestTypes
<1>6. CASE UNCHANGED node
  BY <1>6
<1>7. QED
  BY <1>1, <1>2, <1>3, <1>4, <1>5, <1>6, RequestStepCases
     DEF BridgeState, SubmitPending, SubmitBusy, RemovalArrives, PendingRequestSummary, requestVars,
         connection, worker

\* A request and a response that waits for it, when the worker takes it.
LEMMA HeadResponse ==
  ASSUME RequestTypes, ActionsInv, Take
  PROVE  \E r \in Requests, response \in Nat :
           /\ Head(actions) = <<r, response>>
           /\ IsLatest(r, response)
           /\ \A i \in DOMAIN actions' : actions'[i][1] # r
<1> DEFINE h == Head(actions)
<1>1. /\ h \in Requests \X Nat /\ h = actions[1] /\ 1 \in DOMAIN actions
      /\ \A i \in DOMAIN actions' : i + 1 \in DOMAIN actions /\ actions'[i] = actions[i + 1]
      /\ actions' \in Seq(Requests \X Nat)
  BY HeadAction
<1> HIDE DEF h
<1>2. PICK r \in Requests, response \in Nat : h = <<r, response>>
  BY <1>1
<1>3. /\ 1 \in DOMAIN actions /\ actions[1] = <<r, response>>
      /\ \A i \in DOMAIN actions' : i + 1 \in DOMAIN actions /\ actions'[i] = actions[i + 1]
      /\ DOMAIN actions' \subseteq Nat \ {0}
  BY <1>1, <1>2
<1>4. actions[1][1] = r /\ actions[1][2] = response
  BY <1>3
<1>5. ASSUME NEW i \in DOMAIN actions' PROVE actions'[i][1] # r
  BY <1>3, <1>4, <1>5 DEF ActionsInv
<1>6. IsLatest(r, response)
  BY <1>3, <1>4 DEF ActionsInv
<1>7. QED
  BY <1>2, <1>5, <1>6 DEF h

\* A node that shows no response as submitting has none on its way.
LEMMA NotOnItsWay ==
  ASSUME RequestTypes, ActionsInv, NEW r \in Requests, Live(r), AppliedLocal(r) \in {NoEntry, Kept}
  PROVE  \A i \in DOMAIN actions : actions[i][1] # r
<1>1. responseRevision[r] \in Nat /\ local[r] \in Nat \cup {NoEntry, Kept}
  BY DEF RequestTypes
<1>2. ~Submitting(r)
  BY <1>1 DEF Submitting, AppliedLocal, NoEntry, Kept
<1>3. QED
  BY <1>2 DEF ActionsInv, IsLatest

\* What sending one more action adds to the others.
LEMMA SentFacts ==
  ASSUME NEW S, NEW s \in Seq(S), NEW e \in S
  PROVE  /\ Len(s) \in Nat /\ DOMAIN s = 1 .. Len(s)
         /\ DOMAIN Append(s, e) = 1 .. Len(s) + 1
         /\ \A i \in 1 .. Len(s) : Append(s, e)[i] = s[i]
         /\ Append(s, e)[Len(s) + 1] = e
  OBVIOUS

\* The actions on their way stay those of the nodes they were written for.
LEMMA ActionsKept ==
  ASSUME RequestTypes, ActionsInv, UNCHANGED actions, LifeGoesOn,
         \A r \in Requests :
           Live(r) /\ Live(r)' /\ Submitting(r) =>
             Submitting(r)' /\ authored'[r] = authored[r] /\ submitted'[r] = submitted[r]
  PROVE  ActionsInv'
<1>1. \A i \in DOMAIN actions : actions[i][1] \in Requests
  BY DEF RequestTypes
<1>2. QED
  BY <1>1 DEF ActionsInv, IsLatest, LifeGoesOn

\* An action on its way carries the latest response to its request.
LEMMA ActionsStep == RequestTypes /\ ActionsInv /\ [RequestNext]_requestVars => ActionsInv'
<1> SUFFICES ASSUME RequestTypes, ActionsInv, [RequestNext]_requestVars PROVE ActionsInv'
  OBVIOUS
<1>1. LifeGoesOn
  BY LifeStep
<1>2. CASE UNCHANGED <<actions, shell, responseRevision>>
  BY <1>1, <1>2, ActionsKept DEF Submitting, shell
<1>3. CASE FailHead
  <2>1. PICK r \in Requests : /\ Head(actions)[1] = r
                              /\ \A i \in DOMAIN actions' : actions'[i][1] # r
    BY <1>3, HeadResponse DEF FailHead
  <2>2. /\ \A i \in DOMAIN actions' : i + 1 \in DOMAIN actions /\ actions'[i] = actions[i + 1]
        /\ DOMAIN actions' \subseteq Nat
        /\ actions' \in Seq(Requests \X Nat)
    BY <1>3, HeadAction DEF FailHead
  <2>3. /\ responseRevision' = [responseRevision EXCEPT ![r] = IF Live(r) THEN @ + 1 ELSE @]
        /\ UNCHANGED <<local, authored, submitted>>
    BY <1>3, <2>1 DEF FailHead, FailResponse, shell
  <2>4. \A q \in Requests \ {r} : Submitting(q)' <=> Submitting(q)
    BY <2>3 DEF Submitting, RequestTypes
  <2>5. \A i \in DOMAIN actions' : actions'[i][1] \in Requests \ {r}
    BY <2>1, <2>2
  <2>6. ASSUME NEW i \in DOMAIN actions' PROVE IsLatest(actions[i][1], actions[i][2])'
    <3>1. /\ i + 1 \in DOMAIN actions /\ actions'[i] = actions[i + 1]
          /\ actions'[i][1] \in Requests \ {r}
      BY <2>2, <2>5, <2>6
    <3>2. IsLatest(actions'[i][1], actions'[i][2])
      BY <3>1 DEF ActionsInv
    <3>3. QED
      BY <1>1, <2>3, <2>4, <3>1, <3>2 DEF IsLatest, LifeGoesOn
  <2>7. \A i, j \in DOMAIN actions' : actions'[i][1] = actions'[j][1] => i = j
    BY <2>2 DEF ActionsInv
  <2>8. QED
    BY <2>6, <2>7 DEF ActionsInv
<1>4. CASE SendResponse
  <2>1. /\ \A i \in DOMAIN actions' : i + 1 \in DOMAIN actions /\ actions'[i] = actions[i + 1]
        /\ DOMAIN actions' \subseteq Nat
        /\ actions' \in Seq(Requests \X Nat)
    BY <1>4, HeadAction DEF SendResponse
  <2>2. UNCHANGED <<local, authored, submitted, responseRevision>>
    BY <1>4 DEF SendResponse, shell
  <2>3. \A q \in Requests : Submitting(q)' <=> Submitting(q)
    BY <2>2 DEF Submitting
  <2>4. \A i \in DOMAIN actions' : actions'[i][1] \in Requests
    BY <2>1
  <2>5. ASSUME NEW i \in DOMAIN actions'
        PROVE  IsLatest(actions[i][1], actions[i][2])'
    <3>1. PICK r \in Requests : r = actions'[i][1] /\ r = actions[i + 1][1]
      BY <2>1, <2>4
    <3>2. IsLatest(r, actions'[i][2])
      BY <2>1, <3>1 DEF ActionsInv
    <3>3. QED
      BY <1>1, <2>2, <2>3, <3>1, <3>2 DEF LifeGoesOn, IsLatest
  <2>6. ASSUME NEW i \in DOMAIN actions', NEW j \in DOMAIN actions', actions'[i][1] = actions'[j][1]
        PROVE  i = j
    <3>1. i + 1 = j + 1
      BY <2>1, <2>6 DEF ActionsInv
    <3>2. QED
      BY <2>1, <3>1
  <2>7. QED
    BY <2>5, <2>6 DEF ActionsInv
<1>5. ASSUME NEW r \in Requests, SubmitPending(r) PROVE ActionsInv'
  <2>1. /\ Live(r) /\ \A i \in DOMAIN actions : actions[i][1] \in Requests \ {r}
        /\ UNCHANGED <<node, responseRevision>>
        /\ authored' = [authored EXCEPT ![r] = @ + 1]
        /\ submitted' = [submitted EXCEPT ![r] = authored'[r]]
    <3>1. \A i \in DOMAIN actions : actions[i][1] \in Requests
      BY DEF RequestTypes
    <3>2. QED
      BY <1>5, <3>1, NotOnItsWay DEF SubmitPending, Writes, worker
  <2>2. CASE local' = [local EXCEPT ![r] = Kept] /\ UNCHANGED actions
    <3>1. \A q \in Requests \ {r} : /\ Submitting(q)' <=> Submitting(q)
                                     /\ authored'[q] = authored[q] /\ submitted'[q] = submitted[q]
      BY <2>1, <2>2 DEF Submitting, RequestTypes
    <3>2. QED
      BY <2>1, <2>2, <3>1 DEF ActionsInv, IsLatest, Live
  <2>3. CASE /\ local' = [local EXCEPT ![r] = responseRevision[r]]
             /\ actions' = Append(actions, <<r, authored'[r]>>)
    <3>1. \A q \in Requests \ {r} : /\ Submitting(q)' <=> Submitting(q)
                                     /\ authored'[q] = authored[q] /\ submitted'[q] = submitted[q]
      BY <2>1, <2>3 DEF Submitting, RequestTypes
    <3>2. Submitting(r)'
      BY <2>1, <2>3 DEF Submitting, RequestTypes
    <3>3. authored'[r] \in Nat /\ submitted'[r] = authored'[r]
      BY <2>1 DEF RequestTypes
    <3>4. /\ Len(actions) \in Nat /\ DOMAIN actions = 1 .. Len(actions)
          /\ DOMAIN actions' = 1 .. Len(actions) + 1
          /\ \A i \in DOMAIN actions : actions'[i] = actions[i]
          /\ actions'[Len(actions) + 1] = <<r, authored'[r]>>
      <4>1. actions \in Seq(Requests \X Nat) /\ <<r, authored'[r]>> \in Requests \X Nat
        BY <3>3 DEF RequestTypes
      <4>2. QED
        BY <2>3, <4>1, SentFacts
    <3>5. actions'[Len(actions) + 1][1] = r /\ actions'[Len(actions) + 1][2] = authored'[r]
      BY <3>4
    <3>6. ASSUME NEW i \in DOMAIN actions'
          PROVE  /\ IsLatest(actions[i][1], actions[i][2])'
                 /\ i \in DOMAIN actions \/ i = Len(actions) + 1
      <4>1. CASE i \in DOMAIN actions
        <5>1. PICK q \in Requests \ {r} : q = actions[i][1] /\ actions'[i] = actions[i]
          BY <2>1, <3>4, <4>1
        <5>2. IsLatest(q, actions[i][2])
          BY <4>1, <5>1 DEF ActionsInv
        <5>3. QED
          BY <2>1, <3>1, <4>1, <5>1, <5>2 DEF IsLatest, Live
      <4>2. CASE i = Len(actions) + 1
        <5>1. node'[r] # "absent"
          BY <2>1 DEF Live
        <5>2. QED
          BY <3>2, <3>3, <3>5, <4>2, <5>1 DEF IsLatest
      <4>3. QED
        BY <3>4, <4>1, <4>2
    <3>7. ASSUME NEW i \in DOMAIN actions', NEW j \in DOMAIN actions', actions'[i][1] = actions'[j][1]
          PROVE  i = j
      BY <2>1, <3>4, <3>5, <3>6, <3>7 DEF ActionsInv
    <3>8. QED
      BY <3>6, <3>7 DEF ActionsInv
  <2>4. QED
    BY <1>5, <2>2, <2>3 DEF SubmitPending
<1>6. ASSUME NEW r \in Requests, RemovalArrives(r) PROVE ActionsInv'
  <2>1. ~Live(r) /\ UNCHANGED <<actions, authored, submitted, responseRevision>>
        /\ local' = [local EXCEPT ![r] = NoEntry]
    BY <1>6 DEF RemovalArrives, Live, worker
  <2>2. \A q \in Requests \ {r} : Submitting(q)' <=> Submitting(q)
    BY <2>1 DEF Submitting, RequestTypes
  <2>3. QED
    BY <1>1, <2>1, <2>2, ActionsKept
<1>7. CASE PendingRequestSummary
  <2>1. /\ UNCHANGED <<actions, authored, submitted, responseRevision>>
        /\ \A q \in Requests : Live(q) => local'[q] = AppliedLocal(q)
    BY <1>7 DEF PendingRequestSummary, worker
  <2>2. \A q \in Requests : Submitting(q) => AppliedLocal(q) = local[q]
    BY DEF Submitting, AppliedLocal, RequestTypes
  <2>3. \A q \in Requests : Live(q) /\ Submitting(q) => Submitting(q)'
    BY <2>1, <2>2 DEF Submitting
  <2>4. QED
    BY <1>1, <2>1, <2>3, ActionsKept
<1>8. ASSUME NEW r \in Requests, SubmitBusy(r) PROVE ActionsInv'
  <2>1. /\ Live(r) /\ \A i \in DOMAIN actions : actions[i][1] \in Requests \ {r}
        /\ UNCHANGED <<node, responseRevision, actions, submitted>>
        /\ authored' = [authored EXCEPT ![r] = @ + 1]
        /\ local' = [local EXCEPT ![r] = AppliedLocal(r)]
    <3>1. \A i \in DOMAIN actions : actions[i][1] \in Requests
      BY DEF RequestTypes
    <3>2. QED
      BY <1>8, <3>1, NotOnItsWay DEF SubmitBusy, Writes, worker
  <2>2. \A q \in Requests \ {r} : /\ Submitting(q)' <=> Submitting(q)
                                   /\ authored'[q] = authored[q]
    BY <2>1 DEF Submitting, RequestTypes
  <2>3. QED
    BY <2>1, <2>2 DEF ActionsInv, IsLatest, Live
<1>9. QED
  BY <1>2, <1>3, <1>4, <1>5, <1>6, <1>7, <1>8, RequestStepCases
     DEF ResetStep, Reset, BridgeState, Request, CurrentTimeRead, Resolved, requestVars, connection, worker, shell
\* What ShellInv says of one request.
ShellOK(r) ==
    /\ node[r] = "absent" => submitted[r] = 0 /\ local[r] = NoEntry
    /\ Live(r) /\ local[r] >= 0 /\ responseRevision[r] > local[r] => retained[r] = submitted[r]
    /\ Live(r) /\ submitted[r] > 0 => local[r] # NoEntry \/ retained[r] = submitted[r]
    /\ Live(r) \/ node[r] = "absent" => sent[r] = <<>>

\* ShellInv, one request at a time.
LEMMA ShellParts == ShellInv <=> \A r \in Requests : ShellOK(r)
  BY DEF ShellInv, ShellOK

\* What leaves the responses of a request alone keeps them, whatever becomes of its node.
LEMMA ShellKept ==
  ASSUME RequestTypes, ShellInv, LifeGoesOn, NEW r \in Requests,
         local'[r] = local[r], submitted'[r] = submitted[r], retained'[r] = retained[r],
         responseRevision'[r] = responseRevision[r], sent'[r] = sent[r]
  PROVE  ShellOK(r)'
<1>1. ShellOK(r)
  BY ShellParts
<1>3. CASE node[r] = "absent"
  <2>1. submitted'[r] = 0 /\ local'[r] = NoEntry /\ sent'[r] = <<>>
    BY <1>1, <1>3 DEF ShellOK
  <2>2. ~(submitted'[r] > 0) /\ ~(local'[r] >= 0)
    BY <2>1 DEF NoEntry
  <2>3. QED
    BY <2>1, <2>2 DEF ShellOK
<1>4. CASE node[r] # "absent"
  <2>1. node'[r] # "absent" /\ (Live(r)' => Live(r))
    BY <1>4 DEF LifeGoesOn
  <2>2. QED
    BY <1>1, <2>1 DEF ShellOK
<1>5. QED
  BY <1>3, <1>4

\* An entry of the shell is erased only when its response is with the node.
LEMMA ShellApplied ==
  ASSUME RequestTypes, ShellInv, NEW r \in Requests, Live(r), node'[r] = node[r],
         local'[r] = AppliedLocal(r), submitted'[r] = submitted[r], retained'[r] = retained[r],
         responseRevision'[r] = responseRevision[r], sent'[r] = sent[r]
  PROVE  ShellOK(r)'
<1>1. ShellOK(r)
  BY ShellParts
<1>2. /\ responseRevision[r] \in Nat /\ local[r] \in Nat \cup {NoEntry, Kept}
      /\ NoEntry = -2 /\ Kept = -1
  BY DEF RequestTypes, NoEntry, Kept
<1>3. CASE AppliedLocal(r) = local[r]
  BY <1>1, <1>3 DEF ShellOK, Live
<1>4. CASE AppliedLocal(r) # local[r]
  <2>1. local[r] >= 0 /\ responseRevision[r] > local[r] /\ AppliedLocal(r) = NoEntry
    BY <1>2, <1>4 DEF AppliedLocal
  <2>2. retained[r] = submitted[r] /\ sent[r] = <<>> /\ node[r] # "absent" /\ local'[r] = NoEntry
    BY <1>1, <2>1 DEF ShellOK, Live
  <2>3. QED
    BY <1>2, <2>2 DEF ShellOK
<1>5. QED
  BY <1>3, <1>4

\* What the shell keeps of a request stays the newest response it submitted.
LEMMA ShellStep == RequestTypes /\ ActionsInv /\ ShellInv /\ [RequestNext]_requestVars => ShellInv'
<1> SUFFICES ASSUME RequestTypes, ActionsInv, ShellInv, [RequestNext]_requestVars,
                    NEW r \in Requests
             PROVE  ShellOK(r)'
  BY ShellParts DEF ShellInv, ShellOK
<1>1. LifeGoesOn /\ ShellOK(r)
  BY LifeStep, ShellParts
<1>2. /\ submitted[r] \in Nat /\ responseRevision[r] \in Nat /\ retained[r] \in Nat
      /\ local[r] \in Nat \cup {NoEntry, Kept} /\ NoEntry = -2 /\ Kept = -1
  BY DEF RequestTypes, NoEntry, Kept
<1>3. CASE UNCHANGED <<local, submitted, retained, responseRevision, sent>>
  BY <1>1, <1>3, ShellKept
<1>4. CASE FailHead
  <2>1. PICK q \in Requests, response \in Nat :
          Head(actions) = <<q, response>> /\ IsLatest(q, response)
    BY <1>4, HeadResponse DEF FailHead
  <2>2. Head(actions)[1] = q /\ Head(actions)[2] = response
    BY <2>1
  <2>3. /\ retained' = [retained EXCEPT ![q] = IF Live(q) THEN response ELSE @]
        /\ responseRevision' = [responseRevision EXCEPT ![q] = IF Live(q) THEN @ + 1 ELSE @]
        /\ UNCHANGED <<local, submitted, sent>>
    BY <1>4, <2>2 DEF FailHead, FailResponse, shell
  <2>4. CASE r = q /\ Live(q)
    <3>1. retained'[r] = submitted'[r]
      BY <2>1, <2>3, <2>4 DEF IsLatest, RequestTypes
    <3>2. node'[r] # "absent"
      BY <1>1, <2>1, <2>4 DEF IsLatest, LifeGoesOn
    <3>3. sent'[r] = <<>>
      BY <1>1, <2>3, <2>4 DEF ShellOK
    <3>4. QED
      BY <3>1, <3>2, <3>3 DEF ShellOK
  <2>5. CASE ~(r = q /\ Live(q))
    <3>1. retained'[r] = retained[r] /\ responseRevision'[r] = responseRevision[r]
      BY <2>3, <2>5 DEF RequestTypes
    <3>2. QED
      BY <1>1, <2>3, <3>1, ShellKept
  <2>6. QED
    BY <2>4, <2>5
<1>5. CASE SendResponse
  <2>1. PICK q \in EntriesFor(Head(actions)[1]) : sent' = [sent EXCEPT ![q] = Append(@, Head(actions))]
    BY <1>5 DEF SendResponse
  <2>2. q = Head(actions)[1]
    BY DEF EntriesFor
  <2>3. /\ UNCHANGED <<local, submitted, retained, responseRevision>>
        /\ node' = [node EXCEPT ![q] = "removed"]
    BY <1>5, <2>2 DEF SendResponse, shell
  <2>4. CASE r = q
    <3>1. node'[r] = "removed"
      BY <2>3, <2>4 DEF RequestTypes
    <3>2. QED
      BY <3>1 DEF ShellOK, Live
  <2>5. CASE r # q
    BY <1>1, <2>1, <2>3, <2>5, ShellKept DEF RequestTypes
  <2>6. QED
    BY <2>4, <2>5
<1>6. ASSUME NEW q \in Requests, SubmitPending(q) PROVE ShellOK(r)'
  <2>1. /\ Live(q) /\ UNCHANGED <<node, retained, responseRevision, sent>>
        /\ submitted' = [submitted EXCEPT ![q] = authored'[q]]
        /\ \/ local' = [local EXCEPT ![q] = Kept]
           \/ local' = [local EXCEPT ![q] = responseRevision[q]]
    BY <1>6 DEF SubmitPending, Writes, worker
  <2>2. CASE r = q
    <3>1. /\ node'[r] # "absent" /\ Live(r) /\ sent'[r] = <<>>
          /\ local'[r] = Kept \/ local'[r] = responseRevision'[r]
      BY <1>1, <2>1, <2>2 DEF ShellOK, Live, RequestTypes
    <3>2. /\ local'[r] # NoEntry
          /\ ~(local'[r] >= 0 /\ responseRevision'[r] > local'[r])
      BY <1>2, <2>1, <3>1
    <3>3. QED
      BY <3>1, <3>2 DEF ShellOK
  <2>3. CASE r # q
    BY <1>1, <2>1, <2>3, ShellKept DEF RequestTypes
  <2>4. QED
    BY <2>2, <2>3
<1>7. ASSUME NEW q \in Requests, RemovalArrives(q) PROVE ShellOK(r)'
  <2>1. /\ node[q] = "removed" /\ local' = [local EXCEPT ![q] = NoEntry]
        /\ UNCHANGED <<node, submitted, retained, responseRevision, sent>>
    BY <1>7 DEF RemovalArrives, worker
  <2>2. CASE r = q
    BY <2>1, <2>2 DEF ShellOK, Live
  <2>3. CASE r # q
    BY <1>1, <2>1, <2>3, ShellKept DEF RequestTypes
  <2>4. QED
    BY <2>2, <2>3
<1>8. CASE PendingRequestSummary
  <2>1. /\ local'[r] = IF Live(r) THEN AppliedLocal(r) ELSE NoEntry
        /\ UNCHANGED <<node, submitted, retained, responseRevision, sent>>
    BY <1>8 DEF PendingRequestSummary, worker
  <2>2. CASE ~Live(r)
    BY <1>1, <2>1, <2>2 DEF ShellOK, Live
  <2>3. CASE Live(r)
    BY <2>1, <2>3, ShellApplied
  <2>4. QED
    BY <2>2, <2>3
<1>9. ASSUME NEW q \in Requests, SubmitBusy(q) PROVE ShellOK(r)'
  <2>1. /\ Live(q) /\ local' = [local EXCEPT ![q] = AppliedLocal(q)]
        /\ UNCHANGED <<node, submitted, retained, responseRevision, sent>>
    BY <1>9 DEF SubmitBusy, Writes, worker
  <2>2. CASE r = q
    <3>1. local'[r] = AppliedLocal(r) /\ Live(r)
      BY <2>1, <2>2 DEF RequestTypes
    <3>2. QED
      BY <2>1, <3>1, ShellApplied
  <2>3. CASE r # q
    BY <1>1, <2>1, <2>3, ShellKept DEF RequestTypes
  <2>4. QED
    BY <2>2, <2>3
<1>10. QED
  BY <1>3, <1>4, <1>5, <1>6, <1>7, <1>8, <1>9, RequestStepCases
     DEF ResetStep, Reset, BridgeState, Request, CurrentTimeRead, Resolved, requestVars, connection, worker, shell

\* Only resolveInteraction passes on a response.
LEMMA AnswerStep ==
  RequestInv /\ [RequestNext]_requestVars =>
    \A r \in Requests : sent'[r] # sent[r] =>
        r \in awaited /\ sent[r] = <<>> /\ sent'[r] = <<<<r, authored[r]>>>>
<1> SUFFICES ASSUME RequestInv, [RequestNext]_requestVars, NEW r \in Requests, sent'[r] # sent[r]
             PROVE  r \in awaited /\ sent[r] = <<>> /\ sent'[r] = <<<<r, authored[r]>>>>
  OBVIOUS
<1> USE DEF RequestInv
<1>1. SendResponse
  BY RequestStepCases
     DEF ResetStep, Reset, BridgeState, Request, CurrentTimeRead, Resolved, FailHead, FailResponse,
         SubmitPending, SubmitBusy, RemovalArrives, PendingRequestSummary, requestVars, connection,
         worker, shell
<1>2. PICK q \in Requests, response \in Nat :
        Head(actions) = <<q, response>> /\ IsLatest(q, response)
  BY <1>1, HeadResponse DEF SendResponse
<1>3. Head(actions)[1] = q
  BY <1>2
<1>4. PICK p \in EntriesFor(q) : sent' = [sent EXCEPT ![p] = Append(@, Head(actions))]
  BY <1>1, <1>3 DEF SendResponse
<1>5. p = q /\ r = q
  BY <1>4 DEF EntriesFor, RequestTypes
<1>6. CanRespond(q)
  BY <1>1, <1>3 DEF SendResponse
<1>7. q \in awaited
  BY <1>4, <1>5, EntryMeans DEF EntriesFor
<1>8. Live(q)
  BY <1>6 DEF CanRespond
<1>9. sent[r] = <<>> /\ response = authored[q]
  BY <1>2, <1>5, <1>8 DEF ShellInv, IsLatest
<1>10. sent'[r] = Append(sent[r], Head(actions))
  BY <1>4, <1>5 DEF RequestTypes
<1>11. sent'[r] = << <<q, response>> >>
  BY <1>2, <1>9, <1>10
<1>12. QED
  BY <1>5, <1>7, <1>9, <1>11

-----------------------------------------------------------------------------
(* The theorems *)

\* The inductive invariant of the requests, their keys, and the responses to them.
THEOREM RequestInvariant == RequestSpec => []RequestInv
<1>1. RequestInv /\ [RequestNext]_requestVars => RequestInv'
  BY RequestTypesStep, OpenStep, ActionsStep, ShellStep DEF RequestInv
<1>2. QED
  BY RequestInvAtStart, <1>1, PTL DEF RequestSpec

\* What the user is offered as open is exactly what the server waits for and has a typed entry
\* of this connection (registerServerRequest and applyInteraction against resets and reused ids).
THEOREM OfferedIsAwaited == RequestSpec => []OpenIsActionable
<1>1. RequestInv => OpenIsActionable
  BY DEF RequestInv
<1>2. QED
  BY RequestInvariant, <1>1, PTL

\* Whatever the server asks later, a request a reset ended stays for review, and the last
\* response that submitPending was given for a live request is in the shell or with the node,
\* however it failed since (failInteractionResponse, applyLocalPending, clearTransientState).  What
\* the user wrote while the graph was busy is not submitted, and disturbs no earlier response.
THEOREM NoResponseLost == RequestSpec => []ResponsesAreKept
<1>1. RequestInv => ResponsesAreKept
  BY DEF RequestInv, KeyInv, RequestTypes, ShellInv, ResponsesAreKept
<1>2. QED
  BY RequestInvariant, <1>1, PTL

\* The bridge gets a response once, the one written last for that very request, and only while
\* the server still waits for it (resolveInteraction against replacement, withdrawal, resets).
THEOREM RightAnswerOnce == RequestSpec => AnswersReachTheirRequest
<1>1. RequestInv /\ [RequestNext]_requestVars =>
        [\A r \in Requests : sent'[r] # sent[r] =>
           /\ r \in awaited /\ sent[r] = <<>>
           /\ sent'[r] = <<<<r, authored[r]>>>>]_requestVars
  BY AnswerStep
<1>2. QED
  BY RequestInvariant, <1>1, PTL DEF RequestSpec, AnswersReachTheirRequest
=============================================================================
