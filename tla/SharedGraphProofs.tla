-------------------------- MODULE SharedGraphProofs --------------------------
(***************************************************************************)
(* Proofs about what the two threads share.                                *)
(*                                                                         *)
(* Part 1, the channel (ThreadChannels): for every capacity, reserve and   *)
(* number of transactions, no committed revision is forgotten, a provider  *)
(* authority is never later than the reset it belongs to, WorkerStopped    *)
(* finds room, and the head of the queue is overtaken at most once.        *)
(*                                                                         *)
(* Part 2, the graph (GraphStructure): for any nodes, ids, kinds and       *)
(* relations, cached positions, parents and incoming edges agree with the  *)
(* lists they stand for, the tree has no cycle, and every operation        *)
(* reports all it changed.                                                 *)
(***************************************************************************)
EXTENDS ThreadChannels, GraphStructure, FiniteSetTheorems, SequenceTheorems, WellFoundedInduction, TLAPS

-----------------------------------------------------------------------------
(*                          Part 1: the channel                            *)

(* What each thread has in its hands, by where it is.                      *)
HandsInv ==
  /\ workerAt \in {"authority", "admit"} =>
       /\ sending.type = "change"
       /\ sending.revision = revision /\ revision # 0
  /\ workerAt = "idle" => sending = NoMessage
  /\ receiveAt \in {"out", "exchange", "pop"} => received = NoMessage
  /\ receiveAt = "authority" =>
       received.type = "rescan" /\ received.authority = 0

(* The revision the worker still holds is ahead of everything sent.        *)
Sent(r) ==
  \/ r <= rescanRevision
  \/ \E m \in Queued : r \in Covers(m)
  \/ r \in Covers(received)
  \/ r \in told

HeldIsAhead ==
  \A r \in Revision \ {0} :
    Sent(r) => r <= revision /\ (workerAt \in {"authority", "admit"} => r < revision)

(* A reset's authority travels with its own change.                        *)
CarriesAuthority(m) ==
  m.type = "change" /\ m.revision \in resets => m.authority = m.revision

ChangesCarry ==
  /\ workerAt \in {"authority", "admit"} => CarriesAuthority(sending)
  /\ \A m \in Queued : CarriesAuthority(m) /\ m.type # "rescan"
  /\ receiveAt \in {"clear", "return"} => CarriesAuthority(received)
  /\ receiveAt = "clear" => received.type # "rescan"
  /\ workerAt = "authority" => sending.authority = revision
  /\ pendingAuthority <= revision
  /\ \A r \in resets : 0 < r /\ r <= revision

(* Once stored, a reset's authority is pending, being handed over, or told.*)
AuthorityKnown ==
  \A r \in resets :
    \/ workerAt = "authority" /\ r = revision
    \/ r <= pendingAuthority
    \/ r <= received.authority
    \/ r <= authorityTold

(* Short of WorkerStopped the worker leaves the reserved slots alone.      *)
ReserveInv ==
  workerAt # "stopped" /\ sending.type # "stopped"
    => sizeSeen <= Capacity - ReservedSlots

(* After a rescan that overtook the head, the queue has its turn and Qt    *)
(* surely sees the head.                                                   *)
TurnInv ==
  \/ overtaken = 0
  \/ /\ overtaken = 1 /\ queuedTurn /\ surelySeen > 0
     /\ receiveAt \in {"authority", "return", "out"}

ChannelInv ==
  /\ TypeOK /\ HandsInv /\ HeldIsAhead /\ ChangesCarry /\ AuthorityKnown
  /\ ReserveInv /\ TurnInv
  /\ NothingForgotten /\ AuthorityArrivesInTime

----------------------------------------------------------------------------
(* The queue, as the set of its messages.                                  *)

(* A push adds its message.                                                *)
LEMMA QueuedAfterAppend ==
  ASSUME workerToQt \in Seq(MessageType), NEW m \in MessageType,
         workerToQt' = Append(workerToQt, m)
  PROVE  /\ workerToQt' \in Seq(MessageType)
         /\ Len(workerToQt') = Len(workerToQt) + 1
         /\ Queued' = Queued \cup {m}
<1>1. /\ workerToQt' \in Seq(MessageType)
      /\ Len(workerToQt') = Len(workerToQt) + 1
      /\ DOMAIN workerToQt = 1 .. Len(workerToQt)
      /\ DOMAIN workerToQt' = 1 .. Len(workerToQt) + 1
  OBVIOUS
<1>2. /\ \A i \in 1 .. Len(workerToQt) : workerToQt'[i] = workerToQt[i]
      /\ workerToQt'[Len(workerToQt) + 1] = m
  OBVIOUS
<1>3. Queued' \subseteq Queued \cup {m}
  <2> SUFFICES ASSUME NEW i \in DOMAIN workerToQt'
               PROVE  workerToQt'[i] \in Queued \cup {m}
    BY DEF Queued
  <2>1. i \in DOMAIN workerToQt \/ i = Len(workerToQt) + 1
    BY <1>1
  <2>2. QED
    BY <1>1, <1>2, <2>1 DEF Queued
<1>4. Queued \subseteq Queued'
  <2> SUFFICES ASSUME NEW i \in DOMAIN workerToQt
               PROVE  workerToQt[i] \in Queued'
    BY DEF Queued
  <2>1. i \in DOMAIN workerToQt' /\ workerToQt'[i] = workerToQt[i]
    BY <1>1, <1>2
  <2>2. QED
    BY <2>1 DEF Queued
<1>5. m \in Queued'
  <2>1. Len(workerToQt) + 1 \in DOMAIN workerToQt'
    BY <1>1
  <2>2. QED
    BY <1>2, <2>1 DEF Queued
<1>6. QED
  BY <1>1, <1>3, <1>4, <1>5

(* A pop takes a message that was queued and leaves the others.            *)
LEMMA QueuedAfterTail ==
  ASSUME workerToQt \in Seq(MessageType), workerToQt # <<>>,
         workerToQt' = Tail(workerToQt)
  PROVE  /\ workerToQt' \in Seq(MessageType)
         /\ Len(workerToQt') + 1 = Len(workerToQt)
         /\ Head(workerToQt) \in MessageType
         /\ Queued = Queued' \cup {Head(workerToQt)}
<1>1. /\ workerToQt' \in Seq(MessageType)
      /\ Len(workerToQt) \in Nat \ {0}
      /\ Len(workerToQt') = Len(workerToQt) - 1
      /\ DOMAIN workerToQt = 1 .. Len(workerToQt)
      /\ DOMAIN workerToQt' = 1 .. Len(workerToQt) - 1
      /\ Head(workerToQt) = workerToQt[1]
      /\ Head(workerToQt) \in MessageType
  OBVIOUS
<1>2. \A i \in 1 .. Len(workerToQt) - 1 : workerToQt'[i] = workerToQt[i + 1]
  OBVIOUS
<1>3. Queued \subseteq Queued' \cup {Head(workerToQt)}
  <2> SUFFICES ASSUME NEW i \in DOMAIN workerToQt
               PROVE  workerToQt[i] \in Queued' \cup {Head(workerToQt)}
    BY DEF Queued
  <2>1. CASE i = 1
    BY <1>1, <2>1
  <2>2. CASE i # 1
    <3>1. i - 1 \in DOMAIN workerToQt' /\ (i - 1) + 1 = i
      BY <1>1, <2>2
    <3>2. workerToQt[i] = workerToQt'[i - 1]
      BY <1>1, <1>2, <3>1
    <3>3. QED
      BY <3>1, <3>2 DEF Queued
  <2>3. QED
    BY <2>1, <2>2
<1>4. Queued' \subseteq Queued
  <2> SUFFICES ASSUME NEW i \in DOMAIN workerToQt'
               PROVE  workerToQt'[i] \in Queued
    BY DEF Queued
  <2>1. i + 1 \in DOMAIN workerToQt /\ workerToQt'[i] = workerToQt[i + 1]
    BY <1>1, <1>2
  <2>2. QED
    BY <2>1 DEF Queued
<1>5. Head(workerToQt) \in Queued
  BY <1>1 DEF Queued
<1>6. QED
  BY <1>1, <1>3, <1>4, <1>5

(* What the messages are.                                                  *)
LEMMA MessageFields ==
  ASSUME NEW m \in MessageType
  PROVE  /\ m.revision \in Revision /\ m.authority \in Revision
         /\ Covers(m) \subseteq Revision
         /\ \A r \in Covers(m) : r <= m.revision
         /\ m.type = "change" => Covers(m) = {m.revision}
         /\ m.type = "rescan" => Covers(m) = 1 .. m.revision
         /\ m.type \notin {"change", "rescan"} => Covers(m) = {}
<1>1. /\ m.revision \in Revision /\ m.authority \in Revision
      /\ m.type \in {"none", "change", "rescan", "diagnostic", "stopped"}
  BY DEF MessageType
<1>2. 1 .. m.revision \subseteq Revision
  BY <1>1, MaxRevisionAssumption DEF Revision
<1>3. m.revision \in Nat
  BY <1>1, MaxRevisionAssumption DEF Revision
<1>4. QED
  BY <1>1, <1>2, <1>3 DEF Covers

\* Messages and their fields.
LEMMA MessageIsTyped ==
  ASSUME NEW type \in {"none", "change", "rescan", "diagnostic", "stopped"},
         NEW r \in Revision, NEW a \in Revision
  PROVE  /\ Message(type, r, a) \in MessageType
         /\ Message(type, r, a).type = type
         /\ Message(type, r, a).revision = r
         /\ Message(type, r, a).authority = a
  BY DEF Message, MessageType

\* The absence of a message has the type of one.
LEMMA NoMessageIsTyped ==
  /\ NoMessage \in MessageType
  /\ NoMessage.type = "none" /\ NoMessage.revision = 0 /\ NoMessage.authority = 0
  BY MessageIsTyped, MaxRevisionAssumption DEF NoMessage, Revision

----------------------------------------------------------------------------
(* Types                                                                   *)

\* The types hold in the beginning.
LEMMA TypeInit == Init => TypeOK
<1> SUFFICES ASSUME Init PROVE TypeOK
  OBVIOUS
<1>1. 0 \in Revision /\ 0 \in 0 .. Capacity
  BY CapacityAssumption, MaxRevisionAssumption DEF Revision
<1>2. workerToQt \in Seq(MessageType) /\ Len(workerToQt) = 0
  BY DEF Init
<1>3. sending \in MessageType /\ received \in MessageType
  BY NoMessageIsTyped DEF Init
<1>4. /\ Len(workerToQt) <= sizeSeen
      /\ beforeRescan \in 0 .. Len(workerToQt)
      /\ surelySeen \in 0 .. Len(workerToQt)
  BY <1>2 DEF Init
<1>5. /\ revision \in Revision /\ sizeSeen \in 0 .. Capacity
      /\ rescanRevision \in Revision /\ pendingAuthority \in Revision
      /\ authorityTold \in Revision /\ overtaken \in Nat
      /\ resets \subseteq Revision /\ told \subseteq Revision
  BY <1>1 DEF Init
<1>6. /\ workerAt \in {"idle", "authority", "admit", "wake", "stopped"}
      /\ receiveAt \in {"out", "exchange", "authority", "pop", "clear", "return"}
      /\ oversized \in BOOLEAN /\ wakeSignaled \in BOOLEAN /\ queuedTurn \in BOOLEAN
  BY DEF Init
<1>7. QED
  BY <1>2, <1>3, <1>4, <1>5, <1>6 DEF TypeOK

\* Every step keeps the types.
LEMMA TypeStep == TypeOK /\ [Next]_vars => TypeOK'
<1> SUFFICES ASSUME TypeOK, [Next]_vars PROVE TypeOK'
  OBVIOUS
<1> USE CapacityAssumption, ReservedSlotsAssumption, MaxRevisionAssumption
<1>1. /\ Len(workerToQt) \in Nat /\ sizeSeen \in Nat
      /\ SizesApprox \subseteq 0 .. sizeSeen
      /\ \A size \in SizesApprox : Len(workerToQt) <= size
  BY DEF TypeOK, SizesApprox
<1>2. ASSUME NEW isReset \in BOOLEAN, NEW isOversized \in BOOLEAN,
             Commit(isReset, isOversized)
      PROVE  TypeOK'
  <2>1. revision + 1 \in Revision /\ 0 \in Revision
    BY <1>2 DEF Commit, TypeOK, Revision
  <2>2. sending' \in MessageType
    BY <1>2, <2>1, MessageIsTyped DEF Commit
  <2>3. QED
    BY <1>2, <2>1, <2>2 DEF Commit, TypeOK, sharedVars, qtVars
<1>3. CASE StoreAuthority
  BY <1>3, MessageFields DEF StoreAuthority, TypeOK, qtVars
<1>4. CASE AdmitChange
  BY <1>1, <1>4, QueuedAfterAppend DEF AdmitChange, HasRoom, TypeOK, qtVars
<1>5. CASE CoalesceChange
  <2>1. rescanRevision' \in Revision /\ beforeRescan' \in 0 .. Len(workerToQt)
    BY <1>1, <1>5, MessageFields DEF CoalesceChange, RequireRescan, TypeOK
  <2>2. QED
    BY <1>1, <1>5, <2>1 DEF CoalesceChange, TypeOK, qtVars
<1>6. CASE SendDiagnostic
  <2>1. sending' \in MessageType
    BY <1>6, MessageIsTyped DEF SendDiagnostic, Revision
  <2>2. QED
    BY <1>1, <1>6, <2>1, QueuedAfterAppend DEF SendDiagnostic, HasRoom, TypeOK, qtVars
<1>7. CASE SendWorkerStopped
  <2>1. Message("stopped", 0, 0) \in MessageType
    BY MessageIsTyped DEF Revision
  <2>2. QED
    BY <1>1, <1>7, <2>1, QueuedAfterAppend DEF SendWorkerStopped, TypeOK, qtVars
<1>8. CASE Wake
  BY <1>8, NoMessageIsTyped DEF Wake, TypeOK, qtVars
<1>9. ASSUME Pop PROVE /\ workerToQt' \in Seq(MessageType)
                       /\ received' \in MessageType
                       /\ Len(workerToQt') <= sizeSeen
                       /\ beforeRescan' \in 0 .. Len(workerToQt')
                       /\ surelySeen' \in 0 .. Len(workerToQt')
                       /\ overtaken' \in Nat
                       /\ receiveAt' \in {"clear", "return"}
  BY <1>1, <1>9, QueuedAfterTail DEF Pop, OneLess, TypeOK
<1>10. CASE ReceiveQueuedTurn
  BY <1>9, <1>10 DEF ReceiveQueuedTurn, PopNothing, TypeOK, workerVars
<1>11. CASE ReceiveRescan
  BY <1>11, MessageIsTyped DEF ReceiveRescan, TypeOK, workerVars, Revision
<1>12. CASE ReceiveNoRescan
  BY <1>12 DEF ReceiveNoRescan, TypeOK, workerVars, sharedVars
<1>13. CASE ReceiveAuthority
  <2>1. received' \in MessageType
    BY <1>13 DEF ReceiveAuthority, TypeOK, MessageType
  <2>2. QED
    BY <1>13, <2>1 DEF ReceiveAuthority, TypeOK, workerVars, Revision
<1>14. CASE ReceivePop
  BY <1>9, <1>14 DEF ReceivePop, PopNothing, TypeOK, workerVars
<1>15. CASE ClearAuthority
  BY <1>15 DEF ClearAuthority, TypeOK, workerVars, Revision
<1>16. CASE TakeReceived
  <2>1. Covers(received) \subseteq Revision /\ received.authority \in Revision
    BY MessageFields DEF TypeOK
  <2>2. QED
    BY <1>16, <2>1, NoMessageIsTyped DEF TakeReceived, TypeOK, workerVars, sharedVars
<1>17. CASE DrainWake
  BY <1>17 DEF DrainWake, TypeOK, workerVars, qtVars
<1>18. CASE UNCHANGED vars
  BY <1>18 DEF TypeOK, vars, workerVars, sharedVars, qtVars
<1>19. QED
  BY <1>2, <1>3, <1>4, <1>5, <1>6, <1>7, <1>8, <1>10, <1>11, <1>12, <1>13, <1>14,
     <1>15, <1>16, <1>17, <1>18 DEF Next, BeginSend, SendStep, ReceiveStep

----------------------------------------------------------------------------
(* The conjuncts of the inductive invariant, one at a time                 *)

(* The steps that leave the worker's hands, or those of Qt, as they are.   *)
QtStep ==
  \/ ReceiveQueuedTurn \/ ReceiveRescan \/ ReceiveNoRescan \/ ReceiveAuthority
  \/ ReceivePop \/ ClearAuthority \/ TakeReceived \/ DrainWake

WorkerStep ==
  \/ \E isReset, isOversized \in BOOLEAN : Commit(isReset, isOversized)
  \/ StoreAuthority \/ AdmitChange \/ CoalesceChange
  \/ SendDiagnostic \/ SendWorkerStopped \/ Wake

\* A step is one of the worker or one of the Qt thread.
LEMMA StepOfOne == [Next]_vars => WorkerStep \/ QtStep \/ UNCHANGED vars
  BY DEF Next, BeginSend, SendStep, ReceiveStep, WorkerStep, QtStep

\* The Qt thread writes none of the worker's variables.
LEMMA QtKeeps == QtStep => UNCHANGED workerVars
  BY DEF QtStep, ReceiveQueuedTurn, ReceiveRescan, ReceiveNoRescan, ReceiveAuthority,
         ReceivePop, ClearAuthority, TakeReceived, DrainWake

\* The worker writes none of the Qt thread's variables.
LEMMA WorkerKeeps == WorkerStep => UNCHANGED qtVars
  BY DEF WorkerStep, Commit, StoreAuthority, AdmitChange, CoalesceChange,
         SendDiagnostic, SendWorkerStopped, Wake

\* Every step keeps what each thread has in its hands.
LEMMA HandsStep == TypeOK /\ HandsInv /\ [Next]_vars => HandsInv'
<1> SUFFICES ASSUME TypeOK, HandsInv, [Next]_vars PROVE HandsInv'
  OBVIOUS
<1>1. CASE WorkerStep
  <2>1. UNCHANGED <<receiveAt, received>>
    BY <1>1, WorkerKeeps DEF qtVars
  <2>2. ASSUME NEW isReset \in BOOLEAN, NEW isOversized \in BOOLEAN,
               Commit(isReset, isOversized)
        PROVE  HandsInv'
    <3>1. /\ revision + 1 \in Revision /\ 0 \in Revision /\ revision + 1 # 0
      BY <2>2, MaxRevisionAssumption DEF Commit, TypeOK, Revision
    <3>2. sending'.type = "change" /\ sending'.revision = revision + 1
      BY <2>2, <3>1, MessageIsTyped DEF Commit
    <3>3. QED
      BY <2>1, <2>2, <3>1, <3>2 DEF Commit, HandsInv
  <2>3. CASE StoreAuthority \/ AdmitChange \/ CoalesceChange
    BY <2>1, <2>3 DEF StoreAuthority, AdmitChange, CoalesceChange, HandsInv
  <2>4. CASE SendDiagnostic \/ SendWorkerStopped \/ Wake
    <3>1. /\ workerAt' \in {"wake", "idle", "stopped"}
          /\ workerAt' = "idle" => sending' = NoMessage
      BY <2>4 DEF SendDiagnostic, SendWorkerStopped, Wake
    <3>2. QED
      BY <2>1, <3>1 DEF HandsInv
  <2>5. QED
    BY <1>1, <2>2, <2>3, <2>4 DEF WorkerStep
<1>2. CASE QtStep
  <2>1. UNCHANGED <<workerAt, sending, revision>>
    BY <1>2, QtKeeps DEF workerVars
  <2>2. CASE ReceiveQueuedTurn \/ ReceivePop
    BY <2>1, <2>2 DEF ReceiveQueuedTurn, ReceivePop, Pop, PopNothing, HandsInv
  <2>3. CASE ReceiveRescan
    BY <2>1, <2>3 DEF ReceiveRescan, Message, HandsInv
  <2>4. CASE ReceiveNoRescan \/ ReceiveAuthority \/ ClearAuthority \/ TakeReceived
             \/ DrainWake
    BY <2>1, <2>4 DEF ReceiveNoRescan, AtExchange, ReceiveAuthority, ClearAuthority,
                      TakeReceived, DrainWake, qtVars, HandsInv
  <2>5. QED
    BY <1>2, <2>2, <2>3, <2>4 DEF QtStep
<1>3. CASE UNCHANGED vars
  BY <1>3 DEF vars, workerVars, qtVars, HandsInv
<1>4. QED
  BY <1>1, <1>2, <1>3, StepOfOne

\* Every step keeps the reserved place for the last message.
LEMMA ReserveStep == TypeOK /\ HandsInv /\ ReserveInv /\ [Next]_vars => ReserveInv'
<1> SUFFICES ASSUME TypeOK, HandsInv, ReserveInv, [Next]_vars PROVE ReserveInv'
  OBVIOUS
<1> USE CapacityAssumption, ReservedSlotsAssumption
<1>1. sizeSeen \in Nat /\ SizesApprox \subseteq 0 .. sizeSeen
  BY DEF TypeOK, SizesApprox
<1>2. CASE WorkerStep
  <2>1. ASSUME NEW isReset \in BOOLEAN, NEW isOversized \in BOOLEAN,
               Commit(isReset, isOversized)
        PROVE  ReserveInv'
    BY <2>1, NoMessageIsTyped DEF Commit, HandsInv, ReserveInv
  <2>2. CASE StoreAuthority
    BY <2>2 DEF StoreAuthority, ReserveInv
  <2>3. CASE AdmitChange \/ SendDiagnostic
    BY <1>1, <2>3 DEF AdmitChange, SendDiagnostic, HasRoom, ReserveInv
  <2>4. CASE CoalesceChange
    BY <1>1, <2>4 DEF CoalesceChange, HandsInv, ReserveInv
  <2>5. CASE SendWorkerStopped
    BY <2>5 DEF SendWorkerStopped, Message, ReserveInv
  <2>6. CASE Wake
    BY <2>6 DEF Wake, ReserveInv
  <2>7. QED
    BY <1>2, <2>1, <2>2, <2>3, <2>4, <2>5, <2>6 DEF WorkerStep
<1>3. CASE QtStep \/ UNCHANGED vars
  BY <1>3, QtKeeps DEF workerVars, vars, ReserveInv
<1>4. QED
  BY <1>2, <1>3, StepOfOne

\* Every step keeps the receiver's turn.
LEMMA TurnStep == TypeOK /\ TurnInv /\ [Next]_vars => TurnInv'
<1> SUFFICES ASSUME TypeOK, TurnInv, [Next]_vars PROVE TurnInv'
  OBVIOUS
<1>1. CASE ReceiveQueuedTurn \/ ReceivePop
  BY <1>1 DEF ReceiveQueuedTurn, ReceivePop, Pop, PopNothing, TurnInv, TypeOK
<1>2. CASE ReceiveRescan
  BY <1>2 DEF ReceiveRescan, AtExchange, TurnInv, TypeOK
<1>3. CASE ReceiveNoRescan \/ ReceiveAuthority \/ ClearAuthority \/ TakeReceived
           \/ DrainWake
  BY <1>3 DEF ReceiveNoRescan, AtExchange, ReceiveAuthority, ClearAuthority,
              TakeReceived, DrainWake, qtVars, TurnInv
<1>4. CASE WorkerStep \/ UNCHANGED vars
  BY <1>4, WorkerKeeps DEF qtVars, vars, TurnInv
<1>5. QED
  BY <1>1, <1>2, <1>3, <1>4, StepOfOne DEF QtStep

(* What a pop does to the messages.                                        *)
LEMMA PopTakesQueued ==
  ASSUME TypeOK, Pop
  PROVE  /\ received' \in Queued /\ received' \in MessageType
         /\ Queued = Queued' \cup {received'}
         /\ receiveAt' \in {"clear", "return"}
         /\ receiveAt' = "return" <=> received'.authority = 0
  BY QueuedAfterTail DEF Pop, TypeOK

(* Every step by which a Qt call of tryPop may take a message.             *)
LEMMA QueueStepOfQt ==
  ASSUME ReceiveQueuedTurn \/ ReceivePop
  PROVE  /\ receiveAt \in {"out", "pop"}
         /\ UNCHANGED <<workerVars, rescanRevision, pendingAuthority, told,
                        authorityTold>>
         /\ \/ Pop
            \/ /\ UNCHANGED <<workerToQt, received>>
               /\ receiveAt' \in {"exchange", "out"}
  BY DEF ReceiveQueuedTurn, ReceivePop, PopNothing

\* The messages queued depend on the queue alone.
LEMMA QueuedUnchanged == UNCHANGED workerToQt => Queued' = Queued
  BY DEF Queued

\* What is queued are messages.
LEMMA QueuedTyped == TypeOK => Queued \subseteq MessageType
  BY DEF TypeOK, Queued

(* Nothing is sent ahead of the worker.                                    *)
LEMMA AheadStep ==
  TypeOK /\ HandsInv /\ HeldIsAhead /\ [Next]_vars => HeldIsAhead'
<1> SUFFICES ASSUME TypeOK, HandsInv, HeldIsAhead, [Next]_vars PROVE HeldIsAhead'
  OBVIOUS
<1> USE MaxRevisionAssumption
<1>1. revision \in Nat /\ rescanRevision \in Nat /\ \A r \in Revision : r \in Nat
  BY DEF TypeOK, Revision
<1>2. ASSUME UNCHANGED <<revision, workerAt>>,
             NEW r \in Revision \ {0}, Sent(r)' => Sent(r)
      PROVE  Sent(r)' => /\ r <= revision'
                         /\ workerAt' \in {"authority", "admit"} => r < revision'
  BY <1>2 DEF HeldIsAhead
<1>3. CASE WorkerStep
  <2>1. UNCHANGED <<received, told>>
    BY <1>3, WorkerKeeps DEF qtVars
  <2>2. ASSUME NEW isReset \in BOOLEAN, NEW isOversized \in BOOLEAN,
               Commit(isReset, isOversized)
        PROVE  HeldIsAhead'
    <3>1. revision' = revision + 1 /\ UNCHANGED <<workerToQt, rescanRevision>>
      BY <2>2 DEF Commit, sharedVars
    <3>2. \A r : Sent(r)' <=> Sent(r)
      BY <2>1, <3>1, QueuedUnchanged DEF Sent
    <3>3. QED
      BY <1>1, <3>1, <3>2 DEF HeldIsAhead
  <2>3. CASE StoreAuthority
    <3>1. /\ UNCHANGED <<workerToQt, rescanRevision, revision>>
          /\ workerAt = "authority"
      BY <2>3 DEF StoreAuthority
    <3>2. \A r : Sent(r)' <=> Sent(r)
      BY <2>1, <3>1, QueuedUnchanged DEF Sent
    <3>3. QED
      BY <1>1, <3>1, <3>2 DEF HeldIsAhead
  <2>4. CASE AdmitChange \/ CoalesceChange
    <3>1. /\ UNCHANGED revision /\ workerAt' = "wake"
          /\ sending.type = "change" /\ sending.revision = revision
      BY <2>4 DEF AdmitChange, CoalesceChange, HandsInv
    <3>2. sending \in MessageType /\ Covers(sending) = {revision}
      BY <3>1, MessageFields DEF TypeOK
    <3>3. CASE AdmitChange
      <4>1. Queued' = Queued \cup {sending} /\ UNCHANGED rescanRevision
        BY <3>2, <3>3, QueuedAfterAppend DEF AdmitChange, TypeOK
      <4>2. \A r : Sent(r)' => Sent(r) \/ r = revision
        BY <2>1, <3>2, <4>1 DEF Sent
      <4>3. QED
        BY <1>1, <3>1, <4>2 DEF HeldIsAhead
    <3>4. CASE CoalesceChange
      <4>1. rescanRevision' \in {rescanRevision, revision} /\ UNCHANGED workerToQt
        BY <3>1, <3>4 DEF CoalesceChange, RequireRescan
      <4>2. \A r : Sent(r)' => Sent(r) \/ r <= revision
        BY <2>1, <4>1, QueuedUnchanged DEF Sent
      <4>3. QED
        BY <1>1, <3>1, <4>2 DEF HeldIsAhead
    <3>5. QED
      BY <2>4, <3>3, <3>4
  <2>5. CASE SendDiagnostic \/ SendWorkerStopped \/ Wake
    <3>1. /\ UNCHANGED <<revision, rescanRevision>>
          /\ workerAt' \in {"wake", "idle", "stopped"}
      BY <2>5 DEF SendDiagnostic, SendWorkerStopped, Wake
    <3>2. \A m \in Queued' : m \in Queued \/ Covers(m) = {}
      <4>1. \A type \in {"diagnostic", "stopped"} :
              /\ Message(type, 0, 0) \in MessageType
              /\ Covers(Message(type, 0, 0)) = {}
        <5> TAKE type \in {"diagnostic", "stopped"}
        <5>1. /\ Message(type, 0, 0) \in MessageType
              /\ Message(type, 0, 0).type = type
          BY MessageIsTyped DEF Revision
        <5>2. QED
          BY <5>1, MessageFields
      <4>2. \/ UNCHANGED workerToQt
            \/ \E type \in {"diagnostic", "stopped"} :
                 workerToQt' = Append(workerToQt, Message(type, 0, 0))
        BY <2>5 DEF SendDiagnostic, SendWorkerStopped, Wake
      <4>3. QED
        BY <4>1, <4>2, QueuedAfterAppend, QueuedUnchanged DEF TypeOK
    <3>3. \A r : Sent(r)' => Sent(r)
      BY <2>1, <3>1, <3>2 DEF Sent
    <3>4. QED
      BY <1>1, <3>1, <3>3 DEF HeldIsAhead
  <2>6. QED
    BY <1>3, <2>2, <2>3, <2>4, <2>5 DEF WorkerStep
<1>4. CASE QtStep
  <2>1. UNCHANGED <<revision, workerAt>>
    BY <1>4, QtKeeps DEF workerVars
  <2>2. CASE ReceiveQueuedTurn \/ ReceivePop
    <3>1. \A r : Sent(r)' => Sent(r)
      BY <2>2, QueueStepOfQt, PopTakesQueued, QueuedUnchanged DEF Sent
    <3>2. QED
      BY <1>2, <2>1, <3>1 DEF HeldIsAhead
  <2>3. CASE ReceiveRescan
    <3>1. /\ received' = Message("rescan", rescanRevision, 0)
          /\ UNCHANGED <<workerToQt, told>> /\ rescanRevision' = 0
      BY <2>3 DEF ReceiveRescan
    <3>2. Covers(received') = 1 .. rescanRevision
      BY <3>1, MessageIsTyped, MessageFields DEF TypeOK, Revision
    <3>3. \A r \in Revision \ {0} : Sent(r)' => Sent(r)
      BY <1>1, <3>1, <3>2, QueuedUnchanged DEF Sent
    <3>4. QED
      BY <1>2, <2>1, <3>3 DEF HeldIsAhead
  <2>4. CASE ReceiveAuthority
    <3>1. UNCHANGED <<workerToQt, told, rescanRevision>>
      BY <2>4 DEF ReceiveAuthority
    <3>2. received'.type = received.type /\ received'.revision = received.revision
      BY <2>4 DEF ReceiveAuthority, TypeOK, MessageType
    <3>3. Covers(received') = Covers(received)
      BY <3>2 DEF Covers
    <3>4. \A r : Sent(r)' => Sent(r)
      BY <3>1, <3>3, QueuedUnchanged DEF Sent
    <3>5. QED
      BY <1>2, <2>1, <3>4 DEF HeldIsAhead
  <2>5. CASE TakeReceived
    <3>1. /\ UNCHANGED <<workerToQt, rescanRevision>>
          /\ told' = told \cup Covers(received) /\ received' = NoMessage
      BY <2>5 DEF TakeReceived, sharedVars
    <3>2. Covers(NoMessage) = {}
      BY NoMessageIsTyped, MessageFields
    <3>3. \A r : Sent(r)' => Sent(r)
      BY <3>1, <3>2, QueuedUnchanged DEF Sent
    <3>4. QED
      BY <1>2, <2>1, <3>3 DEF HeldIsAhead
  <2>6. CASE ReceiveNoRescan \/ ClearAuthority \/ DrainWake
    <3>1. UNCHANGED <<workerToQt, rescanRevision, received, told>>
      BY <2>6 DEF ReceiveNoRescan, ClearAuthority, DrainWake, sharedVars, qtVars
    <3>2. \A r : Sent(r)' => Sent(r)
      BY <3>1, QueuedUnchanged DEF Sent
    <3>3. QED
      BY <1>2, <2>1, <3>2 DEF HeldIsAhead
  <2>7. QED
    BY <1>4, <2>2, <2>3, <2>4, <2>5, <2>6 DEF QtStep
<1>5. CASE UNCHANGED vars
  <2>1. UNCHANGED <<revision, workerAt, workerToQt, rescanRevision, received, told>>
    BY <1>5 DEF vars, workerVars, sharedVars, qtVars
  <2>2. \A r : Sent(r)' => Sent(r)
    BY <2>1, QueuedUnchanged DEF Sent
  <2>3. QED
    BY <1>2, <2>1, <2>2 DEF HeldIsAhead
<1>6. QED
  BY <1>3, <1>4, <1>5, StepOfOne

(* A step of Qt that does not touch what the conjuncts below speak of.     *)
LEMMA QuietQtStep ==
  ASSUME ReceiveNoRescan \/ DrainWake
  PROVE  /\ UNCHANGED <<workerVars, workerToQt, rescanRevision, pendingAuthority,
                        received, told, authorityTold>>
         /\ receiveAt' \notin {"clear", "return"} \/ UNCHANGED receiveAt
  BY DEF ReceiveNoRescan, DrainWake, sharedVars, qtVars

(* The steps of the worker that queue a message that covers nothing, or    *)
(* none.                                                                   *)
LEMMA QuietWorkerStep ==
  ASSUME TypeOK, SendDiagnostic \/ SendWorkerStopped \/ Wake
  PROVE  /\ UNCHANGED <<revision, resets, rescanRevision, pendingAuthority, qtVars>>
         /\ workerAt \in {"idle", "wake"} /\ workerAt' \in {"idle", "wake", "stopped"}
         /\ Queued \subseteq Queued'
         /\ \A m \in Queued' \ Queued : m.type \in {"diagnostic", "stopped"}
<1>1. \A type \in {"diagnostic", "stopped"} :
        /\ Message(type, 0, 0) \in MessageType
        /\ Message(type, 0, 0).type = type
  BY MessageIsTyped, MaxRevisionAssumption DEF Revision
<1>2. \/ UNCHANGED workerToQt
      \/ \E type \in {"diagnostic", "stopped"} :
           workerToQt' = Append(workerToQt, Message(type, 0, 0))
  BY DEF SendDiagnostic, SendWorkerStopped, Wake
<1>3. /\ Queued \subseteq Queued'
      /\ \A m \in Queued' \ Queued : m.type \in {"diagnostic", "stopped"}
  BY <1>1, <1>2, QueuedAfterAppend, QueuedUnchanged DEF TypeOK
<1>4. QED
  BY <1>3 DEF SendDiagnostic, SendWorkerStopped, Wake

(* A reset's authority stays with its change on its way through the queue. *)
LEMMA CarryStep ==
  TypeOK /\ HandsInv /\ HeldIsAhead /\ ChangesCarry /\ [Next]_vars => ChangesCarry'
<1> SUFFICES ASSUME TypeOK, HandsInv, HeldIsAhead, ChangesCarry, [Next]_vars
             PROVE  ChangesCarry'
  OBVIOUS
<1> USE MaxRevisionAssumption
<1>1. /\ revision \in Nat /\ pendingAuthority \in Nat
      /\ Queued \subseteq MessageType
      /\ \A r \in resets : r \in Revision /\ r \in Nat
  BY QueuedTyped DEF TypeOK, Revision
<1>2. CASE WorkerStep
  <2>1. UNCHANGED <<received, receiveAt>>
    BY <1>2, WorkerKeeps DEF qtVars
  <2>2. ASSUME NEW isReset \in BOOLEAN, NEW isOversized \in BOOLEAN,
               Commit(isReset, isOversized)
        PROVE  ChangesCarry'
    <3>1. /\ revision + 1 \in Revision /\ 0 \in Revision
          /\ revision' = revision + 1
          /\ UNCHANGED <<workerToQt, pendingAuthority>>
          /\ resets' = IF isReset THEN resets \cup {revision + 1} ELSE resets
          /\ workerAt' = IF isReset THEN "authority" ELSE "admit"
      BY <1>1, <2>2 DEF Commit, sharedVars, Revision
    <3>2. /\ sending'.revision = revision + 1
          /\ sending'.authority = IF isReset THEN revision + 1 ELSE 0
      BY <2>2, <3>1, MessageIsTyped DEF Commit
    <3>3. \A r \in resets : r # revision + 1
      BY <1>1 DEF ChangesCarry
    <3>4. CarriesAuthority(sending)'
      BY <3>1, <3>2, <3>3 DEF CarriesAuthority
    <3>5. ASSUME NEW m \in MessageType, CarriesAuthority(m), m.revision # revision + 1
          PROVE  CarriesAuthority(m)'
      BY <3>1, <3>5 DEF CarriesAuthority
    <3>6. ASSUME NEW m \in MessageType, m.type = "change",
                 m \in Queued \/ m = received
          PROVE  m.revision # revision + 1
      <4>1. Covers(m) = {m.revision} /\ m.revision \in Revision
        BY <3>6, MessageFields
      <4>2. Sent(m.revision)
        BY <3>6, <4>1 DEF Sent
      <4>3. QED
        BY <1>1, <4>1, <4>2 DEF HeldIsAhead, Revision
    <3>7. \A m \in Queued : CarriesAuthority(m)'
      BY <1>1, <3>5, <3>6 DEF ChangesCarry, CarriesAuthority
    <3>8. receiveAt \in {"clear", "return"} => CarriesAuthority(received)'
      <4>1. received \in MessageType
        BY DEF TypeOK
      <4>2. CASE received.type = "change"
        BY <2>1, <3>5, <3>6, <4>1, <4>2 DEF ChangesCarry
      <4>3. CASE received.type # "change"
        BY <2>1, <4>3 DEF CarriesAuthority
      <4>4. QED
        BY <4>2, <4>3
    <3>9. QED
      BY <1>1, <2>1, <3>1, <3>2, <3>4, <3>7, <3>8, QueuedUnchanged DEF ChangesCarry
  <2>3. CASE StoreAuthority
    BY <1>1, <2>1, <2>3, QueuedUnchanged DEF StoreAuthority, ChangesCarry, CarriesAuthority
  <2>4. CASE AdmitChange
    <3>1. /\ UNCHANGED <<revision, resets, pendingAuthority>> /\ workerAt' = "wake"
          /\ sending.type = "change" /\ CarriesAuthority(sending)
          /\ Queued' = Queued \cup {sending}
      BY <2>4, QueuedAfterAppend DEF AdmitChange, TypeOK, HandsInv, ChangesCarry
    <3>2. QED
      BY <2>1, <3>1 DEF ChangesCarry, CarriesAuthority
  <2>5. CASE CoalesceChange
    BY <2>1, <2>5, QueuedUnchanged DEF CoalesceChange, ChangesCarry, CarriesAuthority
  <2>6. CASE SendDiagnostic \/ SendWorkerStopped \/ Wake
    BY <2>6, QuietWorkerStep DEF qtVars, ChangesCarry, CarriesAuthority
  <2>7. QED
    BY <1>2, <2>2, <2>3, <2>4, <2>5, <2>6 DEF WorkerStep
<1>3. CASE QtStep
  <2>1. UNCHANGED <<workerAt, sending, revision, resets>>
    BY <1>3, QtKeeps DEF workerVars
  <2>2. CASE ReceiveQueuedTurn \/ ReceivePop
    <3>1. UNCHANGED pendingAuthority
      BY <2>2, QueueStepOfQt
    <3>2. CASE Pop
      BY <2>1, <3>1, <3>2, PopTakesQueued DEF ChangesCarry, CarriesAuthority
    <3>3. CASE UNCHANGED <<workerToQt, received>> /\ receiveAt' \in {"exchange", "out"}
      BY <2>1, <3>1, <3>3, QueuedUnchanged DEF ChangesCarry, CarriesAuthority
    <3>4. QED
      BY <2>2, <3>2, <3>3, QueueStepOfQt
  <2>3. CASE ReceiveRescan
    BY <2>1, <2>3, QueuedUnchanged DEF ReceiveRescan, ChangesCarry, CarriesAuthority
  <2>4. CASE ReceiveAuthority
    <3>1. received'.type = received.type /\ received.type = "rescan"
      BY <2>4 DEF ReceiveAuthority, TypeOK, MessageType, HandsInv
    <3>2. QED
      BY <1>1, <2>1, <2>4, <3>1, QueuedUnchanged
         DEF ReceiveAuthority, ChangesCarry, CarriesAuthority
  <2>5. CASE ClearAuthority
    BY <1>1, <2>1, <2>5, QueuedUnchanged DEF ClearAuthority, ChangesCarry, CarriesAuthority
  <2>6. CASE TakeReceived
    BY <2>1, <2>6, QueuedUnchanged DEF TakeReceived, sharedVars, ChangesCarry, CarriesAuthority
  <2>7. CASE ReceiveNoRescan \/ DrainWake
    BY <2>1, <2>7, QuietQtStep, QueuedUnchanged DEF ChangesCarry, CarriesAuthority
  <2>8. QED
    BY <1>3, <2>2, <2>3, <2>4, <2>5, <2>6, <2>7 DEF QtStep
<1>4. CASE UNCHANGED vars
  BY <1>4, QueuedUnchanged
     DEF vars, workerVars, sharedVars, qtVars, ChangesCarry, CarriesAuthority
<1>5. QED
  BY <1>2, <1>3, <1>4, StepOfOne

(* A stored authority is not lost: it is replaced by a later one, cleared  *)
(* by a change that brings it, or handed over with a rescan.               *)
LEMMA KnownStep ==
  TypeOK /\ HandsInv /\ ChangesCarry /\ AuthorityKnown /\ [Next]_vars => AuthorityKnown'
<1> SUFFICES ASSUME TypeOK, HandsInv, ChangesCarry, AuthorityKnown, [Next]_vars
             PROVE  AuthorityKnown'
  OBVIOUS
<1> USE MaxRevisionAssumption
<1>1. /\ revision \in Nat /\ pendingAuthority \in Nat /\ authorityTold \in Nat
      /\ received.authority \in Nat
      /\ \A r \in resets : r \in Nat /\ 0 < r /\ r <= revision
  BY MessageFields DEF TypeOK, Revision, ChangesCarry
<1>2. CASE WorkerStep
  <2>1. UNCHANGED <<received, authorityTold>>
    BY <1>2, WorkerKeeps DEF qtVars
  <2>2. ASSUME NEW isReset \in BOOLEAN, NEW isOversized \in BOOLEAN,
               Commit(isReset, isOversized)
        PROVE  AuthorityKnown'
    <3>1. /\ workerAt = "idle" /\ revision' = revision + 1
          /\ UNCHANGED pendingAuthority
          /\ resets' = IF isReset THEN resets \cup {revision + 1} ELSE resets
          /\ workerAt' = IF isReset THEN "authority" ELSE "admit"
      BY <2>2 DEF Commit, sharedVars
    <3>2. QED
      BY <1>1, <2>1, <3>1 DEF AuthorityKnown
  <2>3. CASE StoreAuthority
    BY <1>1, <2>1, <2>3 DEF StoreAuthority, ChangesCarry, AuthorityKnown
  <2>4. CASE AdmitChange \/ CoalesceChange
    BY <2>1, <2>4 DEF AdmitChange, CoalesceChange, AuthorityKnown
  <2>5. CASE SendDiagnostic \/ SendWorkerStopped \/ Wake
    BY <2>1, <2>5, QuietWorkerStep DEF AuthorityKnown
  <2>6. QED
    BY <1>2, <2>2, <2>3, <2>4, <2>5 DEF WorkerStep
<1>3. CASE QtStep
  <2>1. UNCHANGED <<workerAt, revision, resets>>
    BY <1>3, QtKeeps DEF workerVars
  <2>2. CASE ReceiveQueuedTurn \/ ReceivePop
    <3>1. received.authority = 0
      BY <2>2, QueueStepOfQt, NoMessageIsTyped DEF HandsInv
    <3>2. UNCHANGED <<pendingAuthority, authorityTold>>
      BY <2>2, QueueStepOfQt
    <3>3. QED
      BY <1>1, <2>1, <3>1, <3>2 DEF AuthorityKnown
  <2>3. CASE ReceiveRescan
    <3>1. received.authority = 0
      BY <2>3, NoMessageIsTyped DEF ReceiveRescan, AtExchange, HandsInv
    <3>2. QED
      BY <1>1, <2>1, <2>3, <3>1 DEF ReceiveRescan, AuthorityKnown
  <2>4. CASE ReceiveAuthority
    <3>1. /\ received.authority = 0 /\ received'.authority = pendingAuthority
          /\ UNCHANGED authorityTold
      BY <2>4 DEF ReceiveAuthority, TypeOK, MessageType, HandsInv
    <3>2. QED
      BY <1>1, <2>1, <3>1 DEF AuthorityKnown
  <2>5. CASE ClearAuthority
    BY <1>1, <2>1, <2>5 DEF ClearAuthority, AuthorityKnown
  <2>6. CASE TakeReceived
    <3>1. /\ authorityTold' = IF received.authority > authorityTold
                                THEN received.authority ELSE authorityTold
          /\ UNCHANGED pendingAuthority
      BY <2>6 DEF TakeReceived, sharedVars
    <3>2. QED
      BY <1>1, <2>1, <3>1 DEF AuthorityKnown
  <2>7. CASE ReceiveNoRescan \/ DrainWake
    BY <2>1, <2>7, QuietQtStep DEF AuthorityKnown
  <2>8. QED
    BY <1>3, <2>2, <2>3, <2>4, <2>5, <2>6, <2>7 DEF QtStep
<1>4. CASE UNCHANGED vars
  BY <1>4 DEF vars, workerVars, sharedVars, qtVars, AuthorityKnown
<1>5. QED
  BY <1>2, <1>3, <1>4, StepOfOne

(* A revision that is not yet told stays on its way.                       *)
LEMMA NotForgottenStep ==
  TypeOK /\ HandsInv /\ NothingForgotten /\ [Next]_vars => NothingForgotten'
<1> SUFFICES ASSUME TypeOK, HandsInv, NothingForgotten, [Next]_vars
             PROVE  NothingForgotten'
  OBVIOUS
<1> USE MaxRevisionAssumption
<1>1. revision \in Nat /\ rescanRevision \in Nat
  BY DEF TypeOK, Revision
<1>2. ASSUME UNCHANGED revision,
             \A r \in 1 .. revision : OnItsWay(r) => OnItsWay(r)' \/ r \in told',
             told \subseteq told'
      PROVE  NothingForgotten'
  BY <1>2 DEF NothingForgotten
<1>3. CASE WorkerStep
  <2>1. UNCHANGED <<received, told>>
    BY <1>3, WorkerKeeps DEF qtVars
  <2>2. ASSUME NEW isReset \in BOOLEAN, NEW isOversized \in BOOLEAN,
               Commit(isReset, isOversized)
        PROVE  NothingForgotten'
    <3>1. /\ workerAt = "idle" /\ workerAt' \in {"authority", "admit"}
          /\ revision' = revision + 1 /\ revision + 1 \in Revision /\ 0 \in Revision
          /\ UNCHANGED <<workerToQt, rescanRevision>>
      BY <1>1, <2>2 DEF Commit, sharedVars, Revision
    <3>2. sending'.revision = revision + 1
      BY <2>2, <3>1, MessageIsTyped DEF Commit
    <3>3. \A r : OnItsWay(r) => OnItsWay(r)'
      BY <2>1, <3>1, QueuedUnchanged DEF OnItsWay
    <3>4. \A r : r = revision + 1 => OnItsWay(r)'
      BY <3>1, <3>2 DEF OnItsWay
    <3>5. \A r \in 1 .. revision' : r \in 1 .. revision \/ r = revision + 1
      BY <1>1, <3>1
    <3>6. QED
      BY <2>1, <3>3, <3>4, <3>5 DEF NothingForgotten
  <2>3. CASE StoreAuthority
    <3>1. \A r : OnItsWay(r) => OnItsWay(r)'
      BY <2>1, <2>3, QueuedUnchanged DEF StoreAuthority, OnItsWay
    <3>2. QED
      BY <1>2, <2>1, <2>3, <3>1 DEF StoreAuthority
  <2>4. CASE AdmitChange
    <3>1. /\ sending \in MessageType /\ Covers(sending) = {sending.revision}
          /\ UNCHANGED <<revision, rescanRevision>>
          /\ Queued' = Queued \cup {sending}
      BY <2>4, MessageFields, QueuedAfterAppend DEF AdmitChange, TypeOK, HandsInv
    <3>2. \A r : OnItsWay(r) => OnItsWay(r)'
      BY <2>1, <3>1 DEF OnItsWay
    <3>3. QED
      BY <1>2, <2>1, <3>1, <3>2
  <2>5. CASE CoalesceChange
    <3>1. /\ sending.revision \in Nat
          /\ UNCHANGED <<revision, workerToQt>>
          /\ rescanRevision' = IF rescanRevision < sending.revision
                                 THEN sending.revision ELSE rescanRevision
      BY <2>5, MessageFields DEF CoalesceChange, RequireRescan, TypeOK, Revision
    <3>2. \A r \in 1 .. revision : OnItsWay(r) => OnItsWay(r)'
      BY <1>1, <2>1, <3>1, QueuedUnchanged DEF OnItsWay
    <3>3. QED
      BY <1>2, <2>1, <3>1, <3>2
  <2>6. CASE SendDiagnostic \/ SendWorkerStopped \/ Wake
    <3>1. \A r : OnItsWay(r) => OnItsWay(r)'
      BY <2>1, <2>6, QuietWorkerStep DEF OnItsWay
    <3>2. QED
      BY <1>2, <2>1, <2>6, <3>1, QuietWorkerStep
  <2>7. QED
    BY <1>3, <2>2, <2>3, <2>4, <2>5, <2>6 DEF WorkerStep
<1>4. CASE QtStep
  <2>1. UNCHANGED <<workerAt, sending, revision>>
    BY <1>4, QtKeeps DEF workerVars
  <2>2. CASE ReceiveQueuedTurn \/ ReceivePop
    <3>1. Covers(received) = {}
      BY <2>2, QueueStepOfQt, NoMessageIsTyped, MessageFields DEF HandsInv
    <3>2. UNCHANGED <<rescanRevision, told>>
      BY <2>2, QueueStepOfQt
    <3>3. \A r : OnItsWay(r) => OnItsWay(r)'
      BY <2>1, <2>2, <3>1, <3>2, QueueStepOfQt, PopTakesQueued, QueuedUnchanged
         DEF OnItsWay
    <3>4. QED
      BY <1>2, <2>1, <3>2, <3>3
  <2>3. CASE ReceiveRescan
    <3>1. /\ received' = Message("rescan", rescanRevision, 0)
          /\ UNCHANGED <<workerToQt, told>> /\ received = NoMessage
      BY <2>3 DEF ReceiveRescan, AtExchange, HandsInv
    <3>2. Covers(received') = 1 .. rescanRevision
      BY <3>1, MessageIsTyped, MessageFields DEF TypeOK, Revision
    <3>3. Covers(received) = {}
      BY <3>1, NoMessageIsTyped, MessageFields
    <3>4. \A r \in 1 .. revision : OnItsWay(r) => OnItsWay(r)'
      BY <1>1, <2>1, <3>1, <3>2, <3>3, QueuedUnchanged DEF OnItsWay
    <3>5. QED
      BY <1>2, <2>1, <3>1, <3>4
  <2>4. CASE ReceiveAuthority
    <3>1. UNCHANGED <<workerToQt, told, rescanRevision>>
      BY <2>4 DEF ReceiveAuthority
    <3>2. received'.type = received.type /\ received'.revision = received.revision
      BY <2>4 DEF ReceiveAuthority, TypeOK, MessageType
    <3>3. Covers(received') = Covers(received)
      BY <3>2 DEF Covers
    <3>4. \A r : OnItsWay(r) => OnItsWay(r)'
      BY <2>1, <3>1, <3>3, QueuedUnchanged DEF OnItsWay
    <3>5. QED
      BY <1>2, <2>1, <3>1, <3>4
  <2>5. CASE TakeReceived
    <3>1. /\ UNCHANGED <<workerToQt, rescanRevision>>
          /\ told' = told \cup Covers(received)
      BY <2>5 DEF TakeReceived, sharedVars
    <3>2. \A r : OnItsWay(r) => OnItsWay(r)' \/ r \in told'
      BY <2>1, <3>1, QueuedUnchanged DEF OnItsWay
    <3>3. QED
      BY <1>2, <2>1, <3>1, <3>2
  <2>6. CASE ReceiveNoRescan \/ ClearAuthority \/ DrainWake
    <3>1. UNCHANGED <<workerToQt, rescanRevision, received, told>>
      BY <2>6 DEF ReceiveNoRescan, ClearAuthority, DrainWake, sharedVars, qtVars
    <3>2. \A r : OnItsWay(r) => OnItsWay(r)'
      BY <2>1, <3>1, QueuedUnchanged DEF OnItsWay
    <3>3. QED
      BY <1>2, <2>1, <3>1, <3>2
  <2>7. QED
    BY <1>4, <2>2, <2>3, <2>4, <2>5, <2>6 DEF QtStep
<1>5. CASE UNCHANGED vars
  BY <1>5, QueuedUnchanged
     DEF vars, workerVars, sharedVars, qtVars, NothingForgotten, OnItsWay
<1>6. QED
  BY <1>3, <1>4, <1>5, StepOfOne

(* No reset is told before its authority.                                  *)
LEMMA ArrivesStep ==
  ChannelInv /\ [Next]_vars => AuthorityArrivesInTime'
<1> SUFFICES ASSUME ChannelInv, [Next]_vars PROVE AuthorityArrivesInTime'
  OBVIOUS
<1> USE MaxRevisionAssumption DEF ChannelInv
<1>1. /\ revision \in Nat /\ pendingAuthority \in Nat /\ authorityTold \in Nat
      /\ received \in MessageType /\ received.authority \in Nat
      /\ told \subseteq Revision
      /\ \A r \in resets : r \in Nat /\ 0 < r /\ r <= revision
  BY MessageFields DEF TypeOK, Revision, ChangesCarry
<1>2. \A r \in told \cup Covers(received) : r # revision + 1
  <2> SUFFICES ASSUME NEW r \in told \cup Covers(received), r = revision + 1
               PROVE  FALSE
    OBVIOUS
  <2>1. r \in Revision \ {0} /\ Sent(r)
    BY <1>1, MessageFields DEF Sent
  <2>2. QED
    BY <1>1, <2>1 DEF HeldIsAhead
<1>3. CASE WorkerStep
  <2>1. UNCHANGED <<received, receiveAt, told, authorityTold>>
    BY <1>3, WorkerKeeps DEF qtVars
  <2>2. resets' \subseteq resets \cup {revision + 1}
    BY <1>3 DEF WorkerStep, Commit, StoreAuthority, AdmitChange, CoalesceChange,
                SendDiagnostic, SendWorkerStopped, Wake
  <2>3. QED
    BY <1>2, <2>1, <2>2 DEF AuthorityArrivesInTime
<1>4. CASE QtStep
  <2>1. UNCHANGED <<workerAt, revision, resets>>
    BY <1>4, QtKeeps DEF workerVars
  <2>2. CASE ReceiveQueuedTurn \/ ReceivePop
    <3>1. UNCHANGED <<told, authorityTold>>
      BY <2>2, QueueStepOfQt
    <3>2. ASSUME Pop, receiveAt' = "return",
                 NEW r \in resets, r \in Covers(received')
          PROVE  FALSE
      <4>1. /\ received' \in MessageType /\ received' \in Queued
            /\ received'.authority = 0
        BY <3>2, PopTakesQueued
      <4>2. received'.type = "change" /\ r = received'.revision
        BY <3>2, <4>1, MessageFields DEF ChangesCarry
      <4>3. QED
        BY <1>1, <3>2, <4>1, <4>2 DEF ChangesCarry, CarriesAuthority
    <3>3. QED
      BY <2>1, <2>2, <3>1, <3>2, QueueStepOfQt DEF AuthorityArrivesInTime
  <2>3. CASE ReceiveRescan
    BY <2>1, <2>3 DEF ReceiveRescan, AuthorityArrivesInTime
  <2>4. CASE ReceiveAuthority
    <3>1. /\ received'.type = received.type /\ received'.revision = received.revision
          /\ received'.authority = pendingAuthority /\ received.authority = 0
          /\ UNCHANGED <<told, authorityTold>>
      BY <2>4 DEF ReceiveAuthority, TypeOK, MessageType, HandsInv
    <3>2. Covers(received') = Covers(received)
      BY <3>1 DEF Covers
    <3>3. ASSUME NEW r \in resets, r \in Covers(received)
          PROVE  r <= authorityTold \/ r <= pendingAuthority
      <4>1. r \in Revision \ {0} /\ Sent(r)
        BY <1>1, <3>3, MessageFields DEF Sent
      <4>2. ~(workerAt = "authority" /\ r = revision)
        BY <1>1, <4>1 DEF HeldIsAhead
      <4>3. QED
        BY <1>1, <3>1, <3>3, <4>2 DEF AuthorityKnown
    <3>4. QED
      BY <2>1, <3>1, <3>2, <3>3 DEF AuthorityArrivesInTime
  <2>5. CASE ClearAuthority
    <3>1. receiveAt = "clear" /\ UNCHANGED <<received, told, authorityTold>>
      BY <2>5 DEF ClearAuthority
    <3>2. ASSUME NEW r \in resets, r \in Covers(received)
          PROVE  r <= received.authority
      BY <1>1, <3>1, <3>2, MessageFields DEF ChangesCarry, CarriesAuthority
    <3>3. QED
      BY <2>1, <3>1, <3>2 DEF AuthorityArrivesInTime
  <2>6. CASE TakeReceived
    <3>1. /\ receiveAt = "return" /\ receiveAt' = "out"
          /\ told' = told \cup Covers(received)
          /\ authorityTold' = IF received.authority > authorityTold
                                THEN received.authority ELSE authorityTold
      BY <2>6 DEF TakeReceived
    <3>2. QED
      BY <1>1, <2>1, <3>1 DEF AuthorityArrivesInTime
  <2>7. CASE ReceiveNoRescan \/ DrainWake
    BY <2>1, <2>7, QuietQtStep DEF AuthorityArrivesInTime
  <2>8. QED
    BY <1>4, <2>2, <2>3, <2>4, <2>5, <2>6, <2>7 DEF QtStep
<1>5. CASE UNCHANGED vars
  BY <1>5 DEF vars, workerVars, qtVars, AuthorityArrivesInTime
<1>6. QED
  BY <1>3, <1>4, <1>5, StepOfOne

----------------------------------------------------------------------------
(* The theorems                                                            *)

\* The invariant holds in the beginning.
LEMMA ChannelInit == Init => ChannelInv
<1> SUFFICES ASSUME Init PROVE ChannelInv
  OBVIOUS
<1>1. TypeOK
  BY TypeInit
<1>2. Queued = {} /\ Covers(received) = {}
  BY NoMessageIsTyped, MessageFields DEF Init, Queued
<1>3. HandsInv /\ TurnInv
  BY DEF Init, HandsInv, TurnInv
<1>4. HeldIsAhead
  BY <1>2, MaxRevisionAssumption DEF Init, HeldIsAhead, Sent, Revision
<1>5. ChangesCarry /\ AuthorityKnown
  BY <1>2 DEF Init, ChangesCarry, AuthorityKnown
<1>6. ReserveInv
  BY CapacityAssumption, ReservedSlotsAssumption DEF Init, ReserveInv
<1>7. NothingForgotten /\ AuthorityArrivesInTime
  BY DEF Init, NothingForgotten, AuthorityArrivesInTime
<1>8. QED
  BY <1>1, <1>3, <1>4, <1>5, <1>6, <1>7 DEF ChannelInv

(* The inductive invariant of sendGraphChanged, sendProtocolDiagnostic,    *)
(* sendWorkerStopped and tryReceiveForQt holds of every behaviour.         *)
THEOREM ChannelInvariant == Spec => []ChannelInv
<1>1. ChannelInv /\ [Next]_vars => ChannelInv'
  BY TypeStep, HandsStep, AheadStep, CarryStep, KnownStep, ReserveStep, TurnStep,
     NotForgottenStep, ArrivesStep DEF ChannelInv
<1>2. QED
  BY ChannelInit, <1>1, PTL DEF Spec

(* The variables of ThreadChannels stay in their types; in particular the  *)
(* queue never exceeds WorkerToQtCapacity.                                 *)
THEOREM ChannelTypes == Spec => []TypeOK
<1>1. ChannelInv => TypeOK
  BY DEF ChannelInv
<1>2. QED
  BY ChannelInvariant, <1>1, PTL

(* No committed revision is forgotten by sendGraphChanged, requireRescan   *)
(* and tryReceiveForQt, however full the queue is and however the loads of *)
(* the two threads lag.                                                    *)
THEOREM NoRevisionForgotten == Spec => []NothingForgotten
<1>1. ChannelInv => NothingForgotten
  BY DEF ChannelInv
<1>2. QED
  BY ChannelInvariant, <1>1, PTL

(* tryReceiveForQt never tells Qt of a provider reset, by a change or by a *)
(* rescan, before it tells the authority that retires the old provider.    *)
THEOREM AuthorityInTime == Spec => []AuthorityArrivesInTime
<1>1. ChannelInv => AuthorityArrivesInTime
  BY DEF ChannelInv
<1>2. QED
  BY ChannelInvariant, <1>1, PTL

(* sendWorkerStopped finds a free slot whenever the worker may call it.    *)
THEOREM StoppedFindsRoom == Spec => []TerminalSlotFree
<1>1. ChannelInv => TerminalSlotFree
  BY NoMessageIsTyped, CapacityAssumption, ReservedSlotsAssumption
     DEF ChannelInv, TypeOK, HandsInv, ReserveInv, TerminalSlotFree
<1>2. QED
  BY ChannelInvariant, <1>1, PTL

(* queuedTurnAfterRescan_ gives the queue its turn: its head is overtaken  *)
(* at most once by a rescan that was required after it was queued.         *)
THEOREM NoStarvedHead == Spec => []HeadOvertakenOnce
<1>1. ChannelInv => HeadOvertakenOnce
  BY DEF ChannelInv, TurnInv, HeadOvertakenOnce
<1>2. QED
  BY ChannelInvariant, <1>1, PTL

-----------------------------------------------------------------------------
(*                           Part 2: the graph                             *)

\* Every set of numbers that is not empty has a least one.
LEMMA LeastNumber ==
    ASSUME NEW S \in SUBSET Nat, S # {}
    PROVE  \E i \in S : \A j \in S : i <= j
<1>1. \E i \in S : \A j \in S : ~(<<j, i>> \in OpToRel(<, Nat))
  BY NatLessThanWellFounded, WFMin, Zenon
<1>2. PICK i \in S : \A j \in S : ~(<<j, i>> \in OpToRel(<, Nat))
  BY <1>1, Zenon
<1>3. \A j \in S : ~(j < i)
  BY <1>2, Zenon DEF OpToRel
<1>4. \A j \in S : i <= j
  BY <1>3, SMT
<1>5. QED
  BY <1>4, Zenon

-----------------------------------------------------------------------------
\* Ranks: how many of a set of indices are not above one of them.

Rank(D, i) == Cardinality({j \in D : j <= i})

\* The ranks of the indices in D are 1 .. Cardinality(D), in their order.
LEMMA Ranks ==
    ASSUME NEW n \in Nat, NEW D \in SUBSET (1 .. n)
    PROVE  /\ IsFiniteSet(D) /\ Cardinality(D) \in Nat
           /\ \A i \in D : Rank(D, i) \in 1 .. Cardinality(D)
           /\ \A i, j \in D : i < j => Rank(D, i) < Rank(D, j)
           /\ \A k \in 1 .. Cardinality(D) : \E i \in D : Rank(D, i) = k
<1>1. IsFiniteSet(D) /\ Cardinality(D) \in Nat /\ D \subseteq Nat
  <2>1. IsFiniteSet(1 .. n)
    BY FS_Interval
  <2>2. IsFiniteSet(D)
    BY <2>1, FS_Subset, Zenon
  <2>3. D \subseteq Nat
    BY SMT
  <2>4. QED
    BY <2>2, <2>3, FS_CardinalityType
<1>2. ASSUME NEW i \in D PROVE Rank(D, i) \in 1 .. Cardinality(D)
  <2> DEFINE L == {j \in D : j <= i}
  <2>1. IsFiniteSet(L) /\ Cardinality(L) <= Cardinality(D) /\ Cardinality(L) \in Nat
    BY <1>1, FS_Subset, FS_CardinalityType
  <2>2. i \in L
    BY SMT
  <2>3. Cardinality(L) # 0
    BY <2>1, <2>2, FS_EmptySet
  <2>4. QED
    BY <1>1, <2>1, <2>3 DEF Rank
<1>3. ASSUME NEW i \in D, NEW j \in D, i < j PROVE Rank(D, i) < Rank(D, j)
  <2> DEFINE L == {l \in D : l <= i}
             M == {l \in D : l <= j}
  <2>0. (\A l \in D : l <= i => l <= j) /\ ~(j <= i) /\ j <= j
    BY <1>1, <1>3, SMT
  <2>1. L \subseteq M /\ j \in M /\ j \notin L
    BY <2>0, Zenon
  <2>2. IsFiniteSet(M) /\ IsFiniteSet(L) /\ Cardinality(L) \in Nat /\ Cardinality(M) \in Nat
    BY <1>1, FS_Subset, FS_CardinalityType
  <2>3. Cardinality(L) <= Cardinality(M) /\ (Cardinality(M) = Cardinality(L) => M = L)
    BY <2>1, <2>2, FS_Subset
  <2>4. Cardinality(L) < Cardinality(M)
    BY <2>1, <2>2, <2>3
  <2>5. QED
    BY <2>4 DEF Rank
<1>4. ASSUME NEW k \in 1 .. Cardinality(D) PROVE \E i \in D : Rank(D, i) = k
  <2> DEFINE K == 1 .. Cardinality(D)
             f == [i \in D |-> Rank(D, i)]
  <2>1. f \in [D -> K]
    BY <1>2
  <2>2. \A i, j \in D : f[i] = f[j] => i = j
    <3>1. SUFFICES ASSUME NEW i \in D, NEW j \in D, f[i] = f[j], i # j PROVE FALSE
      OBVIOUS
    <3>2. i < j \/ j < i
      BY <3>1, SMT
    <3>3. f[i] # f[j]
      BY <1>2, <1>3, <3>2, SMT
    <3>4. QED
      BY <3>1, <3>3
  <2> HIDE DEF f
  <2>3. f \in Injection(D, K)
    BY <2>1, <2>2, Zenon DEF Injection, IsInjective
  <2>4. IsFiniteSet(K) /\ Cardinality(K) = Cardinality(D)
    BY <1>1, FS_Interval
  <2>5. f \in Surjection(D, K)
    BY <2>3, <2>4, FS_Injection
  <2>6. \E i \in D : f[i] = k
    BY <2>5 DEF Surjection
  <2>7. QED
    BY <2>6 DEF f
<1>5. QED
  BY <1>1, <1>2, <1>3, <1>4, Zenon

\* The indices of s that lead into S.
Into(s, S) == {i \in DOMAIN s : s[i] \in S}

\* What Only() makes of a sequence: the elements in S at their ranks.
LEMMA OnlyAtRanks ==
    ASSUME NEW T, NEW s \in Seq(T), NEW S
    PROVE  /\ Cardinality(Into(s, S)) \in Nat
           /\ Len(Only(s, S)) = Cardinality(Into(s, S))
           /\ Only(s, S) \in Seq(T)
           /\ \A i \in Into(s, S) : /\ Rank(Into(s, S), i) \in DOMAIN Only(s, S)
                                    /\ Only(s, S)[Rank(Into(s, S), i)] = s[i]
           /\ \A k \in DOMAIN Only(s, S) : \E i \in Into(s, S) : Rank(Into(s, S), i) = k
           /\ \A i, j \in Into(s, S) : i < j => Rank(Into(s, S), i) < Rank(Into(s, S), j)
<1> DEFINE D == Into(s, S)
           N == Cardinality(D)
           c == Only(s, S)
<1>1. D \in SUBSET (1 .. Len(s)) /\ Len(s) \in Nat
  BY DEF Into
<1>2. /\ N \in Nat
      /\ \A i \in D : Rank(D, i) \in 1 .. N
      /\ \A i, j \in D : i < j => Rank(D, i) < Rank(D, j)
      /\ \A k \in 1 .. N : \E i \in D : Rank(D, i) = k
  BY <1>1, Ranks
<1>3. c = [k \in 1 .. N |-> s[CHOOSE i \in D : Rank(D, i) = k]]
  BY Zenon DEF Only, Into, Rank
<1> HIDE DEF D, N, c
<1>4. \A i, j \in D : Rank(D, i) = Rank(D, j) => i = j
  <2>1. SUFFICES ASSUME NEW i \in D, NEW j \in D, i # j PROVE Rank(D, i) # Rank(D, j)
    BY Zenon
  <2>2. i < j \/ j < i
    BY <1>1, <2>1, SMT
  <2>3. Rank(D, i) < Rank(D, j) \/ Rank(D, j) < Rank(D, i)
    BY <1>2, <2>2, Zenon
  <2>4. Rank(D, i) \in Nat /\ Rank(D, j) \in Nat
    BY <1>2, SMT
  <2>5. QED
    BY <2>3, <2>4, SMT
<1>5. \A i \in D : c[Rank(D, i)] = s[i]
  <2>1. TAKE i \in D
  <2>2. c[Rank(D, i)] = s[CHOOSE j \in D : Rank(D, j) = Rank(D, i)]
    BY <1>2, <1>3, Zenon
  <2>3. (CHOOSE j \in D : Rank(D, j) = Rank(D, i)) = i
    BY <1>4, Zenon
  <2>4. QED
    BY <2>2, <2>3, Zenon
<1>6. DOMAIN c = 1 .. N
  BY <1>3, Zenon
<1>7. \A k \in 1 .. N : c[k] \in T
  <2>1. TAKE k \in 1 .. N
  <2>2. PICK i \in D : Rank(D, i) = k
    BY <1>2, Zenon
  <2>3. c[k] = s[i]
    BY <1>5, <2>2, Zenon
  <2>4. QED
    BY <1>1, <2>3, SMT
<1>8. c \in [1 .. N -> T]
  BY <1>3, <1>7, Zenon
<1>9. c \in Seq(T) /\ Len(c) = N
  BY <1>2, <1>8, SMT
<1>10. QED
  BY <1>2, <1>5, <1>6, <1>9, Zenon DEF D, N, c

\* The place of x in s.
At(s, x) == CHOOSE i \in DOMAIN s : s[i] = x

\* The only place of an element of a sequence without repetition.
LEMMA OnlyPlace ==
    ASSUME NEW s, IsInjective(s), NEW i \in DOMAIN s
    PROVE  At(s, s[i]) = i
  BY Zenon DEF At, IsInjective

\* What a list holds has a place in it.
LEMMA PlaceOf ==
    ASSUME NEW s, NEW x \in ToSet(s)
    PROVE  At(s, x) \in DOMAIN s /\ s[At(s, x)] = x
  BY Zenon DEF At, ToSet

\* Only() keeps the elements in S, each as often as it was there, and their order.
LEMMA OnlyElements ==
    ASSUME NEW T, NEW s \in Seq(T), NEW S
    PROVE  /\ Only(s, S) \in Seq(T)
           /\ ToSet(Only(s, S)) = ToSet(s) \cap S
           /\ IsInjective(s) => IsInjective(Only(s, S))
           /\ \A k, l \in DOMAIN Only(s, S) : k < l =>
                \E i, j \in DOMAIN s : i < j /\ Only(s, S)[k] = s[i] /\ Only(s, S)[l] = s[j]
<1> DEFINE D == Into(s, S)
           c == Only(s, S)
<1>1. /\ c \in Seq(T)
      /\ \A i \in D : Rank(D, i) \in DOMAIN c /\ c[Rank(D, i)] = s[i]
      /\ \A k \in DOMAIN c : \E i \in D : Rank(D, i) = k
      /\ \A i, j \in D : i < j => Rank(D, i) < Rank(D, j)
  BY OnlyAtRanks
<1>2. /\ D \subseteq DOMAIN s /\ \A i \in DOMAIN s : i \in D <=> s[i] \in S
      /\ DOMAIN s \subseteq Nat /\ DOMAIN c \subseteq Nat
  BY <1>1, SMT DEF Into
<1> HIDE DEF c, D
<1>3. ToSet(c) = ToSet(s) \cap S
  <2>1. ASSUME NEW x \in ToSet(c) PROVE x \in ToSet(s) \cap S
    <3>1. PICK k \in DOMAIN c : x = c[k]
      BY Zenon DEF ToSet
    <3>2. PICK i \in D : Rank(D, i) = k
      BY <1>1, <3>1, Zenon
    <3>3. c[k] = s[i]
      BY <1>1, <3>2, Zenon
    <3>4. QED
      BY <1>2, <3>1, <3>3, Zenon DEF ToSet
  <2>2. ASSUME NEW x \in ToSet(s) \cap S PROVE x \in ToSet(c)
    <3>1. PICK i \in DOMAIN s : x = s[i]
      BY Zenon DEF ToSet
    <3>2. i \in D
      BY <1>2, <3>1, Zenon
    <3>3. QED
      BY <1>1, <3>1, <3>2, Zenon DEF ToSet
  <2>3. QED
    BY <2>1, <2>2, Zenon
<1>4. \A k, l \in DOMAIN c : k < l => \E i, j \in DOMAIN s : i < j /\ c[k] = s[i] /\ c[l] = s[j]
  <2>0. SUFFICES ASSUME NEW k \in DOMAIN c, NEW l \in DOMAIN c, k < l
                 PROVE  \E i, j \in DOMAIN s : i < j /\ c[k] = s[i] /\ c[l] = s[j]
    BY Zenon
  <2>1. PICK i \in D : Rank(D, i) = k
    BY <1>1, Zenon
  <2>2. PICK j \in D : Rank(D, j) = l
    BY <1>1, Zenon
  <2>3. i # j
    BY <1>2, <2>0, <2>1, <2>2, SMT
  <2>4. ~(Rank(D, j) < Rank(D, i))
    BY <1>2, <2>0, <2>1, <2>2, SMT
  <2>5. ~(j < i)
    BY <1>1, <2>4, Zenon
  <2>6. i < j
    BY <1>2, <2>3, <2>5, SMT
  <2>7. QED
    BY <1>1, <1>2, <2>1, <2>2, <2>6, Zenon
<1>5. ASSUME IsInjective(s) PROVE IsInjective(c)
  <2>1. SUFFICES ASSUME NEW k \in DOMAIN c, NEW l \in DOMAIN c, c[k] = c[l], k # l PROVE FALSE
    BY Zenon DEF IsInjective
  <2>2. k < l \/ l < k
    BY <1>2, <2>1, SMT
  <2>3. \E i, j \in DOMAIN s : i < j /\ s[i] = s[j]
    <3>1. CASE k < l
      <4>1. PICK i \in DOMAIN s, j \in DOMAIN s : i < j /\ c[k] = s[i] /\ c[l] = s[j]
        BY <1>4, <3>1, Zenon
      <4>2. s[i] = s[j]
        BY <2>1, <4>1, Zenon
      <4>3. QED
        BY <4>1, <4>2, Zenon
    <3>2. CASE l < k
      <4>1. PICK i \in DOMAIN s, j \in DOMAIN s : i < j /\ c[l] = s[i] /\ c[k] = s[j]
        BY <1>4, <3>2, Zenon
      <4>2. s[i] = s[j]
        BY <2>1, <4>1, Zenon
      <4>3. QED
        BY <4>1, <4>2, Zenon
    <3>3. QED
      BY <2>2, <3>1, <3>2, Zenon
  <2>4. PICK i \in DOMAIN s, j \in DOMAIN s : i < j /\ s[i] = s[j]
    BY <2>3, Zenon
  <2>5. i = j
    BY <1>5, <2>4, Zenon DEF IsInjective
  <2>6. QED
    BY <1>2, <2>4, <2>5, SMT
<1>6. QED
  BY <1>1, <1>3, <1>4, <1>5, Zenon DEF c

\* Two sequences with the same elements of S in the same order.
LEMMA OnlySame ==
    ASSUME NEW T, NEW s \in Seq(T), NEW t \in Seq(T), NEW S,
           NEW f \in [Into(s, S) -> Into(t, S)],
           \A i \in Into(s, S) : t[f[i]] = s[i],
           \A i, j \in Into(s, S) : i < j => f[i] < f[j],
           \A k \in Into(t, S) : \E i \in Into(s, S) : f[i] = k
    PROVE  Only(s, S) = Only(t, S)
<1> DEFINE D == Into(s, S)
           E == Into(t, S)
<1>1. /\ D \in SUBSET (1 .. Len(s)) /\ Len(s) \in Nat
      /\ E \in SUBSET (1 .. Len(t)) /\ Len(t) \in Nat
  BY DEF Into
<1>2. IsFiniteSet(D) /\ IsFiniteSet(E) /\ D \subseteq Nat /\ E \subseteq Nat
  <2>1. IsFiniteSet(D)
    BY <1>1, Ranks, Zenon
  <2>2. IsFiniteSet(E)
    BY <1>1, Ranks, Zenon
  <2>3. D \subseteq Nat /\ E \subseteq Nat
    BY <1>1, SMT
  <2>4. QED
    BY <2>1, <2>2, <2>3, Zenon
<1>3. \A i, j \in D : f[i] <= f[j] <=> i <= j
  <2>1. TAKE i, j \in D
  <2>2. i \in Nat /\ j \in Nat /\ f[i] \in Nat /\ f[j] \in Nat
    BY <1>2, Zenon
  <2>3. (i < j => f[i] < f[j]) /\ (j < i => f[j] < f[i]) /\ (i = j => f[i] = f[j])
    BY Zenon
  <2>4. QED
    BY <2>2, <2>3, SMT
<1>4. \A i, j \in D : f[i] = f[j] => i = j
  <2>1. TAKE i, j \in D
  <2>2. i \in Nat /\ j \in Nat /\ f[i] \in Nat /\ f[j] \in Nat
    BY <1>2, Zenon
  <2>3. (f[i] <= f[j] <=> i <= j) /\ (f[j] <= f[i] <=> j <= i)
    BY <1>3, Zenon
  <2>4. QED
    BY <2>2, <2>3, SMT
<1> HIDE DEF D, E
<1>5. \A i \in D : Rank(E, f[i]) = Rank(D, i)
  <2>1. TAKE i \in D
  <2> DEFINE L == {j \in D : j <= i}
             M == {j \in E : j <= f[i]}
             g == [j \in L |-> f[j]]
  <2>2. f \in [D -> E]
    BY Zenon DEF D, E
  <2>3. g \in [L -> M]
    <3>1. \A j \in L : f[j] \in M
      BY <1>3, <2>2, Zenon
    <3>2. QED
      BY <3>1, Zenon
  <2>4. \A k \in M : \E j \in L : g[j] = k
    <3>1. TAKE k \in M
    <3>2. PICK j \in D : f[j] = k
      BY Zenon DEF D, E
    <3>3. j \in L
      BY <1>3, <3>2, Zenon
    <3>4. QED
      BY <3>2, <3>3, Zenon
  <2>5. \A j, k \in L : g[j] = g[k] => j = k
    BY <1>4, Zenon
  <2>6. IsFiniteSet(L)
    BY <1>2, FS_Subset, Zenon
  <2> HIDE DEF L, M, g
  <2>7. g \in Surjection(L, M)
    BY <2>3, <2>4, Zenon DEF Surjection
  <2>8. DOMAIN g = L
    BY <2>3, Zenon
  <2>9. g \in Injection(L, M)
    BY <2>3, <2>5, <2>8, Zenon DEF Injection, IsInjective
  <2>10. Cardinality(L) = Cardinality(M)
    BY <2>6, <2>7, <2>9, FS_Surjection, Zenon
  <2>11. QED
    BY <2>10, Zenon DEF Rank, L, M
<1>6. Cardinality(D) = Cardinality(E)
  <2>1. f \in Surjection(D, E) /\ DOMAIN f = D
    BY Zenon DEF Surjection, D, E
  <2>2. f \in Injection(D, E)
    BY <1>4, <2>1, Zenon DEF Injection, Surjection, IsInjective
  <2>3. QED
    BY <1>2, <2>1, <2>2, FS_Surjection, Zenon
<1> DEFINE c == Only(s, S)
           e == Only(t, S)
<1>7. /\ c \in Seq(T) /\ Len(c) = Cardinality(D)
      /\ \A i \in D : c[Rank(D, i)] = s[i]
      /\ \A k \in DOMAIN c : \E i \in D : Rank(D, i) = k
  BY OnlyAtRanks DEF D
<1>8. /\ e \in Seq(T) /\ Len(e) = Cardinality(E)
      /\ \A i \in E : e[Rank(E, i)] = t[i]
  BY OnlyAtRanks DEF E
<1> HIDE DEF c, e
<1>9. \A k \in DOMAIN c : c[k] = e[k]
  <2>1. TAKE k \in DOMAIN c
  <2>2. PICK i \in D : Rank(D, i) = k
    BY <1>7, Zenon
  <2>3. c[k] = s[i]
    BY <1>7, <2>2, Zenon
  <2>4. f[i] \in E /\ Rank(E, f[i]) = k /\ t[f[i]] = s[i]
    BY <1>5, <2>2, Zenon DEF D, E
  <2>5. e[k] = t[f[i]]
    BY <1>8, <2>4, Zenon
  <2>6. QED
    BY <2>3, <2>4, <2>5, Zenon
<1>10. DOMAIN c = 1 .. Len(c)
  BY <1>7, SMT
<1>11. c = e
  BY <1>6, <1>7, <1>8, <1>9, <1>10, SeqEqual, Zenon
<1>12. QED
  BY <1>11, Zenon DEF c, e

\* A sequence cut in front of its place p.
LEMMA Cut ==
    ASSUME NEW T, NEW s \in Seq(T), NEW p \in 1 .. Len(s) + 1
    PROVE  LET a == SubSeq(s, 1, p - 1)
               b == SubSeq(s, p, Len(s))
           IN /\ a \in Seq(T) /\ Len(a) = p - 1 /\ \A i \in 1 .. p - 1 : a[i] = s[i]
              /\ b \in Seq(T) /\ Len(b) = Len(s) - p + 1
              /\ \A i \in 1 .. Len(s) - p + 1 : b[i] = s[p + i - 1]
<1>1. Len(s) \in Nat /\ p \in Int /\ p - 1 \in Int /\ 1 \in Int
  BY SMT
<1>2. \A i \in 1 .. Len(s) : s[i] \in T
  BY SMT
<1>3. (\A i \in 1 .. p - 1 : s[i] \in T) /\ (\A i \in p .. Len(s) : s[i] \in T)
  BY <1>2, SMT
<1>4. QED
  BY <1>1, <1>3, SMT

\* What InsertAt() does.
LEMMA Inserted ==
    ASSUME NEW T, NEW s \in Seq(T), NEW p \in 1 .. Len(s) + 1, NEW x \in T
    PROVE  /\ InsertAt(s, p, x) \in Seq(T)
           /\ Len(InsertAt(s, p, x)) = Len(s) + 1
           /\ \A i \in 1 .. p - 1 : InsertAt(s, p, x)[i] = s[i]
           /\ InsertAt(s, p, x)[p] = x
           /\ \A i \in p .. Len(s) : InsertAt(s, p, x)[i + 1] = s[i]
<1> DEFINE a == SubSeq(s, 1, p - 1)
           b == SubSeq(s, p, Len(s))
           m == a \o <<x>>
<1>0. Len(s) \in Nat /\ p \in Int /\ p - 1 \in Int /\ 1 \in Int
  BY SMT
<1>3. /\ a \in Seq(T) /\ Len(a) = p - 1 /\ \A i \in 1 .. p - 1 : a[i] = s[i]
      /\ b \in Seq(T) /\ Len(b) = Len(s) - p + 1 /\ \A i \in 1 .. Len(s) - p + 1 : b[i] = s[p + i - 1]
  BY Cut
<1> HIDE DEF a, b
<1>4. m \in Seq(T) /\ Len(m) = p /\ m[p] = x /\ \A i \in 1 .. p - 1 : m[i] = s[i]
  <2>1. <<x>> \in Seq(T) /\ Len(<<x>>) = 1 /\ <<x>>[1] = x
    BY SMT
  <2>2. m \in Seq(T) /\ Len(m) = Len(a) + 1
        /\ \A i \in 1 .. Len(a) + 1 : m[i] = IF i <= Len(a) THEN a[i] ELSE <<x>>[i - Len(a)]
    BY <1>3, <2>1, ConcatProperties
  <2> HIDE DEF m
  <2>3. QED
    BY <1>0, <1>3, <2>1, <2>2, SMT
<1> HIDE DEF m
<1>5. /\ m \o b \in Seq(T) /\ Len(m \o b) = Len(s) + 1
      /\ \A i \in 1 .. Len(s) + 1 : i <= p => (m \o b)[i] = m[i]
      /\ \A i \in 1 .. Len(s) + 1 : ~(i <= p) => (m \o b)[i] = b[i - p]
  BY <1>0, <1>3, <1>4, SMT
<1>6. InsertAt(s, p, x) = m \o b
  BY Zenon DEF InsertAt, a, b, m
<1>7. \A i \in 1 .. p - 1 : (m \o b)[i] = s[i]
  BY <1>0, <1>4, <1>5, SMT
<1>8. (m \o b)[p] = x
  BY <1>0, <1>4, <1>5, SMT
<1>9. \A i \in p .. Len(s) : (m \o b)[i + 1] = s[i]
  <2>1. TAKE i \in p .. Len(s)
  <2>2. i + 1 \in 1 .. Len(s) + 1 /\ ~(i + 1 <= p) /\ i + 1 - p \in 1 .. Len(s) - p + 1
        /\ p + (i + 1 - p) - 1 = i
    BY <1>0, SMT
  <2>3. (m \o b)[i + 1] = b[i + 1 - p]
    BY <1>5, <2>2
  <2>4. b[i + 1 - p] = s[p + (i + 1 - p) - 1]
    BY <1>3, <2>2, Zenon
  <2>5. QED
    BY <2>2, <2>3, <2>4, Zenon
<1>10. QED
  BY <1>5, <1>6, <1>7, <1>8, <1>9, Zenon

\* What is put into a sequence and is not in S makes no difference to S.
LEMMA InsertSame ==
    ASSUME NEW T, NEW s \in Seq(T), NEW p \in 1 .. Len(s) + 1, NEW x \in T, NEW S, x \notin S
    PROVE  Only(InsertAt(s, p, x), S) = Only(s, S)
<1> DEFINE t == InsertAt(s, p, x)
           f == [i \in Into(s, S) |-> IF i < p THEN i ELSE i + 1]
<1>1. /\ t \in Seq(T) /\ Len(t) = Len(s) + 1
      /\ \A i \in 1 .. p - 1 : t[i] = s[i]
      /\ t[p] = x
      /\ \A i \in p .. Len(s) : t[i + 1] = s[i]
  BY Inserted
<1> HIDE DEF t
<1>2. /\ \A i : i \in Into(s, S) <=> i \in 1 .. Len(s) /\ s[i] \in S
      /\ \A i : i \in Into(t, S) <=> i \in 1 .. Len(s) + 1 /\ t[i] \in S
      /\ Len(s) \in Nat /\ p \in Nat
  BY <1>1, SMT DEF Into
<1>3. \A i \in Into(s, S) : (IF i < p THEN i ELSE i + 1) \in Into(t, S)
                            /\ t[IF i < p THEN i ELSE i + 1] = s[i]
  BY <1>1, <1>2, SMT
<1>4. f \in [Into(s, S) -> Into(t, S)] /\ \A i \in Into(s, S) : t[f[i]] = s[i]
  BY <1>3, Zenon
<1>5. \A i, j \in Into(s, S) : i < j => f[i] < f[j]
  BY <1>2, SMT
<1>6. \A k \in Into(t, S) : \E i \in Into(s, S) : f[i] = k
  <2>1. TAKE k \in Into(t, S)
  <2>2. k \in 1 .. Len(s) + 1 /\ t[k] \in S /\ k # p
    BY <1>1, <1>2, Zenon
  <2>3. CASE k < p
    <3>1. k \in Into(s, S)
      BY <1>1, <1>2, <2>2, <2>3, SMT
    <3>2. QED
      BY <2>3, <3>1, Zenon
  <2>4. CASE ~(k < p)
    <3>1. k - 1 \in p .. Len(s) /\ k - 1 + 1 = k /\ ~(k - 1 < p)
      BY <1>2, <2>2, <2>4, SMT
    <3>2. t[k] = s[k - 1]
      BY <1>1, <3>1, Zenon
    <3>3. k - 1 \in 1 .. Len(s)
      BY <1>2, <3>1, SMT
    <3>4. k - 1 \in Into(s, S)
      BY <1>2, <2>2, <3>2, <3>3, Zenon
    <3>5. QED
      BY <3>1, <3>4, Zenon
  <2>5. QED
    BY <2>3, <2>4, Zenon
<1> HIDE DEF f
<1>7. Only(s, S) = Only(t, S)
  BY <1>1, <1>4, <1>5, <1>6, OnlySame
<1>8. QED
  BY <1>7, Zenon DEF t

\* What is not in S is taken out without a difference to S.
LEMMA EraseSame ==
    ASSUME NEW s \in Seq(Nodes), NEW R, NEW S, S \cap R = {}, S \subseteq Nodes
    PROVE  Only(Erase(s, R), S) = Only(s, S)
<1> DEFINE Q == Nodes \ R
           D == Into(s, Q)
           t == Only(s, Q)
           f == [i \in Into(s, S) |-> Rank(D, i)]
<1>0. \A x \in S : x \in Q
  BY Zenon
<1> HIDE DEF Q
<1>1. /\ t \in Seq(Nodes)
      /\ \A i \in D : Rank(D, i) \in DOMAIN t /\ t[Rank(D, i)] = s[i]
      /\ \A k \in DOMAIN t : \E i \in D : Rank(D, i) = k
      /\ \A i, j \in D : i < j => Rank(D, i) < Rank(D, j)
  BY OnlyAtRanks
<1>2. \A i : i \in D <=> i \in DOMAIN s /\ s[i] \in Q
  BY Zenon DEF Into
<1> HIDE DEF D, t
<1>3. /\ \A i : i \in Into(s, S) <=> i \in DOMAIN s /\ s[i] \in S
      /\ \A k : k \in Into(t, S) <=> k \in DOMAIN t /\ t[k] \in S
  BY Zenon DEF Into
<1>4. \A i \in Into(s, S) : i \in D
  BY <1>0, <1>2, <1>3, Zenon
<1>5. \A i \in Into(s, S) : Rank(D, i) \in Into(t, S) /\ t[Rank(D, i)] = s[i]
  BY <1>1, <1>3, <1>4, Zenon
<1>6. f \in [Into(s, S) -> Into(t, S)] /\ \A i \in Into(s, S) : t[f[i]] = s[i]
  BY <1>5, Zenon
<1>7. \A i, j \in Into(s, S) : i < j => f[i] < f[j]
  BY <1>1, <1>4, Zenon
<1>8. \A k \in Into(t, S) : \E i \in Into(s, S) : f[i] = k
  <2>1. TAKE k \in Into(t, S)
  <2>2. PICK i \in D : Rank(D, i) = k
    BY <1>1, <1>3, Zenon
  <2>3. s[i] \in S
    BY <1>1, <1>3, <2>2, Zenon
  <2>4. i \in Into(s, S)
    BY <1>2, <1>3, <2>3, Zenon
  <2>5. QED
    BY <2>2, <2>4, Zenon
<1> HIDE DEF f
<1>9. Only(s, S) = Only(t, S)
  BY <1>1, <1>6, <1>7, <1>8, OnlySame
<1>10. QED
  BY <1>9, Zenon DEF t, Q, Erase

\* A sequence that is all in S is all that Only() leaves.
LEMMA OnlyAll ==
    ASSUME NEW T, NEW s \in Seq(T), NEW S, ToSet(s) \subseteq S
    PROVE  Only(s, S) = s
<1> DEFINE D == Into(s, S)
           c == Only(s, S)
<1>1. /\ c \in Seq(T) /\ Len(c) = Cardinality(D)
      /\ \A i \in D : c[Rank(D, i)] = s[i]
  BY OnlyAtRanks
<1> HIDE DEF c
<1>2. Len(s) \in Nat /\ D = 1 .. Len(s)
  <2>1. DOMAIN s = 1 .. Len(s) /\ Len(s) \in Nat
    BY SMT
  <2>2. \A i \in DOMAIN s : s[i] \in S
    BY Zenon DEF ToSet
  <2>3. QED
    BY <2>1, <2>2, Zenon DEF Into
<1> HIDE DEF D
<1>3. Cardinality(D) = Len(s)
  BY <1>2, FS_Interval, SMT
<1>4. \A i \in D : Rank(D, i) = i
  <2>1. TAKE i \in D
  <2>2. {j \in D : j <= i} = 1 .. i
    BY <1>2, SMT
  <2>3. i \in Nat /\ i \in Int /\ 1 \in Int /\ ~(1 > i)
    BY <1>2, SMT
  <2>4. Cardinality(1 .. i) = i
    BY <2>3, FS_Interval, SMT
  <2>5. QED
    BY <2>2, <2>4, Zenon DEF Rank
<1>5. \A i \in 1 .. Len(c) : c[i] = s[i]
  <2>1. TAKE i \in 1 .. Len(c)
  <2>2. i \in D
    BY <1>1, <1>2, <1>3, Zenon
  <2>3. QED
    BY <1>1, <1>4, <2>2, Zenon
<1>6. c = s
  BY <1>1, <1>3, <1>5, SeqEqual, Zenon
<1>7. QED
  BY <1>6, Zenon DEF c

\* The shortened erasures: where nothing of R comes first, it is enough to erase the rest.
LEMMA ShortenedErasure ==
    ASSUME NEW s \in Seq(Nodes), NEW R, NEW m \in 0 .. Len(s), \A i \in 1 .. m : s[i] \notin R
    PROVE  SubSeq(s, 1, m) \o Erase(SubSeq(s, m + 1, Len(s)), R) = Erase(s, R)
<1> DEFINE S == Nodes \ R
           a == SubSeq(s, 1, m)
           u == SubSeq(s, m + 1, Len(s))
           e == Only(u, S)
           t == a \o e
           D == Into(u, S)
           f == [i \in Into(s, S) |-> IF i <= m THEN i ELSE m + Rank(D, i - m)]
<1>1. /\ Len(s) \in Nat /\ m \in Nat /\ m <= Len(s)
      /\ DOMAIN s = 1 .. Len(s) /\ \A i \in 1 .. Len(s) : s[i] \in Nodes
  BY SMT
<1>2. /\ a \in Seq(Nodes) /\ Len(a) = m /\ \A i \in 1 .. m : a[i] = s[i]
      /\ u \in Seq(Nodes) /\ Len(u) = Len(s) - m /\ DOMAIN u = 1 .. Len(s) - m
      /\ \A i \in 1 .. Len(s) - m : u[i] = s[m + i]
  <2>1. PICK p : p = m + 1
    BY Zenon
  <2>2. p \in 1 .. Len(s) + 1 /\ p - 1 = m /\ Len(s) - p + 1 = Len(s) - m
    BY <1>1, <2>1, SMT
  <2>3. LET v == SubSeq(s, 1, p - 1)
            w == SubSeq(s, p, Len(s))
        IN /\ v \in Seq(Nodes) /\ Len(v) = p - 1 /\ \A i \in 1 .. p - 1 : v[i] = s[i]
           /\ w \in Seq(Nodes) /\ Len(w) = Len(s) - p + 1
           /\ \A i \in 1 .. Len(s) - p + 1 : w[i] = s[p + i - 1]
    BY <2>2, Cut
  <2>6. /\ a \in Seq(Nodes) /\ Len(a) = m /\ \A i \in 1 .. m : a[i] = s[i]
        /\ u \in Seq(Nodes) /\ Len(u) = Len(s) - m
        /\ \A i \in 1 .. Len(s) - m : u[i] = s[m + 1 + i - 1]
    BY <2>1, <2>2, <2>3, Zenon
  <2>4. \A i \in 1 .. Len(s) - m : m + 1 + i - 1 = m + i
    BY <1>1, SMT
  <2>5. DOMAIN u = 1 .. Len(u)
    BY <2>6, SMT
  <2>7. QED
    BY <2>6, <2>4, <2>5, Zenon
<1>0. S = Nodes \ R
  OBVIOUS
<1> HIDE DEF S, a, u
<1>3. /\ e \in Seq(Nodes)
      /\ \A i \in D : Rank(D, i) \in DOMAIN e /\ e[Rank(D, i)] = u[i]
      /\ \A k \in DOMAIN e : \E i \in D : Rank(D, i) = k
      /\ \A i, j \in D : i < j => Rank(D, i) < Rank(D, j)
  BY <1>2, OnlyAtRanks
<1>4. ToSet(e) \subseteq S
  BY <1>2, OnlyElements
<1>5. \A i : i \in D <=> i \in 1 .. Len(s) - m /\ u[i] \in S
  BY <1>2, Zenon DEF Into
<1> HIDE DEF e, D
<1>6. /\ t \in Seq(Nodes) /\ Len(t) = m + Len(e) /\ Len(e) \in Nat
      /\ DOMAIN t = 1 .. m + Len(e) /\ DOMAIN e = 1 .. Len(e)
      /\ \A i \in 1 .. m : t[i] = s[i]
      /\ \A i \in 1 .. Len(e) : t[m + i] = e[i]
  <2>1. e \in Seq(Nodes) /\ Len(e) \in Nat /\ DOMAIN e = 1 .. Len(e)
    BY <1>3, SMT
  <2>2. t \in Seq(Nodes) /\ Len(t) = m + Len(e)
        /\ \A i \in 1 .. m + Len(e) : t[i] = IF i <= m THEN a[i] ELSE e[i - m]
    BY <1>2, <2>1, ConcatProperties
  <2> HIDE DEF t
  <2>3. DOMAIN t = 1 .. m + Len(e)
    BY <2>2, SMT
  <2>4. \A i \in 1 .. m : t[i] = s[i]
    BY <1>1, <1>2, <2>1, <2>2, SMT
  <2>5. \A i \in 1 .. Len(e) : t[m + i] = e[i]
    <3>1. TAKE i \in 1 .. Len(e)
    <3>2. m + i \in 1 .. m + Len(e) /\ ~(m + i <= m) /\ m + i - m = i
      BY <1>1, <2>1, SMT
    <3>3. QED
      BY <2>2, <3>2
  <2>6. QED
    BY <2>1, <2>2, <2>3, <2>4, <2>5, Zenon
<1> HIDE DEF t
<1>7. \A i : i \in Into(s, S) <=> i \in 1 .. Len(s) /\ s[i] \in S
  BY <1>1, Zenon DEF Into
<1>8. \A k \in DOMAIN t : t[k] \in S
  <2>1. TAKE k \in DOMAIN t
  <2>2. CASE k <= m
    <3>1. k \in 1 .. m /\ k \in 1 .. Len(s)
      BY <1>1, <1>6, <2>2, SMT
    <3>2. QED
      BY <1>0, <1>1, <1>6, <3>1, Zenon
  <2>3. CASE ~(k <= m)
    <3>1. k - m \in 1 .. Len(e) /\ m + (k - m) = k
      BY <1>1, <1>6, <2>3, SMT
    <3>2. t[k] = e[k - m] /\ e[k - m] \in ToSet(e)
      BY <1>6, <3>1, Zenon DEF ToSet
    <3>3. QED
      BY <1>4, <3>2, Zenon
  <2>4. QED
    BY <2>2, <2>3, Zenon
<1>9. Into(t, S) = DOMAIN t /\ ToSet(t) \subseteq S
  BY <1>8, Zenon DEF Into, ToSet
<1>10. \A i \in Into(s, S) : i > m => i - m \in D /\ Rank(D, i - m) \in 1 .. Len(e) /\ e[Rank(D, i - m)] = s[i]
  <2>1. SUFFICES ASSUME NEW i \in Into(s, S), i > m
                 PROVE  i - m \in D /\ Rank(D, i - m) \in 1 .. Len(e) /\ e[Rank(D, i - m)] = s[i]
    BY Zenon
  <2>2. i \in 1 .. Len(s) /\ s[i] \in S
    BY <1>7, Zenon
  <2>3. i - m \in 1 .. Len(s) - m /\ m + (i - m) = i
    BY <1>1, <2>1, <2>2, SMT
  <2>4. u[i - m] = s[i]
    BY <1>2, <2>3, Zenon
  <2>5. i - m \in D
    BY <1>5, <2>2, <2>3, <2>4, Zenon
  <2>6. QED
    BY <1>3, <1>6, <2>4, <2>5, Zenon
<1>11. \A i \in Into(s, S) : f[i] \in DOMAIN t /\ t[f[i]] = s[i]
  <2>1. TAKE i \in Into(s, S)
  <2>2. i \in 1 .. Len(s)
    BY <1>7, Zenon
  <2>3. CASE i <= m
    <3>1. f[i] = i /\ i \in 1 .. m /\ i \in 1 .. m + Len(e)
      BY <1>1, <1>6, <2>2, <2>3, SMT
    <3>2. QED
      BY <1>6, <3>1, Zenon
  <2>4. CASE ~(i <= m)
    <3>1. i > m
      BY <1>1, <2>2, <2>4, SMT
    <3>2. f[i] = m + Rank(D, i - m)
      BY <2>4, Zenon
    <3>3. Rank(D, i - m) \in 1 .. Len(e) /\ e[Rank(D, i - m)] = s[i]
      BY <1>10, <3>1, Zenon
    <3>4. m + Rank(D, i - m) \in 1 .. m + Len(e)
      BY <1>1, <1>6, <3>3, SMT
    <3>5. QED
      BY <1>6, <3>2, <3>3, <3>4, Zenon
  <2>5. QED
    BY <2>3, <2>4, Zenon
<1>12. f \in [Into(s, S) -> Into(t, S)]
  BY <1>9, <1>11, Zenon
<1>13. \A i, j \in Into(s, S) : i < j => f[i] < f[j]
  <2>1. SUFFICES ASSUME NEW i \in Into(s, S), NEW j \in Into(s, S), i < j PROVE f[i] < f[j]
    BY Zenon
  <2>2. i \in Nat /\ j \in Nat
    BY <1>7, SMT
  <2>3. CASE j <= m
    BY <1>1, <2>1, <2>2, <2>3, SMT
  <2>4. CASE i <= m /\ ~(j <= m)
    <3>0. j > m
      BY <1>1, <2>2, <2>4, SMT
    <3>1. Rank(D, j - m) \in 1 .. Len(e)
      BY <1>10, <3>0, Zenon
    <3>2. f[i] = i /\ f[j] = m + Rank(D, j - m)
      BY <2>4, Zenon
    <3>3. QED
      BY <1>1, <1>6, <2>2, <2>4, <3>1, <3>2, SMT
  <2>5. CASE ~(i <= m)
    <3>1. i > m /\ j > m /\ ~(j <= m) /\ i - m < j - m
      BY <1>1, <2>1, <2>2, <2>5, SMT
    <3>2. /\ i - m \in D /\ Rank(D, i - m) \in 1 .. Len(e)
          /\ j - m \in D /\ Rank(D, j - m) \in 1 .. Len(e)
      BY <1>10, <3>1, Zenon
    <3>3. Rank(D, i - m) < Rank(D, j - m)
      BY <1>3, <3>1, <3>2, Zenon
    <3>4. f[i] = m + Rank(D, i - m) /\ f[j] = m + Rank(D, j - m)
      BY <2>5, <3>1, Zenon
    <3>5. QED
      BY <1>1, <3>2, <3>3, <3>4, SMT
  <2>6. i <= m \/ ~(i <= m)
    OBVIOUS
  <2>7. QED
    BY <2>3, <2>4, <2>5, Zenon
<1>14. \A k \in Into(t, S) : \E i \in Into(s, S) : f[i] = k
  <2>1. TAKE k \in Into(t, S)
  <2>2. k \in 1 .. m + Len(e) /\ t[k] \in S
    BY <1>6, <1>8, <1>9, Zenon
  <2>3. CASE k <= m
    <3>1. k \in 1 .. m /\ k \in 1 .. Len(s)
      BY <1>1, <2>2, <2>3, SMT
    <3>2. k \in Into(s, S)
      BY <1>6, <1>7, <2>2, <3>1, Zenon
    <3>3. QED
      BY <2>3, <3>2, Zenon
  <2>4. CASE ~(k <= m)
    <3>1. k - m \in 1 .. Len(e) /\ m + (k - m) = k
      BY <1>1, <1>6, <2>2, <2>4, SMT
    <3>2. PICK j \in D : Rank(D, j) = k - m
      BY <1>3, <1>6, <3>1, Zenon
    <3>3. j \in 1 .. Len(s) - m /\ u[j] \in S /\ u[j] = s[m + j]
      BY <1>2, <1>5, Zenon
    <3>4. m + j \in 1 .. Len(s) /\ ~(m + j <= m) /\ m + j - m = j
      BY <1>1, <3>3, SMT
    <3>5. m + j \in Into(s, S)
      BY <1>7, <3>3, <3>4, Zenon
    <3>6. PICK i : i = m + j
      BY Zenon
    <3>7. i \in Into(s, S) /\ ~(i <= m) /\ i - m = j
      <4>1. i \in Into(s, S)
        BY <3>5, <3>6, Zenon
      <4>2. ~(i <= m) /\ i - m = j
        BY <1>1, <3>3, <3>6, SMT
      <4>3. QED
        BY <4>1, <4>2, Zenon
    <3>8. f[i] = m + Rank(D, i - m)
      BY <3>7, Zenon
    <3>9. f[i] = k
      BY <3>1, <3>2, <3>7, <3>8, Zenon
    <3>10. QED
      BY <3>7, <3>9, Zenon
  <2>5. QED
    BY <2>3, <2>4, Zenon
<1>15. \A i \in Into(s, S) : t[f[i]] = s[i]
  BY <1>11, Zenon
<1> HIDE DEF f
<1>16. Only(s, S) = Only(t, S)
  BY <1>6, <1>12, <1>13, <1>14, <1>15, OnlySame
<1>17. Only(t, S) = t
  BY <1>6, <1>9, OnlyAll, Zenon
<1>18. QED
  BY <1>0, <1>16, <1>17, Zenon DEF Erase, t, a, e, u

-----------------------------------------------------------------------------
\* Lists of nodes

\* Contains() asks for an element.
LEMMA ContainsIsIn ==
    ASSUME NEW T, NEW s \in Seq(T), NEW x
    PROVE  Contains(s, x) <=> x \in ToSet(s)
<1>1. DOMAIN s = 1 .. Len(s)
  BY SMT
<1>2. QED
  BY <1>1, Zenon DEF Contains, ToSet

\* A list with one element more at its end.
LEMMA AppendedList ==
    ASSUME NEW T, NEW s \in Seq(T), NEW x \in T
    PROVE  /\ Append(s, x) \in Seq(T)
           /\ ToSet(Append(s, x)) = ToSet(s) \cup {x}
           /\ IsInjective(s) /\ x \notin ToSet(s) => IsInjective(Append(s, x))
           /\ DOMAIN Append(s, x) = 1 .. Len(s) + 1 /\ DOMAIN s = 1 .. Len(s) /\ Len(s) \in Nat
           /\ \A i \in DOMAIN s : Append(s, x)[i] = s[i]
           /\ Append(s, x)[Len(s) + 1] = x
<1> DEFINE t == Append(s, x)
<1>1. /\ t \in Seq(T) /\ DOMAIN t = 1 .. Len(s) + 1 /\ DOMAIN s = 1 .. Len(s) /\ Len(s) \in Nat
      /\ \A i \in 1 .. Len(s) : t[i] = s[i]
      /\ t[Len(s) + 1] = x
  BY SMT
<1> HIDE DEF t
<1>2. \A i \in DOMAIN t : i \in DOMAIN s \/ i = Len(s) + 1
  BY <1>1, SMT
<1>3. \A i \in DOMAIN s : i \in DOMAIN t
  BY <1>1, SMT
<1>4. Len(s) + 1 \in DOMAIN t
  BY <1>1, SMT
<1>5. ToSet(t) = ToSet(s) \cup {x}
  <2>1. ASSUME NEW y \in ToSet(t) PROVE y \in ToSet(s) \cup {x}
    <3>1. PICK i \in DOMAIN t : y = t[i]
      BY Zenon DEF ToSet
    <3>2. QED
      BY <1>1, <1>2, <3>1, Zenon DEF ToSet
  <2>2. ASSUME NEW y \in ToSet(s) PROVE y \in ToSet(t)
    BY <1>1, <1>3, Zenon DEF ToSet
  <2>3. x \in ToSet(t)
    BY <1>1, <1>4, Zenon DEF ToSet
  <2>4. QED
    BY <2>1, <2>2, <2>3, Zenon
<1>6. IsInjective(s) /\ x \notin ToSet(s) => IsInjective(t)
  <2>1. SUFFICES ASSUME IsInjective(s), x \notin ToSet(s), NEW i \in DOMAIN t, NEW j \in DOMAIN t, t[i] = t[j]
                 PROVE  i = j
    BY Zenon DEF IsInjective
  <2>2. \A k \in DOMAIN s : s[k] # x
    BY <2>1, Zenon DEF ToSet
  <2>3. QED
    BY <1>1, <1>2, <2>1, <2>2, Zenon DEF IsInjective
<1>7. QED
  BY <1>1, <1>5, <1>6, Zenon DEF t

\* A list with one element more: those from its place on move up by one.
LEMMA InsertedList ==
    ASSUME NEW T, NEW s \in Seq(T), NEW p \in 1 .. Len(s) + 1, NEW x \in T, x \notin ToSet(s), IsInjective(s)
    PROVE  LET t == InsertAt(s, p, x)
           IN /\ t \in Seq(T) /\ ToSet(t) = ToSet(s) \cup {x} /\ IsInjective(t)
              /\ At(t, x) = p
              /\ \A y \in ToSet(s) : At(t, y) = IF At(s, y) < p THEN At(s, y) ELSE At(s, y) + 1
<1> DEFINE t == InsertAt(s, p, x)
<1>1. /\ t \in Seq(T) /\ Len(t) = Len(s) + 1
      /\ \A i \in 1 .. p - 1 : t[i] = s[i]
      /\ t[p] = x
      /\ \A i \in p .. Len(s) : t[i + 1] = s[i]
  BY Inserted
<1> HIDE DEF t
<1>2. /\ DOMAIN s = 1 .. Len(s) /\ DOMAIN t = 1 .. Len(s) + 1 /\ Len(s) \in Nat
      /\ p \in DOMAIN t /\ p \in Nat
  BY <1>1, SMT
<1> DEFINE To(i) == IF i < p THEN i ELSE i + 1
<1>3. \A i \in DOMAIN s : To(i) \in DOMAIN t /\ To(i) # p /\ t[To(i)] = s[i]
  BY <1>1, <1>2, SMT
<1>4. \A k \in DOMAIN t : k = p \/ \E i \in DOMAIN s : k = To(i)
  <2>1. TAKE k \in DOMAIN t
  <2>2. CASE k < p
    BY <1>2, <2>2, SMT
  <2>3. CASE k > p
    <3>1. k - 1 \in DOMAIN s /\ ~(k - 1 < p) /\ k = (k - 1) + 1
      BY <1>2, <2>3, SMT
    <3>2. QED
      BY <3>1, SMT
  <2>4. QED
    BY <1>2, <2>2, <2>3, SMT
<1>5. \A i, j \in DOMAIN s : To(i) = To(j) => i = j
  BY <1>2, SMT
<1> HIDE DEF To
<1>6. \A i \in DOMAIN s : s[i] # x
  BY Zenon DEF ToSet
<1>11. \A k \in DOMAIN t : t[k] = x => k = p
  <2>1. SUFFICES ASSUME NEW k \in DOMAIN t, t[k] = x, k # p PROVE FALSE
    BY Zenon
  <2>2. PICK i \in DOMAIN s : k = To(i)
    BY <1>4, <2>1, Zenon
  <2>3. s[i] = x
    BY <1>3, <2>1, <2>2, Zenon
  <2>4. QED
    BY <1>6, <2>3, Zenon
<1>7. IsInjective(t)
  <2>1. SUFFICES ASSUME NEW k \in DOMAIN t, NEW l \in DOMAIN t, t[k] = t[l] PROVE k = l
    BY Zenon DEF IsInjective
  <2>2. CASE k = p
    BY <1>1, <1>11, <2>1, <2>2, Zenon
  <2>3. CASE l = p
    BY <1>1, <1>11, <2>1, <2>3, Zenon
  <2>4. CASE k # p /\ l # p
    <3>1. PICK i \in DOMAIN s : k = To(i)
      BY <1>4, <2>4, Zenon
    <3>2. PICK j \in DOMAIN s : l = To(j)
      BY <1>4, <2>4, Zenon
    <3>3. s[i] = s[j]
      BY <1>3, <2>1, <3>1, <3>2, Zenon
    <3>4. QED
      BY <3>1, <3>2, <3>3, Zenon DEF IsInjective
  <2>5. QED
    BY <2>2, <2>3, <2>4, Zenon
<1>8. ToSet(t) = ToSet(s) \cup {x}
  <2>1. ASSUME NEW y \in ToSet(t) PROVE y \in ToSet(s) \cup {x}
    <3>1. PICK k \in DOMAIN t : y = t[k]
      BY Zenon DEF ToSet
    <3>2. QED
      <4>1. CASE k = p
        BY <1>1, <3>1, <4>1, Zenon
      <4>2. CASE k # p
        <5>1. PICK i \in DOMAIN s : k = To(i)
          BY <1>4, <4>2, Zenon
        <5>2. y = s[i]
          BY <1>3, <3>1, <5>1, Zenon
        <5>3. QED
          BY <5>2, Zenon DEF ToSet
      <4>3. QED
        BY <4>1, <4>2, Zenon
  <2>2. ASSUME NEW y \in ToSet(s) PROVE y \in ToSet(t)
    BY <1>3, Zenon DEF ToSet
  <2>3. x \in ToSet(t)
    BY <1>1, <1>2, Zenon DEF ToSet
  <2>4. QED
    BY <2>1, <2>2, <2>3, Zenon
<1>9. At(t, x) = p
  BY <1>1, <1>2, <1>7, OnlyPlace, Zenon
<1>10. \A y \in ToSet(s) : At(t, y) = To(At(s, y))
  <2>1. TAKE y \in ToSet(s)
  <2>2. At(s, y) \in DOMAIN s /\ s[At(s, y)] = y
    BY PlaceOf, Zenon
  <2>3. To(At(s, y)) \in DOMAIN t /\ t[To(At(s, y))] = y
    BY <1>3, <2>2, Zenon
  <2>4. QED
    BY <1>7, <2>3, OnlyPlace, Zenon
<1>12. QED
  BY <1>1, <1>7, <1>8, <1>9, <1>10, Zenon DEF t, To

\* A list after an erasure: without what was erased, in the same order.
LEMMA ErasedList ==
    ASSUME NEW s \in Seq(Nodes), NEW R
    PROVE  /\ Erase(s, R) \in Seq(Nodes)
           /\ ToSet(Erase(s, R)) = ToSet(s) \ R
           /\ IsInjective(s) => IsInjective(Erase(s, R))
           /\ \A k, l \in DOMAIN Erase(s, R) : k < l =>
                \E i, j \in DOMAIN s : i < j /\ Erase(s, R)[k] = s[i] /\ Erase(s, R)[l] = s[j]
<1>1. PICK S : S = Nodes \ R
  BY Zenon
<1>2. Erase(s, R) = Only(s, S)
  BY <1>1, Zenon DEF Erase
<1>3. /\ Only(s, S) \in Seq(Nodes) /\ ToSet(Only(s, S)) = ToSet(s) \cap S
      /\ IsInjective(s) => IsInjective(Only(s, S))
      /\ \A k, l \in DOMAIN Only(s, S) : k < l =>
           \E i, j \in DOMAIN s : i < j /\ Only(s, S)[k] = s[i] /\ Only(s, S)[l] = s[j]
  BY OnlyElements
<1>4. ToSet(s) \subseteq Nodes
  <2>1. \A i \in DOMAIN s : s[i] \in Nodes
    BY SMT
  <2>2. QED
    BY <2>1, Zenon DEF ToSet
<1>5. ToSet(s) \cap S = ToSet(s) \ R
  BY <1>1, <1>4, Zenon
<1>6. QED
  BY <1>2, <1>3, <1>5

\* The elements and the indices of a list.
LEMMA ListIsTyped ==
    ASSUME NEW T, NEW s \in Seq(T)
    PROVE  ToSet(s) \subseteq T /\ DOMAIN s = 1 .. Len(s) /\ Len(s) \in Nat
<1>1. DOMAIN s = 1 .. Len(s) /\ Len(s) \in Nat /\ \A i \in DOMAIN s : s[i] \in T
  BY SMT
<1>2. QED
  BY <1>1, Zenon DEF ToSet

\* A list has finitely many elements.
LEMMA ListIsFinite ==
    ASSUME NEW T, NEW s \in Seq(T)
    PROVE  IsFiniteSet(ToSet(s))
<1>1. DOMAIN s = 1 .. Len(s) /\ Len(s) \in Nat
  BY SMT
<1>2. s \in [1 .. Len(s) -> ToSet(s)] /\ \A x \in ToSet(s) : \E i \in 1 .. Len(s) : s[i] = x
  <2>1. s = [i \in 1 .. Len(s) |-> s[i]]
    BY <1>1, SMT
  <2>2. \A i \in 1 .. Len(s) : s[i] \in ToSet(s)
    BY <1>1, Zenon DEF ToSet
  <2>3. \A x \in ToSet(s) : \E i \in 1 .. Len(s) : s[i] = x
    BY <1>1, Zenon DEF ToSet
  <2>4. s \in [1 .. Len(s) -> ToSet(s)]
    BY <2>1, <2>2, Zenon
  <2>5. QED
    BY <2>3, <2>4, Zenon
<1>3. s \in Surjection(1 .. Len(s), ToSet(s))
  BY <1>2, Zenon DEF Surjection
<1>4. IsFiniteSet(1 .. Len(s))
  BY <1>1, FS_Interval
<1>5. QED
  BY <1>3, <1>4, FS_Surjection, Zenon

\* What is chosen as a new list is without repetition.
LEMMA ListsOf ==
    ASSUME NEW S, IsFiniteSet(S), NEW s \in SetToAllKPermutations(S)
    PROVE  s \in Seq(S) /\ IsInjective(s) /\ ToSet(s) \subseteq S
<1>1. PICK U \in SUBSET S : s \in SetToSeqs(U)
  BY Zenon DEF SetToAllKPermutations
<1> DEFINE D == 1 .. Cardinality(U)
<1>2. s \in [D -> U] /\ \A i, j \in D : i # j => s[i] # s[j]
  BY <1>1, Zenon DEF SetToSeqs
<1>3. IsInjective(s)
  BY <1>2, Zenon DEF IsInjective
<1>4. ToSet(s) \subseteq S
  BY <1>2, Zenon DEF ToSet
<1>5. s \in Seq(S)
  <2>1. Cardinality(U) \in Nat
    BY FS_Subset, FS_CardinalityType
  <2>2. s \in [D -> S]
    BY <1>2, Zenon
  <2>3. QED
    BY <2>1, <2>2, SMT
<1>6. QED
  BY <1>3, <1>4, <1>5, Zenon

\* Renumber() stores the places of the elements from one place on, nothing else.
LEMMA RenumberedList ==
    ASSUME NEW at, NEW s, IsInjective(s), NEW first, NEW n \in Nodes
    PROVE  Renumber(at, s, first)[n] =
             IF n \in ToSet(s) /\ At(s, n) >= first THEN At(s, n) - 1 ELSE at[n]
<1>1. (\E i \in DOMAIN s : i >= first /\ s[i] = n) <=> n \in ToSet(s) /\ At(s, n) >= first
  <2>1. ASSUME NEW i \in DOMAIN s, i >= first, s[i] = n PROVE n \in ToSet(s) /\ At(s, n) >= first
    <3>1. At(s, n) = i
      BY <2>1, OnlyPlace, Zenon
    <3>2. QED
      BY <2>1, <3>1, Zenon DEF ToSet
  <2>2. ASSUME n \in ToSet(s), At(s, n) >= first PROVE \E i \in DOMAIN s : i >= first /\ s[i] = n
    BY <2>2, PlaceOf, Zenon
  <2>3. QED
    BY <2>1, <2>2, Zenon
<1>2. QED
  BY <1>1, Zenon DEF Renumber, At

\* A node is inserted once, and a removed one stays removed.
ListsInv ==
    /\ ordered \in Seq(Nodes) /\ born \in Seq(Nodes) /\ retired \in Seq(Nodes)
    /\ IsInjective(ordered) /\ IsInjective(born)
    /\ Live \cup ToSet(retired) \subseteq ToSet(born) /\ Live \cap ToSet(retired) = {}

\* Lists of children and parents say the same; the positions are right; no cycles.
TreeInv ==
    /\ parent \in [Nodes -> Nodes \cup {None}]
    /\ children \in [Nodes -> Seq(Nodes)]
    /\ index \in [Nodes -> Nat]
    /\ \A p \in Nodes : IsInjective(children[p])
    /\ \A p, c \in Nodes : c \in ToSet(children[p]) <=> parent[c] = p
    /\ \A c \in Nodes : parent[c] # None =>
         parent[c] \in Live /\ c \in Live /\ index[c] = At(children[parent[c]], c) - 1
    /\ \A S \in SUBSET Live : S # {} => \E n \in S : parent[n] \notin S

\* A retired node caches where it is among them.
RetiredInv == \A i \in DOMAIN retired : index[retired[i]] = i - 1

\* Both ends of a relation know of it, and waiting requests are linked in order.
InOrder(b, w) == \A i, j \in DOMAIN w : i < j => At(b, w[i]) < At(b, w[j])
EdgesInv ==
    /\ out \in [Nodes -> [Relations -> Seq(Nodes)]]
    /\ incoming \in [Nodes -> SUBSET (Nodes \X Relations)]
    /\ pending \in [Nodes -> BOOLEAN]
    /\ \A s \in Nodes, r \in Relations : IsInjective(out[s][r])
    /\ \A s, t \in Nodes, r \in Relations : t \in ToSet(out[s][r]) <=> <<s, r>> \in incoming[t]
    /\ \A s, t \in Nodes, r \in Relations :
         t \in ToSet(out[s][r]) => s \in Live /\ t \in Live /\ MayRelate(r, t)
    /\ \A s \in Nodes : InOrder(born, out[s][PendingInteraction])

\* The inductive invariant.  Acyclicity is that of the tree as a relation: a set of live
\* nodes that is closed under parents is empty, so one step need only be followed to the
\* set it would close.
GraphInv == ListsInv /\ TreeInv /\ RetiredInv /\ EdgesInv

-----------------------------------------------------------------------------
\* The empty graph is well formed.
LEMMA InitGraph ==
    ASSUME GraphAssumption, GraphInit
    PROVE  GraphInv
<1>1. /\ <<>> \in Seq(Nodes) /\ DOMAIN <<>> = {} /\ ToSet(<<>>) = {} /\ IsInjective(<<>>)
  <2>1. <<>> \in Seq(Nodes) /\ DOMAIN <<>> = {}
    BY SMT
  <2>2. QED
    BY <2>1, Zenon DEF ToSet, IsInjective
<1>2. Live = {}
  BY <1>1, Zenon DEF GraphInit, Live
<1>3. ListsInv
  BY <1>1, <1>2, Zenon DEF GraphInit, ListsInv
<1>4. TreeInv
  <2>1. /\ parent \in [Nodes -> Nodes \cup {None}]
        /\ children \in [Nodes -> Seq(Nodes)]
        /\ \A n \in Nodes : parent[n] = None /\ children[n] = <<>>
    BY <1>1, Zenon DEF GraphInit
  <2>2. index \in [Nodes -> Nat]
    BY SMT DEF GraphInit
  <2>3. QED
    BY <1>1, <1>2, <2>1, <2>2, Zenon DEF TreeInv, GraphAssumption
<1>5. RetiredInv
  BY <1>1, Zenon DEF GraphInit, RetiredInv
<1>6. EdgesInv
  <2>1. /\ out \in [Nodes -> [Relations -> Seq(Nodes)]]
        /\ \A s \in Nodes, r \in Relations : out[s][r] = <<>>
    BY <1>1, Zenon DEF GraphInit, NoEdges
  <2>2. /\ incoming \in [Nodes -> SUBSET (Nodes \X Relations)]
        /\ pending \in [Nodes -> BOOLEAN]
        /\ \A t \in Nodes : incoming[t] = {}
    BY Zenon DEF GraphInit
  <2>3. \A s \in Nodes : out[s][PendingInteraction] = <<>>
    BY <2>1, Zenon DEF GraphAssumption
  <2>4. QED
    BY <1>1, <2>1, <2>2, <2>3, Zenon DEF EdgesInv, InOrder
<1>7. QED
  BY <1>3, <1>4, <1>5, <1>6, Zenon DEF GraphInv

\* What leaves the lists of nodes, the edges and the states alone keeps the edges right.
LEMMA EdgesUnchanged ==
    ASSUME EdgesInv, UNCHANGED <<ordered, born, edges, pending>>
    PROVE  EdgesInv'
<1>1. ordered' = ordered /\ born' = born /\ out' = out /\ incoming' = incoming /\ pending' = pending
  BY DEF edges
<1>2. Live' = Live /\ \A r, t : MayRelate(r, t)' = MayRelate(r, t)
  BY <1>1, Zenon DEF Live, MayRelate
<1>3. QED
  BY <1>1, <1>2, Zenon DEF EdgesInv

\* What leaves the lists of nodes alone keeps them right.
LEMMA ListsUnchanged ==
    ASSUME ListsInv, UNCHANGED <<ordered, born, retired>>
    PROVE  ListsInv' /\ Live' = Live
  BY Zenon DEF ListsInv, Live

\* What leaves parents, children and positions alone keeps the tree right.
LEMMA TreeUnchanged ==
    ASSUME TreeInv, UNCHANGED <<ordered, parent, children, index>>
    PROVE  TreeInv'
  BY Zenon DEF TreeInv, Live

\* Where nobody is hung beneath himself there is no cycle.
LEMMA StillNoCycle ==
    ASSUME GraphAssumption, TreeInv, NEW p, NEW K,
           Live' \subseteq Live, p \in Live \/ K = {}, K \cap Ancestors(p) = {},
           \A n \in Live' : parent'[n] = parent[n] \/ parent'[n] = None \/ (n \in K /\ parent'[n] = p),
           Live \subseteq Nodes
    PROVE  \A S \in SUBSET Live' : S # {} => \E n \in S : parent'[n] \notin S
<1>1. SUFFICES ASSUME NEW S \in SUBSET Live', S # {}, \A n \in S : parent'[n] \in S PROVE FALSE
  BY Zenon
<1>2. \A n \in S : n \in Live /\ n \in Nodes /\ n # None
  BY Zenon DEF GraphAssumption
<1>3. \A n \in S : parent'[n] = parent[n] \/ (n \in K /\ parent'[n] = p)
  BY <1>1, <1>2, Zenon
<1>4. \A U \in SUBSET Live : U # {} => \E n \in U : parent[n] \notin U
  BY Zenon DEF TreeInv
<1>5. CASE \A n \in S : n \notin K
  <2>1. \A n \in S : parent[n] \in S
    BY <1>1, <1>3, <1>5, Zenon
  <2>2. S \in SUBSET Live
    BY <1>2, Zenon
  <2>3. QED
    BY <1>1, <1>4, <2>1, <2>2, Zenon
<1>6. CASE \E n \in S : n \in K
  <2>1. p \in Live
    BY <1>6, Zenon
  <2>2. p \in S
    <3>1. CASE \E n \in S : parent'[n] = p
      BY <1>1, <3>1, Zenon
    <3>2. CASE \A n \in S : parent'[n] # p
      <4>1. \A n \in S : parent[n] \in S
        BY <1>1, <1>3, <3>2, Zenon
      <4>2. S \in SUBSET Live
        BY <1>2, Zenon
      <4>3. QED
        BY <1>1, <1>4, <4>1, <4>2, Zenon
    <3>3. QED
      BY <3>1, <3>2, Zenon
  <2> DEFINE A == Ancestors(p)
             T == S \cap A
  <2>3. p \in A
    BY <2>1, Zenon DEF Ancestors
  <2>4. \A n \in A : parent[n] \in Live => parent[n] \in A
    <3>1. SUFFICES ASSUME NEW n \in A, parent[n] \in Live PROVE parent[n] \in A
      BY Zenon
    <3>2. parent[n] # None
      BY <3>1, Zenon DEF GraphAssumption
    <3>3. \A U \in SUBSET Live :
            p \in U /\ (\A m \in U : parent[m] \in U \cup {None}) => parent[n] \in U
      <4>1. SUFFICES ASSUME NEW U \in SUBSET Live, p \in U, \A m \in U : parent[m] \in U \cup {None}
                     PROVE  parent[n] \in U
        BY Zenon
      <4>2. n \in U
        BY <4>1, Zenon DEF Ancestors
      <4>3. QED
        BY <3>2, <4>1, <4>2, Zenon
    <3>4. QED
      BY <3>1, <3>3, Zenon DEF Ancestors
  <2> HIDE DEF A
  <2>5. \A n \in A : n \notin K
    BY Zenon DEF A
  <2>6. \A n \in T : parent[n] \in T
    <3>1. TAKE n \in T
    <3>2. parent'[n] = parent[n]
      BY <1>3, <2>5, Zenon
    <3>3. parent[n] \in S
      BY <1>1, <3>2, Zenon
    <3>4. QED
      BY <1>2, <2>4, <3>3, Zenon
  <2>7. T \in SUBSET Live /\ T # {}
    BY <1>2, <2>2, <2>3, Zenon
  <2>8. QED
    BY <1>4, <2>6, <2>7, Zenon
<1>7. QED
  BY <1>5, <1>6, Zenon

\* The live nodes are finitely many nodes.
LEMMA LiveAreNodes ==
    ASSUME ListsInv
    PROVE  Live \subseteq Nodes /\ ToSet(born) \subseteq Nodes /\ IsFiniteSet(Live)
  BY ListIsTyped, ListIsFinite, Zenon DEF ListsInv, Live

\* The places in a list stay when it grows at its end.
LEMMA AppendedPlace ==
    ASSUME NEW T, NEW s \in Seq(T), NEW x \in T, x \notin ToSet(s), IsInjective(s), NEW y \in ToSet(s)
    PROVE  At(Append(s, x), y) = At(s, y)
<1>1. At(s, y) \in DOMAIN s /\ s[At(s, y)] = y
  BY PlaceOf, Zenon
<1>2. /\ IsInjective(Append(s, x)) /\ \A i \in DOMAIN s : i \in DOMAIN Append(s, x)
      /\ \A i \in DOMAIN s : Append(s, x)[i] = s[i]
  <2>1. /\ IsInjective(Append(s, x)) /\ \A i \in DOMAIN s : Append(s, x)[i] = s[i]
        /\ DOMAIN Append(s, x) = 1 .. Len(s) + 1 /\ DOMAIN s = 1 .. Len(s) /\ Len(s) \in Nat
    BY AppendedList
  <2>2. QED
    BY <2>1, SMT
<1>3. QED
  BY <1>1, <1>2, OnlyPlace, Zenon

\* upsert(): the new node hangs nowhere, and the order of the others stays.
LEMMA UpsertKeeps ==
    ASSUME GraphAssumption, GraphInv, NEW n \in Nodes, Upsert(n)
    PROVE  GraphInv'
<1>1. ListsInv /\ TreeInv /\ RetiredInv /\ EdgesInv /\ Live \subseteq Nodes
  BY LiveAreNodes, Zenon DEF GraphInv
<1>2. /\ n \notin ToSet(born) /\ ordered' = Append(ordered, n) /\ born' = Append(born, n)
      /\ pending' = [pending EXCEPT ![n] = TRUE]
      /\ parent' = parent /\ children' = children /\ index' = index
      /\ out' = out /\ incoming' = incoming /\ retired' = retired
  BY Zenon DEF Upsert, edges
<1>3. /\ n \notin Live /\ n \notin ToSet(retired) /\ n \notin ToSet(ordered)
  BY <1>1, <1>2, Zenon DEF ListsInv, Live
<1>4. /\ Append(ordered, n) \in Seq(Nodes) /\ ToSet(Append(ordered, n)) = ToSet(ordered) \cup {n}
      /\ IsInjective(Append(ordered, n))
  BY <1>1, <1>3, AppendedList DEF ListsInv
<1>5. /\ Append(born, n) \in Seq(Nodes) /\ ToSet(Append(born, n)) = ToSet(born) \cup {n}
      /\ IsInjective(Append(born, n))
  BY <1>1, <1>2, AppendedList DEF ListsInv
<1>6. Live' = Live \cup {n}
  BY <1>2, <1>4, Zenon DEF Live
<1>7. ListsInv'
  BY <1>1, <1>2, <1>3, <1>4, <1>5, <1>6, Zenon DEF ListsInv
<1>8. TreeInv'
  <2>1. \A S \in SUBSET Live' : S # {} => \E m \in S : parent[m] \notin S
    <3>1. TAKE S \in SUBSET Live'
    <3>2. CASE n \in S
      <4>1. parent[n] = None
        BY <1>1, <1>3, Zenon DEF TreeInv
      <4>2. None \notin S
        BY <1>1, <1>6, Zenon DEF GraphAssumption
      <4>3. QED
        BY <3>2, <4>1, <4>2, Zenon
    <3>3. CASE n \notin S
      <4>1. S \in SUBSET Live
        BY <1>6, <3>3, Zenon
      <4>2. QED
        BY <1>1, <4>1, Zenon DEF TreeInv
    <3>4. QED
      BY <3>2, <3>3, Zenon
  <2>2. QED
    BY <1>1, <1>2, <1>6, <2>1, Zenon DEF TreeInv
<1>9. RetiredInv'
  BY <1>1, <1>2, Zenon DEF RetiredInv
<1>10. EdgesInv'
  <2>1. \A r, t : MayRelate(r, t) /\ t \in Nodes => MayRelate(r, t)'
    BY <1>1, <1>2, Zenon DEF MayRelate, EdgesInv
  <2>2. pending' \in [Nodes -> BOOLEAN]
    BY <1>1, <1>2, Zenon DEF EdgesInv
  <2>3. \A s \in Nodes : InOrder(born', out[s][PendingInteraction])
    <3>1. SUFFICES ASSUME NEW s \in Nodes,
                          NEW i \in DOMAIN out[s][PendingInteraction], NEW j \in DOMAIN out[s][PendingInteraction],
                          i < j
                   PROVE  At(born', out[s][PendingInteraction][i]) < At(born', out[s][PendingInteraction][j])
      BY Zenon DEF InOrder
    <3>2. PICK x \in Live, y \in Live : x = out[s][PendingInteraction][i] /\ y = out[s][PendingInteraction][j]
      <4>1. out[s][PendingInteraction] \in Seq(Nodes)
        <5>1. out[s] \in [Relations -> Seq(Nodes)] /\ PendingInteraction \in Relations
          BY <1>1, Zenon DEF EdgesInv, GraphAssumption
        <5>2. QED
          BY <5>1, Zenon
      <4>2. out[s][PendingInteraction][i] \in ToSet(out[s][PendingInteraction])
            /\ out[s][PendingInteraction][j] \in ToSet(out[s][PendingInteraction])
        BY Zenon DEF ToSet
      <4>3. ToSet(out[s][PendingInteraction]) \subseteq Nodes
        BY <4>1, ListIsTyped, Zenon
      <4>4. QED
        BY <1>1, <4>2, <4>3, Zenon DEF EdgesInv, GraphAssumption
    <3>3. At(born, x) < At(born, y)
      BY <1>1, <3>1, <3>2, Zenon DEF EdgesInv, InOrder
    <3>4. x \in ToSet(born) /\ y \in ToSet(born)
      BY <1>1, Zenon DEF ListsInv
    <3>5. At(born', x) = At(born, x) /\ At(born', y) = At(born, y)
      <4>1. born \in Seq(Nodes) /\ IsInjective(born)
        BY <1>1, Zenon DEF ListsInv
      <4>2. At(Append(born, n), x) = At(born, x) /\ At(Append(born, n), y) = At(born, y)
        BY <1>2, <3>4, <4>1, AppendedPlace, Zenon
      <4>3. QED
        BY <1>2, <4>2, Zenon
    <3>6. QED
      BY <3>2, <3>3, <3>5, Zenon
  <2>4. QED
    BY <1>1, <1>2, <1>6, <2>1, <2>2, <2>3, Zenon DEF EdgesInv
<1>11. QED
  BY <1>7, <1>8, <1>9, <1>10, Zenon DEF GraphInv

\* replaceState(): a request that waits for an answer stays open, for it has an edge.
LEMMA ReplaceStateKeeps ==
    ASSUME GraphAssumption, GraphInv, NEW n \in Nodes, ReplaceState(n)
    PROVE  GraphInv'
<1>1. ListsInv /\ TreeInv /\ RetiredInv /\ EdgesInv
  BY Zenon DEF GraphInv
<1>2. /\ pending[n] => \A e \in incoming[n] : e[2] # PendingInteraction
      /\ pending' = [pending EXCEPT ![n] = ~@]
      /\ ordered' = ordered /\ born' = born /\ parent' = parent /\ children' = children /\ index' = index
      /\ out' = out /\ incoming' = incoming /\ retired' = retired
  BY Zenon DEF ReplaceState, edges
<1>3. ListsInv' /\ Live' = Live /\ TreeInv'
  BY <1>1, <1>2, ListsUnchanged, TreeUnchanged, Zenon
<1>4. RetiredInv'
  BY <1>1, <1>2, Zenon DEF RetiredInv
<1>5. EdgesInv'
  <2>1. pending' \in [Nodes -> BOOLEAN]
    BY <1>1, <1>2, Zenon DEF EdgesInv
  <2>2. \A s, t \in Nodes, r \in Relations : t \in ToSet(out[s][r]) => MayRelate(r, t)'
    <3>1. SUFFICES ASSUME NEW s \in Nodes, NEW t \in Nodes, NEW r \in Relations, t \in ToSet(out[s][r])
                   PROVE  MayRelate(r, t)'
      BY Zenon
    <3>2. MayRelate(r, t) /\ <<s, r>> \in incoming[t]
      BY <1>1, <3>1, Zenon DEF EdgesInv
    <3>3. r = PendingInteraction => pending'[t]
      <4>1. SUFFICES ASSUME r = PendingInteraction PROVE pending'[t]
        BY Zenon
      <4>2. pending[t]
        BY <3>2, <4>1, Zenon DEF MayRelate
      <4>3. t # n
        <5>1. <<s, r>>[2] = PendingInteraction
          BY <4>1
        <5>2. QED
          BY <1>2, <3>2, <4>2, <5>1, Zenon
      <4>4. QED
        BY <1>1, <1>2, <4>2, <4>3, Zenon DEF EdgesInv
    <3>4. QED
      BY <3>2, <3>3, Zenon DEF MayRelate
  <2>3. QED
    BY <1>1, <1>2, <1>3, <2>1, <2>2, Zenon DEF EdgesInv
<1>6. QED
  BY <1>3, <1>4, <1>5, Zenon DEF GraphInv

\* Positions are numbers.
LEMMA RenumberedType ==
    ASSUME NEW at \in [Nodes -> Nat], NEW s \in Seq(Nodes), IsInjective(s), NEW first
    PROVE  Renumber(at, s, first) \in [Nodes -> Nat]
<1>1. \A n \in Nodes : Renumber(at, s, first)[n] \in Nat
  <2>1. TAKE n \in Nodes
  <2>2. n \in ToSet(s) => At(s, n) - 1 \in Nat
    <3>1. n \in ToSet(s) => At(s, n) \in DOMAIN s
      BY PlaceOf, Zenon
    <3>2. QED
      BY <3>1, SMT
  <2>3. Renumber(at, s, first)[n] =
             IF n \in ToSet(s) /\ At(s, n) >= first THEN At(s, n) - 1 ELSE at[n]
    BY RenumberedList, Zenon
  <2>4. QED
    BY <2>2, <2>3, Zenon
<1>2. QED
  BY <1>1, Zenon DEF Renumber

\* The retired nodes are where they were when only live ones get a new position.
LEMMA RemovedIndex ==
    ASSUME GraphInv, retired' = retired, \A c \in Nodes : c \notin Live => index'[c] = index[c]
    PROVE  RetiredInv'
<1>1. \A i \in DOMAIN retired : retired[i] \in Nodes /\ retired[i] \notin Live
  <2>1. ToSet(retired) \subseteq Nodes
    BY ListIsTyped, Zenon DEF GraphInv, ListsInv
  <2>2. QED
    BY <2>1, Zenon DEF GraphInv, ListsInv, ToSet
<1>2. QED
  BY <1>1, Zenon DEF GraphInv, RetiredInv

\* What the invariant says of the tree, in the form the steps use.
LEMMA TreeFacts ==
    ASSUME GraphAssumption, GraphInv
    PROVE  /\ ListsInv /\ TreeInv /\ RetiredInv /\ EdgesInv /\ Live \subseteq Nodes /\ None \notin Nodes
           /\ IsFiniteSet(Live)
           /\ parent \in [Nodes -> Nodes \cup {None}]
           /\ children \in [Nodes -> Seq(Nodes)]
           /\ index \in [Nodes -> Nat]
           /\ \A m \in Nodes : children[m] \in Seq(Nodes) /\ IsInjective(children[m])
           /\ \A m, c \in Nodes : c \in ToSet(children[m]) <=> parent[c] = m
           /\ \A c \in Nodes : parent[c] # None =>
                parent[c] \in Live /\ c \in Live /\ index[c] = At(children[parent[c]], c) - 1
<1>1. TreeInv
  BY Zenon DEF GraphInv
<1>2. \A m \in Nodes : children[m] \in Seq(Nodes) /\ IsInjective(children[m])
  BY <1>1, Zenon DEF TreeInv
<1>3. QED
  BY <1>1, <1>2, LiveAreNodes, Zenon DEF TreeInv, GraphAssumption, GraphInv

\* The place setParent() inserts at is a place of the list.
LEMMA InsertPosition ==
    ASSUME GraphAssumption, GraphInv, NEW p \in Live, NEW before \in Live \cup {None},
           before # None => parent[before] = p
    PROVE  (IF before = None THEN Len(children[p]) ELSE index[before]) + 1 \in 1 .. Len(children[p]) + 1
<1>1. /\ Live \subseteq Nodes /\ None \notin Nodes
      /\ \A m \in Nodes : children[m] \in Seq(Nodes)
      /\ \A m, c \in Nodes : c \in ToSet(children[m]) <=> parent[c] = m
      /\ \A c \in Nodes : parent[c] # None => index[c] = At(children[parent[c]], c) - 1
  BY TreeFacts, Zenon
<1>2. PICK s \in Seq(Nodes) : s = children[p]
  BY <1>1, Zenon
<1>3. CASE before = None
  BY <1>2, <1>3, SMT
<1>4. CASE before # None
  <2>1. before \in Nodes /\ p \in Nodes /\ parent[before] = p
    BY <1>1, <1>4, Zenon
  <2>2. before \in ToSet(s) /\ index[before] = At(s, before) - 1
    <3>1. before \in ToSet(children[p])
      BY <1>1, <2>1, Zenon
    <3>2. parent[before] # None
      BY <1>1, <2>1, Zenon
    <3>3. index[before] = At(children[parent[before]], before) - 1
      BY <1>1, <2>1, <3>2, Zenon
    <3>4. QED
      BY <1>2, <2>1, <3>1, <3>3, Zenon
  <2>3. At(s, before) \in DOMAIN s
    BY <2>2, PlaceOf, Zenon
  <2>4. (IF before = None THEN Len(s) ELSE index[before]) + 1 \in 1 .. Len(s) + 1
    BY <1>4, <2>2, <2>3, SMT
  <2>5. QED
    BY <1>2, <2>4, Zenon
<1>5. QED
  BY <1>3, <1>4, Zenon

\* setParent(): the places it shifts are those after the new child, and those of the list
\* the child left; they are two lists, for the old parent is another node.
LEMMA SetParentKeeps ==
    ASSUME GraphAssumption, GraphInv, NEW p \in Live, NEW n \in Live, NEW before \in Live \cup {None},
           SetParent(p, n, before)
    PROVE  GraphInv'
<1>1. ListsInv /\ TreeInv /\ RetiredInv /\ EdgesInv /\ Live \subseteq Nodes /\ None \notin Nodes
  BY LiveAreNodes, Zenon DEF GraphInv, GraphAssumption
<1> DEFINE s == children[p]
           old == parent[n]
           q == IF before = None THEN Len(s) ELSE index[before]
           position == q + 1
           siblings == InsertAt(s, position, n)
           left == IF old = None THEN <<>> ELSE Erase(children[old], {n})
<1>2. /\ old # p /\ n \notin Ancestors(p)
      /\ before # None => parent[before] = p
      /\ children' = [m \in Nodes |-> CASE m = p -> siblings [] m = old -> left [] OTHER -> children[m]]
      /\ index' = Renumber(Renumber(index, left, 1), siblings, position)
      /\ parent' = [parent EXCEPT ![n] = p]
  BY Zenon DEF SetParent
<1>21. /\ s = children[p] /\ old = parent[n] /\ q = (IF before = None THEN Len(s) ELSE index[before]) /\ position = q + 1
       /\ siblings = InsertAt(s, position, n)
       /\ left = IF old = None THEN <<>> ELSE Erase(children[old], {n})
  BY Zenon
<1> HIDE DEF s, old, q, position, siblings, left
<1>3. ordered' = ordered /\ born' = born /\ retired' = retired /\ UNCHANGED edges /\ pending' = pending
  BY Zenon DEF SetParent
<1>4. ListsInv' /\ Live' = Live /\ EdgesInv'
  BY <1>1, <1>3, ListsUnchanged, EdgesUnchanged
<1>5. /\ parent \in [Nodes -> Nodes \cup {None}]
      /\ children \in [Nodes -> Seq(Nodes)]
      /\ index \in [Nodes -> Nat]
      /\ \A m \in Nodes : IsInjective(children[m])
      /\ \A m, c \in Nodes : c \in ToSet(children[m]) <=> parent[c] = m
      /\ \A c \in Nodes : parent[c] # None =>
           parent[c] \in Live /\ c \in Live /\ index[c] = At(children[parent[c]], c) - 1
  BY TreeFacts, Zenon
<1>6. p \in Nodes /\ n \in Nodes /\ s \in Seq(Nodes) /\ IsInjective(s) /\ n \notin ToSet(s)
  BY <1>1, <1>2, <1>21, <1>5, Zenon
<1>7. position \in 1 .. Len(s) + 1
  BY <1>2, <1>21, InsertPosition, Zenon
<1>8. /\ siblings \in Seq(Nodes) /\ ToSet(siblings) = ToSet(s) \cup {n} /\ IsInjective(siblings)
      /\ At(siblings, n) = position
      /\ \A c \in ToSet(s) : At(siblings, c) = IF At(s, c) < position THEN At(s, c) ELSE At(s, c) + 1
  BY <1>21, <1>6, <1>7, InsertedList
<1>9. left \in Seq(Nodes) /\ IsInjective(left)
      /\ \A c \in Nodes : c \in ToSet(left) <=> c # n /\ parent[c] = old /\ old # None
  <2>1. CASE old = None
    <3>1. left = <<>> /\ <<>> \in Seq(Nodes) /\ DOMAIN <<>> = {}
      BY <1>21, <2>1, SMT
    <3>2. QED
      BY <2>1, <3>1, Zenon DEF ToSet, IsInjective
  <2>2. CASE old # None
    <3>1. old \in Nodes /\ left = Erase(children[old], {n})
      BY <1>1, <1>21, <1>5, <1>6, <2>2, Zenon
    <3>2. left \in Seq(Nodes) /\ ToSet(left) = ToSet(children[old]) \ {n} /\ IsInjective(left)
      BY <1>5, <3>1, ErasedList, Zenon
    <3>3. QED
      BY <1>5, <2>2, <3>1, <3>2, Zenon
  <2>3. QED
    BY <2>1, <2>2, Zenon
<1>10. /\ children'[p] = siblings
       /\ \A m \in Nodes : m = old => children'[m] = left
       /\ \A m \in Nodes : m # p /\ m # old => children'[m] = children[m]
       /\ children' \in [Nodes -> Seq(Nodes)]
  <2>1. \A m \in Nodes : children'[m] = CASE m = p -> siblings [] m = old -> left [] OTHER -> children[m]
    BY <1>2, Zenon
  <2>2. /\ children'[p] = siblings
        /\ \A m \in Nodes : m = old => children'[m] = left
        /\ \A m \in Nodes : m # p /\ m # old => children'[m] = children[m]
    BY <1>2, <1>6, <2>1, Zenon
  <2>3. \A m \in Nodes : children'[m] \in Seq(Nodes)
    BY <1>5, <1>8, <1>9, <2>2, Zenon
  <2>4. children' = [m \in Nodes |-> children'[m]]
    BY <1>2, Zenon
  <2>5. QED
    BY <2>2, <2>3, <2>4, Zenon
<1>11. /\ parent' \in [Nodes -> Nodes \cup {None}]
       /\ parent'[n] = p /\ \A c \in Nodes : c # n => parent'[c] = parent[c]
  <2>1. parent' \in [Nodes -> Nodes \cup {None}]
    BY <1>2, <1>5, <1>6, SMT
  <2>2. \A c \in Nodes : parent'[c] = IF c = n THEN p ELSE parent[c]
    BY <1>2, <1>5, Zenon
  <2>3. QED
    BY <1>6, <2>1, <2>2, Zenon
<1>12. \A m \in Nodes : IsInjective(children'[m])
  BY <1>5, <1>8, <1>9, <1>10, Zenon
<1>13. \A m, c \in Nodes : c \in ToSet(children'[m]) <=> parent'[c] = m
  <2>1. TAKE m, c \in Nodes
  <2>2. CASE m = p
    <3>1. ToSet(children'[m]) = ToSet(children[p]) \cup {n}
      BY <1>8, <1>10, <2>2, <1>21, Zenon
    <3>2. QED
      BY <1>5, <1>6, <1>11, <2>2, <3>1, Zenon
  <2>3. CASE m = old
    <3>1. c \in ToSet(children'[m]) <=> c # n /\ parent[c] = old
      BY <1>1, <1>9, <1>10, <2>3, Zenon
    <3>2. QED
      BY <1>2, <1>11, <2>3, <3>1, Zenon
  <2>4. CASE m # p /\ m # old
    <3>1. c \in ToSet(children'[m]) <=> parent[c] = m
      BY <1>5, <1>10, <2>4, Zenon
    <3>2. parent[c] = m <=> parent'[c] = m
      BY <1>11, <1>21, <2>4, Zenon
    <3>3. QED
      BY <3>1, <3>2, Zenon
  <2>5. QED
    BY <2>2, <2>3, <2>4, Zenon
<1>14. \A c \in Nodes : index'[c] =
         IF c \in ToSet(siblings) /\ At(siblings, c) >= position THEN At(siblings, c) - 1
         ELSE IF c \in ToSet(left) /\ At(left, c) >= 1 THEN At(left, c) - 1 ELSE index[c]
  <2>1. TAKE c \in Nodes
  <2>2. index'[c] = IF c \in ToSet(siblings) /\ At(siblings, c) >= position THEN At(siblings, c) - 1
                    ELSE Renumber(index, left, 1)[c]
    <3>1. PICK at, t, first : at = Renumber(index, left, 1) /\ t = siblings /\ first = position
      BY Zenon
    <3>2. IsInjective(t)
      BY <1>8, <3>1, Zenon
    <3>3. Renumber(at, t, first)[c] = IF c \in ToSet(t) /\ At(t, c) >= first THEN At(t, c) - 1 ELSE at[c]
      BY <3>2, RenumberedList, Zenon
    <3>4. QED
      BY <1>2, <3>1, <3>3, Zenon
  <2>3. Renumber(index, left, 1)[c] = IF c \in ToSet(left) /\ At(left, c) >= 1 THEN At(left, c) - 1 ELSE index[c]
    BY <1>9, RenumberedList
  <2>4. QED
    BY <2>2, <2>3, Zenon
<1>15. index' \in [Nodes -> Nat]
  BY <1>2, <1>5, <1>8, <1>9, RenumberedType, Zenon
<1>16. ASSUME NEW c \in Nodes, parent'[c] # None
       PROVE  parent'[c] \in Live /\ c \in Live /\ index'[c] = At(children'[parent'[c]], c) - 1
  <2>1. parent'[c] \in Live /\ c \in Live
    BY <1>5, <1>11, <1>16, Zenon
  <2>2. CASE parent'[c] = p
    <3>1. children'[parent'[c]] = siblings /\ c \in ToSet(siblings)
      BY <1>10, <1>13, <1>6, <2>2, Zenon
    <3>2. CASE At(siblings, c) >= position
      <4>1. index'[c] = At(siblings, c) - 1
        BY <1>14, <3>1, <3>2, Zenon
      <4>2. QED
        BY <2>1, <3>1, <4>1, Zenon
    <3>3. CASE ~(At(siblings, c) >= position)
      <4>1. c # n
        BY <1>7, <1>8, <3>3, SMT
      <4>2. parent[c] = p /\ c \in ToSet(s)
        BY <1>8, <1>11, <2>2, <3>1, <4>1, Zenon
      <4>3. c \notin ToSet(left)
        BY <1>2, <1>21, <1>9, <4>2, Zenon
      <4>4. index'[c] = index[c]
        BY <1>14, <3>3, <4>3, Zenon
      <4>5. index[c] = At(s, c) - 1
        <5>1. index[c] = At(children[parent[c]], c) - 1
          <6>1. parent[c] # None
            BY <1>1, <1>6, <4>2, Zenon
          <6>2. QED
            BY <1>5, <6>1, Zenon
        <5>2. QED
          BY <4>2, <5>1, <1>21, Zenon
      <4>6. At(s, c) \in DOMAIN s
        BY <4>2, PlaceOf, Zenon
      <4>7. At(siblings, c) = At(s, c)
        BY <1>6, <1>7, <1>8, <3>3, <4>2, <4>6, SMT
      <4>8. QED
        BY <2>1, <3>1, <4>4, <4>5, <4>7, Zenon
    <3>4. QED
      BY <2>1, <3>2, <3>3, Zenon
  <2>3. CASE parent'[c] # p
    <3>1. c # n /\ parent[c] = parent'[c] /\ parent[c] \in Nodes /\ c \notin ToSet(siblings)
      <4>1. c # n /\ parent[c] = parent'[c]
        BY <1>11, <2>3, Zenon
      <4>2. parent[c] \in Nodes
        BY <1>5, <1>16, <4>1
      <4>3. c \notin ToSet(siblings)
        BY <1>6, <1>10, <1>13, <2>3, Zenon
      <4>4. QED
        BY <4>1, <4>2, <4>3, Zenon
    <3>2. CASE parent[c] = old
      <4>1. c \in ToSet(left) /\ children'[parent'[c]] = left
        BY <1>9, <1>10, <1>16, <3>1, <3>2, Zenon
      <4>2. At(left, c) >= 1
        <5>1. At(left, c) \in DOMAIN left
          BY <4>1, PlaceOf, Zenon
        <5>2. QED
          BY <1>9, <5>1, SMT
      <4>3. QED
        BY <1>14, <2>1, <3>1, <4>1, <4>2, Zenon
    <3>3. CASE parent[c] # old
      <4>1. c \notin ToSet(left) /\ children'[parent'[c]] = children[parent[c]]
        BY <1>9, <1>10, <2>3, <3>1, <3>3, Zenon
      <4>2. index'[c] = index[c]
        BY <1>14, <3>1, <4>1, Zenon
      <4>3. QED
        BY <1>5, <1>16, <2>1, <3>1, <4>1, <4>2, Zenon
    <3>4. QED
      BY <3>2, <3>3, Zenon
  <2>4. QED
    BY <2>2, <2>3, Zenon
<1>17. \A S \in SUBSET Live' : S # {} => \E c \in S : parent'[c] \notin S
  <2>1. \A c \in Live' : parent'[c] = parent[c] \/ parent'[c] = None \/ (c \in {n} /\ parent'[c] = p)
    BY <1>1, <1>4, <1>11, Zenon
  <2>2. {n} \cap Ancestors(p) = {} /\ Live' \subseteq Live
    BY <1>2, <1>4, Zenon
  <2>3. QED
    BY <1>1, <2>1, <2>2, StillNoCycle, Zenon
<1>18. TreeInv'
  BY <1>4, <1>10, <1>11, <1>12, <1>13, <1>15, <1>16, <1>17, Zenon DEF TreeInv
<1>19. RetiredInv'
  <2>1. ASSUME NEW c \in Nodes, c \notin Live PROVE index'[c] = index[c]
    <3>1. c # n /\ parent[c] = None
      BY <1>5, <2>1, Zenon
    <3>2. c \notin ToSet(left)
      BY <1>9, <3>1, Zenon
    <3>3. c \notin ToSet(siblings)
      BY <1>1, <1>5, <1>6, <1>8, <3>1, <1>21, Zenon
    <3>4. QED
      BY <1>14, <3>2, <3>3, Zenon
  <2>2. QED
    BY <1>3, <2>1, RemovedIndex, Zenon
<1>20. QED
  BY <1>4, <1>18, <1>19, Zenon DEF GraphInv

\* clearParent(): the list the child left is renumbered.
LEMMA ClearParentKeeps ==
    ASSUME GraphAssumption, GraphInv, NEW n \in Live, ClearParent(n)
    PROVE  GraphInv'
<1>1. /\ ListsInv /\ TreeInv /\ RetiredInv /\ EdgesInv /\ Live \subseteq Nodes /\ None \notin Nodes
      /\ parent \in [Nodes -> Nodes \cup {None}]
      /\ children \in [Nodes -> Seq(Nodes)]
      /\ index \in [Nodes -> Nat]
      /\ \A m \in Nodes : children[m] \in Seq(Nodes) /\ IsInjective(children[m])
      /\ \A m, c \in Nodes : c \in ToSet(children[m]) <=> parent[c] = m
      /\ \A c \in Nodes : parent[c] # None =>
           parent[c] \in Live /\ c \in Live /\ index[c] = At(children[parent[c]], c) - 1
  BY TreeFacts, Zenon
<1>2. PICK p, left :
        /\ p = parent[n] /\ p # None /\ left = Erase(children[p], {n})
        /\ children' = [children EXCEPT ![p] = left]
        /\ index' = [Renumber(index, children'[p], 1) EXCEPT ![n] = 0]
        /\ parent' = [parent EXCEPT ![n] = None]
  BY Zenon DEF ClearParent
<1>3. ordered' = ordered /\ born' = born /\ retired' = retired /\ UNCHANGED edges /\ pending' = pending
  BY Zenon DEF ClearParent
<1>4. ListsInv' /\ Live' = Live /\ EdgesInv'
  BY <1>1, <1>3, ListsUnchanged, EdgesUnchanged
<1>5. p \in Nodes /\ n \in Nodes
  BY <1>1, <1>2, Zenon
<1>6. left \in Seq(Nodes) /\ ToSet(left) = ToSet(children[p]) \ {n} /\ IsInjective(left)
  BY <1>1, <1>2, <1>5, ErasedList, Zenon
<1>7. /\ children' \in [Nodes -> Seq(Nodes)] /\ children'[p] = left
      /\ \A m \in Nodes : m # p => children'[m] = children[m]
  <2>1. \A m \in Nodes : children'[m] = IF m = p THEN left ELSE children[m]
    BY <1>1, <1>2, Zenon
  <2>2. \A m \in Nodes : children'[m] \in Seq(Nodes)
    BY <1>1, <1>6, <2>1, Zenon
  <2>3. children' = [m \in Nodes |-> children'[m]]
    BY <1>1, <1>2, Zenon
  <2>4. QED
    BY <1>5, <2>1, <2>2, <2>3, Zenon
<1>8. /\ parent' \in [Nodes -> Nodes \cup {None}]
      /\ parent'[n] = None /\ \A c \in Nodes : c # n => parent'[c] = parent[c]
  <2>1. parent' \in [Nodes -> Nodes \cup {None}]
    BY <1>1, <1>2, <1>5, SMT
  <2>2. \A c \in Nodes : parent'[c] = IF c = n THEN None ELSE parent[c]
    BY <1>1, <1>2, Zenon
  <2>3. QED
    BY <1>5, <2>1, <2>2, Zenon
<1>9. PICK at : at = Renumber(index, left, 1)
  BY Zenon
<1>10. at \in [Nodes -> Nat]
  BY <1>1, <1>6, <1>9, RenumberedType, Zenon
<1>11. index' = [at EXCEPT ![n] = 0]
  BY <1>2, <1>7, <1>9, Zenon
<1>12. \A c \in Nodes : c # n => index'[c] = IF c \in ToSet(left) /\ At(left, c) >= 1 THEN At(left, c) - 1 ELSE index[c]
  <2>1. SUFFICES ASSUME NEW c \in Nodes, c # n
                 PROVE  index'[c] = IF c \in ToSet(left) /\ At(left, c) >= 1 THEN At(left, c) - 1 ELSE index[c]
    BY Zenon
  <2>2. Renumber(index, left, 1)[c] = IF c \in ToSet(left) /\ At(left, c) >= 1 THEN At(left, c) - 1 ELSE index[c]
    <3>1. PICK first : first = 1
      BY Zenon
    <3>2. Renumber(index, left, first)[c] = IF c \in ToSet(left) /\ At(left, c) >= first THEN At(left, c) - 1 ELSE index[c]
      BY <1>6, RenumberedList, Zenon
    <3>3. QED
      BY <3>1, <3>2, Zenon
  <2>3. QED
    BY <1>9, <1>10, <1>11, <2>1, <2>2, Zenon
<1>13. index' \in [Nodes -> Nat]
  <2>1. 0 \in Nat
    BY SMT
  <2>2. \A c \in Nodes : index'[c] = IF c = n THEN 0 ELSE at[c]
    BY <1>10, <1>11, Zenon
  <2>3. \A c \in Nodes : index'[c] \in Nat
    BY <1>10, <2>1, <2>2, Zenon
  <2>4. index' = [c \in Nodes |-> index'[c]]
    BY <1>10, <1>11, Zenon
  <2>5. QED
    BY <2>3, <2>4, Zenon
<1>14. \A m \in Nodes : IsInjective(children'[m])
  BY <1>1, <1>6, <1>7, Zenon
<1>15. \A m, c \in Nodes : c \in ToSet(children'[m]) <=> parent'[c] = m
  <2>1. TAKE m, c \in Nodes
  <2>2. CASE m = p
    <3>1. c \in ToSet(children'[m]) <=> c # n /\ parent[c] = p
      BY <1>1, <1>6, <1>7, <2>2, Zenon
    <3>2. p # None /\ p = m
      BY <1>2, <2>2, Zenon
    <3>3. parent'[c] = m <=> c # n /\ parent[c] = m
      <4>1. CASE c = n
        BY <1>8, <3>2, <4>1, Zenon
      <4>2. CASE c # n
        BY <1>8, <4>2, Zenon
      <4>3. QED
        BY <4>1, <4>2, Zenon
    <3>4. QED
      BY <3>1, <3>2, <3>3, Zenon
  <2>3. CASE m # p
    <3>1. c \in ToSet(children'[m]) <=> parent[c] = m
      BY <1>1, <1>7, <2>3, Zenon
    <3>2. parent[c] = m <=> parent'[c] = m
      <4>1. CASE c = n
        BY <1>1, <1>2, <1>8, <2>3, <4>1, Zenon
      <4>2. CASE c # n
        BY <1>8, <4>2, Zenon
      <4>3. QED
        BY <4>1, <4>2, Zenon
    <3>3. QED
      BY <3>1, <3>2, Zenon
  <2>4. QED
    BY <2>2, <2>3, Zenon
<1>16. ASSUME NEW c \in Nodes, parent'[c] # None
       PROVE  parent'[c] \in Live /\ c \in Live /\ index'[c] = At(children'[parent'[c]], c) - 1
  <2>1. c # n /\ parent'[c] = parent[c]
    BY <1>8, <1>16, Zenon
  <2>2. parent[c] \in Live /\ c \in Live /\ parent[c] \in Nodes
    BY <1>1, <1>16, <2>1, Zenon
  <2>3. CASE parent[c] = p
    <3>1. c \in ToSet(left) /\ children'[parent'[c]] = left
      BY <1>1, <1>6, <1>7, <2>1, <2>2, <2>3, Zenon
    <3>2. At(left, c) >= 1
      <4>1. At(left, c) \in DOMAIN left
        BY <3>1, PlaceOf, Zenon
      <4>2. QED
        BY <1>6, <4>1, SMT
    <3>3. QED
      BY <1>12, <2>1, <2>2, <3>1, <3>2, Zenon
  <2>4. CASE parent[c] # p
    <3>1. c \notin ToSet(left) /\ children'[parent'[c]] = children[parent[c]]
      BY <1>1, <1>5, <1>6, <1>7, <2>1, <2>2, <2>4, Zenon
    <3>2. index'[c] = index[c]
      BY <1>12, <2>1, <3>1, Zenon
    <3>3. QED
      BY <1>1, <1>16, <2>1, <2>2, <3>1, <3>2, Zenon
  <2>5. QED
    BY <2>3, <2>4, Zenon
<1>17. \A S \in SUBSET Live' : S # {} => \E c \in S : parent'[c] \notin S
  <2>1. \A c \in Live' : parent'[c] = parent[c] \/ parent'[c] = None \/ (c \in {} /\ parent'[c] = p)
    BY <1>1, <1>4, <1>8, Zenon
  <2>2. {} \cap Ancestors(p) = {} /\ Live' \subseteq Live
    BY <1>4, Zenon
  <2>3. QED
    BY <1>1, <2>1, <2>2, StillNoCycle, Zenon
<1>18. TreeInv'
  BY <1>4, <1>7, <1>8, <1>13, <1>14, <1>15, <1>16, <1>17, Zenon DEF TreeInv
<1>19. RetiredInv'
  <2>1. ASSUME NEW c \in Nodes, c \notin Live PROVE index'[c] = index[c]
    <3>1. c # n /\ parent[c] = None
      BY <1>1, <2>1, Zenon
    <3>2. c \notin ToSet(left)
      BY <1>1, <1>2, <1>5, <1>6, <3>1, Zenon
    <3>3. QED
      BY <1>12, <3>1, <3>2, Zenon
  <2>2. QED
    BY <1>3, <2>1, RemovedIndex, Zenon
<1>20. QED
  BY <1>4, <1>18, <1>19, Zenon DEF GraphInv

\* replaceChildren(): a child that is kept, moved or dropped is listed by its parent only.
LEMMA ReplaceChildrenKeeps ==
    ASSUME GraphAssumption, GraphInv, NEW p \in Live, NEW next \in SetToAllKPermutations(Live \ Ancestors(p)),
           ReplaceChildren(p, next)
    PROVE  GraphInv'
<1>1. /\ ListsInv /\ TreeInv /\ RetiredInv /\ EdgesInv /\ Live \subseteq Nodes /\ None \notin Nodes
      /\ IsFiniteSet(Live)
      /\ parent \in [Nodes -> Nodes \cup {None}]
      /\ children \in [Nodes -> Seq(Nodes)]
      /\ index \in [Nodes -> Nat]
      /\ \A m \in Nodes : children[m] \in Seq(Nodes) /\ IsInjective(children[m])
      /\ \A m, c \in Nodes : c \in ToSet(children[m]) <=> parent[c] = m
      /\ \A c \in Nodes : parent[c] # None =>
           parent[c] \in Live /\ c \in Live /\ index[c] = At(children[parent[c]], c) - 1
  BY TreeFacts, Zenon
<1>2. /\ next \in Seq(Live \ Ancestors(p)) /\ IsInjective(next)
      /\ ToSet(next) \subseteq Live \ Ancestors(p)
  <2>1. PICK S : S = Live \ Ancestors(p)
    BY Zenon
  <2>2. IsFiniteSet(S)
    BY <1>1, <2>1, FS_Subset, Zenon
  <2>3. next \in SetToAllKPermutations(S)
    BY <2>1, Zenon
  <2>4. next \in Seq(S) /\ IsInjective(next) /\ ToSet(next) \subseteq S
    BY <2>2, <2>3, ListsOf, Zenon
  <2>5. QED
    BY <2>1, <2>4, Zenon
<1>3. next \in Seq(Nodes)
  BY <1>1, <1>2, SMT
<1> DEFINE K == ToSet(next)
           D == ToSet(children[p]) \ K
           M == {n \in K : parent[n] # p}
           O == {parent[n] : n \in M} \ {None}
<1>4. /\ children' = [m \in Nodes |-> CASE m = p -> next [] m \in O -> Erase(children[m], K)
                                        [] OTHER -> children[m]]
      /\ index' = [n \in Nodes |->
                      CASE n \in K -> At(next, n) - 1
                        [] n \in D -> 0
                        [] n \notin K /\ parent[n] \in O -> At(children'[parent[n]], n) - 1
                        [] OTHER -> index[n]]
      /\ parent' = [n \in Nodes |-> IF n \in K THEN p ELSE IF n \in D THEN None ELSE parent[n]]
  BY Zenon DEF ReplaceChildren, At
<1>5. ordered' = ordered /\ born' = born /\ retired' = retired /\ UNCHANGED edges /\ pending' = pending
  BY Zenon DEF ReplaceChildren
<1>6. ListsInv' /\ Live' = Live /\ EdgesInv'
  BY <1>1, <1>5, ListsUnchanged, EdgesUnchanged
<1>7. p \in Nodes /\ K \subseteq Live /\ K \subseteq Nodes
  BY <1>1, <1>2, Zenon
<1>8. \A n \in Nodes : n \in D <=> parent[n] = p /\ n \notin K
  BY <1>1, <1>7, Zenon
<1>9. /\ p \notin O /\ None \notin O /\ O \subseteq Nodes
      /\ \A n \in K : parent[n] # p /\ parent[n] # None => parent[n] \in O
  <2>1. p \notin O
    BY Zenon
  <2>2. O \subseteq Nodes
    <3>1. SUFFICES ASSUME NEW x \in O PROVE x \in Nodes
      BY Zenon
    <3>2. PICK n \in M : x = parent[n] /\ x # None
      BY Zenon
    <3>3. n \in Nodes
      BY <1>7, Zenon
    <3>4. QED
      BY <1>1, <3>2, <3>3
  <2>3. \A n \in K : parent[n] # p /\ parent[n] # None => parent[n] \in O
    BY Zenon
  <2>4. QED
    BY <2>1, <2>2, <2>3, Zenon
<1> HIDE DEF K, D, M, O
<1>10. \A n \in Nodes : n \in K => parent'[n] = p
  BY <1>4, Zenon
<1>11. \A n \in Nodes : n \notin K /\ parent[n] = p => parent'[n] = None
  BY <1>4, <1>8, Zenon
<1>12. \A n \in Nodes : n \notin K /\ parent[n] # p => parent'[n] = parent[n]
  BY <1>4, <1>8, Zenon
<1>13. parent' \in [Nodes -> Nodes \cup {None}]
  <2>1. \A n \in Nodes : parent'[n] \in Nodes \cup {None}
    BY <1>1, <1>7, <1>10, <1>11, <1>12, Zenon
  <2>2. parent' = [n \in Nodes |-> parent'[n]]
    BY <1>4, Zenon
  <2>3. QED
    BY <2>1, <2>2, Zenon
<1>14. /\ children'[p] = next
       /\ \A m \in Nodes : m \in O => children'[m] = Erase(children[m], K)
       /\ \A m \in Nodes : m # p /\ m \notin O => children'[m] = children[m]
  <2>1. children'[p] = next
    BY <1>4, <1>7, <1>9, Zenon
  <2>2. \A m \in Nodes : m \in O => children'[m] = Erase(children[m], K)
    BY <1>4, <1>9, Zenon
  <2>3. \A m \in Nodes : m # p /\ m \notin O => children'[m] = children[m]
    BY <1>4, Zenon
  <2>4. QED
    BY <2>1, <2>2, <2>3, Zenon
<1>15. \A m \in O : /\ children'[m] \in Seq(Nodes) /\ ToSet(children'[m]) = ToSet(children[m]) \ K
                    /\ IsInjective(children'[m])
  <2>1. TAKE m \in O
  <2>2. m \in Nodes /\ children'[m] = Erase(children[m], K) /\ children[m] \in Seq(Nodes)
        /\ IsInjective(children[m])
    BY <1>1, <1>9, <1>14, Zenon
  <2>3. PICK e, s : e = Erase(s, K) /\ s = children[m]
    BY Zenon
  <2>4. s \in Seq(Nodes) /\ IsInjective(s)
    BY <2>2, <2>3, Zenon
  <2>5. e \in Seq(Nodes) /\ ToSet(e) = ToSet(s) \ K /\ IsInjective(e)
    BY <2>3, <2>4, ErasedList, Zenon
  <2>6. QED
    BY <2>2, <2>3, <2>5, Zenon
<1>16. \A m \in Nodes : children'[m] \in Seq(Nodes) /\ IsInjective(children'[m])
  BY <1>1, <1>2, <1>3, <1>14, <1>15, Zenon
<1>17. children' \in [Nodes -> Seq(Nodes)]
  <2> DEFINE F(m) == CASE m = p -> next [] m \in O -> Erase(children[m], K) [] OTHER -> children[m]
  <2>0. children' = [m \in Nodes |-> F(m)]
    BY <1>4, Zenon
  <2> HIDE DEF F
  <2>1. children' = [m \in Nodes |-> children'[m]]
    BY <2>0, Zenon
  <2>2. QED
    BY <1>16, <2>1, Zenon
<1>18. \A m, c \in Nodes : c \in ToSet(children'[m]) <=> parent'[c] = m
  <2>1. TAKE m, c \in Nodes
  <2>2. CASE m = p
    <3>1. c \in ToSet(children'[m]) <=> c \in K
      BY <1>14, <2>2, Zenon DEF K
    <3>2. c \notin K => parent'[c] # p
      <4>1. p # None
        BY <1>1, <1>7, Zenon
      <4>2. CASE parent[c] = p
        BY <1>11, <4>1, <4>2, Zenon
      <4>3. CASE parent[c] # p
        BY <1>12, <4>3, Zenon
      <4>4. QED
        BY <4>2, <4>3, Zenon
    <3>3. QED
      BY <1>10, <2>2, <3>1, <3>2, Zenon
  <2>3. CASE m \in O
    <3>1. c \in ToSet(children'[m]) <=> parent[c] = m /\ c \notin K
      <4>1. ToSet(children'[m]) = ToSet(children[m]) \ K
        BY <1>15, <2>3, Zenon
      <4>2. c \in ToSet(children[m]) <=> parent[c] = m
        BY <1>1, Zenon
      <4>3. QED
        BY <4>1, <4>2, Zenon
    <3>2. m # p /\ m # None
      BY <1>9, <2>3, Zenon
    <3>3. CASE c \in K
      BY <1>10, <3>1, <3>2, <3>3, Zenon
    <3>4. CASE c \notin K /\ parent[c] = p
      BY <1>11, <3>1, <3>2, <3>4, Zenon
    <3>5. CASE c \notin K /\ parent[c] # p
      BY <1>12, <3>1, <3>5, Zenon
    <3>6. QED
      BY <3>3, <3>4, <3>5, Zenon
  <2>4. CASE m # p /\ m \notin O
    <3>1. c \in ToSet(children'[m]) <=> parent[c] = m
      BY <1>1, <1>14, <2>4, Zenon
    <3>2. m # None
      BY <1>1, Zenon
    <3>3. CASE c \in K
      BY <1>9, <1>10, <2>4, <3>1, <3>2, <3>3, Zenon
    <3>4. CASE c \notin K /\ parent[c] = p
      BY <1>11, <2>4, <3>1, <3>2, <3>4, Zenon
    <3>5. CASE c \notin K /\ parent[c] # p
      BY <1>12, <3>1, <3>5, Zenon
    <3>6. QED
      BY <3>3, <3>4, <3>5, Zenon
  <2>5. QED
    BY <2>2, <2>3, <2>4, Zenon
<1>19. /\ \A n \in Nodes : n \in K => index'[n] = At(next, n) - 1
       /\ \A n \in Nodes : n \in D => index'[n] = 0
       /\ \A n \in Nodes : n \notin K /\ parent[n] \in O => index'[n] = At(children'[parent[n]], n) - 1
       /\ \A n \in Nodes : n \notin K /\ n \notin D /\ parent[n] \notin O => index'[n] = index[n]
  <2>0. \A n \in Nodes : n \in D => n \notin K /\ parent[n] \notin O
    BY <1>8, <1>9, Zenon
  <2>1. \A n \in Nodes : n \in K => index'[n] = At(next, n) - 1
    BY <1>4, <2>0, Zenon
  <2>2. \A n \in Nodes : n \in D => index'[n] = 0
    BY <1>4, <2>0, Zenon
  <2>3. \A n \in Nodes : n \notin K /\ parent[n] \in O => index'[n] = At(children'[parent[n]], n) - 1
    BY <1>4, <2>0, Zenon
  <2>4. \A n \in Nodes : n \notin K /\ n \notin D /\ parent[n] \notin O => index'[n] = index[n]
    BY <1>4, Zenon
  <2>5. QED
    BY <2>1, <2>2, <2>3, <2>4, Zenon
<1>20. ASSUME NEW c \in Nodes, parent'[c] # None
       PROVE  parent'[c] \in Live /\ c \in Live /\ index'[c] = At(children'[parent'[c]], c) - 1
  <2>1. CASE c \in K
    BY <1>7, <1>10, <1>14, <1>19, <2>1, Zenon
  <2>2. CASE c \notin K
    <3>1. parent[c] # p /\ parent'[c] = parent[c] /\ c \notin D
      BY <1>8, <1>11, <1>12, <1>20, <2>2, Zenon
    <3>2. parent[c] \in Live /\ c \in Live /\ parent[c] \in Nodes
      BY <1>1, <1>20, <3>1, Zenon
    <3>3. CASE parent[c] \in O
      BY <1>19, <2>2, <3>1, <3>2, <3>3, Zenon
    <3>4. CASE parent[c] \notin O
      <4>1. index'[c] = index[c] /\ children'[parent[c]] = children[parent[c]]
        BY <1>14, <1>19, <2>2, <3>1, <3>2, <3>4, Zenon
      <4>2. QED
        BY <1>1, <1>20, <3>1, <3>2, <4>1, Zenon
    <3>5. QED
      BY <3>3, <3>4, Zenon
  <2>3. QED
    BY <2>1, <2>2, Zenon
<1>21. index' \in [Nodes -> Nat]
  <2>1. \A s \in Seq(Nodes) : \A x \in ToSet(s) : At(s, x) - 1 \in Nat
    <3>1. SUFFICES ASSUME NEW s \in Seq(Nodes), NEW x \in ToSet(s) PROVE At(s, x) - 1 \in Nat
      BY Zenon
    <3>2. At(s, x) \in DOMAIN s
      BY PlaceOf, Zenon
    <3>3. QED
      BY <3>2, SMT
  <2>2. \A n \in Nodes : index'[n] \in Nat
    <3>1. TAKE n \in Nodes
    <3>2. 0 \in Nat
      BY SMT
    <3>3. CASE n \in K
      BY <1>3, <1>19, <2>1, <3>3, Zenon DEF K
    <3>4. CASE n \in D
      BY <1>19, <3>2, <3>4, Zenon
    <3>5. CASE n \notin K /\ parent[n] \in O
      <4>1. parent[n] \in Nodes /\ n \in ToSet(children'[parent[n]])
        <5>1. parent[n] \in Nodes
          BY <1>9, <3>5, Zenon
        <5>2. ToSet(children'[parent[n]]) = ToSet(children[parent[n]]) \ K
          BY <1>15, <3>5, Zenon
        <5>3. n \in ToSet(children[parent[n]])
          BY <1>1, <5>1, Zenon
        <5>4. QED
          BY <3>5, <5>1, <5>2, <5>3, Zenon
      <4>2. At(children'[parent[n]], n) - 1 \in Nat
        BY <1>16, <2>1, <4>1, Zenon
      <4>3. QED
        BY <1>19, <3>5, <4>2, Zenon
    <3>6. CASE n \notin K /\ n \notin D /\ parent[n] \notin O
      BY <1>1, <1>19, <3>6, Zenon
    <3>7. QED
      BY <3>3, <3>4, <3>5, <3>6, Zenon
  <2> DEFINE F(n) == CASE n \in K -> At(next, n) - 1
                       [] n \in D -> 0
                       [] n \notin K /\ parent[n] \in O -> At(children'[parent[n]], n) - 1
                       [] OTHER -> index[n]
  <2>0. index' = [n \in Nodes |-> F(n)]
    BY <1>4, Zenon
  <2> HIDE DEF F
  <2>3. index' = [n \in Nodes |-> index'[n]]
    BY <2>0, Zenon
  <2>4. QED
    BY <2>2, <2>3, Zenon
<1>22. \A S \in SUBSET Live' : S # {} => \E c \in S : parent'[c] \notin S
  <2>1. \A c \in Live' : parent'[c] = parent[c] \/ parent'[c] = None \/ (c \in K /\ parent'[c] = p)
    BY <1>1, <1>6, <1>10, <1>11, <1>12, Zenon
  <2>2. K \cap Ancestors(p) = {} /\ Live' \subseteq Live
    BY <1>2, <1>6, Zenon DEF K
  <2>3. QED
    BY <1>1, <2>1, <2>2, StillNoCycle, Zenon
<1>23. TreeInv'
  BY <1>6, <1>13, <1>16, <1>17, <1>18, <1>20, <1>21, <1>22, Zenon DEF TreeInv
<1>24. RetiredInv'
  <2>1. ASSUME NEW c \in Nodes, c \notin Live PROVE index'[c] = index[c]
    <3>1. c \notin K /\ parent[c] = None
      BY <1>1, <1>7, <2>1, Zenon
    <3>2. c \notin D /\ parent[c] \notin O
      BY <1>1, <1>7, <1>8, <1>9, <3>1, Zenon
    <3>3. QED
      BY <1>19, <3>1, <3>2, Zenon
  <2>2. QED
    BY <1>5, <2>1, RemovedIndex, Zenon
<1>25. QED
  BY <1>6, <1>23, <1>24, Zenon DEF GraphInv

\* What the invariant says of the edges, in the form the steps use.
LEMMA EdgeFacts ==
    ASSUME GraphAssumption, GraphInv
    PROVE  /\ ListsInv /\ TreeInv /\ RetiredInv /\ EdgesInv /\ Live \subseteq Nodes /\ None \notin Nodes
           /\ out \in [Nodes -> [Relations -> Seq(Nodes)]]
           /\ incoming \in [Nodes -> SUBSET (Nodes \X Relations)]
           /\ pending \in [Nodes -> BOOLEAN]
           /\ \A s \in Nodes : out[s] \in [Relations -> Seq(Nodes)]
           /\ \A s \in Nodes, r \in Relations : out[s][r] \in Seq(Nodes) /\ IsInjective(out[s][r])
           /\ \A s, t \in Nodes, r \in Relations : t \in ToSet(out[s][r]) <=> <<s, r>> \in incoming[t]
           /\ \A s, t \in Nodes, r \in Relations :
                t \in ToSet(out[s][r]) => s \in Live /\ t \in Live /\ MayRelate(r, t)
           /\ \A s \in Nodes : InOrder(born, out[s][PendingInteraction])
<1>1. EdgesInv
  BY Zenon DEF GraphInv
<1>2. \A s \in Nodes : out[s] \in [Relations -> Seq(Nodes)]
  BY <1>1, Zenon DEF EdgesInv
<1>3. \A s \in Nodes, r \in Relations : out[s][r] \in Seq(Nodes) /\ IsInjective(out[s][r])
  BY <1>1, <1>2, Zenon DEF EdgesInv
<1>4. QED
  BY <1>1, <1>2, <1>3, LiveAreNodes, Zenon DEF EdgesInv, GraphAssumption, GraphInv

\* The relations with another list of kind r for s.
Relisted(f, s, r, w) == [f EXCEPT ![s][r] = w]

\* One list of edges is replaced and the incoming edges follow.
LEMMA EdgesSet ==
    ASSUME GraphAssumption, GraphInv, NEW s \in Live, NEW r \in Relations, NEW w \in Seq(Nodes),
           IsInjective(w), \A t \in ToSet(w) : t \in Live /\ MayRelate(r, t),
           r = PendingInteraction => InOrder(born, w),
           out' = Relisted(out, s, r, w),
           incoming' \in [Nodes -> SUBSET (Nodes \X Relations)],
           \A t \in Nodes : <<s, r>> \in incoming'[t] <=> t \in ToSet(w),
           \A t, a \in Nodes, b \in Relations :
             ~(a = s /\ b = r) => (<<a, b>> \in incoming'[t] <=> <<a, b>> \in incoming[t]),
           UNCHANGED <<ordered, born, parent, children, index, pending, retired>>
    PROVE  GraphInv'
<1>1. /\ ListsInv /\ TreeInv /\ RetiredInv /\ EdgesInv /\ Live \subseteq Nodes /\ None \notin Nodes
      /\ out \in [Nodes -> [Relations -> Seq(Nodes)]]
      /\ pending \in [Nodes -> BOOLEAN]
      /\ \A a \in Nodes : out[a] \in [Relations -> Seq(Nodes)]
      /\ \A a \in Nodes, b \in Relations : out[a][b] \in Seq(Nodes) /\ IsInjective(out[a][b])
      /\ \A a, t \in Nodes, b \in Relations : t \in ToSet(out[a][b]) <=> <<a, b>> \in incoming[t]
      /\ \A a, t \in Nodes, b \in Relations :
           t \in ToSet(out[a][b]) => a \in Live /\ t \in Live /\ MayRelate(b, t)
      /\ \A a \in Nodes : InOrder(born, out[a][PendingInteraction])
  BY EdgeFacts, Zenon
<1>2. /\ ordered' = ordered /\ born' = born /\ parent' = parent /\ children' = children
      /\ index' = index /\ pending' = pending /\ retired' = retired
  OBVIOUS
<1>3. ListsInv' /\ Live' = Live /\ TreeInv' /\ RetiredInv'
  BY <1>1, <1>2, ListsUnchanged, TreeUnchanged, Zenon DEF RetiredInv
<1>4. s \in Nodes /\ \A b, t : MayRelate(b, t)' = MayRelate(b, t)
  BY <1>1, <1>2, Zenon DEF MayRelate
<1>5. /\ out' \in [Nodes -> [Relations -> Seq(Nodes)]]
      /\ out'[s][r] = w
      /\ \A a \in Nodes, b \in Relations : ~(a = s /\ b = r) => out'[a][b] = out[a][b]
  <2>1. out' = [out EXCEPT ![s] = [out[s] EXCEPT ![r] = w]]
    BY DEF Relisted
  <2>2. PICK g : g = [out[s] EXCEPT ![r] = w]
    BY Zenon
  <2>3. g \in [Relations -> Seq(Nodes)] /\ g[r] = w /\ \A b \in Relations : b # r => g[b] = out[s][b]
    <3>1. \A b \in Relations : g[b] = IF b = r THEN w ELSE out[s][b]
      BY <1>1, <1>4, <2>2, Zenon
    <3>2. g \in [Relations -> Seq(Nodes)]
      BY <1>1, <1>4, <2>2, SMT
    <3>3. QED
      BY <3>1, <3>2, Zenon
  <2>4. out' = [out EXCEPT ![s] = g]
    BY <2>1, <2>2, Zenon
  <2>5. out' \in [Nodes -> [Relations -> Seq(Nodes)]]
    BY <1>1, <1>4, <2>3, <2>4, SMT
  <2>6. \A a \in Nodes : out'[a] = IF a = s THEN g ELSE out[a]
    BY <1>1, <2>4, Zenon
  <2>7. out'[s] = g
    BY <1>4, <2>6, Zenon
  <2>8. \A a \in Nodes, b \in Relations : ~(a = s /\ b = r) => out'[a][b] = out[a][b]
    <3>1. SUFFICES ASSUME NEW a \in Nodes, NEW b \in Relations, ~(a = s /\ b = r) PROVE out'[a][b] = out[a][b]
      BY Zenon
    <3>2. CASE a = s
      BY <2>3, <2>7, <3>1, <3>2, Zenon
    <3>3. CASE a # s
      BY <2>6, <3>3, Zenon
    <3>4. QED
      BY <3>2, <3>3, Zenon
  <2>9. QED
    BY <2>3, <2>5, <2>7, <2>8, Zenon
<1>6. \A a \in Nodes, b \in Relations : IsInjective(out'[a][b])
  BY <1>1, <1>5, Zenon
<1>7. \A a, t \in Nodes, b \in Relations :
         /\ t \in ToSet(out'[a][b]) <=> <<a, b>> \in incoming'[t]
         /\ t \in ToSet(out'[a][b]) => a \in Live /\ t \in Live /\ MayRelate(b, t)
  <2>1. TAKE a, t \in Nodes, b \in Relations
  <2>2. CASE a = s /\ b = r
    BY <1>5, <2>2, Zenon
  <2>3. CASE ~(a = s /\ b = r)
    <3>1. out'[a][b] = out[a][b] /\ (<<a, b>> \in incoming'[t] <=> <<a, b>> \in incoming[t])
      BY <1>5, <2>3, Zenon
    <3>2. /\ t \in ToSet(out[a][b]) <=> <<a, b>> \in incoming[t]
          /\ t \in ToSet(out[a][b]) => a \in Live /\ t \in Live /\ MayRelate(b, t)
      BY <1>1, Zenon
    <3>3. QED
      BY <3>1, <3>2, Zenon
  <2>4. QED
    BY <2>2, <2>3, Zenon
<1>8. \A a \in Nodes : InOrder(born', out'[a][PendingInteraction])
  <2>1. TAKE a \in Nodes
  <2>2. PendingInteraction \in Relations
    BY Zenon DEF GraphAssumption
  <2>3. CASE a = s /\ r = PendingInteraction
    BY <1>2, <1>5, <2>3, Zenon
  <2>4. CASE ~(a = s /\ r = PendingInteraction)
    <3>1. out'[a][PendingInteraction] = out[a][PendingInteraction]
      BY <1>5, <2>2, <2>4, Zenon
    <3>2. QED
      BY <1>1, <1>2, <3>1, Zenon
  <2>5. QED
    BY <2>3, <2>4, Zenon
<1>9. EdgesInv'
  BY <1>1, <1>2, <1>3, <1>4, <1>5, <1>6, <1>7, <1>8, Zenon DEF EdgesInv
<1>10. QED
  BY <1>3, <1>9, Zenon DEF GraphInv

\* relate(): the new end comes after the last one, so after all of them.
LEMMA RelateKeeps ==
    ASSUME GraphAssumption, GraphInv, NEW s \in Sources, NEW t \in Live, NEW r \in Relations, Relate(s, r, t)
    PROVE  GraphInv'
<1>1. /\ ListsInv /\ Live \subseteq Nodes
      /\ incoming \in [Nodes -> SUBSET (Nodes \X Relations)]
      /\ \A a \in Nodes, b \in Relations : out[a][b] \in Seq(Nodes) /\ IsInjective(out[a][b])
      /\ \A a, u \in Nodes, b \in Relations : u \in ToSet(out[a][b]) <=> <<a, b>> \in incoming[u]
      /\ \A a, u \in Nodes, b \in Relations :
           u \in ToSet(out[a][b]) => a \in Live /\ u \in Live /\ MayRelate(b, u)
      /\ \A a \in Nodes : InOrder(born, out[a][PendingInteraction])
  BY EdgeFacts, Zenon
<1>2. PICK v, w : v = out[s][r] /\ w = Append(v, t)
  BY Zenon
<1>3. /\ s \in Live /\ MayRelate(r, t) /\ ~Contains(v, t)
      /\ r = PendingInteraction /\ v # <<>> => At(born, Last(v)) <= At(born, t)
      /\ out' = Relisted(out, s, r, w)
      /\ incoming' = [incoming EXCEPT ![t] = @ \cup {<<s, r>>}]
      /\ UNCHANGED <<ordered, born, parent, children, index, pending, retired>>
  BY <1>2, Zenon DEF Relate, At, InsertionOrder, Relisted
<1>4. s \in Nodes /\ t \in Nodes /\ v \in Seq(Nodes) /\ IsInjective(v)
  BY <1>1, <1>2, <1>3, Zenon
<1>5. t \notin ToSet(v)
  BY <1>3, <1>4, ContainsIsIn, Zenon
<1>6. /\ w \in Seq(Nodes) /\ ToSet(w) = ToSet(v) \cup {t} /\ IsInjective(w)
      /\ DOMAIN w = 1 .. Len(v) + 1 /\ DOMAIN v = 1 .. Len(v) /\ Len(v) \in Nat
      /\ \A i \in DOMAIN v : w[i] = v[i]
      /\ w[Len(v) + 1] = t
  BY <1>2, <1>4, <1>5, AppendedList
<1>7. ToSet(v) \subseteq Nodes
  BY <1>4, ListIsTyped, Zenon
<1>8. \A u \in ToSet(w) : u \in Live /\ MayRelate(r, u)
  BY <1>1, <1>2, <1>3, <1>4, <1>6, <1>7, Zenon
<1>9. r = PendingInteraction => InOrder(born, w)
  <2>1. SUFFICES ASSUME r = PendingInteraction, NEW i \in DOMAIN w, NEW j \in DOMAIN w, i < j
                 PROVE  At(born, w[i]) < At(born, w[j])
    BY Zenon DEF InOrder
  <2>2. \A k, l \in DOMAIN v : k < l => At(born, v[k]) < At(born, v[l])
    BY <1>1, <1>2, <1>4, <2>1, Zenon DEF InOrder
  <2>3. i \in DOMAIN v
    BY <1>6, <2>1, SMT
  <2>4. CASE j \in DOMAIN v
    BY <1>6, <2>1, <2>2, <2>3, <2>4, Zenon
  <2>5. CASE j = Len(v) + 1
    <3>1. v # <<>> /\ Last(v) = v[Len(v)] /\ Len(v) \in DOMAIN v
      BY <1>6, <2>3, SMT DEF Last
    <3>2. At(born, v[Len(v)]) <= At(born, t)
      BY <1>3, <2>1, <3>1, Zenon
    <3>3. /\ t \in ToSet(born) /\ v[Len(v)] \in ToSet(born) /\ v[i] \in ToSet(born) /\ v[Len(v)] # t
      <4>1. v[Len(v)] \in ToSet(v) /\ v[i] \in ToSet(v)
        BY <2>3, <3>1, Zenon DEF ToSet
      <4>2. Live \subseteq ToSet(born)
        BY <1>1, Zenon DEF ListsInv
      <4>3. v[Len(v)] \in Live /\ v[i] \in Live
        BY <1>6, <1>8, <4>1, Zenon
      <4>4. QED
        BY <1>5, <4>1, <4>2, <4>3, Zenon
    <3>4. At(born, v[Len(v)]) # At(born, t)
      BY <3>3, PlaceOf, Zenon
    <3>5. At(born, t) \in Nat /\ At(born, v[Len(v)]) \in Nat /\ At(born, v[i]) \in Nat
      <4>1. At(born, t) \in DOMAIN born /\ At(born, v[Len(v)]) \in DOMAIN born /\ At(born, v[i]) \in DOMAIN born
        BY <3>3, PlaceOf, Zenon
      <4>2. born \in Seq(Nodes)
        BY <1>1, Zenon DEF ListsInv
      <4>3. DOMAIN born \subseteq Nat
        BY <4>2, SMT
      <4>4. QED
        BY <4>1, <4>3, Zenon
    <3>6. i = Len(v) \/ At(born, v[i]) < At(born, v[Len(v)])
      <4>1. i = Len(v) \/ i < Len(v)
        BY <1>6, <2>3, SMT
      <4>2. QED
        BY <2>2, <2>3, <3>1, <4>1, Zenon
    <3>7. At(born, v[i]) < At(born, t)
      BY <3>2, <3>4, <3>5, <3>6, SMT
    <3>8. QED
      BY <1>6, <2>3, <2>5, <3>7, Zenon
  <2>6. j \in DOMAIN v \/ j = Len(v) + 1
    BY <1>6, SMT
  <2>7. QED
    BY <2>4, <2>5, <2>6, Zenon
<1>10. \A u \in Nodes : incoming'[u] = IF u = t THEN incoming[u] \cup {<<s, r>>} ELSE incoming[u]
  BY <1>1, <1>3, <1>4, Zenon
<1>11. incoming' \in [Nodes -> SUBSET (Nodes \X Relations)]
  <2>1. incoming[t] \cup {<<s, r>>} \in SUBSET (Nodes \X Relations)
    BY <1>1, <1>4
  <2>2. QED
    BY <1>1, <1>3, <1>4, <2>1
<1>12. \A u \in Nodes : <<s, r>> \in incoming'[u] <=> u \in ToSet(w)
  BY <1>1, <1>2, <1>4, <1>6, <1>10, Zenon
<1>13. \A u, a \in Nodes, b \in Relations :
         ~(a = s /\ b = r) => (<<a, b>> \in incoming'[u] <=> <<a, b>> \in incoming[u])
  <2>1. \A a \in Nodes, b \in Relations : ~(a = s /\ b = r) => <<a, b>> # <<s, r>>
    BY Zenon
  <2>2. QED
    BY <1>10, <2>1, Zenon
<1>14. QED
  BY <1>3, <1>6, <1>8, <1>9, <1>11, <1>12, <1>13, EdgesSet

\* unrelate(): an edge is erased at both its ends.
LEMMA UnrelateKeeps ==
    ASSUME GraphAssumption, GraphInv, NEW s \in Sources, NEW t \in Live, NEW r \in Relations, Unrelate(s, r, t)
    PROVE  GraphInv'
<1>1. /\ ListsInv /\ Live \subseteq Nodes
      /\ incoming \in [Nodes -> SUBSET (Nodes \X Relations)]
      /\ \A a \in Nodes, b \in Relations : out[a][b] \in Seq(Nodes) /\ IsInjective(out[a][b])
      /\ \A a, u \in Nodes, b \in Relations : u \in ToSet(out[a][b]) <=> <<a, b>> \in incoming[u]
      /\ \A a, u \in Nodes, b \in Relations :
           u \in ToSet(out[a][b]) => a \in Live /\ u \in Live /\ MayRelate(b, u)
      /\ \A a \in Nodes : InOrder(born, out[a][PendingInteraction])
  BY EdgeFacts, Zenon
<1>2. PICK v, w : v = out[s][r] /\ w = Erase(v, {t})
  BY Zenon
<1>3. /\ s \in Live
      /\ out' = Relisted(out, s, r, w)
      /\ incoming' = [incoming EXCEPT ![t] = @ \ {<<s, r>>}]
      /\ UNCHANGED <<ordered, born, parent, children, index, pending, retired>>
  BY <1>2, Zenon DEF Unrelate, Relisted
<1>4. s \in Nodes /\ t \in Nodes /\ v \in Seq(Nodes) /\ IsInjective(v)
  BY <1>1, <1>2, <1>3, Zenon
<1>5. /\ w \in Seq(Nodes) /\ ToSet(w) = ToSet(v) \ {t} /\ IsInjective(w)
      /\ \A k, l \in DOMAIN w : k < l => \E i, j \in DOMAIN v : i < j /\ w[k] = v[i] /\ w[l] = v[j]
  <2>1. PICK R : R = {t}
    BY Zenon
  <2>2. w = Erase(v, R)
    BY <1>2, <2>1, Zenon
  <2>3. /\ Erase(v, R) \in Seq(Nodes) /\ ToSet(Erase(v, R)) = ToSet(v) \ R /\ IsInjective(Erase(v, R))
        /\ \A k, l \in DOMAIN Erase(v, R) : k < l =>
             \E i, j \in DOMAIN v : i < j /\ Erase(v, R)[k] = v[i] /\ Erase(v, R)[l] = v[j]
    BY <1>4, ErasedList
  <2>4. w \in Seq(Nodes) /\ IsInjective(w) /\ ToSet(w) = ToSet(v) \ {t}
    BY <2>1, <2>2, <2>3, Zenon
  <2>5. \A k, l \in DOMAIN w : k < l => \E i, j \in DOMAIN v : i < j /\ w[k] = v[i] /\ w[l] = v[j]
    <3>1. SUFFICES ASSUME NEW k \in DOMAIN w, NEW l \in DOMAIN w, k < l
                   PROVE  \E i, j \in DOMAIN v : i < j /\ w[k] = v[i] /\ w[l] = v[j]
      BY Zenon
    <3>2. k \in DOMAIN Erase(v, R) /\ l \in DOMAIN Erase(v, R)
      BY <2>2, Zenon
    <3>3. PICK i \in DOMAIN v, j \in DOMAIN v : i < j /\ Erase(v, R)[k] = v[i] /\ Erase(v, R)[l] = v[j]
      BY <2>3, <3>1, <3>2, Zenon
    <3>4. w[k] = v[i] /\ w[l] = v[j]
      BY <2>2, <3>3, Zenon
    <3>5. QED
      BY <3>3, <3>4, Zenon
  <2>6. QED
    BY <2>4, <2>5, Zenon
<1>6. ToSet(v) \subseteq Nodes
  BY <1>4, ListIsTyped, Zenon
<1>7. \A u \in ToSet(w) : u \in Live /\ MayRelate(r, u)
  BY <1>1, <1>2, <1>4, <1>5, <1>6, Zenon
<1>8. r = PendingInteraction => InOrder(born, w)
  <2>1. SUFFICES ASSUME r = PendingInteraction, NEW k \in DOMAIN w, NEW l \in DOMAIN w, k < l
                 PROVE  At(born, w[k]) < At(born, w[l])
    BY Zenon DEF InOrder
  <2>2. PICK i \in DOMAIN v, j \in DOMAIN v : i < j /\ w[k] = v[i] /\ w[l] = v[j]
    BY <1>5, <2>1, Zenon
  <2>3. At(born, v[i]) < At(born, v[j])
    BY <1>1, <1>2, <1>4, <2>1, <2>2, Zenon DEF InOrder
  <2>4. QED
    BY <2>2, <2>3, Zenon
<1>9. \A u \in Nodes : incoming'[u] = IF u = t THEN incoming[u] \ {<<s, r>>} ELSE incoming[u]
  BY <1>1, <1>3, <1>4, Zenon
<1>10. incoming' \in [Nodes -> SUBSET (Nodes \X Relations)]
  <2>1. incoming[t] \ {<<s, r>>} \in SUBSET (Nodes \X Relations)
    BY <1>1, <1>4
  <2>2. QED
    BY <1>1, <1>3, <1>4, <2>1
<1>11. \A u \in Nodes : <<s, r>> \in incoming'[u] <=> u \in ToSet(w)
  BY <1>1, <1>2, <1>4, <1>5, <1>9, Zenon
<1>12. \A u, a \in Nodes, b \in Relations :
         ~(a = s /\ b = r) => (<<a, b>> \in incoming'[u] <=> <<a, b>> \in incoming[u])
  <2>1. \A a \in Nodes, b \in Relations : ~(a = s /\ b = r) => <<a, b>> # <<s, r>>
    BY Zenon
  <2>2. QED
    BY <1>9, <2>1, Zenon
<1>13. QED
  BY <1>3, <1>5, <1>7, <1>8, <1>10, <1>11, <1>12, EdgesSet

\* replaceRelated(): the targets that come and go learn of it.
LEMMA ReplaceRelatedKeeps ==
    ASSUME GraphAssumption, GraphInv, NEW s \in Sources, NEW r \in Relations,
           NEW next \in SetToAllKPermutations({t \in Live : MayRelate(r, t)}),
           ReplaceRelated(s, r, next)
    PROVE  GraphInv'
<1>1. /\ ListsInv /\ Live \subseteq Nodes /\ IsFiniteSet(Live)
      /\ incoming \in [Nodes -> SUBSET (Nodes \X Relations)]
      /\ \A a \in Nodes, b \in Relations : out[a][b] \in Seq(Nodes) /\ IsInjective(out[a][b])
      /\ \A a, u \in Nodes, b \in Relations : u \in ToSet(out[a][b]) <=> <<a, b>> \in incoming[u]
  BY EdgeFacts, TreeFacts, Zenon
<1>2. /\ next \in Seq(Nodes) /\ IsInjective(next)
      /\ \A t \in ToSet(next) : t \in Live /\ MayRelate(r, t)
  <2>1. PICK S : S = {t \in Live : MayRelate(r, t)}
    BY Zenon
  <2>2. IsFiniteSet(S)
    BY <1>1, <2>1, FS_Subset, Zenon
  <2>3. next \in SetToAllKPermutations(S)
    BY <2>1, Zenon
  <2>4. next \in Seq(S) /\ IsInjective(next) /\ ToSet(next) \subseteq S
    BY <2>2, <2>3, ListsOf, Zenon
  <2>5. S \subseteq Nodes
    BY <1>1, <2>1, Zenon
  <2>6. next \in Seq(Nodes)
    BY <2>4, <2>5, SMT
  <2>7. QED
    BY <2>1, <2>4, <2>6, Zenon
<1> DEFINE K == ToSet(next)
           P == ToSet(out[s][r])
<1>3. /\ s \in Live
      /\ r = PendingInteraction => InOrder(born, next)
      /\ out' = Relisted(out, s, r, next)
      /\ incoming' = [t \in Nodes |->
              CASE t \in P \ K -> incoming[t] \ {<<s, r>>}
                [] t \in K \ P -> incoming[t] \cup {<<s, r>>}
                [] OTHER -> incoming[t]]
      /\ UNCHANGED <<ordered, born, parent, children, index, pending, retired>>
  BY Zenon DEF ReplaceRelated, Relisted, InOrder, At, InsertionOrder
<1>4. s \in Nodes /\ \A t \in Nodes : t \in P <=> <<s, r>> \in incoming[t]
  BY <1>1, <1>3, Zenon
<1> HIDE DEF K, P
<1>5. /\ \A t \in Nodes : t \in P /\ t \notin K => incoming'[t] = incoming[t] \ {<<s, r>>}
      /\ \A t \in Nodes : t \in K /\ t \notin P => incoming'[t] = incoming[t] \cup {<<s, r>>}
      /\ \A t \in Nodes : (t \in K <=> t \in P) => incoming'[t] = incoming[t]
  <2>1. \A t \in Nodes : t \in P /\ t \notin K => incoming'[t] = incoming[t] \ {<<s, r>>}
    BY <1>3, Zenon
  <2>2. \A t \in Nodes : t \in K /\ t \notin P => incoming'[t] = incoming[t] \cup {<<s, r>>}
    BY <1>3, Zenon
  <2>3. \A t \in Nodes : (t \in K <=> t \in P) => incoming'[t] = incoming[t]
    BY <1>3, Zenon
  <2>4. QED
    BY <2>1, <2>2, <2>3, Zenon
<1>6. \A t \in Nodes : /\ <<s, r>> \in incoming'[t] <=> t \in K
                       /\ \A e : e # <<s, r>> => (e \in incoming'[t] <=> e \in incoming[t])
  <2>1. TAKE t \in Nodes
  <2>2. CASE t \in P /\ t \notin K
    BY <1>5, <2>2, Zenon
  <2>3. CASE t \in K /\ t \notin P
    BY <1>5, <2>3, Zenon
  <2>4. CASE t \in K <=> t \in P
    BY <1>4, <1>5, <2>4, Zenon
  <2>5. QED
    BY <2>2, <2>3, <2>4, Zenon
<1>7. incoming' \in [Nodes -> SUBSET (Nodes \X Relations)]
  <2>1. \A t \in Nodes : incoming'[t] \subseteq Nodes \X Relations
    <3>1. SUFFICES ASSUME NEW t \in Nodes, NEW e \in incoming'[t] PROVE e \in Nodes \X Relations
      BY Zenon
    <3>2. CASE e = <<s, r>>
      BY <1>4, <3>2
    <3>3. CASE e # <<s, r>>
      <4>1. e \in incoming[t]
        BY <1>6, <3>1, <3>3, Zenon
      <4>2. QED
        BY <1>1, <4>1, Zenon
    <3>4. QED
      BY <3>2, <3>3, Zenon
  <2> DEFINE F(t) == CASE t \in P \ K -> incoming[t] \ {<<s, r>>}
                       [] t \in K \ P -> incoming[t] \cup {<<s, r>>}
                       [] OTHER -> incoming[t]
  <2>2. incoming' = [t \in Nodes |-> F(t)]
    BY <1>3, Zenon
  <2> HIDE DEF F
  <2>3. incoming' = [t \in Nodes |-> incoming'[t]]
    BY <2>2, Zenon
  <2>4. QED
    BY <2>1, <2>3, Zenon
<1>8. \A t \in Nodes : <<s, r>> \in incoming'[t] <=> t \in ToSet(next)
  BY <1>6, Zenon DEF K
<1>9. \A t, a \in Nodes, b \in Relations :
         ~(a = s /\ b = r) => (<<a, b>> \in incoming'[t] <=> <<a, b>> \in incoming[t])
  <2>1. \A a \in Nodes, b \in Relations : ~(a = s /\ b = r) => <<a, b>> # <<s, r>>
    BY Zenon
  <2>2. QED
    BY <1>6, <2>1, Zenon
<1>10. QED
  BY <1>2, <1>3, <1>7, <1>8, <1>9, EdgesSet

\* Erasing what is not there.
LEMMA NothingErased ==
    ASSUME NEW s \in Seq(Nodes), NEW R, \A x \in ToSet(s) : x \notin R
    PROVE  Erase(s, R) = s
<1>1. PICK S : S = Nodes \ R
  BY Zenon
<1>2. ToSet(s) \subseteq S
  BY <1>1, ListIsTyped, Zenon
<1>3. Only(s, S) = s
  BY <1>2, OnlyAll, Zenon
<1>4. QED
  BY <1>1, <1>3, Zenon DEF Erase

\* Cached positions may shorten the erasure of children: the least one cached by a child
\* that goes is where the first of them stands.
LEMMA ChildrenErased ==
    ASSUME GraphAssumption, GraphInv, NEW p \in Nodes, NEW R, R \subseteq Live
    PROVE  ChildrenWithout(p, R) = Erase(children[p], R)
<1>1. /\ Live \subseteq Nodes /\ None \notin Nodes /\ index \in [Nodes -> Nat]
      /\ \A m \in Nodes : children[m] \in Seq(Nodes) /\ IsInjective(children[m])
      /\ \A m, c \in Nodes : c \in ToSet(children[m]) <=> parent[c] = m
      /\ \A c \in Nodes : parent[c] # None =>
           parent[c] \in Live /\ c \in Live /\ index[c] = At(children[parent[c]], c) - 1
  BY TreeFacts, Zenon
<1>2. PICK s : s = children[p]
  BY Zenon
<1>3. s \in Seq(Nodes) /\ IsInjective(s) /\ DOMAIN s = 1 .. Len(s) /\ Len(s) \in Nat /\ ToSet(s) \subseteq Nodes
  BY <1>1, <1>2, ListIsTyped
<1> DEFINE at == {index[n] : n \in {m \in R : parent[m] = p}}
           first == CHOOSE i \in at : \A j \in at : i <= j
<1>4. ChildrenWithout(p, R) = IF at = {} THEN s
                              ELSE SubSeq(s, 1, first) \o Erase(SubSeq(s, first + 1, Len(s)), R)
  <2>1. ChildrenWithout(p, R) = IF at = {} THEN children[p]
          ELSE SubSeq(children[p], 1, first) \o Erase(SubSeq(children[p], first + 1, Len(children[p])), R)
    BY Zenon DEF ChildrenWithout
  <2> HIDE DEF at, first
  <2>2. QED
    BY <1>2, <2>1
<1>5. \A n \in R : n \in Nodes /\ (parent[n] = p => n \in ToSet(s) /\ index[n] = At(s, n) - 1 /\ index[n] \in at)
  <2>1. TAKE n \in R
  <2>2. n \in Nodes
    BY <1>1, Zenon
  <2>3. parent[n] = p => n \in ToSet(s) /\ index[n] = At(s, n) - 1 /\ index[n] \in at
    <3>1. SUFFICES ASSUME parent[n] = p PROVE n \in ToSet(s) /\ index[n] = At(s, n) - 1 /\ index[n] \in at
      BY Zenon
    <3>2. parent[n] # None
      BY <1>1, <3>1, Zenon
    <3>3. index[n] = At(children[parent[n]], n) - 1
      BY <1>1, <2>2, <3>2, Zenon
    <3>4. QED
      BY <1>1, <1>2, <2>2, <3>1, <3>3, Zenon
  <2>4. QED
    BY <2>2, <2>3, Zenon
<1>6. \A x \in ToSet(s) : x \in R => parent[x] = p
  BY <1>1, <1>2, <1>3, Zenon
<1>7. CASE at = {}
  <2>1. \A x \in ToSet(s) : x \notin R
    BY <1>5, <1>6, <1>7, Zenon
  <2>2. Erase(s, R) = s
    BY <1>3, <2>1, NothingErased, Zenon
  <2>3. QED
    BY <1>2, <1>4, <1>7, <2>2, Zenon
<1>8. CASE at # {}
  <2>1. at \subseteq Nat
    <3>1. SUFFICES ASSUME NEW i \in at PROVE i \in Nat
      BY Zenon
    <3>2. PICK n \in R : i = index[n]
      BY Zenon
    <3>3. QED
      BY <1>1, <1>5, <3>2, Zenon
  <2>2. PICK n \in R : parent[n] = p /\ first = index[n]
    <3>1. first \in at
      <4>1. \E i \in at : \A j \in at : i <= j
        BY <1>8, <2>1, LeastNumber, Zenon
      <4>2. QED
        BY <4>1, Zenon
    <3>2. QED
      BY <3>1, Zenon
  <2>3. \A j \in at : first <= j
    <3>1. \E i \in at : \A j \in at : i <= j
      BY <1>8, <2>1, LeastNumber, Zenon
    <3>2. QED
      BY <3>1, Zenon
  <2> HIDE DEF at, first
  <2>4. first \in 0 .. Len(s)
    <3>1. At(s, n) \in DOMAIN s /\ first = At(s, n) - 1
      BY <1>5, <2>2, PlaceOf, Zenon
    <3>2. QED
      BY <1>3, <3>1, SMT
  <2>5. \A i \in 1 .. first : s[i] \notin R
    <3>1. SUFFICES ASSUME NEW i \in 1 .. first, s[i] \in R PROVE FALSE
      BY Zenon
    <3>2. i \in DOMAIN s
      BY <1>3, <2>4, SMT
    <3>3. s[i] \in ToSet(s) /\ At(s, s[i]) = i
      BY <1>3, <3>2, OnlyPlace, Zenon DEF ToSet
    <3>4. index[s[i]] = i - 1 /\ index[s[i]] \in at
      BY <1>5, <1>6, <3>1, <3>3, Zenon
    <3>5. first <= i - 1
      BY <2>3, <3>4, Zenon
    <3>6. QED
      BY <2>4, <3>5, SMT
  <2>6. SubSeq(s, 1, first) \o Erase(SubSeq(s, first + 1, Len(s)), R) = Erase(s, R)
    BY <1>3, <2>4, <2>5, ShortenedErasure
  <2>7. QED
    BY <1>2, <1>4, <1>8, <2>6, Zenon
<1>9. QED
  BY <1>7, <1>8, Zenon

\* Counting known edges may shorten the erasure of targets: from the back, the search
\* stops at the first target that goes and never passes it.
LEMMA OutErased ==
    ASSUME GraphAssumption, GraphInv, NEW s \in Nodes, NEW r \in Relations, NEW R, R \subseteq Live
    PROVE  OutWithout(s, r, R) = Erase(out[s][r], R)
<1>1. /\ Live \subseteq Nodes
      /\ \A a \in Nodes, b \in Relations : out[a][b] \in Seq(Nodes) /\ IsInjective(out[a][b])
      /\ \A a, t \in Nodes, b \in Relations : t \in ToSet(out[a][b]) <=> <<a, b>> \in incoming[t]
  BY EdgeFacts, Zenon
<1> DEFINE v == out[s][r]
<1>2. v = out[s][r]
  BY Zenon
<1>3. v \in Seq(Nodes) /\ IsInjective(v) /\ DOMAIN v = 1 .. Len(v) /\ Len(v) \in Nat /\ ToSet(v) \subseteq Nodes
  BY <1>1, <1>2, ListIsTyped
<1> DEFINE D == Into(v, R)
           N == {n \in R : <<s, r>> \in incoming[n]}
           known == Cardinality(N)
           Above(i) == {j \in DOMAIN v : j >= i /\ v[j] \in R}
           first == CHOOSE i \in DOMAIN v : v[i] \in R /\ Cardinality(Above(i)) = known
<1>4. OutWithout(s, r, R) = IF known = 0 THEN v
                            ELSE SubSeq(v, 1, first - 1) \o Erase(SubSeq(v, first, Len(v)), R)
  BY Zenon DEF OutWithout
<1> HIDE DEF v
<1>5. \A i : i \in D <=> i \in DOMAIN v /\ v[i] \in R
  BY Zenon DEF Into
<1>6. \A n \in R : n \in N <=> n \in ToSet(v)
  BY <1>1, <1>2, Zenon
<1>7. D \subseteq Nat /\ IsFiniteSet(D) /\ Cardinality(D) \in Nat
  <2>1. D \in SUBSET (1 .. Len(v))
    BY <1>3, <1>5, Zenon
  <2>2. PICK n \in Nat : n = Len(v)
    BY <1>3, Zenon
  <2>3. D \in SUBSET (1 .. n)
    BY <2>1, <2>2, Zenon
  <2> HIDE DEF D
  <2>4. IsFiniteSet(D) /\ Cardinality(D) \in Nat
    BY <2>3, Ranks, Zenon
  <2>5. D \subseteq Nat
    BY <2>3, SMT
  <2>6. QED
    BY <2>4, <2>5, Zenon
<1>8. known = Cardinality(D)
  <2> DEFINE f == [i \in D |-> v[i]]
  <2>1. \A i \in D : v[i] \in N
    BY <1>5, <1>6, Zenon DEF ToSet
  <2>2. \A n \in N : \E i \in D : v[i] = n
    BY <1>5, <1>6, Zenon DEF ToSet
  <2>3. \A i, j \in D : v[i] = v[j] => i = j
    BY <1>3, <1>5, Zenon DEF IsInjective
  <2> HIDE DEF D, N
  <2>4. f \in Surjection(D, N) /\ DOMAIN f = D
    <3>1. f \in [D -> N]
      BY <2>1, Zenon
    <3>2. \A n \in N : \E i \in D : f[i] = n
      BY <2>2, Zenon
    <3>3. QED
      BY <3>1, <3>2, Zenon DEF Surjection
  <2>5. f \in Injection(D, N)
    BY <2>1, <2>3, Zenon DEF Injection, IsInjective
  <2>6. Cardinality(D) = Cardinality(N)
    BY <1>7, <2>4, <2>5, FS_Surjection, Zenon
  <2>7. QED
    BY <2>6, Zenon
<1>9. CASE known = 0
  <2>1. D = {}
    BY <1>7, <1>8, <1>9, FS_EmptySet, Zenon
  <2>2. \A x \in ToSet(v) : x \notin R
    BY <1>5, <2>1, Zenon DEF ToSet
  <2>3. Erase(v, R) = v
    BY <1>3, <2>2, NothingErased, Zenon
  <2>4. QED
    BY <1>2, <1>4, <1>9, <2>3, Zenon
<1>10. CASE known # 0
  <2>1. D # {}
    <3>1. Cardinality({}) = 0
      BY FS_EmptySet, Zenon
    <3>2. QED
      BY <1>8, <1>10, <3>1, Zenon
  <2>2. PICK i \in D : \A j \in D : i <= j
    BY <1>7, <2>1, LeastNumber, Zenon
  <2>3. Above(i) = D
    <3>1. \A j \in D : j >= i
      BY <1>7, <2>2, SMT
    <3>2. QED
      BY <1>5, <3>1, Zenon
  <2>4. i \in DOMAIN v /\ v[i] \in R /\ Cardinality(Above(i)) = known
    BY <1>5, <1>8, <2>3, Zenon
  <2>5. first \in DOMAIN v /\ v[first] \in R /\ Cardinality(Above(first)) = known
    BY <2>4, Zenon
  <2> HIDE DEF first
  <2>6. Above(first) \subseteq D
    BY <1>5, Zenon
  <2>7. Above(first) = D
    BY <1>7, <1>8, <2>5, <2>6, FS_Subset, Zenon
  <2>8. \A j \in D : j >= first
    BY <2>7, Zenon
  <2>9. PICK m : m = first - 1
    BY Zenon
  <2>10. m \in 0 .. Len(v) /\ first = m + 1
    BY <1>3, <2>5, <2>9, SMT
  <2>11. \A j \in 1 .. m : v[j] \notin R
    <3>1. SUFFICES ASSUME NEW j \in 1 .. m, v[j] \in R PROVE FALSE
      BY Zenon
    <3>2. j \in DOMAIN v /\ ~(j >= first)
      BY <1>3, <2>10, SMT
    <3>3. QED
      BY <1>5, <2>8, <3>1, <3>2, Zenon
  <2>12. SubSeq(v, 1, m) \o Erase(SubSeq(v, m + 1, Len(v)), R) = Erase(v, R)
    BY <1>3, <2>10, <2>11, ShortenedErasure
  <2>13. QED
    BY <1>2, <1>4, <1>10, <2>9, <2>10, <2>12, Zenon
<1>11. QED
  BY <1>9, <1>10, Zenon

\* removeMany(): what stays lists nothing that goes, and the removed ones are put at the
\* end of the array of retired nodes.
LEMMA RemoveManyKeeps ==
    ASSUME GraphAssumption, GraphInv, NEW some \in SUBSET Live, RemoveMany(some)
    PROVE  GraphInv'
<1>1. /\ ListsInv /\ TreeInv /\ RetiredInv /\ EdgesInv /\ Live \subseteq Nodes /\ None \notin Nodes
      /\ parent \in [Nodes -> Nodes \cup {None}]
      /\ index \in [Nodes -> Nat]
      /\ \A m \in Nodes : children[m] \in Seq(Nodes) /\ IsInjective(children[m])
      /\ \A m, c \in Nodes : c \in ToSet(children[m]) <=> parent[c] = m
      /\ \A c \in Nodes : parent[c] # None =>
           parent[c] \in Live /\ c \in Live /\ index[c] = At(children[parent[c]], c) - 1
  BY TreeFacts, Zenon
<1>2. /\ incoming \in [Nodes -> SUBSET (Nodes \X Relations)]
      /\ \A a \in Nodes, b \in Relations : out[a][b] \in Seq(Nodes) /\ IsInjective(out[a][b])
      /\ \A a, t \in Nodes, b \in Relations : t \in ToSet(out[a][b]) <=> <<a, b>> \in incoming[t]
      /\ \A a, t \in Nodes, b \in Relations :
           t \in ToSet(out[a][b]) => a \in Live /\ t \in Live /\ MayRelate(b, t)
      /\ \A a \in Nodes : InOrder(born, out[a][PendingInteraction])
  BY EdgeFacts, Zenon
<1> DEFINE Orphans(R) == {m \in Nodes \ R : parent[m] \in R}
<1>3. PICK R, gone :
      /\ R = Closure(some) /\ gone = Only(ordered, R)
      /\ children' = [p \in Nodes |-> IF p \in R THEN <<>> ELSE ChildrenWithout(p, R)]
      /\ parent' = [n \in Nodes |-> IF n \in R \cup Orphans(R) THEN None ELSE parent[n]]
      /\ index' = [n \in Nodes |->
              CASE n \in R -> Len(retired) + At(gone, n) - 1
                [] n \in Orphans(R) -> 0
                [] n \notin R \cup Orphans(R) /\ parent[n] # None -> At(children'[parent[n]], n) - 1
                [] OTHER -> index[n]]
      /\ out' = [n \in Nodes |-> IF n \in R THEN NoEdges ELSE [r \in Relations |-> OutWithout(n, r, R)]]
      /\ incoming' = [n \in Nodes |-> IF n \in R THEN {} ELSE {e \in incoming[n] : e[1] \notin R}]
      /\ ordered' = Erase(ordered, R)
      /\ retired' = retired \o gone
      /\ born' = born /\ pending' = pending
  BY Zenon DEF RemoveMany, At
<1>4. R \subseteq Live /\ R \subseteq Nodes /\ None \notin R
  BY <1>1, <1>3, Zenon DEF Closure
<1> DEFINE O == Orphans(R)
<1>5. \A m \in Nodes : m \in O <=> m \notin R /\ parent[m] \in R
  BY Zenon
<1>50. /\ parent' = [n \in Nodes |-> IF n \in R \cup O THEN None ELSE parent[n]]
       /\ index' = [n \in Nodes |->
              CASE n \in R -> Len(retired) + At(gone, n) - 1
                [] n \in O -> 0
                [] n \notin R \cup O /\ parent[n] # None -> At(children'[parent[n]], n) - 1
                [] OTHER -> index[n]]
  BY <1>3, Zenon
<1> HIDE DEF Orphans, O
\* The lists of all nodes.
<1>6. /\ ordered \in Seq(Nodes) /\ born \in Seq(Nodes) /\ retired \in Seq(Nodes)
      /\ IsInjective(ordered) /\ IsInjective(born)
      /\ Live \cup ToSet(retired) \subseteq ToSet(born) /\ Live \cap ToSet(retired) = {}
  BY <1>1, Zenon DEF ListsInv
<1>7. gone \in Seq(Nodes) /\ ToSet(gone) = R /\ IsInjective(gone)
  <2>1. Only(ordered, R) \in Seq(Nodes) /\ ToSet(Only(ordered, R)) = ToSet(ordered) \cap R
        /\ IsInjective(Only(ordered, R))
    BY <1>6, OnlyElements
  <2>2. ToSet(ordered) \cap R = R
    BY <1>4, Zenon DEF Live
  <2>3. QED
    BY <1>3, <2>1, <2>2, Zenon
<1>8. ordered' \in Seq(Nodes) /\ IsInjective(ordered') /\ Live' = Live \ R
  <2>1. /\ Erase(ordered, R) \in Seq(Nodes) /\ ToSet(Erase(ordered, R)) = ToSet(ordered) \ R
        /\ IsInjective(Erase(ordered, R))
    BY <1>6, ErasedList, Zenon
  <2>2. QED
    BY <1>3, <2>1, Zenon DEF Live
<1>9. /\ retired' \in Seq(Nodes) /\ DOMAIN retired' = 1 .. Len(retired) + Len(gone)
      /\ DOMAIN retired = 1 .. Len(retired) /\ DOMAIN gone = 1 .. Len(gone)
      /\ Len(retired) \in Nat /\ Len(gone) \in Nat
      /\ \A i \in 1 .. Len(retired) + Len(gone) :
           retired'[i] = IF i <= Len(retired) THEN retired[i] ELSE gone[i - Len(retired)]
  <2>1. PICK l : l = retired \o gone
    BY Zenon
  <2>2. /\ l \in Seq(Nodes) /\ Len(l) = Len(retired) + Len(gone)
        /\ \A i \in 1 .. Len(retired) + Len(gone) :
             l[i] = IF i <= Len(retired) THEN retired[i] ELSE gone[i - Len(retired)]
    BY <1>6, <1>7, <2>1, ConcatProperties
  <2>3. DOMAIN l = 1 .. Len(l) /\ DOMAIN retired = 1 .. Len(retired) /\ DOMAIN gone = 1 .. Len(gone)
        /\ Len(retired) \in Nat /\ Len(gone) \in Nat
    BY <1>6, <1>7, <2>2, SMT
  <2>4. retired' = l
    BY <1>3, <2>1, Zenon
  <2>5. QED
    BY <2>2, <2>3, <2>4, Zenon
<1>10. ToSet(retired') \subseteq ToSet(retired) \cup R
  <2>1. SUFFICES ASSUME NEW i \in DOMAIN retired' PROVE retired'[i] \in ToSet(retired) \cup R
    BY Zenon DEF ToSet
  <2>2. CASE i <= Len(retired)
    <3>1. i \in DOMAIN retired /\ retired'[i] = retired[i]
      BY <1>9, <2>2, SMT
    <3>2. QED
      BY <3>1, Zenon DEF ToSet
  <2>3. CASE ~(i <= Len(retired))
    <3>1. i - Len(retired) \in DOMAIN gone /\ retired'[i] = gone[i - Len(retired)]
      BY <1>9, <2>3, SMT
    <3>2. retired'[i] \in ToSet(gone)
      BY <3>1, Zenon DEF ToSet
    <3>3. QED
      BY <1>7, <3>2, Zenon
  <2>4. QED
    BY <2>2, <2>3, Zenon
<1>11. ListsInv'
  <2>1. Live' \cup ToSet(retired') \subseteq ToSet(born') /\ Live' \cap ToSet(retired') = {}
    BY <1>3, <1>4, <1>6, <1>8, <1>10, Zenon
  <2>2. QED
    BY <1>3, <1>6, <1>8, <1>9, <2>1, Zenon DEF ListsInv
\* The tree.
<1>12. \A p \in Nodes : children'[p] = IF p \in R THEN <<>> ELSE Erase(children[p], R)
  <2>1. \A p \in Nodes : ChildrenWithout(p, R) = Erase(children[p], R)
    BY <1>4, ChildrenErased, Zenon
  <2>2. QED
    BY <1>3, <2>1, Zenon
<1>13. \A p \in Nodes : children'[p] \in Seq(Nodes) /\ IsInjective(children'[p])
  <2>1. TAKE p \in Nodes
  <2>2. CASE p \in R
    <3>1. <<>> \in Seq(Nodes) /\ DOMAIN <<>> = {}
      BY SMT
    <3>2. QED
      BY <1>12, <2>2, <3>1, Zenon DEF IsInjective
  <2>3. CASE p \notin R
    <3>1. Erase(children[p], R) \in Seq(Nodes) /\ IsInjective(Erase(children[p], R))
      BY <1>1, ErasedList, Zenon
    <3>2. QED
      BY <1>12, <2>3, <3>1, Zenon
  <2>4. QED
    BY <2>2, <2>3, Zenon
<1>14. children' \in [Nodes -> Seq(Nodes)]
  <2>1. children' = [p \in Nodes |-> children'[p]]
    BY <1>3, Zenon
  <2>2. QED
    BY <1>13, <2>1, Zenon
<1>15. /\ \A n \in Nodes : n \in R => parent'[n] = None
       /\ \A n \in Nodes : parent[n] \in R => parent'[n] = None
       /\ \A n \in Nodes : n \notin R /\ parent[n] \notin R => parent'[n] = parent[n]
  BY <1>5, <1>50, Zenon
<1>16. parent' \in [Nodes -> Nodes \cup {None}]
  BY <1>1, <1>50, Zenon
<1>17. \A m, c \in Nodes : c \in ToSet(children'[m]) <=> parent'[c] = m
  <2>1. TAKE m, c \in Nodes
  <2>2. m # None
    BY <1>1, Zenon
  <2>3. CASE m \in R
    <3>1. ToSet(children'[m]) = {}
      <4>1. DOMAIN <<>> = {}
        BY SMT
      <4>2. QED
        BY <1>12, <2>3, <4>1, Zenon DEF ToSet
    <3>2. parent'[c] # m
      BY <1>15, <2>2, <2>3, Zenon
    <3>3. QED
      BY <3>1, <3>2, Zenon
  <2>4. CASE m \notin R
    <3>1. ToSet(children'[m]) = ToSet(children[m]) \ R
      <4>1. ToSet(Erase(children[m], R)) = ToSet(children[m]) \ R
        BY <1>1, ErasedList, Zenon
      <4>2. QED
        BY <1>12, <2>4, <4>1, Zenon
    <3>2. c \in ToSet(children'[m]) <=> parent[c] = m /\ c \notin R
      BY <1>1, <3>1, Zenon
    <3>3. CASE c \in R
      BY <1>15, <2>2, <3>2, <3>3, Zenon
    <3>4. CASE parent[c] \in R
      <4>1. parent'[c] = None
        BY <1>15, <3>4, Zenon
      <4>2. parent[c] # m
        BY <2>4, <3>4, Zenon
      <4>3. QED
        BY <2>2, <3>2, <4>1, <4>2, Zenon
    <3>5. CASE c \notin R /\ parent[c] \notin R
      BY <1>15, <3>2, <3>5, Zenon
    <3>6. QED
      BY <3>3, <3>4, <3>5, Zenon
  <2>5. QED
    BY <2>3, <2>4, Zenon
<1>18. /\ \A n \in Nodes : n \in R => index'[n] = Len(retired) + At(gone, n) - 1
       /\ \A n \in Nodes : n \notin R /\ parent[n] \in R => index'[n] = 0
       /\ \A n \in Nodes : n \notin R /\ parent[n] \notin R /\ parent[n] # None =>
            index'[n] = At(children'[parent[n]], n) - 1
       /\ \A n \in Nodes : n \notin R /\ parent[n] = None => index'[n] = index[n]
  <2>0. \A n \in Nodes : n \in O => n \notin R /\ parent[n] \in R
    BY <1>5, Zenon
  <2>1. \A n \in Nodes : n \in R => index'[n] = Len(retired) + At(gone, n) - 1
    BY <1>50, <2>0, Zenon
  <2>2. \A n \in Nodes : n \notin R /\ parent[n] \in R => index'[n] = 0
    BY <1>5, <1>50, Zenon
  <2>3. \A n \in Nodes : n \notin R /\ parent[n] \notin R /\ parent[n] # None =>
            index'[n] = At(children'[parent[n]], n) - 1
    BY <1>5, <1>50, Zenon
  <2>4. \A n \in Nodes : n \notin R /\ parent[n] = None => index'[n] = index[n]
    BY <1>4, <1>5, <1>50, Zenon
  <2>5. QED
    BY <2>1, <2>2, <2>3, <2>4, Zenon
<1>19. ASSUME NEW c \in Nodes, parent'[c] # None
       PROVE  parent'[c] \in Live' /\ c \in Live' /\ index'[c] = At(children'[parent'[c]], c) - 1
  <2>1. c \notin R /\ parent[c] \notin R /\ parent'[c] = parent[c]
    BY <1>15, <1>19, Zenon
  <2>2. QED
    BY <1>1, <1>8, <1>18, <1>19, <2>1, Zenon
<1>20. index' \in [Nodes -> Nat]
  <2>1. \A s \in Seq(Nodes) : \A x \in ToSet(s) : At(s, x) \in Nat /\ At(s, x) - 1 \in Nat
    <3>1. SUFFICES ASSUME NEW s \in Seq(Nodes), NEW x \in ToSet(s) PROVE At(s, x) \in Nat /\ At(s, x) - 1 \in Nat
      BY Zenon
    <3>2. At(s, x) \in DOMAIN s
      BY PlaceOf, Zenon
    <3>3. QED
      BY <3>2, SMT
  <2>2. \A n \in Nodes : index'[n] \in Nat
    <3>1. TAKE n \in Nodes
    <3>2. 0 \in Nat
      BY SMT
    <3>3. CASE n \in R
      <4>1. At(gone, n) - 1 \in Nat /\ At(gone, n) \in Nat
        BY <1>7, <2>1, <3>3, Zenon
      <4>2. Len(retired) + At(gone, n) - 1 \in Nat
        BY <1>9, <4>1, SMT
      <4>3. QED
        BY <1>18, <3>3, <4>2, Zenon
    <3>4. CASE n \notin R /\ parent[n] \in R
      BY <1>18, <3>2, <3>4, Zenon
    <3>5. CASE n \notin R /\ parent[n] \notin R /\ parent[n] # None
      <4>1. parent'[n] = parent[n] /\ parent[n] \in Nodes
        BY <1>1, <1>15, <3>5, Zenon
      <4>2. n \in ToSet(children'[parent[n]]) /\ children'[parent[n]] \in Seq(Nodes)
        BY <1>13, <1>17, <4>1, Zenon
      <4>3. At(children'[parent[n]], n) - 1 \in Nat
        BY <2>1, <4>2, Zenon
      <4>4. QED
        BY <1>18, <3>5, <4>3, Zenon
    <3>6. CASE n \notin R /\ parent[n] = None
      BY <1>1, <1>18, <3>6, Zenon
    <3>7. QED
      BY <3>3, <3>4, <3>5, <3>6, Zenon
  <2> DEFINE F(n) == CASE n \in R -> Len(retired) + At(gone, n) - 1
                       [] n \in O -> 0
                       [] n \notin R \cup O /\ parent[n] # None -> At(children'[parent[n]], n) - 1
                       [] OTHER -> index[n]
  <2>3. index' = [n \in Nodes |-> F(n)]
    BY <1>50, Zenon
  <2> HIDE DEF F
  <2>4. index' = [n \in Nodes |-> index'[n]]
    BY <2>3, Zenon
  <2>5. QED
    BY <2>2, <2>4, Zenon
<1>21. \A S \in SUBSET Live' : S # {} => \E c \in S : parent'[c] \notin S
  <2>1. PICK p : p = None
    BY Zenon
  <2>2. \A c \in Live' : parent'[c] = parent[c] \/ parent'[c] = None \/ (c \in {} /\ parent'[c] = p)
    BY <1>1, <1>8, <1>15, Zenon
  <2>3. {} \cap Ancestors(p) = {} /\ Live' \subseteq Live
    BY <1>8, Zenon
  <2>4. QED
    BY <1>1, <2>2, <2>3, StillNoCycle, Zenon
<1>22. TreeInv'
  BY <1>13, <1>14, <1>16, <1>17, <1>19, <1>20, <1>21, Zenon DEF TreeInv
\* The array of the retired nodes.
<1>23. RetiredInv'
  <2>1. SUFFICES ASSUME NEW i \in DOMAIN retired' PROVE index'[retired'[i]] = i - 1
    BY Zenon DEF RetiredInv
  <2>2. CASE i <= Len(retired)
    <3>1. i \in DOMAIN retired /\ retired'[i] = retired[i]
      BY <1>9, <2>2, SMT
    <3>2. PICK c \in Nodes : c = retired[i] /\ c \notin Live
      <4>1. retired[i] \in ToSet(retired)
        BY <3>1, Zenon DEF ToSet
      <4>2. ToSet(retired) \subseteq Nodes
        BY <1>6, ListIsTyped, Zenon
      <4>3. QED
        BY <1>6, <4>1, <4>2, Zenon
    <3>3. c \notin R /\ parent[c] = None
      BY <1>1, <1>4, <3>2, Zenon
    <3>4. index'[c] = index[c] /\ index[c] = i - 1
      BY <1>1, <1>18, <3>1, <3>2, <3>3, Zenon DEF RetiredInv
    <3>5. QED
      BY <3>1, <3>2, <3>4, Zenon
  <2>3. CASE ~(i <= Len(retired))
    <3>1. PICK k \in DOMAIN gone : k = i - Len(retired) /\ retired'[i] = gone[k] /\ k \in Nat /\ i \in Nat
      BY <1>9, <2>3, SMT
    <3>2. gone[k] \in R /\ At(gone, gone[k]) = k
      <4>1. gone[k] \in ToSet(gone)
        BY Zenon DEF ToSet
      <4>2. At(gone, gone[k]) = k
        BY <1>7, OnlyPlace, Zenon
      <4>3. QED
        BY <1>7, <4>1, <4>2, Zenon
    <3>3. index'[gone[k]] = Len(retired) + k - 1
      BY <1>4, <1>18, <3>2, Zenon
    <3>4. Len(retired) + k - 1 = i - 1
      BY <1>9, <3>1, SMT
    <3>5. QED
      BY <3>1, <3>3, <3>4, Zenon
  <2>4. QED
    BY <2>2, <2>3, Zenon
\* The edges.
<1>24. \A r, t : MayRelate(r, t)' = MayRelate(r, t)
  BY <1>3, Zenon DEF MayRelate
<1>25. \A n \in Nodes, r \in Relations : out'[n][r] = IF n \in R THEN <<>> ELSE Erase(out[n][r], R)
  <2>1. \A n \in Nodes, r \in Relations : OutWithout(n, r, R) = Erase(out[n][r], R)
    BY <1>4, OutErased, Zenon
  <2>2. \A n \in Nodes : out'[n] = IF n \in R THEN NoEdges ELSE [r \in Relations |-> OutWithout(n, r, R)]
    BY <1>3, Zenon
  <2>3. TAKE n \in Nodes, r \in Relations
  <2>4. CASE n \in R
    <3>1. out'[n] = NoEdges
      BY <2>2, <2>4, Zenon
    <3>2. QED
      BY <2>4, <3>1, Zenon DEF NoEdges
  <2>5. CASE n \notin R
    <3>1. out'[n] = [q \in Relations |-> OutWithout(n, q, R)]
      BY <2>2, <2>5, Zenon
    <3>2. out'[n][r] = OutWithout(n, r, R)
      BY <3>1, Zenon
    <3>3. QED
      BY <2>1, <2>5, <3>2, Zenon
  <2>6. QED
    BY <2>4, <2>5, Zenon
<1>26. <<>> \in Seq(Nodes) /\ DOMAIN <<>> = {} /\ ToSet(<<>>) = {} /\ IsInjective(<<>>)
  <2>1. <<>> \in Seq(Nodes) /\ DOMAIN <<>> = {}
    BY SMT
  <2>2. QED
    BY <2>1, Zenon DEF ToSet, IsInjective
<1>27. \A n \in Nodes, r \in Relations :
         /\ Erase(out[n][r], R) \in Seq(Nodes) /\ ToSet(Erase(out[n][r], R)) = ToSet(out[n][r]) \ R
         /\ IsInjective(Erase(out[n][r], R))
         /\ \A k, l \in DOMAIN Erase(out[n][r], R) : k < l =>
              \E i, j \in DOMAIN out[n][r] :
                i < j /\ Erase(out[n][r], R)[k] = out[n][r][i] /\ Erase(out[n][r], R)[l] = out[n][r][j]
  <2>1. TAKE n \in Nodes, r \in Relations
  <2>2. PICK v \in Seq(Nodes) : v = out[n][r] /\ IsInjective(v)
    BY <1>2, Zenon
  <2>3. /\ Erase(v, R) \in Seq(Nodes) /\ ToSet(Erase(v, R)) = ToSet(v) \ R
        /\ IsInjective(Erase(v, R))
        /\ \A k, l \in DOMAIN Erase(v, R) : k < l =>
             \E i, j \in DOMAIN v : i < j /\ Erase(v, R)[k] = v[i] /\ Erase(v, R)[l] = v[j]
    BY <2>2, ErasedList
  <2>4. QED
    BY <2>2, <2>3
<1>28. \A n \in Nodes, r \in Relations : out'[n][r] \in Seq(Nodes) /\ IsInjective(out'[n][r])
  <2>1. TAKE n \in Nodes, r \in Relations
  <2>2. CASE n \in R
    BY <1>25, <1>26, <2>2, Zenon
  <2>3. CASE n \notin R
    BY <1>25, <1>27, <2>3, Zenon
  <2>4. QED
    BY <2>2, <2>3, Zenon
<1>29. out' \in [Nodes -> [Relations -> Seq(Nodes)]]
  <2>1. \A n \in Nodes : out'[n] \in [Relations -> Seq(Nodes)]
    <3>1. TAKE n \in Nodes
    <3>2. \A r \in Relations : out'[n][r] \in Seq(Nodes)
      BY <1>28, Zenon
    <3>3. out'[n] = [r \in Relations |-> out'[n][r]]
      BY <1>3, Zenon DEF NoEdges
    <3>4. QED
      BY <3>2, <3>3, Zenon
  <2>2. out' = [n \in Nodes |-> out'[n]]
    BY <1>3, Zenon
  <2>3. QED
    BY <2>1, <2>2, Zenon
<1>30. \A t \in Nodes : incoming'[t] = IF t \in R THEN {} ELSE {e \in incoming[t] : e[1] \notin R}
  BY <1>3, Zenon
<1>31. incoming' \in [Nodes -> SUBSET (Nodes \X Relations)]
  <2>1. \A t \in Nodes : incoming'[t] \subseteq Nodes \X Relations
    BY <1>2, <1>30, Zenon
  <2>2. incoming' = [t \in Nodes |-> incoming'[t]]
    BY <1>3, Zenon
  <2>3. QED
    BY <2>1, <2>2, Zenon
<1>32. \A s, t \in Nodes, r \in Relations :
         /\ t \in ToSet(out'[s][r]) <=> <<s, r>> \in incoming'[t]
         /\ t \in ToSet(out'[s][r]) => s \in Live' /\ t \in Live' /\ MayRelate(r, t)
  <2>1. TAKE s, t \in Nodes, r \in Relations
  <2>2. t \in ToSet(out'[s][r]) <=> s \notin R /\ t \notin R /\ t \in ToSet(out[s][r])
    <3>1. CASE s \in R
      BY <1>25, <1>26, <3>1, Zenon
    <3>2. CASE s \notin R
      <4>1. ToSet(out'[s][r]) = ToSet(out[s][r]) \ R
        <5>1. out'[s][r] = Erase(out[s][r], R)
          BY <1>25, <3>2, Zenon
        <5>2. ToSet(Erase(out[s][r], R)) = ToSet(out[s][r]) \ R
          BY <1>27, Zenon
        <5>3. QED
          BY <5>1, <5>2, Zenon
      <4>2. QED
        BY <3>2, <4>1, Zenon
    <3>3. QED
      BY <3>1, <3>2, Zenon
  <2>3. <<s, r>> \in incoming'[t] <=> s \notin R /\ t \notin R /\ <<s, r>> \in incoming[t]
    <3>1. <<s, r>>[1] = s
      OBVIOUS
    <3>2. QED
      BY <1>30, <3>1, Zenon
  <2>4. QED
    BY <1>2, <1>8, <2>2, <2>3, Zenon
<1>33. \A s \in Nodes : InOrder(born', out'[s][PendingInteraction])
  <2>0. SUFFICES ASSUME NEW s \in Nodes PROVE InOrder(born, out'[s][PendingInteraction])
    BY <1>3, Zenon
  <2>1. SUFFICES ASSUME NEW k \in DOMAIN out'[s][PendingInteraction],
                        NEW l \in DOMAIN out'[s][PendingInteraction], k < l
                 PROVE  At(born, out'[s][PendingInteraction][k]) < At(born, out'[s][PendingInteraction][l])
    BY Zenon DEF InOrder
  <2>2. PICK q \in Relations : q = PendingInteraction
    BY Zenon DEF GraphAssumption
  <2>3. s \notin R
    BY <1>25, <1>26, <2>1, <2>2, Zenon
  <2>4. out'[s][q] = Erase(out[s][q], R)
    BY <1>25, <2>3, Zenon
  <2>5. k \in DOMAIN Erase(out[s][q], R) /\ l \in DOMAIN Erase(out[s][q], R)
    BY <2>2, <2>4, Zenon
  <2>6. PICK i \in DOMAIN out[s][q], j \in DOMAIN out[s][q] :
          i < j /\ Erase(out[s][q], R)[k] = out[s][q][i] /\ Erase(out[s][q], R)[l] = out[s][q][j]
    BY <1>27, <2>1, <2>5, Zenon
  <2>7. At(born, out[s][q][i]) < At(born, out[s][q][j])
    BY <1>2, <2>2, <2>6, Zenon DEF InOrder
  <2>8. QED
    BY <2>2, <2>4, <2>6, <2>7, Zenon
<1>34. EdgesInv'
  <2>1. pending' \in [Nodes -> BOOLEAN]
    BY <1>1, <1>3, Zenon DEF EdgesInv
  <2>2. QED
    BY <1>24, <1>28, <1>29, <1>31, <1>32, <1>33, <2>1, Zenon DEF EdgesInv
<1>35. QED
  BY <1>11, <1>22, <1>23, <1>34, Zenon DEF GraphInv

\* releaseRetired(): the last retired node takes over the position of the released one.
LEMMA ReleaseRetiredKeeps ==
    ASSUME GraphAssumption, GraphInv, NEW n \in Nodes, ReleaseRetired(n)
    PROVE  GraphInv'
<1>1. /\ ListsInv /\ TreeInv /\ RetiredInv /\ EdgesInv /\ Live \subseteq Nodes /\ None \notin Nodes
      /\ index \in [Nodes -> Nat]
      /\ \A c \in Nodes : parent[c] # None => c \in Live
      /\ retired \in Seq(Nodes)
      /\ Live \cup ToSet(retired) \subseteq ToSet(born) /\ Live \cap ToSet(retired) = {}
      /\ \A i \in DOMAIN retired : index[retired[i]] = i - 1
  BY TreeFacts, Zenon DEF ListsInv, RetiredInv
<1>2. PICK l, at, tail :
        /\ l = Len(retired) /\ at = index[n] + 1 /\ tail = retired[l]
        /\ at \in DOMAIN retired /\ retired[at] = n
        /\ retired' = SubSeq([retired EXCEPT ![at] = tail], 1, l - 1)
        /\ index' = [index EXCEPT ![tail] = index[n], ![n] = 0]
  <2>1. Last(retired) = retired[Len(retired)]
    BY DEF Last
  <2>2. QED
    BY <2>1, Zenon DEF ReleaseRetired
<1>3. /\ ordered' = ordered /\ born' = born /\ parent' = parent /\ children' = children
      /\ UNCHANGED edges /\ pending' = pending
  BY Zenon DEF ReleaseRetired
<1>4. Live' = Live /\ EdgesInv'
  BY <1>1, <1>3, EdgesUnchanged, Zenon DEF Live
<1>5. /\ DOMAIN retired = 1 .. l /\ l \in Nat /\ at \in 1 .. l /\ l \in 1 .. l
      /\ \A i \in 1 .. l : retired[i] \in Nodes
  BY <1>1, <1>2, SMT
<1>6. /\ retired' \in Seq(Nodes) /\ DOMAIN retired' = 1 .. l - 1
      /\ \A i \in 1 .. l - 1 : retired'[i] = IF i = at THEN tail ELSE retired[i]
  <2>1. PICK g : g = [retired EXCEPT ![at] = tail]
    BY Zenon
  <2>2. g \in Seq(Nodes) /\ Len(g) = l /\ \A i \in 1 .. l : g[i] = IF i = at THEN tail ELSE retired[i]
    BY <1>1, <1>2, <1>5, <2>1, SMT
  <2>3. l \in 1 .. Len(g) + 1
    BY <1>5, <2>2, SMT
  <2>4. SubSeq(g, 1, l - 1) \in Seq(Nodes) /\ Len(SubSeq(g, 1, l - 1)) = l - 1
        /\ \A i \in 1 .. l - 1 : SubSeq(g, 1, l - 1)[i] = g[i]
    BY <2>2, <2>3, Cut
  <2>5. PICK w : w = SubSeq(g, 1, l - 1)
    BY Zenon
  <2>6. DOMAIN w = 1 .. l - 1
    BY <2>4, <2>5, SMT
  <2>7. \A i \in 1 .. l - 1 : i \in 1 .. l
    BY <1>5, SMT
  <2>8. \A i \in 1 .. l - 1 : w[i] = IF i = at THEN tail ELSE retired[i]
    BY <2>2, <2>4, <2>5, <2>7, Zenon
  <2>9. retired' = w
    BY <1>2, <2>1, <2>5, Zenon
  <2>10. QED
    BY <2>4, <2>5, <2>6, <2>8, <2>9, Zenon
<1>7. /\ tail \in Nodes /\ tail \in ToSet(retired) /\ n \in ToSet(retired)
      /\ \A i \in 1 .. l : retired[i] \in ToSet(retired)
  BY <1>2, <1>5, Zenon DEF ToSet
<1>8. ToSet(retired') \subseteq ToSet(retired)
  <2>1. SUFFICES ASSUME NEW i \in DOMAIN retired' PROVE retired'[i] \in ToSet(retired)
    BY Zenon DEF ToSet
  <2>2. i \in 1 .. l
    BY <1>5, <1>6, SMT
  <2>3. QED
    BY <1>6, <1>7, <2>2, Zenon
<1>9. ListsInv'
  BY <1>1, <1>3, <1>4, <1>6, <1>8, Zenon DEF ListsInv
<1>10. \A c \in Nodes : index'[c] = IF c = n THEN 0 ELSE IF c = tail THEN index[n] ELSE index[c]
  BY <1>1, <1>2, Zenon
<1>11. index' \in [Nodes -> Nat]
  <2>1. 0 \in Nat
    BY SMT
  <2>2. \A c \in Nodes : index'[c] \in Nat
    BY <1>1, <1>10, <2>1, Zenon
  <2>3. index' = [c \in Nodes |-> index'[c]]
    BY <1>1, <1>2, Zenon
  <2>4. QED
    BY <2>2, <2>3, Zenon
<1>12. TreeInv'
  <2>1. \A c \in Nodes : c \in Live => index'[c] = index[c]
    BY <1>1, <1>7, <1>10, Zenon
  <2>2. QED
    BY <1>1, <1>3, <1>4, <1>11, <2>1, Zenon DEF TreeInv
<1>13. RetiredInv'
  <2>1. SUFFICES ASSUME NEW i \in 1 .. l - 1 PROVE index'[retired'[i]] = i - 1
    BY <1>6, Zenon DEF RetiredInv
  <2>2. i \in 1 .. l /\ i # l
    BY <1>5, SMT
  <2>3. \A j, k \in 1 .. l : retired[j] = retired[k] => j = k
    <3>1. SUFFICES ASSUME NEW j \in 1 .. l, NEW k \in 1 .. l, retired[j] = retired[k] PROVE j = k
      BY Zenon
    <3>2. index[retired[j]] = j - 1 /\ index[retired[k]] = k - 1
      BY <1>1, <1>5, Zenon
    <3>3. j - 1 = k - 1
      BY <3>1, <3>2, Zenon
    <3>4. QED
      BY <1>5, <3>3, SMT
  <2>4. CASE i = at
    <3>1. retired'[i] = tail /\ tail # n
      BY <1>2, <1>5, <1>6, <2>2, <2>3, <2>4, Zenon
    <3>2. index'[tail] = index[n]
      BY <1>7, <1>10, <3>1, Zenon
    <3>3. index[n] = i - 1
      BY <1>1, <1>2, <2>4, Zenon
    <3>4. QED
      BY <3>1, <3>2, <3>3, Zenon
  <2>5. CASE i # at
    <3>1. retired'[i] = retired[i] /\ retired[i] # tail /\ retired[i] # n /\ retired[i] \in Nodes
      BY <1>2, <1>5, <1>6, <2>2, <2>3, <2>5, Zenon
    <3>2. QED
      BY <1>1, <1>5, <1>10, <2>2, <3>1, Zenon
  <2>6. QED
    BY <2>4, <2>5, Zenon
<1>14. QED
  BY <1>4, <1>9, <1>12, <1>13, Zenon DEF GraphInv

\* The invariant of the graph holds in every state, whatever the nodes, ids, kinds and
\* relations are.
THEOREM GraphInvariant ==
    ASSUME GraphAssumption
    PROVE  GraphSpec => []GraphInv
<1>1. GraphInit => GraphInv
  BY InitGraph
<1>2. GraphInv /\ [GraphNext]_graphVars => GraphInv'
  <2>1. SUFFICES ASSUME GraphInv, [GraphNext]_graphVars PROVE GraphInv'
    OBVIOUS
  <2>2. CASE LifeNext
    BY <2>1, <2>2, UpsertKeeps, ReplaceStateKeeps, RemoveManyKeeps, Zenon DEF LifeNext
  <2>3. CASE TreeNext
    BY <2>1, <2>3, SetParentKeeps, ClearParentKeeps, ReplaceChildrenKeeps, Zenon DEF TreeNext
  <2>4. CASE EdgeNext
    BY <2>1, <2>4, RelateKeeps, UnrelateKeeps, ReplaceRelatedKeeps, Zenon DEF EdgeNext
  <2>5. CASE \E n \in Nodes : ReleaseRetired(n)
    BY <2>1, <2>5, ReleaseRetiredKeeps, Zenon
  <2>6. CASE UNCHANGED graphVars
    <3>1. UNCHANGED <<ordered, parent, children, index>> /\ UNCHANGED <<ordered, born, retired>>
          /\ UNCHANGED <<ordered, born, edges, pending>>
      BY <2>6, Zenon DEF graphVars, edges
    <3>2. ListsInv' /\ TreeInv' /\ EdgesInv'
      BY <2>1, <3>1, ListsUnchanged, TreeUnchanged, EdgesUnchanged, Zenon DEF GraphInv
    <3>3. RetiredInv'
      BY <2>1, <2>6, Zenon DEF GraphInv, RetiredInv, graphVars
    <3>4. QED
      BY <3>2, <3>3, Zenon DEF GraphInv
  <2>7. QED
    BY <2>1, <2>2, <2>3, <2>4, <2>5, <2>6, Zenon DEF GraphNext
<1>3. QED
  BY <1>1, <1>2, PTL DEF GraphSpec

\* The invariant contains what the runs check.
LEMMA InvariantKeepsCaches ==
    ASSUME GraphAssumption, GraphInv
    PROVE  GraphIntact
<1>1. /\ ListsInv /\ TreeInv /\ RetiredInv /\ EdgesInv /\ Live \subseteq Nodes /\ None \notin Nodes
      /\ parent \in [Nodes -> Nodes \cup {None}]
      /\ \A m \in Nodes : children[m] \in Seq(Nodes) /\ IsInjective(children[m])
      /\ \A m, c \in Nodes : c \in ToSet(children[m]) <=> parent[c] = m
      /\ \A c \in Nodes : parent[c] # None =>
           parent[c] \in Live /\ c \in Live /\ index[c] = At(children[parent[c]], c) - 1
  BY TreeFacts, Zenon
<1>2. Forest
  <2>1. ASSUME NEW p \in Nodes, NEW i \in DOMAIN children[p], NEW c, c = children[p][i]
        PROVE  parent[c] = p /\ index[c] = i - 1 /\ {p, c} \subseteq Live
    <3>1. c \in ToSet(children[p]) /\ At(children[p], c) = i
      BY <1>1, <2>1, OnlyPlace, Zenon DEF ToSet
    <3>2. c \in Nodes
      BY <1>1, <3>1, ListIsTyped, Zenon
    <3>3. parent[c] = p /\ p # None
      BY <1>1, <3>1, <3>2, Zenon
    <3>4. parent[c] # None
      BY <3>3, Zenon
    <3>5. parent[c] \in Live /\ c \in Live /\ index[c] = At(children[parent[c]], c) - 1
      BY <1>1, <3>2, <3>4, Zenon
    <3>6. index[c] = i - 1 /\ {p, c} \subseteq Live
      BY <3>1, <3>3, <3>5, Zenon
    <3>7. QED
      BY <3>3, <3>6, Zenon
  <2>2. ASSUME NEW n \in Nodes, parent[n] # None PROVE Contains(children[parent[n]], n)
    <3>1. parent[n] \in Nodes /\ children[parent[n]] \in Seq(Nodes) /\ n \in ToSet(children[parent[n]])
      BY <1>1, <2>2, Zenon
    <3>2. QED
      BY <3>1, ContainsIsIn, Zenon
  <2>3. \A S \in SUBSET Live : S # {} => \E n \in S : parent[n] \notin S
    BY <1>1, Zenon DEF TreeInv
  <2>4. \A i \in DOMAIN retired : index[retired[i]] = i - 1 /\ retired[i] \notin Live
    <3>1. TAKE i \in DOMAIN retired
    <3>2. retired[i] \in ToSet(retired)
      BY Zenon DEF ToSet
    <3>3. QED
      BY <1>1, <3>2, Zenon DEF RetiredInv, ListsInv
  <2>6. \A p \in Nodes : \A i \in DOMAIN children[p] :
          LET c == children[p][i] IN parent[c] = p /\ index[c] = i - 1 /\ {p, c} \subseteq Live
    BY <2>1, Zenon
  <2>5. QED
    BY <2>6, <2>2, <2>3, <2>4, Zenon DEF Forest
<1>3. EdgesMirrored
  <2>1. /\ \A s \in Nodes, r \in Relations : out[s][r] \in Seq(Nodes) /\ IsInjective(out[s][r])
        /\ \A s, t \in Nodes, r \in Relations : t \in ToSet(out[s][r]) <=> <<s, r>> \in incoming[t]
        /\ \A s, t \in Nodes, r \in Relations :
             t \in ToSet(out[s][r]) => s \in Live /\ t \in Live /\ MayRelate(r, t)
        /\ \A s \in Nodes : InOrder(born, out[s][PendingInteraction])
    BY EdgeFacts, Zenon
  <2>2. ASSUME NEW s \in Nodes, NEW r \in Relations, NEW t \in ToSet(out[s][r])
        PROVE  <<s, r>> \in incoming[t] /\ {s, t} \subseteq Live /\ MayRelate(r, t)
    <3>1. t \in Nodes
      BY <2>1, <2>2, ListIsTyped, Zenon
    <3>2. QED
      BY <2>1, <2>2, <3>1, Zenon
  <2>5. ASSUME NEW t \in Nodes, NEW e \in incoming[t]
        PROVE  Contains(out[e[1]][e[2]], t)
    <3>1. incoming[t] \subseteq Nodes \X Relations
      BY <1>1, Zenon DEF EdgesInv
    <3>2. PICK s \in Nodes, r \in Relations : e = <<s, r>>
      BY <3>1, SMT
    <3>3. e[1] = s /\ e[2] = r
      BY <3>2, SMT
    <3>4. t \in ToSet(out[s][r])
      BY <2>1, <3>2, Zenon
    <3>5. Contains(out[s][r], t)
      BY <2>1, <3>4, ContainsIsIn, Zenon
    <3>6. QED
      BY <3>3, <3>5, Zenon
  <2>3. ASSUME NEW s \in Nodes
        PROVE  LET w == out[s][PendingInteraction]
               IN \A i, j \in DOMAIN w : i < j => InsertionOrder(w[i]) < InsertionOrder(w[j])
    BY <2>1, Zenon DEF InOrder, At, InsertionOrder
  <2>4. QED
    BY <2>1, <2>2, <2>5, <2>3, Zenon DEF EdgesMirrored
<1>4. QED
  BY <1>2, <1>3, Zenon DEF GraphIntact

\* The cached positions, the parents and the incoming edges always agree with the lists of
\* children and of relations (NodeGraph's WriteAccess), whatever the nodes are: the
\* shortened erasures of removeMany() erase all they should.
THEOREM GraphStaysIntact ==
    ASSUME GraphAssumption
    PROVE  GraphSpec => []GraphIntact
<1>1. GraphSpec => []GraphInv
  BY GraphInvariant
<1>2. GraphInv => GraphIntact
  BY InvariantKeepsCaches
<1>3. QED
  BY <1>1, <1>2, PTL

\* An erasure that takes nothing of a kind leaves the list of that kind alone.
LEMMA EraseSameThere ==
    ASSUME NEW s \in Seq(Nodes), NEW R, NEW k, \A x \in ToSet(s) : x \in R => KindOf[x] # k
    PROVE  OfKind(Erase(s, R), k) = OfKind(s, k)
<1>1. PICK S : S = {n \in Nodes : KindOf[n] = k}
  BY Zenon
<1>2. PICK Q, V, W : Q = R \cap ToSet(s) /\ V = Nodes \ R /\ W = Nodes \ Q
  BY Zenon
<1>3. ToSet(s) \subseteq Nodes
  BY ListIsTyped, Zenon
<1>4. Erase(s, R) = Erase(s, Q)
  <2>1. \A i \in DOMAIN s : s[i] \in ToSet(s) /\ s[i] \in Nodes
    BY <1>3, Zenon DEF ToSet
  <2>2. {i \in DOMAIN s : s[i] \in V} = {i \in DOMAIN s : s[i] \in W}
    BY <1>2, <2>1, Zenon
  <2> DEFINE F(D) == [j \in 1 .. Cardinality(D) |-> s[CHOOSE i \in D : Cardinality({l \in D : l <= i}) = j]]
  <2>3. Only(s, V) = F({i \in DOMAIN s : s[i] \in V}) /\ Only(s, W) = F({i \in DOMAIN s : s[i] \in W})
    BY Zenon DEF Only
  <2> HIDE DEF F
  <2>5. Only(s, V) = Only(s, W)
    BY <2>2, <2>3, Zenon
  <2>4. QED
    BY <1>2, <2>5, Zenon DEF Erase
<1>5. S \cap Q = {} /\ S \subseteq Nodes
  BY <1>1, <1>2, <1>3, Zenon
<1>6. Only(Erase(s, Q), S) = Only(s, S)
  BY <1>5, EraseSame, Zenon
<1>7. QED
  BY <1>1, <1>4, <1>6, Zenon DEF OfKind

\* A child of another kind leaves the list of a kind alone.
LEMMA InsertSameThere ==
    ASSUME NEW s \in Seq(Nodes), NEW p \in 1 .. Len(s) + 1, NEW x \in Nodes, NEW k, KindOf[x] # k
    PROVE  OfKind(InsertAt(s, p, x), k) = OfKind(s, k)
<1>1. PICK S : S = {n \in Nodes : KindOf[n] = k}
  BY Zenon
<1>2. x \notin S
  BY <1>1, Zenon
<1>3. Only(InsertAt(s, p, x), S) = Only(s, S)
  BY <1>2, InsertSame, Zenon
<1>4. QED
  BY <1>1, <1>3, Zenon DEF OfKind

\* A step that notes every node and every list it changed reports all it should.
LEMMA NotedEnough ==
    ASSUME GraphAssumption, NEW A, NEW S, NEW L, Note(A, S, L),
           \A n \in Nodes :
             n \in Live' /\ (parent'[n] # parent[n] \/ children'[n] # children[n] \/ out'[n] # out[n]) =>
             n \in A /\ n \in S,
           \A n \in Nodes, k \in Kinds :
             n \in Live' /\ OfKind(children'[n], k) # OfKind(children[n], k) => <<n, k>> \in L
    PROVE  ChangesNoted
<1>1. /\ noted'.nodes = A \ {None} /\ noted'.structure = S \ {None}
      /\ noted'.lists = {l \in L : l[1] # None}
  BY DEF Note
<1>2. SUFFICES ASSUME NEW n \in Nodes, n \in Live',
                      parent'[n] # parent[n] \/ children'[n] # children[n] \/ out'[n] # out[n]
               PROVE  /\ n \in noted'.nodes \cap noted'.structure
                      /\ \A k \in Kinds :
                           OfKind(children'[n], k) # OfKind(children[n], k) => <<n, k>> \in noted'.lists
  BY DEF ChangesNoted
<1>3. n # None
  BY Zenon DEF GraphAssumption
<1>4. n \in noted'.nodes \cap noted'.structure
  BY <1>1, <1>2, <1>3, Zenon
<1>5. ASSUME NEW k \in Kinds, OfKind(children'[n], k) # OfKind(children[n], k)
      PROVE  <<n, k>> \in noted'.lists
  <2>1. <<n, k>> \in L
    BY <1>2, <1>5, Zenon
  <2>2. <<n, k>>[1] = n
    OBVIOUS
  <2>3. QED
    BY <1>1, <1>3, <2>1, <2>2, Zenon
<1>6. QED
  BY <1>4, <1>5, Zenon

\* A step that changes nothing of the topology has nothing to report.
LEMMA UnchangedNoted ==
    ASSUME UNCHANGED <<parent, children, out>>
    PROVE  ChangesNoted
  BY DEF ChangesNoted

\* A step that changes one list of relations notes its source.
LEMMA EdgesNoted ==
    ASSUME GraphAssumption, GraphInv, NEW s, NEW w, NEW r, NEW A, Note({s} \cup A, {s}, {}),
           parent' = parent, children' = children, out' = Relisted(out, s, r, w)
    PROVE  ChangesNoted
<1>1. PICK B, S, L : B = {s} \cup A /\ S = {s} /\ L = {}
  BY Zenon
<1>2. Note(B, S, L)
  BY <1>1, Zenon
<1>3. out \in [Nodes -> [Relations -> Seq(Nodes)]]
  BY EdgeFacts, Zenon
<1>4. \A n \in Nodes : n # s => out'[n] = out[n]
  BY <1>3 DEF Relisted
<1>5. \A n \in Nodes :
        n \in Live' /\ (parent'[n] # parent[n] \/ children'[n] # children[n] \/ out'[n] # out[n]) =>
        n \in B /\ n \in S
  BY <1>1, <1>4, Zenon
<1>6. \A n \in Nodes, k \in Kinds :
        n \in Live' /\ OfKind(children'[n], k) # OfKind(children[n], k) => <<n, k>> \in L
  BY Zenon
<1>7. QED
  BY <1>2, <1>5, <1>6, NotedEnough, Zenon

\* setParent() notes the child, its new parent and its old one.
LEMMA SetParentNoted ==
    ASSUME GraphAssumption, GraphInv, NEW p \in Live, NEW n \in Live, NEW before \in Live \cup {None},
           SetParent(p, n, before)
    PROVE  ChangesNoted
<1>1. /\ Live \subseteq Nodes /\ None \notin Nodes
      /\ parent \in [Nodes -> Nodes \cup {None}]
      /\ \A m \in Nodes : children[m] \in Seq(Nodes) /\ IsInjective(children[m])
      /\ \A m, c \in Nodes : c \in ToSet(children[m]) <=> parent[c] = m
      /\ \A c \in Nodes : parent[c] # None => index[c] = At(children[parent[c]], c) - 1
  BY TreeFacts, Zenon
<1>2. PICK s, old, position, siblings, left :
        /\ s = children[p] /\ old = parent[n]
        /\ position = (IF before = None THEN Len(s) ELSE index[before]) + 1
        /\ siblings = InsertAt(s, position, n)
        /\ left = IF old = None THEN <<>> ELSE Erase(children[old], {n})
  BY Zenon
<1>3. /\ old # p
      /\ before # None => parent[before] = p
  BY <1>2, Zenon DEF SetParent
<1>4. /\ children' = [m \in Nodes |-> CASE m = p -> siblings [] m = old -> left [] OTHER -> children[m]]
      /\ parent' = [parent EXCEPT ![n] = p] /\ out' = out
      /\ Note({p, n, old}, {p, n, old}, {<<p, KindOf[n]>>, <<old, KindOf[n]>>})
  BY <1>2, Zenon DEF SetParent, edges
<1>5. p \in Nodes /\ n \in Nodes /\ s \in Seq(Nodes)
  BY <1>1, <1>2, Zenon
<1>6. position \in 1 .. Len(s) + 1
  <2>1. (IF before = None THEN Len(children[p]) ELSE index[before]) + 1 \in 1 .. Len(children[p]) + 1
    BY <1>3, InsertPosition, Zenon
  <2>2. QED
    BY <1>2, <2>1, Zenon
<1>7. /\ children'[p] = siblings
      /\ \A m \in Nodes : m = old => children'[m] = left
      /\ \A m \in Nodes : m # p /\ m # old => children'[m] = children[m]
  <2>1. \A m \in Nodes : children'[m] = CASE m = p -> siblings [] m = old -> left [] OTHER -> children[m]
    BY <1>4, Zenon
  <2>2. QED
    BY <1>3, <1>5, <2>1, Zenon
<1>8. PICK A, L : A = {p, n, old} /\ L = {<<p, KindOf[n]>>, <<old, KindOf[n]>>}
  BY Zenon
<1>9. Note(A, A, L)
  BY <1>4, <1>8, Zenon
<1>10. \A m \in Nodes :
         m \in Live' /\ (parent'[m] # parent[m] \/ children'[m] # children[m] \/ out'[m] # out[m]) =>
         m \in A /\ m \in A
  <2>1. \A m \in Nodes : m # n => parent'[m] = parent[m]
    BY <1>1, <1>4, Zenon
  <2>2. QED
    BY <1>4, <1>7, <1>8, <2>1, Zenon
<1>11. ASSUME NEW m \in Nodes, NEW k \in Kinds, OfKind(children'[m], k) # OfKind(children[m], k)
       PROVE  <<m, k>> \in L
  <2>1. CASE m = p
    <3>1. OfKind(siblings, k) # OfKind(s, k)
      BY <1>2, <1>7, <1>11, <2>1, Zenon
    <3>2. KindOf[n] # k => OfKind(InsertAt(s, position, n), k) = OfKind(s, k)
      BY <1>5, <1>6, InsertSameThere
    <3>3. KindOf[n] = k
      BY <1>2, <3>1, <3>2, Zenon
    <3>4. QED
      BY <1>8, <2>1, <3>3, Zenon
  <2>2. CASE m = old
    <3>1. old # None /\ children'[m] = left /\ left = Erase(children[m], {n})
      BY <1>1, <1>2, <1>7, <2>2, Zenon
    <3>2. PICK R : R = {n}
      BY Zenon
    <3>3. (\A x \in ToSet(children[m]) : x \in R => KindOf[x] # k) =>
             OfKind(Erase(children[m], R), k) = OfKind(children[m], k)
      BY <1>1, EraseSameThere, Zenon
    <3>4. KindOf[n] = k
      BY <1>11, <3>1, <3>2, <3>3, Zenon
    <3>5. QED
      BY <1>8, <2>2, <3>4, Zenon
  <2>3. CASE m # p /\ m # old
    BY <1>7, <1>11, <2>3, Zenon
  <2>4. QED
    BY <2>1, <2>2, <2>3, Zenon
<1>12. \A m \in Nodes, k \in Kinds :
         m \in Live' /\ OfKind(children'[m], k) # OfKind(children[m], k) => <<m, k>> \in L
  BY <1>11, Zenon
<1>13. QED
  BY <1>9, <1>10, <1>12, NotedEnough, Zenon

\* clearParent() notes the child and its old parent.
LEMMA ClearParentNoted ==
    ASSUME GraphAssumption, GraphInv, NEW n \in Live, ClearParent(n)
    PROVE  ChangesNoted
<1>1. /\ Live \subseteq Nodes /\ None \notin Nodes
      /\ parent \in [Nodes -> Nodes \cup {None}]
      /\ children \in [Nodes -> Seq(Nodes)]
      /\ \A m \in Nodes : children[m] \in Seq(Nodes)
  BY TreeFacts, Zenon
<1>2. PICK p, R : p = parent[n] /\ R = {n}
  BY Zenon
<1>3. /\ p # None /\ p \in Nodes
      /\ children' = [children EXCEPT ![p] = Erase(@, R)]
      /\ parent' = [parent EXCEPT ![n] = None] /\ out' = out
      /\ Note({p, n}, {p, n}, {<<p, KindOf[n]>>})
  BY <1>1, <1>2, Zenon DEF ClearParent, edges
<1>4. \A m \in Nodes : children'[m] = IF m = p THEN Erase(children[m], R) ELSE children[m]
  BY <1>1, <1>3, Zenon
<1>5. PICK A, L : A = {p, n} /\ L = {<<p, KindOf[n]>>}
  BY Zenon
<1>6. Note(A, A, L)
  BY <1>3, <1>5, Zenon
<1>7. \A m \in Nodes :
        m \in Live' /\ (parent'[m] # parent[m] \/ children'[m] # children[m] \/ out'[m] # out[m]) =>
        m \in A /\ m \in A
  <2>1. \A m \in Nodes : m # n => parent'[m] = parent[m]
    BY <1>1, <1>3, Zenon
  <2>2. QED
    BY <1>3, <1>4, <1>5, <2>1, Zenon
<1>8. ASSUME NEW m \in Nodes, NEW k \in Kinds, OfKind(children'[m], k) # OfKind(children[m], k)
      PROVE  <<m, k>> \in L
  <2>1. m = p /\ children'[m] = Erase(children[m], R)
    BY <1>4, <1>8, Zenon
  <2>2. (\A x \in ToSet(children[m]) : x \in R => KindOf[x] # k) =>
           OfKind(Erase(children[m], R), k) = OfKind(children[m], k)
    BY <1>1, EraseSameThere, Zenon
  <2>3. KindOf[n] = k
    BY <1>2, <1>8, <2>1, <2>2, Zenon
  <2>4. QED
    BY <1>5, <2>1, <2>3, Zenon
<1>9. \A m \in Nodes, k \in Kinds :
         m \in Live' /\ OfKind(children'[m], k) # OfKind(children[m], k) => <<m, k>> \in L
  BY <1>8, Zenon
<1>10. QED
  BY <1>6, <1>7, <1>9, NotedEnough, Zenon

\* replaceChildren() notes the parent, those it drops or moves, and where they come from.
LEMMA ReplaceChildrenNoted ==
    ASSUME GraphAssumption, GraphInv, NEW p \in Live, NEW next \in SetToAllKPermutations(Live \ Ancestors(p)),
           ReplaceChildren(p, next)
    PROVE  ChangesNoted
<1>1. /\ Live \subseteq Nodes /\ None \notin Nodes
      /\ parent \in [Nodes -> Nodes \cup {None}]
      /\ \A m \in Nodes : children[m] \in Seq(Nodes)
      /\ \A m, c \in Nodes : c \in ToSet(children[m]) <=> parent[c] = m
  BY TreeFacts, Zenon
<1> DEFINE K == ToSet(next)
           D == ToSet(children[p]) \ K
           M == {n \in K : parent[n] # p}
           O == {parent[n] : n \in M} \ {None}
           A == {p} \cup D \cup K \cup O
           S == {p} \cup D \cup M \cup O
           L == {<<p, k>> : k \in {k \in Kinds : OfKind(children[p], k) # OfKind(next, k)}}
                 \cup {<<parent[n], KindOf[n]>> : n \in M}
<1>2. /\ children' = [m \in Nodes |-> CASE m = p -> next [] m \in O -> Erase(children[m], K)
                                        [] OTHER -> children[m]]
      /\ parent' = [n \in Nodes |-> IF n \in K THEN p ELSE IF n \in D THEN None ELSE parent[n]]
      /\ out' = out
      /\ Note(A, S, L)
  BY Zenon DEF ReplaceChildren, edges
<1>3. p \notin O /\ p \in Nodes
  BY <1>1, Zenon
<1>4. /\ \A m \in Nodes : m \in O => children'[m] = Erase(children[m], K)
      /\ \A m \in Nodes : m # p /\ m \notin O => children'[m] = children[m]
      /\ children'[p] = next
  <2> HIDE DEF O, K
  <2>1. \A m \in Nodes : m \in O => children'[m] = Erase(children[m], K)
    BY <1>2, <1>3, Zenon
  <2>2. \A m \in Nodes : m # p /\ m \notin O => children'[m] = children[m]
    BY <1>2, Zenon
  <2>3. children'[p] = next
    BY <1>2, <1>3, Zenon
  <2>4. QED
    BY <2>1, <2>2, <2>3, Zenon
<1>5. \A m \in Nodes :
        m \in Live' /\ (parent'[m] # parent[m] \/ children'[m] # children[m] \/ out'[m] # out[m]) =>
        m \in A /\ m \in S
  <2>1. \A m \in Nodes : m \notin M /\ m \notin D => parent'[m] = parent[m]
    <3>1. TAKE m \in Nodes
    <3>2. CASE m \in K
      <4>1. parent'[m] = p
        BY <1>2, <3>2, Zenon
      <4>2. QED
        BY <3>2, <4>1, Zenon
    <3>3. CASE m \notin K
      BY <1>2, <3>3, Zenon
    <3>4. QED
      BY <3>2, <3>3, Zenon
  <2>2. \A m \in Nodes : m # p /\ m \notin O => children'[m] = children[m]
    BY <1>4, Zenon
  <2>3. A = {p} \cup D \cup K \cup O /\ S = {p} \cup D \cup M \cup O /\ M \subseteq K
    BY Zenon
  <2> HIDE DEF A, S, D, K, M, O
  <2>4. QED
    BY <1>2, <2>1, <2>2, <2>3, Zenon
<1>6. ASSUME NEW m \in Nodes, NEW k \in Kinds, OfKind(children'[m], k) # OfKind(children[m], k)
      PROVE  <<m, k>> \in L
  <2>1. CASE m = p
    <3>1. OfKind(children[p], k) # OfKind(next, k)
      BY <1>4, <1>6, <2>1, Zenon
    <3>2. QED
      BY <2>1, <3>1, Zenon
  <2>2. CASE m \in O
    <3>1. children'[m] = Erase(children[m], K)
      BY <1>4, <2>2, Zenon
    <3>2. (\A x \in ToSet(children[m]) : x \in K => KindOf[x] # k) =>
             OfKind(Erase(children[m], K), k) = OfKind(children[m], k)
      <4> HIDE DEF K
      <4>1. QED
        BY <1>1, EraseSameThere, Zenon
    <3>3. PICK x \in ToSet(children[m]) : x \in K /\ KindOf[x] = k
      BY <1>6, <3>1, <3>2, Zenon
    <3>4. x \in Nodes
      BY <1>1, ListIsTyped, Zenon
    <3>5. parent[x] = m /\ x \in M
      <4>1. parent[x] = m
        BY <1>1, <3>4, Zenon
      <4>2. m # p
        BY <1>3, <2>2, Zenon
      <4>3. QED
        BY <3>3, <4>1, <4>2, Zenon
    <3>6. <<m, k>> = <<parent[x], KindOf[x]>>
      BY <3>3, <3>5, Zenon
    <3>7. QED
      BY <3>5, <3>6, Zenon
  <2>3. CASE m # p /\ m \notin O
    BY <1>4, <1>6, <2>3, Zenon
  <2>4. QED
    BY <2>1, <2>2, <2>3, Zenon
<1> HIDE DEF A, S, L
<1>7. \A m \in Nodes, k \in Kinds :
         m \in Live' /\ OfKind(children'[m], k) # OfKind(children[m], k) => <<m, k>> \in L
  BY <1>6, Zenon
<1>8. QED
  BY <1>2, <1>5, <1>7, NotedEnough, Zenon

\* relate(), unrelate() and replaceRelated() note their source.
LEMMA EdgeStepsNoted ==
    ASSUME GraphAssumption, GraphInv, EdgeNext
    PROVE  ChangesNoted
<1>1. ASSUME NEW s \in Sources, NEW t \in Live, NEW r \in Relations, Relate(s, r, t) \/ Unrelate(s, r, t)
      PROVE  ChangesNoted
  <2>1. PICK w, A : /\ parent' = parent /\ children' = children
                    /\ out' = Relisted(out, s, r, w) /\ Note({s} \cup A, {s}, {})
    <3>1. {s, t} = {s} \cup {t}
      BY Zenon
    <3>2. Note({s} \cup {t}, {s}, {})
      BY <1>1, <3>1, Zenon DEF Relate, Unrelate
    <3>3. CASE Relate(s, r, t)
      <4>1. out' = Relisted(out, s, r, Append(out[s][r], t)) /\ parent' = parent /\ children' = children
        BY <3>3, Zenon DEF Relate, Relisted
      <4>2. QED
        BY <3>2, <4>1, Zenon
    <3>4. CASE Unrelate(s, r, t)
      <4>1. out' = Relisted(out, s, r, Erase(out[s][r], {t})) /\ parent' = parent /\ children' = children
        BY <3>4, Zenon DEF Unrelate, Relisted
      <4>2. QED
        BY <3>2, <4>1, Zenon
    <3>5. QED
      BY <1>1, <3>3, <3>4, Zenon
  <2>2. QED
    BY <2>1, EdgesNoted, Zenon
<1>2. ASSUME NEW s \in Sources, NEW r \in Relations, NEW next, ReplaceRelated(s, r, next)
      PROVE  ChangesNoted
  <2>1. PICK A : A = ToSet(out[s][r]) \cup ToSet(next)
    BY Zenon
  <2>2. {s} \cup ToSet(out[s][r]) \cup ToSet(next) = {s} \cup A
    BY <2>1, Zenon
  <2>3. /\ parent' = parent /\ children' = children
        /\ out' = Relisted(out, s, r, next) /\ Note({s} \cup A, {s}, {})
    BY <1>2, <2>2, Zenon DEF ReplaceRelated, Relisted
  <2>4. QED
    BY <2>3, EdgesNoted, Zenon
<1>3. QED
  BY <1>1, <1>2, Zenon DEF EdgeNext

\* removeMany() notes the parents, the orphans and the sources of the edges that go.
LEMMA RemoveManyNoted ==
    ASSUME GraphAssumption, GraphInv, NEW some \in SUBSET Live, RemoveMany(some)
    PROVE  ChangesNoted
<1>1. /\ Live \subseteq Nodes /\ None \notin Nodes
      /\ ordered \in Seq(Nodes)
      /\ \A m \in Nodes : children[m] \in Seq(Nodes)
      /\ \A m, c \in Nodes : c \in ToSet(children[m]) <=> parent[c] = m
  BY TreeFacts, Zenon DEF ListsInv
<1>2. /\ out \in [Nodes -> [Relations -> Seq(Nodes)]]
      /\ \A a \in Nodes : out[a] \in [Relations -> Seq(Nodes)]
      /\ \A a \in Nodes, b \in Relations : out[a][b] \in Seq(Nodes)
      /\ \A a, t \in Nodes, b \in Relations : t \in ToSet(out[a][b]) <=> <<a, b>> \in incoming[t]
  BY EdgeFacts, Zenon
<1> DEFINE Orphans(R) == {m \in Nodes \ R : parent[m] \in R}
           Ends(R) == {e[1] : e \in UNION {incoming[n] : n \in R}}
           Topology(R) == (({parent[n] : n \in R} \cup Orphans(R) \cup Ends(R)) \ {None}) \ R
           Bound(R) == {n \in R : parent[n] # None \/ children[n] # <<>> \/ out[n] # NoEdges}
           Lists(R) == {<<parent[n], KindOf[n]>> : n \in R}
                 \cup {<<parent[m], KindOf[m]>> : m \in {c \in Nodes : parent[c] \in R}}
<1>3. PICK R :
      /\ R = Closure(some)
      /\ children' = [p \in Nodes |-> IF p \in R THEN <<>> ELSE ChildrenWithout(p, R)]
      /\ parent' = [n \in Nodes |-> IF n \in R \cup Orphans(R) THEN None ELSE parent[n]]
      /\ out' = [n \in Nodes |-> IF n \in R THEN NoEdges ELSE [r \in Relations |-> OutWithout(n, r, R)]]
      /\ ordered' = Erase(ordered, R)
      /\ Note(Topology(R) \cup R, Topology(R) \cup Bound(R), Lists(R))
  BY Zenon DEF RemoveMany
<1>4. R \subseteq Live /\ R \subseteq Nodes
  BY <1>1, <1>3, Zenon DEF Closure
<1>5. \A m \in Live' : m \notin R
  <2>1. ToSet(Erase(ordered, R)) = ToSet(ordered) \ R
    BY <1>1, ErasedList, Zenon
  <2>2. QED
    BY <1>3, <2>1, Zenon DEF Live
<1>6. \A m \in Nodes : m \notin R => children'[m] = Erase(children[m], R)
  <2>1. \A m \in Nodes : ChildrenWithout(m, R) = Erase(children[m], R)
    BY <1>4, ChildrenErased, Zenon
  <2>2. QED
    BY <1>3, <2>1, Zenon
<1>7. \A m \in Nodes : m \notin R /\ children'[m] # children[m] => \E n \in R : parent[n] = m
  <2>1. SUFFICES ASSUME NEW m \in Nodes, m \notin R, \A n \in R : parent[n] # m PROVE children'[m] = children[m]
    BY Zenon
  <2>2. \A x \in ToSet(children[m]) : x \notin R
    BY <1>1, <1>4, <2>1, Zenon
  <2>3. Erase(children[m], R) = children[m]
    BY <1>1, <2>2, NothingErased, Zenon
  <2>4. QED
    BY <1>6, <2>1, <2>3, Zenon
<1>8. \A m \in Nodes : m \notin R /\ out'[m] # out[m] => \E n \in R, r \in Relations : <<m, r>> \in incoming[n]
  <2>1. SUFFICES ASSUME NEW m \in Nodes, m \notin R, \A n \in R, r \in Relations : <<m, r>> \notin incoming[n]
                 PROVE  out'[m] = out[m]
    BY Zenon
  <2>2. \A r \in Relations : OutWithout(m, r, R) = out[m][r]
    <3>1. TAKE r \in Relations
    <3>2. \A x \in ToSet(out[m][r]) : x \notin R
      BY <1>2, <1>4, <2>1, Zenon
    <3>3. Erase(out[m][r], R) = out[m][r]
      BY <1>2, <3>2, NothingErased, Zenon
    <3>4. OutWithout(m, r, R) = Erase(out[m][r], R)
      BY <1>4, OutErased, Zenon
    <3>5. QED
      BY <3>3, <3>4, Zenon
  <2>3. out'[m] = [r \in Relations |-> OutWithout(m, r, R)]
    BY <1>3, <2>1, Zenon
  <2>4. out[m] = [r \in Relations |-> out[m][r]]
    BY <1>2, Zenon
  <2>5. QED
    BY <2>2, <2>3, <2>4, Zenon
<1>9. \A m \in Nodes : m \notin R /\ parent'[m] # parent[m] => m \in Orphans(R)
  BY <1>3, Zenon
<1>10. PICK A, S, L : A = Topology(R) \cup R /\ S = Topology(R) \cup Bound(R) /\ L = Lists(R)
  BY Zenon
<1>11. Note(A, S, L)
  BY <1>3, <1>10, Zenon
<1>12. ASSUME NEW m \in Nodes, m \in Live', parent'[m] # parent[m] \/ children'[m] # children[m] \/ out'[m] # out[m]
       PROVE  m \in A /\ m \in S
  <2>1. m \notin R /\ m # None
    BY <1>1, <1>5, <1>12, Zenon
  <2>2. CASE parent'[m] # parent[m]
    BY <1>9, <1>10, <2>1, <2>2, Zenon
  <2>3. CASE children'[m] # children[m]
    <3>1. m \in {parent[n] : n \in R}
      BY <1>7, <2>1, <2>3, Zenon
    <3>2. QED
      BY <1>10, <2>1, <3>1, Zenon
  <2>4. CASE out'[m] # out[m]
    <3>1. PICK n \in R, r \in Relations : <<m, r>> \in incoming[n]
      BY <1>8, <2>1, <2>4, Zenon
    <3>2. <<m, r>>[1] = m /\ <<m, r>> \in UNION {incoming[x] : x \in R}
      <4>1. <<m, r>>[1] = m
        OBVIOUS
      <4>2. <<m, r>> \in UNION {incoming[x] : x \in R}
        BY <3>1, Zenon
      <4>3. QED
        BY <4>1, <4>2, Zenon
    <3>3. m \in Ends(R)
      BY <3>2, Zenon
    <3>4. QED
      BY <1>10, <2>1, <3>3, Zenon
  <2>5. QED
    BY <1>12, <2>2, <2>3, <2>4, Zenon
<1>13. ASSUME NEW m \in Nodes, NEW k \in Kinds, m \in Live', OfKind(children'[m], k) # OfKind(children[m], k)
       PROVE  <<m, k>> \in L
  <2>1. m \notin R /\ children'[m] = Erase(children[m], R)
    BY <1>5, <1>6, <1>13, Zenon
  <2>2. (\A x \in ToSet(children[m]) : x \in R => KindOf[x] # k) =>
           OfKind(Erase(children[m], R), k) = OfKind(children[m], k)
    BY <1>1, EraseSameThere, Zenon
  <2>3. PICK x \in ToSet(children[m]) : x \in R /\ KindOf[x] = k
    BY <1>13, <2>1, <2>2, Zenon
  <2>4. parent[x] = m
    BY <1>1, <1>4, <2>3, Zenon
  <2>5. <<m, k>> = <<parent[x], KindOf[x]>>
    BY <2>3, <2>4, Zenon
  <2>6. QED
    BY <1>10, <2>3, <2>5, Zenon
<1>14. /\ \A m \in Nodes :
            m \in Live' /\ (parent'[m] # parent[m] \/ children'[m] # children[m] \/ out'[m] # out[m]) =>
            m \in A /\ m \in S
       /\ \A m \in Nodes, k \in Kinds :
            m \in Live' /\ OfKind(children'[m], k) # OfKind(children[m], k) => <<m, k>> \in L
  BY <1>12, <1>13, Zenon
<1>15. QED
  BY <1>11, <1>14, NotedEnough, Zenon

\* Every step reports what it changed.
LEMMA StepsNoted ==
    ASSUME GraphAssumption, GraphInv, [GraphNext]_graphVars
    PROVE  ChangesNoted
<1>1. CASE LifeNext
  <2>1. ASSUME NEW n \in Nodes, Upsert(n) \/ ReplaceState(n) PROVE ChangesNoted
    <3>1. UNCHANGED <<parent, children, out>>
      BY <2>1, Zenon DEF Upsert, ReplaceState, edges
    <3>2. QED
      BY <3>1, UnchangedNoted
  <2>2. QED
    BY <1>1, <2>1, RemoveManyNoted, Zenon DEF LifeNext
<1>2. CASE TreeNext
  BY <1>2, SetParentNoted, ClearParentNoted, ReplaceChildrenNoted, Zenon DEF TreeNext
<1>3. CASE EdgeNext
  BY <1>3, EdgeStepsNoted
<1>4. CASE \E n \in Nodes : ReleaseRetired(n)
  <2>1. UNCHANGED <<parent, children, out>>
    BY <1>4, Zenon DEF ReleaseRetired, edges
  <2>2. QED
    BY <2>1, UnchangedNoted
<1>5. CASE UNCHANGED graphVars
  <2>1. UNCHANGED <<parent, children, out>>
    BY <1>5, Zenon DEF graphVars
  <2>2. QED
    BY <2>1, UnchangedNoted
<1>6. QED
  BY <1>1, <1>2, <1>3, <1>4, <1>5, Zenon DEF GraphNext

\* No operation of NodeGraph's WriteAccess changes the place, the children or the relations
\* of a live node without reporting the node, and the list of the kind of child that came,
\* went or moved: the views, which are shown reported nodes only, miss nothing.
THEOREM ChangesReachTheViews ==
    ASSUME GraphAssumption
    PROVE  GraphSpec => EveryChangeReported
<1>1. GraphSpec => []GraphInv
  BY GraphInvariant
<1>2. GraphInv /\ [GraphNext]_graphVars => [ChangesNoted]_graphVars
  BY StepsNoted, Zenon
<1>3. GraphSpec => [][ChangesNoted]_graphVars
  BY <1>1, <1>2, PTL DEF GraphSpec
<1>4. QED
  BY <1>3, Zenon DEF EveryChangeReported
=============================================================================
