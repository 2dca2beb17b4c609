--------------------------- MODULE ThreadChannels ---------------------------
(***************************************************************************)
(* src/codex/nodegraph/ThreadChannels.cpp, the direction from the SNode.C  *)
(* worker to the Qt thread: a bounded queue, a coalesced "rescan from      *)
(* revision" word, the word that carries a pending provider authority, and *)
(* an eventfd.                                                             *)
(*                                                                         *)
(* The queue is the FIFO that SpscQueue implements.  A graph transaction   *)
(* stands for its revision; the node lists of a GraphChanged are           *)
(* FrontendSession's business, here only whether they exceed               *)
(* MaximumDirectGraphReferences.  Every access of an atomic is a step of   *)
(* its own.  Either thread may see the other's progress in the queue late: *)
(* Qt surely sees only what was queued before a rescan it has received     *)
(* (rescanRevision_ is released and acquired), the worker's view is        *)
(* sizeSeen.  FrontendSession closes the channels after the worker has     *)
(* been joined, so closed_ is FALSE throughout.                            *)
(***************************************************************************)
EXTENDS Naturals, Sequences

CONSTANTS
  Capacity,      (* WorkerToQtCapacity                       *)
  ReservedSlots, (* WorkerToQtReservedSlots                  *)
  MaxRevision    (* bound: transactions the worker commits   *)

ASSUME CapacityAssumption == Capacity \in Nat
ASSUME ReservedSlotsAssumption == ReservedSlots \in 1 .. Capacity
ASSUME MaxRevisionAssumption == MaxRevision \in Nat

VARIABLES
  revision,         (* the graph revision the worker committed last          *)
  workerAt,         (* where the worker is in the send functions             *)
  sending,          (* the message being sent                                *)
  oversized,        (* it is a change with too many node references          *)
  sizeSeen,         (* the queue size as the worker saw it last, with its    *)
                    (* own pushes added: it may lag behind Qt's pops         *)
  workerToQt,       (* the queue                                             *)
  rescanRevision,   (* rescanRevision_; 0 for none                           *)
  beforeRescan,     (* how many of the queued messages were queued before it *)
                    (* was written last                                      *)
  pendingAuthority, (* pendingProviderAuthorityRevision_; 0 for none         *)
  wakeSignaled,     (* the eventfd's counter is not zero                     *)
  receiveAt,        (* where the Qt thread is in tryReceiveForQt             *)
  queuedTurn,       (* queuedTurnAfterRescan_                                *)
  surelySeen,       (* how many of the queued messages Qt surely sees        *)
  received,         (* the message tryReceiveForQt filled in                 *)
  resets,           (* history: the revisions that reset the provider        *)
  told,             (* history: the revisions handed to the Qt thread        *)
  authorityTold,    (* history: the latest authority handed to it            *)
  overtaken         (* history: rescans handed over the head of the queue    *)
                    (* although the head was queued before them              *)

workerVars == <<revision, workerAt, sending, oversized, sizeSeen, resets>>
sharedVars == <<workerToQt, rescanRevision, beforeRescan, pendingAuthority,
                wakeSignaled>>
qtVars == <<receiveAt, queuedTurn, surelySeen, received, told, authorityTold,
            overtaken>>
vars == <<workerVars, sharedVars, qtVars>>

----------------------------------------------------------------------------
(* Messages.  A rescan is a GraphChanged with rescanRequired set; it is    *)
(* made up by tryReceiveForQt and never queued.                            *)

Revision == 0 .. MaxRevision

MessageType ==
  [type : {"none", "change", "rescan", "diagnostic", "stopped"},
   revision : Revision,
   authority : Revision]

Message(type, r, authority) ==
  [type |-> type, revision |-> r, authority |-> authority]

NoMessage == Message("none", 0, 0)

Init ==
  /\ revision = 0 /\ workerAt = "idle"
  /\ sending = NoMessage /\ oversized = FALSE
  /\ sizeSeen = 0
  /\ workerToQt = <<>>
  /\ rescanRevision = 0 /\ beforeRescan = 0 /\ pendingAuthority = 0
  /\ wakeSignaled = FALSE
  /\ receiveAt = "out" /\ queuedTurn = FALSE
  /\ surelySeen = 0 /\ received = NoMessage
  /\ resets = {} /\ told = {} /\ authorityTold = 0 /\ overtaken = 0

----------------------------------------------------------------------------
(* The worker *)

(* The worker's view of the queue size: a load of consumer_ may be stale,  *)
(* but never older than the one before.                                    *)
SizesApprox == Len(workerToQt) .. sizeSeen

(* NodeGraph::WriteAccess::publish under the write lock, then the entry of *)
(* sendGraphChanged.  A transaction that runs resetProviderDerived has its *)
(* own revision as provider authority.                                     *)
Commit(isReset, isOversized) ==
  /\ workerAt = "idle"
  /\ revision < MaxRevision
  /\ revision' = revision + 1
  /\ sending' = Message("change", revision + 1, IF isReset THEN revision + 1 ELSE 0)
  /\ oversized' = isOversized
  /\ resets' = IF isReset THEN resets \cup {revision + 1} ELSE resets
  /\ workerAt' = IF isReset THEN "authority" ELSE "admit"
  /\ UNCHANGED <<sizeSeen, sharedVars, qtVars>>

StoreAuthority ==
  /\ workerAt = "authority"
  /\ pendingAuthority' = sending.authority
  /\ workerAt' = "admit"
  /\ UNCHANGED <<revision, sending, oversized, sizeSeen, resets,
                 workerToQt, rescanRevision, beforeRescan, wakeSignaled, qtVars>>

(* Mutant: the last slot is not kept for WorkerStopped. *)
HasAnyRoom(size) == size < Capacity

(* The last slot is kept for WorkerStopped. *)
HasRoom(size) == size < Capacity - ReservedSlots

(* The size check and the push: SpscQueue shows that a push the check      *)
(* allowed is not refused (RoomIsKept).                                    *)
AdmitChange ==
  /\ workerAt = "admit"
  /\ ~oversized
  /\ \E size \in SizesApprox : HasRoom(size) /\ sizeSeen' = size + 1
  /\ workerToQt' = Append(workerToQt, sending)
  /\ workerAt' = "wake"
  /\ UNCHANGED <<revision, sending, oversized, resets,
                 rescanRevision, beforeRescan, pendingAuthority, wakeSignaled,
                 qtVars>>

(* Mutant: a change that finds no room is given up.                        *)
ForgetRescan(r) == UNCHANGED <<rescanRevision, beforeRescan>>

(* requireRescan: a maximum by compare-and-swap.                           *)
RequireRescan(r) ==
  IF rescanRevision < r
    THEN rescanRevision' = r /\ beforeRescan' = Len(workerToQt)
    ELSE UNCHANGED <<rescanRevision, beforeRescan>>

CoalesceChange ==
  /\ workerAt = "admit"
  /\ \/ oversized /\ UNCHANGED sizeSeen
     \/ ~oversized /\ \E size \in SizesApprox : ~HasRoom(size) /\ sizeSeen' = size
  /\ RequireRescan(sending.revision)
  /\ workerAt' = "wake"
  /\ UNCHANGED <<revision, sending, oversized, resets,
                 workerToQt, pendingAuthority, wakeSignaled, qtVars>>

(* sendProtocolDiagnostic.  One that finds no room is dropped and counted  *)
(* in the next one.                                                        *)
SendDiagnostic ==
  /\ workerAt = "idle"
  /\ \E size \in SizesApprox : HasRoom(size) /\ sizeSeen' = size + 1
  /\ sending' = Message("diagnostic", 0, 0)
  /\ workerToQt' = Append(workerToQt, sending')
  /\ workerAt' = "wake"
  /\ UNCHANGED <<revision, oversized, resets,
                 rescanRevision, beforeRescan, pendingAuthority, wakeSignaled,
                 qtVars>>

(* sendWorkerStopped at the end of runClientRuntime, whose result nobody   *)
(* looks at.                                                               *)
SendWorkerStopped ==
  /\ workerAt = "idle"
  /\ \E size \in SizesApprox :
       IF size = Capacity
         THEN UNCHANGED workerToQt /\ sizeSeen' = size
         ELSE /\ workerToQt' = Append(workerToQt, Message("stopped", 0, 0))
              /\ sizeSeen' = size + 1
  /\ sending' = Message("stopped", 0, 0)
  /\ workerAt' = "wake"
  /\ UNCHANGED <<revision, oversized, resets,
                 rescanRevision, beforeRescan, pendingAuthority, wakeSignaled,
                 qtVars>>

(* wakeWorkerToQt: the write may fail, and nobody retries it.              *)
Wake ==
  /\ workerAt = "wake"
  /\ wakeSignaled' \in {wakeSignaled, TRUE}
  /\ workerAt' = IF sending.type = "stopped" THEN "stopped" ELSE "idle"
  /\ sending' = NoMessage
  /\ oversized' = FALSE
  /\ UNCHANGED <<revision, sizeSeen, resets,
                 workerToQt, rescanRevision, beforeRescan, pendingAuthority, qtVars>>

(* The steps of a send under way, and those that begin one.                *)
SendStep == StoreAuthority \/ AdmitChange \/ CoalesceChange \/ Wake

BeginSend ==
  \/ \E isReset, isOversized \in BOOLEAN : Commit(isReset, isOversized)
  \/ SendDiagnostic
  \/ SendWorkerStopped

----------------------------------------------------------------------------
(* tryReceiveForQt *)

OneLess(count) == IF count = 0 THEN 0 ELSE count - 1

(* A successful tryPop; a change that carries an authority clears the      *)
(* pending one next.                                                       *)
Pop ==
  /\ workerToQt # <<>>
  /\ workerToQt' = Tail(workerToQt)
  /\ received' = Head(workerToQt)
  /\ receiveAt' = IF Head(workerToQt).authority # 0 THEN "clear" ELSE "return"
  /\ overtaken' = 0
  /\ surelySeen' = OneLess(surelySeen)
  /\ beforeRescan' = OneLess(beforeRescan)

(* tryPop finds nothing, or does not see yet what there is.                *)
PopNothing ==
  /\ surelySeen = 0
  /\ UNCHANGED <<workerToQt, beforeRescan, surelySeen, received, overtaken>>

(* Mutant: the queue gets no turn after a rescan.                          *)
ReceiveWithoutTurn ==
  /\ receiveAt = "out"
  /\ queuedTurn
  /\ queuedTurn' = FALSE
  /\ receiveAt' = "exchange"
  /\ UNCHANGED <<workerVars, sharedVars, surelySeen, received, told,
                 authorityTold, overtaken>>

(* The turn of the queue after a rescan.                                   *)
ReceiveQueuedTurn ==
  /\ receiveAt = "out"
  /\ queuedTurn
  /\ queuedTurn' = FALSE
  /\ Pop \/ (PopNothing /\ receiveAt' = "exchange")
  /\ UNCHANGED <<workerVars, rescanRevision, pendingAuthority, wakeSignaled,
                 told, authorityTold>>

(* The exchange of the rescan word, at once or when the queue had nothing  *)
(* for its turn.                                                           *)
AtExchange == receiveAt = "exchange" \/ (receiveAt = "out" /\ ~queuedTurn)

ReceiveRescan ==
  /\ AtExchange
  /\ rescanRevision # 0
  /\ rescanRevision' = 0
  /\ queuedTurn' = TRUE
  /\ received' = Message("rescan", rescanRevision, 0)
  /\ receiveAt' = "authority"
  /\ surelySeen' = IF beforeRescan > surelySeen THEN beforeRescan ELSE surelySeen
  /\ overtaken' = IF beforeRescan = 0 THEN overtaken ELSE overtaken + 1
  /\ UNCHANGED <<workerVars, workerToQt, beforeRescan, pendingAuthority,
                 wakeSignaled, told, authorityTold>>

ReceiveNoRescan ==
  /\ AtExchange
  /\ rescanRevision = 0
  /\ receiveAt' = "pop"
  /\ UNCHANGED <<workerVars, sharedVars, queuedTurn, surelySeen, received,
                 told, authorityTold, overtaken>>

ReceiveAuthority ==
  /\ receiveAt = "authority"
  /\ received' = [received EXCEPT !.authority = pendingAuthority]
  /\ pendingAuthority' = 0
  /\ receiveAt' = "return"
  /\ UNCHANGED <<workerVars, workerToQt, rescanRevision, beforeRescan,
                 wakeSignaled, queuedTurn, surelySeen, told, authorityTold,
                 overtaken>>

ReceivePop ==
  /\ receiveAt = "pop"
  /\ Pop \/ (PopNothing /\ receiveAt' = "out")
  /\ UNCHANGED <<workerVars, rescanRevision, pendingAuthority, wakeSignaled,
                 queuedTurn, told, authorityTold>>

(* Mutant: the pending authority is cleared whatever it has become.        *)
ClearAnyAuthority ==
  /\ receiveAt = "clear"
  /\ pendingAuthority' = 0
  /\ receiveAt' = "return"
  /\ UNCHANGED <<workerVars, workerToQt, rescanRevision, beforeRescan,
                 wakeSignaled, queuedTurn, surelySeen, received, told,
                 authorityTold, overtaken>>

(* The compare-and-swap loop after a pop.                                  *)
ClearAuthority ==
  /\ receiveAt = "clear"
  /\ pendingAuthority' =
       IF pendingAuthority <= received.authority THEN 0 ELSE pendingAuthority
  /\ receiveAt' = "return"
  /\ UNCHANGED <<workerVars, workerToQt, rescanRevision, beforeRescan,
                 wakeSignaled, queuedTurn, surelySeen, received, told,
                 authorityTold, overtaken>>

ReceiveStep ==
  \/ ReceiveQueuedTurn \/ ReceiveRescan \/ ReceiveNoRescan \/ ReceiveAuthority
  \/ ReceivePop \/ ClearAuthority

(* The revisions a message tells the Qt thread about: a rescan stands for  *)
(* every revision up to its own, since Qt rereads the graph.               *)
Covers(message) ==
  CASE message.type = "change" -> {message.revision}
    [] message.type = "rescan" -> 1 .. message.revision
    [] OTHER -> {}

(* The caller takes the message.                                           *)
TakeReceived ==
  /\ receiveAt = "return"
  /\ told' = told \cup Covers(received)
  /\ authorityTold' =
       IF received.authority > authorityTold THEN received.authority ELSE authorityTold
  /\ received' = NoMessage
  /\ receiveAt' = "out"
  /\ UNCHANGED <<workerVars, sharedVars, queuedTurn, surelySeen, overtaken>>

(* drainWorkerToQtWake *)
DrainWake ==
  /\ receiveAt = "out"
  /\ wakeSignaled
  /\ wakeSignaled' = FALSE
  /\ UNCHANGED <<workerVars, workerToQt, rescanRevision, beforeRescan,
                 pendingAuthority, qtVars>>

Next == BeginSend \/ SendStep \/ ReceiveStep \/ TakeReceived \/ DrainWake

Spec == Init /\ [][Next]_vars

----------------------------------------------------------------------------
(* Properties *)

TypeOK ==
  /\ revision \in Revision
  /\ workerAt \in {"idle", "authority", "admit", "wake", "stopped"}
  /\ sending \in MessageType
  /\ oversized \in BOOLEAN
  /\ sizeSeen \in 0 .. Capacity
  /\ workerToQt \in Seq(MessageType)
  /\ Len(workerToQt) <= sizeSeen
  /\ rescanRevision \in Revision
  /\ pendingAuthority \in Revision
  /\ wakeSignaled \in BOOLEAN
  /\ receiveAt \in {"out", "exchange", "authority", "pop", "clear", "return"}
  /\ queuedTurn \in BOOLEAN
  /\ beforeRescan \in 0 .. Len(workerToQt) /\ surelySeen \in 0 .. Len(workerToQt)
  /\ received \in MessageType
  /\ resets \subseteq Revision
  /\ told \subseteq Revision
  /\ authorityTold \in Revision
  /\ overtaken \in Nat

Queued == {workerToQt[i] : i \in DOMAIN workerToQt}

(* A committed revision is never forgotten: until Qt has been told, it is  *)
(* in the worker's hands, in the queue, covered by the rescan word, or in  *)
(* the message tryReceiveForQt is about to return.                         *)
OnItsWay(r) ==
  \/ workerAt \in {"authority", "admit"} /\ sending.revision = r
  \/ \E m \in Queued : r \in Covers(m)
  \/ r <= rescanRevision
  \/ r \in Covers(received)

NothingForgotten == \A r \in 1 .. revision : r \in told \/ OnItsWay(r)

(* When Qt is told about a reset, directly or by a rescan that covers it,  *)
(* it is told the provider authority no later: otherwise it would keep     *)
(* presenting what belongs to the old provider as current.                 *)
AuthorityArrivesInTime ==
  /\ \A r \in resets \cap told : r <= authorityTold
  /\ receiveAt = "return" =>
       \A r \in resets \cap Covers(received) :
         r <= authorityTold \/ r <= received.authority

(* WorkerStopped finds room whatever was sent before: the reserved slot is *)
(* still free in the worker's own, possibly outdated, view of the queue.   *)
TerminalSlotFree == workerAt = "idle" => sizeSeen < Capacity

(* A rescan that arrives again and again cannot starve the queue: the head *)
(* of the queue is overtaken at most once by a rescan that came after it.  *)
HeadOvertakenOnce == overtaken <= 1
=============================================================================
