--------------------------- MODULE FrontendSession ---------------------------
(***************************************************************************)
(* The delivery of graph changes to the Qt thread and the retirement of    *)
(* removed nodes: src/codex/FrontendSession.cpp with its neighbours, the   *)
(* retired-node set of NodeGraph, the worker's publish and release, and    *)
(* the detach bookkeeping of ShellWidget.                                  *)
(*                                                                         *)
(* A send and a receive are one step each here; ThreadChannels takes them  *)
(* apart.  A change names the nodes it affects and the nodes it removes;   *)
(* one that names neither is about nodes outside Node.  Qt handlers may    *)
(* refuse a change because tryRead found the graph locked.  The budgets of *)
(* a drain pass (128 messages, 2 ms, 64 acknowledgements) may run out      *)
(* after any message.  A change affects no node it removes.                *)
(*                                                                         *)
(* Not here: ProtocolDiagnostic, which only takes queue room as any change *)
(* does; PromptMaterialized, which shares the acknowledgement queue; the   *)
(* split of a page by provider authority; handlers that throw; shutdown(). *)
(***************************************************************************)
EXTENDS Naturals, Sequences, FiniteSets, SequencesExt

CONSTANTS
  Node,         (* graph nodes that can be removed                          *)
  Capacity,     (* WorkerToQtCapacity                                       *)
  AckCapacity,  (* QtToWorkerCapacity                                       *)
  PageSize,     (* MaximumRetirementsPerPass                                *)
  MaxRevision,  (* bound: transactions the worker commits                   *)
  MaxDeferred   (* bound: changes deferred when a page is refused           *)

ASSUME NodeAssumption == IsFiniteSet(Node)
ASSUME CapacityAssumption == Capacity \in Nat /\ Capacity >= 2
ASSUME AckCapacityAssumption == AckCapacity \in Nat /\ AckCapacity >= 2
ASSUME PageAssumption == PageSize \in Nat \ {0}
ASSUME BoundsAssumption == MaxRevision \in Nat /\ MaxDeferred \in Nat \ {0}

VARIABLES
  (* NodeGraph *)
  revision,        (* revision_                                             *)
  live,            (* the nodes in nodes_                                   *)
  retired,         (* retiredNodes_                                         *)
  parentIndex,     (* Node::parentIndex_, of live nodes left at 0           *)
  orderGeneration, (* retiredOrderGeneration_                               *)
  (* the worker *)
  workerAt,        (* "idle", "send", "stopping", "finished"                *)
  sending,         (* the change committed and not yet sent                 *)
  (* ThreadChannels *)
  workerToQt, rescanRevision, wakeSignaled, queuedTurn,
  qtToWorker,      (* UiDetached actions on their way to the worker         *)
  (* FrontendSession *)
  drainAt,         (* where the Qt thread is in drainWorkerMessages         *)
  deferred,        (* deferredGraphChanges                                  *)
  collecting,      (* rescanRetirementPending                               *)
  scan,            (* retirementScanOffset and ...OrderGeneration           *)
  drainScheduled,  (* workerDrainScheduled                                  *)
  notifierEnabled, stopReported,
  acks,            (* pendingNodeAcknowledgements, all of them UiDetached   *)
  (* ShellWidget *)
  retained,        (* the nodes the panes hold                              *)
  routed,          (* pendingConversationItems and the like: nodes named by *)
                   (* a change that the next pane commit looks at, if live  *)
  pendingDetach,   (* pendingUiDetachments                                  *)
  shown            (* history: the revisions whose change was accepted      *)

graphVars == <<revision, live, retired, parentIndex, orderGeneration>>
workerVars == <<workerAt, sending>>
toQtVars == <<workerToQt, rescanRevision, wakeSignaled, queuedTurn>>
scanVars == <<collecting, scan>>
uiVars == <<retained, routed, pendingDetach, shown>>
sessionVars == <<drainAt, deferred, scanVars, drainScheduled,
                 notifierEnabled, stopReported, acks>>
vars == <<graphVars, workerVars, toQtVars, qtToWorker, sessionVars, uiVars>>

Message(type, r, affected, removed) ==
  [type |-> type, revision |-> r, affected |-> affected, removed |-> removed]

NoMessage == Message("none", 0, {}, {})

(* retirementScanGenerationKnown is FALSE *)
UnknownScan == [offset |-> 0, known |-> FALSE, generation |-> 0]

Init ==
  /\ revision = 0 /\ live = Node /\ retired = <<>>
  /\ parentIndex = [n \in Node |-> 0] /\ orderGeneration = 0
  /\ workerAt = "idle" /\ sending = NoMessage
  /\ workerToQt = <<>> /\ rescanRevision = 0
  /\ wakeSignaled = FALSE /\ queuedTurn = FALSE
  /\ qtToWorker = <<>>
  /\ drainAt = "out" /\ deferred = <<>>
  /\ collecting = FALSE /\ scan = UnknownScan
  /\ drainScheduled = FALSE /\ notifierEnabled = TRUE /\ stopReported = FALSE
  /\ acks = <<>>
  /\ retained \in SUBSET Node /\ routed = {}
  /\ pendingDetach = {} /\ shown = {}

Elements(s) == {s[i] : i \in DOMAIN s}

----------------------------------------------------------------------------
(* The worker *)

(* One write access that removes nodes (removeMany appends them to         *)
(* retiredNodes_ and keeps their index in parentIndex_) and changes others.*)
Commit(affected, removed) ==
  /\ workerAt = "idle"
  /\ revision < MaxRevision
  /\ affected \subseteq live \ removed /\ removed \subseteq live
  /\ revision' = revision + 1
  /\ live' = live \ removed
  /\ \E order \in SetToSeqs(removed) : retired' = retired \o order
  /\ parentIndex' = [n \in Node |->
       IF n \in removed
         THEN (CHOOSE i \in DOMAIN retired' : retired'[i] = n) - 1
         ELSE parentIndex[n]]
  /\ sending' = Message("change", revision + 1, affected, removed)
  /\ workerAt' = "send"
  /\ UNCHANGED <<orderGeneration, toQtVars, qtToWorker, sessionVars, uiVars>>

(* sendGraphChanged: too large a change, or a queue that looks full, is    *)
(* folded into the rescan word.  The wake may fail.                        *)
SendDirect ==
  /\ workerAt = "send"
  /\ Len(workerToQt) < Capacity - 1
  /\ workerToQt' = Append(workerToQt, sending)
  /\ wakeSignaled' \in {wakeSignaled, TRUE}
  /\ workerAt' = "idle" /\ sending' = NoMessage
  /\ UNCHANGED <<graphVars, rescanRevision, queuedTurn, qtToWorker, sessionVars, uiVars>>

SendCoalesced ==
  /\ workerAt = "send"
  /\ rescanRevision' = sending.revision
  /\ wakeSignaled' \in {wakeSignaled, TRUE}
  /\ workerAt' = "idle" /\ sending' = NoMessage
  /\ UNCHANGED <<graphVars, workerToQt, queuedTurn, qtToWorker, sessionVars, uiVars>>

(* sendWorkerStopped, then workerFinished. *)
SendWorkerStopped ==
  /\ workerAt = "idle"
  /\ workerToQt' = Append(workerToQt, Message("stopped", 0, {}, {}))
  /\ wakeSignaled' \in {wakeSignaled, TRUE}
  /\ workerAt' = "stopping"
  /\ UNCHANGED <<graphVars, sending, rescanRevision, queuedTurn, qtToWorker,
                 sessionVars, uiVars>>

FinishWorker ==
  /\ workerAt = "stopping"
  /\ workerAt' = "finished"
  /\ UNCHANGED <<graphVars, sending, toQtVars, qtToWorker, sessionVars, uiVars>>

(* releaseRetired of one node: the last retired node takes its place.  A   *)
(* node that is not where its index says is left alone.                    *)
IsRetiredAt(n, i) == i < Len(retired) /\ retired[i + 1] = n

ReleaseRetired(n) ==
  LET index == parentIndex[n]
      last == Last(retired)
  IN IF ~IsRetiredAt(n, index)
       THEN UNCHANGED <<retired, parentIndex, orderGeneration>>
       ELSE /\ retired' = Front([retired EXCEPT ![index + 1] = last])
            /\ parentIndex' = [parentIndex EXCEPT ![last] = index, ![n] = 0]
            /\ orderGeneration' = orderGeneration + 1

(* dispatchNodeAction of UiDetached: WorkerLogic::acknowledgeUiDetached.   *)
(* The transaction is not dirty and so sends nothing.                      *)
Acknowledged ==
  /\ workerAt = "idle"
  /\ qtToWorker # <<>>
  /\ ReleaseRetired(Head(qtToWorker))
  /\ qtToWorker' = Tail(qtToWorker)
  /\ UNCHANGED <<revision, live, workerVars, toQtVars, sessionVars, uiVars>>

----------------------------------------------------------------------------
(* ShellWidget *)

(* queueRetirementAcknowledgements, which drops repetitions; the order is  *)
(* that of a hash table.                                                   *)
QueueAcks(nodes) ==
  \E order \in SetToSeqs(nodes \ Elements(acks)) : acks' = acks \o order

(* Mutant: the acknowledgements queued here wait for another pass.         *)
AcknowledgeUnscheduled(detaching) ==
  LET detached == detaching \ (retained' \cup routed')
  IN /\ pendingDetach' = detaching \ detached
     /\ QueueAcks(detached)
     /\ UNCHANGED drainScheduled

(* Mutant: what a pane still holds is dropped from pendingUiDetachments.   *)
AcknowledgeOrForget(detaching) ==
  LET detached == detaching \ (retained' \cup routed')
  IN /\ pendingDetach' = {}
     /\ QueueAcks(detached)
     /\ drainScheduled' = (drainScheduled \/ detached # {})

(* acknowledgeDetachedTargets once pendingUiDetachments is detaching; a    *)
(* node in retained or routed is one of uiRetainsTarget.                   *)
AcknowledgeDetached(detaching) ==
  LET detached == detaching \ (retained' \cup routed')
  IN /\ pendingDetach' = detaching \ detached
     /\ QueueAcks(detached)
     /\ drainScheduled' = (drainScheduled \/ detached # {})

(* A pane binds a node it finds in the graph. *)
UiBind(n) ==
  /\ drainAt = "out"
  /\ n \in live \ retained
  /\ retained' = retained \cup {n}
  /\ UNCHANGED <<graphVars, workerVars, toQtVars, qtToWorker, sessionVars,
                 routed, pendingDetach, shown>>

(* commitPendingPanes: the panes let go of a node. *)
UiRelease(n) ==
  /\ drainAt = "out"
  /\ n \in retained \cup routed
  /\ retained' = retained \ {n}
  /\ routed' = routed \ {n}
  /\ AcknowledgeDetached(pendingDetach)
  /\ UNCHANGED <<graphVars, workerVars, toQtVars, qtToWorker, drainAt,
                 deferred, scanVars, notifierEnabled, stopReported, shown>>

(* The part of handleGraphChanged that touches nodes: what a change names  *)
(* may be put on the list of the next pane commit, even when it is retired *)
(* by now, and a removed thread that is shown is unbound at once.          *)
TakeNotice(affected, removed) ==
  /\ \E named \in SUBSET (affected \cup removed) : routed' = routed \cup named
  /\ \E unbound \in SUBSET (retained \cap removed) : retained' = retained \ unbound
  /\ AcknowledgeDetached(pendingDetach \cup removed)

(* handleGraphChanged accepting a change. *)
HandlerAccepts(change) ==
  /\ shown' = shown \cup
       (CASE change.type = "change" -> {change.revision}
          [] change.type = "rescan" -> 1 .. change.revision
          [] change.type = "retirement" -> {})
  /\ TakeNotice(change.affected, change.removed)

----------------------------------------------------------------------------
(* FrontendSession::drainWorkerMessages *)

(* Mutant: the timer forgets the rescan word. *)
TimerWatchesQueueOnly == workerToQt # <<>> \/ workerAt = "finished"

(* The 100 ms recovery timer only drains when there may be work.           *)
TimerWantsDrain ==
  workerToQt # <<>> \/ rescanRevision # 0 \/ workerAt = "finished"

(* The notifier, the recovery timer or the pass that was scheduled.        *)
DrainTriggered ==
  \/ /\ (notifierEnabled /\ wakeSignaled) \/ TimerWantsDrain
     /\ UNCHANGED drainScheduled
  \/ drainScheduled /\ drainScheduled' = FALSE

BeginDrain ==
  /\ drainAt = "out"
  /\ DrainTriggered
  /\ wakeSignaled' = FALSE
  /\ drainAt' = IF collecting THEN "collect" ELSE "loop"
  /\ UNCHANGED <<graphVars, workerVars, workerToQt, rescanRevision, queuedTurn,
                 qtToWorker, deferred, scanVars, notifierEnabled,
                 stopReported, acks, uiVars>>

(* The eventfd cannot be read. *)
BeginDrainFails ==
  /\ drainAt = "out"
  /\ DrainTriggered
  /\ notifierEnabled' = FALSE
  /\ stopReported' = TRUE
  /\ UNCHANGED <<graphVars, workerVars, toQtVars, qtToWorker, drainAt,
                 deferred, scanVars, acks, uiVars>>

(* Where a pass goes after a message: a deferred change ends it, and so    *)
(* may a budget.                                                           *)
AfterMessage(stillDeferred) ==
  IF stillDeferred # <<>> THEN {"finish"} ELSE {"loop", "finish"}

(* requireRescanRetirementCollection, for a rescan. *)
AfterRescan ==
  /\ collecting' = TRUE
  /\ scan' = IF collecting THEN scan ELSE UnknownScan
  /\ drainAt' = "collectAfter"

(* The message is handled while rest remains deferred.  The handler may    *)
(* find the graph locked; then the change goes back to the front, and a    *)
(* rescan collects all the same.                                           *)
Accepted(message, rest) ==
  /\ HandlerAccepts(message)
  /\ deferred' = rest
  /\ IF message.type = "rescan"
       THEN AfterRescan
       ELSE drainAt' \in AfterMessage(rest) /\ UNCHANGED <<collecting, scan>>
  /\ UNCHANGED stopReported

Refused(message, rest) ==
  /\ deferred' = <<message>> \o rest
  /\ IF message.type = "rescan"
       THEN AfterRescan
       ELSE drainAt' = "finish" /\ UNCHANGED <<collecting, scan>>
  /\ UNCHANGED <<drainScheduled, stopReported, acks, uiVars>>

(* deliverFilesystem could not read the graph or send: the handler is not  *)
(* called and a rescan does not collect.                                   *)
FilesystemRefused(message, rest) ==
  /\ deferred' = <<message>> \o rest
  /\ drainAt' = "finish"
  /\ UNCHANGED <<collecting, scan, drainScheduled, stopReported, acks, uiVars>>

(* WorkerStopped. *)
Stopped(message, rest) ==
  /\ message.type = "stopped"
  /\ deferred' = rest
  /\ stopReported' = TRUE
  /\ drainAt' \in AfterMessage(rest)
  /\ UNCHANGED <<collecting, scan, drainScheduled, acks, uiVars>>

HandleAccepted(message, rest) ==
  message.type # "stopped" /\ Accepted(message, rest)

Handle(message, rest) ==
  \/ Stopped(message, rest)
  \/ HandleAccepted(message, rest)
  \/ message.type # "stopped" /\ Refused(message, rest)
  \/ message.type # "stopped" /\ FilesystemRefused(message, rest)

(* The front of deferredGraphChanges, when there is one. *)
HandleDeferred ==
  /\ drainAt = "loop"
  /\ deferred # <<>>
  /\ Handle(Head(deferred), Tail(deferred))
  /\ UNCHANGED <<graphVars, workerVars, toQtVars, qtToWorker, notifierEnabled>>

(* Otherwise tryReceiveForQt, returning the rescan ... *)
HandleRescan ==
  /\ drainAt = "loop" /\ deferred = <<>>
  /\ rescanRevision # 0
  /\ ~queuedTurn \/ workerToQt = <<>>
  /\ rescanRevision' = 0
  /\ queuedTurn' = TRUE
  /\ Handle(Message("rescan", rescanRevision, {}, {}), <<>>)
  /\ UNCHANGED <<graphVars, workerVars, workerToQt, wakeSignaled, qtToWorker,
                 notifierEnabled>>

(* ... or a queued message ... *)
HandleQueued ==
  /\ drainAt = "loop" /\ deferred = <<>>
  /\ workerToQt # <<>>
  /\ queuedTurn \/ rescanRevision = 0
  /\ workerToQt' = Tail(workerToQt)
  /\ queuedTurn' = FALSE
  /\ Handle(Head(workerToQt), <<>>)
  /\ UNCHANGED <<graphVars, workerVars, rescanRevision, wakeSignaled, qtToWorker,
                 notifierEnabled>>

(* ... or nothing. *)
ReceiveNothing ==
  /\ drainAt = "loop" /\ deferred = <<>>
  /\ workerToQt = <<>> /\ rescanRevision = 0
  /\ queuedTurn' = FALSE
  /\ drainAt' = "finish"
  /\ UNCHANGED <<graphVars, workerVars, workerToQt, rescanRevision, wakeSignaled,
                 qtToWorker, deferred, scanVars, drainScheduled, notifierEnabled,
                 stopReported, acks, uiVars>>

----------------------------------------------------------------------------
(* collectRescanRetirements, called when a pass begins ("collect") and     *)
(* after a rescan ("collectAfter")                                         *)

AfterCollect(stillDeferred) ==
  IF drainAt = "collect" THEN {"loop"} ELSE AfterMessage(stillDeferred)

CollectLocked ==
  /\ drainAt \in {"collect", "collectAfter"}
  /\ drainScheduled' = TRUE
  /\ drainAt' \in AfterCollect(deferred)
  /\ UNCHANGED <<graphVars, workerVars, toQtVars, qtToWorker, deferred, scanVars,
                 notifierEnabled, stopReported, acks, uiVars>>

(* Mutant: the order of retiredNodes_ is taken to be stable. *)
ScanOffsetIgnoringOrder == Min({scan.offset, Len(retired)})

(* Where the page begins: another order of retiredNodes_ begins the scan   *)
(* anew.                                                                   *)
ScanOffset ==
  IF scan.known /\ scan.generation = orderGeneration
    THEN Min({scan.offset, Len(retired)})
    ELSE 0

PageEnd == Min({Len(retired), ScanOffset + PageSize})
Page == Elements(SubSeq(retired, ScanOffset + 1, PageEnd))

(* The next page has been read; the scan goes on behind it or is over.     *)
PageRead ==
  /\ drainAt \in {"collect", "collectAfter"}
  /\ collecting' = (PageEnd # Len(retired))
  /\ scan' = IF PageEnd = Len(retired)
               THEN UnknownScan
               ELSE [offset |-> PageEnd, known |-> TRUE, generation |-> orderGeneration]

(* The handler accepts the page; an empty page asks nothing of it.         *)
CollectAccepted ==
  /\ PageRead
  /\ TakeNotice({}, Page)
  /\ drainAt' \in AfterCollect(deferred)
  /\ UNCHANGED <<graphVars, workerVars, toQtVars, qtToWorker, deferred,
                 notifierEnabled, stopReported, shown>>

CollectRefused ==
  /\ PageRead
  /\ Page # {}
  /\ Len(deferred) < MaxDeferred
  /\ deferred' = Append(deferred, Message("retirement", 0, {}, Page))
  /\ drainAt' \in AfterCollect(deferred')
  /\ UNCHANGED <<graphVars, workerVars, toQtVars, qtToWorker, drainScheduled,
                 notifierEnabled, stopReported, acks, uiVars>>

----------------------------------------------------------------------------
(* The end of a pass *)

(* Mutant: older queued changes are not waited for. *)
CollectionDone == ~collecting

(* graphDeliveryQuiescent *)
Quiescent ==
  /\ deferred = <<>> /\ workerToQt = <<>> /\ rescanRevision = 0
  /\ ~collecting

FinishBusy ==
  /\ drainAt = "finish"
  /\ ~Quiescent
  /\ stopReported' = (stopReported \/ workerAt = "finished")
  /\ drainScheduled' = TRUE
  /\ drainAt' = "out"
  /\ UNCHANGED <<graphVars, workerVars, toQtVars, qtToWorker, deferred,
                 scanVars, notifierEnabled, acks, uiVars>>

FinishQuiescent ==
  /\ drainAt = "finish"
  /\ Quiescent
  /\ drainAt' = "flush"
  /\ UNCHANGED <<graphVars, workerVars, toQtVars, qtToWorker, deferred,
                 scanVars, drainScheduled, notifierEnabled, stopReported, acks, uiVars>>

(* flushNodeAcknowledgements sends the last one first. *)
FlushOne ==
  /\ drainAt = "flush"
  /\ acks # <<>>
  /\ Len(qtToWorker) < AckCapacity - 1
  /\ qtToWorker' = Append(qtToWorker, Last(acks))
  /\ acks' = Front(acks)
  /\ drainAt' \in {"flush", "flushed"}
  /\ UNCHANGED <<graphVars, workerVars, toQtVars, deferred, scanVars,
                 drainScheduled, notifierEnabled, stopReported, uiVars>>

FlushEnd ==
  /\ \/ drainAt = "flushed"
     \/ drainAt = "flush" /\ (acks = <<>> \/ Len(qtToWorker) >= AckCapacity - 1)
  /\ stopReported' = (stopReported \/ workerAt = "finished")
  /\ drainScheduled' = (drainScheduled \/ acks # <<>>)
  /\ drainAt' = "out"
  /\ UNCHANGED <<graphVars, workerVars, toQtVars, qtToWorker, deferred,
                 scanVars, notifierEnabled, acks, uiVars>>

----------------------------------------------------------------------------
WorkerContinues == SendDirect \/ SendCoalesced \/ FinishWorker \/ Acknowledged

WorkerStep ==
  \/ \E removed \in SUBSET live : \E affected \in SUBSET (live \ removed) :
       Commit(affected, removed)
  \/ SendWorkerStopped
  \/ WorkerContinues

UiStep == \E n \in Node : UiBind(n) \/ UiRelease(n)

PassStep ==
  \/ HandleDeferred \/ HandleRescan \/ HandleQueued \/ ReceiveNothing
  \/ CollectLocked \/ CollectAccepted \/ CollectRefused
  \/ FinishBusy \/ FinishQuiescent \/ FlushOne \/ FlushEnd

(* The handler accepts what it is given. *)
HandlerReads ==
  /\ HandleDeferred \/ HandleRescan \/ HandleQueued
  /\ Len(deferred') < Len(deferred) \/ deferred' = <<>>

QtStep == BeginDrain \/ BeginDrainFails \/ PassStep \/ UiStep

Next == WorkerStep \/ QtStep

(* Both event loops keep running, a pane that shows a removed node is      *)
(* reconciled some day, and tryRead, retried every millisecond, does not   *)
(* find the graph locked every time: the worker holds the lock for one     *)
(* transaction at a time.  Nothing is assumed of wakes, of new             *)
(* transactions, of the end of the worker, or of the panes otherwise.      *)
Fairness ==
  /\ WF_vars(WorkerContinues)
  /\ WF_vars(BeginDrain \/ BeginDrainFails)
  /\ WF_vars(PassStep)
  /\ SF_vars(HandlerReads) /\ SF_vars(CollectAccepted)
  /\ \A n \in Node : WF_vars(n \in pendingDetach /\ UiRelease(n))

Spec == Init /\ [][Next]_vars

FairSpec == Spec /\ Fairness

----------------------------------------------------------------------------
(* Properties *)

(* What a pane holds is readable, so a retired node leaves the graph only  *)
(* when none does; and the nodes a change on its way to the Qt handler     *)
(* affects are readable when it arrives, although a rescan that overtakes  *)
(* the change may have told Qt already that they were removed.  A node     *)
(* that is only routed may be gone when the pane commit looks at it.       *)
OnTheirWay ==
  Elements(workerToQt) \cup Elements(deferred) \cup {sending}

AffectedReadable ==
  /\ retained \subseteq live \cup Elements(retired)
  /\ \A m \in OnTheirWay : m.affected \subseteq live \cup Elements(retired)

(* A retired node is never lost from sight: its removal is on its way to   *)
(* Qt, or a scan of the retired nodes is due that still has it ahead, or   *)
(* the UI has been told and owes or has sent the acknowledgement.          *)
ScanAhead(n) ==
  collecting /\ \E i \in (ScanOffset + 1) .. Len(retired) : retired[i] = n

RetirementTracked ==
  \A n \in Elements(retired) :
    \/ \E m \in OnTheirWay : n \in m.removed \/ m.type = "rescan"
    \/ rescanRevision # 0
    \/ ScanAhead(n)
    \/ n \in pendingDetach \cup Elements(acks) \cup Elements(qtToWorker)

(* Every committed revision is shown some day, by its own change or by a   *)
(* rescan, however many wakes fail, unless Qt was told that the runtime    *)
(* has stopped; and the end of the worker is reported, wake or not.        *)
EverythingIsDelivered ==
  /\ \A r \in 1 .. MaxRevision : revision >= r ~> r \in shown \/ stopReported
  /\ workerAt = "finished" ~> stopReported

(* A retired node is released some day, even one whose removal Qt only     *)
(* learns of from a rescan; unless the worker stops first.                 *)
RetiredIsReleased ==
  \A n \in Node :
    n \in Elements(retired)
      ~> \/ n \notin Elements(retired)
         \/ stopReported \/ workerAt \in {"stopping", "finished"}
=============================================================================
