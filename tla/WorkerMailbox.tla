---------------------------- MODULE WorkerMailbox ----------------------------
(***************************************************************************)
(* The direction from the Qt thread to the SNode.C worker and the end of   *)
(* both: the sends of src/codex/nodegraph/ThreadChannels.cpp,              *)
(* src/codex/WorkerMailboxReceiver.cpp and FrontendSession::shutdown.      *)
(*                                                                         *)
(* Node and runtime actions are numbered in the order in which Qt sends    *)
(* them.  What an action does is not modelled; its handler may throw.  The *)
(* SNode.C event loop is external: it runs read events, timeouts and next  *)
(* ticks one at a time, and after a stop it shuts the receiver down and    *)
(* returns.  Either thread may see the other's progress in the queue late. *)
(***************************************************************************)
EXTENDS Naturals, Sequences

CONSTANTS
  Capacity,     (* QtToWorkerCapacity                  *)
  MaxActions    (* bound: actions the user sends       *)

ASSUME CapacityAssumption == Capacity \in Nat /\ Capacity >= 2
ASSUME MaxActionsAssumption == MaxActions \in Nat

VARIABLES
  qtToWorker,     (* the queue: action numbers and ShutdownRequest         *)
  sizeSeen,       (* its size as Qt saw it last, with its own pushes added *)
  wakeSignaled,   (* the eventfd's counter is not zero                     *)
  sessionAt,      (* "open", or where shutdown() is                        *)
  admitted,       (* history: the number of actions admitted               *)
  receiverAt,     (* "idle" or in consumeWakeAndMessages                   *)
  drainScheduled, (* drainScheduled_                                       *)
  closing,        (* closing_                                              *)
  stopRequested,  (* the worker's event loop has been told to stop         *)
  workerFinished, (* FrontendSession::workerFinished                       *)
  handled,        (* history: the numbers of the actions handled           *)
  shutdownHandled (* history: ShutdownRequest reached the worker           *)

qtVars == <<sizeSeen, sessionAt, admitted>>
workerVars == <<receiverAt, drainScheduled, closing, stopRequested,
                workerFinished, handled, shutdownHandled>>
vars == <<qtToWorker, wakeSignaled, qtVars, workerVars>>

ShutdownRequest == 0

Init ==
  /\ qtToWorker = <<>> /\ sizeSeen = 0 /\ wakeSignaled = FALSE
  /\ sessionAt = "open" /\ admitted = 0
  /\ receiverAt = "idle" /\ drainScheduled = FALSE /\ closing = FALSE
  /\ stopRequested = FALSE /\ workerFinished = FALSE
  /\ handled = <<>> /\ shutdownHandled = FALSE

----------------------------------------------------------------------------
(* The Qt thread *)

(* What Qt may see of the queue size: it may lag behind the worker's pops. *)
SizesApprox == Len(qtToWorker) .. sizeSeen

(* tryEmplace followed by wakeQtToWorker, whose write may fail.            *)
Push(payload, size) ==
  /\ qtToWorker' = Append(qtToWorker, payload)
  /\ sizeSeen' = size + 1
  /\ wakeSignaled' \in {wakeSignaled, TRUE}

(* The last slot is kept for ShutdownRequest. *)
HasRoomForAction(size) == size < Capacity - 1

(* sendNodeAction and sendRuntimeAction; a refusal leaves everything as it *)
(* was.                                                                    *)
SendAction ==
  /\ sessionAt = "open" /\ ~workerFinished
  /\ admitted < MaxActions
  /\ \E size \in SizesApprox :
       HasRoomForAction(size) /\ Push(admitted + 1, size)
  /\ admitted' = admitted + 1
  /\ UNCHANGED <<sessionAt, workerVars>>

(* shutdown() *)
BeginShutdown ==
  /\ sessionAt = "open"
  /\ sessionAt' = "stopping"
  /\ UNCHANGED <<qtToWorker, wakeSignaled, sizeSeen, admitted, workerVars>>

(* Mutant: the request overtakes the actions. *)
SendShutdownFirst ==
  /\ sessionAt = "stopping" /\ ~workerFinished
  /\ \E size \in SizesApprox : size # Capacity /\ sizeSeen' = size + 1
  /\ qtToWorker' = <<ShutdownRequest>> \o qtToWorker
  /\ wakeSignaled' \in {wakeSignaled, TRUE}
  /\ sessionAt' = "joining"
  /\ UNCHANGED <<admitted, workerVars>>

(* One turn of the loop around sendShutdown that ends it; a refused turn   *)
(* changes nothing but the view of the queue.                              *)
SendShutdown ==
  /\ sessionAt = "stopping" /\ ~workerFinished
  /\ \E size \in SizesApprox : size # Capacity /\ Push(ShutdownRequest, size)
  /\ sessionAt' = "joining"
  /\ UNCHANGED <<admitted, workerVars>>

(* Mutant: the actions left in the queue are waited for. *)
SkipShutdownWhenDrained ==
  /\ sessionAt = "stopping" /\ workerFinished
  /\ qtToWorker = <<>>
  /\ sessionAt' = "joining"
  /\ UNCHANGED <<qtToWorker, wakeSignaled, sizeSeen, admitted, workerVars>>

(* The worker finished on its own. *)
SkipShutdown ==
  /\ sessionAt = "stopping" /\ workerFinished
  /\ sessionAt' = "joining"
  /\ UNCHANGED <<qtToWorker, wakeSignaled, sizeSeen, admitted, workerVars>>

Join ==
  /\ sessionAt = "joining" /\ workerFinished
  /\ sessionAt' = "closed"
  /\ UNCHANGED <<qtToWorker, wakeSignaled, sizeSeen, admitted, workerVars>>

----------------------------------------------------------------------------
(* WorkerMailboxReceiver *)

Listening == receiverAt = "idle" /\ ~closing /\ ~workerFinished

(* fail(): close() and the failure handler, which requests the shutdown of *)
(* the runtime.                                                            *)
Fail ==
  /\ closing' = TRUE /\ drainScheduled' = FALSE
  /\ stopRequested' = TRUE
  /\ receiverAt' = "idle"

ReadEvent ==
  /\ Listening /\ wakeSignaled
  /\ wakeSignaled' = FALSE
  /\ receiverAt' = "consuming"
  /\ UNCHANGED <<qtToWorker, qtVars, drainScheduled, closing, stopRequested,
                 workerFinished, handled, shutdownHandled>>

ReadEventFails ==
  /\ Listening /\ wakeSignaled
  /\ Fail
  /\ UNCHANGED <<qtToWorker, wakeSignaled, qtVars, workerFinished, handled,
                 shutdownHandled>>

(* Mutant: the timeout only looks after a drain that is scheduled.         *)
ReadTimeoutIfScheduled ==
  /\ Listening /\ ~wakeSignaled
  /\ qtToWorker # <<>> /\ drainScheduled
  /\ receiverAt' = "consuming"
  /\ UNCHANGED <<qtToWorker, wakeSignaled, qtVars, drainScheduled, closing,
                 stopRequested, workerFinished, handled, shutdownHandled>>

(* readTimeout, every 100 ms while the eventfd is silent.                  *)
ReadTimeout ==
  /\ Listening /\ ~wakeSignaled
  /\ qtToWorker # <<>>
  /\ receiverAt' = "consuming"
  /\ UNCHANGED <<qtToWorker, wakeSignaled, qtVars, drainScheduled, closing,
                 stopRequested, workerFinished, handled, shutdownHandled>>

(* The tick scheduleNextDrain asked for. *)
NextTick ==
  /\ Listening /\ drainScheduled
  /\ drainScheduled' = FALSE
  /\ receiverAt' = "consuming"
  /\ UNCHANGED <<qtToWorker, wakeSignaled, qtVars, closing, stopRequested,
                 workerFinished, handled, shutdownHandled>>

(* The end of consumeWakeAndMessages: tryPop finds nothing, or does not    *)
(* see yet what there is, or the budget of MaximumMessagesPerEvent is      *)
(* spent, which may be after any message.                                  *)
ConsumeNothing ==
  /\ receiverAt = "consuming"
  /\ receiverAt' = "idle"
  /\ UNCHANGED <<qtToWorker, wakeSignaled, qtVars, drainScheduled, closing,
                 stopRequested, workerFinished, handled, shutdownHandled>>

AfterMessage ==
  \/ receiverAt' = "consuming" /\ UNCHANGED drainScheduled
  \/ receiverAt' = "idle" /\ UNCHANGED drainScheduled
  \/ receiverAt' = "idle" /\ qtToWorker' # <<>> /\ drainScheduled' = TRUE

Consuming == receiverAt = "consuming" /\ qtToWorker # <<>>

ConsumeAction ==
  /\ Consuming /\ Head(qtToWorker) # ShutdownRequest
  /\ qtToWorker' = Tail(qtToWorker)
  /\ handled' = Append(handled, Head(qtToWorker))
  /\ AfterMessage
  /\ UNCHANGED <<wakeSignaled, qtVars, closing, stopRequested, workerFinished,
                 shutdownHandled>>

(* The handler throws. *)
ConsumeThrows ==
  /\ Consuming
  /\ qtToWorker' = Tail(qtToWorker)
  /\ Fail
  /\ UNCHANGED <<wakeSignaled, qtVars, workerFinished, handled, shutdownHandled>>

(* requestShutdown in ClientRuntime. *)
ConsumeShutdown ==
  /\ Consuming /\ Head(qtToWorker) = ShutdownRequest
  /\ qtToWorker' = Tail(qtToWorker)
  /\ shutdownHandled' = TRUE
  /\ stopRequested' = TRUE
  /\ AfterMessage
  /\ UNCHANGED <<wakeSignaled, qtVars, closing, workerFinished, handled>>

(* The runtime stops for a reason of its own: no usable transport, a       *)
(* failed bridge, a signal.                                                *)
RuntimeFails ==
  /\ ~stopRequested
  /\ receiverAt = "idle"
  /\ stopRequested' = TRUE
  /\ UNCHANGED <<qtToWorker, wakeSignaled, qtVars, receiverAt, drainScheduled,
                 closing, workerFinished, handled, shutdownHandled>>

(* shutdownEvent: close(). *)
ShutdownEvent ==
  /\ stopRequested /\ receiverAt = "idle" /\ ~closing
  /\ closing' = TRUE /\ drainScheduled' = FALSE
  /\ UNCHANGED <<qtToWorker, wakeSignaled, qtVars, receiverAt, stopRequested,
                 workerFinished, handled, shutdownHandled>>

(* runClientRuntime returns. *)
FinishWorker ==
  /\ stopRequested /\ closing /\ ~workerFinished
  /\ workerFinished' = TRUE
  /\ UNCHANGED <<qtToWorker, wakeSignaled, qtVars, receiverAt, drainScheduled,
                 closing, stopRequested, handled, shutdownHandled>>

----------------------------------------------------------------------------
ShutdownStep == SendShutdown \/ SkipShutdown \/ Join
QtStep == SendAction \/ BeginShutdown \/ ShutdownStep

ConsumeMessage == ConsumeAction \/ ConsumeThrows \/ ConsumeShutdown
ConsumeStep == ConsumeNothing \/ ConsumeMessage
StopStep == ShutdownEvent \/ FinishWorker
WorkerStep ==
  \/ ReadEvent \/ ReadEventFails \/ ReadTimeout \/ NextTick
  \/ ConsumeStep \/ RuntimeFails \/ StopStep

(* Everything is over. *)
Ended == sessionAt = "closed" /\ UNCHANGED vars

Next == QtStep \/ WorkerStep \/ Ended

(* The Qt thread carries on with a shutdown it has begun; the worker's     *)
(* event loop runs, its 100 ms timer included, and stops when told to; it  *)
(* does not fail for ever to see a message that was queued.  Nothing is    *)
(* assumed of wakes, of failures, or of the user.                          *)
Fairness ==
  /\ WF_vars(ShutdownStep)
  /\ WF_vars(ReadEvent \/ ReadEventFails \/ ReadTimeout)
  /\ WF_vars(ConsumeStep) /\ SF_vars(ConsumeMessage)
  /\ WF_vars(StopStep)

Spec == Init /\ [][Next]_vars /\ Fairness

----------------------------------------------------------------------------
(* Properties *)

(* When ShutdownRequest reaches the worker, every action admitted before   *)
(* it has been handled, once and in the order of admission: quitting loses *)
(* nothing the user was told is under way.                                 *)
NothingLostByShutdown ==
  shutdownHandled => handled = [i \in 1 .. admitted |-> i]

(* An admitted action is handled some day, even if its wake failed, unless *)
(* the worker is told to stop.                                             *)
EveryActionHandled ==
  \A k \in 1 .. MaxActions : admitted >= k ~> Len(handled) >= k \/ stopRequested

(* shutdown() returns: neither a failed wake, a dead mailbox receiver nor  *)
(* a worker that stops at the same time leaves it waiting.                 *)
ShutdownCompletes == sessionAt = "stopping" ~> sessionAt = "closed"
=============================================================================
