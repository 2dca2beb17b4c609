-------------------------- MODULE MCWorkerMailbox --------------------------
(***************************************************************************)
(* What Qt sends to the worker, in scenes that share a run.  "mailbox": a  *)
(* queue of three slots, one reserved, and four user actions, so that it   *)
(* fills up and empties more than once.  "retries": two responses to each  *)
(* of two requests under one id.  "reuse": one response to each of three,  *)
(* by a frontend that controls whatever is ready.  Requests are alike, so  *)
(* they come in one order.  The part a scene is not about stands still: a  *)
(* mailbox that was closed, a worker that never connected.                 *)
(***************************************************************************)
EXTENDS WorkerMailbox, ServerRequests

CONSTANTS first, second, third
VARIABLE scene

MCRequests == {first, second, third}
MCIdOf == [r \in MCRequests |-> first]

Closed ==
  /\ qtToWorker = <<>> /\ sizeSeen = 0 /\ wakeSignaled = FALSE
  /\ sessionAt = "closed" /\ admitted = 0
  /\ receiverAt = "idle" /\ drainScheduled = FALSE /\ closing = TRUE
  /\ stopRequested = TRUE /\ workerFinished = TRUE
  /\ handled = <<>> /\ shutdownHandled = FALSE
MCInit == /\ RequestInit
          /\ \/ scene = "mailbox" /\ Init
             \/ scene \in {"retries", "reuse"} /\ Closed
MCNext ==
  /\ UNCHANGED scene
  /\ \/ Next /\ UNCHANGED requestVars
     \/ /\ RequestNext /\ UNCHANGED vars
        /\ node'[second] # "absent" => node[first] # "absent"
        /\ node'[third] # "absent" => node[second] # "absent"
        /\ \/ scene = "retries" /\ node'[third] = "absent"
           \/ scene = "reuse" /\ controller' = ready' /\ \A r \in Requests : authored'[r] < MaxAuthored
MCSpec == MCInit /\ [][MCNext]_<<vars, scene, requestVars>> /\ Fairness /\ RequestFairness
============================================================================
