---------------------------- MODULE BoundedFifo ----------------------------
(***************************************************************************)
(* What one direction of the mailbox between the Qt thread and the SNode.C *)
(* worker promises: a FIFO of at most Capacity messages with one producer  *)
(* and one consumer.  Every call of the queue is one step.                 *)
(***************************************************************************)
EXTENDS Naturals, Sequences

CONSTANTS
  Capacity,   (* number of messages the queue can hold      *)
  Message     (* the messages                               *)

VARIABLES
  queue,      (* admitted messages not yet handed out, oldest first *)
  delivered   (* the message the last successful pop handed out     *)

fifoVars == <<queue, delivered>>

FifoInit ==
  /\ queue = <<>>
  /\ delivered \notin Message

(* tryPush and tryEmplace returning true. *)
Push(m) ==
  /\ Len(queue) < Capacity
  /\ queue' = Append(queue, m)
  /\ UNCHANGED delivered

(* tryPop returning true. *)
Pop ==
  /\ queue # <<>>
  /\ delivered' = Head(queue)
  /\ queue' = Tail(queue)

FifoNext == Pop \/ \E m \in Message : Push(m)

FifoSpec == FifoInit /\ [][FifoNext]_fifoVars
============================================================================
