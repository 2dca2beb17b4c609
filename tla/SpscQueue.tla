----------------------------- MODULE SpscQueue -----------------------------
(***************************************************************************)
(* src/codex/nodegraph/SpscQueue.h: the lock-free single-producer single-  *)
(* consumer ring behind both mailbox directions.                           *)
(*                                                                         *)
(* Positions run through 0 .. 2*Capacity-1, so that a full and an empty    *)
(* ring differ.  Each call is split at its accesses of shared memory.  An  *)
(* acquire load of the position owned by the other thread may return any   *)
(* value of its modification order that is not older than the one this     *)
(* thread read last: C++ promises coherence, not freshness.                *)
(***************************************************************************)
EXTENDS Naturals, Sequences

CONSTANTS
  Capacity,   (* the template argument                       *)
  Message,    (* values of T                                 *)
  Empty       (* a disengaged std::optional<T>               *)

(* static_assert(Capacity > 0); Empty stands for no value of T. *)
ASSUME CapacityAssumption == Capacity \in Nat \ {0}
ASSUME EmptyAssumption == Empty \notin Message

VARIABLES
  producer,     (* producer_.position                                   *)
  consumer,     (* consumer_.position                                   *)
  slots,        (* slots_                                               *)
  producerAt,   (* where the producer thread is in tryPush / tryEmplace *)
  consumerSeen, (* the consumer position the producer thread last read  *)
  pushing,      (* the message of the push under way                    *)
  roomSeen,     (* sizeApprox told the producer there is room, and it   *)
                (* has not pushed since                                 *)
  consumerAt,   (* where the consumer thread is in tryPop               *)
  producerSeen, (* the producer position the consumer thread last read  *)
  popping,      (* the value moved out by the pop under way             *)
  delivered     (* the value the last successful pop handed out         *)

producerVars == <<producer, producerAt, consumerSeen, pushing, roomSeen>>
consumerVars == <<consumer, consumerAt, producerSeen, popping, delivered>>
vars == <<producerVars, consumerVars, slots>>

CycleSize == 2 * Capacity
Position == 0 .. CycleSize - 1

(* Mutant: a wrap after one lap. *)
AdvanceAtCapacity(position) == IF position + 1 = Capacity THEN 0 ELSE position + 1

Advance(position) == IF position + 1 = CycleSize THEN 0 ELSE position + 1

SlotIndex(position) ==
  IF position < Capacity THEN position ELSE position - Capacity

Distance(from, to) == IF to >= from THEN to - from ELSE (CycleSize - from) + to

(* The values a coherent load may return when the thread last read seen    *)
(* and the position has meanwhile advanced to current.                     *)
LoadResults(seen, current) ==
  {p \in Position : Distance(seen, p) <= Distance(seen, current)}

Init ==
  /\ producer = 0 /\ consumer = 0
  /\ slots = [i \in 0 .. Capacity - 1 |-> Empty]
  /\ producerAt = "idle" /\ consumerSeen = 0 /\ pushing = Empty
  /\ roomSeen = FALSE
  /\ consumerAt = "idle" /\ producerSeen = 0 /\ popping = Empty
  /\ delivered = Empty

----------------------------------------------------------------------------
(* tryPush and tryEmplace *)

(* Mutant: the full check accepts one message too many. *)
PushLoadWhenFull(m) ==
  /\ producerAt = "idle"
  /\ \E seen \in LoadResults(consumerSeen, consumer) : consumerSeen' = seen
  /\ pushing' = m
  /\ producerAt' = "emplace"
  /\ UNCHANGED <<producer, roomSeen, consumerVars, slots>>

PushLoad(m) ==
  /\ producerAt = "idle"
  /\ \E seen \in LoadResults(consumerSeen, consumer) :
       /\ Distance(seen, producer) # Capacity
       /\ consumerSeen' = seen
  /\ pushing' = m
  /\ producerAt' = "emplace"
  /\ UNCHANGED <<producer, roomSeen, consumerVars, slots>>

(* The same load, taken to the early return. *)
PushRefuse ==
  /\ producerAt = "idle"
  /\ \E seen \in LoadResults(consumerSeen, consumer) :
       /\ Distance(seen, producer) = Capacity
       /\ consumerSeen' = seen
  /\ UNCHANGED <<producer, producerAt, pushing, roomSeen, consumerVars, slots>>

PushEmplace ==
  /\ producerAt = "emplace"
  /\ slots' = [slots EXCEPT ![SlotIndex(producer)] = pushing]
  /\ producerAt' = "publish"
  /\ UNCHANGED <<producer, consumerSeen, pushing, roomSeen, consumerVars>>

PushPublish ==
  /\ producerAt = "publish"
  /\ producer' = Advance(producer)
  /\ producerAt' = "idle"
  /\ pushing' = Empty
  /\ roomSeen' = FALSE
  /\ UNCHANGED <<consumerSeen, consumerVars, slots>>

(* Mutant: a full ring still looks as if it had room. *)
SizeApproxOffByOne ==
  /\ producerAt = "idle"
  /\ \E seen \in LoadResults(consumerSeen, consumer) :
       /\ consumerSeen' = seen
       /\ roomSeen' = (Distance(seen, producer) <= Capacity)
  /\ UNCHANGED <<producer, producerAt, pushing, consumerVars, slots>>

(* sizeApprox called by the producing thread, which reads its own position *)
(* exactly and the other one as any load does.                             *)
ProducerSizeApprox ==
  /\ producerAt = "idle"
  /\ \E seen \in LoadResults(consumerSeen, consumer) :
       /\ consumerSeen' = seen
       /\ roomSeen' = (Distance(seen, producer) < Capacity)
  /\ UNCHANGED <<producer, producerAt, pushing, consumerVars, slots>>

----------------------------------------------------------------------------
(* tryPop *)

PopLoad ==
  /\ consumerAt = "idle"
  /\ \E seen \in LoadResults(producerSeen, producer) :
       /\ seen # consumer
       /\ producerSeen' = seen
  /\ consumerAt' = "take"
  /\ UNCHANGED <<consumer, popping, delivered, producerVars, slots>>

(* The same load, taken to the early return. *)
PopRefuse ==
  /\ consumerAt = "idle"
  /\ consumer \in LoadResults(producerSeen, producer)
  /\ producerSeen' = consumer
  /\ UNCHANGED <<consumer, consumerAt, popping, delivered, producerVars, slots>>

PopTake ==
  /\ consumerAt = "take"
  /\ popping' = slots[SlotIndex(consumer)]
  /\ slots' = [slots EXCEPT ![SlotIndex(consumer)] = Empty]
  /\ consumerAt' = "publish"
  /\ UNCHANGED <<consumer, producerSeen, delivered, producerVars>>

PopPublish ==
  /\ consumerAt = "publish"
  /\ consumer' = Advance(consumer)
  /\ delivered' = popping
  /\ popping' = Empty
  /\ consumerAt' = "idle"
  /\ UNCHANGED <<producerSeen, producerVars, slots>>

ProducerStep ==
  \/ \E m \in Message : PushLoad(m)
  \/ PushRefuse
  \/ PushEmplace
  \/ PushPublish
  \/ ProducerSizeApprox

ConsumerStep == PopLoad \/ PopRefuse \/ PopTake \/ PopPublish

Next == ProducerStep \/ ConsumerStep

Spec == Init /\ [][Next]_vars

----------------------------------------------------------------------------
(* Properties *)

TypeOK ==
  /\ producer \in Position /\ consumer \in Position
  /\ slots \in [0 .. Capacity - 1 -> Message \cup {Empty}]
  /\ producerAt \in {"idle", "emplace", "publish"}
  /\ consumerSeen \in Position
  /\ pushing \in Message \cup {Empty}
  /\ roomSeen \in BOOLEAN
  /\ consumerAt \in {"idle", "take", "publish"}
  /\ producerSeen \in Position
  /\ popping \in Message \cup {Empty}
  /\ delivered \in Message \cup {Empty}

Occupancy == Distance(consumer, producer)

(* The position k steps after position, for k at most CycleSize. *)
Forward(position, k) ==
  IF position + k < CycleSize THEN position + k ELSE (position + k) - CycleSize

(* emplace never destroys a message that was admitted and not yet moved    *)
(* out, and a pop never moves out of a disengaged optional.  In particular *)
(* the two threads never access one slot at the same time: the plain       *)
(* accesses of slots_ in tryPush and tryPop are free of data races.        *)
SlotDiscipline ==
  /\ producerAt = "emplace" => slots[SlotIndex(producer)] = Empty
  /\ consumerAt = "take" => slots[SlotIndex(consumer)] # Empty

(* Once sizeApprox has told the producer that there is room, its next push *)
(* is not refused: no load of consumer_ that tryPush may make finds the    *)
(* ring full.  The check-then-push sequences of ThreadChannels rely on it, *)
(* although the consumer moves between the two calls.                      *)
RoomIsKept ==
  roomSeen => \A seen \in LoadResults(consumerSeen, consumer) :
                Distance(seen, producer) < Capacity

(* Each thread's view of the other's position lies between the last one it *)
(* read and the present one, and a full ring is never overrun.             *)
ViewsInv ==
  /\ Distance(consumerSeen, producer) <= Capacity
  /\ Distance(consumerSeen, consumer) <= Distance(consumerSeen, producer)
  /\ Distance(consumer, producerSeen) <= Occupancy
  /\ producerAt # "idle" \/ roomSeen => Distance(consumerSeen, producer) < Capacity
  /\ consumerAt # "idle" => producerSeen # consumer

(* The slots that hold a message are those from consumer_ to producer_,    *)
(* short of the one being popped and with the one being pushed.            *)
Engaged(k) ==
  \/ k < Occupancy /\ ~(k = 0 /\ consumerAt = "publish")
  \/ k = Occupancy /\ producerAt = "publish"

SlotsInv ==
  /\ \A k \in 0 .. Capacity - 1 :
       slots[SlotIndex(Forward(consumer, k))] # Empty <=> Engaged(k)
  /\ producerAt = "publish" => slots[SlotIndex(producer)] = pushing
  /\ producerAt # "idle" => pushing \in Message
  /\ consumerAt = "publish" => popping \in Message

(* The inductive invariant. *)
RingInv == TypeOK /\ ViewsInv /\ SlotsInv

(* The messages a consumer may still obtain, oldest first: the ring from   *)
(* consumer_ to producer_; a value already moved out still counts until    *)
(* consumer_ has advanced past its slot.                                   *)
Contents ==
  [k \in 1 .. Occupancy |->
     IF k = 1 /\ consumerAt = "publish"
       THEN popping
       ELSE slots[SlotIndex(Forward(consumer, k - 1))]]

(* The ring implements the bounded FIFO: a push takes effect when          *)
(* producer_ is published, a pop when consumer_ is, nothing is lost,       *)
(* duplicated or reordered, and no push succeeds beyond Capacity.          *)
Fifo == INSTANCE BoundedFifo WITH queue <- Contents

ImplementsFifo == Fifo!FifoSpec
============================================================================
