-------------------------- MODULE SpscQueueProofs --------------------------
(***************************************************************************)
(* Theorems about the single-producer single-consumer ring, for every      *)
(* Capacity and every set of messages.                                     *)
(***************************************************************************)
EXTENDS SpscQueue, SequenceTheorems, TLAPS

(***************************************************************************)
(* Arithmetic of the positions.                                            *)
(***************************************************************************)

(* Distances are less than a cycle, and zero exactly between equal         *)
(* positions.                                                              *)
LEMMA DistanceRange ==
  ASSUME NEW p \in Position, NEW q \in Position
  PROVE  /\ Distance(p, q) \in 0 .. CycleSize - 1
         /\ Distance(p, q) = 0 <=> p = q
  BY CapacityAssumption DEF Distance, Position, CycleSize

(* advance stays among the positions.                                      *)
LEMMA AdvanceType ==
  ASSUME NEW p \in Position
  PROVE  Advance(p) \in Position
  BY CapacityAssumption DEF Advance, Position, CycleSize

(* Advancing the end of an interval that is not a whole cycle long makes   *)
(* it one longer.                                                          *)
LEMMA AdvanceEnd ==
  ASSUME NEW p \in Position, NEW q \in Position,
         Distance(p, q) < CycleSize - 1
  PROVE  Distance(p, Advance(q)) = Distance(p, q) + 1
  BY CapacityAssumption DEF Distance, Advance, Position, CycleSize

(* Advancing the start of a nonempty interval makes it one shorter.        *)
LEMMA AdvanceStart ==
  ASSUME NEW p \in Position, NEW q \in Position, p # q
  PROVE  Distance(Advance(p), q) = Distance(p, q) - 1
  BY CapacityAssumption DEF Distance, Advance, Position, CycleSize

(* Intervals that share their start split at the end of the shorter one.   *)
LEMMA DistanceSplit ==
  ASSUME NEW p \in Position, NEW q \in Position, NEW r \in Position,
         Distance(p, q) <= Distance(p, r)
  PROVE  Distance(q, r) = Distance(p, r) - Distance(p, q)
  BY CapacityAssumption DEF Distance, Position, CycleSize

(* The converse: a position reached within an interval lies in it.         *)
LEMMA DistanceWithin ==
  ASSUME NEW p \in Position, NEW q \in Position, NEW r \in Position,
         Distance(p, q) + Distance(q, r) < CycleSize
  PROVE  Distance(p, r) = Distance(p, q) + Distance(q, r)
  BY CapacityAssumption DEF Distance, Position, CycleSize

(* Going forward from p by the distance to q arrives at q.                 *)
LEMMA ForwardDistance ==
  ASSUME NEW p \in Position, NEW q \in Position
  PROVE  Forward(p, Distance(p, q)) = q
  BY CapacityAssumption DEF Distance, Forward, Position, CycleSize

(* Going forward by at most a cycle stays among the positions.             *)
LEMMA ForwardType ==
  ASSUME NEW p \in Position, NEW k \in 0 .. CycleSize
  PROVE  Forward(p, k) \in Position
  BY CapacityAssumption DEF Forward, Position, CycleSize

(* Starting one position later is the same as going one step further.      *)
LEMMA ForwardAdvance ==
  ASSUME NEW p \in Position, NEW k \in 0 .. CycleSize - 1
  PROVE  Forward(Advance(p), k) = Forward(p, k + 1)
  BY CapacityAssumption DEF Forward, Advance, Position, CycleSize

(* slotIndex yields an index of slots_.                                    *)
LEMMA SlotIndexType ==
  ASSUME NEW p \in Position
  PROVE  SlotIndex(p) \in 0 .. Capacity - 1
  BY CapacityAssumption DEF SlotIndex, Position, CycleSize

(* So does the slot k steps after a position.                              *)
LEMMA RingSlotType ==
  ASSUME NEW p \in Position
  PROVE  \A k \in 0 .. Capacity - 1 : SlotIndex(Forward(p, k)) \in 0 .. Capacity - 1
  BY CapacityAssumption DEF SlotIndex, Forward, Position, CycleSize

(* Capacity consecutive positions use Capacity different slots.            *)
LEMMA SlotsDiffer ==
  ASSUME NEW p \in Position,
         NEW j \in 0 .. Capacity - 1, NEW k \in 0 .. Capacity - 1,
         SlotIndex(Forward(p, j)) = SlotIndex(Forward(p, k))
  PROVE  j = k
  BY CapacityAssumption DEF SlotIndex, Forward, Position, CycleSize

(* A position a whole capacity further on uses the same slot.              *)
LEMMA SlotsRepeat ==
  ASSUME NEW p \in Position
  PROVE  SlotIndex(Forward(p, Capacity)) = SlotIndex(p)
  BY CapacityAssumption DEF SlotIndex, Forward, Position, CycleSize

----------------------------------------------------------------------------
(***************************************************************************)
(* Type correctness.                                                       *)
(***************************************************************************)

(* The initial state is well typed.                                        *)
LEMMA TypeInit == Init => TypeOK
<1>1. 0 \in Position
  BY CapacityAssumption DEF Position, CycleSize
<1>2. [i \in 0 .. Capacity - 1 |-> Empty]
        \in [0 .. Capacity - 1 -> Message \cup {Empty}]
  OBVIOUS
<1>3. QED
  BY <1>1, <1>2 DEF Init, TypeOK

(* Every step of either thread keeps the types.                            *)
LEMMA TypeStep == TypeOK /\ [Next]_vars => TypeOK'
<1> SUFFICES ASSUME TypeOK, [Next]_vars PROVE TypeOK'
  OBVIOUS
<1> USE DEF TypeOK
<1>1. ASSUME NEW m \in Message, PushLoad(m) PROVE TypeOK'
  BY <1>1 DEF PushLoad, LoadResults, consumerVars
<1>2. CASE PushRefuse
  BY <1>2 DEF PushRefuse, LoadResults, consumerVars
<1>3. CASE PushEmplace
  BY <1>3 DEF PushEmplace, consumerVars
<1>4. CASE PushPublish
  BY <1>4, AdvanceType DEF PushPublish, consumerVars
<1>5. CASE ProducerSizeApprox
  BY <1>5 DEF ProducerSizeApprox, LoadResults, consumerVars
<1>6. CASE PopLoad
  BY <1>6 DEF PopLoad, LoadResults, producerVars
<1>7. CASE PopRefuse
  BY <1>7 DEF PopRefuse, producerVars
<1>8. CASE PopTake
  BY <1>8, SlotIndexType DEF PopTake, producerVars
<1>9. CASE PopPublish
  BY <1>9, AdvanceType DEF PopPublish, producerVars
<1>10. CASE UNCHANGED vars
  BY <1>10 DEF vars, producerVars, consumerVars
<1>11. QED
  BY <1>1, <1>2, <1>3, <1>4, <1>5, <1>6, <1>7, <1>8, <1>9, <1>10
     DEF Next, ProducerStep, ConsumerStep

(* Every variable keeps its type: in particular both positions stay within *)
(* a cycle, so slotIndex never leaves slots_.                              *)
THEOREM TypeCorrect == Spec => []TypeOK
<1>1. QED
  BY TypeInit, TypeStep, PTL DEF Spec

----------------------------------------------------------------------------
(***************************************************************************)
(* The ring invariant.                                                     *)
(***************************************************************************)

(* The ring never holds more than Capacity messages, and the view the      *)
(* producer has of its room is never optimistic.                           *)
LEMMA OccupancyBound ==
  ASSUME TypeOK, ViewsInv
  PROVE  /\ Occupancy = Distance(consumerSeen, producer)
                         - Distance(consumerSeen, consumer)
         /\ Occupancy \in 0 .. Capacity
<1>1. /\ Distance(consumerSeen, producer) \in Nat
      /\ Distance(consumerSeen, consumer) \in Nat
  BY DistanceRange DEF TypeOK
<1>2. Occupancy = Distance(consumerSeen, producer)
                  - Distance(consumerSeen, consumer)
  BY DistanceSplit DEF TypeOK, ViewsInv, Occupancy
<1>3. QED
  BY <1>1, <1>2, CapacityAssumption DEF ViewsInv

(* What a fresh load by the producer thread leaves true of its view.       *)
LEMMA ProducerLoad ==
  ASSUME TypeOK, ViewsInv,
         NEW seen \in LoadResults(consumerSeen, consumer)
  PROVE  /\ seen \in Position
         /\ Distance(seen, producer) <= Distance(consumerSeen, producer)
         /\ Distance(seen, consumer) <= Distance(seen, producer)
<1>1. /\ seen \in Position
      /\ Distance(consumerSeen, seen) <= Distance(consumerSeen, consumer)
  BY DEF LoadResults
<1>2. /\ Distance(consumerSeen, producer) \in Nat
      /\ Distance(consumerSeen, consumer) \in Nat
      /\ Distance(consumerSeen, seen) \in Nat
  BY <1>1, DistanceRange DEF TypeOK
<1>3. Distance(consumerSeen, consumer) <= Distance(consumerSeen, producer)
  BY DEF ViewsInv
<1>4. Distance(seen, consumer)
        = Distance(consumerSeen, consumer) - Distance(consumerSeen, seen)
  BY <1>1, DistanceSplit DEF TypeOK
<1>5. Distance(seen, producer)
        = Distance(consumerSeen, producer) - Distance(consumerSeen, seen)
  BY <1>1, <1>2, <1>3, DistanceSplit DEF TypeOK
<1>6. QED
  BY <1>1, <1>2, <1>3, <1>4, <1>5

(* Every step keeps the two threads' views within bounds: an acquire load  *)
(* moves a view forward, and the other thread only ever moves its own end. *)
LEMMA ViewsStep == TypeOK /\ ViewsInv /\ [Next]_vars => ViewsInv'
<1> SUFFICES ASSUME TypeOK, ViewsInv, [Next]_vars PROVE ViewsInv'
  OBVIOUS
<1>1. /\ Distance(consumerSeen, producer) \in Nat
      /\ Distance(consumerSeen, consumer) \in Nat
      /\ Distance(consumer, producerSeen) \in Nat
      /\ Occupancy \in 0 .. Capacity
      /\ Capacity \in Nat \ {0}
  BY DistanceRange, OccupancyBound, CapacityAssumption DEF TypeOK
<1>2. ASSUME NEW m \in Message, PushLoad(m) PROVE ViewsInv'
  <2>1. PICK seen \in LoadResults(consumerSeen, consumer) :
          Distance(seen, producer) # Capacity /\ consumerSeen' = seen
    BY <1>2 DEF PushLoad
  <2>2. Distance(seen, producer) \in Nat
    BY <2>1, ProducerLoad, DistanceRange DEF TypeOK
  <2>3. QED
    BY <1>1, <1>2, <2>1, <2>2, ProducerLoad
       DEF PushLoad, ViewsInv, Occupancy, consumerVars
<1>3. CASE PushRefuse
  <2>1. PICK seen \in LoadResults(consumerSeen, consumer) :
          Distance(seen, producer) = Capacity /\ consumerSeen' = seen
    BY <1>3 DEF PushRefuse
  <2>2. Distance(seen, producer) \in Nat
    BY <2>1, ProducerLoad, DistanceRange DEF TypeOK
  <2>3. QED
    BY <1>1, <1>3, <2>1, <2>2, ProducerLoad
       DEF PushRefuse, ViewsInv, Occupancy, consumerVars
<1>4. CASE PushEmplace
  BY <1>4 DEF PushEmplace, ViewsInv, Occupancy, consumerVars
<1>5. CASE PushPublish
  <2>1. Distance(consumerSeen, producer) < Capacity
    BY <1>5 DEF PushPublish, ViewsInv
  <2>2. CycleSize - 1 >= Capacity
    BY <1>1 DEF CycleSize
  <2>3. Distance(consumerSeen, Advance(producer))
          = Distance(consumerSeen, producer) + 1
    BY <1>1, <2>1, <2>2, AdvanceEnd DEF TypeOK, CycleSize
  <2>4. Occupancy < Capacity
    BY <1>1, <2>1, OccupancyBound
  <2>5. Distance(consumer, Advance(producer)) = Occupancy + 1
    BY <1>1, <2>2, <2>4, AdvanceEnd DEF TypeOK, Occupancy, CycleSize
  <2>6. QED
    BY <1>1, <1>5, <2>1, <2>3, <2>5
       DEF PushPublish, ViewsInv, Occupancy, consumerVars
<1>6. CASE ProducerSizeApprox
  <2>1. PICK seen \in LoadResults(consumerSeen, consumer) :
          /\ consumerSeen' = seen
          /\ roomSeen' = (Distance(seen, producer) < Capacity)
    BY <1>6 DEF ProducerSizeApprox
  <2>2. Distance(seen, producer) \in Nat
    BY <2>1, ProducerLoad, DistanceRange DEF TypeOK
  <2>3. roomSeen' => Distance(seen, producer) < Capacity
    BY <2>1, Zenon
  <2>4. /\ consumerSeen' = seen
        /\ UNCHANGED <<producer, producerAt, consumer, consumerAt, producerSeen>>
        /\ producerAt = "idle"
    BY <1>6, <2>1 DEF ProducerSizeApprox, consumerVars
  <2>5. QED
    BY <1>1, <2>1, <2>2, <2>3, <2>4, ProducerLoad DEF ViewsInv, Occupancy
<1>7. CASE PopLoad
  <2>1. PICK seen \in LoadResults(producerSeen, producer) :
          seen # consumer /\ producerSeen' = seen
    BY <1>7 DEF PopLoad
  <2>2. /\ seen \in Position
        /\ Distance(producerSeen, seen) <= Distance(producerSeen, producer)
    BY DEF LoadResults
  <2>3. Distance(producerSeen, producer)
          = Occupancy - Distance(consumer, producerSeen)
    BY DistanceSplit DEF TypeOK, ViewsInv, Occupancy
  <2>4. Distance(consumer, seen)
          = Distance(consumer, producerSeen) + Distance(producerSeen, seen)
    <3>1. Distance(producerSeen, seen) \in Nat
      BY <2>2, DistanceRange DEF TypeOK
    <3>2. Distance(consumer, producerSeen) + Distance(producerSeen, seen)
            < CycleSize
      BY <1>1, <2>2, <2>3, <3>1 DEF CycleSize
    <3>3. QED
      BY <2>2, <3>2, DistanceWithin DEF TypeOK
  <2>5. Distance(producerSeen, seen) \in Nat
    BY <2>2, DistanceRange DEF TypeOK
  <2>6. QED
    BY <1>1, <1>7, <2>1, <2>2, <2>3, <2>4, <2>5
       DEF PopLoad, ViewsInv, Occupancy, producerVars
<1>8. CASE PopRefuse
  <2>1. Distance(consumer, consumer) = 0
    BY DistanceRange DEF TypeOK
  <2>2. QED
    BY <1>1, <1>8, <2>1 DEF PopRefuse, ViewsInv, Occupancy, producerVars
<1>9. CASE PopTake
  BY <1>9 DEF PopTake, ViewsInv, Occupancy, producerVars
<1>10. CASE PopPublish
  <2>1. producerSeen # consumer
    BY <1>10 DEF PopPublish, ViewsInv
  <2>2. Distance(consumer, producerSeen) # 0
    BY <2>1, DistanceRange DEF TypeOK
  <2>3. consumer # producer
    BY <1>1, <2>2, DistanceRange DEF TypeOK, ViewsInv, Occupancy
  <2>4. Distance(Advance(consumer), producer) = Occupancy - 1
    BY <2>3, AdvanceStart DEF TypeOK, Occupancy
  <2>5. Distance(Advance(consumer), producerSeen)
          = Distance(consumer, producerSeen) - 1
    BY <2>1, AdvanceStart DEF TypeOK
  <2>6. Occupancy # 0
    BY <2>3, DistanceRange DEF TypeOK, Occupancy
  <2>7. Distance(consumerSeen, consumer) < Distance(consumerSeen, producer)
    BY <1>1, <2>6, OccupancyBound
  <2>8. Distance(consumerSeen, Advance(consumer))
          = Distance(consumerSeen, consumer) + 1
    <3>1. Distance(consumerSeen, consumer) < CycleSize - 1
      BY <1>1, <2>7 DEF ViewsInv, CycleSize
    <3>2. QED
      BY <3>1, AdvanceEnd DEF TypeOK
  <2>9. QED
    BY <1>1, <1>10, <2>4, <2>5, <2>7, <2>8
       DEF PopPublish, ViewsInv, Occupancy, producerVars
<1>11. CASE UNCHANGED vars
  BY <1>11 DEF vars, producerVars, consumerVars, ViewsInv, Occupancy
<1>12. QED
  BY <1>2, <1>3, <1>4, <1>5, <1>6, <1>7, <1>8, <1>9, <1>10, <1>11
     DEF Next, ProducerStep, ConsumerStep

(* A pop under way has a message to take, a push under way a free slot.    *)
LEMMA UnderWay ==
  ASSUME TypeOK, ViewsInv
  PROVE  /\ consumerAt # "idle" => Occupancy > 0
         /\ producerAt # "idle" => Occupancy < Capacity
<1>1. /\ Distance(consumerSeen, producer) \in Nat
      /\ Distance(consumerSeen, consumer) \in Nat
      /\ Distance(consumer, producerSeen) \in Nat
      /\ Occupancy \in 0 .. Capacity
      /\ Capacity \in Nat
  BY DistanceRange, OccupancyBound, CapacityAssumption DEF TypeOK
<1>2. consumerAt # "idle" => Occupancy > 0
  <2>1. consumerAt # "idle" => Distance(consumer, producerSeen) # 0
    BY DistanceRange DEF TypeOK, ViewsInv
  <2>2. QED
    BY <1>1, <2>1 DEF ViewsInv
<1>3. producerAt # "idle" => Occupancy < Capacity
  BY <1>1, OccupancyBound DEF ViewsInv
<1>4. QED
  BY <1>2, <1>3

(* Where the two ends of the ring are, counted from consumer_.             *)
LEMMA RingEnds ==
  ASSUME TypeOK, ViewsInv
  PROVE  /\ Forward(consumer, 0) = consumer
         /\ Forward(consumer, Occupancy) = producer
<1>1. Forward(consumer, 0) = consumer
  BY CapacityAssumption DEF TypeOK, Forward, Position, CycleSize
<1>2. QED
  BY <1>1, ForwardDistance DEF TypeOK, Occupancy

(* Every step keeps the engaged slots the ones between the two ends.       *)
LEMMA SlotsStep == RingInv /\ [Next]_vars => SlotsInv'
<1> SUFFICES ASSUME TypeOK, ViewsInv, SlotsInv, [Next]_vars PROVE SlotsInv'
  BY DEF RingInv
<1> DEFINE Slot(k) == SlotIndex(Forward(consumer, k))
<1>1. /\ Occupancy \in 0 .. Capacity
      /\ Capacity \in Nat \ {0}
      /\ 0 .. Capacity - 1 \subseteq 0 .. CycleSize
  BY OccupancyBound, CapacityAssumption DEF CycleSize
<1>2. \A k \in 0 .. Capacity - 1 : Slot(k) \in 0 .. Capacity - 1
  BY RingSlotType DEF TypeOK
<1>3. \A j, k \in 0 .. Capacity - 1 : Slot(j) = Slot(k) => j = k
  BY SlotsDiffer DEF TypeOK
<1>4. /\ Slot(0) = SlotIndex(consumer)
      /\ Slot(Occupancy) = SlotIndex(producer)
  BY RingEnds
<1>5. ASSUME UNCHANGED <<producer, consumer, slots>>,
             producerAt' = "publish" <=> producerAt = "publish",
             consumerAt' = "publish" <=> consumerAt = "publish"
      PROVE  \A k \in 0 .. Capacity - 1 :
               slots'[SlotIndex(Forward(consumer', k))] # Empty <=> Engaged(k)'
  BY <1>5 DEF SlotsInv, Engaged, Occupancy
<1>6. ASSUME NEW m \in Message, PushLoad(m) PROVE SlotsInv'
  BY <1>5, <1>6 DEF PushLoad, SlotsInv, consumerVars
<1>7. CASE PushRefuse
  BY <1>5, <1>7 DEF PushRefuse, SlotsInv, consumerVars
<1>8. CASE PushEmplace
  <2> USE <1>8 DEF PushEmplace, consumerVars
  <2>1. /\ Occupancy \in 0 .. Capacity - 1
        /\ pushing \in Message
    BY <1>1, UnderWay DEF SlotsInv
  <2>2. slots' = [slots EXCEPT ![Slot(Occupancy)] = pushing]
    BY <1>4
  <2>3. ASSUME NEW k \in 0 .. Capacity - 1
        PROVE  slots'[Slot(k)] # Empty <=> Engaged(k)'
    <3>1. CASE k = Occupancy
      BY <1>2, <2>1, <2>2, <3>1, EmptyAssumption
         DEF TypeOK, Engaged, Occupancy
    <3>2. CASE k # Occupancy
      <4>1. slots'[Slot(k)] = slots[Slot(k)]
        BY <1>2, <1>3, <2>1, <2>2, <3>2 DEF TypeOK
      <4>2. Engaged(k)' <=> Engaged(k)
        BY <3>2 DEF Engaged, Occupancy
      <4>3. QED
        BY <4>1, <4>2 DEF SlotsInv
    <3>3. QED
      BY <3>1, <3>2
  <2>4. slots'[SlotIndex(producer)] = pushing
    BY <1>2, <1>4, <2>1 DEF TypeOK
  <2>5. QED
    BY <2>1, <2>3, <2>4 DEF SlotsInv
<1>9. CASE PushPublish
  <2> USE <1>9 DEF PushPublish, consumerVars
  <2>1. Occupancy \in 0 .. Capacity - 1
    BY <1>1, UnderWay
  <2>2. Occupancy' = Occupancy + 1
    BY <1>1, <2>1, AdvanceEnd DEF TypeOK, Occupancy, CycleSize
  <2>3. consumerAt = "publish" => Occupancy > 0
    BY UnderWay
  <2>4. \A k \in 0 .. Capacity - 1 : Engaged(k)' <=> Engaged(k)
    BY <2>1, <2>2, <2>3 DEF Engaged
  <2>5. QED
    BY <2>4 DEF SlotsInv
<1>10. CASE ProducerSizeApprox
  BY <1>5, <1>10 DEF ProducerSizeApprox, SlotsInv, consumerVars
<1>11. CASE PopLoad
  BY <1>5, <1>11 DEF PopLoad, SlotsInv, producerVars
<1>12. CASE PopRefuse
  BY <1>5, <1>12 DEF PopRefuse, SlotsInv, producerVars
<1>13. CASE PopTake
  <2> USE <1>13 DEF PopTake, producerVars
  <2>1. Occupancy > 0 /\ 0 \in 0 .. Capacity - 1
    BY <1>1, UnderWay
  <2>2. slots' = [slots EXCEPT ![Slot(0)] = Empty]
    BY <1>4
  <2>3. popping' \in Message
    <3>1. slots[Slot(0)] # Empty
      BY <2>1 DEF SlotsInv, Engaged
    <3>2. QED
      BY <1>2, <1>4, <2>1, <3>1 DEF TypeOK
  <2>4. ASSUME NEW k \in 0 .. Capacity - 1
        PROVE  slots'[Slot(k)] # Empty <=> Engaged(k)'
    <3>1. CASE k = 0
      BY <1>1, <1>2, <2>1, <2>2, <3>1 DEF TypeOK, Engaged, Occupancy
    <3>2. CASE k # 0
      <4>1. slots'[Slot(k)] = slots[Slot(k)]
        BY <1>2, <1>3, <2>1, <2>2, <3>2 DEF TypeOK
      <4>2. Engaged(k)' <=> Engaged(k)
        BY <3>2 DEF Engaged, Occupancy
      <4>3. QED
        BY <4>1, <4>2 DEF SlotsInv
    <3>3. QED
      BY <3>1, <3>2
  <2>5. producerAt = "publish" => slots'[SlotIndex(producer)] = pushing
    <3>1. producerAt = "publish" => Slot(0) # Slot(Occupancy)
      BY <1>1, <1>3, <2>1, UnderWay
    <3>2. QED
      BY <1>4, <2>2, <3>1, SlotIndexType DEF SlotsInv, TypeOK
  <2>6. QED
    BY <2>3, <2>4, <2>5 DEF SlotsInv
<1>14. CASE PopPublish
  <2> USE <1>14 DEF PopPublish, producerVars
  <2>1. Occupancy > 0
    BY UnderWay
  <2>2. Occupancy' = Occupancy - 1
    <3>1. consumer # producer
      BY <2>1, DistanceRange DEF TypeOK, Occupancy
    <3>2. QED
      BY <3>1, AdvanceStart DEF TypeOK, Occupancy
  <2>3. producerAt = "publish" => Occupancy < Capacity
    BY UnderWay
  <2>4. ASSUME NEW k \in 0 .. Capacity - 1
        PROVE  slots'[SlotIndex(Forward(consumer', k))] # Empty
                 <=> Engaged(k)'
    <3>1. Forward(consumer', k) = Forward(consumer, k + 1)
      BY <1>1, ForwardAdvance DEF TypeOK, CycleSize
    <3>2. CASE k = Capacity - 1
      <4>1. SlotIndex(Forward(consumer', k)) = Slot(0)
        BY <1>1, <1>4, <3>1, <3>2, SlotsRepeat DEF TypeOK
      <4>2. slots[Slot(0)] = Empty
        BY <1>1, <2>1 DEF SlotsInv, Engaged
      <4>3. ~ Engaged(k)'
        BY <1>1, <2>2, <2>3, <3>2 DEF Engaged
      <4>4. QED
        BY <4>1, <4>2, <4>3
    <3>3. CASE k # Capacity - 1
      <4>1. k + 1 \in 0 .. Capacity - 1
        BY <1>1, <3>3
      <4>2. Engaged(k)' <=> Engaged(k + 1)
        BY <1>1, <2>2 DEF Engaged
      <4>3. QED
        BY <3>1, <4>1, <4>2 DEF SlotsInv
    <3>4. QED
      BY <3>2, <3>3
  <2>5. QED
    BY <2>4 DEF SlotsInv
<1>15. CASE UNCHANGED vars
  BY <1>5, <1>15 DEF vars, producerVars, consumerVars, SlotsInv
<1>16. QED
  BY <1>6, <1>7, <1>8, <1>9, <1>10, <1>11, <1>12, <1>13, <1>14, <1>15
     DEF Next, ProducerStep, ConsumerStep

(* The empty ring satisfies the ring invariant.                            *)
LEMMA RingInit == Init => RingInv
<1> SUFFICES ASSUME Init PROVE RingInv
  OBVIOUS
<1>1. TypeOK
  BY TypeInit
<1>2. Distance(0, 0) = 0 /\ Occupancy = 0
  BY CapacityAssumption DEF Init, Distance, Occupancy
<1>3. ViewsInv
  BY <1>2, CapacityAssumption DEF Init, ViewsInv
<1>4. \A k \in 0 .. Capacity - 1 : SlotIndex(Forward(consumer, k)) \in 0 .. Capacity - 1
  BY <1>1, RingSlotType DEF TypeOK
<1>5. SlotsInv
  BY <1>2, <1>4 DEF Init, SlotsInv, Engaged
<1>6. QED
  BY <1>1, <1>3, <1>5 DEF RingInv

(* The ring invariant holds of every behaviour.                            *)
THEOREM RingInvariant == Spec => []RingInv
<1>1. RingInv /\ [Next]_vars => RingInv'
  BY TypeStep, ViewsStep, SlotsStep DEF RingInv
<1>2. QED
  BY RingInit, <1>1, PTL DEF Spec

(* No slot is accessed by both threads at once, no admitted message is     *)
(* overwritten and no disengaged optional is moved out of, in tryPush,     *)
(* tryEmplace and tryPop.                                                  *)
THEOREM SlotsAreDisciplined == Spec => []SlotDiscipline
<1>1. RingInv => SlotDiscipline
  <2> SUFFICES ASSUME TypeOK, ViewsInv, SlotsInv PROVE SlotDiscipline
    BY DEF RingInv
  <2>1. Capacity \in Nat \ {0} /\ Occupancy \in 0 .. Capacity
    BY OccupancyBound, CapacityAssumption
  <2>2. ASSUME producerAt = "emplace"
        PROVE  slots[SlotIndex(producer)] = Empty
    <3>1. Occupancy \in 0 .. Capacity - 1
      BY <2>1, <2>2, UnderWay
    <3>2. ~ Engaged(Occupancy)
      BY <2>2, <3>1 DEF Engaged
    <3>3. QED
      BY <3>1, <3>2, RingEnds DEF SlotsInv
  <2>3. ASSUME consumerAt = "take"
        PROVE  slots[SlotIndex(consumer)] # Empty
    <3>1. Engaged(0) /\ 0 \in 0 .. Capacity - 1
      BY <2>1, <2>3, UnderWay DEF Engaged
    <3>2. QED
      BY <3>1, RingEnds DEF SlotsInv
  <2>4. QED
    BY <2>2, <2>3 DEF SlotDiscipline
<1>2. QED
  BY RingInvariant, <1>1, PTL

(* After sizeApprox has reported room, the producer's next push is         *)
(* admitted whatever the consumer does in between.                         *)
THEOREM RoomIsKeptForTheProducer == Spec => []RoomIsKept
<1>1. RingInv => RoomIsKept
  <2> SUFFICES ASSUME RingInv, roomSeen, NEW seen \in LoadResults(consumerSeen, consumer)
               PROVE  Distance(seen, producer) < Capacity
    BY DEF RoomIsKept
  <2>1. /\ seen \in Position
        /\ Distance(seen, producer) <= Distance(consumerSeen, producer)
    BY ProducerLoad DEF RingInv
  <2>2. /\ Distance(consumerSeen, producer) \in Nat
        /\ Distance(seen, producer) \in Nat
    BY <2>1, DistanceRange DEF RingInv, TypeOK
  <2>3. Distance(consumerSeen, producer) < Capacity
    BY DEF RingInv, ViewsInv
  <2>4. QED
    BY <2>1, <2>2, <2>3, CapacityAssumption
<1>2. QED
  BY RingInvariant, <1>1, PTL

----------------------------------------------------------------------------
(***************************************************************************)
(* The ring implements the bounded FIFO.                                   *)
(***************************************************************************)

(* Equal lengths and equal elements make equal contents.                   *)
LEMMA ContentsKept ==
  ASSUME TypeOK,
         Occupancy' = Occupancy,
         \A k \in 1 .. Occupancy :
           (IF k = 1 /\ consumerAt' = "publish"
              THEN popping' ELSE slots'[SlotIndex(Forward(consumer', k - 1))])
           = (IF k = 1 /\ consumerAt = "publish"
                THEN popping ELSE slots[SlotIndex(Forward(consumer, k - 1))])
  PROVE  Contents' = Contents
  BY DEF Contents

(* Every step is a push, a pop or a stutter of the abstract FIFO.          *)
LEMMA FifoStep == RingInv /\ [Next]_vars => [Fifo!FifoNext]_(Fifo!fifoVars)
<1> SUFFICES ASSUME TypeOK, ViewsInv, SlotsInv, [Next]_vars
             PROVE  [Fifo!FifoNext]_(Fifo!fifoVars)
  BY DEF RingInv
<1> DEFINE Slot(k) == SlotIndex(Forward(consumer, k))
<1>1. /\ Occupancy \in 0 .. Capacity
      /\ Capacity \in Nat \ {0}
  BY OccupancyBound, CapacityAssumption
<1>2. \A k \in 0 .. Capacity - 1 : Slot(k) \in 0 .. Capacity - 1
  BY RingSlotType DEF TypeOK
<1>3. \A j, k \in 0 .. Capacity - 1 : Slot(j) = Slot(k) => j = k
  BY SlotsDiffer DEF TypeOK
<1>4. /\ Slot(0) = SlotIndex(consumer)
      /\ Slot(Occupancy) = SlotIndex(producer)
  BY RingEnds
<1>5. ASSUME Contents' = Contents, delivered' = delivered
      PROVE  [Fifo!FifoNext]_(Fifo!fifoVars)
  BY <1>5 DEF Fifo!fifoVars
<1>6. ASSUME UNCHANGED <<producer, consumer, slots, popping, delivered>>,
             consumerAt' = "publish" <=> consumerAt = "publish"
      PROVE  [Fifo!FifoNext]_(Fifo!fifoVars)
  BY <1>5, <1>6, ContentsKept DEF Occupancy
<1>7. ASSUME NEW m \in Message, PushLoad(m)
      PROVE  [Fifo!FifoNext]_(Fifo!fifoVars)
  BY <1>6, <1>7 DEF PushLoad, consumerVars
<1>8. CASE PushRefuse
  BY <1>6, <1>8 DEF PushRefuse, consumerVars
<1>9. CASE PushEmplace
  <2> USE <1>9 DEF PushEmplace, consumerVars
  <2>1. Occupancy \in 0 .. Capacity - 1
    BY <1>1, UnderWay
  <2>2. \A k \in 1 .. Occupancy : slots'[Slot(k - 1)] = slots[Slot(k - 1)]
    BY <1>1, <1>2, <1>3, <1>4, <2>1 DEF TypeOK
  <2>3. Contents' = Contents
    BY <2>2, ContentsKept DEF Occupancy
  <2>4. QED
    BY <1>5, <2>3
<1>10. CASE PushPublish
  <2> USE <1>10 DEF PushPublish, consumerVars
  <2>1. /\ Occupancy \in 0 .. Capacity - 1
        /\ consumerAt = "publish" => Occupancy > 0
    BY <1>1, UnderWay
  <2>2. Occupancy' = Occupancy + 1
    BY <1>1, <2>1, AdvanceEnd DEF TypeOK, Occupancy, CycleSize
  <2>3. slots[Slot(Occupancy)] = pushing /\ pushing \in Message
    BY <1>4 DEF SlotsInv
  <2>4. Len(Contents) = Occupancy /\ Contents \in Seq(Message \cup {Empty})
    <3>1. \A k \in 1 .. Occupancy : slots[Slot(k - 1)] \in Message \cup {Empty}
      BY <1>1, <1>2 DEF TypeOK
    <3>2. QED
      BY <1>1, <3>1 DEF Contents, TypeOK
  <2>5. Contents' = Append(Contents, pushing)
    <3>1. \A k \in 1 .. Occupancy + 1 :
            Contents'[k] = IF k <= Occupancy THEN Contents[k] ELSE pushing
      BY <1>1, <2>1, <2>2, <2>3 DEF Contents
    <3>2. Contents' = [k \in 1 .. Occupancy + 1 |-> Contents'[k]]
      BY <2>2 DEF Contents
    <3>3. \A k \in 1 .. Occupancy + 1 : Contents'[k] \in Message \cup {Empty}
      BY <2>3, <2>4, <3>1, ElementOfSeq
    <3>4. Contents' \in Seq(Message \cup {Empty}) /\ Len(Contents') = Occupancy + 1
      BY <1>1, <3>2, <3>3
    <3>5. /\ Append(Contents, pushing) \in Seq(Message \cup {Empty})
          /\ Len(Append(Contents, pushing)) = Occupancy + 1
          /\ \A k \in 1 .. Occupancy : Append(Contents, pushing)[k] = Contents[k]
          /\ Append(Contents, pushing)[Occupancy + 1] = pushing
      BY <2>3, <2>4, AppendProperties
    <3>6. \A k \in 1 .. Len(Contents') : Contents'[k] = Append(Contents, pushing)[k]
      BY <1>1, <3>1, <3>4, <3>5
    <3>7. QED
      BY <3>4, <3>5, <3>6, SeqEqual
  <2>6. Fifo!Push(pushing)
    BY <1>1, <2>1, <2>4, <2>5 DEF Fifo!Push
  <2>7. QED
    BY <2>3, <2>6 DEF Fifo!FifoNext
<1>11. CASE ProducerSizeApprox
  BY <1>6, <1>11 DEF ProducerSizeApprox, consumerVars
<1>12. CASE PopLoad
  BY <1>6, <1>12 DEF PopLoad, producerVars
<1>13. CASE PopRefuse
  BY <1>6, <1>13 DEF PopRefuse, producerVars
<1>14. CASE PopTake
  <2> USE <1>14 DEF PopTake, producerVars
  <2>1. Occupancy > 0
    BY UnderWay
  <2>2. \A k \in 2 .. Occupancy : slots'[Slot(k - 1)] = slots[Slot(k - 1)]
    BY <1>1, <1>2, <1>3, <1>4, <2>1 DEF TypeOK
  <2>3. popping' = slots[Slot(0)]
    BY <1>4
  <2>4. Contents' = Contents
    BY <1>1, <2>2, <2>3, ContentsKept DEF Occupancy
  <2>5. QED
    BY <1>5, <2>4
<1>15. CASE PopPublish
  <2> USE <1>15 DEF PopPublish, producerVars
  <2>1. Occupancy > 0
    BY UnderWay
  <2>2. Occupancy' = Occupancy - 1
    <3>1. consumer # producer
      BY <2>1, DistanceRange DEF TypeOK, Occupancy
    <3>2. QED
      BY <3>1, AdvanceStart DEF TypeOK, Occupancy
  <2>3. \A k \in 1 .. Occupancy - 1 :
          Forward(consumer', k - 1) = Forward(consumer, k)
    BY <1>1, ForwardAdvance DEF TypeOK, CycleSize
  <2>4. Len(Contents) = Occupancy /\ Contents \in Seq(Message \cup {Empty})
    <3>1. \A k \in 1 .. Occupancy : slots[Slot(k - 1)] \in Message \cup {Empty}
      BY <1>1, <1>2 DEF TypeOK
    <3>2. QED
      BY <1>1, <3>1 DEF Contents, TypeOK
  <2>5. Contents # <<>>
    BY <1>1, <2>1, <2>4
  <2>6. Contents' = Tail(Contents)
    <3>1. \A k \in 1 .. Occupancy - 1 : Contents'[k] = Contents[k + 1]
      BY <1>1, <2>2, <2>3 DEF Contents
    <3>2. Contents' = [k \in 1 .. Occupancy - 1 |-> Contents'[k]]
      BY <2>2 DEF Contents
    <3>3. \A k \in 1 .. Occupancy - 1 : Contents'[k] \in Message \cup {Empty}
      BY <1>1, <2>4, <3>1, ElementOfSeq
    <3>4. Contents' \in Seq(Message \cup {Empty}) /\ Len(Contents') = Occupancy - 1
      BY <1>1, <2>1, <3>2, <3>3
    <3>5. /\ Tail(Contents) \in Seq(Message \cup {Empty})
          /\ Len(Tail(Contents)) = Occupancy - 1
          /\ \A k \in 1 .. Len(Tail(Contents)) : Tail(Contents)[k] = Contents[k + 1]
      BY <2>4, <2>5, HeadTailProperties
    <3>6. \A k \in 1 .. Len(Contents') : Contents'[k] = Tail(Contents)[k]
      BY <3>1, <3>4, <3>5
    <3>7. QED
      BY <3>4, <3>5, <3>6, SeqEqual
  <2>7. Head(Contents) = popping
    BY <1>1, <2>1, <2>4 DEF Contents
  <2>8. Fifo!Pop
    BY <2>5, <2>6, <2>7 DEF Fifo!Pop
  <2>9. QED
    BY <2>8 DEF Fifo!FifoNext
<1>16. CASE UNCHANGED vars
  BY <1>6, <1>16 DEF vars, producerVars, consumerVars
<1>17. QED
  BY <1>7, <1>8, <1>9, <1>10, <1>11, <1>12, <1>13, <1>14, <1>15, <1>16
     DEF Next, ProducerStep, ConsumerStep

(* The ring is a bounded FIFO: nothing is lost, duplicated, reordered or   *)
(* admitted beyond Capacity, whatever the interleaving and however stale   *)
(* the positions the two threads read of each other.                       *)
THEOREM RingImplementsFifo == Spec => ImplementsFifo
<1>1. Init => Fifo!FifoInit
  <2> SUFFICES ASSUME Init PROVE Fifo!FifoInit
    OBVIOUS
  <2>1. Occupancy = 0
    BY DEF Init, Occupancy, Distance
  <2>2. Contents = <<>>
    BY <2>1 DEF Contents
  <2>3. QED
    BY <2>2, EmptyAssumption DEF Init, Fifo!FifoInit
<1>2. QED
  BY <1>1, RingInvariant, FifoStep, PTL
     DEF Spec, ImplementsFifo, Fifo!FifoSpec
============================================================================
