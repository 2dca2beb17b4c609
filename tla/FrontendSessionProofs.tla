------------------------ MODULE FrontendSessionProofs ------------------------
(***************************************************************************)
(* Proofs about FrontendSession: for any set of nodes and any sizes of the *)
(* queues and the pages, no retired node is lost track of, and none leaves *)
(* the graph while a pane or a change on its way may still read it.        *)
(***************************************************************************)
EXTENDS FrontendSession, FiniteSetTheorems, TLAPS

(* The nodes of the messages are Nodes; only a change or a page removes    *)
(* any.                                                                    *)
Messages ==
  {m \in [type : {"none", "change", "rescan", "retirement", "stopped"}, revision : Nat,
          affected : SUBSET Node, removed : SUBSET Node] :
     m.type = "stopped" => m.removed = {}}

SessionTypes ==
  /\ revision \in Nat /\ orderGeneration \in Nat /\ rescanRevision \in Nat
  /\ live \in SUBSET Node /\ retired \in Seq(Node) /\ parentIndex \in [Node -> Nat]
  /\ sending \in Messages /\ workerToQt \in Seq(Messages) /\ deferred \in Seq(Messages)
  /\ qtToWorker \in Seq(Node) /\ acks \in Seq(Node) /\ pendingDetach \in SUBSET Node
  /\ scan \in [offset : Nat, known : BOOLEAN, generation : Nat]

(* parentIndex_ of a retired node is its place in retiredNodes_, so it is  *)
(* there once; it is not among the live ones.                              *)
IndexInv ==
  \A i \in DOMAIN retired :
    /\ parentIndex[retired[i]] = i - 1
    /\ retired[i] \notin live

(* The change the worker is about to send is about nodes that are still    *)
(* live, since the worker changes nothing before it is sent.               *)
SendingInv ==
  /\ workerAt # "send" => sending = NoMessage
  /\ workerAt = "send" => sending.revision # 0
  /\ sending.affected \subseteq live

(* A scan that goes on has not passed the end of retiredNodes_, unless the *)
(* order has changed since, and a pass that collects has a scan to do.     *)
ScanInv ==
  /\ drainAt \in {"collect", "collectAfter"} => collecting
  /\ scan.known => scan.generation <= orderGeneration
  /\ scan.known /\ scan.generation = orderGeneration => scan.offset <= Len(retired)

(* The nodes Qt has been told were removed.                                *)
Owed == pendingDetach \cup Elements(acks)

(* What Qt was told or is going to be told was removed, is.                *)
GoneInv ==
  /\ (Owed \cup Elements(qtToWorker)) \cap live = {}
  /\ \A m \in OnTheirWay : m.removed \cap live = {}

(* An acknowledgement is about a node that no pane holds; one that is sent *)
(* is about a node that no change on its way affects either.               *)
LetGoInv ==
  /\ retained \cap (Elements(acks) \cup Elements(qtToWorker)) = {}
  /\ \A m \in OnTheirWay : m.affected \cap Elements(qtToWorker) = {}
  /\ drainAt = "flush" => \A m \in OnTheirWay : m.affected \cap Elements(acks) = {}

(* Qt has been told of the removal of n, even if it has deferred it.       *)
Told(n) ==
  \/ n \in Owed \cup Elements(qtToWorker)
  \/ \E m \in Elements(deferred) : n \in m.removed

RescanDue == rescanRevision # 0 \/ \E m \in OnTheirWay : m.type = "rescan"

(* While Qt scans the retired nodes it has been told of those the scan has *)
(* passed; otherwise of all, but for those that the worker is just telling *)
(* it of, if no rescan is due.                                             *)
TrackInv ==
  /\ collecting => \A i \in 1 .. ScanOffset : Told(retired[i])
  /\ ~collecting => \A n \in Elements(retired) :
       \/ RescanDue
       \/ Told(n)
       \/ \E m \in Elements(workerToQt) \cup {sending} : n \in m.removed

SessionInv ==
  /\ SessionTypes /\ IndexInv /\ SendingInv /\ ScanInv
  /\ GoneInv /\ LetGoInv /\ TrackInv /\ AffectedReadable

----------------------------------------------------------------------------
(* Sequences and the sets of their elements                                *)

(* What a push does to the elements of a queue.                            *)
LEMMA AppendElements ==
  ASSUME NEW S, NEW s \in Seq(S), NEW e \in S
  PROVE  /\ Append(s, e) \in Seq(S)
         /\ Len(Append(s, e)) = Len(s) + 1
         /\ Elements(Append(s, e)) = Elements(s) \cup {e}
<1>1. /\ Append(s, e) \in Seq(S)
      /\ Len(s) \in Nat
      /\ DOMAIN s = 1 .. Len(s)
      /\ DOMAIN Append(s, e) = 1 .. Len(s) + 1
      /\ \A i \in 1 .. Len(s) : Append(s, e)[i] = s[i]
      /\ Append(s, e)[Len(s) + 1] = e
  OBVIOUS
<1>2. ASSUME NEW x \in Elements(Append(s, e)) PROVE x \in Elements(s) \cup {e}
  BY <1>1 DEF Elements
<1>3. ASSUME NEW x \in Elements(s) \cup {e} PROVE x \in Elements(Append(s, e))
  BY <1>1 DEF Elements
<1>4. QED
  BY <1>1, <1>2, <1>3

(* What a pop does.                                                        *)
LEMMA TailElements ==
  ASSUME NEW S, NEW s \in Seq(S), s # <<>>
  PROVE  /\ Tail(s) \in Seq(S)
         /\ Head(s) \in S
         /\ Elements(s) = {Head(s)} \cup Elements(Tail(s))
<1>1. /\ Tail(s) \in Seq(S)
      /\ Len(s) \in Nat \ {0}
      /\ DOMAIN s = 1 .. Len(s)
      /\ DOMAIN Tail(s) = 1 .. Len(s) - 1
      /\ \A i \in 1 .. Len(s) - 1 : Tail(s)[i] = s[i + 1]
      /\ Head(s) = s[1] /\ Head(s) \in S
  OBVIOUS
<1>2. ASSUME NEW x \in Elements(s) PROVE x \in {Head(s)} \cup Elements(Tail(s))
  <2>1. PICK i \in 1 .. Len(s) : x = s[i]
    BY <1>1 DEF Elements
  <2>2. CASE i = 1
    BY <2>1, <2>2, <1>1
  <2>3. CASE i # 1
    <3>1. i - 1 \in 1 .. Len(s) - 1 /\ Tail(s)[i - 1] = s[i]
      BY <2>3, <1>1
    <3>2. QED
      BY <3>1, <2>1, <1>1 DEF Elements
  <2>4. QED
    BY <2>2, <2>3
<1>3. ASSUME NEW x \in {Head(s)} \cup Elements(Tail(s)) PROVE x \in Elements(s)
  <2>1. CASE x = Head(s)
    BY <2>1, <1>1 DEF Elements
  <2>2. CASE x \in Elements(Tail(s))
    <3>1. PICK i \in 1 .. Len(s) - 1 : x = Tail(s)[i]
      BY <2>2, <1>1 DEF Elements
    <3>2. i + 1 \in 1 .. Len(s) /\ s[i + 1] = x
      BY <3>1, <1>1
    <3>3. QED
      BY <3>2, <1>1 DEF Elements
  <2>3. QED
    BY <2>1, <2>2
<1>4. QED
  BY <1>1, <1>2, <1>3

(* Taking the last one off.                                                *)
LEMMA FrontElements ==
  ASSUME NEW S, NEW s \in Seq(S), s # <<>>
  PROVE  /\ Front(s) \in Seq(S)
         /\ Last(s) \in S
         /\ DOMAIN Front(s) = 1 .. Len(s) - 1
         /\ \A i \in 1 .. Len(s) - 1 : Front(s)[i] = s[i]
         /\ Elements(s) = Elements(Front(s)) \cup {Last(s)}
<1>1. /\ Front(s) \in Seq(S)
      /\ Len(s) \in Nat \ {0}
      /\ DOMAIN s = 1 .. Len(s)
      /\ Last(s) = s[Len(s)] /\ Last(s) \in S
      /\ DOMAIN Front(s) = 1 .. Len(s) - 1
      /\ \A i \in 1 .. Len(s) - 1 : Front(s)[i] = s[i]
  BY DEF Front, Last
<1>2. ASSUME NEW x \in Elements(s) PROVE x \in Elements(Front(s)) \cup {Last(s)}
  BY <1>1 DEF Elements
<1>3. ASSUME NEW x \in Elements(Front(s)) \cup {Last(s)} PROVE x \in Elements(s)
  BY <1>1 DEF Elements
<1>4. QED
  BY <1>1, <1>2, <1>3

(* Appending one sequence to another.                                      *)
LEMMA ConcatElements ==
  ASSUME NEW S, NEW s \in Seq(S), NEW t \in Seq(S)
  PROVE  /\ s \o t \in Seq(S)
         /\ Len(s \o t) = Len(s) + Len(t)
         /\ DOMAIN (s \o t) = 1 .. Len(s) + Len(t)
         /\ \A i \in 1 .. Len(s) : (s \o t)[i] = s[i]
         /\ \A i \in 1 .. Len(t) : (s \o t)[Len(s) + i] = t[i]
         /\ Elements(s \o t) = Elements(s) \cup Elements(t)
<1>1. /\ s \o t \in Seq(S)
      /\ Len(s) \in Nat /\ Len(t) \in Nat
      /\ DOMAIN s = 1 .. Len(s) /\ DOMAIN t = 1 .. Len(t)
      /\ Len(s \o t) = Len(s) + Len(t)
      /\ DOMAIN (s \o t) = 1 .. Len(s) + Len(t)
      /\ \A i \in 1 .. Len(s) : (s \o t)[i] = s[i]
  OBVIOUS
<1>2. ASSUME NEW i \in 1 .. Len(t) PROVE (s \o t)[Len(s) + i] = t[i]
  BY <1>1
<1>3. ASSUME NEW x \in Elements(s \o t) PROVE x \in Elements(s) \cup Elements(t)
  <2>1. PICK i \in 1 .. Len(s) + Len(t) : x = (s \o t)[i]
    BY <1>1 DEF Elements
  <2>2. CASE i <= Len(s)
    BY <2>1, <2>2, <1>1 DEF Elements
  <2>3. CASE i > Len(s)
    <3>1. i - Len(s) \in 1 .. Len(t) /\ Len(s) + (i - Len(s)) = i
      BY <2>3, <1>1
    <3>2. x = t[i - Len(s)]
      BY <3>1, <2>1, <1>2
    <3>3. QED
      BY <3>1, <3>2, <1>1 DEF Elements
  <2>4. QED
    BY <2>2, <2>3, <1>1
<1>4. ASSUME NEW x \in Elements(s) PROVE x \in Elements(s \o t)
  BY <1>1 DEF Elements
<1>5. ASSUME NEW x \in Elements(t) PROVE x \in Elements(s \o t)
  <2>1. PICK i \in 1 .. Len(t) : x = t[i]
    BY <1>1 DEF Elements
  <2>2. Len(s) + i \in 1 .. Len(s) + Len(t)
    BY <1>1
  <2>3. (s \o t)[Len(s) + i] = x
    BY <1>2, <2>1
  <2>4. QED
    BY <2>2, <2>3, <1>1 DEF Elements
<1>6. QED
  BY <1>1, <1>2, <1>3, <1>4, <1>5

(* Nothing is in the empty sequence, and one thing in a sequence of one.   *)
LEMMA FewElements ==
  /\ Elements(<<>>) = {}
  /\ \A e : Elements(<<e>>) = {e}
  BY DEF Elements

(* Putting one back in front.                                              *)
LEMMA PrependElements ==
  ASSUME NEW S, NEW e \in S, NEW t \in Seq(S)
  PROVE  /\ <<e>> \o t \in Seq(S)
         /\ Elements(<<e>> \o t) = {e} \cup Elements(t)
<1>1. PICK s \in Seq(S) : s = <<e>>
  <2>1. <<e>> \in Seq(S)
    OBVIOUS
  <2>2. QED
    BY <2>1
<1>2. Elements(s) = {e}
  BY <1>1, FewElements
<1>3. s \o t \in Seq(S) /\ Elements(s \o t) = Elements(s) \cup Elements(t)
  BY ConcatElements
<1>4. QED
  BY <1>1, <1>2, <1>3

(* An order of a finite set lists each of its members once.                *)
LEMMA OrderElements ==
  ASSUME NEW S, IsFiniteSet(S), NEW order \in SetToSeqs(S)
  PROVE  /\ order \in Seq(S)
         /\ Elements(order) = S
         /\ \A i, j \in 1 .. Len(order) : order[i] = order[j] => i = j
<1> DEFINE n == Cardinality(S)
           D == 1 .. n
<1>1. /\ n \in Nat
      /\ order \in [D -> S]
      /\ \A i, j \in D : i # j => order[i] # order[j]
  BY FS_CardinalityType DEF SetToSeqs
<1>2. order \in Injection(D, S)
  BY <1>1 DEF Injection, IsInjective
<1>3. Cardinality(D) = n
  BY <1>1, FS_Interval
<1>4. order \in Surjection(D, S)
  BY <1>2, <1>3, FS_Injection
<1>5. order \in Seq(S) /\ DOMAIN order = D /\ Len(order) = n
  BY <1>1
<1>6. \A x \in S : \E i \in D : order[i] = x
  BY <1>4 DEF Surjection
<1>7. Elements(order) = S
  BY <1>1, <1>5, <1>6 DEF Elements
<1>8. QED
  BY <1>1, <1>5, <1>7

(* The smaller of two numbers.                                             *)
LEMMA MinOfTwo ==
  ASSUME NEW a \in Nat, NEW b \in Nat
  PROVE  Min({a, b}) = IF a <= b THEN a ELSE b
<1> DEFINE m == IF a <= b THEN a ELSE b
<1>1. m \in {a, b} /\ \A y \in {a, b} : m <= y
  OBVIOUS
<1>2. \A x \in {a, b} : (\A y \in {a, b} : x <= y) => x = m
  OBVIOUS
<1>3. QED
  BY <1>1, <1>2 DEF Min

----------------------------------------------------------------------------
(* Messages and steps                                                      *)

(* What a message is made of.                                              *)
LEMMA MessageFacts ==
  ASSUME NEW type \in {"none", "change", "rescan", "retirement", "stopped"}, NEW r \in Nat,
         NEW a \in SUBSET Node, NEW b \in SUBSET Node, type = "stopped" => b = {}
  PROVE  /\ Message(type, r, a, b) \in Messages
         /\ Message(type, r, a, b).type = type
         /\ Message(type, r, a, b).revision = r
         /\ Message(type, r, a, b).affected = a
         /\ Message(type, r, a, b).removed = b
  BY DEF Message, Messages

(* What is on its way are messages.                                        *)
LEMMA WayTypes ==
  ASSUME SessionTypes
  PROVE  /\ OnTheirWay \subseteq Messages
         /\ Elements(workerToQt) \subseteq Messages
         /\ Elements(deferred) \subseteq Messages
         /\ Elements(retired) \subseteq Node
         /\ Elements(acks) \subseteq Node
         /\ Elements(qtToWorker) \subseteq Node
  BY DEF SessionTypes, OnTheirWay, Elements

(* A step of one of the actions, each named.                               *)
LEMMA StepCases ==
  ASSUME [Next]_vars
  PROVE  \/ \E removed \in SUBSET live : \E affected \in SUBSET (live \ removed) :
              Commit(affected, removed)
         \/ SendDirect \/ SendCoalesced \/ SendWorkerStopped
         \/ Acknowledged
         \/ \E n \in Node : UiBind(n) \/ UiRelease(n)
         \/ HandleDeferred \/ HandleRescan \/ HandleQueued
         \/ CollectAccepted \/ CollectRefused
         \/ FlushOne
         \/ FinishWorker \/ BeginDrain \/ BeginDrainFails \/ ReceiveNothing \/ CollectLocked
         \/ FinishBusy \/ FinishQuiescent \/ FlushEnd \/ UNCHANGED vars
  BY DEF Next, WorkerStep, WorkerContinues, QtStep, PassStep, UiStep

(* Where the next page begins and ends, and what it shows.                 *)
LEMMA PageFacts ==
  ASSUME SessionTypes
  PROVE  /\ ScanOffset \in 0 .. Len(retired)
         /\ PageEnd \in ScanOffset .. Len(retired)
         /\ Page \subseteq Elements(retired)
         /\ \A i \in ScanOffset + 1 .. PageEnd : retired[i] \in Page
<1>1. /\ retired \in Seq(Node) /\ Len(retired) \in Nat /\ DOMAIN retired = 1 .. Len(retired)
      /\ scan.offset \in Nat
  BY DEF SessionTypes
<1>2. ScanOffset \in 0 .. Len(retired)
  BY <1>1, MinOfTwo DEF ScanOffset
<1>3. ScanOffset + PageSize \in Nat /\ ScanOffset + PageSize > ScanOffset
  BY <1>2, PageAssumption
<1>4. PageEnd \in ScanOffset .. Len(retired)
  BY <1>1, <1>2, <1>3, MinOfTwo DEF PageEnd
<1> DEFINE page == SubSeq(retired, ScanOffset + 1, PageEnd)
<1>5. /\ DOMAIN page = 1 .. PageEnd - ScanOffset
      /\ \A i \in 1 .. PageEnd - ScanOffset : page[i] = retired[ScanOffset + i]
  BY <1>1, <1>2, <1>4
<1>6. Page \subseteq Elements(retired)
  <2> SUFFICES ASSUME NEW i \in 1 .. PageEnd - ScanOffset
               PROVE  retired[ScanOffset + i] \in Elements(retired)
    BY <1>5 DEF Page, Elements
  <2>1. ScanOffset + i \in DOMAIN retired
    BY <1>1, <1>2, <1>4
  <2>2. QED
    BY <2>1 DEF Elements
<1>7. ASSUME NEW i \in ScanOffset + 1 .. PageEnd PROVE retired[i] \in Page
  <2>1. /\ i - ScanOffset \in 1 .. PageEnd - ScanOffset
        /\ ScanOffset + (i - ScanOffset) = i
    BY <1>2, <1>4
  <2>2. page[i - ScanOffset] = retired[i]
    BY <2>1, <1>5
  <2>3. QED
    BY <2>1, <2>2, <1>5 DEF Page, Elements
<1>8. QED
  BY <1>2, <1>4, <1>6, <1>7

(* What Qt was told of the nodes a scan has passed stays true of each of   *)
(* them when the order of the retired nodes does not change.               *)
LEMMA ScannedStayTold ==
  ASSUME SessionInv, retired' = retired, \A n \in Node : Told(n) => Told(n)', collecting
  PROVE  \A i \in 1 .. ScanOffset : Told(retired[i])'
<1> SUFFICES ASSUME NEW i \in 1 .. ScanOffset PROVE Told(retired[i])'
  OBVIOUS
<1>1. i \in 1 .. Len(retired) /\ retired \in Seq(Node)
  BY PageFacts DEF SessionInv, SessionTypes
<1>2. PICK n \in Node : n = retired[i]
  BY <1>1
<1>3. Told(n)'
  BY <1>2 DEF SessionInv, TrackInv
<1>4. QED
  BY <1>2, <1>3 DEF Told, Owed

(* Nothing has been removed and nothing is on its way.                     *)
LEMMA SessionInit == Init => SessionInv
<1> SUFFICES ASSUME Init PROVE SessionInv
  OBVIOUS
<1>1. /\ retired = <<>> /\ workerToQt = <<>> /\ deferred = <<>> /\ qtToWorker = <<>>
      /\ acks = <<>> /\ DOMAIN retired = {} /\ Len(retired) = 0
      /\ retired \in Seq(Node) /\ qtToWorker \in Seq(Node) /\ acks \in Seq(Node)
      /\ workerToQt \in Seq(Messages) /\ deferred \in Seq(Messages)
  BY DEF Init
<1>2. /\ sending = Message("none", 0, {}, {}) /\ sending \in Messages
      /\ sending.affected = {} /\ sending.removed = {}
  BY MessageFacts DEF Init, NoMessage
<1>3. scan \in [offset : Nat, known : BOOLEAN, generation : Nat] /\ ~scan.known
  BY DEF Init, UnknownScan
<1>4. OnTheirWay = {sending}
  BY <1>1, FewElements DEF OnTheirWay
<1>5. SessionTypes
  BY <1>1, <1>2, <1>3 DEF Init, SessionTypes
<1>6. IndexInv /\ SendingInv /\ ScanInv
  BY <1>1, <1>2, <1>3 DEF Init, IndexInv, SendingInv, ScanInv
<1>7. GoneInv /\ LetGoInv
  BY <1>1, <1>2, <1>4, FewElements DEF Init, GoneInv, LetGoInv, Owed
<1>8. TrackInv /\ AffectedReadable
  BY <1>1, <1>2, <1>4, FewElements DEF Init, TrackInv, AffectedReadable
<1>9. QED
  BY <1>5, <1>6, <1>7, <1>8 DEF SessionInv

(* The steps that only say where a thread is, or wake one: the flush of    *)
(* acknowledgements begins when nothing but the change the worker is about *)
(* to send is on its way.                                                  *)
LEMMA QuietStep ==
  ASSUME SessionInv,
         \/ FinishWorker \/ BeginDrain \/ BeginDrainFails \/ ReceiveNothing \/ CollectLocked
         \/ FinishBusy \/ FinishQuiescent \/ FlushEnd \/ UNCHANGED vars
  PROVE  SessionInv'
<1>1. UNCHANGED <<graphVars, sending, workerToQt, rescanRevision, qtToWorker, deferred,
                  scanVars, acks, uiVars>>
  BY DEF FinishWorker, BeginDrain, BeginDrainFails, ReceiveNothing, CollectLocked, FinishBusy,
         FinishQuiescent, FlushEnd, vars, workerVars, toQtVars, sessionVars
<1>2. (workerAt' = "send") <=> (workerAt = "send")
  BY DEF FinishWorker, BeginDrain, BeginDrainFails, ReceiveNothing, CollectLocked, FinishBusy,
         FinishQuiescent, FlushEnd, vars, workerVars
<1>3. drainAt' \in {"collect", "collectAfter"} => collecting
  <2>1. CASE BeginDrain
    BY <2>1 DEF BeginDrain
  <2>2. CASE CollectLocked
    BY <2>2 DEF CollectLocked, AfterCollect, AfterMessage
  <2>3. CASE ReceiveNothing \/ FinishBusy \/ FinishQuiescent \/ FlushEnd
    BY <2>3 DEF ReceiveNothing, FinishBusy, FinishQuiescent, FlushEnd
  <2>4. CASE FinishWorker \/ BeginDrainFails \/ UNCHANGED vars
    BY <2>4 DEF FinishWorker, BeginDrainFails, vars, sessionVars, SessionInv, ScanInv
  <2>5. QED
    BY <2>1, <2>2, <2>3, <2>4
<1>4. drainAt' = "flush" => drainAt = "flush" \/ (workerToQt = <<>> /\ deferred = <<>>)
  <2>1. CASE BeginDrain
    BY <2>1 DEF BeginDrain
  <2>2. CASE CollectLocked
    BY <2>2 DEF CollectLocked, AfterCollect, AfterMessage
  <2>3. CASE ReceiveNothing \/ FinishBusy \/ FinishQuiescent \/ FlushEnd
    BY <2>3 DEF ReceiveNothing, FinishBusy, FinishQuiescent, FlushEnd, Quiescent
  <2>4. CASE FinishWorker \/ BeginDrainFails \/ UNCHANGED vars
    BY <2>4 DEF FinishWorker, BeginDrainFails, vars, sessionVars
  <2>5. QED
    BY <2>1, <2>2, <2>3, <2>4
<1>5. /\ OnTheirWay' = OnTheirWay /\ Owed' = Owed /\ ScanOffset' = ScanOffset
      /\ RescanDue' = RescanDue /\ \A n \in Node : Told(n)' = Told(n)
  BY <1>1 DEF OnTheirWay, Owed, ScanOffset, RescanDue, Told, graphVars, scanVars, uiVars
<1>6. SessionTypes'
  BY <1>1 DEF SessionInv, SessionTypes, graphVars, scanVars, uiVars
<1>7. IndexInv' /\ AffectedReadable'
  BY <1>1, <1>5 DEF SessionInv, IndexInv, AffectedReadable, graphVars, uiVars
<1>8. SendingInv'
  BY <1>1, <1>2 DEF SessionInv, SendingInv, graphVars
<1>9. ScanInv'
  BY <1>1, <1>3 DEF SessionInv, ScanInv, graphVars, scanVars
<1>10. GoneInv'
  BY <1>1, <1>5 DEF SessionInv, GoneInv, graphVars
<1>11. LetGoInv'
  <2>1. ASSUME drainAt' = "flush", NEW m \in OnTheirWay
        PROVE  m.affected \cap Elements(acks) = {}
    <3>1. CASE drainAt = "flush"
      BY <3>1 DEF SessionInv, LetGoInv
    <3>2. CASE workerToQt = <<>> /\ deferred = <<>>
      <4>1. m = sending
        BY <3>2, <2>1, FewElements DEF OnTheirWay
      <4>2. QED
        BY <4>1 DEF SessionInv, SendingInv, GoneInv, Owed
    <3>3. QED
      BY <2>1, <1>4, <3>1, <3>2
  <2>2. QED
    BY <2>1, <1>1, <1>5 DEF SessionInv, LetGoInv, uiVars
<1>12. TrackInv'
  <2>1. Elements(retired) \subseteq Node
    BY WayTypes DEF SessionInv
  <2>2. /\ retired' = retired /\ collecting' = collecting
        /\ workerToQt' = workerToQt /\ sending' = sending
    BY <1>1 DEF graphVars, scanVars
  <2>3. collecting => \A i \in 1 .. ScanOffset : Told(retired[i])'
    BY <2>2, <1>5, ScannedStayTold
  <2>4. ~collecting => \A n \in Elements(retired) :
           \/ RescanDue \/ Told(n)
           \/ \E m \in Elements(workerToQt) \cup {sending} : n \in m.removed
    BY DEF SessionInv, TrackInv
  <2>5. QED
    BY <2>1, <2>2, <2>3, <2>4, <1>5 DEF TrackInv
<1>13. QED
  BY <1>6, <1>7, <1>8, <1>9, <1>10, <1>11, <1>12 DEF SessionInv

----------------------------------------------------------------------------
(* The worker                                                              *)

(* What removeMany does to the retired nodes: each new one is at its index,*)
(* behind the others.                                                      *)
LEMMA RetireFacts ==
  ASSUME SessionTypes, IndexInv,
         NEW removed \in SUBSET live, NEW affected, Commit(affected, removed)
  PROVE  /\ retired' \in Seq(Node) /\ parentIndex' \in [Node -> Nat]
         /\ Len(retired) <= Len(retired')
         /\ \A i \in 1 .. Len(retired) : retired'[i] = retired[i]
         /\ Elements(retired') = Elements(retired) \cup removed
         /\ IndexInv'
<1>1. /\ live \in SUBSET Node /\ removed \in SUBSET Node /\ retired \in Seq(Node)
      /\ Len(retired) \in Nat /\ DOMAIN retired = 1 .. Len(retired)
      /\ parentIndex \in [Node -> Nat]
  BY DEF SessionTypes
<1>2. IsFiniteSet(removed)
  BY <1>1, NodeAssumption, FS_Subset
<1>3. PICK order \in SetToSeqs(removed) : retired' = retired \o order
  BY DEF Commit
<1>4. /\ order \in Seq(removed) /\ order \in Seq(Node)
      /\ Len(order) \in Nat /\ DOMAIN order = 1 .. Len(order)
      /\ Elements(order) = removed
      /\ \A i, j \in 1 .. Len(order) : order[i] = order[j] => i = j
  BY <1>1, <1>2, OrderElements
<1>5. /\ retired' \in Seq(Node)
      /\ Len(retired') = Len(retired) + Len(order)
      /\ DOMAIN retired' = 1 .. Len(retired) + Len(order)
      /\ \A i \in 1 .. Len(retired) : retired'[i] = retired[i]
      /\ \A i \in 1 .. Len(order) : retired'[Len(retired) + i] = order[i]
      /\ Elements(retired') = Elements(retired) \cup removed
  <2> HIDE DEF SessionTypes
  <2>1. retired' = retired \o order /\ retired \in Seq(Node) /\ order \in Seq(Node)
    BY <1>1, <1>3, <1>4
  <2>2. QED
    BY <2>1, <1>4, ConcatElements
<1>6. \A i \in 1 .. Len(retired) : retired[i] \notin removed /\ retired[i] \notin live
  BY <1>1 DEF IndexInv
<1>7. ASSUME NEW i \in 1 .. Len(order)
      PROVE  /\ order[i] \in removed
             /\ \A k \in DOMAIN retired' : retired'[k] = order[i] => k = Len(retired) + i
  <2>1. order[i] \in removed
    BY <1>4 DEF Elements
  <2>2. ASSUME NEW k \in 1 .. Len(retired) + Len(order), retired'[k] = order[i]
        PROVE  k = Len(retired) + i
    <3>1. k > Len(retired)
      <4>1. SUFFICES ASSUME k \in 1 .. Len(retired) PROVE FALSE
        BY <1>1, <1>4
      <4>2. retired[k] \in removed
        BY <4>1, <2>1, <2>2, <1>5
      <4>3. QED
        BY <4>1, <4>2, <1>6
    <3>2. /\ k - Len(retired) \in 1 .. Len(order)
          /\ Len(retired) + (k - Len(retired)) = k
      BY <3>1, <1>1, <1>4
    <3>3. order[k - Len(retired)] = order[i]
      BY <3>2, <2>2, <1>5
    <3>4. k - Len(retired) = i
      BY <3>2, <3>3, <1>4
    <3>5. QED
      BY <3>2, <3>4, <1>1
  <2>3. QED
    BY <2>1, <2>2, <1>5
<1>8. /\ live' = live \ removed
      /\ parentIndex' = [n \in Node |->
           IF n \in removed
             THEN (CHOOSE i \in DOMAIN retired' : retired'[i] = n) - 1
             ELSE parentIndex[n]]
  BY DEF Commit
<1>9. ASSUME NEW i \in 1 .. Len(order)
      PROVE  parentIndex'[order[i]] = Len(retired) + i - 1
  <2> DEFINE n == order[i]
             at == CHOOSE k \in DOMAIN retired' : retired'[k] = n
  <2>1. n \in removed /\ n \in Node
    BY <1>7, <1>1
  <2>2. Len(retired) + i \in DOMAIN retired' /\ retired'[Len(retired) + i] = n
    BY <1>5, <1>1, <1>4
  <2>3. at \in DOMAIN retired' /\ retired'[at] = n
    BY <2>2
  <2>4. at = Len(retired) + i
    BY <2>3, <1>7
  <2>5. parentIndex'[n] = at - 1
    BY <2>1, <1>8
  <2> HIDE DEF at
  <2>6. QED
    BY <2>4, <2>5
<1>10. ASSUME NEW n \in Node PROVE parentIndex'[n] \in Nat
  <2>1. CASE n \in removed
    <3>1. PICK i \in 1 .. Len(order) : order[i] = n
      BY <2>1, <1>4 DEF Elements
    <3>2. QED
      BY <3>1, <1>9, <1>1, <1>4
  <2>2. CASE n \notin removed
    BY <2>2, <1>8, <1>1
  <2>3. QED
    BY <2>1, <2>2
<1>11. parentIndex' \in [Node -> Nat]
  BY <1>8, <1>10
<1>12. IndexInv'
  <2> SUFFICES ASSUME NEW i \in 1 .. Len(retired) + Len(order)
               PROVE  parentIndex'[retired'[i]] = i - 1 /\ retired'[i] \notin live'
    BY <1>5 DEF IndexInv
  <2>1. CASE i \in 1 .. Len(retired)
    <3>1. retired'[i] = retired[i] /\ retired[i] \in Node
      BY <2>1, <1>5, <1>1
    <3>2. parentIndex'[retired[i]] = parentIndex[retired[i]]
      BY <3>1, <2>1, <1>6, <1>8
    <3>3. QED
      BY <3>1, <3>2, <2>1, <1>1, <1>8 DEF IndexInv
  <2>2. CASE i \notin 1 .. Len(retired)
    <3>1. /\ i - Len(retired) \in 1 .. Len(order)
          /\ Len(retired) + (i - Len(retired)) = i
      BY <2>2, <1>1, <1>4
    <3>2. retired'[i] = order[i - Len(retired)]
      BY <3>1, <1>5
    <3>3. parentIndex'[order[i - Len(retired)]] = Len(retired) + (i - Len(retired)) - 1
      BY <3>1, <1>9
    <3>4. order[i - Len(retired)] \in removed
      BY <3>1, <1>7
    <3>5. QED
      BY <3>1, <3>2, <3>3, <3>4, <1>8
  <2>3. QED
    BY <2>1, <2>2
<1>13. QED
  BY <1>1, <1>4, <1>5, <1>11, <1>12

(* A transaction: what it removes is not yet Qt's, so nothing it is told   *)
(* or owes is about a node that is live.                                   *)
LEMMA CommitStep ==
  ASSUME SessionInv, NEW removed \in SUBSET live, NEW affected \in SUBSET (live \ removed),
         Commit(affected, removed)
  PROVE  SessionInv'
<1>1. SessionTypes /\ IndexInv
  BY DEF SessionInv
<1>2. /\ retired' \in Seq(Node) /\ parentIndex' \in [Node -> Nat]
      /\ Len(retired) <= Len(retired')
      /\ \A i \in 1 .. Len(retired) : retired'[i] = retired[i]
      /\ Elements(retired') = Elements(retired) \cup removed
      /\ IndexInv'
  BY <1>1, RetireFacts
<1>3. /\ revision \in Nat /\ live \in SUBSET Node
      /\ removed \in SUBSET Node /\ affected \in SUBSET Node
      /\ Len(retired) \in Nat /\ DOMAIN retired = 1 .. Len(retired) /\ Len(retired') \in Nat
  BY <1>1, <1>2 DEF SessionTypes
<1>4. /\ sending' = Message("change", revision + 1, affected, removed)
      /\ live' = live \ removed /\ revision' = revision + 1
      /\ workerAt = "idle" /\ workerAt' = "send"
      /\ UNCHANGED <<orderGeneration, toQtVars, qtToWorker, sessionVars, uiVars>>
  BY DEF Commit
<1>5. /\ sending' \in Messages /\ sending'.type = "change" /\ sending'.revision = revision + 1
      /\ sending'.affected = affected /\ sending'.removed = removed
  <2>1. revision + 1 \in Nat
    BY <1>3
  <2>2. QED
    BY <2>1, <1>3, <1>4, MessageFacts
<1>6. sending = Message("none", 0, {}, {})
  BY <1>4 DEF SessionInv, SendingInv, NoMessage
<1>7. sending.removed = {} /\ sending.type = "none"
  BY <1>6, MessageFacts
<1>8. /\ UNCHANGED <<workerToQt, rescanRevision, qtToWorker, deferred, scan, collecting,
                     acks, pendingDetach, retained, drainAt>>
  BY <1>4 DEF toQtVars, sessionVars, scanVars, uiVars
<1>9. /\ OnTheirWay = Elements(workerToQt) \cup Elements(deferred) \cup {sending}
      /\ OnTheirWay' = Elements(workerToQt) \cup Elements(deferred) \cup {sending'}
  BY <1>8 DEF OnTheirWay
<1>10. SessionTypes'
  BY <1>1, <1>2, <1>3, <1>4, <1>5, <1>8 DEF SessionTypes
<1>11. SendingInv'
  BY <1>3, <1>4, <1>5 DEF SendingInv
<1>12. ScanInv'
  BY <1>1, <1>2, <1>3, <1>4, <1>8 DEF SessionInv, ScanInv, SessionTypes
<1>13. GoneInv'
  BY <1>4, <1>5, <1>8, <1>9 DEF SessionInv, GoneInv, Owed
<1>14. LetGoInv'
  BY <1>4, <1>5, <1>8, <1>9 DEF SessionInv, LetGoInv, GoneInv, Owed
<1>15. ScanOffset' = ScanOffset
  <2>1. CASE scan.known /\ scan.generation = orderGeneration
    <3>1. scan.offset <= Len(retired) /\ scan.offset \in Nat
      BY <2>1, <1>1 DEF SessionInv, ScanInv, SessionTypes
    <3>2. Min({scan.offset, Len(retired)}) = scan.offset
      BY <3>1, <1>3, MinOfTwo
    <3>3. Min({scan.offset, Len(retired')}) = scan.offset
      <4>1. scan.offset <= Len(retired')
        BY <3>1, <1>2, <1>3
      <4>2. QED
        BY <3>1, <4>1, <1>3, MinOfTwo
    <3>4. QED
      BY <2>1, <3>2, <3>3, <1>4, <1>8 DEF ScanOffset
  <2>2. CASE ~(scan.known /\ scan.generation = orderGeneration)
    BY <2>2, <1>4, <1>8 DEF ScanOffset
  <2>3. QED
    BY <2>1, <2>2
<1>16. TrackInv'
  <2>1. \A n \in Node : Told(n) => Told(n)'
    BY <1>8 DEF Told, Owed
  <2>2. ASSUME collecting, NEW i \in 1 .. ScanOffset PROVE Told(retired[i])'
    <3>1. i \in 1 .. Len(retired)
      BY <1>1, PageFacts
    <3>2. retired[i] \in Node /\ retired'[i] = retired[i]
      BY <3>1, <1>1, <1>2 DEF SessionTypes
    <3>3. PICK n \in Node : n = retired[i] /\ n = retired'[i]
      BY <3>2
    <3>4. Told(n)'
      BY <3>3, <2>2, <2>1 DEF SessionInv, TrackInv
    <3>5. QED
      BY <3>3, <3>4 DEF Told, Owed
  <2>3. ASSUME ~collecting, NEW n \in Elements(retired) \cup removed
        PROVE  \/ RescanDue' \/ Told(n)'
               \/ \E m \in Elements(workerToQt) \cup {sending'} : n \in m.removed
    <3>1. CASE n \in removed
      BY <3>1, <1>5
    <3>2. CASE n \in Elements(retired)
      <4>1. n \in Node
        BY <3>2, <1>1, WayTypes
      <4>2. CASE RescanDue
        BY <4>2, <1>7, <1>8, <1>9 DEF RescanDue
      <4>3. CASE Told(n)
        BY <4>3, <4>1, <2>1
      <4>4. CASE \E m \in Elements(workerToQt) \cup {sending} : n \in m.removed
        BY <4>4, <1>7
      <4>5. QED
        BY <2>3, <3>2, <4>2, <4>3, <4>4 DEF SessionInv, TrackInv
    <3>3. QED
      BY <3>1, <3>2
  <2>4. QED
    BY <2>2, <2>3, <1>2, <1>8, <1>15 DEF TrackInv
<1>17. AffectedReadable'
  BY <1>2, <1>4, <1>5, <1>8, <1>9 DEF SessionInv, AffectedReadable
<1>18. QED
  BY <1>2, <1>10, <1>11, <1>12, <1>13, <1>14, <1>16, <1>17 DEF SessionInv

(* The change goes into the queue, or a rescan is asked for in its stead.  *)
LEMMA SendStep ==
  ASSUME SessionInv, SendDirect \/ SendCoalesced
  PROVE  SessionInv'
<1>1. /\ sending' = NoMessage /\ NoMessage \in Messages
      /\ NoMessage.affected = {} /\ NoMessage.removed = {} /\ NoMessage.type = "none"
  <2>1. sending' = NoMessage /\ NoMessage = Message("none", 0, {}, {})
    BY DEF SendDirect, SendCoalesced, NoMessage
  <2>2. QED
    BY <2>1, MessageFacts
<1>2. /\ workerAt = "send" /\ workerAt' = "idle" /\ sending.revision # 0
      /\ sending \in Messages /\ sending.revision \in Nat
  BY DEF SendDirect, SendCoalesced, SessionInv, SessionTypes, SendingInv, Messages
<1>3. UNCHANGED <<graphVars, qtToWorker, sessionVars, uiVars>>
  BY DEF SendDirect, SendCoalesced
<1>4. UNCHANGED <<revision, live, retired, parentIndex, orderGeneration, qtToWorker, deferred,
                  scan, collecting, acks, pendingDetach, retained, drainAt>>
  BY <1>3 DEF graphVars, sessionVars, scanVars, uiVars
<1>5. \/ /\ workerToQt' \in Seq(Messages)
         /\ Elements(workerToQt') = Elements(workerToQt) \cup {sending}
         /\ rescanRevision' = rescanRevision
      \/ workerToQt' = workerToQt /\ rescanRevision' # 0 /\ rescanRevision' \in Nat
  <2>1. CASE SendDirect
    BY <2>1, <1>2, AppendElements DEF SendDirect, SessionInv, SessionTypes
  <2>2. CASE SendCoalesced
    BY <2>2, <1>2 DEF SendCoalesced
  <2>3. QED
    BY <2>1, <2>2
<1>6. /\ OnTheirWay = Elements(workerToQt) \cup Elements(deferred) \cup {sending}
      /\ OnTheirWay' = Elements(workerToQt') \cup Elements(deferred) \cup {NoMessage}
  BY <1>1, <1>4 DEF OnTheirWay
<1>7. OnTheirWay' \subseteq OnTheirWay \cup {NoMessage}
  BY <1>5, <1>6
<1>8. SessionTypes'
  BY <1>1, <1>4, <1>5 DEF SessionInv, SessionTypes
<1>9. IndexInv' /\ ScanInv'
  BY <1>4 DEF SessionInv, IndexInv, ScanInv
<1>10. SendingInv'
  BY <1>1, <1>2 DEF SendingInv
<1>11. GoneInv'
  BY <1>1, <1>4, <1>7 DEF SessionInv, GoneInv, Owed
<1>12. LetGoInv'
  BY <1>1, <1>4, <1>7 DEF SessionInv, LetGoInv
<1>13. AffectedReadable'
  BY <1>1, <1>4, <1>7 DEF SessionInv, AffectedReadable
<1>14. TrackInv'
  <2>1. \A n \in Node : Told(n) => Told(n)'
    BY <1>4 DEF Told, Owed
  <2>2. ScanOffset' = ScanOffset
    BY <1>4 DEF ScanOffset
  <2>3. collecting => \A i \in 1 .. ScanOffset : Told(retired[i])'
    BY <2>1, <1>4, ScannedStayTold
  <2>4. ASSUME ~collecting, NEW n \in Elements(retired)
        PROVE  \/ RescanDue' \/ Told(n)'
               \/ \E m \in Elements(workerToQt') \cup {sending'} : n \in m.removed
    <3>1. n \in Node
      BY <2>4, WayTypes DEF SessionInv
    <3>2. CASE rescanRevision' # 0
      BY <3>2 DEF RescanDue
    <3>3. CASE /\ Elements(workerToQt') = Elements(workerToQt) \cup {sending}
               /\ rescanRevision' = rescanRevision
      <4>1. RescanDue => RescanDue'
        BY <3>3, <1>6 DEF RescanDue
      <4>2. \/ RescanDue \/ Told(n)
            \/ \E m \in Elements(workerToQt) \cup {sending} : n \in m.removed
        BY <2>4 DEF SessionInv, TrackInv
      <4>3. QED
        BY <4>1, <4>2, <3>1, <3>3, <2>1
    <3>4. QED
      BY <3>2, <3>3, <1>5
  <2>5. QED
    BY <2>2, <2>3, <2>4, <1>4 DEF TrackInv
<1>15. QED
  BY <1>8, <1>9, <1>10, <1>11, <1>12, <1>13, <1>14 DEF SessionInv

(* The last message of the worker names no node.                           *)
LEMMA StopStep ==
  ASSUME SessionInv, SendWorkerStopped
  PROVE  SessionInv'
<1> DEFINE last == Message("stopped", 0, {}, {})
<1>1. last \in Messages /\ last.affected = {} /\ last.removed = {} /\ last.type = "stopped"
  BY MessageFacts
<1> HIDE DEF last
<1>2. /\ workerToQt' = Append(workerToQt, last) /\ workerAt = "idle" /\ workerAt' = "stopping"
      /\ UNCHANGED <<graphVars, sending, rescanRevision, queuedTurn, qtToWorker,
                     sessionVars, uiVars>>
  BY DEF SendWorkerStopped, last
<1>3. UNCHANGED <<revision, live, retired, parentIndex, orderGeneration, sending, rescanRevision,
                  qtToWorker, deferred, scan, collecting, acks, pendingDetach, retained, drainAt>>
  BY <1>2 DEF graphVars, sessionVars, scanVars, uiVars
<1>4. /\ workerToQt' \in Seq(Messages)
      /\ Elements(workerToQt') = Elements(workerToQt) \cup {last}
  BY <1>1, <1>2, AppendElements DEF SessionInv, SessionTypes
<1>5. OnTheirWay' = OnTheirWay \cup {last}
  BY <1>3, <1>4 DEF OnTheirWay
<1>6. SessionTypes'
  BY <1>3, <1>4 DEF SessionInv, SessionTypes
<1>7. IndexInv' /\ ScanInv' /\ SendingInv'
  BY <1>2, <1>3 DEF SessionInv, IndexInv, ScanInv, SendingInv
<1>8. GoneInv'
  BY <1>1, <1>3, <1>5 DEF SessionInv, GoneInv, Owed
<1>9. LetGoInv' /\ AffectedReadable'
  BY <1>1, <1>3, <1>5 DEF SessionInv, LetGoInv, AffectedReadable
<1>10. TrackInv'
  <2>1. ScanOffset' = ScanOffset /\ (RescanDue => RescanDue')
    BY <1>3, <1>5 DEF ScanOffset, RescanDue
  <2>2. \A n \in Node : Told(n) => Told(n)'
    BY <1>3 DEF Told, Owed
  <2>3. collecting => \A i \in 1 .. ScanOffset : Told(retired[i])'
    BY <2>2, <1>3, ScannedStayTold
  <2>4. ASSUME ~collecting, NEW n \in Elements(retired)
        PROVE  \/ RescanDue' \/ Told(n)'
               \/ \E m \in Elements(workerToQt') \cup {sending'} : n \in m.removed
    <3>1. n \in Node
      BY <2>4, WayTypes DEF SessionInv
    <3>2. \/ RescanDue \/ Told(n)
          \/ \E m \in Elements(workerToQt) \cup {sending} : n \in m.removed
      BY <2>4 DEF SessionInv, TrackInv
    <3>3. QED
      BY <3>1, <3>2, <2>1, <2>2, <1>3, <1>4
  <2>5. QED
    BY <2>1, <2>3, <2>4, <1>3 DEF TrackInv
<1>11. QED
  BY <1>6, <1>7, <1>8, <1>9, <1>10 DEF SessionInv

(* releaseRetired takes exactly the one node out of retiredNodes_, and the *)
(* one that takes its place knows its new index; only this changes the     *)
(* order of the others.                                                    *)
LEMMA ReleaseFacts ==
  ASSUME SessionTypes, IndexInv, NEW n \in Node, ReleaseRetired(n), UNCHANGED live
  PROVE  /\ retired' \in Seq(Node) /\ parentIndex' \in [Node -> Nat] /\ orderGeneration' \in Nat
         /\ Elements(retired') = Elements(retired) \ {n}
         /\ IndexInv'
         /\ \/ UNCHANGED <<retired, orderGeneration>>
            \/ orderGeneration' = orderGeneration + 1
<1>1. /\ retired \in Seq(Node) /\ Len(retired) \in Nat /\ DOMAIN retired = 1 .. Len(retired)
      /\ parentIndex \in [Node -> Nat] /\ parentIndex[n] \in Nat /\ orderGeneration \in Nat
  BY DEF SessionTypes
<1>2. \A i, j \in 1 .. Len(retired) : retired[i] = retired[j] => i = j
  <2> SUFFICES ASSUME NEW i \in 1 .. Len(retired), NEW j \in 1 .. Len(retired),
                      retired[i] = retired[j]
               PROVE  i = j
    OBVIOUS
  <2>1. parentIndex[retired[i]] = i - 1 /\ parentIndex[retired[j]] = j - 1
    BY <1>1 DEF IndexInv
  <2>2. QED
    BY <2>1
<1>3. CASE ~IsRetiredAt(n, parentIndex[n])
  <2>1. UNCHANGED <<retired, parentIndex, orderGeneration>>
    BY <1>3 DEF ReleaseRetired
  <2>2. ASSUME NEW i \in 1 .. Len(retired), retired[i] = n PROVE FALSE
    <3>1. parentIndex[n] = i - 1
      BY <2>2, <1>1 DEF IndexInv
    <3>2. parentIndex[n] < Len(retired) /\ parentIndex[n] + 1 = i
      BY <3>1, <1>1
    <3>3. QED
      BY <3>2, <2>2, <1>3 DEF IsRetiredAt
  <2>3. n \notin Elements(retired)
    BY <2>2, <1>1 DEF Elements
  <2>4. QED
    BY <2>1, <2>3, <1>1 DEF IndexInv
<1>4. CASE IsRetiredAt(n, parentIndex[n])
  <2> DEFINE place == parentIndex[n] + 1
             last == Last(retired)
             moved == [retired EXCEPT ![place] = last]
  <2>1. /\ place \in 1 .. Len(retired) /\ retired[place] = n /\ parentIndex[n] = place - 1
        /\ Len(retired) \in Nat \ {0}
    BY <1>1, <1>4 DEF IsRetiredAt
  <2>2. last = retired[Len(retired)] /\ last \in Node
    BY <1>1, <2>1 DEF Last
  <2>3. /\ retired' = Front(moved)
        /\ parentIndex' = [parentIndex EXCEPT ![last] = place - 1, ![n] = 0]
        /\ orderGeneration' = orderGeneration + 1
    BY <1>4, <2>1 DEF ReleaseRetired
  <2> HIDE DEF place, last
  <2>4. /\ moved \in Seq(Node) /\ Len(moved) = Len(retired) /\ moved # <<>>
        /\ \A i \in 1 .. Len(retired) : moved[i] = IF i = place THEN last ELSE retired[i]
    BY <1>1, <2>1, <2>2
  <2> HIDE DEF moved
  <2>5. /\ retired' \in Seq(Node) /\ DOMAIN retired' = 1 .. Len(retired) - 1
        /\ \A i \in 1 .. Len(retired) - 1 : retired'[i] = moved[i]
    BY <2>3, <2>4, FrontElements
  <2>6. ASSUME NEW i \in 1 .. Len(retired) - 1
        PROVE  /\ i \in 1 .. Len(retired) /\ i # Len(retired)
               /\ retired'[i] = IF i = place THEN last ELSE retired[i]
    <3>1. Len(retired) \in Nat
      BY <2>1
    <3>2. i \in 1 .. Len(retired) /\ i # Len(retired)
      BY <3>1
    <3>3. QED
      BY <3>2, <2>4, <2>5
  <2>7. ASSUME NEW i \in 1 .. Len(retired) - 1
        PROVE  /\ retired'[i] # n /\ retired'[i] \in Elements(retired)
               /\ parentIndex'[retired'[i]] = i - 1
               /\ retired'[i] \notin live
    <3>1. i \in 1 .. Len(retired) /\ i # Len(retired) /\ Len(retired) \in 1 .. Len(retired)
      <4>1. Len(retired) \in Nat /\ Len(retired) # 0
        BY <2>1
      <4>2. QED
        BY <4>1, <2>6
    <3>2. CASE i = place
      <4>1. retired'[i] = retired[Len(retired)] /\ last # n
        BY <3>1, <3>2, <2>1, <2>2, <2>6, <1>2
      <4>2. parentIndex'[last] = place - 1
        BY <4>1, <2>2, <2>3, <1>1
      <4>3. retired[Len(retired)] \in Elements(retired) /\ retired[Len(retired)] \notin live
        BY <3>1, <1>1 DEF Elements, IndexInv
      <4>4. QED
        BY <4>1, <4>2, <4>3, <3>2, <2>2
    <3>3. CASE i # place
      <4>1. retired'[i] = retired[i] /\ retired[i] # n /\ retired[i] # last /\ retired[i] \in Node
        <5>1. retired'[i] = retired[i]
          BY <3>3, <2>6
        <5>2. retired[i] # retired[place] /\ retired[i] # retired[Len(retired)]
          BY <3>1, <3>3, <2>1, <1>2
        <5>3. retired[i] \in Node
          <6>1. retired \in Seq(Node) /\ i \in 1 .. Len(retired)
            BY <3>1, <1>1
          <6>2. QED
            BY <6>1
        <5>4. QED
          BY <5>1, <5>2, <5>3, <2>1, <2>2
      <4>2. parentIndex'[retired[i]] = parentIndex[retired[i]]
        BY <4>1, <2>3, <1>1
      <4>3. QED
        BY <4>1, <4>2, <3>1, <1>1 DEF Elements, IndexInv
    <3>4. QED
      BY <3>2, <3>3
  <2>8. ASSUME NEW x \in Elements(retired), x # n PROVE x \in Elements(retired')
    <3>1. PICK i \in 1 .. Len(retired) : x = retired[i]
      BY <2>8, <1>1 DEF Elements
    <3>2. i # place
      BY <3>1, <2>8, <2>1
    <3>3. CASE i = Len(retired)
      <4>1. place \in 1 .. Len(retired) - 1
        BY <3>2, <3>3, <2>1, <1>1
      <4>2. retired'[place] = last
        BY <4>1, <2>6
      <4>3. QED
        BY <4>1, <4>2, <3>1, <3>3, <2>2, <2>5 DEF Elements
    <3>4. CASE i # Len(retired)
      <4>1. i \in 1 .. Len(retired) - 1
        <5>1. Len(retired) \in Nat /\ i \in 1 .. Len(retired)
          BY <2>1
        <5>2. QED
          BY <5>1, <3>4
      <4>2. retired'[i] = x
        BY <4>1, <3>1, <3>2, <2>6
      <4>3. QED
        BY <4>1, <4>2, <2>5 DEF Elements
    <3>5. QED
      BY <3>3, <3>4
  <2>9. Elements(retired') = Elements(retired) \ {n}
    <3>1. ASSUME NEW x \in Elements(retired') PROVE x \in Elements(retired) /\ x # n
      <4>1. PICK i \in 1 .. Len(retired) - 1 : x = retired'[i]
        BY <3>1, <2>5 DEF Elements
      <4>2. QED
        BY <4>1, <2>7
    <3>2. QED
      BY <3>1, <2>8
  <2>10. parentIndex' \in [Node -> Nat]
    BY <1>1, <2>1, <2>2, <2>3
  <2>11. IndexInv'
    BY <2>5, <2>7 DEF IndexInv
  <2>12. QED
    BY <1>1, <2>3, <2>5, <2>9, <2>10, <2>11
<1>5. QED
  BY <1>3, <1>4

(* The worker lets a node go when Qt has acknowledged it; no pane holds it *)
(* and no change on its way affects it.                                    *)
LEMMA AcknowledgedStep ==
  ASSUME SessionInv, Acknowledged
  PROVE  SessionInv'
<1>1. SessionTypes /\ IndexInv /\ qtToWorker \in Seq(Node) /\ qtToWorker # <<>>
  BY DEF SessionInv, SessionTypes, Acknowledged
<1>2. PICK n \in Node : /\ n = Head(qtToWorker) /\ n \in Elements(qtToWorker)
                       /\ Elements(qtToWorker) = Elements(qtToWorker') \cup {n}
                       /\ qtToWorker' \in Seq(Node)
  BY <1>1, TailElements DEF Acknowledged
<1>3. /\ ReleaseRetired(n)
      /\ UNCHANGED <<revision, live, workerVars, toQtVars, sessionVars, uiVars>>
  BY <1>2 DEF Acknowledged
<1>4. UNCHANGED <<revision, live, workerAt, sending, workerToQt, rescanRevision, deferred, scan,
                  collecting, acks, pendingDetach, retained, drainAt>>
  BY <1>3 DEF workerVars, toQtVars, sessionVars, scanVars, uiVars
<1>5. /\ retired' \in Seq(Node) /\ parentIndex' \in [Node -> Nat] /\ orderGeneration' \in Nat
      /\ Elements(retired') = Elements(retired) \ {n}
      /\ IndexInv'
      /\ \/ UNCHANGED <<retired, orderGeneration>>
         \/ orderGeneration' = orderGeneration + 1
  BY <1>1, <1>3, <1>4, ReleaseFacts
<1>6. OnTheirWay' = OnTheirWay /\ Owed' = Owed /\ RescanDue' = RescanDue
  BY <1>4 DEF OnTheirWay, Owed, RescanDue
<1>7. SessionTypes'
  BY <1>1, <1>2, <1>4, <1>5 DEF SessionTypes
<1>8. SendingInv'
  BY <1>4 DEF SessionInv, SendingInv
<1>9. ScanInv' /\ (orderGeneration' = orderGeneration + 1 => ScanOffset' = 0)
  <2>1. orderGeneration \in Nat /\ scan.generation \in Nat
    BY <1>1 DEF SessionTypes
  <2>2. ScanInv'
    BY <2>1, <1>4, <1>5 DEF SessionInv, ScanInv
  <2>3. orderGeneration' = orderGeneration + 1 => ~(scan.known /\ scan.generation = orderGeneration')
    BY <2>1 DEF SessionInv, ScanInv
  <2>4. QED
    BY <2>2, <2>3, <1>4 DEF ScanOffset
<1>10. GoneInv'
  BY <1>2, <1>4, <1>6 DEF SessionInv, GoneInv
<1>11. LetGoInv'
  BY <1>2, <1>4, <1>6 DEF SessionInv, LetGoInv
<1>12. AffectedReadable'
  <2>1. n \notin retained /\ \A m \in OnTheirWay : n \notin m.affected
    BY <1>2 DEF SessionInv, LetGoInv
  <2>2. QED
    BY <2>1, <1>4, <1>5, <1>6 DEF SessionInv, AffectedReadable
<1>13. TrackInv'
  <2>1. \A k \in Node : k # n /\ Told(k) => Told(k)'
    BY <1>2, <1>4, <1>6 DEF Told
  <2>2. ASSUME ~collecting, NEW k \in Elements(retired')
        PROVE  \/ RescanDue' \/ Told(k)'
               \/ \E m \in Elements(workerToQt') \cup {sending'} : k \in m.removed
    <3>1. k # n /\ k \in Node /\ k \in Elements(retired)
      BY <2>2, <1>1, <1>5, WayTypes
    <3>2. \/ RescanDue \/ Told(k)
          \/ \E m \in Elements(workerToQt) \cup {sending} : k \in m.removed
      BY <3>1, <2>2 DEF SessionInv, TrackInv
    <3>3. QED
      BY <3>1, <3>2, <2>1, <1>4, <1>6
  <2>3. ASSUME collecting, UNCHANGED <<retired, orderGeneration>>
        PROVE  \A i \in 1 .. ScanOffset' : Told(retired[i])'
    <3>1. ScanOffset' = ScanOffset
      BY <2>3, <1>4 DEF ScanOffset
    <3> SUFFICES ASSUME NEW i \in 1 .. ScanOffset PROVE Told(retired[i])'
      BY <3>1
    <3>2. i \in DOMAIN retired /\ retired \in Seq(Node)
      BY <1>1, PageFacts DEF SessionTypes
    <3>3. PICK k \in Node : k = retired[i] /\ k \in Elements(retired)
      BY <3>2 DEF Elements
    <3>4. k # n
      BY <3>3, <2>3, <1>5
    <3>5. Told(k)'
      BY <3>3, <3>4, <2>1, <2>3 DEF SessionInv, TrackInv
    <3>6. QED
      BY <3>3, <3>5, <2>3 DEF Told, Owed
  <2>4. ASSUME orderGeneration' = orderGeneration + 1 PROVE 1 .. ScanOffset' = {}
    BY <2>4, <1>9
  <2>5. QED
    BY <2>2, <2>3, <2>4, <1>4, <1>5 DEF TrackInv
<1>14. QED
  BY <1>5, <1>7, <1>8, <1>9, <1>10, <1>11, <1>12, <1>13 DEF SessionInv

----------------------------------------------------------------------------
(* The panes                                                               *)

(* acknowledgeDetachedTargets forgets none of the nodes that are detaching,*)
(* and acknowledges none that a pane still holds.                          *)
LEMMA DetachFacts ==
  ASSUME SessionTypes, NEW detaching \in SUBSET Node, AcknowledgeDetached(detaching)
  PROVE  /\ acks' \in Seq(Node) /\ pendingDetach' \in SUBSET Node
         /\ Owed' = detaching \cup Elements(acks)
         /\ Elements(acks') \cap retained' \subseteq Elements(acks)
<1> DEFINE detached == detaching \ (retained' \cup routed')
           fresh == detached \ Elements(acks)
<1>1. acks \in Seq(Node) /\ fresh \in SUBSET Node
  BY DEF SessionTypes
<1>2. IsFiniteSet(fresh)
  BY <1>1, NodeAssumption, FS_Subset
<1>3. /\ pendingDetach' = detaching \ detached
      /\ \E order \in SetToSeqs(fresh) : acks' = acks \o order
  BY DEF AcknowledgeDetached, QueueAcks
<1> HIDE DEF fresh
<1>4. acks' \in Seq(Node) /\ Elements(acks') = Elements(acks) \cup fresh
  <2>1. PICK order \in SetToSeqs(fresh) : acks' = acks \o order
    BY <1>3
  <2>2. order \in Seq(Node) /\ Elements(order) = fresh
    BY <1>1, <1>2, OrderElements
  <2>3. QED
    BY <1>1, <2>1, <2>2, ConcatElements
<1>5. QED
  BY <1>3, <1>4 DEF fresh, Owed

(* A handler that takes notice of removed nodes owes them from then on.    *)
LEMMA NoticeFacts ==
  ASSUME SessionTypes, NEW affected, NEW removed \in SUBSET Node, TakeNotice(affected, removed)
  PROVE  /\ acks' \in Seq(Node) /\ pendingDetach' \in SUBSET Node
         /\ Owed' = Owed \cup removed
         /\ retained' \subseteq retained
         /\ Elements(acks') \cap retained' \subseteq Elements(acks)
<1>1. pendingDetach \cup removed \in SUBSET Node
  BY DEF SessionTypes
<1>2. AcknowledgeDetached(pendingDetach \cup removed) /\ retained' \subseteq retained
  BY DEF TakeNotice
<1>3. QED
  BY <1>1, <1>2, DetachFacts DEF Owed

(* A pane binds a live node, or lets go of one.                            *)
LEMMA UiStepKeeps ==
  ASSUME SessionInv, NEW n \in Node, UiBind(n) \/ UiRelease(n)
  PROVE  SessionInv'
<1>1. SessionTypes
  BY DEF SessionInv
<1>2. UNCHANGED <<revision, live, retired, parentIndex, orderGeneration, workerAt, sending,
                  workerToQt, rescanRevision, qtToWorker, deferred, scan, collecting, drainAt>>
  BY DEF UiBind, UiRelease, graphVars, workerVars, toQtVars, sessionVars, scanVars
<1>3. drainAt = "out"
  BY DEF UiBind, UiRelease
<1>4. /\ acks' \in Seq(Node) /\ pendingDetach' \in SUBSET Node
      /\ Owed' = Owed
      /\ retained' \subseteq retained \cup live
      /\ retained' \cap Elements(acks') = {}
  <2>1. CASE UiBind(n)
    <3>1. /\ n \in live /\ retained' = retained \cup {n}
          /\ acks' = acks /\ pendingDetach' = pendingDetach
      BY <2>1 DEF UiBind, sessionVars
    <3>2. retained \cap Elements(acks) = {} /\ Elements(acks) \cap live = {}
      BY DEF SessionInv, LetGoInv, GoneInv, Owed
    <3>3. QED
      BY <3>1, <3>2, <1>1 DEF Owed, SessionTypes
  <2>2. CASE UiRelease(n)
    <3>1. AcknowledgeDetached(pendingDetach) /\ pendingDetach \in SUBSET Node
          /\ retained' \subseteq retained
      BY <2>2, <1>1 DEF UiRelease, SessionTypes
    <3>2. retained \cap Elements(acks) = {}
      BY DEF SessionInv, LetGoInv
    <3>3. QED
      BY <3>1, <3>2, <1>1, DetachFacts DEF Owed
  <2>3. QED
    BY <2>1, <2>2
<1>5. OnTheirWay' = OnTheirWay /\ ScanOffset' = ScanOffset /\ RescanDue' = RescanDue
  BY <1>2 DEF OnTheirWay, ScanOffset, RescanDue
<1>6. \A k \in Node : Told(k)' = Told(k)
  BY <1>2, <1>4 DEF Told
<1>7. SessionTypes'
  BY <1>1, <1>2, <1>4 DEF SessionTypes
<1>8. IndexInv' /\ SendingInv' /\ ScanInv'
  BY <1>2 DEF SessionInv, IndexInv, SendingInv, ScanInv
<1>9. GoneInv'
  BY <1>2, <1>4, <1>5 DEF SessionInv, GoneInv
<1>10. LetGoInv'
  <2>1. retained' \cap Elements(qtToWorker) = {}
    BY <1>4 DEF SessionInv, LetGoInv, GoneInv
  <2>2. QED
    BY <2>1, <1>2, <1>3, <1>4, <1>5 DEF SessionInv, LetGoInv
<1>11. AffectedReadable'
  BY <1>2, <1>4, <1>5 DEF SessionInv, AffectedReadable
<1>12. TrackInv'
  <2>1. collecting => \A i \in 1 .. ScanOffset : Told(retired[i])'
    BY <1>2, <1>6, ScannedStayTold
  <2>2. Elements(retired) \subseteq Node
    BY <1>1, WayTypes
  <2>3. ~collecting => \A k \in Elements(retired) :
           \/ RescanDue \/ Told(k)
           \/ \E m \in Elements(workerToQt) \cup {sending} : k \in m.removed
    BY DEF SessionInv, TrackInv
  <2>4. QED
    BY <2>1, <2>2, <2>3, <1>2, <1>5, <1>6 DEF TrackInv
<1>13. QED
  BY <1>7, <1>8, <1>9, <1>10, <1>11, <1>12 DEF SessionInv

----------------------------------------------------------------------------
(* A drain pass                                                            *)

(* What a handler does with a message: it takes notice of what was removed *)
(* or the message is at the front of the deferred ones again; and a scan   *)
(* goes on, or begins.                                                     *)
LEMMA HandleFacts ==
  ASSUME SessionInv, NEW message \in Messages, NEW rest \in Seq(Messages),
         Handle(message, rest)
  PROVE  /\ deferred' \in Seq(Messages)
         /\ Elements(rest) \subseteq Elements(deferred')
         /\ Elements(deferred') \subseteq {message} \cup Elements(rest)
         /\ acks' \in Seq(Node) /\ pendingDetach' \in SUBSET Node
         /\ Owed \subseteq Owed' /\ Owed' \subseteq Owed \cup message.removed
         /\ \/ message \in Elements(deferred')
            \/ message.removed \subseteq Owed' /\ (message.type = "rescan" => collecting')
         /\ retained' \subseteq retained
         /\ Elements(acks') \cap retained' \subseteq Elements(acks)
         /\ \/ collecting' = collecting /\ scan' = scan
            \/ collecting' /\ scan' = (IF collecting THEN scan ELSE UnknownScan)
         /\ drainAt' \in {"loop", "finish", "collectAfter"}
         /\ drainAt' = "collectAfter" => collecting'
<1>1. SessionTypes /\ acks \in Seq(Node) /\ pendingDetach \in SUBSET Node
  BY DEF SessionInv, SessionTypes
<1>2. message.removed \in SUBSET Node /\ (message.type = "stopped" => message.removed = {})
  BY DEF Messages
<1>3. /\ <<message>> \o rest \in Seq(Messages)
      /\ Elements(<<message>> \o rest) = {message} \cup Elements(rest)
  BY PrependElements
<1>4. CASE Stopped(message, rest)
  <2>1. /\ message.type = "stopped" /\ deferred' = rest
        /\ drainAt' \in AfterMessage(rest)
        /\ UNCHANGED <<collecting, scan, acks, retained, pendingDetach>>
    BY <1>4 DEF Stopped, uiVars
  <2>2. QED
    BY <2>1, <1>1, <1>2 DEF AfterMessage, Owed
<1>5. CASE Refused(message, rest) \/ FilesystemRefused(message, rest)
  <2>1. /\ deferred' = <<message>> \o rest
        /\ UNCHANGED <<acks, retained, pendingDetach>>
    BY <1>5 DEF Refused, FilesystemRefused, uiVars
  <2>2. \/ AfterRescan
        \/ drainAt' = "finish" /\ UNCHANGED <<collecting, scan>>
    BY <1>5 DEF Refused, FilesystemRefused
  <2>3. /\ \/ collecting' = collecting /\ scan' = scan
           \/ collecting' /\ scan' = (IF collecting THEN scan ELSE UnknownScan)
        /\ drainAt' \in {"loop", "finish", "collectAfter"}
        /\ drainAt' = "collectAfter" => collecting'
    BY <2>2 DEF AfterRescan
  <2>4. /\ Owed \subseteq Owed' /\ Owed' \subseteq Owed \cup message.removed
        /\ acks' \in Seq(Node) /\ pendingDetach' \in SUBSET Node
        /\ retained' \subseteq retained
        /\ Elements(acks') \cap retained' \subseteq Elements(acks)
    BY <2>1, <1>1 DEF Owed
  <2>5. /\ deferred' \in Seq(Messages)
        /\ Elements(rest) \subseteq Elements(deferred')
        /\ Elements(deferred') \subseteq {message} \cup Elements(rest)
        /\ message \in Elements(deferred')
    BY <2>1, <1>3
  <2>6. QED
    BY <2>3, <2>4, <2>5
<1>6. CASE message.type # "stopped" /\ Accepted(message, rest)
  <2>1. /\ TakeNotice(message.affected, message.removed)
        /\ deferred' = rest
    BY <1>6 DEF Accepted, HandlerAccepts
  <2>2. /\ acks' \in Seq(Node) /\ pendingDetach' \in SUBSET Node
        /\ Owed' = Owed \cup message.removed
        /\ retained' \subseteq retained
        /\ Elements(acks') \cap retained' \subseteq Elements(acks)
    BY <2>1, <1>1, <1>2, NoticeFacts
  <2>3. \/ AfterRescan
        \/ /\ message.type # "rescan"
           /\ drainAt' \in AfterMessage(rest) /\ UNCHANGED <<collecting, scan>>
    BY <1>6 DEF Accepted
  <2>4. QED
    BY <2>1, <2>2, <2>3 DEF AfterRescan, AfterMessage
<1>7. QED
  BY <1>4, <1>5, <1>6 DEF Handle, HandleAccepted

(* A message that leaves a queue and is handled: nothing it says is lost.  *)
LEMMA HandleKeeps ==
  ASSUME SessionInv, NEW message \in Messages, NEW rest \in Seq(Messages),
         Handle(message, rest),
         UNCHANGED <<graphVars, workerVars, qtToWorker>>,
         message.removed \cap live = {},
         message.affected \subseteq live \cup Elements(retired),
         message.affected \cap Elements(qtToWorker) = {},
         workerToQt' \in Seq(Messages), rescanRevision' \in Nat,
         Elements(workerToQt') \subseteq Elements(workerToQt),
         Elements(workerToQt) \subseteq Elements(workerToQt') \cup {message},
         Elements(rest) \subseteq Elements(deferred),
         Elements(deferred) \subseteq Elements(rest) \cup {message},
         rescanRevision # 0 => rescanRevision' # 0 \/ message.type = "rescan"
  PROVE  SessionInv'
<1>1. UNCHANGED <<revision, live, retired, parentIndex, orderGeneration, workerAt, sending,
                  qtToWorker>>
  BY DEF graphVars, workerVars
<1>2. /\ deferred' \in Seq(Messages)
      /\ Elements(rest) \subseteq Elements(deferred')
      /\ Elements(deferred') \subseteq {message} \cup Elements(rest)
      /\ acks' \in Seq(Node) /\ pendingDetach' \in SUBSET Node
      /\ Owed \subseteq Owed' /\ Owed' \subseteq Owed \cup message.removed
      /\ \/ message \in Elements(deferred')
         \/ message.removed \subseteq Owed' /\ (message.type = "rescan" => collecting')
      /\ retained' \subseteq retained
      /\ Elements(acks') \cap retained' \subseteq Elements(acks)
      /\ \/ collecting' = collecting /\ scan' = scan
         \/ collecting' /\ scan' = (IF collecting THEN scan ELSE UnknownScan)
      /\ drainAt' \in {"loop", "finish", "collectAfter"}
      /\ drainAt' = "collectAfter" => collecting'
  BY HandleFacts
<1>3. OnTheirWay' \subseteq OnTheirWay \cup {message}
  BY <1>1, <1>2 DEF OnTheirWay
<1>4. \A m \in OnTheirWay \cup {message} : m \in OnTheirWay' \/ m = message
  BY <1>1, <1>2 DEF OnTheirWay
<1>5. UnknownScan \in [offset : Nat, known : BOOLEAN, generation : Nat] /\ ~UnknownScan.known
  BY DEF UnknownScan
<1>6. scan' \in {scan, UnknownScan}
  BY <1>2
<1>7. SessionTypes'
  BY <1>1, <1>2, <1>5, <1>6 DEF SessionInv, SessionTypes
<1>8. IndexInv' /\ SendingInv'
  BY <1>1 DEF SessionInv, IndexInv, SendingInv
<1>9. ScanInv'
  BY <1>1, <1>2, <1>5, <1>6 DEF SessionInv, ScanInv
<1>10. GoneInv'
  BY <1>1, <1>2, <1>3 DEF SessionInv, GoneInv
<1>11. LetGoInv'
  <2>1. retained' \cap (Elements(acks') \cup Elements(qtToWorker)) = {}
    BY <1>2 DEF SessionInv, LetGoInv
  <2>2. QED
    BY <2>1, <1>1, <1>2, <1>3 DEF SessionInv, LetGoInv
<1>12. AffectedReadable'
  BY <1>1, <1>2, <1>3 DEF SessionInv, AffectedReadable
<1>13. \A n \in Node : Told(n) => Told(n)'
  <2> SUFFICES ASSUME NEW n \in Node, Told(n) PROVE Told(n)'
    OBVIOUS
  <2>1. CASE n \in Owed \cup Elements(qtToWorker)
    BY <2>1, <1>1, <1>2 DEF Told
  <2>2. CASE \E m \in Elements(deferred) : n \in m.removed
    BY <2>2, <1>2 DEF Told
  <2>3. QED
    BY <2>1, <2>2 DEF Told
<1>14. message.removed \subseteq {n \in Node : Told(n)'}
  <2>1. message.removed \in SUBSET Node
    BY DEF Messages
  <2>2. QED
    BY <2>1, <1>2 DEF Told
<1>15. TrackInv'
  <2>1. ASSUME collecting, NEW i \in 1 .. ScanOffset PROVE Told(retired[i])'
    BY <2>1, <1>1, <1>13, ScannedStayTold
  <2>2. CASE collecting
    <3>1. collecting' /\ scan' = scan
      BY <2>2, <1>2
    <3>2. ScanOffset' = ScanOffset
      BY <3>1, <1>1 DEF ScanOffset
    <3>3. QED
      BY <2>1, <2>2, <3>1, <3>2 DEF TrackInv
  <2>3. CASE ~collecting /\ collecting'
    <3>1. ScanOffset' = 0
      <4>1. scan' = UnknownScan
        BY <2>3, <1>2
      <4>2. QED
        BY <4>1, <1>5 DEF ScanOffset
    <3>2. QED
      BY <2>3, <3>1 DEF TrackInv
  <2>4. CASE ~collecting /\ ~collecting'
    <3> SUFFICES ASSUME NEW n \in Elements(retired)
                 PROVE  \/ RescanDue' \/ Told(n)'
                        \/ \E m \in Elements(workerToQt') \cup {sending'} : n \in m.removed
      BY <2>4, <1>1 DEF TrackInv
    <3>1. n \in Node
      BY WayTypes DEF SessionInv
    <3>2. message.type = "rescan" => message \in OnTheirWay'
      BY <2>4, <1>2 DEF OnTheirWay
    <3>3. CASE RescanDue
      <4>1. CASE rescanRevision # 0
        BY <4>1, <3>2 DEF RescanDue
      <4>2. CASE \E m \in OnTheirWay : m.type = "rescan"
        BY <4>2, <3>2, <1>4 DEF RescanDue
      <4>3. QED
        BY <3>3, <4>1, <4>2 DEF RescanDue
    <3>4. CASE Told(n)
      BY <3>1, <3>4, <1>13
    <3>5. CASE \E m \in Elements(workerToQt) \cup {sending} : n \in m.removed
      <4>1. PICK m \in Elements(workerToQt) \cup {sending} : n \in m.removed
        BY <3>5
      <4>2. CASE m = message
        BY <4>1, <4>2, <1>14
      <4>3. CASE m # message
        BY <4>1, <4>3, <1>1
      <4>4. QED
        BY <4>2, <4>3
    <3>6. QED
      BY <2>4, <3>3, <3>4, <3>5 DEF SessionInv, TrackInv
  <2>5. QED
    BY <2>2, <2>3, <2>4
<1>16. QED
  BY <1>7, <1>8, <1>9, <1>10, <1>11, <1>12, <1>15 DEF SessionInv

(* The front of the deferred changes, the rescan, or a queued message.     *)
LEMMA HandleStep ==
  ASSUME SessionInv, HandleDeferred \/ HandleRescan \/ HandleQueued
  PROVE  SessionInv'
<1>1. /\ workerToQt \in Seq(Messages) /\ deferred \in Seq(Messages) /\ rescanRevision \in Nat
      /\ <<>> \in Seq(Messages)
  BY DEF SessionInv, SessionTypes
<1>2. ASSUME NEW m \in OnTheirWay
      PROVE  /\ m.removed \cap live = {}
             /\ m.affected \subseteq live \cup Elements(retired)
             /\ m.affected \cap Elements(qtToWorker) = {}
  BY DEF SessionInv, GoneInv, LetGoInv, AffectedReadable
<1>3. CASE HandleDeferred
  <2>1. /\ deferred # <<>> /\ Handle(Head(deferred), Tail(deferred))
        /\ UNCHANGED <<graphVars, workerVars, qtToWorker>>
        /\ UNCHANGED <<workerToQt, rescanRevision>>
    BY <1>3 DEF HandleDeferred, toQtVars
  <2>2. /\ Tail(deferred) \in Seq(Messages) /\ Head(deferred) \in Messages
        /\ Elements(deferred) = {Head(deferred)} \cup Elements(Tail(deferred))
    BY <2>1, <1>1, TailElements
  <2>3. PICK message \in Messages : message = Head(deferred)
    BY <2>2
  <2>4. PICK rest \in Seq(Messages) : rest = Tail(deferred)
    BY <2>2
  <2>5. message \in OnTheirWay
    BY <2>2, <2>3 DEF OnTheirWay
  <2>6. Elements(deferred) = {message} \cup Elements(rest) /\ Handle(message, rest)
    BY <2>1, <2>2, <2>3, <2>4
  <2>7. QED
    BY <2>1, <2>5, <2>6, <1>1, <1>2, HandleKeeps
<1>4. CASE HandleRescan
  <2>1. /\ deferred = <<>>
        /\ Handle(Message("rescan", rescanRevision, {}, {}), <<>>)
        /\ UNCHANGED <<graphVars, workerVars, qtToWorker>>
        /\ workerToQt' = workerToQt /\ rescanRevision' = 0
    BY <1>4 DEF HandleRescan
  <2>2. PICK message \in Messages :
           /\ message = Message("rescan", rescanRevision, {}, {})
           /\ message.type = "rescan" /\ message.affected = {} /\ message.removed = {}
    BY <1>1, MessageFacts
  <2>3. PICK rest \in Seq(Messages) : rest = <<>>
    BY <1>1
  <2>4. Handle(message, rest) /\ Elements(deferred) = {} /\ Elements(rest) = {}
    BY <2>1, <2>2, <2>3, FewElements
  <2>5. QED
    BY <2>1, <2>2, <2>4, <1>1, HandleKeeps
<1>5. CASE HandleQueued
  <2>1. /\ deferred = <<>> /\ workerToQt # <<>>
        /\ Handle(Head(workerToQt), <<>>)
        /\ UNCHANGED <<graphVars, workerVars, qtToWorker>>
        /\ workerToQt' = Tail(workerToQt) /\ rescanRevision' = rescanRevision
    BY <1>5 DEF HandleQueued
  <2>2. /\ Tail(workerToQt) \in Seq(Messages) /\ Head(workerToQt) \in Messages
        /\ Elements(workerToQt) = {Head(workerToQt)} \cup Elements(Tail(workerToQt))
    BY <2>1, <1>1, TailElements
  <2>3. PICK message \in Messages : message = Head(workerToQt)
    BY <2>2
  <2>4. PICK rest \in Seq(Messages) : rest = <<>>
    BY <1>1
  <2>5. message \in OnTheirWay
    BY <2>2, <2>3 DEF OnTheirWay
  <2>6. /\ Elements(workerToQt) = {message} \cup Elements(workerToQt')
        /\ Handle(message, rest) /\ Elements(deferred) = {} /\ Elements(rest) = {}
        /\ workerToQt' \in Seq(Messages)
    BY <2>1, <2>2, <2>3, <2>4, FewElements
  <2>7. QED
    BY <2>1, <2>5, <2>6, <1>1, <1>2, HandleKeeps
<1>6. QED
  BY <1>3, <1>4, <1>5

(* A page of a scan: Qt takes notice of it or defers it, and has then been *)
(* told of every retired node up to the end of the page.                   *)
LEMMA CollectStep ==
  ASSUME SessionInv, CollectAccepted \/ CollectRefused
  PROVE  SessionInv'
<1>1. SessionTypes /\ deferred \in Seq(Messages) /\ retired \in Seq(Node)
      /\ Len(retired) \in Nat /\ orderGeneration \in Nat
  BY DEF SessionInv, SessionTypes
<1>2. UNCHANGED <<revision, live, retired, parentIndex, orderGeneration, workerAt, sending,
                  workerToQt, rescanRevision, qtToWorker>>
  BY DEF CollectAccepted, CollectRefused, graphVars, workerVars, toQtVars
<1>3. /\ drainAt \in {"collect", "collectAfter"}
      /\ collecting' = (PageEnd # Len(retired))
      /\ scan' = IF PageEnd = Len(retired)
                   THEN UnknownScan
                   ELSE [offset |-> PageEnd, known |-> TRUE, generation |-> orderGeneration]
  BY DEF CollectAccepted, CollectRefused, PageRead
<1>4. collecting
  BY <1>3 DEF SessionInv, ScanInv
<1>5. /\ ScanOffset \in 0 .. Len(retired)
      /\ PageEnd \in ScanOffset .. Len(retired)
      /\ Page \subseteq Elements(retired) /\ Elements(retired) \subseteq Node
      /\ \A i \in ScanOffset + 1 .. PageEnd : retired[i] \in Page
  BY <1>1, PageFacts, WayTypes
<1>6. PageEnd \in Nat /\ PageEnd <= Len(retired)
  BY <1>1, <1>5
<1>7. Page \cap live = {}
  BY <1>5 DEF SessionInv, IndexInv, Elements
<1>8. drainAt' \in {"loop", "finish"}
  BY DEF CollectAccepted, CollectRefused, AfterCollect, AfterMessage
<1>9. /\ deferred' \in Seq(Messages)
      /\ Elements(deferred) \subseteq Elements(deferred')
      /\ \A m \in Elements(deferred') : m \in Elements(deferred) \/ (m.affected = {} /\ m.removed = Page)
      /\ acks' \in Seq(Node) /\ pendingDetach' \in SUBSET Node
      /\ Owed \subseteq Owed' /\ Owed' \subseteq Owed \cup Page
      /\ retained' \subseteq retained
      /\ Elements(acks') \cap retained' \subseteq Elements(acks)
      /\ Page \subseteq Owed' \cup UNION {m.removed : m \in Elements(deferred')}
  <2>1. CASE CollectAccepted
    <3>1. TakeNotice({}, Page) /\ deferred' = deferred /\ Page \in SUBSET Node
      BY <2>1, <1>5 DEF CollectAccepted
    <3>2. QED
      BY <3>1, <1>1, NoticeFacts
  <2>2. CASE CollectRefused
    <3> DEFINE page == Message("retirement", 0, {}, Page)
    <3>1. page \in Messages /\ page.affected = {} /\ page.removed = Page
      BY <1>5, MessageFacts
    <3>2. deferred' = Append(deferred, page) /\ UNCHANGED <<acks, pendingDetach, retained>>
      BY <2>2 DEF CollectRefused, uiVars
    <3> HIDE DEF page
    <3>3. deferred' \in Seq(Messages) /\ Elements(deferred') = Elements(deferred) \cup {page}
      BY <3>1, <3>2, <1>1, AppendElements
    <3>4. QED
      BY <3>1, <3>2, <3>3, <1>1 DEF Owed, SessionTypes
  <2>3. QED
    BY <2>1, <2>2
<1>10. \A m \in OnTheirWay' : m \in OnTheirWay \/ (m.affected = {} /\ m.removed = Page)
  BY <1>2, <1>9 DEF OnTheirWay
<1>11. /\ scan' \in [offset : Nat, known : BOOLEAN, generation : Nat]
       /\ scan'.known => /\ scan'.offset = PageEnd
                         /\ scan'.generation = orderGeneration
       /\ collecting' => scan'.known
  BY <1>1, <1>3, <1>6 DEF UnknownScan
<1>12. SessionTypes'
  BY <1>1, <1>2, <1>9, <1>11 DEF SessionTypes
<1>13. IndexInv' /\ SendingInv'
  BY <1>2 DEF SessionInv, IndexInv, SendingInv
<1>14. ScanInv'
  BY <1>1, <1>2, <1>6, <1>8, <1>11 DEF ScanInv
<1>15. GoneInv'
  BY <1>2, <1>7, <1>9, <1>10 DEF SessionInv, GoneInv
<1>16. LetGoInv'
  BY <1>2, <1>8, <1>9, <1>10 DEF SessionInv, LetGoInv
<1>17. AffectedReadable'
  BY <1>2, <1>9, <1>10 DEF SessionInv, AffectedReadable
<1>18. \A n \in Node : Told(n) \/ n \in Page => Told(n)'
  <2> SUFFICES ASSUME NEW n \in Node, Told(n) \/ n \in Page PROVE Told(n)'
    OBVIOUS
  <2>1. CASE n \in Page
    BY <2>1, <1>9 DEF Told
  <2>2. CASE Told(n)
    BY <2>2, <1>2, <1>9 DEF Told
  <2>3. QED
    BY <2>1, <2>2
<1>19. ASSUME NEW i \in 1 .. PageEnd PROVE Told(retired[i])'
  <2>1. i \in 1 .. Len(retired)
    BY <1>6
  <2>2. PICK n \in Node : n = retired[i]
    BY <2>1, <1>1
  <2>3. Told(n) \/ n \in Page
    <3>1. CASE i <= ScanOffset
      <4>1. i \in 1 .. ScanOffset
        BY <3>1, <1>5
      <4>2. QED
        BY <4>1, <2>2, <1>4 DEF SessionInv, TrackInv
    <3>2. CASE i > ScanOffset
      <4>1. i \in ScanOffset + 1 .. PageEnd
        BY <3>2, <1>5
      <4>2. QED
        BY <4>1, <2>2, <1>5
    <3>3. QED
      BY <3>1, <3>2, <1>5
  <2>4. Told(n)'
    BY <2>3, <1>18
  <2>5. QED
    BY <2>2, <2>4, <1>2 DEF Told, Owed
<1>20. TrackInv'
  <2>1. CASE collecting'
    <3>1. scan'.known /\ scan'.offset = PageEnd /\ scan'.generation = orderGeneration
      BY <2>1, <1>11
    <3>2. Min({PageEnd, Len(retired)}) = PageEnd
      BY <1>1, <1>6, MinOfTwo
    <3>3. ScanOffset' = PageEnd
      BY <3>1, <3>2, <1>2 DEF ScanOffset
    <3>4. QED
      BY <2>1, <3>3, <1>19 DEF TrackInv
  <2>2. CASE ~collecting'
    <3>1. PageEnd = Len(retired)
      BY <2>2, <1>3
    <3> SUFFICES ASSUME NEW n \in Elements(retired) PROVE Told(n)'
      BY <2>2, <1>2 DEF TrackInv
    <3>2. PICK i \in 1 .. PageEnd : n = retired[i]
      BY <3>1, <1>1 DEF Elements
    <3>3. QED
      BY <3>2, <1>2, <1>19 DEF Told, Owed
  <2>3. QED
    BY <2>1, <2>2
<1>21. QED
  BY <1>12, <1>13, <1>14, <1>15, <1>16, <1>17, <1>20 DEF SessionInv

(* An acknowledgement is sent: no change on its way affects the node.      *)
LEMMA FlushStep ==
  ASSUME SessionInv, FlushOne
  PROVE  SessionInv'
<1>1. /\ SessionTypes /\ acks \in Seq(Node) /\ qtToWorker \in Seq(Node)
      /\ acks # <<>> /\ drainAt = "flush" /\ drainAt' \in {"flush", "flushed"}
      /\ qtToWorker' = Append(qtToWorker, Last(acks)) /\ acks' = Front(acks)
  BY DEF SessionInv, SessionTypes, FlushOne
<1>2. UNCHANGED <<revision, live, retired, parentIndex, orderGeneration, workerAt, sending,
                  workerToQt, rescanRevision, deferred, scan, collecting, pendingDetach, retained>>
  BY DEF FlushOne, graphVars, workerVars, toQtVars, scanVars, uiVars
<1>3. /\ acks' \in Seq(Node) /\ Last(acks) \in Node
      /\ Elements(acks) = Elements(acks') \cup {Last(acks)}
  BY <1>1, FrontElements
<1>4. /\ qtToWorker' \in Seq(Node)
      /\ Elements(qtToWorker') = Elements(qtToWorker) \cup {Last(acks)}
  BY <1>1, <1>3, AppendElements
<1>5. OnTheirWay' = OnTheirWay /\ ScanOffset' = ScanOffset /\ RescanDue' = RescanDue
  BY <1>2 DEF OnTheirWay, ScanOffset, RescanDue
<1>6. (Owed \cup Elements(qtToWorker))' = Owed \cup Elements(qtToWorker)
  BY <1>2, <1>3, <1>4 DEF Owed
<1>7. \A n \in Node : Told(n)' = Told(n)
  BY <1>2, <1>6 DEF Told
<1>8. SessionTypes'
  BY <1>1, <1>2, <1>3, <1>4 DEF SessionTypes
<1>9. IndexInv' /\ SendingInv'
  BY <1>2 DEF SessionInv, IndexInv, SendingInv
<1>10. ScanInv'
  BY <1>1, <1>2 DEF SessionInv, ScanInv
<1>11. GoneInv'
  BY <1>2, <1>5, <1>6 DEF SessionInv, GoneInv
<1>12. LetGoInv'
  BY <1>1, <1>2, <1>3, <1>4, <1>5 DEF SessionInv, LetGoInv
<1>13. AffectedReadable'
  BY <1>2, <1>5 DEF SessionInv, AffectedReadable
<1>14. TrackInv'
  <2>1. collecting => \A i \in 1 .. ScanOffset : Told(retired[i])'
    BY <1>2, <1>7, ScannedStayTold
  <2>2. Elements(retired) \subseteq Node
    BY <1>1, WayTypes
  <2>3. ~collecting => \A n \in Elements(retired) :
           \/ RescanDue \/ Told(n)
           \/ \E m \in Elements(workerToQt) \cup {sending} : n \in m.removed
    BY DEF SessionInv, TrackInv
  <2>4. QED
    BY <2>1, <2>2, <2>3, <1>2, <1>5, <1>7 DEF TrackInv
<1>15. QED
  BY <1>8, <1>9, <1>10, <1>11, <1>12, <1>13, <1>14 DEF SessionInv

----------------------------------------------------------------------------
(* What is proved of every behaviour                                       *)

(* The bookkeeping of the retirement holds at all times.                   *)
THEOREM SessionInvariant == Spec => []SessionInv
<1>1. SessionInv /\ [Next]_vars => SessionInv'
  <2> SUFFICES ASSUME SessionInv, [Next]_vars PROVE SessionInv'
    OBVIOUS
  <2>1. CASE \E removed \in SUBSET live : \E affected \in SUBSET (live \ removed) :
               Commit(affected, removed)
    BY <2>1, CommitStep
  <2>2. CASE SendDirect \/ SendCoalesced
    BY <2>2, SendStep
  <2>3. CASE SendWorkerStopped
    BY <2>3, StopStep
  <2>4. CASE Acknowledged
    BY <2>4, AcknowledgedStep
  <2>5. CASE \E n \in Node : UiBind(n) \/ UiRelease(n)
    BY <2>5, UiStepKeeps
  <2>6. CASE HandleDeferred \/ HandleRescan \/ HandleQueued
    BY <2>6, HandleStep
  <2>7. CASE CollectAccepted \/ CollectRefused
    BY <2>7, CollectStep
  <2>8. CASE FlushOne
    BY <2>8, FlushStep
  <2>9. CASE \/ FinishWorker \/ BeginDrain \/ BeginDrainFails \/ ReceiveNothing \/ CollectLocked
             \/ FinishBusy \/ FinishQuiescent \/ FlushEnd \/ UNCHANGED vars
    BY <2>9, QuietStep
  <2>10. QED
    BY <2>1, <2>2, <2>3, <2>4, <2>5, <2>6, <2>7, <2>8, <2>9, StepCases
<1>2. QED
  BY SessionInit, <1>1, PTL DEF Spec

(* What a pane holds or a change on its way affects may be read: it is     *)
(* live or still among the retired nodes.                                  *)
THEOREM NothingReadAfterRelease == Spec => []AffectedReadable
<1>1. SessionInv => AffectedReadable
  BY DEF SessionInv
<1>2. QED
  BY SessionInvariant, <1>1, PTL

(* No retired node is lost track of, although a rescan may overtake its    *)
(* removal, a page may be refused and the order of the retired nodes may   *)
(* change between two pages.                                               *)
THEOREM RetirementNeverForgotten == Spec => []RetirementTracked
<1>1. SessionInv => RetirementTracked
  <2> SUFFICES ASSUME SessionInv, NEW n \in Elements(retired)
               PROVE  \/ \E m \in OnTheirWay : n \in m.removed \/ m.type = "rescan"
                      \/ rescanRevision # 0
                      \/ ScanAhead(n)
                      \/ n \in pendingDetach \cup Elements(acks) \cup Elements(qtToWorker)
    BY DEF RetirementTracked
  <2>1. CASE collecting
    <3>1. PICK i \in 1 .. Len(retired) : n = retired[i]
      BY DEF SessionInv, SessionTypes, Elements
    <3>2. ScanOffset \in 0 .. Len(retired) /\ Len(retired) \in Nat
      BY PageFacts DEF SessionInv, SessionTypes
    <3>3. CASE i <= ScanOffset
      <4>1. Told(retired[i])
        BY <2>1, <3>2, <3>3 DEF SessionInv, TrackInv
      <4>2. QED
        BY <4>1, <3>1 DEF Told, Owed, OnTheirWay
    <3>4. CASE i > ScanOffset
      <4>1. i \in (ScanOffset + 1) .. Len(retired)
        BY <3>2, <3>4
      <4>2. QED
        BY <4>1, <3>1, <2>1 DEF ScanAhead
    <3>5. QED
      BY <3>2, <3>3, <3>4
  <2>2. CASE ~collecting
    <3>1. \/ RescanDue \/ Told(n)
          \/ \E m \in Elements(workerToQt) \cup {sending} : n \in m.removed
      BY <2>2 DEF SessionInv, TrackInv
    <3>2. QED
      BY <3>1 DEF RescanDue, Told, Owed, OnTheirWay
  <2>3. QED
    BY <2>1, <2>2
<1>2. QED
  BY SessionInvariant, <1>1, PTL
=============================================================================
