------------------------ MODULE PromptPipelineProofs ------------------------
(***************************************************************************)
(* Proofs about the way of a prompt through the worker, for every number   *)
(* of prompts, threads and drafts: a slot that is taken is given back, the *)
(* graph and the private maps of the worker agree, one turn at a time is   *)
(* unanswered for a thread, and every prompt is sent once and in order.    *)
(*                                                                         *)
(* They rest on one inductive invariant, PipelineInv.  WorkInv is about    *)
(* prompts, queues and slots alone and is kept by each operation on them;  *)
(* CarryInv gives what holds a slot its one carrier; AskInv keeps answers  *)
(* to requests that have been given up away from it; CommandInv,           *)
(* CreatingInv and LinkInv are about the command in hand, about drafts     *)
(* whose creation is under way and about the connection.                   *)
(***************************************************************************)
EXTENDS PromptPipeline, FiniteSetTheorems, TLAPS

States == {"new", "queued", "dispatching", "inFlight", "awaiting", "failed", "gone"}
PromptRecord ==
  [state : States, home : Node \cup {Recovery}, creates : BOOLEAN, recovery : BOOLEAN,
   materialized : BOOLEAN, sent : BOOLEAN]
CommandRecord == [prompt : Prompt, node : Node, creates : BOOLEAN]
PromptKinds == {"turn", "thread start", "resume prompt"}
RequestRecord ==
  [kind : HistoryKinds \cup PromptKinds, node : Node, prompt : Prompt \cup {None},
   current : BOOLEAN, cached : BOOLEAN, resume : {"not", "ok", "failed"}]

WorkTypes ==
  /\ prompt \in [Prompt -> PromptRecord]
  /\ queue \in [Node -> Seq(Prompt)]
  /\ slot \in [Node -> Prompt \cup {None}]
  /\ creating \subseteq Draft
  /\ command \in CommandRecord \cup {None}
ThreadTypes ==
  /\ live \subseteq Node /\ retired \subseteq Thread /\ loaded \subseteq Thread
  /\ hydration \in [Thread -> {"none", "loading", "ready", "failed"}]
HydrationTypes ==
  /\ hydrating \subseteq Thread /\ interactive \subseteq Thread
  /\ parked \in [Thread -> Prompt \cup {None}]
  /\ resumed \subseteq Prompt
RequestTypes == requests \subseteq RequestRecord
LinkTypes == connected \in BOOLEAN /\ ready \in BOOLEAN /\ controller \in BOOLEAN
PipelineTypes == WorkTypes /\ ThreadTypes /\ HydrationTypes /\ RequestTypes /\ LinkTypes

----------------------------------------------------------------------------
(* The invariant of prompts, queues and slots *)

Holds(p) == prompt[p].state \in {"dispatching", "inFlight"} /\ ~prompt[p].recovery

WellFormed(r) ==
  /\ r.state = "new" => r = NewPrompt
  /\ r.state = "gone" => r = Gone
  /\ r.state \in {"queued", "dispatching"} => ~r.recovery
  /\ r.state = "queued" => ~r.creates /\ ~r.sent
  /\ r.state = "failed" => r.recovery
  /\ r.recovery => r.state \in {"failed", "inFlight"}
  /\ r.state \notin {"new", "gone"} /\ ~r.recovery => r.home \in Node
  /\ r.home \in Draft => ~r.materialized
  /\ r.materialized => r.sent
StateInv == \A p \in Prompt : WellFormed(prompt[p])

(* What the queue and the slot of n hold.                                  *)
Queued(p, n) == prompt[p].state = "queued" /\ prompt[p].home = n
Sending(p, n) == Holds(p) /\ prompt[p].home = n
PlaceOf(n) ==
  /\ slot[n] = None => queue[n] = <<>>
  /\ n \notin live => slot[n] = None
  /\ \A i, j \in DOMAIN queue[n] : i < j => queue[n][i] < queue[n][j]
  /\ \A p \in Prompt : /\ Contains(queue[n], p) <=> Queued(p, n)
                       /\ slot[n] = p <=> Sending(p, n)
PlaceInv == \A n \in Node : PlaceOf(n)

(* Prompts are admitted in the order of their numbers, and none overtakes  *)
(* another on the way to one thread.                                       *)
Behind(q, p) ==
  /\ prompt[q].state = "new" => prompt[p].state = "new"
  /\ prompt[q].state \in {"queued", "dispatching"} /\ prompt[q].home = prompt[p].home =>
       prompt[p].state = "queued"
OrderInv == \A q, p \in Prompt : q < p => Behind(q, p)

WorkInv == WorkTypes /\ StateInv /\ PlaceInv /\ OrderInv

----------------------------------------------------------------------------
(* The invariant of commands, parked prompts and requests *)

Commanded(p) == command # None /\ command.prompt = p
Asks(r, p) == r.prompt = p /\ r.current
Carried(p) ==
  \/ Commanded(p)
  \/ \E t \in Thread : parked[t] = p
  \/ \E r \in requests : Asks(r, p)
Done(p) == prompt[p].recovery \/ prompt[p].state = "gone"

(* Whatever holds a slot is carried by one command, parked prompt or       *)
(* request, at its own thread; nothing else is carried but what is left    *)
(* over of prompts that are done.                                          *)
CarryOf(p) ==
  /\ Commanded(p) => /\ \A t \in Thread : parked[t] # p
                     /\ \A r \in requests : ~Asks(r, p)
  /\ \A t \in Thread : parked[t] = p => \A r \in requests : ~Asks(r, p)
  /\ \A t, u \in Thread : parked[t] = p /\ parked[u] = p => t = u
  /\ \A r, q \in requests : Asks(r, p) /\ Asks(q, p) => r = q
  /\ Carried(p) => Holds(p) \/ Done(p)
  /\ Holds(p) => /\ Carried(p)
                 /\ Commanded(p) => command.node = prompt[p].home
                 /\ \A t \in Thread : parked[t] = p => t = prompt[p].home
                 /\ \A r \in requests : Asks(r, p) => r.node = prompt[p].home
  /\ prompt[p].sent => /\ ~Commanded(p) /\ \A t \in Thread : parked[t] # p
                       /\ \A r \in requests : Asks(r, p) => r.kind = "turn"
CarryInv == \A p \in Prompt : CarryOf(p)

(* What an unanswered request is about.  A read whose operation node is    *)
(* gone is on its way while its thread is loaded anew, or after the thread *)
(* or the connection is gone: the slot of the thread is free.              *)
RequestOf(r) ==
  /\ r.kind \in PromptKinds <=> r.prompt # None
  /\ ~r.current /\ r.prompt # None => Done(r.prompt)
  /\ r.kind = "resume prompt" => r.current /\ r.node \in Thread \ hydrating
  /\ r.kind = "thread start" => r.node \in Draft /\ (r.current => Holds(r.prompt))
  /\ r.kind \in HistoryKinds => r.node \in Thread
  /\ r.kind \in {"turns", "history"} => r.current
  /\ ~r.current /\ r.kind \in HistoryKinds =>
       /\ slot[r.node] = None
       /\ \/ r.node \in live /\ hydration[r.node] = "loading"
          \/ r.node \notin live /\ (r.node \in retired \/ ~connected)
AskInv == \A r \in requests : RequestOf(r)

(* A command in hand may be parked without displacing a prompt that holds  *)
(* its slot.                                                               *)
CommandInv ==
  command # None =>
    /\ command.creates => command.node \in creating /\ Holds(command.prompt)
    /\ \/ Holds(command.prompt) \/ command.node \notin Thread
       \/ parked[command.node] = None \/ command.node \notin hydrating

(* The second part of SlotIsCarried, one draft at a time.                  *)
CreatingOf(d) ==
  /\ d \in live /\ slot[d] # None
  /\ \/ \E r \in requests : r.kind = "thread start" /\ r.node = d /\ r.prompt = slot[d]
     \/ command # None /\ command.prompt = slot[d] /\ command.creates
CreatingInv == \A d \in creating : CreatingOf(d)

LinkInv ==
  /\ ready => connected
  /\ ~connected => live \cap Thread = {} /\ \A r \in requests : ~r.current

PipelineInv ==
  /\ PipelineTypes /\ WorkInv /\ CarryInv /\ AskInv
  /\ CommandInv /\ CreatingInv /\ LinkInv

----------------------------------------------------------------------------
(* Records *)

(* None is no prompt.                                                      *)
LEMMA NoneFacts == None \notin Prompt
  BY NamesAssumption, MaxPromptsAssumption DEF Prompt

(* A request whose operation node is gone is otherwise the same request.   *)
LEMMA OutdatedFacts ==
  ASSUME NEW r \in RequestRecord, NEW s, s = [r EXCEPT !.current = FALSE]
  PROVE  /\ s \in RequestRecord /\ ~s.current
         /\ s.kind = r.kind /\ s.node = r.node /\ s.prompt = r.prompt
  BY DEF RequestRecord

(* What Stale leaves are outdated reads of the same thread.                *)
LEMMA StaleFacts ==
  ASSUME NEW rs \in SUBSET RequestRecord, NEW s \in Stale(rs)
  PROVE  /\ s \in RequestRecord /\ ~s.current /\ s.kind \in {"resume hydration", "settings"}
         /\ \E r \in rs : s.kind = r.kind /\ s.node = r.node /\ s.prompt = r.prompt
<1>1. PICK r \in rs : r.kind \in {"resume hydration", "settings"} /\ s = [r EXCEPT !.current = FALSE]
  BY DEF Stale
<1>2. QED
  BY <1>1, OutdatedFacts

(* A command is a command record, and never None.                          *)
LEMMA CommandFacts ==
  ASSUME NEW p \in Prompt, NEW n \in Node, NEW creates \in BOOLEAN
  PROVE  /\ Command(p, n, creates) \in CommandRecord /\ Command(p, n, creates) # None
         /\ Command(p, n, creates).prompt = p /\ Command(p, n, creates).node = n
         /\ Command(p, n, creates).creates = creates
<1>1. Command(p, n, creates) \in CommandRecord
  BY DEF Command, CommandRecord
<1>2. Command(p, n, creates) # None
  BY NamesAssumption, MaxPromptsAssumption DEF Command, Prompt, Node
<1>3. QED
  BY <1>1, <1>2 DEF Command

(* What failing and losing a prompt leaves of its record.                  *)
LEMMA FailedFacts ==
  ASSUME NEW r \in PromptRecord
  PROVE  /\ Failed(r) \in PromptRecord /\ Failed(r).state = "failed" /\ Failed(r).recovery
         /\ Failed(r).home = r.home /\ Failed(r).sent = r.sent
         /\ Failed(r).materialized = r.materialized
         /\ Lost(r) \in PromptRecord /\ Lost(r).state = "failed" /\ Lost(r).recovery
         /\ Lost(r).home = Recovery /\ Lost(r).sent = r.sent
         /\ Lost(r).materialized = r.materialized
  BY DEF Failed, Lost, PromptRecord, States

(* A prompt that has not been sent yet, and one that is gone.              *)
LEMMA NewFacts ==
  /\ NewPrompt \in PromptRecord /\ NewPrompt.state = "new" /\ NewPrompt.home = Recovery
  /\ ~NewPrompt.sent /\ ~NewPrompt.materialized /\ ~NewPrompt.recovery
  /\ Gone \in PromptRecord /\ Gone.state = "gone" /\ Gone.home = Recovery /\ Gone.sent
  /\ ~Gone.materialized
  BY DEF NewPrompt, Gone, PromptRecord, States

(* What is failed or lost is well formed, and so is what is gone.          *)
LEMMA FailedWell ==
  ASSUME NEW r \in PromptRecord, WellFormed(r)
  PROVE  WellFormed(Failed(r)) /\ WellFormed(Lost(r))
<1>1. Recovery \notin Draft
  BY NamesAssumption
<1>2. WellFormed(Failed(r))
  BY FailedFacts DEF WellFormed
<1>3. WellFormed(Lost(r))
  BY <1>1, FailedFacts DEF WellFormed
<1>4. QED
  BY <1>2, <1>3

(* What is gone and what is new is well formed.                            *)
LEMMA GoneWell == WellFormed(Gone) /\ WellFormed(NewPrompt)
<1>1. Recovery \notin Draft /\ Recovery \notin Node
  BY NamesAssumption DEF Node
<1>2. ~Gone.recovery /\ Gone.state = "gone" /\ NewPrompt.state = "new"
  BY DEF Gone, NewPrompt
<1>3. QED
  BY <1>1, <1>2, NewFacts DEF WellFormed

----------------------------------------------------------------------------
(* Queues *)

(* What Append, Head and Tail do to a queue.                               *)
LEMMA QueueFacts ==
  ASSUME NEW S, NEW q \in Seq(S), NEW e \in S
  PROVE  /\ Len(q) \in Nat /\ DOMAIN q = 1 .. Len(q)
         /\ Append(q, e) \in Seq(S) /\ Len(Append(q, e)) = Len(q) + 1
         /\ \A i \in 1 .. Len(q) : q[i] \in S /\ Append(q, e)[i] = q[i]
         /\ Append(q, e)[Len(q) + 1] = e
         /\ q # <<>> => /\ Head(q) = q[1] /\ Head(q) \in S /\ Tail(q) \in Seq(S)
                        /\ Len(q) >= 1 /\ Len(Tail(q)) = Len(q) - 1
                        /\ \A i \in 1 .. Len(q) - 1 : Tail(q)[i] = q[i + 1]
  OBVIOUS

(* std::erase_if leaves a queue alone that has none of the prompts.        *)
LEMMA WithoutNone ==
  ASSUME NEW S, NEW q \in Seq(S), NEW ps, \A i \in DOMAIN q : q[i] \notin ps
  PROVE  Without(q, ps) = q
<1>1. Len(q) \in Nat /\ DOMAIN q = 1 .. Len(q) /\ Kept(q, ps) = 1 .. Len(q)
  BY DEF Kept
<1>2. \A i \in 1 .. Len(q) : Rank(i, 1 .. Len(q)) = i
  <2> SUFFICES ASSUME NEW i \in 1 .. Len(q) PROVE Rank(i, 1 .. Len(q)) = i
    OBVIOUS
  <2>1. {j \in 1 .. Len(q) : j <= i} = 1 .. i
    BY <1>1
  <2>2. Cardinality(1 .. i) = i
    BY <1>1, FS_Interval
  <2>3. QED
    BY <2>1, <2>2 DEF Rank
<1>3. Cardinality(1 .. Len(q)) = Len(q)
  BY <1>1, FS_Interval
<1>4. Without(q, ps) = [j \in 1 .. Len(q) |-> q[CHOOSE i \in 1 .. Len(q) : Rank(i, 1 .. Len(q)) = j]]
  BY <1>1, <1>3 DEF Without
<1>5. \A j \in 1 .. Len(q) : (CHOOSE i \in 1 .. Len(q) : Rank(i, 1 .. Len(q)) = j) = j
  BY <1>2
<1>6. QED
  BY <1>1, <1>4, <1>5

(* It empties a queue that has no other.                                   *)
LEMMA WithoutAll ==
  ASSUME NEW S, NEW q \in Seq(S), NEW ps, \A i \in DOMAIN q : q[i] \in ps
  PROVE  Without(q, ps) = <<>>
<1>1. Kept(q, ps) = {}
  BY DEF Kept
<1>2. Cardinality(Kept(q, ps)) = 0
  BY <1>1, FS_EmptySet
<1>3. 1 .. 0 = {}
  OBVIOUS
<1>4. QED
  BY <1>2, <1>3 DEF Without

----------------------------------------------------------------------------
(* completePrompt *)

(* What becomes of a prompt of n that is completed.                        *)
Finished(s, n) ==
  /\ s \in PromptRecord /\ WellFormed(s)
  /\ s.state \in {"gone", "awaiting", "failed"} /\ s.home \in {n, Recovery}

(* It takes the prompts of a draft without destination with it, it was the *)
(* last one, or it is followed by the next.                                *)
Orphaned(p, n, s) ==
  /\ n \in Draft
  /\ prompt' = [q \in Prompt |-> IF q = p THEN s
                                ELSE IF Contains(queue[n], q) THEN Failed(prompt[q])
                                ELSE prompt[q]]
  /\ slot' = [slot EXCEPT ![n] = None] /\ queue' = [queue EXCEPT ![n] = <<>>]
  /\ creating' = creating \ {n} /\ command' = None
Ended(p, n, s) ==
  /\ n \in Thread
  /\ prompt' = [prompt EXCEPT ![p] = s]
  /\ slot' = [slot EXCEPT ![n] = None] /\ queue[n] = <<>> /\ queue' = queue
  /\ creating' = creating /\ command' = None
Advanced(p, n, s, next) ==
  /\ n \in Thread
  /\ queue[n] # <<>> /\ next = Head(queue[n]) /\ next # p
  /\ prompt' = [prompt EXCEPT ![p] = s, ![next] = [prompt[next] EXCEPT !.state = "dispatching"]]
  /\ slot' = [slot EXCEPT ![n] = next] /\ queue' = [queue EXCEPT ![n] = Tail(queue[n])]
  /\ creating' = creating /\ command' = Command(next, n, FALSE)
Outcome(p, n, s) ==
  /\ Finished(s, n)
  /\ \/ Orphaned(p, n, s)
     \/ Ended(p, n, s)
     \/ \E next \in Prompt : Advanced(p, n, s, next)

(* completePrompt of a prompt that holds its slot ends in one of the three *)
(* outcomes.                                                               *)
LEMMA SettleFacts ==
  ASSUME WorkInv, NEW p \in Prompt, NEW accepted \in BOOLEAN, Holds(p),
         accepted => prompt[p].home \in Thread, Settle(p, accepted)
  PROVE  prompt[p].home \in Node /\ \E s \in PromptRecord : Outcome(p, prompt[p].home, s)
<1> DEFINE n == prompt[p].home
           s == IF prompt[p].materialized THEN Gone
                ELSE IF accepted THEN [prompt[p] EXCEPT !.state = "awaiting"]
                ELSE Failed(prompt[p])
           next == IF ~accepted /\ n \in Draft THEN None ELSE NextOf(None, queue[n])
<1>1. /\ prompt[p] \in PromptRecord /\ WellFormed(prompt[p]) /\ n \in Node
      /\ queue[n] \in Seq(Prompt) /\ PlaceOf(n)
  BY DEF WorkInv, WorkTypes, StateInv, WellFormed, Holds, PlaceInv
<1>2. slot[n] = p
  BY <1>1 DEF PlaceOf, Sending
<1>3. None \notin Prompt
  BY NamesAssumption, MaxPromptsAssumption DEF Prompt
<1>4. Finished(s, n)
  <2>1. CASE prompt[p].materialized
    BY <2>1, NewFacts, GoneWell DEF Finished
  <2>2. CASE ~prompt[p].materialized /\ accepted
    <3>1. s \in PromptRecord /\ s.state = "awaiting" /\ s.home = n /\ ~s.materialized
          /\ s.recovery = prompt[p].recovery
      BY <2>2, <1>1 DEF PromptRecord, States
    <3>2. ~s.recovery /\ n \in Node
      BY <3>1, <1>1 DEF Holds
    <3>3. QED
      BY <3>1, <3>2 DEF Finished, WellFormed
  <2>3. CASE ~prompt[p].materialized /\ ~accepted
    <3>1. s = Failed(prompt[p])
      BY <2>3
    <3>2. WellFormed(Failed(prompt[p]))
      BY <1>1, FailedWell
    <3>3. QED
      BY <3>1, <3>2, <1>1, FailedFacts DEF Finished
  <2>4. QED
    BY <2>1, <2>2, <2>3
<1>5. /\ prompt' = [q \in Prompt |->
                       CASE q = p -> s
                         [] q = next -> [prompt[q] EXCEPT !.state = "dispatching"]
                         [] Orphans(p, accepted) /\ Contains(queue[n], q) -> Failed(prompt[q])
                         [] OTHER -> prompt[q]]
      /\ slot' = [slot EXCEPT ![n] = IF next # None THEN next ELSE None]
      /\ queue' = [queue EXCEPT ![n] = IF Orphans(p, accepted) THEN <<>>
                                       ELSE IF next # None THEN Tail(@) ELSE @]
      /\ creating' = IF Orphans(p, accepted) THEN creating \ {n} ELSE creating
      /\ command' = IF next = None THEN None ELSE Command(next, n, prompt[next].creates)
  BY <1>2 DEF Settle
<1>6. Thread \cap Draft = {} /\ Node = Thread \cup Draft
  BY NamesAssumption DEF Node
<1>7. prompt \in [Prompt -> PromptRecord] /\ slot \in [Node -> Prompt \cup {None}]
      /\ queue \in [Node -> Seq(Prompt)]
  BY DEF WorkInv, WorkTypes
<1>8. CASE n \in Draft
  <2>1. Orphans(p, accepted) /\ next = None
    BY <1>1, <1>6, <1>8 DEF Orphans, WellFormed
  <2>2. slot' = [slot EXCEPT ![n] = None] /\ queue' = [queue EXCEPT ![n] = <<>>]
        /\ creating' = creating \ {n} /\ command' = None
    BY <1>5, <2>1
  <2>3. prompt' = [q \in Prompt |-> IF q = p THEN s
                                    ELSE IF Contains(queue[n], q) THEN Failed(prompt[q])
                                    ELSE prompt[q]]
    <3> HIDE DEF s, next
    <3>1. ASSUME NEW q \in Prompt
          PROVE  (CASE q = p -> s
                    [] q = next -> [prompt[q] EXCEPT !.state = "dispatching"]
                    [] Orphans(p, accepted) /\ Contains(queue[n], q) -> Failed(prompt[q])
                    [] OTHER -> prompt[q])
                 = IF q = p THEN s ELSE IF Contains(queue[n], q) THEN Failed(prompt[q]) ELSE prompt[q]
      <4>1. q # next /\ Orphans(p, accepted)
        BY <1>3, <2>1
      <4>2. CASE q = p
        <5>1. ~Contains(queue[n], p)
          BY <1>1 DEF PlaceOf, Queued, Holds
        <5>2. QED
          BY <4>1, <4>2, <5>1
      <4>3. CASE q # p /\ Contains(queue[n], q)
        BY <4>1, <4>3
      <4>4. CASE q # p /\ ~Contains(queue[n], q)
        BY <4>1, <4>4
      <4>5. QED
        BY <4>2, <4>3, <4>4
    <3>2. QED
      BY <1>5, <3>1, Zenon
  <2>4. Orphaned(p, n, s)
    BY <1>8, <2>2, <2>3 DEF Orphaned
  <2>5. QED
    BY <1>1, <1>4, <2>4 DEF Outcome, Finished
<1>9. CASE n \in Thread /\ queue[n] = <<>>
  <2>1. ~Orphans(p, accepted) /\ next = None
    BY <1>6, <1>9 DEF Orphans, NextOf
  <2>2. prompt' = [prompt EXCEPT ![p] = s]
    BY <1>3, <1>5, <1>7, <2>1
  <2>3. queue' = queue /\ slot' = [slot EXCEPT ![n] = None] /\ creating' = creating /\ command' = None
    BY <1>5, <1>7, <2>1
  <2>4. Ended(p, n, s)
    BY <1>9, <2>2, <2>3 DEF Ended
  <2>5. QED
    BY <1>1, <1>4, <2>4 DEF Outcome, Finished
<1>10. CASE n \in Thread /\ queue[n] # <<>>
  <2>1. ~Orphans(p, accepted) /\ next = Head(queue[n])
    BY <1>6, <1>10 DEF Orphans, NextOf
  <2>2. next \in Prompt /\ next # None /\ queue[n][1] = next /\ 1 \in 1 .. Len(queue[n])
    <3>1. Head(queue[n]) \in Prompt /\ Head(queue[n]) = queue[n][1] /\ Len(queue[n]) >= 1
          /\ Len(queue[n]) \in Nat
      BY <1>1, <1>10
    <3>2. QED
      BY <1>3, <2>1, <3>1
  <2>3. Contains(queue[n], next)
    BY <2>2 DEF Contains
  <2>4. Queued(next, n)
    BY <1>1, <2>2, <2>3 DEF PlaceOf
  <2>5. next # p /\ ~prompt[next].creates
    BY <2>2, <2>4 DEF Queued, Holds, WorkInv, StateInv, WellFormed
  <2>6. prompt' = [prompt EXCEPT ![p] = s, ![next] = [prompt[next] EXCEPT !.state = "dispatching"]]
    BY <1>5, <1>7, <2>1, <2>2, <2>5
  <2>7. slot' = [slot EXCEPT ![n] = next] /\ queue' = [queue EXCEPT ![n] = Tail(queue[n])]
        /\ creating' = creating
    BY <1>5, <2>1, <2>2
  <2>8. command' = Command(next, n, FALSE)
    <3>1. command' = Command(next, n, prompt[next].creates)
      BY <1>5, <2>2
    <3>2. prompt[next].creates = FALSE
      BY <1>7, <2>2, <2>5 DEF PromptRecord
    <3>3. QED
      BY <3>1, <3>2
  <2>9. Advanced(p, n, s, next)
    BY <1>10, <2>1, <2>5, <2>6, <2>7, <2>8 DEF Advanced
  <2>10. Outcome(p, n, s)
    BY <1>4, <2>2, <2>9 DEF Outcome
  <2>11. QED
    BY <1>1, <1>4, <2>10 DEF Finished
<1>11. QED
  BY <1>1, <1>6, <1>8, <1>9, <1>10

----------------------------------------------------------------------------
(* Places after a step *)

(* Nothing has changed at m.                                               *)
LEMMA PlaceKept ==
  ASSUME NEW m \in Node, PlaceOf(m), queue'[m] = queue[m], slot'[m] = slot[m],
         m \in live => m \in live',
         \A p \in Prompt : Queued(p, m)' <=> Queued(p, m),
         \A p \in Prompt : Sending(p, m)' <=> Sending(p, m)
  PROVE  PlaceOf(m)'
  BY DEF PlaceOf

(* Nothing is left at m.                                                   *)
LEMMA PlaceEmptied ==
  ASSUME NEW m \in Node, queue'[m] = <<>>, slot'[m] = None,
         \A p \in Prompt : ~Queued(p, m)' /\ ~Sending(p, m)'
  PROVE  PlaceOf(m)'
<1>1. None \notin Prompt
  BY NamesAssumption, MaxPromptsAssumption DEF Prompt
<1>2. \A p \in Prompt : ~Contains(<<>>, p)
  BY DEF Contains
<1>3. DOMAIN <<>> = {}
  OBVIOUS
<1>4. QED
  BY <1>1, <1>2, <1>3 DEF PlaceOf

(* A prompt that stays what it is, or is over, at the node where it was.   *)
Same(q) == prompt'[q].state = prompt[q].state /\ prompt'[q].home = prompt[q].home
           /\ prompt'[q].recovery = prompt[q].recovery
Over(q) == prompt'[q].state \in {"gone", "awaiting", "failed"}
           /\ prompt'[q].home \in {prompt[q].home, Recovery}

(* A prompt that is the same waits and sends where it did.                 *)
LEMMA SameFacts ==
  ASSUME NEW q \in Prompt, NEW m \in Node, Same(q)
  PROVE  (Queued(q, m)' <=> Queued(q, m)) /\ (Sending(q, m)' <=> Sending(q, m))
  BY DEF Same, Queued, Sending, Holds

(* One that is over does neither.                                          *)
LEMMA OverFacts ==
  ASSUME NEW q \in Prompt, NEW m \in Node, Over(q)
  PROVE  ~Queued(q, m)' /\ ~Sending(q, m)'
  BY DEF Over, Queued, Sending, Holds

(* The order is kept when those who are over were at n, and nobody waits   *)
(* there who is not.                                                       *)
LEMMA BehindKept ==
  ASSUME StateInv, NEW n, NEW q \in Prompt, NEW r \in Prompt, Behind(q, r),
         Same(q) \/ (Over(q) /\ prompt[q].state # "new" /\ prompt[q].home = n),
         Same(r) \/ (Over(r) /\ prompt[r].state # "new" /\ prompt[r].home = n),
         Same(q) /\ prompt[q].home = n => prompt[q].state \notin {"queued", "dispatching"}
  PROVE  Behind(q, r)'
<1>1. WellFormed(prompt[q]) /\ Recovery \notin Node
  BY NamesAssumption DEF StateInv, Node
<1>2. prompt[q].state \in {"queued", "dispatching"} => prompt[q].home # Recovery
  BY <1>1 DEF WellFormed
<1>3. CASE Over(q)
  BY <1>3 DEF Behind, Over
<1>4. CASE Same(q) /\ Same(r)
  BY <1>4 DEF Behind, Same
<1>5. CASE Same(q) /\ Over(r) /\ prompt[r].state # "new" /\ prompt[r].home = n
  <2>1. prompt[q].state # "new"
    BY <1>5 DEF Behind
  <2>2. ASSUME prompt[q].state \in {"queued", "dispatching"} PROVE prompt[q].home # prompt'[r].home
    BY <1>2, <1>5, <2>2 DEF Over
  <2>3. QED
    BY <1>5, <2>1, <2>2 DEF Behind, Same
<1>6. QED
  BY <1>3, <1>4, <1>5

(* A completed prompt leaves every place as it should be.                  *)
LEMMA OutcomeTypes ==
  ASSUME WorkInv, NEW p \in Prompt, NEW n \in Node, NEW s \in PromptRecord, Outcome(p, n, s)
  PROVE  WorkTypes'
<1>1. /\ prompt \in [Prompt -> PromptRecord] /\ queue \in [Node -> Seq(Prompt)]
      /\ slot \in [Node -> Prompt \cup {None}] /\ creating \subseteq Draft
  BY DEF WorkInv, WorkTypes
<1>2. CASE Orphaned(p, n, s)
  <2>1. \A q \in Prompt : Failed(prompt[q]) \in PromptRecord
    BY <1>1, FailedFacts
  <2>2. prompt' \in [Prompt -> PromptRecord]
    BY <1>1, <1>2, <2>1 DEF Orphaned
  <2>3. queue' \in [Node -> Seq(Prompt)] /\ slot' \in [Node -> Prompt \cup {None}]
        /\ creating' \subseteq Draft /\ command' = None
    BY <1>1, <1>2 DEF Orphaned
  <2>4. QED
    BY <2>2, <2>3 DEF WorkTypes
<1>3. CASE Ended(p, n, s)
  BY <1>1, <1>3 DEF Ended, WorkTypes
<1>4. ASSUME NEW next \in Prompt, Advanced(p, n, s, next) PROVE WorkTypes'
  <2>1. PICK r \in PromptRecord : r = [prompt[next] EXCEPT !.state = "dispatching"]
    BY <1>1 DEF PromptRecord, States
  <2>2. prompt' = [prompt EXCEPT ![p] = s, ![next] = r]
    BY <1>4, <2>1 DEF Advanced
  <2>3. prompt' \in [Prompt -> PromptRecord]
    BY <1>1, <2>2
  <2>4. Tail(queue[n]) \in Seq(Prompt)
    BY <1>1, <1>4 DEF Advanced
  <2>5. queue' \in [Node -> Seq(Prompt)] /\ slot' \in [Node -> Prompt \cup {None}]
        /\ creating' \subseteq Draft
    BY <1>1, <1>4, <2>4 DEF Advanced
  <2>6. command' \in CommandRecord
    BY <1>4, CommandFacts DEF Advanced
  <2>7. QED
    BY <2>3, <2>5, <2>6 DEF WorkTypes
<1>5. QED
  BY <1>2, <1>3, <1>4 DEF Outcome

(* Everybody but the next prompt keeps its place or is over.               *)
LEMMA OutcomePrompts ==
  ASSUME WorkInv, NEW p \in Prompt, NEW n \in Node, n = prompt[p].home, Holds(p),
         NEW s \in PromptRecord, Outcome(p, n, s)
  PROVE  /\ prompt'[p] = s /\ Over(p)
         /\ Orphaned(p, n, s) => \A q \in Prompt \ {p} :
              IF Queued(q, n) THEN prompt'[q] = Failed(prompt[q]) /\ Over(q)
              ELSE prompt'[q] = prompt[q] /\ Same(q)
         /\ Ended(p, n, s) => \A q \in Prompt \ {p} : prompt'[q] = prompt[q] /\ Same(q)
         /\ \A next \in Prompt : Advanced(p, n, s, next) =>
              /\ Queued(next, n)
              /\ prompt'[next] = [prompt[next] EXCEPT !.state = "dispatching"]
              /\ \A q \in Prompt \ {p, next} : prompt'[q] = prompt[q] /\ Same(q)
<1>1. /\ prompt \in [Prompt -> PromptRecord] /\ queue[n] \in Seq(Prompt)
      /\ \A q \in Prompt : Contains(queue[n], q) <=> Queued(q, n)
  BY DEF WorkInv, WorkTypes, PlaceInv, PlaceOf
<1>2. Finished(s, n)
  BY DEF Outcome
<1>3. prompt'[p] = s
  BY <1>1 DEF Outcome, Orphaned, Ended, Advanced
<1>4. Over(p)
  BY <1>2, <1>3 DEF Finished, Over
<1>5. ASSUME Orphaned(p, n, s), NEW q \in Prompt \ {p}
      PROVE  IF Queued(q, n) THEN prompt'[q] = Failed(prompt[q]) /\ Over(q)
             ELSE prompt'[q] = prompt[q] /\ Same(q)
  <2>1. CASE Queued(q, n)
    <3>1. prompt'[q] = Failed(prompt[q])
      BY <1>1, <1>5, <2>1 DEF Orphaned
    <3>2. QED
      BY <1>1, <2>1, <3>1, FailedFacts DEF Over
  <2>2. CASE ~Queued(q, n)
    <3>1. prompt'[q] = prompt[q]
      BY <1>1, <1>5, <2>2 DEF Orphaned
    <3>2. QED
      BY <2>2, <3>1 DEF Same
  <2>3. QED
    BY <2>1, <2>2
<1>6. ASSUME Ended(p, n, s), NEW q \in Prompt \ {p} PROVE prompt'[q] = prompt[q] /\ Same(q)
  BY <1>1, <1>6 DEF Ended, Same
<1>7. ASSUME NEW next \in Prompt, Advanced(p, n, s, next)
      PROVE  /\ Queued(next, n)
             /\ prompt'[next] = [prompt[next] EXCEPT !.state = "dispatching"]
             /\ \A q \in Prompt \ {p, next} : prompt'[q] = prompt[q] /\ Same(q)
  <2>1. Contains(queue[n], next)
    <3>1. queue[n] # <<>> /\ next = Head(queue[n])
      BY <1>7 DEF Advanced
    <3>2. queue[n][1] = next /\ 1 \in 1 .. Len(queue[n])
      BY <1>1, <3>1
    <3>3. QED
      BY <3>2 DEF Contains
  <2>2. prompt'[next] = [prompt[next] EXCEPT !.state = "dispatching"]
    BY <1>1, <1>7 DEF Advanced
  <2>3. \A q \in Prompt \ {p, next} : prompt'[q] = prompt[q]
    BY <1>1, <1>7 DEF Advanced
  <2>4. QED
    BY <1>1, <2>1, <2>2, <2>3 DEF Same
<1>8. QED
  BY <1>3, <1>4, <1>5, <1>6, <1>7

(* The same, one prompt at a time.                                         *)
LEMMA OrphanedOthers ==
  ASSUME WorkInv, NEW p \in Prompt, NEW n \in Node, n = prompt[p].home, Holds(p),
         NEW s \in PromptRecord, Outcome(p, n, s),
         Orphaned(p, n, s), NEW q \in Prompt, q # p
  PROVE  /\ Queued(q, n) => prompt'[q] = Failed(prompt[q]) /\ Over(q)
         /\ ~Queued(q, n) => prompt'[q] = prompt[q] /\ Same(q)
<1>1. q \in Prompt \ {p}
  OBVIOUS
<1>2. QED
  BY <1>1, OutcomePrompts

(* The last prompt of its thread ends alone.                               *)
LEMMA EndedOthers ==
  ASSUME WorkInv, NEW p \in Prompt, NEW n \in Node, n = prompt[p].home, Holds(p),
         NEW s \in PromptRecord, Outcome(p, n, s),
         Ended(p, n, s), NEW q \in Prompt, q # p
  PROVE  prompt'[q] = prompt[q] /\ Same(q)
<1>1. q \in Prompt \ {p}
  OBVIOUS
<1>2. QED
  BY <1>1, OutcomePrompts

(* The next prompt waited in the queue and is in hand now.                 *)
LEMMA AdvancedNext ==
  ASSUME WorkInv, NEW p \in Prompt, NEW n \in Node, n = prompt[p].home, Holds(p),
         NEW s \in PromptRecord, Outcome(p, n, s),
         NEW next \in Prompt, Advanced(p, n, s, next)
  PROVE  /\ next # p /\ Queued(next, n)
         /\ prompt'[next] = [prompt[next] EXCEPT !.state = "dispatching"]
<1>1. next # p
  BY DEF Advanced
<1>2. QED
  BY <1>1, OutcomePrompts

(* No other prompt moves when the queue advances.                          *)
LEMMA AdvancedOthers ==
  ASSUME WorkInv, NEW p \in Prompt, NEW n \in Node, n = prompt[p].home, Holds(p),
         NEW s \in PromptRecord, Outcome(p, n, s),
         NEW next \in Prompt, Advanced(p, n, s, next), NEW q \in Prompt, q # p, q # next
  PROVE  prompt'[q] = prompt[q] /\ Same(q)
<1>1. q \in Prompt \ {p, next}
  OBVIOUS
<1>2. QED
  BY <1>1, OutcomePrompts

(* An outcome at n leaves every other place as it is.                      *)
LEMMA OutcomeElsewhere ==
  ASSUME WorkInv, NEW p \in Prompt, NEW n \in Node, n = prompt[p].home, Holds(p),
         NEW s \in PromptRecord, Outcome(p, n, s), live' = live, NEW m \in Node \ {n}
  PROVE  PlaceOf(m)'
<1>1. PlaceOf(m) /\ queue'[m] = queue[m] /\ slot'[m] = slot[m]
  BY DEF WorkInv, WorkTypes, PlaceInv, Outcome, Orphaned, Ended, Advanced
<1>2. Recovery \notin Node
  BY NamesAssumption DEF Node
<1>3. ASSUME NEW q \in Prompt, Over(q), prompt[q].home = n
      PROVE  (Queued(q, m)' <=> Queued(q, m)) /\ (Sending(q, m)' <=> Sending(q, m))
  BY <1>3, OverFacts DEF Queued, Sending
<1>4. ASSUME NEW q \in Prompt
      PROVE  (Queued(q, m)' <=> Queued(q, m)) /\ (Sending(q, m)' <=> Sending(q, m))
  <2>1. CASE q = p
    BY <1>3, <2>1, OutcomePrompts
  <2>2. CASE q # p /\ Orphaned(p, n, s)
    <3>1. CASE Queued(q, n)
      BY <1>3, <2>2, <3>1, OutcomePrompts DEF Queued
    <3>2. CASE ~Queued(q, n)
      BY <2>2, <3>2, OutcomePrompts, SameFacts
    <3>3. QED
      BY <3>1, <3>2
  <2>3. CASE q # p /\ Ended(p, n, s)
    BY <2>3, OutcomePrompts, SameFacts
  <2>4. ASSUME q # p, NEW next \in Prompt, Advanced(p, n, s, next)
        PROVE  (Queued(q, m)' <=> Queued(q, m)) /\ (Sending(q, m)' <=> Sending(q, m))
    <3>1. CASE q = next
      <4>1. prompt[q] \in PromptRecord /\ Queued(q, n) /\ prompt'[q] = [prompt[q] EXCEPT !.state = "dispatching"]
        BY <2>4, <3>1, OutcomePrompts DEF WorkInv, WorkTypes
      <4>2. prompt'[q].home = n /\ prompt[q].home = n
        BY <4>1 DEF Queued, PromptRecord
      <4>3. QED
        BY <4>2 DEF Queued, Sending
    <3>2. CASE q # next
      <4>1. Same(q)
        BY <2>4, <3>2, AdvancedOthers
      <4>2. QED
        BY <4>1, SameFacts
    <3>3. QED
      BY <3>1, <3>2
  <2>5. QED
    BY <2>1, <2>2, <2>3, <2>4 DEF Outcome
<1>5. QED
  BY <1>1, <1>4, PlaceKept

(* The place of the completed prompt: slot and queue agree with the graph  *)
(* again.                                                                  *)
LEMMA OutcomeThere ==
  ASSUME WorkInv, NEW p \in Prompt, NEW n \in Node, n = prompt[p].home, Holds(p),
         NEW s \in PromptRecord, Outcome(p, n, s), live' = live
  PROVE  PlaceOf(n)'
<1>1. PlaceOf(n) /\ queue[n] \in Seq(Prompt) /\ queue \in [Node -> Seq(Prompt)]
      /\ slot \in [Node -> Prompt \cup {None}] /\ prompt \in [Prompt -> PromptRecord]
  BY DEF WorkInv, WorkTypes, PlaceInv
<1>2. slot[n] = p
  BY <1>1 DEF PlaceOf, Sending
<1>3. \A q \in Prompt \ {p} : ~Sending(q, n)
  BY <1>1, <1>2 DEF PlaceOf
<1>4. ~Queued(p, n)' /\ ~Sending(p, n)'
  BY OutcomePrompts, OverFacts
<1>5. CASE Orphaned(p, n, s)
  <2>1. queue'[n] = <<>> /\ slot'[n] = None
    BY <1>1, <1>5 DEF Orphaned
  <2>2. ASSUME NEW q \in Prompt PROVE ~Queued(q, n)' /\ ~Sending(q, n)'
    <3>1. CASE q # p /\ Queued(q, n)
      BY <1>5, <3>1, OutcomePrompts, OverFacts
    <3>2. CASE q # p /\ ~Queued(q, n)
      BY <1>3, <1>5, <3>2, OutcomePrompts, SameFacts
    <3>3. QED
      BY <1>4, <3>1, <3>2
  <2>3. QED
    BY <2>1, <2>2, PlaceEmptied
<1>6. CASE Ended(p, n, s)
  <2>1. queue'[n] = <<>> /\ slot'[n] = None /\ queue[n] = <<>>
    BY <1>1, <1>6 DEF Ended
  <2>2. \A q \in Prompt : ~Queued(q, n)
    BY <1>1, <2>1 DEF PlaceOf, Contains
  <2>3. ASSUME NEW q \in Prompt PROVE ~Queued(q, n)' /\ ~Sending(q, n)'
    BY <1>3, <1>4, <1>6, <2>2, OutcomePrompts, SameFacts
  <2>4. QED
    BY <2>1, <2>3, PlaceEmptied
<1>7. ASSUME NEW next \in Prompt, Advanced(p, n, s, next) PROVE PlaceOf(n)'
  <2>1. queue[n] # <<>> /\ next = Head(queue[n]) /\ queue'[n] = Tail(queue[n]) /\ slot'[n] = next
        /\ next # p
    BY <1>1, <1>7 DEF Advanced
  <2>2. Len(queue[n]) \in Nat /\ Len(queue[n]) >= 1 /\ next = queue[n][1]
        /\ Len(queue'[n]) = Len(queue[n]) - 1 /\ queue'[n] \in Seq(Prompt)
        /\ \A i \in 1 .. Len(queue[n]) - 1 : queue'[n][i] = queue[n][i + 1]
    BY <1>1, <2>1, QueueFacts
  <2>3. /\ DOMAIN queue[n] = 1 .. Len(queue[n])
        /\ DOMAIN queue'[n] = 1 .. Len(queue[n]) - 1
    BY <1>1, <2>2
  <2>4. \A i, j \in DOMAIN queue'[n] : i < j => queue'[n][i] < queue'[n][j]
    <3> SUFFICES ASSUME NEW i \in DOMAIN queue'[n], NEW j \in DOMAIN queue'[n], i < j
                 PROVE  queue'[n][i] < queue'[n][j]
      OBVIOUS
    <3>1. i + 1 \in DOMAIN queue[n] /\ j + 1 \in DOMAIN queue[n] /\ i + 1 < j + 1
      BY <2>2, <2>3
    <3>2. QED
      BY <1>1, <2>2, <2>3, <3>1 DEF PlaceOf
  <2>5. \A q \in Prompt : Contains(queue'[n], q) <=> Contains(queue[n], q) /\ q # next
    <3> SUFFICES ASSUME NEW q \in Prompt
                 PROVE  Contains(queue'[n], q) <=> Contains(queue[n], q) /\ q # next
      OBVIOUS
    <3>1. ASSUME Contains(queue'[n], q) PROVE Contains(queue[n], q) /\ q # next
      <4>1. PICK i \in 1 .. Len(queue'[n]) : queue'[n][i] = q
        BY <3>1 DEF Contains
      <4>2. queue[n][i + 1] = q /\ i + 1 \in 1 .. Len(queue[n]) /\ 1 < i + 1 /\ 1 \in 1 .. Len(queue[n])
        BY <2>2, <4>1
      <4>3. queue[n][1] < queue[n][i + 1]
        BY <1>1, <2>3, <4>2 DEF PlaceOf
      <4>4. q # next
        BY <2>2, <4>2, <4>3 DEF Prompt
      <4>5. QED
        BY <4>2, <4>4 DEF Contains
    <3>2. ASSUME Contains(queue[n], q), q # next PROVE Contains(queue'[n], q)
      <4>1. PICK i \in 1 .. Len(queue[n]) : queue[n][i] = q
        BY <3>2 DEF Contains
      <4>2. i # 1
        BY <2>2, <3>2, <4>1
      <4>3. i - 1 \in 1 .. Len(queue'[n])
        BY <2>2, <4>2
      <4>4. queue'[n][i - 1] = q
        <5>1. i - 1 \in 1 .. Len(queue[n]) - 1 /\ (i - 1) + 1 = i
          BY <2>2, <4>1, <4>2
        <5>2. queue'[n][i - 1] = queue[n][(i - 1) + 1]
          BY <2>2, <5>1
        <5>3. QED
          BY <4>1, <5>1, <5>2
      <4>5. QED
        BY <4>3, <4>4 DEF Contains
    <3>3. QED
      BY <3>1, <3>2
  <2>6. ~Queued(next, n)' /\ Sending(next, n)'
    <3>1. prompt[next] \in PromptRecord /\ Queued(next, n)
          /\ prompt'[next] = [prompt[next] EXCEPT !.state = "dispatching"]
      BY <1>1, <1>7, OutcomePrompts
    <3>2. prompt'[next].state = "dispatching" /\ prompt'[next].home = n
          /\ prompt'[next].recovery = prompt[next].recovery
      BY <3>1 DEF PromptRecord, Queued
    <3>3. ~prompt[next].recovery
      BY <3>1 DEF Queued, WorkInv, StateInv, WellFormed
    <3>4. QED
      BY <3>2, <3>3 DEF Queued, Sending, Holds
  <2>7. \A q \in Prompt \ {p, next} : (Queued(q, n)' <=> Queued(q, n)) /\ ~Sending(q, n)'
    <3>1. \A q \in Prompt \ {p, next} : Same(q)
      BY <1>7, AdvancedOthers
    <3>2. QED
      BY <1>3, <3>1, SameFacts
  <2>8. \A q \in Prompt : Contains(queue'[n], q) <=> Queued(q, n)'
    BY <1>1, <1>2, <1>4, <2>5, <2>6, <2>7 DEF PlaceOf, Queued, Holds
  <2>9. \A q \in Prompt : slot'[n] = q <=> Sending(q, n)'
    BY <1>4, <2>1, <2>6, <2>7
  <2>10. next # None
    BY NamesAssumption, MaxPromptsAssumption DEF Prompt
  <2>11. n \in live
    BY <1>1, <1>2, NamesAssumption, MaxPromptsAssumption DEF PlaceOf, Prompt
  <2>12. QED
    BY <2>1, <2>4, <2>8, <2>9, <2>10, <2>11 DEF PlaceOf
<1>8. QED
  BY <1>5, <1>6, <1>7 DEF Outcome

(* Prompts, queues and slots after an outcome.                             *)
LEMMA OutcomeWork ==
  ASSUME WorkInv, NEW p \in Prompt, NEW n \in Node, n = prompt[p].home, Holds(p),
         NEW s \in PromptRecord, Outcome(p, n, s), live' = live
  PROVE  WorkInv'
<1>1. \A q \in Prompt : prompt[q] \in PromptRecord /\ WellFormed(prompt[q])
  BY DEF WorkInv, WorkTypes, StateInv
<1>2. StateInv'
  <2> SUFFICES ASSUME NEW q \in Prompt PROVE WellFormed(prompt'[q])
    BY DEF StateInv, WellFormed
  <2>1. CASE q = p
    BY <2>1, OutcomePrompts DEF Outcome, Finished
  <2>2. CASE q # p /\ Orphaned(p, n, s)
    <3>1. prompt'[q] = prompt[q] \/ prompt'[q] = Failed(prompt[q])
      BY <2>2, OutcomePrompts
    <3>2. QED
      BY <1>1, <3>1, FailedWell
  <2>3. CASE q # p /\ Ended(p, n, s)
    BY <1>1, <2>3, OutcomePrompts
  <2>4. ASSUME q # p, NEW next \in Prompt, Advanced(p, n, s, next) PROVE WellFormed(prompt'[q])
    <3>1. CASE q # next
      BY <1>1, <2>4, <3>1, AdvancedOthers
    <3>2. CASE q = next
      <4>1. Queued(q, n) /\ prompt'[q] = [prompt[q] EXCEPT !.state = "dispatching"]
        BY <2>4, <3>2, OutcomePrompts
      <4>2. /\ prompt'[q].state = "dispatching" /\ prompt'[q].home = prompt[q].home
            /\ prompt'[q].recovery = prompt[q].recovery
            /\ prompt'[q].materialized = prompt[q].materialized
            /\ prompt'[q].sent = prompt[q].sent
        BY <1>1, <4>1 DEF PromptRecord
      <4>3. QED
        BY <1>1, <4>1, <4>2 DEF Queued, WellFormed
    <3>3. QED
      BY <3>1, <3>2
  <2>5. QED
    BY <2>1, <2>2, <2>3, <2>4 DEF Outcome
<1>3. PlaceInv'
  BY OutcomeElsewhere, OutcomeThere DEF PlaceInv
<1>4. OrderInv'
  <2> SUFFICES ASSUME NEW q \in Prompt, NEW r \in Prompt, q < r PROVE Behind(q, r)'
    BY DEF OrderInv
  <2>1. Behind(q, r) /\ StateInv
    BY DEF WorkInv, OrderInv
  <2>2. Over(p) /\ prompt[p].state \in {"dispatching", "inFlight"}
    BY OutcomePrompts DEF Holds
  <2>3. ASSUME NEW x \in Prompt, ~Queued(x, n), Same(x), prompt[x].home = n
        PROVE  prompt[x].state \notin {"queued", "dispatching"}
    <3>1. x # p
      BY <2>2, <2>3 DEF Same, Over
    <3>2. ~Sending(x, n)
      BY <3>1 DEF WorkInv, PlaceInv, PlaceOf, Sending
    <3>3. WellFormed(prompt[x])
      BY <1>1
    <3>4. QED
      BY <2>3, <3>2, <3>3 DEF Queued, Sending, Holds, WellFormed
  <2>4. CASE Orphaned(p, n, s)
    <3>1. ASSUME NEW x \in Prompt
          PROVE  /\ Same(x) \/ (Over(x) /\ prompt[x].state # "new" /\ prompt[x].home = n)
                 /\ Same(x) => ~Queued(x, n)
      <4>1. CASE x = p
        BY <2>2, <4>1 DEF Queued
      <4>2. CASE x # p /\ Queued(x, n)
        <5>1. Over(x)
          BY <2>4, <4>2, OrphanedOthers
        <5>2. QED
          BY <4>2, <5>1 DEF Queued, Same, Over
      <4>3. CASE x # p /\ ~Queued(x, n)
        <5>1. Same(x)
          BY <2>4, <4>3, OrphanedOthers
        <5>2. QED
          BY <4>3, <5>1
      <4>4. QED
        BY <4>1, <4>2, <4>3
    <3>2. Same(q) /\ prompt[q].home = n => prompt[q].state \notin {"queued", "dispatching"}
      BY <2>3, <3>1
    <3>3. QED
      BY <2>1, <3>1, <3>2, BehindKept
  <2>5. CASE Ended(p, n, s)
    <3>1. ASSUME NEW x \in Prompt PROVE ~Queued(x, n)
      BY <2>5 DEF Ended, WorkInv, PlaceInv, PlaceOf, Contains
    <3>2. ASSUME NEW x \in Prompt PROVE Same(x) \/ (Over(x) /\ prompt[x].state # "new" /\ prompt[x].home = n)
      <4>1. CASE x = p
        BY <2>2, <4>1
      <4>2. CASE x # p
        <5>1. Same(x)
          BY <2>5, <4>2, EndedOthers
        <5>2. QED
          BY <5>1
      <4>3. QED
        BY <4>1, <4>2
    <3>3. Same(q) /\ prompt[q].home = n => prompt[q].state \notin {"queued", "dispatching"}
      BY <2>3, <3>1
    <3>4. QED
      BY <2>1, <3>2, <3>3, BehindKept
  <2>6. ASSUME NEW next \in Prompt, Advanced(p, n, s, next) PROVE Behind(q, r)'
    <3>1. next # p /\ Queued(next, n) /\ prompt'[next].state = "dispatching" /\ prompt'[next].home = n
      <4>1. next # p /\ Queued(next, n) /\ prompt'[next] = [prompt[next] EXCEPT !.state = "dispatching"]
        BY <2>6, AdvancedNext
      <4>2. QED
        BY <1>1, <4>1 DEF PromptRecord, Queued
    <3>2. ASSUME NEW x \in Prompt, x # p, x # next PROVE Same(x)
      BY <2>6, <3>2, AdvancedOthers
    <3>3. ASSUME NEW x \in Prompt, Queued(x, n) PROVE x >= next
      <4>1. queue[n] \in Seq(Prompt) /\ PlaceOf(n) /\ queue[n] # <<>> /\ next = Head(queue[n])
        BY <2>6 DEF WorkInv, WorkTypes, PlaceInv, Advanced
      <4>2. PICK i \in 1 .. Len(queue[n]) : queue[n][i] = x
        BY <3>3, <4>1 DEF PlaceOf, Contains
      <4>3. next = queue[n][1] /\ 1 \in DOMAIN queue[n] /\ i \in DOMAIN queue[n]
        BY <4>1, <4>2
      <4>4. CASE i = 1
        BY <4>2, <4>3, <4>4 DEF Prompt
      <4>5. CASE i # 1
        <5>1. 1 < i
          BY <4>2, <4>5
        <5>2. QED
          BY <4>1, <4>2, <4>3, <5>1 DEF PlaceOf, Prompt
      <4>6. QED
        BY <4>4, <4>5
    <3>4. ASSUME NEW x \in Prompt, x # p, prompt[x].home = n
          PROVE  prompt[x].state # "dispatching"
      <4>1. ~Sending(x, n)
        BY <3>4 DEF WorkInv, PlaceInv, PlaceOf, Sending
      <4>2. WellFormed(prompt[x])
        BY <1>1
      <4>3. QED
        BY <3>4, <4>1, <4>2 DEF Sending, Holds, WellFormed
    <3>5. CASE q = p
      BY <2>2, <3>5 DEF Behind, Over
    <3>6. CASE q # p /\ r = p
      <4>1. CASE q = next
        <5>1. prompt[q].state = "queued" /\ prompt[q].home = n
          BY <3>1, <4>1 DEF Queued
        <5>2. QED
          BY <2>1, <2>2, <3>6, <5>1 DEF Behind
      <4>2. CASE q # next
        <5>1. Same(q)
          BY <3>2, <3>6, <4>2
        <5>2. WellFormed(prompt[q]) /\ Recovery \notin Node
          BY <1>1, NamesAssumption DEF Node
        <5>3. prompt[q].state # "new"
          BY <2>1, <2>2, <3>6 DEF Behind
        <5>4. ASSUME prompt[q].state \in {"queued", "dispatching"} PROVE prompt[q].home # prompt'[p].home
          BY <2>1, <2>2, <3>6, <5>2, <5>4 DEF Behind, Over, WellFormed
        <5>5. QED
          BY <3>6, <5>1, <5>3, <5>4 DEF Behind, Same
      <4>3. QED
        BY <4>1, <4>2
    <3>7. CASE q # p /\ r # p /\ r = next
      <4>1. Same(q)
        BY <3>2, <3>7 DEF Prompt
      <4>2. ~(q >= next)
        BY <3>7 DEF Prompt
      <4>3. prompt[q].home = n => prompt[q].state \notin {"queued", "dispatching"}
        BY <3>3, <3>4, <3>7, <4>2 DEF Queued
      <4>4. prompt[q].state # "new"
        BY <2>1, <3>1, <3>7 DEF Behind, Queued
      <4>5. QED
        BY <3>1, <3>7, <4>1, <4>3, <4>4 DEF Behind, Same
    <3>8. CASE q = next /\ r # p
      <4>1. Same(r) /\ q # r
        BY <3>2, <3>8 DEF Prompt
      <4>2. QED
        BY <2>1, <3>1, <3>8, <4>1 DEF Behind, Same, Queued
    <3>9. CASE q \notin {p, next} /\ r \notin {p, next}
      <4>1. Same(q) /\ Same(r)
        BY <3>2, <3>9
      <4>2. QED
        BY <2>1, <4>1 DEF Behind, Same
    <3>10. QED
      BY <3>5, <3>6, <3>7, <3>8, <3>9
  <2>7. QED
    BY <2>4, <2>5, <2>6 DEF Outcome
<1>5. QED
  BY <1>2, <1>3, <1>4, OutcomeTypes DEF WorkInv

----------------------------------------------------------------------------
(* forgetPrompt *)

(* Nothing of ps is at m.                                                  *)
LEMMA ForgetNothing ==
  ASSUME WorkInv, NEW ps \in SUBSET Prompt, ForgetPrompts(ps), NEW m \in Node,
         \A q \in ps : ~Queued(q, m) /\ ~Sending(q, m)
  PROVE  queue'[m] = queue[m] /\ slot'[m] = slot[m]
<1>1. PlaceOf(m) /\ queue[m] \in Seq(Prompt)
  BY DEF WorkInv, WorkTypes, PlaceInv
<1>2. \A i \in DOMAIN queue[m] : queue[m][i] \notin ps
  <2> SUFFICES ASSUME NEW i \in DOMAIN queue[m], queue[m][i] \in ps PROVE FALSE
    OBVIOUS
  <2>1. Contains(queue[m], queue[m][i])
    BY <1>1 DEF Contains
  <2>2. QED
    BY <1>1, <2>1 DEF PlaceOf
<1>3. Without(queue[m], ps) = queue[m]
  BY <1>1, <1>2, WithoutNone
<1>4. slot[m] \notin ps
  BY <1>1 DEF PlaceOf
<1>5. QED
  BY <1>3, <1>4 DEF ForgetPrompts

(* Everything at m is of ps.                                               *)
LEMMA ForgetEverything ==
  ASSUME WorkInv, NEW ps \in SUBSET Prompt, ForgetPrompts(ps), NEW m \in Node,
         \A q \in Prompt : Queued(q, m) \/ Sending(q, m) => q \in ps
  PROVE  queue'[m] = <<>> /\ slot'[m] = None
<1>1. PlaceOf(m) /\ queue[m] \in Seq(Prompt) /\ slot[m] \in Prompt \cup {None}
  BY DEF WorkInv, WorkTypes, PlaceInv
<1>2. \A i \in DOMAIN queue[m] : queue[m][i] \in ps
  <2> SUFFICES ASSUME NEW i \in DOMAIN queue[m] PROVE queue[m][i] \in ps
    OBVIOUS
  <2>1. Contains(queue[m], queue[m][i]) /\ queue[m][i] \in Prompt
    BY <1>1 DEF Contains
  <2>2. QED
    BY <1>1, <2>1 DEF PlaceOf
<1>3. Without(queue[m], ps) = <<>>
  BY <1>1, <1>2, WithoutAll
<1>4. slot[m] \in Prompt => slot[m] \in ps
  BY <1>1 DEF PlaceOf
<1>5. QED
  BY <1>1, <1>3, <1>4 DEF ForgetPrompts

(* A prompt that does not hold a slot and does not wait is forgotten       *)
(* without a change of queues and slots.                                   *)
LEMMA ForgetOne ==
  ASSUME WorkInv, NEW p \in Prompt, ForgetPrompts({p}), ~Holds(p), prompt[p].state # "queued"
  PROVE  queue' = queue /\ slot' = slot
<1>1. queue \in [Node -> Seq(Prompt)] /\ slot \in [Node -> Prompt \cup {None}]
  BY DEF WorkInv, WorkTypes
<1>2. \A m \in Node : queue'[m] = queue[m] /\ slot'[m] = slot[m]
  BY ForgetNothing DEF Queued, Sending
<1>3. queue' = [m \in Node |-> queue'[m]] /\ slot' = [m \in Node |-> slot'[m]]
  BY DEF ForgetPrompts
<1>4. QED
  BY <1>1, <1>2, <1>3

----------------------------------------------------------------------------
(* Each kind of step keeps the places *)

(* Completion does something to a prompt that holds its slot only.         *)
LEMMA CompleteFacts ==
  ASSUME WorkInv, NEW p \in Prompt, NEW accepted \in BOOLEAN, Complete(p, accepted),
         Holds(p) \/ prompt[p].recovery \/ prompt[p].state = "gone",
         Holds(p) /\ accepted => prompt[p].home \in Thread
  PROVE  \/ /\ Holds(p) /\ prompt[p].home \in Node
            /\ \E s \in PromptRecord : Outcome(p, prompt[p].home, s)
         \/ ~Holds(p) /\ command' = None /\ UNCHANGED promptVars
<1>1. CASE Holds(p)
  <2>1. PromptLive(p) /\ ~prompt[p].recovery
    BY <1>1 DEF Holds, PromptLive
  <2>2. Settle(p, accepted)
    BY <2>1 DEF Complete
  <2>3. QED
    BY <1>1, <2>2, SettleFacts
<1>2. CASE ~Holds(p)
  <2>1. CASE ~PromptLive(p)
    BY <1>2, <2>1 DEF Complete
  <2>2. CASE PromptLive(p)
    <3>1. prompt[p].recovery
      BY <1>2, <2>2 DEF PromptLive
    <3>2. ForgetPrompts({p}) /\ command' = None /\ UNCHANGED <<prompt, creating>>
      BY <2>2, <3>1 DEF Complete
    <3>3. prompt[p].state # "queued"
      BY <3>1 DEF WorkInv, StateInv, WellFormed
    <3>4. QED
      BY <1>2, <3>2, <3>3, ForgetOne DEF promptVars
  <2>3. QED
    BY <2>1, <2>2
<1>3. QED
  BY <1>1, <1>2

(* Nothing happens to prompts, queues and slots.                           *)
LEMMA IdleWork ==
  ASSUME WorkInv, UNCHANGED promptVars, command' \in CommandRecord \cup {None},
         live \subseteq live'
  PROVE  WorkInv'
<1>1. WorkTypes'
  BY DEF WorkInv, WorkTypes, promptVars
<1>2. StateInv' /\ OrderInv'
  BY DEF WorkInv, StateInv, WellFormed, OrderInv, Behind, promptVars
<1>3. ASSUME NEW m \in Node PROVE PlaceOf(m)'
  BY DEF WorkInv, PlaceInv, PlaceOf, Queued, Sending, Holds, promptVars
<1>4. QED
  BY <1>1, <1>2, <1>3 DEF WorkInv, PlaceInv

(* Prompts, queues and slots after completePrompt.                         *)
LEMMA CompleteWork ==
  ASSUME WorkInv, NEW p \in Prompt, NEW accepted \in BOOLEAN, Complete(p, accepted),
         Holds(p) \/ prompt[p].recovery \/ prompt[p].state = "gone",
         Holds(p) /\ accepted => prompt[p].home \in Thread, live' = live
  PROVE  WorkInv'
<1>1. CASE Holds(p) /\ prompt[p].home \in Node /\ \E s \in PromptRecord : Outcome(p, prompt[p].home, s)
  BY <1>1, OutcomeWork
<1>2. CASE command' = None /\ UNCHANGED promptVars
  BY <1>2, IdleWork
<1>3. QED
  BY <1>1, <1>2, CompleteFacts

(* Admission: the prompt takes a free slot or joins the queue.             *)
Entry(n, creates, state) ==
  [NewPrompt EXCEPT !.state = state, !.home = n, !.creates = creates]
Taken(p, n, creates) ==
  /\ slot[n] = None /\ queue[n] = <<>>
  /\ prompt' = [prompt EXCEPT ![p] = Entry(n, creates, "dispatching")]
  /\ slot' = [slot EXCEPT ![n] = p] /\ queue' = queue
  /\ command' = Command(p, n, creates)
Joined(p, n, creates) ==
  /\ slot[n] # None
  /\ prompt' = [prompt EXCEPT ![p] = Entry(n, creates, "queued")]
  /\ slot' = slot /\ queue' = [queue EXCEPT ![n] = Append(queue[n], p)]
  /\ command' = None

(* The record of a prompt that has just been admitted.                     *)
LEMMA EntryFacts ==
  ASSUME NEW n \in Node, NEW creates \in BOOLEAN, NEW state \in States
  PROVE  LET e == Entry(n, creates, state)
         IN  /\ e \in PromptRecord /\ e.state = state /\ e.home = n /\ e.creates = creates
             /\ ~e.recovery /\ ~e.materialized /\ ~e.sent
  BY DEF Entry, NewPrompt, PromptRecord

(* An admitted prompt takes a free slot or joins the queue.                *)
LEMMA EnqueueFacts ==
  ASSUME WorkInv, NEW p \in Prompt, NEW n \in Node, NEW creates \in BOOLEAN, Enqueue(p, n, creates)
  PROVE  Taken(p, n, creates) \/ Joined(p, n, creates)
<1>1. /\ prompt \in [Prompt -> PromptRecord] /\ slot \in [Node -> Prompt \cup {None}]
      /\ queue \in [Node -> Seq(Prompt)] /\ PlaceOf(n) /\ None \notin Prompt
  BY NamesAssumption, MaxPromptsAssumption DEF WorkInv, WorkTypes, PlaceInv, Prompt
<1> DEFINE e == Entry(n, creates, "queued")
           added == [prompt EXCEPT ![p] = e]
<1>2. e \in PromptRecord
  BY EntryFacts DEF States
<1>3. CASE slot[n] = None
  <2>1. queue[n] = <<>>
    BY <1>1, <1>3 DEF PlaceOf
  <2>2. JoinQueue(n, p) = <<p>>
    BY <2>1 DEF JoinQueue
  <2>3. NextOf(slot[n], <<p>>) = p /\ p # None
    BY <1>1, <1>3 DEF NextOf
  <2>4. /\ prompt' = [added EXCEPT ![p].state = "dispatching"]
        /\ slot' = [slot EXCEPT ![n] = p] /\ queue' = [queue EXCEPT ![n] = Tail(<<p>>)]
        /\ command' = Command(p, n, added[p].creates)
    BY <2>2, <2>3 DEF Enqueue, Entry
  <2>5. added[p] = e /\ e.creates = creates
    BY <1>1, EntryFacts DEF States
  <2>6. [e EXCEPT !.state = "dispatching"] = Entry(n, creates, "dispatching")
    BY DEF Entry, NewPrompt
  <2>7. prompt' = [prompt EXCEPT ![p] = Entry(n, creates, "dispatching")]
    <3> HIDE DEF e
    <3> QED
      BY <1>1, <2>4, <2>6
  <2>8. queue' = queue
    <3>1. Tail(<<p>>) = <<>>
      OBVIOUS
    <3>2. QED
      BY <1>1, <2>1, <2>4, <3>1
  <2>9. QED
    BY <1>3, <2>1, <2>4, <2>5, <2>7, <2>8 DEF Taken
<1>4. CASE slot[n] # None
  <2>1. NextOf(slot[n], JoinQueue(n, p)) = None
    BY <1>4 DEF NextOf
  <2>2. /\ prompt' = added /\ command' = None
        /\ slot' = [slot EXCEPT ![n] = slot[n]] /\ queue' = [queue EXCEPT ![n] = Append(queue[n], p)]
    BY <2>1 DEF Enqueue, Entry, JoinQueue
  <2>3. QED
    BY <1>1, <1>4, <2>2 DEF Joined
<1>5. QED
  BY <1>3, <1>4

(* The first new prompt: those before it are admitted, those after it new. *)
LEMMA NewOrder ==
  ASSUME WorkInv, NEW p \in Prompt, NextNew(p)
  PROVE  /\ prompt[p] = NewPrompt
         /\ \A q \in Prompt : prompt[q].state = "new" <=> q >= p
<1>1. prompt[p].state = "new" /\ \A q \in 1 .. p - 1 : prompt[q].state # "new"
  BY DEF NextNew
<1>2. prompt[p] = NewPrompt
  BY <1>1 DEF WorkInv, StateInv, WellFormed
<1>3. ASSUME NEW q \in Prompt PROVE prompt[q].state = "new" <=> q >= p
  <2>1. CASE q < p
    BY <1>1, <2>1 DEF Prompt
  <2>2. CASE q = p
    BY <1>1, <2>2 DEF Prompt
  <2>3. CASE p < q
    BY <1>1, <2>3 DEF WorkInv, OrderInv, Behind, Prompt
  <2>4. QED
    BY <2>1, <2>2, <2>3 DEF Prompt
<1>4. QED
  BY <1>2, <1>3

(* Queues and slots after an admission.                                    *)
LEMMA AdmittedPlaces ==
  ASSUME WorkInv, NEW p \in Prompt, NextNew(p), NEW n \in Node, NEW creates \in BOOLEAN,
         Taken(p, n, creates) \/ Joined(p, n, creates), n \in live', live \subseteq live'
  PROVE  PlaceInv'
<1> SUFFICES ASSUME NEW m \in Node PROVE PlaceOf(m)'
  BY DEF PlaceInv
<1>1. /\ prompt \in [Prompt -> PromptRecord] /\ slot \in [Node -> Prompt \cup {None}]
      /\ queue \in [Node -> Seq(Prompt)] /\ PlaceOf(m) /\ PlaceOf(n) /\ None \notin Prompt
  BY NamesAssumption, MaxPromptsAssumption DEF WorkInv, WorkTypes, PlaceInv, Prompt
<1>2. prompt[p].state = "new" /\ ~Queued(p, m) /\ ~Sending(p, m) /\ ~Queued(p, n) /\ ~Sending(p, n)
  BY NewOrder, NewFacts DEF Queued, Sending, Holds
<1>3. \A q \in Prompt : q # p => prompt'[q] = prompt[q]
  BY <1>1 DEF Taken, Joined
<1>4. \A q \in Prompt : q # p => (Queued(q, m)' <=> Queued(q, m)) /\ (Sending(q, m)' <=> Sending(q, m))
  BY <1>3 DEF Queued, Sending, Holds
<1>5. CASE m # n
  <2>1. queue'[m] = queue[m] /\ slot'[m] = slot[m]
    BY <1>1, <1>5 DEF Taken, Joined
  <2>2. prompt'[p].home = n
    BY <1>1, EntryFacts DEF Taken, Joined, States
  <2>3. ~Queued(p, m)' /\ ~Sending(p, m)'
    BY <1>5, <2>2 DEF Queued, Sending
  <2>4. QED
    BY <1>1, <1>2, <1>4, <2>1, <2>3, PlaceKept
<1>6. CASE m = n /\ Taken(p, n, creates)
  <2>1. prompt'[p].state = "dispatching" /\ prompt'[p].home = n /\ ~prompt'[p].recovery
    BY <1>1, <1>6, EntryFacts DEF Taken, States
  <2>2. ~Queued(p, n)' /\ Sending(p, n)'
    BY <2>1 DEF Queued, Sending, Holds
  <2>3. slot[n] = None /\ slot'[n] = p /\ queue[n] = <<>> /\ queue'[n] = <<>>
    BY <1>1, <1>6 DEF Taken
  <2>4. QED
    BY <1>1, <1>2, <1>4, <1>6, <2>2, <2>3 DEF PlaceOf
<1>7. CASE m = n /\ Joined(p, n, creates)
  <2>1. prompt'[p].state = "queued" /\ prompt'[p].home = n
    BY <1>1, <1>7, EntryFacts DEF Joined, States
  <2>2. Queued(p, n)' /\ ~Sending(p, n)'
    BY <2>1 DEF Queued, Sending, Holds
  <2>3. slot[n] # None /\ slot'[n] = slot[n] /\ queue'[n] = Append(queue[n], p)
    BY <1>1, <1>7 DEF Joined
  <2>4. /\ Len(queue[n]) \in Nat /\ DOMAIN queue[n] = 1 .. Len(queue[n])
        /\ Len(queue'[n]) = Len(queue[n]) + 1 /\ DOMAIN queue'[n] = 1 .. Len(queue[n]) + 1
        /\ \A i \in 1 .. Len(queue[n]) : queue[n][i] \in Prompt /\ queue'[n][i] = queue[n][i]
        /\ queue'[n][Len(queue[n]) + 1] = p
    BY <1>1, <2>3, QueueFacts
  <2>5. \A i \in 1 .. Len(queue[n]) : Queued(queue[n][i], n)
    <3> SUFFICES ASSUME NEW i \in 1 .. Len(queue[n]) PROVE Queued(queue[n][i], n)
      OBVIOUS
    <3>1. Contains(queue[n], queue[n][i])
      BY DEF Contains
    <3>2. QED
      BY <1>1, <2>4, <3>1 DEF PlaceOf
  <2>6. \A i \in 1 .. Len(queue[n]) : queue[n][i] < p
    <3> SUFFICES ASSUME NEW i \in 1 .. Len(queue[n]) PROVE queue[n][i] < p
      OBVIOUS
    <3>1. prompt[queue[n][i]].state # "new" /\ queue[n][i] \in Prompt
      BY <2>4, <2>5 DEF Queued
    <3>2. QED
      BY <3>1, NewOrder DEF Prompt
  <2>7. \A i, j \in DOMAIN queue'[n] : i < j => queue'[n][i] < queue'[n][j]
    <3> SUFFICES ASSUME NEW i \in DOMAIN queue'[n], NEW j \in DOMAIN queue'[n], i < j
                 PROVE  queue'[n][i] < queue'[n][j]
      OBVIOUS
    <3>1. i \in 1 .. Len(queue[n])
      BY <2>4
    <3>2. CASE j = Len(queue[n]) + 1
      BY <2>4, <2>6, <3>1, <3>2
    <3>3. CASE j # Len(queue[n]) + 1
      BY <1>1, <2>4, <3>1, <3>3 DEF PlaceOf
    <3>4. QED
      BY <3>2, <3>3
  <2>8. \A q \in Prompt : Contains(queue'[n], q) <=> Contains(queue[n], q) \/ q = p
    <3> SUFFICES ASSUME NEW q \in Prompt PROVE Contains(queue'[n], q) <=> Contains(queue[n], q) \/ q = p
      OBVIOUS
    <3>1. Contains(queue'[n], q) => Contains(queue[n], q) \/ q = p
      BY <2>4 DEF Contains
    <3>2. Contains(queue[n], q) => Contains(queue'[n], q)
      BY <2>4 DEF Contains
    <3>3. Contains(queue'[n], p)
      BY <2>4 DEF Contains
    <3>4. QED
      BY <3>1, <3>2, <3>3
  <2>9. \A q \in Prompt : Contains(queue'[n], q) <=> Queued(q, n)'
    BY <1>1, <1>4, <1>7, <2>2, <2>8 DEF PlaceOf
  <2>10. \A q \in Prompt : slot'[n] = q <=> Sending(q, n)'
    BY <1>1, <1>2, <1>4, <1>7, <2>2, <2>3 DEF PlaceOf
  <2>11. QED
    BY <1>7, <2>3, <2>7, <2>9, <2>10 DEF PlaceOf
<1>8. QED
  BY <1>5, <1>6, <1>7

(* Prompts, queues, slots and their order after an admission.              *)
LEMMA AdmittedWork ==
  ASSUME WorkInv, NEW p \in Prompt, NextNew(p), NEW n \in Node, NEW creates \in BOOLEAN,
         Taken(p, n, creates) \/ (Joined(p, n, creates) /\ ~creates),
         creating' \subseteq Draft, n \in live', live \subseteq live'
  PROVE  WorkInv'
<1>1. /\ prompt \in [Prompt -> PromptRecord] /\ slot \in [Node -> Prompt \cup {None}]
      /\ queue \in [Node -> Seq(Prompt)]
      /\ \A q \in Prompt : prompt[q] \in PromptRecord /\ WellFormed(prompt[q])
  BY DEF WorkInv, WorkTypes, StateInv
<1>2. PICK state \in States :
        /\ state \in {"dispatching", "queued"} /\ (state = "queued" => ~creates)
        /\ state = "queued" <=> slot[n] # None
        /\ prompt' = [prompt EXCEPT ![p] = Entry(n, creates, state)]
  BY DEF Taken, Joined, States
<1>3. PICK e \in PromptRecord :
        /\ e = Entry(n, creates, state) /\ e.state = state /\ e.home = n /\ e.creates = creates
        /\ ~e.recovery /\ ~e.materialized /\ ~e.sent
  BY EntryFacts
<1>4. prompt' = [prompt EXCEPT ![p] = e] /\ prompt'[p] = e /\ \A q \in Prompt : q # p => prompt'[q] = prompt[q]
  BY <1>1, <1>2, <1>3
<1>5. WorkTypes'
  <2>1. prompt' \in [Prompt -> PromptRecord]
    BY <1>1, <1>4
  <2>2. queue' \in [Node -> Seq(Prompt)] /\ slot' \in [Node -> Prompt \cup {None}]
    <3>1. Append(queue[n], p) \in Seq(Prompt)
      BY <1>1, QueueFacts
    <3>2. QED
      BY <1>1, <3>1 DEF Taken, Joined
  <2>3. command' \in CommandRecord \cup {None}
    BY CommandFacts DEF Taken, Joined
  <2>4. QED
    BY <2>1, <2>2, <2>3 DEF WorkTypes
<1>6. StateInv'
  <2>1. WellFormed(e)
    BY <1>2, <1>3 DEF WellFormed
  <2>2. QED
    BY <1>1, <1>4, <2>1 DEF StateInv, WellFormed
<1>7. OrderInv'
  <2> SUFFICES ASSUME NEW q \in Prompt, NEW r \in Prompt, q < r PROVE Behind(q, r)'
    BY DEF OrderInv
  <2>1. Behind(q, r) /\ (prompt[q].state = "new" <=> q >= p) /\ (prompt[r].state = "new" <=> r >= p)
    BY NewOrder DEF WorkInv, OrderInv
  <2>2. CASE q # p /\ r # p
    BY <1>4, <2>1, <2>2 DEF Behind
  <2>3. CASE q = p
    <3>1. r # p /\ prompt'[r].state = "new" /\ prompt'[q].state # "new" /\ r >= p
      BY <1>2, <1>3, <1>4, <2>1, <2>3 DEF Prompt
    <3>2. prompt'[r].home = Recovery /\ prompt'[q].home = n /\ Recovery \notin Node
      BY <1>1, <1>3, <1>4, <2>3, <3>1, NewFacts, NamesAssumption DEF WellFormed, Node
    <3>3. QED
      BY <3>1, <3>2 DEF Behind
  <2>4. CASE r = p
    <3>1. prompt'[q] = prompt[q] /\ prompt[q].state # "new" /\ prompt'[r] = e
      BY <1>4, <2>1, <2>4 DEF Prompt
    <3>2. ASSUME state = "dispatching", prompt[q].home = n
          PROVE  prompt[q].state \notin {"queued", "dispatching"}
      <4>1. PlaceOf(n) /\ slot[n] = None /\ queue[n] = <<>> /\ slot[n] \notin Prompt
        BY <1>2, <3>2, NamesAssumption, MaxPromptsAssumption DEF WorkInv, PlaceInv, PlaceOf, Prompt
      <4>2. ~Queued(q, n) /\ ~Sending(q, n)
        BY <4>1 DEF PlaceOf, Contains
      <4>3. QED
        BY <1>1, <3>2, <4>2 DEF Queued, Sending, Holds, WellFormed
    <3>3. QED
      BY <1>2, <1>3, <3>1, <3>2 DEF Behind
  <2>5. QED
    BY <2>2, <2>3, <2>4
<1>8. QED
  BY <1>5, <1>6, <1>7, AdmittedPlaces DEF WorkInv

(* Prompts at n are over, and n is left empty.                             *)
LEMMA ClearedWork ==
  ASSUME WorkInv, NEW n \in Node,
         \A q \in Prompt : Same(q) \/ (Over(q) /\ prompt[q].state # "new" /\ prompt[q].home = n),
         \A q \in Prompt : Same(q) => ~Queued(q, n) /\ ~Sending(q, n),
         queue'[n] = <<>>, slot'[n] = None,
         \A m \in Node \ {n} : /\ queue'[m] = queue[m] /\ slot'[m] = slot[m]
                               /\ m \in live => m \in live'
  PROVE  PlaceInv' /\ OrderInv'
<1>1. PlaceInv'
  <2> SUFFICES ASSUME NEW m \in Node PROVE PlaceOf(m)'
    BY DEF PlaceInv
  <2>1. PlaceOf(m) /\ Recovery \notin Node
    BY NamesAssumption DEF WorkInv, PlaceInv, Node
  <2>2. CASE m = n
    <3>1. ASSUME NEW q \in Prompt PROVE ~Queued(q, n)' /\ ~Sending(q, n)'
      BY OverFacts, SameFacts
    <3>2. QED
      BY <2>2, <3>1, PlaceEmptied
  <2>3. CASE m # n
    <3>1. ASSUME NEW q \in Prompt
          PROVE  (Queued(q, m)' <=> Queued(q, m)) /\ (Sending(q, m)' <=> Sending(q, m))
      <4>1. CASE Same(q)
        BY <4>1, SameFacts
      <4>2. CASE Over(q) /\ prompt[q].home = n
        BY <2>3, <4>2, OverFacts DEF Queued, Sending
      <4>3. QED
        BY <4>1, <4>2
    <3>2. queue'[m] = queue[m] /\ slot'[m] = slot[m] /\ (m \in live => m \in live')
      BY <2>3
    <3>3. QED
      BY <2>1, <3>1, <3>2, PlaceKept
  <2>4. QED
    BY <2>2, <2>3
<1>2. OrderInv'
  <2> SUFFICES ASSUME NEW q \in Prompt, NEW r \in Prompt, q < r PROVE Behind(q, r)'
    BY DEF OrderInv
  <2>1. StateInv /\ Behind(q, r) /\ WellFormed(prompt[q])
    BY DEF WorkInv, OrderInv, StateInv
  <2>2. Same(q) /\ prompt[q].home = n => prompt[q].state \notin {"queued", "dispatching"}
    BY <2>1 DEF Queued, Sending, Holds, WellFormed
  <2>3. QED
    BY <2>1, <2>2, BehindKept
<1>3. QED
  BY <1>1, <1>2

(* A revert empties the place of its thread.                               *)
LEMMA RevertedWork ==
  ASSUME PipelineTypes, WorkInv, NEW t \in Thread, Reverted(t)
  PROVE  WorkInv' /\ slot'[t] = None /\ \A m \in Node \ {t} : slot'[m] = slot[m]
<1> DEFINE unsettled == {p \in Prompt : /\ PromptLive(p) /\ prompt[p].home = t
                                        /\ prompt[p].state # "failed"}
<1>1. /\ prompt' = [p \in Prompt |-> IF p \in unsettled THEN Failed(prompt[p]) ELSE prompt[p]]
      /\ ForgetPrompts(unsettled) /\ UNCHANGED <<creating, command, live>>
  BY DEF Reverted
<1>2. /\ \A q \in Prompt : prompt[q] \in PromptRecord /\ WellFormed(prompt[q])
      /\ queue \in [Node -> Seq(Prompt)] /\ slot \in [Node -> Prompt \cup {None}] /\ t \in Node
      /\ creating \subseteq Draft /\ command \in CommandRecord \cup {None}
  BY DEF WorkInv, WorkTypes, StateInv, Node
<1>3. ASSUME NEW q \in Prompt
      PROVE  /\ Same(q) \/ (Over(q) /\ prompt[q].state # "new" /\ prompt[q].home = t)
             /\ Same(q) => ~Queued(q, t) /\ ~Sending(q, t)
  <2>1. CASE q \in unsettled
    <3>1. prompt'[q] = Failed(prompt[q])
      BY <1>1, <2>1
    <3>2. Over(q) /\ prompt'[q].state = "failed"
      BY <1>2, <3>1, FailedFacts DEF Over
    <3>3. prompt[q].state \notin {"new", "failed"} /\ prompt[q].home = t
      BY <2>1 DEF PromptLive
    <3>4. QED
      BY <3>2, <3>3 DEF Same
  <2>2. CASE q \notin unsettled
    <3>1. prompt'[q] = prompt[q]
      BY <1>1, <2>2
    <3>2. ~Queued(q, t) /\ ~Sending(q, t)
      BY <2>2 DEF Queued, Sending, Holds, PromptLive
    <3>3. QED
      BY <3>1, <3>2 DEF Same
  <2>3. QED
    BY <2>1, <2>2
<1>4. queue'[t] = <<>> /\ slot'[t] = None
  <2>1. \A q \in Prompt : Queued(q, t) \/ Sending(q, t) => q \in unsettled
    BY DEF Queued, Sending, Holds, PromptLive
  <2>2. unsettled \in SUBSET Prompt
    OBVIOUS
  <2>3. QED
    BY <1>1, <1>2, <2>1, <2>2, ForgetEverything
<1>5. \A m \in Node \ {t} : queue'[m] = queue[m] /\ slot'[m] = slot[m]
  <2> SUFFICES ASSUME NEW m \in Node, m # t PROVE queue'[m] = queue[m] /\ slot'[m] = slot[m]
    OBVIOUS
  <2>1. \A q \in unsettled : ~Queued(q, m) /\ ~Sending(q, m)
    BY DEF Queued, Sending
  <2>2. unsettled \in SUBSET Prompt
    OBVIOUS
  <2>3. QED
    BY <1>1, <2>1, <2>2, ForgetNothing
<1>6. WorkTypes'
  <2>1. prompt' \in [Prompt -> PromptRecord]
    BY <1>1, <1>2, FailedFacts
  <2>2. ASSUME NEW m \in Node PROVE queue'[m] \in Seq(Prompt) /\ slot'[m] \in Prompt \cup {None}
    <3>1. CASE m = t
      <4>1. <<>> \in Seq(Prompt)
        OBVIOUS
      <4>2. QED
        BY <1>4, <3>1, <4>1
    <3>2. CASE m # t
      BY <1>2, <1>5, <3>2
    <3>3. QED
      BY <3>1, <3>2
  <2>3. queue' = [m \in Node |-> queue'[m]] /\ slot' = [m \in Node |-> slot'[m]]
    BY <1>1 DEF ForgetPrompts
  <2>4. queue' \in [Node -> Seq(Prompt)] /\ slot' \in [Node -> Prompt \cup {None}]
    BY <2>2, <2>3
  <2>5. QED
    BY <1>1, <1>2, <2>1, <2>4 DEF WorkTypes
<1>7. StateInv'
  <2>1. \A q \in Prompt : prompt'[q] = prompt[q] \/ prompt'[q] = Failed(prompt[q])
    BY <1>1
  <2>2. \A q \in Prompt : WellFormed(prompt'[q])
    BY <1>2, <2>1, FailedWell
  <2>3. QED
    BY <2>2 DEF StateInv, WellFormed
<1>8. PlaceInv' /\ OrderInv'
  BY <1>1, <1>2, <1>3, <1>4, <1>5, ClearedWork
<1>9. QED
  BY <1>4, <1>5, <1>6, <1>7, <1>8 DEF WorkInv

(* So does a deletion.                                                     *)
LEMMA DeletedWork ==
  ASSUME WorkInv, NEW t \in Thread, Deleted(t)
  PROVE  WorkInv'
<1>1. /\ prompt' = [p \in Prompt |->
            IF PromptLive(p) /\ prompt[p].home = t
            THEN [Lost(prompt[p]) EXCEPT !.materialized = FALSE] ELSE prompt[p]]
      /\ queue' = [queue EXCEPT ![t] = <<>>] /\ slot' = [slot EXCEPT ![t] = None]
      /\ UNCHANGED <<creating, command>> /\ live' = live \ {t}
  BY DEF Deleted
<1>2. /\ \A q \in Prompt : prompt[q] \in PromptRecord /\ WellFormed(prompt[q])
      /\ queue \in [Node -> Seq(Prompt)] /\ slot \in [Node -> Prompt \cup {None}] /\ t \in Node
      /\ creating \subseteq Draft /\ command \in CommandRecord \cup {None} /\ Recovery \notin Node
  BY NamesAssumption DEF WorkInv, WorkTypes, StateInv, Node
<1>3. ASSUME NEW q \in Prompt, PromptLive(q), prompt[q].home = t
      PROVE  /\ prompt'[q] \in PromptRecord /\ prompt'[q].state = "failed" /\ prompt'[q].recovery
             /\ prompt'[q].home = Recovery /\ ~prompt'[q].materialized
  <2>1. PICK lost \in PromptRecord : lost = Lost(prompt[q])
    BY <1>2, FailedFacts
  <2>2. prompt'[q] = [lost EXCEPT !.materialized = FALSE]
    BY <1>1, <1>3, <2>1
  <2>3. lost.state = "failed" /\ lost.recovery /\ lost.home = Recovery
    BY <1>2, <2>1, FailedFacts
  <2>4. QED
    BY <2>2, <2>3 DEF PromptRecord
<1>4. ASSUME NEW q \in Prompt, ~(PromptLive(q) /\ prompt[q].home = t) PROVE prompt'[q] = prompt[q]
  BY <1>1, <1>4
<1>5. WorkTypes'
  <2>1. \A q \in Prompt : prompt'[q] \in PromptRecord
    BY <1>2, <1>3, <1>4
  <2>2. prompt' = [q \in Prompt |-> prompt'[q]]
    BY <1>1
  <2>3. prompt' \in [Prompt -> PromptRecord]
    BY <2>1, <2>2
  <2>4. queue' \in [Node -> Seq(Prompt)] /\ slot' \in [Node -> Prompt \cup {None}]
    BY <1>1, <1>2
  <2>5. QED
    BY <1>1, <1>2, <2>3, <2>4 DEF WorkTypes
<1>6. StateInv'
  <2> SUFFICES ASSUME NEW q \in Prompt PROVE WellFormed(prompt'[q])
    BY DEF StateInv, WellFormed
  <2>1. CASE PromptLive(q) /\ prompt[q].home = t
    BY <1>2, <1>3, <2>1, NamesAssumption DEF WellFormed
  <2>2. QED
    BY <1>2, <1>4, <2>1
<1>7. ASSUME NEW q \in Prompt
      PROVE  /\ Same(q) \/ (Over(q) /\ prompt[q].state # "new" /\ prompt[q].home = t)
             /\ Same(q) => ~Queued(q, t) /\ ~Sending(q, t)
  <2>1. CASE PromptLive(q) /\ prompt[q].home = t
    BY <1>2, <1>3, <2>1 DEF Over, Same, PromptLive
  <2>2. CASE ~(PromptLive(q) /\ prompt[q].home = t)
    BY <1>4, <2>2 DEF Same, Queued, Sending, Holds, PromptLive
  <2>3. QED
    BY <2>1, <2>2
<1>8. PlaceInv' /\ OrderInv'
  <2>1. queue'[t] = <<>> /\ slot'[t] = None
    BY <1>1, <1>2
  <2>2. \A m \in Node \ {t} : /\ queue'[m] = queue[m] /\ slot'[m] = slot[m]
                              /\ m \in live => m \in live'
    BY <1>1, <1>2
  <2>3. QED
    BY <1>2, <1>7, <2>1, <2>2, ClearedWork
<1>9. QED
  BY <1>5, <1>6, <1>8 DEF WorkInv

(* A reset empties every place.                                            *)
LEMMA ResetWork ==
  ASSUME WorkInv, Reset
  PROVE  WorkInv'
<1>1. /\ prompt' = [p \in Prompt |-> IF PromptLive(p) THEN Lost(prompt[p]) ELSE prompt[p]]
      /\ queue' = [n \in Node |-> <<>>] /\ slot' = [n \in Node |-> None]
      /\ creating' = {} /\ command' = command
  BY DEF Reset
<1>2. /\ \A q \in Prompt : prompt[q] \in PromptRecord /\ WellFormed(prompt[q])
      /\ command \in CommandRecord \cup {None}
  BY DEF WorkInv, WorkTypes, StateInv
<1>3. \A q \in Prompt : /\ PromptLive(q) => prompt'[q] = Lost(prompt[q])
                        /\ ~PromptLive(q) => prompt'[q] = prompt[q]
  BY <1>1
<1>4. WorkTypes'
  <2>1. \A q \in Prompt : Lost(prompt[q]) \in PromptRecord
    BY <1>2, FailedFacts
  <2>2. prompt' \in [Prompt -> PromptRecord]
    BY <1>1, <1>2, <2>1
  <2>3. QED
    BY <1>1, <1>2, <2>2 DEF WorkTypes
<1>5. StateInv'
  <2>1. \A q \in Prompt : WellFormed(prompt'[q])
    BY <1>2, <1>3, FailedWell
  <2>2. QED
    BY <2>1 DEF StateInv, WellFormed
<1>6. \A q \in Prompt : prompt'[q].state \notin {"queued", "dispatching", "inFlight", "awaiting"}
  BY <1>2, <1>3, FailedFacts DEF PromptLive
<1>7. PlaceInv'
  BY <1>1, <1>6, PlaceEmptied DEF PlaceInv, Queued, Sending, Holds
<1>8. OrderInv'
  <2> SUFFICES ASSUME NEW q \in Prompt, NEW r \in Prompt, q < r PROVE Behind(q, r)'
    BY DEF OrderInv
  <2>1. Behind(q, r)
    BY DEF WorkInv, OrderInv
  <2>2. prompt'[q].state = "new" => prompt[q].state = "new" /\ ~PromptLive(r)
    BY <1>2, <1>3, <2>1, FailedFacts DEF Behind, PromptLive
  <2>3. QED
    BY <1>3, <1>6, <2>1, <2>2 DEF Behind
<1>9. QED
  BY <1>4, <1>5, <1>7, <1>8 DEF WorkInv

(* One prompt changes, and not its place.                                  *)
LEMMA OneWork ==
  ASSUME WorkInv, NEW p \in Prompt, NEW r \in PromptRecord, prompt' = [prompt EXCEPT ![p] = r],
         WellFormed(r), prompt[p].state # "new", r.state # "new",
         \A m \in Node : (Queued(p, m)' <=> Queued(p, m)) /\ (Sending(p, m)' <=> Sending(p, m)),
         r.state \in {"queued", "dispatching"} => Same(p),
         r.home \in {prompt[p].home, Recovery},
         queue' = queue, slot' = slot, creating' = creating, command' \in CommandRecord \cup {None},
         live \subseteq live'
  PROVE  WorkInv'
<1>1. /\ prompt \in [Prompt -> PromptRecord] /\ queue \in [Node -> Seq(Prompt)]
      /\ slot \in [Node -> Prompt \cup {None}] /\ creating \subseteq Draft
      /\ \A q \in Prompt : WellFormed(prompt[q])
  BY DEF WorkInv, WorkTypes, StateInv
<1>2. prompt'[p] = r /\ \A q \in Prompt : q # p => prompt'[q] = prompt[q]
  BY <1>1
<1>3. WorkTypes'
  BY <1>1 DEF WorkTypes
<1>4. StateInv'
  BY <1>1, <1>2 DEF StateInv, WellFormed
<1>5. ASSUME NEW m \in Node PROVE PlaceOf(m)'
  <2>1. PlaceOf(m)
    BY DEF WorkInv, PlaceInv
  <2>2. ASSUME NEW q \in Prompt
        PROVE  (Queued(q, m)' <=> Queued(q, m)) /\ (Sending(q, m)' <=> Sending(q, m))
    <3>1. CASE q = p
      BY <3>1
    <3>2. CASE q # p
      BY <1>2, <3>2 DEF Queued, Sending, Holds
    <3>3. QED
      BY <3>1, <3>2
  <2>3. QED
    BY <2>1, <2>2, PlaceKept
<1>6. OrderInv'
  <2> SUFFICES ASSUME NEW q \in Prompt, NEW s \in Prompt, q < s PROVE Behind(q, s)'
    BY DEF OrderInv
  <2>1. Behind(q, s) /\ Recovery \notin Node /\ q # s
    BY NamesAssumption DEF WorkInv, OrderInv, Prompt, Node
  <2>2. CASE q = p
    BY <1>2, <2>1, <2>2 DEF Behind, Same
  <2>3. CASE s = p
    <3>1. prompt'[q] = prompt[q] /\ prompt'[p] = r /\ prompt[q].state # "new"
      BY <1>2, <2>1, <2>3 DEF Behind
    <3>2. ASSUME prompt[q].state \in {"queued", "dispatching"}, prompt[q].home = r.home
          PROVE  r.state = "queued"
      <4>1. prompt[q].home \in Node
        BY <1>1, <3>2 DEF WellFormed
      <4>2. prompt[p].home = r.home
        BY <2>1, <3>2, <4>1
      <4>3. prompt[p].state = "queued"
        BY <2>1, <2>3, <3>2, <4>2 DEF Behind
      <4>4. Queued(p, prompt[p].home)'
        BY <3>2, <4>1, <4>2, <4>3 DEF Queued
      <4>5. QED
        BY <3>1, <4>4 DEF Queued
    <3>3. QED
      BY <2>3, <3>1, <3>2 DEF Behind
  <2>4. CASE q # p /\ s # p
    BY <1>2, <2>1, <2>4 DEF Behind
  <2>5. QED
    BY <2>2, <2>3, <2>4
<1>7. QED
  BY <1>3, <1>4, <1>5, <1>6 DEF WorkInv, PlaceInv

(* A turn is sent for the prompt in hand.                                  *)
LEMMA TurnWork ==
  ASSUME WorkInv, NEW p \in Prompt, NEW n \in Node, DispatchTurn(n, p),
         Holds(p) \/ prompt[p].recovery \/ prompt[p].state = "gone"
  PROVE  WorkInv'
<1>1. /\ prompt[p] \in PromptRecord /\ WellFormed(prompt[p]) /\ prompt \in [Prompt -> PromptRecord]
  BY DEF WorkInv, WorkTypes, StateInv
<1>2. /\ prompt' = [prompt EXCEPT ![p] =
            IF PromptLive(p) THEN [prompt[p] EXCEPT !.state = "inFlight", !.sent = TRUE]
            ELSE prompt[p]]
      /\ UNCHANGED <<queue, slot, creating, live>> /\ command' = None
  BY <1>1 DEF DispatchTurn, threadVars
<1>3. CASE ~PromptLive(p)
  <2>1. prompt' = prompt
    BY <1>1, <1>2, <1>3
  <2>2. QED
    BY <1>2, <2>1, IdleWork DEF promptVars
<1>4. CASE PromptLive(p)
  <2>1. PICK r \in PromptRecord : r = [prompt[p] EXCEPT !.state = "inFlight", !.sent = TRUE]
    BY <1>1 DEF PromptRecord, States
  <2>2. /\ r.state = "inFlight" /\ r.sent /\ r.home = prompt[p].home
        /\ r.recovery = prompt[p].recovery /\ r.materialized = prompt[p].materialized
    BY <1>1, <2>1 DEF PromptRecord
  <2>3. prompt' = [prompt EXCEPT ![p] = r] /\ prompt'[p] = r
    BY <1>1, <1>2, <1>4, <2>1
  <2>4. prompt[p].state \in {"dispatching", "inFlight"} \/ prompt[p].recovery
    BY <1>4 DEF Holds, PromptLive
  <2>5. prompt[p].state # "queued"
    BY <1>1, <2>4 DEF WellFormed
  <2>6. WellFormed(r)
    BY <1>1, <1>4, <2>2 DEF WellFormed, PromptLive
  <2>7. \A m \in Node : (Queued(p, m)' <=> Queued(p, m)) /\ (Sending(p, m)' <=> Sending(p, m))
    BY <2>2, <2>3, <2>4, <2>5 DEF Queued, Sending, Holds
  <2>8. QED
    BY <1>2, <1>4, <2>2, <2>3, <2>6, <2>7, OneWork DEF PromptLive
<1>5. QED
  BY <1>3, <1>4

(* A prompt is seen as an item.                                            *)
LEMMA MaterializedWork ==
  ASSUME WorkInv, NEW p \in Prompt, PromptMaterialized(p)
  PROVE  /\ WorkInv' /\ queue' = queue /\ slot' = slot
         /\ \E r \in PromptRecord : /\ prompt' = [prompt EXCEPT ![p] = r]
                                   /\ r.sent
                                   /\ \/ /\ r.state = prompt[p].state /\ r.home = prompt[p].home
                                         /\ r.recovery = prompt[p].recovery
                                      \/ r.state = "gone" /\ ~Holds(p)
<1>1. /\ prompt[p] \in PromptRecord /\ WellFormed(prompt[p]) /\ prompt \in [Prompt -> PromptRecord]
      /\ \A m \in Node : PlaceOf(m)
      /\ command \in CommandRecord \cup {None}
  BY DEF WorkInv, WorkTypes, StateInv, PlaceInv
<1>2. PromptLive(p) /\ prompt[p].sent /\ prompt[p].home \notin Draft
      /\ UNCHANGED <<creating, command, live>>
  BY DEF PromptMaterialized, threadVars
<1>3. prompt[p].state \notin {"new", "gone", "queued"}
  BY <1>1, <1>2 DEF PromptLive, WellFormed
<1>4. CASE prompt[p].home \in Node /\ slot[prompt[p].home] = p
  <2>1. prompt' = [prompt EXCEPT ![p].materialized = TRUE] /\ UNCHANGED <<queue, slot>>
    BY <1>4 DEF PromptMaterialized
  <2>2. PICK r \in PromptRecord : r = [prompt[p] EXCEPT !.materialized = TRUE]
    BY <1>1 DEF PromptRecord
  <2>3. /\ r.state = prompt[p].state /\ r.home = prompt[p].home /\ r.recovery = prompt[p].recovery
        /\ r.sent = prompt[p].sent /\ r.creates = prompt[p].creates
    BY <1>1, <2>2 DEF PromptRecord
  <2>4. prompt' = [prompt EXCEPT ![p] = r] /\ prompt'[p] = r
    BY <1>1, <2>1, <2>2
  <2>5. WellFormed(r)
    BY <1>1, <1>2, <1>3, <2>3 DEF WellFormed
  <2>6. Same(p)
    BY <2>3, <2>4 DEF Same
  <2>7. WorkInv'
    BY <1>1, <1>2, <1>3, <2>1, <2>3, <2>4, <2>5, <2>6, SameFacts, OneWork
  <2>8. QED
    BY <1>2, <2>1, <2>3, <2>4, <2>7
<1>5. CASE ~(prompt[p].home \in Node /\ slot[prompt[p].home] = p)
  <2>1. prompt' = [prompt EXCEPT ![p] = Gone] /\ ForgetPrompts({p})
    BY <1>5 DEF PromptMaterialized
  <2>2. ~Holds(p)
    BY <1>1, <1>2, <1>5 DEF WellFormed, PlaceOf, Sending, Holds, PromptLive
  <2>3. queue' = queue /\ slot' = slot
    BY <1>3, <2>1, <2>2, ForgetOne
  <2>4. prompt'[p] = Gone /\ Gone.state = "gone" /\ Gone.home = Recovery /\ Gone \in PromptRecord
        /\ Gone.sent
    BY <1>1, <2>1, NewFacts
  <2>5. \A m \in Node : (Queued(p, m)' <=> Queued(p, m)) /\ (Sending(p, m)' <=> Sending(p, m))
    BY <1>3, <2>2, <2>4 DEF Queued, Sending, Holds
  <2>6. WorkInv'
    BY <1>1, <1>2, <1>3, <2>1, <2>3, <2>4, <2>5, GoneWell, OneWork
  <2>7. QED
    BY <2>1, <2>2, <2>3, <2>4, <2>6
<1>6. QED
  BY <1>4, <1>5

(* A prompt without destination goes to recovery at once.                  *)
LEMMA RefusedWork ==
  ASSUME WorkInv, NEW p \in Prompt, NextNew(p), prompt' = [prompt EXCEPT ![p] = Lost(NewPrompt)],
         UNCHANGED <<queue, slot, creating, live>>, command' = None
  PROVE  WorkInv'
<1>1. /\ prompt \in [Prompt -> PromptRecord] /\ queue \in [Node -> Seq(Prompt)]
      /\ slot \in [Node -> Prompt \cup {None}] /\ creating \subseteq Draft
      /\ \A q \in Prompt : WellFormed(prompt[q])
  BY DEF WorkInv, WorkTypes, StateInv
<1>2. PICK r \in PromptRecord : r = Lost(NewPrompt) /\ r.state = "failed" /\ r.home = Recovery /\ r.recovery
  BY NewFacts, FailedFacts
<1>3. WellFormed(r)
  BY <1>2, GoneWell, NewFacts, FailedWell
<1>4. prompt'[p] = r /\ prompt[p].state = "new" /\ \A q \in Prompt : q # p => prompt'[q] = prompt[q]
  BY <1>1, <1>2, NewOrder, NewFacts
<1>5. WorkTypes'
  BY <1>1, <1>2 DEF WorkTypes
<1>6. StateInv'
  BY <1>1, <1>3, <1>4 DEF StateInv, WellFormed
<1>7. ASSUME NEW m \in Node PROVE PlaceOf(m)'
  <2>1. PlaceOf(m)
    BY DEF WorkInv, PlaceInv
  <2>2. \A q \in Prompt : (Queued(q, m)' <=> Queued(q, m)) /\ (Sending(q, m)' <=> Sending(q, m))
    BY <1>2, <1>4 DEF Queued, Sending, Holds
  <2>3. QED
    BY <2>1, <2>2, PlaceKept
<1>8. OrderInv'
  <2> SUFFICES ASSUME NEW q \in Prompt, NEW s \in Prompt, q < s PROVE Behind(q, s)'
    BY DEF OrderInv
  <2>1. Behind(q, s) /\ Recovery \notin Node /\ q # s
    BY NamesAssumption DEF WorkInv, OrderInv, Prompt, Node
  <2>2. CASE q = p
    BY <1>2, <1>4, <2>2 DEF Behind
  <2>3. CASE s = p
    <3>1. prompt[q].state # "new" /\ prompt'[q] = prompt[q]
      BY <1>4, <2>1, <2>3, NewOrder DEF Prompt
    <3>2. prompt[q].state \in {"queued", "dispatching"} => prompt[q].home \in Node
      BY <1>1 DEF WellFormed
    <3>3. QED
      BY <1>2, <1>4, <2>1, <2>3, <3>1, <3>2 DEF Behind
  <2>4. CASE q # p /\ s # p
    BY <1>4, <2>1, <2>4 DEF Behind
  <2>5. QED
    BY <2>2, <2>3, <2>4
<1>9. QED
  BY <1>5, <1>6, <1>7, <1>8 DEF WorkInv, PlaceInv

(* Everything of a draft moves to the thread that has been created.        *)
LEMMA CreatedWork ==
  ASSUME PipelineTypes, WorkInv, NEW r \in requests, NEW t \in Thread, CreateThread(r, t),
         r.prompt \in Prompt, r.node \in Draft, Holds(r.prompt), prompt[r.prompt].home = r.node
  PROVE  /\ WorkInv'
         /\ slot[r.node] = r.prompt /\ slot[t] = None
         /\ slot'[t] = r.prompt /\ slot'[r.node] = None
         /\ \A m \in Node \ {r.node, t} : slot'[m] = slot[m]
         /\ \A q \in Prompt :
              /\ prompt[q].home # t /\ prompt'[q].state = prompt[q].state
              /\ prompt'[q].recovery = prompt[q].recovery /\ prompt'[q].sent = prompt[q].sent
              /\ prompt'[q].home = IF prompt[q].home = r.node THEN t ELSE prompt[q].home
<1> DEFINE d == r.node
           p == r.prompt
<1>1. /\ prompt' = [q \in Prompt |-> IF q \in {x \in Prompt : prompt[x].home = d}
                                     THEN [prompt[q] EXCEPT !.home = t] ELSE prompt[q]]
      /\ queue' = [queue EXCEPT ![t] = queue[t] \o queue[d], ![d] = <<>>]
      /\ slot' = [slot EXCEPT ![t] = IF slot[d] = None THEN slot[t] ELSE slot[d], ![d] = None]
      /\ creating' = creating \ {d} /\ live' = (live \cup {t}) \ {d}
      /\ command' = Command(p, t, FALSE) /\ \A q \in Prompt : prompt[q].home # t
  <2>1. /\ queue' = [queue EXCEPT ![t] = @ \o queue[d], ![d] = <<>>]
        /\ slot' = [slot EXCEPT ![t] = IF slot[d] = None THEN @ ELSE slot[d], ![d] = None]
    BY DEF CreateThread
  <2>2. QED
    BY <2>1 DEF CreateThread
<1>2. /\ prompt \in [Prompt -> PromptRecord] /\ queue \in [Node -> Seq(Prompt)]
      /\ slot \in [Node -> Prompt \cup {None}] /\ creating \subseteq Draft
      /\ \A q \in Prompt : prompt[q] \in PromptRecord /\ WellFormed(prompt[q])
      /\ \A m \in Node : PlaceOf(m)
      /\ live \subseteq Node
  BY DEF WorkInv, WorkTypes, StateInv, PlaceInv, PipelineTypes, ThreadTypes
<1>3. d \in Node /\ t \in Node /\ t # d /\ t \notin Draft /\ None \notin Prompt /\ p # None
  BY NamesAssumption, MaxPromptsAssumption DEF Node, Prompt
<1>4. slot[d] = p
  BY <1>2, <1>3 DEF PlaceOf, Sending
<1>5. \A q \in Prompt : ~Queued(q, t) /\ ~Sending(q, t)
  BY <1>1 DEF Queued, Sending
<1>6. slot[t] = None /\ queue[t] = <<>>
  <2>1. slot[t] = None
    BY <1>2, <1>3, <1>5 DEF PlaceOf
  <2>2. QED
    BY <1>2, <1>3, <2>1 DEF PlaceOf
<1>7. queue'[t] = queue[d] /\ queue'[d] = <<>> /\ \A m \in Node \ {d, t} : queue'[m] = queue[m]
  <2>1. <<>> \o queue[d] = queue[d]
    BY <1>2, <1>3
  <2>2. QED
    BY <1>1, <1>2, <1>3, <1>6, <2>1
<1>8. slot'[t] = p /\ slot'[d] = None /\ \A m \in Node \ {d, t} : slot'[m] = slot[m]
  BY <1>1, <1>2, <1>3, <1>4
<1>9. ASSUME NEW q \in Prompt
      PROVE  /\ prompt'[q] \in PromptRecord
             /\ prompt'[q].state = prompt[q].state /\ prompt'[q].recovery = prompt[q].recovery
             /\ prompt'[q].sent = prompt[q].sent /\ prompt'[q].creates = prompt[q].creates
             /\ prompt'[q].materialized = prompt[q].materialized
             /\ prompt'[q].home = IF prompt[q].home = d THEN t ELSE prompt[q].home
             /\ prompt[q].home # d => prompt'[q] = prompt[q]
  <2>1. CASE prompt[q].home = d
    <3>1. prompt'[q] = [prompt[q] EXCEPT !.home = t]
      BY <1>1, <2>1
    <3>2. prompt[q] \in PromptRecord
      BY <1>2
    <3>3. QED
      BY <1>3, <2>1, <3>1, <3>2 DEF PromptRecord
  <2>2. CASE prompt[q].home # d
    <3>1. prompt'[q] = prompt[q]
      BY <1>1, <2>2
    <3>2. QED
      BY <1>2, <2>2, <3>1
  <2>3. QED
    BY <2>1, <2>2
<1>10. ASSUME NEW q \in Prompt, NEW m \in Node \ {d, t}
       PROVE  (Queued(q, m)' <=> Queued(q, m)) /\ (Sending(q, m)' <=> Sending(q, m))
  BY <1>1, <1>9 DEF Queued, Sending, Holds
<1>11. ASSUME NEW q \in Prompt
       PROVE  /\ (Queued(q, t)' <=> Queued(q, d)) /\ (Sending(q, t)' <=> Sending(q, d))
              /\ ~Queued(q, d)' /\ ~Sending(q, d)'
  BY <1>1, <1>3, <1>9 DEF Queued, Sending, Holds
<1>12. PlaceInv'
  <2> SUFFICES ASSUME NEW m \in Node PROVE PlaceOf(m)'
    BY DEF PlaceInv
  <2>1. CASE m = d
    BY <1>3, <1>7, <1>8, <1>11, <2>1, PlaceEmptied
  <2>2. CASE m = t
    <3>1. PlaceOf(d)
      BY <1>2, <1>3
    <3>2. t \in live'
      BY <1>1, <1>3
    <3>3. QED
      BY <1>3, <1>4, <1>7, <1>8, <1>11, <2>2, <3>1, <3>2 DEF PlaceOf
  <2>3. CASE m \notin {d, t}
    <3>1. queue'[m] = queue[m] /\ slot'[m] = slot[m] /\ (m \in live => m \in live')
      BY <1>1, <1>7, <1>8, <2>3
    <3>2. QED
      BY <1>2, <1>10, <2>3, <3>1, PlaceKept
  <2>4. QED
    BY <2>1, <2>2, <2>3
<1>13. OrderInv'
  <2> SUFFICES ASSUME NEW q \in Prompt, NEW s \in Prompt, q < s PROVE Behind(q, s)'
    BY DEF OrderInv
  <2>1. Behind(q, s)
    BY DEF WorkInv, OrderInv
  <2>2. prompt'[q].home = prompt'[s].home => prompt[q].home = prompt[s].home
    BY <1>1, <1>9
  <2>3. QED
    BY <1>9, <2>1, <2>2 DEF Behind
<1>14. StateInv'
  <2> SUFFICES ASSUME NEW q \in Prompt PROVE WellFormed(prompt'[q])
    BY DEF StateInv, WellFormed
  <2>1. CASE prompt[q].home # d
    BY <1>2, <1>9, <2>1
  <2>2. CASE prompt[q].home = d
    <3>1. prompt[q].state \notin {"new", "gone"}
      BY <1>2, <1>3, <2>2, NewFacts, NamesAssumption DEF WellFormed, Node
    <3>2. QED
      BY <1>2, <1>3, <1>9, <2>2, <3>1 DEF WellFormed
  <2>3. QED
    BY <2>1, <2>2
<1>15. WorkTypes'
  <2>1. prompt' = [q \in Prompt |-> prompt'[q]]
    BY <1>1
  <2>2. prompt' \in [Prompt -> PromptRecord]
    BY <1>9, <2>1
  <2>3. queue' \in [Node -> Seq(Prompt)]
    <3>1. <<>> \in Seq(Prompt)
      OBVIOUS
    <3>2. \A m \in Node : queue'[m] \in Seq(Prompt)
      BY <1>2, <1>3, <1>7, <3>1
    <3>3. queue' = [m \in Node |-> queue'[m]]
      BY <1>1, <1>2
    <3>4. QED
      BY <3>2, <3>3
  <2>4. slot' \in [Node -> Prompt \cup {None}]
    BY <1>1, <1>2, <1>3, <1>4
  <2>5. command' \in CommandRecord
    BY <1>1, <1>3, CommandFacts
  <2>6. QED
    BY <1>1, <1>2, <2>2, <2>3, <2>4, <2>5 DEF WorkTypes
<1>16. QED
  BY <1>1, <1>4, <1>6, <1>8, <1>9, <1>12, <1>13, <1>14, <1>15 DEF WorkInv

----------------------------------------------------------------------------
(* What carries a prompt after a step *)

(* No carrier of q is new.                                                 *)
Fewer(q) ==
  /\ Commanded(q)' => Commanded(q) /\ command' = command
  /\ \A t \in Thread : parked'[t] = q => parked[t] = q
  /\ \A r \in requests' : Asks(r, q) => r \in requests
(* None is lost.                                                           *)
More(q) ==
  /\ Commanded(q) => command' = command
  /\ \A t \in Thread : parked[t] = q => parked'[t] = q
  /\ \A r \in requests : Asks(r, q) => r \in requests'
(* q has none.                                                             *)
Free(q) ==
  /\ ~Commanded(q)' /\ \A t \in Thread : parked'[t] # q
  /\ \A r \in requests' : ~Asks(r, q)
Steady(q) ==
  /\ Holds(q)' <=> Holds(q)
  /\ Holds(q) => prompt'[q].home = prompt[q].home
  /\ Done(q) => Done(q)'
  /\ prompt'[q].sent => prompt[q].sent

(* A prompt that keeps its carrier, and one that gets no new one.          *)
LEMMA CarryKept ==
  ASSUME NEW q \in Prompt, CarryOf(q), Fewer(q), Steady(q), Holds(q) => More(q)
  PROVE  CarryOf(q)'
<1>1. Commanded(q)' => Commanded(q) /\ command'.node = command.node
  BY DEF Fewer
<1>2. Carried(q)' => Carried(q)
  BY DEF Fewer, Carried
<1>3. Holds(q) => Carried(q)'
  <2> SUFFICES ASSUME Holds(q) PROVE Carried(q)'
    OBVIOUS
  <2>1. CASE Commanded(q)
    BY <2>1 DEF More, Carried, Commanded
  <2>2. CASE \E t \in Thread : parked[t] = q
    BY <2>2 DEF More, Carried
  <2>3. CASE \E r \in requests : Asks(r, q)
    BY <2>3 DEF More, Carried
  <2>4. QED
    BY <2>1, <2>2, <2>3 DEF CarryOf, Carried
<1>4. QED
  BY <1>1, <1>2, <1>3 DEF Fewer, Steady, CarryOf

(* A prompt that gives its slot up and is done if something still carries  *)
(* it.                                                                     *)
LEMMA CarryLost ==
  ASSUME NEW q \in Prompt, CarryOf(q), Fewer(q), ~Holds(q)', Carried(q) => Done(q)',
         prompt'[q].sent => prompt[q].sent
  PROVE  CarryOf(q)'
<1>1. Carried(q)' => Carried(q)
  BY DEF Fewer, Carried
<1>2. QED
  BY <1>1 DEF Fewer, CarryOf

(* A prompt that nothing carries and that holds nothing.                   *)
LEMMA CarryNone ==
  ASSUME NEW q \in Prompt, Free(q), ~Holds(q)'
  PROVE  CarryOf(q)'
  BY DEF Free, CarryOf, Carried

(* A prompt that only the command in hand carries.                         *)
LEMMA CarryCommanded ==
  ASSUME NEW q \in Prompt, Commanded(q)', \A t \in Thread : parked'[t] # q,
         \A r \in requests' : ~Asks(r, q),
         Holds(q)' \/ Done(q)', Holds(q)' => command'.node = prompt'[q].home, ~prompt'[q].sent
  PROVE  CarryOf(q)'
  BY DEF CarryOf, Carried

(* A prompt that is only parked.                                           *)
LEMMA CarryParked ==
  ASSUME NEW q \in Prompt, NEW t \in Thread, parked'[t] = q, ~Commanded(q)',
         \A u \in Thread : parked'[u] = q => u = t, \A r \in requests' : ~Asks(r, q),
         Holds(q)' \/ Done(q)', Holds(q)' => t = prompt'[q].home, ~prompt'[q].sent
  PROVE  CarryOf(q)'
  BY DEF CarryOf, Carried

(* A prompt that only a request carries.                                   *)
LEMMA CarryAsked ==
  ASSUME NEW q \in Prompt, NEW r \in requests', Asks(r, q), ~Commanded(q)',
         \A t \in Thread : parked'[t] # q, \A s \in requests' : Asks(s, q) => s = r,
         Holds(q)' \/ Done(q)', Holds(q)' => r.node = prompt'[q].home,
         prompt'[q].sent => r.kind = "turn"
  PROVE  CarryOf(q)'
  BY DEF CarryOf, Carried

----------------------------------------------------------------------------
(* Completion *)

(* The slot of n is held by the prompt that is being sent to n.            *)
LEMMA HolderFacts ==
  ASSUME WorkInv, NEW p \in Prompt, NEW n \in Node
  PROVE  /\ slot[n] = p <=> Holds(p) /\ prompt[p].home = n
         /\ Holds(p) => prompt[p].home \in Node
         /\ slot[n] # None => slot[n] \in Prompt
         /\ prompt[p].state \in {"queued", "new"} => ~Holds(p) /\ ~Done(p)
         /\ Done(p) => ~Holds(p)
<1>1. WellFormed(prompt[p]) /\ PlaceOf(n) /\ slot[n] \in Prompt \cup {None}
  BY DEF WorkInv, StateInv, PlaceInv, WorkTypes
<1>2. ~NewPrompt.recovery
  BY DEF NewPrompt
<1>3. QED
  BY <1>1, <1>2 DEF WellFormed, PlaceOf, Sending, Holds, Done

(* What completePrompt does to the prompt q: it stays as it is, it fails   *)
(* with its draft, or it is the next one in hand.                          *)
Stays(q) == prompt'[q] = prompt[q] /\ ~Commanded(q)'
Fails(q) == /\ prompt[q].state = "queued" /\ prompt'[q] = Failed(prompt[q])
            /\ ~Commanded(q)'
Follows(q) == /\ prompt[q].state = "queued" /\ Commanded(q)' /\ Holds(q)'
              /\ command'.node = prompt'[q].home /\ ~command'.creates
              /\ ~prompt'[q].sent
Effect(p) ==
  /\ ~Holds(p)' /\ ~Commanded(p)'
  /\ \A q \in Prompt \ {p} : Stays(q) \/ Fails(q) \/ Follows(q)
  /\ command' # None => \E q \in Prompt \ {p} : command'.prompt = q /\ Follows(q)
  /\ \A m \in Node : slot[m] # p => slot'[m] = slot[m]
  /\ \A d \in creating' : d \in creating /\ slot[d] # p

(* The three outcomes, one prompt at a time.                               *)
LEMMA OutcomeEffect ==
  ASSUME WorkInv, NEW p \in Prompt, NEW n \in Node, n = prompt[p].home, Holds(p),
         NEW s \in PromptRecord, Outcome(p, n, s)
  PROVE  Effect(p)
<1>1. slot[n] = p /\ slot \in [Node -> Prompt \cup {None}] /\ None \notin Prompt
      /\ creating \subseteq Draft /\ prompt \in [Prompt -> PromptRecord]
      /\ Thread \cap Draft = {}
  <2>1. slot[n] = p
    BY HolderFacts
  <2>2. None \notin Prompt /\ Thread \cap Draft = {}
    BY NamesAssumption, MaxPromptsAssumption DEF Prompt
  <2>3. QED
    BY <2>1, <2>2 DEF WorkInv, WorkTypes
<1>2. \A m \in Node : slot[m] = p => m = n
  BY HolderFacts
<1>3. ~Holds(p)'
  BY OutcomePrompts DEF Over, Holds
<1>4. CASE Orphaned(p, n, s)
  <2>1. command' = None /\ slot' = [slot EXCEPT ![n] = None] /\ creating' = creating \ {n}
    BY <1>4 DEF Orphaned
  <2>2. \A q \in Prompt : ~Commanded(q)'
    BY <2>1 DEF Commanded
  <2>3. \A q \in Prompt \ {p} : Stays(q) \/ Fails(q)
    BY <1>4, <2>2, OrphanedOthers DEF Stays, Fails, Queued
  <2>4. \A d \in creating' : d \in creating /\ slot[d] # p
    BY <1>1, <1>2, <2>1 DEF Node
  <2>5. \A m \in Node : slot[m] # p => slot'[m] = slot[m]
    BY <1>1, <2>1
  <2>6. QED
    BY <1>3, <2>1, <2>2, <2>3, <2>4, <2>5 DEF Effect
<1>5. CASE Ended(p, n, s)
  <2>1. command' = None /\ slot' = [slot EXCEPT ![n] = None] /\ creating' = creating /\ n \in Thread
    BY <1>5 DEF Ended
  <2>2. \A q \in Prompt : ~Commanded(q)'
    BY <2>1 DEF Commanded
  <2>3. \A q \in Prompt \ {p} : Stays(q)
    BY <1>5, <2>2, EndedOthers DEF Stays
  <2>4. \A d \in creating' : d \in creating /\ slot[d] # p
    BY <1>1, <1>2, <2>1 DEF Node
  <2>5. \A m \in Node : slot[m] # p => slot'[m] = slot[m]
    BY <1>1, <2>1
  <2>6. QED
    BY <1>3, <2>1, <2>2, <2>3, <2>4, <2>5 DEF Effect
<1>6. ASSUME NEW next \in Prompt, Advanced(p, n, s, next) PROVE Effect(p)
  <2>1. /\ command' = Command(next, n, FALSE) /\ slot' = [slot EXCEPT ![n] = next]
        /\ creating' = creating /\ n \in Thread
    BY <1>6 DEF Advanced
  <2>2. /\ next # p /\ Queued(next, n)
        /\ prompt'[next] = [prompt[next] EXCEPT !.state = "dispatching"]
    BY <1>6, AdvancedNext
  <2>3. /\ command' # None /\ command'.prompt = next /\ command'.node = n /\ ~command'.creates
        /\ \A q \in Prompt : Commanded(q)' <=> q = next
    BY <2>1, CommandFacts DEF Commanded
  <2>4. Follows(next)
    <3>1. prompt[next] \in PromptRecord /\ WellFormed(prompt[next])
      BY <1>1 DEF WorkInv, StateInv
    <3>2. prompt[next].state = "queued" /\ prompt[next].home = n
      BY <2>2 DEF Queued
    <3>3. ~prompt[next].recovery /\ ~prompt[next].sent
      BY <3>1, <3>2 DEF WellFormed
    <3>4. /\ prompt'[next].state = "dispatching" /\ ~prompt'[next].recovery
          /\ prompt'[next].home = n /\ ~prompt'[next].sent
      BY <2>2, <3>1, <3>2, <3>3 DEF PromptRecord
    <3>5. QED
      BY <2>3, <3>2, <3>4 DEF Follows, Holds
  <2>5. \A q \in Prompt \ {p, next} : Stays(q)
    BY <1>6, <2>3, AdvancedOthers DEF Stays
  <2>6. \A d \in creating' : d \in creating /\ slot[d] # p
    BY <1>1, <1>2, <2>1 DEF Node
  <2>7. \A m \in Node : slot[m] # p => slot'[m] = slot[m]
    BY <1>1, <2>1
  <2>8. QED
    BY <1>3, <2>2, <2>3, <2>4, <2>5, <2>6, <2>7 DEF Effect
<1>7. QED
  BY <1>4, <1>5, <1>6 DEF Outcome

(* Where nothing is completed, nothing happens.                            *)
Untouched(p) == ~Holds(p) /\ command' = None /\ UNCHANGED promptVars

(* completePrompt lets go of what holds a slot, or changes nothing.        *)
LEMMA CompleteEffect ==
  ASSUME WorkInv, NEW p \in Prompt, NEW accepted \in BOOLEAN, Complete(p, accepted),
         Holds(p) \/ Done(p), Holds(p) /\ accepted => prompt[p].home \in Thread
  PROVE  (Holds(p) /\ Effect(p)) \/ Untouched(p)
<1>1. CASE Holds(p) /\ prompt[p].home \in Node /\ \E s \in PromptRecord : Outcome(p, prompt[p].home, s)
  BY <1>1, OutcomeEffect
<1>2. CASE ~Holds(p) /\ command' = None /\ UNCHANGED promptVars
  BY <1>2 DEF Untouched
<1>3. QED
  BY <1>1, <1>2, CompleteFacts DEF Done

(* A completion takes nothing from the other prompts, and the prompt is no *)
(* longer on its way.                                                      *)
Freeing(p) ==
  /\ command # None => command.prompt = p
  /\ \A t \in Thread : parked'[t] = parked[t] \/ (parked[t] = p /\ parked'[t] = None)
  /\ requests' \subseteq requests
  /\ \A r \in requests : r.prompt \in Prompt \ {p} => r \in requests'
  /\ Holds(p) => /\ \A t \in Thread : parked'[t] # p
                 /\ \A r \in requests' : ~Asks(r, p)

(* completePrompt keeps one carrier for each prompt that holds a slot.     *)
LEMMA CompleteCarry ==
  ASSUME WorkInv, CarryInv, NEW p \in Prompt, Freeing(p), (Holds(p) /\ Effect(p)) \/ Untouched(p)
  PROVE  CarryInv'
<1>0. None \notin Prompt
  BY NamesAssumption, MaxPromptsAssumption DEF Prompt
<1>1. ASSUME NEW q \in Prompt PROVE CarryOf(q)'
  <2>1. CarryOf(q)
    BY DEF CarryInv
  <2>2. \A t \in Thread : parked'[t] = q => parked[t] = q
    BY <1>0 DEF Freeing
  <2>3. \A r \in requests' : Asks(r, q) => r \in requests
    BY DEF Freeing
  <2>4. q # p => \A t \in Thread : parked[t] = q => parked'[t] = q
    BY DEF Freeing
  <2>5. q # p => \A r \in requests : Asks(r, q) => r \in requests'
    BY DEF Freeing, Asks
  <2>6. q # p => ~Commanded(q)
    BY DEF Freeing, Commanded
  <2>7. CASE Untouched(p)
    <3>1. ~Commanded(q)' /\ prompt' = prompt
      BY <2>7 DEF Untouched, Commanded, promptVars
    <3>2. Fewer(q)
      BY <2>2, <2>3, <3>1 DEF Fewer
    <3>3. Steady(q)
      BY <3>1 DEF Steady, Holds, Done
    <3>4. Holds(q) => q # p
      BY <2>7 DEF Untouched
    <3>5. Holds(q) => More(q)
      BY <2>4, <2>5, <2>6, <3>4 DEF More
    <3>6. QED
      BY <2>1, <3>2, <3>3, <3>5, CarryKept
  <2>8. CASE Holds(p) /\ Effect(p) /\ q = p
    <3>1. Free(q)
      BY <2>8 DEF Effect, Freeing, Free
    <3>2. QED
      BY <2>8, <3>1, CarryNone DEF Effect
  <2>9. CASE Holds(p) /\ Effect(p) /\ q # p
    <3>1. CASE Stays(q)
      <4>1. Fewer(q)
        BY <2>2, <2>3, <3>1 DEF Fewer, Stays
      <4>2. Steady(q)
        BY <3>1 DEF Steady, Holds, Done, Stays
      <4>3. More(q)
        BY <2>4, <2>5, <2>6, <2>9 DEF More
      <4>4. QED
        BY <2>1, <4>1, <4>2, <4>3, CarryKept
    <3>2. CASE Fails(q)
      <4>1. Fewer(q)
        BY <2>2, <2>3, <3>2 DEF Fewer, Fails
      <4>2. prompt[q] \in PromptRecord
        BY DEF WorkInv, WorkTypes
      <4>3. ~Holds(q)' /\ Done(q)' /\ (prompt'[q].sent => prompt[q].sent)
        BY <3>2, <4>2, FailedFacts DEF Fails, Holds, Done
      <4>4. QED
        BY <2>1, <4>1, <4>3, CarryLost
    <3>3. CASE Follows(q)
      <4>1. ~Holds(q) /\ ~Done(q)
        <5>1. WellFormed(prompt[q])
          BY DEF WorkInv, StateInv
        <5>2. QED
          BY <3>3, <5>1 DEF Follows, WellFormed, Holds, Done
      <4>2. ~Carried(q)
        BY <2>1, <4>1 DEF CarryOf
      <4>3. /\ \A t \in Thread : parked'[t] # q
            /\ \A r \in requests' : ~Asks(r, q)
        BY <2>2, <2>3, <4>2 DEF Carried
      <4>4. QED
        BY <3>3, <4>3, CarryCommanded DEF Follows
    <3>4. QED
      BY <2>9, <3>1, <3>2, <3>3 DEF Effect
  <2>10. QED
    BY <2>7, <2>8, <2>9
<1>2. QED
  BY <1>1 DEF CarryInv

(* A read whose operation node is gone, and the state of its thread.       *)
Late(r) == ~r.current /\ r.kind \in HistoryKinds
Renewed(t) ==
  \/ t \in live /\ hydration[t] = "loading"
  \/ t \notin live /\ (t \in retired \/ ~connected)

(* What an unanswered request is about stays so.                           *)
LEMMA AskKept ==
  ASSUME NEW r, RequestOf(r),
         r.prompt # None /\ Done(r.prompt) => Done(r.prompt)',
         r.kind = "thread start" /\ r.current => Holds(r.prompt)',
         r.kind = "resume prompt" => r.node \notin hydrating',
         Late(r) => slot'[r.node] = None /\ Renewed(r.node)'
  PROVE  RequestOf(r)'
  BY DEF RequestOf, Late, Renewed

(* Where an outdated read stands.                                          *)
LEMMA LateFacts ==
  ASSUME NEW r, RequestOf(r), Late(r)
  PROVE  slot[r.node] = None /\ Renewed(r.node) /\ r.node \in Thread
  BY DEF RequestOf, Late, Renewed

(* Requests after completePrompt.                                          *)
LEMMA CompleteAsks ==
  ASSUME WorkInv, AskInv, RequestTypes, NEW p \in Prompt, Freeing(p),
         (Holds(p) /\ Effect(p)) \/ Untouched(p),
         UNCHANGED <<live, retired, connected>>, hydrating' \subseteq hydrating,
         \A r \in requests' : Late(r) => hydration'[r.node] = hydration[r.node]
  PROVE  AskInv'
<1>1. ASSUME NEW r \in requests' PROVE RequestOf(r)'
  <2>1. r \in requests /\ RequestOf(r)
    BY DEF Freeing, AskInv
  <2>2. r.prompt \in Prompt \cup {None} /\ r.node \in Node
    BY <2>1 DEF RequestTypes, RequestRecord
  <2>3. ASSUME NEW q \in Prompt, Done(q) PROVE Done(q)'
    <3>1. CASE Untouched(p)
      BY <2>3, <3>1 DEF Untouched, Done, promptVars
    <3>2. CASE Holds(p) /\ Effect(p)
      <4>1. q # p /\ prompt[q].state # "queued"
        BY <2>3, <3>2, HolderFacts DEF Done, Holds, WorkInv, StateInv, WellFormed
      <4>2. prompt'[q] = prompt[q]
        BY <3>2, <4>1 DEF Effect, Stays, Fails, Follows
      <4>3. QED
        BY <2>3, <4>2 DEF Done
    <3>3. QED
      BY <3>1, <3>2
  <2>4. ASSUME r.kind = "thread start", r.current PROVE Holds(r.prompt)'
    <3>1. Holds(r.prompt) /\ r.prompt \in Prompt
      BY <2>1, <2>2, <2>4 DEF RequestOf, PromptKinds
    <3>2. CASE Untouched(p)
      BY <3>1, <3>2 DEF Untouched, Holds, promptVars
    <3>3. CASE Holds(p) /\ Effect(p)
      <4>1. r.prompt # p
        BY <2>4, <3>3 DEF Freeing, Asks
      <4>2. prompt[r.prompt].state # "queued"
        BY <3>1 DEF Holds
      <4>3. prompt'[r.prompt] = prompt[r.prompt]
        BY <3>1, <3>3, <4>1, <4>2 DEF Effect, Stays, Fails, Follows
      <4>4. QED
        BY <3>1, <4>3 DEF Holds
    <3>4. QED
      BY <3>2, <3>3
  <2>5. ASSUME Late(r) PROVE slot'[r.node] = None /\ Renewed(r.node)'
    <3>1. slot[r.node] = None /\ Renewed(r.node)
      BY <2>1, <2>5, LateFacts
    <3>2. slot'[r.node] = slot[r.node]
      <4>1. None # p
        BY NamesAssumption, MaxPromptsAssumption DEF Prompt
      <4>2. QED
        BY <2>2, <3>1, <4>1 DEF Untouched, promptVars, Effect
    <3>3. Renewed(r.node)'
      BY <2>5, <3>1 DEF Renewed
    <3>4. QED
      BY <3>1, <3>2, <3>3
  <2>6. r.kind = "resume prompt" => r.node \notin hydrating'
    BY <2>1 DEF RequestOf
  <2>7. r.prompt # None /\ Done(r.prompt) => Done(r.prompt)'
    BY <2>2, <2>3
  <2>8. QED
    BY <2>1, <2>4, <2>5, <2>6, <2>7, AskKept
<1>2. QED
  BY <1>1 DEF AskInv

(* Drafts that are being created after completePrompt.                     *)
LEMMA CompleteCreating ==
  ASSUME WorkInv, CreatingInv, NEW p \in Prompt, Freeing(p),
         (Holds(p) /\ Effect(p)) \/ Untouched(p), live' = live
  PROVE  CreatingInv'
<1>1. ASSUME NEW d \in creating' PROVE CreatingOf(d)'
  <2>1. d \in creating /\ d \in Node /\ slot[d] # p /\ slot'[d] = slot[d]
    <3>1. creating \subseteq Node
      BY DEF WorkInv, WorkTypes, Node
    <3>2. CASE Untouched(p)
      BY <3>1, <3>2, HolderFacts DEF Untouched, promptVars
    <3>3. CASE Holds(p) /\ Effect(p)
      BY <3>1, <3>3 DEF Effect
    <3>4. QED
      BY <3>2, <3>3
  <2>2. CreatingOf(d)
    BY <2>1 DEF CreatingInv
  <2>3. slot[d] \in Prompt \ {p}
    BY <2>1, <2>2, HolderFacts DEF CreatingOf
  <2>4. CASE command # None /\ command.prompt = slot[d]
    BY <2>1, <2>4 DEF Freeing
  <2>5. CASE \E r \in requests : r.kind = "thread start" /\ r.node = d /\ r.prompt = slot[d]
    <3>1. PICK r \in requests : r.kind = "thread start" /\ r.node = d /\ r.prompt = slot[d]
      BY <2>5
    <3>2. r \in requests'
      BY <2>3, <3>1 DEF Freeing
    <3>3. QED
      BY <2>1, <2>2, <3>1, <3>2 DEF CreatingOf
  <2>6. QED
    BY <2>2, <2>4, <2>5 DEF CreatingOf
<1>2. QED
  BY <1>1 DEF CreatingInv

(* A completed prompt leaves a state in which everything is carried.       *)
WayInv == WorkInv /\ CarryInv /\ AskInv /\ CommandInv /\ CreatingInv /\ LinkInv

(* The invariant of the way after completePrompt.                          *)
LEMMA CompleteKept ==
  ASSUME PipelineInv, NEW p \in Prompt, NEW accepted \in BOOLEAN, Complete(p, accepted),
         Holds(p) \/ Done(p), Holds(p) /\ accepted => prompt[p].home \in Thread, Freeing(p),
         UNCHANGED <<live, retired, linkVars>>, hydrating' \subseteq hydrating,
         \A r \in requests' : Late(r) => hydration'[r.node] = hydration[r.node]
  PROVE  WayInv'
<1>1. WorkInv /\ CarryInv /\ AskInv /\ CreatingInv /\ LinkInv /\ RequestTypes
  BY DEF PipelineInv, PipelineTypes
<1>2. (Holds(p) /\ Effect(p)) \/ Untouched(p)
  BY <1>1, CompleteEffect
<1>3. WorkInv'
  BY <1>1, CompleteWork DEF Done
<1>4. CarryInv'
  BY <1>1, <1>2, CompleteCarry
<1>5. AskInv'
  BY <1>1, <1>2, CompleteAsks DEF linkVars
<1>6. CreatingInv'
  BY <1>1, <1>2, CompleteCreating
<1>7. CommandInv'
  <2>1. CASE Untouched(p)
    BY <2>1 DEF Untouched, CommandInv
  <2>2. CASE Holds(p) /\ Effect(p)
    BY <2>2 DEF Effect, Follows, CommandInv
  <2>3. QED
    BY <1>2, <2>1, <2>2
<1>8. LinkInv'
  BY <1>1 DEF LinkInv, linkVars, Freeing
<1>9. QED
  BY <1>3, <1>4, <1>5, <1>6, <1>7, <1>8 DEF WayInv

----------------------------------------------------------------------------
(* Reads *)

OtherTypes == ThreadTypes /\ HydrationTypes /\ RequestTypes /\ LinkTypes

(* The invariant in two halves: the way of prompts, and the types of the   *)
(* rest.                                                                   *)
LEMMA InvParts == PipelineInv <=> WayInv /\ OtherTypes
  BY DEF PipelineInv, WayInv, PipelineTypes, OtherTypes, WorkInv

(* The two halves after a step.                                            *)
LEMMA InvNext == ASSUME WayInv', OtherTypes' PROVE PipelineInv'
  BY DEF PipelineInv, WayInv, PipelineTypes, OtherTypes, WorkInv

(* A step of the reads: the requests about prompts stay, a new request is  *)
(* a read, no thread whose history is being loaded is being resumed for a  *)
(* prompt, and a thread whose read is outdated is still loaded anew.       *)
Reading ==
  /\ \A r \in requests : r.prompt \in Prompt => r \in requests'
  /\ \A r \in requests' \ requests :
       /\ r \in RequestRecord /\ r.prompt = None /\ r.current /\ r.node \in Thread
       /\ r.kind \in HistoryKinds \ {"resume prompt"}
  /\ \A r \in requests' : r.kind = "resume prompt" => r.node \notin hydrating'
  /\ \A r \in requests' : Late(r) => Renewed(r.node)'
  /\ live \subseteq live'
  /\ connected' = connected /\ (ready' => connected)
  /\ connected \/ (live' = live /\ requests' \subseteq requests)

(* Requests after a step of the reads.                                     *)
LEMMA ReadingAsks ==
  ASSUME PipelineInv, Reading, UNCHANGED promptVars
  PROVE  AskInv' /\ RequestTypes' /\ LinkInv'
<1>1. RequestTypes'
  BY DEF PipelineInv, PipelineTypes, RequestTypes, Reading
<1>2. LinkInv'
  BY DEF PipelineInv, LinkInv, Reading
<1>3. ASSUME NEW r \in requests' PROVE RequestOf(r)'
  <2>1. CASE r \in requests
    <3>1. RequestOf(r)
      BY <2>1 DEF PipelineInv, AskInv
    <3>2. r.prompt # None /\ Done(r.prompt) => Done(r.prompt)'
      BY DEF Done, promptVars
    <3>3. r.kind = "thread start" /\ r.current => Holds(r.prompt)'
      BY <3>1 DEF RequestOf, Holds, promptVars
    <3>4. Late(r) => slot'[r.node] = None /\ Renewed(r.node)'
      BY <3>1, LateFacts DEF Reading, promptVars
    <3>5. QED
      BY <3>1, <3>2, <3>3, <3>4, AskKept DEF Reading
  <2>2. CASE r \notin requests
    <3>1. /\ r.prompt = None /\ r.current /\ r.node \in Thread
          /\ r.kind \in HistoryKinds \ {"resume prompt"}
      BY <2>2 DEF Reading
    <3>2. QED
      BY <3>1 DEF RequestOf, PromptKinds, HistoryKinds
  <2>3. QED
    BY <2>1, <2>2
<1>4. QED
  BY <1>1, <1>2, <1>3 DEF AskInv

(* Drafts that are being created after a step of the reads.                *)
LEMMA ReadingCreating ==
  ASSUME PipelineInv, Idle, Reading, UNCHANGED promptVars
  PROVE  CreatingInv'
<1>1. ASSUME NEW d \in creating' PROVE CreatingOf(d)'
  <2>1. d \in creating /\ d \in Node /\ slot'[d] = slot[d] /\ d \in live /\ d \in live'
    BY DEF PipelineInv, PipelineTypes, WorkTypes, Node, CreatingInv, CreatingOf, promptVars, Reading
  <2>2. slot[d] # None /\ slot[d] \in Prompt
    BY <2>1 DEF PipelineInv, PipelineTypes, WorkTypes, CreatingInv, CreatingOf
  <2>3. PICK r \in requests : r.kind = "thread start" /\ r.node = d /\ r.prompt = slot[d]
    BY <2>1 DEF PipelineInv, CreatingInv, CreatingOf, Idle
  <2>4. r \in requests'
    BY <2>2, <2>3 DEF Reading
  <2>5. QED
    BY <2>1, <2>2, <2>3, <2>4 DEF CreatingOf
<1>2. QED
  BY <1>1 DEF CreatingInv

(* A step that does not touch what carries prompts, except that it may     *)
(* drop a parked prompt of a thread whose slot is free.                    *)
LEMMA QuietKept ==
  ASSUME PipelineInv, Idle, Reading, UNCHANGED <<promptVars, command>>,
         \A u \in Thread : parked'[u] = parked[u] \/ (parked'[u] = None /\ slot[u] = None)
  PROVE  WayInv' /\ RequestTypes'
<1>1. AskInv' /\ RequestTypes' /\ LinkInv' /\ CreatingInv'
  BY ReadingAsks, ReadingCreating
<1>2. WorkInv'
  BY IdleWork DEF PipelineInv, WorkInv, WorkTypes, Reading
<1>3. CommandInv'
  BY DEF CommandInv, Idle
<1>4. ASSUME NEW q \in Prompt PROVE CarryOf(q)'
  <2>1. CarryOf(q) /\ None \notin Prompt
    BY NamesAssumption, MaxPromptsAssumption DEF PipelineInv, CarryInv, Prompt
  <2>2. Steady(q)
    BY DEF Steady, Holds, Done, promptVars
  <2>3. Fewer(q)
    BY <2>1 DEF Fewer, Commanded, Reading, Asks
  <2>4. ASSUME Holds(q) PROVE More(q)
    <3>1. ASSUME NEW u \in Thread, parked[u] = q PROVE parked'[u] = q
      <4>1. u = prompt[q].home /\ u \in Node
        BY <2>1, <2>4, <3>1 DEF CarryOf, Node
      <4>2. slot[u] = q
        BY <2>4, <4>1, HolderFacts DEF PipelineInv
      <4>3. QED
        BY <2>1, <3>1, <4>2
    <3>2. QED
      BY <3>1 DEF More, Reading, Asks
  <2>5. QED
    BY <2>1, <2>2, <2>3, <2>4, CarryKept
<1>5. QED
  BY <1>1, <1>2, <1>3, <1>4 DEF WayInv, CarryInv

(* The parked prompt of a thread is in hand again.                         *)
LEMMA ContinueKept ==
  ASSUME PipelineInv, Idle, Reading, NEW t \in Thread, NEW explicitly \in BOOLEAN,
         Continue(t, explicitly)
  PROVE  WayInv' /\ RequestTypes'
<1>1. UNCHANGED promptVars /\ parked \in [Thread -> Prompt \cup {None}]
      /\ parked' = [parked EXCEPT ![t] = None] /\ None \notin Prompt
      /\ command' = IF parked[t] = None THEN None ELSE Command(parked[t], t, FALSE)
  BY NamesAssumption, MaxPromptsAssumption
  DEF Continue, PipelineInv, PipelineTypes, HydrationTypes, Prompt
<1>2. AskInv' /\ RequestTypes' /\ LinkInv' /\ CreatingInv'
  BY <1>1, ReadingAsks, ReadingCreating
<1>3. parked[t] # None =>
        /\ command' \in CommandRecord /\ command' # None /\ command'.prompt = parked[t]
        /\ command'.node = t /\ ~command'.creates
  <2> SUFFICES ASSUME parked[t] # None
      PROVE  /\ command' \in CommandRecord /\ command' # None /\ command'.prompt = parked[t]
             /\ command'.node = t /\ ~command'.creates
    OBVIOUS
  <2>1. parked[t] \in Prompt /\ t \in Node /\ FALSE \in BOOLEAN
    BY <1>1 DEF Node
  <2>2. command' = Command(parked[t], t, FALSE)
    BY <1>1
  <2>3. QED
    BY <2>1, <2>2, CommandFacts
<1>4. WorkInv'
  BY <1>1, <1>3, IdleWork DEF PipelineInv, Reading
<1>5. CommandInv'
  BY <1>1, <1>3 DEF CommandInv
<1>6. ASSUME NEW q \in Prompt PROVE CarryOf(q)'
  <2>1. CarryOf(q)
    BY DEF PipelineInv, CarryInv
  <2>2. Steady(q)
    BY <1>1 DEF Steady, Holds, Done, promptVars
  <2>3. CASE parked[t] = q
    <3>1. Commanded(q)' /\ command'.node = t
      BY <1>1, <1>3, <2>3 DEF Commanded
    <3>2. \A u \in Thread : parked'[u] # q
      BY <1>1, <2>1, <2>3 DEF CarryOf
    <3>3. \A r \in requests' : ~Asks(r, q)
      BY <1>1, <2>1, <2>3 DEF CarryOf, Reading, Asks
    <3>4. Carried(q) /\ ~prompt[q].sent
      BY <2>1, <2>3 DEF CarryOf, Carried
    <3>5. Holds(q)' \/ Done(q)'
      BY <2>1, <2>2, <3>4 DEF CarryOf, Steady
    <3>6. Holds(q)' => command'.node = prompt'[q].home
      BY <2>1, <2>2, <2>3, <3>1 DEF CarryOf, Steady
    <3>7. ~prompt'[q].sent
      BY <2>2, <3>4 DEF Steady
    <3>8. QED
      BY <3>1, <3>2, <3>3, <3>5, <3>6, <3>7, CarryCommanded
  <2>4. CASE parked[t] # q
    <3>1. ~Commanded(q)' /\ ~Commanded(q)
      BY <1>1, <1>3, <2>4 DEF Commanded, Idle
    <3>2. Fewer(q)
      BY <1>1, <3>1 DEF Fewer, Reading, Asks
    <3>3. More(q)
      BY <1>1, <2>4, <3>1 DEF More, Reading, Asks
    <3>4. QED
      BY <2>1, <2>2, <3>2, <3>3, CarryKept
  <2>5. QED
    BY <2>3, <2>4
<1>7. QED
  BY <1>2, <1>4, <1>5, <1>6 DEF WayInv, CarryInv

(* What an unanswered request shows of its thread.                         *)
LEMMA AskFacts ==
  ASSUME PipelineInv, NEW r \in requests
  PROVE  /\ RequestOf(r) /\ r \in RequestRecord
         /\ r.node \in Node /\ r.prompt \in Prompt \cup {None} /\ r.kind \in HistoryKinds \cup PromptKinds
         /\ r.kind \in HistoryKinds \ {"resume prompt"} => r.prompt = None /\ r.node \in Thread
         /\ r.kind \in PromptKinds => r.prompt \in Prompt
         /\ r.current => connected
         /\ Late(r) => Renewed(r.node) /\ r.node \in Thread
<1>1. RequestOf(r) /\ r \in RequestRecord
  BY DEF PipelineInv, PipelineTypes, AskInv, RequestTypes
<1>2. r.current => connected
  BY DEF PipelineInv, LinkInv
<1>3. Late(r) => Renewed(r.node) /\ r.node \in Thread
  BY <1>1, LateFacts
<1>4. r.node \in Node /\ r.prompt \in Prompt \cup {None} /\ r.kind \in HistoryKinds \cup PromptKinds
  BY <1>1 DEF RequestRecord
<1>5. r.kind \in HistoryKinds \ {"resume prompt"} => r.prompt = None /\ r.node \in Thread
  BY <1>1, <1>4 DEF RequestOf, HistoryKinds, PromptKinds
<1>6. r.kind \in PromptKinds => r.prompt \in Prompt
  BY <1>1, <1>4 DEF RequestOf
<1>7. QED
  BY <1>1, <1>2, <1>3, <1>4, <1>5, <1>6

(* A thread without a current read is not being resumed for a prompt, and  *)
(* a thread of the graph is known over a connection.                       *)
LEMMA UnreadFacts ==
  ASSUME PipelineInv, NEW t \in Thread
  PROVE  /\ ~conversationSnapshotPending(t) =>
              \A r \in requests : r.kind = "resume prompt" => r.node # t
         /\ t \in live => connected
<1>1. t \in live => connected
  BY DEF PipelineInv, LinkInv
<1>2. ASSUME ~conversationSnapshotPending(t), NEW r \in requests, r.kind = "resume prompt"
      PROVE  r.node # t
  <2>1. r.current
    BY <1>2, AskFacts DEF RequestOf
  <2>2. QED
    BY <1>2, <2>1 DEF conversationSnapshotPending, On, HistoryKinds
<1>3. QED
  BY <1>1, <1>2

(* A thread is announced.                                                  *)
LEMMA ThreadAppearsInv ==
  ASSUME PipelineInv, NEW t \in Thread, NEW isLoaded \in BOOLEAN, ThreadAppears(t, isLoaded)
  PROVE  PipelineInv'
<1>1. connected /\ t \notin live \cup retired
  BY DEF PipelineInv, LinkInv, ThreadAppears
<1>2. ASSUME NEW r \in requests', Late(r) PROVE Renewed(r.node)'
  <2>1. r \in requests /\ Renewed(r.node) /\ UNCHANGED <<hydration, retired, connected>>
    BY <1>2, AskFacts DEF ThreadAppears, linkVars
  <2>2. r.node # t
    BY <1>1, <2>1 DEF Renewed
  <2>3. r.node \in live' <=> r.node \in live
    BY <2>2 DEF ThreadAppears
  <2>4. QED
    BY <2>1, <2>3 DEF Renewed
<1>3. ASSUME NEW r \in requests', r.kind = "resume prompt" PROVE r.node \notin hydrating'
  <2>1. r \in requests /\ hydrating' = hydrating
    BY DEF ThreadAppears, hydrationVars
  <2>2. QED
    BY <1>3, <2>1, AskFacts DEF RequestOf
<1>4. Reading
  BY <1>1, <1>2, <1>3 DEF ThreadAppears, Reading, PipelineInv, LinkInv, linkVars
<1>5. WayInv'
  BY <1>4, QuietKept DEF ThreadAppears, hydrationVars
<1>6. OtherTypes'
  BY DEF PipelineInv, PipelineTypes, OtherTypes, ThreadTypes, HydrationTypes, RequestTypes,
         LinkTypes, ThreadAppears, hydrationVars, linkVars, Node
<1>7. QED
  BY <1>5, <1>6, InvNext

(* A step that changes no request, no thread and nothing on its way.       *)
LEMMA StillKept ==
  ASSUME PipelineInv, Idle, UNCHANGED <<promptVars, command, parked, requests>>,
         UNCHANGED <<live, retired, hydration, hydrating, connected>>, ready' => connected
  PROVE  WayInv'
<1>1. ASSUME NEW r \in requests', Late(r) PROVE Renewed(r.node)'
  <2>1. Renewed(r.node)
    BY <1>1, AskFacts
  <2>2. QED
    BY <2>1 DEF Renewed
<1>2. ASSUME NEW r \in requests', r.kind = "resume prompt" PROVE r.node \notin hydrating'
  BY <1>2, AskFacts DEF RequestOf
<1>3. Reading
  BY <1>1, <1>2 DEF Reading
<1>4. QED
  BY <1>3, QuietKept

(* A thread is loaded or closed.                                           *)
LEMMA ThreadStatusInv ==
  ASSUME PipelineInv, NEW t \in Thread, ThreadStatus(t)
  PROVE  PipelineInv'
<1>1. WayInv'
  BY StillKept DEF ThreadStatus, hydrationVars, linkVars, PipelineInv, LinkInv
<1>2. OtherTypes'
  BY DEF PipelineInv, PipelineTypes, OtherTypes, ThreadTypes, HydrationTypes, RequestTypes,
         LinkTypes, ThreadStatus, hydrationVars, linkVars
<1>3. QED
  BY <1>1, <1>2, InvNext

(* The bridge reports readiness and the controller.                        *)
LEMMA BridgeStateInv ==
  ASSUME PipelineInv, BridgeState
  PROVE  PipelineInv'
<1>1. WayInv'
  BY StillKept DEF BridgeState, hydrationVars, threadVars
<1>2. OtherTypes'
  BY DEF PipelineInv, PipelineTypes, OtherTypes, ThreadTypes, HydrationTypes, RequestTypes,
         LinkTypes, BridgeState, threadVars, hydrationVars
<1>3. QED
  BY <1>1, <1>2, InvNext

----------------------------------------------------------------------------
(* Hydration *)

(* The requests of a hydration are reads.                                  *)
IsRead(r) == /\ r \in RequestRecord /\ r.prompt = None /\ r.current /\ r.node \in Thread
             /\ r.kind \in HistoryKinds \ {"resume prompt"}

(* The requests of a hydration are reads.                                  *)
LEMMA ReadRequests ==
  ASSUME NEW t \in Thread, NEW cached \in BOOLEAN, NEW resume \in {"not", "ok", "failed"}
  PROVE  /\ IsRead(ResumeRequest(t, cached)) /\ IsRead(TurnsRequest(t, resume))
         /\ IsRead(About("settings", t, None)) /\ IsRead(About("history", t, None))
<1>1. IsRead(ResumeRequest(t, cached)) /\ IsRead(TurnsRequest(t, resume))
  <2>1. {"resume hydration", "turns"} \subseteq HistoryKinds \ {"resume prompt"}
    BY DEF HistoryKinds
  <2>2. IsRead(ResumeRequest(t, cached))
    <3>1. /\ ResumeRequest(t, cached) \in RequestRecord
          /\ ResumeRequest(t, cached).kind = "resume hydration"
          /\ ResumeRequest(t, cached).node = t /\ ResumeRequest(t, cached).prompt = None
          /\ ResumeRequest(t, cached).current
      BY DEF ResumeRequest, TurnsRequest, About, RequestRecord, HistoryKinds, Node
    <3>2. QED
      BY <2>1, <3>1 DEF IsRead
  <2>3. IsRead(TurnsRequest(t, resume))
    <3>1. /\ TurnsRequest(t, resume) \in RequestRecord
          /\ TurnsRequest(t, resume).kind = "turns"
          /\ TurnsRequest(t, resume).node = t /\ TurnsRequest(t, resume).prompt = None
          /\ TurnsRequest(t, resume).current
      BY DEF ResumeRequest, TurnsRequest, About, RequestRecord, HistoryKinds, Node
    <3>2. QED
      BY <2>1, <3>1 DEF IsRead
  <2>4. QED
    BY <2>2, <2>3
<1>2. ASSUME NEW kind \in {"settings", "history"} PROVE IsRead(About(kind, t, None))
  <2>1. /\ t \in Node /\ None \in Prompt \cup {None}
        /\ kind \in HistoryKinds \cup PromptKinds /\ kind \in HistoryKinds \ {"resume prompt"}
    BY DEF Node, HistoryKinds
  <2>2. /\ About(kind, t, None) \in RequestRecord /\ About(kind, t, None).kind = kind
        /\ About(kind, t, None).node = t /\ About(kind, t, None).prompt = None
        /\ About(kind, t, None).current
    BY <2>1 DEF About, RequestRecord
  <2>3. QED
    BY <2>1, <2>2 DEF IsRead
<1>3. QED
  BY <1>1, <1>2

(* A thread begins to be hydrated that no current read is about.           *)
LEMMA HydrationReading ==
  ASSUME PipelineInv, NEW t \in Thread, t \in live, ~conversationSnapshotPending(t),
         NEW r, IsRead(r), requests' = requests \cup {r},
         hydrating' \subseteq hydrating \cup {t},
         hydration' = [hydration EXCEPT ![t] = "loading"]
           \/ (hydration' = hydration),
         UNCHANGED <<live, retired, linkVars>>
  PROVE  Reading
<1>1. connected /\ (ready => connected) /\ hydration \in [Thread -> {"none", "loading", "ready", "failed"}]
  BY UnreadFacts DEF PipelineInv, PipelineTypes, ThreadTypes, LinkInv
<1>2. ASSUME NEW q \in requests', q.kind = "resume prompt" PROVE q.node \notin hydrating'
  <2>1. q \in requests
    BY <1>2 DEF IsRead
  <2>2. q.node # t /\ q.node \notin hydrating
    BY <1>2, <2>1, AskFacts, UnreadFacts DEF RequestOf
  <2>3. QED
    BY <2>2
<1>3. ASSUME NEW q \in requests', Late(q) PROVE Renewed(q.node)'
  <2>1. q \in requests
    BY <1>3 DEF IsRead, Late
  <2>2. Renewed(q.node) /\ q.node \in Thread
    BY <1>3, <2>1, AskFacts
  <2>3. hydration[q.node] = "loading" => hydration'[q.node] = "loading"
    BY <1>1, <2>2
  <2>4. QED
    BY <2>2, <2>3 DEF Renewed, linkVars
<1>4. QED
  BY <1>1, <1>2, <1>3 DEF Reading, IsRead, linkVars

(* The user selects or reloads a thread.                                   *)
LEMMA HydrateInv ==
  ASSUME PipelineInv, NEW t \in Thread, NEW force \in BOOLEAN, Hydrate(t, force)
  PROVE  PipelineInv'
<1> DEFINE cached == ~force /\ hydration[t] = "ready"
<1>1. /\ Idle /\ t \in live /\ UNCHANGED <<live, retired, loaded, connected, ready, controller>>
      /\ OtherTypes /\ cached \in BOOLEAN /\ t \in Node
  BY InvParts DEF Hydrate, linkVars, Node
<1>2. CASE /\ conversationSnapshotPending(t)
           /\ interactive' = interactive \cup {t}
           /\ UNCHANGED <<promptVars, command, hydration, hydrating, parked, resumed, requests>>
  <2>1. WayInv'
    BY <1>1, <1>2, StillKept DEF PipelineInv, LinkInv
  <2>2. OtherTypes'
    BY <1>1, <1>2 DEF OtherTypes, ThreadTypes, HydrationTypes, RequestTypes, LinkTypes
  <2>3. QED
    BY <2>1, <2>2, InvNext
<1>3. CASE /\ ~conversationSnapshotPending(t) /\ cached /\ ~controller
           /\ hydrating' = hydrating \ {t} /\ interactive' = interactive \ {t}
           /\ Continue(t, FALSE)
           /\ UNCHANGED <<hydration, requests>>
  <2>1. ASSUME NEW q \in requests', Late(q) PROVE Renewed(q.node)'
    BY <1>1, <1>3, <2>1, AskFacts DEF Renewed
  <2>2. ASSUME NEW q \in requests', q.kind = "resume prompt" PROVE q.node \notin hydrating'
    BY <1>3, <2>2, AskFacts DEF RequestOf
  <2>3. Reading
    BY <1>1, <1>3, <2>1, <2>2 DEF Reading, PipelineInv, LinkInv
  <2>4. WayInv'
    BY <1>1, <1>3, <2>3, ContinueKept
  <2>5. OtherTypes'
    BY <1>1, <1>3 DEF Continue, OtherTypes, ThreadTypes, HydrationTypes, RequestTypes, LinkTypes
  <2>6. QED
    BY <2>4, <2>5, InvNext
<1>4. CASE /\ ~conversationSnapshotPending(t) /\ (controller \/ ~cached)
           /\ hydrating' = hydrating \cup {t} /\ interactive' = interactive \cup {t}
           /\ IF cached THEN UNCHANGED hydration ELSE Loading(t)
           /\ requests' = requests \cup {IF controller THEN ResumeRequest(t, cached)
                                         ELSE TurnsRequest(t, "not")}
           /\ UNCHANGED <<promptVars, command, parked, resumed>>
  <2> DEFINE r == IF controller THEN ResumeRequest(t, cached) ELSE TurnsRequest(t, "not")
  <2>1. IsRead(r) /\ requests' = requests \cup {r}
    BY <1>1, <1>4, ReadRequests
  <2>2. hydration' = hydration \/ hydration' = [hydration EXCEPT ![t] = "loading"]
    BY <1>4 DEF Loading
  <2>3. Reading
    BY <1>1, <1>4, <2>1, <2>2, HydrationReading DEF linkVars
  <2>4. WayInv' /\ RequestTypes'
    BY <1>1, <1>4, <2>3, QuietKept
  <2>5. OtherTypes'
    BY <1>1, <1>4, <2>2, <2>4 DEF OtherTypes, ThreadTypes, HydrationTypes, LinkTypes
  <2>6. QED
    BY <2>4, <2>5, InvNext
<1>5. QED
  BY <1>2, <1>3, <1>4 DEF Hydrate

(* The thread of an active agent is hydrated.                              *)
LEMMA HydrateInBackgroundInv ==
  ASSUME PipelineInv, NEW t \in Thread, HydrateInBackground(t)
  PROVE  PipelineInv'
<1>1. /\ Idle /\ t \in live /\ ~conversationSnapshotPending(t) /\ OtherTypes
      /\ IsRead(TurnsRequest(t, "not"))
  BY InvParts, ReadRequests DEF HydrateInBackground
<1>2. Reading
  BY <1>1, HydrationReading DEF HydrateInBackground, Loading
<1>3. WayInv' /\ RequestTypes'
  BY <1>1, <1>2, QuietKept DEF HydrateInBackground
<1>4. OtherTypes'
  BY <1>1, <1>3 DEF OtherTypes, ThreadTypes, HydrationTypes, LinkTypes, HydrateInBackground, Loading, linkVars
<1>5. QED
  BY <1>3, <1>4, InvNext

(* The user asks for older history.                                        *)
LEMMA LoadHistoryInv ==
  ASSUME PipelineInv, NEW t \in Thread, LoadHistory(t)
  PROVE  PipelineInv'
<1>1. /\ Idle /\ t \in live /\ ~conversationSnapshotPending(t) /\ OtherTypes
      /\ IsRead(About("history", t, None))
  BY InvParts, ReadRequests DEF LoadHistory
<1>2. Reading
  BY <1>1, HydrationReading DEF LoadHistory, threadVars, hydrationVars
<1>3. WayInv' /\ RequestTypes'
  BY <1>1, <1>2, QuietKept DEF LoadHistory, hydrationVars
<1>4. OtherTypes'
  BY <1>1, <1>3 DEF OtherTypes, ThreadTypes, HydrationTypes, LinkTypes, LoadHistory,
                    threadVars, hydrationVars, linkVars
<1>5. QED
  BY <1>3, <1>4, InvNext

(* An answer about the history of t takes its request away and may ask for *)
(* the next page; nothing else is read, and no outdated read is on its way *)
(* for a thread whose hydration it changes.                                *)
LEMMA AnswerReading ==
  ASSUME PipelineInv, NEW r \in requests, r.prompt = None,
         \/ requests' = requests \ {r}
         \/ r.current /\ \E q \in RequestRecord : IsRead(q) /\ requests' = (requests \ {r}) \cup {q},
         hydrating' \subseteq hydrating,
         \A q \in requests' : Late(q) => hydration'[q.node] = hydration[q.node],
         UNCHANGED <<live, retired, linkVars>>
  PROVE  Reading
<1>1. r.current => connected
  BY AskFacts
<1>2. ASSUME NEW q \in requests', Late(q) PROVE Renewed(q.node)'
  <2>1. q \in requests
    BY <1>2 DEF IsRead, Late
  <2>2. Renewed(q.node)
    BY <1>2, <2>1, AskFacts
  <2>3. QED
    BY <1>2, <2>2 DEF Renewed, linkVars
<1>3. ASSUME NEW q \in requests', q.kind = "resume prompt" PROVE q.node \notin hydrating'
  <2>1. q \in requests
    BY <1>3 DEF IsRead
  <2>2. QED
    BY <1>3, <2>1, AskFacts DEF RequestOf
<1>4. \A q \in requests : q.prompt \in Prompt => q \in requests'
  BY NamesAssumption, MaxPromptsAssumption DEF Prompt
<1>5. QED
  BY <1>1, <1>2, <1>3, <1>4 DEF Reading, IsRead, linkVars, PipelineInv, LinkInv

(* thread/resume of a hydration is answered.                               *)
LEMMA AnswerResumeHydrationInv ==
  ASSUME PipelineInv, NEW t \in Thread, NEW r \in On(t), NEW ok \in BOOLEAN, AnswerResumeHydration(r, ok)
  PROVE  PipelineInv'
<1>1. /\ Idle /\ r \in requests /\ r.node = t /\ r.kind = "resume hydration"
      /\ UNCHANGED <<live, retired, hydration, linkVars>>
  BY DEF AnswerResumeHydration, On, Requests
<1>2. r.prompt = None /\ RequestOf(r) /\ OtherTypes
  BY <1>1, AskFacts, InvParts DEF HistoryKinds
<1>3. CASE /\ ~r.current
           /\ hydrating' = hydrating \ {t} /\ interactive' = interactive \ {t}
           /\ parked' = [parked EXCEPT ![t] = None]
           /\ requests' = requests \ {r}
           /\ UNCHANGED <<promptVars, command, loaded, resumed>>
  <2>1. requests' = requests \ {r} /\ hydrating' \subseteq hydrating
    BY <1>3
  <2>2. Reading
    BY <1>1, <1>2, <2>1, AnswerReading
  <2>3. slot[t] = None
    BY <1>1, <1>2, <1>3, LateFacts DEF Late, HistoryKinds
  <2>4. \A u \in Thread : parked'[u] = parked[u] \/ (parked'[u] = None /\ slot[u] = None)
    BY <1>2, <1>3, <2>3 DEF OtherTypes, HydrationTypes
  <2>5. WayInv' /\ RequestTypes'
    BY <1>1, <1>3, <2>2, <2>4, QuietKept
  <2>6. OtherTypes'
    BY <1>1, <1>2, <1>3, <2>5 DEF OtherTypes, ThreadTypes, HydrationTypes, LinkTypes, linkVars
  <2>7. QED
    BY <2>5, <2>6, InvNext
<1>4. CASE /\ r.current /\ r.cached
           /\ Resumed(t, ok)
           /\ hydrating' = hydrating \ {t} /\ interactive' = interactive \ {t}
           /\ Continue(t, ok)
           /\ requests' = requests \ {r}
  <2>1. requests' = requests \ {r} /\ hydrating' \subseteq hydrating
    BY <1>4
  <2>2. Reading
    BY <1>1, <1>2, <2>1, AnswerReading
  <2>3. WayInv' /\ RequestTypes'
    BY <1>1, <1>4, <2>2, ContinueKept
  <2>4. OtherTypes'
    BY <1>1, <1>2, <1>4, <2>3 DEF OtherTypes, ThreadTypes, HydrationTypes, LinkTypes, linkVars, Continue, Resumed
  <2>5. QED
    BY <2>3, <2>4, InvNext
<1>5. CASE /\ r.current /\ ~r.cached
           /\ Resumed(t, ok)
           /\ requests' = (requests \ {r}) \cup {TurnsRequest(t, IF ok THEN "ok" ELSE "failed")}
           /\ UNCHANGED <<promptVars, command, hydrationVars>>
  <2>1. IsRead(TurnsRequest(t, IF ok THEN "ok" ELSE "failed"))
    BY ReadRequests
  <2>2. Reading
    BY <1>1, <1>2, <1>5, <2>1, AnswerReading DEF hydrationVars, IsRead
  <2>3. WayInv' /\ RequestTypes'
    BY <1>1, <1>5, <2>2, QuietKept DEF hydrationVars
  <2>4. OtherTypes'
    BY <1>1, <1>2, <1>5, <2>3 DEF OtherTypes, ThreadTypes, HydrationTypes, LinkTypes, linkVars,
                                  hydrationVars, Resumed
  <2>5. QED
    BY <2>3, <2>4, InvNext
<1>6. QED
  BY <1>1, <1>3, <1>4, <1>5 DEF AnswerResumeHydration

(* thread/resume after a background page is answered.                      *)
LEMMA AnswerSettingsInv ==
  ASSUME PipelineInv, NEW t \in Thread, NEW r \in On(t), NEW ok \in BOOLEAN, AnswerSettings(r, ok)
  PROVE  PipelineInv'
<1>1. /\ Idle /\ r \in requests /\ r.node = t /\ r.kind = "settings"
      /\ requests' = requests \ {r}
      /\ UNCHANGED <<live, retired, hydration, hydrating, interactive, linkVars>>
  BY DEF AnswerSettings, On, Requests
<1>2. r.prompt = None /\ RequestOf(r) /\ OtherTypes
  BY <1>1, AskFacts, InvParts DEF HistoryKinds
<1>3. Reading
  BY <1>1, <1>2, AnswerReading
<1>4. CASE /\ ~r.current
           /\ parked' = [parked EXCEPT ![t] = None]
           /\ UNCHANGED <<promptVars, command, loaded, resumed>>
  <2>1. slot[t] = None
    BY <1>1, <1>2, <1>4, LateFacts DEF Late, HistoryKinds
  <2>2. \A u \in Thread : parked'[u] = parked[u] \/ (parked'[u] = None /\ slot[u] = None)
    BY <1>2, <1>4, <2>1 DEF OtherTypes, HydrationTypes
  <2>3. WayInv' /\ RequestTypes'
    BY <1>1, <1>3, <1>4, <2>2, QuietKept
  <2>4. OtherTypes'
    BY <1>1, <1>2, <1>4, <2>3 DEF OtherTypes, ThreadTypes, HydrationTypes, LinkTypes, linkVars
  <2>5. QED
    BY <2>3, <2>4, InvNext
<1>5. CASE Resumed(t, ok) /\ Continue(t, ok)
  <2>1. WayInv' /\ RequestTypes'
    BY <1>1, <1>3, <1>5, ContinueKept
  <2>2. OtherTypes'
    BY <1>1, <1>2, <1>5, <2>1 DEF OtherTypes, ThreadTypes, HydrationTypes, LinkTypes, linkVars, Continue, Resumed
  <2>3. QED
    BY <2>1, <2>2, InvNext
<1>6. QED
  BY <1>1, <1>4, <1>5 DEF AnswerSettings

(* An outdated read is not about the thread of an answer in turn.          *)
LEMMA InTurnFacts ==
  ASSUME NEW r, r.current, InTurn(r), NEW q \in requests, Late(q)
  PROVE  q.node # r.node
  BY DEF InTurn, On, Late

(* A page of older history is answered.                                    *)
LEMMA AnswerHistoryInv ==
  ASSUME PipelineInv, NEW t \in Thread, NEW r \in On(t), NEW ok \in BOOLEAN, AnswerHistory(r, ok)
  PROVE  PipelineInv'
<1>1. /\ Idle /\ r \in requests /\ r.node = t /\ r.kind = "history" /\ InTurn(r)
      /\ requests' = requests \ {r}
      /\ UNCHANGED <<promptVars, command, live, retired, loaded, hydrationVars, linkVars>>
      /\ hydration' = IF t \notin live THEN hydration
                      ELSE [hydration EXCEPT ![t] = IF ok THEN "ready" ELSE "failed"]
  BY DEF AnswerHistory, On, Requests
<1>2. r.prompt = None /\ r.current /\ OtherTypes
  BY <1>1, AskFacts, InvParts DEF HistoryKinds, RequestOf
<1>3. \A q \in requests' : Late(q) => hydration'[q.node] = hydration[q.node]
  BY <1>1, <1>2, InTurnFacts, AskFacts DEF OtherTypes, ThreadTypes
<1>4. Reading
  BY <1>1, <1>2, <1>3, AnswerReading DEF hydrationVars
<1>5. WayInv' /\ RequestTypes'
  BY <1>1, <1>4, QuietKept DEF hydrationVars
<1>6. OtherTypes'
  BY <1>1, <1>2, <1>5 DEF OtherTypes, ThreadTypes, HydrationTypes, LinkTypes, linkVars, hydrationVars
<1>7. QED
  BY <1>5, <1>6, InvNext

(* thread/turns/list is answered.                                          *)
LEMMA AnswerTurnsInv ==
  ASSUME PipelineInv, NEW t \in Thread, NEW r \in On(t), NEW outcome \in {"ok", "mismatched", "error"},
         AnswerTurns(r, outcome)
  PROVE  PipelineInv'
<1>1. /\ Idle /\ r \in requests /\ r.node = t /\ r.kind = "turns" /\ InTurn(r)
      /\ hydrating' = hydrating \ {t} /\ interactive' = interactive \ {t}
      /\ hydration' = IF t \notin live THEN hydration
                      ELSE [hydration EXCEPT ![t] = IF outcome = "ok" THEN "ready" ELSE "failed"]
      /\ UNCHANGED <<live, retired, loaded, linkVars>>
  BY DEF AnswerTurns, On, Requests
<1>2. r.prompt = None /\ r.current /\ OtherTypes
  BY <1>1, AskFacts, InvParts DEF HistoryKinds, RequestOf
<1>3. \A q \in requests : Late(q) => hydration'[q.node] = hydration[q.node]
  BY <1>1, <1>2, InTurnFacts, AskFacts DEF OtherTypes, ThreadTypes
<1>4. ThreadTypes' /\ LinkTypes' /\ hydrating' \subseteq Thread /\ interactive' \subseteq Thread
  <2>1. hydration' \in [Thread -> {"none", "loading", "ready", "failed"}]
    BY <1>1, <1>2 DEF OtherTypes, ThreadTypes
  <2>2. QED
    BY <1>1, <1>2, <2>1 DEF OtherTypes, ThreadTypes, LinkTypes, linkVars, HydrationTypes
<1>5. ASSUME requests' = requests \ {r} PROVE Reading
  <2>1. requests' = requests \ {r} /\ hydrating' \subseteq hydrating
    BY <1>1, <1>5
  <2>2. \A q \in requests' : Late(q) => hydration'[q.node] = hydration[q.node]
    BY <1>3, <1>5
  <2>3. QED
    BY <1>1, <1>2, <2>1, <2>2, AnswerReading
<1>6. CASE ContinueFailed(t) /\ requests' = requests \ {r}
  <2>1. /\ parked' = [parked EXCEPT ![t] = None] /\ resumed' = resumed
        /\ parked \in [Thread -> Prompt \cup {None}] /\ None \notin Prompt
    BY <1>2, <1>6, NamesAssumption, MaxPromptsAssumption
    DEF ContinueFailed, OtherTypes, HydrationTypes, Prompt
  <2>2. OtherTypes'
    BY <1>2, <1>4, <1>6, <2>1 DEF OtherTypes, HydrationTypes, RequestTypes
  <2>3. CASE parked[t] = None
    <3>1. parked' = parked /\ UNCHANGED <<promptVars, command>>
      BY <1>1, <1>6, <2>1, <2>3 DEF ContinueFailed, Idle
    <3>2. WayInv'
      BY <1>1, <1>5, <1>6, <3>1, QuietKept
    <3>3. QED
      BY <2>2, <3>2, InvNext
  <2>4. CASE parked[t] # None
    <3> DEFINE p == parked[t]
    <3>1. p \in Prompt /\ Complete(p, FALSE)
      BY <1>6, <2>1, <2>4 DEF ContinueFailed
    <3>2. CarryOf(p)
      BY <3>1 DEF PipelineInv, CarryInv
    <3>3. Freeing(p)
      <4>1. command # None => command.prompt = p
        BY <1>1 DEF Idle
      <4>2. \A u \in Thread : parked'[u] = parked[u] \/ (parked[u] = p /\ parked'[u] = None)
        BY <2>1
      <4>3. \A q \in requests : q.prompt \in Prompt \ {p} => q \in requests'
        BY <1>2, <1>6, <2>1
      <4>4. \A u \in Thread : parked'[u] # p
        BY <2>1, <3>1, <3>2 DEF CarryOf
      <4>5. \A q \in requests' : ~Asks(q, p)
        BY <1>6, <3>2 DEF CarryOf
      <4>6. QED
        BY <1>6, <4>1, <4>2, <4>3, <4>4, <4>5 DEF Freeing
    <3>4. Holds(p) \/ Done(p)
      BY <3>2 DEF CarryOf, Carried
    <3>5. WayInv'
      BY <1>1, <1>3, <1>6, <3>1, <3>3, <3>4, CompleteKept
    <3>6. QED
      BY <2>2, <3>5, InvNext
  <2>5. QED
    BY <2>3, <2>4
<1>7. CASE /\ requests' = (requests \ {r}) \cup {About("settings", t, None)}
           /\ UNCHANGED <<promptVars, command, parked, resumed>>
  <2>1. IsRead(About("settings", t, None))
    BY ReadRequests
  <2>2. \A q \in requests' : Late(q) => hydration'[q.node] = hydration[q.node]
    BY <1>3, <1>7, <2>1 DEF IsRead, Late
  <2>3. Reading
    <3>1. hydrating' \subseteq hydrating
      BY <1>1
    <3>2. QED
      BY <1>1, <1>2, <1>7, <2>1, <2>2, <3>1, AnswerReading DEF IsRead
  <2>4. WayInv' /\ RequestTypes'
    BY <1>1, <1>7, <2>3, QuietKept
  <2>5. OtherTypes'
    BY <1>2, <1>4, <1>7, <2>4 DEF OtherTypes, HydrationTypes
  <2>6. QED
    BY <2>4, <2>5, InvNext
<1>8. CASE Continue(t, r.resume = "ok") /\ requests' = requests \ {r}
  <2>1. WayInv' /\ RequestTypes'
    BY <1>1, <1>5, <1>8, ContinueKept
  <2>2. OtherTypes'
    BY <1>2, <1>4, <1>8, <2>1 DEF OtherTypes, HydrationTypes, Continue
  <2>3. QED
    BY <2>1, <2>2, InvNext
<1>9. QED
  BY <1>1, <1>6, <1>7, <1>8 DEF AnswerTurns

----------------------------------------------------------------------------
(* Actions that complete a prompt *)

(* A completion changes nothing else but the requests.                     *)
LEMMA CompleteInv ==
  ASSUME PipelineInv, NEW p \in Prompt, NEW accepted \in BOOLEAN, Complete(p, accepted),
         Holds(p) \/ Done(p), Holds(p) /\ accepted => prompt[p].home \in Thread, Freeing(p),
         UNCHANGED <<live, retired, hydration, hydrationVars, linkVars>>,
         loaded' \subseteq Thread
  PROVE  PipelineInv'
<1>1. WayInv'
  BY CompleteKept DEF hydrationVars
<1>2. OtherTypes'
  BY DEF PipelineInv, PipelineTypes, OtherTypes, ThreadTypes, HydrationTypes, RequestTypes,
         LinkTypes, Freeing, hydrationVars, linkVars
<1>3. QED
  BY <1>1, <1>2, InvNext

(* dispatchPrompt fails the prompt in hand.                                *)
LEMMA DispatchRefusedInv ==
  ASSUME PipelineInv, NEW n \in Node, NEW p \in Prompt, DispatchRefused(n, p)
  PROVE  PipelineInv'
<1>1. /\ Commanded(p) /\ Complete(p, FALSE)
      /\ UNCHANGED <<threadVars, hydrationVars, requests, linkVars>>
  BY DEF DispatchRefused, InHand, Commanded
<1>2. CarryOf(p)
  BY DEF PipelineInv, CarryInv
<1>3. Freeing(p)
  BY <1>1, <1>2 DEF Freeing, Commanded, CarryOf, hydrationVars
<1>4. Holds(p) \/ Done(p)
  BY <1>1, <1>2 DEF CarryOf, Carried
<1>5. loaded' \subseteq Thread
  BY <1>1 DEF threadVars, PipelineInv, PipelineTypes, ThreadTypes
<1>6. QED
  BY <1>1, <1>3, <1>4, <1>5, CompleteInv DEF threadVars

(* The answer to a request about a prompt frees the prompt.                *)
LEMMA AnswerFrees ==
  ASSUME PipelineInv, Idle, NEW r \in requests, r.kind \in PromptKinds,
         requests' = requests \ {r}, parked' = parked
  PROVE  /\ r.prompt \in Prompt /\ Freeing(r.prompt)
         /\ Holds(r.prompt) \/ Done(r.prompt)
         /\ Holds(r.prompt) => r.current /\ prompt[r.prompt].home = r.node
<1> DEFINE p == r.prompt
<1>1. p \in Prompt /\ RequestOf(r) /\ p # None
  <2>1. None \notin Prompt
    BY NamesAssumption, MaxPromptsAssumption DEF Prompt
  <2>2. QED
    BY <2>1, AskFacts
<1>2. CarryOf(p)
  BY <1>1 DEF PipelineInv, CarryInv
<1>3. Done(p) => ~Holds(p)
  BY <1>1 DEF PipelineInv, WorkInv, StateInv, WellFormed, Done, Holds
<1>4. r.current => Asks(r, p)
  BY DEF Asks
<1>5. Holds(p) => r.current /\ Asks(r, p) /\ prompt[p].home = r.node
  BY <1>1, <1>2, <1>3, <1>4 DEF RequestOf, CarryOf
<1>6. Holds(p) \/ Done(p)
  BY <1>1, <1>2, <1>4 DEF RequestOf, CarryOf, Carried
<1>7. Freeing(p)
  <2>1. Holds(p) => /\ \A t \in Thread : parked'[t] # p
                    /\ \A q \in requests' : ~Asks(q, p)
    BY <1>2, <1>5 DEF CarryOf
  <2>2. QED
    BY <2>1 DEF Freeing, Idle
<1>8. QED
  BY <1>1, <1>5, <1>6, <1>7

(* An answer that completes its prompt.                                    *)
LEMMA AnswerPromptInv ==
  ASSUME PipelineInv, Idle, NEW r \in requests, r.kind \in PromptKinds,
         requests' = requests \ {r}, NEW accepted \in BOOLEAN, accepted => r.node \in Thread,
         Complete(r.prompt, accepted), loaded' \subseteq Thread,
         UNCHANGED <<live, retired, hydration, hydrationVars, linkVars>>
  PROVE  PipelineInv'
<1>1. parked' = parked
  BY DEF hydrationVars
<1>2. /\ r.prompt \in Prompt /\ Freeing(r.prompt)
      /\ Holds(r.prompt) \/ Done(r.prompt)
      /\ Holds(r.prompt) => r.current /\ prompt[r.prompt].home = r.node
  BY <1>1, AnswerFrees
<1>3. QED
  BY <1>2, CompleteInv

(* A turn is answered.                                                     *)
LEMMA AnswerTurnInv ==
  ASSUME PipelineInv, NEW r \in requests, NEW ok \in BOOLEAN, AnswerTurn(r, ok)
  PROVE  PipelineInv'
<1>1. loaded' \subseteq Thread
  BY DEF AnswerTurn, threadVars, PipelineInv, PipelineTypes, ThreadTypes
<1>2. r.kind \in PromptKinds
  BY DEF AnswerTurn, Requests, PromptKinds
<1>3. QED
  BY <1>1, <1>2, AnswerPromptInv DEF AnswerTurn, threadVars

(* thread/start is refused, or answered after the connection is gone.      *)
LEMMA RefuseThreadStartInv ==
  ASSUME PipelineInv, NEW r \in requests, RefuseThreadStart(r) \/ LateThreadStart(r)
  PROVE  PipelineInv'
<1>1. /\ Idle /\ r.kind \in PromptKinds /\ requests' = requests \ {r} /\ Complete(r.prompt, FALSE)
      /\ UNCHANGED <<threadVars, hydrationVars, linkVars>>
  BY DEF RefuseThreadStart, LateThreadStart, Requests, PromptKinds
<1>2. loaded' \subseteq Thread
  BY <1>1 DEF threadVars, PipelineInv, PipelineTypes, ThreadTypes
<1>3. QED
  BY <1>1, <1>2, AnswerPromptInv DEF threadVars

(* The thread of a prompt has been resumed: the prompt is in hand again.   *)
LEMMA AnswerResumePromptInv ==
  ASSUME PipelineInv, NEW t \in Thread, NEW r \in On(t), NEW ok \in BOOLEAN, AnswerResumePrompt(r, ok)
  PROVE  PipelineInv'
<1>1. /\ Idle /\ r \in requests /\ r.node = t /\ r.kind = "resume prompt"
      /\ requests' = requests \ {r}
      /\ UNCHANGED <<live, retired, hydration, hydrating, interactive, parked, linkVars>>
  BY DEF AnswerResumePrompt, On, Requests
<1>2. /\ r.kind \in PromptKinds /\ RequestOf(r) /\ r.prompt \in Prompt /\ r.current
      /\ t \notin hydrating /\ OtherTypes
  BY <1>1, AskFacts, InvParts DEF RequestOf, PromptKinds
<1>3. loaded' \subseteq Thread
  BY <1>1, <1>2 DEF AnswerResumePrompt, Resumed, OtherTypes, ThreadTypes
<1>4. CASE Complete(r.prompt, FALSE) /\ UNCHANGED resumed
  BY <1>1, <1>2, <1>3, <1>4, AnswerPromptInv DEF hydrationVars
<1>5. CASE /\ resumed' = resumed \cup {r.prompt}
           /\ command' = Command(r.prompt, t, FALSE)
           /\ UNCHANGED promptVars
  <2> DEFINE p == r.prompt
  <2>1. CarryOf(p) /\ Asks(r, p) /\ p \in Prompt /\ t \in Node /\ FALSE \in BOOLEAN
    BY <1>2 DEF PipelineInv, CarryInv, Asks, Node
  <2>2. /\ command' \in CommandRecord /\ command' # None /\ command'.prompt = p
        /\ command'.node = t /\ ~command'.creates
    BY <1>5, <2>1, CommandFacts
  <2>3. WorkInv'
    BY <1>1, <1>5, <2>2, IdleWork DEF PipelineInv
  <2>4. CommandInv'
    BY <1>1, <1>2, <2>2 DEF CommandInv
  <2>5. LinkInv'
    BY <1>1 DEF PipelineInv, LinkInv, linkVars
  <2>6. CreatingInv'
    <3>1. ASSUME NEW d \in creating PROVE CreatingOf(d)'
      <4>1. slot'[d] = slot[d] /\ live' = live
        BY <1>1, <1>5 DEF promptVars
      <4>2. CreatingOf(d)
        BY <3>1 DEF PipelineInv, CreatingInv
      <4>3. PICK q \in requests : q.kind = "thread start" /\ q.node = d /\ q.prompt = slot[d]
        BY <1>1, <4>2 DEF CreatingOf, Idle
      <4>4. q \in requests'
        BY <1>1, <4>3
      <4>5. QED
        BY <4>1, <4>2, <4>3, <4>4 DEF CreatingOf
    <3>2. QED
      BY <1>5, <3>1 DEF CreatingInv, promptVars
  <2>7. ASSUME NEW q \in requests' PROVE RequestOf(q)'
    <3>1. q \in requests /\ RequestOf(q)
      BY <1>1, AskFacts
    <3>2. Late(q) => slot'[q.node] = None /\ Renewed(q.node)'
      BY <1>1, <1>5, <3>1, LateFacts DEF Renewed, promptVars, linkVars
    <3>3. Done(q.prompt) => Done(q.prompt)'
      BY <1>5 DEF Done, promptVars
    <3>4. q.kind = "thread start" /\ q.current => Holds(q.prompt)'
      BY <1>5, <3>1 DEF RequestOf, Holds, promptVars
    <3>5. q.kind = "resume prompt" => q.node \notin hydrating'
      BY <1>1, <3>1 DEF RequestOf
    <3>6. QED
      BY <3>1, <3>2, <3>3, <3>4, <3>5, AskKept
  <2>8. ASSUME NEW q \in Prompt PROVE CarryOf(q)'
    <3>1. CarryOf(q) /\ Steady(q)
      BY <1>5 DEF PipelineInv, CarryInv, Steady, Holds, Done, promptVars
    <3>2. CASE q = p
      <4>1. Commanded(q)'
        BY <2>2, <3>2 DEF Commanded
      <4>2. \A u \in Thread : parked'[u] # q
        BY <1>1, <2>1, <3>2 DEF CarryOf
      <4>3. \A s \in requests' : ~Asks(s, q)
        BY <1>1, <2>1, <3>2 DEF CarryOf
      <4>4. /\ Holds(q) \/ Done(q)
            /\ Holds(q) => prompt[q].home = t
            /\ ~prompt[q].sent
        BY <1>1, <2>1, <3>2 DEF CarryOf, Carried
      <4>5. Holds(q)' \/ Done(q)'
        BY <3>1, <4>4 DEF Steady
      <4>6. Holds(q)' => command'.node = prompt'[q].home
        BY <2>2, <3>1, <4>4 DEF Steady
      <4>7. ~prompt'[q].sent
        BY <3>1, <4>4 DEF Steady
      <4>8. QED
        BY <4>1, <4>2, <4>3, <4>5, <4>6, <4>7, CarryCommanded
    <3>3. CASE q # p
      <4>1. ~Commanded(q)' /\ ~Commanded(q)
        BY <1>1, <2>2, <3>3 DEF Commanded, Idle
      <4>2. Fewer(q)
        BY <1>1, <4>1 DEF Fewer
      <4>3. More(q)
        BY <1>1, <3>3, <4>1 DEF More, Asks
      <4>4. QED
        BY <3>1, <4>2, <4>3, CarryKept
    <3>4. QED
      BY <3>2, <3>3
  <2>9. WayInv'
    BY <2>3, <2>4, <2>5, <2>6, <2>7, <2>8 DEF WayInv, AskInv, CarryInv
  <2>10. OtherTypes'
    BY <1>1, <1>2, <1>3, <1>5 DEF OtherTypes, ThreadTypes, HydrationTypes, RequestTypes, LinkTypes, linkVars
  <2>11. QED
    BY <2>9, <2>10, InvNext
<1>6. QED
  BY <1>1, <1>4, <1>5 DEF AnswerResumePrompt

----------------------------------------------------------------------------
(* Dispatch *)

(* The prompt in hand is settled by nothing but its command.               *)
LEMMA InHandFacts ==
  ASSUME PipelineInv, NEW n \in Node, NEW p \in Prompt, InHand(n, p)
  PROVE  /\ Commanded(p) /\ command # None /\ command.prompt = p /\ command.node = n
         /\ \A t \in Thread : parked[t] # p
         /\ \A r \in requests : ~Asks(r, p)
         /\ Holds(p) \/ Done(p)
         /\ Holds(p) => prompt[p].home = n
         /\ ~prompt[p].sent
         /\ \A q \in Prompt : Commanded(q) => q = p
<1>1. Commanded(p) /\ command # None /\ command.prompt = p /\ command.node = n
  BY DEF InHand, Commanded
<1>2. CarryOf(p)
  BY DEF PipelineInv, CarryInv
<1>3. Holds(p) \/ Done(p)
  BY <1>1, <1>2 DEF CarryOf, Carried
<1>4. QED
  BY <1>1, <1>2, <1>3 DEF CarryOf, Commanded

(* The prompt in hand becomes a request a about it.                        *)
LEMMA AskedKept ==
  ASSUME PipelineInv, NEW n \in Node, NEW p \in Prompt, InHand(n, p), Usable,
         NEW a \in RequestRecord, a.node = n, a.prompt = p, a.current, a.kind \in PromptKinds,
         requests' = requests \cup {a}, command' = None,
         UNCHANGED <<queue, slot, creating, threadVars, hydrating, parked, linkVars>>,
         \A q \in Prompt \ {p} : prompt'[q] = prompt[q],
         Holds(p)' <=> Holds(p), prompt'[p].home = prompt[p].home, Done(p) => Done(p)',
         prompt'[p].sent => a.kind = "turn",
         a.kind = "thread start" => n \in Draft /\ Holds(p),
         a.kind = "resume prompt" => n \in Thread \ hydrating,
         command.creates => a.kind = "thread start"
  PROVE  CarryInv' /\ AskInv' /\ CommandInv' /\ CreatingInv' /\ LinkInv'
<1>1. /\ \A t \in Thread : parked[t] # p
      /\ \A r \in requests : ~Asks(r, p)
      /\ Holds(p) \/ Done(p)
      /\ Holds(p) => prompt[p].home = n
      /\ command # None /\ command.prompt = p
      /\ \A q \in Prompt : Commanded(q) => q = p
  BY InHandFacts
<1>2. None \notin Prompt
  BY NoneFacts
<1>3. \A q \in Prompt : Done(q) => Done(q)'
  BY DEF Done
<1>4. \A q \in Prompt : Holds(q)' <=> Holds(q)
  BY DEF Holds
<1>5. CommandInv'
  BY DEF CommandInv
<1>6. LinkInv'
  BY DEF PipelineInv, LinkInv, Usable, threadVars, linkVars
<1>7. ASSUME NEW q \in Prompt PROVE CarryOf(q)'
  <2>1. CASE q = p
    <3>1. a \in requests' /\ Asks(a, q) /\ \A s \in requests' : Asks(s, q) => s = a
      BY <1>1, <2>1 DEF Asks
    <3>2. ~Commanded(q)' /\ \A t \in Thread : parked'[t] # q
      BY <1>1, <2>1 DEF Commanded
    <3>3. Holds(q)' \/ Done(q)'
      BY <1>1, <2>1
    <3>4. Holds(q)' => a.node = prompt'[q].home
      BY <1>1, <2>1
    <3>5. QED
      BY <2>1, <3>1, <3>2, <3>3, <3>4, CarryAsked
  <2>2. CASE q # p
    <3>1. CarryOf(q) /\ ~Commanded(q) /\ ~Commanded(q)'
      BY <1>1, <2>2 DEF PipelineInv, CarryInv, Commanded
    <3>2. Steady(q)
      BY <1>3, <1>4, <2>2 DEF Steady
    <3>3. Fewer(q) /\ More(q)
      BY <2>2, <3>1 DEF Fewer, More, Asks
    <3>4. QED
      BY <3>1, <3>2, <3>3, CarryKept
  <2>3. QED
    BY <2>1, <2>2
<1>8. ASSUME NEW r \in requests' PROVE RequestOf(r)'
  <2>1. CASE r \in requests
    <3>1. RequestOf(r) /\ r.prompt \in Prompt \cup {None} /\ (r.kind \in PromptKinds => r.prompt \in Prompt)
      BY <2>1, AskFacts
    <3>2. Late(r) => slot'[r.node] = None /\ Renewed(r.node)'
      BY <3>1, LateFacts DEF Renewed, threadVars, linkVars
    <3>3. r.prompt # None /\ Done(r.prompt) => Done(r.prompt)'
      BY <1>3, <3>1
    <3>4. r.kind = "thread start" /\ r.current => Holds(r.prompt)'
      BY <1>4, <3>1 DEF RequestOf, PromptKinds
    <3>5. r.kind = "resume prompt" => r.node \notin hydrating'
      BY <3>1 DEF RequestOf
    <3>6. QED
      BY <3>1, <3>2, <3>3, <3>4, <3>5, AskKept
  <2>2. CASE r = a
    <3>1. r.kind \in PromptKinds /\ r.prompt # None /\ r.current /\ r.prompt = p
      BY <1>2, <2>2
    <3>2. r.kind \in HistoryKinds => r.kind = "resume prompt"
      BY <3>1 DEF PromptKinds, HistoryKinds
    <3>3. r.kind \notin {"turns", "history"} \/ r.current
      BY <3>1
    <3>4. r.kind = "thread start" => r.node \in Draft /\ Holds(r.prompt)'
      BY <1>4, <2>2
    <3>5. r.kind = "resume prompt" => r.node \in Thread \ hydrating'
      BY <2>2
    <3>6. QED
      BY <3>1, <3>2, <3>4, <3>5 DEF RequestOf
  <2>3. QED
    BY <2>1, <2>2
<1>9. ASSUME NEW d \in creating' PROVE CreatingOf(d)'
  <2>1. d \in creating /\ d \in Draft /\ d \in Node /\ slot'[d] = slot[d] /\ live' = live
    BY DEF threadVars, PipelineInv, PipelineTypes, WorkTypes, Node
  <2>2. CreatingOf(d)
    BY <2>1 DEF PipelineInv, CreatingInv
  <2>3. CASE \E r \in requests : r.kind = "thread start" /\ r.node = d /\ r.prompt = slot[d]
    BY <2>1, <2>2, <2>3 DEF CreatingOf
  <2>4. CASE command # None /\ command.prompt = slot[d] /\ command.creates
    <3>1. slot[d] = p /\ a.kind = "thread start"
      BY <1>1, <2>4
    <3>2. Holds(p) /\ prompt[p].home = d
      BY <2>1, <3>1, HolderFacts DEF PipelineInv
    <3>3. a \in requests' /\ a.node = d /\ a.prompt = slot'[d]
      BY <1>1, <2>1, <3>1, <3>2
    <3>4. QED
      BY <2>1, <2>2, <3>1, <3>3 DEF CreatingOf
  <2>5. QED
    BY <2>2, <2>3, <2>4 DEF CreatingOf
<1>10. QED
  BY <1>5, <1>6, <1>7, <1>8, <1>9 DEF CarryInv, AskInv, CreatingInv

(* The prompt in hand becomes a request of a new kind for it.              *)
LEMMA DispatchAsks ==
  ASSUME PipelineInv, NEW n \in Node, NEW p \in Prompt, InHand(n, p), Usable,
         NEW kind \in {"thread start", "resume prompt"}, requests' = requests \cup {About(kind, n, p)},
         command' = None, UNCHANGED <<promptVars, threadVars, hydrationVars, linkVars>>,
         kind = "thread start" <=> command.creates,
         kind = "resume prompt" => n \in Thread \ hydrating
  PROVE  PipelineInv'
<1> DEFINE a == About(kind, n, p)
<1>1. /\ a \in RequestRecord /\ a.kind = kind /\ a.node = n /\ a.prompt = p /\ a.current
      /\ a.kind \in PromptKinds
  BY DEF About, RequestRecord, PromptKinds
<1>2. /\ ~prompt[p].sent /\ command # None /\ command.prompt = p /\ command.node = n
  BY InHandFacts
<1>3. kind = "thread start" => n \in Draft /\ Holds(p)
  BY <1>2 DEF PipelineInv, PipelineTypes, CommandInv, WorkTypes
<1>4. (Holds(p)' <=> Holds(p)) /\ prompt' = prompt /\ (Done(p) => Done(p)')
  BY DEF Holds, Done, promptVars
<1>5. CarryInv' /\ AskInv' /\ CommandInv' /\ CreatingInv' /\ LinkInv'
  BY <1>1, <1>2, <1>3, <1>4, AskedKept DEF promptVars, hydrationVars
<1>6. WorkInv'
  BY IdleWork DEF PipelineInv, threadVars
<1>7. OtherTypes'
  BY <1>1 DEF PipelineInv, PipelineTypes, OtherTypes, ThreadTypes, HydrationTypes, RequestTypes,
              LinkTypes, threadVars, hydrationVars, linkVars
<1>8. QED
  BY <1>5, <1>6, <1>7, InvNext DEF WayInv

(* thread/start is sent for the prompt in hand.                            *)
LEMMA DispatchThreadStartInv ==
  ASSUME PipelineInv, NEW n \in Node, NEW p \in Prompt, DispatchThreadStart(n, p)
  PROVE  PipelineInv'
<1>1. /\ InHand(n, p) /\ Usable /\ command.creates /\ command' = None
      /\ requests' = requests \cup {About("thread start", n, p)}
      /\ UNCHANGED <<promptVars, threadVars, hydrationVars, linkVars>>
  BY DEF DispatchThreadStart
<1>2. QED
  BY <1>1, DispatchAsks

(* thread/resume is sent for the prompt in hand.                           *)
LEMMA DispatchResumeInv ==
  ASSUME PipelineInv, NEW n \in Node, NEW p \in Prompt, DispatchResume(n, p)
  PROVE  PipelineInv'
<1>1. /\ InHand(n, p) /\ Usable /\ ~command.creates /\ command' = None /\ n \in Thread \ hydrating
      /\ requests' = requests \cup {About("resume prompt", n, p)}
      /\ UNCHANGED <<promptVars, threadVars, hydrationVars, linkVars>>
  BY DEF DispatchResume, Open, NeedsResume
<1>2. QED
  BY <1>1, DispatchAsks

(* The turn of the prompt in hand is sent.                                 *)
LEMMA DispatchTurnInv ==
  ASSUME PipelineInv, NEW n \in Node, NEW p \in Prompt, DispatchTurn(n, p)
  PROVE  PipelineInv'
<1> DEFINE a == About("turn", n, p)
           s == IF PromptLive(p) THEN [prompt[p] EXCEPT !.state = "inFlight", !.sent = TRUE]
                ELSE prompt[p]
<1>1. /\ a \in RequestRecord /\ a.kind = "turn" /\ a.node = n /\ a.prompt = p /\ a.current
      /\ a.kind \in PromptKinds
  BY DEF About, RequestRecord, PromptKinds
<1>2. /\ InHand(n, p) /\ Usable /\ ~command.creates /\ command' = None
      /\ requests' = requests \cup {a} /\ prompt' = [prompt EXCEPT ![p] = s]
      /\ resumed' = resumed \ {p}
      /\ UNCHANGED <<queue, slot, creating, threadVars, hydrating, interactive, parked, linkVars>>
  BY DEF DispatchTurn, Open
<1>3. Holds(p) \/ Done(p)
  BY <1>2, InHandFacts
<1>4. /\ prompt \in [Prompt -> PromptRecord] /\ prompt[p] \in PromptRecord
      /\ prompt'[p] = s /\ \A q \in Prompt \ {p} : prompt'[q] = prompt[q]
  BY <1>2 DEF PipelineInv, PipelineTypes, WorkTypes
<1>5. (Holds(p)' <=> Holds(p)) /\ s.home = prompt[p].home /\ (Done(p) => Done(p)')
  <2>1. CASE PromptLive(p)
    <3>1. s.state = "inFlight" /\ s.home = prompt[p].home /\ s.recovery = prompt[p].recovery
      BY <1>4, <2>1 DEF PromptRecord
    <3>2. Done(p) => prompt[p].recovery
      BY <2>1 DEF Done, PromptLive
    <3>3. QED
      BY <1>3, <1>4, <3>1, <3>2 DEF Holds, Done
  <2>2. CASE ~PromptLive(p)
    BY <1>4, <2>2 DEF Holds, Done
  <2>3. QED
    BY <2>1, <2>2
<1>6. CarryInv' /\ AskInv' /\ CommandInv' /\ CreatingInv' /\ LinkInv'
  BY <1>1, <1>2, <1>4, <1>5, AskedKept
<1>7. WorkInv'
  BY <1>3, TurnWork DEF PipelineInv, Done
<1>8. OtherTypes'
  BY <1>1, <1>2 DEF PipelineInv, PipelineTypes, OtherTypes, ThreadTypes, HydrationTypes, RequestTypes,
              LinkTypes, threadVars, linkVars
<1>9. QED
  BY <1>6, <1>7, <1>8, InvNext DEF WayInv

(* The prompt waits for the hydration of its thread.  A prompt it displaces *)
(* has no claim to the slot.                                               *)
LEMMA DispatchParkedInv ==
  ASSUME PipelineInv, NEW n \in Node, NEW p \in Prompt, DispatchParked(n, p)
  PROVE  PipelineInv'
<1>1. /\ InHand(n, p) /\ ~command.creates /\ n \in hydrating /\ command' = None
      /\ parked' = [parked EXCEPT ![n] = p]
      /\ UNCHANGED <<promptVars, threadVars, hydrating, interactive, resumed, requests, linkVars>>
  BY DEF DispatchParked
<1>2. /\ \A t \in Thread : parked[t] # p
      /\ \A r \in requests : ~Asks(r, p)
      /\ Holds(p) \/ Done(p)
      /\ Holds(p) => prompt[p].home = n
      /\ command # None /\ command.prompt = p /\ command.node = n /\ ~prompt[p].sent
      /\ \A q \in Prompt : Commanded(q) => q = p
  BY <1>1, InHandFacts
<1>3. n \in Thread /\ OtherTypes /\ parked \in [Thread -> Prompt \cup {None}]
  BY <1>1, InvParts DEF OtherTypes, HydrationTypes
<1>4. None \notin Prompt
  BY NamesAssumption, MaxPromptsAssumption DEF Prompt
<1>5. WorkInv'
  BY <1>1, IdleWork DEF PipelineInv, threadVars
<1>6. CommandInv' /\ LinkInv'
  BY <1>1 DEF PipelineInv, CommandInv, LinkInv, threadVars, linkVars
<1>7. ASSUME NEW r \in requests' PROVE RequestOf(r)'
  BY <1>1, <1>7, AskFacts
  DEF RequestOf, Holds, Done, promptVars, threadVars, linkVars
<1>8. ASSUME NEW d \in creating' PROVE CreatingOf(d)'
  BY <1>1, <1>8 DEF PipelineInv, CreatingInv, CreatingOf, promptVars, threadVars
<1>9. ASSUME NEW q \in Prompt PROVE CarryOf(q)'
  <2>1. CarryOf(q) /\ Steady(q)
    BY <1>1 DEF PipelineInv, CarryInv, Steady, Holds, Done, promptVars
  <2>2. CASE q = p
    <3>1. parked'[n] = q /\ ~Commanded(q)' /\ \A u \in Thread : parked'[u] = q => u = n
      BY <1>1, <1>2, <1>3, <2>2 DEF Commanded
    <3>2. \A r \in requests' : ~Asks(r, q)
      BY <1>1, <1>2, <2>2
    <3>3. (Holds(q)' \/ Done(q)') /\ (Holds(q)' => n = prompt'[q].home) /\ ~prompt'[q].sent
      BY <1>2, <2>1, <2>2 DEF Steady
    <3>4. QED
      BY <1>3, <3>1, <3>2, <3>3, CarryParked
  <2>3. CASE q # p
    <3>1. ~Commanded(q) /\ ~Commanded(q)'
      BY <1>1, <1>2, <2>3 DEF Commanded
    <3>2. Fewer(q)
      BY <1>1, <1>3, <2>3, <3>1 DEF Fewer
    <3>3. Holds(q) => parked[n] # q
      <4> SUFFICES ASSUME Holds(q), parked[n] = q PROVE FALSE
        OBVIOUS
      <4>1. Holds(p)
        BY <1>1, <1>2, <1>3, <1>4 DEF PipelineInv, CommandInv
      <4>2. prompt[q].home = n
        BY <1>3, <2>1 DEF CarryOf
      <4>3. slot[n] = p /\ slot[n] = q
        BY <1>2, <4>1, <4>2, HolderFacts DEF PipelineInv
      <4>4. QED
        BY <2>3, <4>3
    <3>4. Holds(q) => More(q)
      BY <1>1, <1>3, <3>1, <3>3 DEF More
    <3>5. QED
      BY <2>1, <3>2, <3>4, CarryKept
  <2>4. QED
    BY <2>2, <2>3
<1>10. WayInv'
  BY <1>5, <1>6, <1>7, <1>8, <1>9 DEF WayInv, CarryInv, AskInv, CreatingInv
<1>11. OtherTypes'
  BY <1>1, <1>3 DEF OtherTypes, ThreadTypes, HydrationTypes, RequestTypes, LinkTypes, threadVars, linkVars
<1>12. QED
  BY <1>10, <1>11, InvNext

----------------------------------------------------------------------------
(* The user *)

(* A new prompt is settled by nothing.                                     *)
LEMMA NewUncarried ==
  ASSUME PipelineInv, NEW p \in Prompt, prompt[p].state = "new"
  PROVE  ~Carried(p) /\ ~Holds(p) /\ ~Done(p)
<1>1. CarryOf(p) /\ WellFormed(prompt[p]) /\ ~NewPrompt.recovery
  BY DEF PipelineInv, WorkInv, StateInv, CarryInv, NewPrompt
<1>2. ~Holds(p) /\ ~Done(p)
  BY <1>1 DEF WellFormed, Holds, Done
<1>3. QED
  BY <1>1, <1>2 DEF CarryOf

(* A step of the user changes one prompt, and a command for no other is in *)
(* hand.                                                                   *)
LEMMA UserCarry ==
  ASSUME PipelineInv, Idle, NEW p \in Prompt, prompt[p].state = "new",
         \A q \in Prompt \ {p} : prompt'[q] = prompt[q],
         parked' = parked, requests' = requests,
         command' # None => command'.prompt = p,
         \/ command' # None /\ Holds(p)' /\ command'.node = prompt'[p].home /\ ~prompt'[p].sent
         \/ command' = None /\ ~Holds(p)'
  PROVE  CarryInv'
<1>1. ~Carried(p)
  BY NewUncarried
<1>2. ASSUME NEW q \in Prompt PROVE CarryOf(q)'
  <2>1. CASE q = p /\ command' # None
    <3>1. Commanded(q)' /\ \A t \in Thread : parked'[t] # q
      BY <1>1, <2>1 DEF Commanded, Carried
    <3>2. \A r \in requests' : ~Asks(r, q)
      BY <1>1, <2>1 DEF Carried
    <3>3. QED
      BY <2>1, <3>1, <3>2, CarryCommanded
  <2>2. CASE q = p /\ command' = None
    <3>1. Free(q)
      BY <1>1, <2>2 DEF Free, Carried, Commanded
    <3>2. QED
      BY <2>2, <3>1, CarryNone
  <2>3. CASE q # p
    <3>1. CarryOf(q) /\ ~Commanded(q) /\ ~Commanded(q)'
      BY <2>3 DEF PipelineInv, CarryInv, Commanded, Idle
    <3>2. Steady(q)
      BY <2>3 DEF Steady, Holds, Done
    <3>3. Fewer(q) /\ More(q)
      BY <3>1 DEF Fewer, More
    <3>4. QED
      BY <3>1, <3>2, <3>3, CarryKept
  <2>4. QED
    BY <2>1, <2>2, <2>3
<1>3. QED
  BY <1>2 DEF CarryInv

(* Requests are about prompts that have been admitted, and a read whose    *)
(* operation node is gone is about no thread that takes prompts.           *)
LEMMA UserAsks ==
  ASSUME PipelineInv, NEW p \in Prompt, prompt[p].state = "new",
         \A q \in Prompt \ {p} : prompt'[q] = prompt[q], requests' = requests,
         NEW n, \A m \in Node \ {n} : slot'[m] = slot[m],
         n \in Thread /\ slot'[n] # slot[n] => n \in live /\ hydration[n] # "loading",
         UNCHANGED <<retired, hydration, hydrating, connected>>,
         \A t \in Thread : t \in live' <=> t \in live
  PROVE  AskInv'
<1>1. ~Holds(p) /\ ~Done(p)
  BY NewUncarried
<1>2. ASSUME NEW r \in requests' PROVE RequestOf(r)'
  <2>1. /\ RequestOf(r) /\ r.node \in Node /\ r.prompt \in Prompt \cup {None}
        /\ r.kind \in PromptKinds => r.prompt \in Prompt
        /\ Late(r) => Renewed(r.node) /\ r.node \in Thread
    BY AskFacts
  <2>2. r.prompt # None /\ Done(r.prompt) => Done(r.prompt)'
    BY <1>1, <2>1 DEF Done
  <2>3. r.kind = "thread start" /\ r.current => Holds(r.prompt)'
    <3>1. r.kind = "thread start" /\ r.current => Holds(r.prompt) /\ r.prompt \in Prompt
      BY <2>1 DEF RequestOf, PromptKinds
    <3>2. QED
      BY <1>1, <3>1 DEF Holds
  <2>4. ASSUME Late(r) PROVE slot'[r.node] = None /\ Renewed(r.node)'
    <3>1. slot[r.node] = None /\ Renewed(r.node) /\ r.node \in Thread
      BY <2>1, <2>4, LateFacts
    <3>2. r.node = n => slot'[n] = slot[n]
      BY <3>1 DEF Renewed
    <3>3. slot'[r.node] = slot[r.node]
      BY <2>1, <3>2
    <3>4. Renewed(r.node)'
      BY <3>1 DEF Renewed
    <3>5. QED
      BY <3>1, <3>3, <3>4
  <2>5. r.kind = "resume prompt" => r.node \notin hydrating'
    BY <2>1 DEF RequestOf
  <2>6. QED
    BY <2>1, <2>2, <2>3, <2>4, <2>5, AskKept
<1>3. QED
  BY <1>2 DEF AskInv

(* A prompt that finds no destination fails.                               *)
LEMMA SubmitRefusedInv ==
  ASSUME PipelineInv, Idle, NEW p \in Prompt, NextNew(p),
         prompt' = [prompt EXCEPT ![p] = Lost(NewPrompt)], command' = None,
         UNCHANGED <<queue, slot, creating, threadVars, hydrationVars, requests, linkVars>>
  PROVE  PipelineInv'
<1>1. prompt[p].state = "new" /\ WorkInv /\ OtherTypes /\ prompt \in [Prompt -> PromptRecord]
  BY InvParts DEF NextNew, PipelineInv, WorkInv, WorkTypes
<1>2. prompt'[p] = Lost(NewPrompt) /\ \A q \in Prompt \ {p} : prompt'[q] = prompt[q]
  BY <1>1
<1>3. ~Holds(p)'
  BY <1>2, NewFacts, FailedFacts DEF Holds
<1>4. WorkInv'
  BY <1>1, RefusedWork DEF threadVars
<1>5. CarryInv'
  BY <1>1, <1>2, <1>3, UserCarry DEF hydrationVars
<1>6. AskInv'
  <2>1. \A m \in Node \ {None} : slot'[m] = slot[m]
    OBVIOUS
  <2>2. None \notin Thread
    BY NamesAssumption
  <2>3. QED
    BY <1>1, <1>2, <2>1, <2>2, UserAsks DEF threadVars, hydrationVars, linkVars
<1>7. ASSUME NEW d \in creating' PROVE CreatingOf(d)'
  BY <1>7 DEF PipelineInv, CreatingInv, CreatingOf, threadVars, Idle
<1>8. CommandInv' /\ LinkInv'
  BY DEF PipelineInv, CommandInv, LinkInv, threadVars, linkVars
<1>9. OtherTypes'
  BY <1>1 DEF OtherTypes, ThreadTypes, HydrationTypes, RequestTypes, LinkTypes, threadVars,
              hydrationVars, linkVars
<1>10. QED
  BY <1>4, <1>5, <1>6, <1>7, <1>8, <1>9, InvNext DEF WayInv, CreatingInv

(* A prompt is admitted to n, which may be a draft it brings along.        *)
LEMMA AdmittedInv ==
  ASSUME PipelineInv, Idle, NEW p \in Prompt, NextNew(p), NEW n \in Node, NEW creates \in BOOLEAN,
         Enqueue(p, n, creates), live' = live \cup {n}, creates => n \in creating',
         creating' \subseteq creating \cup {n}, creating' \subseteq Draft,
         n \in creating' => n \in creating \/ (creates /\ n \notin live),
         creates => n \notin live, n \in Thread => n \in live /\ hydration[n] # "loading",
         UNCHANGED <<retired, loaded, hydration, hydrationVars, requests, linkVars>>
  PROVE  PipelineInv'
<1>1. prompt[p].state = "new" /\ WorkInv /\ OtherTypes /\ prompt \in [Prompt -> PromptRecord]
      /\ slot \in [Node -> Prompt \cup {None}] /\ live \subseteq Node
  BY InvParts DEF NextNew, PipelineInv, WorkInv, WorkTypes, OtherTypes, ThreadTypes
<1>2. Taken(p, n, creates) \/ Joined(p, n, creates)
  BY <1>1, EnqueueFacts
<1>3. creates => Taken(p, n, creates)
  <2>1. n \notin live => slot[n] = None
    BY <1>1 DEF WorkInv, PlaceInv, PlaceOf
  <2>2. QED
    BY <1>2, <2>1 DEF Joined
<1>4. None \notin Prompt /\ LinkInv'
  <2>1. None \notin Prompt
    BY NamesAssumption, MaxPromptsAssumption DEF Prompt
  <2>2. LinkInv'
    BY DEF PipelineInv, LinkInv, linkVars
  <2>3. QED
    BY <2>1, <2>2
<1>5. ASSUME Taken(p, n, creates) PROVE WayInv'
  <2> DEFINE e == Entry(n, creates, "dispatching")
  <2>1. /\ prompt' = [prompt EXCEPT ![p] = e] /\ slot' = [slot EXCEPT ![n] = p]
        /\ command' = Command(p, n, creates)
    BY <1>5 DEF Taken
  <2>2. e.state = "dispatching" /\ e.home = n /\ ~e.recovery /\ ~e.sent
    BY EntryFacts DEF States
  <2>3. prompt'[p] = e /\ \A q \in Prompt \ {p} : prompt'[q] = prompt[q]
    BY <1>1, <2>1
  <2>4. /\ command' # None /\ command'.prompt = p /\ command'.node = n
        /\ command'.creates = creates
    BY <2>1, CommandFacts
  <2>5. Holds(p)' /\ prompt'[p].home = n /\ ~prompt'[p].sent
    BY <2>2, <2>3 DEF Holds
  <2>6. WorkInv'
    BY <1>1, <1>5, AdmittedWork
  <2>7. CarryInv'
    BY <1>1, <2>3, <2>4, <2>5, UserCarry DEF hydrationVars
  <2>8. AskInv'
    <3>1. \A m \in Node \ {n} : slot'[m] = slot[m]
      BY <1>1, <2>1
    <3>2. \A t \in Thread : t \in live' <=> t \in live
      OBVIOUS
    <3>3. QED
      BY <1>1, <2>3, <3>1, <3>2, UserAsks DEF hydrationVars, linkVars
  <2>9. CommandInv'
    BY <2>4, <2>5 DEF CommandInv
  <2>10. ASSUME NEW d \in creating' PROVE CreatingOf(d)'
    <3>1. CASE d = n /\ d \notin creating
      <4>1. creates
        BY <3>1, <2>10
      <4>2. slot'[d] = p /\ d \in live'
        BY <1>1, <2>1, <3>1
      <4>3. QED
        BY <1>4, <2>4, <4>1, <4>2 DEF CreatingOf
    <3>2. CASE d \in creating
      <4>1. CreatingOf(d)
        BY <3>2 DEF PipelineInv, CreatingInv
      <4>2. d # n
        BY <1>5, <4>1 DEF CreatingOf, Taken
      <4>3. d \in Node /\ slot'[d] = slot[d]
        BY <1>1, <2>1, <3>2, <4>2 DEF WorkInv, WorkTypes, Node
      <4>4. QED
        BY <4>1, <4>3 DEF CreatingOf, Idle
    <3>3. QED
      BY <3>1, <3>2
  <2>11. QED
    BY <1>4, <2>6, <2>7, <2>8, <2>9, <2>10 DEF WayInv, CreatingInv
<1>6. ASSUME Joined(p, n, creates) PROVE WayInv'
  <2> DEFINE e == Entry(n, creates, "queued")
  <2>1. /\ prompt' = [prompt EXCEPT ![p] = e] /\ slot' = slot /\ command' = None /\ ~creates
    BY <1>2, <1>3, <1>6 DEF Joined, Taken
  <2>2. e.state = "queued"
    BY EntryFacts DEF States
  <2>3. prompt'[p] = e /\ \A q \in Prompt \ {p} : prompt'[q] = prompt[q]
    BY <1>1, <2>1
  <2>4. ~Holds(p)'
    BY <2>2, <2>3 DEF Holds
  <2>5. WorkInv'
    BY <1>1, <1>6, <2>1, AdmittedWork
  <2>6. CarryInv'
    BY <1>1, <2>1, <2>3, <2>4, UserCarry DEF hydrationVars
  <2>7. AskInv'
    <3>1. \A t \in Thread : t \in live' <=> t \in live
      OBVIOUS
    <3>2. QED
      BY <1>1, <2>1, <2>3, <3>1, UserAsks DEF hydrationVars, linkVars
  <2>8. CommandInv'
    BY <2>1 DEF CommandInv
  <2>9. ASSUME NEW d \in creating' PROVE CreatingOf(d)'
    <3>1. d \in creating
      BY <2>1, <2>9
    <3>2. QED
      BY <2>1, <3>1 DEF PipelineInv, CreatingInv, CreatingOf, Idle
  <2>10. QED
    BY <1>4, <2>5, <2>6, <2>7, <2>8, <2>9 DEF WayInv, CreatingInv
<1>7. OtherTypes'
  BY <1>1 DEF OtherTypes, ThreadTypes, HydrationTypes, RequestTypes, LinkTypes, hydrationVars, linkVars
<1>8. QED
  BY <1>2, <1>5, <1>6, <1>7, InvNext

(* The user sends a prompt.                                                *)
LEMMA SubmitPromptInv ==
  ASSUME PipelineInv, NEW p \in Prompt, NEW n \in Node \cup {Recovery}, SubmitPrompt(p, n)
  PROVE  PipelineInv'
<1>1. /\ Idle /\ NextNew(p)
      /\ UNCHANGED <<creating, threadVars, hydrationVars, requests, linkVars>>
  BY DEF SubmitPrompt
<1>2. CASE n \notin live \/ Unready(n)
  <2>1. prompt' = [prompt EXCEPT ![p] = Lost(NewPrompt)] /\ command' = None /\ UNCHANGED <<queue, slot>>
    BY <1>2 DEF SubmitPrompt
  <2>2. QED
    BY <1>1, <2>1, SubmitRefusedInv
<1>3. CASE ~(n \notin live \/ Unready(n))
  <2>1. Enqueue(p, n, FALSE)
    BY <1>3 DEF SubmitPrompt
  <2>2. n \in live /\ n \in Node /\ live' = live \cup {n} /\ creating \subseteq Draft
    BY <1>1, <1>3 DEF PipelineInv, PipelineTypes, ThreadTypes, WorkTypes, threadVars
  <2>3. n \in Thread => hydration[n] # "loading"
    BY <1>3 DEF Unready
  <2>4. QED
    BY <1>1, <2>1, <2>2, <2>3, AdmittedInv DEF threadVars
<1>4. QED
  BY <1>2, <1>3

(* The user sends the first prompt of a draft, or one that joins it.       *)
LEMMA SubmitFirstPromptInv ==
  ASSUME PipelineInv, NEW p \in Prompt, NEW d \in Draft, SubmitFirstPrompt(p, d)
  PROVE  PipelineInv'
<1> DEFINE creates == d \notin creating
<1>1. /\ Idle /\ NextNew(p) /\ Enqueue(p, d, creates) /\ (d \in creating \/ d \notin live)
      /\ creating' = creating \cup {d} /\ live' = live \cup {d} /\ creates \in BOOLEAN
      /\ UNCHANGED <<retired, loaded, hydration, hydrationVars, requests, linkVars>>
  BY DEF SubmitFirstPrompt
<1>2. d \in Node /\ d \notin Thread /\ creating' \subseteq Draft
  BY <1>1, NamesAssumption DEF Node, PipelineInv, PipelineTypes, WorkTypes
<1>3. QED
  BY <1>1, <1>2, AdmittedInv

(* Qt shows the provider's item of a prompt.                               *)
LEMMA PromptMaterializedInv ==
  ASSUME PipelineInv, NEW p \in Prompt, PromptMaterialized(p)
  PROVE  PipelineInv'
<1>1. /\ Idle /\ PromptLive(p) /\ prompt[p].sent
      /\ UNCHANGED <<creating, command, threadVars, hydrationVars, requests, linkVars>>
  BY DEF PromptMaterialized
<1>2. WorkInv' /\ queue' = queue /\ slot' = slot
  BY MaterializedWork DEF PipelineInv
<1>3. PICK r \in PromptRecord :
        /\ prompt' = [prompt EXCEPT ![p] = r]
        /\ r.sent
        /\ \/ /\ r.state = prompt[p].state /\ r.home = prompt[p].home
              /\ r.recovery = prompt[p].recovery
           \/ r.state = "gone" /\ ~Holds(p)
  BY MaterializedWork DEF PipelineInv
<1>4. prompt'[p] = r /\ \A q \in Prompt \ {p} : prompt'[q] = prompt[q]
  BY <1>3 DEF PipelineInv, PipelineTypes, WorkTypes
<1>5. ASSUME NEW q \in Prompt PROVE Steady(q)
  <2>1. CASE q = p
    BY <1>1, <1>3, <1>4, <2>1 DEF Steady, Holds, Done
  <2>2. CASE q # p
    BY <1>4, <2>2 DEF Steady, Holds, Done
  <2>3. QED
    BY <2>1, <2>2
<1>6. ASSUME NEW q \in Prompt PROVE CarryOf(q)'
  <2>1. Fewer(q) /\ More(q) /\ CarryOf(q)
    BY <1>1 DEF Fewer, More, Commanded, Idle, hydrationVars, PipelineInv, CarryInv
  <2>2. QED
    BY <1>5, <2>1, CarryKept
<1>7. ASSUME NEW q \in requests' PROVE RequestOf(q)'
  <2>1. q \in requests
    BY <1>1
  <2>2. /\ RequestOf(q) /\ q.prompt \in Prompt \cup {None}
        /\ q.kind \in PromptKinds => q.prompt \in Prompt
    BY <2>1, AskFacts
  <2>3. q.prompt # None /\ Done(q.prompt) => Done(q.prompt)'
    BY <1>5, <2>2 DEF Steady
  <2>4. q.kind = "thread start" /\ q.current => Holds(q.prompt)'
    <3>1. q.kind = "thread start" /\ q.current => Holds(q.prompt) /\ q.prompt \in Prompt
      BY <2>2 DEF RequestOf, PromptKinds
    <3>2. QED
      BY <1>5, <3>1 DEF Steady
  <2>5. q.kind = "resume prompt" => q.node \notin hydrating'
    BY <1>1, <2>2 DEF RequestOf, hydrationVars
  <2>6. Late(q) => slot'[q.node] = None /\ Renewed(q.node)'
    BY <1>1, <1>2, <2>2, LateFacts DEF Renewed, threadVars, linkVars
  <2>7. QED
    BY <2>2, <2>3, <2>4, <2>5, <2>6, AskKept
<1>8. CommandInv' /\ LinkInv'
  BY <1>1 DEF PipelineInv, CommandInv, LinkInv, Idle, threadVars, linkVars
<1>9. CreatingInv'
  BY <1>1, <1>2 DEF PipelineInv, CreatingInv, CreatingOf, threadVars
<1>10. OtherTypes'
  BY <1>1 DEF PipelineInv, PipelineTypes, OtherTypes, ThreadTypes, HydrationTypes, RequestTypes,
              LinkTypes, threadVars, hydrationVars, linkVars
<1>11. QED
  BY <1>2, <1>6, <1>7, <1>8, <1>9, <1>10, InvNext DEF WayInv, CarryInv, AskInv

----------------------------------------------------------------------------
(* The thread of a draft is there *)

(* The prompt that brought the draft along holds its slot.                 *)
LEMMA CreatorFacts ==
  ASSUME PipelineInv, NEW r \in requests, r.kind = "thread start", r.current
  PROVE  /\ r.prompt \in Prompt /\ r.node \in Draft /\ Holds(r.prompt)
         /\ prompt[r.prompt].home = r.node /\ Asks(r, r.prompt) /\ connected
<1>1. RequestOf(r) /\ connected /\ r.prompt \in Prompt
  BY AskFacts DEF PromptKinds
<1>2. CarryOf(r.prompt) /\ Asks(r, r.prompt)
  BY <1>1 DEF PipelineInv, CarryInv, Asks
<1>3. r.node \in Draft /\ Holds(r.prompt)
  BY <1>1 DEF RequestOf
<1>4. QED
  BY <1>1, <1>2, <1>3 DEF CarryOf

(* A thread is created and takes over what its draft held.                 *)
LEMMA CreateThreadInv ==
  ASSUME PipelineInv, NEW r \in requests, NEW t \in Thread, CreateThread(r, t)
  PROVE  PipelineInv'
<1> DEFINE p == r.prompt
           d == r.node
<1>1. /\ Idle /\ r.kind = "thread start" /\ r.current
      /\ \A q \in On(t) : q.current
      /\ live' = (live \cup {t}) \ {d} /\ loaded' = loaded \cup {t}
      /\ hydration' = [hydration EXCEPT ![t] = "ready"]
      /\ creating' = creating \ {d} /\ command' = Command(p, t, FALSE)
      /\ requests' = requests \ {r} /\ UNCHANGED <<retired, hydrationVars, linkVars>>
  BY DEF CreateThread, Requests
<1>2. /\ p \in Prompt /\ d \in Draft /\ Holds(p) /\ prompt[p].home = d /\ Asks(r, p)
      /\ connected /\ OtherTypes
  BY <1>1, CreatorFacts, InvParts
<1>3. t \in Node /\ d \in Node /\ t # d /\ FALSE \in BOOLEAN
  BY <1>2, NamesAssumption DEF Node
<1>4. WorkInv'
      /\ slot[d] = p /\ slot'[t] = p /\ slot'[d] = None
      /\ \A m \in Node \ {d, t} : slot'[m] = slot[m]
  BY <1>2, CreatedWork DEF PipelineInv
<1>5. \A q \in Prompt :
        /\ prompt'[q].state = prompt[q].state
        /\ prompt'[q].recovery = prompt[q].recovery /\ prompt'[q].sent = prompt[q].sent
        /\ prompt'[q].home = IF prompt[q].home = d THEN t ELSE prompt[q].home
  BY <1>2, CreatedWork DEF PipelineInv
<1>6. command' # None /\ command'.prompt = p /\ command'.node = t /\ ~command'.creates
  BY <1>1, <1>2, <1>3, CommandFacts
<1>7. \A q \in Prompt : (Holds(q)' <=> Holds(q)) /\ (Done(q) => Done(q)')
  BY <1>5 DEF Holds, Done
<1>8. ASSUME NEW q \in Prompt PROVE CarryOf(q)'
  <2>1. CarryOf(q)
    BY DEF PipelineInv, CarryInv
  <2>2. CASE q = p
    <3>1. Commanded(q)' /\ \A u \in Thread : parked'[u] # q
      BY <1>1, <1>2, <1>6, <2>1, <2>2 DEF CarryOf, Commanded, hydrationVars
    <3>2. \A s \in requests' : ~Asks(s, q)
      BY <1>1, <1>2, <2>1, <2>2 DEF CarryOf
    <3>3. Holds(q)' /\ command'.node = prompt'[q].home
      BY <1>2, <1>5, <1>6, <1>7, <2>2
    <3>4. ~prompt'[q].sent
      BY <1>1, <1>2, <1>5, <2>1, <2>2 DEF CarryOf
    <3>5. QED
      BY <3>1, <3>2, <3>3, <3>4, CarryCommanded
  <2>3. CASE q # p
    <3>1. Holds(q) => prompt[q].home # d
      BY <1>3, <1>4, <2>3, HolderFacts DEF PipelineInv
    <3>2. Steady(q)
      BY <1>5, <1>7, <3>1 DEF Steady
    <3>3. ~Commanded(q) /\ ~Commanded(q)'
      BY <1>1, <1>6, <2>3 DEF Commanded, Idle
    <3>4. Fewer(q) /\ More(q)
      BY <1>1, <2>3, <3>3 DEF Fewer, More, Asks, hydrationVars
    <3>5. QED
      BY <2>1, <3>2, <3>4, CarryKept
  <2>4. QED
    BY <2>2, <2>3
<1>9. ASSUME NEW q \in requests' PROVE RequestOf(q)'
  <2>1. q \in requests
    BY <1>1
  <2>2. /\ RequestOf(q) /\ q.prompt \in Prompt \cup {None} /\ q.node \in Node
        /\ q.kind \in PromptKinds => q.prompt \in Prompt
        /\ Late(q) => Renewed(q.node) /\ q.node \in Thread
    BY <2>1, AskFacts
  <2>3. q.prompt # None /\ Done(q.prompt) => Done(q.prompt)'
    BY <1>7, <2>2
  <2>4. q.kind = "thread start" /\ q.current => Holds(q.prompt)'
    BY <1>7, <2>2 DEF RequestOf, PromptKinds
  <2>5. q.kind = "resume prompt" => q.node \notin hydrating'
    BY <1>1, <2>2 DEF RequestOf, hydrationVars
  <2>6. ASSUME Late(q) PROVE slot'[q.node] = None /\ Renewed(q.node)'
    <3>1. slot[q.node] = None /\ Renewed(q.node) /\ q.node \in Thread /\ q.node \in Node
      BY <2>2, <2>6, LateFacts
    <3>2. q.node # t
      BY <1>1, <2>1, <2>6 DEF On, Late
    <3>3. q.node # d
      BY <1>2, <3>1, NamesAssumption
    <3>4. slot'[q.node] = slot[q.node] /\ hydration'[q.node] = hydration[q.node]
      BY <1>1, <1>2, <1>4, <3>1, <3>2, <3>3 DEF OtherTypes, ThreadTypes
    <3>5. q.node \in live' <=> q.node \in live
      BY <1>1, <3>2, <3>3
    <3>6. QED
      BY <1>1, <3>1, <3>4, <3>5 DEF Renewed, linkVars
  <2>7. QED
    BY <2>2, <2>3, <2>4, <2>5, <2>6, AskKept
<1>10. CommandInv'
  BY <1>2, <1>6, <1>7 DEF CommandInv
<1>11. LinkInv'
  BY <1>1, <1>2 DEF PipelineInv, LinkInv, linkVars
<1>12. ASSUME NEW e \in creating' PROVE CreatingOf(e)'
  <2>1. e \in creating /\ e \in Draft /\ e # d /\ e # t /\ e \in Node
    BY <1>1, NamesAssumption DEF PipelineInv, PipelineTypes, WorkTypes, Node
  <2>2. CreatingOf(e)
    BY <2>1 DEF PipelineInv, CreatingInv
  <2>3. slot'[e] = slot[e] /\ e \in live'
    BY <1>1, <1>4, <2>1, <2>2 DEF CreatingOf
  <2>4. PICK q \in requests : q.kind = "thread start" /\ q.node = e /\ q.prompt = slot[e]
    BY <1>1, <2>2 DEF CreatingOf, Idle
  <2>5. q \in requests'
    BY <1>1, <2>1, <2>4
  <2>6. QED
    BY <2>2, <2>3, <2>4, <2>5 DEF CreatingOf
<1>13. WayInv'
  BY <1>4, <1>8, <1>9, <1>10, <1>11, <1>12 DEF WayInv, CarryInv, AskInv, CreatingInv
<1>14. OtherTypes'
  BY <1>1, <1>2, <1>3 DEF OtherTypes, ThreadTypes, HydrationTypes, RequestTypes, LinkTypes,
                          hydrationVars, linkVars
<1>15. QED
  BY <1>13, <1>14, InvNext

----------------------------------------------------------------------------
(* The provider *)

(* A step after which every prompt of t has failed, and nothing else has   *)
(* happened to prompts.                                                    *)
Clears(t) ==
  \A q \in Prompt :
    \/ prompt'[q] = prompt[q] /\ ~(Holds(q) /\ prompt[q].home = t)
    \/ /\ prompt[q].state \notin {"new", "gone"} /\ prompt[q].home = t
       /\ prompt'[q].state = "failed" /\ prompt'[q].recovery /\ prompt'[q].sent = prompt[q].sent

(* A revert clears its thread.                                             *)
LEMMA RevertedClears ==
  ASSUME PipelineInv, NEW t \in Thread, Reverted(t)
  PROVE  Clears(t)
<1> DEFINE unsettled == {p \in Prompt : /\ PromptLive(p) /\ prompt[p].home = t
                                        /\ prompt[p].state # "failed"}
<1>1. prompt' = [p \in Prompt |-> IF p \in unsettled THEN Failed(prompt[p]) ELSE prompt[p]]
  BY DEF Reverted
<1>2. prompt \in [Prompt -> PromptRecord]
  BY DEF PipelineInv, PipelineTypes, WorkTypes
<1>3. ASSUME NEW q \in Prompt, q \in unsettled
      PROVE  /\ prompt[q].state \notin {"new", "gone"} /\ prompt[q].home = t
             /\ prompt'[q].state = "failed" /\ prompt'[q].recovery /\ prompt'[q].sent = prompt[q].sent
  <2>1. prompt'[q] = Failed(prompt[q]) /\ prompt[q] \in PromptRecord
    BY <1>1, <1>2, <1>3
  <2>2. QED
    BY <1>3, <2>1, FailedFacts DEF PromptLive
<1>4. ASSUME NEW q \in Prompt, q \notin unsettled
      PROVE  prompt'[q] = prompt[q] /\ ~(Holds(q) /\ prompt[q].home = t)
  BY <1>1, <1>4 DEF Holds, PromptLive
<1>5. QED
  BY <1>3, <1>4 DEF Clears

(* A deletion clears its thread.                                           *)
LEMMA DeletedClears ==
  ASSUME PipelineInv, NEW t \in Thread, Deleted(t)
  PROVE  Clears(t)
<1>1. prompt' = [p \in Prompt |->
                   IF PromptLive(p) /\ prompt[p].home = t
                   THEN [Lost(prompt[p]) EXCEPT !.materialized = FALSE] ELSE prompt[p]]
  BY DEF Deleted
<1>2. prompt \in [Prompt -> PromptRecord]
  BY DEF PipelineInv, PipelineTypes, WorkTypes
<1>3. ASSUME NEW q \in Prompt, PromptLive(q), prompt[q].home = t
      PROVE  /\ prompt[q].state \notin {"new", "gone"} /\ prompt[q].home = t
             /\ prompt'[q].state = "failed" /\ prompt'[q].recovery /\ prompt'[q].sent = prompt[q].sent
  <2>1. prompt'[q] = [Lost(prompt[q]) EXCEPT !.materialized = FALSE] /\ prompt[q] \in PromptRecord
    BY <1>1, <1>2, <1>3
  <2>2. prompt'[q].state = "failed" /\ prompt'[q].recovery /\ prompt'[q].sent = prompt[q].sent
    BY <2>1, FailedFacts DEF PromptRecord
  <2>3. QED
    BY <1>3, <2>2 DEF PromptLive
<1>4. ASSUME NEW q \in Prompt, ~(PromptLive(q) /\ prompt[q].home = t)
      PROVE  prompt'[q] = prompt[q] /\ ~(Holds(q) /\ prompt[q].home = t)
  BY <1>1, <1>4 DEF Holds, PromptLive
<1>5. QED
  BY <1>3, <1>4 DEF Clears

(* What a step that clears t leaves of a prompt.                           *)
LEMMA ClearsFacts ==
  ASSUME PipelineInv, NEW t \in Thread, Clears(t), NEW q \in Prompt
  PROVE  /\ Done(q) => Done(q)'
         /\ Holds(q) /\ prompt[q].home # t => prompt'[q] = prompt[q] /\ Holds(q)'
         /\ Holds(q) /\ prompt[q].home = t => ~Holds(q)' /\ Done(q)'
         /\ ~Holds(q) => ~Holds(q)'
         /\ prompt'[q].sent => prompt[q].sent
  BY DEF Clears, Holds, Done

(* Carriers after a step that clears t.                                    *)
LEMMA ClearsCarry ==
  ASSUME PipelineInv, Idle, NEW t \in Thread, Clears(t), command' = command, parked' = parked,
         \A r \in requests' : r.current /\ r.prompt \in Prompt => r \in requests,
         \A r \in requests : r.prompt \in Prompt /\ r.node # t => r \in requests'
  PROVE  CarryInv'
<1>1. ASSUME NEW q \in Prompt PROVE CarryOf(q)'
  <2>1. CarryOf(q)
    BY DEF PipelineInv, CarryInv
  <2>2. Fewer(q)
    BY DEF Fewer, Commanded, Idle, Asks
  <2>3. /\ Done(q) => Done(q)'
        /\ Holds(q) /\ prompt[q].home # t => prompt'[q] = prompt[q] /\ Holds(q)'
        /\ Holds(q) /\ prompt[q].home = t => ~Holds(q)' /\ Done(q)'
        /\ ~Holds(q) => ~Holds(q)'
        /\ prompt'[q].sent => prompt[q].sent
    BY ClearsFacts
  <2>4. CASE Holds(q) /\ prompt[q].home # t
    <3>1. Steady(q)
      BY <2>3, <2>4 DEF Steady
    <3>2. More(q)
      BY <2>1, <2>4 DEF More, Commanded, Idle, Asks, CarryOf
    <3>3. QED
      BY <2>1, <2>2, <3>1, <3>2, CarryKept
  <2>5. CASE ~Holds(q) \/ prompt[q].home = t
    <3>1. ~Holds(q)' /\ (Carried(q) => Done(q)')
      BY <2>1, <2>3, <2>5 DEF CarryOf
    <3>2. QED
      BY <2>1, <2>2, <2>3, <3>1, CarryLost
  <2>6. QED
    BY <2>4, <2>5
<1>2. QED
  BY <1>1 DEF CarryInv

(* The requests about other prompts stay true.                             *)
LEMMA ClearsAsk ==
  ASSUME PipelineInv, NEW t \in Thread, Clears(t), NEW r \in requests,
         r.kind = "resume prompt" => r.node \notin hydrating',
         Late(r) => slot'[r.node] = None /\ Renewed(r.node)'
  PROVE  RequestOf(r)'
<1>1. /\ RequestOf(r) /\ r.prompt \in Prompt \cup {None}
      /\ r.kind \in PromptKinds => r.prompt \in Prompt
  BY AskFacts
<1>2. r.prompt # None /\ Done(r.prompt) => Done(r.prompt)'
  BY <1>1, ClearsFacts
<1>3. r.kind = "thread start" /\ r.current => Holds(r.prompt)'
  <2> SUFFICES ASSUME r.kind = "thread start", r.current PROVE Holds(r.prompt)'
    OBVIOUS
  <2>1. r.prompt \in Prompt /\ Holds(r.prompt) /\ prompt[r.prompt].home = r.node /\ r.node \in Draft
    BY CreatorFacts
  <2>2. prompt[r.prompt].home # t
    BY <2>1, NamesAssumption
  <2>3. QED
    BY <2>1, <2>2, ClearsFacts
<1>4. QED
  BY <1>1, <1>2, <1>3, AskKept

(* Drafts that are being created after a step that clears t.               *)
LEMMA ClearsCreating ==
  ASSUME PipelineInv, Idle, NEW t \in Thread, creating' = creating,
         \A m \in Node \ {t} : slot'[m] = slot[m], \A m \in live : m # t => m \in live',
         \A r \in requests : r.prompt \in Prompt /\ r.node # t => r \in requests'
  PROVE  CreatingInv'
<1>1. ASSUME NEW d \in creating' PROVE CreatingOf(d)'
  <2>1. d \in creating /\ d # t /\ d \in Node
    BY NamesAssumption DEF PipelineInv, PipelineTypes, WorkTypes, Node
  <2>2. CreatingOf(d) /\ slot'[d] = slot[d] /\ slot[d] \in Prompt
    <3>1. CreatingOf(d) /\ slot'[d] = slot[d]
      BY <2>1 DEF PipelineInv, CreatingInv
    <3>2. slot[d] \in Prompt \cup {None}
      BY <2>1 DEF PipelineInv, PipelineTypes, WorkTypes
    <3>3. QED
      BY <3>1, <3>2 DEF CreatingOf
  <2>3. PICK q \in requests : q.kind = "thread start" /\ q.node = d /\ q.prompt = slot[d]
    BY <2>2 DEF CreatingOf, Idle
  <2>4. q \in requests' /\ d \in live'
    BY <2>1, <2>2, <2>3 DEF CreatingOf
  <2>5. QED
    BY <2>2, <2>3, <2>4 DEF CreatingOf
<1>2. QED
  BY <1>1 DEF CreatingInv

(* What is left of reads whose operation nodes are gone.                   *)
LEMMA StaleAsk ==
  ASSUME PipelineInv, NEW rs \in SUBSET requests, NEW s \in Stale(rs)
  PROVE  /\ s \in RequestRecord /\ ~s.current /\ s.kind \in {"resume hydration", "settings"}
         /\ s.prompt = None /\ s.node \in Thread /\ \E r \in rs : s.node = r.node
<1>1. rs \in SUBSET RequestRecord
  BY DEF PipelineInv, PipelineTypes, RequestTypes
<1>2. s \in RequestRecord /\ ~s.current /\ s.kind \in {"resume hydration", "settings"}
  BY <1>1, StaleFacts
<1>3. PICK r \in rs : s.kind = r.kind /\ s.node = r.node /\ s.prompt = r.prompt
  BY <1>1, StaleFacts
<1>4. r \in requests /\ r.kind \in HistoryKinds \ {"resume prompt"}
  BY <1>2, <1>3 DEF HistoryKinds
<1>5. r.prompt = None /\ r.node \in Thread
  BY <1>4, AskFacts
<1>6. QED
  BY <1>2, <1>3, <1>5

(* Such a request stands where the slot is free and the thread is loaded   *)
(* anew or gone.                                                           *)
LEMMA StaleOf ==
  ASSUME NEW s, ~s.current, s.kind \in {"resume hydration", "settings"},
         s.prompt = None, s.node \in Thread, slot'[s.node] = None, Renewed(s.node)'
  PROVE  RequestOf(s)'
  BY DEF RequestOf, Renewed, PromptKinds, HistoryKinds

(* thread/reverted, with the outdated reads it leaves.                     *)
LEMMA RevertedInv ==
  ASSUME PipelineInv, NEW t \in Thread, Reverted(t)
  PROVE  PipelineInv'
<1> DEFINE unsettled == {p \in Prompt : /\ PromptLive(p) /\ prompt[p].home = t
                                        /\ prompt[p].state # "failed"}
           reads == {r \in On(t) : r.kind \in HistoryKinds}
<1>1. /\ Idle /\ t \in live
      /\ prompt' = [p \in Prompt |-> IF p \in unsettled THEN Failed(prompt[p]) ELSE prompt[p]]
      /\ requests' = (requests \ reads) \cup Stale(reads) \cup {TurnsRequest(t, "not")}
      /\ hydrating' = hydrating \cup {t} /\ interactive' = interactive \ {t}
      /\ hydration' = [hydration EXCEPT ![t] = "loading"]
      /\ UNCHANGED <<creating, command, live, retired, loaded, parked, resumed, linkVars>>
  BY DEF Reverted, Loading
<1>2. OtherTypes /\ connected /\ t \in Node /\ prompt \in [Prompt -> PromptRecord]
      /\ hydration \in [Thread -> {"none", "loading", "ready", "failed"}]
  <2>1. OtherTypes /\ connected
    BY <1>1, InvParts, UnreadFacts
  <2>2. QED
    BY <2>1 DEF OtherTypes, ThreadTypes, PipelineInv, PipelineTypes, WorkTypes, Node
<1>3. WorkInv' /\ slot'[t] = None /\ \A m \in Node \ {t} : slot'[m] = slot[m]
  BY RevertedWork DEF PipelineInv
<1>4. Clears(t)
  BY RevertedClears
<1>5. IsRead(TurnsRequest(t, "not"))
  BY ReadRequests
<1>6. reads \in SUBSET requests /\ \A r \in reads : r.node = t
  BY DEF On
<1>7. ASSUME NEW s \in Stale(reads)
      PROVE  /\ s \in RequestRecord /\ ~s.current /\ s.kind \in {"resume hydration", "settings"}
             /\ s.prompt = None /\ s.node = t
  BY <1>6, <1>7, StaleAsk
<1>8. CarryInv'
  <2>1. \A r \in requests' : r.current /\ r.prompt \in Prompt => r \in requests
    BY <1>1, <1>5, <1>7, NoneFacts DEF IsRead
  <2>2. \A r \in requests : r.prompt \in Prompt /\ r.node # t => r \in requests'
    BY <1>1, <1>6
  <2>3. QED
    BY <1>1, <1>4, <2>1, <2>2, ClearsCarry
<1>9. ASSUME NEW r \in requests' PROVE RequestOf(r)'
  <2>1. CASE r = TurnsRequest(t, "not")
    BY <1>5, <2>1 DEF IsRead, RequestOf, PromptKinds, HistoryKinds
  <2>2. CASE r \in Stale(reads)
    <3>1. Renewed(r.node)'
      BY <1>1, <1>2, <1>7, <2>2 DEF Renewed
    <3>2. slot'[r.node] = None /\ r.node \in Thread
      BY <1>3, <1>7, <2>2
    <3>3. QED
      BY <1>7, <2>2, <3>1, <3>2, StaleOf
  <2>3. CASE r \in requests \ reads
    <3>1. r \in requests /\ (r.kind \in HistoryKinds => r.node # t)
      BY <2>3 DEF On
    <3>2. RequestOf(r) /\ r.node \in Node /\ (Late(r) => Renewed(r.node) /\ r.node \in Thread)
      BY <3>1, AskFacts
    <3>3. r.kind = "resume prompt" => r.node \notin hydrating'
      BY <1>1, <3>1, <3>2 DEF RequestOf, HistoryKinds
    <3>4. ASSUME Late(r) PROVE slot'[r.node] = None /\ Renewed(r.node)'
      <4>1. slot[r.node] = None /\ Renewed(r.node) /\ r.node \in Thread /\ r.node # t
        BY <3>1, <3>2, <3>4, LateFacts DEF Late
      <4>2. hydration'[r.node] = hydration[r.node]
        BY <1>1, <1>2, <4>1
      <4>3. QED
        BY <1>1, <1>3, <3>2, <4>1, <4>2 DEF Renewed, linkVars
    <3>5. QED
      BY <1>4, <3>1, <3>3, <3>4, ClearsAsk
  <2>4. QED
    BY <1>1, <2>1, <2>2, <2>3
<1>10. CreatingInv'
  <2>1. \A r \in requests : r.prompt \in Prompt /\ r.node # t => r \in requests'
    BY <1>1, <1>6
  <2>2. QED
    BY <1>1, <1>3, <2>1, ClearsCreating
<1>11. CommandInv' /\ LinkInv'
  BY <1>1, <1>2 DEF PipelineInv, CommandInv, LinkInv, Idle, linkVars
<1>12. WayInv'
  BY <1>3, <1>8, <1>9, <1>10, <1>11 DEF WayInv, AskInv
<1>13. RequestTypes'
  BY <1>1, <1>2, <1>5, <1>7 DEF OtherTypes, RequestTypes, IsRead
<1>14. OtherTypes'
  BY <1>1, <1>2, <1>13 DEF OtherTypes, ThreadTypes, HydrationTypes, LinkTypes, linkVars
<1>15. QED
  BY <1>12, <1>14, InvNext

(* A thread is deleted, with its reads.                                    *)
LEMMA DeletedInv ==
  ASSUME PipelineInv, NEW t \in Thread, Deleted(t)
  PROVE  PipelineInv'
<1> DEFINE reads == {r \in On(t) : r.kind \in HistoryKinds}
<1>1. /\ Idle /\ t \in live
      /\ live' = live \ {t} /\ retired' = retired \cup {t} /\ loaded' = loaded \ {t}
      /\ hydration' = [hydration EXCEPT ![t] = "none"]
      /\ prompt' = [p \in Prompt |->
            IF PromptLive(p) /\ prompt[p].home = t
            THEN [Lost(prompt[p]) EXCEPT !.materialized = FALSE] ELSE prompt[p]]
      /\ slot' = [slot EXCEPT ![t] = None]
      /\ requests' = (requests \ reads) \cup Stale(reads)
      /\ UNCHANGED <<creating, command, hydrationVars, linkVars>>
  BY DEF Deleted
<1>2. OtherTypes /\ connected /\ t \in Node /\ prompt \in [Prompt -> PromptRecord]
      /\ hydration \in [Thread -> {"none", "loading", "ready", "failed"}]
      /\ slot \in [Node -> Prompt \cup {None}]
  <2>1. OtherTypes /\ connected
    BY <1>1, InvParts, UnreadFacts
  <2>2. QED
    BY <2>1 DEF OtherTypes, ThreadTypes, PipelineInv, PipelineTypes, WorkTypes, Node
<1>3. WorkInv'
  BY DeletedWork DEF PipelineInv
<1>4. slot'[t] = None /\ \A m \in Node \ {t} : slot'[m] = slot[m]
  BY <1>1, <1>2
<1>5. Clears(t)
  BY DeletedClears
<1>6. reads \in SUBSET requests /\ \A r \in reads : r.node = t
  BY DEF On
<1>7. ASSUME NEW s \in Stale(reads)
      PROVE  /\ s \in RequestRecord /\ ~s.current /\ s.kind \in {"resume hydration", "settings"}
             /\ s.prompt = None /\ s.node = t
  BY <1>6, <1>7, StaleAsk
<1>8. \A r \in requests : r.prompt \in Prompt /\ r.node # t => r \in requests'
  BY <1>1, <1>6
<1>9. CarryInv'
  <2>1. \A r \in requests' : r.current /\ r.prompt \in Prompt => r \in requests
    BY <1>1, <1>7
  <2>2. QED
    BY <1>1, <1>5, <1>8, <2>1, ClearsCarry DEF hydrationVars
<1>10. ASSUME NEW r \in requests' PROVE RequestOf(r)'
  <2>1. CASE r \in Stale(reads)
    <3>1. Renewed(r.node)'
      BY <1>1, <1>7, <2>1 DEF Renewed
    <3>2. slot'[r.node] = None /\ r.node \in Thread
      BY <1>4, <1>7, <2>1
    <3>3. QED
      BY <1>7, <2>1, <3>1, <3>2, StaleOf
  <2>2. CASE r \in requests \ reads
    <3>1. r \in requests
      BY <2>2
    <3>2. RequestOf(r) /\ r.node \in Node /\ (Late(r) => Renewed(r.node) /\ r.node \in Thread)
      BY <3>1, AskFacts
    <3>3. r.kind = "resume prompt" => r.node \notin hydrating'
      BY <1>1, <3>2 DEF RequestOf, hydrationVars
    <3>4. ASSUME Late(r) PROVE slot'[r.node] = None /\ Renewed(r.node)'
      <4>1. slot[r.node] = None /\ Renewed(r.node) /\ r.node \in Thread
        BY <3>2, <3>4, LateFacts
      <4>2. CASE r.node = t
        BY <1>1, <1>4, <4>2 DEF Renewed
      <4>3. CASE r.node # t
        <5>1. hydration'[r.node] = hydration[r.node] /\ (r.node \in live' <=> r.node \in live)
          BY <1>1, <1>2, <4>1, <4>3
        <5>2. QED
          BY <1>1, <1>4, <3>2, <4>1, <4>3, <5>1 DEF Renewed, linkVars
      <4>4. QED
        BY <4>2, <4>3
    <3>5. QED
      BY <1>5, <3>1, <3>3, <3>4, ClearsAsk
  <2>3. QED
    BY <1>1, <2>1, <2>2
<1>11. CreatingInv'
  BY <1>1, <1>4, <1>8, ClearsCreating
<1>12. CommandInv' /\ LinkInv'
  <2>1. CommandInv'
    BY <1>1 DEF CommandInv, Idle
  <2>2. LinkInv'
    BY <1>1, <1>2 DEF PipelineInv, LinkInv, linkVars
  <2>3. QED
    BY <2>1, <2>2
<1>13. WayInv'
  BY <1>3, <1>9, <1>10, <1>11, <1>12 DEF WayInv, AskInv
<1>14. RequestTypes'
  BY <1>1, <1>2, <1>7 DEF OtherTypes, RequestTypes
<1>15. OtherTypes'
  BY <1>1, <1>2, <1>14 DEF OtherTypes, ThreadTypes, HydrationTypes, LinkTypes, hydrationVars, linkVars
<1>16. QED
  BY <1>13, <1>15, InvNext

----------------------------------------------------------------------------
(* Connection and provider *)

(* A reset leaves nothing on its way: every prompt alive has failed.       *)
LEMMA ResetFacts ==
  ASSUME PipelineInv, Idle, Reset, NEW q \in Prompt
  PROVE  /\ ~Holds(q)' /\ (Holds(q) \/ Done(q) => Done(q)')
         /\ ~Commanded(q)' /\ \A t \in Thread : parked'[t] # q
<1>1. /\ prompt' = [p \in Prompt |-> IF PromptLive(p) THEN Lost(prompt[p]) ELSE prompt[p]]
      /\ command' = command /\ parked' = [t \in Thread |-> None]
  BY DEF Reset
<1>2. prompt[q] \in PromptRecord
  BY DEF PipelineInv, PipelineTypes, WorkTypes
<1>3. CASE PromptLive(q)
  <2>1. prompt'[q] = Lost(prompt[q])
    BY <1>1, <1>3
  <2>2. prompt'[q].state = "failed" /\ prompt'[q].recovery
    BY <1>2, <2>1, FailedFacts
  <2>3. QED
    BY <1>1, <2>2, NoneFacts DEF Holds, Done, Commanded, Idle
<1>4. CASE ~PromptLive(q)
  <2>1. prompt'[q] = prompt[q]
    BY <1>1, <1>4
  <2>2. QED
    BY <1>1, <1>4, <2>1, NoneFacts DEF Holds, Done, Commanded, Idle, PromptLive
<1>5. QED
  BY <1>3, <1>4

(* A reset whose remaining requests are all outdated.                      *)
LEMMA ResetInv ==
  ASSUME PipelineInv, Idle, Reset, connected' \in BOOLEAN,
         \A r \in requests' : r \in RequestRecord /\ ~r.current /\ RequestOf(r)'
  PROVE  PipelineInv'
<1>1. WorkInv'
  BY ResetWork DEF PipelineInv
<1>2. ASSUME NEW q \in Prompt PROVE CarryOf(q)'
  <2>1. Free(q) /\ ~Holds(q)'
    BY ResetFacts DEF Free, Asks
  <2>2. QED
    BY <2>1, CarryNone
<1>3. AskInv' /\ CommandInv' /\ CreatingInv' /\ LinkInv'
  BY DEF AskInv, CommandInv, CreatingInv, LinkInv, Reset, Idle
<1>4. OtherTypes'
  BY DEF OtherTypes, ThreadTypes, HydrationTypes, RequestTypes, LinkTypes, Reset
<1>5. QED
  BY <1>1, <1>2, <1>3, <1>4, InvNext DEF WayInv, CarryInv

(* A provider generation begins.                                           *)
LEMMA NewGenerationInv ==
  ASSUME PipelineInv, NewGeneration
  PROVE  PipelineInv'
  BY ResetInv DEF NewGeneration

(* The connection is lost, and answers may still come.                     *)
LEMMA DisconnectInv ==
  ASSUME PipelineInv, Disconnect
  PROVE  PipelineInv'
<1>1. /\ Idle /\ Reset /\ connected' = FALSE
      /\ requests' = Stale(requests) \cup {[r EXCEPT !.current = FALSE] :
                          r \in Requests("turn") \cup Requests("thread start")}
  BY DEF Disconnect
<1>2. ASSUME NEW s \in requests' PROVE s \in RequestRecord /\ ~s.current /\ RequestOf(s)'
  <2>1. CASE s \in Stale(requests)
    <3>1. /\ s \in RequestRecord /\ ~s.current /\ s.kind \in {"resume hydration", "settings"}
          /\ s.prompt = None /\ s.node \in Thread
      <4>1. requests \in SUBSET requests
        OBVIOUS
      <4>2. QED
        BY <2>1, <4>1, StaleAsk
    <3>2. slot'[s.node] = None /\ Renewed(s.node)'
      BY <1>1, <3>1 DEF Reset, Renewed, Node
    <3>3. QED
      BY <3>1, <3>2, StaleOf
  <2>2. CASE s \in {[r EXCEPT !.current = FALSE] : r \in Requests("turn") \cup Requests("thread start")}
    <3>1. PICK r \in requests : r.kind \in {"turn", "thread start"} /\ s = [r EXCEPT !.current = FALSE]
      BY <2>2 DEF Requests
    <3>2. r \in RequestRecord /\ RequestOf(r) /\ r.prompt \in Prompt
      BY <3>1, AskFacts DEF PromptKinds
    <3>3. s \in RequestRecord /\ ~s.current /\ s.kind = r.kind /\ s.node = r.node /\ s.prompt = r.prompt
      BY <3>1, <3>2, OutdatedFacts
    <3>4. Done(r.prompt)'
      <4>1. r.current => Asks(r, r.prompt)
        BY DEF Asks
      <4>2. CarryOf(r.prompt)
        BY <3>2 DEF PipelineInv, CarryInv
      <4>3. Holds(r.prompt) \/ Done(r.prompt)
        BY <3>2, <4>1, <4>2, NoneFacts DEF CarryOf, Carried, RequestOf
      <4>4. QED
        BY <1>1, <3>2, <4>3, ResetFacts
    <3>5. s.prompt # None /\ s.kind \in PromptKinds /\ s.kind \notin HistoryKinds
      BY <3>1, <3>2, <3>3, NoneFacts DEF PromptKinds, HistoryKinds
    <3>6. s.kind = "thread start" => s.node \in Draft
      BY <3>2, <3>3 DEF RequestOf
    <3>7. RequestOf(s)'
      BY <3>3, <3>4, <3>5, <3>6 DEF RequestOf, PromptKinds, HistoryKinds
    <3>8. QED
      BY <3>3, <3>7
  <2>3. QED
    BY <1>1, <2>1, <2>2
<1>3. QED
  BY <1>1, <1>2, ResetInv

----------------------------------------------------------------------------
(* Theorems *)

(* The initial state satisfies the invariant.                              *)
LEMMA InitInv == Init => PipelineInv
<1> SUFFICES ASSUME Init PROVE PipelineInv
  OBVIOUS
<1>1. \A p \in Prompt : prompt[p] = NewPrompt
  BY DEF Init
<1>2. WorkTypes
  <2>1. <<>> \in Seq(Prompt)
    OBVIOUS
  <2>2. prompt \in [Prompt -> PromptRecord]
    BY NewFacts DEF Init
  <2>3. QED
    BY <2>1, <2>2 DEF Init, WorkTypes
<1>3. OtherTypes
  BY DEF Init, OtherTypes, ThreadTypes, HydrationTypes, RequestTypes, LinkTypes
<1>4. \A p \in Prompt : prompt[p].state = "new" /\ ~Holds(p)
  BY <1>1, NewFacts DEF Holds
<1>5. StateInv
  BY <1>1, GoneWell DEF StateInv
<1>6. PlaceInv
  <2> SUFFICES ASSUME NEW n \in Node PROVE PlaceOf(n)
    BY DEF PlaceInv
  <2>1. queue[n] = <<>> /\ slot[n] = None
    BY DEF Init
  <2>2. ASSUME NEW p \in Prompt PROVE ~Contains(queue[n], p) /\ ~Queued(p, n) /\ ~Sending(p, n)
    BY <1>4, <2>1 DEF Contains, Queued, Sending
  <2>3. QED
    BY <2>1, <2>2, NoneFacts DEF PlaceOf
<1>7. OrderInv
  BY <1>4 DEF OrderInv, Behind
<1>8. ASSUME NEW p \in Prompt PROVE CarryOf(p)
  <2>1. ~Commanded(p) /\ (\A t \in Thread : parked[t] # p) /\ requests = {}
    BY NoneFacts DEF Init, Commanded
  <2>2. ~Carried(p)
    BY <2>1 DEF Carried
  <2>3. QED
    BY <1>4, <2>1, <2>2 DEF CarryOf
<1>9. AskInv /\ CommandInv /\ CreatingInv /\ LinkInv
  BY DEF Init, AskInv, CommandInv, CreatingInv, LinkInv
<1>10. WayInv
  BY <1>2, <1>5, <1>6, <1>7, <1>8, <1>9 DEF WayInv, WorkInv, CarryInv
<1>11. QED
  BY <1>3, <1>10, InvParts

(* The command in hand is placed.                                          *)
LEMMA DispatchInv ==
  ASSUME PipelineInv, DispatchCommand
  PROVE  PipelineInv'
<1>1. PICK n \in Node, p \in Prompt : Dispatch(n, p)
  BY DEF DispatchCommand
<1>2. CASE DispatchRefused(n, p)
  BY <1>2, DispatchRefusedInv
<1>3. CASE DispatchThreadStart(n, p)
  BY <1>3, DispatchThreadStartInv
<1>4. CASE DispatchParked(n, p)
  BY <1>4, DispatchParkedInv
<1>5. CASE DispatchResume(n, p)
  BY <1>5, DispatchResumeInv
<1>6. CASE DispatchTurn(n, p)
  BY <1>6, DispatchTurnInv
<1>7. QED
  BY <1>1, <1>2, <1>3, <1>4, <1>5, <1>6 DEF Dispatch

(* An answer about the history of a thread, or before a turn.              *)
LEMMA AnswerOnInv ==
  ASSUME PipelineInv, NEW t \in Thread, AnswerOn(t)
  PROVE  PipelineInv'
<1>1. PICK r \in On(t) :
        \/ \E ok \in BOOLEAN :
             \/ AnswerResumeHydration(r, ok) \/ AnswerSettings(r, ok)
             \/ AnswerHistory(r, ok) \/ AnswerResumePrompt(r, ok)
        \/ \E outcome \in {"ok", "mismatched", "error"} : AnswerTurns(r, outcome)
  BY DEF AnswerOn
<1>2. ASSUME NEW ok \in BOOLEAN,
             \/ AnswerResumeHydration(r, ok) \/ AnswerSettings(r, ok)
             \/ AnswerHistory(r, ok) \/ AnswerResumePrompt(r, ok)
      PROVE  PipelineInv'
  <2>1. CASE AnswerResumeHydration(r, ok)
    BY <2>1, AnswerResumeHydrationInv
  <2>2. CASE AnswerSettings(r, ok)
    BY <2>2, AnswerSettingsInv
  <2>3. CASE AnswerHistory(r, ok)
    BY <2>3, AnswerHistoryInv
  <2>4. CASE AnswerResumePrompt(r, ok)
    BY <2>4, AnswerResumePromptInv
  <2>5. QED
    BY <1>2, <2>1, <2>2, <2>3, <2>4
<1>3. ASSUME NEW outcome \in {"ok", "mismatched", "error"}, AnswerTurns(r, outcome)
      PROVE  PipelineInv'
  BY <1>3, AnswerTurnsInv
<1>4. QED
  BY <1>1, <1>2, <1>3

(* An answer to a turn or to thread/start.                                 *)
LEMMA AnswerForInv ==
  ASSUME PipelineInv, NEW p \in Prompt, AnswerFor(p)
  PROVE  PipelineInv'
<1>1. PICK r \in requests : \/ \E ok \in BOOLEAN : AnswerTurn(r, ok)
                            \/ RefuseThreadStart(r) \/ LateThreadStart(r)
                            \/ \E t \in Thread : CreateThread(r, t)
  BY DEF AnswerFor
<1>2. ASSUME NEW ok \in BOOLEAN, AnswerTurn(r, ok) PROVE PipelineInv'
  BY <1>2, AnswerTurnInv
<1>3. CASE RefuseThreadStart(r) \/ LateThreadStart(r)
  BY <1>3, RefuseThreadStartInv
<1>4. ASSUME NEW t \in Thread, CreateThread(r, t) PROVE PipelineInv'
  BY <1>4, CreateThreadInv
<1>5. QED
  BY <1>1, <1>2, <1>3, <1>4

(* What the user does.                                                     *)
LEMMA UserInv ==
  ASSUME PipelineInv, User
  PROVE  PipelineInv'
<1>1. ASSUME NEW p \in Prompt, NEW n \in Node \cup {Recovery}, SubmitPrompt(p, n) PROVE PipelineInv'
  BY <1>1, SubmitPromptInv
<1>2. ASSUME NEW p \in Prompt, NEW d \in Draft, SubmitFirstPrompt(p, d) PROVE PipelineInv'
  BY <1>2, SubmitFirstPromptInv
<1>3. ASSUME NEW p \in Prompt, PromptMaterialized(p) PROVE PipelineInv'
  BY <1>3, PromptMaterializedInv
<1>4. ASSUME NEW t \in Thread, NEW force \in BOOLEAN, Hydrate(t, force) PROVE PipelineInv'
  BY <1>4, HydrateInv
<1>5. ASSUME NEW t \in Thread, LoadHistory(t) PROVE PipelineInv'
  BY <1>5, LoadHistoryInv
<1>6. QED
  BY <1>1, <1>2, <1>3, <1>4, <1>5 DEF User

(* What provider and bridge do.                                            *)
LEMMA EnvironmentInv ==
  ASSUME PipelineInv, Environment
  PROVE  PipelineInv'
<1>1. ASSUME NEW t \in Thread, HydrateInBackground(t) PROVE PipelineInv'
  BY <1>1, HydrateInBackgroundInv
<1>2. ASSUME NEW t \in Thread, ThreadStatus(t) PROVE PipelineInv'
  BY <1>2, ThreadStatusInv
<1>3. ASSUME NEW t \in Thread, Reverted(t) PROVE PipelineInv'
  BY <1>3, RevertedInv
<1>4. ASSUME NEW t \in Thread, Deleted(t) PROVE PipelineInv'
  BY <1>4, DeletedInv
<1>5. ASSUME NEW t \in Thread, NEW isLoaded \in BOOLEAN, ThreadAppears(t, isLoaded) PROVE PipelineInv'
  BY <1>5, ThreadAppearsInv
<1>6. QED
  BY <1>1, <1>2, <1>3, <1>4, <1>5, NewGenerationInv, DisconnectInv, BridgeStateInv DEF Environment

(* A step that leaves the pipeline alone.                                  *)
LEMMA StutterInv ==
  ASSUME PipelineInv, UNCHANGED vars
  PROVE  PipelineInv'
<1>1. UNCHANGED <<prompt, queue, slot, creating, command, live, retired, loaded, hydration,
                  hydrating, interactive, parked, resumed, requests, connected, ready, controller>>
  BY DEF vars, promptVars, threadVars, hydrationVars, linkVars
<1>2. WorkInv'
  BY <1>1, IdleWork DEF PipelineInv, WorkInv, WorkTypes, promptVars
<1>3. ASSUME NEW q \in Prompt PROVE CarryOf(q)'
  BY <1>1 DEF PipelineInv, CarryInv, CarryOf, Carried, Commanded, Asks, Holds, Done
<1>4. ASSUME NEW r \in requests' PROVE RequestOf(r)'
  BY <1>1, AskFacts DEF RequestOf, Holds, Done
<1>5. CommandInv' /\ CreatingInv' /\ LinkInv'
  BY <1>1 DEF PipelineInv, CommandInv, CreatingInv, CreatingOf, LinkInv, Holds
<1>6. OtherTypes'
  BY <1>1 DEF PipelineInv, PipelineTypes, OtherTypes, ThreadTypes, HydrationTypes, RequestTypes, LinkTypes
<1>7. QED
  BY <1>2, <1>3, <1>4, <1>5, <1>6, InvNext DEF WayInv, CarryInv, AskInv

(* The inductive invariant of the way of prompts: what holds a slot has    *)
(* one carrier, and reads that have been given up cannot reach it.         *)
THEOREM PipelineInvariant == Spec => []PipelineInv
<1>1. PipelineInv /\ [Next]_vars => PipelineInv'
  <2> SUFFICES ASSUME PipelineInv, [Next]_vars PROVE PipelineInv'
    OBVIOUS
  <2>1. CASE DispatchCommand
    BY <2>1, DispatchInv
  <2>2. ASSUME NEW t \in Thread, AnswerOn(t) PROVE PipelineInv'
    BY <2>2, AnswerOnInv
  <2>3. ASSUME NEW p \in Prompt, AnswerFor(p) PROVE PipelineInv'
    BY <2>3, AnswerForInv
  <2>4. CASE User
    BY <2>4, UserInv
  <2>5. CASE Environment
    BY <2>5, EnvironmentInv
  <2>6. CASE UNCHANGED vars
    BY <2>6, StutterInv
  <2>7. QED
    BY <2>1, <2>2, <2>3, <2>4, <2>5, <2>6 DEF Next
<1>2. QED
  BY InitInv, <1>1, PTL DEF Spec

(* A slot that is taken is given back: see SlotIsCarried.                  *)
THEOREM SlotNeverLost == Spec => []SlotIsCarried
<1>1. PipelineInv => SlotIsCarried
  <2> SUFFICES ASSUME PipelineInv PROVE SlotIsCarried
    OBVIOUS
  <2>1. ASSUME NEW n \in Node, slot[n] # None
        PROVE  \E c \in Carriers(slot[n]) : Carriers(slot[n]) = {c}
    <3> DEFINE p == slot[n]
    <3>1. p \in Prompt
      BY <2>1 DEF PipelineInv, PipelineTypes, WorkTypes
    <3>2. Holds(p)
      BY <3>1, HolderFacts DEF PipelineInv
    <3>3. CarryOf(p) /\ Carried(p)
      BY <3>1, <3>2 DEF PipelineInv, CarryInv, CarryOf
    <3>4. CASE Commanded(p)
      <4>1. command # None /\ command.prompt = p
        BY <3>4 DEF Commanded
      <4>2. {u \in Thread : parked[u] = p} = {} /\ {r \in requests : r.prompt = p /\ r.current} = {}
        BY <3>3, <3>4 DEF CarryOf, Asks
      <4>3. Carriers(p) = {command}
        BY <4>1, <4>2 DEF Carriers
      <4>4. QED
        BY <4>3
    <3>5. ASSUME NEW t \in Thread, parked[t] = p
          PROVE  \E c \in Carriers(p) : Carriers(p) = {c}
      <4>1. {u \in Thread : parked[u] = p} = {t}
        BY <3>3, <3>5 DEF CarryOf
      <4>2. {c \in {command} : c # None /\ c.prompt = p} = {}
        BY <3>3, <3>5 DEF CarryOf, Commanded
      <4>3. {r \in requests : r.prompt = p /\ r.current} = {}
        BY <3>3, <3>5 DEF CarryOf, Asks
      <4>4. Carriers(p) = {<<"parked", t>>}
        BY <4>1, <4>2, <4>3 DEF Carriers
      <4>5. QED
        BY <4>4
    <3>6. ASSUME NEW r \in requests, Asks(r, p)
          PROVE  \E c \in Carriers(p) : Carriers(p) = {c}
      <4>1. {q \in requests : q.prompt = p /\ q.current} = {r}
        BY <3>3, <3>6 DEF CarryOf, Asks
      <4>2. {c \in {command} : c # None /\ c.prompt = p} = {}
        BY <3>3, <3>6 DEF CarryOf, Commanded
      <4>3. {u \in Thread : parked[u] = p} = {}
        BY <3>3, <3>6 DEF CarryOf
      <4>4. Carriers(p) = {r}
        BY <4>1, <4>2, <4>3 DEF Carriers
      <4>5. QED
        BY <4>4
    <3>7. QED
      BY <3>3, <3>4, <3>5, <3>6 DEF Carried
  <2>2. ASSUME NEW d \in creating
        PROVE  /\ d \in live /\ slot[d] # None
               /\ \/ \E r \in Requests("thread start") : r.node = d /\ r.prompt = slot[d]
                  \/ command # None /\ command.prompt = slot[d] /\ command.creates
    BY <2>2 DEF PipelineInv, CreatingInv, CreatingOf, Requests
  <2>3. QED
    BY <2>1, <2>2 DEF SlotIsCarried
<1>2. QED
  BY PipelineInvariant, <1>1, PTL

(* What the graph shows and what the worker keeps agree, for every number  *)
(* of threads and prompts: see QueueIsServed.                              *)
THEOREM QueuesAreServed == Spec => []QueueIsServed
<1>1. PipelineInv => QueueIsServed
  <2> SUFFICES ASSUME PipelineInv PROVE QueueIsServed
    OBVIOUS
  <2>1. ASSUME NEW n \in Node
        PROVE  /\ slot[n] = None => queue[n] = <<>>
               /\ IsInjective(queue[n])
               /\ n \notin live => slot[n] = None
    <3>1. PlaceOf(n) /\ queue[n] \in Seq(Prompt)
      BY DEF PipelineInv, WorkInv, PlaceInv, WorkTypes
    <3>2. ASSUME NEW i \in DOMAIN queue[n], NEW j \in DOMAIN queue[n], queue[n][i] = queue[n][j]
          PROVE  i = j
      <4>1. i \in Int /\ j \in Int /\ queue[n][i] \in Int /\ queue[n][j] \in Int
        BY <3>1, MaxPromptsAssumption DEF Prompt
      <4>2. /\ i < j => queue[n][i] < queue[n][j]
            /\ j < i => queue[n][j] < queue[n][i]
        BY <3>1 DEF PlaceOf
      <4>3. QED
        BY <3>2, <4>1, <4>2
    <3>3. IsInjective(queue[n])
      BY <3>2 DEF IsInjective
    <3>4. QED
      BY <3>1, <3>3 DEF PlaceOf
  <2>2. ASSUME NEW p \in Prompt, NEW n \in Node
        PROVE  /\ Contains(queue[n], p) <=> prompt[p].state = "queued" /\ prompt[p].home = n
               /\ slot[n] = p <=> /\ prompt[p].state \in {"dispatching", "inFlight"}
                                 /\ ~prompt[p].recovery /\ prompt[p].home = n
    <3>1. PlaceOf(n)
      BY DEF PipelineInv, WorkInv, PlaceInv
    <3>2. QED
      BY <3>1 DEF PlaceOf, Queued, Sending, Holds
  <2>3. QED
    BY <2>1, <2>2 DEF QueueIsServed
<1>2. QED
  BY PipelineInvariant, <1>1, PTL

(* Of the prompts of a thread that need no recovery at most one is         *)
(* unanswered: see OneUnanswered.                                          *)
THEOREM OneTurnAtATime == Spec => []OneUnanswered
<1>1. PipelineInv => OneUnanswered
  <2> SUFFICES ASSUME PipelineInv, NEW r \in Requests("turn"), NEW q \in Requests("turn"),
                      ~prompt[r.prompt].recovery, PromptLive(r.prompt),
                      ~prompt[q.prompt].recovery, PromptLive(q.prompt),
                      prompt[r.prompt].home = prompt[q.prompt].home
               PROVE  r = q
    BY DEF OneUnanswered
  <2>1. ASSUME NEW s \in requests, s.kind = "turn", ~prompt[s.prompt].recovery, PromptLive(s.prompt)
        PROVE  s.prompt \in Prompt /\ Asks(s, s.prompt) /\ Holds(s.prompt)
    <3>1. s.prompt \in Prompt /\ RequestOf(s)
      BY <2>1, AskFacts DEF PromptKinds
    <3>2. ~Done(s.prompt)
      BY <2>1 DEF Done, PromptLive
    <3>3. s.current
      BY <3>1, <3>2, NoneFacts DEF RequestOf
    <3>4. CarryOf(s.prompt)
      BY <3>1 DEF PipelineInv, CarryInv
    <3>5. QED
      BY <3>1, <3>2, <3>3, <3>4 DEF CarryOf, Carried, Asks
  <2>2. r \in requests /\ q \in requests /\ r.kind = "turn" /\ q.kind = "turn"
    BY DEF Requests
  <2>3. /\ r.prompt \in Prompt /\ Asks(r, r.prompt) /\ Holds(r.prompt)
        /\ q.prompt \in Prompt /\ Asks(q, q.prompt) /\ Holds(q.prompt)
    BY <2>1, <2>2
  <2>4. r.prompt = q.prompt
    <3> DEFINE n == prompt[r.prompt].home
    <3>1. n \in Node
      BY <2>3 DEF PipelineInv, WorkInv, StateInv, WellFormed, Holds
    <3>2. slot[n] = r.prompt /\ slot[n] = q.prompt
      BY <2>3, <3>1, HolderFacts DEF PipelineInv
    <3>3. QED
      BY <3>2
  <2>5. QED
    BY <2>2, <2>3, <2>4 DEF PipelineInv, CarryInv, CarryOf
<1>2. QED
  BY PipelineInvariant, <1>1, PTL

----------------------------------------------------------------------------
(* What a step does to prompts that are done, and which steps send a turn  *)

DoneKept == \A q \in Prompt : Done(q) => Done(q)'
(* Every new turn request is dispatched.                                   *)
TurnsDispatched ==
  \A r \in requests' \ requests : r.kind = "turn" /\ r.current =>
    \E n \in Node, p \in Prompt : DispatchTurn(n, p) /\ r.prompt = p
Tame == DoneKept /\ TurnsDispatched

(* Completions and answers ask for no turn.                                *)
LEMMA FewerTurns ==
  ASSUME requests' \subseteq requests
  PROVE  TurnsDispatched
  BY DEF TurnsDispatched

(* A read is no turn.                                                      *)
LEMMA ReadTurns ==
  ASSUME NEW a, IsRead(a), requests' \subseteq requests \cup {a}
  PROVE  TurnsDispatched
  BY DEF TurnsDispatched, IsRead, HistoryKinds

(* What does not touch prompts revives none.                               *)
LEMMA SamePrompts ==
  ASSUME prompt' = prompt
  PROVE  DoneKept
  BY DEF DoneKept, Done

(* completePrompt revives nothing that is done.                            *)
LEMMA CompleteDone ==
  ASSUME PipelineInv, NEW p \in Prompt, NEW accepted \in BOOLEAN, Complete(p, accepted),
         Holds(p) \/ Done(p), Holds(p) /\ accepted => prompt[p].home \in Thread
  PROVE  DoneKept
<1>1. (Holds(p) /\ Effect(p)) \/ Untouched(p)
  BY CompleteEffect DEF PipelineInv
<1>2. CASE Untouched(p)
  BY <1>2, SamePrompts DEF Untouched, promptVars
<1>3. CASE Holds(p) /\ Effect(p)
  <2>1. ASSUME NEW q \in Prompt, Done(q) PROVE Done(q)'
    <3>1. q # p /\ prompt[q].state # "queued"
      BY <1>3, <2>1, HolderFacts DEF PipelineInv, WorkInv, StateInv, WellFormed, Done, Holds
    <3>2. prompt'[q] = prompt[q]
      BY <1>3, <3>1 DEF Effect, Stays, Fails, Follows
    <3>3. QED
      BY <2>1, <3>2 DEF Done
  <2>2. QED
    BY <2>1 DEF DoneKept
<1>4. QED
  BY <1>1, <1>2, <1>3

(* The command in hand: a turn is sent by DispatchTurn and by nothing      *)
(* else.                                                                   *)
LEMMA DispatchTame ==
  ASSUME PipelineInv, DispatchCommand
  PROVE  Tame
<1>1. PICK n \in Node, p \in Prompt : Dispatch(n, p)
  BY DEF DispatchCommand
<1>2. CASE DispatchRefused(n, p)
  <2>1. InHand(n, p) /\ Complete(p, FALSE) /\ requests' = requests
    BY <1>2 DEF DispatchRefused
  <2>2. Holds(p) \/ Done(p)
    BY <2>1, InHandFacts
  <2>3. QED
    BY <2>1, <2>2, CompleteDone, FewerTurns DEF Tame
<1>3. CASE DispatchThreadStart(n, p) \/ DispatchResume(n, p)
  <2>1. PICK kind \in {"thread start", "resume prompt"} : requests' = requests \cup {About(kind, n, p)}
    BY <1>3 DEF DispatchThreadStart, DispatchResume
  <2>2. About(kind, n, p).kind = kind
    BY DEF About
  <2>3. TurnsDispatched
    BY <2>1, <2>2 DEF TurnsDispatched
  <2>4. prompt' = prompt
    BY <1>3 DEF DispatchThreadStart, DispatchResume, promptVars
  <2>5. QED
    BY <2>3, <2>4, SamePrompts DEF Tame
<1>4. CASE DispatchParked(n, p)
  BY <1>4, SamePrompts, FewerTurns DEF Tame, DispatchParked, promptVars
<1>5. CASE DispatchTurn(n, p)
  <2>1. About("turn", n, p).prompt = p
    BY DEF About
  <2>2. TurnsDispatched
    BY <1>5, <2>1 DEF TurnsDispatched, DispatchTurn
  <2>3. ASSUME NEW q \in Prompt, Done(q) PROVE Done(q)'
    <3>1. /\ prompt[q] \in PromptRecord /\ prompt \in [Prompt -> PromptRecord]
          /\ prompt' = [prompt EXCEPT ![p] =
                          IF PromptLive(p) THEN [@ EXCEPT !.state = "inFlight", !.sent = TRUE] ELSE @]
      BY <1>5 DEF DispatchTurn, PipelineInv, PipelineTypes, WorkTypes
    <3>2. CASE q = p /\ PromptLive(p)
      <4>1. prompt'[q] = [prompt[q] EXCEPT !.state = "inFlight", !.sent = TRUE]
        BY <3>1, <3>2
      <4>2. prompt'[q].recovery = prompt[q].recovery
        BY <3>1, <4>1 DEF PromptRecord
      <4>3. QED
        BY <2>3, <3>2, <4>2 DEF Done, PromptLive
    <3>3. CASE ~(q = p /\ PromptLive(p))
      <4>1. prompt'[q] = prompt[q]
        BY <3>1, <3>3
      <4>2. QED
        BY <2>3, <4>1 DEF Done
    <3>4. QED
      BY <3>2, <3>3
  <2>4. QED
    BY <2>2, <2>3 DEF Tame, DoneKept
<1>6. QED
  BY <1>1, <1>2, <1>3, <1>4, <1>5 DEF Dispatch

(* The prompt of an answered request holds its slot or is done.            *)
LEMMA AskedFacts ==
  ASSUME PipelineInv, NEW r \in requests, r.kind \in PromptKinds
  PROVE  /\ r.prompt \in Prompt
         /\ Holds(r.prompt) \/ Done(r.prompt)
         /\ Holds(r.prompt) => prompt[r.prompt].home = r.node
<1>1. r.prompt \in Prompt /\ RequestOf(r)
  BY AskFacts
<1>2. CarryOf(r.prompt) /\ (r.current => Asks(r, r.prompt))
  BY <1>1 DEF PipelineInv, CarryInv, Asks
<1>3. Holds(r.prompt) \/ Done(r.prompt)
  BY <1>1, <1>2, NoneFacts DEF RequestOf, CarryOf, Carried
<1>4. Done(r.prompt) => ~Holds(r.prompt)
  BY <1>1 DEF PipelineInv, WorkInv, StateInv, WellFormed, Done, Holds
<1>5. QED
  BY <1>1, <1>2, <1>3, <1>4, NoneFacts DEF RequestOf, CarryOf

(* Answers about histories, and the completions they cause.                *)
LEMMA AnswerOnTame ==
  ASSUME PipelineInv, NEW t \in Thread, AnswerOn(t)
  PROVE  Tame
<1>1. PICK r \in On(t) :
        \/ \E ok \in BOOLEAN :
             \/ AnswerResumeHydration(r, ok) \/ AnswerSettings(r, ok)
             \/ AnswerHistory(r, ok) \/ AnswerResumePrompt(r, ok)
        \/ \E outcome \in {"ok", "mismatched", "error"} : AnswerTurns(r, outcome)
  BY DEF AnswerOn
<1>2. r \in requests /\ r.node = t
  BY DEF On
<1>3. ASSUME NEW ok \in BOOLEAN, AnswerResumeHydration(r, ok) PROVE Tame
  <2>1. prompt' = prompt
    BY <1>3 DEF AnswerResumeHydration, Continue, promptVars
  <2>2. \/ requests' \subseteq requests
        \/ requests' = (requests \ {r}) \cup {TurnsRequest(t, IF ok THEN "ok" ELSE "failed")}
    BY <1>2, <1>3 DEF AnswerResumeHydration
  <2>3. IsRead(TurnsRequest(t, IF ok THEN "ok" ELSE "failed"))
    BY ReadRequests
  <2>4. TurnsDispatched
    BY <2>2, <2>3, FewerTurns, ReadTurns
  <2>5. QED
    BY <2>1, <2>4, SamePrompts DEF Tame
<1>4. ASSUME NEW ok \in BOOLEAN, AnswerSettings(r, ok) \/ AnswerHistory(r, ok) PROVE Tame
  <2>1. prompt' = prompt /\ requests' \subseteq requests
    BY <1>4 DEF AnswerSettings, AnswerHistory, Continue, promptVars
  <2>2. QED
    BY <2>1, SamePrompts, FewerTurns DEF Tame
<1>5. ASSUME NEW ok \in BOOLEAN, AnswerResumePrompt(r, ok) PROVE Tame
  <2>1. r.kind \in PromptKinds /\ requests' \subseteq requests
    BY <1>5 DEF AnswerResumePrompt, Requests, PromptKinds
  <2>2. CASE Complete(r.prompt, FALSE)
    BY <1>2, <2>1, <2>2, AskedFacts, CompleteDone, FewerTurns DEF Tame
  <2>3. CASE prompt' = prompt
    BY <2>1, <2>3, SamePrompts, FewerTurns DEF Tame
  <2>4. QED
    BY <1>5, <2>2, <2>3 DEF AnswerResumePrompt, promptVars
<1>6. ASSUME NEW outcome \in {"ok", "mismatched", "error"}, AnswerTurns(r, outcome) PROVE Tame
  <2>1. IsRead(About("settings", t, None))
    BY ReadRequests
  <2>2. \/ requests' \subseteq requests
        \/ requests' = (requests \ {r}) \cup {About("settings", t, None)}
    BY <1>2, <1>6 DEF AnswerTurns
  <2>3. TurnsDispatched
    BY <2>1, <2>2, FewerTurns, ReadTurns
  <2>4. DoneKept
    <3>1. CASE prompt' = prompt
      BY <3>1, SamePrompts
    <3>2. CASE parked[t] # None /\ Complete(parked[t], FALSE)
      <4>1. parked[t] \in Prompt
        BY <3>2 DEF PipelineInv, PipelineTypes, HydrationTypes
      <4>2. Holds(parked[t]) \/ Done(parked[t])
        BY <4>1 DEF PipelineInv, CarryInv, CarryOf, Carried
      <4>3. QED
        BY <3>2, <4>1, <4>2, CompleteDone
    <3>3. QED
      BY <1>2, <1>6, <3>1, <3>2 DEF AnswerTurns, Continue, ContinueFailed, promptVars
  <2>5. QED
    BY <2>3, <2>4 DEF Tame
<1>7. QED
  BY <1>1, <1>3, <1>4, <1>5, <1>6

(* Answers to turns and to thread/start.                                   *)
LEMMA AnswerForTame ==
  ASSUME PipelineInv, NEW p \in Prompt, AnswerFor(p)
  PROVE  Tame
<1>1. PICK r \in requests : \/ \E ok \in BOOLEAN : AnswerTurn(r, ok)
                            \/ RefuseThreadStart(r) \/ LateThreadStart(r)
                            \/ \E t \in Thread : CreateThread(r, t)
  BY DEF AnswerFor
<1>2. ASSUME NEW ok \in BOOLEAN, AnswerTurn(r, ok) PROVE Tame
  <2>1. /\ r.kind \in PromptKinds /\ requests' \subseteq requests /\ Complete(r.prompt, ok)
        /\ ok => r.node \in Thread
    BY <1>2 DEF AnswerTurn, Requests, PromptKinds
  <2>2. QED
    BY <2>1, AskedFacts, CompleteDone, FewerTurns DEF Tame
<1>3. CASE RefuseThreadStart(r) \/ LateThreadStart(r)
  <2>1. r.kind \in PromptKinds /\ requests' \subseteq requests /\ Complete(r.prompt, FALSE)
    BY <1>3 DEF RefuseThreadStart, LateThreadStart, Requests, PromptKinds
  <2>2. QED
    BY <2>1, AskedFacts, CompleteDone, FewerTurns DEF Tame
<1>4. ASSUME NEW t \in Thread, CreateThread(r, t) PROVE Tame
  <2>1. r.kind = "thread start" /\ r.current /\ requests' \subseteq requests
    BY <1>4 DEF CreateThread, Requests
  <2>2. /\ r.prompt \in Prompt /\ r.node \in Draft /\ Holds(r.prompt)
        /\ prompt[r.prompt].home = r.node
    BY <2>1, CreatorFacts
  <2>3. \A q \in Prompt : /\ prompt'[q].state = prompt[q].state
                          /\ prompt'[q].recovery = prompt[q].recovery
    BY <1>4, <2>2, CreatedWork DEF PipelineInv
  <2>4. QED
    BY <2>1, <2>3, FewerTurns DEF Tame, DoneKept, Done
<1>5. QED
  BY <1>1, <1>2, <1>3, <1>4

(* Only the prompt the user sends or sees changes.                         *)
LEMMA UserTame ==
  ASSUME PipelineInv, User
  PROVE  Tame
<1>1. ASSUME NEW p \in Prompt, prompt[p].state = "new", requests' = requests,
             \A q \in Prompt \ {p} : prompt'[q] = prompt[q]
      PROVE  Tame
  <2>1. ~Done(p)
    BY <1>1, NewUncarried
  <2>2. DoneKept
    BY <1>1, <2>1 DEF DoneKept, Done
  <2>3. QED
    BY <1>1, <2>2, FewerTurns DEF Tame
<1>2. ASSUME NEW p \in Prompt, NextNew(p), NEW n \in Node, NEW creates \in BOOLEAN,
             Enqueue(p, n, creates), requests' = requests
      PROVE  Tame
  <2>1. Taken(p, n, creates) \/ Joined(p, n, creates)
    BY <1>2, EnqueueFacts DEF PipelineInv
  <2>2. prompt[p].state = "new" /\ prompt \in [Prompt -> PromptRecord]
    BY <1>2 DEF NextNew, PipelineInv, PipelineTypes, WorkTypes
  <2>3. \A q \in Prompt \ {p} : prompt'[q] = prompt[q]
    BY <2>1, <2>2 DEF Taken, Joined
  <2>4. QED
    BY <1>1, <1>2, <2>2, <2>3
<1>3. ASSUME NEW p \in Prompt, NEW n \in Node \cup {Recovery}, SubmitPrompt(p, n) PROVE Tame
  <2>1. CASE prompt' = [prompt EXCEPT ![p] = Lost(NewPrompt)]
    <3>1. prompt[p].state = "new" /\ requests' = requests
          /\ \A q \in Prompt \ {p} : prompt'[q] = prompt[q]
      BY <1>3, <2>1 DEF SubmitPrompt, NextNew, PipelineInv, PipelineTypes, WorkTypes
    <3>2. QED
      BY <1>1, <3>1
  <2>2. CASE n \in live /\ Enqueue(p, n, FALSE)
    <3>1. n \in Node /\ NextNew(p) /\ requests' = requests
      BY <1>3, <2>2 DEF SubmitPrompt, PipelineInv, PipelineTypes, ThreadTypes
    <3>2. QED
      BY <1>2, <2>2, <3>1
  <2>3. QED
    BY <1>3, <2>1, <2>2 DEF SubmitPrompt
<1>4. ASSUME NEW p \in Prompt, NEW d \in Draft, SubmitFirstPrompt(p, d) PROVE Tame
  <2>1. NextNew(p) /\ Enqueue(p, d, d \notin creating) /\ requests' = requests /\ d \in Node
    BY <1>4 DEF SubmitFirstPrompt, Node
  <2>2. (d \notin creating) \in BOOLEAN
    OBVIOUS
  <2>3. QED
    BY <1>2, <2>1, <2>2
<1>5. ASSUME NEW p \in Prompt, PromptMaterialized(p) PROVE Tame
  <2>1. PICK r \in PromptRecord :
          /\ prompt' = [prompt EXCEPT ![p] = r]
          /\ \/ r.state = prompt[p].state /\ r.recovery = prompt[p].recovery
             \/ r.state = "gone"
    BY <1>5, MaterializedWork DEF PipelineInv
  <2>2. prompt \in [Prompt -> PromptRecord] /\ requests' = requests
    BY <1>5 DEF PromptMaterialized, PipelineInv, PipelineTypes, WorkTypes
  <2>3. DoneKept
    BY <2>1, <2>2 DEF DoneKept, Done
  <2>4. QED
    BY <2>2, <2>3, FewerTurns DEF Tame
<1>6. ASSUME NEW t \in Thread, Hydrate(t, TRUE) \/ Hydrate(t, FALSE) \/ LoadHistory(t) PROVE Tame
  <2>1. prompt' = prompt
    BY <1>6 DEF Hydrate, LoadHistory, Continue, promptVars
  <2>2. \E cached \in BOOLEAN :
          \/ requests' \subseteq requests
          \/ requests' = requests \cup {ResumeRequest(t, cached)}
          \/ requests' = requests \cup {TurnsRequest(t, "not")}
          \/ requests' = requests \cup {About("history", t, None)}
    BY <1>6 DEF Hydrate, LoadHistory
  <2>3. TurnsDispatched
    BY <2>2, ReadRequests, FewerTurns, ReadTurns
  <2>4. QED
    BY <2>1, <2>3, SamePrompts DEF Tame
<1>7. QED
  BY <1>3, <1>4, <1>5, <1>6 DEF User

(* A thread that is cleared, or a reset, sends nothing and loses nothing   *)
(* that is done.                                                           *)
LEMMA EnvironmentTame ==
  ASSUME PipelineInv, Environment
  PROVE  Tame
<1>1. ASSUME NEW t \in Thread, HydrateInBackground(t) PROVE Tame
  <2>1. prompt' = prompt /\ requests' = requests \cup {TurnsRequest(t, "not")}
    BY <1>1 DEF HydrateInBackground, promptVars
  <2>2. IsRead(TurnsRequest(t, "not"))
    BY ReadRequests
  <2>3. QED
    BY <2>1, <2>2, ReadTurns, SamePrompts DEF Tame
<1>2. ASSUME NEW t \in Thread, NEW isLoaded \in BOOLEAN,
             ThreadStatus(t) \/ ThreadAppears(t, isLoaded)
      PROVE  Tame
  <2>1. prompt' = prompt /\ requests' = requests
    BY <1>2 DEF ThreadStatus, ThreadAppears, promptVars
  <2>2. QED
    BY <2>1, SamePrompts, FewerTurns DEF Tame
<1>3. CASE BridgeState
  BY <1>3, SamePrompts, FewerTurns DEF Tame, BridgeState, promptVars
<1>4. ASSUME NEW t \in Thread, Reverted(t) PROVE Tame
  <2> DEFINE reads == {r \in On(t) : r.kind \in HistoryKinds}
  <2>1. DoneKept
    BY <1>4, RevertedClears, ClearsFacts DEF DoneKept
  <2>2. requests' = (requests \ reads) \cup Stale(reads) \cup {TurnsRequest(t, "not")}
    BY <1>4 DEF Reverted
  <2>3. \A s \in Stale(reads) : ~s.current
    <3>1. reads \in SUBSET requests
      BY DEF On
    <3>2. QED
      BY <3>1, StaleAsk
  <2>4. TurnsRequest(t, "not").kind # "turn"
    BY ReadRequests DEF IsRead, HistoryKinds
  <2>5. TurnsDispatched
    BY <2>2, <2>3, <2>4 DEF TurnsDispatched
  <2>6. QED
    BY <2>1, <2>5 DEF Tame
<1>5. ASSUME NEW t \in Thread, Deleted(t) PROVE Tame
  <2> DEFINE reads == {r \in On(t) : r.kind \in HistoryKinds}
  <2>1. DoneKept
    BY <1>5, DeletedClears, ClearsFacts DEF DoneKept
  <2>2. requests' = (requests \ reads) \cup Stale(reads)
    BY <1>5 DEF Deleted
  <2>3. \A s \in Stale(reads) : ~s.current
    <3>1. reads \in SUBSET requests
      BY DEF On
    <3>2. QED
      BY <3>1, StaleAsk
  <2>4. TurnsDispatched
    BY <2>2, <2>3 DEF TurnsDispatched
  <2>5. QED
    BY <2>1, <2>4 DEF Tame
<1>6. CASE NewGeneration
  <2>1. Idle /\ Reset /\ requests' = {}
    BY <1>6 DEF NewGeneration
  <2>2. QED
    BY <2>1, ResetFacts, FewerTurns DEF Tame, DoneKept
<1>7. CASE Disconnect
  <2>1. /\ Idle /\ Reset
        /\ requests' = Stale(requests) \cup {[r EXCEPT !.current = FALSE] :
                            r \in Requests("turn") \cup Requests("thread start")}
    BY <1>7 DEF Disconnect
  <2>2. \A s \in Stale(requests) : ~s.current
    <3>1. requests \in SUBSET requests
      OBVIOUS
    <3>2. QED
      BY <3>1, StaleAsk
  <2>3. \A r \in requests : ~[r EXCEPT !.current = FALSE].current
    <3> SUFFICES ASSUME NEW r \in requests PROVE ~[r EXCEPT !.current = FALSE].current
      OBVIOUS
    <3>1. r \in RequestRecord
      BY DEF PipelineInv, PipelineTypes, RequestTypes
    <3>2. QED
      BY <3>1, OutdatedFacts
  <2>4. TurnsDispatched
    BY <2>1, <2>2, <2>3 DEF TurnsDispatched, Requests
  <2>5. QED
    BY <2>1, <2>4, ResetFacts DEF Tame, DoneKept
<1>8. QED
  BY <1>1, <1>2, <1>3, <1>4, <1>5, <1>6, <1>7 DEF Environment

(* Every step is tame.                                                     *)
LEMMA NextTame ==
  ASSUME PipelineInv, [Next]_vars
  PROVE  Tame
<1>1. CASE UNCHANGED vars
  <2>1. prompt' = prompt /\ requests' = requests
    BY <1>1 DEF vars, promptVars
  <2>2. QED
    BY <2>1, SamePrompts, FewerTurns DEF Tame
<1>2. QED
  BY <1>1, DispatchTame, AnswerOnTame, AnswerForTame, UserTame, EnvironmentTame DEF Next

(* No prompt is sent twice, none overtakes another of its thread, and none *)
(* that needs recovery is revived: see SentOnceInOrder.                    *)
THEOREM TurnsOnceInOrder == Spec => SentOnceInOrder
<1> DEFINE Sends(p) ==
             SendsTurn(p) =>
               /\ ~prompt[p].sent
               /\ \A q \in 1 .. p - 1 : prompt[q].home = prompt[p].home =>
                    prompt[q].state \notin {"queued", "dispatching"}
           Recovers(p) ==
             prompt[p].recovery =>
               \/ prompt'[p].state = "gone"
               \/ prompt'[p].recovery /\ prompt'[p].state # "awaiting"
<1>1. ASSUME PipelineInv, [Next]_vars, NEW p \in Prompt PROVE Sends(p)
  <2> SUFFICES ASSUME SendsTurn(p)
               PROVE  /\ ~prompt[p].sent
                      /\ \A q \in 1 .. p - 1 : prompt[q].home = prompt[p].home =>
                           prompt[q].state \notin {"queued", "dispatching"}
    OBVIOUS
  <2>1. PICK n \in Node : DispatchTurn(n, p)
    BY <1>1, NextTame DEF Tame, TurnsDispatched, SendsTurn, NewTurns
  <2>2. InHand(n, p)
    BY <2>1 DEF DispatchTurn
  <2>3. ~prompt[p].sent /\ (Holds(p) \/ Done(p))
    BY <1>1, <2>2, InHandFacts
  <2>4. prompt[p].state # "queued"
    BY <1>1, <2>3, HolderFacts DEF PipelineInv
  <2>5. ASSUME NEW q \in 1 .. p - 1, prompt[q].home = prompt[p].home
        PROVE  prompt[q].state \notin {"queued", "dispatching"}
    <3>1. q \in Prompt /\ q < p
      BY MaxPromptsAssumption DEF Prompt
    <3>2. Behind(q, p)
      BY <1>1, <3>1 DEF PipelineInv, WorkInv, OrderInv
    <3>3. QED
      BY <2>4, <2>5, <3>2 DEF Behind
  <2>6. QED
    BY <2>3, <2>5
<1>2. ASSUME PipelineInv, PipelineInv', [Next]_vars, NEW p \in Prompt PROVE Recovers(p)
  <2>1. prompt[p].recovery => Done(p)'
    BY <1>2, NextTame DEF Tame, DoneKept, Done
  <2>2. WellFormed(prompt[p])'
    BY <1>2 DEF PipelineInv, WorkInv, StateInv
  <2>3. QED
    BY <2>1, <2>2 DEF Done, WellFormed
<1>3. PipelineInv /\ PipelineInv' /\ [Next]_vars =>
        [\A p \in Prompt :
           /\ SendsTurn(p) =>
                /\ ~prompt[p].sent
                /\ \A q \in 1 .. p - 1 : prompt[q].home = prompt[p].home =>
                     prompt[q].state \notin {"queued", "dispatching"}
           /\ prompt[p].recovery =>
                \/ prompt'[p].state = "gone"
                \/ prompt'[p].recovery /\ prompt'[p].state # "awaiting"]_vars
  BY <1>1, <1>2
<1>4. QED
  BY <1>3, PipelineInvariant, PTL DEF Spec, SentOnceInOrder
=============================================================================
