--------------------- MODULE ConversationProjectionProofs ---------------------
(***************************************************************************)
(* Proofs about ConversationProjection: for any threads and items and any  *)
(* worlds, what a pane commit or a projection has left to do is on its way *)
(* to be done, and rows are given to the selected thread only.             *)
(***************************************************************************)
EXTENDS ConversationProjection, TLAPS

(* What the others need to know of the values.                             *)
ProjectionTypes ==
  /\ revision \in Nat
  /\ live \in SUBSET Item
  /\ changedAt \in [Item -> Nat]
  /\ hydration \in [Thread -> {"loading", "ready", "failed"}]
  /\ bound \in Thread
  /\ DOMAIN flight = DOMAIN NoFlight
  /\ \E S \in SUBSET Item : flight.rows \in [S -> Nat]
  /\ DOMAIN stage = {"thread", "rows"}

(* What is being built is for the thread that is selected.                 *)
StageInv == stage # NoStage => stage.thread = bound

(* A structural change that waits to be placed keeps the pane commit at it.*)
DeltaInv == delta # NoDelta => pending

(* The two halves of WorkIsScheduled.                                      *)
CommitComes ==
  pending \/ items # <<>> \/ delta # NoDelta => commitScheduled \/ stage.thread = bound
ProjectionComes ==
  asked.any => start.due \/ retryScheduled \/ flight.thread # None

ProjectionInv ==
  ProjectionTypes /\ StageInv /\ DeltaInv /\ CommitComes /\ ProjectionComes

----------------------------------------------------------------------------
(* The rows of a set of items.                                             *)
LEMMA RowsOfFacts ==
  ASSUME ProjectionTypes, NEW S \in SUBSET Item
  PROVE  RowsOf(S) \in [S -> Nat]
  BY DEF RowsOf, ProjectionTypes

(* No rows are the empty sequence.                                         *)
LEMMA NoRows ==
  ASSUME NEW f, NEW S, f \in [S -> Nat], DOMAIN f = {}
  PROVE  f = <<>>
  OBVIOUS

(* A thread is shown and nothing is pending.                               *)
LEMMA ProjectionInit == PaneInit => ProjectionInv
<1> SUFFICES ASSUME PaneInit PROVE ProjectionInv
  OBVIOUS
<1>1. flight = NoFlight /\ stage = NoStage /\ delta = NoDelta /\ ~pending /\ items = <<>>
      /\ ~asked.any
  BY DEF PaneInit, NothingAsked
<1>2. <<>> \in [{} -> Nat] /\ {} \in SUBSET Item
  OBVIOUS
<1>3. \E S \in SUBSET Item : flight.rows \in [S -> Nat]
  BY <1>1, <1>2 DEF NoFlight
<1>4. DOMAIN stage = {"thread", "rows"} /\ DOMAIN flight = DOMAIN NoFlight
  BY <1>1 DEF NoStage
<1>5. revision \in Nat /\ live \in SUBSET Item /\ changedAt \in [Item -> Nat]
      /\ hydration \in [Thread -> {"loading", "ready", "failed"}] /\ bound \in Thread
  BY DEF PaneInit
<1>6. QED
  BY <1>1, <1>3, <1>4, <1>5
     DEF ProjectionInv, ProjectionTypes, StageInv, DeltaInv, CommitComes, ProjectionComes

(* A transaction of the worker leaves the Qt thread alone.                 *)
LEMMA WorkerStep ==
  ASSUME ProjectionInv, WorkerNext
  PROVE  ProjectionInv'
<1>1. /\ QtUnchanged
      /\ revision' = revision + 1
      /\ \/ changedAt' = changedAt
         \/ \E i \in Item : changedAt' = [changedAt EXCEPT ![i] = revision']
      /\ \/ live' = live
         \/ \E i \in Item : live' \in {live \cup {i}, live \ {i}}
      /\ \/ hydration' = hydration
         \/ \E t \in Thread, h \in {"loading", "ready", "failed"} :
              hydration' = [hydration EXCEPT ![t] = h]
  <2>1. CASE \E i \in Item : ChangeItem(i) \/ InsertItem(i) \/ RemoveItem(i)
    BY <2>1 DEF ChangeItem, InsertItem, RemoveItem, Committed
  <2>2. CASE ChangeElsewhere
    BY <2>2 DEF ChangeElsewhere, Committed
  <2>3. CASE \E t \in Thread : Hydrate(t) \/ HydrationFails(t)
    <3>1. PICK t \in Thread : Hydrate(t) \/ HydrationFails(t)
      BY <2>3
    <3>2. \E h \in {"loading", "ready", "failed"} : hydration' = [hydration EXCEPT ![t] = h]
      BY <3>1 DEF Hydrate, HydrationFails
    <3>3. /\ QtUnchanged /\ revision' = revision + 1 /\ changedAt' = changedAt /\ live' = live
      BY <3>1 DEF Hydrate, HydrationFails, Committed
    <3>4. QED
      BY <3>2, <3>3
  <2>4. QED
    BY <2>1, <2>2, <2>3 DEF WorkerNext
<1>2. UNCHANGED <<bound, pending, items, delta, commitScheduled, asked, start, retryScheduled,
                  flight, stage>>
  BY <1>1 DEF QtUnchanged, paneVars, askVars, viewVars
<1>3. revision' \in Nat /\ live' \in SUBSET Item /\ changedAt' \in [Item -> Nat]
  BY <1>1 DEF ProjectionInv, ProjectionTypes
<1>4. hydration' \in [Thread -> {"loading", "ready", "failed"}]
  BY <1>1 DEF ProjectionInv, ProjectionTypes
<1>5. ProjectionTypes'
  BY <1>2, <1>3, <1>4 DEF ProjectionInv, ProjectionTypes
<1>6. QED
  BY <1>2, <1>5 DEF ProjectionInv, StageInv, DeltaInv, CommitComes, ProjectionComes

----------------------------------------------------------------------------
(* Asking for a projection                                                 *)

(* Whoever asks starts a timer, or there is a projection whose end will.   *)
LEMMA AskFacts ==
  ASSUME NEW full, NEW left, Ask(full, left), flight' = flight
  PROVE  ProjectionComes'
<1>1. CASE flight.thread = None
  BY <1>1 DEF Ask, Due, ProjectionComes
<1>2. CASE flight.thread # None
  BY <1>2 DEF ProjectionComes
<1>3. QED
  BY <1>1, <1>2

(* Another refresh of the panes keeps what waits for a projection waiting, *)
(* and stages nothing new.                                                 *)
LEMMA RefreshFacts ==
  ASSUME ProjectionInv, NEW t \in Thread, NEW wait, Refresh(t, wait, NoStage),
         flight' = flight, retryScheduled' = retryScheduled
  PROVE  /\ stage' = NoStage
         /\ presented' # presented => presented' = t
         /\ ProjectionComes'
<1>1. hydration[t] \in {"loading", "ready", "failed"}
  BY DEF ProjectionInv, ProjectionTypes
<1>2. CASE hydration[t] = "failed"
  <2>1. presented' = t /\ stage' = NoStage /\ UNCHANGED <<asked, start>>
    BY <1>2 DEF Refresh
  <2>2. QED
    BY <2>1 DEF ProjectionInv, ProjectionComes
<1>3. CASE hydration[t] = "loading"
  <2>1. stage' = NoStage /\ UNCHANGED <<presented, asked, start>>
    BY <1>3 DEF Refresh
  <2>2. QED
    BY <2>1 DEF ProjectionInv, ProjectionComes
<1>4. CASE hydration[t] = "ready"
  <2>1. stage' = NoStage /\ presented' = presented /\ Ask(TRUE, {})
    BY <1>4 DEF Refresh
  <2>2. QED
    BY <2>1, AskFacts
<1>5. QED
  BY <1>1, <1>2, <1>3, <1>4

(* Another thread: nothing of the former one is kept.                      *)
LEMMA SelectStep ==
  ASSUME ProjectionInv, NEW t \in Thread, Select(t)
  PROVE  ProjectionInv' /\ (presented' # presented => presented' = bound')
<1>1. /\ bound' = t /\ items' = <<>> /\ delta' = NoDelta
      /\ UNCHANGED <<revision, live, changedAt, hydration, retryScheduled, flight>>
  BY DEF Select, graphVars
<1>2. \/ ~pending' /\ Refresh(t, t, NoStage)
      \/ /\ commitScheduled' = TRUE
         /\ stage' = NoStage /\ UNCHANGED <<presented, asked, start>>
  BY DEF Select
<1>3. /\ stage' = NoStage /\ ProjectionComes'
      /\ presented' # presented => presented' = t
      /\ ~pending' \/ commitScheduled'
  <2>1. CASE ~pending' /\ Refresh(t, t, NoStage)
    BY <2>1, <1>1, RefreshFacts
  <2>2. CASE commitScheduled' = TRUE /\ stage' = NoStage /\ UNCHANGED <<presented, asked, start>>
    BY <2>2, <1>1 DEF ProjectionInv, ProjectionComes
  <2>3. QED
    BY <1>2, <2>1, <2>2
<1>4. DOMAIN stage' = {"thread", "rows"}
  BY <1>3 DEF NoStage
<1>5. ProjectionTypes'
  BY <1>1, <1>4 DEF ProjectionInv, ProjectionTypes
<1>6. StageInv' /\ DeltaInv' /\ CommitComes'
  BY <1>1, <1>3 DEF StageInv, DeltaInv, CommitComes
<1>7. QED
  BY <1>1, <1>3, <1>5, <1>6 DEF ProjectionInv

(* The timer starts a projection; the pool thread reads the graph for it.  *)
LEMMA ProjectStep ==
  ASSUME ProjectionInv, StartProjection \/ ReadProjection \/ RetryProjection
  PROVE  ProjectionInv'
<1>1. UNCHANGED <<revision, live, changedAt, hydration, bound, pending, items, delta,
                  commitScheduled, stage>>
  BY DEF StartProjection, ReadProjection, RetryProjection, graphVars, paneVars, viewVars
<1>2. /\ DOMAIN flight = DOMAIN NoFlight
      /\ "thread" \in DOMAIN NoFlight /\ "rows" \in DOMAIN NoFlight
      /\ NoFlight.rows = <<>> /\ <<>> \in [{} -> Nat] /\ {} \in SUBSET Item
  BY DEF ProjectionInv, ProjectionTypes, NoFlight
<1>3. PICK S \in SUBSET Item : flight.rows \in [S -> Nat]
  BY DEF ProjectionInv, ProjectionTypes
<1>4. /\ DOMAIN flight' = DOMAIN NoFlight
      /\ \E R \in SUBSET Item : flight'.rows \in [R -> Nat]
      /\ ProjectionComes'
  <2>1. CASE StartProjection
    <3>1. CASE UNCHANGED <<asked, start, flight>>
      BY <2>1, <3>1, <1>2, <1>3 DEF StartProjection, ProjectionInv, ProjectionComes
    <3>2. CASE /\ asked' = NothingAsked
               /\ flight' = [NoFlight EXCEPT !.thread = bound, !.full = asked.full,
                                             !.after = routed]
      <4>1. DOMAIN flight' = DOMAIN NoFlight /\ flight'.rows = NoFlight.rows
        BY <3>2 DEF NoFlight
      <4>2. ~asked'.any
        BY <3>2 DEF NothingAsked
      <4>3. QED
        BY <4>1, <4>2, <1>2 DEF ProjectionComes
    <3>3. QED
      BY <2>1, <3>1, <3>2 DEF StartProjection
  <2>2. CASE ReadProjection
    <3>1. UNCHANGED <<asked, start, retryScheduled>>
      BY <2>2 DEF ReadProjection, askVars
    <3>2. /\ live \cap OfThread(flight.thread) \in SUBSET Item
          /\ flight.changed \cap live \in SUBSET Item
      BY DEF ProjectionInv, ProjectionTypes
    <3>3. /\ DOMAIN flight' = DOMAIN NoFlight /\ flight'.thread = flight.thread
          /\ flight'.rows = flight.rows \/ \E R \in SUBSET Item : flight'.rows = RowsOf(R)
      <4>1. CASE ReadSnapshot
        BY <1>2, <3>2, <4>1 DEF ReadSnapshot
      <4>2. CASE ListChanged
        BY <1>2, <4>2 DEF ListChanged
      <4>3. CASE ProjectChanged
        BY <1>2, <3>2, <4>3 DEF ProjectChanged
      <4>4. CASE ReadNothing
        BY <1>2, <4>4 DEF ReadNothing
      <4>5. QED
        BY <2>2, <4>1, <4>2, <4>3, <4>4 DEF ReadProjection
    <3>4. \E R \in SUBSET Item : flight'.rows \in [R -> Nat]
      BY <3>3, <1>3, RowsOfFacts DEF ProjectionInv
    <3>5. QED
      BY <3>1, <3>3, <3>4 DEF ProjectionInv, ProjectionComes
  <2>3. CASE RetryProjection
    <3>1. Ask(FALSE, Outstanding) /\ flight' = flight
      BY <2>3 DEF RetryProjection
    <3>2. QED
      BY <3>1, <1>2, <1>3, AskFacts
  <2>4. QED
    BY <2>1, <2>2, <2>3
<1>5. ProjectionTypes'
  BY <1>1, <1>4 DEF ProjectionInv, ProjectionTypes
<1>6. QED
  BY <1>1, <1>4, <1>5 DEF ProjectionInv, StageInv, DeltaInv, CommitComes

(* A projection is over: whatever was asked for meanwhile follows, and     *)
(* what it found for the selected thread is staged, or placed by a pane    *)
(* commit.                                                                 *)
LEMMA FinishStep ==
  ASSUME ProjectionInv, FinishProjection
  PROVE  ProjectionInv'
<1>1. /\ flight' = NoFlight
      /\ UNCHANGED <<revision, live, changedAt, hydration, bound>>
  BY DEF FinishProjection, graphVars
<1>2. DOMAIN flight' = DOMAIN NoFlight /\ \E S \in SUBSET Item : flight'.rows \in [S -> Nat]
  <2>1. <<>> \in [{} -> Nat] /\ {} \in SUBSET Item /\ NoFlight.rows = <<>>
    BY DEF NoFlight
  <2>2. QED
    BY <2>1, <1>1
<1>3. CASE ForAnotherThread \/ WithoutResult \/ Outdated
  <2>1. UNCHANGED <<pending, items, delta, commitScheduled, stage>>
    BY <1>3 DEF ForAnotherThread, WithoutResult, Outdated, paneVars, viewVars
  <2>2. ProjectionComes'
    <3>1. CASE ForAnotherThread
      BY <3>1 DEF ForAnotherThread, NextProjection, AskAgain, Due, ProjectionComes
    <3>2. CASE WithoutResult
      BY <3>2 DEF WithoutResult, ProjectionComes
    <3>3. CASE Outdated
      BY <3>3 DEF Outdated, AskAgain, Due, ProjectionComes
    <3>4. QED
      BY <1>3, <3>1, <3>2, <3>3
  <2>3. ProjectionTypes'
    BY <1>1, <1>2, <2>1 DEF ProjectionInv, ProjectionTypes
  <2>4. QED
    BY <1>1, <2>1, <2>2, <2>3 DEF ProjectionInv, StageInv, DeltaInv, CommitComes
<1>4. CASE Completed
  <2>1. /\ flight.thread = bound /\ ~asked.any /\ items' = <<>> /\ asked' = asked
    BY <1>4 DEF Completed, ForThisThread, askVars
  <2>2. ProjectionComes'
    BY <2>1 DEF ProjectionComes
  <2>3. CASE flight.full
    <3>1. /\ Stage([thread |-> flight.thread, rows |-> flight.rows])
          /\ ~pending' /\ delta' = NoDelta
      BY <1>4, <2>3 DEF Completed
    <3>2. \/ stage' = stage
          \/ stage'.thread = bound /\ DOMAIN stage' = {"thread", "rows"}
      BY <3>1, <2>1 DEF Stage
    <3>3. StageInv' /\ DOMAIN stage' = {"thread", "rows"}
      BY <3>2, <1>1 DEF ProjectionInv, ProjectionTypes, StageInv
    <3>4. ProjectionTypes'
      BY <1>1, <1>2, <3>3 DEF ProjectionInv, ProjectionTypes
    <3>5. DeltaInv' /\ CommitComes'
      BY <3>1, <2>1 DEF DeltaInv, CommitComes
    <3>6. QED
      BY <2>2, <3>3, <3>4, <3>5 DEF ProjectionInv
  <2>4. CASE ~flight.full
    <3>1. /\ stage' = stage
          /\ pending' = (DOMAIN flight.rows # {} \/ flight.removals # {})
          /\ delta' = [rows |-> flight.rows, removals |-> flight.removals]
          /\ commitScheduled' = (commitScheduled \/ pending')
      BY <1>4, <2>4 DEF Completed
    <3>2. ~pending' => delta' = NoDelta
      <4>1. SUFFICES ASSUME DOMAIN flight.rows = {}, flight.removals = {} PROVE delta' = NoDelta
        BY <3>1
      <4>2. flight.rows = <<>>
        BY <4>1, NoRows DEF ProjectionInv, ProjectionTypes
      <4>3. QED
        BY <4>1, <4>2, <3>1 DEF NoDelta
    <3>3. ProjectionTypes'
      BY <1>1, <1>2, <3>1 DEF ProjectionInv, ProjectionTypes
    <3>4. StageInv'
      BY <1>1, <3>1 DEF ProjectionInv, StageInv
    <3>5. DeltaInv' /\ CommitComes'
      BY <2>1, <3>1, <3>2 DEF DeltaInv, CommitComes
    <3>6. QED
      BY <2>2, <3>3, <3>4, <3>5 DEF ProjectionInv
  <2>5. QED
    BY <2>3, <2>4
<1>5. QED
  BY <1>3, <1>4 DEF FinishProjection

----------------------------------------------------------------------------
(* Changes from the worker                                                 *)

(* A route is replaced as a whole, left to the projection or taken up.     *)
LEMMA RouteCases ==
  ASSUME NEW route, QueueRoute(route)
  PROVE  ReplaceAuthority \/ LeaveToProjection \/ RouteItems(route)
  BY DEF QueueRoute

(* The handler schedules a pane commit for what it leaves pending.         *)
LEMMA HandlerStep ==
  ASSUME ProjectionInv, NEW change, Handle(change)
  PROVE  ProjectionInv'
<1>1. /\ QueueRoute(Route(change))
      /\ commitScheduled' = (commitScheduled \/ pending' \/ items' # <<>>
                             \/ change.removed # {})
      /\ UNCHANGED <<revision, live, changedAt, hydration, bound, retryScheduled, flight, stage>>
  BY DEF Handle, graphVars, viewVars
<1>2. PICK route : QueueRoute(route)
  BY <1>1
<1>3. /\ delta' = NoDelta \/ (delta' = delta /\ (pending => pending'))
      /\ ProjectionComes'
  <2>1. CASE ReplaceAuthority
    BY <2>1, <1>1, AskFacts DEF ReplaceAuthority
  <2>2. CASE LeaveToProjection
    <3>1. delta' = NoDelta /\ Ask(NeedsFull, {})
      BY <2>2 DEF LeaveToProjection
    <3>2. QED
      BY <3>1, <1>1, AskFacts
  <2>3. CASE RouteItems(route)
    <3>1. /\ pending' = (pending \/ (route.structural /\ route.items # {}))
          /\ UNCHANGED <<delta, asked, start>>
      BY <2>3 DEF RouteItems
    <3>2. QED
      BY <3>1, <1>1 DEF ProjectionInv, ProjectionComes
  <2>4. QED
    BY <1>2, <2>1, <2>2, <2>3, RouteCases
<1>4. ProjectionTypes' /\ StageInv'
  BY <1>1 DEF ProjectionInv, ProjectionTypes, StageInv
<1>5. DeltaInv'
  BY <1>3 DEF ProjectionInv, DeltaInv
<1>6. CommitComes'
  BY <1>1, <1>5 DEF CommitComes, DeltaInv
<1>7. QED
  BY <1>3, <1>4, <1>5, <1>6 DEF ProjectionInv

(* A queued change, the rescan, or the retired nodes that follow it.       *)
LEMMA DeliverStep ==
  ASSUME ProjectionInv, DeliverQueued \/ DeliverRescan \/ DeliverRetirements
  PROVE  ProjectionInv'
<1>1. CASE DeliverQueued
  BY <1>1, HandlerStep DEF DeliverQueued
<1>2. CASE DeliverRescan
  <2>1. /\ commitScheduled' = (commitScheduled \/ pending \/ items # <<>>)
        /\ UNCHANGED <<revision, live, changedAt, hydration, bound, pending, items, delta,
                       retryScheduled, flight, stage>>
    BY <1>2 DEF DeliverRescan, graphVars, paneVars, viewVars
  <2>2. Ask(presented # bound \/ routed = 0, Outstanding)
    BY <1>2 DEF DeliverRescan, RescanAsks
  <2>3. ProjectionComes'
    BY <2>1, <2>2, AskFacts
  <2>4. ProjectionTypes' /\ StageInv' /\ DeltaInv' /\ CommitComes'
    BY <2>1 DEF ProjectionInv, ProjectionTypes, StageInv, DeltaInv, CommitComes
  <2>5. QED
    BY <2>3, <2>4 DEF ProjectionInv
<1>3. CASE DeliverRetirements
  <2>1. CASE removed = {}
    <3>1. UNCHANGED <<revision, live, changedAt, hydration, bound, pending, items, delta,
                      commitScheduled, asked, start, retryScheduled, flight, stage>>
      BY <1>3, <2>1 DEF DeliverRetirements, graphVars, paneVars, askVars, viewVars
    <3>2. QED
      BY <3>1 DEF ProjectionInv, ProjectionTypes, StageInv, DeltaInv, CommitComes,
                  ProjectionComes
  <2>2. CASE removed # {}
    <3>1. Handle(Change(revision, {}, removed, {}))
      BY <1>3, <2>2 DEF DeliverRetirements
    <3>2. QED
      BY <3>1, HandlerStep
  <2>3. QED
    BY <2>1, <2>2
<1>4. QED
  BY <1>1, <1>2, <1>3

----------------------------------------------------------------------------
(* The view and the pane commit                                            *)

(* The last card of a stage is built: the rows are the selected thread's,  *)
(* and a pane commit follows if anything waited for it.                    *)
LEMMA CommitStageStep ==
  ASSUME ProjectionInv, CommitStage
  PROVE  ProjectionInv' /\ (presented' # presented => presented' = bound')
<1>1. /\ stage # NoStage /\ presented' = stage.thread /\ stage' = NoStage
      /\ commitScheduled' = (commitScheduled \/ WorkRemains)
      /\ UNCHANGED <<revision, live, changedAt, hydration, bound, pending, items, delta,
                     asked, start, retryScheduled, flight>>
  BY DEF CommitStage, graphVars, paneVars, askVars
<1>2. stage.thread = bound
  BY <1>1 DEF ProjectionInv, StageInv
<1>3. DOMAIN stage' = {"thread", "rows"}
  BY <1>1 DEF NoStage
<1>4. ProjectionTypes'
  BY <1>1, <1>3 DEF ProjectionInv, ProjectionTypes
<1>5. StageInv' /\ DeltaInv' /\ ProjectionComes'
  BY <1>1 DEF ProjectionInv, StageInv, DeltaInv, ProjectionComes
<1>6. CommitComes'
  <2>1. pending \/ items # <<>> \/ delta # NoDelta => pending \/ items # <<>>
    BY DEF ProjectionInv, DeltaInv
  <2>2. pending \/ items # <<>> => commitScheduled'
    BY <1>1, <1>2 DEF WorkRemains
  <2>3. QED
    BY <2>1, <2>2, <1>1 DEF CommitComes
<1>7. QED
  BY <1>1, <1>2, <1>4, <1>5, <1>6 DEF ProjectionInv

(* A pass of the pane commit leaves another one behind for what remains,   *)
(* unless the stage that is being built does.                              *)
LEMMA CommitPanesStep ==
  ASSUME ProjectionInv, CommitPanes
  PROVE  ProjectionInv' /\ (presented' # presented => presented' = bound')
<1>1. /\ UNCHANGED <<revision, live, changedAt, hydration, bound, retryScheduled, flight>>
      /\ commitScheduled' =
           \/ locked' # locked
           \/ stage' = NoStage /\ (pending' \/ items' # <<>> \/ delta' # NoDelta)
      /\ PresentRows \/ PlaceRows \/ ProjectRows \/ ReplaceRows \/ NothingToCommit
  BY DEF CommitPanes, graphVars
<1>2. /\ DOMAIN stage' = {"thread", "rows"} /\ (stage' # NoStage => stage'.thread = bound)
      /\ DeltaInv' /\ ProjectionComes'
      /\ presented' # presented => presented' = bound
  <2>1. CASE PresentRows
    <3>1. /\ UNCHANGED <<delta, asked, start, presented>> /\ ~pending
      BY <2>1 DEF PresentRows
    <3>2. \/ stage' = stage
          \/ Staged /\ \E shown : stage' = [stage EXCEPT !.rows = shown]
      BY <2>1 DEF PresentRows
    <3>3. /\ DOMAIN stage' = {"thread", "rows"} /\ (stage' # NoStage => stage'.thread = bound)
      <4>1. CASE stage' = stage
        BY <4>1 DEF ProjectionInv, ProjectionTypes, StageInv
      <4>2. CASE Staged /\ \E shown : stage' = [stage EXCEPT !.rows = shown]
        <5>1. DOMAIN stage' = DOMAIN stage /\ stage'.thread = stage.thread
          BY <4>2 DEF ProjectionInv, ProjectionTypes
        <5>2. QED
          BY <5>1, <4>2 DEF Staged, ProjectionInv, ProjectionTypes
      <4>3. QED
        BY <3>2, <4>1, <4>2
    <3>4. DeltaInv' /\ ProjectionComes'
      BY <3>1, <1>1 DEF ProjectionInv, DeltaInv, ProjectionComes
    <3>5. QED
      BY <3>1, <3>3, <3>4
  <2>2. CASE PlaceRows
    <3>1. delta' = NoDelta /\ UNCHANGED <<asked, start, presented, stage>>
      BY <2>2 DEF PlaceRows
    <3>2. QED
      BY <3>1, <1>1 DEF ProjectionInv, ProjectionTypes, StageInv, DeltaInv, ProjectionComes
  <2>3. CASE ProjectRows
    <3>1. pending /\ UNCHANGED <<pending, asked, start, presented, stage>>
      BY <2>3 DEF ProjectRows, viewVars
    <3>2. QED
      BY <3>1, <1>1 DEF ProjectionInv, ProjectionTypes, StageInv, DeltaInv, ProjectionComes
  <2>4. CASE ReplaceRows
    <3>1. /\ delta' = NoDelta /\ stage = NoStage
          /\ \/ Refresh(bound, loading, stage)
             \/ UNCHANGED <<asked, start, presented, stage>>
      BY <2>4 DEF ReplaceRows, Busy, viewVars
    <3>2. DeltaInv'
      BY <3>1 DEF DeltaInv
    <3>3. CASE Refresh(bound, loading, stage)
      <4>1. bound \in Thread /\ Refresh(bound, loading, NoStage)
        BY <3>1, <3>3 DEF ProjectionInv, ProjectionTypes
      <4>2. /\ stage' = NoStage /\ ProjectionComes'
            /\ presented' # presented => presented' = bound
        BY <4>1, <1>1, RefreshFacts
      <4>3. DOMAIN stage' = {"thread", "rows"}
        BY <4>2 DEF NoStage
      <4>4. QED
        BY <4>2, <4>3, <3>2
    <3>4. CASE UNCHANGED <<asked, start, presented, stage>>
      BY <3>2, <3>4, <1>1 DEF ProjectionInv, ProjectionTypes, StageInv, ProjectionComes
    <3>5. QED
      BY <3>1, <3>3, <3>4
  <2>5. CASE NothingToCommit
    <3>1. UNCHANGED <<pending, delta, asked, start, presented, stage>>
      BY <2>5 DEF NothingToCommit, paneVars, viewVars
    <3>2. QED
      BY <3>1, <1>1 DEF ProjectionInv, ProjectionTypes, StageInv, DeltaInv, ProjectionComes
  <2>6. QED
    BY <1>1, <2>1, <2>2, <2>3, <2>4, <2>5
<1>3. ProjectionTypes'
  BY <1>1, <1>2 DEF ProjectionInv, ProjectionTypes
<1>4. StageInv' /\ CommitComes'
  BY <1>1, <1>2 DEF StageInv, CommitComes
<1>5. QED
  BY <1>1, <1>2, <1>3, <1>4 DEF ProjectionInv

----------------------------------------------------------------------------
(* What is proved of every behaviour                                       *)

(* Only a selection and a committed stage change the thread that has the   *)
(* rows, and the bookkeeping of pending work survives every step.          *)
LEMMA ProjectionStep ==
  ASSUME ProjectionInv, [PaneNext]_conversationVars
  PROVE  ProjectionInv' /\ (presented' # presented => presented' = bound')
<1>1. CASE WorkerNext
  <2>1. presented' = presented
    <3>1. QtUnchanged
      BY <1>1 DEF WorkerNext, ChangeItem, InsertItem, RemoveItem, Hydrate, HydrationFails,
                  ChangeElsewhere
    <3>2. QED
      BY <3>1 DEF QtUnchanged, viewVars
  <2>2. QED
    BY <1>1, <2>1, WorkerStep
<1>2. CASE \E t \in Thread : Select(t)
  BY <1>2, SelectStep
<1>3. CASE StartProjection \/ ReadProjection \/ RetryProjection
  <2>1. presented' = presented
    BY <1>3 DEF StartProjection, ReadProjection, RetryProjection, viewVars
  <2>2. QED
    BY <1>3, <2>1, ProjectStep
<1>4. CASE FinishProjection
  <2>1. presented' = presented
    BY <1>4 DEF FinishProjection, ForAnotherThread, WithoutResult, Outdated, Completed, viewVars
  <2>2. QED
    BY <1>4, <2>1, FinishStep
<1>5. CASE DeliverQueued \/ DeliverRescan \/ DeliverRetirements
  <2>1. presented' = presented
    BY <1>5 DEF DeliverQueued, DeliverRescan, DeliverRetirements, Handle, viewVars
  <2>2. QED
    BY <1>5, <2>1, DeliverStep
<1>6. CASE CommitStage
  BY <1>6, CommitStageStep
<1>7. CASE CommitPanes
  BY <1>7, CommitPanesStep
<1>8. CASE UNCHANGED conversationVars
  <2>1. UNCHANGED <<revision, live, changedAt, hydration, bound, pending, items, delta,
                    commitScheduled, asked, start, retryScheduled, flight, stage, presented>>
    BY <1>8 DEF conversationVars, graphVars, paneVars, askVars, viewVars
  <2>2. QED
    BY <2>1 DEF ProjectionInv, ProjectionTypes, StageInv, DeltaInv, CommitComes, ProjectionComes
<1>9. QED
  BY <1>1, <1>2, <1>3, <1>4, <1>5, <1>6, <1>7, <1>8 DEF PaneNext, QtNext

(* The bookkeeping of the conversation pane holds at all times.            *)
THEOREM ProjectionInvariant == PaneSpec => []ProjectionInv
<1>1. ProjectionInv /\ [PaneNext]_conversationVars => ProjectionInv'
  BY ProjectionStep
<1>2. QED
  BY ProjectionInit, <1>1, PTL DEF PaneSpec

(* What is pending is on a timer, or waits for a stage or a projection     *)
(* that will look at it when it is over.                                   *)
THEOREM NothingLeftPending == PaneSpec => []WorkIsScheduled
<1>1. ProjectionInv => WorkIsScheduled
  BY DEF ProjectionInv, CommitComes, ProjectionComes, WorkIsScheduled
<1>2. QED
  BY ProjectionInvariant, <1>1, PTL

(* Rows are handed to the selected thread only, however late a projection  *)
(* ends or a stage is built.                                               *)
THEOREM NoLateRows == PaneSpec => PresentsTheSelected
<1>1. ProjectionInv /\ [PaneNext]_conversationVars => [presented' # presented => presented' = bound']_conversationVars
  BY ProjectionStep
<1>2. QED
  BY ProjectionInvariant, <1>1, PTL DEF PaneSpec, PresentsTheSelected
=============================================================================
