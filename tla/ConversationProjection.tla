----------------------- MODULE ConversationProjection -----------------------
(***************************************************************************)
(* How the rows of the selected thread reach the conversation view:        *)
(* ShellWidget's routing and projection of graph changes, the projections  *)
(* NodeGraphUiAdapter computes, and the staging of ConversationView.       *)
(*                                                                         *)
(* A row is an item with the graph revision its content is of.  A delivery *)
(* is one step (FrontendSession takes it apart); a projection reads the    *)
(* graph on the pool thread, once for all rows and twice for what changed; *)
(* a stage has been built or not.                                          *)
(* The order of the rows and the placement of a change among them are not  *)
(* modelled: a structural change is placed or refused.                     *)
(* Timers only order: one that is due may fire at any time.                *)
(*                                                                         *)
(* Not here: the thread, inspector and request panes, pages of history,    *)
(* prompts that become items, threads that are removed.                    *)
(***************************************************************************)
EXTENDS Naturals, Sequences, FiniteSets, SequencesExt

CONSTANTS
  Thread, Item,
  ThreadOf,       (* Item -> Thread                                         *)
  PassRows,       (* ConversationPresentationRowsPerPass                    *)
  Worlds          (* what may happen, among "rescan", "load", "refuse", and *)
                  (* the bounds: transactions the worker commits, other     *)
                  (* threads selected, reads that find the graph locked     *)

VARIABLES
  (* NodeGraph *)
  revision, live, removed,
  changedAt,      (* changedRevision of an item                             *)
  structuredAt,   (* structureChangedRevision of an item                    *)
  hydration,      (* hydrationState of a thread                             *)
  hydratedAt,     (* the revision that field last changed at                *)
  (* between the worker and the handler *)
  queue, rescan,
  retirements,    (* rescanRetirementPending                                *)
  (* ShellWidget *)
  bound,          (* boundGraphThread                                       *)
  routed,         (* routedConversationRevision                             *)
  pending,        (* pendingConversation                                    *)
  replacing,      (* pendingConversationAuthorityReplacement                *)
  items,          (* pendingConversationItems                               *)
  delta,          (* pendingStructuralConversationDelta                     *)
  commitScheduled,
  asked,          (* conversationProjectionRequested, ...Full..Requested    *)
  start,          (* conversationProjectionStartScheduled: due, and after   *)
                  (* which of the rows a pane commit has outstanding        *)
  retryScheduled, (* the timer a projection that failed leaves behind       *)
  flight,         (* the projection in flight                               *)
  (* ConversationView *)
  presented, rows, loading, stage,
  (* the bounds *)
  selections, locked, world

graphVars == <<revision, live, removed, changedAt, structuredAt, hydration, hydratedAt>>
deliveryVars == <<queue, rescan, retirements>>
paneVars == <<routed, pending, replacing, items, delta>>
askVars == <<asked, start, retryScheduled>>
viewVars == <<presented, rows, loading, stage>>
conversationVars ==
  <<graphVars, deliveryVars, bound, paneVars, commitScheduled, askVars,
    flight, viewVars, selections, locked, world>>

None == "none"
NoDelta == [rows |-> <<>>, removals |-> {}]
NoFlight == [thread |-> None, full |-> FALSE, after |-> 0,
             listed |-> FALSE, changed |-> {}, read |-> FALSE,
             found |-> FALSE, revision |-> 0, rows |-> <<>>, removals |-> {}]
NoStage == [thread |-> None, rows |-> <<>>]
NotDue == [due |-> FALSE, after |-> {}]
NothingAsked == [any |-> FALSE, full |-> FALSE]

OfThread(t) == {i \in Item : ThreadOf[i] = t}
Elements(s) == {s[k] : k \in DOMAIN s}

(* conversation(): the rows of a thread, each with its present content.    *)
RowsOf(set) == [i \in set |-> changedAt[i]]

(* A thread is shown; another may be selected. *)
PaneInit ==
  /\ revision = 1 /\ live \in SUBSET Item /\ removed = {}
  /\ changedAt = [i \in Item |-> 1] /\ structuredAt = [i \in Item |-> 1]
  /\ hydration \in [Thread -> {"loading", "ready"}]
  /\ hydratedAt = [t \in Thread |-> 1]
  /\ queue = <<>> /\ rescan = FALSE /\ retirements = FALSE
  /\ bound \in {t \in Thread : hydration[t] = "ready"}
  /\ routed = 1 /\ pending = FALSE /\ replacing = FALSE /\ items = <<>>
  /\ delta = NoDelta /\ commitScheduled = FALSE
  /\ asked = NothingAsked /\ start = NotDue /\ retryScheduled = FALSE
  /\ flight = NoFlight
  /\ presented = bound /\ rows = RowsOf(live \cap OfThread(bound))
  /\ loading = None /\ stage = NoStage
  /\ selections = 0 /\ locked = 0 /\ world \in Worlds

----------------------------------------------------------------------------
(* The worker *)

Change(r, affected, gone, threads) ==
  [revision |-> r, affected |-> affected, removed |-> gone, threads |-> threads]

(* sendGraphChanged: queued, or folded into the rescan word. *)
Send(change) ==
  \/ queue' = Append(queue, change) /\ UNCHANGED rescan
  \/ "rescan" \in world.may /\ rescan' = TRUE /\ UNCHANGED queue

Committed == revision < world.revisions /\ revision' = revision + 1

QtUnchanged ==
  UNCHANGED <<retirements, bound, paneVars, commitScheduled, askVars, flight,
              viewVars, selections, locked, world>>

ChangeItem(i) ==
  /\ Committed
  /\ i \in live
  /\ changedAt' = [changedAt EXCEPT ![i] = revision']
  /\ Send(Change(revision', {i}, {}, {}))
  /\ UNCHANGED <<live, removed, structuredAt, hydration, hydratedAt>>
  /\ QtUnchanged

InsertItem(i) ==
  /\ Committed
  /\ i \notin live \cup removed
  /\ live' = live \cup {i}
  /\ changedAt' = [changedAt EXCEPT ![i] = revision']
  /\ structuredAt' = [structuredAt EXCEPT ![i] = revision']
  /\ Send(Change(revision', {i}, {}, {}))
  /\ UNCHANGED <<removed, hydration, hydratedAt>>
  /\ QtUnchanged

RemoveItem(i) ==
  /\ Committed
  /\ i \in live
  /\ live' = live \ {i}
  /\ removed' = removed \cup {i}
  /\ Send(Change(revision', {}, {i}, {}))
  /\ UNCHANGED <<changedAt, structuredAt, hydration, hydratedAt>>
  /\ QtUnchanged

(* A thread begins to load, by its selection or by Reload, or has loaded.  *)
(* The history request is pending exactly while it loads.                  *)
Hydrate(t) ==
  /\ Committed
  /\ "load" \in world.may
  /\ hydration' = [hydration EXCEPT ![t] =
       IF @ = "loading" THEN "ready" ELSE "loading"]
  /\ hydratedAt' = [hydratedAt EXCEPT ![t] = revision']
  /\ Send(Change(revision', {}, {}, {t}))
  /\ UNCHANGED <<live, removed, changedAt, structuredAt>>
  /\ QtUnchanged

HydrationFails(t) ==
  /\ Committed
  /\ "load" \in world.may
  /\ hydration[t] = "loading"
  /\ hydration' = [hydration EXCEPT ![t] = "failed"]
  /\ hydratedAt' = [hydratedAt EXCEPT ![t] = revision']
  /\ Send(Change(revision', {}, {}, {t}))
  /\ UNCHANGED <<live, removed, changedAt, structuredAt>>
  /\ QtUnchanged

(* Anything the conversation does not show: another pane's business.       *)
ChangeElsewhere ==
  /\ Committed
  /\ Send(Change(revision', {}, {}, {}))
  /\ UNCHANGED <<live, removed, changedAt, structuredAt, hydration, hydratedAt>>
  /\ QtUnchanged

WorkerNext ==
  \/ \E i \in Item : ChangeItem(i) \/ InsertItem(i) \/ RemoveItem(i)
  \/ \E t \in Thread : Hydrate(t) \/ HydrationFails(t)
  \/ ChangeElsewhere

----------------------------------------------------------------------------
(* ShellWidget: asking for a projection *)

(* What a pane commit has yet to do to single rows. *)
Outstanding == Elements(items) \cup DOMAIN delta.rows \cup delta.removals

(* requestConversationProjection: the timer that starts it is the last one *)
(* asked for, and none is while a projection is in flight.  A complete one *)
(* starts at once; any other waits for 500 ms, in which the passes of the  *)
(* pane commit (one in 16 ms) do what is left for them.                    *)
Due(full, left) == [due |-> TRUE, after |-> IF full THEN {} ELSE left]

Ask(full, left) ==
  /\ asked' = [any |-> TRUE, full |-> asked.full \/ full]
  /\ start' = IF flight.thread = None THEN Due(full, left) ELSE start

AskAgain(full) ==
  /\ asked' = [any |-> TRUE, full |-> asked.full \/ full]
  /\ start' = Due(full, Outstanding)

(* refreshConversation, of a thread t the graph could be read for: a       *)
(* failed thread shows no rows, a loading one keeps the overlay up, and a  *)
(* ready one asks for a complete projection.  The view waits for wait, and *)
(* builds the stage built.                                                 *)
Refresh(t, wait, built) ==
  CASE hydration[t] = "failed" ->
         /\ presented' = t /\ rows' = <<>> /\ loading' = None /\ stage' = NoStage
         /\ UNCHANGED <<asked, start>>
    [] hydration[t] = "loading" ->
         /\ loading' = t /\ stage' = IF wait = t THEN built ELSE NoStage
         /\ UNCHANGED <<presented, rows, asked, start>>
    [] hydration[t] = "ready" ->
         /\ loading' = wait /\ stage' = built
         /\ UNCHANGED <<presented, rows>>
         /\ Ask(TRUE, {})

ReadFails == locked < world.locks /\ locked' = locked + 1
ReadWorks == UNCHANGED locked

(* Another thread is selected: bindGraphPanes.  What was pending for the   *)
(* former is dropped, and what was staged.                                 *)
Select(t) ==
  /\ t # bound
  /\ selections < world.selections /\ selections' = selections + 1
  /\ bound' = t
  /\ routed' = 0 /\ items' = <<>> /\ delta' = NoDelta
  /\ \/ /\ ReadWorks
        /\ pending' = FALSE /\ replacing' = FALSE
        /\ UNCHANGED commitScheduled
        /\ Refresh(t, t, NoStage)
     \/ /\ ReadFails
        /\ pending' = TRUE /\ replacing' = TRUE /\ commitScheduled' = TRUE
        /\ loading' = t /\ stage' = NoStage
        /\ UNCHANGED <<presented, rows, asked, start>>
  /\ UNCHANGED <<graphVars, deliveryVars, retryScheduled, flight, world>>

(* startConversationSnapshot, by its timer.  A graph that is locked and a  *)
(* thread that loads keep it waiting.                                      *)
StartProjection ==
  /\ start.due
  /\ start.after \cap Outstanding = {}
  /\ IF hydration[bound] = "loading"
       THEN UNCHANGED <<asked, start, flight>>
       ELSE /\ start' = NotDue
            /\ asked' = NothingAsked
            /\ flight' = [NoFlight EXCEPT !.thread = bound, !.full = asked.full,
                                          !.after = routed]
  /\ UNCHANGED <<graphVars, deliveryVars, bound, paneVars, commitScheduled,
                 retryScheduled, viewVars, selections, locked, world>>

(* On the pool thread: conversation().                                     *)
ReadSnapshot ==
  /\ flight.full
  /\ flight' = [flight EXCEPT !.read = TRUE, !.found = TRUE, !.revision = revision,
                              !.rows = RowsOf(live \cap OfThread(flight.thread))]

(* ... or conversationDeltaSince(), which finds nothing when no revision   *)
(* has been routed.  It lists what changed and gives the graph up ...      *)
Changed(t, after) ==
  {i \in live \cap OfThread(t) : changedAt[i] > after \/ structuredAt[i] > after}

ListChanged ==
  /\ ~flight.full /\ flight.after # 0 /\ ~flight.listed
  /\ flight' = [flight EXCEPT !.listed = TRUE,
                              !.changed = Changed(flight.thread, flight.after)]
(* ... for conversationDelta() to read it anew: what was listed is         *)
(* projected from there, and what is gone by then is a removal.            *)
ProjectChanged ==
  /\ flight.listed
  /\ flight' = [flight EXCEPT !.read = TRUE, !.found = TRUE, !.listed = FALSE, !.changed = {},
                              !.rows = RowsOf(flight.changed \cap live),
                              !.removals = flight.changed \ live]

ReadNothing == flight' = [flight EXCEPT !.read = TRUE, !.listed = FALSE, !.changed = {}]

ReadProjection ==
  /\ flight.thread # None /\ ~flight.read
  /\ \/ ReadWorks /\ (ReadSnapshot \/ ListChanged \/ ProjectChanged)
     \/ ReadWorks /\ ~flight.full /\ flight.after = 0 /\ ReadNothing
     \/ ReadFails /\ ReadNothing
  /\ UNCHANGED <<graphVars, deliveryVars, bound, paneVars, commitScheduled,
                 askVars, viewVars, selections, world>>

(* The completion on the Qt thread.  It gives up for a thread no longer    *)
(* selected, for a result it lacks, and for a newer request.               *)

(* Mutant: a result is taken for whatever thread is selected by now. *)
ForWhichever == TRUE
ForThisThread == flight.thread = bound

(* Mutant: what was asked for meanwhile is forgotten. *)
NoNextProjection == UNCHANGED <<asked, start>>
NextProjection ==
  IF asked.any THEN AskAgain(TRUE) ELSE UNCHANGED <<asked, start>>

ForAnotherThread ==
  /\ ~ForThisThread
  /\ NextProjection
  /\ UNCHANGED <<paneVars, commitScheduled, retryScheduled, viewVars, locked>>

WithoutResult ==
  /\ ForThisThread
  /\ \/ ReadWorks /\ (~flight.found \/ hydration[bound] = "loading")
     \/ ReadFails
  /\ asked' = [any |-> TRUE, full |-> asked.full \/ flight.full]
  /\ retryScheduled' = TRUE
  /\ UNCHANGED <<paneVars, commitScheduled, start, viewVars>>

Outdated ==
  /\ ForThisThread /\ flight.found /\ hydration[bound] # "loading"
  /\ asked.any
  /\ AskAgain(flight.full)
  /\ UNCHANGED <<paneVars, commitScheduled, retryScheduled, viewVars, locked>>

(* reconcileStaged of a complete snapshot: stageSnapshot *)
Stage(snapshot) ==
  IF loading # None /\ loading # snapshot.thread
    THEN UNCHANGED <<loading, stage>>
    ELSE /\ stage' = snapshot
         /\ loading' = IF snapshot.thread # presented THEN snapshot.thread ELSE loading

Completed ==
  /\ ForThisThread /\ flight.found /\ hydration[bound] # "loading"
  /\ ~asked.any
  /\ replacing' = FALSE /\ items' = <<>>
  /\ IF flight.full
       THEN /\ Stage([thread |-> flight.thread, rows |-> flight.rows])
            /\ routed' = flight.revision
            /\ pending' = FALSE /\ delta' = NoDelta
            /\ UNCHANGED commitScheduled
       ELSE /\ UNCHANGED <<routed, loading, stage>>
            /\ pending' = (DOMAIN flight.rows # {} \/ flight.removals # {})
            /\ delta' = [rows |-> flight.rows, removals |-> flight.removals]
            /\ commitScheduled' = (commitScheduled \/ pending')
  /\ UNCHANGED <<askVars, presented, rows, locked>>

FinishProjection ==
  /\ flight.read
  /\ flight' = NoFlight
  /\ ForAnotherThread \/ WithoutResult \/ Outdated \/ Completed
  /\ UNCHANGED <<graphVars, deliveryVars, bound, selections, world>>

RetryProjection ==
  /\ retryScheduled
  /\ retryScheduled' = FALSE
  /\ Ask(FALSE, Outstanding)
  /\ UNCHANGED <<graphVars, deliveryVars, bound, paneVars, commitScheduled,
                 flight, viewVars, selections, locked, world>>

----------------------------------------------------------------------------
(* ShellWidget::handleGraphChanged *)

(* requestConversationRescan *)
RescanAsks ==
  Ask(presented # bound \/ routed = 0, Outstanding)

(* conversationRoute, with the retired nodes the view holds.  A node that  *)
(* has changed again since is judged by its present state.                 *)
Held(i) == i \in DOMAIN rows \cup DOMAIN stage.rows
Route(change) ==
  LET gone == {i \in change.removed : ThreadOf[i] = bound \/ Held(i)}
      named == {i \in change.affected : ThreadOf[i] = bound} \cup gone
  IN [items |-> named,
      structural |-> gone # {}
        \/ \E i \in named : i \notin live \/ structuredAt[i] = change.revision,
      authority |-> bound \in change.threads /\ hydratedAt[bound] = change.revision,
      revision |-> change.revision]

NeedsFull == \/ presented # bound \/ stage # NoStage
             \/ flight.full \/ asked.full

(* Mutant: a removal or an insertion does not wait for the projection. *)
OwnsNothing == FALSE
OwnsStructure == NeedsFull \/ asked.any \/ flight.thread # None \/ start.due

ReplaceAuthority ==
  /\ pending' = FALSE /\ replacing' = FALSE /\ items' = <<>> /\ delta' = NoDelta
  /\ Ask(TRUE, {})
  /\ UNCHANGED routed

LeaveToProjection ==
  /\ items' = <<>> /\ delta' = NoDelta
  /\ Ask(NeedsFull, {})
  /\ UNCHANGED <<routed, pending, replacing>>

RouteItems(route) ==
  LET news == route.items \ Elements(items)
      ahead == route.structural /\ route.items # {}
  IN /\ routed' = IF route.revision > routed THEN route.revision ELSE routed
     /\ pending' = (pending \/ ahead)
     /\ replacing' = (replacing /\ ~ahead)
     /\ IF replacing' THEN UNCHANGED items
        ELSE \E order \in SetToSeqs(news) : items' = items \o order
     /\ UNCHANGED <<delta, asked, start>>

(* queueConversationRoute *)
QueueRoute(route) ==
  CASE route.authority -> ReplaceAuthority
    [] ~route.authority /\ OwnsStructure /\ route.structural /\ route.items # {} ->
         LeaveToProjection
    [] OTHER -> RouteItems(route)

Handle(change) ==
  /\ QueueRoute(Route(change))
  /\ commitScheduled' = (commitScheduled \/ pending' \/ items' # <<>>
                         \/ change.removed # {})
  /\ UNCHANGED <<graphVars, bound, retryScheduled, flight, viewVars, selections, locked, world>>

DeliverQueued ==
  /\ queue # <<>>
  /\ Handle(Head(queue))
  /\ queue' = Tail(queue)
  /\ UNCHANGED <<rescan, retirements>>

(* The rescan overtakes what is queued; the retired nodes follow it. *)
DeliverRescan ==
  /\ rescan /\ rescan' = FALSE
  /\ retirements' = TRUE
  /\ RescanAsks
  /\ commitScheduled' = (commitScheduled \/ pending \/ items # <<>>)
  /\ UNCHANGED <<graphVars, queue, bound, paneVars, retryScheduled, flight,
                 viewVars, selections, locked, world>>

DeliverRetirements ==
  /\ retirements /\ retirements' = FALSE
  /\ IF removed = {}
       THEN UNCHANGED <<graphVars, bound, paneVars, commitScheduled, askVars,
                        flight, viewVars, selections, locked, world>>
       ELSE Handle(Change(revision, {}, removed, {}))
  /\ UNCHANGED <<queue, rescan>>

----------------------------------------------------------------------------
(* ConversationView *)

(* applyConversationDelta of presentations: refused for another thread, and*)
(* when a row is missing where it should be.                               *)
Staged == stage.thread = bound
CanPresent(cards) ==
  /\ Staged \/ presented = bound
  /\ \A i \in DOMAIN cards : presented = bound =>
       i \in DOMAIN rows \/ (Staged /\ i \in DOMAIN stage.rows)

Updated(shown, cards) ==
  [i \in DOMAIN shown |-> IF i \in DOMAIN cards THEN cards[i] ELSE shown[i]]

(* ... and of structure. *)
CanPlace == stage = NoStage /\ presented = bound
Placed(shown, change) ==
  [i \in (DOMAIN shown \ change.removals) \cup DOMAIN change.rows |->
     IF i \in DOMAIN change.rows THEN change.rows[i] ELSE shown[i]]

(* reconciliationFinishedAction: what waited for the stage is there.       *)
(* Mutant: only an overlay that is still up is looked at. *)
LoadingRemains == bound = stage.thread /\ loading = bound
WorkRemains == bound = stage.thread /\ (pending \/ items # <<>> \/ loading = bound)

(* runCardAdmissionPass when the last card is built: reconcileOwned.       *)
CommitStage ==
  /\ stage # NoStage
  /\ presented' = stage.thread /\ rows' = stage.rows
  /\ loading' = IF loading \in {None, stage.thread} THEN None ELSE loading
  /\ stage' = NoStage
  /\ commitScheduled' = (commitScheduled \/ WorkRemains)
  /\ UNCHANGED <<graphVars, deliveryVars, bound, paneVars, askVars, flight,
                 selections, locked, world>>

----------------------------------------------------------------------------
(* ShellWidget::commitPendingPanes: a pass does the first of these there   *)
(* is to do (the frame budget may end it there) and leaves another pass    *)
(* behind for what remains, which a stage that is being built does itself. *)

Busy == stage # NoStage
Batch == SubSeq(items, 1, IF Len(items) < PassRows THEN Len(items) ELSE PassRows)
Rest == SubSeq(items, Len(Batch) + 1, Len(items))

(* Ordinary changes: conversationDelta of the next rows, those still live. *)
PresentRows ==
  /\ ~pending /\ items # <<>>
  /\ LET cards == RowsOf(Elements(Batch) \cap live \cap OfThread(bound))
     IN \/ /\ ReadWorks
           /\ CanPresent(cards)
           /\ items' = Rest /\ UNCHANGED pending
           /\ rows' = IF presented = bound THEN Updated(rows, cards) ELSE rows
           /\ stage' = IF Staged THEN [stage EXCEPT !.rows = Updated(@, cards)] ELSE stage
        \/ /\ ReadWorks
           /\ ~CanPresent(cards)
           /\ pending' = TRUE /\ UNCHANGED <<items, rows, stage>>
        \/ /\ ReadFails
           /\ UNCHANGED <<items, pending, rows, stage>>
  /\ UNCHANGED <<routed, replacing, delta, asked, start, presented, loading>>

(* A structural change is placed, or else the whole is projected anew. *)
PlaceRows ==
  /\ delta # NoDelta /\ ~Busy
  /\ \/ /\ CanPlace
        /\ rows' = Placed(rows, delta)
        /\ pending' = (items # <<>>) /\ replacing' = FALSE /\ UNCHANGED items
     \/ /\ ~CanPlace \/ "refuse" \in world.may
        /\ pending' = TRUE /\ replacing' = TRUE /\ items' = <<>> /\ UNCHANGED rows
  /\ delta' = NoDelta
  /\ UNCHANGED <<routed, asked, start, presented, loading, stage, locked>>

(* The next structural change is projected. *)
ProjectRows ==
  /\ pending /\ ~replacing /\ delta = NoDelta /\ items # <<>> /\ ~Busy
  /\ \/ /\ ReadWorks
        /\ delta' = [rows |-> RowsOf(Elements(Batch) \cap live \cap OfThread(bound)),
                     removals |-> Elements(Batch) \ (live \cap OfThread(bound))]
        /\ items' = Rest
     \/ ReadFails /\ UNCHANGED <<delta, items>>
  /\ UNCHANGED <<routed, pending, replacing, asked, start, viewVars>>

(* Authority was replaced: refreshConversation. *)
ReplaceRows ==
  /\ pending /\ replacing /\ ~Busy
  /\ delta' = NoDelta /\ items' = <<>>
  /\ \/ /\ ReadWorks
        /\ pending' = FALSE /\ replacing' = FALSE
        /\ Refresh(bound, loading, stage)
     \/ /\ ReadFails
        /\ UNCHANGED <<pending, replacing, asked, start, viewVars>>
  /\ UNCHANGED routed

(* What is pending waits for a stage, or for the projection that owns it.  *)
NothingToCommit ==
  /\ items = <<>> \/ (pending /\ (Busy \/ delta # NoDelta \/ replacing))
  /\ delta = NoDelta \/ Busy
  /\ ~pending \/ ~replacing \/ Busy
  /\ UNCHANGED <<paneVars, asked, start, viewVars, locked>>

CommitPanes ==
  /\ commitScheduled
  /\ PresentRows \/ PlaceRows \/ ProjectRows \/ ReplaceRows \/ NothingToCommit
  /\ commitScheduled' =
       \/ locked' # locked
       \/ stage' = NoStage /\ (pending' \/ items' # <<>> \/ delta' # NoDelta)
  /\ UNCHANGED <<graphVars, deliveryVars, bound, retryScheduled, flight,
                 selections, world>>

QtNext ==
  \/ DeliverQueued \/ DeliverRescan \/ DeliverRetirements
  \/ StartProjection \/ ReadProjection \/ FinishProjection \/ RetryProjection
  \/ CommitStage \/ CommitPanes

PaneNext ==
  \/ WorkerNext
  \/ \E t \in Thread : Select(t)
  \/ QtNext

PaneSpec == PaneInit /\ [][PaneNext]_conversationVars

(* The event loop reaches every message, timer and completion. *)
Fairness ==
  /\ WF_conversationVars(DeliverQueued) /\ WF_conversationVars(DeliverRescan)
  /\ WF_conversationVars(DeliverRetirements)
  /\ WF_conversationVars(StartProjection) /\ WF_conversationVars(ReadProjection)
  /\ WF_conversationVars(FinishProjection) /\ WF_conversationVars(RetryProjection)
  /\ WF_conversationVars(CommitStage) /\ WF_conversationVars(CommitPanes)

FairSpec == PaneSpec /\ Fairness

----------------------------------------------------------------------------
ThreadRows == live \cap OfThread(bound)

(* What a pane commit has left to do is on a timer, or the stage that is   *)
(* being built will look at it when it is committed; and a projection that *)
(* was asked for is on its way or about to start: the flags that make      *)
(* structural changes wait for it do not stay behind.                      *)
WorkIsScheduled ==
  /\ pending \/ items # <<>> \/ delta # NoDelta =>
       commitScheduled \/ stage.thread = bound
  /\ asked.any => start.due \/ retryScheduled \/ flight.thread # None

(* Rows change hands only to the thread that is selected: neither a stage  *)
(* nor a projection of a thread selected before gets there late.           *)
PresentsTheSelected == [][presented' # presented => presented' = bound']_conversationVars

(* A selected thread that is not loading is shown, and the overlay lifted, *)
(* provided that neither the end of its loading is folded into a rescan,   *)
(* nor a change while the graph was locked for the selection.              *)
SelectionCompletes ==
  ~("rescan" \in world.may /\ ("load" \in world.may \/ world.locks > 0)) =>
    \A t \in Thread :
      bound = t /\ hydration[t] # "loading" ~>
        \/ presented = t /\ loading = None
        \/ bound # t \/ hydration[t] = "loading"

(* The rows show what the graph last said of the selected thread.          *)
LatestShown ==
  hydration[bound] = "ready" => presented = bound /\ rows = RowsOf(ThreadRows)

(* While no change is folded into a rescan or refused by the rows, every   *)
(* live item of the selected thread gets its row; and as long as no        *)
(* complete projection is made, with what the graph last said of it.       *)
RowsArrive ==
  /\ world.may \subseteq {"load"} =>
       []<>(hydration[bound] = "ready" => presented = bound /\ ThreadRows \subseteq DOMAIN rows)
  /\ world.may = {} => []<>LatestShown

(* A row reaches the latest value of its item, rescans or not.             *)
EveryRowReachesLatest == []<>LatestShown

=============================================================================
