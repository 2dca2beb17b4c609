-------------------------- MODULE ConversationRows --------------------------
(***************************************************************************)
(* The order of the rows of a conversation: how the transactions of the    *)
(* worker that admit, send, accept and materialize prompts, begin and end  *)
(* turns and load history are routed, projected as exact placements and    *)
(* placed among the rows (WorkerLogic, ProtocolUpdater, NodeGraphUiAdapter,*)
(* ShellWidget, ConversationItemModel).                                    *)
(*                                                                         *)
(* A transaction and what it announces is one step; a change is routed,    *)
(* projected and placed in steps of their own, each against the graph of   *)
(* its time.  A complete projection is one step, and its stage another:    *)
(* ConversationProjection takes them apart.  The content of cards is left  *)
(* out, but for their key, target and kind, which follow from the item.    *)
(*                                                                         *)
(* Not here: roots replaced under another key, threads that fail to load,  *)
(* rescans, retired nodes.                                                 *)
(***************************************************************************)
EXTENDS Naturals, Sequences, FiniteSets, SequencesExt

CONSTANTS
  Prompt, UserMessage, Answer,
  Turn,           (* turns of the provider                                  *)
  OriginOf,       (* UserMessage -> the prompt it is of, or None            *)
  None,
  PassRows,       (* ConversationPresentationRowsPerPass                    *)
  MaxQueued,      (* changes on their way: a bound                          *)
  Worlds          (* the prompts submitted and the turns begun, in order;   *)
                  (* the messages and answers that come; the turn of the    *)
                  (* history, what is held of it and the pages that follow; *)
                  (* calm: see Handle                                       *)

VARIABLES
  graph,          (* NodeGraph and WorkerLogic, see Init                    *)
  queue,          (* changes the Qt thread has not yet routed               *)
  pending,        (* pendingConversation                                    *)
  replacing,      (* pendingConversationAuthorityReplacement                *)
  items,          (* pendingConversationItems                               *)
  delta,          (* pendingStructuralConversationDelta                     *)
  asked,          (* a complete projection is asked for                     *)
  stage,          (* pendingStructuralSnapshot                              *)
  rows,           (* ConversationItemModel                                  *)
  acks,           (* promptMaterialized on its way to the worker            *)
  world

shellVars == <<pending, replacing, items, delta, asked, stage>>
vars == <<graph, queue, shellVars, rows, acks, world>>

Item == Prompt \cup UserMessage \cup Answer

(* The turn a prompt opens before the provider has begun one. *)
LocalTurn(p) == [of |-> p]
Thread == [of |-> None]
IsLocal(t) == \E p \in Prompt : t = LocalTurn(p)
AnyTurn == Turn \cup {LocalTurn(p) : p \in Prompt}

NoDelta == [there |-> FALSE, rows |-> <<>>, removals |-> <<>>, prompts |-> {}]
NoStage == [there |-> FALSE, rows |-> <<>>, prompts |-> {}]

----------------------------------------------------------------------------
(* The graph of a thread *)

LiveItems(g) == UNION {ToSet(g.children[t]) : t \in ToSet(g.turns)}
Live(g) == LiveItems(g) \cup ToSet(g.turns)
Parent(g, i) ==
  IF i \in LiveItems(g) THEN CHOOSE t \in ToSet(g.turns) : i \in ToSet(g.children[t])
  ELSE None

(* isHiddenMaterializedPrompt *)
Hidden(g, p) == p \in Prompt /\ \E m \in LiveItems(g) \cap UserMessage : OriginOf[m] = p

(* A local turn without items goes; so does what is related to it. *)
DropShell(g, t) ==
  IF IsLocal(t) /\ t \in ToSet(g.turns) /\ g.children[t] = <<>>
    THEN [g EXCEPT !.turns = SelectSeq(@, LAMBDA u : u # t), !.root[t] = None]
    ELSE g

RemoveItem(g, i) ==
  LET t == Parent(g, i)
  IN [g EXCEPT !.children[t] = Remove(@, i),
               !.root[t] = IF @ = i THEN None ELSE @]

(* setParent, behind the others unless it is there already. *)
PutLast(g, t, i) ==
  LET from == Parent(g, i)
  IN IF from = t THEN g
     ELSE [g EXCEPT !.children = [u \in AnyTurn |->
             IF u = t THEN Append(@[u], i) ELSE Remove(@[u], i)]]

WithTurn(g, t) ==
  IF t \in ToSet(g.turns) THEN g ELSE [g EXCEPT !.turns = Append(@, t)]

(* takeNextPrompt *)
Take(g) ==
  IF g.slot # None \/ g.waiting = <<>> THEN g
  ELSE LET p == Head(g.waiting)
           taken == [g EXCEPT !.slot = p, !.waiting = Tail(@), !.dispatch[p] = "dispatching"]
       IN IF g.active = None
            THEN [taken EXCEPT !.starts = @ \cup {p}]
            ELSE DropShell([PutLast(taken, g.active, p) EXCEPT !.starts = @ \ {p}],
                           Parent(g, p))

(* What a transaction announces of what it did to the thread.  also: the   *)
(* children it put in order, and the thread, when a request it awaited is  *)
(* answered; stated: turns with a new status.                              *)
Change(g, h, also, stated) ==
  LET turnsChanged == g.turns # h.turns
      moved == {i \in LiveItems(h) : Parent(h, i) # Parent(g, i)}
      shown(k) == {p \in Prompt : p \in LiveItems(k)}
      origins == {m \in LiveItems(h) \cap UserMessage :
                    OriginOf[m] # None /\ (m \notin LiveItems(g) \/
                       (OriginOf[m] \in LiveItems(g) /\ OriginOf[m] \notin LiveItems(h)))}
      turns == {t \in ToSet(h.turns) : t \notin ToSet(g.turns)
                  \/ g.children[t] # h.children[t] \/ g.root[t] # h.root[t]}
      thread == IF turnsChanged \/ g.active # h.active \/ shown(g) # shown(h)
                  THEN {Thread} ELSE {}
      structured == moved \cup origins \cup turns \cup thread \cup (also \cap {Thread})
      roots == UNION {{g.root[t], h.root[t]} : t \in {u \in AnyTurn : g.root[u] # h.root[u]}}
      actives == IF g.active # h.active THEN {g.active, h.active} ELSE {}
      prompts == {p \in Prompt : \/ g.dispatch[p] # h.dispatch[p]
                                 \/ (p \in g.starts) # (p \in h.starts)
                                 \/ Hidden(g, p) # Hidden(h, p)}
  IN [affected |-> structured \cup also \cup stated
        \cup ((roots \cup actives \cup prompts) \cap Live(h)),
      removed |-> Live(g) \ Live(h),
      structured |-> structured, stated |-> stated, turnsChanged |-> turnsChanged]

(* A transaction: the revisions of a node are those of the last change of  *)
(* it, so that an older change no longer finds its own there.              *)
Commit(h, also, stated) ==
  LET change == Change(graph, h, also, stated)
      Outdated(c) == [c EXCEPT !.structured = @ \ change.structured, !.stated = @ \ stated]
  IN /\ Len(queue) < MaxQueued
     /\ graph' = h
     /\ queue' = Append([k \in DOMAIN queue |-> Outdated(queue[k])], change)
     /\ UNCHANGED <<shellVars, rows, world>>

----------------------------------------------------------------------------
(* The worker *)

(* The next of world.prompts is submitted: into the running turn, or with  *)
(* a turn of its own, whose root it is.                                    *)
NextPrompt == SelectInSeq(world.prompts, LAMBDA p : graph.dispatch[p] = "new")
Submit ==
  /\ NextPrompt # 0
  /\ LET p == world.prompts[NextPrompt]
         t == IF graph.active # None THEN graph.active ELSE LocalTurn(p)
         begun == [PutLast(WithTurn(graph, t), t, p) EXCEPT
                     !.dispatch[p] = "queued", !.waiting = Append(@, p),
                     !.starts = IF graph.active = None THEN @ \cup {p} ELSE @,
                     !.root[t] = IF graph.active = None THEN p ELSE @]
     IN Commit(Take(begun), {}, {})
  /\ UNCHANGED acks

(* The turn a prompt was sent to, or was to begin. *)
NextTurn == SelectInSeq(world.turns, LAMBDA t : t \notin ToSet(graph.turns))
TurnOf(p) == IF p = graph.slot /\ p \in graph.starts THEN graph.begun
             ELSE Parent(graph, p)
Sent(p) == graph.dispatch[p] \in {"dispatching", "awaiting"}

(* The turn is there, and active unless it has ended already. *)
Running(g, t) ==
  [WithTurn(g, t) EXCEPT !.active = IF t \in g.ended THEN @ ELSE t, !.complete = @ \cup {t}]

(* turn/started, ahead of the answer of the request. *)
TurnStarted ==
  /\ graph.slot # None /\ graph.slot \in graph.starts
  /\ graph.begun = None /\ NextTurn # 0
  /\ LET t == world.turns[NextTurn]
     IN Commit([Running(graph, t) EXCEPT !.begun = t], {}, {})
  /\ UNCHANGED acks

(* ... and it may end ahead of that answer, or of the answer of a steer.   *)
TurnCompleted ==
  /\ graph.active # None
  /\ Commit([graph EXCEPT !.active = None, !.ended = @ \cup {graph.active}], {}, {graph.active})
  /\ UNCHANGED acks

(* Accepted: completePromptResult.  The prompt goes to the turn, ahead of  *)
(* all if it is to be the root there; or goes if its message is shown.     *)
AcceptedInto(g, t, p) ==
  LET from == Parent(g, p)
      first == p \in g.starts /\ g.root[t] \in {None, p}
      there == [PutLast(g, t, p) EXCEPT
                  !.dispatch[p] = "awaiting",
                  !.root[from] = IF from # t /\ @ = p THEN None ELSE @]
  IN DropShell(IF first THEN [there EXCEPT !.children[t] = <<p>> \o Remove(@, p),
                                           !.root[t] = p]
               ELSE there, from)

Accept ==
  /\ graph.slot # None
  /\ LET p == graph.slot
         starts == p \in graph.starts
         t == IF starts /\ graph.begun = None THEN world.turns[NextTurn] ELSE TurnOf(p)
         result == [Running(graph, t) EXCEPT !.slot = None, !.begun = None]
         done == IF p \in graph.shown
                   THEN DropShell([RemoveItem(result, p) EXCEPT !.dispatch[p] = "gone"],
                                  Parent(graph, p))
                   ELSE AcceptedInto(result, t, p)
     IN /\ starts => graph.begun # None \/ NextTurn # 0
        /\ Commit(Take(done),
                  {Thread} \cup IF starts /\ Head(done.children[t]) = p
                                  THEN ToSet(done.children[t]) ELSE {},
                  {})
  /\ UNCHANGED acks

(* Refused; the provider has made no message of it, nor begun a turn.      *)
Fail ==
  /\ graph.slot # None /\ graph.begun = None /\ ~Hidden(graph, graph.slot)
  /\ Commit(Take([graph EXCEPT !.slot = None, !.dispatch[graph.slot] = "failed"]),
            {Thread}, {})
  /\ UNCHANGED acks

(* ensureItem: ahead of the steering prompts that have yet to be consumed. *)
Steering(g, t) ==
  {k \in DOMAIN world.prompts :
     LET p == world.prompts[k]
     IN Parent(g, p) = t /\ p \notin g.starts /\ g.dispatch[p] # "failed"}
Inserted(g, t, i) ==
  LET s == g.children[t]
      waits == Steering(g, t)
      p == world.prompts[CHOOSE k \in waits : \A l \in waits : k <= l]
  IN [g EXCEPT !.children[t] =
        IF waits = {} THEN Append(s, i)
        ELSE InsertAt(s, SelectInSeq(s, LAMBDA j : j = p), i)]

ClaimsRoot(g, t, m) ==
  \/ g.root[t] = None
  \/ g.root[t] = OriginOf[m] /\ g.dispatch[OriginOf[m]] = "awaiting"

(* An item of the running turn: ingestItem. *)
AnswerArrives(i) ==
  /\ i \in world.answers \ LiveItems(graph) /\ graph.active # None
  /\ Commit(Inserted(graph, graph.active, i), {}, {})
  /\ UNCHANGED acks

MessageArrives(m) ==
  /\ m \in world.messages \ LiveItems(graph) /\ graph.active # None
  /\ OriginOf[m] # None => Sent(OriginOf[m]) /\ TurnOf(OriginOf[m]) = graph.active
  /\ LET t == graph.active
     IN Commit([Inserted(graph, t, m) EXCEPT
                  !.root[t] = IF ClaimsRoot(graph, t, m) THEN m ELSE @], {}, {})
  /\ UNCHANGED acks

(* The next page of the history of a turn: the newest window goes behind   *)
(* what is held of the turn, an older one ahead of it.                     *)
HistoryArrives ==
  /\ graph.pages < Len(world.pages)
  /\ LET t == world.history
         page == world.pages[graph.pages + 1]
         held == SelectSeq(graph.children[t], LAMBDA i : i \notin ToSet(page))
         all == IF graph.pages = 0 THEN held \o page ELSE page \o held
         users == SelectSeq(all, LAMBDA i : i \in UserMessage)
     IN Commit([graph EXCEPT
                  !.pages = @ + 1, !.children[t] = all,
                  !.root[t] = IF users # <<>> THEN Head(users) ELSE None,
                  !.complete = IF graph.pages + 1 = Len(world.pages) THEN @ \cup {t} ELSE @],
               {Thread} \cup ToSet(all), {})
  /\ UNCHANGED acks

(* promptMaterialized: a prompt whose request is unanswered stays for it.  *)
Materialized(p) ==
  /\ p \in acks
  /\ acks' = acks \ {p}
  /\ IF p \notin LiveItems(graph) THEN UNCHANGED <<graph, queue, shellVars, rows, world>>
     ELSE Commit(IF graph.slot = p THEN [graph EXCEPT !.shown = @ \cup {p}]
                 ELSE DropShell([RemoveItem(graph, p) EXCEPT !.dispatch[p] = "gone"],
                                Parent(graph, p)), {}, {})

WorkerNext ==
  \/ Submit \/ TurnStarted \/ TurnCompleted \/ Accept \/ Fail \/ HistoryArrives
  \/ \E i \in Answer : AnswerArrives(i)
  \/ \E m \in UserMessage : MessageArrives(m)
  \/ \E p \in Prompt : Materialized(p)

----------------------------------------------------------------------------
(* NodeGraphUiAdapter: what is projected of the graph *)

(* conversationCardKey: a message goes by the prompt it is of. *)
Key(i) == IF i \in UserMessage /\ OriginOf[i] # None THEN OriginOf[i] ELSE i
Visible(g, i) == i \in LiveItems(g) /\ ~Hidden(g, i)
Cards(g, t) == SelectSeq(g.children[t], LAMBDA i : Visible(g, i))
AllCards(g) == FlattenSeq([k \in DOMAIN g.turns |-> Cards(g, g.turns[k])])

IndexIn(s, i) == SelectInSeq(s, LAMBDA j : j = i)

(* pendingPromptPresentation: the turn that a prompt on its way is to open.*)
ProvisionalTurn(g) ==
  IF g.slot # None /\ g.slot \in g.starts /\ ~Hidden(g, g.slot) THEN Parent(g, g.slot)
  ELSE None

(* conversationActiveTurn *)
ActiveTurn(g) == IF g.active # None THEN g.active ELSE ProvisionalTurn(g)

(* conversation() and flatten(): the rows of the whole thread. *)
SectionRows(g, t) ==
  LET cards == Cards(g, t)
      root == IndexIn(cards, g.root[t])
  IN [k \in DOMAIN cards |->
       [item |-> cards[k], key |-> Key(cards[k]), section |-> t,
        root |-> k = root, nested |-> root # 0 /\ k > root,
        active |-> k = root /\ ActiveTurn(g) = t,
        first |-> k = 1, last |-> k = Len(cards)]]
AllRows(g) == FlattenSeq([k \in DOMAIN g.turns |-> SectionRows(g, g.turns[k])])

(* The prompts that live and whose messages are among these items. *)
PromptsOf(g, shown) ==
  {OriginOf[m] : m \in shown \cap UserMessage} \cap LiveItems(g) \cap Prompt

(* projectRowChange: where the row of an item goes, next to which rows. *)
Placement(g, i) ==
  LET t == Parent(g, i)
      all == AllCards(g)
      at == IndexIn(all, i)
      root == IndexIn(g.children[t], g.root[t])
  IN [item |-> i, key |-> Key(i), section |-> t,
      root |-> g.root[t] = i, nested |-> root # 0 /\ IndexIn(g.children[t], i) > root,
      active |-> g.root[t] = i /\ ActiveTurn(g) = t,
      previous |-> IF at = 1 THEN None ELSE Key(all[at - 1]),
      next |-> IF at = Len(all) THEN None ELSE Key(all[at + 1])]

(* Each behind those of the changed rows it follows.                       *)
Ordered(changed) ==
  LET N == Len(changed)
      passes == FlattenSeq([k \in 1..N |-> [j \in 1..N |-> j]])
      Before(k) == {j \in 1..N : \/ changed[j].key = changed[k].previous
                                 \/ changed[j].next = changed[k].key}
      Emit(emitted, k) == IF k \in ToSet(emitted) \/ ~(Before(k) \subseteq ToSet(emitted))
                            THEN emitted ELSE Append(emitted, k)
      order == FoldLeft(Emit, <<>>, passes)
  IN [k \in DOMAIN order |-> changed[order[k]]]

(* conversationDelta *)
Delta(g, batch) ==
  LET present == SelectSeq(batch, LAMBDA i : Visible(g, i))
  IN [there |-> TRUE,
      rows |-> Ordered([k \in DOMAIN present |-> Placement(g, present[k])]),
      removals |-> SelectSeq(batch, LAMBDA i : ~Visible(g, i)),
      prompts |-> PromptsOf(g, ToSet(present))]

(* conversationOpeningItem *)
Opening(g, t) ==
  IF g.root[t] # None THEN {g.root[t]}
  ELSE IF t \in g.complete /\ g.children[t] # <<>> THEN {Head(g.children[t])} ELSE {}

(* conversationRoute *)
Route(g, change) ==
  LET turns == change.affected \cap ToSet(g.turns)
      threadChanged == Thread \in change.structured
      openings == IF threadChanged THEN turns
                  ELSE turns \cap (change.structured \cup change.stated)
      gone == ((change.affected \cup change.removed) \cap Item) \ LiveItems(g)
      named == change.affected \cap LiveItems(g)
  IN [authority |-> change.turnsChanged /\ turns \cap change.structured = {},
      structural |-> openings # {} \/ gone # {} \/ named \cap change.structured # {},
      items |-> UNION {Opening(g, t) : t \in openings} \cup gone \cup named]

----------------------------------------------------------------------------
(* ConversationItemModel: planStructuralDelta and commitStructuralDelta    *)
(* as one; the plan is made on a copy of the rows, so that a refused one   *)
(* leaves the rows as they are.                                            *)

KeyAt(r, key) == SelectInSeq(r, LAMBDA row : row.key = key)
ItemAt(r, i) == SelectInSeq(r, LAMBDA row : row.item = i)
InSection(r, t) == {k \in DOMAIN r : r[k].section = t}
RootsIn(r, t) == {k \in InSection(r, t) : r[k].root}

(* rowFromPlacement *)
RowOf(change, first, last) ==
  [item |-> change.item, key |-> change.key, section |-> change.section,
   root |-> change.root, nested |-> change.nested, active |-> change.active,
   first |-> first, last |-> last]

(* A row whose target goes, unless another takes its key. *)
TakeOut(plan, i, changed) ==
  LET at == ItemAt(plan.rows, i)
      taken == \E k \in DOMAIN changed : changed[k].key = plan.rows[at].key
  IN IF at = 0 THEN plan
     ELSE IF taken THEN plan
     ELSE [plan EXCEPT !.rows = RemoveAt(@, at),
             !.touched = @ \cup {<<plan.rows[at].section, plan.rows[at].key>>}]

(* structurallyCompatible, and no root moves to another section or out of  *)
(* it but with its prompt.                                                 *)
Agrees(row, change) ==
  \/ row.item = change.item /\ row.root = change.root
     /\ (row.root => row.section = change.section)
  \/ row.item \in Prompt /\ (change.item = row.item \/ change.item \in UserMessage)

(* validSectionPlacement, of a row between what is at k - 1 and k. *)
FitsSection(r, k, change) ==
  /\ ~(change.root /\ change.nested)
  /\ change.root => RootsIn(r, change.section) = {}
  /\ InSection(r, change.section) = {} \/ k - 1 \in InSection(r, change.section)
       \/ k \in InSection(r, change.section)

(* The next attempt to place the change k. *)
Place(plan, k, changed) ==
  LET change == changed[k]
      source == KeyAt(plan.rows, change.key)
      Neighbour(key) ==
        IF key = None \/ (\E j \in DOMAIN changed \ plan.settled : changed[j].key = key)
          THEN 0 ELSE KeyAt(plan.rows, key)
      previous == Neighbour(change.previous)
      next == Neighbour(change.next)
      connected == source # 0 \/ previous # 0 \/ next # 0 \/ change.next = None
                   \/ plan.rows = <<>>
      rest == IF source = 0 THEN plan.rows ELSE RemoveAt(plan.rows, source)
      Behind(at) == IF source # 0 /\ source < at THEN at - 1 ELSE at
      at == CASE change.previous = None -> 1
              [] change.previous # None /\ change.next = None -> Len(rest) + 1
              [] change.previous # None /\ change.next # None ->
                   IF previous \notin {0, source} THEN Behind(previous + 1)
                   ELSE IF next \notin {0, source} THEN Behind(next)
                   ELSE IF plan.rows = <<>> THEN 1 ELSE 0
      current == plan.rows[source]
      row == IF source = 0 THEN RowOf(change, FALSE, FALSE)
             ELSE RowOf(change, current.first, current.last)
      refused == \/ ItemAt(plan.rows, change.item) \notin {0, source}
                 \/ source # 0 /\ ~Agrees(current, change)
      misplaced == \/ ~FitsSection(rest, at, change)
                   \/ source # 0 /\ current.root /\ source # at
      changes == source = 0 \/ source # at \/ row # current
  IN IF ~plan.ok \/ k \in plan.settled THEN plan
     ELSE IF refused THEN [plan EXCEPT !.ok = FALSE]
     ELSE IF ~connected \/ at = 0 THEN plan
     ELSE IF misplaced THEN [plan EXCEPT !.ok = FALSE]
     ELSE [plan EXCEPT
             !.rows = InsertAt(rest, at, row),
             !.settled = @ \cup {k},
             !.touched = @ \cup
               (IF ~changes THEN {}
                ELSE {<<change.section, change.key>>}
                     \cup (IF source = 0 THEN {} ELSE {<<current.section, current.key>>}))]

(* Every change has come to be next to what it was to be next to.          *)
InPlace(plan, changed) ==
  /\ plan.settled = DOMAIN changed
  /\ \A k \in DOMAIN changed :
       LET at == KeyAt(plan.rows, changed[k].key)
       IN /\ IF changed[k].previous = None THEN at = 1
             ELSE at > 1 /\ plan.rows[at - 1].key = changed[k].previous
          /\ IF changed[k].next = None THEN at = Len(plan.rows)
             ELSE at < Len(plan.rows) /\ plan.rows[at + 1].key = changed[k].next

(* refreshSectionStructure: the edges and the root of the sections touched *)
(* before and after, and the rows changed; or all when a root came or went.*)
(* Mutant: only the rows that changed. *)
ChangedOnly(before, after, t, touched) ==
  {k \in InSection(after, t) : <<t, after[k].key>> \in touched}
Looked(before, after, t, touched) ==
  LET Edges(r) == LET in == InSection(r, t)
                  IN {r[k].key : k \in {l \in in : \/ r[l].root
                                                   \/ \A j \in in : l <= j
                                                   \/ \A j \in in : l >= j}}
  IN IF (RootsIn(before, t) = {}) # (RootsIn(after, t) = {}) THEN InSection(after, t)
     ELSE {k \in InSection(after, t) : \/ after[k].key \in Edges(before) \cup Edges(after)
                                       \/ <<t, after[k].key>> \in touched}

Refreshed(before, after, touched) ==
  LET sections == {x[1] : x \in touched}
      Fresh(k) ==
        LET in == InSection(after, after[k].section)
        IN [after[k] EXCEPT
              !.first = \A j \in in : k <= j, !.last = \A j \in in : k >= j,
              !.nested = \E j \in RootsIn(after, after[k].section) : k > j,
              !.active = @ /\ after[k].root]
  IN [k \in DOMAIN after |->
        IF /\ after[k].section \in sections
           /\ k \in Looked(before, after, after[k].section, touched)
          THEN Fresh(k) ELSE after[k]]

(* Forward over the changes, and back over those not yet settled. *)
Plan(changed, removals) ==
  LET N == Len(changed)
      attempts == [k \in 1..2 * N |-> IF k <= N THEN k ELSE 2 * N - k + 1]
      start == [ok |-> TRUE, rows |-> rows, settled |-> {}, touched |-> {}]
      removed == FoldLeft(LAMBDA plan, i : TakeOut(plan, i, changed), start, removals)
  IN FoldLeft(LAMBDA plan, k : Place(plan, k, changed), removed, attempts)

(* Of the prompts whose messages are shown now, those that were shown as   *)
(* prompts, or not at all.                                                 *)
NewlyShown(before, prompts) ==
  {p \in prompts : \A k \in DOMAIN before : before[k].key = p => before[k].item = p}

----------------------------------------------------------------------------
(* ShellWidget *)

ClearWork == items' = <<>> /\ delta' = NoDelta

(* queueConversationRoute; see ConversationProjection. *)
QueueRoute(route) ==
  CASE route.authority ->
         /\ pending' = FALSE /\ replacing' = FALSE /\ ClearWork /\ asked' = TRUE
    [] ~route.authority /\ (asked \/ stage.there) /\ route.structural ->
         /\ ClearWork /\ asked' = TRUE
         /\ UNCHANGED <<pending, replacing>>
    [] ~route.authority /\ ~((asked \/ stage.there) /\ route.structural) ->
         LET ahead == route.structural /\ route.items # {}
         IN /\ pending' = (pending \/ ahead)
            /\ replacing' = (replacing /\ ~ahead)
            /\ IF replacing' THEN UNCHANGED items
               ELSE items' = items \o SetToSeq(route.items \ ToSet(items))
            /\ UNCHANGED <<delta, asked>>

(* handleGraphChanged.  In a calm world a refused placement is followed by *)
(* its replacement before another change is routed.                        *)
Handle ==
  /\ queue # <<>>
  /\ world.calm => ~replacing
  /\ QueueRoute(Route(graph, Head(queue)))
  /\ queue' = Tail(queue)
  /\ UNCHANGED <<graph, stage, rows, acks, world>>

(* commitPendingPanes, one of what it does; see ConversationProjection. *)
Batch == SubSeq(items, 1, IF Len(items) < PassRows THEN Len(items) ELSE PassRows)
Rest == SubSeq(items, Len(Batch) + 1, Len(items))

CanPresent(i) ==
  LET Has(r) == KeyAt(r, Key(i)) # 0
      Same(r) == ItemAt(r, i) # 0
  IN /\ Has(stage.rows) => Same(stage.rows)
     /\ Has(rows) => Same(rows)
     /\ Has(rows) \/ Has(stage.rows)
PresentRows ==
  /\ ~pending /\ items # <<>>
  /\ IF \A i \in ToSet(Batch) : Visible(graph, i) => CanPresent(i)
       THEN items' = Rest /\ UNCHANGED pending
       ELSE pending' = TRUE /\ UNCHANGED items
  /\ UNCHANGED <<graph, queue, replacing, delta, asked, stage, rows, acks, world>>

(* A refused placement gives way to a complete projection.                 *)
(* Mutant: the refused change is dropped. *)
Dropped == pending' = (items # <<>>) /\ replacing' = FALSE /\ UNCHANGED items
Refused == pending' = TRUE /\ replacing' = TRUE /\ items' = <<>>

ProjectRows ==
  /\ pending /\ ~replacing /\ ~delta.there /\ items # <<>> /\ ~stage.there
  /\ delta' = Delta(graph, Batch)
  /\ items' = Rest
  /\ UNCHANGED <<graph, queue, pending, replacing, asked, stage, rows, acks, world>>

PlaceRows ==
  /\ delta.there /\ ~stage.there
  /\ LET plan == Plan(delta.rows, delta.removals)
     IN IF plan.ok /\ InPlace(plan, delta.rows)
          THEN /\ rows' = Refreshed(rows, plan.rows, plan.touched)
               /\ acks' = acks \cup NewlyShown(rows, delta.prompts)
               /\ pending' = (items # <<>>) /\ replacing' = FALSE
               /\ UNCHANGED items
          ELSE Refused /\ UNCHANGED <<rows, acks>>
  /\ delta' = NoDelta
  /\ UNCHANGED <<graph, queue, asked, stage, world>>

ReplaceRows ==
  /\ pending /\ replacing /\ ~stage.there
  /\ pending' = FALSE /\ replacing' = FALSE /\ ClearWork
  /\ asked' = TRUE
  /\ UNCHANGED <<graph, queue, stage, rows, acks, world>>

(* The complete projection has been made; it is staged. *)
FinishProjection ==
  /\ asked
  /\ asked' = FALSE
  /\ pending' = FALSE /\ replacing' = FALSE /\ ClearWork
  /\ stage' = [there |-> TRUE, rows |-> AllRows(graph),
               prompts |-> PromptsOf(graph, LiveItems(graph))]
  /\ UNCHANGED <<graph, queue, rows, acks, world>>

(* reconcileOwned *)
CommitStage ==
  /\ stage.there
  /\ rows' = stage.rows
  /\ acks' = acks \cup NewlyShown(rows, stage.prompts)
  /\ stage' = NoStage
  /\ UNCHANGED <<graph, queue, pending, replacing, items, delta, asked, world>>

QtNext ==
  \/ Handle \/ PresentRows \/ ProjectRows \/ PlaceRows \/ ReplaceRows
  \/ FinishProjection \/ CommitStage

(* The thread is shown as it is held. *)
Init ==
  /\ world \in Worlds
  /\ graph = [turns |-> IF world.history = None THEN <<>> ELSE <<world.history>>,
              children |-> [t \in AnyTurn |-> IF t = world.history THEN world.held ELSE <<>>],
              root |-> [t \in AnyTurn |->
                 IF t = world.history /\ world.held # <<>> /\ Head(world.held) \in UserMessage
                   THEN Head(world.held) ELSE None],
              complete |-> {}, ended |-> {}, active |-> None, begun |-> None,
              dispatch |-> [p \in Prompt |-> "new"],
              starts |-> {}, shown |-> {}, slot |-> None, waiting |-> <<>>, pages |-> 0]
  /\ rows = AllRows(graph)
  /\ queue = <<>> /\ pending = FALSE /\ replacing = FALSE /\ items = <<>>
  /\ delta = NoDelta /\ asked = FALSE /\ stage = NoStage /\ acks = {}

Next == WorkerNext \/ QtNext
Spec == Init /\ [][Next]_vars

----------------------------------------------------------------------------
Settled ==
  queue = <<>> /\ ~pending /\ items = <<>> /\ ~delta.there /\ ~asked
  /\ ~stage.there /\ acks = {}

Unlit(r) == [k \in DOMAIN r |-> [r[k] EXCEPT !.active = FALSE]]

(* Whatever was routed, projected, placed or refused, and in whatever      *)
(* order: once nothing is left to do the rows are those of the graph, in   *)
(* its order and sections, and no prompt whose message is shown is held.   *)
RowsFollowGraph ==
  world.calm /\ Settled =>
    /\ Unlit(rows) = Unlit(AllRows(graph))
    /\ \A p \in Prompt : p \in LiveItems(graph) /\ Hidden(graph, p) => p \in graph.shown

(* At any time the rows are ones the view can be drawn from: no key and no *)
(* target twice, the rows of a turn together, with one root at most, and   *)
(* with edges and indentation that agree with where they are.              *)
RowsWellFormed ==
  \A k \in DOMAIN rows :
    LET in == InSection(rows, rows[k].section)
    IN /\ KeyAt(rows, rows[k].key) = k /\ ItemAt(rows, rows[k].item) = k
       /\ \A j \in in : k < j => (k + 1) \in in
       /\ Cardinality(RootsIn(rows, rows[k].section)) <= 1
       /\ rows[k].first = (\A j \in in : k <= j)
       /\ rows[k].last = (\A j \in in : k >= j)
       /\ rows[k].nested = (\E j \in RootsIn(rows, rows[k].section) : k > j)

(* A turn that a prompt on its way is to open is marked as active until    *)
(* the provider acknowledges it (docs/architecture/ui-internal-api.md).    *)
PendingTurnIsActive ==
  Settled /\ graph.active = None /\ graph.slot # None /\ ActiveTurn(graph) # None =>
    \A k \in DOMAIN rows :
      rows[k].item = graph.slot /\ rows[k].root => rows[k].active

=============================================================================
