------------------------ MODULE BrowserSessionProofs ------------------------
(***************************************************************************)
(* Proofs about BrowserSession for any number of threads and prompts:      *)
(* everything that waits has the request that ends its wait, a removal of  *)
(* turns runs alone, and prompts are sent once and in their order.         *)
(*                                                                         *)
(* The functions on the work of a session change one thread each, so the   *)
(* invariant is a conjunction over threads of what is true of the runtime  *)
(* entry, the history requests tied to it (Hist), the turns and the        *)
(* removals of a thread, and each function gets a lemma that says what it  *)
(* leaves alone (Moves) and what it establishes for its own thread.        *)
(***************************************************************************)
EXTENDS BrowserSession, NaturalsInduction, WellFoundedInduction, TLAPS

Entry == [phase : Phases, page : BOOLEAN]
RevertKinds == {"revert", "revert resume"}
Kinds == HistoryKinds \cup {"queue", "turn"} \cup RevertKinds
Request ==
    [kind : Kinds, thread : Thread, prompt : Prompt \cup {0}, tied : BOOLEAN, phase : Phases,
     interactive : BOOLEAN, attempted : BOOLEAN, resumed : BOOLEAN]
PromptStates == {"new", "queued", "inFlight", "accepted", "failed", "gone"}
Submission ==
    [state : PromptStates, thread : Thread \cup {Draft, None}, item : BOOLEAN, sent : BOOLEAN]
Works ==
    [prompt : [Prompt -> Submission], runtime : [Thread -> Entry], requests : SUBSET Request,
     online : BOOLEAN, control : BOOLEAN]
Statuses == {"absent", "notLoaded", "idle", "active"}
Removing == {"pending", "notification"}

-----------------------------------------------------------------------------
\* The invariant

\* The requests of a thread: those of its history and of its queue that its runtime entry
\* still waits for, its turns, and the removal of its turns.
Hist(w, t) == {r \in w.requests : r.thread = t /\ r.kind \in HistoryKinds \cup {"queue"} /\ r.tied}
Turns(w, t) == {r \in w.requests : r.thread = t /\ r.kind = "turn"}
Reverts(w, t) == {r \in w.requests : r.thread = t /\ r.kind \in RevertKinds}

\* The entry of a thread and the requests it waits for: one page or resume of a hydration at
\* a time, each in the phase that sent it, and none missing.
HistoryOK(e, R) ==
    /\ \A r, s \in R : r.kind \in HistoryKinds /\ s.kind \in HistoryKinds => r = s
    /\ \A r, s \in R : r.kind \in {"resume", "page", "queue"} /\ s.kind \in {"resume", "page", "queue"} => r = s
    /\ \A r \in R : r.kind = "resume" =>
         r.phase = e.phase /\ r.phase \in {"hydrating", "resuming"} /\ (e.page <=> r.phase = "hydrating")
    /\ \A r \in R : r.kind = "page" => e.phase = "hydrating" /\ e.page
    /\ \A r \in R : r.kind \in {"first", "more"} => e.page /\ e.phase \notin {"hydrating", "none", "cold"}
    /\ \A r \in R : r.kind = "queue" => e.phase = "resuming"
    /\ e.page => \E r \in R : r.kind \in HistoryKinds
    /\ e.phase = "hydrating" => e.page /\ \E r \in R : r.kind \in {"resume", "page"}
    /\ e.phase = "resuming" => \E r \in R : r.kind \in {"resume", "queue"}

\* A prompt: one that was not sent has no turn and no message, one on its way has its turn.
PromptOK(w, p) ==
    LET s == w.prompt[p] IN
    /\ s.state = "new" => s.thread = None /\ ~s.sent
    /\ s.state = "queued" => ~s.sent
    /\ s.thread = Draft => s.state \in {"queued", "failed"}
    /\ s.item => s.sent
    /\ s.state = "inFlight" =>
         /\ s.sent /\ s.thread \in Thread /\ w.runtime[s.thread].phase # "none"
         /\ \E r \in Turns(w, s.thread) : r.prompt = p
TurnOK(w, r) ==
    /\ r.prompt \in Prompt /\ w.prompt[r.prompt].sent
    /\ w.prompt[r.prompt].state = "inFlight" => w.prompt[r.prompt].thread = r.thread
\* The user's removal in a thread: one request at most, and then nothing else goes on.
RevertOK(w, t, st, rv) ==
    /\ rv \in Removing <=> Reverts(w, t) # {}
    /\ \A r, s \in Reverts(w, t) : r = s
    /\ rv \in Removing => st # "absent" /\ Settled(w, t)
ReadyIsKnown(w, t, st) == w.runtime[t].phase \in {"ready", "resuming"} => st # "absent"
ThreadOK(w, t, st, rv) ==
    /\ HistoryOK(w.runtime[t], Hist(w, t))
    /\ ReadyIsKnown(w, t, st)
    /\ \A r \in Turns(w, t) : TurnOK(w, r)
    /\ RevertOK(w, t, st, rv)

Waits == {"hydrating", "resuming", "failed"}
Served(w, t) ==
    CanSubmit(w) /\ InState(w, t, "queued") # {} =>
        InState(w, t, "inFlight") # {} \/ w.runtime[t].phase \in Waits
DraftOK(w, cr) == InState(w, Draft, "queued") # {} => cr # "no"

\* The work w is sound for the statuses st of the threads and the removals rv.
Sound(w, st, rv) ==
    /\ w \in Works
    /\ \A p \in Prompt : PromptOK(w, p)
    /\ \A t \in Thread : ThreadOK(w, t, st[t], rv[t])
OthersOK ==
    /\ creating \in {"no", "current", "late"} /\ selected \in Thread \cup {Draft, None} /\ draft \in BOOLEAN
    /\ status \in [Thread -> Statuses] /\ stale \in [Thread -> BOOLEAN] /\ more \in [Thread -> BOOLEAN]
    /\ revert \in [Thread -> Removing \cup {"none", "result"}]
BInv ==
    /\ OthersOK
    /\ Sound(Work, status, revert)
    /\ \A t \in Thread : Served(Work, t)
    /\ DraftOK(Work, creating)

-----------------------------------------------------------------------------
\* What a function leaves alone

SameAt(w, v, t) ==
    /\ v.runtime[t] = w.runtime[t] /\ Hist(v, t) = Hist(w, t)
    /\ Turns(v, t) = Turns(w, t) /\ Reverts(v, t) = Reverts(w, t)
\* Whether a removal is under way does not change, nor that there is one at most.
RevertsKept(w, v, t) ==
    /\ Reverts(v, t) = {} <=> Reverts(w, t) = {}
    /\ (\A r, s \in Reverts(w, t) : r = s) => \A r, s \in Reverts(v, t) : r = s
\* Only the runtime entry and the history requests of t change, and what its removal is for.
Moves(w, v, t) ==
    /\ v \in Works /\ v.prompt = w.prompt /\ v.online = w.online /\ v.control = w.control
    /\ \A u \in Thread : u # t => SameAt(w, v, u)
    /\ Turns(v, t) = Turns(w, t) /\ RevertsKept(w, v, t)

\* The lowest number of a set of prompts exists.
LEMMA LowestPrompt ==
    ASSUME NEW S \in SUBSET Prompt, S # {}
    PROVE  Min(S) \in S /\ \A q \in S : Min(S) <= q
<1>1. S \subseteq Nat
  BY BrowserAssumption, SMT DEF Prompt
<1>2. \E p \in S : \A q \in S : ~(<<q, p>> \in OpToRel(<, Nat))
  BY <1>1, NatLessThanWellFounded, WFMin, Zenon
<1>3. PICK p \in S : \A q \in S : ~(<<q, p>> \in OpToRel(<, Nat))
  BY <1>2, Zenon
<1>4. \A q \in S : ~(q < p)
  BY <1>1, <1>3, Zenon DEF OpToRel
<1>5. \A q \in S : p <= q
  BY <1>1, <1>4, SMT
<1>6. QED
  BY <1>5, Zenon DEF Min

\* A function that changes nothing moves nothing, and moves of one thread compose.
LEMMA MovesNothing ==
    ASSUME NEW w \in Works, NEW t \in Thread
    PROVE  Moves(w, w, t)
  BY Zenon DEF Moves, SameAt, RevertsKept
LEMMA MovesOn ==
    ASSUME NEW w, NEW v, NEW x, NEW t \in Thread, Moves(w, v, t), Moves(v, x, t)
    PROVE  Moves(w, x, t)
  BY Zenon DEF Moves, SameAt, RevertsKept

\* Sending a request of the history or the queue of a thread.
LEMMA SendMoves ==
    ASSUME NEW w \in Works, NEW t \in Thread, NEW r \in Request,
           r.thread = t, r.kind \in HistoryKinds \cup {"queue"}, r.tied
    PROVE  /\ Moves(w, Send(w, r), t)
           /\ Send(w, r).runtime = w.runtime
           /\ Hist(Send(w, r), t) = Hist(w, t) \cup {r}
<1> DEFINE v == Send(w, r)
<1>1. /\ v \in Works /\ v.prompt = w.prompt /\ v.online = w.online /\ v.control = w.control
      /\ v.runtime = w.runtime /\ v.requests = w.requests \cup {r}
  BY SMT DEF Send, Works
<1> HIDE DEF v
<1>2. \A u \in Thread : u # t => Hist(v, u) = Hist(w, u)
  BY <1>1, SMT DEF Hist
<1>3. \A u \in Thread : Turns(v, u) = Turns(w, u)
  BY <1>1, SMT DEF Turns, HistoryKinds
<1>4. \A u \in Thread : Reverts(v, u) = Reverts(w, u)
  <2>1. r.kind \notin RevertKinds
    BY Zenon DEF RevertKinds, HistoryKinds
  <2>2. QED
    BY <1>1, <2>1, SMT DEF Reverts
<1>5. Hist(v, t) = Hist(w, t) \cup {r}
  BY <1>1, SMT DEF Hist
<1>6. QED
  BY <1>1, <1>2, <1>3, <1>4, <1>5, Zenon DEF Moves, SameAt, RevertsKept, v

\* An answered request is gone.
Without(w, r) == [w EXCEPT !.requests = @ \ {r}]
LEMMA DoneMoves ==
    ASSUME NEW w \in Works, NEW r \in w.requests, r.kind \in HistoryKinds \cup {"queue"}
    PROVE  /\ Moves(w, Without(w, r), r.thread)
           /\ Without(w, r).runtime = w.runtime
           /\ Hist(Without(w, r), r.thread) = Hist(w, r.thread) \ {r}
<1> DEFINE v == Without(w, r)
<1>1. /\ v \in Works /\ v.prompt = w.prompt /\ v.online = w.online /\ v.control = w.control
      /\ v.runtime = w.runtime /\ v.requests = w.requests \ {r}
  BY SMT DEF Works, Without
<1> HIDE DEF v
<1>2. \A u \in Thread : u # r.thread => Hist(v, u) = Hist(w, u)
  BY <1>1, SMT DEF Hist
<1>3. \A u \in Thread : Turns(v, u) = Turns(w, u)
  BY <1>1, SMT DEF Turns, HistoryKinds
<1>4. \A u \in Thread : Reverts(v, u) = Reverts(w, u)
  <2>1. r.kind \notin RevertKinds
    BY Zenon DEF RevertKinds, HistoryKinds
  <2>2. QED
    BY <1>1, <2>1, SMT DEF Reverts
<1>5. Hist(v, r.thread) = Hist(w, r.thread) \ {r}
  BY <1>1, SMT DEF Hist
<1>6. r.thread \in Thread
  BY SMT DEF Works, Request
<1>7. QED
  BY <1>1, <1>2, <1>3, <1>4, <1>5, <1>6, Zenon DEF Moves, SameAt, RevertsKept, v

\* The entry of a thread changes and stays the same object.
WithEntry(w, t, e) == [w EXCEPT !.runtime[t] = e]
LEMMA EntryMoves ==
    ASSUME NEW w \in Works, NEW t \in Thread, NEW e \in Entry
    PROVE  /\ Moves(w, WithEntry(w, t, e), t)
           /\ WithEntry(w, t, e).runtime[t] = e
           /\ Hist(WithEntry(w, t, e), t) = Hist(w, t)
<1> DEFINE v == WithEntry(w, t, e)
<1>1. /\ v \in Works /\ v.prompt = w.prompt /\ v.online = w.online /\ v.control = w.control
      /\ v.runtime = [w.runtime EXCEPT ![t] = e] /\ v.requests = w.requests
  BY SMT DEF WithEntry, Works
<1> HIDE DEF v
<1>2. v.runtime[t] = e /\ \A u \in Thread : u # t => v.runtime[u] = w.runtime[u]
  BY <1>1, SMT DEF Works
<1>3. \A u \in Thread : Hist(v, u) = Hist(w, u) /\ Turns(v, u) = Turns(w, u) /\ Reverts(v, u) = Reverts(w, u)
  BY <1>1, Zenon DEF Hist, Turns, Reverts
<1>4. QED
  BY <1>1, <1>2, <1>3, Zenon DEF Moves, SameAt, RevertsKept, v

\* A request whose runtime entry was replaced.
LEMMA UntiedRequest ==
    ASSUME NEW r \in Request, NEW x, x = [r EXCEPT !.tied = FALSE]
    PROVE  /\ x \in Request /\ ~x.tied
           /\ x.kind = r.kind /\ x.thread = r.thread /\ x.prompt = r.prompt
<1>1. x \in Request
  BY Zenon DEF Request
<1>2. ~x.tied
  BY Zenon DEF Request
<1>3. x.kind = r.kind /\ x.thread = r.thread /\ x.prompt = r.prompt
  BY SMT DEF Request
<1>4. QED
  BY <1>1, <1>2, <1>3

\* Another runtime entry: nothing is tied to it yet.
LEMMA ReplaceMoves ==
    ASSUME NEW w \in Works, NEW t \in Thread, NEW e \in Entry
    PROVE  /\ Moves(w, Replace(w, t, e), t)
           /\ Replace(w, t, e).runtime[t] = e
           /\ Hist(Replace(w, t, e), t) = {}
<1> DEFINE v == Replace(w, t, e)
           cut(r) == r.thread = t /\ r.kind \notin {"turn", "revert", "revert resume"}
           image(r) == IF cut(r) THEN [r EXCEPT !.tied = FALSE] ELSE r
<1>1. /\ v.prompt = w.prompt /\ v.online = w.online /\ v.control = w.control
      /\ v.runtime = [w.runtime EXCEPT ![t] = e]
      /\ v.requests = {image(r) : r \in w.requests}
  BY SMT DEF Replace, Works
<1>2. \A r \in w.requests :
        /\ image(r) \in Request
        /\ image(r).kind = r.kind /\ image(r).thread = r.thread
        /\ cut(r) => ~image(r).tied
        /\ ~cut(r) => image(r) = r
  <2>1. TAKE r \in w.requests
  <2>2. r \in Request
    BY SMT DEF Works
  <2>3. CASE cut(r)
    <3>1. image(r) = [r EXCEPT !.tied = FALSE]
      BY <2>3, Zenon
    <3>2. QED
      BY <2>2, <2>3, <3>1, UntiedRequest, Zenon
  <2>4. CASE ~cut(r)
    <3>1. image(r) = r
      BY <2>4, Zenon
    <3>2. QED
      BY <2>2, <2>4, <3>1, Zenon
  <2>5. QED
    BY <2>3, <2>4, Zenon
<1> HIDE DEF cut, image
<1>3. v \in Works
  <2>1. v.requests \subseteq Request
    BY <1>1, <1>2, Zenon
  <2>2. w.runtime \in [Thread -> Entry]
    BY Zenon DEF Works
  <2>3. v.runtime \in [Thread -> Entry]
    BY <1>1, <2>2, Zenon
  <2>4. v = [w EXCEPT !.runtime = v.runtime, !.requests = v.requests]
    BY <1>1, <2>2, Zenon DEF Replace, Works
  <2>5. QED
    BY <2>1, <2>3, <2>4, Zenon DEF Works
<1>4. v.runtime[t] = e /\ \A u \in Thread : u # t => v.runtime[u] = w.runtime[u]
  BY <1>1, Zenon DEF Works
<1> HIDE DEF v
<1>5. \A x \in v.requests : ~cut(x) => x \in w.requests
  <2>1. TAKE x \in v.requests
  <2>2. PICK r \in w.requests : x = image(r)
    BY <1>1, Zenon
  <2>3. cut(x) <=> cut(r)
    BY <1>2, <2>2, Zenon DEF cut
  <2>4. QED
    BY <1>2, <2>2, <2>3, Zenon
<1>6. \A x \in w.requests : ~cut(x) => x \in v.requests
  BY <1>1, <1>2, Zenon
<1>7. \A u \in Thread : u # t => Hist(v, u) = Hist(w, u)
  BY <1>5, <1>6, Zenon DEF Hist, cut
<1>8. \A u \in Thread : Turns(v, u) = Turns(w, u)
  BY <1>5, <1>6, Zenon DEF Turns, cut
<1>9. \A u \in Thread : Reverts(v, u) = Reverts(w, u)
  BY <1>5, <1>6, Zenon DEF Reverts, RevertKinds, cut
<1>10. Hist(v, t) = {}
  <2>1. SUFFICES ASSUME NEW x \in Hist(v, t) PROVE FALSE
    BY Zenon
  <2>2. x \in v.requests /\ x.thread = t /\ x.kind \in HistoryKinds \cup {"queue"} /\ x.tied
    BY <2>1, Zenon DEF Hist
  <2>3. PICK r \in w.requests : x = image(r)
    BY <1>1, <2>2, Zenon
  <2>4. x.kind \notin {"turn", "revert", "revert resume"}
    BY <2>2, Zenon DEF HistoryKinds
  <2>5. QED
    BY <1>2, <2>2, <2>3, <2>4, Zenon DEF cut
<1>11. QED
  BY <1>1, <1>3, <1>4, <1>7, <1>8, <1>9, <1>10, Zenon DEF Moves, SameAt, RevertsKept, v

\* The entries that have no request of the history, and those that have the one just sent.
LEMMA QuietHistory ==
    ASSUME NEW e \in Entry, ~e.page, e.phase \notin {"hydrating", "resuming"}
    PROVE  HistoryOK(e, {})
  BY SMT DEF HistoryOK
LEMMA RuntimeEntry ==
    ASSUME NEW phase \in Phases
    PROVE  Runtime(phase) \in Entry /\ Runtime(phase).phase = phase /\ ~Runtime(phase).page
<1>1. Runtime(phase) \in Entry
  BY Zenon DEF Runtime, NoRuntime, Entry
<1>2. QED
  BY <1>1, Zenon DEF Runtime, NoRuntime
LEMMA NoRuntimeEntry == NoRuntime \in Entry /\ NoRuntime.phase = "none" /\ ~NoRuntime.page
  BY SMT DEF NoRuntime, Entry, Phases

\* The request About(kind, t) has the fields one would think.
LEMMA AboutRequest ==
    ASSUME NEW kind \in Kinds, NEW t \in Thread
    PROVE  /\ About(kind, t) \in Request /\ About(kind, t).kind = kind /\ About(kind, t).thread = t
           /\ About(kind, t).tied /\ About(kind, t).prompt = 0
  BY SMT DEF About, Request, Phases

\* A thread without a page in flight that is not being hydrated or resumed waits for nothing.
LEMMA NothingTied ==
    ASSUME NEW e \in Entry, NEW R \in SUBSET Request, HistoryOK(e, R),
           \A r \in R : r.kind \in HistoryKinds \cup {"queue"},
           ~e.page, e.phase \notin {"hydrating", "resuming"}
    PROVE  R = {}
  BY SMT DEF HistoryOK, HistoryKinds

\* What is known of the entry and the requests of a thread.
LEMMA HistTypes ==
    ASSUME NEW w \in Works, NEW t \in Thread
    PROVE  /\ w.runtime[t] \in Entry /\ w.runtime[t].phase \in Phases /\ w.runtime[t].page \in BOOLEAN
           /\ Hist(w, t) \in SUBSET Request
           /\ \A r \in Hist(w, t) : r.kind \in HistoryKinds \cup {"queue"} /\ r.thread = t /\ r.tied
  BY SMT DEF Works, Hist, Entry

\* threadRuntime(): an entry is made where there was none.
LEMMA EnsureMoves ==
    ASSUME NEW w \in Works, NEW t \in Thread, HistoryOK(w.runtime[t], Hist(w, t))
    PROVE  /\ Moves(w, Ensure(w, t), t)
           /\ HistoryOK(Ensure(w, t).runtime[t], Hist(Ensure(w, t), t))
           /\ w.runtime[t].phase = "none" => Ensure(w, t).runtime[t].phase = "cold" /\ ~Ensure(w, t).runtime[t].page
           /\ w.runtime[t].phase # "none" => Ensure(w, t) = w
<1>1. CASE w.runtime[t].phase = "none"
  <2>1. Runtime("cold") \in Entry /\ Runtime("cold").phase = "cold" /\ ~Runtime("cold").page
    BY RuntimeEntry DEF Phases
  <2>2. /\ Moves(w, Replace(w, t, Runtime("cold")), t)
        /\ Replace(w, t, Runtime("cold")).runtime[t] = Runtime("cold")
        /\ Hist(Replace(w, t, Runtime("cold")), t) = {}
    BY <2>1, ReplaceMoves
  <2>3. HistoryOK(Runtime("cold"), {})
    BY <2>1, QuietHistory
  <2>4. Ensure(w, t) = Replace(w, t, Runtime("cold"))
    BY <1>1, Zenon DEF Ensure
  <2>5. QED
    BY <1>1, <2>1, <2>2, <2>3, <2>4, Zenon
<1>2. CASE w.runtime[t].phase # "none"
  BY <1>2, MovesNothing, Zenon DEF Ensure
<1>3. QED
  BY <1>1, <1>2, Zenon

\* One request of a hydration, in the phase that sent it.
LEMMA StartedHistory ==
    ASSUME NEW e \in Entry, NEW r \in Request, e.phase \in {"hydrating", "resuming"},
           e.page <=> e.phase = "hydrating",
           \/ r.kind = "resume" /\ r.phase = e.phase
           \/ r.kind = "page" /\ e.phase = "hydrating"
           \/ r.kind = "queue" /\ e.phase = "resuming"
    PROVE  HistoryOK(e, {r})
<1>1. CASE r.kind = "resume" /\ r.phase = e.phase
  BY <1>1, SMT DEF HistoryOK, HistoryKinds
<1>2. CASE r.kind = "page" /\ e.phase = "hydrating"
  BY <1>2, SMT DEF HistoryOK, HistoryKinds
<1>3. CASE r.kind = "queue" /\ e.phase = "resuming"
  BY <1>3, SMT DEF HistoryOK, HistoryKinds
<1>4. QED
  BY <1>1, <1>2, <1>3

\* hydrateThread(): at most the thread's own entry and history change; a thread that was
\* being hydrated or resumed, or failed, stays so, only one that was ready is resumed, and a
\* hydration the controller asks for is begun where none was.
Hydrated(w, v, t, interactive) ==
    /\ Moves(w, v, t)
    /\ HistoryOK(v.runtime[t], Hist(v, t))
    /\ v.runtime[t].phase # "none"
    /\ v.runtime[t].phase \in {"ready", "resuming"} => w.runtime[t].phase \in {"ready", "resuming"}
    /\ w.runtime[t].phase \in Waits => v.runtime[t].phase \in Waits
    /\ interactive /\ w.control /\ ~w.runtime[t].page /\ w.runtime[t].phase \in {"none", "cold", "ready"} =>
         v.runtime[t].phase \in Waits

LEMMA HydrateThreadMoves ==
    ASSUME NEW w \in Works, NEW t \in Thread, NEW interactive \in BOOLEAN, NEW forced \in BOOLEAN,
           HistoryOK(w.runtime[t], Hist(w, t))
    PROVE  Hydrated(w, HydrateThread(w, t, interactive, forced), t, interactive)
<1> DEFINE v == Ensure(w, t)
           phase == v.runtime[t].phase
           historyReady == ~forced /\ phase = "ready"
           next == IF historyReady THEN "resuming" ELSE "hydrating"
           e == [phase |-> next, page |-> ~historyReady]
           started == WithEntry(v, t, e)
           about == [About("resume", t) EXCEPT !.phase = next, !.interactive = interactive]
           apage == [about EXCEPT !.kind = "page"]
           busy == phase \in {"hydrating", "resuming"} \/ v.runtime[t].page \/ (~forced /\ phase = "failed")
<1>1. /\ Moves(w, v, t)
      /\ HistoryOK(v.runtime[t], Hist(v, t))
      /\ w.runtime[t].phase = "none" => phase = "cold" /\ ~v.runtime[t].page
      /\ w.runtime[t].phase # "none" => v = w
  BY EnsureMoves, Zenon
<1>2. v \in Works /\ v.control = w.control
  BY <1>1, Zenon DEF Moves
<1>3. HydrateThread(w, t, interactive, forced) =
        IF busy THEN v
        ELSE IF interactive /\ v.control THEN Send(started, about)
        ELSE IF historyReady THEN v ELSE Send(started, apage)
  BY <1>2, Zenon DEF HydrateThread, WithEntry
<1>4. phase # "none" /\ (w.runtime[t].phase \in Waits => phase \in Waits)
      /\ (phase \in {"ready", "resuming"} => w.runtime[t].phase \in {"ready", "resuming"})
      /\ (w.runtime[t].phase \in {"none", "cold", "ready"} /\ ~w.runtime[t].page =>
            phase \in {"cold", "ready"} /\ ~v.runtime[t].page)
  BY <1>1, SMT DEF Waits
<1>5. e \in Entry /\ e.phase = next /\ (e.page <=> next = "hydrating") /\ next \in {"hydrating", "resuming"}
  BY Zenon DEF Entry, Phases
<1>6. /\ about \in Request /\ about.kind = "resume" /\ about.phase = next /\ about.thread = t /\ about.tied
      /\ apage \in Request /\ apage.kind = "page" /\ apage.thread = t /\ apage.tied
  <2>1. /\ About("resume", t) \in Request /\ About("resume", t).kind = "resume"
        /\ About("resume", t).thread = t /\ About("resume", t).tied
    BY AboutRequest DEF Kinds, HistoryKinds
  <2>2. next \in Phases /\ "page" \in Kinds
    BY Zenon DEF Phases, Kinds, HistoryKinds
  <2>3. about \in Request /\ about.kind = "resume" /\ about.phase = next /\ about.thread = t /\ about.tied
    BY <2>1, <2>2, Zenon DEF Request
  <2>4. apage \in Request /\ apage.kind = "page" /\ apage.thread = t /\ apage.tied
    <3> HIDE DEF about
    <3>1. QED
      BY <2>2, <2>3, Zenon DEF Request
  <2>5. QED
    BY <2>3, <2>4, Zenon
<1> HIDE DEF v, e, about, apage
<1>7. /\ Moves(v, started, t) /\ started.runtime[t] = e /\ Hist(started, t) = Hist(v, t)
  BY <1>2, <1>5, EntryMoves, Zenon
<1> HIDE DEF started
<1>8. CASE busy \/ (~(interactive /\ v.control) /\ historyReady)
  <2>1. HydrateThread(w, t, interactive, forced) = v
    BY <1>3, <1>8, Zenon
  <2>2. interactive /\ w.control /\ ~w.runtime[t].page /\ w.runtime[t].phase \in {"none", "cold", "ready"} => FALSE
    BY <1>2, <1>4, <1>8, SMT
  <2>3. QED
    BY <1>1, <1>4, <2>1, <2>2, Zenon DEF Hydrated
<1>9. CASE ~busy /\ ((interactive /\ v.control) \/ ~historyReady)
  <2>1. Hist(v, t) = {}
    <3>1. v.runtime[t] \in Entry /\ Hist(v, t) \in SUBSET Request
          /\ \A r \in Hist(v, t) : r.kind \in HistoryKinds \cup {"queue"}
      BY <1>2, HistTypes, Zenon
    <3>2. ~v.runtime[t].page /\ v.runtime[t].phase \notin {"hydrating", "resuming"}
      BY <1>9, Zenon
    <3>3. QED
      BY <1>1, <3>1, <3>2, NothingTied
  <2>2. PICK r \in {about, apage} :
          /\ HydrateThread(w, t, interactive, forced) = Send(started, r)
          /\ r = about \/ next = "hydrating"
    BY <1>3, <1>9, Zenon
  <2>3. r \in Request /\ r.kind \in HistoryKinds \cup {"queue"} /\ r.thread = t /\ r.tied
    BY <1>6, <2>2, Zenon DEF HistoryKinds
  <2>4. started \in Works
    BY <1>7, Zenon DEF Moves
  <2>5. /\ Moves(started, Send(started, r), t) /\ Send(started, r).runtime = started.runtime
        /\ Hist(Send(started, r), t) = Hist(started, t) \cup {r}
    BY <2>3, <2>4, SendMoves
  <2>6. Moves(w, Send(started, r), t)
    BY <1>1, <1>7, <2>5, MovesOn, Zenon
  <2>7. Hist(Send(started, r), t) = {r} /\ Send(started, r).runtime[t] = e
    BY <1>7, <2>1, <2>5, SMT
  <2>8. HistoryOK(e, {r})
    BY <1>5, <1>6, <2>2, <2>3, StartedHistory, Zenon
  <2>9. next = "resuming" => w.runtime[t].phase \in {"ready", "resuming"}
    BY <1>4, Zenon
  <2>10. QED
    BY <1>5, <2>2, <2>6, <2>7, <2>8, <2>9, Zenon DEF Hydrated, Waits
<1>10. QED
  BY <1>8, <1>9, Zenon

\* ensureThreadHydrated()
LEMMA EnsureHydratedMoves ==
    ASSUME NEW w \in Works, NEW t \in Thread, NEW refresh \in BOOLEAN,
           HistoryOK(w.runtime[t], Hist(w, t))
    PROVE  /\ Hydrated(w, EnsureHydrated(w, t, refresh), t, FALSE) \/ EnsureHydrated(w, t, refresh) = w
           /\ w.online /\ w.control /\ w.runtime[t].phase \in {"none", "cold"} =>
                EnsureHydrated(w, t, refresh).runtime[t].phase \in Waits
<1> DEFINE v == Ensure(w, t)
<1>1. /\ Moves(w, v, t)
      /\ HistoryOK(v.runtime[t], Hist(v, t))
      /\ w.runtime[t].phase = "none" => v.runtime[t].phase = "cold" /\ ~v.runtime[t].page
      /\ w.runtime[t].phase # "none" => v = w
  BY EnsureMoves, Zenon
<1>2. v \in Works /\ v.control = w.control
  BY <1>1, Zenon DEF Moves
<1>3. EnsureHydrated(w, t, refresh) =
        IF ~w.online THEN w
        ELSE IF v.runtime[t].phase = "cold" \/ (refresh /\ v.runtime[t].phase = "ready")
             THEN HydrateThread(v, t, TRUE, FALSE) ELSE v
  BY Zenon DEF EnsureHydrated
<1>4. Hydrated(v, HydrateThread(v, t, TRUE, FALSE), t, TRUE)
  BY <1>1, <1>2, HydrateThreadMoves, Zenon
<1> HIDE DEF v
<1>5. CASE ~w.online
  BY <1>3, <1>5, Zenon
<1>6. CASE w.online /\ (v.runtime[t].phase = "cold" \/ (refresh /\ v.runtime[t].phase = "ready"))
  <2>1. EnsureHydrated(w, t, refresh) = HydrateThread(v, t, TRUE, FALSE)
    BY <1>3, <1>6, Zenon
  <2>2. Moves(w, HydrateThread(v, t, TRUE, FALSE), t)
    BY <1>1, <1>4, MovesOn, Zenon DEF Hydrated
  <2>3. w.runtime[t].phase \in Waits => FALSE
    BY <1>1, <1>6, Zenon DEF Waits
  <2>4. w.runtime[t].phase \in {"none", "cold"} => v.runtime[t].phase = "cold" /\ ~v.runtime[t].page
    <3>1. w.runtime[t].phase = "cold" => ~w.runtime[t].page
      BY SMT DEF HistoryOK, HistoryKinds
    <3>2. QED
      BY <1>1, <3>1, Zenon
  <2>5. v.runtime[t].phase \in {"ready", "resuming"} => w.runtime[t].phase \in {"ready", "resuming"}
    BY <1>1, Zenon
  <2>6. QED
    BY <1>2, <1>4, <2>1, <2>2, <2>3, <2>4, <2>5, Zenon DEF Hydrated
<1>7. CASE w.online /\ ~(v.runtime[t].phase = "cold" \/ (refresh /\ v.runtime[t].phase = "ready"))
  <2>1. EnsureHydrated(w, t, refresh) = v
    BY <1>3, <1>7, Zenon
  <2>2. v = w
    BY <1>1, <1>7, Zenon
  <2>3. w.runtime[t].phase \notin {"none", "cold"}
    BY <1>1, <1>7, Zenon
  <2>4. QED
    BY <2>1, <2>2, <2>3, Zenon
<1>8. QED
  BY <1>5, <1>6, <1>7, Zenon

\* A thread that is ready is resumed for its queue.
LEMMA ResumePromptQueueMoves ==
    ASSUME NEW w \in Works, NEW t \in Thread, HistoryOK(w.runtime[t], Hist(w, t)),
           w.runtime[t].phase = "ready"
    PROVE  /\ Moves(w, ResumePromptQueue(w, t), t)
           /\ HistoryOK(ResumePromptQueue(w, t).runtime[t], Hist(ResumePromptQueue(w, t), t))
           /\ ResumePromptQueue(w, t).runtime[t].phase = "resuming"
<1> DEFINE v == SetPhase(w, t, "resuming")
           r == About("queue", t)
           e == [w.runtime[t] EXCEPT !.phase = "resuming"]
<1>1. w.runtime[t] \in Entry /\ Hist(w, t) \in SUBSET Request
  BY HistTypes
<1>2. e \in Entry /\ e.phase = "resuming" /\ e.page = w.runtime[t].page
  BY <1>1, Zenon DEF Entry, Phases
<1>3. v = WithEntry(w, t, e)
  BY Zenon DEF SetPhase, Works, WithEntry
<1>4. Moves(w, v, t) /\ v.runtime[t] = e /\ Hist(v, t) = Hist(w, t)
  BY <1>2, <1>3, EntryMoves
<1>5. r \in Request /\ r.kind = "queue" /\ r.thread = t /\ r.tied
  BY AboutRequest DEF Kinds
<1> HIDE DEF v, r, e
<1>6. v \in Works
  BY <1>4, Zenon DEF Moves
<1>7. Moves(v, Send(v, r), t) /\ Send(v, r).runtime = v.runtime /\ Hist(Send(v, r), t) = Hist(v, t) \cup {r}
  BY <1>5, <1>6, SendMoves, Zenon
<1>8. \A x \in Hist(w, t) : x.kind \in {"first", "more"}
  <2>1. \A x \in Hist(w, t) : x.kind \in {"resume", "page", "first", "more", "queue"}
    BY HistTypes, ZenonT(30) DEF HistoryKinds
  <2>2. QED
    BY <2>1, Zenon DEF HistoryOK
<1>9. HistoryOK(e, Hist(w, t) \cup {r})
  BY <1>2, <1>5, <1>8, SMT DEF HistoryOK, HistoryKinds
<1>10. ResumePromptQueue(w, t) = Send(v, r)
  BY Zenon DEF ResumePromptQueue, v, r
<1>11. QED
  BY <1>2, <1>4, <1>7, <1>9, <1>10, MovesOn, Zenon

-----------------------------------------------------------------------------
\* The queue

\* The lowest of the waiting prompts of t goes to the app-server: q.
Goes(w, v, t, q) ==
    /\ q \in InState(w, t, "queued") /\ InState(w, t, "inFlight") = {}
    /\ \A p \in InState(w, t, "queued") : q <= p
    /\ w.runtime[t].phase # "none" /\ v.runtime[t].phase # "none"
    /\ v.prompt[q] = [w.prompt[q] EXCEPT !.state = "inFlight", !.sent = TRUE]
    /\ \A p \in Prompt : p # q /\ w.prompt[p].thread = t => v.prompt[p] = w.prompt[p]
    /\ Turns(v, t) = Turns(w, t) \cup {[About("turn", t) EXCEPT !.prompt = q]}
Keeps(w, v, t) ==
    /\ \A p \in Prompt : w.prompt[p].thread = t => v.prompt[p] = w.prompt[p]
    /\ Turns(v, t) = Turns(w, t)
\* What dispatchNextPrompt() does for its thread, and the step that does it for those in D.
Dispatched(w, v, t) ==
    /\ RevertsKept(w, v, t)
    /\ HistoryOK(v.runtime[t], Hist(v, t))
    /\ v.runtime[t].phase \in {"ready", "resuming"} => w.runtime[t].phase \in {"ready", "resuming"}
    /\ v.runtime[t].phase = "none" => w.runtime[t].phase = "none"
    /\ Served(v, t)
    /\ Keeps(w, v, t) \/ \E q \in Prompt : Goes(w, v, t, q)
DispatchStep(w, v, D) ==
    /\ v \in Works /\ v.online = w.online /\ v.control = w.control
    /\ \A p \in Prompt : /\ v.prompt[p].thread = w.prompt[p].thread
                         /\ w.prompt[p].thread \notin D => v.prompt[p] = w.prompt[p]
    /\ \A u \in Thread : u \notin D => SameAt(w, v, u)
    /\ \A t \in D : Dispatched(w, v, t)

\* A prompt's fields.
LEMMA PromptTypes ==
    ASSUME NEW w \in Works, NEW p \in Prompt
    PROVE  /\ w.prompt[p] \in Submission /\ w.prompt[p].state \in PromptStates
           /\ w.prompt[p].thread \in Thread \cup {Draft, None}
           /\ w.prompt[p].item \in BOOLEAN /\ w.prompt[p].sent \in BOOLEAN
  BY SMT DEF Works, Submission

\* A dispatch that sends no prompt moves its thread only.
LEMMA MovesDispatch ==
    ASSUME NEW w \in Works, NEW v, NEW t \in Thread, Moves(w, v, t),
           HistoryOK(v.runtime[t], Hist(v, t)),
           v.runtime[t].phase \in {"ready", "resuming"} => w.runtime[t].phase \in {"ready", "resuming"},
           v.runtime[t].phase = "none" => w.runtime[t].phase = "none",
           Served(v, t)
    PROVE  DispatchStep(w, v, {t})
<1>1. Keeps(w, v, t)
  BY Zenon DEF Keeps, Moves
<1>2. Dispatched(w, v, t)
  BY <1>1, Zenon DEF Dispatched, Moves
<1>3. QED
  BY <1>2, Zenon DEF DispatchStep, Moves

\* beginNext()
LEMMA BeginNextDispatch ==
    ASSUME NEW w \in Works, NEW t \in Thread, HistoryOK(w.runtime[t], Hist(w, t)),
           w.runtime[t].phase = "ready",
           InState(w, t, "inFlight") = {}, InState(w, t, "queued") # {}
    PROVE  DispatchStep(w, BeginNext(w, t), {t})
<1> DEFINE q == Min(InState(w, t, "queued"))
           s == [w.prompt[q] EXCEPT !.state = "inFlight", !.sent = TRUE]
           r == [About("turn", t) EXCEPT !.prompt = q]
           v == BeginNext(w, t)
<1>1. q \in InState(w, t, "queued") /\ \A p \in InState(w, t, "queued") : q <= p
  <2>1. InState(w, t, "queued") \in SUBSET Prompt
    BY Zenon DEF InState
  <2>2. QED
    BY <2>1, LowestPrompt
<1>2. q \in Prompt /\ w.prompt[q].thread = t /\ w.prompt[q].state = "queued"
  BY <1>1, Zenon DEF InState
<1>3. w.prompt[q] \in Submission
  BY <1>2, PromptTypes, Zenon
<1>4. s \in Submission /\ s.state = "inFlight" /\ s.thread = t
  BY <1>2, <1>3, Zenon DEF Submission, PromptStates
<1>5. r \in Request /\ r.kind = "turn" /\ r.thread = t
  <2>1. About("turn", t) \in Request /\ About("turn", t).kind = "turn" /\ About("turn", t).thread = t
    BY AboutRequest, Zenon DEF Kinds
  <2>2. QED
    BY <1>2, <2>1, Zenon DEF Request
<1> HIDE DEF q, r
<1>6. /\ v.online = w.online /\ v.control = w.control /\ v.runtime = w.runtime
      /\ v.prompt = [w.prompt EXCEPT ![q] = s] /\ v.requests = w.requests \cup {r}
      /\ v \in Works
  <2>1. w.prompt \in [Prompt -> Submission] /\ w.requests \subseteq Request
    BY Zenon DEF Works
  <2>2. v = Send([w EXCEPT !.prompt[q].state = "inFlight", !.prompt[q].sent = TRUE], r)
    BY Zenon DEF BeginNext, q, r
  <2>3. [w EXCEPT !.prompt[q].state = "inFlight", !.prompt[q].sent = TRUE] = [w EXCEPT !.prompt[q] = s]
    BY <1>2, <1>3, <2>1, Zenon DEF Works, Submission
  <2>4. v = [w EXCEPT !.prompt = [w.prompt EXCEPT ![q] = s], !.requests = w.requests \cup {r}]
    BY <2>2, <2>3, Zenon DEF Send, Works
  <2>5. [w.prompt EXCEPT ![q] = s] \in [Prompt -> Submission] /\ w.requests \cup {r} \subseteq Request
    BY <1>4, <1>5, <2>1, Zenon
  <2> HIDE DEF v, s
  <2>6. QED
    BY <2>4, <2>5, Zenon DEF Works
<1> HIDE DEF v
<1>7. v.prompt[q] = s /\ \A p \in Prompt : p # q => v.prompt[p] = w.prompt[p]
  BY <1>2, <1>6, Zenon DEF Works
<1>8. \A u \in Thread : Hist(v, u) = Hist(w, u) /\ Reverts(v, u) = Reverts(w, u)
  <2>1. r.kind \notin HistoryKinds \cup {"queue"} /\ r.kind \notin RevertKinds
    BY <1>5, Zenon DEF HistoryKinds, RevertKinds
  <2>2. QED
    BY <1>6, <2>1, SMT DEF Hist, Reverts
<1>9. \A u \in Thread : u # t => Turns(v, u) = Turns(w, u)
  BY <1>5, <1>6, SMT DEF Turns
<1>10. Turns(v, t) = Turns(w, t) \cup {r}
  BY <1>5, <1>6, SMT DEF Turns
<1>11. Served(v, t)
  <2>1. q \in InState(v, t, "inFlight")
    BY <1>2, <1>4, <1>7, Zenon DEF InState
  <2>2. QED
    BY <2>1, Zenon DEF Served
<1>12. Goes(w, v, t, q)
  <2>1. r = [About("turn", t) EXCEPT !.prompt = q]
    BY Zenon DEF r
  <2>2. Turns(v, t) = Turns(w, t) \cup {[About("turn", t) EXCEPT !.prompt = q]}
    BY <1>10, <2>1, Zenon
  <2>3. v.runtime[t].phase = "ready"
    BY <1>6, Zenon
  <2>4. QED
    BY <1>1, <1>7, <2>2, <2>3, Zenon DEF Goes
<1>13. Dispatched(w, v, t)
  <2>1. v.runtime[t] = w.runtime[t]
    BY <1>6, Zenon
  <2>2. HistoryOK(v.runtime[t], Hist(v, t))
    BY <1>8, <2>1, Zenon
  <2>3. QED
    BY <1>2, <1>8, <1>11, <1>12, <2>1, <2>2, Zenon DEF Dispatched, RevertsKept
<1>14. \A p \in Prompt : v.prompt[p].thread = w.prompt[p].thread
                         /\ (w.prompt[p].thread \notin {t} => v.prompt[p] = w.prompt[p])
  BY <1>2, <1>4, <1>7, Zenon
<1>15. \A u \in Thread : u \notin {t} => SameAt(w, v, u)
  BY <1>6, <1>8, <1>9, Zenon DEF SameAt
<1>16. QED
  BY <1>6, <1>13, <1>14, <1>15, Zenon DEF DispatchStep, v

\* dispatchNextPrompt(): the thread's queue is served, whatever it found.
LEMMA DispatchNextStep ==
    ASSUME NEW w \in Works, NEW t \in Thread, NEW resumed \in BOOLEAN, NEW st \in Statuses,
           HistoryOK(w.runtime[t], Hist(w, t)), ReadyIsKnown(w, t, st)
    PROVE  DispatchStep(w, DispatchNext(w, t, resumed, st), {t})
<1> DEFINE v == Ensure(w, t)
<1>1. /\ Moves(w, v, t)
      /\ HistoryOK(v.runtime[t], Hist(v, t))
      /\ w.runtime[t].phase = "none" => v.runtime[t].phase = "cold" /\ ~v.runtime[t].page
      /\ w.runtime[t].phase # "none" => v = w
  BY EnsureMoves, Zenon
<1>2. v \in Works /\ v.control = w.control /\ v.online = w.online
  BY <1>1, Zenon DEF Moves
<1>3. CASE ~MayDispatch(w, t)
  <2>1. DispatchNext(w, t, resumed, st) = w
    BY <1>3, Zenon DEF DispatchNext
  <2>2. Served(w, t)
    BY <1>3, Zenon DEF MayDispatch, Served
  <2>3. QED
    BY <2>1, <2>2, MovesNothing, MovesDispatch, Zenon
<1>4. CASE MayDispatch(w, t) /\ v.runtime[t].phase # "ready"
  <2> DEFINE x == EnsureHydrated(v, t, FALSE)
  <2>1. DispatchNext(w, t, resumed, st) = x
    BY <1>4, Zenon DEF DispatchNext
  <2>2. /\ Hydrated(v, x, t, FALSE) \/ x = v
        /\ v.online /\ v.control /\ v.runtime[t].phase \in {"none", "cold"} => x.runtime[t].phase \in Waits
    BY <1>1, <1>2, EnsureHydratedMoves, Zenon
  <2> HIDE DEF x
  <2>3. v.online /\ v.control
    BY <1>2, <1>4, Zenon DEF MayDispatch, CanSubmit
  <2>4. x.runtime[t].phase \in Waits
    <3>1. v.runtime[t].phase \in Phases
      BY <1>2, HistTypes, Zenon
    <3>2. v.runtime[t].phase \in {"none", "cold"} \cup Waits
      BY <1>4, <3>1, Zenon DEF Phases, Waits
    <3>3. v.runtime[t].phase \in Waits => x.runtime[t].phase \in Waits
      BY <2>2, Zenon DEF Hydrated
    <3>4. QED
      BY <2>2, <2>3, <3>2, <3>3, Zenon
  <2>5. Moves(w, x, t) /\ HistoryOK(x.runtime[t], Hist(x, t))
    BY <1>1, <2>2, MovesOn, Zenon DEF Hydrated
  <2>6. x.runtime[t].phase \in {"ready", "resuming"} => w.runtime[t].phase \in {"ready", "resuming"}
    <3>1. x.runtime[t].phase \in {"ready", "resuming"} => v.runtime[t].phase \in {"ready", "resuming"}
      BY <2>2, Zenon DEF Hydrated
    <3>2. QED
      BY <1>1, <3>1, Zenon
  <2>7. Served(x, t) /\ x.runtime[t].phase # "none"
    BY <2>4, Zenon DEF Served, Waits
  <2>8. QED
    BY <2>1, <2>5, <2>6, <2>7, MovesDispatch, Zenon
<1>5. CASE MayDispatch(w, t) /\ v.runtime[t].phase = "ready"
  <2>1. v = w /\ w.runtime[t].phase = "ready"
    BY <1>1, <1>5, Zenon
  <2>2. st # "absent"
    BY <2>1, Zenon DEF ReadyIsKnown
  <2>3. CASE st = "notLoaded" /\ ~resumed
    <3> DEFINE x == ResumePromptQueue(w, t)
    <3>1. DispatchNext(w, t, resumed, st) = x
      BY <1>5, <2>1, <2>2, <2>3, Zenon DEF DispatchNext
    <3>2. Moves(w, x, t) /\ HistoryOK(x.runtime[t], Hist(x, t)) /\ x.runtime[t].phase = "resuming"
      BY <2>1, ResumePromptQueueMoves, Zenon
    <3> HIDE DEF x
    <3>3. Served(x, t)
      BY <3>2, Zenon DEF Served, Waits
    <3>4. QED
      BY <2>1, <3>1, <3>2, <3>3, MovesDispatch, Zenon
  <2>4. CASE ~(st = "notLoaded" /\ ~resumed)
    <3>1. DispatchNext(w, t, resumed, st) = BeginNext(w, t)
      BY <1>5, <2>1, <2>2, <2>4, Zenon DEF DispatchNext
    <3>2. InState(w, t, "inFlight") = {} /\ InState(w, t, "queued") # {}
      BY <1>5, Zenon DEF MayDispatch
    <3>3. QED
      BY <2>1, <3>1, <3>2, BeginNextDispatch, Zenon
  <2>5. QED
    BY <2>3, <2>4, Zenon
<1>6. QED
  BY <1>3, <1>4, <1>5, Zenon

\* dispatchQueuedPrompts(): the step of each thread is that of its own dispatch.
LEMMA DispatchAllStep ==
    ASSUME NEW w \in Works, status \in [Thread -> Statuses],
           \A t \in Thread : HistoryOK(w.runtime[t], Hist(w, t)) /\ ReadyIsKnown(w, t, status[t])
    PROVE  DispatchStep(w, DispatchAll(w), Thread)
<1> DEFINE each == [t \in Thread |-> DispatchNext(w, t, FALSE, status[t])]
           v == DispatchAll(w)
<1>1. \A t \in Thread : DispatchStep(w, each[t], {t})
  <2>1. \A t \in Thread : DispatchStep(w, DispatchNext(w, t, FALSE, status[t]), {t})
    BY DispatchNextStep, Zenon
  <2>2. QED
    BY <2>1, Zenon
<1> HIDE DEF each
<1>2. \A t \in Thread : /\ each[t] \in Works /\ each[t].online = w.online /\ each[t].control = w.control
                        /\ Dispatched(w, each[t], t)
                        /\ \A p \in Prompt : each[t].prompt[p].thread = w.prompt[p].thread
  BY <1>1, Zenon DEF DispatchStep
<1> DEFINE pr == [p \in Prompt |-> IF w.prompt[p].thread \in Thread
                                    THEN each[w.prompt[p].thread].prompt[p] ELSE w.prompt[p]]
           rt == [t \in Thread |-> each[t].runtime[t]]
           rq == UNION {{r \in each[t].requests : r.thread = t} : t \in Thread}
<1>3. v = [w EXCEPT !.prompt = pr, !.runtime = rt, !.requests = rq]
  BY Zenon DEF DispatchAll, each
<1>4. pr \in [Prompt -> Submission]
  <2>1. \A p \in Prompt : w.prompt[p] \in Submission
    BY PromptTypes, Zenon
  <2>2. \A p \in Prompt : \A t \in Thread : each[t].prompt[p] \in Submission
    BY <1>2, PromptTypes, Zenon
  <2>3. QED
    BY <2>1, <2>2, Zenon
<1>5. rt \in [Thread -> Entry]
  <2>1. \A t \in Thread : each[t].runtime[t] \in Entry
    BY <1>2, HistTypes, Zenon
  <2>2. QED
    BY <2>1, Zenon
<1>6. rq \subseteq Request
  <2>1. \A t \in Thread : each[t].requests \subseteq Request
    BY <1>2, Zenon DEF Works
  <2>2. QED
    BY <2>1, Zenon
<1>7. \A p \in Prompt : \/ w.prompt[p].thread \in Thread /\ pr[p] = each[w.prompt[p].thread].prompt[p]
                        \/ w.prompt[p].thread \notin Thread /\ pr[p] = w.prompt[p]
  BY Zenon
<1>8. \A t \in Thread : rt[t] = each[t].runtime[t]
  BY Zenon
<1>9. \A t \in Thread : {r \in rq : r.thread = t} = {r \in each[t].requests : r.thread = t}
  BY Zenon
<1> HIDE DEF pr, rt, rq, v
<1>10. /\ v.prompt = pr /\ v.runtime = rt /\ v.requests = rq
       /\ v.online = w.online /\ v.control = w.control /\ v \in Works
  BY <1>3, <1>4, <1>5, <1>6, Zenon DEF Works
<1>11. \A p \in Prompt : v.prompt[p].thread = w.prompt[p].thread
                         /\ (w.prompt[p].thread \notin Thread => v.prompt[p] = w.prompt[p])
  BY <1>2, <1>7, <1>10, ZenonT(30)
<1>12. ASSUME NEW t \in Thread PROVE Dispatched(w, v, t)
  <2> DEFINE x == each[t]
  <2>1. /\ x.online = v.online /\ x.control = v.control /\ Dispatched(w, x, t)
        /\ \A p \in Prompt : x.prompt[p].thread = w.prompt[p].thread
    BY <1>2, <1>10, Zenon
  <2>2. \A r : r \in v.requests /\ r.thread = t <=> r \in x.requests /\ r.thread = t
    BY <1>9, <1>10, Zenon
  <2>3. v.runtime[t] = x.runtime[t]
    BY <1>8, <1>10, Zenon
  <2>4. \A p \in Prompt : w.prompt[p].thread = t => v.prompt[p] = x.prompt[p]
    BY <1>7, <1>10, Zenon
  <2> HIDE DEF x
  <2>5. Hist(v, t) = Hist(x, t) /\ Turns(v, t) = Turns(x, t) /\ Reverts(v, t) = Reverts(x, t)
    BY <2>2, Zenon DEF Hist, Turns, Reverts
  <2>6. \A s : InState(v, t, s) = InState(x, t, s)
    BY <1>11, <2>1, <2>4, Zenon DEF InState
  <2>7. Served(v, t)
    BY <2>1, <2>3, <2>6, Zenon DEF Dispatched, Served, CanSubmit
  <2>8. Keeps(w, x, t) => Keeps(w, v, t)
    BY <2>4, <2>5, Zenon DEF Keeps
  <2>9. \A q \in Prompt : Goes(w, x, t, q) => Goes(w, v, t, q)
    BY <2>3, <2>4, <2>5, Zenon DEF Goes, InState
  <2>10. Keeps(w, v, t) \/ \E q \in Prompt : Goes(w, v, t, q)
    BY <2>1, <2>8, <2>9, Zenon DEF Dispatched
  <2>11. QED
    BY <2>1, <2>3, <2>5, <2>7, <2>10, Zenon DEF Dispatched, RevertsKept
<1>13. QED
  BY <1>10, <1>11, <1>12, Zenon DEF DispatchStep, v

\* A prompt stays what it is in a dispatch, or is the one of its thread that goes.
LEMMA DispatchPrompts ==
    ASSUME NEW w \in Works, NEW v, NEW D \in SUBSET Thread, DispatchStep(w, v, D), NEW p \in Prompt
    PROVE  \/ v.prompt[p] = w.prompt[p]
           \/ w.prompt[p].thread \in D /\ Goes(w, v, w.prompt[p].thread, p)
<1>1. CASE w.prompt[p].thread \in D
  <2> DEFINE t == w.prompt[p].thread
  <2>1. Keeps(w, v, t) \/ \E q \in Prompt : Goes(w, v, t, q)
    BY <1>1, Zenon DEF DispatchStep, Dispatched
  <2>2. CASE Keeps(w, v, t)
    BY <2>2, Zenon DEF Keeps
  <2>3. CASE \E q \in Prompt : Goes(w, v, t, q)
    <3>1. PICK q \in Prompt : Goes(w, v, t, q)
      BY <2>3, Zenon
    <3>2. CASE p = q
      BY <1>1, <3>1, <3>2, Zenon
    <3>3. CASE p # q
      BY <3>1, <3>3, Zenon DEF Goes
    <3>4. QED
      BY <3>2, <3>3, Zenon
  <2>4. QED
    BY <2>1, <2>2, <2>3, Zenon
<1>2. CASE w.prompt[p].thread \notin D
  BY <1>2, Zenon DEF DispatchStep
<1>3. QED
  BY <1>1, <1>2, Zenon

\* What the prompt that goes was and becomes.
LEMMA GoesFields ==
    ASSUME NEW w \in Works, NEW v, NEW t, NEW q \in Prompt, Goes(w, v, t, q)
    PROVE  /\ w.prompt[q].thread = t /\ w.prompt[q].state = "queued"
           /\ v.prompt[q].thread = t /\ v.prompt[q].state = "inFlight" /\ v.prompt[q].sent
           /\ v.prompt[q].item = w.prompt[q].item
           /\ \E r \in Turns(v, t) : r.prompt = q
<1>1. w.prompt[q].thread = t /\ w.prompt[q].state = "queued"
  BY Zenon DEF Goes, InState
<1>2. v.prompt[q] = [w.prompt[q] EXCEPT !.state = "inFlight", !.sent = TRUE] /\ w.prompt[q] \in Submission
  BY PromptTypes, Zenon DEF Goes
<1>3. /\ v.prompt[q].thread = w.prompt[q].thread /\ v.prompt[q].state = "inFlight" /\ v.prompt[q].sent
      /\ v.prompt[q].item = w.prompt[q].item
  BY <1>2, Zenon DEF Submission
<1>4. [About("turn", t) EXCEPT !.prompt = q].prompt = q
  BY Zenon DEF About
<1>5. [About("turn", t) EXCEPT !.prompt = q] \in Turns(v, t)
  BY Zenon DEF Goes
<1>6. QED
  BY <1>1, <1>3, <1>4, <1>5, Zenon

\* A dispatch keeps the work of the session sound.
LEMMA DispatchSound ==
    ASSUME NEW w, NEW v, NEW st, NEW rv, NEW D \in SUBSET Thread,
           Sound(w, st, rv), DispatchStep(w, v, D)
    PROVE  Sound(v, st, rv)
<1>1. w \in Works /\ v \in Works
  BY Zenon DEF Sound, DispatchStep
<1>2. ASSUME NEW p \in Prompt PROVE PromptOK(v, p)
  <2>1. PromptOK(w, p)
    BY Zenon DEF Sound
  <2>2. CASE v.prompt[p] = w.prompt[p]
    <3>1. ASSUME v.prompt[p].state = "inFlight"
          PROVE  /\ v.runtime[v.prompt[p].thread].phase # "none"
                 /\ \E r \in Turns(v, v.prompt[p].thread) : r.prompt = p
      <4> DEFINE t == v.prompt[p].thread
      <4>1. /\ t \in Thread /\ w.runtime[t].phase # "none"
            /\ \E r \in Turns(w, t) : r.prompt = p
        BY <2>1, <2>2, <3>1, Zenon DEF PromptOK
      <4> HIDE DEF t
      <4>2. CASE t \in D
        <5>1. Dispatched(w, v, t)
          BY <4>2, Zenon DEF DispatchStep
        <5>2. Turns(w, t) \subseteq Turns(v, t)
          BY <5>1, Zenon DEF Dispatched, Keeps, Goes
        <5>3. QED
          BY <4>1, <5>1, <5>2, Zenon DEF Dispatched, t
      <4>3. CASE t \notin D
        BY <4>1, <4>3, Zenon DEF DispatchStep, SameAt, t
      <4>4. QED
        BY <4>2, <4>3, Zenon
    <3>2. QED
      BY <2>1, <2>2, <3>1, Zenon DEF PromptOK
  <2>3. CASE w.prompt[p].thread \in D /\ Goes(w, v, w.prompt[p].thread, p)
    <3> DEFINE t == w.prompt[p].thread
    <3>1. t \in Thread
      BY <2>3, Zenon
    <3>2. /\ v.prompt[p].thread = t /\ v.prompt[p].state = "inFlight" /\ v.prompt[p].sent
          /\ \E r \in Turns(v, t) : r.prompt = p
      BY <1>1, <2>3, <3>1, GoesFields
    <3>3. v.runtime[t].phase # "none"
      BY <2>3, Zenon DEF Goes
    <3>4. t # Draft
      BY <3>1, BrowserAssumption, Zenon
    <3> HIDE DEF t
    <3>5. QED
      BY <3>1, <3>2, <3>3, <3>4, Zenon DEF PromptOK
  <2>4. QED
    BY <1>1, <2>2, <2>3, DispatchPrompts, Zenon
<1>3. ASSUME NEW u \in Thread PROVE ThreadOK(v, u, st[u], rv[u])
  <2>1. ThreadOK(w, u, st[u], rv[u])
    BY Zenon DEF Sound
  <2>2. /\ HistoryOK(v.runtime[u], Hist(v, u)) /\ RevertsKept(w, v, u)
        /\ v.runtime[u].phase \in {"ready", "resuming"} => w.runtime[u].phase \in {"ready", "resuming"}
    BY <2>1, Zenon DEF DispatchStep, SameAt, Dispatched, ThreadOK, RevertsKept
  <2>3. ReadyIsKnown(v, u, st[u])
    BY <2>1, <2>2, Zenon DEF ReadyIsKnown, ThreadOK
  <2>4. ASSUME NEW r \in Turns(v, u) PROVE TurnOK(v, r)
    <3>1. CASE r \in Turns(w, u)
      <4>1. TurnOK(w, r) /\ r.thread = u
        BY <2>1, <3>1, Zenon DEF ThreadOK, Turns
      <4>2. r.prompt \in Prompt
        BY <4>1, Zenon DEF TurnOK
      <4>3. CASE v.prompt[r.prompt] = w.prompt[r.prompt]
        BY <4>1, <4>3, Zenon DEF TurnOK
      <4>4. CASE w.prompt[r.prompt].thread \in D /\ Goes(w, v, w.prompt[r.prompt].thread, r.prompt)
        <5>1. w.prompt[r.prompt].state = "queued"
          BY <1>1, <4>2, <4>4, GoesFields
        <5>2. ~w.prompt[r.prompt].sent
          BY <4>2, <5>1, Zenon DEF Sound, PromptOK
        <5>3. QED
          BY <4>1, <5>2, Zenon DEF TurnOK
      <4>5. QED
        BY <1>1, <4>2, <4>3, <4>4, DispatchPrompts
    <3>2. CASE r \notin Turns(w, u)
      <4>1. u \in D
        BY <3>2, Zenon DEF DispatchStep, SameAt
      <4>2. PICK q \in Prompt : Goes(w, v, u, q)
        BY <3>2, <4>1, Zenon DEF DispatchStep, Dispatched, Keeps
      <4>3. r = [About("turn", u) EXCEPT !.prompt = q]
        BY <3>2, <4>2, Zenon DEF Goes
      <4>4. r.prompt = q /\ r.thread = u
        BY <4>3, Zenon DEF About
      <4>5. v.prompt[q].thread = u /\ v.prompt[q].sent
        BY <1>1, <4>2, GoesFields
      <4>6. QED
        BY <4>4, <4>5, Zenon DEF TurnOK
    <3>3. QED
      BY <3>1, <3>2, Zenon
  <2>5. Settled(w, u) => Settled(v, u)
    <3>1. SUFFICES ASSUME Settled(w, u), NEW p \in Prompt, v.prompt[p].thread = u, ~v.prompt[p].item
                   PROVE  v.prompt[p].state \notin {"queued", "inFlight", "accepted"}
      BY Zenon DEF Settled
    <3>2. CASE v.prompt[p] = w.prompt[p]
      BY <3>1, <3>2, Zenon DEF Settled
    <3>3. CASE w.prompt[p].thread \in D /\ Goes(w, v, w.prompt[p].thread, p)
      <4>1. w.prompt[p].state = "queued" /\ v.prompt[p].thread = w.prompt[p].thread
            /\ v.prompt[p].item = w.prompt[p].item
        BY <1>1, <3>3, GoesFields
      <4>2. QED
        BY <3>1, <4>1, Zenon DEF Settled
    <3>4. QED
      BY <1>1, <3>2, <3>3, DispatchPrompts, Zenon
  <2>6. RevertOK(v, u, st[u], rv[u])
    BY <2>1, <2>2, <2>5, Zenon DEF RevertOK, ThreadOK, RevertsKept
  <2>7. QED
    BY <2>2, <2>3, <2>4, <2>6, Zenon DEF ThreadOK
<1>4. QED
  BY <1>1, <1>2, <1>3, Zenon DEF Sound

\* After a dispatch the threads in D are served, and the others are as they were.
LEMMA DispatchServes ==
    ASSUME NEW w, NEW v, NEW D \in SUBSET Thread, DispatchStep(w, v, D),
           \A t \in Thread \ D : Served(w, t)
    PROVE  \A t \in Thread : Served(v, t)
<1>1. ASSUME NEW t \in Thread PROVE Served(v, t)
  <2>1. CASE t \in D
    BY <2>1, Zenon DEF DispatchStep, Dispatched
  <2>2. CASE t \notin D
    <3>1. \A p \in Prompt : v.prompt[p].thread = t <=> w.prompt[p].thread = t
      BY Zenon DEF DispatchStep
    <3>2. \A p \in Prompt : w.prompt[p].thread = t => v.prompt[p] = w.prompt[p]
      BY <2>2, Zenon DEF DispatchStep
    <3>3. \A s : InState(v, t, s) = InState(w, t, s)
      BY <3>1, <3>2, Zenon DEF InState
    <3>4. v.runtime[t] = w.runtime[t] /\ Served(w, t) /\ (CanSubmit(v) <=> CanSubmit(w))
      BY <2>2, Zenon DEF DispatchStep, SameAt, CanSubmit
    <3>5. QED
      BY <3>3, <3>4, Zenon DEF Served
  <2>3. QED
    BY <2>1, <2>2, Zenon
<1>2. QED
  BY <1>1
LEMMA DispatchDraft ==
    ASSUME NEW w, NEW v, NEW cr, NEW D \in SUBSET Thread, DispatchStep(w, v, D), DraftOK(w, cr)
    PROVE  DraftOK(v, cr)
<1>1. Draft \notin D
  BY BrowserAssumption, Zenon
<1>2. InState(v, Draft, "queued") = InState(w, Draft, "queued")
  BY <1>1, Zenon DEF DispatchStep, InState
<1>3. QED
  BY <1>2, Zenon DEF DraftOK

-----------------------------------------------------------------------------
\* What keeps the invariant

\* The prompts x become y in the order of their admission: the property, as an operator.
InOrder(x, y) ==
    \A p \in Prompt :
      /\ y[p].state = "inFlight" /\ x[p].state # "inFlight" =>
           /\ ~x[p].sent
           /\ \A q \in Prompt \ {p} : y[q].thread = y[p].thread =>
                y[q].state # "inFlight" /\ (q < p => y[q].state # "queued")
      /\ x[p].state = "failed" => y[p].state \in {"failed", "gone"}
\* No prompt is sent, and none revives.
Calm(x, y) ==
    \A p \in Prompt :
      /\ y[p].sent = x[p].sent
      /\ y[p].state = "inFlight" => x[p].state = "inFlight"
      /\ x[p].state = "failed" => y[p].state \in {"failed", "gone"}

LEMMA CalmInOrder ==
    ASSUME NEW x, NEW y, Calm(x, y)
    PROVE  InOrder(x, y)
  BY Zenon DEF Calm, InOrder
LEMMA SameIsCalm ==
    ASSUME NEW x
    PROVE  Calm(x, x)
  BY Zenon DEF Calm
LEMMA CalmOn ==
    ASSUME NEW w \in Works, NEW v \in Works, NEW x, Calm(x, w.prompt), Calm(w.prompt, v.prompt),
           \A p \in Prompt : w.prompt[p].state = "gone" => v.prompt[p].state = "gone"
    PROVE  Calm(x, v.prompt)
  BY Zenon DEF Calm

\* A dispatch after a change that sends nothing sends in the order of admission.
LEMMA DispatchInOrder ==
    ASSUME NEW x, NEW w, NEW v, NEW st, NEW rv, NEW D \in SUBSET Thread,
           Sound(w, st, rv), Calm(x, w.prompt), DispatchStep(w, v, D)
    PROVE  InOrder(x, v.prompt)
<1>1. w \in Works /\ v \in Works
  BY Zenon DEF Sound, DispatchStep
<1>2. ASSUME NEW p \in Prompt, v.prompt[p].state = "inFlight", x[p].state # "inFlight"
      PROVE  /\ ~x[p].sent
             /\ \A q \in Prompt \ {p} : v.prompt[q].thread = v.prompt[p].thread =>
                  v.prompt[q].state # "inFlight" /\ (q < p => v.prompt[q].state # "queued")
  <2>1. w.prompt[p].state # "inFlight"
    BY <1>2, Zenon DEF Calm
  <2>2. w.prompt[p].thread \in D /\ Goes(w, v, w.prompt[p].thread, p)
    BY <1>1, <1>2, <2>1, DispatchPrompts, Zenon
  <2> DEFINE t == w.prompt[p].thread
  <2>3. w.prompt[p].state = "queued" /\ v.prompt[p].thread = t
    BY <1>1, <2>2, GoesFields
  <2>4. ~x[p].sent
    <3>1. ~w.prompt[p].sent
      BY <2>3, Zenon DEF Sound, PromptOK
    <3>2. QED
      BY <3>1, Zenon DEF Calm
  <2>5. ASSUME NEW q \in Prompt \ {p}, v.prompt[q].thread = v.prompt[p].thread
        PROVE  v.prompt[q].state # "inFlight" /\ (q < p => v.prompt[q].state # "queued")
    <3>1. w.prompt[q].thread = t
      BY <2>3, <2>5, Zenon DEF DispatchStep
    <3>2. v.prompt[q] = w.prompt[q]
      BY <2>2, <3>1, Zenon DEF Goes
    <3>3. w.prompt[q].state # "inFlight"
      BY <2>2, <3>1, Zenon DEF Goes, InState
    <3>4. w.prompt[q].state = "queued" => p <= q
      BY <2>2, <3>1, Zenon DEF Goes, InState
    <3>5. p \in Nat /\ q \in Nat
      BY BrowserAssumption, SMT DEF Prompt
    <3>6. q < p => ~(p <= q)
      BY <3>5, SMT
    <3>7. QED
      BY <3>2, <3>3, <3>4, <3>6, Zenon
  <2>6. QED
    BY <2>4, <2>5, Zenon
<1>3. ASSUME NEW p \in Prompt, x[p].state = "failed"
      PROVE  v.prompt[p].state \in {"failed", "gone"}
  <2>1. w.prompt[p].state \in {"failed", "gone"}
    BY <1>3, Zenon DEF Calm
  <2>2. ~Goes(w, v, w.prompt[p].thread, p)
    BY <1>1, <2>1, GoesFields, Zenon
  <2>3. QED
    BY <1>1, <2>1, <2>2, DispatchPrompts, Zenon
<1>4. QED
  BY <1>2, <1>3, Zenon DEF InOrder

\* One thread's entry and history change; st may become known.
LEMMA MovesSound ==
    ASSUME NEW w, NEW v, NEW st, NEW st2, NEW rv, NEW t \in Thread,
           Sound(w, st, rv), Moves(w, v, t), HistoryOK(v.runtime[t], Hist(v, t)),
           ReadyIsKnown(v, t, st2[t]), st[t] # "absent" => st2[t] # "absent",
           \A u \in Thread : u # t => st2[u] = st[u],
           v.runtime[t].phase = "none" => w.runtime[t].phase = "none" \/ InState(w, t, "inFlight") = {}
    PROVE  Sound(v, st2, rv)
<1>1. ASSUME NEW p \in Prompt PROVE PromptOK(v, p)
  <2>1. PromptOK(w, p) /\ v.prompt[p] = w.prompt[p]
    BY Zenon DEF Sound, Moves
  <2>2. ASSUME v.prompt[p].state = "inFlight"
        PROVE  /\ v.runtime[v.prompt[p].thread].phase # "none"
               /\ \E r \in Turns(v, v.prompt[p].thread) : r.prompt = p
    <3> DEFINE u == v.prompt[p].thread
    <3>1. u \in Thread /\ w.runtime[u].phase # "none" /\ \E r \in Turns(w, u) : r.prompt = p
      BY <2>1, <2>2, Zenon DEF PromptOK
    <3>2. p \in InState(w, u, "inFlight")
      BY <2>1, <2>2, Zenon DEF InState
    <3> HIDE DEF u
    <3>3. Turns(v, u) = Turns(w, u)
      BY <3>1, Zenon DEF Moves, SameAt
    <3>4. v.runtime[u].phase # "none"
      BY <3>1, <3>2, Zenon DEF Moves, SameAt
    <3>5. QED
      BY <3>1, <3>3, <3>4, Zenon DEF u
  <2>3. QED
    BY <2>1, <2>2, Zenon DEF PromptOK
<1>2. \A u : Settled(w, u) => Settled(v, u)
  BY Zenon DEF Settled, Moves
<1>3. ASSUME NEW u \in Thread PROVE ThreadOK(v, u, st2[u], rv[u])
  <2>1. ThreadOK(w, u, st[u], rv[u])
    BY Zenon DEF Sound
  <2>2. Turns(v, u) = Turns(w, u) /\ v.prompt = w.prompt
    BY Zenon DEF Moves, SameAt
  <2>3. \A r \in Turns(v, u) : TurnOK(v, r)
    BY <2>1, <2>2, Zenon DEF ThreadOK, TurnOK
  <2>4. RevertsKept(w, v, u)
    BY Zenon DEF Moves, SameAt, RevertsKept
  <2>5. RevertOK(v, u, st2[u], rv[u])
    BY <1>2, <2>1, <2>4, Zenon DEF RevertOK, ThreadOK, RevertsKept
  <2>6. HistoryOK(v.runtime[u], Hist(v, u)) /\ ReadyIsKnown(v, u, st2[u])
    BY <2>1, Zenon DEF Moves, SameAt, ThreadOK, ReadyIsKnown
  <2>7. QED
    BY <2>3, <2>5, <2>6, Zenon DEF ThreadOK
<1>4. QED
  BY <1>1, <1>3, Zenon DEF Sound, Moves

\* What moves only t leaves the service of the other threads and of the draft alone.
LEMMA MovesServes ==
    ASSUME NEW w, NEW v, NEW t \in Thread, Moves(w, v, t)
    PROVE  /\ \A u \in Thread \ {t} : Served(w, u) => Served(v, u)
           /\ \A u, s : InState(v, u, s) = InState(w, u, s)
           /\ \A cr : DraftOK(w, cr) => DraftOK(v, cr)
           /\ Served(w, t) /\ (w.runtime[t].phase \in Waits => v.runtime[t].phase \in Waits) => Served(v, t)
<1>1. /\ v.prompt = w.prompt /\ (CanSubmit(v) <=> CanSubmit(w))
      /\ \A u \in Thread : u # t => v.runtime[u] = w.runtime[u]
  BY Zenon DEF Moves, SameAt, CanSubmit
<1>2. \A u, s : InState(v, u, s) = InState(w, u, s)
  BY <1>1, Zenon DEF InState
<1>3. \A u \in Thread \ {t} : Served(w, u) => Served(v, u)
  BY <1>1, <1>2, Zenon DEF Served
<1>4. Served(w, t) /\ (w.runtime[t].phase \in Waits => v.runtime[t].phase \in Waits) => Served(v, t)
  BY <1>1, <1>2, Zenon DEF Served
<1>5. QED
  BY <1>2, <1>3, <1>4, Zenon DEF DraftOK

\* Functions that hydrate or page a thread and leave what it waits for.
Steady(w, v, t) ==
    /\ Moves(w, v, t)
    /\ HistoryOK(v.runtime[t], Hist(v, t))
    /\ v.runtime[t].phase = "none" => w.runtime[t].phase = "none"
    /\ v.runtime[t].phase \in {"ready", "resuming"} => w.runtime[t].phase \in {"ready", "resuming"}
    /\ w.runtime[t].phase \in Waits => v.runtime[t].phase \in Waits
LEMMA SteadySound ==
    ASSUME NEW w, NEW v, NEW st, NEW rv, NEW t \in Thread, Sound(w, st, rv), Steady(w, v, t)
    PROVE  Sound(v, st, rv)
<1>1. ReadyIsKnown(w, t, st[t])
  BY Zenon DEF Sound, ThreadOK
<1>2. Moves(w, v, t) /\ HistoryOK(v.runtime[t], Hist(v, t)) /\ ReadyIsKnown(v, t, st[t])
      /\ (v.runtime[t].phase = "none" => w.runtime[t].phase = "none")
  BY <1>1, Zenon DEF Steady, ReadyIsKnown
<1>3. QED
  BY <1>2, MovesSound, Zenon
LEMMA SteadyServes ==
    ASSUME NEW w, NEW v, NEW t \in Thread, Steady(w, v, t), \A u \in Thread : Served(w, u)
    PROVE  \A u \in Thread : Served(v, u)
<1>1. Moves(w, v, t) /\ (w.runtime[t].phase \in Waits => v.runtime[t].phase \in Waits)
  BY Zenon DEF Steady
<1>2. QED
  BY <1>1, MovesServes, ZenonT(30)
LEMMA SteadyOn ==
    ASSUME NEW w, NEW v, NEW x, NEW t \in Thread, Steady(w, v, t), Steady(v, x, t)
    PROVE  Steady(w, x, t)
  BY MovesOn, Zenon DEF Steady
LEMMA SteadyNothing ==
    ASSUME NEW w \in Works, NEW t \in Thread, HistoryOK(w.runtime[t], Hist(w, t))
    PROVE  Steady(w, w, t)
  BY MovesNothing, Zenon DEF Steady
LEMMA HydratedSteady ==
    ASSUME NEW w, NEW v, NEW t, NEW interactive, Hydrated(w, v, t, interactive)
    PROVE  Steady(w, v, t)
  BY Zenon DEF Hydrated, Steady

\* A page of a ready thread is asked for: loadMoreHistory(), loadForkHistory().
LEMMA PageSent ==
    ASSUME NEW w \in Works, NEW t \in Thread, NEW kind \in {"first", "more"},
           w.runtime[t].phase = "ready", ~w.runtime[t].page, HistoryOK(w.runtime[t], Hist(w, t))
    PROVE  Steady(w, Send([w EXCEPT !.runtime[t].page = TRUE], About(kind, t)), t)
<1> DEFINE e == [w.runtime[t] EXCEPT !.page = TRUE]
           v == WithEntry(w, t, e)
           r == About(kind, t)
<1>1. w.runtime[t] \in Entry /\ Hist(w, t) \in SUBSET Request
      /\ \A x \in Hist(w, t) : x.kind \in HistoryKinds \cup {"queue"}
  BY HistTypes, Zenon
<1>2. e \in Entry /\ e.page /\ e.phase = "ready"
  BY <1>1, Zenon DEF Entry
<1>3. [w EXCEPT !.runtime[t].page = TRUE] = v
  BY Zenon DEF WithEntry, Works
<1>4. r \in Request /\ r.kind \in {"first", "more"} /\ r.thread = t /\ r.tied
  <2>1. kind \in Kinds
    BY Zenon DEF Kinds, HistoryKinds
  <2>2. QED
    BY <2>1, AboutRequest, Zenon
<1> HIDE DEF e, r
<1>5. Moves(w, v, t) /\ v.runtime[t] = e /\ Hist(v, t) = Hist(w, t)
  BY <1>2, EntryMoves, Zenon
<1> HIDE DEF v
<1>6. Hist(w, t) = {}
  BY <1>1, NothingTied
<1>7. r.kind \in HistoryKinds \cup {"queue"} /\ v \in Works
  BY <1>4, <1>5, Zenon DEF HistoryKinds, Moves
<1>8. Moves(v, Send(v, r), t) /\ Send(v, r).runtime = v.runtime /\ Hist(Send(v, r), t) = Hist(v, t) \cup {r}
  BY <1>4, <1>7, SendMoves
<1>9. HistoryOK(e, {r})
  BY <1>2, <1>4, SMT DEF HistoryOK, HistoryKinds
<1>10. Hist(Send(v, r), t) = {r} /\ Send(v, r).runtime[t] = e
  BY <1>5, <1>6, <1>8, SMT
<1>11. Moves(w, Send(v, r), t)
  BY <1>5, <1>8, MovesOn, Zenon
<1>12. Steady(w, Send(v, r), t)
  BY <1>2, <1>9, <1>10, <1>11, Zenon DEF Steady, Waits
<1>13. QED
  BY <1>3, <1>12, Zenon DEF r
LEMMA EnsureSteady ==
    ASSUME NEW w \in Works, NEW t \in Thread, HistoryOK(w.runtime[t], Hist(w, t))
    PROVE  Steady(w, Ensure(w, t), t) /\ Ensure(w, t) \in Works
<1> DEFINE v == Ensure(w, t)
<1>1. /\ Moves(w, v, t) /\ HistoryOK(v.runtime[t], Hist(v, t))
      /\ w.runtime[t].phase = "none" => v.runtime[t].phase = "cold"
      /\ w.runtime[t].phase # "none" => v = w
  BY EnsureMoves, Zenon
<1> HIDE DEF v
<1>2. v \in Works
  BY <1>1, Zenon DEF Moves
<1>3. Steady(w, v, t)
  BY <1>1, Zenon DEF Steady, Waits
<1>4. QED
  BY <1>2, <1>3, Zenon DEF v
LEMMA LoadMoreSteady ==
    ASSUME NEW w \in Works, NEW t \in Thread, NEW has \in BOOLEAN, HistoryOK(w.runtime[t], Hist(w, t))
    PROVE  Steady(w, LoadMore(w, t, has), t)
<1> DEFINE v == Ensure(w, t)
           x == Send([v EXCEPT !.runtime[t].page = TRUE], About("more", t))
<1>1. Steady(w, v, t) /\ v \in Works /\ HistoryOK(v.runtime[t], Hist(v, t))
  BY EnsureSteady, Zenon DEF Steady
<1>2. LoadMore(w, t, has) = IF ~w.online THEN w
                            ELSE IF v.runtime[t].phase = "ready" /\ ~v.runtime[t].page /\ has THEN x ELSE v
  BY Zenon DEF LoadMore
<1> HIDE DEF v
<1>3. CASE v.runtime[t].phase = "ready" /\ ~v.runtime[t].page
  <2>1. Steady(v, x, t)
    BY <1>1, <1>3, PageSent, Zenon
  <2> HIDE DEF x
  <2>2. QED
    BY <1>1, <1>2, <2>1, SteadyOn, SteadyNothing, Zenon
<1>4. CASE ~(v.runtime[t].phase = "ready" /\ ~v.runtime[t].page)
  BY <1>1, <1>2, <1>4, SteadyNothing, Zenon
<1>5. QED
  BY <1>3, <1>4, Zenon
LEMMA EnsureHydratedSteady ==
    ASSUME NEW w \in Works, NEW t \in Thread, NEW refresh \in BOOLEAN, HistoryOK(w.runtime[t], Hist(w, t))
    PROVE  Steady(w, EnsureHydrated(w, t, refresh), t)
  BY EnsureHydratedMoves, HydratedSteady, SteadyNothing, ZenonT(30)

-----------------------------------------------------------------------------
\* From the work of a session to the invariant of its next state

LEMMA WorkFields ==
    /\ Work.prompt = prompt /\ Work.runtime = runtime /\ Work.requests = requests
    /\ Work.online = online /\ Work.control = control
  BY SMT DEF Work

LEMMA Assemble ==
    ASSUME NEW v \in Works, Become(v), v.online = online', v.control = control', OthersOK',
           Sound(v, status', revert'), \A t \in Thread : Served(v, t), DraftOK(v, creating')
    PROVE  BInv'
<1>1. v = [prompt |-> prompt', runtime |-> runtime', requests |-> requests',
           online |-> online', control |-> control']
  BY Zenon DEF Works, Become
<1>2. Work' = v
  BY <1>1, Zenon DEF Work
<1>3. QED
  BY <1>2, Zenon DEF BInv

\* A dispatch after a change that sends nothing.
LEMMA DispatchDone ==
    ASSUME OthersOK', NEW m, NEW v, NEW D \in SUBSET Thread,
           Sound(m, status', revert'), Calm(prompt, m.prompt), DispatchStep(m, v, D),
           \A t \in Thread \ D : Served(m, t), DraftOK(m, creating'),
           Become(v), m.online = online', m.control = control'
    PROVE  BInv' /\ InOrder(prompt, prompt')
<1>1. v \in Works /\ v.online = online' /\ v.control = control'
  BY Zenon DEF DispatchStep
<1>2. Sound(v, status', revert')
  BY DispatchSound, Zenon
<1>3. \A t \in Thread : Served(v, t)
  BY DispatchServes, Zenon
<1>4. DraftOK(v, creating')
  BY DispatchDraft, Zenon
<1>5. InOrder(prompt, v.prompt)
  BY DispatchInOrder, Zenon
<1>6. v.prompt = prompt'
  BY Zenon DEF Become
<1>7. BInv'
  BY <1>1, <1>2, <1>3, <1>4, Assemble, Zenon
<1>8. QED
  BY <1>5, <1>6, <1>7, Zenon

\* A change that sends nothing and needs no dispatch.
LEMMA CalmDone ==
    ASSUME OthersOK', NEW v, Sound(v, status', revert'), Calm(prompt, v.prompt),
           \A t \in Thread : Served(v, t), DraftOK(v, creating'),
           Become(v), v.online = online', v.control = control'
    PROVE  BInv' /\ InOrder(prompt, prompt')
<1>1. v \in Works
  BY Zenon DEF Sound
<1>2. BInv'
  BY <1>1, Assemble, Zenon
<1>3. v.prompt = prompt'
  BY Zenon DEF Become
<1>4. QED
  BY <1>2, <1>3, CalmInOrder, Zenon

\* The invariant, for the work of the session.
LEMMA BInvWork ==
    ASSUME BInv
    PROVE  /\ Work \in Works /\ Sound(Work, status, revert) /\ OthersOK
           /\ \A t \in Thread : Served(Work, t)
           /\ DraftOK(Work, creating)
           /\ \A t \in Thread : HistoryOK(Work.runtime[t], Hist(Work, t))
  BY Zenon DEF BInv, Sound, ThreadOK

\* A thread is hydrated or paged, and nothing else happens.
LEMMA SteadyDone ==
    ASSUME BInv, OthersOK', NEW v, NEW t \in Thread, Steady(Work, v, t), Become(v),
           UNCHANGED <<creating, status, revert, online, control>>
    PROVE  BInv' /\ InOrder(prompt, prompt')
<1>1. /\ Sound(Work, status, revert) /\ DraftOK(Work, creating)
      /\ \A u \in Thread : Served(Work, u)
  BY BInvWork, Zenon
<1>2. Sound(v, status, revert) /\ \A u \in Thread : Served(v, u)
  BY <1>1, SteadySound, SteadyServes, Zenon
<1>3. Moves(Work, v, t)
  BY Zenon DEF Steady
<1>4. DraftOK(v, creating)
  BY <1>1, <1>3, MovesServes, Zenon
<1>5. v.prompt = prompt /\ v.online = online /\ v.control = control
  BY <1>3, WorkFields, Zenon DEF Moves
<1>6. Calm(prompt, v.prompt)
  BY <1>5, SameIsCalm, Zenon
<1>7. /\ Sound(v, status', revert') /\ DraftOK(v, creating')
      /\ v.online = online' /\ v.control = control'
  BY <1>2, <1>4, <1>5, Zenon
<1>8. QED
  BY <1>2, <1>6, <1>7, CalmDone, Zenon

\* The prompts change, nothing else.
LEMMA PromptsSound ==
    ASSUME NEW w, NEW v \in Works, NEW st, NEW rv, Sound(w, st, rv),
           v.runtime = w.runtime, v.requests = w.requests,
           \A p \in Prompt : PromptOK(v, p),
           \A p \in Prompt : /\ v.prompt[p].sent = w.prompt[p].sent
                             /\ v.prompt[p].state = "inFlight" =>
                                  w.prompt[p].state = "inFlight" /\ v.prompt[p].thread = w.prompt[p].thread,
           \A t \in Thread : rv[t] \in Removing /\ Settled(w, t) => Settled(v, t)
    PROVE  Sound(v, st, rv)
<1>1. ASSUME NEW t \in Thread PROVE ThreadOK(v, t, st[t], rv[t])
  <2>1. ThreadOK(w, t, st[t], rv[t])
    BY Zenon DEF Sound
  <2>2. Hist(v, t) = Hist(w, t) /\ Turns(v, t) = Turns(w, t) /\ Reverts(v, t) = Reverts(w, t)
    BY Zenon DEF Hist, Turns, Reverts
  <2>3. \A r \in Turns(v, t) : TurnOK(v, r)
    BY <2>1, <2>2, Zenon DEF ThreadOK, TurnOK
  <2>4. RevertOK(v, t, st[t], rv[t])
    BY <2>1, <2>2, Zenon DEF ThreadOK, RevertOK
  <2>5. QED
    BY <2>1, <2>2, <2>3, <2>4, Zenon DEF ThreadOK, ReadyIsKnown
<1>2. QED
  BY <1>1, Zenon DEF Sound

\* Prompts that wait or are on their way fail.
Fails(w, v) ==
    /\ v \in Works /\ v.runtime = w.runtime /\ v.requests = w.requests
    /\ v.online = w.online /\ v.control = w.control
    /\ \A p \in Prompt :
         \/ v.prompt[p] = w.prompt[p]
         \/ w.prompt[p].state \in Unsettled /\ v.prompt[p] = [w.prompt[p] EXCEPT !.state = "failed"]
LEMMA FailsSound ==
    ASSUME NEW w, NEW v, NEW st, NEW rv, Sound(w, st, rv), Fails(w, v)
    PROVE  /\ Sound(v, st, rv)
           /\ \A x : Calm(x, w.prompt) => Calm(x, v.prompt)
<1>1. w \in Works /\ v \in Works
  BY Zenon DEF Sound, Fails
<1>2. \A p \in Prompt :
        /\ v.prompt[p].sent = w.prompt[p].sent /\ v.prompt[p].item = w.prompt[p].item
        /\ v.prompt[p].thread = w.prompt[p].thread
        /\ \/ v.prompt[p] = w.prompt[p]
           \/ w.prompt[p].state \in Unsettled /\ v.prompt[p].state = "failed"
  <2>1. TAKE p \in Prompt
  <2>2. w.prompt[p] \in Submission
    BY <1>1, PromptTypes, Zenon
  <2>3. CASE v.prompt[p] = w.prompt[p]
    BY <2>3, Zenon
  <2>4. CASE w.prompt[p].state \in Unsettled /\ v.prompt[p] = [w.prompt[p] EXCEPT !.state = "failed"]
    BY <2>2, <2>4, Zenon DEF Submission
  <2>5. QED
    BY <2>3, <2>4, Zenon DEF Fails
<1>3. ASSUME NEW p \in Prompt PROVE PromptOK(v, p)
  <2>1. PromptOK(w, p)
    BY Zenon DEF Sound
  <2>2. v.runtime = w.runtime /\ \A t \in Thread : Turns(v, t) = Turns(w, t)
    BY Zenon DEF Fails, Turns
  <2>3. CASE v.prompt[p] = w.prompt[p]
    BY <2>1, <2>2, <2>3, Zenon DEF PromptOK
  <2>4. CASE v.prompt[p].state = "failed"
    BY <1>2, <2>1, <2>4, Zenon DEF PromptOK
  <2>5. QED
    BY <1>2, <2>3, <2>4, Zenon
<1>4. \A t : Settled(w, t) => Settled(v, t)
  BY <1>2, Zenon DEF Settled
<1>5. Sound(v, st, rv)
  <2>1. \A p \in Prompt : /\ v.prompt[p].sent = w.prompt[p].sent
                          /\ v.prompt[p].state = "inFlight" =>
                               w.prompt[p].state = "inFlight" /\ v.prompt[p].thread = w.prompt[p].thread
    BY <1>2, Zenon
  <2>2. v.runtime = w.runtime /\ v.requests = w.requests
    BY Zenon DEF Fails
  <2>3. QED
    BY <1>1, <1>3, <1>4, <2>1, <2>2, PromptsSound, Zenon
<1>6. \A x : Calm(x, w.prompt) => Calm(x, v.prompt)
  BY <1>2, Zenon DEF Calm, Unsettled
<1>7. QED
  BY <1>5, <1>6, Zenon

LEMMA FailStatesFails ==
    ASSUME NEW w \in Works, NEW t, NEW S, S \in {Unsettled, {"queued"}},
           NEW v, v = FailStates(w, t, S)
    PROVE  /\ Fails(w, v)
           /\ InState(v, t, "queued") = {}
           /\ S = Unsettled => InState(v, t, "inFlight") = {}
           /\ \A u, s : u # t => InState(v, u, s) = InState(w, u, s)
           /\ \A u \in Thread : Served(w, u) => Served(v, u)
           /\ \A cr : DraftOK(w, cr) => DraftOK(v, cr)
           /\ \A u \in Thread : v.runtime[u] = w.runtime[u] /\ Hist(v, u) = Hist(w, u)
<1> DEFINE failing(p) == w.prompt[p].thread = t /\ w.prompt[p].state \in S
           pr == [p \in Prompt |-> IF failing(p) THEN [w.prompt[p] EXCEPT !.state = "failed"] ELSE w.prompt[p]]
<1>1. v = [w EXCEPT !.prompt = pr]
  BY Zenon DEF FailStates
<1>2. \A p \in Prompt : /\ failing(p) => pr[p] = [w.prompt[p] EXCEPT !.state = "failed"]
                        /\ ~failing(p) => pr[p] = w.prompt[p]
  BY Zenon
<1>3. pr \in [Prompt -> Submission]
  <2>1. \A p \in Prompt : [w.prompt[p] EXCEPT !.state = "failed"] \in Submission /\ w.prompt[p] \in Submission
    BY PromptTypes, Zenon DEF Submission, PromptStates
  <2>2. QED
    BY <2>1, Zenon
<1> HIDE DEF pr
<1>4. /\ v.prompt = pr /\ v.runtime = w.runtime /\ v.requests = w.requests
      /\ v.online = w.online /\ v.control = w.control /\ v \in Works
  BY <1>1, <1>3, Zenon DEF Works
<1>5. S \subseteq Unsettled /\ "queued" \in S
  BY Zenon DEF Unsettled
<1>6. Fails(w, v)
  BY <1>2, <1>4, <1>5, Zenon DEF Fails
<1>7. \A p \in Prompt : v.prompt[p].thread = w.prompt[p].thread /\ (failing(p) => v.prompt[p].state = "failed")
                        /\ (~failing(p) => v.prompt[p] = w.prompt[p])
  <2>1. TAKE p \in Prompt
  <2>2. w.prompt[p] \in Submission
    BY PromptTypes, Zenon
  <2>3. CASE failing(p)
    <3>1. v.prompt[p] = [w.prompt[p] EXCEPT !.state = "failed"]
      BY <1>2, <1>4, <2>3, Zenon
    <3>2. QED
      BY <2>2, <2>3, <3>1, Zenon DEF Submission
  <2>4. CASE ~failing(p)
    BY <1>2, <1>4, <2>4, Zenon
  <2>5. QED
    BY <2>3, <2>4, Zenon
<1>8. InState(v, t, "queued") = {}
  BY <1>5, <1>7, Zenon DEF InState
<1>9. S = Unsettled => InState(v, t, "inFlight") = {}
  BY <1>7, Zenon DEF InState, Unsettled
<1>10. \A u, s : u # t => InState(v, u, s) = InState(w, u, s)
  BY <1>7, Zenon DEF InState
<1>11. \A u \in Thread : Served(w, u) => Served(v, u)
  BY <1>4, <1>8, <1>10, Zenon DEF Served, CanSubmit
<1>12. \A cr : DraftOK(w, cr) => DraftOK(v, cr)
  BY <1>8, <1>10, Zenon DEF DraftOK
<1>13. \A u \in Thread : v.runtime[u] = w.runtime[u] /\ Hist(v, u) = Hist(w, u)
  BY <1>4, Zenon DEF Hist
<1>14. QED
  BY <1>6, <1>8, <1>9, <1>10, <1>11, <1>12, <1>13, Zenon

\* What is known of a thread stays true when only its status changes and it stays known.
LEMMA StatusSound ==
    ASSUME NEW w, NEW st, NEW st2, NEW rv, Sound(w, st, rv),
           \A t \in Thread : st[t] # "absent" => st2[t] # "absent"
    PROVE  Sound(w, st2, rv)
  BY Zenon DEF Sound, ThreadOK, ReadyIsKnown, RevertOK
\* Nor does the connection matter to it.
LEMMA LinkSound ==
    ASSUME NEW w, NEW v \in Works, NEW st, NEW rv, Sound(w, st, rv),
           v.prompt = w.prompt, v.runtime = w.runtime, v.requests = w.requests
    PROVE  Sound(v, st, rv) /\ \A cr : DraftOK(w, cr) => DraftOK(v, cr)
<1>1. \A t : Hist(v, t) = Hist(w, t) /\ Turns(v, t) = Turns(w, t) /\ Reverts(v, t) = Reverts(w, t)
  BY Zenon DEF Hist, Turns, Reverts
<1>2. \A p \in Prompt : PromptOK(v, p)
  BY <1>1, ZenonT(30) DEF Sound, PromptOK
<1>3. \A t : Settled(w, t) => Settled(v, t)
  BY Zenon DEF Settled
<1>4. Sound(v, st, rv)
  <2>1. \A p \in Prompt : /\ v.prompt[p].sent = w.prompt[p].sent
                          /\ v.prompt[p].state = "inFlight" =>
                               w.prompt[p].state = "inFlight" /\ v.prompt[p].thread = w.prompt[p].thread
    BY Zenon
  <2>2. QED
    BY <1>2, <1>3, <2>1, PromptsSound, Zenon
<1>5. QED
  BY <1>4, Zenon DEF DraftOK, InState

\* The removals of one thread change, with what the session remembers of them.
OnlyReverts(w, v, t) ==
    /\ v \in Works /\ v.prompt = w.prompt /\ v.runtime = w.runtime
    /\ v.online = w.online /\ v.control = w.control
    /\ \A u \in Thread : Hist(v, u) = Hist(w, u) /\ Turns(v, u) = Turns(w, u)
    /\ \A u \in Thread : u # t => Reverts(v, u) = Reverts(w, u)
LEMMA OnlyRevertsSound ==
    ASSUME NEW w, NEW v, NEW st, NEW rv, NEW rv2, NEW t \in Thread,
           Sound(w, st, rv), OnlyReverts(w, v, t), \A u \in Thread : u # t => rv2[u] = rv[u],
           RevertOK(v, t, st[t], rv2[t])
    PROVE  Sound(v, st, rv2)
<1>1. ASSUME NEW p \in Prompt PROVE PromptOK(v, p)
  <2>1. PromptOK(w, p) /\ v.prompt[p] = w.prompt[p] /\ v.runtime = w.runtime
    BY Zenon DEF Sound, OnlyReverts
  <2>2. \A u \in Thread : Turns(v, u) = Turns(w, u)
    BY Zenon DEF OnlyReverts
  <2>3. QED
    BY <2>1, <2>2, Zenon DEF PromptOK
<1>2. ASSUME NEW u \in Thread PROVE ThreadOK(v, u, st[u], rv2[u])
  <2>1. ThreadOK(w, u, st[u], rv[u])
    BY Zenon DEF Sound
  <2>2. /\ v.prompt = w.prompt /\ v.runtime = w.runtime
        /\ Hist(v, u) = Hist(w, u) /\ Turns(v, u) = Turns(w, u)
        /\ u # t => Reverts(v, u) = Reverts(w, u)
    BY Zenon DEF OnlyReverts
  <2>3. Settled(w, u) => Settled(v, u)
    BY <2>2, Zenon DEF Settled
  <2>4. RevertOK(v, u, st[u], rv2[u])
    BY <2>1, <2>2, <2>3, Zenon DEF ThreadOK, RevertOK
  <2>5. QED
    BY <2>1, <2>2, <2>4, Zenon DEF ThreadOK, ReadyIsKnown, TurnOK
<1>3. QED
  BY <1>1, <1>2, Zenon DEF Sound, OnlyReverts
LEMMA OnlyRevertsServes ==
    ASSUME NEW w, NEW v, NEW t, OnlyReverts(w, v, t)
    PROVE  /\ \A u \in Thread : Served(w, u) => Served(v, u)
           /\ \A cr : DraftOK(w, cr) => DraftOK(v, cr)
  BY Zenon DEF OnlyReverts, Served, DraftOK, InState, CanSubmit

-----------------------------------------------------------------------------
\* The user's steps

LEMMA InitBInv ==
    ASSUME Init
    PROVE  BInv
<1>1. prompt \in [Prompt -> Submission] /\ runtime \in [Thread -> Entry]
  <2>1. [state |-> "new", thread |-> None, item |-> FALSE, sent |-> FALSE] \in Submission
    BY Zenon DEF Submission, PromptStates
  <2>2. QED
    BY <2>1, NoRuntimeEntry, Zenon DEF Init
<1>2. Work \in Works
  BY <1>1, Zenon DEF Work, Works, Init
<1>3. \A p \in Prompt : /\ prompt[p].state = "new" /\ prompt[p].thread = None
                        /\ ~prompt[p].item /\ ~prompt[p].sent
  BY Zenon DEF Init
<1>4. \A p \in Prompt : PromptOK(Work, p)
  BY <1>3, WorkFields, BrowserAssumption, SMT DEF PromptOK
<1>5. ASSUME NEW t \in Thread PROVE ThreadOK(Work, t, status[t], revert[t]) /\ Served(Work, t)
  <2>1. Hist(Work, t) = {} /\ Turns(Work, t) = {} /\ Reverts(Work, t) = {}
    BY WorkFields, Zenon DEF Init, Hist, Turns, Reverts
  <2>2. Work.runtime[t] = NoRuntime
    BY WorkFields, Zenon DEF Init
  <2>3. HistoryOK(Work.runtime[t], Hist(Work, t))
    BY <2>1, <2>2, NoRuntimeEntry, QuietHistory
  <2>4. ReadyIsKnown(Work, t, status[t])
    BY <2>2, NoRuntimeEntry, Zenon DEF ReadyIsKnown
  <2>5. RevertOK(Work, t, status[t], revert[t])
    BY <2>1, Zenon DEF RevertOK, Removing, Init
  <2>6. Served(Work, t)
    BY <1>3, WorkFields, Zenon DEF Served, InState
  <2>7. QED
    BY <2>1, <2>3, <2>4, <2>5, <2>6, Zenon DEF ThreadOK
<1>6. DraftOK(Work, creating)
  BY <1>3, WorkFields, Zenon DEF DraftOK, InState
<1>7. OthersOK
  BY Zenon DEF Init, OthersOK, Statuses, Removing
<1>8. QED
  BY <1>2, <1>4, <1>5, <1>6, <1>7, Zenon DEF BInv, Sound

\* submitPrompt(): the new prompt waits in its thread, which is no thread with a removal.
LEMMA SubmitStep ==
    ASSUME BInv, NEW p \in Prompt, Submit(p)
    PROVE  BInv' /\ InOrder(prompt, prompt')
<1> DEFINE t == selected
           s == [prompt[p] EXCEPT !.state = "queued", !.thread = t]
           m == [Work EXCEPT !.prompt[p] = [@ EXCEPT !.state = "queued", !.thread = t]]
<1>1. /\ Sound(Work, status, revert) /\ OthersOK /\ Work \in Works
      /\ \A u \in Thread : Served(Work, u)
      /\ DraftOK(Work, creating)
  BY BInvWork, Zenon
<1>2. /\ prompt[p].state = "new" /\ t \in Thread \cup {Draft}
      /\ t \in Thread => revert[t] = "none"
      /\ UNCHANGED <<selected, draft, revert, status, stale, more, online, control>>
  BY <1>1, Zenon DEF Submit, UserOnly, place, model, link, RemovalPending, OthersOK
<1>3. prompt[p] \in Submission /\ PromptOK(Work, p)
  BY <1>1, WorkFields, PromptTypes, Zenon DEF Sound
<1>4. ~prompt[p].sent /\ ~prompt[p].item /\ prompt[p].thread = None
  BY <1>2, <1>3, WorkFields, Zenon DEF PromptOK
<1>5. s \in Submission /\ s.state = "queued" /\ s.thread = t /\ s.sent = prompt[p].sent /\ s.item = prompt[p].item
  BY <1>2, <1>3, Zenon DEF Submission, PromptStates
<1>6. m = [Work EXCEPT !.prompt = [prompt EXCEPT ![p] = s]]
  BY WorkFields, Zenon DEF Work
<1>7. [prompt EXCEPT ![p] = s] \in [Prompt -> Submission]
  BY <1>1, <1>5, WorkFields, Zenon DEF Works
<1> HIDE DEF m, s
<1>8. /\ m.prompt = [prompt EXCEPT ![p] = s] /\ m.runtime = Work.runtime /\ m.requests = Work.requests
      /\ m.online = Work.online /\ m.control = Work.control /\ m \in Works
  BY <1>1, <1>6, <1>7, Zenon DEF Works, Work
<1>9. m.prompt[p] = s /\ \A q \in Prompt : q # p => m.prompt[q] = prompt[q]
  BY <1>1, <1>8, WorkFields, Zenon DEF Works
<1>10. \A u \in Thread : Turns(m, u) = Turns(Work, u) /\ Hist(m, u) = Hist(Work, u)
  BY <1>8, Zenon DEF Turns, Hist
<1>11. Sound(m, status, revert)
  <2>1. ASSUME NEW q \in Prompt PROVE PromptOK(m, q)
    <3>1. CASE q = p
      BY <1>4, <1>5, <1>9, <3>1, Zenon DEF PromptOK
    <3>2. CASE q # p
      <4>1. PromptOK(Work, q) /\ m.prompt[q] = Work.prompt[q] /\ m.runtime = Work.runtime
        BY <1>1, <1>8, <1>9, <3>2, WorkFields, Zenon DEF Sound
      <4>2. QED
        BY <1>10, <4>1, Zenon DEF PromptOK
    <3>3. QED
      BY <3>1, <3>2, Zenon
  <2>2. \A q \in Prompt : /\ m.prompt[q].sent = Work.prompt[q].sent
                          /\ m.prompt[q].state = "inFlight" =>
                               Work.prompt[q].state = "inFlight" /\ m.prompt[q].thread = Work.prompt[q].thread
    BY <1>5, <1>9, WorkFields, Zenon
  <2>3. ASSUME NEW u \in Thread, revert[u] \in Removing, Settled(Work, u) PROVE Settled(m, u)
    <3>1. u # t
      BY <1>2, <2>3, Zenon DEF Removing
    <3>2. QED
      BY <1>5, <1>9, <2>3, <3>1, WorkFields, Zenon DEF Settled
  <2>4. QED
    BY <1>1, <1>8, <2>1, <2>2, <2>3, PromptsSound, Zenon
<1>12. Calm(prompt, m.prompt)
  BY <1>2, <1>5, <1>9, Zenon DEF Calm
<1>13. \A u \in Thread \cup {Draft} : u # t => \A x : InState(m, u, x) = InState(Work, u, x)
  <2>1. \A u \in Thread \cup {Draft} : u # None
    BY BrowserAssumption, Zenon
  <2>2. ASSUME NEW u \in Thread \cup {Draft}, u # t, NEW q \in Prompt
        PROVE  /\ m.prompt[q].thread = u <=> Work.prompt[q].thread = u
               /\ m.prompt[q].thread = u => m.prompt[q] = Work.prompt[q]
    BY <1>4, <1>5, <1>9, <2>1, <2>2, WorkFields, Zenon
  <2>3. QED
    BY <2>2, Zenon DEF InState
<1>14. \A u \in Thread \ {t} : Served(m, u)
  BY <1>1, <1>8, <1>13, ZenonT(30) DEF Served, CanSubmit
<1>15. CASE t = Draft
  <2>1. Become(m) /\ creating' \in {"no", "current", "late"} /\ creating' # "no"
    BY <1>1, <1>15, Zenon DEF Submit, OthersOK, m
  <2>2. OthersOK'
    BY <1>1, <1>2, <2>1, Zenon DEF OthersOK
  <2>3. \A u \in Thread : Served(m, u)
    BY <1>14, <1>15, BrowserAssumption, Zenon
  <2>4. DraftOK(m, creating')
    BY <2>1, Zenon DEF DraftOK
  <2>5. Sound(m, status', revert') /\ m.online = online' /\ m.control = control'
    BY <1>2, <1>8, <1>11, WorkFields, Zenon
  <2>6. QED
    BY <1>12, <2>1, <2>2, <2>3, <2>4, <2>5, CalmDone, Zenon
<1>16. CASE t \in Thread
  <2> DEFINE e == Ensure(m, t)
             v == DispatchNext(e, t, FALSE, status[t])
  <2>1. t # Draft /\ t \in Thread
    BY <1>16, BrowserAssumption, Zenon
  <2>2. Become(v) /\ creating' = creating
    BY <2>1, Zenon DEF Submit, m
  <2>3. HistoryOK(m.runtime[t], Hist(m, t))
    BY <1>11, <1>16, Zenon DEF Sound, ThreadOK
  <2>4. Steady(m, e, t) /\ e \in Works
    BY <1>8, <1>16, <2>3, EnsureSteady
  <2> HIDE DEF e
  <2>5. Sound(e, status, revert)
    BY <1>11, <1>16, <2>4, SteadySound, Zenon
  <2>6. Moves(m, e, t)
    BY <2>4, Zenon DEF Steady
  <2>7. \A u \in Thread \ {t} : Served(e, u)
    BY <1>14, <1>16, <2>6, MovesServes, Zenon
  <2>8. DraftOK(e, creating)
    <3>1. DraftOK(m, creating)
      BY <1>1, <1>13, <2>1, Zenon DEF DraftOK
    <3>2. QED
      BY <1>16, <2>6, <3>1, MovesServes, Zenon
  <2>9. e.prompt = m.prompt /\ e.online = online /\ e.control = control
    BY <1>8, <2>6, WorkFields, Zenon DEF Moves
  <2>10. DispatchStep(e, v, {t})
    <3>1. HistoryOK(e.runtime[t], Hist(e, t)) /\ ReadyIsKnown(e, t, status[t]) /\ status[t] \in Statuses
      BY <1>1, <1>16, <2>5, Zenon DEF Sound, ThreadOK, OthersOK
    <3>2. QED
      BY <1>16, <2>4, <3>1, DispatchNextStep, Zenon
  <2> HIDE DEF v
  <2>11. OthersOK'
    BY <1>1, <1>2, <2>2, Zenon DEF OthersOK
  <2>12. /\ Sound(e, status', revert') /\ Calm(prompt, e.prompt) /\ DraftOK(e, creating')
         /\ e.online = online' /\ e.control = control'
    BY <1>2, <1>12, <2>2, <2>5, <2>8, <2>9, Zenon
  <2>13. {t} \in SUBSET Thread
    BY <1>16, Zenon
  <2>14. QED
    BY <2>2, <2>7, <2>10, <2>11, <2>12, <2>13, DispatchDone, Zenon
<1>17. QED
  BY <1>2, <1>15, <1>16, Zenon

\* A step that leaves the work of the session alone and forgets no thread.
LEMMA WorkStays ==
    ASSUME BInv, OthersOK', UNCHANGED <<prompt, runtime, requests, creating, revert, online, control>>,
           \A t \in Thread : status[t] # "absent" => status'[t] # "absent"
    PROVE  BInv' /\ InOrder(prompt, prompt')
<1>1. Work \in Works /\ Sound(Work, status', revert')
  BY BInvWork, StatusSound, Zenon
<1>2. /\ Become(Work) /\ Work.online = online' /\ Work.control = control'
      /\ Calm(prompt, Work.prompt)
  BY WorkFields, SameIsCalm, Zenon DEF Become
<1>3. (\A t \in Thread : Served(Work, t)) /\ DraftOK(Work, creating')
  BY BInvWork, Zenon
<1>4. QED
  BY <1>1, <1>2, <1>3, CalmDone, Zenon

LEMMA SelectStep ==
    ASSUME BInv, NEW t \in Thread \cup {Draft}, Select(t)
    PROVE  BInv' /\ InOrder(prompt, prompt')
<1>1. OthersOK'
  BY Zenon DEF BInv, OthersOK, Select, UserOnly, model, link
<1>2. UNCHANGED <<creating, status, revert, online, control>>
  BY Zenon DEF Select, UserOnly, model, link
<1>3. CASE UNCHANGED work
  BY <1>1, <1>2, <1>3, WorkStays, Zenon DEF work
<1>4. CASE t \in Thread /\ Become(EnsureHydrated(Work, t, TRUE))
  <2>1. Steady(Work, EnsureHydrated(Work, t, TRUE), t)
    BY <1>4, BInvWork, EnsureHydratedSteady, Zenon
  <2>2. QED
    BY <1>1, <1>2, <1>4, <2>1, SteadyDone, Zenon
<1>5. QED
  BY <1>3, <1>4, Zenon DEF Select

LEMMA ReloadStep ==
    ASSUME BInv, NEW t \in Thread, Reload(t)
    PROVE  BInv' /\ InOrder(prompt, prompt')
<1>1. OthersOK' /\ UNCHANGED <<creating, status, revert, online, control>>
  BY Zenon DEF BInv, OthersOK, Reload, UserOnly, place, model, link
<1>2. Steady(Work, HydrateThread(Work, t, TRUE, TRUE), t)
  BY BInvWork, HydrateThreadMoves, HydratedSteady, Zenon
<1>3. Become(HydrateThread(Work, t, TRUE, TRUE))
  BY Zenon DEF Reload
<1>4. QED
  BY <1>1, <1>2, <1>3, SteadyDone, Zenon
LEMMA LoadOlderStep ==
    ASSUME BInv, NEW t \in Thread, LoadOlder(t)
    PROVE  BInv' /\ InOrder(prompt, prompt')
<1>1. OthersOK' /\ UNCHANGED <<creating, status, revert, online, control>>
  BY Zenon DEF BInv, OthersOK, LoadOlder, UserOnly, place, model, link
<1>2. more[t] \in BOOLEAN
  BY Zenon DEF BInv, OthersOK
<1>3. Steady(Work, LoadMore(Work, t, more[t]), t)
  BY <1>2, BInvWork, LoadMoreSteady, Zenon
<1>4. Become(LoadMore(Work, t, more[t]))
  BY Zenon DEF LoadOlder
<1>5. QED
  BY <1>1, <1>3, <1>4, SteadyDone, Zenon
LEMMA HydrateChildStep ==
    ASSUME BInv, NEW t \in Thread, HydrateChild(t)
    PROVE  BInv' /\ InOrder(prompt, prompt')
<1>1. OthersOK' /\ UNCHANGED <<creating, status, revert, online, control>>
  BY Zenon DEF BInv, OthersOK, HydrateChild, place, model, link
<1>2. Steady(Work, HydrateThread(Work, t, FALSE, FALSE), t)
  BY BInvWork, HydrateThreadMoves, HydratedSteady, Zenon
<1>3. Become(HydrateThread(Work, t, FALSE, FALSE))
  BY Zenon DEF HydrateChild
<1>4. QED
  BY <1>1, <1>2, <1>3, SteadyDone, Zenon
LEMMA AppearsStep ==
    ASSUME BInv, NEW t \in Thread, Appears(t) \/ StatusChanges(t)
    PROVE  BInv' /\ InOrder(prompt, prompt')
<1>1. /\ UNCHANGED <<prompt, runtime, requests, creating, selected, draft, stale, more, revert, online, control>>
      /\ \E s \in Statuses \ {"absent"} : status' = [status EXCEPT ![t] = s]
  BY Zenon DEF Appears, StatusChanges, ModelOnly, work, place, link, Statuses
<1>2. PICK s \in Statuses \ {"absent"} : status' = [status EXCEPT ![t] = s]
  BY <1>1, Zenon
<1>3. OthersOK /\ status \in [Thread -> Statuses]
  BY Zenon DEF BInv, OthersOK
<1>4. /\ \A u \in Thread : status[u] # "absent" => status'[u] # "absent"
      /\ status' \in [Thread -> Statuses]
  BY <1>2, <1>3, Zenon
<1>5. OthersOK'
  BY <1>1, <1>3, <1>4, Zenon DEF OthersOK
<1>6. QED
  BY <1>1, <1>4, <1>5, WorkStays, Zenon

\* The drafts of a new thread go away with what was typed before.
LEMMA BeginNewThreadStep ==
    ASSUME BInv, BeginNewThread
    PROVE  BInv' /\ InOrder(prompt, prompt')
<1> DEFINE dropped(p) == [prompt[p] EXCEPT !.state = "gone", !.thread = None]
           pr == [p \in Prompt |-> IF prompt[p].thread = Draft THEN dropped(p) ELSE prompt[p]]
           v == [Work EXCEPT !.prompt = pr]
<1>1. /\ Sound(Work, status, revert) /\ OthersOK /\ Work \in Works
      /\ \A u \in Thread : Served(Work, u)
  BY BInvWork, Zenon
<1>2. /\ prompt' = pr /\ draft' = TRUE /\ selected' = Draft
      /\ UNCHANGED <<runtime, requests, creating, revert, status, stale, more, online, control>>
  BY Zenon DEF BeginNewThread, UserOnly, model, link
<1>3. \A p \in Prompt : /\ prompt[p] \in Submission /\ dropped(p) \in Submission
                        /\ dropped(p).state = "gone" /\ dropped(p).thread = None
                        /\ dropped(p).sent = prompt[p].sent /\ dropped(p).item = prompt[p].item
  <2>1. \A p \in Prompt : prompt[p] \in Submission
    BY <1>1, WorkFields, PromptTypes, Zenon
  <2>2. QED
    BY <2>1, Zenon DEF Submission, PromptStates
<1>4. \A p \in Prompt : /\ prompt[p].thread = Draft => pr[p] = dropped(p)
                        /\ prompt[p].thread # Draft => pr[p] = prompt[p]
  BY Zenon
<1>5. pr \in [Prompt -> Submission]
  BY <1>3, Zenon
<1> HIDE DEF pr, dropped
<1>6. /\ v.prompt = pr /\ v.runtime = Work.runtime /\ v.requests = Work.requests
      /\ v.online = Work.online /\ v.control = Work.control /\ v \in Works
  BY <1>1, <1>5, Zenon DEF Works, Work
<1> HIDE DEF v
<1>7. \A p \in Prompt : v.prompt[p] = Work.prompt[p] \/ (v.prompt[p].state = "gone" /\ v.prompt[p].thread = None)
  BY <1>3, <1>4, <1>6, WorkFields, Zenon
<1>8. \A p \in Prompt : v.prompt[p].sent = Work.prompt[p].sent /\ v.prompt[p].item = Work.prompt[p].item
                        /\ v.prompt[p].thread # Draft
  BY <1>3, <1>4, <1>6, WorkFields, BrowserAssumption, Zenon
<1>9. ASSUME NEW p \in Prompt PROVE PromptOK(v, p)
  <2>1. PromptOK(Work, p) /\ \A u \in Thread : Turns(v, u) = Turns(Work, u)
    BY <1>1, <1>6, Zenon DEF Sound, Turns
  <2>2. CASE v.prompt[p] = Work.prompt[p]
    BY <1>6, <2>1, <2>2, Zenon DEF PromptOK
  <2>3. CASE v.prompt[p].state = "gone" /\ v.prompt[p].thread = None
    BY <1>8, <2>1, <2>3, Zenon DEF PromptOK
  <2>4. QED
    BY <1>7, <2>2, <2>3, Zenon
<1>10. Sound(v, status, revert)
  <2>1. \A p \in Prompt : /\ v.prompt[p].sent = Work.prompt[p].sent
                          /\ v.prompt[p].state = "inFlight" =>
                               Work.prompt[p].state = "inFlight" /\ v.prompt[p].thread = Work.prompt[p].thread
    BY <1>7, <1>8, Zenon
  <2>2. \A u \in Thread : revert[u] \in Removing /\ Settled(Work, u) => Settled(v, u)
    BY <1>7, Zenon DEF Settled
  <2>3. QED
    BY <1>1, <1>6, <1>9, <2>1, <2>2, PromptsSound, Zenon
<1>11. \A u \in Thread : \A x : InState(v, u, x) = InState(Work, u, x)
  <2>1. \A u \in Thread : u # Draft /\ u # None
    BY BrowserAssumption, Zenon
  <2>2. ASSUME NEW u \in Thread, NEW p \in Prompt
        PROVE  /\ v.prompt[p].thread = u <=> Work.prompt[p].thread = u
               /\ v.prompt[p].thread = u => v.prompt[p] = Work.prompt[p]
    BY <1>3, <1>4, <1>6, <2>1, WorkFields, ZenonT(30)
  <2>3. QED
    BY <2>2, Zenon DEF InState
<1>12. \A u \in Thread : Served(v, u)
  BY <1>1, <1>6, <1>11, Zenon DEF Served, CanSubmit
<1>13. DraftOK(v, creating')
  BY <1>8, Zenon DEF DraftOK, InState
<1>14. Calm(prompt, v.prompt)
  BY <1>7, <1>8, WorkFields, Zenon DEF Calm
<1>15. OthersOK'
  BY <1>1, <1>2, Zenon DEF OthersOK
<1>16. Become(v) /\ v.online = online' /\ v.control = control'
  BY <1>2, <1>6, WorkFields, Zenon DEF Become
<1>17. Sound(v, status', revert')
  BY <1>2, <1>10, Zenon
<1>18. QED
  BY <1>12, <1>13, <1>14, <1>15, <1>16, <1>17, CalmDone, Zenon

\* A removal's request is sent, and one that was answered is gone.
LEMMA SendRevert ==
    ASSUME NEW w \in Works, NEW r \in Request, r.kind \in RevertKinds
    PROVE  /\ OnlyReverts(w, Send(w, r), r.thread)
           /\ Reverts(Send(w, r), r.thread) = Reverts(w, r.thread) \cup {r}
<1> DEFINE v == Send(w, r)
<1>1. /\ v \in Works /\ v.prompt = w.prompt /\ v.runtime = w.runtime
      /\ v.online = w.online /\ v.control = w.control /\ v.requests = w.requests \cup {r}
  BY SMT DEF Send, Works
<1> HIDE DEF v
<1>2. r.kind \notin HistoryKinds \cup {"queue", "turn"}
  BY Zenon DEF RevertKinds, HistoryKinds
<1>3. \A u \in Thread : Hist(v, u) = Hist(w, u) /\ Turns(v, u) = Turns(w, u)
  BY <1>1, <1>2, SMT DEF Hist, Turns
<1>4. \A u \in Thread : u # r.thread => Reverts(v, u) = Reverts(w, u)
  BY <1>1, SMT DEF Reverts
<1>5. Reverts(v, r.thread) = Reverts(w, r.thread) \cup {r}
  BY <1>1, SMT DEF Reverts
<1>6. QED
  BY <1>1, <1>3, <1>4, <1>5, Zenon DEF OnlyReverts, v
LEMMA DoneRevert ==
    ASSUME NEW w \in Works, NEW r \in w.requests, r.kind \in RevertKinds
    PROVE  /\ OnlyReverts(w, Without(w, r), r.thread)
           /\ Reverts(Without(w, r), r.thread) = Reverts(w, r.thread) \ {r}
<1> DEFINE v == Without(w, r)
<1>1. /\ v \in Works /\ v.prompt = w.prompt /\ v.runtime = w.runtime
      /\ v.online = w.online /\ v.control = w.control /\ v.requests = w.requests \ {r}
  BY SMT DEF Without, Works
<1> HIDE DEF v
<1>2. r.kind \notin HistoryKinds \cup {"queue", "turn"}
  BY Zenon DEF RevertKinds, HistoryKinds
<1>3. \A u \in Thread : Hist(v, u) = Hist(w, u) /\ Turns(v, u) = Turns(w, u)
  BY <1>1, <1>2, SMT DEF Hist, Turns
<1>4. \A u \in Thread : u # r.thread => Reverts(v, u) = Reverts(w, u)
  BY <1>1, SMT DEF Reverts
<1>5. Reverts(v, r.thread) = Reverts(w, r.thread) \ {r}
  BY <1>1, SMT DEF Reverts
<1>6. QED
  BY <1>1, <1>3, <1>4, <1>5, Zenon DEF OnlyReverts, v

\* removeTurns(): begins where nothing waits.
LEMMA RemoveTurnsStep ==
    ASSUME BInv, NEW t \in Thread, RemoveTurns(t)
    PROVE  BInv' /\ InOrder(prompt, prompt')
<1> DEFINE kind == IF status[t] = "notLoaded" THEN "revert resume" ELSE "revert"
           r == About(kind, t)
           v == Send(Work, r)
<1>1. /\ Sound(Work, status, revert) /\ OthersOK /\ Work \in Works
      /\ \A u \in Thread : Served(Work, u)
      /\ DraftOK(Work, creating)
  BY BInvWork, Zenon
<1>2. /\ revert[t] = "none" /\ status[t] # "absent" /\ Settled(Work, t)
      /\ revert' = [revert EXCEPT ![t] = "pending"] /\ stale' = [stale EXCEPT ![t] = TRUE]
      /\ UNCHANGED <<creating, selected, draft, status, more, online, control>>
  BY Zenon DEF RemoveTurns, MayRevert, place, link
<1>3. Become(v)
  <2>1. v = Send(Work, About(IF status[t] = "notLoaded" THEN "revert resume" ELSE "revert", t))
    BY Zenon
  <2>2. QED
    BY <2>1, Zenon DEF RemoveTurns
<1>4. kind \in Kinds /\ kind \in RevertKinds
  BY Zenon DEF Kinds, RevertKinds
<1> HIDE DEF kind
<1>5. r \in Request /\ r.kind \in RevertKinds /\ r.thread = t
  BY <1>4, AboutRequest, Zenon
<1> HIDE DEF r
<1>6. OnlyReverts(Work, v, t) /\ Reverts(v, t) = Reverts(Work, t) \cup {r}
  BY <1>1, <1>5, SendRevert, Zenon
<1> HIDE DEF v
<1>7. Reverts(Work, t) = {}
  BY <1>1, <1>2, Zenon DEF Sound, ThreadOK, RevertOK, Removing
<1>8. revert' \in [Thread -> Removing \cup {"none", "result"}] /\ revert'[t] = "pending"
      /\ \A u \in Thread : u # t => revert'[u] = revert[u]
  BY <1>1, <1>2, Zenon DEF OthersOK, Removing
<1>9. OthersOK'
  BY <1>1, <1>2, <1>8, Zenon DEF OthersOK
<1>10. RevertOK(v, t, status[t], revert'[t])
  <2>1. Reverts(v, t) = {r}
    BY <1>6, <1>7, Zenon
  <2>2. Settled(v, t)
    BY <1>2, <1>6, Zenon DEF Settled, OnlyReverts
  <2>3. QED
    BY <1>2, <1>8, <2>1, <2>2, Zenon DEF RevertOK, Removing
<1>11. /\ Sound(v, status, revert')
       /\ \A u \in Thread : Served(v, u)
       /\ DraftOK(v, creating)
  <2>1. PICK rv2 : rv2 = revert'
    BY Zenon
  <2>2. (\A u \in Thread : u # t => rv2[u] = revert[u]) /\ RevertOK(v, t, status[t], rv2[t])
    BY <1>8, <1>10, <2>1, Zenon
  <2>3. Sound(v, status, rv2)
    BY <1>1, <1>6, <2>2, OnlyRevertsSound, Zenon
  <2>4. /\ \A u \in Thread : Served(Work, u) => Served(v, u)
        /\ \A cr : DraftOK(Work, cr) => DraftOK(v, cr)
    BY <1>6, OnlyRevertsServes, Zenon
  <2>5. QED
    BY <1>1, <2>1, <2>3, <2>4, Zenon
<1>12. Calm(prompt, v.prompt) /\ v.online = online' /\ v.control = control'
  BY <1>2, <1>6, WorkFields, SameIsCalm, Zenon DEF OnlyReverts
<1>13. Sound(v, status', revert') /\ DraftOK(v, creating')
  BY <1>2, <1>11, Zenon
<1>14. QED
  BY <1>3, <1>9, <1>11, <1>12, <1>13, CalmDone, Zenon

-----------------------------------------------------------------------------
\* The connection

\* A session that loses its provider waits for nothing and has no prompt on its way.
LEMMA LoseProviderStep ==
    ASSUME BInv, NEW reset \in BOOLEAN, NEW late \in BOOLEAN, LoseProvider(reset, late)
    PROVE  BInv' /\ InOrder(prompt, prompt')
<1> DEFINE failing(p) == prompt[p].thread \in Affected(Work) /\ prompt[p].state \in Unsettled
           failed(p) == [prompt[p] EXCEPT !.state = "failed"]
           pr == [p \in Prompt |-> IF failing(p) THEN failed(p) ELSE prompt[p]]
           rt == [t \in Thread |-> NoRuntime]
           w == [Work EXCEPT !.prompt = pr, !.runtime = rt, !.requests = {}]
           v == [w EXCEPT !.online = FALSE, !.control = control']
<1>1. /\ Sound(Work, status, revert) /\ OthersOK /\ Work \in Works
      /\ DraftOK(Work, creating)
  BY BInvWork, Zenon
<1>2. /\ online' = FALSE /\ control' \in BOOLEAN /\ revert' = [t \in Thread |-> "none"]
      /\ creating' \in {"no", "late"} /\ UNCHANGED <<selected, draft>>
      /\ status' \in [Thread -> Statuses] /\ stale' \in [Thread -> BOOLEAN] /\ more' \in [Thread -> BOOLEAN]
  <2>1. control \in BOOLEAN
    BY <1>1, WorkFields, Zenon DEF Works
  <2>2. /\ [t \in Thread |-> "absent"] \in [Thread -> Statuses] /\ [t \in Thread |-> FALSE] \in [Thread -> BOOLEAN]
    BY Zenon DEF Statuses
  <2>3. QED
    BY <1>1, <2>1, <2>2, Zenon DEF LoseProvider, place, model, OthersOK
<1>3. Become(w)
  <2>1. Invalidate(Work) = w
    BY WorkFields, Zenon DEF Invalidate
  <2>2. QED
    BY <2>1, Zenon DEF LoseProvider
<1>4. \A p \in Prompt : /\ prompt[p] \in Submission /\ failed(p) \in Submission
                        /\ failed(p).state = "failed" /\ failed(p).thread = prompt[p].thread
                        /\ failed(p).sent = prompt[p].sent /\ failed(p).item = prompt[p].item
  <2>1. \A p \in Prompt : prompt[p] \in Submission
    BY <1>1, WorkFields, PromptTypes, Zenon
  <2>2. QED
    BY <2>1, Zenon DEF Submission, PromptStates
<1>5. \A p \in Prompt : (failing(p) => pr[p] = failed(p)) /\ (~failing(p) => pr[p] = prompt[p])
  BY Zenon
<1>6. pr \in [Prompt -> Submission] /\ rt \in [Thread -> Entry] /\ \A t \in Thread : rt[t] = NoRuntime
  BY <1>4, NoRuntimeEntry, Zenon
<1> HIDE DEF pr, rt, failed
<1>7. /\ v.prompt = pr /\ v.runtime = rt /\ v.requests = {} /\ v.online = FALSE /\ v.control = control'
      /\ v \in Works /\ v.prompt = w.prompt /\ v.runtime = w.runtime /\ v.requests = w.requests
  BY <1>1, <1>2, <1>6, Zenon DEF Works, Work
<1> HIDE DEF v, w
<1>8. \A p \in Prompt : /\ v.prompt[p].thread = prompt[p].thread
                        /\ v.prompt[p].sent = prompt[p].sent /\ v.prompt[p].item = prompt[p].item
                        /\ v.prompt[p] = prompt[p] \/ v.prompt[p].state = "failed"
                        /\ failing(p) => v.prompt[p].state = "failed"
  BY <1>4, <1>5, <1>7, Zenon
<1>9. ASSUME NEW p \in Prompt PROVE v.prompt[p].state # "inFlight" /\ PromptOK(v, p)
  <2>1. PromptOK(Work, p)
    BY <1>1, Zenon DEF Sound
  <2>2. prompt[p].state = "inFlight" => failing(p)
    BY <2>1, WorkFields, Zenon DEF PromptOK, Affected, Unsettled
  <2>3. v.prompt[p].state # "inFlight"
    BY <1>8, <2>2, Zenon
  <2>4. QED
    BY <1>8, <2>1, <2>3, WorkFields, Zenon DEF PromptOK
<1>10. ASSUME NEW t \in Thread PROVE ThreadOK(v, t, status'[t], revert'[t]) /\ Served(v, t)
  <2>1. Hist(v, t) = {} /\ Turns(v, t) = {} /\ Reverts(v, t) = {}
    BY <1>7, Zenon DEF Hist, Turns, Reverts
  <2>2. v.runtime[t] = NoRuntime
    BY <1>6, <1>7, Zenon
  <2>3. HistoryOK(v.runtime[t], Hist(v, t))
    BY <2>1, <2>2, NoRuntimeEntry, QuietHistory
  <2>4. ReadyIsKnown(v, t, status'[t])
    BY <2>2, NoRuntimeEntry, Zenon DEF ReadyIsKnown
  <2>5. RevertOK(v, t, status'[t], revert'[t])
    BY <1>2, <2>1, Zenon DEF RevertOK, Removing
  <2>6. Served(v, t)
    BY <1>7, Zenon DEF Served, CanSubmit
  <2>7. QED
    BY <2>1, <2>3, <2>4, <2>5, <2>6, Zenon DEF ThreadOK
<1>11. DraftOK(v, creating')
  <2>1. \A p \in Prompt : prompt[p].thread = Draft /\ prompt[p].state = "queued" => failing(p)
    BY WorkFields, Zenon DEF Affected, Unsettled, InState
  <2>2. \A p \in Prompt : v.prompt[p].thread = Draft => v.prompt[p].state # "queued"
    BY <1>8, <2>1, Zenon
  <2>3. QED
    BY <2>2, Zenon DEF DraftOK, InState
<1>12. Sound(v, status', revert')
  BY <1>7, <1>9, <1>10, Zenon DEF Sound
<1>13. Calm(prompt, v.prompt)
  BY <1>8, <1>9, Zenon DEF Calm
<1>14. OthersOK'
  <2>1. revert' \in [Thread -> Removing \cup {"none", "result"}]
    BY <1>2, Zenon
  <2>2. QED
    BY <1>1, <1>2, <2>1, Zenon DEF OthersOK
<1>15. Become(v) /\ v.online = online' /\ v.control = control'
  BY <1>2, <1>3, <1>7, Zenon DEF Become
<1>16. QED
  BY <1>10, <1>11, <1>12, <1>13, <1>14, <1>15, CalmDone, Zenon

\* The selected thread is hydrated and every queue is served again.
LEMMA ServeAll ==
    ASSUME BInv, NEW m \in Works, NEW refresh \in BOOLEAN, m.prompt = prompt, m.runtime = runtime,
           m.requests = requests, m.online = online', m.control = control',
           Become(DispatchAll(EnsureHydrated(m, selected, refresh))),
           UNCHANGED <<creating, selected, draft, status, stale, more, revert>>
    PROVE  BInv' /\ InOrder(prompt, prompt')
<1> DEFINE e == EnsureHydrated(m, selected, refresh)
           v == DispatchAll(e)
<1>1. /\ Sound(Work, status, revert) /\ OthersOK /\ DraftOK(Work, creating)
  BY BInvWork, Zenon
<1>2. Sound(m, status, revert) /\ DraftOK(m, creating)
  BY <1>1, WorkFields, LinkSound, Zenon
<1>3. /\ Sound(e, status, revert) /\ DraftOK(e, creating)
      /\ e.prompt = prompt /\ e.online = online' /\ e.control = control'
  <2>1. CASE selected \in Thread
    <3>1. HistoryOK(m.runtime[selected], Hist(m, selected))
      BY <1>2, <2>1, Zenon DEF Sound, ThreadOK
    <3>2. Steady(m, e, selected)
      BY <2>1, <3>1, EnsureHydratedSteady, Zenon
    <3> HIDE DEF e
    <3>3. Sound(e, status, revert)
      BY <1>2, <2>1, <3>2, SteadySound, Zenon
    <3>4. Moves(m, e, selected)
      BY <3>2, Zenon DEF Steady
    <3>5. DraftOK(e, creating)
      BY <1>2, <2>1, <3>4, MovesServes, Zenon
    <3>6. QED
      BY <3>3, <3>4, <3>5, Zenon DEF Moves
  <2>2. CASE selected \notin Thread
    <3>1. e = m
      BY <2>2, Zenon DEF EnsureHydrated
    <3>2. QED
      BY <1>2, <3>1, Zenon
  <2>3. QED
    BY <2>1, <2>2, Zenon
<1> HIDE DEF e
<1>4. DispatchStep(e, v, Thread)
  <2>1. e \in Works /\ status \in [Thread -> Statuses]
    BY <1>1, <1>3, Zenon DEF Sound, OthersOK
  <2>2. \A t \in Thread : HistoryOK(e.runtime[t], Hist(e, t)) /\ ReadyIsKnown(e, t, status[t])
    BY <1>3, Zenon DEF Sound, ThreadOK
  <2>3. QED
    BY <2>1, <2>2, DispatchAllStep, Zenon
<1>5. Become(v)
  BY Zenon DEF e
<1> HIDE DEF v
<1>6. OthersOK'
  BY <1>1, Zenon DEF OthersOK
<1>7. /\ Sound(e, status', revert') /\ DraftOK(e, creating') /\ Calm(prompt, e.prompt)
      /\ \A t \in Thread \ Thread : Served(e, t)
  BY <1>3, SameIsCalm, Zenon
<1>8. Thread \in SUBSET Thread
  BY Zenon
<1>9. QED
  BY <1>3, <1>4, <1>5, <1>6, <1>7, <1>8, DispatchDone, Zenon
LEMMA ProviderReadyStep ==
    ASSUME BInv, ProviderReady
    PROVE  BInv' /\ InOrder(prompt, prompt')
<1> DEFINE m == [Work EXCEPT !.online = TRUE]
<1>1. Work \in Works
  BY BInvWork, Zenon
<1>2. /\ m \in Works /\ m.prompt = prompt /\ m.runtime = runtime /\ m.requests = requests
      /\ m.online = TRUE /\ m.control = control
  BY <1>1, WorkFields, Zenon DEF Works, Work
<1> HIDE DEF m
<1>3. /\ online' = TRUE /\ control' = control
      /\ UNCHANGED <<creating, selected, draft, status, stale, more, revert>>
      /\ Become(DispatchAll(EnsureHydrated(m, selected, FALSE)))
  BY Zenon DEF ProviderReady, place, model, m
<1>4. m.online = online' /\ m.control = control'
  BY <1>2, <1>3, Zenon
<1>5. QED
  BY <1>2, <1>3, <1>4, ServeAll, Zenon
LEMMA ControlChangesStep ==
    ASSUME BInv, ControlChanges
    PROVE  BInv' /\ InOrder(prompt, prompt')
<1> DEFINE m == [Work EXCEPT !.control = control']
<1>1. Work \in Works /\ Sound(Work, status, revert) /\ DraftOK(Work, creating) /\ OthersOK
  BY BInvWork, Zenon
<1>2. control' \in BOOLEAN /\ online' = online
      /\ UNCHANGED <<creating, selected, draft, status, stale, more, revert>>
  BY Zenon DEF ControlChanges, place, model
<1>3. /\ m \in Works /\ m.prompt = prompt /\ m.runtime = runtime /\ m.requests = requests
      /\ m.online = online /\ m.control = control'
  BY <1>1, <1>2, WorkFields, Zenon DEF Works, Work
<1>4. Become(IF online THEN DispatchAll(EnsureHydrated(m, selected, TRUE)) ELSE m)
  BY Zenon DEF ControlChanges
<1> HIDE DEF m
<1>5. CASE online
  <2>1. Become(DispatchAll(EnsureHydrated(m, selected, TRUE)))
    BY <1>4, <1>5, Zenon
  <2>2. m.online = online'
    BY <1>2, <1>3, Zenon
  <2>3. QED
    BY <1>2, <1>3, <2>1, <2>2, ServeAll, Zenon
<1>6. CASE ~online
  <2>1. Become(m)
    BY <1>4, <1>6, Zenon
  <2>2. Sound(m, status, revert) /\ DraftOK(m, creating)
    BY <1>1, <1>3, WorkFields, LinkSound, Zenon
  <2>3. \A t \in Thread : Served(m, t)
    BY <1>3, <1>6, Zenon DEF Served, CanSubmit
  <2>4. OthersOK' /\ Calm(prompt, m.prompt)
    BY <1>1, <1>2, <1>3, SameIsCalm, Zenon DEF OthersOK
  <2>5. Sound(m, status', revert') /\ DraftOK(m, creating') /\ m.online = online'
    BY <1>2, <1>3, <2>2, Zenon
  <2>6. QED
    BY <1>3, <2>1, <2>3, <2>4, <2>5, CalmDone, Zenon
<1>7. QED
  BY <1>5, <1>6, Zenon

-----------------------------------------------------------------------------
\* What the app-server announces

\* A user message was seen: its prompt was sent before.
LEMMA MaterializedStep ==
    ASSUME BInv, NEW p \in Prompt, Materialized(p)
    PROVE  BInv' /\ InOrder(prompt, prompt')
<1> DEFINE s == [prompt[p] EXCEPT !.item = TRUE,
                                  !.state = IF prompt[p].state = "accepted" THEN "gone" ELSE prompt[p].state]
           pr == [prompt EXCEPT ![p] = s]
           v == [Work EXCEPT !.prompt = pr]
<1>1. /\ Sound(Work, status, revert) /\ OthersOK /\ Work \in Works
      /\ \A u \in Thread : Served(Work, u)
      /\ DraftOK(Work, creating)
  BY BInvWork, Zenon
<1>3. prompt[p] \in Submission /\ PromptOK(Work, p)
  BY <1>1, WorkFields, PromptTypes, Zenon DEF Sound
<1>2. /\ prompt' = pr /\ prompt[p].sent /\ prompt[p].thread \in Thread
      /\ UNCHANGED <<runtime, requests, creating, selected, draft, revert, status, stale, more, online, control>>
  <2>1. prompt' = pr
    BY Zenon DEF Materialized
  <2>2. QED
    BY <2>1, Zenon DEF Materialized, place, model, link
<1>4. /\ s \in Submission /\ s.thread = prompt[p].thread /\ s.sent = prompt[p].sent /\ s.item
      /\ s.state = prompt[p].state \/ (prompt[p].state = "accepted" /\ s.state = "gone")
  BY <1>3, Zenon DEF Submission, PromptStates
<1>5. prompt[p].state # "queued" /\ prompt[p].thread # Draft
  BY <1>2, <1>3, WorkFields, BrowserAssumption, Zenon DEF PromptOK
<1> HIDE DEF s
<1>6. pr \in [Prompt -> Submission] /\ pr[p] = s /\ \A q \in Prompt : q # p => pr[q] = prompt[q]
  BY <1>1, <1>4, WorkFields, Zenon DEF Works
<1> HIDE DEF pr
<1>7. /\ v.prompt = pr /\ v.runtime = Work.runtime /\ v.requests = Work.requests
      /\ v.online = Work.online /\ v.control = Work.control /\ v \in Works
  BY <1>1, <1>6, Zenon DEF Works, Work
<1> HIDE DEF v
<1>8. \A q \in Prompt :
        /\ v.prompt[q].thread = Work.prompt[q].thread /\ v.prompt[q].sent = Work.prompt[q].sent
        /\ Work.prompt[q].item => v.prompt[q].item
        /\ \/ v.prompt[q].state = Work.prompt[q].state
           \/ Work.prompt[q].state = "accepted" /\ v.prompt[q].state = "gone"
  BY <1>4, <1>6, <1>7, WorkFields, Zenon
<1>9. ASSUME NEW q \in Prompt PROVE PromptOK(v, q)
  <2>1. PromptOK(Work, q) /\ \A u \in Thread : Turns(v, u) = Turns(Work, u)
    BY <1>1, <1>7, Zenon DEF Sound, Turns
  <2>2. v.prompt[q].item => v.prompt[q].sent
    BY <1>2, <1>4, <1>6, <1>7, <2>1, WorkFields, Zenon DEF PromptOK
  <2>3. v.prompt[q].thread # Draft \/ v.prompt[q].state = Work.prompt[q].state
    BY <1>4, <1>5, <1>6, <1>7, WorkFields, Zenon
  <2>4. v.runtime = Work.runtime
    BY <1>7
  <2>5. QED
    BY <1>8, <2>1, <2>2, <2>3, <2>4, Zenon DEF PromptOK
<1>10. Sound(v, status, revert)
  <2>1. \A q \in Prompt : /\ v.prompt[q].sent = Work.prompt[q].sent
                          /\ v.prompt[q].state = "inFlight" =>
                               Work.prompt[q].state = "inFlight" /\ v.prompt[q].thread = Work.prompt[q].thread
    BY <1>8, Zenon
  <2>2. \A u \in Thread : revert[u] \in Removing /\ Settled(Work, u) => Settled(v, u)
    BY <1>8, Zenon DEF Settled
  <2>3. QED
    BY <1>1, <1>7, <1>9, <2>1, <2>2, PromptsSound, Zenon
<1>11. \A u : /\ InState(v, u, "queued") = InState(Work, u, "queued")
              /\ InState(v, u, "inFlight") = InState(Work, u, "inFlight")
  BY <1>8, Zenon DEF InState
<1>12. \A u \in Thread : Served(v, u)
  BY <1>1, <1>7, <1>11, Zenon DEF Served, CanSubmit
<1>13. DraftOK(v, creating')
  BY <1>1, <1>2, <1>11, Zenon DEF DraftOK
<1>14. Calm(prompt, v.prompt)
  BY <1>8, WorkFields, Zenon DEF Calm
<1>15. OthersOK'
  BY <1>1, <1>2, Zenon DEF OthersOK
<1>16. Become(v) /\ v.online = online' /\ v.control = control'
  BY <1>2, <1>7, WorkFields, Zenon DEF Become
<1>17. Sound(v, status', revert')
  BY <1>2, <1>10, Zenon
<1>18. QED
  BY <1>12, <1>13, <1>14, <1>15, <1>16, <1>17, CalmDone, Zenon

\* The creation of a thread failed, and with it the prompts of the draft.
LEMMA NotCreatedStep ==
    ASSUME BInv, NotCreated
    PROVE  BInv' /\ InOrder(prompt, prompt')
<1> DEFINE v == FailStates(Work, Draft, {"queued"})
<1>1. /\ Sound(Work, status, revert) /\ OthersOK /\ Work \in Works
      /\ \A u \in Thread : Served(Work, u)
  BY BInvWork, Zenon
<1>2. /\ creating' = "no" /\ Become(v)
      /\ UNCHANGED <<selected, draft, revert, status, stale, more, online, control>>
  BY Zenon DEF NotCreated, DraftFailed, FailQueued, place, model, link
<1>3. /\ Fails(Work, v) /\ InState(v, Draft, "queued") = {}
      /\ \A u \in Thread : Served(Work, u) => Served(v, u)
  BY <1>1, FailStatesFails
<1> HIDE DEF v
<1>4. Sound(v, status, revert) /\ Calm(prompt, v.prompt)
  BY <1>1, <1>3, FailsSound, SameIsCalm, WorkFields, Zenon
<1>5. DraftOK(v, creating') /\ \A u \in Thread : Served(v, u)
  BY <1>1, <1>3, Zenon DEF DraftOK
<1>6. OthersOK'
  BY <1>1, <1>2, Zenon DEF OthersOK
<1>7. Sound(v, status', revert') /\ v.online = online' /\ v.control = control'
  BY <1>2, <1>3, <1>4, WorkFields, Zenon DEF Fails
<1>8. QED
  BY <1>2, <1>4, <1>5, <1>6, <1>7, CalmDone, Zenon

\* The new thread is there: the prompts of the draft are its own, and go.
LEMMA CreatedStep ==
    ASSUME BInv, NEW t \in Thread, Created(t)
    PROVE  BInv' /\ InOrder(prompt, prompt')
<1> DEFINE own(p) == [prompt[p] EXCEPT !.thread = t]
           pr == [p \in Prompt |-> IF prompt[p].thread = Draft THEN own(p) ELSE prompt[p]]
           rt == [runtime EXCEPT ![t] = Runtime("ready")]
           m == [Work EXCEPT !.prompt = pr, !.runtime = rt]
           v == DispatchNext(m, t, FALSE, "idle")
<1>1. /\ Sound(Work, status, revert) /\ OthersOK /\ Work \in Works
      /\ \A u \in Thread : Served(Work, u)
      /\ \A u \in Thread : HistoryOK(Work.runtime[u], Hist(Work, u))
  BY BInvWork, Zenon
<1>2. /\ creating' = "no" /\ status[t] = "absent" /\ runtime[t] = NoRuntime
      /\ \A p \in Prompt : prompt[p].thread # t
      /\ status' = [status EXCEPT ![t] = "idle"]
      /\ selected' \in {t, selected} /\ draft' = FALSE
      /\ UNCHANGED <<revert, stale, more, online, control>>
  BY Zenon DEF Created, link
<1>3. Become(v)
  <2>1. m = [Work EXCEPT !.prompt = [p \in Prompt |->
                 IF prompt[p].thread = Draft THEN [prompt[p] EXCEPT !.thread = t] ELSE prompt[p]],
              !.runtime[t] = Runtime("ready")]
    BY WorkFields, Zenon DEF Work
  <2>2. QED
    BY <2>1, Zenon DEF Created
<1>4. \A p \in Prompt : /\ prompt[p] \in Submission /\ own(p) \in Submission
                        /\ own(p).state = prompt[p].state /\ own(p).thread = t
                        /\ own(p).sent = prompt[p].sent /\ own(p).item = prompt[p].item
  <2>1. \A p \in Prompt : prompt[p] \in Submission
    BY <1>1, WorkFields, PromptTypes, Zenon
  <2>2. QED
    BY <2>1, Zenon DEF Submission, PromptStates
<1>5. \A p \in Prompt : /\ prompt[p].thread = Draft => pr[p] = own(p)
                        /\ prompt[p].thread # Draft => pr[p] = prompt[p]
  BY Zenon
<1>6. pr \in [Prompt -> Submission]
  BY <1>4, Zenon
<1>7. /\ rt \in [Thread -> Entry] /\ rt[t] = Runtime("ready") /\ Runtime("ready").phase = "ready"
      /\ ~Runtime("ready").page /\ Runtime("ready") \in Entry
      /\ \A u \in Thread : u # t => rt[u] = runtime[u]
  <2>1. Runtime("ready") \in Entry /\ Runtime("ready").phase = "ready" /\ ~Runtime("ready").page
    BY RuntimeEntry DEF Phases
  <2>2. runtime \in [Thread -> Entry]
    BY <1>1, WorkFields, Zenon DEF Works
  <2>3. QED
    BY <2>1, <2>2, Zenon
<1> HIDE DEF pr, rt, own
<1>8. /\ m.prompt = pr /\ m.runtime = rt /\ m.requests = Work.requests
      /\ m.online = Work.online /\ m.control = Work.control /\ m \in Works
  BY <1>1, <1>6, <1>7, Zenon DEF Works, Work
<1> HIDE DEF m
<1>9. \A u \in Thread : Hist(m, u) = Hist(Work, u) /\ Turns(m, u) = Turns(Work, u) /\ Reverts(m, u) = Reverts(Work, u)
  BY <1>8, Zenon DEF Hist, Turns, Reverts
<1>10. \A p \in Prompt :
         /\ m.prompt[p].state = Work.prompt[p].state /\ m.prompt[p].sent = Work.prompt[p].sent
         /\ m.prompt[p].item = Work.prompt[p].item
         /\ Work.prompt[p].thread = Draft => m.prompt[p].thread = t
         /\ Work.prompt[p].thread # Draft => m.prompt[p] = Work.prompt[p]
  BY <1>4, <1>5, <1>8, WorkFields, Zenon
<1>11. t # Draft /\ t # None /\ \A u \in Thread : u # Draft
  BY BrowserAssumption, Zenon
<1>12. \A p \in Prompt : Work.prompt[p].thread = Draft =>
         Work.prompt[p].state \in {"queued", "failed"}
  BY <1>1, Zenon DEF Sound, PromptOK
<1>13. ASSUME NEW p \in Prompt PROVE PromptOK(m, p)
  <2>1. PromptOK(Work, p)
    BY <1>1, Zenon DEF Sound
  <2>2. CASE Work.prompt[p].thread = Draft
    BY <1>10, <1>11, <1>12, <2>1, <2>2, Zenon DEF PromptOK
  <2>3. CASE Work.prompt[p].thread # Draft
    <3>1. m.prompt[p] = Work.prompt[p]
      BY <1>10, <2>3, Zenon
    <3>2. m.prompt[p].thread # t
      BY <1>2, <3>1, WorkFields, Zenon
    <3>3. \A u \in Thread : u # t => m.runtime[u] = Work.runtime[u]
      BY <1>7, <1>8, WorkFields, Zenon
    <3>4. QED
      BY <1>9, <2>1, <3>1, <3>2, <3>3, Zenon DEF PromptOK
  <2>4. QED
    BY <2>2, <2>3, Zenon
<1>14. /\ status' \in [Thread -> Statuses] /\ status'[t] = "idle"
       /\ \A u \in Thread : u # t => status'[u] = status[u]
  BY <1>1, <1>2, Zenon DEF OthersOK, Statuses
<1>15. ASSUME NEW u \in Thread PROVE ThreadOK(m, u, status'[u], revert[u])
  <2>1. ThreadOK(Work, u, status[u], revert[u])
    BY <1>1, Zenon DEF Sound
  <2>2. \A r \in Turns(m, u) : TurnOK(m, r)
    <3>1. TAKE r \in Turns(m, u)
    <3>2. TurnOK(Work, r)
      BY <1>9, <2>1, Zenon DEF ThreadOK
    <3>3. QED
      BY <1>10, <1>12, <3>2, Zenon DEF TurnOK
  <2>3. CASE u = t
    <3>1. Hist(Work, t) = {}
      <4>1. Work.runtime[t] = NoRuntime /\ HistoryOK(Work.runtime[t], Hist(Work, t))
        BY <1>1, <1>2, WorkFields, Zenon
      <4>2. Hist(Work, t) \in SUBSET Request /\ \A r \in Hist(Work, t) : r.kind \in HistoryKinds \cup {"queue"}
        BY <1>1, HistTypes, Zenon
      <4>3. QED
        BY <4>1, <4>2, NoRuntimeEntry, NothingTied
    <3>2. HistoryOK(m.runtime[t], Hist(m, t))
      <4>1. HistoryOK(Runtime("ready"), {})
        BY <1>7, QuietHistory
      <4>2. QED
        BY <1>7, <1>8, <1>9, <3>1, <4>1, Zenon
    <3>3. RevertOK(m, t, status'[t], revert[t])
      <4>1. revert[t] \notin Removing
        BY <1>2, <2>1, <2>3, Zenon DEF ThreadOK, RevertOK
      <4>2. QED
        BY <1>9, <2>1, <2>3, <4>1, Zenon DEF ThreadOK, RevertOK
    <3>4. ReadyIsKnown(m, t, status'[t])
      BY <1>14, Zenon DEF ReadyIsKnown
    <3>5. QED
      BY <2>2, <2>3, <3>2, <3>3, <3>4, Zenon DEF ThreadOK
  <2>4. CASE u # t
    <3>1. m.runtime[u] = Work.runtime[u] /\ status'[u] = status[u]
      BY <1>7, <1>8, <1>14, <2>4, WorkFields, Zenon
    <3>2. Settled(Work, u) => Settled(m, u)
      BY <1>10, <1>11, <2>4, Zenon DEF Settled
    <3>3. RevertOK(m, u, status'[u], revert[u])
      BY <1>9, <2>1, <3>1, <3>2, Zenon DEF ThreadOK, RevertOK
    <3>4. QED
      BY <1>9, <2>1, <2>2, <3>1, <3>3, Zenon DEF ThreadOK, ReadyIsKnown
  <2>5. QED
    BY <2>3, <2>4, Zenon
<1>16. Sound(m, status', revert')
  <2>1. \A u \in Thread : ThreadOK(m, u, status'[u], revert'[u])
    BY <1>2, <1>15, Zenon
  <2>2. QED
    BY <1>8, <1>13, <2>1, Zenon DEF Sound
<1>17. \A u \in Thread \ {t} : Served(m, u)
  <2>1. TAKE u \in Thread \ {t}
  <2>2. \A p \in Prompt : /\ m.prompt[p].thread = u <=> Work.prompt[p].thread = u
                          /\ m.prompt[p].state = Work.prompt[p].state
    BY <1>10, <1>11, Zenon
  <2>3. \A x : InState(m, u, x) = InState(Work, u, x)
    BY <2>2, Zenon DEF InState
  <2>4. m.runtime[u] = Work.runtime[u] /\ (CanSubmit(m) <=> CanSubmit(Work))
    BY <1>7, <1>8, WorkFields, Zenon DEF CanSubmit
  <2>5. QED
    BY <1>1, <2>3, <2>4, Zenon DEF Served
<1>18. DraftOK(m, creating')
  BY <1>10, <1>11, Zenon DEF DraftOK, InState
<1>19. Calm(prompt, m.prompt)
  BY <1>10, WorkFields, Zenon DEF Calm
<1>20. DispatchStep(m, v, {t})
  <2>1. HistoryOK(m.runtime[t], Hist(m, t))
    BY <1>15, Zenon DEF ThreadOK
  <2>2. ReadyIsKnown(m, t, "idle") /\ "idle" \in Statuses
    BY Zenon DEF ReadyIsKnown, Statuses
  <2>3. QED
    BY <1>8, <2>1, <2>2, DispatchNextStep, Zenon
<1> HIDE DEF v
<1>21. OthersOK'
  BY <1>1, <1>2, <1>14, Zenon DEF OthersOK
<1>22. m.online = online' /\ m.control = control' /\ {t} \in SUBSET Thread
  BY <1>2, <1>8, WorkFields, Zenon
<1>23. QED
  BY <1>3, <1>16, <1>17, <1>18, <1>19, <1>20, <1>21, <1>22, DispatchDone, Zenon

\* thread.reverted: what waits in the thread fails, and its history is read again.
LEMMA AnnouncedWork ==
    ASSUME BInv, NEW t \in Thread, status[t] # "absent",
           NEW v, Moves(FailStates(Work, t, Unsettled), v, t), HistoryOK(v.runtime[t], Hist(v, t))
    PROVE  /\ Sound(v, status, revert) /\ Calm(prompt, v.prompt)
           /\ \A u \in Thread : Served(v, u)
           /\ DraftOK(v, creating)
           /\ v.online = online /\ v.control = control
<1> DEFINE f == FailStates(Work, t, Unsettled)
<1>1. /\ Sound(Work, status, revert) /\ Work \in Works
      /\ \A u \in Thread : Served(Work, u)
      /\ DraftOK(Work, creating)
  BY BInvWork, Zenon
<1>2. /\ Fails(Work, f) /\ InState(f, t, "queued") = {} /\ InState(f, t, "inFlight") = {}
      /\ \A u \in Thread : Served(Work, u) => Served(f, u)
      /\ \A cr : DraftOK(Work, cr) => DraftOK(f, cr)
  BY <1>1, FailStatesFails
<1>3. Moves(f, v, t)
  OBVIOUS
<1> HIDE DEF f
<1>4. Sound(f, status, revert) /\ Calm(prompt, f.prompt)
  BY <1>1, <1>2, FailsSound, SameIsCalm, WorkFields, Zenon
<1>5. Sound(v, status, revert)
  <2>1. ReadyIsKnown(v, t, status[t])
    BY Zenon DEF ReadyIsKnown
  <2>2. QED
    BY <1>2, <1>3, <1>4, <2>1, MovesSound, Zenon
<1>6. /\ \A u \in Thread \ {t} : Served(v, u)
      /\ \A u, s : InState(v, u, s) = InState(f, u, s)
      /\ DraftOK(v, creating)
  BY <1>1, <1>2, <1>3, MovesServes, Zenon
<1>7. Served(v, t)
  BY <1>2, <1>6, Zenon DEF Served
<1>8. v.prompt = f.prompt /\ v.online = online /\ v.control = control
  BY <1>2, <1>3, WorkFields, Zenon DEF Moves, Fails
<1>9. QED
  BY <1>4, <1>5, <1>6, <1>7, <1>8, Zenon

\* What the session remembers of a removal changes and it is neither begun nor ended.
LEMMA RevertsSame ==
    ASSUME NEW v, NEW st, NEW rv, NEW rv2, Sound(v, st, rv),
           \A t \in Thread : rv2[t] \in Removing <=> rv[t] \in Removing
    PROVE  Sound(v, st, rv2)
  BY Zenon DEF Sound, ThreadOK, RevertOK

LEMMA RevertAnnouncedStep ==
    ASSUME BInv, NEW t \in Thread, RevertAnnounced(t)
    PROVE  BInv' /\ InOrder(prompt, prompt')
<1> DEFINE f == FailStates(Work, t, Unsettled)
           none == Replace(f, t, NoRuntime)
           ready == Replace(f, t, Runtime("ready"))
           first == Send([ready EXCEPT !.runtime[t].page = TRUE], About("first", t))
<1>1. /\ Work \in Works /\ OthersOK
      /\ \A u \in Thread : HistoryOK(Work.runtime[u], Hist(Work, u))
  BY BInvWork, Zenon
<1>2. f \in Works /\ \A u \in Thread : f.runtime[u] = Work.runtime[u] /\ Hist(f, u) = Hist(Work, u)
  BY <1>1, FailStatesFails DEF Fails
<1>3. /\ status[t] # "absent"
      /\ stale' = [stale EXCEPT ![t] = revert[t] # "result"]
      /\ revert' = [revert EXCEPT ![t] = IF revert[t] = "pending" THEN "notification"
                                         ELSE IF revert[t] = "result" THEN "none" ELSE revert[t]]
      /\ UNCHANGED <<creating, selected, draft, status, more, online, control>>
  BY Zenon DEF RevertAnnounced, place, link
<1>4. \A u \in Thread : revert'[u] \in Removing <=> revert[u] \in Removing
  BY <1>1, <1>3, Zenon DEF OthersOK, Removing
<1>5. OthersOK'
  <2>1. stale' \in [Thread -> BOOLEAN] /\ revert' \in [Thread -> Removing \cup {"none", "result"}]
    BY <1>1, <1>3, Zenon DEF OthersOK, Removing
  <2>2. QED
    BY <1>1, <1>3, <2>1, Zenon DEF OthersOK
<1>6. \E v : Become(v) /\ Moves(f, v, t) /\ HistoryOK(v.runtime[t], Hist(v, t))
  <2>1. CASE revert[t] = "result"
    <3>1. Become(f)
      BY <2>1, Zenon DEF RevertAnnounced, FailPending
    <3>2. QED
      BY <1>1, <1>2, <3>1, MovesNothing, Zenon
  <2>2. CASE revert[t] \in {"pending", "notification"}
    <3>1. Become(none)
      BY <2>2, Zenon DEF RevertAnnounced, FailPending
    <3>2. Moves(f, none, t) /\ none.runtime[t] = NoRuntime /\ Hist(none, t) = {}
      BY <1>2, NoRuntimeEntry, ReplaceMoves, Zenon
    <3>3. HistoryOK(NoRuntime, {})
      BY NoRuntimeEntry, QuietHistory
    <3>4. QED
      BY <3>1, <3>2, <3>3, Zenon
  <2>3. CASE revert[t] = "none"
    <3>1. Runtime("ready") \in Entry /\ Runtime("ready").phase = "ready" /\ ~Runtime("ready").page
      BY RuntimeEntry DEF Phases
    <3>2. Moves(f, ready, t) /\ ready.runtime[t] = Runtime("ready") /\ Hist(ready, t) = {}
      BY <1>2, <3>1, ReplaceMoves, Zenon
    <3>3. ready \in Works /\ ready.runtime[t].phase = "ready" /\ ~ready.runtime[t].page
      BY <3>1, <3>2, Zenon DEF Moves
    <3>4. HistoryOK(ready.runtime[t], Hist(ready, t))
      BY <3>1, <3>2, QuietHistory, Zenon
    <3>5. Become(LoadFirst(ready, t))
      BY <2>3, Zenon DEF RevertAnnounced, FailPending
    <3>6. LoadFirst(ready, t) = first
      BY <3>3, Zenon DEF LoadFirst
    <3>7. Steady(ready, first, t)
      BY <3>3, <3>4, PageSent
    <3>8. Moves(f, first, t) /\ HistoryOK(first.runtime[t], Hist(first, t))
      BY <3>2, <3>7, MovesOn, Zenon DEF Steady
    <3>9. QED
      BY <3>5, <3>6, <3>8, Zenon
  <2>4. QED
    BY <1>1, <2>1, <2>2, <2>3, Zenon DEF OthersOK, Removing
<1>7. PICK v : Become(v) /\ Moves(f, v, t) /\ HistoryOK(v.runtime[t], Hist(v, t))
  BY <1>6, Zenon
<1>8. /\ Sound(v, status, revert) /\ Calm(prompt, v.prompt)
      /\ \A u \in Thread : Served(v, u)
      /\ DraftOK(v, creating)
      /\ v.online = online /\ v.control = control
  BY <1>3, <1>7, AnnouncedWork, Zenon
<1> HIDE DEF f
<1>9. PICK rv2 : rv2 = revert'
  OBVIOUS
<1>10. Sound(v, status, rv2)
  BY <1>4, <1>8, <1>9, RevertsSame, Zenon
<1>11. Sound(v, status', revert') /\ DraftOK(v, creating') /\ v.online = online' /\ v.control = control'
  BY <1>3, <1>8, <1>9, <1>10, Zenon
<1>12. QED
  BY <1>5, <1>7, <1>8, <1>11, CalmDone, Zenon

\* thread.removed: the prompts of the thread go away with it.
LEMMA ThreadRemovedStep ==
    ASSUME BInv, NEW t \in Thread, ThreadRemoved(t)
    PROVE  BInv' /\ InOrder(prompt, prompt')
<1> DEFINE rep == Replace(Work, t, NoRuntime)
           dropped(p) == [prompt[p] EXCEPT !.state = "gone", !.thread = None]
           pr == [p \in Prompt |-> IF prompt[p].thread = t THEN dropped(p) ELSE prompt[p]]
           rest == {r \in rep.requests : r.thread # t \/ r.kind \notin {"revert", "revert resume"}}
           v == [rep EXCEPT !.prompt = pr, !.requests = rest]
<1>1. /\ Sound(Work, status, revert) /\ OthersOK /\ Work \in Works
      /\ \A u \in Thread : Served(Work, u)
      /\ DraftOK(Work, creating)
  BY BInvWork, Zenon
<1>2. /\ status[t] # "absent"
      /\ status' = [status EXCEPT ![t] = "absent"]
      /\ stale' = [stale EXCEPT ![t] = FALSE] /\ more' = [more EXCEPT ![t] = FALSE]
      /\ revert' = [revert EXCEPT ![t] = "none"]
      /\ selected' \in {None, selected}
      /\ UNCHANGED <<creating, draft, online, control>>
  BY Zenon DEF ThreadRemoved, link
<1>3. Become(v)
  <2>1. v = [rep EXCEPT !.prompt = pr,
               !.requests = {r \in @ : r.thread # t \/ r.kind \notin {"revert", "revert resume"}}]
    BY Zenon
  <2>2. QED
    BY <2>1, Zenon DEF ThreadRemoved
<1>4. /\ Moves(Work, rep, t) /\ rep.runtime[t] = NoRuntime /\ Hist(rep, t) = {}
  BY <1>1, NoRuntimeEntry, ReplaceMoves, Zenon
<1>5. /\ rep \in Works /\ rep.prompt = prompt /\ rep.online = online /\ rep.control = control
      /\ \A u \in Thread : u # t => SameAt(Work, rep, u)
      /\ \A u \in Thread : Turns(rep, u) = Turns(Work, u)
  BY <1>4, WorkFields, Zenon DEF Moves, SameAt
<1> HIDE DEF rep
<1>6. \A p \in Prompt : /\ prompt[p] \in Submission /\ dropped(p) \in Submission
                        /\ dropped(p).state = "gone" /\ dropped(p).thread = None
                        /\ dropped(p).sent = prompt[p].sent /\ dropped(p).item = prompt[p].item
  <2>1. \A p \in Prompt : prompt[p] \in Submission
    BY <1>1, WorkFields, PromptTypes, Zenon
  <2>2. QED
    BY <2>1, Zenon DEF Submission, PromptStates
<1>7. \A p \in Prompt : /\ prompt[p].thread = t => pr[p] = dropped(p)
                        /\ prompt[p].thread # t => pr[p] = prompt[p]
  BY Zenon
<1>8. pr \in [Prompt -> Submission]
  BY <1>6, Zenon
<1>9. rest \subseteq rep.requests /\ rep.requests \subseteq Request
  BY <1>5, Zenon DEF Works
<1>10. rest \in SUBSET Request
  BY <1>9, Zenon
<1>11. \A r \in rep.requests : r \in rest <=> r.thread # t \/ r.kind \notin RevertKinds
  BY Zenon DEF RevertKinds
<1> HIDE DEF pr, dropped, rest
<1>12. /\ v.prompt = pr /\ v.runtime = rep.runtime /\ v.requests = rest
       /\ v.online = online /\ v.control = control /\ v \in Works
  BY <1>5, <1>8, <1>10, Zenon DEF Works
<1> HIDE DEF v
<1>13. ASSUME NEW u \in Thread
       PROVE  Hist(v, u) = Hist(rep, u) /\ Turns(v, u) = Turns(Work, u)
  <2>1. \A r \in rep.requests : r.kind \in HistoryKinds \cup {"queue"} \/ r.kind = "turn" => r \in rest
    BY <1>11, Zenon DEF HistoryKinds, RevertKinds
  <2>2. \A r \in rest : r \in rep.requests
    BY <1>9, Zenon
  <2>3. Hist(v, u) = Hist(rep, u)
    BY <1>12, <2>1, <2>2, Zenon DEF Hist
  <2>4. Turns(v, u) = Turns(rep, u)
    BY <1>12, <2>1, <2>2, Zenon DEF Turns
  <2>5. QED
    BY <1>5, <2>3, <2>4, Zenon
<1>14. \A u \in Thread : u # t => Reverts(v, u) = Reverts(Work, u)
  <2>1. TAKE u \in Thread
  <2>2. HAVE u # t
  <2>3. Reverts(v, u) = Reverts(rep, u)
    BY <1>9, <1>11, <1>12, <2>2, Zenon DEF Reverts
  <2>4. QED
    BY <1>5, <2>2, <2>3, Zenon DEF SameAt
<1>15. Reverts(v, t) = {}
  BY <1>9, <1>11, <1>12, Zenon DEF Reverts
<1>16. t # Draft /\ t # None /\ Draft # None /\ \A u \in Thread : u # None /\ u # Draft
  BY BrowserAssumption, Zenon
<1>17. \A p \in Prompt :
         /\ v.prompt[p].sent = Work.prompt[p].sent /\ v.prompt[p].item = Work.prompt[p].item
         /\ Work.prompt[p].thread = t => v.prompt[p].state = "gone" /\ v.prompt[p].thread = None
         /\ Work.prompt[p].thread # t => v.prompt[p] = Work.prompt[p]
  BY <1>6, <1>7, <1>12, WorkFields, Zenon
<1>18. ASSUME NEW p \in Prompt PROVE PromptOK(v, p)
  <2>1. PromptOK(Work, p)
    BY <1>1, Zenon DEF Sound
  <2>2. CASE Work.prompt[p].thread = t
    BY <1>16, <1>17, <2>1, <2>2, Zenon DEF PromptOK
  <2>3. CASE Work.prompt[p].thread # t
    <3>1. v.prompt[p] = Work.prompt[p] /\ \A u \in Thread : u # t => v.runtime[u] = Work.runtime[u]
      BY <1>5, <1>12, <1>17, <2>3, Zenon DEF SameAt
    <3>2. QED
      BY <1>13, <2>1, <2>3, <3>1, Zenon DEF PromptOK
  <2>4. QED
    BY <2>2, <2>3, Zenon
<1>19. /\ status' \in [Thread -> Statuses] /\ revert' \in [Thread -> Removing \cup {"none", "result"}]
       /\ stale' \in [Thread -> BOOLEAN] /\ more' \in [Thread -> BOOLEAN]
       /\ revert'[t] = "none"
       /\ \A u \in Thread : u # t => status'[u] = status[u] /\ revert'[u] = revert[u]
  BY <1>1, <1>2, Zenon DEF OthersOK, Statuses
<1>20. ASSUME NEW u \in Thread PROVE ThreadOK(v, u, status'[u], revert'[u])
  <2>1. ThreadOK(Work, u, status[u], revert[u])
    BY <1>1, Zenon DEF Sound
  <2>2. \A r \in Turns(v, u) : TurnOK(v, r)
    <3>1. TAKE r \in Turns(v, u)
    <3>2. TurnOK(Work, r)
      BY <1>13, <2>1, Zenon DEF ThreadOK
    <3>3. QED
      BY <1>17, <3>2, Zenon DEF TurnOK
  <2>3. CASE u = t
    <3>1. v.runtime[t] = NoRuntime /\ Hist(v, t) = {}
      BY <1>4, <1>12, <1>13, Zenon
    <3>2. HistoryOK(NoRuntime, {})
      BY NoRuntimeEntry, QuietHistory
    <3>3. ReadyIsKnown(v, t, status'[t])
      BY <3>1, NoRuntimeEntry, Zenon DEF ReadyIsKnown
    <3>4. RevertOK(v, t, status'[t], revert'[t])
      BY <1>15, <1>19, Zenon DEF RevertOK, Removing
    <3>5. QED
      BY <2>2, <2>3, <3>1, <3>2, <3>3, <3>4, Zenon DEF ThreadOK
  <2>4. CASE u # t
    <3>1. /\ v.runtime[u] = Work.runtime[u] /\ Hist(v, u) = Hist(Work, u)
          /\ status'[u] = status[u] /\ revert'[u] = revert[u]
      BY <1>5, <1>12, <1>13, <1>19, <2>4, Zenon DEF SameAt
    <3>2. Settled(Work, u) => Settled(v, u)
      BY <1>16, <1>17, Zenon DEF Settled
    <3>3. RevertOK(v, u, status'[u], revert'[u])
      BY <1>14, <2>1, <2>4, <3>1, <3>2, Zenon DEF ThreadOK, RevertOK
    <3>4. QED
      BY <2>1, <2>2, <3>1, <3>3, Zenon DEF ThreadOK, ReadyIsKnown
  <2>5. QED
    BY <2>3, <2>4, Zenon
<1>21. Sound(v, status', revert')
  BY <1>12, <1>18, <1>20, Zenon DEF Sound
<1>22. \A u \in Thread \cup {Draft} : u # t => \A x : InState(v, u, x) = InState(Work, u, x)
  <2>1. ASSUME NEW u \in Thread \cup {Draft}, u # t, NEW p \in Prompt
        PROVE  /\ v.prompt[p].thread = u <=> Work.prompt[p].thread = u
               /\ v.prompt[p].thread = u => v.prompt[p] = Work.prompt[p]
    BY <1>16, <1>17, <2>1, Zenon
  <2>2. QED
    BY <2>1, Zenon DEF InState
<1>23. ASSUME NEW u \in Thread PROVE Served(v, u)
  <2>1. CASE u = t
    BY <1>16, <1>17, <2>1, Zenon DEF Served, InState
  <2>2. CASE u # t
    <3>1. v.runtime[u] = Work.runtime[u] /\ (CanSubmit(v) <=> CanSubmit(Work))
      BY <1>5, <1>12, <2>2, WorkFields, Zenon DEF SameAt, CanSubmit
    <3>2. QED
      BY <1>1, <1>22, <2>2, <3>1, Zenon DEF Served
  <2>3. QED
    BY <2>1, <2>2, Zenon
<1>24. DraftOK(v, creating')
  BY <1>1, <1>2, <1>16, <1>22, Zenon DEF DraftOK
<1>25. Calm(prompt, v.prompt)
  BY <1>17, WorkFields, Zenon DEF Calm
<1>26. OthersOK'
  BY <1>1, <1>2, <1>19, Zenon DEF OthersOK
<1>27. v.online = online' /\ v.control = control'
  BY <1>2, <1>12, Zenon
<1>28. QED
  BY <1>3, <1>21, <1>23, <1>24, <1>25, <1>26, <1>27, CalmDone, Zenon

-----------------------------------------------------------------------------
\* The answers

\* The page of an entry is over, and its phase changes.
LEMMA PageOverMoves ==
    ASSUME NEW w \in Works, NEW t \in Thread
    PROVE  /\ Moves(w, PageOver(w, t), t)
           /\ PageOver(w, t).runtime[t] \in Entry /\ ~PageOver(w, t).runtime[t].page
           /\ PageOver(w, t).runtime[t].phase = w.runtime[t].phase
           /\ Hist(PageOver(w, t), t) = Hist(w, t)
<1> DEFINE e == [w.runtime[t] EXCEPT !.page = FALSE]
<1>1. w.runtime[t] \in Entry /\ w.runtime \in [Thread -> Entry]
  BY Zenon DEF Works
<1>2. e \in Entry /\ ~e.page /\ e.phase = w.runtime[t].phase
  BY <1>1, Zenon DEF Entry
<1>3. PageOver(w, t) = WithEntry(w, t, e)
  BY Zenon DEF PageOver, WithEntry
<1>4. /\ Moves(w, WithEntry(w, t, e), t)
      /\ WithEntry(w, t, e).runtime[t] = e
      /\ Hist(WithEntry(w, t, e), t) = Hist(w, t)
  BY <1>2, EntryMoves, Zenon
<1> HIDE DEF e
<1>5. QED
  BY <1>2, <1>3, <1>4, Zenon
LEMMA SetPhaseMoves ==
    ASSUME NEW w \in Works, NEW t \in Thread, NEW phase \in Phases
    PROVE  /\ Moves(w, SetPhase(w, t, phase), t)
           /\ SetPhase(w, t, phase).runtime[t] \in Entry
           /\ SetPhase(w, t, phase).runtime[t].page = w.runtime[t].page
           /\ SetPhase(w, t, phase).runtime[t].phase = phase
           /\ Hist(SetPhase(w, t, phase), t) = Hist(w, t)
<1> DEFINE e == [w.runtime[t] EXCEPT !.phase = phase]
<1>1. w.runtime[t] \in Entry /\ w.runtime \in [Thread -> Entry]
  BY Zenon DEF Works
<1>2. e \in Entry /\ e.page = w.runtime[t].page /\ e.phase = phase
  BY <1>1, Zenon DEF Entry
<1>3. SetPhase(w, t, phase) = WithEntry(w, t, e)
  BY Zenon DEF SetPhase, WithEntry
<1>4. /\ Moves(w, WithEntry(w, t, e), t)
      /\ WithEntry(w, t, e).runtime[t] = e
      /\ Hist(WithEntry(w, t, e), t) = Hist(w, t)
  BY <1>2, EntryMoves, Zenon
<1> HIDE DEF e
<1>5. QED
  BY <1>2, <1>3, <1>4, Zenon

\* A hydration is the only request tied to an entry, a page and a queue have one of the other
\* kind beside them at most.
LEMMA HydrationAlone ==
    ASSUME NEW e, NEW R \in SUBSET Request, HistoryOK(e, R), NEW r \in R, r.kind \in {"resume", "page"},
           \A s \in R : s.kind \in HistoryKinds \cup {"queue"}
    PROVE  R = {r}
<1>1. r.kind \in HistoryKinds /\ \A s \in R : s.kind \in HistoryKinds \/ s.kind = "queue"
  BY Zenon DEF HistoryKinds
<1>2. \A s \in R : s = r
  BY <1>1, Zenon DEF HistoryOK
<1>3. QED
  BY <1>2, Zenon
LEMMA PageAlone ==
    ASSUME NEW e, NEW R \in SUBSET Request, HistoryOK(e, R), NEW r \in R, r.kind \in {"first", "more"},
           \A s \in R : s.kind \in HistoryKinds \cup {"queue"}
    PROVE  /\ \A s \in R \ {r} : s.kind = "queue"
           /\ e.phase \in {"hydrating", "none", "cold", "failed"} => R \ {r} = {}
<1>1. r.kind \in HistoryKinds /\ \A s \in R : s.kind \in HistoryKinds \/ s.kind = "queue"
  BY Zenon DEF HistoryKinds
<1>2. \A s \in R \ {r} : s.kind = "queue"
  BY <1>1, Zenon DEF HistoryOK
<1>3. \A s \in R : s.kind = "queue" => e.phase = "resuming"
  BY Zenon DEF HistoryOK
<1>4. e.phase \in {"hydrating", "none", "cold", "failed"} => R \ {r} = {}
  BY <1>2, <1>3, Zenon
<1>5. QED
  BY <1>2, <1>4, Zenon
LEMMA QueueAlone ==
    ASSUME NEW e, NEW R \in SUBSET Request, HistoryOK(e, R), NEW r \in R, r.kind = "queue",
           \A s \in R : s.kind \in HistoryKinds \cup {"queue"}
    PROVE  /\ e.phase = "resuming"
           /\ \A s \in R \ {r} : s.kind \in {"first", "more"}
           /\ \A s, x \in R \ {r} : s = x
<1>1. \A s \in R \ {r} : s.kind \notin {"resume", "page", "queue"}
  BY Zenon DEF HistoryOK
<1>2. \A s \in R \ {r} : s.kind \in {"first", "more"}
  BY <1>1, Zenon DEF HistoryKinds
<1>3. \A s \in R \ {r} : s.kind \in HistoryKinds
  BY <1>2, Zenon DEF HistoryKinds
<1>4. \A s, x \in R \ {r} : s = x
  BY <1>3, Zenon DEF HistoryOK
<1>5. e.phase = "resuming"
  BY Zenon DEF HistoryOK
<1>6. QED
  BY <1>2, <1>4, <1>5, Zenon

\* The answer to the turn of a prompt that is not on its way any more.
LEMMA TurnDone ==
    ASSUME NEW w \in Works, NEW r \in w.requests, r.kind = "turn", w.prompt[r.prompt].state # "inFlight",
           NEW st, NEW rv, Sound(w, st, rv)
    PROVE  /\ Sound(Without(w, r), st, rv)
           /\ Without(w, r).prompt = w.prompt /\ Without(w, r).runtime = w.runtime
           /\ Without(w, r).online = w.online /\ Without(w, r).control = w.control
           /\ \A u \in Thread : Served(w, u) => Served(Without(w, r), u)
           /\ \A cr : DraftOK(w, cr) => DraftOK(Without(w, r), cr)
<1> DEFINE v == Without(w, r)
<1>1. /\ v \in Works /\ v.prompt = w.prompt /\ v.runtime = w.runtime
      /\ v.online = w.online /\ v.control = w.control /\ v.requests = w.requests \ {r}
  BY SMT DEF Without, Works
<1> HIDE DEF v
<1>2. r.kind \notin HistoryKinds \cup {"queue"} /\ r.kind \notin RevertKinds
  BY Zenon DEF RevertKinds, HistoryKinds
<1>3. \A u \in Thread : Hist(v, u) = Hist(w, u) /\ Reverts(v, u) = Reverts(w, u)
  BY <1>1, <1>2, SMT DEF Hist, Reverts
<1>4. \A u \in Thread : Turns(v, u) = Turns(w, u) \ {r}
  BY <1>1, SMT DEF Turns
<1>5. \A p \in Prompt : PromptOK(v, p)
  BY <1>1, <1>4, Zenon DEF Sound, PromptOK
<1>6. ASSUME NEW u \in Thread PROVE ThreadOK(v, u, st[u], rv[u])
  <2>1. ThreadOK(w, u, st[u], rv[u])
    BY Zenon DEF Sound
  <2>2. \A x \in Turns(v, u) : TurnOK(v, x)
    BY <1>1, <1>4, <2>1, Zenon DEF ThreadOK, TurnOK
  <2>3. RevertOK(v, u, st[u], rv[u])
    BY <1>1, <1>3, <2>1, Zenon DEF ThreadOK, RevertOK, Settled
  <2>4. QED
    BY <1>1, <1>3, <2>1, <2>2, <2>3, Zenon DEF ThreadOK, ReadyIsKnown
<1>7. \A u, x : InState(v, u, x) = InState(w, u, x)
  BY <1>1, Zenon DEF InState
<1>8. QED
  BY <1>1, <1>5, <1>6, <1>7, Zenon DEF Sound, Served, DraftOK, CanSubmit, v

\* An answer nobody waits for: the page of a failed hydration ends what is in flight.
LEMMA IgnoredStep ==
    ASSUME BInv, NEW r \in requests, Ignored(r)
    PROVE  BInv' /\ InOrder(prompt, prompt')
<1> DEFINE t == r.thread
           w == Without(Work, r)
           R == Hist(Work, t)
<1>1. /\ Work \in Works /\ Sound(Work, status, revert) /\ OthersOK /\ r \in Work.requests
      /\ \A u \in Thread : Served(Work, u)
      /\ DraftOK(Work, creating)
      /\ \A u \in Thread : HistoryOK(Work.runtime[u], Hist(Work, u))
  BY BInvWork, WorkFields, Zenon
<1>2. r \in Request /\ t \in Thread /\ r.kind \in Kinds
  BY <1>1, Zenon DEF Works, Request
<1>3. /\ ~Accepted(r) /\ r.kind \notin RevertKinds
      /\ Become(IF r.kind \in {"first", "more"} /\ r.tied THEN PageOver(w, t) ELSE w)
      /\ UNCHANGED <<creating, selected, draft, status, stale, more, revert, online, control>>
  BY Zenon DEF Ignored, Done, Without, RevertKinds, place, model, link
<1>4. OthersOK'
  BY <1>1, <1>3, Zenon DEF OthersOK
<1>5. Work.runtime[t] = runtime[t] /\ R \in SUBSET Request /\ \A s \in R : s.kind \in HistoryKinds \cup {"queue"}
  BY <1>1, <1>2, HistTypes, WorkFields, Zenon
<1>6. CASE r.kind = "turn"
  <2>1. Work.prompt[r.prompt].state # "inFlight"
    BY <1>3, <1>6, WorkFields, Zenon DEF Accepted, HistoryKinds
  <2>2. Become(w)
    BY <1>3, <1>6, Zenon
  <2>3. /\ Sound(w, status, revert) /\ w.prompt = Work.prompt
        /\ w.online = Work.online /\ w.control = Work.control
        /\ \A u \in Thread : Served(w, u)
        /\ DraftOK(w, creating)
    BY <1>1, <1>6, <2>1, TurnDone, Zenon
  <2> HIDE DEF w
  <2>4. /\ Sound(w, status', revert') /\ DraftOK(w, creating') /\ Calm(prompt, w.prompt)
        /\ w.online = online' /\ w.control = control'
    BY <1>3, <2>3, WorkFields, SameIsCalm, Zenon
  <2>5. QED
    BY <1>4, <2>2, <2>3, <2>4, CalmDone, Zenon
<1>7. CASE r.kind # "turn"
  <2>1. r.kind \in HistoryKinds \cup {"queue"}
    BY <1>2, <1>3, <1>7, Zenon DEF Kinds
  <2>2. Moves(Work, w, t) /\ w.runtime = Work.runtime /\ Hist(w, t) = R \ {r}
    BY <1>1, <2>1, DoneMoves, Zenon
  <2> HIDE DEF w
  <2>3. w \in Works
    BY <2>2, Zenon DEF Moves
  <2>4. CASE ~r.tied
    <3>1. R \ {r} = R
      BY <2>4, Zenon DEF Hist
    <3>2. Steady(Work, w, t)
      BY <1>1, <1>2, <2>2, <3>1, Zenon DEF Steady
    <3>3. Become(w)
      BY <1>3, <2>4, Zenon
    <3>4. QED
      BY <1>2, <1>3, <1>4, <3>2, <3>3, SteadyDone, Zenon
  <2>5. CASE r.tied
    <3> DEFINE v == PageOver(w, t)
    <3>1. r \in R /\ HistoryOK(runtime[t], R)
      BY <1>1, <1>2, <1>5, <2>1, <2>5, Zenon DEF Hist
    <3>2. r.kind \notin {"resume", "page", "queue"}
      <4>1. r.kind = "resume" => runtime[t].phase = r.phase
        BY <3>1, Zenon DEF HistoryOK
      <4>2. r.kind = "page" => runtime[t].phase = "hydrating"
        BY <3>1, Zenon DEF HistoryOK
      <4>3. r.kind = "queue" => runtime[t].phase = "resuming"
        BY <3>1, Zenon DEF HistoryOK
      <4>4. QED
        BY <1>2, <1>3, <2>5, <4>1, <4>2, <4>3, Zenon DEF Accepted
    <3>3. r.kind \in {"first", "more"}
      BY <2>1, <3>2, Zenon DEF HistoryKinds
    <3>4. runtime[t].phase = "failed"
      BY <1>2, <1>3, <2>5, <3>3, Zenon DEF Accepted
    <3>5. R \ {r} = {}
      <4>1. runtime[t].phase \in {"hydrating", "none", "cold", "failed"} => R \ {r} = {}
        BY <1>5, <3>1, <3>3, PageAlone
      <4>2. QED
        BY <3>4, <4>1, Zenon
    <3>6. /\ Moves(w, v, t) /\ v.runtime[t] \in Entry /\ ~v.runtime[t].page
          /\ v.runtime[t].phase = w.runtime[t].phase /\ Hist(v, t) = {}
      BY <1>2, <2>2, <2>3, <3>5, PageOverMoves, Zenon
    <3>7. Become(v)
      BY <1>3, <2>5, <3>3, Zenon
    <3> HIDE DEF v
    <3>8. v.runtime[t].phase = "failed"
      BY <1>5, <2>2, <3>4, <3>6, Zenon
    <3>9. HistoryOK(v.runtime[t], {})
      BY <3>6, <3>8, QuietHistory
    <3>10. Steady(Work, v, t)
      BY <1>2, <1>5, <2>2, <3>4, <3>6, <3>8, <3>9, MovesOn, Zenon DEF Steady, Waits
    <3>11. QED
      BY <1>2, <1>3, <1>4, <3>7, <3>10, SteadyDone, Zenon
  <2>6. QED
    BY <2>4, <2>5, Zenon
<1>8. QED
  BY <1>6, <1>7, Zenon

\* The turns that a removal is about are gone: its request stays and its answer is not heeded.
LEMMA LoseTargetMoves ==
    ASSUME NEW w \in Works, NEW t \in Thread
    PROVE  /\ Moves(w, LoseTarget(w, t), t)
           /\ LoseTarget(w, t).runtime = w.runtime
           /\ Hist(LoseTarget(w, t), t) = Hist(w, t)
<1> DEFINE v == LoseTarget(w, t)
           lost(r) == r.thread = t /\ r.kind \in {"revert", "revert resume"}
           image(r) == IF lost(r) THEN [r EXCEPT !.tied = FALSE] ELSE r
<1>1. /\ v.prompt = w.prompt /\ v.online = w.online /\ v.control = w.control
      /\ v.runtime = w.runtime
      /\ v.requests = {image(r) : r \in w.requests}
  BY SMT DEF LoseTarget, Works
<1>2. \A r \in w.requests :
        /\ image(r) \in Request
        /\ image(r).kind = r.kind /\ image(r).thread = r.thread
        /\ ~lost(r) => image(r) = r
  <2>1. TAKE r \in w.requests
  <2>2. r \in Request
    BY SMT DEF Works
  <2>3. CASE lost(r)
    <3>1. image(r) = [r EXCEPT !.tied = FALSE]
      BY <2>3, Zenon
    <3>2. QED
      BY <2>2, <2>3, <3>1, UntiedRequest, Zenon
  <2>4. CASE ~lost(r)
    <3>1. image(r) = r
      BY <2>4, Zenon
    <3>2. QED
      BY <2>2, <2>4, <3>1, Zenon
  <2>5. QED
    BY <2>3, <2>4, Zenon
<1> HIDE DEF lost, image
<1>3. v \in Works
  <2>1. v.requests \subseteq Request
    BY <1>1, <1>2, Zenon
  <2>2. v = [w EXCEPT !.requests = v.requests]
    BY <1>1, Zenon DEF LoseTarget, Works
  <2>3. QED
    BY <2>1, <2>2, Zenon DEF Works
<1> HIDE DEF v
<1>4. \A x \in v.requests : ~lost(x) => x \in w.requests
  <2>1. TAKE x \in v.requests
  <2>2. PICK r \in w.requests : x = image(r)
    BY <1>1, Zenon
  <2>3. lost(x) <=> lost(r)
    BY <1>2, <2>2, Zenon DEF lost
  <2>4. QED
    BY <1>2, <2>2, <2>3, Zenon
<1>5. \A x \in w.requests : ~lost(x) => x \in v.requests
  BY <1>1, <1>2, Zenon
<1>6. \A u \in Thread : Hist(v, u) = Hist(w, u)
  <2>1. \A x : x.kind \in HistoryKinds \cup {"queue"} => ~lost(x)
    BY Zenon DEF lost, HistoryKinds
  <2>2. QED
    BY <1>4, <1>5, <2>1, Zenon DEF Hist
<1>7. \A u \in Thread : Turns(v, u) = Turns(w, u)
  BY <1>4, <1>5, Zenon DEF Turns, lost
<1>8. \A u \in Thread : u # t => Reverts(v, u) = Reverts(w, u)
  BY <1>4, <1>5, Zenon DEF Reverts, lost
<1>9. RevertsKept(w, v, t)
  <2>1. \A r \in Reverts(w, t) : image(r) \in Reverts(v, t)
    BY <1>1, <1>2, Zenon DEF Reverts
  <2>2. \A x \in Reverts(v, t) : \E r \in Reverts(w, t) : x = image(r)
    BY <1>1, <1>2, Zenon DEF Reverts
  <2>3. QED
    BY <2>1, <2>2, Zenon DEF RevertsKept
<1>10. QED
  BY <1>1, <1>3, <1>6, <1>7, <1>8, <1>9, Zenon DEF Moves, SameAt, v

\* The rest of hydrateThread(): the thread is ready, and is resumed or its queue is served.
LEMMA FinishHydrationDispatch ==
    ASSUME NEW w \in Works, NEW t \in Thread, NEW r, r.thread = t, NEW resumed \in BOOLEAN,
           NEW st \in Statuses, st # "absent", ~w.runtime[t].page, Hist(w, t) = {}
    PROVE  /\ Moves(w, SetPhase(w, t, "ready"), t)
           /\ HistoryOK(SetPhase(w, t, "ready").runtime[t], Hist(SetPhase(w, t, "ready"), t))
           /\ SetPhase(w, t, "ready").runtime[t].phase = "ready"
           /\ DispatchStep(SetPhase(w, t, "ready"), FinishHydration(w, r, resumed, st), {t})
<1> DEFINE m == SetPhase(w, t, "ready")
<1>1. "ready" \in Phases
  BY Zenon DEF Phases
<1>2. /\ Moves(w, m, t) /\ m.runtime[t] \in Entry /\ ~m.runtime[t].page
      /\ m.runtime[t].phase = "ready" /\ Hist(m, t) = {}
  <2>1. /\ Moves(w, m, t) /\ m.runtime[t] \in Entry
        /\ m.runtime[t].page = w.runtime[t].page
        /\ m.runtime[t].phase = "ready"
        /\ Hist(m, t) = Hist(w, t)
    BY <1>1, SetPhaseMoves
  <2>2. QED
    BY <2>1, Zenon
<1>3. HistoryOK(m.runtime[t], Hist(m, t))
  <2>1. HistoryOK(m.runtime[t], {})
    BY <1>2, QuietHistory
  <2>2. QED
    BY <1>2, <2>1, Zenon
<1>4. m \in Works /\ (m.control <=> w.control)
  BY <1>2, Zenon DEF Moves
<1> DEFINE again == (r.interactive \/ selected = t) /\ w.control /\ ~r.attempted
           h == HydrateThread(m, t, TRUE, FALSE)
           d == DispatchNext(m, t, resumed, st)
<1>5. FinishHydration(w, r, resumed, st) = IF again THEN h ELSE d
  BY Zenon DEF FinishHydration
<1> HIDE DEF m
<1>6. CASE again
  <2>1. Hydrated(m, h, t, TRUE)
    BY <1>3, <1>4, HydrateThreadMoves, Zenon
  <2>2. h.runtime[t].phase \in Waits
    BY <1>2, <1>4, <1>6, <2>1, Zenon DEF Hydrated
  <2> HIDE DEF h
  <2>3. Served(h, t)
    BY <2>2, Zenon DEF Served
  <2>4. DispatchStep(m, h, {t})
    BY <1>4, <2>1, <2>3, MovesDispatch, Zenon DEF Hydrated
  <2>5. QED
    BY <1>2, <1>3, <1>5, <1>6, <2>4, Zenon DEF m
<1>7. CASE ~again
  <2>1. ReadyIsKnown(m, t, st)
    BY Zenon DEF ReadyIsKnown
  <2>2. DispatchStep(m, d, {t})
    BY <1>3, <1>4, <2>1, DispatchNextStep, Zenon
  <2>3. QED
    BY <1>2, <1>3, <1>5, <1>7, <2>2, Zenon DEF m
<1>8. QED
  BY <1>6, <1>7, Zenon

\* What an answer does to its thread leaves the rest of the session as it was.
LEMMA AnsweredSound ==
    ASSUME BInv, NEW v, NEW t \in Thread, NEW st2, Moves(Work, v, t), HistoryOK(v.runtime[t], Hist(v, t)),
           ReadyIsKnown(v, t, st2[t]), status[t] # "absent" => st2[t] # "absent",
           \A u \in Thread : u # t => st2[u] = status[u],
           v.runtime[t].phase = "none" => runtime[t].phase = "none"
    PROVE  /\ Sound(v, st2, revert) /\ v \in Works /\ v.prompt = prompt
           /\ v.online = online /\ v.control = control
           /\ \A u \in Thread \ {t} : Served(v, u)
           /\ DraftOK(v, creating) /\ Calm(prompt, v.prompt)
<1>1. /\ Sound(Work, status, revert) /\ DraftOK(Work, creating)
      /\ \A u \in Thread : Served(Work, u)
  BY BInvWork, Zenon
<1>2. v.runtime[t].phase = "none" => Work.runtime[t].phase = "none" \/ InState(Work, t, "inFlight") = {}
  BY WorkFields, Zenon
<1>3. Sound(v, st2, revert)
  BY <1>1, <1>2, MovesSound, Zenon
<1>4. v \in Works /\ v.prompt = prompt /\ v.online = online /\ v.control = control
  BY WorkFields, Zenon DEF Moves
<1>5. (\A u \in Thread \ {t} : Served(v, u)) /\ DraftOK(v, creating)
  BY <1>1, MovesServes, Zenon
<1>6. Calm(prompt, v.prompt)
  BY <1>4, SameIsCalm, Zenon
<1>7. QED
  BY <1>3, <1>4, <1>5, <1>6, Zenon

\* An answer without a dispatch, one with a dispatch, and one that fails the thread's queue.
LEMMA AnsweredDone ==
    ASSUME BInv, OthersOK', NEW v, NEW t \in Thread, Moves(Work, v, t), HistoryOK(v.runtime[t], Hist(v, t)),
           ReadyIsKnown(v, t, status'[t]), status[t] # "absent" => status'[t] # "absent",
           \A u \in Thread : u # t => status'[u] = status[u],
           v.runtime[t].phase = "none" => runtime[t].phase = "none",
           Served(v, t), Become(v), UNCHANGED <<creating, revert, online, control>>
    PROVE  BInv' /\ InOrder(prompt, prompt')
<1>1. PICK st2 : st2 = status'
  OBVIOUS
<1>2. /\ Sound(v, st2, revert)
      /\ v.online = online /\ v.control = control
      /\ \A u \in Thread \ {t} : Served(v, u)
      /\ DraftOK(v, creating) /\ Calm(prompt, v.prompt)
  BY <1>1, AnsweredSound, Zenon
<1>3. ASSUME NEW u \in Thread PROVE Served(v, u)
  <2>1. CASE u = t
    BY <2>1
  <2>2. CASE u # t
    BY <1>2, <2>2, Zenon
  <2>3. QED
    BY <2>1, <2>2, Zenon
<1>4. /\ Sound(v, status', revert') /\ DraftOK(v, creating')
      /\ v.online = online' /\ v.control = control'
  BY <1>1, <1>2, Zenon
<1>5. QED
  BY <1>2, <1>3, <1>4, CalmDone, Zenon
LEMMA DispatchAnswered ==
    ASSUME BInv, OthersOK', NEW m, NEW v, NEW t \in Thread, Moves(Work, m, t), HistoryOK(m.runtime[t], Hist(m, t)),
           m.runtime[t].phase # "none", status'[t] # "absent",
           \A u \in Thread : u # t => status'[u] = status[u],
           DispatchStep(m, v, {t}), Become(v), UNCHANGED <<creating, revert, online, control>>
    PROVE  BInv' /\ InOrder(prompt, prompt')
<1>1. PICK st2 : st2 = status'
  OBVIOUS
<1>2. ReadyIsKnown(m, t, st2[t])
  BY <1>1, Zenon DEF ReadyIsKnown
<1>3. /\ Sound(m, st2, revert)
      /\ m.online = online /\ m.control = control
      /\ \A u \in Thread \ {t} : Served(m, u)
      /\ DraftOK(m, creating) /\ Calm(prompt, m.prompt)
  BY <1>1, <1>2, AnsweredSound, Zenon
<1>4. /\ Sound(m, status', revert') /\ DraftOK(m, creating') /\ m.online = online' /\ m.control = control'
      /\ {t} \in SUBSET Thread
  BY <1>1, <1>3, Zenon
<1>5. QED
  BY <1>3, <1>4, DispatchDone, Zenon
LEMMA FailedAnswer ==
    ASSUME BInv, OthersOK', NEW m, NEW t \in Thread, Moves(Work, m, t), HistoryOK(m.runtime[t], Hist(m, t)),
           m.runtime[t].phase = "failed", status[t] # "absent" => status'[t] # "absent",
           \A u \in Thread : u # t => status'[u] = status[u],
           Become(FailQueued(m, t)), UNCHANGED <<creating, revert, online, control>>
    PROVE  BInv' /\ InOrder(prompt, prompt')
<1> DEFINE v == FailStates(m, t, {"queued"})
<1>1. PICK st2 : st2 = status'
  OBVIOUS
<1>2. ReadyIsKnown(m, t, st2[t]) /\ Served(m, t)
  BY Zenon DEF ReadyIsKnown, Served, Waits
<1>3. /\ Sound(m, st2, revert) /\ m \in Works
      /\ m.online = online /\ m.control = control
      /\ \A u \in Thread \ {t} : Served(m, u)
      /\ DraftOK(m, creating) /\ Calm(prompt, m.prompt)
  BY <1>1, <1>2, AnsweredSound, Zenon
<1>4. /\ Fails(m, v)
      /\ \A u \in Thread : Served(m, u) => Served(v, u)
      /\ \A cr : DraftOK(m, cr) => DraftOK(v, cr)
  BY <1>3, FailStatesFails
<1>5. Become(v)
  BY Zenon DEF FailQueued
<1> HIDE DEF v
<1>6. Sound(v, st2, revert) /\ Calm(prompt, v.prompt)
  BY <1>3, <1>4, FailsSound, Zenon
<1>7. /\ Sound(v, status', revert') /\ DraftOK(v, creating') /\ v.online = online' /\ v.control = control'
      /\ \A u \in Thread : Served(v, u)
  BY <1>1, <1>2, <1>3, <1>4, <1>6, Zenon DEF Fails
<1>8. QED
  BY <1>5, <1>6, <1>7, CalmDone, Zenon

\* What is known of an answer that the runtime entry of its thread waits for.
LEMMA TiedAnswer ==
    ASSUME BInv, NEW r \in requests, r.kind \in HistoryKinds \cup {"queue"}, r.tied
    PROVE  /\ r \in Request /\ r.thread \in Thread /\ r \in Hist(Work, r.thread)
           /\ HistoryOK(runtime[r.thread], Hist(Work, r.thread))
           /\ runtime[r.thread] \in Entry
           /\ Hist(Work, r.thread) \in SUBSET Request
           /\ \A s \in Hist(Work, r.thread) : s.kind \in HistoryKinds \cup {"queue"}
           /\ Done(r) = Without(Work, r)
           /\ Moves(Work, Without(Work, r), r.thread)
           /\ Without(Work, r) \in Works
           /\ Without(Work, r).runtime = runtime
           /\ Hist(Without(Work, r), r.thread) = Hist(Work, r.thread) \ {r}
<1>1. Work \in Works /\ r \in Work.requests /\ Work.runtime = runtime
  BY BInvWork, WorkFields, Zenon
<1>2. r \in Request /\ r.thread \in Thread
  BY <1>1, Zenon DEF Works, Request
<1>3. r \in Hist(Work, r.thread)
  BY <1>1, Zenon DEF Hist
<1>4. HistoryOK(runtime[r.thread], Hist(Work, r.thread))
  BY <1>1, <1>2, BInvWork, Zenon
<1>5. /\ runtime[r.thread] \in Entry /\ Hist(Work, r.thread) \in SUBSET Request
      /\ \A s \in Hist(Work, r.thread) : s.kind \in HistoryKinds \cup {"queue"}
  BY <1>1, <1>2, HistTypes, Zenon
<1>6. /\ Moves(Work, Without(Work, r), r.thread)
      /\ Without(Work, r).runtime = Work.runtime
      /\ Hist(Without(Work, r), r.thread) = Hist(Work, r.thread) \ {r}
  BY <1>1, DoneMoves, Zenon
<1>7. Without(Work, r) \in Works
  BY <1>6, Zenon DEF Moves
<1>8. Done(r) = Without(Work, r)
  BY Zenon DEF Done, Without
<1>9. QED
  BY <1>1, <1>2, <1>3, <1>4, <1>5, <1>6, <1>7, <1>8, Zenon

\* thread/resume: the page of the hydration is asked for, or the thread is ready.
LEMMA ResumedStep ==
    ASSUME BInv, NEW r \in requests, NEW out \in Outcomes, NEW st \in Loaded \cup {"notLoaded"},
           Resumed(r, out, st)
    PROVE  BInv' /\ InOrder(prompt, prompt')
<1> DEFINE t == r.thread
           now == IF out = "ok" THEN st ELSE status[t]
           w == Without(Work, r)
           q == [r EXCEPT !.kind = "page", !.attempted = TRUE, !.resumed = out = "ok"]
           a == [r EXCEPT !.attempted = TRUE]
<1>1. /\ r.kind = "resume" /\ Accepted(r)
      /\ status' = [status EXCEPT ![t] = now]
      /\ UNCHANGED <<creating, selected, draft, stale, more, revert, online, control>>
      /\ Become(IF r.phase = "hydrating" THEN Send(Done(r), q) ELSE FinishHydration(Done(r), a, out = "ok", now))
  BY Zenon DEF Resumed, place, link
<1>2. r.tied /\ r.kind \in HistoryKinds \cup {"queue"}
  BY <1>1, Zenon DEF Accepted, HistoryKinds
<1>3. /\ r \in Request /\ t \in Thread /\ r \in Hist(Work, t)
      /\ HistoryOK(runtime[t], Hist(Work, t)) /\ runtime[t] \in Entry
      /\ Hist(Work, t) \in SUBSET Request
      /\ \A s \in Hist(Work, t) : s.kind \in HistoryKinds \cup {"queue"}
      /\ Done(r) = w /\ Moves(Work, w, t) /\ w \in Works /\ w.runtime = runtime
      /\ Hist(w, t) = Hist(Work, t) \ {r}
  BY <1>2, TiedAnswer
<1> HIDE DEF w
<1>4. Hist(Work, t) = {r}
  BY <1>1, <1>3, HydrationAlone, Zenon
<1>5. /\ r.phase = runtime[t].phase /\ r.phase \in {"hydrating", "resuming"}
      /\ runtime[t].page <=> r.phase = "hydrating"
  BY <1>1, <1>3, Zenon DEF HistoryOK
<1>6. Hist(w, t) = {}
  BY <1>3, <1>4, Zenon
<1>7. OthersOK /\ Sound(Work, status, revert) /\ Work.runtime = runtime
  BY BInvWork, WorkFields, Zenon
<1>8. /\ st \in Statuses \ {"absent"} /\ now \in Statuses
      /\ status[t] # "absent" => now # "absent"
  BY <1>3, <1>7, Zenon DEF OthersOK, Statuses, Loaded
<1> HIDE DEF now
<1>9. /\ status' \in [Thread -> Statuses] /\ status'[t] = now
      /\ \A u \in Thread : u # t => status'[u] = status[u]
  BY <1>1, <1>3, <1>7, <1>8, Zenon DEF OthersOK
<1>10. OthersOK'
  BY <1>1, <1>7, <1>9, Zenon DEF OthersOK
<1>11. status[t] # "absent" => status'[t] # "absent"
  BY <1>8, <1>9, Zenon
<1>12. CASE r.phase = "hydrating"
  <2> DEFINE v == Send(w, q)
  <2>1. Become(v)
    BY <1>1, <1>3, <1>12, Zenon
  <2>2. q \in Request /\ q.thread = t /\ q.kind = "page" /\ q.tied
    <3>1. "page" \in Kinds /\ TRUE \in BOOLEAN /\ (out = "ok") \in BOOLEAN
      BY Zenon DEF Kinds, HistoryKinds
    <3>2. q \in Request
      BY <1>3, <3>1, Zenon DEF Request
    <3>3. q.thread = t /\ q.kind = "page" /\ q.tied = r.tied
      BY <1>3, Zenon DEF Request
    <3>4. QED
      BY <1>2, <3>2, <3>3, Zenon
  <2> HIDE DEF q
  <2>3. q.kind \in HistoryKinds \cup {"queue"}
    BY <2>2, Zenon DEF HistoryKinds
  <2>4. Moves(w, v, t) /\ v.runtime = w.runtime /\ Hist(v, t) = Hist(w, t) \cup {q}
    BY <1>3, <2>2, <2>3, SendMoves
  <2> HIDE DEF v
  <2>5. Hist(v, t) = {q} /\ v.runtime = runtime
    BY <1>3, <1>6, <2>4, Zenon
  <2>6. HistoryOK(runtime[t], {q})
    BY <1>3, <1>5, <1>12, <2>2, StartedHistory
  <2>7. HistoryOK(v.runtime[t], Hist(v, t)) /\ Moves(Work, v, t)
    BY <1>3, <2>4, <2>5, <2>6, MovesOn, Zenon
  <2>8. v.runtime[t].phase = "hydrating"
    BY <1>5, <1>12, <2>5, Zenon
  <2>9. ReadyIsKnown(v, t, status'[t]) /\ Served(v, t) /\ v.runtime[t].phase # "none"
    BY <2>8, Zenon DEF ReadyIsKnown, Served, Waits
  <2>10. QED
    BY <1>1, <1>3, <1>9, <1>10, <1>11, <2>1, <2>7, <2>9, AnsweredDone, Zenon
<1>13. CASE r.phase # "hydrating"
  <2> DEFINE m == SetPhase(w, t, "ready")
             v == FinishHydration(w, a, out = "ok", now)
  <2>1. Become(v)
    BY <1>1, <1>3, <1>13, Zenon
  <2>2. a.thread = t /\ (out = "ok") \in BOOLEAN
    BY <1>3, Zenon DEF Request
  <2>3. now # "absent"
    <3>1. status[t] # "absent"
      BY <1>3, <1>5, <1>7, <1>13, Zenon DEF Sound, ThreadOK, ReadyIsKnown
    <3>2. QED
      BY <1>8, <3>1, Zenon
  <2>4. ~w.runtime[t].page
    BY <1>3, <1>5, <1>13, Zenon
  <2>5. /\ Moves(w, m, t) /\ HistoryOK(m.runtime[t], Hist(m, t))
        /\ m.runtime[t].phase = "ready" /\ DispatchStep(m, v, {t})
    BY <1>3, <1>6, <1>8, <2>2, <2>3, <2>4, FinishHydrationDispatch, Zenon
  <2> HIDE DEF m, v
  <2>6. Moves(Work, m, t) /\ m.runtime[t].phase # "none" /\ status'[t] # "absent"
    BY <1>3, <1>9, <2>3, <2>5, MovesOn, Zenon
  <2>7. QED
    BY <1>1, <1>3, <1>9, <1>10, <2>1, <2>5, <2>6, DispatchAnswered, Zenon
<1>14. QED
  BY <1>12, <1>13, Zenon

\* A merged page makes its thread known, and keeps what else is known.
LEMMA Merged ==
    ASSUME BInv, NEW t \in Thread, NEW complete \in BOOLEAN, NEW older \in BOOLEAN, NEW drops,
           Merge(t, complete, older, drops),
           UNCHANGED <<creating, selected, draft, revert, online, control>>
    PROVE  /\ OthersOK' /\ status'[t] # "absent" /\ status'[t] \in Statuses
           /\ stale'[t] \in BOOLEAN
           /\ \A u \in Thread : u # t => status'[u] = status[u]
<1>1. OthersOK
  BY BInvWork, Zenon
<1>2. /\ status' = [status EXCEPT ![t] = IF status[t] = "absent" THEN "idle" ELSE status[t]]
      /\ stale' = [stale EXCEPT ![t] = stale[t] /\ ~complete]
      /\ more' = [more EXCEPT ![t] = older]
  BY DEF Merge
<1>3. /\ status' \in [Thread -> Statuses] /\ status'[t] # "absent"
      /\ \A u \in Thread : u # t => status'[u] = status[u]
  BY <1>1, <1>2, Zenon DEF OthersOK, Statuses
<1>4. stale' \in [Thread -> BOOLEAN] /\ more' \in [Thread -> BOOLEAN]
  BY <1>1, <1>2, Zenon DEF OthersOK
<1>5. OthersOK'
  BY <1>1, <1>3, <1>4, Zenon DEF OthersOK
<1>6. QED
  BY <1>3, <1>4, <1>5, Zenon

\* The turns a page lacks are dropped, or none.
LEMMA DroppingMoves ==
    ASSUME NEW w \in Works, NEW t \in Thread, NEW drops
    PROVE  /\ Moves(w, Dropping(w, t, drops), t)
           /\ Dropping(w, t, drops).runtime = w.runtime
           /\ Hist(Dropping(w, t, drops), t) = Hist(w, t)
<1>1. CASE drops
  BY <1>1, LoseTargetMoves, Zenon DEF Dropping
<1>2. CASE ~drops
  BY <1>2, MovesNothing, Zenon DEF Dropping
<1>3. QED
  BY <1>1, <1>2, Zenon

\* The first page of a hydration: the thread is ready, or its hydration has failed.
LEMMA FirstPageStep ==
    ASSUME BInv, NEW r \in requests, NEW out \in Outcomes, NEW complete \in BOOLEAN,
           NEW older \in BOOLEAN, NEW drops \in BOOLEAN, FirstPage(r, out, complete, older, drops)
    PROVE  BInv' /\ InOrder(prompt, prompt')
<1> DEFINE t == r.thread
           w == Without(Work, r)
           x == Dropping(w, t, drops)
           y == PageOver(x, t)
<1>1. /\ r.kind = "page" /\ Accepted(r)
      /\ UNCHANGED <<creating, selected, draft, revert, online, control>>
  BY Zenon DEF FirstPage, place, link
<1>2. r.tied /\ r.kind \in HistoryKinds \cup {"queue"}
  BY <1>1, Zenon DEF Accepted, HistoryKinds
<1>3. /\ r \in Request /\ t \in Thread /\ r \in Hist(Work, t)
      /\ HistoryOK(runtime[t], Hist(Work, t)) /\ runtime[t] \in Entry
      /\ Hist(Work, t) \in SUBSET Request
      /\ \A s \in Hist(Work, t) : s.kind \in HistoryKinds \cup {"queue"}
      /\ Done(r) = w /\ Moves(Work, w, t) /\ w \in Works /\ w.runtime = runtime
      /\ Hist(w, t) = Hist(Work, t) \ {r}
  BY <1>2, TiedAnswer
<1> HIDE DEF w
<1>4. Hist(Work, t) = {r}
  BY <1>1, <1>3, HydrationAlone, Zenon
<1>5. Hist(w, t) = {}
  BY <1>3, <1>4, Zenon
<1>6. CASE out = "ok"
  <2> DEFINE m == SetPhase(y, t, "ready")
             v == FinishHydration(y, r, r.resumed, status'[t])
  <2>1. Merge(t, complete, older, drops) /\ Become(v)
    BY <1>3, <1>6, Zenon DEF FirstPage
  <2>2. /\ OthersOK' /\ status'[t] # "absent" /\ status'[t] \in Statuses
        /\ \A u \in Thread : u # t => status'[u] = status[u]
    BY <1>1, <1>3, <2>1, Merged
  <2>3. Moves(w, x, t) /\ Hist(x, t) = {}
    BY <1>3, <1>5, DroppingMoves, Zenon
  <2>4. x \in Works
    BY <2>3, Zenon DEF Moves
  <2> HIDE DEF x
  <2>5. Moves(x, y, t) /\ ~y.runtime[t].page /\ Hist(y, t) = {}
    BY <1>3, <2>3, <2>4, PageOverMoves, Zenon
  <2>6. y \in Works
    BY <2>5, Zenon DEF Moves
  <2> HIDE DEF y
  <2>7. PICK st2 : st2 = status'[t]
    OBVIOUS
  <2>8. r.resumed \in BOOLEAN
    BY <1>3, Zenon DEF Request
  <2>9. /\ Moves(y, m, t) /\ HistoryOK(m.runtime[t], Hist(m, t))
        /\ m.runtime[t].phase = "ready" /\ DispatchStep(m, FinishHydration(y, r, r.resumed, st2), {t})
    BY <1>3, <2>2, <2>5, <2>6, <2>7, <2>8, FinishHydrationDispatch, ZenonT(30)
  <2>10. DispatchStep(m, v, {t})
    BY <2>7, <2>9, Zenon
  <2> HIDE DEF m, v
  <2>11. Moves(Work, m, t) /\ m.runtime[t].phase # "none"
    BY <1>3, <2>3, <2>5, <2>9, MovesOn, Zenon
  <2>12. QED
    BY <1>1, <1>3, <2>1, <2>2, <2>9, <2>10, <2>11, DispatchAnswered, Zenon
<1>7. CASE out # "ok"
  <2> DEFINE z == PageOver(w, t)
             m == SetPhase(z, t, "failed")
  <2>1. Become(FailQueued(m, t)) /\ UNCHANGED <<status, stale, more>>
    BY <1>3, <1>7, Zenon DEF FirstPage, PageFailed, model
  <2>2. Moves(w, z, t) /\ z.runtime[t].page = FALSE /\ Hist(z, t) = {}
    BY <1>3, <1>5, PageOverMoves
  <2>3. z \in Works
    BY <2>2, Zenon DEF Moves
  <2> HIDE DEF z
  <2>4. "failed" \in Phases
    BY Zenon DEF Phases
  <2>5. /\ Moves(z, m, t) /\ m.runtime[t] \in Entry /\ m.runtime[t].page = z.runtime[t].page
        /\ m.runtime[t].phase = "failed" /\ Hist(m, t) = Hist(z, t)
    BY <1>3, <2>3, <2>4, SetPhaseMoves
  <2> HIDE DEF m
  <2>6. HistoryOK(m.runtime[t], {})
    BY <2>2, <2>5, QuietHistory
  <2>7. HistoryOK(m.runtime[t], Hist(m, t)) /\ Moves(Work, m, t)
    BY <1>3, <2>2, <2>5, <2>6, MovesOn, Zenon
  <2>8. OthersOK'
    BY <1>1, <2>1, BInvWork, Zenon DEF OthersOK
  <2>9. /\ status[t] # "absent" => status'[t] # "absent"
        /\ \A u \in Thread : u # t => status'[u] = status[u]
    BY <2>1, Zenon
  <2>10. QED
    BY <1>1, <1>3, <2>1, <2>5, <2>7, <2>8, <2>9, FailedAnswer, Zenon
<1>8. QED
  BY <1>6, <1>7, Zenon

\* What is left of a history when its page, or the resume of its queue, was answered.
LEMMA PageOverHistory ==
    ASSUME NEW e \in Entry, NEW R \in SUBSET Request, HistoryOK(e, R), NEW r \in R, r.kind \in {"first", "more"},
           \A s \in R : s.kind \in HistoryKinds \cup {"queue"},
           NEW d \in Entry, d.phase = e.phase, ~d.page
    PROVE  HistoryOK(d, R \ {r}) /\ e.phase \notin {"hydrating", "none", "cold"}
<1>1. \A s \in R \ {r} : s.kind = "queue"
  BY PageAlone
<1>2. r.kind \in HistoryKinds /\ r.kind \notin {"resume", "page", "queue"}
  BY Zenon DEF HistoryKinds
<1>3. e.phase \notin {"hydrating", "none", "cold"}
  BY Zenon DEF HistoryOK
<1>4. \A s \in R \ {r} : s.kind \notin HistoryKinds /\ s.kind \notin {"resume", "page", "first", "more"}
  BY <1>1, Zenon DEF HistoryKinds
<1>5. \A s \in R : s.kind = "queue" => e.phase = "resuming"
  BY Zenon DEF HistoryOK
<1>6. \A s, x \in R \ {r} : s = x
  BY <1>1, Zenon DEF HistoryOK
<1>7. e.phase = "resuming" => \E s \in R \ {r} : s.kind = "queue"
  <2>1. e.phase = "resuming" => \E s \in R : s.kind \in {"resume", "queue"}
    BY Zenon DEF HistoryOK
  <2>2. \A s \in R : s.kind \in {"resume", "queue"} => s # r
    BY <1>2, Zenon
  <2>3. QED
    BY <1>1, <2>1, <2>2, Zenon
<1>8. QED
  BY <1>1, <1>3, <1>4, <1>5, <1>6, <1>7, Zenon DEF HistoryOK
LEMMA QueueOverHistory ==
    ASSUME NEW e \in Entry, NEW R \in SUBSET Request, HistoryOK(e, R), NEW r \in R, r.kind = "queue",
           \A s \in R : s.kind \in HistoryKinds \cup {"queue"},
           NEW d \in Entry, d.page = e.page, d.phase \in {"ready", "failed"}
    PROVE  HistoryOK(d, R \ {r})
<1>1. \A s \in R \ {r} : s.kind \in {"first", "more"}
  BY QueueAlone
<1>2. \A s, x \in R \ {r} : s = x
  BY QueueAlone
<1>3. r.kind \notin HistoryKinds
  BY Zenon DEF HistoryKinds
<1>4. e.page => \E s \in R \ {r} : s.kind \in HistoryKinds
  BY <1>3, Zenon DEF HistoryOK
<1>5. \A s \in R \ {r} : e.page
  BY <1>1, Zenon DEF HistoryOK
<1>6. d.phase \notin {"hydrating", "none", "cold", "resuming"}
  BY Zenon
<1>7. \A s \in R \ {r} : s.kind \notin {"resume", "page", "queue"}
  BY <1>1, Zenon
<1>8. QED
  BY <1>2, <1>4, <1>5, <1>6, <1>7, Zenon DEF HistoryOK

\* A page of loadForkHistory() or loadMoreHistory().
LEMMA PageStep ==
    ASSUME BInv, NEW r \in requests, NEW out \in Outcomes, NEW complete \in BOOLEAN,
           NEW older \in BOOLEAN, NEW drops \in BOOLEAN, Page(r, out, complete, older, drops)
    PROVE  BInv' /\ InOrder(prompt, prompt')
<1> DEFINE t == r.thread
           w == Without(Work, r)
           over == PageOver(w, t)
           d == Dropping(over, t, drops)
           l == LoadMore(d, t, older)
<1>1. /\ r.kind \in {"first", "more"} /\ Accepted(r)
      /\ UNCHANGED <<creating, selected, draft, revert, online, control>>
  BY Zenon DEF Page, place, link
<1>2. r.tied /\ r.kind \in HistoryKinds \cup {"queue"}
  BY <1>1, Zenon DEF Accepted, HistoryKinds
<1>3. /\ r \in Request /\ t \in Thread /\ r \in Hist(Work, t)
      /\ HistoryOK(runtime[t], Hist(Work, t)) /\ runtime[t] \in Entry
      /\ Hist(Work, t) \in SUBSET Request
      /\ \A s \in Hist(Work, t) : s.kind \in HistoryKinds \cup {"queue"}
      /\ Done(r) = w /\ Moves(Work, w, t) /\ w \in Works /\ w.runtime = runtime
      /\ Hist(w, t) = Hist(Work, t) \ {r}
  BY <1>2, TiedAnswer
<1>4. \/ /\ out = "ok" /\ Merge(t, complete, older, drops)
         /\ Become(IF stale'[t] THEN l ELSE d)
      \/ UNCHANGED <<status, stale, more>> /\ Become(over)
  BY <1>3, Zenon DEF Page, model
<1> HIDE DEF w
<1>5. /\ Moves(w, over, t)
      /\ over.runtime[t] \in Entry /\ ~over.runtime[t].page
      /\ over.runtime[t].phase = runtime[t].phase
      /\ Hist(over, t) = Hist(Work, t) \ {r}
  BY <1>3, PageOverMoves
<1> HIDE DEF over
<1>6. HistoryOK(over.runtime[t], Hist(over, t)) /\ runtime[t].phase \notin {"hydrating", "none", "cold"}
  <2>1. /\ HistoryOK(over.runtime[t], Hist(Work, t) \ {r})
        /\ runtime[t].phase \notin {"hydrating", "none", "cold"}
    BY <1>1, <1>3, <1>5, PageOverHistory
  <2>2. QED
    BY <1>5, <2>1, Zenon
<1>7. over \in Works /\ Moves(Work, over, t)
  BY <1>3, <1>5, MovesOn, Zenon DEF Moves
<1>8. Moves(over, d, t) /\ d.runtime = over.runtime /\ Hist(d, t) = Hist(over, t)
  BY <1>3, <1>7, DroppingMoves, Zenon
<1>9. d \in Works /\ Moves(Work, d, t) /\ HistoryOK(d.runtime[t], Hist(d, t))
  BY <1>3, <1>6, <1>7, <1>8, MovesOn, Zenon DEF Moves
<1> HIDE DEF d
<1>10. Steady(d, l, t)
  BY <1>3, <1>9, LoadMoreSteady, Zenon
<1> HIDE DEF l
<1>11. Moves(Work, l, t) /\ HistoryOK(l.runtime[t], Hist(l, t))
  BY <1>3, <1>9, <1>10, MovesOn, Zenon DEF Steady
<1>12. PICK v \in {over, d, l} : /\ Become(v)
                                 /\ \/ out = "ok" /\ Merge(t, complete, older, drops)
                                    \/ UNCHANGED <<status, stale, more>> /\ v = over
  BY <1>4, Zenon
<1>13. Moves(Work, v, t) /\ HistoryOK(v.runtime[t], Hist(v, t))
  BY <1>6, <1>7, <1>9, <1>11, <1>12, Zenon
<1>14. /\ v.runtime[t].phase # "none"
       /\ runtime[t].phase \in Waits => v.runtime[t].phase \in Waits
  BY <1>5, <1>6, <1>8, <1>10, <1>12, Zenon DEF Steady
<1>15. Sound(Work, status, revert) /\ Served(Work, t) /\ Work.runtime = runtime
  BY <1>3, BInvWork, WorkFields, Zenon
<1>16. Served(v, t)
  <2>1. Work.runtime[t].phase \in Waits => v.runtime[t].phase \in Waits
    BY <1>14, <1>15, Zenon
  <2>2. Served(Work, t) /\ (Work.runtime[t].phase \in Waits => v.runtime[t].phase \in Waits) => Served(v, t)
    BY <1>3, <1>13, MovesServes
  <2>3. QED
    BY <1>15, <2>1, <2>2, Zenon
<1>17. CASE Merge(t, complete, older, drops)
  <2>1. /\ OthersOK' /\ status'[t] # "absent"
        /\ \A u \in Thread : u # t => status'[u] = status[u]
    BY <1>1, <1>3, <1>17, Merged
  <2>2. ReadyIsKnown(v, t, status'[t])
    BY <2>1, Zenon DEF ReadyIsKnown
  <2>3. QED
    BY <1>1, <1>3, <1>12, <1>13, <1>14, <1>16, <2>1, <2>2, AnsweredDone, Zenon
<1>18. CASE UNCHANGED <<status, stale, more>> /\ v = over
  <2>1. OthersOK'
    BY <1>1, <1>18, BInvWork, Zenon DEF OthersOK
  <2>2. /\ status[t] # "absent" => status'[t] # "absent"
        /\ \A u \in Thread : u # t => status'[u] = status[u]
    BY <1>18, Zenon
  <2>3. ReadyIsKnown(v, t, status'[t])
    BY <1>3, <1>5, <1>15, <1>18, Zenon DEF Sound, ThreadOK, ReadyIsKnown
  <2>4. QED
    BY <1>1, <1>3, <1>12, <1>13, <1>14, <1>16, <2>1, <2>2, <2>3, AnsweredDone, Zenon
<1>19. QED
  BY <1>12, <1>17, <1>18, Zenon

\* thread/resume of a queue: it is served, or it fails.
LEMMA QueueResumedStep ==
    ASSUME BInv, NEW r \in requests, NEW out \in Outcomes, NEW st \in Loaded \cup {"notLoaded"},
           QueueResumed(r, out, st)
    PROVE  BInv' /\ InOrder(prompt, prompt')
<1> DEFINE t == r.thread
           w == Without(Work, r)
           now == IF out = "ok" THEN st ELSE status[t]
           ok == out = "ok" /\ st # "notLoaded"
           phase == IF ok THEN "ready" ELSE "failed"
           m == SetPhase(w, t, phase)
           v == DispatchNext(m, t, FALSE, st)
<1>1. /\ r.kind = "queue" /\ Accepted(r)
      /\ status' = [status EXCEPT ![t] = now]
      /\ UNCHANGED <<creating, selected, draft, stale, more, revert, online, control>>
  BY Zenon DEF QueueResumed, place, link
<1>2. r.tied /\ r.kind \in HistoryKinds \cup {"queue"}
  BY <1>1, Zenon DEF Accepted, HistoryKinds
<1>3. /\ r \in Request /\ t \in Thread /\ r \in Hist(Work, t)
      /\ HistoryOK(runtime[t], Hist(Work, t)) /\ runtime[t] \in Entry
      /\ Hist(Work, t) \in SUBSET Request
      /\ \A s \in Hist(Work, t) : s.kind \in HistoryKinds \cup {"queue"}
      /\ Done(r) = w /\ Moves(Work, w, t) /\ w \in Works /\ w.runtime = runtime
      /\ Hist(w, t) = Hist(Work, t) \ {r}
  BY <1>2, TiedAnswer
<1>4. /\ ok => Become(v)
      /\ ~ok => Become(FailQueued(m, t))
  BY <1>3, Zenon DEF QueueResumed
<1> HIDE DEF w
<1>5. phase \in Phases /\ phase \in {"ready", "failed"}
  BY Zenon DEF Phases
<1>6. /\ Moves(w, m, t) /\ m.runtime[t] \in Entry /\ m.runtime[t].page = runtime[t].page
      /\ m.runtime[t].phase = phase
      /\ Hist(m, t) = Hist(Work, t) \ {r}
  BY <1>3, <1>5, SetPhaseMoves
<1> HIDE DEF m
<1>7. m \in Works /\ Moves(Work, m, t)
  BY <1>3, <1>6, MovesOn, Zenon DEF Moves
<1>8. HistoryOK(m.runtime[t], Hist(m, t))
  BY <1>1, <1>3, <1>5, <1>6, QueueOverHistory
<1>9. OthersOK /\ st \in Statuses \ {"absent"}
  BY BInvWork, Zenon DEF Statuses, Loaded
<1>10. now \in Statuses /\ (status[t] # "absent" => now # "absent") /\ (ok => now = st)
  BY <1>3, <1>9, Zenon DEF OthersOK
<1> HIDE DEF now
<1>11. /\ status' \in [Thread -> Statuses] /\ status'[t] = now
       /\ \A u \in Thread : u # t => status'[u] = status[u]
  BY <1>1, <1>3, <1>9, <1>10, Zenon DEF OthersOK
<1>12. OthersOK'
  BY <1>1, <1>9, <1>11, Zenon DEF OthersOK
<1>13. CASE ok
  <2>1. ReadyIsKnown(m, t, st)
    BY <1>9, Zenon DEF ReadyIsKnown
  <2>2. DispatchStep(m, v, {t})
    BY <1>3, <1>7, <1>8, <1>9, <2>1, DispatchNextStep, Zenon
  <2> HIDE DEF v
  <2>3. status'[t] # "absent" /\ m.runtime[t].phase # "none" /\ Become(v)
    BY <1>4, <1>5, <1>6, <1>9, <1>10, <1>11, <1>13, Zenon
  <2>4. QED
    BY <1>1, <1>3, <1>7, <1>8, <1>11, <1>12, <2>2, <2>3, DispatchAnswered, Zenon
<1>14. CASE ~ok
  <2>1. m.runtime[t].phase = "failed" /\ Become(FailQueued(m, t))
    BY <1>4, <1>6, <1>14, Zenon
  <2>2. status[t] # "absent" => status'[t] # "absent"
    BY <1>10, <1>11, Zenon
  <2>3. QED
    BY <1>1, <1>3, <1>7, <1>8, <1>11, <1>12, <2>1, <2>2, FailedAnswer, Zenon
<1>15. QED
  BY <1>13, <1>14, Zenon

\* The answer to a turn: its prompt is accepted or fails, and the next one goes.
LEMMA TurnAnsweredStep ==
    ASSUME BInv, NEW r \in requests, NEW out \in Outcomes, NEW st \in Loaded, TurnAnswered(r, out, st)
    PROVE  BInv' /\ InOrder(prompt, prompt')
<1> DEFINE t == r.thread
           p0 == r.prompt
           outcome == IF out = "ok" THEN "accepted" ELSE "failed"
           answered == [prompt[p0] EXCEPT !.state = outcome]
           pr == [prompt EXCEPT ![p0] = answered]
           s == [Work EXCEPT !.prompt = pr]
           m == Without(s, r)
<1>1. /\ Work \in Works /\ Sound(Work, status, revert) /\ OthersOK /\ r \in Work.requests
      /\ \A u \in Thread : Served(Work, u)
      /\ DraftOK(Work, creating)
  BY BInvWork, WorkFields, Zenon
<1>2. /\ r.kind = "turn" /\ prompt[p0].state = "inFlight"
      /\ status' = [status EXCEPT ![t] = IF out = "ok" /\ status[t] # "absent" THEN st ELSE status[t]]
      /\ UNCHANGED <<creating, selected, draft, stale, more, revert, online, control>>
  <2>1. r.kind = "turn" /\ Accepted(r)
    BY Zenon DEF TurnAnswered
  <2>2. prompt[p0].state = "inFlight"
    BY <2>1, Zenon DEF Accepted
  <2>3. QED
    BY <2>1, <2>2, Zenon DEF TurnAnswered, place, link
<1>3. r \in Request /\ t \in Thread /\ r \in Turns(Work, t)
  BY <1>1, <1>2, Zenon DEF Works, Request, Turns
<1>4. /\ p0 \in Prompt /\ Work.prompt[p0].thread = t
  BY <1>1, <1>2, <1>3, WorkFields, Zenon DEF Sound, ThreadOK, TurnOK
<1>5. /\ answered \in Submission /\ answered.thread = t /\ answered.sent = prompt[p0].sent
      /\ answered.item = prompt[p0].item /\ answered.state = outcome
  <2>1. prompt[p0] \in Submission
    BY <1>1, <1>4, WorkFields, PromptTypes, Zenon
  <2>2. outcome \in PromptStates
    BY Zenon DEF PromptStates
  <2>3. QED
    BY <1>4, <2>1, <2>2, WorkFields, Zenon DEF Submission
<1>6. outcome \notin {"new", "queued", "inFlight", "gone"}
  BY Zenon
<1> HIDE DEF outcome
<1>7. pr \in [Prompt -> Submission] /\ pr[p0] = answered /\ \A q \in Prompt : q # p0 => pr[q] = prompt[q]
  BY <1>1, <1>4, <1>5, WorkFields, Zenon DEF Works
<1>8. m = TurnSettled(Done(r), r, out)
  <2>1. pr = [prompt EXCEPT ![p0].state = outcome]
    BY Zenon
  <2>2. pr = [prompt EXCEPT ![p0].state = IF out = "ok" THEN "accepted" ELSE "failed"]
    BY <2>1, Zenon DEF outcome
  <2> HIDE DEF pr
  <2>3. s = [prompt |-> pr, runtime |-> runtime, requests |-> requests, online |-> online, control |-> control]
    BY SMT DEF Work
  <2>4. Done(r) = [prompt |-> prompt, runtime |-> runtime, requests |-> requests \ {r},
                   online |-> online, control |-> control]
    BY SMT DEF Done, Work
  <2> HIDE DEF s
  <2>5. m = [prompt |-> pr, runtime |-> runtime, requests |-> requests \ {r}, online |-> online, control |-> control]
    BY <2>3, SMT DEF Without
  <2> HIDE DEF m
  <2>6. Done(r).prompt = prompt
    BY <2>4, SMT
  <2>7. TurnSettled(Done(r), r, out) =
          [Done(r) EXCEPT !.prompt = [Done(r).prompt EXCEPT ![p0].state = IF out = "ok" THEN "accepted" ELSE "failed"]]
    BY Zenon DEF TurnSettled
  <2>8. TurnSettled(Done(r), r, out) = [Done(r) EXCEPT !.prompt = pr]
    BY <2>2, <2>6, <2>7
  <2>9. [Done(r) EXCEPT !.prompt = pr] =
          [prompt |-> pr, runtime |-> runtime, requests |-> requests \ {r}, online |-> online, control |-> control]
    BY <2>4, SMT
  <2>10. QED
    BY <2>5, <2>8, <2>9, Zenon
<1> HIDE DEF pr, answered
<1>9. /\ s.prompt = pr /\ s.runtime = Work.runtime /\ s.requests = Work.requests
      /\ s.online = Work.online /\ s.control = Work.control /\ s \in Works
  BY <1>1, <1>7, Zenon DEF Works, Work
<1> HIDE DEF s
<1>10. \A q \in Prompt :
         /\ s.prompt[q].thread = Work.prompt[q].thread /\ s.prompt[q].sent = Work.prompt[q].sent
         /\ s.prompt[q].item = Work.prompt[q].item
         /\ q # p0 => s.prompt[q] = Work.prompt[q]
  BY <1>4, <1>5, <1>7, <1>9, WorkFields, Zenon
<1>11. s.prompt[p0].state = outcome /\ Work.prompt[p0].state = "inFlight"
  BY <1>2, <1>5, <1>7, <1>9, WorkFields, Zenon
<1>12. ASSUME NEW q \in Prompt PROVE PromptOK(s, q)
  <2>1. PromptOK(Work, q) /\ \A u \in Thread : Turns(s, u) = Turns(Work, u)
    BY <1>1, <1>9, Zenon DEF Sound, Turns
  <2>2. CASE q = p0
    <3>1. s.prompt[q].thread # Draft
      BY <1>3, <1>4, <1>10, <2>2, BrowserAssumption, Zenon
    <3>2. QED
      BY <1>6, <1>10, <1>11, <2>1, <2>2, <3>1, Zenon DEF PromptOK
  <2>3. CASE q # p0
    <3>1. s.prompt[q] = Work.prompt[q] /\ s.runtime = Work.runtime
      BY <1>9, <1>10, <2>3, Zenon
    <3>2. QED
      BY <2>1, <3>1, Zenon DEF PromptOK
  <2>4. QED
    BY <2>2, <2>3, Zenon
<1>13. Sound(s, status, revert)
  <2>1. \A q \in Prompt : /\ s.prompt[q].sent = Work.prompt[q].sent
                          /\ s.prompt[q].state = "inFlight" =>
                               Work.prompt[q].state = "inFlight" /\ s.prompt[q].thread = Work.prompt[q].thread
    BY <1>10, <1>11, Zenon
  <2>2. ASSUME NEW u \in Thread, Settled(Work, u) PROVE Settled(s, u)
    BY <1>10, <1>11, <2>2, Zenon DEF Settled
  <2>3. QED
    BY <1>1, <1>9, <1>12, <2>1, <2>2, PromptsSound, Zenon
<1>14. /\ \A u : InState(s, u, "queued") = InState(Work, u, "queued")
       /\ \A u : u # t => InState(s, u, "inFlight") = InState(Work, u, "inFlight")
  <2>1. \A u : \A q \in Prompt : s.prompt[q].thread = u /\ s.prompt[q].state = "queued"
                                 <=> Work.prompt[q].thread = u /\ Work.prompt[q].state = "queued"
    BY <1>6, <1>10, <1>11, Zenon
  <2>2. \A u : u # t => \A q \in Prompt : s.prompt[q].thread = u /\ s.prompt[q].state = "inFlight"
                                          <=> Work.prompt[q].thread = u /\ Work.prompt[q].state = "inFlight"
    BY <1>4, <1>10, Zenon
  <2>3. \A u : InState(s, u, "queued") = InState(Work, u, "queued")
    BY <2>1, Zenon DEF InState
  <2>4. \A u : u # t => InState(s, u, "inFlight") = InState(Work, u, "inFlight")
    BY <2>2, Zenon DEF InState
  <2>5. QED
    BY <2>3, <2>4, Zenon
<1>15. /\ \A u \in Thread \ {t} : Served(s, u)
       /\ DraftOK(s, creating)
  <2>1. CanSubmit(s) <=> CanSubmit(Work)
    BY <1>9, Zenon DEF CanSubmit
  <2>2. \A u \in Thread \ {t} : Served(s, u)
    BY <1>1, <1>9, <1>14, <2>1, Zenon DEF Served
  <2>3. DraftOK(s, creating)
    BY <1>1, <1>14, Zenon DEF DraftOK
  <2>4. QED
    BY <2>2, <2>3, Zenon
<1>16. s.prompt[r.prompt].state # "inFlight" /\ r \in s.requests
  BY <1>1, <1>6, <1>9, <1>11, Zenon
<1>17. /\ Sound(m, status, revert) /\ m.prompt = s.prompt
       /\ m.online = s.online /\ m.control = s.control
       /\ \A u \in Thread : Served(s, u) => Served(m, u)
       /\ \A cr : DraftOK(s, cr) => DraftOK(m, cr)
  BY <1>2, <1>9, <1>13, <1>16, TurnDone, Zenon
<1> HIDE DEF m
<1>18. /\ status' \in [Thread -> Statuses]
       /\ \A u \in Thread : status[u] # "absent" => status'[u] # "absent"
  <2>1. st \in Statuses /\ st # "absent" /\ status \in [Thread -> Statuses]
    BY <1>1, Zenon DEF OthersOK, Statuses, Loaded
  <2>2. QED
    BY <1>2, <1>3, <2>1, Zenon
<1>19. PICK st2 : st2 = status'
  OBVIOUS
<1>20. Sound(m, st2, revert)
  BY <1>17, <1>18, <1>19, StatusSound, Zenon
<1> DEFINE v == DispatchNext(m, t, FALSE, st2[t])
<1>21. Become(v)
  <2>1. Become(NextAfter(Done(r), r, out, status'[t]))
    BY Zenon DEF TurnAnswered
  <2>2. Become(DispatchNext(TurnSettled(Done(r), r, out), r.thread, FALSE, status'[t]))
    BY <2>1, Zenon DEF NextAfter
  <2>3. QED
    BY <1>8, <1>19, <2>2, Zenon
<1>22. DispatchStep(m, v, {t})
  <2>1. /\ m \in Works /\ HistoryOK(m.runtime[t], Hist(m, t)) /\ ReadyIsKnown(m, t, st2[t])
        /\ st2[t] \in Statuses
    BY <1>3, <1>18, <1>19, <1>20, Zenon DEF Sound, ThreadOK
  <2>2. QED
    BY <1>3, <2>1, DispatchNextStep, Zenon
<1> HIDE DEF v
<1>23. Calm(prompt, m.prompt)
  BY <1>6, <1>10, <1>11, <1>17, WorkFields, Zenon DEF Calm
<1>24. OthersOK'
  BY <1>1, <1>2, <1>18, Zenon DEF OthersOK
<1>25. /\ \A u \in Thread \ {t} : Served(m, u)
       /\ DraftOK(m, creating') /\ Sound(m, status', revert')
       /\ m.online = online' /\ m.control = control' /\ {t} \in SUBSET Thread
  BY <1>2, <1>3, <1>9, <1>15, <1>17, <1>19, <1>20, WorkFields, Zenon
<1>26. QED
  BY <1>21, <1>22, <1>23, <1>24, <1>25, DispatchDone, Zenon

\* A removal that waits for an answer: the thread is known and settled, nothing of it waits.
LEMMA RevertAnswer ==
    ASSUME BInv, NEW r \in requests, r.kind \in RevertKinds
    PROVE  /\ r \in Request /\ r.thread \in Thread
           /\ revert[r.thread] \in Removing /\ status[r.thread] # "absent" /\ Settled(Work, r.thread)
           /\ InState(Work, r.thread, "queued") = {}
           /\ Done(r) = Without(Work, r)
           /\ OnlyReverts(Work, Without(Work, r), r.thread)
           /\ Reverts(Without(Work, r), r.thread) = {}
<1> DEFINE t == r.thread
<1>1. Work \in Works /\ r \in Work.requests /\ Sound(Work, status, revert)
  BY BInvWork, WorkFields, Zenon
<1>2. r \in Request /\ t \in Thread
  BY <1>1, Zenon DEF Works, Request
<1>3. r \in Reverts(Work, t) /\ RevertOK(Work, t, status[t], revert[t])
  BY <1>1, <1>2, Zenon DEF Reverts, Sound, ThreadOK
<1>4. revert[t] \in Removing /\ status[t] # "absent" /\ Settled(Work, t) /\ Reverts(Work, t) = {r}
  BY <1>3, Zenon DEF RevertOK
<1>5. InState(Work, t, "queued") = {}
  <2>1. SUFFICES ASSUME NEW p \in Prompt, Work.prompt[p].thread = t, Work.prompt[p].state = "queued" PROVE FALSE
    BY Zenon DEF InState
  <2>2. PromptOK(Work, p)
    BY <1>1, Zenon DEF Sound
  <2>3. ~Work.prompt[p].item
    BY <2>1, <2>2, Zenon DEF PromptOK
  <2>4. QED
    BY <1>4, <2>1, <2>3, Zenon DEF Settled
<1>6. OnlyReverts(Work, Without(Work, r), t) /\ Reverts(Without(Work, r), t) = Reverts(Work, t) \ {r}
  BY <1>1, DoneRevert, Zenon
<1>7. Reverts(Without(Work, r), t) = {}
  BY <1>4, <1>6, Zenon
<1>8. Done(r) = Without(Work, r)
  BY Zenon DEF Done, Without
<1>9. QED
  BY <1>2, <1>4, <1>5, <1>6, <1>7, <1>8, Zenon

\* The removal is over: the history is read again where it has changed.
LEMMA FinishRevertStep ==
    ASSUME BInv, NEW r \in requests, r.kind \in RevertKinds, NEW out, NEW older \in BOOLEAN,
           FinishRevert(Done(r), r.thread, out, older),
           UNCHANGED <<creating, selected, draft, online, control>>,
           more' \in [Thread -> BOOLEAN], status' \in [Thread -> Statuses],
           \A u \in Thread : status[u] # "absent" => status'[u] # "absent"
    PROVE  BInv' /\ InOrder(prompt, prompt')
<1> DEFINE t == r.thread
           w == Without(Work, r)
           fresh == Replace(w, t, Runtime("ready"))
           later == LoadMore(fresh, t, older)
           first == Send([fresh EXCEPT !.runtime[t].page = TRUE], About("first", t))
<1>1. /\ Work \in Works /\ Sound(Work, status, revert) /\ OthersOK
      /\ \A u \in Thread : Served(Work, u)
      /\ DraftOK(Work, creating)
      /\ \A u \in Thread : HistoryOK(Work.runtime[u], Hist(Work, u))
  BY BInvWork, Zenon
<1>2. /\ r \in Request /\ t \in Thread
      /\ status[t] # "absent" /\ InState(Work, t, "queued") = {}
      /\ Done(r) = w /\ OnlyReverts(Work, w, t) /\ Reverts(w, t) = {}
  BY RevertAnswer
<1> HIDE DEF w
<1>3. /\ revert' = [revert EXCEPT ![t] = IF out = "ok" /\ revert[t] = "pending" THEN "result" ELSE "none"]
      /\ stale' = [stale EXCEPT ![t] = stale[t] /\ ~(out = "ok" \/ (out = "error" /\ revert[t] = "pending"))]
  BY Zenon DEF FinishRevert
<1>4. Become(later) \/ Become(LoadFirst(fresh, t)) \/ Become(w)
  BY <1>2, Zenon DEF FinishRevert
<1>5. /\ revert' \in [Thread -> Removing \cup {"none", "result"}] /\ stale' \in [Thread -> BOOLEAN]
      /\ revert'[t] \notin Removing
      /\ \A u \in Thread : u # t => revert'[u] = revert[u]
  <2>1. revert'[t] \in {"none", "result"} /\ \A u \in Thread : u # t => revert'[u] = revert[u]
    BY <1>1, <1>2, <1>3, Zenon DEF OthersOK
  <2>2. revert' \in [Thread -> Removing \cup {"none", "result"}] /\ stale' \in [Thread -> BOOLEAN]
    BY <1>1, <1>2, <1>3, Zenon DEF OthersOK
  <2>3. QED
    BY <2>1, <2>2, Zenon DEF Removing
<1>6. OthersOK'
  BY <1>1, <1>5, Zenon DEF OthersOK
<1>7. PICK rv2 : rv2 = revert'
  OBVIOUS
<1>8. /\ Sound(w, status, rv2) /\ w \in Works /\ w.prompt = Work.prompt /\ w.runtime = Work.runtime
      /\ w.online = online /\ w.control = control
  <2>1. RevertOK(w, t, status[t], rv2[t])
    BY <1>2, <1>5, <1>7, Zenon DEF RevertOK
  <2>2. \A u \in Thread : u # t => rv2[u] = revert[u]
    BY <1>5, <1>7, Zenon
  <2>3. Sound(Work, status, revert) /\ OnlyReverts(Work, w, t) /\ t \in Thread
    BY <1>1, <1>2
  <2>4. Sound(w, status, rv2)
    BY <2>1, <2>2, <2>3, OnlyRevertsSound
  <2>5. QED
    BY <1>2, <2>4, WorkFields, Zenon DEF OnlyReverts
<1>9. (\A u \in Thread : Served(w, u)) /\ DraftOK(w, creating)
  BY <1>1, <1>2, OnlyRevertsServes, Zenon
<1>10. InState(w, t, "queued") = {}
  BY <1>2, <1>8, Zenon DEF InState
<1>11. HistoryOK(w.runtime[t], Hist(w, t))
  BY <1>2, <1>8, Zenon DEF Sound, ThreadOK
<1>12. /\ Moves(w, fresh, t) /\ fresh.runtime[t] = Runtime("ready") /\ Hist(fresh, t) = {}
       /\ Runtime("ready") \in Entry /\ Runtime("ready").phase = "ready" /\ ~Runtime("ready").page
  <2>1. Runtime("ready") \in Entry /\ Runtime("ready").phase = "ready" /\ ~Runtime("ready").page
    BY RuntimeEntry DEF Phases
  <2>2. w \in Works /\ t \in Thread /\ Runtime("ready") \in Entry
    BY <1>2, <1>8, <2>1
  <2>3. Moves(w, fresh, t) /\ fresh.runtime[t] = Runtime("ready") /\ Hist(fresh, t) = {}
    BY <2>2, ReplaceMoves
  <2>4. QED
    BY <2>1, <2>3, Zenon
<1>13. /\ fresh \in Works /\ fresh.runtime[t].phase = "ready" /\ ~fresh.runtime[t].page
       /\ HistoryOK(fresh.runtime[t], Hist(fresh, t))
  <2>1. HistoryOK(Runtime("ready"), {})
    BY <1>12, QuietHistory
  <2>2. QED
    BY <1>12, <2>1, Zenon DEF Moves
<1> HIDE DEF fresh
<1>14. LoadFirst(fresh, t) = first
  BY <1>13, Zenon DEF LoadFirst
<1>15. Steady(fresh, first, t)
  BY <1>2, <1>13, PageSent
<1>16. Steady(fresh, later, t)
  BY <1>2, <1>13, LoadMoreSteady, Zenon
<1> HIDE DEF first, later
<1>17. /\ Moves(w, first, t) /\ HistoryOK(first.runtime[t], Hist(first, t)) /\ first.runtime[t].phase # "none"
       /\ Moves(w, later, t) /\ HistoryOK(later.runtime[t], Hist(later, t)) /\ later.runtime[t].phase # "none"
  BY <1>2, <1>12, <1>13, <1>15, <1>16, MovesOn, Zenon DEF Steady
<1>18. PICK v : Become(v) /\ Moves(w, v, t) /\ HistoryOK(v.runtime[t], Hist(v, t))
                /\ (v.runtime[t].phase = "none" => w.runtime[t].phase = "none")
  <2>1. Moves(w, w, t)
    BY <1>2, <1>8, MovesNothing, Zenon
  <2>2. QED
    BY <1>4, <1>11, <1>14, <1>17, <2>1, Zenon
<1>19. Sound(v, status, rv2)
  <2>1. ReadyIsKnown(v, t, status[t])
    BY <1>2, Zenon DEF ReadyIsKnown
  <2>2. QED
    BY <1>2, <1>8, <1>18, <2>1, MovesSound, Zenon
<1>20. PICK st2 : st2 = status'
  OBVIOUS
<1>21. Sound(v, st2, rv2)
  BY <1>19, <1>20, StatusSound, Zenon
<1>22. /\ \A u \in Thread \ {t} : Served(v, u)
       /\ \A u, x : InState(v, u, x) = InState(w, u, x)
       /\ DraftOK(v, creating)
  <2>1. Moves(w, v, t)
    BY <1>18, Zenon
  <2>2. \A u \in Thread \ {t} : Served(v, u)
    BY <1>2, <1>9, <2>1, MovesServes, Zenon
  <2>3. \A u, x : InState(v, u, x) = InState(w, u, x)
    BY <1>2, <2>1, MovesServes, ZenonT(30)
  <2>4. DraftOK(v, creating)
    BY <1>2, <1>9, <2>1, MovesServes, Zenon
  <2>5. QED
    BY <2>2, <2>3, <2>4, Zenon
<1>23. ASSUME NEW u \in Thread PROVE Served(v, u)
  <2>1. CASE u = t
    BY <1>10, <1>22, <2>1, Zenon DEF Served
  <2>2. CASE u # t
    BY <1>22, <2>2, Zenon
  <2>3. QED
    BY <2>1, <2>2, Zenon
<1>24. v.prompt = prompt /\ v.online = online' /\ v.control = control'
  BY <1>8, <1>18, WorkFields, Zenon DEF Moves
<1>25. Calm(prompt, v.prompt)
  BY <1>24, SameIsCalm, Zenon
<1>26. Sound(v, status', revert') /\ DraftOK(v, creating')
  BY <1>7, <1>20, <1>21, <1>22, Zenon
<1>27. QED
  BY <1>6, <1>18, <1>23, <1>24, <1>25, <1>26, CalmDone, Zenon

\* The thread is loaded: its removal goes on, or is over.
LEMMA RevertResumedStep ==
    ASSUME BInv, NEW r \in requests, NEW out \in Outcomes, NEW st \in Loaded \cup {"notLoaded"},
           RevertResumed(r, out, st)
    PROVE  BInv' /\ InOrder(prompt, prompt')
<1> DEFINE t == r.thread
           now == IF out = "ok" /\ r.tied THEN st ELSE status[t]
           goOn == out = "ok" /\ r.tied /\ MayRevert(Work, t, now)
           w == Without(Work, r)
           a == About("revert", t)
           v == Send(w, a)
           over == IF ~r.tied THEN "stale" ELSE IF out = "ok" THEN "error" ELSE out
<1>1. /\ r.kind = "revert resume"
      /\ status' = [status EXCEPT ![t] = now]
      /\ UNCHANGED <<creating, selected, draft, more, online, control>>
      /\ goOn => Become(Send(Done(r), About("revert", t))) /\ UNCHANGED <<revert, stale>>
      /\ ~goOn => FinishRevert(Done(r), t, over, FALSE)
  BY Zenon DEF RevertResumed, place, link
<1> HIDE DEF goOn
<1>2. r.kind \in RevertKinds
  BY <1>1, Zenon DEF RevertKinds
<1>3. /\ r \in Request /\ t \in Thread
      /\ revert[t] \in Removing /\ status[t] # "absent" /\ Settled(Work, t)
      /\ Done(r) = w /\ OnlyReverts(Work, w, t) /\ Reverts(w, t) = {}
  BY <1>2, RevertAnswer
<1>4. /\ Work \in Works /\ Sound(Work, status, revert) /\ OthersOK
      /\ \A u \in Thread : Served(Work, u)
      /\ DraftOK(Work, creating)
  BY BInvWork, Zenon
<1>5. now \in Statuses /\ now # "absent"
  BY <1>3, <1>4, Zenon DEF OthersOK, Statuses, Loaded
<1> HIDE DEF now
<1>6. /\ status' \in [Thread -> Statuses]
      /\ \A u \in Thread : status[u] # "absent" => status'[u] # "absent"
  BY <1>1, <1>3, <1>4, <1>5, Zenon DEF OthersOK
<1>7. CASE ~goOn
  <2>1. more' \in [Thread -> BOOLEAN]
    BY <1>1, <1>4, Zenon DEF OthersOK
  <2>2. FALSE \in BOOLEAN
    BY Zenon
  <2>3. FinishRevert(Done(r), t, over, FALSE)
    BY <1>1, <1>7, Zenon
  <2> HIDE DEF over
  <2>4. QED
    BY <1>1, <1>2, <1>6, <2>1, <2>2, <2>3, FinishRevertStep, Zenon
<1>8. CASE goOn
  <2>1. Become(v) /\ UNCHANGED <<revert, stale>>
    BY <1>1, <1>3, <1>8, Zenon
  <2> HIDE DEF w
  <2>2. "revert" \in Kinds /\ "revert" \in RevertKinds
    BY Zenon DEF Kinds, RevertKinds
  <2>3. a \in Request /\ a.kind \in RevertKinds /\ a.thread = t
    BY <1>3, <2>2, AboutRequest, Zenon
  <2> HIDE DEF a
  <2>4. w \in Works
    BY <1>3, Zenon DEF OnlyReverts
  <2>5. OnlyReverts(w, v, t) /\ Reverts(v, t) = Reverts(w, t) \cup {a}
    BY <2>3, <2>4, SendRevert, Zenon
  <2> HIDE DEF v
  <2>6. OnlyReverts(Work, v, t) /\ Reverts(v, t) = {a}
    <3>1. Reverts(v, t) = {a}
      BY <1>3, <2>5, Zenon
    <3>2. OnlyReverts(Work, v, t)
      BY <1>3, <2>5, Zenon DEF OnlyReverts
    <3>3. QED
      BY <3>1, <3>2
  <2>7. RevertOK(v, t, status[t], revert[t])
    <3>1. Settled(v, t)
      BY <1>3, <2>6, Zenon DEF OnlyReverts, Settled
    <3>2. QED
      BY <1>3, <2>6, <3>1, Zenon DEF RevertOK
  <2>8. Sound(v, status, revert)
    BY <1>3, <1>4, <2>6, <2>7, OnlyRevertsSound, Zenon
  <2>9. PICK st2 : st2 = status'
    OBVIOUS
  <2>10. Sound(v, st2, revert)
    BY <1>6, <2>8, <2>9, StatusSound, Zenon
  <2>11. (\A u \in Thread : Served(v, u)) /\ DraftOK(v, creating)
    BY <1>4, <2>6, OnlyRevertsServes, Zenon
  <2>12. OthersOK'
    BY <1>1, <1>4, <1>6, <2>1, Zenon DEF OthersOK
  <2>13. v.prompt = prompt /\ v.online = online' /\ v.control = control'
    BY <1>1, <2>6, WorkFields, Zenon DEF OnlyReverts
  <2>14. Sound(v, status', revert') /\ DraftOK(v, creating') /\ Calm(prompt, v.prompt)
    BY <1>1, <2>1, <2>9, <2>10, <2>11, <2>13, SameIsCalm, Zenon
  <2>15. QED
    BY <2>1, <2>11, <2>12, <2>13, <2>14, CalmDone, Zenon
<1>9. QED
  BY <1>7, <1>8, Zenon

LEMMA RevertedStep ==
    ASSUME BInv, NEW r \in requests, NEW out \in Outcomes, NEW older \in BOOLEAN, Reverted(r, out, older)
    PROVE  BInv' /\ InOrder(prompt, prompt')
<1> DEFINE over == IF r.tied THEN out ELSE "stale"
<1>1. /\ r.kind = "revert"
      /\ more' = [more EXCEPT ![r.thread] = IF out = "ok" /\ r.tied THEN older ELSE more[r.thread]]
      /\ FinishRevert(Done(r), r.thread, over, older)
      /\ UNCHANGED <<creating, selected, draft, status, online, control>>
  BY Zenon DEF Reverted, place, link
<1>2. r.kind \in RevertKinds
  BY <1>1, Zenon DEF RevertKinds
<1>3. r.thread \in Thread /\ OthersOK
  BY <1>2, RevertAnswer, BInvWork
<1>4. more' \in [Thread -> BOOLEAN] /\ status' \in [Thread -> Statuses]
  BY <1>1, <1>3, Zenon DEF OthersOK
<1>5. \A u \in Thread : status[u] # "absent" => status'[u] # "absent"
  BY <1>1, Zenon
<1> HIDE DEF over
<1>6. UNCHANGED <<creating, selected, draft, online, control>>
  BY <1>1, Zenon
<1>7. QED
  BY <1>1, <1>2, <1>4, <1>5, <1>6, FinishRevertStep

-----------------------------------------------------------------------------
\* Every step, and the theorems

LEMMA NextStep ==
    ASSUME BInv, Next
    PROVE  BInv' /\ InOrder(prompt, prompt')
<1>1. CASE User
  BY <1>1, SubmitStep, SelectStep, BeginNewThreadStep, ReloadStep, LoadOlderStep, RemoveTurnsStep, Zenon DEF User
<1>2. CASE Environment
  BY <1>2, LoseProviderStep, ProviderReadyStep, ControlChangesStep, MaterializedStep, AppearsStep,
     HydrateChildStep, RevertAnnouncedStep, ThreadRemovedStep, Zenon DEF Environment
<1>3. CASE CreationAnswered
  BY <1>3, NotCreatedStep, CreatedStep, Zenon DEF CreationAnswered
<1>4. ASSUME NEW r \in requests, Answer(r) PROVE BInv' /\ InOrder(prompt, prompt')
  <2>1. CASE Ignored(r)
    BY <2>1, IgnoredStep, Zenon
  <2>2. ASSUME NEW out \in Outcomes, NEW st \in Loaded \cup {"notLoaded"},
               Resumed(r, out, st) \/ QueueResumed(r, out, st) \/ RevertResumed(r, out, st)
        PROVE  BInv' /\ InOrder(prompt, prompt')
    BY <2>2, ResumedStep, QueueResumedStep, RevertResumedStep, Zenon
  <2>3. ASSUME NEW out \in Outcomes, NEW st \in Loaded, TurnAnswered(r, out, st)
        PROVE  BInv' /\ InOrder(prompt, prompt')
    BY <2>3, TurnAnsweredStep, Zenon
  <2>4. ASSUME NEW out \in Outcomes, NEW complete \in BOOLEAN, NEW older \in BOOLEAN, NEW drops \in BOOLEAN,
               FirstPage(r, out, complete, older, drops) \/ Page(r, out, complete, older, drops)
        PROVE  BInv' /\ InOrder(prompt, prompt')
    BY <2>4, FirstPageStep, PageStep, Zenon
  <2>5. ASSUME NEW out \in Outcomes, NEW older \in BOOLEAN, Reverted(r, out, older)
        PROVE  BInv' /\ InOrder(prompt, prompt')
    BY <2>5, RevertedStep, Zenon
  <2>6. QED
    BY <1>4, <2>1, <2>2, <2>3, <2>4, <2>5, Zenon DEF Answer
<1>5. QED
  BY <1>1, <1>2, <1>3, <1>4, Zenon DEF Next

LEMMA Stutter ==
    ASSUME BInv, UNCHANGED vars
    PROVE  BInv' /\ InOrder(prompt, prompt')
<1>1. UNCHANGED <<prompt, runtime, requests, creating, selected, draft, status, stale, more, revert, online, control>>
  BY Zenon DEF vars, work, place, model, link
<1>2. OthersOK'
  BY <1>1, BInvWork, Zenon DEF OthersOK
<1>3. /\ UNCHANGED <<prompt, runtime, requests, creating, revert, online, control>>
      /\ \A t \in Thread : status[t] # "absent" => status'[t] # "absent"
  BY <1>1, Zenon
<1>4. QED
  BY <1>2, <1>3, WorkStays, Zenon

\* In every reachable state each runtime entry has the requests it waits for and no other,
\* each prompt on its way has its turn, and each removal under way its one request.
THEOREM BrowserInvariant == Spec => []BInv
<1>1. Init => BInv
  BY InitBInv
<1>2. BInv /\ [Next]_vars => BInv'
  BY NextStep, Stutter, Zenon
<1>3. QED
  BY <1>1, <1>2, PTL DEF Spec

\* WaitsAreReal: nothing in the session waits for an answer that will not come.
THEOREM EveryWaitEnds == Spec => []WaitsAreReal
<1>1. ASSUME BInv PROVE WaitsAreReal
  <2>1. Sound(Work, status, revert) /\ DraftOK(Work, creating)
        /\ (\A t \in Thread : Served(Work, t))
    BY <1>1, BInvWork, Zenon
  <2>2. Work.requests = requests /\ Work.prompt = prompt /\ Work.runtime = runtime
    BY WorkFields, Zenon
  <2>3. ASSUME NEW p \in Prompt, prompt[p].state = "inFlight"
        PROVE  \E r \in requests : r.kind = "turn" /\ r.prompt = p /\ r.thread = prompt[p].thread
    <3>1. PromptOK(Work, p)
      BY <2>1, Zenon DEF Sound
    <3>2. \E r \in Turns(Work, prompt[p].thread) : r.prompt = p
      BY <2>2, <2>3, <3>1, Zenon DEF PromptOK
    <3>3. QED
      BY <2>2, <3>2, Zenon DEF Turns
  <2>4. ASSUME NEW t \in Thread
        PROVE  /\ runtime[t].page => Waiting(t, {"resume", "page", "first", "more"})
               /\ runtime[t].phase = "hydrating" => Waiting(t, {"resume", "page"})
               /\ runtime[t].phase = "resuming" => Waiting(t, {"resume", "queue"})
               /\ revert[t] \in {"pending", "notification"} =>
                    \E r \in requests : r.thread = t /\ r.kind \in {"revert", "revert resume"}
               /\ CanSubmit(Work) /\ InState(Work, t, "queued") # {} =>
                    \/ InState(Work, t, "inFlight") # {}
                    \/ runtime[t].phase \in {"hydrating", "resuming", "failed"}
    <3>1. ThreadOK(Work, t, status[t], revert[t])
      BY <2>1, Zenon DEF Sound
    <3>2. HistoryOK(runtime[t], Hist(Work, t)) /\ RevertOK(Work, t, status[t], revert[t])
      BY <2>2, <3>1, Zenon DEF ThreadOK
    <3>3. \A r \in Hist(Work, t) : r \in requests /\ r.thread = t /\ r.tied
      BY <2>2, Zenon DEF Hist
    <3>4. runtime[t].page => Waiting(t, {"resume", "page", "first", "more"})
      <4>1. runtime[t].page => \E r \in Hist(Work, t) : r.kind \in HistoryKinds
        BY <3>2, Zenon DEF HistoryOK
      <4>2. QED
        BY <3>3, <4>1, Zenon DEF Waiting, HistoryKinds
    <3>5. runtime[t].phase = "hydrating" => Waiting(t, {"resume", "page"})
      <4>1. runtime[t].phase = "hydrating" => \E r \in Hist(Work, t) : r.kind \in {"resume", "page"}
        BY <3>2, Zenon DEF HistoryOK
      <4>2. QED
        BY <3>3, <4>1, Zenon DEF Waiting
    <3>6. runtime[t].phase = "resuming" => Waiting(t, {"resume", "queue"})
      <4>1. runtime[t].phase = "resuming" => \E r \in Hist(Work, t) : r.kind \in {"resume", "queue"}
        BY <3>2, Zenon DEF HistoryOK
      <4>2. QED
        BY <3>3, <4>1, Zenon DEF Waiting
    <3>7. revert[t] \in {"pending", "notification"} =>
            \E r \in requests : r.thread = t /\ r.kind \in {"revert", "revert resume"}
      BY <2>2, <3>2, Zenon DEF RevertOK, Removing, Reverts, RevertKinds
    <3>8. CanSubmit(Work) /\ InState(Work, t, "queued") # {} =>
            \/ InState(Work, t, "inFlight") # {}
            \/ runtime[t].phase \in {"hydrating", "resuming", "failed"}
      BY <2>1, <2>2, Zenon DEF Served, Waits
    <3>9. QED
      BY <3>4, <3>5, <3>6, <3>7, <3>8, Zenon
  <2>5. InState(Work, Draft, "queued") # {} => creating # "no"
    BY <2>1, Zenon DEF DraftOK
  <2>6. QED
    BY <2>3, <2>4, <2>5, Zenon DEF WaitsAreReal
<1>2. BInv => WaitsAreReal
  BY <1>1
<1>3. QED
  BY <1>2, BrowserInvariant, PTL

\* RemovalIsAlone: no prompt waits or is on its way in a thread whose turns are being removed.
THEOREM RemovalsRunAlone == Spec => []RemovalIsAlone
<1>1. BInv => RemovalIsAlone
  BY BInvWork, Zenon DEF RemovalIsAlone, Sound, ThreadOK, RevertOK, Removing
<1>2. QED
  BY <1>1, BrowserInvariant, PTL

\* SentOnceInOrder: a prompt is sent once, alone and in its turn, and a failed one stays so.
THEOREM PromptsGoInOrder == Spec => SentOnceInOrder
<1>1. BInv /\ [Next]_vars =>
        [\A p \in Prompt :
           /\ prompt'[p].state = "inFlight" /\ prompt[p].state # "inFlight" =>
                /\ ~prompt[p].sent
                /\ \A q \in Prompt \ {p} : prompt'[q].thread = prompt'[p].thread =>
                     prompt'[q].state # "inFlight" /\ (q < p => prompt'[q].state # "queued")
           /\ prompt[p].state = "failed" => prompt'[p].state \in {"failed", "gone"}]_vars
  BY NextStep, Zenon DEF InOrder
<1>2. QED
  BY <1>1, BrowserInvariant, PTL DEF Spec, SentOnceInOrder
=============================================================================
