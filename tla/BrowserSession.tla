--------------------------- MODULE BrowserSession ---------------------------
(***************************************************************************)
(* The browser frontend: the way of a prompt from its admission to its     *)
(* answer, hydration and paging of a thread's history, the user's removal  *)
(* of turns, and what lost providers, reverts and deletions do to them.    *)
(* web/src/app/BrowserFrontendSession.ts, conversation/PromptCoordinator   *)
(* .ts and, of presentation/PresentationModel.ts, the state those use.     *)
(*                                                                         *)
(* A handler and the microtasks it queues run before the next event, so    *)
(* each is one action, composed of functions on the work of the session.   *)
(* The SDK, the bridge and the app-server are external: every request is   *)
(* answered, late answers to an older epoch included.  The app-server      *)
(* answers thread/start before it announces the thread, and announces      *)
(* reverts of threads the client knows.                                    *)
(*                                                                         *)
(* Not here: steering and starting a turn are one request; item pages, the *)
(* limit of eight background hydrations, catalogs, groups, settings and    *)
(* the operations that do not touch prompts or history (rename, archive,   *)
(* fork, workspace); cursors the session has already seen.                 *)
(***************************************************************************)
EXTENDS Naturals, FiniteSetsExt

CONSTANTS
    Thread,      \* provider threads
    MaxPrompts,  \* bound: prompts the user submits
    Draft,       \* DraftThreadId
    None

ASSUME BrowserAssumption ==
    Thread \cap {Draft, None} = {} /\ Draft # None /\ MaxPrompts \in Nat

Prompt == 1 .. MaxPrompts    \* in the order of admission

VARIABLES
    prompt,     \* the submissions of all threads: their state, thread, and materializedItem
    runtime,    \* runtimeByThread: phase and historyPageInFlight; phase "none" is no entry
    requests,   \* requests of this epoch that are not answered
    creating,   \* newThreadCreationInFlight: "no", "current", or "late" for an older epoch
    selected,   \* selectedThreadId
    draft,      \* there is a newThreadDraft
    status,     \* of the thread in the presentation model, "absent" when it has none
    stale,      \* historyStale
    more,       \* historyHasMore
    revert,     \* pendingUserOperations of thread.revert, with revertObserved
    online, control     \* providerReady(), the role is controller

work == <<prompt, runtime, requests>>
place == <<selected, draft>>
model == <<status, stale, more>>
link == <<online, control>>
vars == <<work, creating, place, model, revert, link>>

Phases == {"none", "cold", "hydrating", "ready", "resuming", "failed"}
NoRuntime == [phase |-> "none", page |-> FALSE]
Runtime(phase) == [NoRuntime EXCEPT !.phase = phase]

\* A request: what about, whether its runtime entry or its target is still the one it was
\* sent for, the phase it continues, and what the steps of a hydration before it were.
About(kind, t) == [kind |-> kind, thread |-> t, prompt |-> 0, tied |-> TRUE, phase |-> "none",
                   interactive |-> FALSE, attempted |-> FALSE, resumed |-> FALSE]
HistoryKinds == {"resume", "page", "first", "more"}

Init ==
    /\ prompt = [p \in Prompt |-> [state |-> "new", thread |-> None, item |-> FALSE, sent |-> FALSE]]
    /\ runtime = [t \in Thread |-> NoRuntime]
    /\ requests = {} /\ creating = "no"
    /\ selected = None /\ draft = FALSE
    /\ status = [t \in Thread |-> "absent"]
    /\ stale = [t \in Thread |-> FALSE]
    /\ more = [t \in Thread |-> FALSE]
    /\ revert = [t \in Thread |-> "none"]
    /\ online = FALSE /\ control = FALSE

CanSubmit(w) == w.online /\ w.control
Unsettled == {"queued", "inFlight"}
InState(w, t, s) == {p \in Prompt : w.prompt[p].thread = t /\ w.prompt[p].state = s}

-----------------------------------------------------------------------------
\* The work w of a session, with the connection it reads, is changed by functions; st is the
\* status of the thread.

Work == [prompt |-> prompt, runtime |-> runtime, requests |-> requests,
         online |-> online, control |-> control]
Become(w) == prompt' = w.prompt /\ runtime' = w.runtime /\ requests' = w.requests
Send(w, r) == [w EXCEPT !.requests = @ \cup {r}]
Done(r) == [Work EXCEPT !.requests = @ \ {r}]
SetPhase(w, t, phase) == [w EXCEPT !.runtime[t].phase = phase]
PageOver(w, t) == [w EXCEPT !.runtime[t].page = FALSE]

\* Another object for the thread in runtimeByThread, or none.
Replace(w, t, entry) ==
    [w EXCEPT !.runtime[t] = entry,
              !.requests = {IF r.thread = t /\ r.kind \notin {"turn", "revert", "revert resume"}
                            THEN [r EXCEPT !.tied = FALSE] ELSE r : r \in w.requests}]
Ensure(w, t) == IF w.runtime[t].phase = "none" THEN Replace(w, t, Runtime("cold")) ELSE w
\* The turns a revert is about are gone, or the thread is.
LoseTarget(w, t) ==
    [w EXCEPT !.requests = {IF r.thread = t /\ r.kind \in {"revert", "revert resume"}
                            THEN [r EXCEPT !.tied = FALSE] ELSE r : r \in w.requests}]

FailStates(w, t, states) ==
    [w EXCEPT !.prompt = [p \in Prompt |->
        IF w.prompt[p].thread = t /\ w.prompt[p].state \in states
        THEN [w.prompt[p] EXCEPT !.state = "failed"] ELSE w.prompt[p]]]
FailPending(w, t) == FailStates(w, t, Unsettled)
FailQueued(w, t) == FailStates(w, t, {"queued"})

\* hydrateThread(), until its first request; every caller has asked providerReady().
HydrateThread(w, t, interactive, forced) ==
    LET v == Ensure(w, t)
        phase == v.runtime[t].phase
        historyReady == ~forced /\ phase = "ready"
        next == IF historyReady THEN "resuming" ELSE "hydrating"
        started == [v EXCEPT !.runtime[t] = [phase |-> next, page |-> ~historyReady]]
        about == [About("resume", t) EXCEPT !.phase = next, !.interactive = interactive]
    IN IF phase \in {"hydrating", "resuming"} \/ v.runtime[t].page \/ (~forced /\ phase = "failed") THEN v
       ELSE IF interactive /\ w.control THEN Send(started, about)
       ELSE IF historyReady THEN v
       ELSE Send(started, [about EXCEPT !.kind = "page"])

\* ensureThreadHydrated()
EnsureHydrated(w, t, refresh) ==
    IF ~w.online \/ t \notin Thread THEN w
    ELSE LET v == Ensure(w, t)
         IN IF v.runtime[t].phase = "cold" \/ (refresh /\ v.runtime[t].phase = "ready")
            THEN HydrateThread(v, t, TRUE, FALSE) ELSE v

\* resumePromptQueue()
ResumePromptQueue(w, t) == Send(SetPhase(w, t, "resuming"), About("queue", t))

\* Mutant: the newest of the waiting prompts goes first.
BeginNewest(w, t) ==
    LET p == Max(InState(w, t, "queued"))
    IN Send([w EXCEPT !.prompt[p].state = "inFlight", !.prompt[p].sent = TRUE],
            [About("turn", t) EXCEPT !.prompt = p])
\* beginNext() of the coordinator, and dispatchPrompt().
BeginNext(w, t) ==
    LET p == Min(InState(w, t, "queued"))
    IN Send([w EXCEPT !.prompt[p].state = "inFlight", !.prompt[p].sent = TRUE],
            [About("turn", t) EXCEPT !.prompt = p])

\* dispatchNextPrompt()
MayDispatch(w, t) ==
    /\ CanSubmit(w) /\ t \in Thread
    /\ InState(w, t, "inFlight") = {} /\ InState(w, t, "queued") # {}
DispatchNext(w, t, resumed, st) ==
    IF ~MayDispatch(w, t) THEN w
    ELSE LET v == Ensure(w, t) IN
         IF v.runtime[t].phase # "ready" THEN EnsureHydrated(v, t, FALSE)
         ELSE IF st = "absent" THEN EnsureHydrated(SetPhase(v, t, "cold"), t, FALSE)
         ELSE IF st = "notLoaded" /\ ~resumed THEN ResumePromptQueue(v, t)
         ELSE BeginNext(v, t)
\* dispatchQueuedPrompts(): its loop calls dispatchNextPrompt() once for every thread that has
\* a queue, and each call changes its own thread only.
DispatchAll(w) ==
    LET each == [t \in Thread |-> DispatchNext(w, t, FALSE, status[t])]
    IN [w EXCEPT !.prompt = [p \in Prompt |-> IF w.prompt[p].thread \in Thread
                                THEN each[w.prompt[p].thread].prompt[p] ELSE w.prompt[p]],
                 !.runtime = [t \in Thread |-> each[t].runtime[t]],
                 !.requests = UNION {{r \in each[t].requests : r.thread = t} : t \in Thread}]

\* loadMoreHistory(), loadForkHistory()
LoadMore(w, t, has) ==
    LET v == Ensure(w, t) IN
    IF ~w.online THEN w
    ELSE IF v.runtime[t].phase = "ready" /\ ~v.runtime[t].page /\ has
         THEN Send([v EXCEPT !.runtime[t].page = TRUE], About("more", t)) ELSE v
LoadFirst(w, t) ==
    IF w.runtime[t].page THEN w
    ELSE Send([w EXCEPT !.runtime[t].page = TRUE], About("first", t))

-----------------------------------------------------------------------------
\* The user

UserOnly == UNCHANGED <<model, link>>

\* Mutant: a removal is taken for over when a reload has brought the history up to date.
RemovalReloaded == {t \in Thread : stale[t]}
RemovalPending == {t \in Thread : stale[t] \/ revert[t] # "none"}
\* submitPrompt()
Submit(p) ==
    LET t == selected
        admitted == [Work EXCEPT !.prompt[p] = [@ EXCEPT !.state = "queued", !.thread = t]]
    IN /\ prompt[p].state = "new" /\ \A q \in 1 .. p - 1 : prompt[q].state # "new"
       /\ CanSubmit(Work) /\ t \notin {None} \cup RemovalPending
       /\ IF t = Draft
          THEN /\ creating' = IF creating = "no" THEN "current" ELSE creating
               /\ Become(admitted)
          ELSE /\ Become(DispatchNext(Ensure(admitted, t), t, FALSE, status[t]))
               /\ UNCHANGED creating
       /\ UNCHANGED <<place, revert>> /\ UserOnly

DraftIsEmpty == \A p \in Prompt : prompt[p].thread # Draft
\* selectThread()
Select(t) ==
    /\ \/ t = Draft /\ draft /\ UNCHANGED <<work, draft>>
       \/ /\ t \in Thread /\ status[t] # "absent"
          /\ draft' = (draft /\ ~DraftIsEmpty)
          /\ Become(EnsureHydrated(Work, t, TRUE))
    /\ selected' = t
    /\ UNCHANGED <<creating, revert>> /\ UserOnly

\* beginNewThread(), also when a failed prompt is restored.
BeginNewThread ==
    /\ creating = "no" /\ ~(draft /\ selected = Draft /\ DraftIsEmpty)
    /\ draft' = TRUE /\ selected' = Draft
    /\ prompt' = [p \in Prompt |-> IF prompt[p].thread = Draft
                                    THEN [prompt[p] EXCEPT !.state = "gone", !.thread = None] ELSE prompt[p]]
    /\ UNCHANGED <<runtime, requests, creating, revert>> /\ UserOnly

Reload(t) ==
    /\ status[t] # "absent" /\ online
    /\ Become(HydrateThread(Work, t, TRUE, TRUE))
    /\ UNCHANGED <<creating, place, revert>> /\ UserOnly
LoadOlder(t) ==
    /\ status[t] # "absent" /\ online
    /\ Become(LoadMore(Work, t, more[t]))
    /\ UNCHANGED <<creating, place, revert>> /\ UserOnly

Settled(w, t) ==
    \A p \in Prompt : w.prompt[p].thread = t /\ ~w.prompt[p].item => w.prompt[p].state \notin {"queued", "inFlight", "accepted"}
\* What revertUnavailable() asks of prompts and history.
MayRevert(w, t, st) ==
    /\ st \notin {"absent", "active"} /\ CanSubmit(w)
    /\ w.runtime[t] = Runtime("ready") /\ Settled(w, t)

\* removeTurns() and performUserOperation()
RemoveTurns(t) ==
    /\ MayRevert(Work, t, status[t]) /\ ~stale[t] /\ revert[t] = "none"
    /\ revert' = [revert EXCEPT ![t] = "pending"]
    /\ stale' = [stale EXCEPT ![t] = TRUE]
    /\ Become(Send(Work, About(IF status[t] = "notLoaded" THEN "revert resume" ELSE "revert", t)))
    /\ UNCHANGED <<creating, place, status, more, link>>

-----------------------------------------------------------------------------
\* Answers

Outcomes == {"ok", "error", "lost"}    \* lost: -32002 or -32020
Loaded == {"idle", "active"}

\* acceptResult of a request
Accepted(r) ==
    LET phase == IF r.thread \in Thread THEN runtime[r.thread].phase ELSE "none" IN
    CASE r.kind = "resume" -> r.tied /\ phase = r.phase
      [] r.kind = "page" -> r.tied /\ phase = "hydrating"
      [] r.kind \in {"first", "more"} -> r.tied /\ phase # "failed"
      [] r.kind = "queue" -> r.tied /\ phase = "resuming"
      [] r.kind = "turn" -> prompt[r.prompt].state = "inFlight"
      [] OTHER -> r.tied

\* The rest of hydrateThread().
FinishHydration(w, r, resumed, st) ==
    LET t == r.thread
        ready == SetPhase(w, t, "ready")
    IN IF (r.interactive \/ selected = t) /\ w.control /\ ~r.attempted
       THEN HydrateThread(ready, t, TRUE, FALSE)
       ELSE DispatchNext(ready, t, resumed, st)

\* An answer nobody waits for any more.
Ignored(r) ==
    /\ ~Accepted(r) /\ r.kind \notin {"revert", "revert resume"}
    /\ Become(IF r.kind \in {"first", "more"} /\ r.tied THEN PageOver(Done(r), r.thread) ELSE Done(r))
    /\ UNCHANGED <<creating, place, model, revert, link>>

\* thread/resume of a hydration; a result updates the thread.
Resumed(r, out, st) ==
    LET t == r.thread
        now == IF out = "ok" THEN st ELSE status[t]
    IN /\ r.kind = "resume" /\ Accepted(r)
       /\ status' = [status EXCEPT ![t] = now]
       /\ Become(IF r.phase = "hydrating"
                 THEN Send(Done(r), [r EXCEPT !.kind = "page", !.attempted = TRUE, !.resumed = out = "ok"])
                 ELSE FinishHydration(Done(r), [r EXCEPT !.attempted = TRUE], out = "ok", now))
       /\ UNCHANGED <<creating, place, stale, more, revert, link>>

\* mergeTurnPage(): a page that reaches what was known before completes the reload of a
\* stale history, and then the turns it lacks are dropped.
Merge(t, complete, older, drops) ==
    /\ complete \/ (stale[t] /\ older)
    /\ drops => stale[t] /\ complete
    /\ status' = [status EXCEPT ![t] = IF @ = "absent" THEN "idle" ELSE @]
    /\ stale' = [stale EXCEPT ![t] = @ /\ ~complete]
    /\ more' = [more EXCEPT ![t] = older]
Dropping(w, t, drops) == IF drops THEN LoseTarget(w, t) ELSE w

\* Mutant: a failed page keeps the place of the next.
PageFailedOpen(w, t) == FailQueued(SetPhase(w, t, "failed"), t)
PageFailed(w, t) == FailQueued(SetPhase(PageOver(w, t), t, "failed"), t)

\* The first page of a hydration.
FirstPage(r, out, complete, older, drops) ==
    LET t == r.thread IN
    /\ r.kind = "page" /\ Accepted(r)
    /\ \/ /\ out = "ok" /\ Merge(t, complete, older, drops)
          /\ Become(FinishHydration(PageOver(Dropping(Done(r), t, drops), t), r, r.resumed, status'[t]))
       \/ /\ out # "ok" /\ UNCHANGED model
          /\ Become(PageFailed(Done(r), t))
    /\ UNCHANGED <<creating, place, revert, link>>

\* A page of loadForkHistory() or loadMoreHistory(): a history that is still stale goes on.
Page(r, out, complete, older, drops) ==
    LET t == r.thread
        over == PageOver(Done(r), t)
    IN /\ r.kind \in {"first", "more"} /\ Accepted(r)
       /\ \/ /\ out = "ok" /\ Merge(t, complete, older, drops)
             /\ Become(IF stale'[t] THEN LoadMore(Dropping(over, t, drops), t, older) ELSE Dropping(over, t, drops))
          \/ out # "ok" /\ UNCHANGED model /\ Become(over)
       /\ UNCHANGED <<creating, place, revert, link>>

\* thread/resume of resumePromptQueue()
QueueResumed(r, out, st) ==
    LET t == r.thread IN
    /\ r.kind = "queue" /\ Accepted(r)
    /\ status' = [status EXCEPT ![t] = IF out = "ok" THEN st ELSE @]
    /\ Become(IF out = "ok" /\ st # "notLoaded"
              THEN DispatchNext(SetPhase(Done(r), t, "ready"), t, FALSE, st)
              ELSE FailQueued(SetPhase(Done(r), t, "failed"), t))
    /\ UNCHANGED <<creating, place, stale, more, revert, link>>

\* Mutant: after a refused prompt the next waits for another event.
TurnSettled(w, r, out) ==
    [w EXCEPT !.prompt[r.prompt].state = IF out = "ok" THEN "accepted" ELSE "failed"]
NextAfterSuccess(w, r, out, st) ==
    IF out = "ok" THEN DispatchNext(TurnSettled(w, r, out), r.thread, FALSE, st) ELSE TurnSettled(w, r, out)
NextAfter(w, r, out, st) == DispatchNext(TurnSettled(w, r, out), r.thread, FALSE, st)

\* The answer to a turn.
TurnAnswered(r, out, st) ==
    LET t == r.thread IN
    /\ r.kind = "turn" /\ Accepted(r)
    /\ status' = [status EXCEPT ![t] = IF out = "ok" /\ @ # "absent" THEN st ELSE @]
    /\ Become(NextAfter(Done(r), r, out, status'[t]))
    /\ UNCHANGED <<creating, place, stale, more, revert, link>>

\* What performUserOperation() and removeTurns() do when the removal is over.
FinishRevert(w, t, out, older) ==
    LET notified == revert[t] = "notification"
        fresh == Replace(w, t, Runtime("ready"))
    IN /\ revert' = [revert EXCEPT ![t] = IF out = "ok" /\ @ = "pending" THEN "result" ELSE "none"]
       /\ stale' = [stale EXCEPT ![t] = @ /\ ~(out = "ok" \/ (out = "error" /\ revert[t] = "pending"))]
       /\ Become(IF out = "ok" THEN LoadMore(fresh, t, older)
                 ELSE IF out # "stale" /\ notified /\ online THEN LoadFirst(fresh, t) ELSE w)

\* The thread is loaded for a removal; whether it may still go on is asked again.
RevertResumed(r, out, st) ==
    LET t == r.thread
        now == IF out = "ok" /\ r.tied THEN st ELSE status[t]
        goOn == out = "ok" /\ r.tied /\ MayRevert(Work, t, now)
    IN /\ r.kind = "revert resume"
       /\ status' = [status EXCEPT ![t] = now]
       /\ IF goOn THEN Become(Send(Done(r), About("revert", t))) /\ UNCHANGED <<revert, stale>>
          ELSE FinishRevert(Done(r), t, IF ~r.tied THEN "stale" ELSE IF out = "ok" THEN "error" ELSE out, FALSE)
       /\ UNCHANGED <<creating, place, more, link>>

Reverted(r, out, older) ==
    LET t == r.thread IN
    /\ r.kind = "revert"
    /\ more' = [more EXCEPT ![t] = IF out = "ok" /\ r.tied THEN older ELSE @]
    /\ FinishRevert(Done(r), t, IF r.tied THEN out ELSE "stale", older)
    /\ UNCHANGED <<creating, place, status, link>>

\* The answer to thread/start of the draft.
DraftFailed(w) == FailQueued(w, Draft)
Created(t) ==
    LET moved == [Work EXCEPT !.prompt = [p \in Prompt |->
                     IF prompt[p].thread = Draft THEN [prompt[p] EXCEPT !.thread = t] ELSE prompt[p]],
                  !.runtime[t] = Runtime("ready")]
    IN /\ creating = "current" /\ creating' = "no"
       /\ status[t] = "absent" /\ runtime[t] = NoRuntime /\ selected # t
       /\ \A p \in Prompt : prompt[p].thread # t
       /\ status' = [status EXCEPT ![t] = "idle"]
       /\ selected' = IF selected = Draft THEN t ELSE selected
       /\ draft' = FALSE
       /\ Become(DispatchNext(moved, t, FALSE, "idle"))
       /\ UNCHANGED <<stale, more, revert, link>>
NotCreated ==
    /\ creating # "no" /\ creating' = "no"
    /\ Become(DraftFailed(Work))
    /\ UNCHANGED <<place, model, revert, link>>

Answer(r) ==
    \/ Ignored(r)
    \/ \E out \in Outcomes :
         \/ \E st \in Loaded \cup {"notLoaded"} : Resumed(r, out, st) \/ QueueResumed(r, out, st) \/ RevertResumed(r, out, st)
         \/ \E st \in Loaded : TurnAnswered(r, out, st)
         \/ \E complete, older, drops \in BOOLEAN :
              FirstPage(r, out, complete, older, drops) \/ Page(r, out, complete, older, drops)
         \/ \E older \in BOOLEAN : Reverted(r, out, older)
CreationAnswered == NotCreated \/ \E t \in Thread : Created(t)

-----------------------------------------------------------------------------
\* The bridge and the app-server

\* invalidateProviderWork(): of the answers still to come only that to a creation matters.
Affected(w) == {t \in Thread : w.runtime[t].phase # "none"}
               \cup {t \in Thread \cup {Draft} : InState(w, t, "queued") # {}}
Invalidate(w) ==
    [w EXCEPT !.prompt = [p \in Prompt |->
                  IF w.prompt[p].thread \in Affected(w) /\ w.prompt[p].state \in Unsettled
                  THEN [w.prompt[p] EXCEPT !.state = "failed"] ELSE w.prompt[p]],
              !.runtime = [t \in Thread |-> NoRuntime], !.requests = {}]
\* connection.lifecycle and connection.provider, of a lost provider.  A reset clears the model
\* with its generation.
LoseProvider(reset, late) ==
    /\ online /\ online' = FALSE /\ control' \in {control, FALSE}
    /\ late => creating # "no"
    /\ creating' = IF late THEN "late" ELSE "no"
    /\ Become(Invalidate(Work))
    /\ revert' = [t \in Thread |-> "none"]
    /\ IF reset THEN /\ status' = [t \in Thread |-> "absent"]
                     /\ stale' = [t \in Thread |-> FALSE] /\ more' = stale'
       ELSE UNCHANGED model
    /\ UNCHANGED place

\* connection.provider: hydrateCatalogs().
ProviderReady ==
    /\ ~online /\ online' = TRUE
    /\ Become(DispatchAll(EnsureHydrated([Work EXCEPT !.online = TRUE], selected, FALSE)))
    /\ UNCHANGED <<creating, place, model, revert, control>>

\* connection.bridge, connection.controller: the role may have changed.
ControlChanges ==
    /\ control' \in BOOLEAN
    /\ LET now == [Work EXCEPT !.control = control']
       IN Become(IF online THEN DispatchAll(EnsureHydrated(now, selected, TRUE)) ELSE now)
    /\ UNCHANGED <<creating, place, model, revert, online>>

ModelOnly == UNCHANGED <<work, creating, place, revert, link>>

\* thread.upsert and the catalog, of a thread that was not known.
Appears(t) ==
    /\ online /\ status[t] = "absent"
    /\ \E st \in {"notLoaded", "idle"} : status' = [status EXCEPT ![t] = st]
    /\ UNCHANGED <<stale, more>> /\ ModelOnly
\* thread.status.changed, thread.lifecycle, and what else changes the status.
StatusChanges(t) ==
    /\ online /\ status[t] # "absent"
    /\ \E st \in {"notLoaded", "idle", "active"} \ {status[t]} : status' = [status EXCEPT ![t] = st]
    /\ UNCHANGED <<stale, more>> /\ ModelOnly

\* A user message of the thread that has the client id of the prompt: reconcile().
Materialized(p) ==
    LET s == prompt[p]
        seen == [s EXCEPT !.item = TRUE, !.state = IF s.state = "accepted" THEN "gone" ELSE s.state]
    IN /\ online /\ s.sent /\ s.thread \in Thread /\ ~s.item
       /\ prompt' = [prompt EXCEPT ![p] = seen]
       /\ UNCHANGED <<runtime, requests, creating, place, model, revert, link>>

\* queueActiveAgentChildren(), pumpHistoricalHydrations()
HydrateChild(t) ==
    /\ online /\ runtime[t].phase \in {"none", "cold"}
    /\ Become(HydrateThread(Work, t, FALSE, FALSE))
    /\ UNCHANGED <<creating, place, model, revert, link>>

\* thread.reverted
RevertAnnounced(t) ==
    LET failed == FailPending(Work, t) IN
    /\ online /\ status[t] # "absent"
    /\ stale' = [stale EXCEPT ![t] = revert[t] # "result"]
    /\ revert' = [revert EXCEPT ![t] = IF @ = "pending" THEN "notification" ELSE IF @ = "result" THEN "none" ELSE @]
    /\ Become(CASE revert[t] = "result" -> failed
                [] revert[t] \in {"pending", "notification"} -> Replace(failed, t, NoRuntime)
                [] revert[t] = "none" -> LoadFirst(Replace(failed, t, Runtime("ready")), t))
    /\ UNCHANGED <<creating, place, status, more, link>>

\* thread.removed
ThreadRemoved(t) ==
    LET replaced == Replace(Work, t, NoRuntime) IN
    /\ online /\ status[t] # "absent"
    /\ status' = [status EXCEPT ![t] = "absent"]
    /\ stale' = [stale EXCEPT ![t] = FALSE] /\ more' = [more EXCEPT ![t] = FALSE]
    /\ revert' = [revert EXCEPT ![t] = "none"]
    /\ selected' = IF selected = t THEN None ELSE selected
    /\ Become([replaced EXCEPT
                 !.prompt = [p \in Prompt |-> IF prompt[p].thread = t
                                THEN [prompt[p] EXCEPT !.state = "gone", !.thread = None] ELSE prompt[p]],
                 !.requests = {r \in @ : r.thread # t \/ r.kind \notin {"revert", "revert resume"}}])
    /\ UNCHANGED <<creating, draft, link>>

-----------------------------------------------------------------------------
User ==
    \/ \E p \in Prompt : Submit(p)
    \/ \E t \in Thread \cup {Draft} : Select(t)
    \/ BeginNewThread
    \/ \E t \in Thread : Reload(t) \/ LoadOlder(t) \/ RemoveTurns(t)
Environment ==
    \/ \E reset, late \in BOOLEAN : LoseProvider(reset, late)
    \/ ProviderReady \/ ControlChanges
    \/ \E p \in Prompt : Materialized(p)
    \/ \E t \in Thread : Appears(t) \/ StatusChanges(t) \/ HydrateChild(t) \/ RevertAnnounced(t) \/ ThreadRemoved(t)
Next == User \/ Environment \/ CreationAnswered \/ \E r \in requests : Answer(r)

\* Every request is answered; the user and the other programs need not do anything.
Fairness ==
    /\ WF_vars(CreationAnswered)
    /\ \A p \in Prompt : WF_vars(\E r \in requests : r.prompt = p /\ Answer(r))
    /\ \A t \in Thread, kind \in HistoryKinds \cup {"queue"} :
         WF_vars(\E r \in requests : r.thread = t /\ r.kind = kind /\ Answer(r))
Spec == Init /\ [][Next]_vars /\ Fairness

-----------------------------------------------------------------------------
\* What makes the queue of a thread and its history work.

Waiting(t, kinds) == \E r \in requests : r.thread = t /\ r.kind \in kinds /\ r.tied

\* Everything that waits, waits for an answer that will come: a page in flight and a
\* hydration or resume in progress have a request that ends them, so has a removal; a
\* prompt that may be sent waits for the one before it, a hydration or a resume, or the
\* user's reload after a failed one, one that is on its way for the answer to its turn, and
\* the prompts of a draft for its creation.  No other event calls the queue, the pager or the
\* removal again.
WaitsAreReal ==
    /\ \A p \in Prompt : prompt[p].state = "inFlight" =>
         \E r \in requests : r.kind = "turn" /\ r.prompt = p /\ r.thread = prompt[p].thread
    /\ \A t \in Thread :
         /\ runtime[t].page => Waiting(t, {"resume", "page", "first", "more"})
         /\ runtime[t].phase = "hydrating" => Waiting(t, {"resume", "page"})
         /\ runtime[t].phase = "resuming" => Waiting(t, {"resume", "queue"})
         /\ revert[t] \in {"pending", "notification"} =>
              \E r \in requests : r.thread = t /\ r.kind \in {"revert", "revert resume"}
         /\ CanSubmit(Work) /\ InState(Work, t, "queued") # {} =>
              \/ InState(Work, t, "inFlight") # {}
              \/ runtime[t].phase \in {"hydrating", "resuming", "failed"}
    /\ InState(Work, Draft, "queued") # {} => creating # "no"

\* While the user's removal of turns is under way no prompt of the thread waits or is on its
\* way: neither may reach the app-server around the revert.
RemovalIsAlone ==
    \A t \in Thread : revert[t] \in {"pending", "notification"} => Settled(Work, t)

\* A prompt is handed to the app-server once, in the order of admission within its thread and
\* only when no other of that thread is on its way; one that failed is not sent again, and
\* cannot become accepted by a late answer.
SentOnceInOrder ==
    [][\A p \in Prompt :
         /\ prompt'[p].state = "inFlight" /\ prompt[p].state # "inFlight" =>
              /\ ~prompt[p].sent
              /\ \A q \in Prompt \ {p} : prompt'[q].thread = prompt'[p].thread =>
                   prompt'[q].state # "inFlight" /\ (q < p => prompt'[q].state # "queued")
         /\ prompt[p].state = "failed" => prompt'[p].state \in {"failed", "gone"}]_vars

\* An admitted prompt is accepted, fails or goes away with its thread, unless the session
\* loses the provider or control, or a hydration of its thread has failed.
EveryPromptSettles ==
    \A p \in Prompt : prompt[p].state \in Unsettled ~>
        \/ prompt[p].state \notin Unsettled \/ ~CanSubmit(Work)
        \/ prompt[p].thread \in Thread /\ runtime[prompt[p].thread].phase = "failed"
=============================================================================
