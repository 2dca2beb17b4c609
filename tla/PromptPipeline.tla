--------------------------- MODULE PromptPipeline ---------------------------
(***************************************************************************)
(* The way of a prompt through the worker: admission, the queue and the    *)
(* slot of its thread, creation of the thread, parking while the thread is *)
(* hydrated, resuming, the turn request, its answer, materialization, and  *)
(* what reverts, deletions and provider resets do to prompts on that way.  *)
(* src/codex/nodegraph/WorkerLogic.cpp and src/codex/ClientRuntime.cpp.    *)
(*                                                                         *)
(* The worker runs one callback at a time.  A callback may end by handing  *)
(* a PromptCommand to dispatchPrompt, which may fail it and take the next; *)
(* `command' is the command in hand, and nothing else of the worker runs   *)
(* until it is placed.                                                     *)
(*                                                                         *)
(* Provider and bridge are external: they answer requests, announce        *)
(* threads, reverts, closings and deletions, and come and go.              *)
(*                                                                         *)
(* Not here: turn/start and turn/steer are one "turn"; a page of history   *)
(* is always the last one; the user's own thread/revert.                   *)
(***************************************************************************)
EXTENDS Naturals, Sequences, FiniteSets, SequencesExt

CONSTANTS
  Thread,      (* provider threads                                        *)
  Draft,       (* local threads "local-thread:N"                          *)
  MaxPrompts,  (* bound: prompts the user sends                           *)
  None, Recovery

ASSUME NamesAssumption ==
  /\ Thread \cap Draft = {}
  /\ None \notin Thread \cup Draft /\ Recovery \notin Thread \cup Draft
  /\ None \notin Nat
  /\ None \notin [prompt : Nat, node : Thread \cup Draft, creates : BOOLEAN]
ASSUME MaxPromptsAssumption == MaxPrompts \in Nat

Node == Thread \cup Draft
Prompt == 1 .. MaxPrompts

VARIABLES
  prompt,      (* the local prompt nodes                                  *)
  queue,       (* promptQueues_                                           *)
  slot,        (* promptInFlight_                                         *)
  creating,    (* drafts creatingThreads_ leads to                        *)
  command,     (* the PromptCommand in hand, or None                      *)
  live,        (* threads and drafts in the graph                         *)
  retired,     (* threads deleted since the last reset                    *)
  loaded,      (* threads whose status is not NotLoaded                   *)
  hydration,   (* hydrationState                                          *)
  hydrating,   (* pendingHydrations                                       *)
  interactive, (* interactiveHydrations                                   *)
  parked,      (* promptsWaitingForHydration                              *)
  resumed,     (* resumedPromptAdmissions                                 *)
  requests,    (* requests whose answer has not come                      *)
  connected, ready, controller

promptVars == <<prompt, queue, slot, creating>>
threadVars == <<live, retired, loaded, hydration>>
hydrationVars == <<hydrating, interactive, parked, resumed>>
linkVars == <<connected, ready, controller>>
vars == <<promptVars, command, threadVars, hydrationVars, requests, linkVars>>

NewPrompt == [state |-> "new", home |-> Recovery, creates |-> FALSE,
              recovery |-> FALSE, materialized |-> FALSE, sent |-> FALSE]

Init ==
  /\ prompt = [p \in Prompt |-> NewPrompt]
  /\ queue = [n \in Node |-> <<>>] /\ slot = [n \in Node |-> None]
  /\ creating = {} /\ command = None
  /\ live = {} /\ retired = {} /\ loaded = {}
  /\ hydration = [t \in Thread |-> "none"]
  /\ hydrating = {} /\ interactive = {} /\ resumed = {}
  /\ parked = [t \in Thread |-> None]
  /\ requests = {}
  /\ connected = FALSE /\ ready = FALSE /\ controller = FALSE

Idle == command = None
Usable == ready /\ controller

----------------------------------------------------------------------------
(* Requests: what they are about, whether their operation node is still    *)
(* there, and for the steps of a hydration what the steps before did.      *)

HistoryKinds == {"resume prompt", "resume hydration", "turns", "settings",
                 "history"}

About(kind, n, p) == [kind |-> kind, node |-> n, prompt |-> p,
                      current |-> TRUE, cached |-> FALSE, resume |-> "not"]
ResumeRequest(t, cached) ==
  [About("resume hydration", t, None) EXCEPT !.cached = cached]
TurnsRequest(t, resume) == [About("turns", t, None) EXCEPT !.resume = resume]

Requests(kind) == {r \in requests : r.kind = kind}
On(n) == {r \in requests : r.node = n}

conversationSnapshotPending(t) ==
  \E r \in On(t) : r.current /\ r.kind \in HistoryKinds

(* What is left of requests whose operation nodes have been removed: the   *)
(* answers to the others do nothing.                                       *)
Stale(rs) == {[r EXCEPT !.current = FALSE] :
                r \in {q \in rs : q.kind \in {"resume hydration", "settings"}}}

----------------------------------------------------------------------------
(* WorkerLogic *)

PromptLive(p) == prompt[p].state \notin {"new", "gone"}
Failed(r) == [r EXCEPT !.state = "failed", !.recovery = TRUE]
Lost(r) == [Failed(r) EXCEPT !.home = Recovery]
Gone == [NewPrompt EXCEPT !.state = "gone", !.sent = TRUE]

Command(p, n, creates) == [prompt |-> p, node |-> n, creates |-> creates]

(* What std::erase_if leaves of a queue without the prompts ps, in order.  *)
Kept(q, ps) == {i \in DOMAIN q : q[i] \notin ps}
Rank(i, positions) == Cardinality({j \in positions : j <= i})
Without(q, ps) ==
  [j \in 1 .. Cardinality(Kept(q, ps)) |->
     q[CHOOSE i \in Kept(q, ps) : Rank(i, Kept(q, ps)) = j]]

(* Mutant: the queue keeps forgotten prompts.                              *)
ForgetSlots(ps) ==
  /\ slot' = [n \in Node |-> IF slot[n] \in ps THEN None ELSE slot[n]]
  /\ UNCHANGED queue

(* forgetPrompt: the slot is freed, but the queue does not advance.        *)
ForgetPrompts(ps) ==
  /\ slot' = [n \in Node |-> IF slot[n] \in ps THEN None ELSE slot[n]]
  /\ queue' = [n \in Node |-> Without(queue[n], ps)]

(* Mutant: the slot is not looked at.                                      *)
NextRegardless(occupant, waiting) ==
  IF waiting = <<>> THEN None ELSE Head(waiting)

(* takeNextPrompt (its queue holds live prompts only, QueueIsServed).      *)
NextOf(occupant, waiting) ==
  IF occupant # None \/ waiting = <<>> THEN None ELSE Head(waiting)

(* A failed thread/start leaves its draft without a destination.           *)
Orphans(p, accepted) ==
  ~accepted /\ ~prompt[p].materialized /\ prompt[p].home \in Draft

(* completePrompt of a prompt that is alive and needs no recovery.         *)
Settle(p, accepted) ==
  LET n == prompt[p].home
      orphaned == Orphans(p, accepted)
      freed == IF slot[n] = p THEN None ELSE slot[n]
      next == IF ~accepted /\ n \in Draft THEN None ELSE NextOf(freed, queue[n])
      settled == IF prompt[p].materialized THEN Gone
                 ELSE IF accepted THEN [prompt[p] EXCEPT !.state = "awaiting"]
                 ELSE Failed(prompt[p])
  IN /\ prompt' = [q \in Prompt |->
           CASE q = p -> settled
             [] q = next -> [prompt[q] EXCEPT !.state = "dispatching"]
             [] orphaned /\ Contains(queue[n], q) -> Failed(prompt[q])
             [] OTHER -> prompt[q]]
     /\ slot' = [slot EXCEPT ![n] = IF next # None THEN next ELSE freed]
     /\ queue' = [queue EXCEPT ![n] = IF orphaned THEN <<>>
                                      ELSE IF next # None THEN Tail(@) ELSE @]
     /\ creating' = IF orphaned THEN creating \ {n} ELSE creating
     /\ command' = IF next = None THEN None
                   ELSE Command(next, n, prompt[next].creates)

(* Mutant: a prompt in recovery is completed like any other of its thread. *)
CompleteInRecovery(p, accepted) ==
  \/ /\ ~PromptLive(p) \/ prompt[p].home = Recovery
     /\ command' = None /\ UNCHANGED promptVars
  \/ PromptLive(p) /\ prompt[p].home # Recovery /\ Settle(p, accepted)

(* completePrompt and completePromptResult: what needs explicit recovery   *)
(* is only forgotten, and what is gone is left alone.                      *)
Complete(p, accepted) ==
  \/ /\ ~PromptLive(p)
     /\ command' = None /\ UNCHANGED promptVars
  \/ /\ PromptLive(p) /\ prompt[p].recovery
     /\ ForgetPrompts({p})
     /\ command' = None /\ UNCHANGED <<prompt, creating>>
  \/ /\ PromptLive(p) /\ ~prompt[p].recovery
     /\ Settle(p, accepted)

JoinQueue(n, p) == Append(queue[n], p)

(* admit, for a prompt whose destination is n.                             *)
Enqueue(p, n, creates) ==
  LET waiting == JoinQueue(n, p)
      next == NextOf(slot[n], waiting)
      added == [prompt EXCEPT ![p] =
        [NewPrompt EXCEPT !.state = "queued", !.home = n, !.creates = creates]]
  IN /\ prompt' = IF next = None THEN added
                  ELSE [added EXCEPT ![next].state = "dispatching"]
     /\ slot' = [slot EXCEPT ![n] = IF next = None THEN @ ELSE next]
     /\ queue' = [queue EXCEPT ![n] = IF next = None THEN waiting ELSE Tail(waiting)]
     /\ command' = IF next = None THEN None
                   ELSE Command(next, n, added[next].creates)

Unready(n) == n \in Thread /\ (\/ hydration[n] \in {"loading", "failed"}
                               \/ n \notin loaded /\ hydration[n] # "ready")

NextNew(p) == prompt[p].state = "new" /\ \A q \in 1 .. p - 1 : prompt[q].state # "new"

(* SubmitPrompt on a thread, a draft or a node that is no destination.     *)
SubmitPrompt(p, n) ==
  /\ Idle /\ NextNew(p)
  /\ IF n \notin live \/ Unready(n)
     THEN /\ prompt' = [prompt EXCEPT ![p] = Lost(NewPrompt)]
          /\ command' = None /\ UNCHANGED <<queue, slot>>
     ELSE Enqueue(p, n, FALSE)
  /\ UNCHANGED <<creating, threadVars, hydrationVars, requests, linkVars>>

(* CreateThread: the first prompt of a draft, or one that joins it.        *)
SubmitFirstPrompt(p, d) ==
  /\ Idle /\ NextNew(p)
  /\ d \in creating \/ d \notin live
  /\ Enqueue(p, d, d \notin creating)
  /\ creating' = creating \cup {d}
  /\ live' = live \cup {d}
  /\ UNCHANGED <<retired, loaded, hydration, hydrationVars, requests, linkVars>>

(* The provider's item for the prompt is on the screen, and Qt says so.    *)
(* The provider has no items of local threads.                             *)
PromptMaterialized(p) ==
  /\ Idle /\ PromptLive(p) /\ prompt[p].sent /\ prompt[p].home \notin Draft
  /\ IF prompt[p].home \in Node /\ slot[prompt[p].home] = p
     THEN /\ prompt' = [prompt EXCEPT ![p].materialized = TRUE]
          /\ UNCHANGED <<queue, slot>>
     ELSE /\ prompt' = [prompt EXCEPT ![p] = Gone]
          /\ ForgetPrompts({p})
  /\ UNCHANGED <<creating, command, threadVars, hydrationVars, requests, linkVars>>

----------------------------------------------------------------------------
(* dispatchPrompt *)

InHand(n, p) == command # None /\ command.node = n /\ command.prompt = p
HydrationOf(n) == IF n \in Thread THEN hydration[n] ELSE "none"

(* Mutant: without a provider the command is dropped.                      *)
DispatchDropped(n, p) ==
  /\ InHand(n, p)
  /\ \/ ~Usable /\ command' = None /\ UNCHANGED promptVars
     \/ /\ Usable /\ ~command.creates /\ n \notin hydrating
        /\ n \notin live \/ HydrationOf(n) = "failed"
        /\ Complete(p, FALSE)
  /\ UNCHANGED <<threadVars, hydrationVars, requests, linkVars>>

DispatchRefused(n, p) ==
  /\ InHand(n, p)
  /\ \/ ~Usable
     \/ /\ ~command.creates /\ n \notin hydrating
        /\ n \notin live \/ HydrationOf(n) = "failed"
  /\ Complete(p, FALSE)
  /\ UNCHANGED <<threadVars, hydrationVars, requests, linkVars>>

DispatchThreadStart(n, p) ==
  /\ InHand(n, p) /\ Usable /\ command.creates
  /\ requests' = requests \cup {About("thread start", n, p)}
  /\ command' = None
  /\ UNCHANGED <<promptVars, threadVars, hydrationVars, linkVars>>

DispatchParked(n, p) ==
  /\ InHand(n, p) /\ Usable /\ ~command.creates /\ n \in hydrating
  /\ parked' = [parked EXCEPT ![n] = p]
  /\ command' = None
  /\ UNCHANGED <<promptVars, threadVars, hydrating, interactive, resumed,
                 requests, linkVars>>

(* A destination that takes the prompt now.                                *)
Open(n) == /\ Usable /\ ~command.creates /\ n \notin hydrating
           /\ n \in live /\ HydrationOf(n) # "failed"
NeedsResume(n, p) == n \in Thread \ loaded /\ p \notin resumed

DispatchResume(n, p) ==
  /\ InHand(n, p) /\ Open(n) /\ NeedsResume(n, p)
  /\ requests' = requests \cup {About("resume prompt", n, p)}
  /\ command' = None
  /\ UNCHANGED <<promptVars, threadVars, hydrationVars, linkVars>>

(* turn/start or turn/steer, and markPromptDispatched.                     *)
DispatchTurn(n, p) ==
  /\ InHand(n, p) /\ Open(n) /\ ~NeedsResume(n, p)
  /\ requests' = requests \cup {About("turn", n, p)}
  /\ prompt' = [prompt EXCEPT ![p] =
        IF PromptLive(p) THEN [@ EXCEPT !.state = "inFlight", !.sent = TRUE]
        ELSE @]
  /\ resumed' = resumed \ {p}
  /\ command' = None
  /\ UNCHANGED <<queue, slot, creating, threadVars, hydrating, interactive,
                 parked, linkVars>>

Dispatch(n, p) ==
  \/ DispatchRefused(n, p) \/ DispatchThreadStart(n, p) \/ DispatchParked(n, p)
  \/ DispatchResume(n, p) \/ DispatchTurn(n, p)

----------------------------------------------------------------------------
(* Hydration *)

(* Mutant: a parked prompt is forgotten with the hydration.                *)
ContinueForgotten(t) ==
  /\ parked' = [parked EXCEPT ![t] = None]
  /\ UNCHANGED <<promptVars, command, resumed>>

(* continuePromptAfterHydration without and with an error.                 *)
Continue(t, explicitly) ==
  /\ parked' = [parked EXCEPT ![t] = None]
  /\ command' = IF parked[t] = None THEN None ELSE Command(parked[t], t, FALSE)
  /\ resumed' = IF explicitly /\ parked[t] # None THEN resumed \cup {parked[t]}
                ELSE resumed
  /\ UNCHANGED promptVars

ContinueFailed(t) ==
  /\ parked' = [parked EXCEPT ![t] = None]
  /\ IF parked[t] = None THEN command' = None /\ UNCHANGED promptVars
     ELSE Complete(parked[t], FALSE)
  /\ UNCHANGED resumed

Loading(t) == hydration' = [hydration EXCEPT ![t] = "loading"]

(* startThreadHydration for a selected or reloaded thread: the settings    *)
(* are resumed first where we are the controller.                          *)
Hydrate(t, force) ==
  LET cached == ~force /\ hydration[t] = "ready" IN
  /\ Idle /\ t \in live
  /\ \/ /\ conversationSnapshotPending(t)
        /\ interactive' = interactive \cup {t}
        /\ UNCHANGED <<promptVars, command, hydration, hydrating, parked, resumed,
                       requests>>
     \/ /\ ~conversationSnapshotPending(t) /\ cached /\ ~controller
        /\ hydrating' = hydrating \ {t} /\ interactive' = interactive \ {t}
        /\ Continue(t, FALSE)
        /\ UNCHANGED <<hydration, requests>>
     \/ /\ ~conversationSnapshotPending(t) /\ (controller \/ ~cached)
        /\ hydrating' = hydrating \cup {t} /\ interactive' = interactive \cup {t}
        /\ IF cached THEN UNCHANGED hydration ELSE Loading(t)
        /\ requests' = requests \cup {IF controller THEN ResumeRequest(t, cached)
                                      ELSE TurnsRequest(t, "not")}
        /\ UNCHANGED <<promptVars, command, parked, resumed>>
  /\ UNCHANGED <<live, retired, loaded, linkVars>>

(* startThreadHydration for the thread of an active agent.                 *)
HydrateInBackground(t) ==
  /\ Idle /\ t \in live \ hydrating /\ hydration[t] # "ready"
  /\ ~conversationSnapshotPending(t)
  /\ hydrating' = hydrating \cup {t} /\ Loading(t)
  /\ requests' = requests \cup {TurnsRequest(t, "not")}
  /\ UNCHANGED <<promptVars, command, live, retired, loaded, interactive, parked,
                 resumed, linkVars>>

(* loadHistory *)
LoadHistory(t) ==
  /\ Idle /\ t \in live /\ ~conversationSnapshotPending(t)
  /\ requests' = requests \cup {About("history", t, None)}
  /\ UNCHANGED <<promptVars, command, threadVars, hydrationVars, linkVars>>

----------------------------------------------------------------------------
(* Answers *)

(* The app-server answers what it was asked about the history of a thread  *)
(* in the order of asking; a stale request is older than a current one.    *)
InTurn(r) == r.current => ~\E q \in On(r.node) : ~q.current

Resumed(t, ok) == loaded' = IF ok /\ t \in live THEN loaded \cup {t} ELSE loaded

(* The answer to thread/resume of a hydration, stale and not.              *)
AnswerResumeHydration(r, ok) ==
  LET t == r.node IN
  /\ Idle /\ r \in Requests("resume hydration") /\ InTurn(r)
  /\ \/ /\ ~r.current
        /\ hydrating' = hydrating \ {t} /\ interactive' = interactive \ {t}
        /\ parked' = [parked EXCEPT ![t] = None]
        /\ requests' = requests \ {r}
        /\ UNCHANGED <<promptVars, command, loaded, resumed>>
     \/ /\ r.current /\ r.cached
        /\ Resumed(t, ok)
        /\ hydrating' = hydrating \ {t} /\ interactive' = interactive \ {t}
        /\ Continue(t, ok)
        /\ requests' = requests \ {r}
     \/ /\ r.current /\ ~r.cached
        /\ Resumed(t, ok)
        /\ requests' = (requests \ {r})
                         \cup {TurnsRequest(t, IF ok THEN "ok" ELSE "failed")}
        /\ UNCHANGED <<promptVars, command, hydrationVars>>
  /\ UNCHANGED <<live, retired, hydration, linkVars>>

(* completeTurnPage; the answer to thread/turns/list may be an error or    *)
(* about another thread.                                                   *)
AnswerTurns(r, outcome) ==
  LET t == r.node
      promoted == t \in interactive /\ controller /\ r.resume = "not"
  IN
  /\ Idle /\ r \in Requests("turns") /\ InTurn(r)
  /\ hydrating' = hydrating \ {t} /\ interactive' = interactive \ {t}
  /\ hydration' = IF t \notin live THEN hydration
                  ELSE [hydration EXCEPT ![t] = IF outcome = "ok" THEN "ready"
                                                ELSE "failed"]
  /\ \/ /\ outcome = "error" \/ t \notin live
        /\ ContinueFailed(t)
        /\ requests' = requests \ {r}
     \/ /\ outcome # "error" /\ t \in live /\ promoted
        /\ requests' = (requests \ {r}) \cup {About("settings", t, None)}
        /\ UNCHANGED <<promptVars, command, parked, resumed>>
     \/ /\ outcome # "error" /\ t \in live /\ ~promoted
        /\ Continue(t, r.resume = "ok")
        /\ requests' = requests \ {r}
  /\ UNCHANGED <<live, retired, loaded, linkVars>>

(* The answer to the thread/resume that follows a background page.         *)
AnswerSettings(r, ok) ==
  LET t == r.node IN
  /\ Idle /\ r \in Requests("settings") /\ InTurn(r)
  /\ requests' = requests \ {r}
  /\ \/ /\ ~r.current
        /\ parked' = [parked EXCEPT ![t] = None]
        /\ UNCHANGED <<promptVars, command, loaded, resumed>>
     \/ /\ r.current
        /\ Resumed(t, ok)
        /\ Continue(t, ok)
  /\ UNCHANGED <<live, retired, hydration, hydrating, interactive, linkVars>>

(* The answer to the page of loadHistory.                                  *)
AnswerHistory(r, ok) ==
  LET t == r.node IN
  /\ Idle /\ r \in Requests("history") /\ InTurn(r)
  /\ requests' = requests \ {r}
  /\ hydration' = IF t \notin live THEN hydration
                  ELSE [hydration EXCEPT ![t] = IF ok THEN "ready" ELSE "failed"]
  /\ UNCHANGED <<promptVars, command, live, retired, loaded, hydrationVars, linkVars>>

(* The answer to the thread/resume before a turn.                          *)
AnswerResumePrompt(r, ok) ==
  /\ Idle /\ r \in Requests("resume prompt") /\ InTurn(r)
  /\ requests' = requests \ {r}
  /\ Resumed(r.node, ok)
  /\ IF ok
     THEN /\ resumed' = resumed \cup {r.prompt}
          /\ command' = Command(r.prompt, r.node, FALSE)
          /\ UNCHANGED promptVars
     ELSE Complete(r.prompt, FALSE) /\ UNCHANGED resumed
  /\ UNCHANGED <<live, retired, hydration, hydrating, interactive, parked, linkVars>>

(* The answer to a turn; nobody accepts a turn on a local thread.          *)
AnswerTurn(r, ok) ==
  /\ Idle /\ r \in Requests("turn") /\ (ok => r.node \in Thread)
  /\ requests' = requests \ {r}
  /\ Complete(r.prompt, ok)
  /\ UNCHANGED <<threadVars, hydrationVars, linkVars>>

(* The answer to thread/start is an error or names no thread.              *)
RefuseThreadStart(r) ==
  /\ Idle /\ r \in Requests("thread start")
  /\ requests' = requests \ {r}
  /\ Complete(r.prompt, FALSE)
  /\ UNCHANGED <<threadVars, hydrationVars, linkVars>>

(* completeCreatedThread: everything of the draft moves to the new thread. *)
(* The thread may have been announced and selected, but nobody has sent to *)
(* it or reverted it yet.                                                  *)
CreateThread(r, t) ==
  LET d == r.node
      moved == {p \in Prompt : prompt[p].home = d}
  IN
  /\ Idle /\ r \in Requests("thread start") /\ r.current
  /\ d \in live /\ PromptLive(r.prompt)
  /\ t \notin retired /\ \A p \in Prompt : prompt[p].home # t
  /\ \A q \in On(t) : q.current
  /\ live' = (live \cup {t}) \ {d}
  /\ loaded' = loaded \cup {t}
  /\ hydration' = [hydration EXCEPT ![t] = "ready"]
  /\ prompt' = [p \in Prompt |-> IF p \in moved THEN [prompt[p] EXCEPT !.home = t]
                                 ELSE prompt[p]]
  /\ queue' = [queue EXCEPT ![t] = @ \o queue[d], ![d] = <<>>]
  /\ slot' = [slot EXCEPT ![t] = IF slot[d] = None THEN @ ELSE slot[d], ![d] = None]
  /\ creating' = creating \ {d}
  /\ command' = Command(r.prompt, t, FALSE)
  /\ requests' = requests \ {r}
  /\ UNCHANGED <<retired, hydrationVars, linkVars>>

(* An answer after the connection is gone: the draft is gone as well.      *)
LateThreadStart(r) ==
  /\ Idle /\ r \in Requests("thread start") /\ ~r.current
  /\ requests' = requests \ {r}
  /\ Complete(r.prompt, FALSE)
  /\ UNCHANGED <<threadVars, hydrationVars, linkVars>>

----------------------------------------------------------------------------
(* What the provider announces *)

ThreadAppears(t, isLoaded) ==
  /\ Idle /\ ready /\ t \notin live \cup retired
  /\ live' = live \cup {t}
  /\ loaded' = IF isLoaded THEN loaded \cup {t} ELSE loaded
  /\ UNCHANGED <<promptVars, command, retired, hydration, hydrationVars, requests,
                 linkVars>>

(* thread/closed, or thread/status/changed either way.                     *)
ThreadStatus(t) ==
  /\ Idle /\ ready /\ t \in live
  /\ loaded' \in {loaded \ {t}, loaded \cup {t}} \ {loaded}
  /\ UNCHANGED <<promptVars, command, live, retired, hydration, hydrationVars,
                 requests, linkVars>>

(* thread/reverted: applyDetailed, then refreshRevertedHistory.            *)
Reverted(t) ==
  LET unsettled == {p \in Prompt : /\ PromptLive(p) /\ prompt[p].home = t
                                   /\ prompt[p].state # "failed"}
      reads == {r \in On(t) : r.kind \in HistoryKinds}
  IN
  /\ Idle /\ ready /\ t \in live
  /\ prompt' = [p \in Prompt |-> IF p \in unsettled THEN Failed(prompt[p])
                                 ELSE prompt[p]]
  /\ ForgetPrompts(unsettled)
  /\ requests' = (requests \ reads) \cup Stale(reads) \cup {TurnsRequest(t, "not")}
  /\ hydrating' = hydrating \cup {t} /\ interactive' = interactive \ {t}
  /\ Loading(t)
  /\ UNCHANGED <<creating, command, live, retired, loaded, parked, resumed, linkVars>>

(* removeThread, from a notification or a result.  The operation nodes of  *)
(* the thread go with it; its prompts stay, and with them those of turns.  *)
Deleted(t) ==
  LET reads == {r \in On(t) : r.kind \in HistoryKinds}
  IN
  /\ Idle /\ ready /\ t \in live
  /\ live' = live \ {t} /\ retired' = retired \cup {t} /\ loaded' = loaded \ {t}
  /\ hydration' = [hydration EXCEPT ![t] = "none"]
  /\ prompt' = [p \in Prompt |->
        IF PromptLive(p) /\ prompt[p].home = t
        THEN [Lost(prompt[p]) EXCEPT !.materialized = FALSE] ELSE prompt[p]]
  /\ queue' = [queue EXCEPT ![t] = <<>>] /\ slot' = [slot EXCEPT ![t] = None]
  /\ requests' = (requests \ reads) \cup Stale(reads)
  /\ UNCHANGED <<creating, command, hydrationVars, linkVars>>

----------------------------------------------------------------------------
(* Connection, provider and controller *)

(* resetProviderDerived and clearTransientState.                           *)
Reset ==
  /\ prompt' = [p \in Prompt |-> IF PromptLive(p) THEN Lost(prompt[p]) ELSE prompt[p]]
  /\ queue' = [n \in Node |-> <<>>] /\ slot' = [n \in Node |-> None]
  /\ creating' = {}
  /\ live' = {} /\ retired' = {} /\ loaded' = {}
  /\ hydration' = [t \in Thread |-> "none"]
  /\ hydrating' = {} /\ interactive' = {} /\ resumed' = {}
  /\ parked' = [t \in Thread |-> None]
  /\ ready' = FALSE /\ controller' = FALSE
  /\ UNCHANGED command

(* transportEvent("connected") or a later provider generation: answers to  *)
(* older requests no longer count (dispatchRequestHandled).                *)
NewGeneration ==
  /\ Idle
  /\ connected' = TRUE /\ requests' = {}
  /\ Reset

(* Disconnected, retrying or failed, which keeps the generation: answers   *)
(* may still come.                                                         *)
Disconnect ==
  /\ Idle
  /\ connected' = FALSE
  /\ requests' = Stale(requests)
                  \cup {[r EXCEPT !.current = FALSE] :
                          r \in Requests("turn") \cup Requests("thread start")}
  /\ Reset

(* bridgeState without a new generation.                                   *)
BridgeState ==
  /\ Idle /\ connected
  /\ ready' \in BOOLEAN /\ controller' \in BOOLEAN
  /\ UNCHANGED <<promptVars, command, threadVars, hydrationVars, requests, connected>>

----------------------------------------------------------------------------
AnswerOn(t) ==
  \E r \in On(t) :
    \/ \E ok \in BOOLEAN :
         \/ AnswerResumeHydration(r, ok) \/ AnswerSettings(r, ok)
         \/ AnswerHistory(r, ok) \/ AnswerResumePrompt(r, ok)
    \/ \E outcome \in {"ok", "mismatched", "error"} : AnswerTurns(r, outcome)

AnswerFor(p) ==
  \E r \in requests :
    /\ r.prompt = p
    /\ \/ \E ok \in BOOLEAN : AnswerTurn(r, ok)
       \/ RefuseThreadStart(r) \/ LateThreadStart(r)
       \/ \E t \in Thread : CreateThread(r, t)

DispatchCommand == \E n \in Node, p \in Prompt : Dispatch(n, p)

User ==
  \/ \E p \in Prompt :
       \/ \E n \in Node \cup {Recovery} : SubmitPrompt(p, n)
       \/ \E d \in Draft : SubmitFirstPrompt(p, d)
       \/ PromptMaterialized(p)
  \/ \E t \in Thread :
       \/ \E force \in BOOLEAN : Hydrate(t, force)
       \/ LoadHistory(t)

Environment ==
  \/ \E t \in Thread :
       \/ HydrateInBackground(t) \/ ThreadStatus(t) \/ Reverted(t) \/ Deleted(t)
       \/ \E isLoaded \in BOOLEAN : ThreadAppears(t, isLoaded)
  \/ NewGeneration \/ Disconnect \/ BridgeState

Next ==
  \/ DispatchCommand
  \/ \E t \in Thread : AnswerOn(t)
  \/ \E p \in Prompt : AnswerFor(p)
  \/ User
  \/ Environment

Spec == Init /\ [][Next]_vars

(* The worker places a command before it does anything else, and every     *)
(* request is answered some day.                                           *)
Fairness ==
  /\ WF_vars(DispatchCommand)
  /\ \A t \in Thread : WF_vars(AnswerOn(t))
  /\ \A p \in Prompt : WF_vars(AnswerFor(p))

FairSpec == Spec /\ Fairness

----------------------------------------------------------------------------
(* Properties *)

(* The commands and requests that will settle a prompt.                    *)
Carriers(p) ==
  {c \in {command} : c # None /\ c.prompt = p}
  \cup {<<"parked", t>> : t \in {u \in Thread : parked[u] = p}}
  \cup {r \in requests : r.prompt = p /\ r.current}

(* A thread whose slot is taken gets it back: exactly one command, parked  *)
(* prompt or unanswered request will settle the prompt that holds it.      *)
(* Otherwise the thread never sends again.  A correlation that prompts may *)
(* still join leads to a draft whose creation is carried in this way, so   *)
(* that they get a thread or fail with it.                                 *)
SlotIsCarried ==
  /\ \A n \in Node : slot[n] # None =>
       \E c \in Carriers(slot[n]) : Carriers(slot[n]) = {c}
  /\ \A d \in creating :
       /\ d \in live /\ slot[d] # None
       /\ \/ \E r \in Requests("thread start") : r.node = d /\ r.prompt = slot[d]
          \/ command # None /\ command.prompt = slot[d] /\ command.creates

(* The graph and the worker's private maps agree whatever moved, failed or *)
(* removed prompts: a prompt shown as queued stands once in the queue of   *)
(* its thread, one shown as being sent holds its slot, and no queue waits  *)
(* at a free slot.                                                         *)
QueueIsServed ==
  /\ \A n \in Node :
       /\ slot[n] = None => queue[n] = <<>>
       /\ IsInjective(queue[n])
       /\ n \notin live => slot[n] = None
  /\ \A p \in Prompt, n \in Node :
       /\ Contains(queue[n], p) <=> prompt[p].state = "queued" /\ prompt[p].home = n
       /\ slot[n] = p <=> /\ prompt[p].state \in {"dispatching", "inFlight"}
                         /\ ~prompt[p].recovery /\ prompt[p].home = n

(* "Only one unacknowledged prompt operation is in flight for a thread":   *)
(* of prompts that are not in recovery, over reverts, deletions, creations *)
(* and answers that come early or late.                                    *)
OneUnanswered ==
  \A r, q \in Requests("turn") :
    /\ ~prompt[r.prompt].recovery /\ PromptLive(r.prompt)
    /\ ~prompt[q.prompt].recovery /\ PromptLive(q.prompt)
    /\ prompt[r.prompt].home = prompt[q.prompt].home
    => r = q

NewTurns == {r \in requests' \ requests : r.kind = "turn" /\ r.current}
SendsTurn(p) == \E r \in NewTurns : r.prompt = p

(* No prompt is sent twice, and the prompts of a thread are sent in the    *)
(* order in which they were admitted.  A late answer cannot revive one     *)
(* that needs explicit recovery: it needs it until it is gone, and is not  *)
(* taken for acknowledged.                                                 *)
SentOnceInOrder ==
  [][\A p \in Prompt :
       /\ SendsTurn(p) =>
            /\ ~prompt[p].sent
            /\ \A q \in 1 .. p - 1 : prompt[q].home = prompt[p].home =>
                 prompt[q].state \notin {"queued", "dispatching"}
       /\ prompt[p].recovery =>
            \/ prompt'[p].state = "gone"
            \/ prompt'[p].recovery /\ prompt'[p].state # "awaiting"]_vars

(* Every admitted prompt is settled some day: acknowledged, failed or      *)
(* shown.                                                                  *)
EveryPromptSettles ==
  \A p \in Prompt :
    prompt[p].state = "queued" \/ prompt[p].state = "dispatching"
      ~> prompt[p].state \in {"awaiting", "failed", "gone"} \/ prompt[p].recovery

----------------------------------------------------------------------------
(* What documentation and comments say, and the code does not do *)

(* "Reconnection and hydration do not send it; recovery requires a         *)
(* deliberate user action": no turn is sent for a prompt that has failed.  *)
NotSentAfterFailure ==
  [][\A p \in Prompt : SendsTurn(p) => ~prompt[p].recovery]_vars

(* "A failed thread/start has no canonical destination for later prompts": *)
(* no turn is sent to a local-only thread id.                              *)
NoTurnToLocalThread == \A r \in Requests("turn") : r.node \notin Draft

=============================================================================
