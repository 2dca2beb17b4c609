--------------------------- MODULE ServerRequests ---------------------------
(***************************************************************************)
(* Requests of the app-server that the user answers: ClientRuntime's       *)
(* registerServerRequest, serverRequest/resolved and resolveInteraction,   *)
(* ProtocolUpdater's interaction nodes, and ShellWidget's responses that   *)
(* are kept while they are on their way.                                   *)
(*                                                                         *)
(* A member of Requests is one request of the server and the node made for *)
(* it; several may carry one id.  A connection and the provider generation *)
(* on it are one number.  The server is external: it asks only while its   *)
(* provider is ready, takes one answer to a request and withdraws requests *)
(* at will, but reuses an id only after what it said of the earlier        *)
(* request has arrived.  A connection that failed is closed before another *)
(* request arrives.                                                        *)
(***************************************************************************)
EXTENDS Integers, Sequences

CONSTANTS
    Requests,       \* what the server may ask
    IdOf,           \* its JSON-RPC id, by request
    MaxGeneration,  \* bound: connections and provider generations
    MaxAuthored     \* bound: responses the user writes for one request

VARIABLES
    connected, generation, ready, controller,   \* the connection, as the bridge reports it
    awaited,    \* requests the server still wants answered
    pendingServerRequests,  \* the generation of the entry, or NoEntry
    node,       \* of the interaction: absent, Pending, Failed or removed
    key,        \* its canonical id: the id of the request, scoped or not by a generation
    stamp,      \* the generation it was made in
    recoveryOnly,           \* nodes with this flag
    responseRevision,       \* times the worker has failed a response to it
    retained,   \* retainedResponsePayload, 0 for none
    actions,    \* ResolveInteraction actions on their way to the worker, <<node, response>>
    local,      \* localPendingRequests: awaitingResponseAfter, or Kept, or NoEntry
    authored,   \* history: the number of the last response the user wrote
    submitted,  \* history: the last one that submitPending() was given, 0 for none
    sent        \* history: responses the bridge has accepted, <<node, response>>

connection == <<connected, generation, ready, controller>>
worker == <<pendingServerRequests, node, key, stamp, recoveryOnly, responseRevision, retained>>
shell == <<local, authored, submitted>>
requestVars == <<connection, awaited, worker, actions, shell, sent>>

NoEntry == -2
Kept == -1
Unscoped == 0

RequestInit ==
    /\ connected = FALSE /\ generation = 0 /\ ready = FALSE /\ controller = FALSE
    /\ awaited = {} /\ recoveryOnly = {} /\ actions = <<>>
    /\ node = [r \in Requests |-> "absent"]
    /\ key = [r \in Requests |-> <<IdOf[r], Unscoped>>]
    /\ pendingServerRequests = [r \in Requests |-> NoEntry]
    /\ local = [r \in Requests |-> NoEntry]
    /\ sent = [r \in Requests |-> <<>>]
    /\ stamp = [r \in Requests |-> 0] /\ retained = stamp
    /\ responseRevision = stamp /\ authored = stamp /\ submitted = stamp

Live(r) == node[r] \in {"Pending", "Failed"}
SameId(r) == {q \in Requests : IdOf[q] = IdOf[r]}

-----------------------------------------------------------------------------
(* The connection *)

\* clearTransientState() and resetProviderDerived()
Reset ==
    LET kept == {r \in Requests : Live(r)}
    IN /\ pendingServerRequests' = [r \in Requests |-> NoEntry]
       /\ node' = [r \in Requests |-> IF r \in kept THEN "Failed" ELSE node[r]]
       /\ recoveryOnly' = recoveryOnly \cup kept
       /\ awaited' = {}
       /\ UNCHANGED <<key, stamp, responseRevision, retained, actions, shell, sent>>

Connect ==
    /\ ~connected /\ generation < MaxGeneration
    /\ connected' = TRUE /\ generation' = generation + 1
    /\ ready' = FALSE /\ controller' = FALSE
    /\ Reset
Disconnect ==
    /\ connected
    /\ connected' = FALSE /\ ready' = FALSE /\ controller' = FALSE
    /\ UNCHANGED generation
    /\ Reset
\* A bridge event with a newer provider generation.
NewProvider ==
    /\ connected /\ generation < MaxGeneration
    /\ generation' = generation + 1
    /\ ready' \in BOOLEAN /\ controller' \in BOOLEAN
    /\ UNCHANGED connected
    /\ Reset
\* Any other bridge event.
BridgeState ==
    /\ connected
    /\ ready' \in BOOLEAN /\ controller' \in BOOLEAN
    /\ UNCHANGED <<connected, generation, awaited, worker, actions, shell, sent>>

-----------------------------------------------------------------------------
(* The server *)

\* Mutant: a preserved request does not keep its key.
KeyForUnscoped(r) == <<IdOf[r], Unscoped>>
\* The key of the node for r: scoped when a preserved or older request has the plain one.
KeyFor(r) ==
    LET plain == <<IdOf[r], Unscoped>>
    IN IF \E q \in Requests : /\ Live(q) /\ key[q] = plain
                              /\ q \in recoveryOnly \/ stamp[q] # generation
       THEN <<IdOf[r], generation>>
       ELSE plain

\* applyInteraction() for r; what has its key already is removed.
ApplyInteraction(r, state) ==
    LET replaced == {q \in Requests : Live(q) /\ key[q] = KeyFor(r)}
    IN /\ node' = [q \in Requests |-> IF q = r THEN state
                                      ELSE IF q \in replaced THEN "removed" ELSE node[q]]
       /\ key' = [key EXCEPT ![r] = KeyFor(r)]
       /\ stamp' = [stamp EXCEPT ![r] = generation]

Asks(r) == connected /\ ready /\ node[r] = "absent"

\* Mutant: the entry of the request that had the id is left.
RequestBeside(r) ==
    /\ Asks(r)
    /\ ApplyInteraction(r, "Pending")
    /\ pendingServerRequests' = [pendingServerRequests EXCEPT ![r] = generation]
    /\ awaited' = (awaited \ SameId(r)) \cup {r}
    /\ UNCHANGED <<connection, recoveryOnly, responseRevision, retained, actions, shell, sent>>
Request(r) ==
    /\ Asks(r)
    /\ ApplyInteraction(r, "Pending")
    /\ pendingServerRequests' = [q \in Requests |->
           IF q = r THEN generation
           ELSE IF q \in SameId(r) THEN NoEntry ELSE pendingServerRequests[q]]
    /\ awaited' = (awaited \ SameId(r)) \cup {r}
    /\ UNCHANGED <<connection, recoveryOnly, responseRevision, retained, actions, shell, sent>>

\* The worker answers a request for the time itself; its node is gone before Qt can see it.
CurrentTimeRead(r) ==
    /\ Asks(r)
    /\ ApplyInteraction(r, "removed")
    /\ pendingServerRequests' = [q \in Requests |->
           IF q \in SameId(r) THEN NoEntry ELSE pendingServerRequests[q]]
    /\ awaited' = awaited \ SameId(r)
    /\ UNCHANGED <<connection, recoveryOnly, responseRevision, retained, actions, shell, sent>>

\* serverRequest/resolved: another frontend answered, or the turn ended.
Resolved(r) ==
    LET expected == {q \in SameId(r) : pendingServerRequests[q] = generation}
    IN /\ r \in awaited
       /\ awaited' = awaited \ {r}
       /\ IF expected = {} THEN UNCHANGED <<node, pendingServerRequests>>
          ELSE \E q \in expected :
                 /\ node' = [node EXCEPT ![q] = IF Live(q) THEN "removed" ELSE @]
                 /\ pendingServerRequests' = [pendingServerRequests EXCEPT ![q] = NoEntry]
       /\ UNCHANGED <<connection, key, stamp, recoveryOnly, responseRevision, retained, actions,
                      shell, sent>>

-----------------------------------------------------------------------------
(* The answer on the worker *)

\* Mutant: the entry is looked up by the id of the request.
EntriesWithId(r) == {q \in SameId(r) : pendingServerRequests[q] = generation}
\* The entry that the answer for node r goes to, if it is of this connection.
EntriesFor(r) == {q \in {r} : pendingServerRequests[q] = generation}

CanRespond(r) == EntriesFor(r) # {} /\ ready /\ controller /\ Live(r)
Take == actions # <<>> /\ actions' = Tail(actions)

\* Mutant: an equal retry leaves the node as it is.
FailResponseOnce(r, response) ==
    /\ node' = [node EXCEPT ![r] = IF Live(r) THEN "Failed" ELSE @]
    /\ retained' = [retained EXCEPT ![r] = IF Live(r) THEN response ELSE @]
    /\ responseRevision' =
           [responseRevision EXCEPT ![r] = IF Live(r) /\ retained[r] = 0 THEN @ + 1 ELSE @]
    /\ UNCHANGED <<connection, awaited, pendingServerRequests, key, stamp, recoveryOnly, shell, sent>>
\* failInteractionResponse()
FailResponse(r, response) ==
    /\ node' = [node EXCEPT ![r] = IF Live(r) THEN "Failed" ELSE @]
    /\ retained' = [retained EXCEPT ![r] = IF Live(r) THEN response ELSE @]
    /\ responseRevision' = [responseRevision EXCEPT ![r] = IF Live(r) THEN @ + 1 ELSE @]
    /\ UNCHANGED <<connection, awaited, pendingServerRequests, key, stamp, recoveryOnly, shell, sent>>

\* resolveInteraction: not actionable; or the response is invalid, or the bridge refuses it.
RejectResponse ==
    Take /\ ~CanRespond(Head(actions)[1]) /\ FailResponse(Head(actions)[1], Head(actions)[2])
RefuseResponse ==
    Take /\ CanRespond(Head(actions)[1]) /\ FailResponse(Head(actions)[1], Head(actions)[2])
\* resolveInteraction: the bridge has the response.
SendResponse ==
    LET r == Head(actions)[1]
    IN /\ Take /\ CanRespond(r)
       /\ \E q \in EntriesFor(r) :
            /\ sent' = [sent EXCEPT ![q] = Append(@, Head(actions))]
            /\ awaited' = awaited \ {q}
       /\ node' = [node EXCEPT ![r] = "removed"]
       /\ pendingServerRequests' = [pendingServerRequests EXCEPT ![r] = NoEntry]
       /\ UNCHANGED <<connection, key, stamp, recoveryOnly, responseRevision, retained, shell>>

-----------------------------------------------------------------------------
(* The shell *)

\* applyLocalPending(): an entry that waits for less than the node shows is erased.
AppliedLocal(r) ==
    IF local[r] # NoEntry /\ local[r] # Kept /\ responseRevision[r] > local[r] THEN NoEntry
    ELSE local[r]
\* The user writes a response to r, in a modal dialog, unless one is submitting.
Writes(r) ==
    /\ Live(r) /\ authored[r] < MaxAuthored
    /\ AppliedLocal(r) \in {NoEntry, Kept}
    /\ authored' = [authored EXCEPT ![r] = @ + 1]

\* Mutant: a response that cannot be sent now is not kept.
SubmitUnkept(r) ==
    /\ Writes(r)
    /\ submitted' = [submitted EXCEPT ![r] = authored'[r]]
    /\ \/ UNCHANGED <<local, actions>>
       \/ /\ r \notin recoveryOnly /\ ready /\ controller
          /\ local' = [local EXCEPT ![r] = responseRevision[r]]
          /\ actions' = Append(actions, <<r, authored'[r]>>)
    /\ UNCHANGED <<connection, awaited, worker, sent>>
\* submitPending() with r as pendingRequest() reads it when the dialog is closed.  The response
\* is only kept when r is not actionable any more, or the queue to the worker is full.
SubmitPending(r) ==
    /\ Writes(r)
    /\ submitted' = [submitted EXCEPT ![r] = authored'[r]]
    /\ \/ /\ local' = [local EXCEPT ![r] = Kept]
          /\ UNCHANGED actions
       \/ /\ r \notin recoveryOnly /\ ready /\ controller
          /\ local' = [local EXCEPT ![r] = responseRevision[r]]
          /\ actions' = Append(actions, <<r, authored'[r]>>)
    /\ UNCHANGED <<connection, awaited, worker, sent>>

\* The graph is locked when the dialog is closed: pendingRequest() has nothing to submit to, what
\* the user wrote goes with the dialog, and a notice tells him that no response was sent.
SubmitBusy(r) ==
    /\ Writes(r)
    /\ local' = [local EXCEPT ![r] = AppliedLocal(r)]   \* when the dialog was opened
    /\ UNCHANGED <<connection, awaited, worker, actions, submitted, sent>>

\* pendingRequestSummary(), on each commit of the panes.
PendingRequestSummary ==
    /\ local' = [r \in Requests |-> IF Live(r) THEN AppliedLocal(r) ELSE NoEntry]
    /\ local' # local
    /\ UNCHANGED <<connection, awaited, worker, actions, authored, submitted, sent>>

\* handleGraphChanged() with the removal of r.
RemovalArrives(r) ==
    /\ node[r] = "removed" /\ local[r] # NoEntry
    /\ local' = [local EXCEPT ![r] = NoEntry]
    /\ UNCHANGED <<connection, awaited, worker, actions, authored, submitted, sent>>

-----------------------------------------------------------------------------
ResolveInteraction == RejectResponse \/ RefuseResponse \/ SendResponse
RequestNext ==
    \/ Connect \/ Disconnect \/ NewProvider \/ BridgeState
    \/ \E r \in Requests : Request(r) \/ CurrentTimeRead(r) \/ Resolved(r)
    \/ ResolveInteraction
    \/ \E r \in Requests : SubmitPending(r) \/ SubmitBusy(r) \/ RemovalArrives(r)
    \/ PendingRequestSummary

\* The worker takes what was admitted and the panes are committed after a change of the graph.
RequestFairness == WF_requestVars(ResolveInteraction) /\ WF_requestVars(PendingRequestSummary)

RequestSpec == RequestInit /\ [][RequestNext]_requestVars /\ RequestFairness

-----------------------------------------------------------------------------
\* A response leaves for the request the user saw and with what he wrote last, at most once,
\* and only while the server still waits for it (resolveInteraction against replacement,
\* withdrawal and resets).
AnswersReachTheirRequest ==
    [][\A r \in Requests : sent'[r] # sent[r] =>
           /\ r \in awaited /\ sent[r] = <<>>
           /\ sent'[r] = <<<<r, authored[r]>>>>]_requestVars

\* The user is offered exactly the requests the server waits for, and each of them can be
\* answered: the node, the typed request kept for it and the server agree.
OpenIsActionable ==
    \A r \in Requests :
        /\ r \in awaited <=> Live(r) /\ r \notin recoveryOnly
        /\ r \in awaited <=> pendingServerRequests[r] # NoEntry
        /\ pendingServerRequests[r] \in {NoEntry, generation}

\* The last response to a request that reached submitPending() stays with the request, in the
\* shell or with the node, whether the queue, the worker, the bridge or a reset refused it and
\* whatever became of later ones that the busy graph dropped; and a request a reset ended stays
\* for review, whatever the server asks under its id later.
ResponsesAreKept ==
    \A r \in Requests :
        /\ r \in recoveryOnly => Live(r)
        /\ Live(r) /\ submitted[r] > 0 => local[r] # NoEntry \/ retained[r] = submitted[r]

\* A response does not show as submitting for ever: it is sent, or the user gets it back.
SubmittingEnds == \A r \in Requests : local[r] >= 0 ~> local[r] < 0
=============================================================================
