--------------------------- MODULE MCSharedGraph ----------------------------
(***************************************************************************)
(* What the two threads share, in three scenes that share a run.           *)
(* "channel": a queue of three slots, one of them reserved, and four       *)
(* transactions, any of which may reset the provider or be too large.      *)
(* "graph": a thread, two requests and an operation that are live, and a   *)
(* second incarnation of the first request, in scenarios that bound how    *)
(* often the tree, the relations and the life of the nodes change.         *)
(* "session": two removable nodes and a page of one make a scan of the     *)
(* retired nodes span passes while their order changes under it; two queue *)
(* slots, one reserved, overflow with the second change.  The part a scene *)
(* is not about stands still.                                              *)
(***************************************************************************)
EXTENDS ThreadChannels, GraphStructure, TLC
CONSTANTS thread, ask, later, operation, again, n1, n2
VARIABLES scene, left
MCNodes == {thread, ask, later, operation, again}
MCIdOf == [n \in MCNodes |-> IF n = again THEN ask ELSE n]
MCKindOf == [n \in MCNodes |-> CASE n = thread -> "Thread" [] n = operation -> "Operation"
                               [] OTHER -> "Interaction"]
MCSources == {thread, ask}
ASSUME GraphConstants == GraphAssumption
VARIABLES
  revision_s, workerAt_s, sending_s, workerToQt_s, rescanRevision_s, wakeSignaled_s,
  queuedTurn_s, retired_s,  \* these as in FrontendSession, whose other names are its own
  live, parentIndex, orderGeneration, qtToWorker, drainAt, deferred, collecting, scan,
  drainScheduled, notifierEnabled, stopReported, acks, retained, routed, pendingDetach, shown
Session ==
  INSTANCE FrontendSession WITH
    Node <- {n1, n2}, Capacity <- 2, AckCapacity <- 2, PageSize <- 1, MaxRevision <- 2, MaxDeferred <- 1,
    revision <- revision_s, workerAt <- workerAt_s, sending <- sending_s, workerToQt <- workerToQt_s,
    rescanRevision <- rescanRevision_s, wakeSignaled <- wakeSignaled_s, queuedTurn <- queuedTurn_s,
    retired <- retired_s
sessionVars ==
  <<revision_s, workerAt_s, sending_s, workerToQt_s, rescanRevision_s, wakeSignaled_s, queuedTurn_s,
    retired_s, live, parentIndex, orderGeneration, qtToWorker, drainAt, deferred, collecting, scan,
    drainScheduled, notifierEnabled, stopReported, acks, retained, routed, pendingDetach, shown>>
NodeSymmetry == Permutations({n1, n2})
NoSteps == [tree |-> 0, edge |-> 0, life |-> 0]
Scenarios == {[tree |-> 3, edge |-> 0, life |-> 1], [tree |-> 1, edge |-> 1, life |-> 2],
              [tree |-> 0, edge |-> 3, life |-> 3]}
\* The graph after four calls of upsert().
FourNodes ==
  /\ ordered = <<thread, ask, later, operation>> /\ born = ordered /\ retired = <<>>
  /\ parent = [n \in Nodes |-> None] /\ children = [n \in Nodes |-> <<>>]
  /\ index = [n \in Nodes |-> 0] /\ out = [n \in Nodes |-> NoEdges]
  /\ incoming = [n \in Nodes |-> {}] /\ pending = [n \in Nodes |-> n # again]
  /\ noted = Nothing
MCInit == /\ Init /\ Session!Init
          /\ \/ scene = "channel" /\ left = NoSteps /\ retained = {} /\ GraphInit
             \/ scene = "graph" /\ left \in Scenarios /\ retained = {} /\ FourNodes
             \/ scene = "session" /\ left = NoSteps /\ GraphInit
Takes(what) == left[what] > 0 /\ left' = [left EXCEPT ![what] = @ - 1]
GraphSteps == \/ Takes("life") /\ LifeNext
              \/ \E n \in Nodes : ReleaseRetired(n) /\ UNCHANGED left
              \/ Takes("tree") /\ TreeNext
              \/ Takes("edge") /\ EdgeNext
MCNext == /\ UNCHANGED scene
          /\ \/ scene = "channel" /\ Next /\ UNCHANGED <<graphVars, left, sessionVars>>
             \/ scene = "graph" /\ GraphSteps /\ UNCHANGED <<vars, sessionVars>>
             \/ scene = "graph" /\ UNCHANGED <<vars, graphVars, left, sessionVars>>  \* it may rest
             \/ scene = "session" /\ Session!Next /\ UNCHANGED <<vars, graphVars, left>>
MCSpec == MCInit /\ [][MCNext]_<<vars, graphVars, scene, left, sessionVars>>
\* What an operation reported decides nothing later.
View == CASE scene = "channel" -> <<scene, vars>>
          [] scene = "graph" -> <<ordered, born, parent, children, index, out, incoming,
                                  pending, retired, left>>
          [] OTHER -> sessionVars

(* See FrontendSession: nodes that a change names may be read, and retired *)
(* ones are kept track of, while two of them are scanned and reordered.    *)
SessionIntact == Session!AffectedReadable /\ Session!RetirementTracked
=============================================================================
