--------------------------- MODULE MCConversation ---------------------------
(***************************************************************************)
(* The first and the last link of the way from the worker to the rows, in  *)
(* two scenes that share a run.  "ring": three slots and two messages that *)
(* differ; positions wrap twice a cycle and every occupancy occurs.        *)
(* "rows": two items of one thread, the second inserted if at all, and     *)
(* another thread to select, in worlds that bound what is combined: four   *)
(* changes with a locked graph; three with a selection and folding, two    *)
(* with a locked graph as well; three with a selection, loading and a      *)
(* locked graph, or loading and refused rows.                              *)
(* The part a scene is not about stands still as it began.                 *)
(***************************************************************************)
EXTENDS SpscQueue, ConversationProjection

CONSTANTS displayed, other, first, second
VARIABLE scene

MCThread == {displayed, other}
MCItem == {first, second}
MCThreadOf == [i \in MCItem |-> displayed]

World(may, r, s, l) ==
  [may |-> may, revisions |-> r, selections |-> s, locks |-> l]
Still == World({}, 0, 0, 0)
Combined == {World({}, 4, 0, 1), World({"rescan"}, 3, 1, 0), World({"rescan"}, 2, 1, 1),
             World({"load"}, 3, 1, 1), World({"load", "refuse"}, 3, 1, 0)}
MCWorlds == Combined \cup {Still}

MCInit ==
  /\ Init /\ PaneInit /\ second \notin live
  /\ \/ scene = "ring" /\ world = Still /\ live = {} /\ bound = displayed /\ hydration[other] = "ready"
     \/ scene = "rows" /\ world # Still
MCNext ==
  \/ scene = "ring" /\ Next /\ UNCHANGED <<scene, conversationVars>>
  \/ scene = "rows" /\ PaneNext /\ UNCHANGED <<vars, scene>>
  \/ scene = "rows" /\ UNCHANGED <<vars, scene, conversationVars>>  \* it may rest
MCSpec == MCInit /\ [][MCNext]_<<vars, scene, conversationVars>> /\ Fairness
=============================================================================
