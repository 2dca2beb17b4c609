------------------------- MODULE MCFrontendSession -------------------------
(***************************************************************************)
(* What Qt does with the changes of the worker, in two scenes that share a *)
(* run.  "session": one removable node, since what is asked of its end is  *)
(* about one node, or about none, and two queue slots, one reserved, so    *)
(* that two changes overflow; MCSharedGraph has two nodes.  "rows": two    *)
(* prompts, submitted to an idle thread, with two turns; and one prompt    *)
(* while the history of a turn comes in two pages, held with its opening   *)
(* message or without.  A batch has two rows and two changes are on their  *)
(* way at most.  The part a scene is not about stands still.               *)
(***************************************************************************)
EXTENDS FrontendSession, TLC

CONSTANTS None, p1, p2,   \* prompts
          m1, m2,         \* their messages
          m8, m9,         \* messages of the history
          a1, a8, a9,     \* an answer, and two of the history
          t1, t2, h       \* turns, the last that of the history
VARIABLES scene, graph, queue, pending, replacing, items, delta, asked, stage, rows,
          materialized, world

rowVars == <<graph, queue, pending, replacing, items, delta, asked, stage, rows,
             materialized, world>>

Submitting(prompts, turns, messages, answers) ==
  [calm |-> TRUE, prompts |-> prompts, turns |-> turns, messages |-> messages,
   answers |-> answers, history |-> None, held |-> <<>>, pages |-> <<>>]
Loading(world0, held, pages) ==
  [world0 EXCEPT !.history = h, !.held = held, !.pages = pages]
Combined ==
  {Submitting(<<p1, p2>>, <<t1, t2>>, {m1, m2}, {}),
   Submitting(<<p1>>, <<t1>>, {m1}, {a1}),
   Loading(Submitting(<<p1>>, <<t1>>, {m1}, {}), <<m8>>, << <<a9>>, <<m8, a8>> >>),
   Loading(Submitting(<<p1>>, <<t1>>, {m1}, {}), <<a9>>, << <<m9>>, <<m8, a8>> >>)}
Still == Submitting(<<>>, <<>>, {}, {})

Rows == INSTANCE ConversationRows
          WITH Prompt <- {p1, p2}, UserMessage <- {m1, m2, m8, m9}, Answer <- {a1, a8, a9},
               Turn <- {t1, t2, h}, PassRows <- 2, MaxQueued <- 2, acks <- materialized,
               OriginOf <- (m1 :> p1) @@ (m2 :> p2) @@ (m8 :> None) @@ (m9 :> None),
               Worlds <- Combined \cup {Still}

MCInit ==
  /\ Init /\ Rows!Init
  /\ \/ scene = "session" /\ world = Still
     \/ scene = "rows" /\ world # Still /\ retained = {}
MCNext ==
  /\ UNCHANGED scene
  /\ \/ scene = "session" /\ Next /\ UNCHANGED rowVars
     \/ scene = "rows" /\ Rows!Next /\ UNCHANGED vars
     \/ scene = "rows" /\ UNCHANGED <<vars, rowVars>>  \* it may rest
MCSpec == MCInit /\ [][MCNext]_<<vars, scene, rowVars>> /\ Fairness

(* See ConversationRows: at rest the rows are those of the graph, and at   *)
(* any time ones the view can be drawn from.                               *)
RowsIntact == Rows!RowsFollowGraph /\ Rows!RowsWellFormed
============================================================================
