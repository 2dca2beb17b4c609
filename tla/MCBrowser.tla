----------------------------- MODULE MCBrowser -----------------------------
(***************************************************************************)
(* The browser session for TLC.  A behaviour is about the queue of a       *)
(* thread and of a draft, with MaxPrompts prompts, or about its history    *)
(* and one prompt.  The user and the other programs go on while no more    *)
(* than two requests are unanswered, one that nobody waits for included.   *)
(***************************************************************************)
EXTENDS BrowserSession

VARIABLE about

History ==
    \/ \E t \in Thread :
         RemoveTurns(t) \/ RevertAnnounced(t) \/ ThreadRemoved(t) \/ LoadOlder(t)
    \/ \E p \in Prompt : Materialized(p)
Queue ==
    \/ \E p \in Prompt \ {1} : Submit(p)
    \/ Select(Draft) \/ BeginNewThread
Both ==
    \/ Submit(1)
    \/ \E t \in Thread : Select(t) \/ Reload(t) \/ HydrateChild(t) \/ Appears(t) \/ StatusChanges(t)
    \/ \E reset, late \in BOOLEAN : LoseProvider(reset, late)
    \/ ProviderReady \/ ControlChanges
Few == Cardinality(requests) <= 2 /\ Cardinality({r \in requests : ~r.tied}) <= 1

MCInit == Init /\ about \in {"queue", "history"}
MCNext ==
    /\ \/ /\ Both \/ (about = "queue" /\ Queue) \/ (about = "history" /\ History)
          /\ Few'
       \/ CreationAnswered
       \/ \E r \in requests : Answer(r)
    /\ UNCHANGED about
MCSpec == MCInit /\ [][MCNext]_<<vars, about>> /\ Fairness
============================================================================
