------------------------- MODULE ManagerController --------------------------
(***************************************************************************)
(* The registry of CodexManager (src/manager/ManagerController.cpp) around *)
(* the runtime of one profile.  Two interfaces, the Qt windows and the     *)
(* embedded web page, edit the same registry; each edit carries the        *)
(* revision it was made from.  A profile whose data was deleted is removed *)
(* by a queued signal, some time after the deletion ended.                 *)
(***************************************************************************)
EXTENDS ProfileRuntime

VARIABLES
    registered,     \* the profile is in profiles_ and has its runtime
    revision,       \* revision_
    expected        \* the revision a confirmed deletion was made from

registryVars == <<registered, revision, expected>>
allVars == <<vars, registryVars>>

ControllerInit == Init /\ registered = TRUE /\ revision = 0 /\ expected = 0

\* Mutant: only the current operation is looked at.
MayReplaceIdle == ~Busy(rt)
\* What replace() asks of a runtime before its profile is changed or removed.
MayReplace == ~Busy(rt) /\ ~HasOwnedProcesses(rt)

\* deleteData(): a confirmed deletion, from the registry the user saw.
DeleteData ==
    /\ registered /\ ~Busy(rt) /\ User
    /\ expected' = revision
    /\ Inspect
    /\ UNCHANGED <<registered, revision>>

\* replace() without this profile: reconcile() destroys the runtime and its helpers;
\* the services stay.
Removed ==
    /\ MayReplace
    /\ registered' = FALSE
    /\ revision' = revision + 1
    /\ bridge' = BridgeLeft
    /\ fromProbe' = <<>>
    /\ UNCHANGED <<services, listening, expected>>

Remove == registered /\ User /\ Removed /\ rt' = [rt EXCEPT !.probe = "none", !.out = <<>>]

\* deletionFinished reaches the controller (a queued connection, which outlives the
\* runtime that emitted it); remove() of an absent profile saves the others again.
DeletionFinished ==
    /\ rt.finished # <<>> /\ UNCHANGED left
    /\ LET removes == registered /\ Head(rt.finished) = "deleted"
       IN \/ /\ removes /\ Removed
             /\ rt' = [rt EXCEPT !.finished = Tail(@), !.probe = "none", !.out = <<>>]
          \/ /\ removes => ~MayReplace
             /\ rt' = [rt EXCEPT !.finished = Tail(@)]
             /\ revision' = IF registered \/ Head(rt.finished) = "failed" THEN revision ELSE revision + 1
             /\ UNCHANGED <<registered, expected>> /\ Keep

\* replace() with this profile changed: reconcile() makes a new runtime, which knows
\* nothing yet; its refresh() comes with the timer's.
Edit ==
    /\ registered /\ MayReplace /\ User
    /\ revision' = revision + 1
    /\ rt' = [Fresh EXCEPT !.finished = rt.finished]
    /\ bridge' = BridgeLeft
    /\ fromProbe' = <<>>
    /\ UNCHANGED <<services, listening, registered, expected>>

\* replace() with another profile of the registry changed.
EditOther ==
    /\ registered /\ User
    /\ revision' = revision + 1
    /\ UNCHANGED <<rt, registered, expected>> /\ Keep

ControllerNext ==
    \/ registered /\ RuntimeNext(expected = revision) /\ UNCHANGED registryVars
    \/ DeleteData \/ Remove \/ DeletionFinished \/ Edit \/ EditOther

\* Helper commands end (a timer kills them) and deadlines pass.
ControllerFairness ==
    LET step(A) == registered /\ A /\ UNCHANGED registryVars
    IN /\ WF_allVars(step(HelperNext(expected = revision)))
       /\ WF_allVars(step(DeadlinesPass))

ControllerSpec == ControllerInit /\ [][ControllerNext]_allVars /\ ControllerFairness

-----------------------------------------------------------------------------
\* Removing a registration, by hand or after a deletion, never leaves a unit of the
\* profile running with nobody to stop it (replace, reconcile).
NothingOrphaned == ~registered => \A c \in Owned : ~services[c]

\* A stop, and the deletion that begins with one, ends; so does a sign-in, whether or not
\* anybody answers.
OperationsEnd ==
    /\ rt.stopping ~> ~rt.stopping
    /\ rt.login # NoLogin ~> rt.login = NoLogin
=============================================================================
