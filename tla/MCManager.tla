----------------------------- MODULE MCManager ------------------------------
(***************************************************************************)
(* The manager in scenarios: each initial state gives a budget of user     *)
(* requests and outside events.                                            *)
(***************************************************************************)
EXTENDS ManagerController
CONSTANTS b1, x1, ui
Scenarios == {[user |-> 3, env |-> 0], [user |-> 2, env |-> 1], [user |-> 1, env |-> 2]}
MCBackends == <<b1>>
MCInit == ControllerInit /\ left \in Scenarios
MCSpec == MCInit /\ [][ControllerNext]_allVars /\ ControllerFairness
=============================================================================
