-------------------------- MODULE MCPromptPipeline --------------------------
(***************************************************************************)
(* PromptPipeline for TLC: two prompts with a draft and everything a user  *)
(* asks for, or three prompts, so that two wait in one queue, on a thread  *)
(* that only prompts hydrate.                                              *)
(***************************************************************************)
EXTENDS PromptPipeline

VARIABLE crowded

Quiet ==    \* what the crowded instance leaves out
  \/ \E p \in Prompt, d \in Draft : SubmitFirstPrompt(p, d)
  \/ \E t \in Thread :
       \/ \E force \in BOOLEAN : Hydrate(t, force)
       \/ LoadHistory(t) \/ HydrateInBackground(t) \/ ThreadStatus(t)

MCInit == Init /\ crowded \in BOOLEAN
MCNext ==
  /\ UNCHANGED crowded
  /\ \/ DispatchCommand
     \/ \E t \in Thread : AnswerOn(t)
     \/ \E p \in Prompt :
          \/ AnswerFor(p) \/ PromptMaterialized(p)
          \/ \E n \in Node \cup {Recovery} : SubmitPrompt(p, n)
     \/ ~crowded /\ Quiet
     \/ \E t \in Thread :
          \/ Reverted(t) \/ Deleted(t)
          \/ \E isLoaded \in BOOLEAN : ThreadAppears(t, isLoaded)
     \/ NewGeneration \/ Disconnect \/ BridgeState
  /\ crowded \/ prompt'[MaxPrompts].state = "new"

MCSpec == MCInit /\ [][MCNext]_<<vars, crowded>> /\ Fairness
=============================================================================
