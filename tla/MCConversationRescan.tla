------------------------ MODULE MCConversationRescan ------------------------
(***************************************************************************)
(* Two items of the displayed thread, the second inserted if at all, and   *)
(* three transactions, any of which may be folded into a rescan.           *)
(***************************************************************************)
EXTENDS ConversationProjection

CONSTANTS displayed, other, first, second

MCThreadOf == [i \in {first, second} |-> displayed]
MCWorlds == {[may |-> {"rescan"}, revisions |-> 3, selections |-> 0, locks |-> 0]}

FoldingSpec == PaneInit /\ second \notin live /\ [][PaneNext]_conversationVars /\ Fairness
=============================================================================
