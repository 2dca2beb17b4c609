----------------------- MODULE MCConversationEmphasis -----------------------
(* Two prompts, submitted to an idle thread, each of which is to begin a    *)
(* turn, and nothing else.                                                  *)
EXTENDS ConversationRows

CONSTANTS p1, p2, t1, t2

MCOrigin == [m \in {} |-> None]
MCWorlds ==
  {[calm |-> TRUE, prompts |-> <<p1, p2>>, turns |-> <<t1, t2>>, messages |-> {},
    answers |-> {}, history |-> None, held |-> <<>>, pages |-> <<>>]}
============================================================================
