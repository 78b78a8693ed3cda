--------------------------- MODULE MCChatbotGraph ---------------------------
(* A registry of one ordinary tool and one that requires approval.         *)
EXTENDS ChatbotGraph

CONSTANTS search, delete

MCTools == {search, delete}
MCGated == {delete}
=============================================================================
