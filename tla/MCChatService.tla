---------------------------- MODULE MCChatService ----------------------------
(* Concurrent requests of two users to one conversation.                   *)
EXTENDS ChatService, TLC

MaxCost == 4
Cost == 0..MaxCost
OneToken == {[tokens |-> 1, tools |-> 0]}
Symmetry == Permutations(Requests) \cup Permutations(Users)
==============================================================================
