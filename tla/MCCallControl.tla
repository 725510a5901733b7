---------------------------- MODULE MCCallControl ----------------------------
(* Instances of CallControl for TLC.                                       *)
EXTENDS CallControlProps, TLC

CONSTANTS k, l, v

OneConversation == [c \in Calls |-> v]

Inbounds == {"claim", "joinMedia", "mediaReady", "reject", "terminate"}
MakeOrTake == {"joinMedia", "mediaReady", "initiate"}

SymmetricAgents == Permutations(Requests) \cup Permutations(Agents)

\* Sound where all calls are outbound and in one conversation.
SymmetricCalls == SymmetricAgents \cup Permutations(Calls)
=============================================================================
