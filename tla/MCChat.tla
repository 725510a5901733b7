------------------------------- MODULE MCChat -------------------------------
(* Small instances of the chat.                                             *)
EXTENDS ChatProps, TLC

MCAuthor == [m \in Inbound |-> CHOOSE k \in Customers : TRUE]

\* Requests, customer messages and outbound messages are told apart by nothing.
Symmetry ==
    Permutations(Requests) \cup Permutations(Inbound \ Replies) \cup Permutations(Outbound)
        \cup Permutations(Replies)
=============================================================================
