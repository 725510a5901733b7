--------------------------- MODULE MCCallTransfer ---------------------------
(* Instances of CallTransfer for TLC: two or three agents, one browser.    *)
EXTENDS CallTransferProps, TLC

CONSTANTS ana, bia, caio, ana1, bia1, caio1

OneBrowserEach ==
    LET Of == (ana1 :> ana) @@ (bia1 :> bia) @@ (caio1 :> caio)
    IN  [cl \in Clients |-> Of[cl]]

\* A transfer that is offered, taken or refused.
OfferAndAnswer ==
    {"requestTransfer", "acceptTransfer", "rejectTransfer", "joinMedia", "mediaReady"}

Symmetric == Permutations(Requests) \cup Permutations(Transfers)
=============================================================================
