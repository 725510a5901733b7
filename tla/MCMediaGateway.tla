---------------------------- MODULE MCMediaGateway ----------------------------
(* Instances of MediaGateway for TLC.                                      *)
EXTENDS MediaGatewayProps, TLC

Symmetric == Permutations(Ids) \cup Permutations(Agents) \cup Permutations(Sessions)
             \cup Permutations(Peers) \cup Permutations(Requests)
=============================================================================
