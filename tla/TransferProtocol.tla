-------------------------- MODULE TransferProtocol --------------------------
(***************************************************************************)
(* What a call transfer promises, without requests, locks or a gateway.    *)
(* A call has one responsible agent (its owner).  Another agent becomes    *)
(* responsible only through an offer that the current owner made, that the *)
(* other agent accepted, and that nothing withdrew in between; a call has  *)
(* at most one open offer; the conversation changes hands in the same step *)
(* as the call.  CallTransfer is shown to implement this specification.    *)
(***************************************************************************)
CONSTANTS Calls, Agents, Transfers, None

VARIABLES owner,    \* owner[c]: the agent responsible for call c
          attendant,\* attendant[c]: the agent c's conversation is assigned to
          offer     \* offer[t]: the offer made under the identifier t

vars == <<owner, attendant, offer>>

Stages == {"none", "offered", "accepted", "withdrawn", "done"}

NoOffer == [stage |-> "none", call |-> None, from |-> None, to |-> None]

OpenOffer(t) == offer[t].stage \in {"offered", "accepted"}

Init == /\ owner \in [Calls -> Agents]
        /\ attendant = [c \in Calls |-> None]
        /\ offer = [t \in Transfers |-> NoOffer]

(* An agent offers the call.  The offer may be stale from the start (made  *)
(* by an agent who has just handed the call over): then it cannot be       *)
(* accepted.                                                               *)
Offer(t, c, a, b) ==
    /\ offer[t] = NoOffer
    /\ \A u \in Transfers : OpenOffer(u) => offer[u].call # c
    /\ a # b
    /\ offer' = [offer EXCEPT ![t] = [stage |-> "offered", call |-> c,
                                      from |-> a, to |-> b]]
    /\ UNCHANGED <<owner, attendant>>

Accept(t) ==
    /\ offer[t].stage = "offered"
    /\ owner[offer[t].call] = offer[t].from
    /\ offer' = [offer EXCEPT ![t].stage = "accepted"]
    /\ UNCHANGED <<owner, attendant>>

(* Rejection, cancellation, expiry and the end of the call look the same.  *)
Withdraw(t) ==
    /\ OpenOffer(t)
    /\ offer' = [offer EXCEPT ![t].stage = "withdrawn"]
    /\ UNCHANGED <<owner, attendant>>

HandOver(t) ==
    /\ offer[t].stage = "accepted"
    /\ owner[offer[t].call] = offer[t].from
    /\ offer' = [offer EXCEPT ![t].stage = "done"]
    /\ owner' = [owner EXCEPT ![offer[t].call] = offer[t].to]
    /\ attendant' = [attendant EXCEPT ![offer[t].call] = offer[t].to]

Next == \E t \in Transfers :
            \/ \E c \in Calls, a, b \in Agents : Offer(t, c, a, b)
            \/ Accept(t)
            \/ Withdraw(t)
            \/ HandOver(t)

Spec == Init /\ [][Next]_vars
=============================================================================
