---------------------------- MODULE MediaSessions ----------------------------
(***************************************************************************)
(* What the API expects of the media gateway: a table of sessions, each    *)
(* with the agents whose audio is connected and the one agent the customer *)
(* hears.  No locks, no peers, no ICE gathering, and every request one     *)
(* step.  CallTransfer and CallControl use the gateway in this form;       *)
(* MediaGateway is shown to implement it.                                  *)
(***************************************************************************)
CONSTANTS Ids, Agents, None

VARIABLE table   \* table[i]: the session that answers to the identifier i

Closed == [open |-> FALSE, agents |-> {}, current |-> None]

Init == table = [i \in Ids |-> Closed]

Open(i) ==
    /\ ~table[i].open
    /\ table' = [table EXCEPT ![i].open = TRUE]

(* An outbound call gets its identifier when Meta answers.                 *)
Rename(i, j) ==
    /\ table[i].open /\ ~table[j].open
    /\ table' = [table EXCEPT ![j] = table[i], ![i] = Closed]

Join(i, a) ==
    /\ table[i].open
    /\ table' = [table EXCEPT ![i].agents = @ \cup {a}]

(* An agent joins again: the old connection goes first.  The agent stays   *)
(* current, and is heard again without another switch.                     *)
Rejoin(i, a) ==
    /\ a \in table[i].agents
    /\ table' = [table EXCEPT ![i].agents = @ \ {a}]

Switch(i, a) ==
    /\ a \in table[i].agents
    /\ table' = [table EXCEPT ![i].current = a]

Remove(i, a) ==
    /\ table[i].open
    /\ table' = [table EXCEPT ![i].agents = @ \ {a},
                              ![i].current = IF @ = a THEN None ELSE @]

(* By request, by a failed preparation, or after the five minutes of a     *)
(* session that no call was bound to.                                      *)
Close(i) ==
    /\ table[i].open
    /\ table' = [table EXCEPT ![i] = Closed]

Next == \E i \in Ids :
    \/ Open(i) \/ Close(i)
    \/ \E j \in Ids : Rename(i, j)
    \/ \E a \in Agents : Join(i, a) \/ Rejoin(i, a) \/ Switch(i, a) \/ Remove(i, a)

Spec == Init /\ [][Next]_table
=============================================================================
