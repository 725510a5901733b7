-------------------------- MODULE MediaGatewayProps --------------------------
(* What the media gateway guarantees.                                      *)
EXTENDS MediaGateway

Connections == Peers \cup {None}

Handlers == [pc : {"idle", "offer", "repair", "remote", "join", "drop", "switch",
                   "remove", "play", "answerMeta", "offerMeta", "repairMeta", "joinAgent"},
             id : Ids \cup {None}, session : Sessions \cup {None},
             agent : Agents \cup {None}, peer : Connections, previous : Connections]

SessionRecord ==
    [state : {"unused", "open", "closed"}, agents : [Agents -> Connections],
     meta : Connections, toMeta : Connections, offer : BOOLEAN,
     current : Agents \cup {None}, source : Connections \cup {Ivr},
     ivrStarted : BOOLEAN]

PeerRecord ==
    [state : {"unused", "gathering", "open", "closed"},
     session : Sessions \cup {None}, agent : Agents \cup {None}]

Gathering == {"answerMeta", "offerMeta", "repairMeta", "joinAgent"}
ForAgent == {"join", "drop", "switch", "remove", "joinAgent"}

HandlerOK(q) ==
    /\ q.pc # "idle" => q.session # None /\ q.id # None
    /\ q.agent # None <=> q.pc \in ForAgent
    /\ q.pc \in Gathering => q.peer # None
    /\ q.pc = "drop" => q.previous # None

TableOK ==
    /\ sessions \in [Ids -> Sessions \cup {None}]
    /\ timer \in [Sessions -> Ids \cup {None}]
    /\ closing \subseteq Sessions /\ doomed \subseteq Peers

PeersOK ==
    /\ peer \in [Peers -> PeerRecord]
    /\ live \subseteq Peers /\ inHand \subseteq Peers
    /\ \A p \in inHand : peer[p].agent # None

HandlersOK ==
    /\ proc \in [Requests -> Handlers]
    /\ \A r \in Requests : HandlerOK(proc[r])

(* The variables keep their shape, and a handler under way knows the       *)
(* session, the agent and the peers it works on (all handlers of main.go). *)
TypeInv ==
    /\ TableOK /\ PeersOK /\ HandlersOK
    /\ session \in [Sessions -> SessionRecord]
    /\ player \in [Sessions -> Nat]

(* A session that requests can find answers to one identifier and is       *)
(* neither closed nor about to be: neither a close, nor a failed           *)
(* preparation, nor the timer of an abandoned session, which may fire      *)
(* after the session was bound to a call, closes one that a call still     *)
(* finds (closeSession, bind, expireProvisional).                          *)
ListedSessionsAreOpen ==
    \A i \in Ids : sessions[i] # None =>
        /\ session[sessions[i]].state = "open" /\ sessions[i] \notin closing
        /\ \A j \in Ids : sessions[j] = sessions[i] => j = i

Installed(p, s) ==
    \/ session[s].meta = p
    \/ \E a \in Agents : session[s].agents[a] = p

(* No request closes a connection that is in use: whatever joins, repairs, *)
(* offers, removals and closes overlap, a peer that a session lists is     *)
(* open and belongs to that session (joinAgent, repairMeta, removeAgent).  *)
InstalledPeersAreOpen ==
    \A s \in Sessions, p \in Peers : Installed(p, s) =>
        peer[p].state = "open" /\ peer[p].session = s /\ p \notin doomed

(* One goroutine at most writes prompts to a customer, whatever requests   *)
(* overlap: two would mix their packets (playIvr, ivrStarted).             *)
OnePlayer == \A s \in Sessions : player[s] <= 1

(* Only the current agent sends audio to the customer, over the connection *)
(* it joined with last, and prompts only play while no agent is current    *)
(* (README.md:110; relayAgent, playIvr), although packets are read before  *)
(* the lock is taken.                                                      *)
OnlyCurrentIsHeard ==
    [][\A s \in Sessions : session'[s].source # session[s].source =>
          IF session'[s].source = Ivr
          THEN Waiting(s)
          ELSE \E a \in Agents : /\ session[s].current = a
                                 /\ session[s].agents[a] = session'[s].source]_vars

(* The session table as the API sees it.                                   *)
Row(s) == [open |-> TRUE, agents |-> {a \in Agents : session[s].agents[a] # None},
           current |-> session[s].current]

Table == [i \in Ids |->
    IF sessions[i] = None THEN [open |-> FALSE, agents |-> {}, current |-> None]
                          ELSE Row(sessions[i])]

Media == INSTANCE MediaSessions WITH table <- Table

(* With its locks and half-done requests the gateway behaves as a table    *)
(* whose requests are one step each.                                       *)
ImplementsMediaSessions == Media!Spec

(* A session that no call is bound to goes after its five minutes          *)
(* (createProvisional, expireProvisional; main_test.go:95).                *)
AbandonedSessionExpires ==
    \A s \in Sessions, i \in Ids :
        (timer[s] = i /\ sessions[i] = s) ~> (sessions[i] # s)

(* The end of a call ends its prompts and closes every connection the      *)
(* session has then, so that its UDP port comes back (closeSession, close, *)
(* the player's loop), whatever single request is under way.               *)
ClosedCallIsReleased ==
    \A s \in Sessions :
        /\ s \in closing ~> player[s] = 0
        /\ \A p \in Peers : (s \in closing /\ Installed(p, s)) ~> peer[p].state = "closed"

-----------------------------------------------------------------------------
(***************************************************************************)
(* The inductive invariants behind these properties.                       *)
(***************************************************************************)
TableInv ==
    /\ ListedSessionsAreOpen
    /\ \A s \in closing : session[s].state # "unused"

PlayerInv ==
    /\ OnePlayer
    /\ \A s \in Sessions : player[s] > 0 => session[s].ivrStarted

(* An installed peer is in use by one session, in one place.               *)
InUse(p, s, a) ==
    peer[p].state = "open" /\ peer[p].session = s /\ peer[p].agent = a /\ p \notin doomed

LegsInv ==
    \A s \in Sessions :
        /\ session[s].meta # None => InUse(session[s].meta, s, None)
        /\ \A a \in Agents : session[s].agents[a] # None => InUse(session[s].agents[a], s, a)

(* A handler gathers a peer of its own; what it read as the previous peer  *)
(* was in the place where its own will go.                                 *)
HeldInv ==
    \A r \in Requests : LET q == proc[r] IN
        /\ q.pc \in Gathering =>
              /\ peer[q.peer] = [state |-> "gathering", session |-> q.session,
                                 agent |-> q.agent]
              /\ q.peer \notin doomed
              /\ \A t \in Requests :
                    proc[t].pc \in Gathering /\ proc[t].peer = q.peer => t = r
        /\ q.pc \in {"drop", "repairMeta"} /\ q.previous # None =>
              /\ peer[q.previous].state \in {"open", "closed"}
              /\ peer[q.previous].session = q.session
              /\ peer[q.previous].agent = q.agent

PeersInv ==
    /\ LegsInv /\ HeldInv
    /\ \A p \in doomed : peer[p].state # "unused"
=============================================================================
