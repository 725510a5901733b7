---------------------------- MODULE MediaGateway ----------------------------
(***************************************************************************)
(* The media gateway (media-gateway/main.go, the player of ivr.go): the    *)
(* session table, the sessions with their WebRTC peers, and the goroutines *)
(* that work on them.                                                      *)
(*                                                                         *)
(* Go runs handlers in parallel.  An action is one critical section, under *)
(* the table's lock (g.mu) or a session's (s.mu), and the code up to the   *)
(* next one.  A handler looks its session up in one section and works on   *)
(* the pointer in later ones: meanwhile the session may have been closed   *)
(* or renamed.  ICE gathering, up to 12 seconds, runs without a lock.      *)
(***************************************************************************)
EXTENDS Integers

CONSTANTS Ids,         \* identifiers of calls and of provisional sessions
          Agents,
          Sessions,    \* the callSession objects an instance may create
          Peers,       \* the peer connections it may create
          Requests,    \* handlers that run at once
          Endpoints,   \* the requests an instance exercises
          None, Ivr

AllEndpoints == {"prepare", "create", "bind", "offer", "repair", "join",
                 "switch", "remove", "play", "close"}

ASSUME ConstantsAssumption ==
    /\ Endpoints \subseteq AllEndpoints
    /\ None \notin Ids \cup Agents \cup Sessions \cup Peers
    /\ Ivr \notin Peers /\ Ivr # None

VARIABLES
    sessions,  \* g.sessions: which session answers to an identifier
    session,   \* session[s]: the object
    timer,     \* timer[s]: the identifier under which s will expire
    closing,   \* sessions taken out of the table whose close() is to come
    peer,      \* peer[p]: the connection, with its session and agent
    doomed,    \* peers taken out of a session whose Close() is to come
    live,      \* peers whose other end is there: Meta connected, or RTP of
               \* an agent less than 5 s old
    inHand,    \* peers of agents with a packet read and not yet relayed
    player,    \* player[s]: goroutines that play to the customer of s
    proc       \* proc[r]: where handler r is

tableVars == <<sessions, timer>>
ends == <<closing, doomed>>
network == <<live, inHand>>
vars == <<sessions, session, timer, closing, peer, doomed, live, inHand,
          player, proc>>

NoSession == [state |-> "unused", agents |-> [a \in Agents |-> None],
              meta |-> None, toMeta |-> None, offer |-> FALSE,
              current |-> None, source |-> None, ivrStarted |-> FALSE]
NoPeer == [state |-> "unused", session |-> None, agent |-> None]
Idle == [pc |-> "idle", id |-> None, session |-> None, agent |-> None,
         peer |-> None, previous |-> None]

Listed(s) == \E i \in Ids : sessions[i] = s

Init ==
    /\ sessions = [i \in Ids |-> None]
    /\ session = [s \in Sessions |-> NoSession]
    /\ timer = [s \in Sessions |-> None]
    /\ closing = {} /\ doomed = {}
    /\ peer = [p \in Peers |-> NoPeer]
    /\ live = {} /\ inHand = {}
    /\ player = [s \in Sessions |-> 0]
    /\ proc = [r \in Requests |-> Idle]

-----------------------------------------------------------------------------
At(r, pc) == proc[r].pc = pc
MayStart(r, endpoint) == endpoint \in Endpoints /\ proc[r] = Idle
Finish(r) == proc' = [proc EXCEPT ![r] = Idle]
Doom(ps) == doomed' = doomed \cup (ps \ {None})

(* newSession.                                                             *)
NewSession(s, i) ==
    /\ sessions[i] = None /\ session[s] = NoSession
    /\ sessions' = [sessions EXCEPT ![i] = s]
    /\ session' = [session EXCEPT ![s].state = "open"]

(* NewPeerConnection and the wait for ICE candidates.                      *)
Gather(r, pc, p, q) ==
    /\ peer[p] = NoPeer
    /\ peer' = [peer EXCEPT ![p] = [state |-> "gathering", session |-> q.session,
                                    agent |-> q.agent]]
    /\ proc' = [proc EXCEPT ![r] = [q EXCEPT !.pc = pc, !.peer = p]]

GatherOrFail(r, pc, q) ==
    \/ \E p \in Peers : Gather(r, pc, p, q)
    \/ Finish(r) /\ UNCHANGED peer

(* The first section of closeSession: the identifier is free at once.      *)
Unlist(i) ==
    /\ closing' = closing \cup ({sessions[i]} \ {None})
    /\ sessions' = [sessions EXCEPT ![i] = None]

-----------------------------------------------------------------------------
(***************************************************************************)
(* Sessions: creation, binding, expiry, close.                             *)
(***************************************************************************)
PrepareInbound(r, i) ==
    /\ MayStart(r, "prepare")
    /\ \E s \in Sessions, p \in Peers :
          /\ NewSession(s, i)
          /\ Gather(r, "answerMeta", p, [Idle EXCEPT !.id = i, !.session = s])
    /\ UNCHANGED <<timer, ends, network, player>>

CreateProvisional(i) ==
    /\ "create" \in Endpoints
    /\ \E s \in Sessions : NewSession(s, i) /\ timer' = [timer EXCEPT ![s] = i]
    /\ UNCHANGED <<ends, peer, network, player, proc>>

(* Mutant: a bound session keeps its first identifier.                     *)
BindCopies(i, j) ==
    /\ "bind" \in Endpoints
    /\ sessions[i] # None /\ sessions[j] = None
    /\ sessions' = [sessions EXCEPT ![j] = sessions[i]]
    /\ UNCHANGED <<session, timer, ends, peer, network, player, proc>>

Bind(i, j) ==
    /\ "bind" \in Endpoints
    /\ sessions[i] # None /\ sessions[j] = None
    /\ sessions' = [sessions EXCEPT ![i] = None, ![j] = sessions[i]]
    /\ UNCHANGED <<session, timer, ends, peer, network, player, proc>>

(* Mutant: the timer closes its session whatever it is bound to.           *)
ExpireUnchecked(s) ==
    /\ timer[s] # None
    /\ timer' = [timer EXCEPT ![s] = None]
    /\ sessions' = [sessions EXCEPT ![timer[s]] = None]
    /\ closing' = closing \cup {s}
    /\ UNCHANGED <<session, peer, doomed, network, player, proc>>

(* Mutant: the timer spares a session whose media was prepared.            *)
ExpireUnused(s) ==
    /\ timer[s] # None
    /\ timer' = [timer EXCEPT ![s] = None]
    /\ IF sessions[timer[s]] = s /\ session[s].meta = None
       THEN Unlist(timer[s]) ELSE UNCHANGED <<sessions, closing>>
    /\ UNCHANGED <<session, peer, doomed, network, player, proc>>

(* The timer may fire late, when its identifier belongs to nobody or to a  *)
(* session created since.                                                  *)
ExpireProvisional(s) ==
    /\ timer[s] # None
    /\ timer' = [timer EXCEPT ![s] = None]
    /\ IF sessions[timer[s]] = s THEN Unlist(timer[s])
                                 ELSE UNCHANGED <<sessions, closing>>
    /\ UNCHANGED <<session, peer, doomed, network, player, proc>>

CloseSession(i) ==
    /\ "close" \in Endpoints
    /\ sessions[i] # None
    /\ Unlist(i)
    /\ UNCHANGED <<session, timer, peer, doomed, network, player, proc>>

(* Mutant: the end of a call closes Meta's connection only.                *)
CloseMetaOnly(s) ==
    /\ s \in closing
    /\ closing' = closing \ {s}
    /\ session' = [session EXCEPT ![s].state = "closed", ![s].meta = None,
                                  ![s].agents = NoSession.agents]
    /\ Doom({session[s].meta})
    /\ UNCHANGED <<tableVars, peer, network, player, proc>>

(* callSession.close, under the session's own lock.                        *)
Close(s) ==
    /\ s \in closing
    /\ closing' = closing \ {s}
    /\ session' = [session EXCEPT ![s].state = "closed", ![s].meta = None,
                                  ![s].agents = NoSession.agents]
    /\ Doom({session[s].agents[a] : a \in Agents} \cup {session[s].meta})
    /\ UNCHANGED <<tableVars, peer, network, player, proc>>

(* No session lists the peer any more, so when its tracks end is not seen. *)
ClosePeer(p) ==
    /\ p \in doomed
    /\ doomed' = doomed \ {p}
    /\ live' = live \ {p}
    /\ peer' = [peer EXCEPT ![p].state = "closed"]
    /\ UNCHANGED <<tableVars, session, closing, inHand, player, proc>>

-----------------------------------------------------------------------------
(***************************************************************************)
(* Requests that look a session up and then work on it.                    *)
(***************************************************************************)
LookUp(r, endpoint, i, a) ==
    /\ MayStart(r, endpoint) /\ endpoint \notin {"prepare", "create", "bind", "close"}
    /\ (a = None) <=> (endpoint \in {"offer", "repair", "play"})
    /\ sessions[i] # None
    /\ proc' = [proc EXCEPT ![r] = [Idle EXCEPT !.pc = endpoint, !.id = i,
                                       !.session = sessions[i], !.agent = a]]
    /\ UNCHANGED <<tableVars, session, ends, peer, network, player>>

CreateMetaOffer(r) ==
    /\ At(r, "offer")
    /\ GatherOrFail(r, "offerMeta", proc[r])
    /\ UNCHANGED <<tableVars, session, ends, network, player>>

(* repairMeta: metaReady looks the identifier up once more.                *)
RepairMeta(r) ==
    /\ At(r, "repair")
    /\ LET s == sessions[proc[r].id] IN
       IF s # None /\ session[s].meta \in live
       THEN Finish(r)
       ELSE proc' = [proc EXCEPT ![r].pc = "remote"]
    /\ UNCHANGED <<tableVars, session, ends, peer, network, player>>

ReadRemote(r) ==
    /\ At(r, "remote")
    /\ LET s == session[proc[r].session] IN
       IF s.offer
       THEN GatherOrFail(r, "repairMeta", [proc[r] EXCEPT !.previous = s.meta])
       ELSE Finish(r) /\ UNCHANGED peer
    /\ UNCHANGED <<tableVars, session, ends, network, player>>

(* joinAgent: the agent's old connection is read, then removed.            *)
JoinAgent(r) ==
    /\ At(r, "join")
    /\ LET existing == session[proc[r].session].agents[proc[r].agent] IN
       IF existing = None
       THEN GatherOrFail(r, "joinAgent", proc[r])
       ELSE /\ proc' = [proc EXCEPT ![r].pc = "drop", ![r].previous = existing]
            /\ UNCHANGED peer
    /\ UNCHANGED <<tableVars, session, ends, network, player>>

(* Mutant: the old connection is closed and stays in the session.          *)
DropListed(r) ==
    /\ At(r, "drop")
    /\ Doom({proc[r].previous})
    /\ GatherOrFail(r, "joinAgent", proc[r])
    /\ UNCHANGED <<tableVars, session, closing, network, player>>

DropExisting(r) ==
    /\ At(r, "drop")
    /\ LET s == proc[r].session
           a == proc[r].agent IN
       session' = IF session[s].agents[a] = proc[r].previous
                  THEN [session EXCEPT ![s].agents[a] = None] ELSE session
    /\ Doom({proc[r].previous})
    /\ GatherOrFail(r, "joinAgent", proc[r])
    /\ UNCHANGED <<tableVars, closing, network, player>>

(* Gathering ended, and the peer becomes part of the session, which may    *)
(* have been closed meanwhile.                                             *)
Answered(r) == peer' = [peer EXCEPT ![proc[r].peer].state = "open"]

InstallMeta(r) ==
    /\ proc[r].pc \in {"answerMeta", "offerMeta", "repairMeta"}
    /\ LET s == proc[r].session IN
       /\ session' = [session EXCEPT ![s].meta = proc[r].peer,
                                     ![s].toMeta = proc[r].peer,
                                     ![s].offer = @ \/ At(r, "answerMeta")]
       /\ Doom(CASE At(r, "answerMeta") -> {}
                 [] At(r, "offerMeta") -> {session[s].meta}
                 [] At(r, "repairMeta") -> {proc[r].previous})
    /\ Answered(r) /\ Finish(r)
    /\ UNCHANGED <<tableVars, closing, network, player>>

InstallAgent(r) ==
    /\ At(r, "joinAgent")
    /\ session' = [session EXCEPT ![proc[r].session].agents[proc[r].agent] = proc[r].peer]
    /\ Answered(r) /\ Finish(r)
    /\ UNCHANGED <<tableVars, ends, network, player>>

(* prepareInbound closes by identifier whatever session is there.          *)
GatherFails(r) ==
    /\ proc[r].pc \in {"answerMeta", "offerMeta", "repairMeta", "joinAgent"}
    /\ Doom({proc[r].peer})
    /\ IF At(r, "answerMeta") THEN Unlist(proc[r].id)
                              ELSE UNCHANGED <<sessions, closing>>
    /\ Finish(r)
    /\ UNCHANGED <<session, timer, peer, network, player>>

(* Mutant: any agent can be made current, connected or not.                *)
SetCurrentUnready(r) ==
    /\ At(r, "switch")
    /\ session' = [session EXCEPT ![proc[r].session].current = proc[r].agent]
    /\ Finish(r)
    /\ UNCHANGED <<tableVars, ends, peer, network, player>>

SetCurrent(r) ==
    /\ At(r, "switch")
    /\ LET s == proc[r].session
           a == proc[r].agent IN
       session' = IF session[s].agents[a] \in live
                  THEN [session EXCEPT ![s].current = a] ELSE session
    /\ Finish(r)
    /\ UNCHANGED <<tableVars, ends, peer, network, player>>

RemoveAgent(r) ==
    /\ At(r, "remove")
    /\ LET s == proc[r].session
           a == proc[r].agent IN
       /\ session' = [session EXCEPT ![s].agents[a] = None,
                                     ![s].current = IF @ = a THEN None ELSE @]
       /\ Doom({session[s].agents[a]})
    /\ Finish(r)
    /\ UNCHANGED <<tableVars, closing, peer, network, player>>

(* playIvr: the first prompt of a session starts its player, later ones    *)
(* only change what it plays.                                              *)
Waiting(s) == session[s].state # "closed" /\ session[s].current = None

(* Mutant: every prompt starts a player.                                   *)
PlayAgain(r) ==
    /\ At(r, "play")
    /\ LET s == proc[r].session IN
       IF Waiting(s)
       THEN /\ session' = [session EXCEPT ![s].ivrStarted = TRUE]
            /\ player' = [player EXCEPT ![s] = @ + 1]
       ELSE UNCHANGED <<session, player>>
    /\ Finish(r)
    /\ UNCHANGED <<tableVars, ends, peer, network>>

PlayIvr(r) ==
    /\ At(r, "play")
    /\ LET s == proc[r].session IN
       IF Waiting(s)
       THEN /\ session' = [session EXCEPT ![s].ivrStarted = TRUE]
            /\ player' = [player EXCEPT ![s] = IF session[s].ivrStarted THEN @ ELSE @ + 1]
       ELSE UNCHANGED <<session, player>>
    /\ Finish(r)
    /\ UNCHANGED <<tableVars, ends, peer, network>>

-----------------------------------------------------------------------------
(***************************************************************************)
(* Sound.  source is the peer whose packet was last written to Meta.       *)
(***************************************************************************)
Write(s, source) == session' = [session EXCEPT ![s].source = source]

(* Mutant: the player goes on after it has returned.                       *)
PlayerTickAfterReturn(s) ==
    /\ IF Waiting(s)
       THEN /\ session[s].meta \in live /\ Write(s, Ivr)
            /\ UNCHANGED player
       ELSE /\ session[s].ivrStarted
            /\ player' = [player EXCEPT ![s] = @ - 1]
            /\ UNCHANGED session
    /\ UNCHANGED <<tableVars, ends, peer, network, proc>>

PlayerTick(s) ==
    /\ player[s] > 0
    /\ IF Waiting(s)
       THEN /\ session[s].meta \in live /\ Write(s, Ivr)
            /\ UNCHANGED player
       ELSE /\ player' = [player EXCEPT ![s] = @ - 1]
            /\ UNCHANGED session
    /\ UNCHANGED <<tableVars, ends, peer, network, proc>>

(* A browser or Meta connects, once it has the gateway's answer.           *)
Connects(p) ==
    /\ peer[p].state = "open" /\ p \notin live
    /\ live' = live \cup {p}
    /\ UNCHANGED <<tableVars, session, ends, peer, inHand, player, proc>>

(* It falls silent, or its connection ends.                                *)
Silent(p) ==
    /\ p \in live
    /\ live' = live \ {p}
    /\ UNCHANGED <<tableVars, session, ends, peer, inHand, player, proc>>

ReadPacket(p) ==
    /\ peer[p].state = "open" /\ peer[p].agent # None
    /\ p \in live /\ p \notin inHand
    /\ inHand' = inHand \cup {p}
    /\ UNCHANGED <<tableVars, session, ends, peer, live, player, proc>>

(* Mutant: an agent is recognised by its name, not by its connection.      *)
HeardByName(p) ==
    LET s == session[peer[p].session] IN
    s.current = peer[p].agent /\ s.toMeta # None

(* relayAgent: the packet was read before the lock was taken.              *)
Heard(p) ==
    LET s == session[peer[p].session] IN
    /\ s.current = peer[p].agent
    /\ s.agents[peer[p].agent] = p
    /\ s.toMeta # None

RelayAgent(p) ==
    /\ p \in inHand
    /\ inHand' = inHand \ {p}
    /\ IF Heard(p) THEN Write(peer[p].session, p) ELSE UNCHANGED session
    /\ UNCHANGED <<tableVars, ends, peer, live, player, proc>>

-----------------------------------------------------------------------------
Handler(r) ==
    \/ CreateMetaOffer(r) \/ RepairMeta(r) \/ ReadRemote(r)
    \/ JoinAgent(r) \/ DropExisting(r)
    \/ InstallMeta(r) \/ InstallAgent(r) \/ GatherFails(r)
    \/ SetCurrent(r) \/ RemoveAgent(r) \/ PlayIvr(r)

Next ==
    \/ \E r \in Requests, i \in Ids :
          \/ PrepareInbound(r, i)
          \/ \E endpoint \in Endpoints, a \in Agents \cup {None} :
                LookUp(r, endpoint, i, a)
    \/ \E i \in Ids : CreateProvisional(i) \/ CloseSession(i)
                      \/ \E j \in Ids : Bind(i, j)
    \/ \E r \in Requests : Handler(r)
    \/ \E s \in Sessions : ExpireProvisional(s) \/ Close(s) \/ PlayerTick(s)
    \/ \E p \in Peers : ClosePeer(p) \/ Connects(p) \/ Silent(p)
                        \/ ReadPacket(p) \/ RelayAgent(p)

Spec == Init /\ [][Next]_vars

(* Timers fire, goroutines run and tickers tick.  Nothing is assumed of    *)
(* requests, of ICE or of the network.                                     *)
Fairness ==
    /\ \A s \in Sessions : /\ WF_vars(ExpireProvisional(s))
                           /\ WF_vars(Close(s))
                           /\ WF_vars(PlayerTick(s))
    /\ \A p \in Peers : WF_vars(ClosePeer(p))

FairSpec == Spec /\ Fairness
=============================================================================
