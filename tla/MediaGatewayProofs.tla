------------------------- MODULE MediaGatewayProofs -------------------------
(***************************************************************************)
(* Proofs about MediaGateway for every set of identifiers, agents,         *)
(* sessions, peers and handlers.                                           *)
(***************************************************************************)
EXTENDS MediaGatewayProps, TLAPS

(* What a step does to the handlers, and to the peers, when it gathers.    *)
LEMMA HandlerStep ==
    ASSUME HandlersOK, NEW r \in Requests, NEW q \in Handlers, HandlerOK(q),
           proc' = [proc EXCEPT ![r] = q]
    PROVE  HandlersOK'
<1>1. proc' \in [Requests -> Handlers]
  BY DEF HandlersOK
<1>2. ASSUME NEW t \in Requests PROVE HandlerOK(proc'[t])
  BY DEF HandlersOK
<1> QED BY <1>1, <1>2 DEF HandlersOK, HandlerOK

LEMMA IdleOK == Idle \in Handlers /\ HandlerOK(Idle)
BY DEF Idle, Handlers, HandlerOK, Connections, Gathering, ForAgent

LEMMA FinishStep ==
    ASSUME HandlersOK, NEW r \in Requests, Finish(r)
    PROVE  HandlersOK'
BY HandlerStep, IdleOK DEF Finish

(* A handler that moves on to gather a peer.                               *)
LEMMA GatherStep ==
    ASSUME HandlersOK, PeersOK, UNCHANGED network,
           NEW r \in Requests, NEW pc \in Gathering, NEW p \in Peers,
           NEW q \in Handlers, Gather(r, pc, p, q),
           q.session # None, q.id # None, q.agent # None <=> pc = "joinAgent"
    PROVE  HandlersOK' /\ PeersOK'
<1> DEFINE h == [q EXCEPT !.pc = pc, !.peer = p]
<1>1. p # None
  BY ConstantsAssumption
<1>2. /\ h \in Handlers /\ h.pc = pc /\ h.peer = p
      /\ h.session = q.session /\ h.id = q.id /\ h.agent = q.agent
  BY DEF Handlers, Gathering, Connections
<1>3. HandlerOK(h)
  BY <1>1, <1>2 DEF HandlerOK, Gathering, ForAgent
<1>4. HandlersOK'
  BY <1>2, <1>3, HandlerStep DEF Gather
<1>5. p \notin inHand
  BY DEF PeersOK, Gather, NoPeer
<1>6. [state |-> "gathering", session |-> q.session, agent |-> q.agent] \in PeerRecord
  BY DEF PeerRecord, Handlers
<1>7. PeersOK'
  BY <1>5, <1>6 DEF PeersOK, Gather, network
<1> QED BY <1>4, <1>7

LEMMA GatherOrFailStep ==
    ASSUME HandlersOK, PeersOK, UNCHANGED network,
           NEW r \in Requests, NEW pc \in Gathering,
           NEW q \in Handlers, GatherOrFail(r, pc, q),
           q.session # None, q.id # None, q.agent # None <=> pc = "joinAgent"
    PROVE  HandlersOK' /\ PeersOK'
<1>1. CASE \E p \in Peers : Gather(r, pc, p, q)
  BY <1>1, GatherStep
<1>2. CASE Finish(r) /\ UNCHANGED peer
  BY <1>2, FinishStep DEF PeersOK, network
<1> QED BY <1>1, <1>2 DEF GatherOrFail

LEMMA UnlistOK ==
    ASSUME TableOK, NEW i \in Ids, Unlist(i), UNCHANGED <<timer, doomed>>
    PROVE  TableOK'
BY DEF TableOK, Unlist

LEMMA DoomOK ==
    ASSUME TableOK, NEW ps \in SUBSET Connections, Doom(ps),
           UNCHANGED <<sessions, timer>>, closing' \subseteq closing
    PROVE  TableOK'
BY DEF TableOK, Doom, Connections

(* What a handler under way names.                                         *)
LEMMA HandlerNames ==
    ASSUME HandlersOK, NEW r \in Requests
    PROVE  /\ proc[r] \in Handlers
           /\ ~At(r, "idle") => proc[r].session \in Sessions /\ proc[r].id \in Ids
           /\ proc[r].pc \in ForAgent => proc[r].agent \in Agents
           /\ proc[r].pc \notin ForAgent => proc[r].agent = None
           /\ proc[r].pc \in Gathering => proc[r].peer \in Peers
           /\ At(r, "drop") => proc[r].previous \in Peers
BY DEF HandlersOK, Handlers, HandlerOK, At, Connections

LEMMA ObjectOK ==
    ASSUME session \in [Sessions -> SessionRecord], NEW s \in Sessions
    PROVE  /\ session[s] \in SessionRecord
           /\ session[s].meta \in Connections
           /\ \A a \in Agents : session[s].agents[a] \in Connections
           /\ DOMAIN session[s].agents = Agents
BY DEF SessionRecord

(* A step that replaces one session object.                                *)
LEMMA SessionStep ==
    ASSUME session \in [Sessions -> SessionRecord], NEW s \in Sessions,
           NEW o \in SessionRecord, session' = [session EXCEPT ![s] = o]
    PROVE  session' \in [Sessions -> SessionRecord]
OBVIOUS

LEMMA AgentsStep ==
    ASSUME NEW o \in SessionRecord, NEW a \in Agents, NEW p \in Connections,
           NEW b \in Agents \cup {None}
    PROVE  /\ [o EXCEPT !.agents[a] = p] \in SessionRecord
           /\ [o EXCEPT !.agents[a] = p, !.current = b] \in SessionRecord
<1>1. [o.agents EXCEPT ![a] = p] \in [Agents -> Connections]
  BY DEF SessionRecord
<1> QED BY <1>1 DEF SessionRecord

LEMMA NoneConnection == None \in Connections /\ Peers \subseteq Connections
BY DEF Connections

-----------------------------------------------------------------------------
LEMMA InitTypeInv == Init => TypeInv
<1> SUFFICES ASSUME Init PROVE TypeInv
  OBVIOUS
<1>1. TableOK
  BY DEF Init, TableOK
<1>2. PeersOK
  BY DEF Init, PeersOK, NoPeer, PeerRecord
<1>3. HandlersOK
  BY IdleOK DEF Init, HandlersOK
<1>4. session \in [Sessions -> SessionRecord]
  BY DEF Init, NoSession, SessionRecord, Connections
<1> QED BY <1>1, <1>2, <1>3, <1>4 DEF TypeInv, Init

LEMMA HandlerTypeInv ==
    ASSUME TypeInv, NEW r \in Requests, Handler(r)
    PROVE  TypeInv'
<1> USE DEF TypeInv
<1> DEFINE h == proc[r]
<1>n. /\ h \in Handlers
      /\ ~At(r, "idle") => h.session \in Sessions /\ h.id \in Ids
      /\ h.pc \in ForAgent => h.agent \in Agents
      /\ h.pc \notin ForAgent => h.agent = None
      /\ h.pc \in Gathering => h.peer \in Peers
      /\ At(r, "drop") => h.previous \in Peers
  BY HandlerNames
<1>k. None \notin Sessions /\ None \notin Ids /\ None \notin Agents /\ None \notin Peers
  BY ConstantsAssumption
<1>1. CASE CreateMetaOffer(r)
  <2>1. HandlersOK' /\ PeersOK'
    BY <1>1, <1>n, <1>k, GatherOrFailStep
       DEF CreateMetaOffer, At, Gathering, ForAgent, network
  <2> QED BY <1>1, <2>1 DEF CreateMetaOffer, TableOK, tableVars, ends
<1>2. CASE RepairMeta(r)
  <2>1. CASE Finish(r)
    BY <1>2, <2>1, FinishStep DEF RepairMeta, TableOK, PeersOK, tableVars, ends, network
  <2>2. CASE proc' = [proc EXCEPT ![r].pc = "remote"]
    <3>1. /\ [h EXCEPT !.pc = "remote"] \in Handlers
          /\ proc' = [proc EXCEPT ![r] = [h EXCEPT !.pc = "remote"]]
      BY <1>n, <2>2 DEF Handlers, HandlersOK
    <3>2. HandlerOK([h EXCEPT !.pc = "remote"])
      BY <1>2, <1>n, <1>k DEF RepairMeta, At, HandlerOK, Handlers, Gathering, ForAgent
    <3>3. HandlersOK'
      BY <3>1, <3>2, HandlerStep
    <3> QED BY <1>2, <3>3 DEF RepairMeta, TableOK, PeersOK, tableVars, ends, network
  <2> QED BY <1>2, <2>1, <2>2 DEF RepairMeta
<1>3. CASE ReadRemote(r)
  <2> DEFINE q == [h EXCEPT !.previous = session[h.session].meta]
  <2>1. CASE session[h.session].offer
    <3>1. /\ q \in Handlers /\ q.session = h.session /\ q.id = h.id /\ q.agent = h.agent
      BY <1>3, <1>n, ObjectOK DEF ReadRemote, At, Handlers
    <3>2. HandlersOK' /\ PeersOK'
      BY <1>3, <1>n, <1>k, <2>1, <3>1, GatherOrFailStep
         DEF ReadRemote, At, Gathering, ForAgent, network
    <3> QED BY <1>3, <3>2 DEF ReadRemote, TableOK, tableVars, ends
  <2>2. CASE ~session[h.session].offer
    BY <1>3, <2>2, FinishStep DEF ReadRemote, TableOK, PeersOK, tableVars, ends, network
  <2> QED BY <2>1, <2>2
<1>4. CASE JoinAgent(r)
  <2> DEFINE x == session[h.session].agents[h.agent]
             q == [h EXCEPT !.pc = "drop", !.previous = x]
  <2>1. CASE x = None
    <3>1. HandlersOK' /\ PeersOK'
      BY <1>4, <1>n, <1>k, <2>1, GatherOrFailStep
         DEF JoinAgent, At, Gathering, ForAgent, network
    <3> QED BY <1>4, <3>1 DEF JoinAgent, TableOK, tableVars, ends
  <2>2. CASE x # None
    <3>1. x \in Connections
      BY <1>4, <1>n, ObjectOK DEF JoinAgent, At, ForAgent
    <3>2. q \in Handlers /\ proc' = [proc EXCEPT ![r] = q]
      BY <1>4, <1>n, <2>2, <3>1 DEF JoinAgent, Handlers, HandlersOK
    <3>3. HandlerOK(q)
      BY <1>4, <1>n, <1>k, <2>2 DEF JoinAgent, At, HandlerOK, Handlers, Gathering, ForAgent
    <3>4. HandlersOK'
      BY <3>2, <3>3, HandlerStep
    <3> QED BY <1>4, <2>2, <3>4 DEF JoinAgent, TableOK, PeersOK, tableVars, ends, network
  <2> QED BY <2>1, <2>2
<1>5. CASE DropExisting(r)
  <2>1. HandlersOK' /\ PeersOK'
    BY <1>5, <1>n, <1>k, GatherOrFailStep
       DEF DropExisting, At, Gathering, ForAgent, network
  <2>2. TableOK'
    BY <1>5, <1>n, NoneConnection, DoomOK DEF DropExisting, tableVars
  <2>3. session' \in [Sessions -> SessionRecord]
    <3>1. h.session \in Sessions /\ h.agent \in Agents
      BY <1>5, <1>n DEF DropExisting, At, ForAgent
    <3>2. [session[h.session] EXCEPT !.agents[h.agent] = None] \in SessionRecord
      BY <3>1, ObjectOK, NoneConnection, AgentsStep
    <3>3. CASE session' = [session EXCEPT ![h.session].agents[h.agent] = None]
      BY <3>1, <3>2, <3>3, SessionStep
    <3> QED BY <1>5, <3>3 DEF DropExisting
  <2> QED BY <1>5, <2>1, <2>2, <2>3 DEF DropExisting
<1>6. CASE InstallMeta(r)
  <2>1. h.pc \in Gathering /\ h.session \in Sessions /\ h.peer \in Peers
    BY <1>6, <1>n DEF InstallMeta, Gathering, At
  <2>2. HandlersOK'
    BY <1>6, FinishStep DEF InstallMeta
  <2>3. PeersOK'
    BY <1>6, <2>1 DEF InstallMeta, Answered, PeersOK, PeerRecord, network
  <2>4. /\ session[h.session].meta \in Connections
        /\ h.previous \in Connections
    BY <1>n, <2>1, ObjectOK DEF Handlers
  <2>5. TableOK'
    <3> DEFINE ps == CASE At(r, "answerMeta") -> {}
                       [] At(r, "offerMeta") -> {session[h.session].meta}
                       [] At(r, "repairMeta") -> {h.previous}
    <3>1. ps \subseteq Connections /\ Doom(ps)
      BY <1>6, <2>4 DEF InstallMeta, At
    <3> QED BY <1>6, <3>1, DoomOK DEF InstallMeta, tableVars
  <2>6. session' \in [Sessions -> SessionRecord]
    <3> DEFINE known == session[h.session].offer \/ At(r, "answerMeta")
               o == [session[h.session] EXCEPT !.meta = h.peer, !.toMeta = h.peer,
                                               !.offer = known]
    <3>1. known \in BOOLEAN
      OBVIOUS
    <3>2. o \in SessionRecord
      <4>1. session[h.session] \in SessionRecord /\ h.peer \in Connections
        BY <2>1, ObjectOK, NoneConnection
      <4> HIDE DEF known, h
      <4> QED BY <3>1, <4>1 DEF SessionRecord
    <3>3. session' = [session EXCEPT ![h.session] = o]
      BY <1>6, <2>1 DEF InstallMeta
    <3> HIDE DEF o
    <3> QED BY <2>1, <3>2, <3>3, SessionStep
  <2> QED BY <1>6, <2>2, <2>3, <2>5, <2>6 DEF InstallMeta
<1>7. CASE InstallAgent(r)
  <2>1. h.pc \in Gathering /\ h.session \in Sessions /\ h.peer \in Peers
    BY <1>7, <1>n DEF InstallAgent, Gathering, At
  <2>2. HandlersOK'
    BY <1>7, FinishStep DEF InstallAgent
  <2>3. PeersOK'
    BY <1>7, <2>1 DEF InstallAgent, Answered, PeersOK, PeerRecord, network
  <2>4. session' \in [Sessions -> SessionRecord]
    BY ZenonT(40), <1>7, <2>1, NoneConnection DEF InstallAgent, SessionRecord
  <2> QED BY <1>7, <2>2, <2>3, <2>4 DEF InstallAgent, TableOK, tableVars, ends
<1>8. CASE GatherFails(r)
  <2>1. h.peer \in Peers /\ h.id \in Ids
    BY <1>8, <1>n DEF GatherFails, Gathering, At
  <2>2. HandlersOK'
    BY <1>8, FinishStep DEF GatherFails
  <2>3. TableOK'
    BY <1>8, <2>1 DEF GatherFails, Unlist, Doom, TableOK
  <2> QED BY <1>8, <2>2, <2>3 DEF GatherFails, PeersOK, network
<1>9. CASE SetCurrent(r)
  <2>1. h.agent \in Agents
    BY <1>9, <1>n DEF SetCurrent, At, ForAgent
  <2>2. HandlersOK'
    BY <1>9, FinishStep DEF SetCurrent
  <2>3. session' \in [Sessions -> SessionRecord]
    <3>1. h.session \in Sessions
      BY <1>9, <1>n DEF SetCurrent, At
    <3>2. [session[h.session] EXCEPT !.current = h.agent] \in SessionRecord
      BY <2>1, <3>1, ObjectOK DEF SessionRecord
    <3>3. CASE session' = [session EXCEPT ![h.session].current = h.agent]
      BY Zenon, <3>1, <3>2, <3>3, SessionStep
    <3> QED BY <1>9, <3>3 DEF SetCurrent
  <2> QED BY <1>9, <2>2, <2>3 DEF SetCurrent, TableOK, PeersOK, tableVars, ends, network
<1>10. CASE RemoveAgent(r)
  <2>1. h.agent \in Agents /\ h.session \in Sessions
    BY <1>10, <1>n DEF RemoveAgent, At, ForAgent
  <2>2. HandlersOK'
    BY <1>10, FinishStep DEF RemoveAgent
  <2>3. TableOK'
    BY <1>10, <2>1, ObjectOK, DoomOK DEF RemoveAgent, tableVars
  <2>4. session' \in [Sessions -> SessionRecord]
    <3> DEFINE c == session[h.session].current
               b == IF c = h.agent THEN None ELSE c
               o == [session[h.session] EXCEPT !.agents[h.agent] = None, !.current = b]
    <3>1. b \in Agents \cup {None}
      BY <2>1, ObjectOK DEF SessionRecord
    <3>2. o \in SessionRecord
      BY <2>1, <3>1, ObjectOK, NoneConnection, AgentsStep
    <3>3. session' = [session EXCEPT ![h.session] = o]
      BY <1>10, <2>1 DEF RemoveAgent
    <3> HIDE DEF o
    <3> QED BY <2>1, <3>2, <3>3, SessionStep
  <2> QED BY <1>10, <2>2, <2>3, <2>4 DEF RemoveAgent, PeersOK, network
<1>11. CASE PlayIvr(r)
  <2>1. HandlersOK'
    BY <1>11, FinishStep DEF PlayIvr
  <2>2. session' \in [Sessions -> SessionRecord] /\ player' \in [Sessions -> Nat]
    <3>1. h.session \in Sessions
      BY <1>11, <1>n DEF PlayIvr, At
    <3>2. [session[h.session] EXCEPT !.ivrStarted = TRUE] \in SessionRecord
      BY <3>1, ObjectOK DEF SessionRecord
    <3>3. CASE Waiting(h.session)
      <4>1. session' = [session EXCEPT ![h.session].ivrStarted = TRUE]
        BY <1>11, <3>3 DEF PlayIvr
      <4>2. session' \in [Sessions -> SessionRecord]
        BY <3>1, <3>2, <4>1, SessionStep
      <4>3. player' \in [Sessions -> Nat]
        BY <1>11, <3>1, <3>3 DEF PlayIvr
      <4> QED BY <4>2, <4>3
    <3>4. CASE ~Waiting(h.session)
      BY <1>11, <3>4 DEF PlayIvr
    <3> QED BY <3>3, <3>4
  <2> QED BY <1>11, <2>1, <2>2 DEF PlayIvr, TableOK, PeersOK, tableVars, ends, network
<1> QED
  BY <1>1, <1>2, <1>3, <1>4, <1>5, <1>6, <1>7, <1>8, <1>9, <1>10, <1>11 DEF Handler

LEMMA StepTypeInv == TypeInv /\ [Next]_vars => TypeInv'
<1> SUFFICES ASSUME TypeInv, [Next]_vars PROVE TypeInv'
  OBVIOUS
<1> USE DEF TypeInv
<1>k. None \notin Sessions /\ None \notin Ids /\ None \notin Agents /\ None \notin Peers
  BY ConstantsAssumption
<1>o. ASSUME NEW s \in Sessions PROVE session[s] \in SessionRecord
  BY ObjectOK
<1>1. ASSUME NEW r \in Requests, NEW i \in Ids, PrepareInbound(r, i) PROVE TypeInv'
  <2>1. PICK s \in Sessions, p \in Peers :
          /\ NewSession(s, i)
          /\ Gather(r, "answerMeta", p, [Idle EXCEPT !.id = i, !.session = s])
    BY <1>1 DEF PrepareInbound
  <2> DEFINE q == [Idle EXCEPT !.id = i, !.session = s]
  <2>2. q \in Handlers /\ q.session = s /\ q.id = i /\ q.agent = None
    BY DEF Idle, Handlers, Connections
  <2>3. HandlersOK' /\ PeersOK'
    BY <1>1, <1>k, <2>1, <2>2, GatherStep DEF PrepareInbound, network, Gathering
  <2>4. session' \in [Sessions -> SessionRecord]
    <3>1. [session[s] EXCEPT !.state = "open"] \in SessionRecord
      BY <1>o DEF SessionRecord
    <3> QED BY <2>1, <3>1, SessionStep DEF NewSession
  <2>5. TableOK'
    BY <1>1, <2>1 DEF PrepareInbound, NewSession, TableOK, ends
  <2> QED BY <1>1, <2>3, <2>4, <2>5 DEF PrepareInbound
<1>2. ASSUME NEW r \in Requests, NEW i \in Ids, NEW e \in Endpoints,
             NEW a \in Agents \cup {None}, LookUp(r, e, i, a)
      PROVE TypeInv'
  <2> DEFINE q == [Idle EXCEPT !.pc = e, !.id = i, !.session = sessions[i], !.agent = a]
  <2>1. e \in {"offer", "repair", "join", "switch", "remove", "play"}
    BY <1>2, ConstantsAssumption DEF LookUp, AllEndpoints
  <2>2. sessions[i] \in Sessions
    BY <1>2 DEF LookUp, TableOK
  <2>3. q \in Handlers
    BY <2>1, <2>2 DEF Idle, Handlers, Connections
  <2>4. HandlerOK(q)
    BY <1>2, <1>k, <2>1, <2>2 DEF LookUp, HandlerOK, Idle, Gathering, ForAgent
  <2>5. HandlersOK'
    BY <1>2, <2>3, <2>4, HandlerStep DEF LookUp
  <2> QED BY <1>2, <2>5 DEF LookUp, TableOK, PeersOK, tableVars, ends, network
<1>3. ASSUME NEW i \in Ids, CreateProvisional(i) PROVE TypeInv'
  <2>1. PICK s \in Sessions : NewSession(s, i) /\ timer' = [timer EXCEPT ![s] = i]
    BY <1>3 DEF CreateProvisional
  <2>2. session' \in [Sessions -> SessionRecord]
    <3>1. [session[s] EXCEPT !.state = "open"] \in SessionRecord
      BY <1>o DEF SessionRecord
    <3> QED BY <2>1, <3>1, SessionStep DEF NewSession
  <2>3. TableOK'
    BY <1>3, <2>1 DEF CreateProvisional, NewSession, TableOK, ends
  <2> QED BY <1>3, <2>2, <2>3 DEF CreateProvisional, PeersOK, HandlersOK, network
<1>4. ASSUME NEW i \in Ids, CloseSession(i) PROVE TypeInv'
  BY <1>4, UnlistOK DEF CloseSession, PeersOK, HandlersOK, network
<1>5. ASSUME NEW i \in Ids, NEW j \in Ids, Bind(i, j) PROVE TypeInv'
  BY <1>5 DEF Bind, TableOK, ends, PeersOK, HandlersOK, network
<1>6. ASSUME NEW r \in Requests, Handler(r) PROVE TypeInv'
  BY <1>6, HandlerTypeInv
<1>7. ASSUME NEW s \in Sessions, ExpireProvisional(s) PROVE TypeInv'
  BY <1>7 DEF ExpireProvisional, Unlist, TableOK, PeersOK, HandlersOK, network
<1>8. ASSUME NEW s \in Sessions, Close(s) PROVE TypeInv'
  <2> DEFINE o == [session[s] EXCEPT !.state = "closed", !.meta = None,
                                     !.agents = NoSession.agents]
             ps == {session[s].agents[a] : a \in Agents} \cup {session[s].meta}
  <2>1. o \in SessionRecord
    <3>1. NoSession.agents \in [Agents -> Connections]
      BY DEF NoSession, Connections
    <3> QED BY <1>o, <3>1, NoneConnection DEF SessionRecord
  <2>2. session' = [session EXCEPT ![s] = o]
    BY <1>8 DEF Close
  <2>3. session' \in [Sessions -> SessionRecord]
    <3> HIDE DEF o
    <3> QED BY <2>1, <2>2, SessionStep
  <2>4. ps \subseteq Connections
    BY ObjectOK
  <2>5. TableOK'
    BY <1>8, <2>4, DoomOK DEF Close, tableVars
  <2> QED BY <1>8, <2>3, <2>5 DEF Close, PeersOK, HandlersOK, network
<1>9. ASSUME NEW s \in Sessions, PlayerTick(s) PROVE TypeInv'
  <2>1. [session[s] EXCEPT !.source = Ivr] \in SessionRecord
    BY <1>o DEF SessionRecord
  <2>2. session' \in [Sessions -> SessionRecord]
    BY <1>9, <2>1, SessionStep DEF PlayerTick, Write
  <2>3. player' \in [Sessions -> Nat]
    BY <1>9 DEF PlayerTick
  <2> QED BY <1>9, <2>2, <2>3 DEF PlayerTick, TableOK, PeersOK, HandlersOK,
                                  tableVars, ends, network
<1>10. ASSUME NEW p \in Peers, ClosePeer(p) PROVE TypeInv'
  BY <1>10 DEF ClosePeer, TableOK, PeersOK, PeerRecord, HandlersOK, tableVars
<1>11. ASSUME NEW p \in Peers, Connects(p) \/ Silent(p) \/ ReadPacket(p) PROVE TypeInv'
  BY <1>11 DEF Connects, Silent, ReadPacket, TableOK, PeersOK, HandlersOK, tableVars, ends
<1>12. ASSUME NEW p \in Peers, RelayAgent(p) PROVE TypeInv'
  <2>1. ASSUME NEW s \in Sessions PROVE [session[s] EXCEPT !.source = p] \in SessionRecord
    BY <1>o, NoneConnection DEF SessionRecord
  <2>2. session' \in [Sessions -> SessionRecord]
    BY <1>12, <2>1, SessionStep DEF RelayAgent, Write
  <2> QED BY <1>12, <2>2 DEF RelayAgent, TableOK, PeersOK, HandlersOK, tableVars, ends
<1>13. CASE UNCHANGED vars
  BY <1>13 DEF vars, TableOK, PeersOK, HandlersOK
<1> QED
  BY <1>1, <1>2, <1>3, <1>4, <1>5, <1>6, <1>7, <1>8, <1>9, <1>10, <1>11, <1>12, <1>13
     DEF Next

(* The variables keep their shape and handlers know what they work on      *)
(* (main.go, ivr.go).                                                      *)
THEOREM TypeCorrect == Spec => []TypeInv
BY InitTypeInv, StepTypeInv, PTL DEF Spec

-----------------------------------------------------------------------------
(***************************************************************************)
(* What the steps of a handler leave alone.                                *)
(***************************************************************************)
SameStates == \A s \in Sessions : session'[s].state = session[s].state
SameSources == \A s \in Sessions : session'[s].source = session[s].source
KeepStarted == \A s \in Sessions : session[s].ivrStarted => session'[s].ivrStarted

LEMMA HandlerKeeps ==
    ASSUME TypeInv, NEW r \in Requests, Handler(r)
    PROVE  /\ SameStates /\ SameSources /\ KeepStarted
           /\ UNCHANGED <<sessions, closing>> \/ (At(r, "answerMeta") /\ Unlist(proc[r].id))
<1> USE DEF TypeInv, SameStates, SameSources, KeepStarted
<1>o. ASSUME NEW s \in Sessions PROVE session[s] \in SessionRecord
  BY ObjectOK
<1>1. CASE CreateMetaOffer(r) \/ RepairMeta(r) \/ ReadRemote(r) \/ JoinAgent(r)
  BY <1>1 DEF CreateMetaOffer, RepairMeta, ReadRemote, JoinAgent, tableVars, ends
<1>2. CASE DropExisting(r)
  BY Zenon, <1>2, <1>o DEF DropExisting, SessionRecord, tableVars
<1>3. CASE InstallMeta(r)
  BY <1>3, <1>o DEF InstallMeta, SessionRecord, tableVars
<1>4. CASE InstallAgent(r)
  BY <1>4, <1>o DEF InstallAgent, SessionRecord, tableVars, ends
<1>5. CASE SetCurrent(r)
  BY Zenon, <1>5, <1>o DEF SetCurrent, SessionRecord, tableVars, ends
<1>6. CASE RemoveAgent(r)
  BY <1>6, <1>o DEF RemoveAgent, SessionRecord, tableVars
<1>7. CASE PlayIvr(r)
  <2> DEFINE s == proc[r].session
  <2>1. CASE Waiting(s)
    <3>1. session' = [session EXCEPT ![s].ivrStarted = TRUE]
      BY <1>7, <2>1 DEF PlayIvr
    <3>2. ASSUME NEW t \in Sessions
          PROVE  /\ session'[t].state = session[t].state
                 /\ session'[t].source = session[t].source
      BY <1>o, <3>1 DEF SessionRecord
    <3>3. ASSUME NEW t \in Sessions, session[t].ivrStarted
          PROVE  session'[t].ivrStarted
      <4>1. CASE t = s
        BY <1>o, <3>1, <4>1 DEF SessionRecord
      <4>2. CASE t # s
        BY <3>1, <3>3, <4>2
      <4> QED BY <4>1, <4>2
    <3> QED BY <1>7, <3>2, <3>3 DEF PlayIvr, tableVars, ends
  <2>2. CASE ~Waiting(s)
    BY <1>7, <2>2 DEF PlayIvr, tableVars, ends
  <2> QED BY <2>1, <2>2
<1>8. CASE GatherFails(r)
  BY <1>8 DEF GatherFails
<1> QED
  BY <1>1, <1>2, <1>3, <1>4, <1>5, <1>6, <1>7, <1>8 DEF Handler

-----------------------------------------------------------------------------
(***************************************************************************)
(* The session table.                                                      *)
(***************************************************************************)
LEMMA TableKept ==
    ASSUME TypeInv, TableInv, SameStates, UNCHANGED <<sessions, closing>>
    PROVE  TableInv'
BY DEF TableInv, ListedSessionsAreOpen, SameStates, TypeInv, TableOK

LEMMA TableUnlisted ==
    ASSUME TypeInv, TableInv, SameStates, NEW i \in Ids, Unlist(i)
    PROVE  TableInv'
BY DEF TableInv, ListedSessionsAreOpen, SameStates, TypeInv, TableOK, Unlist

LEMMA TableCreated ==
    ASSUME TypeInv, TableInv, NEW s \in Sessions, NEW i \in Ids, NewSession(s, i),
           UNCHANGED closing
    PROVE  TableInv'
<1>1. /\ session[s].state = "unused"
      /\ session'[s].state = "open"
      /\ \A t \in Sessions \ {s} : session'[t].state = session[t].state
  BY DEF TypeInv, NewSession, NoSession, SessionRecord
<1>2. s \notin closing /\ \A j \in Ids : sessions[j] # s
  BY <1>1, ConstantsAssumption DEF TableInv, ListedSessionsAreOpen
<1>3. /\ sessions'[i] = s /\ i \in Ids
      /\ \A j \in Ids \ {i} : sessions'[j] = sessions[j]
  BY DEF NewSession, TypeInv, TableOK
<1> QED BY <1>1, <1>2, <1>3 DEF TableInv, ListedSessionsAreOpen, TypeInv, TableOK

LEMMA StepTableInv == TypeInv /\ TableInv /\ [Next]_vars => TableInv'
<1> SUFFICES ASSUME TypeInv, TableInv, [Next]_vars PROVE TableInv'
  OBVIOUS
<1>o. ASSUME NEW s \in Sessions PROVE session[s] \in SessionRecord
  BY ObjectOK DEF TypeInv
<1>s. UNCHANGED session => SameStates
  BY DEF SameStates
<1>1. ASSUME NEW r \in Requests, NEW i \in Ids, PrepareInbound(r, i) PROVE TableInv'
  BY <1>1, TableCreated DEF PrepareInbound, ends
<1>2. ASSUME NEW r \in Requests, NEW i \in Ids, NEW e \in Endpoints,
             NEW a \in Agents \cup {None}, LookUp(r, e, i, a)
      PROVE TableInv'
  BY <1>2, <1>s, TableKept DEF LookUp, tableVars, ends
<1>3. ASSUME NEW i \in Ids, CreateProvisional(i) PROVE TableInv'
  BY <1>3, TableCreated DEF CreateProvisional, ends
<1>4. ASSUME NEW i \in Ids, CloseSession(i) PROVE TableInv'
  BY <1>4, <1>s, TableUnlisted DEF CloseSession
<1>5. ASSUME NEW i \in Ids, NEW j \in Ids, Bind(i, j) PROVE TableInv'
  BY <1>5, ConstantsAssumption
     DEF Bind, TableInv, ListedSessionsAreOpen, TypeInv, TableOK, ends
<1>6. ASSUME NEW r \in Requests, Handler(r) PROVE TableInv'
  <2>1. CASE UNCHANGED <<sessions, closing>>
    BY <1>6, <2>1, HandlerKeeps, TableKept
  <2>2. CASE At(r, "answerMeta") /\ Unlist(proc[r].id)
    <3>1. proc[r].id \in Ids
      BY <2>2, HandlerNames DEF TypeInv, At
    <3> QED BY <1>6, <2>2, <3>1, HandlerKeeps, TableUnlisted
  <2> QED BY <1>6, <2>1, <2>2, HandlerKeeps
<1>7. ASSUME NEW s \in Sessions, ExpireProvisional(s) PROVE TableInv'
  <2>1. timer[s] \in Ids
    BY <1>7 DEF ExpireProvisional, TypeInv, TableOK
  <2>2. CASE sessions[timer[s]] = s
    BY <1>7, <1>s, <2>1, <2>2, TableUnlisted DEF ExpireProvisional
  <2>3. CASE sessions[timer[s]] # s
    BY <1>7, <1>s, <2>3, TableKept DEF ExpireProvisional
  <2> QED BY <2>2, <2>3
<1>8. ASSUME NEW s \in Sessions, Close(s) PROVE TableInv'
  <2>1. /\ session'[s].state = "closed"
        /\ \A t \in Sessions \ {s} : session'[t].state = session[t].state
        /\ closing' = closing \ {s} /\ s \in closing /\ sessions' = sessions
    BY <1>8, <1>o DEF Close, SessionRecord, TypeInv, tableVars
  <2> QED BY <2>1 DEF TableInv, ListedSessionsAreOpen, TypeInv, TableOK
<1>9. ASSUME NEW s \in Sessions, PlayerTick(s) PROVE TableInv'
  <2>1. SameStates
    BY ZenonT(60), <1>9, <1>o DEF PlayerTick, Write, SameStates, SessionRecord, TypeInv
  <2> QED BY <1>9, <2>1, TableKept DEF PlayerTick, tableVars, ends
<1>10. ASSUME NEW p \in Peers, RelayAgent(p) PROVE TableInv'
  <2>1. SameStates
    BY <1>10, <1>o DEF RelayAgent, Write, SameStates, SessionRecord, TypeInv
  <2> QED BY <1>10, <2>1, TableKept DEF RelayAgent, tableVars, ends
<1>11. ASSUME NEW p \in Peers,
              ClosePeer(p) \/ Connects(p) \/ Silent(p) \/ ReadPacket(p)
       PROVE TableInv'
  BY <1>11, <1>s, TableKept DEF ClosePeer, Connects, Silent, ReadPacket, tableVars, ends
<1>12. CASE UNCHANGED vars
  BY <1>12, <1>s, TableKept DEF vars
<1> QED
  BY <1>1, <1>2, <1>3, <1>4, <1>5, <1>6, <1>7, <1>8, <1>9, <1>10, <1>11, <1>12 DEF Next

(* A session that requests can find is open and has one name: nothing      *)
(* closes a session under a call that still finds it (closeSession, bind,  *)
(* expireProvisional, prepareInbound).                                     *)
THEOREM FoundSessionsAreOpen == Spec => []ListedSessionsAreOpen
<1>1. Init => TableInv
  BY DEF Init, TableInv, ListedSessionsAreOpen
<1>2. TableInv => ListedSessionsAreOpen
  BY DEF TableInv
<1> QED BY <1>1, <1>2, TypeCorrect, StepTableInv, PTL DEF Spec

-----------------------------------------------------------------------------
(***************************************************************************)
(* Sound.                                                                  *)
(***************************************************************************)
LEMMA StepPlayerInv == TypeInv /\ PlayerInv /\ [Next]_vars => PlayerInv'
<1> SUFFICES ASSUME TypeInv, PlayerInv, [Next]_vars PROVE PlayerInv'
  OBVIOUS
<1>o. ASSUME NEW s \in Sessions PROVE session[s] \in SessionRecord
  BY ObjectOK DEF TypeInv
<1>k. UNCHANGED player /\ KeepStarted => PlayerInv'
  BY DEF PlayerInv, OnePlayer, KeepStarted
<1>s. UNCHANGED session => KeepStarted
  BY DEF KeepStarted
<1>1. ASSUME NEW s \in Sessions, NEW i \in Ids, NewSession(s, i), UNCHANGED player
      PROVE PlayerInv'
  BY <1>1, <1>o, <1>k DEF NewSession, KeepStarted, SessionRecord, TypeInv
<1>2. ASSUME NEW r \in Requests, PlayIvr(r) PROVE PlayerInv'
  <2> DEFINE s == proc[r].session
  <2>1. s \in Sessions
    BY <1>2, HandlerNames DEF PlayIvr, At, TypeInv
  <2>2. CASE Waiting(s)
    <3>1. /\ session'[s].ivrStarted
          /\ \A t \in Sessions \ {s} : session'[t] = session[t]
          /\ player'[s] = IF session[s].ivrStarted THEN player[s] ELSE player[s] + 1
          /\ \A t \in Sessions \ {s} : player'[t] = player[t]
      BY <1>2, <1>o, <2>1, <2>2 DEF PlayIvr, SessionRecord, TypeInv
    <3>2. player[s] \in Nat /\ (player[s] > 0 => session[s].ivrStarted) /\ player[s] <= 1
      BY <2>1 DEF PlayerInv, OnePlayer, TypeInv
    <3> QED BY <3>1, <3>2, <2>1 DEF PlayerInv, OnePlayer
  <2>3. CASE ~Waiting(s)
    BY Zenon, <1>2, <1>k, <1>s, <2>3 DEF PlayIvr
  <2> QED BY <2>2, <2>3
<1>3. ASSUME NEW r \in Requests, Handler(r) PROVE PlayerInv'
  <2>1. CASE UNCHANGED player
    BY <1>3, <1>k, <2>1, HandlerKeeps
  <2> QED BY <1>2, <1>3, <2>1
          DEF Handler, CreateMetaOffer, RepairMeta, ReadRemote, JoinAgent, DropExisting,
              InstallMeta, InstallAgent, GatherFails, SetCurrent, RemoveAgent
<1>4. ASSUME NEW s \in Sessions, PlayerTick(s) PROVE PlayerInv'
  <2>1. KeepStarted
    BY ZenonT(40), <1>4, <1>o DEF PlayerTick, Write, KeepStarted, SessionRecord, TypeInv
  <2>2. CASE Waiting(s)
    BY <1>4, <1>k, <2>1, <2>2 DEF PlayerTick
  <2>3. CASE ~Waiting(s)
    <3>1. /\ player'[s] = player[s] - 1 /\ player[s] \in Nat
          /\ \A t \in Sessions \ {s} : player'[t] = player[t]
      BY <1>4, <2>3 DEF PlayerTick, TypeInv
    <3> QED BY <2>1, <3>1 DEF PlayerInv, OnePlayer, KeepStarted
  <2> QED BY <2>2, <2>3
<1>5. ASSUME NEW s \in Sessions, Close(s) \/ ExpireProvisional(s) PROVE PlayerInv'
  <2>1. KeepStarted
    <3>1. ASSUME NEW t \in Sessions PROVE session'[t].ivrStarted = session[t].ivrStarted
      BY <1>5, <1>o DEF Close, ExpireProvisional, SessionRecord, TypeInv
    <3> QED BY <3>1 DEF KeepStarted
  <2> QED BY <1>5, <1>k, <2>1 DEF Close, ExpireProvisional
<1>6. ASSUME NEW p \in Peers, RelayAgent(p) PROVE PlayerInv'
  <2>1. KeepStarted
    <3>1. ASSUME NEW t \in Sessions PROVE session'[t].ivrStarted = session[t].ivrStarted
      <4>1. CASE Heard(p)
        BY SMTT(40), <1>6, <1>o, <4>1 DEF RelayAgent, Write, SessionRecord, TypeInv
      <4>2. CASE ~Heard(p)
        BY <1>6, <4>2 DEF RelayAgent
      <4> QED BY <4>1, <4>2
    <3> QED BY <3>1 DEF KeepStarted
  <2> QED BY <1>6, <1>k, <2>1 DEF RelayAgent
<1> QED
  BY <1>1, <1>3, <1>4, <1>5, <1>6, <1>k, <1>s
     DEF Next, PrepareInbound, LookUp, CreateProvisional, CloseSession, Bind, ClosePeer,
         Connects, Silent, ReadPacket, vars

(* One goroutine at most plays prompts to a customer (playIvr).            *)
THEOREM OnePlayerAtMost == Spec => []OnePlayer
<1>1. Init => PlayerInv
  BY DEF Init, PlayerInv, OnePlayer
<1>2. PlayerInv => OnePlayer
  BY Zenon DEF PlayerInv
<1> QED BY <1>1, <1>2, TypeCorrect, StepPlayerInv, PTL DEF Spec

LEMMA StepHeard ==
    TypeInv /\ [Next]_vars =>
        [\A s \in Sessions : session'[s].source # session[s].source =>
            IF session'[s].source = Ivr
            THEN Waiting(s)
            ELSE \E a \in Agents : /\ session[s].current = a
                                   /\ session[s].agents[a] = session'[s].source]_vars
<1> SUFFICES ASSUME TypeInv, Next, NEW s \in Sessions,
                    session'[s].source # session[s].source
             PROVE  IF session'[s].source = Ivr
                    THEN Waiting(s)
                    ELSE \E a \in Agents : /\ session[s].current = a
                                           /\ session[s].agents[a] = session'[s].source
  OBVIOUS
<1>o. session \in [Sessions -> SessionRecord] /\ session[s] \in SessionRecord
  BY ObjectOK DEF TypeInv
<1>1. CASE \E t \in Sessions : PlayerTick(t)
  <2>1. PICK t \in Sessions : PlayerTick(t)
    BY <1>1
  <2>2. Waiting(t) /\ session' = [session EXCEPT ![t].source = Ivr]
    BY <2>1 DEF PlayerTick, Write
  <2> QED BY <1>o, <2>2 DEF SessionRecord
<1>2. CASE \E p \in Peers : RelayAgent(p)
  <2>1. PICK p \in Peers : RelayAgent(p)
    BY <1>2
  <2>2. Heard(p) /\ session' = [session EXCEPT ![peer[p].session].source = p]
    BY <2>1 DEF RelayAgent, Write
  <2>3. peer[p].session = s /\ session'[s].source = p
    BY <1>o, <2>2 DEF SessionRecord
  <2>4. peer[p].agent \in Agents
    BY <2>1 DEF RelayAgent, TypeInv, PeersOK, PeerRecord
  <2>5. p # Ivr
    BY ConstantsAssumption
  <2> QED BY <2>2, <2>3, <2>4, <2>5 DEF Heard
<1>3. CASE \E r \in Requests : Handler(r)
  BY <1>3, HandlerKeeps DEF SameSources
<1>4. CASE \E t \in Sessions, i \in Ids : NewSession(t, i)
  BY <1>4, <1>o DEF NewSession, SessionRecord
<1>5. CASE \E t \in Sessions : Close(t)
  BY <1>5, <1>o DEF Close, SessionRecord
<1> QED
  BY <1>1, <1>2, <1>3, <1>4, <1>5
     DEF Next, PrepareInbound, LookUp, CreateProvisional, CloseSession, Bind,
         ExpireProvisional, ClosePeer, Connects, Silent, ReadPacket

(* The customer hears the current agent over its last connection, or       *)
(* prompts while nobody is current (README.md:110; relayAgent, playIvr).   *)
THEOREM CurrentAgentIsHeard == Spec => OnlyCurrentIsHeard
BY TypeCorrect, StepHeard, PTL DEF Spec, OnlyCurrentIsHeard

-----------------------------------------------------------------------------
(***************************************************************************)
(* Connections.  A step is described by what it takes out of sessions and  *)
(* dooms, and by what it puts in.                                          *)
(***************************************************************************)
SameLegs ==
    \A s \in Sessions : /\ session'[s].meta = session[s].meta
                        /\ session'[s].agents = session[s].agents

Holding == Gathering \cup {"drop"}

LEMMA LegOf ==
    ASSUME TypeInv, LegsInv, NEW s \in Sessions
    PROVE  /\ session[s].meta # None => InUse(session[s].meta, s, None)
           /\ session[s].meta \in Connections
BY ObjectOK DEF LegsInv, TypeInv

LEMMA AgentLeg ==
    ASSUME TypeInv, LegsInv, NEW s \in Sessions, NEW a \in Agents
    PROVE  /\ session[s].agents[a] # None => InUse(session[s].agents[a], s, a)
           /\ session[s].agents[a] \in Connections
BY ObjectOK DEF LegsInv, TypeInv

(* What a handler that gathers knows of its peer.                          *)
LEMMA GatheredPeer ==
    ASSUME HeldInv, NEW t \in Requests, proc[t].pc \in Gathering
    PROVE  /\ peer[proc[t].peer] = [state |-> "gathering", session |-> proc[t].session,
                                    agent |-> proc[t].agent]
           /\ peer[proc[t].peer].state = "gathering"
           /\ peer[proc[t].peer].session = proc[t].session
           /\ peer[proc[t].peer].agent = proc[t].agent
           /\ proc[t].peer \notin doomed
           /\ \A u \in Requests :
                 proc[u].pc \in Gathering /\ proc[u].peer = proc[t].peer => u = t
<1>1. /\ peer[proc[t].peer] = [state |-> "gathering", session |-> proc[t].session,
                               agent |-> proc[t].agent]
      /\ proc[t].peer \notin doomed
      /\ \A u \in Requests :
            proc[u].pc \in Gathering /\ proc[u].peer = proc[t].peer => u = t
  BY DEF HeldInv
<1> QED BY <1>1

(* A step that neither gathers nor moves peers: handlers may start, finish *)
(* or move to a place where they hold nothing.                             *)
LEMMA PeersFrame ==
    ASSUME PeersInv, SameLegs, UNCHANGED <<peer, doomed>>,
           \A r \in Requests : proc'[r] = proc[r] \/ proc'[r].pc \notin Holding
    PROVE  PeersInv'
<1>1. LegsInv'
  BY DEF PeersInv, LegsInv, InUse, SameLegs
<1>2. HeldInv'
  BY DEF PeersInv, HeldInv, Holding, Gathering
<1> QED BY <1>1, <1>2 DEF PeersInv

(* A step that takes peers out of the sessions, dooms them, and lets no    *)
(* handler hold more than before.                                          *)
LEMMA PeersDoomed ==
    ASSUME TypeInv, PeersInv, NEW ps \in SUBSET Connections, Doom(ps), UNCHANGED peer,
           \A s \in Sessions :
              /\ session'[s].meta \in {session[s].meta, None} /\ session'[s].meta \notin ps \ {None}
              /\ \A a \in Agents : /\ session'[s].agents[a] \in {session[s].agents[a], None}
                                  /\ session'[s].agents[a] \notin ps \ {None},
           \A r \in Requests : proc'[r] = proc[r] \/ proc'[r].pc \notin Holding,
           \A r \in Requests : proc'[r].pc \in Gathering => proc[r].peer \notin ps,
           \A p \in ps \ {None} : peer[p].state # "unused"
    PROVE  PeersInv'
<1>1. LegsInv'
  BY DEF PeersInv, LegsInv, InUse, Doom
<1>2. HeldInv'
  BY DEF PeersInv, HeldInv, Holding, Gathering, Doom
<1>3. \A p \in doomed' : peer'[p].state # "unused"
  BY DEF PeersInv, Doom
<1> QED BY <1>1, <1>2, <1>3 DEF PeersInv

(* A step in which handler r starts to gather, with or without removals.   *)
LEMMA PeersGather ==
    ASSUME TypeInv, PeersInv, NEW ps \in SUBSET Connections, Doom(ps),
           NEW r \in Requests, NEW pc \in Gathering, NEW p \in Peers,
           NEW q \in Handlers, Gather(r, pc, p, q),
           \A s \in Sessions :
              /\ session'[s].meta \in {session[s].meta, None} /\ session'[s].meta \notin ps \ {None}
              /\ \A a \in Agents : /\ session'[s].agents[a] \in {session[s].agents[a], None}
                                  /\ session'[s].agents[a] \notin ps \ {None},
           \A t \in Requests : proc[t].pc \in Gathering => proc[t].peer \notin ps,
           \A x \in ps \ {None} : peer[x].state # "unused",
           pc = "repairMeta" /\ q.previous # None =>
              /\ peer[q.previous].state \in {"open", "closed"}
              /\ peer[q.previous].session = q.session /\ peer[q.previous].agent = q.agent
    PROVE  PeersInv'
<1>1. /\ peer[p].state = "unused" /\ p \notin doomed /\ p \notin ps
      /\ peer'[p] = [state |-> "gathering", session |-> q.session, agent |-> q.agent]
      /\ \A x \in Peers \ {p} : peer'[x] = peer[x]
      /\ \A x : x # p => peer'[x] = peer[x]
  BY ConstantsAssumption DEF Gather, NoPeer, PeersInv, TypeInv, PeersOK
<1>2. /\ proc'[r].pc = pc /\ proc'[r].peer = p /\ proc'[r].session = q.session
      /\ proc'[r].agent = q.agent /\ proc'[r].previous = q.previous
      /\ \A t \in Requests \ {r} : proc'[t] = proc[t]
  BY DEF Gather, Handlers, TypeInv, HandlersOK
<1>3. LegsInv'
  BY <1>1 DEF PeersInv, LegsInv, InUse, Doom
<1>4. \A t \in Requests : proc[t].pc \in Gathering => proc[t].peer # p
  BY <1>1, GatheredPeer DEF PeersInv
<1>5. HeldInv'
  <2> SUFFICES ASSUME NEW t \in Requests
               PROVE  LET h == proc'[t] IN
                 /\ h.pc \in Gathering =>
                      /\ peer'[h.peer] = [state |-> "gathering", session |-> h.session,
                                          agent |-> h.agent]
                      /\ h.peer \notin doomed'
                      /\ \A u \in Requests :
                            proc'[u].pc \in Gathering /\ proc'[u].peer = h.peer => u = t
                 /\ h.pc \in {"drop", "repairMeta"} /\ h.previous # None =>
                      /\ peer'[h.previous].state \in {"open", "closed"}
                      /\ peer'[h.previous].session = h.session
                      /\ peer'[h.previous].agent = h.agent
    BY DEF HeldInv
  <2>1. CASE t = r
    <3>1. p \notin doomed'
      BY <1>1 DEF Doom
    <3>2. pc # "drop"
      BY DEF Gathering
    <3>3. q.previous # None /\ pc = "repairMeta" => q.previous # p
      BY <1>1
    <3> QED BY <1>1, <1>2, <1>4, <2>1, <3>1, <3>2, <3>3
  <2>2. CASE t # r
    <3>1. proc'[t] = proc[t]
      BY <1>2, <2>2
    <3>2. CASE proc[t].pc \in Gathering
      BY <1>1, <1>2, <1>4, <2>2, <3>1, <3>2 DEF PeersInv, HeldInv, Doom
    <3>3. CASE proc[t].pc \notin Gathering
      BY <1>1, <1>2, <2>2, <3>1, <3>3 DEF PeersInv, HeldInv
    <3> QED BY <3>2, <3>3
  <2> QED BY <2>1, <2>2
<1>6. \A x \in doomed' : peer'[x].state # "unused"
  BY <1>1 DEF PeersInv, Doom
<1> QED BY <1>3, <1>5, <1>6 DEF PeersInv

LEMMA PeersGatherOrFail ==
    ASSUME TypeInv, PeersInv, NEW ps \in SUBSET Connections, Doom(ps),
           NEW r \in Requests, NEW pc \in Gathering,
           NEW q \in Handlers, GatherOrFail(r, pc, q),
           \A s \in Sessions :
              /\ session'[s].meta \in {session[s].meta, None} /\ session'[s].meta \notin ps \ {None}
              /\ \A a \in Agents : /\ session'[s].agents[a] \in {session[s].agents[a], None}
                                  /\ session'[s].agents[a] \notin ps \ {None},
           \A t \in Requests : proc[t].pc \in Gathering => proc[t].peer \notin ps,
           \A x \in ps \ {None} : peer[x].state # "unused",
           pc = "repairMeta" /\ q.previous # None =>
              /\ peer[q.previous].state \in {"open", "closed"}
              /\ peer[q.previous].session = q.session /\ peer[q.previous].agent = q.agent
    PROVE  PeersInv'
<1>1. CASE \E p \in Peers : Gather(r, pc, p, q)
  BY <1>1, PeersGather
<1>2. CASE Finish(r) /\ UNCHANGED peer
  <2>1. \A t \in Requests : proc'[t] = proc[t] \/ proc'[t].pc \notin Holding
    BY <1>2 DEF Finish, Idle, Holding, Gathering, TypeInv, HandlersOK
  <2>2. \A t \in Requests : proc'[t].pc \in Gathering => proc[t].peer \notin ps
    BY <2>1 DEF Holding
  <2> QED BY <1>2, <2>1, <2>2, PeersDoomed
<1> QED BY <1>1, <1>2 DEF GatherOrFail

(* A handler that finishes holds nothing.                                  *)
LEMMA FinishHolds ==
    ASSUME TypeInv, NEW r \in Requests, Finish(r)
    PROVE  /\ \A t \in Requests : proc'[t] = proc[t] \/ proc'[t].pc \notin Holding
           /\ \A t \in Requests : proc'[t].pc \in Gathering => t # r /\ proc'[t] = proc[t]
BY DEF Finish, Idle, Holding, Gathering, TypeInv, HandlersOK

LEMMA InstallAgentPeers ==
    ASSUME TypeInv, PeersInv, NEW r \in Requests, InstallAgent(r)
    PROVE  PeersInv'
<1> DEFINE s == proc[r].session
           b == proc[r].agent
           p == proc[r].peer
<1>1. /\ s \in Sessions /\ b \in Agents /\ p \in Peers /\ p # None
      /\ proc[r].pc \in Gathering
  BY HandlerNames, ConstantsAssumption
     DEF InstallAgent, At, Gathering, ForAgent, TypeInv
<1>2. /\ peer[p].state = "gathering" /\ peer[p].session = s /\ peer[p].agent = b
      /\ p \notin doomed
      /\ \A t \in Requests \ {r} : proc[t].pc \in Gathering => proc[t].peer # p
  BY <1>1, GatheredPeer DEF PeersInv
<1>3. /\ peer'[p].state = "open" /\ peer'[p].session = s /\ peer'[p].agent = b
      /\ \A x : x # p => peer'[x] = peer[x]
      /\ doomed' = doomed
  BY <1>1, <1>2 DEF InstallAgent, Answered, TypeInv, PeersOK, PeerRecord, ends
<1>4. /\ session'[s].meta = session[s].meta
      /\ session'[s].agents = [session[s].agents EXCEPT ![b] = p]
      /\ \A t \in Sessions \ {s} : session'[t] = session[t]
  BY <1>1, ObjectOK DEF InstallAgent, TypeInv, SessionRecord
<1>5. LegsInv'
  <2>1. ASSUME NEW t \in Sessions, session'[t].meta # None
        PROVE  /\ peer'[session'[t].meta].state = "open"
               /\ peer'[session'[t].meta].session = t
               /\ peer'[session'[t].meta].agent = None
               /\ session'[t].meta \notin doomed'
    <3>1. session'[t].meta = session[t].meta
      BY <1>4
    <3> QED BY <1>2, <1>3, <2>1, <3>1 DEF PeersInv, LegsInv, InUse
  <2>2. ASSUME NEW t \in Sessions, NEW a \in Agents, session'[t].agents[a] # None
        PROVE  /\ peer'[session'[t].agents[a]].state = "open"
               /\ peer'[session'[t].agents[a]].session = t
               /\ peer'[session'[t].agents[a]].agent = a
               /\ session'[t].agents[a] \notin doomed'
    <3>1. CASE t = s /\ a = b
      <4>1. session'[t].agents[a] = p
        BY <1>1, <1>4, <3>1, ObjectOK DEF TypeInv
      <4> QED BY <1>2, <1>3, <3>1, <4>1
    <3>2. CASE ~(t = s /\ a = b)
      <4>1. session'[t].agents[a] = session[t].agents[a]
        BY <1>1, <1>4, <3>2, ObjectOK DEF TypeInv
      <4> QED BY <1>2, <1>3, <2>2, <4>1 DEF PeersInv, LegsInv, InUse
    <3> QED BY <3>1, <3>2
  <2> QED BY <2>1, <2>2 DEF LegsInv, InUse
<1>6. HeldInv'
  BY <1>2, <1>3, FinishHolds DEF InstallAgent, PeersInv, HeldInv, Holding, Gathering
<1>7. \A x \in doomed' : peer'[x].state # "unused"
  BY <1>2, <1>3 DEF PeersInv
<1> QED BY <1>5, <1>6, <1>7 DEF PeersInv

LEMMA InstallMetaPeers ==
    ASSUME TypeInv, PeersInv, NEW r \in Requests, InstallMeta(r)
    PROVE  PeersInv'
<1> DEFINE s == proc[r].session
           p == proc[r].peer
           ps == CASE At(r, "answerMeta") -> {}
                   [] At(r, "offerMeta") -> {session[s].meta}
                   [] At(r, "repairMeta") -> {proc[r].previous}
<1>1. /\ s \in Sessions /\ proc[r].agent = None /\ p \in Peers /\ p # None
      /\ proc[r].pc \in Gathering
  BY HandlerNames, ConstantsAssumption
     DEF InstallMeta, At, Gathering, ForAgent, TypeInv
<1>2. /\ peer[p].state = "gathering" /\ peer[p].session = s /\ peer[p].agent = None
      /\ p \notin doomed
      /\ \A t \in Requests \ {r} : proc[t].pc \in Gathering => proc[t].peer # p
  BY <1>1, GatheredPeer DEF PeersInv
<1>3. /\ peer'[p].state = "open" /\ peer'[p].session = s /\ peer'[p].agent = None
      /\ \A x : x # p => peer'[x] = peer[x]
  BY <1>1, <1>2 DEF InstallMeta, Answered, TypeInv, PeersOK, PeerRecord
<1>4. /\ session'[s].meta = p /\ session'[s].agents = session[s].agents
      /\ \A t \in Sessions \ {s} : session'[t] = session[t]
  BY ZenonT(60), <1>1, ObjectOK DEF InstallMeta, TypeInv, SessionRecord
<1>5. \A x \in ps \ {None} : /\ peer[x].state \in {"open", "closed"}
                             /\ peer[x].session = s /\ peer[x].agent = None
  <2>1. CASE At(r, "answerMeta")
    BY <2>1 DEF At
  <2>2. CASE At(r, "offerMeta")
    BY <1>1, <2>2 DEF At, PeersInv, LegsInv, InUse
  <2>3. CASE At(r, "repairMeta")
    BY ZenonT(40), <1>1, <2>3 DEF At, PeersInv, HeldInv
  <2> QED BY <2>1, <2>2, <2>3 DEF InstallMeta, At
<1>6. doomed' = doomed \cup (ps \ {None}) /\ Finish(r)
  BY DEF InstallMeta, Doom
<1>7. p \notin doomed'
  BY <1>2, <1>5, <1>6
<1> HIDE DEF ps
<1>8. LegsInv'
  <2>1. ASSUME NEW t \in Sessions, session'[t].meta # None
        PROVE  /\ peer'[session'[t].meta].state = "open"
               /\ peer'[session'[t].meta].session = t
               /\ peer'[session'[t].meta].agent = None
               /\ session'[t].meta \notin doomed'
    <3>1. CASE t = s
      BY <1>3, <1>4, <1>7, <3>1
    <3>2. CASE t # s
      <4>1. session'[t].meta = session[t].meta
        BY <1>4, <3>2
      <4>2. InUse(session[t].meta, t, None)
        BY <2>1, <4>1 DEF PeersInv, LegsInv
      <4> QED BY <1>2, <1>3, <1>5, <1>6, <2>1, <3>2, <4>1, <4>2 DEF InUse
    <3> QED BY <3>1, <3>2
  <2>2. ASSUME NEW t \in Sessions, NEW a \in Agents, session'[t].agents[a] # None
        PROVE  /\ peer'[session'[t].agents[a]].state = "open"
               /\ peer'[session'[t].agents[a]].session = t
               /\ peer'[session'[t].agents[a]].agent = a
               /\ session'[t].agents[a] \notin doomed'
    <3>1. session'[t].agents[a] = session[t].agents[a] /\ a # None
      BY <1>4, ConstantsAssumption
    <3>2. InUse(session[t].agents[a], t, a)
      BY <2>2, <3>1 DEF PeersInv, LegsInv
    <3> QED BY <1>2, <1>3, <1>5, <1>6, <2>2, <3>1, <3>2 DEF InUse
  <2> QED BY <2>1, <2>2 DEF LegsInv, InUse
<1>9. HeldInv'
  BY <1>2, <1>3, <1>5, <1>6, FinishHolds DEF PeersInv, HeldInv, Holding, Gathering
<1>10. \A x \in doomed' : peer'[x].state # "unused"
  BY <1>2, <1>3, <1>5, <1>6 DEF PeersInv
<1> QED BY <1>8, <1>9, <1>10 DEF PeersInv

(* Taking the old connection of an agent away.                             *)
LEMMA DropPeers ==
    ASSUME TypeInv, PeersInv, NEW r \in Requests, DropExisting(r)
    PROVE  PeersInv'
<1> DEFINE s == proc[r].session
           b == proc[r].agent
           x == proc[r].previous
<1>1. /\ s \in Sessions /\ b \in Agents /\ x \in Peers /\ x # None
      /\ proc[r] \in Handlers
  BY HandlerNames, ConstantsAssumption DEF DropExisting, At, ForAgent, TypeInv
<1>2. /\ peer[x].state \in {"open", "closed"} /\ peer[x].session = s /\ peer[x].agent = b
  BY <1>1 DEF DropExisting, At, PeersInv, HeldInv
<1>3. ASSUME NEW t \in Sessions
      PROVE  /\ session'[t].meta = session[t].meta /\ session'[t].meta # x
             /\ \A a \in Agents : /\ session'[t].agents[a] \in {session[t].agents[a], None}
                                 /\ session'[t].agents[a] # x
  <2>1. session'[t].meta = session[t].meta /\ session[t].meta # x
    BY <1>1, <1>2, LegOf, ConstantsAssumption, ObjectOK
       DEF DropExisting, PeersInv, InUse, TypeInv, SessionRecord
  <2>2. ASSUME NEW a \in Agents
        PROVE  /\ session'[t].agents[a] \in {session[t].agents[a], None}
               /\ session'[t].agents[a] # x
    <3>1. CASE t = s /\ a = b
      <4>1. CASE session[s].agents[b] = x
        <5>1. session'[t].agents[a] = None
          BY <1>1, <3>1, <4>1, ObjectOK DEF DropExisting, TypeInv, SessionRecord
        <5> QED BY <1>1, <5>1
      <4>2. CASE session[s].agents[b] # x
        BY <3>1, <4>2 DEF DropExisting
      <4> QED BY <4>1, <4>2
    <3>2. CASE ~(t = s /\ a = b)
      <4>1. session'[t].agents[a] = session[t].agents[a]
        BY <1>1, <3>2, ObjectOK DEF DropExisting, TypeInv, SessionRecord
      <4>2. session[t].agents[a] # None => InUse(session[t].agents[a], t, a)
        BY AgentLeg DEF PeersInv
      <4>3. session[t].agents[a] # x
        BY <1>1, <1>2, <3>2, <4>2 DEF InUse
      <4> QED BY <4>1, <4>3
    <3> QED BY <3>1, <3>2
  <2> QED BY <2>1, <2>2
<1>4. \A t \in Requests : proc[t].pc \in Gathering => proc[t].peer # x
  BY <1>2, GatheredPeer DEF PeersInv
<1> DEFINE ps == {x}
<1>5. ps \in SUBSET Connections
  BY <1>1 DEF Connections
<1>6. Doom(ps) /\ GatherOrFail(r, "joinAgent", proc[r]) /\ "joinAgent" \in Gathering
  BY DEF DropExisting, Gathering
<1>7. \A y \in ps \ {None} : peer[y].state # "unused"
  BY <1>2
<1>8. \A t \in Sessions :
         /\ session'[t].meta \in {session[t].meta, None} /\ session'[t].meta \notin ps \ {None}
         /\ \A a \in Agents : /\ session'[t].agents[a] \in {session[t].agents[a], None}
                             /\ session'[t].agents[a] \notin ps \ {None}
  BY <1>3
<1>9. \A t \in Requests : proc[t].pc \in Gathering => proc[t].peer \notin ps
  BY <1>4
<1> HIDE DEF ps
<1> QED BY <1>1, <1>5, <1>6, <1>7, <1>8, <1>9, PeersGatherOrFail

(* Agents leave, and sessions close, with all their connections.           *)
LEMMA RemovePeers ==
    ASSUME TypeInv, PeersInv, NEW r \in Requests, RemoveAgent(r)
    PROVE  PeersInv'
<1> DEFINE s == proc[r].session
           b == proc[r].agent
           x == session[s].agents[b]
           ps == {x}
<1>1. s \in Sessions /\ b \in Agents /\ x \in Connections
  BY HandlerNames, ObjectOK DEF RemoveAgent, At, ForAgent, TypeInv
<1>2. x # None => InUse(x, s, b)
  BY Zenon, <1>1, AgentLeg DEF PeersInv
<1>3. ASSUME NEW t \in Sessions
      PROVE  /\ session'[t].meta = session[t].meta /\ session'[t].meta \notin ps \ {None}
             /\ \A a \in Agents : /\ session'[t].agents[a] \in {session[t].agents[a], None}
                                 /\ session'[t].agents[a] \notin ps \ {None}
  <2>1. session'[t].meta = session[t].meta
    BY Zenon, <1>1, ObjectOK DEF RemoveAgent, TypeInv, SessionRecord
  <2>2. session[t].meta \notin ps \ {None}
    BY ZenonT(60), <1>1, <1>2, LegOf, ConstantsAssumption DEF PeersInv, InUse
  <2>3. ASSUME NEW a \in Agents
        PROVE  /\ session'[t].agents[a] \in {session[t].agents[a], None}
               /\ session'[t].agents[a] \notin ps \ {None}
    <3>1. CASE t = s /\ a = b
      <4>1. session'[t].agents[a] = None
        BY <1>1, <3>1, ObjectOK DEF RemoveAgent, TypeInv, SessionRecord
      <4> QED BY Zenon, <4>1
    <3>2. CASE ~(t = s /\ a = b)
      <4>1. session'[t].agents[a] = session[t].agents[a]
        BY Zenon, <1>1, <3>2, ObjectOK DEF RemoveAgent, TypeInv, SessionRecord
      <4>2. session[t].agents[a] \notin ps \ {None}
        <5>1. session[t].agents[a] # None => InUse(session[t].agents[a], t, a)
          BY AgentLeg DEF PeersInv
        <5> QED BY <1>1, <1>2, <3>2, <5>1, ConstantsAssumption DEF InUse
      <4> QED BY Zenon, <4>1, <4>2
    <3> QED BY <3>1, <3>2
  <2> QED BY <2>1, <2>2, <2>3
<1>4. \A t \in Requests : proc[t].pc \in Gathering => proc[t].peer # x
  <2> SUFFICES ASSUME NEW t \in Requests, proc[t].pc \in Gathering PROVE proc[t].peer # x
    OBVIOUS
  <2>1. proc[t].peer \in Peers /\ peer[proc[t].peer].state = "gathering"
    BY HandlerNames, GatheredPeer DEF TypeInv, PeersInv
  <2> QED BY <1>2, <2>1, ConstantsAssumption DEF InUse
<1>5. /\ ps \in SUBSET Connections /\ Doom(ps) /\ Finish(r) /\ UNCHANGED peer
      /\ \A y \in ps \ {None} : peer[y].state # "unused"
  BY <1>1, <1>2 DEF RemoveAgent, InUse
<1>6. \A t \in Requests : proc'[t].pc \in Gathering => proc[t].peer \notin ps
  BY <1>4, <1>5, FinishHolds
<1> HIDE DEF ps
<1> QED BY Zenon, <1>3, <1>5, <1>6, FinishHolds, PeersDoomed

LEMMA ClosePeers ==
    ASSUME TypeInv, PeersInv, NEW s \in Sessions, Close(s)
    PROVE  PeersInv'
<1> DEFINE ps == {session[s].agents[a] : a \in Agents} \cup {session[s].meta}
<1>1. ps \in SUBSET Connections
  BY ObjectOK DEF TypeInv
<1>2. ASSUME NEW x \in ps \ {None}
      PROVE  peer[x].state = "open" /\ peer[x].session = s
  <2>1. CASE x = session[s].meta
    <3>1. InUse(session[s].meta, s, None)
      BY <2>1, LegOf DEF PeersInv
    <3> QED BY <2>1, <3>1 DEF InUse
  <2>2. ASSUME NEW a \in Agents, x = session[s].agents[a]
        PROVE  peer[x].state = "open" /\ peer[x].session = s
    <3>1. InUse(session[s].agents[a], s, a)
      BY <2>2, AgentLeg DEF PeersInv
    <3> QED BY <2>2, <3>1 DEF InUse
  <2> QED BY <2>1, <2>2
<1>3. /\ session'[s].meta = None
      /\ \A a \in Agents : session'[s].agents[a] = None
      /\ \A t \in Sessions \ {s} : session'[t] = session[t]
  BY DEF Close, NoSession, TypeInv, SessionRecord
<1>4. ASSUME NEW t \in Sessions
      PROVE  /\ session'[t].meta \in {session[t].meta, None}
             /\ session'[t].meta \notin ps \ {None}
             /\ \A a \in Agents : /\ session'[t].agents[a] \in {session[t].agents[a], None}
                                 /\ session'[t].agents[a] \notin ps \ {None}
  <2>1. CASE t = s
    BY <1>3, <2>1
  <2>2. CASE t # s
    <3>1. /\ session[t].meta # None => peer[session[t].meta].session = t
          /\ \A a \in Agents : session[t].agents[a] # None
                               => peer[session[t].agents[a]].session = t
      <4>1. session[t].meta # None => InUse(session[t].meta, t, None)
        BY LegOf DEF PeersInv
      <4>2. \A a \in Agents : session[t].agents[a] # None
                               => InUse(session[t].agents[a], t, a)
        BY AgentLeg DEF PeersInv
      <4> QED BY <4>1, <4>2 DEF InUse
    <3> QED BY <1>2, <1>3, <2>2, <3>1
  <2> QED BY <2>1, <2>2
<1>5. /\ Doom(ps) /\ UNCHANGED <<peer, proc>>
      /\ \A x \in ps \ {None} : peer[x].state # "unused"
  BY <1>2 DEF Close
<1>6. ASSUME NEW t \in Requests, proc'[t].pc \in Gathering
      PROVE  proc[t].peer \notin ps
  <2>1. proc[t].peer \in Peers /\ peer[proc[t].peer].state = "gathering"
    BY <1>5, <1>6, HandlerNames, GatheredPeer DEF TypeInv, PeersInv
  <2> QED BY <1>2, <2>1, ConstantsAssumption
<1> HIDE DEF ps
<1> QED BY <1>1, <1>4, <1>5, <1>6, PeersDoomed

LEMMA ReadPeers ==
    ASSUME TypeInv, PeersInv, NEW r \in Requests, ReadRemote(r)
    PROVE  PeersInv'
<1> DEFINE s == proc[r].session
           q == [proc[r] EXCEPT !.previous = session[s].meta]
<1>1. s \in Sessions /\ proc[r].agent = None /\ proc[r] \in Handlers
  BY HandlerNames DEF ReadRemote, At, ForAgent, TypeInv
<1>2. session[s].meta \in Connections
  BY <1>1, ObjectOK DEF TypeInv
<1>3. /\ q \in Handlers /\ q.session = s /\ q.agent = None
      /\ q.previous = session[s].meta
  BY <1>1, <1>2 DEF Handlers
<1>4. q.previous # None =>
         /\ peer[q.previous].state \in {"open", "closed"}
         /\ peer[q.previous].session = q.session /\ peer[q.previous].agent = q.agent
  <2>1. session[s].meta # None => InUse(session[s].meta, s, None)
    BY <1>1, LegOf DEF PeersInv
  <2> QED BY <1>3, <2>1 DEF InUse
<1>5. SameLegs /\ UNCHANGED doomed
  BY DEF ReadRemote, SameLegs, ends
<1>6. CASE session[s].offer
  <2> DEFINE ps == {}
  <2>1. Doom(ps) /\ ps \in SUBSET Connections
    BY <1>5 DEF Doom
  <2>2. GatherOrFail(r, "repairMeta", q) /\ "repairMeta" \in Gathering
    BY <1>6 DEF ReadRemote, Gathering
  <2> HIDE DEF q
  <2> QED BY <1>3, <1>4, <1>5, <2>1, <2>2, PeersGatherOrFail DEF SameLegs
<1>7. CASE ~session[s].offer
  <2>1. Finish(r) /\ UNCHANGED peer
    BY <1>7 DEF ReadRemote
  <2> QED BY <1>5, <2>1, FinishHolds, PeersFrame
<1> QED BY <1>6, <1>7

LEMMA JoinPeers ==
    ASSUME TypeInv, PeersInv, NEW r \in Requests, JoinAgent(r)
    PROVE  PeersInv'
<1> DEFINE s == proc[r].session
           b == proc[r].agent
           x == session[s].agents[b]
<1>1. s \in Sessions /\ b \in Agents /\ proc[r] \in Handlers
  BY HandlerNames DEF JoinAgent, At, ForAgent, TypeInv
<1>2. SameLegs /\ UNCHANGED doomed
  BY DEF JoinAgent, SameLegs, ends
<1>3. CASE x = None
  <2> DEFINE ps == {}
  <2>1. Doom(ps) /\ ps \in SUBSET Connections
    BY <1>2 DEF Doom
  <2>2. GatherOrFail(r, "joinAgent", proc[r]) /\ "joinAgent" \in Gathering
    BY <1>3 DEF JoinAgent, Gathering
  <2> QED BY <1>1, <1>2, <2>1, <2>2, PeersGatherOrFail DEF SameLegs
<1>4. CASE x # None
  <2>1. InUse(x, s, b)
    BY <1>1, <1>4, AgentLeg DEF PeersInv
  <2>2. /\ proc'[r].pc = "drop" /\ proc'[r].previous = x
        /\ proc'[r].session = s /\ proc'[r].agent = b
        /\ \A t \in Requests \ {r} : proc'[t] = proc[t]
    BY <1>1, <1>4 DEF JoinAgent, TypeInv, HandlersOK, Handlers
  <2>3. UNCHANGED <<peer, doomed>> /\ "drop" \notin Gathering
    BY <1>2, <1>4 DEF JoinAgent, Gathering
  <2>4. LegsInv'
    BY <1>2, <2>3 DEF PeersInv, LegsInv, InUse, SameLegs
  <2>5. HeldInv'
    <3> SUFFICES ASSUME NEW t \in Requests
                 PROVE  LET h == proc'[t] IN
                   /\ h.pc \in Gathering =>
                        /\ peer'[h.peer] = [state |-> "gathering", session |-> h.session,
                                            agent |-> h.agent]
                        /\ h.peer \notin doomed'
                        /\ \A u \in Requests :
                              proc'[u].pc \in Gathering /\ proc'[u].peer = h.peer => u = t
                   /\ h.pc \in {"drop", "repairMeta"} /\ h.previous # None =>
                        /\ peer'[h.previous].state \in {"open", "closed"}
                        /\ peer'[h.previous].session = h.session
                        /\ peer'[h.previous].agent = h.agent
      BY DEF HeldInv
    <3>1. CASE t = r
      BY <2>1, <2>2, <2>3, <3>1 DEF InUse
    <3>2. CASE t # r
      <4>1. proc'[t] = proc[t]
        BY <2>2, <3>2
      <4>2. CASE proc[t].pc \in Gathering
        BY <2>2, <2>3, <4>1, <4>2 DEF PeersInv, HeldInv
      <4>3. CASE proc[t].pc \notin Gathering
        BY <2>3, <4>1, <4>3 DEF PeersInv, HeldInv
      <4> QED BY <4>2, <4>3
    <3> QED BY <3>1, <3>2
  <2> QED BY <2>3, <2>4, <2>5 DEF PeersInv
<1> QED BY <1>3, <1>4

LEMMA FailPeers ==
    ASSUME TypeInv, PeersInv, NEW r \in Requests, GatherFails(r)
    PROVE  PeersInv'
<1> DEFINE ps == {proc[r].peer}
<1>1. proc[r].peer \in Peers /\ proc[r].pc \in Gathering
  BY HandlerNames DEF GatherFails, Gathering, TypeInv
<1>2. /\ peer[proc[r].peer].state = "gathering"
      /\ \A t \in Requests \ {r} : proc[t].pc \in Gathering => proc[t].peer # proc[r].peer
  BY <1>1, GatheredPeer DEF PeersInv
<1>3. /\ ps \in SUBSET Connections /\ Doom(ps) /\ Finish(r) /\ UNCHANGED <<peer, session>>
      /\ \A y \in ps \ {None} : peer[y].state # "unused"
  BY <1>1, <1>2 DEF GatherFails, Connections
<1>4. ASSUME NEW t \in Sessions
      PROVE  /\ session[t].meta \notin ps \ {None}
             /\ \A a \in Agents : session[t].agents[a] \notin ps \ {None}
  <2>1. session[t].meta # None => InUse(session[t].meta, t, None)
    BY LegOf DEF PeersInv
  <2>2. \A a \in Agents : session[t].agents[a] # None
                           => InUse(session[t].agents[a], t, a)
    BY AgentLeg DEF PeersInv
  <2> QED BY <1>2, <2>1, <2>2 DEF InUse
<1>5. \A t \in Requests : proc'[t].pc \in Gathering => proc[t].peer \notin ps
  BY <1>2, <1>3, FinishHolds
<1> HIDE DEF ps
<1> QED BY <1>3, <1>4, <1>5, FinishHolds, PeersDoomed

(* Every step of a handler.                                                *)
LEMMA HandlerPeers ==
    ASSUME TypeInv, PeersInv, NEW r \in Requests, Handler(r)
    PROVE  PeersInv'
<1>1. CASE CreateMetaOffer(r)
  <2> DEFINE ps == {}
  <2>1. /\ proc[r] \in Handlers /\ "offerMeta" \in Gathering /\ ps \in SUBSET Connections
        /\ Doom(ps) /\ UNCHANGED session /\ GatherOrFail(r, "offerMeta", proc[r])
    BY <1>1, HandlerNames DEF CreateMetaOffer, Gathering, TypeInv, Doom, ends
  <2> QED BY <2>1, PeersGatherOrFail
<1>2. CASE RepairMeta(r)
  <2>1. \A t \in Requests : proc'[t] = proc[t] \/ proc'[t].pc \notin Holding
    <3>1. ASSUME NEW t \in Requests
          PROVE  proc'[t] = proc[t] \/ proc'[t].pc \in {"idle", "remote"}
      BY <1>2 DEF RepairMeta, Finish, Idle, TypeInv, HandlersOK, Handlers
    <3> QED BY <3>1 DEF Holding, Gathering
  <2> QED BY <1>2, <2>1, PeersFrame DEF RepairMeta, SameLegs, ends
<1>3. CASE SetCurrent(r)
  <2>1. SameLegs
    BY <1>3, ObjectOK DEF SetCurrent, SameLegs, TypeInv, SessionRecord
  <2> QED BY <1>3, <2>1, FinishHolds, PeersFrame DEF SetCurrent, ends
<1>4. CASE PlayIvr(r)
  <2>1. SameLegs
    BY <1>4, ObjectOK DEF PlayIvr, SameLegs, TypeInv, SessionRecord
  <2> QED BY <1>4, <2>1, FinishHolds, PeersFrame DEF PlayIvr, ends
<1> QED
  BY <1>1, <1>2, <1>3, <1>4, ReadPeers, JoinPeers, DropPeers, InstallMetaPeers,
     InstallAgentPeers, FailPeers, RemovePeers DEF Handler

LEMMA StepPeersInv == TypeInv /\ PeersInv /\ [Next]_vars => PeersInv'
<1> SUFFICES ASSUME TypeInv, PeersInv, [Next]_vars PROVE PeersInv'
  OBVIOUS
<1>f. ASSUME SameLegs, UNCHANGED <<peer, doomed, proc>> PROVE PeersInv'
  BY <1>f, PeersFrame
<1>n. ASSUME NEW s \in Sessions, NEW i \in Ids, NewSession(s, i) PROVE SameLegs
  BY <1>n, ObjectOK DEF NewSession, SameLegs, TypeInv, SessionRecord
<1>s. UNCHANGED session => SameLegs
  BY DEF SameLegs
<1>1. ASSUME NEW r \in Requests, NEW i \in Ids, PrepareInbound(r, i) PROVE PeersInv'
  <2>1. PICK s \in Sessions, p \in Peers :
           /\ NewSession(s, i)
           /\ Gather(r, "answerMeta", p, [Idle EXCEPT !.id = i, !.session = s])
    BY <1>1 DEF PrepareInbound
  <2> DEFINE ps == {}
             q == [Idle EXCEPT !.id = i, !.session = s]
  <2>2. /\ q \in Handlers /\ "answerMeta" \in Gathering /\ ps \in SUBSET Connections
        /\ Doom(ps) /\ SameLegs
    BY <1>1, <1>n, <2>1 DEF PrepareInbound, Idle, Handlers, Connections, Gathering, Doom, ends
  <2> HIDE DEF q
  <2>3. Gather(r, "answerMeta", p, q)
    BY <2>1 DEF q
  <2> QED BY <2>2, <2>3, PeersGather DEF SameLegs
<1>2. ASSUME NEW r \in Requests, NEW i \in Ids, NEW e \in Endpoints,
             NEW a \in Agents \cup {None}, LookUp(r, e, i, a)
      PROVE PeersInv'
  <2>1. \A t \in Requests : proc'[t] = proc[t] \/ proc'[t].pc = e
    BY <1>2 DEF LookUp, TypeInv, HandlersOK, Idle
  <2>2. e \notin Holding
    BY ConstantsAssumption DEF AllEndpoints, Holding, Gathering
  <2> QED BY <1>2, <1>s, <2>1, <2>2, PeersFrame DEF LookUp, ends
<1>3. ASSUME NEW i \in Ids, CreateProvisional(i) PROVE PeersInv'
  BY <1>3, <1>f, <1>n DEF CreateProvisional, ends
<1>4. ASSUME NEW i \in Ids, CloseSession(i) PROVE PeersInv'
  BY <1>4, <1>f, <1>s DEF CloseSession
<1>5. ASSUME NEW i \in Ids, NEW j \in Ids, Bind(i, j) PROVE PeersInv'
  BY <1>5, <1>f, <1>s DEF Bind, ends
<1>6. ASSUME NEW s \in Sessions, ExpireProvisional(s) PROVE PeersInv'
  BY <1>6, <1>f, <1>s DEF ExpireProvisional
<1>7. ASSUME NEW s \in Sessions, PlayerTick(s) PROVE PeersInv'
  <2>1. CASE Waiting(s)
    <3>1. SameLegs
      BY <1>7, <2>1, ObjectOK DEF PlayerTick, Write, SameLegs, TypeInv, SessionRecord
    <3> QED BY <1>7, <1>f, <3>1 DEF PlayerTick, ends
  <2>2. CASE ~Waiting(s)
    BY <1>7, <1>f, <1>s, <2>2 DEF PlayerTick, ends
  <2> QED BY <2>1, <2>2
<1>8. ASSUME NEW p \in Peers, RelayAgent(p) PROVE PeersInv'
  <2>1. CASE Heard(p)
    <3>1. SameLegs
      BY <1>8, <2>1, ObjectOK DEF RelayAgent, Write, SameLegs, TypeInv, SessionRecord
    <3> QED BY <1>8, <1>f, <3>1 DEF RelayAgent, ends
  <2>2. CASE ~Heard(p)
    BY <1>8, <1>f, <1>s, <2>2 DEF RelayAgent, ends
  <2> QED BY <2>1, <2>2
<1>9. ASSUME NEW p \in Peers, Connects(p) \/ Silent(p) \/ ReadPacket(p) PROVE PeersInv'
  BY <1>9, <1>f, <1>s DEF Connects, Silent, ReadPacket, ends
<1>10. ASSUME NEW p \in Peers, ClosePeer(p) PROVE PeersInv'
  <2>1. /\ p \in doomed /\ doomed' = doomed \ {p} /\ UNCHANGED <<session, proc>>
        /\ peer'[p].state = "closed" /\ peer'[p].session = peer[p].session
        /\ peer'[p].agent = peer[p].agent
        /\ \A x : x # p => peer'[x] = peer[x]
    BY <1>10 DEF ClosePeer, TypeInv, PeersOK, PeerRecord
  <2>2. LegsInv'
    BY <2>1 DEF PeersInv, LegsInv, InUse
  <2>3. HeldInv'
    BY <2>1 DEF PeersInv, HeldInv
  <2>4. \A x \in doomed' : peer'[x].state # "unused"
    BY <2>1 DEF PeersInv
  <2> QED BY <2>2, <2>3, <2>4 DEF PeersInv
<1>11. CASE UNCHANGED vars
  BY <1>11, <1>f, <1>s DEF vars
<1> QED
  BY <1>1, <1>2, <1>3, <1>4, <1>5, <1>6, <1>7, <1>8, <1>9, <1>10, <1>11,
     HandlerPeers, ClosePeers DEF Next

(* No request closes a connection that is in use, however many requests    *)
(* overlap (joinAgent, repairMeta, createMetaOffer, removeAgent, close).   *)
THEOREM UsedConnectionsStayOpen == Spec => []InstalledPeersAreOpen
<1>1. Init => PeersInv
  BY DEF Init, PeersInv, LegsInv, HeldInv, NoSession, Idle, Gathering
<1>2. PeersInv => InstalledPeersAreOpen
  BY ConstantsAssumption DEF PeersInv, LegsInv, InUse, InstalledPeersAreOpen, Installed
<1> QED BY <1>1, <1>2, TypeCorrect, StepPeersInv, PTL DEF Spec

-----------------------------------------------------------------------------
(***************************************************************************)
(* The table implements MediaSessions.                                     *)
(***************************************************************************)
LEMMA RowOf ==
    ASSUME NEW i \in Ids, sessions[i] # None
    PROVE  Table[i] = Row(sessions[i]) /\ Table[i].open
BY DEF Table, Row

LEMMA RowOfNobody ==
    ASSUME NEW i \in Ids, sessions[i] = None
    PROVE  Table[i] = Media!Closed /\ ~Table[i].open
BY DEF Table, Media!Closed

(* What a step on one object does to the table: it changes the row of the  *)
(* identifier the object answers to, if there is one.                      *)
LEMMA UnlistedObject ==
    ASSUME TableInv, UNCHANGED sessions, NEW s \in Sessions, NEW o,
           session \in [Sessions -> SessionRecord], TableOK,
           session' = [session EXCEPT ![s] = o],
           session[s].state # "open" \/ ~Listed(s)
    PROVE  Table' = Table
<1>1. \A i \in Ids : sessions[i] # None => sessions[i] \in Sessions /\ sessions[i] # s
  BY DEF TableInv, ListedSessionsAreOpen, TableOK, Listed
<1> QED BY <1>1 DEF Table, Row

LEMMA ListedObject ==
    ASSUME TableInv, UNCHANGED sessions, NEW i \in Ids, sessions[i] # None, NEW o,
           session \in [Sessions -> SessionRecord], TableOK,
           session' = [session EXCEPT ![sessions[i]] = o]
    PROVE  Table' = [Table EXCEPT ![i] =
              [open |-> TRUE, agents |-> {a \in Agents : o.agents[a] # None},
               current |-> o.current]]
<1>1. \A j \in Ids : sessions[j] # None /\ j # i =>
         sessions[j] \in Sessions /\ sessions[j] # sessions[i]
  BY DEF TableInv, ListedSessionsAreOpen, TableOK
<1>2. sessions[i] \in Sessions
  BY DEF TableOK
<1>3. session'[sessions[i]] = o
  BY <1>2
<1>4. \A j \in Ids : j # i => Table'[j] = Table[j]
  BY <1>1 DEF Table, Row
<1>5. Table'[i] = [open |-> TRUE, agents |-> {a \in Agents : o.agents[a] # None},
                   current |-> o.current]
  BY <1>3 DEF Table, Row
<1> QED BY <1>4, <1>5 DEF Table

LEMMA QuietObject ==
    ASSUME UNCHANGED sessions, NEW s \in Sessions, TableOK, NEW o,
           session \in [Sessions -> SessionRecord],
           session' = [session EXCEPT ![s] = o],
           o.agents = session[s].agents, o.current = session[s].current
    PROVE  Table' = Table
<1>1. \A t \in Sessions : session'[t].agents = session[t].agents
                          /\ session'[t].current = session[t].current
  OBVIOUS
<1>2. ASSUME NEW i \in Ids, sessions[i] # None
      PROVE  Row(sessions[i])' = Row(sessions[i])
  <2>1. sessions[i] \in Sessions /\ sessions'[i] = sessions[i]
    BY <1>2 DEF TableOK
  <2>2. /\ session'[sessions[i]].agents = session[sessions[i]].agents
        /\ session'[sessions[i]].current = session[sessions[i]].current
    BY <1>1, <2>1
  <2> QED BY <2>1, <2>2 DEF Row
<1> QED BY <1>2 DEF Table

(* A row is known by its fields.                                           *)
ApiRow == [open : BOOLEAN, agents : SUBSET Agents, current : Agents \cup {None}]

LEMMA RowUpdates ==
    ASSUME NEW r \in ApiRow, NEW q \in ApiRow
    PROVE  /\ q.open = TRUE /\ q.agents = r.agents /\ q.current = r.current
              => q = [r EXCEPT !.open = TRUE]
           /\ q.open = r.open /\ q.current = r.current
              => q = [r EXCEPT !.agents = q.agents]
           /\ q.open = r.open /\ q.agents = r.agents
              => q = [r EXCEPT !.current = q.current]
           /\ q.open = r.open => q = [r EXCEPT !.agents = q.agents, !.current = q.current]
BY DEF ApiRow

(* A step that replaces one row.                                           *)
LEMMA RowStep ==
    ASSUME NEW i \in Ids, NEW q, Table' = [Table EXCEPT ![i] = q]
    PROVE  Table'[i] = q
BY DEF Table

LEMMA ApiRows ==
    ASSUME NEW i \in Ids, NEW s \in Sessions, session[s] \in SessionRecord, Table[i] = Row(s),
           NEW agents, NEW current \in Agents \cup {None},
           Table' = [Table EXCEPT ![i] = [open |-> TRUE, current |-> current,
                                          agents |-> {b \in Agents : agents[b] # None}]]
    PROVE  Table[i] \in ApiRow /\ Table'[i] \in ApiRow
<1>1. session[s].current \in Agents \cup {None}
  BY DEF SessionRecord
<1>2. Row(s) \in ApiRow
  BY <1>1 DEF Row, ApiRow
<1>3. [open |-> TRUE, current |-> current, agents |-> {b \in Agents : agents[b] # None}] \in ApiRow
  BY DEF ApiRow
<1> QED BY <1>2, <1>3, RowStep

-----------------------------------------------------------------------------
LEMMA InitMedia == Init => Media!Init
BY DEF Init, Media!Init, Media!Closed, Table

(* Creation, binding and the two ends of an identifier.                    *)
LEMMA NewSessionRefines ==
    ASSUME TypeInv, TableInv, NEW s \in Sessions, NEW i \in Ids, NewSession(s, i)
    PROVE  Media!Open(i)
<1>0. None \notin Sessions /\ session \in [Sessions -> SessionRecord]
  BY ConstantsAssumption DEF TypeInv
<1>1. \A j \in Ids : sessions[j] # None => sessions[j] \in Sessions /\ sessions[j] # s
  BY DEF TypeInv, TableOK, TableInv, ListedSessionsAreOpen, NewSession, NoSession
<1>2. \A j \in Ids : j # i => Table'[j] = Table[j]
  BY <1>0, <1>1 DEF Table, Row, NewSession, TypeInv, TableOK
<1>3. Table[i] = [open |-> FALSE, agents |-> {}, current |-> None]
  BY DEF Table, NewSession
<1>4. sessions'[i] = s /\ session'[s] = [NoSession EXCEPT !.state = "open"]
  BY <1>0 DEF NewSession, TypeInv, TableOK
<1>5. Table'[i] = [open |-> TRUE, agents |-> {}, current |-> None]
  <2>1. Table'[i] = Row(s)'
    BY <1>0, <1>4 DEF Table, Row
  <2>2. session'[s].current = None /\ \A a \in Agents : session'[s].agents[a] = None
    BY <1>4 DEF NoSession
  <2>3. {a \in Agents : session'[s].agents[a] # None} = {}
    BY <2>2
  <2> QED BY <2>1, <2>2, <2>3 DEF Row
<1>6. Table' = [Table EXCEPT ![i].open = TRUE]
  <2>1. Table[i] \in ApiRow /\ Table'[i] \in ApiRow
    BY <1>3, <1>5 DEF ApiRow
  <2>2. /\ Table'[i].open = TRUE /\ Table'[i].agents = Table[i].agents
        /\ Table'[i].current = Table[i].current
    BY <1>3, <1>5
  <2>3. Table'[i] = [Table[i] EXCEPT !.open = TRUE]
    BY <2>1, <2>2, RowUpdates
  <2> QED BY <1>2, <2>3 DEF Table
<1> QED BY <1>3, <1>6 DEF Media!Open

LEMMA BindRefines ==
    ASSUME TypeInv, NEW i \in Ids, NEW j \in Ids, Bind(i, j)
    PROVE  Media!Rename(i, j)
<1>1. i # j /\ sessions[i] # None /\ sessions[j] = None /\ session' = session
  BY DEF Bind
<1>2. sessions'[j] = sessions[i] /\ sessions'[i] = None
      /\ \A k \in Ids : k # i /\ k # j => sessions'[k] = sessions[k]
  BY DEF Bind, TypeInv, TableOK
<1>3. Table'[j] = Table[i] /\ Table'[i] = Media!Closed
      /\ \A k \in Ids : k # i /\ k # j => Table'[k] = Table[k]
  BY <1>1, <1>2 DEF Table, Row, Media!Closed
<1>4. Table' = [Table EXCEPT ![j] = Table[i], ![i] = Media!Closed]
  BY <1>1, <1>3 DEF Table
<1> QED BY <1>1, <1>4, RowOf, RowOfNobody DEF Media!Rename

LEMMA UnlistRefines ==
    ASSUME TypeInv, NEW i \in Ids, Unlist(i), session' = session
    PROVE  Table' = Table \/ Media!Close(i)
<1>1. /\ \A j \in Ids : j # i => sessions'[j] = sessions[j]
      /\ sessions'[i] = None
  BY DEF Unlist, TypeInv, TableOK
<1>2. /\ \A j \in Ids : j # i => Table'[j] = Table[j]
      /\ Table'[i] = Media!Closed
  BY <1>1 DEF Table, Row, Media!Closed
<1>3. CASE sessions[i] = None
  <2>1. Table[i] = Media!Closed
    BY <1>3, RowOfNobody
  <2> QED BY <1>2, <2>1 DEF Table
<1>4. CASE sessions[i] # None
  <2>1. Table' = [Table EXCEPT ![i] = Media!Closed]
    BY <1>2 DEF Table
  <2> QED BY <1>4, <2>1, RowOf DEF Media!Close
<1> QED BY <1>3, <1>4

LEMMA ExpireRefines ==
    ASSUME TypeInv, NEW s \in Sessions, ExpireProvisional(s)
    PROVE  Table' = Table \/ Media!Next
<1>1. timer[s] \in Ids /\ session' = session
  BY DEF ExpireProvisional, TypeInv, TableOK
<1>2. CASE Unlist(timer[s])
  BY <1>1, <1>2, UnlistRefines DEF Media!Next
<1>3. CASE UNCHANGED <<sessions, closing>>
  BY <1>1, <1>3 DEF Table, Row
<1> QED BY <1>2, <1>3 DEF ExpireProvisional

(* callSession.close works on an object that is not listed any more.       *)
LEMMA CloseRefines ==
    ASSUME TypeInv, TableInv, NEW s \in Sessions, Close(s)
    PROVE  Table' = Table
<1>1. s # None /\ s \in closing
  BY ConstantsAssumption DEF Close
<1>2. ~Listed(s)
  BY <1>1 DEF TableInv, ListedSessionsAreOpen, Listed
<1> QED BY <1>2, UnlistedObject DEF Close, tableVars, TypeInv

(* Requests.                                                               *)
LEMMA DropRefines ==
    ASSUME TypeInv, TableInv, NEW r \in Requests, DropExisting(r)
    PROVE  Table' = Table \/ Media!Next
<1>. DEFINE s == proc[r].session
            a == proc[r].agent
<1>0. s \in Sessions /\ a \in Agents /\ proc[r].previous \in Peers
  BY HandlerNames DEF DropExisting, TypeInv, At, ForAgent
<1>1. session \in [Sessions -> SessionRecord] /\ TableOK /\ UNCHANGED sessions
  BY DEF TypeInv, DropExisting, tableVars
<1>2. CASE session' = session
  BY <1>1, <1>2 DEF Table, Row
<1>3. CASE /\ session[s].agents[a] = proc[r].previous
           /\ session' = [session EXCEPT ![s].agents[a] = None]
  <2>. DEFINE o == [session[s] EXCEPT !.agents[a] = None]
  <2>1. session' = [session EXCEPT ![s] = o]
    BY <1>3
  <2>2. CASE ~Listed(s)
    BY <1>0, <1>1, <2>1, <2>2, UnlistedObject
  <2>3. ASSUME NEW i \in Ids, sessions[i] = s PROVE Media!Rejoin(i, a)
    <3>0. /\ session[s] \in SessionRecord /\ session[s].agents \in [Agents -> Connections]
          /\ None \notin Sessions /\ None \notin Peers
      BY <1>0, <1>1, ConstantsAssumption DEF SessionRecord
    <3>1. Table' = [Table EXCEPT ![i] =
              [open |-> TRUE, agents |-> {b \in Agents : o.agents[b] # None},
               current |-> o.current]]
      BY <1>0, <1>1, <2>1, <2>3, <3>0, ListedObject
    <3>2. Table[i] = Row(s)
      BY <1>0, <2>3, <3>0, RowOf
    <3>3. /\ {b \in Agents : o.agents[b] # None}
                = {b \in Agents : session[s].agents[b] # None} \ {a}
          /\ o.current = session[s].current
      BY <1>0, <3>0 DEF SessionRecord
    <3>4. a \in Table[i].agents
      BY <1>0, <1>3, <3>0, <3>2 DEF Row
    <3>5. Table' = [Table EXCEPT ![i].agents = @ \ {a}]
      <4>1. Table[i] \in ApiRow /\ Table'[i] \in ApiRow
        <5>1. o.current \in Agents \cup {None}
          BY <1>0, <3>0, <3>3 DEF SessionRecord
        <5> QED BY <5>1, <1>0, <3>0, <3>1, <3>2, ApiRows
      <4>2. /\ Table[i].open = TRUE /\ Table[i].current = session[s].current
           /\ Table[i].agents = {b \in Agents : session[s].agents[b] # None}
        BY <3>2 DEF Row
      <4>3. /\ Table'[i].open = TRUE /\ Table'[i].current = o.current
           /\ Table'[i].agents = {b \in Agents : o.agents[b] # None}
        BY <3>1, RowStep
      <4>4. /\ Table'[i].open = Table[i].open /\ Table'[i].agents = Table[i].agents \ {a}
          /\ Table'[i].current = Table[i].current
        BY <3>3, <4>2, <4>3
      <4>5. Table'[i] = [Table[i] EXCEPT !.agents = Table'[i].agents]
        BY <4>1, <4>4, RowUpdates
      <4>6. Table'[i] = [Table[i] EXCEPT !.agents = @ \ {a}]
        BY <4>4, <4>5
      <4> QED BY <3>1, <4>6 DEF Table
    <3> QED BY <3>4, <3>5 DEF Media!Rejoin
  <2> QED BY <1>0, <2>2, <2>3 DEF Listed, Media!Next
<1> QED BY <1>2, <1>3 DEF DropExisting

LEMMA InstallRefines ==
    ASSUME TypeInv, TableInv, NEW r \in Requests, InstallAgent(r)
    PROVE  Table' = Table \/ Media!Next
<1>. DEFINE s == proc[r].session
            a == proc[r].agent
            p == proc[r].peer
            o == [session[s] EXCEPT !.agents[a] = p]
<1>0. s \in Sessions /\ a \in Agents /\ p \in Peers
  BY HandlerNames DEF InstallAgent, TypeInv, At, ForAgent, Gathering
<1>1. session \in [Sessions -> SessionRecord] /\ TableOK /\ UNCHANGED sessions
  BY DEF TypeInv, InstallAgent, tableVars
<1>2. session' = [session EXCEPT ![s] = o]
  BY DEF InstallAgent
<1>3. CASE ~Listed(s)
  BY <1>0, <1>1, <1>2, <1>3, UnlistedObject
<1>4. ASSUME NEW i \in Ids, sessions[i] = s PROVE Media!Join(i, a)
  <2>0. /\ session[s] \in SessionRecord /\ session[s].agents \in [Agents -> Connections]
        /\ None \notin Sessions /\ None \notin Peers
    BY <1>0, <1>1, ConstantsAssumption DEF SessionRecord
  <2>1. Table' = [Table EXCEPT ![i] =
            [open |-> TRUE, agents |-> {b \in Agents : o.agents[b] # None},
             current |-> o.current]]
    BY <1>0, <1>1, <1>2, <1>4, <2>0, ListedObject
  <2>2. Table[i] = Row(s)
    BY <1>0, <1>4, <2>0, RowOf
  <2>3. /\ {b \in Agents : o.agents[b] # None}
              = {b \in Agents : session[s].agents[b] # None} \cup {a}
        /\ o.current = session[s].current
    BY <1>0, <2>0 DEF SessionRecord
  <2>4. Table' = [Table EXCEPT ![i].agents = @ \cup {a}]
    <3>1. Table[i] \in ApiRow /\ Table'[i] \in ApiRow
      <4>1. o.current \in Agents \cup {None}
        BY <1>0, <2>0, <2>3 DEF SessionRecord
      <4> QED BY <4>1, <1>0, <2>0, <2>1, <2>2, ApiRows
    <3>2. /\ Table[i].open = TRUE /\ Table[i].current = session[s].current
         /\ Table[i].agents = {b \in Agents : session[s].agents[b] # None}
      BY <2>2 DEF Row
    <3>3. /\ Table'[i].open = TRUE /\ Table'[i].current = o.current
         /\ Table'[i].agents = {b \in Agents : o.agents[b] # None}
      BY <2>1, RowStep
    <3>4. /\ Table'[i].open = Table[i].open /\ Table'[i].agents = Table[i].agents \cup {a}
        /\ Table'[i].current = Table[i].current
      BY <2>3, <3>2, <3>3
    <3>5. Table'[i] = [Table[i] EXCEPT !.agents = Table'[i].agents]
      BY <3>1, <3>4, RowUpdates
    <3>6. Table'[i] = [Table[i] EXCEPT !.agents = @ \cup {a}]
      BY <3>4, <3>5
    <3> QED BY <2>1, <3>6 DEF Table
  <2> QED BY <2>2, <2>4 DEF Media!Join, Row
<1> QED BY <1>0, <1>3, <1>4 DEF Listed, Media!Next

LEMMA SwitchRefines ==
    ASSUME TypeInv, TableInv, NEW r \in Requests, SetCurrent(r)
    PROVE  Table' = Table \/ Media!Next
<1>. DEFINE s == proc[r].session
            a == proc[r].agent
            o == [session[s] EXCEPT !.current = a]
<1>0. s \in Sessions /\ a \in Agents
  BY HandlerNames DEF SetCurrent, TypeInv, At, ForAgent
<1>1. session \in [Sessions -> SessionRecord] /\ TableOK /\ UNCHANGED sessions
  BY DEF TypeInv, SetCurrent, tableVars
<1>2. CASE session' = session
  BY <1>1, <1>2 DEF Table, Row
<1>3. CASE session[s].agents[a] \in live /\ session' = [session EXCEPT ![s].current = a]
  <2>1. session' = [session EXCEPT ![s] = o]
    BY <1>3
  <2>2. CASE ~Listed(s)
    BY <1>0, <1>1, <2>1, <2>2, UnlistedObject
  <2>3. ASSUME NEW i \in Ids, sessions[i] = s PROVE Media!Switch(i, a)
    <3>0. /\ session[s] \in SessionRecord
          /\ None \notin Sessions /\ None \notin live
      BY <1>0, <1>1, ConstantsAssumption DEF TypeInv, PeersOK
    <3>1. Table' = [Table EXCEPT ![i] =
              [open |-> TRUE, agents |-> {b \in Agents : o.agents[b] # None},
               current |-> o.current]]
      BY <1>0, <1>1, <2>1, <2>3, <3>0, ListedObject
    <3>2. Table[i] = Row(s)
      BY <1>0, <2>3, <3>0, RowOf
    <3>3. o.agents = session[s].agents /\ o.current = a
      BY <3>0 DEF SessionRecord
    <3>4. a \in Table[i].agents
      BY <1>0, <1>3, <3>0, <3>2 DEF Row
    <3>5. Table' = [Table EXCEPT ![i].current = a]
      <4>1. Table[i] \in ApiRow /\ Table'[i] \in ApiRow
        <5>1. o.current \in Agents \cup {None}
          BY <1>0, <3>0, <3>3 DEF SessionRecord
        <5> QED BY <5>1, <1>0, <3>0, <3>1, <3>2, ApiRows
      <4>2. /\ Table[i].open = TRUE /\ Table[i].current = session[s].current
           /\ Table[i].agents = {b \in Agents : session[s].agents[b] # None}
        BY <3>2 DEF Row
      <4>3. /\ Table'[i].open = TRUE /\ Table'[i].current = o.current
           /\ Table'[i].agents = {b \in Agents : o.agents[b] # None}
        BY <3>1, RowStep
      <4>4. /\ Table'[i].open = Table[i].open /\ Table'[i].agents = Table[i].agents
          /\ Table'[i].current = a
        BY <3>3, <4>2, <4>3
      <4>5. Table'[i] = [Table[i] EXCEPT !.current = Table'[i].current]
        BY <4>1, <4>4, RowUpdates
      <4>6. Table'[i] = [Table[i] EXCEPT !.current = a]
        BY <4>4, <4>5
      <4> QED BY <3>1, <4>6 DEF Table
    <3> QED BY <3>4, <3>5 DEF Media!Switch
  <2> QED BY <1>0, <2>2, <2>3 DEF Listed, Media!Next
<1> QED BY <1>2, <1>3 DEF SetCurrent

LEMMA RemoveRefines ==
    ASSUME TypeInv, TableInv, NEW r \in Requests, RemoveAgent(r)
    PROVE  Table' = Table \/ Media!Next
<1>. DEFINE s == proc[r].session
            a == proc[r].agent
            o == [session[s] EXCEPT !.agents[a] = None,
                                    !.current = IF @ = a THEN None ELSE @]
<1>0. s \in Sessions /\ a \in Agents
  BY HandlerNames DEF RemoveAgent, TypeInv, At, ForAgent
<1>1. session \in [Sessions -> SessionRecord] /\ TableOK /\ UNCHANGED sessions
  BY Zenon DEF TypeInv, RemoveAgent, tableVars
<1>2. session' = [session EXCEPT ![s] = o]
  BY <1>0, <1>1 DEF RemoveAgent, SessionRecord
<1>3. CASE ~Listed(s)
  BY <1>0, <1>1, <1>2, <1>3, UnlistedObject
<1>4. ASSUME NEW i \in Ids, sessions[i] = s PROVE Media!Remove(i, a)
  <2>0. /\ session[s] \in SessionRecord /\ session[s].agents \in [Agents -> Connections]
        /\ None \notin Sessions
    BY <1>0, <1>1, ConstantsAssumption DEF SessionRecord
  <2>1. Table' = [Table EXCEPT ![i] =
            [open |-> TRUE, agents |-> {b \in Agents : o.agents[b] # None},
             current |-> o.current]]
    <3>1. sessions[i] # None /\ session' = [session EXCEPT ![sessions[i]] = o]
      BY <1>0, <1>2, <1>4, <2>0
    <3> HIDE DEF o
    <3> QED BY <1>1, <3>1, ListedObject
  <2>2. Table[i] = Row(s)
    BY <1>0, <1>4, <2>0, RowOf
  <2>3. /\ {b \in Agents : o.agents[b] # None}
              = {b \in Agents : session[s].agents[b] # None} \ {a}
        /\ o.current = IF session[s].current = a THEN None ELSE session[s].current
    BY <1>0, <2>0 DEF SessionRecord
  <2>4. Table' = [Table EXCEPT ![i].agents = @ \ {a},
                              ![i].current = IF @ = a THEN None ELSE @]
    <3>1. Table[i] \in ApiRow /\ Table'[i] \in ApiRow
      <4>1. o.current \in Agents \cup {None}
        BY <1>0, <2>0, <2>3 DEF SessionRecord
      <4> QED BY <4>1, <1>0, <2>0, <2>1, <2>2, ApiRows
    <3>2. /\ Table[i].open = TRUE /\ Table[i].current = session[s].current
         /\ Table[i].agents = {b \in Agents : session[s].agents[b] # None}
      BY <2>2 DEF Row
    <3>3. /\ Table'[i].open = TRUE /\ Table'[i].current = o.current
         /\ Table'[i].agents = {b \in Agents : o.agents[b] # None}
      BY <2>1, RowStep
    <3>4. /\ Table'[i].open = Table[i].open /\ Table'[i].agents = Table[i].agents \ {a}
        /\ Table'[i].current = IF Table[i].current = a THEN None ELSE Table[i].current
      BY <2>3, <3>2, <3>3
    <3>5. Table'[i] = [Table[i] EXCEPT !.agents = Table'[i].agents, !.current = Table'[i].current]
      BY <3>1, <3>4, RowUpdates
    <3>6. Table'[i] = [Table[i] EXCEPT !.agents = @ \ {a},
                                       !.current = IF @ = a THEN None ELSE @]
      BY <3>4, <3>5
    <3> QED BY ZenonT(40), <2>1, <3>6 DEF Table
  <2> QED BY <2>2, <2>4 DEF Media!Remove, Row
<1> QED BY <1>0, <1>3, <1>4 DEF Listed, Media!Next

(* Prompts and Meta's side of a session are not in the table.              *)
LEMMA SoundRefines ==
    ASSUME TypeInv, UNCHANGED sessions, NEW s \in Sessions,
           \/ session' = session
           \/ session' = [session EXCEPT ![s].ivrStarted = TRUE]
           \/ \E q : session' = [session EXCEPT ![s].source = q]
    PROVE  Table' = Table
<1>1. CASE session' = session
  BY <1>1 DEF Table, Row
<1>2. CASE session' = [session EXCEPT ![s].ivrStarted = TRUE]
  <2>. DEFINE o == [session[s] EXCEPT !.ivrStarted = TRUE]
  <2>1. o.agents = session[s].agents /\ o.current = session[s].current
    BY ObjectOK DEF TypeInv, SessionRecord
  <2> QED BY <1>2, <2>1, QuietObject DEF TypeInv
<1>3. ASSUME NEW q, session' = [session EXCEPT ![s].source = q]
      PROVE  Table' = Table
  <2>. DEFINE o == [session[s] EXCEPT !.source = q]
  <2>1. o.agents = session[s].agents /\ o.current = session[s].current
    BY ObjectOK DEF TypeInv, SessionRecord
  <2> QED BY <1>3, <2>1, QuietObject DEF TypeInv
<1> QED BY <1>1, <1>2, <1>3

LEMMA MetaRefines ==
    ASSUME TypeInv, NEW r \in Requests, InstallMeta(r)
    PROVE  Table' = Table
<1>. DEFINE s == proc[r].session
<1>0. s \in Sessions /\ UNCHANGED sessions
  BY HandlerNames DEF InstallMeta, TypeInv, At, tableVars
<1>1. \A t \in Sessions : session'[t].agents = session[t].agents
                          /\ session'[t].current = session[t].current
  BY <1>0 DEF InstallMeta, TypeInv, SessionRecord
<1> QED BY ZenonT(40), <1>0, <1>1 DEF Table, Row, TypeInv, TableOK

LEMMA HandlerRefines ==
    ASSUME TypeInv, TableInv, NEW r \in Requests, Handler(r)
    PROVE  Table' = Table \/ Media!Next
<1>n. ~At(r, "idle") => proc[r].session \in Sessions /\ proc[r].id \in Ids
  BY HandlerNames DEF TypeInv
<1>1. CASE CreateMetaOffer(r) \/ RepairMeta(r) \/ ReadRemote(r) \/ JoinAgent(r)
  <2>1. UNCHANGED <<sessions, session>>
    BY <1>1 DEF CreateMetaOffer, RepairMeta, ReadRemote, JoinAgent, tableVars
  <2> QED BY <2>1 DEF Table, Row
<1>2. CASE GatherFails(r)
  <2>1. session' = session /\ proc[r].id \in Ids
    BY <1>2, <1>n DEF GatherFails, At
  <2>2. CASE Unlist(proc[r].id)
    BY <2>1, <2>2, UnlistRefines DEF Media!Next
  <2>3. CASE UNCHANGED <<sessions, closing>>
    BY <2>1, <2>3 DEF Table, Row
  <2> QED BY <1>2, <2>2, <2>3 DEF GatherFails
<1>3. CASE PlayIvr(r)
  <2>1. proc[r].session \in Sessions /\ UNCHANGED sessions
    BY <1>3, <1>n DEF PlayIvr, At, tableVars
  <2>2. \/ session' = session
        \/ session' = [session EXCEPT ![proc[r].session].ivrStarted = TRUE]
    BY <1>3 DEF PlayIvr
  <2> QED BY <2>1, <2>2, SoundRefines
<1> QED BY <1>1, <1>2, <1>3, DropRefines, InstallRefines, SwitchRefines, RemoveRefines,
           MetaRefines DEF Handler

LEMMA StepRefines == TypeInv /\ TableInv /\ [Next]_vars => [Media!Next]_Table
<1> SUFFICES ASSUME TypeInv, TableInv, [Next]_vars PROVE Table' = Table \/ Media!Next
  OBVIOUS
<1>1. CASE UNCHANGED vars
  BY <1>1 DEF vars, Table, Row
<1>2. ASSUME NEW r \in Requests, NEW i \in Ids, PrepareInbound(r, i)
      PROVE  Media!Next
  BY <1>2, NewSessionRefines DEF PrepareInbound, Media!Next
<1>3. ASSUME NEW r \in Requests, NEW i \in Ids, NEW endpoint \in Endpoints,
             NEW a \in Agents \cup {None}, LookUp(r, endpoint, i, a)
      PROVE  Table' = Table
  BY <1>3 DEF LookUp, tableVars, Table, Row
<1>4. ASSUME NEW i \in Ids, CreateProvisional(i)
      PROVE  Media!Next
  BY <1>4, NewSessionRefines DEF CreateProvisional, Media!Next
<1>5. ASSUME NEW i \in Ids, CloseSession(i)
      PROVE  Table' = Table \/ Media!Next
  BY <1>5, UnlistRefines DEF CloseSession, Media!Next
<1>6. ASSUME NEW i \in Ids, NEW j \in Ids, Bind(i, j)
      PROVE  Media!Next
  BY <1>6, BindRefines DEF Media!Next
<1>7. ASSUME NEW s \in Sessions, PlayerTick(s)
      PROVE  Table' = Table
  <2>1. UNCHANGED sessions /\ (session' = session
                              \/ session' = [session EXCEPT ![s].source = Ivr])
    BY <1>7 DEF PlayerTick, Write, tableVars
  <2> QED BY <2>1, SoundRefines
<1>8. ASSUME NEW p \in Peers, ClosePeer(p) \/ Connects(p) \/ Silent(p) \/ ReadPacket(p)
      PROVE  Table' = Table
  BY <1>8 DEF ClosePeer, Connects, Silent, ReadPacket, tableVars, Table, Row
<1>9. ASSUME NEW p \in Peers, RelayAgent(p)
      PROVE  Table' = Table
  <2>1. UNCHANGED sessions
        /\ (session' = session \/ session' = [session EXCEPT ![peer[p].session].source = p])
    BY <1>9 DEF RelayAgent, Write, tableVars
  <2>2. CASE session' = session
    BY <2>1, <2>2 DEF Table, Row
  <2>3. CASE peer[p].session \in Sessions
    BY <2>1, <2>3, SoundRefines
  <2>4. CASE peer[p].session \notin Sessions
    <3>1. session' = session
      BY <2>1, <2>4 DEF TypeInv
    <3> QED BY <2>2, <3>1
  <2> QED BY <2>3, <2>4
<1> QED
  BY <1>1, <1>2, <1>3, <1>4, <1>5, <1>6, <1>7, <1>8, <1>9, HandlerRefines, ExpireRefines,
     CloseRefines DEF Next

(* However its critical sections, its half-done requests and its timers    *)
(* overlap, the gateway answers to its callers as a table whose requests   *)
(* are one step each: a join, a switch, a removal or a close that works on *)
(* an object the table has lost meanwhile is seen by nobody.               *)
THEOREM GatewayImplementsTable == Spec => ImplementsMediaSessions
<1>1. Spec => []TypeInv
  BY TypeCorrect
<1>2. Init => TableInv /\ Media!Init
  BY InitTypeInv, InitMedia DEF Init, TableInv, ListedSessionsAreOpen
<1>3. TypeInv /\ TableInv /\ [Next]_vars => TableInv'
  BY StepTableInv
<1>4. TypeInv /\ TableInv /\ [Next]_vars => [Media!Next]_Table
  BY StepRefines
<1> QED BY <1>1, <1>2, <1>3, <1>4, PTL DEF Spec, ImplementsMediaSessions, Media!Spec
=============================================================================
