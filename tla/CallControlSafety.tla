------------------------- MODULE CallControlSafety -------------------------
(***************************************************************************)
(* No agent has two calls: the proof.                                      *)
(*                                                                         *)
(* mediaReady and initiate look up the agent's calls and write the call    *)
(* several awaits later.  The argument: while one of them is past its      *)
(* look-up, it alone holds its agent's lock, and no other step can give    *)
(* that agent a call (NoNewHolder); so what it saw is still true when it   *)
(* writes (LockInv), even if the row it writes was ended meanwhile.        *)
(***************************************************************************)
EXTENDS CallControlProofs

(* What a step does to the rows: it never removes one, and only Activate   *)
(* and CreateOutbound give a call to an agent.                             *)
AgentsKept ==
    \A c \in Calls : /\ call'[c].agent \in {None, call[c].agent}
                     /\ call'[c].status = "NONE" => call'[c] = call[c]

NoNewHolder(c) ==
    Current(c)' /\ call'[c].agent # None => Current(c) /\ call'[c].agent = call[c].agent

(* What a step of request p does to the locks of agents.                   *)
Outside(p) ==
    /\ ~ Holds(p) /\ proc'[p].pc \notin Serving \cup Calling
    /\ UNCHANGED <<mediaAgents, outgoingAgents>>

Leaves(p) ==
    /\ Holds(p) /\ proc'[p] = Idle
    /\ mediaAgents \ {proc[p].by} \subseteq mediaAgents'
    /\ outgoingAgents \ {proc[p].by} \subseteq outgoingAgents'

Serves(p) ==
    /\ proc[p].pc \in Serving /\ proc'[p].pc \in Serving
    /\ proc'[p].by = proc[p].by /\ proc'[p].call = proc[p].call
    /\ proc[p].pc \in ServingAlone \/ LiveOf(proc[p].by) \subseteq {proc[p].call}
    /\ UNCHANGED <<mediaAgents, outgoingAgents>>

Makes(p) ==
    /\ proc[p].pc \in Calling /\ proc'[p].pc \in Calling
    /\ proc'[p].by = proc[p].by
    /\ proc[p].pc \in CallingAlone \/ LiveOf(proc[p].by) = {}
    /\ UNCHANGED <<mediaAgents, outgoingAgents>>

Enters(p) ==
    /\ ~ Holds(p) /\ proc'[p].by \notin mediaAgents \cup outgoingAgents
    /\ \/ /\ proc'[p].pc = "find_active"
          /\ mediaAgents' = mediaAgents \cup {proc'[p].by} /\ UNCHANGED outgoingAgents
       \/ /\ proc'[p].pc = "out_agent"
          /\ outgoingAgents' = outgoingAgents \cup {proc'[p].by} /\ UNCHANGED mediaAgents

(* Activate and CreateOutbound.                                            *)
Takes(p) ==
    /\ Leaves(p) /\ proc[p].pc \in ServingAlone \cup CallingAlone
    /\ call'[proc[p].call].agent = proc[p].by
    /\ call'[proc[p].call].status \in LIVE
    /\ \A c \in Calls \ {proc[p].call} : call'[c] = call[c]

-----------------------------------------------------------------------------
LEMMA PastOpen ==
    ASSUME TypeInv, Remember, NEW c \in Calls, past'[c] = "open"
    PROVE  past[c] = "open" /\ call'[c].status \notin TERMINAL
BY DEF Remember, TypeInv, TypeOK

LEMMA KeptAgentsNoNewHolder ==
    ASSUME TypeInv, RowsInv, Remember, NEW c \in Calls,
           call'[c].agent \in {None, call[c].agent}
    PROVE  NoNewHolder(c)
<1> SUFFICES ASSUME Current(c)', call'[c].agent # None
             PROVE  Current(c) /\ call'[c].agent = call[c].agent
  BY DEF NoNewHolder
<1>1. past[c] = "open"
  BY PastOpen DEF Current
<1>2. call[c].status \notin TERMINAL /\ call[c].status # "NONE"
  BY <1>1 DEF RowsInv, Over
<1>3. call[c].status \in CallStatus
  BY DEF TypeInv, TypeOK, WorldOK, CallRow
<1> QED BY <1>1, <1>2, <1>3 DEF Current, Live, CallStatus

LEMMA RowsKept ==
    ASSUME TypeInv, RowsInv, Remember, TypeInv',
           \A c \in Calls : call'[c].status = "NONE" => call'[c] = call[c]
    PROVE  RowsInv'
<1> SUFFICES ASSUME NEW c \in Calls
             PROVE  /\ call'[c].status = "NONE" => call'[c].agent = None
                    /\ past'[c] = "open" => ~ Over(c)'
  BY DEF RowsInv
<1>1. call'[c].status = "NONE" => call'[c].agent = None
  BY DEF RowsInv
<1>2. past'[c] = "open" => ~ Over(c)'
  BY PastOpen DEF Over
<1> QED BY <1>1, <1>2

LEMMA OneCallKept ==
    ASSUME OneLiveCallPerAgent, \A c \in Calls : NoNewHolder(c)
    PROVE  OneLiveCallPerAgent'
BY DEF OneLiveCallPerAgent, NoNewHolder

(* A request that is past its look-up is working for an agent.             *)
LEMMA AloneNames ==
    ASSUME TypeInv, NEW q \in Requests, proc[q].pc \in ServingAlone \cup CallingAlone
    PROVE  proc[q].by \in Agents /\ proc[q].by # None /\ Holds(q)
<1>1. proc[q].pc \in Serving \cup Calling
  BY DEF ServingAlone, CallingAlone
<1> QED BY <1>1, ConstantsAssumption DEF TypeInv, RequestOK, Holds

LEMMA LocksStep ==
    ASSUME TypeInv, LockInv, NEW p \in Requests, Moves(p),
           Outside(p) \/ Leaves(p) \/ Serves(p) \/ Makes(p) \/ Enters(p)
    PROVE  \A q \in Requests :
              /\ proc'[q].pc \in Serving => proc'[q].by \in mediaAgents'
              /\ proc'[q].pc \in Calling => proc'[q].by \in outgoingAgents'
              /\ \A r \in Requests : Holds(q)' /\ Holds(r)' /\ r # q
                                        => proc'[r].by # proc'[q].by
<1>0. \A q \in Requests \ {p} : proc'[q] = proc[q]
  BY DEF Moves
<1>1. "idle" \notin Serving \cup Calling /\ "find_active" \in Serving \ Calling
      /\ "out_agent" \in Calling \ Serving /\ Serving \cap Calling = {}
  BY DEF Serving, Calling
<1>2. ASSUME NEW q \in Requests
      PROVE  /\ proc'[q].pc \in Serving => proc'[q].by \in mediaAgents'
             /\ proc'[q].pc \in Calling => proc'[q].by \in outgoingAgents'
  <2>1. CASE q # p
    <3>1. /\ proc[q].pc \in Serving => proc[q].by \in mediaAgents
          /\ proc[q].pc \in Calling => proc[q].by \in outgoingAgents
          /\ Holds(q) /\ Holds(p) => proc[q].by # proc[p].by
      BY <2>1 DEF LockInv
    <3> QED BY <1>0, <2>1, <3>1 DEF Outside, Leaves, Serves, Makes, Enters, Holds
  <2>2. CASE q = p
    <3>1. /\ proc[p].pc \in Serving => proc[p].by \in mediaAgents
          /\ proc[p].pc \in Calling => proc[p].by \in outgoingAgents
      BY DEF LockInv
    <3> QED BY <1>1, <2>2, <3>1 DEF Outside, Leaves, Serves, Makes, Enters, Idle
  <2> QED BY <2>1, <2>2
<1>3. ASSUME NEW q \in Requests, q # p, Holds(q)', Holds(p)'
      PROVE  proc'[q].by # proc'[p].by
  <2>1. Holds(q) /\ proc'[q].by = proc[q].by
    BY <1>0, <1>3 DEF Holds
  <2>2. proc[q].by \in mediaAgents \cup outgoingAgents
    BY <2>1 DEF LockInv, Holds
  <2>3. Holds(p) => proc[q].by # proc[p].by
    BY <1>3, <2>1 DEF LockInv
  <2> QED BY <1>1, <1>3, <2>1, <2>2, <2>3
          DEF Outside, Leaves, Serves, Makes, Enters, Holds, Idle
<1>4. ASSUME NEW q \in Requests, NEW r \in Requests, Holds(q)', Holds(r)', r # q
      PROVE  proc'[r].by # proc'[q].by
  <2>1. CASE q = p \/ r = p
    BY <1>3, <1>4, <2>1
  <2>2. CASE q # p /\ r # p
    BY <1>0, <1>4, <2>2 DEF LockInv, Holds
  <2> QED BY <2>1, <2>2
<1> QED BY <1>2, <1>4

(* What the requests saw stays true.                                       *)
LEMMA SightingKept ==
    ASSUME TypeInv, LockInv, TypeInv', NEW p \in Requests, Moves(p),
           Outside(p) \/ Leaves(p) \/ Serves(p) \/ Makes(p) \/ Enters(p),
           NEW q \in Requests, NEW c \in Calls, NoNewHolder(c),
           Current(c)', call'[c].agent = proc'[q].by,
           proc'[q].pc \in ServingAlone \cup CallingAlone
    PROVE  /\ proc'[q].pc \in ServingAlone => c = proc'[q].call
           /\ proc'[q].pc \notin CallingAlone
<1>1. proc'[q].by # None
  <2>1. proc'[q].pc \in Serving \cup Calling
    BY DEF ServingAlone, CallingAlone
  <2>2. proc'[q].by \in Agents
    BY <2>1 DEF TypeInv, RequestOK
  <2> QED BY <2>2, ConstantsAssumption
<1>2. Current(c) /\ call[c].agent = proc'[q].by
  BY <1>1 DEF NoNewHolder
<1>3. CASE q # p
  BY <1>2, <1>3 DEF Moves, LockInv
<1>4. CASE q = p
  <2>1. Serves(p) \/ Makes(p)
    BY <1>4 DEF Outside, Leaves, Enters, ServingAlone, CallingAlone, Serving, Calling, Idle
  <2>2. CASE Serves(p)
    <3>1. proc'[p].pc \notin CallingAlone
      BY <2>2 DEF Serves, Serving, Calling, CallingAlone
    <3>2. c = proc[p].call
      <4>1. CASE proc[p].pc \in ServingAlone
        BY <1>2, <1>4, <2>2, <4>1 DEF LockInv, Serves
      <4>2. CASE LiveOf(proc[p].by) \subseteq {proc[p].call}
        BY <1>2, <1>4, <2>2, <4>2 DEF LiveOf, Serves, Current
      <4> QED BY <2>2, <4>1, <4>2 DEF Serves
    <3> QED BY <1>4, <2>2, <3>1, <3>2 DEF Serves
  <2>3. CASE Makes(p)
    <3>1. CASE proc[p].pc \in CallingAlone
      BY <1>2, <1>4, <2>3, <3>1 DEF LockInv, Makes
    <3>2. CASE LiveOf(proc[p].by) = {}
      BY <1>2, <1>4, <2>3, <3>2 DEF LiveOf, Makes, Current
    <3> QED BY <2>3, <3>1, <3>2 DEF Makes
  <2> QED BY <2>1, <2>2, <2>3
<1> QED BY <1>3, <1>4

LEMMA KeepsHolders ==
    ASSUME TypeInv, HoldersInv, TypeInv', Remember, NEW p \in Requests, Moves(p), AgentsKept,
           Outside(p) \/ Leaves(p) \/ Serves(p) \/ Makes(p) \/ Enters(p)
    PROVE  HoldersInv'
<1>. USE DEF HoldersInv
<1>1. \A c \in Calls : NoNewHolder(c)
  BY KeptAgentsNoNewHolder DEF AgentsKept
<1>2. RowsInv'
  BY RowsKept DEF AgentsKept
<1>3. OneLiveCallPerAgent'
  BY <1>1, OneCallKept
<1>4. LockInv'
  <2>1. \A q \in Requests : \A c \in Calls : Current(c)' /\ call'[c].agent = proc'[q].by =>
           /\ proc'[q].pc \in ServingAlone => c = proc'[q].call
           /\ proc'[q].pc \notin CallingAlone
    BY <1>1, SightingKept
  <2> QED BY <2>1, LocksStep DEF LockInv
<1> QED BY <1>2, <1>3, <1>4

LEMMA TakesHolders ==
    ASSUME TypeInv, HoldersInv, TypeInv', Remember, NEW p \in Requests, Moves(p), Takes(p)
    PROVE  HoldersInv'
<1> DEFINE r == proc[p]
<1>. USE DEF HoldersInv
<1>0. Leaves(p) /\ r.by \in Agents /\ r.by # None /\ Holds(p)
  BY AloneNames DEF Takes
<1>1. \A c \in Calls \ {r.call} : NoNewHolder(c)
  BY KeptAgentsNoNewHolder DEF Takes
<1>2. ASSUME NEW c \in Calls, Current(c), call[c].agent = r.by PROVE c = r.call
  BY <1>2 DEF LockInv, Takes
<1>3. RowsInv'
  <2>1. ASSUME NEW c \in Calls, call'[c].status = "NONE" PROVE call'[c] = call[c]
    BY <2>1 DEF Takes, LIVE
  <2> QED BY <2>1, RowsKept
<1>4. OneLiveCallPerAgent'
  <2>1. SUFFICES ASSUME NEW c \in Calls, NEW d \in Calls, Current(c)', Current(d)',
                        call'[c].agent = call'[d].agent, call'[c].agent # None, c # d
                 PROVE  FALSE
    BY DEF OneLiveCallPerAgent
  <2>2. CASE c # r.call /\ d # r.call
    BY <1>1, <2>1, <2>2 DEF OneLiveCallPerAgent, NoNewHolder
  <2>3. ASSUME NEW e \in Calls, e # r.call, Current(e)', call'[e].agent = r.by PROVE FALSE
    BY <1>0, <1>1, <1>2, <2>3 DEF NoNewHolder
  <2>4. CASE c = r.call
    BY <2>1, <2>3, <2>4 DEF Takes
  <2>5. CASE d = r.call
    BY <2>1, <2>3, <2>5 DEF Takes
  <2> QED BY <2>2, <2>4, <2>5
<1>5. LockInv'
  <2>1. ASSUME NEW q \in Requests, NEW c \in Calls, Current(c)',
               call'[c].agent = proc'[q].by, proc'[q].pc \in ServingAlone \cup CallingAlone
        PROVE  /\ proc'[q].pc \in ServingAlone => c = proc'[q].call
               /\ proc'[q].pc \notin CallingAlone
    <3>1. CASE c # r.call
      BY <1>0, <1>1, <2>1, <3>1, SightingKept
    <3>2. CASE c = r.call
      <4>1. q # p
        BY <1>0, <2>1 DEF Leaves, Idle, ServingAlone, CallingAlone, Serving, Calling
      <4>2. proc[q].pc \in ServingAlone \cup CallingAlone /\ proc[q].by = proc'[q].by
        BY <2>1, <4>1 DEF Moves
      <4>3. Holds(q)
        BY <4>2, AloneNames
      <4>4. proc[q].by # r.by
        BY <1>0, <4>1, <4>3 DEF LockInv
      <4> QED BY <2>1, <3>2, <4>2, <4>4 DEF Takes
    <3> QED BY <3>1, <3>2
  <2> QED BY <1>0, <2>1, LocksStep DEF LockInv
<1> QED BY <1>3, <1>4, <1>5

-----------------------------------------------------------------------------
(* Which step is which.                                                    *)
LEMMA RowsSame == UNCHANGED call => AgentsKept
BY DEF AgentsKept

LEMMA RowWritten ==
    ASSUME TypeInv, NEW c \in Calls, NEW s \in CallStatus \ {"NONE"}, NEW l \in 0..8,
           \/ call' = [call EXCEPT ![c] = [status |-> s, agent |-> None, last |-> l]]
           \/ call' = [call EXCEPT ![c].status = s]
           \/ call' = [call EXCEPT ![c].status = s, ![c].last = l]
    PROVE  AgentsKept
BY DEF AgentsKept, TypeInv, TypeOK, WorldOK, CallRow

LEMMA GotoSets ==
    ASSUME TypeInv, NEW p \in Requests, NEW pc, Goto(p, pc)
    PROVE  /\ proc'[p].pc = pc /\ proc'[p].by = proc[p].by
           /\ proc'[p].call = proc[p].call
BY DEF Goto, TypeInv, TypeOK, ProcRecord

LEMMA FinishSets ==
    ASSUME TypeInv, NEW p \in Requests, Finish(p) PROVE proc'[p] = Idle
BY DEF Finish, TypeInv, TypeOK

LEMMA LocksOfAgents == UNCHANGED locks => UNCHANGED <<mediaAgents, outgoingAgents>>
BY DEF locks, mediaLocks, outLocks

(* A request without locks stays without.                                  *)
LEMMA OutsideFinish ==
    ASSUME TypeInv, NEW p \in Requests, ~ Holds(p), UNCHANGED locks,
           \/ Finish(p)
           \/ \E pc \in PCs \ (Serving \cup Calling) : Goto(p, pc)
           \/ UNCHANGED proc
    PROVE  Outside(p)
<1>1. "idle" \notin Serving \cup Calling
  BY DEF Serving, Calling
<1> QED BY <1>1, GotoSets, FinishSets, LocksOfAgents DEF Outside, Idle, Holds

LEMMA ArrivalOutside ==
    ASSUME TypeInv, NEW p \in Requests, NEW c \in Calls,
           \/ Connect(p, c) \/ Terminate(p, c) \/ \E e \in Events : Status(p, c, e)
           \/ \E a \in Agents :
                 \/ ClaimCall(p, a, c) \/ RejectCall(p, a, c) \/ TerminateCall(p, a, c)
                 \/ JoinMedia(p, a, c)
    PROVE  Outside(p) /\ AgentsKept
<1> DEFINE Free == PCs \ (Serving \cup Calling)
<1>1. proc[p] = Idle /\ UNCHANGED locks /\ UNCHANGED call
  BY DEF Connect, Terminate, Status, ClaimCall, RejectCall, TerminateCall, JoinMedia, Deliver,
         MayStart
<1>2. {"create", "connect", "status", "create_ended", "end", "claim", "reject_meta",
       "terminate_meta", "join_claim"} \subseteq Free /\ "idle" \in Free
  BY DEF PCs, Serving, Calling
<1>3. ~ Holds(p)
  BY <1>1, <1>2 DEF Holds, Idle
<1>4. CASE UNCHANGED proc
  BY <1>1, <1>3, <1>4, OutsideFinish, RowsSame
<1>5. CASE ~ UNCHANGED proc
  <2>1. proc'[p].pc \in Free
    <3>0. proc \in [Requests -> ProcRecord]
      BY DEF TypeInv, TypeOK
    <3>1. CASE Connect(p, c)
      <4>1. Start(p, "create", None, c) \/ Start(p, "connect", None, c)
        BY <1>5, <3>1 DEF Connect
      <4>2. proc'[p].pc \in {"create", "connect"}
        BY <3>0, <4>1 DEF Start, Idle
      <4> QED BY <1>2, <4>2
    <3>2. CASE Terminate(p, c)
      <4>1. PICK pc \in {"create_ended", "end"}, to \in {"REJECTED", "ENDED"} :
               proc' = [proc EXCEPT ![p] = [Idle EXCEPT !.pc = pc, !.call = c, !.to = to]]
        BY <1>5, <3>2 DEF Terminate
      <4>2. proc'[p].pc = pc
        BY <3>0, <4>1 DEF Idle
      <4> QED BY <1>2, <4>2
    <3>3. CASE \E e \in Events : Status(p, c, e)
      BY ZenonT(40), <1>2, <1>5, <3>0, <3>3 DEF Status, Idle
    <3>4. CASE \E a \in Agents :
                  \/ ClaimCall(p, a, c) \/ RejectCall(p, a, c) \/ TerminateCall(p, a, c)
                  \/ JoinMedia(p, a, c)
      <4>1. PICK a \in Agents, pc \in {"claim", "reject_meta", "terminate_meta",
                                       "join_claim"} : Start(p, pc, a, c)
        BY <3>4 DEF ClaimCall, RejectCall, TerminateCall, JoinMedia
      <4>2. proc'[p].pc = pc
        BY <3>0, <4>1 DEF Start, Idle
      <4> QED BY <1>2, <4>2
    <3> QED BY <3>1, <3>2, <3>3, <3>4
  <2> QED BY <1>1, <1>3, <2>1, LocksOfAgents, RowsSame DEF Outside
<1> QED BY <1>4, <1>5

LEMMA ArrivalEnters ==
    ASSUME TypeInv, NEW p \in Requests, NEW a \in Agents,
           \/ \E c \in Calls : MediaReady(p, a, c)
           \/ \E v \in Conversations : Initiate(p, a, v)
    PROVE  Enters(p) /\ AgentsKept
<1>1. proc[p] = Idle /\ UNCHANGED call /\ a \notin mediaAgents \cup outgoingAgents
  BY DEF MediaReady, Initiate, MayStart, AgentFree
<1>2. ~ Holds(p)
  BY <1>1 DEF Holds, Idle, Serving, Calling
<1>3. proc \in [Requests -> ProcRecord]
  BY DEF TypeInv, TypeOK
<1>4. ASSUME NEW c \in Calls, MediaReady(p, a, c) PROVE Enters(p)
  <2>1. proc'[p].pc = "find_active" /\ proc'[p].by = a
    BY <1>3, <1>4 DEF MediaReady, Start, Idle
  <2> QED BY <1>1, <1>2, <1>4, <2>1 DEF Enters, MediaReady, outLocks
<1>5. ASSUME NEW v \in Conversations, Initiate(p, a, v) PROVE Enters(p)
  <2>1. proc'[p].pc = "out_agent" /\ proc'[p].by = a
    BY <1>3, <1>5 DEF Initiate, Idle
  <2> QED BY <1>1, <1>2, <1>5, <2>1 DEF Enters, Initiate, mediaLocks
<1> QED BY <1>1, <1>4, <1>5, RowsSame

LEMMA StepOutside ==
    ASSUME TypeInv, NEW p \in Requests,
           \/ CreateRow(p) \/ UpdateConnecting(p) \/ PrepareMedia(p) \/ PrepareFailed(p)
           \/ CreateEnded(p) \/ UpdateStatus(p) \/ UpdateTerminated(p)
           \/ CloseMedia(p) \/ Forget(p) \/ Claim(p) \/ AskMeta(p) \/ UpdateByAgent(p)
           \/ JoinClaim(p) \/ JoinAgent(p)
    PROVE  Outside(p) /\ AgentsKept
<1> DEFINE Free == PCs \ (Serving \cup Calling)
           Updates == UpdateStatus(p) \/ UpdateTerminated(p)
<1>0. proc \in [Requests -> ProcRecord] /\ RequestOK(p)
  BY DEF TypeInv, TypeOK
<1>1. {"create", "connect", "prepare", "prepare_failed", "status", "create_ended", "end",
       "close_media", "forget", "claim", "reject_meta", "terminate_meta", "reject",
       "terminate", "join_claim", "join"} \subseteq Free \ NamesNoCall
  BY DEF PCs, Serving, Calling, NamesNoCall
<1>2. proc[p].pc \in Free \ NamesNoCall
  <2>1. proc[p].pc \in {"create", "connect", "prepare", "prepare_failed", "status",
          "create_ended", "end", "close_media", "forget", "claim", "reject_meta",
          "terminate_meta", "reject", "terminate", "join_claim", "join"}
    BY Zenon DEF CreateRow, UpdateConnecting, PrepareMedia, PrepareFailed, CreateEnded,
       UpdateStatus, UpdateTerminated, CloseMedia, Forget, Claim, AskMeta, UpdateByAgent,
       JoinClaim, JoinAgent, At
  <2> QED BY Zenon, <1>1, <2>1
<1>3. ~ Holds(p) /\ proc[p].call \in Calls
  BY Zenon, <1>0, <1>2, RequestNames DEF Holds
<1>4. UNCHANGED locks
  BY DEF CreateRow, UpdateConnecting, PrepareMedia, PrepareFailed, CreateEnded,
     UpdateStatus, UpdateTerminated, CloseMedia, Forget, Claim, AskMeta, UpdateByAgent,
     JoinClaim, JoinAgent
<1>5. Outside(p)
  <2>1. CASE Finish(p) \/ \E pc \in Free : Goto(p, pc)
    BY <1>3, <1>4, <2>1, OutsideFinish
  <2>2. CASE Updates
    <3>1. proc'[p].pc \in {"idle", "close_media"}
      BY <1>0, <2>2, FinishSets DEF UpdateStatus, UpdateTerminated, Idle, ProcRecord
    <3>2. proc'[p].pc \notin Serving \cup Calling
      BY <3>1 DEF Serving, Calling
    <3> QED BY <1>3, <1>4, <3>2, LocksOfAgents DEF Outside
  <2>3. CASE ~ Updates
    <3>1. Finish(p) \/ \E pc \in {"prepare", "prepare_failed", "close_media", "forget",
                                  "reject", "terminate", "join"} : Goto(p, pc)
      BY <2>3 DEF CreateRow, UpdateConnecting, PrepareMedia, PrepareFailed, CreateEnded,
         CloseMedia, Forget, Claim, AskMeta, UpdateByAgent, JoinClaim, JoinAgent
    <3> QED BY Zenon, <1>1, <2>1, <3>1
  <2> QED BY <2>2, <2>3
<1>6. AgentsKept
  <2>1. CASE UNCHANGED call
    BY <2>1, RowsSame
  <2>2. {"RINGING", "ACTIVE", "REJECTED", "ENDED"} \subseteq CallStatus \ {"NONE"}
    BY DEF CallStatus, LIVE, TERMINAL
  <2>3. CASE ~ UNCHANGED call /\ ~ Updates
    <3>1. PICK s \in {"RINGING", "REJECTED", "ENDED"}, l \in {2, 8} :
             \/ call' = [call EXCEPT ![proc[p].call] =
                            [status |-> s, agent |-> None, last |-> l]]
             \/ call' = [call EXCEPT ![proc[p].call].status = s]
             \/ call' = [call EXCEPT ![proc[p].call].status = s, ![proc[p].call].last = l]
      BY <2>3 DEF CreateRow, UpdateConnecting, PrepareMedia, PrepareFailed, CreateEnded,
         CloseMedia, Forget, Claim, AskMeta, UpdateByAgent, JoinClaim, JoinAgent, Time
    <3>2. l \in 0..8 /\ s \in CallStatus \ {"NONE"}
      BY SMTT(40), <2>2
    <3> QED BY <1>3, <3>1, <3>2, RowWritten
  <2>4. CASE Updates
    <3>1. proc[p].to \in CallStatus \ {"NONE"}
      BY <1>0, <2>2, <2>4 DEF UpdateStatus, UpdateTerminated, At, RequestOK, TERMINAL
    <3>2. PICK l \in {4, 6, 8} : call' = [call EXCEPT ![proc[p].call].status = proc[p].to,
                                                      ![proc[p].call].last = l]
      BY <2>4 DEF UpdateStatus, UpdateTerminated, Time
    <3>3. l \in 0..8
      OBVIOUS
    <3> QED BY <1>3, <3>1, <3>2, <3>3, RowWritten
  <2> QED BY <2>1, <2>3, <2>4
<1> QED BY <1>5, <1>6

(* A request that serves or makes a call.                                  *)
LEMMA ReleaseLeaves ==
    ASSUME TypeInv, NEW p \in Requests, Holds(p), Release(p) \/ OutRelease(p)
    PROVE  Leaves(p)
BY FinishSets DEF Release, OutRelease, Leaves, mediaLocks, outLocks

LEMMA ServingStep ==
    ASSUME TypeInv, NEW p \in Requests, proc[p].pc \in ServingAlone,
           Release(p) \/ Fail(p) \/ \E pc \in Serving : Continue(p, pc)
    PROVE  Serves(p) \/ Leaves(p)
<1>1. proc[p].pc \in Serving /\ Holds(p) /\ "fail_remove" \in Serving
  BY DEF ServingAlone, Serving, Holds
<1>2. CASE Release(p)
  BY <1>1, <1>2, ReleaseLeaves
<1>3. CASE ~ Release(p)
  BY <1>1, <1>3, GotoSets, LocksOfAgents DEF Fail, Continue, Serves
<1> QED BY <1>2, <1>3

LEMMA StepServes ==
    ASSUME TypeInv, NEW p \in Requests,
           \/ FindActive(p) \/ FindCall(p) \/ WaitForAgentReady(p) \/ Recheck(p)
           \/ PreAccept(p) \/ WaitForMetaReady(p) \/ RecheckLive(p) \/ AcceptAtMeta(p)
           \/ SetCurrentAgent(p) \/ FailRemove(p) \/ FailFind(p) \/ FailMeta(p)
           \/ FailClose(p) \/ FailUpdate(p)
    PROVE  (Serves(p) \/ Leaves(p)) /\ AgentsKept
<1>0. proc \in [Requests -> ProcRecord] /\ RequestOK(p) /\ proc[p] \in ProcRecord
  BY DEF TypeInv, TypeOK
<1>1. AgentsKept
  <2>1. CASE FailUpdate(p)
    <3>1. proc[p].call \in Calls /\ "REJECTED" \in CallStatus \ {"NONE"}
      BY <1>0, <2>1, RequestNames DEF FailUpdate, At, NamesNoCall, CallStatus, TERMINAL
    <3>2. 0 \in 0..8
      OBVIOUS
    <3> QED BY <2>1, <3>1, <3>2, RowWritten DEF FailUpdate
  <2>2. CASE ~ FailUpdate(p)
    BY <2>2, RowsSame DEF FindActive, FindCall, WaitForAgentReady, Recheck, PreAccept,
       WaitForMetaReady, RecheckLive, AcceptAtMeta, SetCurrentAgent, FailRemove, FailFind,
       FailMeta, FailClose
  <2> QED BY <2>1, <2>2
<1>2. CASE FindActive(p)
  <2>1. proc[p].pc \in Serving /\ "find_call" \in Serving /\ Holds(p)
    BY <1>2 DEF FindActive, At, Serving, Holds
  <2>2. CASE Release(p)
    BY <1>1, <2>1, <2>2, ReleaseLeaves
  <2>3. CASE ~ Release(p)
    <3>1. LiveOf(proc[p].by) \subseteq {proc[p].call} /\ Continue(p, "find_call")
      BY <1>2, <2>3 DEF FindActive
    <3> QED BY <1>1, <2>1, <3>1, GotoSets, LocksOfAgents DEF Continue, Serves
  <2> QED BY <2>2, <2>3
<1>3. CASE PreAccept(p) \/ AcceptAtMeta(p)
  <2>1. proc[p].pc \in ServingAlone
    BY <1>3 DEF PreAccept, AcceptAtMeta, At, ServingAlone, Serving
  <2>2. CASE Fail(p)
    BY <1>1, <2>1, <2>2, ServingStep
  <2>3. CASE ~ Fail(p)
    <3>1. PICK pc \in {"meta_ready", "meta_ready_again"}, stage \in {"pre", "accepted"} :
             /\ proc' = [proc EXCEPT ![p].pc = pc, ![p].stage = stage]
             /\ UNCHANGED locks
      BY <1>3, <2>3 DEF PreAccept, AcceptAtMeta
    <3>2. proc'[p].pc = pc /\ proc'[p].by = proc[p].by /\ proc'[p].call = proc[p].call
      BY <1>0, <3>1 DEF ProcRecord
    <3>3. pc \in Serving /\ proc[p].pc \in Serving
      BY <2>1 DEF Serving, ServingAlone
    <3> QED BY <1>1, <2>1, <3>1, <3>2, <3>3, LocksOfAgents DEF Serves
  <2> QED BY <2>2, <2>3
<1>4. CASE ~ (FindActive(p) \/ PreAccept(p) \/ AcceptAtMeta(p))
  <2>1. proc[p].pc \in ServingAlone
    BY <1>4 DEF FindCall, WaitForAgentReady, Recheck, WaitForMetaReady, RecheckLive,
       SetCurrentAgent, FailRemove, FailFind, FailMeta, FailClose, FailUpdate, At,
       ServingAlone, Serving
  <2>2. Release(p) \/ Fail(p) \/ \E pc \in Serving : Continue(p, pc)
    BY <1>4 DEF FindCall, WaitForAgentReady, Recheck, WaitForMetaReady, RecheckLive,
       SetCurrentAgent, FailRemove, FailFind, FailMeta, FailClose, FailUpdate, Serving
  <2> QED BY <1>1, <2>1, <2>2, ServingStep
<1> QED BY <1>2, <1>3, <1>4

LEMMA StepMakes ==
    ASSUME TypeInv, NEW p \in Requests,
           \/ FindAgentCall(p) \/ FindConversationCall(p) \/ InitiateAtMeta(p)
           \/ BindSession(p)
    PROVE  (Makes(p) \/ Leaves(p)) /\ AgentsKept
<1>0. proc \in [Requests -> ProcRecord] /\ proc[p] \in ProcRecord
  BY DEF TypeInv, TypeOK
<1>1. AgentsKept
  BY RowsSame DEF FindAgentCall, FindConversationCall, InitiateAtMeta, BindSession
<1>2. proc[p].pc \in Calling /\ Holds(p)
      /\ {"out_conv", "out_meta", "out_bind", "out_create"} \subseteq Calling
  BY DEF FindAgentCall, FindConversationCall, InitiateAtMeta, BindSession, At, Calling, Holds
<1>3. proc[p].pc \in CallingAlone \/ FindAgentCall(p)
  BY DEF FindConversationCall, InitiateAtMeta, BindSession, At, CallingAlone, Calling
<1>4. CASE OutRelease(p)
  BY <1>1, <1>2, <1>4, ReleaseLeaves
<1>5. CASE ~ OutRelease(p)
  <2>1. UNCHANGED <<mediaAgents, outgoingAgents>>
    BY <1>5, LocksOfAgents DEF FindAgentCall, FindConversationCall, InitiateAtMeta,
       BindSession, Continue
  <2>2. proc'[p].by = proc[p].by /\ proc'[p].pc \in Calling
    <3>1. CASE InitiateAtMeta(p)
      BY <1>0, <1>2, <1>5, <3>1 DEF InitiateAtMeta, ProcRecord
    <3>2. CASE ~ InitiateAtMeta(p)
      BY <1>2, <1>5, <3>2, GotoSets DEF FindAgentCall, FindConversationCall, BindSession,
         Continue
    <3> QED BY <3>1, <3>2
  <2>3. proc[p].pc \in CallingAlone \/ LiveOf(proc[p].by) = {}
    BY <1>3, <1>5 DEF FindAgentCall
  <2> QED BY <1>1, <1>2, <2>1, <2>2, <2>3 DEF Makes
<1> QED BY <1>4, <1>5

(* The two steps that give a call to an agent, and a create that fails.    *)
LEMMA StepTakes ==
    ASSUME TypeInv, NEW p \in Requests, Activate(p) \/ CreateOutbound(p)
    PROVE  Takes(p) \/ (Leaves(p) /\ AgentsKept)
<1>0. RequestOK(p) /\ call \in [Calls -> CallRow]
  BY DEF TypeInv, TypeOK, WorldOK
<1>1. /\ proc[p].pc \in ServingAlone \cup CallingAlone /\ Holds(p)
      /\ proc[p].pc \notin NamesNoCall
  BY DEF Activate, CreateOutbound, At, ServingAlone, CallingAlone, Serving, Calling, Holds,
         NamesNoCall
<1>2. proc[p].call \in Calls
  BY <1>0, <1>1, RequestNames
<1>3. Leaves(p)
  BY <1>1, ReleaseLeaves DEF Activate, CreateOutbound
<1>4. CASE UNCHANGED call
  BY <1>3, <1>4, RowsSame
<1>5. CASE ~ UNCHANGED call
  <2>1. /\ call'[proc[p].call].agent = proc[p].by
        /\ call'[proc[p].call].status \in LIVE
        /\ \A c \in Calls \ {proc[p].call} : call'[c] = call[c]
    BY <1>0, <1>2, <1>5 DEF Activate, CreateOutbound, CallRow, LIVE
  <2> QED BY <1>1, <1>3, <2>1 DEF Takes
<1> QED BY <1>4, <1>5

-----------------------------------------------------------------------------
(* The invariant.                                                          *)
LEMMA InitHolders == Init => HoldersInv
<1> SUFFICES ASSUME Init PROVE HoldersInv
  OBVIOUS
<1>1. \A c \in Calls : call[c] = NoRow
  BY DEF Init
<1>2. RowsInv /\ OneLiveCallPerAgent
  BY <1>1 DEF RowsInv, OneLiveCallPerAgent, NoRow, Over, TERMINAL
<1>3. LockInv
  BY DEF Init, LockInv, Idle, Holds, Serving, Calling, ServingAlone, CallingAlone
<1> QED BY <1>2, <1>3 DEF HoldersInv

(* A step that leaves the rows alone, of nobody or of a restart.           *)
LEMMA OtherHolders ==
    ASSUME TypeInv, HoldersInv, TypeInv', UNCHANGED call,
           Remember \/ UNCHANGED past,
           \/ UNCHANGED <<proc, mediaAgents, outgoingAgents>>
           \/ \A p \in Requests : proc'[p] = Idle
    PROVE  HoldersInv'
<1>. USE DEF HoldersInv
<1>1. ASSUME NEW c \in Calls, Current(c)' PROVE Current(c)
  BY <1>1, PastOpen DEF Current, Live
<1>2. RowsInv'
  BY PastOpen DEF RowsInv, Over
<1>3. OneLiveCallPerAgent'
  BY <1>1 DEF OneLiveCallPerAgent
<1>4. LockInv'
  <2>1. CASE UNCHANGED <<proc, mediaAgents, outgoingAgents>>
    BY <1>1, <2>1 DEF LockInv, Holds
  <2>2. CASE \A p \in Requests : proc'[p] = Idle
    BY <2>2 DEF LockInv, Idle, Holds, Serving, Calling, ServingAlone, CallingAlone
  <2> QED BY <2>1, <2>2
<1> QED BY <1>2, <1>3, <1>4

LEMMA RequestHolders ==
    ASSUME TypeInv, HoldersInv, TypeInv', Remember, NEW p \in Requests,
           Arrival(p) \/ Step(p)
    PROVE  HoldersInv'
<1>1. Moves(p)
  BY ArrivalOK, RequestStepOK
<1>2. CASE Arrival(p)
  BY <1>1, <1>2, ArrivalOutside, ArrivalEnters, KeepsHolders DEF Arrival
<1>3. CASE Step(p)
  <2>1. CASE Activate(p) \/ CreateOutbound(p)
    BY <1>1, <2>1, StepTakes, TakesHolders, KeepsHolders
  <2>2. CASE ~ (Activate(p) \/ CreateOutbound(p))
    BY <1>1, <1>3, <2>2, StepOutside, StepServes, StepMakes, KeepsHolders DEF Step
  <2> QED BY <2>1, <2>2
<1> QED BY <1>2, <1>3

LEMMA NextHolders ==
    ASSUME TypeInv, HoldersInv, [Next]_vars PROVE HoldersInv'
<1>0. TypeInv'
  BY NextTypeInv
<1>1. CASE UNCHANGED vars
  BY <1>0, <1>1, OtherHolders DEF vars
<1>2. CASE Next
  <2>1. Remember
    BY <1>2 DEF Next
  <2>2. ASSUME NEW c \in Calls, Customer(c) PROVE HoldersInv'
    BY <1>0, <2>1, <2>2, OtherHolders, LocksOfAgents DEF Customer
  <2>3. CASE Restart
    BY <1>0, <2>1, <2>3, OtherHolders DEF Restart
  <2> QED BY <1>0, <1>2, <2>1, <2>2, <2>3, RequestHolders DEF Next
<1> QED BY <1>1, <1>2

(* No agent has two calls, be they calls it answers (mediaReady) or calls  *)
(* it makes (initiate): for every number of agents, calls, conversations   *)
(* and requests in flight, with webhooks delayed, repeated and reordered,  *)
(* faults of Meta and of the gateway, and restarts of the API process.     *)
(* Rows that were terminal once are outside of it (see Current).           *)
THEOREM NoAgentHasTwoCalls == Spec => []OneLiveCallPerAgent
<1>1. Init => TypeInv /\ HoldersInv
  BY InitTypeInv, InitHolders
<1>2. TypeInv /\ HoldersInv /\ [Next]_vars => (TypeInv /\ HoldersInv)'
  BY NextTypeInv, NextHolders
<1>3. HoldersInv => OneLiveCallPerAgent
  BY DEF HoldersInv
<1> QED BY <1>1, <1>2, <1>3, PTL DEF Spec

=============================================================================
