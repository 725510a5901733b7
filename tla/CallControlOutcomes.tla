------------------------- MODULE CallControlOutcomes -------------------------
(***************************************************************************)
(* How calls end up: the proofs of EndedCallFreesAgent for every instance, *)
(* and of OneOutboundPerConversation, SessionFollowsAgent and              *)
(* AnsweredCallIsServed, which a restart of the API process ends.          *)
(***************************************************************************)
EXTENDS CallControlSafety

(* The parts of a request that a step to another await keeps.              *)
Keeps(p) ==
    /\ proc'[p].by = proc[p].by /\ proc'[p].call = proc[p].call
    /\ proc'[p].conv = proc[p].conv /\ proc'[p].agent = proc[p].agent
    /\ proc'[p].stage = proc[p].stage

LEMMA GotoKeeps ==
    ASSUME TypeInv, NEW p \in Requests, NEW pc, Goto(p, pc)
    PROVE  proc'[p].pc = pc /\ Keeps(p)
BY DEF Goto, TypeInv, TypeOK, ProcRecord, Keeps

LEMMA StartSets ==
    ASSUME TypeInv, NEW p \in Requests, NEW pc, NEW a, NEW c, Start(p, pc, a, c)
    PROVE  /\ proc'[p].pc = pc /\ proc'[p].by = a /\ proc'[p].call = c
           /\ proc'[p].agent = call[c].agent /\ proc'[p].stage = "none"
BY DEF Start, Idle, TypeInv, TypeOK

(* past never forgets.                                                     *)
LEMMA PastMoves ==
    ASSUME TypeInv, Remember, NEW c \in Calls
    PROVE  /\ past[c] # "open" => past'[c] # "open"
           /\ past'[c] # "reopened" => past[c] # "reopened"
           /\ call'[c].status \in TERMINAL => past'[c] # "open"
           /\ past[c] # "open" /\ call'[c].status \in LIVE => past'[c] = "reopened"
           /\ past[c] = "open" /\ call'[c].status \notin TERMINAL => past'[c] = "open"
BY DEF Remember, TypeInv, TypeOK

LEMMA CallOf ==
    ASSUME TypeInv, NEW p \in Requests, proc[p].pc \notin NamesNoCall
    PROVE  proc[p].call \in Calls
BY RequestNames DEF TypeInv

-----------------------------------------------------------------------------
(***************************************************************************)
(* One mediaReady per call.                                                *)
(***************************************************************************)
LEMMA ActivationStep ==
    ASSUME TypeInv, ActivationInv, NEW p \in Requests, Moves(p),
           \/ /\ proc'[p].pc \notin Serving
              /\ \/ activating' = activating
                 \/ /\ proc[p].pc \in Serving
                    /\ activating' = activating \ {proc[p].call}
           \/ /\ proc[p].pc \in Serving /\ proc'[p].call = proc[p].call
              /\ activating' = activating
           \/ /\ proc'[p].call \notin activating
              /\ activating' = activating \cup {proc'[p].call}
    PROVE  ActivationInv'
<1>1. ASSUME NEW q \in Requests, q # p, proc'[q].pc \in Serving
      PROVE  /\ proc[q].pc \in Serving /\ proc'[q].call = proc[q].call
             /\ proc[q].call \in activating /\ proc[q].call \in activating'
             /\ proc[p].pc \in Serving => proc[p].call # proc[q].call
             /\ proc'[p].pc \in Serving => proc'[p].call # proc[q].call
  BY <1>1 DEF ActivationInv, Moves, Working
<1>2. proc'[p].pc \in Serving => proc'[p].call \in activating'
  BY DEF ActivationInv
<1>3. ASSUME NEW q \in Requests, NEW t \in Requests, proc'[q].pc \in Serving,
             proc'[t].pc \in Serving, proc'[t].call = proc'[q].call, t # q
      PROVE  FALSE
  <2>1. q # p /\ t # p
    BY <1>1, <1>3
  <2> QED BY <1>1, <1>3, <2>1 DEF ActivationInv, Working
<1> QED BY <1>1, <1>2, <1>3 DEF ActivationInv, Working

LEMMA IdleNowhere ==
    "idle" \notin Serving \cup Calling \cup Seen \cup Answering \cup Making \cup Closing
BY DEF Serving, Calling, Seen, Answering, Making, Closing, Preparing, Connecting, ServingAlone

LEMMA LocksOfCalls == UNCHANGED locks => activating' = activating
BY DEF locks, mediaLocks

LEMMA ArrivalActivation ==
    ASSUME TypeInv, ActivationInv, NEW p \in Requests, Arrival(p)
    PROVE  ActivationInv'
<1>1. Moves(p)
  BY ArrivalOK
<1>2. ASSUME NEW c \in Calls,
             \/ Connect(p, c) \/ Terminate(p, c) \/ \E e \in Events : Status(p, c, e)
             \/ \E a \in Agents :
                   \/ ClaimCall(p, a, c) \/ RejectCall(p, a, c) \/ TerminateCall(p, a, c)
                   \/ JoinMedia(p, a, c)
      PROVE  ActivationInv'
  <2>1. proc'[p].pc \notin Serving
    BY <1>2, ArrivalOutside DEF Outside
  <2>2. UNCHANGED locks
    BY <1>2 DEF Connect, Terminate, Status, ClaimCall, RejectCall, TerminateCall, JoinMedia,
       Deliver
  <2> QED BY <1>1, <2>1, <2>2, LocksOfCalls, ActivationStep
<1>3. ASSUME NEW c \in Calls, NEW a \in Agents, MediaReady(p, a, c)
      PROVE  ActivationInv'
  <2>1. proc'[p].call = c
    BY <1>3, StartSets DEF MediaReady
  <2> QED BY <1>1, <1>3, <2>1, ActivationStep DEF MediaReady
<1>4. ASSUME NEW a \in Agents, NEW v \in Conversations, Initiate(p, a, v)
      PROVE  ActivationInv'
  <2>1. proc'[p].pc \notin Serving
    BY <1>4 DEF Initiate, TypeInv, TypeOK, Idle, Serving
  <2> QED BY <1>1, <1>4, <2>1, ActivationStep DEF Initiate, mediaLocks
<1> QED BY <1>2, <1>3, <1>4 DEF Arrival

LEMMA StepActivation ==
    ASSUME TypeInv, ActivationInv, NEW p \in Requests, Step(p)
    PROVE  ActivationInv'
<1>1. Moves(p)
  BY RequestStepOK
<1>2. CASE \/ CreateRow(p) \/ UpdateConnecting(p) \/ PrepareMedia(p) \/ PrepareFailed(p)
           \/ CreateEnded(p) \/ UpdateStatus(p) \/ UpdateTerminated(p)
           \/ CloseMedia(p) \/ Forget(p) \/ Claim(p) \/ AskMeta(p) \/ UpdateByAgent(p)
           \/ JoinClaim(p) \/ JoinAgent(p)
  <2>1. proc'[p].pc \notin Serving
    BY Zenon, <1>2, StepOutside DEF Outside
  <2>2. UNCHANGED locks
    BY <1>2 DEF CreateRow, UpdateConnecting, PrepareMedia, PrepareFailed, CreateEnded,
       UpdateStatus, UpdateTerminated, CloseMedia, Forget, Claim, AskMeta, UpdateByAgent,
       JoinClaim, JoinAgent
  <2> QED BY <1>1, <2>1, <2>2, LocksOfCalls, ActivationStep
<1>3. CASE \/ FindActive(p) \/ FindCall(p) \/ WaitForAgentReady(p) \/ Recheck(p)
           \/ PreAccept(p) \/ WaitForMetaReady(p) \/ RecheckLive(p) \/ AcceptAtMeta(p)
           \/ SetCurrentAgent(p) \/ FailRemove(p) \/ FailFind(p) \/ FailMeta(p)
           \/ FailClose(p) \/ FailUpdate(p) \/ Activate(p)
  <2>1. proc[p].pc \in Serving
    BY <1>3 DEF FindActive, FindCall, WaitForAgentReady, Recheck, PreAccept, WaitForMetaReady,
       RecheckLive, AcceptAtMeta, SetCurrentAgent, FailRemove, FailFind, FailMeta, FailClose,
       FailUpdate, Activate, At, Serving
  <2>2. CASE Release(p)
    BY <1>1, <2>1, <2>2, FinishSets, IdleNowhere, ActivationStep DEF Release, Idle
  <2>3. CASE ~ Release(p)
    <3>1. UNCHANGED locks
      BY <1>3, <2>3 DEF FindActive, FindCall, WaitForAgentReady, Recheck, PreAccept,
         WaitForMetaReady, RecheckLive, AcceptAtMeta, SetCurrentAgent, FailRemove, FailFind,
         FailMeta, FailClose, FailUpdate, Activate, Fail, Continue
    <3>2. Serves(p) \/ proc'[p].pc \notin Serving
      BY <1>3, <2>3, StepServes, IdleNowhere DEF Leaves, Idle, Activate
    <3> QED BY Zenon, <1>1, <2>1, <3>1, <3>2, LocksOfCalls, ActivationStep DEF Serves
  <2> QED BY Zenon, <2>2, <2>3
<1>4. CASE \/ FindAgentCall(p) \/ FindConversationCall(p) \/ InitiateAtMeta(p)
           \/ BindSession(p) \/ CreateOutbound(p)
  <2>1. proc'[p].pc \notin Serving
    <3>1. Makes(p) \/ Leaves(p)
      BY <1>4, StepMakes, StepTakes DEF Takes
    <3> QED BY <3>1, IdleNowhere DEF Makes, Leaves, Idle, Serving, Calling
  <2>2. activating' = activating
    BY <1>4 DEF FindAgentCall, FindConversationCall, InitiateAtMeta, BindSession,
       CreateOutbound, Continue, OutRelease, locks, mediaLocks
  <2> QED BY <1>1, <2>1, <2>2, ActivationStep
<1> QED BY <1>2, <1>3, <1>4 DEF Step

-----------------------------------------------------------------------------
(***************************************************************************)
(* What a request has seen of its call.                                    *)
(***************************************************************************)
LEMMA RowsStay ==
    ASSUME TypeInv, NEW p \in Requests, Arrival(p) \/ Step(p), NEW c \in Calls,
           call'[c].status = "NONE"
    PROVE  call'[c] = call[c]
<1>1. AgentsKept \/ Takes(p)
  BY ArrivalOutside, ArrivalEnters, StepOutside, StepServes, StepMakes, StepTakes
     DEF Arrival, Step
<1> QED BY <1>1 DEF AgentsKept, Takes, LIVE

LEMMA ProgressStep ==
    ASSUME TypeInv, ProgressInv, Remember, NEW p \in Requests, Moves(p),
           Arrival(p) \/ Step(p), NEW c, proc'[p].call = c,
           proc'[p].pc \in Seen => call'[c].status # "NONE",
           proc'[p].pc \in Closing => past'[c] # "open",
           proc'[p].pc \in Answering => Inbound(c)
    PROVE  ProgressInv'
<1>1. ASSUME NEW q \in Requests, q # p
      PROVE  /\ proc[q].pc \in Seen => call'[proc[q].call].status # "NONE"
             /\ proc[q].pc \in Closing => past'[proc[q].call] # "open"
             /\ proc[q].pc \in Answering => Inbound(proc[q].call)
  <2>1. proc[q].pc \in Seen \cup Closing => proc[q].pc \notin NamesNoCall
    BY DEF Seen, Closing, Preparing, Connecting, ServingAlone, Serving, NamesNoCall
  <2> QED BY <2>1, CallOf, RowsStay, PastMoves DEF ProgressInv
<1> QED BY <1>1 DEF ProgressInv, Moves, Inbound

LEMMA ArrivalProgress ==
    ASSUME TypeInv, ProgressInv, Remember, NEW p \in Requests, Arrival(p)
    PROVE  ProgressInv'
<1>0. Moves(p) /\ proc \in [Requests -> ProcRecord]
  BY ArrivalOK DEF TypeInv, TypeOK
<1>1. CASE proc'[p].pc \notin Seen \cup Closing \cup Answering
  BY <1>0, <1>1, ProgressStep
<1>2. {"idle", "create", "create_ended", "find_active", "out_agent"}
         \cap (Seen \cup Closing \cup Answering) = {}
  BY DEF Seen, Closing, Answering, Preparing, Connecting, ServingAlone, Serving
<1>3. {"connect", "status", "end", "claim", "reject_meta", "terminate_meta", "join_claim"}
         \cap (Closing \cup Answering) = {}
  BY DEF Closing, Answering
<1>4. ASSUME NEW c \in Calls, call[c].status # "NONE", call' = call, proc'[p].call = c,
             proc'[p].pc \in {"connect", "status", "end", "claim", "reject_meta",
                              "terminate_meta", "join_claim"}
      PROVE  ProgressInv'
  BY <1>0, <1>3, <1>4, ProgressStep
<1>5. ASSUME NEW c \in Calls, NEW a \in Agents,
             \/ ClaimCall(p, a, c) \/ JoinMedia(p, a, c) \/ RejectCall(p, a, c)
             \/ TerminateCall(p, a, c)
      PROVE  ProgressInv'
  <2>1. /\ proc'[p].call = c /\ call[c].status # "NONE" /\ call' = call
        /\ proc'[p].pc \in {"claim", "join_claim", "reject_meta", "terminate_meta"}
    BY <1>5, StartSets DEF ClaimCall, JoinMedia, RejectCall, TerminateCall, Live, LIVE
  <2> QED BY <1>4, <2>1
<1>6. CASE UNCHANGED proc
  <2>1. proc[p] = Idle
    BY <1>6, <1>0, StartSets DEF Arrival, Connect, Status, Terminate, ClaimCall, RejectCall,
       TerminateCall, JoinMedia, MediaReady, Initiate, Deliver, MayStart
  <2> QED BY SMTT(40), <1>1, <1>2, <1>6, <2>1 DEF Idle
<1>7. ASSUME NEW c \in Calls, Connect(p, c), ~ UNCHANGED proc PROVE ProgressInv'
  <2>1. \/ proc'[p].pc = "create"
        \/ proc'[p].pc = "connect" /\ proc'[p].call = c /\ call[c].status # "NONE"
    BY <1>7, StartSets DEF Connect
  <2> QED BY <1>1, <1>2, <1>4, <1>7, <2>1 DEF Connect, Deliver
<1>8. ASSUME NEW c \in Calls, NEW e \in Events, Status(p, c, e), ~ UNCHANGED proc
      PROVE  ProgressInv'
  <2>1. PICK to \in {Mapped(e)} :
           proc' = [proc EXCEPT ![p] = [Idle EXCEPT !.pc = "status", !.call = c, !.to = to]]
    BY <1>8 DEF Status
  <2>2. proc'[p].pc = "status" /\ proc'[p].call = c
    BY <1>0, <2>1 DEF Idle
  <2>3. call[c].status # "NONE" /\ call' = call
    BY <1>8 DEF Status, Deliver, FreshStatus, Live, LIVE
  <2> QED BY <1>4, <2>2, <2>3
<1>9. ASSUME NEW c \in Calls, Terminate(p, c), ~ UNCHANGED proc PROVE ProgressInv'
  <2>1. PICK pc \in {"create_ended", "end"}, to \in {"REJECTED", "ENDED"} :
           /\ proc' = [proc EXCEPT ![p] = [Idle EXCEPT !.pc = pc, !.call = c, !.to = to]]
           /\ pc = "end" => call[c].status # "NONE"
    BY <1>9 DEF Terminate
  <2>2. proc'[p].pc = pc /\ proc'[p].call = c
    BY <1>0, <2>1 DEF Idle
  <2> QED BY <1>1, <1>2, <1>4, <1>9, <2>1, <2>2 DEF Terminate, Deliver
<1>10. ASSUME NEW c \in Calls, NEW a \in Agents, MediaReady(p, a, c) PROVE ProgressInv'
  BY <1>1, <1>2, <1>10, StartSets DEF MediaReady
<1>11. ASSUME NEW a \in Agents, NEW v \in Conversations, Initiate(p, a, v)
       PROVE ProgressInv'
  <2>1. proc'[p].pc = "out_agent"
    BY <1>0, <1>11 DEF Initiate, Idle
  <2> QED BY <1>1, <1>2, <2>1
<1> QED BY <1>5, <1>6, <1>7, <1>8, <1>9, <1>10, <1>11 DEF Arrival

LEMMA StepProgress ==
    ASSUME TypeInv, ProgressInv, Remember, NEW p \in Requests, Step(p)
    PROVE  ProgressInv'
<1> DEFINE c == proc[p].call
<1>0. Moves(p) /\ proc \in [Requests -> ProcRecord]
  BY RequestStepOK DEF TypeInv, TypeOK
<1>1. CASE proc'[p].pc \notin Seen \cup Closing \cup Answering
  BY <1>0, <1>1, ProgressStep
<1>2. CASE proc'[p] = Idle
  BY <1>1, <1>2, IdleNowhere DEF Idle
<1>3. ASSUME NEW pc \in {"find_call", "out_conv", "out_meta", "out_bind", "out_create"},
             proc'[p].pc = pc
      PROVE  ProgressInv'
  <2>1. pc \notin Seen \cup Closing \cup Answering
    BY DEF Seen, Closing, Answering, Preparing, Connecting, ServingAlone, Serving
  <2> QED BY <1>1, <1>3, <2>1
<1>4. CASE CreateRow(p) \/ UpdateConnecting(p)
  <2>1. c \in Calls /\ "prepare" \notin Closing \cup Answering
    BY <1>4, CallOf DEF CreateRow, UpdateConnecting, At, NamesNoCall, Closing, Answering
  <2>2. CASE proc'[p] # Idle
    <3>1. proc'[p].pc = "prepare" /\ proc'[p].call = c
      BY <1>4, <2>2, GotoKeeps, FinishSets DEF CreateRow, UpdateConnecting, Keeps
    <3>2. call'[c].status = "RINGING"
      BY <1>4, <2>1, <2>2, FinishSets DEF CreateRow, UpdateConnecting, TypeInv, TypeOK, WorldOK,
         CallRow
    <3> QED BY <1>0, <2>1, <3>1, <3>2, ProgressStep
  <2> QED BY <1>2, <2>2
<1>5. CASE UpdateStatus(p) \/ UpdateTerminated(p) \/ UpdateByAgent(p) \/ CreateEnded(p)
  <2>1. c \in Calls /\ "close_media" \notin Answering
    BY <1>5, CallOf DEF UpdateStatus, UpdateTerminated, UpdateByAgent, CreateEnded, At,
       NamesNoCall, Answering
  <2>2. CASE proc'[p] # Idle
    <3>1. proc'[p].pc = "close_media" /\ proc'[p].call = c
      BY <1>0, <1>5, <2>2, GotoKeeps, FinishSets DEF UpdateStatus, UpdateTerminated,
         UpdateByAgent, CreateEnded, Keeps, ProcRecord
    <3>2. call'[c].status \in TERMINAL
      BY <1>5, <2>1, <2>2, FinishSets DEF UpdateStatus, UpdateTerminated, UpdateByAgent,
         CreateEnded, TypeInv, TypeOK, WorldOK, CallRow, RequestOK, At, TERMINAL
    <3> QED BY <1>0, <2>1, <3>1, <3>2, ProgressStep, PastMoves DEF TERMINAL
  <2> QED BY <1>2, <2>2
<1>6. CASE CloseMedia(p)
  <2>1. proc[p].pc = "close_media" /\ proc'[p].pc = "forget" /\ proc'[p].call = c
    BY <1>6, GotoKeeps DEF CloseMedia, At, Keeps
  <2>2. c \in Calls /\ call' = call
    BY <1>6, <2>1, CallOf DEF CloseMedia, NamesNoCall
  <2>3. call[c].status # "NONE" /\ past[c] # "open" /\ "forget" \notin Answering
    BY <2>1 DEF ProgressInv, Seen, Closing, Answering
  <2> QED BY <1>0, <2>1, <2>2, <2>3, ProgressStep, PastMoves
<1>7. CASE PrepareMedia(p) \/ JoinClaim(p) \/ AskMeta(p)
  <2>1. CASE proc'[p] # Idle
    <3>1. proc[p].pc \in Seen /\ proc'[p].call = c /\ call' = call
          /\ proc'[p].pc \in {"prepare_failed", "join", "reject", "terminate"}
      BY <1>7, <2>1, GotoKeeps, FinishSets DEF PrepareMedia, JoinClaim, AskMeta, At, Keeps, Seen,
         Preparing
    <3>2. proc'[p].pc \notin Closing \cup Answering
      BY <3>1 DEF Closing, Answering
    <3> QED BY <1>0, <3>1, <3>2, ProgressStep DEF ProgressInv
  <2> QED BY <1>2, <2>1
<1>8. CASE FindCall(p)
  <2>1. CASE proc'[p] # Idle
    <3>1. /\ proc'[p].call = c /\ call' = call /\ call[c].status = "RINGING"
          /\ proc'[p].pc = "wait_agent"
      BY <1>8, <2>1, GotoKeeps, FinishSets DEF FindCall, Continue, Release, Keeps
    <3>2. "wait_agent" \notin Closing \cup Answering
      BY DEF Closing, Answering
    <3> QED BY <1>0, <3>1, <3>2, ProgressStep
  <2> QED BY <1>2, <2>1
<1>9. CASE \/ WaitForAgentReady(p) \/ Recheck(p) \/ PreAccept(p) \/ WaitForMetaReady(p)
           \/ RecheckLive(p) \/ AcceptAtMeta(p) \/ SetCurrentAgent(p) \/ FailRemove(p)
           \/ FailFind(p) \/ FailMeta(p) \/ FailClose(p)
  <2>1. proc[p].pc \in Connecting /\ call' = call
    BY <1>9 DEF WaitForAgentReady, Recheck, PreAccept, WaitForMetaReady, RecheckLive,
       AcceptAtMeta, SetCurrentAgent, FailRemove, FailFind, FailMeta, FailClose, At, Connecting,
       ServingAlone, Serving
  <2>2. CASE proc'[p] # Idle
    <3>1. proc'[p].call = c
      BY <1>0, <1>9, <2>2, GotoKeeps, FinishSets DEF WaitForAgentReady, Recheck, PreAccept,
         WaitForMetaReady, RecheckLive, AcceptAtMeta, SetCurrentAgent, FailRemove, FailFind,
         FailMeta, FailClose, Release, Fail, Continue, Keeps, ProcRecord
    <3>2. proc'[p].pc \in Serving
      BY <1>9, <2>2, StepServes DEF Serves, Leaves
    <3>3. proc'[p].pc \notin Closing
      BY <3>2 DEF Serving, Closing
    <3>4. proc'[p].pc \in Answering => Inbound(c)
      <4>1. CASE proc[p].pc \in Answering
        BY <4>1 DEF ProgressInv
      <4>2. CASE proc[p].pc \notin Answering
        BY <1>0, <1>9, <2>2, <4>2, GotoKeeps, FinishSets DEF WaitForAgentReady, Recheck,
           PreAccept, WaitForMetaReady, RecheckLive, AcceptAtMeta, SetCurrentAgent, FailRemove,
           FailFind, FailMeta, FailClose, Release, Fail, Continue, At, Answering, ProcRecord
      <4> QED BY <4>1, <4>2
    <3> QED BY <1>0, <2>1, <3>1, <3>3, <3>4, ProgressStep DEF ProgressInv, Seen
  <2> QED BY <1>2, <2>2
<1>10. CASE \/ PrepareFailed(p) \/ Forget(p) \/ Claim(p) \/ JoinAgent(p) \/ Activate(p)
            \/ FailUpdate(p) \/ CreateOutbound(p)
  BY <1>2, <1>10, FinishSets DEF PrepareFailed, Forget, Claim, JoinAgent, Activate, FailUpdate,
     CreateOutbound, Release, OutRelease
<1>11. CASE \/ FindActive(p) \/ FindAgentCall(p) \/ FindConversationCall(p)
            \/ InitiateAtMeta(p) \/ BindSession(p)
  <2>1. \/ proc'[p] = Idle
        \/ proc'[p].pc \in {"find_call", "out_conv", "out_meta", "out_bind", "out_create"}
    BY <1>0, <1>11, GotoKeeps, FinishSets DEF FindActive, FindAgentCall,
       FindConversationCall, InitiateAtMeta, BindSession, Release, OutRelease, Continue, ProcRecord
  <2> QED BY <1>2, <1>3, <2>1
<1> QED BY <1>4, <1>5, <1>6, <1>7, <1>8, <1>9, <1>10, <1>11 DEF Step
-----------------------------------------------------------------------------
(***************************************************************************)
(* The presence marks.                                                     *)
(***************************************************************************)
LEMMA TerminateTime == Time("terminate") = 8
BY DEF Time

(* A step that moves no mark, and may report an end.                       *)
LEMMA MarksStep ==
    ASSUME TypeInv, MarksInv, Remember, NEW p \in Requests, Moves(p), UNCHANGED busy,
           \A c \in Calls : call'[c].agent = call[c].agent,
           proc[p].pc # "close_media",
           proc'[p].pc \in Connecting =>
              \/ call[proc'[p].call].agent \in {None, proc'[p].by}
              \/ /\ proc[p].pc \in Connecting
                 /\ proc'[p].call = proc[p].call /\ proc'[p].by = proc[p].by,
           \A c \in Calls : call'[c].last = 8 =>
              \/ call[c].last = 8
              \/ /\ call'[c].status \in TERMINAL
                 /\ \/ call[c].agent = None
                    \/ /\ proc'[p].pc = "close_media" /\ proc'[p].call = c
                       /\ proc'[p].agent = call[c].agent
    PROVE  MarksInv'
<1> SUFFICES ASSUME NEW c \in Calls, past'[c] # "reopened"
             PROVE  /\ \A a \in Agents : c \in busy[a] => call'[c].agent = a
                    /\ \A q \in Requests : proc'[q].pc \in Connecting /\ proc'[q].call = c =>
                          call'[c].agent \in {None, proc'[q].by}
                    /\ call'[c].last = 8 =>
                          /\ past'[c] # "open"
                          /\ \A a \in Agents : c \in busy[a] =>
                                \E q \in Requests :
                                   /\ proc'[q].pc = "close_media" /\ proc'[q].call = c
                                   /\ proc'[q].agent = a
  BY TerminateTime DEF MarksInv, Working
<1>1. /\ \A a \in Agents : c \in busy[a] => call[c].agent = a
      /\ \A q \in Requests : proc[q].pc \in Connecting /\ proc[q].call = c =>
            call[c].agent \in {None, proc[q].by}
      /\ call[c].last = 8 =>
            /\ past[c] # "open"
            /\ \A a \in Agents : c \in busy[a] =>
                  \E q \in Requests : /\ proc[q].pc = "close_media" /\ proc[q].call = c
                                      /\ proc[q].agent = a
  BY PastMoves, TerminateTime DEF MarksInv, Working
<1>2. ASSUME NEW q \in Requests, proc'[q].pc \in Connecting, proc'[q].call = c
      PROVE  call'[c].agent \in {None, proc'[q].by}
  BY <1>1, <1>2 DEF Moves
<1>3. ASSUME call'[c].last = 8 PROVE past'[c] # "open"
  BY <1>1, <1>3, PastMoves
<1>4. ASSUME call'[c].last = 8, NEW a \in Agents, c \in busy[a]
      PROVE  \E q \in Requests : /\ proc'[q].pc = "close_media" /\ proc'[q].call = c
                                 /\ proc'[q].agent = a
  <2>1. CASE call[c].last = 8
    BY <1>1, <1>4, <2>1 DEF Moves
  <2>2. CASE call[c].last # 8
    BY <1>1, <1>4, <2>2, ConstantsAssumption
  <2> QED BY <2>1, <2>2
<1> QED BY <1>1, <1>2, <1>3, <1>4

LEMMA MarksStill ==
    ASSUME TypeInv, MarksInv, Remember \/ UNCHANGED past, UNCHANGED <<call, busy, proc>>
    PROVE  MarksInv'
BY PastMoves DEF MarksInv, Working

(* The end of a call clears the mark of the agent it knows.                *)
LEMMA CloseMediaMarks ==
    ASSUME TypeInv, MarksInv, Remember, NEW p \in Requests, CloseMedia(p)
    PROVE  MarksInv'
<1>0. /\ Moves(p) /\ call' = call /\ proc[p].pc = "close_media"
      /\ proc'[p].pc = "forget" /\ proc'[p].call = proc[p].call /\ proc[p].call \in Calls
  BY RequestStepOK, GotoKeeps, CallOf DEF Step, CloseMedia, At, Keeps, NamesNoCall
<1>1. /\ \A a \in Agents : busy'[a] \subseteq busy[a]
      /\ \A a \in Agents : a = proc[p].agent => proc[p].call \notin busy'[a]
  BY DEF CloseMedia
<1>2. "forget" \notin Connecting
  BY DEF Connecting, ServingAlone, Serving
<1>3. ASSUME NEW c \in Calls, past'[c] # "reopened"
      PROVE  /\ \A a \in Agents : c \in busy'[a] => call[c].agent = a
             /\ \A q \in Requests : Working(q, Connecting, c)' =>
                   call[c].agent \in {None, proc'[q].by}
             /\ call[c].last = Time("terminate") => past'[c] # "open"
  BY <1>0, <1>1, <1>2, <1>3, PastMoves DEF MarksInv, Working, Moves
<1>4. ASSUME NEW c \in Calls, past'[c] # "reopened", call[c].last = Time("terminate"),
             NEW a \in Agents, c \in busy'[a]
      PROVE  \E q \in Requests : Working(q, {"close_media"}, c)' /\ proc'[q].agent = a
  <2>1. PICK q \in Requests : Working(q, {"close_media"}, c) /\ proc[q].agent = a
    BY <1>1, <1>4, PastMoves DEF MarksInv
  <2>2. q # p
    BY <1>1, <1>4, <2>1 DEF Working
  <2> QED BY <1>0, <2>1, <2>2 DEF Working, Moves
<1> QED BY <1>0, <1>3, <1>4 DEF MarksInv

(* The steps that give a call to an agent.                                 *)
LEMMA TakesMarks ==
    ASSUME TypeInv, EndInv, RowsInv, Remember, NEW p \in Requests, NEW c \in Calls,
           c = proc[p].call, proc'[p] = Idle, Moves(p), proc[p].pc # "close_media",
           \A d \in Calls \ {c} : call'[d] = call[d],
           call'[c].status \in LIVE, call'[c].agent = proc[p].by, proc[p].by \in Agents,
           \A q \in Requests \ {p} : ~ Working(q, Connecting, c),
           past[c] = "reopened" \/ call[c].agent \in {None, proc[p].by},
           call'[c].last = 8 => call[c].last = 8,
           busy' = [busy EXCEPT ![proc[p].by] = @ \cup {c}]
    PROVE  MarksInv'
<1>1. "idle" \notin Connecting
  BY DEF Connecting, ServingAlone, Serving
<1>2. busy \in [Agents -> SUBSET Calls]
  BY DEF TypeInv, TypeOK, MemoryOK
<1>3. ASSUME NEW d \in Calls \ {c}, past'[d] # "reopened"
      PROVE  /\ \A a \in Agents : d \in busy'[a] => call'[d].agent = a
             /\ \A q \in Requests : Working(q, Connecting, d)' =>
                   call'[d].agent \in {None, proc'[q].by}
             /\ call'[d].last = Time("terminate") =>
                   /\ past'[d] # "open"
                   /\ \A a \in Agents : d \in busy'[a] =>
                         \E q \in Requests : Working(q, {"close_media"}, d)' /\ proc'[q].agent = a
  <2>1. /\ \A a \in Agents : d \in busy[a] => call[d].agent = a
        /\ \A q \in Requests : Working(q, Connecting, d) => call[d].agent \in {None, proc[q].by}
        /\ call[d].last = Time("terminate") =>
              /\ past[d] # "open"
              /\ \A a \in Agents : d \in busy[a] =>
                    \E q \in Requests : Working(q, {"close_media"}, d) /\ proc[q].agent = a
    BY <1>3, PastMoves DEF EndInv, MarksInv
  <2>2. \A a \in Agents : d \in busy'[a] => d \in busy[a]
    BY <1>2, <1>3
  <2>3. past[d] # "open" => past'[d] # "open"
    BY PastMoves
  <2>4. \A q \in Requests : /\ Working(q, Connecting, d)' => q # p
                            /\ Working(q, {"close_media"}, d) => q # p
    BY <1>1 DEF Working, Idle
  <2>5. \A q \in Requests \ {p} : proc'[q] = proc[q]
    BY DEF Moves
  <2> QED BY <2>1, <2>2, <2>3, <2>4, <2>5, <1>3 DEF Working
<1>4. ASSUME past'[c] # "reopened"
      PROVE  /\ \A a \in Agents : c \in busy'[a] => call'[c].agent = a
             /\ \A q \in Requests : ~ Working(q, Connecting, c)'
             /\ call'[c].last # Time("terminate")
  <2>1. past[c] # "reopened" /\ past[c] = "open"
    BY <1>4, PastMoves
  <2>2. \A a \in Agents : c \in busy'[a] => a = proc[p].by
    BY <1>2, <2>1, ConstantsAssumption DEF EndInv, MarksInv
  <2>3. \A q \in Requests : ~ Working(q, Connecting, c)'
    BY <1>1 DEF Working, Moves, Idle
  <2>4. call'[c].last # Time("terminate")
    BY <2>1, TerminateTime DEF EndInv, MarksInv
  <2> QED BY <2>2, <2>3, <2>4
<1> QED BY <1>3, <1>4 DEF MarksInv
LEMMA ActivateMarks ==
    ASSUME TypeInv, EndInv, RowsInv, Remember, NEW p \in Requests, Activate(p)
    PROVE  MarksInv'
<1> DEFINE c == proc[p].call
<1>0. /\ proc[p].pc = "activate" /\ c \in Calls /\ proc[p].by \in Agents /\ Moves(p)
      /\ proc'[p] = Idle
  BY CallOf, RequestStepOK, FinishSets
     DEF Step, Activate, Release, At, NamesNoCall, TypeInv, RequestOK, Serving
<1>1. proc[p].pc \in Connecting /\ Connecting \subseteq Serving
  BY <1>0 DEF Connecting, ServingAlone, Serving
<1>2. \A q \in Requests \ {p} : ~ Working(q, Connecting, c)
  BY <1>1 DEF EndInv, ActivationInv, Working
<1>3. past[c] = "reopened" \/ call[c].agent \in {None, proc[p].by}
  BY <1>0, <1>1 DEF EndInv, MarksInv, Working
<1>4. /\ \A d \in Calls \ {c} : call'[d] = call[d]
      /\ call'[c].status \in LIVE /\ call'[c].agent = proc[p].by
      /\ call'[c].last = call[c].last
      /\ busy' = [busy EXCEPT ![proc[p].by] = @ \cup {c}]
  BY <1>0 DEF Activate, LIVE, TypeInv, TypeOK, WorldOK, CallRow
<1> QED BY <1>0, <1>2, <1>3, <1>4, TakesMarks

LEMMA CreateOutboundMarks ==
    ASSUME TypeInv, EndInv, RowsInv, Remember, NEW p \in Requests, CreateOutbound(p)
    PROVE  MarksInv'
<1> DEFINE c == proc[p].call
<1>0. /\ proc[p].pc = "out_create" /\ c \in Calls /\ proc[p].by \in Agents /\ Moves(p)
      /\ proc'[p] = Idle
  BY CallOf, RequestStepOK, FinishSets
     DEF Step, CreateOutbound, OutRelease, At, NamesNoCall, TypeInv, RequestOK, Calling
<1>1. CASE call[c].status = "NONE"
  <2>1. \A q \in Requests \ {p} : ~ Working(q, Connecting, c)
    BY <1>1 DEF EndInv, ProgressInv, Seen, Working
  <2>2. call[c].agent \in {None, proc[p].by}
    BY <1>0, <1>1 DEF RowsInv
  <2>3. PICK now \in {1, 5, 7} :
           call' = [call EXCEPT ![c] = [status |-> "RINGING", agent |-> proc[p].by,
                                        last |-> now]]
    BY <1>1 DEF CreateOutbound
  <2>4. /\ \A d \in Calls \ {c} : call'[d] = call[d]
        /\ call'[c].status \in LIVE /\ call'[c].agent = proc[p].by /\ call'[c].last # 8
    BY <1>0, <2>3 DEF LIVE, TypeInv, TypeOK, WorldOK
  <2>5. busy' = [busy EXCEPT ![proc[p].by] = @ \cup {c}]
    BY <1>1 DEF CreateOutbound
  <2> QED BY <1>0, <2>1, <2>2, <2>4, <2>5, TakesMarks
<1>2. CASE call[c].status # "NONE"
  <2>1. UNCHANGED <<call, busy>>
    BY <1>2 DEF CreateOutbound
  <2>2. "idle" \notin Connecting
    BY DEF Connecting, ServingAlone, Serving
  <2> QED BY <1>0, <2>1, <2>2, MarksStep DEF EndInv, Idle
<1> QED BY <1>1, <1>2

(* A step that writes one row, keeps its agent, and does not connect.      *)
LEMMA RowMarks ==
    ASSUME TypeInv, EndInv, RowsInv, Remember, NEW p \in Requests,
           \/ CreateRow(p) \/ UpdateConnecting(p) \/ PrepareFailed(p) \/ UpdateStatus(p)
           \/ CreateEnded(p) \/ UpdateTerminated(p) \/ UpdateByAgent(p) \/ FailUpdate(p)
    PROVE  MarksInv'
<1> DEFINE r == proc[p]
           c == proc[p].call
<1>0. /\ r.pc \in {"create", "connect", "prepare_failed", "status", "create_ended", "end",
                   "reject", "terminate", "fail_update"}
      /\ Moves(p) /\ UNCHANGED busy /\ proc \in [Requests -> ProcRecord]
      /\ call \in [Calls -> CallRow]
  BY RequestStepOK DEF Step, CreateRow, UpdateConnecting, PrepareFailed, UpdateStatus,
     CreateEnded, UpdateTerminated, UpdateByAgent, FailUpdate, At, TypeInv, TypeOK, WorldOK,
     memory
<1>1. c \in Calls /\ r.pc # "close_media"
  BY <1>0, CallOf DEF NamesNoCall
<1>2. proc'[p].pc \in {"idle", "prepare", "close_media"}
  BY <1>0, FinishSets, GotoKeeps DEF CreateRow, UpdateConnecting, PrepareFailed, UpdateStatus,
     CreateEnded, UpdateTerminated, UpdateByAgent, FailUpdate, Release, Idle, ProcRecord
<1>3. proc'[p].pc \notin Connecting
  BY <1>2 DEF Connecting, ServingAlone, Serving
<1>4. \A d \in Calls \ {c} : call'[d] = call[d]
  BY <1>0, <1>1 DEF CreateRow, UpdateConnecting, PrepareFailed, UpdateStatus,
     CreateEnded, UpdateTerminated, UpdateByAgent, FailUpdate
<1>5. call'[c].agent = call[c].agent
  BY <1>0, <1>1 DEF CreateRow, UpdateConnecting, PrepareFailed, UpdateStatus,
     CreateEnded, UpdateTerminated, UpdateByAgent, FailUpdate, RowsInv, CallRow
<1>6. CASE CreateEnded(p)
  <2>1. CASE UNCHANGED call
    BY <1>0, <1>1, <1>3, <2>1, MarksStep DEF EndInv
  <2>2. CASE ~ UNCHANGED call
    <3>1. call'[c].status \in TERMINAL /\ call[c].agent = None
      BY <1>1, <1>0, <1>6, <2>2 DEF CreateEnded, RowsInv, TERMINAL
    <3> QED BY <1>0, <1>1, <1>3, <1>4, <1>5, <3>1, MarksStep DEF EndInv
  <2> QED BY <2>1, <2>2
<1>7. CASE UpdateTerminated(p)
  <2>1. /\ proc'[p].pc = "close_media" /\ proc'[p].call = c /\ proc'[p].agent = call[c].agent
    BY <1>0, <1>7 DEF UpdateTerminated, ProcRecord
  <2>2. call'[c].status \in TERMINAL
    BY <1>0, <1>1, <1>7 DEF UpdateTerminated, TypeInv, RequestOK, At, CallRow
  <2> QED BY <1>0, <1>1, <1>3, <1>4, <1>5, <2>1, <2>2, MarksStep DEF EndInv
<1>8. CASE \/ CreateRow(p) \/ UpdateConnecting(p) \/ PrepareFailed(p) \/ UpdateStatus(p)
           \/ UpdateByAgent(p) \/ FailUpdate(p)
  <2>1. call'[c].last = 8 => call[c].last = 8
    BY <1>0, <1>1, <1>8 DEF CreateRow, UpdateConnecting, PrepareFailed, UpdateStatus,
       UpdateByAgent, FailUpdate, Time, CallRow
  <2> QED BY <1>0, <1>1, <1>3, <1>4, <1>5, <2>1, MarksStep DEF EndInv
<1> QED BY Zenon, <1>6, <1>7, <1>8

LEMMA ArrivalMarks ==
    ASSUME TypeInv, EndInv, RowsInv, Remember, NEW p \in Requests, Arrival(p)
    PROVE  MarksInv'
<1>1. Moves(p)
  BY Zenon, ArrivalOK
<1>2. proc[p] = Idle /\ UNCHANGED <<call, busy>>
  BY DEF Arrival, Connect, Status, Terminate, ClaimCall, RejectCall, TerminateCall, JoinMedia,
     MediaReady, Initiate, Deliver, MayStart, memory
<1>3. proc'[p].pc \notin Connecting
  <2>1. Outside(p) \/ Enters(p)
    BY ArrivalOutside, ArrivalEnters DEF Arrival
  <2> QED BY <2>1 DEF Outside, Enters, Connecting, ServingAlone, Serving
<1> QED BY <1>1, <1>2, <1>3, MarksStep DEF EndInv, Idle

LEMMA StepMarks ==
    ASSUME TypeInv, EndInv, RowsInv, Remember, NEW p \in Requests, Step(p)
    PROVE  MarksInv'
<1>0. Moves(p)
  BY RequestStepOK
<1>1. CASE \/ PrepareMedia(p) \/ Forget(p) \/ Claim(p) \/ AskMeta(p) \/ JoinClaim(p)
           \/ JoinAgent(p)
  <2>1. UNCHANGED <<call, busy>>
    BY <1>1 DEF PrepareMedia, Forget, Claim, AskMeta, JoinClaim, JoinAgent, memory
  <2>2. proc[p].pc # "close_media"
    BY <1>1 DEF PrepareMedia, Forget, Claim, AskMeta, JoinClaim, JoinAgent, At
  <2>3. proc'[p].pc \notin Connecting
    BY <1>1, StepOutside DEF Outside, Connecting, ServingAlone
  <2> QED BY <1>0, <2>1, <2>2, <2>3, MarksStep DEF EndInv
<1>2. CASE \/ FindActive(p) \/ FindAgentCall(p) \/ FindConversationCall(p)
           \/ InitiateAtMeta(p) \/ BindSession(p)
  <2>1. UNCHANGED <<call, busy>>
    BY <1>2 DEF FindActive, FindAgentCall, FindConversationCall, InitiateAtMeta, BindSession,
       memory
  <2>2. proc[p].pc # "close_media"
    BY <1>2 DEF FindActive, FindAgentCall, FindConversationCall, InitiateAtMeta, BindSession, At
  <2>3. proc'[p].pc \notin Connecting
    <3>1. CASE FindActive(p)
      <4>1. proc'[p].pc \in {"find_call", "idle"}
        BY <3>1, GotoKeeps, FinishSets DEF FindActive, Continue, Release, Idle
      <4> QED BY <4>1 DEF Connecting, ServingAlone, Serving
    <3>2. CASE ~ FindActive(p)
      <4>1. Makes(p) \/ Leaves(p)
        BY <1>2, <3>2, StepMakes
      <4> QED BY <4>1 DEF Makes, Leaves, Idle, Connecting, ServingAlone, Serving, Calling
    <3> QED BY <3>1, <3>2
  <2> QED BY <1>0, <2>1, <2>2, <2>3, MarksStep DEF EndInv
<1>3. CASE FindCall(p)
  <2>1. UNCHANGED <<call, busy>> /\ proc[p].pc # "close_media"
    BY <1>3 DEF FindCall, memory, At
  <2>2. CASE Release(p)
    BY <1>0, <2>1, <2>2, FinishSets, IdleNowhere, MarksStep
       DEF EndInv, Release, Idle, Connecting, ServingAlone
  <2>3. CASE ~ Release(p)
    <3>1. call[proc[p].call].agent \in {None, proc[p].by} /\ Keeps(p)
      BY <1>3, <2>3, GotoKeeps DEF FindCall, Continue, Control
    <3> QED BY <1>0, <2>1, <3>1, MarksStep DEF EndInv, Keeps
  <2> QED BY <2>2, <2>3
<1>4. CASE \/ WaitForAgentReady(p) \/ Recheck(p) \/ PreAccept(p) \/ WaitForMetaReady(p)
           \/ RecheckLive(p) \/ AcceptAtMeta(p) \/ SetCurrentAgent(p) \/ FailRemove(p)
           \/ FailFind(p) \/ FailMeta(p) \/ FailClose(p)
  <2>1. UNCHANGED <<call, busy>>
    BY <1>4 DEF WaitForAgentReady, Recheck, PreAccept, WaitForMetaReady, RecheckLive,
       AcceptAtMeta, SetCurrentAgent, FailRemove, FailFind, FailMeta, FailClose, memory
  <2>2. proc[p].pc \in Connecting /\ proc[p].pc # "close_media"
    BY <1>4 DEF WaitForAgentReady, Recheck, PreAccept, WaitForMetaReady, RecheckLive,
       AcceptAtMeta, SetCurrentAgent, FailRemove, FailFind, FailMeta, FailClose, At, Connecting,
       ServingAlone, Serving
  <2>3. Serves(p) \/ Leaves(p)
    BY <1>4, StepServes
  <2>4. \/ proc'[p].pc \notin Connecting
        \/ proc'[p].call = proc[p].call /\ proc'[p].by = proc[p].by
    BY <2>3, IdleNowhere DEF Serves, Leaves, Idle, Connecting, ServingAlone
  <2> QED BY <1>0, <2>1, <2>2, <2>4, MarksStep DEF EndInv
<1> QED BY <1>1, <1>2, <1>3, <1>4, CloseMediaMarks, ActivateMarks, CreateOutboundMarks, RowMarks
        DEF Step, EndInv

-----------------------------------------------------------------------------
(* An end that Meta reported leaves no mark.                               *)
LEMMA InitEnd == Init => EndInv
<1> SUFFICES ASSUME Init PROVE EndInv
  OBVIOUS
<1>1. ActivationInv /\ ProgressInv
  BY IdleNowhere DEF Init, ActivationInv, ProgressInv, Idle
<1>2. MarksInv
  BY IdleNowhere, TerminateTime DEF Init, MarksInv, Working, Idle, NoRow, Connecting,
     ServingAlone
<1> QED BY <1>1, <1>2 DEF EndInv

(* A step that leaves rows and requests alone, or a restart.               *)
LEMMA ActivationStill ==
    ASSUME ActivationInv,
           UNCHANGED <<proc, activating>> \/ \A p \in Requests : proc'[p] = Idle
    PROVE  ActivationInv'
BY IdleNowhere DEF ActivationInv, Working, Idle

LEMMA ProgressStill ==
    ASSUME TypeInv, ProgressInv, Remember \/ UNCHANGED past, UNCHANGED call,
           UNCHANGED proc \/ \A p \in Requests : proc'[p] = Idle
    PROVE  ProgressInv'
<1>1. CASE \A p \in Requests : proc'[p] = Idle
  BY <1>1, IdleNowhere DEF ProgressInv, Idle
<1>2. CASE UNCHANGED proc
  <2>1. \A p \in Requests : proc[p].pc \in Closing => proc[p].call \in Calls
    BY CallOf DEF Closing, NamesNoCall
  <2> QED BY <1>2, <2>1, PastMoves DEF ProgressInv, Inbound
<1> QED BY <1>1, <1>2

LEMMA RestartMarks ==
    ASSUME TypeInv, MarksInv, Remember, Restart PROVE MarksInv'
<1>1. /\ \A p \in Requests : proc'[p] = Idle
      /\ \A a \in Agents : busy'[a] = {}
      /\ call' = call
  BY DEF Restart
<1> QED BY <1>1, IdleNowhere, PastMoves
        DEF MarksInv, Working, Idle, Connecting, ServingAlone

LEMMA NextEnd ==
    ASSUME TypeInv, RowsInv, EndInv, [Next]_vars PROVE EndInv'
<1>1. CASE UNCHANGED vars
  BY <1>1, ActivationStill, ProgressStill, MarksStill DEF vars, EndInv
<1>2. CASE Next
  <2>1. Remember
    BY <1>2 DEF Next
  <2>2. ASSUME NEW c \in Calls, Customer(c) PROVE EndInv'
    BY <2>1, <2>2, ActivationStill, ProgressStill, MarksStill, LocksOfCalls
       DEF Customer, EndInv, memory
  <2>3. CASE Restart
    BY <2>1, <2>3, ActivationStill, ProgressStill, RestartMarks DEF Restart, EndInv
  <2>4. ASSUME NEW p \in Requests, Arrival(p) PROVE EndInv'
    BY <2>1, <2>4, ArrivalActivation, ArrivalProgress, ArrivalMarks DEF EndInv
  <2>5. ASSUME NEW p \in Requests, Step(p) PROVE EndInv'
    BY <2>1, <2>5, StepActivation, StepProgress, StepMarks DEF EndInv
  <2> QED BY <1>2, <2>2, <2>3, <2>4, <2>5 DEF Next
<1> QED BY <1>1, <1>2

(* Once Meta's terminate is recorded and nothing of the call is under way, *)
(* no agent is marked busy for it: for every instance, with webhooks       *)
(* delayed, repeated and reordered, clean-ups that fail, and restarts.  A  *)
(* mark belongs to the row's agent; whoever records the end reads that     *)
(* agent in the same step, and until its clean-up has run it is under way. *)
THEOREM EndedCallsFreeTheirAgents == Spec => []EndedCallFreesAgent
<1>1. Init => TypeInv /\ HoldersInv /\ EndInv
  BY InitTypeInv, InitHolders, InitEnd
<1>2. TypeInv /\ HoldersInv /\ EndInv /\ [Next]_vars => (TypeInv /\ HoldersInv /\ EndInv)'
  BY NextTypeInv, NextHolders, NextEnd DEF HoldersInv
<1>3. EndInv => EndedCallFreesAgent
  BY DEF EndInv, MarksInv, EndedCallFreesAgent, Quiet, Working
<1> QED BY <1>1, <1>2, <1>3, PTL DEF Spec

-----------------------------------------------------------------------------
(***************************************************************************)
(* Rows, webhooks and Meta.                                                *)
(***************************************************************************)
(* Where a request starts, and that no later step leads back there.        *)
Entrances == {"create", "connect", "status", "create_ended", "end", "claim", "reject_meta",
              "terminate_meta", "join_claim", "find_active", "out_agent"}

LEMMA ArrivalPcs ==
    ASSUME TypeInv, NEW p \in Requests, Arrival(p)
    PROVE  proc[p] = Idle /\ (proc'[p] = Idle \/ proc'[p].pc \in Entrances)
<1>0. proc \in [Requests -> ProcRecord]
  BY Zenon DEF TypeInv, TypeOK
<1>1. proc[p] = Idle
  BY ZenonT(40) DEF Arrival, Connect, Status, Terminate, ClaimCall, RejectCall, TerminateCall, JoinMedia,
     MediaReady, Initiate, Deliver, MayStart
<1>2. CASE UNCHANGED proc
  BY <1>1, <1>2
<1>3. CASE ~ UNCHANGED proc
  <2>1. ASSUME NEW c \in Calls, \/ Connect(p, c)
                                \/ \E a \in Agents :
                                      \/ ClaimCall(p, a, c) \/ RejectCall(p, a, c)
                                      \/ TerminateCall(p, a, c) \/ JoinMedia(p, a, c)
                                      \/ MediaReady(p, a, c)
        PROVE  proc'[p].pc \in Entrances
    BY <1>3, <2>1, StartSets DEF Connect, ClaimCall, RejectCall, TerminateCall, JoinMedia,
       MediaReady, Entrances
  <2>2. ASSUME NEW c \in Calls, NEW e \in Events, Status(p, c, e)
        PROVE  proc'[p].pc \in Entrances
    <3>1. PICK to \in {Mapped(e)} :
             proc' = [proc EXCEPT ![p] = [Idle EXCEPT !.pc = "status", !.call = c, !.to = to]]
      BY <1>3, <2>2 DEF Status
    <3> QED BY <1>0, <3>1 DEF Idle, Entrances
  <2>3. ASSUME NEW c \in Calls, Terminate(p, c) PROVE proc'[p].pc \in Entrances
    <3>1. PICK pc \in {"create_ended", "end"}, to \in {"REJECTED", "ENDED"} :
             proc' = [proc EXCEPT ![p] = [Idle EXCEPT !.pc = pc, !.call = c, !.to = to]]
      BY <1>3, <2>3 DEF Terminate
    <3> QED BY <1>0, <3>1 DEF Idle, Entrances
  <2>4. ASSUME NEW a \in Agents, NEW v \in Conversations, Initiate(p, a, v)
        PROVE  proc'[p].pc \in Entrances
    BY <1>0, <2>4 DEF Initiate, Idle, Entrances
  <2> QED BY <1>1, <2>1, <2>2, <2>3, <2>4 DEF Arrival
<1> QED BY <1>2, <1>3

LEMMA StepPcs ==
    ASSUME TypeInv, NEW p \in Requests, Step(p)
    PROVE  proc[p].pc # "idle" /\ proc'[p].pc \notin Entrances
<1>0. proc \in [Requests -> ProcRecord] /\ "idle" \notin Entrances
  BY DEF TypeInv, TypeOK, Entrances
<1>1. CASE proc'[p] = Idle
  <2>1. proc'[p].pc \notin Entrances
    BY <1>0, <1>1 DEF Idle
  <2>2. CASE \/ CreateRow(p) \/ UpdateConnecting(p) \/ PrepareMedia(p) \/ PrepareFailed(p)
             \/ UpdateStatus(p) \/ CreateEnded(p) \/ UpdateTerminated(p) \/ CloseMedia(p)
             \/ Forget(p) \/ Claim(p) \/ AskMeta(p) \/ UpdateByAgent(p) \/ JoinClaim(p)
             \/ JoinAgent(p)
    BY Zenon, <2>1, <2>2 DEF At, CreateRow, UpdateConnecting, PrepareMedia, PrepareFailed,
       UpdateStatus, CreateEnded, UpdateTerminated, CloseMedia, Forget, Claim, AskMeta,
       UpdateByAgent, JoinClaim, JoinAgent
  <2>3. CASE \/ FindActive(p) \/ FindCall(p) \/ WaitForAgentReady(p) \/ Recheck(p)
             \/ PreAccept(p) \/ WaitForMetaReady(p) \/ RecheckLive(p) \/ AcceptAtMeta(p)
             \/ SetCurrentAgent(p) \/ Activate(p) \/ FailRemove(p) \/ FailFind(p)
             \/ FailMeta(p) \/ FailClose(p) \/ FailUpdate(p)
    BY <2>1, <2>3 DEF At, FindActive, FindCall, WaitForAgentReady, Recheck,
       PreAccept, WaitForMetaReady, RecheckLive, AcceptAtMeta, SetCurrentAgent, Activate,
       FailRemove, FailFind, FailMeta, FailClose, FailUpdate
  <2>4. CASE \/ FindAgentCall(p) \/ FindConversationCall(p) \/ InitiateAtMeta(p)
             \/ BindSession(p) \/ CreateOutbound(p)
    BY <2>1, <2>4 DEF At, FindAgentCall, FindConversationCall, InitiateAtMeta, BindSession,
       CreateOutbound
  <2> QED BY <2>2, <2>3, <2>4 DEF Step
<1>2. CASE proc'[p] # Idle
  <2>0. ~ Finish(p) /\ ~ Release(p) /\ ~ OutRelease(p)
    BY <1>2, FinishSets DEF Release, OutRelease
  <2>1. CASE \/ CreateRow(p) \/ UpdateConnecting(p) \/ PrepareMedia(p) \/ PrepareFailed(p)
             \/ UpdateStatus(p) \/ CreateEnded(p) \/ UpdateTerminated(p) \/ CloseMedia(p)
             \/ Forget(p) \/ Claim(p) \/ AskMeta(p) \/ UpdateByAgent(p) \/ JoinClaim(p)
             \/ JoinAgent(p)
    <3>1. proc'[p].pc \in {"prepare", "prepare_failed", "close_media", "forget", "reject",
                           "terminate", "join"}
      BY Zenon, <1>0, <2>0, <2>1, GotoKeeps DEF CreateRow, UpdateConnecting, PrepareMedia, PrepareFailed,
         UpdateStatus, CreateEnded, UpdateTerminated, CloseMedia, Forget, Claim, AskMeta,
         UpdateByAgent, JoinClaim, JoinAgent, ProcRecord
    <3>2. proc[p].pc # "idle"
      BY <2>1 DEF At, CreateRow, UpdateConnecting, PrepareMedia, PrepareFailed,
         UpdateStatus, CreateEnded, UpdateTerminated, CloseMedia, Forget, Claim, AskMeta,
         UpdateByAgent, JoinClaim, JoinAgent
    <3> QED BY <3>1, <3>2 DEF Entrances
  <2>2. CASE \/ FindActive(p) \/ FindCall(p) \/ WaitForAgentReady(p) \/ Recheck(p)
             \/ PreAccept(p) \/ WaitForMetaReady(p) \/ RecheckLive(p) \/ AcceptAtMeta(p)
             \/ SetCurrentAgent(p) \/ Activate(p) \/ FailRemove(p) \/ FailFind(p)
             \/ FailMeta(p) \/ FailClose(p) \/ FailUpdate(p)
    <3>1. proc'[p].pc \in Serving \ {"find_active"}
      BY SMTT(40), <1>0, <2>0, <2>2, GotoKeeps DEF FindActive, FindCall, WaitForAgentReady, Recheck,
         PreAccept, WaitForMetaReady, RecheckLive, AcceptAtMeta, SetCurrentAgent, Activate,
         FailRemove, FailFind, FailMeta, FailClose, FailUpdate, Fail, Continue, ProcRecord,
         Serving
    <3>2. proc[p].pc # "idle"
      BY <2>2 DEF At, FindActive, FindCall, WaitForAgentReady, Recheck,
         PreAccept, WaitForMetaReady, RecheckLive, AcceptAtMeta, SetCurrentAgent, Activate,
         FailRemove, FailFind, FailMeta, FailClose, FailUpdate
    <3> QED BY <3>1, <3>2 DEF Entrances, Serving
  <2>3. CASE \/ FindAgentCall(p) \/ FindConversationCall(p) \/ InitiateAtMeta(p)
             \/ BindSession(p) \/ CreateOutbound(p)
    <3>1. proc'[p].pc \in {"out_conv", "out_meta", "out_bind", "out_create"}
      BY <1>0, <2>0, <2>3, GotoKeeps DEF FindAgentCall, FindConversationCall, InitiateAtMeta,
         BindSession, CreateOutbound, Continue, ProcRecord
    <3>2. proc[p].pc # "idle"
      BY <2>3 DEF At, FindAgentCall, FindConversationCall, InitiateAtMeta, BindSession,
         CreateOutbound
    <3> QED BY <3>1, <3>2 DEF Entrances
  <2> QED BY <2>1, <2>2, <2>3 DEF Step
<1> QED BY <1>1, <1>2

(* A call known to Meta stays known, and initiate makes one known, which a *)
(* lost answer leaves without a request.                                   *)
LEMMA MetaMoves ==
    ASSUME TypeInv, NEW p \in Requests, Arrival(p) \/ Step(p), NEW c \in Calls
    PROVE  /\ meta[c] # "none" => meta'[c] # "none"
           /\ meta'[c] = "none" => due'[c] \subseteq due[c]
           /\ meta[c] = "none" /\ meta'[c] # "none" /\ ~ Faults =>
                 c \in Outbound /\ Working(p, Making, c)'
<1>0. /\ proc \in [Requests -> ProcRecord] /\ RequestOK(p)
      /\ meta \in [Calls -> {"none", "ringing", "accepted", "over"}]
      /\ due \in [Calls -> SUBSET Events]
  BY DEF TypeInv, TypeOK, WorldOK
<1>1. CASE Arrival(p)
  <2>1. ASSUME NEW d \in Calls, NEW e \in Events, Deliver(p, d, e)
        PROVE  meta' = meta /\ due'[c] \subseteq due[c]
    BY <1>0, <2>1 DEF Deliver
  <2>2. "connect" \in Events /\ "terminate" \in Events
    BY DEF Events
  <2>3. ASSUME NEW d \in Calls,
               Connect(p, d) \/ Terminate(p, d) \/ \E e \in Events : Status(p, d, e)
        PROVE  meta' = meta /\ due'[c] \subseteq due[c]
    BY <2>1, <2>2, <2>3 DEF Connect, Terminate, Status
  <2>4. CASE UNCHANGED world
    BY <2>4 DEF world
  <2>5. CASE ~ UNCHANGED world
    BY <1>1, <2>3, <2>5 DEF Arrival, ClaimCall, RejectCall, TerminateCall, JoinMedia,
       MediaReady, Initiate
  <2> QED BY <2>4, <2>5
<1>2. CASE AskMeta(p) \/ AcceptAtMeta(p) \/ FailMeta(p)
  <2>1. proc[p].call \in Calls
    BY <1>2, CallOf DEF AskMeta, AcceptAtMeta, FailMeta, At, NamesNoCall
  <2>2. \/ UNCHANGED world
        \/ \E s \in {"accepted", "over"}, e \in SUBSET Events : Post(proc[p].call, s, e)
    BY <1>2 DEF AskMeta, AcceptAtMeta, FailMeta, HangUp, Events
  <2>3. CASE UNCHANGED world
    BY <2>3 DEF world
  <2>4. ASSUME NEW s \in {"accepted", "over"}, NEW e \in SUBSET Events,
               Post(proc[p].call, s, e)
        PROVE  /\ meta'[proc[p].call] # "none"
               /\ \A d \in Calls \ {proc[p].call} : meta'[d] = meta[d] /\ due'[d] = due[d]
    BY <1>0, <2>1, <2>4 DEF Post
  <2>5. meta[proc[p].call] # "none" \/ UNCHANGED world
    BY <1>2 DEF AskMeta, AcceptAtMeta, FailMeta, HangUp
  <2> QED BY <2>2, <2>3, <2>4, <2>5
<1>3. CASE InitiateAtMeta(p)
  <2>1. CASE UNCHANGED world
    BY <2>1 DEF world
  <2>2. CASE ~ UNCHANGED world
    <3>1. PICK d \in Outbound :
             /\ meta[d] = "none" /\ Post(d, "ringing", {"connect", "ringing"})
             /\ Faults \/ proc' = [proc EXCEPT ![p].pc = "out_bind", ![p].call = d]
      BY <1>3, <2>2 DEF InitiateAtMeta
    <3>2. d \in Calls /\ (~ Faults => proc'[p].pc = "out_bind" /\ proc'[p].call = d)
      BY <1>0, <3>1, ConstantsAssumption DEF ProcRecord
    <3> QED BY <1>0, <3>1, <3>2 DEF Post, Working, Making
  <2> QED BY <2>1, <2>2
<1>4. CASE Step(p) /\ ~ (AskMeta(p) \/ AcceptAtMeta(p) \/ FailMeta(p) \/ InitiateAtMeta(p))
  <2>1. UNCHANGED world
    BY <1>4 DEF Step, CreateRow, UpdateConnecting, PrepareMedia, PrepareFailed,
       UpdateStatus, CreateEnded, UpdateTerminated, CloseMedia, Forget, Claim,
       UpdateByAgent, JoinClaim, JoinAgent, FindActive, FindCall, WaitForAgentReady, Recheck,
       PreAccept, WaitForMetaReady, RecheckLive, SetCurrentAgent, Activate,
       FailRemove, FailFind, FailClose, FailUpdate, FindAgentCall,
       FindConversationCall, BindSession, CreateOutbound
  <2> QED BY Zenon, <2>1 DEF world
<1> QED BY <1>1, <1>2, <1>3, <1>4

(* Who may create a row.                                                   *)
LEMMA RowsArise ==
    ASSUME TypeInv, ProgressInv, NEW p \in Requests, Arrival(p) \/ Step(p), NEW c \in Calls,
           call[c].status = "NONE", call'[c].status # "NONE"
    PROVE  Working(p, {"create", "create_ended", "out_create"}, c)
<1>0. RequestOK(p) /\ call \in [Calls -> CallRow]
  BY DEF TypeInv, TypeOK, WorldOK
<1>1. ~ UNCHANGED call
  OBVIOUS
<1>2. CASE \/ UpdateConnecting(p) \/ PrepareFailed(p) \/ UpdateStatus(p)
           \/ UpdateTerminated(p) \/ UpdateByAgent(p) \/ FailUpdate(p) \/ Activate(p)
  <2>1. proc[p].pc \in Seen
    BY Zenon, <1>2 DEF UpdateConnecting, PrepareFailed, UpdateStatus, UpdateTerminated, UpdateByAgent,
       FailUpdate, Activate, At, Seen, Preparing, Connecting, ServingAlone, Serving
  <2>2. \A d \in Calls \ {proc[p].call} : call'[d] = call[d]
    BY <1>0, <1>2 DEF UpdateConnecting, PrepareFailed, UpdateStatus, UpdateTerminated,
       UpdateByAgent, FailUpdate, Activate
  <2> QED BY Zenon, <2>1, <2>2 DEF ProgressInv
<1>3. CASE CreateRow(p) \/ CreateEnded(p) \/ CreateOutbound(p)
  BY Zenon, <1>0, <1>3 DEF CreateRow, CreateEnded, CreateOutbound, At, Working
<1>4. CASE Arrival(p)
  BY ZenonT(40), <1>1, <1>4 DEF Arrival, Connect, Status, Terminate, ClaimCall, RejectCall, TerminateCall,
     JoinMedia, MediaReady, Initiate, Deliver
<1>5. CASE \/ PrepareMedia(p) \/ CloseMedia(p) \/ Forget(p) \/ Claim(p) \/ AskMeta(p)
           \/ JoinClaim(p) \/ JoinAgent(p) \/ FindActive(p) \/ FindCall(p)
           \/ WaitForAgentReady(p) \/ Recheck(p) \/ PreAccept(p) \/ WaitForMetaReady(p)
           \/ RecheckLive(p) \/ AcceptAtMeta(p) \/ SetCurrentAgent(p) \/ FailRemove(p)
           \/ FailFind(p) \/ FailMeta(p) \/ FailClose(p) \/ FindAgentCall(p)
           \/ FindConversationCall(p) \/ InitiateAtMeta(p) \/ BindSession(p)
  BY <1>1, <1>5 DEF PrepareMedia, CloseMedia, Forget, Claim, AskMeta, JoinClaim, JoinAgent,
     FindActive, FindCall, WaitForAgentReady, Recheck, PreAccept, WaitForMetaReady, RecheckLive,
     AcceptAtMeta, SetCurrentAgent, FailRemove, FailFind, FailMeta, FailClose, FindAgentCall,
     FindConversationCall, InitiateAtMeta, BindSession
<1> QED BY <1>2, <1>3, <1>4, <1>5 DEF Step

(* How a request comes to make a call.                                     *)
Finds(p) ==
    /\ InitiateAtMeta(p) /\ proc[p].pc = "out_meta" /\ proc'[p].pc = "out_bind"
    /\ proc'[p].by = proc[p].by /\ proc'[p].conv = proc[p].conv
    /\ proc'[p].call \in Outbound /\ ConvOf[proc'[p].call] = proc[p].conv
    /\ meta[proc'[p].call] = "none" /\ meta'[proc'[p].call] # "none"

Binds(p) ==
    /\ BindSession(p) /\ proc[p].pc = "out_bind" /\ proc'[p].pc = "out_create" /\ Keeps(p)

LEMMA IntoMaking ==
    ASSUME TypeInv, NEW p \in Requests, Arrival(p) \/ Step(p), proc'[p].pc \in Making
    PROVE  Finds(p) \/ Binds(p)
<1>0. /\ proc \in [Requests -> ProcRecord]
      /\ meta \in [Calls -> {"none", "ringing", "accepted", "over"}]
  BY DEF TypeInv, TypeOK, WorldOK
<1>1. "idle" \notin Making /\ Making \cap Entrances = {} /\ Making \cap Serving = {}
      /\ Making \subseteq Calling
  BY DEF Making, Entrances, Serving, Calling
<1>2. ~ Arrival(p) /\ proc'[p] # Idle
  BY <1>1, ArrivalPcs DEF Idle
<1>3. FindAgentCall(p) \/ FindConversationCall(p) \/ InitiateAtMeta(p) \/ BindSession(p)
  <2>1. ~ Outside(p) /\ ~ Serves(p) /\ ~ Leaves(p)
    BY <1>1, <1>2 DEF Outside, Serves, Leaves
  <2> QED BY <1>2, <2>1, StepOutside, StepServes, StepTakes DEF Step, Takes
<1>4. ~ OutRelease(p)
  BY <1>2, FinishSets DEF OutRelease
<1>5. CASE FindAgentCall(p) \/ FindConversationCall(p)
  <2>1. proc'[p].pc \in {"out_conv", "out_meta"}
    BY <1>4, <1>5, GotoKeeps DEF FindAgentCall, FindConversationCall, Continue
  <2> QED BY <2>1 DEF Making
<1>6. CASE InitiateAtMeta(p)
  <2>1. PICK d \in Outbound :
           /\ ConvOf[d] = proc[p].conv /\ meta[d] = "none"
           /\ Post(d, "ringing", {"connect", "ringing"})
           /\ proc' = [proc EXCEPT ![p].pc = "out_bind", ![p].call = d]
    BY <1>4, <1>6 DEF InitiateAtMeta
  <2>2. /\ proc'[p].pc = "out_bind" /\ proc'[p].call = d /\ d \in Calls
        /\ proc'[p].by = proc[p].by /\ proc'[p].conv = proc[p].conv
    BY <1>0, <2>1, ConstantsAssumption DEF ProcRecord
  <2>3. meta'[d] # "none"
    BY <1>0, <2>1, <2>2 DEF Post
  <2> QED BY <1>6, <2>1, <2>2, <2>3 DEF Finds, InitiateAtMeta, At
<1>7. CASE BindSession(p)
  BY <1>4, <1>7, GotoKeeps DEF BindSession, Continue, At, Binds
<1> QED BY <1>3, <1>5, <1>6, <1>7

LEMMA KnownRequest ==
    ASSUME TypeInv, ProgressInv, KnownInv, NEW p \in Requests, Arrival(p) \/ Step(p)
    PROVE  KnownInv'
<1>0. Moves(p)
  BY ArrivalOK, RequestStepOK
<1>1. ASSUME NEW c \in Calls, meta'[c] = "none" PROVE due'[c] = {} /\ call'[c].status = "NONE"
  <2>1. meta[c] = "none" /\ due'[c] \subseteq due[c]
    BY <1>1, MetaMoves
  <2>2. due[c] = {} /\ call[c].status = "NONE"
    BY <2>1 DEF KnownInv
  <2>3. ~ Working(p, {"create", "create_ended", "out_create"}, c)
    BY <2>1 DEF KnownInv, Working, Making
  <2> QED BY <2>1, <2>2, <2>3, RowsArise
<1>2. ASSUME NEW q \in Requests, q # p
      PROVE  /\ proc'[q].pc \in {"create", "create_ended"} \cup Making =>
                   meta'[proc'[q].call] # "none"
             /\ proc'[q].pc \in Making =>
                   proc'[q].call \in Outbound /\ ConvOf[proc'[q].call] = proc'[q].conv
  <2>1. proc'[q] = proc[q]
    BY <1>0, <1>2 DEF Moves
  <2>2. proc[q].pc \in {"create", "create_ended"} \cup Making => proc[q].call \in Calls
    BY CallOf DEF Making, NamesNoCall
  <2> QED BY <2>1, <2>2, MetaMoves DEF KnownInv
<1>3. ASSUME proc'[p].pc \in {"create", "create_ended"} PROVE meta'[proc'[p].call] # "none"
  <2>1. Arrival(p) /\ proc'[p] # Idle /\ proc' \in [Requests -> ProcRecord]
    BY <1>0, <1>3, StepPcs DEF Entrances, Idle, Moves
  <2>2. proc \in [Requests -> ProcRecord] /\ proc[p] = Idle
    BY <2>1, ArrivalPcs DEF TypeInv, TypeOK
  <2>3. PICK c \in Calls : Connect(p, c) \/ Terminate(p, c)
    <3>1. ASSUME NEW c \in Calls, \E e \in Events : Status(p, c, e) PROVE FALSE
      <4>1. PICK e \in Events : Status(p, c, e)
        BY <3>1
      <4>2. PICK to \in {Mapped(e)} :
               proc' = [proc EXCEPT ![p] = [Idle EXCEPT !.pc = "status", !.call = c, !.to = to]]
        BY <2>1, <2>2, <4>1 DEF Status
      <4> QED BY <1>3, <2>2, <4>2 DEF Idle
    <3>2. ASSUME NEW c \in Calls, NEW a \in Agents,
                 \/ ClaimCall(p, a, c) \/ RejectCall(p, a, c) \/ TerminateCall(p, a, c)
                 \/ JoinMedia(p, a, c) \/ MediaReady(p, a, c)
          PROVE  FALSE
      BY <1>3, <3>2, StartSets DEF ClaimCall, RejectCall, TerminateCall, JoinMedia, MediaReady
    <3>3. ASSUME NEW a \in Agents, NEW v \in Conversations, Initiate(p, a, v) PROVE FALSE
      BY <1>3, <2>2, <3>3 DEF Initiate, Idle
    <3> QED BY <2>1, <3>1, <3>2, <3>3 DEF Arrival
  <2>4. \E e \in Events : Deliver(p, c, e)
    BY <2>3 DEF Connect, Terminate, Events
  <2>5. meta[c] # "none" /\ meta' = meta
    BY <2>4 DEF KnownInv, Deliver
  <2>6. proc'[p].call = c
    <3>1. CASE Connect(p, c)
      BY <2>1, <2>2, <3>1, StartSets DEF Connect
    <3>2. CASE Terminate(p, c)
      <4>1. PICK pc \in {"create_ended", "end"}, to \in {"REJECTED", "ENDED"} :
               proc' = [proc EXCEPT ![p] = [Idle EXCEPT !.pc = pc, !.call = c, !.to = to]]
        BY <2>1, <2>2, <3>2 DEF Terminate
      <4> QED BY <2>2, <4>1 DEF Idle
    <3> QED BY <2>3, <3>1, <3>2
  <2> QED BY <2>5, <2>6
<1>4. ASSUME proc'[p].pc \in Making
      PROVE  /\ meta'[proc'[p].call] # "none"
             /\ proc'[p].call \in Outbound /\ ConvOf[proc'[p].call] = proc'[p].conv
  <2>1. CASE Finds(p)
    BY <2>1 DEF Finds
  <2>2. CASE Binds(p)
    <3>1. proc[p].call \in Calls /\ proc[p].pc \in Making
      BY <2>2, CallOf DEF Binds, NamesNoCall, Making
    <3> QED BY <2>2, <3>1, MetaMoves DEF Binds, Keeps, KnownInv
  <2> QED BY <1>4, <2>1, <2>2, IntoMaking
<1> QED BY <1>1, <1>2, <1>3, <1>4 DEF KnownInv

LEMMA NextKnown ==
    ASSUME TypeInv, ProgressInv, KnownInv, [Next]_vars PROVE KnownInv'
<1>0. /\ meta \in [Calls -> {"none", "ringing", "accepted", "over"}]
      /\ due \in [Calls -> SUBSET Events]
  BY DEF TypeInv, TypeOK, WorldOK
<1>1. CASE UNCHANGED vars
  BY <1>1 DEF vars, KnownInv
<1>2. ASSUME NEW c \in Calls, Customer(c) PROVE KnownInv'
  <2>1. PICK s \in {"ringing", "accepted", "over"}, e \in SUBSET Events : Post(c, s, e)
    BY <1>2 DEF Customer, Events
  <2>2. meta'[c] # "none" /\ \A d \in Calls \ {c} : meta'[d] = meta[d] /\ due'[d] = due[d]
    BY <1>0, <2>1 DEF Post
  <2>3. UNCHANGED <<call, proc>>
    BY <1>2 DEF Customer
  <2>4. \A q \in Requests : proc[q].pc \in {"create", "create_ended"} \cup Making =>
           proc[q].call \in Calls
    BY CallOf DEF Making, NamesNoCall
  <2> QED BY <2>2, <2>3, <2>4 DEF KnownInv
<1>3. CASE Restart
  BY <1>3 DEF Restart, world, KnownInv, Idle, Making
<1> QED BY <1>1, <1>2, <1>3, KnownRequest DEF Next

LEMMA InitKnown == Init => KnownInv
BY DEF Init, KnownInv, Idle, NoRow, Making

-----------------------------------------------------------------------------
(***************************************************************************)
(* One outbound call per conversation.                                     *)
(***************************************************************************)
(* What a step does to the locks of conversations.                         *)
Aside(p) ==
    proc[p].pc \notin Calling /\ proc'[p].pc \notin Calling /\ UNCHANGED outgoingConversations

Quits(p) ==
    /\ proc[p].pc \in Calling /\ proc'[p].pc \notin Calling
    /\ outgoingConversations \ {proc[p].conv} \subseteq outgoingConversations'

Proceeds(p) ==
    /\ proc[p].pc \in Calling /\ proc'[p].pc \in Calling
    /\ proc'[p].conv = proc[p].conv /\ UNCHANGED outgoingConversations

Opens(p) ==
    /\ proc[p].pc \notin Calling /\ proc'[p].pc = "out_agent"
    /\ proc'[p].conv \notin outgoingConversations
    /\ outgoingConversations' = outgoingConversations \cup {proc'[p].conv}

LEMMA ConvLocksOf == UNCHANGED outLocks \/ UNCHANGED locks => UNCHANGED outgoingConversations
BY DEF locks, outLocks

LEMMA LineMoves ==
    ASSUME TypeInv, NEW p \in Requests, Arrival(p) \/ Step(p)
    PROVE  Aside(p) \/ Quits(p) \/ Proceeds(p) \/ Opens(p)
<1>0. proc \in [Requests -> ProcRecord] /\ Serving \cap Calling = {} /\ "idle" \notin Calling
  BY DEF TypeInv, TypeOK, Serving, Calling
<1>1. ASSUME NEW c \in Calls, \/ Connect(p, c) \/ Terminate(p, c)
                              \/ \E e \in Events : Status(p, c, e)
                              \/ \E a \in Agents :
                                    \/ ClaimCall(p, a, c) \/ RejectCall(p, a, c)
                                    \/ TerminateCall(p, a, c) \/ JoinMedia(p, a, c)
      PROVE  Aside(p)
  <2>1. Outside(p)
    BY <1>1, ArrivalOutside
  <2>2. UNCHANGED locks
    BY <1>1 DEF Connect, Terminate, Status, ClaimCall, RejectCall, TerminateCall, JoinMedia,
       Deliver
  <2> QED BY <2>1, <2>2, ConvLocksOf DEF Outside, Holds, Aside
<1>2. ASSUME NEW c \in Calls, NEW a \in Agents, MediaReady(p, a, c) PROVE Aside(p)
  <2>1. Enters(p) /\ UNCHANGED outLocks
    BY <1>2, ArrivalEnters DEF MediaReady
  <2>2. proc'[p].pc = "find_active"
    BY <1>2, StartSets DEF MediaReady
  <2> QED BY <2>1, <2>2, ConvLocksOf DEF Enters, Holds, Aside, Calling
<1>3. ASSUME NEW a \in Agents, NEW v \in Conversations, Initiate(p, a, v) PROVE Opens(p)
  <2>1. Enters(p) /\ proc'[p].pc = "out_agent" /\ proc'[p].conv = v
    BY <1>0, <1>3, ArrivalEnters DEF Initiate, Idle
  <2> QED BY <1>3, <2>1 DEF Initiate, ConversationFree, Enters, Holds, Opens
<1>4. CASE \/ CreateRow(p) \/ UpdateConnecting(p) \/ PrepareMedia(p) \/ PrepareFailed(p)
           \/ CreateEnded(p) \/ UpdateStatus(p) \/ UpdateTerminated(p)
           \/ CloseMedia(p) \/ Forget(p) \/ Claim(p) \/ AskMeta(p) \/ UpdateByAgent(p)
           \/ JoinClaim(p) \/ JoinAgent(p)
  <2>1. Outside(p)
    BY Zenon, <1>4, StepOutside
  <2>2. UNCHANGED locks
    BY <1>4 DEF CreateRow, UpdateConnecting, PrepareMedia, PrepareFailed, CreateEnded,
       UpdateStatus, UpdateTerminated, CloseMedia, Forget, Claim, AskMeta, UpdateByAgent,
       JoinClaim, JoinAgent
  <2> QED BY <2>1, <2>2, ConvLocksOf DEF Outside, Holds, Aside
<1>5. CASE \/ FindActive(p) \/ FindCall(p) \/ WaitForAgentReady(p) \/ Recheck(p)
           \/ PreAccept(p) \/ WaitForMetaReady(p) \/ RecheckLive(p) \/ AcceptAtMeta(p)
           \/ SetCurrentAgent(p) \/ FailRemove(p) \/ FailFind(p) \/ FailMeta(p)
           \/ FailClose(p) \/ FailUpdate(p) \/ Activate(p)
  <2>1. proc[p].pc \in Serving
    BY Zenon, <1>5 DEF FindActive, FindCall, WaitForAgentReady, Recheck, PreAccept, WaitForMetaReady,
       RecheckLive, AcceptAtMeta, SetCurrentAgent, FailRemove, FailFind, FailMeta, FailClose,
       FailUpdate, Activate, At, Serving
  <2>2. UNCHANGED outLocks \/ UNCHANGED locks
    BY <1>5 DEF FindActive, FindCall, WaitForAgentReady, Recheck, PreAccept, WaitForMetaReady,
       RecheckLive, AcceptAtMeta, SetCurrentAgent, FailRemove, FailFind, FailMeta, FailClose,
       FailUpdate, Activate, Release, Fail, Continue
  <2>3. proc'[p].pc \in Serving \/ proc'[p] = Idle
    BY <1>5, StepServes, FinishSets DEF Serves, Leaves, Activate, Release
  <2> QED BY SMTT(40), <1>0, <2>1, <2>2, <2>3, ConvLocksOf DEF Aside, Idle
<1>6. CASE \/ FindAgentCall(p) \/ FindConversationCall(p) \/ InitiateAtMeta(p)
           \/ BindSession(p) \/ CreateOutbound(p)
  <2>1. proc[p].pc \in Calling
    BY <1>6 DEF FindAgentCall, FindConversationCall, InitiateAtMeta, BindSession,
       CreateOutbound, At, Calling
  <2>2. CASE OutRelease(p)
    BY <1>0, <2>1, <2>2, FinishSets DEF OutRelease, Quits, Idle
  <2>3. CASE ~ OutRelease(p)
    <3>1. proc'[p].pc \in Calling /\ proc'[p].conv = proc[p].conv /\ UNCHANGED locks
      BY <1>0, <1>6, <2>3, GotoKeeps DEF FindAgentCall, FindConversationCall, InitiateAtMeta,
         BindSession, CreateOutbound, Continue, Keeps, Calling, ProcRecord
    <3> QED BY <2>1, <3>1, ConvLocksOf DEF Proceeds
  <2> QED BY <2>2, <2>3
<1> QED BY <1>1, <1>2, <1>3, <1>4, <1>5, <1>6 DEF Arrival, Step

LEMMA LineRequest ==
    ASSUME TypeInv, LineInv, NEW p \in Requests, Arrival(p) \/ Step(p)
    PROVE  LineInv'
<1>1. Moves(p)
  BY ArrivalOK, RequestStepOK
<1>2. "out_agent" \in Calling
  BY DEF Calling
<1>3. ASSUME NEW q \in Requests, q # p, proc'[q].pc \in Calling
      PROVE  /\ proc'[q] = proc[q] /\ proc[q].conv \in outgoingConversations'
             /\ proc'[p].pc \in Calling => proc'[p].conv # proc[q].conv
  BY <1>1, <1>2, <1>3, LineMoves DEF LineInv, Moves, Aside, Quits, Proceeds, Opens
<1>4. proc'[p].pc \in Calling => proc'[p].conv \in outgoingConversations'
  BY LineMoves DEF LineInv, Aside, Quits, Proceeds, Opens
<1>5. ASSUME NEW q \in Requests, NEW t \in Requests, proc'[q].pc \in Calling,
             proc'[t].pc \in Calling, proc'[t].conv = proc'[q].conv, t # q
      PROVE  FALSE
  BY <1>3, <1>5 DEF LineInv
<1> QED BY <1>3, <1>4, <1>5 DEF LineInv

(* A row that comes up for an outbound call is the one a request is making. *)
LEMMA NewOutbound ==
    ASSUME TypeInv, RowsInv, ProgressInv, KnownInv, ConversationInv, Remember,
           NEW p \in Requests, Arrival(p) \/ Step(p),
           NEW c \in Outbound, Current(c)'
    PROVE  Current(c) \/ \E q \in Requests : Working(q, Making, c)
<1>0. c \in Calls
  BY ConstantsAssumption
<1>1. past[c] = "open" /\ call[c].status \in {"NONE"} \cup LIVE
  BY <1>0, PastMoves DEF Current, RowsInv, Over, TypeInv, TypeOK, WorldOK, CallRow, CallStatus
<1>2. CASE call[c].status \in LIVE
  BY <1>1, <1>2 DEF Current, Live
<1>3. CASE call[c].status = "NONE"
  <2>1. call'[c].status # "NONE"
    BY DEF Current, Live, LIVE
  <2>2. Working(p, {"create", "create_ended", "out_create"}, c)
    BY <1>0, <1>3, <2>1, RowsArise
  <2>3. meta[c] # "none"
    BY <2>2 DEF KnownInv, Working, Making
  <2> QED BY <1>3, <2>3 DEF ConversationInv
<1> QED BY <1>1, <1>2, <1>3

LEMMA OutboundRequest ==
    ASSUME TypeInv, RowsInv, ProgressInv, KnownInv, OutboundInv, Remember, ~ Faults,
           NEW p \in Requests, Arrival(p) \/ Step(p)
    PROVE  OutboundInv'
<1>. USE DEF OutboundInv
<1>0. Moves(p) /\ Making \subseteq Calling /\ Outbound \subseteq Calls
      /\ "out_meta" \in Calling \ (Making \cup Entrances) /\ "idle" \notin Making
      /\ Making \cap Entrances = {}
  BY ArrivalOK, RequestStepOK, ConstantsAssumption DEF Making, Calling, Entrances
<1>1. ASSUME NEW c \in Outbound, NEW q \in Requests, Working(q, Making, c)
      PROVE  ConvOf[c] = proc[q].conv /\ proc[q].pc \in Calling
  BY <1>0, <1>1 DEF KnownInv, Working
<1>2. ConversationsAreSingle'
  <2> SUFFICES ASSUME NEW c \in Outbound, NEW d \in Outbound, Current(c)', Current(d)',
                      ConvOf[c] = ConvOf[d], c # d
               PROVE  FALSE
    BY DEF ConversationsAreSingle
  <2>1. ASSUME NEW e \in Outbound, NEW f \in Outbound, NEW q \in Requests,
               Working(q, Making, e), Current(f), ConvOf[e] = ConvOf[f]
        PROVE  f = e
    BY <1>1, <2>1 DEF ConversationInv, Working
  <2>2. ASSUME NEW q \in Requests, NEW t \in Requests, Working(q, Making, c),
               Working(t, Making, d)
        PROVE  FALSE
    <3>1. q = t
      BY <1>1, <2>2 DEF LineInv
    <3> QED BY <2>2, <3>1 DEF Working
  <2> QED BY <2>1, <2>2, NewOutbound DEF ConversationsAreSingle
<1>3. ASSUME NEW q \in Requests, proc'[q].pc \in {"out_meta"} \cup Making, NEW c \in Outbound,
             Current(c)', ConvOf[c] = proc'[q].conv
      PROVE  proc'[q].pc \in Making /\ c = proc'[q].call
  <2>1. CASE q # p
    <3>1. proc'[q] = proc[q]
      BY <1>0, <2>1 DEF Moves
    <3>2. CASE Current(c)
      BY <1>3, <3>1, <3>2 DEF ConversationInv
    <3>3. ASSUME NEW t \in Requests, Working(t, Making, c)
          PROVE  proc'[q].pc \in Making /\ c = proc'[q].call
      <4>1. t = q
        BY <1>0, <1>1, <1>3, <3>1, <3>3 DEF LineInv
      <4> QED BY <3>1, <3>3, <4>1 DEF Working
    <3> QED BY <1>3, <3>2, <3>3, NewOutbound
  <2>2. CASE q = p /\ proc'[p].pc \in Making
    <3>1. CASE Finds(p)
      <4>1. Current(c)
        BY <1>0, <1>3, <3>1, PastMoves DEF Finds, InitiateAtMeta, Current, Live
      <4> QED BY <1>3, <2>2, <3>1, <4>1 DEF Finds, ConversationInv, Making
    <3>2. CASE Binds(p)
      <4>1. proc[p].pc \in Making /\ proc'[p].call = proc[p].call /\ proc'[p].conv = proc[p].conv
            /\ call' = call
        BY <3>2 DEF Binds, Keeps, BindSession, Making
      <4>2. Current(c)
        BY <1>0, <1>3, <4>1, PastMoves DEF Current, Live
      <4> QED BY <1>3, <2>2, <4>1, <4>2 DEF ConversationInv
    <3> QED BY <2>2, <3>1, <3>2, IntoMaking
  <2>3. CASE q = p /\ proc'[p].pc = "out_meta"
    <3>1. FindConversationCall(p) /\ ~ OutRelease(p)
      <4>1. Step(p)
        BY <1>0, <2>3, ArrivalPcs DEF Idle
      <4>2. proc'[p] # Idle /\ proc'[p].pc \in Calling /\ "out_meta" \notin Serving
        BY <1>0, <2>3 DEF Idle, Serving
      <4>3. ~ Outside(p) /\ ~ Serves(p) /\ ~ Leaves(p)
        BY <2>3, <4>2 DEF Outside, Serves, Leaves
      <4>4. FindAgentCall(p) \/ FindConversationCall(p) \/ InitiateAtMeta(p) \/ BindSession(p)
        BY <4>1, <4>3, StepOutside, StepServes, StepTakes DEF Step, Takes
      <4>5. ~ OutRelease(p)
        BY <4>2, FinishSets DEF OutRelease
      <4>6. proc \in [Requests -> ProcRecord]
        BY DEF TypeInv, TypeOK
      <4> QED BY <2>3, <4>4, <4>5, <4>6, GotoKeeps DEF FindAgentCall, InitiateAtMeta,
              BindSession, Continue, ProcRecord
    <3>2. /\ LiveIn(proc[p].conv) = {} /\ call' = call /\ proc'[p].conv = proc[p].conv
      BY <3>1, GotoKeeps DEF FindConversationCall, Continue, Keeps
    <3> QED BY <1>0, <1>3, <2>3, <3>2 DEF LiveIn, Current, Live
  <2> QED BY <1>3, <2>1, <2>2, <2>3
<1>4. ASSUME NEW c \in Outbound, meta'[c] # "none", call'[c].status = "NONE"
      PROVE  \E q \in Requests : Working(q, Making, c)'
  <2>1. CASE meta[c] = "none"
    BY <1>0, <1>4, <2>1, MetaMoves
  <2>2. CASE meta[c] # "none"
    <3>1. call[c].status = "NONE"
      BY <1>0, <1>4, RowsStay
    <3>2. PICK q \in Requests : Working(q, Making, c)
      BY <2>2, <3>1 DEF ConversationInv
    <3>3. CASE q # p
      BY <1>0, <3>2, <3>3 DEF Working, Moves
    <3>4. CASE q = p
      <4>1. BindSession(p) \/ CreateOutbound(p)
        <5>1. Step(p)
          BY <1>0, <3>2, <3>4, ArrivalPcs DEF Working, Idle
        <5>2. ~ Outside(p) /\ proc[p].pc \notin Serving
          BY <1>0, <3>2, <3>4 DEF Working, Outside, Holds, Making, Serving
        <5>3. proc[p].pc \in {"out_bind", "out_create"}
          BY <3>2, <3>4 DEF Working, Making
        <5> QED BY <5>1, <5>2, <5>3, StepOutside DEF Step, Serving, At, FindActive, FindCall,
              WaitForAgentReady, Recheck, PreAccept, WaitForMetaReady, RecheckLive,
              AcceptAtMeta, SetCurrentAgent, Activate, FailRemove, FailFind, FailMeta,
              FailClose, FailUpdate, FindAgentCall, FindConversationCall, InitiateAtMeta
      <4>2. CASE BindSession(p)
        <5>1. proc'[p].pc = "out_create" /\ proc'[p].call = c
          BY <3>2, <3>4, <4>2, GotoKeeps DEF BindSession, Continue, Keeps, Working
        <5> QED BY <5>1 DEF Working, Making
      <4>3. CASE CreateOutbound(p)
        BY <1>0, <1>4, <3>1, <3>2, <3>4, <4>3 DEF CreateOutbound, Working, TypeInv, TypeOK,
           WorldOK
      <4> QED BY Zenon, <4>1, <4>2, <4>3
    <3> QED BY <3>3, <3>4
  <2> QED BY <2>1, <2>2
<1>5. ConversationInv'
  BY <1>3, <1>4 DEF ConversationInv
<1> QED BY <1>2, <1>5, LineRequest

(* The number of restarts only grows, so a process that has not restarted  *)
(* after a step has not restarted before it either.                        *)
LEMMA OneLife ==
    ASSUME TypeInv, [Next]_vars, restarts' = 0
    PROVE  restarts = 0 /\ ~ Restart
<1>1. ~ Restart
  BY DEF Restart, TypeInv, TypeOK, MemoryOK
<1>2. CASE UNCHANGED vars
  BY <1>1, <1>2 DEF vars
<1>3. ASSUME NEW c \in Calls, Customer(c) PROVE restarts = 0
  BY Zenon, <1>3 DEF Customer
<1>4. ASSUME NEW p \in Requests, Arrival(p) PROVE restarts = 0
  BY ZenonT(40), <1>4 DEF Arrival, Connect, Status, Terminate, ClaimCall, RejectCall, TerminateCall,
     JoinMedia, MediaReady, Initiate, Deliver
<1>5. ASSUME NEW p \in Requests, Step(p) PROVE restarts = 0
  <2>1. CASE \/ CreateRow(p) \/ UpdateConnecting(p) \/ PrepareMedia(p) \/ PrepareFailed(p)
             \/ UpdateStatus(p) \/ CreateEnded(p) \/ UpdateTerminated(p) \/ CloseMedia(p)
             \/ Forget(p) \/ Claim(p) \/ AskMeta(p) \/ UpdateByAgent(p) \/ JoinClaim(p)
             \/ JoinAgent(p)
    BY ZenonT(40), <2>1 DEF CreateRow, UpdateConnecting, PrepareMedia, PrepareFailed, UpdateStatus,
       CreateEnded, UpdateTerminated, CloseMedia, Forget, Claim, AskMeta, UpdateByAgent,
       JoinClaim, JoinAgent
  <2>2. CASE \/ FindActive(p) \/ FindCall(p) \/ WaitForAgentReady(p) \/ Recheck(p)
             \/ PreAccept(p) \/ WaitForMetaReady(p) \/ RecheckLive(p) \/ AcceptAtMeta(p)
             \/ SetCurrentAgent(p) \/ Activate(p) \/ FailRemove(p) \/ FailFind(p)
             \/ FailMeta(p) \/ FailClose(p) \/ FailUpdate(p)
    BY <2>2 DEF FindActive, FindCall, WaitForAgentReady, Recheck, PreAccept, WaitForMetaReady,
       RecheckLive, AcceptAtMeta, SetCurrentAgent, Activate, FailRemove, FailFind, FailMeta,
       FailClose, FailUpdate
  <2>3. CASE \/ FindAgentCall(p) \/ FindConversationCall(p) \/ InitiateAtMeta(p)
             \/ BindSession(p) \/ CreateOutbound(p)
    BY <2>3 DEF FindAgentCall, FindConversationCall, InitiateAtMeta, BindSession, CreateOutbound
  <2> QED BY <1>5, <2>1, <2>2, <2>3 DEF Step
<1> QED BY <1>1, <1>2, <1>3, <1>4, <1>5 DEF Next

LEMMA NextOutbound ==
    ASSUME TypeInv, RowsInv, ProgressInv, KnownInv, OutboundInv, ~ Faults, restarts' = 0,
           [Next]_vars
    PROVE  OutboundInv'
<1>. USE DEF OutboundInv
<1>1. ASSUME UNCHANGED <<call, proc, outgoingConversations>>, Remember \/ UNCHANGED past,
             \A c \in Outbound : meta'[c] # "none" => meta[c] # "none"
      PROVE  OutboundInv'
  <2>1. \A c \in Outbound : Current(c)' => Current(c)
    BY <1>1, PastMoves, ConstantsAssumption DEF Current, Live
  <2> QED BY <1>1, <2>1 DEF ConversationsAreSingle, LineInv, ConversationInv, Working
<1>2. CASE UNCHANGED vars
  BY <1>1, <1>2 DEF vars
<1>3. ASSUME NEW c \in Calls, Customer(c), Remember PROVE OutboundInv'
  <2>1. \A d \in Outbound : meta'[d] # "none" => meta[d] # "none"
    BY <1>3, ConstantsAssumption DEF Customer, Inbound, Post, TypeInv, TypeOK, WorldOK
  <2> QED BY <1>1, <1>3, <2>1, ConvLocksOf DEF Customer
<1>4. CASE Restart
  BY <1>4, OneLife
<1> QED BY <1>2, <1>3, <1>4, OutboundRequest DEF Next

LEMMA InitOutbound == Init => OutboundInv
<1> SUFFICES ASSUME Init PROVE OutboundInv
  OBVIOUS
<1>1. \A c \in Calls : call[c].status = "NONE" /\ meta[c] = "none"
  BY DEF Init, NoRow
<1>2. \A p \in Requests : proc[p].pc = "idle"
  BY DEF Init, Idle
<1> QED BY <1>1, <1>2, ConstantsAssumption DEF OutboundInv, ConversationsAreSingle, LineInv,
        ConversationInv, Current, Live, LIVE, Calling, Making

(* A conversation has at most one live outbound call, however the webhooks *)
(* that create its row, the answer of Meta and the look-ups of two agents' *)
(* initiate interleave: a call that Meta knows and the database does not   *)
(* is still held by the lock of its conversation.  A fault after Meta's    *)
(* answer drops the lock while the call goes on at Meta, so the theorem    *)
(* excludes it, as the property excludes a restart.                        *)
THEOREM OneCallPerConversation ==
    ASSUME ~ Faults
    PROVE  Spec => []OneOutboundPerConversation
<1> DEFINE Inv == TypeInv /\ HoldersInv /\ EndInv /\ KnownInv /\ (restarts = 0 => OutboundInv)
<1>1. Init => Inv
  BY InitTypeInv, InitHolders, InitEnd, InitKnown, InitOutbound
<1>2. Inv /\ [Next]_vars => Inv'
  <2> SUFFICES ASSUME Inv, [Next]_vars PROVE Inv'
    OBVIOUS
  <2>1. TypeInv' /\ HoldersInv' /\ EndInv' /\ KnownInv'
    BY NextTypeInv, NextHolders, NextEnd, NextKnown DEF HoldersInv, EndInv
  <2>2. ASSUME restarts' = 0 PROVE OutboundInv'
    BY <2>2, OneLife, NextOutbound DEF HoldersInv, EndInv
  <2> QED BY <2>1, <2>2
<1>3. Inv => OneOutboundPerConversation
  BY DEF OutboundInv, OneOutboundPerConversation
<1> QED BY <1>1, <1>2, <1>3, PTL DEF Spec

-----------------------------------------------------------------------------
(***************************************************************************)
(* The key of a call in the session store.                                 *)
(***************************************************************************)
Keyed == {"join", "recheck", "pre_accept"} \cup Answering

LEMMA KeyedPcs ==
    /\ Keyed \cap (Entrances \cup Making \cup {"idle"}) = {}
    /\ Keyed \subseteq Seen \ NamesNoCall
    /\ Keyed \subseteq {"join"} \cup Serving
BY DEF Keyed, Answering, Entrances, Making, Seen, NamesNoCall, Connecting, ServingAlone, Serving

LEMMA AgentsStay ==
    ASSUME TypeInv, RowsInv, NEW p \in Requests, Arrival(p) \/ Step(p),
           ~ Activate(p), ~ CreateOutbound(p), NEW c \in Calls
    PROVE  call'[c].agent = call[c].agent
<1>0. call \in [Calls -> CallRow]
  BY DEF TypeInv, TypeOK, WorldOK
<1>1. CASE UNCHANGED call
  BY Zenon, <1>1
<1>2. CASE \/ CreateRow(p) \/ UpdateConnecting(p) \/ PrepareFailed(p) \/ UpdateStatus(p)
           \/ CreateEnded(p) \/ UpdateTerminated(p) \/ UpdateByAgent(p) \/ FailUpdate(p)
  BY SMTT(40), <1>0, <1>2 DEF CreateRow, UpdateConnecting, PrepareFailed, UpdateStatus, CreateEnded,
     UpdateTerminated, UpdateByAgent, FailUpdate, RowsInv, CallRow
<1>3. CASE Arrival(p)
  BY ZenonT(40), <1>3 DEF Arrival, Connect, Status, Terminate, ClaimCall, RejectCall, TerminateCall,
     JoinMedia, MediaReady, Initiate, Deliver
<1>4. CASE \/ PrepareMedia(p) \/ CloseMedia(p) \/ Forget(p) \/ Claim(p) \/ AskMeta(p)
           \/ JoinClaim(p) \/ JoinAgent(p) \/ FindActive(p) \/ FindCall(p)
           \/ WaitForAgentReady(p) \/ Recheck(p) \/ PreAccept(p) \/ WaitForMetaReady(p)
           \/ RecheckLive(p) \/ AcceptAtMeta(p) \/ SetCurrentAgent(p) \/ FailRemove(p)
           \/ FailFind(p) \/ FailMeta(p) \/ FailClose(p) \/ FindAgentCall(p)
           \/ FindConversationCall(p) \/ InitiateAtMeta(p) \/ BindSession(p)
  BY <1>4 DEF PrepareMedia, CloseMedia, Forget, Claim, AskMeta, JoinClaim, JoinAgent,
     FindActive, FindCall, WaitForAgentReady, Recheck, PreAccept, WaitForMetaReady, RecheckLive,
     AcceptAtMeta, SetCurrentAgent, FailRemove, FailFind, FailMeta, FailClose, FindAgentCall,
     FindConversationCall, InitiateAtMeta, BindSession
<1> QED BY <1>2, <1>3, <1>4 DEF Step

(* KeysInv of one call, in parts.                                          *)
RowKey(c) == past[c] = "open" /\ call[c].agent # None => session[c] = call[c].agent

JoinedKey(c) ==
    past[c] = "open" /\ Inbound(c) =>
        /\ \A a \in media[c].agents : session[c] = a
        /\ \A p \in Requests : Working(p, Keyed, c) => session[c] = proc[p].by

MakerKey(c) ==
    \A p \in Requests : Working(p, Making, c) =>
        /\ call[c].agent = None
        /\ \A q \in Requests : Working(q, Making, c) => q = p
        /\ proc[p].pc = "out_create" /\ call[c].status = "NONE" => session[c] = proc[p].by

LEMMA KeysParts == KeysInv <=> \A c \in Calls : RowKey(c) /\ JoinedKey(c) /\ MakerKey(c)
BY DEF KeysInv, RowKey, JoinedKey, MakerKey, Keyed

(* A key that is free names nobody.                                        *)
LEMMA FreeKey ==
    ASSUME TypeInv, KeysInv, NEW c \in Calls, session[c] = None, past[c] = "open"
    PROVE  /\ call[c].agent = None
           /\ Inbound(c) => media[c].agents = {} /\ \A p \in Requests : ~ Working(p, Keyed, c)
<1>1. media[c].agents \subseteq Agents
  BY DEF TypeInv, TypeOK, WorldOK, MediaSession
<1>2. \A p \in Requests : Working(p, Keyed, c) => proc[p].by \in Agents
  BY KeyedPcs DEF TypeInv, RequestOK, Working
<1> QED BY <1>1, <1>2, KeysParts, ConstantsAssumption DEF RowKey, JoinedKey

LEMMA KeysStep ==
    ASSUME TypeInv, KeysInv, Remember, NEW p \in Requests, Moves(p),
           \A c \in Calls : call'[c].agent = call[c].agent,
           \A c \in Calls : call'[c].status = "NONE" => call[c].status = "NONE",
           \A c \in Calls : \/ session'[c] = session[c]
                            \/ past'[c] # "open" /\ call[c].status # "NONE"
                            \/ session[c] = None /\ call[c].status # "NONE",
           \A c \in Calls : \A a \in media'[c].agents :
              Inbound(c) /\ past[c] = "open" => a \in media[c].agents \/ session'[c] = a,
           proc'[p].pc \notin Making,
           proc'[p].pc \in Keyed =>
              \/ proc[p].pc \in Keyed /\ proc'[p].call = proc[p].call /\ proc'[p].by = proc[p].by
              \/ past[proc'[p].call] = "open" /\ Inbound(proc'[p].call)
                   => session'[proc'[p].call] = proc'[p].by
    PROVE  KeysInv'
<1> SUFFICES ASSUME NEW c \in Calls PROVE RowKey(c)' /\ JoinedKey(c)' /\ MakerKey(c)'
  BY KeysParts DEF KeysInv, RowKey, JoinedKey, MakerKey, Keyed, Working
<1>0. RowKey(c) /\ JoinedKey(c) /\ MakerKey(c)
  BY KeysParts
<1>1. /\ past'[c] = "open" => past[c] = "open"
      /\ \A q \in Requests \ {p} : proc'[q] = proc[q]
  BY PastMoves DEF Moves
<1>2. RowKey(c)'
  BY <1>0, <1>1, FreeKey DEF RowKey
<1>3. ASSUME past'[c] = "open", Inbound(c)
      PROVE  /\ \A a \in media'[c].agents : session'[c] = a
             /\ \A q \in Requests : Working(q, Keyed, c)' => session'[c] = proc'[q].by
  <2>1. session'[c] = session[c] \/ session[c] = None
    BY <1>3
  <2>2. \A a \in media'[c].agents : session'[c] = a
    BY <1>0, <1>1, <1>3, <2>1, FreeKey DEF JoinedKey
  <2>3. ASSUME NEW q \in Requests, q # p, Working(q, Keyed, c)' PROVE session'[c] = proc'[q].by
    BY <1>0, <1>1, <1>3, <2>1, <2>3, FreeKey DEF JoinedKey, Working
  <2>4. ASSUME Working(p, Keyed, c)' PROVE session'[c] = proc'[p].by
    BY <1>0, <1>1, <1>3, <2>1, <2>4, FreeKey DEF JoinedKey, Working
  <2> QED BY <2>2, <2>3, <2>4
<1>4. MakerKey(c)'
  <2> SUFFICES ASSUME NEW q \in Requests, Working(q, Making, c)'
               PROVE  /\ call'[c].agent = None
                      /\ \A t \in Requests : Working(t, Making, c)' => t = q
                      /\ proc'[q].pc = "out_create" /\ call'[c].status = "NONE" =>
                            session'[c] = proc'[q].by
    BY DEF MakerKey
  <2>1. q # p /\ \A t \in Requests : Working(t, Making, c)' => t # p
    BY DEF Working
  <2>2. Working(q, Making, c)
    BY <1>1, <2>1 DEF Working
  <2> QED BY <1>0, <1>1, <2>1, <2>2 DEF MakerKey, Working
<1> QED BY <1>2, <1>3, <1>4 DEF JoinedKey, Inbound

(* The steps that leave keys and media alone, or only close media.         *)
LEMMA QuietKeys ==
    ASSUME TypeInv, RowsInv, KeysInv, Remember, NEW p \in Requests,
           \/ Arrival(p)
           \/ CreateRow(p) \/ UpdateConnecting(p) \/ PrepareMedia(p) \/ UpdateStatus(p)
           \/ CreateEnded(p) \/ UpdateTerminated(p) \/ CloseMedia(p) \/ AskMeta(p)
           \/ UpdateByAgent(p) \/ FindActive(p) \/ FindCall(p) \/ WaitForAgentReady(p)
           \/ Recheck(p) \/ PreAccept(p) \/ WaitForMetaReady(p) \/ RecheckLive(p)
           \/ AcceptAtMeta(p) \/ SetCurrentAgent(p) \/ FailRemove(p) \/ FailFind(p)
           \/ FailMeta(p) \/ FailClose(p) \/ FindAgentCall(p) \/ FindConversationCall(p)
    PROVE  KeysInv'
<1>0. /\ Moves(p) /\ (Arrival(p) \/ Step(p)) /\ ~ Activate(p) /\ ~ CreateOutbound(p)
      /\ proc \in [Requests -> ProcRecord]
      /\ proc[p].pc \notin {"out_meta", "out_bind"}
  <2>1. proc[p].pc \notin {"activate", "out_meta", "out_bind", "out_create"}
    <3>1. CASE Arrival(p)
      BY <3>1, ArrivalPcs DEF Idle
    <3>2. CASE \/ CreateRow(p) \/ UpdateConnecting(p) \/ PrepareMedia(p) \/ UpdateStatus(p)
               \/ CreateEnded(p) \/ UpdateTerminated(p) \/ CloseMedia(p) \/ AskMeta(p)
               \/ UpdateByAgent(p) \/ FindAgentCall(p) \/ FindConversationCall(p)
      BY <3>2 DEF At, CreateRow, UpdateConnecting, PrepareMedia, UpdateStatus, CreateEnded,
         UpdateTerminated, CloseMedia, AskMeta, UpdateByAgent, FindAgentCall,
         FindConversationCall
    <3>3. CASE \/ FindActive(p) \/ FindCall(p) \/ WaitForAgentReady(p) \/ Recheck(p)
               \/ PreAccept(p) \/ WaitForMetaReady(p) \/ RecheckLive(p) \/ AcceptAtMeta(p)
               \/ SetCurrentAgent(p) \/ FailRemove(p) \/ FailFind(p) \/ FailMeta(p)
               \/ FailClose(p)
      BY ZenonT(40), <3>3 DEF At, FindActive, FindCall, WaitForAgentReady, Recheck, PreAccept,
         WaitForMetaReady, RecheckLive, AcceptAtMeta, SetCurrentAgent, FailRemove, FailFind,
         FailMeta, FailClose
    <3> QED BY <3>1, <3>2, <3>3
  <2> QED BY ZenonT(40), <2>1, ArrivalOK, RequestStepOK DEF Step, Activate, CreateOutbound, At, TypeInv, TypeOK
<1>1. session' = session
  BY DEF Arrival, Connect, Status, Terminate, ClaimCall, RejectCall, TerminateCall,
     JoinMedia, MediaReady, Initiate, Deliver, CreateRow, UpdateConnecting, PrepareMedia,
     UpdateStatus, CreateEnded, UpdateTerminated, CloseMedia, AskMeta, UpdateByAgent, FindActive,
     FindCall, WaitForAgentReady, Recheck, PreAccept, WaitForMetaReady, RecheckLive,
     AcceptAtMeta, SetCurrentAgent, FailRemove, FailFind, FailMeta, FailClose, FindAgentCall,
     FindConversationCall, memory
<1>2. \A c \in Calls : media'[c].agents \subseteq media[c].agents
  <2>0. media \in [Calls -> MediaSession]
    BY DEF TypeInv, TypeOK, WorldOK
  <2>1. CASE UNCHANGED media
    BY <2>1
  <2>2. CASE PrepareMedia(p) \/ CloseMedia(p) \/ SetCurrentAgent(p) \/ FailRemove(p) \/ FailClose(p)
    BY SMTT(40), <2>0, <2>2 DEF PrepareMedia, CloseMedia, SetCurrentAgent, FailRemove, FailClose, Closed,
       MediaSession
  <2>3. CASE Arrival(p)
    BY ZenonT(40), <2>3 DEF Arrival, Connect, Status, Terminate, ClaimCall, RejectCall, TerminateCall,
       JoinMedia, MediaReady, Initiate, Deliver
  <2>4. CASE \/ CreateRow(p) \/ UpdateConnecting(p) \/ UpdateStatus(p)
             \/ CreateEnded(p) \/ UpdateTerminated(p) \/ AskMeta(p)
             \/ UpdateByAgent(p) \/ FindActive(p) \/ FindCall(p) \/ WaitForAgentReady(p)
             \/ Recheck(p) \/ PreAccept(p) \/ WaitForMetaReady(p) \/ RecheckLive(p)
             \/ AcceptAtMeta(p) \/ FailFind(p) \/ FailMeta(p) \/ FindAgentCall(p)
             \/ FindConversationCall(p)
    BY <2>4 DEF CreateRow, UpdateConnecting, UpdateStatus, CreateEnded, UpdateTerminated,
       AskMeta, UpdateByAgent, FindActive, FindCall, WaitForAgentReady, Recheck, PreAccept,
       WaitForMetaReady, RecheckLive, AcceptAtMeta, FailFind, FailMeta, FindAgentCall,
       FindConversationCall
  <2> QED BY <2>2, <2>3, <2>4
<1>3. proc'[p].pc \notin Making
  BY <1>0, IntoMaking DEF Finds, Binds
<1>4. ASSUME proc'[p].pc \in Keyed
      PROVE  /\ proc'[p].call = proc[p].call /\ proc'[p].by = proc[p].by
             /\ \/ proc[p].pc \in Keyed
                \/ proc[p].by \in media[proc[p].call].agents
  <2>1. ~ Arrival(p) /\ proc'[p].pc # "idle" /\ proc'[p] # Idle
    BY <1>4, KeyedPcs, ArrivalPcs DEF Idle
  <2>2. proc'[p].pc \in {"join"} \cup Serving
    BY <1>4, KeyedPcs
  <2>3. CASE \/ CreateRow(p) \/ UpdateConnecting(p) \/ PrepareMedia(p) \/ UpdateStatus(p)
             \/ CreateEnded(p) \/ UpdateTerminated(p) \/ CloseMedia(p) \/ AskMeta(p)
             \/ UpdateByAgent(p)
    <3>1. proc'[p].pc \in {"prepare", "prepare_failed", "close_media", "forget", "reject",
                           "terminate"}
      BY <1>0, <2>1, <2>3, GotoKeeps, FinishSets DEF CreateRow, UpdateConnecting, PrepareMedia,
         UpdateStatus, CreateEnded, UpdateTerminated, CloseMedia, AskMeta, UpdateByAgent,
         ProcRecord
    <3> QED BY <2>2, <3>1 DEF Serving
  <2>4. CASE FindAgentCall(p) \/ FindConversationCall(p)
    <3>1. proc'[p].pc \in {"out_conv", "out_meta"}
      BY <2>1, <2>4, GotoKeeps, FinishSets DEF FindAgentCall, FindConversationCall, OutRelease,
         Continue
    <3> QED BY <2>2, <3>1 DEF Serving
  <2>5. CASE \/ FindActive(p) \/ FindCall(p) \/ FailRemove(p) \/ FailFind(p)
             \/ FailMeta(p) \/ FailClose(p)
    <3>1. proc'[p].pc \in {"find_call", "wait_agent", "fail_find", "fail_meta", "fail_close",
                           "fail_update"}
      BY <2>1, <2>5, GotoKeeps, FinishSets DEF FindActive, FindCall, FailRemove, FailFind,
         FailMeta, FailClose, Release, Continue
    <3> QED BY <1>4, <3>1 DEF Keyed, Answering
  <2>6. CASE WaitForAgentReady(p)
    BY <2>1, <2>6, GotoKeeps, FinishSets DEF WaitForAgentReady, Release, Continue, Keeps
  <2>7. CASE \/ Recheck(p) \/ PreAccept(p) \/ WaitForMetaReady(p) \/ RecheckLive(p)
             \/ AcceptAtMeta(p) \/ SetCurrentAgent(p)
    <3>1. proc[p].pc \in Keyed
      BY <2>7 DEF Recheck, PreAccept, WaitForMetaReady, RecheckLive, AcceptAtMeta,
         SetCurrentAgent, At, Keyed, Answering
    <3>2. proc'[p].call = proc[p].call /\ proc'[p].by = proc[p].by
      BY <1>0, <2>1, <2>7, GotoKeeps, FinishSets DEF Recheck, PreAccept, WaitForMetaReady,
         RecheckLive, AcceptAtMeta, SetCurrentAgent, Release, Fail, Continue, Keeps, ProcRecord
    <3> QED BY <3>1, <3>2
  <2> QED BY <2>1, <2>3, <2>4, <2>5, <2>6, <2>7
<1>5. ASSUME proc'[p].pc \in Keyed, proc[p].pc \notin Keyed,
             past[proc'[p].call] = "open", Inbound(proc'[p].call)
      PROVE  session'[proc'[p].call] = proc'[p].by
  <2>1. proc'[p].call \in Calls
    BY <1>0, <1>5, KeyedPcs DEF Moves, RequestOK, NamesNoCall
  <2> QED BY <1>1, <1>4, <1>5, <2>1, KeysParts DEF JoinedKey
<1> QED BY <1>0, <1>1, <1>2, <1>3, <1>4, <1>5, AgentsStay, RowsStay, KeysStep

(* The steps that free a key or take a free one.                           *)
LEMMA FreeingKeys ==
    ASSUME TypeInv, RowsInv, ProgressInv, KeysInv, Remember, NEW p \in Requests,
           \/ PrepareFailed(p) \/ Forget(p) \/ FailUpdate(p) \/ Claim(p) \/ JoinClaim(p)
           \/ JoinAgent(p)
    PROVE  KeysInv'
<1> DEFINE c == proc[p].call
<1>0. /\ Moves(p) /\ Step(p) /\ ~ Activate(p) /\ ~ CreateOutbound(p)
      /\ proc[p].pc \in {"prepare_failed", "forget", "fail_update", "claim", "join_claim", "join"}
      /\ session \in [Calls -> Agents \cup {None}] /\ media \in [Calls -> MediaSession]
      /\ call \in [Calls -> CallRow]
  BY RequestStepOK DEF Step, PrepareFailed, Forget, FailUpdate, Claim, JoinClaim, JoinAgent,
     At, Activate, CreateOutbound, TypeInv, TypeOK, WorldOK, MemoryOK
<1>1. c \in Calls /\ call[c].status # "NONE"
  <2>1. proc[p].pc \in Seen \ NamesNoCall
    BY <1>0 DEF Seen, NamesNoCall, Closing, Preparing, Connecting, ServingAlone, Serving
  <2> QED BY <2>1, CallOf DEF ProgressInv
<1>2. \A d \in Calls \ {c} : session'[d] = session[d]
  BY <1>0, <1>1 DEF PrepareFailed, Forget, FailUpdate, Claim, JoinClaim, JoinAgent, memory
<1>3. proc'[p] = Idle \/ (proc'[p].pc = "join" /\ Keeps(p) /\ JoinClaim(p))
  BY FinishSets, GotoKeeps DEF PrepareFailed, Forget, FailUpdate, Claim, JoinClaim, JoinAgent,
     Release
<1>4. \/ session'[c] = session[c]
      \/ past'[c] # "open"
      \/ session[c] = None
  <2>1. CASE PrepareFailed(p) \/ FailUpdate(p)
    <3>1. call'[c].status \in TERMINAL
      BY <1>0, <1>1, <2>1 DEF PrepareFailed, FailUpdate, TERMINAL, CallRow
    <3> QED BY <1>1, <3>1, PastMoves
  <2>2. CASE Forget(p)
    <3>1. past[c] # "open"
      BY <2>2 DEF Forget, At, ProgressInv, Closing
    <3> QED BY <1>1, <3>1, PastMoves
  <2>3. CASE Claim(p) \/ JoinClaim(p) \/ JoinAgent(p)
    BY <1>0, <1>1, <2>3 DEF Claim, JoinClaim, JoinAgent, memory
  <2> QED BY <2>1, <2>2, <2>3
<1>5. proc'[p].pc = "join" => session'[proc'[p].call] = proc'[p].by
  <2> SUFFICES ASSUME proc'[p].pc = "join" PROVE session'[proc'[p].call] = proc'[p].by
    OBVIOUS
  <2>1. JoinClaim(p) /\ Keeps(p) /\ ~ Finish(p)
    BY <1>3, FinishSets DEF Idle
  <2> QED BY <1>0, <1>1, <2>1 DEF JoinClaim, Keeps
<1>6. ASSUME NEW d \in Calls, NEW a \in media'[d].agents, Inbound(d), past[d] = "open"
      PROVE  a \in media[d].agents \/ session'[d] = a
  <2>1. CASE UNCHANGED media
    BY <1>6, <2>1
  <2>2. CASE ~ UNCHANGED media
    <3>1. /\ JoinAgent(p)
          /\ media' = [media EXCEPT ![c].agents = @ \cup {proc[p].by}]
      BY <2>2 DEF PrepareFailed, Forget, FailUpdate, Claim, JoinClaim, JoinAgent
    <3>2. a \in media[d].agents \/ (d = c /\ a = proc[p].by)
      BY <1>0, <1>1, <1>6, <3>1 DEF MediaSession
    <3>3. session' = session /\ Working(p, Keyed, c)
      BY <3>1 DEF JoinAgent, memory, At, Working, Keyed
    <3> QED BY <1>1, <1>6, <3>2, <3>3, KeysParts DEF JoinedKey
  <2> QED BY <2>1, <2>2
<1>7. proc'[p].pc \in {"idle", "join"} /\ proc'[p].pc \notin Making
      /\ (proc'[p].pc \in Keyed => proc'[p].pc = "join")
  BY <1>3, KeyedPcs DEF Idle, Making
<1>8. \A d \in Calls : \/ session'[d] = session[d]
                       \/ past'[d] # "open" /\ call[d].status # "NONE"
                       \/ session[d] = None /\ call[d].status # "NONE"
  BY <1>1, <1>2, <1>4
<1>9. \A d \in Calls : /\ call'[d].agent = call[d].agent
                       /\ call'[d].status = "NONE" => call[d].status = "NONE"
  BY <1>0, AgentsStay, RowsStay
<1> QED BY Zenon, <1>0, <1>5, <1>6, <1>7, <1>8, <1>9, KeysStep

LEMMA ActivateKeys ==
    ASSUME TypeInv, RowsInv, ProgressInv, KnownInv, KeysInv, Remember, NEW p \in Requests,
           Activate(p)
    PROVE  KeysInv'
<1> DEFINE c == proc[p].call
<1>0. /\ Moves(p) /\ proc[p].pc = "activate" /\ c \in Calls /\ proc'[p] = Idle
      /\ Inbound(c) /\ call \in [Calls -> CallRow]
  BY RequestStepOK, CallOf, FinishSets DEF Step, Activate, Release, At, NamesNoCall, ProgressInv,
     Answering, TypeInv, TypeOK, WorldOK
<1>1. /\ session' = session /\ media' = media
      /\ \A d \in Calls \ {c} : call'[d] = call[d]
      /\ call'[c].agent = proc[p].by /\ call'[c].status # "NONE"
  BY <1>0 DEF Activate, CallRow
<1>2. past[c] = "open" => session[c] = proc[p].by
  BY <1>0, KeysParts DEF JoinedKey, Working, Keyed, Answering
<1>3. ASSUME NEW d \in Calls PROVE RowKey(d)' /\ JoinedKey(d)' /\ MakerKey(d)'
  <2>0. /\ RowKey(d) /\ JoinedKey(d) /\ MakerKey(d)
        /\ past'[d] = "open" => past[d] = "open"
    BY KeysParts, PastMoves
  <2>1. \A q \in Requests : /\ Working(q, Keyed, d)' => Working(q, Keyed, d) /\ q # p
                            /\ Working(q, Making, d)' => Working(q, Making, d) /\ q # p
    BY <1>0, KeyedPcs DEF Moves, Working, Idle, Making
  <2>2. \A q \in Requests \ {p} : proc'[q] = proc[q]
    BY <1>0 DEF Moves
  <2>3. d = c => \A q \in Requests : ~ Working(q, Making, d)
    BY <1>0 DEF KnownInv, Working, Inbound
  <2>4. RowKey(d)'
    BY <1>1, <1>2, <2>0 DEF RowKey
  <2>5. JoinedKey(d)'
    BY <1>1, <2>0, <2>1, <2>2 DEF JoinedKey, Inbound
  <2>6. MakerKey(d)'
    BY <1>1, <2>0, <2>1, <2>2, <2>3 DEF MakerKey
  <2> QED BY <2>4, <2>5, <2>6
<1> QED BY <1>3, KeysParts DEF KeysInv, RowKey, JoinedKey, MakerKey, Keyed, Working

LEMMA MakingKeys ==
    ASSUME TypeInv, RowsInv, ProgressInv, KnownInv, KeysInv, Remember, NEW p \in Requests,
           InitiateAtMeta(p) \/ BindSession(p) \/ CreateOutbound(p)
    PROVE  KeysInv'
<1>0. /\ Moves(p) /\ Step(p) /\ call \in [Calls -> CallRow] /\ Outbound \subseteq Calls
      /\ session \in [Calls -> Agents \cup {None}] /\ media \in [Calls -> MediaSession]
      /\ proc[p].pc \in {"out_meta", "out_bind", "out_create"}
  BY RequestStepOK, ConstantsAssumption DEF Step, TypeInv, TypeOK, WorldOK, MemoryOK,
     InitiateAtMeta, BindSession, CreateOutbound, At
<1>1. ASSUME UNCHANGED <<call, session, media>>, proc'[p].pc \notin Making \cup Keyed
      PROVE  KeysInv'
  BY <1>0, <1>1, KeysStep
<1>2. ASSUME proc'[p] = Idle, UNCHANGED <<call, session, media>> PROVE KeysInv'
  BY <1>1, <1>2, KeyedPcs DEF Idle, Making
<1>3. CASE Finds(p)
  <2> DEFINE c == proc'[p].call
  <2>1. /\ UNCHANGED <<call, session, media>> /\ c \in Outbound /\ meta[c] = "none"
        /\ proc'[p].pc = "out_bind"
    BY <1>3 DEF Finds, InitiateAtMeta, memory
  <2>2. call[c].agent = None /\ \A q \in Requests : ~ Working(q, Making, c)
    BY <1>0, <2>1 DEF KnownInv, RowsInv, Working
  <2>3. ASSUME NEW d \in Calls PROVE RowKey(d)' /\ JoinedKey(d)' /\ MakerKey(d)'
    <3>0. /\ RowKey(d) /\ JoinedKey(d) /\ MakerKey(d)
          /\ past'[d] = "open" => past[d] = "open"
      BY KeysParts, PastMoves
    <3>1. \A q \in Requests \ {p} : proc'[q] = proc[q]
      BY <1>0 DEF Moves
    <3>2. ~ Working(p, Keyed, d)' /\ (Working(p, Making, d)' => d = c)
      BY <2>1, KeyedPcs DEF Working, Making, Keyed, Answering
    <3>3. RowKey(d)' /\ JoinedKey(d)'
      BY <2>1, <3>0, <3>1, <3>2 DEF RowKey, JoinedKey, Inbound, Working
    <3>4. MakerKey(d)'
      BY <2>1, <2>2, <3>0, <3>1, <3>2 DEF MakerKey, Working
    <3> QED BY <3>3, <3>4
  <2> QED BY <2>3, KeysParts DEF KeysInv, RowKey, JoinedKey, MakerKey, Keyed, Working
<1>4. CASE Binds(p)
  <2> DEFINE c == proc[p].call
  <2>1. /\ call' = call /\ Working(p, Making, c) /\ c \in Outbound
        /\ proc'[p].pc = "out_create" /\ proc'[p].call = c /\ proc'[p].by = proc[p].by
    BY <1>4 DEF Binds, BindSession, Keeps, Working, Making, KnownInv
  <2>2. /\ session' = [session EXCEPT ![c] = proc[p].by]
        /\ \A d \in Calls \ {c} : media'[d] = media[d]
    BY <1>0, <1>4, <2>1, FinishSets DEF Binds, BindSession, OutRelease, Idle
  <2>3. call[c].agent = None /\ \A q \in Requests : Working(q, Making, c) => q = p
    BY <1>0, <2>1, KeysParts DEF MakerKey
  <2>4. ASSUME NEW d \in Calls PROVE RowKey(d)' /\ JoinedKey(d)' /\ MakerKey(d)'
    <3>0. /\ RowKey(d) /\ JoinedKey(d) /\ MakerKey(d)
          /\ past'[d] = "open" => past[d] = "open"
      BY KeysParts, PastMoves
    <3>1. \A q \in Requests \ {p} : proc'[q] = proc[q]
      BY <1>0 DEF Moves
    <3>2. ~ Working(p, Keyed, d)' /\ (Working(p, Making, d)' => d = c)
      BY <2>1, KeyedPcs DEF Working, Making, Keyed, Answering
    <3>3. d # c => session'[d] = session[d] /\ media'[d] = media[d]
      BY <1>0, <2>2
    <3>4. session'[c] = proc[p].by
      BY <1>0, <2>1, <2>2
    <3>5. RowKey(d)' /\ JoinedKey(d)'
      BY <2>1, <2>3, <3>0, <3>1, <3>2, <3>3 DEF RowKey, JoinedKey, Inbound, Working
    <3>6. MakerKey(d)'
      <4>1. CASE d = c
        BY <2>1, <2>3, <3>1, <3>4, <4>1 DEF MakerKey, Working
      <4>2. CASE d # c
        BY <2>1, <3>0, <3>1, <3>2, <3>3, <4>2 DEF MakerKey, Working
      <4> QED BY <4>1, <4>2
    <3> QED BY <3>5, <3>6
  <2> QED BY <2>4, KeysParts DEF KeysInv, RowKey, JoinedKey, MakerKey, Keyed, Working
<1>5. CASE (InitiateAtMeta(p) \/ BindSession(p)) /\ ~ Finds(p) /\ ~ Binds(p)
  <2>1. proc'[p].pc \notin Making
    BY <1>0, <1>5, IntoMaking
  <2>2. OutRelease(p)
    <3>1. proc \in [Requests -> ProcRecord]
      BY DEF TypeInv, TypeOK
    <3> QED BY <1>5, <2>1, <3>1, GotoKeeps DEF InitiateAtMeta, BindSession, Continue, Making,
            ProcRecord
  <2>3. proc'[p] = Idle
    BY <2>2, FinishSets DEF OutRelease
  <2>4. ASSUME ~ UNCHANGED <<call, session, media>> PROVE FALSE
    <3>1. BindSession(p) /\ Continue(p, "out_create")
      BY <1>5, <2>4 DEF InitiateAtMeta, BindSession, memory
    <3> QED BY <2>1, <3>1, GotoKeeps DEF Continue, Making
  <2> QED BY <1>2, <2>3, <2>4
<1>6. CASE CreateOutbound(p)
  <2> DEFINE c == proc[p].call
  <2>0. /\ proc'[p] = Idle /\ session' = session /\ media' = media /\ c \in Outbound
        /\ Working(p, Making, c) /\ proc[p].pc = "out_create"
    BY <1>6, FinishSets DEF CreateOutbound, OutRelease, At, Working, Making, KnownInv
  <2>1. CASE UNCHANGED call
    BY <1>2, <2>0, <2>1
  <2>2. CASE ~ UNCHANGED call
    <3>1. /\ call[c].status = "NONE" /\ call'[c].agent = proc[p].by
          /\ \A d \in Calls \ {c} : call'[d] = call[d]
      BY <1>0, <1>6, <2>0, <2>2 DEF CreateOutbound, CallRow
    <3>2. session[c] = proc[p].by /\ \A q \in Requests : Working(q, Making, c) => q = p
      BY <1>0, <2>0, <3>1, KeysParts DEF MakerKey
    <3>3. ASSUME NEW d \in Calls PROVE RowKey(d)' /\ JoinedKey(d)' /\ MakerKey(d)'
      <4>0. /\ RowKey(d) /\ JoinedKey(d) /\ MakerKey(d)
            /\ past'[d] = "open" => past[d] = "open"
        BY KeysParts, PastMoves
      <4>1. \A q \in Requests \ {p} : proc'[q] = proc[q]
        BY <1>0 DEF Moves
      <4>2. ~ Working(p, Keyed, d)' /\ ~ Working(p, Making, d)'
        BY <2>0, KeyedPcs DEF Working, Making, Idle
      <4>3. RowKey(d)'
        BY <2>0, <3>1, <3>2, <4>0 DEF RowKey
      <4>4. JoinedKey(d)'
        BY <2>0, <4>0, <4>1, <4>2 DEF JoinedKey, Inbound, Working
      <4>5. MakerKey(d)'
        BY <2>0, <3>1, <3>2, <4>0, <4>1, <4>2 DEF MakerKey, Working
      <4> QED BY <4>3, <4>4, <4>5
    <3> QED BY <3>3, KeysParts DEF KeysInv, RowKey, JoinedKey, MakerKey, Keyed, Working
  <2> QED BY <2>1, <2>2
<1> QED BY <1>3, <1>4, <1>5, <1>6

LEMMA NextKeys ==
    ASSUME TypeInv, RowsInv, ProgressInv, KnownInv, KeysInv, restarts' = 0, [Next]_vars
    PROVE  KeysInv'
<1>1. ASSUME UNCHANGED <<call, media, memory, proc>>, Remember \/ UNCHANGED past PROVE KeysInv'
  <2>1. \A c \in Calls : past'[c] = "open" => past[c] = "open"
    BY <1>1, PastMoves
  <2> QED BY <1>1, <2>1 DEF memory, KeysInv, Working, Inbound
<1>2. CASE UNCHANGED vars
  BY <1>1, <1>2 DEF vars, memory
<1>3. ASSUME NEW c \in Calls, Customer(c), Remember PROVE KeysInv'
  BY <1>1, <1>3 DEF Customer
<1>4. CASE Restart
  BY <1>4, OneLife
<1> QED BY <1>2, <1>3, <1>4, QuietKeys, FreeingKeys, ActivateKeys, MakingKeys DEF Next, Step

LEMMA InitKeys == Init => KeysInv
BY IdleNowhere DEF Init, NoRow, Closed, Idle, KeysInv, Working

(* The browser that owns a live call belongs to the responsible agent,     *)
(* whatever claims, joins and activations of other agents interleave, with *)
(* faults of Meta and of the gateway.  A restart empties the session store *)
(* while a browser stays connected, and another agent's join can take the  *)
(* free key before the first agent's mediaReady activates the call, so the *)
(* property ends there.                                                    *)
THEOREM KeysFollowTheAgent == Spec => []SessionFollowsAgent
<1> DEFINE Inv == TypeInv /\ HoldersInv /\ EndInv /\ KnownInv /\ (restarts = 0 => KeysInv)
<1>1. Init => Inv
  BY InitTypeInv, InitHolders, InitEnd, InitKnown, InitKeys
<1>2. Inv /\ [Next]_vars => Inv'
  <2> SUFFICES ASSUME Inv, [Next]_vars PROVE Inv'
    OBVIOUS
  <2>1. TypeInv' /\ HoldersInv' /\ EndInv' /\ KnownInv'
    BY NextTypeInv, NextHolders, NextEnd, NextKnown DEF HoldersInv, EndInv
  <2>2. ASSUME restarts' = 0 PROVE KeysInv'
    BY <2>2, OneLife, NextKeys DEF HoldersInv, EndInv
  <2> QED BY <2>1, <2>2
<1>3. Inv => SessionFollowsAgent
  BY DEF KeysInv, SessionFollowsAgent, Current
<1> QED BY <1>1, <1>2, <1>3, PTL DEF Spec

-----------------------------------------------------------------------------
(***************************************************************************)
(* The calls that were accepted at Meta.                                   *)
(***************************************************************************)
LEMMA ServicePcs ==
    /\ Accepted \subseteq Joined /\ Joined \subseteq Connecting /\ Connecting \subseteq Serving
    /\ (Preparing \cup Connecting) \cap (Entrances \cup Calling \cup EndedAtMeta \cup {"idle"})
          \subseteq {"fail_close", "fail_update"}
    /\ Preparing \cap Serving = {} /\ Preparing \cup Connecting \subseteq Seen
    /\ Calling \cap (EndedAtMeta \cup Serving \cup {"connect", "status"}) = {}
    /\ "idle" \notin EndedAtMeta \cup Serving
BY DEF Accepted, Joined, Connecting, ServingAlone, Serving, Preparing, Entrances, Calling,
   EndedAtMeta, Closing, Seen

(* What a step of p owes to ServiceOf(c).                                  *)
LEMMA ServiceStep ==
    ASSUME NEW c \in Calls, ServiceOf(c), NEW p \in Requests, Moves(p),
           meta[c] = "over" => meta'[c] = "over",
           meta[c] # "none" => meta'[c] # "none",
           due'[c] \subseteq due[c] \cup {"terminate"},
           "terminate" \in due'[c] => "terminate" \in due[c] \/ meta'[c] = "over",
           call'[c].status = "NONE" => ~ media'[c].open,
           ~ media'[c].open => media'[c].agents = {},
           \A q \in Requests \ {p} :
              /\ Working(q, Preparing \cup Connecting, c) => call'[c].status # "ACTIVE"
              /\ Working(q, Joined \ {"recheck"}, c) /\ Over(c)' => Over(c) \/ meta'[c] = "over"
              /\ Working(q, Preparing, c) =>
                    ~ media'[c].open /\ ~ Working(p, Joined \cup Preparing, c)',
           proc'[p].call = c => TaskOK(p)',
           Working(p, Preparing, c)' =>
              /\ ~ media'[c].open
              /\ \A q \in Requests : ~ Working(q, Joined, c)'
              /\ \A q \in Requests \ {p} : ~ Working(q, Preparing, c),
           meta'[c] = "accepted" => InHand(c)' \/ InConversation(c)'
    PROVE  ServiceOf(c)'
<1>0. \A q \in Requests \ {p} : proc'[q] = proc[q]
  BY DEF Moves
<1>1. ASSUME NEW q \in Requests, q # p, proc'[q].call = c
      PROVE  TaskOK(q)' /\ PreparedAlone(q)'
  <2>0. proc'[q] = proc[q] /\ TaskOK(q) /\ PreparedAlone(q)
    BY <1>0, <1>1 DEF ServiceOf
  <2>1. TaskOK(q)'
    BY <1>1, <2>0 DEF TaskOK, Working
  <2>2. ASSUME proc'[q].pc \in Preparing, NEW t \in Requests
        PROVE  ~ Working(t, Joined, c)' /\ (Working(t, Preparing, c)' => t = q)
    BY <1>0, <1>1, <2>0, <2>2 DEF PreparedAlone, Working
  <2>3. proc'[q].pc \in Preparing => ~ media'[c].open
    BY <1>1, <2>0 DEF Working
  <2> QED BY <1>1, <2>1, <2>2, <2>3 DEF PreparedAlone
<1>2. ASSUME proc'[p].call = c PROVE PreparedAlone(p)'
  BY <1>0, <1>2 DEF PreparedAlone, Working
<1>3. ASSUME NEW q \in Requests, proc'[q].call = c PROVE TaskOK(q)' /\ PreparedAlone(q)'
  BY <1>1, <1>2, <1>3
<1>4. due'[c] \subseteq {"connect", "terminate"} /\ ("terminate" \in due'[c] => meta'[c] = "over")
  BY DEF ServiceOf
<1> QED BY <1>3, <1>4 DEF ServiceOf

(* The service of a call goes on if the request in charge goes on.         *)
LEMMA HandStays ==
    ASSUME NEW c \in Calls, ServiceOf(c), NEW p \in Requests, Moves(p),
           meta[c] = "accepted",
           InConversation(c) => InConversation(c)',
           \A q \in Requests \ {p} : Working(q, Accepted, c) => media'[c].current = media[c].current,
           Working(p, Accepted, c) /\ proc[p].stage = "accepted" =>
              \/ /\ Working(p, Accepted, c)' /\ proc'[p].stage = "accepted"
                 /\ proc'[p].pc \in {"recheck_active", "activate"} =>
                       media'[c].current = proc'[p].by
              \/ InConversation(c)'
    PROVE  InHand(c)' \/ InConversation(c)'
<1>0. \A q \in Requests \ {p} : proc'[q] = proc[q]
  BY DEF Moves
<1>1. CASE InConversation(c)
  BY <1>1
<1>2. CASE InHand(c)
  <2>1. PICK q \in Requests :
           /\ Working(q, Accepted, c) /\ proc[q].stage = "accepted"
           /\ proc[q].pc \in {"recheck_active", "activate"} => media[c].current = proc[q].by
    BY <1>2 DEF InHand
  <2>2. CASE q = p
    BY <2>1, <2>2 DEF InHand
  <2>3. CASE q # p
    BY <1>0, <2>1, <2>3 DEF InHand, Working
  <2> QED BY <2>2, <2>3
<1> QED BY <1>1, <1>2 DEF ServiceOf

(* A step that leaves the row and the media of c alone.                    *)
LEMMA ServiceQuiet ==
    ASSUME TypeInv, NEW c \in Calls, ServiceOf(c), NEW p \in Requests, Moves(p),
           call'[c] = call[c], media'[c] = media[c], meta'[c] \in {meta[c], "over"},
           due'[c] \subseteq due[c] \cup {"terminate"},
           "terminate" \in due'[c] => "terminate" \in due[c] \/ meta'[c] = "over",
           proc'[p].call = c => TaskOK(p)',
           Working(p, Joined, c)' => Working(p, Joined, c) \/ media[c].open,
           Working(p, Preparing, c)' => Working(p, Preparing, c),
           meta'[c] = "accepted" /\ Working(p, Accepted, c) /\ proc[p].stage = "accepted" =>
              /\ Working(p, Accepted, c)' /\ proc'[p].stage = "accepted"
              /\ proc'[p].pc \in {"recheck_active", "activate"} => media[c].current = proc'[p].by
    PROVE  ServiceOf(c)'
<1>0. \A q \in Requests \ {p} : proc'[q] = proc[q]
  BY DEF Moves
<1>1. ASSUME meta'[c] = "accepted" PROVE InHand(c)' \/ InConversation(c)'
  <2>1. meta[c] = "accepted"
    BY <1>1
  <2>2. InConversation(c) => InConversation(c)'
    BY DEF InConversation
  <2> QED BY <1>1, <2>1, <2>2, HandStays
<1>2. ASSUME NEW q \in Requests \ {p}
      PROVE  /\ Working(q, Preparing \cup Connecting, c) => call'[c].status # "ACTIVE"
             /\ Working(q, Preparing, c) =>
                   ~ media'[c].open /\ ~ Working(p, Joined \cup Preparing, c)'
  BY DEF ServiceOf, TaskOK, PreparedAlone, Working
<1>3. ASSUME Working(p, Preparing, c)'
      PROVE  /\ ~ media'[c].open
             /\ \A q \in Requests : ~ Working(q, Joined, c)'
             /\ \A q \in Requests \ {p} : ~ Working(q, Preparing, c)
  <2>1. Working(p, Preparing, c) /\ PreparedAlone(p)
    BY <1>3 DEF ServiceOf, Working
  <2>2. ~ Working(p, Joined, c)'
    BY <1>3, ServicePcs DEF Working
  <2> QED BY <1>0, <2>1, <2>2 DEF PreparedAlone, Working
<1>4. Over(c)' => Over(c)
  BY DEF Over
<1>5. /\ call'[c].status = "NONE" => ~ media'[c].open
      /\ ~ media'[c].open => media'[c].agents = {}
  BY DEF ServiceOf
<1>6. /\ meta[c] = "over" => meta'[c] = "over"
      /\ meta[c] # "none" => meta'[c] # "none"
  OBVIOUS
<1> QED BY <1>1, <1>2, <1>3, <1>4, <1>5, <1>6, ServiceStep

LEMMA StepKeepsCall ==
    ASSUME TypeInv, NEW p \in Requests, Step(p), proc'[p] # Idle, proc'[p].pc # "out_bind"
    PROVE  proc'[p].call = proc[p].call /\ proc'[p].by = proc[p].by
<1>0. proc \in [Requests -> ProcRecord]
  BY DEF TypeInv, TypeOK
<1>1. ~ Finish(p) /\ ~ Release(p) /\ ~ OutRelease(p)
  BY Zenon, FinishSets DEF Release, OutRelease
<1>2. CASE \/ CreateRow(p) \/ UpdateConnecting(p) \/ PrepareMedia(p) \/ PrepareFailed(p)
           \/ UpdateStatus(p) \/ CreateEnded(p) \/ UpdateTerminated(p) \/ CloseMedia(p)
           \/ Forget(p) \/ Claim(p) \/ AskMeta(p) \/ UpdateByAgent(p) \/ JoinClaim(p)
           \/ JoinAgent(p)
  BY <1>0, <1>1, <1>2, GotoKeeps DEF CreateRow, UpdateConnecting, PrepareMedia, PrepareFailed,
     UpdateStatus, CreateEnded, UpdateTerminated, CloseMedia, Forget, Claim, AskMeta,
     UpdateByAgent, JoinClaim, JoinAgent, Keeps, ProcRecord
<1>3. CASE \/ FindActive(p) \/ FindCall(p) \/ WaitForAgentReady(p) \/ Recheck(p)
           \/ PreAccept(p) \/ WaitForMetaReady(p) \/ RecheckLive(p) \/ AcceptAtMeta(p)
           \/ SetCurrentAgent(p) \/ Activate(p) \/ FailRemove(p) \/ FailFind(p)
           \/ FailMeta(p) \/ FailClose(p) \/ FailUpdate(p)
  BY <1>0, <1>1, <1>3, GotoKeeps DEF FindActive, FindCall, WaitForAgentReady, Recheck,
     PreAccept, WaitForMetaReady, RecheckLive, AcceptAtMeta, SetCurrentAgent, Activate,
     FailRemove, FailFind, FailMeta, FailClose, FailUpdate, Fail, Continue, Keeps, ProcRecord
<1>4. CASE \/ FindAgentCall(p) \/ FindConversationCall(p) \/ InitiateAtMeta(p)
           \/ BindSession(p) \/ CreateOutbound(p)
  BY <1>0, <1>1, <1>4, GotoKeeps DEF FindAgentCall, FindConversationCall, InitiateAtMeta,
     BindSession, CreateOutbound, Continue, Keeps, ProcRecord
<1> QED BY <1>2, <1>3, <1>4 DEF Step

(* A step changes the row, the media and the state at Meta of the call it  *)
(* works on only.                                                          *)
LEMMA OnlyItsCall ==
    ASSUME TypeInv, KnownInv, NEW p \in Requests, Step(p), NEW c \in Calls, Inbound(c),
           proc[p].call # c
    PROVE  /\ call'[c] = call[c] /\ media'[c] = media[c] /\ meta'[c] = meta[c]
           /\ due'[c] = due[c] /\ proc'[p].call # c
<1> DEFINE d == proc[p].call
<1>0. /\ proc \in [Requests -> ProcRecord] /\ call \in [Calls -> CallRow]
      /\ media \in [Calls -> MediaSession] /\ due \in [Calls -> SUBSET Events]
      /\ meta \in [Calls -> {"none", "ringing", "accepted", "over"}]
  BY DEF TypeInv, TypeOK, WorldOK
<1>1. call'[c] = call[c]
  <2>1. CASE UNCHANGED call
    BY <2>1
  <2>2. CASE \/ CreateRow(p) \/ UpdateConnecting(p) \/ PrepareFailed(p) \/ UpdateStatus(p)
             \/ CreateEnded(p) \/ UpdateTerminated(p) \/ UpdateByAgent(p) \/ FailUpdate(p)
             \/ Activate(p) \/ CreateOutbound(p)
    BY Zenon, <1>0, <2>2 DEF CreateRow, UpdateConnecting, PrepareFailed, UpdateStatus, CreateEnded,
       UpdateTerminated, UpdateByAgent, FailUpdate, Activate, CreateOutbound
  <2>3. CASE \/ PrepareMedia(p) \/ CloseMedia(p) \/ Forget(p) \/ Claim(p) \/ AskMeta(p)
             \/ JoinClaim(p) \/ JoinAgent(p) \/ FindActive(p) \/ FindCall(p)
             \/ WaitForAgentReady(p) \/ Recheck(p) \/ PreAccept(p) \/ WaitForMetaReady(p)
             \/ RecheckLive(p) \/ AcceptAtMeta(p) \/ SetCurrentAgent(p) \/ FailRemove(p)
             \/ FailFind(p) \/ FailMeta(p) \/ FailClose(p) \/ FindAgentCall(p)
             \/ FindConversationCall(p) \/ InitiateAtMeta(p) \/ BindSession(p)
    BY <2>3 DEF PrepareMedia, CloseMedia, Forget, Claim, AskMeta, JoinClaim, JoinAgent,
       FindActive, FindCall, WaitForAgentReady, Recheck, PreAccept, WaitForMetaReady,
       RecheckLive, AcceptAtMeta, SetCurrentAgent, FailRemove, FailFind, FailMeta, FailClose,
       FindAgentCall, FindConversationCall, InitiateAtMeta, BindSession
  <2> QED BY <2>2, <2>3 DEF Step
<1>2. media'[c] = media[c]
  <2>1. CASE UNCHANGED media
    BY <2>1
  <2>2. CASE \/ PrepareMedia(p) \/ CloseMedia(p) \/ JoinAgent(p) \/ SetCurrentAgent(p)
             \/ FailRemove(p) \/ FailClose(p) \/ BindSession(p)
    BY Zenon, <1>0, <2>2 DEF PrepareMedia, CloseMedia, JoinAgent, SetCurrentAgent, FailRemove,
       FailClose, BindSession
  <2>3. CASE \/ CreateRow(p) \/ UpdateConnecting(p) \/ PrepareFailed(p) \/ UpdateStatus(p)
             \/ CreateEnded(p) \/ UpdateTerminated(p) \/ UpdateByAgent(p) \/ FailUpdate(p)
             \/ Activate(p) \/ CreateOutbound(p) \/ Forget(p) \/ Claim(p) \/ AskMeta(p)
             \/ JoinClaim(p) \/ FindActive(p) \/ FindCall(p)
             \/ WaitForAgentReady(p) \/ Recheck(p) \/ PreAccept(p) \/ WaitForMetaReady(p)
             \/ RecheckLive(p) \/ AcceptAtMeta(p) \/ FailFind(p) \/ FailMeta(p)
             \/ FindAgentCall(p) \/ FindConversationCall(p) \/ InitiateAtMeta(p)
    BY <2>3 DEF CreateRow, UpdateConnecting, PrepareFailed, UpdateStatus, CreateEnded,
       UpdateTerminated, UpdateByAgent, FailUpdate, Activate, CreateOutbound, Forget, Claim,
       AskMeta, JoinClaim, FindActive, FindCall, WaitForAgentReady, Recheck, PreAccept,
       WaitForMetaReady, RecheckLive, AcceptAtMeta, FailFind, FailMeta, FindAgentCall,
       FindConversationCall, InitiateAtMeta
  <2> QED BY <2>2, <2>3 DEF Step
<1>3. meta'[c] = meta[c] /\ due'[c] = due[c]
  <2>1. CASE UNCHANGED world
    BY <2>1 DEF world
  <2>2. CASE AskMeta(p) \/ AcceptAtMeta(p) \/ FailMeta(p)
    BY <1>0, <2>2 DEF AskMeta, AcceptAtMeta, FailMeta, HangUp, Post, world
  <2>3. CASE InitiateAtMeta(p)
    BY Zenon, <1>0, <2>3 DEF InitiateAtMeta, Inbound, Post, world
  <2>4. CASE ~ (AskMeta(p) \/ AcceptAtMeta(p) \/ FailMeta(p) \/ InitiateAtMeta(p))
    BY <2>1, <2>4 DEF Step, CreateRow, UpdateConnecting, PrepareMedia, PrepareFailed,
       UpdateStatus, CreateEnded, UpdateTerminated, CloseMedia, Forget, Claim,
       UpdateByAgent, JoinClaim, JoinAgent, FindActive, FindCall, WaitForAgentReady, Recheck,
       PreAccept, WaitForMetaReady, RecheckLive, SetCurrentAgent, Activate,
       FailRemove, FailFind, FailClose, FailUpdate, FindAgentCall,
       FindConversationCall, BindSession, CreateOutbound
  <2> QED BY <2>2, <2>3, <2>4
<1>4. proc'[p].call # c
  <2>1. CASE proc'[p] = Idle
    BY <2>1, ConstantsAssumption DEF Idle
  <2>2. CASE proc'[p].pc \in Making
    <3>1. proc[p].pc \in Making => proc[p].call \in Outbound
      BY DEF KnownInv
    <3> QED BY <2>2, <3>1, IntoMaking DEF Finds, Binds, Keeps, Inbound
  <2>3. CASE proc'[p] # Idle /\ proc'[p].pc \notin Making
    <3>1. proc'[p].call = proc[p].call
      BY <2>3, StepKeepsCall DEF Making
    <3> QED BY <3>1
  <2> QED BY <2>1, <2>2, <2>3
<1> QED BY <1>1, <1>2, <1>3, <1>4

LEMMA ServiceArrival ==
    ASSUME TypeInv, ServiceInv, NEW p \in Requests, Arrival(p), NEW c \in Calls, Inbound(c)
    PROVE  ServiceOf(c)'
<1>0. /\ Moves(p) /\ proc \in [Requests -> ProcRecord] /\ due \in [Calls -> SUBSET Events]
      /\ proc[p] = Idle /\ (proc'[p] = Idle \/ proc'[p].pc \in Entrances) /\ ServiceOf(c)
  BY Zenon, ArrivalOK, ArrivalPcs DEF TypeInv, TypeOK, WorldOK, ServiceInv
<1>1. UNCHANGED <<call, media, meta>>
  BY DEF Arrival, Connect, Status, Terminate, ClaimCall, RejectCall, TerminateCall,
     JoinMedia, MediaReady, Initiate, Deliver, world
<1>2. due'[c] \subseteq due[c]
  <2>1. ASSUME NEW d \in Calls, NEW e \in Events, Deliver(p, d, e)
        PROVE  due'[c] \subseteq due[c]
    BY <1>0, <2>1 DEF Deliver
  <2>2. "connect" \in Events /\ "terminate" \in Events
    BY DEF Events
  <2>3. ASSUME NEW d \in Calls,
               Connect(p, d) \/ Terminate(p, d) \/ \E e \in Events : Status(p, d, e)
        PROVE  due'[c] \subseteq due[c]
    BY <2>1, <2>2, <2>3 DEF Connect, Terminate, Status
  <2>4. CASE UNCHANGED world
    BY <2>4 DEF world
  <2>5. CASE ~ UNCHANGED world
    BY <2>3, <2>5 DEF Arrival, ClaimCall, RejectCall, TerminateCall, JoinMedia, MediaReady,
       Initiate
  <2> QED BY <2>4, <2>5
<1>3. ASSUME proc'[p].call = c
      PROVE  /\ proc'[p].pc \notin {"connect", "status"}
             /\ proc'[p].pc \in EndedAtMeta => meta[c] = "over"
             /\ proc'[p].pc \in Serving => proc'[p].stage = "none"
  <2>0. proc'[p] # Idle
    BY <1>3, ConstantsAssumption DEF Idle
  <2>1. ASSUME NEW d \in Calls, Connect(p, d) PROVE proc'[p].pc = "create"
    <3>1. proc'[p].call = d /\ proc'[p].pc \in {"create", "connect"}
      BY <1>0, <2>0, <2>1, StartSets DEF Connect
    <3> QED BY <1>0, <1>3, <2>0, <2>1, <3>1, StartSets DEF Connect, Inbound
  <2>2. ASSUME NEW d \in Calls, NEW e \in Events, Status(p, d, e) PROVE FALSE
    <3>1. PICK to \in {Mapped(e)} :
             proc' = [proc EXCEPT ![p] = [Idle EXCEPT !.pc = "status", !.call = d, !.to = to]]
      BY <1>0, <2>0, <2>2 DEF Status
    <3>2. d = c
      BY <1>0, <1>3, <3>1 DEF Idle
    <3> QED BY <1>0, <2>2, <3>2 DEF Status, Deliver, ServiceOf
  <2>3. ASSUME NEW d \in Calls, Terminate(p, d)
        PROVE  proc'[p].pc \in {"create_ended", "end"} /\ meta[c] = "over"
    <3>1. PICK pc \in {"create_ended", "end"}, to \in {"REJECTED", "ENDED"} :
             proc' = [proc EXCEPT ![p] = [Idle EXCEPT !.pc = pc, !.call = d, !.to = to]]
      BY <1>0, <2>0, <2>3 DEF Terminate
    <3>2. d = c /\ proc'[p].pc = pc
      BY <1>0, <1>3, <3>1 DEF Idle
    <3> QED BY <1>0, <2>3, <3>2 DEF Terminate, Deliver, ServiceOf
  <2>4. ASSUME NEW d \in Calls, NEW a \in Agents,
               \/ ClaimCall(p, a, d) \/ RejectCall(p, a, d) \/ TerminateCall(p, a, d)
               \/ JoinMedia(p, a, d) \/ MediaReady(p, a, d)
        PROVE  /\ proc'[p].pc \in {"claim", "reject_meta", "terminate_meta", "join_claim",
                                   "find_active"}
               /\ proc'[p].stage = "none"
    BY <2>4, StartSets DEF ClaimCall, RejectCall, TerminateCall, JoinMedia, MediaReady
  <2>5. ASSUME NEW a \in Agents, NEW v \in Conversations, Initiate(p, a, v)
        PROVE  proc'[p].pc = "out_agent"
    BY <1>0, <2>5 DEF Initiate, Idle
  <2> QED BY <2>1, <2>2, <2>3, <2>4, <2>5
          DEF Arrival, EndedAtMeta, Closing, Serving
<1>4. ~ Working(p, Preparing \cup Connecting, c)'
  BY <1>0, ServicePcs DEF Working, Idle, Entrances
<1>5. proc'[p].call = c => TaskOK(p)'
  BY <1>1, <1>3, <1>4, ServicePcs DEF TaskOK, Working, Connecting, ServingAlone, Serving, Joined
<1>6. ~ Working(p, Accepted, c)
  BY <1>0, ServicePcs DEF Working, Idle
<1> QED BY <1>0, <1>1, <1>2, <1>4, <1>5, <1>6, ServicePcs, ServiceQuiet DEF Working

(* A step elsewhere.                                                       *)
LEMMA ServiceElsewhere ==
    ASSUME TypeInv, KnownInv, ServiceInv, NEW p \in Requests, Step(p),
           NEW c \in Calls, Inbound(c), proc[p].call # c
    PROVE  ServiceOf(c)'
<1>1. Moves(p) /\ ServiceOf(c)
  BY RequestStepOK DEF ServiceInv
<1> QED BY <1>1, OnlyItsCall, ServiceQuiet DEF Working

(* While a call is accepted at Meta, the one request that works on it is   *)
(* the one that accepted it.                                               *)
LEMMA InCharge ==
    ASSUME EndInv, NEW c \in Calls, ServiceOf(c), NEW p \in Requests,
           Working(p, Connecting, c), meta[c] = "accepted"
    PROVE  /\ proc[p].pc \in Accepted /\ proc[p].stage = "accepted" /\ ~ Over(c)
           /\ proc[p].pc \in {"recheck_active", "activate"} => media[c].current = proc[p].by
           /\ \A q \in Requests : Working(q, Serving, c) => q = p
<1>1. \A q \in Requests : Working(q, Serving, c) => q = p
  BY ServicePcs DEF EndInv, ActivationInv, Working
<1>2. TaskOK(p) /\ call[c].status # "ACTIVE"
  BY DEF ServiceOf, TaskOK, Working
<1>3. PICK q \in Requests :
         /\ Working(q, Accepted, c) /\ proc[q].stage = "accepted"
         /\ proc[q].pc \in {"recheck_active", "activate"} => media[c].current = proc[q].by
  BY <1>2 DEF ServiceOf, InHand, InConversation
<1>4. q = p
  BY <1>1, <1>3, ServicePcs DEF Working
<1>5. proc[p].pc \in Joined \ {"recheck"}
  BY <1>3, <1>4 DEF Accepted, Joined, Connecting, ServingAlone, Serving, Working
<1> QED BY <1>1, <1>2, <1>3, <1>4, <1>5 DEF TaskOK, Working

(* The answers that leave the call and its media as they are.              *)
LEMMA ServiceRead ==
    ASSUME TypeInv, EndInv, NEW p \in Requests, NEW c \in Calls, ServiceOf(c),
           proc[p].call = c, Moves(p),
           \/ FindActive(p) \/ FindCall(p) \/ WaitForAgentReady(p) \/ Recheck(p)
           \/ PreAccept(p) \/ WaitForMetaReady(p) \/ RecheckLive(p) \/ FailFind(p)
    PROVE  ServiceOf(c)'
<1>0. /\ proc \in [Requests -> ProcRecord] /\ UNCHANGED <<call, media, meta, due>>
      /\ TaskOK(p) /\ proc[p].pc \in Serving
  BY DEF TypeInv, TypeOK, ServiceOf, FindActive, FindCall, WaitForAgentReady, Recheck,
     PreAccept, WaitForMetaReady, RecheckLive, FailFind, world, At, Serving
<1>1. ASSUME proc[p].pc \in Connecting, meta[c] = "accepted"
      PROVE  /\ proc[p].pc \in Accepted /\ proc[p].stage = "accepted" /\ ~ Over(c)
             /\ proc[p].pc \in {"recheck_active", "activate"} => media[c].current = proc[p].by
  BY <1>1, InCharge DEF Working
<1>2. SUFFICES
         /\ proc'[p].call = c => TaskOK(p)'
         /\ Working(p, Joined, c)' => Working(p, Joined, c) \/ media[c].open
         /\ Working(p, Preparing, c)' => Working(p, Preparing, c)
         /\ meta[c] = "accepted" /\ Working(p, Accepted, c) /\ proc[p].stage = "accepted" =>
              /\ Working(p, Accepted, c)' /\ proc'[p].stage = "accepted"
              /\ proc'[p].pc \in {"recheck_active", "activate"} => media[c].current = proc'[p].by
  BY <1>0, ServiceQuiet
<1>3. CASE FindActive(p) \/ FindCall(p)
  <2>1. proc'[p] = Idle \/ (Keeps(p) /\ proc'[p].pc \in {"find_call", "wait_agent"})
    BY <1>3, GotoKeeps, FinishSets DEF FindActive, FindCall, Continue, Release
  <2>2. proc'[p].pc = "wait_agent" => call[c].status = "RINGING"
    BY <1>0, <1>3, GotoKeeps, FinishSets DEF FindActive, FindCall, Continue, Release, Idle
  <2> QED BY <1>0, <1>3, <2>1, <2>2, ConstantsAssumption
          DEF FindActive, FindCall, At, Idle, TaskOK, Keeps, Working, EndedAtMeta, Closing,
              Preparing, Joined, Accepted, Connecting, ServingAlone, Serving
<1>4. CASE WaitForAgentReady(p)
  <2>1. proc[p].pc = "wait_agent" /\ (proc'[p] = Idle \/
           (Keeps(p) /\ proc'[p].pc = "recheck" /\ media[c].agents # {}))
    BY <1>4, GotoKeeps, FinishSets DEF WaitForAgentReady, Continue, Release, At
  <2> QED BY <1>0, <2>1, ConstantsAssumption
          DEF ServiceOf, Idle, TaskOK, Keeps, Working, EndedAtMeta, Closing,
              Preparing, Joined, Accepted, Connecting, ServingAlone, Serving
<1>5. CASE Recheck(p)
  <2>1. proc[p].pc = "recheck" /\ (proc'[p] = Idle \/
           (Keeps(p) /\ proc'[p].pc = "pre_accept" /\ call[c].status = "RINGING"))
    BY <1>5, GotoKeeps, FinishSets DEF Recheck, Continue, Release, At
  <2> QED BY <1>0, <2>1, ConstantsAssumption
          DEF Over, TERMINAL, Idle, TaskOK, Keeps, Working, EndedAtMeta, Closing,
              Preparing, Joined, Accepted, Connecting, ServingAlone, Serving
<1>6. CASE PreAccept(p)
  <2>1. /\ proc[p].pc = "pre_accept" /\ proc'[p].call = c /\ proc'[p].by = proc[p].by
        /\ \/ proc'[p].pc = "fail_remove" /\ proc'[p].stage = proc[p].stage
           \/ proc'[p].pc = "meta_ready" /\ meta[c] = "ringing"
    BY <1>0, <1>6, GotoKeeps DEF PreAccept, Fail, Continue, At, Keeps, ProcRecord
  <2> QED BY <1>0, <2>1
          DEF Over, TaskOK, Working, EndedAtMeta, Closing,
              Preparing, Joined, Accepted, Connecting, ServingAlone, Serving
<1>7. CASE WaitForMetaReady(p)
  <2>1. Keeps(p) /\ \/ proc[p].pc = "meta_ready" /\ proc'[p].pc \in {"recheck_accept", "fail_remove"}
                    \/ proc[p].pc = "meta_ready_again" /\ proc'[p].pc \in {"set_current", "fail_remove"}
    BY <1>7, GotoKeeps DEF WaitForMetaReady, Fail, Continue, At
  <2> QED BY <1>0, <2>1
          DEF Over, TaskOK, Keeps, Working, EndedAtMeta, Closing,
              Preparing, Joined, Accepted, Connecting, ServingAlone, Serving
<1>8. CASE RecheckLive(p)
  <2>1. Keeps(p) /\ \/ proc[p].pc = "recheck_accept" /\ proc'[p].pc \in {"accept", "fail_remove"}
                    \/ proc[p].pc = "recheck_active" /\ proc'[p].pc \in {"activate", "fail_remove"}
    BY <1>8, GotoKeeps DEF RecheckLive, Fail, Continue, At
  <2> QED BY <1>0, <1>1, <2>1
          DEF Over, TaskOK, Keeps, Working, EndedAtMeta, Closing,
              Preparing, Joined, Accepted, Connecting, ServingAlone, Serving
<1>9. CASE FailFind(p)
  <2>1. /\ proc[p].pc = "fail_find"
        /\ \/ Keeps(p) /\ proc'[p].pc = "fail_meta" /\ proc[p].stage # "none"
           \/ proc'[p] = Idle /\ (proc[p].stage = "none" \/ Over(c))
    BY <1>9, GotoKeeps, FinishSets DEF FailFind, Continue, Release, At
  <2> QED BY <1>0, <1>1, <2>1, ConstantsAssumption
          DEF Over, Idle, TaskOK, Keeps, Working, EndedAtMeta, Closing,
              Preparing, Joined, Accepted, Connecting, ServingAlone, Serving
<1> QED BY <1>3, <1>4, <1>5, <1>6, <1>7, <1>8, <1>9

(* The end of a call, and what an agent asks for, at Meta and in the       *)
(* session store.                                                          *)
LEMMA ServiceAsked ==
    ASSUME TypeInv, NEW p \in Requests, NEW c \in Calls, ServiceOf(c),
           proc[p].call = c, Moves(p),
           Forget(p) \/ Claim(p) \/ AskMeta(p) \/ JoinClaim(p)
    PROVE  ServiceOf(c)'
<1>0. /\ proc \in [Requests -> ProcRecord] /\ UNCHANGED <<call, media>>
      /\ due \in [Calls -> SUBSET Events]
      /\ meta \in [Calls -> {"none", "ringing", "accepted", "over"}]
      /\ proc[p].pc \in {"forget", "claim", "reject_meta", "terminate_meta", "join_claim"}
  BY DEF TypeInv, TypeOK, WorldOK, ServiceOf, Forget, Claim, AskMeta, JoinClaim, At
<1>1. CASE UNCHANGED world
  <2>1. proc'[p] = Idle \/ (proc'[p].pc = "join" /\ Keeps(p))
    <3>1. CASE Forget(p) \/ Claim(p) \/ JoinClaim(p)
      BY <3>1, GotoKeeps, FinishSets DEF Forget, Claim, JoinClaim
    <3>2. CASE AskMeta(p)
      <4>1. ~ Post(c, "over", {"terminate"}) \/ meta[c] = "over"
        BY <1>0, <1>1 DEF Post, world
      <4> QED BY <3>2, <4>1, FinishSets DEF AskMeta
    <3> QED BY <3>1, <3>2
  <2> QED BY <1>0, <1>1, <2>1, ServiceQuiet, ConstantsAssumption
          DEF world, Idle, TaskOK, Keeps, Working, EndedAtMeta, Closing,
              Preparing, Joined, Accepted, Connecting, ServingAlone, Serving
<1>2. CASE ~ UNCHANGED world
  <2>1. Post(c, "over", {"terminate"}) /\ Keeps(p) /\ proc'[p].pc \in {"reject", "terminate"}
    BY <1>2, GotoKeeps DEF Forget, Claim, AskMeta, JoinClaim
  <2>2. meta'[c] = "over" /\ due'[c] \subseteq due[c] \cup {"terminate"}
    BY <1>0, <2>1 DEF Post
  <2> QED BY <1>0, <2>1, <2>2, ServiceQuiet
          DEF TaskOK, Keeps, Working, EndedAtMeta, Closing,
              Preparing, Joined, Accepted, Connecting, ServingAlone, Serving
<1> QED BY <1>1, <1>2

(* A call that could not be connected is hung up: while it is accepted,    *)
(* the one request on it is the one that accepted it, so that FailMeta     *)
(* asks Meta to end it whether it is accepted or not.                      *)
LEMMA ServiceHungUp ==
    ASSUME ~ Faults, TypeInv, EndInv, NEW p \in Requests, NEW c \in Calls, ServiceOf(c),
           proc[p].call = c, Moves(p), FailMeta(p)
    PROVE  ServiceOf(c)'
<1>0. /\ proc \in [Requests -> ProcRecord] /\ UNCHANGED <<call, media>>
      /\ due \in [Calls -> SUBSET Events]
      /\ meta \in [Calls -> {"none", "ringing", "accepted", "over"}]
      /\ proc[p].pc = "fail_meta" /\ proc'[p].pc = "fail_close" /\ Keeps(p) /\ TaskOK(p)
  BY GotoKeeps DEF TypeInv, TypeOK, WorldOK, ServiceOf, FailMeta, Continue, At
<1>1. meta[c] = "accepted" => proc[p].stage = "accepted"
  BY <1>0, InCharge DEF Working, Connecting, ServingAlone, Serving
<1>2. meta[c] # "none" /\ proc[p].stage # "none"
  BY <1>0 DEF TaskOK, Serving
<1>3. HangUp(c, IF proc[p].stage = "accepted" THEN {"ringing", "accepted"} ELSE {"ringing"})
  BY DEF FailMeta
<1>4. meta'[c] = "over"
  BY <1>0, <1>1, <1>2, <1>3 DEF HangUp, Post, world
<1>5. due'[c] \subseteq due[c] \cup {"terminate"}
  BY <1>0, <1>3 DEF HangUp, Post, world
<1> QED BY <1>0, <1>4, <1>5, ServiceQuiet
        DEF TaskOK, Keeps, Working, EndedAtMeta, Closing,
            Preparing, Joined, Accepted, Connecting, ServingAlone, Serving

(* initiate works on outbound calls.                                       *)
LEMMA ServiceMaking ==
    ASSUME TypeInv, KnownInv, NEW p \in Requests, NEW c \in Calls, Inbound(c), ServiceOf(c),
           proc[p].call = c, Moves(p),
           \/ FindAgentCall(p) \/ FindConversationCall(p) \/ InitiateAtMeta(p)
           \/ BindSession(p) \/ CreateOutbound(p)
    PROVE  ServiceOf(c)'
<1>0. /\ proc \in [Requests -> ProcRecord] /\ due \in [Calls -> SUBSET Events]
      /\ meta \in [Calls -> {"none", "ringing", "accepted", "over"}]
  BY DEF TypeInv, TypeOK, WorldOK
<1>1. proc[p].pc \notin Making
  BY DEF KnownInv, Inbound
<1>2. ~ BindSession(p) /\ ~ CreateOutbound(p)
  BY <1>1 DEF BindSession, CreateOutbound, At, Making
<1>3. proc[p].pc \in Calling /\ UNCHANGED <<call, media>>
  BY <1>2 DEF FindAgentCall, FindConversationCall, InitiateAtMeta, At, Calling
<1>4. meta'[c] = meta[c] /\ due'[c] = due[c]
  BY <1>0, <1>2 DEF FindAgentCall, FindConversationCall, InitiateAtMeta, Inbound, Post, world
<1>5. proc'[p] = Idle \/ proc'[p].pc \in Calling
  <2>1. CASE FindAgentCall(p) \/ FindConversationCall(p)
    BY <2>1, GotoKeeps, FinishSets
       DEF FindAgentCall, FindConversationCall, Continue, OutRelease, Calling
  <2>2. CASE InitiateAtMeta(p)
    <3>1. PICK d \in Calls \cup {None} :
             \/ proc' = [proc EXCEPT ![p].pc = "out_bind", ![p].call = d]
             \/ OutRelease(p)
      BY <2>2, ConstantsAssumption DEF InitiateAtMeta
    <3> QED BY <1>0, <3>1, FinishSets DEF OutRelease, Calling, ProcRecord
  <2> QED BY <1>2, <2>1, <2>2
<1> QED BY <1>0, <1>3, <1>4, <1>5, ServiceQuiet, ConstantsAssumption
        DEF Idle, TaskOK, Working, EndedAtMeta, Closing, Calling,
            Preparing, Joined, Accepted, Connecting, ServingAlone, Serving

(* Once a call is over at Meta, ending its row and closing its media owe   *)
(* nothing to anyone.                                                      *)
LEMMA ServiceOver ==
    ASSUME NEW p \in Requests, NEW c \in Calls, ServiceOf(c),
           proc[p].call = c, Moves(p), UNCHANGED world, meta[c] = "over",
           call'[c] = call[c] \/ call'[c].status \in TERMINAL,
           media'[c] \in {media[c], Closed},
           \/ proc'[p] = Idle
           \/ proc'[p].pc \in Closing
           \/ /\ call'[c] = call[c] /\ proc[p].pc = "fail_close"
              /\ proc'[p].pc = "fail_update" /\ Keeps(p)
    PROVE  ServiceOf(c)'
<1>0. /\ TaskOK(p) /\ UNCHANGED <<meta, due>> /\ proc'[p].pc \notin Preparing
      /\ call'[c].status = "NONE" => call[c].status = "NONE"
      /\ call'[c].status = "ACTIVE" => call[c].status = "ACTIVE"
      /\ media'[c].open => media[c].open
      /\ ~ media'[c].open => media'[c].agents = {}
      /\ Working(p, Joined, c)' => Working(p, Joined, c)
  BY DEF ServiceOf, world, TERMINAL, Closed, Idle, Closing, Preparing, Working, Joined,
     Connecting, ServingAlone, Serving
<1>1. TaskOK(p)' \/ proc'[p].call # c
  BY <1>0, ConstantsAssumption DEF TaskOK, Keeps, Idle, EndedAtMeta, Closing, Preparing,
     Joined, Connecting, ServingAlone, Serving
<1>2. ASSUME NEW q \in Requests \ {p}
      PROVE  /\ Working(q, Preparing \cup Connecting, c) => call'[c].status # "ACTIVE"
             /\ Working(q, Preparing, c) =>
                   ~ media'[c].open /\ ~ Working(p, Joined \cup Preparing, c)'
  BY <1>0 DEF ServiceOf, TaskOK, PreparedAlone, Working
<1> QED BY <1>0, <1>1, <1>2, ServiceStep DEF Working, ServiceOf

LEMMA ServiceEnding ==
    ASSUME TypeInv, NEW p \in Requests, NEW c \in Calls, ServiceOf(c),
           proc[p].call = c, Moves(p),
           \/ CreateEnded(p) \/ UpdateTerminated(p) \/ UpdateByAgent(p) \/ CloseMedia(p)
           \/ FailClose(p) \/ FailUpdate(p)
    PROVE  ServiceOf(c)'
<1>0. /\ call \in [Calls -> CallRow] /\ media \in [Calls -> MediaSession]
      /\ proc \in [Requests -> ProcRecord] /\ TaskOK(p) /\ RequestOK(p)
      /\ proc[p].pc \in EndedAtMeta /\ UNCHANGED world
  BY DEF TypeInv, TypeOK, WorldOK, ServiceOf, CreateEnded, UpdateTerminated, UpdateByAgent,
     CloseMedia, FailClose, FailUpdate, At, EndedAtMeta, Closing
<1>1. meta[c] = "over"
  BY <1>0 DEF TaskOK
<1>2. call'[c] = call[c] \/ call'[c].status \in TERMINAL
  BY <1>0 DEF CreateEnded, UpdateTerminated, UpdateByAgent, CloseMedia, FailClose, FailUpdate,
     At, RequestOK, CallRow, TERMINAL
<1>3. media'[c] \in {media[c], Closed}
  BY <1>0 DEF CreateEnded, UpdateTerminated, UpdateByAgent, CloseMedia, FailClose, FailUpdate
<1>4. \/ proc'[p] = Idle
      \/ proc'[p].pc \in Closing
      \/ /\ call'[c] = call[c] /\ proc[p].pc = "fail_close"
         /\ proc'[p].pc = "fail_update" /\ Keeps(p)
  <2>1. CASE CreateEnded(p) \/ UpdateByAgent(p) \/ CloseMedia(p) \/ FailClose(p) \/ FailUpdate(p)
    BY <1>0, <2>1, GotoKeeps, FinishSets DEF CreateEnded, UpdateByAgent, CloseMedia, FailClose,
       FailUpdate, Continue, Release, Closing, At
  <2>2. CASE UpdateTerminated(p)
    BY <1>0, <2>2 DEF UpdateTerminated, Closing
  <2> QED BY <2>1, <2>2
<1> QED BY <1>0, <1>1, <1>2, <1>3, <1>4, ServiceOver

(* The row of an inbound call, and the media session that comes with it.   *)
LEMMA ServicePrepared ==
    ASSUME TypeInv, EndInv, NEW p \in Requests, NEW c \in Calls, Inbound(c), ServiceOf(c),
           proc[p].call = c, Moves(p),
           CreateRow(p) \/ PrepareMedia(p) \/ PrepareFailed(p)
    PROVE  ServiceOf(c)'
<1>0. /\ call \in [Calls -> CallRow] /\ media \in [Calls -> MediaSession]
      /\ proc \in [Requests -> ProcRecord] /\ TaskOK(p) /\ UNCHANGED <<meta, due>>
  BY DEF TypeInv, TypeOK, WorldOK, ServiceOf, CreateRow, PrepareMedia, PrepareFailed, world
<1>1. CASE CreateRow(p) /\ call[c].status = "NONE"
  <2>1. /\ call'[c].status = "RINGING" /\ UNCHANGED media
        /\ proc'[p].pc = "prepare" /\ proc'[p].call = c
    BY <1>0, <1>1, GotoKeeps DEF CreateRow, Keeps
  <2>2. \A q \in Requests : ~ Working(q, Preparing \cup Connecting, c)
    BY <1>1, ServicePcs DEF EndInv, ProgressInv, Working
  <2>3. meta[c] # "accepted"
    BY <1>1, <2>2, ServicePcs DEF ServiceOf, InHand, InConversation, Working
  <2>4. ~ media[c].open /\ media[c].agents = {}
    BY <1>1 DEF ServiceOf
  <2>5. TaskOK(p)'
    BY <2>1 DEF TaskOK, EndedAtMeta, Closing, Preparing, Joined, Connecting, ServingAlone,
       Serving
  <2>6. \A q \in Requests : ~ Working(q, Joined, c)'
    BY <2>1, <2>2, ServicePcs DEF Working, Moves, Preparing, Joined, Connecting, ServingAlone,
       Serving
  <2> QED BY <1>0, <2>1, <2>2, <2>3, <2>4, <2>5, <2>6, ServiceStep, ServicePcs DEF Working
<1>2. CASE CreateRow(p) /\ call[c].status # "NONE"
  <2>1. UNCHANGED <<call, media>> /\ proc'[p] = Idle /\ proc[p].pc = "create"
    BY <1>2, FinishSets DEF CreateRow, At
  <2> QED BY <1>0, <2>1, ServiceQuiet, ConstantsAssumption DEF Idle, Working, Preparing,
             Accepted, Joined, Connecting, ServingAlone, Serving
<1>3. ASSUME PrepareMedia(p) \/ PrepareFailed(p)
      PROVE  /\ meta[c] # "accepted" /\ ~ media[c].open /\ media[c].agents = {}
             /\ \A q \in Requests \ {p} : ~ Working(q, Joined \cup Preparing, c)
             /\ Working(p, Preparing, c) /\ call[c].status # "ACTIVE"
  <2>1. proc[p].pc \in Preparing /\ PreparedAlone(p)
    BY <1>3 DEF ServiceOf, PrepareMedia, PrepareFailed, At, Preparing
  <2>2. call[c].status # "ACTIVE"
    BY <1>0, <2>1 DEF TaskOK
  <2>3. \A q \in Requests \ {p} : ~ Working(q, Joined \cup Preparing, c)
    BY <2>1 DEF PreparedAlone, Working
  <2>4. meta[c] # "accepted"
    BY <2>1, <2>2, ServicePcs DEF ServiceOf, InHand, InConversation, PreparedAlone, Working
  <2> QED BY <2>1, <2>2, <2>3, <2>4 DEF ServiceOf, PreparedAlone, Working
<1>4. CASE PrepareMedia(p)
  <2>1. UNCHANGED call
    BY <1>4 DEF PrepareMedia
  <2>2. CASE media'[c] = media[c]
    <3>1. proc'[p] = Idle \/ (proc'[p].pc = "prepare_failed" /\ Keeps(p))
      BY <1>4, GotoKeeps, FinishSets DEF PrepareMedia
    <3>2. proc'[p].call = c => TaskOK(p)'
      BY <1>0, <1>3, <1>4, <2>1, <3>1, ConstantsAssumption DEF TaskOK, Idle, EndedAtMeta, Closing,
         Preparing, Joined, Connecting, ServingAlone, Serving, Keeps
    <3>3. ~ Working(p, Joined, c)'
      BY <3>1, ConstantsAssumption DEF Idle, Working, Joined, Connecting, ServingAlone, Serving
    <3> QED BY <1>0, <1>3, <1>4, <2>1, <2>2, <3>2, <3>3, ServiceQuiet
  <2>3. CASE media'[c] # media[c]
    <3>1. /\ media'[c].open /\ proc'[p] = Idle
      BY <1>0, <1>4, <2>3, FinishSets DEF PrepareMedia, MediaSession, Inbound
    <3>2. ~ Working(p, Joined \cup Preparing, c)' /\ proc'[p].call # c /\ call[c].status # "NONE"
      BY <1>3, <1>4, <3>1, ConstantsAssumption, ServicePcs DEF Idle, Working, EndInv, ProgressInv
    <3> QED BY <1>0, <1>3, <1>4, <2>1, <3>1, <3>2, ServiceStep, ServicePcs DEF Working, ServiceOf, TaskOK
  <2> QED BY <2>2, <2>3
<1>5. CASE PrepareFailed(p)
  <2>1. call'[c].status = "REJECTED" /\ UNCHANGED media /\ proc'[p] = Idle
    BY <1>0, <1>5, FinishSets DEF PrepareFailed
  <2>2. ~ Working(p, Joined \cup Preparing, c)' /\ proc'[p].call # c
    BY <2>1, ConstantsAssumption DEF Idle, Working
  <2> QED BY <1>0, <1>3, <1>5, <2>1, <2>2, ServiceStep DEF Working
<1> QED BY <1>1, <1>2, <1>4, <1>5

(* What mediaReady does at Meta and at the gateway.                        *)
LEMMA ServiceServed ==
    ASSUME ~ Faults, TypeInv, EndInv, NEW p \in Requests, NEW c \in Calls, ServiceOf(c),
           proc[p].call = c, Moves(p),
           \/ JoinAgent(p) \/ AcceptAtMeta(p) \/ SetCurrentAgent(p) \/ FailRemove(p)
    PROVE  ServiceOf(c)'
<1>0. /\ media \in [Calls -> MediaSession] /\ proc \in [Requests -> ProcRecord]
      /\ meta \in [Calls -> {"none", "ringing", "accepted", "over"}]
      /\ due \in [Calls -> SUBSET Events]
      /\ TaskOK(p) /\ UNCHANGED call
  BY DEF TypeInv, TypeOK, WorldOK, ServiceOf, JoinAgent, AcceptAtMeta, SetCurrentAgent,
     FailRemove
<1>1. /\ call'[c].status = "NONE" => call[c].status = "NONE"
      /\ Over(c)' => Over(c)
      /\ media[c].open = media'[c].open => (call'[c].status = "NONE" => ~ media'[c].open)
  BY <1>0 DEF Over, ServiceOf
<1>2. ASSUME proc[p].pc \in Joined, NEW q \in Requests \ {p}
      PROVE  /\ Working(q, Preparing \cup Connecting, c) => call'[c].status # "ACTIVE"
             /\ ~ Working(q, Preparing, c)
             /\ ~ Working(q, Connecting, c)
  BY <1>0, <1>2, ServicePcs
     DEF EndInv, ActivationInv, ServiceOf, TaskOK, PreparedAlone, Working
<1>3. CASE JoinAgent(p)
  <2>1. /\ proc[p].pc = "join" /\ proc'[p] = Idle /\ UNCHANGED <<meta, due>>
        /\ media'[c].open = media[c].open /\ media'[c].current = media[c].current
        /\ ~ media'[c].open => media'[c].agents = {}
    BY <1>0, <1>3, FinishSets DEF JoinAgent, At, MediaSession, ServiceOf, world
  <2>2. /\ ~ Working(p, Joined \cup Preparing, c)' /\ proc'[p].call # c
        /\ ~ Working(p, Accepted, c)
    BY <2>1, ConstantsAssumption DEF Idle, Working, Accepted
  <2>3. ASSUME meta'[c] = "accepted" PROVE InHand(c)' \/ InConversation(c)'
    <3>1. InConversation(c) => InConversation(c)'
      BY <1>0, <2>1 DEF InConversation
    <3> QED BY <2>1, <2>2, <2>3, <3>1, HandStays
  <2>4. ASSUME NEW q \in Requests \ {p}
        PROVE  /\ Working(q, Preparing \cup Connecting, c) => call'[c].status # "ACTIVE"
               /\ Working(q, Preparing, c) => ~ media'[c].open
    BY <1>0, <2>1 DEF ServiceOf, TaskOK, PreparedAlone, Working
  <2> QED BY <1>1, <2>1, <2>2, <2>3, <2>4, ServiceStep DEF Working
<1>4. CASE AcceptAtMeta(p) /\ UNCHANGED world
  <2>1. proc[p].pc = "accept" /\ Keeps(p) /\ proc'[p].pc = "fail_remove" /\ UNCHANGED media
    <3>1. Fail(p)
      BY <1>0, <1>4 DEF AcceptAtMeta, Post, world
    <3> QED BY <1>4, <3>1, GotoKeeps DEF AcceptAtMeta, Fail, Continue, At
  <2> QED BY <1>0, <1>4, <2>1, ServiceQuiet
          DEF world, Over, TaskOK, Keeps, Working, EndedAtMeta, Closing,
              Preparing, Joined, Accepted, Connecting, ServingAlone, Serving
<1>5. CASE AcceptAtMeta(p) /\ ~ UNCHANGED world
  <2>1. /\ proc[p].pc = "accept" /\ meta[c] = "ringing" /\ Post(c, "accepted", {})
        /\ proc' = [proc EXCEPT ![p].pc = "meta_ready_again", ![p].stage = "accepted"]
        /\ UNCHANGED media
    BY <1>5 DEF AcceptAtMeta, At
  <2>2. /\ meta'[c] = "accepted" /\ due'[c] = due[c] /\ proc'[p].pc = "meta_ready_again"
        /\ proc'[p].stage = "accepted" /\ proc'[p].call = c
    BY <1>0, <2>1 DEF Post, ProcRecord
  <2>3. TaskOK(p)'
    BY <1>0, <1>1, <2>1, <2>2 DEF TaskOK, EndedAtMeta, Closing, Preparing, Joined, Connecting,
       ServingAlone, Serving
  <2>4. InHand(c)'
    BY <2>2 DEF InHand, Working, Accepted
  <2>5. proc[p].pc \in Joined /\ ~ Working(p, Preparing, c)'
    BY <2>1, <2>2 DEF Preparing, Working, Joined, Connecting, ServingAlone, Serving
  <2>6. ~ media'[c].open => media'[c].agents = {}
    BY <2>1 DEF ServiceOf
  <2> QED BY <1>1, <1>2, <2>1, <2>2, <2>3, <2>4, <2>5, <2>6, ServiceStep, ServicePcs DEF Working
<1>6. CASE SetCurrentAgent(p) \/ FailRemove(p)
  <2>1. /\ proc[p].pc \in {"set_current", "fail_remove"} /\ Keeps(p)
        /\ proc'[p].pc \in {"recheck_active", "fail_remove", "fail_find"}
        /\ UNCHANGED <<meta, due>>
        /\ proc'[p].pc = "recheck_active" => media'[c].current = proc[p].by
        /\ media'[c].open = media[c].open
        /\ media[c].agents = {} => media'[c].agents = {}
    BY <1>0, <1>6, GotoKeeps
       DEF SetCurrentAgent, FailRemove, Fail, Continue, At, MediaSession, world
  <2>2. proc[p].pc \in Joined /\ proc'[p].call = c /\ ~ Working(p, Preparing, c)'
    BY <2>1 DEF Preparing, Working, Joined, Connecting, ServingAlone, Serving, Keeps
  <2>3. TaskOK(p)'
    BY <1>0, <1>1, <2>1 DEF TaskOK, EndedAtMeta, Closing, Preparing, Joined, Connecting,
       ServingAlone, Serving, Keeps
  <2>4. ASSUME meta'[c] = "accepted" PROVE InHand(c)'
    BY <2>1, <2>2, <2>4, InCharge, ServicePcs
       DEF InHand, Working, Accepted, Keeps
  <2>5. ~ media'[c].open => media'[c].agents = {}
    BY <2>1 DEF ServiceOf
  <2> QED BY <1>1, <1>2, <2>1, <2>2, <2>3, <2>4, <2>5, ServiceStep, ServicePcs DEF Working
<1> QED BY <1>3, <1>4, <1>5, <1>6

(* The agent whose peer the gateway lets be heard gets the row.            *)
LEMMA ServiceActivated ==
    ASSUME TypeInv, EndInv, NEW p \in Requests, NEW c \in Calls, ServiceOf(c),
           proc[p].call = c, Moves(p), Activate(p)
    PROVE  ServiceOf(c)'
<1>1. /\ proc[p].pc = "activate" /\ proc[p].by \in Agents /\ call \in [Calls -> CallRow]
      /\ proc \in [Requests -> ProcRecord]
  BY DEF TypeInv, TypeOK, WorldOK, RequestOK, Activate, At, Serving
<1>2. /\ call'[c].status = "ACTIVE" /\ call'[c].agent = proc[p].by /\ proc'[p] = Idle
      /\ UNCHANGED <<media, meta, due>>
  BY <1>1, FinishSets DEF Activate, Release, world, CallRow
<1>3. Working(p, Joined, c) /\ Working(p, Connecting, c)
  BY <1>1 DEF Working, Joined, Connecting, ServingAlone, Serving
<1>4. ASSUME NEW q \in Requests \ {p} PROVE ~ Working(q, Preparing \cup Connecting, c)
  BY <1>3, ServicePcs DEF EndInv, ActivationInv, ServiceOf, PreparedAlone, Working
<1>5. meta'[c] = "accepted" => InConversation(c)'
  BY <1>1, <1>2, <1>3, InCharge, ConstantsAssumption DEF InConversation
<1>6. proc'[p].call # c /\ ~ Working(p, Joined \cup Preparing, c)' /\ ~ Over(c)'
  BY <1>2, ConstantsAssumption DEF Idle, Working, Over, TERMINAL
<1>7. ~ media'[c].open => media'[c].agents = {}
  BY <1>2 DEF ServiceOf
<1> QED BY <1>2, <1>4, <1>5, <1>6, <1>7, ServiceStep, ServicePcs DEF Working

(* The customer never accepts a call of his own, and his hanging up ends   *)
(* it at Meta.                                                             *)
LEMMA ServiceCustomer ==
    ASSUME TypeInv, KnownInv, ServiceInv, NEW d \in Calls, Customer(d),
           NEW c \in Calls, Inbound(c)
    PROVE  ServiceOf(c)'
<1>0. /\ meta \in [Calls -> {"none", "ringing", "accepted", "over"}]
      /\ due \in [Calls -> SUBSET Events] /\ UNCHANGED <<call, media, proc>> /\ ServiceOf(c)
  BY DEF TypeInv, TypeOK, WorldOK, Customer, ServiceInv
<1>1. \/ meta'[c] = meta[c] /\ due'[c] = due[c]
      \/ meta[c] = "none" /\ meta'[c] = "ringing" /\ due'[c] \subseteq due[c] \cup {"connect"}
      \/ meta'[c] = "over" /\ due'[c] \subseteq due[c] \cup {"terminate"}
  BY <1>0 DEF Customer, Post, Inbound
<1>2. meta[c] = "none" => due[c] = {}
  BY DEF KnownInv
<1>3. meta'[c] = "accepted" => InHand(c)' \/ InConversation(c)'
  BY <1>0, <1>1 DEF ServiceOf, InHand, InConversation, Working
<1>4. due'[c] \subseteq {"connect", "terminate"} /\ ("terminate" \in due'[c] => meta'[c] = "over")
  BY <1>0, <1>1, <1>2 DEF ServiceOf
<1>5. ASSUME NEW q \in Requests, proc'[q].call = c PROVE TaskOK(q)' /\ PreparedAlone(q)'
  <2>1. TaskOK(q) /\ PreparedAlone(q)
    BY <1>0, <1>5 DEF ServiceOf
  <2>2. TaskOK(q)'
    BY <1>0, <1>1, <1>5, <2>1 DEF TaskOK, Over
  <2> QED BY <1>0, <2>1, <2>2 DEF PreparedAlone, Working
<1> QED BY <1>0, <1>3, <1>4, <1>5 DEF ServiceOf

LEMMA NextService ==
    ASSUME ~ Faults, restarts' = 0, TypeInv, EndInv, KnownInv, ServiceInv, [Next]_vars
    PROVE  ServiceInv'
<1> SUFFICES ASSUME NEW c \in Calls, Inbound(c) PROVE ServiceOf(c)'
  BY DEF ServiceInv, Inbound
<1>0. ServiceOf(c)
  BY DEF ServiceInv
<1>1. CASE UNCHANGED vars
  BY <1>0, <1>1 DEF vars, world, ServiceOf, InHand, InConversation, TaskOK, PreparedAlone,
     Working, Over
<1>2. ASSUME NEW d \in Calls, Customer(d) PROVE ServiceOf(c)'
  BY <1>2, ServiceCustomer
<1>3. ASSUME NEW p \in Requests, Arrival(p) PROVE ServiceOf(c)'
  BY <1>3, ServiceArrival
<1>4. ASSUME NEW p \in Requests, Step(p) PROVE ServiceOf(c)'
  <2>1. CASE proc[p].call # c
    BY <1>4, <2>1, ServiceElsewhere
  <2>2. CASE proc[p].call = c
    <3>1. Moves(p) /\ TaskOK(p)
      BY <1>0, <1>4, <2>2, RequestStepOK DEF ServiceOf
    <3>2. ~ UpdateConnecting(p) /\ ~ UpdateStatus(p)
      BY <3>1 DEF TaskOK, UpdateConnecting, UpdateStatus, At
    <3> QED BY <1>0, <1>4, <2>2, <3>1, <3>2, ServiceRead, ServiceAsked, ServiceHungUp,
            ServiceMaking, ServiceEnding, ServicePrepared, ServiceServed, ServiceActivated
            DEF Step
  <2> QED BY <2>1, <2>2
<1>5. ~ Restart
  BY OneLife
<1> QED BY <1>1, <1>2, <1>3, <1>4, <1>5 DEF Next

LEMMA InitService == Init => ServiceInv
BY ConstantsAssumption DEF Init, NoRow, Closed, Idle, ServiceInv, ServiceOf, TaskOK,
   PreparedAlone

(* An inbound call that was accepted at Meta and that nobody works on any  *)
(* more is in conversation: its row is active, and the gateway lets the    *)
(* responsible agent be heard, although mediaReady reads, asks Meta, moves *)
(* the media and writes the row at awaits that webhooks, claims, hang-ups  *)
(* and other agents' joins interleave with.  An acceptance that Meta does  *)
(* not confirm and a hang-up that fails leave a customer on a call that    *)
(* nobody serves: the theorem excludes these faults.                       *)
THEOREM AcceptedCallsAreServed ==
    ASSUME ~ Faults
    PROVE  Spec => []AnsweredCallIsServed
<1> DEFINE Inv == TypeInv /\ HoldersInv /\ EndInv /\ KnownInv /\ (restarts = 0 => ServiceInv)
<1>1. Init => Inv
  BY InitTypeInv, InitHolders, InitEnd, InitKnown, InitService
<1>2. Inv /\ [Next]_vars => Inv'
  <2> SUFFICES ASSUME Inv, [Next]_vars PROVE Inv'
    OBVIOUS
  <2>1. TypeInv' /\ HoldersInv' /\ EndInv' /\ KnownInv'
    BY NextTypeInv, NextHolders, NextEnd, NextKnown DEF HoldersInv, EndInv
  <2>2. ASSUME restarts' = 0 PROVE ServiceInv'
    BY <2>2, OneLife, NextService DEF HoldersInv, EndInv
  <2> QED BY <2>1, <2>2
<1>3. Inv => AnsweredCallIsServed
  BY DEF AnsweredCallIsServed, ServiceInv, ServiceOf, InHand, InConversation, Working, Quiet
<1> QED BY <1>1, <1>2, <1>3, PTL DEF Spec
=============================================================================
