------------------------- MODULE CallControlProofs -------------------------
(***************************************************************************)
(* Proofs about CallControl for every set of agents, calls, conversations, *)
(* requests and webhooks, with faults and restarts.                        *)
(***************************************************************************)
EXTENDS CallControlProps, TLAPS

USE DEF AgentFree, ConversationFree

(* A step of request p, as far as proc is concerned.                       *)
Moves(p) ==
    /\ proc' \in [Requests -> ProcRecord]
    /\ RequestOK(p)'
    /\ \A q \in Requests \ {p} : proc'[q] = proc[q]

NamesAgent == {"claim", "join_claim", "join"} \cup Serving \cup Calling
NamesNoCall == {"idle", "out_agent", "out_conv", "out_meta"}

LEMMA FinishMoves ==
    ASSUME proc \in [Requests -> ProcRecord], NEW p \in Requests, Finish(p)
    PROVE  Moves(p)
<1>1. Idle \in ProcRecord
  BY DEF Idle, ProcRecord, PCs, CallStatus
<1>2. /\ proc' \in [Requests -> ProcRecord]
      /\ proc'[p] = Idle
      /\ \A q \in Requests \ {p} : proc'[q] = proc[q]
  BY <1>1 DEF Finish
<1>3. RequestOK(p)'
  BY <1>2 DEF RequestOK, Idle, Serving, Calling
<1> QED BY <1>2, <1>3 DEF Moves

LEMMA GotoMoves ==
    ASSUME proc \in [Requests -> ProcRecord], NEW p \in Requests, RequestOK(p),
           NEW pc \in PCs \ {"idle", "status", "end"}, Goto(p, pc),
           proc[p].pc \in NamesNoCall => pc \in NamesNoCall,
           pc \in NamesAgent => proc[p].by \in Agents,
           pc \in Calling => proc[p].conv \in Conversations
    PROVE  Moves(p)
<1>1. /\ proc' \in [Requests -> ProcRecord]
      /\ proc'[p] = [proc[p] EXCEPT !.pc = pc]
      /\ \A q \in Requests \ {p} : proc'[q] = proc[q]
  BY DEF Goto, ProcRecord
<1>2. /\ proc'[p].pc = pc /\ proc'[p].by = proc[p].by
      /\ proc'[p].call = proc[p].call /\ proc'[p].conv = proc[p].conv
  BY <1>1 DEF ProcRecord
<1>3. RequestOK(p)'
  BY <1>2 DEF RequestOK, NamesNoCall, NamesAgent
<1> QED BY <1>1, <1>3 DEF Moves

LEMMA StartMoves ==
    ASSUME proc \in [Requests -> ProcRecord], call \in [Calls -> CallRow],
           NEW p \in Requests, NEW pc \in PCs \ (Calling \cup {"status", "end"}),
           NEW a \in Agents \cup {None}, NEW c \in Calls, Start(p, pc, a, c),
           pc \in NamesAgent => a \in Agents
    PROVE  /\ Moves(p)
           /\ proc'[p].pc = pc /\ proc'[p].by = a /\ proc'[p].call = c
<1>1. call[c].agent \in Agents \cup {None}
  BY DEF CallRow
<1>2. [Idle EXCEPT !.pc = pc, !.by = a, !.call = c, !.agent = call[c].agent] \in ProcRecord
  BY <1>1 DEF Idle, ProcRecord, CallStatus
<1>3. /\ proc' \in [Requests -> ProcRecord]
      /\ proc'[p].pc = pc /\ proc'[p].by = a /\ proc'[p].call = c
      /\ \A q \in Requests \ {p} : proc'[q] = proc[q]
  BY <1>2 DEF Start, Idle
<1>4. RequestOK(p)'
  BY <1>3 DEF RequestOK, NamesAgent
<1> QED BY <1>3, <1>4 DEF Moves

LEMMA StaysMoves ==
    ASSUME proc \in [Requests -> ProcRecord], NEW p \in Requests, RequestOK(p),
           UNCHANGED proc
    PROVE  Moves(p)
BY DEF Moves, RequestOK

LEMMA RequestNames ==
    ASSUME NEW p \in Requests, RequestOK(p)
    PROVE  /\ proc[p].pc \notin NamesNoCall => proc[p].call \in Calls
           /\ proc[p].pc \in NamesAgent => proc[p].by \in Agents
           /\ proc[p].pc \in Calling => proc[p].conv \in Conversations
BY DEF RequestOK, NamesNoCall, NamesAgent

(* A step that keeps the parts keeps the whole.                            *)
LEMMA RememberOK ==
    ASSUME past \in [Calls -> {"open", "over", "reopened"}], Remember
    PROVE  past' \in [Calls -> {"open", "over", "reopened"}]
BY DEF Remember

LEMMA StepOK ==
    ASSUME TypeInv, NEW p \in Requests, WorldOK', MemoryOK', Moves(p), Remember
    PROVE  TypeInv'
<1>1. past' \in [Calls -> {"open", "over", "reopened"}]
  BY RememberOK DEF TypeInv, TypeOK
<1>2. ASSUME NEW q \in Requests PROVE RequestOK(q)'
  <2>1. CASE q = p
    BY <2>1 DEF Moves
  <2>2. CASE q # p
    BY <2>2 DEF Moves, TypeInv, RequestOK
  <2> QED BY <2>1, <2>2
<1> QED BY <1>1, <1>2 DEF TypeInv, TypeOK, Moves

LEMMA WorldUnchanged ==
    ASSUME WorldOK, UNCHANGED <<call, world, media>> PROVE WorldOK'
BY DEF WorldOK, world

LEMMA MemoryUnchanged ==
    ASSUME MemoryOK, UNCHANGED <<memory, locks, restarts>> PROVE MemoryOK'
BY DEF MemoryOK, memory, locks, mediaLocks, outLocks

(* What the external world and the rows may become.                        *)
LEMMA PostOK ==
    ASSUME WorldOK, NEW c \in Calls, NEW s \in {"none", "ringing", "accepted", "over"},
           NEW e \in SUBSET Events, Post(c, s, e), UNCHANGED <<call, media>>
    PROVE  WorldOK'
BY DEF WorldOK, Post

LEMMA RowOK ==
    ASSUME WorldOK, NEW c \in Calls, NEW s \in CallStatus, NEW l \in 0..8,
           NEW a \in Agents \cup {None}, UNCHANGED <<world, media>>,
           \/ call' = [call EXCEPT ![c] = [status |-> s, agent |-> a, last |-> l]]
           \/ call' = [call EXCEPT ![c].status = s]
           \/ call' = [call EXCEPT ![c].status = s, ![c].last = l]
           \/ call' = [call EXCEPT ![c].status = s, ![c].agent = a]
    PROVE  WorldOK'
BY DEF WorldOK, world, CallRow

LEMMA RowReplaced ==
    ASSUME WorldOK, NEW c \in Calls, NEW row \in CallRow,
           UNCHANGED <<world, media>>, call' = [call EXCEPT ![c] = row]
    PROVE  WorldOK'
BY DEF WorldOK, world

LEMMA MediaOK ==
    ASSUME WorldOK, NEW c \in Calls, NEW m \in MediaSession,
           UNCHANGED <<call, world>>, media' = [media EXCEPT ![c] = m]
    PROVE  WorldOK'
BY DEF WorldOK, world

LEMMA InitTypeInv == Init => TypeInv
<1> SUFFICES ASSUME Init PROVE TypeInv
  OBVIOUS
<1>. USE ConstantsAssumption
<1>1. WorldOK
  BY DEF Init, WorldOK, CallRow, NoRow, CallStatus, MediaSession, Closed
<1>2. MemoryOK
  BY DEF Init, MemoryOK
<1>3. proc \in [Requests -> ProcRecord]
  BY DEF Init, ProcRecord, Idle, PCs, CallStatus
<1>4. \A p \in Requests : RequestOK(p)
  BY DEF Init, RequestOK, Idle, Serving, Calling
<1> QED BY <1>1, <1>2, <1>3, <1>4 DEF TypeInv, TypeOK, Init

-----------------------------------------------------------------------------
(* A request or webhook that arrives keeps the types.                      *)
LEMMA WebhookOK ==
    ASSUME TypeInv, NEW p \in Requests, NEW c \in Calls,
           \/ Connect(p, c) \/ Terminate(p, c) \/ \E e \in Events : Status(p, c, e)
    PROVE  WorldOK' /\ MemoryOK' /\ Moves(p)
<1>0. /\ WorldOK /\ MemoryOK /\ proc \in [Requests -> ProcRecord] /\ RequestOK(p)
      /\ call \in [Calls -> CallRow]
  BY DEF TypeInv, TypeOK, WorldOK
<1>1. ASSUME NEW e \in Events, Deliver(p, c, e) PROVE WorldOK' /\ MemoryOK'
  BY <1>0, <1>1, MemoryUnchanged DEF Deliver, WorldOK
<1>2. CASE Connect(p, c)
  <2>1. WorldOK' /\ MemoryOK'
    BY <1>1, <1>2 DEF Connect, Events
  <2>2. \/ Start(p, "create", None, c) \/ Start(p, "connect", None, c) \/ UNCHANGED proc
    BY <1>2 DEF Connect
  <2>3. Moves(p)
    BY <1>0, <2>2, StartMoves, StaysMoves DEF PCs, Calling, NamesAgent, Serving
  <2> QED BY <2>1, <2>3
<1>3. CASE Terminate(p, c)
  <2>1. WorldOK' /\ MemoryOK'
    BY <1>1, <1>3 DEF Terminate, Events
  <2>2. CASE UNCHANGED proc
    BY <1>0, <2>1, <2>2, StaysMoves
  <2>3. CASE ~ UNCHANGED proc
    <3>1. PICK pc \in {"create_ended", "end"}, to \in TERMINAL :
             proc' = [proc EXCEPT ![p] = [Idle EXCEPT !.pc = pc, !.call = c, !.to = to]]
      BY <1>3, <2>3 DEF Terminate, TERMINAL
    <3>2. [Idle EXCEPT !.pc = pc, !.call = c, !.to = to] \in ProcRecord
      BY DEF Idle, ProcRecord, PCs, CallStatus, TERMINAL
    <3>3. /\ proc' \in [Requests -> ProcRecord]
          /\ proc'[p].pc = pc /\ proc'[p].call = c /\ proc'[p].to = to
          /\ \A q \in Requests \ {p} : proc'[q] = proc[q]
      BY <3>1, <3>2, <1>0 DEF Idle
    <3>4. RequestOK(p)'
      BY <3>3 DEF RequestOK, Serving, Calling
    <3> QED BY <2>1, <3>3, <3>4 DEF Moves
  <2> QED BY <2>2, <2>3
<1>4. ASSUME NEW e \in Events, Status(p, c, e) PROVE WorldOK' /\ MemoryOK' /\ Moves(p)
  <2>1. WorldOK' /\ MemoryOK'
    BY <1>1, <1>4 DEF Status
  <2>2. CASE UNCHANGED proc
    BY <1>0, <2>1, <2>2, StaysMoves
  <2>3. CASE ~ UNCHANGED proc
    <3>0. Mapped(e) \in {"RINGING", "ACTIVE", "REJECTED"}
      BY <1>4 DEF Status, Mapped
    <3>1. PICK to \in {"RINGING", "ACTIVE", "REJECTED"} :
             proc' = [proc EXCEPT ![p] = [Idle EXCEPT !.pc = "status", !.call = c, !.to = to]]
      BY <1>4, <2>3, <3>0 DEF Status
    <3>2. [Idle EXCEPT !.pc = "status", !.call = c, !.to = to] \in ProcRecord
      BY DEF Idle, ProcRecord, PCs, CallStatus, LIVE, TERMINAL
    <3>3. /\ proc' \in [Requests -> ProcRecord]
          /\ proc'[p].pc = "status" /\ proc'[p].call = c /\ proc'[p].to = to
          /\ \A q \in Requests \ {p} : proc'[q] = proc[q]
      BY <3>1, <3>2, <1>0 DEF Idle
    <3>4. RequestOK(p)'
      BY <3>3 DEF RequestOK, Serving, Calling
    <3> QED BY <2>1, <3>3, <3>4 DEF Moves
  <2> QED BY <2>2, <2>3
<1> QED BY <1>2, <1>3, <1>4

LEMMA CallRequestOK ==
    ASSUME TypeInv, NEW p \in Requests, NEW c \in Calls, NEW a \in Agents,
           \/ ClaimCall(p, a, c) \/ RejectCall(p, a, c) \/ TerminateCall(p, a, c)
           \/ JoinMedia(p, a, c) \/ MediaReady(p, a, c)
    PROVE  WorldOK' /\ MemoryOK' /\ Moves(p)
<1>0. /\ WorldOK /\ MemoryOK /\ proc \in [Requests -> ProcRecord]
      /\ call \in [Calls -> CallRow]
  BY DEF TypeInv, TypeOK, WorldOK
<1>1. PICK pc \in {"claim", "reject_meta", "terminate_meta", "join_claim", "find_active"} :
         Start(p, pc, a, c)
  BY DEF ClaimCall, RejectCall, TerminateCall, JoinMedia, MediaReady
<1>2. pc \in PCs \ (Calling \cup {"status", "end"})
  BY DEF PCs, Calling
<1>3. Moves(p)
  BY <1>0, <1>1, <1>2, StartMoves
<1>4. WorldOK'
  BY <1>0, WorldUnchanged DEF ClaimCall, RejectCall, TerminateCall, JoinMedia, MediaReady
<1>5. MemoryOK'
  <2>1. CASE MediaReady(p, a, c)
    BY <1>0, <2>1 DEF MediaReady, MemoryOK, memory, outLocks
  <2>2. CASE ~ MediaReady(p, a, c)
    BY <1>0, <2>2, MemoryUnchanged DEF ClaimCall, RejectCall, TerminateCall, JoinMedia
  <2> QED BY <2>1, <2>2
<1> QED BY <1>3, <1>4, <1>5

LEMMA InitiateOK ==
    ASSUME TypeInv, NEW p \in Requests, NEW a \in Agents, NEW v \in Conversations,
           Initiate(p, a, v)
    PROVE  WorldOK' /\ MemoryOK' /\ Moves(p)
<1>0. /\ WorldOK /\ MemoryOK /\ proc \in [Requests -> ProcRecord]
  BY DEF TypeInv, TypeOK
<1>1. [Idle EXCEPT !.pc = "out_agent", !.by = a, !.conv = v] \in ProcRecord
  BY DEF Idle, ProcRecord, PCs, CallStatus
<1>2. /\ proc' \in [Requests -> ProcRecord]
      /\ proc'[p].pc = "out_agent" /\ proc'[p].by = a /\ proc'[p].conv = v
      /\ \A q \in Requests \ {p} : proc'[q] = proc[q]
  BY <1>0, <1>1 DEF Initiate, Idle
<1>3. RequestOK(p)'
  BY <1>2 DEF RequestOK
<1>4. WorldOK'
  BY <1>0, WorldUnchanged DEF Initiate
<1>5. MemoryOK'
  BY <1>0 DEF Initiate, MemoryOK, memory, mediaLocks
<1> QED BY <1>2, <1>3, <1>4, <1>5 DEF Moves

LEMMA ArrivalOK ==
    ASSUME TypeInv, NEW p \in Requests, Arrival(p)
    PROVE  WorldOK' /\ MemoryOK' /\ Moves(p)
BY WebhookOK, CallRequestOK, InitiateOK DEF Arrival

-----------------------------------------------------------------------------
(* A step of a request under way keeps the types.                          *)
LocksShrink ==
    /\ activating' \subseteq activating /\ mediaAgents' \subseteq mediaAgents
    /\ outgoingAgents' \subseteq outgoingAgents
    /\ outgoingConversations' \subseteq outgoingConversations

LEMMA LocksKept == UNCHANGED locks => LocksShrink
BY DEF locks, mediaLocks, outLocks, LocksShrink

LEMMA MemoryShrinks ==
    ASSUME MemoryOK, LocksShrink, UNCHANGED restarts,
           session' \in [Calls -> Agents \cup {None}], busy' \in [Agents -> SUBSET Calls]
    PROVE  MemoryOK'
BY DEF MemoryOK, LocksShrink

(* The call that the request works on gets an agent, or loses it.          *)
LEMMA SessionOK ==
    ASSUME MemoryOK, NEW c \in Calls, NEW a \in Agents \cup {None},
           session' = [session EXCEPT ![c] = a]
    PROVE  session' \in [Calls -> Agents \cup {None}]
BY DEF MemoryOK

LEMMA BusyOK ==
    ASSUME MemoryOK, NEW c \in Calls, NEW a \in Agents,
           busy' = [busy EXCEPT ![a] = @ \cup {c}]
    PROVE  busy' \in [Agents -> SUBSET Calls]
BY DEF MemoryOK

LEMMA MemoryKept ==
    ASSUME MemoryOK, UNCHANGED memory
    PROVE  /\ session' \in [Calls -> Agents \cup {None}]
           /\ busy' \in [Agents -> SUBSET Calls]
BY DEF MemoryOK, memory

(* The statements of mediaReady that move on or leave.                     *)
LEMMA ServingMoves ==
    ASSUME TypeInv, NEW p \in Requests, proc[p].pc \in Serving,
           Release(p) \/ Fail(p) \/ \E pc \in Serving : Continue(p, pc)
    PROVE  Moves(p) /\ LocksShrink
<1>0. proc \in [Requests -> ProcRecord] /\ RequestOK(p)
  BY DEF TypeInv, TypeOK
<1>1. CASE Release(p)
  <2>1. Moves(p)
    BY <1>0, <1>1, FinishMoves DEF Release
  <2>2. LocksShrink
    BY <1>1 DEF Release, LocksShrink, outLocks
  <2> QED BY <2>1, <2>2
<1>2. CASE Fail(p) \/ \E pc \in Serving : Continue(p, pc)
  <2>1. PICK pc \in Serving : Goto(p, pc) /\ UNCHANGED locks
    BY <1>2 DEF Fail, Continue, Serving
  <2>2. pc \in PCs \ {"idle", "status", "end"}
    BY DEF PCs, Serving
  <2>3. proc[p].pc \notin NamesNoCall /\ pc \notin Calling
    BY DEF Serving, Calling, NamesNoCall
  <2>4. proc[p].by \in Agents
    BY <1>0, RequestNames DEF NamesAgent
  <2>5. Moves(p)
    BY <1>0, <2>1, <2>2, <2>3, <2>4, GotoMoves
  <2> QED BY <2>1, <2>5, LocksKept
<1> QED BY <1>1, <1>2

(* The statements of initiate that move on or leave.                       *)
LEMMA CallingMoves ==
    ASSUME TypeInv, NEW p \in Requests, proc[p].pc \in Calling,
           \/ OutRelease(p)
           \/ \E pc \in Calling : /\ Continue(p, pc)
                                  /\ proc[p].pc \in NamesNoCall => pc \in NamesNoCall
    PROVE  Moves(p) /\ LocksShrink
<1>0. proc \in [Requests -> ProcRecord] /\ RequestOK(p)
  BY DEF TypeInv, TypeOK
<1>1. CASE OutRelease(p)
  <2>1. Moves(p)
    BY <1>0, <1>1, FinishMoves DEF OutRelease
  <2>2. LocksShrink
    BY <1>1 DEF OutRelease, LocksShrink, mediaLocks
  <2> QED BY <2>1, <2>2
<1>2. CASE ~ OutRelease(p)
  <2>1. PICK pc \in Calling : /\ Goto(p, pc) /\ UNCHANGED locks
                              /\ proc[p].pc \in NamesNoCall => pc \in NamesNoCall
    BY <1>2 DEF Continue
  <2>2. pc \in PCs \ {"idle", "status", "end"}
    BY DEF PCs, Calling
  <2>4. proc[p].by \in Agents /\ proc[p].conv \in Conversations
    BY <1>0, RequestNames DEF NamesAgent
  <2>5. Moves(p)
    BY <1>0, <2>1, <2>2, <2>4, GotoMoves
  <2> QED BY <2>1, <2>5, LocksKept
<1> QED BY <1>1, <1>2

LEMMA WebhookStepOK ==
    ASSUME TypeInv, NEW p \in Requests,
           \/ CreateRow(p) \/ UpdateConnecting(p) \/ PrepareMedia(p) \/ PrepareFailed(p)
           \/ CreateEnded(p)
    PROVE  WorldOK' /\ MemoryOK' /\ Moves(p)
<1>0. /\ WorldOK /\ MemoryOK /\ proc \in [Requests -> ProcRecord] /\ RequestOK(p)
      /\ proc[p].pc \in {"create", "connect", "prepare", "prepare_failed", "create_ended"}
  BY DEF TypeInv, TypeOK, CreateRow, UpdateConnecting, PrepareMedia, PrepareFailed,
         CreateEnded, At
<1>1. proc[p].call \in Calls /\ proc[p].pc \notin NamesNoCall
  BY <1>0, RequestNames DEF NamesNoCall
<1>2. Moves(p)
  <2>1. \/ Finish(p)
        \/ \E pc \in {"prepare", "prepare_failed", "close_media"} : Goto(p, pc)
    BY DEF CreateRow, UpdateConnecting, PrepareMedia, PrepareFailed, CreateEnded
  <2>2. CASE Finish(p)
    BY <1>0, <2>2, FinishMoves
  <2>3. ASSUME NEW pc \in {"prepare", "prepare_failed", "close_media"}, Goto(p, pc)
        PROVE  Moves(p)
    <3>1. pc \in PCs \ {"idle", "status", "end"} /\ pc \notin NamesAgent /\ pc \notin Calling
      BY DEF PCs, NamesAgent, Serving, Calling
    <3> QED BY <1>0, <1>1, <2>3, <3>1, GotoMoves
  <2> QED BY <2>1, <2>2, <2>3
<1>3. WorldOK'
  <2>1. CASE UNCHANGED <<call, world, media>>
    BY <1>0, <2>1, WorldUnchanged
  <2>2. CASE CreateRow(p) /\ ~ UNCHANGED call
    <3>1. /\ call' = [call EXCEPT ![proc[p].call] =
                         [status |-> "RINGING", agent |-> None, last |-> 2]]
          /\ UNCHANGED <<world, media>>
      BY <2>2 DEF CreateRow, Time
    <3>2. "RINGING" \in CallStatus /\ 2 \in 0..8
      BY DEF CallStatus, LIVE
    <3> QED BY <1>0, <1>1, <3>1, <3>2, RowOK
  <2>3. CASE UpdateConnecting(p)
    <3>1. /\ call' = [call EXCEPT ![proc[p].call].status = "RINGING",
                                  ![proc[p].call].last = 2]
          /\ UNCHANGED <<world, media>>
      BY <2>3 DEF UpdateConnecting, Time
    <3>2. "RINGING" \in CallStatus /\ 2 \in 0..8
      BY DEF CallStatus, LIVE
    <3> QED BY <1>0, <1>1, <3>1, <3>2 DEF WorldOK, world, CallRow
  <2>4. CASE PrepareMedia(p)
    <3>1. CASE media' = [media EXCEPT ![proc[p].call].open = TRUE]
      <4>1. media[proc[p].call] \in MediaSession
        BY <1>0, <1>1 DEF WorldOK
      <4>2. [media[proc[p].call] EXCEPT !.open = TRUE] \in MediaSession
        BY <4>1 DEF MediaSession
      <4>3. UNCHANGED <<call, world>>
        BY <2>4 DEF PrepareMedia
      <4> QED BY <1>0, <1>1, <3>1, <4>2, <4>3, MediaOK
    <3>2. CASE UNCHANGED media
      BY <1>0, <2>4, <3>2, WorldUnchanged DEF PrepareMedia
    <3> QED BY <2>4, <3>1, <3>2 DEF PrepareMedia
  <2>5. CASE PrepareFailed(p)
    <3>1. /\ call' = [call EXCEPT ![proc[p].call].status = "REJECTED"]
          /\ UNCHANGED <<world, media>>
      BY <2>5 DEF PrepareFailed
    <3>2. "REJECTED" \in CallStatus
      BY DEF CallStatus, TERMINAL
    <3> QED BY Zenon, <1>0, <1>1, <3>1, <3>2 DEF WorldOK, world, CallRow
  <2>6. CASE CreateEnded(p) /\ ~ UNCHANGED call
    <3>1. /\ call' = [call EXCEPT ![proc[p].call] =
                         [status |-> "ENDED", agent |-> None, last |-> 8]]
          /\ UNCHANGED <<world, media>>
      BY <2>6 DEF CreateEnded, Time
    <3>2. "ENDED" \in CallStatus /\ 8 \in 0..8
      BY DEF CallStatus, TERMINAL
    <3> QED BY <1>0, <1>1, <3>1, <3>2, RowOK
  <2> QED BY <2>1, <2>2, <2>3, <2>4, <2>5, <2>6 DEF CreateRow, CreateEnded
<1>4. MemoryOK'
  <2>1. CASE PrepareFailed(p)
    BY <1>0, <1>1, <2>1, SessionOK, MemoryShrinks, LocksKept DEF PrepareFailed, MemoryOK
  <2>2. CASE ~ PrepareFailed(p)
    BY <1>0, <2>2, MemoryUnchanged
       DEF CreateRow, UpdateConnecting, PrepareMedia, CreateEnded
  <2> QED BY <2>1, <2>2
<1> QED BY <1>2, <1>3, <1>4

LEMMA UpdateOK ==
    ASSUME TypeInv, NEW p \in Requests, UpdateStatus(p) \/ UpdateTerminated(p)
    PROVE  WorldOK' /\ MemoryOK' /\ Moves(p)
<1> DEFINE r == proc[p]
<1>0. /\ WorldOK /\ MemoryOK /\ proc \in [Requests -> ProcRecord] /\ RequestOK(p)
      /\ r.pc \in {"status", "end"} /\ r \in ProcRecord
  BY DEF TypeInv, TypeOK, UpdateStatus, UpdateTerminated, At
<1>1. r.call \in Calls /\ r.to \in CallStatus
  BY <1>0 DEF RequestOK, ProcRecord
<1>2. call[r.call].agent \in Agents \cup {None}
  BY <1>0, <1>1 DEF WorldOK, CallRow
<1>3. Moves(p)
  <2>1. CASE Finish(p)
    BY <1>0, <2>1, FinishMoves
  <2>2. CASE proc' = [proc EXCEPT ![p].pc = "close_media", ![p].agent = call[r.call].agent]
    <3>1. proc' = [proc EXCEPT ![p] = [r EXCEPT !.pc = "close_media",
                                                !.agent = call[r.call].agent]]
      BY <1>0, <2>2
    <3>2. [r EXCEPT !.pc = "close_media", !.agent = call[r.call].agent] \in ProcRecord
      BY <1>0, <1>2 DEF ProcRecord, PCs
    <3>3. /\ proc' \in [Requests -> ProcRecord]
          /\ proc'[p].pc = "close_media" /\ proc'[p].call = r.call
          /\ \A q \in Requests \ {p} : proc'[q] = proc[q]
      BY <1>0, <3>1, <3>2 DEF ProcRecord
    <3>4. RequestOK(p)'
      BY Zenon, <1>1, <3>3 DEF RequestOK, Serving, Calling
    <3> QED BY <3>3, <3>4 DEF Moves
  <2> QED BY <2>1, <2>2 DEF UpdateStatus, UpdateTerminated
<1>4. WorldOK'
  <2>1. PICK l \in {4, 6, 8} :
           /\ call' = [call EXCEPT ![r.call].status = r.to, ![r.call].last = l]
           /\ UNCHANGED <<world, media>>
    BY DEF UpdateStatus, UpdateTerminated, Time
  <2>2. l \in 0..8
    OBVIOUS
  <2> QED BY <1>0, <1>1, <2>1, <2>2, RowOK DEF WorldOK, CallRow, world
<1>5. MemoryOK'
  BY <1>0, MemoryUnchanged DEF UpdateStatus, UpdateTerminated
<1> QED BY <1>3, <1>4, <1>5

LEMMA EndingStepOK ==
    ASSUME TypeInv, NEW p \in Requests,
           \/ CloseMedia(p) \/ Forget(p) \/ Claim(p) \/ AskMeta(p) \/ UpdateByAgent(p)
           \/ JoinClaim(p) \/ JoinAgent(p)
    PROVE  WorldOK' /\ MemoryOK' /\ Moves(p)
<1> DEFINE r == proc[p]
<1>0. /\ WorldOK /\ MemoryOK /\ proc \in [Requests -> ProcRecord] /\ RequestOK(p)
      /\ r.pc \in {"close_media", "forget", "claim", "reject_meta", "terminate_meta",
                   "reject", "terminate", "join_claim", "join"}
  BY DEF TypeInv, TypeOK, CloseMedia, Forget, Claim, AskMeta, UpdateByAgent, JoinClaim,
         JoinAgent, At
<1>1. r.call \in Calls /\ r.pc \notin NamesNoCall
      /\ (r.pc \in {"claim", "join_claim", "join"} => r.by \in Agents)
  BY <1>0, RequestNames DEF NamesNoCall, NamesAgent
<1>2. Moves(p)
  <2>1. CASE Finish(p)
    BY <1>0, <2>1, FinishMoves
  <2>2. ASSUME NEW pc \in {"forget", "reject", "terminate", "close_media"}, Goto(p, pc)
        PROVE  Moves(p)
    <3>1. pc \in PCs \ {"idle", "status", "end"} /\ pc \notin NamesAgent /\ pc \notin Calling
      BY DEF PCs, NamesAgent, Serving, Calling
    <3> QED BY <1>0, <1>1, <2>2, <3>1, GotoMoves
  <2>3. CASE JoinClaim(p) /\ Goto(p, "join")
    <3>1. "join" \in PCs \ {"idle", "status", "end"} /\ "join" \notin Calling
      BY DEF PCs, Calling
    <3>2. r.by \in Agents
      BY <1>1, <2>3 DEF JoinClaim, At
    <3> QED BY <1>0, <1>1, <2>3, <3>1, <3>2, GotoMoves
  <2> QED BY <2>1, <2>2, <2>3
          DEF CloseMedia, Forget, Claim, AskMeta, UpdateByAgent, JoinClaim, JoinAgent
<1>3. WorldOK'
  <2>1. CASE UNCHANGED <<call, world, media>>
    BY <1>0, <2>1, WorldUnchanged
  <2>2. CASE CloseMedia(p)
    <3>1. Closed \in MediaSession
      BY DEF Closed, MediaSession
    <3> QED BY <1>0, <1>1, <2>2, <3>1, MediaOK DEF CloseMedia
  <2>3. CASE AskMeta(p)
    <3>1. CASE Post(r.call, "over", {"terminate"})
      <4>1. {"terminate"} \in SUBSET Events
        BY DEF Events
      <4> QED BY <1>0, <1>1, <2>3, <3>1, <4>1, PostOK DEF AskMeta
    <3>2. CASE UNCHANGED world
      BY <1>0, <2>3, <3>2, WorldUnchanged DEF AskMeta
    <3> QED BY <2>3, <3>1, <3>2 DEF AskMeta
  <2>4. CASE UpdateByAgent(p)
    <3>1. PICK s \in TERMINAL : /\ call' = [call EXCEPT ![r.call].status = s]
                                /\ UNCHANGED <<world, media>>
      BY <2>4 DEF UpdateByAgent, TERMINAL
    <3>2. s \in CallStatus
      BY DEF CallStatus
    <3> QED BY <1>0, <1>1, <3>1, <3>2 DEF WorldOK, world, CallRow
  <2>5. CASE JoinAgent(p)
    <3>1. media[r.call] \in MediaSession /\ r.by \in Agents
      BY <1>0, <1>1, <2>5 DEF WorldOK, JoinAgent, At
    <3>2. [media[r.call] EXCEPT !.agents = @ \cup {r.by}] \in MediaSession
      BY <3>1 DEF MediaSession
    <3> QED BY <1>0, <1>1, <2>5, <3>2, MediaOK, WorldUnchanged DEF JoinAgent
  <2> QED BY <2>1, <2>2, <2>3, <2>4, <2>5 DEF Forget, Claim, JoinClaim
<1>4. MemoryOK'
  <2>1. CASE UNCHANGED memory
    BY <1>0, <2>1, MemoryUnchanged DEF AskMeta, UpdateByAgent, JoinAgent, CloseMedia, Forget,
                                       Claim, JoinClaim
  <2>2. CASE CloseMedia(p)
    BY <1>0, <1>1, <2>2, MemoryShrinks, LocksKept DEF CloseMedia, MemoryOK
  <2>3. CASE Forget(p) \/ Claim(p) \/ JoinClaim(p)
    <3>1. session' \in [Calls -> Agents \cup {None}]
      BY <1>0, <1>1, <2>3 DEF Forget, Claim, JoinClaim, MemoryOK, At
    <3>2. busy' \in [Agents -> SUBSET Calls]
      BY <1>0, <2>3 DEF Forget, Claim, JoinClaim, MemoryOK
    <3>3. UNCHANGED locks /\ UNCHANGED restarts
      BY <2>3 DEF Forget, Claim, JoinClaim
    <3> QED BY <1>0, <3>1, <3>2, <3>3, MemoryShrinks, LocksKept
  <2> QED BY <2>1, <2>2, <2>3 DEF AskMeta, UpdateByAgent, JoinAgent
<1> QED BY <1>2, <1>3, <1>4

LEMMA ReadStepOK ==
    ASSUME TypeInv, NEW p \in Requests,
           \/ FindActive(p) \/ FindCall(p) \/ WaitForAgentReady(p) \/ Recheck(p)
           \/ WaitForMetaReady(p) \/ RecheckLive(p) \/ FailFind(p)
    PROVE  WorldOK' /\ MemoryOK' /\ Moves(p)
<1>0. WorldOK /\ MemoryOK
  BY DEF TypeInv, TypeOK
<1>1. proc[p].pc \in Serving
  BY DEF FindActive, FindCall, WaitForAgentReady, Recheck, WaitForMetaReady, RecheckLive,
         FailFind, At, Serving
<1>2. Release(p) \/ Fail(p) \/ \E pc \in Serving : Continue(p, pc)
  BY DEF FindActive, FindCall, WaitForAgentReady, Recheck, WaitForMetaReady, RecheckLive,
         FailFind, Serving
<1>3. UNCHANGED <<call, world, media, memory, restarts>>
  BY DEF FindActive, FindCall, WaitForAgentReady, Recheck, WaitForMetaReady, RecheckLive,
         FailFind
<1> QED BY <1>0, <1>1, <1>2, <1>3, ServingMoves, WorldUnchanged, MemoryKept, MemoryShrinks

(* The two statements of mediaReady that note how far they got.            *)
LEMMA StageMoves ==
    ASSUME TypeInv, NEW p \in Requests, proc[p].pc \in Serving,
           NEW pc \in Serving, NEW stage \in {"pre", "accepted"}, UNCHANGED locks,
           proc' = [proc EXCEPT ![p].pc = pc, ![p].stage = stage]
    PROVE  Moves(p) /\ LocksShrink
<1> DEFINE r == proc[p]
<1>0. proc \in [Requests -> ProcRecord] /\ r \in ProcRecord /\ RequestOK(p)
  BY DEF TypeInv, TypeOK
<1>1. proc' = [proc EXCEPT ![p] = [r EXCEPT !.pc = pc, !.stage = stage]]
  BY <1>0
<1>2. pc \in PCs /\ pc \notin Calling \cup {"idle", "status", "end"}
      /\ r.pc \notin NamesNoCall
  BY DEF PCs, Serving, Calling, NamesNoCall
<1>3. r.call \in Calls /\ r.by \in Agents
  BY <1>0, <1>2, RequestNames DEF NamesAgent
<1>4. [r EXCEPT !.pc = pc, !.stage = stage] \in ProcRecord
  BY <1>0, <1>2 DEF ProcRecord
<1>5. /\ proc' \in [Requests -> ProcRecord]
      /\ proc'[p].pc = pc /\ proc'[p].call = r.call /\ proc'[p].by = r.by
      /\ \A q \in Requests \ {p} : proc'[q] = proc[q]
  BY <1>0, <1>1, <1>4 DEF ProcRecord
<1>6. RequestOK(p)'
  BY <1>2, <1>3, <1>5 DEF RequestOK
<1> QED BY <1>5, <1>6, LocksKept DEF Moves

LEMMA MetaStepOK ==
    ASSUME TypeInv, NEW p \in Requests, PreAccept(p) \/ AcceptAtMeta(p) \/ FailMeta(p)
    PROVE  WorldOK' /\ MemoryOK' /\ Moves(p)
<1> DEFINE c == proc[p].call
<1>0. WorldOK /\ MemoryOK /\ RequestOK(p)
  BY DEF TypeInv, TypeOK
<1>1. proc[p].pc \in Serving
  BY DEF PreAccept, AcceptAtMeta, FailMeta, At, Serving
<1>2. c \in Calls
  BY <1>0, <1>1, RequestNames DEF Serving, NamesNoCall
<1>3. Moves(p) /\ LocksShrink
  <2>1. CASE \/ Release(p) \/ Fail(p) \/ \E pc \in Serving : Continue(p, pc)
    BY <1>1, <2>1, ServingMoves
  <2>2. ASSUME NEW pc \in {"meta_ready", "meta_ready_again"},
               NEW stage \in {"pre", "accepted"}, UNCHANGED locks,
               proc' = [proc EXCEPT ![p].pc = pc, ![p].stage = stage]
        PROVE  Moves(p) /\ LocksShrink
    <3>1. pc \in Serving
      BY DEF Serving
    <3> QED BY <1>1, <2>2, <3>1, StageMoves
  <2>3. "fail_close" \in Serving
    BY DEF Serving
  <2> QED BY <2>1, <2>2, <2>3 DEF PreAccept, AcceptAtMeta, FailMeta
<1>4. WorldOK'
  <2>1. CASE UNCHANGED world
    BY <1>0, <2>1, WorldUnchanged DEF PreAccept, AcceptAtMeta, FailMeta
  <2>2. CASE ~ UNCHANGED world
    <3>1. /\ Post(c, "accepted", {}) \/ Post(c, "over", {"terminate"})
          /\ UNCHANGED <<call, media>>
      BY <2>2 DEF PreAccept, AcceptAtMeta, FailMeta, HangUp
    <3>2. {} \in SUBSET Events /\ {"terminate"} \in SUBSET Events
      BY DEF Events
    <3> QED BY <1>0, <1>2, <3>1, <3>2, PostOK
  <2> QED BY <2>1, <2>2
<1>5. MemoryOK'
  BY <1>0, <1>3, MemoryKept, MemoryShrinks DEF PreAccept, AcceptAtMeta, FailMeta
<1> QED BY <1>3, <1>4, <1>5

LEMMA GatewayStepOK ==
    ASSUME TypeInv, NEW p \in Requests, SetCurrentAgent(p) \/ FailRemove(p) \/ FailClose(p)
    PROVE  WorldOK' /\ MemoryOK' /\ Moves(p)
<1> DEFINE r == proc[p]
<1>0. WorldOK /\ MemoryOK /\ RequestOK(p)
  BY DEF TypeInv, TypeOK
<1>1. r.pc \in Serving
  BY DEF SetCurrentAgent, FailRemove, FailClose, At, Serving
<1>2. r.call \in Calls /\ r.by \in Agents
  BY <1>0, <1>1, RequestNames DEF Serving, NamesNoCall, NamesAgent
<1>3. Moves(p) /\ LocksShrink
  BY <1>1, ServingMoves DEF SetCurrentAgent, FailRemove, FailClose, Serving
<1>4. WorldOK'
  <2>1. media[r.call] \in MediaSession
    BY <1>0, <1>2 DEF WorldOK
  <2>2. CASE UNCHANGED media
    BY <1>0, <2>2, WorldUnchanged DEF SetCurrentAgent, FailRemove, FailClose
  <2>3. CASE SetCurrentAgent(p) /\ ~ UNCHANGED media
    <3>1. [media[r.call] EXCEPT !.current = r.by] \in MediaSession
      BY <1>2, <2>1 DEF MediaSession
    <3> QED BY <1>0, <1>2, <2>3, <3>1, MediaOK DEF SetCurrentAgent
  <2>4. CASE FailRemove(p) /\ ~ UNCHANGED media
    BY <1>0, <1>2, <2>1, <2>4 DEF FailRemove, WorldOK, MediaSession, world
  <2>5. CASE FailClose(p) /\ ~ UNCHANGED media
    <3>1. Closed \in MediaSession
      BY DEF Closed, MediaSession
    <3> QED BY <1>0, <1>2, <2>5, <3>1, MediaOK DEF FailClose
  <2> QED BY <2>2, <2>3, <2>4, <2>5
<1>5. MemoryOK'
  BY <1>0, <1>3, MemoryKept, MemoryShrinks DEF SetCurrentAgent, FailRemove, FailClose
<1> QED BY <1>3, <1>4, <1>5

LEMMA OutcomeOK ==
    ASSUME TypeInv, NEW p \in Requests, Activate(p) \/ FailUpdate(p)
    PROVE  WorldOK' /\ MemoryOK' /\ Moves(p)
<1> DEFINE r == proc[p]
<1>0. WorldOK /\ MemoryOK /\ RequestOK(p)
  BY DEF TypeInv, TypeOK
<1>1. r.pc \in Serving
  BY DEF Activate, FailUpdate, At, Serving
<1>2. r.call \in Calls /\ r.by \in Agents
  BY <1>0, <1>1, RequestNames DEF Serving, NamesNoCall, NamesAgent
<1>3. Moves(p) /\ LocksShrink
  BY <1>1, ServingMoves DEF Activate, FailUpdate
<1>4. "ACTIVE" \in CallStatus /\ "REJECTED" \in CallStatus
  BY DEF CallStatus, LIVE, TERMINAL
<1>5. WorldOK'
  <2>1. call[r.call] \in CallRow
    BY <1>0, <1>2 DEF WorldOK
  <2>2. CASE Activate(p)
    <3>1. call' = [call EXCEPT ![r.call] = [call[r.call] EXCEPT !.status = "ACTIVE",
                                                               !.agent = r.by]]
      BY <1>0, <2>2 DEF Activate, WorldOK
    <3>2. [call[r.call] EXCEPT !.status = "ACTIVE", !.agent = r.by] \in CallRow
      BY <1>2, <1>4, <2>1 DEF CallRow
    <3>3. UNCHANGED <<world, media>>
      BY <2>2 DEF Activate
    <3> QED BY <1>0, <1>2, <3>1, <3>2, <3>3, RowReplaced
  <2>3. CASE FailUpdate(p)
    <3>1. call' = [call EXCEPT ![r.call] = [call[r.call] EXCEPT !.status = "REJECTED"]]
      BY <2>3 DEF FailUpdate
    <3>2. [call[r.call] EXCEPT !.status = "REJECTED"] \in CallRow
      BY <1>4, <2>1 DEF CallRow
    <3>3. UNCHANGED <<world, media>>
      BY <2>3 DEF FailUpdate
    <3> QED BY <1>0, <1>2, <3>1, <3>2, <3>3, RowReplaced
  <2> QED BY <2>2, <2>3
<1>6. MemoryOK'
  <2>1. /\ session' \in [Calls -> Agents \cup {None}]
        /\ busy' \in [Agents -> SUBSET Calls]
    BY <1>0, <1>2 DEF Activate, FailUpdate, MemoryOK
  <2> QED BY <1>0, <1>3, <2>1, MemoryShrinks DEF Activate, FailUpdate
<1> QED BY <1>3, <1>5, <1>6

LEMMA InitiateStepOK ==
    ASSUME TypeInv, NEW p \in Requests,
           \/ FindAgentCall(p) \/ FindConversationCall(p) \/ InitiateAtMeta(p)
           \/ BindSession(p) \/ CreateOutbound(p)
    PROVE  WorldOK' /\ MemoryOK' /\ Moves(p)
<1> DEFINE r == proc[p]
<1>0. WorldOK /\ MemoryOK /\ RequestOK(p) /\ proc \in [Requests -> ProcRecord]
      /\ r \in ProcRecord
  BY DEF TypeInv, TypeOK
<1>1. r.pc \in Calling
  BY DEF FindAgentCall, FindConversationCall, InitiateAtMeta, BindSession, CreateOutbound,
         At, Calling
<1>2. r.by \in Agents /\ r.conv \in Conversations
  BY <1>0, <1>1, RequestNames DEF NamesAgent
<1>3. CASE FindAgentCall(p) \/ FindConversationCall(p)
  <2>1. \/ OutRelease(p)
        \/ \E pc \in {"out_conv", "out_meta"} : Continue(p, pc)
    BY <1>3 DEF FindAgentCall, FindConversationCall
  <2>2. {"out_conv", "out_meta"} \subseteq Calling \cap NamesNoCall
    BY DEF Calling, NamesNoCall
  <2>3. Moves(p) /\ LocksShrink
    BY <1>1, <2>1, <2>2, CallingMoves
  <2> QED BY <1>0, <1>3, <2>3, WorldUnchanged, MemoryKept, MemoryShrinks
          DEF FindAgentCall, FindConversationCall
<1>4. CASE InitiateAtMeta(p)
  <2>1. CASE UNCHANGED world /\ OutRelease(p)
    <3>1. Moves(p) /\ LocksShrink
      BY <1>1, <2>1, CallingMoves
    <3> QED BY <1>0, <1>4, <2>1, <3>1, WorldUnchanged, MemoryKept, MemoryShrinks
            DEF InitiateAtMeta
  <2>2. ASSUME NEW c \in Outbound, Post(c, "ringing", {"connect", "ringing"}),
               proc' = [proc EXCEPT ![p].pc = "out_bind", ![p].call = c], UNCHANGED locks
        PROVE  WorldOK' /\ MemoryOK' /\ Moves(p)
    <3>1. c \in Calls /\ {"connect", "ringing"} \in SUBSET Events
      BY ConstantsAssumption DEF Events
    <3>2. WorldOK'
      BY <1>0, <1>4, <2>2, <3>1, PostOK DEF InitiateAtMeta
    <3>3. MemoryOK'
      BY <1>0, <1>4, <2>2, MemoryUnchanged DEF InitiateAtMeta
    <3>4. proc' = [proc EXCEPT ![p] = [r EXCEPT !.pc = "out_bind", !.call = c]]
      BY <1>0, <2>2
    <3>5. [r EXCEPT !.pc = "out_bind", !.call = c] \in ProcRecord
      <4>1. "out_bind" \in PCs
        BY DEF PCs
      <4> QED BY <1>0, <3>1, <4>1 DEF ProcRecord
    <3>6. /\ proc' \in [Requests -> ProcRecord]
          /\ proc'[p].pc = "out_bind" /\ proc'[p].call = c
          /\ proc'[p].by = r.by /\ proc'[p].conv = r.conv
          /\ \A q \in Requests \ {p} : proc'[q] = proc[q]
      BY <1>0, <3>4, <3>5 DEF ProcRecord
    <3>7. RequestOK(p)'
      BY <1>2, <3>1, <3>6 DEF RequestOK
    <3> QED BY <3>2, <3>3, <3>6, <3>7 DEF Moves
  <2>3. ASSUME NEW c \in Outbound, Post(c, "ringing", {"connect", "ringing"}), OutRelease(p)
        PROVE  WorldOK' /\ MemoryOK' /\ Moves(p)
    <3>1. c \in Calls /\ {"connect", "ringing"} \in SUBSET Events
      BY ConstantsAssumption DEF Events
    <3>2. WorldOK'
      BY <1>0, <1>4, <2>3, <3>1, PostOK DEF InitiateAtMeta
    <3>3. Moves(p) /\ LocksShrink
      BY <1>1, <2>3, CallingMoves
    <3>4. MemoryOK'
      BY <1>0, <1>4, <3>3, MemoryKept, MemoryShrinks DEF InitiateAtMeta
    <3> QED BY <3>2, <3>3, <3>4
  <2> QED BY <1>4, <2>1, <2>2, <2>3 DEF InitiateAtMeta
<1>5. CASE BindSession(p) \/ CreateOutbound(p)
  <2>1. r.pc \notin NamesNoCall /\ r.call \in Calls
    BY <1>0, <1>5, RequestNames DEF BindSession, CreateOutbound, At, NamesNoCall
  <2>2. Moves(p) /\ LocksShrink
    <3>1. "out_create" \in Calling
      BY DEF Calling
    <3> QED BY <1>1, <1>5, <2>1, <3>1, CallingMoves DEF BindSession, CreateOutbound
  <2>3. WorldOK'
    <3>1. CASE UNCHANGED <<call, media>>
      BY <1>0, <1>5, <3>1, WorldUnchanged DEF BindSession, CreateOutbound
    <3>2. CASE BindSession(p) /\ ~ UNCHANGED media
      <4>1. [open |-> TRUE, agents |-> {r.by}, current |-> r.by] \in MediaSession
        BY <1>2 DEF MediaSession
      <4> QED BY <1>0, <2>1, <3>2, <4>1, MediaOK DEF BindSession
    <3>3. CASE CreateOutbound(p) /\ ~ UNCHANGED call
      <4>1. PICK now \in {1, 5, 7} :
               call' = [call EXCEPT ![r.call] = [status |-> "RINGING", agent |-> r.by,
                                                 last |-> now]]
        BY <3>3 DEF CreateOutbound
      <4>2. now \in 0..8 /\ "RINGING" \in CallStatus
        BY DEF CallStatus, LIVE
      <4> QED BY <1>0, <1>2, <2>1, <3>3, <4>1, <4>2, RowOK DEF CreateOutbound
    <3> QED BY <1>5, <3>1, <3>2, <3>3 DEF BindSession, CreateOutbound
  <2>4. /\ session' \in [Calls -> Agents \cup {None}]
        /\ busy' \in [Agents -> SUBSET Calls]
    BY <1>0, <1>2, <1>5, <2>1 DEF BindSession, CreateOutbound, MemoryOK
  <2>5. UNCHANGED restarts
    BY <1>5 DEF BindSession, CreateOutbound
  <2> QED BY <1>0, <2>2, <2>3, <2>4, <2>5, MemoryShrinks
<1> QED BY <1>3, <1>4, <1>5

LEMMA RequestStepOK ==
    ASSUME TypeInv, NEW p \in Requests, Step(p)
    PROVE  WorldOK' /\ MemoryOK' /\ Moves(p)
BY WebhookStepOK, UpdateOK, EndingStepOK, ReadStepOK, MetaStepOK, GatewayStepOK, OutcomeOK,
   InitiateStepOK DEF Step

-----------------------------------------------------------------------------
(* Customers and restarts.                                                 *)
LEMMA CustomerOK ==
    ASSUME TypeInv, NEW c \in Calls, Customer(c), Remember
    PROVE  TypeInv'
<1>1. WorldOK /\ MemoryOK /\ UNCHANGED proc
  BY DEF TypeInv, TypeOK, Customer
<1>2. WorldOK'
  <2>1. PICK s \in {"ringing", "accepted", "over"}, e \in SUBSET Events :
           Post(c, s, e) /\ UNCHANGED <<call, media>>
    <3>1. {{"connect"}, {"terminate"}, {"accepted"}, {"rejected", "terminate"}}
             \subseteq SUBSET Events
      BY DEF Events
    <3> QED BY <3>1 DEF Customer
  <2> QED BY <1>1, <2>1, PostOK
<1>3. MemoryOK'
  BY <1>1, MemoryUnchanged DEF Customer
<1>4. \A p \in Requests : RequestOK(p)'
  BY <1>1 DEF TypeInv, RequestOK
<1> QED BY <1>1, <1>2, <1>3, <1>4, RememberOK DEF TypeInv, TypeOK

LEMMA RestartOK ==
    ASSUME TypeInv, Restart, Remember
    PROVE  TypeInv'
<1>1. WorldOK /\ MemoryOK
  BY DEF TypeInv, TypeOK
<1>2. WorldOK'
  BY <1>1, WorldUnchanged DEF Restart
<1>3. MemoryOK'
  BY <1>1, ConstantsAssumption DEF Restart, MemoryOK
<1>4. proc' \in [Requests -> ProcRecord]
  <2>1. Idle \in ProcRecord
    BY DEF Idle, ProcRecord, PCs, CallStatus
  <2> QED BY <2>1 DEF Restart
<1>5. \A p \in Requests : RequestOK(p)'
  BY DEF Restart, RequestOK, Idle, Serving, Calling
<1> QED BY <1>2, <1>3, <1>4, <1>5, RememberOK DEF TypeInv, TypeOK

LEMMA NextTypeInv ==
    ASSUME TypeInv, [Next]_vars PROVE TypeInv'
<1>1. CASE UNCHANGED vars
  BY <1>1 DEF vars, TypeInv, TypeOK, WorldOK, MemoryOK, RequestOK
<1>2. CASE Next
  <2>1. Remember
    BY <1>2 DEF Next
  <2>2. ASSUME NEW p \in Requests, Arrival(p) \/ Step(p) PROVE TypeInv'
    BY <2>1, <2>2, ArrivalOK, RequestStepOK, StepOK
  <2> QED BY <1>2, <2>1, <2>2, CustomerOK, RestartOK DEF Next
<1> QED BY <1>1, <1>2

(* Every variable keeps the shape the code gives it, and a request blocked *)
(* on an await of call.service.js still names the call, the agent and the  *)
(* conversation that it will write when it resumes: no handler resumes     *)
(* with half of its arguments, however requests, webhooks, faults and      *)
(* restarts are interleaved.                                               *)
THEOREM TypeCorrect == Spec => []TypeInv
<1>1. TypeInv /\ [Next]_vars => TypeInv'
  BY NextTypeInv
<1> QED BY InitTypeInv, <1>1, PTL DEF Spec

=============================================================================
