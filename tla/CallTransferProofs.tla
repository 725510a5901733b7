------------------------- MODULE CallTransferProofs -------------------------
(***************************************************************************)
(* Proofs about CallTransfer for every set of agents, clients, calls,      *)
(* transfers and requests.                                                 *)
(***************************************************************************)
EXTENDS CallTransferProps, TLAPS

USE DEF IndexAllows, OfferStands, Overdue, Completes, LocksFree, PresenceMoved, KeyMoved

(* The initial states satisfy the type invariant.                          *)
LEMMA InitTypeInv == Init => TypeInv
<1> SUFFICES ASSUME Init PROVE TypeInv
  OBVIOUS
<1>. USE ConstantsAssumption
<1>1. PICK cl \in [Calls -> Clients] :
        /\ call = [c \in Calls |-> [status |-> "ACTIVE", agent |-> AgentOf[cl[c]],
                                    hungup |-> FALSE]]
        /\ assigned = [c \in Calls |-> None]
        /\ transfer = [t \in Transfers |-> NoTransfer]
        /\ busy = [a \in Agents |-> {c \in Calls : AgentOf[cl[c]] = a}]
        /\ session = [k \in Calls \cup Transfers |-> IF k \in Calls THEN cl[k] ELSE None]
        /\ activating = {} /\ mediaAgents = {}
        /\ proc = [p \in Procs |-> Idle]
        /\ restarts = 0
        /\ gateway = [c \in Calls |-> [open |-> TRUE, agents |-> {AgentOf[cl[c]]},
                                       current |-> AgentOf[cl[c]]]]
  BY DEF Init
<1>2. \A c \in Calls : AgentOf[cl[c]] \in Agents
  OBVIOUS
<1>3. RowsOK
  BY <1>1, <1>2 DEF RowsOK, TransferRow, NoTransfer, TransferStatus
<1>4. MemoryOK
  BY <1>1, <1>2 DEF MemoryOK, GatewaySession
<1>5. proc \in [Procs -> ProcRecord]
  BY <1>1 DEF ProcRecord, Idle, PCs
<1>6. \A p \in Procs : RequestOK(p)
  BY <1>1 DEF RequestOK, Idle, TransferPCs, LockPCs
<1> QED BY <1>3, <1>4, <1>5, <1>6 DEF TypeInv, TypeOK

-----------------------------------------------------------------------------
(* How a request moves.                                                    *)
LEMMA BeginProc ==
    ASSUME proc \in [Procs -> ProcRecord], NEW p \in Procs, NEW pc \in PCs,
           NEW cl \in Clients \cup {None}, NEW c \in Calls \cup {None},
           NEW t \in Transfers \cup {None}, NEW a \in Agents \cup {None},
           Begin(p, pc, cl, c, t, a)
    PROVE  /\ proc' \in [Procs -> ProcRecord]
           /\ proc'[p] = [pc |-> pc, by |-> cl, call |-> c, t |-> t, agent |-> a]
           /\ \A q \in Procs \ {p} : proc'[q] = proc[q]
BY DEF Begin, ProcRecord

LEMMA GotoProc ==
    ASSUME proc \in [Procs -> ProcRecord], NEW p \in Procs, NEW pc \in PCs,
           Goto(p, pc)
    PROVE  /\ proc' \in [Procs -> ProcRecord]
           /\ proc'[p] = [proc[p] EXCEPT !.pc = pc]
           /\ \A q \in Procs \ {p} : proc'[q] = proc[q]
BY DEF Goto, ProcRecord

LEMMA FinishProc ==
    ASSUME proc \in [Procs -> ProcRecord], NEW p \in Procs, Finish(p)
    PROVE  /\ proc' \in [Procs -> ProcRecord]
           /\ proc'[p] = Idle
           /\ \A q \in Procs \ {p} : proc'[q] = proc[q]
BY DEF Finish, Idle, ProcRecord, PCs

(* The shape of what the other requests work on.                           *)
KeepsTransfers ==
    \A t \in Transfers : transfer[t].status # "NONE" =>
        /\ transfer'[t].status # "NONE"
        /\ transfer'[t].call = transfer[t].call
        /\ transfer'[t].from = transfer[t].from
        /\ transfer'[t].to = transfer[t].to

LEMMA OthersOK ==
    ASSUME KeepsTransfers, NEW q \in Procs, RequestOK(q), proc'[q] = proc[q]
    PROVE  RequestOK(q)'
BY DEF KeepsTransfers, RequestOK

LEMMA IdleOK ==
    ASSUME NEW p \in Procs, proc'[p] = Idle PROVE RequestOK(p)'
BY DEF RequestOK, Idle, TransferPCs, LockPCs

(* A step of p keeps the type invariant when it keeps the four parts.      *)
LEMMA StepOK ==
    ASSUME TypeInv, NEW p \in Procs, KeepsTransfers, RowsOK', MemoryOK',
           proc' \in [Procs -> ProcRecord], RequestOK(p)',
           \A q \in Procs \ {p} : proc'[q] = proc[q]
    PROVE  TypeInv'
<1>1. ASSUME NEW q \in Procs PROVE RequestOK(q)'
  <2>1. CASE q = p
    BY <2>1
  <2>2. CASE q # p
    BY <2>2, OthersOK DEF TypeInv
  <2> QED BY <2>1, <2>2
<1> QED BY <1>1 DEF TypeInv, TypeOK

LEMMA RowsUnchanged ==
    ASSUME RowsOK, UNCHANGED database PROVE RowsOK' /\ KeepsTransfers
BY DEF RowsOK, database, KeepsTransfers

LEMMA MemoryUnchanged ==
    ASSUME MemoryOK, UNCHANGED <<busy, session, activating, mediaAgents, restarts, gateway>>
    PROVE  MemoryOK'
BY DEF MemoryOK

(* A transition of a row.                                                  *)
LEMMA RowMoves ==
    ASSUME RowsOK, NEW t \in Transfers, NEW s \in TransferStatus \ {"NONE"},
           transfer[t].status # "NONE", UNCHANGED <<call, assigned>>,
           transfer' = [transfer EXCEPT ![t].status = s]
    PROVE  RowsOK' /\ KeepsTransfers
BY DEF RowsOK, TransferRow, KeepsTransfers

LEMMA SessionRemoved ==
    ASSUME session \in [Calls \cup Transfers -> Clients \cup {None}], NEW k
    PROVE  RemoveSession(session, k) \in [Calls \cup Transfers -> Clients \cup {None}]
BY DEF RemoveSession

-----------------------------------------------------------------------------
(* A request that arrives keeps the type invariant.                        *)
LEMMA ArrivalOK ==
    ASSUME TypeInv, NEW p \in Requests, Arrival(p) PROVE TypeInv'
<1>. USE ConstantsAssumption
<1>0. p \in Procs /\ RowsOK /\ MemoryOK /\ proc \in [Procs -> ProcRecord]
  BY DEF Procs, TypeInv, TypeOK
<1>1. ASSUME NEW cl \in Clients, NEW c \in Calls, NEW to \in Agents,
             RequestTransfer(p, cl, c, to)
      PROVE  TypeInv'
  <2>1. RowsOK' /\ KeepsTransfers
    BY <1>0, <1>1, RowsUnchanged DEF RequestTransfer
  <2>2. MemoryOK'
    BY <1>0, <1>1, MemoryUnchanged DEF RequestTransfer, memory
  <2>3. Begin(p, "find_target", cl, c, None, to) /\ c \in Calls /\ to # AgentOf[cl]
    BY <1>0, <1>1 DEF RequestTransfer, RowsOK
  <2>4. /\ proc' \in [Procs -> ProcRecord]
        /\ proc'[p] = [pc |-> "find_target", by |-> cl, call |-> c, t |-> None, agent |-> to]
        /\ \A q \in Procs \ {p} : proc'[q] = proc[q]
    BY <1>0, <2>3, BeginProc DEF PCs
  <2>5. RequestOK(p)'
    BY <2>1, <2>3, <2>4 DEF RequestOK, TransferPCs, LockPCs
  <2> QED BY <1>0, <2>1, <2>2, <2>4, <2>5, StepOK
<1>2. ASSUME NEW cl \in Clients, NEW c \in Calls,
             ClaimCall(p, cl, c)
      PROVE  TypeInv'
  <2>1. RowsOK' /\ KeepsTransfers
    BY <1>0, <1>2, RowsUnchanged DEF ClaimCall
  <2>2. MemoryOK'
    BY <1>0, <1>2, MemoryUnchanged DEF ClaimCall, memory
  <2>3. Begin(p, "claim", cl, c, None, None) /\ c \in Calls
    BY <1>0, <1>2 DEF ClaimCall, RowsOK
  <2>4. /\ proc' \in [Procs -> ProcRecord]
        /\ proc'[p] = [pc |-> "claim", by |-> cl, call |-> c, t |-> None, agent |-> None]
        /\ \A q \in Procs \ {p} : proc'[q] = proc[q]
    BY <1>0, <2>3, BeginProc DEF PCs
  <2>5. RequestOK(p)'
    BY <2>1, <2>3, <2>4 DEF RequestOK, TransferPCs, LockPCs
  <2> QED BY <1>0, <2>1, <2>2, <2>4, <2>5, StepOK
<1>3. ASSUME NEW cl \in Clients, NEW c \in Calls,
             TerminateCall(p, cl, c)
      PROVE  TypeInv'
  <2>1. RowsOK' /\ KeepsTransfers
    BY <1>0, <1>3, RowsUnchanged DEF TerminateCall
  <2>2. MemoryOK'
    BY <1>0, <1>3, MemoryUnchanged DEF TerminateCall, memory
  <2>3. Begin(p, "terminate", cl, c, None, call[c].agent) /\ c \in Calls /\ call[c].agent \in Agents
    BY <1>0, <1>3 DEF TerminateCall, RowsOK
  <2>4. /\ proc' \in [Procs -> ProcRecord]
        /\ proc'[p] = [pc |-> "terminate", by |-> cl, call |-> c, t |-> None, agent |-> call[c].agent]
        /\ \A q \in Procs \ {p} : proc'[q] = proc[q]
    BY <1>0, <2>3, BeginProc DEF PCs
  <2>5. RequestOK(p)'
    BY <2>1, <2>3, <2>4 DEF RequestOK, TransferPCs, LockPCs
  <2> QED BY <1>0, <2>1, <2>2, <2>4, <2>5, StepOK
<1>4. ASSUME NEW cl \in Clients, NEW t \in Transfers,
             AcceptTransfer(p, cl, t)
      PROVE  TypeInv'
  <2>1. RowsOK' /\ KeepsTransfers
    BY <1>0, <1>4, RowsUnchanged DEF AcceptTransfer
  <2>2. MemoryOK'
    <3>1. session' \in [Calls \cup Transfers -> Clients \cup {None}]
      BY <1>0, <1>4 DEF AcceptTransfer, MemoryOK
    <3>2. UNCHANGED <<busy, activating, mediaAgents, restarts, gateway>>
      BY <1>4 DEF AcceptTransfer
    <3> QED BY <1>0, <3>1, <3>2 DEF MemoryOK
  <2>3. transfer[t].call \in Calls /\ transfer[t].status # "NONE"
    BY <1>0, <1>4 DEF AcceptTransfer, RowsOK
  <2>4. ASSUME NEW pc \in {"expire_late", "accept"},
               Begin(p, pc, cl, transfer[t].call, t, None)
        PROVE  TypeInv'
    <3>0. pc \in PCs /\ transfer[t].call \in Calls \cup {None}
      BY <2>3 DEF PCs
    <3>1. /\ proc' \in [Procs -> ProcRecord]
          /\ proc'[p] = [pc |-> pc, by |-> cl, call |-> transfer[t].call, t |-> t,
                         agent |-> None]
          /\ \A q \in Procs \ {p} : proc'[q] = proc[q]
      BY <1>0, <2>4, <3>0, BeginProc
    <3>2. RequestOK(p)'
      BY <2>1, <2>3, <3>1 DEF RequestOK, TransferPCs, LockPCs, KeepsTransfers
    <3> QED BY <1>0, <2>1, <2>2, <3>1, <3>2, StepOK
  <2>5. CASE transfer[t].due
    <3>1. Begin(p, "expire_late", cl, transfer[t].call, t, None)
      BY <1>4, <2>5 DEF AcceptTransfer
    <3> QED BY <2>4, <3>1
  <2>6. CASE ~transfer[t].due
    <3>1. Begin(p, "accept", cl, transfer[t].call, t, None)
      BY <1>4, <2>6 DEF AcceptTransfer
    <3> QED BY <2>4, <3>1
  <2> QED BY <2>5, <2>6
<1>5. ASSUME NEW cl \in Clients, NEW t \in Transfers,
             RejectTransfer(p, cl, t)
      PROVE  TypeInv'
  <2>1. RowsOK' /\ KeepsTransfers
    BY <1>0, <1>5, RowsUnchanged DEF RejectTransfer
  <2>2. MemoryOK'
    BY <1>0, <1>5, MemoryUnchanged DEF RejectTransfer, memory
  <2>3. Begin(p, "REJECTED", cl, transfer[t].call, t, None) /\ transfer[t].call \in Calls
    BY <1>0, <1>5 DEF RejectTransfer, RowsOK
  <2>4. /\ proc' \in [Procs -> ProcRecord]
        /\ proc'[p] = [pc |-> "REJECTED", by |-> cl, call |-> transfer[t].call, t |-> t, agent |-> None]
        /\ \A q \in Procs \ {p} : proc'[q] = proc[q]
    BY <1>0, <2>3, BeginProc DEF PCs
  <2>5. RequestOK(p)'
    BY <1>5, <2>1, <2>3, <2>4 DEF RequestOK, TransferPCs, LockPCs, KeepsTransfers, RejectTransfer
  <2> QED BY <1>0, <2>1, <2>2, <2>4, <2>5, StepOK
<1>6. ASSUME NEW cl \in Clients, NEW t \in Transfers,
             CancelTransfer(p, cl, t)
      PROVE  TypeInv'
  <2>1. RowsOK' /\ KeepsTransfers
    BY <1>0, <1>6, RowsUnchanged DEF CancelTransfer
  <2>2. MemoryOK'
    BY <1>0, <1>6, MemoryUnchanged DEF CancelTransfer, memory
  <2>3. Begin(p, "CANCELLED", cl, transfer[t].call, t, None) /\ transfer[t].call \in Calls
    BY <1>0, <1>6 DEF CancelTransfer, RowsOK
  <2>4. /\ proc' \in [Procs -> ProcRecord]
        /\ proc'[p] = [pc |-> "CANCELLED", by |-> cl, call |-> transfer[t].call, t |-> t, agent |-> None]
        /\ \A q \in Procs \ {p} : proc'[q] = proc[q]
    BY <1>0, <2>3, BeginProc DEF PCs
  <2>5. RequestOK(p)'
    BY <1>6, <2>1, <2>3, <2>4 DEF RequestOK, TransferPCs, LockPCs, KeepsTransfers, CancelTransfer
  <2> QED BY <1>0, <2>1, <2>2, <2>4, <2>5, StepOK
<1>7. ASSUME NEW cl \in Clients, NEW t \in Transfers,
             JoinMedia(p, cl, t)
      PROVE  TypeInv'
  <2>1. RowsOK' /\ KeepsTransfers
    BY <1>0, <1>7, RowsUnchanged DEF JoinMedia
  <2>2. MemoryOK'
    BY <1>0, <1>7 DEF JoinMedia, MemoryOK
  <2>3. Begin(p, "join", cl, transfer[t].call, t, None) /\ transfer[t].call \in Calls
    BY <1>0, <1>7 DEF JoinMedia, RowsOK
  <2>4. /\ proc' \in [Procs -> ProcRecord]
        /\ proc'[p] = [pc |-> "join", by |-> cl, call |-> transfer[t].call, t |-> t, agent |-> None]
        /\ \A q \in Procs \ {p} : proc'[q] = proc[q]
    BY <1>0, <2>3, BeginProc DEF PCs
  <2>5. RequestOK(p)'
    BY <1>7, <2>1, <2>3, <2>4 DEF RequestOK, TransferPCs, LockPCs, KeepsTransfers, JoinMedia
  <2> QED BY <1>0, <2>1, <2>2, <2>4, <2>5, StepOK
<1>8. ASSUME NEW cl \in Clients, NEW t \in Transfers,
             MediaReady(p, cl, t)
      PROVE  TypeInv'
  <2>1. RowsOK' /\ KeepsTransfers
    BY <1>0, <1>8, RowsUnchanged DEF MediaReady
  <2>2. MemoryOK'
    BY <1>0, <1>8 DEF MediaReady, MemoryOK, RowsOK
  <2>3. Begin(p, "find_active", cl, transfer[t].call, t, None) /\ transfer[t].call \in Calls
    BY <1>0, <1>8 DEF MediaReady, RowsOK
  <2>4. /\ proc' \in [Procs -> ProcRecord]
        /\ proc'[p] = [pc |-> "find_active", by |-> cl, call |-> transfer[t].call, t |-> t, agent |-> None]
        /\ \A q \in Procs \ {p} : proc'[q] = proc[q]
    BY <1>0, <2>3, BeginProc DEF PCs
  <2>5. RequestOK(p)'
    BY <1>8, <2>1, <2>3, <2>4 DEF RequestOK, TransferPCs, LockPCs, KeepsTransfers, MediaReady
  <2> QED BY <1>0, <2>1, <2>2, <2>4, <2>5, StepOK

<1>9. ASSUME NEW c \in Calls, CallTerminated(p, c)
      PROVE  TypeInv'
  <2>1. RowsOK' /\ KeepsTransfers
    BY <1>0, <1>9 DEF CallTerminated, RowsOK, KeepsTransfers
  <2>2. MemoryOK'
    BY <1>0, <1>9, MemoryUnchanged DEF CallTerminated, memory
  <2>3. Begin(p, "close_media", None, c, None, call[c].agent) /\ call[c].agent \in Agents
    BY <1>0, <1>9 DEF CallTerminated, RowsOK
  <2>4. /\ proc' \in [Procs -> ProcRecord]
        /\ proc'[p] = [pc |-> "close_media", by |-> None, call |-> c, t |-> None,
                       agent |-> call[c].agent]
        /\ \A q \in Procs \ {p} : proc'[q] = proc[q]
    BY <1>0, <2>3, BeginProc DEF PCs
  <2>5. RequestOK(p)'
    BY <2>3, <2>4 DEF RequestOK, TransferPCs, LockPCs
  <2> QED BY <1>0, <2>1, <2>2, <2>4, <2>5, StepOK
<1> QED
  BY <1>1, <1>2, <1>3, <1>4, <1>5, <1>6, <1>7, <1>8, <1>9 DEF Arrival

-----------------------------------------------------------------------------
(* A request that ends keeps the type invariant when the rest does.        *)
LEMMA FinishOK ==
    ASSUME TypeInv, NEW p \in Procs, Finish(p), RowsOK', KeepsTransfers, MemoryOK'
    PROVE  TypeInv'
<1>1. /\ proc' \in [Procs -> ProcRecord]
      /\ proc'[p] = Idle
      /\ \A q \in Procs \ {p} : proc'[q] = proc[q]
  BY FinishProc DEF TypeInv, TypeOK
<1>2. RequestOK(p)'
  BY <1>1, IdleOK
<1> QED BY <1>1, <1>2, StepOK

(* So does one that goes on to an await with the same needs.               *)
SameNeeds(pc1, pc2) ==
    \/ pc1 \in LockPCs /\ pc2 \in LockPCs
    \/ pc1 \in {"find_target", "terminate", "close_media"}
       /\ pc2 \in {"create", "close_media", "list_open"}
       /\ (pc2 = "create" => pc1 = "find_target")
    \/ pc1 \in TransferPCs /\ pc2 \in TransferPCs

LEMMA GotoOK ==
    ASSUME TypeInv, NEW p \in Procs, NEW pc \in PCs, Goto(p, pc),
           SameNeeds(proc[p].pc, pc), RowsOK', KeepsTransfers, MemoryOK'
    PROVE  TypeInv'
<1>1. /\ proc' \in [Procs -> ProcRecord]
      /\ proc'[p] = [proc[p] EXCEPT !.pc = pc]
      /\ \A q \in Procs \ {p} : proc'[q] = proc[q]
  BY GotoProc DEF TypeInv, TypeOK
<1>2. /\ proc'[p].pc = pc /\ proc'[p].by = proc[p].by
      /\ proc'[p].call = proc[p].call /\ proc'[p].t = proc[p].t
      /\ proc'[p].agent = proc[p].agent
  BY <1>1 DEF TypeInv, TypeOK, ProcRecord
<1>3. RequestOK(p)'
  BY <1>2 DEF TypeInv, RequestOK, SameNeeds, TransferPCs, LockPCs, KeepsTransfers
<1> QED BY <1>1, <1>3, StepOK

(* A step of mediaReady.                                                   *)
LEMMA MediaReadyOK ==
    ASSUME TypeInv, NEW p \in Procs, NEW pc \in LockPCs, proc[p].pc \in LockPCs,
           Continue(p, pc) \/ Abort(p), RowsOK', KeepsTransfers,
           busy' \in [Agents -> SUBSET Calls],
           session' \in [Calls \cup Transfers -> Clients \cup {None}],
           gateway' \in [Calls -> GatewaySession],
           UNCHANGED restarts
    PROVE  TypeInv'
<1>1. activating' \subseteq Calls /\ mediaAgents' \subseteq Agents
  BY DEF TypeInv, TypeOK, MemoryOK, Continue, Abort, Unlock
<1>2. MemoryOK'
  BY <1>1 DEF TypeInv, TypeOK, MemoryOK
<1>3. CASE Continue(p, pc)
  <2>1. pc \in PCs
    BY DEF LockPCs, PCs
  <2> QED BY <1>2, <1>3, <2>1, GotoOK DEF Continue, SameNeeds
<1>4. CASE Abort(p)
  BY <1>2, <1>4, FinishOK DEF Abort
<1> QED BY <1>3, <1>4

LEMMA AgentRemoved ==
    ASSUME gateway \in [Calls -> GatewaySession], NEW c \in Calls, NEW a
    PROVE  [gateway EXCEPT ![c] = RemoveAgent(@, a)] \in [Calls -> GatewaySession]
<1>1. RemoveAgent(gateway[c], a) \in GatewaySession
  BY DEF RemoveAgent, GatewaySession
<1> QED BY <1>1

-----------------------------------------------------------------------------
(* A request that goes on from an await keeps the type invariant.          *)
LEMMA GoOnOK ==
    ASSUME TypeInv, NEW p \in Procs, Step(p) PROVE TypeInv'
<1>. USE ConstantsAssumption
<1>. DEFINE r == proc[p]
<1>0. RowsOK /\ MemoryOK /\ r \in ProcRecord /\ RequestOK(p)
  BY DEF TypeInv, TypeOK
<1>1. CASE FindTarget(p)
  <2>1. RowsOK' /\ KeepsTransfers
    BY <1>0, <1>1, RowsUnchanged DEF FindTarget, database
  <2>2. MemoryOK'
    BY <1>0, <1>1, MemoryUnchanged DEF FindTarget, memory
  <2>3. CASE Finish(p)
    BY <2>1, <2>2, <2>3, FinishOK
  <2>4. CASE Goto(p, "create")
    BY <1>1, <2>1, <2>2, <2>4, GotoOK DEF FindTarget, At, SameNeeds, PCs
  <2> QED BY <1>1, <2>3, <2>4 DEF FindTarget
<1>2. CASE CreateTransfer(p)
  <2>1. r.call \in Calls /\ r.agent \in Agents /\ AgentOf[r.by] \in Agents
    BY <1>0, <1>2 DEF CreateTransfer, At, RequestOK
  <2>2. RowsOK' /\ KeepsTransfers /\ busy' \in [Agents -> SUBSET Calls]
    <3>1. CASE UNCHANGED <<transfer, busy>>
      BY <1>0, <1>2, <3>1, RowsUnchanged DEF CreateTransfer, database, MemoryOK
    <3>2. CASE \E t \in Transfers :
                 /\ transfer[t] = NoTransfer
                 /\ transfer' = [transfer EXCEPT ![t] =
                       [status |-> "PENDING", call |-> r.call,
                        from |-> AgentOf[r.by], to |-> r.agent, due |-> FALSE]]
                 /\ busy' = [busy EXCEPT ![r.agent] = @ \cup {r.call}]
      <4>1. PICK t \in Transfers :
                 /\ transfer[t] = NoTransfer
                 /\ transfer' = [transfer EXCEPT ![t] =
                       [status |-> "PENDING", call |-> r.call,
                        from |-> AgentOf[r.by], to |-> r.agent, due |-> FALSE]]
                 /\ busy' = [busy EXCEPT ![r.agent] = @ \cup {r.call}]
        BY <3>2
      <4>2. call' = call /\ assigned' = assigned
        BY <1>2 DEF CreateTransfer
      <4>3. transfer' \in [Transfers -> TransferRow]
        BY <1>0, <2>1, <4>1 DEF RowsOK, TransferRow, TransferStatus
      <4>4. KeepsTransfers
        BY <1>0, <4>1 DEF RowsOK, KeepsTransfers, NoTransfer
      <4>5. \A u \in Transfers : transfer'[u].status # "NONE" =>
               /\ transfer'[u].call \in Calls
               /\ transfer'[u].from \in Agents /\ transfer'[u].to \in Agents
        BY <1>0, <2>1, <4>1 DEF RowsOK
      <4>6. busy' \in [Agents -> SUBSET Calls]
        BY <1>0, <2>1, <4>1 DEF MemoryOK
      <4> QED BY <1>0, <4>2, <4>3, <4>4, <4>5, <4>6 DEF RowsOK
    <3> QED BY <1>2, <3>1, <3>2 DEF CreateTransfer
  <2>3. MemoryOK'
    BY <1>0, <1>2, <2>2 DEF CreateTransfer, MemoryOK
  <2> QED BY <1>2, <2>2, <2>3, FinishOK DEF CreateTransfer
<1>3. CASE TransitionAccepted(p)
  <2>1. r.t \in Transfers /\ transfer[r.t].status # "NONE"
    BY <1>0, <1>3 DEF TransitionAccepted, At, RequestOK, TransferPCs
  <2>2. RowsOK' /\ KeepsTransfers
    BY <1>0, <1>3, <2>1, RowMoves, RowsUnchanged
       DEF TransitionAccepted, TransferStatus, database
  <2>3. MemoryOK'
    BY <1>0, <1>3, MemoryUnchanged DEF TransitionAccepted, memory
  <2> QED BY <1>3, <2>2, <2>3, FinishOK DEF TransitionAccepted
<1>4. CASE TransitionLate(p)
  <2>1. r.t \in Transfers /\ transfer[r.t].status # "NONE"
    BY <1>0, <1>4 DEF TransitionLate, At, RequestOK, TransferPCs
  <2>2. RowsOK' /\ KeepsTransfers
    BY <1>0, <1>4, <2>1, RowMoves, RowsUnchanged
       DEF TransitionLate, TransferStatus, database
  <2>3. MemoryOK'
    BY <1>0, <1>4, MemoryUnchanged DEF TransitionLate, memory
  <2> QED BY <1>4, <2>2, <2>3, FinishOK DEF TransitionLate
<1>5. CASE CloseTransfer(p)
  <2>1. r.t \in Transfers /\ transfer[r.t].status # "NONE"
        /\ r.pc \in TransferStatus \ {"NONE"}
    BY <1>0, <1>5 DEF CloseTransfer, RequestOK, TransferPCs, TransferStatus
  <2>2. RowsOK' /\ KeepsTransfers
    BY <1>0, <1>5, <2>1, RowMoves, RowsUnchanged DEF CloseTransfer, database
  <2>3. MemoryOK'
    <3>1. session' \in [Calls \cup Transfers -> Clients \cup {None}]
      BY <1>0, <1>5, SessionRemoved DEF CloseTransfer, MemoryOK
    <3> QED BY <1>0, <1>5, <3>1 DEF CloseTransfer, MemoryOK
  <2>4. CASE Finish(p)
    BY <2>2, <2>3, <2>4, FinishOK
  <2>5. CASE Goto(p, "drop_target")
    BY <1>5, <2>2, <2>3, <2>5, GotoOK DEF CloseTransfer, SameNeeds, TransferPCs, PCs
  <2> QED BY <1>5, <2>4, <2>5 DEF CloseTransfer
<1>6. CASE DropTarget(p)
  <2>1. r.t \in Transfers /\ r.call \in Calls /\ transfer[r.t].to \in Agents
    BY <1>0, <1>6 DEF DropTarget, At, RequestOK, TransferPCs, RowsOK
  <2>2. RowsOK' /\ KeepsTransfers
    BY <1>0, <1>6, RowsUnchanged DEF DropTarget, database
  <2>3. gateway' \in [Calls -> GatewaySession]
    BY <1>0, <1>6, <2>1, AgentRemoved DEF DropTarget, MemoryOK
  <2>4. busy' \in [Agents -> SUBSET Calls]
    BY <1>0, <1>6, <2>1 DEF DropTarget, MemoryOK
  <2>5. MemoryOK'
    BY <1>0, <1>6, <2>3, <2>4 DEF DropTarget, MemoryOK
  <2> QED BY <1>6, <2>2, <2>5, FinishOK DEF DropTarget
<1>7. CASE JoinAgent(p)
  <2>1. r.t \in Transfers /\ r.call \in Calls /\ transfer[r.t].to \in Agents
    BY <1>0, <1>7 DEF JoinAgent, At, RequestOK, TransferPCs, RowsOK
  <2>2. RowsOK' /\ KeepsTransfers
    BY <1>0, <1>7, RowsUnchanged DEF JoinAgent, database
  <2>3. gateway' \in [Calls -> GatewaySession]
    BY <1>0, <1>7, <2>1 DEF JoinAgent, MemoryOK, GatewaySession
  <2>4. MemoryOK'
    BY <1>0, <1>7, <2>3 DEF JoinAgent, MemoryOK, memory
  <2> QED BY <1>7, <2>2, <2>4, FinishOK DEF JoinAgent
<1>8. CASE FindActive(p)
  <2>1. RowsOK' /\ KeepsTransfers
    BY <1>0, <1>8, RowsUnchanged DEF FindActive, database
  <2>2. Continue(p, "find_transfer") \/ Abort(p)
    BY <1>8 DEF FindActive
  <2> QED BY <1>0, <1>8, <2>1, <2>2, MediaReadyOK DEF FindActive, At, LockPCs, MemoryOK
<1>9. CASE FindTransfer(p)
  <2>1. RowsOK' /\ KeepsTransfers
    BY <1>0, <1>9, RowsUnchanged DEF FindTransfer, database
  <2>2. Continue(p, "wait_ready") \/ Abort(p)
    BY <1>9 DEF FindTransfer
  <2> QED BY <1>0, <1>9, <2>1, <2>2, MediaReadyOK DEF FindTransfer, At, LockPCs, MemoryOK
<1>10. CASE WaitForAgentReady(p)
  <2>1. RowsOK' /\ KeepsTransfers
    BY <1>0, <1>10, RowsUnchanged DEF WaitForAgentReady, database
  <2>2. Continue(p, "switch") \/ Abort(p)
    BY <1>10 DEF WaitForAgentReady
  <2> QED BY <1>0, <1>10, <2>1, <2>2, MediaReadyOK DEF WaitForAgentReady, At, LockPCs, MemoryOK
<1>11. CASE SetCurrentAgent(p)
  <2>1. r.t \in Transfers /\ r.call \in Calls
        /\ transfer[r.t].from \in Agents /\ transfer[r.t].to \in Agents
        /\ transfer[r.t].status # "NONE"
    BY <1>0, <1>11 DEF SetCurrentAgent, At, RequestOK, LockPCs, RowsOK
  <2>2. RowsOK' /\ KeepsTransfers
    BY <1>0, <1>11, RowsUnchanged DEF SetCurrentAgent, database
  <2>3. gateway' \in [Calls -> GatewaySession]
    <3>1. gateway \in [Calls -> GatewaySession]
      BY <1>0 DEF MemoryOK
    <3>2. [gateway[r.call] EXCEPT !.current = transfer[r.t].to] \in GatewaySession
      BY <2>1, <3>1 DEF GatewaySession
    <3>3. \/ UNCHANGED gateway
          \/ gateway' = [gateway EXCEPT ![r.call].current = transfer[r.t].to]
      BY <1>11 DEF SetCurrentAgent
    <3> QED BY <2>1, <3>1, <3>2, <3>3
  <2>4. CASE Abort(p)
    BY <1>0, <1>11, <2>2, <2>3, <2>4, MediaReadyOK
       DEF SetCurrentAgent, At, LockPCs, MemoryOK
  <2>5. CASE /\ Begin(p, "commit", r.by, r.call, r.t, gateway[r.call].current)
             /\ UNCHANGED <<activating, mediaAgents>>
    <3>1. MemoryOK'
      BY <1>0, <1>11, <2>3, <2>5 DEF SetCurrentAgent, MemoryOK
    <3>2. gateway[r.call].current \in Agents \cup {None}
      BY <1>0, <2>1 DEF MemoryOK, GatewaySession
    <3>. /\ r.by \in Clients \cup {None} /\ r.call \in Calls \cup {None}
         /\ r.t \in Transfers \cup {None} /\ "commit" \in PCs
      BY <1>0 DEF ProcRecord, PCs
    <3>3. /\ proc' \in [Procs -> ProcRecord]
          /\ proc'[p] = [pc |-> "commit", by |-> r.by, call |-> r.call, t |-> r.t,
                         agent |-> gateway[r.call].current]
          /\ \A q \in Procs \ {p} : proc'[q] = proc[q]
      BY <2>5, <3>2, BeginProc DEF TypeInv, TypeOK
    <3>4. RequestOK(p)'
      BY <1>0, <1>11, <2>1, <2>2, <3>3
         DEF SetCurrentAgent, At, RequestOK, LockPCs, TransferPCs, KeepsTransfers
    <3> QED BY <2>2, <3>1, <3>3, <3>4, StepOK
  <2> QED BY <1>11, <2>4, <2>5 DEF SetCurrentAgent
<1>12. CASE CommitHandover(p)
  <2>1. r.t \in Transfers /\ r.call \in Calls
        /\ transfer[r.t].from \in Agents /\ transfer[r.t].to \in Agents
        /\ transfer[r.t].status # "NONE"
    BY <1>0, <1>12 DEF CommitHandover, At, RequestOK, LockPCs, RowsOK
  <2>2. RowsOK' /\ KeepsTransfers
    <3>1. CASE UNCHANGED database
      BY <1>0, <3>1, RowsUnchanged
    <3>2. CASE /\ transfer' = [transfer EXCEPT ![r.t].status = "COMPLETED"]
               /\ call' = [call EXCEPT ![r.call].agent = transfer[r.t].to]
               /\ assigned' = [assigned EXCEPT ![r.call] = transfer[r.t].to]
      <4>1. /\ call' \in [Calls -> [status : {"ACTIVE", "ENDED"}, agent : Agents,
                                    hungup : BOOLEAN]]
            /\ assigned' \in [Calls -> Agents \cup {None}]
        BY <1>0, <2>1, <3>2 DEF RowsOK
      <4>2. transfer' \in [Transfers -> TransferRow] /\ KeepsTransfers
        BY <1>0, <2>1, <3>2 DEF RowsOK, TransferRow, TransferStatus, KeepsTransfers
      <4>3. \A u \in Transfers : transfer'[u].status # "NONE" =>
               /\ transfer'[u].call \in Calls
               /\ transfer'[u].from \in Agents /\ transfer'[u].to \in Agents
        BY <1>0, <2>1, <3>2 DEF RowsOK, TransferRow
      <4> QED BY <4>1, <4>2, <4>3 DEF RowsOK
    <3> QED BY <1>12, <3>1, <3>2 DEF CommitHandover
  <2>3. ASSUME NEW pc \in {"remove_source", "rollback"}, Continue(p, pc) \/ Abort(p)
        PROVE  TypeInv'
    <3>1. pc \in LockPCs
      BY DEF LockPCs
    <3> QED BY <1>0, <1>12, <2>2, <2>3, <3>1, MediaReadyOK
            DEF CommitHandover, At, LockPCs, MemoryOK
  <2> QED BY <1>12, <2>3 DEF CommitHandover
<1>13. CASE RollBack(p)
  <2>1. r.t \in Transfers /\ r.call \in Calls
        /\ transfer[r.t].from \in Agents /\ transfer[r.t].to \in Agents
        /\ transfer[r.t].status # "NONE"
    BY <1>0, <1>13 DEF RollBack, At, RequestOK, LockPCs, RowsOK
  <2>2. RowsOK' /\ KeepsTransfers
    BY <1>0, <1>13, RowsUnchanged DEF RollBack, database
  <2>3. gateway' \in [Calls -> GatewaySession]
    BY <1>0, <1>13, <2>1 DEF RollBack, MemoryOK, GatewaySession, ProcRecord
  <2> QED BY <1>0, <1>13, <2>2, <2>3, MediaReadyOK DEF RollBack, At, LockPCs, MemoryOK
<1>14. CASE RemoveSource(p)
  <2>1. r.t \in Transfers /\ r.call \in Calls
        /\ transfer[r.t].from \in Agents /\ transfer[r.t].to \in Agents
        /\ transfer[r.t].status # "NONE"
    BY <1>0, <1>14 DEF RemoveSource, At, RequestOK, LockPCs, RowsOK
  <2>2. RowsOK' /\ KeepsTransfers
    BY <1>0, <1>14, RowsUnchanged DEF RemoveSource, database
  <2>3. gateway' \in [Calls -> GatewaySession]
    BY <1>0, <1>14, <2>1, AgentRemoved DEF RemoveSource, MemoryOK
  <2>4. r.by \in Clients
    BY <1>0, <1>14 DEF RemoveSource, At, RequestOK, LockPCs
  <2>5. /\ session' \in [Calls \cup Transfers -> Clients \cup {None}]
        /\ busy' \in [Agents -> SUBSET Calls]
    BY <1>0, <1>14, <2>1, <2>4 DEF RemoveSource, MemoryOK
  <2> QED BY <1>0, <1>14, <2>2, <2>3, <2>5, MediaReadyOK DEF RemoveSource, At, LockPCs
<1>15. CASE ClaimSession(p)
  <2>1. r.call \in Calls /\ r.by \in Clients
    BY <1>0, <1>15 DEF ClaimSession, At, RequestOK
  <2>2. RowsOK' /\ KeepsTransfers
    BY <1>0, <1>15, RowsUnchanged DEF ClaimSession, database
  <2>3. MemoryOK'
    BY <1>0, <1>15, <2>1 DEF ClaimSession, MemoryOK
  <2> QED BY <1>15, <2>2, <2>3, FinishOK DEF ClaimSession
<1>16. CASE UpdateEnded(p)
  <2>1. r.call \in Calls
    BY <1>0, <1>16 DEF UpdateEnded, At, RequestOK
  <2>2. RowsOK' /\ KeepsTransfers
    BY <1>0, <1>16, <2>1 DEF UpdateEnded, RowsOK, KeepsTransfers
  <2>3. MemoryOK'
    BY <1>0, <1>16, MemoryUnchanged DEF UpdateEnded, memory
  <2>4. CASE Finish(p)
    BY <2>2, <2>3, <2>4, FinishOK
  <2>5. CASE Goto(p, "close_media")
    BY <1>16, <2>2, <2>3, <2>5, GotoOK DEF UpdateEnded, At, SameNeeds, PCs
  <2> QED BY <1>16, <2>4, <2>5 DEF UpdateEnded
<1>17. CASE CloseMedia(p)
  <2>1. r.call \in Calls /\ r.agent \in Agents
    BY <1>0, <1>17 DEF CloseMedia, At, RequestOK
  <2>2. RowsOK' /\ KeepsTransfers
    BY <1>0, <1>17, RowsUnchanged DEF CloseMedia, database
  <2>3. MemoryOK'
    BY <1>0, <1>17, <2>1 DEF CloseMedia, MemoryOK, GatewaySession, Closed
  <2> QED BY <1>17, <2>2, <2>3, GotoOK DEF CloseMedia, At, SameNeeds, PCs
<1>18. CASE ListOpen(p)
  <2>1. r.call \in Calls
    BY <1>0, <1>18 DEF ListOpen, At, RequestOK
  <2>2. RowsOK' /\ KeepsTransfers
    BY <1>0, <1>18, RowsUnchanged DEF ListOpen, database
  <2>3. MemoryOK'
    <3>1. session' \in [Calls \cup Transfers -> Clients \cup {None}]
      BY <1>0, <1>18, SessionRemoved DEF ListOpen, MemoryOK
    <3> QED BY <1>0, <1>18, <3>1 DEF ListOpen, MemoryOK
  <2>4. CASE Finish(p)
    BY <2>2, <2>3, <2>4, FinishOK
  <2>5. CASE \E t \in OpenOf(r.call) :
               Begin(p, "cancel_open", r.by, r.call, t, r.agent)
    <3>1. PICK t \in OpenOf(r.call) :
               Begin(p, "cancel_open", r.by, r.call, t, r.agent)
      BY <2>5
    <3>2. t \in Transfers /\ transfer[t].call = r.call /\ transfer[t].status # "NONE"
      BY DEF OpenOf, Open, OPEN_STATUSES
    <3>3. /\ proc' \in [Procs -> ProcRecord]
          /\ proc'[p] = [pc |-> "cancel_open", by |-> r.by, call |-> r.call, t |-> t,
                         agent |-> r.agent]
          /\ \A q \in Procs \ {p} : proc'[q] = proc[q]
      <4>1. "cancel_open" \in PCs
        BY DEF PCs
      <4>2. proc \in [Procs -> ProcRecord] /\ proc[p] \in ProcRecord
        BY <1>0 DEF TypeInv, TypeOK
      <4>3. /\ r.by \in Clients \cup {None} /\ r.call \in Calls \cup {None}
            /\ r.agent \in Agents \cup {None}
        BY <4>2 DEF ProcRecord
      <4> QED BY <3>1, <3>2, <4>1, <4>2, <4>3, BeginProc
    <3>4. RequestOK(p)'
      BY <2>2, <3>2, <3>3 DEF RequestOK, LockPCs, TransferPCs, KeepsTransfers
    <3> QED BY <2>2, <2>3, <3>3, <3>4, StepOK
  <2> QED BY <1>18, <2>4, <2>5 DEF ListOpen
<1>19. CASE CancelOpen(p)
  <2>1. r.t \in Transfers /\ transfer[r.t].status # "NONE" /\ transfer[r.t].to \in Agents
    BY <1>0, <1>19 DEF CancelOpen, At, RequestOK, TransferPCs, RowsOK
  <2>2. RowsOK' /\ KeepsTransfers
    BY <1>0, <1>19, <2>1, RowMoves, RowsUnchanged DEF CancelOpen, TransferStatus, database
  <2>3. session' \in [Calls \cup Transfers -> Clients \cup {None}]
    BY <1>0, <1>19, SessionRemoved DEF CancelOpen, MemoryOK
  <2>4. busy' \in [Agents -> SUBSET Calls]
    BY <1>0, <1>19, <2>1 DEF CancelOpen, MemoryOK
  <2>5. MemoryOK'
    BY <1>0, <1>19, <2>3, <2>4 DEF CancelOpen, MemoryOK
  <2> QED BY <1>19, <2>2, <2>5, FinishOK DEF CancelOpen
<1> QED
  BY <1>1, <1>2, <1>3, <1>4, <1>5, <1>6, <1>7, <1>8, <1>9, <1>10, <1>11, <1>12, <1>13,
     <1>14, <1>15, <1>16, <1>17, <1>18, <1>19 DEF Step

-----------------------------------------------------------------------------
(* Every step of the specification keeps the type invariant.               *)
LEMMA NextTypeInv == TypeInv /\ [Next]_vars => TypeInv'
<1> SUFFICES ASSUME TypeInv, [Next]_vars PROVE TypeInv'
  OBVIOUS
<1>. USE ConstantsAssumption
<1>0. RowsOK /\ MemoryOK /\ proc \in [Procs -> ProcRecord] /\ \A p \in Procs : RequestOK(p)
  BY DEF TypeInv, TypeOK
<1>1. ASSUME NEW p \in Requests, Arrival(p) PROVE TypeInv'
  BY <1>1, ArrivalOK
<1>2. ASSUME NEW p \in Procs, Step(p) PROVE TypeInv'
  BY <1>2, GoOnOK
<1>3. ASSUME NEW p \in Procs, NEW t \in Transfers, ExpireDue(p, t) PROVE TypeInv'
  <2>1. transfer[t].status # "NONE" /\ transfer[t].call \in Calls
    BY <1>0, <1>3 DEF ExpireDue, Open, OPEN_STATUSES, RowsOK
  <2>2. RowsOK' /\ KeepsTransfers
    BY <1>0, <1>3, <2>1, RowMoves DEF ExpireDue, TransferStatus
  <2>3. MemoryOK'
    <3>1. session' \in [Calls \cup Transfers -> Clients \cup {None}]
      BY <1>0, <1>3, SessionRemoved DEF ExpireDue, MemoryOK
    <3> QED BY <1>0, <1>3, <3>1 DEF ExpireDue, MemoryOK
  <2>4. Begin(p, "drop_target", None, transfer[t].call, t, None)
    BY <1>3 DEF ExpireDue
  <2>5. /\ proc' \in [Procs -> ProcRecord]
        /\ proc'[p] = [pc |-> "drop_target", by |-> None, call |-> transfer[t].call,
                            t |-> t, agent |-> None]
        /\ \A q \in Procs \ {p} : proc'[q] = proc[q]
    BY <1>0, <2>1, <2>4, BeginProc DEF PCs
  <2>6. RequestOK(p)'
    BY <2>1, <2>2, <2>5 DEF RequestOK, TransferPCs, LockPCs, KeepsTransfers
  <2> QED BY <2>1, <2>2, <2>3, <2>5, <2>6, StepOK
<1>4. ASSUME NEW t \in Transfers, Deadline(t) PROVE TypeInv'
  <2>1. RowsOK' /\ KeepsTransfers
    <3>1. transfer' = [transfer EXCEPT ![t].due = TRUE] /\ UNCHANGED <<call, assigned>>
      BY <1>4 DEF Deadline
    <3>2. transfer' \in [Transfers -> TransferRow]
      <4>1. transfer \in [Transfers -> TransferRow]
        BY <1>0 DEF RowsOK
      <4>2. [transfer[t] EXCEPT !.due = TRUE] \in TransferRow
        BY <4>1 DEF TransferRow
      <4> QED BY <3>1, <4>1, <4>2
    <3>3. \A u \in Transfers : /\ transfer'[u].status = transfer[u].status
                               /\ transfer'[u].call = transfer[u].call
                               /\ transfer'[u].from = transfer[u].from
                               /\ transfer'[u].to = transfer[u].to
      BY <1>0, <3>1 DEF RowsOK, TransferRow
    <3> QED BY <1>0, <3>1, <3>2, <3>3 DEF RowsOK, KeepsTransfers
  <2>2. MemoryOK'
    BY <1>0, <1>4, MemoryUnchanged DEF Deadline, memory
  <2>3. proc' = proc
    BY <1>4 DEF Deadline
  <2>4. \A q \in Procs : RequestOK(q)'
    BY <1>0, <2>1, <2>3, OthersOK
  <2> QED BY <1>0, <2>1, <2>2, <2>3, <2>4 DEF TypeInv, TypeOK
<1>5. CASE Restart
  <2>1. RowsOK' /\ KeepsTransfers
    BY <1>0, <1>5, RowsUnchanged DEF Restart
  <2>2. MemoryOK'
    BY <1>0, <1>5 DEF Restart, MemoryOK
  <2>3. proc' \in [Procs -> ProcRecord] /\ \A q \in Procs : proc'[q] = Idle
    BY <1>5 DEF Restart, ProcRecord, Idle, PCs
  <2>4. \A q \in Procs : RequestOK(q)'
    BY <2>3, IdleOK
  <2> QED BY <2>1, <2>2, <2>3, <2>4 DEF TypeInv, TypeOK
<1>6. CASE UNCHANGED vars
  <2>1. RowsOK' /\ KeepsTransfers
    BY <1>0, <1>6, RowsUnchanged DEF vars, database
  <2>2. MemoryOK'
    BY <1>0, <1>6, MemoryUnchanged DEF vars
  <2>3. proc' = proc
    BY <1>6 DEF vars
  <2>4. \A q \in Procs : RequestOK(q)'
    BY <1>0, <2>1, <2>3, OthersOK
  <2> QED BY <1>0, <2>1, <2>2, <2>3, <2>4 DEF TypeInv, TypeOK
<1> QED
  BY <1>1, <1>2, <1>3, <1>4, <1>5, <1>6 DEF Next

(* In every reachable state each variable has its shape, and each request  *)
(* blocked on an await names an existing call, transfer and client.        *)
THEOREM TypeCorrect == Spec => []TypeInv
BY InitTypeInv, NextTypeInv, PTL DEF Spec
=====
