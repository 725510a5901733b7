------------------------- MODULE CallTransferSafety -------------------------
(***************************************************************************)
(* What the transfer of calls guarantees for every set of agents, clients, *)
(* calls, transfers and requests: at most one open transfer per call, an   *)
(* accepted transfer always comes from the responsible agent, the rows     *)
(* implement TransferProtocol, no agent gets two active calls, and, when   *)
(* agents use one browser each, the key of a call follows its agent.  When *)
(* the offers of a call are asked for one at a time (AsksOnce), the        *)
(* responsible agent is marked busy, keeps its peer and is heard.          *)
(***************************************************************************)
EXTENDS CallTransferProofs

USE DEF IndexAllows, OfferStands, Overdue, Completes, LocksFree, PresenceMoved, KeyMoved

(***************************************************************************)
(* Most steps are quiet: they change no agent of a call, and of the        *)
(* transfers they close an open one or let its deadline pass.              *)
(***************************************************************************)
ClosedStatus == {"REJECTED", "CANCELLED", "EXPIRED"}

Closes(t, s) == Open(t) /\ transfer' = [transfer EXCEPT ![t].status = s]

Quiet ==
    /\ assigned' = assigned
    /\ \A c \in Calls : call'[c].agent = call[c].agent /\ (Active(c)' => Active(c))
    /\ \/ transfer' = transfer
       \/ \E t \in Transfers, s \in ClosedStatus : Closes(t, s)
       \/ \E t \in Transfers : transfer' = [transfer EXCEPT ![t].due = TRUE]

LEMMA RowsSameQuiet ==
    ASSUME UNCHANGED database PROVE Quiet
BY DEF Quiet, database, Active

LEMMA CallsSameQuiet ==
    ASSUME UNCHANGED <<call, assigned>>,
           \/ transfer' = transfer
           \/ \E t \in Transfers, s \in ClosedStatus : Closes(t, s)
           \/ \E t \in Transfers : transfer' = [transfer EXCEPT ![t].due = TRUE]
    PROVE  Quiet
BY DEF Quiet, Active

LEMMA EndQuiet ==
    ASSUME RowsOK, NEW c \in Calls, NEW h \in BOOLEAN,
           call' = [call EXCEPT ![c].status = "ENDED", ![c].hungup = h]
           \/ call' = [call EXCEPT ![c].status = "ENDED"],
           UNCHANGED <<assigned, transfer>>
    PROVE  Quiet
BY DEF Quiet, Active, RowsOK

LEMMA ArrivalQuiet ==
    ASSUME TypeInv, NEW p \in Requests, Arrival(p) PROVE Quiet
<1>1. CASE \E c \in Calls : CallTerminated(p, c)
  BY <1>1, EndQuiet DEF CallTerminated, TypeInv, TypeOK
<1>2. CASE UNCHANGED database
  BY <1>2, RowsSameQuiet
<1> QED
  BY <1>1, <1>2 DEF Arrival, RequestTransfer, ClaimCall, TerminateCall, AcceptTransfer,
     RejectTransfer, CancelTransfer, JoinMedia, MediaReady

(* Three steps are not quiet.                                              *)
LEMMA StepQuiet ==
    ASSUME TypeInv, NEW p \in Procs, Step(p),
           ~CreateTransfer(p), ~TransitionAccepted(p), ~CommitHandover(p)
    PROVE  Quiet
<1>. DEFINE t == proc[p].t
<1>0. RequestOK(p) /\ RowsOK
  BY DEF TypeInv, TypeOK
<1>1. CASE TransitionLate(p)
  <2>1. t \in Transfers
    BY <1>0, <1>1 DEF TransitionLate, At, RequestOK, TransferPCs
  <2>2. transfer' = transfer \/ Closes(t, "EXPIRED")
    BY <1>1 DEF TransitionLate, Closes
  <2> QED BY <1>1, <2>1, <2>2, CallsSameQuiet DEF TransitionLate, ClosedStatus
<1>2. CASE CloseTransfer(p)
  <2>1. t \in Transfers /\ proc[p].pc \in ClosedStatus
    BY <1>0, <1>2 DEF CloseTransfer, RequestOK, TransferPCs, ClosedStatus
  <2>2. transfer' = transfer \/ Closes(t, proc[p].pc)
    BY <1>2 DEF CloseTransfer, Closes
  <2> QED BY <1>2, <2>1, <2>2, CallsSameQuiet DEF CloseTransfer
<1>3. CASE CancelOpen(p)
  <2>1. t \in Transfers
    BY <1>0, <1>3 DEF CancelOpen, At, RequestOK, TransferPCs
  <2>2. transfer' = transfer \/ Closes(t, "CANCELLED")
    BY <1>3 DEF CancelOpen, Closes
  <2> QED BY <1>3, <2>1, <2>2, CallsSameQuiet DEF CancelOpen, ClosedStatus
<1>4. CASE UpdateEnded(p)
  <2>1. proc[p].call \in Calls
    BY <1>0, <1>4 DEF UpdateEnded, At, RequestOK
  <2>2. CASE call' = call
    BY <1>4, <2>2, CallsSameQuiet DEF UpdateEnded
  <2>3. CASE call' # call
    BY <1>0, <1>4, <2>1, <2>3, EndQuiet DEF UpdateEnded
  <2> QED BY <2>2, <2>3
<1>5. CASE UNCHANGED database
  BY <1>5, RowsSameQuiet
<1> QED
  BY <1>1, <1>2, <1>3, <1>4, <1>5
     DEF Step, FindTarget, DropTarget, JoinAgent, FindActive, FindTransfer,
         WaitForAgentReady, SetCurrentAgent, RollBack, RemoveSource, ClaimSession,
         CloseMedia, ListOpen

Loud(p) == CreateTransfer(p) \/ TransitionAccepted(p) \/ CommitHandover(p)

LEMMA NextQuiet ==
    ASSUME TypeInv, [Next]_vars PROVE Quiet \/ \E p \in Procs : Loud(p)
<1>1. ASSUME NEW p \in Requests, Arrival(p) PROVE Quiet
  BY <1>1, ArrivalQuiet
<1>2. ASSUME NEW p \in Procs, Step(p) PROVE Quiet \/ Loud(p)
  BY <1>2, StepQuiet DEF Loud
<1>3. ASSUME NEW p \in Procs, NEW t \in Transfers, ExpireDue(p, t) PROVE Quiet
  BY <1>3, CallsSameQuiet DEF ExpireDue, Closes, ClosedStatus
<1>4. ASSUME NEW t \in Transfers, Deadline(t) PROVE Quiet
  BY <1>4, CallsSameQuiet DEF Deadline
<1>5. CASE Restart
  BY <1>5, RowsSameQuiet DEF Restart
<1>6. CASE UNCHANGED vars
  BY <1>6, RowsSameQuiet DEF vars, database
<1> QED BY <1>1, <1>2, <1>3, <1>4, <1>5, <1>6 DEF Next

(***************************************************************************)
(* An await inside acceptTransfer or mediaReady is reached only from the   *)
(* step before it: every other step of another request keeps what is there.*)
(***************************************************************************)
StableProc(S) == \A q \in Procs : proc'[q].pc \in S => proc'[q] = proc[q]

LEMMA BeginStable ==
    ASSUME proc \in [Procs -> ProcRecord], NEW p \in Procs, NEW pc, NEW S, pc \notin S,
           NEW cl, NEW c, NEW t, NEW a, Begin(p, pc, cl, c, t, a)
    PROVE  StableProc(S)
BY DEF Begin, StableProc

LEMMA GotoStable ==
    ASSUME proc \in [Procs -> ProcRecord], NEW p \in Procs, NEW pc, NEW S, pc \notin S,
           Goto(p, pc)
    PROVE  StableProc(S)
BY DEF Goto, StableProc, ProcRecord

LEMMA FinishStable ==
    ASSUME proc \in [Procs -> ProcRecord], NEW p \in Procs, NEW S, "idle" \notin S,
           Finish(p)
    PROVE  StableProc(S)
BY DEF Finish, Idle, StableProc

LEMMA SameStable ==
    ASSUME NEW S, proc' = proc PROVE StableProc(S)
BY DEF StableProc

(* A step that neither accepts a transfer nor is one of mediaReady.        *)
InnerPCs == {"accept"} \cup LockPCs

Inner(p) ==
    \/ \E cl \in Clients, t \in Transfers : AcceptTransfer(p, cl, t) \/ MediaReady(p, cl, t)
    \/ FindActive(p) \/ FindTransfer(p) \/ WaitForAgentReady(p)
    \/ SetCurrentAgent(p) \/ CommitHandover(p) \/ RollBack(p) \/ RemoveSource(p)

LEMMA ArrivalStable ==
    ASSUME TypeInv, NEW p \in Requests, Arrival(p), ~Inner(p) PROVE StableProc(InnerPCs)
<1>. p \in Procs /\ proc \in [Procs -> ProcRecord]
  BY DEF TypeInv, TypeOK, Procs
<1>. {"find_target", "claim", "terminate", "REJECTED", "CANCELLED", "join", "close_media"}
       \cap InnerPCs = {}
  BY DEF InnerPCs, LockPCs
<1>1. ASSUME NEW cl \in Clients, NEW c \in Calls,
             \/ \E to \in Agents : RequestTransfer(p, cl, c, to)
             \/ ClaimCall(p, cl, c) \/ TerminateCall(p, cl, c)
      PROVE  StableProc(InnerPCs)
  BY <1>1, BeginStable DEF RequestTransfer, ClaimCall, TerminateCall
<1>2. ASSUME NEW cl \in Clients, NEW t \in Transfers,
             RejectTransfer(p, cl, t) \/ CancelTransfer(p, cl, t) \/ JoinMedia(p, cl, t)
      PROVE  StableProc(InnerPCs)
  BY Zenon, <1>2, BeginStable DEF RejectTransfer, CancelTransfer, JoinMedia
<1>3. ASSUME NEW c \in Calls, CallTerminated(p, c) PROVE StableProc(InnerPCs)
  BY <1>3, BeginStable DEF CallTerminated
<1> QED BY <1>1, <1>2, <1>3 DEF Arrival, Inner

LEMMA StepStable ==
    ASSUME TypeInv, NEW p \in Procs, Step(p), ~Inner(p) PROVE StableProc(InnerPCs)
<1>. proc \in [Procs -> ProcRecord]
  BY DEF TypeInv, TypeOK
<1>. {"idle", "create", "drop_target", "close_media", "list_open", "cancel_open"}
       \cap InnerPCs = {}
  BY DEF InnerPCs, LockPCs
<1>1. CASE Finish(p)
  BY <1>1, FinishStable
<1>2. CASE Goto(p, "create") \/ Goto(p, "drop_target") \/ Goto(p, "close_media")
           \/ Goto(p, "list_open")
  BY <1>2, GotoStable
<1>3. ASSUME NEW cl, NEW c, NEW t, NEW a, Begin(p, "cancel_open", cl, c, t, a)
      PROVE  StableProc(InnerPCs)
  BY <1>3, BeginStable
<1>4. CASE ListOpen(p)
  BY <1>1, <1>3, <1>4 DEF ListOpen
<1> QED
  BY <1>1, <1>2, <1>4
     DEF Step, Inner, FindTarget, CreateTransfer, TransitionAccepted, TransitionLate,
         CloseTransfer, DropTarget, JoinAgent, ClaimSession, UpdateEnded, CloseMedia,
         CancelOpen

LEMMA NextStable ==
    ASSUME TypeInv, [Next]_vars
    PROVE  StableProc(InnerPCs) \/ \E p \in Procs : Inner(p)
<1>. Worker \in Procs /\ Requests \subseteq Procs /\ proc \in [Procs -> ProcRecord]
  BY DEF TypeInv, TypeOK, Procs
<1>1. ASSUME NEW p \in Requests, Arrival(p) PROVE StableProc(InnerPCs) \/ Inner(p)
  BY <1>1, ArrivalStable
<1>2. ASSUME NEW p \in Procs, Step(p) PROVE StableProc(InnerPCs) \/ Inner(p)
  BY <1>2, StepStable
<1>3. ASSUME NEW p \in Procs, NEW t \in Transfers, ExpireDue(p, t) PROVE StableProc(InnerPCs)
  BY <1>3, BeginStable DEF ExpireDue, InnerPCs, LockPCs
<1>4. CASE Restart
  BY <1>4 DEF Restart, StableProc, Idle, InnerPCs, LockPCs
<1>5. CASE proc' = proc
  BY <1>5, SameStable
<1> QED BY <1>1, <1>2, <1>3, <1>4, <1>5 DEF Next, vars, Deadline

-----------------------------------------------------------------------------
(* What the three loud steps do to the rows.                               *)
LEMMA CreateRows ==
    ASSUME TypeInv, NEW p \in Procs, CreateTransfer(p)
    PROVE  /\ UNCHANGED <<call, assigned>>
           /\ proc[p].call \in Calls /\ proc[p].agent \in Agents
           /\ AgentOf[proc[p].by] \in Agents
           /\ \/ transfer' = transfer
              \/ \E t \in Transfers :
                    /\ transfer[t] = NoTransfer /\ OpenOf(proc[p].call) = {}
                    /\ transfer' = [transfer EXCEPT ![t] =
                          [status |-> "PENDING", call |-> proc[p].call,
                           from |-> AgentOf[proc[p].by], to |-> proc[p].agent,
                           due |-> FALSE]]
<1>1. RequestOK(p)
  BY DEF TypeInv
<1>2. proc[p].call \in Calls /\ proc[p].agent \in Agents /\ proc[p].by \in Clients
  BY <1>1 DEF CreateTransfer, At, RequestOK
<1> QED BY <1>2, ConstantsAssumption DEF CreateTransfer

LEMMA AcceptRows ==
    ASSUME TypeInv, NEW p \in Procs, TransitionAccepted(p)
    PROVE  /\ UNCHANGED <<call, assigned>>
           /\ proc[p].t \in Transfers /\ proc[p].pc = "accept"
           /\ transfer' = IF transfer[proc[p].t].status = "PENDING"
                            THEN [transfer EXCEPT ![proc[p].t].status = "ACCEPTED"]
                            ELSE transfer
BY Zenon DEF TypeInv, RequestOK, TransitionAccepted, At, TransferPCs

LEMMA CommitRows ==
    ASSUME TypeInv, NEW p \in Procs, CommitHandover(p)
    PROVE  /\ proc[p].t \in Transfers /\ proc[p].call \in Calls
           /\ proc[p].call = transfer[proc[p].t].call
           /\ transfer[proc[p].t].to \in Agents
           /\ \/ UNCHANGED database
              \/ /\ transfer[proc[p].t].status = "ACCEPTED"
                 /\ transfer' = [transfer EXCEPT ![proc[p].t].status = "COMPLETED"]
                 /\ call' = [call EXCEPT ![proc[p].call].agent = transfer[proc[p].t].to]
                 /\ assigned' = [assigned EXCEPT ![proc[p].call] = transfer[proc[p].t].to]
<1>1. RequestOK(p) /\ RowsOK
  BY DEF TypeInv, TypeOK
<1>2. /\ proc[p].t \in Transfers /\ proc[p].call = transfer[proc[p].t].call
      /\ transfer[proc[p].t].status # "NONE"
  BY <1>1 DEF CommitHandover, At, RequestOK, LockPCs
<1> QED BY <1>1, <1>2 DEF CommitHandover, RowsOK

(* A quiet step keeps what the rows say of open transfers.                 *)
LEMMA QuietRows ==
    ASSUME TypeInv, Quiet
    PROVE  \A t \in Transfers :
              /\ transfer'[t].call = transfer[t].call
              /\ transfer'[t].from = transfer[t].from
              /\ transfer'[t].to = transfer[t].to
              /\ transfer'[t].status # transfer[t].status =>
                    Open(t) /\ transfer'[t].status \in ClosedStatus
<1>. transfer \in [Transfers -> TransferRow]
  BY DEF TypeInv, TypeOK, RowsOK
<1>1. CASE transfer' = transfer
  BY <1>1
<1>2. ASSUME NEW t \in Transfers, NEW s \in ClosedStatus, Closes(t, s)
      PROVE  \A u \in Transfers :
                /\ transfer'[u].call = transfer[u].call
                /\ transfer'[u].from = transfer[u].from
                /\ transfer'[u].to = transfer[u].to
                /\ transfer'[u].status # transfer[u].status =>
                      Open(u) /\ transfer'[u].status \in ClosedStatus
  BY <1>2 DEF Closes, TransferRow
<1>3. ASSUME NEW t \in Transfers, transfer' = [transfer EXCEPT ![t].due = TRUE]
      PROVE  \A u \in Transfers :
                /\ transfer'[u].call = transfer[u].call
                /\ transfer'[u].from = transfer[u].from
                /\ transfer'[u].to = transfer[u].to
                /\ transfer'[u].status = transfer[u].status
  BY <1>3 DEF TransferRow
<1> QED BY <1>1, <1>2, <1>3 DEF Quiet

(* A step that opens no transfer keeps the open ones unique.               *)
LEMMA NoneOpened ==
    ASSUME OneOpenTransfer,
           \A u \in Transfers :
              /\ transfer'[u].call = transfer[u].call
              /\ transfer'[u].status \in OPEN_STATUSES =>
                    transfer[u].status \in OPEN_STATUSES
    PROVE  OneOpenTransfer'
<1>1. ASSUME NEW t \in Transfers, NEW u \in Transfers, Open(t)', Open(u)',
             transfer'[t].call = transfer'[u].call
      PROVE  t = u
  <2>1. Open(t) /\ Open(u) /\ transfer[t].call = transfer[u].call
    BY <1>1 DEF Open
  <2> QED BY <2>1 DEF OneOpenTransfer
<1> QED BY <1>1 DEF OneOpenTransfer

(* Open transfers of a call stay unique.                                   *)
LEMMA NextOneOpen ==
    ASSUME TypeInv, HandoverInv, [Next]_vars PROVE OneOpenTransfer'
<1>0. transfer \in [Transfers -> TransferRow] /\ OneOpenTransfer
  BY DEF TypeInv, TypeOK, RowsOK, HandoverInv
<1>1. CASE Quiet
  BY <1>0, <1>1, QuietRows DEF OneOpenTransfer, Open, OPEN_STATUSES, ClosedStatus
<1>2. ASSUME NEW p \in Procs, CreateTransfer(p) PROVE OneOpenTransfer'
  <2>1. CASE transfer' = transfer
    BY <1>0, <2>1 DEF OneOpenTransfer, Open
  <2>2. ASSUME NEW t \in Transfers, OpenOf(proc[p].call) = {},
               transfer' = [transfer EXCEPT ![t] =
                          [status |-> "PENDING", call |-> proc[p].call,
                           from |-> AgentOf[proc[p].by], to |-> proc[p].agent,
                           due |-> FALSE]]
        PROVE  OneOpenTransfer'
    BY <1>0, <2>2 DEF OneOpenTransfer, Open, OpenOf
  <2> QED BY <1>0, <1>2, <2>1, <2>2, CreateRows
<1>3. ASSUME NEW p \in Procs, TransitionAccepted(p) PROVE OneOpenTransfer'
  <2>1. \A u \in Transfers : /\ transfer'[u].call = transfer[u].call
                             /\ transfer'[u].status \in OPEN_STATUSES =>
                                   transfer[u].status \in OPEN_STATUSES
    <3>1. proc[p].t \in Transfers
      BY <1>3, AcceptRows
    <3>2. CASE transfer' = transfer
      BY <3>2
    <3>3. CASE /\ transfer[proc[p].t].status = "PENDING"
               /\ transfer' = [transfer EXCEPT ![proc[p].t].status = "ACCEPTED"]
      BY <1>0, <3>1, <3>3 DEF OPEN_STATUSES, TransferRow
    <3> QED BY <1>3, <3>2, <3>3, AcceptRows
  <2> QED BY <1>0, <2>1, NoneOpened
<1>4. ASSUME NEW p \in Procs, CommitHandover(p) PROVE OneOpenTransfer'
  <2>1. CASE transfer' = transfer
    BY <1>0, <2>1 DEF OneOpenTransfer, Open
  <2>2. CASE transfer' = [transfer EXCEPT ![proc[p].t].status = "COMPLETED"]
    <3>1. \A u \in Transfers : /\ transfer'[u].call = transfer[u].call
                               /\ transfer'[u].status \in OPEN_STATUSES =>
                                     transfer[u].status \in OPEN_STATUSES
      BY <1>0, <2>2 DEF OPEN_STATUSES, TransferRow
    <3> QED BY <1>0, <3>1, NoneOpened
  <2> QED BY <1>0, <1>4, <2>1, <2>2, CommitRows DEF database
<1> QED BY <1>1, <1>2, <1>3, <1>4, NextQuiet DEF Loud

(* An accepted transfer keeps coming from the responsible agent.           *)
LEMMA NextAccepted ==
    ASSUME TypeInv, HandoverInv, [Next]_vars PROVE AcceptedByOwner'
<1>0. /\ transfer \in [Transfers -> TransferRow] /\ RowsOK
     /\ OneOpenTransfer /\ AcceptedByOwner /\ AcceptingByOwner
  BY DEF TypeInv, TypeOK, RowsOK, HandoverInv
<1>5. \A t \in Transfers : transfer[t].status # "NONE" => transfer[t].call \in Calls
  BY <1>0 DEF RowsOK
<1>1. CASE Quiet
  <2>1. \A t \in Transfers : transfer'[t].status = "ACCEPTED" => transfer[t].status = "ACCEPTED"
    BY <1>0, <1>1, QuietRows DEF ClosedStatus
  <2>2. \A c \in Calls : call'[c].agent = call[c].agent
    BY <1>0, <1>1 DEF Quiet
  <2> QED BY <1>0, <1>1, <1>5, <2>1, <2>2, QuietRows DEF AcceptedByOwner
<1>2. ASSUME NEW p \in Procs, CreateTransfer(p) PROVE AcceptedByOwner'
  BY <1>0, <1>2, CreateRows DEF AcceptedByOwner
<1>3. ASSUME NEW p \in Procs, TransitionAccepted(p) PROVE AcceptedByOwner'
  <2>. DEFINE t == proc[p].t
  <2>1. t \in Transfers /\ proc[p].pc = "accept" /\ call' = call
    BY <1>0, <1>3, AcceptRows
  <2>2. CASE transfer' = transfer
    BY <1>0, <2>1, <2>2 DEF AcceptedByOwner
  <2>3. CASE /\ transfer[t].status = "PENDING"
             /\ transfer' = [transfer EXCEPT ![t].status = "ACCEPTED"]
    <3>1. transfer[t].from = call[transfer[t].call].agent
      BY <1>0, <2>1, <2>3 DEF AcceptingByOwner
    <3>2. \A u \in Transfers : /\ transfer'[u].call = transfer[u].call
                               /\ transfer'[u].from = transfer[u].from
                               /\ u # t => transfer'[u].status = transfer[u].status
      BY <1>0, <2>3 DEF TransferRow
    <3>3. ASSUME NEW u \in Transfers, transfer'[u].status = "ACCEPTED"
          PROVE  transfer'[u].from = call'[transfer'[u].call].agent
      <4>1. CASE u = t
        BY <1>0, <2>1, <3>1, <3>2, <4>1
      <4>2. CASE u # t
        BY <1>0, <2>1, <3>2, <3>3, <4>2 DEF AcceptedByOwner
      <4> QED BY <1>0, <4>1, <4>2
    <3> QED BY <1>0, <3>3 DEF AcceptedByOwner
  <2> QED BY <1>0, <1>3, <2>2, <2>3, AcceptRows
<1>4. ASSUME NEW p \in Procs, CommitHandover(p) PROVE AcceptedByOwner'
  <2>1. CASE UNCHANGED database
    BY <1>0, <2>1 DEF AcceptedByOwner, database
  <2>2. CASE ~UNCHANGED database
    <3>. DEFINE t == proc[p].t
    <3>1. /\ t \in Transfers /\ transfer[t].status = "ACCEPTED"
          /\ transfer[t].call \in Calls
          /\ transfer' = [transfer EXCEPT ![t].status = "COMPLETED"]
          /\ call' = [call EXCEPT ![transfer[t].call].agent = transfer[t].to]
      BY <1>0, <1>4, <2>2, CommitRows
    <3>2. ASSUME NEW u \in Transfers, transfer'[u].status = "ACCEPTED"
          PROVE  transfer'[u].from = call'[transfer'[u].call].agent
      <4>1. u # t /\ transfer'[u] = transfer[u] /\ transfer[u].status = "ACCEPTED"
        BY <1>0, <3>1, <3>2 DEF TransferRow
      <4>2. transfer[u].call # transfer[t].call
        BY <1>0, <3>1, <4>1 DEF OneOpenTransfer, Open, OPEN_STATUSES
      <4>3. call'[transfer[u].call] = call[transfer[u].call]
        BY Zenon, <1>0, <3>1, <4>1, <4>2 DEF RowsOK
      <4> QED BY <1>0, <4>1, <4>3 DEF AcceptedByOwner
    <3> QED BY <1>0, <3>2 DEF AcceptedByOwner
  <2> QED BY <1>0, <2>1, <2>2
<1> QED BY <1>1, <1>2, <1>3, <1>4, NextQuiet DEF Loud

(* A request in the middle of an accept: another request goes on.          *)
LEMMA InnerKeepsAccepts ==
    ASSUME TypeInv, NEW p \in Procs, Inner(p),
           ~\E cl \in Clients, t \in Transfers : AcceptTransfer(p, cl, t)
    PROVE  StableProc({"accept"})
<1>. proc \in [Procs -> ProcRecord]
  BY DEF TypeInv, TypeOK
<1>1. CASE Finish(p) \/ \E pc \in LockPCs : Goto(p, pc)
  BY <1>1, FinishStable, GotoStable DEF LockPCs
<1>2. ASSUME NEW pc \in LockPCs, NEW cl, NEW c, NEW t, NEW a, Begin(p, pc, cl, c, t, a)
      PROVE  StableProc({"accept"})
  BY <1>2, BeginStable DEF LockPCs
<1>3. ASSUME NEW cl \in Clients, NEW t \in Transfers, MediaReady(p, cl, t)
      PROVE  StableProc({"accept"})
  BY <1>2, <1>3 DEF MediaReady, LockPCs
<1>4. CASE SetCurrentAgent(p)
  BY <1>1, <1>2, <1>4 DEF SetCurrentAgent, Abort, LockPCs
<1>5. ASSUME NEW pc \in LockPCs, Continue(p, pc) \/ Abort(p) PROVE StableProc({"accept"})
  BY <1>1, <1>5 DEF Continue, Abort
<1> QED
  BY <1>3, <1>4, <1>5
     DEF Inner, FindActive, FindTransfer, WaitForAgentReady, CommitHandover, RollBack,
         RemoveSource, LockPCs

LEMMA AcceptsAreStable ==
    ASSUME TypeInv, [Next]_vars
    PROVE  \/ StableProc({"accept"})
           \/ \E p \in Procs, cl \in Clients, t \in Transfers : AcceptTransfer(p, cl, t)
<1>1. CASE StableProc(InnerPCs)
  BY <1>1 DEF StableProc, InnerPCs
<1>2. ASSUME NEW p \in Procs, Inner(p),
             ~\E cl \in Clients, t \in Transfers : AcceptTransfer(p, cl, t)
      PROVE  StableProc({"accept"})
  BY <1>2, InnerKeepsAccepts
<1> QED BY <1>1, <1>2, NextStable

(* An accept in flight is still an accept of the responsible agent's offer.*)
LEMMA NextAccepting ==
    ASSUME TypeInv, HandoverInv, [Next]_vars PROVE AcceptingByOwner'
<1>0. /\ transfer \in [Transfers -> TransferRow] /\ RowsOK
      /\ OneOpenTransfer /\ AcceptingByOwner
  BY DEF TypeInv, TypeOK, RowsOK, HandoverInv
<1>1. \A q \in Procs : proc[q].pc = "accept" =>
         /\ proc[q].t \in Transfers
         /\ transfer[proc[q].t].status # "NONE"
         /\ transfer[proc[q].t].call \in Calls
  BY <1>0 DEF TypeInv, RequestOK, TransferPCs, RowsOK
<1>2. ASSUME NEW q \in Procs, proc[q].pc = "accept",
             transfer'[proc[q].t].status = "PENDING"
      PROVE  transfer'[proc[q].t].from = call'[transfer'[proc[q].t].call].agent
  <2>. DEFINE t == proc[q].t
  <2>1. t \in Transfers /\ transfer[t].status # "NONE" /\ transfer[t].call \in Calls
    BY <1>1, <1>2
  <2>2. CASE Quiet
    <3>1. transfer[t].status = "PENDING" /\ transfer'[t].call = transfer[t].call
          /\ transfer'[t].from = transfer[t].from
      BY <1>2, <2>1, <2>2, QuietRows DEF ClosedStatus
    <3>2. call'[transfer[t].call].agent = call[transfer[t].call].agent
      BY <2>1, <2>2 DEF Quiet
    <3> QED BY <1>0, <1>2, <3>1, <3>2 DEF AcceptingByOwner
  <2>3. CASE transfer' = transfer /\ call' = call
    BY <1>0, <1>2, <2>3 DEF AcceptingByOwner
  <2>4. CASE transfer'[t] = transfer[t] /\ call' = call
    BY <1>0, <1>2, <2>4 DEF AcceptingByOwner
  <2>5. ASSUME NEW p \in Procs, CreateTransfer(p)
        PROVE  transfer'[t] = transfer[t] /\ call' = call
    BY <1>0, <2>1, <2>5, CreateRows DEF NoTransfer
  <2>6. ASSUME NEW p \in Procs, TransitionAccepted(p)
        PROVE  transfer'[t] = transfer[t] /\ call' = call
    <3>1. proc[p].t \in Transfers /\ call' = call
      BY <2>6, AcceptRows
    <3>2. CASE transfer' = transfer
      BY <3>1, <3>2
    <3>3. CASE transfer' = [transfer EXCEPT ![proc[p].t].status = "ACCEPTED"]
      BY <1>0, <1>2, <2>1, <3>1, <3>3 DEF TransferRow
    <3> QED BY <2>6, <3>2, <3>3, AcceptRows
  <2>7. ASSUME NEW p \in Procs, CommitHandover(p), ~UNCHANGED database
        PROVE  transfer'[t].from = call'[transfer'[t].call].agent
    <3>. DEFINE u == proc[p].t
    <3>1. /\ u \in Transfers /\ transfer[u].status = "ACCEPTED"
          /\ transfer[u].call \in Calls
          /\ transfer' = [transfer EXCEPT ![u].status = "COMPLETED"]
          /\ call' = [call EXCEPT ![transfer[u].call].agent = transfer[u].to]
      BY <2>7, CommitRows
    <3>2. u # t /\ transfer'[t] = transfer[t] /\ transfer[t].status = "PENDING"
      BY <1>0, <1>2, <2>1, <3>1 DEF TransferRow
    <3>3. transfer[u].call # transfer[t].call
      BY <1>0, <2>1, <3>1, <3>2 DEF OneOpenTransfer, Open, OPEN_STATUSES
    <3>4. call'[transfer[t].call] = call[transfer[t].call]
      BY <1>0, <2>1, <3>1, <3>3 DEF RowsOK
    <3> QED BY <1>0, <1>2, <3>2, <3>4 DEF AcceptingByOwner
  <2> QED BY <2>2, <2>3, <2>4, <2>5, <2>6, <2>7, NextQuiet DEF Loud, database
<1>3. CASE StableProc({"accept"})
  BY <1>2, <1>3 DEF StableProc, AcceptingByOwner
<1>4. ASSUME NEW p \in Procs, NEW cl \in Clients, NEW t \in Transfers,
             AcceptTransfer(p, cl, t)
      PROVE  AcceptingByOwner'
  <2>1. /\ transfer' = transfer /\ call' = call
        /\ call[transfer[t].call].agent = transfer[t].from
    BY <1>4 DEF AcceptTransfer, database
  <2>2. /\ proc'[p].t = t
        /\ \A q \in Procs \ {p} : proc'[q] = proc[q]
    <3>1. proc \in [Procs -> ProcRecord]
      BY DEF TypeInv, TypeOK
    <3>2. CASE transfer[t].due
      BY <1>4, <3>1, <3>2 DEF AcceptTransfer, Begin
    <3>3. CASE ~transfer[t].due
      BY <1>4, <3>1, <3>3 DEF AcceptTransfer, Begin
    <3> QED BY <3>2, <3>3
  <2>3. ASSUME NEW q \in Procs, proc'[q].pc = "accept",
               transfer'[proc'[q].t].status = "PENDING"
        PROVE  transfer'[proc'[q].t].from = call'[transfer'[proc'[q].t].call].agent
    <3>1. CASE q = p
      BY <2>1, <2>2, <3>1
    <3>2. CASE q # p
      BY <1>2, <2>2, <2>3, <3>2
    <3> QED BY <3>1, <3>2
  <2> QED BY <2>3 DEF AcceptingByOwner
<1> QED BY <1>3, <1>4, AcceptsAreStable

LEMMA InitHandover == Init => HandoverInv
<1>1. Init => /\ \A t \in Transfers : transfer[t].status = "NONE"
              /\ \A p \in Procs : proc[p].pc = "idle"
  BY DEF Init, NoTransfer, Idle
<1> QED
  BY <1>1 DEF HandoverInv, OneOpenTransfer, AcceptedByOwner, AcceptingByOwner, Open,
     OPEN_STATUSES

LEMMA NextHandover == TypeInv /\ HandoverInv /\ [Next]_vars => HandoverInv'
BY NextOneOpen, NextAccepted, NextAccepting DEF HandoverInv

(* In every reachable state a call has at most one open transfer, and an   *)
(* accepted transfer was offered by the agent who is responsible for the   *)
(* call: the transaction of completeTransfer, which writes the call's      *)
(* agent without looking at it, never overwrites another handover.         *)
THEOREM HandoverIsSafe == Spec => [](OneOpenTransfer /\ AcceptedByOwner)
<1>1. Spec => []TypeInv
  BY TypeCorrect
<1>2. TypeInv /\ HandoverInv /\ [Next]_vars => HandoverInv'
  BY NextHandover
<1>3. HandoverInv => OneOpenTransfer /\ AcceptedByOwner
  BY DEF HandoverInv
<1> QED BY <1>1, <1>2, <1>3, InitHandover, PTL DEF Spec

(* The partial unique index does its work although the database is asked   *)
(* and written at different awaits: no sequence of offers, expirations and *)
(* restarts leaves a call with two open transfers.                         *)
THEOREM OneOfferIsOpen == Spec => []OneOpenTransfer
BY HandoverIsSafe, PTL

-----------------------------------------------------------------------------
(* The rows implement TransferProtocol.                                    *)
LEMMA InitRefines == Init => Protocol!Init
<1> SUFFICES ASSUME Init PROVE Protocol!Init
  OBVIOUS
<1>1. TypeInv
  BY InitTypeInv
<1>2. \A t \in Transfers : transfer[t] = NoTransfer
  BY DEF Init
<1>3. assigned = [c \in Calls |-> None]
  BY DEF Init
<1>4. Owners \in [Calls -> Agents]
  BY <1>1 DEF TypeInv, TypeOK, RowsOK, Owners
<1> QED BY <1>2, <1>3, <1>4 DEF Protocol!Init, Protocol!NoOffer, NoTransfer, StageOf, Offers

(* A row that changes only its status is an offer that changes its stage.  *)
LEMMA OfferMoves ==
    ASSUME transfer \in [Transfers -> TransferRow], NEW t \in Transfers, NEW s,
           transfer' = [transfer EXCEPT ![t].status = s]
    PROVE  Offers' = [Offers EXCEPT ![t].stage = StageOf(s)]
<1>1. \A u \in Transfers :
         /\ transfer'[u].status = IF u = t THEN s ELSE transfer[u].status
         /\ transfer'[u].call = transfer[u].call
         /\ transfer'[u].from = transfer[u].from /\ transfer'[u].to = transfer[u].to
  BY DEF TransferRow
<1>2. \A u \in Transfers : Offers'[u] = [Offers EXCEPT ![t].stage = StageOf(s)][u]
  BY <1>1 DEF Offers
<1> QED BY <1>2 DEF Offers

LEMMA OpenStages ==
    ASSUME NEW t \in Transfers
    PROVE  /\ Protocol!OpenOffer(t) <=> Open(t)
           /\ transfer[t].status = "PENDING" => Offers[t].stage = "offered"
           /\ transfer[t].status = "ACCEPTED" => Offers[t].stage = "accepted"
           /\ Offers[t].call = transfer[t].call /\ Offers[t].from = transfer[t].from
           /\ Offers[t].to = transfer[t].to
BY DEF Protocol!OpenOffer, Open, OPEN_STATUSES, Offers, StageOf

LEMMA QuietRefines ==
    ASSUME TypeInv, Quiet PROVE UNCHANGED Protocol!vars \/ Protocol!Next
<1>0. transfer \in [Transfers -> TransferRow]
  BY DEF TypeInv, TypeOK, RowsOK
<1>1. Owners' = Owners /\ assigned' = assigned
  BY DEF Quiet, Owners
<1>2. ASSUME NEW t \in Transfers, NEW s \in ClosedStatus, Closes(t, s)
      PROVE  Protocol!Withdraw(t)
  <2>1. Offers' = [Offers EXCEPT ![t].stage = "withdrawn"]
    BY <1>0, <1>2, OfferMoves DEF Closes, ClosedStatus, StageOf
  <2> QED BY <1>1, <1>2, <2>1, OpenStages DEF Protocol!Withdraw, Closes
<1>3. ASSUME NEW t \in Transfers, transfer' = [transfer EXCEPT ![t].due = TRUE]
      PROVE  Offers' = Offers
  <2>1. \A u \in Transfers :
           /\ transfer'[u].status = transfer[u].status /\ transfer'[u].call = transfer[u].call
           /\ transfer'[u].from = transfer[u].from /\ transfer'[u].to = transfer[u].to
    BY <1>0, <1>3 DEF TransferRow
  <2> QED BY <2>1 DEF Offers
<1>4. CASE transfer' = transfer
  BY <1>1, <1>4 DEF Protocol!vars, Offers
<1> QED BY <1>1, <1>2, <1>3, <1>4 DEF Quiet, Protocol!Next, Protocol!vars

LEMMA CreateRefines ==
    ASSUME TypeInv, NEW p \in Procs, CreateTransfer(p)
    PROVE  UNCHANGED Protocol!vars \/ Protocol!Next
<1>. DEFINE c == proc[p].call
            a == AgentOf[proc[p].by]
            b == proc[p].agent
<1>0. transfer \in [Transfers -> TransferRow]
  BY DEF TypeInv, TypeOK, RowsOK
<1>1. c \in Calls /\ a \in Agents /\ b \in Agents /\ a # b
  BY CreateRows DEF CreateTransfer, At, TypeInv, RequestOK
<1>2. Owners' = Owners /\ assigned' = assigned
  BY CreateRows DEF Owners
<1>3. CASE transfer' = transfer
  BY <1>2, <1>3 DEF Protocol!vars, Offers
<1>4. ASSUME NEW t \in Transfers, transfer[t] = NoTransfer, OpenOf(c) = {},
             transfer' = [transfer EXCEPT ![t] =
                [status |-> "PENDING", call |-> c, from |-> a, to |-> b, due |-> FALSE]]
      PROVE  Protocol!Offer(t, c, a, b)
  <2>1. Offers[t] = Protocol!NoOffer
    BY <1>4 DEF Offers, NoTransfer, StageOf, Protocol!NoOffer
  <2>2. \A u \in Transfers : Protocol!OpenOffer(u) => Offers[u].call # c
    BY <1>4, OpenStages DEF OpenOf
  <2>3. \A u \in Transfers : Offers'[u] =
           [Offers EXCEPT ![t] = [stage |-> "offered", call |-> c, from |-> a, to |-> b]][u]
    BY <1>0, <1>4 DEF Offers, StageOf
  <2>4. Offers' =
           [Offers EXCEPT ![t] = [stage |-> "offered", call |-> c, from |-> a, to |-> b]]
    BY <2>3 DEF Offers
  <2> QED BY <1>1, <1>2, <2>1, <2>2, <2>4 DEF Protocol!Offer
<1> QED BY <1>1, <1>3, <1>4, CreateRows DEF Protocol!Next

LEMMA AcceptRefines ==
    ASSUME TypeInv, HandoverInv, NEW p \in Procs, TransitionAccepted(p)
    PROVE  UNCHANGED Protocol!vars \/ Protocol!Next
<1>. DEFINE t == proc[p].t
<1>0. transfer \in [Transfers -> TransferRow] /\ AcceptingByOwner
  BY DEF TypeInv, TypeOK, RowsOK, HandoverInv
<1>1. t \in Transfers /\ proc[p].pc = "accept" /\ Owners' = Owners /\ assigned' = assigned
  BY AcceptRows DEF Owners
<1>2. CASE transfer' = transfer
  BY <1>1, <1>2 DEF Protocol!vars, Offers
<1>3. CASE /\ transfer[t].status = "PENDING"
           /\ transfer' = [transfer EXCEPT ![t].status = "ACCEPTED"]
  <2>1. transfer[t].call \in Calls /\ transfer[t].from = call[transfer[t].call].agent
    BY <1>0, <1>1, <1>3 DEF TypeInv, TypeOK, RowsOK, AcceptingByOwner
  <2>2. Owners[Offers[t].call] = Offers[t].from /\ Offers[t].stage = "offered"
    BY <1>1, <1>3, <2>1, OpenStages DEF Owners
  <2>3. Offers' = [Offers EXCEPT ![t].stage = "accepted"]
    BY <1>0, <1>1, <1>3, OfferMoves DEF StageOf
  <2> QED BY <1>1, <2>2, <2>3 DEF Protocol!Accept, Protocol!Next
<1> QED BY <1>2, <1>3, AcceptRows

LEMMA CommitRefines ==
    ASSUME TypeInv, HandoverInv, NEW p \in Procs, CommitHandover(p)
    PROVE  UNCHANGED Protocol!vars \/ Protocol!Next
<1>. DEFINE t == proc[p].t
<1>0. /\ transfer \in [Transfers -> TransferRow] /\ AcceptedByOwner
      /\ call \in [Calls -> [status : {"ACTIVE", "ENDED"}, agent : Agents, hungup : BOOLEAN]]
  BY DEF TypeInv, TypeOK, RowsOK, HandoverInv
<1>1. t \in Transfers /\ transfer[t].call \in Calls /\ transfer[t].to \in Agents
  BY CommitRows
<1>2. CASE UNCHANGED database
  BY <1>2 DEF Protocol!vars, Owners, Offers, database
<1>3. CASE /\ transfer[t].status = "ACCEPTED"
           /\ transfer' = [transfer EXCEPT ![t].status = "COMPLETED"]
           /\ call' = [call EXCEPT ![transfer[t].call].agent = transfer[t].to]
           /\ assigned' = [assigned EXCEPT ![transfer[t].call] = transfer[t].to]
  <2>1. Owners[Offers[t].call] = Offers[t].from /\ Offers[t].stage = "accepted"
    <3>1. call[transfer[t].call].agent = transfer[t].from
      BY <1>0, <1>1, <1>3 DEF AcceptedByOwner
    <3>2. /\ Offers[t].call = transfer[t].call /\ Offers[t].from = transfer[t].from
          /\ Offers[t].stage = "accepted"
      BY Zenon, <1>1, <1>3, OpenStages
    <3> QED BY <1>1, <3>1, <3>2 DEF Owners
  <2>2. Offers' = [Offers EXCEPT ![t].stage = "done"]
    BY <1>0, <1>1, <1>3, OfferMoves DEF StageOf
  <2>3. \A c \in Calls : Owners'[c] = [Owners EXCEPT ![transfer[t].call] = transfer[t].to][c]
    BY <1>0, <1>1, <1>3 DEF Owners
  <2>4. Owners' = [Owners EXCEPT ![Offers[t].call] = Offers[t].to]
    <3>1. Offers[t].call = transfer[t].call /\ Offers[t].to = transfer[t].to
      BY <1>1, OpenStages
    <3> QED BY <2>3, <3>1 DEF Owners
  <2>5. assigned' = [assigned EXCEPT ![Offers[t].call] = Offers[t].to]
    BY <1>1, <1>3, OpenStages
  <2> QED BY <1>1, <2>1, <2>2, <2>4, <2>5 DEF Protocol!HandOver, Protocol!Next
<1> QED BY <1>2, <1>3, CommitRows

LEMMA NextRefines ==
    TypeInv /\ HandoverInv /\ [Next]_vars => [Protocol!Next]_(Protocol!vars)
BY NextQuiet, QuietRefines, CreateRefines, AcceptRefines, CommitRefines DEF Loud

(* Whatever the requests interleave, a call's agent and its conversation's *)
(* attendant change only through an offer of the responsible agent that    *)
(* the other agent accepted and nothing withdrew, and change together.     *)
THEOREM RowsImplementProtocol == Spec => ImplementsProtocol
<1>1. Spec => []TypeInv
  BY TypeCorrect
<1>2. TypeInv /\ HandoverInv /\ [Next]_vars => HandoverInv'
  BY NextHandover
<1>3. Init => HandoverInv /\ Protocol!Init
  BY InitHandover, InitRefines
<1>4. TypeInv /\ HandoverInv /\ [Next]_vars => [Protocol!Next]_(Protocol!vars)
  BY NextRefines
<1> QED BY <1>1, <1>2, <1>3, <1>4, PTL DEF Spec, ImplementsProtocol, Protocol!Spec

-----------------------------------------------------------------------------
(***************************************************************************)
(* One active call per agent.  A media-ready checks that its agent has no  *)
(* other active call and writes five awaits later; the lock on the agent   *)
(* keeps every other media-ready of that agent out in between.             *)
(***************************************************************************)
(* Requests keep their locks; one that has made the check makes no other.  *)
KeepsLocks ==
    \A q \in Procs : proc'[q].pc \in LockPCs =>
        /\ proc[q].pc \in LockPCs
        /\ proc'[q].by = proc[q].by /\ proc'[q].t = proc[q].t
        /\ proc'[q].call = proc[q].call
        /\ AgentOf[proc[q].by] \in mediaAgents'
        /\ proc'[q].pc \in CheckedPCs =>
              proc[q].pc \in CheckedPCs \/ InNoOtherCall(AgentOf[proc[q].by], proc[q].call)

KeepsCalls ==
    \A c \in Calls : call'[c].agent = call[c].agent /\ (Active(c)' => Active(c))

LEMMA LocksKept ==
    ASSUME TypeInv, CallsInv, KeepsTransfers, KeepsCalls, KeepsLocks PROVE CallsInv'
<1>1. OneActiveCallPerAgent'
  BY DEF CallsInv, OneActiveCallPerAgent, KeepsCalls
<1>2. ASSUME NEW p \in Procs, proc'[p].pc \in LockPCs
      PROVE  /\ AgentOf[proc'[p].by] \in mediaAgents'
             /\ transfer'[proc'[p].t].to = AgentOf[proc'[p].by]
             /\ \A q \in Procs : proc'[q].pc \in LockPCs /\ q # p =>
                   AgentOf[proc'[q].by] # AgentOf[proc'[p].by]
  <2>1. /\ proc[p].pc \in LockPCs
        /\ proc'[p].by = proc[p].by /\ proc'[p].t = proc[p].t
        /\ AgentOf[proc[p].by] \in mediaAgents'
    BY <1>2 DEF KeepsLocks
  <2>2. proc[p].t \in Transfers /\ transfer[proc[p].t].status # "NONE"
    BY <2>1 DEF TypeInv, RequestOK
  <2>3. transfer'[proc[p].t].to = AgentOf[proc[p].by]
    BY <2>1, <2>2 DEF KeepsTransfers, CallsInv, LockInv
  <2>4. ASSUME NEW q \in Procs, proc'[q].pc \in LockPCs, q # p
        PROVE  AgentOf[proc'[q].by] # AgentOf[proc'[p].by]
    BY <1>2, <2>1, <2>4 DEF KeepsLocks, CallsInv, LockInv
  <2> QED BY <2>1, <2>3, <2>4
<1>3. ASSUME NEW p \in Procs, proc'[p].pc \in CheckedPCs
      PROVE  \A c \in Calls : Active(c)' /\ call'[c].agent = AgentOf[proc'[p].by] =>
                 c = proc'[p].call
  <2>1. proc'[p].pc \in LockPCs
    BY <1>3 DEF CheckedPCs, LockPCs
  <2>2. InNoOtherCall(AgentOf[proc[p].by], proc[p].call)
    BY <1>3, <2>1 DEF KeepsLocks, CallsInv, LockInv, InNoOtherCall
  <2>3. proc'[p].by = proc[p].by /\ proc'[p].call = proc[p].call
    BY <2>1 DEF KeepsLocks
  <2> QED BY <2>2, <2>3 DEF InNoOtherCall, KeepsCalls
<1> QED BY <1>1, <1>2, <1>3 DEF CallsInv, LockInv

(* Outside mediaReady nothing touches a lock, except a restart.            *)
LEMMA OuterKeepsLocks ==
    ASSUME TypeInv, CallsInv, StableProc(LockPCs),
           mediaAgents' = mediaAgents \/ \A q \in Procs : proc'[q].pc \notin LockPCs
    PROVE  KeepsLocks
BY DEF KeepsLocks, StableProc, CallsInv, LockInv

LEMMA CallsKept ==
    ASSUME TypeInv, [Next]_vars
    PROVE  KeepsCalls \/ \E p \in Procs : CommitHandover(p)
<1>1. ASSUME UNCHANGED call PROVE KeepsCalls
  BY <1>1 DEF KeepsCalls, Active
<1> QED BY <1>1, NextQuiet, CreateRows, AcceptRows DEF Loud, Quiet, KeepsCalls

LEMMA NextKeepsTransfers ==
    ASSUME TypeInv, [Next]_vars PROVE KeepsTransfers
<1>0. transfer \in [Transfers -> TransferRow]
  BY DEF TypeInv, TypeOK, RowsOK
<1>1. CASE Quiet
  BY <1>1, QuietRows DEF KeepsTransfers, ClosedStatus
<1>2. CASE transfer' = transfer
  BY <1>2 DEF KeepsTransfers
<1>3. ASSUME NEW p \in Procs, CreateTransfer(p) PROVE KeepsTransfers
  BY <1>0, <1>2, <1>3, CreateRows DEF KeepsTransfers, NoTransfer
<1>4. ASSUME NEW t \in Transfers, NEW s \in {"ACCEPTED", "COMPLETED"},
             transfer' = [transfer EXCEPT ![t].status = s]
      PROVE  KeepsTransfers
  BY <1>0, <1>4 DEF KeepsTransfers, TransferRow
<1>5. ASSUME NEW p \in Procs, TransitionAccepted(p) PROVE KeepsTransfers
  BY <1>2, <1>4, <1>5, AcceptRows
<1>6. ASSUME NEW p \in Procs, CommitHandover(p) PROVE KeepsTransfers
  BY <1>2, <1>4, <1>6, CommitRows DEF database
<1> QED BY <1>1, <1>3, <1>5, <1>6, NextQuiet DEF Loud

LEMMA OuterLocks ==
    ASSUME TypeInv, [Next]_vars, ~\E p \in Procs : Inner(p)
    PROVE  \/ UNCHANGED <<activating, mediaAgents>>
           \/ \A q \in Procs : proc'[q].pc \notin LockPCs
<1>. Requests \subseteq Procs
  BY DEF Procs
<1>1. ASSUME NEW p \in Requests, Arrival(p) PROVE UNCHANGED <<activating, mediaAgents>>
  BY <1>1 DEF Arrival, Inner, RequestTransfer, ClaimCall, TerminateCall, RejectTransfer,
     CancelTransfer, JoinMedia, CallTerminated, memory
<1>2. ASSUME NEW p \in Procs, Step(p) PROVE UNCHANGED <<activating, mediaAgents>>
  BY <1>2 DEF Step, Inner, FindTarget, CreateTransfer, TransitionAccepted, TransitionLate,
     CloseTransfer, DropTarget, JoinAgent, ClaimSession, UpdateEnded, CloseMedia, ListOpen,
     CancelOpen, memory
<1>3. ASSUME NEW p \in Procs, NEW t \in Transfers, ExpireDue(p, t) \/ Deadline(t)
      PROVE  UNCHANGED <<activating, mediaAgents>>
  BY <1>3 DEF ExpireDue, Deadline, memory
<1>4. CASE Restart
  BY <1>4 DEF Restart, Idle, LockPCs
<1>5. CASE UNCHANGED vars
  BY <1>5 DEF vars
<1> QED BY <1>1, <1>2, <1>3, <1>4, <1>5 DEF Next

(* Inside mediaReady: a request that ends drops only its own locks.        *)
LEMMA AbortKeepsLocks ==
    ASSUME TypeInv, CallsInv, NEW p \in Procs, proc[p].pc \in LockPCs, Abort(p)
    PROVE  KeepsLocks
<1>1. /\ proc'[p] = Idle
      /\ \A q \in Procs \ {p} : proc'[q] = proc[q]
  BY FinishProc DEF TypeInv, TypeOK, Abort
<1>2. mediaAgents' = mediaAgents \ {AgentOf[proc[p].by]}
  BY DEF Abort, Unlock
<1>3. ASSUME NEW q \in Procs, proc'[q].pc \in LockPCs
      PROVE  /\ q # p /\ proc'[q] = proc[q]
             /\ AgentOf[proc[q].by] \in mediaAgents'
  <2>1. q # p /\ proc'[q] = proc[q]
    BY <1>1, <1>3 DEF Idle, LockPCs
  <2>2. /\ AgentOf[proc[q].by] \in mediaAgents
        /\ AgentOf[proc[q].by] # AgentOf[proc[p].by]
    BY <1>3, <2>1 DEF CallsInv, LockInv
  <2> QED BY <1>2, <2>1, <2>2
<1> QED BY <1>3 DEF KeepsLocks

LEMMA MoveKeepsLocks ==
    ASSUME TypeInv, CallsInv, NEW p \in Procs, proc[p].pc \in LockPCs, NEW pc \in LockPCs,
           mediaAgents' = mediaAgents,
           proc'[p].pc = pc /\ proc'[p].by = proc[p].by /\ proc'[p].t = proc[p].t,
           proc'[p].call = proc[p].call,
           \A q \in Procs \ {p} : proc'[q] = proc[q],
           pc \in CheckedPCs => \/ proc[p].pc \in CheckedPCs
                               \/ InNoOtherCall(AgentOf[proc[p].by], proc[p].call)
    PROVE  KeepsLocks
<1>1. \A q \in Procs : proc[q].pc \in LockPCs => AgentOf[proc[q].by] \in mediaAgents
  BY DEF CallsInv, LockInv
<1>2. ASSUME NEW q \in Procs, q # p, proc'[q].pc \in LockPCs
      PROVE  proc'[q] = proc[q] /\ AgentOf[proc[q].by] \in mediaAgents'
  BY <1>1, <1>2
<1> QED BY <1>1, <1>2 DEF KeepsLocks

LEMMA ContinueKeepsLocks ==
    ASSUME TypeInv, CallsInv, NEW p \in Procs, proc[p].pc \in LockPCs, NEW pc \in LockPCs,
           Continue(p, pc),
           pc \in CheckedPCs => \/ proc[p].pc \in CheckedPCs
                               \/ InNoOtherCall(AgentOf[proc[p].by], proc[p].call)
    PROVE  KeepsLocks
<1>1. pc \in PCs /\ proc[p] \in ProcRecord /\ mediaAgents' = mediaAgents
  BY DEF LockPCs, PCs, TypeInv, TypeOK, Continue
<1>2. /\ proc'[p] = [proc[p] EXCEPT !.pc = pc]
      /\ \A q \in Procs \ {p} : proc'[q] = proc[q]
  BY <1>1, GotoProc DEF TypeInv, TypeOK, Continue
<1>3. /\ proc'[p].pc = pc /\ proc'[p].by = proc[p].by /\ proc'[p].t = proc[p].t
      /\ proc'[p].call = proc[p].call
  BY Zenon, <1>1, <1>2 DEF ProcRecord
<1> QED BY <1>1, <1>2, <1>3, MoveKeepsLocks

LEMMA InnerKeepsLocks ==
    ASSUME TypeInv, CallsInv, NEW p \in Procs,
           \/ FindActive(p) \/ FindTransfer(p) \/ WaitForAgentReady(p)
           \/ SetCurrentAgent(p) \/ RollBack(p) \/ RemoveSource(p)
    PROVE  KeepsLocks
<1>0. proc[p].pc \in LockPCs
  BY DEF FindActive, FindTransfer, WaitForAgentReady, SetCurrentAgent, RollBack,
     RemoveSource, At, LockPCs
<1>1. CASE Abort(p)
  BY <1>0, <1>1, AbortKeepsLocks
<1>2. CASE FindActive(p) /\ Continue(p, "find_transfer")
  <2>1. InNoOtherCall(AgentOf[proc[p].by], proc[p].call)
    <3>1. FindActive(p) /\ proc'[p].pc = "find_transfer"
      BY <1>2 DEF Continue, Goto, TypeInv, TypeOK, ProcRecord
    <3>2. ~Abort(p)
      BY <3>1 DEF Abort, Finish, Idle, TypeInv, TypeOK
    <3> QED BY <3>1, <3>2 DEF FindActive, InNoOtherCall
  <2> QED BY <1>0, <1>2, <2>1, ContinueKeepsLocks DEF LockPCs
<1>3. CASE FindTransfer(p) /\ Continue(p, "wait_ready")
  BY <1>0, <1>3, ContinueKeepsLocks DEF FindTransfer, At, LockPCs, CheckedPCs
<1>4. CASE WaitForAgentReady(p) /\ Continue(p, "switch")
  BY <1>0, <1>4, ContinueKeepsLocks DEF WaitForAgentReady, At, LockPCs, CheckedPCs
<1>5. CASE SetCurrentAgent(p) /\ ~Abort(p)
  <2>. DEFINE r == proc[p]
              g == gateway[r.call].current
  <2>1. /\ Begin(p, "commit", r.by, r.call, r.t, g)
        /\ mediaAgents' = mediaAgents /\ r.pc = "switch"
    BY <1>5 DEF SetCurrentAgent, At
  <2>2. r \in ProcRecord /\ r.call \in Calls
    BY <1>0, <2>1 DEF TypeInv, TypeOK, RowsOK, RequestOK
  <2>3. g \in Agents \cup {None}
    BY <2>2 DEF TypeInv, TypeOK, MemoryOK, GatewaySession
  <2>4. /\ r.by \in Clients \cup {None} /\ r.call \in Calls \cup {None}
        /\ r.t \in Transfers \cup {None} /\ "commit" \in PCs
    BY <2>2 DEF ProcRecord, PCs
  <2>5. /\ proc'[p] = [pc |-> "commit", by |-> r.by, call |-> r.call, t |-> r.t, agent |-> g]
        /\ \A q \in Procs \ {p} : proc'[q] = proc[q]
    BY <2>1, <2>3, <2>4, BeginProc DEF TypeInv, TypeOK
  <2>6. "commit" \in LockPCs /\ r.pc \in CheckedPCs
    BY <2>1 DEF LockPCs, CheckedPCs
  <2> QED BY <1>0, <2>1, <2>5, <2>6, MoveKeepsLocks
<1> QED
  BY Zenon, <1>1, <1>2, <1>3, <1>4, <1>5
     DEF FindActive, FindTransfer, WaitForAgentReady, RollBack, RemoveSource

LEMMA AcceptStable ==
    ASSUME TypeInv, NEW p \in Procs, NEW cl \in Clients, NEW t \in Transfers,
           AcceptTransfer(p, cl, t)
    PROVE  StableProc(LockPCs)
<1>1. ASSUME NEW pc \in {"accept", "expire_late"},
             Begin(p, pc, cl, transfer[t].call, t, None)
      PROVE  StableProc(LockPCs)
  BY <1>1, BeginStable DEF LockPCs, TypeInv, TypeOK
<1>2. CASE transfer[t].due
  BY <1>1, <1>2 DEF AcceptTransfer
<1>3. CASE ~transfer[t].due
  BY <1>1, <1>3 DEF AcceptTransfer
<1> QED BY <1>2, <1>3

(* A new media-ready finds no other one of its agent.                      *)
LEMMA MediaReadyCalls ==
    ASSUME TypeInv, CallsInv, NEW p \in Procs, NEW cl \in Clients, NEW t \in Transfers,
           MediaReady(p, cl, t)
    PROVE  CallsInv'
<1>1. /\ transfer' = transfer /\ call' = call
      /\ transfer[t].to = AgentOf[cl] /\ AgentOf[cl] \notin mediaAgents
      /\ mediaAgents' = mediaAgents \cup {AgentOf[cl]}
  BY DEF MediaReady, database
<1>2. /\ proc'[p].pc = "find_active" /\ proc'[p].by = cl /\ proc'[p].t = t
      /\ \A q \in Procs \ {p} : proc'[q] = proc[q]
  BY DEF MediaReady, Begin, TypeInv, TypeOK
<1>3. OneActiveCallPerAgent'
  BY <1>1 DEF CallsInv, OneActiveCallPerAgent, Active
<1>4. \A q \in Procs \ {p} : proc'[q].pc \in LockPCs =>
         /\ AgentOf[proc'[q].by] \in mediaAgents
         /\ transfer'[proc'[q].t].to = AgentOf[proc'[q].by]
  BY <1>1, <1>2 DEF CallsInv, LockInv
<1>5. ASSUME NEW q \in Procs, proc'[q].pc \in LockPCs
      PROVE  /\ AgentOf[proc'[q].by] \in mediaAgents'
             /\ transfer'[proc'[q].t].to = AgentOf[proc'[q].by]
             /\ \A o \in Procs : proc'[o].pc \in LockPCs /\ o # q =>
                   AgentOf[proc'[o].by] # AgentOf[proc'[q].by]
  <2>1. CASE q = p
    BY <1>1, <1>2, <1>4, <2>1
  <2>2. CASE q # p
    BY <1>1, <1>2, <1>4, <1>5, <2>2 DEF CallsInv, LockInv
  <2> QED BY <2>1, <2>2
<1>6. ASSUME NEW q \in Procs, proc'[q].pc \in CheckedPCs
      PROVE  \A c \in Calls : Active(c)' /\ call'[c].agent = AgentOf[proc'[q].by] =>
                 c = proc'[q].call
  <2>1. q # p /\ proc'[q] = proc[q]
    BY <1>2, <1>6 DEF CheckedPCs
  <2> QED BY <1>1, <1>6, <2>1 DEF CallsInv, LockInv, Active
<1> QED BY <1>3, <1>5, <1>6 DEF CallsInv, LockInv

(* The handover itself: the agent it names is in no other call, and the    *)
(* agents of the other media-readys are other agents.                      *)
LEMMA CommitCalls ==
    ASSUME TypeInv, CallsInv, NEW p \in Procs, CommitHandover(p) PROVE CallsInv'
<1>. DEFINE k == proc[p].call
            a == AgentOf[proc[p].by]
<1>0. proc[p].pc = "commit" /\ proc[p].pc \in LockPCs /\ proc[p].pc \in CheckedPCs
  BY DEF CommitHandover, At, LockPCs, CheckedPCs
<1>1. KeepsTransfers
  <2>1. CommitHandover(p) => [Next]_vars
    BY DEF Next, Step
  <2> QED BY <2>1, NextKeepsTransfers
<1>2. KeepsLocks
  <2>1. CASE Abort(p)
    BY <1>0, <2>1, AbortKeepsLocks
  <2>2. ASSUME NEW pc \in {"remove_source", "rollback"}, Continue(p, pc) PROVE KeepsLocks
    BY <1>0, <2>2, ContinueKeepsLocks DEF LockPCs
  <2> QED BY <2>1, <2>2 DEF CommitHandover
<1>3. CASE UNCHANGED database
  <2>1. KeepsCalls
    BY <1>3 DEF KeepsCalls, Active, database
  <2> QED BY <1>1, <1>2, <2>1, LocksKept
<1>4. CASE /\ k \in Calls
           /\ call' = [call EXCEPT ![k].agent = transfer[proc[p].t].to]
           /\ Continue(p, "remove_source")
  <2>0. call \in [Calls -> [status : {"ACTIVE", "ENDED"}, agent : Agents, hungup : BOOLEAN]]
    BY DEF TypeInv, TypeOK, RowsOK
  <2>1. /\ transfer[proc[p].t].to = a
        /\ \A c \in Calls : Active(c) /\ call[c].agent = a => c = k
    BY <1>0 DEF CallsInv, LockInv
  <2>2. \A c \in Calls : /\ Active(c)' <=> Active(c)
                         /\ call'[c].agent = IF c = k THEN a ELSE call[c].agent
    BY <1>4, <2>0, <2>1 DEF Active
  <2>3. OneActiveCallPerAgent'
    <3>1. ASSUME NEW c \in Calls, NEW d \in Calls, Active(c)', Active(d)',
                 call'[c].agent = call'[d].agent
          PROVE  c = d
      BY <2>1, <2>2, <3>1 DEF CallsInv, OneActiveCallPerAgent
    <3> QED BY <3>1 DEF OneActiveCallPerAgent
  <2>4. ASSUME NEW q \in Procs, proc'[q].pc \in LockPCs
        PROVE  /\ AgentOf[proc'[q].by] \in mediaAgents'
               /\ transfer'[proc'[q].t].to = AgentOf[proc'[q].by]
               /\ \A o \in Procs : proc'[o].pc \in LockPCs /\ o # q =>
                     AgentOf[proc'[o].by] # AgentOf[proc'[q].by]
    <3>1. /\ proc[q].pc \in LockPCs
          /\ proc'[q].by = proc[q].by /\ proc'[q].t = proc[q].t
          /\ AgentOf[proc[q].by] \in mediaAgents'
      BY <1>2, <2>4 DEF KeepsLocks
    <3>2. transfer'[proc[q].t].to = AgentOf[proc[q].by]
      BY <1>1, <3>1 DEF KeepsTransfers, TypeInv, RequestOK, CallsInv, LockInv
    <3>3. ASSUME NEW o \in Procs, proc'[o].pc \in LockPCs, o # q
          PROVE  AgentOf[proc'[o].by] # AgentOf[proc'[q].by]
      BY <1>2, <2>4, <3>1, <3>3 DEF KeepsLocks, CallsInv, LockInv
    <3> QED BY <3>1, <3>2, <3>3
  <2>5. ASSUME NEW q \in Procs, proc'[q].pc \in CheckedPCs
        PROVE  \A c \in Calls : Active(c)' /\ call'[c].agent = AgentOf[proc'[q].by] =>
                   c = proc'[q].call
    <3>1. q # p
      BY <1>4, <2>5 DEF Continue, Goto, CheckedPCs, TypeInv, TypeOK, ProcRecord
    <3>2. proc'[q] = proc[q]
      BY <1>4, <3>1 DEF Continue, Goto, TypeInv, TypeOK
    <3>3. proc[q].pc \in LockPCs /\ AgentOf[proc[q].by] # a
      BY <1>0, <2>5, <3>1, <3>2 DEF CheckedPCs, LockPCs, CallsInv, LockInv
    <3> QED BY <2>2, <2>5, <3>2, <3>3 DEF CallsInv, LockInv
  <2> QED BY <2>3, <2>4, <2>5 DEF CallsInv, LockInv
<1> QED BY <1>3, <1>4, CommitRows DEF CommitHandover

LEMMA NextCalls == TypeInv /\ CallsInv /\ [Next]_vars => CallsInv'
<1> SUFFICES ASSUME TypeInv, CallsInv, [Next]_vars PROVE CallsInv'
  OBVIOUS
<1>1. ASSUME NEW p \in Procs, CommitHandover(p) PROVE CallsInv'
  BY <1>1, CommitCalls
<1>2. ASSUME NEW p \in Procs, NEW cl \in Clients, NEW t \in Transfers, MediaReady(p, cl, t)
      PROVE  CallsInv'
  BY <1>2, MediaReadyCalls
<1>3. CASE KeepsCalls /\ KeepsLocks
  BY <1>3, NextKeepsTransfers, LocksKept
<1>4. ASSUME NEW p \in Procs, NEW cl \in Clients, NEW t \in Transfers,
             AcceptTransfer(p, cl, t)
      PROVE  KeepsLocks
  <2>1. mediaAgents' = mediaAgents
    BY <1>4 DEF AcceptTransfer
  <2> QED BY <1>4, <2>1, AcceptStable, OuterKeepsLocks
<1>5. CASE ~\E p \in Procs : Inner(p)
  <2>1. StableProc(LockPCs)
    BY <1>5, NextStable DEF StableProc, InnerPCs
  <2> QED BY <1>5, <2>1, OuterLocks, OuterKeepsLocks, <1>3, CallsKept, <1>1
<1>6. ASSUME NEW p \in Procs, Inner(p) PROVE CallsInv'
  <2>1. CASE KeepsLocks
    BY <1>1, <1>3, <2>1, CallsKept
  <2>2. CASE ~KeepsLocks
    BY <1>1, <1>2, <1>4, <1>6, <2>2, InnerKeepsLocks DEF Inner
  <2> QED BY <2>1, <2>2
<1> QED BY <1>5, <1>6

LEMMA InitCalls == Init => CallsInv
<1> SUFFICES ASSUME Init PROVE CallsInv
  OBVIOUS
<1>1. OneActiveCallPerAgent
  BY DEF Init, OneActiveCallPerAgent
<1>2. \A p \in Procs : proc[p].pc = "idle"
  BY DEF Init, Idle
<1> QED BY <1>1, <1>2 DEF CallsInv, LockInv, LockPCs, CheckedPCs

(* In every reachable state no agent is responsible for two active calls,  *)
(* however many transfers to one agent are completed at once.              *)
THEOREM AgentsAreInOneCall == Spec => []OneActiveCallPerAgent
<1>1. Spec => []TypeInv
  BY TypeCorrect
<1>2. TypeInv /\ CallsInv /\ [Next]_vars => CallsInv'
  BY NextCalls
<1>3. CallsInv => OneActiveCallPerAgent
  BY DEF CallsInv
<1> QED BY <1>1, <1>2, <1>3, InitCalls, PTL DEF Spec

-----------------------------------------------------------------------------
(***************************************************************************)
(* The key of a call in the session store.  One media-ready at a time      *)
(* works on a call, so the agent it has written is still the agent when it *)
(* moves the key.                                                          *)
(***************************************************************************)
LEMMA ActivationStep ==
    ASSUME ActivationInv, NEW p \in Procs, \A q \in Procs \ {p} : proc'[q] = proc[q],
           \/ /\ proc[p].pc \in LockPCs /\ proc'[p].pc \notin LockPCs
              /\ activating' = activating \ {proc[p].call}
           \/ /\ proc[p].pc \in LockPCs /\ proc'[p].call = proc[p].call
              /\ activating' = activating
           \/ /\ proc'[p].call \notin activating
              /\ activating' = activating \cup {proc'[p].call}
    PROVE  ActivationInv'
<1>1. ASSUME NEW q \in Procs, q # p, proc'[q].pc \in LockPCs
      PROVE  /\ proc[q].pc \in LockPCs /\ proc'[q].call = proc[q].call
             /\ proc[q].call \in activating /\ proc[q].call \in activating'
             /\ proc[p].pc \in LockPCs => proc[p].call # proc[q].call
             /\ proc'[p].pc \in LockPCs => proc'[p].call # proc[q].call
  BY <1>1 DEF ActivationInv
<1>2. proc'[p].pc \in LockPCs => proc'[p].call \in activating'
  BY DEF ActivationInv
<1>3. ASSUME NEW q \in Procs, NEW o \in Procs, proc'[q].pc \in LockPCs, proc'[o].pc \in LockPCs,
             proc'[o].call = proc'[q].call
      PROVE  o = q
  BY <1>1, <1>3 DEF ActivationInv
<1>4. ASSUME NEW q \in Procs, proc'[q].pc \in LockPCs PROVE proc'[q].call \in activating'
  BY <1>1, <1>2, <1>4
<1> QED BY <1>3, <1>4 DEF ActivationInv

LEMMA OuterActivation ==
    ASSUME ActivationInv, StableProc(LockPCs),
           activating' = activating \/ \A q \in Procs : proc'[q].pc \notin LockPCs
    PROVE  ActivationInv'
BY DEF ActivationInv, StableProc

LEMMA InnerActivation ==
    ASSUME TypeInv, ActivationInv, NEW p \in Procs,
           \/ FindActive(p) \/ FindTransfer(p) \/ WaitForAgentReady(p)
           \/ SetCurrentAgent(p) \/ CommitHandover(p) \/ RollBack(p) \/ RemoveSource(p)
    PROVE  ActivationInv'
<1>0. proc[p].pc \in LockPCs /\ proc \in [Procs -> ProcRecord]
  BY DEF FindActive, FindTransfer, WaitForAgentReady, SetCurrentAgent, CommitHandover,
     RollBack, RemoveSource, At, LockPCs, TypeInv, TypeOK
<1>1. CASE Abort(p)
  BY <1>0, <1>1, FinishProc, ActivationStep DEF Abort, Unlock, Idle, LockPCs
<1>2. ASSUME NEW pc \in PCs, Continue(p, pc) PROVE ActivationInv'
  BY <1>0, <1>2, ActivationStep DEF Continue, Goto, ProcRecord
<1>3. ASSUME NEW a, Begin(p, "commit", proc[p].by, proc[p].call, proc[p].t, a),
             UNCHANGED <<activating, mediaAgents>>
      PROVE  ActivationInv'
  BY <1>0, <1>3, ActivationStep DEF Begin
<1>4. {"find_transfer", "wait_ready", "switch", "remove_source", "rollback"} \subseteq PCs
  BY Zenon DEF PCs
<1>5. CASE FindActive(p) \/ FindTransfer(p) \/ WaitForAgentReady(p) \/ CommitHandover(p)
           \/ RollBack(p) \/ RemoveSource(p)
  BY <1>1, <1>2, <1>4, <1>5 DEF FindActive, FindTransfer, WaitForAgentReady, CommitHandover,
     RollBack, RemoveSource
<1>6. CASE SetCurrentAgent(p)
  BY <1>1, <1>3, <1>6 DEF SetCurrentAgent
<1> QED BY Zenon, <1>5, <1>6

LEMMA NextActivation == TypeInv /\ ActivationInv /\ [Next]_vars => ActivationInv'
<1> SUFFICES ASSUME TypeInv, ActivationInv, [Next]_vars PROVE ActivationInv'
  OBVIOUS
<1>1. ASSUME NEW p \in Procs, NEW cl \in Clients, NEW t \in Transfers, MediaReady(p, cl, t)
      PROVE  ActivationInv'
  BY <1>1, ActivationStep DEF MediaReady, Begin, TypeInv, TypeOK
<1>2. ASSUME NEW p \in Procs, NEW cl \in Clients, NEW t \in Transfers,
             AcceptTransfer(p, cl, t)
      PROVE  ActivationInv'
  BY <1>2, AcceptStable, OuterActivation DEF AcceptTransfer
<1>3. CASE ~ \E p \in Procs : Inner(p)
  <2>1. StableProc(LockPCs)
    BY <1>3, NextStable DEF StableProc, InnerPCs
  <2> QED BY <1>3, <2>1, OuterLocks, OuterActivation
<1> QED BY <1>1, <1>2, <1>3, InnerActivation DEF Inner

(* Only a claim and a handover get to where the key of a call is written.  *)
KeyPCs == {"claim", "remove_source"}

LEMMA KeyRequests ==
    ASSUME TypeInv, NEW p \in Procs, proc[p].pc \in KeyPCs
    PROVE  /\ proc[p].call \in Calls
           /\ proc[p].pc = "remove_source" =>
                 proc[p].t \in Transfers /\ transfer[proc[p].t].status # "NONE"
BY DEF KeyPCs, TypeInv, TypeOK, RowsOK, RequestOK, LockPCs

(* What a step that leaves the agents of the calls alone owes to KeysInv.  *)
LEMMA KeysStep ==
    ASSUME TypeInv, KeysInv, KeepsTransfers, UNCHANGED assigned,
           \A c \in Calls : call'[c].agent = call[c].agent,
           \A q \in Procs : proc'[q].pc \in KeyPCs =>
              \/ proc'[q] = proc[q]
              \/ /\ proc'[q].pc = "claim" /\ proc'[q].call \in Calls
                 /\ AgentOf[proc'[q].by] = call[proc'[q].call].agent,
           \A t \in Transfers :
              \/ session'[t] \in {None, session[t]}
              \/ transfer[t].status # "NONE" /\ AgentOf[session'[t]] = transfer[t].to,
           \A c \in Calls :
              \/ session'[c] = None
              \/ AgentOf[session'[c]] = call[c].agent
              \/ /\ session'[c] = session[c]
                 /\ \A q \in Procs : proc[q].pc = "remove_source" /\ proc[q].call = c =>
                       proc'[q] = proc[q]
    PROVE  KeysInv'
<1>1. ASSUME NEW t \in Transfers PROVE KeyOfTransfer(t)'
  BY DEF KeysInv, KeyOfTransfer, KeepsTransfers
<1>2. ASSUME NEW c \in Calls PROVE KeyOfCall(c)'
  BY DEF KeysInv, KeyOfCall
<1>3. ASSUME NEW p \in Procs PROVE HoldsKey(p)'
  <2>1. CASE proc'[p] = proc[p] /\ proc[p].pc \in KeyPCs
    BY <2>1, KeyRequests DEF KeysInv, HoldsKey, KeepsTransfers
  <2>2. CASE proc'[p].pc \in KeyPCs /\ proc'[p] # proc[p]
    BY <2>2 DEF HoldsKey
  <2>3. CASE proc'[p].pc \notin KeyPCs
    BY <2>3 DEF HoldsKey, KeyPCs
  <2> QED BY <2>1, <2>2, <2>3
<1> QED BY <1>1, <1>2, <1>3 DEF KeysInv

LEMMA OthersStay ==
    ASSUME TypeInv, NEW p \in Procs, Arrival(p) \/ Step(p)
    PROVE  \A q \in Procs \ {p} : proc'[q] = proc[q]
<1>0. proc \in [Procs -> ProcRecord]
  BY DEF TypeInv, TypeOK
<1>1. CASE Arrival(p)
  <2> DEFINE Begun == \E r : proc' = [proc EXCEPT ![p] = r]
  <2>1. ASSUME NEW pc, NEW cl, NEW c, NEW t, NEW a, Begin(p, pc, cl, c, t, a) PROVE Begun
    BY <2>1 DEF Begin
  <2> HIDE DEF Begun
  <2>2. ASSUME NEW cl, NEW c,
               \/ \E to \in Agents : RequestTransfer(p, cl, c, to)
               \/ ClaimCall(p, cl, c) \/ TerminateCall(p, cl, c) \/ CallTerminated(p, c)
        PROVE  Begun
    BY <2>1, <2>2 DEF RequestTransfer, ClaimCall, TerminateCall, CallTerminated
  <2>3. ASSUME NEW cl, NEW t,
               \/ AcceptTransfer(p, cl, t) \/ RejectTransfer(p, cl, t)
               \/ CancelTransfer(p, cl, t) \/ JoinMedia(p, cl, t) \/ MediaReady(p, cl, t)
        PROVE  Begun
    BY <2>1, <2>3 DEF AcceptTransfer, RejectTransfer, CancelTransfer, JoinMedia, MediaReady
  <2>4. Begun
    BY <1>1, <2>2, <2>3 DEF Arrival
  <2> QED
    BY <1>0, <2>4 DEF Begun
<1>2. CASE \/ FindTarget(p) \/ CreateTransfer(p) \/ TransitionAccepted(p) \/ TransitionLate(p)
           \/ CloseTransfer(p) \/ DropTarget(p) \/ JoinAgent(p) \/ ClaimSession(p)
           \/ UpdateEnded(p) \/ CloseMedia(p) \/ ListOpen(p) \/ CancelOpen(p)
  BY ZenonT(40), <1>0, <1>2 DEF FindTarget, CreateTransfer, TransitionAccepted, TransitionLate,
     CloseTransfer, DropTarget, JoinAgent, ClaimSession, UpdateEnded, CloseMedia, ListOpen,
     CancelOpen, Begin, Goto, Finish
<1>3. CASE \/ FindActive(p) \/ FindTransfer(p) \/ WaitForAgentReady(p) \/ SetCurrentAgent(p)
           \/ CommitHandover(p) \/ RollBack(p) \/ RemoveSource(p)
  BY <1>0, <1>3 DEF FindActive, FindTransfer, WaitForAgentReady, SetCurrentAgent,
     CommitHandover, RollBack, RemoveSource, Begin, Goto, Finish, Abort, Continue
<1> QED BY <1>1, <1>2, <1>3 DEF Step

LEMMA RemovedKeys ==
    ASSUME TypeInv, NEW k, session' = RemoveSession(session, k)
    PROVE  \A x \in Calls \cup Transfers : session'[x] \in {None, session[x]}
BY DEF RemoveSession, TypeInv, TypeOK, MemoryOK

LEMMA ArrivalKeys ==
    ASSUME TypeInv, KeysInv, NEW p \in Requests, Arrival(p) PROVE KeysInv'
<1>. DEFINE NewKey(t) == /\ transfer[t].status # "NONE"
                         /\ \E cl \in Clients : session' = [session EXCEPT ![t] = cl]
                                                  /\ AgentOf[cl] = transfer[t].to
<1>0. /\ p \in Procs /\ proc \in [Procs -> ProcRecord] /\ Calls \cap Transfers = {}
      /\ session \in [Calls \cup Transfers -> Clients \cup {None}] /\ [Next]_vars
  BY ConstantsAssumption DEF TypeInv, TypeOK, MemoryOK, Procs, Next
<1>1. KeepsTransfers /\ \A q \in Procs \ {p} : proc'[q] = proc[q]
  BY <1>0, NextKeepsTransfers, OthersStay
<1>2. UNCHANGED assigned /\ \A c \in Calls : call'[c].agent = call[c].agent
  BY ArrivalQuiet DEF Quiet
<1>3. proc[p] = Idle
  BY ZenonT(40) DEF Arrival, RequestTransfer, ClaimCall, TerminateCall, AcceptTransfer, RejectTransfer,
     CancelTransfer, JoinMedia, MediaReady, CallTerminated, MayStart
<1>4. CASE \E cl \in Clients, c \in Calls : ClaimCall(p, cl, c)
  <2>1. PICK cl \in Clients, c \in Calls : ClaimCall(p, cl, c)
    BY <1>4
  <2>2. /\ proc'[p].pc = "claim" /\ proc'[p].by = cl /\ proc'[p].call = c
        /\ AgentOf[cl] = call[c].agent /\ UNCHANGED session
    BY <1>0, <2>1 DEF ClaimCall, Begin, memory
  <2> QED BY <1>0, <1>1, <1>2, <1>3, <2>2, KeysStep DEF Idle, KeyPCs
<1>5. CASE ~ \E cl \in Clients, c \in Calls : ClaimCall(p, cl, c)
  <2>1. proc'[p].pc \notin KeyPCs
    <3>1. ASSUME NEW pc, NEW cl, NEW c, NEW t, NEW a, Begin(p, pc, cl, c, t, a)
          PROVE  proc'[p].pc = pc
      BY <1>0, <3>1 DEF Begin
    <3>2. ASSUME NEW cl \in Clients, NEW t \in Transfers, AcceptTransfer(p, cl, t)
          PROVE  proc'[p].pc \notin KeyPCs
      BY <3>1, <3>2 DEF AcceptTransfer, KeyPCs
    <3>3. ASSUME NEW cl \in Clients, NEW t \in Transfers,
                 \/ RejectTransfer(p, cl, t) \/ CancelTransfer(p, cl, t)
                 \/ JoinMedia(p, cl, t) \/ MediaReady(p, cl, t)
          PROVE  proc'[p].pc \notin KeyPCs
      BY <3>1, <3>3 DEF RejectTransfer, CancelTransfer, JoinMedia, MediaReady, KeyPCs
    <3>4. ASSUME NEW cl \in Clients, NEW c \in Calls,
                 (\E to \in Agents : RequestTransfer(p, cl, c, to)) \/ TerminateCall(p, cl, c)
          PROVE  proc'[p].pc \notin KeyPCs
      BY <3>1, <3>4 DEF RequestTransfer, TerminateCall, KeyPCs
    <3>5. ASSUME NEW c \in Calls, CallTerminated(p, c) PROVE proc'[p].pc \notin KeyPCs
      BY <3>1, <3>5 DEF CallTerminated, KeyPCs
    <3> QED BY <1>5, <3>2, <3>3, <3>4, <3>5 DEF Arrival
  <2>2. UNCHANGED session \/ \E t \in Transfers : NewKey(t)
    BY ZenonT(40), <1>5 DEF Arrival, RequestTransfer, TerminateCall, AcceptTransfer, RejectTransfer,
       CancelTransfer, JoinMedia, MediaReady, CallTerminated, memory
  <2>3. \A t \in Transfers :
           \/ session'[t] = session[t]
           \/ transfer[t].status # "NONE" /\ AgentOf[session'[t]] = transfer[t].to
    BY <1>0, <2>2
  <2>4. \A c \in Calls : session'[c] = session[c]
    BY <1>0, <2>2
  <2> QED BY <1>1, <1>2, <1>3, <2>1, <2>3, <2>4, KeysStep DEF Idle
<1> QED BY <1>4, <1>5

(* The key of a call changes hands where a claim or a handover says so.    *)
LEMMA ClaimKeys ==
    ASSUME TypeInv, KeysInv, KeepsTransfers, NEW p \in Procs, ClaimSession(p) PROVE KeysInv'
<1>0. /\ proc[p].pc = "claim" /\ proc[p].by \in Clients /\ proc[p].call \in Calls
      /\ session \in [Calls \cup Transfers -> Clients \cup {None}] /\ Calls \cap Transfers = {}
  BY ConstantsAssumption DEF ClaimSession, At, TypeInv, TypeOK, MemoryOK, RequestOK
<1>1. /\ proc'[p] = Idle /\ (\A q \in Procs \ {p} : proc'[q] = proc[q])
      /\ UNCHANGED <<call, assigned>>
  BY FinishProc DEF ClaimSession, TypeInv, TypeOK, database
<1>2. assigned[proc[p].call] \in {None, AgentOf[proc[p].by]} =>
         AgentOf[proc[p].by] = call[proc[p].call].agent
  BY <1>0 DEF KeysInv, KeyOfCall, HoldsKey, TypeInv, TypeOK, RowsOK
<1>3. /\ \A t \in Transfers : session'[t] = session[t]
      /\ \A c \in Calls : session'[c] = session[c] \/ AgentOf[session'[c]] = call[c].agent
  BY <1>0, <1>2 DEF ClaimSession
<1> QED BY <1>0, <1>1, <1>3, KeysStep DEF Idle, KeyPCs

LEMMA RemoveSourceKeys ==
    ASSUME \A cl, dl \in Clients : AgentOf[cl] = AgentOf[dl] => cl = dl,
           TypeInv, CallsInv, ActivationInv, KeysInv, KeepsTransfers,
           NEW p \in Procs, RemoveSource(p)
    PROVE  KeysInv'
<1>. DEFINE r == proc[p]
<1>0. /\ r.pc = "remove_source" /\ r.pc \in LockPCs /\ r.by \in Clients
      /\ r.t \in Transfers /\ r.call \in Calls
      /\ session \in [Calls \cup Transfers -> Clients \cup {None}] /\ Calls \cap Transfers = {}
  BY ConstantsAssumption
     DEF RemoveSource, At, TypeInv, TypeOK, MemoryOK, RequestOK, LockPCs, RowsOK
<1>1. /\ proc'[p] = Idle /\ (\A q \in Procs \ {p} : proc'[q] = proc[q])
      /\ UNCHANGED <<call, assigned>>
  BY FinishProc DEF RemoveSource, Abort, TypeInv, TypeOK, database
<1>2. AgentOf[r.by] = call[r.call].agent /\ AgentOf[r.by] = transfer[r.t].to
  BY <1>0 DEF CallsInv, LockInv, KeysInv, HoldsKey
<1>3. AssertOwner(r.t, r.by)
  BY <1>0, <1>2 DEF AssertOwner, KeysInv, KeyOfTransfer
<1>4. session' = [session EXCEPT ![r.t] = None, ![r.call] = r.by]
  BY <1>3 DEF RemoveSource
<1>5. \A t \in Transfers : session'[t] \in {None, session[t]}
  BY <1>0, <1>4
<1>6. \A c \in Calls :
         \/ AgentOf[session'[c]] = call[c].agent
         \/ session'[c] = session[c] /\ c # r.call
  BY <1>0, <1>2, <1>4
<1> QED BY <1>0, <1>1, <1>5, <1>6, KeysStep DEF Idle, KeyPCs

LEMMA StepKeys ==
    ASSUME TypeInv, KeysInv, KeepsTransfers, NEW p \in Procs, Step(p),
           ~ ClaimSession(p), ~ RemoveSource(p), ~ CommitHandover(p)
    PROVE  KeysInv'
<1>0. proc \in [Procs -> ProcRecord]
  BY DEF TypeInv, TypeOK
<1>1. \A q \in Procs \ {p} : proc'[q] = proc[q]
  BY OthersStay
<1>2. UNCHANGED assigned /\ \A c \in Calls : call'[c].agent = call[c].agent
  BY StepQuiet, CreateRows, AcceptRows DEF Quiet
<1>3. proc[p].pc \notin KeyPCs /\ proc'[p].pc \notin KeyPCs
  <2>1. proc[p].pc \notin KeyPCs
    BY DEF Step, KeyPCs, At, FindTarget, CreateTransfer, TransitionAccepted,
       TransitionLate, CloseTransfer, DropTarget, JoinAgent, FindActive, FindTransfer,
       WaitForAgentReady, SetCurrentAgent, RollBack, UpdateEnded, CloseMedia, ListOpen,
       CancelOpen
  <2>2. CASE Finish(p)
    BY <1>0, <2>1, <2>2, FinishProc DEF Idle, KeyPCs
  <2>3. ASSUME NEW pc, Goto(p, pc) PROVE proc'[p].pc = pc
    BY <1>0, <2>3 DEF Goto, ProcRecord
  <2>4. ASSUME NEW pc, NEW cl, NEW c, NEW t, NEW a, Begin(p, pc, cl, c, t, a)
        PROVE  proc'[p].pc = pc
    BY Zenon, <1>0, <2>4 DEF Begin
  <2>5. CASE \/ FindTarget(p) \/ CreateTransfer(p) \/ TransitionAccepted(p)
             \/ TransitionLate(p) \/ CloseTransfer(p) \/ DropTarget(p) \/ JoinAgent(p)
             \/ UpdateEnded(p) \/ CloseMedia(p) \/ CancelOpen(p)
    BY <2>1, <2>2, <2>3, <2>5 DEF FindTarget, CreateTransfer, TransitionAccepted, TransitionLate,
       CloseTransfer, DropTarget, JoinAgent, UpdateEnded, CloseMedia, CancelOpen, KeyPCs
  <2>6. CASE ListOpen(p)
    BY <2>1, <2>2, <2>4, <2>6 DEF ListOpen, KeyPCs
  <2>7. CASE SetCurrentAgent(p)
    BY <2>1, <2>2, <2>4, <2>7 DEF SetCurrentAgent, Abort, KeyPCs
  <2>8. CASE \/ FindActive(p) \/ FindTransfer(p) \/ WaitForAgentReady(p) \/ RollBack(p)
    BY Zenon, <2>1, <2>2, <2>3, <2>8 DEF FindActive, FindTransfer, WaitForAgentReady, RollBack, Abort,
       Continue, KeyPCs
  <2> QED BY <2>1, <2>5, <2>6, <2>7, <2>8 DEF Step
<1>4. \A x \in Calls \cup Transfers : session'[x] \in {None, session[x]}
  BY RemovedKeys DEF Step, FindTarget, CreateTransfer, TransitionAccepted,
     TransitionLate, CloseTransfer, DropTarget, JoinAgent, FindActive, FindTransfer,
     WaitForAgentReady, SetCurrentAgent, RollBack, UpdateEnded, CloseMedia, ListOpen,
     CancelOpen, memory
<1> QED BY <1>1, <1>2, <1>3, <1>4, KeysStep DEF KeyPCs

(* A handover gives the call to the agent whose client makes it; the key   *)
(* follows when the source has been removed.                               *)
LEMMA CommitKeys ==
    ASSUME TypeInv, ActivationInv, KeysInv, KeepsTransfers, NEW p \in Procs, CommitHandover(p)
    PROVE  KeysInv'
<1>. DEFINE r == proc[p]
            k == r.call
            to == transfer[r.t].to
<1>0. /\ proc \in [Procs -> ProcRecord] /\ r.pc = "commit" /\ r.pc \in LockPCs
      /\ k \in Calls /\ r.t \in Transfers /\ transfer[r.t].status # "NONE" /\ to \in Agents
      /\ call \in [Calls -> [status : {"ACTIVE", "ENDED"}, agent : Agents, hungup : BOOLEAN]]
      /\ assigned \in [Calls -> Agents \cup {None}]
  BY CommitRows DEF TypeInv, TypeOK, RowsOK, RequestOK, CommitHandover, At, LockPCs
<1>1. UNCHANGED session /\ \A q \in Procs \ {p} : proc'[q] = proc[q]
  BY OthersStay DEF CommitHandover, Step
<1>2. CASE UNCHANGED database
  <2>1. proc'[p].pc \notin KeyPCs
    <3>1. CASE Abort(p)
      BY <1>0, <3>1, FinishProc DEF Abort, Idle, KeyPCs
    <3>2. CASE Continue(p, "rollback")
      BY <1>0, <3>2 DEF Continue, Goto, ProcRecord, KeyPCs
    <3>3. CASE Completes(r.t) /\ transfer' = [transfer EXCEPT ![r.t].status = "COMPLETED"]
      BY <1>0, <1>2, <3>3 DEF database, TypeInv, TypeOK, RowsOK, TransferRow
    <3> QED BY <3>1, <3>2, <3>3 DEF CommitHandover
  <2> QED BY <1>0, <1>1, <1>2, <2>1, KeysStep DEF database, KeyPCs
<1>3. CASE ~ UNCHANGED database
  <2>1. /\ call' = [call EXCEPT ![k].agent = to]
        /\ assigned' = [assigned EXCEPT ![k] = to]
        /\ Continue(p, "remove_source")
    BY <1>3 DEF CommitHandover
  <2>2. /\ \A c \in Calls : call'[c].agent = IF c = k THEN to ELSE call[c].agent
        /\ \A c \in Calls : assigned'[c] = IF c = k THEN to ELSE assigned[c]
        /\ proc'[p].pc = "remove_source" /\ proc'[p].call = k /\ proc'[p].t = r.t
    BY <1>0, <2>1 DEF Continue, Goto, ProcRecord
  <2>3. ASSUME NEW q \in Procs, q # p, proc[q].pc = "remove_source" PROVE proc[q].call # k
    BY <1>0, <2>3 DEF ActivationInv, LockPCs
  <2>4. ASSUME NEW t \in Transfers PROVE KeyOfTransfer(t)'
    BY <1>1 DEF KeysInv, KeyOfTransfer, KeepsTransfers
  <2>5. ASSUME NEW c \in Calls PROVE KeyOfCall(c)'
    <3>1. CASE c = k
      BY <2>2, <3>1 DEF KeyOfCall
    <3>2. CASE c # k
      <4>1. (\A q \in Procs : ~ (proc'[q].pc = "remove_source" /\ proc'[q].call = c))
               => \A q \in Procs : ~ (proc[q].pc = "remove_source" /\ proc[q].call = c)
        BY <1>0, <1>1
      <4> QED BY <1>1, <2>2, <3>2, <4>1 DEF KeysInv, KeyOfCall
    <3> QED BY <3>1, <3>2
  <2>6. ASSUME NEW q \in Procs PROVE HoldsKey(q)'
    <3>1. CASE q = p
      BY <1>0, <2>2, <3>1 DEF HoldsKey, KeepsTransfers
    <3>2. CASE q # p /\ proc[q].pc \in KeyPCs
      <4>1. proc'[q] = proc[q] /\ proc[q].call \in Calls
        BY <1>1, <3>2, KeyRequests
      <4>2. CASE proc[q].pc = "claim"
        BY <1>0, <2>2, <4>1, <4>2, ConstantsAssumption DEF KeysInv, HoldsKey
      <4>3. CASE proc[q].pc = "remove_source"
        BY <2>2, <2>3, <3>2, <4>1, <4>3, KeyRequests DEF KeysInv, HoldsKey, KeepsTransfers
      <4> QED BY <3>2, <4>2, <4>3 DEF KeyPCs
    <3>3. CASE q # p /\ proc[q].pc \notin KeyPCs
      BY <1>1, <3>3 DEF HoldsKey, KeyPCs
    <3> QED BY <3>1, <3>2, <3>3
  <2> QED BY <2>4, <2>5, <2>6 DEF KeysInv
<1> QED BY <1>2, <1>3

LEMMA NextKeys ==
    ASSUME \A cl, dl \in Clients : AgentOf[cl] = AgentOf[dl] => cl = dl,
           TypeInv, CallsInv, ActivationInv, KeysInv, [Next]_vars
    PROVE  KeysInv'
<1>0. KeepsTransfers /\ proc \in [Procs -> ProcRecord]
  BY NextKeepsTransfers DEF TypeInv, TypeOK
<1>1. ASSUME NEW p \in Requests, Arrival(p) PROVE KeysInv'
  BY <1>1, ArrivalKeys
<1>2. ASSUME NEW p \in Procs, Step(p) PROVE KeysInv'
  BY <1>0, <1>2, ClaimKeys, RemoveSourceKeys, CommitKeys, StepKeys
<1>3. ASSUME NEW p \in Procs, NEW t \in Transfers, ExpireDue(p, t) PROVE KeysInv'
  <2>1. /\ UNCHANGED <<call, assigned>> /\ proc[p] = Idle /\ proc'[p].pc = "drop_target"
        /\ \A q \in Procs \ {p} : proc'[q] = proc[q]
    BY <1>0, <1>3 DEF ExpireDue, Begin
  <2>2. \A x \in Calls \cup Transfers : session'[x] \in {None, session[x]}
    BY <1>3, RemovedKeys DEF ExpireDue
  <2> QED BY <1>0, <2>1, <2>2, KeysStep DEF Idle, KeyPCs
<1>4. ASSUME NEW t \in Transfers, Deadline(t) PROVE KeysInv'
  BY <1>0, <1>4, KeysStep DEF Deadline, memory
<1>5. CASE Restart
  <2>1. /\ UNCHANGED <<call, assigned>> /\ \A q \in Procs : proc'[q].pc \notin KeyPCs
        /\ \A x \in Calls \cup Transfers : session'[x] = None
    BY <1>5 DEF Restart, Idle, KeyPCs, database, TypeInv, TypeOK, MemoryOK
  <2> QED BY <1>0, <2>1, KeysStep
<1>6. CASE UNCHANGED vars
  BY <1>0, <1>6, KeysStep DEF vars
<1> QED BY <1>1, <1>2, <1>3, <1>4, <1>5, <1>6 DEF Next

LEMMA InitKeys == Init => ActivationInv /\ KeysInv
<1> SUFFICES ASSUME Init PROVE ActivationInv /\ KeysInv
  OBVIOUS
<1>1. \A p \in Procs : proc[p].pc = "idle"
  BY DEF Init, Idle
<1>2. PICK cl \in [Calls -> Clients] :
         /\ call = [c \in Calls |-> [status |-> "ACTIVE", agent |-> AgentOf[cl[c]],
                                     hungup |-> FALSE]]
         /\ session = [k \in Calls \cup Transfers |-> IF k \in Calls THEN cl[k] ELSE None]
         /\ assigned = [c \in Calls |-> None]
  BY DEF Init
<1>3. \A t \in Transfers : session[t] = None
  BY <1>2, ConstantsAssumption
<1> QED BY <1>1, <1>2, <1>3 DEF ActivationInv, LockPCs, KeysInv, KeyOfTransfer, KeyOfCall,
        HoldsKey

(* While every agent uses one browser, the key of a call in conversation   *)
(* belongs to the responsible agent in every reachable state, however      *)
(* claims that read the call and the conversation at two awaits, handovers *)
(* that fail halfway and restarts interleave.  With two browsers of one    *)
(* agent it is false: one may accept the transfer while the media-ready of *)
(* the other is on its way, and the key of the call is not moved.          *)
THEOREM KeysFollowTheOwner ==
    ASSUME \A cl, dl \in Clients : AgentOf[cl] = AgentOf[dl] => cl = dl
    PROVE  Spec => []SessionFollowsOwner
<1> DEFINE Inv == TypeInv /\ CallsInv /\ ActivationInv /\ KeysInv
<1>1. Init => Inv
  BY InitTypeInv, InitCalls, InitKeys
<1>2. Inv /\ [Next]_vars => Inv'
  BY NextTypeInv, NextCalls, NextActivation, NextKeys
<1>3. Inv => SessionFollowsOwner
  BY DEF KeysInv, KeyOfCall, SessionFollowsOwner, Completing
<1> QED BY <1>1, <1>2, <1>3, PTL DEF Spec

-----------------------------------------------------------------------------
(***************************************************************************)
(* The marks of the presence registry, while the offers of a call are made *)
(* one at a time.                                                          *)
(***************************************************************************)
(* A closed row is never opened again.                                     *)
LEMMA ClosedStays ==
    ASSUME TypeInv, [Next]_vars, NEW t \in Transfers, transfer[t].status # "NONE", Open(t)'
    PROVE  Open(t)
<1>. transfer \in [Transfers -> TransferRow]
  BY DEF TypeInv, TypeOK, RowsOK
<1>1. CASE Quiet
  BY <1>1, QuietRows DEF Open, OPEN_STATUSES, ClosedStatus
<1>2. CASE transfer' = transfer
  BY <1>2 DEF Open
<1>3. ASSUME NEW p \in Procs, CreateTransfer(p) PROVE Open(t)
  BY <1>2, <1>3, CreateRows DEF Open, NoTransfer
<1>4. ASSUME NEW p \in Procs, TransitionAccepted(p) PROVE Open(t)
  BY <1>2, <1>4, AcceptRows DEF Open, OPEN_STATUSES
<1>5. ASSUME NEW p \in Procs, CommitHandover(p) PROVE Open(t)
  BY <1>2, <1>5, CommitRows DEF Open, OPEN_STATUSES, database
<1> QED BY <1>1, <1>3, <1>4, <1>5, NextQuiet DEF Loud

(* Where a request may get to without news for the presence of call c.     *)
MarkPCs == {"find_target", "create", "drop_target", "remove_source"}

MovesQuietly(p, c) ==
    \/ proc'[p].pc \notin MarkPCs
    \/ /\ proc'[p].pc = "drop_target" /\ Open(proc'[p].t)
       /\ transfer'[proc'[p].t].status \notin OPEN_STATUSES
    \/ /\ Asking(p, c) /\ proc'[p].pc \in {"find_target", "create"}
       /\ proc'[p].by = proc[p].by /\ proc'[p].agent = proc[p].agent
    \/ proc'[p].pc \in {"find_target", "create", "remove_source"} /\ proc'[p].call # c

QuietFor(c) ==
    /\ \A q \in Procs : proc'[q] = proc[q] \/ MovesQuietly(q, c)
    /\ \A t \in Transfers : Open(t)' /\ transfer'[t].call = c => Open(t)
    /\ call'[c].agent = call[c].agent

(* A mark that nothing rests on any more may be cleared.                   *)
FreeToClear(a, c) ==
    /\ a # call[c].agent
    /\ \A t \in ReservedOf(c)' : transfer'[t].to # a
    /\ \A q \in Procs : proc'[q].pc = "remove_source" /\ proc'[q].call = c =>
          transfer'[proc'[q].t].from # a

LEMMA ReservedStay ==
    ASSUME TypeInv, KeepsTransfers, NEW c \in Calls, QuietFor(c), NEW t \in ReservedOf(c)'
    PROVE  /\ t \in ReservedOf(c) /\ (Open(t)' => Open(t))
           /\ transfer[t].status # "NONE"
           /\ transfer'[t].to = transfer[t].to /\ transfer'[t].from = transfer[t].from
<1>1. t \in Transfers /\ transfer'[t].call = c /\ Reserved(t)'
  BY DEF ReservedOf
<1>2. Open(t)' => Open(t)
  BY <1>1 DEF QuietFor
<1>3. ASSUME NEW q \in Procs, Dropping(q, t)' PROVE Open(t) \/ Dropping(q, t)
  BY <1>3 DEF QuietFor, MovesQuietly, MarkPCs, Dropping
<1>4. Reserved(t)
  BY <1>1, <1>2, <1>3 DEF Reserved
<1>5. ASSUME NEW q \in Procs, Dropping(q, t) PROVE transfer[t].status # "NONE"
  BY <1>5 DEF Dropping, TypeInv, RequestOK, TransferPCs
<1>6. transfer[t].status # "NONE"
  BY <1>4, <1>5 DEF Reserved, Open, OPEN_STATUSES
<1> QED BY <1>1, <1>2, <1>4, <1>6 DEF ReservedOf, KeepsTransfers

(* A step that is quiet for c keeps what the marks of c rest on.           *)
LEMMA PresenceKept ==
    ASSUME TypeInv, KeepsTransfers, NEW c \in Calls, PresenceOf(c), QuietFor(c),
           \A a \in Agents : c \in busy[a] => c \in busy'[a] \/ FreeToClear(a, c)
    PROVE  PresenceOf(c)'
<1>1. \A t \in ReservedOf(c)' :
         /\ t \in ReservedOf(c) /\ (Open(t)' => Open(t))
         /\ transfer[t].status # "NONE"
         /\ transfer'[t].to = transfer[t].to /\ transfer'[t].from = transfer[t].from
  BY ReservedStay
<1>2. call'[c].agent = call[c].agent /\ call[c].agent \in Agents
  BY DEF QuietFor, TypeInv, TypeOK, RowsOK
<1>3. \A q \in Procs : Asking(q, c)' =>
         Asking(q, c) /\ proc'[q].by = proc[q].by /\ proc'[q].agent = proc[q].agent
  BY DEF QuietFor, MovesQuietly, MarkPCs, Asking
<1>4. ASSUME NEW q \in Procs, proc'[q].pc = "remove_source", proc'[q].call = c
      PROVE  /\ proc'[q] = proc[q] /\ proc[q].t \in Transfers
             /\ transfer[proc[q].t].status # "NONE"
             /\ transfer'[proc[q].t].from = transfer[proc[q].t].from
             /\ transfer'[proc[q].t].to = transfer[proc[q].t].to
             /\ transfer[proc[q].t].from \in Agents
  <2>1. proc'[q] = proc[q]
    BY <1>4 DEF QuietFor, MovesQuietly, MarkPCs
  <2>2. proc[q].t \in Transfers /\ transfer[proc[q].t].status # "NONE"
    BY <1>4, <2>1 DEF TypeInv, RequestOK, LockPCs
  <2> QED BY <2>1, <2>2 DEF KeepsTransfers, TypeInv, TypeOK, RowsOK
<1>5. \A u \in Transfers : u \in OpenOf(c)' => u \in ReservedOf(c)'
  BY DEF OpenOf, ReservedOf, Reserved
<1>6. AskInv(c)'
  <2>1. \A u \in Transfers : u \in OpenOf(c)' => u \in OpenOf(c)
    BY <1>1, <1>5 DEF OpenOf, ReservedOf
  <2>2. OpenOf(c) = {} => OpenOf(c)' = {}
    BY <2>1 DEF OpenOf
  <2> QED BY <1>1, <1>2, <1>3, <2>2 DEF PresenceOf, AskInv
<1>7. ReserveInv(c)'
  <2>1. ASSUME NEW t \in ReservedOf(c)' PROVE c \in busy'[transfer'[t].to]
    <3>1. transfer[t].to \in Agents /\ c \in busy[transfer[t].to]
      BY <1>1, <2>1 DEF PresenceOf, ReserveInv, TypeInv, TypeOK, RowsOK, ReservedOf
    <3> QED BY <1>1, <3>1 DEF FreeToClear
  <2> QED BY Zenon, <1>1, <1>2, <2>1 DEF PresenceOf, ReserveInv
<1>8. SourceInv(c)'
  <2>1. ASSUME NEW q \in Procs, proc'[q].pc = "remove_source", proc'[q].call = c
        PROVE  c \in busy'[transfer'[proc'[q].t].from]
    BY <1>4, <2>1 DEF FreeToClear, PresenceOf, SourceInv
  <2>2. ASSUME NEW q \in Procs, proc'[q].pc = "remove_source", proc'[q].call = c
        PROVE  /\ transfer'[proc'[q].t].to = call'[c].agent
               /\ transfer'[proc'[q].t].from # call'[c].agent
               /\ \A t \in ReservedOf(c)' : transfer'[t].to # transfer'[proc'[q].t].from
               /\ \A o \in Procs : Asking(o, c)' => proc'[o].agent # transfer'[proc'[q].t].from
    <3>1. proc[q].pc = "remove_source" /\ proc[q].call = c /\ proc'[q].t = proc[q].t
      BY <1>4, <2>2
    <3> QED BY <1>1, <1>2, <1>3, <1>4, <2>2, <3>1 DEF PresenceOf, SourceInv
  <2> QED BY <2>1, <2>2 DEF SourceInv
<1>9. c \in busy'[call'[c].agent]
  BY <1>2 DEF PresenceOf, FreeToClear
<1> QED BY <1>6, <1>7, <1>8, <1>9 DEF PresenceOf

LEMMA BeginMoves ==
    ASSUME TypeInv, NEW p \in Procs, NEW c, NEW pc, pc \notin MarkPCs,
           NEW cl, NEW d, NEW t, NEW a, Begin(p, pc, cl, d, t, a)
    PROVE  MovesQuietly(p, c)
BY DEF Begin, MovesQuietly, TypeInv, TypeOK

LEMMA GotoMoves ==
    ASSUME TypeInv, NEW p \in Procs, NEW c, NEW pc, pc \notin MarkPCs, Goto(p, pc)
    PROVE  MovesQuietly(p, c)
BY DEF Goto, MovesQuietly, TypeInv, TypeOK, ProcRecord

LEMMA FinishMoves ==
    ASSUME TypeInv, NEW p \in Procs, NEW c, Finish(p)
    PROVE  MovesQuietly(p, c)
BY DEF Finish, Idle, MovesQuietly, MarkPCs, TypeInv, TypeOK

LEMMA ArrivalMoves ==
    ASSUME TypeInv, NEW p \in Requests, Arrival(p), NEW c
    PROVE  MovesQuietly(p, c) \/ \E cl \in Clients, to \in Agents : RequestTransfer(p, cl, c, to)
<1>. p \in Procs
  BY DEF Procs
<1>. DEFINE Far == {"claim", "terminate", "accept", "expire_late", "REJECTED", "CANCELLED",
                    "join", "find_active", "close_media"}
<1>1. \A pc \in Far : pc \notin MarkPCs
  BY DEF MarkPCs
<1>2. ASSUME NEW cl \in Clients, NEW d \in Calls, NEW to \in Agents,
             RequestTransfer(p, cl, d, to), d # c
      PROVE  MovesQuietly(p, c)
  BY <1>2 DEF RequestTransfer, Begin, MovesQuietly, TypeInv, TypeOK
<1>3. ASSUME NEW pc \in Far, NEW cl, NEW d, NEW t, NEW a, Begin(p, pc, cl, d, t, a)
      PROVE  MovesQuietly(p, c)
  BY <1>1, <1>3, BeginMoves
<1>4. ASSUME NEW cl \in Clients, NEW d \in Calls,
             ClaimCall(p, cl, d) \/ TerminateCall(p, cl, d)
      PROVE  MovesQuietly(p, c)
  BY <1>3, <1>4 DEF ClaimCall, TerminateCall
<1>5. ASSUME NEW cl \in Clients, NEW t \in Transfers,
             \/ AcceptTransfer(p, cl, t) \/ RejectTransfer(p, cl, t)
             \/ CancelTransfer(p, cl, t) \/ JoinMedia(p, cl, t) \/ MediaReady(p, cl, t)
      PROVE  MovesQuietly(p, c)
  <2>1. CASE AcceptTransfer(p, cl, t)
    BY <1>3, <2>1 DEF AcceptTransfer
  <2>2. CASE RejectTransfer(p, cl, t) \/ CancelTransfer(p, cl, t)
    BY <1>3, <2>2 DEF RejectTransfer, CancelTransfer
  <2>3. CASE JoinMedia(p, cl, t) \/ MediaReady(p, cl, t)
    BY <1>3, <2>3 DEF JoinMedia, MediaReady
  <2> QED BY <1>5, <2>1, <2>2, <2>3
<1>6. ASSUME NEW d \in Calls, CallTerminated(p, d) PROVE MovesQuietly(p, c)
  BY <1>3, <1>6 DEF CallTerminated
<1> QED BY Zenon, <1>2, <1>4, <1>5, <1>6 DEF Arrival

LEMMA StepMoves ==
    ASSUME TypeInv, NEW p \in Procs, Step(p), NEW c
    PROVE  MovesQuietly(p, c) \/ CommitHandover(p)
<1>. DEFINE Far == {"find_transfer", "wait_ready", "switch", "commit", "rollback",
                    "close_media", "list_open", "cancel_open"}
<1>1. \A pc \in Far : pc \notin MarkPCs
  BY DEF MarkPCs
<1>2. CASE Finish(p)
  BY <1>2, FinishMoves
<1>3. ASSUME NEW pc \in Far, Goto(p, pc) PROVE MovesQuietly(p, c)
  BY <1>1, <1>3, GotoMoves
<1>4. ASSUME NEW pc \in Far, NEW cl, NEW d, NEW t, NEW a, Begin(p, pc, cl, d, t, a)
      PROVE  MovesQuietly(p, c)
  BY <1>1, <1>4, BeginMoves
<1>5. CASE FindTarget(p) /\ Goto(p, "create")
  BY <1>5 DEF FindTarget, At, Goto, MovesQuietly, Asking, TypeInv, TypeOK, ProcRecord
<1>6. CASE CloseTransfer(p) /\ Open(proc[p].t) /\ Goto(p, "drop_target")
  <2>1. proc'[p] = [proc[p] EXCEPT !.pc = "drop_target"]
    BY <1>6 DEF Goto, TypeInv, TypeOK
  <2>2. proc'[p].pc = "drop_target" /\ proc'[p].t = proc[p].t
    BY <2>1 DEF TypeInv, TypeOK, ProcRecord
  <2>3. proc[p].t \in Transfers /\ proc[p].pc \notin OPEN_STATUSES
    BY <1>6 DEF CloseTransfer, TypeInv, RequestOK, TransferPCs, OPEN_STATUSES
  <2>4. transfer'[proc[p].t].status = proc[p].pc
    BY <1>6, <2>3 DEF CloseTransfer, TypeInv, TypeOK, RowsOK, TransferRow
  <2> QED BY <1>6, <2>2, <2>3, <2>4 DEF MovesQuietly
<1>7. CASE Abort(p)
  BY <1>2, <1>7 DEF Abort
<1>8. ASSUME NEW pc \in Far, Continue(p, pc) PROVE MovesQuietly(p, c)
  BY <1>3, <1>8 DEF Continue
<1>9. CASE SetCurrentAgent(p) \/ ListOpen(p)
  BY <1>2, <1>4, <1>7, <1>9 DEF SetCurrentAgent, ListOpen
<1>10. CASE FindTarget(p) \/ CloseTransfer(p)
  BY <1>2, <1>5, <1>6, <1>10 DEF FindTarget, CloseTransfer
<1>11. CASE \/ CreateTransfer(p) \/ TransitionAccepted(p) \/ TransitionLate(p) \/ DropTarget(p)
            \/ JoinAgent(p) \/ ClaimSession(p) \/ CancelOpen(p)
  BY Zenon, <1>2, <1>11 DEF CreateTransfer, TransitionAccepted, TransitionLate, DropTarget,
     JoinAgent, ClaimSession, CancelOpen
<1>12. CASE UpdateEnded(p) \/ CloseMedia(p)
  BY <1>2, <1>3, <1>12 DEF UpdateEnded, CloseMedia
<1>13. CASE \/ FindActive(p) \/ FindTransfer(p) \/ WaitForAgentReady(p) \/ RollBack(p)
            \/ RemoveSource(p)
  BY <1>7, <1>8, <1>13 DEF FindActive, FindTransfer, WaitForAgentReady, RollBack, RemoveSource
<1> QED BY Zenon, <1>9, <1>10, <1>11, <1>12, <1>13 DEF Step

LEMMA ExpireMoves ==
    ASSUME TypeInv, NEW p \in Procs, NEW t \in Transfers, ExpireDue(p, t), NEW c
    PROVE  /\ MovesQuietly(p, c) /\ proc'[p].pc = "drop_target" /\ proc'[p].t = t
           /\ \A q \in Procs \ {p} : proc'[q] = proc[q]
<1>1. /\ proc'[p].pc = "drop_target" /\ proc'[p].t = t
      /\ \A q \in Procs \ {p} : proc'[q] = proc[q]
  BY DEF ExpireDue, Begin, TypeInv, TypeOK
<1>2. transfer'[t].status = "EXPIRED" /\ Open(t)
  BY DEF ExpireDue, TypeInv, TypeOK, RowsOK, TransferRow
<1> QED BY <1>1, <1>2 DEF MovesQuietly, OPEN_STATUSES

LEMMA OneMoves ==
    ASSUME TypeInv, [Next]_vars, ~ Restart, NEW p \in Procs, proc'[p] # proc[p]
    PROVE  \A q \in Procs \ {p} : proc'[q] = proc[q]
<1>1. ASSUME NEW o \in Procs, Step(o) \/ (o \in Requests /\ Arrival(o))
      PROVE  \A q \in Procs \ {p} : proc'[q] = proc[q]
  BY <1>1, OthersStay
<1>2. ASSUME NEW o \in Procs, NEW t \in Transfers, ExpireDue(o, t)
      PROVE  \A q \in Procs \ {p} : proc'[q] = proc[q]
  BY <1>2, ExpireMoves
<1>3. ASSUME NEW t \in Transfers, Deadline(t) PROVE FALSE
  BY <1>3 DEF Deadline
<1>4. CASE UNCHANGED vars
  BY <1>4 DEF vars
<1> QED BY <1>1, <1>2, <1>3, <1>4 DEF Next, Procs

LEMMA NextMoves ==
    ASSUME TypeInv, [Next]_vars, ~ Restart, NEW c, NEW p \in Procs
    PROVE  \/ proc'[p] = proc[p] \/ MovesQuietly(p, c) \/ CommitHandover(p)
           \/ \E cl \in Clients, to \in Agents : p \in Requests /\ RequestTransfer(p, cl, c, to)
<1>. Requests \subseteq Procs
  BY DEF Procs
<1>1. ASSUME NEW q \in Requests, Arrival(q), proc'[p] # proc[p] PROVE q = p
  BY <1>1, OthersStay
<1>2. ASSUME NEW q \in Procs, Step(q), proc'[p] # proc[p] PROVE q = p
  BY <1>2, OthersStay
<1>3. ASSUME NEW q \in Procs, NEW t \in Transfers, ExpireDue(q, t), proc'[p] # proc[p]
      PROVE  MovesQuietly(p, c)
  BY <1>3, ExpireMoves
<1>4. ASSUME p \in Requests, Arrival(p)
      PROVE  MovesQuietly(p, c) \/ \E cl \in Clients, to \in Agents : RequestTransfer(p, cl, c, to)
  BY <1>4, ArrivalMoves
<1>5. ASSUME Step(p) PROVE MovesQuietly(p, c) \/ CommitHandover(p)
  BY <1>5, StepMoves
<1>6. ASSUME NEW t \in Transfers, Deadline(t) PROVE proc'[p] = proc[p]
  BY <1>6 DEF Deadline
<1>7. CASE UNCHANGED vars
  BY <1>7 DEF vars
<1>8. CASE Next
  BY Zenon, <1>1, <1>2, <1>3, <1>4, <1>5, <1>6, <1>8 DEF Next
<1> QED BY <1>7, <1>8

(* A request drops the target of a row it has just closed: no two do.      *)
LEMMA NextDrop ==
    ASSUME TypeInv, DropInv, [Next]_vars, ~ Restart PROVE DropInv'
<1>1. ASSUME NEW p \in Procs, proc'[p].pc = "drop_target", proc'[p] # proc[p]
      PROVE  /\ Open(proc'[p].t) /\ transfer'[proc'[p].t].status \notin OPEN_STATUSES
             /\ \A q \in Procs \ {p} : proc'[q] = proc[q]
  <2>1. ~ CommitHandover(p)
    BY <1>1 DEF CommitHandover, Continue, Goto, Abort, Finish, Idle, TypeInv, TypeOK, ProcRecord
  <2>2. ASSUME NEW cl \in Clients, NEW to \in Agents, NEW c, RequestTransfer(p, cl, c, to)
        PROVE  FALSE
    BY <1>1, <2>2 DEF RequestTransfer, Begin, TypeInv, TypeOK
  <2>3. MovesQuietly(p, None)
    BY <1>1, <2>1, <2>2, NextMoves
  <2>4. Open(proc'[p].t) /\ transfer'[proc'[p].t].status \notin OPEN_STATUSES
    BY <1>1, <2>3 DEF MovesQuietly, MarkPCs
  <2>5. \A q \in Procs \ {p} : proc'[q] = proc[q]
    BY <1>1, OneMoves
  <2> QED BY <2>4, <2>5
<1>2. ASSUME NEW t \in Transfers, NEW p \in Procs, Dropping(p, t)
      PROVE  transfer[t].status # "NONE" /\ ~ Open(t) /\ ~ Open(t)'
  BY <1>2, ClosedStays DEF DropInv, Dropping, TypeInv, RequestOK, TransferPCs
<1>3. ASSUME NEW t \in Transfers, NEW p \in Procs, Dropping(p, t)'
      PROVE  ~ Open(t)'
  <2>1. CASE proc'[p] = proc[p]
    BY <1>2, <1>3, <2>1 DEF Dropping
  <2>2. CASE proc'[p] # proc[p]
    BY <1>1, <1>3, <2>2 DEF Dropping, Open
  <2> QED BY <2>1, <2>2
<1>4. ASSUME NEW t \in Transfers, NEW p \in Procs, NEW q \in Procs,
             Dropping(p, t)', Dropping(q, t)'
      PROVE  q = p
  <2>1. CASE proc'[p] = proc[p] /\ proc'[q] = proc[q]
    BY <1>4, <2>1 DEF Dropping, DropInv
  <2>2. CASE proc'[p] # proc[p]
    BY <1>1, <1>2, <1>4, <2>2 DEF Dropping
  <2>3. CASE proc'[q] # proc[q]
    BY <1>1, <1>2, <1>4, <2>3 DEF Dropping
  <2> QED BY <2>1, <2>2, <2>3
<1> QED BY <1>3, <1>4 DEF DropInv

(* Requests that end a call or sweep its offers come from its end.         *)
EndPCs == {"close_media", "list_open", "cancel_open"}

Ending(p) == UpdateEnded(p) \/ CloseMedia(p) \/ ListOpen(p)

LEMMA StepEnds ==
    ASSUME TypeInv, NEW p \in Procs, Step(p) PROVE StableProc(EndPCs) \/ Ending(p)
<1>. proc \in [Procs -> ProcRecord]
  BY DEF TypeInv, TypeOK
<1>. DEFINE Far == {"create", "drop_target", "find_transfer", "wait_ready", "switch", "commit",
                    "rollback", "remove_source"}
<1>1. \A pc \in Far \cup {"idle"} : pc \notin EndPCs
  BY DEF EndPCs
<1>2. CASE Finish(p)
  BY <1>1, <1>2, FinishStable
<1>3. ASSUME NEW pc \in Far, Goto(p, pc) PROVE StableProc(EndPCs)
  BY <1>1, <1>3, GotoStable
<1>4. ASSUME NEW cl, NEW d, NEW t, NEW a, Begin(p, "commit", cl, d, t, a)
      PROVE  StableProc(EndPCs)
  BY <1>1, <1>4, BeginStable
<1>5. CASE Abort(p)
  BY <1>2, <1>5 DEF Abort
<1>6. ASSUME NEW pc \in Far, Continue(p, pc) PROVE StableProc(EndPCs)
  BY <1>3, <1>6 DEF Continue
<1>7. CASE FindTarget(p) \/ CloseTransfer(p)
  BY <1>2, <1>3, <1>7 DEF FindTarget, CloseTransfer
<1>8. CASE \/ CreateTransfer(p) \/ TransitionAccepted(p) \/ TransitionLate(p) \/ DropTarget(p)
           \/ JoinAgent(p) \/ ClaimSession(p) \/ CancelOpen(p)
  BY Zenon, <1>2, <1>8 DEF CreateTransfer, TransitionAccepted, TransitionLate, DropTarget,
     JoinAgent, ClaimSession, CancelOpen
<1>9. CASE SetCurrentAgent(p)
  BY <1>4, <1>5, <1>9 DEF SetCurrentAgent
<1>10. CASE \/ FindActive(p) \/ FindTransfer(p) \/ WaitForAgentReady(p) \/ CommitHandover(p)
            \/ RollBack(p) \/ RemoveSource(p)
  BY <1>5, <1>6, <1>10 DEF FindActive, FindTransfer, WaitForAgentReady, CommitHandover,
     RollBack, RemoveSource
<1> QED BY Zenon, <1>7, <1>8, <1>9, <1>10 DEF Step, Ending

LEMMA ArrivalEnds ==
    ASSUME TypeInv, NEW p \in Requests, Arrival(p)
    PROVE  StableProc(EndPCs) \/ \E c \in Calls : CallTerminated(p, c)
<1>. p \in Procs /\ proc \in [Procs -> ProcRecord]
  BY DEF TypeInv, TypeOK, Procs
<1>. DEFINE Far == {"find_target", "claim", "terminate", "accept", "expire_late", "REJECTED",
                    "CANCELLED", "join", "find_active"}
<1>1. \A pc \in Far : pc \notin EndPCs
  BY DEF EndPCs
<1>2. ASSUME NEW pc \in Far, NEW cl, NEW d, NEW t, NEW a, Begin(p, pc, cl, d, t, a)
      PROVE  StableProc(EndPCs)
  BY <1>1, <1>2, BeginStable
<1>3. ASSUME NEW cl \in Clients, NEW d \in Calls,
             \/ \E to \in Agents : RequestTransfer(p, cl, d, to)
             \/ ClaimCall(p, cl, d) \/ TerminateCall(p, cl, d)
      PROVE  StableProc(EndPCs)
  BY <1>2, <1>3 DEF RequestTransfer, ClaimCall, TerminateCall
<1>4. ASSUME NEW cl \in Clients, NEW t \in Transfers,
             AcceptTransfer(p, cl, t) \/ RejectTransfer(p, cl, t) \/ CancelTransfer(p, cl, t)
      PROVE  StableProc(EndPCs)
  BY <1>2, <1>4 DEF AcceptTransfer, RejectTransfer, CancelTransfer
<1>5. ASSUME NEW cl \in Clients, NEW t \in Transfers, JoinMedia(p, cl, t) \/ MediaReady(p, cl, t)
      PROVE  StableProc(EndPCs)
  BY <1>2, <1>5 DEF JoinMedia, MediaReady
<1> QED BY Zenon, <1>3, <1>4, <1>5 DEF Arrival

LEMMA CallsStayEnded ==
    ASSUME TypeInv, [Next]_vars, NEW c \in Calls, Active(c)' PROVE Active(c)
<1>. call \in [Calls -> [status : {"ACTIVE", "ENDED"}, agent : Agents, hungup : BOOLEAN]]
  BY DEF TypeInv, TypeOK, RowsOK
<1>1. CASE KeepsCalls
  BY <1>1 DEF KeepsCalls
<1>2. ASSUME NEW p \in Procs, CommitHandover(p) PROVE Active(c)
  <2>1. CASE call' = call
    BY <2>1 DEF Active
  <2>2. CASE call' = [call EXCEPT ![proc[p].call].agent = transfer[proc[p].t].to]
    BY <2>2 DEF Active
  <2>3. UNCHANGED database => call' = call
    BY DEF database
  <2> QED BY Zenon, <1>2, <2>1, <2>2, <2>3, CommitRows
<1> QED BY <1>1, <1>2, CallsKept

LEMMA NextEnd ==
    ASSUME TypeInv, EndInv, [Next]_vars, ~ Restart PROVE EndInv'
<1>. call \in [Calls -> [status : {"ACTIVE", "ENDED"}, agent : Agents, hungup : BOOLEAN]]
  BY DEF TypeInv, TypeOK, RowsOK
<1>. proc \in [Procs -> ProcRecord] /\ Requests \subseteq Procs
  BY DEF TypeInv, TypeOK, Procs
<1>1. \A p \in Procs : proc[p].pc \in EndPCs => proc[p].call \in Calls /\ ~ Active(proc[p].call)
  BY DEF EndInv, EndPCs, TypeInv, RequestOK, TransferPCs, TypeOK, RowsOK
<1>2. ASSUME NEW p \in Procs, proc'[p].pc \in EndPCs, proc'[p] = proc[p]
      PROVE  call'[proc'[p].call].status # "ACTIVE"
  BY <1>1, <1>2, CallsStayEnded DEF Active
<1>3. ASSUME StableProc(EndPCs) PROVE EndInv'
  BY <1>2, <1>3 DEF EndInv, StableProc, EndPCs, Active
<1>4. ASSUME NEW p \in Requests, NEW c \in Calls, CallTerminated(p, c) PROVE EndInv'
  <2>1. proc'[p].call = c /\ \A q \in Procs \ {p} : proc'[q] = proc[q]
    BY <1>4 DEF CallTerminated, Begin
  <2>2. ~ Active(c)'
    BY <1>4 DEF CallTerminated, Active
  <2> QED BY <1>2, <2>1, <2>2 DEF EndInv, EndPCs, Active
<1>5. ASSUME NEW p \in Procs, Ending(p), Step(p) PROVE EndInv'
  <2>1. \A q \in Procs \ {p} : proc'[q] = proc[q]
    BY <1>5, OthersStay
  <2>2. proc'[p].pc \in EndPCs => proc'[p].call = proc[p].call /\ proc[p].call \in Calls
    <3>1. CASE UpdateEnded(p) \/ CloseMedia(p)
      <4>1. proc'[p].call = proc[p].call \/ proc'[p].pc = "idle"
        BY <3>1 DEF UpdateEnded, CloseMedia, Goto, Finish, Idle, ProcRecord
      <4> QED BY <3>1, <4>1 DEF UpdateEnded, CloseMedia, At, EndPCs, TypeInv, RequestOK
    <3>2. CASE ListOpen(p)
      <4>1. proc'[p].call = proc[p].call \/ proc'[p].pc = "idle"
        BY <3>2 DEF ListOpen, Begin, Finish, Idle
      <4> QED BY <1>1, <3>2, <4>1 DEF ListOpen, At, EndPCs
    <3> QED BY <1>5, <3>1, <3>2 DEF Ending
  <2>3. proc'[p].pc \in EndPCs => call'[proc[p].call].status # "ACTIVE"
    <3>1. CASE UpdateEnded(p)
      <4>1. CASE Finish(p)
        BY <4>1 DEF Finish, Idle, EndPCs
      <4>2. CASE call' = [call EXCEPT ![proc[p].call].status = "ENDED"]
        BY <2>2, <4>2
      <4> QED BY <3>1, <4>1, <4>2 DEF UpdateEnded
    <3>2. CASE CloseMedia(p) \/ ListOpen(p)
      <4>1. proc[p].pc \in EndPCs
        BY <3>2 DEF CloseMedia, ListOpen, At, EndPCs
      <4> QED BY <1>1, <4>1, CallsStayEnded DEF Active
    <3> QED BY <1>5, <3>1, <3>2 DEF Ending
  <2> QED BY <1>2, <2>1, <2>2, <2>3 DEF EndInv, EndPCs, Active
<1>6. ASSUME NEW p \in Procs, NEW t \in Transfers, ExpireDue(p, t) PROVE EndInv'
  <2>1. StableProc(EndPCs)
    BY <1>6, BeginStable DEF ExpireDue, EndPCs
  <2> QED BY <1>3, <2>1
<1>7. ASSUME proc' = proc PROVE EndInv'
  BY <1>3, <1>7, SameStable
<1> QED
  BY <1>3, <1>4, <1>5, <1>6, <1>7, StepEnds, ArrivalEnds DEF Next, vars, Deadline

-----------------------------------------------------------------------------
LEMMA NextQuietFor ==
    ASSUME TypeInv, [Next]_vars, NEW c \in Calls,
           \A p \in Procs : proc'[p] = proc[p] \/ MovesQuietly(p, c),
           \A p \in Procs : CreateTransfer(p) \/ CommitHandover(p) =>
              proc[p].call # c \/ UNCHANGED database
    PROVE  QuietFor(c)
<1>. transfer \in [Transfers -> TransferRow]
  BY DEF TypeInv, TypeOK, RowsOK
<1>1. CASE Quiet
  BY <1>1, QuietRows DEF Quiet, QuietFor, Open, OPEN_STATUSES, ClosedStatus
<1>2. CASE UNCHANGED database
  BY <1>2 DEF database, QuietFor, Open
<1>3. ASSUME NEW p \in Procs, CreateTransfer(p), proc[p].call # c PROVE QuietFor(c)
  <2>1. UNCHANGED call
    BY <1>3, CreateRows
  <2>2. ASSUME NEW t \in Transfers, Open(t)', transfer'[t].call = c PROVE Open(t)
    BY <1>3, <2>2, CreateRows DEF Open
  <2> QED BY <2>1, <2>2 DEF QuietFor
<1>4. ASSUME NEW p \in Procs, TransitionAccepted(p) PROVE QuietFor(c)
  BY <1>4, AcceptRows DEF QuietFor, Open, OPEN_STATUSES, TransferRow
<1>5. ASSUME NEW p \in Procs, CommitHandover(p), proc[p].call # c, ~ UNCHANGED database
      PROVE  QuietFor(c)
  <2>1. /\ proc[p].t \in Transfers /\ transfer[proc[p].t].status = "ACCEPTED"
        /\ transfer' = [transfer EXCEPT ![proc[p].t].status = "COMPLETED"]
        /\ call' = [call EXCEPT ![proc[p].call].agent = transfer[proc[p].t].to]
    BY <1>5, CommitRows
  <2>2. call'[c].agent = call[c].agent
    BY <1>5, <2>1 DEF TypeInv, TypeOK, RowsOK
  <2>3. \A t \in Transfers : Open(t)' => Open(t)
    BY <2>1 DEF Open, OPEN_STATUSES, TransferRow
  <2> QED BY <2>2, <2>3 DEF QuietFor
<1> QED BY <1>1, <1>2, <1>3, <1>4, <1>5, NextQuiet DEF Loud

(* The mark of a dropped target: nobody else needs it.                     *)
LEMMA DropClears ==
    ASSUME TypeInv, KeepsTransfers, DropInv, NEW c \in Calls, PresenceOf(c), QuietFor(c),
           [Next]_vars, NEW p \in Procs, DropTarget(p), proc[p].call = c
    PROVE  FreeToClear(transfer[proc[p].t].to, c)
<1>. DEFINE t == proc[p].t
<1>1. /\ proc[p].pc = "drop_target" /\ t \in Transfers /\ transfer[t].call = c
      /\ transfer[t].status # "NONE" /\ proc'[p] = Idle
  BY FinishProc DEF DropTarget, At, TypeInv, TypeOK, RequestOK, TransferPCs
<1>2. Dropping(p, t) /\ ~ Open(t) /\ \A q \in Procs : Dropping(q, t) => q = p
  BY <1>1 DEF Dropping, DropInv
<1>3. t \in ReservedOf(c)
  BY <1>1, <1>2 DEF ReservedOf, Reserved
<1>4. ASSUME NEW u \in ReservedOf(c)', u = t PROVE FALSE
  <2>1. ~ Open(u)'
    BY <1>1, <1>2, <1>4, ClosedStays
  <2>2. PICK q \in Procs : Dropping(q, u)'
    BY <2>1 DEF ReservedOf, Reserved
  <2>3. Open(u) \/ Dropping(q, u)
    BY <2>2 DEF QuietFor, MovesQuietly, MarkPCs, Dropping
  <2>4. q = p
    BY <1>2, <1>4, <2>3
  <2> QED BY <1>1, <2>2, <2>4 DEF Dropping, Idle
<1>5. \A u \in ReservedOf(c)' : transfer'[u].to # transfer[t].to
  BY <1>3, <1>4, ReservedStay DEF PresenceOf, ReserveInv
<1>6. ASSUME NEW q \in Procs, proc'[q].pc = "remove_source", proc'[q].call = c
      PROVE  transfer'[proc'[q].t].from # transfer[t].to
  <2>1. proc'[q] = proc[q]
    BY <1>6 DEF QuietFor, MovesQuietly, MarkPCs
  <2>2. transfer'[proc[q].t].from = transfer[proc[q].t].from
    BY <1>6, <2>1 DEF KeepsTransfers, TypeInv, RequestOK, LockPCs
  <2>3. transfer[proc[q].t].from # transfer[t].to
    BY <1>3, <1>6, <2>1 DEF PresenceOf, SourceInv
  <2> QED BY <2>1, <2>2, <2>3
<1>7. transfer[t].to # call[c].agent
  BY <1>3 DEF PresenceOf, ReserveInv
<1> QED BY <1>5, <1>6, <1>7 DEF FreeToClear

(* The mark of the old owner.                                              *)
LEMMA SourceClears ==
    ASSUME TypeInv, KeepsTransfers, ActivationInv, NEW c \in Calls, PresenceOf(c), QuietFor(c),
           NEW p \in Procs, RemoveSource(p), proc[p].call = c
    PROVE  FreeToClear(transfer[proc[p].t].from, c)
<1>1. proc[p].pc = "remove_source" /\ proc'[p] = Idle
  BY FinishProc DEF RemoveSource, At, Abort, TypeInv, TypeOK
<1>2. /\ transfer[proc[p].t].from # call[c].agent
      /\ \A t \in ReservedOf(c) : transfer[t].to # transfer[proc[p].t].from
  BY <1>1 DEF PresenceOf, SourceInv
<1>3. ASSUME NEW q \in Procs, proc'[q].pc = "remove_source", proc'[q].call = c
      PROVE  FALSE
  <2>1. proc'[q] = proc[q]
    BY <1>3 DEF QuietFor, MovesQuietly, MarkPCs
  <2>2. q = p
    BY <1>1, <1>3, <2>1 DEF ActivationInv, LockPCs
  <2> QED BY <1>1, <1>3, <2>2 DEF Idle
<1>4. \A u \in ReservedOf(c)' : transfer'[u].to # transfer[proc[p].t].from
  BY <1>2, ReservedStay
<1> QED BY <1>2, <1>3, <1>4 DEF FreeToClear

LEMMA NextMarks ==
    ASSUME TypeInv, KeepsTransfers, DropInv, EndInv, ActivationInv, [Next]_vars, ~ Restart,
           NEW c \in Calls, Active(c), PresenceOf(c), QuietFor(c), NEW a \in Agents, c \in busy[a]
    PROVE  c \in busy'[a] \/ FreeToClear(a, c)
<1>. busy \in [Agents -> SUBSET Calls]
  BY DEF TypeInv, TypeOK, MemoryOK
<1>1. CASE busy' = busy
  BY <1>1
<1>2. ASSUME NEW p \in Procs, CreateTransfer(p) PROVE c \in busy'[a]
  BY <1>2 DEF CreateTransfer
<1>3. ASSUME NEW p \in Procs, DropTarget(p) PROVE c \in busy'[a] \/ FreeToClear(a, c)
  <2>1. CASE proc[p].call = c /\ transfer[proc[p].t].to = a
    BY <1>3, <2>1, DropClears
  <2>2. busy' = [busy EXCEPT ![transfer[proc[p].t].to] = @ \ {proc[p].call}]
    BY <1>3 DEF DropTarget
  <2> QED BY <2>1, <2>2
<1>4. ASSUME NEW p \in Procs, RemoveSource(p) PROVE c \in busy'[a] \/ FreeToClear(a, c)
  <2>1. CASE proc[p].call = c /\ transfer[proc[p].t].from = a
    BY <1>4, <2>1, SourceClears
  <2>2. \/ busy' = busy
        \/ busy' = [busy EXCEPT ![transfer[proc[p].t].from] = @ \ {proc[p].call},
                                ![transfer[proc[p].t].to] = @ \cup {proc[p].call}]
    BY <1>4 DEF RemoveSource
  <2> QED BY <2>1, <2>2
<1>5. ASSUME NEW p \in Procs, CloseMedia(p) PROVE c \in busy'[a]
  <2>1. proc[p].call # c
    BY <1>5 DEF CloseMedia, At, EndInv
  <2>2. busy' = [busy EXCEPT ![proc[p].agent] = @ \ {proc[p].call}]
    BY <1>5 DEF CloseMedia
  <2> QED BY <2>1, <2>2
<1>6. ASSUME NEW p \in Procs, CancelOpen(p) PROVE c \in busy'[a]
  <2>1. proc[p].call # c
    BY <1>6 DEF CancelOpen, At, EndInv
  <2>2. \/ busy' = busy
        \/ busy' = [busy EXCEPT ![transfer[proc[p].t].to] = @ \ {proc[p].call}]
    BY <1>6 DEF CancelOpen
  <2> QED BY <2>1, <2>2
<1>7. ASSUME NEW p \in Requests, Arrival(p) PROVE busy' = busy
  BY <1>7 DEF Arrival, RequestTransfer, ClaimCall, TerminateCall, AcceptTransfer,
     RejectTransfer, CancelTransfer, JoinMedia, MediaReady, CallTerminated, memory
<1>8. ASSUME NEW p \in Procs, Step(p)
      PROVE  \/ busy' = busy \/ CreateTransfer(p) \/ DropTarget(p) \/ RemoveSource(p)
             \/ CloseMedia(p) \/ CancelOpen(p)
  BY <1>8 DEF Step, FindTarget, TransitionAccepted, TransitionLate, CloseTransfer, JoinAgent,
     FindActive, FindTransfer, WaitForAgentReady, SetCurrentAgent, CommitHandover, RollBack,
     ClaimSession, UpdateEnded, ListOpen, memory
<1>9. ASSUME NEW t \in Transfers, Deadline(t) \/ \E p \in Procs : ExpireDue(p, t)
      PROVE  busy' = busy
  BY <1>9 DEF Deadline, ExpireDue, memory
<1>10. CASE UNCHANGED vars
  BY <1>1, <1>10 DEF vars
<1>11. CASE Next
  BY Zenon, <1>1, <1>2, <1>3, <1>4, <1>5, <1>6, <1>7, <1>8, <1>9, <1>11 DEF Next
<1> QED BY <1>10, <1>11

(* A request for a transfer: nobody has marked its target.                 *)
LEMMA RequestPresence ==
    ASSUME TypeInv, NEW p \in Requests, NEW cl \in Clients, NEW c \in Calls, NEW to \in Agents,
           RequestTransfer(p, cl, c, to), PresenceOf(c), AsksOneAtATime
    PROVE  PresenceOf(c)'
<1>1. /\ p \in Procs /\ proc[p] = Idle /\ call[c].agent = AgentOf[cl] /\ busy[to] = {}
      /\ to \in Agents
      /\ proc'[p] = [pc |-> "find_target", by |-> cl, call |-> c, t |-> None, agent |-> to]
      /\ \A q \in Procs \ {p} : proc'[q] = proc[q]
  BY DEF RequestTransfer, MayStart, Begin, Procs, TypeInv, TypeOK
<1>2. UNCHANGED <<call, transfer, busy>>
  BY DEF RequestTransfer, database, memory
<1>3. OpenOf(c) = {} /\ \A q \in Procs : ~ Asking(q, c)
  BY <1>1 DEF AsksOneAtATime, Asking, Idle
<1>4. \A t \in Transfers, q \in Procs : Dropping(q, t)' <=> Dropping(q, t)
  BY <1>1 DEF Dropping, Idle
<1>5. ReservedOf(c)' = ReservedOf(c) /\ OpenOf(c)' = OpenOf(c)
  BY <1>2, <1>4 DEF ReservedOf, Reserved, Open, OpenOf
<1>6. \A q \in Procs : Asking(q, c)' => q = p
  BY <1>1, <1>3 DEF Asking
<1>7. ASSUME NEW q \in Procs, proc'[q].pc = "remove_source" PROVE proc'[q] = proc[q]
  BY <1>1, <1>7
<1>8. AskInv(c)'
  <2>1. \A t \in ReservedOf(c) : transfer[t].to # to
    BY <1>1 DEF PresenceOf, ReserveInv
  <2> QED BY <1>1, <1>2, <1>3, <1>5, <1>6, <2>1 DEF AskInv
<1>9. ReserveInv(c)'
  <2>1. \A t \in ReservedOf(c) : Open(t)' => Open(t)
    BY <1>2 DEF Open
  <2> QED BY <1>2, <1>5, <2>1 DEF PresenceOf, ReserveInv
<1>10. SourceInv(c)'
  <2>1. ASSUME NEW q \in Procs, proc[q].pc = "remove_source", proc[q].call = c
        PROVE  transfer[proc[q].t].from # to
    BY <1>1, <2>1 DEF PresenceOf, SourceInv
  <2> QED BY <1>1, <1>2, <1>5, <1>6, <1>7, <2>1 DEF PresenceOf, SourceInv
<1> QED BY <1>2, <1>8, <1>9, <1>10 DEF PresenceOf

(* The INSERT: what the request has read still holds.                      *)
LEMMA CreatePresence ==
    ASSUME TypeInv, DropInv, NEW p \in Procs, CreateTransfer(p), ~ UNCHANGED database,
           NEW c \in Calls, proc[p].call = c, PresenceOf(c)
    PROVE  PresenceOf(c)'
<1>. DEFINE r == proc[p]
<1>1. /\ r.pc = "create" /\ r.agent # AgentOf[r.by] /\ r.agent \in Agents
      /\ proc'[p] = Idle /\ \A q \in Procs \ {p} : proc'[q] = proc[q]
  BY FinishProc DEF CreateTransfer, At, TypeInv, TypeOK, RequestOK
<1>2. Asking(p, c)
  BY <1>1 DEF Asking
<1>3. /\ AgentOf[r.by] = call[c].agent /\ OpenOf(c) = {}
      /\ \A q \in Procs : Asking(q, c) => q = p
      /\ \A t \in ReservedOf(c) : transfer[t].to # r.agent
  BY <1>2 DEF PresenceOf, AskInv
<1>4. UNCHANGED <<call, assigned>>
  BY CreateRows
<1>5. PICK n \in Transfers :
        /\ transfer[n] = NoTransfer
        /\ transfer' = [transfer EXCEPT ![n] =
              [status |-> "PENDING", call |-> r.call, from |-> AgentOf[r.by],
               to |-> r.agent, due |-> FALSE]]
        /\ busy' = [busy EXCEPT ![r.agent] = @ \cup {r.call}]
  BY <1>4 DEF CreateTransfer, database
<1>6. /\ transfer'[n] = [status |-> "PENDING", call |-> c, from |-> AgentOf[r.by],
                         to |-> r.agent, due |-> FALSE]
      /\ \A t \in Transfers \ {n} : transfer'[t] = transfer[t]
  BY <1>5 DEF TypeInv, TypeOK, RowsOK
<1>7. \A a \in Agents : busy[a] \subseteq busy'[a]
  BY <1>5 DEF TypeInv, TypeOK, MemoryOK
<1>8. c \in busy'[r.agent]
  BY <1>1, <1>5 DEF TypeInv, TypeOK, MemoryOK
<1>9. \A t \in Transfers, q \in Procs : Dropping(q, t)' => Dropping(q, t)
  BY <1>1 DEF Dropping, Idle
<1>10. ASSUME NEW t \in ReservedOf(c)', t # n
       PROVE  /\ t \in ReservedOf(c) /\ transfer'[t] = transfer[t] /\ ~ Open(t)'
              /\ transfer[t].to \in Agents
  <2>1. t \in Transfers /\ transfer'[t] = transfer[t] /\ transfer[t].call = c
    BY <1>6, <1>10 DEF ReservedOf
  <2>2. ~ Open(t) /\ ~ Open(t)'
    BY <1>3, <2>1 DEF OpenOf, Open
  <2>3. PICK q \in Procs : Dropping(q, t)
    BY <1>9, <1>10, <2>1, <2>2 DEF ReservedOf, Reserved
  <2>4. transfer[t].to \in Agents
    BY <2>3 DEF Dropping, TypeInv, TypeOK, RowsOK, RequestOK, TransferPCs
  <2> QED BY <2>1, <2>2, <2>3, <2>4 DEF ReservedOf, Reserved
<1>11. AskInv(c)'
  BY <1>1, <1>3 DEF AskInv, Asking, Idle
<1>12. ReserveInv(c)'
  <2>1. ASSUME NEW t \in ReservedOf(c)'
        PROVE  /\ c \in busy'[transfer'[t].to] /\ transfer'[t].to # call'[c].agent
               /\ Open(t)' => transfer'[t].from = call'[c].agent
    <3>1. CASE t = n
      BY <1>1, <1>3, <1>4, <1>6, <1>8, <3>1
    <3>2. CASE t # n
      BY <1>4, <1>7, <1>10, <3>2 DEF PresenceOf, ReserveInv
    <3> QED BY <3>1, <3>2
  <2>2. ASSUME NEW t \in ReservedOf(c)', NEW u \in ReservedOf(c)',
               transfer'[u].to = transfer'[t].to
        PROVE  u = t
    <3>1. CASE t = n \/ u = n
      BY <1>3, <1>6, <1>10, <2>2, <3>1
    <3>2. CASE t # n /\ u # n
      BY <1>10, <2>2, <3>2 DEF PresenceOf, ReserveInv
    <3> QED BY <3>1, <3>2
  <2> QED BY <2>1, <2>2 DEF ReserveInv
<1>13. SourceInv(c)'
  <2>1. ASSUME NEW q \in Procs, proc'[q].pc = "remove_source", proc'[q].call = c
        PROVE  /\ proc'[q] = proc[q] /\ proc[q].t \in Transfers
               /\ transfer'[proc[q].t] = transfer[proc[q].t]
               /\ transfer[proc[q].t].from \in Agents
    <3>1. proc'[q] = proc[q]
      BY <1>1, <2>1 DEF Idle
    <3>2. proc[q].t \in Transfers /\ transfer[proc[q].t].status # "NONE"
      BY <2>1, <3>1 DEF TypeInv, RequestOK, LockPCs
    <3>3. proc[q].t # n
      BY <1>5, <3>2 DEF NoTransfer
    <3> QED BY <1>6, <3>1, <3>2, <3>3 DEF TypeInv, TypeOK, RowsOK
  <2>2. ASSUME NEW q \in Procs, proc'[q].pc = "remove_source", proc'[q].call = c
        PROVE  /\ transfer[proc[q].t].to = call[c].agent
               /\ transfer[proc[q].t].from # call[c].agent
               /\ c \in busy[transfer[proc[q].t].from]
               /\ \A t \in ReservedOf(c) : transfer[t].to # transfer[proc[q].t].from
               /\ r.agent # transfer[proc[q].t].from
    BY <1>2, <2>1, <2>2 DEF PresenceOf, SourceInv
  <2>3. \A q \in Procs : ~ Asking(q, c)'
    BY <1>1, <1>3 DEF Asking, Idle
  <2>4. ASSUME NEW q \in Procs, proc'[q].pc = "remove_source", proc'[q].call = c,
               NEW t \in ReservedOf(c)'
        PROVE  transfer'[t].to # transfer[proc[q].t].from
    <3>1. CASE t = n
      BY <1>6, <2>2, <2>4, <3>1
    <3>2. CASE t # n
      BY <1>10, <2>2, <2>4, <3>2
    <3> QED BY <3>1, <3>2
  <2>5. ASSUME NEW q \in Procs, proc'[q].pc = "remove_source", proc'[q].call = c
        PROVE  /\ transfer'[proc'[q].t].to = call'[c].agent
               /\ transfer'[proc'[q].t].from # call'[c].agent
               /\ c \in busy'[transfer'[proc'[q].t].from]
               /\ \A t \in ReservedOf(c)' : transfer'[t].to # transfer'[proc'[q].t].from
    BY <1>4, <1>7, <2>1, <2>2, <2>4, <2>5
  <2> QED BY <2>3, <2>5 DEF SourceInv
<1>14. c \in busy'[call'[c].agent]
  BY <1>4, <1>7 DEF PresenceOf, TypeInv, TypeOK, RowsOK
<1> QED BY <1>11, <1>12, <1>13, <1>14 DEF PresenceOf

LEMMA CommitMoves ==
    ASSUME TypeInv, NEW p \in Procs, CommitHandover(p), NEW c,
           proc[p].call # c \/ UNCHANGED database
    PROVE  MovesQuietly(p, c)
<1>1. CASE Abort(p)
  BY <1>1, FinishMoves DEF Abort
<1>2. CASE Continue(p, "rollback")
  BY <1>2, GotoMoves DEF Continue, MarkPCs
<1>3. CASE Continue(p, "remove_source") /\ proc[p].call # c
  BY <1>3 DEF Continue, Goto, MovesQuietly, TypeInv, TypeOK, ProcRecord
<1>4. CASE Completes(proc[p].t) /\ transfer' = [transfer EXCEPT ![proc[p].t].status = "COMPLETED"]
  <2>1. proc[p].t \in Transfers
    BY CommitRows
  <2>2. transfer' # transfer
    BY <1>4, <2>1 DEF Completes, TypeInv, TypeOK, RowsOK, TransferRow
  <2> QED BY <1>3, <1>4, <2>2 DEF CommitHandover, Completes, database
<1> QED BY <1>1, <1>2, <1>4 DEF CommitHandover

(* The transaction of a handover: the old owner becomes the source whose   *)
(* mark is still to be cleared, and no other offer is open.                *)
LEMMA CommitPresence ==
    ASSUME TypeInv, HandoverInv, ActivationInv, DropInv, NEW p \in Procs, CommitHandover(p),
           ~ UNCHANGED database, NEW c \in Calls, proc[p].call = c, PresenceOf(c)
    PROVE  PresenceOf(c)'
<1>. DEFINE m == proc[p].t
            old == call[c].agent
            new == transfer[m].to
<1>1. /\ m \in Transfers /\ transfer[m].call = c /\ new \in Agents
      /\ transfer[m].status = "ACCEPTED"
      /\ transfer' = [transfer EXCEPT ![m].status = "COMPLETED"]
      /\ call' = [call EXCEPT ![c].agent = new]
  BY CommitRows
<1>2. /\ busy' = busy /\ proc[p].pc = "commit" /\ old \in Agents
      /\ \A q \in Procs \ {p} : proc'[q] = proc[q]
  BY OthersStay DEF CommitHandover, At, Step, TypeInv, TypeOK, RowsOK
<1>3. proc'[p] = [proc[p] EXCEPT !.pc = "remove_source"]
  <2>1. Continue(p, "remove_source")
    BY <1>1 DEF CommitHandover, Completes
  <2> QED BY <2>1 DEF Continue, Goto, TypeInv, TypeOK
<1>4. /\ proc'[p].pc = "remove_source" /\ proc'[p].call = c /\ proc'[p].t = m
  BY <1>2, <1>3 DEF TypeInv, TypeOK, ProcRecord
<1>5. /\ \A t \in Transfers : /\ transfer'[t].call = transfer[t].call
                             /\ transfer'[t].from = transfer[t].from
                             /\ transfer'[t].to = transfer[t].to
      /\ \A t \in Transfers \ {m} : transfer'[t].status = transfer[t].status
      /\ transfer'[m].status = "COMPLETED" /\ call'[c].agent = new
  BY <1>1 DEF TypeInv, TypeOK, RowsOK, TransferRow
<1>6. Open(m) /\ m \in ReservedOf(c) /\ m \in OpenOf(c)
  BY <1>1 DEF Open, OPEN_STATUSES, ReservedOf, Reserved, OpenOf
<1>7. c \in busy[new] /\ new # old /\ transfer[m].from = old
  BY <1>6 DEF PresenceOf, ReserveInv
<1>8. ASSUME NEW t \in ReservedOf(c)'
      PROVE  t \in ReservedOf(c) /\ t # m /\ ~ Open(t)'
  <2>1. t \in Transfers /\ transfer[t].call = c
    BY <1>5 DEF ReservedOf
  <2>2. ~ Open(t)'
    <3>1. CASE t = m
      BY <1>5, <3>1 DEF Open, OPEN_STATUSES
    <3>2. CASE t # m
      BY <1>1, <1>5, <1>6, <2>1, <3>2 DEF Open, HandoverInv, OneOpenTransfer
    <3> QED BY <3>1, <3>2
  <2>3. PICK q \in Procs : Dropping(q, t)'
    BY <2>2 DEF ReservedOf, Reserved
  <2>4. Dropping(q, t)
    BY <1>2, <1>4, <2>3 DEF Dropping
  <2>5. t # m
    BY <1>6, <2>1, <2>4 DEF DropInv
  <2> QED BY <2>1, <2>2, <2>4, <2>5 DEF ReservedOf, Reserved
<1>9. \A q \in Procs : ~ Asking(q, c)'
  <2>1. \A q \in Procs : ~ Asking(q, c)
    BY <1>6 DEF PresenceOf, AskInv
  <2> QED BY <1>2, <1>4, <2>1 DEF Asking
<1>10. AskInv(c)'
  BY <1>9 DEF AskInv
<1>11. ReserveInv(c)'
  <2>1. ASSUME NEW t \in ReservedOf(c)'
        PROVE  c \in busy'[transfer'[t].to] /\ transfer'[t].to # new /\ ~ Open(t)'
    <3>1. t \in Transfers /\ t \in ReservedOf(c) /\ t # m
      BY <1>8 DEF ReservedOf
    <3>2. c \in busy[transfer[t].to] /\ transfer[t].to # new
      BY <1>6, <3>1 DEF PresenceOf, ReserveInv
    <3> QED BY <1>2, <1>5, <1>8, <3>1, <3>2
  <2>2. ASSUME NEW t \in ReservedOf(c)', NEW u \in ReservedOf(c)',
               transfer'[u].to = transfer'[t].to
        PROVE  u = t
    <3>1. /\ t \in ReservedOf(c) /\ u \in ReservedOf(c) /\ t \in Transfers /\ u \in Transfers
      BY <1>8 DEF ReservedOf
    <3> QED BY <1>5, <2>2, <3>1 DEF PresenceOf, ReserveInv
  <2> QED BY <1>5, <2>1, <2>2 DEF ReserveInv
<1>12. SourceInv(c)'
  <2>1. ASSUME NEW q \in Procs, proc'[q].pc = "remove_source", proc'[q].call = c
        PROVE  q = p
    BY <1>2, <2>1 DEF ActivationInv, LockPCs
  <2>2. ASSUME NEW t \in ReservedOf(c)' PROVE transfer'[t].to # old
    <3>1. t \in Transfers /\ t \in ReservedOf(c)
      BY <1>8 DEF ReservedOf
    <3> QED BY <1>5, <3>1 DEF PresenceOf, ReserveInv
  <2>3. transfer'[m].from = old /\ transfer'[m].to = new /\ c \in busy'[old]
    BY <1>1, <1>2, <1>5, <1>7 DEF PresenceOf
  <2> QED BY <1>4, <1>5, <1>7, <1>9, <2>1, <2>2, <2>3 DEF SourceInv
<1> QED BY <1>2, <1>5, <1>7, <1>10, <1>11, <1>12 DEF PresenceOf

LEMMA NextPresence ==
    ASSUME MaxRestarts = 0, TypeInv, HandoverInv, ActivationInv, PresenceInv,
           [Next]_vars, [AsksOneAtATime]_vars
    PROVE  PresenceInv'
<1>1. ~ Restart
  BY ConstantsAssumption DEF Restart, TypeInv, TypeOK, MemoryOK
<1>2. KeepsTransfers /\ DropInv /\ EndInv
  BY NextKeepsTransfers DEF PresenceInv
<1>3. DropInv' /\ EndInv'
  BY <1>1, <1>2, NextDrop, NextEnd
<1>4. ASSUME NEW c \in Calls, Active(c)' PROVE PresenceOf(c)'
  <2>1. Active(c) /\ PresenceOf(c)
    BY <1>4, CallsStayEnded DEF PresenceInv
  <2>2. CASE QuietFor(c)
    <3>1. \A a \in Agents : c \in busy[a] => c \in busy'[a] \/ FreeToClear(a, c)
      BY <1>1, <1>2, <2>1, <2>2, NextMarks
    <3> QED BY <1>2, <2>1, <2>2, <3>1, PresenceKept
  <2>3. ASSUME NEW p \in Requests, NEW cl \in Clients, NEW to \in Agents,
               RequestTransfer(p, cl, c, to)
        PROVE  PresenceOf(c)'
    <3>1. proc' # proc
      BY <2>3 DEF RequestTransfer, MayStart, Begin, Idle, Procs, TypeInv, TypeOK
    <3>2. AsksOneAtATime
      BY <3>1 DEF vars
    <3> QED BY <2>1, <2>3, <3>2, RequestPresence
  <2>4. ASSUME NEW p \in Procs, CreateTransfer(p), proc[p].call = c, ~ UNCHANGED database
        PROVE  PresenceOf(c)'
    BY <1>2, <2>1, <2>4, CreatePresence
  <2>5. ASSUME NEW p \in Procs, CommitHandover(p), proc[p].call = c, ~ UNCHANGED database
        PROVE  PresenceOf(c)'
    BY <1>2, <2>1, <2>5, CommitPresence
  <2>6. ASSUME NEW p \in Procs, CommitHandover(p), proc[p].call # c \/ UNCHANGED database
        PROVE  MovesQuietly(p, c)
    BY <2>6, CommitMoves
  <2>7. CASE /\ ~ \E p \in Requests, cl \in Clients, to \in Agents : RequestTransfer(p, cl, c, to)
             /\ \A p \in Procs : CreateTransfer(p) \/ CommitHandover(p) =>
                   proc[p].call # c \/ UNCHANGED database
    <3>1. \A p \in Procs : proc'[p] = proc[p] \/ MovesQuietly(p, c)
      BY <1>1, <2>6, <2>7, NextMoves
    <3> QED BY <2>2, <2>7, <3>1, NextQuietFor
  <2> QED BY Zenon, <2>3, <2>4, <2>5, <2>7
<1> QED BY <1>3, <1>4 DEF PresenceInv

LEMMA InitPresence == Init => PresenceInv
<1> SUFFICES ASSUME Init PROVE PresenceInv
  OBVIOUS
<1>1. \A p \in Procs : proc[p].pc = "idle"
  BY DEF Init, Idle
<1>2. \A t \in Transfers : ~ Reserved(t)
  BY <1>1 DEF Init, NoTransfer, Reserved, Dropping, Open, OPEN_STATUSES
<1>3. \A c \in Calls : c \in busy[call[c].agent]
  BY ConstantsAssumption DEF Init
<1>4. DropInv /\ EndInv
  BY <1>1 DEF DropInv, EndInv, Dropping
<1>5. \A c \in Calls : AskInv(c) /\ SourceInv(c)
  BY <1>1 DEF AskInv, SourceInv, Asking
<1>6. \A c \in Calls : ReserveInv(c)
  BY <1>2 DEF ReserveInv, ReservedOf
<1> QED BY <1>3, <1>4, <1>5, <1>6 DEF PresenceInv, PresenceOf

(* What the marks rest on, when the API does not restart.                  *)
LEMMA MarksRest ==
    ASSUME MaxRestarts = 0
    PROVE  Spec /\ AsksOnce => [](TypeInv /\ HandoverInv /\ ActivationInv /\ PresenceInv)
<1>1. Spec => []TypeInv
  BY TypeCorrect
<1>2. Init => HandoverInv /\ ActivationInv /\ PresenceInv
  BY InitHandover, InitKeys, InitPresence
<1>3. /\ TypeInv /\ HandoverInv /\ ActivationInv /\ PresenceInv
      /\ [Next]_vars /\ [AsksOneAtATime]_vars
      => HandoverInv' /\ ActivationInv' /\ PresenceInv'
  BY NextHandover, NextActivation, NextPresence
<1> QED BY <1>1, <1>2, <1>3, PTL DEF Spec, AsksOnce

(* Without a restart, and when no offer of a call is asked for while       *)
(* another is open or being asked for, the responsible agent is marked     *)
(* busy in every reachable state, whatever accepts, rejections, expiries,  *)
(* late clean-ups and lost answers of the gateway interleave: the mark is  *)
(* missing only after two offers of one call overlapped.                   *)
THEOREM OwnersAreBusy ==
    ASSUME MaxRestarts = 0 PROVE Spec /\ AsksOnce => []OwnerIsBusy
<1>1. PresenceInv => OwnerIsBusy
  BY DEF PresenceInv, PresenceOf, OwnerIsBusy
<1> QED BY <1>1, MarksRest, PTL

-----------------------------------------------------------------------------
(* The peers that a call in conversation needs: the responsible agent's    *)
(* and the one of the agent it is offered to.                              *)
Needs(c, a) == a = call[c].agent \/ \E t \in OpenOf(c) : transfer[t].to = a

Switches(p, c) == proc[p].call = c /\ (SetCurrentAgent(p) \/ RollBack(p))

(* Only a drop, the removal of a source and the end of a call take a peer  *)
(* away, and never one that is needed.                                     *)
LEMMA PeersStay ==
    ASSUME TypeInv, PresenceInv, [Next]_vars, ~ Restart, NEW c \in Calls, Active(c),
           NEW a, Needs(c, a)
    PROVE  /\ a \in gateway[c].agents => a \in gateway'[c].agents
           /\ gateway[c].current = a =>
                 gateway'[c].current = a \/ \E p \in Procs : Switches(p, c)
<1>. DEFINE Stays == /\ a \in gateway[c].agents => a \in gateway'[c].agents
                     /\ gateway[c].current = a => gateway'[c].current = a
<1>. gateway \in [Calls -> GatewaySession]
  BY DEF TypeInv, TypeOK, MemoryOK
<1>0. /\ \A t \in Transfers : t \in OpenOf(c) => t \in ReservedOf(c) /\ Open(t)
      /\ ReserveInv(c) /\ SourceInv(c)
  BY DEF OpenOf, ReservedOf, Reserved, PresenceInv, PresenceOf
<1>1. ASSUME NEW b, NEW k, k # c \/ a # b, gateway' = [gateway EXCEPT ![k] = RemoveAgent(@, b)]
      PROVE  Stays
  BY <1>1 DEF RemoveAgent, GatewaySession
<1>2. ASSUME NEW p \in Procs, DropTarget(p) PROVE Stays
  <2>1. /\ proc[p].t \in Transfers /\ proc[p].call = transfer[proc[p].t].call
        /\ Dropping(p, proc[p].t)
    BY <1>2 DEF DropTarget, At, TypeInv, RequestOK, TransferPCs, Dropping
  <2>2. ~ Open(proc[p].t)
    BY <2>1 DEF PresenceInv, DropInv
  <2>3. proc[p].call = c => proc[p].t \in ReservedOf(c)
    BY <2>1 DEF ReservedOf, Reserved
  <2>4. proc[p].call = c => transfer[proc[p].t].to # a
    BY <1>0, <2>2, <2>3 DEF ReserveInv, OpenOf, Needs
  <2>5. CASE gateway' = gateway
    BY <2>5
  <2>6. CASE gateway' = [gateway EXCEPT ![proc[p].call] = RemoveAgent(@, transfer[proc[p].t].to)]
    BY <1>1, <2>4, <2>6
  <2> QED BY Zenon, <1>2, <2>5, <2>6 DEF DropTarget
<1>3. ASSUME NEW p \in Procs, RemoveSource(p) PROVE Stays
  <2>1. proc[p].call = c => transfer[proc[p].t].from # a
    BY <1>0, <1>3 DEF RemoveSource, At, SourceInv, OpenOf, Needs
  <2>2. CASE gateway' = gateway
    BY <2>2
  <2>3. CASE gateway' = [gateway EXCEPT ![proc[p].call] = RemoveAgent(@, transfer[proc[p].t].from)]
    BY <1>1, <2>1, <2>3
  <2> QED BY Zenon, <1>3, <2>2, <2>3 DEF RemoveSource
<1>4. ASSUME NEW p \in Procs, CloseMedia(p) PROVE Stays
  BY <1>4 DEF CloseMedia, At, PresenceInv, EndInv
<1>5. ASSUME NEW p \in Procs, JoinAgent(p) PROVE Stays
  BY <1>5 DEF JoinAgent, GatewaySession
<1>6. ASSUME NEW p \in Procs, SetCurrentAgent(p) \/ RollBack(p)
      PROVE  \/ Stays
             \/ Switches(p, c) /\ (a \in gateway[c].agents => a \in gateway'[c].agents)
  <2>1. CASE gateway' = gateway
    BY <1>6, <2>1
  <2>2. ASSUME NEW b, gateway' = [gateway EXCEPT ![proc[p].call].current = b]
        PROVE  /\ a \in gateway[c].agents => a \in gateway'[c].agents
               /\ proc[p].call # c => gateway'[c].current = gateway[c].current
    BY <2>2 DEF GatewaySession
  <2>3. \/ gateway' = gateway
        \/ \E b : gateway' = [gateway EXCEPT ![proc[p].call].current = b]
    <3>1. CASE SetCurrentAgent(p)
      BY Zenon, <3>1 DEF SetCurrentAgent
    <3>2. CASE RollBack(p)
      BY Zenon, <3>2 DEF RollBack
    <3> QED BY <1>6, <3>1, <3>2
  <2> QED BY <1>6, <2>1, <2>2, <2>3 DEF Switches
<1>7. ASSUME NEW p \in Requests, Arrival(p) PROVE gateway' = gateway
  BY <1>7 DEF Arrival, RequestTransfer, ClaimCall, TerminateCall, AcceptTransfer,
     RejectTransfer, CancelTransfer, JoinMedia, MediaReady, CallTerminated
<1>8. ASSUME NEW p \in Procs, Step(p)
      PROVE  \/ gateway' = gateway \/ DropTarget(p) \/ RemoveSource(p) \/ CloseMedia(p)
             \/ JoinAgent(p) \/ SetCurrentAgent(p) \/ RollBack(p)
  BY <1>8 DEF Step, FindTarget, CreateTransfer, TransitionAccepted, TransitionLate,
     CloseTransfer, FindActive, FindTransfer, WaitForAgentReady, CommitHandover,
     ClaimSession, UpdateEnded, ListOpen, CancelOpen
<1>9. ASSUME NEW t \in Transfers, Deadline(t) \/ \E p \in Procs : ExpireDue(p, t)
      PROVE  gateway' = gateway
  BY <1>9 DEF Deadline, ExpireDue
<1>10. CASE gateway' = gateway
  BY <1>10
<1>11. ASSUME NEW p \in Procs, Step(p)
       PROVE  \/ Stays
              \/ Switches(p, c) /\ (a \in gateway[c].agents => a \in gateway'[c].agents)
  BY Zenon, <1>2, <1>3, <1>4, <1>5, <1>6, <1>8, <1>10, <1>11
<1>12. CASE UNCHANGED vars
  BY <1>10, <1>12 DEF vars
<1>13. CASE Next
  BY ZenonT(40), <1>7, <1>9, <1>10, <1>11, <1>13 DEF Next
<1> QED BY <1>12, <1>13

LEMMA StepKeepsMedia ==
    ASSUME MaxRestarts = 0
    PROVE  TypeInv /\ PresenceInv /\ [Next]_vars =>
             [\A c \in Calls :
                 /\ Active(c) /\ Active(c)' /\ call'[c].agent = call[c].agent
                 /\ call[c].agent \in gateway[c].agents
                 => call[c].agent \in gateway'[c].agents]_vars
<1> SUFFICES ASSUME TypeInv, PresenceInv, [Next]_vars, NEW c \in Calls, Active(c),
                    call[c].agent \in gateway[c].agents
             PROVE  call[c].agent \in gateway'[c].agents
  OBVIOUS
<1>1. ~ Restart
  BY ConstantsAssumption DEF Restart, TypeInv, TypeOK, MemoryOK
<1> QED BY <1>1, PeersStay DEF Needs

(* Under the same hypothesis no step takes the peer of the agent who is    *)
(* and stays responsible, as README.md:110 and docs/API.md:495 promise.    *)
(* The stale offer that breaks OwnerKeepsMedia in general is therefore the *)
(* only way to break it: one offer at a time of each call restores it.     *)
THEOREM OwnersKeepTheirMedia ==
    ASSUME MaxRestarts = 0 PROVE Spec /\ AsksOnce => OwnerKeepsMedia
BY MarksRest, StepKeepsMedia, PTL DEF Spec, OwnerKeepsMedia

-----------------------------------------------------------------------------
(***************************************************************************)
(* Who is heard, when in addition no answer of the gateway is lost.        *)
(***************************************************************************)
SwitchPCs == {"commit", "rollback"}

LEMMA StepSwitches ==
    ASSUME TypeInv, NEW p \in Procs, Step(p),
           ~ SetCurrentAgent(p), ~ CommitHandover(p), ~ RollBack(p)
    PROVE  proc[p].pc \notin SwitchPCs /\ proc'[p].pc \notin SwitchPCs
<1>. proc \in [Procs -> ProcRecord]
  BY DEF TypeInv, TypeOK
<1>. DEFINE Far == {"create", "drop_target", "find_transfer", "wait_ready", "switch",
                    "close_media", "list_open", "cancel_open"}
<1>1. \A pc \in Far : pc \notin SwitchPCs
  BY DEF SwitchPCs
<1>2. ASSUME Finish(p) PROVE proc'[p].pc \notin SwitchPCs
  <2>1. proc'[p] = Idle
    BY <1>2 DEF Finish
  <2> QED BY <2>1 DEF Idle, SwitchPCs
<1>3. ASSUME NEW pc \in Far, Goto(p, pc) PROVE proc'[p].pc \notin SwitchPCs
  BY <1>1, <1>3 DEF Goto, ProcRecord
<1>4. ASSUME NEW cl, NEW d, NEW t, NEW a, Begin(p, "cancel_open", cl, d, t, a)
      PROVE  proc'[p].pc \notin SwitchPCs
  BY <1>1, <1>4 DEF Begin
<1>5. ASSUME Abort(p) PROVE proc'[p].pc \notin SwitchPCs
  BY <1>2, <1>5 DEF Abort
<1>6. ASSUME NEW pc \in Far, Continue(p, pc) PROVE proc'[p].pc \notin SwitchPCs
  BY <1>3, <1>6 DEF Continue
<1>7. CASE FindTarget(p) \/ CloseTransfer(p)
  BY <1>1, <1>2, <1>3, <1>7 DEF FindTarget, CloseTransfer, At, SwitchPCs
<1>8. CASE \/ CreateTransfer(p) \/ TransitionAccepted(p) \/ TransitionLate(p) \/ DropTarget(p)
           \/ JoinAgent(p) \/ ClaimSession(p) \/ CancelOpen(p)
  <2>1. Finish(p)
    BY Zenon, <1>8 DEF CreateTransfer, TransitionAccepted, TransitionLate, DropTarget,
       JoinAgent, ClaimSession, CancelOpen
  <2>2. proc[p].pc \in {"create", "accept", "expire_late", "drop_target", "join", "claim",
                        "cancel_open"}
    BY <1>8 DEF CreateTransfer, TransitionAccepted, TransitionLate, DropTarget,
       JoinAgent, ClaimSession, CancelOpen, At
  <2> QED BY <1>2, <2>1, <2>2 DEF SwitchPCs
<1>9. CASE UpdateEnded(p) \/ CloseMedia(p)
  BY <1>2, <1>3, <1>9 DEF UpdateEnded, CloseMedia, At, SwitchPCs
<1>10. CASE ListOpen(p)
  BY <1>2, <1>4, <1>10 DEF ListOpen, At, SwitchPCs
<1>11. CASE FindActive(p) \/ FindTransfer(p) \/ WaitForAgentReady(p) \/ RemoveSource(p)
  BY <1>5, <1>6, <1>11 DEF FindActive, FindTransfer, WaitForAgentReady, RemoveSource, At,
     SwitchPCs
<1> QED BY Zenon, <1>7, <1>8, <1>9, <1>10, <1>11 DEF Step

LEMMA ArrivalSwitches ==
    ASSUME TypeInv, NEW p \in Requests, Arrival(p)
    PROVE  proc[p].pc \notin SwitchPCs /\ proc'[p].pc \notin SwitchPCs
<1>. p \in Procs /\ proc \in [Procs -> ProcRecord]
  BY DEF TypeInv, TypeOK, Procs
<1>. DEFINE Far == {"find_target", "claim", "terminate", "accept", "expire_late", "REJECTED",
                    "CANCELLED", "join", "find_active", "close_media"}
<1>1. \A pc \in Far : pc \notin SwitchPCs
  BY DEF SwitchPCs
<1>2. ASSUME NEW pc \in Far, NEW cl, NEW d, NEW t, NEW a, Begin(p, pc, cl, d, t, a)
      PROVE  proc'[p].pc \notin SwitchPCs
  BY <1>1, <1>2 DEF Begin
<1>3. ASSUME NEW cl \in Clients, NEW d \in Calls,
             \/ \E to \in Agents : RequestTransfer(p, cl, d, to)
             \/ ClaimCall(p, cl, d) \/ TerminateCall(p, cl, d)
      PROVE  proc[p] = Idle /\ proc'[p].pc \notin SwitchPCs
  BY <1>2, <1>3 DEF RequestTransfer, ClaimCall, TerminateCall, MayStart
<1>4. ASSUME NEW cl \in Clients, NEW t \in Transfers,
             AcceptTransfer(p, cl, t) \/ RejectTransfer(p, cl, t) \/ CancelTransfer(p, cl, t)
      PROVE  proc[p] = Idle /\ proc'[p].pc \notin SwitchPCs
  BY <1>2, <1>4 DEF AcceptTransfer, RejectTransfer, CancelTransfer, MayStart
<1>5. ASSUME NEW cl \in Clients, NEW t \in Transfers, JoinMedia(p, cl, t) \/ MediaReady(p, cl, t)
      PROVE  proc[p] = Idle /\ proc'[p].pc \notin SwitchPCs
  BY <1>2, <1>5 DEF JoinMedia, MediaReady, MayStart
<1>6. ASSUME NEW d \in Calls, CallTerminated(p, d)
      PROVE  proc[p] = Idle /\ proc'[p].pc \notin SwitchPCs
  BY <1>2, <1>6 DEF CallTerminated
<1>7. proc[p] = Idle /\ proc'[p].pc \notin SwitchPCs
  BY Zenon, <1>3, <1>4, <1>5, <1>6 DEF Arrival
<1> QED BY <1>7 DEF Idle, SwitchPCs

(* A request enters and leaves the two awaits only by its own three steps. *)
LEMMA NextSwitches ==
    ASSUME TypeInv, [Next]_vars, ~ Restart, NEW q \in Procs,
           ~ SetCurrentAgent(q), ~ CommitHandover(q), ~ RollBack(q),
           proc[q].pc \in SwitchPCs \/ proc'[q].pc \in SwitchPCs
    PROVE  proc'[q] = proc[q]
<1>. Requests \subseteq Procs
  BY DEF Procs
<1>1. ASSUME NEW p \in Requests, Arrival(p) PROVE proc'[q] = proc[q]
  BY <1>1, OthersStay, ArrivalSwitches
<1>2. ASSUME NEW p \in Procs, Step(p) PROVE proc'[q] = proc[q]
  BY <1>2, OthersStay, StepSwitches
<1>3. ASSUME NEW p \in Procs, NEW t \in Transfers, ExpireDue(p, t) PROVE proc'[q] = proc[q]
  <2>1. proc[p] = Idle /\ proc'[p].pc = "drop_target"
    BY <1>3, ExpireMoves DEF ExpireDue
  <2>2. q # p
    BY <2>1 DEF Idle, SwitchPCs
  <2> QED BY <1>3, <2>2, ExpireMoves
<1>4. ASSUME NEW t \in Transfers, Deadline(t) PROVE proc'[q] = proc[q]
  BY <1>4 DEF Deadline
<1>5. CASE UNCHANGED vars
  BY <1>5 DEF vars
<1> QED BY Zenon, <1>1, <1>2, <1>3, <1>4, <1>5 DEF Next

LEMMA SwitchingRequest ==
    ASSUME TypeInv, NEW p \in Procs, NEW c, Switching(p, c)
    PROVE  /\ proc[p].pc \in LockPCs /\ proc[p].t \in Transfers
           /\ transfer[proc[p].t].call = c /\ transfer[proc[p].t].status # "NONE"
BY DEF Switching, LockPCs, TypeInv, RequestOK

(* A step that moves no switch of call c and keeps its agent.              *)
LEMMA MediaKept ==
    ASSUME TypeInv, PresenceInv, [Next]_vars, ~ Restart, NEW c \in Calls, Active(c), MediaOf(c),
           call'[c].agent = call[c].agent,
           \A q \in Procs : Switching(q, c) \/ Switching(q, c)' => proc'[q] = proc[q],
           \A p \in Procs : ~ Switches(p, c)
    PROVE  MediaOf(c)'
<1>1. \A q \in Procs : Switching(q, c) <=> Switching(q, c)'
  BY DEF Switching
<1>2. Needs(c, call[c].agent)
  BY DEF Needs
<1>3. call'[c].agent \in gateway'[c].agents
  BY <1>2, PeersStay DEF MediaOf
<1>4. ASSUME NEW q \in Procs, Switching(q, c)', NEW t \in Transfers, t = proc'[q].t
      PROVE  /\ proc'[q] = proc[q] /\ proc[q].agent = call[c].agent /\ t = proc[q].t
             /\ transfer'[t].to = transfer[t].to
             /\ proc[q].pc = "commit" /\ Open(t)' =>
                   /\ gateway'[c].current = transfer[t].to
                   /\ transfer[t].to \in gateway'[c].agents
  <2>1. proc'[q] = proc[q] /\ t = proc[q].t /\ Switching(q, c)
    BY <1>1, <1>4
  <2>2. transfer[t].call = c /\ transfer[t].status # "NONE"
    BY <2>1, SwitchingRequest
  <2>3. proc[q].agent = call[c].agent /\ transfer'[t].to = transfer[t].to
    BY <2>1, <2>2, NextKeepsTransfers DEF MediaOf, KeepsTransfers
  <2>4. ASSUME proc[q].pc = "commit", Open(t)'
        PROVE  /\ gateway'[c].current = transfer[t].to
               /\ transfer[t].to \in gateway'[c].agents
    <3>1. Open(t)
      BY <2>2, <2>4, ClosedStays
    <3>2. gateway[c].current = transfer[t].to /\ transfer[t].to \in gateway[c].agents
      BY <2>1, <2>4, <3>1 DEF MediaOf
    <3>3. Needs(c, transfer[t].to)
      BY <2>2, <3>1 DEF Needs, OpenOf
    <3> QED BY <3>2, <3>3, PeersStay
  <2> QED BY <2>1, <2>3, <2>4
<1>5. ASSUME NEW q \in Procs, Switching(q, c)' PROVE proc'[q].t \in Transfers
  BY <1>1, <1>5, SwitchingRequest
<1>6. (\A q \in Procs : ~ Switching(q, c)') => gateway'[c].current = call'[c].agent
  BY <1>1, <1>2, PeersStay DEF MediaOf
<1>7. ASSUME NEW q \in Procs, Switching(q, c)'
      PROVE  /\ proc'[q].agent = call'[c].agent
             /\ proc'[q].pc = "commit" /\ transfer'[proc'[q].t].status \in OPEN_STATUSES =>
                   /\ gateway'[c].current = transfer'[proc'[q].t].to
                   /\ transfer'[proc'[q].t].to \in gateway'[c].agents
  BY <1>4, <1>5, <1>7 DEF Open
<1> QED BY <1>3, <1>6, <1>7 DEF MediaOf, Open

(* The gateway switches to the target: the owner was heard until then.     *)
LEMMA SwitchMedia ==
    ASSUME ~ Faults, TypeInv, ActivationInv, NEW p \in Procs, SetCurrentAgent(p),
           NEW c \in Calls, proc[p].call = c, MediaOf(c)
    PROVE  MediaOf(c)'
<1>. DEFINE r == proc[p]
            to == transfer[r.t].to
<1>. gateway \in [Calls -> GatewaySession] /\ proc \in [Procs -> ProcRecord]
  BY DEF TypeInv, TypeOK, MemoryOK
<1>1. r.pc = "switch" /\ UNCHANGED <<call, transfer>>
  BY DEF SetCurrentAgent, At, database
<1>2. \A q \in Procs : ~ Switching(q, c)
  BY <1>1 DEF Switching, ActivationInv, LockPCs
<1>3. call[c].agent \in gateway[c].agents /\ gateway[c].current = call[c].agent
  BY <1>2 DEF MediaOf
<1>4. \A q \in Procs \ {p} : proc'[q] = proc[q]
  BY OthersStay DEF Step
<1>5. \A q \in Procs \ {p} : ~ Switching(q, c)'
  BY <1>2, <1>4 DEF Switching
<1>6. CASE Abort(p) /\ gateway' = gateway
  <2>1. proc'[p] = Idle
    BY <1>6 DEF Abort, Finish
  <2>2. ~ Switching(p, c)'
    BY <2>1 DEF Switching, Idle
  <2> QED BY <1>1, <1>3, <1>5, <1>6, <2>2 DEF MediaOf
<1>7. CASE /\ to \in gateway[c].agents /\ gateway' = [gateway EXCEPT ![c].current = to]
           /\ Begin(p, "commit", r.by, c, r.t, gateway[c].current)
  <2>1. /\ proc'[p].pc = "commit" /\ proc'[p].call = c /\ proc'[p].t = r.t
        /\ proc'[p].agent = call[c].agent
    BY <1>3, <1>7 DEF Begin
  <2>2. gateway'[c].current = to /\ gateway'[c].agents = gateway[c].agents
    BY <1>7 DEF GatewaySession
  <2>3. Switching(p, c)'
    BY <2>1 DEF Switching
  <2> QED BY <1>1, <1>3, <1>5, <1>7, <2>1, <2>2, <2>3 DEF MediaOf
<1> QED BY <1>6, <1>7 DEF SetCurrentAgent

(* The transaction makes the agent who is heard responsible, or the        *)
(* rollback will find the old owner's peer.                                *)
LEMMA CommitMedia ==
    ASSUME ~ Faults, TypeInv, ActivationInv, NEW p \in Procs, CommitHandover(p),
           NEW c \in Calls, proc[p].call = c, MediaOf(c)
    PROVE  MediaOf(c)'
<1>. DEFINE r == proc[p]
            to == transfer[r.t].to
<1>. proc \in [Procs -> ProcRecord]
  BY DEF TypeInv, TypeOK
<1>1. r.pc = "commit" /\ gateway' = gateway
  BY DEF CommitHandover, At
<1>2. Switching(p, c) /\ \A q \in Procs : Switching(q, c) => q = p
  BY <1>1 DEF Switching, ActivationInv, LockPCs
<1>3. /\ call[c].agent \in gateway[c].agents /\ r.agent = call[c].agent
      /\ Open(r.t) => gateway[c].current = to /\ to \in gateway[c].agents
  BY <1>1, <1>2 DEF MediaOf
<1>4. \A q \in Procs \ {p} : proc'[q] = proc[q]
  BY OthersStay DEF Step
<1>5. \A q \in Procs \ {p} : ~ Switching(q, c)'
  BY <1>2, <1>4 DEF Switching
<1>6. CASE /\ Completes(r.t) /\ call' = [call EXCEPT ![c].agent = to]
           /\ Continue(p, "remove_source")
  <2>1. proc'[p].pc = "remove_source"
    BY <1>6 DEF Continue, Goto, ProcRecord
  <2>2. call'[c].agent = to
    BY <1>6 DEF TypeInv, TypeOK, RowsOK
  <2>3. gateway[c].current = to /\ to \in gateway[c].agents
    BY <1>3, <1>6 DEF Completes, Open, OPEN_STATUSES
  <2>4. ~ Switching(p, c)'
    BY <2>1 DEF Switching
  <2> QED BY <1>1, <1>5, <2>2, <2>3, <2>4 DEF MediaOf
<1>7. CASE UNCHANGED database /\ r.agent # None /\ Continue(p, "rollback")
  <2>1. proc'[p] = [proc[p] EXCEPT !.pc = "rollback"]
    BY <1>7 DEF Continue, Goto
  <2>2. proc'[p].pc = "rollback" /\ proc'[p].call = c /\ proc'[p].agent = r.agent
    BY <2>1 DEF ProcRecord
  <2>3. Switching(p, c)' /\ call' = call
    BY <1>7, <2>2 DEF Switching, database
  <2> QED BY <1>1, <1>3, <1>5, <2>2, <2>3 DEF MediaOf
<1>8. r.agent # None
  BY <1>3, ConstantsAssumption DEF TypeInv, TypeOK, RowsOK
<1> QED BY <1>6, <1>7, <1>8 DEF CommitHandover

(* The rollback gives the audio back to the owner.                         *)
LEMMA RollBackMedia ==
    ASSUME ~ Faults, TypeInv, ActivationInv, NEW p \in Procs, RollBack(p),
           NEW c \in Calls, proc[p].call = c, MediaOf(c)
    PROVE  MediaOf(c)'
<1>. gateway \in [Calls -> GatewaySession] /\ proc \in [Procs -> ProcRecord]
  BY DEF TypeInv, TypeOK, MemoryOK
<1>1. proc[p].pc = "rollback" /\ UNCHANGED <<call, transfer>> /\ Abort(p)
  BY DEF RollBack, At, database
<1>2. Switching(p, c) /\ \A q \in Procs : Switching(q, c) => q = p
  BY <1>1 DEF Switching, ActivationInv, LockPCs
<1>3. call[c].agent \in gateway[c].agents /\ proc[p].agent = call[c].agent
  BY <1>2 DEF MediaOf
<1>4. gateway' = [gateway EXCEPT ![c].current = call[c].agent]
  BY <1>3 DEF RollBack
<1>5. gateway'[c].current = call[c].agent /\ gateway'[c].agents = gateway[c].agents
  BY <1>4 DEF GatewaySession
<1>6. \A q \in Procs \ {p} : proc'[q] = proc[q]
  BY OthersStay DEF Step
<1>7. proc'[p] = Idle
  BY <1>1 DEF Abort, Finish
<1>8. \A q \in Procs : ~ Switching(q, c)'
  BY <1>2, <1>6, <1>7 DEF Switching, Idle
<1> QED BY <1>1, <1>3, <1>5, <1>8 DEF MediaOf

LEMMA OtherSwitch ==
    ASSUME TypeInv, NEW q \in Procs, SetCurrentAgent(q) \/ CommitHandover(q) \/ RollBack(q),
           NEW c, proc[q].call # c
    PROVE  ~ Switching(q, c) /\ ~ Switching(q, c)'
<1>. proc \in [Procs -> ProcRecord]
  BY DEF TypeInv, TypeOK
<1>1. CASE Abort(q)
  BY <1>1 DEF Abort, Finish, Idle, Switching
<1>2. ASSUME NEW pc, Continue(q, pc) PROVE proc'[q].call # c
  BY <1>2 DEF Continue, Goto, ProcRecord
<1>3. ASSUME NEW a, Begin(q, "commit", proc[q].by, proc[q].call, proc[q].t, a)
      PROVE  proc'[q].call # c
  BY <1>3 DEF Begin
<1> QED BY <1>1, <1>2, <1>3 DEF SetCurrentAgent, CommitHandover, RollBack, Switching

LEMMA NextMedia ==
    ASSUME MaxRestarts = 0, ~ Faults, TypeInv, ActivationInv, PresenceInv, MediaInv, [Next]_vars
    PROVE  MediaInv'
<1>1. ~ Restart
  BY ConstantsAssumption DEF Restart, TypeInv, TypeOK, MemoryOK
<1>2. ASSUME NEW c \in Calls, Active(c)' PROVE MediaOf(c)'
  <2>1. Active(c) /\ MediaOf(c)
    BY <1>2, CallsStayEnded DEF MediaInv
  <2>2. ASSUME NEW p \in Procs, proc[p].call = c,
               SetCurrentAgent(p) \/ CommitHandover(p) \/ RollBack(p)
        PROVE  MediaOf(c)'
    BY <2>1, <2>2, SwitchMedia, CommitMedia, RollBackMedia
  <2>3. CASE \A p \in Procs : SetCurrentAgent(p) \/ CommitHandover(p) \/ RollBack(p) =>
                proc[p].call # c
    <3>1. \A p \in Procs : ~ Switches(p, c)
      BY <2>3 DEF Switches
    <3>2. ASSUME NEW q \in Procs, Switching(q, c) \/ Switching(q, c)' PROVE proc'[q] = proc[q]
      <4>1. ~ SetCurrentAgent(q) /\ ~ CommitHandover(q) /\ ~ RollBack(q)
        BY <2>3, <3>2, OtherSwitch
      <4>2. proc[q].pc \in SwitchPCs \/ proc'[q].pc \in SwitchPCs
        BY <3>2 DEF Switching, SwitchPCs
      <4> QED BY <1>1, <4>1, <4>2, NextSwitches
    <3>3. call'[c].agent = call[c].agent
      <4>1. CASE KeepsCalls
        BY <4>1 DEF KeepsCalls
      <4>2. ASSUME NEW p \in Procs, CommitHandover(p) PROVE call'[c].agent = call[c].agent
        <5>1. proc[p].call # c
          BY <2>3, <4>2
        <5>2. \/ call' = call
              \/ call' = [call EXCEPT ![proc[p].call].agent = transfer[proc[p].t].to]
          BY <4>2, CommitRows DEF database
        <5> QED BY <5>1, <5>2 DEF TypeInv, TypeOK, RowsOK
      <4> QED BY <4>1, <4>2, CallsKept
    <3> QED BY <1>1, <2>1, <3>1, <3>2, <3>3, MediaKept
  <2> QED BY <2>2, <2>3
<1> QED BY <1>2 DEF MediaInv

LEMMA InitMedia == Init => MediaInv
<1> SUFFICES ASSUME Init, NEW c \in Calls PROVE MediaOf(c)
  BY DEF MediaInv
<1>1. \A p \in Procs : ~ Switching(p, c)
  BY DEF Init, Idle, Switching
<1>2. PICK cl \in [Calls -> Clients] :
         /\ call = [d \in Calls |-> [status |-> "ACTIVE", agent |-> AgentOf[cl[d]],
                                     hungup |-> FALSE]]
         /\ gateway = [d \in Calls |-> [open |-> TRUE, agents |-> {AgentOf[cl[d]]},
                                        current |-> AgentOf[cl[d]]]]
  BY DEF Init
<1>3. call[c].agent \in gateway[c].agents /\ gateway[c].current = call[c].agent
  BY <1>2
<1> QED BY <1>1, <1>3 DEF MediaOf

(* When moreover no answer of the gateway is lost and no handover          *)
(* transaction fails, the customer of an active call hears the responsible *)
(* agent whenever no handover is being completed (README.md:110): a switch *)
(* that is not committed is rolled back, because the old agent's peer is   *)
(* still there, and a committed one was heard already.                     *)
THEOREM OwnersAreHeard ==
    ASSUME MaxRestarts = 0, ~ Faults PROVE Spec /\ AsksOnce => []MediaFollowsOwner
<1>1. Init => MediaInv
  BY InitMedia
<1>2. /\ TypeInv /\ HandoverInv /\ ActivationInv /\ PresenceInv /\ MediaInv /\ [Next]_vars
      => MediaInv'
  BY NextMedia
<1>3. MediaInv => MediaFollowsOwner
  BY DEF MediaInv, MediaOf, MediaFollowsOwner, Switching, Completing
<1> QED BY <1>1, <1>2, <1>3, MarksRest, PTL DEF Spec
=============================================================================
