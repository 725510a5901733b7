-------------------------- MODULE CallTransferProps --------------------------
(***************************************************************************)
(* What CallTransfer must satisfy, the abstract protocol it implements,    *)
(* and the inductive invariants the proofs rest on.                        *)
(***************************************************************************)
EXTENDS CallTransfer

PCs == {"idle", "find_target", "create", "accept", "expire_late", "REJECTED",
        "CANCELLED", "drop_target", "join", "find_active", "find_transfer",
        "wait_ready", "switch", "commit", "rollback", "remove_source", "claim",
        "terminate", "close_media", "list_open", "cancel_open"}

ProcRecord == [pc : PCs, by : Clients \cup {None}, call : Calls \cup {None},
               t : Transfers \cup {None}, agent : Agents \cup {None}]

TransferRow == [status : TransferStatus, call : Calls \cup {None},
                from : Agents \cup {None}, to : Agents \cup {None}, due : BOOLEAN]

GatewaySession == [open : BOOLEAN, agents : SUBSET Agents, current : Agents \cup {None}]

RowsOK ==
    /\ call \in [Calls -> [status : {"ACTIVE", "ENDED"}, agent : Agents,
                           hungup : BOOLEAN]]
    /\ assigned \in [Calls -> Agents \cup {None}]
    /\ transfer \in [Transfers -> TransferRow]
    /\ \A t \in Transfers : transfer[t].status # "NONE" =>
          /\ transfer[t].call \in Calls
          /\ transfer[t].from \in Agents /\ transfer[t].to \in Agents

MemoryOK ==
    /\ busy \in [Agents -> SUBSET Calls]
    /\ session \in [Calls \cup Transfers -> Clients \cup {None}]
    /\ activating \subseteq Calls
    /\ mediaAgents \subseteq Agents
    /\ restarts \in 0..MaxRestarts
    /\ gateway \in [Calls -> GatewaySession]

(* Every variable has the shape the code gives it.                         *)
TypeOK == RowsOK /\ MemoryOK /\ proc \in [Procs -> ProcRecord]

(* The partial unique index: a call never has two open transfers.          *)
OneOpenTransfer ==
    \A t, u \in Transfers :
        Open(t) /\ Open(u) /\ transfer[t].call = transfer[u].call => t = u

(* An accepted transfer was offered by the agent who is responsible for    *)
(* the call now.  acceptTransfer compares the two before an await, the     *)
(* row changes after it, and completeTransfer overwrites the agent without *)
(* looking: this is what makes its blind UPDATE safe.                      *)
AcceptedByOwner ==
    \A t \in Transfers :
        transfer[t].status = "ACCEPTED" => transfer[t].from = call[transfer[t].call].agent

(* A media-ready between its switch of the audio and its last statement.   *)
Completing(c) ==
    \E p \in Procs : /\ proc[p].pc \in {"commit", "rollback", "remove_source"}
                     /\ proc[p].call = c

(* README: only the responsible agent is heard by the customer, whatever   *)
(* rejection, cancellation or expiry arrives while the audio is switched.  *)
MediaFollowsOwner ==
    \A c \in Calls :
        Active(c) /\ ~Completing(c) => gateway[c].current = call[c].agent

(* The responsible agent of a call is marked busy, so that no new call or  *)
(* transfer is offered to it: no late clearBusy of an earlier transfer     *)
(* takes the mark of the agent who has the call now.                       *)
OwnerIsBusy ==
    \A c \in Calls :
        Active(c) /\ ~Completing(c) => c \in busy[call[c].agent]

(* README.md:110 and docs/API.md:495: a rejection, a cancellation, an      *)
(* expiry or a failure of the media leaves the call with the agent who has *)
(* it.  While that agent stays the same, no step takes its peer away.      *)
(* rejectTransfer does, for an offer that was inserted after the call had  *)
(* moved on and that names the new agent as its target.                    *)
OwnerKeepsMedia ==
    [][\A c \in Calls :
          /\ Active(c) /\ Active(c)' /\ call'[c].agent = call[c].agent
          /\ call[c].agent \in gateway[c].agents
          => call[c].agent \in gateway'[c].agents]_vars

(* The client that owns the key of an active call belongs to the           *)
(* responsible agent: a transfer never leaves the new agent locked out by  *)
(* the session of the old one.                                             *)
SessionFollowsOwner ==
    \A c \in Calls :
        /\ Active(c) /\ ~Completing(c)
        /\ session[c] # None
        => AgentOf[session[c]] = call[c].agent

(* No agent is responsible for two active calls, although the check        *)
(* (findActiveByAgent) and the write are five awaits apart and transfers   *)
(* of different calls to one agent run together.                           *)
OneActiveCallPerAgent ==
    \A c, d \in Calls :
        Active(c) /\ Active(d) /\ call[c].agent = call[d].agent => c = d

(* A transfer that was offered is decided: no agent stays reserved by a    *)
(* transfer that neither side answers.                                     *)
EveryTransferIsDecided ==
    \A t \in Transfers : Open(t) ~> ~Open(t)

-----------------------------------------------------------------------------
(* The rows implement the protocol of transfers.                           *)
StageOf(status) ==
    CASE status = "NONE" -> "none"
      [] status = "PENDING" -> "offered"
      [] status = "ACCEPTED" -> "accepted"
      [] status = "COMPLETED" -> "done"
      [] OTHER -> "withdrawn"

Owners == [c \in Calls |-> call[c].agent]

Offers ==
    [t \in Transfers |->
        [stage |-> StageOf(transfer[t].status), call |-> transfer[t].call,
         from |-> transfer[t].from, to |-> transfer[t].to]]

Protocol == INSTANCE TransferProtocol
                WITH owner <- Owners, attendant <- assigned, offer <- Offers

(* The responsible agent, the attendant of the conversation and the        *)
(* transfers change only as TransferProtocol allows.                       *)
ImplementsProtocol == Protocol!Spec

-----------------------------------------------------------------------------
(***************************************************************************)
(* The inductive invariants behind OneOpenTransfer, AcceptedByOwner,       *)
(* ImplementsProtocol and OneActiveCallPerAgent.                           *)
(***************************************************************************)
TransferPCs == {"accept", "expire_late", "REJECTED", "CANCELLED", "drop_target",
                "join", "cancel_open"}
LockPCs == {"find_active", "find_transfer", "wait_ready", "switch", "commit",
            "rollback", "remove_source"}
CheckedPCs == {"find_transfer", "wait_ready", "switch", "commit"}

(* A request blocked on an await still names what it works on.             *)
RequestOK(p) ==
    LET r == proc[p] IN
    /\ r.pc \in TransferPCs \cup LockPCs =>
          /\ r.t \in Transfers /\ r.call = transfer[r.t].call
          /\ transfer[r.t].status # "NONE"
    /\ r.pc \in LockPCs \cup {"find_target", "create", "claim", "terminate"} =>
          r.by \in Clients
    /\ r.pc \in {"find_target", "create", "claim", "terminate", "close_media",
                 "list_open"} => r.call \in Calls
    /\ r.pc \in {"find_target", "create", "terminate", "close_media"} =>
          r.agent \in Agents
    /\ r.pc \in {"find_target", "create"} => r.agent # AgentOf[r.by]

TypeInv == TypeOK /\ \A p \in Procs : RequestOK(p)

(* An accept that read the row before its await may still change it only   *)
(* while the offering agent is responsible.                                *)
AcceptingByOwner ==
    \A p \in Procs :
        LET t == proc[p].t IN
        proc[p].pc = "accept" /\ transfer[t].status = "PENDING" =>
            transfer[t].from = call[transfer[t].call].agent

HandoverInv == OneOpenTransfer /\ AcceptedByOwner /\ AcceptingByOwner

(* A media-ready holds its locks alone; once it has seen that its agent is *)
(* in no other call, that stays so.                                        *)
LockInv ==
    \A p \in Procs : LET r == proc[p] IN
        /\ r.pc \in LockPCs =>
              /\ AgentOf[r.by] \in mediaAgents
              /\ transfer[r.t].to = AgentOf[r.by]
              /\ \A q \in Procs : proc[q].pc \in LockPCs /\ q # p =>
                     AgentOf[proc[q].by] # AgentOf[r.by]
        /\ r.pc \in CheckedPCs =>
              \A c \in Calls : Active(c) /\ call[c].agent = AgentOf[r.by] => c = r.call

CallsInv == OneActiveCallPerAgent /\ LockInv

(* One media-ready at a time works on a call.                              *)
ActivationInv ==
    \A p \in Procs : proc[p].pc \in LockPCs =>
        /\ proc[p].call \in activating
        /\ \A q \in Procs : proc[q].pc \in LockPCs /\ proc[q].call = proc[p].call => q = p

(* While every agent uses one browser, the key of a call follows the       *)
(* agent: the key of a transfer belongs to its target, the attendant is    *)
(* nobody or the agent, and what a claim or a handover has seen stays so.  *)
KeyOfTransfer(t) ==
    session[t] # None =>
        transfer[t].status # "NONE" /\ AgentOf[session[t]] = transfer[t].to

KeyOfCall(c) ==
    /\ assigned[c] \in {None, call[c].agent}
    /\ (\A p \in Procs : ~ (proc[p].pc = "remove_source" /\ proc[p].call = c))
          /\ session[c] # None => AgentOf[session[c]] = call[c].agent

HoldsKey(p) ==
    LET r == proc[p] IN
    /\ r.pc = "claim" /\ assigned[r.call] = None => AgentOf[r.by] = call[r.call].agent
    /\ r.pc = "remove_source" => call[r.call].agent = transfer[r.t].to

KeysInv ==
    /\ \A t \in Transfers : KeyOfTransfer(t)
    /\ \A c \in Calls : KeyOfCall(c)
    /\ \A p \in Procs : HoldsKey(p)

-----------------------------------------------------------------------------
(***************************************************************************)
(* OwnerIsBusy, MediaFollowsOwner and OwnerKeepsMedia hold in every run in *)
(* which the offers of a call are made one at a time.  A request for a     *)
(* transfer reads who is responsible and who is busy, and inserts its row  *)
(* two awaits later without looking again: of two requests that overlap,   *)
(* the second row may be stale when it appears.                            *)
(***************************************************************************)
(* The request for a transfer of c between its reads and its INSERT.       *)
Asking(p, c) == proc[p].pc \in {"find_target", "create"} /\ proc[p].call = c

(* A transfer of a call is asked for only while none of that call is open  *)
(* or being asked for.                                                     *)
AsksOneAtATime ==
    \A p \in Procs, c \in Calls :
        ~ Asking(p, c) /\ Asking(p, c)' =>
            OpenOf(c) = {} /\ \A q \in Procs : ~ Asking(q, c)

AsksOnce == [][AsksOneAtATime]_vars

(* A transfer reserves its target from the INSERT until the mark is        *)
(* cleared, which is one await after the row was closed.                   *)
Dropping(p, t) == proc[p].pc = "drop_target" /\ proc[p].t = t
Reserved(t) == Open(t) \/ \E p \in Procs : Dropping(p, t)
ReservedOf(c) == {t \in Transfers : Reserved(t) /\ transfer[t].call = c}

DropInv ==
    \A t \in Transfers, p \in Procs :
        Dropping(p, t) => ~ Open(t) /\ \A q \in Procs : Dropping(q, t) => q = p

EndInv ==
    \A p \in Procs :
        proc[p].pc \in {"close_media", "list_open", "cancel_open"} => ~ Active(proc[p].call)

(* What a request has read is still so when it inserts its row.            *)
AskInv(c) ==
    \A p \in Procs : Asking(p, c) =>
        /\ AgentOf[proc[p].by] = call[c].agent
        /\ OpenOf(c) = {}
        /\ \A q \in Procs : Asking(q, c) => q = p
        /\ \A t \in ReservedOf(c) : transfer[t].to # proc[p].agent

(* Reserved targets are marked, differ from the owner and from each other. *)
ReserveInv(c) ==
    \A t \in ReservedOf(c) :
        /\ c \in busy[transfer[t].to] /\ transfer[t].to # call[c].agent
        /\ Open(t) => transfer[t].from = call[c].agent
        /\ \A u \in ReservedOf(c) : transfer[u].to = transfer[t].to => u = t

(* After a handover the old owner stays marked, and nobody offers the call *)
(* to it, until its peer and its mark are removed.                         *)
SourceInv(c) ==
    \A p \in Procs : proc[p].pc = "remove_source" /\ proc[p].call = c =>
        LET from == transfer[proc[p].t].from IN
        /\ transfer[proc[p].t].to = call[c].agent /\ from # call[c].agent
        /\ c \in busy[from]
        /\ \A t \in ReservedOf(c) : transfer[t].to # from
        /\ \A q \in Procs : Asking(q, c) => proc[q].agent # from

PresenceOf(c) ==
    AskInv(c) /\ ReserveInv(c) /\ SourceInv(c) /\ c \in busy[call[c].agent]

PresenceInv ==
    DropInv /\ EndInv /\ \A c \in Calls : Active(c) => PresenceOf(c)

(* While no answer of the gateway is lost: the owner has a peer, and is    *)
(* heard except between a switch and the end of its transaction.           *)
Switching(p, c) == proc[p].pc \in {"commit", "rollback"} /\ proc[p].call = c

MediaOf(c) ==
    /\ call[c].agent \in gateway[c].agents
    /\ \A p \in Procs : Switching(p, c) =>
          /\ proc[p].agent = call[c].agent
          /\ proc[p].pc = "commit" /\ Open(proc[p].t) =>
                /\ gateway[c].current = transfer[proc[p].t].to
                /\ transfer[proc[p].t].to \in gateway[c].agents
    /\ (\A p \in Procs : ~ Switching(p, c)) => gateway[c].current = call[c].agent

MediaInv == \A c \in Calls : Active(c) => MediaOf(c)
=============================================================================
