---------------------------- MODULE CallTransfer ----------------------------
(***************************************************************************)
(* The transfer of an active call from one agent to another:               *)
(* callTransfer.service.js, the transfer branch of mediaReady/joinMedia    *)
(* and the ends of a call in call.service.js, the session store, the       *)
(* presence registry, and the media gateway's per-call agent table.        *)
(*                                                                         *)
(* The API is one Node.js process.  A request runs alone between two       *)
(* awaits, so an action is the answer to one await (a database statement   *)
(* or a gateway call) together with the code that follows it up to the     *)
(* next await; requests interleave only there.  proc[p].pc names the await *)
(* request p is blocked on.  A request that is refused before its first    *)
(* effect changes nothing and is not shown.                                *)
(***************************************************************************)
EXTENDS Naturals, FiniteSets

CONSTANTS Agents,        \* agent identifiers
          Clients,       \* browser sessions (clientId and environment)
          AgentOf,       \* AgentOf[cl]: the agent signed in on client cl
          Calls,
          Transfers,     \* transfer identifiers; bounds the transfers made
          Requests,      \* HTTP requests and webhooks in flight at once
          Endpoints,     \* the kinds of events an instance exercises
          Worker,        \* the 5 s expiration worker
          None,
          SerialClients, \* TRUE: a client waits for its answer
          Faults,        \* TRUE: gateway answers get lost, RTP stops, and
                         \* the transaction of a handover may fail
          MaxRestarts    \* bounds the restarts of the API process

AllEndpoints == {"requestTransfer", "acceptTransfer", "rejectTransfer",
                 "cancelTransfer", "joinMedia", "mediaReady", "claim",
                 "terminate", "webhook", "deadline"}

ASSUME ConstantsAssumption ==
    /\ AgentOf \in [Clients -> Agents]
    /\ Worker \notin Requests
    /\ None \notin Agents \cup Clients \cup Calls \cup Transfers
    /\ Calls \cap Transfers = {}
    /\ Endpoints \subseteq AllEndpoints
    /\ SerialClients \in BOOLEAN /\ Faults \in BOOLEAN
    /\ MaxRestarts \in Nat

VARIABLES
    \* PostgreSQL
    call,        \* call[c]: status and currentAgentId of the Call row, and
                 \* whether its terminate webhook has been recorded
    assigned,    \* assigned[c]: assignedUserId of the call's conversation
    transfer,    \* transfer[t]: the CallTransfer row
    \* memory of the API process
    busy,        \* busy[a]: the calls agent a is marked busy for
    session,     \* session[k]: the client that owns the key k
    activating,  \* mediaActivations: calls with a media-ready in flight
    mediaAgents, \* mediaAgents: agents with a media-ready in flight
    proc,        \* proc[p]: where request p is
    restarts,
    \* media gateway
    gateway      \* gateway[c]: the gateway's session for call c

database == <<call, assigned, transfer>>
memory == <<busy, session, activating, mediaAgents>>
vars == <<call, assigned, transfer, busy, session, activating, mediaAgents,
          proc, restarts, gateway>>

Procs == Requests \cup {Worker}
OPEN_STATUSES == {"PENDING", "ACCEPTED"}
TransferStatus == {"NONE", "PENDING", "ACCEPTED", "REJECTED", "CANCELLED",
                   "COMPLETED", "EXPIRED"}

NoTransfer == [status |-> "NONE", call |-> None, from |-> None,
               to |-> None, due |-> FALSE]
Idle == [pc |-> "idle", by |-> None, call |-> None, t |-> None, agent |-> None]
Closed == [open |-> FALSE, agents |-> {}, current |-> None]

Open(t) == transfer[t].status \in OPEN_STATUSES
OpenOf(c) == {t \in Transfers : Open(t) /\ transfer[t].call = c}
Active(c) == call[c].status = "ACTIVE"

(* The partial unique index CallTransfer_one_open_per_call.                *)
IndexIgnored(c) == TRUE
IndexAllows(c) == OpenOf(c) = {}

(* The call is still the one the transfer was made for (TRANSFER_STALE).   *)
OnlyActive(t) == Active(transfer[t].call)
OfferStands(t) ==
    /\ Active(transfer[t].call)
    /\ call[transfer[t].call].agent = transfer[t].from

(* What the worker looks for.                                              *)
PendingIsOverdue(t) == transfer[t].status = "PENDING" /\ transfer[t].due
Overdue(t) == Open(t) /\ transfer[t].due

(* The guard of the transaction that completes a transfer.                 *)
AnyCompletes(t) == TRUE
Completes(t) == transfer[t].status = "ACCEPTED"

(* findActiveByAgent: a is in no active call other than c.                 *)
InNoOtherCall(a, c) == \A d \in Calls : Active(d) /\ call[d].agent = a => d = c

(***************************************************************************)
(* callSessionStore: a key without an owner accepts any client.            *)
(***************************************************************************)
AssertOwner(k, cl) == session[k] \in {None, cl}

RemoveSession(s, k) ==
    [x \in DOMAIN s |->
        IF x = k \/ (k \in Calls /\ x \in Transfers /\ transfer[x].call = k)
        THEN None ELSE s[x]]

(***************************************************************************)
(* The gateway's table of agent peers of one call.                         *)
(***************************************************************************)
RemoveAgent(g, a) ==
    [g EXCEPT !.agents = @ \ {a}, !.current = IF @ = a THEN None ELSE @]

(***************************************************************************)
(* Requests.                                                               *)
(***************************************************************************)
MayStart(p, cl, endpoint) ==
    /\ endpoint \in Endpoints
    /\ proc[p] = Idle
    /\ SerialClients => \A q \in Requests : proc[q].by # cl

At(p, pc) == proc[p].pc = pc

Begin(p, pc, cl, c, t, a) ==
    proc' = [proc EXCEPT ![p] = [pc |-> pc, by |-> cl, call |-> c, t |-> t,
                                 agent |-> a]]
Goto(p, pc) == proc' = [proc EXCEPT ![p].pc = pc]
Finish(p) == proc' = [proc EXCEPT ![p] = Idle]

(* Calls in conversation when the model starts: each has an agent of its   *)
(* own, whose client owns the call, who is marked busy and is heard.       *)
Init ==
    \E cl \in [Calls -> Clients] :
        /\ \A c, d \in Calls : c # d => AgentOf[cl[c]] # AgentOf[cl[d]]
        /\ call = [c \in Calls |-> [status |-> "ACTIVE", agent |-> AgentOf[cl[c]],
                                    hungup |-> FALSE]]
        /\ assigned = [c \in Calls |-> None]
        /\ transfer = [t \in Transfers |-> NoTransfer]
        /\ busy = [a \in Agents |-> {c \in Calls : AgentOf[cl[c]] = a}]
        /\ session = [k \in Calls \cup Transfers |->
                         IF k \in Calls THEN cl[k] ELSE None]
        /\ activating = {} /\ mediaAgents = {}
        /\ proc = [p \in Procs |-> Idle]
        /\ restarts = 0
        /\ gateway = [c \in Calls |-> [open |-> TRUE, agents |-> {AgentOf[cl[c]]},
                                       current |-> AgentOf[cl[c]]]]

-----------------------------------------------------------------------------
(* requestTransfer: the presence of the target is read before the database *)
(* is asked for the target's active call and before the row is inserted.   *)
RequestTransfer(p, cl, c, to) ==
    /\ MayStart(p, cl, "requestTransfer")
    /\ AssertOwner(c, cl)
    /\ Active(c) /\ call[c].agent = AgentOf[cl]
    /\ to # AgentOf[cl]
    /\ busy[to] = {}
    /\ Begin(p, "find_target", cl, c, None, to)
    /\ UNCHANGED <<database, memory, restarts, gateway>>

FindTarget(p) ==
    /\ At(p, "find_target")
    /\ IF \E c \in Calls : Active(c) /\ call[c].agent = proc[p].agent
         THEN Finish(p) ELSE Goto(p, "create")
    /\ UNCHANGED <<database, memory, restarts, gateway>>

(* The unique index on the open transfers of a call refuses a second one.  *)
CreateTransfer(p) ==
    LET r == proc[p] IN
    /\ At(p, "create")
    /\ \/ \E t \in Transfers :
              /\ transfer[t] = NoTransfer
              /\ IndexAllows(r.call)
              /\ transfer' = [transfer EXCEPT ![t] =
                    [status |-> "PENDING", call |-> r.call,
                     from |-> AgentOf[r.by], to |-> r.agent, due |-> FALSE]]
              /\ busy' = [busy EXCEPT ![r.agent] = @ \cup {r.call}]
       \/ /\ ~IndexAllows(r.call) \/ \A t \in Transfers : transfer[t] # NoTransfer
          /\ UNCHANGED <<transfer, busy>>
    /\ Finish(p)
    /\ UNCHANGED <<call, assigned, session, activating, mediaAgents, restarts, gateway>>

(* acceptTransfer: an overdue transfer is closed on the spot, any other    *)
(* key is claimed before the row changes (the status is not looked at).    *)
AcceptTransfer(p, cl, t) ==
    LET c == transfer[t].call IN
    /\ MayStart(p, cl, "acceptTransfer")
    /\ transfer[t].status # "NONE" /\ transfer[t].to = AgentOf[cl]
    /\ OfferStands(t)
    /\ \/ /\ transfer[t].due
          /\ Begin(p, "expire_late", cl, c, t, None)
          /\ UNCHANGED session
       \/ /\ ~transfer[t].due
          /\ AssertOwner(t, cl)
          /\ session' = [session EXCEPT ![t] = cl]
          /\ Begin(p, "accept", cl, c, t, None)
    /\ UNCHANGED <<database, busy, activating, mediaAgents, restarts, gateway>>

TransitionAccepted(p) ==
    LET t == proc[p].t IN
    /\ At(p, "accept")
    /\ transfer' = IF transfer[t].status = "PENDING"
                     THEN [transfer EXCEPT ![t].status = "ACCEPTED"] ELSE transfer
    /\ Finish(p)
    /\ UNCHANGED <<call, assigned, memory, restarts, gateway>>

TransitionLate(p) ==
    LET t == proc[p].t IN
    /\ At(p, "expire_late")
    /\ transfer' = IF Open(t) THEN [transfer EXCEPT ![t].status = "EXPIRED"]
                              ELSE transfer
    /\ Finish(p)
    /\ UNCHANGED <<call, assigned, memory, restarts, gateway>>

(* rejectTransfer by the target, cancelTransfer by the source.             *)
RejectTransfer(p, cl, t) ==
    /\ MayStart(p, cl, "rejectTransfer")
    /\ transfer[t].status # "NONE" /\ transfer[t].to = AgentOf[cl]
    /\ AssertOwner(t, cl)
    /\ Begin(p, "REJECTED", cl, transfer[t].call, t, None)
    /\ UNCHANGED <<database, memory, restarts, gateway>>

CancelTransfer(p, cl, t) ==
    /\ MayStart(p, cl, "cancelTransfer")
    /\ transfer[t].status # "NONE" /\ transfer[t].from = AgentOf[cl]
    /\ AssertOwner(transfer[t].call, cl)
    /\ Begin(p, "CANCELLED", cl, transfer[t].call, t, None)
    /\ UNCHANGED <<database, memory, restarts, gateway>>

CloseTransfer(p) ==
    LET t == proc[p].t IN
    /\ proc[p].pc \in {"REJECTED", "CANCELLED"}
    /\ IF Open(t)
         THEN /\ transfer' = [transfer EXCEPT ![t].status = proc[p].pc]
              /\ session' = RemoveSession(session, t)
              /\ Goto(p, "drop_target")
         ELSE Finish(p) /\ UNCHANGED <<transfer, session>>
    /\ UNCHANGED <<call, assigned, busy, activating, mediaAgents, restarts, gateway>>

(* expireDueTransfers: the row is looked up again by its transition, so a  *)
(* list read earlier changes nothing.  The worker's interval does not wait *)
(* for a slow round, so that a round may run beside another one.           *)
ExpireDue(p, t) ==
    /\ proc[p] = Idle
    /\ Overdue(t)
    /\ transfer' = [transfer EXCEPT ![t].status = "EXPIRED"]
    /\ session' = RemoveSession(session, t)
    /\ Begin(p, "drop_target", None, transfer[t].call, t, None)
    /\ UNCHANGED <<call, assigned, busy, activating, mediaAgents, restarts, gateway>>

(* The target's peer is removed (a failure is swallowed), then its mark.   *)
DropTarget(p) ==
    LET c == proc[p].call
        to == transfer[proc[p].t].to IN
    /\ At(p, "drop_target")
    /\ \/ gateway' = [gateway EXCEPT ![c] = RemoveAgent(@, to)]
       \/ Faults /\ UNCHANGED gateway
    /\ busy' = [busy EXCEPT ![to] = @ \ {c}]
    /\ Finish(p)
    /\ UNCHANGED <<database, session, activating, mediaAgents, restarts>>

(* The deadline of an open transfer passes.                                *)
Deadline(t) ==
    /\ "deadline" \in Endpoints
    /\ Open(t) /\ ~transfer[t].due
    /\ transfer' = [transfer EXCEPT ![t].due = TRUE]
    /\ UNCHANGED <<call, assigned, memory, proc, restarts, gateway>>

-----------------------------------------------------------------------------
(* joinMedia with a transferId: the target connects its browser.           *)
JoinMedia(p, cl, t) ==
    /\ MayStart(p, cl, "joinMedia")
    /\ transfer[t].status = "ACCEPTED" /\ transfer[t].to = AgentOf[cl]
    /\ AssertOwner(t, cl)
    /\ session' = [session EXCEPT ![t] = cl]
    /\ Begin(p, "join", cl, transfer[t].call, t, None)
    /\ UNCHANGED <<database, busy, activating, mediaAgents, restarts, gateway>>

JoinUnnamed(p) ==
    /\ At(p, "join")
    /\ gateway' = [gateway EXCEPT ![proc[p].call].agents = @ \cup {proc[p].agent}]
    /\ Finish(p)
    /\ UNCHANGED <<database, memory, restarts>>

JoinAgent(p) ==
    LET c == proc[p].call IN
    /\ At(p, "join")
    /\ gateway' = IF gateway[c].open
                    THEN [gateway EXCEPT ![c].agents = @ \cup {transfer[proc[p].t].to}]
                    ELSE gateway
    /\ Finish(p)
    /\ UNCHANGED <<database, memory, restarts>>

(* mediaReady with a transferId: the two in-memory locks, held until the   *)
(* request ends, then activateMedia and completeTransfer.                  *)
LocksFree(c, a) == c \notin activating /\ a \notin mediaAgents

MediaReady(p, cl, t) ==
    LET c == transfer[t].call IN
    /\ MayStart(p, cl, "mediaReady")
    /\ transfer[t].status # "NONE" /\ transfer[t].to = AgentOf[cl]
    /\ LocksFree(c, AgentOf[cl])
    /\ activating' = activating \cup {c}
    /\ mediaAgents' = mediaAgents \cup {AgentOf[cl]}
    /\ Begin(p, "find_active", cl, c, t, None)
    /\ UNCHANGED <<database, busy, session, restarts, gateway>>

Unlock(p) ==
    /\ activating' = activating \ {proc[p].call}
    /\ mediaAgents' = mediaAgents \ {AgentOf[proc[p].by]}

Abort(p) == Unlock(p) /\ Finish(p)

Continue(p, pc) == Goto(p, pc) /\ UNCHANGED <<activating, mediaAgents>>

FindActive(p) ==
    LET r == proc[p] IN
    /\ At(p, "find_active")
    /\ IF /\ InNoOtherCall(AgentOf[r.by], r.call)
          /\ AssertOwner(r.t, r.by)
         THEN Continue(p, "find_transfer") ELSE Abort(p)
    /\ UNCHANGED <<database, busy, session, restarts, gateway>>

FindTransfer(p) ==
    LET r == proc[p] IN
    /\ At(p, "find_transfer")
    /\ IF /\ transfer[r.t].status = "ACCEPTED" /\ ~transfer[r.t].due
          /\ OfferStands(r.t)
         THEN Continue(p, "wait_ready") ELSE Abort(p)
    /\ UNCHANGED <<database, busy, session, restarts, gateway>>

(* Up to 8 s of polling; the agent may never become ready.                 *)
WaitForAgentReady(p) ==
    LET r == proc[p] IN
    /\ At(p, "wait_ready")
    /\ \/ transfer[r.t].to \in gateway[r.call].agents /\ Continue(p, "switch")
       \/ Abort(p)
    /\ UNCHANGED <<database, busy, session, restarts, gateway>>

(* setCurrentAgent: the gateway refuses an agent without recent RTP.  The  *)
(* second disjunct is a refusal, the third an answer that never arrives.   *)
SetCurrentAgent(p) ==
    LET r == proc[p]
        c == r.call
        to == transfer[r.t].to
        Switched == [gateway EXCEPT ![c].current = to] IN
    /\ At(p, "switch")
    /\ \/ /\ to \in gateway[c].agents
          /\ gateway' = Switched
          /\ Begin(p, "commit", r.by, c, r.t, gateway[c].current)
          /\ UNCHANGED <<activating, mediaAgents>>
       \/ Abort(p) /\ UNCHANGED gateway
       \/ Faults /\ to \in gateway[c].agents /\ gateway' = Switched /\ Abort(p)
    /\ UNCHANGED <<database, busy, session, restarts>>

(* The transaction: the transfer must still be ACCEPTED; the call and its  *)
(* conversation are written without looking at them.                       *)
CommitHandover(p) ==
    LET r == proc[p]
        to == transfer[r.t].to IN
    /\ At(p, "commit")
    /\ \/ /\ Completes(r.t)
          /\ transfer' = [transfer EXCEPT ![r.t].status = "COMPLETED"]
          /\ call' = [call EXCEPT ![r.call].agent = to]
          /\ assigned' = [assigned EXCEPT ![r.call] = to]
          /\ Continue(p, "remove_source")
       \/ /\ ~Completes(r.t) \/ Faults
          /\ IF r.agent = None THEN Abort(p) ELSE Continue(p, "rollback")
          /\ UNCHANGED database
    /\ UNCHANGED <<busy, session, restarts, gateway>>

(* The previous agent is put back; a failure is swallowed.                 *)
NoRollBack(p) ==
    /\ At(p, "rollback") /\ Abort(p)
    /\ UNCHANGED <<database, busy, session, restarts, gateway>>

RollBack(p) ==
    LET c == proc[p].call IN
    /\ At(p, "rollback")
    /\ \/ /\ proc[p].agent \in gateway[c].agents
          /\ gateway' = [gateway EXCEPT ![c].current = proc[p].agent]
       \/ /\ Faults \/ proc[p].agent \notin gateway[c].agents
          /\ UNCHANGED gateway
    /\ Abort(p)
    /\ UNCHANGED <<database, busy, session, restarts>>

(* The previous agent's browser is disconnected; the key of the transfer   *)
(* becomes the key of the call, unless another client holds it by now;     *)
(* presence follows.                                                       *)
PresenceSwapped(from, to, c) ==
    [busy EXCEPT ![to] = @ \ {c}, ![from] = @ \cup {c}]
PresenceMoved(from, to, c) ==
    [busy EXCEPT ![from] = @ \ {c}, ![to] = @ \cup {c}]

KeyDropped(t, c, cl) == [session EXCEPT ![t] = None]
KeyMoved(t, c, cl) == [session EXCEPT ![t] = None, ![c] = cl]

RemoveSource(p) ==
    LET r == proc[p]
        from == transfer[r.t].from
        to == transfer[r.t].to IN
    /\ At(p, "remove_source")
    /\ \/ gateway' = [gateway EXCEPT ![r.call] = RemoveAgent(@, from)]
       \/ Faults /\ UNCHANGED gateway
    /\ IF AssertOwner(r.t, r.by)
         THEN /\ session' = KeyMoved(r.t, r.call, r.by)
              /\ busy' = PresenceMoved(from, to, r.call)
         ELSE UNCHANGED <<session, busy>>
    /\ Abort(p)
    /\ UNCHANGED <<database, restarts>>

-----------------------------------------------------------------------------
(* getCallForControl, for a call that has an agent.                        *)
Control(c, cl) ==
    /\ AssertOwner(c, cl)
    /\ call[c].agent = AgentOf[cl]
    /\ assigned[c] \in {None, AgentOf[cl]}

(* claimCall: the owner's client takes the key of its call (again).  The   *)
(* conversation is read one await after the call.                          *)
ClaimCall(p, cl, c) ==
    /\ MayStart(p, cl, "claim")
    /\ AssertOwner(c, cl) /\ call[c].agent = AgentOf[cl] /\ Active(c)
    /\ Begin(p, "claim", cl, c, None, None)
    /\ UNCHANGED <<database, memory, restarts, gateway>>

ClaimSession(p) ==
    LET r == proc[p] IN
    /\ At(p, "claim")
    /\ session' = IF assigned[r.call] \in {None, AgentOf[r.by]} /\ AssertOwner(r.call, r.by)
                    THEN [session EXCEPT ![r.call] = r.by] ELSE session
    /\ Finish(p)
    /\ UNCHANGED <<database, busy, activating, mediaAgents, restarts, gateway>>

(* The end of the call: the terminate webhook, which clears the agent its  *)
(* own UPDATE returned (Meta sends it once, also after terminate; the same *)
(* event again is a duplicate), and terminate, which clears the agent it   *)
(* read before it asked Meta to hang up.                                   *)
CallTerminated(p, c) ==
    /\ "webhook" \in Endpoints /\ proc[p] = Idle
    /\ ~call[c].hungup
    /\ call' = [call EXCEPT ![c].status = "ENDED", ![c].hungup = TRUE]
    /\ Begin(p, "close_media", None, c, None, call[c].agent)
    /\ UNCHANGED <<assigned, transfer, memory, restarts, gateway>>

TerminateCall(p, cl, c) ==
    /\ MayStart(p, cl, "terminate")
    /\ Control(c, cl) /\ Active(c)
    /\ Begin(p, "terminate", cl, c, None, call[c].agent)
    /\ UNCHANGED <<database, memory, restarts, gateway>>

UpdateEnded(p) ==
    /\ At(p, "terminate")
    /\ \/ call' = [call EXCEPT ![proc[p].call].status = "ENDED"] /\ Goto(p, "close_media")
       \/ UNCHANGED call /\ Finish(p)              \* Meta refused
    /\ UNCHANGED <<assigned, transfer, memory, restarts, gateway>>

CloseMedia(p) ==
    LET r == proc[p] IN
    /\ At(p, "close_media")
    /\ gateway' = [gateway EXCEPT ![r.call] = Closed]
    /\ busy' = [busy EXCEPT ![r.agent] = @ \ {r.call}]
    /\ Goto(p, "list_open")
    /\ UNCHANGED <<database, session, activating, mediaAgents, restarts>>

(* cancelForEndedCall, then emitCall, which drops the call's keys.         *)
ListOpen(p) ==
    LET r == proc[p] IN
    /\ At(p, "list_open")
    /\ \/ \E t \in OpenOf(r.call) :
              /\ Begin(p, "cancel_open", r.by, r.call, t, r.agent)
              /\ UNCHANGED session
       \/ /\ OpenOf(r.call) = {}
          /\ session' = RemoveSession(session, r.call)
          /\ Finish(p)
    /\ UNCHANGED <<database, busy, activating, mediaAgents, restarts, gateway>>

CancelOpen(p) ==
    LET r == proc[p] IN
    /\ At(p, "cancel_open")
    /\ IF Open(r.t)
         THEN /\ transfer' = [transfer EXCEPT ![r.t].status = "CANCELLED"]
              /\ busy' = [busy EXCEPT ![transfer[r.t].to] = @ \ {r.call}]
         ELSE UNCHANGED <<transfer, busy>>
    /\ session' = RemoveSession(session, r.call)
    /\ Finish(p)
    /\ UNCHANGED <<call, assigned, activating, mediaAgents, restarts, gateway>>

(* The API process restarts: the rows and the gateway survive it.          *)
Restart ==
    /\ restarts < MaxRestarts
    /\ restarts' = restarts + 1
    /\ busy' = [a \in Agents |-> {}]
    /\ session' = [k \in DOMAIN session |-> None]
    /\ activating' = {} /\ mediaAgents' = {}
    /\ proc' = [p \in Procs |-> Idle]
    /\ UNCHANGED <<database, gateway>>

-----------------------------------------------------------------------------
Arrival(p) ==
    \/ \E cl \in Clients, c \in Calls :
          \/ \E to \in Agents : RequestTransfer(p, cl, c, to)
          \/ ClaimCall(p, cl, c)
          \/ TerminateCall(p, cl, c)
    \/ \E cl \in Clients, t \in Transfers :
          \/ AcceptTransfer(p, cl, t)
          \/ RejectTransfer(p, cl, t)
          \/ CancelTransfer(p, cl, t)
          \/ JoinMedia(p, cl, t)
          \/ MediaReady(p, cl, t)
    \/ \E c \in Calls : CallTerminated(p, c)

Step(p) ==
    \/ FindTarget(p) \/ CreateTransfer(p)
    \/ TransitionAccepted(p) \/ TransitionLate(p)
    \/ CloseTransfer(p) \/ DropTarget(p)
    \/ JoinAgent(p)
    \/ FindActive(p) \/ FindTransfer(p) \/ WaitForAgentReady(p)
    \/ SetCurrentAgent(p) \/ CommitHandover(p) \/ RollBack(p) \/ RemoveSource(p)
    \/ ClaimSession(p)
    \/ UpdateEnded(p) \/ CloseMedia(p) \/ ListOpen(p) \/ CancelOpen(p)

Next ==
    \/ \E p \in Requests : Arrival(p)
    \/ \E p \in Procs : Step(p)
    \/ \E t \in Transfers : Deadline(t) \/ \E p \in Procs : ExpireDue(p, t)
    \/ Restart

Spec == Init /\ [][Next]_vars

(* Every await is answered (a database statement or a call with a timeout),*)
(* the worker's interval keeps firing, and time passes.  No agent has to   *)
(* do anything.                                                            *)
Fairness ==
    /\ \A p \in Procs : WF_vars(Step(p))
    /\ \A t \in Transfers : /\ WF_vars(Deadline(t))
                           /\ WF_vars(\E p \in Procs : ExpireDue(p, t))

FairSpec == Spec /\ Fairness

=============================================================================
