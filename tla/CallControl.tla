---------------------------- MODULE CallControl ----------------------------
(***************************************************************************)
(* The life of a call: Meta's webhooks and the agents' requests in         *)
(* call.service.js (media gateway enabled, channel without IVR), on the    *)
(* Call rows, the locks of mediaReady and initiate, the session store and  *)
(* the presence marks.  Transfers of a call that is in conversation are in *)
(* CallTransfer.                                                           *)
(*                                                                         *)
(* As there, an action is the answer to one await and the code up to the   *)
(* next one.  Webhooks are processed after their HTTP answer, so that Meta *)
(* never waits for one before it sends the next.                           *)
(***************************************************************************)
EXTENDS Naturals, FiniteSets

CONSTANTS Agents,        \* an agent uses one browser here
          Calls, Conversations,
          ConvOf,        \* ConvOf[c]: the conversation of call c
          Outbound,      \* the calls the business makes; the others come in
          Requests,      \* HTTP requests and webhooks in flight at once
          Endpoints,     \* the requests an instance exercises
          Webhooks,      \* the webhooks it exercises
          None,
          Redelivery,    \* TRUE: Meta may send a webhook more than once
          Faults,        \* TRUE: a call of Meta or of the gateway may take
                         \* effect without an answer, and a clean-up may fail
          MaxRestarts    \* bounds the restarts of the API process

AllEndpoints == {"claim", "joinMedia", "mediaReady", "reject", "terminate",
                 "initiate"}

Events == {"connect", "ringing", "accepted", "rejected", "terminate"}

ASSUME ConstantsAssumption ==
    /\ ConvOf \in [Calls -> Conversations]
    /\ Outbound \subseteq Calls
    /\ None \notin Agents \cup Calls \cup Conversations
    /\ Endpoints \subseteq AllEndpoints /\ Webhooks \subseteq Events
    /\ Redelivery \in BOOLEAN /\ Faults \in BOOLEAN
    /\ MaxRestarts \in Nat

VARIABLES
    call,        \* call[c]: status, currentAgentId, lastEventAt of the row
    meta,        \* meta[c]: the call as Meta knows it
    due,         \* due[c]: webhooks of c on their way
    media,       \* media[c]: the gateway's session for c
    session,     \* session[c]: the agent whose browser owns call c
    busy,        \* busy[a]: the calls agent a is marked busy for
    activating, mediaAgents,               \* the locks of mediaReady
    outgoingAgents, outgoingConversations, \* the locks of initiate
    proc,        \* proc[p]: where request p is
    past,        \* past[c]: whether the row was terminal once (history)
    restarts

world == <<meta, due>>
memory == <<session, busy>>
mediaLocks == <<activating, mediaAgents>>
outLocks == <<outgoingAgents, outgoingConversations>>
locks == <<mediaLocks, outLocks>>
vars == <<call, meta, due, media, session, busy, activating, mediaAgents,
          outgoingAgents, outgoingConversations, proc, past, restarts>>

(* RINGING stands for RINGING and CONNECTING, which no check separates;    *)
(* ENDED for what a terminate webhook or the agent's hang-up records;      *)
(* REJECTED for REJECTED, FAILED and BUSY, which a later terminate webhook *)
(* keeps.                                                                  *)
TERMINAL == {"ENDED", "REJECTED"}
LIVE == {"RINGING", "ACTIVE"}
CallStatus == {"NONE"} \cup LIVE \cup TERMINAL

(* Meta's timestamps are even, the API's clock odd.                        *)
Time(e) == CASE e = "connect" -> 2 [] e = "ringing" -> 4
             [] e \in {"accepted", "rejected"} -> 6 [] e = "terminate" -> 8
Mapped(e) == CASE e = "ringing" -> "RINGING" [] e = "accepted" -> "ACTIVE"
               [] e = "rejected" -> "REJECTED"

NoRow == [status |-> "NONE", agent |-> None, last |-> 0]
Closed == [open |-> FALSE, agents |-> {}, current |-> None]
Idle == [pc |-> "idle", by |-> None, call |-> None, conv |-> None,
         agent |-> None, to |-> "NONE", stage |-> "none"]

Live(c) == call[c].status \in LIVE
Over(c) == call[c].status \in TERMINAL
Inbound(c) == c \notin Outbound

(* findActiveByAgent and findActiveByConversation.                         *)
LiveOf(a) == {c \in Calls : Live(c) /\ call[c].agent = a}
LiveIn(v) == {c \in Calls : Live(c) /\ ConvOf[c] = v}

(* getCallForControl: the session store, then the responsible agent.       *)
Control(c, a) ==
    /\ session[c] \in {None, a}
    /\ call[c].agent \in {None, a}

-----------------------------------------------------------------------------
At(p, pc) == proc[p].pc = pc
Goto(p, pc) == proc' = [proc EXCEPT ![p].pc = pc]
Finish(p) == proc' = [proc EXCEPT ![p] = Idle]

MayStart(p, endpoint) == endpoint \in Endpoints /\ proc[p] = Idle
Start(p, pc, a, c) ==
    proc' = [proc EXCEPT ![p] = [Idle EXCEPT !.pc = pc, !.by = a, !.call = c,
                                             !.agent = call[c].agent]]

Init ==
    /\ call = [c \in Calls |-> NoRow]
    /\ meta = [c \in Calls |-> "none"]
    /\ due = [c \in Calls |-> {}]
    /\ media = [c \in Calls |-> Closed]
    /\ session = [c \in Calls |-> None]
    /\ busy = [a \in Agents |-> {}]
    /\ activating = {} /\ mediaAgents = {}
    /\ outgoingAgents = {} /\ outgoingConversations = {}
    /\ proc = [p \in Requests |-> Idle]
    /\ past = [c \in Calls |-> "open"]
    /\ restarts = 0

-----------------------------------------------------------------------------
(***************************************************************************)
(* Meta and the customer.                                                  *)
(***************************************************************************)
Post(c, status, events) ==
    /\ meta' = [meta EXCEPT ![c] = status]
    /\ due' = [due EXCEPT ![c] = @ \cup (events \cap Webhooks)]

Customer(c) ==
    /\ \/ Inbound(c) /\ meta[c] = "none" /\ Post(c, "ringing", {"connect"})
       \/ meta[c] \in {"ringing", "accepted"} /\ Post(c, "over", {"terminate"})
       \/ c \in Outbound /\ meta[c] = "ringing" /\ Post(c, "accepted", {"accepted"})
       \/ c \in Outbound /\ meta[c] = "ringing" /\ Post(c, "over", {"rejected", "terminate"})
    /\ UNCHANGED <<call, media, memory, locks, proc, restarts>>

(* What a call of Meta's API does; Meta refuses what does not fit.         *)
HangUp(c, from) ==
    IF meta[c] \in from THEN Post(c, "over", {"terminate"}) ELSE UNCHANGED world

-----------------------------------------------------------------------------
(***************************************************************************)
(* Webhooks: each reads the row, then writes it without looking again.     *)
(***************************************************************************)
Deliver(p, c, e) ==
    /\ proc[p] = Idle
    /\ e \in due[c]
    /\ \/ due' = [due EXCEPT ![c] = @ \ {e}]
       \/ Redelivery /\ UNCHANGED due
    /\ UNCHANGED <<call, meta, media, memory, locks, restarts>>

Connect(p, c) ==
    /\ Deliver(p, c, "connect")
    /\ \/ call[c].status = "NONE" /\ Start(p, "create", None, c)
       \/ /\ call[c].status = "RINGING" /\ c \in Outbound
          /\ call[c].last # Time("connect")
          /\ Start(p, "connect", None, c)
       \/ /\ \/ call[c].status \in TERMINAL \cup {"ACTIVE"}
             \/ call[c].status = "RINGING" /\ (Inbound(c) \/ call[c].last = Time("connect"))
          /\ UNCHANGED proc

(* The row's metaCallId is unique: the second create fails (P2002).        *)
CreateRow(p) ==
    LET c == proc[p].call IN
    /\ At(p, "create")
    /\ IF call[c].status = "NONE"
         THEN /\ call' = [call EXCEPT ![c] = [status |-> "RINGING", agent |-> None,
                                              last |-> Time("connect")]]
              /\ Goto(p, "prepare")
         ELSE Finish(p) /\ UNCHANGED call
    /\ UNCHANGED <<world, media, memory, locks, restarts>>

UpdateConnecting(p) ==
    LET c == proc[p].call IN
    /\ At(p, "connect")
    /\ call' = [call EXCEPT ![c].status = "RINGING", ![c].last = Time("connect")]
    /\ Goto(p, "prepare")
    /\ UNCHANGED <<world, media, memory, locks, restarts>>

(* prepareInbound opens the session; setMetaAnswer needs the one that      *)
(* initiate has bound to the call.                                         *)
PrepareMedia(p) ==
    LET c == proc[p].call IN
    /\ At(p, "prepare")
    /\ \/ Inbound(c) /\ ~media[c].open
          /\ media' = [media EXCEPT ![c].open = TRUE] /\ Finish(p)
       \/ c \in Outbound /\ media[c].open /\ UNCHANGED media /\ Finish(p)
       \/ UNCHANGED media /\ Goto(p, "prepare_failed")
    /\ UNCHANGED <<call, world, memory, locks, restarts>>

PrepareFailed(p) ==
    LET c == proc[p].call IN
    /\ At(p, "prepare_failed")
    /\ call' = [call EXCEPT ![c].status = "REJECTED"]
    /\ session' = [session EXCEPT ![c] = None]
    /\ Finish(p)
    /\ UNCHANGED <<world, media, busy, locks, restarts>>

(* processCallStatus: terminal and older events are dropped.               *)
FreshStatus(c, e) ==
    /\ Live(c)
    /\ Time(e) >= call[c].last
    /\ ~(call[c].status = "ACTIVE" /\ e = "ringing")
    /\ ~(call[c].status = Mapped(e) /\ call[c].last = Time(e))

Status(p, c, e) ==
    /\ e \in {"ringing", "accepted", "rejected"}
    /\ Deliver(p, c, e)
    /\ IF FreshStatus(c, e)
         THEN proc' = [proc EXCEPT ![p] = [Idle EXCEPT !.pc = "status", !.call = c,
                                                       !.to = Mapped(e)]]
         ELSE UNCHANGED proc

UpdateStatus(p) ==
    LET r == proc[p] IN
    /\ At(p, "status")
    /\ call' = [call EXCEPT ![r.call].status = r.to,
                            ![r.call].last = IF r.to = "RINGING" THEN 4 ELSE 6]
    /\ IF r.to = "REJECTED"
         THEN proc' = [proc EXCEPT ![p].pc = "close_media", ![p].agent = call[r.call].agent]
         ELSE Finish(p)
    /\ UNCHANGED <<world, media, memory, locks, restarts>>

(* A terminate webhook creates the row when it is the first to arrive.     *)
Terminate(p, c) ==
    /\ Deliver(p, c, "terminate")
    /\ IF Over(c) /\ call[c].last = Time("terminate")
         THEN UNCHANGED proc
         ELSE proc' = [proc EXCEPT ![p] =
                 [Idle EXCEPT !.pc = IF call[c].status = "NONE" THEN "create_ended" ELSE "end",
                              !.call = c,
                              !.to = IF call[c].status = "REJECTED" THEN "REJECTED" ELSE "ENDED"]]

CreateEnded(p) ==
    LET c == proc[p].call IN
    /\ At(p, "create_ended")
    /\ IF call[c].status = "NONE"
         THEN /\ call' = [call EXCEPT ![c] = [status |-> "ENDED", agent |-> None,
                                              last |-> Time("terminate")]]
              /\ Goto(p, "close_media")
         ELSE Finish(p) /\ UNCHANGED call
    /\ UNCHANGED <<world, media, memory, locks, restarts>>

UpdateTerminated(p) ==
    LET r == proc[p] IN
    /\ At(p, "end")
    /\ call' = [call EXCEPT ![r.call].status = r.to, ![r.call].last = Time("terminate")]
    /\ proc' = [proc EXCEPT ![p].pc = "close_media", ![p].agent = call[r.call].agent]
    /\ UNCHANGED <<world, media, memory, locks, restarts>>

CloseMediaOnly(p) ==
    /\ At(p, "close_media")
    /\ media' = [media EXCEPT ![proc[p].call] = Closed]
    /\ Goto(p, "forget")
    /\ UNCHANGED <<call, world, memory, locks, restarts>>

(* The end of a call: close its media, clear the agent the request knows,  *)
(* cancel its transfers; emitCall then drops the session key.              *)
CloseMedia(p) ==
    LET r == proc[p] IN
    /\ At(p, "close_media")
    /\ media' = [media EXCEPT ![r.call] = Closed]
    /\ busy' = [a \in Agents |-> IF a = r.agent THEN busy[a] \ {r.call} ELSE busy[a]]
    /\ Goto(p, "forget")
    /\ UNCHANGED <<call, world, session, locks, restarts>>

Forget(p) ==
    /\ At(p, "forget")
    /\ session' = [session EXCEPT ![proc[p].call] = None]
    /\ Finish(p)
    /\ UNCHANGED <<call, world, media, busy, locks, restarts>>

-----------------------------------------------------------------------------
(***************************************************************************)
(* claim, reject and terminate, by an agent.                               *)
(***************************************************************************)
ClaimCall(p, a, c) ==
    /\ MayStart(p, "claim") /\ Control(c, a) /\ Live(c)
    /\ Start(p, "claim", a, c)
    /\ UNCHANGED <<call, world, media, memory, locks, restarts>>

RejectCall(p, a, c) ==
    /\ MayStart(p, "reject") /\ Control(c, a)
    /\ Inbound(c) /\ call[c].status = "RINGING"
    /\ Start(p, "reject_meta", a, c)
    /\ UNCHANGED <<call, world, media, memory, locks, restarts>>

TerminateCall(p, a, c) ==
    /\ MayStart(p, "terminate") /\ Control(c, a) /\ Live(c)
    /\ Start(p, "terminate_meta", a, c)
    /\ UNCHANGED <<call, world, media, memory, locks, restarts>>

Claim(p) ==
    LET r == proc[p] IN
    /\ At(p, "claim")
    /\ session' = IF session[r.call] = None THEN [session EXCEPT ![r.call] = r.by]
                                            ELSE session
    /\ Finish(p)
    /\ UNCHANGED <<call, world, media, busy, locks, restarts>>

(* An error of Meta ends the request and changes nothing.                  *)
AskMeta(p) ==
    LET c == proc[p].call IN
    /\ \/ /\ At(p, "reject_meta") /\ meta[c] = "ringing"
          /\ Post(c, "over", {"terminate"})
          /\ Goto(p, "reject")
       \/ /\ At(p, "terminate_meta") /\ meta[c] \in {"ringing", "accepted"}
          /\ Post(c, "over", {"terminate"})
          /\ Goto(p, "terminate")
       \/ /\ proc[p].pc \in {"reject_meta", "terminate_meta"}
          /\ UNCHANGED world /\ Finish(p)
    /\ UNCHANGED <<call, media, memory, locks, restarts>>

UpdateByAgent(p) ==
    /\ proc[p].pc \in {"reject", "terminate"}
    /\ call' = [call EXCEPT ![proc[p].call].status =
                   IF At(p, "reject") THEN "REJECTED" ELSE "ENDED"]
    /\ Goto(p, "close_media")
    /\ UNCHANGED <<world, media, memory, locks, restarts>>

-----------------------------------------------------------------------------
(***************************************************************************)
(* joinMedia and mediaReady of a new call.                                 *)
(***************************************************************************)
JoinMedia(p, a, c) ==
    /\ MayStart(p, "joinMedia") /\ Control(c, a)
    /\ call[c].status = "RINGING" /\ call[c].agent = None
    /\ Start(p, "join_claim", a, c)
    /\ UNCHANGED <<call, world, media, memory, locks, restarts>>

JoinUnclaimed(p) ==
    /\ At(p, "join_claim")
    /\ Goto(p, "join")
    /\ UNCHANGED <<call, world, media, memory, locks, restarts>>

JoinClaim(p) ==
    LET r == proc[p] IN
    /\ At(p, "join_claim")
    /\ IF session[r.call] \in {None, r.by}
         THEN session' = [session EXCEPT ![r.call] = r.by] /\ Goto(p, "join")
         ELSE UNCHANGED session /\ Finish(p)
    /\ UNCHANGED <<call, world, media, busy, locks, restarts>>

JoinUnnamed(p) ==
    /\ At(p, "join")
    /\ media' = [media EXCEPT ![proc[p].call].agents = @ \cup {None}]
    /\ Finish(p)
    /\ UNCHANGED <<call, world, memory, locks, restarts>>

JoinAgent(p) ==
    LET r == proc[p] IN
    /\ At(p, "join")
    /\ media' = IF media[r.call].open
                  THEN [media EXCEPT ![r.call].agents = @ \cup {r.by}] ELSE media
    /\ Finish(p)
    /\ UNCHANGED <<call, world, memory, locks, restarts>>

MediaReady(p, a, c) ==
    /\ MayStart(p, "mediaReady")
    /\ c \notin activating
    /\ a \notin outgoingAgents \cup mediaAgents
    /\ activating' = activating \cup {c}
    /\ mediaAgents' = mediaAgents \cup {a}
    /\ Start(p, "find_active", a, c)
    /\ UNCHANGED <<call, world, media, memory, outLocks, restarts>>

Release(p) ==
    /\ activating' = activating \ {proc[p].call}
    /\ mediaAgents' = mediaAgents \ {proc[p].by}
    /\ UNCHANGED outLocks
    /\ Finish(p)

Continue(p, pc) == Goto(p, pc) /\ UNCHANGED locks
FailUncleaned(p) == Release(p)
Fail(p) == Continue(p, "fail_remove")

FindActive(p) ==
    LET r == proc[p] IN
    /\ At(p, "find_active")
    /\ IF LiveOf(r.by) \subseteq {r.call} THEN Continue(p, "find_call") ELSE Release(p)
    /\ UNCHANGED <<call, world, media, memory, restarts>>

(* An agent who already has the call gets it again: nothing is done twice. *)
FindCall(p) ==
    LET r == proc[p] IN
    /\ At(p, "find_call")
    /\ IF /\ Control(r.call, r.by)
          /\ call[r.call].status = "RINGING" /\ call[r.call].agent = None
         THEN Continue(p, "wait_agent") ELSE Release(p)
    /\ UNCHANGED <<call, world, media, memory, restarts>>

WaitForAgentReady(p) ==
    LET r == proc[p] IN
    /\ At(p, "wait_agent")
    /\ \/ r.by \in media[r.call].agents /\ Continue(p, "recheck")
       \/ Release(p)
    /\ UNCHANGED <<call, world, media, memory, restarts>>

(* The customer's peer is looked up (and repaired); that may fail.         *)
Recheck(p) ==
    LET r == proc[p] IN
    /\ At(p, "recheck")
    /\ \/ /\ Control(r.call, r.by) /\ call[r.call].status = "RINGING"
          /\ Continue(p, "pre_accept")
       \/ Release(p)
    /\ UNCHANGED <<call, world, media, memory, restarts>>

PreAccept(p) ==
    LET c == proc[p].call IN
    /\ At(p, "pre_accept")
    /\ \/ /\ Inbound(c) /\ meta[c] = "ringing"
          /\ proc' = [proc EXCEPT ![p].pc = "meta_ready", ![p].stage = "pre"]
          /\ UNCHANGED locks
       \/ Fail(p)
    /\ UNCHANGED <<call, world, media, memory, restarts>>

WaitForMetaReady(p) ==
    /\ \/ At(p, "meta_ready") /\ Continue(p, "recheck_accept")
       \/ At(p, "meta_ready_again") /\ Continue(p, "set_current")
       \/ proc[p].pc \in {"meta_ready", "meta_ready_again"} /\ Fail(p)
    /\ UNCHANGED <<call, world, media, memory, restarts>>

RecheckLive(p) ==
    LET r == proc[p]
        ok == Control(r.call, r.by) /\ Live(r.call) IN
    /\ \/ At(p, "recheck_accept") /\ ok /\ Continue(p, "accept")
       \/ At(p, "recheck_active") /\ ok /\ Continue(p, "activate")
       \/ proc[p].pc \in {"recheck_accept", "recheck_active"} /\ ~ok /\ Fail(p)
    /\ UNCHANGED <<call, world, media, memory, restarts>>

(* The third disjunct is an acceptance whose answer is lost.               *)
AcceptAtMeta(p) ==
    LET c == proc[p].call IN
    /\ At(p, "accept")
    /\ \/ /\ meta[c] = "ringing" /\ Post(c, "accepted", {})
          /\ proc' = [proc EXCEPT ![p].pc = "meta_ready_again", ![p].stage = "accepted"]
          /\ UNCHANGED locks
       \/ UNCHANGED world /\ Fail(p)
       \/ Faults /\ meta[c] = "ringing" /\ Post(c, "accepted", {}) /\ Fail(p)
    /\ UNCHANGED <<call, media, memory, restarts>>

SetCurrentAgent(p) ==
    LET r == proc[p]
        Switched == media' = [media EXCEPT ![r.call].current = r.by] IN
    /\ At(p, "set_current")
    /\ \/ r.by \in media[r.call].agents /\ Switched /\ Continue(p, "recheck_active")
       \/ UNCHANGED media /\ Fail(p)
       \/ Faults /\ r.by \in media[r.call].agents /\ Switched /\ Fail(p)
    /\ UNCHANGED <<call, world, memory, restarts>>

(* The row is written without looking at it again.                         *)
Activate(p) ==
    LET r == proc[p] IN
    /\ At(p, "activate")
    /\ call' = [call EXCEPT ![r.call].status = "ACTIVE", ![r.call].agent = r.by]
    /\ busy' = [busy EXCEPT ![r.by] = @ \cup {r.call}]
    /\ Release(p)
    /\ UNCHANGED <<world, media, session, restarts>>

(* The clean-up of a call that could not be connected.                     *)
FailRemove(p) ==
    LET r == proc[p] IN
    /\ At(p, "fail_remove")
    /\ \/ media' = [media EXCEPT ![r.call].agents = @ \ {r.by},
                                 ![r.call].current = IF @ = r.by THEN None ELSE @]
       \/ Faults /\ UNCHANGED media
    /\ Continue(p, "fail_find")
    /\ UNCHANGED <<call, world, memory, restarts>>

FailFind(p) ==
    /\ At(p, "fail_find")
    /\ IF proc[p].stage # "none" /\ ~Over(proc[p].call)
         THEN Continue(p, "fail_meta") ELSE Release(p)
    /\ UNCHANGED <<call, world, media, memory, restarts>>

FailMeta(p) ==
    LET r == proc[p] IN
    /\ At(p, "fail_meta")
    /\ \/ HangUp(r.call, IF r.stage = "accepted" THEN {"ringing", "accepted"} ELSE {"ringing"})
       \/ Faults /\ UNCHANGED world
    /\ Continue(p, "fail_close")
    /\ UNCHANGED <<call, media, memory, restarts>>

FailClose(p) ==
    /\ At(p, "fail_close")
    /\ \/ media' = [media EXCEPT ![proc[p].call] = Closed]
       \/ Faults /\ UNCHANGED media
    /\ Continue(p, "fail_update")
    /\ UNCHANGED <<call, world, memory, restarts>>

FailUpdate(p) ==
    LET c == proc[p].call IN
    /\ At(p, "fail_update")
    /\ call' = [call EXCEPT ![c].status = "REJECTED"]
    /\ session' = [session EXCEPT ![c] = None]
    /\ Release(p)
    /\ UNCHANGED <<world, media, busy, restarts>>

-----------------------------------------------------------------------------
(***************************************************************************)
(* initiate: an outbound call.                                             *)
(***************************************************************************)
OutgoingOnly(a) == a \notin outgoingAgents
AgentFree(a) == a \notin outgoingAgents \cup mediaAgents

AnyConversation(v) == TRUE
ConversationFree(v) == v \notin outgoingConversations

Initiate(p, a, v) ==
    /\ MayStart(p, "initiate")
    /\ AgentFree(a) /\ ConversationFree(v)
    /\ outgoingAgents' = outgoingAgents \cup {a}
    /\ outgoingConversations' = outgoingConversations \cup {v}
    /\ proc' = [proc EXCEPT ![p] = [Idle EXCEPT !.pc = "out_agent", !.by = a, !.conv = v]]
    /\ UNCHANGED <<call, world, media, memory, mediaLocks, restarts>>

OutLocked(p) == Finish(p) /\ UNCHANGED locks
OutRelease(p) ==
    /\ outgoingAgents' = outgoingAgents \ {proc[p].by}
    /\ outgoingConversations' = outgoingConversations \ {proc[p].conv}
    /\ UNCHANGED mediaLocks
    /\ Finish(p)

FindAgentCall(p) ==
    /\ At(p, "out_agent")
    /\ IF LiveOf(proc[p].by) = {} THEN Continue(p, "out_conv") ELSE OutRelease(p)
    /\ UNCHANGED <<call, world, media, memory, restarts>>

(* Then the permission is asked for and the media session is prepared:     *)
(* both belong to this request, and both may fail.                         *)
FindConversationCall(p) ==
    /\ At(p, "out_conv")
    /\ \/ LiveIn(proc[p].conv) = {} /\ Continue(p, "out_meta")
       \/ OutRelease(p)
    /\ UNCHANGED <<call, world, media, memory, restarts>>

InitiateAtMeta(p) ==
    /\ At(p, "out_meta")
    /\ \/ \E c \in Outbound :
              /\ ConvOf[c] = proc[p].conv /\ meta[c] = "none"
              /\ Post(c, "ringing", {"connect", "ringing"})
              /\ \/ /\ proc' = [proc EXCEPT ![p].pc = "out_bind", ![p].call = c]
                    /\ UNCHANGED locks
                 \/ Faults /\ OutRelease(p)
       \/ UNCHANGED world /\ OutRelease(p)
    /\ UNCHANGED <<call, media, memory, restarts>>

(* The media session gets the call's id; its key becomes the call's key.   *)
BindSession(p) ==
    LET r == proc[p] IN
    /\ At(p, "out_bind")
    /\ \/ /\ media' = [media EXCEPT ![r.call] = [open |-> TRUE, agents |-> {r.by},
                                                 current |-> r.by]]
          /\ session' = [session EXCEPT ![r.call] = r.by]
          /\ Continue(p, "out_create")
       \/ Faults /\ UNCHANGED <<media, session>> /\ OutRelease(p)
    /\ UNCHANGED <<call, world, busy, restarts>>

(* A webhook that overtook this statement has created the row without an   *)
(* agent: the create fails, and the request with it.                       *)
CreateOutbound(p) ==
    LET r == proc[p] IN
    /\ At(p, "out_create")
    /\ IF call[r.call].status = "NONE"
         THEN /\ \E now \in {1, 5, 7} :
                     call' = [call EXCEPT ![r.call] = [status |-> "RINGING",
                                                       agent |-> r.by, last |-> now]]
              /\ busy' = [busy EXCEPT ![r.by] = @ \cup {r.call}]
         ELSE UNCHANGED <<call, busy>>
    /\ OutRelease(p)
    /\ UNCHANGED <<world, media, session, restarts>>

(* The API process restarts; rows, gateway and Meta go on.                 *)
Restart ==
    /\ restarts < MaxRestarts
    /\ restarts' = restarts + 1
    /\ session' = [c \in Calls |-> None]
    /\ busy' = [a \in Agents |-> {}]
    /\ activating' = {} /\ mediaAgents' = {}
    /\ outgoingAgents' = {} /\ outgoingConversations' = {}
    /\ proc' = [p \in Requests |-> Idle]
    /\ UNCHANGED <<call, world, media>>

-----------------------------------------------------------------------------
Arrival(p) ==
    \/ \E c \in Calls :
          \/ Connect(p, c)
          \/ \E e \in Events : Status(p, c, e)
          \/ Terminate(p, c)
          \/ \E a \in Agents :
                \/ ClaimCall(p, a, c) \/ RejectCall(p, a, c) \/ TerminateCall(p, a, c)
                \/ JoinMedia(p, a, c) \/ MediaReady(p, a, c)
    \/ \E a \in Agents, v \in Conversations : Initiate(p, a, v)

Step(p) ==
    \/ CreateRow(p) \/ UpdateConnecting(p) \/ PrepareMedia(p) \/ PrepareFailed(p)
    \/ UpdateStatus(p) \/ CreateEnded(p) \/ UpdateTerminated(p)
    \/ CloseMedia(p) \/ Forget(p)
    \/ Claim(p) \/ AskMeta(p) \/ UpdateByAgent(p)
    \/ JoinClaim(p) \/ JoinAgent(p)
    \/ FindActive(p) \/ FindCall(p) \/ WaitForAgentReady(p) \/ Recheck(p)
    \/ PreAccept(p) \/ WaitForMetaReady(p) \/ RecheckLive(p) \/ AcceptAtMeta(p)
    \/ SetCurrentAgent(p) \/ Activate(p)
    \/ FailRemove(p) \/ FailFind(p) \/ FailMeta(p) \/ FailClose(p) \/ FailUpdate(p)
    \/ FindAgentCall(p) \/ FindConversationCall(p) \/ InitiateAtMeta(p)
    \/ BindSession(p) \/ CreateOutbound(p)

(* past remembers that a row was terminal, and that it became live again.  *)
Remember ==
    past' = [c \in Calls |->
                CASE past[c] = "open" /\ call'[c].status \in TERMINAL -> "over"
                  [] past[c] = "over" /\ call'[c].status \in LIVE -> "reopened"
                  [] OTHER -> past[c]]

Next ==
    /\ \/ \E c \in Calls : Customer(c)
       \/ \E p \in Requests : Arrival(p) \/ Step(p)
       \/ Restart
    /\ Remember

Spec == Init /\ [][Next]_vars

(* Every await is answered; nobody else has to do anything.                *)
FairSpec == Spec /\ \A p \in Requests : WF_vars(Step(p) /\ Remember)
=============================================================================
