-------------------------- MODULE CallControlProps --------------------------
(***************************************************************************)
(* What CallControl must satisfy.  A row that was terminal and is live     *)
(* again (README, other divergences) gives up the other guarantees: the     *)
(* invariants speak about the rows that were not reopened.                 *)
(***************************************************************************)
EXTENDS CallControl

PCs == {"idle", "create", "connect", "prepare", "prepare_failed", "status",
        "create_ended", "end", "close_media", "forget", "claim", "reject_meta",
        "reject", "terminate_meta", "terminate", "join_claim", "join",
        "find_active", "find_call", "wait_agent", "recheck", "pre_accept",
        "meta_ready", "recheck_accept", "accept", "meta_ready_again",
        "set_current", "recheck_active", "activate", "fail_remove", "fail_find",
        "fail_meta", "fail_close", "fail_update", "out_agent", "out_conv",
        "out_meta", "out_bind", "out_create"}

ProcRecord == [pc : PCs, by : Agents \cup {None}, call : Calls \cup {None},
               conv : Conversations \cup {None}, agent : Agents \cup {None},
               to : CallStatus, stage : {"none", "pre", "accepted"}]

CallRow == [status : CallStatus, agent : Agents \cup {None}, last : 0..8]
MediaSession == [open : BOOLEAN, agents : SUBSET Agents, current : Agents \cup {None}]

WorldOK ==
    /\ call \in [Calls -> CallRow]
    /\ meta \in [Calls -> {"none", "ringing", "accepted", "over"}]
    /\ due \in [Calls -> SUBSET Events]
    /\ media \in [Calls -> MediaSession]

MemoryOK ==
    /\ session \in [Calls -> Agents \cup {None}]
    /\ busy \in [Agents -> SUBSET Calls]
    /\ activating \subseteq Calls /\ mediaAgents \subseteq Agents
    /\ outgoingAgents \subseteq Agents /\ outgoingConversations \subseteq Conversations
    /\ restarts \in 0..MaxRestarts

(* Every variable has the shape the code gives it.                         *)
TypeOK ==
    /\ WorldOK /\ MemoryOK
    /\ proc \in [Requests -> ProcRecord]
    /\ past \in [Calls -> {"open", "over", "reopened"}]

Current(c) == Live(c) /\ past[c] = "open"
Quiet(c) == \A p \in Requests : proc[p].call # c

(* No agent has two calls, be they calls it answers or calls it makes: the *)
(* look-up of its active call (mediaReady, initiate) and the write that    *)
(* gives it the call are several awaits apart, and only the locks that the *)
(* two handlers share keep them from overlapping.                          *)
OneLiveCallPerAgent ==
    \A c, d \in Calls :
        /\ Current(c) /\ Current(d)
        /\ call[c].agent = call[d].agent /\ call[c].agent # None
        => c = d

(* A conversation has at most one outbound call, although a webhook may    *)
(* create the row before initiate does.  A restart forgets the lock of the *)
(* conversation while the call goes on at Meta, so this is said of the API *)
(* process up to then.                                                     *)
ConversationsAreSingle ==
    \A c, d \in Outbound :
        Current(c) /\ Current(d) /\ ConvOf[c] = ConvOf[d] => c = d

OneOutboundPerConversation == restarts = 0 => ConversationsAreSingle

(* A customer whose call was accepted at Meta is in conversation: the row  *)
(* is active and the responsible agent is the one that the gateway lets be *)
(* heard.  Every error path of mediaReady after the acceptance hangs up;   *)
(* a restart between the two leaves nobody who would.                      *)
AnsweredCallIsServed ==
    \A c \in Calls :
        restarts = 0 /\ Inbound(c) /\ meta[c] = "accepted" /\ Quiet(c) =>
            /\ call[c].status = "ACTIVE" /\ call[c].agent # None
            /\ media[c].current = call[c].agent

(* The browser that owns a call belongs to the responsible agent, whatever *)
(* claims and joins of other agents were under way when it was activated   *)
(* (a restart empties the store while the browsers stay connected).        *)
SessionFollowsAgent ==
    \A c \in Calls :
        restarts = 0 /\ Current(c) /\ call[c].agent # None =>
            session[c] \in {None, call[c].agent}

(* Once Meta's terminate is recorded and nothing of the call is under way  *)
(* any more, no agent is left marked busy for it, although the clean-up of *)
(* a hang-up and an activation each work with what they read before their  *)
(* awaits.                                                                 *)
EndedCallFreesAgent ==
    \A c \in Calls :
        /\ past[c] = "over" /\ call[c].last = Time("terminate") /\ Quiet(c)
        => \A a \in Agents : c \notin busy[a]

(* The locks of mediaReady and initiate are released on every path.        *)
LocksAreReleased ==
    /\ \A c \in Calls : c \in activating ~> c \notin activating
    /\ \A a \in Agents : a \in mediaAgents \cup outgoingAgents
                            ~> a \notin mediaAgents \cup outgoingAgents
    /\ \A v \in Conversations : v \in outgoingConversations
                            ~> v \notin outgoingConversations

-----------------------------------------------------------------------------
(***************************************************************************)
(* The inductive invariants behind TypeOK and OneLiveCallPerAgent.         *)
(***************************************************************************)
(* Where mediaReady and initiate hold their locks, and where they have     *)
(* seen that their agent has no other call.                                *)
Serving == {"find_active", "find_call", "wait_agent", "recheck", "pre_accept",
            "meta_ready", "recheck_accept", "accept", "meta_ready_again",
            "set_current", "recheck_active", "activate", "fail_remove",
            "fail_find", "fail_meta", "fail_close", "fail_update"}
Calling == {"out_agent", "out_conv", "out_meta", "out_bind", "out_create"}
ServingAlone == Serving \ {"find_active"}
CallingAlone == Calling \ {"out_agent"}

(* A request blocked on an await still names what it works on.             *)
RequestOK(p) ==
    LET r == proc[p] IN
    /\ r.pc \notin {"idle", "out_agent", "out_conv", "out_meta"} => r.call \in Calls
    /\ r.pc \in {"claim", "join_claim", "join"} \cup Serving \cup Calling => r.by \in Agents
    /\ r.pc \in Calling => r.conv \in Conversations
    /\ r.pc = "status" => r.to \in {"RINGING", "ACTIVE", "REJECTED"}
    /\ r.pc = "end" => r.to \in TERMINAL

TypeInv == TypeOK /\ \A p \in Requests : RequestOK(p)

(* past says the truth, and a call without a row has no agent.             *)
RowsInv ==
    \A c \in Calls :
        /\ call[c].status = "NONE" => call[c].agent = None
        /\ past[c] = "open" => ~Over(c)

(* Requests that hold the locks of an agent are alone, and what they saw   *)
(* of the agent's calls stays true.                                        *)
Holds(p) == proc[p].pc \in Serving \cup Calling

LockInv ==
    \A p \in Requests :
        /\ proc[p].pc \in Serving => proc[p].by \in mediaAgents
        /\ proc[p].pc \in Calling => proc[p].by \in outgoingAgents
        /\ \A q \in Requests : Holds(p) /\ Holds(q) /\ q # p => proc[q].by # proc[p].by
        /\ \A c \in Calls : Current(c) /\ call[c].agent = proc[p].by =>
              /\ proc[p].pc \in ServingAlone => c = proc[p].call
              /\ proc[p].pc \notin CallingAlone

HoldersInv == RowsInv /\ OneLiveCallPerAgent /\ LockInv

-----------------------------------------------------------------------------
(***************************************************************************)
(* The inductive invariants behind the other four.                         *)
(***************************************************************************)
Connecting == ServingAlone \ {"find_call"}
Answering == {"meta_ready", "recheck_accept", "accept", "meta_ready_again",
              "set_current", "recheck_active", "activate"}
Preparing == {"prepare", "prepare_failed"}
Closing == {"close_media", "forget"}
Seen == {"connect", "status", "end", "claim", "reject_meta", "reject",
         "terminate_meta", "terminate", "join_claim", "join"}
            \cup Closing \cup Preparing \cup Connecting

Working(p, pcs, c) == proc[p].pc \in pcs /\ proc[p].call = c

(* One mediaReady at a time works on a call.                               *)
ActivationInv ==
    \A p \in Requests : proc[p].pc \in Serving =>
        /\ proc[p].call \in activating
        /\ \A q \in Requests : Working(q, Serving, proc[p].call) => q = p

(* What a request has seen of its call stays true.                         *)
ProgressInv ==
    \A p \in Requests : LET r == proc[p] IN
        /\ r.pc \in Seen => call[r.call].status # "NONE"
        /\ r.pc \in Closing => past[r.call] # "open"
        /\ r.pc \in Answering => Inbound(r.call)

(* Who is marked busy for a call is its agent, and an end that Meta        *)
(* reported leaves a request that will clear the mark.                     *)
MarksInv ==
    \A c \in Calls : past[c] # "reopened" =>
        /\ \A a \in Agents : c \in busy[a] => call[c].agent = a
        /\ \A p \in Requests : Working(p, Connecting, c) => call[c].agent \in {None, proc[p].by}
        /\ call[c].last = Time("terminate") =>
              /\ past[c] # "open"
              /\ \A a \in Agents : c \in busy[a] =>
                    \E p \in Requests : Working(p, {"close_media"}, c) /\ proc[p].agent = a

EndInv == ActivationInv /\ ProgressInv /\ MarksInv

(* What has a row, or a webhook on its way, is a call that Meta knows.      *)
Making == {"out_bind", "out_create"}

KnownInv ==
    /\ \A p \in Requests : LET r == proc[p] IN
          /\ r.pc \in {"create", "create_ended"} \cup Making => meta[r.call] # "none"
          /\ r.pc \in Making => r.call \in Outbound /\ ConvOf[r.call] = r.conv
    /\ \A c \in Calls : meta[c] = "none" => due[c] = {} /\ call[c].status = "NONE"

(* A call that Meta knows and the database does not is being made by a     *)
(* request that holds the lock of its conversation; while a request makes  *)
(* a call, its conversation has no other.                                  *)
LineInv ==
    \A p \in Requests : LET r == proc[p] IN r.pc \in Calling =>
        /\ r.conv \in outgoingConversations
        /\ \A q \in Requests : proc[q].pc \in Calling /\ proc[q].conv = r.conv => q = p

ConversationInv ==
    /\ \A p \in Requests : LET r == proc[p] IN r.pc \in {"out_meta"} \cup Making =>
          \A c \in Outbound : Current(c) /\ ConvOf[c] = r.conv => r.pc \in Making /\ c = r.call
    /\ \A c \in Outbound : meta[c] # "none" /\ call[c].status = "NONE" =>
          \E p \in Requests : Working(p, Making, c)

OutboundInv == ConversationsAreSingle /\ LineInv /\ ConversationInv

(* While a call was never over, the key of an inbound call belongs to the  *)
(* agent whose browser joined it, and the key of an outbound call to the   *)
(* agent who makes it.                                                     *)
KeysInv ==
    \A c \in Calls :
        /\ past[c] = "open" /\ call[c].agent # None => session[c] = call[c].agent
        /\ past[c] = "open" /\ Inbound(c) =>
              /\ \A a \in media[c].agents : session[c] = a
              /\ \A p \in Requests :
                    Working(p, {"join", "recheck", "pre_accept"} \cup Answering, c) =>
                        session[c] = proc[p].by
        /\ \A p \in Requests : Working(p, Making, c) =>
              /\ call[c].agent = None
              /\ \A q \in Requests : Working(q, Making, c) => q = p
              /\ proc[p].pc = "out_create" /\ call[c].status = "NONE" => session[c] = proc[p].by

(* An inbound call that was accepted at Meta is in the hands of the one    *)
(* mediaReady that accepted it, until it is active or hung up; and who     *)
(* works on its end does so because it is over at Meta.                    *)
Accepted == {"meta_ready_again", "set_current", "recheck_active", "activate",
             "fail_remove", "fail_find", "fail_meta"}
Joined == Connecting \ {"wait_agent"}

InHand(c) ==
    \E p \in Requests :
        /\ Working(p, Accepted, c) /\ proc[p].stage = "accepted"
        /\ proc[p].pc \in {"recheck_active", "activate"} => media[c].current = proc[p].by

InConversation(c) ==
    /\ call[c].status = "ACTIVE" /\ call[c].agent # None
    /\ media[c].current = call[c].agent

EndedAtMeta == {"create_ended", "end", "reject", "terminate", "fail_close", "fail_update"}
                   \cup Closing

TaskOK(p) ==
    LET r == proc[p] IN
    /\ r.pc \notin {"connect", "status"}
    /\ r.pc \in EndedAtMeta => meta[r.call] = "over"
    /\ r.pc \in Preparing \cup Connecting => call[r.call].status # "ACTIVE"
    /\ r.pc \in Joined \ {"recheck"} /\ Over(r.call) => meta[r.call] = "over"
    /\ r.pc \in Serving /\ r.stage # "none" => meta[r.call] # "none"
    /\ r.pc = "fail_meta" => r.stage # "none"

PreparedAlone(p) ==
    proc[p].pc \in Preparing =>
        /\ ~ media[proc[p].call].open
        /\ \A q \in Requests :
              /\ ~ Working(q, Joined, proc[p].call)
              /\ Working(q, Preparing, proc[p].call) => q = p

ServiceOf(c) ==
    /\ meta[c] = "accepted" => InHand(c) \/ InConversation(c)
    /\ due[c] \subseteq {"connect", "terminate"}
    /\ "terminate" \in due[c] => meta[c] = "over"
    /\ call[c].status = "NONE" => ~ media[c].open
    /\ ~ media[c].open => media[c].agents = {}
    /\ \A p \in Requests : proc[p].call = c => TaskOK(p) /\ PreparedAlone(p)

ServiceInv == \A c \in Calls : Inbound(c) => ServiceOf(c)
=============================================================================
