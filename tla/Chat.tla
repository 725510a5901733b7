------------------------------- MODULE Chat -------------------------------
(***************************************************************************)
(* The chat: what the customers and Meta do, what arrives at the API       *)
(* (processWebhookPayload and the routes of conversations), and the steps  *)
(* of the handlers.                                                        *)
(***************************************************************************)
EXTENDS CallPermissions

Init ==
    /\ conv = [c \in Conversations |-> NoConversation]
    /\ msg = [w \in Messages |-> NoMessage]
    /\ perm = [c \in Conversations |-> NoPermission]
    /\ history = [c \in Conversations |-> NoHistory]
    /\ locked = {} /\ strays = {}
    /\ proc = [p \in Requests |-> Idle] /\ handled = 0
    /\ now = 1
    /\ wrote = [m \in Inbound |-> 0]
    /\ answer = [m \in Replies |-> "none"]
    /\ sent = [w \in Outbound |-> "none"]
    /\ allowed = [k \in Customers |-> [says |-> "no", until |-> 0]]

-----------------------------------------------------------------------------
(* Time passes, a customer writes, or replies to a request; Meta takes back *)
(* the permission of a customer who does not answer calls.                  *)
Tick == now < MaxTime /\ now' = now + 1 /\ UNCHANGED <<wrote, answer, allowed>>

Write(m) ==
    /\ wrote[m] = 0 /\ m \notin Replies
    /\ wrote' = [wrote EXCEPT ![m] = now]
    /\ UNCHANGED <<now, answer, allowed>>

Reply(m, a) ==
    /\ wrote[m] = 0 /\ m \in Replies
    /\ allowed[Author[m]].says = IF a = "revoke" THEN "yes" ELSE "asked"
    /\ wrote' = [wrote EXCEPT ![m] = now]
    /\ answer' = [answer EXCEPT ![m] = a]
    /\ allowed' = [allowed EXCEPT ![Author[m]] =
                      IF a = "accept" THEN [says |-> "yes", until |-> now + Window]
                      ELSE [says |-> "no", until |-> 0]]
    /\ UNCHANGED now

World ==
    /\ \/ Tick
       \/ \E m \in Inbound : Write(m)
       \/ \E m \in Inbound, a \in {"accept", "reject", "revoke"} : Reply(m, a)
    /\ UNCHANGED <<tables, locked, proc, handled, sent, strays>>

\* A webhook carries one thing here; Meta repeats it as often as it likes.
Webhook(p) ==
    \/ \E m \in Inbound : ProcessInbound(p, m) \/ ProcessReply(p, m)
    \/ \E w \in Outbound, s \in STATUS : ProcessStatus(p, w, s)

Route(p) ==
    \/ \E k \in Customers : CreateConversation(p, k)
    \/ \E c \in Conversations :
          \/ \E by \in Agents \cup {None} :
                \/ SendText(p, c, by) \/ SendMedia(p, c, by) \/ SendTemplate(p, c, by)
                \/ \E w \in Messages : SendReaction(p, c, by, w)
                \/ \E s \in {"OPEN", "CLOSED"} : ChangeStatus(p, c, by, s)
          \/ \E by \in Agents :
                \/ GetPermission(p, c, by) \/ RequestPermission(p, c, by)
                \/ \E action \in {"CLAIM", "TRANSFER", "RELEASE"}, to \in Agents \cup {None} :
                      ChangeAssignment(p, c, by, action, to)
          \/ MarkRead(p, c) \/ DeleteConversation(p, c)

Step(p) ==
    \/ FindByWamid(p) \/ UpsertByWaId(p) \/ InsertFails(p)
    \/ \E c \in Conversations : InsertMessage(p, c) \/ CreateOrReuse(p, c) \/ ResolveCreate(p, c)
    \/ UpdateStatusByWamid(p) \/ UpdateInitialTemplateStatus(p)
    \/ Prepare(p) \/ PersistOutbound(p) \/ \E w \in Outbound : Send(p, w)
    \/ UpdateConversation(p) \/ DeleteById(p) \/ UpdateAssignment(p)
    \/ ResolveConversation(p) \/ FindExisting(p) \/ Permit(p)
    \/ GetCallPermission(p) \/ FindPermission(p) \/ SyncFromMeta(p) \/ ExpireIfNeeded(p)
    \/ RequestCallPermission(p) \/ MarkRequested(p)

\* Every request that came has been answered.
Answered == (\A p \in Requests : At(p, "idle")) /\ UNCHANGED vars

\* The calls of a conversation are beside the chat; one that is handed over shows.
Calls == \E c \in Conversations, to \in Agents : CompleteTransfer(c, to)

Next ==
    World \/ (\E p \in Requests : Webhook(p) \/ Route(p) \/ Step(p)) \/ Calls \/ Answered

Spec == Init /\ [][Next]_vars
=============================================================================
