--------------------------- MODULE Conversations ---------------------------
(***************************************************************************)
(* conversation.service.js and message.service.js: the webhooks of messages *)
(* and statuses and the requests of the agents over conversations.          *)
(***************************************************************************)
EXTENDS ChatStore

\* by = None : the caller names no agent and is not asked who he is.
Assigned(c, by) == by = None \/ conv[c].owner = by
AssignedOrDirector(c, by) ==
    \/ by \in Directors /\ conv[c].owner # None
    \/ Assigned(c, by)

world == <<now, wrote, answer, allowed>>

-----------------------------------------------------------------------------
(* A message of a customer. The answer 200 was given before: it is not sent *)
(* again because the handler failed, only because Meta repeats it.          *)
ProcessInbound(p, m) ==
    /\ wrote[m] > 0 /\ m \notin Replies
    /\ Begin(p, "inbound", [Idle EXCEPT !.at = "receive", !.msg = m])
    /\ UNCHANGED <<tables, locked, meta, strays>>

FindByWamid(p) ==
    /\ At(p, "receive")
    /\ IF Stored(proc[p].msg) THEN Finish(p) ELSE Goto(p, "upsert")
    /\ UNCHANGED <<tables, locked, meta, strays>>

Contact(p) == IF proc[p].op = "create" THEN proc[p].to ELSE Author[proc[p].msg]

(* Mutant: the contact is looked for, not written. *)
FindByWaId(p) ==
    /\ At(p, "upsert") /\ UNCHANGED locked
    /\ Handling(p, [proc[p] EXCEPT !.at = "insert", !.on = FindOpen(Contact(p))])
    /\ UNCHANGED <<tables, meta, strays>>

\* The upsert of the contact locks its row until the transaction ends.
UpsertByWaId(p) ==
    /\ At(p, "upsert")
    /\ Lock(Contact(p))
    /\ Handling(p, [proc[p] EXCEPT !.at = "insert", !.on = FindOpen(Contact(p))])
    /\ UNCHANGED <<tables, meta, strays>>

\* The conversation was deleted, or another webhook stored the message first.
InsertFails(p) ==
    /\ At(p, "insert") /\ proc[p].op # "create"
    /\ \/ proc[p].on # 0 /\ ~Exists(proc[p].on)
       \/ Stored(proc[p].msg)
    /\ Unlock(Contact(p)) /\ Finish(p)
    /\ UNCHANGED <<tables, meta, strays>>

(* Mutant: the wamid of a message is not unique. *)
InsertAgain(p, c) ==
    LET m == proc[p].msg
        row == IF proc[p].on = 0 THEN CreateForContact(Contact(p)) ELSE conv[c]
    IN
    /\ At(p, "insert") /\ proc[p].op # "create"
    /\ IF proc[p].on = 0 THEN Fresh(c) ELSE c = proc[p].on /\ Exists(c)
    /\ conv' = [conv EXCEPT ![c] = UpdateAfterInbound(row, wrote[m])]
    /\ msg' = [msg EXCEPT ![m] = [conv |-> c, status |-> "RECEIVED", kind |-> "inbound"]]
    /\ Unlock(Contact(p)) /\ Finish(p)
    /\ UNCHANGED <<perm, history, meta, strays>>

InsertMessage(p, c) ==
    LET m == proc[p].msg
        row == IF proc[p].on = 0 THEN CreateForContact(Contact(p)) ELSE conv[c]
    IN
    /\ At(p, "insert") /\ proc[p].op # "create" /\ ~Stored(m)
    /\ IF proc[p].on = 0 THEN Fresh(c) ELSE c = proc[p].on /\ Exists(c)
    /\ conv' = [conv EXCEPT ![c] = UpdateAfterInbound(row, wrote[m])]
    /\ msg' = [msg EXCEPT ![m] = [conv |-> c, status |-> "RECEIVED", kind |-> "inbound"]]
    /\ Unlock(Contact(p)) /\ Finish(p)
    /\ UNCHANGED <<perm, history, meta, strays>>

-----------------------------------------------------------------------------
(* An agent opens a conversation, with the same lock.                      *)
CreateConversation(p, k) ==
    /\ Begin(p, "create", [Idle EXCEPT !.at = "upsert", !.to = k])
    /\ UNCHANGED <<tables, locked, meta, strays>>

CreateOrReuse(p, c) ==
    /\ At(p, "insert") /\ proc[p].op = "create"
    /\ IF proc[p].on = 0
       THEN Fresh(c) /\ conv' = [conv EXCEPT ![c] = CreateForContact(Contact(p))]
       ELSE c = proc[p].on /\ UNCHANGED conv
    /\ Unlock(Contact(p)) /\ Finish(p)
    /\ UNCHANGED <<msg, perm, history, meta, strays>>

-----------------------------------------------------------------------------
(* A status of a message Meta accepted; statuses come in any order.        *)
ProcessStatus(p, w, s) ==
    /\ sent[w] # "none" /\ Stored(w)
    /\ Begin(p, "status", [Idle EXCEPT !.at = "mark", !.msg = w, !.val = s])
    /\ UNCHANGED <<tables, locked, meta, strays>>

UpdateStatusByWamid(p) ==
    LET w == proc[p].msg IN
    /\ At(p, "mark")
    /\ IF Stored(w)
       THEN /\ Lock(w)
            /\ Handling(p, [proc[p] EXCEPT !.at = "markTemplate", !.on = msg[w].conv,
                                    !.seen = conv[msg[w].conv].template])
       ELSE Finish(p) /\ UNCHANGED locked
    /\ UNCHANGED <<tables, meta, strays>>

(* Mutant: the conversation is not told of the status of its template. *)
UpdateMessageStatusOnly(p) ==
    LET w == proc[p].msg IN
    /\ At(p, "markTemplate")
    /\ msg' = [msg EXCEPT ![w].status = proc[p].val]
    /\ Unlock(w) /\ Finish(p)
    /\ UNCHANGED <<conv, perm, history, meta, strays>>

UpdateInitialTemplateStatus(p) ==
    LET w == proc[p].msg IN
    /\ At(p, "markTemplate")
    /\ msg' = [msg EXCEPT ![w].status = proc[p].val]
    /\ conv' = IF proc[p].seen = w
               THEN [conv EXCEPT ![proc[p].on].templateStatus = proc[p].val]
               ELSE conv
    /\ Unlock(w) /\ Finish(p)
    /\ UNCHANGED <<perm, history, meta, strays>>

-----------------------------------------------------------------------------
(* Sending: the checks, what has to be prepared, Meta, and then the row.    *)
Sending(p, e, c, by, s, kind) ==
    /\ Exists(c) /\ Assigned(c, by)
    /\ Begin(p, e, [Idle EXCEPT !.at = s, !.on = c, !.by = by, !.val = kind])
    /\ UNCHANGED <<tables, locked, meta, strays>>

SendText(p, c, by) ==
    CanSendFreeform(c) /\ Sending(p, "text", c, by, "send", "free")

SendReaction(p, c, by, w) ==
    /\ CanSendFreeform(c) /\ Stored(w) /\ msg[w].conv = c
    /\ Sending(p, "reaction", c, by, "send", "free")

SendMedia(p, c, by) ==
    CanSendFreeform(c) /\ Sending(p, "media", c, by, "prepare", "free")

SendTemplate(p, c, by) == Sending(p, "template", c, by, "prepare", "template")

\* The upload, or the template with its media; one that fails ends the request.
Prepare(p) ==
    /\ At(p, "prepare")
    /\ Goto(p, "send") \/ Finish(p)
    /\ UNCHANGED <<tables, locked, meta, strays>>

Send(p, w) ==
    /\ At(p, "send")
    /\ \/ /\ sent[w] = "none"
          /\ sent' = [sent EXCEPT ![w] = proc[p].val]
          /\ Handling(p, [proc[p] EXCEPT !.at = "persist", !.msg = w])
       \/ Finish(p) /\ UNCHANGED sent
    /\ UNCHANGED <<tables, locked, world, strays>>

PersistOutbound(p) ==
    LET c == proc[p].on
        w == proc[p].msg
    IN
    /\ At(p, "persist") /\ Finish(p)
    /\ IF Exists(c)
       THEN /\ msg' = [msg EXCEPT ![w] = [conv |-> c, status |-> "SENT", kind |-> proc[p].val]]
            /\ conv' = [conv EXCEPT ![c] =
                           IF proc[p].val = "template"
                           THEN UpdateAfterTemplate(@, now, w)
                           ELSE UpdateLastMessageAt(@, now)]
       ELSE UNCHANGED <<msg, conv>>
    /\ UNCHANGED <<perm, history, locked, meta, strays>>

-----------------------------------------------------------------------------
(* Reading, closing, opening again, assigning and deleting: every handler   *)
(* reads the row and writes it in a later step, by its id.                  *)
MarkRead(p, c) ==
    /\ Exists(c)
    /\ Begin(p, "read", [Idle EXCEPT !.at = "read", !.on = c])
    /\ UNCHANGED <<tables, locked, meta, strays>>

ChangeStatus(p, c, by, s) ==
    /\ Exists(c) /\ AssignedOrDirector(c, by)
    /\ Begin(p, "setStatus", [Idle EXCEPT !.at = "setStatus", !.on = c, !.by = by, !.val = s])
    /\ UNCHANGED <<tables, locked, meta, strays>>

DeleteConversation(p, c) ==
    /\ Exists(c)
    /\ Begin(p, "delete", [Idle EXCEPT !.at = "delete", !.on = c])
    /\ UNCHANGED <<tables, locked, meta, strays>>

UpdateConversation(p) ==
    LET c == proc[p].on IN
    /\ proc[p].at \in {"read", "setStatus"} /\ Finish(p)
    /\ conv' = CASE ~Exists(c) -> conv
                 [] Exists(c) /\ At(p, "read") -> [conv EXCEPT ![c].unread = 0]
                 [] OTHER -> [conv EXCEPT ![c].status = proc[p].val]
    /\ strays' = IF Exists(c) /\ conv[c].status # "OPEN" /\ proc[p].val = "OPEN"
                   THEN strays \cup {c} ELSE strays
    /\ UNCHANGED <<msg, perm, history, locked, meta>>

\* The messages, the permission and the history go with the conversation.
DeleteById(p) ==
    LET c == proc[p].on IN
    /\ At(p, "delete") /\ Finish(p)
    /\ \A w \in locked \cap Messages : msg[w].conv # c
    /\ IF Exists(c)
       THEN /\ conv' = [conv EXCEPT ![c] = [NoConversation EXCEPT !.status = "deleted"]]
            /\ msg' = [w \in Messages |-> IF msg[w].conv = c THEN NoMessage ELSE msg[w]]
            /\ perm' = [perm EXCEPT ![c] = NoPermission]
            /\ history' = [history EXCEPT ![c] = NoHistory]
       ELSE UNCHANGED tables
    /\ UNCHANGED <<locked, meta, strays>>

-----------------------------------------------------------------------------
MayAssign(c, by, action) ==
    IF action = "CLAIM" THEN conv[c].owner \in {None, by}
    ELSE conv[c].owner = by \/ by \in Directors

ChangeAssignment(p, c, by, action, to) ==
    /\ Exists(c) /\ MayAssign(c, by, action)
    /\ to = CASE action = "CLAIM" -> by [] action = "RELEASE" -> None [] OTHER -> to
    /\ action = "TRANSFER" => to # None
    /\ Begin(p, "assign", [Idle EXCEPT !.at = "assign", !.on = c, !.by = by,
                                       !.val = action, !.to = to, !.seen = conv[c].owner])
    /\ UNCHANGED <<tables, locked, meta, strays>>

(* Mutant: the record is written before the claim is known to have won. *)
RecordFirst(p) ==
    LET c == proc[p].on
        stands == IF proc[p].val = "CLAIM" /\ proc[p].seen = None
                  THEN ClaimIfUnassigned(c) ELSE Exists(c)
    IN
    /\ At(p, "assign") /\ Finish(p)
    /\ conv' = IF stands THEN [conv EXCEPT ![c].owner = proc[p].to] ELSE conv
    /\ history' = [history EXCEPT ![c] = Record(proc[p].val, proc[p].to)]
    /\ UNCHANGED <<msg, perm, locked, meta, strays>>

UpdateAssignment(p) ==
    LET c == proc[p].on
        stands == IF proc[p].val = "CLAIM" /\ proc[p].seen = None
                  THEN ClaimIfUnassigned(c) ELSE Exists(c)
    IN
    /\ At(p, "assign") /\ Finish(p)
    /\ conv' = IF stands THEN [conv EXCEPT ![c].owner = proc[p].to] ELSE conv
    /\ history' = IF stands
                  THEN [history EXCEPT ![c] = Record(proc[p].val, proc[p].to)]
                  ELSE history
    /\ UNCHANGED <<msg, perm, locked, meta, strays>>

(* The other writer of the owner: the transaction that completes the        *)
(* handover of a call (module CallTransfer) gives the conversation of the   *)
(* call to the new agent by id, and records nothing.                        *)
CompleteTransfer(c, to) ==
    /\ "mediaReady" \in Endpoints /\ handled < MaxHandled
    /\ Exists(c)
    /\ conv' = [conv EXCEPT ![c].owner = to]
    /\ history' = [history EXCEPT ![c].overtaken = TRUE]
    /\ handled' = handled + 1
    /\ UNCHANGED <<msg, perm, locked, proc, meta, strays>>
=============================================================================
