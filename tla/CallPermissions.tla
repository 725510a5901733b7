-------------------------- MODULE CallPermissions --------------------------
(***************************************************************************)
(* callPermission.service.js and what call.service.js does with it: may    *)
(* the company call the customer of a conversation? Meta knows; the row is *)
(* what it said last, in an answer or in the customer's reply.             *)
(***************************************************************************)
EXTENDS Conversations

PERMISSION == {"PENDING", "GRANTED", "DENIED", "REVOKED", "EXPIRED"}

Expired(until) == until > 0 /\ until <= now

\* Meta's answer is "yes", "no", or "asked" : a request is with the customer.
\* It says temporary to the first and no_permission to the others.
(* Mutant: a request that is with the customer counts as granted. *)
GrantWhenAsked(says, until, existing) ==
    CASE says # "no" /\ ~Expired(until) -> "GRANTED"
      [] says # "no" /\ Expired(until) -> "EXPIRED"
      [] OTHER -> "DENIED"

NormalizeMeta(says, until, existing) ==
    CASE says = "yes" /\ ~Expired(until) -> "GRANTED"
      [] says = "yes" /\ Expired(until) -> "EXPIRED"
      [] says # "yes" /\ existing.status = "PENDING" -> "PENDING"
      [] OTHER -> IF existing.status = "GRANTED" /\ Expired(existing.until)
                  THEN "EXPIRED" ELSE "DENIED"

-----------------------------------------------------------------------------
(* The customer's reply, as a webhook: outside a transaction, so that the   *)
(* row of the contact is not locked while a conversation is looked for.     *)
ProcessReply(p, m) ==
    /\ wrote[m] > 0 /\ m \in Replies
    /\ Begin(p, "reply",
             [Idle EXCEPT !.at = IF \E c \in Conversations : perm[c].wamid = m
                                 THEN "receive" ELSE "resolve",
                          !.msg = m])
    /\ UNCHANGED <<tables, locked, meta, strays>>

ResolveConversation(p) ==
    LET c == FindOpen(Contact(p)) IN
    /\ At(p, "resolve") /\ Contact(p) \notin locked
    /\ Handling(p, [proc[p] EXCEPT !.at = IF c = 0 THEN "resolveCreate" ELSE "existing",
                            !.on = c])
    /\ UNCHANGED <<tables, locked, meta, strays>>

ResolveCreate(p, c) ==
    /\ At(p, "resolveCreate") /\ Fresh(c)
    /\ conv' = [conv EXCEPT ![c] = CreateForContact(Contact(p))]
    /\ strays' = strays \cup {c}
    /\ Handling(p, [proc[p] EXCEPT !.at = "existing", !.on = c])
    /\ UNCHANGED <<msg, perm, history, locked, meta>>

FindExisting(p) ==
    /\ At(p, "existing")
    /\ Handling(p, [proc[p] EXCEPT !.at = "permit", !.val = perm[proc[p].on].status])
    /\ UNCHANGED <<tables, locked, meta, strays>>

\* What a reply makes of the permission; it is Meta that revokes.
Replied(m, existing) ==
    LET accepted == answer[m] = "accept" IN
    [status |-> CASE accepted -> "GRANTED"
                  [] answer[m] = "revoke" /\ existing = "GRANTED" -> "REVOKED"
                  [] OTHER -> "DENIED",
     can |-> accepted,
     until |-> IF accepted THEN wrote[m] + Window ELSE 0,
     wamid |-> m]

(* Mutant: the reply is not a message of the conversation any more. *)
PermitAndStop(p) ==
    LET c == proc[p].on
        m == proc[p].msg
    IN
    /\ At(p, "permit") /\ Finish(p)
    /\ perm' = IF Exists(c) /\ \A d \in Conversations \ {c} : perm[d].wamid # m
               THEN [perm EXCEPT ![c] = Replied(m, proc[p].val)] ELSE perm
    /\ UNCHANGED <<conv, msg, history, locked, meta, strays>>

\* The conversation may be gone, and the wamid is unique. Whatever happens, the
\* message is processed next as any other is.
Permit(p) ==
    LET c == proc[p].on
        m == proc[p].msg
    IN
    /\ At(p, "permit")
    /\ perm' = IF Exists(c) /\ \A d \in Conversations \ {c} : perm[d].wamid # m
               THEN [perm EXCEPT ![c] = Replied(m, proc[p].val)] ELSE perm
    /\ Handling(p, [proc[p] EXCEPT !.at = "receive", !.on = 0, !.val = "none"])
    /\ UNCHANGED <<conv, msg, history, locked, meta, strays>>

-----------------------------------------------------------------------------
(* getPermission, requestPermission and the check of initiate: ask Meta and *)
(* keep the answer; the row is read before it is written.                   *)
ConversationForCalling(p, e, c, by) ==
    /\ Exists(c)
    /\ conv[c].owner \in {None, by} \/ by \in Directors
    /\ Begin(p, e, [Idle EXCEPT !.at = "getMeta", !.on = c, !.by = by, !.to = conv[c].of])
    /\ UNCHANGED <<tables, locked, meta, strays>>

GetPermission(p, c, by) == ConversationForCalling(p, "getPermission", c, by)

RequestPermission(p, c, by) ==
    CanSendFreeform(c) /\ ConversationForCalling(p, "request", c, by)

\* Meta's answer, as the row has it when it is normalised.
GetCallPermission(p) ==
    LET k == proc[p].to IN
    /\ At(p, "getMeta")
    /\ \/ Handling(p, [proc[p] EXCEPT !.at = "find", !.seen = allowed[k].says,
                                      !.until = allowed[k].until])
       \/ Finish(p)
    /\ UNCHANGED <<tables, locked, meta, strays>>

FindPermission(p) ==
    /\ At(p, "find")
    /\ Handling(p, [proc[p] EXCEPT !.at = "sync",
                            !.val = NormalizeMeta(proc[p].seen, proc[p].until,
                                                     perm[proc[p].on])])
    /\ UNCHANGED <<tables, locked, meta, strays>>

SyncFromMeta(p) ==
    LET c == proc[p].on IN
    /\ At(p, "sync")
    /\ IF Exists(c)
       THEN /\ perm' = [perm EXCEPT ![c] =
                           [status |-> proc[p].val, can |-> proc[p].val = "GRANTED",
                            until |-> proc[p].until, wamid |-> @.wamid]]
            /\ Goto(p, "synced")
       ELSE Finish(p) /\ UNCHANGED perm
    /\ UNCHANGED <<conv, msg, history, locked, meta, strays>>

\* The permission is good for a call: what toDto says of the stored row.
CanCall(p) == proc[p].val = "GRANTED" /\ ~Expired(proc[p].until)

\* expireIfNeeded updates by id what it has in its hands, not what is there.
ExpireIfNeeded(p) ==
    LET c == proc[p].on IN
    /\ At(p, "synced") /\ proc[p].op # "request" /\ Finish(p)
    /\ perm' = IF proc[p].val = "GRANTED" /\ ~CanCall(p) /\ Exists(c)
               THEN [perm EXCEPT ![c].status = "EXPIRED", ![c].can = FALSE] ELSE perm
    /\ UNCHANGED <<conv, msg, history, locked, meta, strays>>

\* Meta takes a request when none is with the customer, and when what the
\* customer allowed has run out.
MayAsk(says, until) == says = "no" \/ (says = "yes" /\ Expired(until))

RequestCallPermission(p) ==
    LET k == proc[p].to IN
    /\ At(p, "synced") /\ proc[p].op = "request"
    /\ \/ /\ ~CanCall(p) /\ MayAsk(proc[p].seen, proc[p].until)
          /\ MayAsk(allowed[k].says, allowed[k].until)
          /\ allowed' = [allowed EXCEPT ![k] = [says |-> "asked", until |-> 0]]
          /\ Goto(p, "requested")
       \/ Finish(p) /\ UNCHANGED allowed
    /\ UNCHANGED <<tables, locked, now, wrote, answer, sent, strays>>

MarkRequested(p) ==
    LET c == proc[p].on IN
    /\ At(p, "requested") /\ Finish(p)
    /\ perm' = IF Exists(c)
               THEN [perm EXCEPT ![c] = [NoPermission EXCEPT !.status = "PENDING"]]
               ELSE perm
    /\ UNCHANGED <<conv, msg, history, locked, meta, strays>>
=============================================================================
