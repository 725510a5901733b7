----------------------------- MODULE ChatStore -----------------------------
(***************************************************************************)
(* The tables of the chat and what the repositories do to one row, for one *)
(* number of the company: the rows of contacts, conversations, messages    *)
(* and call permissions, and the requests and webhooks that run over them. *)
(* A handler is a promise chain: between two of its steps any other may    *)
(* run. A transaction is READ COMMITTED: its reads see what is committed,  *)
(* its writes show when it commits, and a row it wrote is locked till then.*)
(*                                                                         *)
(* Names, texts, media and the times of the history are left out.          *)
(***************************************************************************)
EXTENDS Naturals, FiniteSets

CONSTANTS
    Customers,      \* the contacts, by wa_id
    MaxConversations, \* the rows of conversations, numbered as they are created
    Inbound,        \* the messages of customers, by wamid
    Author,         \* Author[m] : the customer who writes m
    Replies,        \* those that answer a request to be called
    Outbound,       \* the wamids Meta gives to the messages of the company
    Agents,
    Directors,
    Requests,       \* the requests and webhooks that may be handled at once
    MaxHandled,     \* bound on how many are handled in all
    Endpoints,      \* which handlers run
    Window,         \* the 24 hours of the service window
    MaxTime,        \* bound on the clock
    None

Conversations == 1..MaxConversations
Messages == Inbound \cup Outbound

ASSUME ChatAssumption ==
    /\ MaxConversations \in Nat /\ Window \in Nat \ {0}
    /\ MaxTime \in Nat \ {0} /\ MaxHandled \in Nat
    /\ Author \in [Inbound -> Customers]
    /\ Replies \subseteq Inbound /\ Inbound \cap Outbound = {} /\ Customers \cap Messages = {}
    /\ Directors \subseteq Agents
    /\ None \notin Agents \cup Messages \cup Customers

VARIABLES
    conv,       \* the conversations
    msg,        \* the messages
    perm,       \* the call permissions, one of each conversation
    history,    \* the latest assignment recorded of each conversation, and
                \* whether a call's handover changed the owner after it
    locked,     \* the rows of contacts and messages a transaction wrote
    proc,       \* the requests and webhooks being handled
    handled,    \* how many came so far
    now,        \* the clock
    wrote,      \* when each customer message was written, 0 : not yet
    answer,     \* what a reply says
    sent,       \* what Meta accepted: the kind of each outbound message
    allowed,    \* what Meta says of calling each customer
    strays      \* the conversations opened without the lock of their contact

tables == <<conv, msg, perm, history>>
meta == <<now, wrote, answer, sent, allowed>>
vars == <<conv, msg, perm, history, locked, proc, handled, now, wrote, answer, sent,
          allowed, strays>>

-----------------------------------------------------------------------------
STATUS == {"SENT", "DELIVERED", "READ", "FAILED"}
Times == 0..(MaxTime + Window)

\* A row that does not exist yet has status "none"; a deleted one stays "deleted".
NoConversation ==
    [of |-> None, status |-> "none", owner |-> None, unread |-> 0, last |-> 0,
     window |-> 0, waiting |-> FALSE, template |-> None, templateStatus |-> "none"]
NoMessage == [conv |-> 0, status |-> "none", kind |-> "none"]
NoPermission == [status |-> "none", can |-> FALSE, until |-> 0, wamid |-> None]
NoHistory == [action |-> "none", target |-> None, overtaken |-> FALSE]
Record(action, to) == [action |-> action, target |-> to, overtaken |-> FALSE]
Idle == [at |-> "idle", op |-> "none", by |-> None, on |-> 0, msg |-> None,
         to |-> None, val |-> "none", seen |-> None, until |-> 0]

Exists(c) == c \in Conversations /\ conv[c].status \in {"OPEN", "CLOSED"}
Stored(w) == msg[w].status # "none"
Opened(k) == {c \in Conversations : conv[c].of = k /\ conv[c].status = "OPEN"}

\* The newest open conversation of a contact, 0 : none.
FindOpen(k) ==
    IF Opened(k) = {} THEN 0
    ELSE CHOOSE c \in Opened(k) : \A d \in Opened(k) : d <= c

\* The identifier of the next conversation.
Fresh(c) ==
    /\ c \in Conversations /\ conv[c].status = "none"
    /\ \A d \in Conversations : conv[d].status = "none" => c <= d

CreateForContact(k) == [NoConversation EXCEPT !.of = k, !.status = "OPEN"]

(* Mutant: the window is counted from the end of the last one. *)
LongerWindow(row, at) ==
    [row EXCEPT !.last = at, !.unread = @ + 1, !.window = at + Window + Window,
                !.waiting = FALSE]
UpdateAfterInbound(row, at) ==
    [row EXCEPT !.last = at, !.unread = @ + 1, !.window = at + Window,
                !.waiting = FALSE]

UpdateAfterTemplate(row, at, w) ==
    [row EXCEPT !.last = at, !.template = w, !.templateStatus = "SENT",
                !.waiting = TRUE]

UpdateLastMessageAt(row, at) == [row EXCEPT !.last = at]

\* claimIfUnassigned is the UPDATE with the condition; the other is by id alone.
(* Mutant: without the condition on the owner. *)
ClaimByIdAlone(c) == Exists(c)
ClaimIfUnassigned(c) == Exists(c) /\ conv[c].owner = None

(* Mutant: no window yet is not a closed window. *)
NoWindowIsOpen(c) == conv[c].window = 0 \/ conv[c].window > now
CanSendFreeform(c) == conv[c].window > now

-----------------------------------------------------------------------------
At(p, s) == proc[p].at = s

Handling(p, local) == proc' = [proc EXCEPT ![p] = local] /\ UNCHANGED handled
Goto(p, s) == Handling(p, [proc[p] EXCEPT !.at = s])
Finish(p) == Handling(p, Idle)

\* A request that passed its first checks; one that did not changes nothing.
Begin(p, e, local) ==
    /\ e \in Endpoints /\ At(p, "idle") /\ handled < MaxHandled
    /\ proc' = [proc EXCEPT ![p] = [local EXCEPT !.op = e]]
    /\ handled' = handled + 1

Lock(row) == row \notin locked /\ locked' = locked \cup {row}
Unlock(row) == locked' = locked \ {row}
=============================================================================
