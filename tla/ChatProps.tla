----------------------------- MODULE ChatProps -----------------------------
(* What the chat promises, about the hazards of concurrent webhooks, agents *)
(* and deliveries.                                                          *)
EXTENDS Chat

Conversation ==
    [of : Customers \cup {None}, status : {"none", "OPEN", "CLOSED", "deleted"},
     owner : Agents \cup {None}, unread : Nat, last : Times, window : Times,
     waiting : BOOLEAN, template : Outbound \cup {None}, templateStatus : STATUS \cup {"none"}]
Message ==
    [conv : Conversations \cup {0}, status : STATUS \cup {"none", "RECEIVED"},
     kind : {"none", "inbound", "free", "template"}]
Permission ==
    [status : PERMISSION \cup {"none"}, can : BOOLEAN, until : Times,
     wamid : Replies \cup {None}]

\* The rows have the columns of schema.prisma, and what is locked is a row.
TypeInv ==
    /\ conv \in [Conversations -> Conversation]
    /\ msg \in [Messages -> Message]
    /\ perm \in [Conversations -> Permission]
    /\ locked \subseteq Customers \cup Messages
    /\ strays \subseteq Conversations
    /\ handled \in 0..MaxHandled /\ now \in Nat

-----------------------------------------------------------------------------
(* However the webhooks and the requests of the agents interleave, at most  *)
(* one open conversation of a customer was opened under the lock of his     *)
(* contact: two find-or-create transactions never both create (message.     *)
(* service.js:97-108, conversation.service.js:84-95).                       *)
OneOpenConversation ==
    \A k \in Customers : \A c, d \in Opened(k) \ strays : c = d

(* A message Meta delivers again, even while the first delivery is being    *)
(* handled, is counted once: a conversation shows no more unread messages   *)
(* than it holds.                                                           *)
CountedOnce ==
    \A c \in Conversations :
        conv[c].unread <= Cardinality({m \in Inbound : msg[m].conv = c})

(* The history says who has the conversation: whatever claims, transfers,   *)
(* releases and handovers of calls race, its last record names the agent in *)
(* the row, unless a handover was completed after it: that one changes the  *)
(* owner without a record (callTransfer.service.js:194-199). A claim that   *)
(* lost leaves none (conversation.service.js:354-358).                      *)
HistoryTellsOwner ==
    \A c \in Conversations :
        Exists(c) /\ ~history[c].overtaken => history[c].target = conv[c].owner

(* The customer spoke first: a free text, a reaction or a media message is  *)
(* in a conversation only after a message of the customer.                  *)
FreeTextFollowsCustomer ==
    \A w \in Outbound : msg[w].kind = "free" =>
        \E m \in Inbound : Stored(m) /\ msg[m].conv = msg[w].conv

(* The status of the template the agents wait for is the one of its message *)
(* (with one template in the conversation: with two, the one that was read  *)
(* may not be the one that is written, message.service.js:144-147).         *)
TemplateStatusFollows ==
    \A w \in Outbound :
        /\ msg[w].kind = "template"
        /\ \A v \in Outbound \ {w} : msg[v].conv = msg[w].conv => msg[v].kind # "template"
        => conv[msg[w].conv].templateStatus = msg[w].status

(* The company may call only a customer who accepted, however the answers   *)
(* of Meta and the replies of the customer interleave.                      *)
PermissionWasGiven ==
    \A c \in Conversations : perm[c].can =>
        \E m \in Replies : answer[m] = "accept" /\ Author[m] = conv[c].of

-----------------------------------------------------------------------------
(* A handler leaves no message of a customer out: it ends when the message  *)
(* is stored, by itself or by another delivery, or when the conversation it *)
(* found was deleted meanwhile. A reply to a request is a message too.      *)
InboundIsStored ==
    [][\A p \in Requests, m \in Inbound :
          /\ proc[p].op \in {"inbound", "reply"} /\ proc[p].msg = m
          /\ proc'[p] = Idle
          => Stored(m)' \/ (proc[p].on # 0 /\ ~Exists(proc[p].on))]_vars

(* Of two agents who claim a conversation nobody has, the first keeps it.   *)
FirstClaimWins ==
    [][\A p \in Requests :
          /\ At(p, "assign") /\ ~At(p, "assign")'
          /\ proc[p].val = "CLAIM" /\ proc[p].seen = None
          /\ conv[proc[p].on].owner # None
          => UNCHANGED conv]_vars

-----------------------------------------------------------------------------
(***************************************************************************)
(* The inductive invariant behind the theorems of ChatProofs.              *)
(***************************************************************************)
(* What Meta knows, and what a handler carries from one await to the next. *)
Assignment == [action : {"none", "CLAIM", "TRANSFER", "RELEASE"},
               target : Agents \cup {None}, overtaken : BOOLEAN]

MetaInv ==
    /\ history \in [Conversations -> Assignment]
    /\ wrote \in [Inbound -> 0..MaxTime] /\ now \in 1..MaxTime
    /\ allowed \in [Customers -> [says : {"yes", "no", "asked"}, until : Times]]

Points ==
    {"idle", "receive", "upsert", "insert", "mark", "markTemplate", "prepare", "send",
     "persist", "read", "setStatus", "delete", "assign", "resolve", "resolveCreate",
     "existing", "permit", "getMeta", "find", "sync", "synced", "requested"}
Operations ==
    {"none", "inbound", "create", "status", "text", "reaction", "media", "template", "read",
     "setStatus", "delete", "assign", "reply", "getPermission", "request"}
Words ==
    STATUS \cup PERMISSION
       \cup {"none", "free", "template", "OPEN", "CLOSED", "CLAIM", "TRANSFER", "RELEASE"}

Local ==
    [at : Points, op : Operations, by : Agents \cup {None}, on : Conversations \cup {0},
     msg : Messages \cup {None}, to : Agents \cup Customers \cup {None}, val : Words,
     seen : Agents \cup Outbound \cup {None, "yes", "no", "asked"}, until : Times]

Carries(p) ==
    LET r == proc[p] IN
    /\ r.at \in {"receive", "upsert", "insert"} =>
          IF r.op = "create" THEN r.to \in Customers
          ELSE r.op \in {"inbound", "reply"} /\ r.msg \in Inbound /\ wrote[r.msg] > 0
    /\ r.at \in {"resolve", "resolveCreate", "existing", "permit"} =>
          r.op = "reply" /\ r.msg \in Replies /\ wrote[r.msg] > 0
    /\ r.at \in {"mark", "markTemplate"} => r.msg \in Outbound /\ r.val \in STATUS
    /\ r.at = "markTemplate" =>
          r.on \in Conversations /\ (r.seen = r.msg => conv[r.on].status # "none")
    /\ r.at \in {"prepare", "send", "persist"} =>
          /\ r.val \in {"free", "template"} /\ r.on \in Conversations
          /\ conv[r.on].status # "none"
    /\ r.at = "persist" => r.msg \in Outbound
    /\ r.at \in {"read", "setStatus", "delete", "assign"} =>
          r.op = r.at /\ r.on \in Conversations /\ conv[r.on].status # "none"
    /\ r.at = "setStatus" => r.val \in {"OPEN", "CLOSED"}
    /\ r.at = "assign" => r.val \in {"CLAIM", "TRANSFER", "RELEASE"} /\ r.to \in Agents \cup {None}
    /\ r.at \in {"existing", "permit", "getMeta", "find", "sync", "synced", "requested"} =>
          r.on \in Conversations
    /\ r.at \in {"getMeta", "find", "sync", "synced", "requested"} => r.to \in Customers
    /\ r.at = "permit" => r.val \in PERMISSION \cup {"none"}
    /\ r.at \in {"sync", "synced"} => r.val \in PERMISSION

ProcInv == proc \in [Requests -> Local] /\ \A p \in Requests : Carries(p)

(* A number that no conversation has yet has no row and no history; one    *)
(* that has is about a customer.                                           *)
HistoryInv ==
    /\ \A c \in Conversations : Exists(c) => conv[c].of \in Customers
    /\ \A c \in Conversations : conv[c].status = "none" => conv[c] = NoConversation
    /\ \A c \in Conversations :
          conv[c].status # "deleted" /\ ~history[c].overtaken =>
              history[c].target = conv[c].owner

(* A transaction holds the row it wrote, alone: a contact, and while it    *)
(* does only strays appear, or a message, which is there while it does.    *)
InTransaction(p) == proc[p].at \in {"insert", "markTemplate"}
Held(p) == IF At(p, "insert") THEN Contact(p) ELSE proc[p].msg

LockInv ==
    /\ \A p \in Requests : InTransaction(p) => Held(p) \in locked
    /\ \A p, q \in Requests :
          InTransaction(p) /\ InTransaction(q) /\ Held(p) = Held(q) => p = q
    /\ \A p \in Requests :
          At(p, "insert") /\ proc[p].on = 0 => Opened(Contact(p)) \subseteq strays
    /\ \A p \in Requests : At(p, "markTemplate") => Stored(proc[p].msg)
    /\ \A w \in Messages : Stored(w) => msg[w].conv \in Conversations

(* A window opens with a message of the customer, and both go together.    *)
WindowInv ==
    /\ \A c \in Conversations : conv[c].window > 0 =>
          \E m \in Inbound : Stored(m) /\ msg[m].conv = c
    /\ \A p \in Requests :
          /\ proc[p].at \in {"prepare", "send", "persist"} /\ proc[p].val = "free"
          /\ Exists(proc[p].on)
          => conv[proc[p].on].window > 0

ChatInv ==
    /\ TypeInv /\ MetaInv /\ ProcInv /\ HistoryInv /\ LockInv /\ WindowInv
    /\ OneOpenConversation /\ FreeTextFollowsCustomer

-----------------------------------------------------------------------------
(***************************************************************************)
(* The inductive invariants behind CountedOnce, TemplateStatusFollows,     *)
(* PermissionWasGiven and InboundIsStored.                                 *)
(***************************************************************************)
(* A message is in a conversation that exists, or has no row.  A wamid of  *)
(* Meta is written by the one request that was given it.                   *)
MessageInv ==
    /\ \A w \in Messages : IF Stored(w) THEN Exists(msg[w].conv) ELSE msg[w] = NoMessage
    /\ sent \in [Outbound -> {"none", "free", "template"}]
    /\ \A w \in Outbound : Stored(w) => sent[w] # "none"
    /\ \A p \in Requests : At(p, "persist") =>
          /\ sent[proc[p].msg] # "none" /\ ~Stored(proc[p].msg)
          /\ \A q \in Requests : At(q, "persist") /\ proc[q].msg = proc[p].msg => q = p

(* The messages of the customer that a conversation holds.                 *)
MessagesOf(c) == {m \in Inbound : msg[m].conv = c}

CountInv ==
    \A c \in Conversations :
        IsFiniteSet(MessagesOf(c)) /\ conv[c].unread <= Cardinality(MessagesOf(c))

(* The conversation names a template of its own, the only one if it has    *)
(* but one; so does a status handler that has read it.                     *)
OnlyTemplate(w) ==
    /\ msg[w].kind = "template"
    /\ \A v \in Outbound \ {w} : msg[v].conv = msg[w].conv => msg[v].kind # "template"

TemplateInv ==
    /\ \A c \in Conversations : LET w == conv[c].template IN
          w \in Outbound => msg[w].kind = "template" /\ msg[w].conv = c
    /\ \A w \in Outbound : OnlyTemplate(w) =>
          LET row == conv[msg[w].conv] IN row.template = w /\ row.templateStatus = msg[w].status
    /\ \A p \in Requests : At(p, "markTemplate") =>
          LET w == proc[p].msg IN
          /\ proc[p].on = msg[w].conv
          /\ proc[p].seen = w => msg[w].kind = "template"
          /\ OnlyTemplate(w) => proc[p].seen = w

(* What Meta, the rows and the handlers know of a permission comes from a  *)
(* reply of the customer the conversation is about.                        *)
Accepted(k) == \E m \in Replies : answer[m] = "accept" /\ Author[m] = k
About(c, k) == conv[c].status # "none" /\ (Exists(c) => conv[c].of = k)

GrantInv ==
    /\ answer \in [Replies -> {"none", "accept", "reject", "revoke"}]
    /\ \A m \in Replies : wrote[m] = 0 => answer[m] = "none"
    /\ \A k \in Customers : allowed[k].says = "yes" => Accepted(k)
    /\ \A c \in Conversations : perm[c].can => Exists(c) /\ Accepted(conv[c].of)
    /\ \A p \in Requests : LET r == proc[p] IN
          /\ r.at \in {"existing", "permit"} => About(r.on, Author[r.msg])
          /\ r.at \in {"getMeta", "find", "sync"} => About(r.on, r.to)
          /\ r.at = "find" /\ r.seen = "yes" => Accepted(r.to)
          /\ r.at = "sync" /\ r.val = "GRANTED" => Accepted(r.to)

(* Where the handler of a customer's message may be.                       *)
InboundInv ==
    \A p \in Requests : proc[p].op \in {"inbound", "reply"} =>
        proc[p].at \in {"receive", "upsert", "insert", "resolve", "resolveCreate",
                        "existing", "permit"}
=============================================================================
