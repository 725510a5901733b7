------------------------------ MODULE ChatProofs ------------------------------
(***************************************************************************)
(* Proofs about the chat, for any customers, messages, agents and number   *)
(* of requests at once: ChatInv is inductive, and on it rest the messages, *)
(* the counts, the templates and the permissions.                          *)
(***************************************************************************)
EXTENDS ChatProps, WellFoundedInduction, FiniteSetTheorems, TLAPS

\* A handler that only goes on.
Keeps(p) ==
    /\ proc'[p].op = proc[p].op /\ proc'[p].msg = proc[p].msg /\ proc'[p].on = proc[p].on
    /\ proc'[p].to = proc[p].to /\ proc'[p].val = proc[p].val

-----------------------------------------------------------------------------
(* The newest open conversation: a set of numbers has a greatest.           *)
LEMMA Greatest ==
    ASSUME NEW S \in SUBSET Conversations, S # {}
    PROVE  \E c \in S : \A d \in S : d <= c
  <1> DEFINE T == {MaxConversations - c : c \in S}
  <1>1. MaxConversations \in Nat
    BY ChatAssumption
  <1>2. T \subseteq Nat /\ T # {}
    <2>1. \A c \in S : c \in Nat /\ MaxConversations - c \in Nat
      BY <1>1 DEF Conversations
    <2> QED
      BY <2>1
  <1>3. PICK n \in T : \A k \in T : <<k, n>> \notin OpToRel(<, Nat)
    BY <1>2, NatLessThanWellFounded, WFMin
  <1>4. \A k \in T : ~(k < n)
    BY <1>2, <1>3, Zenon DEF OpToRel
  <1>5. PICK c \in S : n = MaxConversations - c
    OBVIOUS
  <1>6. ASSUME NEW d \in S PROVE d <= c
    <2>1. MaxConversations - d \in T
      OBVIOUS
    <2>2. ~(MaxConversations - d < MaxConversations - c)
      BY <1>4, <1>5, <2>1
    <2> QED
      BY <1>1, <2>2 DEF Conversations
  <1> QED
    BY <1>6

LEMMA FoundOpen ==
    ASSUME NEW k
    PROVE  /\ FindOpen(k) \in Conversations \cup {0}
           /\ FindOpen(k) = 0 <=> Opened(k) = {}
           /\ FindOpen(k) # 0 => FindOpen(k) \in Opened(k)
  <1>1. Opened(k) \in SUBSET Conversations
    BY DEF Opened
  <1>2. CASE Opened(k) = {}
    BY <1>2 DEF FindOpen
  <1>3. CASE Opened(k) # {}
    <2>1. FindOpen(k) \in Opened(k)
      BY <1>1, <1>3, Greatest DEF FindOpen
    <2> QED
      BY <1>1, <1>3, <2>1, ChatAssumption DEF Conversations
  <1> QED
    BY <1>2, <1>3

(* The handlers: what the operators of ChatStore do to their table.         *)
LEMMA HandlingMoves ==
    ASSUME ProcInv, NEW p \in Requests, NEW local \in Local, Handling(p, local)
    PROVE  /\ proc' \in [Requests -> Local] /\ \A q \in Requests \ {p} : proc'[q] = proc[q]
           /\ proc'[p] = local
  BY DEF ProcInv, Handling

LEMMA IdleIsLocal == Idle \in Local
  BY ChatAssumption DEF Idle, Local, Times, Points, Operations, Words

LEMMA GotoMoves ==
    ASSUME ProcInv, NEW p \in Requests, NEW s \in Points, Goto(p, s)
    PROVE  /\ proc' \in [Requests -> Local] /\ \A q \in Requests \ {p} : proc'[q] = proc[q]
           /\ proc'[p].at = s /\ Keeps(p)
  <1>1. proc[p] \in Local
    BY DEF ProcInv
  <1>2. [proc[p] EXCEPT !.at = s] \in Local
    BY <1>1 DEF Local
  <1>4. /\ proc' \in [Requests -> Local] /\ \A q \in Requests \ {p} : proc'[q] = proc[q]
        /\ proc'[p] = [proc[p] EXCEPT !.at = s]
    BY <1>2, HandlingMoves DEF Goto
  <1> QED
    BY <1>1, <1>4 DEF Local, Keeps

LEMMA FinishMoves ==
    ASSUME ProcInv, NEW p \in Requests, Finish(p)
    PROVE  /\ proc' \in [Requests -> Local] /\ \A q \in Requests \ {p} : proc'[q] = proc[q]
           /\ proc'[p] = Idle
  BY IdleIsLocal, HandlingMoves DEF Finish

LEMMA BeginMoves ==
    ASSUME ProcInv, NEW p \in Requests, NEW local \in Local, NEW e \in Operations,
           Begin(p, e, local)
    PROVE  /\ proc' \in [Requests -> Local] /\ \A q \in Requests \ {p} : proc'[q] = proc[q]
           /\ proc'[p].op = e /\ proc'[p].at = local.at /\ proc'[p].on = local.on
           /\ proc'[p].msg = local.msg /\ proc'[p].to = local.to /\ proc'[p].val = local.val
  <1>1. [local EXCEPT !.op = e] \in Local
    BY DEF Local, Operations
  <1>2. proc' = [proc EXCEPT ![p] = [local EXCEPT !.op = e]]
    BY DEF Begin
  <1> QED
    BY <1>1, <1>2 DEF ProcInv, Local

LEMMA IdleFields ==
    /\ Idle.at = "idle" /\ Idle.op = "none" /\ Idle.on = 0 /\ Idle.msg = None
    /\ Idle.to = None /\ Idle.val = "none"
  BY DEF Idle

LEMMA CarriesStays ==
    ASSUME ProcInv, NEW q \in Requests, proc'[q] = proc[q],
           \A c \in Conversations : conv[c].status # "none" => conv'[c].status # "none",
           \A m \in Inbound : wrote[m] > 0 => wrote'[m] > 0
    PROVE  Carries(q)'
  <1>1. Carries(q)
    BY DEF ProcInv
  <1>2. proc[q].msg \in Inbound /\ wrote[proc[q].msg] > 0 => wrote'[proc[q].msg] > 0
    OBVIOUS
  <1>3. proc[q].msg \in Replies => proc[q].msg \in Inbound
    BY ChatAssumption
  <1>4. proc[q].on \in Conversations /\ conv[proc[q].on].status # "none"
            => conv'[proc[q].on].status # "none"
    OBVIOUS
  <1> QED
    BY <1>1, <1>2, <1>3, <1>4 DEF Carries

(* A handler that leaves its transaction, or was in none.                   *)
LEMMA LockMoves ==
    ASSUME ChatInv, NEW p \in Requests,
           \A q \in Requests \ {p} : proc'[q] = proc[q],
           proc'[p].at \notin {"insert", "markTemplate"},
           \A q \in Requests \ {p} : InTransaction(q) => Held(q) \in locked',
           \A q \in Requests \ {p} :
               At(q, "insert") /\ proc[q].on = 0 => Opened(Contact(q))' \subseteq strays',
           \A q \in Requests \ {p} : At(q, "markTemplate") => Stored(proc[q].msg)',
           \A w \in Messages : Stored(w)' => msg'[w].conv \in Conversations
    PROVE  LockInv'
  <1>1. \A q \in Requests \ {p} : /\ InTransaction(q)' <=> InTransaction(q)
                                  /\ Held(q)' = Held(q) /\ Contact(q)' = Contact(q)
                                  /\ \A s \in Points : At(q, s)' <=> At(q, s)
    BY DEF InTransaction, Held, Contact, At
  <1>2. ~InTransaction(p)' /\ ~At(p, "insert")' /\ ~At(p, "markTemplate")'
    BY DEF InTransaction, At
  <1>3. "insert" \in Points /\ "markTemplate" \in Points
    BY DEF Points
  <1>4. \A q \in Requests : InTransaction(q)' => q \in Requests \ {p} /\ InTransaction(q)
    BY <1>1, <1>2
  <1>5. \A q \in Requests : InTransaction(q)' => Held(q)' \in locked'
    BY <1>1, <1>4
  <1>6. \A q, r \in Requests :
            InTransaction(q)' /\ InTransaction(r)' /\ Held(q)' = Held(r)' => q = r
    BY <1>1, <1>4 DEF ChatInv, LockInv
  <1>7. \A q \in Requests :
            At(q, "insert")' /\ proc'[q].on = 0 => Opened(Contact(q))' \subseteq strays'
    BY <1>1, <1>2, <1>3
  <1>8. \A q \in Requests : At(q, "markTemplate")' => Stored(proc[q].msg)'
    BY <1>1, <1>2, <1>3
  <1> QED
    BY <1>5, <1>6, <1>7, <1>8 DEF LockInv

LEMMA LockFrame ==
    ASSUME ChatInv, NEW p \in Requests, UNCHANGED <<conv, msg, strays>>,
           \A q \in Requests \ {p} : proc'[q] = proc[q],
           proc'[p].at \notin {"insert", "markTemplate"},
           \A q \in Requests \ {p} : InTransaction(q) => Held(q) \in locked'
    PROVE  LockInv'
  <1>1. \A q \in Requests \ {p} :
            At(q, "insert") /\ proc[q].on = 0 => Opened(Contact(q))' \subseteq strays'
    <2>1. \A q \in Requests \ {p} : Opened(Contact(q))' = Opened(Contact(q))
      BY DEF Opened, Contact
    <2> QED
      BY <2>1 DEF ChatInv, LockInv
  <1>2. \A q \in Requests \ {p} : At(q, "markTemplate") => Stored(proc[q].msg)'
    BY DEF ChatInv, LockInv, Stored
  <1>3. \A w \in Messages : Stored(w)' => msg'[w].conv \in Conversations
    BY DEF ChatInv, LockInv, Stored
  <1> QED
    BY <1>1, <1>2, <1>3, LockMoves

LEMMA WindowMoves ==
    ASSUME ChatInv, NEW p \in Requests,
           \A q \in Requests \ {p} : proc'[q] = proc[q],
           proc'[p].at \notin {"prepare", "send", "persist"},
           \A c \in Conversations : conv'[c].window > 0 =>
               \E m \in Inbound : Stored(m)' /\ msg'[m].conv = c,
           \A c \in Conversations : conv[c].status # "none" /\ Exists(c)' =>
               Exists(c) /\ (conv[c].window > 0 => conv'[c].window > 0)
    PROVE  WindowInv'
  <1>1. ASSUME NEW q \in Requests, proc'[q].at \in {"prepare", "send", "persist"},
               proc'[q].val = "free", Exists(proc[q].on)'
        PROVE  conv'[proc'[q].on].window > 0
    <2>1. q # p /\ proc'[q] = proc[q]
      BY <1>1
    <2>2. proc[q].on \in Conversations /\ conv[proc[q].on].status # "none"
      BY <1>1, <2>1 DEF ChatInv, ProcInv, Carries
    <2>3. Exists(proc[q].on)'
            => Exists(proc[q].on)
               /\ (conv[proc[q].on].window > 0 => conv'[proc[q].on].window > 0)
      BY <2>1, <2>2 DEF Exists
    <2> QED
      BY <1>1, <2>1, <2>2, <2>3 DEF ChatInv, WindowInv
  <1> QED
    BY <1>1 DEF WindowInv

LEMMA WindowFrame ==
    ASSUME ChatInv, NEW p \in Requests, UNCHANGED <<conv, msg>>,
           \A q \in Requests \ {p} : proc'[q] = proc[q],
           \/ proc'[p].at \notin {"prepare", "send", "persist"}
           \/ proc'[p].val # "free"
           \/ conv[proc'[p].on].window > 0
           \/ /\ proc[p].at \in {"prepare", "send", "persist"}
              /\ proc'[p].val = proc[p].val /\ proc'[p].on = proc[p].on
    PROVE  WindowInv'
  <1>1. \A c \in Conversations : conv'[c].window > 0 =>
            \E m \in Inbound : Stored(m)' /\ msg'[m].conv = c
    BY DEF ChatInv, WindowInv, Stored
  <1>2. \A c : Exists(c)' <=> Exists(c)
    BY DEF Exists
  <1>3. ASSUME NEW q \in Requests, proc'[q].at \in {"prepare", "send", "persist"},
               proc'[q].val = "free", Exists(proc[q].on)'
        PROVE  conv'[proc'[q].on].window > 0
    <2>1. CASE q = p
      <3>1. Exists(proc'[p].on)
        BY <1>3, <2>1 DEF Exists
      <3> QED
        BY <1>3, <2>1, <3>1 DEF ChatInv, WindowInv
    <2>2. CASE q # p
      <3>1. proc'[q] = proc[q] /\ Exists(proc[q].on)
        BY <1>3, <2>2 DEF Exists
      <3> QED
        BY <1>3, <3>1 DEF ChatInv, WindowInv
    <2> QED
      BY <2>1, <2>2
  <1> QED
    BY <1>1, <1>3 DEF WindowInv

(* The rows that the steps on the tables write.                             *)
LEMMA NewRow ==
    ASSUME NEW k \in Customers
    PROVE  /\ CreateForContact(k) \in Conversation
           /\ CreateForContact(k).of = k /\ CreateForContact(k).status = "OPEN"
           /\ CreateForContact(k).owner = None /\ CreateForContact(k).window = 0
  <1>1. NoConversation \in Conversation
    BY ChatAssumption DEF NoConversation, Conversation, Times
  <1> QED
    BY <1>1 DEF CreateForContact, NoConversation, Conversation

LEMMA InboundRow ==
    ASSUME NEW row \in Conversation, NEW at \in 1..MaxTime
    PROVE  LET new == UpdateAfterInbound(row, at)
           IN  /\ new \in Conversation /\ new.of = row.of /\ new.status = row.status
               /\ new.owner = row.owner /\ new.window > 0
  <1>1. at \in Times /\ at + Window \in Times /\ at + Window > 0
    BY ChatAssumption DEF Times
  <1>2. row.unread + 1 \in Nat
    BY DEF Conversation
  <1> DEFINE new == UpdateAfterInbound(row, at)
  <1>3. new = [row EXCEPT !.last = at, !.unread = row.unread + 1, !.window = at + Window,
                          !.waiting = FALSE]
    BY DEF UpdateAfterInbound
  <1> HIDE DEF new
  <1>4. /\ new \in Conversation /\ new.of = row.of /\ new.status = row.status
        /\ new.owner = row.owner /\ new.window = at + Window
    BY <1>1, <1>2, <1>3 DEF Conversation
  <1> USE DEF new
  <1> QED
    BY <1>1, <1>4

LEMMA OutboundRow ==
    ASSUME NEW row \in Conversation, NEW at \in 1..MaxTime, NEW w \in Outbound,
           NEW new \in {UpdateAfterTemplate(row, at, w), UpdateLastMessageAt(row, at)}
    PROVE  /\ new \in Conversation /\ new.of = row.of /\ new.status = row.status
           /\ new.owner = row.owner /\ new.window = row.window
  <1>1. at \in Times
    BY ChatAssumption DEF Times
  <1>2. CASE new = UpdateAfterTemplate(row, at, w)
    BY <1>1, <1>2 DEF UpdateAfterTemplate, Conversation, STATUS
  <1>3. CASE new = UpdateLastMessageAt(row, at)
    BY <1>1, <1>3 DEF UpdateLastMessageAt, Conversation
  <1> QED
    BY <1>2, <1>3

LEMMA InsertMessageRows ==
    ASSUME ChatInv, NEW p \in Requests, NEW c \in Conversations, InsertMessage(p, c)
    PROVE  LET m == proc[p].msg
           IN  /\ conv' \in [Conversations -> Conversation]
               /\ \A d \in Conversations \ {c} : conv'[d] = conv[d]
               /\ \/ /\ proc[p].on = 0 /\ Fresh(c) /\ conv'[c].of = Contact(p)
                     /\ conv'[c].status = "OPEN" /\ conv'[c].owner = None
                  \/ /\ proc[p].on = c /\ Exists(c) /\ conv'[c].of = conv[c].of
                     /\ conv'[c].status = conv[c].status /\ conv'[c].owner = conv[c].owner
               /\ conv'[c].window > 0
               /\ m \in Inbound /\ Contact(p) \in Customers /\ ~Stored(m)
               /\ msg' \in [Messages -> Message]
               /\ \A w \in Messages \ {m} : msg'[w] = msg[w]
               /\ msg'[m].conv = c /\ msg'[m].status = "RECEIVED" /\ msg'[m].kind = "inbound"
  <1> DEFINE m == proc[p].msg
             row == IF proc[p].on = 0 THEN CreateForContact(Contact(p)) ELSE conv[c]
  <1>1. /\ m \in Inbound /\ m \in Messages /\ wrote[m] \in 1..MaxTime
        /\ Contact(p) = Author[m] /\ Contact(p) \in Customers
    BY ChatAssumption DEF ChatInv, ProcInv, Carries, MetaInv, InsertMessage, At, Messages,
       Contact
  <1>2. /\ conv \in [Conversations -> Conversation] /\ msg \in [Messages -> Message]
    BY DEF ChatInv, TypeInv
  <1>3. /\ conv' = [conv EXCEPT ![c] = UpdateAfterInbound(row, wrote[m])] /\ ~Stored(m)
        /\ msg' = [msg EXCEPT ![m] = [conv |-> c, status |-> "RECEIVED", kind |-> "inbound"]]
    BY DEF InsertMessage
  <1>4. /\ row \in Conversation
        /\ \/ /\ proc[p].on = 0 /\ Fresh(c) /\ row.of = Contact(p)
              /\ row.status = "OPEN" /\ row.owner = None
           \/ proc[p].on = c /\ Exists(c) /\ row = conv[c]
    <2>1. CASE proc[p].on = 0
      BY <1>1, <2>1, NewRow DEF InsertMessage
    <2>2. CASE proc[p].on # 0
      BY <1>2, <2>2 DEF InsertMessage
    <2> QED
      BY <2>1, <2>2
  <1> HIDE DEF row
  <1>5. LET new == UpdateAfterInbound(row, wrote[m])
        IN  /\ new \in Conversation /\ new.of = row.of /\ new.status = row.status
            /\ new.owner = row.owner /\ new.window > 0
    BY <1>1, <1>4, InboundRow
  <1>6. [conv |-> c, status |-> "RECEIVED", kind |-> "inbound"] \in Message
    BY DEF Message
  <1> QED
    BY <1>1, <1>2, <1>3, <1>4, <1>5, <1>6

LEMMA CreateRows ==
    ASSUME ChatInv, NEW c \in Conversations, NEW k \in Customers,
           conv' = [conv EXCEPT ![c] = CreateForContact(k)]
    PROVE  /\ conv' \in [Conversations -> Conversation]
           /\ \A d \in Conversations \ {c} : conv'[d] = conv[d]
           /\ conv'[c].of = k /\ conv'[c].status = "OPEN"
           /\ conv'[c].owner = None /\ conv'[c].window = 0
  BY NewRow DEF ChatInv, TypeInv

LEMMA PersistOutboundRows ==
    ASSUME ChatInv, NEW p \in Requests, PersistOutbound(p), Exists(proc[p].on)
    PROVE  LET w == proc[p].msg
               c == proc[p].on
           IN  /\ c \in Conversations /\ w \in Outbound
               /\ conv' \in [Conversations -> Conversation]
               /\ \A d \in Conversations : /\ conv'[d].of = conv[d].of
                                           /\ conv'[d].status = conv[d].status
                                           /\ conv'[d].owner = conv[d].owner
                                           /\ conv'[d].window = conv[d].window
               /\ \A d \in Conversations \ {c} : conv'[d] = conv[d]
               /\ msg' \in [Messages -> Message]
               /\ \A v \in Messages \ {w} : msg'[v] = msg[v]
               /\ msg'[w].conv = c /\ msg'[w].kind = proc[p].val /\ msg'[w].status = "SENT"
  <1> DEFINE w == proc[p].msg
             c == proc[p].on
             new == IF proc[p].val = "template" THEN UpdateAfterTemplate(conv[c], now, w)
                    ELSE UpdateLastMessageAt(conv[c], now)
  <1>1. /\ c \in Conversations /\ w \in Outbound /\ w \in Messages
        /\ proc[p].val \in {"free", "template"} /\ now \in 1..MaxTime
    BY DEF ChatInv, ProcInv, Carries, MetaInv, PersistOutbound, At, Messages
  <1>2. conv \in [Conversations -> Conversation] /\ msg \in [Messages -> Message]
    BY DEF ChatInv, TypeInv
  <1>3. /\ conv' = [conv EXCEPT ![c] = new]
        /\ msg' = [msg EXCEPT ![w] = [conv |-> c, status |-> "SENT", kind |-> proc[p].val]]
    BY <1>1, <1>2 DEF PersistOutbound
  <1>4. new \in {UpdateAfterTemplate(conv[c], now, w), UpdateLastMessageAt(conv[c], now)}
    OBVIOUS
  <1> HIDE DEF new
  <1>5. /\ new \in Conversation /\ new.of = conv[c].of /\ new.status = conv[c].status
        /\ new.owner = conv[c].owner /\ new.window = conv[c].window
    BY <1>1, <1>2, <1>4, OutboundRow
  <1>6. [conv |-> c, status |-> "SENT", kind |-> proc[p].val] \in Message
    BY <1>1 DEF Message, STATUS
  <1> QED
    BY <1>1, <1>2, <1>3, <1>5, <1>6

LEMMA UpdateConversationRows ==
    ASSUME ChatInv, NEW p \in Requests, UpdateConversation(p), Exists(proc[p].on)
    PROVE  LET c == proc[p].on
           IN  /\ conv' \in [Conversations -> Conversation]
               /\ \A d \in Conversations \ {c} : conv'[d] = conv[d]
               /\ conv'[c].of = conv[c].of /\ conv'[c].owner = conv[c].owner
               /\ conv'[c].window = conv[c].window
               /\ \/ conv'[c].status = conv[c].status
                  \/ conv'[c].status = proc[p].val /\ proc[p].val \in {"OPEN", "CLOSED"}
  <1> DEFINE c == proc[p].on
  <1>1. c \in Conversations /\ conv \in [Conversations -> Conversation]
    BY DEF ChatInv, TypeInv, Exists
  <1>2. CASE At(p, "read")
    <2>1. conv' = [conv EXCEPT ![c].unread = 0]
      BY <1>2 DEF UpdateConversation
    <2> QED
      BY <1>1, <2>1 DEF Conversation
  <1>3. CASE ~At(p, "read")
    <2>1. conv' = [conv EXCEPT ![c].status = proc[p].val] /\ proc[p].val \in {"OPEN", "CLOSED"}
      BY <1>3 DEF UpdateConversation, ChatInv, ProcInv, Carries, At
    <2> QED
      BY <1>1, <2>1 DEF Conversation
  <1> QED
    BY <1>2, <1>3

LEMMA DeleteByIdRows ==
    ASSUME ChatInv, NEW p \in Requests, DeleteById(p), Exists(proc[p].on)
    PROVE  LET c == proc[p].on
           IN  /\ c \in Conversations /\ conv' \in [Conversations -> Conversation]
               /\ \A d \in Conversations \ {c} : conv'[d] = conv[d] /\ history'[d] = history[d]
               /\ conv'[c].of = None /\ conv'[c].status = "deleted"
               /\ conv'[c].owner = None /\ conv'[c].window = 0
               /\ msg' \in [Messages -> Message]
               /\ \A w \in Messages : IF msg[w].conv = c
                                      THEN msg'[w].status = "none" /\ msg'[w].kind = "none"
                                      ELSE msg'[w] = msg[w]
               /\ perm' \in [Conversations -> Permission]
  <1> DEFINE c == proc[p].on
             gone == [NoConversation EXCEPT !.status = "deleted"]
  <1>1. /\ c \in Conversations /\ conv \in [Conversations -> Conversation]
        /\ msg \in [Messages -> Message] /\ perm \in [Conversations -> Permission]
    BY DEF ChatInv, TypeInv, Exists
  <1>2. /\ conv' = [conv EXCEPT ![c] = gone]
        /\ msg' = [w \in Messages |-> IF msg[w].conv = c THEN NoMessage ELSE msg[w]]
        /\ perm' = [perm EXCEPT ![c] = NoPermission]
        /\ history' = [history EXCEPT ![c] = NoHistory]
    BY DEF DeleteById
  <1>3. /\ gone \in Conversation /\ gone.of = None /\ gone.status = "deleted"
        /\ gone.owner = None /\ gone.window = 0
    <2>1. /\ NoConversation \in Conversation /\ NoConversation.of = None
          /\ NoConversation.owner = None /\ NoConversation.window = 0
      BY ChatAssumption DEF NoConversation, Conversation, Times
    <2> QED
      BY <2>1 DEF Conversation
  <1>4. NoMessage \in Message /\ NoMessage.status = "none" /\ NoMessage.kind = "none"
    BY DEF NoMessage, Message
  <1>5. NoPermission \in Permission
    BY ChatAssumption DEF NoPermission, Permission, Times
  <1>6. history \in [Conversations -> Assignment]
    BY DEF ChatInv, MetaInv
  <1> HIDE DEF gone
  <1> QED
    BY <1>1, <1>2, <1>3, <1>4, <1>5, <1>6

LEMMA UpdateAssignmentRows ==
    ASSUME ChatInv, NEW p \in Requests, UpdateAssignment(p)
    PROVE  \/ conv' = conv /\ history' = history
           \/ LET c == proc[p].on
              IN  /\ c \in Conversations /\ Exists(c)
                  /\ conv' \in [Conversations -> Conversation]
                  /\ \A d \in Conversations \ {c} : conv'[d] = conv[d] /\ history'[d] = history[d]
                  /\ conv'[c].of = conv[c].of /\ conv'[c].status = conv[c].status
                  /\ conv'[c].owner = proc[p].to /\ conv'[c].window = conv[c].window
                  /\ history'[c].target = proc[p].to /\ ~ history'[c].overtaken
                  /\ history' \in [Conversations -> Assignment]
  <1> DEFINE c == proc[p].on
             stands == IF proc[p].val = "CLAIM" /\ proc[p].seen = None
                       THEN ClaimIfUnassigned(c) ELSE Exists(c)
  <1>1. conv \in [Conversations -> Conversation] /\ proc[p].to \in Agents \cup {None}
    BY DEF ChatInv, TypeInv, ProcInv, Carries, UpdateAssignment, At
  <1>2. history \in [Conversations -> Assignment]
    BY DEF ChatInv, MetaInv
  <1>3. CASE stands
    <2>1. Exists(c) /\ c \in Conversations
      BY <1>3 DEF ClaimIfUnassigned, Exists
    <2>2. /\ conv' = [conv EXCEPT ![c].owner = proc[p].to]
          /\ history' = [history EXCEPT ![c] = Record(proc[p].val, proc[p].to)]
      BY <1>3 DEF UpdateAssignment
    <2>3. /\ conv' \in [Conversations -> Conversation]
          /\ \A d \in Conversations \ {c} : conv'[d] = conv[d]
          /\ conv'[c].of = conv[c].of /\ conv'[c].status = conv[c].status
          /\ conv'[c].owner = proc[p].to /\ conv'[c].window = conv[c].window
      BY <1>1, <2>1, <2>2 DEF Conversation
    <2>4. Record(proc[p].val, proc[p].to) \in Assignment
      BY <1>1 DEF Record, Assignment, ChatInv, ProcInv, Carries, UpdateAssignment, At
    <2>5. /\ \A d \in Conversations \ {c} : history'[d] = history[d]
          /\ history'[c] = Record(proc[p].val, proc[p].to)
          /\ history' \in [Conversations -> Assignment]
      BY <1>2, <2>1, <2>2, <2>4
    <2> QED
      BY <2>1, <2>3, <2>5 DEF Record
  <1>4. CASE ~stands
    BY <1>4 DEF UpdateAssignment
  <1> QED
    BY <1>3, <1>4

LEMMA TemplateStatusRows ==
    ASSUME ChatInv, NEW p \in Requests, UpdateInitialTemplateStatus(p)
    PROVE  LET w == proc[p].msg
           IN  /\ w \in Outbound /\ w \in Messages
               /\ conv' \in [Conversations -> Conversation]
               /\ \A d \in Conversations : /\ conv'[d].of = conv[d].of
                                           /\ conv'[d].status = conv[d].status
                                           /\ conv'[d].owner = conv[d].owner
                                           /\ conv'[d].window = conv[d].window
               /\ \A d \in Conversations : conv[d].status = "none" => conv'[d] = conv[d]
               /\ msg' \in [Messages -> Message]
               /\ \A v \in Messages \ {w} : msg'[v] = msg[v]
               /\ msg'[w].conv = msg[w].conv /\ msg'[w].kind = msg[w].kind
               /\ msg'[w].status # "none"
  <1> DEFINE w == proc[p].msg
             c == proc[p].on
             s == proc[p].val
  <1>1. /\ w \in Outbound /\ w \in Messages /\ s \in STATUS /\ c \in Conversations
        /\ proc[p].seen = w => conv[c].status # "none"
    BY DEF ChatInv, ProcInv, Carries, UpdateInitialTemplateStatus, At, Messages
  <1>2. conv \in [Conversations -> Conversation] /\ msg \in [Messages -> Message]
    BY DEF ChatInv, TypeInv
  <1>3. msg' = [msg EXCEPT ![w].status = s] /\ s # "none"
    BY <1>1 DEF UpdateInitialTemplateStatus, STATUS
  <1>4. /\ msg' \in [Messages -> Message]
        /\ \A v \in Messages \ {w} : msg'[v] = msg[v]
        /\ msg'[w].conv = msg[w].conv /\ msg'[w].kind = msg[w].kind
        /\ msg'[w].status # "none"
    BY <1>1, <1>2, <1>3 DEF Message
  <1>5. CASE proc[p].seen = w
    <2>1. conv' = [conv EXCEPT ![c].templateStatus = s]
      BY <1>5 DEF UpdateInitialTemplateStatus
    <2>2. /\ conv' \in [Conversations -> Conversation]
          /\ \A d \in Conversations : /\ conv'[d].of = conv[d].of
                                      /\ conv'[d].status = conv[d].status
                                      /\ conv'[d].owner = conv[d].owner
                                      /\ conv'[d].window = conv[d].window
          /\ \A d \in Conversations \ {c} : conv'[d] = conv[d]
      BY <1>1, <1>2, <2>1 DEF Conversation
    <2> QED
      BY <1>1, <1>4, <1>5, <2>2
  <1>6. CASE proc[p].seen # w
    <2>1. conv' = conv
      BY <1>6 DEF UpdateInitialTemplateStatus
    <2> QED
      BY <1>1, <1>2, <1>4, <2>1
  <1> QED
    BY <1>5, <1>6

-----------------------------------------------------------------------------
(* Every step keeps ChatInv.                                                *)
LEMMA ProcessInboundStep ==
    ASSUME ChatInv, NEW p \in Requests, NEW m \in Inbound,
           ProcessInbound(p, m)
    PROVE  ChatInv'
  <1>1. /\ proc' \in [Requests -> Local] /\ \A q \in Requests \ {p} : proc'[q] = proc[q]
    <2> DEFINE local == [Idle EXCEPT !.at = "receive", !.msg = m]
    <2>1. local \in Local /\ local.at = "receive" /\ local.msg = m /\ "inbound" \in Operations
      BY IdleIsLocal DEF Local, Idle, Points, Operations, Messages
    <2>2. Begin(p, "inbound", local)
      BY DEF ProcessInbound
    <2> HIDE DEF local
    <2> QED
      BY <2>1, <2>2, BeginMoves DEF ChatInv
  <1>2. /\ \A d \in Conversations : conv[d].status # "none" => conv'[d].status # "none"
        /\ \A n \in Inbound : wrote[n] > 0 => wrote'[n] > 0
    BY DEF ProcessInbound, tables, meta
  <1>3. Carries(p)'
    BY DEF Carries, ProcessInbound, Begin, meta, At
  <1>4. ProcInv'
    BY <1>1, <1>2, <1>3, CarriesStays DEF ChatInv, ProcInv
  <1>5. TypeInv'
    BY ChatAssumption DEF ChatInv, TypeInv, ProcessInbound, Begin, tables, meta
  <1>6. MetaInv'
    BY DEF ChatInv, MetaInv, ProcessInbound, tables, meta
  <1>7. HistoryInv'
    BY DEF ChatInv, HistoryInv, Exists, ProcessInbound, tables
  <1>8. LockInv'
    BY DEF ChatInv, LockInv, InTransaction, Held, Contact, Opened, Stored, ProcessInbound,
       Begin, tables, world, At
  <1>9. WindowInv'
    BY DEF ChatInv, WindowInv, Exists, Stored, ProcessInbound, Begin, tables
  <1>10. OneOpenConversation'
    BY DEF ChatInv, OneOpenConversation, Opened, ProcessInbound, tables
  <1>11. FreeTextFollowsCustomer'
    BY DEF ChatInv, FreeTextFollowsCustomer, Stored, ProcessInbound, tables
  <1> QED
    BY <1>4, <1>5, <1>6, <1>7, <1>8, <1>9, <1>10, <1>11 DEF ChatInv

LEMMA FindByWamidStep ==
    ASSUME ChatInv, NEW p \in Requests,
           FindByWamid(p)
    PROVE  ChatInv'
  <1>1. /\ proc' \in [Requests -> Local] /\ \A q \in Requests \ {p} : proc'[q] = proc[q]
        /\ proc'[p] = Idle \/ (proc'[p].at = "upsert" /\ Keeps(p))
    BY GotoMoves, FinishMoves DEF ChatInv, Points, FindByWamid
  <1>2. /\ \A d \in Conversations : conv[d].status # "none" => conv'[d].status # "none"
        /\ \A n \in Inbound : wrote[n] > 0 => wrote'[n] > 0
    BY DEF FindByWamid, tables, meta
  <1>3. Carries(p)'
    <2>1. \/ proc'[p] = Idle
          \/ wrote' = wrote /\ At(p, "receive") /\ Carries(p)
      BY DEF ChatInv, ProcInv, FindByWamid, meta
    <2> QED
      BY <1>1, <2>1, IdleFields DEF Carries, Keeps, At
  <1>4. ProcInv'
    BY <1>1, <1>2, <1>3, CarriesStays DEF ChatInv, ProcInv
  <1>5. TypeInv'
    BY DEF ChatInv, TypeInv, FindByWamid, Handling, Goto, Finish, tables, meta
  <1>6. MetaInv'
    BY DEF ChatInv, MetaInv, FindByWamid, tables, meta
  <1>7. HistoryInv'
    BY DEF ChatInv, HistoryInv, Exists, FindByWamid, tables
  <1>8. LockInv'
    BY <1>1, LockFrame, IdleFields DEF ChatInv, LockInv, FindByWamid, tables
  <1>9. WindowInv'
    BY <1>1, WindowFrame, IdleFields DEF FindByWamid, tables
  <1>10. OneOpenConversation'
    BY DEF ChatInv, OneOpenConversation, Opened, FindByWamid, tables
  <1>11. FreeTextFollowsCustomer'
    BY DEF ChatInv, FreeTextFollowsCustomer, Stored, FindByWamid, tables
  <1> QED
    BY <1>4, <1>5, <1>6, <1>7, <1>8, <1>9, <1>10, <1>11 DEF ChatInv

LEMMA UpsertByWaIdStep ==
    ASSUME ChatInv, NEW p \in Requests,
           UpsertByWaId(p)
    PROVE  ChatInv'
  <1>1. /\ proc' \in [Requests -> Local] /\ \A q \in Requests \ {p} : proc'[q] = proc[q]
        /\ /\ proc'[p].at = "insert" /\ proc'[p].on = FindOpen(Contact(p))
           /\ proc'[p].op = proc[p].op /\ proc'[p].msg = proc[p].msg /\ proc'[p].to = proc[p].to
    <2> DEFINE local == [proc[p] EXCEPT !.at = "insert", !.on = FindOpen(Contact(p))]
    <2>1. proc[p] \in Local /\ FindOpen(Contact(p)) \in Conversations \cup {0}
      BY FoundOpen DEF ChatInv, ProcInv
    <2>2. local \in Local
      BY <2>1 DEF Local, Points
    <2>3. /\ local.at = "insert"
          /\ local.on = FindOpen(Contact(p))
          /\ local.op = proc[p].op
          /\ local.msg = proc[p].msg
          /\ local.to = proc[p].to
      BY <2>1 DEF Local
    <2>4. Handling(p, local)
      BY DEF UpsertByWaId
    <2> HIDE DEF local
    <2> QED
      BY <2>1, <2>2, <2>3, <2>4, HandlingMoves DEF ChatInv
  <1>2. /\ \A d \in Conversations : conv[d].status # "none" => conv'[d].status # "none"
        /\ \A n \in Inbound : wrote[n] > 0 => wrote'[n] > 0
    BY DEF UpsertByWaId, tables, meta
  <1>3. Carries(p)'
    BY DEF ChatInv, ProcInv, Carries, UpsertByWaId, Handling, meta, At
  <1>4. ProcInv'
    BY <1>1, <1>2, <1>3, CarriesStays DEF ChatInv, ProcInv
  <1>5. TypeInv'
    BY ChatAssumption DEF ChatInv, TypeInv, ProcInv, Carries, Contact, UpsertByWaId,
       Handling, Lock, tables, meta, At
  <1>6. MetaInv'
    BY DEF ChatInv, MetaInv, UpsertByWaId, tables, meta
  <1>7. HistoryInv'
    BY Zenon DEF ChatInv, HistoryInv, Exists, UpsertByWaId, tables
  <1>8. LockInv'
    BY <1>1, <1>3, ChatAssumption, FoundOpen DEF ChatInv, LockInv, InTransaction, Held,
       Contact, Opened, Stored, Message, ProcInv, Carries, TypeInv, Conversation,
       NoConversation, Idle, Messages, HistoryInv, Exists, UpsertByWaId, Handling, Goto,
       Finish, Lock, tables, meta, world, At, STATUS, PERMISSION
  <1>9. WindowInv'
    BY DEF ChatInv, WindowInv, Exists, Stored, UpsertByWaId, Handling, tables
  <1>10. OneOpenConversation'
    BY DEF ChatInv, OneOpenConversation, Opened, UpsertByWaId, tables
  <1>11. FreeTextFollowsCustomer'
    BY DEF ChatInv, FreeTextFollowsCustomer, Stored, UpsertByWaId, tables
  <1> QED
    BY <1>4, <1>5, <1>6, <1>7, <1>8, <1>9, <1>10, <1>11 DEF ChatInv

LEMMA InsertFailsStep ==
    ASSUME ChatInv, NEW p \in Requests,
           InsertFails(p)
    PROVE  ChatInv'
  <1>1. /\ proc' \in [Requests -> Local] /\ \A q \in Requests \ {p} : proc'[q] = proc[q]
        /\ proc'[p] = Idle
    BY GotoMoves, FinishMoves DEF ChatInv, Points, InsertFails
  <1>2. /\ \A d \in Conversations : conv[d].status # "none" => conv'[d].status # "none"
        /\ \A n \in Inbound : wrote[n] > 0 => wrote'[n] > 0
    BY DEF InsertFails, tables, meta
  <1>3. Carries(p)'
    BY DEF ChatInv, ProcInv, Carries, Idle, InsertFails, Handling, Finish
  <1>4. ProcInv'
    BY <1>1, <1>2, <1>3, CarriesStays DEF ChatInv, ProcInv
  <1>5. TypeInv'
    BY DEF ChatInv, TypeInv, InsertFails, Handling, Finish, Unlock, tables, meta
  <1>6. MetaInv'
    BY DEF ChatInv, MetaInv, InsertFails, tables, meta
  <1>7. HistoryInv'
    BY Zenon DEF ChatInv, HistoryInv, Exists, InsertFails, tables
  <1>8. LockInv'
    BY <1>1, <1>3, ChatAssumption DEF ChatInv, LockInv, InTransaction, Held, Contact,
       Opened, Stored, Message, ProcInv, Carries, TypeInv, Conversation, NoConversation,
       Idle, Messages, HistoryInv, Exists, InsertFails, Handling, Goto, Finish, Unlock,
       tables, meta, world, At, STATUS, PERMISSION
  <1>9. WindowInv'
    BY <1>1 DEF ChatInv, WindowInv, Exists, Stored, Idle, InsertFails, tables
  <1>10. OneOpenConversation'
    BY DEF ChatInv, OneOpenConversation, Opened, InsertFails, tables
  <1>11. FreeTextFollowsCustomer'
    BY DEF ChatInv, FreeTextFollowsCustomer, Stored, InsertFails, tables
  <1> QED
    BY <1>4, <1>5, <1>6, <1>7, <1>8, <1>9, <1>10, <1>11 DEF ChatInv

LEMMA InsertMessageStep ==
    ASSUME ChatInv, NEW p \in Requests, NEW c \in Conversations,
           InsertMessage(p, c)
    PROVE  ChatInv'
  <1>1. /\ proc' \in [Requests -> Local] /\ \A q \in Requests \ {p} : proc'[q] = proc[q]
        /\ proc'[p] = Idle
    BY GotoMoves, FinishMoves DEF ChatInv, Points, InsertMessage
  <1>2. /\ \A d \in Conversations : conv[d].status # "none" => conv'[d].status # "none"
        /\ \A n \in Inbound : wrote[n] > 0 => wrote'[n] > 0
    BY DEF InsertMessage, CreateForContact, UpdateAfterInbound, meta
  <1>3. Carries(p)'
    BY DEF ChatInv, ProcInv, Carries, Idle, InsertMessage, Handling, Finish
  <1>4. ProcInv'
    BY Zenon, <1>1, <1>2, <1>3, CarriesStays DEF ChatInv, ProcInv
  <1>5. TypeInv'
    BY InsertMessageRows DEF ChatInv, TypeInv, InsertMessage, Unlock, Finish, Handling,
       tables, meta
  <1>6. MetaInv'
    BY DEF ChatInv, MetaInv, InsertMessage, meta
  <1>7. HistoryInv'
    <2>1. history' = history /\ (Fresh(c) /\ ~ history[c].overtaken => history[c].target = None)
      BY DEF InsertMessage, ChatInv, HistoryInv, NoConversation, Fresh
    <2> QED
      BY <2>1, InsertMessageRows DEF ChatInv, HistoryInv, Exists
  <1>8. LockInv'
    BY <1>1, <1>3, ChatAssumption DEF ChatInv, LockInv, InTransaction, Held, Contact,
       Opened, Stored, Message, ProcInv, Carries, TypeInv, Conversation, NoConversation,
       Idle, Messages, HistoryInv, Exists, InsertMessage, Handling, Goto, Finish, Unlock,
       Fresh, CreateForContact, UpdateAfterInbound, tables, meta, world, At, STATUS,
       PERMISSION
  <1>9. WindowInv'
    BY <1>1, ChatAssumption DEF ChatInv, WindowInv, Exists, Stored, ProcInv, Carries,
       TypeInv, Conversation, Message, NoConversation, Messages, HistoryInv, Idle, MetaInv,
       InsertMessage, Handling, Finish, Fresh, CreateForContact, UpdateAfterInbound, At,
       STATUS, PERMISSION
  <1>10. OneOpenConversation'
    BY DEF ChatInv, OneOpenConversation, LockInv, Opened, InsertMessage, CreateForContact,
       UpdateAfterInbound
  <1>11. FreeTextFollowsCustomer'
    BY DEF ChatInv, FreeTextFollowsCustomer, Stored, InsertMessage
  <1> QED
    BY <1>4, <1>5, <1>6, <1>7, <1>8, <1>9, <1>10, <1>11 DEF ChatInv

LEMMA CreateConversationStep ==
    ASSUME ChatInv, NEW p \in Requests, NEW k \in Customers,
           CreateConversation(p, k)
    PROVE  ChatInv'
  <1>1. /\ proc' \in [Requests -> Local] /\ \A q \in Requests \ {p} : proc'[q] = proc[q]
    <2> DEFINE local == [Idle EXCEPT !.at = "upsert", !.to = k]
    <2>1. local \in Local /\ local.at = "upsert" /\ local.to = k /\ "create" \in Operations
      BY IdleIsLocal DEF Local, Idle, Points, Operations
    <2>2. Begin(p, "create", local)
      BY DEF CreateConversation
    <2> HIDE DEF local
    <2> QED
      BY <2>1, <2>2, BeginMoves DEF ChatInv
  <1>2. /\ \A d \in Conversations : conv[d].status # "none" => conv'[d].status # "none"
        /\ \A n \in Inbound : wrote[n] > 0 => wrote'[n] > 0
    BY DEF CreateConversation, tables, meta
  <1>3. Carries(p)'
    BY DEF ChatInv, ProcInv, Carries, CreateConversation, Begin
  <1>4. ProcInv'
    BY <1>1, <1>2, <1>3, CarriesStays DEF ChatInv, ProcInv
  <1>5. TypeInv'
    BY ChatAssumption DEF ChatInv, TypeInv, CreateConversation, Begin, tables, meta
  <1>6. MetaInv'
    BY DEF ChatInv, MetaInv, CreateConversation, tables, meta
  <1>7. HistoryInv'
    BY DEF ChatInv, HistoryInv, Exists, CreateConversation, tables
  <1>8. LockInv'
    BY DEF ChatInv, LockInv, InTransaction, Held, Contact, Opened, Stored,
       CreateConversation, Begin, tables, world, At
  <1>9. WindowInv'
    BY DEF ChatInv, WindowInv, Exists, Stored, CreateConversation, Begin, tables
  <1>10. OneOpenConversation'
    BY DEF ChatInv, OneOpenConversation, Opened, CreateConversation, tables
  <1>11. FreeTextFollowsCustomer'
    BY DEF ChatInv, FreeTextFollowsCustomer, Stored, CreateConversation, tables
  <1> QED
    BY <1>4, <1>5, <1>6, <1>7, <1>8, <1>9, <1>10, <1>11 DEF ChatInv

LEMMA CreateOrReuseStep ==
    ASSUME ChatInv, NEW p \in Requests, NEW c \in Conversations,
           CreateOrReuse(p, c)
    PROVE  ChatInv'
  <1>1. /\ proc' \in [Requests -> Local] /\ \A q \in Requests \ {p} : proc'[q] = proc[q]
        /\ proc'[p] = Idle
    BY GotoMoves, FinishMoves DEF ChatInv, Points, CreateOrReuse
  <1>2. /\ \A d \in Conversations : conv[d].status # "none" => conv'[d].status # "none"
        /\ \A n \in Inbound : wrote[n] > 0 => wrote'[n] > 0
    BY DEF ChatInv, TypeInv, CreateOrReuse, Fresh, meta
  <1>3. Carries(p)'
    BY DEF ChatInv, ProcInv, Carries, Idle, CreateOrReuse, Handling, Finish
  <1>4. ProcInv'
    BY <1>1, <1>2, <1>3, CarriesStays DEF ChatInv, ProcInv
  <1>5. TypeInv'
    <2>1. CASE (proc[p].on = 0)
      <3>1. Fresh(c) /\ conv' = [conv EXCEPT ![c] = CreateForContact(Contact(p))]
        BY <2>1 DEF CreateOrReuse
      <3>2. Contact(p) \in Customers
        BY DEF ChatInv, ProcInv, Carries, CreateOrReuse, Contact, At
      <3>a. /\ conv' \in [Conversations -> Conversation]
            /\ \A d \in Conversations \ {c} : conv'[d] = conv[d]
            /\ conv'[c].of = Contact(p) /\ conv'[c].status = "OPEN"
            /\ conv'[c].owner = None /\ conv'[c].window = 0
        BY <3>1, <3>2, CreateRows
      <3> QED
        BY <3>a DEF ChatInv, TypeInv, CreateOrReuse, Unlock, Finish, Handling, meta
    <2>2. CASE ~(proc[p].on = 0)
      BY <2>2 DEF ChatInv, TypeInv, CreateOrReuse, Unlock, Finish, Handling, meta
    <2> QED
      BY <2>1, <2>2
  <1>6. MetaInv'
    BY DEF ChatInv, MetaInv, CreateOrReuse, meta
  <1>7. HistoryInv'
    <2>1. CASE (proc[p].on = 0)
      <3>1. Fresh(c) /\ conv' = [conv EXCEPT ![c] = CreateForContact(Contact(p))]
        BY <2>1 DEF CreateOrReuse
      <3>2. Contact(p) \in Customers
        BY DEF ChatInv, ProcInv, Carries, CreateOrReuse, Contact, At
      <3>a. /\ conv' \in [Conversations -> Conversation]
            /\ \A d \in Conversations \ {c} : conv'[d] = conv[d]
            /\ conv'[c].of = Contact(p) /\ conv'[c].status = "OPEN"
            /\ conv'[c].owner = None /\ conv'[c].window = 0
        BY <3>1, <3>2, CreateRows
      <3>3. history' = history /\ (~ history[c].overtaken => history[c].target = None)
        BY <3>1 DEF CreateOrReuse, ChatInv, HistoryInv, NoConversation, Fresh
      <3> QED
        BY <3>1, <3>2, <3>3, CreateRows DEF ChatInv, HistoryInv, Exists
    <2>2. CASE ~(proc[p].on = 0)
      BY <2>2 DEF ChatInv, HistoryInv, CreateOrReuse, Exists
    <2> QED
      BY <2>1, <2>2
  <1>8. LockInv'
    <2>1. /\ \A q \in Requests \ {p} : InTransaction(q) => Held(q) \in locked' /\ Held(q) # Contact(p)
          /\ At(p, "insert") /\ Contact(p) \in Customers
      <3>1. InTransaction(p) /\ Held(p) = Contact(p) /\ At(p, "insert")
        BY DEF CreateOrReuse, At, InTransaction, Held
      <3>2. \A q \in Requests \ {p} : InTransaction(q) => Held(q) \in locked /\ Held(q) # Contact(p)
        BY <3>1 DEF ChatInv, LockInv
      <3> QED
        BY <3>2 DEF CreateOrReuse, Unlock, ChatInv, ProcInv, Carries, At, Contact
    <2>2. CASE (proc[p].on = 0)
      <3>1. conv' = [conv EXCEPT ![c] = CreateForContact(Contact(p))] /\ UNCHANGED <<msg, strays>>
        BY <2>2 DEF CreateOrReuse
      <3>2. ASSUME NEW q \in Requests \ {p}, At(q, "insert"), proc[q].on = 0
            PROVE  Opened(Contact(q))' \subseteq strays'
        <4>1. Contact(q) # Contact(p)
          BY <2>1, <3>2 DEF InTransaction, Held, At
        <4>2. Opened(Contact(q)) \subseteq strays
          BY <3>2 DEF ChatInv, LockInv
        <4>3. Contact(q)' = Contact(q)
          BY <1>1 DEF Contact
        <4>4. Opened(Contact(q))' \subseteq Opened(Contact(q))
          BY <2>1, <3>1, <4>1, <4>3, CreateRows DEF Opened
        <4> QED
          BY <3>1, <4>2, <4>4
      <3>3. \A q \in Requests \ {p} : At(q, "markTemplate") => Stored(proc[q].msg)'
        BY <1>1, <3>1 DEF ChatInv, LockInv, Stored
      <3>4. \A w \in Messages : Stored(w)' => msg'[w].conv \in Conversations
        BY <3>1 DEF ChatInv, LockInv, Stored
      <3> QED
        BY <1>1, <2>1, <3>2, <3>3, <3>4, LockMoves, IdleFields
    <2>3. CASE ~(proc[p].on = 0)
      BY <1>1, <2>1, <2>3, LockFrame, IdleFields DEF CreateOrReuse
    <2> QED
      BY <2>2, <2>3
  <1>9. WindowInv'
    <2>1. CASE (proc[p].on = 0)
      <3>1. Fresh(c) /\ conv' = [conv EXCEPT ![c] = CreateForContact(Contact(p))]
        BY <2>1 DEF CreateOrReuse
      <3>2. Contact(p) \in Customers
        BY DEF ChatInv, ProcInv, Carries, CreateOrReuse, Contact, At
      <3>a. /\ conv' \in [Conversations -> Conversation]
            /\ \A d \in Conversations \ {c} : conv'[d] = conv[d]
            /\ conv'[c].of = Contact(p) /\ conv'[c].status = "OPEN"
            /\ conv'[c].owner = None /\ conv'[c].window = 0
        BY <3>1, <3>2, CreateRows
      <3>3. \A m \in Messages : Stored(m)' <=> Stored(m)
        BY DEF CreateOrReuse, Stored
      <3>4. msg' = msg /\ conv[c].status = "none"
        BY <3>1 DEF CreateOrReuse, Fresh
      <3>5. \A d \in Conversations : conv'[d].window > 0 => conv[d].window > 0
        BY <3>1, <3>2, <3>a
      <3>6. \A d \in Conversations : conv'[d].window > 0 =>
                \E m \in Inbound : Stored(m)' /\ msg'[m].conv = d
        BY <3>3, <3>4, <3>5 DEF ChatInv, WindowInv, Messages
      <3>7. \A d \in Conversations : conv[d].status # "none" /\ Exists(d)' =>
                Exists(d) /\ (conv[d].window > 0 => conv'[d].window > 0)
        BY <3>1, <3>2, <3>4, CreateRows DEF Exists
      <3> QED
        BY <1>1, <3>6, <3>7, WindowMoves, IdleFields
    <2>2. CASE ~(proc[p].on = 0)
      BY <1>1, <2>2, WindowFrame, IdleFields DEF CreateOrReuse
    <2> QED
      BY <2>1, <2>2
  <1>10. OneOpenConversation'
    <2>1. CASE (proc[p].on = 0)
      <3>1. Fresh(c) /\ conv' = [conv EXCEPT ![c] = CreateForContact(Contact(p))]
        BY <2>1 DEF CreateOrReuse
      <3>2. Contact(p) \in Customers
        BY DEF ChatInv, ProcInv, Carries, CreateOrReuse, Contact, At
      <3>a. /\ conv' \in [Conversations -> Conversation]
            /\ \A d \in Conversations \ {c} : conv'[d] = conv[d]
            /\ conv'[c].of = Contact(p) /\ conv'[c].status = "OPEN"
            /\ conv'[c].owner = None /\ conv'[c].window = 0
        BY <3>1, <3>2, CreateRows
      <3>3. Opened(Contact(p)) \subseteq strays /\ strays' = strays
        BY <2>1 DEF ChatInv, LockInv, CreateOrReuse
      <3>4. \A k \in Customers : k # Contact(p) => Opened(k)' \subseteq Opened(k)
        BY <3>1, <3>2, <3>a DEF Opened
      <3>5. \A k \in Customers : k = Contact(p) => Opened(k)' \subseteq Opened(k) \cup {c}
        BY <3>1, <3>2, <3>a DEF Opened
      <3>6. \A k \in Customers : Opened(k)' \subseteq Opened(k)
                                \/ (Opened(k)' \ strays' \subseteq {c})
        <4>1. \A k \in Customers : k = Contact(p) => Opened(k)' \ strays' \subseteq {c}
          BY <3>3, <3>5
        <4> QED
          BY <3>4, <4>1
      <3> QED
        BY <3>3, <3>6 DEF ChatInv, OneOpenConversation
    <2>2. CASE ~(proc[p].on = 0)
      BY <2>2 DEF ChatInv, OneOpenConversation, CreateOrReuse, Opened
    <2> QED
      BY <2>1, <2>2
  <1>11. FreeTextFollowsCustomer'
    BY DEF ChatInv, FreeTextFollowsCustomer, Stored, CreateOrReuse
  <1> QED
    BY <1>4, <1>5, <1>6, <1>7, <1>8, <1>9, <1>10, <1>11 DEF ChatInv

LEMMA ProcessStatusStep ==
    ASSUME ChatInv, NEW p \in Requests, NEW w \in Outbound, NEW s \in STATUS,
           ProcessStatus(p, w, s)
    PROVE  ChatInv'
  <1>1. /\ proc' \in [Requests -> Local] /\ \A q \in Requests \ {p} : proc'[q] = proc[q]
    <2> DEFINE local == [Idle EXCEPT !.at = "mark", !.msg = w, !.val = s]
    <2>1. local \in Local /\ local.at = "mark" /\ local.msg = w /\ local.val = s /\ "status" \in Operations
      BY IdleIsLocal DEF Local, Idle, Points, Operations, Words, Messages
    <2>2. Begin(p, "status", local)
      BY DEF ProcessStatus
    <2> HIDE DEF local
    <2> QED
      BY <2>1, <2>2, BeginMoves DEF ChatInv
  <1>2. /\ \A d \in Conversations : conv[d].status # "none" => conv'[d].status # "none"
        /\ \A n \in Inbound : wrote[n] > 0 => wrote'[n] > 0
    BY DEF ProcessStatus, tables, meta
  <1>3. Carries(p)'
    BY DEF ChatInv, ProcInv, Carries, ProcessStatus, Begin
  <1>4. ProcInv'
    BY <1>1, <1>2, <1>3, CarriesStays DEF ChatInv, ProcInv
  <1>5. TypeInv'
    BY ChatAssumption DEF ChatInv, TypeInv, ProcessStatus, Begin, tables, meta
  <1>6. MetaInv'
    BY DEF ChatInv, MetaInv, ProcessStatus, tables, meta
  <1>7. HistoryInv'
    BY DEF ChatInv, HistoryInv, Exists, ProcessStatus, tables
  <1>8. LockInv'
    BY DEF ChatInv, LockInv, InTransaction, Held, Contact, Opened, Stored, ProcessStatus,
       Begin, tables, world, At
  <1>9. WindowInv'
    BY DEF ChatInv, WindowInv, Exists, Stored, ProcessStatus, Begin, tables
  <1>10. OneOpenConversation'
    BY DEF ChatInv, OneOpenConversation, Opened, ProcessStatus, tables
  <1>11. FreeTextFollowsCustomer'
    BY DEF ChatInv, FreeTextFollowsCustomer, Stored, ProcessStatus, tables
  <1> QED
    BY <1>4, <1>5, <1>6, <1>7, <1>8, <1>9, <1>10, <1>11 DEF ChatInv

LEMMA UpdateStatusByWamidStep ==
    ASSUME ChatInv, NEW p \in Requests,
           UpdateStatusByWamid(p)
    PROVE  ChatInv'
  <1>1. /\ proc' \in [Requests -> Local] /\ \A q \in Requests \ {p} : proc'[q] = proc[q]
        /\ \/ proc'[p] = Idle /\ UNCHANGED locked
           \/ /\ proc'[p].at = "markTemplate" /\ proc'[p].on \in Conversations
              /\ proc'[p].msg = proc[p].msg /\ proc'[p].val = proc[p].val
              /\ proc'[p].seen = proc[p].msg => conv[proc'[p].on].status # "none"
              /\ Stored(proc[p].msg) /\ Lock(proc[p].msg)
    <2> DEFINE w == proc[p].msg
    <2> DEFINE local == [proc[p] EXCEPT !.at = "markTemplate", !.on = msg[w].conv,
                                        !.seen = conv[msg[w].conv].template]
    <2>1. proc[p] \in Local /\ proc[p].msg \in Messages
      BY DEF ChatInv, ProcInv, Carries, Messages, UpdateStatusByWamid, At
    <2>2. CASE Stored(w)
      <3>1. /\ msg[w].conv \in Conversations /\ conv[msg[w].conv].template \in Outbound \cup {None}
            /\ conv[msg[w].conv].template = w => conv[msg[w].conv].status # "none"
        BY SMTT(40), <2>1, <2>2, ChatAssumption DEF ChatInv, LockInv, HistoryInv, TypeInv,
           Conversation, NoConversation
      <3>2. /\ local \in Local /\ local.at = "markTemplate" /\ local.on \in Conversations
            /\ local.msg = proc[p].msg /\ local.val = proc[p].val
            /\ local.seen = conv[msg[w].conv].template /\ local.on = msg[w].conv
        BY <2>1, <3>1 DEF Local, Points
      <3>3. Handling(p, local) /\ Lock(w)
        BY <2>2 DEF UpdateStatusByWamid
      <3> HIDE DEF local
      <3> QED
        BY <2>2, <3>1, <3>2, <3>3, HandlingMoves DEF ChatInv
    <2>3. CASE ~Stored(w)
      BY <2>3, FinishMoves DEF ChatInv, UpdateStatusByWamid
    <2> QED
      BY <2>2, <2>3
  <1>2. /\ \A d \in Conversations : conv[d].status # "none" => conv'[d].status # "none"
        /\ \A n \in Inbound : wrote[n] > 0 => wrote'[n] > 0
    BY DEF UpdateStatusByWamid, tables, meta
  <1>3. Carries(p)'
    <2>1. /\ wrote' = wrote /\ conv' = conv
          /\ proc[p].msg \in Outbound /\ proc[p].val \in STATUS
      BY DEF ChatInv, ProcInv, Carries, UpdateStatusByWamid, At, meta, tables
    <2> QED
      BY <1>1, <2>1, IdleFields DEF Carries
  <1>4. ProcInv'
    BY <1>1, <1>2, <1>3, CarriesStays DEF ChatInv, ProcInv
  <1>5. TypeInv'
    BY DEF ChatInv, TypeInv, ProcInv, Carries, Messages, UpdateStatusByWamid, Handling,
       Finish, Lock, tables, meta, At
  <1>6. MetaInv'
    BY DEF ChatInv, MetaInv, UpdateStatusByWamid, tables, meta
  <1>7. HistoryInv'
    BY DEF ChatInv, HistoryInv, Exists, UpdateStatusByWamid, tables
  <1>8. LockInv'
    <2>1. UNCHANGED <<conv, msg, strays>>
      BY DEF UpdateStatusByWamid, tables
    <2>2. CASE proc'[p] = Idle /\ UNCHANGED locked
      BY <1>1, <2>1, <2>2, LockFrame, IdleFields DEF ChatInv, LockInv
    <2>3. CASE proc'[p] # Idle \/ locked' # locked
      <3> DEFINE w == proc[p].msg
      <3>1. /\ proc'[p].at = "markTemplate" /\ proc'[p].msg = w /\ Stored(w)
            /\ w \notin locked /\ locked' = locked \cup {w}
        BY <1>1, <2>3 DEF Lock
      <3>2. \A q \in Requests \ {p} : /\ InTransaction(q)' <=> InTransaction(q)
                                      /\ Held(q)' = Held(q) /\ Contact(q)' = Contact(q)
                                      /\ At(q, "insert")' <=> At(q, "insert")
                                      /\ At(q, "markTemplate")' <=> At(q, "markTemplate")
        BY <1>1 DEF InTransaction, Held, Contact, At
      <3>3. InTransaction(p)' /\ Held(p)' = w /\ ~At(p, "insert")'
        BY <3>1 DEF InTransaction, Held, At
      <3>4. \A q \in Requests \ {p} : InTransaction(q)' =>
                Held(q)' \in locked /\ Held(q)' # w
        BY <3>1, <3>2 DEF ChatInv, LockInv
      <3>5. \A q \in Requests : InTransaction(q)' => Held(q)' \in locked'
        BY <3>1, <3>3, <3>4
      <3>6. \A q, r \in Requests :
                InTransaction(q)' /\ InTransaction(r)' /\ Held(q)' = Held(r)' => q = r
        BY <3>2, <3>3, <3>4 DEF ChatInv, LockInv
      <3>7. \A q \in Requests :
                At(q, "insert")' /\ proc'[q].on = 0 => Opened(Contact(q))' \subseteq strays'
        <4> SUFFICES ASSUME NEW q \in Requests \ {p}, At(q, "insert"), proc[q].on = 0
                     PROVE  Opened(Contact(q))' \subseteq strays'
          BY <1>1, <3>2, <3>3
        <4>1. Opened(Contact(q))' = Opened(Contact(q))
          BY <2>1, <3>2 DEF Opened
        <4> QED
          BY <2>1, <4>1 DEF ChatInv, LockInv
      <3>8. \A q \in Requests : At(q, "markTemplate")' => Stored(proc[q].msg)'
        BY <1>1, <2>1, <3>1, <3>2 DEF ChatInv, LockInv, Stored
      <3>9. \A x \in Messages : Stored(x)' => msg'[x].conv \in Conversations
        BY <2>1 DEF ChatInv, LockInv, Stored
      <3> QED
        BY <3>5, <3>6, <3>7, <3>8, <3>9 DEF LockInv
    <2> QED
      BY <2>2, <2>3
  <1>9. WindowInv'
    BY <1>1, WindowFrame, IdleFields DEF UpdateStatusByWamid, tables
  <1>10. OneOpenConversation'
    BY DEF ChatInv, OneOpenConversation, Opened, UpdateStatusByWamid, tables
  <1>11. FreeTextFollowsCustomer'
    BY DEF ChatInv, FreeTextFollowsCustomer, Stored, UpdateStatusByWamid, tables
  <1> QED
    BY <1>4, <1>5, <1>6, <1>7, <1>8, <1>9, <1>10, <1>11 DEF ChatInv

LEMMA UpdateInitialTemplateStatusStep ==
    ASSUME ChatInv, NEW p \in Requests,
           UpdateInitialTemplateStatus(p)
    PROVE  ChatInv'
  <1>1. /\ proc' \in [Requests -> Local] /\ \A q \in Requests \ {p} : proc'[q] = proc[q]
        /\ proc'[p] = Idle
    BY GotoMoves, FinishMoves DEF ChatInv, Points, UpdateInitialTemplateStatus
  <1>2. /\ \A d \in Conversations : conv[d].status # "none" => conv'[d].status # "none"
        /\ \A n \in Inbound : wrote[n] > 0 => wrote'[n] > 0
    BY DEF UpdateInitialTemplateStatus, meta
  <1>3. Carries(p)'
    BY Zenon DEF ChatInv, ProcInv, Carries, Idle, UpdateInitialTemplateStatus, Handling, Finish
  <1>4. ProcInv'
    BY <1>1, <1>2, <1>3, CarriesStays DEF ChatInv, ProcInv
  <1>5. TypeInv'
    BY TemplateStatusRows DEF ChatInv, TypeInv, UpdateInitialTemplateStatus, Unlock,
       Finish, Handling, tables, meta
  <1>6. MetaInv'
    BY DEF ChatInv, MetaInv, UpdateInitialTemplateStatus, meta
  <1>7. HistoryInv'
    <2>1. history' = history
      BY DEF UpdateInitialTemplateStatus
    <2> QED
      BY <2>1, TemplateStatusRows DEF ChatInv, HistoryInv, Exists
  <1>8. LockInv'
    BY <1>1 DEF ChatInv, LockInv, InTransaction, Held, Contact, Opened, Stored, Idle,
       UpdateInitialTemplateStatus, Handling, Finish, Unlock, At
  <1>9. WindowInv'
    BY ChatAssumption DEF ChatInv, WindowInv, Exists, Stored, ProcInv, Carries, TypeInv,
       Conversation, Message, NoConversation, NoMessage, Messages, HistoryInv, Idle,
       MetaInv, UpdateInitialTemplateStatus, Handling, Goto, Finish, Unlock, tables, meta,
       world, At, STATUS, PERMISSION
  <1>10. OneOpenConversation'
    BY DEF ChatInv, OneOpenConversation, Opened, UpdateInitialTemplateStatus
  <1>11. FreeTextFollowsCustomer'
    BY ChatAssumption DEF ChatInv, FreeTextFollowsCustomer, Stored, ProcInv, Carries,
       UpdateInitialTemplateStatus, At
  <1> QED
    BY <1>4, <1>5, <1>6, <1>7, <1>8, <1>9, <1>10, <1>11 DEF ChatInv

LEMMA SendTextStep ==
    ASSUME ChatInv, NEW p \in Requests, NEW c \in Conversations, NEW by \in Agents \cup {None},
           SendText(p, c, by)
    PROVE  ChatInv'
  <1>1. /\ proc' \in [Requests -> Local] /\ \A q \in Requests \ {p} : proc'[q] = proc[q]
        /\ proc'[p].at = "send" /\ proc'[p].on = c /\ proc'[p].val = "free"
    <2> DEFINE local == [Idle EXCEPT !.at = "send", !.on = c, !.by = by, !.val = "free"]
    <2>1. local \in Local /\ local.at = "send" /\ local.on = c /\ local.val = "free" /\ "text" \in Operations
      BY IdleIsLocal DEF Local, Idle, Points, Operations, Words
    <2>2. Begin(p, "text", local)
      BY DEF SendText, Sending
    <2> HIDE DEF local
    <2> QED
      BY <2>1, <2>2, BeginMoves DEF ChatInv
  <1>2. /\ \A d \in Conversations : conv[d].status # "none" => conv'[d].status # "none"
        /\ \A n \in Inbound : wrote[n] > 0 => wrote'[n] > 0
    BY DEF SendText, Sending, tables, meta
  <1>3. Carries(p)'
    BY <1>1 DEF Carries, Exists, SendText, Sending, tables
  <1>4. ProcInv'
    BY <1>1, <1>2, <1>3, CarriesStays DEF ChatInv, ProcInv
  <1>5. TypeInv'
    BY ChatAssumption DEF ChatInv, TypeInv, SendText, Begin, Sending, tables, meta
  <1>6. MetaInv'
    BY DEF ChatInv, MetaInv, SendText, Sending, tables, meta
  <1>7. HistoryInv'
    BY DEF ChatInv, HistoryInv, Exists, SendText, Sending, tables
  <1>8. LockInv'
    BY DEF ChatInv, LockInv, InTransaction, Held, Contact, Opened, Stored, SendText, Begin,
       Sending, tables, world, At
  <1>9. WindowInv'
    <2>1. UNCHANGED <<conv, msg>> /\ conv[c].window > now
      BY DEF SendText, Sending, CanSendFreeform, tables
    <2>2. conv[c].window \in Nat /\ now \in Nat /\ now > 0
      BY DEF ChatInv, TypeInv, Conversation, MetaInv, Times
    <2>3. conv[c].window > 0
      BY <2>1, <2>2
    <2> QED
      BY <1>1, <2>1, <2>3, WindowFrame
  <1>10. OneOpenConversation'
    BY DEF ChatInv, OneOpenConversation, Opened, SendText, Sending, tables
  <1>11. FreeTextFollowsCustomer'
    BY DEF ChatInv, FreeTextFollowsCustomer, Stored, SendText, Sending, tables
  <1> QED
    BY <1>4, <1>5, <1>6, <1>7, <1>8, <1>9, <1>10, <1>11 DEF ChatInv

LEMMA SendReactionStep ==
    ASSUME ChatInv, NEW p \in Requests, NEW c \in Conversations, NEW by \in Agents \cup {None},
           NEW w \in Messages,
           SendReaction(p, c, by, w)
    PROVE  ChatInv'
  <1>1. /\ proc' \in [Requests -> Local] /\ \A q \in Requests \ {p} : proc'[q] = proc[q]
        /\ proc'[p].at = "send" /\ proc'[p].on = c /\ proc'[p].val = "free"
    <2> DEFINE local == [Idle EXCEPT !.at = "send", !.on = c, !.by = by, !.val = "free"]
    <2>1. local \in Local /\ local.at = "send" /\ local.on = c /\ local.val = "free" /\ "reaction" \in Operations
      BY IdleIsLocal DEF Local, Idle, Points, Operations, Words
    <2>2. Begin(p, "reaction", local)
      BY DEF SendReaction, Sending
    <2> HIDE DEF local
    <2> QED
      BY <2>1, <2>2, BeginMoves DEF ChatInv
  <1>2. /\ \A d \in Conversations : conv[d].status # "none" => conv'[d].status # "none"
        /\ \A n \in Inbound : wrote[n] > 0 => wrote'[n] > 0
    BY DEF SendReaction, Sending, tables, meta
  <1>3. Carries(p)'
    BY <1>1 DEF Carries, Exists, SendReaction, Sending, tables
  <1>4. ProcInv'
    BY <1>1, <1>2, <1>3, CarriesStays DEF ChatInv, ProcInv
  <1>5. TypeInv'
    BY ChatAssumption DEF ChatInv, TypeInv, SendReaction, Begin, Sending, tables, meta
  <1>6. MetaInv'
    BY DEF ChatInv, MetaInv, SendReaction, Sending, tables, meta
  <1>7. HistoryInv'
    BY DEF ChatInv, HistoryInv, Exists, SendReaction, Sending, tables
  <1>8. LockInv'
    BY DEF ChatInv, LockInv, InTransaction, Held, Contact, Opened, Stored, SendReaction,
       Begin, Sending, tables, world, At
  <1>9. WindowInv'
    <2>1. UNCHANGED <<conv, msg>> /\ conv[c].window > now
      BY DEF SendReaction, Sending, CanSendFreeform, tables
    <2>2. conv[c].window \in Nat /\ now \in Nat /\ now > 0
      BY DEF ChatInv, TypeInv, Conversation, MetaInv, Times
    <2>3. conv[c].window > 0
      BY <2>1, <2>2
    <2> QED
      BY <1>1, <2>1, <2>3, WindowFrame
  <1>10. OneOpenConversation'
    BY DEF ChatInv, OneOpenConversation, Opened, SendReaction, Sending, tables
  <1>11. FreeTextFollowsCustomer'
    BY DEF ChatInv, FreeTextFollowsCustomer, Stored, SendReaction, Sending, tables
  <1> QED
    BY <1>4, <1>5, <1>6, <1>7, <1>8, <1>9, <1>10, <1>11 DEF ChatInv

LEMMA SendMediaStep ==
    ASSUME ChatInv, NEW p \in Requests, NEW c \in Conversations, NEW by \in Agents \cup {None},
           SendMedia(p, c, by)
    PROVE  ChatInv'
  <1>1. /\ proc' \in [Requests -> Local] /\ \A q \in Requests \ {p} : proc'[q] = proc[q]
        /\ proc'[p].at = "prepare" /\ proc'[p].on = c /\ proc'[p].val = "free"
    <2> DEFINE local == [Idle EXCEPT !.at = "prepare", !.on = c, !.by = by, !.val = "free"]
    <2>1. local \in Local /\ local.at = "prepare" /\ local.on = c /\ local.val = "free" /\ "media" \in Operations
      BY IdleIsLocal DEF Local, Idle, Points, Operations, Words
    <2>2. Begin(p, "media", local)
      BY DEF SendMedia, Sending
    <2> HIDE DEF local
    <2> QED
      BY <2>1, <2>2, BeginMoves DEF ChatInv
  <1>2. /\ \A d \in Conversations : conv[d].status # "none" => conv'[d].status # "none"
        /\ \A n \in Inbound : wrote[n] > 0 => wrote'[n] > 0
    BY DEF SendMedia, Sending, tables, meta
  <1>3. Carries(p)'
    BY <1>1 DEF Carries, Exists, SendMedia, Sending, tables
  <1>4. ProcInv'
    BY <1>1, <1>2, <1>3, CarriesStays DEF ChatInv, ProcInv
  <1>5. TypeInv'
    BY ChatAssumption DEF ChatInv, TypeInv, SendMedia, Begin, Sending, tables, meta
  <1>6. MetaInv'
    BY DEF ChatInv, MetaInv, SendMedia, Sending, tables, meta
  <1>7. HistoryInv'
    BY DEF ChatInv, HistoryInv, Exists, SendMedia, Sending, tables
  <1>8. LockInv'
    BY DEF ChatInv, LockInv, InTransaction, Held, Contact, Opened, Stored, SendMedia,
       Begin, Sending, tables, world, At
  <1>9. WindowInv'
    <2>1. UNCHANGED <<conv, msg>> /\ conv[c].window > now
      BY DEF SendMedia, Sending, CanSendFreeform, tables
    <2>2. conv[c].window \in Nat /\ now \in Nat /\ now > 0
      BY DEF ChatInv, TypeInv, Conversation, MetaInv, Times
    <2>3. conv[c].window > 0
      BY <2>1, <2>2
    <2> QED
      BY <1>1, <2>1, <2>3, WindowFrame
  <1>10. OneOpenConversation'
    BY DEF ChatInv, OneOpenConversation, Opened, SendMedia, Sending, tables
  <1>11. FreeTextFollowsCustomer'
    BY DEF ChatInv, FreeTextFollowsCustomer, Stored, SendMedia, Sending, tables
  <1> QED
    BY <1>4, <1>5, <1>6, <1>7, <1>8, <1>9, <1>10, <1>11 DEF ChatInv

LEMMA SendTemplateStep ==
    ASSUME ChatInv, NEW p \in Requests, NEW c \in Conversations, NEW by \in Agents \cup {None},
           SendTemplate(p, c, by)
    PROVE  ChatInv'
  <1>1. /\ proc' \in [Requests -> Local] /\ \A q \in Requests \ {p} : proc'[q] = proc[q]
        /\ proc'[p].at = "prepare" /\ proc'[p].on = c /\ proc'[p].val = "template"
    <2> DEFINE local == [Idle EXCEPT !.at = "prepare", !.on = c, !.by = by, !.val = "template"]
    <2>1. local \in Local /\ local.at = "prepare" /\ local.on = c /\ local.val = "template" /\ "template" \in Operations
      BY IdleIsLocal DEF Local, Idle, Points, Operations, Words
    <2>2. Begin(p, "template", local)
      BY DEF SendTemplate, Sending
    <2> HIDE DEF local
    <2> QED
      BY <2>1, <2>2, BeginMoves DEF ChatInv
  <1>2. /\ \A d \in Conversations : conv[d].status # "none" => conv'[d].status # "none"
        /\ \A n \in Inbound : wrote[n] > 0 => wrote'[n] > 0
    BY DEF SendTemplate, Sending, tables, meta
  <1>3. Carries(p)'
    BY <1>1 DEF Carries, Exists, SendTemplate, Sending, tables
  <1>4. ProcInv'
    BY <1>1, <1>2, <1>3, CarriesStays DEF ChatInv, ProcInv
  <1>5. TypeInv'
    BY ChatAssumption DEF ChatInv, TypeInv, SendTemplate, Begin, Sending, tables, meta
  <1>6. MetaInv'
    BY DEF ChatInv, MetaInv, SendTemplate, Sending, tables, meta
  <1>7. HistoryInv'
    BY DEF ChatInv, HistoryInv, Exists, SendTemplate, Sending, tables
  <1>8. LockInv'
    BY DEF ChatInv, LockInv, InTransaction, Held, Contact, Opened, Stored, SendTemplate,
       Begin, Sending, tables, world, At
  <1>9. WindowInv'
    BY DEF ChatInv, WindowInv, Exists, Stored, SendTemplate, Begin, Sending, tables
  <1>10. OneOpenConversation'
    BY DEF ChatInv, OneOpenConversation, Opened, SendTemplate, Sending, tables
  <1>11. FreeTextFollowsCustomer'
    BY DEF ChatInv, FreeTextFollowsCustomer, Stored, SendTemplate, Sending, tables
  <1> QED
    BY <1>4, <1>5, <1>6, <1>7, <1>8, <1>9, <1>10, <1>11 DEF ChatInv

LEMMA PrepareStep ==
    ASSUME ChatInv, NEW p \in Requests,
           Prepare(p)
    PROVE  ChatInv'
  <1>1. /\ proc' \in [Requests -> Local] /\ \A q \in Requests \ {p} : proc'[q] = proc[q]
        /\ proc'[p] = Idle \/ (proc'[p].at = "send" /\ Keeps(p))
    BY GotoMoves, FinishMoves DEF ChatInv, Points, Prepare
  <1>2. /\ \A d \in Conversations : conv[d].status # "none" => conv'[d].status # "none"
        /\ \A n \in Inbound : wrote[n] > 0 => wrote'[n] > 0
    BY DEF Prepare, tables, meta
  <1>3. Carries(p)'
    BY <1>1, <1>2, IdleFields DEF ChatInv, ProcInv, Carries, Prepare, At, Keeps
  <1>4. ProcInv'
    BY <1>1, <1>2, <1>3, CarriesStays DEF ChatInv, ProcInv
  <1>5. TypeInv'
    BY DEF ChatInv, TypeInv, Prepare, Handling, Goto, Finish, tables, meta
  <1>6. MetaInv'
    BY DEF ChatInv, MetaInv, Prepare, tables, meta
  <1>7. HistoryInv'
    BY DEF ChatInv, HistoryInv, Exists, Prepare, tables
  <1>8. LockInv'
    BY <1>1, LockFrame, IdleFields DEF ChatInv, LockInv, Prepare, tables
  <1>9. WindowInv'
    BY <1>1, WindowFrame, IdleFields DEF Prepare, Keeps, At, tables
  <1>10. OneOpenConversation'
    BY DEF ChatInv, OneOpenConversation, Opened, Prepare, tables
  <1>11. FreeTextFollowsCustomer'
    BY DEF ChatInv, FreeTextFollowsCustomer, Stored, Prepare, tables
  <1> QED
    BY <1>4, <1>5, <1>6, <1>7, <1>8, <1>9, <1>10, <1>11 DEF ChatInv

LEMMA SendStep ==
    ASSUME ChatInv, NEW p \in Requests, NEW w \in Outbound,
           Send(p, w)
    PROVE  ChatInv'
  <1>1. /\ proc' \in [Requests -> Local] /\ \A q \in Requests \ {p} : proc'[q] = proc[q]
        /\ \/ proc'[p] = Idle
           \/ /\ proc'[p].at = "persist" /\ proc'[p].msg = w
              /\ proc'[p].on = proc[p].on /\ proc'[p].val = proc[p].val
    <2> DEFINE local == [proc[p] EXCEPT !.at = "persist", !.msg = w]
    <2>1. proc[p] \in Local
      BY DEF ChatInv, ProcInv
    <2>2. local \in Local
      BY <2>1 DEF Local, Points, Messages
    <2>3. /\ local.at = "persist"
          /\ local.msg = w
          /\ local.on = proc[p].on
          /\ local.val = proc[p].val
      BY <2>1 DEF Local
    <2>4. Handling(p, local) \/ Finish(p)
      BY DEF Send
    <2> HIDE DEF local
    <2> QED
      BY <2>1, <2>2, <2>3, <2>4, HandlingMoves, FinishMoves DEF ChatInv
  <1>2. /\ \A d \in Conversations : conv[d].status # "none" => conv'[d].status # "none"
        /\ \A n \in Inbound : wrote[n] > 0 => wrote'[n] > 0
    BY DEF Send, tables, world
  <1>3. Carries(p)'
    BY <1>1, <1>2, IdleFields DEF ChatInv, ProcInv, Carries, Send, At
  <1>4. ProcInv'
    BY <1>1, <1>2, <1>3, CarriesStays DEF ChatInv, ProcInv
  <1>5. TypeInv'
    BY DEF ChatInv, TypeInv, Send, Handling, Finish, tables, world
  <1>6. MetaInv'
    BY DEF ChatInv, MetaInv, Send, tables, world
  <1>7. HistoryInv'
    BY DEF ChatInv, HistoryInv, Exists, Send, tables
  <1>8. LockInv'
    BY <1>1, LockFrame, IdleFields DEF ChatInv, LockInv, Send, tables, meta
  <1>9. WindowInv'
    BY <1>1, WindowFrame, IdleFields DEF Send, Keeps, At, tables, meta
  <1>10. OneOpenConversation'
    BY DEF ChatInv, OneOpenConversation, Opened, Send, tables
  <1>11. FreeTextFollowsCustomer'
    BY DEF ChatInv, FreeTextFollowsCustomer, Stored, Send, tables
  <1> QED
    BY <1>4, <1>5, <1>6, <1>7, <1>8, <1>9, <1>10, <1>11 DEF ChatInv

LEMMA PersistOutboundStep ==
    ASSUME ChatInv, NEW p \in Requests,
           PersistOutbound(p)
    PROVE  ChatInv'
  <1>1. /\ proc' \in [Requests -> Local] /\ \A q \in Requests \ {p} : proc'[q] = proc[q]
        /\ proc'[p] = Idle
    BY GotoMoves, FinishMoves DEF ChatInv, Points, PersistOutbound
  <1>2. /\ \A d \in Conversations : conv[d].status # "none" => conv'[d].status # "none"
        /\ \A n \in Inbound : wrote[n] > 0 => wrote'[n] > 0
    <2>1. CASE Exists(proc[p].on)
      BY <2>1, PersistOutboundRows DEF PersistOutbound, meta
    <2>2. CASE ~Exists(proc[p].on)
      BY <2>2 DEF PersistOutbound, meta
    <2> QED
      BY <2>1, <2>2
  <1>3. Carries(p)'
    BY DEF ChatInv, ProcInv, Carries, Idle, PersistOutbound, Handling, Finish
  <1>4. ProcInv'
    BY <1>1, <1>2, <1>3, CarriesStays DEF ChatInv, ProcInv
  <1>5. TypeInv'
    <2>1. CASE Exists(proc[p].on)
      BY PersistOutboundRows DEF ChatInv, TypeInv, PersistOutbound, Unlock, Finish,
         Handling, tables, meta
    <2>2. CASE ~Exists(proc[p].on)
      BY <2>2 DEF ChatInv, TypeInv, PersistOutbound, Unlock, Finish, Handling, tables, meta
    <2> QED
      BY <2>1, <2>2
  <1>6. MetaInv'
    BY DEF ChatInv, MetaInv, PersistOutbound, meta
  <1>7. HistoryInv'
    <2>1. CASE Exists(proc[p].on)
      <3>1. history' = history /\ conv[proc[p].on].status # "none"
        BY <2>1 DEF PersistOutbound, Exists
      <3> QED
        BY <2>1, <3>1, PersistOutboundRows DEF ChatInv, HistoryInv, Exists
    <2>2. CASE ~Exists(proc[p].on)
      BY <2>2 DEF ChatInv, HistoryInv, PersistOutbound, Exists
    <2> QED
      BY <2>1, <2>2
  <1>8. LockInv'
    <2>1. CASE Exists(proc[p].on)
      <3>1. strays' = strays /\ locked' = locked /\ \A k : Opened(k)' = Opened(k)
        BY <2>1, PersistOutboundRows DEF PersistOutbound, Opened
      <3>2. /\ \A w \in Messages : Stored(w) => Stored(w)'
            /\ \A w \in Messages : Stored(w)' => msg'[w].conv \in Conversations
        BY <2>1, PersistOutboundRows DEF ChatInv, LockInv, Stored
      <3>3. \A q \in Requests \ {p} : Contact(q)' = Contact(q)
        BY <1>1 DEF Contact
      <3>4. \A q \in Requests \ {p} : At(q, "markTemplate") =>
                Stored(proc[q].msg) /\ proc[q].msg \in Messages /\ proc'[q] = proc[q]
        BY <1>1 DEF ChatInv, LockInv, ProcInv, Carries, At, Messages
      <3>5. \A q \in Requests \ {p} : At(q, "markTemplate") => Stored(proc[q].msg)'
        BY <3>2, <3>4 DEF Stored
      <3>6. \A q \in Requests \ {p} :
                At(q, "insert") /\ proc[q].on = 0 => Opened(Contact(q))' \subseteq strays'
        <4> SUFFICES ASSUME NEW q \in Requests \ {p}, At(q, "insert"), proc[q].on = 0
                     PROVE  Opened(Contact(q))' \subseteq strays'
          OBVIOUS
        <4>1. Opened(Contact(q))' = Opened(Contact(q))
          BY <3>1, <3>3 DEF Opened
        <4> QED
          BY <3>1, <4>1 DEF ChatInv, LockInv
      <3>7. \A q \in Requests \ {p} : InTransaction(q) => Held(q) \in locked'
        BY <3>1 DEF ChatInv, LockInv
      <3> QED
        BY <1>1, <3>2, <3>5, <3>6, <3>7, LockMoves, IdleFields
    <2>2. CASE ~Exists(proc[p].on)
      BY <1>1, <2>2, LockFrame, IdleFields DEF ChatInv, LockInv, PersistOutbound
    <2> QED
      BY <2>1, <2>2
  <1>9. WindowInv'
    <2>1. CASE Exists(proc[p].on)
      <3>1. \A m \in Inbound : Stored(m) => Stored(m)' /\ msg'[m].conv = msg[m].conv
        BY <2>1, PersistOutboundRows, ChatAssumption DEF Stored, Messages
      <3>2. \A d \in Conversations : conv'[d].window > 0 =>
                \E m \in Inbound : Stored(m)' /\ msg'[m].conv = d
        BY <2>1, <3>1, PersistOutboundRows DEF ChatInv, WindowInv
      <3>3. \A d \in Conversations : conv[d].status # "none" /\ Exists(d)' =>
                Exists(d) /\ (conv[d].window > 0 => conv'[d].window > 0)
        BY <2>1, PersistOutboundRows DEF Exists
      <3> QED
        BY <1>1, <3>2, <3>3, WindowMoves, IdleFields
    <2>2. CASE ~Exists(proc[p].on)
      BY <1>1, <2>2, WindowFrame, IdleFields DEF PersistOutbound
    <2> QED
      BY <2>1, <2>2
  <1>10. OneOpenConversation'
    <2>1. CASE Exists(proc[p].on)
      <3>1. strays' = strays /\ \A k : Opened(k)' = Opened(k)
        BY <2>1, PersistOutboundRows DEF PersistOutbound, Opened
      <3> QED
        BY <3>1 DEF ChatInv, OneOpenConversation
    <2>2. CASE ~Exists(proc[p].on)
      BY <2>2 DEF ChatInv, OneOpenConversation, PersistOutbound, Opened
    <2> QED
      BY <2>1, <2>2
  <1>11. FreeTextFollowsCustomer'
    <2>1. CASE Exists(proc[p].on)
      <3> DEFINE w == proc[p].msg
                 c == proc[p].on
      <3>1. \A m \in Inbound : Stored(m) => Stored(m)' /\ msg'[m].conv = msg[m].conv
        BY <2>1, PersistOutboundRows, ChatAssumption DEF Stored, Messages
      <3>2. ASSUME proc[p].val = "free"
            PROVE  \E m \in Inbound : Stored(m)' /\ msg'[m].conv = c
        <4>1. conv[c].window > 0 /\ c \in Conversations
          BY <2>1, <3>2 DEF ChatInv, WindowInv, PersistOutbound, At, Exists
        <4> QED
          BY <3>1, <4>1 DEF ChatInv, WindowInv
      <3>3. \A v \in Outbound \ {w} : msg'[v] = msg[v]
        BY <2>1, PersistOutboundRows DEF Messages
      <3>4. msg'[w].kind = proc[p].val /\ msg'[w].conv = c
        BY <2>1, PersistOutboundRows
      <3> QED
        BY <3>1, <3>2, <3>3, <3>4 DEF ChatInv, FreeTextFollowsCustomer
    <2>2. CASE ~Exists(proc[p].on)
      BY <2>2 DEF ChatInv, FreeTextFollowsCustomer, PersistOutbound, Stored
    <2> QED
      BY <2>1, <2>2
  <1> QED
    BY <1>4, <1>5, <1>6, <1>7, <1>8, <1>9, <1>10, <1>11 DEF ChatInv

LEMMA MarkReadStep ==
    ASSUME ChatInv, NEW p \in Requests, NEW c \in Conversations,
           MarkRead(p, c)
    PROVE  ChatInv'
  <1>1. /\ proc' \in [Requests -> Local] /\ \A q \in Requests \ {p} : proc'[q] = proc[q]
        /\ proc'[p].at = "read" /\ proc'[p].op = "read" /\ proc'[p].on = c
    <2> DEFINE local == [Idle EXCEPT !.at = "read", !.on = c]
    <2>1. local \in Local /\ local.at = "read" /\ local.on = c /\ "read" \in Operations
      BY IdleIsLocal DEF Local, Idle, Points, Operations
    <2>2. Begin(p, "read", local)
      BY DEF MarkRead
    <2> HIDE DEF local
    <2> QED
      BY <2>1, <2>2, BeginMoves DEF ChatInv
  <1>2. /\ \A d \in Conversations : conv[d].status # "none" => conv'[d].status # "none"
        /\ \A n \in Inbound : wrote[n] > 0 => wrote'[n] > 0
    BY DEF MarkRead, tables, meta
  <1>3. Carries(p)'
    BY DEF ChatInv, ProcInv, Carries, Exists, MarkRead, Begin, tables
  <1>4. ProcInv'
    BY <1>1, <1>2, <1>3, CarriesStays DEF ChatInv, ProcInv
  <1>5. TypeInv'
    BY ChatAssumption DEF ChatInv, TypeInv, MarkRead, Begin, tables, meta
  <1>6. MetaInv'
    BY DEF ChatInv, MetaInv, MarkRead, tables, meta
  <1>7. HistoryInv'
    BY DEF ChatInv, HistoryInv, Exists, MarkRead, tables
  <1>8. LockInv'
    BY DEF ChatInv, LockInv, InTransaction, Held, Contact, Opened, Stored, MarkRead, Begin,
       tables, world, At
  <1>9. WindowInv'
    BY DEF ChatInv, WindowInv, Exists, Stored, MarkRead, Begin, tables
  <1>10. OneOpenConversation'
    BY DEF ChatInv, OneOpenConversation, Opened, MarkRead, tables
  <1>11. FreeTextFollowsCustomer'
    BY DEF ChatInv, FreeTextFollowsCustomer, Stored, MarkRead, tables
  <1> QED
    BY <1>4, <1>5, <1>6, <1>7, <1>8, <1>9, <1>10, <1>11 DEF ChatInv

LEMMA ChangeStatusStep ==
    ASSUME ChatInv, NEW p \in Requests, NEW c \in Conversations, NEW by \in Agents \cup {None},
           NEW s \in {"OPEN", "CLOSED"},
           ChangeStatus(p, c, by, s)
    PROVE  ChatInv'
  <1>1. /\ proc' \in [Requests -> Local] /\ \A q \in Requests \ {p} : proc'[q] = proc[q]
        /\ /\ proc'[p].at = "setStatus" /\ proc'[p].op = "setStatus" /\ proc'[p].on = c
           /\ proc'[p].val = s
    <2> DEFINE local == [Idle EXCEPT !.at = "setStatus", !.on = c, !.by = by, !.val = s]
    <2>1. local \in Local /\ local.at = "setStatus" /\ local.on = c /\ local.val = s /\ "setStatus" \in Operations
      BY IdleIsLocal, ChatAssumption DEF Local, Idle, Points, Operations, Words, Messages
    <2>2. Begin(p, "setStatus", local)
      BY DEF ChangeStatus
    <2> HIDE DEF local
    <2> QED
      BY <2>1, <2>2, BeginMoves DEF ChatInv
  <1>2. /\ \A d \in Conversations : conv[d].status # "none" => conv'[d].status # "none"
        /\ \A n \in Inbound : wrote[n] > 0 => wrote'[n] > 0
    BY DEF ChangeStatus, tables, meta
  <1>3. Carries(p)'
    BY DEF ChatInv, ProcInv, Carries, Exists, ChangeStatus, Begin, tables
  <1>4. ProcInv'
    BY <1>1, <1>2, <1>3, CarriesStays DEF ChatInv, ProcInv
  <1>5. TypeInv'
    BY ChatAssumption DEF ChatInv, TypeInv, ChangeStatus, Begin, tables, meta
  <1>6. MetaInv'
    BY DEF ChatInv, MetaInv, ChangeStatus, tables, meta
  <1>7. HistoryInv'
    BY DEF ChatInv, HistoryInv, Exists, ChangeStatus, tables
  <1>8. LockInv'
    BY DEF ChatInv, LockInv, InTransaction, Held, Contact, Opened, Stored, ChangeStatus,
       Begin, tables, world, At
  <1>9. WindowInv'
    BY DEF ChatInv, WindowInv, Exists, Stored, ChangeStatus, Begin, tables
  <1>10. OneOpenConversation'
    BY DEF ChatInv, OneOpenConversation, Opened, ChangeStatus, tables
  <1>11. FreeTextFollowsCustomer'
    BY DEF ChatInv, FreeTextFollowsCustomer, Stored, ChangeStatus, tables
  <1> QED
    BY <1>4, <1>5, <1>6, <1>7, <1>8, <1>9, <1>10, <1>11 DEF ChatInv

LEMMA DeleteConversationStep ==
    ASSUME ChatInv, NEW p \in Requests, NEW c \in Conversations,
           DeleteConversation(p, c)
    PROVE  ChatInv'
  <1>1. /\ proc' \in [Requests -> Local] /\ \A q \in Requests \ {p} : proc'[q] = proc[q]
        /\ proc'[p].at = "delete" /\ proc'[p].op = "delete" /\ proc'[p].on = c
    <2> DEFINE local == [Idle EXCEPT !.at = "delete", !.on = c]
    <2>1. local \in Local /\ local.at = "delete" /\ local.on = c /\ "delete" \in Operations
      BY IdleIsLocal DEF Local, Idle, Points, Operations
    <2>2. Begin(p, "delete", local)
      BY DEF DeleteConversation
    <2> HIDE DEF local
    <2> QED
      BY <2>1, <2>2, BeginMoves DEF ChatInv
  <1>2. /\ \A d \in Conversations : conv[d].status # "none" => conv'[d].status # "none"
        /\ \A n \in Inbound : wrote[n] > 0 => wrote'[n] > 0
    BY DEF DeleteConversation, tables, meta
  <1>3. Carries(p)'
    BY DEF ChatInv, ProcInv, Carries, Exists, DeleteConversation, Begin, tables
  <1>4. ProcInv'
    BY <1>1, <1>2, <1>3, CarriesStays DEF ChatInv, ProcInv
  <1>5. TypeInv'
    BY ChatAssumption DEF ChatInv, TypeInv, DeleteConversation, Begin, tables, meta
  <1>6. MetaInv'
    BY DEF ChatInv, MetaInv, DeleteConversation, tables, meta
  <1>7. HistoryInv'
    BY DEF ChatInv, HistoryInv, Exists, DeleteConversation, tables
  <1>8. LockInv'
    BY DEF ChatInv, LockInv, InTransaction, Held, Contact, Opened, Stored,
       DeleteConversation, Begin, tables, world, At
  <1>9. WindowInv'
    BY DEF ChatInv, WindowInv, Exists, Stored, DeleteConversation, Begin, tables
  <1>10. OneOpenConversation'
    BY DEF ChatInv, OneOpenConversation, Opened, DeleteConversation, tables
  <1>11. FreeTextFollowsCustomer'
    BY DEF ChatInv, FreeTextFollowsCustomer, Stored, DeleteConversation, tables
  <1> QED
    BY <1>4, <1>5, <1>6, <1>7, <1>8, <1>9, <1>10, <1>11 DEF ChatInv

LEMMA UpdateConversationStep ==
    ASSUME ChatInv, NEW p \in Requests,
           UpdateConversation(p)
    PROVE  ChatInv'
  <1>1. /\ proc' \in [Requests -> Local] /\ \A q \in Requests \ {p} : proc'[q] = proc[q]
        /\ proc'[p] = Idle
    BY Zenon, GotoMoves, FinishMoves DEF ChatInv, Points, UpdateConversation
  <1>2. /\ \A d \in Conversations : conv[d].status # "none" => conv'[d].status # "none"
        /\ \A n \in Inbound : wrote[n] > 0 => wrote'[n] > 0
    <2>1. CASE Exists(proc[p].on)
      BY ZenonT(40), <2>1, UpdateConversationRows DEF UpdateConversation, Exists, meta
    <2>2. CASE ~Exists(proc[p].on)
      BY <2>2 DEF UpdateConversation, meta
    <2> QED
      BY <2>1, <2>2
  <1>3. Carries(p)'
    BY Zenon DEF ChatInv, ProcInv, Carries, Idle, UpdateConversation, Handling, Finish
  <1>4. ProcInv'
    BY <1>1, <1>2, <1>3, CarriesStays DEF ChatInv, ProcInv
  <1>5. TypeInv'
    <2>1. CASE Exists(proc[p].on)
      BY UpdateConversationRows DEF ChatInv, TypeInv, UpdateConversation, Finish, Handling,
         Exists, meta
    <2>2. CASE ~Exists(proc[p].on)
      BY <2>2 DEF ChatInv, TypeInv, UpdateConversation, Finish, Handling, meta
    <2> QED
      BY <2>1, <2>2
  <1>6. MetaInv'
    BY DEF ChatInv, MetaInv, UpdateConversation, meta
  <1>7. HistoryInv'
    <2>1. CASE Exists(proc[p].on)
      <3>1. history' = history /\ conv[proc[p].on].status # "none"
        BY <2>1 DEF UpdateConversation, Exists
      <3> QED
        BY <2>1, <3>1, UpdateConversationRows DEF ChatInv, HistoryInv, Exists
    <2>2. CASE ~Exists(proc[p].on)
      BY Zenon, <2>2 DEF ChatInv, HistoryInv, UpdateConversation, Exists
    <2> QED
      BY <2>1, <2>2
  <1>8. LockInv'
    BY SMTT(40), <1>1, <1>3, ChatAssumption DEF ChatInv, LockInv, InTransaction, Held, Contact,
       Opened, Stored, Message, ProcInv, Carries, TypeInv, Conversation, NoConversation,
       Idle, Messages, HistoryInv, Exists, UpdateConversation, Handling, Goto, Finish,
       tables, meta, world, At, STATUS, PERMISSION
  <1>9. WindowInv'
    BY <1>1, <1>3, ChatAssumption DEF ChatInv, WindowInv, Exists, Stored, ProcInv, Carries,
       TypeInv, Conversation, Message, NoConversation, NoMessage, Messages, HistoryInv,
       Idle, MetaInv, UpdateConversation, Handling, Goto, Finish, tables, meta, world, At,
       STATUS, PERMISSION
  <1>10. OneOpenConversation'
    BY DEF ChatInv, OneOpenConversation, Opened, UpdateConversation
  <1>11. FreeTextFollowsCustomer'
    BY DEF ChatInv, FreeTextFollowsCustomer, Stored, UpdateConversation
  <1> QED
    BY <1>4, <1>5, <1>6, <1>7, <1>8, <1>9, <1>10, <1>11 DEF ChatInv

LEMMA DeleteByIdStep ==
    ASSUME ChatInv, NEW p \in Requests,
           DeleteById(p)
    PROVE  ChatInv'
  <1>1. /\ proc' \in [Requests -> Local] /\ \A q \in Requests \ {p} : proc'[q] = proc[q]
        /\ proc'[p] = Idle
    BY GotoMoves, FinishMoves DEF ChatInv, Points, DeleteById
  <1>2. /\ \A d \in Conversations : conv[d].status # "none" => conv'[d].status # "none"
        /\ \A n \in Inbound : wrote[n] > 0 => wrote'[n] > 0
    <2>1. CASE Exists(proc[p].on)
      BY <2>1, DeleteByIdRows DEF DeleteById, meta
    <2>2. CASE ~Exists(proc[p].on)
      BY <2>2 DEF DeleteById, meta, tables
    <2> QED
      BY <2>1, <2>2
  <1>3. Carries(p)'
    BY DEF ChatInv, ProcInv, Carries, Idle, DeleteById, Handling, Finish
  <1>4. ProcInv'
    BY <1>1, <1>2, <1>3, CarriesStays DEF ChatInv, ProcInv
  <1>5. TypeInv'
    <2>1. CASE Exists(proc[p].on)
      BY <2>1, DeleteByIdRows DEF ChatInv, TypeInv, DeleteById, Finish, Handling, meta
    <2>2. CASE ~Exists(proc[p].on)
      BY <2>2 DEF ChatInv, TypeInv, DeleteById, Unlock, Finish, Handling, tables, meta
    <2> QED
      BY <2>1, <2>2
  <1>6. MetaInv'
    <2>1. CASE Exists(proc[p].on)
      <3>1. NoHistory \in Assignment
        BY DEF NoHistory, Assignment
      <3>2. history' = [history EXCEPT ![proc[p].on] = NoHistory]
        BY <2>1 DEF DeleteById
      <3> QED
        BY <3>1, <3>2 DEF ChatInv, MetaInv, DeleteById, meta
    <2>2. CASE ~Exists(proc[p].on)
      BY <2>2 DEF ChatInv, MetaInv, DeleteById, meta, tables
    <2> QED
      BY <2>1, <2>2
  <1>7. HistoryInv'
    <2>1. CASE Exists(proc[p].on)
      BY <2>1, DeleteByIdRows DEF ChatInv, HistoryInv, Exists
    <2>2. CASE ~Exists(proc[p].on)
      BY <2>2 DEF ChatInv, HistoryInv, DeleteById, Exists, tables
    <2> QED
      BY <2>1, <2>2
  <1>8. LockInv'
    <2>1. CASE Exists(proc[p].on)
      <3>1. strays' = strays /\ locked' = locked /\ \A k : Opened(k)' \subseteq Opened(k)
        BY <2>1, DeleteByIdRows DEF DeleteById, Opened
      <3>2. /\ \A w \in locked \cap Messages : msg[w].conv # proc[p].on
            /\ \A w \in Messages : Stored(w) /\ msg[w].conv # proc[p].on => Stored(w)'
            /\ \A w \in Messages : Stored(w)' => msg'[w].conv \in Conversations
        BY <2>1, DeleteByIdRows DEF ChatInv, LockInv, Stored, DeleteById
      <3>3. \A q \in Requests \ {p} : Contact(q)' = Contact(q)
        BY <1>1 DEF Contact
      <3>4. \A q \in Requests \ {p} : At(q, "markTemplate") =>
                /\ Stored(proc[q].msg) /\ proc[q].msg \in Messages /\ proc'[q] = proc[q]
                /\ proc[q].msg \in locked
        BY <1>1 DEF ChatInv, LockInv, ProcInv, Carries, At, Messages, InTransaction, Held
      <3>5. \A q \in Requests \ {p} : At(q, "markTemplate") => Stored(proc[q].msg)'
        BY <3>2, <3>4 DEF Stored
      <3>6. \A q \in Requests \ {p} :
                At(q, "insert") /\ proc[q].on = 0 => Opened(Contact(q))' \subseteq strays'
        <4> SUFFICES ASSUME NEW q \in Requests \ {p}, At(q, "insert"), proc[q].on = 0
                     PROVE  Opened(Contact(q))' \subseteq strays'
          OBVIOUS
        <4>1. Opened(Contact(q))' \subseteq Opened(Contact(q))
          BY <3>1, <3>3 DEF Opened
        <4> QED
          BY <3>1, <4>1 DEF ChatInv, LockInv
      <3>7. \A q \in Requests \ {p} : InTransaction(q) => Held(q) \in locked'
        BY <3>1 DEF ChatInv, LockInv
      <3> QED
        BY <1>1, <3>2, <3>5, <3>6, <3>7, LockMoves, IdleFields
    <2>2. CASE ~Exists(proc[p].on)
      BY <1>1, <2>2, LockFrame, IdleFields DEF ChatInv, LockInv, DeleteById, tables
    <2> QED
      BY <2>1, <2>2
  <1>9. WindowInv'
    <2>1. CASE Exists(proc[p].on)
      <3>1. \A m \in Inbound : Stored(m) /\ msg[m].conv # proc[p].on =>
                Stored(m)' /\ msg'[m].conv = msg[m].conv
        BY <2>1, DeleteByIdRows DEF Stored, Messages
      <3>2. \A d \in Conversations : conv'[d].window > 0 =>
                \E m \in Inbound : Stored(m)' /\ msg'[m].conv = d
        BY <2>1, <3>1, DeleteByIdRows DEF ChatInv, WindowInv
      <3>3. \A d \in Conversations : conv[d].status # "none" /\ Exists(d)' =>
                Exists(d) /\ (conv[d].window > 0 => conv'[d].window > 0)
        BY <2>1, DeleteByIdRows DEF Exists
      <3> QED
        BY <1>1, <3>2, <3>3, WindowMoves, IdleFields
    <2>2. CASE ~Exists(proc[p].on)
      BY <1>1, <2>2, WindowFrame, IdleFields DEF DeleteById, tables
    <2> QED
      BY <2>1, <2>2
  <1>10. OneOpenConversation'
    <2>1. CASE Exists(proc[p].on)
      <3>1. strays' = strays /\ \A k : Opened(k)' \subseteq Opened(k)
        BY <2>1, DeleteByIdRows DEF DeleteById, Opened
      <3> QED
        BY <3>1 DEF ChatInv, OneOpenConversation
    <2>2. CASE ~Exists(proc[p].on)
      BY <2>2 DEF ChatInv, OneOpenConversation, DeleteById, Opened, tables
    <2> QED
      BY <2>1, <2>2
  <1>11. FreeTextFollowsCustomer'
    <2>1. CASE Exists(proc[p].on)
      <3>1. \A w \in Messages : msg'[w].kind = "free" =>
                msg'[w] = msg[w] /\ msg[w].conv # proc[p].on
        BY <2>1, DeleteByIdRows
      <3>2. \A m \in Messages : Stored(m) /\ msg[m].conv # proc[p].on =>
                Stored(m)' /\ msg'[m].conv = msg[m].conv
        BY <2>1, DeleteByIdRows DEF Stored
      <3> QED
        BY <3>1, <3>2 DEF ChatInv, FreeTextFollowsCustomer, Messages
    <2>2. CASE ~Exists(proc[p].on)
      BY <2>2 DEF ChatInv, FreeTextFollowsCustomer, DeleteById, Stored, tables
    <2> QED
      BY <2>1, <2>2
  <1> QED
    BY <1>4, <1>5, <1>6, <1>7, <1>8, <1>9, <1>10, <1>11 DEF ChatInv

LEMMA ChangeAssignmentStep ==
    ASSUME ChatInv, NEW p \in Requests, NEW c \in Conversations, NEW by \in Agents,
           NEW action \in {"CLAIM", "TRANSFER", "RELEASE"}, NEW to \in Agents \cup {None},
           ChangeAssignment(p, c, by, action, to)
    PROVE  ChatInv'
  <1>1. /\ proc' \in [Requests -> Local] /\ \A q \in Requests \ {p} : proc'[q] = proc[q]
        /\ /\ proc'[p].at = "assign" /\ proc'[p].op = "assign" /\ proc'[p].on = c
           /\ proc'[p].val = action /\ proc'[p].to = to
    <2> DEFINE local == [Idle EXCEPT !.at = "assign", !.on = c, !.by = by, !.val = action,
                                   !.to = to, !.seen = conv[c].owner]
    <2>0. conv[c].owner \in Agents \cup {None}
      BY DEF ChatInv, TypeInv, Conversation
    <2>1. local \in Local /\ local.at = "assign" /\ local.on = c /\ local.val = action
          /\ local.to = to /\ "assign" \in Operations
      BY ZenonT(40), <2>0, IdleIsLocal, ChatAssumption DEF Local, Idle, Points, Operations, Words,
         Messages
    <2>2. Begin(p, "assign", local)
      BY DEF ChangeAssignment
    <2> HIDE DEF local
    <2> QED
      BY <2>1, <2>2, BeginMoves DEF ChatInv
  <1>2. /\ \A d \in Conversations : conv[d].status # "none" => conv'[d].status # "none"
        /\ \A n \in Inbound : wrote[n] > 0 => wrote'[n] > 0
    BY DEF ChangeAssignment, tables, meta
  <1>3. Carries(p)'
    BY DEF ChatInv, ProcInv, Carries, Exists, ChangeAssignment, Begin, tables
  <1>4. ProcInv'
    BY <1>1, <1>2, <1>3, CarriesStays DEF ChatInv, ProcInv
  <1>5. TypeInv'
    BY ChatAssumption DEF ChatInv, TypeInv, ChangeAssignment, Begin, tables, meta
  <1>6. MetaInv'
    BY DEF ChatInv, MetaInv, ChangeAssignment, tables, meta
  <1>7. HistoryInv'
    BY DEF ChatInv, HistoryInv, Exists, ChangeAssignment, tables
  <1>8. LockInv'
    BY DEF ChatInv, LockInv, InTransaction, Held, Contact, Opened, Stored,
       ChangeAssignment, Begin, tables, world, At
  <1>9. WindowInv'
    BY DEF ChatInv, WindowInv, Exists, Stored, ChangeAssignment, Begin, tables
  <1>10. OneOpenConversation'
    BY DEF ChatInv, OneOpenConversation, Opened, ChangeAssignment, tables
  <1>11. FreeTextFollowsCustomer'
    BY DEF ChatInv, FreeTextFollowsCustomer, Stored, ChangeAssignment, tables
  <1> QED
    BY <1>4, <1>5, <1>6, <1>7, <1>8, <1>9, <1>10, <1>11 DEF ChatInv

LEMMA UpdateAssignmentStep ==
    ASSUME ChatInv, NEW p \in Requests,
           UpdateAssignment(p)
    PROVE  ChatInv'
  <1>1. /\ proc' \in [Requests -> Local] /\ \A q \in Requests \ {p} : proc'[q] = proc[q]
        /\ proc'[p] = Idle
    BY GotoMoves, FinishMoves DEF ChatInv, Points, UpdateAssignment
  <1>2. /\ \A d \in Conversations : conv[d].status # "none" => conv'[d].status # "none"
        /\ \A n \in Inbound : wrote[n] > 0 => wrote'[n] > 0
    BY DEF UpdateAssignment, meta
  <1>3. Carries(p)'
    BY Zenon DEF ChatInv, ProcInv, Carries, Idle, UpdateAssignment, Handling, Finish
  <1>4. ProcInv'
    BY <1>1, <1>2, <1>3, CarriesStays DEF ChatInv, ProcInv
  <1>5. TypeInv'
    BY UpdateAssignmentRows DEF ChatInv, TypeInv, UpdateAssignment, Finish, Handling, meta
  <1>6. MetaInv'
    BY UpdateAssignmentRows DEF ChatInv, MetaInv, UpdateAssignment, meta
  <1>7. HistoryInv'
    <2>1. CASE conv' = conv /\ history' = history
      BY <2>1 DEF ChatInv, HistoryInv, Exists
    <2>2. CASE ~(conv' = conv /\ history' = history)
      <3> DEFINE c == proc[p].on
      <3>1. /\ c \in Conversations /\ Exists(c)
            /\ \A d \in Conversations \ {c} : conv'[d] = conv[d] /\ history'[d] = history[d]
            /\ conv'[c].of = conv[c].of /\ conv'[c].status = conv[c].status
            /\ conv'[c].owner = history'[c].target
        BY <2>2, UpdateAssignmentRows
      <3> QED
        BY <3>1 DEF ChatInv, HistoryInv, Exists
    <2> QED
      BY <2>1, <2>2
  <1>8. LockInv'
    BY SMTT(40), <1>1 DEF ChatInv, LockInv, InTransaction, Held, Contact, Opened, Stored, Message,
       ProcInv, TypeInv, Conversation, NoConversation, Idle, Messages, HistoryInv, Exists,
       UpdateAssignment, Handling, Goto, Finish, ClaimIfUnassigned, tables, meta, world,
       At, STATUS, PERMISSION
  <1>9. WindowInv'
    BY <1>1, <1>3, ChatAssumption DEF ChatInv, WindowInv, Exists, Stored, ProcInv, Carries,
       TypeInv, Conversation, Message, NoConversation, NoMessage, Messages, HistoryInv,
       Idle, MetaInv, UpdateAssignment, Handling, Goto, Finish, ClaimIfUnassigned, tables,
       meta, world, At, STATUS, PERMISSION
  <1>10. OneOpenConversation'
    BY DEF ChatInv, OneOpenConversation, Opened, UpdateAssignment
  <1>11. FreeTextFollowsCustomer'
    BY DEF ChatInv, FreeTextFollowsCustomer, Stored, UpdateAssignment
  <1> QED
    BY <1>4, <1>5, <1>6, <1>7, <1>8, <1>9, <1>10, <1>11 DEF ChatInv

LEMMA ProcessReplyStep ==
    ASSUME ChatInv, NEW p \in Requests, NEW m \in Inbound,
           ProcessReply(p, m)
    PROVE  ChatInv'
  <1>1. /\ proc' \in [Requests -> Local] /\ \A q \in Requests \ {p} : proc'[q] = proc[q]
        /\ /\ proc'[p].at \in {"receive", "resolve"} /\ proc'[p].op = "reply"
           /\ proc'[p].msg = m
    <2>1. ASSUME NEW s \in {"receive", "resolve"}, Begin(p, "reply", [Idle EXCEPT !.at = s, !.msg = m])
          PROVE  /\ proc' \in [Requests -> Local] /\ \A q \in Requests \ {p} : proc'[q] = proc[q]
                 /\ proc'[p].at = s /\ proc'[p].op = "reply" /\ proc'[p].msg = m
      <3> DEFINE local == [Idle EXCEPT !.at = s, !.msg = m]
      <3>1. local \in Local /\ local.at = s /\ local.msg = m /\ "reply" \in Operations
        BY IdleIsLocal DEF Local, Idle, Points, Operations, Messages
      <3> HIDE DEF local
      <3>2. Begin(p, "reply", local)
        BY <2>1 DEF local
      <3> QED
        BY <3>1, <3>2, BeginMoves DEF ChatInv
    <2>2. CASE \E c \in Conversations : perm[c].wamid = m
      BY <2>1, <2>2 DEF ProcessReply
    <2>3. CASE ~\E c \in Conversations : perm[c].wamid = m
      BY <2>1, <2>3 DEF ProcessReply
    <2> QED
      BY <2>2, <2>3
  <1>2. /\ \A d \in Conversations : conv[d].status # "none" => conv'[d].status # "none"
        /\ \A n \in Inbound : wrote[n] > 0 => wrote'[n] > 0
    BY DEF ProcessReply, tables, meta
  <1>3. Carries(p)'
    BY DEF Carries, ProcessReply, Begin, meta, At
  <1>4. ProcInv'
    BY <1>1, <1>2, <1>3, CarriesStays DEF ChatInv, ProcInv
  <1>5. TypeInv'
    BY ChatAssumption DEF ChatInv, TypeInv, ProcessReply, Begin, tables, meta
  <1>6. MetaInv'
    BY DEF ChatInv, MetaInv, ProcessReply, tables, meta
  <1>7. HistoryInv'
    BY DEF ChatInv, HistoryInv, Exists, ProcessReply, tables
  <1>8. LockInv'
    BY DEF ChatInv, LockInv, InTransaction, Held, Contact, Opened, Stored, ProcessReply,
       Begin, tables, world, At
  <1>9. WindowInv'
    BY DEF ChatInv, WindowInv, Exists, Stored, ProcessReply, Begin, tables
  <1>10. OneOpenConversation'
    BY DEF ChatInv, OneOpenConversation, Opened, ProcessReply, tables
  <1>11. FreeTextFollowsCustomer'
    BY DEF ChatInv, FreeTextFollowsCustomer, Stored, ProcessReply, tables
  <1> QED
    BY <1>4, <1>5, <1>6, <1>7, <1>8, <1>9, <1>10, <1>11 DEF ChatInv

LEMMA ResolveConversationStep ==
    ASSUME ChatInv, NEW p \in Requests,
           ResolveConversation(p)
    PROVE  ChatInv'
  <1>1. /\ proc' \in [Requests -> Local] /\ \A q \in Requests \ {p} : proc'[q] = proc[q]
    <2>1. proc[p] \in Local /\ FindOpen(Contact(p)) \in Conversations \cup {0}
      BY FoundOpen DEF ChatInv, ProcInv
    <2>a. {"resolveCreate", "existing"} \subseteq Points
      BY DEF Points
    <2>2. \A s \in {"resolveCreate", "existing"} :
            [proc[p] EXCEPT !.at = s, !.on = FindOpen(Contact(p))] \in Local
      BY <2>1, <2>a DEF Local
    <2> QED
      BY <2>1, <2>2, HandlingMoves DEF ChatInv, ResolveConversation
  <1>2. /\ \A d \in Conversations : conv[d].status # "none" => conv'[d].status # "none"
        /\ \A n \in Inbound : wrote[n] > 0 => wrote'[n] > 0
    BY DEF ResolveConversation, tables, meta
  <1>3. Carries(p)'
    BY FoundOpen DEF ChatInv, ProcInv, Carries, ResolveConversation, Handling, Goto,
       Finish, tables, meta, world, At, STATUS, PERMISSION
  <1>4. ProcInv'
    BY <1>1, <1>2, <1>3, CarriesStays DEF ChatInv, ProcInv
  <1>5. TypeInv'
    BY DEF ChatInv, TypeInv, ResolveConversation, Handling, tables, meta
  <1>6. MetaInv'
    BY DEF ChatInv, MetaInv, ResolveConversation, tables, meta
  <1>7. HistoryInv'
    BY DEF ChatInv, HistoryInv, Exists, ResolveConversation, tables
  <1>8. LockInv'
    BY DEF ChatInv, LockInv, InTransaction, Held, Contact, Opened, Stored,
       ResolveConversation, Handling, tables, world, At
  <1>9. WindowInv'
    BY DEF ChatInv, WindowInv, Exists, Stored, ResolveConversation, Handling, tables
  <1>10. OneOpenConversation'
    BY DEF ChatInv, OneOpenConversation, Opened, ResolveConversation, tables
  <1>11. FreeTextFollowsCustomer'
    BY DEF ChatInv, FreeTextFollowsCustomer, Stored, ResolveConversation, tables
  <1> QED
    BY <1>4, <1>5, <1>6, <1>7, <1>8, <1>9, <1>10, <1>11 DEF ChatInv

LEMMA ResolveCreateStep ==
    ASSUME ChatInv, NEW p \in Requests, NEW c \in Conversations,
           ResolveCreate(p, c)
    PROVE  ChatInv'
  <1>1. /\ proc' \in [Requests -> Local] /\ \A q \in Requests \ {p} : proc'[q] = proc[q]
        /\ /\ proc'[p].at = "existing" /\ proc'[p].on = c
           /\ proc'[p].msg = proc[p].msg /\ proc'[p].op = proc[p].op
    <2> DEFINE local == [proc[p] EXCEPT !.at = "existing", !.on = c]
    <2>1. proc[p] \in Local
      BY DEF ChatInv, ProcInv
    <2>2. local \in Local
      BY <2>1 DEF Local, Points
    <2>3. /\ local.at = "existing"
          /\ local.on = c
          /\ local.msg = proc[p].msg
          /\ local.op = proc[p].op
      BY <2>1 DEF Local
    <2>4. Handling(p, local)
      BY DEF ResolveCreate
    <2> HIDE DEF local
    <2> QED
      BY <2>1, <2>2, <2>3, <2>4, HandlingMoves DEF ChatInv
  <1>2. /\ \A d \in Conversations : conv[d].status # "none" => conv'[d].status # "none"
        /\ \A n \in Inbound : wrote[n] > 0 => wrote'[n] > 0
    BY DEF ResolveCreate, Fresh, meta
  <1>3. Carries(p)'
    BY DEF ChatInv, ProcInv, Carries, ResolveCreate, Handling, meta, At
  <1>4. ProcInv'
    BY <1>1, <1>2, <1>3, CarriesStays DEF ChatInv, ProcInv
  <1>5. TypeInv'
    <2>1. Fresh(c) /\ conv' = [conv EXCEPT ![c] = CreateForContact(Contact(p))]
      BY DEF ResolveCreate
    <2>2. Contact(p) \in Customers
      BY ChatAssumption DEF ChatInv, ProcInv, Carries, ResolveCreate, Contact, At
    <2> QED
      BY <2>2, CreateRows DEF ChatInv, TypeInv, ResolveCreate, Handling, meta
  <1>6. MetaInv'
    BY DEF ChatInv, MetaInv, ResolveCreate, meta
  <1>7. HistoryInv'
    <2>1. Fresh(c) /\ conv' = [conv EXCEPT ![c] = CreateForContact(Contact(p))]
      BY DEF ResolveCreate
    <2>2. Contact(p) \in Customers
      BY ChatAssumption DEF ChatInv, ProcInv, Carries, ResolveCreate, Contact, At
    <2>3. history' = history /\ (~ history[c].overtaken => history[c].target = None)
      BY DEF ResolveCreate, ChatInv, HistoryInv, NoConversation, Fresh
    <2>4. /\ \A d \in Conversations \ {c} : conv'[d] = conv[d]
          /\ conv'[c].of = Contact(p) /\ conv'[c].status = "OPEN"
          /\ conv'[c].owner = None
      BY <2>1, <2>2, CreateRows
    <2> QED
      BY <2>2, <2>3, <2>4 DEF ChatInv, HistoryInv, Exists
  <1>8. LockInv'
    BY DEF ChatInv, LockInv, InTransaction, Held, Contact, Opened, Stored, ResolveCreate,
       Handling, At
  <1>9. WindowInv'
    BY DEF ChatInv, WindowInv, Exists, Stored, ProcInv, Carries, NoConversation,
       ResolveCreate, Handling, Fresh, CreateForContact
  <1>10. OneOpenConversation'
    BY DEF ChatInv, OneOpenConversation, Opened, ResolveCreate
  <1>11. FreeTextFollowsCustomer'
    BY DEF ChatInv, FreeTextFollowsCustomer, Stored, ResolveCreate
  <1> QED
    BY <1>4, <1>5, <1>6, <1>7, <1>8, <1>9, <1>10, <1>11 DEF ChatInv

LEMMA FindExistingStep ==
    ASSUME ChatInv, NEW p \in Requests,
           FindExisting(p)
    PROVE  ChatInv'
  <1>1. /\ proc' \in [Requests -> Local] /\ \A q \in Requests \ {p} : proc'[q] = proc[q]
        /\ /\ proc'[p].at = "permit" /\ proc'[p].on = proc[p].on
           /\ proc'[p].msg = proc[p].msg /\ proc'[p].op = proc[p].op
           /\ proc'[p].val \in PERMISSION \cup {"none"}
    <2> DEFINE local == [proc[p] EXCEPT !.at = "permit", !.val = perm[proc[p].on].status]
    <2>1. proc[p] \in Local
          /\ perm[proc[p].on].status \in Words
          /\ perm[proc[p].on].status \in PERMISSION \cup {"none"}
      BY DEF ChatInv, ProcInv, Carries, TypeInv, Permission, Words, FindExisting, At
    <2>2. local \in Local
      BY <2>1 DEF Local, Points
    <2>3. /\ local.at = "permit"
          /\ local.on = proc[p].on
          /\ local.msg = proc[p].msg
          /\ local.op = proc[p].op
          /\ local.val = perm[proc[p].on].status
      BY <2>1 DEF Local
    <2>4. Handling(p, local)
      BY DEF FindExisting
    <2> HIDE DEF local
    <2> QED
      BY <2>1, <2>2, <2>3, <2>4, HandlingMoves DEF ChatInv
  <1>2. /\ \A d \in Conversations : conv[d].status # "none" => conv'[d].status # "none"
        /\ \A n \in Inbound : wrote[n] > 0 => wrote'[n] > 0
    BY DEF FindExisting, tables, meta
  <1>3. Carries(p)'
    BY <1>1 DEF ChatInv, ProcInv, Carries, FindExisting, meta, At
  <1>4. ProcInv'
    BY <1>1, <1>2, <1>3, CarriesStays DEF ChatInv, ProcInv
  <1>5. TypeInv'
    BY DEF ChatInv, TypeInv, FindExisting, Handling, tables, meta
  <1>6. MetaInv'
    BY DEF ChatInv, MetaInv, FindExisting, tables, meta
  <1>7. HistoryInv'
    BY DEF ChatInv, HistoryInv, Exists, FindExisting, tables
  <1>8. LockInv'
    BY DEF ChatInv, LockInv, InTransaction, Held, Contact, Opened, Stored, FindExisting,
       Handling, tables, world, At
  <1>9. WindowInv'
    BY DEF ChatInv, WindowInv, Exists, Stored, FindExisting, Handling, tables
  <1>10. OneOpenConversation'
    BY DEF ChatInv, OneOpenConversation, Opened, FindExisting, tables
  <1>11. FreeTextFollowsCustomer'
    BY DEF ChatInv, FreeTextFollowsCustomer, Stored, FindExisting, tables
  <1> QED
    BY <1>4, <1>5, <1>6, <1>7, <1>8, <1>9, <1>10, <1>11 DEF ChatInv

LEMMA PermitStep ==
    ASSUME ChatInv, NEW p \in Requests,
           Permit(p)
    PROVE  ChatInv'
  <1>1. /\ proc' \in [Requests -> Local] /\ \A q \in Requests \ {p} : proc'[q] = proc[q]
        /\ proc'[p].at = "receive" /\ proc'[p].msg = proc[p].msg /\ proc'[p].op = proc[p].op
    <2> DEFINE local == [proc[p] EXCEPT !.at = "receive", !.on = 0, !.val = "none"]
    <2>1. proc[p] \in Local
      BY DEF ChatInv, ProcInv
    <2>a. "receive" \in Points
      BY DEF Points
    <2>b. 0 \in Conversations \cup {0} /\ "none" \in Words
      BY DEF Words
    <2>2. local \in Local
      BY <2>1, <2>a, <2>b DEF Local
    <2>3. /\ local.at = "receive"
          /\ local.msg = proc[p].msg
          /\ local.op = proc[p].op
      BY <2>1 DEF Local
    <2>4. Handling(p, local)
      BY DEF Permit
    <2> HIDE DEF local
    <2> QED
      BY <2>1, <2>2, <2>3, <2>4, HandlingMoves DEF ChatInv
  <1>2. /\ \A d \in Conversations : conv[d].status # "none" => conv'[d].status # "none"
        /\ \A n \in Inbound : wrote[n] > 0 => wrote'[n] > 0
    BY DEF Permit, meta
  <1>3. Carries(p)'
    <2>1. proc[p].op = "reply" /\ proc[p].msg \in Inbound /\ wrote[proc[p].msg] > 0
      BY ChatAssumption DEF ChatInv, ProcInv, Carries, Permit, At
    <2> QED
      BY <1>1, <2>1 DEF Carries, Permit, meta
  <1>4. ProcInv'
    BY <1>1, <1>2, <1>3, CarriesStays DEF ChatInv, ProcInv
  <1>5. TypeInv'
    BY ChatAssumption DEF ChatInv, TypeInv, MetaInv, ProcInv, Carries, Permission, Times,
       Permit, Handling, Replied, meta, At, PERMISSION
  <1>6. MetaInv'
    BY DEF ChatInv, MetaInv, Permit, meta
  <1>7. HistoryInv'
    BY DEF ChatInv, HistoryInv, Exists, Permit
  <1>8. LockInv'
    BY DEF ChatInv, LockInv, InTransaction, Held, Contact, Opened, Stored, Permit,
       Handling, At
  <1>9. WindowInv'
    BY DEF ChatInv, WindowInv, Exists, Stored, Permit, Handling
  <1>10. OneOpenConversation'
    BY DEF ChatInv, OneOpenConversation, Opened, Permit
  <1>11. FreeTextFollowsCustomer'
    BY DEF ChatInv, FreeTextFollowsCustomer, Stored, Permit
  <1> QED
    BY <1>4, <1>5, <1>6, <1>7, <1>8, <1>9, <1>10, <1>11 DEF ChatInv

LEMMA GetPermissionStep ==
    ASSUME ChatInv, NEW p \in Requests, NEW c \in Conversations, NEW by \in Agents,
           GetPermission(p, c, by)
    PROVE  ChatInv'
  <1>1. /\ proc' \in [Requests -> Local] /\ \A q \in Requests \ {p} : proc'[q] = proc[q]
        /\ proc'[p].at = "getMeta" /\ proc'[p].on = c /\ proc'[p].to \in Customers
    <2> DEFINE local == [Idle EXCEPT !.at = "getMeta", !.on = c, !.by = by, !.to = conv[c].of]
    <2>0. conv[c].of \in Customers
      BY DEF ChatInv, HistoryInv, GetPermission, ConversationForCalling
    <2>1. local \in Local /\ local.at = "getMeta" /\ local.on = c
          /\ local.to \in Customers /\ "getPermission" \in Operations
      BY <2>0, IdleIsLocal DEF Local, Idle, Points, Operations
    <2>2. Begin(p, "getPermission", local)
      BY DEF GetPermission, ConversationForCalling
    <2> HIDE DEF local
    <2> QED
      BY <2>1, <2>2, BeginMoves DEF ChatInv
  <1>2. /\ \A d \in Conversations : conv[d].status # "none" => conv'[d].status # "none"
        /\ \A n \in Inbound : wrote[n] > 0 => wrote'[n] > 0
    BY DEF GetPermission, ConversationForCalling, tables, meta
  <1>3. Carries(p)'
    BY <1>1 DEF Carries
  <1>4. ProcInv'
    BY <1>1, <1>2, <1>3, CarriesStays DEF ChatInv, ProcInv
  <1>5. TypeInv'
    BY ChatAssumption DEF ChatInv, TypeInv, GetPermission, Begin, ConversationForCalling,
       tables, meta
  <1>6. MetaInv'
    BY DEF ChatInv, MetaInv, GetPermission, ConversationForCalling, tables, meta
  <1>7. HistoryInv'
    BY DEF ChatInv, HistoryInv, Exists, GetPermission, ConversationForCalling, tables
  <1>8. LockInv'
    BY DEF ChatInv, LockInv, InTransaction, Held, Contact, Opened, Stored, GetPermission,
       Begin, ConversationForCalling, tables, world, At
  <1>9. WindowInv'
    BY DEF ChatInv, WindowInv, Exists, Stored, GetPermission, Begin,
       ConversationForCalling, tables
  <1>10. OneOpenConversation'
    BY DEF ChatInv, OneOpenConversation, Opened, GetPermission, ConversationForCalling,
       tables
  <1>11. FreeTextFollowsCustomer'
    BY DEF ChatInv, FreeTextFollowsCustomer, Stored, GetPermission, ConversationForCalling,
       tables
  <1> QED
    BY <1>4, <1>5, <1>6, <1>7, <1>8, <1>9, <1>10, <1>11 DEF ChatInv

LEMMA RequestPermissionStep ==
    ASSUME ChatInv, NEW p \in Requests, NEW c \in Conversations, NEW by \in Agents,
           RequestPermission(p, c, by)
    PROVE  ChatInv'
  <1>1. /\ proc' \in [Requests -> Local] /\ \A q \in Requests \ {p} : proc'[q] = proc[q]
        /\ proc'[p].at = "getMeta" /\ proc'[p].on = c /\ proc'[p].to \in Customers
    <2> DEFINE local == [Idle EXCEPT !.at = "getMeta", !.on = c, !.by = by, !.to = conv[c].of]
    <2>0. conv[c].of \in Customers
      BY DEF ChatInv, HistoryInv, RequestPermission, ConversationForCalling
    <2>1. local \in Local /\ local.at = "getMeta" /\ local.on = c
          /\ local.to \in Customers /\ "request" \in Operations
      BY <2>0, IdleIsLocal DEF Local, Idle, Points, Operations
    <2>2. Begin(p, "request", local)
      BY DEF RequestPermission, ConversationForCalling
    <2> HIDE DEF local
    <2> QED
      BY <2>1, <2>2, BeginMoves DEF ChatInv
  <1>2. /\ \A d \in Conversations : conv[d].status # "none" => conv'[d].status # "none"
        /\ \A n \in Inbound : wrote[n] > 0 => wrote'[n] > 0
    BY DEF RequestPermission, ConversationForCalling, tables, meta
  <1>3. Carries(p)'
    BY <1>1 DEF Carries
  <1>4. ProcInv'
    BY <1>1, <1>2, <1>3, CarriesStays DEF ChatInv, ProcInv
  <1>5. TypeInv'
    BY ChatAssumption DEF ChatInv, TypeInv, RequestPermission, Begin,
       ConversationForCalling, tables, meta
  <1>6. MetaInv'
    BY DEF ChatInv, MetaInv, RequestPermission, ConversationForCalling, tables, meta
  <1>7. HistoryInv'
    BY DEF ChatInv, HistoryInv, Exists, RequestPermission, ConversationForCalling, tables
  <1>8. LockInv'
    BY DEF ChatInv, LockInv, InTransaction, Held, Contact, Opened, Stored,
       RequestPermission, Begin, ConversationForCalling, tables, world, At
  <1>9. WindowInv'
    BY DEF ChatInv, WindowInv, Exists, Stored, RequestPermission, Begin,
       ConversationForCalling, tables
  <1>10. OneOpenConversation'
    BY DEF ChatInv, OneOpenConversation, Opened, RequestPermission, ConversationForCalling,
       tables
  <1>11. FreeTextFollowsCustomer'
    BY DEF ChatInv, FreeTextFollowsCustomer, Stored, RequestPermission,
       ConversationForCalling, tables
  <1> QED
    BY <1>4, <1>5, <1>6, <1>7, <1>8, <1>9, <1>10, <1>11 DEF ChatInv

LEMMA GetCallPermissionStep ==
    ASSUME ChatInv, NEW p \in Requests,
           GetCallPermission(p)
    PROVE  ChatInv'
  <1>1. /\ proc' \in [Requests -> Local] /\ \A q \in Requests \ {p} : proc'[q] = proc[q]
        /\ \/ proc'[p] = Idle
           \/ proc'[p].at = "find" /\ proc'[p].on = proc[p].on /\ proc'[p].to = proc[p].to
    <2> DEFINE local == [proc[p] EXCEPT !.at = "find", !.seen = allowed[proc[p].to].says,
                                      !.until = allowed[proc[p].to].until]
    <2>1. proc[p] \in Local /\ allowed[proc[p].to].until \in Times
          /\ allowed[proc[p].to].says \in {"yes", "no", "asked"}
      BY DEF ChatInv, ProcInv, Carries, MetaInv, GetCallPermission, At
    <2>2. local \in Local
      BY <2>1 DEF Local, Points
    <2>3. /\ local.at = "find"
          /\ local.on = proc[p].on
          /\ local.to = proc[p].to
      BY <2>1 DEF Local
    <2>4. Handling(p, local) \/ Finish(p)
      BY DEF GetCallPermission
    <2> HIDE DEF local
    <2> QED
      BY <2>1, <2>2, <2>3, <2>4, HandlingMoves, FinishMoves DEF ChatInv
  <1>2. /\ \A d \in Conversations : conv[d].status # "none" => conv'[d].status # "none"
        /\ \A n \in Inbound : wrote[n] > 0 => wrote'[n] > 0
    BY DEF GetCallPermission, tables, meta
  <1>3. Carries(p)'
    BY <1>1, IdleFields DEF ChatInv, ProcInv, Carries, GetCallPermission, At
  <1>4. ProcInv'
    BY <1>1, <1>2, <1>3, CarriesStays DEF ChatInv, ProcInv
  <1>5. TypeInv'
    BY DEF ChatInv, TypeInv, GetCallPermission, Handling, Finish, tables, meta
  <1>6. MetaInv'
    BY DEF ChatInv, MetaInv, GetCallPermission, tables, meta
  <1>7. HistoryInv'
    BY DEF ChatInv, HistoryInv, Exists, GetCallPermission, tables
  <1>8. LockInv'
    BY <1>1, LockFrame, IdleFields DEF ChatInv, LockInv, GetCallPermission, tables
  <1>9. WindowInv'
    BY <1>1, WindowFrame, IdleFields DEF GetCallPermission, tables
  <1>10. OneOpenConversation'
    BY DEF ChatInv, OneOpenConversation, Opened, GetCallPermission, tables
  <1>11. FreeTextFollowsCustomer'
    BY DEF ChatInv, FreeTextFollowsCustomer, Stored, GetCallPermission, tables
  <1> QED
    BY <1>4, <1>5, <1>6, <1>7, <1>8, <1>9, <1>10, <1>11 DEF ChatInv

LEMMA FindPermissionStep ==
    ASSUME ChatInv, NEW p \in Requests,
           FindPermission(p)
    PROVE  ChatInv'
  <1>1. /\ proc' \in [Requests -> Local] /\ \A q \in Requests \ {p} : proc'[q] = proc[q]
        /\ /\ proc'[p].at = "sync" /\ proc'[p].on = proc[p].on /\ proc'[p].to = proc[p].to
           /\ proc'[p].val \in PERMISSION
    <2> DEFINE local == [proc[p] EXCEPT !.at = "sync",
                        !.val = NormalizeMeta(proc[p].seen, proc[p].until, perm[proc[p].on])]
    <2>1. proc[p] \in Local
          /\ NormalizeMeta(proc[p].seen, proc[p].until, perm[proc[p].on]) \in PERMISSION
          /\ NormalizeMeta(proc[p].seen, proc[p].until, perm[proc[p].on]) \in Words
      BY DEF ChatInv, ProcInv, NormalizeMeta, PERMISSION, Words
    <2>2. local \in Local
      BY <2>1 DEF Local, Points
    <2>3. /\ local.at = "sync"
          /\ local.on = proc[p].on
          /\ local.to = proc[p].to
          /\ local.val = NormalizeMeta(proc[p].seen, proc[p].until, perm[proc[p].on])
      BY <2>1 DEF Local
    <2>4. Handling(p, local)
      BY DEF FindPermission
    <2> HIDE DEF local
    <2> QED
      BY <2>1, <2>2, <2>3, <2>4, HandlingMoves DEF ChatInv
  <1>2. /\ \A d \in Conversations : conv[d].status # "none" => conv'[d].status # "none"
        /\ \A n \in Inbound : wrote[n] > 0 => wrote'[n] > 0
    BY DEF FindPermission, tables, meta
  <1>3. Carries(p)'
    BY <1>1 DEF ChatInv, ProcInv, Carries, FindPermission, At
  <1>4. ProcInv'
    BY <1>1, <1>2, <1>3, CarriesStays DEF ChatInv, ProcInv
  <1>5. TypeInv'
    BY DEF ChatInv, TypeInv, FindPermission, Handling, tables, meta
  <1>6. MetaInv'
    BY DEF ChatInv, MetaInv, FindPermission, tables, meta
  <1>7. HistoryInv'
    BY DEF ChatInv, HistoryInv, Exists, FindPermission, tables
  <1>8. LockInv'
    BY DEF ChatInv, LockInv, InTransaction, Held, Contact, Opened, Stored, FindPermission,
       Handling, tables, meta, world, At
  <1>9. WindowInv'
    BY DEF ChatInv, WindowInv, Exists, Stored, FindPermission, Handling, tables
  <1>10. OneOpenConversation'
    BY DEF ChatInv, OneOpenConversation, Opened, FindPermission, tables
  <1>11. FreeTextFollowsCustomer'
    BY DEF ChatInv, FreeTextFollowsCustomer, Stored, FindPermission, tables
  <1> QED
    BY <1>4, <1>5, <1>6, <1>7, <1>8, <1>9, <1>10, <1>11 DEF ChatInv

LEMMA SyncFromMetaStep ==
    ASSUME ChatInv, NEW p \in Requests,
           SyncFromMeta(p)
    PROVE  ChatInv'
  <1>1. /\ proc' \in [Requests -> Local] /\ \A q \in Requests \ {p} : proc'[q] = proc[q]
        /\ proc'[p] = Idle \/ (proc'[p].at = "synced" /\ Keeps(p))
    BY GotoMoves, FinishMoves DEF ChatInv, Points, SyncFromMeta
  <1>2. /\ \A d \in Conversations : conv[d].status # "none" => conv'[d].status # "none"
        /\ \A n \in Inbound : wrote[n] > 0 => wrote'[n] > 0
    BY DEF SyncFromMeta, meta
  <1>3. Carries(p)'
    BY <1>1, IdleFields DEF ChatInv, ProcInv, Carries, SyncFromMeta, At, Keeps
  <1>4. ProcInv'
    BY <1>1, <1>2, <1>3, CarriesStays DEF ChatInv, ProcInv
  <1>5. TypeInv'
    <2> DEFINE row == [status |-> proc[p].val, can |-> proc[p].val = "GRANTED",
                    until |-> proc[p].until, wamid |-> perm[proc[p].on].wamid]
    <2>1. /\ perm \in [Conversations -> Permission]
          /\ proc[p].on \in Conversations /\ proc[p].val \in PERMISSION
          /\ proc[p].until \in Times
      BY DEF ChatInv, TypeInv, ProcInv, Carries, Local, SyncFromMeta, At
    <2>2. row \in Permission
      BY <2>1 DEF Permission
    <2>3. perm' = perm \/ perm' = [perm EXCEPT ![proc[p].on] = row]
      BY <2>1 DEF SyncFromMeta
    <2> HIDE DEF row
    <2> QED
      BY <2>2, <2>3 DEF ChatInv, TypeInv, SyncFromMeta, Finish, Goto, Handling, meta
  <1>6. MetaInv'
    BY DEF ChatInv, MetaInv, SyncFromMeta, meta
  <1>7. HistoryInv'
    BY DEF ChatInv, HistoryInv, Exists, SyncFromMeta
  <1>8. LockInv'
    BY <1>1, LockFrame, IdleFields DEF ChatInv, LockInv, SyncFromMeta
  <1>9. WindowInv'
    BY <1>1, WindowFrame, IdleFields DEF SyncFromMeta
  <1>10. OneOpenConversation'
    BY DEF ChatInv, OneOpenConversation, Opened, SyncFromMeta
  <1>11. FreeTextFollowsCustomer'
    BY DEF ChatInv, FreeTextFollowsCustomer, Stored, SyncFromMeta
  <1> QED
    BY <1>4, <1>5, <1>6, <1>7, <1>8, <1>9, <1>10, <1>11 DEF ChatInv

LEMMA ExpireIfNeededStep ==
    ASSUME ChatInv, NEW p \in Requests,
           ExpireIfNeeded(p)
    PROVE  ChatInv'
  <1>1. /\ proc' \in [Requests -> Local] /\ \A q \in Requests \ {p} : proc'[q] = proc[q]
        /\ proc'[p] = Idle
    BY GotoMoves, FinishMoves DEF ChatInv, Points, ExpireIfNeeded
  <1>2. /\ \A d \in Conversations : conv[d].status # "none" => conv'[d].status # "none"
        /\ \A n \in Inbound : wrote[n] > 0 => wrote'[n] > 0
    BY DEF ExpireIfNeeded, meta
  <1>3. Carries(p)'
    BY DEF ChatInv, ProcInv, Carries, Idle, ExpireIfNeeded, Handling, Finish
  <1>4. ProcInv'
    BY <1>1, <1>2, <1>3, CarriesStays DEF ChatInv, ProcInv
  <1>5. TypeInv'
    <2>1. perm \in [Conversations -> Permission]
      BY DEF ChatInv, TypeInv
    <2>2. perm' = perm \/ perm' = [perm EXCEPT ![proc[p].on].status = "EXPIRED",
                                             ![proc[p].on].can = FALSE]
      BY DEF ExpireIfNeeded
    <2>3. perm' \in [Conversations -> Permission]
      BY <2>1, <2>2 DEF Permission, PERMISSION
    <2> QED
      BY <2>3 DEF ChatInv, TypeInv, ExpireIfNeeded, Finish, Handling, meta
  <1>6. MetaInv'
    BY DEF ChatInv, MetaInv, ExpireIfNeeded, meta
  <1>7. HistoryInv'
    BY DEF ChatInv, HistoryInv, Exists, ExpireIfNeeded
  <1>8. LockInv'
    BY DEF ChatInv, LockInv, InTransaction, Held, Contact, Opened, Stored, Idle,
       ExpireIfNeeded, Handling, Finish, At
  <1>9. WindowInv'
    BY <1>1 DEF ChatInv, WindowInv, Exists, Stored, Idle, ExpireIfNeeded
  <1>10. OneOpenConversation'
    BY DEF ChatInv, OneOpenConversation, Opened, ExpireIfNeeded
  <1>11. FreeTextFollowsCustomer'
    BY DEF ChatInv, FreeTextFollowsCustomer, Stored, ExpireIfNeeded
  <1> QED
    BY <1>4, <1>5, <1>6, <1>7, <1>8, <1>9, <1>10, <1>11 DEF ChatInv

LEMMA RequestCallPermissionStep ==
    ASSUME ChatInv, NEW p \in Requests,
           RequestCallPermission(p)
    PROVE  ChatInv'
  <1>1. /\ proc' \in [Requests -> Local] /\ \A q \in Requests \ {p} : proc'[q] = proc[q]
        /\ proc'[p] = Idle \/ (proc'[p].at = "requested" /\ Keeps(p))
    BY GotoMoves, FinishMoves DEF ChatInv, Points, RequestCallPermission
  <1>2. /\ \A d \in Conversations : conv[d].status # "none" => conv'[d].status # "none"
        /\ \A n \in Inbound : wrote[n] > 0 => wrote'[n] > 0
    BY DEF RequestCallPermission, tables
  <1>3. Carries(p)'
    BY <1>1, IdleFields DEF ChatInv, ProcInv, Carries, RequestCallPermission, At, Keeps
  <1>4. ProcInv'
    BY <1>1, <1>2, <1>3, CarriesStays DEF ChatInv, ProcInv
  <1>5. TypeInv'
    BY DEF ChatInv, TypeInv, RequestCallPermission, Handling, Goto, Finish, tables
  <1>6. MetaInv'
    <2>1. 0 \in Times
      BY ChatAssumption DEF Times
    <2> QED
      BY <2>1 DEF ChatInv, MetaInv, RequestCallPermission, tables
  <1>7. HistoryInv'
    BY DEF ChatInv, HistoryInv, Exists, RequestCallPermission, tables
  <1>8. LockInv'
    BY <1>1, LockFrame, IdleFields DEF ChatInv, LockInv, RequestCallPermission, tables,
       meta
  <1>9. WindowInv'
    BY <1>1, WindowFrame, IdleFields DEF RequestCallPermission, tables, meta
  <1>10. OneOpenConversation'
    BY DEF ChatInv, OneOpenConversation, Opened, RequestCallPermission, tables
  <1>11. FreeTextFollowsCustomer'
    BY DEF ChatInv, FreeTextFollowsCustomer, Stored, RequestCallPermission, tables
  <1> QED
    BY <1>4, <1>5, <1>6, <1>7, <1>8, <1>9, <1>10, <1>11 DEF ChatInv

LEMMA MarkRequestedStep ==
    ASSUME ChatInv, NEW p \in Requests,
           MarkRequested(p)
    PROVE  ChatInv'
  <1>1. /\ proc' \in [Requests -> Local] /\ \A q \in Requests \ {p} : proc'[q] = proc[q]
        /\ proc'[p] = Idle
    BY GotoMoves, FinishMoves DEF ChatInv, Points, MarkRequested
  <1>2. /\ \A d \in Conversations : conv[d].status # "none" => conv'[d].status # "none"
        /\ \A n \in Inbound : wrote[n] > 0 => wrote'[n] > 0
    BY DEF MarkRequested, meta
  <1>3. Carries(p)'
    BY DEF ChatInv, ProcInv, Carries, Idle, MarkRequested, Handling, Finish
  <1>4. ProcInv'
    BY <1>1, <1>2, <1>3, CarriesStays DEF ChatInv, ProcInv
  <1>5. TypeInv'
    <2> DEFINE row == [NoPermission EXCEPT !.status = "PENDING"]
    <2>1. perm \in [Conversations -> Permission]
      BY DEF ChatInv, TypeInv
    <2>2. row \in Permission
      <3>1. NoPermission \in Permission
        BY ChatAssumption DEF NoPermission, Permission, Times
      <3> QED
        BY <3>1 DEF Permission, PERMISSION
    <2>3. perm' = perm \/ perm' = [perm EXCEPT ![proc[p].on] = row]
      BY DEF MarkRequested
    <2> HIDE DEF row
    <2> QED
      BY <2>2, <2>3 DEF ChatInv, TypeInv, MarkRequested, Finish, Handling, meta
  <1>6. MetaInv'
    BY DEF ChatInv, MetaInv, MarkRequested, meta
  <1>7. HistoryInv'
    BY DEF ChatInv, HistoryInv, Exists, MarkRequested
  <1>8. LockInv'
    BY DEF ChatInv, LockInv, InTransaction, Held, Contact, Opened, Stored, Idle,
       MarkRequested, Handling, Finish, At
  <1>9. WindowInv'
    BY <1>1 DEF ChatInv, WindowInv, Exists, Stored, Idle, MarkRequested
  <1>10. OneOpenConversation'
    BY DEF ChatInv, OneOpenConversation, Opened, MarkRequested
  <1>11. FreeTextFollowsCustomer'
    BY DEF ChatInv, FreeTextFollowsCustomer, Stored, MarkRequested
  <1> QED
    BY <1>4, <1>5, <1>6, <1>7, <1>8, <1>9, <1>10, <1>11 DEF ChatInv

LEMMA WorldStep ==
    ASSUME ChatInv,
           World
    PROVE  ChatInv'
  <1>1. UNCHANGED proc
    BY DEF World
  <1>2. /\ \A d \in Conversations : conv[d].status # "none" => conv'[d].status # "none"
        /\ \A n \in Inbound : wrote[n] > 0 => wrote'[n] > 0
    BY DEF ChatInv, MetaInv, World, Tick, Write, Reply, tables
  <1>3. TRUE
    OBVIOUS
  <1>4. ProcInv'
    BY <1>1, <1>2, CarriesStays DEF ChatInv, ProcInv
  <1>5. TypeInv'
    BY DEF ChatInv, TypeInv, World, Tick, Write, Reply, tables, meta, world, At
  <1>6. MetaInv'
    <2>1. /\ history' = history
          /\ wrote \in [Inbound -> 0..MaxTime] /\ now \in 1..MaxTime /\ now \in 0..MaxTime
          /\ allowed \in [Customers -> [says : {"yes", "no", "asked"}, until : Times]]
          /\ now + Window \in Times /\ 0 \in Times
      BY ChatAssumption DEF World, ChatInv, MetaInv, tables, Times
    <2>2. CASE Tick
      BY <2>1, <2>2, ChatAssumption DEF Tick, ChatInv, MetaInv
    <2>3. ASSUME NEW m \in Inbound, Write(m) PROVE MetaInv'
      BY <2>1, <2>3 DEF Write, ChatInv, MetaInv
    <2>4. ASSUME NEW m \in Inbound, NEW a, Reply(m, a) PROVE MetaInv'
      <3>1. Author[m] \in Customers
        BY ChatAssumption
      <3>2. allowed' \in [Customers -> [says : {"yes", "no", "asked"}, until : Times]]
        BY <2>1, <2>4, <3>1 DEF Reply
      <3>3. wrote' \in [Inbound -> 0..MaxTime] /\ now' = now
        BY <2>1, <2>4 DEF Reply
      <3> QED
        BY <2>1, <3>2, <3>3 DEF ChatInv, MetaInv
    <2> QED
      BY <2>2, <2>3, <2>4 DEF World
  <1>7. HistoryInv'
    BY DEF ChatInv, HistoryInv, Exists, World, tables, meta, world, At
  <1>8. LockInv'
    BY DEF ChatInv, LockInv, InTransaction, Held, Contact, Opened, Stored, World, tables,
       meta, world, At
  <1>9. WindowInv'
    BY DEF ChatInv, WindowInv, Exists, Stored, World, tables, meta, world, At
  <1>10. OneOpenConversation'
    BY DEF ChatInv, OneOpenConversation, Opened, World, tables, meta, world, At
  <1>11. FreeTextFollowsCustomer'
    BY DEF ChatInv, FreeTextFollowsCustomer, Stored, World, tables, meta, world, At
  <1> QED
    BY <1>4, <1>5, <1>6, <1>7, <1>8, <1>9, <1>10, <1>11 DEF ChatInv

(* A handover of a call writes the owner of a conversation, and no more.    *)
LEMMA CompleteTransferRows ==
    ASSUME ChatInv, NEW c \in Conversations, NEW to \in Agents, CompleteTransfer(c, to)
    PROVE  /\ Exists(c) /\ UNCHANGED <<msg, perm, locked, proc, meta, strays>>
           /\ conv' \in [Conversations -> Conversation]
           /\ history' \in [Conversations -> Assignment] /\ history'[c].overtaken
           /\ \A d \in Conversations \ {c} : conv'[d] = conv[d] /\ history'[d] = history[d]
           /\ \A d \in Conversations : conv'[d] = [conv[d] EXCEPT !.owner = conv'[d].owner]
  <1>1. /\ conv \in [Conversations -> Conversation] /\ history \in [Conversations -> Assignment]
        /\ conv' = [conv EXCEPT ![c].owner = to]
        /\ history' = [history EXCEPT ![c].overtaken = TRUE]
    BY DEF ChatInv, TypeInv, MetaInv, CompleteTransfer
  <1>2. /\ conv' \in [Conversations -> Conversation]
        /\ \A d \in Conversations \ {c} : conv'[d] = conv[d]
        /\ conv'[c] = [conv[c] EXCEPT !.owner = to]
    BY <1>1 DEF Conversation
  <1>3. /\ history' \in [Conversations -> Assignment] /\ history'[c].overtaken
        /\ \A d \in Conversations \ {c} : history'[d] = history[d]
    BY <1>1 DEF Assignment
  <1>4. \A d \in Conversations : conv'[d] = [conv[d] EXCEPT !.owner = conv'[d].owner]
    BY <1>1, <1>2 DEF Conversation
  <1> QED
    BY <1>2, <1>3, <1>4 DEF CompleteTransfer

\* What every handover of a call leaves alone.
Handover ==
    /\ UNCHANGED <<msg, perm, locked, proc, meta, strays>>
    /\ \A d \in Conversations :
          /\ conv'[d].of = conv[d].of /\ conv'[d].status = conv[d].status
          /\ conv'[d].window = conv[d].window /\ conv'[d].unread = conv[d].unread
          /\ conv'[d].template = conv[d].template
          /\ conv'[d].templateStatus = conv[d].templateStatus

LEMMA CallsHandOver == ASSUME ChatInv, Calls PROVE Handover
  <1>1. PICK c \in Conversations, to \in Agents : CompleteTransfer(c, to)
    BY DEF Calls
  <1>2. ASSUME NEW d \in Conversations
        PROVE  /\ conv'[d].of = conv[d].of /\ conv'[d].status = conv[d].status
               /\ conv'[d].window = conv[d].window /\ conv'[d].unread = conv[d].unread
               /\ conv'[d].template = conv[d].template
               /\ conv'[d].templateStatus = conv[d].templateStatus
    <2>1. conv[d] \in Conversation
      BY DEF ChatInv, TypeInv
    <2>2. conv'[d] = [conv[d] EXCEPT !.owner = conv'[d].owner]
      BY <1>1, CompleteTransferRows
    <2> QED
      BY <2>1, <2>2 DEF Conversation
  <1>3. UNCHANGED <<msg, perm, locked, proc, meta, strays>>
    BY <1>1 DEF CompleteTransfer
  <1> QED
    BY <1>2, <1>3 DEF Handover

LEMMA CallsStep ==
    ASSUME ChatInv, Calls
    PROVE  ChatInv'
  <1>1. PICK c \in Conversations, to \in Agents : CompleteTransfer(c, to)
    BY DEF Calls
  <1>2. Handover
    BY CallsHandOver
  <1>3. \A d \in Conversations : Exists(d)' <=> Exists(d)
    BY <1>2 DEF Handover, Exists
  <1>4. ProcInv'
    <2>1. /\ proc' = proc /\ ProcInv /\ wrote' = wrote
          /\ \A d \in Conversations : conv[d].status # "none" => conv'[d].status # "none"
      BY <1>2 DEF ChatInv, Handover, meta
    <2> QED
      BY <2>1, CarriesStays DEF ProcInv
  <1>5. TypeInv'
    <2>1. conv' \in [Conversations -> Conversation]
      BY <1>1, CompleteTransferRows
    <2>2. handled' \in 0..MaxHandled
      BY <1>1, ChatAssumption DEF ChatInv, TypeInv, CompleteTransfer
    <2> QED
      BY <1>2, <2>1, <2>2 DEF ChatInv, TypeInv, Handover, meta
  <1>6. MetaInv'
    BY <1>1, <1>2, CompleteTransferRows DEF ChatInv, MetaInv, Handover, meta
  <1>7. HistoryInv'
    <2>1. \A d \in Conversations \ {c} : conv'[d] = conv[d] /\ history'[d] = history[d]
      BY <1>1, CompleteTransferRows
    <2>2. Exists(c) /\ history'[c].overtaken
      BY <1>1, CompleteTransferRows
    <2> QED
      BY <1>2, <1>3, <2>1, <2>2 DEF ChatInv, HistoryInv, Handover, Exists
  <1>8. LockInv'
    BY <1>2 DEF ChatInv, LockInv, InTransaction, Held, Contact, Opened, Stored, Handover, At
  <1>9. WindowInv'
    <2>1. /\ msg' = msg /\ proc' = proc /\ ProcInv /\ WindowInv
          /\ \A d \in Conversations : conv'[d].window = conv[d].window
      BY <1>2 DEF ChatInv, Handover
    <2> QED
      BY <1>3, <2>1 DEF WindowInv, Stored, ProcInv, Carries
  <1>10. OneOpenConversation'
    BY <1>2 DEF ChatInv, OneOpenConversation, Opened, Handover
  <1>11. FreeTextFollowsCustomer'
    BY <1>2 DEF ChatInv, FreeTextFollowsCustomer, Stored, Handover, meta
  <1> QED
    BY <1>4, <1>5, <1>6, <1>7, <1>8, <1>9, <1>10, <1>11 DEF ChatInv

-----------------------------------------------------------------------------
(* ChatInv holds at first, and every step keeps it.                         *)
LEMMA ChatInit ==
    ASSUME Init
    PROVE  ChatInv
  <1>1. /\ NoConversation \in Conversation /\ NoMessage \in Message
        /\ NoPermission \in Permission /\ 0 \in Times
    BY ChatAssumption DEF NoConversation, NoMessage, NoPermission, Conversation, Message,
       Permission, Times
  <1>2. TypeInv
    BY <1>1, ChatAssumption DEF Init, TypeInv
  <1>3. MetaInv
    BY <1>1, ChatAssumption DEF Init, MetaInv, NoHistory, Assignment
  <1>4. ProcInv
    <2>1. proc \in [Requests -> Local] /\ \A p \in Requests : proc[p] = Idle
      BY IdleIsLocal DEF Init
    <2> QED
      BY <2>1, IdleFields DEF ProcInv, Carries
  <1>5. \A c \in Conversations : conv[c].status = "none" /\ conv[c].owner = None
                                  /\ conv[c].window = 0 /\ history[c].target = None
    BY DEF Init, NoConversation, NoHistory
  <1>6. \A w \in Messages : msg[w].status = "none" /\ msg[w].kind = "none"
    BY DEF Init, NoMessage
  <1>7. \A p \in Requests : proc[p].at = "idle"
    BY IdleFields DEF Init
  <1>8. HistoryInv
    BY <1>5 DEF HistoryInv, Exists, Init
  <1>9. LockInv
    BY <1>6, <1>7 DEF LockInv, InTransaction, At, Stored
  <1>10. WindowInv
    BY <1>5, <1>7 DEF WindowInv
  <1>11. OneOpenConversation
    BY <1>5 DEF OneOpenConversation, Opened
  <1>12. FreeTextFollowsCustomer
    BY <1>6 DEF FreeTextFollowsCustomer, Messages
  <1> QED
    BY <1>2, <1>3, <1>4, <1>8, <1>9, <1>10, <1>11, <1>12 DEF ChatInv

LEMMA ChatStutters ==
    ASSUME ChatInv, UNCHANGED vars
    PROVE  ChatInv'
  <1> USE DEF vars
  <1>1. TypeInv' /\ MetaInv' /\ HistoryInv'
    BY DEF ChatInv, TypeInv, MetaInv, HistoryInv, Exists
  <1>2. ProcInv'
    BY DEF ChatInv, ProcInv, Carries
  <1>3. LockInv'
    BY DEF ChatInv, LockInv, InTransaction, Held, Contact, At, Opened, Stored
  <1>4. WindowInv' /\ OneOpenConversation' /\ FreeTextFollowsCustomer'
    BY DEF ChatInv, WindowInv, OneOpenConversation, FreeTextFollowsCustomer, Exists,
       Opened, Stored
  <1> QED
    BY <1>1, <1>2, <1>3, <1>4 DEF ChatInv

LEMMA WebhookKeepsChatInv ==
    ASSUME ChatInv, NEW p \in Requests, Webhook(p)
    PROVE  ChatInv'
  BY ProcessInboundStep, ProcessReplyStep, ProcessStatusStep DEF Webhook

LEMMA RouteKeepsChatInv ==
    ASSUME ChatInv, NEW p \in Requests, Route(p)
    PROVE  ChatInv'
  <1>1. ASSUME NEW c \in Conversations, NEW by \in Agents \cup {None},
               \/ SendText(p, c, by) \/ SendMedia(p, c, by) \/ SendTemplate(p, c, by)
               \/ \E w \in Messages : SendReaction(p, c, by, w)
               \/ \E s \in {"OPEN", "CLOSED"} : ChangeStatus(p, c, by, s)
        PROVE  ChatInv'
    BY <1>1, SendTextStep, SendMediaStep, SendTemplateStep, SendReactionStep, ChangeStatusStep
  <1>2. ASSUME NEW c \in Conversations, NEW by \in Agents,
               \/ GetPermission(p, c, by) \/ RequestPermission(p, c, by)
               \/ \E action \in {"CLAIM", "TRANSFER", "RELEASE"}, to \in Agents \cup {None} :
                     ChangeAssignment(p, c, by, action, to)
        PROVE  ChatInv'
    BY <1>2, GetPermissionStep, RequestPermissionStep, ChangeAssignmentStep
  <1>3. ASSUME NEW c \in Conversations, MarkRead(p, c) \/ DeleteConversation(p, c)
        PROVE  ChatInv'
    BY <1>3, MarkReadStep, DeleteConversationStep
  <1>4. ASSUME NEW k \in Customers, CreateConversation(p, k) PROVE ChatInv'
    BY <1>4, CreateConversationStep
  <1> QED
    BY <1>1, <1>2, <1>3, <1>4 DEF Route

LEMMA StepKeepsChatInv ==
    ASSUME ChatInv, NEW p \in Requests, Step(p)
    PROVE  ChatInv'
  <1>1. CASE FindByWamid(p) \/ UpsertByWaId(p) \/ InsertFails(p)
    BY <1>1, FindByWamidStep, UpsertByWaIdStep, InsertFailsStep
  <1>2. CASE \E c \in Conversations :
                InsertMessage(p, c) \/ CreateOrReuse(p, c) \/ ResolveCreate(p, c)
    BY <1>2, InsertMessageStep, CreateOrReuseStep, ResolveCreateStep
  <1>3. CASE UpdateStatusByWamid(p) \/ UpdateInitialTemplateStatus(p)
    BY <1>3, UpdateStatusByWamidStep, UpdateInitialTemplateStatusStep
  <1>4. CASE Prepare(p) \/ PersistOutbound(p) \/ \E w \in Outbound : Send(p, w)
    BY <1>4, PrepareStep, PersistOutboundStep, SendStep
  <1>5. CASE UpdateConversation(p) \/ DeleteById(p) \/ UpdateAssignment(p)
    BY <1>5, UpdateConversationStep, DeleteByIdStep, UpdateAssignmentStep
  <1>6. CASE ResolveConversation(p) \/ FindExisting(p) \/ Permit(p)
    BY <1>6, ResolveConversationStep, FindExistingStep, PermitStep
  <1>7. CASE \/ GetCallPermission(p) \/ FindPermission(p) \/ SyncFromMeta(p)
             \/ ExpireIfNeeded(p) \/ RequestCallPermission(p) \/ MarkRequested(p)
    BY <1>7, GetCallPermissionStep, FindPermissionStep, SyncFromMetaStep, ExpireIfNeededStep,
       RequestCallPermissionStep, MarkRequestedStep
  <1> QED
    BY <1>1, <1>2, <1>3, <1>4, <1>5, <1>6, <1>7 DEF Step

LEMMA NextKeepsChatInv ==
    ASSUME ChatInv, [Next]_vars
    PROVE  ChatInv'
  BY WorldStep, WebhookKeepsChatInv, RouteKeepsChatInv, StepKeepsChatInv, CallsStep,
     ChatStutters
  DEF Next, Answered

(* The columns of the tables keep their types, whatever the handlers do.    *)
THEOREM ChatIsTyped == Spec => []TypeInv
  <1>1. ChatInv => TypeInv
    BY DEF ChatInv
  <1> QED
    BY <1>1, ChatInit, NextKeepsChatInv, PTL DEF Spec

(* Of the conversations opened under the lock of the contact, one is open:  *)
(* two find-or-create transactions never both create, for any number of     *)
(* webhooks and agents at once (message.service.js:97-108).                 *)
THEOREM OneIsOpen == Spec => []OneOpenConversation
  <1>1. ChatInv => OneOpenConversation
    BY DEF ChatInv
  <1> QED
    BY <1>1, ChatInit, NextKeepsChatInv, PTL DEF Spec

(* The history names who has the conversation, however claims, transfers,   *)
(* releases and handovers of calls race, until a handover is completed      *)
(* after its last record (conversation.service.js:342-370; callTransfer.    *)
(* service.js:194-199 records nothing).                                     *)
THEOREM HistoryIsTrue == Spec => []HistoryTellsOwner
  <1>1. ChatInv => HistoryTellsOwner
    BY DEF ChatInv, HistoryInv, HistoryTellsOwner, Exists
  <1> QED
    BY <1>1, ChatInit, NextKeepsChatInv, PTL DEF Spec

(* No free text before a message of the customer, though the window is      *)
(* asked about before the upload and before Meta (message.service.js).      *)
THEOREM CustomerSpokeFirst == Spec => []FreeTextFollowsCustomer
  <1>1. ChatInv => FreeTextFollowsCustomer
    BY DEF ChatInv
  <1> QED
    BY <1>1, ChatInit, NextKeepsChatInv, PTL DEF Spec

-----------------------------------------------------------------------------
(* A step is of one handler, and the one that waits to write an assignment  *)
(* does only that.                                                          *)
LEMMA RequestBegins ==
    ASSUME NEW p \in Requests, Webhook(p) \/ Route(p)
    PROVE  \E e, local : Begin(p, e, local)
  <1> DEFINE Begun == \E e, local : Begin(p, e, local)
  <1>1. ASSUME NEW e, NEW local, Begin(p, e, local) PROVE Begun
    BY Zenon, <1>1
  <1> HIDE DEF Begun
  <1>2. CASE Webhook(p)
    BY <1>2 DEF Webhook, ProcessInbound, ProcessReply, ProcessStatus, Begun
  <1>3. CASE Route(p)
    <2>1. ASSUME NEW k, CreateConversation(p, k) PROVE Begun
      BY <1>1, <2>1 DEF CreateConversation
    <2>2. ASSUME NEW e, NEW c, NEW by, NEW s, NEW kind, Sending(p, e, c, by, s, kind)
          PROVE  Begun
      BY <1>1, <2>2 DEF Sending
    <2>3. ASSUME NEW c, NEW by,
                 \/ SendText(p, c, by) \/ SendMedia(p, c, by) \/ SendTemplate(p, c, by)
                 \/ \E w \in Messages : SendReaction(p, c, by, w)
                 \/ \E s \in {"OPEN", "CLOSED"} : ChangeStatus(p, c, by, s)
          PROVE  Begun
      BY <1>1, <2>2, <2>3 DEF SendText, SendMedia, SendTemplate, SendReaction, ChangeStatus
    <2>4. ASSUME NEW c, NEW by,
                 \/ GetPermission(p, c, by) \/ RequestPermission(p, c, by)
                 \/ \E action, to : ChangeAssignment(p, c, by, action, to)
          PROVE  Begun
      BY <1>1, <2>4
      DEF GetPermission, RequestPermission, ConversationForCalling, ChangeAssignment
    <2>5. ASSUME NEW c, MarkRead(p, c) \/ DeleteConversation(p, c) PROVE Begun
      BY <1>1, <2>5 DEF MarkRead, DeleteConversation
    <2> QED
      BY <1>3, <2>1, <2>3, <2>4, <2>5 DEF Route, Begun
  <1> QED
    BY <1>2, <1>3 DEF Begun

LEMMA OthersWait ==
    ASSUME ProcInv, NEW p \in Requests, NEW q \in Requests \ {p},
           Webhook(p) \/ Route(p) \/ Step(p)
    PROVE  proc'[q] = proc[q]
  <1>1. CASE Webhook(p) \/ Route(p)
    BY <1>1, RequestBegins DEF ProcInv, Begin
  <1>2. CASE Step(p)
    <2>1. \E local : Handling(p, local)
      BY <1>2 DEF Step, FindByWamid, UpsertByWaId, InsertFails, InsertMessage,
         CreateOrReuse, ResolveCreate, UpdateStatusByWamid, UpdateInitialTemplateStatus,
         Prepare, PersistOutbound, Send, UpdateConversation, DeleteById, UpdateAssignment,
         ResolveConversation, FindExisting, Permit, GetCallPermission, FindPermission,
         SyncFromMeta, ExpireIfNeeded, RequestCallPermission, MarkRequested, Goto, Finish
    <2> QED
      BY Zenon, <2>1 DEF ProcInv, Handling
  <1> QED
    BY <1>1, <1>2

LEMMA AssignsNext ==
    ASSUME NEW p \in Requests, At(p, "assign"), Webhook(p) \/ Route(p) \/ Step(p)
    PROVE  UpdateAssignment(p)
  <1>1. ~Webhook(p) /\ ~Route(p)
    BY RequestBegins DEF Begin, At
  <1>2. Step(p) => UpdateAssignment(p)
    BY DEF Step, At, FindByWamid, UpsertByWaId, InsertFails, InsertMessage, CreateOrReuse,
       ResolveCreate, UpdateStatusByWamid, UpdateInitialTemplateStatus, Prepare,
       PersistOutbound, Send, UpdateConversation, DeleteById, ResolveConversation,
       FindExisting, Permit, GetCallPermission, FindPermission, SyncFromMeta,
       ExpireIfNeeded, RequestCallPermission, MarkRequested
  <1> QED
    BY <1>1, <1>2

(* Of two agents who claim a conversation nobody has, the first keeps it:   *)
(* the claim that comes second writes nothing (claimIfUnassigned).          *)
THEOREM TheFirstClaimWins == Spec => FirstClaimWins
  <1> DEFINE Late(p) == /\ At(p, "assign") /\ ~At(p, "assign")'
                        /\ proc[p].val = "CLAIM" /\ proc[p].seen = None
                        /\ conv[proc[p].on].owner # None
  <1>1. ChatInv /\ [Next]_vars => [\A p \in Requests : Late(p) => UNCHANGED conv]_vars
    <2> SUFFICES ASSUME ChatInv, Next, NEW p \in Requests, Late(p)
                 PROVE  UNCHANGED conv
      BY DEF vars
    <2>1. proc'[p] # proc[p]
      BY DEF At
    <2>2. ~World /\ ~Calls /\ ~Answered
      BY <2>1, CallsHandOver DEF World, Handover, Answered, vars
    <2>3. PICK q \in Requests : Webhook(q) \/ Route(q) \/ Step(q)
      BY <2>2 DEF Next
    <2>4. q = p
      BY <2>1, <2>3, OthersWait DEF ChatInv
    <2>5. UpdateAssignment(p)
      BY <2>3, <2>4, AssignsNext
    <2> QED
      BY <2>5 DEF UpdateAssignment, ClaimIfUnassigned
  <1>2. Spec => [][\A p \in Requests : Late(p) => UNCHANGED conv]_vars
    BY <1>1, ChatInit, NextKeepsChatInv, PTL DEF Spec
  <1> QED
    BY <1>2 DEF FirstClaimWins

-----------------------------------------------------------------------------
(* What arrives is the first step of a handler that reads the tables only. *)
LEMMA WebhookMoves ==
    ASSUME ProcInv, NEW p \in Requests, Webhook(p)
    PROVE  /\ At(p, "idle") /\ proc'[p].at \in {"receive", "resolve", "mark"}
           /\ proc'[p].op \in {"inbound", "reply"} => proc'[p].at \in {"receive", "resolve"}
           /\ UNCHANGED <<tables, meta, locked>>
  <1>1. ASSUME NEW m \in Inbound, ProcessInbound(p, m) \/ ProcessReply(p, m)
        PROVE  /\ At(p, "idle") /\ proc'[p].at \in {"receive", "resolve"}
               /\ UNCHANGED <<tables, meta, locked>>
    BY <1>1 DEF ProcessInbound, ProcessReply, Begin, ProcInv, Idle
  <1>2. ASSUME NEW w \in Outbound, NEW s \in STATUS, ProcessStatus(p, w, s)
        PROVE  /\ At(p, "idle") /\ proc'[p].at = "mark" /\ proc'[p].op = "status"
               /\ UNCHANGED <<tables, meta, locked>>
    BY <1>2 DEF ProcessStatus, Begin, ProcInv, Idle
  <1> QED
    BY <1>1, <1>2 DEF Webhook

LEMMA RouteMoves ==
    ASSUME ProcInv, NEW p \in Requests, Route(p)
    PROVE  /\ At(p, "idle") /\ proc'[p].op \notin {"inbound", "reply"}
           /\ proc'[p].at \in {"upsert", "send", "prepare", "read", "setStatus", "delete",
                               "assign", "getMeta"}
           /\ proc'[p].at = "getMeta" =>
                 Exists(proc'[p].on) /\ proc'[p].to = conv[proc'[p].on].of
           /\ UNCHANGED <<tables, meta, locked>>
  <1> DEFINE Goal == /\ At(p, "idle") /\ proc'[p].op \notin {"inbound", "reply"}
                     /\ proc'[p].at \in {"upsert", "send", "prepare", "read", "setStatus",
                                         "delete", "assign", "getMeta"}
                     /\ proc'[p].at = "getMeta" =>
                           Exists(proc'[p].on) /\ proc'[p].to = conv[proc'[p].on].of
                     /\ UNCHANGED <<tables, meta, locked>>
  <1>1. ASSUME NEW k \in Customers, CreateConversation(p, k) PROVE Goal
    BY <1>1 DEF CreateConversation, Begin, ProcInv, Idle
  <1>2. ASSUME NEW e \in {"text", "reaction", "media", "template"}, NEW c, NEW by,
               NEW s \in {"send", "prepare"}, NEW kind, Sending(p, e, c, by, s, kind)
        PROVE  Goal
    BY <1>2 DEF Sending, Begin, ProcInv, Idle
  <1>3. ASSUME NEW c \in Conversations, NEW by,
               \/ SendText(p, c, by) \/ SendMedia(p, c, by) \/ SendTemplate(p, c, by)
               \/ \E w \in Messages : SendReaction(p, c, by, w)
        PROVE  Goal
    BY <1>2, <1>3 DEF SendText, SendMedia, SendTemplate, SendReaction
  <1>4. ASSUME NEW c \in Conversations, NEW by, NEW s, ChangeStatus(p, c, by, s) PROVE Goal
    BY <1>4 DEF ChangeStatus, Begin, ProcInv, Idle
  <1>5. ASSUME NEW c \in Conversations, MarkRead(p, c) \/ DeleteConversation(p, c) PROVE Goal
    BY <1>5 DEF MarkRead, DeleteConversation, Begin, ProcInv, Idle
  <1>6. ASSUME NEW c \in Conversations, NEW by,
               GetPermission(p, c, by) \/ RequestPermission(p, c, by)
        PROVE  Goal
    <2>1. PICK e \in {"getPermission", "request"} : ConversationForCalling(p, e, c, by)
      BY <1>6 DEF GetPermission, RequestPermission
    <2>2. /\ At(p, "idle") /\ Exists(c) /\ UNCHANGED <<tables, meta, locked>>
          /\ proc' = [proc EXCEPT ![p] = [[Idle EXCEPT !.at = "getMeta", !.on = c, !.by = by,
                                                        !.to = conv[c].of] EXCEPT !.op = e]]
      BY <2>1 DEF ConversationForCalling, Begin
    <2>3. /\ proc'[p].op = e /\ proc'[p].at = "getMeta" /\ proc'[p].on = c
          /\ proc'[p].to = conv[c].of
      BY <2>2 DEF ProcInv, Idle
    <2> QED
      BY <2>1, <2>2, <2>3
  <1>7. ASSUME NEW c \in Conversations, NEW by, NEW action, NEW to,
               ChangeAssignment(p, c, by, action, to)
        PROVE  Goal
    BY <1>7 DEF ChangeAssignment, Begin, ProcInv, Idle
  <1> QED
    BY <1>1, <1>3, <1>4, <1>5, <1>6, <1>7 DEF Route

(* A step of a handler: where it goes on, and what it may write.            *)
LEMMA StepMoves ==
    ASSUME ProcInv, NEW p \in Requests, Step(p)
    PROVE  /\ proc[p].at # "idle" /\ proc'[p].op \in {proc[p].op, "none"}
           /\ proc'[p].at = "persist" =>
                 \E w \in Outbound : /\ Send(p, w) /\ sent[w] = "none" /\ proc'[p].msg = w
                                     /\ sent' = [sent EXCEPT ![w] = proc[p].val]
           /\ proc'[p].at = "markTemplate" => UpdateStatusByWamid(p) /\ Stored(proc[p].msg)
           /\ proc'[p].at = "existing" =>
                 \/ ResolveConversation(p) \/ \E c \in Conversations : ResolveCreate(p, c)
           /\ proc'[p].at = "permit" => FindExisting(p)
           /\ proc'[p].at # "getMeta"
           /\ proc'[p].at = "find" => GetCallPermission(p)
           /\ proc'[p].at = "sync" => FindPermission(p)
  <1>0. proc[p] \in Local
    BY DEF ProcInv
  <1>1. /\ Finish(p) => proc'[p].at = "idle" /\ proc'[p].op = "none"
        /\ \A s : Goto(p, s) => proc'[p].at = s /\ proc'[p].op = proc[p].op
    BY <1>0 DEF Finish, Goto, Handling, ProcInv, Local, Idle
  <1>2. CASE FindByWamid(p) \/ InsertFails(p) \/ Prepare(p)
    BY <1>2, <1>1 DEF FindByWamid, InsertFails, Prepare, At
  <1>11. CASE UpsertByWaId(p)
    <2>1. proc'[p] = [proc[p] EXCEPT !.at = "insert", !.on = FindOpen(Contact(p))]
      BY <1>11 DEF UpsertByWaId, Handling, ProcInv
    <2>2. proc'[p].at = "insert" /\ proc'[p].op = proc[p].op
      BY <1>0, <2>1 DEF Local
    <2> QED
      BY <1>11, <2>2 DEF UpsertByWaId, At
  <1>3. CASE \E c \in Conversations : InsertMessage(p, c) \/ CreateOrReuse(p, c)
    BY <1>3, <1>1 DEF InsertMessage, CreateOrReuse, At
  <1>4. CASE \E c \in Conversations : ResolveCreate(p, c)
    <2>1. PICK c \in Conversations : ResolveCreate(p, c)
      BY <1>4
    <2>2. proc'[p] = [proc[p] EXCEPT !.at = "existing", !.on = c]
      BY <2>1 DEF ResolveCreate, Handling, ProcInv
    <2>3. proc'[p].at = "existing" /\ proc'[p].op = proc[p].op
      BY <1>0, <2>2 DEF Local
    <2> QED
      BY <1>4, <2>1, <2>3 DEF ResolveCreate, At
  <1>5. CASE UpdateStatusByWamid(p)
    <2>1. CASE Stored(proc[p].msg)
      <3>1. proc'[p] = [proc[p] EXCEPT !.at = "markTemplate", !.on = msg[proc[p].msg].conv,
                                       !.seen = conv[msg[proc[p].msg].conv].template]
        BY <1>5, <2>1 DEF UpdateStatusByWamid, Handling, ProcInv
      <3>2. proc'[p].at = "markTemplate" /\ proc'[p].op = proc[p].op
        BY <1>0, <3>1 DEF Local
      <3> QED
        BY <1>5, <2>1, <3>2 DEF UpdateStatusByWamid, At
    <2>2. CASE ~Stored(proc[p].msg)
      BY Zenon, <1>1, <1>5, <2>2 DEF UpdateStatusByWamid, At
    <2> QED
      BY <2>1, <2>2
  <1>6. CASE \/ UpdateInitialTemplateStatus(p) \/ PersistOutbound(p) \/ UpdateConversation(p)
             \/ DeleteById(p) \/ UpdateAssignment(p) \/ ExpireIfNeeded(p) \/ MarkRequested(p)
    BY <1>6, <1>1 DEF UpdateInitialTemplateStatus, PersistOutbound, UpdateConversation,
       DeleteById, UpdateAssignment, ExpireIfNeeded, MarkRequested, At
  <1>7. CASE \E w \in Outbound : Send(p, w)
    <2>1. PICK w \in Outbound : Send(p, w)
      BY <1>7
    <2>2. CASE Finish(p)
      BY <1>1, <2>1, <2>2 DEF Send, At
    <2>3. CASE ~Finish(p)
      <3>1. proc'[p] = [proc[p] EXCEPT !.at = "persist", !.msg = w]
        BY <2>1, <2>3 DEF Send, Handling, ProcInv
      <3>2. proc'[p].at = "persist" /\ proc'[p].op = proc[p].op /\ proc'[p].msg = w
        BY <1>0, <3>1 DEF Local
      <3> QED
        BY <2>1, <2>3, <3>2 DEF Send, At
    <2> QED
      BY <2>2, <2>3
  <1>8. CASE ResolveConversation(p) \/ FindExisting(p) \/ Permit(p)
    <2>1. CASE ResolveConversation(p)
      <3> DEFINE c == FindOpen(Contact(p))
                 s == IF c = 0 THEN "resolveCreate" ELSE "existing"
      <3>1. /\ s \in {"resolveCreate", "existing"}
            /\ proc'[p] = [proc[p] EXCEPT !.at = s, !.on = c]
        BY <2>1 DEF ResolveConversation, Handling, ProcInv
      <3>2. proc'[p].at = s /\ proc'[p].op = proc[p].op
        BY <1>0, <3>1 DEF Local
      <3> QED
        BY <2>1, <3>2 DEF ResolveConversation, At
    <2>2. CASE FindExisting(p)
      <3>1. proc'[p] = [proc[p] EXCEPT !.at = "permit", !.val = perm[proc[p].on].status]
        BY <2>2 DEF FindExisting, Handling, ProcInv
      <3>2. proc'[p].at = "permit" /\ proc'[p].op = proc[p].op
        BY <1>0, <3>1 DEF Local
      <3> QED
        BY <2>2, <3>2 DEF FindExisting, At
    <2>3. CASE Permit(p)
      <3>1. proc'[p] = [proc[p] EXCEPT !.at = "receive", !.on = 0, !.val = "none"]
        BY <2>3 DEF Permit, Handling, ProcInv
      <3>2. proc'[p].at = "receive" /\ proc'[p].op = proc[p].op
        BY <1>0, <3>1 DEF Local
      <3> QED
        BY <2>3, <3>2 DEF Permit, At
    <2> QED
      BY <1>8, <2>1, <2>2, <2>3
  <1>9. CASE GetCallPermission(p) \/ FindPermission(p)
    <2>1. CASE GetCallPermission(p) /\ Finish(p)
      BY <1>1, <2>1 DEF GetCallPermission, At
    <2>2. CASE GetCallPermission(p) /\ ~Finish(p)
      <3>1. PICK says, until :
                 proc'[p] = [proc[p] EXCEPT !.at = "find", !.seen = says, !.until = until]
        BY ZenonT(40), <2>2 DEF GetCallPermission, Handling, ProcInv
      <3>2. proc'[p].at = "find" /\ proc'[p].op = proc[p].op
        BY <1>0, <3>1 DEF Local
      <3> QED
        BY <2>2, <3>2 DEF GetCallPermission, At
    <2>3. CASE FindPermission(p)
      <3>1. PICK val : proc'[p] = [proc[p] EXCEPT !.at = "sync", !.val = val]
        BY <2>3 DEF FindPermission, Handling, ProcInv
      <3>2. proc'[p].at = "sync" /\ proc'[p].op = proc[p].op
        BY <1>0, <3>1 DEF Local
      <3> QED
        BY <2>3, <3>2 DEF FindPermission, At
    <2> QED
      BY <1>9, <2>1, <2>2, <2>3
  <1>10. CASE SyncFromMeta(p) \/ RequestCallPermission(p)
    BY <1>10, <1>1 DEF SyncFromMeta, RequestCallPermission, At
  <1> QED
    BY <1>2, <1>11, <1>3, <1>4, <1>5, <1>6, <1>7, <1>8, <1>9, <1>10 DEF Step

(* Only these steps write conversations and messages, wamids, permissions. *)
LEMMA WhoWrites ==
    ASSUME ProcInv, NEW p \in Requests, Webhook(p) \/ Route(p) \/ Step(p)
    PROVE  /\ \/ UNCHANGED <<conv, msg>>
              \/ \E c \in Conversations :
                    InsertMessage(p, c) \/ CreateOrReuse(p, c) \/ ResolveCreate(p, c)
              \/ PersistOutbound(p) \/ UpdateInitialTemplateStatus(p)
              \/ UpdateConversation(p) \/ DeleteById(p) \/ UpdateAssignment(p)
           /\ UNCHANGED sent \/ \E w \in Outbound : Send(p, w)
           /\ \/ UNCHANGED perm
              \/ Permit(p) \/ SyncFromMeta(p) \/ ExpireIfNeeded(p) \/ MarkRequested(p)
              \/ DeleteById(p)
           /\ UNCHANGED allowed \/ RequestCallPermission(p)
           /\ UNCHANGED <<wrote, answer>>
  <1>1. CASE Webhook(p) \/ Route(p)
    BY <1>1, WebhookMoves, RouteMoves DEF tables, meta
  <1>2. CASE FindByWamid(p) \/ UpsertByWaId(p) \/ InsertFails(p) \/ UpdateStatusByWamid(p)
             \/ Prepare(p) \/ ResolveConversation(p) \/ FindExisting(p)
             \/ GetCallPermission(p) \/ FindPermission(p)
    BY <1>2 DEF FindByWamid, UpsertByWaId, InsertFails, UpdateStatusByWamid, Prepare,
       ResolveConversation, FindExisting, GetCallPermission, FindPermission, tables, meta
  <1>3. CASE \/ \E c \in Conversations :
                   InsertMessage(p, c) \/ CreateOrReuse(p, c) \/ ResolveCreate(p, c)
             \/ UpdateInitialTemplateStatus(p) \/ PersistOutbound(p) \/ UpdateConversation(p)
             \/ DeleteById(p) \/ UpdateAssignment(p)
    BY ZenonT(40), <1>3 DEF InsertMessage, CreateOrReuse, ResolveCreate, UpdateInitialTemplateStatus,
       PersistOutbound, UpdateConversation, DeleteById, UpdateAssignment, meta
  <1>4. CASE \/ Permit(p) \/ SyncFromMeta(p) \/ ExpireIfNeeded(p) \/ RequestCallPermission(p)
             \/ MarkRequested(p) \/ \E w \in Outbound : Send(p, w)
    BY <1>4 DEF Permit, SyncFromMeta, ExpireIfNeeded, RequestCallPermission, MarkRequested,
       Send, tables, meta, world
  <1> QED
    BY <1>1, <1>2, <1>3, <1>4 DEF Step

LEMMA WorldReadsOnly ==
    ASSUME World PROVE UNCHANGED <<conv, msg, perm, locked, proc, sent>>
  BY DEF World, tables

-----------------------------------------------------------------------------
(* The handler of a customer's message.                                     *)
LEMMA NextInbound ==
    ASSUME ChatInv, InboundInv, [Next]_vars
    PROVE  InboundInv'
  <1>0. ProcInv
    BY DEF ChatInv
  <1>1. ASSUME UNCHANGED proc PROVE InboundInv'
    BY <1>1 DEF InboundInv
  <1>2. ASSUME NEW p \in Requests, Webhook(p) \/ Route(p) \/ Step(p),
               proc'[p].op \in {"inbound", "reply"}
        PROVE  proc'[p].at \in {"receive", "upsert", "insert", "resolve", "resolveCreate",
                                "existing", "permit"}
    <2>1. CASE Webhook(p) \/ Route(p)
      BY Zenon, <1>0, <1>2, <2>1, WebhookMoves, RouteMoves
    <2>2. CASE Step(p)
      <3>1. proc[p] \in Local /\ proc[p].op = proc'[p].op
            /\ proc[p].at \in {"receive", "upsert", "insert", "resolve", "resolveCreate",
                               "existing", "permit"}
        BY <1>0, <1>2, <2>2, StepMoves DEF InboundInv, ProcInv
      <3>2. ~Finish(p)
        BY <1>0, <1>2, FinishMoves, IdleFields
      <3>3. \A s : Goto(p, s) => proc'[p].at = s
        BY <1>0, <3>1 DEF Goto, Handling, ProcInv, Local
      <3>4. CASE FindByWamid(p)
        BY <3>2, <3>3, <3>4 DEF FindByWamid
      <3>5. CASE UpsertByWaId(p)
        BY <1>0, <3>1, <3>5 DEF UpsertByWaId, Handling, ProcInv, Local
      <3>6. CASE ResolveConversation(p)
        <4> DEFINE c == FindOpen(Contact(p))
                   s == IF c = 0 THEN "resolveCreate" ELSE "existing"
        <4>1. /\ s \in {"resolveCreate", "existing"}
              /\ proc'[p] = [proc[p] EXCEPT !.at = s, !.on = c]
          BY <1>0, <3>6 DEF ResolveConversation, Handling, ProcInv
        <4> QED
          BY <3>1, <4>1 DEF Local
      <3>7. CASE FindExisting(p) \/ Permit(p)
        BY ZenonT(40), <1>0, <3>1, <3>7 DEF FindExisting, Permit, Handling, ProcInv, Local
      <3>8. ASSUME NEW c \in Conversations, ResolveCreate(p, c) PROVE proc'[p].at = "existing"
        <4>1. proc'[p] = [proc[p] EXCEPT !.at = "existing", !.on = c]
          BY <1>0, <3>8 DEF ResolveCreate, Handling, ProcInv
        <4> QED
          BY <3>1, <4>1 DEF Local
      <3> QED
        BY <2>2, <3>1, <3>2, <3>4, <3>5, <3>6, <3>7, <3>8 DEF Step, At, InsertFails,
           InsertMessage, CreateOrReuse, UpdateStatusByWamid, UpdateInitialTemplateStatus,
           Prepare, PersistOutbound, Send, UpdateConversation, DeleteById, UpdateAssignment,
           GetCallPermission, FindPermission, SyncFromMeta, ExpireIfNeeded,
           RequestCallPermission, MarkRequested
    <2> QED
      BY <1>2, <2>1, <2>2
  <1>3. ASSUME NEW p \in Requests, Webhook(p) \/ Route(p) \/ Step(p) PROVE InboundInv'
    BY <1>0, <1>2, <1>3, OthersWait DEF InboundInv
  <1> QED
    BY <1>1, <1>3, WorldReadsOnly, CallsHandOver DEF Next, Handover, Answered, vars

(* A handler of a customer's message ends when the message is stored or the *)
(* conversation it found is gone: no interleaving of deliveries, agents and *)
(* deletions makes it leave the message out (message.service.js:89-125).    *)
THEOREM NothingIsLeftOut == Spec => InboundIsStored
  <1> DEFINE Ends(p, m) == /\ proc[p].op \in {"inbound", "reply"} /\ proc[p].msg = m
                           /\ proc'[p] = Idle
             Excused(p, m) == Stored(m)' \/ (proc[p].on # 0 /\ ~Exists(proc[p].on))
             Step1 == \A p \in Requests, m \in Inbound : Ends(p, m) => Excused(p, m)
             Inv == ChatInv /\ InboundInv
  <1>1. Inv /\ [Next]_vars => [Step1]_vars
    <2> SUFFICES ASSUME Inv, Next, NEW p \in Requests, NEW m \in Inbound, Ends(p, m)
                 PROVE  Excused(p, m)
      BY DEF vars
    <2>1. proc'[p] # proc[p] /\ ProcInv
      BY IdleFields DEF ChatInv
    <2>2. PICK q \in Requests : Webhook(q) \/ Route(q) \/ Step(q)
      BY <2>1, WorldReadsOnly, CallsHandOver DEF Next, Handover, Answered, vars
    <2>3. q = p
      BY <2>1, <2>2, OthersWait
    <2>4. /\ proc[p] \in Local
          /\ proc[p].at \in {"receive", "upsert", "insert", "resolve", "resolveCreate",
                             "existing", "permit"}
      BY <2>1 DEF InboundInv, ProcInv
    <2>5. Step(p)
      BY <2>1, <2>2, <2>3, <2>4, WebhookMoves, RouteMoves DEF At
    <2>6. proc'[p].at = "idle"
      BY IdleFields
    <2>7. CASE FindByWamid(p)
      <3>1. ~Goto(p, "upsert")
        BY <2>1, <2>4, <2>6 DEF Goto, Handling, ProcInv, Local
      <3>2. Stored(m)
        BY <2>7, <3>1 DEF FindByWamid
      <3> QED
        BY <2>7, <3>2 DEF FindByWamid, tables, Stored
    <2>8. CASE InsertFails(p)
      BY <2>8 DEF InsertFails, tables, Stored
    <2>9. ASSUME NEW c \in Conversations, InsertMessage(p, c) PROVE Stored(m)'
      BY <2>9, InsertMessageRows DEF Stored
    <2>10. ~UpsertByWaId(p) /\ ~FindExisting(p) /\ ~Permit(p)
      BY ZenonT(40), <2>1, <2>4, <2>6 DEF UpsertByWaId, FindExisting, Permit, Handling, ProcInv, Local
    <2>11. ~ResolveConversation(p) /\ \A c \in Conversations : ~ResolveCreate(p, c)
      <3>1. ASSUME NEW s \in {"resolveCreate", "existing"}, NEW c,
                   Handling(p, [proc[p] EXCEPT !.at = s, !.on = c])
            PROVE  FALSE
        <4>1. proc'[p] = [proc[p] EXCEPT !.at = s, !.on = c]
          BY <2>1, <3>1 DEF Handling, ProcInv
        <4> QED
          BY <2>4, <2>6, <4>1 DEF Local
      <3> QED
        BY <3>1 DEF ResolveConversation, ResolveCreate
    <2>12. \A c \in Conversations : ~CreateOrReuse(p, c)
      BY DEF CreateOrReuse
    <2> QED
      BY <2>4, <2>5, <2>7, <2>8, <2>9, <2>10, <2>11, <2>12 DEF Step, At,
         UpdateStatusByWamid, UpdateInitialTemplateStatus, Prepare, PersistOutbound, Send,
         UpdateConversation, DeleteById, UpdateAssignment, GetCallPermission, FindPermission,
         SyncFromMeta, ExpireIfNeeded, RequestCallPermission, MarkRequested
  <1>2. Init => Inv
    BY ChatInit, IdleFields DEF Init, InboundInv
  <1>3. Inv /\ [Next]_vars => Inv'
    BY NextKeepsChatInv, NextInbound DEF ChatInv
  <1>4. Spec => [][Step1]_vars
    BY <1>1, <1>2, <1>3, PTL DEF Spec
  <1> QED
    BY <1>4 DEF InboundIsStored

-----------------------------------------------------------------------------
(* Rows: a conversation that has one keeps it until it is deleted, and is   *)
(* about the same customer; a message changes its status only.              *)
LEMMA RowsStay ==
    ASSUME ChatInv, NEW p \in Requests, Webhook(p) \/ Route(p) \/ Step(p),
           NEW d \in Conversations
    PROVE  /\ conv[d].status # "none" => conv'[d].status # "none"
           /\ Exists(d) => Exists(d)' \/ (DeleteById(p) /\ d = proc[p].on)
           /\ conv[d].status # "none" /\ Exists(d)' => Exists(d) /\ conv'[d].of = conv[d].of
  <1> DEFINE Goal == /\ conv[d].status # "none" => conv'[d].status # "none"
                     /\ Exists(d) => Exists(d)' \/ (DeleteById(p) /\ d = proc[p].on)
                     /\ conv[d].status # "none" /\ Exists(d)' =>
                           Exists(d) /\ conv'[d].of = conv[d].of
  <1>1. ASSUME conv'[d] = conv[d] PROVE Goal
    BY <1>1 DEF Exists
  <1>2. ASSUME NEW c \in Conversations, InsertMessage(p, c) PROVE Goal
    <2>1. \/ conv'[d] = conv[d]
          \/ Fresh(d) /\ conv'[d].status = "OPEN"
          \/ Exists(d) /\ conv'[d].of = conv[d].of /\ conv'[d].status = conv[d].status
      BY <1>2, InsertMessageRows
    <2> QED
      BY <1>1, <2>1 DEF Fresh, Exists
  <1>3. ASSUME NEW c \in Conversations, CreateOrReuse(p, c) \/ ResolveCreate(p, c) PROVE Goal
    <2>1. CASE UNCHANGED conv
      BY <1>1, <2>1
    <2>2. CASE conv' # conv
      <3>1. Fresh(c) /\ conv' = [conv EXCEPT ![c] = CreateForContact(Contact(p))]
        BY <1>3, <2>2 DEF CreateOrReuse, ResolveCreate
      <3>2. Contact(p) \in Customers
        BY <1>3, ChatAssumption
        DEF CreateOrReuse, ResolveCreate, At, ChatInv, ProcInv, Carries, Contact
      <3>3. conv'[d] = conv[d] \/ (d = c /\ conv'[d].status = "OPEN")
        BY <3>1, <3>2, CreateRows
      <3> QED
        BY <1>1, <3>1, <3>3 DEF Fresh, Exists
    <2> QED
      BY <2>1, <2>2
  <1>4. CASE PersistOutbound(p)
    <2>1. CASE Exists(proc[p].on)
      BY <1>4, <2>1, PersistOutboundRows DEF Exists
    <2>2. CASE ~Exists(proc[p].on)
      BY <1>1, <1>4, <2>2 DEF PersistOutbound
    <2> QED
      BY <2>1, <2>2
  <1>5. CASE UpdateInitialTemplateStatus(p)
    BY <1>5, TemplateStatusRows DEF Exists
  <1>6. CASE UpdateConversation(p)
    <2>1. CASE Exists(proc[p].on)
      BY <1>1, <1>6, <2>1, UpdateConversationRows DEF Exists
    <2>2. CASE ~Exists(proc[p].on)
      BY <1>1, <1>6, <2>2 DEF UpdateConversation
    <2> QED
      BY <2>1, <2>2
  <1>7. CASE DeleteById(p)
    <2>1. CASE Exists(proc[p].on)
      BY <1>1, <1>7, <2>1, DeleteByIdRows DEF Exists
    <2>2. CASE ~Exists(proc[p].on)
      BY <1>1, <1>7, <2>2 DEF DeleteById, tables
    <2> QED
      BY <2>1, <2>2
  <1>8. CASE UpdateAssignment(p)
    BY <1>1, <1>8, UpdateAssignmentRows DEF Exists
  <1> QED
    BY <1>1, <1>2, <1>3, <1>4, <1>5, <1>6, <1>7, <1>8, WhoWrites DEF ChatInv

LEMMA MessagesStay ==
    ASSUME ChatInv, NEW p \in Requests, Webhook(p) \/ Route(p) \/ Step(p),
           NEW w \in Messages
    PROVE  \/ msg'[w] = msg[w] /\ (DeleteById(p) => proc[p].on # msg[w].conv
                                                  \/ UNCHANGED <<conv, msg, perm>>)
           \/ w = proc[p].msg /\ \E c \in Conversations : InsertMessage(p, c)
           \/ w = proc[p].msg /\ PersistOutbound(p) /\ Exists(proc[p].on)
           \/ w = proc[p].msg /\ UpdateInitialTemplateStatus(p)
           \/ /\ DeleteById(p) /\ Exists(proc[p].on) /\ msg[w].conv = proc[p].on
              /\ msg'[w] = NoMessage
  <1>1. CASE UNCHANGED msg /\ ~DeleteById(p)
    BY <1>1
  <1>2. ASSUME NEW c \in Conversations, InsertMessage(p, c)
        PROVE  w = proc[p].msg \/ (msg'[w] = msg[w] /\ ~DeleteById(p))
    BY <1>2, InsertMessageRows DEF InsertMessage, DeleteById, At
  <1>3. CASE PersistOutbound(p)
    <2>1. CASE Exists(proc[p].on)
      BY <1>3, <2>1, PersistOutboundRows DEF PersistOutbound, DeleteById, At
    <2>2. CASE ~Exists(proc[p].on)
      BY Zenon, <1>1, <1>3, <2>2 DEF PersistOutbound, DeleteById, At
    <2> QED
      BY <2>1, <2>2
  <1>4. CASE UpdateInitialTemplateStatus(p)
    BY <1>4, TemplateStatusRows DEF UpdateInitialTemplateStatus, DeleteById, At
  <1>5. CASE DeleteById(p)
    <2>1. CASE Exists(proc[p].on)
      <3>1. msg'[w] = IF msg[w].conv = proc[p].on THEN NoMessage ELSE msg[w]
        BY <1>5, <2>1 DEF DeleteById
      <3> QED
        BY <1>5, <2>1, <3>1
    <2>2. CASE ~Exists(proc[p].on)
      BY Zenon, <1>5, <2>2 DEF DeleteById, tables
    <2> QED
      BY <2>1, <2>2
  <1>6. CASE UpdateConversation(p) \/ UpdateAssignment(p)
             \/ \E c \in Conversations : CreateOrReuse(p, c) \/ ResolveCreate(p, c)
    BY <1>6, <1>1 DEF UpdateConversation, UpdateAssignment, CreateOrReuse, ResolveCreate,
       DeleteById, At
  <1> QED
    BY <1>1, <1>2, <1>3, <1>4, <1>5, <1>6, WhoWrites DEF ChatInv

(* What becomes of a row that is there, and where a new one comes from.     *)
LEMMA StoredBefore ==
    ASSUME ChatInv, NEW p \in Requests, Webhook(p) \/ Route(p) \/ Step(p),
           NEW w \in Messages
    PROVE  /\ Stored(w) /\ ~DeleteById(p) /\ (PersistOutbound(p) => w # proc[p].msg) =>
                 Stored(w)' /\ msg'[w].conv = msg[w].conv /\ msg'[w].kind = msg[w].kind
           /\ Stored(w)' =>
                 \/ Stored(w) /\ msg'[w].conv = msg[w].conv /\ msg'[w].kind = msg[w].kind
                 \/ w = proc[p].msg /\ \E c \in Conversations : InsertMessage(p, c)
                 \/ w = proc[p].msg /\ PersistOutbound(p) /\ Exists(proc[p].on)
  <1>1. ASSUME UpdateInitialTemplateStatus(p), w = proc[p].msg
        PROVE  /\ Stored(w) /\ Stored(w)' /\ msg'[w].conv = msg[w].conv
               /\ msg'[w].kind = msg[w].kind
    BY <1>1, TemplateStatusRows DEF Stored, ChatInv, LockInv, UpdateInitialTemplateStatus
  <1>2. ASSUME NEW c \in Conversations, InsertMessage(p, c) PROVE ~Stored(proc[p].msg)
    BY <1>2 DEF InsertMessage
  <1>3. NoMessage.status = "none"
    BY DEF NoMessage
  <1> QED
    BY Zenon, <1>1, <1>2, <1>3, MessagesStay DEF Stored

-----------------------------------------------------------------------------
(* A message is in a conversation that exists, and each wamid of Meta is    *)
(* written by the request it was given to.                                  *)
LEMMA SentStays ==
    ASSUME ChatInv, MessageInv, NEW p \in Requests, Webhook(p) \/ Route(p) \/ Step(p)
    PROVE  /\ sent' \in [Outbound -> {"none", "free", "template"}]
           /\ \A w \in Outbound : sent[w] # "none" => sent'[w] # "none"
  <1>1. ASSUME NEW w \in Outbound, Send(p, w)
        PROVE  \/ UNCHANGED sent
               \/ /\ sent[w] = "none" /\ proc[p].val \in {"free", "template"}
                  /\ sent' = [sent EXCEPT ![w] = proc[p].val]
    BY <1>1 DEF Send, At, ChatInv, ProcInv, Carries
  <1> QED
    BY <1>1, WhoWrites DEF ChatInv, MessageInv

LEMMA NextMessages ==
    ASSUME ChatInv, MessageInv, NEW p \in Requests, Webhook(p) \/ Route(p) \/ Step(p)
    PROVE  MessageInv'
  <1>0. ProcInv /\ Inbound \cap Outbound = {} /\ Inbound \subseteq Messages /\ Outbound \subseteq Messages
    BY ChatAssumption DEF ChatInv, Messages
  <1>1. ASSUME NEW w \in Messages
        PROVE  IF Stored(w)' THEN Exists(msg[w].conv)' ELSE msg'[w] = NoMessage
    <2>1. CASE msg'[w] = msg[w] /\ (DeleteById(p) => proc[p].on # msg[w].conv
                                                  \/ UNCHANGED <<conv, msg, perm>>)
      <3>1. CASE Stored(w)
        <4>1. Exists(msg[w].conv)
          BY <3>1 DEF MessageInv
        <4>2. Exists(msg[w].conv)'
          BY <2>1, <4>1, RowsStay DEF Exists
        <4> QED
          BY <2>1, <3>1, <4>2 DEF Stored
      <3>2. CASE ~Stored(w)
        BY <2>1, <3>2 DEF Stored, MessageInv
      <3> QED
        BY <3>1, <3>2
    <2>2. ASSUME NEW c \in Conversations, InsertMessage(p, c), w = proc[p].msg
          PROVE  Stored(w)' /\ Exists(msg[w].conv)'
      BY <2>2, InsertMessageRows DEF Stored, Exists
    <2>3. CASE w = proc[p].msg /\ PersistOutbound(p) /\ Exists(proc[p].on)
      BY <2>3, PersistOutboundRows DEF Stored, Exists
    <2>4. CASE w = proc[p].msg /\ UpdateInitialTemplateStatus(p)
      <3>1. /\ Stored(w) /\ Stored(w)' /\ msg'[w].conv = msg[w].conv
        BY <2>4, TemplateStatusRows DEF Stored, ChatInv, LockInv, UpdateInitialTemplateStatus
      <3>2. Exists(msg[w].conv)
        BY <3>1 DEF MessageInv
      <3> QED
        BY ZenonT(60), <2>4, <3>1, <3>2, TemplateStatusRows DEF Exists
    <2>5. CASE DeleteById(p) /\ msg'[w] = NoMessage
      BY <2>5 DEF Stored, NoMessage
    <2> QED
      BY <2>1, <2>2, <2>3, <2>4, <2>5, MessagesStay
  <1>2. ASSUME NEW w \in Outbound, Stored(w)' PROVE sent'[w] # "none"
    <2>1. CASE Stored(w)
      BY <2>1, SentStays DEF MessageInv
    <2>2. CASE ~Stored(w)
      <3>1. \A c \in Conversations : InsertMessage(p, c) => proc[p].msg \in Inbound
        BY InsertMessageRows
      <3>2. w = proc[p].msg /\ PersistOutbound(p)
        BY <1>0, <1>2, <2>2, <3>1, StoredBefore
      <3> QED
        BY <3>2, SentStays DEF MessageInv, PersistOutbound
    <2> QED
      BY <2>1, <2>2
  <1>3. ASSUME NEW q \in Requests, At(q, "persist")'
        PROVE  /\ sent'[proc'[q].msg] # "none" /\ ~Stored(proc[q].msg)'
               /\ proc'[q].msg \in Outbound
               /\ q = p => sent[proc'[q].msg] = "none"
               /\ q # p => At(q, "persist") /\ proc'[q].msg = proc[q].msg
                           /\ sent[proc[q].msg] # "none"
    <2>1. CASE q # p
      <3>1. proc'[q] = proc[q] /\ At(q, "persist")
        BY <1>0, <1>3, <2>1, OthersWait DEF At
      <3>2. /\ proc[q].msg \in Outbound /\ sent[proc[q].msg] # "none" /\ ~Stored(proc[q].msg)
        BY <1>0, <3>1 DEF MessageInv, At, ProcInv, Carries
      <3>3. PersistOutbound(p) => proc[p].msg # proc[q].msg
        BY <2>1, <3>1 DEF PersistOutbound, MessageInv
      <3>4. \A c \in Conversations : InsertMessage(p, c) => proc[p].msg \in Inbound
        BY InsertMessageRows
      <3>5. ~Stored(proc[q].msg)'
        <4> DEFINE w == proc[q].msg
        <4>1. w \in Messages /\ ~Stored(w) /\ w \notin Inbound /\ w = proc'[q].msg
          BY <1>0, <3>1, <3>2
        <4>2. msg'[w].status = "none"
          BY <3>3, <3>4, <4>1, StoredBefore DEF Stored
        <4> QED
          BY <3>1, <4>2 DEF Stored
      <3> QED
        BY <2>1, <3>1, <3>2, <3>5, SentStays
    <2>2. CASE q = p
      <3>1. Step(p)
        BY <1>0, <1>3, <2>2, WebhookMoves, RouteMoves DEF At
      <3>2. PICK w \in Outbound : /\ Send(p, w) /\ sent[w] = "none" /\ proc'[p].msg = w
                                  /\ sent' = [sent EXCEPT ![w] = proc[p].val]
        BY <1>0, <1>3, <2>2, <3>1, StepMoves DEF At
      <3>3. proc[p].val \in {"free", "template"} /\ msg' = msg
        BY <1>0, <3>2 DEF Send, At, ProcInv, Carries, tables
      <3>4. sent'[w] # "none"
        BY <3>2, <3>3 DEF MessageInv
      <3>5. ~Stored(w)'
        BY <3>2, <3>3 DEF MessageInv, Stored
      <3> QED
        BY <2>2, <3>2, <3>4, <3>5
    <2> QED
      BY <2>1, <2>2
  <1>4. ASSUME NEW q \in Requests, NEW r \in Requests, At(q, "persist")', At(r, "persist")',
               proc'[q].msg = proc'[r].msg
        PROVE  q = r
    <2>1. CASE q # p /\ r # p
      BY <1>3, <1>4, <2>1 DEF MessageInv
    <2>2. CASE q = p \/ r = p
      BY <1>3, <1>4, <2>2
    <2> QED
      BY <2>1, <2>2
  <1> QED
    BY <1>1, <1>2, <1>3, <1>4, SentStays DEF MessageInv

(* The columns of a conversation that the inserts, the sends and the        *)
(* statuses count with, and what else writes them.                          *)
LEMMA CountedRows ==
    ASSUME ChatInv, NEW p \in Requests, Webhook(p) \/ Route(p) \/ Step(p),
           NEW d \in Conversations
    PROVE  LET row == conv[d]
               new == conv'[d]
               w == proc[p].msg
           IN
           /\ \/ new.unread <= row.unread
              \/ new.unread <= row.unread + 1 /\ InsertMessage(p, d)
           /\ \/ new.template = row.template /\ new.templateStatus = row.templateStatus
              \/ /\ PersistOutbound(p) /\ Exists(d) /\ d = proc[p].on
                 /\ proc[p].val = "template" /\ new.template = w /\ new.templateStatus = "SENT"
              \/ /\ UpdateInitialTemplateStatus(p) /\ proc[p].seen = w /\ d = proc[p].on
                 /\ new.template = row.template /\ new.templateStatus = proc[p].val
              \/ DeleteById(p) /\ Exists(d) /\ d = proc[p].on /\ new.template = None
           /\ DeleteById(p) /\ Exists(d) /\ d = proc[p].on => new.unread = 0
  <1> DEFINE row == conv[d]
             new == conv'[d]
             w == proc[p].msg
             c == proc[p].on
             Unread == new.unread <= row.unread
             Same == new.template = row.template /\ new.templateStatus = row.templateStatus
             Goal == /\ \/ Unread
                        \/ new.unread <= row.unread + 1 /\ InsertMessage(p, d)
                     /\ \/ Same
                        \/ /\ PersistOutbound(p) /\ Exists(d) /\ d = c
                           /\ proc[p].val = "template" /\ new.template = w
                           /\ new.templateStatus = "SENT"
                        \/ /\ UpdateInitialTemplateStatus(p) /\ proc[p].seen = w /\ d = c
                           /\ new.template = row.template /\ new.templateStatus = proc[p].val
                        \/ DeleteById(p) /\ Exists(d) /\ d = c /\ new.template = None
                     /\ DeleteById(p) /\ Exists(d) /\ d = c => new.unread = 0
  <1>0. /\ conv \in [Conversations -> Conversation] /\ row \in Conversation
        /\ row.unread \in Nat /\ ProcInv
    BY DEF ChatInv, TypeInv, Conversation
  <1>1. ASSUME conv'[d] = conv[d], ~(DeleteById(p) /\ Exists(d) /\ d = c) PROVE Goal
    BY <1>0, <1>1
  <1>2. ASSUME conv[d].status = "none", conv'[d] = CreateForContact(Contact(p)),
               ~DeleteById(p)
        PROVE  Goal
    <2>1. conv[d] = NoConversation
      BY <1>2 DEF ChatInv, HistoryInv
    <2>2. Unread /\ Same
      BY <1>2, <2>1 DEF CreateForContact, NoConversation
    <2> QED
      BY <1>2, <2>2
  <1>3. ASSUME NEW e \in Conversations, InsertMessage(p, e) PROVE Goal
    <2>1. ~DeleteById(p)
      BY <1>3 DEF InsertMessage, DeleteById, At
    <2>2. CASE d # e
      BY <1>1, <1>3, <2>1, <2>2, InsertMessageRows
    <2>3. CASE d = e
      <3> DEFINE old == IF c = 0 THEN CreateForContact(Contact(p)) ELSE conv[d]
      <3>1. conv'[d] = UpdateAfterInbound(old, wrote[w])
        BY <1>0, <1>3, <2>3 DEF InsertMessage
      <3>2. old.unread <= row.unread /\ old.unread \in Nat /\ old.template = row.template
            /\ old.templateStatus = row.templateStatus /\ old \in Conversation
        <4>1. CASE c # 0
          BY <1>0, <4>1
        <4>2. CASE c = 0
          <5>1. conv[d] = NoConversation
            BY <1>3, <2>3, <4>2 DEF InsertMessage, Fresh, ChatInv, HistoryInv
          <5>2. /\ old.unread = row.unread /\ old.template = row.template
                /\ old.templateStatus = row.templateStatus
            BY <4>2, <5>1 DEF CreateForContact, NoConversation
          <5>3. Contact(p) \in Customers
            BY <1>3, InsertMessageRows
          <5>4. old \in Conversation
            BY <4>2, <5>3, NewRow
          <5> QED
            BY <1>0, <5>2, <5>4
        <4> QED
          BY <4>1, <4>2
      <3> HIDE DEF old
      <3>3. /\ new.unread = old.unread + 1 /\ new.template = old.template
            /\ new.templateStatus = old.templateStatus
        BY <3>1, <3>2 DEF UpdateAfterInbound, Conversation
      <3> QED
        BY <1>0, <1>3, <2>1, <2>3, <3>2, <3>3
    <2> QED
      BY <2>2, <2>3
  <1>4. ASSUME NEW e \in Conversations, CreateOrReuse(p, e) \/ ResolveCreate(p, e) PROVE Goal
    <2>1. ~DeleteById(p)
      BY <1>4 DEF CreateOrReuse, ResolveCreate, DeleteById, At
    <2>2. \/ UNCHANGED conv
          \/ Fresh(e) /\ conv' = [conv EXCEPT ![e] = CreateForContact(Contact(p))]
      BY <1>4 DEF CreateOrReuse, ResolveCreate
    <2> QED
      BY <1>0, <1>1, <1>2, <2>1, <2>2 DEF Fresh
  <1>5. CASE PersistOutbound(p)
    <2>1. ~DeleteById(p)
      BY <1>5 DEF PersistOutbound, DeleteById, At
    <2>2. CASE Exists(c) /\ d = c
      <3>1. new = IF proc[p].val = "template" THEN UpdateAfterTemplate(row, now, w)
                  ELSE UpdateLastMessageAt(row, now)
        BY <1>0, <1>5, <2>2 DEF PersistOutbound
      <3>2. CASE proc[p].val = "template"
        BY <1>0, <1>5, <2>1, <2>2, <3>1, <3>2 DEF UpdateAfterTemplate, Conversation
      <3>3. CASE proc[p].val # "template"
        BY <1>0, <2>1, <3>1, <3>3 DEF UpdateLastMessageAt, Conversation
      <3> QED
        BY <3>2, <3>3
    <2>3. CASE Exists(c) /\ d # c
      BY <1>1, <1>5, <2>1, <2>3, PersistOutboundRows
    <2>4. CASE ~Exists(c)
      BY <1>1, <1>5, <2>1, <2>4 DEF PersistOutbound
    <2> QED
      BY <2>2, <2>3, <2>4
  <1>6. CASE UpdateInitialTemplateStatus(p)
    <2>1. ~DeleteById(p)
      BY <1>6 DEF UpdateInitialTemplateStatus, DeleteById, At
    <2>2. CASE proc[p].seen = w /\ d = c
      <3>1. new = [row EXCEPT !.templateStatus = proc[p].val]
        BY <1>0, <1>6, <2>2 DEF UpdateInitialTemplateStatus
      <3> QED
        BY <1>0, <1>6, <2>1, <2>2, <3>1 DEF Conversation
    <2>3. CASE ~(proc[p].seen = w /\ d = c)
      <3>1. new = row
        BY <1>0, <1>6, <2>3 DEF UpdateInitialTemplateStatus
      <3> QED
        BY <1>1, <2>1, <3>1
    <2> QED
      BY <2>2, <2>3
  <1>7. CASE UpdateConversation(p)
    <2>1. ~DeleteById(p)
      BY <1>7 DEF UpdateConversation, DeleteById, At
    <2>2. \/ new = row \/ new = [row EXCEPT !.unread = 0]
          \/ new = [row EXCEPT !.status = proc[p].val]
      BY <1>0, <1>7 DEF UpdateConversation
    <2> QED
      BY <1>0, <2>1, <2>2 DEF Conversation
  <1>8. CASE DeleteById(p)
    <2>1. CASE Exists(c) /\ d = c
      <3>1. new = [NoConversation EXCEPT !.status = "deleted"]
        BY <1>0, <1>8, <2>1 DEF DeleteById
      <3>2. new.unread = 0 /\ new.template = None
        BY <3>1 DEF NoConversation
      <3> QED
        BY <1>0, <1>8, <2>1, <3>2
    <2>2. CASE ~(Exists(c) /\ d = c)
      <3>1. new = row
        BY <1>0, <1>8, <2>2, DeleteByIdRows DEF DeleteById, tables
      <3> QED
        BY <1>1, <2>2, <3>1
    <2> QED
      BY <2>1, <2>2
  <1>9. CASE UpdateAssignment(p)
    <2>1. ~DeleteById(p)
      BY <1>9 DEF UpdateAssignment, DeleteById, At
    <2>2. new = row \/ new = [row EXCEPT !.owner = proc[p].to]
      BY <1>0, <1>9 DEF UpdateAssignment
    <2> QED
      BY <1>0, <2>1, <2>2 DEF Conversation
  <1>10. CASE UNCHANGED <<conv, msg>> /\ ~DeleteById(p)
    BY <1>1, <1>10
  <1> QED
    BY <1>0, <1>3, <1>4, <1>5, <1>6, <1>7, <1>8, <1>9, <1>10, WhoWrites

-----------------------------------------------------------------------------
(* A conversation counts a message of the customer when it stores it.       *)
LEMMA NextCount ==
    ASSUME ChatInv, MessageInv, CountInv, NEW p \in Requests,
           Webhook(p) \/ Route(p) \/ Step(p)
    PROVE  CountInv'
  <1>0. /\ Inbound \cap Outbound = {} /\ Inbound \subseteq Messages
        /\ conv \in [Conversations -> Conversation] /\ conv' \in [Conversations -> Conversation]
    BY ChatAssumption, NextKeepsChatInv DEF Messages, ChatInv, TypeInv, Next
  <1> SUFFICES ASSUME NEW c \in Conversations
               PROVE  /\ IsFiniteSet(MessagesOf(c)')
                      /\ conv'[c].unread <= Cardinality(MessagesOf(c)')
    BY DEF CountInv, MessagesOf
  <1>1. /\ IsFiniteSet(MessagesOf(c)) /\ Cardinality(MessagesOf(c)) \in Nat
        /\ conv[c].unread <= Cardinality(MessagesOf(c))
    BY FS_CardinalityType DEF CountInv
  <1>2. conv[c].unread \in Nat /\ conv'[c].unread \in Nat
    BY <1>0 DEF Conversation
  <1>3. ASSUME NEW m \in Inbound, msg'[m] # msg[m],
               ~(DeleteById(p) /\ Exists(proc[p].on) /\ msg[m].conv = proc[p].on)
        PROVE  m = proc[p].msg /\ \E d \in Conversations : InsertMessage(p, d)
    <2>1. PersistOutbound(p) /\ Exists(proc[p].on) => proc[p].msg \in Outbound
      BY PersistOutboundRows
    <2>2. UpdateInitialTemplateStatus(p) => proc[p].msg \in Outbound
      BY TemplateStatusRows
    <2> QED
      BY <1>0, <1>3, <2>1, <2>2, MessagesStay
  <1>4. CASE DeleteById(p) /\ Exists(c) /\ c = proc[p].on
    <2>1. conv'[c].unread = 0
      BY <1>4, CountedRows
    <2>2. ASSUME NEW m \in Inbound PROVE msg'[m].conv # c
      <3>1. msg'[m] = IF msg[m].conv = c THEN NoMessage ELSE msg[m]
        BY <1>0, <1>4 DEF DeleteById
      <3> QED
        BY <3>1, ChatAssumption DEF NoMessage, Conversations
    <2>3. MessagesOf(c)' = {}
      BY <2>2 DEF MessagesOf
    <2> QED
      BY <2>1, <2>3, FS_EmptySet
  <1>5. CASE /\ ~(DeleteById(p) /\ Exists(c) /\ c = proc[p].on)
             /\ ~InsertMessage(p, c)
    <2>1. conv'[c].unread <= conv[c].unread
      BY <1>5, CountedRows
    <2>2. ASSUME NEW m \in Inbound PROVE msg'[m].conv = c <=> msg[m].conv = c
      <3>1. CASE msg'[m] = msg[m]
        BY <3>1
      <3>2. CASE DeleteById(p) /\ Exists(proc[p].on) /\ msg[m].conv = proc[p].on
        <4>1. msg'[m] = NoMessage
          BY <1>0, <3>2 DEF DeleteById
        <4> QED
          BY <1>5, <3>2, <4>1, ChatAssumption DEF NoMessage, Conversations
      <3>3. CASE msg'[m] # msg[m]
                 /\ ~(DeleteById(p) /\ Exists(proc[p].on) /\ msg[m].conv = proc[p].on)
        <4>1. PICK d \in Conversations : InsertMessage(p, d) /\ m = proc[p].msg
          BY <1>3, <3>3
        <4>2. d # c /\ msg'[m].conv = d /\ ~Stored(m)
          BY <1>5, <4>1, InsertMessageRows
        <4>3. msg[m] = NoMessage
          BY <1>0, <4>2 DEF MessageInv
        <4> QED
          BY <4>2, <4>3, ChatAssumption DEF NoMessage, Conversations
      <3> QED
        BY <3>1, <3>2, <3>3
    <2>3. MessagesOf(c)' = MessagesOf(c)
      BY <2>2 DEF MessagesOf
    <2> QED
      BY <1>1, <1>2, <2>1, <2>3
  <1>6. CASE InsertMessage(p, c)
    <2> DEFINE m == proc[p].msg
    <2>1. /\ m \in Inbound /\ ~Stored(m) /\ msg'[m].conv = c
          /\ \A w \in Messages \ {m} : msg'[w] = msg[w]
      BY <1>6, InsertMessageRows
    <2>2. msg[m] = NoMessage
      BY <1>0, <2>1 DEF MessageInv
    <2>3. m \notin MessagesOf(c)
      BY <2>2, ChatAssumption DEF MessagesOf, NoMessage, Conversations
    <2>4. MessagesOf(c)' = MessagesOf(c) \cup {m}
      BY <1>0, <2>1 DEF MessagesOf
    <2>5. /\ IsFiniteSet(MessagesOf(c)')
          /\ Cardinality(MessagesOf(c)') = Cardinality(MessagesOf(c)) + 1
      <3> HIDE DEF m
      <3> DEFINE S == MessagesOf(c)
      <3>1. IsFiniteSet(S) /\ m \notin S /\ MessagesOf(c)' = S \cup {m}
        BY <1>1, <2>3, <2>4
      <3> HIDE DEF S
      <3>2. IsFiniteSet(S \cup {m}) /\ Cardinality(S \cup {m}) = Cardinality(S) + 1
        BY <3>1, FS_AddElement
      <3> QED
        BY <3>1, <3>2 DEF S
    <2>6. conv'[c].unread <= conv[c].unread + 1
      BY <1>2, CountedRows
    <2> QED
      BY <1>1, <1>2, <2>5, <2>6
  <1> QED
    BY <1>4, <1>5, <1>6

LEMMA QuietKeeps ==
    ASSUME UNCHANGED <<conv, msg, perm, locked, proc, sent>>
    PROVE  /\ MessageInv => MessageInv'
           /\ CountInv => CountInv'
           /\ TemplateInv => TemplateInv'
  BY DEF MessageInv, CountInv, MessagesOf, TemplateInv, OnlyTemplate, Stored, Exists, At

LEMMA HandoverKeeps ==
    ASSUME MessageInv, Handover
    PROVE  /\ MessageInv'
           /\ CountInv => CountInv'
           /\ TemplateInv => TemplateInv'
  <1>1. /\ UNCHANGED <<msg, proc, sent>>
        /\ \A d \in Conversations :
              /\ conv'[d].status = conv[d].status /\ conv'[d].unread = conv[d].unread
              /\ conv'[d].template = conv[d].template
              /\ conv'[d].templateStatus = conv[d].templateStatus
    BY DEF Handover, meta
  <1>2. \A c : Exists(c)' <=> Exists(c)
    BY <1>1 DEF Exists
  <1>3. MessageInv'
    BY <1>1, <1>2 DEF MessageInv, Stored, At
  <1>4. CountInv => CountInv'
    BY <1>1 DEF CountInv, MessagesOf
  <1>5. \A w \in Outbound : OnlyTemplate(w) => msg[w].conv \in Conversations
    BY ChatAssumption DEF OnlyTemplate, MessageInv, Messages, NoMessage, Exists
  <1>6. TemplateInv => TemplateInv'
    BY <1>1, <1>5 DEF TemplateInv, OnlyTemplate, At
  <1> QED
    BY <1>3, <1>4, <1>6

LEMMA MessagesInit ==
    ASSUME Init PROVE MessageInv /\ CountInv /\ TemplateInv
  <1>1. /\ \A w \in Messages : msg[w] = NoMessage
        /\ \A c \in Conversations : conv[c] = NoConversation
        /\ \A p \in Requests : proc[p].at = "idle"
        /\ sent = [w \in Outbound |-> "none"]
    BY IdleFields DEF Init
  <1>2. /\ NoMessage.status = "none" /\ NoMessage.kind = "none" /\ NoMessage.conv = 0
        /\ NoConversation.unread = 0 /\ NoConversation.template = None
    BY DEF NoMessage, NoConversation
  <1>3. MessageInv
    BY <1>1, <1>2 DEF MessageInv, Stored, At, Messages
  <1>4. CountInv
    <2>1. \A c \in Conversations : MessagesOf(c) = {}
      BY <1>1, <1>2, ChatAssumption DEF MessagesOf, Conversations, Messages
    <2> QED
      BY <1>1, <1>2, <2>1, FS_EmptySet DEF CountInv
  <1>5. TemplateInv
    BY <1>1, <1>2, ChatAssumption DEF TemplateInv, OnlyTemplate, At, Messages
  <1> QED
    BY <1>3, <1>4, <1>5

(* However often Meta delivers a message, and whatever webhook or request   *)
(* runs meanwhile, a conversation shows no more unread messages than it     *)
(* holds (the unique wamid of schema.prisma, message.service.js:89-125).    *)
THEOREM MessagesAreCountedOnce == Spec => []CountedOnce
  <1> DEFINE Inv == ChatInv /\ MessageInv /\ CountInv
  <1>1. Init => Inv
    BY ChatInit, MessagesInit
  <1>2. Inv /\ [Next]_vars => Inv'
    <2> SUFFICES ASSUME Inv, [Next]_vars PROVE MessageInv' /\ CountInv'
      BY NextKeepsChatInv
    <2>1. CASE \E p \in Requests : Webhook(p) \/ Route(p) \/ Step(p)
      BY <2>1, NextMessages, NextCount
    <2>2. CASE World \/ Answered \/ UNCHANGED vars
      <3>1. UNCHANGED <<conv, msg, perm, locked, proc, sent>>
        BY <2>2, WorldReadsOnly DEF Answered, vars
      <3> QED
        BY <3>1, QuietKeeps
    <2>3. CASE Calls
      BY <2>3, CallsHandOver, HandoverKeeps
    <2> QED
      BY <2>1, <2>2, <2>3 DEF Next
  <1>3. Inv => CountedOnce
    BY DEF CountInv, CountedOnce, MessagesOf
  <1> QED
    BY <1>1, <1>2, <1>3, PTL DEF Spec

-----------------------------------------------------------------------------
(* Templates.  A message with a kind has a row, in its conversation.        *)
LEMMA KindIsStored ==
    ASSUME MessageInv, NEW w \in Messages, msg[w].kind # "none"
    PROVE  Stored(w) /\ Exists(msg[w].conv)
  BY DEF MessageInv, NoMessage, Stored

(* A template that is the only one was so before, or was just sent.         *)
LEMMA OnlyBefore ==
    ASSUME ChatInv, MessageInv, NEW p \in Requests, Webhook(p) \/ Route(p) \/ Step(p),
           NEW w \in Outbound, Stored(w), OnlyTemplate(w)',
           ~(PersistOutbound(p) /\ w = proc[p].msg)
    PROVE  /\ OnlyTemplate(w) /\ msg'[w].conv = msg[w].conv /\ msg[w].conv \in Conversations
           /\ ~(DeleteById(p) /\ Exists(proc[p].on) /\ msg[w].conv = proc[p].on)
           /\ PersistOutbound(p) /\ Exists(proc[p].on) /\ proc[p].val = "template" =>
                 proc[p].on # msg[w].conv
  <1>0. w \in Messages /\ Outbound \subseteq Messages
    BY DEF Messages
  <1>1. msg'[w].kind = "template"
    BY DEF OnlyTemplate
  <1>2. NoMessage.kind = "none" /\ NoMessage.status = "none"
    BY DEF NoMessage
  <1>3. Stored(w)'
    BY <1>0, <1>1, <1>2, KindIsStored, NextMessages DEF MessageInv, Stored
  <1>4. msg'[w].conv = msg[w].conv /\ msg'[w].kind = msg[w].kind
    <2>1. \A c \in Conversations : InsertMessage(p, c) => ~Stored(proc[p].msg)
      BY DEF InsertMessage
    <2> QED
      BY <1>0, <1>3, <2>1, StoredBefore
  <1>5. msg[w].conv \in Conversations
    BY <1>0 DEF MessageInv, Exists
  <1>6. ~(DeleteById(p) /\ Exists(proc[p].on) /\ msg[w].conv = proc[p].on)
    <2>1. ASSUME DeleteById(p), Exists(proc[p].on), msg[w].conv = proc[p].on PROVE FALSE
      <3>1. msg'[w] = NoMessage
        BY <1>0, <2>1 DEF DeleteById
      <3> QED
        BY <1>1, <1>2, <3>1
    <2> QED
      BY <2>1
  <1>7. ASSUME NEW v \in Outbound \ {w}, msg[v].conv = msg[w].conv, msg[v].kind = "template"
        PROVE  FALSE
    <2>1. Stored(v) /\ v \in Messages
      BY <1>0, <1>7, KindIsStored
    <2>2. ~(PersistOutbound(p) /\ v = proc[p].msg)
      BY <2>1 DEF PersistOutbound, MessageInv
    <2>3. CASE DeleteById(p)
      <3>1. msg'[v] = msg[v]
        BY <1>6, <1>7, <2>1, <2>3 DEF DeleteById, tables
      <3> QED
        BY <1>4, <1>7, <3>1 DEF OnlyTemplate
    <2>4. CASE ~DeleteById(p)
      <3>1. msg'[v].conv = msg[v].conv /\ msg'[v].kind = msg[v].kind
        BY <2>1, <2>2, <2>4, StoredBefore
      <3> QED
        BY <1>4, <1>7, <3>1 DEF OnlyTemplate
    <2> QED
      BY <2>3, <2>4
  <1>8. ASSUME PersistOutbound(p), Exists(proc[p].on), proc[p].val = "template",
               proc[p].on = msg[w].conv
        PROVE  FALSE
    <2>1. /\ proc[p].msg \in Outbound /\ msg'[proc[p].msg].kind = "template"
          /\ msg'[proc[p].msg].conv = msg[w].conv
      BY <1>8, PersistOutboundRows
    <2> QED
      BY <1>4, <1>8, <2>1 DEF OnlyTemplate
  <1> QED
    BY <1>1, <1>4, <1>5, <1>6, <1>7, <1>8 DEF OnlyTemplate

LEMMA NextNamed ==
    ASSUME ChatInv, MessageInv, TemplateInv, NEW p \in Requests,
           Webhook(p) \/ Route(p) \/ Step(p), NEW c \in Conversations,
           conv'[c].template \in Outbound
    PROVE  msg'[conv'[c].template].kind = "template" /\ msg'[conv'[c].template].conv = c
  <1> DEFINE w == conv'[c].template
  <1>0. w \in Messages /\ None \notin Outbound
    BY ChatAssumption DEF Messages
  <1>1. CASE /\ PersistOutbound(p) /\ Exists(c) /\ c = proc[p].on
             /\ proc[p].val = "template" /\ w = proc[p].msg
    BY <1>1, PersistOutboundRows
  <1>2. CASE /\ w = conv[c].template
             /\ ~(DeleteById(p) /\ Exists(c) /\ c = proc[p].on)
    <2>1. msg[w].kind = "template" /\ msg[w].conv = c /\ Stored(w)
      BY <1>0, <1>2, KindIsStored DEF TemplateInv
    <2>2. ~(PersistOutbound(p) /\ w = proc[p].msg)
      BY <2>1 DEF PersistOutbound, MessageInv
    <2>3. CASE DeleteById(p)
      <3>1. msg'[w] = msg[w]
        BY <1>0, <1>2, <2>1, <2>3 DEF DeleteById, tables
      <3> QED
        BY <2>1, <3>1
    <2>4. CASE ~DeleteById(p)
      BY <1>0, <2>1, <2>2, <2>4, StoredBefore
    <2> QED
      BY <2>3, <2>4
  <1>3. CASE DeleteById(p) /\ Exists(c) /\ c = proc[p].on
    <2>1. conv'[c] = [NoConversation EXCEPT !.status = "deleted"]
      BY <1>3 DEF DeleteById, ChatInv, TypeInv
    <2>2. w = None
      BY <2>1 DEF NoConversation
    <2> QED
      BY <1>0, <2>2
  <1> QED
    BY <1>1, <1>2, <1>3, CountedRows

LEMMA NextFollows ==
    ASSUME ChatInv, MessageInv, TemplateInv, NEW p \in Requests,
           Webhook(p) \/ Route(p) \/ Step(p), NEW w \in Outbound, OnlyTemplate(w)'
    PROVE  LET row == conv'[msg'[w].conv]
           IN  row.template = w /\ row.templateStatus = msg'[w].status
  <1> DEFINE c == msg[w].conv
             row == conv'[msg'[w].conv]
             Goal == row.template = w /\ row.templateStatus = msg'[w].status
  <1>0. w \in Messages /\ msg'[w].kind = "template" /\ Inbound \cap Outbound = {}
    BY ChatAssumption DEF Messages, OnlyTemplate
  <1>1. CASE PersistOutbound(p) /\ w = proc[p].msg
    <2>1. ~Stored(w)
      BY <1>1 DEF PersistOutbound, MessageInv
    <2>2. Exists(proc[p].on)
      <3>1. msg[w].kind = "none"
        BY <1>0, <2>1 DEF MessageInv, NoMessage
      <3> QED
        BY <1>0, <1>1, <3>1 DEF PersistOutbound
    <2>3. /\ msg'[w].conv = proc[p].on /\ msg'[w].kind = proc[p].val
          /\ msg'[w].status = "SENT" /\ proc[p].on \in Conversations
      BY <1>1, <2>2, PersistOutboundRows
    <2>4. conv'[proc[p].on] = UpdateAfterTemplate(conv[proc[p].on], now, w)
      BY <1>0, <1>1, <2>2, <2>3 DEF PersistOutbound, ChatInv, TypeInv
    <2>5. conv[proc[p].on] \in Conversation
      BY <2>3 DEF ChatInv, TypeInv
    <2>6. row.template = w /\ row.templateStatus = "SENT"
      BY <2>3, <2>4, <2>5 DEF UpdateAfterTemplate, Conversation
    <2> QED
      BY <2>3, <2>6
  <1>2. CASE ~(PersistOutbound(p) /\ w = proc[p].msg)
    <2>1. Stored(w)
      <3>1. Stored(w)'
        BY <1>0, NextMessages DEF MessageInv, NoMessage, Stored
      <3>2. \A d \in Conversations : InsertMessage(p, d) => proc[p].msg \in Inbound
        BY InsertMessageRows
      <3> QED
        BY <1>0, <1>2, <3>1, <3>2, StoredBefore
    <2>2. /\ OnlyTemplate(w) /\ msg'[w].conv = c /\ c \in Conversations
          /\ ~(DeleteById(p) /\ Exists(c) /\ c = proc[p].on)
          /\ PersistOutbound(p) /\ Exists(c) /\ proc[p].val = "template" => proc[p].on # c
      BY <1>2, <2>1, OnlyBefore
    <2>3. conv[c].template = w /\ conv[c].templateStatus = msg[w].status
      BY <2>2 DEF TemplateInv
    <2>4. \/ conv'[c].template = w /\ conv'[c].templateStatus = msg[w].status
             /\ ~(UpdateInitialTemplateStatus(p) /\ proc[p].seen = proc[p].msg /\ c = proc[p].on)
          \/ /\ UpdateInitialTemplateStatus(p) /\ proc[p].seen = proc[p].msg /\ c = proc[p].on
             /\ conv'[c].template = w /\ conv'[c].templateStatus = proc[p].val
      <3>1. CASE UpdateInitialTemplateStatus(p) /\ proc[p].seen = proc[p].msg /\ c = proc[p].on
        <4>1. conv'[c] = [conv[c] EXCEPT !.templateStatus = proc[p].val]
          BY <2>2, <3>1 DEF UpdateInitialTemplateStatus, ChatInv, TypeInv
        <4>2. conv[c] \in Conversation
          BY <2>2 DEF ChatInv, TypeInv
        <4> QED
          BY <2>3, <3>1, <4>1, <4>2 DEF Conversation
      <3>2. CASE ~(UpdateInitialTemplateStatus(p) /\ proc[p].seen = proc[p].msg
                      /\ c = proc[p].on)
        BY <2>2, <2>3, <3>2, CountedRows
      <3> QED
        BY <3>1, <3>2
    <2>5. CASE UpdateInitialTemplateStatus(p)
      <3> DEFINE v == proc[p].msg
      <3>0. At(p, "markTemplate") /\ v \in Outbound
        BY <2>5, TemplateStatusRows DEF UpdateInitialTemplateStatus
      <3>1. /\ proc[p].on = msg[v].conv
            /\ proc[p].seen = v => msg[v].kind = "template"
            /\ OnlyTemplate(v) => proc[p].seen = v
        BY <3>0 DEF TemplateInv
      <3>2. msg' = [msg EXCEPT ![v].status = proc[p].val] /\ msg \in [Messages -> Message]
        BY <2>5 DEF UpdateInitialTemplateStatus, ChatInv, TypeInv
      <3>3. CASE v = w
        <4>1. msg'[w].status = proc[p].val
          BY <1>0, <3>2, <3>3 DEF Message
        <4> QED
          BY <2>2, <2>4, <2>5, <3>1, <3>3, <4>1
      <3>4. CASE v # w
        <4>1. msg'[w] = msg[w]
          BY <1>0, <3>2, <3>4
        <4>2. ~(proc[p].seen = v /\ c = proc[p].on)
          BY <2>2, <3>0, <3>1, <3>4 DEF OnlyTemplate
        <4> QED
          BY <2>2, <2>4, <4>1, <4>2
      <3> QED
        BY Zenon, <3>3, <3>4
    <2>6. CASE ~UpdateInitialTemplateStatus(p)
      <3>1. \A d \in Conversations : InsertMessage(p, d) => proc[p].msg \in Inbound
        BY InsertMessageRows
      <3>2. Exists(c)
        BY <1>0, <2>1 DEF MessageInv
      <3>3. msg'[w] = msg[w]
        BY <1>0, <1>2, <2>2, <2>6, <3>1, <3>2, MessagesStay
      <3> QED
        BY <2>2, <2>4, <2>6, <3>3
    <2> QED
      BY <2>5, <2>6
  <1> QED
    BY <1>1, <1>2

LEMMA NextMarks ==
    ASSUME ChatInv, MessageInv, TemplateInv, NEW p \in Requests,
           Webhook(p) \/ Route(p) \/ Step(p), NEW q \in Requests, At(q, "markTemplate")'
    PROVE  LET w == proc'[q].msg
           IN  /\ proc'[q].on = msg'[w].conv
               /\ proc'[q].seen = w => msg'[w].kind = "template"
               /\ OnlyTemplate(proc[q].msg)' => proc'[q].seen = w
  <1>0. ProcInv /\ Outbound \subseteq Messages
    BY DEF ChatInv, Messages
  <1>1. CASE q # p
    <2> DEFINE w == proc[q].msg
    <2>1. proc'[q] = proc[q] /\ At(q, "markTemplate")
      BY <1>0, <1>1, OthersWait DEF At
    <2>2. w \in Outbound /\ Stored(w) /\ w \in locked
      BY <1>0, <2>1 DEF ProcInv, Carries, At, ChatInv, LockInv, InTransaction, Held
    <2>3. ~(PersistOutbound(p) /\ w = proc[p].msg)
      BY <2>2 DEF PersistOutbound, MessageInv
    <2>4. msg'[w].conv = msg[w].conv /\ msg'[w].kind = msg[w].kind
      <3>1. CASE DeleteById(p)
        <4>1. msg'[w] = msg[w]
          BY <1>0, <2>2, <3>1 DEF DeleteById, tables
        <4> QED
          BY <4>1
      <3>2. CASE ~DeleteById(p)
        BY <1>0, <2>2, <2>3, <3>2, StoredBefore
      <3> QED
        BY <3>1, <3>2
    <2>5. /\ proc[q].on = msg[w].conv
          /\ proc[q].seen = w => msg[w].kind = "template"
          /\ OnlyTemplate(w) => proc[q].seen = w
      BY <2>1 DEF TemplateInv
    <2>6. ASSUME OnlyTemplate(proc[q].msg)' PROVE proc'[q].seen = w
      <3>1. PICK v \in Outbound : v = w
        BY <2>2
      <3>2. OnlyTemplate(v)'
        BY <2>1, <2>6, <3>1 DEF OnlyTemplate
      <3>3. OnlyTemplate(v)
        BY <2>2, <2>3, <3>1, <3>2, OnlyBefore
      <3> QED
        BY <2>1, <2>5, <3>1, <3>3
    <2> QED
      BY <2>1, <2>4, <2>5, <2>6
  <1>2. CASE q = p
    <2> DEFINE w == proc[p].msg
    <2>1. UpdateStatusByWamid(p) /\ Stored(w)
      BY <1>0, <1>2, StepMoves, WebhookMoves, RouteMoves DEF At
    <2>2. w \in Outbound /\ proc[p] \in Local /\ UNCHANGED <<conv, msg>>
      BY <1>0, <2>1 DEF ProcInv, Carries, UpdateStatusByWamid, At, tables
    <2>3. proc'[p] = [proc[p] EXCEPT !.at = "markTemplate", !.on = msg[w].conv,
                                     !.seen = conv[msg[w].conv].template]
      BY <1>0, <2>1 DEF UpdateStatusByWamid, Handling, ProcInv
    <2>4. /\ proc'[p].msg = w /\ proc'[p].on = msg[w].conv
          /\ proc'[p].seen = conv[msg[w].conv].template
      BY <2>2, <2>3 DEF Local
    <2>5. msg[w].conv \in Conversations
      BY <1>0, <2>1, <2>2 DEF MessageInv, Exists
    <2>6. conv[msg[w].conv].template = w => msg[w].kind = "template"
      BY <2>2, <2>5 DEF TemplateInv
    <2>7. OnlyTemplate(w) => conv[msg[w].conv].template = w
      BY <2>2 DEF TemplateInv
    <2>8. OnlyTemplate(proc[p].msg)' => OnlyTemplate(w)
      BY <2>2, <2>4 DEF OnlyTemplate
    <2> QED
      BY <1>2, <2>2, <2>4, <2>6, <2>7, <2>8
  <1> QED
    BY <1>1, <1>2

LEMMA NextTemplates ==
    ASSUME ChatInv, MessageInv, TemplateInv, NEW p \in Requests,
           Webhook(p) \/ Route(p) \/ Step(p)
    PROVE  TemplateInv'
  <1>1. \A c \in Conversations : LET w == conv'[c].template IN
           w \in Outbound => msg'[w].kind = "template" /\ msg'[w].conv = c
    BY NextNamed
  <1>2. ASSUME NEW w \in Outbound, OnlyTemplate(w)'
        PROVE  LET row == conv'[msg'[w].conv]
               IN  row.template = w /\ row.templateStatus = msg'[w].status
    BY <1>2, NextFollows
  <1>3. ASSUME NEW q \in Requests, At(q, "markTemplate")'
        PROVE  LET w == proc'[q].msg
               IN  /\ proc'[q].on = msg'[w].conv
                   /\ proc'[q].seen = w => msg'[w].kind = "template"
                   /\ OnlyTemplate(proc[q].msg)' => proc'[q].seen = w
    BY <1>3, NextMarks DEF OnlyTemplate
  <1> QED
    BY <1>1, <1>2, <1>3 DEF TemplateInv, OnlyTemplate

(* The status of a template the agents wait for follows its message, in any *)
(* order of Meta's statuses and with any sends, deletions and answers in    *)
(* between (message.service.js:142-148, conversation.repository.js).        *)
THEOREM TemplatesAreFollowed == Spec => []TemplateStatusFollows
  <1> DEFINE Inv == ChatInv /\ MessageInv /\ TemplateInv
  <1>1. Init => Inv
    BY ChatInit, MessagesInit
  <1>2. Inv /\ [Next]_vars => Inv'
    <2> SUFFICES ASSUME Inv, [Next]_vars PROVE MessageInv' /\ TemplateInv'
      BY NextKeepsChatInv
    <2>1. CASE \E p \in Requests : Webhook(p) \/ Route(p) \/ Step(p)
      BY <2>1, NextMessages, NextTemplates
    <2>2. CASE World \/ Answered \/ UNCHANGED vars
      <3>1. UNCHANGED <<conv, msg, perm, locked, proc, sent>>
        BY <2>2, WorldReadsOnly DEF Answered, vars
      <3> QED
        BY <3>1, QuietKeeps
    <2>3. CASE Calls
      BY <2>3, CallsHandOver, HandoverKeeps
    <2> QED
      BY <2>1, <2>2, <2>3 DEF Next
  <1>3. Inv => TemplateStatusFollows
    BY DEF TemplateInv, TemplateStatusFollows, OnlyTemplate
  <1> QED
    BY <1>1, <1>2, <1>3, PTL DEF Spec

-----------------------------------------------------------------------------
(* Permissions.  A customer who accepted once did.                          *)
LEMMA WorldGrants ==
    ASSUME ChatInv, GrantInv, World
    PROVE  /\ \A k : Accepted(k) => Accepted(k)'
           /\ answer' \in [Replies -> {"none", "accept", "reject", "revoke"}]
           /\ \A m \in Replies : wrote'[m] = 0 => answer'[m] = "none"
           /\ \A k \in Customers : allowed'[k].says = "yes" => Accepted(k)'
  <1>0. /\ answer \in [Replies -> {"none", "accept", "reject", "revoke"}]
        /\ wrote \in [Inbound -> 0..MaxTime] /\ now \in 1..MaxTime /\ MaxTime \in Nat
        /\ allowed \in [Customers -> [says : {"yes", "no", "asked"}, until : Times]]
        /\ Author \in [Inbound -> Customers] /\ Replies \subseteq Inbound
    BY ChatAssumption DEF ChatInv, MetaInv, GrantInv
  <1>1. CASE UNCHANGED <<answer, allowed>> /\ (UNCHANGED wrote \/ \E m \in Inbound : Write(m))
    <2>1. \A m \in Replies : wrote'[m] = wrote[m]
      BY <1>0, <1>1 DEF Write
    <2> QED
      BY <1>1, <2>1 DEF GrantInv, Accepted
  <1>2. ASSUME NEW m \in Inbound, NEW a \in {"accept", "reject", "revoke"}, Reply(m, a)
        PROVE  /\ \A k : Accepted(k) => Accepted(k)'
               /\ answer' \in [Replies -> {"none", "accept", "reject", "revoke"}]
               /\ \A r \in Replies : wrote'[r] = 0 => answer'[r] = "none"
               /\ \A k \in Customers : allowed'[k].says = "yes" => Accepted(k)'
    <2> DEFINE new == IF a = "accept" THEN [says |-> "yes", until |-> now + Window]
                      ELSE [says |-> "no", until |-> 0]
    <2>1. /\ m \in Replies /\ wrote[m] = 0 /\ answer[m] = "none"
          /\ wrote' = [wrote EXCEPT ![m] = now] /\ answer' = [answer EXCEPT ![m] = a]
          /\ allowed' = [allowed EXCEPT ![Author[m]] = new]
      BY <1>2 DEF Reply, GrantInv
    <2>2. ASSUME NEW k, Accepted(k) PROVE Accepted(k)'
      BY <1>0, <2>1, <2>2 DEF Accepted
    <2>3. ASSUME NEW k \in Customers, allowed'[k].says = "yes" PROVE Accepted(k)'
      <3>1. CASE k = Author[m]
        <4>1. a = "accept"
          BY <1>0, <2>1, <2>3, <3>1
        <4> QED
          BY <1>0, <2>1, <3>1, <4>1 DEF Accepted
      <3>2. CASE k # Author[m]
        BY <1>0, <2>1, <2>2, <2>3, <3>2 DEF GrantInv
      <3> QED
        BY <3>1, <3>2
    <2>4. ASSUME NEW r \in Replies, wrote'[r] = 0 PROVE answer'[r] = "none"
      <3>1. r # m
        BY <1>0, <2>1, <2>4
      <3> QED
        BY <1>0, <2>1, <2>4, <3>1 DEF GrantInv
    <2> QED
      BY <1>0, <2>1, <2>2, <2>3, <2>4
  <1> QED
    BY <1>1, <1>2 DEF World, Tick, Write

LEMMA NextCanCall ==
    ASSUME ChatInv, GrantInv, NEW p \in Requests, Webhook(p) \/ Route(p) \/ Step(p),
           NEW c \in Conversations, perm'[c].can
    PROVE  Exists(c)' /\ \E k \in Customers : conv'[c].of = k /\ Accepted(k)
  <1> DEFINE r == proc[p]
             d == proc[p].on
  <1>0. ProcInv /\ perm \in [Conversations -> Permission] /\ r \in Local
    BY DEF ChatInv, TypeInv, ProcInv
  <1>1. ASSUME perm[c].can, ~(DeleteById(p) /\ Exists(c) /\ c = d)
        PROVE  Exists(c)' /\ \E k \in Customers : conv'[c].of = k /\ Accepted(k)
    <2>1. Exists(c) /\ Accepted(conv[c].of) /\ conv[c].of \in Customers
      BY <1>1 DEF GrantInv, ChatInv, HistoryInv
    <2>2. Exists(c)' /\ conv'[c].of = conv[c].of
      BY <1>1, <2>1, RowsStay DEF Exists
    <2> QED
      BY <2>1, <2>2
  <1>2. ASSUME UNCHANGED conv, Exists(c), NEW k \in Customers, conv[c].of = k, Accepted(k)
        PROVE  Exists(c)' /\ \E l \in Customers : conv'[c].of = l /\ Accepted(l)
    BY <1>2 DEF Exists
  <1>3. CASE Permit(p)
    <2>1. CASE perm'[c] = perm[c]
      BY <1>1, <1>3, <2>1 DEF Permit, DeleteById, At
    <2>2. CASE perm'[c] # perm[c]
      <3>1. /\ c = d /\ Exists(c) /\ perm'[c] = Replied(r.msg, r.val) /\ UNCHANGED conv
        BY <1>0, <1>3, <2>2 DEF Permit
      <3>2. answer[r.msg] = "accept"
        <4>1. Replied(r.msg, r.val).can = (answer[r.msg] = "accept")
          BY DEF Replied
        <4> QED
          BY <3>1, <4>1
      <3>3. r.msg \in Replies /\ Author[r.msg] \in Customers
        BY <1>0, <1>3, ChatAssumption DEF Permit, At, ProcInv, Carries
      <3>4. conv[c].of = Author[r.msg]
        BY <1>3, <3>1 DEF GrantInv, About, Permit, At
      <3> QED
        BY <1>2, <3>1, <3>2, <3>3, <3>4 DEF Accepted
    <2> QED
      BY <2>1, <2>2
  <1>4. CASE SyncFromMeta(p)
    <2>1. CASE perm'[c] = perm[c]
      BY <1>1, <1>4, <2>1 DEF SyncFromMeta, DeleteById, At
    <2>2. CASE perm'[c] # perm[c]
      <3>1. /\ c = d /\ Exists(c) /\ UNCHANGED conv
            /\ perm'[c] = [status |-> r.val, can |-> r.val = "GRANTED",
                           until |-> r.until, wamid |-> perm[c].wamid]
        BY <1>0, <1>4, <2>2 DEF SyncFromMeta
      <3>2. r.val = "GRANTED"
        <4> DEFINE granted == r.val = "GRANTED"
                   row == [status |-> r.val, can |-> granted, until |-> r.until,
                           wamid |-> perm[c].wamid]
        <4>1. perm'[c] = row
          BY <3>1
        <4>2. row.can = granted
          <5> HIDE DEF granted
          <5> QED
            OBVIOUS
        <4> QED
          BY <4>1, <4>2
      <3>3. r.at = "sync" /\ r.to \in Customers
        BY <1>0, <1>4 DEF SyncFromMeta, At, ProcInv, Carries
      <3>4. Accepted(r.to) /\ conv[c].of = r.to
        BY <3>1, <3>2, <3>3 DEF GrantInv, About
      <3> QED
        BY <1>2, <3>1, <3>3, <3>4
    <2> QED
      BY <2>1, <2>2
  <1>5. CASE ExpireIfNeeded(p)
    <2>1. \/ perm' = perm
          \/ perm' = [perm EXCEPT ![d].status = "EXPIRED", ![d].can = FALSE]
      BY <1>5 DEF ExpireIfNeeded
    <2>2. perm[c].can
      BY <1>0, <2>1 DEF Permission
    <2> QED
      BY <1>1, <1>5, <2>2 DEF ExpireIfNeeded, DeleteById, At
  <1>6. CASE MarkRequested(p)
    <2>1. \/ perm' = perm
          \/ perm' = [perm EXCEPT ![d] = [NoPermission EXCEPT !.status = "PENDING"]]
      BY <1>6 DEF MarkRequested
    <2>2. perm[c].can
      BY <1>0, <2>1 DEF NoPermission
    <2> QED
      BY <1>1, <1>6, <2>2 DEF MarkRequested, DeleteById, At
  <1>7. CASE DeleteById(p)
    <2>1. ~(Exists(c) /\ c = d)
      <3>1. ASSUME Exists(c), c = d PROVE FALSE
        <4>1. perm'[c] = NoPermission
          BY <1>0, <1>7, <3>1 DEF DeleteById
        <4> QED
          BY <4>1 DEF NoPermission
      <3> QED
        BY <3>1
    <2>2. perm'[c] = perm[c]
      BY <1>0, <1>7, <2>1 DEF DeleteById, tables
    <2> QED
      BY <1>1, <2>1, <2>2
  <1>8. CASE UNCHANGED perm /\ ~DeleteById(p)
    BY <1>1, <1>8
  <1> QED
    BY <1>0, <1>3, <1>4, <1>5, <1>6, <1>7, <1>8, WhoWrites

LEMMA AboutStays ==
    ASSUME ChatInv, NEW p \in Requests, Webhook(p) \/ Route(p) \/ Step(p),
           NEW c \in Conversations, NEW k, About(c, k)
    PROVE  About(c, k)'
  BY RowsStay DEF About

(* What a handler knows of the customer it asks about.                      *)
LEMMA NextKnows ==
    ASSUME ChatInv, GrantInv, NEW p \in Requests, Webhook(p) \/ Route(p) \/ Step(p)
    PROVE  LET r == proc'[p]
               c == proc'[p].on
           IN  /\ r.at \in {"existing", "permit"} =>
                     \E k \in Customers, d \in Conversations :
                        k = Author[r.msg] /\ d = c /\ About(d, k)'
               /\ r.at \in {"getMeta", "find", "sync"} =>
                     \E k \in Customers, d \in Conversations :
                        k = r.to /\ d = c /\ About(d, k)'
               /\ r.at = "find" /\ r.seen = "yes" => r.to \in Customers /\ Accepted(r.to)
               /\ r.at = "sync" /\ r.val = "GRANTED" => r.to \in Customers /\ Accepted(r.to)
  <1> DEFINE r == proc'[p]
             c == proc'[p].on
             ReplyIs == \E k \in Customers, d \in Conversations :
                           k = Author[r.msg] /\ d = c /\ About(d, k)'
             AskedIs == \E k \in Customers, d \in Conversations :
                           k = r.to /\ d = c /\ About(d, k)'
  <1>0. /\ ProcInv /\ proc[p] \in Local /\ Carries(p)
        /\ Author \in [Inbound -> Customers] /\ Replies \subseteq Inbound
    BY ChatAssumption DEF ChatInv, ProcInv
  <1>1. CASE r.at = "existing"
    <2>1. Step(p)
      BY <1>0, <1>1, WebhookMoves, RouteMoves
    <2>2. CASE ResolveConversation(p)
      <3>1. PICK k \in Customers : /\ k = Author[proc[p].msg] /\ proc[p].op = "reply"
                                   /\ proc[p].msg \in Replies
        BY <1>0, <2>2 DEF ResolveConversation, At, Carries
      <3>2. Contact(p) = k
        BY <3>1 DEF Contact
      <3>3. PICK d : d = FindOpen(Contact(p))
        OBVIOUS
      <3>4. proc'[p] = [proc[p] EXCEPT !.at = IF d = 0 THEN "resolveCreate" ELSE "existing",
                                      !.on = d]
        BY <1>0, <2>2, <3>3 DEF ResolveConversation, Handling, ProcInv
      <3>5. /\ r.at = IF d = 0 THEN "resolveCreate" ELSE "existing"
            /\ c = d /\ r.msg = proc[p].msg
        BY <1>0, <3>4 DEF Local
      <3>6. d \in Opened(k)
        BY <1>1, <3>2, <3>3, <3>5, FoundOpen
      <3>7. UNCHANGED conv
        BY <2>2 DEF ResolveConversation, tables
      <3>8. d \in Conversations /\ About(d, k)'
        BY <3>6, <3>7 DEF Opened, About, Exists
      <3> QED
        BY <1>1, <3>1, <3>5, <3>8
    <2>3. ASSUME NEW d \in Conversations, ResolveCreate(p, d) PROVE ReplyIs
      <3>1. PICK k \in Customers : /\ k = Author[proc[p].msg] /\ proc[p].op = "reply"
                                   /\ proc[p].msg \in Replies
        BY <1>0, <2>3 DEF ResolveCreate, At, Carries
      <3>2. Contact(p) = k
        BY <3>1 DEF Contact
      <3>3. proc'[p] = [proc[p] EXCEPT !.at = "existing", !.on = d]
        BY <1>0, <2>3 DEF ResolveCreate, Handling, ProcInv
      <3>4. c = d /\ r.msg = proc[p].msg
        BY <1>0, <3>3 DEF Local
      <3>5. conv'[d].of = k /\ conv'[d].status = "OPEN"
        BY <2>3, <3>1, <3>2, CreateRows DEF ResolveCreate
      <3>6. About(d, k)'
        BY <3>5 DEF About
      <3> QED
        BY <3>1, <3>4, <3>6
    <2> QED
      BY <1>0, <1>1, <2>1, <2>2, <2>3, StepMoves
  <1>2. CASE r.at = "permit"
    <2>1. FindExisting(p)
      BY <1>0, <1>2, WebhookMoves, RouteMoves, StepMoves
    <2>2. /\ proc[p].msg \in Replies /\ proc[p].on \in Conversations
          /\ About(proc[p].on, Author[proc[p].msg])
      BY <1>0, <2>1 DEF FindExisting, At, Carries, GrantInv
    <2>3. proc'[p] = [proc[p] EXCEPT !.at = "permit", !.val = perm[proc[p].on].status]
      BY <1>0, <2>1 DEF FindExisting, Handling, ProcInv
    <2>4. r.msg = proc[p].msg /\ c = proc[p].on
      BY <1>0, <2>3 DEF Local
    <2>5. PICK k \in Customers, d \in Conversations : k = Author[r.msg] /\ d = c /\ About(d, k)
      BY <1>0, <2>2, <2>4
    <2>6. About(d, k)'
      BY <2>5, AboutStays
    <2> QED
      BY <1>2, <2>5, <2>6
  <1>3. CASE r.at = "getMeta"
    <2>1. Route(p)
      BY <1>0, <1>3, WebhookMoves, StepMoves
    <2>2. Exists(c) /\ r.to = conv[c].of /\ UNCHANGED conv
      BY <1>0, <1>3, <2>1, RouteMoves DEF tables
    <2>3. PICK k \in Customers, d \in Conversations :
               k = r.to /\ d = c /\ Exists(d) /\ conv[d].of = k
      BY <2>2 DEF Exists, ChatInv, HistoryInv
    <2>4. About(d, k)'
      BY <2>2, <2>3 DEF About, Exists
    <2> QED
      BY <1>3, <2>3, <2>4
  <1>4. CASE r.at = "find"
    <2>1. GetCallPermission(p)
      BY <1>0, <1>4, WebhookMoves, RouteMoves, StepMoves
    <2>2. /\ proc[p].to \in Customers /\ proc[p].on \in Conversations
          /\ About(proc[p].on, proc[p].to)
      BY <1>0, <2>1 DEF GetCallPermission, At, Carries, GrantInv
    <2>3. ~Finish(p)
      BY <1>0, <1>4, FinishMoves, IdleFields
    <2>4. proc'[p] = [proc[p] EXCEPT !.at = "find", !.seen = allowed[proc[p].to].says,
                                    !.until = allowed[proc[p].to].until]
      BY <1>0, <2>1, <2>3 DEF GetCallPermission, Handling, ProcInv
    <2>5. r.to = proc[p].to /\ c = proc[p].on /\ r.seen = allowed[proc[p].to].says
      BY <1>0, <2>4 DEF Local
    <2>6. PICK k \in Customers, d \in Conversations : k = r.to /\ d = c /\ About(d, k)
      BY <2>2, <2>5
    <2>7. About(d, k)'
      BY <2>6, AboutStays
    <2>8. r.seen = "yes" => Accepted(r.to)
      BY <2>2, <2>5 DEF GrantInv
    <2> QED
      BY <1>4, <2>6, <2>7, <2>8
  <1>5. CASE r.at = "sync"
    <2>1. FindPermission(p)
      BY <1>0, <1>5, WebhookMoves, RouteMoves, StepMoves
    <2> DEFINE val == NormalizeMeta(proc[p].seen, proc[p].until, perm[proc[p].on])
    <2>2. /\ proc[p].to \in Customers /\ proc[p].on \in Conversations
          /\ About(proc[p].on, proc[p].to)
          /\ proc[p].seen = "yes" => Accepted(proc[p].to)
      BY <1>0, <2>1 DEF FindPermission, At, Carries, GrantInv
    <2>3. val = "GRANTED" => proc[p].seen = "yes"
      BY DEF NormalizeMeta
    <2>4. proc'[p] = [proc[p] EXCEPT !.at = "sync", !.val = val]
      BY <1>0, <2>1 DEF FindPermission, Handling, ProcInv
    <2> HIDE DEF val
    <2>5. r.to = proc[p].to /\ c = proc[p].on /\ r.val = val
      BY <1>0, <2>4 DEF Local
    <2>6. PICK k \in Customers, d \in Conversations : k = r.to /\ d = c /\ About(d, k)
      BY <2>2, <2>5
    <2>7. About(d, k)'
      BY <2>6, AboutStays
    <2> QED
      BY <1>5, <2>2, <2>3, <2>5, <2>6, <2>7
  <1> QED
    BY <1>1, <1>2, <1>3, <1>4, <1>5

LEMMA NextGrants ==
    ASSUME ChatInv, GrantInv, NEW p \in Requests, Webhook(p) \/ Route(p) \/ Step(p)
    PROVE  GrantInv'
  <1>0. ProcInv /\ UNCHANGED <<wrote, answer>>
    BY WhoWrites DEF ChatInv
  <1>1. \A k : Accepted(k)' <=> Accepted(k)
    BY <1>0 DEF Accepted
  <1>2. ASSUME NEW k \in Customers, allowed'[k].says = "yes" PROVE Accepted(k)'
    <2>1. allowed[k].says = "yes"
      <3>1. CASE UNCHANGED allowed
        BY <1>2, <3>1
      <3>2. CASE RequestCallPermission(p) /\ allowed' # allowed
        <4>1. allowed' = [allowed EXCEPT ![proc[p].to] = [says |-> "asked", until |-> 0]]
          BY <3>2 DEF RequestCallPermission
        <4> QED
          BY <1>2, <4>1 DEF ChatInv, MetaInv
      <3> QED
        BY <1>0, <3>1, <3>2, WhoWrites
    <2> QED
      BY <1>1, <2>1 DEF GrantInv
  <1>3. ASSUME NEW c \in Conversations, perm'[c].can
        PROVE  Exists(c)' /\ \E k \in Customers : conv'[c].of = k /\ Accepted(k)'
    BY <1>1, <1>3, NextCanCall
  <1>4. ASSUME NEW q \in Requests
        PROVE  LET r == proc'[q]
                   c == proc'[q].on
               IN  /\ r.at \in {"existing", "permit"} =>
                         \E k \in Customers, d \in Conversations :
                            k = Author[r.msg] /\ d = c /\ About(d, k)'
                   /\ r.at \in {"getMeta", "find", "sync"} =>
                         \E k \in Customers, d \in Conversations :
                            k = r.to /\ d = c /\ About(d, k)'
                   /\ r.at = "find" /\ r.seen = "yes" => r.to \in Customers /\ Accepted(r.to)
                   /\ r.at = "sync" /\ r.val = "GRANTED" => r.to \in Customers /\ Accepted(r.to)
    <2>1. CASE q = p
      BY <2>1, NextKnows
    <2>2. CASE q # p
      <3>1. proc'[q] = proc[q] /\ Carries(q)
        BY <1>0, <2>2, OthersWait DEF ProcInv
      <3>2. ASSUME proc[q].at \in {"existing", "permit"}
            PROVE  \E k \in Customers, d \in Conversations :
                      k = Author[proc[q].msg] /\ d = proc[q].on /\ About(d, k)'
        <4>1. PICK k \in Customers, d \in Conversations :
                   k = Author[proc[q].msg] /\ d = proc[q].on /\ About(d, k)
          BY <3>1, <3>2, ChatAssumption DEF Carries, GrantInv
        <4> QED
          BY <4>1, AboutStays
      <3>3. ASSUME proc[q].at \in {"getMeta", "find", "sync"}
            PROVE  \E k \in Customers, d \in Conversations :
                      k = proc[q].to /\ d = proc[q].on /\ About(d, k)'
        <4>1. PICK k \in Customers, d \in Conversations :
                   k = proc[q].to /\ d = proc[q].on /\ About(d, k)
          BY <3>1, <3>3 DEF Carries, GrantInv
        <4> QED
          BY <4>1, AboutStays
      <3>4. /\ proc[q].at = "find" /\ proc[q].seen = "yes" => Accepted(proc[q].to)
            /\ proc[q].at = "sync" /\ proc[q].val = "GRANTED" => Accepted(proc[q].to)
            /\ proc[q].at \in {"find", "sync"} => proc[q].to \in Customers
        BY <3>1 DEF GrantInv, Carries
      <3> QED
        BY <3>1, <3>2, <3>3, <3>4
    <2> QED
      BY <2>1, <2>2
  <1>5. \A k \in Customers : Accepted(k) => \E m \in Replies : answer'[m] = "accept" /\ Author[m] = k
    BY <1>0 DEF Accepted
  <1> QED
    BY <1>0, <1>2, <1>3, <1>4, <1>5 DEF GrantInv, About, Exists, Accepted

(* Whatever way a permission to call came into the row, by a reply or by an *)
(* answer of Meta, and whatever raced it, a customer who may be called      *)
(* accepted (callPermission.service.js, call.service.js:440-460).           *)
THEOREM CallsWerePermitted == Spec => []PermissionWasGiven
  <1> DEFINE Inv == ChatInv /\ GrantInv
  <1>1. Init => Inv
    <2> SUFFICES ASSUME Init PROVE GrantInv
      BY ChatInit
    <2>1. /\ \A k \in Customers : allowed[k].says = "no"
          /\ \A c \in Conversations : ~perm[c].can
          /\ \A p \in Requests : proc[p].at = "idle"
          /\ answer = [m \in Replies |-> "none"]
      BY IdleFields DEF Init, NoPermission
    <2> QED
      BY <2>1 DEF GrantInv
  <1>2. Inv /\ [Next]_vars => Inv'
    <2> SUFFICES ASSUME Inv, [Next]_vars PROVE GrantInv'
      BY NextKeepsChatInv
    <2>1. CASE \E p \in Requests : Webhook(p) \/ Route(p) \/ Step(p)
      BY <2>1, NextGrants
    <2>2. CASE Answered \/ UNCHANGED vars
      BY <2>2 DEF Answered, vars, GrantInv, Accepted, About, Exists
    <2>3. CASE World
      <3>1. UNCHANGED <<conv, perm, proc>>
        BY <2>3, WorldReadsOnly
      <3>2. \A k : Accepted(k) => Accepted(k)'
        BY <2>3, WorldGrants
      <3>3. \A c, k : About(c, k) => About(c, k)'
        BY <3>1 DEF About, Exists
      <3> QED
        BY SMTT(40), <2>3, <3>1, <3>2, <3>3, WorldGrants DEF GrantInv, Accepted, About, Exists
    <2>4. CASE Calls
      <3>1. /\ UNCHANGED <<perm, proc, meta>>
            /\ \A c \in Conversations : conv'[c].of = conv[c].of /\ conv'[c].status = conv[c].status
        BY <2>4, CallsHandOver DEF Handover
      <3>2. \A c \in Conversations : Exists(c)' <=> Exists(c)
        BY <3>1 DEF Exists
      <3>3. \A c \in Conversations, k \in Customers : About(c, k) => About(c, k)'
        BY <3>1, <3>2 DEF About
      <3>4. \A k : Accepted(k)' <=> Accepted(k)
        BY <3>1 DEF Accepted, meta
      <3>5. \A q \in Requests : Carries(q)
        BY DEF ChatInv, ProcInv
      <3>6. ASSUME NEW q \in Requests
            PROVE  /\ proc[q].at \in {"existing", "permit"} => About(proc[q].on, Author[proc[q].msg])'
                   /\ proc[q].at \in {"getMeta", "find", "sync"} => About(proc[q].on, proc[q].to)'
        BY <3>1, <3>3, <3>5, ChatAssumption DEF Carries, GrantInv
      <3>7. \A c \in Conversations : perm'[c].can => Exists(c)' /\ Accepted(conv[c].of)'
        BY <3>1, <3>2, <3>4 DEF GrantInv
      <3>8. /\ answer' = answer /\ wrote' = wrote /\ allowed' = allowed
            /\ perm' = perm /\ proc' = proc
        BY <3>1 DEF meta
      <3> QED
        BY <3>4, <3>6, <3>7, <3>8 DEF GrantInv
    <2> QED
      BY <2>1, <2>2, <2>3, <2>4 DEF Next
  <1>3. Inv => PermissionWasGiven
    BY DEF GrantInv, PermissionWasGiven, Accepted
  <1> QED
    BY <1>1, <1>2, <1>3, PTL DEF Spec
=============================================================================
