------------------------------ MODULE IvrProps ------------------------------
(* What the queue of the IVR promises.                                      *)
EXTENDS IvrQueue

Call ==
    [status : {"none", "RINGING", "ACTIVE", "ENDED", "FAILED"}, agent : Agents \cup {None},
     phase : {"none", "MENU", "QUEUE", "AGENT"}, accepted : BOOLEAN,
     option : Options \cup {None}, fallback : BOOLEAN, declined : SUBSET Agents]

\* The row and the tables of the process have the shape the code gives them, and
\* a call with an option for its sector only has that option.
TypeInv ==
    /\ row \in Call
    /\ row.phase = "QUEUE" /\ ~row.fallback => row.option \in Options
    /\ customer \in {"none", "ringing", "preAccepted", "accepted", "over"}
    /\ media \in {"closed", "quiet", "playing"}
    /\ session \in (SUBSET Agents) \cup {None} /\ busy \in BOOLEAN
    /\ due \subseteq {"menu", "sector", "queue", "noMenu"}
    /\ claimed \in Agents \cup {None} /\ ready \subseteq Agents

(* callIvr.service.js:88 "RTP starts only after Meta confirms the accept":  *)
(* nothing is played to a customer whose call Meta has not accepted, after  *)
(* a restart as well.                                                       *)
NoVoiceBeforeAccept ==
    media = "playing" => customer \in {"accepted", "over"}

(* A call an agent has was accepted at Meta: he is connected to it with no  *)
(* second accept, which is only right when there was a first.               *)
AgentHasAnAcceptedCall == row.agent # None => customer \in {"accepted", "over"}

(* start and tick take turns over the session, and the mark of the call in  *)
(* busy is there exactly while one of them runs: none is left behind.       *)
HandlersTakeTurns ==
    /\ At("start", "idle") \/ At("tick", "idle")
    /\ busy <=> ~At("start", "idle") \/ ~At("tick", "idle")

(* A call has one agent: once an agent answered it, no other gets it from   *)
(* the queue.                                                               *)
OneAgentAnswers == [][row.agent # None => row'.agent = row.agent]_vars

(* A customer in the queue is not forgotten: the call ends, an agent        *)
(* answers it or a browser has claimed it, across restarts.                 *)
WaitingIsTakenOrEnds ==
    Waiting(row) /\ row.phase # "none" ~> ~Waiting(row) \/ claimed # None

(* The session of a call that is over goes.                                 *)
EndedIsForgotten ==
    row.status \in Terminal ~> session = None \/ row.status \notin Terminal

(* docs/CALL_IVR_DEPLOY.md:13 "Sem atendimento por 120 segundos desde o     *)
(* aceite pela URA, encerra para evitar uma chamada abandonada              *)
(* indefinidamente."                                                        *)
WaitingCallEnds == Waiting(row) /\ row.phase = "QUEUE" ~> ~Waiting(row)

-----------------------------------------------------------------------------
(***************************************************************************)
(* The inductive invariant behind the theorems of IvrProofs.               *)
(***************************************************************************)
Accepted == customer \in {"accepted", "over"}

\* A state of the IVR that says the call is accepted is never ahead of Meta, and
\* with only a sector to go to, it has one.
Sound(call) == call.accepted \/ call.phase \in {"QUEUE", "AGENT"} => Accepted
Routed(call) == call.phase = "QUEUE" /\ ~call.fallback => call.option \in Options

Points ==
    {"idle", "mark", "preAccept", "ice", "accept", "afterAccept", "silence", "audio",
     "menu", "failed", "failRow", "check", "digits", "queue", "route", "play", "close",
     "closeRow", "find", "found"}

Names == {"start", "tick", "recover"}
Handlers ==
    [Names -> [at : Points, call : Call, option : Options \cup {None},
               meta : {"none", "preAccepted", "accepted"}]]
AgentRequests ==
    [Agents ->
        [at : {"idle", "claim", "decline", "agentReady", "metaReady", "answer", "end"},
         call : Call]]

HandlersInv == thread \in Handlers /\ req \in AgentRequests

(* Before the call nothing runs, but the worker of a restart.              *)
FreshInv ==
    row.status = "none" =>
        /\ row = NoCall /\ customer = "none" /\ media = "closed"
        /\ session = None /\ At("start", "idle") /\ At("tick", "idle")
        /\ thread["recover"] \in {Idle, [Idle EXCEPT !.at = "find"]}
        /\ \A a \in Agents : req[a] = NoRequest

(* Every copy of the row that a handler holds, and may write back.         *)
CopiesInv ==
    /\ Sound(row) /\ Routed(row) /\ (row.agent # None => Accepted)
    /\ \A t \in Names : Sound(thread[t].call)
    /\ Routed(thread["tick"].call)
    /\ \A a \in Agents : Sound(req[a].call) /\ Routed(req[a].call)

(* What has to be accepted already: what start does after its accept, and  *)
(* what the others do with a menu that can be over.                        *)
AcceptInv ==
    /\ thread["start"].at \in {"afterAccept", "silence", "audio", "menu"} => Accepted
    /\ thread["tick"].at \in {"route", "play"} => Accepted
    /\ thread["recover"].at \in {"route", "play"} => Accepted
    /\ session # None /\ At("start", "idle") => Accepted \/ "noMenu" \in due
    /\ "noMenu" \in due => "menu" \notin due
    /\ session = None => due = {}

(* One agent at a time is connected to a call that has no agent yet.       *)
ActivationInv ==
    \A a \in Agents : req[a].at \in {"agentReady", "metaReady", "answer"} =>
        /\ row.agent = None /\ req[a].call.phase = "QUEUE"
        /\ \A b \in Agents \ {a} : req[b].at \notin {"agentReady", "metaReady", "answer"}

IvrInv ==
    /\ TypeInv /\ HandlersInv /\ FreshInv /\ CopiesInv /\ AcceptInv /\ ActivationInv
    /\ HandlersTakeTurns /\ NoVoiceBeforeAccept
=============================================================================
