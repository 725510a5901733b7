------------------------------ MODULE IvrQueue ------------------------------
(***************************************************************************)
(* A call in the queue, with the agents who take, decline and end it       *)
(* (call.service.js), the customer, the terminate webhook, presence and    *)
(* restarts.                                                               *)
(***************************************************************************)
EXTENDS CallIvr

NoRequest == [at |-> "idle", call |-> NoCall]
Asks(a, s) == req[a].at = s
Answered(a) == req' = [req EXCEPT ![a] = NoRequest]

\* mediaActivations: one activation of the call's audio at a time.
Activating == \E a \in Agents : req[a].at \in {"agentReady", "metaReady", "answer"}

\* getCallForControl, of the row it reads.
MayControl(a) ==
    /\ Guard(row, a) /\ claimed \in {None, a} /\ row.agent \in {None, a}

\* What an agent sees: the calls he is rung for, and his own.
Shown(a) == row.phase = "QUEUE" \/ row.agent = a

\* A request that the row it reads allows goes on with that row in its hands; one
\* that is refused, or that Meta refuses, changes nothing.
Ask(a, s, call) ==
    /\ Asks(a, "idle") /\ Shown(a) /\ MayControl(a)
    /\ req' = [req EXCEPT ![a] = [at |-> s, call |-> call]]
    /\ UNCHANGED <<row, customer, media, api, claimed, ready, restarts>>

-----------------------------------------------------------------------------
(* An agent acts on the call his browser shows; the read of the row is one  *)
(* step and what follows it another.                                        *)
(* claimCall, and joinMedia which claims the call as well.                  *)
AskClaim(a) == row.status \notin Terminal /\ Ask(a, "claim", NoCall)

ClaimCall(a) ==
    /\ Asks(a, "claim") /\ Answered(a)
    /\ claimed' = IF claimed = None THEN a ELSE claimed
    /\ UNCHANGED <<row, customer, media, api, ready, restarts>>

\* decline writes the state it read; the session of the browser stays.
AskDecline(a) == row.phase = "QUEUE" /\ row.agent = None /\ Ask(a, "decline", row)

Decline(a) ==
    LET call == req[a].call IN
    /\ Asks(a, "decline") /\ Answered(a)
    /\ IF a \in AllowedIds(call)
       THEN SaveIvr([call EXCEPT !.declined = @ \cup {a}])
       ELSE UNCHANGED row
    /\ UNCHANGED <<customer, media, api, claimed, ready, restarts>>

\* activateMedia of a call that waits in the queue: no second accept at Meta.
FromIvr(call) ==
    call.phase = "QUEUE" /\ call.accepted /\ call.agent = None

BeginActivation(a) ==
    ~Activating /\ claimed = a /\ FromIvr(row) /\ Ask(a, "agentReady", row)

AgentReady(a) ==
    /\ Asks(a, "agentReady")
    /\ \/ /\ MayControl(a) /\ row.status = "ACTIVE"
          /\ req' = [req EXCEPT ![a].at = "metaReady"]
       \/ Answered(a)
    /\ UNCHANGED <<row, customer, media, api, claimed, ready, restarts>>

\* setCurrentAgent ends what is played; a check that fails removes the agent.
MetaReady(a) ==
    /\ Asks(a, "metaReady")
    /\ \/ /\ media # "closed" /\ media' = "quiet"
          /\ IF MayControl(a) /\ row.status \notin Terminal
             THEN req' = [req EXCEPT ![a].at = "answer"] ELSE Answered(a)
       \/ Answered(a) /\ UNCHANGED media
    /\ UNCHANGED <<row, customer, api, claimed, ready, restarts>>

Answer(a) ==
    /\ Asks(a, "answer") /\ Answered(a)
    /\ row' = [req[a].call EXCEPT !.status = "ACTIVE", !.agent = a, !.phase = "AGENT"]
    /\ session' = None /\ due' = {} /\ ready' = ready \ {a}
    /\ UNCHANGED <<customer, media, busy, thread, claimed, restarts>>

\* The call is over: emitCall finishes the session and frees the browser's.
Over(status) ==
    /\ row' = [row EXCEPT !.status = status]
    /\ media' = "closed" /\ session' = None /\ due' = {} /\ claimed' = None

Terminate(a) ==
    /\ row.status \notin Terminal /\ Asks(a, "idle") /\ Shown(a) /\ MayControl(a)
    /\ customer' = "over"
    /\ req' = [req EXCEPT ![a] = [at |-> "end", call |-> [NoCall EXCEPT !.agent = row.agent]]]
    /\ UNCHANGED <<row, media, api, claimed, ready, restarts>>

EndRow(a) ==
    /\ Asks(a, "end") /\ Answered(a) /\ Over("ENDED")
    /\ ready' = IF req[a].call.agent = None THEN ready ELSE ready \cup {a}
    /\ UNCHANGED <<customer, busy, thread, restarts>>

-----------------------------------------------------------------------------
HangUp ==
    /\ customer \in {"ringing", "preAccepted", "accepted"} /\ customer' = "over"
    /\ UNCHANGED <<row, media, api, people, restarts>>

\* The terminate webhook, as often as Meta sends it.
ProcessTerminate ==
    /\ customer = "over" /\ Over(IF row.status = "FAILED" THEN "FAILED" ELSE "ENDED")
    /\ ready' = ready \cup ({row.agent} \ {None})
    /\ UNCHANGED <<customer, busy, thread, req, restarts>>

\* A browser connects again: the call is offered to it again.
Connect(a) ==
    /\ a \notin ready /\ row.agent # a
    /\ ready' = ready \cup {a}
    /\ session' = IF session = None THEN None ELSE session \ {a}
    /\ UNCHANGED <<row, customer, media, busy, thread, due, claimed, req, restarts>>

Disconnect(a) ==
    /\ a \in ready
    /\ ready' = ready \ {a}
    /\ UNCHANGED <<row, customer, media, api, claimed, req, restarts>>

\* A limit passes while it means something.
Elapse(limit) ==
    /\ session # None /\ Waiting(row) /\ due' = due \cup {limit}
    /\ limit = "menu" => "noMenu" \notin due /\ row.phase = "MENU"
    /\ limit = "sector" => row.phase = "QUEUE" /\ ~row.fallback
    /\ UNCHANGED <<row, customer, media, session, busy, thread, people, restarts>>

\* The gateway may have been restarted too.
Restart ==
    /\ restarts < MaxRestarts /\ restarts' = restarts + 1
    /\ session' = None /\ busy' = FALSE /\ due' = {}
    /\ thread' = [t \in DOMAIN thread |-> IF t = "recover" THEN [Idle EXCEPT !.at = "find"] ELSE Idle]
    /\ claimed' = None /\ ready' = {}
    /\ req' = [a \in Agents |-> NoRequest]
    /\ CloseMedia /\ UNCHANGED <<row, customer>>

-----------------------------------------------------------------------------
Init ==
    /\ row = NoCall /\ customer = "none" /\ media = "closed"
    /\ session = None /\ busy = FALSE /\ due = {}
    /\ thread = [t \in {"start", "tick", "recover"} |-> Idle]
    /\ claimed = None /\ ready = {}
    /\ req = [a \in Agents |-> NoRequest] /\ restarts = 0

Starting ==
    \/ StartMark \/ PreAccept \/ CheckLatest \/ Accept \/ StartPlay
    \/ UpdateUnclaimed \/ StartFailed \/ FailRow
Ticking ==
    \/ TickCheck \/ TickDigits \/ RouteUpdate("tick") \/ RoutePlay("tick")
    \/ Widen \/ Notify \/ Close("tick") \/ CloseRow("tick")
Recovering ==
    \/ FindWaiting \/ Recover \/ RouteUpdate("recover") \/ RoutePlay("recover")
    \/ Close("recover") \/ CloseRow("recover")
Asking(a) ==
    \/ AskClaim(a) \/ ClaimCall(a) \/ AskDecline(a) \/ Decline(a)
    \/ BeginActivation(a) \/ AgentReady(a) \/ MetaReady(a) \/ Answer(a)
    \/ Terminate(a) \/ EndRow(a) \/ Connect(a) \/ Disconnect(a)

Next ==
    \/ Start \/ Starting \/ TickStart \/ Ticking \/ Recovering
    \/ HangUp \/ ProcessTerminate \/ Restart
    \/ \E a \in Agents : Asking(a)
    \/ \E limit \in {"menu", "sector", "queue"} : Elapse(limit)

Spec == Init /\ [][Next]_vars

\* The process runs: an await is answered, the interval fires, the clock goes on.
\* What agents and customers do is not promised.
FairSpec ==
    /\ Spec
    /\ WF_vars(Starting) /\ WF_vars(TickStart) /\ WF_vars(Ticking) /\ WF_vars(Recovering)
    /\ WF_vars(Elapse("queue"))
=============================================================================
