------------------------------ MODULE CallIvr ------------------------------
(***************************************************************************)
(* callIvr.service.js (createIvr): the API answers a call for the company, *)
(* plays the menu, puts the call in the queue of the sector the customer   *)
(* chose and rings its agents. One call; start, tick and recover are the   *)
(* three handlers of its session. Each await is a step of its own, and an  *)
(* update of the row is by its id, with the ivrState the handler read.     *)
(***************************************************************************)
EXTENDS Naturals, FiniteSets

CONSTANTS
    Agents,
    Options,        \* the digits of the sectors
    Sector,         \* Sector[o] : the agents of a sector
    MaxRestarts,    \* bound on the restarts of the API
    None

ASSUME IvrAssumption ==
    /\ Sector \in [Options -> SUBSET Agents]
    /\ MaxRestarts \in Nat
    /\ None \notin Agents \cup Options /\ \A S \in SUBSET Agents : None # S

VARIABLES
    row,        \* the row of the call
    customer,   \* the call as Meta has it
    media,      \* the session of the gateway: "closed" : there is none, "quiet", "playing"
    session,    \* the entry of sessions: the agents notified, None : there is none
    busy,       \* the call is in busy
    thread,     \* the handlers start, tick and recover
    due,        \* the time limits of the session that have passed: "menu", "sector",
                \* "queue"; "noMenu" : menuAt is not set, and the menu never too old
    claimed,    \* the agent whose browser has the call in callSessionStore
    ready,      \* the agents that are online and in no call
    req,        \* what each agent asks of the call
    restarts

api == <<session, busy, thread, due>>
people == <<claimed, ready, req>>
vars == <<row, customer, media, api, people, restarts>>

Terminal == {"ENDED", "FAILED"}
Waiting(call) == call.status \in {"RINGING", "ACTIVE"} /\ call.agent = None
NoCall ==
    [status |-> "none", agent |-> None, phase |-> "none", accepted |-> FALSE,
     option |-> None, fallback |-> FALSE, declined |-> {}]
Idle == [at |-> "idle", call |-> NoCall, option |-> None, meta |-> "none"]

At(t, s) == thread[t].at = s
Goto(t, s) == thread' = [thread EXCEPT ![t].at = s]
Hold(t, s, call) == thread' = [thread EXCEPT ![t].at = s, ![t].call = call]
Stop(t) == thread' = [thread EXCEPT ![t] = Idle]

(* Mutant: the agent of the row that was read is written with it. *)
SaveCall(call) == row' = [call EXCEPT !.status = row.status]

\* What update({ ivrState }) does to the row.
SaveIvr(call) ==
    row' = [call EXCEPT !.status = row.status, !.agent = row.agent]

\* Only a call in the queue is offered, to the agents who may take it.
AllowedIds(call) ==
    IF call.phase # "QUEUE" THEN {}
    ELSE {a \in ready \ call.declined : call.fallback \/ a \in Sector[call.option]}

Guard(call, a) == call.phase \in {"none", "AGENT"} \/ a \in AllowedIds(call)

\* The gateway plays, unless the call has no session there or it does not answer.
PlayIvr == media # "closed" /\ media' = "playing"

\* Meta ends a call that was accepted, and rejects one that was not; its answer,
\* and that of the gateway, is not waited for when it is an error.
EndAtMeta(accepted) ==
    \/ customer' = IF accepted <=> customer = "accepted" THEN "over" ELSE customer
    \/ UNCHANGED customer
CloseMedia == media' \in {media, "closed"}

-----------------------------------------------------------------------------
(* Mutant: start does not mark the call as busy. *)
StartUnmarked ==
    /\ row.status = "none"
    /\ row' = [NoCall EXCEPT !.status = "RINGING"]
    /\ customer' = "ringing" /\ media' = "quiet"
    /\ session' = {} /\ due' = {}
    /\ Goto("start", "mark")
    /\ UNCHANGED <<busy, people, restarts>>

(* start: the silence, the menu and the announcement of the queue are all   *)
(* "playing".                                                               *)
Start ==
    /\ row.status = "none"
    /\ row' = [NoCall EXCEPT !.status = "RINGING"]
    /\ customer' = "ringing" /\ media' = "quiet"
    /\ session' = {} /\ busy' = TRUE /\ due' = {}
    /\ Goto("start", "mark")
    /\ UNCHANGED <<people, restarts>>

StartMark ==
    /\ At("start", "mark")
    /\ SaveIvr([NoCall EXCEPT !.phase = "MENU"])
    /\ Goto("start", "preAccept")
    /\ UNCHANGED <<customer, media, session, busy, due, people, restarts>>

\* Meta may do what it was asked and the answer be lost.
PreAccept ==
    /\ At("start", "preAccept")
    /\ \/ /\ customer = "ringing" /\ customer' = "preAccepted"
          /\ \/ thread' = [thread EXCEPT !["start"].at = "ice", !["start"].meta = "preAccepted"]
             \/ Goto("start", "failed")
       \/ Goto("start", "failed") /\ UNCHANGED customer
    /\ UNCHANGED <<row, media, session, busy, due, people, restarts>>

\* finish and the finally of start: the handler ends.
Leave(t) ==
    /\ session' = None /\ due' = {} /\ Stop(t)
    /\ busy' = IF t = "recover" THEN busy ELSE FALSE

\* The row after the wait for ICE, and again after the accept.
CheckLatest ==
    /\ thread["start"].at \in {"ice", "afterAccept"}
    /\ \/ row.status \in Terminal /\ Leave("start")
       \/ /\ row.status \notin Terminal
          /\ Goto("start", IF At("start", "ice") THEN "accept" ELSE "silence")
          /\ UNCHANGED <<session, busy, due>>
       \/ At("start", "ice") /\ Goto("start", "failed") /\ UNCHANGED <<session, busy, due>>
    /\ UNCHANGED <<row, customer, media, people, restarts>>

(* Mutant: the error of the accept is swallowed. *)
AcceptAnyway ==
    /\ At("start", "accept")
    /\ \/ customer = "preAccepted" /\ customer' = "accepted"
       \/ UNCHANGED customer
    /\ thread' = [thread EXCEPT !["start"].at = "afterAccept", !["start"].meta = "accepted"]
    /\ UNCHANGED <<row, media, session, busy, due, people, restarts>>

Accept ==
    /\ At("start", "accept")
    /\ \/ /\ customer = "preAccepted" /\ customer' = "accepted"
          /\ \/ thread' = [thread EXCEPT !["start"].at = "afterAccept", !["start"].meta = "accepted"]
             \/ Goto("start", "failed")
       \/ Goto("start", "failed") /\ UNCHANGED customer
    /\ UNCHANGED <<row, media, session, busy, due, people, restarts>>

\* Silence after the accept and the menu when the audio of Meta is connected.
StartPlay ==
    /\ thread["start"].at \in {"silence", "menu"}
    /\ \/ /\ PlayIvr
          /\ IF At("start", "silence")
             THEN Goto("start", "audio") /\ UNCHANGED busy
             ELSE Stop("start") /\ busy' = FALSE
       \/ Goto("start", "failed") /\ UNCHANGED <<media, busy>>
    /\ UNCHANGED <<row, customer, session, due, people, restarts>>

UpdateUnclaimed ==
    /\ At("start", "audio")
    /\ \/ /\ Waiting(row)
          /\ row' = [NoCall EXCEPT !.status = "ACTIVE", !.phase = "MENU", !.accepted = TRUE]
          /\ due' = due \ {"menu", "queue"}
          /\ Goto("start", "menu") /\ UNCHANGED <<session, busy>>
       \/ ~Waiting(row) /\ Leave("start") /\ UNCHANGED row
       \/ Goto("start", "failed") /\ UNCHANGED <<row, session, busy, due>>
    /\ UNCHANGED <<customer, media, people, restarts>>

\* The catch of start: what was opened is closed, and then the row says so.
StartFailed ==
    /\ At("start", "failed")
    /\ IF row.status \in Terminal
       THEN Leave("start") /\ UNCHANGED <<customer, media>>
       ELSE /\ IF thread["start"].meta = "none" THEN UNCHANGED customer
               ELSE EndAtMeta(thread["start"].meta = "accepted")
            /\ CloseMedia /\ Goto("start", "failRow") /\ UNCHANGED <<session, busy, due>>
    /\ UNCHANGED <<row, people, restarts>>

FailRow ==
    /\ At("start", "failRow") /\ Leave("start")
    /\ row' = [row EXCEPT !.status = "FAILED"]
    /\ UNCHANGED <<customer, media, people, restarts>>

-----------------------------------------------------------------------------
(* tick: every 500 ms, unless start or another tick has the call, with the  *)
(* row that is read first.                                                  *)
TickStart ==
    /\ session # None /\ ~busy /\ At("tick", "idle")
    /\ busy' = TRUE /\ Hold("tick", "check", row)
    /\ UNCHANGED <<row, customer, media, session, due, people, restarts>>

(* Mutant: tick stops for a call that is over, but keeps its session. *)
TickCheckOnly ==
    LET call == thread["tick"].call IN
    /\ At("tick", "check")
    /\ \/ /\ ~Waiting(call) \/ claimed # None
          /\ Stop("tick") /\ busy' = FALSE
       \/ /\ Waiting(call) /\ claimed = None
          /\ IF "queue" \in due THEN Hold("tick", "close", [NoCall EXCEPT !.accepted = call.accepted])
             ELSE Goto("tick", IF call.phase = "MENU" THEN "digits" ELSE "queue")
          /\ UNCHANGED busy
    /\ UNCHANGED <<row, customer, media, session, due, people, restarts>>

\* A call that is over, or has its agent, leaves the queue; one that a browser
\* has claimed is left alone, before any time limit is looked at.
TickCheck ==
    LET call == thread["tick"].call IN
    /\ At("tick", "check")
    /\ \/ ~Waiting(call) /\ Leave("tick")
       \/ Waiting(call) /\ claimed # None /\ Stop("tick") /\ busy' = FALSE /\ UNCHANGED <<session, due>>
       \/ /\ Waiting(call) /\ claimed = None
          /\ IF "queue" \in due THEN Hold("tick", "close", [NoCall EXCEPT !.accepted = call.accepted])
             ELSE Goto("tick", IF call.phase = "MENU" THEN "digits" ELSE "queue")
          /\ UNCHANGED <<session, busy, due>>
    /\ UNCHANGED <<row, customer, media, people, restarts>>

\* The digits the customer pressed: 9 plays the menu again, as often as it is
\* there, and the first option ends the loop; or the menu is over.
TickDigits ==
    /\ At("tick", "digits")
    /\ \/ /\ customer = "accepted"
          /\ \/ PlayIvr /\ due' = due \ {"menu", "noMenu"}
             \/ UNCHANGED <<media, due>>
          /\ \E o \in Options :
                thread' = [thread EXCEPT !["tick"].at = "route", !["tick"].option = o]
          /\ UNCHANGED busy
       \/ /\ customer = "accepted" /\ PlayIvr /\ due' = due \ {"menu", "noMenu"}
          /\ Stop("tick") /\ busy' = FALSE
       \/ "menu" \in due /\ Goto("tick", "route") /\ UNCHANGED <<media, busy, due>>
       \/ Stop("tick") /\ busy' = FALSE /\ UNCHANGED <<media, due>>
    /\ UNCHANGED <<row, customer, session, people, restarts>>

(* Mutant: a queue without an option is not everybody's. *)
RouteToSector(t) ==
    LET state == [thread[t].call EXCEPT !.phase = "QUEUE", !.option = thread[t].option,
                                        !.fallback = FALSE, !.declined = {}]
    IN
    /\ At(t, "route") /\ SaveIvr(state)
    /\ Hold(t, "play", IF t = "tick" THEN row' ELSE thread[t].call)
    /\ due' = due \ {"menu", "noMenu", "sector"}
    /\ UNCHANGED <<customer, media, session, busy, people, restarts>>

\* route: without an option the queue is everybody's.
RouteUpdate(t) ==
    LET o == thread[t].option
        state == [thread[t].call EXCEPT !.phase = "QUEUE", !.option = o,
                                        !.fallback = (o = None), !.declined = {}]
    IN
    /\ At(t, "route") /\ SaveIvr(state)
    /\ Hold(t, "play", IF t = "tick" THEN row' ELSE thread[t].call)
    /\ due' = due \ {"menu", "noMenu", "sector"}
    /\ UNCHANGED <<customer, media, session, busy, people, restarts>>

RoutePlay(t) ==
    /\ At(t, "play")
    /\ \/ /\ PlayIvr
          /\ IF t = "tick" THEN Goto(t, "queue") ELSE Stop(t)
          /\ UNCHANGED busy
       \/ /\ t = "tick" /\ Stop(t) /\ busy' = FALSE /\ UNCHANGED media
       \/ /\ t = "recover" /\ Goto(t, "close") /\ UNCHANGED <<media, busy>>
    /\ UNCHANGED <<row, customer, session, due, people, restarts>>

\* The sector does not answer, or nobody of it is there: everybody may.
Widen ==
    LET call == thread["tick"].call IN
    /\ At("tick", "queue")
    /\ call.phase = "QUEUE" /\ ~call.fallback
    /\ "sector" \in due \/ AllowedIds(call) = {}
    /\ SaveIvr([call EXCEPT !.fallback = TRUE])
    /\ Hold("tick", "queue", row')
    /\ UNCHANGED <<customer, media, session, busy, due, people, restarts>>

Notify ==
    LET call == thread["tick"].call
        ids == IF Waiting(call) THEN AllowedIds(call) ELSE {}
    IN
    /\ At("tick", "queue")
    /\ call.phase = "QUEUE" => call.fallback \/ ("sector" \notin due /\ ids # {})
    /\ session' = IF session = None THEN None ELSE session \cup ids
    /\ Stop("tick") /\ busy' = FALSE
    /\ UNCHANGED <<row, customer, media, due, people, restarts>>

\* close, and what it writes whatever happened to the call meanwhile.
Close(t) ==
    /\ At(t, "close")
    /\ EndAtMeta(thread[t].call.accepted) /\ CloseMedia
    /\ Goto(t, "closeRow")
    /\ UNCHANGED <<row, session, busy, due, people, restarts>>

CloseRow(t) ==
    /\ At(t, "closeRow") /\ Leave(t)
    /\ row' = [row EXCEPT !.status = "ENDED"]
    /\ UNCHANGED <<customer, media, people, restarts>>

-----------------------------------------------------------------------------
\* startWorker after a restart: findMany reads the calls that wait; of their state,
\* only this is used.
FindWaiting ==
    /\ At("recover", "find")
    /\ IF Waiting(row)
       THEN Hold("recover", "found",
                 [NoCall EXCEPT !.phase = row.phase, !.accepted = row.accepted])
       ELSE Stop("recover")
    /\ UNCHANGED <<row, customer, media, session, busy, due, people, restarts>>

(* Mutant: a call that was not accepted is recovered like any other. *)
RecoverAll ==
    LET call == thread["recover"].call IN
    /\ At("recover", "found")
    /\ IF call.phase \in {"MENU", "QUEUE"}
       THEN /\ session' = {} /\ due' = IF call.phase = "MENU" THEN {"noMenu"} ELSE {}
            /\ Goto("recover", "route")
       ELSE Stop("recover") /\ UNCHANGED <<session, due>>
    /\ UNCHANGED <<row, customer, media, busy, people, restarts>>

(* Mutant: only the calls in the menu are recovered. *)
RecoverMenu ==
    LET call == thread["recover"].call IN
    /\ At("recover", "found")
    /\ IF call.phase = "MENU"
       THEN /\ session' = {} /\ due' = {"noMenu"}
            /\ Goto("recover", IF call.accepted THEN "route" ELSE "close")
       ELSE Stop("recover") /\ UNCHANGED <<session, due>>
    /\ UNCHANGED <<row, customer, media, busy, people, restarts>>

(* Its answer: a call that the IVR had is recovered, as it was read: into   *)
(* the queue of everybody, or ended if it was not accepted.                 *)
Recover ==
    LET call == thread["recover"].call IN
    /\ At("recover", "found")
    /\ IF call.phase \in {"MENU", "QUEUE"}
       THEN /\ session' = {} /\ due' = IF call.phase = "MENU" THEN {"noMenu"} ELSE {}
            /\ Goto("recover", IF call.accepted THEN "route" ELSE "close")
       ELSE Stop("recover") /\ UNCHANGED <<session, due>>
    /\ UNCHANGED <<row, customer, media, busy, people, restarts>>
=============================================================================
