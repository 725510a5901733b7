------------------------------ MODULE IvrProofs ------------------------------
(***************************************************************************)
(* Proofs about the queue of the IVR, for any agents, sectors and number   *)
(* of restarts: IvrInv is inductive, and the properties follow from it.    *)
(***************************************************************************)
EXTENDS IvrProps, TLAPS

-----------------------------------------------------------------------------
(* What the operators the actions are built from do to the handlers, the    *)
(* requests and the row.                                                    *)
LEMMA Records ==
    /\ NoCall \in Call /\ Routed(NoCall)
    /\ NoCall.status = "none" /\ NoCall.phase = "none" /\ ~NoCall.accepted
    /\ NoCall.agent = None
    /\ Idle.at = "idle" /\ Idle.call = NoCall /\ Idle.option = None /\ Idle.meta = "none"
    /\ NoRequest.at = "idle" /\ NoRequest.call = NoCall
  BY DEF NoCall, Call, Idle, NoRequest, Routed

LEMMA FieldsOfCall ==
    ASSUME NEW call \in Call
    PROVE  /\ call.status \in {"none", "RINGING", "ACTIVE", "ENDED", "FAILED"}
           /\ call.agent \in Agents \cup {None}
           /\ call.phase \in {"none", "MENU", "QUEUE", "AGENT"}
           /\ call.accepted \in BOOLEAN /\ call.fallback \in BOOLEAN
           /\ call.option \in Options \cup {None} /\ call.declined \in SUBSET Agents
  BY DEF Call

LEMMA FieldsOfHandlers ==
    ASSUME HandlersInv
    PROVE  /\ \A t \in Names : /\ thread[t].at \in Points /\ thread[t].call \in Call
                               /\ thread[t].option \in Options \cup {None}
                               /\ thread[t].meta \in {"none", "preAccepted", "accepted"}
           /\ \A a \in Agents : /\ req[a].call \in Call
                                /\ req[a].at \in {"idle", "claim", "decline", "agentReady",
                                                  "metaReady", "answer", "end"}
  BY DEF HandlersInv, Handlers, AgentRequests

LEMMA GotoMoves ==
    ASSUME HandlersInv, NEW t \in Names, NEW s \in Points, Goto(t, s)
    PROVE  /\ thread' \in Handlers
           /\ thread'[t].at = s /\ thread'[t].call = thread[t].call
           /\ thread'[t].option = thread[t].option
           /\ \A u \in Names \ {t} : thread'[u] = thread[u]
  BY DEF HandlersInv, Handlers, Goto

LEMMA HoldMoves ==
    ASSUME HandlersInv, NEW t \in Names, NEW s \in Points, NEW call \in Call, Hold(t, s, call)
    PROVE  /\ thread' \in Handlers
           /\ thread'[t].at = s /\ thread'[t].call = call
           /\ thread'[t].option = thread[t].option
           /\ \A u \in Names \ {t} : thread'[u] = thread[u]
  BY DEF HandlersInv, Handlers, Hold

LEMMA StopMoves ==
    ASSUME HandlersInv, NEW t \in Names, Stop(t)
    PROVE  /\ thread' \in Handlers /\ thread'[t] = Idle
           /\ \A u \in Names \ {t} : thread'[u] = thread[u]
  <1>1. Idle \in [at : Points, call : Call, option : Options \cup {None},
                  meta : {"none", "preAccepted", "accepted"}]
    BY Records DEF Idle, Points
  <1> QED
    BY <1>1 DEF HandlersInv, Handlers, Stop

LEMMA AnsweredMoves ==
    ASSUME HandlersInv, NEW a \in Agents, Answered(a)
    PROVE  /\ req' \in AgentRequests /\ req'[a] = NoRequest
           /\ \A b \in Agents \ {a} : req'[b] = req[b]
  <1>1. NoRequest \in [at : {"idle", "claim", "decline", "agentReady", "metaReady",
                             "answer", "end"}, call : Call]
    BY Records DEF NoRequest
  <1> QED
    BY <1>1 DEF HandlersInv, AgentRequests, Answered

LEMMA SaveIvrWrites ==
    ASSUME row \in Call, NEW call \in Call, SaveIvr(call)
    PROVE  /\ row' \in Call /\ row'.status = row.status /\ row'.agent = row.agent
           /\ row'.phase = call.phase /\ row'.accepted = call.accepted
           /\ row'.option = call.option /\ row'.fallback = call.fallback
  BY DEF Call, SaveIvr

LEMMA StatusWrites ==
    ASSUME row \in Call, NEW s \in {"ENDED", "FAILED"}, row' = [row EXCEPT !.status = s]
    PROVE  /\ row' \in Call /\ row'.status = s /\ row'.agent = row.agent
           /\ row'.phase = row.phase /\ row'.accepted = row.accepted
           /\ row'.option = row.option /\ row'.fallback = row.fallback
  BY DEF Call

(* The states of the IVR that are written.                                  *)
LEMMA MenuState ==
    LET state == [NoCall EXCEPT !.status = "ACTIVE", !.phase = "MENU", !.accepted = TRUE]
    IN  state \in Call /\ state.phase = "MENU"
  BY DEF NoCall, Call

LEMMA QueueState ==
    ASSUME NEW call \in Call, NEW o \in Options \cup {None}
    PROVE  LET state == [call EXCEPT !.phase = "QUEUE", !.option = o,
                                     !.fallback = (o = None), !.declined = {}]
           IN  /\ state \in Call /\ state.phase = "QUEUE" /\ Routed(state)
               /\ state.option = o /\ state.accepted = call.accepted
  <1>1. CASE o = None
    <2>1. (o = None) = TRUE
      BY <1>1
    <2> QED
      BY <2>1 DEF Call, Routed
  <1>2. CASE o # None
    <2>1. (o = None) = FALSE
      BY <1>2
    <2> QED
      BY <1>2, <2>1 DEF Call, Routed
  <1> QED
    BY <1>1, <1>2

LEMMA WideState ==
    ASSUME NEW call \in Call
    PROVE  LET state == [call EXCEPT !.fallback = TRUE]
           IN  /\ state \in Call /\ state.phase = call.phase /\ Routed(state)
               /\ state.option = call.option /\ state.accepted = call.accepted
  BY DEF Call, Routed

LEMMA DeclinedState ==
    ASSUME NEW call \in Call, NEW a \in Agents
    PROVE  LET state == [call EXCEPT !.declined = @ \cup {a}]
           IN  /\ state \in Call /\ state.phase = call.phase /\ state.accepted = call.accepted
               /\ state.option = call.option /\ state.fallback = call.fallback
  BY DEF Call

LEMMA AgentState ==
    ASSUME NEW call \in Call, NEW a \in Agents
    PROVE  LET state == [call EXCEPT !.status = "ACTIVE", !.agent = a, !.phase = "AGENT"]
           IN  /\ state \in Call /\ state.phase = "AGENT" /\ state.agent = a
               /\ state.status = "ACTIVE"
  BY DEF Call

(* Steps that write such a state, and the digit the tick has read.          *)
LEMMA DeclineTyped ==
    ASSUME IvrInv, NEW a \in Agents, Decline(a),
           SaveIvr([req[a].call EXCEPT !.declined = @ \cup {a}])
    PROVE  TypeInv'
  <1>1. req[a].call \in Call /\ Routed(req[a].call) /\ row \in Call
    BY FieldsOfHandlers DEF IvrInv, CopiesInv, TypeInv
  <1>2. PICK state \in Call : /\ SaveIvr(state) /\ state.phase = req[a].call.phase
                              /\ state.option = req[a].call.option
                              /\ state.fallback = req[a].call.fallback
    BY <1>1, DeclinedState
  <1>3. row' \in Call /\ Routed(row')
    BY <1>1, <1>2, SaveIvrWrites DEF Routed
  <1> QED
    BY <1>3 DEF IvrInv, TypeInv, Routed, Decline, api

LEMMA RouteUpdateRow ==
    ASSUME IvrInv, NEW t \in {"tick", "recover"}, RouteUpdate(t)
    PROVE  TypeInv' /\ CopiesInv'
  <1>1. /\ t \in Names /\ thread[t].call \in Call /\ thread[t].option \in Options \cup {None}
        /\ row \in Call /\ "play" \in Points
    BY FieldsOfHandlers DEF IvrInv, Names, Points, TypeInv
  <1>2. PICK state \in Call :
            /\ SaveIvr(state) /\ state.phase = "QUEUE" /\ Routed(state)
            /\ state.accepted = thread[t].call.accepted
    <2> DEFINE state == [thread[t].call EXCEPT !.phase = "QUEUE", !.option = thread[t].option,
                            !.fallback = (thread[t].option = None), !.declined = {}]
    <2>1. /\ state \in Call /\ state.phase = "QUEUE" /\ Routed(state)
          /\ state.accepted = thread[t].call.accepted
      BY <1>1, QueueState, ZenonT(40)
    <2>2. SaveIvr(state)
      BY Zenon DEF RouteUpdate
    <2> QED
      BY <2>1, <2>2
  <1>3. /\ row' \in Call /\ Routed(row') /\ row'.agent = row.agent /\ row'.phase = "QUEUE"
    BY <1>1, <1>2, SaveIvrWrites DEF Routed
  <1>4. TypeInv'
    BY <1>3 DEF IvrInv, TypeInv, Routed, RouteUpdate, people
  <1>5. Accepted /\ Accepted'
    BY DEF IvrInv, AcceptInv, RouteUpdate, At, Accepted
  <1>6. /\ thread'[t].call \in {row', thread[t].call}
        /\ t = "tick" => thread'[t].call = row'
        /\ \A u \in Names \ {t} : thread'[u] = thread[u]
    <2>1. CASE t = "tick"
      BY <1>1, <1>3, <2>1, HoldMoves DEF IvrInv, RouteUpdate
    <2>2. CASE t = "recover"
      BY <1>1, <1>3, <2>2, HoldMoves DEF IvrInv, RouteUpdate
    <2> QED
      BY <2>1, <2>2
  <1>7. CopiesInv'
    BY <1>1, <1>3, <1>5, <1>6 DEF IvrInv, CopiesInv, Sound, Routed, Accepted, RouteUpdate, people, Names
  <1> QED
    BY <1>4, <1>7

LEMMA TickDigitsTurns ==
    ASSUME IvrInv, TickDigits PROVE HandlersInv' /\ HandlersTakeTurns'
  <1>1. "tick" \in Names /\ "start" \in Names /\ "route" \in Points
    BY DEF Names, Points
  <1>2. ASSUME NEW o \in Options,
               thread' = [thread EXCEPT !["tick"].at = "route", !["tick"].option = o],
               UNCHANGED busy
        PROVE  HandlersInv' /\ HandlersTakeTurns'
    <2>1. thread' \in Handlers
      BY <1>1, <1>2 DEF IvrInv, HandlersInv, Handlers
    <2>2. thread'["tick"].at = "route" /\ thread'["start"] = thread["start"]
      BY <1>1, <1>2 DEF IvrInv, HandlersInv, Handlers
    <2> QED
      BY <1>2, <2>1, <2>2 DEF IvrInv, HandlersInv, HandlersTakeTurns, TickDigits, At, people
  <1>3. CASE Stop("tick") /\ busy' = FALSE
    BY <1>1, <1>3, StopMoves, Records DEF IvrInv, HandlersInv, HandlersTakeTurns, TickDigits, At, people
  <1>4. CASE Goto("tick", "route") /\ UNCHANGED busy
    BY <1>1, <1>4, GotoMoves DEF IvrInv, HandlersInv, HandlersTakeTurns, TickDigits, At, people
  <1> QED
    BY <1>2, <1>3, <1>4 DEF TickDigits

-----------------------------------------------------------------------------
(* Every step preserves the invariant.                                      *)

LEMMA StartStep ==
    ASSUME IvrInv, Start PROVE IvrInv'
  <1>1. TypeInv'
    BY IvrAssumption DEF IvrInv, TypeInv, HandlersInv, Handlers, AgentRequests, Names, CopiesInv, AcceptInv, Call, Points, Routed, NoCall, Idle, At, NoRequest, Waiting, Terminal, Start, Goto, api, people
  <1>2. HandlersInv'
    BY IvrAssumption DEF IvrInv, TypeInv, HandlersInv, Handlers, AgentRequests, Names, Call, Points, NoCall, Idle, At, NoRequest, Waiting, Terminal, Start, Goto, api, people
  <1>3. FreshInv'
    BY DEF IvrInv, FreshInv, At, Start, api, people
  <1>4. CopiesInv'
    BY IvrAssumption DEF IvrInv, CopiesInv, HandlersInv, Handlers, AgentRequests, Names, TypeInv, AcceptInv, ActivationInv, Call, Points, Sound, Routed, Accepted, FreshInv, NoCall, Idle, At, NoRequest, Waiting, Terminal, Start, Goto, api, people
  <1>5. AcceptInv'
    BY IvrAssumption DEF IvrInv, AcceptInv, CopiesInv, HandlersInv, Handlers, AgentRequests, Names, HandlersTakeTurns, FreshInv, Sound, Accepted, TypeInv, Points, NoCall, Idle, At, NoRequest, Waiting, Terminal, Start, Goto, api, people
  <1>6. ActivationInv'
    BY IvrAssumption DEF IvrInv, ActivationInv, HandlersInv, Handlers, AgentRequests, Names, FreshInv, Points, TypeInv, Call, NoCall, Idle, At, NoRequest, Waiting, Terminal, Start, Goto, api, people
  <1>7. HandlersTakeTurns'
    BY IvrAssumption DEF IvrInv, HandlersTakeTurns, HandlersInv, Handlers, AgentRequests, Names, FreshInv, Points, NoCall, Idle, At, NoRequest, Waiting, Terminal, Start, Goto, api, people
  <1>8. NoVoiceBeforeAccept'
    BY DEF IvrInv, NoVoiceBeforeAccept, Start, api, people
  <1> QED
    BY <1>1, <1>2, <1>3, <1>4, <1>5, <1>6, <1>7, <1>8 DEF IvrInv

LEMMA StartMarkStep ==
    ASSUME IvrInv, StartMark PROVE IvrInv'
  <1>1. TypeInv'
    BY IvrAssumption DEF IvrInv, TypeInv, HandlersInv, Handlers, AgentRequests, Names, CopiesInv, AcceptInv, Call, Points, Routed, NoCall, Idle, At, NoRequest, Waiting, Terminal, StartMark, Goto, SaveIvr, api, people
  <1>2. HandlersInv'
    BY IvrAssumption DEF IvrInv, TypeInv, HandlersInv, Handlers, AgentRequests, Names, Call, Points, NoCall, Idle, At, NoRequest, Waiting, Terminal, StartMark, Goto, SaveIvr, api, people
  <1>3. FreshInv'
    BY IvrAssumption DEF IvrInv, FreshInv, HandlersInv, Handlers, AgentRequests, Names, Points, NoCall, Idle, At, NoRequest, Waiting, Terminal, StartMark, Goto, SaveIvr, api, people
  <1>4. CopiesInv'
    BY IvrAssumption DEF IvrInv, CopiesInv, HandlersInv, Handlers, AgentRequests, Names, TypeInv, AcceptInv, ActivationInv, Call, Points, Sound, Routed, Accepted, FreshInv, NoCall, Idle, At, NoRequest, Waiting, Terminal, StartMark, Goto, SaveIvr, api, people
  <1>5. AcceptInv'
    BY IvrAssumption DEF IvrInv, AcceptInv, CopiesInv, HandlersInv, Handlers, AgentRequests, Names, HandlersTakeTurns, FreshInv, Sound, Accepted, TypeInv, Points, NoCall, Idle, At, NoRequest, Waiting, Terminal, StartMark, Goto, SaveIvr, api, people
  <1>6. ActivationInv'
    BY IvrAssumption DEF IvrInv, ActivationInv, HandlersInv, Handlers, AgentRequests, Names, FreshInv, Points, TypeInv, Call, NoCall, Idle, At, NoRequest, Waiting, Terminal, StartMark, Goto, SaveIvr, api, people
  <1>7. HandlersTakeTurns'
    BY IvrAssumption DEF IvrInv, HandlersTakeTurns, HandlersInv, Handlers, AgentRequests, Names, FreshInv, Points, NoCall, Idle, At, NoRequest, Waiting, Terminal, StartMark, Goto, SaveIvr, api, people
  <1>8. NoVoiceBeforeAccept'
    BY DEF IvrInv, NoVoiceBeforeAccept, StartMark, api, people
  <1> QED
    BY <1>1, <1>2, <1>3, <1>4, <1>5, <1>6, <1>7, <1>8 DEF IvrInv

LEMMA PreAcceptStep ==
    ASSUME IvrInv, PreAccept PROVE IvrInv'
  <1>1. TypeInv'
    BY DEF IvrInv, TypeInv, PreAccept, api, people
  <1>2. HandlersInv'
    BY IvrAssumption DEF IvrInv, TypeInv, HandlersInv, Handlers, AgentRequests, Names, Call, Points, NoCall, Idle, At, NoRequest, Waiting, Terminal, PreAccept, Goto, api, people
  <1>3. FreshInv'
    BY DEF IvrInv, FreshInv, At, PreAccept, api, people
  <1>4. CopiesInv'
    BY IvrAssumption DEF IvrInv, CopiesInv, HandlersInv, Handlers, AgentRequests, Names, TypeInv, AcceptInv, ActivationInv, Call, Points, Sound, Routed, Accepted, FreshInv, NoCall, Idle, At, NoRequest, Waiting, Terminal, PreAccept, Goto, api, people
  <1>5. AcceptInv'
    BY IvrAssumption DEF IvrInv, AcceptInv, CopiesInv, HandlersInv, Handlers, AgentRequests, Names, HandlersTakeTurns, FreshInv, Sound, Accepted, TypeInv, Points, NoCall, Idle, At, NoRequest, Waiting, Terminal, PreAccept, Goto, api, people
  <1>6. ActivationInv'
    BY DEF IvrInv, ActivationInv, PreAccept, api, people
  <1>7. HandlersTakeTurns'
    BY IvrAssumption DEF IvrInv, HandlersTakeTurns, HandlersInv, Handlers, AgentRequests, Names, FreshInv, Points, NoCall, Idle, At, NoRequest, Waiting, Terminal, PreAccept, Goto, api, people
  <1>8. NoVoiceBeforeAccept'
    BY DEF IvrInv, NoVoiceBeforeAccept, PreAccept, api, people
  <1> QED
    BY <1>1, <1>2, <1>3, <1>4, <1>5, <1>6, <1>7, <1>8 DEF IvrInv

LEMMA CheckLatestStep ==
    ASSUME IvrInv, CheckLatest PROVE IvrInv'
  <1>1. TypeInv'
    BY DEF IvrInv, TypeInv, CheckLatest, Leave, api, people
  <1>2. HandlersInv'
    <2>1. CASE Leave("start")
      BY <2>1, IvrAssumption, Records, FieldsOfCall, FieldsOfHandlers, GotoMoves, StopMoves
        DEF IvrInv, HandlersInv, TypeInv, At, Names, Points, Waiting, Terminal, CheckLatest, Leave, api, people
    <2>2. CASE Goto("start", "failed") /\ UNCHANGED <<session, busy, due>>
      BY <2>2, IvrAssumption, Records, FieldsOfCall, FieldsOfHandlers, GotoMoves, StopMoves
        DEF IvrInv, HandlersInv, TypeInv, At, Names, Points, Waiting, Terminal, CheckLatest, Leave, api, people
    <2>3. CASE At("start", "ice") /\ Goto("start", "accept") /\ UNCHANGED <<session, busy, due>>
      BY <2>3, IvrAssumption, Records, FieldsOfCall, FieldsOfHandlers, GotoMoves, StopMoves
        DEF IvrInv, HandlersInv, TypeInv, At, Names, Points, Waiting, Terminal, CheckLatest, Leave, api, people
    <2>4. CASE At("start", "afterAccept") /\ Goto("start", "silence") /\ UNCHANGED <<session, busy, due>>
      BY <2>4, IvrAssumption, Records, FieldsOfCall, FieldsOfHandlers, GotoMoves, StopMoves
        DEF IvrInv, HandlersInv, TypeInv, At, Names, Points, Waiting, Terminal, CheckLatest, Leave, api, people
    <2> QED
      BY <2>1, <2>2, <2>3, <2>4 DEF CheckLatest, At, EndAtMeta, Names
  <1>3. FreshInv'
    BY DEF IvrInv, FreshInv, At, CheckLatest, Leave, api, people
  <1>4. CopiesInv'
    <2>1. CASE Leave("start")
      BY <2>1, IvrAssumption, Records, FieldsOfCall, FieldsOfHandlers, GotoMoves, StopMoves
        DEF IvrInv, CopiesInv, TypeInv, AcceptInv, Sound, Routed, Accepted, At, Names, Points, Waiting, Terminal, CheckLatest, Leave, api, people
    <2>2. CASE Goto("start", "failed") /\ UNCHANGED <<session, busy, due>>
      BY <2>2, IvrAssumption, Records, FieldsOfCall, FieldsOfHandlers, GotoMoves, StopMoves
        DEF IvrInv, CopiesInv, TypeInv, AcceptInv, Sound, Routed, Accepted, At, Names, Points, Waiting, Terminal, CheckLatest, Leave, api, people
    <2>3. CASE At("start", "ice") /\ Goto("start", "accept") /\ UNCHANGED <<session, busy, due>>
      BY <2>3, IvrAssumption, Records, FieldsOfCall, FieldsOfHandlers, GotoMoves, StopMoves
        DEF IvrInv, CopiesInv, TypeInv, AcceptInv, Sound, Routed, Accepted, At, Names, Points, Waiting, Terminal, CheckLatest, Leave, api, people
    <2>4. CASE At("start", "afterAccept") /\ Goto("start", "silence") /\ UNCHANGED <<session, busy, due>>
      BY <2>4, IvrAssumption, Records, FieldsOfCall, FieldsOfHandlers, GotoMoves, StopMoves
        DEF IvrInv, CopiesInv, TypeInv, AcceptInv, Sound, Routed, Accepted, At, Names, Points, Waiting, Terminal, CheckLatest, Leave, api, people
    <2> QED
      BY <2>1, <2>2, <2>3, <2>4 DEF CheckLatest, At, EndAtMeta, Names
  <1>5. AcceptInv'
    <2>1. CASE Leave("start")
      BY <2>1, IvrAssumption, Records, FieldsOfCall, FieldsOfHandlers, GotoMoves, StopMoves
        DEF IvrInv, AcceptInv, CopiesInv, HandlersTakeTurns, FreshInv, Sound, Accepted, At, Names, Points, Waiting, Terminal, CheckLatest, Leave, api, people
    <2>2. CASE Goto("start", "failed") /\ UNCHANGED <<session, busy, due>>
      BY <2>2, IvrAssumption, Records, FieldsOfCall, FieldsOfHandlers, GotoMoves, StopMoves
        DEF IvrInv, AcceptInv, CopiesInv, HandlersTakeTurns, FreshInv, Sound, Accepted, At, Names, Points, Waiting, Terminal, CheckLatest, Leave, api, people
    <2>3. CASE At("start", "ice") /\ Goto("start", "accept") /\ UNCHANGED <<session, busy, due>>
      BY <2>3, IvrAssumption, Records, FieldsOfCall, FieldsOfHandlers, GotoMoves, StopMoves
        DEF IvrInv, AcceptInv, CopiesInv, HandlersTakeTurns, FreshInv, Sound, Accepted, At, Names, Points, Waiting, Terminal, CheckLatest, Leave, api, people
    <2>4. CASE At("start", "afterAccept") /\ Goto("start", "silence") /\ UNCHANGED <<session, busy, due>>
      BY <2>4, IvrAssumption, Records, FieldsOfCall, FieldsOfHandlers, GotoMoves, StopMoves
        DEF IvrInv, AcceptInv, CopiesInv, HandlersTakeTurns, FreshInv, Sound, Accepted, At, Names, Points, Waiting, Terminal, CheckLatest, Leave, api, people
    <2> QED
      BY <2>1, <2>2, <2>3, <2>4 DEF CheckLatest, At, EndAtMeta, Names
  <1>6. ActivationInv'
    BY DEF IvrInv, ActivationInv, CheckLatest, Leave, api, people
  <1>7. HandlersTakeTurns'
    <2>1. CASE Leave("start")
      BY <2>1, IvrAssumption, Records, FieldsOfCall, FieldsOfHandlers, GotoMoves, StopMoves
        DEF IvrInv, HandlersTakeTurns, FreshInv, At, Names, Points, Waiting, Terminal, CheckLatest, Leave, api, people
    <2>2. CASE Goto("start", "failed") /\ UNCHANGED <<session, busy, due>>
      BY <2>2, IvrAssumption, Records, FieldsOfCall, FieldsOfHandlers, GotoMoves, StopMoves
        DEF IvrInv, HandlersTakeTurns, FreshInv, At, Names, Points, Waiting, Terminal, CheckLatest, Leave, api, people
    <2>3. CASE At("start", "ice") /\ Goto("start", "accept") /\ UNCHANGED <<session, busy, due>>
      BY <2>3, IvrAssumption, Records, FieldsOfCall, FieldsOfHandlers, GotoMoves, StopMoves
        DEF IvrInv, HandlersTakeTurns, FreshInv, At, Names, Points, Waiting, Terminal, CheckLatest, Leave, api, people
    <2>4. CASE At("start", "afterAccept") /\ Goto("start", "silence") /\ UNCHANGED <<session, busy, due>>
      BY <2>4, IvrAssumption, Records, FieldsOfCall, FieldsOfHandlers, GotoMoves, StopMoves
        DEF IvrInv, HandlersTakeTurns, FreshInv, At, Names, Points, Waiting, Terminal, CheckLatest, Leave, api, people
    <2> QED
      BY <2>1, <2>2, <2>3, <2>4 DEF CheckLatest, At, EndAtMeta, Names
  <1>8. NoVoiceBeforeAccept'
    BY DEF IvrInv, NoVoiceBeforeAccept, CheckLatest, Leave, api, people
  <1> QED
    BY <1>1, <1>2, <1>3, <1>4, <1>5, <1>6, <1>7, <1>8 DEF IvrInv

LEMMA AcceptStep ==
    ASSUME IvrInv, Accept PROVE IvrInv'
  <1>1. TypeInv'
    BY DEF IvrInv, TypeInv, Accept, api, people
  <1>2. HandlersInv'
    BY IvrAssumption DEF IvrInv, TypeInv, HandlersInv, Handlers, AgentRequests, Names, Call, Points, NoCall, Idle, At, NoRequest, Waiting, Terminal, Accept, Goto, api, people
  <1>3. FreshInv'
    BY DEF IvrInv, FreshInv, At, Accept, api, people
  <1>4. CopiesInv'
    BY IvrAssumption DEF IvrInv, CopiesInv, HandlersInv, Handlers, AgentRequests, Names, TypeInv, AcceptInv, ActivationInv, Call, Points, Sound, Routed, Accepted, FreshInv, NoCall, Idle, At, NoRequest, Waiting, Terminal, Accept, Goto, api, people
  <1>5. AcceptInv'
    BY IvrAssumption DEF IvrInv, AcceptInv, CopiesInv, HandlersInv, Handlers, AgentRequests, Names, HandlersTakeTurns, FreshInv, Sound, Accepted, TypeInv, Points, NoCall, Idle, At, NoRequest, Waiting, Terminal, Accept, Goto, api, people
  <1>6. ActivationInv'
    BY DEF IvrInv, ActivationInv, Accept, api, people
  <1>7. HandlersTakeTurns'
    BY IvrAssumption DEF IvrInv, HandlersTakeTurns, HandlersInv, Handlers, AgentRequests, Names, FreshInv, Points, NoCall, Idle, At, NoRequest, Waiting, Terminal, Accept, Goto, api, people
  <1>8. NoVoiceBeforeAccept'
    BY DEF IvrInv, NoVoiceBeforeAccept, Accept, api, people
  <1> QED
    BY <1>1, <1>2, <1>3, <1>4, <1>5, <1>6, <1>7, <1>8 DEF IvrInv

LEMMA StartPlayStep ==
    ASSUME IvrInv, StartPlay PROVE IvrInv'
  <1>1. TypeInv'
    BY DEF IvrInv, TypeInv, StartPlay, PlayIvr, api, people
  <1>2. HandlersInv'
    <2>1. CASE PlayIvr /\ Goto("start", "audio") /\ At("start", "silence") /\ UNCHANGED busy
      BY <2>1, IvrAssumption, Records, FieldsOfCall, FieldsOfHandlers, GotoMoves, StopMoves
        DEF IvrInv, HandlersInv, TypeInv, At, Names, Points, Waiting, Terminal, StartPlay, PlayIvr, api, people
    <2>2. CASE PlayIvr /\ Stop("start") /\ At("start", "menu") /\ busy' = FALSE
      BY <2>2, IvrAssumption, Records, FieldsOfCall, FieldsOfHandlers, GotoMoves, StopMoves
        DEF IvrInv, HandlersInv, TypeInv, At, Names, Points, Waiting, Terminal, StartPlay, PlayIvr, api, people
    <2>3. CASE Goto("start", "failed") /\ UNCHANGED <<media, busy>>
      BY <2>3, IvrAssumption, Records, FieldsOfCall, FieldsOfHandlers, GotoMoves, StopMoves
        DEF IvrInv, HandlersInv, TypeInv, At, Names, Points, Waiting, Terminal, StartPlay, PlayIvr, api, people
    <2> QED
      BY <2>1, <2>2, <2>3 DEF StartPlay, At, EndAtMeta, Names
  <1>3. FreshInv'
    BY DEF IvrInv, FreshInv, At, StartPlay, PlayIvr, api, people
  <1>4. CopiesInv'
    <2>1. CASE PlayIvr /\ Goto("start", "audio") /\ At("start", "silence") /\ UNCHANGED busy
      BY <2>1, IvrAssumption, Records, FieldsOfCall, FieldsOfHandlers, GotoMoves, StopMoves
        DEF IvrInv, CopiesInv, TypeInv, AcceptInv, Sound, Routed, Accepted, At, Names, Points, Waiting, Terminal, StartPlay, PlayIvr, api, people
    <2>2. CASE PlayIvr /\ Stop("start") /\ At("start", "menu") /\ busy' = FALSE
      BY <2>2, IvrAssumption, Records, FieldsOfCall, FieldsOfHandlers, GotoMoves, StopMoves
        DEF IvrInv, CopiesInv, TypeInv, AcceptInv, Sound, Routed, Accepted, At, Names, Points, Waiting, Terminal, StartPlay, PlayIvr, api, people
    <2>3. CASE Goto("start", "failed") /\ UNCHANGED <<media, busy>>
      BY <2>3, IvrAssumption, Records, FieldsOfCall, FieldsOfHandlers, GotoMoves, StopMoves
        DEF IvrInv, CopiesInv, TypeInv, AcceptInv, Sound, Routed, Accepted, At, Names, Points, Waiting, Terminal, StartPlay, PlayIvr, api, people
    <2> QED
      BY <2>1, <2>2, <2>3 DEF StartPlay, At, EndAtMeta, Names
  <1>5. AcceptInv'
    BY DEF IvrInv, AcceptInv, At, Accepted, StartPlay, PlayIvr, api, people
  <1>6. ActivationInv'
    BY DEF IvrInv, ActivationInv, StartPlay, PlayIvr, api, people
  <1>7. HandlersTakeTurns'
    BY IvrAssumption DEF IvrInv, HandlersTakeTurns, HandlersInv, Handlers, AgentRequests, Names, FreshInv, Points, NoCall, Idle, At, NoRequest, Waiting, Terminal, StartPlay, Goto, Stop, PlayIvr, api, people
  <1>8. NoVoiceBeforeAccept'
    BY IvrAssumption DEF IvrInv, NoVoiceBeforeAccept, AcceptInv, FreshInv, Accepted, NoCall, Idle, At, NoRequest, Waiting, Terminal, StartPlay, Goto, Stop, PlayIvr, api, people
  <1> QED
    BY <1>1, <1>2, <1>3, <1>4, <1>5, <1>6, <1>7, <1>8 DEF IvrInv

LEMMA UpdateUnclaimedStep ==
    ASSUME IvrInv, UpdateUnclaimed PROVE IvrInv'
  <1>1. TypeInv'
    <2>1. CASE /\ Waiting(row)
             /\ row' = [NoCall EXCEPT !.status = "ACTIVE", !.phase = "MENU", !.accepted = TRUE]
             /\ due' = due \ {"menu", "queue"}
             /\ Goto("start", "menu") /\ UNCHANGED <<session, busy>>
      BY <2>1, MenuState DEF IvrInv, TypeInv, UpdateUnclaimed, people
    <2>2. CASE Leave("start") /\ UNCHANGED row
      BY <2>2, IvrAssumption, Records, FieldsOfCall, FieldsOfHandlers, GotoMoves, StopMoves
        DEF IvrInv, TypeInv, HandlersInv, CopiesInv, Routed, At, Names, Points, Waiting, Terminal, UpdateUnclaimed, Leave, api, people
    <2>3. CASE Goto("start", "failed") /\ UNCHANGED <<row, session, busy, due>>
      BY <2>3, IvrAssumption, Records, FieldsOfCall, FieldsOfHandlers, GotoMoves, StopMoves
        DEF IvrInv, TypeInv, HandlersInv, CopiesInv, Routed, At, Names, Points, Waiting, Terminal, UpdateUnclaimed, Leave, api, people
    <2> QED
      BY <2>1, <2>2, <2>3 DEF UpdateUnclaimed, At, EndAtMeta, Names
  <1>2. HandlersInv'
    <2>1. CASE /\ Waiting(row)
             /\ row' = [NoCall EXCEPT !.status = "ACTIVE", !.phase = "MENU", !.accepted = TRUE]
             /\ due' = due \ {"menu", "queue"}
             /\ Goto("start", "menu") /\ UNCHANGED <<session, busy>>
      BY <2>1, IvrAssumption, Records, FieldsOfCall, FieldsOfHandlers, GotoMoves, StopMoves
        DEF IvrInv, HandlersInv, TypeInv, At, Names, Points, Waiting, Terminal, UpdateUnclaimed, Leave, api, people
    <2>2. CASE Leave("start") /\ UNCHANGED row
      BY <2>2, IvrAssumption, Records, FieldsOfCall, FieldsOfHandlers, GotoMoves, StopMoves
        DEF IvrInv, HandlersInv, TypeInv, At, Names, Points, Waiting, Terminal, UpdateUnclaimed, Leave, api, people
    <2>3. CASE Goto("start", "failed") /\ UNCHANGED <<row, session, busy, due>>
      BY <2>3, IvrAssumption, Records, FieldsOfCall, FieldsOfHandlers, GotoMoves, StopMoves
        DEF IvrInv, HandlersInv, TypeInv, At, Names, Points, Waiting, Terminal, UpdateUnclaimed, Leave, api, people
    <2> QED
      BY <2>1, <2>2, <2>3 DEF UpdateUnclaimed, At, EndAtMeta, Names
  <1>3. FreshInv'
    BY IvrAssumption DEF IvrInv, FreshInv, HandlersInv, Handlers, AgentRequests, Names, Points, NoCall, Idle, At, NoRequest, Waiting, Terminal, UpdateUnclaimed, Goto, Leave, Stop, api, people
  <1>4. CopiesInv'
    <2>1. CASE /\ Waiting(row)
             /\ row' = [NoCall EXCEPT !.status = "ACTIVE", !.phase = "MENU", !.accepted = TRUE]
             /\ due' = due \ {"menu", "queue"}
             /\ Goto("start", "menu") /\ UNCHANGED <<session, busy>>
      BY <2>1, IvrAssumption, Records, FieldsOfCall, FieldsOfHandlers, GotoMoves, StopMoves
        DEF IvrInv, CopiesInv, TypeInv, AcceptInv, Sound, Routed, Accepted, At, Names, Points, Waiting, Terminal, UpdateUnclaimed, Leave, api, people
    <2>2. CASE Leave("start") /\ UNCHANGED row
      BY <2>2, IvrAssumption, Records, FieldsOfCall, FieldsOfHandlers, GotoMoves, StopMoves
        DEF IvrInv, CopiesInv, TypeInv, AcceptInv, Sound, Routed, Accepted, At, Names, Points, Waiting, Terminal, UpdateUnclaimed, Leave, api, people
    <2>3. CASE Goto("start", "failed") /\ UNCHANGED <<row, session, busy, due>>
      BY <2>3, IvrAssumption, Records, FieldsOfCall, FieldsOfHandlers, GotoMoves, StopMoves
        DEF IvrInv, CopiesInv, TypeInv, AcceptInv, Sound, Routed, Accepted, At, Names, Points, Waiting, Terminal, UpdateUnclaimed, Leave, api, people
    <2> QED
      BY <2>1, <2>2, <2>3 DEF UpdateUnclaimed, At, EndAtMeta, Names
  <1>5. AcceptInv'
    BY DEF IvrInv, AcceptInv, At, Accepted, UpdateUnclaimed, Leave, api, people
  <1>6. ActivationInv'
    <2>1. CASE /\ Waiting(row)
             /\ row' = [NoCall EXCEPT !.status = "ACTIVE", !.phase = "MENU", !.accepted = TRUE]
             /\ due' = due \ {"menu", "queue"}
             /\ Goto("start", "menu") /\ UNCHANGED <<session, busy>>
      BY <2>1, IvrAssumption, Records, FieldsOfCall, FieldsOfHandlers, GotoMoves, StopMoves
        DEF IvrInv, ActivationInv, FreshInv, TypeInv, At, Names, Points, Waiting, Terminal, UpdateUnclaimed, Leave, api, people
    <2>2. CASE Leave("start") /\ UNCHANGED row
      BY <2>2, IvrAssumption, Records, FieldsOfCall, FieldsOfHandlers, GotoMoves, StopMoves
        DEF IvrInv, ActivationInv, FreshInv, TypeInv, At, Names, Points, Waiting, Terminal, UpdateUnclaimed, Leave, api, people
    <2>3. CASE Goto("start", "failed") /\ UNCHANGED <<row, session, busy, due>>
      BY <2>3, IvrAssumption, Records, FieldsOfCall, FieldsOfHandlers, GotoMoves, StopMoves
        DEF IvrInv, ActivationInv, FreshInv, TypeInv, At, Names, Points, Waiting, Terminal, UpdateUnclaimed, Leave, api, people
    <2> QED
      BY <2>1, <2>2, <2>3 DEF UpdateUnclaimed, At, EndAtMeta, Names
  <1>7. HandlersTakeTurns'
    <2>1. CASE /\ Waiting(row)
             /\ row' = [NoCall EXCEPT !.status = "ACTIVE", !.phase = "MENU", !.accepted = TRUE]
             /\ due' = due \ {"menu", "queue"}
             /\ Goto("start", "menu") /\ UNCHANGED <<session, busy>>
      BY <2>1, IvrAssumption, Records, FieldsOfCall, FieldsOfHandlers, GotoMoves, StopMoves
        DEF IvrInv, HandlersTakeTurns, FreshInv, At, Names, Points, Waiting, Terminal, UpdateUnclaimed, Leave, api, people
    <2>2. CASE Leave("start") /\ UNCHANGED row
      BY <2>2, IvrAssumption, Records, FieldsOfCall, FieldsOfHandlers, GotoMoves, StopMoves
        DEF IvrInv, HandlersTakeTurns, FreshInv, At, Names, Points, Waiting, Terminal, UpdateUnclaimed, Leave, api, people
    <2>3. CASE Goto("start", "failed") /\ UNCHANGED <<row, session, busy, due>>
      BY <2>3, IvrAssumption, Records, FieldsOfCall, FieldsOfHandlers, GotoMoves, StopMoves
        DEF IvrInv, HandlersTakeTurns, FreshInv, At, Names, Points, Waiting, Terminal, UpdateUnclaimed, Leave, api, people
    <2> QED
      BY <2>1, <2>2, <2>3 DEF UpdateUnclaimed, At, EndAtMeta, Names
  <1>8. NoVoiceBeforeAccept'
    BY DEF IvrInv, NoVoiceBeforeAccept, UpdateUnclaimed, Leave, api, people
  <1> QED
    BY <1>1, <1>2, <1>3, <1>4, <1>5, <1>6, <1>7, <1>8 DEF IvrInv

LEMMA StartFailedStep ==
    ASSUME IvrInv, StartFailed PROVE IvrInv'
  <1>1. TypeInv'
    BY DEF IvrInv, TypeInv, StartFailed, Leave, EndAtMeta, CloseMedia, api, people
  <1>2. HandlersInv'
    <2>1. CASE Leave("start") /\ UNCHANGED <<customer, media>>
      BY <2>1, IvrAssumption, Records, FieldsOfCall, FieldsOfHandlers, GotoMoves, StopMoves
        DEF IvrInv, HandlersInv, TypeInv, At, Names, Points, Waiting, Terminal, StartFailed, Leave, EndAtMeta, CloseMedia, api, people
    <2>2. CASE /\ customer' \in {customer, "over"} /\ CloseMedia
             /\ Goto("start", "failRow") /\ UNCHANGED <<session, busy, due>>
      BY <2>2, IvrAssumption, Records, FieldsOfCall, FieldsOfHandlers, GotoMoves, StopMoves
        DEF IvrInv, HandlersInv, TypeInv, At, Names, Points, Waiting, Terminal, StartFailed, Leave, EndAtMeta, CloseMedia, api, people
    <2> QED
      BY <2>1, <2>2 DEF StartFailed, At, EndAtMeta, Names
  <1>3. FreshInv'
    BY DEF IvrInv, FreshInv, At, StartFailed, Leave, EndAtMeta, CloseMedia, api, people
  <1>4. CopiesInv'
    <2>1. CASE Leave("start") /\ UNCHANGED <<customer, media>>
      BY <2>1, IvrAssumption, Records, FieldsOfCall, FieldsOfHandlers, GotoMoves, StopMoves
        DEF IvrInv, CopiesInv, TypeInv, AcceptInv, Sound, Routed, Accepted, At, Names, Points, Waiting, Terminal, StartFailed, Leave, EndAtMeta, CloseMedia, api, people
    <2>2. CASE /\ customer' \in {customer, "over"} /\ CloseMedia
             /\ Goto("start", "failRow") /\ UNCHANGED <<session, busy, due>>
      BY <2>2, IvrAssumption, Records, FieldsOfCall, FieldsOfHandlers, GotoMoves, StopMoves
        DEF IvrInv, CopiesInv, TypeInv, AcceptInv, Sound, Routed, Accepted, At, Names, Points, Waiting, Terminal, StartFailed, Leave, EndAtMeta, CloseMedia, api, people
    <2> QED
      BY <2>1, <2>2 DEF StartFailed, At, EndAtMeta, Names
  <1>5. AcceptInv'
    <2>1. CASE Leave("start") /\ UNCHANGED <<customer, media>>
      BY <2>1, IvrAssumption, Records, FieldsOfCall, FieldsOfHandlers, GotoMoves, StopMoves
        DEF IvrInv, AcceptInv, CopiesInv, HandlersTakeTurns, FreshInv, Sound, Accepted, At, Names, Points, Waiting, Terminal, StartFailed, Leave, EndAtMeta, CloseMedia, api, people
    <2>2. CASE /\ customer' \in {customer, "over"} /\ CloseMedia
             /\ Goto("start", "failRow") /\ UNCHANGED <<session, busy, due>>
      BY <2>2, IvrAssumption, Records, FieldsOfCall, FieldsOfHandlers, GotoMoves, StopMoves
        DEF IvrInv, AcceptInv, CopiesInv, HandlersTakeTurns, FreshInv, Sound, Accepted, At, Names, Points, Waiting, Terminal, StartFailed, Leave, EndAtMeta, CloseMedia, api, people
    <2> QED
      BY <2>1, <2>2 DEF StartFailed, At, EndAtMeta, Names
  <1>6. ActivationInv'
    BY DEF IvrInv, ActivationInv, StartFailed, Leave, EndAtMeta, CloseMedia, api, people
  <1>7. HandlersTakeTurns'
    <2>1. CASE Leave("start") /\ UNCHANGED <<customer, media>>
      BY <2>1, IvrAssumption, Records, FieldsOfCall, FieldsOfHandlers, GotoMoves, StopMoves
        DEF IvrInv, HandlersTakeTurns, FreshInv, At, Names, Points, Waiting, Terminal, StartFailed, Leave, EndAtMeta, CloseMedia, api, people
    <2>2. CASE /\ customer' \in {customer, "over"} /\ CloseMedia
             /\ Goto("start", "failRow") /\ UNCHANGED <<session, busy, due>>
      BY <2>2, IvrAssumption, Records, FieldsOfCall, FieldsOfHandlers, GotoMoves, StopMoves
        DEF IvrInv, HandlersTakeTurns, FreshInv, At, Names, Points, Waiting, Terminal, StartFailed, Leave, EndAtMeta, CloseMedia, api, people
    <2> QED
      BY <2>1, <2>2 DEF StartFailed, At, EndAtMeta, Names
  <1>8. NoVoiceBeforeAccept'
    BY DEF IvrInv, NoVoiceBeforeAccept, StartFailed, Leave, EndAtMeta, CloseMedia, api, people
  <1> QED
    BY <1>1, <1>2, <1>3, <1>4, <1>5, <1>6, <1>7, <1>8 DEF IvrInv

LEMMA FailRowStep ==
    ASSUME IvrInv, FailRow PROVE IvrInv'
  <1>1. TypeInv'
    BY IvrAssumption DEF IvrInv, TypeInv, HandlersInv, Handlers, AgentRequests, Names, CopiesInv, AcceptInv, Call, Points, Routed, NoCall, Idle, At, NoRequest, Waiting, Terminal, FailRow, Leave, Stop, api, people
  <1>2. HandlersInv'
    BY IvrAssumption DEF IvrInv, TypeInv, HandlersInv, Handlers, AgentRequests, Names, Call, Points, NoCall, Idle, At, NoRequest, Waiting, Terminal, FailRow, Leave, Stop, api, people
  <1>3. FreshInv'
    BY DEF IvrInv, FreshInv, At, FailRow, Leave, api, people
  <1>4. CopiesInv'
    BY IvrAssumption DEF IvrInv, CopiesInv, HandlersInv, Handlers, AgentRequests, Names, TypeInv, AcceptInv, ActivationInv, Call, Points, Sound, Routed, Accepted, FreshInv, NoCall, Idle, At, NoRequest, Waiting, Terminal, FailRow, Leave, Stop, api, people
  <1>5. AcceptInv'
    BY IvrAssumption DEF IvrInv, AcceptInv, CopiesInv, HandlersInv, Handlers, AgentRequests, Names, HandlersTakeTurns, FreshInv, Sound, Accepted, TypeInv, Points, NoCall, Idle, At, NoRequest, Waiting, Terminal, FailRow, Leave, Stop, api, people
  <1>6. ActivationInv'
    BY DEF IvrInv, ActivationInv, FailRow, Leave, api, people
  <1>7. HandlersTakeTurns'
    BY IvrAssumption DEF IvrInv, HandlersTakeTurns, HandlersInv, Handlers, AgentRequests, Names, FreshInv, Points, NoCall, Idle, At, NoRequest, Waiting, Terminal, FailRow, Leave, Stop, api, people
  <1>8. NoVoiceBeforeAccept'
    BY DEF IvrInv, NoVoiceBeforeAccept, FailRow, Leave, api, people
  <1> QED
    BY <1>1, <1>2, <1>3, <1>4, <1>5, <1>6, <1>7, <1>8 DEF IvrInv

LEMMA TickStartStep ==
    ASSUME IvrInv, TickStart PROVE IvrInv'
  <1>1. TypeInv'
    BY DEF IvrInv, TypeInv, TickStart, api, people
  <1>2. HandlersInv'
    BY IvrAssumption, Records, FieldsOfCall, FieldsOfHandlers, HoldMoves
    DEF IvrInv, HandlersInv, TypeInv, At, Names, Points, Waiting, Terminal, TickStart, api, people
  <1>3. FreshInv'
    BY DEF IvrInv, FreshInv, At, TickStart, api, people
  <1>4. CopiesInv'
    BY IvrAssumption, Records, FieldsOfCall, FieldsOfHandlers, HoldMoves
    DEF IvrInv, CopiesInv, TypeInv, AcceptInv, Sound, Routed, Accepted, At, Names, Points, Waiting, Terminal, TickStart, api, people
  <1>5. AcceptInv'
    BY IvrAssumption DEF IvrInv, AcceptInv, CopiesInv, HandlersInv, Handlers, AgentRequests, Names, HandlersTakeTurns, FreshInv, Sound, Accepted, TypeInv, Points, NoCall, Idle, At, NoRequest, Waiting, Terminal, TickStart, Hold, api, people
  <1>6. ActivationInv'
    BY DEF IvrInv, ActivationInv, TickStart, api, people
  <1>7. HandlersTakeTurns'
    BY IvrAssumption DEF IvrInv, HandlersTakeTurns, HandlersInv, Handlers, AgentRequests, Names, FreshInv, Points, NoCall, Idle, At, NoRequest, Waiting, Terminal, TickStart, Hold, api, people
  <1>8. NoVoiceBeforeAccept'
    BY DEF IvrInv, NoVoiceBeforeAccept, TickStart, api, people
  <1> QED
    BY <1>1, <1>2, <1>3, <1>4, <1>5, <1>6, <1>7, <1>8 DEF IvrInv

(* The two ways in which the check of a tick leaves the rest alone.        *)
LEMMA TickEnds ==
    ASSUME IvrInv, ~At("tick", "idle"), Stop("tick"), busy' = FALSE,
           UNCHANGED <<row, customer, media, people>>,
           UNCHANGED <<session, due>> \/ (session' = None /\ due' = {})
    PROVE  IvrInv'
  <1>0. HandlersInv /\ "tick" \in Names /\ "start" \in Names /\ "recover" \in Names
    BY DEF IvrInv, Names
  <1>1. /\ thread' \in Handlers /\ thread'["tick"] = Idle
        /\ \A u \in Names \ {"tick"} : thread'[u] = thread[u]
    BY <1>0, StopMoves
  <1>2. thread'["start"] = thread["start"] /\ thread'["recover"] = thread["recover"]
    BY <1>0, <1>1
  <1>3. UNCHANGED <<row, customer, media, claimed, ready, req>>
    BY DEF people
  <1>4. thread["start"].at = "idle" /\ row.status # "none"
    BY DEF IvrInv, HandlersTakeTurns, FreshInv, At
  <1>5. TypeInv'
    BY <1>3 DEF IvrInv, TypeInv
  <1>6. HandlersInv'
    BY <1>1, <1>3 DEF IvrInv, HandlersInv
  <1>7. FreshInv'
    BY <1>3, <1>4 DEF FreshInv
  <1>8. CopiesInv'
    <2>1. Sound(Idle.call) /\ Routed(Idle.call)
      BY Records DEF Sound
    <2>2. \A t \in Names : Sound(thread'[t].call)
      BY <1>1, <2>1 DEF IvrInv, CopiesInv
    <2>3. Accepted' = Accepted
      BY <1>3 DEF Accepted
    <2> QED
      BY <1>1, <1>3, <2>1, <2>2, <2>3 DEF IvrInv, CopiesInv, Sound, Routed
  <1>9. AcceptInv'
    BY <1>1, <1>2, <1>3, <1>4, Records DEF IvrInv, AcceptInv, Accepted, At
  <1>10. ActivationInv'
    BY <1>3 DEF IvrInv, ActivationInv
  <1>11. HandlersTakeTurns'
    BY <1>1, <1>2, <1>4, Records DEF HandlersTakeTurns, At
  <1>12. NoVoiceBeforeAccept'
    BY <1>3 DEF IvrInv, NoVoiceBeforeAccept
  <1> QED
    BY <1>5, <1>6, <1>7, <1>8, <1>9, <1>10, <1>11, <1>12 DEF IvrInv

LEMMA TickGoesOn ==
    ASSUME IvrInv, ~At("tick", "idle"), NEW s \in {"digits", "queue", "close"},
           NEW call \in Call, Sound(call), Routed(call),
           thread' \in Handlers, thread'["tick"].at = s, thread'["tick"].call = call,
           \A u \in Names \ {"tick"} : thread'[u] = thread[u],
           UNCHANGED <<row, customer, media, people, session, busy, due>>
    PROVE  IvrInv'
  <1>2. thread'["start"] = thread["start"] /\ thread'["recover"] = thread["recover"]
    BY DEF Names
  <1>3. UNCHANGED <<row, customer, media, claimed, ready, req>>
    BY DEF people
  <1>4. thread["start"].at = "idle" /\ row.status # "none" /\ busy
    BY DEF IvrInv, HandlersTakeTurns, FreshInv, At
  <1>5. TypeInv'
    BY <1>3 DEF IvrInv, TypeInv
  <1>6. HandlersInv'
    BY <1>3 DEF IvrInv, HandlersInv
  <1>7. FreshInv'
    BY <1>3, <1>4 DEF FreshInv
  <1>8. CopiesInv'
    <2>2. \A t \in Names : Sound(thread'[t].call)
      BY DEF IvrInv, CopiesInv
    <2>3. Accepted' = Accepted
      BY <1>3 DEF Accepted
    <2> QED
      BY <1>3, <2>2, <2>3 DEF IvrInv, CopiesInv, Sound, Routed
  <1>9. AcceptInv'
    BY <1>2, <1>3, <1>4 DEF IvrInv, AcceptInv, Accepted, At
  <1>10. ActivationInv'
    BY <1>3 DEF IvrInv, ActivationInv
  <1>11. HandlersTakeTurns'
    BY <1>2, <1>4 DEF HandlersTakeTurns, At
  <1>12. NoVoiceBeforeAccept'
    BY <1>3 DEF IvrInv, NoVoiceBeforeAccept
  <1> QED
    BY <1>5, <1>6, <1>7, <1>8, <1>9, <1>10, <1>11, <1>12 DEF IvrInv

LEMMA TickCheckStep ==
    ASSUME IvrInv, TickCheck PROVE IvrInv'
  <1> DEFINE call == thread["tick"].call
  <1>0. ~At("tick", "idle") /\ UNCHANGED <<row, customer, media, people>>
    BY DEF TickCheck, At
  <1>1. /\ HandlersInv /\ "tick" \in Names /\ {"close", "digits", "queue"} \subseteq Points
        /\ call \in Call /\ Sound(call) /\ Routed(call)
    BY FieldsOfHandlers DEF IvrInv, Names, Points, CopiesInv
  <1>2. CASE Leave("tick")
    BY <1>0, <1>2, TickEnds DEF Leave
  <1>3. CASE Stop("tick") /\ busy' = FALSE /\ UNCHANGED <<session, due>>
    BY <1>0, <1>3, TickEnds
  <1>4. CASE /\ Hold("tick", "close", [NoCall EXCEPT !.accepted = call.accepted])
             /\ UNCHANGED <<session, busy, due>>
    <2> DEFINE closing == [NoCall EXCEPT !.accepted = call.accepted]
    <2>1. closing \in Call /\ closing.phase = "none" /\ closing.accepted = call.accepted
      BY <1>1, Records, FieldsOfCall DEF Call
    <2>2. Sound(closing) /\ Routed(closing)
      BY <1>1, <2>1 DEF Sound, Routed
    <2>3. Hold("tick", "close", closing)
      BY <1>4
    <2> HIDE DEF closing
    <2> QED
      BY <1>0, <1>1, <1>4, <2>1, <2>2, <2>3, HoldMoves, TickGoesOn
  <1>5. ASSUME NEW s \in {"digits", "queue"}, Goto("tick", s), UNCHANGED <<session, busy, due>>
        PROVE  IvrInv'
    BY <1>0, <1>1, <1>5, GotoMoves, TickGoesOn
  <1> QED
    BY <1>2, <1>3, <1>4, <1>5 DEF TickCheck

LEMMA TickDigitsStep ==
    ASSUME IvrInv, TickDigits PROVE IvrInv'
  <1>1. TypeInv'
    BY DEF IvrInv, TypeInv, TickDigits, PlayIvr, api, people
  <1>2. HandlersInv'
    BY TickDigitsTurns
  <1>3. FreshInv'
    BY DEF IvrInv, FreshInv, At, TickDigits, PlayIvr, api, people
  <1>4. CopiesInv'
    BY SMTT(40), IvrAssumption DEF IvrInv, CopiesInv, HandlersInv, Handlers, AgentRequests, Names, TypeInv, AcceptInv, ActivationInv, Call, Points, Sound, Routed, Accepted, FreshInv, NoCall, Idle, At, NoRequest, Waiting, Terminal, TickDigits, Goto, Stop, PlayIvr, api, people
  <1>5. AcceptInv'
    <2>1. ASSUME NEW o \in Options, customer = "accepted", UNCHANGED busy,
                 thread' = [thread EXCEPT !["tick"].at = "route", !["tick"].option = o]
          PROVE  AcceptInv'
      <3>1. CASE UNCHANGED <<media, due>>
        BY <2>1, <3>1, IvrAssumption, Records, FieldsOfCall, FieldsOfHandlers
          DEF IvrInv, AcceptInv, CopiesInv, HandlersTakeTurns, FreshInv, Sound, Accepted, At, Names, Points, Waiting, Terminal, TickDigits, PlayIvr, api, people
      <3>2. CASE PlayIvr /\ due' = due \ {"menu", "noMenu"}
        BY <2>1, <3>2, IvrAssumption, Records, FieldsOfCall, FieldsOfHandlers
          DEF IvrInv, AcceptInv, CopiesInv, HandlersTakeTurns, FreshInv, Sound, Accepted, At, Names, Points, Waiting, Terminal, TickDigits, PlayIvr, api, people
      <3> QED
        BY <2>1, <3>1, <3>2 DEF TickDigits, Stop, Goto
    <2>2. CASE /\ customer = "accepted" /\ PlayIvr /\ due' = due \ {"menu", "noMenu"}
             /\ Stop("tick") /\ busy' = FALSE
      BY <2>2, IvrAssumption, Records, FieldsOfCall, FieldsOfHandlers, GotoMoves, StopMoves
        DEF IvrInv, AcceptInv, CopiesInv, HandlersTakeTurns, FreshInv, Sound, Accepted, At, Names, Points, Waiting, Terminal, TickDigits, PlayIvr, api, people
    <2>3. CASE "menu" \in due /\ Goto("tick", "route") /\ UNCHANGED <<media, busy, due>>
      BY <2>3, IvrAssumption, Records, FieldsOfCall, FieldsOfHandlers, GotoMoves, StopMoves
        DEF IvrInv, AcceptInv, CopiesInv, HandlersTakeTurns, FreshInv, Sound, Accepted, At, Names, Points, Waiting, Terminal, TickDigits, PlayIvr, api, people
    <2>4. CASE Stop("tick") /\ busy' = FALSE /\ UNCHANGED <<media, due>>
      BY <2>4, IvrAssumption, Records, FieldsOfCall, FieldsOfHandlers, GotoMoves, StopMoves
        DEF IvrInv, AcceptInv, CopiesInv, HandlersTakeTurns, FreshInv, Sound, Accepted, At, Names, Points, Waiting, Terminal, TickDigits, PlayIvr, api, people
    <2> QED
      BY <2>1, <2>2, <2>3, <2>4 DEF TickDigits, At, EndAtMeta, Names
  <1>6. ActivationInv'
    BY DEF IvrInv, ActivationInv, TickDigits, PlayIvr, api, people
  <1>7. HandlersTakeTurns'
    BY TickDigitsTurns
  <1>8. NoVoiceBeforeAccept'
    BY DEF IvrInv, NoVoiceBeforeAccept, TickDigits, PlayIvr, api, people
  <1> QED
    BY <1>1, <1>2, <1>3, <1>4, <1>5, <1>6, <1>7, <1>8 DEF IvrInv

LEMMA WidenStep ==
    ASSUME IvrInv, Widen PROVE IvrInv'
  <1>1. TypeInv'
    BY IvrAssumption DEF IvrInv, TypeInv, HandlersInv, Handlers, AgentRequests, Names, CopiesInv, AcceptInv, Call, Points, Routed, NoCall, Idle, At, NoRequest, Waiting, Terminal, Widen, Hold, SaveIvr, api, people
  <1>2. HandlersInv'
    <2>1. thread["tick"].call \in Call /\ "tick" \in Names /\ "queue" \in Points
      BY FieldsOfHandlers DEF IvrInv, Names, Points
    <2>2. row' \in Call
      BY <2>1, WideState, SaveIvrWrites DEF IvrInv, TypeInv, Widen
    <2> QED
      BY <2>1, <2>2, HoldMoves DEF IvrInv, HandlersInv, Widen, people
  <1>3. FreshInv'
    BY IvrAssumption DEF IvrInv, FreshInv, HandlersInv, Handlers, AgentRequests, Names, Points, NoCall, Idle, At, NoRequest, Waiting, Terminal, Widen, Hold, SaveIvr, api, people
  <1>4. CopiesInv'
    BY IvrAssumption DEF IvrInv, CopiesInv, HandlersInv, Handlers, AgentRequests, Names, TypeInv, AcceptInv, ActivationInv, Call, Points, Sound, Routed, Accepted, FreshInv, NoCall, Idle, At, NoRequest, Waiting, Terminal, Widen, Hold, SaveIvr, api, people
  <1>5. AcceptInv'
    BY IvrAssumption DEF IvrInv, AcceptInv, CopiesInv, HandlersInv, Handlers, AgentRequests, Names, HandlersTakeTurns, FreshInv, Sound, Accepted, TypeInv, Points, NoCall, Idle, At, NoRequest, Waiting, Terminal, Widen, Hold, SaveIvr, api, people
  <1>6. ActivationInv'
    BY IvrAssumption DEF IvrInv, ActivationInv, HandlersInv, Handlers, AgentRequests, Names, FreshInv, Points, TypeInv, Call, NoCall, Idle, At, NoRequest, Waiting, Terminal, Widen, Hold, SaveIvr, api, people
  <1>7. HandlersTakeTurns'
    BY IvrAssumption DEF IvrInv, HandlersTakeTurns, HandlersInv, Handlers, AgentRequests, Names, FreshInv, Points, NoCall, Idle, At, NoRequest, Waiting, Terminal, Widen, Hold, SaveIvr, api, people
  <1>8. NoVoiceBeforeAccept'
    BY DEF IvrInv, NoVoiceBeforeAccept, Widen, api, people
  <1> QED
    BY <1>1, <1>2, <1>3, <1>4, <1>5, <1>6, <1>7, <1>8 DEF IvrInv

LEMMA NotifyStep ==
    ASSUME IvrInv, Notify PROVE IvrInv'
  <1>1. TypeInv'
    BY DEF IvrInv, TypeInv, Notify, AllowedIds, api, people
  <1>2. HandlersInv'
    BY IvrAssumption DEF IvrInv, TypeInv, HandlersInv, Handlers, AgentRequests, Names, Call, Points, NoCall, Idle, At, NoRequest, Waiting, Terminal, Notify, Stop, AllowedIds, api, people
  <1>3. FreshInv'
    BY DEF IvrInv, FreshInv, At, Notify, AllowedIds, api, people
  <1>4. CopiesInv'
    BY IvrAssumption DEF IvrInv, CopiesInv, HandlersInv, Handlers, AgentRequests, Names, TypeInv, AcceptInv, ActivationInv, Call, Points, Sound, Routed, Accepted, FreshInv, NoCall, Idle, At, NoRequest, Waiting, Terminal, Notify, Stop, AllowedIds, api, people
  <1>5. AcceptInv'
    BY IvrAssumption DEF IvrInv, AcceptInv, CopiesInv, HandlersInv, Handlers, AgentRequests, Names, HandlersTakeTurns, FreshInv, Sound, Accepted, TypeInv, Points, NoCall, Idle, At, NoRequest, Waiting, Terminal, Notify, Stop, AllowedIds, api, people
  <1>6. ActivationInv'
    BY DEF IvrInv, ActivationInv, Notify, AllowedIds, api, people
  <1>7. HandlersTakeTurns'
    BY IvrAssumption DEF IvrInv, HandlersTakeTurns, HandlersInv, Handlers, AgentRequests, Names, FreshInv, Points, NoCall, Idle, At, NoRequest, Waiting, Terminal, Notify, Stop, AllowedIds, api, people
  <1>8. NoVoiceBeforeAccept'
    BY DEF IvrInv, NoVoiceBeforeAccept, Notify, AllowedIds, api, people
  <1> QED
    BY <1>1, <1>2, <1>3, <1>4, <1>5, <1>6, <1>7, <1>8 DEF IvrInv

LEMMA FindWaitingStep ==
    ASSUME IvrInv, FindWaiting PROVE IvrInv'
  <1>1. TypeInv'
    BY DEF IvrInv, TypeInv, FindWaiting, api, people
  <1>2. HandlersInv'
    <2>1. CASE Hold("recover", "found",
                 [NoCall EXCEPT !.phase = row.phase, !.accepted = row.accepted])
      BY <2>1, IvrAssumption DEF IvrInv, TypeInv, HandlersInv, Handlers, AgentRequests, Names, Call, Points, NoCall, Idle, At, NoRequest, Waiting, Terminal, FindWaiting, Hold, Stop, api, people
    <2>2. CASE Stop("recover")
      BY <2>2, IvrAssumption, Records, FieldsOfCall, FieldsOfHandlers, HoldMoves, StopMoves
        DEF IvrInv, HandlersInv, TypeInv, At, Names, Points, Waiting, Terminal, FindWaiting, api, people
    <2> QED
      BY <2>1, <2>2 DEF FindWaiting, At, EndAtMeta, Names
  <1>3. FreshInv'
    BY IvrAssumption DEF IvrInv, FreshInv, HandlersInv, Handlers, AgentRequests, Names, Points, NoCall, Idle, At, NoRequest, Waiting, Terminal, FindWaiting, Hold, Stop, api, people
  <1>4. CopiesInv'
    <2>1. CASE Hold("recover", "found",
                 [NoCall EXCEPT !.phase = row.phase, !.accepted = row.accepted])
      BY <2>1, IvrAssumption DEF IvrInv, CopiesInv, HandlersInv, Handlers, AgentRequests, Names, TypeInv, AcceptInv, ActivationInv, Call, Points, Sound, Routed, Accepted, FreshInv, NoCall, Idle, At, NoRequest, Waiting, Terminal, FindWaiting, Hold, Stop, api, people
    <2>2. CASE Stop("recover")
      BY <2>2, IvrAssumption, Records, FieldsOfCall, FieldsOfHandlers, HoldMoves, StopMoves
        DEF IvrInv, CopiesInv, TypeInv, AcceptInv, Sound, Routed, Accepted, At, Names, Points, Waiting, Terminal, FindWaiting, api, people
    <2> QED
      BY <2>1, <2>2 DEF FindWaiting, At, EndAtMeta, Names
  <1>5. AcceptInv'
    BY IvrAssumption DEF IvrInv, AcceptInv, CopiesInv, HandlersInv, Handlers, AgentRequests, Names, HandlersTakeTurns, FreshInv, Sound, Accepted, TypeInv, Points, NoCall, Idle, At, NoRequest, Waiting, Terminal, FindWaiting, Hold, Stop, api, people
  <1>6. ActivationInv'
    BY DEF IvrInv, ActivationInv, FindWaiting, api, people
  <1>7. HandlersTakeTurns'
    BY IvrAssumption DEF IvrInv, HandlersTakeTurns, HandlersInv, Handlers, AgentRequests, Names, FreshInv, Points, NoCall, Idle, At, NoRequest, Waiting, Terminal, FindWaiting, Hold, Stop, api, people
  <1>8. NoVoiceBeforeAccept'
    BY DEF IvrInv, NoVoiceBeforeAccept, FindWaiting, api, people
  <1> QED
    BY <1>1, <1>2, <1>3, <1>4, <1>5, <1>6, <1>7, <1>8 DEF IvrInv

LEMMA RecoverStep ==
    ASSUME IvrInv, Recover PROVE IvrInv'
  <1>1. TypeInv'
    BY DEF IvrInv, TypeInv, Recover, api, people
  <1>2. HandlersInv'
    <2>1. CASE /\ thread["recover"].call.phase \in {"MENU", "QUEUE"} /\ thread["recover"].call.accepted
             /\ session' = {} /\ due' = (IF thread["recover"].call.phase = "MENU" THEN {"noMenu"} ELSE {})
             /\ Goto("recover", "route")
      BY <2>1, IvrAssumption, Records, FieldsOfCall, FieldsOfHandlers, GotoMoves, StopMoves
        DEF IvrInv, HandlersInv, TypeInv, At, Names, Points, Waiting, Terminal, Recover, api, people
    <2>2. CASE /\ thread["recover"].call.phase \in {"MENU", "QUEUE"} /\ ~thread["recover"].call.accepted
             /\ session' = {} /\ due' = (IF thread["recover"].call.phase = "MENU" THEN {"noMenu"} ELSE {})
             /\ Goto("recover", "close")
      BY <2>2, IvrAssumption, Records, FieldsOfCall, FieldsOfHandlers, GotoMoves, StopMoves
        DEF IvrInv, HandlersInv, TypeInv, At, Names, Points, Waiting, Terminal, Recover, api, people
    <2>3. CASE Stop("recover") /\ UNCHANGED <<session, due>>
      BY <2>3, IvrAssumption, Records, FieldsOfCall, FieldsOfHandlers, GotoMoves, StopMoves
        DEF IvrInv, HandlersInv, TypeInv, At, Names, Points, Waiting, Terminal, Recover, api, people
    <2> QED
      BY <2>1, <2>2, <2>3 DEF Recover, At, EndAtMeta, Names
  <1>3. FreshInv'
    BY IvrAssumption DEF IvrInv, FreshInv, HandlersInv, Handlers, AgentRequests, Names, Points, NoCall, Idle, At, NoRequest, Waiting, Terminal, Recover, Goto, Stop, api, people
  <1>4. CopiesInv'
    BY IvrAssumption DEF IvrInv, CopiesInv, HandlersInv, Handlers, AgentRequests, Names, TypeInv, AcceptInv, ActivationInv, Call, Points, Sound, Routed, Accepted, FreshInv, NoCall, Idle, At, NoRequest, Waiting, Terminal, Recover, Goto, Stop, api, people
  <1>5. AcceptInv'
    BY IvrAssumption DEF IvrInv, AcceptInv, CopiesInv, HandlersInv, Handlers, AgentRequests, Names, HandlersTakeTurns, FreshInv, Sound, Accepted, TypeInv, Points, NoCall, Idle, At, NoRequest, Waiting, Terminal, Recover, Goto, Stop, api, people
  <1>6. ActivationInv'
    BY DEF IvrInv, ActivationInv, Recover, api, people
  <1>7. HandlersTakeTurns'
    BY IvrAssumption DEF IvrInv, HandlersTakeTurns, HandlersInv, Handlers, AgentRequests, Names, FreshInv, Points, NoCall, Idle, At, NoRequest, Waiting, Terminal, Recover, Goto, Stop, api, people
  <1>8. NoVoiceBeforeAccept'
    BY DEF IvrInv, NoVoiceBeforeAccept, Recover, api, people
  <1> QED
    BY <1>1, <1>2, <1>3, <1>4, <1>5, <1>6, <1>7, <1>8 DEF IvrInv

LEMMA RouteUpdateStep ==
    ASSUME NEW t \in {"tick", "recover"}, IvrInv, RouteUpdate(t) PROVE IvrInv'
  <1>1. TypeInv'
    BY RouteUpdateRow
  <1>2. HandlersInv'
    BY IvrAssumption DEF IvrInv, TypeInv, HandlersInv, Handlers, AgentRequests, Names, Call, Points, NoCall, Idle, At, NoRequest, Waiting, Terminal, RouteUpdate, Hold, SaveIvr, api, people
  <1>3. FreshInv'
    BY IvrAssumption DEF IvrInv, FreshInv, HandlersInv, Handlers, AgentRequests, Names, Points, NoCall, Idle, At, NoRequest, Waiting, Terminal, RouteUpdate, Hold, SaveIvr, api, people
  <1>4. CopiesInv'
    BY RouteUpdateRow
  <1>5. AcceptInv'
    BY DEF IvrInv, AcceptInv, At, Accepted, RouteUpdate, api, people
  <1>6. ActivationInv'
    BY IvrAssumption DEF IvrInv, ActivationInv, HandlersInv, Handlers, AgentRequests, Names, FreshInv, Points, TypeInv, Call, NoCall, Idle, At, NoRequest, Waiting, Terminal, RouteUpdate, Hold, SaveIvr, api, people
  <1>7. HandlersTakeTurns'
    BY IvrAssumption DEF IvrInv, HandlersTakeTurns, HandlersInv, Handlers, AgentRequests, Names, FreshInv, Points, NoCall, Idle, At, NoRequest, Waiting, Terminal, RouteUpdate, Hold, SaveIvr, api, people
  <1>8. NoVoiceBeforeAccept'
    BY DEF IvrInv, NoVoiceBeforeAccept, RouteUpdate, api, people
  <1> QED
    BY <1>1, <1>2, <1>3, <1>4, <1>5, <1>6, <1>7, <1>8 DEF IvrInv

LEMMA RoutePlayStep ==
    ASSUME NEW t \in {"tick", "recover"}, IvrInv, RoutePlay(t) PROVE IvrInv'
  <1>1. TypeInv'
    BY DEF IvrInv, TypeInv, RoutePlay, PlayIvr, api, people
  <1>2. HandlersInv'
    <2>1. CASE /\ t = "tick" /\ Goto("tick", "queue") /\ PlayIvr /\ UNCHANGED busy
      BY <2>1, IvrAssumption, Records, FieldsOfCall, FieldsOfHandlers, GotoMoves, StopMoves
        DEF IvrInv, HandlersInv, TypeInv, At, Names, Points, Waiting, Terminal, RoutePlay, PlayIvr, api, people
    <2>2. CASE /\ t = "recover" /\ Stop("recover") /\ PlayIvr /\ UNCHANGED busy
      BY <2>2, IvrAssumption, Records, FieldsOfCall, FieldsOfHandlers, GotoMoves, StopMoves
        DEF IvrInv, HandlersInv, TypeInv, At, Names, Points, Waiting, Terminal, RoutePlay, PlayIvr, api, people
    <2>3. CASE /\ t = "tick" /\ Stop("tick") /\ busy' = FALSE /\ UNCHANGED media
      BY <2>3, IvrAssumption, Records, FieldsOfCall, FieldsOfHandlers, GotoMoves, StopMoves
        DEF IvrInv, HandlersInv, TypeInv, At, Names, Points, Waiting, Terminal, RoutePlay, PlayIvr, api, people
    <2>4. CASE /\ t = "recover" /\ Goto("recover", "close") /\ UNCHANGED <<media, busy>>
      BY <2>4, IvrAssumption, Records, FieldsOfCall, FieldsOfHandlers, GotoMoves, StopMoves
        DEF IvrInv, HandlersInv, TypeInv, At, Names, Points, Waiting, Terminal, RoutePlay, PlayIvr, api, people
    <2> QED
      BY <2>1, <2>2, <2>3, <2>4 DEF RoutePlay, At, EndAtMeta, Names
  <1>3. FreshInv'
    BY IvrAssumption DEF IvrInv, FreshInv, HandlersInv, Handlers, AgentRequests, Names, Points, NoCall, Idle, At, NoRequest, Waiting, Terminal, RoutePlay, Goto, Stop, PlayIvr, api, people
  <1>4. CopiesInv'
    BY IvrAssumption DEF IvrInv, CopiesInv, HandlersInv, Handlers, AgentRequests, Names, TypeInv, AcceptInv, ActivationInv, Call, Points, Sound, Routed, Accepted, FreshInv, NoCall, Idle, At, NoRequest, Waiting, Terminal, RoutePlay, Goto, Stop, PlayIvr, api, people
  <1>5. AcceptInv'
    BY DEF IvrInv, AcceptInv, At, Accepted, RoutePlay, PlayIvr, api, people
  <1>6. ActivationInv'
    BY DEF IvrInv, ActivationInv, RoutePlay, PlayIvr, api, people
  <1>7. HandlersTakeTurns'
    BY IvrAssumption DEF IvrInv, HandlersTakeTurns, HandlersInv, Handlers, AgentRequests, Names, FreshInv, Points, NoCall, Idle, At, NoRequest, Waiting, Terminal, RoutePlay, Goto, Stop, PlayIvr, api, people
  <1>8. NoVoiceBeforeAccept'
    BY IvrAssumption DEF IvrInv, NoVoiceBeforeAccept, AcceptInv, FreshInv, Accepted, NoCall, Idle, At, NoRequest, Waiting, Terminal, RoutePlay, Goto, Stop, PlayIvr, api, people
  <1> QED
    BY <1>1, <1>2, <1>3, <1>4, <1>5, <1>6, <1>7, <1>8 DEF IvrInv

LEMMA CloseStep ==
    ASSUME NEW t \in {"tick", "recover"}, IvrInv, Close(t) PROVE IvrInv'
  <1>1. TypeInv'
    BY DEF IvrInv, TypeInv, Close, EndAtMeta, CloseMedia, api, people
  <1>2. HandlersInv'
    BY IvrAssumption DEF IvrInv, TypeInv, HandlersInv, Handlers, AgentRequests, Names, Call, Points, NoCall, Idle, At, NoRequest, Waiting, Terminal, Close, Goto, EndAtMeta, CloseMedia, api, people
  <1>3. FreshInv'
    BY IvrAssumption DEF IvrInv, FreshInv, HandlersInv, Handlers, AgentRequests, Names, Points, NoCall, Idle, At, NoRequest, Waiting, Terminal, Close, Goto, EndAtMeta, CloseMedia, api, people
  <1>4. CopiesInv'
    BY IvrAssumption DEF IvrInv, CopiesInv, HandlersInv, Handlers, AgentRequests, Names, TypeInv, AcceptInv, ActivationInv, Call, Points, Sound, Routed, Accepted, FreshInv, NoCall, Idle, At, NoRequest, Waiting, Terminal, Close, Goto, EndAtMeta, CloseMedia, api, people
  <1>5. AcceptInv'
    BY IvrAssumption DEF IvrInv, AcceptInv, CopiesInv, HandlersInv, Handlers, AgentRequests, Names, HandlersTakeTurns, FreshInv, Sound, Accepted, TypeInv, Points, NoCall, Idle, At, NoRequest, Waiting, Terminal, Close, Goto, EndAtMeta, CloseMedia, api, people
  <1>6. ActivationInv'
    BY DEF IvrInv, ActivationInv, Close, EndAtMeta, CloseMedia, api, people
  <1>7. HandlersTakeTurns'
    BY IvrAssumption DEF IvrInv, HandlersTakeTurns, HandlersInv, Handlers, AgentRequests, Names, FreshInv, Points, NoCall, Idle, At, NoRequest, Waiting, Terminal, Close, Goto, EndAtMeta, CloseMedia, api, people
  <1>8. NoVoiceBeforeAccept'
    BY DEF IvrInv, NoVoiceBeforeAccept, Close, EndAtMeta, CloseMedia, api, people
  <1> QED
    BY <1>1, <1>2, <1>3, <1>4, <1>5, <1>6, <1>7, <1>8 DEF IvrInv

LEMMA CloseRowStep ==
    ASSUME NEW t \in {"tick", "recover"}, IvrInv, CloseRow(t) PROVE IvrInv'
  <1>1. TypeInv'
    BY IvrAssumption DEF IvrInv, TypeInv, HandlersInv, Handlers, AgentRequests, Names, CopiesInv, AcceptInv, Call, Points, Routed, NoCall, Idle, At, NoRequest, Waiting, Terminal, CloseRow, Leave, Stop, api, people
  <1>2. HandlersInv'
    BY IvrAssumption DEF IvrInv, TypeInv, HandlersInv, Handlers, AgentRequests, Names, Call, Points, NoCall, Idle, At, NoRequest, Waiting, Terminal, CloseRow, Leave, Stop, api, people
  <1>3. FreshInv'
    BY DEF IvrInv, FreshInv, At, CloseRow, Leave, api, people
  <1>4. CopiesInv'
    BY IvrAssumption DEF IvrInv, CopiesInv, HandlersInv, Handlers, AgentRequests, Names, TypeInv, AcceptInv, ActivationInv, Call, Points, Sound, Routed, Accepted, FreshInv, NoCall, Idle, At, NoRequest, Waiting, Terminal, CloseRow, Leave, Stop, api, people
  <1>5. AcceptInv'
    BY IvrAssumption DEF IvrInv, AcceptInv, CopiesInv, HandlersInv, Handlers, AgentRequests, Names, HandlersTakeTurns, FreshInv, Sound, Accepted, TypeInv, Points, NoCall, Idle, At, NoRequest, Waiting, Terminal, CloseRow, Leave, Stop, api, people
  <1>6. ActivationInv'
    BY DEF IvrInv, ActivationInv, CloseRow, Leave, api, people
  <1>7. HandlersTakeTurns'
    BY IvrAssumption DEF IvrInv, HandlersTakeTurns, HandlersInv, Handlers, AgentRequests, Names, FreshInv, Points, NoCall, Idle, At, NoRequest, Waiting, Terminal, CloseRow, Leave, Stop, api, people
  <1>8. NoVoiceBeforeAccept'
    BY DEF IvrInv, NoVoiceBeforeAccept, CloseRow, Leave, api, people
  <1> QED
    BY <1>1, <1>2, <1>3, <1>4, <1>5, <1>6, <1>7, <1>8 DEF IvrInv

LEMMA HangUpStep ==
    ASSUME IvrInv, HangUp PROVE IvrInv'
  <1>1. TypeInv'
    BY DEF IvrInv, TypeInv, HangUp, api, people
  <1>2. HandlersInv'
    BY DEF IvrInv, HandlersInv, HangUp, api, people
  <1>3. FreshInv'
    BY DEF IvrInv, FreshInv, At, HangUp, api, people
  <1>4. CopiesInv'
    BY DEF IvrInv, CopiesInv, Sound, Routed, Accepted, HangUp, api, people
  <1>5. AcceptInv'
    BY DEF IvrInv, AcceptInv, At, Accepted, HangUp, api, people
  <1>6. ActivationInv'
    BY DEF IvrInv, ActivationInv, HangUp, api, people
  <1>7. HandlersTakeTurns'
    BY DEF IvrInv, HandlersTakeTurns, At, HangUp, api, people
  <1>8. NoVoiceBeforeAccept'
    BY DEF IvrInv, NoVoiceBeforeAccept, HangUp, api, people
  <1> QED
    BY <1>1, <1>2, <1>3, <1>4, <1>5, <1>6, <1>7, <1>8 DEF IvrInv

LEMMA ProcessTerminateStep ==
    ASSUME IvrInv, ProcessTerminate PROVE IvrInv'
  <1>1. TypeInv'
    BY IvrAssumption DEF IvrInv, TypeInv, HandlersInv, Handlers, AgentRequests, Names, CopiesInv, AcceptInv, Call, Points, Routed, NoCall, Idle, At, NoRequest, Waiting, Terminal, ProcessTerminate, Over, api, people
  <1>2. HandlersInv'
    BY DEF IvrInv, HandlersInv, ProcessTerminate, Over, api, people
  <1>3. FreshInv'
    BY DEF IvrInv, FreshInv, At, ProcessTerminate, Over, api, people
  <1>4. CopiesInv'
    BY DEF IvrInv, CopiesInv, Sound, Routed, Accepted, ProcessTerminate, Over, api, people
  <1>5. AcceptInv'
    BY DEF IvrInv, AcceptInv, At, Accepted, ProcessTerminate, Over, api, people
  <1>6. ActivationInv'
    BY DEF IvrInv, ActivationInv, ProcessTerminate, Over, api, people
  <1>7. HandlersTakeTurns'
    BY DEF IvrInv, HandlersTakeTurns, At, ProcessTerminate, Over, api, people
  <1>8. NoVoiceBeforeAccept'
    BY DEF IvrInv, NoVoiceBeforeAccept, ProcessTerminate, Over, api, people
  <1> QED
    BY <1>1, <1>2, <1>3, <1>4, <1>5, <1>6, <1>7, <1>8 DEF IvrInv

LEMMA AskClaimStep ==
    ASSUME NEW a \in Agents, IvrInv, AskClaim(a) PROVE IvrInv'
  <1>1. TypeInv'
    BY DEF IvrInv, TypeInv, AskClaim, Ask, Asks, Shown, api, people
  <1>2. HandlersInv'
    BY IvrAssumption DEF IvrInv, TypeInv, HandlersInv, Handlers, AgentRequests, Names, Call, Points, NoCall, Idle, At, NoRequest, Waiting, Terminal, AskClaim, Ask, Asks, Shown, api, people
  <1>3. FreshInv'
    BY IvrAssumption DEF IvrInv, FreshInv, HandlersInv, Handlers, AgentRequests, Names, Points, NoCall, Idle, At, NoRequest, Waiting, Terminal, AskClaim, Ask, Asks, Shown, api, people
  <1>4. CopiesInv'
    BY IvrAssumption DEF IvrInv, CopiesInv, HandlersInv, Handlers, AgentRequests, Names, TypeInv, AcceptInv, ActivationInv, Call, Points, Sound, Routed, Accepted, FreshInv, NoCall, Idle, At, NoRequest, Waiting, Terminal, AskClaim, Ask, Asks, Shown, api, people
  <1>5. AcceptInv'
    BY DEF IvrInv, AcceptInv, At, Accepted, AskClaim, Ask, Asks, Shown, api, people
  <1>6. ActivationInv'
    BY DEF IvrInv, ActivationInv, AskClaim, Ask, Asks, Shown, api, people
  <1>7. HandlersTakeTurns'
    BY DEF IvrInv, HandlersTakeTurns, At, AskClaim, Ask, Asks, Shown, api, people
  <1>8. NoVoiceBeforeAccept'
    BY DEF IvrInv, NoVoiceBeforeAccept, AskClaim, Ask, Asks, Shown, api, people
  <1> QED
    BY <1>1, <1>2, <1>3, <1>4, <1>5, <1>6, <1>7, <1>8 DEF IvrInv

LEMMA ClaimCallStep ==
    ASSUME NEW a \in Agents, IvrInv, ClaimCall(a) PROVE IvrInv'
  <1>1. TypeInv'
    BY DEF IvrInv, TypeInv, ClaimCall, Asks, api, people
  <1>2. HandlersInv'
    BY IvrAssumption DEF IvrInv, TypeInv, HandlersInv, Handlers, AgentRequests, Names, Call, Points, NoCall, Idle, At, NoRequest, Waiting, Terminal, ClaimCall, Asks, Answered, api, people
  <1>3. FreshInv'
    BY IvrAssumption DEF IvrInv, FreshInv, HandlersInv, Handlers, AgentRequests, Names, Points, NoCall, Idle, At, NoRequest, Waiting, Terminal, ClaimCall, Asks, Answered, api, people
  <1>4. CopiesInv'
    BY IvrAssumption DEF IvrInv, CopiesInv, HandlersInv, Handlers, AgentRequests, Names, TypeInv, AcceptInv, ActivationInv, Call, Points, Sound, Routed, Accepted, FreshInv, NoCall, Idle, At, NoRequest, Waiting, Terminal, ClaimCall, Asks, Answered, api, people
  <1>5. AcceptInv'
    BY DEF IvrInv, AcceptInv, At, Accepted, ClaimCall, Asks, api, people
  <1>6. ActivationInv'
    BY IvrAssumption DEF IvrInv, ActivationInv, HandlersInv, Handlers, AgentRequests, Names, FreshInv, Points, TypeInv, Call, NoCall, Idle, At, NoRequest, Waiting, Terminal, ClaimCall, Asks, Answered, api, people
  <1>7. HandlersTakeTurns'
    BY DEF IvrInv, HandlersTakeTurns, At, ClaimCall, Asks, api, people
  <1>8. NoVoiceBeforeAccept'
    BY DEF IvrInv, NoVoiceBeforeAccept, ClaimCall, Asks, api, people
  <1> QED
    BY <1>1, <1>2, <1>3, <1>4, <1>5, <1>6, <1>7, <1>8 DEF IvrInv

LEMMA AskDeclineStep ==
    ASSUME NEW a \in Agents, IvrInv, AskDecline(a) PROVE IvrInv'
  <1>1. TypeInv'
    BY DEF IvrInv, TypeInv, AskDecline, Ask, Asks, api, people
  <1>2. HandlersInv'
    BY IvrAssumption DEF IvrInv, TypeInv, HandlersInv, Handlers, AgentRequests, Names, Call, Points, NoCall, Idle, At, NoRequest, Waiting, Terminal, AskDecline, Ask, Asks, api, people
  <1>3. FreshInv'
    BY IvrAssumption DEF IvrInv, FreshInv, HandlersInv, Handlers, AgentRequests, Names, Points, NoCall, Idle, At, NoRequest, Waiting, Terminal, AskDecline, Ask, Asks, api, people
  <1>4. CopiesInv'
    BY DEF IvrInv, CopiesInv, Sound, Routed, Accepted, AskDecline, Ask, Asks, api, people
  <1>5. AcceptInv'
    BY DEF IvrInv, AcceptInv, At, Accepted, AskDecline, Ask, Asks, api, people
  <1>6. ActivationInv'
    BY DEF IvrInv, ActivationInv, AskDecline, Ask, Asks, api, people
  <1>7. HandlersTakeTurns'
    BY DEF IvrInv, HandlersTakeTurns, At, AskDecline, Ask, Asks, api, people
  <1>8. NoVoiceBeforeAccept'
    BY DEF IvrInv, NoVoiceBeforeAccept, AskDecline, Ask, Asks, api, people
  <1> QED
    BY <1>1, <1>2, <1>3, <1>4, <1>5, <1>6, <1>7, <1>8 DEF IvrInv

LEMMA DeclineStep ==
    ASSUME NEW a \in Agents, IvrInv, Decline(a) PROVE IvrInv'
  <1>1. TypeInv'
    <2>1. CASE SaveIvr([req[a].call EXCEPT !.declined = @ \cup {a}])
      BY <2>1, DeclineTyped
    <2>2. CASE UNCHANGED row
      BY <2>2, IvrAssumption, Records, FieldsOfCall, FieldsOfHandlers, AnsweredMoves, SaveIvrWrites
        DEF IvrInv, TypeInv, HandlersInv, CopiesInv, Routed, At, Names, Points, Waiting, Terminal, Decline, Asks, api, people
    <2> QED
      BY <2>1, <2>2 DEF Decline, At, EndAtMeta, Names
  <1>2. HandlersInv'
    BY IvrAssumption DEF IvrInv, TypeInv, HandlersInv, Handlers, AgentRequests, Names, Call, Points, NoCall, Idle, At, NoRequest, Waiting, Terminal, Decline, Asks, Answered, SaveIvr, api, people
  <1>3. FreshInv'
    <2>1. CASE SaveIvr([req[a].call EXCEPT !.declined = @ \cup {a}])
      BY <2>1, IvrAssumption DEF IvrInv, FreshInv, HandlersInv, Handlers, AgentRequests, Names, Points, NoCall, Idle, At, NoRequest, Waiting, Terminal, Decline, Asks, Answered, SaveIvr, api, people
    <2>2. CASE UNCHANGED row
      BY <2>2, IvrAssumption, Records, FieldsOfCall, FieldsOfHandlers, AnsweredMoves, SaveIvrWrites
        DEF IvrInv, FreshInv, TypeInv, At, Names, Points, Waiting, Terminal, Decline, Asks, api, people
    <2> QED
      BY <2>1, <2>2 DEF Decline, At, EndAtMeta, Names
  <1>4. CopiesInv'
    <2>1. CASE SaveIvr([req[a].call EXCEPT !.declined = @ \cup {a}])
      BY <2>1, IvrAssumption DEF IvrInv, CopiesInv, HandlersInv, Handlers, AgentRequests, Names, TypeInv, AcceptInv, ActivationInv, Call, Points, Sound, Routed, Accepted, FreshInv, NoCall, Idle, At, NoRequest, Waiting, Terminal, Decline, Asks, Answered, SaveIvr, api, people
    <2>2. CASE UNCHANGED row
      BY <2>2, IvrAssumption, Records, FieldsOfCall, FieldsOfHandlers, AnsweredMoves, SaveIvrWrites
        DEF IvrInv, CopiesInv, TypeInv, AcceptInv, Sound, Routed, Accepted, At, Names, Points, Waiting, Terminal, Decline, Asks, api, people
    <2> QED
      BY <2>1, <2>2 DEF Decline, At, EndAtMeta, Names
  <1>5. AcceptInv'
    BY DEF IvrInv, AcceptInv, At, Accepted, Decline, Asks, api, people
  <1>6. ActivationInv'
    <2>1. CASE SaveIvr([req[a].call EXCEPT !.declined = @ \cup {a}])
      BY <2>1, IvrAssumption DEF IvrInv, ActivationInv, HandlersInv, Handlers, AgentRequests, Names, FreshInv, Points, TypeInv, Call, NoCall, Idle, At, NoRequest, Waiting, Terminal, Decline, Asks, Answered, SaveIvr, api, people
    <2>2. CASE UNCHANGED row
      BY <2>2, IvrAssumption, Records, FieldsOfCall, FieldsOfHandlers, AnsweredMoves, SaveIvrWrites
        DEF IvrInv, ActivationInv, FreshInv, TypeInv, At, Names, Points, Waiting, Terminal, Decline, Asks, api, people
    <2> QED
      BY <2>1, <2>2 DEF Decline, At, EndAtMeta, Names
  <1>7. HandlersTakeTurns'
    BY DEF IvrInv, HandlersTakeTurns, At, Decline, Asks, api, people
  <1>8. NoVoiceBeforeAccept'
    BY DEF IvrInv, NoVoiceBeforeAccept, Decline, Asks, api, people
  <1> QED
    BY <1>1, <1>2, <1>3, <1>4, <1>5, <1>6, <1>7, <1>8 DEF IvrInv

LEMMA BeginActivationStep ==
    ASSUME NEW a \in Agents, IvrInv, BeginActivation(a) PROVE IvrInv'
  <1>1. TypeInv'
    BY DEF IvrInv, TypeInv, BeginActivation, Ask, Asks, Activating, FromIvr, api, people
  <1>2. HandlersInv'
    BY IvrAssumption DEF IvrInv, TypeInv, HandlersInv, Handlers, AgentRequests, Names, Call, Points, NoCall, Idle, At, NoRequest, Waiting, Terminal, BeginActivation, Ask, Asks, Activating, FromIvr, api, people
  <1>3. FreshInv'
    BY IvrAssumption DEF IvrInv, FreshInv, HandlersInv, Handlers, AgentRequests, Names, Points, NoCall, Idle, At, NoRequest, Waiting, Terminal, BeginActivation, Ask, Asks, Activating, FromIvr, api, people
  <1>4. CopiesInv'
    BY DEF IvrInv, CopiesInv, Sound, Routed, Accepted, BeginActivation, Ask, Asks, Activating, FromIvr, api, people
  <1>5. AcceptInv'
    BY DEF IvrInv, AcceptInv, At, Accepted, BeginActivation, Ask, Asks, Activating, FromIvr, api, people
  <1>6. ActivationInv'
    BY DEF IvrInv, ActivationInv, BeginActivation, Ask, Asks, Activating, FromIvr, api, people
  <1>7. HandlersTakeTurns'
    BY DEF IvrInv, HandlersTakeTurns, At, BeginActivation, Ask, Asks, Activating, FromIvr, api, people
  <1>8. NoVoiceBeforeAccept'
    BY DEF IvrInv, NoVoiceBeforeAccept, BeginActivation, Ask, Asks, Activating, FromIvr, api, people
  <1> QED
    BY <1>1, <1>2, <1>3, <1>4, <1>5, <1>6, <1>7, <1>8 DEF IvrInv

LEMMA AgentReadyStep ==
    ASSUME NEW a \in Agents, IvrInv, AgentReady(a) PROVE IvrInv'
  <1>1. TypeInv'
    BY DEF IvrInv, TypeInv, AgentReady, Asks, api, people
  <1>2. HandlersInv'
    <2>1. CASE MayControl(a) /\ row.status = "ACTIVE" /\ req' = [req EXCEPT ![a].at = "metaReady"]
      BY <2>1, IvrAssumption DEF IvrInv, TypeInv, HandlersInv, Handlers, AgentRequests, Names, Call, Points, NoCall, Idle, At, NoRequest, Waiting, Terminal, AgentReady, Asks, Answered, api, people
    <2>2. CASE Answered(a)
      BY <2>2, IvrAssumption, Records, FieldsOfCall, FieldsOfHandlers, AnsweredMoves
        DEF IvrInv, HandlersInv, TypeInv, At, Names, Points, Waiting, Terminal, AgentReady, Asks, api, people
    <2> QED
      BY <2>1, <2>2 DEF AgentReady, At, EndAtMeta, Names
  <1>3. FreshInv'
    BY IvrAssumption DEF IvrInv, FreshInv, HandlersInv, Handlers, AgentRequests, Names, Points, NoCall, Idle, At, NoRequest, Waiting, Terminal, AgentReady, Asks, Answered, api, people
  <1>4. CopiesInv'
    BY SMTT(40), IvrAssumption DEF IvrInv, CopiesInv, HandlersInv, Handlers, AgentRequests, Names, TypeInv, AcceptInv, ActivationInv, Call, Points, Sound, Routed, Accepted, FreshInv, NoCall, Idle, At, NoRequest, Waiting, Terminal, AgentReady, Asks, Answered, api, people
  <1>5. AcceptInv'
    BY DEF IvrInv, AcceptInv, At, Accepted, AgentReady, Asks, api, people
  <1>6. ActivationInv'
    BY IvrAssumption DEF IvrInv, ActivationInv, HandlersInv, Handlers, AgentRequests, Names, FreshInv, Points, TypeInv, Call, NoCall, Idle, At, NoRequest, Waiting, Terminal, AgentReady, Asks, Answered, api, people
  <1>7. HandlersTakeTurns'
    BY DEF IvrInv, HandlersTakeTurns, At, AgentReady, Asks, api, people
  <1>8. NoVoiceBeforeAccept'
    BY DEF IvrInv, NoVoiceBeforeAccept, AgentReady, Asks, api, people
  <1> QED
    BY <1>1, <1>2, <1>3, <1>4, <1>5, <1>6, <1>7, <1>8 DEF IvrInv

LEMMA MetaReadyStep ==
    ASSUME NEW a \in Agents, IvrInv, MetaReady(a) PROVE IvrInv'
  <1>1. TypeInv'
    BY DEF IvrInv, TypeInv, MetaReady, Asks, api, people
  <1>2. HandlersInv'
    <2>1. CASE req' = [req EXCEPT ![a].at = "answer"] /\ media' = "quiet"
      BY <2>1, IvrAssumption DEF IvrInv, TypeInv, HandlersInv, Handlers, AgentRequests, Names, Call, Points, NoCall, Idle, At, NoRequest, Waiting, Terminal, MetaReady, Asks, Answered, api, people
    <2>2. CASE Answered(a) /\ media' \in {media, "quiet"}
      BY <2>2, IvrAssumption, Records, FieldsOfCall, FieldsOfHandlers, AnsweredMoves
        DEF IvrInv, HandlersInv, TypeInv, At, Names, Points, Waiting, Terminal, MetaReady, Asks, api, people
    <2> QED
      BY <2>1, <2>2 DEF MetaReady, At, EndAtMeta, Names
  <1>3. FreshInv'
    BY IvrAssumption DEF IvrInv, FreshInv, HandlersInv, Handlers, AgentRequests, Names, Points, NoCall, Idle, At, NoRequest, Waiting, Terminal, MetaReady, Asks, Answered, api, people
  <1>4. CopiesInv'
    <2>1. CASE req' = [req EXCEPT ![a].at = "answer"] /\ media' = "quiet"
      BY <2>1, IvrAssumption, Records, FieldsOfCall, FieldsOfHandlers, AnsweredMoves
        DEF IvrInv, CopiesInv, TypeInv, AcceptInv, Sound, Routed, Accepted, At, Names, Points, Waiting, Terminal, MetaReady, Asks, api, people
    <2>2. CASE Answered(a) /\ media' \in {media, "quiet"}
      BY <2>2, IvrAssumption, Records, FieldsOfCall, FieldsOfHandlers, AnsweredMoves
        DEF IvrInv, CopiesInv, TypeInv, AcceptInv, Sound, Routed, Accepted, At, Names, Points, Waiting, Terminal, MetaReady, Asks, api, people
    <2> QED
      BY <2>1, <2>2 DEF MetaReady, At, EndAtMeta, Names
  <1>5. AcceptInv'
    BY DEF IvrInv, AcceptInv, At, Accepted, MetaReady, Asks, api, people
  <1>6. ActivationInv'
    BY IvrAssumption DEF IvrInv, ActivationInv, HandlersInv, Handlers, AgentRequests, Names, FreshInv, Points, TypeInv, Call, NoCall, Idle, At, NoRequest, Waiting, Terminal, MetaReady, Asks, Answered, api, people
  <1>7. HandlersTakeTurns'
    BY DEF IvrInv, HandlersTakeTurns, At, MetaReady, Asks, api, people
  <1>8. NoVoiceBeforeAccept'
    BY DEF IvrInv, NoVoiceBeforeAccept, MetaReady, Asks, api, people
  <1> QED
    BY <1>1, <1>2, <1>3, <1>4, <1>5, <1>6, <1>7, <1>8 DEF IvrInv

LEMMA AnswerStep ==
    ASSUME NEW a \in Agents, IvrInv, Answer(a) PROVE IvrInv'
  <1>1. TypeInv'
    <2>1. req[a].call \in Call
      BY FieldsOfHandlers DEF IvrInv
    <2> QED
      BY <2>1, AgentState DEF IvrInv, TypeInv, Answer
  <1>2. HandlersInv'
    BY IvrAssumption DEF IvrInv, TypeInv, HandlersInv, Handlers, AgentRequests, Names, Call, Points, NoCall, Idle, At, NoRequest, Waiting, Terminal, Answer, Asks, Answered, api, people
  <1>3. FreshInv'
    BY DEF IvrInv, FreshInv, At, Answer, Asks, api, people
  <1>4. CopiesInv'
    BY IvrAssumption DEF IvrInv, CopiesInv, HandlersInv, Handlers, AgentRequests, Names, TypeInv, AcceptInv, ActivationInv, Call, Points, Sound, Routed, Accepted, FreshInv, NoCall, Idle, At, NoRequest, Waiting, Terminal, Answer, Asks, Answered, api, people
  <1>5. AcceptInv'
    BY DEF IvrInv, AcceptInv, At, Accepted, Answer, Asks, api, people
  <1>6. ActivationInv'
    BY IvrAssumption DEF IvrInv, ActivationInv, HandlersInv, Handlers, AgentRequests, Names, FreshInv, Points, TypeInv, Call, NoCall, Idle, At, NoRequest, Waiting, Terminal, Answer, Asks, Answered, api, people
  <1>7. HandlersTakeTurns'
    BY DEF IvrInv, HandlersTakeTurns, At, Answer, Asks, api, people
  <1>8. NoVoiceBeforeAccept'
    BY DEF IvrInv, NoVoiceBeforeAccept, Answer, Asks, api, people
  <1> QED
    BY <1>1, <1>2, <1>3, <1>4, <1>5, <1>6, <1>7, <1>8 DEF IvrInv

LEMMA TerminateStep ==
    ASSUME NEW a \in Agents, IvrInv, Terminate(a) PROVE IvrInv'
  <1>1. TypeInv'
    BY DEF IvrInv, TypeInv, Terminate, Asks, Shown, api, people
  <1>2. HandlersInv'
    BY IvrAssumption DEF IvrInv, TypeInv, HandlersInv, Handlers, AgentRequests, Names, Call, Points, NoCall, Idle, At, NoRequest, Waiting, Terminal, Terminate, Asks, Shown, api, people
  <1>3. FreshInv'
    BY IvrAssumption DEF IvrInv, FreshInv, HandlersInv, Handlers, AgentRequests, Names, Points, NoCall, Idle, At, NoRequest, Waiting, Terminal, Terminate, Asks, Shown, api, people
  <1>4. CopiesInv'
    BY IvrAssumption DEF IvrInv, CopiesInv, HandlersInv, Handlers, AgentRequests, Names, TypeInv, AcceptInv, ActivationInv, Call, Points, Sound, Routed, Accepted, FreshInv, NoCall, Idle, At, NoRequest, Waiting, Terminal, Terminate, Asks, Shown, api, people
  <1>5. AcceptInv'
    BY DEF IvrInv, AcceptInv, At, Accepted, Terminate, Asks, Shown, api, people
  <1>6. ActivationInv'
    BY DEF IvrInv, ActivationInv, Terminate, Asks, Shown, api, people
  <1>7. HandlersTakeTurns'
    BY DEF IvrInv, HandlersTakeTurns, At, Terminate, Asks, Shown, api, people
  <1>8. NoVoiceBeforeAccept'
    BY DEF IvrInv, NoVoiceBeforeAccept, Terminate, Asks, Shown, api, people
  <1> QED
    BY <1>1, <1>2, <1>3, <1>4, <1>5, <1>6, <1>7, <1>8 DEF IvrInv

LEMMA EndRowStep ==
    ASSUME NEW a \in Agents, IvrInv, EndRow(a) PROVE IvrInv'
  <1>1. TypeInv'
    BY ZenonT(60), IvrAssumption DEF IvrInv, TypeInv, HandlersInv, Handlers, AgentRequests, Names, CopiesInv, AcceptInv, Call, Points, Routed, NoCall, Idle, At, NoRequest, Waiting, Terminal, EndRow, Asks, Answered, Over, api, people
  <1>2. HandlersInv'
    BY IvrAssumption DEF IvrInv, TypeInv, HandlersInv, Handlers, AgentRequests, Names, Call, Points, NoCall, Idle, At, NoRequest, Waiting, Terminal, EndRow, Asks, Answered, Over, api, people
  <1>3. FreshInv'
    BY DEF IvrInv, FreshInv, At, EndRow, Asks, Over, api, people
  <1>4. CopiesInv'
    BY IvrAssumption DEF IvrInv, CopiesInv, HandlersInv, Handlers, AgentRequests, Names, TypeInv, AcceptInv, ActivationInv, Call, Points, Sound, Routed, Accepted, FreshInv, NoCall, Idle, At, NoRequest, Waiting, Terminal, EndRow, Asks, Answered, Over, api, people
  <1>5. AcceptInv'
    BY DEF IvrInv, AcceptInv, At, Accepted, EndRow, Asks, Over, api, people
  <1>6. ActivationInv'
    BY IvrAssumption DEF IvrInv, ActivationInv, HandlersInv, Handlers, AgentRequests, Names, FreshInv, Points, TypeInv, Call, NoCall, Idle, At, NoRequest, Waiting, Terminal, EndRow, Asks, Answered, Over, api, people
  <1>7. HandlersTakeTurns'
    BY DEF IvrInv, HandlersTakeTurns, At, EndRow, Asks, Over, api, people
  <1>8. NoVoiceBeforeAccept'
    BY DEF IvrInv, NoVoiceBeforeAccept, EndRow, Asks, Over, api, people
  <1> QED
    BY <1>1, <1>2, <1>3, <1>4, <1>5, <1>6, <1>7, <1>8 DEF IvrInv

LEMMA ConnectStep ==
    ASSUME NEW a \in Agents, IvrInv, Connect(a) PROVE IvrInv'
  <1>1. TypeInv'
    BY DEF IvrInv, TypeInv, Connect, api, people
  <1>2. HandlersInv'
    BY DEF IvrInv, HandlersInv, Connect, api, people
  <1>3. FreshInv'
    BY DEF IvrInv, FreshInv, At, Connect, api, people
  <1>4. CopiesInv'
    BY DEF IvrInv, CopiesInv, Sound, Routed, Accepted, Connect, api, people
  <1>5. AcceptInv'
    BY IvrAssumption DEF IvrInv, AcceptInv, CopiesInv, HandlersInv, Handlers, AgentRequests, Names, HandlersTakeTurns, FreshInv, Sound, Accepted, TypeInv, Points, NoCall, Idle, At, NoRequest, Waiting, Terminal, Connect, api, people
  <1>6. ActivationInv'
    BY DEF IvrInv, ActivationInv, Connect, api, people
  <1>7. HandlersTakeTurns'
    BY DEF IvrInv, HandlersTakeTurns, At, Connect, api, people
  <1>8. NoVoiceBeforeAccept'
    BY DEF IvrInv, NoVoiceBeforeAccept, Connect, api, people
  <1> QED
    BY <1>1, <1>2, <1>3, <1>4, <1>5, <1>6, <1>7, <1>8 DEF IvrInv

LEMMA DisconnectStep ==
    ASSUME NEW a \in Agents, IvrInv, Disconnect(a) PROVE IvrInv'
  <1>1. TypeInv'
    BY DEF IvrInv, TypeInv, Disconnect, api, people
  <1>2. HandlersInv'
    BY DEF IvrInv, HandlersInv, Disconnect, api, people
  <1>3. FreshInv'
    BY DEF IvrInv, FreshInv, At, Disconnect, api, people
  <1>4. CopiesInv'
    BY DEF IvrInv, CopiesInv, Sound, Routed, Accepted, Disconnect, api, people
  <1>5. AcceptInv'
    BY DEF IvrInv, AcceptInv, At, Accepted, Disconnect, api, people
  <1>6. ActivationInv'
    BY DEF IvrInv, ActivationInv, Disconnect, api, people
  <1>7. HandlersTakeTurns'
    BY DEF IvrInv, HandlersTakeTurns, At, Disconnect, api, people
  <1>8. NoVoiceBeforeAccept'
    BY DEF IvrInv, NoVoiceBeforeAccept, Disconnect, api, people
  <1> QED
    BY <1>1, <1>2, <1>3, <1>4, <1>5, <1>6, <1>7, <1>8 DEF IvrInv

LEMMA ElapseStep ==
    ASSUME NEW limit \in {"menu", "sector", "queue"}, IvrInv, Elapse(limit) PROVE IvrInv'
  <1>1. TypeInv'
    BY DEF IvrInv, TypeInv, Elapse, api, people
  <1>2. HandlersInv'
    BY DEF IvrInv, HandlersInv, Elapse, api, people
  <1>3. FreshInv'
    BY DEF IvrInv, FreshInv, At, Elapse, api, people
  <1>4. CopiesInv'
    BY DEF IvrInv, CopiesInv, Sound, Routed, Accepted, Elapse, api, people
  <1>5. AcceptInv'
    BY DEF IvrInv, AcceptInv, At, Accepted, Elapse, api, people
  <1>6. ActivationInv'
    BY DEF IvrInv, ActivationInv, Elapse, api, people
  <1>7. HandlersTakeTurns'
    BY DEF IvrInv, HandlersTakeTurns, At, Elapse, api, people
  <1>8. NoVoiceBeforeAccept'
    BY DEF IvrInv, NoVoiceBeforeAccept, Elapse, api, people
  <1> QED
    BY <1>1, <1>2, <1>3, <1>4, <1>5, <1>6, <1>7, <1>8 DEF IvrInv

LEMMA RestartStep ==
    ASSUME IvrInv, Restart PROVE IvrInv'
  <1>1. TypeInv'
    BY DEF IvrInv, TypeInv, Restart, CloseMedia, api, people
  <1>2. HandlersInv'
    BY IvrAssumption DEF IvrInv, TypeInv, HandlersInv, Handlers, AgentRequests, Names, Call, Points, NoCall, Idle, At, NoRequest, Waiting, Terminal, Restart, CloseMedia, api, people
  <1>3. FreshInv'
    BY IvrAssumption DEF IvrInv, FreshInv, HandlersInv, Handlers, AgentRequests, Names, Points, NoCall, Idle, At, NoRequest, Waiting, Terminal, Restart, CloseMedia, api, people
  <1>4. CopiesInv'
    BY IvrAssumption DEF IvrInv, CopiesInv, HandlersInv, Handlers, AgentRequests, Names, TypeInv, AcceptInv, ActivationInv, Call, Points, Sound, Routed, Accepted, FreshInv, NoCall, Idle, At, NoRequest, Waiting, Terminal, Restart, CloseMedia, api, people
  <1>5. AcceptInv'
    BY IvrAssumption DEF IvrInv, AcceptInv, CopiesInv, HandlersInv, Handlers, AgentRequests, Names, HandlersTakeTurns, FreshInv, Sound, Accepted, TypeInv, Points, NoCall, Idle, At, NoRequest, Waiting, Terminal, Restart, CloseMedia, api, people
  <1>6. ActivationInv'
    BY IvrAssumption DEF IvrInv, ActivationInv, HandlersInv, Handlers, AgentRequests, Names, FreshInv, Points, TypeInv, Call, NoCall, Idle, At, NoRequest, Waiting, Terminal, Restart, CloseMedia, api, people
  <1>7. HandlersTakeTurns'
    BY IvrAssumption DEF IvrInv, HandlersTakeTurns, HandlersInv, Handlers, AgentRequests, Names, FreshInv, Points, NoCall, Idle, At, NoRequest, Waiting, Terminal, Restart, CloseMedia, api, people
  <1>8. NoVoiceBeforeAccept'
    BY DEF IvrInv, NoVoiceBeforeAccept, Restart, CloseMedia, api, people
  <1> QED
    BY <1>1, <1>2, <1>3, <1>4, <1>5, <1>6, <1>7, <1>8 DEF IvrInv

-----------------------------------------------------------------------------
LEMMA InitInv == Init => IvrInv
  <1> SUFFICES ASSUME Init PROVE IvrInv
    OBVIOUS
  <1>1. HandlersInv
    <2>1. Idle \in [at : Points, call : Call, option : Options \cup {None},
                    meta : {"none", "preAccepted", "accepted"}]
      BY Records DEF Idle, Points
    <2>2. NoRequest \in [at : {"idle", "claim", "decline", "agentReady", "metaReady",
                               "answer", "end"}, call : Call]
      BY Records DEF NoRequest
    <2> QED
      BY <2>1, <2>2 DEF Init, HandlersInv, Handlers, AgentRequests, Names
  <1>2. TypeInv
    BY Records DEF Init, TypeInv, Routed
  <1>3. FreshInv /\ HandlersTakeTurns /\ NoVoiceBeforeAccept
    BY Records DEF Init, FreshInv, HandlersTakeTurns, NoVoiceBeforeAccept, At, Names
  <1>4. CopiesInv /\ AcceptInv /\ ActivationInv
    BY Records DEF Init, CopiesInv, AcceptInv, ActivationInv, Sound, Routed, At, Names
  <1> QED
    BY <1>1, <1>2, <1>3, <1>4 DEF IvrInv

LEMMA StutterStep == ASSUME IvrInv, UNCHANGED vars PROVE IvrInv'
  <1>1. /\ TypeInv' /\ HandlersInv' /\ FreshInv' /\ HandlersTakeTurns'
    BY DEF IvrInv, TypeInv, HandlersInv, FreshInv, HandlersTakeTurns, At, vars, api, people
  <1>2. CopiesInv' /\ AcceptInv' /\ ActivationInv' /\ NoVoiceBeforeAccept'
    BY DEF IvrInv, CopiesInv, AcceptInv, ActivationInv, NoVoiceBeforeAccept, Sound, Routed,
           Accepted, At, vars, api, people
  <1> QED
    BY <1>1, <1>2 DEF IvrInv

LEMMA NextInv == ASSUME IvrInv, [Next]_vars PROVE IvrInv'
  <1>1. CASE UNCHANGED vars
    BY <1>1, StutterStep
  <1>2. CASE Start \/ Starting
    BY <1>2, StartStep, StartMarkStep, PreAcceptStep, CheckLatestStep, AcceptStep,
       StartPlayStep, UpdateUnclaimedStep, StartFailedStep, FailRowStep DEF Starting
  <1>3. CASE TickStart \/ Ticking
    BY <1>3, TickStartStep, TickCheckStep, TickDigitsStep, RouteUpdateStep, RoutePlayStep,
       WidenStep, NotifyStep, CloseStep, CloseRowStep DEF Ticking
  <1>4. CASE Recovering
    BY <1>4, FindWaitingStep, RecoverStep, RouteUpdateStep, RoutePlayStep, CloseStep,
       CloseRowStep DEF Recovering
  <1>5. ASSUME NEW a \in Agents, Asking(a) PROVE IvrInv'
    BY <1>5, AskClaimStep, ClaimCallStep, AskDeclineStep, DeclineStep, BeginActivationStep,
       AgentReadyStep, MetaReadyStep, AnswerStep, TerminateStep, EndRowStep, ConnectStep,
       DisconnectStep DEF Asking
  <1>6. CASE HangUp \/ ProcessTerminate \/ Restart
    BY <1>6, HangUpStep, ProcessTerminateStep, RestartStep
  <1>7. ASSUME NEW limit \in {"menu", "sector", "queue"}, Elapse(limit) PROVE IvrInv'
    BY <1>7, ElapseStep
  <1> QED
    BY <1>1, <1>2, <1>3, <1>4, <1>5, <1>6, <1>7 DEF Next

LEMMA Invariant == Spec => []IvrInv
  BY InitInv, NextInv, PTL DEF Spec

(* The row, the handlers and what the process keeps of the call always have *)
(* their shape, and a call for one sector only has its option.              *)
THEOREM IvrIsTyped == Spec => []TypeInv
  BY Invariant, PTL DEF IvrInv

(* start and tick never run together, and busy is neither lost nor left     *)
(* behind, whatever fails in them and whatever recover does meanwhile.      *)
THEOREM TurnsAreTaken == Spec => []HandlersTakeTurns
  BY Invariant, PTL DEF IvrInv

(* No prompt is played before Meta has accepted the call, in any number of  *)
(* restarts: the state that is written never says more than Meta.           *)
THEOREM VoiceFollowsAccept == Spec => []NoVoiceBeforeAccept
  BY Invariant, PTL DEF IvrInv

(* activateMedia of a call of the queue needs no accept of its own.         *)
THEOREM AgentsGetAcceptedCalls == Spec => []AgentHasAnAcceptedCall
  <1>1. IvrInv => AgentHasAnAcceptedCall
    BY DEF IvrInv, CopiesInv, AgentHasAnAcceptedCall, Accepted
  <1> QED
    BY <1>1, Invariant, PTL

-----------------------------------------------------------------------------
LEMMA AgentStays ==
    ASSUME IvrInv, [Next]_vars, row.agent # None PROVE row'.agent = row.agent
  <1>1. row \in Call
    BY DEF IvrInv, TypeInv
  <1>2. CASE UNCHANGED row
    BY <1>2
  <1>3. ASSUME NEW call \in Call, SaveIvr(call) PROVE row'.agent = row.agent
    BY <1>1, <1>3, SaveIvrWrites
  <1>4. ASSUME NEW s \in {"ENDED", "FAILED"}, row' = [row EXCEPT !.status = s]
        PROVE  row'.agent = row.agent
    BY <1>1, <1>4, StatusWrites
  <1>5. CASE Start
    BY <1>5, Records DEF Start, IvrInv, FreshInv
  <1>6. CASE StartMark
    <2>1. [NoCall EXCEPT !.phase = "MENU"] \in Call
      BY Records DEF Call
    <2> QED
      BY <1>3, <1>6, <2>1 DEF StartMark
  <1>7. CASE UpdateUnclaimed
    BY <1>7 DEF UpdateUnclaimed, Waiting
  <1>8. ASSUME NEW t \in {"tick", "recover"}, RouteUpdate(t) PROVE row'.agent = row.agent
    <2> DEFINE state == [thread[t].call EXCEPT !.phase = "QUEUE", !.option = thread[t].option,
                            !.fallback = (thread[t].option = None), !.declined = {}]
    <2>1. thread[t].call \in Call /\ thread[t].option \in Options \cup {None}
      BY FieldsOfHandlers DEF IvrInv, Names
    <2>2. state \in Call
      BY <2>1, QueueState, Zenon
    <2>3. SaveIvr(state)
      BY <1>8, Zenon DEF RouteUpdate
    <2> QED
      BY <1>3, <2>2, <2>3
  <1>9. CASE Widen
    <2>1. thread["tick"].call \in Call
      BY FieldsOfHandlers DEF IvrInv, Names
    <2> QED
      BY <1>3, <1>9, <2>1, WideState DEF Widen
  <1>10. ASSUME NEW a \in Agents, Decline(a) PROVE row'.agent = row.agent
    <2>1. req[a].call \in Call
      BY FieldsOfHandlers DEF IvrInv
    <2> QED
      BY <1>2, <1>3, <1>10, <2>1, DeclinedState DEF Decline
  <1>11. ASSUME NEW a \in Agents, Answer(a) PROVE FALSE
    BY <1>11 DEF Answer, Asks, IvrInv, ActivationInv
  <1>12. CASE Starting
    BY <1>2, <1>4, <1>6, <1>7, <1>12 DEF Starting, PreAccept, CheckLatest, Accept, StartPlay,
       StartFailed, FailRow
  <1>13. CASE TickStart \/ Ticking
    BY <1>2, <1>4, <1>8, <1>9, <1>13 DEF Ticking, TickStart, TickCheck, TickDigits, RoutePlay,
       Notify, Close, CloseRow
  <1>14. CASE Recovering
    BY <1>2, <1>4, <1>8, <1>14 DEF Recovering, FindWaiting, Recover, RoutePlay, Close, CloseRow
  <1>15. ASSUME NEW a \in Agents, Asking(a) PROVE row'.agent = row.agent
    BY <1>2, <1>4, <1>10, <1>11, <1>15 DEF Asking, AskClaim, ClaimCall, AskDecline,
       BeginActivation, Ask, AgentReady, MetaReady, Terminate, EndRow, Over, Connect, Disconnect
  <1>16. CASE HangUp \/ ProcessTerminate \/ Restart
    BY <1>2, <1>4, <1>16 DEF HangUp, ProcessTerminate, Over, Restart
  <1>17. ASSUME NEW limit \in {"menu", "sector", "queue"}, Elapse(limit) PROVE UNCHANGED row
    BY <1>17 DEF Elapse
  <1> QED
    BY <1>2, <1>5, <1>12, <1>13, <1>14, <1>15, <1>16, <1>17 DEF Next, vars

(* Whoever answers a call of the queue keeps it: of all the agents who see  *)
(* it, and whatever the tick, a recovery or a decline writes at the same    *)
(* time, no other is written into its row.                                  *)
THEOREM OneAgentOnly == Spec => OneAgentAnswers
  <1>1. IvrInv /\ [Next]_vars => [row.agent # None => row'.agent = row.agent]_vars
    BY AgentStays
  <1> QED
    BY <1>1, Invariant, PTL DEF Spec, OneAgentAnswers
=============================================================================
