# Formal verification of the WhatsApp attendance backend

TLA+ models of the backend (Node.js, Express, Socket.IO, Prisma/PostgreSQL) and of its
Go media gateway, TLC runs that check them on small instances, and TLAPS proofs of the
results that matter most for every value of the constants.

- `tlc -config transfer_protocol.cfg MCCallTransfer.tla` checks a run (`call_*.cfg` with
  `MCCallControl.tla`, `gateway_*.cfg` with `MCMediaGateway.tla`, `chat.cfg` with
  `MCChat.tla`, `ivr*.cfg` with `MCIvr.tla`),
- `tlapm CallTransferSafety.tla` checks the proofs of a module (the others with theorems are
  `CallTransferProofs`, `CallControlProofs`, `CallControlSafety`, `CallControlOutcomes`,
  `MediaGatewayProofs`, `IvrProofs` and `ChatProofs`).

`PROJECT.json` maps every definition to the lines it models and lists the runs, the
mutants that show that a property can fail, the hazards and the theorems.

## 1. The system

Paths are relative to the repository. The API is **one Node.js process**: JavaScript runs
alone between two `await`s, so operations interleave only there (a database statement, a
call of the gateway with a 15 s timeout, a call of Meta's Graph API). The media gateway is
another process, multi-threaded (Go, WebRTC). PostgreSQL is the only thing that survives a
restart of the API; the gateway survives it too, with the sessions it had.

| Component | State | Operations | Hard behaviour | What makes it correct |
|---|---|---|---|---|
| **Call transfer** `src/services/callTransfer.service.js` | `CallTransfer` rows (PENDING, ACCEPTED, then REJECTED, CANCELLED, EXPIRED or COMPLETED); partial unique index: one open row per call | request, accept, reject, cancel, complete (from media-ready), expire (worker, 5 s), cancel for an ended call | every check is an await away from its write; two agents, the worker and Meta's webhooks act on one call; the audio switches before the transaction | one open offer; only an offer the current agent made and the target accepted changes the agent; call and conversation change together; audio, presence and session key follow |
| **Call control** `src/services/call.service.js` | `Call` rows (RINGING, CONNECTING, ACTIVE, five terminal states; `currentAgentId`), four in-memory lock sets | webhooks connect/terminate/status; claim, accept, reject, terminate, initiate, join-media, media-ready | webhooks race the agents' requests; a dozen awaits between the first check and the final UPDATE; Meta may have accepted when a later step fails | a terminal call stays terminal; one agent per call, one call per agent and per conversation; locks are released |
| **Session store** `callSessionStore.js` | `Map` key to client (agent, browser, environment); keys are a call, a transfer or an outbound media session | assertOwner, claim, move, remove; TTL 5 min for media sessions | lost at restart: an absent key accepts anyone | a second browser of an agent cannot control the call |
| **Presence** `callPresence.service.js`, `sockets/socket.js` | per agent: sockets, calls it is busy for, channels | connect, disconnect, markBusy, clearBusy, availability | marks and rows are updated by different steps | an agent in a call is not offered another |
| **Media gateway** `media-gateway/main.go` | sessions by id (inbound call id; provisional uuid bound later), the customer's peer, agent peers, the current agent, a `closed` flag | prepare, create, bind, offer/answer, repair, join, ready, current, remove, close; 5 min expiry of provisional sessions; playIvr and its player | handlers run in parallel and release the lock for seconds while ICE gathers; a session closes meanwhile | the customer hears the current agent or one player; no request closes a connection in use or a session of a call; the end of a call releases what it holds |
| **IVR** `callIvr.service.js`, `media-gateway/ivr.go` | `ivrState` of the call (MENU, QUEUE, AGENT), in-memory sessions and busy set; prompt playback and digits in the gateway | start, tick (500 ms), route, decline, recover, close | tick reads the row and writes it later; recovery after a restart | a call leaves the queue once; nobody who declined is rung; a waiting call ends |
| **Call permission** `callPermission.service.js` | `CallPermission` per conversation and number | syncFromMeta, markRequested, reply webhook, expiry | the customer's reply may overtake the request's own bookkeeping; Meta redelivers webhooks | a revoked or expired permission starts no call; a reply is applied once |
| **Conversations** `conversation.service.js` | conversation, assignment, history, 24 h window | create, claim, transfer, release, status, send | check-then-act inside a transaction at READ COMMITTED | one open conversation per contact and channel; a claim has one winner; the history matches |
| **Messages** `message.service.js` | messages by wamid, status | inbound, status webhook, outbound | duplicated, concurrent and reordered webhooks | once per wamid; READ never regresses |
| **Webhook intake** `controllers/whatsapp.controller.js` | none | receive: answers 200, then processes | Meta redelivers; payloads are processed concurrently | no event is applied twice |
| **Signal store**, **deduplicator** | maps with TTL and size limit | put, get, isDuplicate, cleanup | boundaries of time and size | no entry outlives its TTL; the limit holds |
| Channels, templates, media files, Graph client, HTTP layer, sockets' rooms, legal pages | (almost) none | I/O and formatting | | |

How they meet: an inbound call's *connect* webhook creates the `Call` row, prepares the
gateway and starts the IVR or rings the available agents. An agent joins media and reports
*media-ready*; the API then accepts the call at Meta, makes the agent current in the
gateway and writes the row. From then on the agent may transfer the call: the target
accepts, joins media, and its *media-ready* completes the transfer (switch the audio, one
transaction over transfer, call and conversation, release the previous agent). A terminate
webhook, the agent's hang-up or a failure ends the call from anywhere.

## 2. The modules

Each part of the system has a module or a chain of modules with its state and actions, one
with its properties (`...Props`), an `MC...` module that gives the constants values for TLC,
and modules of proofs.

| Part | State and actions | Properties | Proofs | Section |
|---|---|---|---|---|
| Transfer of an active call | `TransferProtocol` (abstract), `CallTransfer` | `CallTransferProps` | `CallTransferProofs`, `CallTransferSafety` | 3 |
| Life of a call | `CallControl` | `CallControlProps` | `CallControlProofs`, `CallControlSafety`, `CallControlOutcomes` | 4 |
| Media gateway | `MediaSessions` (abstract), `MediaGateway` | `MediaGatewayProps` | `MediaGatewayProofs` | 5 |
| IVR and its queue | `CallIvr`, `IvrQueue` | `IvrProps` | `IvrProofs` | 6 |
| Conversations, messages, call permission | `ChatStore`, `Conversations`, `CallPermissions`, `Chat` | `ChatProps` | `ChatProofs` | 7 |

They were written in that order: first what several agents and Meta do to one call, then the
process that carries the audio, then what comes before a call (IVR) and beside it (chat).
The parts meet in the rows of the database and in the requests to the gateway. Presence and
the session store belong to several parts, and each module keeps what its own handlers read
of them. `MediaSessions` is the contract under which the modules of calls use the gateway.

## 3. Call transfer

### How the model corresponds to the code

`CallTransfer` has three groups of variables: the database (`call`, `assigned`,
`transfer`), the API's memory (`busy`: presence, `session`: the session store,
`activating` and `mediaAgents`: the locks of `mediaReady`, `proc`: the requests in flight)
and the gateway (`gateway[c]`: is the session open, which agents are connected, who is
current).

An action is *the answer to one await and the code up to the next await*: the statement's
effect and the continuation are one step, and other requests run in between.
`proc[p].pc` names the await request `p` is blocked on.

| Code | Actions |
|---|---|
| `requestTransfer` 50-85 | `RequestTransfer` (call read, presence read) - `FindTarget` - `CreateTransfer` (insert or P2002, markBusy) |
| `acceptTransfer` 87-111 | `AcceptTransfer` (read, checks, claim) - `TransitionAccepted`, or `TransitionLate` when overdue |
| `rejectTransfer`, `cancelTransfer` | `RejectTransfer`/`CancelTransfer` (read) - `CloseTransfer` (transition, drop the key) - `DropTarget` (removeAgent, clearBusy) |
| `expireDueTransfers` | `ExpireDue` - `DropTarget` |
| `joinMedia` with a transfer | `JoinMedia` - `JoinAgent` |
| `mediaReady`, `activateMedia`, `completeTransfer` | `MediaReady` (locks) - `FindActive` - `FindTransfer` - `WaitForAgentReady` - `SetCurrentAgent` - `CommitHandover` - `RollBack` or `RemoveSource`; every failure is `Abort`, which releases the locks |
| `claimCall`, `terminate`, terminate webhook, `cancelForEndedCall` | `ClaimCall` - `ClaimSession`; `TerminateCall` - `UpdateEnded`, or `CallTerminated`; then `CloseMedia` - `ListOpen` - `CancelOpen` |
| restart of the process | `Restart` |

Abstractions, each harmless for the properties: a request refused before its first effect
is not shown; time is one Boolean per transfer (`due`) that may become true at any moment;
the RTP check of the gateway is a choice (ready and connected, or refused); a database
error is shown only where the code handles one (the handover transaction, under `Faults`);
every call has a conversation, unassigned at first (media-ready does not claim it); agents
are not directors; the online/offline refusal of requestTransfer and the socket events are
left out; since a call has at most one open transfer, the loop of `cancelForEndedCall` has
one round; a worker's round works on one row, and rounds may overlap because `setInterval`
does not wait. A join that replaces the target's own peer is one step.

### What the runs check

Bounds: two agents (three in `transfer_stale`) with one browser each, one call, one to three
transfer rows, two requests in flight plus the worker, at most one restart. Two requests and the worker give every
race of two writers with a third party; two rows give a transfer that follows another one
(back or again to the same agent), where late clean-ups could hit. Row and request
identifiers are symmetric. The system may stop (the call ended, the rows used up), so
deadlock is not checked.

| Run | Checks | Instance |
|---|---|---|
| `transfer_protocol` | `TypeInv`, `OneOpenTransfer`, `AcceptedByOwner`, `ImplementsProtocol` | 2 rows, an agent's requests overlap, faults |
| `transfer_presence` | `MediaFollowsOwner`, `OwnerIsBusy`, `SessionFollowsOwner` | 2 rows, one browser per agent that waits for its answers, no lost answers |
| `transfer_liveness` | `EveryTransferIsDecided` | 1 row, fairness, faults, a restart |

The conditions of `transfer_presence` are necessary. After a restart (no recovery code
restores presence and keys), and with overlapping requests of one agent for transfers of one
call, `OwnerIsBusy` and `MediaFollowsOwner` fail: the clean-up of a closed transfer is an
await later than its row and can hit the next transfer to the same agent. With two browsers of the target,
`SessionFollowsOwner` fails (15 states): a rejection drops the transfer's key while media-ready
runs, the other browser takes it, and the claim after the committed transaction throws. With
lost answers `MediaFollowsOwner` fails too (section 8).

`transfer_protocol` and `transfer_presence` have no restart. That the rows implement the protocol
across one is proved (`HandoverIsSafe`, `RowsImplementProtocol`); of the runs only
`transfer_liveness` has one.

The two rows of `transfer_presence` are necessary. With three, and three agents, this
fails:

| Failing run | What the code does | What the repository says |
|---|---|---|
| `transfer_stale` | `requestTransfer` looks at the call and at the target's presence (callTransfer.service.js:57, 65) and inserts the offer an await later (70), with the agent it read. In between a transfer of the same agent was completed and the next agent has offered the call on, so that the stale offer names as its target the agent who has the call by the time it is inserted. When it is rejected, the clean-up takes the peer and the busy mark of that agent (124-125) | README.md:110 and docs/API.md:495: a rejection, cancellation, expiry or failure keeps the original agent |

`OwnerKeepsMedia` says so of a step. Overlapping requests for a transfer of one call are all
that breaks it, and `OwnerIsBusy` and `MediaFollowsOwner` with it: when they are made one at a
time the three are proved, for any number of agents, browsers, calls and rows (below).

That an agent is in one active call at a time needs two calls and three agents to be
interesting, which is large for TLC; it is proved instead (`AgentsAreInOneCall`).

### Fairness

`FairSpec` assumes that every await is answered (weak fairness of `Step(p)` for each
request: Prisma statements return or throw, gateway calls have a 15 s timeout, the polling
of readiness a deadline), that the worker's interval keeps finding overdue rows
(`ExpireDue`), and that time passes (`Deadline`). Nothing is assumed of agents, browsers,
Meta or the success of a call.

### What is proved

`CallTransferProofs` and `CallTransferSafety`, for any number of agents, browsers, calls,
transfers, requests and restarts, from `ConstantsAssumption` alone:

- **`TypeCorrect`**: `Spec => []TypeInv`. `TypeInv` is `TypeOK` plus `RequestOK`, which says
  that a request blocked on an await still names a call, a transfer that exists, and so on;
  without it the type of the rows is not inductive (a late `CommitHandover` would write
  whatever its record holds).
- **`HandoverIsSafe`**: `Spec => [](OneOpenTransfer /\ AcceptedByOwner)`. `AcceptedByOwner` is
  not inductive: an accept reads the row before its await. `HandoverInv` adds
  `AcceptingByOwner` (a pending row whose accept is under way was offered by the agent who
  is responsible now). A handover could break it for another row of the call only if both
  were open: `OneOpenTransfer` excludes that, which is why the three are proved together.
- **`RowsImplementProtocol`**: `Spec => ImplementsProtocol`, step by step: every action maps to
  `Offer`, `Accept`, `Withdraw`, `HandOver` or a stutter of `TransferProtocol`, using
  `HandoverInv` for the guard of `HandOver`, which the code does not check in its
  transaction.
- **`AgentsAreInOneCall`**: `Spec => []OneActiveCallPerAgent`, from `CallsInv`, which adds
  `LockInv`: a media-ready past its lock holds it alone, and once it has seen that its agent
  is in no other active call this stays so, because only a handover under the same lock
  could change it. The restart drops locks and requests together.
- **`OneOfferIsOpen`**: `Spec => []OneOpenTransfer`, the part of `HandoverInv` that callers use.
- **`KeysFollowTheOwner`**: `Spec => []SessionFollowsOwner` when no agent has two browsers
  (`AgentOf` is injective), with overlapping requests of one browser, lost answers and
  restarts. The key of the call is written by three steps, each awaits after its checks: the
  claim, the handover and the removal of the previous agent. `KeysInv` says what each may rely
  on: a transfer's key belongs to its target, the conversation's attendant is nobody or the
  call's agent (so a claim that saw nobody still has the agent it read), and a completed
  handover keeps its agent until it has moved the key. The last needs `ActivationInv`: one
  media-ready at a time works on a call. The hypothesis is necessary (see above).

Three properties are false of the program in general (`transfer_stale`), and proved of every
run in which the offers of a call are asked for one at a time. That is the hypothesis
`AsksOnce` (module `CallTransferProps`), a formula about what the browsers ask, not about what
the API does with it: a request for a transfer of a call arrives only while no offer of that
call is open and no other request for one is between its reads and its INSERT
(callTransfer.service.js:57-70). Rejections, cancellations, expiries, accepts, joins,
media-readys, claims and ends of calls still arrive at any time, twice and from several
browsers of an agent. The API does not restart (`MaxRestarts = 0`): a restart forgets every
mark and no code restores them.

- **`OwnersAreBusy`**: `Spec /\ AsksOnce => []OwnerIsBusy`, with lost answers of the gateway.
  The mark of an agent is one entry for all the reasons to have it, and `busy` is cleared an
  await after the row that set it was closed. `PresenceInv` says what each entry rests on: a
  transfer *reserves* its target from the INSERT until the entry is cleared (`ReservedOf`: open
  or being dropped), the reserved targets of a call are marked, differ from the responsible
  agent and from each other (`ReserveInv`), the previous agent stays marked and is offered
  nothing until its clean-up is done (`SourceInv`), and what a request for a transfer has read
  still holds when it inserts (`AskInv`, the part that needs `AsksOnce`). So a clean-up never
  clears an entry that something else rests on (`DropClears`, `SourceClears`).
- **`OwnersKeepTheirMedia`**: `Spec /\ AsksOnce => OwnerKeepsMedia`, also with lost answers:
  the property `transfer_stale` refutes. `PeersStay` shows that a drop, the removal of a source
  and the end of a call never take the peer of the responsible agent of an active call nor of
  the agent it is offered to.
- **`OwnersAreHeard`**: `Spec /\ AsksOnce => []MediaFollowsOwner` when no answer of the gateway
  is lost and no transaction of a handover fails (`~Faults`: each of the two leaves the audio
  with an agent who is not responsible, section 8). `MediaInv` adds that the responsible agent
  always has a peer, so that a rollback finds it, and that between the switch and the
  transaction the one who is heard is the target of the transfer while this is open.

It is not enough to assume that no stale row is ever inserted: with four rows an offer can be
inserted while its agent is responsible *again* (it handed the call over and got it back
between the reads and the INSERT), is not stale, and still names a target whose mark a
clean-up of the previous round clears. TLC checked `PresenceInv` and `MediaInv` under
`AsksOnce`, with overlapping requests, on up to three agents, two calls and three rows
(1,609,260 states) before they were proved.

Only model-checked: liveness (out of the prover's reach).

## 4. Call control

### How the model corresponds to the code

`CallControl` is the life of a call up to the conversation: the rows (`call`), Meta (`meta`:
what Meta knows of the call; `due`: the webhooks on their way), the gateway's session
(`media`), the session store and presence (`session`, `busy`), the four lock sets of
`call.service.js`, and the requests and webhooks in flight (`proc`). An action is again the
answer to one await and the code up to the next.

| Code | Actions |
|---|---|
| webhook connect, `processCallEvent` 127-186 | `Connect` (row read, stale and duplicate checks) - `CreateRow` or `UpdateConnecting` - `PrepareMedia` - `PrepareFailed` |
| webhook terminate 187-227 | `Terminate` (row read, status chosen) - `CreateEnded` or `UpdateTerminated` - `CloseMedia` - `Forget` |
| status webhook, `processCallStatus` | `Status` - `UpdateStatus` - on a rejection `CloseMedia` - `Forget` |
| `claimCall` | `ClaimCall` - `Claim` |
| `reject`, `terminate` | `RejectCall`/`TerminateCall` - `AskMeta` - `UpdateByAgent` - `CloseMedia` - `Forget` |
| `joinMedia` | `JoinMedia` - `JoinClaim` - `JoinAgent` |
| `mediaReady`, `activateMedia` | `MediaReady` (locks) - `FindActive` - `FindCall` - `WaitForAgentReady` - `Recheck` - `PreAccept` - `WaitForMetaReady` - `RecheckLive` - `AcceptAtMeta` - `WaitForMetaReady` - `SetCurrentAgent` - `RecheckLive` - `Activate`; from the pre-accept on a failure is `Fail` - `FailRemove` - `FailFind` - `FailMeta` - `FailClose` - `FailUpdate` |
| `initiate`, `initiateOutgoing` | `Initiate` (locks) - `FindAgentCall` - `FindConversationCall` - `InitiateAtMeta` - `BindSession` - `CreateOutbound` |
| customer, Meta, restart | `Customer`, `HangUp`, `Restart` |

Abstractions: RINGING and CONNECTING are one status, since every check of the code takes
both; so are the terminal states that a later terminate keeps (REJECTED, FAILED, BUSY) and
those it writes (ENDED, MISSED). The time of a webhook is a number per event, later for a
later event; the API's clock (`lastEventAt` of a call it makes) falls anywhere between.
Every agent has one browser, conversations are unassigned, `repairMetaSession` is part of
`Recheck`, the permission check and the preparation of outbound media are private to the
request and only decide whether it goes on (`FindConversationCall`). A database error is
only the P2002 of a second creation. The UPDATE and the mark of presence that follows it
without another await are one step.

`past` is a history variable: whether a row was terminal, and whether it became live again.
The code can reopen a row (section 8), and then any guarantee about live calls is
void, so the invariants speak of rows that were not reopened.

### What the runs check

Two requests or webhooks in flight (three in `call_inbound`), one or two
calls, one or two agents: enough for every pair of handlers to race for a row, plus a third
that moves it. Endpoints and webhooks that a run leaves out are covered by another run.

| Run | Checks | Instance |
|---|---|---|
| `call_inbound` | `TypeInv`, `AnsweredCallIsServed`, `EndedCallFreesAgent`, `SessionFollowsAgent` | inbound call, 2 agents, 3 in flight, redelivered webhooks, a restart |
| `call_outbound` | `OneOutboundPerConversation` | two agents, one conversation, connect, ringing and terminate in any order |
| `call_liveness` | `OneLiveCallPerAgent`, `LocksAreReleased` | one agent, a call in and a call out in any order, lost answers and failing clean-ups; fairness as for transfers: every await is answered |

Three of the properties are said of the API process up to its first restart (`restarts = 0`),
after which TLC finds them violated in 14 to 24 states. A restart forgets locks and keys while
the calls go on at Meta and in the gateway, and no code recovers a call that is not in the
IVR: a call accepted just before is served by nobody (`AnsweredCallIsServed`), a second call
to the conversation starts (`OneOutboundPerConversation`), and a media-ready follows without
its key (`SessionFollowsAgent`). `EndedCallFreesAgent` holds across restarts. With lost answers
`AnsweredCallIsServed` fails: when Meta accepts and the answer is lost, the code rejects
instead of terminating, and Meta refuses; so does `OneOutboundPerConversation` (section 8).

`EndedCallFreesAgent` speaks of calls without a transfer, since `CallControl` has none:
`completeTransfer` marks its target an await after its transaction (callTransfer.service.js:210),
when the clean-up of an end may be over. The run makes inbound calls only (the theorem has the
outbound ones too), and a call whose terminate lost the creation of its row (section 8) has no
recorded end and is outside it.

### What is proved

`CallControlProofs`, `CallControlSafety` and `CallControlOutcomes`, from `ConstantsAssumption`
alone, for any number of agents, calls, conversations and requests, with any set of endpoints
and webhooks, redelivery, restarts and, where nothing else is said, faults:

- **`TypeCorrect`**: `Spec => []TypeInv`: the types, and for each `pc` what the blocked request
  names. Every step of a request is shown to change only that request (`Moves`).
- **`NoAgentHasTwoCalls`**: `Spec => []OneLiveCallPerAgent`. The look-up and the write are
  several awaits apart, so the property alone is not inductive. `LockInv` adds: a
  media-ready or initiate holds its agent's lock; no two of them hold the same agent's;
  past its look-up, the agent has no live call but the one it serves. The proof sorts the
  steps by what they do to rows and locks (`Outside`, `Enters`, `Serves`, `Makes`, `Leaves`,
  `Takes`): only `Takes` (`Activate`, `CreateOutbound`) gives a call to an agent, and it
  happens under the lock. `RowsInv` says that a row without a status has no agent, so a
  webhook that writes a stale status cannot give one. The exclusion of reopened rows
  (`Current`) is necessary: a stale webhook can revive a row, which still has its old agent.

- **`EndedCallsFreeTheirAgents`**: `Spec => []EndedCallFreesAgent`. The mark is set by the last
  step of an activation and cleared by the clean-up of an end, each of which works on what it
  read before. `MarksInv` says that whoever is marked is the row's agent, and that once
  Meta's end is recorded the request that recorded it is still there and holds that agent.
  It needs `ActivationInv` (one media-ready at a time works on a call) and `ProgressInv` (what a
  request has seen of its row stays true).
- **`OneCallPerConversation`**: `Spec => []OneOutboundPerConversation`, without faults. The row
  of a call the API makes may be created by a webhook before `initiate` does it. `KnownInv`:
  only a call that Meta knows has webhooks and a row; `LineInv`: the lock of a conversation is
  held by one request; `ConversationInv`: a call that Meta knows and the database does not is
  in the hands of that request, and while it is, the conversation has no other live call.
- **`KeysFollowTheAgent`**: `Spec => []SessionFollowsAgent`, with faults. `KeysInv` ties the key
  to the agent whose peer the gateway has and to the requests past the claim of the key, so
  that the agent an activation writes is the one whose browser holds the key.
- **`AcceptedCallsAreServed`**: `Spec => []AnsweredCallIsServed`, without faults. `ServiceInv`: a
  call accepted at Meta is in conversation, or in the hands of the media-ready that accepted
  it (`InHand`), whose every way out activates it or hangs up; a request that works on an end
  does so because the call is over at Meta (`TaskOK`); and the gateway's session is not
  prepared again under a peer (`PreparedAlone`).

Without faults means that Meta and the gateway answer every request and do what they answer;
a webhook may still come twice or late, and any request may be refused. The invariants of
the last three hold while `restarts = 0`, which is also what their properties say
(`OneLife`: a step that is not a restart keeps it so).

Only model-checked: liveness.

## 5. Media gateway

### How the model corresponds to the code

`MediaGateway` is the Go process by itself: the table (`sessions`: `g.sessions`; `timer`: the
`AfterFunc` of a provisional session), the objects (`session[s]`: a `callSession`;
`peer[p]`: a peer connection with the session and agent it was made for), what was taken
out and is still to be closed (`closing`: sessions between the two halves of
`closeSession`; `doomed`: peers before their `Close()`), the network (`live`: connections
whose other end is there; `inHand`: packets read and not yet relayed), the player's
goroutines (`player`) and the handlers (`proc`).

Goroutines run in parallel, so an action is *one critical section and the code up to the
next one*. Handlers keep the pointer to the session they found: an object may be closed or
renamed under them, which is why `session` is indexed by objects and `sessions` by names.

| Code | Actions |
|---|---|
| `prepareInbound` | `PrepareInbound` (newSession, gathering) - `InstallMeta` or `GatherFails` |
| `createProvisional`, `expireProvisional` | `CreateProvisional`; `ExpireProvisional` - `Close` - `ClosePeer` |
| `bind`, `closeSession` | `Bind`; `CloseSession` - `Close` - `ClosePeer` |
| `createMetaOffer` | `LookUp` - `CreateMetaOffer` - `InstallMeta` or `GatherFails` |
| `repairMeta` | `LookUp` - `RepairMeta` (metaReady, which looks the call up again) - `ReadRemote` - `InstallMeta` or `GatherFails` |
| `joinAgent` | `LookUp` - `JoinAgent` (reads the old connection) - `DropExisting` - `InstallAgent` or `GatherFails` |
| `setCurrent`, `removeAgent` | `LookUp` - `SetCurrent`; `LookUp` - `RemoveAgent` - `ClosePeer` |
| `relayAgent` | `ReadPacket` - `RelayAgent` (compares agent and connection under the lock) |
| `playIvr`, its goroutine | `LookUp` - `PlayIvr`; `PlayerTick` |
| ICE, DTLS, RTP, browsers | `Connects`, `Silent` |

Abstractions: `setMetaAnswer` and the states `metaReady` and `agentReady` read are `live`,
which may change at any time; the five seconds since an agent's last packet are `Silent`;
sequence numbers and timestamps of `rtpContinuity` are left out but not its `source`, the
peer whose packet was written last; a prompt is played or not, its packets and the digits
are left out; when the tracks of a closed peer end is not shown, since no session lists it
any more; the copy of the customer's audio to the agents changes no state. The shutdown in
`main` is `closeSession` of every call. A pool of objects bounds how many sessions and
peers an instance creates; `Endpoints` names the requests it exercises.

`MediaSessions` is the table as the API sees it, every request one step. It is the form in
which `CallTransfer` and `CallControl` use the gateway, so `ImplementsMediaSessions` is what
justifies their one step per HTTP call. A join of a connected agent is two steps there
(`Rejoin`, `Join`): for up to 12 seconds the agent is current and not connected.

### What the runs check

| Run | Checks | Instance |
|---|---|---|
| `gateway_agents` | `TypeInv`, `InstalledPeersAreOpen`, `OnePlayer`, `OnlyCurrentIsHeard`, `ImplementsMediaSessions` | one call, 2 agents, 3 connections, 2 requests at once; agents and connections are symmetric |
| `gateway_sessions` | `ListedSessionsAreOpen`, `ImplementsMediaSessions`, `AbandonedSessionExpires`, `ClosedCallIsReleased` | 2 identifiers, 1 agent, 2 connections, 1 request beside the timers and closing goroutines; fairness |

Two requests with the packets and the player give every pair of critical sections that meet
in one session; the third connection is the one that replaces another. One session object
is enough there since objects share nothing but the table. Requests stop when the pool is
used up, so deadlock is not checked.

`FairSpec` assumes that timers fire (`ExpireProvisional`), that a closing goroutine goes on
(`Close`, `ClosePeer`) and that tickers tick (`PlayerTick`), and nothing of requests, of
ICE or of the network. `ClosedCallIsReleased` speaks of the connections that the session
lists when it is taken out of the table: one installed later stays (section 8).

### What is proved

`MediaGatewayProofs`, from `ConstantsAssumption` alone, for any number of identifiers, agents,
sessions, peers and requests at once, and any set of endpoints:

- **`TypeCorrect`**: `Spec => []TypeInv`, with what each handler between two sections knows.
- **`FoundSessionsAreOpen`**: `Spec => []ListedSessionsAreOpen`, from `TableInv`, which adds
  that a session about to be closed was created: otherwise `newSession` might reuse it. A
  handler changes no session's state (`HandlerKeeps`), and a failed preparation only takes
  an entry out of the table.
- **`OnePlayerAtMost`**: `Spec => []OnePlayer`, from `PlayerInv`: a session with a player has
  `ivrStarted` set, and nothing resets it.
- **`CurrentAgentIsHeard`**: `Spec => OnlyCurrentIsHeard`, from `TypeInv` alone: the decision is
  made under the lock, of what is there then.
- **`UsedConnectionsStayOpen`**: `Spec => []InstalledPeersAreOpen`. The property is not
  inductive: `repairMeta` and `joinAgent` close a connection they read one or more sections
  before. `PeersInv` adds, for every handler, that the connection it gathers is its own,
  listed nowhere and not doomed (`HeldInv`), and that the connection it read as the previous
  one was made for the very place (session and agent, or Meta's side) where its own will go;
  and, for every listed connection, that it was made for the place that lists it (`LegsInv`).
  So what a handler closes can be listed in one place only, the one it has just overwritten
  or emptied.
- **`GatewayImplementsTable`**: `Spec => ImplementsMediaSessions`, the refinement, step by step.
  The mapping shows of the table what a request would find: the sessions that are listed,
  their agents and the current one. A critical section on a session the table has lost
  meanwhile maps to a stutter, one on a listed session to the request of the same name; a
  `closeSession` is two sections, of which the first, which takes the entry out of the table,
  is the abstract `Close`. `TableInv` is what makes a listed session open.

Only model-checked: liveness.

## 6. IVR

### How the model corresponds to the code

`CallIvr` has the three handlers of `createIvr` over one call, `IvrQueue` the agents who act
on it in the queue, the customer, the terminate webhook, presence and restarts. `row` is the
call's row with its `ivrState`; `customer` the call as Meta has it; `media` the session of
the gateway; `session`, `busy` and `claimed` the three in-memory tables; `thread[t]` a
handler, with the copy of the row it read; `req[a]` what an agent's browser asks, with its
copy. The copies matter: every update writes `ivrState` as its handler read it.

| Code | Actions |
|---|---|
| `start` | `Start` - `StartMark` - `PreAccept` - `CheckLatest` (waitForMetaIce) - `Accept` - `CheckLatest` - `StartPlay` (silence) - `UpdateUnclaimed` (waitForMetaReady, updateMany) - `StartPlay` (menu); its catch is `StartFailed` - `FailRow` |
| `tick` | `TickStart` - `TickCheck` - `TickDigits` - `RouteUpdate` - `RoutePlay` - `Widen` - `Notify`; or `Close` - `CloseRow` |
| `recover` | `FindWaiting` - `Recover` - `RouteUpdate` - `RoutePlay`, or `Close` - `CloseRow` |
| `claimCall`, `joinMedia` | `AskClaim` - `ClaimCall` |
| `decline` | `AskDecline` - `Decline` |
| `activateMedia` with `fromIvr` | `BeginActivation` - `AgentReady` - `MetaReady` - `Answer` |
| `terminate`, terminate webhook | `Terminate` - `EndRow`; `ProcessTerminate` |
| sockets, clock, process | `Connect`, `Disconnect`, `Elapse`, `Restart` |

Abstractions: `start` begins where `prepareInbound` ended (section 4 has what comes before);
time is a set of limits that have passed (`due`), which goes with the session since its
timestamps do; after a recovery in the menu the menu has no beginning (`noMenu`: `menuAt` is
not set and the comparison with it is false for ever); silence, menu and announcement are
all "playing"; of the digits that one tick reads (123-131) what counts is whether 9 was among
them before an option ended the loop, so `TickDigits` has no digit, 9, an option, or both in one
step (several 9s are one: each plays the menu again), and `digitId` is left out since every
digit is read once; an agent has one browser; the configuration does not change.

### What the runs check

| Run | Checks | Instance |
|---|---|---|
| `ivr` | `TypeInv`, `NoVoiceBeforeAccept`, `AgentHasAnAcceptedCall`, `HandlersTakeTurns`, `OneAgentAnswers`, `WaitingIsTakenOrEnds`, `EndedIsForgotten` | 1 agent, 1 option, 1 restart at any moment; fairness |

One agent is enough for the handlers of the call to race with claim, decline and answer; the
restart makes `recover` race with `start` of a call read by `findMany` and with `tick`. The
safety properties were also checked with two agents and two options without a restart, and
the theorems below are for any number of each. Deadlock is not checked: a call that is over
and whose agents do nothing is the end.

`FairSpec` assumes that the awaits of `start`, `tick` and `recover` are answered, with a
result or an error (their HTTP calls have time limits), that the interval of 500 ms fires
when the call is not busy, and that the two minutes of the queue pass. Agents, customers,
Meta's acceptance and the gateway owe nothing. `WaitingIsTakenOrEnds` does not say that an
agent answers: it says that a customer who waits is not forgotten by the program as long as
no browser has claimed the call. The claim is where the promise stops:

| Failing run | What the code does | What the repository says |
|---|---|---|
| `ivr_abandoned` | a claimed call is skipped by `tick` before the time limit is looked at, and nothing takes the claim of a browser that went away | docs/CALL_IVR_DEPLOY.md:13: "Sem atendimento por 120 segundos desde o aceite pela URA, encerra" |

### What is proved

`IvrProofs`, from `IvrAssumption` alone, for any number of agents, options and restarts, any
assignment of agents to options, and any failures of Meta and the gateway. All five follow
from one invariant, `IvrInv`, preserved by every action:

- **`IvrIsTyped`**: `Spec => []TypeInv`, including that a call queued for a sector only has a
  sector (`Routed`, for the row and for every copy that may be written back).
- **`TurnsAreTaken`**: `Spec => []HandlersTakeTurns`. `recover` does not look at `busy`, and
  shares `session` with the other two: `FreshInv` says that no handler is there before the
  call, so that `start` finds `busy` unset.
- **`VoiceFollowsAccept`**: `Spec => []NoVoiceBeforeAccept`. No step
  that plays a prompt asks Meta. `CopiesInv` says of the row *and of every copy* that an
  `ivrState` that claims acceptance is right (`Sound`); `AcceptInv` says where the handlers
  are when it need not say so yet, and why a menu that is over was accepted: the session of
  a recovered menu is either accepted or has `noMenu`, so its menu never times out.
- **`AgentsGetAcceptedCalls`**: `Spec => []AgentHasAnAcceptedCall`, from `CopiesInv`: what
  `Answer` writes is the copy read four awaits earlier.
- **`OneAgentOnly`**: `Spec => OneAgentAnswers`, from `ActivationInv`: while an activation is
  under way it is the only one and the row has no agent. It is why the blind UPDATE at the
  end of `activateMedia` replaces nobody.

Only model-checked: liveness.

## 7. Conversations, messages and the permission to call

### How the model corresponds to the code

`ChatStore` declares the tables of one number of the company and what the repositories do to
one row; `Conversations` has the handlers of `conversation.service.js` and
`message.service.js`, `CallPermissions` those of `callPermission.service.js`; `Chat` composes
them with the customers, Meta and the clock. `proc[p]` is a request or webhook: `at` is the
await it is blocked on, the other fields what it carries. An action is the answer to that
await and the code up to the next one.

PostgreSQL runs the transactions at READ COMMITTED. A transaction reads what is committed,
its writes appear together when it commits, and a row it wrote is locked until then
(`locked`): the upsert of a contact makes the transactions of one customer take turns. The
unique indexes (message `wamid`, permission `lastWebhookWamid`) are guards of the writes.

| Code | Actions |
|---|---|
| `processInboundMessage` | `ProcessInbound` - `FindByWamid` - `UpsertByWaId` (locks the contact, looks for the conversation) - `InsertMessage`, or `InsertFails` (unique wamid, conversation gone) |
| `createConversation` | `CreateConversation` - `UpsertByWaId` - `CreateOrReuse` |
| `processStatus` | `ProcessStatus` - `UpdateStatusByWamid` (locks the message, reads the template) - `UpdateInitialTemplateStatus` |
| sending text, reaction, media, template | `SendText`/`SendReaction`/`SendMedia`/`SendTemplate` (checks) - `Prepare` - `Send` - `PersistOutbound` |
| `markRead`, `changeStatus`, `deleteConversation`, `changeAssignment` | `MarkRead`/`ChangeStatus` - `UpdateConversation`; `DeleteConversation` - `DeleteById`; `ChangeAssignment` - `UpdateAssignment` |
| `processWebhook` of a reply and then the message | `ProcessReply` - `ResolveConversation` - `ResolveCreate` - `FindExisting` - `Permit` - `FindByWamid` ... |
| `completeTransfer`'s transaction (callTransfer.service.js:193-198) | `CompleteTransfer`, one step: the conversation's part of the handover of section 3 |
| `getPermission`, `requestPermission` | `GetPermission`/`RequestPermission` - `GetCallPermission` - `FindPermission` - `SyncFromMeta` - `ExpireIfNeeded`, or `RequestCallPermission` - `MarkRequested` |
| customer, Meta, clock | `World`; `Webhook`, repeated as often as Meta likes |

Abstractions: names, texts, files and the lists of templates are left out; a conversation
keeps its latest history record only; a request that its checks refuse changes nothing and
is not shown; reads are of rows, not of the socket events that announce them; the window is
1 tick (`Window`) of a clock of at most 2. The owner has two writers, and the second,
`completeTransfer`, records nothing in the history. The calls are not in this module, so a
handover may give any conversation to any agent at any time; `overtaken`, in `history`, is a
history mark: a handover came after the latest record. Meta may be asked again after a
permission has expired (`MayAsk`). `strays` is a history variable: the conversations
that were opened without the lock of their contact, by a reply (`resolveConversation` has no
transaction) or by opening a closed one again.

### What the run checks

| Run | Checks | Instance |
|---|---|---|
| `chat` | `TypeInv`, `OneOpenConversation`, `CountedOnce`, `HistoryTellsOwner`, `FreeTextFollowsCustomer`, `TemplateStatusFollows`, `PermissionWasGiven`, `InboundIsStored`, `FirstClaimWins` | 1 customer, 2 conversations, 2 messages and 1 reply, 2 outgoing messages, 2 agents of whom one is a director, 4 requests or webhooks in all, 2 at a time |

Any four of the fifteen operations (fourteen of the chat and the handover of a call), any two
of them interleaved await by await: every pair
races, after up to two others have prepared the rows. Two conversations are the least that a
double creation needs, two messages the least that a count needs; a third operation that
must overlap both others is beyond the bound, and inside the theorems. Deadlock *is* checked:
a state in which nothing moves must have no request in flight (`Answered`).

`HistoryTellsOwner` says that the history's last record names the owner, unless a handover of a
call was completed after it: then the record names whoever had the conversation before, until
the next claim, transfer or release writes one (section 8).
`OneOpenConversation` leaves the strays out because the code does; section 8 has what they
do. `TemplateStatusFollows` speaks of a conversation with one template: with two, the one the
transaction read may not be the one it writes. `InboundIsStored` allows what really happens
when a conversation is deleted while a message for it is stored: the message is lost.

### What is proved

`ChatProofs`, from `ChatAssumption` alone, for any number of customers, conversations,
messages, agents, directors, requests at once, and any subset of the endpoints. They rest on
`ChatInv`, preserved by every action, whose parts are

- `TypeInv`, `MetaInv` (what the world holds) and `ProcInv`: what a request carries at each
  await (`Carries`), without which no write of a late await has a type;
- `HistoryInv`: a number no conversation has yet has no owner, an existing one is of a
  customer, and the last record names the owner unless a handover of a call came after it;
- `LockInv`: a transaction holds its row, and alone; one that found no open conversation is
  still right about it (but for strays) when it creates one;
- `WindowInv`: an open window comes from a stored message, which goes with its conversation
  only; and a free message past its check is in such a conversation, or in one deleted since.

The theorems are

- **`ChatIsTyped`**: `Spec => []TypeInv`.
- **`OneIsOpen`**: `Spec => []OneOpenConversation`, from the third part of `LockInv`: between
  the look-up of a transaction and its creation, no other one of the contact can create.
- **`HistoryIsTrue`**: `Spec => []HistoryTellsOwner`, with both writers of the owner. The blind
  UPDATE of a stale transfer may replace an owner it did not expect, but writes the history
  with it, a claim that lost writes neither, and the handover of a call leaves its mark. The
  statement is no more than that: after a handover the record is wrong.
- **`CustomerSpokeFirst`**: `Spec => []FreeTextFollowsCustomer`: the window is checked up to
  three awaits before the row is written, and the conversation may be deleted between.
- **`TheFirstClaimWins`**: `Spec => FirstClaimWins`, an action property: only the UPDATE with
  the condition can follow a read of a conversation without an owner.

- **`NothingIsLeftOut`**: `Spec => InboundIsStored`, an action property: a handler of a
  customer's message ends in one of three steps, and `InboundInv` says that it is never
  anywhere else (a reply passes through the permission first, and cannot end there).

The other three need what the rows of messages say of each other. `MessageInv`: a message is
in a conversation that exists or has no row, and a wamid of Meta is written once, by the
request it was given to.

- **`MessagesAreCountedOnce`**: `Spec => []CountedOnce`, from `CountInv`: the count is not above
  the (finite) number of the customer's messages in the conversation. An insert adds one to
  both because its message had no row, which is the unique index; a deletion empties both.
- **`TemplatesAreFollowed`**: `Spec => []TemplateStatusFollows`. A status handler reads the
  template of the conversation and writes an await later. `TemplateInv` says that the
  conversation names a template it holds, its only one if it has but one, and that what the
  handler has read still says so: the row of its message is locked (`LockInv`), so neither a
  deletion nor another status comes between, and a second template sent between makes the
  property's condition false.
- **`CallsWerePermitted`**: `Spec => []PermissionWasGiven`. `GrantInv` follows a permission from
  the customer's reply to Meta (`allowed`), to the answer a request carries, and to the row,
  by both ways it is written; a handler that has waited is still about the same customer
  (`About`), because a conversation never changes its customer.

Nothing of the chat is only model-checked.

## 8. Other divergences

Met while modelling, reproducible with the modules by a property that says the opposite, and
left without a run of their own. `PROJECT.json` lists forty hazards; those that are divergences
without a property are here.

Transfer and call control:

- `completeTransfer` checks the deadline once (callTransfer.service.js:164) and completes the
  transfer up to the wait for RTP later, although README.md:110 says that a timeout keeps
  the original agent.
- `acceptTransfer` closes an overdue offer without `clearBusy` (callTransfer.service.js:95-98):
  the worker then finds nothing to expire, and the target, marked at the offer, stays BUSY
  and is refused by line 65 until the API restarts.
- `completeTransfer` does not look at the call's status in its transaction (186-195): a call
  that ended while the audio was awaited gets a new agent, and so does its conversation.
- `setCurrentAgent` (182) is outside the `try` that rolls the audio back: when its answer is
  lost the new agent is heard while the old one stays responsible.
- When the target has two browsers, a rejection drops the transfer's key between the awaits of
  the other browser's media-ready, whose claim of the call's key then throws (207).
- A connect or status webhook writes what it decided on the row as it was an await earlier
  (call.service.js:163, 254): a connect that overlaps the accepted status sets an active
  call back to CONNECTING, against test/callBackend.test.js:95, which tries them in turn.
- The last UPDATE of media-ready (660) has no condition: a call that ended after the last check
  (639) is ACTIVE again, which `assertState` (305) is there to refuse.
- Connect and terminate of a short call both find no row; if the terminate's create comes
  second it fails (unique `metaCallId`), the webhook was already answered, and the row rings
  for ever.
- The terminate webhook keeps a FAILED or REJECTED status only as it read it before its
  UPDATE (call.service.js:198-218): a failure recorded in between (177, 350, 649) is
  overwritten with MISSED or ENDED. test/callBackend.test.js:323 says "encerramento da Meta
  preserva falha de áudio registrada pela API", and tries them in turn.
- When the answer of Meta to `initiateOutgoing`'s request (523-527) is lost, a call rings at the
  customer and the API has no row for it until a webhook makes one (without an agent); the
  locks are released and the agent may call again.
- `initiateOutgoing` starts the call at Meta (523), then binds the media session and creates
  the row. When the bind fails nothing ends the call at Meta, no row exists, and the agent's
  retry makes a second one. test/callBackend.test.js:436 says "impede nova ligação para
  conversa que já tem uma chamada chamando".
- The acceptance of a call whose answer is lost is undone with a rejection (644), which
  Meta refuses for an accepted call.

Media gateway:

- A connection whose gathering ends after its call was closed is installed in the
  closed session (main.go:384, :437, :510, :594) and nothing closes it; it keeps one of the
  101 UDP ports. A *connect* processed after *terminate* likewise opens a session that has
  no timer (`prepareInbound`).
- Two overlapping joins of one agent, or repairs of one call, leave the connection that was
  installed first open: each closes the one it read before gathering.
- `prepareInbound` fails after up to 12 seconds with `closeSession(callID)` (main.go:380): if its
  session was closed meanwhile and the identifier prepared again, it closes the new one.
- Once an agent was current the player has returned while `ivrStarted` stays set
  (ivr.go:108-113): a prompt requested after that agent was removed is answered with
  success and nothing is played.
- An end packet of a key is a duplicate only of the *last* key (ivr.go:71): when a late copy
  follows the next key's packets, it counts as another key.

IVR (`CallIvr`, `IvrQueue`):

- `decline` (callIvr.service.js:146) and the updates of `tick` (45, 49, 136) write the `ivrState`
  they read. Two declines at once lose one, and that agent is rung again; one that overlaps
  `activateMedia` puts phase QUEUE back over AGENT, and then `guard` (call.service.js:278)
  refuses the responsible agent control of his own call when he is busy, which he is.
- `close` looks at nothing that happened since `tick` read the row (116): an agent who answers
  meanwhile has his call terminated at Meta and written ENDED.
- `recover` (151) does not take `busy` and uses the rows that `findMany` returned: it
  opens a session for a call that was answered or ended since, and may run beside `tick`.
- A restart between Meta's accept and the UPDATE that stores `accepted` makes `recover` *reject* a
  call that Meta has accepted, which Meta refuses; the customer stays in silence.
- Until `start` has written phase MENU, `guard` lets any agent claim the call.

Chat (`Conversations`, `CallPermissions`):

- `resolveConversation` (callPermission.service.js:131-144) looks for an open conversation and
  creates one outside a transaction, so that a reply and a message of one customer may open
  one each; `changeStatus` opens a closed conversation beside an open one. docs/API.md:57
  says that a contact has one OPEN conversation per channel.
- A status that arrives before `persistOutbound` has written the message is dropped
  (message.service.js:142), and statuses out of order are written as they come: READ may
  become DELIVERED again.
- The conversation's template is read and then written by id (144-147): with two templates in
  flight the status of the first may be recorded for the second.
- A message is lost when the process restarts after the 200 (whatsapp.controller.js:142), or when
  its conversation is deleted inside its transaction: nobody delivers it again.
- A reply that arrives between Meta's acceptance of the request and `markRequested` (101-122) is
  overwritten with PENDING, and its `wamid` with null, so that a redelivered old reply is
  applied as new and may undo a later answer. docs/INTEGRATION.md:589 says "O banco usa
  `wamid` único para idempotência dos webhooks."
- `syncFromMeta` and `expireIfNeeded` write what they decided on the row as they read it: a
  GRANTED read from Meta may be written after the customer's revocation.
- The service window and the owner are read before the upload and the answer of Meta
  (conversation.service.js:126): a free text may be sent after the window has closed or the
  conversation was given to another agent.
- `markRead` (conversation.service.js:292-293) zeroes the counter of a message that arrived after
  `findLatestInbound`, without marking it as read at Meta.
- `completeTransfer` (callTransfer.service.js:194-199) changes the conversation's owner without
  `createAssignmentHistory`: after the handover of a call the history still names the agent
  before, until the next record.
- A transfer, a release or a second claim of one's own conversation is written by id (361) on a
  row read in the same READ COMMITTED transaction: an agent who has just lost the conversation
  (a director gave it away, or a call was handed over) gives it away, frees it or takes it back.
  TLC finds the claim in a few steps, against test/chatBackend.test.js:348 "nao permite que outro
  atendente tome uma conversa ja assumida", which tries them in turn.
- A message that is handled late moves `lastMessageAt` and the window back
  (conversation.repository.js:81-95), although docs/API.md:114 says that every inbound
  message renews the 24 hours.

## 9. Not modelled

- **The mode without media gateway** (pre-accept and accept with the browser's SDP, the signal
  store) and the outbound media session with its key of five minutes: the same locks and rows
  as the mode that is modelled, with the audio between browser and Meta.
- **`callIvr.configure` and `validateConfig`**: a validated write; the configuration is a constant.
- **The message deduplicator**: nothing in the program requires it; repeated messages are told
  by their unique `wamid`, which is modelled.
- **The recognition of a key from RTP packets** and the contents of prompts, SDP and RTP: data of
  the gateway that no state of the sessions depends on.
- **Channels, Graph client, templates, media files**: look-ups and HTTP requests without protocol
  state. They appear as awaits that are answered or fail.
- **HTTP layer, sockets' rooms, legal pages, client examples**: formatting, DTOs, logging,
  validation of bodies, authentication, CORS, a fixed-window rate limiter.
