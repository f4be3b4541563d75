# Yaoyao server: TLA+ verification

Models, model-checking configurations and machine-checked proofs for the server
of this repository (`src/server`; paths below are relative to the repository
unless they name a file of this directory). The server lets several bots work
in conversations: it drives Hermes, an external agent gateway, over a
WebSocket, keeps its own state in SQLite, and relays live events to clients.

Contents

1. The system: components, state, interactions, hard behaviour
2. The modules and how they correspond to the code
3. The runs: questions, bounds, fairness
4. The proofs
5. Where code and documents disagree
6. What is not modelled, and the plan

Requirements: `tlasany M.tla` parses a module, `tlc -config X.cfg M.tla` checks a
run, `tlapm M_proofs.tla` checks the proofs of a module.

## 1. The system

All components share one Node.js process. A handler runs without interruption
until its next `await`; between two awaits everything else may happen: requests
of users, events of sockets, timers, other turns. State is either durable
(SQLite: survives a crash at any await) or volatile.

| Component | State | Operations | Hard behaviour | Correct when | Module |
|---|---|---|---|---|---|
| **Turn scheduler and runtime** `workspaceScheduler.ts` `workspaceRuntime.ts` `workspaceGateway.ts` | durable: a `Work` per turn, a session binding per bot and task, `stopRequested`, `cleanupPending`; volatile: `executing`, `live`, the closure of each turn, `interrupting` | submit, stop a run, stop a bot, remove a bot, pump, executeWork, performTurn, recoverTransport, restoreCompleted, finish, interruptTurn, close, recover | two to a dozen awaits between admission and the prompt; lost answers; crash between flag and prompt; a stop racing all of it | a prompt goes out at most once, never for a stopped turn, never two in a session; running prompts are never forgotten; stops are confirmed; queues move | `WorkspaceTurns` |
| **Conversation cascade** `workspaceScheduler.ts` `workspaceDiscussion.ts` `workspaceRelay.ts` | durable: the works of a run, the root message's status | admit, enqueue, plan, updateRoot, cancelWorks | members end in any order, leave, are rechecked; end of run computed after every write | a batch is reviewed once, after its last member; discussions keep their order; a run ends, once, for good | `WorkspaceCascade` |
| **Realtime commands** `realtimeBroker.ts` `realtimeReceipts.ts` | durable: receipts, retired receipts; volatile: commands in execution, the queue of a route, results in memory | command, perform, rpc, receipt, sweep, close, open | clients repeat; answers come late or never; retention; restart | at most one effect per key, receipts tell the truth and do not change | `RealtimeCommands` |
| **Realtime replay** `realtimeBroker.ts` `realtimeApi.ts` `httpRealtime.ts` | entries of a channel, cursor, number of a route, deferred frames | subscribe, event, recover, resume, trim | live frames during a recovery, trimmed entries, another runtime | every frame once and in order, or an announced reset | `RealtimeReplay` |
| **Tool calls** `toolOperationJournal.ts` `workspaceToolLease.ts` | durable receipt per call id; leases and calls in flight | handle, execute, dispose | crash between intent and effect, loss of authority after the effect | no effect twice, a receipt never contradicts the effect | `ToolCalls` |
| **Computer pool** `runner/computers/pool.ts` | rows of environments, leases, queue of an environment, quota | acquire, renew, release, desktop, configure, retire, expire, recover, close | acquire, abort and release across provider awaits | quota, truthful rows, everything lent returns | `ComputerPool` |
| **Upstream read cache** `upstreamReadCache.ts` `upstream.ts` | entries, loads in flight | read, refresh, invalidate | invalidation during a load | nothing loaded before a change is reported is served as fresh after it | `ReadCache` |
| **Approvals and clarifications** `workspaceRuntime.ts` (events, respond) | cards of a turn, replies under way | ask, respond, policy, withdraw | a reply racing a timeout, the policy, a repeated request | one reply per request; what the cards say is what Hermes knows, and a turn waits for something | `Interactions` |
| **Tasks** `taskCoordinator.ts` | goals, assignments, deliveries, wakes | create, review, reassign, cancel, finish, resume, stop, reconcile | results arriving during a review, stops, refused wakes | an ended goal has nothing that works, results come back | `TaskCoordinator` |
| **Routines** `workspaceRoutines.ts` | schedule, next time, records of runs | tick, run, save | catching up, overlap, edits | missed times are made up for once, one run at a time | `Routines` |
| **Push delivery** `pushCoordinator.ts` | outbox per device, registrations, flush | notify, register, flush, answer | late answers against new tokens, lost answers | a notice is shown once and does not stay for ever | `PushOutbox` |
| **Memory mirror** `openVikingSessionSync.ts` | changes to mirror, prefix agreed on, lock | tick, compare, append | appends carried out after their timeout, two servers, death with the lock | the mirror has every message once, in order | `SessionMirror` |
| **Runner hub and worker** `runnerHub.ts` `runner/agent.ts` | pending commands, epochs; rows and gates of the node | poll, admit, result, close | repeated delivery, resets of either side | at most one effect, true verdicts, no channel left open after one mishap | `RunnerHub` |
| **Native chat cache and transcripts** `chatCache.ts` `chatTranscriptStore.ts` | transcript, states of history and frames, repair job | frames, commands, repair, import | frames during an import, lost lines, restarts | the transcript tells what Hermes holds, repairs end or are withheld | `ChatSync` |
| **Bot collaboration** `workspaceCollaboration.ts` | chains of messages | send, limits | limits across conversations | a chain ends | — |
| **Credential vault** `credentialVault/` | grants, entries | grant, use, revoke | a turn that ends during a use | no use after the end of a grant | — |
| **Pairing** `pairing.ts` `accountPairing.ts` | codes, devices | issue, confirm, revoke | concurrent confirmation | a code works once | — |
| **Browsers and desktops** `managedBrowsers.ts` | control, processes | take over, give back | bot and user at once | one in control | — |
| **Updates, supervision** `updateManager.ts` | stage of an update | check, install, restart | maintenance against running turns | no restart under a turn | — |
| **Workspace store, accounts, HTTP routes, client, desktop shell, deployment** | — | transactions, request handling, user interface | sequential | outside a model of concurrency | — |

Interactions that matter here. The scheduler calls the runtime
(`performTurn`, `interruptTurn`), the runtime calls back through store writes
(`saveWork` → `updateRoot`, `onRunSettled`) and through the gateway's events.
Both read and write the same stored `Work`; only what a continuation reads
again after its await is current. `wake` re-runs the pump after each change,
`retrySoon` half a second after anything that failed. The broker shares nothing
with them but the socket to Hermes.

`PROJECT.json` lists every component with its status, and each hazard at the
line where it bites, with the properties that would show it.

## 2. The modules

### WorkspaceTurns — one turn, from admission to its outcome

One record of SQLite is a function on `Works` per field: `status`,
`submitted`, `cancelRequested`, `cleanupPending`, `planned`; `binding` is the
`workId` of a session binding, `stopRequested` the stopped runs, `left` the bots
removed from a conversation. Of memory, `executing` and `live` are the maps of
that name, `turn[w]` is how far the closure of `performTurn` has come, `cleanup[w]`
the `interruptTurn` call in progress with what it captured at its start, `closing`
the service shutting down. Of Hermes, `session[w]` is what became of the prompt
and `sent[w]` counts how often it was sent.

| Actions | Code |
|---|---|
| `Submit` | submit/admit of the scheduler: refuses while the conversation owes a confirmation or too many tasks are active |
| `Stop`, `StopAgent` (`CancelWorks`) | stop, stopAgent, cancelWorks: interrupt, owe a confirmation for whatever had left the queue, call `interruptTurn` at once |
| `Leave` | removal of a member, as the scheduler sees it |
| `ScheduleCleanup`, `Reclaim`, `Plan`, `DropQueued`, `StartTurn` | the branches of one iteration of the pump |
| `EndExecution`, `SetupFail` | executeWork's finally and catch |
| `OpenSession`, `PrepareFail`, `SubmitPrompt`, `PromptAccepted`, `PromptRejected`, `PromptTimeout` | performTurn between its awaits |
| `FinalEvent`, `ToggleWaiting`, `Disconnect`, `Reconnect`, `Restore` | events of the gateway, recoverTransport, restoreCompleted |
| `InterruptConfirmed`, `InterruptFailed` | the end of interruptTurn and the scheduler's handler of it |
| `HermesEnds` | external: a prompt ends |
| `LoseTurn`, `Close`, `Restart` | failed closing writes, close, process end and the constructor's recovery |

Decisions worth knowing:

- The loop of `pump` only reads what is stored, so its iterations are separate
  actions; that allows every order the sorted loop can produce, and more.
- A back-off (`recoverAfter`) is a step not taken yet; it needs no clock.
- `SubmitPrompt` contains the last check, the durable `submitted` write and the
  send: no await lies between them. A crash between the write and Hermes is the
  choice that the request was lost, followed by `Restart`.
- `OpenSession` writes the binding and `live` before it looks at the stop flags,
  as the code does. This order matters (section 5).
- `Finish` deletes the live entry of its key whoever put it there, and does not
  overwrite "interrupted".
- The code has branches that no reachable state enters: `DropQueued` because of
  `stopRequested` (Stop cancels in the same transaction), and the pump's and
  executeWork's cases for cancelled works of another status (cancelWorks always
  writes "interrupted"). The model keeps the first, whose guard is shared with
  removed bots, and has no action for the others.
- A graceful close fails an open turn that has not been submitted, while a crash
  requeues it. Both are in the model as they are in the code.
- `Excluded` has the exemption of assignments (workspaceScheduler.ts:377): a turn of
  `Assigned` runs beside other turns of a host group. `TurnExclusivity` says what may then
  coexist (`MayCoexist`). That a direct chat has one turn at a time needs no rule: all its
  turns have one key. The rule of discussions (`Discussed`) is proved, no run has one.
- Left out here: the rest of goals and assignments, a conversation whose mode or administrator
  changes, approvals beyond "waiting", session resets, the awaits of tool clean-up in
  `finish`, several owners.

### TurnPromise — what a turn is promised

Three outcomes and a counter: a queued turn opens, may send one prompt while it
is open, and ends for good. `KeepsPromise` in WorkspaceTurns instantiates it
with the refinement mapping *open = queued, running, waiting or uncertain*;
the server's hundreds of interleavings are either one of its steps or none.

### WorkspaceCascade — from one submission to its end

`works` is the sequence of the run's turns in order of creation, each with bot,
depth, delegation batch, `review`, `required`, `status`, `planned`. A turn
starts and ends with some outcome (how is the subject of WorkspaceTurns), then
`Plan` translates plan: relays of free groups, the host group's batch and
its review, the next slot of a discussion. `Enqueue` keeps the code's
deduplication, `RootStatus`/`Save` are updateRoot and saveWork, `Admit` is
the choice of the first turns in admit. Which bots a text mentions is a
choice, constrained as mentionedBots and relayDecision do: members that are still
there, not the speaker, nobody told the same twice.

### RealtimeCommands — commands under an idempotency key

`row`, `print` and `tombs` are the receipts table and its retired keys;
`phase`, `tail`, `completed` are the broker's maps. `Admit`, `Repeat` and `Read`
are what clients do (and repeat as they like: nothing is assumed of them),
`Refuse`, `Unavailable`, `Send`, `Answer`, `Timeout`, `Disconnect` the ways
perform and rpc go, `Evict` and `Reserve` retention, `Close` and `Restart`
the process. `applied` counts the effects in Hermes, `told` remembers every
receipt a client has been given.

### RealtimeReplay — events of a session on their way to a client

`hermes` publishes numbered frames on the `wire` and into a ring that forgets; `link` is the
broker's socket with the recovery it is in (`Resumed`, `Missed`, `Replayed`,
`Missing` are the continuations of recover), `route` the runtime and the number a
route has seen, `chan` the entries of the client's channel, `flight` and `client` the
stream and the cursor. `BrokerReceives` takes one frame as event does: answers of
the broker's own calls, frames held back during a recovery, frames that come before
their route is known, live frames. Left out: `session.close` by a client and
the stored cursor of the native owner (realtimeBroker.ts:288).

### ToolCalls — leases and the journal of effects

`receipt` and `fingerprint` are the durable journal, `stage` how far the action
of a call has come in memory, `airborne` the effects under way outside, `open` and
`entry` the lease Hermes calls back, `heard` every answer a caller was given. `NewCall`, `KnownCall` are handle, `Execute`, `Act`,
`Return`, `Fail` are execute between its awaits, `EffectHappens` is external. Human
input reaches the journal without a lease.

### ComputerPool — computers lent by an execution node

Every environment has a queue of operations (`serial`). An operation runs without
interruption to its call of the container provider (`Begin…`) and on from its
answer (`EnsuredLease`, `Kept`, `Stopped`, `Unconfirmed`, …); `Advance` is the next
step of the first one in `todo`. `Abort`, `Lapse`, `Sweep`, `ClosePool` act between those
calls, as abort, expire and close do. `running` is what the provider runs.

### ReadCache — shared reads

A resource is the number of changes it has seen. `version` is Hermes, `settled`
the version each key had when its last change was reported (answered or observed), `kept` the entries, `loads` the loads in
flight, `joinable` the map `flights`, `reader` who waits. `Invalidate` is a part of
`Mutate` and `Reported`, as in upstream.ts. Left out: `close`, the forced reload, which
bypasses the entries, the size of bodies.

### Interactions — what a turn asks its user

`card` is what the conversation shows of a request, `reply` the call under way,
`notices` the gateway's events, `adrift` replies whose caller has given up and which may
still arrive, `takenUp` what Hermes acted on. Hermes is not relied upon to recognise a second answer to a request.
`TurnCrash` loses what is in memory and `TurnRecheck` goes on with the cards; a turn that was
given tools is not taken up again (`toolsBound`). A turn also waits without any card: while
its computer is taken over (`TakeOver`, `PauseAgain`, `GiveBack` at the node, `PauseArrives`,
`ResumeArrives` at the server) and while a credential is in use (`CredentialBegins`,
`CredentialEnds`); `taken` is the node, `apart` what the server believes. A card whose reply is
uncertain cannot be answered again (workspaceRuntime.ts:1106) and keeps its turn waiting until
Hermes closes the request or the turn ends. Left out: the progress of a credential's use;
uses that overlap are one.

### TaskCoordinator — a goal, its assignments, and their way back

`part` holds the assignments with the run of their attempt; `turns` the turns in
the conversation the goal came from. Each operation of the coordinator is an
action with its guard (`Coordinate`: not without authority, not from a stopped run);
`Reconcile` has one action for each branch of reconcile, `Progressed` is its pass over the
assignments, `DeliverResult` is deliver. `Refused` is a dispatch that the
scheduler refuses for the moment. Left out: goals started by a goal, temporary helpers
and their retirement (290-307).

### Routines — schedules

`NextAt` is nextRoutineAt; a daily or weekly schedule is a time that comes back every
`Day` units. `Tick`, `RunByHand`, `Save` are one transaction each; `Switch` takes the
server away and back, `Circumstances` changes what a run depends on.

### PushOutbox — notifications

`outbox` has the attempts of every item that is left, `endpoint` and `vouched` the
installations, `flush` the one active flush with what it captured before its await.
`Examine` and `Awaited` are flushInternal up to and after the request; `Success`,
`Postpone`, `Retry`, `Reject`, `Rotated`, `GiveUp` its answers. `Register`,
`Unregister`, `Follow`, `Purge`, `Configure` and `ChangeAccount` come between them. Left out:
the jobs that watch chats for something to notify (pushEvents.ts).

### SessionMirror — the transcript in OpenViking

`text` is the transcript by the version of each message, `rows` what the sync
tables say of it, `intent` the transcript an append of unknown outcome would
lead to, `lock` the durable lock, `remote` and `appends` OpenViking with the
requests it has yet to carry out. `Works(s)` is the next step of a server's tick
(`Tick`, `SessionThere`, `ReadRemote`, `Compare`, `Confirm`, …). Left out: the deletion of
conversations (191-207), damage done to the remote session by others, a change of
namespace. A message with a lower place that enters a job later makes a permanent
conflict of order, which the job reports as "failed"; `MirrorEnds` accepts that.

### RunnerHub — commands for a node that cannot be reached

The node asks (`PollSend` … `PollReceive`), has each command admitted
(`Admit`, `Admitted`), acts, posts the result. `asked` is the hub's side of a command,
`row` and `work` the node's, `gate` its channel to Hermes, `current` whether it knows the
present epoch. Epochs are compared, never counted; the clocks of both agree; closing
takes less than its 30 seconds; the watchdog acts only when a node is silent longer than
any answer takes; answers of a dead server come before the node notices or never.
Commands other than opening, calling and closing follow the same path and are left out.

### ChatSync — an ordinary conversation as the server keeps it

`history`, `speaking`, `born` are Hermes; `onWay` and `line` frames and the broker's
socket with its recovery; `stored` the rows of `chat_sessions` and `chat_messages`,
`transcript` what users see, `repair` the job, `reading` the pages it has read so far.
`TakeFrame` writes a frame into both stores as event does, `ReconcileStep` is reconcile
from one await to the next, `ApplySync` and `Imported` the transactions at its end,
`RecoverLine` recover. A job whose conversation runs is not started (the code
throws and tries again). `transcript.dated` is bookkeeping: something older than what
the transcript held was written since the last import. `HistoryTrue` claims nothing
then, nor for a history that has drifted (`Drifted`, section 5). An import that does not find
a prompt asked here (`transcript.asked`) leaves the transcript as it is and notes that in
`chat_transcript_repairs` (`Withheld`): the job fails, every later attempt reads everything,
and a restart asks for it again. `RepairsEnd` accepts `Drifted`, `Phantom` (the finding of
`chat_replay`) and `Orphaned`: such a prompt is not in Hermes any more (section 5).
Left out: submissions of an older version that wait in `chat_messages`
(chatCache.ts:542-544). Nothing writes such a row today: the only insert there is `ingest`
(1216-1238), of pages of Hermes.

### Proofs and instances

`M_proofs` holds the theorems about module `M`; `TurnCalls_proofs` those about ToolCalls,
Interactions, ReadCache and Routines, `Realtime_proofs` those about RealtimeCommands and
RealtimeReplay, `Remote_proofs` those about RunnerHub and SessionMirror,
`Background_proofs` those about PushOutbox and TaskCoordinator. Three of them extend the
others and end with a theorem about several components side by side: `TurnCalls_proofs`
about MCConsistency, `Background_proofs` about MCProgress, `Remote_proofs` about
MCConversation. `MCWorkspaceTurns` and
`MCWorkspaceCascade` give constants values for TLC. `MCConsistency`, `MCProgress` and
`MCConversation` check several components in one run: a variable `subject`, which
never changes, says whose behaviour this is, and every other component rests. The
numbers of states therefore add up and do not multiply, an invariant is checked of
each component in all its states, and fairness stays sound, because nothing it asks for
is enabled in an initial state: a component that rests satisfies its liveness
property from the start.

In each module, a definition under a comment "Mutant:" is a plausible mistake in
the definition that follows it; it is used nowhere. `PROJECT.json` pairs each with a
property that becomes false when it replaces the original.

## 3. The runs

Every run sets `CHECK_DEADLOCK FALSE`: a server with nothing to do rests, and
bounded faults and inputs let every instance come to rest.

| Run | Instance | Question |
|---|---|---|
| `turns_group` | casts of a host group, below, 1 fault | Can a prompt be forgotten, run beside another in its session, follow a stop, or run beside one it must not meet: the administrator's, another bot's, another batch's? Does the server refine TurnPromise? (523 614 states) |
| `turns_live` | the administrator and a member with an assignment who may leave, 1 fault | Is every stop confirmed, does every queued turn start unless one with an unknown outcome holds the conversation? (190 574) |
| `conversation` | cascade of a free group, mirror, runner and chat, below | Does a conversation come to rest, and truthfully: relays end, nodes act at most once and are left closed, the mirror is exact and gets complete, the transcript is that of Hermes? (264 401) |
| `consistency` | commands, tool calls, cache, interactions, routines, cascade | What has to stay true through repetition, loss, revocation, crashes and restarts (1 867 355) |
| `progress` | commands, replay, pool, push, tasks | What has to come to an end whatever fails on the way, and what may not be lost meanwhile (389 684) |
| `turns_stop`, `cascade_stop`, `replay_rebound`, `chat_replay`, `task_stop`, `runner_reject`, `mirror_restart` | small instances | disagreements, section 5 |

### Turns

Bounds. A behaviour of `turns_group` is one of four casts: two submissions to one bot, one of
them an assignment; the administrator's turn and a batch of two members that it leads to; the
administrator's turn and one member of its batch, beside a message to another bot, which may be
removed; the same beside an assignment. Two works of one key are the smallest instance in which a
turn can meet the remains of another turn of its bot: all defects we know of need exactly two.
The rules of a host group compare two turns; the administrator's, two of one batch, one outside
it and one of an assignment are the kinds they tell apart. Where the administrator only leads to a
batch its turn ends without incident (`Calm`), and faults happen in the first cast only.
In `turns_live` the member leaves only in behaviours without faults (`LeaveOrFault`);
neither step is fair, so what is cut off is a choice of users and faults and no step
that the fairness asks for.
`FaultBudget` bounds crashes, shutdowns and failed writes together; a restart forgets all of
memory, so that a second one finds only what the first left in the store (two faults have been
checked in a direct chat, 677 580 states). Prompts never go out twice, so nothing else is
unbounded. The proofs of section 4 need none of these bounds.

Fairness (`FairSpec`). The pump's steps of a work are weakly fair, since
`wake` and `retrySoon` run it after every change and failure; starting is
strongly fair: other turns of the conversation take the free place in between,
but the loop is sorted by age. Each await of a turn ends with an answer or the
timeout of its RPC; Hermes ends what it runs; an interrupt that is retried
for ever gets through at last (strong fairness of `InterruptConfirmed`: without
that assumption on Hermes, nothing could be promised); a process that closed is
started again. Users, disconnections, approvals and faults are under no
fairness at all. `QueueMoves` excepts a turn of unknown outcome that comes back
again and again: the server rechecks it without end by design.

### Cascade

In `consistency`: an administrator and two members, three rounds, host group or
discussion, one member may leave, one restart. Two speakers cannot tell "skip one"
from "start over"; three can. With `MaxWorks` 6 a run may delegate to both members, have
them reviewed and delegate again; only the review of a second full batch is cut off
(a run with 8 has been checked as well). In `conversation`: two bots of a free group
that may always answer each other, two rounds, one may be stopped, one restart;
four turns are all there can be. Fairness: the pump runs, turns end, and a recheck does
not answer "unknown" for ever (strong fairness of an end with a final status).

### Commands and replay

Two commands (one in the queue of a route, the other bypassing it in `consistency`;
both in the queue in `progress`), two bodies, a table of 2, 2 in execution, 1
restart: retention and refusal have to happen, a queue of two is the smallest with a
successor. A second restart finds what the first left: pending receipts given up, memory
empty. Fairness: a command whose turn has come is tried, and one that was sent is
answered or times out.

Replay: 3 events of one runtime, 2 runtimes, 2 faults, one frame held back, one early,
2 entries of the channel, so that each limit is met while more comes. `Rebinds` says whether
clients resume a route under another runtime; `progress` sets it to FALSE because
`NumberSeen` fails otherwise (section 5) and with it all that follows. Fairness: Hermes
answers, the broker connects again and reads, the client reads and connects again.

### Tool calls, cache, interactions

Two calls (one human input), two arguments, a lease of one call, 3 troubles:
revocation, crash and end of a lease all happen in one behaviour. Cache: a list and a chat that
share a tag, two mutations, one of them an event, two loads, one entry, one reader (a
reader is independent of others but for the loads they share, and its own earlier loads
stand for theirs), 3 changes. Interactions: two requests, one answered by the
policy, one possible reply (no property tells replies apart), 2 breaks of any kind: a reply
lost before a crash, and the one after it, a computer taken over, a use of a credential.

### Pool

Two environments, one for desktops only, and two holders of the other; one
container at a time, a queue of two, one mishap. Fairness: provider calls have timeouts,
the sweep comes every five seconds, recover is awaited.

### Tasks, routines, notifications

Tasks: two assignments, the second depending on the first, one attempt per
authorisation, two wakes, two turns of the user, three operations, two authorisations: a
result may arrive during the review of the other one, wakes may run out, a goal
may be resumed. Fairness: the timer reconciles, runs end by themselves or by timeout.
Routines: period 2, day 3, five units of time, three records, two changes.
Push: two devices, endpoints of two platforms, a notice of the user and one of a
group, 3 items, two attempts, two changes, one lost answer. Fairness: requests time
out, back-offs end, the timer starts the flush.

### Mirror, runner, chat

Mirror: two messages, one of which may change once, two servers, pages of one event,
appends of two messages, one setback (the death of a server, or OpenViking switched off).
`PidStays` is FALSE: a successor has another process id (section 5). Runner: one call
and one mishap; `ChannelsClose` says itself that it is about one mishap at most, since two
lost connections can leave a channel open (section 5). `CommandsHonest` was also checked with two calls and two mishaps (6.0
million states). Chat: two replies, one of them there before the first import, pages of
one reply, totals given, one upset, two requests. `HistoryTrue` and `RepairsEnd` were
also checked, before prompts were told from other turns, with three replies (138 thousand
states), without totals (262 thousand), and `HistoryTrue` with three replies, two upsets and two requests (3.9 million).
Fairness: requests have timeouts, ticks and jobs come, a server that died is started,
Hermes ends its replies and answers, frames that were sent arrive, the node polls;
OpenViking need not carry out anything, and users need not do anything.

## 4. The proofs

Eight modules, checked by TLAPS for every value of the constants: any finite set of
works, any keys, calls, holders, devices, limits, periods and numbers of faults. Each
theorem listed states a property of a run of section 3 unless the table says otherwise.

| Module | Theorem | Property |
|---|---|---|
| `WorkspaceTurns_proofs` | `TypeCorrect` | `TypeOK` |
| | `Inductive` | `IInv`, the invariant |
| | `PromptsOnce` | `AtMostOnePrompt` (no run) |
| | `PromptsAccounted` | `NoOrphanPrompt` |
| | `PromptsAlone` | `OnePromptPerSession` |
| | `CancelledForGood` | `CancelIsFinal` (no run) |
| | `TurnsApart` | `TurnExclusivity` |
| | `StoppedStaysSilent` | `NoPromptAfterStop` |
| | `WithinLimits` | `TurnLimits` (no run) |
| | `ImplementsPromise` | `KeepsPromise`, the refinement of TurnPromise |
| `WorkspaceCascade_proofs` | `CascadeInductive` | `CascadeInv`, the invariant |
| | `BatchesInOrder` | `OneBatchAtATime` |
| | `SettlesForGood` | `SettledForGood`, about steps |
| | `ReviewsFollow` | `BatchesReviewed` |
| | `SpeakersInOrder` | `DiscussionInOrder` |
| | `RunTypeInvariant` | `RunTypeOK` (part of two type invariants below) |
| `Realtime_proofs` | `CommandsInductive` | `CommandInv`, the invariant |
| | `CommandsOnce`, `ReceiptsTrue` | `ExecutedOnce`, `ReceiptTruthful` |
| | `ReceiptsFinal` | verdicts are never reversed (no run) |
| | `ReplayInductive` | `ReplayInv`, the invariant |
| | `ReplayTypeInvariant` | `ReplayTypeOK` (part of `ProgressTypeOK`) |
| | `ShownInOrder` | `NoSilentGap`, about steps |
| `TurnCalls_proofs` | `CallsInductive` | `ToolInv`, the invariant |
| | `EffectsOnce`, `AnswersAgree` | `EffectOnce`, `AnswersTrue` |
| | `RepliesInductive` | `ReplyInv`, the invariant |
| | `RepliesOnce`, `SidesAgree` | `AnsweredOnce`, `WaitingAgrees` |
| | `CacheInductive` | `CacheInv`, the invariant of ReadCache |
| | `CacheCurrent` | `ReadsCurrent` |
| | `RoutineInductive` | `RoutineInv`, the invariant |
| | `MissedOnce` | `CatchesUpOnce` |
| | `ConsistencyTypes` | `ConsistencyTypeOK` |
| `ComputerPool_proofs` | `PoolInductive` | `PoolInv`, the invariant |
| | `QuotaHolds` | `PoolQuota` |
| | `RowsHold` | `RowsTruthful` (no run) |
| `Background_proofs` | `NoticesInductive` | `PushInv`, the invariant |
| | `NoticesShownOnce` | `ShownOnce` |
| | `RegistrationsKept` | `RegistrationKept`, about steps |
| | `TaskInductive` | `TaskInv`, the invariant |
| | `EndedGoalsRest` | `EndedMeansDone` |
| | `ProgressTypes` | `ProgressTypeOK` |
| `Remote_proofs` | `NodeInductive` | `NodeInv`, the invariant |
| | `HonestHolds` | `CommandsHonest` |
| | `MirrorInductive` | `MirrorInv`, the invariant |
| | `MirrorHolds` | `MirrorExact` |
| | `ConversationTypes` | `ConversationTypeOK` |
| `ChatSync_proofs` | `ChatInductive` | `ChatInv`, the invariant |
| | `HistoryHolds` | `HistoryTrue` |

The assumptions are those the modules declare for their constants (naturals, functions
between the sets named) and finiteness where cardinalities are compared: of works
(`TurnLimits`), of environments (`PoolQuota`), of members (the cascade's plans).
The speakers of a discussion are distinct, as createGroup refuses a member named twice.
`ReviewsFollow` has one hypothesis more, `Stoppable \subseteq {Admin}`: no member of a
batch is stopped by itself. The run `cascade_stop` shows that it is needed. The theorems about
the replay of events assume `~Rebinds`, as the run `progress` does: Hermes replaces no
runtime under a connected broker, which is what realtimeBroker.ts:282 relies on. The run
`replay_rebound` shows what becomes of the numbers otherwise.
The invariants were checked by TLC before they were first proved, `ChatInv` also with three
replies, two upsets and without totals.

### Turns

None of the properties is inductive. The invariant that carries them is

    IInv == TypeOK /\ (\A w : TurnInv(w) /\ PromptInv(w) /\ StopInv(w))
            /\ StoppedRunInv /\ SessionInv /\ TurnExclusivity

`TurnInv` ties memory to the store: a work is executing exactly while its
closure lives, and how far the closure is says whether the prompt is on record.
`PromptInv` is the write-ahead argument: `submitted` is stored before the prompt
goes out and taken back only with a final outcome, so whatever may be queued
again was never sent. `StopInv` says that owed confirmations and interrupt
calls belong to interrupted works, and that a stopped run has nothing left to
start. `SessionInv` allows one busy work per session, "busy" including an
unconfirmed stop; this is what makes two prompts in one session impossible
although the closure of a stopped turn may still be unwinding. Without
`TurnInv` a requeued work could have a closure about to send; without
`SessionInv` a recheck could adopt another turn's running prompt.

Layout: one lemma per action, or per group of actions with the same effect
(`FinishStep`, `PhaseStep`, `LeaveMemoryStep` say what groups share), then
`NextInv`, then the theorems; the other modules follow it. `ImplementsPromise` first
classifies every step (`StepKinds`): it queues, sends one prompt, settles, or changes
nothing the promise can see.

### Cascade

`CascadeInv` has three parts beside the types. `SettleInv`: the run is over exactly
when all its turns have ended and have been planned, and this has been reported once; so
no late plan, recheck or restart finds anything to add. `RoleInv`: in a host group
the administrator's turns are the first one and the reviews, one at most for each
batch, and a batch hangs on a planned turn. `GroupInv`: the works fall into groups
(a batch, then its review, then the next batch) and everything before the latest group is
finished and reviewed; this is what makes one batch at a time inductive, as a new
group is opened only when the latest one has ended. `ReviewsFollow` adds
`ReviewInv`, a turn of every unreviewed batch is still to be planned: planning
the last one brings the review, and cancelWorks is the only other way to mark a turn
as planned.
`SpeakersInOrder` has an invariant of its own, `OrderInv`: the bot and the round of a turn
give it one slot (`OneSlot`, division with remainder over distinct speakers); the slots of
the turns rise and those between two turns belong to members that have left; every turn but
the last is planned. Without the last part an earlier turn could bring the same speaker
again after a restart. `NextSlot` says that the code's search for the next speaker takes the
first slot whose member is still there.

### Commands, tool calls, replies

`CommandInv` ties memory to the table and to Hermes: a key that is in memory has its
row (`TraceInv`), a key that was not sent has had no effect and a verdict in
a row is what became of the call (`ReceiptInv`). `ToolInv` does the same for the
journal: who is in memory has a "started" row, an effect is under way or has
happened only for a row past its intent (`EffectInv`, `RowInv`), and every answer
is covered by its row (`AnswerInv`). `ReplyInv` counts for each request: a card that may still be
answered was never answered, and at most one reply is under way, adrift or
taken up. `WaitingAgrees` compares what a turn shows with what is so at Hermes. `AgreeInv`
carries it across the messages between them: a reply answered "ok" and a cancellation on its
way are those of a request that is closed. `LiveInv` says that notices, takeovers and uses of
credentials the server knows of belong to a turn that is not over, so that a crash, a recheck
or the end of a turn leaves none behind.

### Events

`ReplayInv` follows an event from Hermes to the client. `WireInv`: the answer to a
recovery or a resume divides the events of the runtime (`Divides`); what was
received or is on the wire before it is not later than it says, and every later event is on the wire
behind it. So what is replayed and what was held back meet without a gap, and a
client's snapshot with what comes after it. `StreamInv` makes the stream the
end of the channel, through trimming and eviction, so that a client that connects again
reads on where it was. `FollowInv` is the property, one step ahead: what the client has
still to read continues what it knows, up to the first reset (`Continues`), and if no
reset is there, the number of the route is that of the last entry and the next event
continues it (`InStep`). Without its last part an event of a route that has seen no
number would start anywhere.

Received frames are processed one after the other by a recursive function. `Took` says
what the pass does, by induction over the frames; the library's induction theorems need
an operator as a parameter, so `Counted` proves induction for sets from the
well-foundedness of finite sets under inclusion.

### Pool and cache

`PoolInv`: an environment is live when it has a container or the operation under way
may start one; live environments have a row that is not free, and there are no more of
them than the quota, because each took its place before it came to live. Without
the second half of "live" the container that is just being started would not count.
`CacheInv`: no entry, no load that still counts and no waiting reader is behind what was
reported, and a load that still counts is the one that new readers of its key
join. The last part is what a load started twice for one key would break.

### Notices, routines, tasks

`PushInv` is a potential: an item that can still be shown, because its event is yet
to come, it waits in the outbox or it is on its way, was shown only by way of lost
answers; showing it takes it out of all three or loses an answer. `RoutineInv`: each
record of the schedule is over before the next time of the routine, at most one record
is unfinished, and a routine is switched on exactly while it has a next time; the core
is `NextIsLater`, nextRoutineAt answers a later time or none. `TaskInv`: an attempt runs
only for an assignment that is under way or being cancelled, and the status of the goal
bounds those of its assignments, one clause for "ended" and one for "cancelling", without which the
step from one to the other could not be made.

### Nodes and the mirror

`NodeInv` is the argument of the row written first: whoever at the node may still act on
a command has a row without an outcome and has not acted, so a second delivery, which
finds the row, never acts; and `Recorded` says that what the node works on has one. What
the hub tells its caller comes from an outcome the row has for good.
`MirrorInv` rests on `Exclusive` (who works on the session lives and is the only holder of its
lock) and `LatestSent` (one append at most is under way, and the session with it is the
transcript written down as intended before it was sent). `Agreed` carries that across the
server's reads: one that does not find itself uncertain has read all there is, and a transcript
whose messages rise can only be extended by later ones. `Payloads` and `Nth` exist
for these proofs: the transcript is defined by the place of each message, without sorting.

### Transcripts

`HistoryTrue` speaks of a conversation at rest, so `ChatInv` has to say what holds while
frames, pages, lost connections and prompts overlap. Its measure is `Told(h, n)`: a broker
that has heard the frames up to h still learns that it lacks frame n, because the frame is
to arrive, the connection is being recovered, or the loss is known (`line.missing`).

- `LineInv`: what is on its way is the end of what Hermes has sent, and the answer to
  session.resume tells the reply whose next frame is held back.
- `TranscriptInv`: every reply behind those the stored total counts is shown, or told,
  or a repair is due (`CoverInv`); what has been read is shown; what is shown twice or was cut short is
  known to be dated or due (`RowInv`, `CutInv`). An event is written to the last row, so the
  rest is about whose row that is: the completion of a reply finds its own row, none, or a
  transcript that says so (`TurnInv`, `OwnInv`, `NextInv`).
- `FlightInv`: while nothing has come between (`reading.same`), every reply added
  behind the total of the detail or of the page is still told (`Later`); so an import that
  leaves it out leaves out nothing that is not on its way. `LengthInv` is what a last page
  says of the total.

Hermes may remove a reply while the pages are read. `Lost` is the excuse: the
transcript shows a reply that was removed, or moved to another place, which makes the
conversation `Drifted` for as long as the stored total stands. A replay applies many
frames in one step; `Along` is the invariant after each of them, `Course` the transcripts
between, and the induction over the numbers of the frames is `Counted` once more. During
a replay a reply may be known from an import before its frames: `Coming` says
that one that is read lies ahead, and at the end of the replay none does. `NewRows` and
`Replayed` are defined for this proof, without folds: the place of a reply is that in the
latest page that holds it, a replay is a function on the frames.

### Types

The invariants above contain the types the arguments need; `CommandSides`, `InteractionSides`,
`RoutineSides`, `PoolSides`, `TaskSides` and the like add what they leave out: bounds
of counters, queues whose entries are requests somebody made, notices of known questions.
Some needed more than their type. A lease belongs to a holder only because the
queued operations of leases name one (`Signed`: a desktop's operations name nobody);
the records of a run reach back only to earlier groups; a goal is made with its first
activation, which is why `MaxActivation` is at least 1.
A theorem for each component (`CommandTypeInvariant`, `CacheTypeInvariant`,
`InteractionTypeInvariant`, `RoutineTypeInvariant`, `PoolTypeInvariant`,
`PushTypeInvariant`, `TaskTypeInvariant`, `RunnerTypeInvariant`, `MirrorTypeInvariant`,
`ChatTypeInvariant`) says so; as the components share no variable, a behaviour of
several side by side is one of each of them (`ConversationParts`, `ConsistencyParts`,
`ProgressParts`), and the three theorems about the instances follow. The queue of a route
is shortened by a recursive function (`LeftIn`), about which `Counted` serves again.

### What is only model-checked

Liveness (`StopConfirmed`, `QueueMoves`, `RunSettles`, `CommandsEnd`, `CatchesUp`,
`EnvironmentsReturn`, `NoticesEnd`, `ResultsReturn`, `MirrorEnds`, `ChannelsClose`,
`RepairsEnd`) rests on fairness and `ENABLED` and is out of the prover's reach.
Every safety
invariant and every action property of a passing run is proved.


## 5. Where code and documents disagree

Each is a run in which TLC finds the counterexample.

- **A stop that is never confirmed** (`turns_stop`, `StopConfirmed`). A turn stopped
  during its setup is confirmed locally, and the bot's next turn starts while the
  closure of the first has not returned. That closure still writes the binding and the live
  entry, then removes the entry when it finishes. If the next turn has submitted in
  between and is stopped afterwards, `interruptTurn` finds neither live entry nor
  binding of it and throws on every retry; the conversation refuses messages, also after
  a restart. `turns_live`, where the two turns belong to different bots, has no such
  behaviour. (`docs/workspace-orchestration-parity.md:9` promises that one member
  is serial; `PromptsAlone` proves that the prompts of the two never overlap.)
- **A batch without review** (`cascade_stop`, `CompletedWorkReviewed`). Stopping
  the last running member of a batch marks it as planned, so nobody plans the
  review, and what the other members completed is never reviewed.
  `docs/workspace-orchestration-parity.md:5-6` promise a review after the
  whole batch, interruptions included.
- **Events taken for repeated ones** (`replay_rebound`, `NumberSeen`). A route that a
  client's resume maps to a new runtime keeps the number it had seen; the first events
  of the new runtime are dropped.
- **A reply that never ends** (`chat_replay`, `RunsWithHermes`). The answer to
  `session.resume` is older than the frames replayed after it, and is noted last. The
  same order the other way round cuts a reply in progress short.
- **A stopped goal works again** (`task_stop`, `StopStands`). The operations of the
  coordinator do not refuse a goal that is being stopped.
- **A rejection that is none** (`runner_reject`, `RejectionDefinitive`). Closing a
  channel tells the commands under way that they were not admitted, also one that
  Hermes carries out.
- **A lock of the dead** (`mirror_restart`, `MirrorEnds`). In a container a server
  gets its old process id back and takes the lock it left for that of a living process.

`PROJECT.json` quotes the lines. Without a run of their own:

- The documents give 4 as the number of turns executing on the whole server
  (`docs/workspace-orchestration-parity.md:9`, `docs/workspace-chat.md:36`), the code has
  `WORKSPACE_CONCURRENCY_LIMIT = 10`. The model takes the limit as a constant, and
  `WithinLimits` holds for any value.
- Two lost connections can leave a channel open at a node: an admission answered two
  reconnections later lets an opening that the hub has forgotten open a gate
  (`runner/agent.ts:250`), and the close that would end it is gone; a server that opens its
  connection again replaces the handle of the channel without closing the old one
  (`workspaceGateway.ts:303`). A lost "closed" event leaves the hub with a channel that is
  gone (`runner/agent.ts:249`). `ChannelsClose` holds after one mishap at most and says so.
- A stop queued for one holder of a computer is carried out although another holder
  has come meanwhile, and ends the other's lease (`runner/computers/pool.ts:17` against
  225, 94, 240-246).
- After a restart in the middle of a reply, its lost frames are never read: a client's
  `session.resume` marks the conversation as current and schedules no repair
  (`HistoryTrue` excepts it by `line.missing`).
- A turn that is removed in Hermes before it was ever imported is repaired for ever: an
  import does not find its prompt and withholds the history, and every retry reads all of it
  again, after restarts too (chatTranscriptStore.ts:445-467, chatCache.ts:1474 and 1553).
  `RepairsEnd` excepts it (`Orphaned`), and is false without this exception.
- A reply imported over HTTP before its frames arrive is shown twice.
- When Hermes gives no totals and a reply is appended between two pages, positions
  shift; later imports then fail with "Stored history changed" until the user asks for a
  refresh (`Drifted`).
- A `session.title` event turns a known gap into "current" (chatCache.ts:1270,
  454), and the repair may then finish without reading anything.
- An assignment whose dependency was cancelled is never dispatched nor reviewed; a goal
  that waits for its user is delivered anew after every revision; the coordinator may block
  an assignment that is blocked already while its wake is refused, which `ResultsReturn`
  excepts (`docs/bot-agent-teams.md:23`).
- `routes.ts:1784-1792` changes the authorization of an account, waits, and then
  removes its push state: a registration that comes in between is lost. A device that takes
  over another's token while its own item waits can get a second banner.

## 6. What is not modelled, and the plan

`PROJECT.json` gives the reason for every component left out. Request validation,
accounts, files, the user interface, packaging and cryptography are sequential or pure input
and output; of 72 thousand lines of implementation most belong to those, so that
the lines mapped here stay a small share of the whole, while they are most of what the
server does concurrently.

Done: every module of section 2, and the proofs of section 4. The plan from here:

1. Modules for what is left that is concurrent: the jobs that watch chats for notices
   (pushEvents.ts), grants of the credential vault, pairing, collaboration, the control of
   browsers, the maintenance barrier of updates, the synthesis of memory.
2. Compositions: WorkspaceTurns with Interactions (a turn that waits for an answer
   while it is stopped), and WorkspaceCascade over WorkspaceTurns by a refinement in
   which a cascade's `Start`, `EndTurn`, `Recheck` and `Restart` are the turn module's steps
   seen from outside.
