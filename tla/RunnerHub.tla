----------------------------- MODULE RunnerHub -----------------------------
(***************************************************************************)
(* The commands a server gives an execution node, which it cannot reach:   *)
(* the node asks for them.  The hub (server/runnerHub.ts) keeps what is    *)
(* pending and who is connected; the node (runner/agent.ts) has every      *)
(* command admitted before it acts, keeps a row of each one so that it     *)
(* acts once, and gives up what it opened when the connection to the hub   *)
(* is reset.                                                               *)
(*                                                                         *)
(* One channel to Hermes with its opening, its calls and its closing.      *)
(* Epochs are compared, never counted: the node and its poll know the      *)
(* present one or a past one.  The clocks of the two machines agree.       *)
(* Leases of tools, computers and browsers are commands like calls.        *)
(***************************************************************************)
EXTENDS Naturals, FiniteSets

CONSTANTS
  RemoteCalls,  \* gateway.rpc commands with an effect, prompt.submit for one
  MaxMishaps    \* bound: lost connections, restarts, silent nodes, lost answers

ASSUME RunnerAssumption ==
  {"open", "close"} \cap RemoteCalls = {} /\ MaxMishaps \in Nat

Commands == {"open", "close"} \cup RemoteCalls

VARIABLES
  online,     \* hub: the node is known, in the present epoch
  asked,      \* hub: what became of each command
  channel,    \* hub: the connection of the turn
  granted,    \* hub: valid(), the authority of the turn
  poll,       \* the request of the node for commands
  connected,  \* node
  current,    \* the epoch the node knows is the present one
  work,       \* node: inflight, and the delivery of its result
  row,        \* node: durable table of commands
  gate,       \* node: its side of the channel
  tomb,       \* node: closedConnections
  acted,      \* how often Hermes acted on a call
  mishaps     \* bookkeeping of the model

hubVars == <<online, asked, channel, granted>>
nodeVars == <<connected, current, work, row, gate, tomb>>
runnerVars == <<hubVars, poll, nodeVars, acted, mishaps>>

\* "off": the node has not been started yet.
NoPoll == [stage |-> "idle", reset |-> FALSE, stale |-> FALSE, present |-> FALSE,
           known |-> FALSE, batch |-> {}]
Pending == {c \in Commands : asked[c] = "pending"}
Mishap == mishaps < MaxMishaps /\ mishaps' = mishaps + 1

RunnerInit ==
  /\ online = FALSE /\ channel = "none" /\ granted = TRUE
  /\ asked = [c \in Commands |-> "none"]
  /\ poll = [NoPoll EXCEPT !.stage = "off"]
  /\ connected = FALSE /\ current = FALSE
  /\ work = [c \in Commands |-> "none"]
  /\ row = [c \in Commands |-> "none"]
  /\ gate = "none" /\ tomb = FALSE
  /\ acted = [c \in RemoteCalls |-> 0]
  /\ mishaps = 0

-----------------------------------------------------------------------------
(* The hub: requests and their outcomes                                    *)

\* request: an error at once when the node is not known.
Request(before, c, known) == [before EXCEPT ![c] = IF known THEN "pending" ELSE "offline"]

\* A command has its outcome; a failed opening is closed (the catch of open).
Outcome(c, outcome, known) ==
  LET settled == [asked EXCEPT ![c] = outcome] IN
  IF c # "open" THEN asked' = settled /\ UNCHANGED channel
  ELSE IF outcome = "ok" THEN asked' = settled /\ channel' = IF channel = "opening" THEN "open"
                                                             ELSE channel
  ELSE asked' = Request(settled, "close", known) /\ channel' = "closed"

OpenChannel ==
  /\ channel = "none" /\ online
  /\ channel' = "opening" /\ asked' = Request(asked, "open", online)
  /\ UNCHANGED <<online, granted, poll, nodeVars, acted, mishaps>>

\* A call, by a turn that still has its authority.
CallNode(c) ==
  /\ channel \in {"open", "lost"} /\ asked["open"] = "ok" /\ asked[c] = "none" /\ granted
  /\ asked' = Request(asked, c, online)
  /\ UNCHANGED <<online, channel, granted, poll, nodeVars, acted, mishaps>>

\* close: what is pending is said to be not admitted.
CloseChannel ==
  /\ channel \in {"open", "lost"} /\ asked["open"] = "ok"
  /\ channel' = "closed"
  /\ asked' = Request([c \in Commands |-> IF c \in Pending THEN "closed" ELSE asked[c]],
                      "close", online)
  /\ UNCHANGED <<online, granted, poll, nodeVars, acted, mishaps>>

\* The turn loses its authority.
Revoke ==
  /\ granted /\ channel \in {"opening", "open"} /\ granted' = FALSE
  /\ UNCHANGED <<online, asked, channel, poll, nodeVars, acted, mishaps>>

\* The time of a command is up.  Closing takes less than that.
Expire(c) ==
  /\ c \in Pending \ {"close"}
  /\ Outcome(c, "uncertain", online)
  /\ UNCHANGED <<online, granted, poll, nodeVars, acted, mishaps>>

\* disconnect: every channel of the node is lost, every pending command fails.
Forget(known) ==
  LET failed == [c \in Commands |-> IF c \in Pending THEN "offline" ELSE asked[c]] IN
  IF "open" \in Pending
  THEN asked' = Request(failed, "close", known) /\ channel' = "closed"
  ELSE /\ asked' = failed
       /\ channel' = IF channel \in {"opening", "open"} THEN "lost" ELSE channel

-----------------------------------------------------------------------------
(* The node asks for commands                                              *)

NodeStarts ==
  /\ poll.stage = "off" /\ poll' = NoPoll
  /\ UNCHANGED <<hubVars, nodeVars, acted, mishaps>>

PollSend ==
  /\ poll.stage = "idle"
  /\ poll' = [NoPoll EXCEPT !.stage = "asked", !.reset = ~connected]
  /\ UNCHANGED <<hubVars, nodeVars, acted, mishaps>>

\* A node that starts anew, in a new process or after an error, begins an epoch.
PollArrive ==
  /\ poll.stage = "asked"
  /\ current' = (current /\ online /\ ~poll.reset)
  /\ poll' = [poll EXCEPT !.stage = "waiting", !.present = TRUE, !.known = current']
  /\ online' = TRUE
  /\ IF online /\ poll.reset THEN Forget(TRUE) ELSE UNCHANGED <<asked, channel>>
  /\ UNCHANGED <<granted, connected, work, row, gate, tomb, acted, mishaps>>

\* The answer brings what is pending, or an error in another epoch.  A command that
\* was handed out already waits 5 s for its next time: here it may come at once.
PollAnswer ==
  /\ poll.stage = "waiting"
  /\ poll' = IF poll.present THEN [poll EXCEPT !.stage = "answered", !.batch = Pending]
             ELSE [poll EXCEPT !.stage = "failed"]
  /\ UNCHANGED <<hubVars, nodeVars, acted, mishaps>>

\* disconnect at the node: what it opened is closed, a poll under way is void.
Dropped ==
  /\ gate' = "none" /\ tomb' = (tomb \/ gate # "none")

\* Mutant: a command with a row is carried out again.
HandleAgain(batch) ==
  LET new == {c \in batch : work[c] = "none"} IN
  /\ row' = [c \in Commands |-> IF c \in new THEN "started" ELSE row[c]]
  /\ work' = [c \in Commands |-> IF c \in new THEN "new" ELSE work[c]]

\* handle: a command is carried out once, its row answers for it afterwards; a row
\* without an outcome is of a process that died.
Handle(batch) ==
  LET new == {c \in batch : work[c] = "none"} IN
  /\ row' = [c \in Commands |-> IF c \in new /\ row[c] = "none" THEN "started" ELSE row[c]]
  /\ work' = [c \in Commands |-> IF c \notin new THEN work[c]
                                 ELSE IF row[c] = "none" THEN "new" ELSE "reply"]

PollReceive ==
  /\ poll.stage = "answered"
  /\ poll' = NoPoll
  /\ IF poll.stale THEN UNCHANGED nodeVars
     ELSE /\ IF poll.known THEN UNCHANGED <<gate, tomb>> ELSE Dropped
          /\ connected' = TRUE /\ current' = poll.present
          /\ Handle(poll.batch)
  /\ UNCHANGED <<hubVars, acted, mishaps>>

\* The poll fails, at the hub or on the way.
PollFails ==
  /\ poll.stage \notin {"off", "idle"}
  /\ IF poll.stage = "failed" THEN UNCHANGED mishaps ELSE Mishap
  /\ poll' = NoPoll
  /\ IF poll.stale THEN UNCHANGED <<gate, tomb, connected>> ELSE Dropped /\ connected' = FALSE
  /\ UNCHANGED <<hubVars, current, work, row, acted>>

-----------------------------------------------------------------------------
(* The node carries a command out                                          *)

\* admit, at the hub: the command is pending, in this epoch, for a live channel.
Admitted(c) ==
  /\ c \in Pending /\ current /\ online
  /\ c # "close" => channel \in {"opening", "open"} /\ granted

Admit(c) ==
  /\ work[c] = "new"
  /\ work' = [work EXCEPT ![c] = IF Admitted(c) THEN "admitted" ELSE "denied"]
  /\ UNCHANGED <<hubVars, poll, connected, current, row, gate, tomb, acted, mishaps>>

Finish(c, outcome) ==
  work' = [work EXCEPT ![c] = "reply"] /\ row' = [row EXCEPT ![c] = outcome]

\* The answer reaches the node: the time of the command is looked at again.
Begin(c) ==
  /\ work[c] \in {"admitted", "denied"}
  /\ IF work[c] = "denied" \/ asked[c] = "uncertain"
     THEN Finish(c, "refused") /\ UNCHANGED <<gate, tomb>>
     ELSE IF ~connected THEN Finish(c, "failed") /\ UNCHANGED <<gate, tomb>>
     ELSE IF c = "close" THEN Finish(c, "ok") /\ gate' = "none" /\ tomb' = TRUE
     ELSE IF c = "open" /\ gate = "none" /\ ~tomb
     THEN gate' = "connecting" /\ work' = [work EXCEPT ![c] = "acting"] /\ UNCHANGED <<row, tomb>>
     ELSE IF c # "open" /\ gate = "open"
     THEN work' = [work EXCEPT ![c] = "acting"] /\ UNCHANGED <<row, gate, tomb>>
     ELSE Finish(c, "failed") /\ UNCHANGED <<gate, tomb>>
  /\ UNCHANGED <<hubVars, poll, connected, current, acted, mishaps>>

\* Mutant: the channel is not looked for again.
StillWanted == TRUE

\* Nobody closed the channel while it was being opened.
Wanted == gate = "connecting" /\ connected

\* gateway.open ends; the gate may have been closed in the meantime.
Opened ==
  /\ work["open"] = "acting"
  /\ \/ Wanted /\ gate' = "open" /\ Finish("open", "ok")
     \/ gate' = "none" /\ Finish("open", "failed")
  /\ UNCHANGED <<hubVars, poll, connected, current, tomb, acted, mishaps>>

\* Hermes acts on a call, declines it, or leaves no answer.
Called(c) ==
  /\ c \in RemoteCalls /\ work[c] = "acting"
  /\ \/ /\ gate = "open" /\ Finish(c, "ok")
        /\ acted' = [acted EXCEPT ![c] = @ + 1]
     \/ gate = "open" /\ Finish(c, "refused") /\ UNCHANGED acted
     \/ /\ Finish(c, "failed")
        /\ \/ UNCHANGED acted
           \/ acted' = [acted EXCEPT ![c] = @ + 1]
  /\ UNCHANGED <<hubVars, poll, connected, current, gate, tomb, mishaps>>

\* What a row answers; one without an outcome does not know.
Answer(c) == IF row[c] = "started" THEN "failed" ELSE row[c]

\* result: taken in the epoch of the command only.
Result(c) ==
  /\ work[c] = "reply" /\ work' = [work EXCEPT ![c] = "none"]
  /\ IF current /\ online /\ c \in Pending THEN Outcome(c, Answer(c), online)
     ELSE UNCHANGED <<asked, channel>>
  /\ UNCHANGED <<online, granted, poll, connected, current, row, gate, tomb, acted, mishaps>>

ResultLost(c) ==
  /\ work[c] = "reply" /\ Mishap /\ work' = [work EXCEPT ![c] = "none"]
  /\ UNCHANGED <<hubVars, poll, connected, current, row, gate, tomb, acted>>

-----------------------------------------------------------------------------
(* Events, losses and restarts                                             *)

\* The hub refuses an event of a channel it has lost, or that has lost its
\* authority: the node closes the channel.  In another epoch, or without an answer,
\* the node gives up its connection.
ChannelEvent ==
  /\ gate = "open"
  /\ \/ /\ current /\ online
        /\ channel \notin {"opening", "open"} \/ ~granted
        /\ channel' = IF channel \in {"opening", "open"} THEN "lost" ELSE channel
        /\ Dropped
        /\ UNCHANGED <<connected, poll, mishaps>>
     \/ /\ IF current /\ online THEN Mishap ELSE UNCHANGED mishaps
        /\ connected /\ connected' = FALSE /\ Dropped
        /\ poll' = [poll EXCEPT !.stale = poll.stage # "idle"]
        /\ UNCHANGED channel
  /\ UNCHANGED <<online, asked, granted, current, work, row, acted>>

\* The socket to Hermes closes; the hub hears of it, if the notice is not lost.
GateDrops ==
  /\ gate = "open" /\ Mishap /\ gate' = "dead"
  /\ channel' \in {channel, IF channel \in {"opening", "open"} /\ current /\ online
                            THEN "lost" ELSE channel}
  /\ UNCHANGED <<online, asked, granted, poll, connected, current, work, row, tomb, acted>>

\* The watchdog: a node that has been silent for longer than any answer takes.
Watchdog ==
  /\ online /\ poll.stage \notin {"asked", "waiting"} /\ Mishap
  /\ \A c \in Commands : work[c] \notin {"admitted", "denied"}
  /\ online' = FALSE /\ current' = FALSE
  /\ poll' = [poll EXCEPT !.present = FALSE]
  /\ Forget(FALSE)
  /\ UNCHANGED <<granted, connected, work, row, gate, tomb, acted>>

\* The server dies with what is pending and with its answers under way.
HubRestarts ==
  /\ Mishap
  /\ online' = FALSE /\ current' = FALSE
  /\ asked' = [c \in Commands |-> IF c \in Pending THEN "offline" ELSE asked[c]]
  /\ channel' = IF channel \in {"opening", "open"} THEN "lost" ELSE channel
  /\ poll' = IF poll.stage \in {"off", "idle", "answered"} THEN [poll EXCEPT !.present = FALSE]
             ELSE [poll EXCEPT !.stage = "failed"]
  /\ work' = [c \in Commands |-> IF work[c] = "admitted" THEN "denied" ELSE work[c]]
  /\ UNCHANGED <<granted, connected, row, gate, tomb, acted>>

\* The node dies; Hermes may have got a call under way.
NodeRestarts ==
  /\ poll.stage # "off" /\ Mishap
  /\ poll' = NoPoll
  /\ connected' = FALSE /\ current' = FALSE /\ gate' = "none" /\ tomb' = FALSE
  /\ work' = [c \in Commands |-> "none"]
  /\ \E got \in SUBSET {c \in RemoteCalls : work[c] = "acting"} :
       acted' = [c \in RemoteCalls |-> IF c \in got THEN acted[c] + 1 ELSE acted[c]]
  /\ UNCHANGED <<hubVars, row>>

-----------------------------------------------------------------------------
NodeStep(c) == Admit(c) \/ Begin(c) \/ Called(c) \/ Result(c) \/ (c = "open" /\ Opened)

RunnerNext ==
  \/ OpenChannel \/ CloseChannel \/ Revoke
  \/ \E c \in RemoteCalls : CallNode(c)
  \/ \E c \in Commands : Expire(c) \/ NodeStep(c) \/ ResultLost(c)
  \/ NodeStarts \/ PollSend \/ PollArrive \/ PollAnswer \/ PollReceive \/ PollFails
  \/ ChannelEvent \/ GateDrops \/ Watchdog \/ HubRestarts \/ NodeRestarts

RunnerSpec == RunnerInit /\ [][RunnerNext]_runnerVars

\* The loop of the node goes on for ever, the hub answers, calls of Hermes have
\* timeouts.  Nobody has to open, call or close anything.
RunnerFairness ==
  /\ \A c \in Commands : WF_runnerVars(NodeStep(c))
  /\ WF_runnerVars(\/ PollSend \/ PollArrive \/ PollAnswer \/ PollReceive
                   \/ poll.stage = "failed" /\ PollFails)

-----------------------------------------------------------------------------
(* Properties                                                              *)

Outcomes == {"ok", "refused", "failed", "closed", "uncertain", "offline"}

\* Every variable has its type, and only an open gate belongs to a channel.
RunnerTypeOK ==
  /\ {online, granted, connected, current, tomb} \subseteq BOOLEAN
  /\ asked \in [Commands -> Outcomes \cup {"none", "pending"}]
  /\ channel \in {"none", "opening", "open", "lost", "closed"}
  /\ poll \in [stage : {"off", "idle", "asked", "waiting", "answered", "failed"}, reset : BOOLEAN,
               stale : BOOLEAN, present : BOOLEAN, known : BOOLEAN, batch : SUBSET Commands]
  /\ work \in [Commands -> {"none", "new", "admitted", "denied", "acting", "reply"}]
  /\ row \in [Commands -> {"none", "started", "ok", "refused", "failed"}]
  /\ gate \in {"none", "connecting", "open", "dead"}
  /\ acted \in [RemoteCalls -> Nat] /\ mishaps \in 0 .. MaxMishaps

\* Hermes acts on a command at most once, however often it is delivered and whoever
\* starts anew; who was told that it was done, or that it was not, was told the truth
\* (docs/runner.md: a repeated command gets its receipt again).
CommandsHonest ==
  \A c \in RemoteCalls : /\ acted[c] <= 1
                         /\ asked[c] = "ok" => acted[c] = 1
                         /\ asked[c] = "refused" => acted[c] = 0

\* After one mishap at most (a lost connection, a lost answer, a silent node, a restart
\* of either side) what the hub has lost or closed does not stay open at the node: no
\* order of openings, closings, resets and late answers leaves a channel nobody owns.
\* Two lost connections can leave one.  (A channel that is lost stays lost.)
ChannelsClose ==
  []<>(mishaps > 1 \/ (gate = "open" => channel \in {"opening", "open"}))

\* workspaceRuntime.ts:1051 takes a command that was not admitted for one that was
\* never carried out.  The close of a channel says so of commands under way.
RejectionDefinitive ==
  \A c \in RemoteCalls : asked[c] \in {"refused", "closed"} => acted[c] = 0
=============================================================================
