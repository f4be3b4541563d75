---------------------------- MODULE Remote_proofs ----------------------------
(***************************************************************************)
(* What TLAPS proves about work that is done elsewhere and whose answers   *)
(* get lost or come late: the calls an execution node carries out          *)
(* (RunnerHub), the transcript that OpenViking keeps (SessionMirror).  At  *)
(* the end the components of MCConversation side by side.                  *)
(***************************************************************************)
EXTENDS MCConversation, WorkspaceCascade_proofs, ChatSync_proofs, SequenceTheorems,
        FiniteSetTheorems, TLAPS

-----------------------------------------------------------------------------
(* Calls of an execution node                                              *)

CallTypes ==
  /\ asked \in [Commands -> Outcomes \cup {"none", "pending"}]
  /\ work \in [Commands -> {"none", "new", "admitted", "denied", "acting", "reply"}]
  /\ row \in [Commands -> {"none", "started", "ok", "refused", "failed"}]
  /\ acted \in [RemoteCalls -> Nat]

\* A call the node has not heard of has no row; who may still act on it has a row
\* without an outcome and has not acted; an outcome in a row, and what the hub says of it,
\* is what became of the call.
CallInv(c) ==
  /\ acted[c] <= 1
  /\ row[c] = "none" => work[c] = "none" /\ acted[c] = 0
  /\ work[c] \in {"new", "admitted", "denied", "acting"} => row[c] = "started" /\ acted[c] = 0
  /\ row[c] = "ok" => acted[c] = 1
  /\ row[c] = "refused" => acted[c] = 0
  /\ asked[c] = "ok" => row[c] = "ok"
  /\ asked[c] = "refused" => row[c] = "refused"

\* What the node works on has a row.
Recorded == \A c \in Commands : row[c] = "none" => work[c] = "none"

NodeInv == CallTypes /\ Recorded /\ \A c \in RemoteCalls : CallInv(c)

LEMMA CallsAreCommands ==
  /\ RemoteCalls \subseteq Commands /\ {"open", "close"} \subseteq Commands
  /\ "open" \notin RemoteCalls /\ "close" \notin RemoteCalls
BY RunnerAssumption DEF Commands

\* Steps that only change what the hub knows, and say nothing new of a verdict.
LEMMA HubStep ==
  ASSUME NodeInv, UNCHANGED <<work, row, acted>>,
         asked' \in [Commands -> Outcomes \cup {"none", "pending"}],
         \A c \in RemoteCalls : asked'[c] \in {"ok", "refused"} => asked'[c] = asked[c]
  PROVE  NodeInv'
<1>1. CallTypes' /\ Recorded'
  BY DEF NodeInv, CallTypes, Recorded
<1>2. ASSUME NEW c \in RemoteCalls
      PROVE  CallInv(c)'
  <2>1. /\ asked'[c] = "ok" => asked[c] = "ok"
        /\ asked'[c] = "refused" => asked[c] = "refused"
    OBVIOUS
  <2>2. CallInv(c)
    BY DEF NodeInv
  <2> QED
    BY <2>1, <2>2 DEF CallInv
<1> QED
  BY <1>1, <1>2 DEF NodeInv

\* An outcome of a command that is not a verdict about a call.
LEMMA OutcomeStep ==
  ASSUME NodeInv, NEW c \in Commands, NEW o \in Outcomes, NEW known,
         Outcome(c, o, known), UNCHANGED <<row, acted>>,
         work' \in [Commands -> {"none", "new", "admitted", "denied", "acting", "reply"}],
         \A d \in Commands : work'[d] \in {work[d], "none"},
         o \in {"ok", "refused"} => row[c] = o
  PROVE  NodeInv'
<1> DEFINE settled == [asked EXCEPT ![c] = o]
<1>1. asked' = settled \/ asked' = Request(settled, "close", known)
  BY DEF Outcome
<1>2. settled \in [Commands -> Outcomes \cup {"none", "pending"}]
  BY DEF NodeInv, CallTypes
<1>3. Request(settled, "close", known) = [settled EXCEPT !["close"] = IF known THEN "pending" ELSE "offline"]
  BY DEF Request
<1>4. asked' \in [Commands -> Outcomes \cup {"none", "pending"}]
  <2>1. PICK x \in Outcomes \cup {"pending"} :
          asked' = settled \/ asked' = [settled EXCEPT !["close"] = x]
    BY <1>1, <1>3 DEF Outcomes
  <2> QED
    BY <1>2, <2>1
<1>5. ASSUME NEW d \in RemoteCalls
      PROVE  asked'[d] = IF d = c THEN o ELSE asked[d]
  <2>1. d \in Commands /\ d # "close"
    BY CallsAreCommands
  <2>2. settled[d] = IF d = c THEN o ELSE asked[d]
    BY <2>1 DEF NodeInv, CallTypes
  <2> QED
    BY <1>1, <1>2, <1>3, <2>1, <2>2
<1>6. ASSUME NEW d \in RemoteCalls
      PROVE  CallInv(d)'
  BY <1>5, CallsAreCommands DEF NodeInv, CallInv, CallTypes
<1> QED
  BY <1>4, <1>6 DEF NodeInv, CallTypes, Recorded

\* Steps of the node that leave alone what has been told.
LEMMA NodeSide ==
  ASSUME NodeInv, NEW c \in RemoteCalls, asked'[c] = asked[c], row'[c] = row[c],
         \/ acted'[c] = acted[c] /\ work'[c] \in {work[c], "none"}
         \/ acted'[c] = acted[c] /\ work[c] \in {"new", "admitted", "denied", "acting"}
         \/ work[c] = "acting" /\ work'[c] = "none" /\ acted'[c] = acted[c] + 1
  PROVE  CallInv(c)'
BY CallsAreCommands DEF NodeInv, CallTypes, CallInv

\* disconnect at the hub: what was pending has failed.
LEMMA ForgetStep ==
  ASSUME NodeInv, NEW known, Forget(known), UNCHANGED <<work, row, acted>>
  PROVE  NodeInv'
<1> DEFINE failed == [c \in Commands |-> IF c \in Pending THEN "offline" ELSE asked[c]]
<1>1. failed \in [Commands -> Outcomes \cup {"none", "pending"}]
  BY DEF NodeInv, CallTypes, Outcomes
<1>2. asked' = failed \/ asked' = [failed EXCEPT !["close"] = IF known THEN "pending" ELSE "offline"]
  BY DEF Forget, Request
<1>3. asked' \in [Commands -> Outcomes \cup {"none", "pending"}]
  BY <1>1, <1>2 DEF Outcomes
<1>4. ASSUME NEW c \in RemoteCalls
      PROVE  asked'[c] \in {"offline", asked[c]}
  BY <1>1, <1>2, CallsAreCommands
<1> QED
  BY <1>3, <1>4, HubStep

\* A step of the node with one command, which need not be a call.
LEMMA CommandStep ==
  ASSUME NodeInv, NEW c \in Commands, UNCHANGED asked,
         NEW w \in {"none", "new", "admitted", "denied", "acting", "reply"},
         NEW r \in {"started", "ok", "refused", "failed"},
         work' = [work EXCEPT ![c] = w], row' = [row EXCEPT ![c] = r],
         acted' \in [RemoteCalls -> Nat],
         \A d \in RemoteCalls \ {c} : acted'[d] = acted[d],
         c \in RemoteCalls => CallInv(c)'
  PROVE  NodeInv'
<1>1. CallTypes' /\ Recorded'
  BY DEF NodeInv, CallTypes, Recorded
<1>2. ASSUME NEW d \in RemoteCalls, d # c
      PROVE  CallInv(d)'
  BY <1>2, CallsAreCommands DEF NodeInv, CallTypes, CallInv
<1> QED
  BY <1>1, <1>2 DEF NodeInv

LEMMA HandleStep ==
  ASSUME NodeInv, NEW batch, Handle(batch), UNCHANGED <<asked, acted>>
  PROVE  NodeInv'
<1>1. CallTypes' /\ Recorded'
  BY DEF Handle, NodeInv, CallTypes, Recorded
<1>2. ASSUME NEW c \in RemoteCalls
      PROVE  CallInv(c)'
  <2>1. c \in Commands
    BY CallsAreCommands
  <2>2. CASE c \in batch /\ work[c] = "none" /\ row[c] = "none"
    <3>1. work'[c] = "new" /\ row'[c] = "started"
      BY <2>1, <2>2 DEF Handle
    <3> QED
      BY <2>1, <2>2, <3>1 DEF NodeInv, CallInv, CallTypes
  <2>3. CASE c \in batch /\ work[c] = "none" /\ row[c] # "none"
    <3>1. work'[c] = "reply" /\ row'[c] = row[c]
      BY <2>1, <2>3 DEF Handle
    <3> QED
      BY <2>1, <2>3, <3>1 DEF NodeInv, CallInv, CallTypes
  <2>4. CASE ~(c \in batch /\ work[c] = "none")
    <3>1. work'[c] = work[c] /\ row'[c] = row[c]
      BY <2>1, <2>4 DEF Handle
    <3> QED
      BY <2>1, <3>1 DEF NodeInv, CallInv, CallTypes
  <2> QED
    BY <2>2, <2>3, <2>4
<1> QED
  BY <1>1, <1>2 DEF NodeInv

\* The steps of a command at the node.
LEMMA AdmitCallStep ==
  ASSUME NodeInv, NEW c \in Commands, Admit(c)
  PROVE  NodeInv'
<1>1. PICK w \in {"admitted", "denied"} : work' = [work EXCEPT ![c] = w]
  BY DEF Admit
<1>2. work[c] = "new" /\ row' = [row EXCEPT ![c] = row[c]] /\ UNCHANGED <<asked, row, acted>>
  BY DEF Admit, hubVars, NodeInv, CallTypes
<1>3. row[c] \in {"started", "ok", "refused", "failed"}
  BY <1>2 DEF NodeInv, CallTypes, Recorded
<1>4. ASSUME c \in RemoteCalls
      PROVE  CallInv(c)'
  BY <1>1, <1>2, <1>4 DEF NodeInv, CallTypes, CallInv
<1>5. acted' \in [RemoteCalls -> Nat]
  BY <1>2 DEF NodeInv, CallTypes
<1> QED
  BY <1>1, <1>2, <1>3, <1>4, <1>5, CommandStep

LEMMA BeginStep ==
  ASSUME NodeInv, NEW c \in Commands, Begin(c)
  PROVE  NodeInv'
<1>1. \/ work' = [work EXCEPT ![c] = "acting"] /\ row' = row
      \/ /\ work' = [work EXCEPT ![c] = "reply"]
         /\ \/ row' = [row EXCEPT ![c] = "refused"]
            \/ row' = [row EXCEPT ![c] = "failed"]
            \/ row' = [row EXCEPT ![c] = "ok"] /\ c = "close"
  BY DEF Begin, Finish
<1>2. work[c] \in {"admitted", "denied"} /\ UNCHANGED <<asked, acted>>
  BY DEF Begin, hubVars
<1>3. PICK w \in {"acting", "reply"}, r \in {row[c], "refused", "failed", "ok"} :
        /\ work' = [work EXCEPT ![c] = w] /\ row' = [row EXCEPT ![c] = r]
        /\ w = "acting" => r = row[c]
        /\ w = "reply" => r \in {"refused", "failed"} \/ c = "close"
  <2>1. row = [row EXCEPT ![c] = row[c]]
    BY DEF NodeInv, CallTypes
  <2> QED
    BY <1>1, <2>1
<1>4. r \in {"started", "ok", "refused", "failed"}
  BY <1>2, <1>3 DEF NodeInv, CallTypes, Recorded
<1>5. ASSUME c \in RemoteCalls
      PROVE  CallInv(c)'
  <2>1. c # "close" /\ row[c] = "started" /\ acted[c] = 0
    BY <1>2, <1>5, CallsAreCommands DEF NodeInv, CallInv
  <2>2. work'[c] = w /\ row'[c] = r
    BY <1>3 DEF NodeInv, CallTypes
  <2> QED
    BY <1>2, <1>3, <1>5, <2>1, <2>2 DEF NodeInv, CallTypes, CallInv
<1>6. acted' \in [RemoteCalls -> Nat]
  BY <1>2 DEF NodeInv, CallTypes
<1> QED
  BY <1>2, <1>3, <1>4, <1>5, <1>6, CommandStep

LEMMA OpenedStep ==
  ASSUME NodeInv, Opened
  PROVE  NodeInv'
<1>1. PICK r \in {"ok", "failed"} :
        work' = [work EXCEPT !["open"] = "reply"] /\ row' = [row EXCEPT !["open"] = r]
  BY DEF Opened, Finish
<1>2. UNCHANGED <<asked, acted>> /\ acted' \in [RemoteCalls -> Nat]
  BY DEF Opened, hubVars, NodeInv, CallTypes
<1> QED
  BY <1>1, <1>2, CallsAreCommands, CommandStep

LEMMA CalledStep ==
  ASSUME NodeInv, NEW c \in Commands, Called(c)
  PROVE  NodeInv'
<1>1. c \in RemoteCalls /\ work[c] = "acting" /\ UNCHANGED asked
  BY DEF Called, hubVars
<1>2. PICK r \in {"ok", "refused", "failed"}, n \in {0, 1} :
        /\ work' = [work EXCEPT ![c] = "reply"] /\ row' = [row EXCEPT ![c] = r]
        /\ acted' = [acted EXCEPT ![c] = n]
        /\ r = "ok" => n = 1
        /\ r = "refused" => n = 0
  <2>1. acted[c] = 0 /\ acted = [acted EXCEPT ![c] = 0]
    BY <1>1 DEF NodeInv, CallInv, CallTypes
  <2> QED
    BY <2>1 DEF Called, Finish
<1>3. CallInv(c)'
  BY <1>1, <1>2 DEF NodeInv, CallTypes, CallInv
<1>4. /\ acted' \in [RemoteCalls -> Nat]
      /\ \A d \in RemoteCalls \ {c} : acted'[d] = acted[d]
  <2>1. acted \in [RemoteCalls -> Nat] /\ n \in Nat
    BY <1>2 DEF NodeInv, CallTypes
  <2>2. acted' = [acted EXCEPT ![c] = n]
    BY <1>2
  <2> QED
    BY <2>1, <2>2
<1>5. "reply" \in {"none", "new", "admitted", "denied", "acting", "reply"}
      /\ r \in {"started", "ok", "refused", "failed"}
  BY <1>2
<1> QED
  BY <1>1, <1>2, <1>3, <1>4, <1>5, CommandStep

LEMMA ResultStep ==
  ASSUME NodeInv, NEW c \in Commands, Result(c)
  PROVE  NodeInv'
<1>1. work' = [work EXCEPT ![c] = "none"] /\ work[c] = "reply" /\ UNCHANGED <<row, acted>>
  BY DEF Result
<1>2. /\ work' \in [Commands -> {"none", "new", "admitted", "denied", "acting", "reply"}]
      /\ \A d \in Commands : work'[d] \in {work[d], "none"}
  BY <1>1 DEF NodeInv, CallTypes
<1>3. CASE current /\ online /\ c \in Pending
  <2>1. Outcome(c, Answer(c), online)
    BY <1>3 DEF Result
  <2>2. Answer(c) \in {"ok", "refused"} => row[c] = Answer(c)
    BY DEF Answer
  <2>3. Answer(c) \in Outcomes
    BY <1>1 DEF NodeInv, CallTypes, Recorded, Answer, Outcomes
  <2> QED
    BY <1>1, <1>2, <2>1, <2>2, <2>3, OutcomeStep
<1>4. CASE ~(current /\ online /\ c \in Pending)
  <2>1. UNCHANGED asked
    BY <1>4 DEF Result
  <2> QED
    BY <1>1, <1>2, <2>1, CallsAreCommands DEF NodeInv, CallTypes, Recorded, CallInv
<1> QED
  BY <1>3, <1>4

LEMMA NodeRestartStep ==
  ASSUME NodeInv, NodeRestarts
  PROVE  NodeInv'
<1>1. work' = [c \in Commands |-> "none"] /\ UNCHANGED <<asked, row>>
  BY DEF NodeRestarts, hubVars
<1>2. PICK got \in SUBSET {c \in RemoteCalls : work[c] = "acting"} :
        acted' = [c \in RemoteCalls |-> IF c \in got THEN acted[c] + 1 ELSE acted[c]]
  BY DEF NodeRestarts
<1>3. CallTypes' /\ Recorded'
  BY <1>1, <1>2 DEF NodeInv, CallTypes, Recorded
<1>4. ASSUME NEW c \in RemoteCalls
      PROVE  CallInv(c)'
  <2>1. work'[c] = "none"
    BY <1>1, CallsAreCommands
  <2>2. CASE c \in got
    <3>1. work[c] = "acting" /\ acted'[c] = acted[c] + 1
      BY <1>2, <2>2
    <3> QED
      BY <1>1, <2>1, <3>1 DEF NodeInv, CallTypes, CallInv
  <2>3. CASE c \notin got
    <3>1. acted'[c] = acted[c]
      BY <1>2, <2>3
    <3> QED
      BY <1>1, <2>1, <3>1 DEF NodeInv, CallTypes, CallInv
  <2> QED
    BY <2>2, <2>3
<1> QED
  BY <1>3, <1>4 DEF NodeInv

LEMMA HubRestartStep ==
  ASSUME NodeInv, HubRestarts
  PROVE  NodeInv'
<1>1. /\ asked' = [c \in Commands |-> IF c \in Pending THEN "offline" ELSE asked[c]]
      /\ work' = [c \in Commands |-> IF work[c] = "admitted" THEN "denied" ELSE work[c]]
      /\ UNCHANGED <<row, acted>>
  BY DEF HubRestarts
<1>2. CallTypes' /\ Recorded'
  BY <1>1 DEF NodeInv, CallTypes, Recorded, Outcomes
<1>3. ASSUME NEW c \in RemoteCalls
      PROVE  CallInv(c)'
  <2> c \in Commands
    BY CallsAreCommands
  <2>1. asked'[c] = "offline" \/ asked'[c] = asked[c]
    BY <1>1
  <2>2. work'[c] = IF work[c] = "admitted" THEN "denied" ELSE work[c]
    BY <1>1
  <2> QED
    BY <1>1, <2>1, <2>2 DEF NodeInv, CallTypes, CallInv
<1> QED
  BY <1>2, <1>3 DEF NodeInv

\* The steps of the hub that ask for something or give up what is pending.
LEMMA AskingStep ==
  ASSUME NodeInv, OpenChannel \/ CloseChannel \/ \E c \in RemoteCalls : CallNode(c)
  PROVE  NodeInv'
<1> DEFINE given == [c \in Commands |-> IF c \in Pending THEN "closed" ELSE asked[c]]
<1>1. UNCHANGED <<work, row, acted>>
  BY DEF OpenChannel, CloseChannel, CallNode, nodeVars
<1>2. PICK c \in Commands, before \in {asked, given}, a \in {"pending", "offline"} :
        asked' = [before EXCEPT ![c] = a]
  BY CallsAreCommands DEF OpenChannel, CloseChannel, CallNode, Request
<1>3. /\ given \in [Commands -> Outcomes \cup {"none", "pending"}]
      /\ \A d \in Commands : given[d] \in {"closed", asked[d]}
  BY DEF NodeInv, CallTypes, Outcomes
<1>4. asked' \in [Commands -> Outcomes \cup {"none", "pending"}]
  BY <1>2, <1>3 DEF NodeInv, CallTypes, Outcomes
<1>5. ASSUME NEW d \in RemoteCalls
      PROVE  asked'[d] \in {"closed", "pending", "offline", asked[d]}
  BY <1>2, <1>3, CallsAreCommands DEF NodeInv, CallTypes
<1> QED
  BY <1>1, <1>4, <1>5, HubStep

LEMMA NodeInit ==
  ASSUME RunnerInit
  PROVE  NodeInv
<1>1. CallTypes /\ Recorded
  BY DEF RunnerInit, CallTypes, Recorded
<1> QED
  BY <1>1, CallsAreCommands DEF RunnerInit, NodeInv, CallInv

LEMMA NodeNext ==
  ASSUME NodeInv, [RunnerNext]_runnerVars
  PROVE  NodeInv'
<1> DEFINE Resting == UNCHANGED <<asked, work, row, acted>>
<1>1. ASSUME Resting
      PROVE  NodeInv'
  BY <1>1, HubStep DEF NodeInv, CallTypes
<1>2. CASE UNCHANGED runnerVars
  BY <1>1, <1>2 DEF runnerVars, hubVars, nodeVars
<1>3. CASE OpenChannel \/ CloseChannel \/ \E c \in RemoteCalls : CallNode(c)
  BY <1>3, AskingStep
<1>4. CASE Revoke \/ NodeStarts \/ PollSend \/ PollAnswer \/ PollFails \/ ChannelEvent \/ GateDrops
  BY <1>1, <1>4 DEF Revoke, NodeStarts, PollSend, PollAnswer, PollFails, ChannelEvent, GateDrops,
                    hubVars, nodeVars
<1>5. ASSUME NEW c \in Commands, Expire(c)
      PROVE  NodeInv'
  <2>1. Outcome(c, "uncertain", online) /\ UNCHANGED <<work, row, acted>>
    BY <1>5 DEF Expire, nodeVars
  <2>2. "uncertain" \in Outcomes
    BY DEF Outcomes
  <2>3. work' \in [Commands -> {"none", "new", "admitted", "denied", "acting", "reply"}]
    BY <2>1 DEF NodeInv, CallTypes
  <2> QED
    BY <2>1, <2>2, <2>3, OutcomeStep
<1>6. ASSUME NEW c \in Commands, NodeStep(c)
      PROVE  NodeInv'
  BY <1>6, AdmitCallStep, BeginStep, CalledStep, ResultStep, OpenedStep DEF NodeStep
<1>7. ASSUME NEW c \in Commands, ResultLost(c)
      PROVE  NodeInv'
  <2>1. /\ work[c] = "reply" /\ work' = [work EXCEPT ![c] = "none"]
        /\ UNCHANGED <<asked, row, acted>>
    BY <1>7 DEF ResultLost, hubVars
  <2>2. CallTypes' /\ Recorded'
    BY <2>1 DEF NodeInv, CallTypes, Recorded
  <2> QED
    BY <2>1, <2>2, CallsAreCommands DEF NodeInv, CallTypes, CallInv
<1>8. CASE PollArrive
  BY <1>1, <1>8, ForgetStep DEF PollArrive
<1>9. CASE PollReceive
  <2>1. UNCHANGED <<asked, acted>>
    BY <1>9 DEF PollReceive, hubVars
  <2>2. Handle(poll.batch) \/ UNCHANGED <<work, row>>
    BY <1>9 DEF PollReceive, nodeVars
  <2> QED
    BY <1>1, <2>1, <2>2, HandleStep
<1>10. CASE Watchdog
  BY <1>10, ForgetStep DEF Watchdog
<1>11. CASE HubRestarts \/ NodeRestarts
  BY <1>11, HubRestartStep, NodeRestartStep
<1> QED
  BY <1>2, <1>3, <1>4, <1>5, <1>6, <1>7, <1>8, <1>9, <1>10, <1>11 DEF RunnerNext

\* A command has one row at the node, which says what is known of it: the invariant
\* behind the property below (runner/agent.ts, handle).
THEOREM NodeInductive == RunnerSpec => []NodeInv
BY NodeInit, NodeNext, PTL DEF RunnerSpec

\* However often a command is delivered, however late its result comes and whoever starts
\* anew, Hermes acts on it at most once and nobody is told a wrong outcome (runner/agent.ts,
\* handle; server/runnerHub.ts, result).
THEOREM HonestHolds == RunnerSpec => []CommandsHonest
<1>1. NodeInv => CommandsHonest
  BY DEF NodeInv, CallInv, CommandsHonest
<1> QED
  BY <1>1, NodeInductive, PTL

\* What the hub and the node know of each other has its type.
PollStages == {"off", "idle", "asked", "waiting", "answered", "failed"}
Polls == [stage : PollStages, reset : BOOLEAN, stale : BOOLEAN, present : BOOLEAN, known : BOOLEAN,
          batch : SUBSET Commands]
Channels == {"none", "opening", "open", "lost", "closed"}
Gates == {"none", "connecting", "open", "dead"}

SideTypes ==
  /\ online \in BOOLEAN /\ granted \in BOOLEAN /\ connected \in BOOLEAN /\ current \in BOOLEAN
  /\ tomb \in BOOLEAN /\ channel \in Channels /\ poll \in Polls /\ gate \in Gates
  /\ mishaps \in 0 .. MaxMishaps

LEMMA MishapBound ==
  ASSUME mishaps \in 0 .. MaxMishaps
  PROVE  (Mishap \/ UNCHANGED mishaps) => mishaps' \in 0 .. MaxMishaps
BY RunnerAssumption DEF Mishap

LEMMA NoPollType == NoPoll \in Polls
BY DEF NoPoll, Polls, PollStages

LEMMA DroppedTypes ==
  ASSUME SideTypes
  PROVE  (Dropped \/ UNCHANGED <<gate, tomb>>) => gate' \in Gates /\ tomb' \in BOOLEAN
BY DEF SideTypes, Dropped, Gates

LEMMA HubTypes ==
  ASSUME SideTypes,
         \/ OpenChannel \/ CloseChannel \/ Revoke
         \/ \E c \in RemoteCalls : CallNode(c)
         \/ \E c \in Commands : Expire(c)
         \/ Watchdog \/ HubRestarts
  PROVE  SideTypes'
<1>1. CASE OpenChannel \/ CloseChannel \/ Revoke \/ \E c \in RemoteCalls : CallNode(c)
  <2>1. UNCHANGED <<online, poll, connected, current, gate, tomb, mishaps>>
    BY <1>1 DEF OpenChannel, CloseChannel, Revoke, CallNode, nodeVars
  <2>2. granted' \in BOOLEAN /\ channel' \in Channels
    BY <1>1 DEF SideTypes, OpenChannel, CloseChannel, Revoke, CallNode, Channels
  <2> QED
    BY <2>1, <2>2 DEF SideTypes
<1>2. ASSUME NEW c \in Commands, Expire(c)
      PROVE  SideTypes'
  <2>1. UNCHANGED <<online, granted, poll, connected, current, gate, tomb, mishaps>>
    BY <1>2 DEF Expire, nodeVars
  <2>2. channel' \in Channels
    BY <1>2 DEF Expire, Outcome, SideTypes, Channels
  <2> QED
    BY <2>1, <2>2 DEF SideTypes
<1>3. CASE Watchdog
  <2>1. UNCHANGED <<granted, connected, gate, tomb>> /\ online' \in BOOLEAN /\ current' \in BOOLEAN
    BY <1>3 DEF Watchdog
  <2>2. channel' \in Channels
    BY <1>3 DEF Watchdog, Forget, SideTypes, Channels
  <2>3. poll' \in Polls
    BY <1>3 DEF Watchdog, SideTypes, Polls
  <2>4. mishaps' \in 0 .. MaxMishaps
    BY <1>3, MishapBound DEF Watchdog, SideTypes
  <2> QED
    BY <2>1, <2>2, <2>3, <2>4 DEF SideTypes
<1>4. CASE HubRestarts
  <2>1. UNCHANGED <<granted, connected, gate, tomb>> /\ online' \in BOOLEAN /\ current' \in BOOLEAN
    BY <1>4 DEF HubRestarts
  <2>2. channel' \in Channels
    BY <1>4 DEF HubRestarts, SideTypes, Channels
  <2>3. poll' \in Polls
    BY <1>4 DEF HubRestarts, SideTypes, Polls, PollStages
  <2>4. mishaps' \in 0 .. MaxMishaps
    BY <1>4, MishapBound DEF HubRestarts, SideTypes
  <2> QED
    BY <2>1, <2>2, <2>3, <2>4 DEF SideTypes
<1> QED
  BY <1>1, <1>2, <1>3, <1>4

LEMMA PollTypes ==
  ASSUME SideTypes,
         NodeStarts \/ PollSend \/ PollArrive \/ PollAnswer \/ PollReceive \/ PollFails
  PROVE  SideTypes'
<1>1. CASE NodeStarts \/ PollSend \/ PollAnswer
  <2>1. UNCHANGED <<online, granted, channel, connected, current, gate, tomb, mishaps>>
    BY <1>1 DEF NodeStarts, PollSend, PollAnswer, hubVars, nodeVars
  <2>2. poll' \in Polls
    <3>1. CASE NodeStarts
      BY <3>1, NoPollType DEF NodeStarts
    <3>2. CASE PollSend
      BY <3>2, NoPollType DEF PollSend, SideTypes, Polls, PollStages
    <3>3. CASE PollAnswer
      <4>1. poll \in Polls /\ Pending \subseteq Commands
        BY DEF SideTypes, Pending
      <4>2. CASE poll.present
        BY <3>3, <4>1, <4>2 DEF PollAnswer, Polls, PollStages
      <4>3. CASE ~poll.present
        BY <3>3, <4>1, <4>3 DEF PollAnswer, Polls, PollStages
      <4> QED
        BY <4>2, <4>3
    <3> QED
      BY <1>1, <3>1, <3>2, <3>3
  <2> QED
    BY <2>1, <2>2 DEF SideTypes
<1>2. CASE PollArrive
  <2>1. UNCHANGED <<granted, connected, gate, tomb, mishaps>> /\ online' \in BOOLEAN
    BY <1>2 DEF PollArrive
  <2>2. current' \in BOOLEAN
    BY <1>2 DEF PollArrive, SideTypes
  <2>3. poll' \in Polls
    BY <1>2, <2>2 DEF PollArrive, SideTypes, Polls, PollStages
  <2>4. channel' \in Channels
    BY <1>2 DEF PollArrive, Forget, SideTypes, Channels
  <2> QED
    BY <2>1, <2>2, <2>3, <2>4 DEF SideTypes
<1>3. CASE PollReceive
  <2>1. UNCHANGED <<online, granted, channel, mishaps>> /\ poll' \in Polls
    BY <1>3, NoPollType DEF PollReceive, hubVars
  <2>2. connected' \in BOOLEAN /\ current' \in BOOLEAN
    BY <1>3 DEF PollReceive, SideTypes, Polls, nodeVars
  <2>3. gate' \in Gates /\ tomb' \in BOOLEAN
    BY <1>3, DroppedTypes DEF PollReceive, nodeVars
  <2> QED
    BY <2>1, <2>2, <2>3 DEF SideTypes
<1>4. CASE PollFails
  <2>1. UNCHANGED <<online, granted, channel, current>> /\ poll' \in Polls
    BY <1>4, NoPollType DEF PollFails, hubVars
  <2>2. connected' \in BOOLEAN /\ mishaps' \in 0 .. MaxMishaps
    BY <1>4, MishapBound DEF PollFails, SideTypes
  <2>3. gate' \in Gates /\ tomb' \in BOOLEAN
    BY <1>4, DroppedTypes DEF PollFails
  <2> QED
    BY <2>1, <2>2, <2>3 DEF SideTypes
<1> QED
  BY <1>1, <1>2, <1>3, <1>4

LEMMA WorkTypes ==
  ASSUME SideTypes, NEW c \in Commands, NodeStep(c) \/ ResultLost(c)
  PROVE  SideTypes'
<1>1. CASE Admit(c) \/ Called(c)
  BY <1>1 DEF Admit, Called, hubVars, SideTypes
<1>2. CASE Begin(c)
  <2>1. UNCHANGED <<online, granted, channel, poll, connected, current, mishaps>>
    BY <1>2 DEF Begin, hubVars
  <2>2. gate' \in Gates /\ tomb' \in BOOLEAN
    BY <1>2 DEF Begin, SideTypes, Gates
  <2> QED
    BY <2>1, <2>2 DEF SideTypes
<1>3. CASE Opened
  <2>1. UNCHANGED <<online, granted, channel, poll, connected, current, tomb, mishaps>>
    BY <1>3 DEF Opened, hubVars
  <2>2. gate' \in Gates
    BY <1>3 DEF Opened, Gates
  <2> QED
    BY <2>1, <2>2 DEF SideTypes
<1>4. CASE Result(c)
  <2>1. UNCHANGED <<online, granted, poll, connected, current, gate, tomb, mishaps>>
    BY <1>4 DEF Result
  <2>2. channel' \in Channels
    BY <1>4 DEF Result, Outcome, SideTypes, Channels
  <2> QED
    BY <2>1, <2>2 DEF SideTypes
<1>5. CASE ResultLost(c)
  BY <1>5, MishapBound DEF ResultLost, hubVars, SideTypes
<1> QED
  BY <1>1, <1>2, <1>3, <1>4, <1>5 DEF NodeStep

LEMMA LossTypes ==
  ASSUME SideTypes, ChannelEvent \/ GateDrops \/ NodeRestarts
  PROVE  SideTypes'
<1>1. CASE ChannelEvent
  <2>1. UNCHANGED <<online, granted, current>> /\ gate' \in Gates /\ tomb' \in BOOLEAN
    BY <1>1, DroppedTypes DEF ChannelEvent
  <2>2. channel' \in Channels /\ connected' \in BOOLEAN
    BY <1>1 DEF ChannelEvent, SideTypes, Channels
  <2>3. poll' \in Polls
    BY <1>1 DEF ChannelEvent, SideTypes, Polls, PollStages
  <2>4. mishaps' \in 0 .. MaxMishaps
    BY <1>1, MishapBound DEF ChannelEvent, SideTypes
  <2> QED
    BY <2>1, <2>2, <2>3, <2>4 DEF SideTypes
<1>2. CASE GateDrops
  <2>1. UNCHANGED <<online, granted, poll, connected, current, tomb>> /\ gate' \in Gates
    BY <1>2 DEF GateDrops, Gates
  <2>2. channel' \in Channels /\ mishaps' \in 0 .. MaxMishaps
    BY <1>2, MishapBound DEF GateDrops, SideTypes, Channels
  <2> QED
    BY <2>1, <2>2 DEF SideTypes
<1>3. CASE NodeRestarts
  <2>1. UNCHANGED <<online, granted, channel>> /\ poll' \in Polls
    BY <1>3, NoPollType DEF NodeRestarts, hubVars
  <2>2. /\ connected' \in BOOLEAN /\ current' \in BOOLEAN /\ tomb' \in BOOLEAN /\ gate' \in Gates
        /\ mishaps' \in 0 .. MaxMishaps
    BY <1>3, MishapBound DEF NodeRestarts, SideTypes, Gates
  <2> QED
    BY <2>1, <2>2 DEF SideTypes
<1> QED
  BY <1>1, <1>2, <1>3

\* Types of the hub, the node and what is under way between them.
THEOREM RunnerTypeInvariant == RunnerSpec => []RunnerTypeOK
<1>1. RunnerInit => SideTypes
  <2> SUFFICES ASSUME RunnerInit PROVE SideTypes
    OBVIOUS
  <2>1. poll \in Polls
    BY DEF RunnerInit, NoPoll, Polls, PollStages
  <2>2. mishaps \in 0 .. MaxMishaps
    BY RunnerAssumption DEF RunnerInit
  <2> QED
    BY <2>1, <2>2 DEF RunnerInit, SideTypes, Channels, Gates
<1>2. SideTypes /\ [RunnerNext]_runnerVars => SideTypes'
  <2> SUFFICES ASSUME SideTypes, [RunnerNext]_runnerVars PROVE SideTypes'
    OBVIOUS
  <2>1. CASE UNCHANGED runnerVars
    BY <2>1 DEF runnerVars, hubVars, nodeVars, SideTypes
  <2> QED
    BY <2>1, HubTypes, PollTypes, WorkTypes, LossTypes DEF RunnerNext
<1>3. NodeInv /\ SideTypes => RunnerTypeOK
  BY DEF NodeInv, CallTypes, SideTypes, Channels, Gates, Polls, PollStages, RunnerTypeOK
<1> QED
  BY <1>1, <1>2, <1>3, NodeInductive, PTL DEF RunnerSpec

-----------------------------------------------------------------------------
(* The mirrored transcript                                                 *)

Records == Messages \X (1 .. Versions)
Stages == Awaiting \cup {"idle", "append", "answered"}
Worker == [up : BOOLEAN, life : Nat, at : Stages, seen : Seq(Records), base : Nat]
Sending == [batch : Seq(Records), of : [by : Servers, life : Nat]]

MirrorTypes ==
  /\ remote \in Seq(Records) /\ intent \in Seq(Records) /\ appends \in Seq(Sending)
  /\ server \in [Servers -> Worker]

Rising(records) == \A i, j \in DOMAIN records : i < j => records[i][1] < records[j][1]

\* Who works on the session lives, and holds its lock alone.
Exclusive == \A s \in Servers : server[s].at # "idle" => server[s].up /\ lock = {Me(s)}

\* One append at most is under way, and with it the session is what was written down.
LatestSent == /\ Len(appends) <= 1
              /\ \A i \in DOMAIN appends : /\ appends[i].batch # <<>>
                                           /\ intent = remote \o appends[i].batch

\* A server that finds the last append in what it has read has read all there is.
Agreed(s) == /\ server[s].at = "answered" => appends = <<>>
             /\ server[s].at = "compare" /\ ~Uncertain(server[s].seen)
                  => appends = <<>> /\ remote = server[s].seen

MirrorInv ==
  /\ MirrorTypes /\ Rising(remote) /\ Rising(intent) /\ Exclusive /\ LatestSent
  /\ \A s \in Servers : Agreed(s)

\* The place of a message among those of a finite set, counted from one.
LEMMA Rank ==
  ASSUME NEW S \in SUBSET (Nat \ {0}), IsFiniteSet(S)
  PROVE  /\ Cardinality(S) \in Nat
         /\ \A m \in S : Cardinality(S \cap 1 .. m) \in 1 .. Cardinality(S)
         /\ \A m, k \in S : m < k => Cardinality(S \cap 1 .. m) < Cardinality(S \cap 1 .. k)
<1> DEFINE upto(m) == S \cap 1 .. m
<1>1. Cardinality(S) \in Nat
  BY FS_CardinalityType
<1>2. ASSUME NEW m \in S
      PROVE  /\ IsFiniteSet(upto(m)) /\ Cardinality(upto(m)) \in Nat
             /\ Cardinality(upto(m)) <= Cardinality(S) /\ m \in upto(m)
  <2>1. upto(m) \in SUBSET S /\ m \in upto(m)
    OBVIOUS
  <2>2. IsFiniteSet(upto(m)) /\ Cardinality(upto(m)) <= Cardinality(S)
    BY <2>1, FS_Subset
  <2> QED
    BY <2>1, <2>2, FS_CardinalityType
<1>3. ASSUME NEW m \in S
      PROVE  Cardinality(upto(m)) # 0
  <2>1. upto(m) # {} /\ IsFiniteSet(upto(m))
    BY <1>2
  <2> QED
    BY <2>1, FS_EmptySet
<1>4. ASSUME NEW m \in S, NEW k \in S, m < k
      PROVE  Cardinality(upto(m)) < Cardinality(upto(k))
  <2>1. upto(m) \in SUBSET upto(k)
    BY <1>4
  <2>2. upto(k) # upto(m)
    <3>1. k \in upto(k) /\ k \notin upto(m)
      BY <1>4, <1>2
    <3> QED
      BY <3>1
  <2>3. Cardinality(upto(m)) <= Cardinality(upto(k)) /\ Cardinality(upto(k)) # Cardinality(upto(m))
    BY <1>2, <2>1, <2>2, FS_Subset
  <2> QED
    BY <1>2, <2>3
<1> QED
  BY <1>1, <1>2, <1>3, <1>4

\* Every place is taken, by a later message the higher it is.
LEMMA NthIncreases ==
  ASSUME NEW S \in SUBSET (Nat \ {0}), IsFiniteSet(S)
  PROVE  /\ \A i \in 1 .. Cardinality(S) : Nth(S, i) \in S
         /\ \A i, j \in 1 .. Cardinality(S) : i < j => Nth(S, i) < Nth(S, j)
<1> DEFINE n == Cardinality(S)
           r == [m \in S |-> Cardinality(S \cap 1 .. m)]
<1>1. n \in Nat /\ r \in [S -> 1 .. n] /\ \A m, k \in S : m < k => r[m] < r[k]
  BY Rank
<1> HIDE DEF n, r
<1>2. r \in Injection(S, 1 .. n)
  <2>1. ASSUME NEW m \in S, NEW k \in S, r[m] = r[k]
        PROVE  m = k
    <3>1. r[m] \in Nat /\ r[k] \in Nat /\ m \in Nat /\ k \in Nat
      BY <1>1
    <3> QED
      BY <1>1, <2>1, <3>1
  <2> QED
    BY <1>1, <2>1 DEF Injection, IsInjective
<1>3. IsFiniteSet(1 .. n) /\ Cardinality(1 .. n) = n
  BY <1>1, FS_Interval
<1>4. r \in Surjection(S, 1 .. n)
  BY <1>2, <1>3, FS_Injection DEF n
<1>5. ASSUME NEW i \in 1 .. n
      PROVE  Nth(S, i) \in S /\ r[Nth(S, i)] = i
  <2>1. \E m \in S : Cardinality(S \cap 1 .. m) = i
    BY <1>4 DEF Surjection, r
  <2> QED
    BY <2>1 DEF Nth, r
<1>6. ASSUME NEW i \in 1 .. n, NEW j \in 1 .. n, i < j
      PROVE  Nth(S, i) < Nth(S, j)
  <2>1. Nth(S, i) \in S /\ r[Nth(S, i)] = i
    BY <1>5
  <2>2. Nth(S, j) \in S /\ r[Nth(S, j)] = j
    BY <1>5
  <2>3. \A m \in S : m \in Nat
    OBVIOUS
  <2>4. Nth(S, i) \in Nat /\ Nth(S, j) \in Nat
    BY <2>1, <2>2, <2>3
  <2>5. i \in Nat /\ j \in Nat
    BY <1>1
  <2> QED
    BY <1>1, <1>6, <2>1, <2>2, <2>4, <2>5
<1> QED
  BY <1>5, <1>6 DEF n

\* What projection makes of any texts is in the order of the conversation.
LEMMA TranscriptRises ==
  ASSUME NEW texts
  PROVE  Transcript(texts) \in Seq(Records) /\ Rising(Transcript(texts))
<1> DEFINE S == Payloads(texts)
           n == Cardinality(S)
           nth(i) == Nth(S, i)
<1>1. S \in SUBSET (Nat \ {0}) /\ S \subseteq Messages /\ \A m \in S : texts[m] \in 1 .. Versions
  BY DEF Payloads, Messages
<1>2. IsFiniteSet(S)
  <2>1. MessageCount \in Nat
    BY MirrorAssumption
  <2>2. IsFiniteSet(Messages)
    BY <2>1, FS_Interval DEF Messages
  <2> QED
    BY <1>1, <2>2, FS_Subset
<1>3. /\ n \in Nat
      /\ \A i \in 1 .. n : nth(i) \in S
      /\ \A i, j \in 1 .. n : i < j => nth(i) < nth(j)
  BY <1>1, <1>2, NthIncreases, FS_CardinalityType
<1>4. Transcript(texts) = [i \in 1 .. n |-> <<nth(i), texts[nth(i)]>>]
  BY DEF Transcript
<1> HIDE DEF S, n, nth
<1>5. \A i \in 1 .. n : <<nth(i), texts[nth(i)]>> \in Records
  BY <1>1, <1>3 DEF Records
<1>6. Transcript(texts) \in Seq(Records)
  BY <1>3, <1>4, <1>5
<1>7. Rising(Transcript(texts))
  BY <1>3, <1>4 DEF Rising
<1> QED
  BY <1>6, <1>7

LEMMA PrefixRises ==
  ASSUME NEW s \in Seq(Records), Rising(s), NEW k \in 0 .. Len(s)
  PROVE  SubSeq(s, 1, k) \in Seq(Records) /\ Rising(SubSeq(s, 1, k))
<1>1. SubSeq(s, 1, k) \in Seq(Records) /\ Len(SubSeq(s, 1, k)) = k
  OBVIOUS
<1>2. \A i \in 1 .. k : SubSeq(s, 1, k)[i] = s[i]
  OBVIOUS
<1>3. DOMAIN SubSeq(s, 1, k) = 1 .. k /\ 1 .. k \subseteq DOMAIN s
  BY <1>1
<1>4. ASSUME NEW i \in 1 .. k, NEW j \in 1 .. k, i < j
      PROVE  s[i][1] < s[j][1]
  BY <1>3, <1>4 DEF Rising
<1>5. Rising(SubSeq(s, 1, k))
  <2> DEFINE q == SubSeq(s, 1, k)
  <2>1. DOMAIN q = 1 .. k /\ \A i \in 1 .. k : q[i] = s[i]
    BY <1>2, <1>3
  <2> HIDE DEF q
  <2>2. Rising(q)
    BY <1>4, <2>1 DEF Rising
  <2> QED
    BY <2>2 DEF q
<1> QED
  BY <1>1, <1>5

\* A server that is not at rest is the only one.
LEMMA Alone ==
  ASSUME MirrorInv, NEW s \in Servers, NEW t \in Servers,
         server[s].at # "idle", server[t].at # "idle"
  PROVE  s = t
<1>1. Me(s) = Me(t)
  BY DEF MirrorInv, Exclusive
<1> QED
  BY <1>1 DEF Me

LEMMA IdleRests ==
  ASSUME MirrorInv, NEW s \in Servers
  PROVE  Idle(s) \in Worker /\ Idle(s).at = "idle"
<1>1. server[s] \in Worker
  BY DEF MirrorInv, MirrorTypes
<1>2. <<>> \in Seq(Records) /\ "idle" \in Stages
  BY DEF Stages
<1> QED
  BY <1>1, <1>2 DEF Idle, Worker

\* A server that gives up its lock.
LEMMA RestStep ==
  ASSUME MirrorInv, NEW s \in Servers, server[s].at # "idle",
         server' = [server EXCEPT ![s] = Idle(s)],
         UNCHANGED <<remote, appends>>,
         intent' = intent \/ (intent' = <<>> /\ appends = <<>>)
  PROVE  MirrorInv'
<1>1. Idle(s) \in Worker /\ Idle(s).at = "idle"
  BY IdleRests
<1>2. MirrorTypes'
  <2>1. intent' \in Seq(Records)
    BY DEF MirrorInv, MirrorTypes
  <2>2. server' \in [Servers -> Worker]
    BY <1>1 DEF MirrorInv, MirrorTypes
  <2>3. remote' \in Seq(Records) /\ appends' \in Seq(Sending)
    BY DEF MirrorInv, MirrorTypes
  <2> QED
    BY <2>1, <2>2, <2>3 DEF MirrorTypes
<1>3. \A t \in Servers : server'[t].at = "idle"
  BY <1>1, Alone DEF MirrorInv, MirrorTypes
<1>4. Rising(remote)' /\ Rising(intent)'
  BY DEF MirrorInv, Rising
<1>5. LatestSent'
  BY DEF MirrorInv, LatestSent
<1> QED
  BY <1>2, <1>3, <1>4, <1>5 DEF MirrorInv, Exclusive, Agreed

\* A server that goes on with its work.
LEMMA WorkStep ==
  ASSUME MirrorInv, NEW s \in Servers, server[s].at # "idle", NEW r \in Worker,
         server' = [server EXCEPT ![s] = r],
         r.up = server[s].up, r.life = server[s].life,
         remote' = remote, lock' = lock,
         intent' \in Seq(Records), Rising(intent'), appends' \in Seq(Sending), LatestSent',
         Agreed(s)'
  PROVE  MirrorInv'
<1>1. MirrorTypes'
  BY DEF MirrorInv, MirrorTypes
<1>2. server'[s] = r /\ \A t \in Servers \ {s} : server'[t] = server[t] /\ server[t].at = "idle"
  BY Alone DEF MirrorInv, MirrorTypes
<1>3. Exclusive'
  BY <1>2 DEF MirrorInv, Exclusive, Me
<1>4. \A t \in Servers : Agreed(t)'
  BY <1>2 DEF Agreed
<1>5. Rising(remote)' /\ Rising(intent)'
  BY DEF MirrorInv, Rising
<1> QED
  BY <1>1, <1>3, <1>4, <1>5 DEF MirrorInv

\* Steps that leave the session and its servers alone.
LEMMA MirrorStutter ==
  ASSUME MirrorInv, UNCHANGED <<intent, lock, remote, appends, server>>
  PROVE  MirrorInv'
BY DEF MirrorInv, MirrorTypes, Rising, Exclusive, Me, LatestSent, Agreed, Uncertain

\* A tick takes the lock of nobody who lives.
LEMMA TickStep ==
  ASSUME MirrorInv, NEW s \in Servers, Tick(s)
  PROVE  MirrorInv'
<1>1. UNCHANGED <<intent, remote, appends>> /\ server[s].up /\ server[s].at = "idle"
  BY DEF Tick, Rest
<1>2. CASE UNCHANGED <<lock, server>>
  BY <1>1, <1>2, MirrorStutter
<1>3. CASE Claimable(lock) /\ lock' = {Me(s)} /\ server' = [server EXCEPT ![s].at = "open"]
  <2>1. \A t \in Servers : server[t].at = "idle"
    <3>1. ASSUME NEW t \in Servers, server[t].at # "idle"
          PROVE  FALSE
      <4>1. server[t].up /\ Me(t) \in lock
        BY <3>1 DEF MirrorInv, Exclusive
      <4> QED
        BY <1>3, <4>1 DEF Claimable, Me
    <3> QED
      BY <3>1
  <2>2. server \in [Servers -> Worker]
    BY DEF MirrorInv, MirrorTypes
  <2>3. server' \in [Servers -> Worker]
    BY <1>3, <2>2 DEF Worker, Stages, Awaiting
  <2>4. /\ server'[s].at = "open" /\ server'[s].up = server[s].up /\ server'[s].life = server[s].life
        /\ \A t \in Servers \ {s} : server'[t].at = "idle"
    BY <1>3, <2>1, <2>2 DEF Worker
  <2>5. MirrorTypes'
    BY <1>1, <2>3 DEF MirrorInv, MirrorTypes
  <2>6. Exclusive'
    BY <1>1, <1>3, <2>4 DEF Exclusive, Me
  <2>7. \A t \in Servers : Agreed(t)'
    BY <2>4 DEF Agreed
  <2>8. Rising(remote)' /\ Rising(intent)' /\ LatestSent'
    BY <1>1 DEF MirrorInv, Rising, LatestSent
  <2> QED
    BY <2>5, <2>6, <2>7, <2>8 DEF MirrorInv
<1> QED
  BY <1>2, <1>3 DEF Tick

\* The awaits of a server that works.
LEMMA AwaitStep ==
  ASSUME MirrorInv, NEW s \in Servers, server[s].at # "idle", NEW a \in Stages \ {"answered"},
         NEW q \in Seq(Records), server' = [server EXCEPT ![s].at = a, ![s].seen = q],
         a = "compare" => q = remote,
         UNCHANGED <<lock, remote, appends>>,
         intent' = intent \/ (intent' = <<>> /\ appends = <<>> /\ a # "compare")
  PROVE  MirrorInv'
<1> DEFINE r == [server[s] EXCEPT !.at = a, !.seen = q]
<1>1. server \in [Servers -> Worker] /\ server[s] \in Worker
  BY DEF MirrorInv, MirrorTypes
<1>2. /\ r \in Worker /\ r.up = server[s].up /\ r.life = server[s].life
      /\ r.at = a /\ r.seen = q
  BY <1>1 DEF Worker
<1>3. server' = [server EXCEPT ![s] = r] /\ server'[s] = r
  BY <1>1
<1> HIDE DEF r
<1>4. LatestSent'
  BY DEF MirrorInv, LatestSent
<1>5. intent' \in Seq(Records) /\ Rising(intent')
  BY DEF MirrorInv, MirrorTypes, Rising
<1>6. Agreed(s)'
  <2>1. ASSUME a = "compare", ~Uncertain(q)
        PROVE  appends = <<>>
    <3>1. ASSUME NEW i \in DOMAIN appends
          PROVE  FALSE
      <4>1. appends[i] \in Sending /\ appends[i].batch # <<>> /\ intent = remote \o appends[i].batch
        BY DEF MirrorInv, MirrorTypes, LatestSent
      <4>2. PICK b \in Seq(Records) : b # <<>> /\ intent = remote \o b
        BY <4>1 DEF Sending
      <4>3. Len(intent) > Len(remote) /\ intent # <<>>
        BY <4>2 DEF MirrorInv, MirrorTypes
      <4>4. Len(intent) \in Nat /\ Len(remote) \in Nat
        BY DEF MirrorInv, MirrorTypes
      <4>5. ~IsPrefix(intent, remote)
        BY <4>3, <4>4 DEF IsPrefix
      <4> QED
        BY <2>1, <4>3, <4>5 DEF Uncertain
    <3>2. appends \in Seq(Sending) /\ Len(appends) \in Nat /\ DOMAIN appends = 1 .. Len(appends)
      BY DEF MirrorInv, MirrorTypes
    <3>3. Len(appends) = 0
      <4>1. Len(appends) # 0 => 1 \in DOMAIN appends
        BY <3>2
      <4> QED
        BY <3>1, <4>1
    <3> QED
      BY <3>2, <3>3, EmptySeq
  <2>2. server'[s].at = a /\ server'[s].seen = q
    BY <1>2, <1>3
  <2> QED
    BY <2>1, <2>2 DEF Agreed, Uncertain
<1>7. appends' \in Seq(Sending)
  BY DEF MirrorInv, MirrorTypes
<1> QED
  BY <1>2, <1>3, <1>4, <1>5, <1>6, <1>7, WorkStep

LEMMA ReadStep ==
  ASSUME MirrorInv, NEW s \in Servers, SessionThere(s) \/ ReadRemote(s)
  PROVE  MirrorInv'
<1>1. /\ UNCHANGED <<intent, lock, appends, remote>> /\ server[s].at # "idle"
      /\ remote \in Seq(Records) /\ server[s] \in Worker /\ server \in [Servers -> Worker]
  BY DEF SessionThere, ReadRemote, Rest, MirrorInv, MirrorTypes
<1>2. CASE SessionThere(s)
  <2>1. server' = [server EXCEPT ![s].at = "read", ![s].seen = server[s].seen]
    <3>1. [server[s] EXCEPT !.at = "read"] = [server[s] EXCEPT !.at = "read", !.seen = server[s].seen]
      BY <1>1 DEF Worker
    <3> QED
      BY <1>1, <1>2, <3>1 DEF SessionThere
  <2>2. server[s].seen \in Seq(Records) /\ "read" \in Stages \ {"answered"}
    BY <1>1 DEF Worker, Stages, Awaiting
  <2> QED
    BY <1>1, <2>1, <2>2, AwaitStep
<1>3. CASE ReadRemote(s)
  <2>1. PICK a \in {"compare", "confirm"} :
          server' = [server EXCEPT ![s].at = a, ![s].seen = remote]
    BY <1>3 DEF ReadRemote
  <2>2. a \in Stages \ {"answered"}
    BY DEF Stages, Awaiting
  <2> QED
    BY <1>1, <2>1, <2>2, AwaitStep
<1> QED
  BY <1>2, <1>3

\* Work that comes to an end, one way or the other.
LEMMA GiveUpStep ==
  ASSUME MirrorInv, NEW s \in Servers, server[s].at # "idle",
         Paused(s) \/ RequestFails(s) \/ Confirm(s) \/ AppendLost(s)
  PROVE  MirrorInv'
<1>1. server' = [server EXCEPT ![s] = Idle(s)] /\ UNCHANGED <<intent, appends, remote>>
  BY DEF Paused, RequestFails, Confirm, AppendLost, Failed, Ended, AnotherTime, Rest
<1> QED
  BY <1>1, RestStep

LEMMA AnsweredStep ==
  ASSUME MirrorInv, NEW s \in Servers, AppendAnswered(s)
  PROVE  MirrorInv'
<1>1. /\ server[s].at = "answered" /\ intent' = <<>> /\ UNCHANGED <<appends, remote>>
      /\ server[s] \in Worker /\ server \in [Servers -> Worker]
  BY DEF AppendAnswered, Rest, MirrorInv, MirrorTypes
<1>2. appends = <<>>
  BY <1>1 DEF MirrorInv, Agreed
<1>3. CASE server' = [server EXCEPT ![s].at = "reread"] /\ UNCHANGED lock
  <2>1. server' = [server EXCEPT ![s].at = "reread", ![s].seen = server[s].seen]
    <3>1. [server[s] EXCEPT !.at = "reread"] = [server[s] EXCEPT !.at = "reread", !.seen = server[s].seen]
      BY <1>1 DEF Worker
    <3> QED
      BY <1>1, <1>3, <3>1
  <2>2. server[s].seen \in Seq(Records) /\ "reread" \in Stages \ {"answered"}
    BY <1>1 DEF Worker, Stages, Awaiting
  <2> QED
    BY <1>1, <1>2, <1>3, <2>1, <2>2, AwaitStep
<1>4. CASE Failed(s, job, FALSE)
  <2>1. server' = [server EXCEPT ![s] = Idle(s)]
    BY <1>4 DEF Failed
  <2> QED
    BY <1>1, <1>2, <2>1, RestStep
<1> QED
  BY <1>3, <1>4 DEF AppendAnswered

\* What is sent continues what both sides agree on.
LEMMA CompareStep ==
  ASSUME MirrorInv, NEW s \in Servers, Compare(s)
  PROVE  MirrorInv'
<1> DEFINE seen == server[s].seen
           desired == Transcript(rows')
           end == Min({Len(desired), Len(seen) + AppendPage})
           batch == SubSeq(desired, Len(seen) + 1, end)
<1>1. /\ server[s].at = "compare" /\ remote' = remote
      /\ server \in [Servers -> Worker] /\ server[s] \in Worker /\ seen \in Seq(Records)
  BY DEF Compare, Rest, MirrorInv, MirrorTypes, Worker
<1>2. desired \in Seq(Records) /\ Rising(desired)
  BY TranscriptRises
<1> HIDE DEF desired
<1>3. CASE server' = [server EXCEPT ![s] = Idle(s)] /\ UNCHANGED <<intent, appends>>
  BY <1>1, <1>3, RestStep
<1>4. CASE /\ ~Uncertain(seen) /\ intent' = <<>> /\ UNCHANGED appends
           /\ server' = [server EXCEPT ![s] = Idle(s)]
  <2>1. appends = <<>>
    BY <1>1, <1>4 DEF MirrorInv, Agreed
  <2> QED
    BY <1>1, <1>4, <2>1, RestStep
<1>5. CASE /\ IsPrefix(seen, desired) /\ ~Uncertain(seen) /\ seen # desired
           /\ intent' = SubSeq(desired, 1, end)
           /\ appends' = Append(appends, [batch |-> batch, of |-> Me(s)])
           /\ server' = [server EXCEPT ![s].at = "append", ![s].base = Len(seen)]
           /\ UNCHANGED lock
  <2>1. appends = <<>> /\ remote = seen
    BY <1>1, <1>5 DEF MirrorInv, Agreed
  <2>2. /\ Len(seen) \in Nat /\ Len(desired) \in Nat /\ Len(seen) <= Len(desired)
        /\ seen = SubSeq(desired, 1, Len(seen))
    BY <1>1, <1>2, <1>5, SubSeqFull DEF IsPrefix
  <2>3. Len(seen) < Len(desired)
    <3>1. SubSeq(desired, 1, Len(desired)) = desired
      BY <1>2, SubSeqFull
    <3>2. Len(seen) # Len(desired)
      BY <1>5, <2>2, <3>1
    <3> QED
      BY <2>2, <3>2
  <2>4. end \in Nat /\ Len(seen) < end /\ end <= Len(desired)
    <3>1. AppendPage \in Nat \ {0}
      BY MirrorAssumption
    <3>2. end \in {Len(desired), Len(seen) + AppendPage}
          /\ end <= Len(desired) /\ end <= Len(seen) + AppendPage
      BY <2>2, <3>1 DEF Min
    <3> QED
      BY <2>2, <2>3, <3>1, <3>2
  <2> HIDE DEF end, seen
  <2>5. intent' \in Seq(Records) /\ Rising(intent')
    BY <1>2, <1>5, <2>2, <2>4, PrefixRises
  <2>6. batch \in Seq(Records) /\ batch # <<>>
    <3>1. \A i \in Len(seen) + 1 .. end : desired[i] \in Records
      BY <1>2, <2>2, <2>4
    <3>2. Len(seen) + 1 \in Int /\ end \in Int /\ Len(seen) + 1 <= end
      BY <2>2, <2>4
    <3>3. batch \in Seq(Records) /\ Len(batch) = end - (Len(seen) + 1) + 1
      BY <3>1, <3>2, SubSeqProperties
    <3>4. Len(batch) # 0
      BY <3>2, <3>3
    <3> QED
      BY <3>3, <3>4, EmptySeq
  <2>7. intent' = remote \o batch
    <3>1. SubSeq(desired, 1, Len(seen)) \o SubSeq(desired, Len(seen) + 1, end) = SubSeq(desired, 1, end)
      <4>1. /\ 1 \in 1 .. Len(desired) + 1 /\ Len(seen) \in 1 - 1 .. Len(desired)
            /\ end \in Len(seen) .. Len(desired)
        BY <2>2, <2>4
      <4> QED
        BY <1>2, <4>1, ConcatAdjacentSubSeq
    <3> QED
      BY <1>5, <2>1, <2>2, <3>1
  <2> HIDE DEF batch
  <2>8. /\ appends' = <<[batch |-> batch, of |-> Me(s)]>>
        /\ [batch |-> batch, of |-> Me(s)] \in Sending
    BY <1>1, <1>5, <2>1, <2>6 DEF Sending, Me, Worker
  <2>9. appends' \in Seq(Sending) /\ LatestSent'
    BY <1>1, <2>6, <2>7, <2>8 DEF LatestSent
  <2> DEFINE r == [server[s] EXCEPT !.at = "append", !.base = Len(seen)]
  <2>10. /\ r \in Worker /\ r.up = server[s].up /\ r.life = server[s].life /\ r.at = "append"
         /\ server' = [server EXCEPT ![s] = r] /\ server'[s] = r
    BY <1>1, <1>5, <2>2 DEF Worker, Stages
  <2> HIDE DEF r
  <2>11. Agreed(s)'
    BY <2>10 DEF Agreed
  <2> QED
    BY <1>1, <1>5, <2>5, <2>9, <2>10, <2>11, WorkStep
<1> QED
  BY <1>3, <1>4, <1>5 DEF Compare, AnotherTime, Failed, Ended, desired

\* A process that dies keeps its lock, one that starts has another life.
LEMMA LifeStep ==
  ASSUME MirrorInv, NEW s \in Servers, Die(s) \/ StartServer(s)
  PROVE  MirrorInv'
<1>1. /\ UNCHANGED <<intent, lock, remote, appends>>
      /\ server \in [Servers -> Worker] /\ server[s] \in Worker
  BY DEF Die, StartServer, MirrorInv, MirrorTypes
<1>2. PICK r \in Worker : r.at = "idle" /\ server' = [server EXCEPT ![s] = r]
  <2>1. CASE Die(s)
    <3> DEFINE q == [Idle(s) EXCEPT !.up = FALSE]
    <3>1. q \in Worker /\ q.at = "idle"
      BY IdleRests DEF Worker
    <3> QED
      BY <2>1, <3>1 DEF Die
  <2>2. CASE StartServer(s)
    <3> DEFINE w == server[s]
               u == [w EXCEPT !.up = TRUE]
               q == [u EXCEPT !.life = u.life + 1]
               p == [server EXCEPT ![s] = u]
    <3>1. w.at = "idle" /\ w \in Worker
      BY <1>1, <2>2 DEF StartServer, MirrorInv, Exclusive
    <3> HIDE DEF w
    <3>2. u \in Worker /\ u.at = "idle"
      BY <3>1 DEF Worker
    <3> HIDE DEF u
    <3>3. q \in Worker /\ q.at = "idle"
      BY <3>2 DEF Worker
    <3>4. p[s] = u
      BY <1>1
    <3> HIDE DEF p
    <3>5. server' = [p EXCEPT ![s] = [p[s] EXCEPT !.life = p[s].life + 1]]
      BY <2>2 DEF StartServer, p, u, w
    <3>6. server' = [p EXCEPT ![s] = q]
      BY <3>4, <3>5
    <3> HIDE DEF q
    <3>7. server' = [server EXCEPT ![s] = q]
      BY <1>1, <3>6 DEF p
    <3> QED
      BY <3>3, <3>7
  <2> QED
    BY <2>1, <2>2
<1>3. \A t \in Servers : server'[t].at # "idle" => server'[t] = server[t]
  BY <1>1, <1>2
<1>4. MirrorTypes' /\ Rising(remote)' /\ Rising(intent)' /\ LatestSent'
  BY <1>1, <1>2 DEF MirrorInv, MirrorTypes, Rising, LatestSent
<1>5. Exclusive'
  BY <1>1, <1>3 DEF MirrorInv, Exclusive, Me
<1>6. \A t \in Servers : Agreed(t)'
  BY <1>1, <1>3 DEF MirrorInv, Agreed, Uncertain
<1> QED
  BY <1>4, <1>5, <1>6 DEF MirrorInv

\* Whatever part of an append is carried out, and however late: the session stays a
\* beginning of the transcript that was written down.
LEMMA CarryStep ==
  ASSUME MirrorInv, NEW i \in DOMAIN appends, Carry(i)
  PROVE  MirrorInv'
<1> DEFINE b == appends[i].batch
           waiting == /\ server[appends[i].of.by].at = "append"
                      /\ server[appends[i].of.by].life = appends[i].of.life
<1>1. /\ appends \in Seq(Sending) /\ remote \in Seq(Records) /\ intent \in Seq(Records)
      /\ server \in [Servers -> Worker] /\ b \in Seq(Records) /\ appends[i].of.by \in Servers
  <2>1. /\ appends \in Seq(Sending) /\ remote \in Seq(Records) /\ intent \in Seq(Records)
        /\ server \in [Servers -> Worker]
    BY DEF MirrorInv, MirrorTypes
  <2>2. appends[i] \in Sending
    BY <2>1
  <2> QED
    BY <2>1, <2>2 DEF Sending
<1>2. b # <<>> /\ intent = remote \o b /\ i = 1 /\ Len(appends) = 1
  <2>1. Len(appends) \in Nat /\ DOMAIN appends = 1 .. Len(appends) /\ Len(appends) <= 1
    BY <1>1 DEF MirrorInv, LatestSent
  <2>2. i = 1 /\ Len(appends) = 1
    BY <2>1
  <2> QED
    BY <2>2 DEF MirrorInv, LatestSent
<1>3. UNCHANGED <<intent, lock>>
  BY DEF Carry
<1>4. appends' = <<>>
  <2>1. SubSeq(appends, 1, 0) = <<>> /\ SubSeq(appends, 2, 1) = <<>>
    BY SubSeqEmpty
  <2>2. appends' = <<>> \o <<>>
    BY <1>2, <2>1 DEF Carry, RemoveAt
  <2>3. <<>> \in Seq(Sending)
    OBVIOUS
  <2> QED
    BY <2>2, <2>3, ConcatEmptySeq
<1> HIDE DEF b
<1>5. PICK k \in 0 .. Len(b) : remote' = remote \o SubSeq(b, 1, k)
  BY DEF Carry, b
<1>6. remote' \in Seq(Records) /\ Rising(remote')
  <2> DEFINE q == SubSeq(b, 1, k)
  <2>1. Len(b) \in Nat /\ k \in Nat /\ k <= Len(b) /\ Len(remote) \in Nat
    BY <1>1
  <2>2. q \in Seq(Records) /\ Len(q) = k /\ \A j \in 1 .. k : q[j] = b[j]
    BY <1>1, <2>1
  <2> HIDE DEF q
  <2>3. /\ remote' \in Seq(Records) /\ Len(remote') = Len(remote) + k
        /\ \A j \in 1 .. Len(remote) + k :
             remote'[j] = IF j <= Len(remote) THEN remote[j] ELSE q[j - Len(remote)]
    BY <1>1, <1>5, <2>2, ConcatProperties DEF q
  <2>4. /\ Len(intent) = Len(remote) + Len(b)
        /\ \A j \in 1 .. Len(remote) + Len(b) :
             intent[j] = IF j <= Len(remote) THEN remote[j] ELSE b[j - Len(remote)]
    BY <1>1, <1>2, ConcatProperties
  <2>5. ASSUME NEW j \in 1 .. Len(remote) + k
        PROVE  remote'[j] = intent[j]
    <3>1. j \in 1 .. Len(remote) + Len(b)
      BY <2>1
    <3>2. CASE j <= Len(remote)
      BY <2>3, <2>4, <3>1, <3>2
    <3>3. CASE ~(j <= Len(remote))
      <4>1. j - Len(remote) \in 1 .. k
        BY <2>1, <3>3
      <4> QED
        BY <2>2, <2>3, <2>4, <3>1, <3>3, <4>1
    <3> QED
      BY <3>2, <3>3
  <2>6. DOMAIN remote' = 1 .. Len(remote) + k /\ 1 .. Len(remote) + k \subseteq DOMAIN intent
    BY <1>1, <2>1, <2>3, <2>4
  <2>7. Rising(intent)
    BY DEF MirrorInv
  <2> QED
    BY <2>3, <2>5, <2>6, <2>7 DEF Rising
<1>7. ASSUME NEW t \in Servers
      PROVE  \/ server'[t] = server[t]
             \/ server[t].at = "append" /\ server'[t] = [server[t] EXCEPT !.at = "answered"]
  <2>1. CASE waiting
    <3>1. server' = [server EXCEPT ![appends[i].of.by].at = "answered"]
      BY <2>1 DEF Carry
    <3> QED
      BY <1>1, <2>1, <3>1
  <2>2. CASE ~waiting
    BY <2>2 DEF Carry
  <2> QED
    BY <2>1, <2>2
<1>8. server' \in [Servers -> Worker]
  <2>1. "answered" \in Stages
    BY DEF Stages
  <2> DEFINE x == appends[i].of.by
             r == [server[x] EXCEPT !.at = "answered"]
  <2>2. server' = server \/ server' = [server EXCEPT ![x] = r]
    BY DEF Carry
  <2>3. r \in Worker /\ x \in Servers
    BY <1>1, <2>1 DEF Worker
  <2> HIDE DEF r, x
  <2> QED
    BY <1>1, <2>2, <2>3
<1>9. MirrorTypes' /\ Rising(remote)' /\ Rising(intent)' /\ LatestSent'
  <2>1. Rising(intent)
    BY DEF MirrorInv
  <2> QED
    BY <1>1, <1>3, <1>4, <1>6, <1>8, <2>1 DEF MirrorTypes, Rising, LatestSent
<1>10. Exclusive'
  <2>1. ASSUME NEW t \in Servers, server'[t].at # "idle"
        PROVE  server'[t].up /\ lock' = {Me(t)}'
    <3>1. server[t] \in Worker
      BY <1>1
    <3>2. server[t].at # "idle" /\ server'[t].up = server[t].up /\ server'[t].life = server[t].life
      BY <1>7, <2>1, <3>1 DEF Worker
    <3> QED
      BY <1>3, <3>2 DEF MirrorInv, Exclusive, Me
  <2> QED
    BY <2>1 DEF Exclusive
<1>11. ASSUME NEW t \in Servers
       PROVE  Agreed(t)'
  <2>1. server[t] \in Worker
    BY <1>1
  <2>2. CASE server'[t] = server[t]
    <3>1. appends # <<>>
      <4>1. Len(appends) = 1
        BY <1>2
      <4>2. Len(<<>>) = 0
        OBVIOUS
      <4>3. Len(appends) # Len(<<>>)
        BY <4>1, <4>2
      <4> QED
        BY <4>3, Zenon
    <3> QED
      BY <1>3, <1>4, <2>2, <3>1 DEF MirrorInv, Agreed, Uncertain
  <2>3. CASE server'[t] = [server[t] EXCEPT !.at = "answered"]
    BY <1>4, <2>1, <2>3 DEF Agreed, Worker
  <2> QED
    BY <1>7, <2>2, <2>3
<1> QED
  BY <1>9, <1>10, <1>11 DEF MirrorInv

LEMMA MirrorInitInv ==
  ASSUME MirrorInit
  PROVE  MirrorInv
<1>1. MirrorTypes
  BY DEF MirrorInit, MirrorTypes, Worker, Stages
<1>2. \A s \in Servers : server[s].at = "idle"
  BY DEF MirrorInit
<1>3. Rising(remote) /\ Rising(intent) /\ LatestSent
  BY DEF MirrorInit, Rising, LatestSent
<1> QED
  BY <1>1, <1>2, <1>3 DEF MirrorInv, Exclusive, Agreed

LEMMA MirrorNextInv ==
  ASSUME MirrorInv, [MirrorNext]_mirrorVars
  PROVE  MirrorInv'
<1>1. CASE UNCHANGED mirrorVars
  BY <1>1, MirrorStutter DEF mirrorVars
<1>2. ASSUME NEW m \in Messages, Say(m) \/ EndReply(m) \/ Revise(m)
      PROVE  MirrorInv'
  BY <1>2, MirrorStutter DEF Say, EndReply, Revise, Change
<1>3. CASE AdminRetry \/ Switch \/ JobWakes
  BY <1>3, MirrorStutter DEF AdminRetry, Switch, JobWakes, Rest
<1>4. ASSUME NEW s \in Servers, Works(s)
      PROVE  MirrorInv'
  <2>1. CASE Paused(s) \/ Confirm(s)
    <3>1. server[s].at # "idle"
      BY <2>1 DEF Paused, Confirm, Awaiting
    <3> QED
      BY <2>1, <3>1, GiveUpStep
  <2> QED
    BY <1>4, <2>1, TickStep, ReadStep, CompareStep DEF Works
<1>5. ASSUME NEW s \in Servers, Appends(s) \/ RequestFails(s)
      PROVE  MirrorInv'
  <2>1. CASE AppendLost(s) \/ RequestFails(s)
    <3>1. server[s].at # "idle"
      BY <2>1 DEF AppendLost, RequestFails
    <3> QED
      BY <2>1, <3>1, GiveUpStep
  <2> QED
    BY <1>5, <2>1, AnsweredStep DEF Appends
<1>6. ASSUME NEW s \in Servers, Die(s) \/ StartServer(s)
      PROVE  MirrorInv'
  BY <1>6, LifeStep
<1>7. ASSUME NEW i \in DOMAIN appends, Carry(i)
      PROVE  MirrorInv'
  BY <1>7, CarryStep
<1> QED
  BY <1>1, <1>2, <1>3, <1>4, <1>5, <1>6, <1>7 DEF MirrorNext

\* One server at a time works on the session, one append at most is under way, and what is
\* written down is what the session holds once it is carried out: the invariant behind the
\* property below (openVikingSessionSync.ts, claim and sync).
THEOREM MirrorInductive == MirrorSpec => []MirrorInv
BY MirrorInitInv, MirrorNextInv, PTL DEF MirrorSpec

\* The mirror never holds a message twice nor out of order, and no two processes work on
\* the session (openVikingSessionSync.ts, sync).
THEOREM MirrorHolds == MirrorSpec => []MirrorExact
<1>1. MirrorInv => MirrorExact
  BY Alone DEF MirrorInv, Rising, MirrorExact
<1> QED
  BY <1>1, MirrorInductive, PTL


-----------------------------------------------------------------------------
(* Types of the mirror                                                     *)

Texts == [Messages -> 0 .. Writing]
SyncJobs == [status : {"none", "pending", "complete", "failed"}, attempts : Nat, synced : Nat,
             resting : BOOLEAN]

RecordTypes == text \in Texts /\ rows \in Texts /\ news \subseteq Messages /\ on \in BOOLEAN

\* A server lives once more for each time it died, and a lock is of one life.
HolderTypes ==
  /\ setbacks \in 0 .. MaxSetbacks
  /\ \A s \in Servers : /\ 1 <= server[s].life
                        /\ server[s].life <= setbacks + (IF server[s].up THEN 1 ELSE 0)
  /\ lock = {} \/ \E s \in Servers, n \in Nat :
                    lock = {[by |-> s, life |-> n]} /\ 1 <= n /\ n <= server[s].life

SideInv == RecordTypes /\ job \in SyncJobs /\ HolderTypes

\* Every server is the process it was.
SameLives ==
  \A t \in Servers : server'[t].life = server[t].life /\ (server'[t].up <=> server[t].up)

LEMMA NoticedType == ASSUME job \in SyncJobs PROVE Noticed \in SyncJobs
BY DEF Noticed, SyncJobs

LEMMA DiscoverTypes ==
  ASSUME RecordTypes, Discover, UNCHANGED on
  PROVE  RecordTypes'
<1>1. PICK page \in SUBSET news :
        /\ rows' = [m \in Messages |-> IF m \in page THEN text[m] ELSE rows[m]]
        /\ news' = news \ page
  BY DEF Discover
<1>2. text' = text
  BY DEF Discover
<1>3. rows' \in Texts
  BY <1>1 DEF RecordTypes, Texts
<1> QED
  BY <1>1, <1>2, <1>3 DEF RecordTypes

LEMMA FailedTypes ==
  ASSUME NEW s \in Servers, NEW j \in SyncJobs, NEW conflict \in BOOLEAN, Failed(s, j, conflict)
  PROVE  job' \in SyncJobs
<1>1. j.attempts + 1 \in Nat
  BY DEF SyncJobs
<1>2. PICK st \in {"failed", "pending"} :
        job' = [j EXCEPT !.attempts = j.attempts + 1, !.resting = TRUE, !.status = st]
  BY DEF Failed
<1> QED
  BY <1>1, <1>2 DEF SyncJobs

LEMMA EndedTypes ==
  ASSUME MirrorInv, job \in SyncJobs, NEW s \in Servers, NEW texts, NEW base, Ended(s, texts, base)
  PROVE  job' \in SyncJobs
<1>1. Noticed \in SyncJobs
  BY NoticedType
<1>2. Len(server[s].seen) \in Nat
  BY DEF MirrorInv, MirrorTypes, Worker
<1>3. Unfinished(texts) \in BOOLEAN
  BY DEF Unfinished
<1>4. PICK st \in {"complete", "pending"}, n \in Nat, b \in BOOLEAN :
        job' = [Noticed EXCEPT !.status = st, !.synced = n, !.attempts = 0, !.resting = b]
  BY <1>2, <1>3 DEF Ended
<1> QED
  BY <1>1, <1>4 DEF SyncJobs

LEMMA GivesUp ==
  ASSUME MirrorInv, NEW s \in Servers, server' = [server EXCEPT ![s] = Idle(s)]
  PROVE  SameLives
<1>1. server \in [Servers -> Worker] /\ server[s] \in Worker
  BY DEF MirrorInv, MirrorTypes
<1>2. Idle(s).life = server[s].life /\ Idle(s).up = server[s].up
  BY <1>1 DEF Idle, Worker
<1> QED
  BY <1>1, <1>2 DEF SameLives

LEMMA GoesOn ==
  ASSUME MirrorInv, NEW s \in Servers, NEW a \in Stages,
         \/ server' = [server EXCEPT ![s].at = a]
         \/ \E q : server' = [server EXCEPT ![s].at = a, ![s].seen = q]
         \/ \E n : server' = [server EXCEPT ![s].at = a, ![s].base = n]
  PROVE  SameLives
<1>1. server \in [Servers -> Worker] /\ server[s] \in Worker
  BY DEF MirrorInv, MirrorTypes
<1>2. CASE server' = [server EXCEPT ![s].at = a]
  BY <1>1, <1>2 DEF SameLives, Worker
<1>3. ASSUME NEW q, server' = [server EXCEPT ![s].at = a, ![s].seen = q]
      PROVE  SameLives
  BY <1>1, <1>3 DEF SameLives, Worker
<1>4. ASSUME NEW n, server' = [server EXCEPT ![s].at = a, ![s].base = n]
      PROVE  SameLives
  BY <1>1, <1>4 DEF SameLives, Worker
<1> QED
  BY <1>2, <1>3, <1>4

LEMMA HolderStep ==
  ASSUME MirrorInv, HolderTypes, SameLives, UNCHANGED setbacks \/ Setback,
         lock' \subseteq lock \/ \E s \in Servers : lock' = {Me(s)}
  PROVE  HolderTypes'
<1>1. setbacks' \in 0 .. MaxSetbacks /\ setbacks <= setbacks' /\ setbacks \in Nat
  BY MirrorAssumption DEF HolderTypes, Setback
<1>2. \A s \in Servers : server[s].life \in Nat
  BY DEF MirrorInv, MirrorTypes, Worker
<1>3. \A s \in Servers : /\ 1 <= server'[s].life
                         /\ server'[s].life <= setbacks' + (IF server'[s].up THEN 1 ELSE 0)
  BY <1>1, <1>2 DEF HolderTypes, SameLives
<1>4. lock' = {} \/ \E s \in Servers, n \in Nat :
                      lock' = {[by |-> s, life |-> n]} /\ 1 <= n /\ n <= server'[s].life
  <2>1. CASE lock' \subseteq lock
    <3>1. lock' = {} \/ lock' = lock
      BY <2>1 DEF HolderTypes
    <3> QED
      BY <3>1 DEF HolderTypes, SameLives
  <2>2. ASSUME NEW s \in Servers, lock' = {Me(s)}
        PROVE  \E n \in Nat : lock' = {[by |-> s, life |-> n]} /\ 1 <= n /\ n <= server'[s].life
    BY <1>2, <2>2 DEF Me, HolderTypes, SameLives
  <2> QED
    BY <2>1, <2>2
<1> QED
  BY <1>1, <1>3, <1>4 DEF HolderTypes

LEMMA WritingTypes ==
  ASSUME MirrorInv, SideInv,
         \/ \E m \in Messages : Say(m) \/ EndReply(m) \/ Revise(m)
         \/ AdminRetry \/ Switch \/ JobWakes
  PROVE  SideInv'
<1>1. ASSUME UNCHANGED <<lock, server>>, UNCHANGED setbacks \/ Setback
      PROVE  HolderTypes'
  BY <1>1, HolderStep DEF SameLives, SideInv
<1>2. ASSUME NEW m \in Messages, Say(m) \/ EndReply(m) \/ Revise(m)
      PROVE  SideInv'
  <2>1. PICK v \in 0 .. Writing : Change(m, v)
    <3>1. Versions \in Nat
      BY MirrorAssumption
    <3>2. ASSUME Revise(m) PROVE text[m] + 1 \in 0 .. Writing
      BY <3>1, <3>2 DEF Revise, Writing
    <3> QED
      BY <1>2, <3>1, <3>2 DEF Say, EndReply, Revise, Writing
  <2>2. RecordTypes'
    BY <2>1 DEF Change, SideInv, RecordTypes, Texts
  <2> QED
    BY <1>1, <2>1, <2>2 DEF Change, SideInv
<1>3. CASE AdminRetry \/ JobWakes
  <2>0. job \in SyncJobs
    BY DEF SideInv
  <2>1. job' \in SyncJobs
    <3>1. CASE AdminRetry
      BY <2>0, <3>1 DEF AdminRetry, SyncJobs
    <3>2. CASE JobWakes
      BY <2>0, <3>2 DEF JobWakes, SyncJobs
    <3> QED
      BY <1>3, <3>1, <3>2
  <2>2. UNCHANGED <<text, rows, news, on, lock, server, setbacks>>
    BY <1>3 DEF AdminRetry, JobWakes, Rest
  <2> QED
    BY <1>1, <2>1, <2>2 DEF SideInv, RecordTypes
<1>4. CASE Switch
  <2>1. RecordTypes'
    BY <1>4 DEF Switch, History, SideInv, RecordTypes
  <2>2. UNCHANGED <<job, lock, server>> /\ (UNCHANGED setbacks \/ Setback)
    BY <1>4 DEF Switch
  <2> QED
    BY <1>1, <2>1, <2>2 DEF SideInv
<1> QED
  BY <1>2, <1>3, <1>4

LEMMA ComparedTypes ==
  ASSUME MirrorInv, SideInv, NEW s \in Servers, Compare(s)
  PROVE  SideInv'
<1>1. Discover /\ UNCHANGED <<on, setbacks>>
  BY DEF Compare, Rest
<1>2. RecordTypes'
  BY <1>1, DiscoverTypes DEF SideInv
<1>3. Noticed \in SyncJobs
  BY NoticedType DEF SideInv
<1>4. CASE AnotherTime(s)
  <2>1. SameLives
    BY <1>4, GivesUp DEF AnotherTime
  <2>2. HolderTypes'
    BY <1>1, <1>4, <2>1, HolderStep DEF SideInv, AnotherTime, Release
  <2> QED
    BY <1>2, <1>3, <1>4, <2>2 DEF SideInv, AnotherTime
<1>5. CASE Failed(s, Noticed, TRUE)
  <2>1. SameLives
    BY <1>5, GivesUp DEF Failed
  <2>2. HolderTypes'
    BY <1>1, <1>5, <2>1, HolderStep DEF SideInv, Failed, Release
  <2>3. job' \in SyncJobs
    BY <1>3, <1>5, FailedTypes
  <2> QED
    BY <1>2, <2>2, <2>3 DEF SideInv
<1>6. CASE Ended(s, rows', 0)
  <2>1. SameLives
    BY <1>6, GivesUp DEF Ended
  <2>2. HolderTypes'
    BY <1>1, <1>6, <2>1, HolderStep DEF SideInv, Ended, Release
  <2>3. job' \in SyncJobs
    BY <1>6, EndedTypes DEF SideInv
  <2> QED
    BY <1>2, <2>2, <2>3 DEF SideInv
<1>7. CASE /\ job' = [Noticed EXCEPT !.synced = Len(server[s].seen)] /\ UNCHANGED lock
           /\ server' = [server EXCEPT ![s].at = "append", ![s].base = Len(server[s].seen)]
  <2>1. SameLives
    BY <1>7, GoesOn DEF Stages
  <2>2. HolderTypes'
    BY <1>1, <1>7, <2>1, HolderStep DEF SideInv
  <2>3. Len(server[s].seen) \in Nat
    BY DEF MirrorInv, MirrorTypes, Worker
  <2>4. job' \in SyncJobs
    BY <1>3, <1>7, <2>3 DEF SyncJobs
  <2> QED
    BY <1>2, <2>2, <2>4 DEF SideInv
<1> QED
  BY <1>4, <1>5, <1>6, <1>7 DEF Compare

LEMMA ConfirmTypes ==
  ASSUME MirrorInv, SideInv, NEW s \in Servers, Confirm(s)
  PROVE  SideInv'
<1>1. Discover /\ UNCHANGED <<on, setbacks>>
  BY DEF Confirm, Rest
<1>2. RecordTypes'
  BY <1>1, DiscoverTypes DEF SideInv
<1>3. Noticed \in SyncJobs
  BY NoticedType DEF SideInv
<1>4. server' = [server EXCEPT ![s] = Idle(s)] /\ lock' \subseteq lock
  BY DEF Confirm, AnotherTime, Failed, Ended, Release
<1>5. HolderTypes'
  BY <1>1, <1>4, GivesUp, HolderStep DEF SideInv
<1>6. job' \in SyncJobs
  <2>1. \/ AnotherTime(s) \/ Ended(s, rows', 1)
        \/ Failed(s, Noticed, TRUE) \/ Failed(s, Noticed, FALSE)
    BY DEF Confirm
  <2> QED
    BY <1>3, <2>1, FailedTypes, EndedTypes DEF AnotherTime, SideInv
<1> QED
  BY <1>2, <1>5, <1>6 DEF SideInv

LEMMA WorkTypesKept ==
  ASSUME MirrorInv, SideInv, NEW s \in Servers,
         Tick(s) \/ SessionThere(s) \/ ReadRemote(s) \/ Paused(s) \/ Appends(s) \/ RequestFails(s)
  PROVE  SideInv'
<1>1. CASE Tick(s)
  <2>1. RecordTypes'
    BY <1>1, DiscoverTypes DEF Tick, Rest, SideInv
  <2>2. job' \in SyncJobs
    BY <1>1, NoticedType DEF Tick, SideInv
  <2>3. SameLives
    <3>1. CASE UNCHANGED server
      BY <3>1 DEF SameLives
    <3>2. CASE server' = [server EXCEPT ![s].at = "open"]
      BY <3>2, GoesOn DEF Stages, Awaiting
    <3> QED
      BY <1>1, <3>1, <3>2 DEF Tick
  <2>4. HolderTypes'
    BY <1>1, <2>3, HolderStep DEF Tick, Rest, SideInv
  <2> QED
    BY <2>1, <2>2, <2>4 DEF SideInv
<1>2. CASE SessionThere(s) \/ ReadRemote(s)
  <2>1. SameLives
    <3>1. CASE SessionThere(s)
      BY <3>1, GoesOn DEF SessionThere, Stages, Awaiting
    <3>2. CASE ReadRemote(s)
      BY <3>2, GoesOn DEF ReadRemote, Stages, Awaiting
    <3> QED
      BY <1>2, <3>1, <3>2
  <2>2. UNCHANGED <<text, news, rows, job, lock, on, setbacks>>
    BY <1>2 DEF SessionThere, ReadRemote, Rest
  <2>3. HolderTypes'
    BY <2>1, <2>2, HolderStep DEF SideInv
  <2> QED
    BY <2>2, <2>3 DEF SideInv, RecordTypes
<1>3. ASSUME Failed(s, job, FALSE), UNCHANGED <<text, news, rows, on, setbacks>>
      PROVE  SideInv'
  <2>1. SameLives
    BY <1>3, GivesUp DEF Failed
  <2>2. HolderTypes'
    BY <1>3, <2>1, HolderStep DEF SideInv, Failed, Release
  <2>3. job' \in SyncJobs
    BY <1>3, FailedTypes DEF SideInv
  <2> QED
    BY <1>3, <2>2, <2>3 DEF SideInv, RecordTypes
<1>4. CASE Paused(s)
  <2>1. SameLives
    BY <1>4, GivesUp DEF Paused
  <2>2. HolderTypes'
    BY <1>4, <2>1, HolderStep DEF SideInv, Paused, Release, Rest
  <2> QED
    BY <1>4, <2>2 DEF SideInv, RecordTypes, Paused, Rest
<1>5. CASE RequestFails(s) \/ AppendLost(s)
  BY <1>3, <1>5 DEF RequestFails, AppendLost, Rest
<1>6. CASE AppendAnswered(s)
  <2>1. CASE server' = [server EXCEPT ![s].at = "reread"] /\ UNCHANGED <<job, lock>>
    <3>1. SameLives
      BY <2>1, GoesOn DEF Stages, Awaiting
    <3>2. UNCHANGED <<text, news, rows, on, setbacks>>
      BY <1>6 DEF AppendAnswered, Rest
    <3>3. HolderTypes'
      BY <2>1, <3>1, <3>2, HolderStep DEF SideInv
    <3> QED
      BY <2>1, <3>2, <3>3 DEF SideInv, RecordTypes
  <2> QED
    BY <1>3, <1>6, <2>1 DEF AppendAnswered, Rest
<1> QED
  BY <1>1, <1>2, <1>4, <1>5, <1>6 DEF Appends

LEMMA DieTypes ==
  ASSUME MirrorInv, SideInv, NEW s \in Servers, Die(s) \/ StartServer(s)
  PROVE  SideInv'
<1>1. server \in [Servers -> Worker] /\ server[s] \in Worker /\ setbacks \in Nat
  BY MirrorAssumption DEF MirrorInv, MirrorTypes, SideInv, HolderTypes
<1>2. UNCHANGED <<text, rows, job, lock, on>>
  BY DEF Die, StartServer
<1>3. RecordTypes'
  BY <1>2 DEF Die, StartServer, History, SideInv, RecordTypes
<1>4. setbacks' \in 0 .. MaxSetbacks
  BY MirrorAssumption DEF Die, StartServer, Setback, SideInv, HolderTypes
<1>5. \A t \in Servers \ {s} : server'[t] = server[t]
  BY <1>1 DEF Die, StartServer
<1>6. /\ server'[s].life \in Nat /\ server[s].life \in Nat /\ server[s].life <= server'[s].life
      /\ server'[s].life <= setbacks' + (IF server'[s].up THEN 1 ELSE 0) /\ setbacks <= setbacks'
      /\ setbacks' \in Nat
  <2>1. server[s].life \in Nat /\ server[s].life <= setbacks + (IF server[s].up THEN 1 ELSE 0)
    BY <1>1 DEF Worker, SideInv, HolderTypes
  <2>2. CASE Die(s)
    <3>1. server'[s] = [Idle(s) EXCEPT !.up = FALSE]
      BY <1>1, <2>2 DEF Die
    <3>2. server'[s].up = FALSE /\ server'[s].life = server[s].life
      BY <1>1, <3>1 DEF Idle, Worker
    <3> QED
      BY <1>1, <2>1, <2>2, <3>2 DEF Die, Setback
  <2>3. CASE StartServer(s)
    <3>1. server'[s].up = TRUE /\ server'[s].life = server[s].life + 1
      BY <1>1, <2>3 DEF StartServer, Worker
    <3> QED
      BY <1>1, <2>1, <2>3, <3>1 DEF StartServer
  <2> QED
    BY <2>2, <2>3
<1>7. \A t \in Servers : server[t].life \in Nat
  BY <1>1 DEF Worker
<1>8. \A t \in Servers : /\ 1 <= server'[t].life
                         /\ server'[t].life <= setbacks' + (IF server'[t].up THEN 1 ELSE 0)
  <2> SUFFICES ASSUME NEW t \in Servers
               PROVE  /\ 1 <= server'[t].life
                      /\ server'[t].life <= setbacks' + (IF server'[t].up THEN 1 ELSE 0)
    OBVIOUS
  <2>1. 1 <= server[t].life /\ server[t].life <= setbacks + (IF server[t].up THEN 1 ELSE 0)
    BY DEF SideInv, HolderTypes
  <2>2. CASE t = s
    BY <1>6, <2>1, <2>2
  <2>3. CASE t # s
    <3>1. server'[t] = server[t]
      BY <1>5, <2>3
    <3> QED
      BY <1>1, <1>6, <1>7, <2>1, <3>1
  <2> QED
    BY <2>2, <2>3
<1>9. lock' = {} \/ \E t \in Servers, n \in Nat :
                      lock' = {[by |-> t, life |-> n]} /\ 1 <= n /\ n <= server'[t].life
  <2>1. ASSUME NEW t \in Servers, NEW n \in Nat, n <= server[t].life
        PROVE  n <= server'[t].life
    BY <1>5, <1>6, <1>7, <2>1
  <2> QED
    BY <1>2, <2>1 DEF SideInv, HolderTypes
<1> QED
  BY <1>2, <1>3, <1>4, <1>8, <1>9 DEF SideInv, HolderTypes

LEMMA CarryTypes ==
  ASSUME MirrorInv, SideInv, NEW i \in DOMAIN appends, Carry(i)
  PROVE  SideInv'
<1>1. UNCHANGED <<text, news, rows, job, lock, on, setbacks>>
  BY DEF Carry
<1>2. appends[i].of.by \in Servers
  <2>1. appends[i] \in Sending
    BY DEF MirrorInv, MirrorTypes
  <2> QED
    BY <2>1 DEF Sending
<1>3. SameLives
  <2>1. CASE server' = server
    BY <2>1 DEF SameLives
  <2>2. CASE server' = [server EXCEPT ![appends[i].of.by].at = "answered"]
    BY <1>2, <2>2, GoesOn DEF Stages
  <2> QED
    BY <2>1, <2>2 DEF Carry
<1>4. HolderTypes'
  BY <1>1, <1>3, HolderStep DEF SideInv
<1> QED
  BY <1>1, <1>4 DEF SideInv, RecordTypes

LEMMA SideNext ==
  ASSUME MirrorInv, SideInv, [MirrorNext]_mirrorVars
  PROVE  SideInv'
<1>1. CASE UNCHANGED mirrorVars
  BY <1>1 DEF mirrorVars, SideInv, RecordTypes, HolderTypes
<1>2. CASE MirrorNext
  BY <1>2, WritingTypes, ComparedTypes, ConfirmTypes, WorkTypesKept, DieTypes, CarryTypes
     DEF MirrorNext, Works
<1> QED
  BY <1>1, <1>2

LEMMA SideMeans ==
  ASSUME MirrorInv, SideInv
  PROVE  MirrorTypeOK
<1>1. ASSUME NEW i \in DOMAIN appends
      PROVE  appends[i].batch \in Seq(Messages \X (1 .. Versions)) \ {<<>>}
  <2>1. appends[i] \in Sending /\ appends[i].batch # <<>>
    BY DEF MirrorInv, MirrorTypes, LatestSent
  <2> QED
    BY <2>1 DEF Sending, Records
<1>2. lock \subseteq {[by |-> s, life |-> server[s].life - n] : s \in Servers, n \in 0 .. setbacks}
  <2> SUFFICES ASSUME NEW h \in lock
               PROVE  \E s \in Servers, n \in 0 .. setbacks : h = [by |-> s, life |-> server[s].life - n]
    OBVIOUS
  <2>1. PICK s \in Servers, n \in Nat : h = [by |-> s, life |-> n] /\ 1 <= n /\ n <= server[s].life
    BY DEF SideInv, HolderTypes
  <2>2. /\ server[s].life \in Nat /\ setbacks \in Nat
        /\ server[s].life <= setbacks + (IF server[s].up THEN 1 ELSE 0)
    BY MirrorAssumption DEF MirrorInv, MirrorTypes, Worker, SideInv, HolderTypes
  <2>3. server[s].life - n \in 0 .. setbacks /\ n = server[s].life - (server[s].life - n)
    BY <2>1, <2>2
  <2> QED
    BY <2>1, <2>3
<1>3. Cardinality(lock) <= 1
  <2>1. lock = {} \/ \E h : lock = {h}
    BY DEF SideInv, HolderTypes
  <2> QED
    BY <2>1, FS_EmptySet, FS_Singleton
<1>4. {intent, remote} \subseteq Seq(Messages \X (1 .. Versions))
  BY DEF MirrorInv, MirrorTypes, Records
<1>5. server \in [Servers -> [up : BOOLEAN, life : Nat, base : Nat,
                              at : Awaiting \cup {"idle", "append", "answered"},
                              seen : Seq(Messages \X (1 .. Versions))]]
  <2>1. Worker \subseteq [up : BOOLEAN, life : Nat, base : Nat,
                          at : Awaiting \cup {"idle", "append", "answered"},
                          seen : Seq(Messages \X (1 .. Versions))]
    BY DEF Worker, Stages, Records
  <2> QED
    BY <2>1 DEF MirrorInv, MirrorTypes
<1>6. /\ {text, rows} \subseteq [Messages -> 0 .. Writing] /\ news \subseteq Messages
      /\ job \in [status : {"none", "pending", "complete", "failed"}, attempts : Nat,
                  synced : Nat, resting : BOOLEAN]
      /\ on \in BOOLEAN /\ setbacks \in 0 .. MaxSetbacks
  BY DEF SideInv, RecordTypes, Texts, SyncJobs, HolderTypes
<1> QED
  BY <1>1, <1>2, <1>3, <1>4, <1>5, <1>6 DEF MirrorTypeOK

\* Types of the mirror; its lock has one holder, a process of some server, present or past.
THEOREM MirrorTypeInvariant == MirrorSpec => []MirrorTypeOK
<1>1. MirrorInit => SideInv
  <2> SUFFICES ASSUME MirrorInit PROVE SideInv
    OBVIOUS
  <2>1. 0 \in 0 .. Writing /\ 0 \in 0 .. MaxSetbacks
    BY MirrorAssumption DEF Writing
  <2> QED
    BY <2>1 DEF MirrorInit, SideInv, RecordTypes, Texts, SyncJobs, HolderTypes
<1> QED
  BY <1>1, SideNext, SideMeans, MirrorInductive, PTL DEF MirrorSpec

-----------------------------------------------------------------------------
(* The parts of a conversation side by side                                *)

\* Each part of a conversation behaves as it does alone.
LEMMA ConversationParts ==
  ConversationSpec => RunSpec /\ MirrorSpec /\ RunnerSpec /\ ChatSpec
<1>1. ConversationInit => RunInit /\ MirrorInit /\ RunnerInit /\ ChatInit
  BY DEF ConversationInit
<1>2. [ConversationNext]_conversationVars =>
        /\ [RunNext]_cascadeVars /\ [MirrorNext]_mirrorVars
        /\ [RunnerNext]_runnerVars /\ [ChatNext]_chatVars
  BY Zenon DEF ConversationNext, conversationVars
<1> QED
  BY <1>1, <1>2, PTL DEF ConversationSpec, RunSpec, MirrorSpec, RunnerSpec, ChatSpec

\* Every variable of a conversation keeps to its type: the turns of a run, what a server
\* mirrors, the calls of a node, and the transcript of a client.
THEOREM ConversationTypes == ConversationSpec => []ConversationTypeOK
<1>1. RunTypeOK /\ MirrorTypeOK /\ RunnerTypeOK /\ ChatTypeOK => ConversationTypeOK
  BY DEF ConversationTypeOK
<1> QED
  BY <1>1, ConversationParts, RunTypeInvariant, MirrorTypeInvariant, RunnerTypeInvariant,
     ChatTypeInvariant, PTL
=============================================================================
