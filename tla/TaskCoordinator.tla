--------------------------- MODULE TaskCoordinator ---------------------------
(***************************************************************************)
(* A goal given to a team of bots (taskCoordinator.ts): the coordinator    *)
(* splits it into assignments, the server dispatches them, returns their   *)
(* results to the conversation the goal came from and wakes the            *)
(* coordinator there for the review.  Users stop the task and resume it,   *)
(* authority ends, dispatches are refused for a while.                     *)
(*                                                                         *)
(* The goal's task is in a team conversation, its origin in another one:   *)
(* turns there are not runs of the task.  Everything is stored, and every  *)
(* action is one transaction, so that a restart changes nothing.           *)
(* Abstracted: texts, files, goals started by a goal, temporary helpers,   *)
(* the repetition of a request under its id.                               *)
(***************************************************************************)
EXTENDS Naturals, Sequences, FiniteSets

CONSTANTS
  PartCount,     \* bound: assignments of the goal, 32 in the code
  Needs,         \* the earlier assignments each of them depends on
  AttemptLimit,  \* attempts of an assignment per authorisation, 3 in the code
  WakeLimit,     \* automatic wakes per authorisation, 8 in the code
  MaxTurns,      \* bound: turns the user causes in the origin conversation, one at a time
  MaxOps,        \* bound: what the coordinator and the user do to the goal
  MaxActivation  \* bound: times the goal is authorised

Parts == 1 .. PartCount

ASSUME TaskAssumption ==
  /\ {PartCount, AttemptLimit, WakeLimit, MaxTurns, MaxOps} \subseteq Nat
  /\ MaxActivation \in Nat \ {0}
  /\ Needs \in [Parts -> SUBSET Parts] /\ \A p \in Parts : \A q \in Needs[p] : q < p

VARIABLES
  goal,        \* its status
  authorized,  \* the authority the goal was started with still holds
  activation,
  part,        \* the assignments: status, attempt, cap, and the run of the attempt
  kickoff,     \* the first run of the task, in which the coordinator acts
  turns,       \* turns in the origin conversation: who caused them, how they stand
  origin,      \* goal.origin.runId
  reviewer,    \* goal.reviewRunId
  reporter,    \* goal.reportingRunId; 0: none in the origin conversation
  lastBatch,   \* goal.lastReviewedBatch
  criteria,    \* goal.acceptanceRevision
  deliveries,  \* ids of deliveries that are delivered or suppressed
  wakes,       \* goal.automaticWakes
  revision,    \* goal.revision
  ops          \* bookkeeping of the model

taskVars == <<goal, authorized, activation, part, kickoff, turns, origin, reviewer,
              reporter, lastBatch, criteria, deliveries, wakes, revision, ops>>

TerminalGoal == {"complete", "blocked", "cancelled"}
Stopping == {"cancelling", "cancelled"}
NoPart == [status |-> "absent", attempt |-> 0, cap |-> AttemptLimit, run |-> "none"]
NoBatch == [parts |-> <<>>, criteria |-> 0]

TaskInit ==
  /\ goal = "none" /\ authorized = TRUE /\ activation = 1
  /\ part = [p \in Parts |-> NoPart]
  /\ kickoff = "ended" /\ turns = <<>>
  /\ origin = 0 /\ reviewer = 0 /\ reporter = 0
  /\ lastBatch = NoBatch /\ criteria = 1
  /\ deliveries = {} /\ wakes = 0 /\ revision = 0 /\ ops = 0

\* begin, in a turn of the user, with the first run of the task.
Begin ==
  /\ goal = "none" /\ goal' = "running" /\ revision' = 1
  /\ kickoff' = "active"
  /\ turns' = <<[by |-> "user", state |-> "active"]>> /\ origin' = 1
  /\ UNCHANGED <<authorized, activation, part, reviewer, reporter, lastBatch, criteria,
                 deliveries, wakes, ops>>

-----------------------------------------------------------------------------
TurnActive(t) == t \in DOMAIN turns /\ turns[t].state = "active"
ByUser == {t \in DOMAIN turns : turns[t].by = "user"}
TurnSlots == 1 .. (MaxTurns + WakeLimit * MaxActivation)
Created == {p \in Parts : part[p].status # "absent"}
Busy(parts) == kickoff # "ended" \/ \E p \in Parts : parts[p].run = "active"

\* The coordinator acts from a turn in the origin conversation, or from within
\* the task, unless that run was stopped.
Acting == (\E t \in DOMAIN turns : TurnActive(t)) \/ kickoff = "active"

Operate == goal # "none" /\ ops < MaxOps /\ ops' = ops + 1
Coordinate == Operate /\ authorized /\ Acting

\* The goal works again after an operation, unless it waits for the user.
Revived == IF goal = "waiting" THEN "waiting" ELSE "running"

With(p, s) == [part EXCEPT ![p].status = s]
EndedBy(p) == IF part[p].run = "active" THEN "cancelling" ELSE "cancelled"

\* createAssignment.
CreateAssignment(p) ==
  /\ Coordinate /\ goal \notin TerminalGoal
  /\ part[p].status = "absent" /\ \A q \in Parts : q < p => q \in Created
  /\ part' = With(p, "pending")
  /\ goal' = Revived /\ revision' = revision + 1
  /\ UNCHANGED <<authorized, activation, kickoff, turns, origin, reviewer, reporter,
                 lastBatch, criteria, deliveries, wakes>>

\* reviewAssignment.
ReviewAssignment(p, decision) ==
  /\ Coordinate /\ goal \notin TerminalGoal
  /\ part[p].status \in {"review", "failed", "blocked"}
  /\ decision = "accept" => part[p].status = "review"
  /\ decision = "retry" => part[p].attempt < part[p].cap
  /\ part' = CASE decision = "accept"  -> With(p, "complete")
               [] decision = "blocked" -> With(p, "blocked")
               [] decision = "retry"   -> [part EXCEPT ![p].status = "pending", ![p].run = "none"]
  /\ goal' = Revived /\ revision' = revision + 1
  /\ UNCHANGED <<authorized, activation, kickoff, turns, origin, reviewer, reporter,
                 lastBatch, criteria, deliveries, wakes>>

\* updateAssignment that names another member; other changes are texts.
Reassign(p) ==
  /\ Coordinate /\ goal \notin TerminalGoal
  /\ part[p].status \in {"pending", "failed", "blocked"}
  /\ part' = [part EXCEPT ![p].status = "pending", ![p].run = "none"]
  /\ revision' = revision + 1
  /\ UNCHANGED <<goal, authorized, activation, kickoff, turns, origin, reviewer, reporter,
                 lastBatch, criteria, deliveries, wakes>>

\* cancelAssignment.
CancelAssignment(p) ==
  /\ Coordinate /\ goal \notin TerminalGoal
  /\ part[p].status \notin {"absent", "complete"}
  /\ part' = With(p, EndedBy(p))
  /\ UNCHANGED <<goal, authorized, activation, kickoff, turns, origin, reviewer, reporter,
                 lastBatch, criteria, deliveries, wakes, revision>>

\* updateCriteria, by the user or the coordinator.
UpdateCriteria ==
  /\ Operate /\ authorized /\ goal \in {"running", "review", "waiting"}
  /\ criteria' = criteria + 1 /\ revision' = revision + 1
  /\ UNCHANGED <<goal, authorized, activation, part, kickoff, turns, origin, reviewer,
                 reporter, lastBatch, deliveries, wakes>>

\* Mutant: runs that are still on their way do not count.
FinishableUnlooked(s) ==
  s = "complete" => \A p \in Created : part[p].status \in {"complete", "cancelled", "cancelling"}

\* What finish asks of a goal that is to be complete: its assignments are done,
\* one of them at least with a result, and nothing of the task runs.
Finishable(s) ==
  s = "complete" =>
    /\ \A p \in Created : part[p].status \in {"complete", "cancelled"}
    /\ Created = {} \/ \E p \in Created : part[p].status = "complete"
    /\ \A p \in Parts : part[p].run # "active"

\* finish, from turn t of the origin conversation, or from the task's first run (0).
FinishGoal(s, t) ==
  /\ Coordinate /\ goal \notin TerminalGoal /\ Finishable(s)
  /\ IF t = 0 THEN kickoff = "active"
     ELSE TurnActive(t) /\ (s = "complete" => kickoff = "ended")
  /\ goal' = s /\ reporter' = t /\ revision' = revision + 1
  /\ UNCHANGED <<authorized, activation, part, kickoff, turns, origin, reviewer,
                 lastBatch, criteria, deliveries, wakes>>

\* resume, in a turn that a user's message caused.
Resume(t) ==
  /\ Operate /\ TurnActive(t) /\ turns[t].by = "user" /\ activation < MaxActivation
  /\ goal \in {"blocked", "waiting", "cancelled"} /\ ~Busy(part)
  /\ part' = [p \in Parts |->
       IF p \notin Created THEN part[p]
       ELSE LET again == [part[p] EXCEPT !.cap = part[p].attempt + AttemptLimit] IN
            IF part[p].status = "cancelled" THEN [again EXCEPT !.status = "pending", !.run = "none"]
            ELSE again]
  /\ goal' = "running" /\ authorized' = TRUE /\ activation' = activation + 1
  /\ origin' = t /\ reviewer' = t /\ reporter' = 0
  /\ lastBatch' = NoBatch /\ wakes' = 0 /\ revision' = revision + 1
  /\ UNCHANGED <<kickoff, turns, criteria, deliveries>>

-----------------------------------------------------------------------------
(* Stopping                                                                *)

\* cancel.
Cancelled ==
  IF goal \in TerminalGoal \cup {"cancelling"} THEN UNCHANGED <<goal, part, revision>>
  ELSE /\ goal' = "cancelling" /\ revision' = revision + 1
       /\ part' = [p \in Parts |->
            IF part[p].status \in {"absent", "complete", "cancelled"} THEN part[p]
            ELSE [part[p] EXCEPT !.status = EndedBy(p)]]

Halted == IF kickoff = "active" THEN "stopping" ELSE kickoff

\* stopTask: the goal, and the runs of its task.
StopTask ==
  /\ Operate /\ Cancelled /\ kickoff' = Halted
  /\ UNCHANGED <<authorized, activation, turns, origin, reviewer, reporter, lastBatch,
                 criteria, deliveries, wakes>>

\* stopConversation in the origin: its turns, and by cancelOrigin the goal.
StopOrigin ==
  /\ Operate
  /\ turns' = [t \in DOMAIN turns |-> IF TurnActive(t) THEN [turns[t] EXCEPT !.state = "stopped"]
                                      ELSE turns[t]]
  /\ IF goal \in TerminalGoal THEN UNCHANGED <<goal, part, revision, kickoff>>
     ELSE Cancelled /\ kickoff' = Halted
  /\ UNCHANGED <<authorized, activation, origin, reviewer, reporter, lastBatch, criteria,
                 deliveries, wakes>>

\* An authorisation ends: the bot, the team, its administrator, the account.
AuthorityEnds ==
  /\ Operate /\ authorized /\ authorized' = FALSE
  /\ UNCHANGED <<goal, activation, part, kickoff, turns, origin, reviewer, reporter,
                 lastBatch, criteria, deliveries, wakes, revision>>

-----------------------------------------------------------------------------
(* deliver                                                                 *)

CanWake == authorized /\ turns[origin].state # "stopped"

\* Delivers kind under the key, with an unchanged goal otherwise: not twice, not
\* while the turn that reported it goes on, and not if that turn has told it.
DeliverResult(kind, key) ==
  LET id == [activation |-> activation, kind |-> kind, key |-> key]
      told == kind = "terminal" /\ reporter # 0
  IN
  IF id \in deliveries \/ (told /\ TurnActive(reporter))
  THEN UNCHANGED <<turns, reviewer, deliveries, wakes>>
  ELSE /\ deliveries' = deliveries \cup {id}
       /\ IF (told /\ turns[reporter].state = "answered") \/ ~CanWake \/ wakes >= WakeLimit
          THEN UNCHANGED <<turns, reviewer, wakes>>
          ELSE /\ turns' = Append(turns, [by |-> kind, state |-> "active"])
               /\ wakes' = wakes + 1
               /\ reviewer' = IF kind = "review" THEN Len(turns) + 1 ELSE reviewer

-----------------------------------------------------------------------------
(* reconcile, after every change and every five seconds                    *)

\* A stop is complete when no run of the task is left.
ReconcileStop ==
  /\ goal = "cancelling"
  /\ IF Busy(part) THEN kickoff' = Halted /\ UNCHANGED <<goal, part, revision>>
     ELSE /\ part' = [p \in Parts |-> IF part[p].status = "cancelling"
                                      THEN [part[p] EXCEPT !.status = "cancelled"] ELSE part[p]]
          /\ goal' = "cancelled" /\ revision' = revision + 1
          /\ UNCHANGED kickoff
  /\ UNCHANGED <<authorized, activation, turns, origin, reviewer, reporter, lastBatch,
                 criteria, deliveries, wakes, ops>>

ReconcileRevoked ==
  /\ ~authorized /\ goal \notin TerminalGoal \cup {"cancelling"}
  /\ Cancelled /\ kickoff' = Halted
  /\ UNCHANGED <<authorized, activation, turns, origin, reviewer, reporter, lastBatch,
                 criteria, deliveries, wakes, ops>>

\* What is left of a blocked goal ends; the outcome is reported.
ReconcileEnded ==
  /\ goal \in {"complete", "blocked", "waiting"} /\ (authorized \/ goal # "waiting")
  /\ part' = IF goal # "blocked" THEN part
             ELSE [p \in Parts |-> IF part[p].status \in {"pending", "running", "cancelling"}
                                   THEN [part[p] EXCEPT !.status = EndedBy(p)] ELSE part[p]]
  /\ DeliverResult("terminal", revision)
  /\ UNCHANGED <<goal, authorized, activation, kickoff, origin, reporter, lastBatch,
                 criteria, revision, ops>>

Ready(p) == part[p].status = "pending" /\ \A q \in Needs[p] : part[q].status = "complete"

\* The assignments up to the n-th one are looked at; the members of some are gone.
Progressed(n, gone) ==
  [p \in Parts |->
     CASE p > n -> part[p]
       [] p <= n /\ part[p].status = "cancelling" /\ part[p].run # "active" ->
            [part[p] EXCEPT !.status = "cancelled"]
       [] p <= n /\ part[p].status = "running" /\ part[p].run # "active" ->
            [part[p] EXCEPT !.status = IF part[p].run = "complete" THEN "review" ELSE "failed"]
       [] p <= n /\ Ready(p) /\ p \in gone -> [part[p] EXCEPT !.status = "blocked"]
       [] p <= n /\ Ready(p) /\ p \notin gone ->
            [part[p] EXCEPT !.status = "running", !.attempt = @ + 1, !.run = "active"]
       [] OTHER -> part[p]]

BatchOf(parts) ==
  [parts |-> [p \in Created |-> <<parts[p].status, parts[p].attempt>>], criteria |-> criteria]

\* Mutant: a failure is nothing to review.
ReviewableResult(parts) ==
  \/ Created = {}
  \/ \E p \in Created : parts[p].status \in {"review", "blocked"}
  \/ \A p \in Created : parts[p].status \in {"complete", "cancelled"}

\* There is something to review: nothing was assigned, a result is there, or
\* everything has ended.
Reviewable(parts) ==
  \/ Created = {}
  \/ \E p \in Created : parts[p].status \in {"review", "failed", "blocked"}
  \/ \A p \in Created : parts[p].status \in {"complete", "cancelled"}

Announced(parts) == lastBatch = BatchOf(parts)

\* The coordinator is woken once nothing runs any more and no review goes on.
AskReview(parts) ==
  IF Busy(parts) \/ TurnActive(reviewer) \/ ~(Announced(parts) \/ Reviewable(parts))
     \/ (Announced(parts) /\ goal # "review")
  THEN UNCHANGED <<goal, lastBatch, revision, turns, reviewer, deliveries, wakes>>
  ELSE /\ goal' = "review" /\ lastBatch' = BatchOf(parts)
       /\ revision' = IF Announced(parts) THEN revision ELSE revision + 1
       /\ DeliverResult("review", BatchOf(parts))

ReconcileWork ==
  /\ goal \in {"running", "review"} /\ authorized
  /\ \E gone \in SUBSET {p \in Parts : Ready(p)} :
       /\ part' = Progressed(PartCount, gone)
       /\ AskReview(part')
  /\ UNCHANGED <<authorized, activation, kickoff, origin, reporter, criteria, ops>>

\* The dispatch of assignment p, or of the wake, is refused for the moment: what
\* came before it is kept.
Refused ==
  /\ goal \in {"running", "review"} /\ authorized /\ ops < MaxOps /\ ops' = ops + 1
  /\ \/ \E p \in Parts : /\ Ready(p) /\ part' = Progressed(p - 1, {})
                         /\ UNCHANGED <<goal, lastBatch, revision>>
     \/ /\ part' = Progressed(PartCount, {})
        /\ ~Busy(part') /\ ~TurnActive(reviewer) /\ Reviewable(part') /\ ~Announced(part')
        /\ goal' = "review" /\ lastBatch' = BatchOf(part') /\ revision' = revision + 1
  /\ UNCHANGED <<authorized, activation, kickoff, turns, origin, reviewer, reporter,
                 criteria, deliveries, wakes>>

-----------------------------------------------------------------------------
(* Runs and turns (external: WorkspaceTurns)                               *)

PartRunEnds(p) ==
  /\ part[p].run = "active"
  /\ \E r \in {"complete", "failed"} : part' = [part EXCEPT ![p].run = r]
  /\ UNCHANGED <<goal, authorized, activation, kickoff, turns, origin, reviewer, reporter,
                 lastBatch, criteria, deliveries, wakes, revision, ops>>

KickoffEnds ==
  /\ kickoff # "ended" /\ kickoff' = "ended"
  /\ UNCHANGED <<goal, authorized, activation, part, turns, origin, reviewer, reporter,
                 lastBatch, criteria, deliveries, wakes, revision, ops>>

OriginTurnEnds(t) ==
  /\ TurnActive(t)
  /\ \E s \in {"answered", "silent"} : turns' = [turns EXCEPT ![t].state = s]
  /\ UNCHANGED <<goal, authorized, activation, part, kickoff, origin, reviewer, reporter,
                 lastBatch, criteria, deliveries, wakes, revision, ops>>

UserWrites ==
  /\ Operate /\ Cardinality(ByUser) < MaxTurns /\ ~\E t \in ByUser : TurnActive(t)
  /\ turns' = Append(turns, [by |-> "user", state |-> "active"])
  /\ UNCHANGED <<goal, authorized, activation, part, kickoff, origin, reviewer, reporter,
                 lastBatch, criteria, deliveries, wakes, revision>>

-----------------------------------------------------------------------------
Reconcile == ReconcileStop \/ ReconcileRevoked \/ ReconcileEnded \/ ReconcileWork

TaskNext ==
  \/ \E p \in Parts : \/ CreateAssignment(p) \/ Reassign(p) \/ CancelAssignment(p)
                      \/ \E d \in {"accept", "retry", "blocked"} : ReviewAssignment(p, d)
                      \/ PartRunEnds(p)
  \/ \E s \in {"complete", "blocked", "waiting"} : \E t \in {0} \cup TurnSlots : FinishGoal(s, t)
  \/ \E t \in TurnSlots : Resume(t) \/ OriginTurnEnds(t)
  \/ UpdateCriteria \/ StopTask \/ StopOrigin \/ AuthorityEnds \/ UserWrites
  \/ Begin \/ Reconcile \/ Refused \/ KickoffEnds

TaskSpec == TaskInit /\ [][TaskNext]_taskVars

\* The timer wakes reconcile; runs end, or are ended by their timeouts.  A refusal
\* of a dispatch passes.  Neither the user nor the coordinator has to do anything.
TaskFairness ==
  /\ WF_taskVars(Reconcile) /\ WF_taskVars(KickoffEnds)
  /\ \A p \in Parts : WF_taskVars(PartRunEnds(p))
  /\ \A t \in TurnSlots : WF_taskVars(OriginTurnEnds(t))

-----------------------------------------------------------------------------
(* Properties                                                              *)

\* Every variable has its type.
TaskTypeOK ==
  /\ goal \in {"none", "running", "review", "waiting"} \cup TerminalGoal \cup Stopping
  /\ authorized \in BOOLEAN /\ activation \in 1 .. MaxActivation
  /\ part \in [Parts -> [status : {"absent", "pending", "running", "review", "complete",
                                   "failed", "blocked", "cancelling", "cancelled"},
                         attempt : Nat, cap : Nat,
                         run : {"none", "active", "complete", "failed"}]]
  /\ kickoff \in {"active", "stopping", "ended"}
  /\ \A t \in DOMAIN turns : turns[t] \in [by : {"user", "review", "terminal"},
                                state : {"active", "answered", "silent", "stopped"}]
  /\ {origin, reviewer, reporter} \subseteq 0 .. Len(turns)
  /\ {criteria, wakes, revision, ops} \subseteq Nat
  /\ wakes <= WakeLimit

\* A goal that is complete, or was stopped, has no assignment that still works:
\* none is under way, none waits, none has an attempt that runs.
EndedMeansDone ==
  goal \in {"complete", "cancelled"} =>
    \A p \in Created : /\ part[p].status \in {"complete", "cancelled"}
                       /\ part[p].run # "active"

\* The result of an assignment comes back: a review tells the coordinator of it, or
\* its wakes are used up, unless the assignment or the goal has changed meanwhile, or
\* the coordinator went on by itself while the wake was refused (bot-agent-teams.md:23).
ResultsReturn ==
  \A p \in Parts :
    []<>(\/ part[p].status \notin {"review", "failed"} \/ goal \notin {"running", "review"}
         \/ \E d \in deliveries :
              /\ d.activation = activation /\ d.kind = "review"
              /\ p \in DOMAIN d.key.parts
              /\ d.key.parts[p] = <<part[p].status, part[p].attempt>>
         \/ Announced(part) /\ goal = "running")

\* What the documentation says of a stop: nothing but a new instruction of the
\* user lets a stopped goal work again.
StopStands ==
  [][(goal \in Stopping /\ goal' \notin Stopping) => activation' > activation]_taskVars
=============================================================================
