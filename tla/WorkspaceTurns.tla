--------------------------- MODULE WorkspaceTurns ---------------------------
(***************************************************************************)
(* Execution of bot turns by the workspace server: the admission loop of   *)
(* workspaceScheduler.ts (pump, executeWork, stop, cancelWorks, the        *)
(* interrupt cleanup) together with the turn closure of                    *)
(* workspaceRuntime.ts (performTurn, finish, restoreCompleted,             *)
(* recoverTransport, interruptTurn) and the Hermes session it drives.      *)
(*                                                                         *)
(* A Work is one turn of one agent.  Its record is durable (SQLite);       *)
(* executing, live, the turn closure and the pending cleanup call live in  *)
(* memory and vanish when the process dies.  JavaScript runs a handler     *)
(* without interruption up to its next await, so one action is one stretch *)
(* of code between two awaits.  The iterations of the pump loop only read  *)
(* stored state and are separate actions here, which allows every order    *)
(* the sorted loop can produce and more.                                   *)
(*                                                                         *)
(* Abstracted: message contents, streaming deltas, tools, session resets   *)
(* (a key keeps one Hermes session), several owners, change of the mode or *)
(* the administrator, and clocks (a back-off is a step not yet taken).     *)
(***************************************************************************)
EXTENDS Naturals, FiniteSets

CONSTANTS
  Works,             \* the turns that may ever be queued
  Runs,              \* user submissions; a run owns the works it queues
  Tasks,             \* conversation tasks (or direct conversations)
  Agents,            \* the bots
  RunOf,             \* the run a work belongs to
  TaskOf,            \* the conversation task of a run
  AgentOf,           \* the bot that executes a work
  BatchOf,           \* the delegation batch of a work
  ParentOf,          \* the work whose plan queues a work, NoWork for a root
  Mode,              \* conversation kind/mode of a task
  Admin,             \* the administrator of a task
  Discussed,         \* the runs that go round a discussion
  Assigned,          \* the runs that hand an assignment to one bot
  Leavers,           \* the bots a user may remove from the conversation
  ConcurrencyLimit,  \* WORKSPACE_CONCURRENCY_LIMIT
  TaskLimit,         \* works of one task admitted from the queue at a time
  FaultBudget,       \* bound: crashes, shutdowns and failed writes
  NoWork             \* absence of a work

Modes == {"direct", "host", "free"}

ASSUME ConstantsAssumption ==
  /\ IsFiniteSet(Works)
  /\ RunOf \in [Works -> Runs]
  /\ TaskOf \in [Runs -> Tasks]
  /\ AgentOf \in [Works -> Agents]
  /\ ParentOf \in [Works -> Works \cup {NoWork}]
  /\ Mode \in [Tasks -> Modes]
  /\ Admin \in [Tasks -> Agents]
  /\ Discussed \subseteq Runs /\ Assigned \subseteq Runs \ Discussed
  /\ Leavers \subseteq Agents
  /\ ConcurrencyLimit \in Nat
  /\ TaskLimit \in Nat
  /\ FaultBudget \in Nat
  /\ NoWork \notin Works

VARIABLES
  \* durable, one field of the stored Work each
  status, submitted, cancelRequested, cleanupPending, planned,
  \* durable: stopped runs, the work each session binding names, members gone
  stopRequested, binding, left,
  \* volatile: the scheduler's executing set, the live map of open turns, the
  \* closure of each turn, the interrupt call in progress, shutdown
  executing, live, turn, cleanup, closing,
  \* Hermes: the fate of each work's prompt, and how often it was sent
  session, sent,
  \* bookkeeping of the model
  faults

durableVars == <<status, submitted, cancelRequested, cleanupPending, planned,
                 stopRequested, binding, left>>
volatileVars == <<executing, live, turn, cleanup, closing>>
hermesVars == <<session, sent>>
vars == <<durableVars, volatileVars, hermesVars, faults>>

-----------------------------------------------------------------------------
(* Helpers                                                                 *)

Terminal == {"complete", "failed", "interrupted"}
Occupying == {"running", "waiting", "uncertain"}
Statuses == {"absent", "queued"} \cup Occupying \cup Terminal
Phases == {"none", "setup", "recheck", "opened", "submitting", "streaming",
           "reconnecting", "restoring", "settled"}
CleanupModes == {"none", "local", "live", "detached"}
SessionStates == {"none", "rejected", "running", "done", "failed", "stopped"}

Task(w) == TaskOf[RunOf[w]]
Keys == Tasks \X Agents
Key(w) == <<Task(w), AgentOf[w]>>
SameKey(w) == {v \in Works : Key(v) = Key(w)}
WorksOf(r) == {w \in Works : RunOf[w] = r}
RootsOf(r) == {w \in WorksOf(r) : ParentOf[w] = NoWork}

\* Mutant: an owed interrupt confirmation does not keep a work pending.
PendingUnfinished(w) ==
  status[w] # "absent" /\ (status[w] \notin Terminal \/ ~planned[w])

Pending(w) ==
  /\ status[w] # "absent"
  /\ \/ status[w] \notin Terminal
     \/ ~planned[w]
     \/ cleanupPending[w]

\* Mutant: only unsettled works occupy, not those being executed.
OccupiedUnsettled(w) ==
  {v \in Works \ {w} : Pending(v) /\ (cleanupPending[v] \/ status[v] = "uncertain")}

Occupied(w) ==
  {v \in Works \ {w} : /\ Pending(v)
                       /\ \/ cleanupPending[v]
                          \/ status[v] \in Occupying
                          \/ v \in executing}

InTask(w) == {v \in Occupied(w) : Task(v) = Task(w)}

HasPendingCleanup(t) == \E w \in Works : Task(w) = t /\ cleanupPending[w]

ActiveTasks ==
  {t \in Tasks : \E w \in Works :
     Task(w) = t /\ status[w] \notin Terminal \cup {"absent"}}

OneAtATime(w) == Mode[Task(w)] = "direct" \/ RunOf[w] \in Discussed
WithAdmin(v, w) == Admin[Task(w)] \in {AgentOf[v], AgentOf[w]}
SameBatch(v, w) == RunOf[v] = RunOf[w] /\ BatchOf[v] = BatchOf[w]

\* Mutant: an assignment is exempt from every rule of the host group.
ExcludedLoosely(w) ==
  \/ OneAtATime(w) /\ InTask(w) # {}
  \/ /\ Mode[Task(w)] = "host" /\ RunOf[w] \notin Assigned
     /\ \E v \in InTask(w) : WithAdmin(v, w) \/ ~SameBatch(v, w)

\* The exclusivity rules of direct chats, discussions and host groups; a work of
\* an assignment need not belong to the batch in progress.
Excluded(w) ==
  \/ OneAtATime(w) /\ InTask(w) # {}
  \/ /\ Mode[Task(w)] = "host"
     /\ \E v \in InTask(w) :
          WithAdmin(v, w) \/ (RunOf[w] \notin Assigned /\ ~SameBatch(v, w))

SessionBusy(w) == \E v \in SameKey(w) : session[v] = "running"

\* Mutant: the status of a message ("error") is stored as the status of a work.
ErrorStatusOfMessage(w) == IF submitted[w] THEN "uncertain" ELSE "error"
ErrorStatus(w) == IF submitted[w] THEN "uncertain" ELSE "failed"

\* finish: the turn settles, its entry of the live map goes (whoever put it
\* there), and a work that was interrupted meanwhile stays interrupted.
Finish(w, outcome) ==
  /\ turn' = [turn EXCEPT ![w] = "settled"]
  /\ live' = [live EXCEPT ![Key(w)] = NoWork]
  /\ status' = [status EXCEPT ![w] = IF @ = "interrupted" THEN @ ELSE outcome]

-----------------------------------------------------------------------------
(* Requests of the user                                                    *)

\* submit + admit: one transaction stores the run's first works as queued.
Submit(r) ==
  /\ ~closing
  /\ RootsOf(r) # {}
  /\ \A w \in WorksOf(r) : status[w] = "absent"
  /\ ~HasPendingCleanup(TaskOf[r])
  /\ TaskOf[r] \in ActiveTasks \/ Cardinality(ActiveTasks) < ConcurrencyLimit
  /\ status' = [w \in Works |-> IF w \in RootsOf(r) THEN "queued" ELSE status[w]]
  /\ UNCHANGED <<submitted, cancelRequested, cleanupPending, planned,
                 stopRequested, binding, left, volatileVars, hermesVars, faults>>

\* How interruptTurn will proceed for w when it is called now; "none" when it
\* throws at once because the binding no longer names the work.
InterruptMode(w) ==
  IF live[Key(w)] = w THEN "live"
  ELSE IF ~submitted[w] THEN "local"
  ELSE IF binding[Key(w)] = w THEN "detached" ELSE "none"

\* cancelWorks: every non-terminal work of ws is interrupted for good; one
\* that had left the queue owes a remote confirmation, started at once.
CancelWorks(ws) ==
  LET hit == {w \in ws : status[w] \notin Terminal \cup {"absent"}}
      owing == {w \in hit : status[w] # "queued"}
  IN /\ status' = [w \in Works |-> IF w \in hit THEN "interrupted" ELSE status[w]]
     /\ cancelRequested' = [w \in Works |-> cancelRequested[w] \/ w \in hit]
     /\ planned' = [w \in Works |-> planned[w] \/ w \in hit]
     /\ cleanupPending' = [w \in Works |-> \/ w \in owing
                                           \/ cleanupPending[w] /\ w \notin hit]
     /\ cleanup' = [w \in Works |-> IF w \in owing /\ cleanup[w] = "none"
                                    THEN InterruptMode(w) ELSE cleanup[w]]

\* stop: the whole run.
Stop(r) ==
  /\ ~closing
  /\ \E w \in WorksOf(r) : status[w] # "absent" /\ ~(status[w] \in Terminal /\ planned[w])
  /\ stopRequested' = stopRequested \cup {r}
  /\ CancelWorks(WorksOf(r))
  /\ UNCHANGED <<submitted, binding, left, executing, live, turn, closing,
                 hermesVars, faults>>

\* stopAgent: every work of one bot in one task; its runs go on.
StopAgent(t, a) ==
  LET ws == {w \in Works : Key(w) = <<t, a>>}
  IN /\ ~closing
     /\ \E w \in ws : status[w] \notin Terminal \cup {"absent"}
     /\ CancelWorks(ws)
     /\ UNCHANGED <<submitted, stopRequested, binding, left, executing, live,
                    turn, closing, hermesVars, faults>>

\* A member is removed from the conversation; its turns are not touched.
Leave(a) ==
  /\ a \in Leavers \ left
  /\ left' = left \cup {a}
  /\ UNCHANGED <<status, submitted, cancelRequested, cleanupPending, planned,
                 stopRequested, binding, volatileVars, hermesVars, faults>>

-----------------------------------------------------------------------------
(* The pump                                                                *)

\* Mutant: the retry gives up when the turn has left the live map.
ScheduleCleanupLive(w) ==
  /\ ~closing
  /\ status[w] \in Terminal /\ cleanupPending[w] /\ cleanup[w] = "none"
  /\ InterruptMode(w) = "live"
  /\ cleanup' = [cleanup EXCEPT ![w] = "live"]
  /\ UNCHANGED <<durableVars, executing, live, turn, closing, hermesVars, faults>>

\* A terminal work whose interrupt is unconfirmed: call interruptTurn again.
\* When the binding names another work the call throws and nothing changes.
ScheduleCleanup(w) ==
  /\ ~closing
  /\ status[w] \in Terminal /\ cleanupPending[w] /\ cleanup[w] = "none"
  /\ InterruptMode(w) # "none"
  /\ cleanup' = [cleanup EXCEPT ![w] = InterruptMode(w)]
  /\ UNCHANGED <<durableVars, executing, live, turn, closing, hermesVars, faults>>

\* A work left running without a turn (its closing writes failed) is checked
\* when its prompt may have been sent and queued again when it was not.
Reclaim(w) ==
  /\ ~closing
  /\ status[w] \in {"running", "waiting"} /\ w \notin executing
  /\ status' = [status EXCEPT ![w] = IF submitted[w] THEN "uncertain" ELSE "queued"]
  /\ UNCHANGED <<submitted, cancelRequested, cleanupPending, planned,
                 stopRequested, binding, left, volatileVars, hermesVars, faults>>

\* plan: queues follow-up works unless the run was stopped.  Which ones is the
\* subject of WorkspaceCascade; here any of the work's children may follow.
Plan(w) ==
  /\ ~closing
  /\ status[w] \in Terminal /\ ~planned[w] /\ w \notin executing
  /\ planned' = [planned EXCEPT ![w] = TRUE]
  /\ \E next \in SUBSET {v \in WorksOf(RunOf[w]) : ParentOf[v] = w} :
       /\ RunOf[w] \in stopRequested \cup Assigned => next = {}
       /\ status' = [v \in Works |-> IF v \in next /\ status[v] = "absent"
                                     THEN "queued" ELSE status[v]]
  /\ UNCHANGED <<submitted, cancelRequested, cleanupPending,
                 stopRequested, binding, left, volatileVars, hermesVars, faults>>

Admissible(w) ==
  /\ ~closing
  /\ Cardinality(executing) < ConcurrencyLimit
  /\ w \notin executing

\* A queued work whose run was stopped or whose bot left is interrupted.
DropQueued(w) ==
  /\ Admissible(w)
  /\ status[w] = "queued"
  /\ RunOf[w] \in stopRequested \/ AgentOf[w] \in left
  /\ status' = [status EXCEPT ![w] = "interrupted"]
  /\ UNCHANGED <<submitted, cancelRequested, cleanupPending, planned,
                 stopRequested, binding, left, volatileVars, hermesVars, faults>>

\* Admission: a queued work starts a new turn, an uncertain one a recheck.
StartTurn(w) ==
  /\ Admissible(w)
  /\ ~\E v \in Occupied(w) : Key(v) = Key(w)
  /\ ~Excluded(w)
  /\ \/ /\ status[w] = "queued"
        /\ RunOf[w] \notin stopRequested /\ AgentOf[w] \notin left
        /\ Cardinality(Occupied(w)) < ConcurrencyLimit
        /\ Cardinality(InTask(w)) < TaskLimit
        /\ status' = [status EXCEPT ![w] = "running"]
        /\ turn' = [turn EXCEPT ![w] = "setup"]
     \/ /\ status[w] = "uncertain"
        /\ turn' = [turn EXCEPT ![w] = "recheck"]
        /\ UNCHANGED status
  /\ executing' = executing \cup {w}
  /\ UNCHANGED <<submitted, cancelRequested, cleanupPending, planned,
                 stopRequested, binding, left, live, cleanup, closing,
                 hermesVars, faults>>

\* Mutant: the executing set keeps the work.
EndExecutionLeak(w) ==
  /\ turn[w] = "settled"
  /\ turn' = [turn EXCEPT ![w] = "none"]
  /\ UNCHANGED <<durableVars, executing, live, cleanup, closing, hermesVars, faults>>

\* executeWork's finally block.
EndExecution(w) ==
  /\ turn[w] = "settled"
  /\ turn' = [turn EXCEPT ![w] = "none"]
  /\ executing' = executing \ {w}
  /\ UNCHANGED <<durableVars, live, cleanup, closing, hermesVars, faults>>

-----------------------------------------------------------------------------
(* The turn closure: performTurn up to prompt.submit                       *)

turnFrame == <<submitted, cancelRequested, cleanupPending, planned,
               stopRequested, left, executing, cleanup, closing, faults>>

\* Setup fails before the session is bound; a busy external resource requeues
\* the work.  Inside performTurn's try the failure runs finish, before it only
\* executeWork's catch, which writes nothing any more once the service closes.
SetupFail(w) ==
  /\ turn[w] \in {"setup", "recheck"}
  /\ \E outcome \in {ErrorStatus(w)} \cup (IF turn[w] = "setup" THEN {"queued"} ELSE {}) :
       \/ Finish(w, outcome)
       \/ /\ turn' = [turn EXCEPT ![w] = "settled"]
          /\ status' = [status EXCEPT ![w] = IF @ = "interrupted" \/ closing
                                             THEN @ ELSE outcome]
          /\ UNCHANGED live
  /\ UNCHANGED <<turnFrame, binding, hermesVars>>

\* session.create/resume answered: the binding and the live entry are written
\* first, and only then the stop flags are looked at.
OpenSession(w) ==
  /\ turn[w] \in {"setup", "recheck"}
  /\ binding' = [binding EXCEPT ![Key(w)] = w]
  /\ IF closing \/ status[w] = "interrupted"
     THEN Finish(w, ErrorStatus(w))
     ELSE IF turn[w] = "setup"
     THEN IF SessionBusy(w)
          THEN Finish(w, "failed")
          ELSE /\ turn' = [turn EXCEPT ![w] = "opened"]
               /\ live' = [live EXCEPT ![Key(w)] = w]
               /\ UNCHANGED status
     ELSE \/ /\ SessionBusy(w)
             /\ turn' = [turn EXCEPT ![w] = "streaming"]
             /\ live' = [live EXCEPT ![Key(w)] = w]
             /\ status' = [status EXCEPT ![w] = "running"]
          \/ SessionBusy(w) /\ Finish(w, "uncertain")   \* tool grant lost
          \/ /\ ~SessionBusy(w)
             /\ turn' = [turn EXCEPT ![w] = "restoring"]
             /\ live' = [live EXCEPT ![Key(w)] = w]
             /\ UNCHANGED status
  /\ UNCHANGED <<turnFrame, hermesVars>>

\* Tool binding, attachments, model settings or the connection fail before
\* the prompt, or an external resource is busy.
PrepareFail(w) ==
  /\ turn[w] = "opened"
  /\ \E outcome \in {"failed", "queued"} : Finish(w, outcome)
  /\ UNCHANGED <<turnFrame, binding, hermesVars>>

\* The last check before the prompt: membership, stop, then the durable
\* submitted flag, then prompt.submit.  The request reaches Hermes and starts
\* (running), is refused (rejected) or is lost on the way (none).
SubmitPrompt(w) ==
  /\ turn[w] = "opened"
  /\ IF AgentOf[w] \in left \/ status[w] = "interrupted"
     THEN Finish(w, "interrupted") /\ UNCHANGED <<submitted, hermesVars>>
     ELSE /\ submitted' = [submitted EXCEPT ![w] = TRUE]
          /\ turn' = [turn EXCEPT ![w] = "submitting"]
          /\ sent' = [sent EXCEPT ![w] = @ + 1]
          /\ \E fate \in {"running", "rejected", "none"} :
               session' = [session EXCEPT ![w] = fate]
          /\ UNCHANGED <<status, live>>
  /\ UNCHANGED <<cancelRequested, cleanupPending, planned, stopRequested,
                 binding, left, executing, cleanup, closing, faults>>

\* The acknowledgement: the closure writes its binding once more.
PromptAccepted(w) ==
  /\ turn[w] = "submitting"
  /\ session[w] \notin {"none", "rejected"}
  /\ turn' = [turn EXCEPT ![w] = "streaming"]
  /\ binding' = [binding EXCEPT ![Key(w)] = w]
  /\ UNCHANGED <<turnFrame, status, live, hermesVars>>

\* gateway_rejected: a definitive refusal takes the submitted flag back.
PromptRejected(w) ==
  /\ turn[w] = "submitting" /\ session[w] = "rejected"
  /\ submitted' = [submitted EXCEPT ![w] = FALSE]
  /\ Finish(w, "failed")
  /\ UNCHANGED <<cancelRequested, cleanupPending, planned, stopRequested,
                 binding, left, executing, cleanup, closing, hermesVars, faults>>

\* No answer within the time limit: the outcome is unknown.
PromptTimeout(w) ==
  /\ turn[w] = "submitting"
  /\ Finish(w, "uncertain")
  /\ UNCHANGED <<turnFrame, binding, hermesVars>>

-----------------------------------------------------------------------------
(* The turn closure: events, reconnection, recovery                        *)

Listening(w) == turn[w] \in {"submitting", "streaming"} /\ status[w] # "interrupted"

\* message.complete (a silent empty reply fails), error events, and an
\* interruption that Hermes reports by itself.
FinalEvent(w) ==
  /\ Listening(w)
  /\ \/ session[w] = "done" /\ \E outcome \in {"complete", "failed"} : Finish(w, outcome)
     \/ session[w] = "failed" /\ Finish(w, "failed")
     \/ session[w] = "stopped" /\ Finish(w, "interrupted")
  /\ UNCHANGED <<turnFrame, binding, hermesVars>>

\* Approval and clarification requests, a paused computer; and their end.
ToggleWaiting(w) ==
  /\ Listening(w) /\ session[w] = "running"
  /\ status' = [status EXCEPT ![w] = IF @ = "waiting" THEN "running" ELSE "waiting"]
  /\ UNCHANGED <<turnFrame, binding, live, turn, hermesVars>>

\* The socket closes: a submitted turn reconnects, an earlier one ends.
Disconnect(w) ==
  /\ turn[w] \in {"opened", "submitting", "streaming"}
  /\ IF submitted[w]
     THEN turn' = [turn EXCEPT ![w] = "reconnecting"] /\ UNCHANGED <<status, live>>
     ELSE Finish(w, "failed")
  /\ UNCHANGED <<turnFrame, binding, hermesVars>>

\* recoverTransport: resume the session, then stream on or read the history;
\* a turn whose authority ended or whose tool grant is lost settles.
Reconnect(w) ==
  /\ turn[w] = "reconnecting"
  /\ IF closing \/ status[w] = "interrupted" \/ AgentOf[w] \in left
     THEN Finish(w, "uncertain") /\ UNCHANGED binding
     ELSE /\ binding' = [binding EXCEPT ![Key(w)] = w]
          /\ \/ /\ SessionBusy(w)
                /\ turn' = [turn EXCEPT ![w] = "streaming"]
                /\ status' = [status EXCEPT ![w] = IF @ = "uncertain" THEN "running" ELSE @]
                /\ UNCHANGED live
             \/ SessionBusy(w) /\ Finish(w, "uncertain")
             \/ /\ ~SessionBusy(w)
                /\ turn' = [turn EXCEPT ![w] = "restoring"]
                /\ UNCHANGED <<status, live>>
  /\ UNCHANGED <<turnFrame, hermesVars>>

\* restoreCompleted: the answer after this run's marker, or no verdict.
Restore(w) ==
  /\ turn[w] = "restoring"
  /\ \/ /\ session[w] = "done"
        /\ \E outcome \in {"complete", "failed"} : Finish(w, outcome)
     \/ Finish(w, "uncertain")
  /\ UNCHANGED <<turnFrame, binding, hermesVars>>

-----------------------------------------------------------------------------
(* Interrupt confirmation                                                  *)

\* Mutant: the acknowledgement of session.interrupt counts as the end.
InterruptAcknowledged(w) ==
  /\ cleanup[w] # "none"
  /\ IF cleanup[w] = "live"
     THEN /\ turn[w] \notin {"none", "settled", "reconnecting"}
          /\ Finish(w, "interrupted")
     ELSE UNCHANGED <<turn, live, status>>
  /\ cleanup' = [cleanup EXCEPT ![w] = "none"]
  /\ cleanupPending' = [cleanupPending EXCEPT ![w] = FALSE]
  /\ UNCHANGED <<submitted, cancelRequested, planned, stopRequested, binding,
                 left, executing, closing, hermesVars, faults>>

\* interruptTurn succeeded: the session is idle (or there was none).  In live
\* mode the turn it captured is told to finish.
InterruptConfirmed(w) ==
  /\ cleanup[w] # "none"
  /\ cleanup[w] # "local" => ~SessionBusy(w)
  /\ IF cleanup[w] = "live"
     THEN /\ turn[w] \notin {"none", "settled", "reconnecting"}
          /\ Finish(w, "interrupted")
     ELSE UNCHANGED <<turn, live, status>>
  /\ cleanup' = [cleanup EXCEPT ![w] = "none"]
  /\ cleanupPending' = [cleanupPending EXCEPT ![w] = FALSE]
  /\ UNCHANGED <<submitted, cancelRequested, planned, stopRequested, binding,
                 left, executing, closing, hermesVars, faults>>

\* The call failed or Hermes is still busy at the deadline; the cleanup stays
\* owed.  A live turn without connection is told to finish.
InterruptFailed(w) ==
  /\ cleanup[w] \in {"live", "detached"}
  /\ cleanup' = [cleanup EXCEPT ![w] = "none"]
  /\ IF cleanup[w] = "live" /\ turn[w] = "reconnecting"
     THEN Finish(w, "interrupted")
     ELSE UNCHANGED <<turn, live, status>>
  /\ UNCHANGED <<submitted, cancelRequested, cleanupPending, planned,
                 stopRequested, binding, left, executing, closing, hermesVars,
                 faults>>

-----------------------------------------------------------------------------
(* Hermes                                                                  *)

\* A running prompt ends: by itself, or stopped (by session.interrupt or by
\* someone using Hermes directly).
HermesEnds(w) ==
  /\ session[w] = "running"
  /\ \E end \in {"done", "failed", "stopped"} :
       session' = [session EXCEPT ![w] = end]
  /\ UNCHANGED <<durableVars, volatileVars, sent, faults>>

-----------------------------------------------------------------------------
(* Process faults                                                          *)

Fault == faults < FaultBudget /\ faults' = faults + 1

\* The closing writes of a turn fail: the work keeps its stored status.
LoseTurn(w) ==
  /\ Fault
  /\ turn[w] \notin {"none", "settled"}
  /\ turn' = [turn EXCEPT ![w] = "none"]
  /\ live' = [live EXCEPT ![Key(w)] = NoWork]
  /\ executing' = executing \ {w}
  /\ UNCHANGED <<durableVars, cleanup, closing, hermesVars>>

\* close: no more pumping, every open turn is told that the service closes.
Close ==
  /\ Fault
  /\ ~closing
  /\ closing' = TRUE
  /\ LET open == {w \in Works : live[Key(w)] = w}
     IN /\ status' = [w \in Works |-> IF w \in open /\ status[w] # "interrupted"
                                      THEN ErrorStatus(w) ELSE status[w]]
        /\ turn' = [w \in Works |-> IF w \in open THEN "settled" ELSE turn[w]]
  /\ live' = [k \in Keys |-> NoWork]
  /\ UNCHANGED <<submitted, cancelRequested, cleanupPending, planned,
                 stopRequested, binding, left, executing, cleanup, hermesVars>>

\* Mutant: recovery queues every interrupted execution again.
RestartQueued ==
  /\ IF closing THEN UNCHANGED faults ELSE Fault
  /\ closing' = FALSE
  /\ executing' = {}
  /\ live' = [k \in Keys |-> NoWork]
  /\ turn' = [w \in Works |-> "none"]
  /\ cleanup' = [w \in Works |-> "none"]
  /\ status' = [w \in Works |-> IF status[w] \in {"running", "waiting"}
                                THEN "queued" ELSE status[w]]
  /\ UNCHANGED <<submitted, cancelRequested, cleanupPending, planned,
                 stopRequested, binding, left, hermesVars>>

\* The process ends and starts again: memory is empty, and the constructor
\* turns interrupted executions into queued or uncertain works.
Restart ==
  /\ IF closing THEN UNCHANGED faults ELSE Fault
  /\ closing' = FALSE
  /\ executing' = {}
  /\ live' = [k \in Keys |-> NoWork]
  /\ turn' = [w \in Works |-> "none"]
  /\ cleanup' = [w \in Works |-> "none"]
  /\ status' = [w \in Works |-> IF status[w] \in {"running", "waiting"}
                                THEN IF submitted[w] THEN "uncertain" ELSE "queued"
                                ELSE status[w]]
  /\ UNCHANGED <<submitted, cancelRequested, cleanupPending, planned,
                 stopRequested, binding, left, hermesVars>>

-----------------------------------------------------------------------------
Init ==
  /\ status = [w \in Works |-> "absent"]
  /\ submitted = [w \in Works |-> FALSE]
  /\ cancelRequested = [w \in Works |-> FALSE]
  /\ cleanupPending = [w \in Works |-> FALSE]
  /\ planned = [w \in Works |-> FALSE]
  /\ stopRequested = {}
  /\ binding = [k \in Keys |-> NoWork]
  /\ left = {}
  /\ executing = {}
  /\ live = [k \in Keys |-> NoWork]
  /\ turn = [w \in Works |-> "none"]
  /\ cleanup = [w \in Works |-> "none"]
  /\ closing = FALSE
  /\ session = [w \in Works |-> "none"]
  /\ sent = [w \in Works |-> 0]
  /\ faults = 0

User ==
  \/ \E r \in Runs : Submit(r) \/ Stop(r)
  \/ \E t \in Tasks, a \in Agents : StopAgent(t, a)
  \/ \E a \in Agents : Leave(a)

Pump(w) ==
  ScheduleCleanup(w) \/ Reclaim(w) \/ Plan(w) \/ DropQueued(w) \/ StartTurn(w)

Turn(w) ==
  \/ SetupFail(w) \/ OpenSession(w) \/ PrepareFail(w) \/ SubmitPrompt(w)
  \/ PromptAccepted(w) \/ PromptRejected(w) \/ PromptTimeout(w)
  \/ FinalEvent(w) \/ ToggleWaiting(w) \/ Disconnect(w) \/ Reconnect(w)
  \/ Restore(w) \/ EndExecution(w)

Interrupt(w) == InterruptConfirmed(w) \/ InterruptFailed(w)

Next ==
  \/ User
  \/ \E w \in Works : Pump(w) \/ Turn(w) \/ Interrupt(w) \/ HermesEnds(w) \/ LoseTurn(w)
  \/ Close \/ Restart

Spec == Init /\ [][Next]_vars

-----------------------------------------------------------------------------
(* Properties                                                              *)

TypeOK ==
  /\ status \in [Works -> Statuses]
  /\ submitted \in [Works -> BOOLEAN]
  /\ cancelRequested \in [Works -> BOOLEAN]
  /\ cleanupPending \in [Works -> BOOLEAN]
  /\ planned \in [Works -> BOOLEAN]
  /\ stopRequested \subseteq Runs
  /\ binding \in [Keys -> Works \cup {NoWork}]
  /\ left \subseteq Agents
  /\ executing \subseteq Works
  /\ live \in [Keys -> Works \cup {NoWork}]
  /\ turn \in [Works -> Phases]
  /\ cleanup \in [Works -> CleanupModes]
  /\ closing \in BOOLEAN
  /\ session \in [Works -> SessionStates]
  /\ sent \in [Works -> Nat]
  /\ faults \in 0 .. FaultBudget

\* A prompt is sent at most once per work, whatever crashes, lost answers,
\* rechecks and requeues happen between admission and the end of the turn.
AtMostOnePrompt == \A w \in Works : sent[w] <= 1

\* A prompt that still runs in Hermes is never forgotten: its work is shown
\* as occupying the session, or its interrupt confirmation is still owed.
NoOrphanPrompt ==
  \A w \in Works : session[w] = "running" =>
    submitted[w] /\ (status[w] \in Occupying \/ cleanupPending[w])

\* Two prompts never run at the same time in one bot session.
OnePromptPerSession ==
  \A v, w \in Works :
    session[v] = "running" /\ session[w] = "running" /\ Key(v) = Key(w) => v = w

\* No late answer, event or recovery brings a cancelled work back: every
\* continuation of the turn closure re-reads the stored work.
CancelIsFinal ==
  \A w \in Works : cancelRequested[w] => status[w] = "interrupted"

\* Admission bounds: a task never has more than TaskLimit turns in progress,
\* and the server never more than ConcurrencyLimit (rechecks included).
TurnLimits ==
  /\ \A t \in Tasks :
       Cardinality({w \in Works : Task(w) = t /\ status[w] \in Occupying}) <= TaskLimit
  /\ Cardinality({w \in Works : status[w] \in Occupying}) <= ConcurrencyLimit

\* Two turns that may be in progress together: never in a direct chat, never two of
\* discussions.  In a host group neither may be the administrator's, and they belong
\* to one batch of one run unless one of them carries out an assignment.
MayCoexist(v, w) ==
  /\ Mode[Task(w)] # "direct"
  /\ ~({RunOf[v], RunOf[w]} \subseteq Discussed)
  /\ Mode[Task(w)] = "host" =>
       /\ ~WithAdmin(v, w)
       /\ SameBatch(v, w) \/ {RunOf[v], RunOf[w]} \cap Assigned # {}

\* A direct chat takes one turn at a time, and so do the discussions of a group.
\* In a host group the administrator works alone, even beside an assignment, and the
\* members work on one delegation batch; only assignments may run beside a batch.
TurnExclusivity ==
  \A v, w \in Works :
    /\ v # w
    /\ Task(v) = Task(w)
    /\ status[v] \in Occupying
    /\ status[w] \in Occupying
    => MayCoexist(v, w)

\* A prompt is only sent for a work nobody stopped, and never into a session
\* in which an earlier stop is still unconfirmed.
NoPromptAfterStop ==
  [][\A w \in Works : sent'[w] # sent[w] =>
       /\ ~cancelRequested[w]
       /\ RunOf[w] \notin stopRequested
       /\ \A v \in SameKey(w) : ~cleanupPending[v]]_vars

-----------------------------------------------------------------------------
(* The inductive invariant: why the properties above hold                  *)

\* The memory of the process agrees with what is stored: a turn is executed
\* while its closure lives, an entry of the live map belongs to an open turn,
\* and how far a turn has come tells whether its prompt is on record as sent.
TurnInv(w) ==
  /\ w \in executing <=> turn[w] # "none"
  /\ live[Key(w)] = w => turn[w] \notin {"none", "setup", "recheck", "settled"}
  /\ turn[w] \in {"setup", "opened"} =>
       ~submitted[w] /\ sent[w] = 0 /\ status[w] \in {"running", "interrupted"}
  /\ turn[w] \notin {"none", "setup", "opened", "settled"} =>
       submitted[w] /\ status[w] \in Occupying \cup {"interrupted"}
  /\ turn[w] = "settled" => status[w] # "absent"

\* The submitted flag is written before the prompt goes out and taken back only
\* with a final outcome, so what may be queued again was never sent.
PromptInv(w) ==
  /\ status[w] \in {"absent", "queued"} => ~submitted[w]
  /\ status[w] = "uncertain" => submitted[w]
  /\ sent[w] <= 1
  /\ sent[w] = 1 => submitted[w] \/ status[w] \in {"failed", "interrupted"}
  /\ session[w] # "none" => sent[w] = 1
  /\ session[w] = "running" =>
       submitted[w] /\ (status[w] \in Occupying \/ cleanupPending[w])

\* A cancelled work stays interrupted, an interrupt call is made only while its
\* confirmation is owed, and a stopped run has no work left to start.
StopInv(w) ==
  /\ cancelRequested[w] \/ cleanupPending[w] => status[w] = "interrupted"
  /\ cleanup[w] # "none" => cleanupPending[w]
  /\ cleanup[w] = "local" => ~submitted[w]
  /\ RunOf[w] \in stopRequested => status[w] \in Terminal \cup {"absent"}

\* Only a run that has been submitted is ever stopped.
StoppedRunInv ==
  \A r \in stopRequested : \E w \in WorksOf(r) : status[w] # "absent"

Busy(w) == status[w] \in Occupying \/ cleanupPending[w]

\* A session is held by one work at a time, until that work has an outcome and
\* no stop of it is unconfirmed.
SessionInv ==
  \A v, w \in Works : Key(v) = Key(w) /\ Busy(v) /\ Busy(w) => v = w

IInv ==
  /\ TypeOK
  /\ \A w \in Works : TurnInv(w) /\ PromptInv(w) /\ StopInv(w)
  /\ StoppedRunInv /\ SessionInv /\ TurnExclusivity

-----------------------------------------------------------------------------
(* What the server promises                                                *)

\* The whole server keeps the abstract promise made for every turn.
Promise == INSTANCE TurnPromise WITH
  outcome <- [w \in Works |-> IF status[w] \in {"queued"} \cup Occupying
                              THEN "open" ELSE status[w]],
  prompts <- sent

\* Refinement: sending twice, sending for an ended turn and reopening an ended
\* turn are the steps TurnPromise does not have.
KeepsPromise == Promise!Spec

-----------------------------------------------------------------------------
(* Liveness                                                                *)

\* The scheduler re-runs the pump after every change (wake) and every back-off
\* (retrySoon), and its order by age gets every queued work its turn; every RPC
\* ends with an answer or its timeout; Hermes finishes what it runs; a retried
\* interrupt gets through in the end; a process that closed is started again.
\* Nothing is assumed of users, disconnections, approvals and faults.
Fairness ==
  /\ \A w \in Works :
       /\ WF_vars(ScheduleCleanup(w) \/ Reclaim(w) \/ Plan(w) \/ DropQueued(w))
       /\ SF_vars(StartTurn(w))
       /\ WF_vars(\/ SetupFail(w) \/ OpenSession(w) \/ PrepareFail(w) \/ SubmitPrompt(w)
                  \/ PromptAccepted(w) \/ PromptRejected(w) \/ PromptTimeout(w)
                  \/ FinalEvent(w) \/ Reconnect(w) \/ Restore(w) \/ EndExecution(w))
       /\ SF_vars(InterruptConfirmed(w)) /\ WF_vars(InterruptFailed(w))
       /\ WF_vars(HermesEnds(w))
  /\ WF_vars(closing /\ Restart)

FairSpec == Spec /\ Fairness

\* Every stop is confirmed in the end, so the conversation takes messages again.
StopConfirmed ==
  \A w \in Works : []<>~cleanupPending[w]

\* Once a queued work waits for ever, some turn of its task keeps coming back
\* with an unknown outcome; nothing else can hold the queue.
QueueMoves ==
  \A w \in Works :
    <>[](status[w] = "queued") =>
      []<>(\E v \in Works : Task(v) = Task(w) /\ status[v] = "uncertain")

=============================================================================
