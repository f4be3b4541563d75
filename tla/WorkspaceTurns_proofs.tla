----------------------- MODULE WorkspaceTurns_proofs -----------------------
(***************************************************************************)
(* Proofs about WorkspaceTurns for every set of works, runs, tasks and     *)
(* bots and every bound.                                                   *)
(***************************************************************************)
EXTENDS WorkspaceTurns, FiniteSetTheorems, TLAPS

USE DEF Terminal, Occupying, Statuses, Phases, CleanupModes, SessionStates, Modes

\* The session a work belongs to is one of the keys of binding and live.
LEMMA KeyType == \A w \in Works : Key(w) \in Keys
BY ConstantsAssumption DEF Key, Keys, Task

\* Ending a turn keeps the types of what it writes.
LEMMA FinishType ==
  ASSUME TypeOK, NEW w \in Works, NEW outcome \in Statuses, Finish(w, outcome)
  PROVE  /\ turn' \in [Works -> Phases]
         /\ live' \in [Keys -> Works \cup {NoWork}]
         /\ status' \in [Works -> Statuses]
BY KeyType DEF TypeOK, Finish

LEMMA InitType == Init => TypeOK
<1> SUFFICES ASSUME Init PROVE TypeOK
  OBVIOUS
<1>1. faults \in 0 .. FaultBudget
  BY ConstantsAssumption DEF ConstantsAssumption, Init
<1>2. /\ submitted \in [Works -> BOOLEAN]
      /\ cancelRequested \in [Works -> BOOLEAN]
      /\ cleanupPending \in [Works -> BOOLEAN]
      /\ planned \in [Works -> BOOLEAN]
      /\ closing \in BOOLEAN
  BY Zenon DEF Init
<1>3. /\ status \in [Works -> Statuses]
      /\ turn \in [Works -> Phases]
      /\ cleanup \in [Works -> CleanupModes]
      /\ session \in [Works -> SessionStates]
      /\ sent \in [Works -> Nat]
  BY DEF Init
<1> QED BY <1>1, <1>2, <1>3 DEF Init, TypeOK

\* What cancelling a set of works writes has the right type.
LEMMA CancelType ==
  ASSUME TypeOK, NEW ws \in SUBSET Works, CancelWorks(ws)
  PROVE  /\ status' \in [Works -> Statuses]
         /\ cancelRequested' \in [Works -> BOOLEAN]
         /\ cleanupPending' \in [Works -> BOOLEAN]
         /\ planned' \in [Works -> BOOLEAN]
         /\ cleanup' \in [Works -> CleanupModes]
<1>1. cleanup' \in [Works -> CleanupModes]
  BY DEF TypeOK, CancelWorks, InterruptMode
<1>2. status' \in [Works -> Statuses]
  BY DEF TypeOK, CancelWorks
<1>3. /\ cancelRequested' \in [Works -> BOOLEAN]
      /\ planned' \in [Works -> BOOLEAN]
  BY Zenon DEF TypeOK, CancelWorks
<1>4. cleanupPending' \in [Works -> BOOLEAN]
  BY Zenon DEF TypeOK, CancelWorks
<1> QED BY <1>1, <1>2, <1>3, <1>4

\* Every step keeps the types of all variables.
LEMMA NextType == TypeOK /\ [Next]_vars => TypeOK'
<1> SUFFICES ASSUME TypeOK, [Next]_vars PROVE TypeOK'
  OBVIOUS
<1> USE ConstantsAssumption, KeyType
<1>1. CASE UNCHANGED vars
  BY <1>1 DEF TypeOK, vars, durableVars, volatileVars, hermesVars
<1>2. CASE User
  <2>1. ASSUME NEW r \in Runs, Submit(r) PROVE TypeOK'
    BY <2>1 DEF TypeOK, Submit, volatileVars, hermesVars
  <2>2. ASSUME NEW r \in Runs, Stop(r) PROVE TypeOK'
    <3>1. WorksOf(r) \in SUBSET Works BY DEF WorksOf
    <3> QED BY <2>2, <3>1, CancelType DEF TypeOK, Stop, hermesVars
  <2>3. ASSUME NEW t \in Tasks, NEW a \in Agents, StopAgent(t, a) PROVE TypeOK'
    BY <2>3, CancelType DEF TypeOK, StopAgent, hermesVars
  <2>4. ASSUME NEW a \in Agents, Leave(a) PROVE TypeOK'
    BY <2>4 DEF TypeOK, Leave, volatileVars, hermesVars
  <2> QED BY <1>2, <2>1, <2>2, <2>3, <2>4 DEF User
<1>3. ASSUME NEW w \in Works, Pump(w) PROVE TypeOK'
  <2>1. CASE ScheduleCleanup(w)
    BY <2>1 DEF TypeOK, ScheduleCleanup, InterruptMode, durableVars, hermesVars
  <2>2. CASE Reclaim(w)
    BY <2>2 DEF TypeOK, Reclaim, volatileVars, hermesVars
  <2>3. CASE Plan(w)
    BY <2>3 DEF TypeOK, Plan, volatileVars, hermesVars
  <2>4. CASE DropQueued(w)
    BY <2>4 DEF TypeOK, DropQueued, volatileVars, hermesVars
  <2>5. CASE StartTurn(w)
    BY <2>5 DEF TypeOK, StartTurn, hermesVars
  <2> QED BY <1>3, <2>1, <2>2, <2>3, <2>4, <2>5 DEF Pump
<1>4. ASSUME NEW w \in Works, Turn(w) PROVE TypeOK'
  <2> USE FinishType DEF TypeOK, turnFrame, hermesVars
  <2>0. ErrorStatus(w) \in Statuses BY DEF ErrorStatus
  <2>1. CASE SetupFail(w)
    <3>1. PICK outcome \in {ErrorStatus(w), "queued"} :
            \/ Finish(w, outcome)
            \/ /\ turn' = [turn EXCEPT ![w] = "settled"]
               /\ status' = [status EXCEPT ![w] = IF @ = "interrupted" \/ closing
                                                  THEN @ ELSE outcome]
               /\ UNCHANGED live
      BY <2>1 DEF SetupFail
    <3> QED BY <2>0, <2>1, <3>1 DEF SetupFail
  <2>2. CASE OpenSession(w)
    <3>1. binding' \in [Keys -> Works \cup {NoWork}]
      BY <2>2 DEF OpenSession
    <3>2. CASE \E outcome \in Statuses : Finish(w, outcome)
      BY <2>2, <3>1, <3>2 DEF OpenSession
    <3>3. CASE /\ \E p \in {"opened", "streaming", "restoring"} : turn' = [turn EXCEPT ![w] = p]
               /\ live' = [live EXCEPT ![Key(w)] = w]
               /\ status' \in {status, [status EXCEPT ![w] = "running"]}
      BY <2>2, <3>1, <3>3 DEF OpenSession, Phases, Statuses
    <3> QED BY <2>0, <2>2, <3>2, <3>3 DEF OpenSession, Statuses
  <2>3. CASE PrepareFail(w) BY <2>3 DEF PrepareFail
  <2>4. CASE SubmitPrompt(w)
    <3>1. CASE AgentOf[w] \in left \/ status[w] = "interrupted"
      BY <2>4, <3>1 DEF SubmitPrompt
    <3>2. CASE ~(AgentOf[w] \in left \/ status[w] = "interrupted")
      <4>0. submitted' = [submitted EXCEPT ![w] = TRUE]
        BY <2>4, <3>2 DEF SubmitPrompt
      <4>1. submitted' \in [Works -> BOOLEAN]
        BY <4>0, Zenon
      <4>2. sent' \in [Works -> Nat]
        BY <2>4, <3>2 DEF SubmitPrompt
      <4>3. session' \in [Works -> SessionStates]
        BY <2>4, <3>2 DEF SubmitPrompt
      <4>4. turn' \in [Works -> Phases]
        BY <2>4, <3>2 DEF SubmitPrompt, Phases
      <4> QED BY <2>4, <3>2, <4>1, <4>2, <4>3, <4>4 DEF SubmitPrompt
    <3> QED BY <3>1, <3>2
  <2>5. CASE PromptAccepted(w) BY <2>5 DEF PromptAccepted
  <2>6. CASE PromptRejected(w) BY <2>6 DEF PromptRejected
  <2>7. CASE PromptTimeout(w) BY <2>7 DEF PromptTimeout
  <2>8. CASE FinalEvent(w) BY <2>8 DEF FinalEvent
  <2>9. CASE ToggleWaiting(w) BY <2>9 DEF ToggleWaiting
  <2>10. CASE Disconnect(w) BY <2>10 DEF Disconnect
  <2>11. CASE Reconnect(w) BY <2>11 DEF Reconnect
  <2>12. CASE Restore(w) BY <2>12 DEF Restore
  <2>13. CASE EndExecution(w) BY <2>13 DEF EndExecution, durableVars
  <2> QED BY <1>4, <2>1, <2>2, <2>3, <2>4, <2>5, <2>6, <2>7, <2>8, <2>9,
             <2>10, <2>11, <2>12, <2>13 DEF Turn
<1>5. ASSUME NEW w \in Works, Interrupt(w) PROVE TypeOK'
  <2> USE FinishType DEF TypeOK, hermesVars
  <2>1. CASE InterruptConfirmed(w) BY <2>1 DEF InterruptConfirmed
  <2>2. CASE InterruptFailed(w) BY <2>2 DEF InterruptFailed
  <2> QED BY <1>5, <2>1, <2>2 DEF Interrupt
<1>6. ASSUME NEW w \in Works, HermesEnds(w) PROVE TypeOK'
  BY <1>6 DEF TypeOK, HermesEnds, durableVars, volatileVars
<1>7. ASSUME NEW w \in Works, LoseTurn(w) PROVE TypeOK'
  BY <1>7 DEF TypeOK, LoseTurn, Fault, durableVars, hermesVars
<1>8. CASE Close
  BY <1>8 DEF TypeOK, Close, Fault, ErrorStatus, hermesVars
<1>9. CASE Restart
  <2>1. faults' \in 0 .. FaultBudget
    BY <1>9 DEF ConstantsAssumption, TypeOK, Restart, Fault
  <2> QED BY <1>9, <2>1 DEF TypeOK, Restart, hermesVars
<1> QED BY <1>1, <1>2, <1>3, <1>4, <1>5, <1>6, <1>7, <1>8, <1>9 DEF Next

\* Every variable always has its type.
THEOREM TypeCorrect == Spec => []TypeOK
BY InitType, NextType, PTL DEF Spec
-----------------------------------------------------------------------------
(* The inductive invariant                                                 *)

WorkInv(w) == TurnInv(w) /\ PromptInv(w) /\ StopInv(w)

\* A step that concerns the work w alone.
OnlyWork(w) ==
  /\ stopRequested' = stopRequested
  /\ \A v \in Works \ {w} :
       /\ status'[v] = status[v] /\ submitted'[v] = submitted[v]
       /\ cancelRequested'[v] = cancelRequested[v]
       /\ cleanupPending'[v] = cleanupPending[v]
       /\ turn'[v] = turn[v] /\ cleanup'[v] = cleanup[v]
       /\ session'[v] = session[v] /\ sent'[v] = sent[v]
       /\ v \in executing' <=> v \in executing
       /\ live'[Key(v)] = v => live[Key(v)] = v

\* Works a step does not concern keep their part of the invariant.
LEMMA OnlyWorkKeeps ==
  ASSUME NEW w \in Works, OnlyWork(w), NEW v \in Works \ {w}, WorkInv(v)
  PROVE  WorkInv(v)'
<1> USE DEF OnlyWork, Key, Task
<1>1. TurnInv(v)' BY DEF WorkInv, TurnInv
<1>2. PromptInv(v)' BY DEF WorkInv, PromptInv
<1>3. StopInv(v)' BY DEF WorkInv, StopInv
<1> QED BY <1>1, <1>2, <1>3 DEF WorkInv

\* A step of one work that occupies nothing new keeps the invariant, provided
\* the work's own part holds afterwards.
LEMMA OnlyWorkStep ==
  ASSUME IInv, TypeOK', NEW w \in Works, OnlyWork(w), WorkInv(w)',
         Busy(w)' => Busy(w),
         status'[w] \in Occupying => status[w] \in Occupying,
         status'[w] = "absent" => status[w] = "absent"
  PROVE  IInv'
<1>1. \A v \in Works : WorkInv(v)'
  BY OnlyWorkKeeps DEF IInv, WorkInv
<1>2. StoppedRunInv'
  BY DEF IInv, StoppedRunInv, OnlyWork, WorksOf
<1>3. SessionInv'
  <2>1. \A v \in Works : Busy(v)' => Busy(v)
    BY DEF Busy, OnlyWork
  <2> QED BY <2>1 DEF IInv, SessionInv, Key, Task
<1>4. TurnExclusivity'
  BY DEF IInv, TurnExclusivity, OnlyWork, Task
<1> QED BY <1>1, <1>2, <1>3, <1>4 DEF IInv, WorkInv

LEMMA InitInv == Init => IInv
<1> SUFFICES ASSUME Init PROVE IInv
  OBVIOUS
<1>1. TypeOK BY InitType
<1>2. ASSUME NEW w \in Works PROVE TurnInv(w) /\ PromptInv(w) /\ StopInv(w)
  <2>1. TurnInv(w)
    BY KeyType, ConstantsAssumption DEF ConstantsAssumption, Init, TurnInv
  <2>2. PromptInv(w) BY DEF Init, PromptInv
  <2>3. StopInv(w) BY DEF Init, StopInv
  <2> QED BY <2>1, <2>2, <2>3
<1>3. StoppedRunInv /\ SessionInv /\ TurnExclusivity
  BY DEF Init, StoppedRunInv, SessionInv, Busy, TurnExclusivity
<1> QED BY <1>1, <1>2, <1>3 DEF IInv

\* The pump's steps for one work.
LEMMA PumpStep ==
  ASSUME IInv, TypeOK', NEW w \in Works,
         ScheduleCleanup(w) \/ Reclaim(w) \/ DropQueued(w)
  PROVE  IInv'
<1> USE DEF durableVars, volatileVars, hermesVars
<1>0. WorkInv(w) /\ TypeOK BY DEF IInv, WorkInv
<1>1. CASE ScheduleCleanup(w)
  <2>1. OnlyWork(w) BY <1>0, <1>1 DEF ScheduleCleanup, OnlyWork, TypeOK
  <2>2. WorkInv(w)'
    BY <1>0, <1>1 DEF ScheduleCleanup, InterruptMode, WorkInv, TurnInv, PromptInv,
                      StopInv, TypeOK, Key, Task
  <2> QED BY <1>1, <2>1, <2>2, OnlyWorkStep DEF ScheduleCleanup, Busy
<1>2. CASE Reclaim(w)
  <2>1. OnlyWork(w) BY <1>0, <1>2 DEF Reclaim, OnlyWork, TypeOK
  <2>2. WorkInv(w)'
    BY <1>0, <1>2 DEF Reclaim, WorkInv, TurnInv, PromptInv, StopInv, TypeOK, Key, Task
  <2> QED BY <1>0, <1>2, <2>1, <2>2, OnlyWorkStep DEF Reclaim, Busy, TypeOK
<1>3. CASE DropQueued(w)
  <2>1. OnlyWork(w) BY <1>0, <1>3 DEF DropQueued, OnlyWork, TypeOK
  <2>2. WorkInv(w)'
    BY <1>0, <1>3 DEF DropQueued, WorkInv, TurnInv, PromptInv, StopInv, TypeOK, Key, Task
  <2> QED BY <1>0, <1>3, <2>1, <2>2, OnlyWorkStep DEF DropQueued, Busy, TypeOK
<1> QED BY <1>1, <1>2, <1>3

\* What finish does, for the work of the turn: it settles with the outcome
\* unless it was interrupted, and its session is not in the live map any more.
LEMMA FinishEffect ==
  ASSUME TypeOK, NEW w \in Works, NEW outcome, Finish(w, outcome)
  PROVE  /\ turn'[w] = "settled" /\ live'[Key(w)] = NoWork
         /\ status'[w] = IF status[w] = "interrupted" THEN "interrupted" ELSE outcome
         /\ \A v \in Works \ {w} :
              /\ turn'[v] = turn[v] /\ status'[v] = status[v]
              /\ live'[Key(v)] = v => live[Key(v)] = v
BY KeyType, ConstantsAssumption DEF ConstantsAssumption, TypeOK, Finish

\* The ends of a turn that change nothing else keep the invariant: nothing that
\* may have been sent is queued again or fails while it runs in Hermes.
LEMMA FinishStep ==
  ASSUME IInv, TypeOK', NEW w \in Works,
         NEW outcome \in {"queued", "uncertain"} \cup Terminal,
         Finish(w, outcome),
         turn[w] \notin {"none", "settled"},
         UNCHANGED <<submitted, cancelRequested, cleanupPending, stopRequested,
                     executing, cleanup, session, sent>>,
         outcome \in {"uncertain", "complete"} => submitted[w],
         outcome = "queued" => ~submitted[w],
         outcome # "uncertain" => session[w] # "running"
  PROVE  IInv'
<1>0. WorkInv(w) /\ TypeOK BY DEF IInv, WorkInv
<1>1. /\ turn'[w] = "settled" /\ live'[Key(w)] = NoWork
      /\ status'[w] = IF status[w] = "interrupted" THEN "interrupted" ELSE outcome
      /\ \A v \in Works \ {w} :
           /\ turn'[v] = turn[v] /\ status'[v] = status[v]
           /\ live'[Key(v)] = v => live[Key(v)] = v
  BY <1>0, FinishEffect
<1>2. status[w] \in Occupying \cup {"interrupted"}
  BY <1>0 DEF WorkInv, TurnInv, TypeOK
<1>3. OnlyWork(w) BY <1>1 DEF OnlyWork
<1>4. TurnInv(w)'
  BY <1>0, <1>1, <1>2, ConstantsAssumption
     DEF ConstantsAssumption, WorkInv, TurnInv, Key, Task
<1>5. PromptInv(w)'
  BY <1>0, <1>1, <1>2 DEF WorkInv, PromptInv, TypeOK
<1>6. StopInv(w)'
  BY <1>0, <1>1, <1>2 DEF WorkInv, StopInv
<1> QED BY <1>0, <1>1, <1>2, <1>3, <1>4, <1>5, <1>6, OnlyWorkStep DEF WorkInv, Busy

\* A turn step that only moves the phase within the open ones, or to open.
LEMMA PhaseStep ==
  ASSUME IInv, TypeOK', NEW w \in Works,
         UNCHANGED <<submitted, cancelRequested, cleanupPending, stopRequested,
                     executing, cleanup, session, sent>>,
         \A v \in Works \ {w} : /\ turn'[v] = turn[v] /\ status'[v] = status[v]
                                /\ live'[Key(v)] = v => live[Key(v)] = v,
         turn[w] \notin {"none", "settled"},
         turn'[w] \notin {"none", "settled", "setup", "recheck"},
         turn'[w] = "opened" => turn[w] = "setup" /\ status'[w] = status[w],
         turn'[w] # "opened" => submitted[w],
         status'[w] = status[w] \/ {status[w], status'[w]} \subseteq Occupying,
         status'[w] = "uncertain" => status[w] = "uncertain"
  PROVE  IInv'
<1>0. WorkInv(w) /\ TypeOK BY DEF IInv, WorkInv
<1>1. status[w] \in Occupying \cup {"interrupted"}
  BY <1>0 DEF WorkInv, TurnInv, TypeOK
<1>2. OnlyWork(w) BY DEF OnlyWork
<1>3. TurnInv(w)' BY <1>0, <1>1 DEF WorkInv, TurnInv, TypeOK
<1>4. PromptInv(w)' BY <1>0, <1>1 DEF WorkInv, PromptInv, TypeOK
<1>5. StopInv(w)' BY <1>0, <1>1 DEF WorkInv, StopInv
<1> QED BY <1>0, <1>1, <1>2, <1>3, <1>4, <1>5, OnlyWorkStep DEF WorkInv, Busy

\* What is known of a turn before its prompt went out, and after.
LEMMA PhaseFacts ==
  ASSUME IInv, NEW w \in Works
  PROVE  /\ turn[w] \in {"setup", "opened"} =>
              /\ ~submitted[w] /\ sent[w] = 0 /\ session[w] = "none"
              /\ status[w] \in {"running", "interrupted"}
         /\ turn[w] \notin {"none", "setup", "opened", "settled"} =>
              submitted[w] /\ status[w] \in Occupying \cup {"interrupted"}
         /\ ~submitted[w] => session[w] # "running"
         /\ TypeOK
BY DEF IInv, TurnInv, PromptInv, TypeOK

\* The steps of a turn before its prompt.
LEMMA SetupSteps ==
  ASSUME IInv, TypeOK', NEW w \in Works,
         SetupFail(w) \/ OpenSession(w) \/ PrepareFail(w)
  PROVE  IInv'
<1> USE PhaseFacts DEF turnFrame, hermesVars
<1>1. CASE SetupFail(w)
  <2> PICK outcome \in {ErrorStatus(w)} \cup (IF turn[w] = "setup" THEN {"queued"} ELSE {}) :
        \/ Finish(w, outcome)
        \/ /\ turn' = [turn EXCEPT ![w] = "settled"]
           /\ status' = [status EXCEPT ![w] = IF @ = "interrupted" \/ closing
                                              THEN @ ELSE outcome]
           /\ UNCHANGED live
    BY <1>1 DEF SetupFail
  <2>1. /\ outcome \in {"queued", "uncertain"} \cup Terminal
        /\ outcome \in {"uncertain", "complete"} => submitted[w]
        /\ outcome = "queued" => ~submitted[w]
        /\ outcome # "uncertain" => session[w] # "running"
    BY <1>1 DEF SetupFail, ErrorStatus
  <2>2. CASE Finish(w, outcome)
    BY <1>1, <2>1, <2>2, FinishStep DEF SetupFail
  <2>3. CASE /\ turn' = [turn EXCEPT ![w] = "settled"]
             /\ status' = [status EXCEPT ![w] = IF @ = "interrupted" \/ closing
                                              THEN @ ELSE outcome]
             /\ UNCHANGED live
    <3>0. WorkInv(w) BY DEF IInv, WorkInv
    <3>1. OnlyWork(w) BY <1>1, <2>3 DEF SetupFail, OnlyWork, TypeOK
    <3>2. TurnInv(w)'
      BY <1>1, <2>1, <2>3, <3>0 DEF SetupFail, WorkInv, TurnInv, TypeOK, Key, Task
    <3>3. PromptInv(w)'
      BY <1>1, <2>1, <2>3, <3>0 DEF SetupFail, WorkInv, PromptInv, TypeOK
    <3>4. StopInv(w)'
      BY <1>1, <2>1, <2>3, <3>0 DEF SetupFail, WorkInv, StopInv, TypeOK
    <3>5. /\ Busy(w)' => Busy(w)
          /\ status'[w] \in Occupying => status[w] \in Occupying
          /\ status'[w] = "absent" => status[w] = "absent"
      BY <1>1, <2>1, <2>3 DEF SetupFail, Busy, TypeOK
    <3> QED BY <3>1, <3>2, <3>3, <3>4, <3>5, OnlyWorkStep DEF WorkInv
  <2> QED BY <2>2, <2>3
<1>2. CASE OpenSession(w)
  <2>0. UNCHANGED <<submitted, cancelRequested, cleanupPending, stopRequested,
                    executing, cleanup, session, sent>>
    BY <1>2 DEF OpenSession
  <2>1. \/ \E outcome \in {ErrorStatus(w), "failed", "uncertain"} :
             /\ Finish(w, outcome)
             /\ outcome = "failed" => turn[w] = "setup" \/ ~submitted[w]
             /\ outcome = "uncertain" => turn[w] = "recheck" \/ submitted[w]
        \/ /\ live' = [live EXCEPT ![Key(w)] = w]
           /\ \/ turn[w] = "setup" /\ turn' = [turn EXCEPT ![w] = "opened"]
                 /\ status' = status
              \/ /\ turn[w] = "recheck"
                 /\ turn' = [turn EXCEPT ![w] = "streaming"]
                 /\ status' = [status EXCEPT ![w] = "running"]
                 /\ status[w] # "interrupted"
              \/ /\ turn[w] = "recheck" /\ status' = status
                 /\ turn' = [turn EXCEPT ![w] = "restoring"]
    BY <1>2 DEF OpenSession, ErrorStatus
  <2>2. ASSUME NEW outcome \in {ErrorStatus(w), "failed", "uncertain"},
               Finish(w, outcome),
               outcome = "failed" => turn[w] = "setup" \/ ~submitted[w],
               outcome = "uncertain" => turn[w] = "recheck" \/ submitted[w]
        PROVE  IInv'
    <3>1. outcome \in {"failed", "uncertain"} BY DEF ErrorStatus
    <3>2. /\ outcome = "uncertain" => submitted[w]
          /\ outcome = "failed" => session[w] # "running"
      BY <2>2
    <3>3. turn[w] \notin {"none", "settled"} BY <1>2 DEF OpenSession
    <3> QED BY <2>0, <2>2, <3>1, <3>2, <3>3, FinishStep
  <2>3. ASSUME live' = [live EXCEPT ![Key(w)] = w],
               \/ turn[w] = "setup" /\ turn' = [turn EXCEPT ![w] = "opened"]
                  /\ status' = status
               \/ /\ turn[w] = "recheck"
                  /\ turn' = [turn EXCEPT ![w] = "streaming"]
                  /\ status' = [status EXCEPT ![w] = "running"]
                  /\ status[w] # "interrupted"
               \/ /\ turn[w] = "recheck" /\ status' = status
                  /\ turn' = [turn EXCEPT ![w] = "restoring"]
        PROVE  IInv'
    <3>1. \A v \in Works \ {w} : /\ turn'[v] = turn[v] /\ status'[v] = status[v]
                                 /\ live'[Key(v)] = v => live[Key(v)] = v
      BY <2>3, KeyType DEF TypeOK
    <3>2. /\ turn[w] \notin {"none", "settled"}
          /\ turn'[w] \notin {"none", "settled", "setup", "recheck"}
          /\ turn'[w] = "opened" => turn[w] = "setup" /\ status'[w] = status[w]
          /\ turn'[w] # "opened" => submitted[w]
          /\ status'[w] = status[w] \/ {status[w], status'[w]} \subseteq Occupying
          /\ status'[w] = "uncertain" => status[w] = "uncertain"
      BY <2>3 DEF TypeOK
    <3> QED BY <2>0, <3>1, <3>2, PhaseStep
  <2> QED BY <2>1, <2>2, <2>3
<1>3. CASE PrepareFail(w)
  BY <1>3, FinishStep DEF PrepareFail
<1> QED BY <1>1, <1>2, <1>3

\* Sending the prompt: the one step that raises sent, and it does so with the
\* submitted flag already stored.
LEMMA SubmitPromptStep ==
  ASSUME IInv, TypeOK', NEW w \in Works, SubmitPrompt(w)
  PROVE  IInv'
<1> USE PhaseFacts DEF SubmitPrompt, hermesVars
<1>1. CASE AgentOf[w] \in left \/ status[w] = "interrupted"
  BY <1>1, FinishStep
<1>2. CASE ~(AgentOf[w] \in left \/ status[w] = "interrupted")
  <2>0. WorkInv(w) BY DEF IInv, WorkInv
  <2>1. /\ submitted'[w] /\ turn'[w] = "submitting" /\ sent'[w] = 1
        /\ status'[w] = "running" /\ status[w] = "running"
    BY <1>2 DEF TypeOK
  <2>2. OnlyWork(w) BY <1>2 DEF OnlyWork, TypeOK
  <2>3. TurnInv(w)' BY <1>2, <2>0, <2>1 DEF WorkInv, TurnInv, Key, Task
  <2>4. PromptInv(w)' BY <1>2, <2>0, <2>1 DEF WorkInv, PromptInv
  <2>5. StopInv(w)' BY <1>2, <2>0, <2>1 DEF WorkInv, StopInv
  <2> QED BY <1>2, <2>1, <2>2, <2>3, <2>4, <2>5, OnlyWorkStep DEF WorkInv, Busy
<1> QED BY <1>1, <1>2

\* A refusal takes the submitted flag back; the work has failed for good.
LEMMA PromptRejectedStep ==
  ASSUME IInv, TypeOK', NEW w \in Works, PromptRejected(w)
  PROVE  IInv'
<1> USE PhaseFacts DEF PromptRejected, hermesVars
<1>0. WorkInv(w) BY DEF IInv, WorkInv
<1>1. /\ turn'[w] = "settled" /\ live'[Key(w)] = NoWork
      /\ status'[w] = IF status[w] = "interrupted" THEN "interrupted" ELSE "failed"
      /\ \A v \in Works \ {w} :
           /\ turn'[v] = turn[v] /\ status'[v] = status[v]
           /\ live'[Key(v)] = v => live[Key(v)] = v
  BY FinishEffect
<1>2. submitted'[w] = FALSE BY DEF TypeOK
<1>3. OnlyWork(w) BY <1>1 DEF OnlyWork, TypeOK
<1>4. TurnInv(w)'
  BY <1>0, <1>1, <1>2, ConstantsAssumption
     DEF ConstantsAssumption, WorkInv, TurnInv, Key, Task
<1>5. PromptInv(w)' BY <1>0, <1>1, <1>2 DEF WorkInv, PromptInv
<1>6. StopInv(w)' BY <1>0, <1>1, <1>2 DEF WorkInv, StopInv
<1> QED BY <1>1, <1>3, <1>4, <1>5, <1>6, OnlyWorkStep DEF WorkInv, Busy

\* The steps of a turn after its prompt.
LEMMA StreamSteps ==
  ASSUME IInv, TypeOK', NEW w \in Works,
         \/ PromptAccepted(w) \/ PromptTimeout(w) \/ FinalEvent(w)
         \/ ToggleWaiting(w) \/ Disconnect(w) \/ Reconnect(w) \/ Restore(w)
  PROVE  IInv'
<1> USE PhaseFacts DEF turnFrame, hermesVars
<1>1. CASE PromptAccepted(w)
  BY <1>1, PhaseStep DEF PromptAccepted, TypeOK
<1>2. CASE PromptTimeout(w)
  BY <1>2, FinishStep DEF PromptTimeout
<1>3. CASE FinalEvent(w)
  <2>1. turn[w] \notin {"none", "settled"} /\ submitted[w] /\ session[w] # "running"
    BY <1>3 DEF FinalEvent, Listening
  <2>2. PICK outcome \in Terminal : Finish(w, outcome)
    BY <1>3 DEF FinalEvent
  <2> QED BY <1>3, <2>1, <2>2, FinishStep DEF FinalEvent
<1>4. CASE ToggleWaiting(w)
  BY <1>4, PhaseStep DEF ToggleWaiting, Listening, TypeOK
<1>5. CASE Disconnect(w)
  <2>1. CASE submitted[w]
    BY <1>5, <2>1, PhaseStep DEF Disconnect, TypeOK
  <2>2. CASE ~submitted[w]
    BY <1>5, <2>2, FinishStep DEF Disconnect
  <2> QED BY <2>1, <2>2
<1>6. CASE Reconnect(w)
  <2>1. turn[w] = "reconnecting" /\ submitted[w]
    BY <1>6 DEF Reconnect
  <2>2. \/ Finish(w, "uncertain")
        \/ /\ turn' = [turn EXCEPT ![w] = "streaming"]
           /\ status' = [status EXCEPT ![w] = IF @ = "uncertain" THEN "running" ELSE @]
           /\ UNCHANGED live
        \/ /\ turn' = [turn EXCEPT ![w] = "restoring"]
           /\ UNCHANGED <<status, live>>
    BY <1>6 DEF Reconnect
  <2>3. CASE Finish(w, "uncertain")
    BY <1>6, <2>1, <2>3, FinishStep DEF Reconnect
  <2>4. CASE /\ turn' = [turn EXCEPT ![w] = "streaming"]
             /\ status' = [status EXCEPT ![w] = IF @ = "uncertain" THEN "running" ELSE @]
             /\ UNCHANGED live
    BY <1>6, <2>1, <2>4, PhaseStep DEF Reconnect, TypeOK
  <2>5. CASE /\ turn' = [turn EXCEPT ![w] = "restoring"]
             /\ UNCHANGED <<status, live>>
    BY <1>6, <2>1, <2>5, PhaseStep DEF Reconnect, TypeOK
  <2> QED BY <2>2, <2>3, <2>4, <2>5
<1>7. CASE Restore(w)
  <2>1. turn[w] = "restoring" /\ submitted[w] BY <1>7 DEF Restore
  <2>2. CASE Finish(w, "uncertain")
    BY <1>7, <2>1, <2>2, FinishStep DEF Restore
  <2>3. ASSUME session[w] = "done",
               NEW outcome \in {"complete", "failed"}, Finish(w, outcome)
        PROVE  IInv'
    BY <1>7, <2>1, <2>3, FinishStep DEF Restore
  <2> QED BY <1>7, <2>2, <2>3 DEF Restore
<1> QED BY <1>1, <1>2, <1>3, <1>4, <1>5, <1>6, <1>7

\* The turn leaves memory: executeWork returns, or its closing writes fail.
LEMMA LeaveMemoryStep ==
  ASSUME IInv, TypeOK', NEW w \in Works, EndExecution(w) \/ LoseTurn(w)
  PROVE  IInv'
<1> USE DEF EndExecution, LoseTurn, Fault, durableVars, hermesVars
<1>0. WorkInv(w) /\ TypeOK BY DEF IInv, WorkInv
<1>1. /\ turn'[w] = "none" /\ w \notin executing'
      /\ live'[Key(w)] = live[Key(w)] \/ live'[Key(w)] = NoWork
    BY <1>0, KeyType DEF TypeOK
<1>2. \A v \in Works \ {w} : live'[Key(v)] = v => live[Key(v)] = v
    BY <1>0, KeyType, ConstantsAssumption DEF ConstantsAssumption, TypeOK
<1>3. OnlyWork(w) BY <1>0, <1>2 DEF OnlyWork, TypeOK
<1>4. live'[Key(w)] # w
  <2>1. CASE EndExecution(w) BY <1>0, <2>1 DEF WorkInv, TurnInv
  <2>2. CASE LoseTurn(w)
    BY <1>0, <2>2, KeyType, ConstantsAssumption DEF ConstantsAssumption, TypeOK
  <2> QED BY <2>1, <2>2
<1>5. TurnInv(w)' BY <1>1, <1>4 DEF TurnInv, Key, Task
<1>6. PromptInv(w)' BY <1>0 DEF WorkInv, PromptInv
<1>7. StopInv(w)' BY <1>0 DEF WorkInv, StopInv
<1> QED BY <1>3, <1>5, <1>6, <1>7, OnlyWorkStep DEF WorkInv, Busy

\* An interrupt is confirmed only when the session is idle or nothing was sent.
LEMMA InterruptConfirmedStep ==
  ASSUME IInv, TypeOK', NEW w \in Works, InterruptConfirmed(w)
  PROVE  IInv'
<1> USE PhaseFacts DEF InterruptConfirmed, hermesVars
<1>0. WorkInv(w) BY DEF IInv, WorkInv
<1>1. status[w] = "interrupted" BY <1>0 DEF WorkInv, StopInv
<1>2. session[w] # "running"
  <2>1. CASE cleanup[w] = "local" BY <1>0, <2>1 DEF WorkInv, StopInv
  <2>2. CASE cleanup[w] # "local" BY <2>2 DEF SessionBusy, SameKey
  <2> QED BY <2>1, <2>2
<1>3. ~cleanupPending'[w] /\ cleanup'[w] = "none" BY DEF TypeOK
<1>4. CASE Finish(w, "interrupted") /\ turn[w] \notin {"none", "settled"}
  <2>1. /\ turn'[w] = "settled" /\ live'[Key(w)] = NoWork
        /\ status'[w] = "interrupted"
        /\ \A v \in Works \ {w} :
             /\ turn'[v] = turn[v] /\ status'[v] = status[v]
             /\ live'[Key(v)] = v => live[Key(v)] = v
    BY <1>1, <1>4, FinishEffect
  <2>2. OnlyWork(w) BY <2>1 DEF OnlyWork, TypeOK
  <2>3. TurnInv(w)'
    BY <1>0, <1>4, <2>1, ConstantsAssumption
       DEF ConstantsAssumption, WorkInv, TurnInv, Key, Task
  <2>4. PromptInv(w)' BY <1>0, <1>1, <1>2, <2>1 DEF WorkInv, PromptInv
  <2>5. StopInv(w)' BY <1>0, <1>1, <1>3, <2>1 DEF WorkInv, StopInv
  <2> QED BY <1>1, <1>3, <2>1, <2>2, <2>3, <2>4, <2>5, OnlyWorkStep DEF WorkInv, Busy
<1>5. CASE UNCHANGED <<turn, live, status>>
  <2>2. OnlyWork(w) BY <1>5 DEF OnlyWork, TypeOK
  <2>3. TurnInv(w)' BY <1>0, <1>5 DEF WorkInv, TurnInv, Key, Task
  <2>4. PromptInv(w)' BY <1>0, <1>1, <1>2, <1>5 DEF WorkInv, PromptInv
  <2>5. StopInv(w)' BY <1>0, <1>1, <1>3, <1>5 DEF WorkInv, StopInv
  <2> QED BY <1>1, <1>3, <1>5, <2>2, <2>3, <2>4, <2>5, OnlyWorkStep DEF WorkInv, Busy
<1> QED BY <1>4, <1>5

\* A failed interrupt call leaves the confirmation owed.
LEMMA InterruptFailedStep ==
  ASSUME IInv, TypeOK', NEW w \in Works, InterruptFailed(w)
  PROVE  IInv'
<1> USE PhaseFacts DEF InterruptFailed, hermesVars
<1>0. WorkInv(w) BY DEF IInv, WorkInv
<1>1. status[w] = "interrupted" BY <1>0 DEF WorkInv, StopInv
<1>2. cleanup'[w] = "none" BY DEF TypeOK
<1>3. CASE Finish(w, "interrupted") /\ turn[w] = "reconnecting"
  <2>1. /\ turn'[w] = "settled" /\ live'[Key(w)] = NoWork
        /\ status'[w] = "interrupted"
        /\ \A v \in Works \ {w} :
             /\ turn'[v] = turn[v] /\ status'[v] = status[v]
             /\ live'[Key(v)] = v => live[Key(v)] = v
    BY <1>1, <1>3, FinishEffect
  <2>2. OnlyWork(w) BY <2>1 DEF OnlyWork, TypeOK
  <2>3. TurnInv(w)'
    BY <1>0, <1>3, <2>1, ConstantsAssumption
       DEF ConstantsAssumption, WorkInv, TurnInv, Key, Task
  <2>4. PromptInv(w)' BY <1>0, <1>1, <2>1 DEF WorkInv, PromptInv
  <2>5. StopInv(w)' BY <1>0, <1>1, <1>2, <2>1 DEF WorkInv, StopInv
  <2> QED BY <1>1, <2>1, <2>2, <2>3, <2>4, <2>5, OnlyWorkStep DEF WorkInv, Busy
<1>4. CASE UNCHANGED <<turn, live, status>>
  <2>2. OnlyWork(w) BY <1>4 DEF OnlyWork, TypeOK
  <2>3. TurnInv(w)' BY <1>0, <1>4 DEF WorkInv, TurnInv, Key, Task
  <2>4. PromptInv(w)' BY <1>0, <1>4 DEF WorkInv, PromptInv
  <2>5. StopInv(w)' BY <1>0, <1>2, <1>4 DEF WorkInv, StopInv
  <2> QED BY <1>4, <2>2, <2>3, <2>4, <2>5, OnlyWorkStep DEF WorkInv, Busy
<1> QED BY <1>3, <1>4

\* A prompt ends in Hermes.
LEMMA HermesStep ==
  ASSUME IInv, TypeOK', NEW w \in Works, HermesEnds(w)
  PROVE  IInv'
<1> USE PhaseFacts DEF HermesEnds, durableVars, volatileVars
<1>0. WorkInv(w) BY DEF IInv, WorkInv
<1>1. session'[w] # "running" BY DEF TypeOK
<1>2. OnlyWork(w) BY DEF OnlyWork, TypeOK
<1>3. TurnInv(w)' BY <1>0 DEF WorkInv, TurnInv, Key, Task
<1>4. PromptInv(w)' BY <1>0, <1>1 DEF WorkInv, PromptInv
<1>5. StopInv(w)' BY <1>0 DEF WorkInv, StopInv
<1> QED BY <1>2, <1>3, <1>4, <1>5, OnlyWorkStep DEF WorkInv, Busy

\* Admission of a recheck occupies nothing new; admission of a queued work
\* does, and the occupied set shows every work it could collide with.
LEMMA StartTurnStep ==
  ASSUME IInv, TypeOK', NEW w \in Works, StartTurn(w)
  PROVE  IInv'
<1> USE PhaseFacts DEF StartTurn, Admissible, hermesVars
<1>0. WorkInv(w) BY DEF IInv, WorkInv
<1>1. turn[w] = "none" BY <1>0 DEF WorkInv, TurnInv
<1>2. OnlyWork(w) BY DEF OnlyWork, TypeOK
<1>3. WorkInv(w)'
  <2>1. TurnInv(w)'
    BY <1>0, <1>1 DEF WorkInv, TurnInv, PromptInv, TypeOK, Key, Task
  <2>2. PromptInv(w)' BY <1>0 DEF WorkInv, PromptInv, TypeOK
  <2>3. StopInv(w)' BY <1>0 DEF WorkInv, StopInv, TypeOK
  <2> QED BY <2>1, <2>2, <2>3 DEF WorkInv
<1>4. CASE status[w] = "uncertain"
  BY <1>2, <1>3, <1>4, OnlyWorkStep DEF Busy
<1>5. CASE status[w] = "queued"
  <2>0. /\ status'[w] = "running" /\ ~cleanupPending[w]
        /\ \A v \in Works : cleanupPending'[v] = cleanupPending[v]
        /\ \A v \in Works \ {w} : status'[v] = status[v]
    BY <1>0, <1>5 DEF TypeOK, WorkInv, StopInv
  <2>1. \A v \in Works \ {w} : Busy(v) => v \in Occupied(w)
    BY DEF Busy, Occupied, Pending, IInv, StopInv
  <2>2. \A v \in Works \ {w} : Key(v) = Key(w) => ~Busy(v)
    BY <2>1
  <2>3. SessionInv'
    <3>1. \A v \in Works \ {w} : Busy(v)' = Busy(v)
      BY <2>0 DEF Busy
    <3> QED BY <2>2, <3>1 DEF IInv, SessionInv, Key, Task
  <2>4. \A v \in Works \ {w} : Task(v) = Task(w) /\ Busy(v) => v \in InTask(w)
    BY <2>1 DEF InTask
  <2>5. TurnExclusivity'
    <3> SUFFICES ASSUME NEW u \in Works, NEW v \in Works, u # v, Task(u) = Task(v),
                        status'[u] \in Occupying, status'[v] \in Occupying
                 PROVE  MayCoexist(u, v)
      BY DEF TurnExclusivity, MayCoexist, Task, WithAdmin, SameBatch
    <3>1. ASSUME NEW x \in Works \ {w}, Task(x) = Task(w), status'[x] \in Occupying
          PROVE  MayCoexist(x, w)
      <4>1. x \in InTask(w) BY <2>0, <2>4, <3>1 DEF Busy
      <4>2. ~OneAtATime(w) BY <4>1 DEF Excluded
      <4> QED BY <3>1, <4>1, <4>2 DEF Excluded, OneAtATime, MayCoexist
    <3>2. CASE v = w BY <3>1, <3>2
    <3>3. CASE u = w
      <4>1. MayCoexist(v, w) BY <3>1, <3>3
      <4> QED BY <3>3, <4>1 DEF MayCoexist, WithAdmin, SameBatch
    <3>4. CASE u # w /\ v # w BY <2>0, <3>4 DEF IInv, TurnExclusivity
    <3> QED BY <3>2, <3>3, <3>4
  <2>6. StoppedRunInv'
    BY <2>0 DEF IInv, StoppedRunInv, WorksOf
  <2>7. \A v \in Works : WorkInv(v)'
    BY <1>2, <1>3, OnlyWorkKeeps DEF IInv, WorkInv
  <2> QED BY <2>3, <2>5, <2>6, <2>7 DEF IInv, WorkInv
<1> QED BY <1>4, <1>5

-----------------------------------------------------------------------------
(* Steps that concern several works                                        *)

\* New works are queued, of runs that are not stopped.
LEMMA QueueStep ==
  ASSUME IInv, TypeOK', NEW new \in SUBSET Works,
         \A w \in new : status[w] = "absent" /\ RunOf[w] \notin stopRequested,
         status' = [w \in Works |-> IF w \in new THEN "queued" ELSE status[w]],
         UNCHANGED <<submitted, cancelRequested, cleanupPending, stopRequested,
                     executing, live, turn, cleanup, session, sent>>
  PROVE  IInv'
<1>1. ASSUME NEW w \in Works PROVE WorkInv(w)'
  <2>0. WorkInv(w) BY DEF IInv, WorkInv
  <2>1. TurnInv(w)' BY <2>0 DEF WorkInv, TurnInv, Key, Task
  <2>2. PromptInv(w)' BY <2>0 DEF WorkInv, PromptInv
  <2>3. StopInv(w)' BY <2>0 DEF WorkInv, StopInv
  <2> QED BY <2>1, <2>2, <2>3 DEF WorkInv
<1>2. StoppedRunInv' BY DEF IInv, StoppedRunInv, WorksOf
<1>3. \A w \in Works : Busy(w)' => Busy(w) BY DEF Busy
<1>4. SessionInv' BY <1>3 DEF IInv, SessionInv, Key, Task
<1>5. TurnExclusivity' BY DEF IInv, TurnExclusivity, Task
<1> QED BY <1>1, <1>2, <1>4, <1>5 DEF IInv, WorkInv

\* Submit and plan are such steps.
LEMMA SubmitPlanStep ==
  ASSUME IInv, TypeOK'
  PROVE  /\ \A r \in Runs : Submit(r) => IInv'
         /\ \A w \in Works : Plan(w) => IInv'
<1> USE DEF volatileVars, hermesVars
<1>1. ASSUME NEW r \in Runs, Submit(r) PROVE IInv'
  <2>1. RootsOf(r) \in SUBSET Works BY DEF RootsOf, WorksOf
  <2>2. r \notin stopRequested BY <1>1 DEF Submit, IInv, StoppedRunInv
  <2>3. \A w \in RootsOf(r) : status[w] = "absent" /\ RunOf[w] \notin stopRequested
    BY <1>1, <2>2 DEF Submit, RootsOf, WorksOf
  <2> QED BY <1>1, <2>1, <2>3, QueueStep DEF Submit
<1>2. ASSUME NEW w \in Works, Plan(w) PROVE IInv'
  <2>1. PICK next \in SUBSET {v \in WorksOf(RunOf[w]) : ParentOf[v] = w} :
          /\ RunOf[w] \in stopRequested => next = {}
          /\ status' = [v \in Works |-> IF v \in next /\ status[v] = "absent"
                                        THEN "queued" ELSE status[v]]
    BY <1>2 DEF Plan
  <2> DEFINE new == {v \in next : status[v] = "absent"}
  <2>2. new \in SUBSET Works BY DEF WorksOf
  <2>3. \A v \in new : status[v] = "absent" /\ RunOf[v] \notin stopRequested
    BY <2>1 DEF WorksOf
  <2>4. status' = [v \in Works |-> IF v \in new THEN "queued" ELSE status[v]]
    BY <2>1
  <2> HIDE DEF new
  <2> QED BY <1>2, <2>2, <2>3, <2>4, QueueStep DEF Plan
<1> QED BY <1>1, <1>2

\* What cancelling does to each work.
LEMMA CancelEffect ==
  ASSUME IInv, NEW ws \in SUBSET Works, CancelWorks(ws), NEW w \in Works
  PROVE  \/ /\ w \in ws /\ status[w] \notin Terminal \cup {"absent"}
            /\ status'[w] = "interrupted" /\ cancelRequested'[w]
            /\ cleanupPending'[w] <=> status[w] # "queued"
            /\ cleanup'[w] # "none" => cleanupPending'[w]
            /\ cleanup'[w] = "local" => ~submitted[w]
         \/ /\ w \notin ws \/ status[w] \in Terminal \cup {"absent"}
            /\ status'[w] = status[w]
            /\ cancelRequested'[w] = cancelRequested[w]
            /\ cleanupPending'[w] = cleanupPending[w]
            /\ cleanup'[w] = cleanup[w]
<1> DEFINE hit == {v \in ws : status[v] \notin Terminal \cup {"absent"}}
           owing == {v \in hit : status[v] # "queued"}
<1>0. WorkInv(w) /\ TypeOK BY DEF IInv, WorkInv
<1>1. /\ status'[w] = IF w \in hit THEN "interrupted" ELSE status[w]
      /\ cancelRequested'[w] <=> cancelRequested[w] \/ w \in hit
      /\ cleanupPending'[w] <=> w \in owing \/ (cleanupPending[w] /\ w \notin hit)
      /\ cleanup'[w] = IF w \in owing /\ cleanup[w] = "none"
                       THEN InterruptMode(w) ELSE cleanup[w]
  BY DEF CancelWorks
<1>2. /\ cancelRequested'[w] \in BOOLEAN /\ cleanupPending'[w] \in BOOLEAN
      /\ cancelRequested[w] \in BOOLEAN /\ cleanupPending[w] \in BOOLEAN
  BY <1>0, CancelType DEF TypeOK
<1>3. CASE w \in hit
  <2>1. cleanup[w] = "none" BY <1>0, <1>3 DEF WorkInv, StopInv
  <2>2. cleanup'[w] = "local" => ~submitted[w]
    BY <1>1, <1>3, <2>1 DEF InterruptMode
  <2> QED BY <1>1, <1>2, <1>3, <2>1, <2>2
<1>4. CASE w \notin hit
  BY <1>1, <1>2, <1>4
<1> QED BY <1>3, <1>4

\* Cancelling: what it interrupts has left the queue and keeps its session, or
\* was only queued and was never sent.
LEMMA CancelStep ==
  ASSUME IInv, TypeOK', NEW ws \in SUBSET Works, CancelWorks(ws),
         UNCHANGED <<submitted, executing, live, turn, session, sent>>,
         \A r \in stopRequested' \ stopRequested :
           /\ \E w \in WorksOf(r) : status[w] # "absent"
           /\ WorksOf(r) \subseteq ws
  PROVE  IInv'
<1>1. ASSUME NEW w \in Works PROVE WorkInv(w)'
  <2>0. WorkInv(w) BY DEF IInv, WorkInv
  <2> USE CancelEffect
  <2>1. TurnInv(w)' BY <2>0 DEF WorkInv, TurnInv, Key, Task
  <2>2. PromptInv(w)' BY <2>0 DEF WorkInv, PromptInv, IInv, TypeOK
  <2>3. StopInv(w)'
    <3>1. RunOf[w] \in stopRequested' => RunOf[w] \in stopRequested \/ w \in ws
      BY DEF WorksOf
    <3> QED BY <2>0, <3>1 DEF WorkInv, StopInv
  <2> QED BY <2>1, <2>2, <2>3 DEF WorkInv
<1>2. StoppedRunInv'
  BY CancelEffect DEF IInv, StoppedRunInv, WorksOf
<1>3. \A w \in Works : Busy(w)' => Busy(w)
  BY CancelEffect DEF Busy, IInv, TypeOK
<1>4. SessionInv' BY <1>3 DEF IInv, SessionInv, Key, Task
<1>5. TurnExclusivity' BY CancelEffect DEF IInv, TurnExclusivity, Task
<1> QED BY <1>1, <1>2, <1>4, <1>5 DEF IInv, WorkInv

\* Stop and stopAgent are such steps.
LEMMA StopSteps ==
  ASSUME IInv, TypeOK'
  PROVE  /\ \A r \in Runs : Stop(r) => IInv'
         /\ \A t \in Tasks, a \in Agents : StopAgent(t, a) => IInv'
<1> USE DEF hermesVars
<1>1. ASSUME NEW r \in Runs, Stop(r) PROVE IInv'
  <2>1. WorksOf(r) \in SUBSET Works BY DEF WorksOf
  <2>2. stopRequested' \ stopRequested \subseteq {r} BY <1>1 DEF Stop
  <2>3. \E w \in WorksOf(r) : status[w] # "absent" BY <1>1 DEF Stop
  <2>4. CancelWorks(WorksOf(r)) BY <1>1 DEF Stop
  <2>5. UNCHANGED <<submitted, executing, live, turn, session, sent>>
    BY <1>1 DEF Stop
  <2> QED BY <2>1, <2>2, <2>3, <2>4, <2>5, CancelStep
<1>2. ASSUME NEW t \in Tasks, NEW a \in Agents, StopAgent(t, a) PROVE IInv'
  <2> DEFINE ws == {w \in Works : Key(w) = <<t, a>>}
  <2>1. /\ CancelWorks(ws) /\ stopRequested' = stopRequested
        /\ UNCHANGED <<submitted, executing, live, turn, session, sent>>
    BY <1>2 DEF StopAgent
  <2>2. ws \in SUBSET Works OBVIOUS
  <2> HIDE DEF ws
  <2> QED BY <2>1, <2>2, CancelStep
<1> QED BY <1>1, <1>2

\* The service closes: open turns end, with a prompt on record as uncertain.
LEMMA CloseStep == IInv /\ TypeOK' /\ Close => IInv'
<1> SUFFICES ASSUME IInv, TypeOK', Close PROVE IInv'
  OBVIOUS
<1> USE DEF Close, Fault, hermesVars
<1>0. TypeOK /\ \A w \in Works : WorkInv(w) BY DEF IInv, WorkInv
<1>1. ASSUME NEW w \in Works
      PROVE  \/ /\ live[Key(w)] = w /\ turn'[w] = "settled"
                /\ status[w] \in Occupying \cup {"interrupted"}
                /\ status'[w] = IF status[w] = "interrupted" THEN "interrupted"
                                ELSE IF submitted[w] THEN "uncertain" ELSE "failed"
             \/ live[Key(w)] # w /\ turn'[w] = turn[w] /\ status'[w] = status[w]
  BY <1>0 DEF ErrorStatus, WorkInv, TurnInv, TypeOK
<1>2. ASSUME NEW w \in Works PROVE live'[Key(w)] # w
  BY KeyType, ConstantsAssumption DEF ConstantsAssumption
<1>3. ASSUME NEW w \in Works PROVE WorkInv(w)'
  <2>1. TurnInv(w)'
    BY <1>0, <1>1, <1>2 DEF WorkInv, TurnInv, Key, Task
  <2>2. PromptInv(w)' BY <1>0, <1>1 DEF WorkInv, PromptInv
  <2>3. StopInv(w)' BY <1>0, <1>1 DEF WorkInv, StopInv
  <2> QED BY <2>1, <2>2, <2>3 DEF WorkInv
<1>4. StoppedRunInv' BY <1>1 DEF IInv, StoppedRunInv, WorksOf
<1>5. \A w \in Works : Busy(w)' => Busy(w) BY <1>1, <1>0 DEF Busy, WorkInv, TurnInv
<1>6. SessionInv' BY <1>5 DEF IInv, SessionInv, Key, Task
<1>7. \A w \in Works : status'[w] \in Occupying => status[w] \in Occupying
  BY <1>0, <1>1 DEF WorkInv, TurnInv
<1>8. TurnExclusivity' BY <1>7 DEF IInv, TurnExclusivity, Task
<1> QED BY <1>3, <1>4, <1>6, <1>8 DEF IInv, WorkInv

\* The process starts again: what was running is queued or uncertain.
LEMMA RestartStep == IInv /\ TypeOK' /\ Restart => IInv'
<1> SUFFICES ASSUME IInv, TypeOK', Restart PROVE IInv'
  OBVIOUS
<1>0. TypeOK /\ \A w \in Works : WorkInv(w) BY DEF IInv, WorkInv
<1>1. /\ executing' = {} /\ live' = [k \in Keys |-> NoWork]
      /\ turn' = [w \in Works |-> "none"] /\ cleanup' = [w \in Works |-> "none"]
      /\ status' = [w \in Works |-> IF status[w] \in {"running", "waiting"}
                                    THEN IF submitted[w] THEN "uncertain" ELSE "queued"
                                    ELSE status[w]]
      /\ UNCHANGED <<submitted, cancelRequested, cleanupPending, stopRequested,
                      session, sent>>
  BY DEF Restart, hermesVars
<1>2. ASSUME NEW w \in Works PROVE live'[Key(w)] # w
  BY <1>1, KeyType, ConstantsAssumption DEF ConstantsAssumption
<1>3. ASSUME NEW w \in Works PROVE WorkInv(w)'
  <2>1. TurnInv(w)' BY <1>1, <1>2 DEF TurnInv, Key, Task
  <2>2. PromptInv(w)' BY <1>0, <1>1 DEF WorkInv, PromptInv
  <2>3. StopInv(w)' BY <1>0, <1>1 DEF WorkInv, StopInv
  <2> QED BY <2>1, <2>2, <2>3 DEF WorkInv
<1>4. StoppedRunInv' BY <1>1 DEF IInv, StoppedRunInv, WorksOf
<1>5. \A w \in Works : Busy(w)' => Busy(w) BY <1>1 DEF Busy
<1>6. SessionInv' BY <1>5 DEF IInv, SessionInv, Key, Task
<1>7. TurnExclusivity' BY <1>1 DEF IInv, TurnExclusivity, Task
<1> QED BY <1>3, <1>4, <1>6, <1>7 DEF IInv, WorkInv

\* Steps that change nothing the invariant speaks of.
LEMMA QuietStep ==
  ASSUME IInv, TypeOK',
         UNCHANGED <<status, submitted, cancelRequested, cleanupPending,
                     stopRequested, executing, live, turn, cleanup, session, sent>>
  PROVE  IInv'
<1>1. ASSUME NEW w \in Works PROVE WorkInv(w)'
  <2>0. WorkInv(w) BY DEF IInv, WorkInv
  <2>1. TurnInv(w)' BY <2>0 DEF WorkInv, TurnInv, Key, Task
  <2>2. PromptInv(w)' BY <2>0 DEF WorkInv, PromptInv
  <2>3. StopInv(w)' BY <2>0 DEF WorkInv, StopInv
  <2> QED BY <2>1, <2>2, <2>3 DEF WorkInv
<1>2. StoppedRunInv' /\ SessionInv' /\ TurnExclusivity'
  BY DEF IInv, StoppedRunInv, SessionInv, TurnExclusivity, Busy, WorksOf, Key, Task
<1> QED BY <1>1, <1>2 DEF IInv, WorkInv

\* The invariant is inductive.
LEMMA NextInv == IInv /\ [Next]_vars => IInv'
<1> SUFFICES ASSUME IInv, [Next]_vars PROVE IInv'
  OBVIOUS
<1>0. TypeOK' BY NextType DEF IInv
<1>1. CASE UNCHANGED vars
  BY <1>0, <1>1, QuietStep DEF vars, durableVars, volatileVars, hermesVars
<1>2. CASE User
  <2>1. ASSUME NEW a \in Agents, Leave(a) PROVE IInv'
    BY <1>0, <2>1, QuietStep DEF Leave, volatileVars, hermesVars
  <2> QED BY <1>0, <1>2, <2>1, SubmitPlanStep, StopSteps DEF User
<1>3. ASSUME NEW w \in Works, Pump(w) PROVE IInv'
  BY <1>0, <1>3, PumpStep, SubmitPlanStep, StartTurnStep DEF Pump
<1>4. ASSUME NEW w \in Works, Turn(w) PROVE IInv'
  BY <1>0, <1>4, SetupSteps, SubmitPromptStep, PromptRejectedStep, StreamSteps,
     LeaveMemoryStep DEF Turn
<1>5. ASSUME NEW w \in Works, Interrupt(w) \/ HermesEnds(w) \/ LoseTurn(w) PROVE IInv'
  BY <1>0, <1>5, InterruptConfirmedStep, InterruptFailedStep, HermesStep,
     LeaveMemoryStep DEF Interrupt
<1>6. CASE Close \/ Restart
  BY <1>0, <1>6, CloseStep, RestartStep
<1> QED BY <1>1, <1>2, <1>3, <1>4, <1>5, <1>6 DEF Next

\* The inductive invariant holds in every reachable state.
THEOREM Inductive == Spec => []IInv
BY InitInv, NextInv, PTL DEF Spec

-----------------------------------------------------------------------------
(* The safety properties                                                   *)

\* A prompt is sent at most once, through every crash, recheck and requeue.
THEOREM PromptsOnce == Spec => []AtMostOnePrompt
<1>1. IInv => AtMostOnePrompt BY DEF IInv, PromptInv, AtMostOnePrompt
<1> QED BY <1>1, Inductive, PTL

\* A prompt running in Hermes is never forgotten by the server.
THEOREM PromptsAccounted == Spec => []NoOrphanPrompt
<1>1. IInv => NoOrphanPrompt BY DEF IInv, PromptInv, NoOrphanPrompt
<1> QED BY <1>1, Inductive, PTL

\* Two prompts never run in one session.
THEOREM PromptsAlone == Spec => []OnePromptPerSession
<1>1. IInv => OnePromptPerSession
  BY DEF IInv, PromptInv, SessionInv, Busy, OnePromptPerSession
<1> QED BY <1>1, Inductive, PTL

\* A cancelled work is never brought back.
THEOREM CancelledForGood == Spec => []CancelIsFinal
<1>1. IInv => CancelIsFinal BY DEF IInv, StopInv, CancelIsFinal
<1> QED BY <1>1, Inductive, PTL

\* Direct chats, discussions and host groups keep their turns apart.
THEOREM TurnsApart == Spec => []TurnExclusivity
<1>1. IInv => TurnExclusivity BY DEF IInv
<1> QED BY <1>1, Inductive, PTL

-----------------------------------------------------------------------------
(* Every step is a step of the promise                                     *)

IsOpen(s) == s \in {"queued"} \cup Occupying

Settles ==
  /\ sent' = sent
  /\ \A w \in Works : \/ status'[w] = status[w]
                      \/ /\ IsOpen(status[w])
                         /\ \/ status'[w] \in {"queued"} \cup Terminal
                            \/ {status[w], status'[w]} \subseteq Occupying

Queues ==
  /\ sent' = sent
  /\ \A w \in Works : status'[w] = status[w] \/ (status[w] = "absent" /\ status'[w] = "queued")

Starts(w) ==
  /\ sent' = sent /\ status[w] = "queued" /\ StartTurn(w)
  /\ status' = [status EXCEPT ![w] = "running"]

Issues(w) ==
  /\ status' = status /\ sent[w] = 0 /\ sent' = [sent EXCEPT ![w] = 1]
  /\ IsOpen(status[w]) /\ SubmitPrompt(w)

\* A turn that finishes had an open work, or one that was interrupted.
LEMMA FinishSettles ==
  ASSUME IInv, NEW w \in Works, NEW outcome \in {"queued", "uncertain"} \cup Terminal,
         Finish(w, outcome), turn[w] \notin {"none", "settled"}, sent' = sent
  PROVE  Settles
BY PhaseFacts DEF Finish, Settles, IsOpen, TypeOK

\* The steps of a turn.
LEMMA TurnKinds ==
  ASSUME IInv, NEW w \in Works, Turn(w)
  PROVE  Settles \/ Issues(w)
<1> USE PhaseFacts, FinishSettles DEF turnFrame, hermesVars
<1>0. ErrorStatus(w) \in {"failed", "uncertain"} BY DEF ErrorStatus
<1>1. CASE SetupFail(w)
  BY <1>0, <1>1 DEF SetupFail, Settles, IsOpen, TypeOK
<1>2. CASE OpenSession(w)
  BY <1>0, <1>2 DEF OpenSession, Settles, IsOpen, TypeOK
<1>3. CASE PrepareFail(w) BY <1>3 DEF PrepareFail
<1>4. CASE SubmitPrompt(w)
  <2>1. CASE AgentOf[w] \in left \/ status[w] = "interrupted"
    BY <1>4, <2>1 DEF SubmitPrompt
  <2>2. CASE ~(AgentOf[w] \in left \/ status[w] = "interrupted")
    BY <1>4, <2>2 DEF SubmitPrompt, Issues, IsOpen, TypeOK
  <2> QED BY <2>1, <2>2
<1>5. CASE PromptAccepted(w) BY <1>5 DEF PromptAccepted, Settles
<1>6. CASE PromptRejected(w) BY <1>6 DEF PromptRejected
<1>7. CASE PromptTimeout(w) BY <1>7 DEF PromptTimeout
<1>8. CASE FinalEvent(w) BY <1>8 DEF FinalEvent, Listening
<1>9. CASE ToggleWaiting(w)
  BY <1>9 DEF ToggleWaiting, Listening, Settles, IsOpen, TypeOK
<1>10. CASE Disconnect(w) BY <1>10 DEF Disconnect, Settles
<1>11. CASE Reconnect(w) BY <1>11 DEF Reconnect, Settles, IsOpen, TypeOK
<1>12. CASE Restore(w) BY <1>12 DEF Restore
<1>13. CASE EndExecution(w) BY <1>13 DEF EndExecution, durableVars, Settles
<1> QED BY <1>1, <1>2, <1>3, <1>4, <1>5, <1>6, <1>7, <1>8, <1>9, <1>10, <1>11,
           <1>12, <1>13 DEF Turn

\* Every step queues works, starts one, settles works or sends the prompt of an
\* open one.
LEMMA StepKinds ==
  ASSUME IInv, [Next]_vars
  PROVE  Settles \/ Queues \/ \E w \in Works : Starts(w) \/ Issues(w)
<1> USE DEF durableVars, volatileVars, hermesVars
<1>0. TypeOK BY DEF IInv
<1>1. CASE UNCHANGED vars BY <1>1 DEF vars, Settles
<1>2. CASE User
  <2>1. ASSUME NEW r \in Runs, Submit(r) PROVE Queues
    BY <2>1 DEF Submit, Queues, RootsOf, WorksOf
  <2>2. ASSUME NEW ws \in SUBSET Works, CancelWorks(ws), sent' = sent PROVE Settles
    BY <1>0, <2>2 DEF CancelWorks, Settles, IsOpen, TypeOK
  <2>3. ASSUME NEW r \in Runs, Stop(r) PROVE Settles
    BY <2>2, <2>3 DEF Stop, WorksOf
  <2>4. ASSUME NEW t \in Tasks, NEW a \in Agents, StopAgent(t, a) PROVE Settles
    BY <2>2, <2>4 DEF StopAgent
  <2>5. ASSUME NEW a \in Agents, Leave(a) PROVE Settles
    BY <2>5 DEF Leave, Settles
  <2> QED BY <1>2, <2>1, <2>3, <2>4, <2>5 DEF User
<1>3. ASSUME NEW w \in Works, Pump(w) PROVE Settles \/ Queues \/ Starts(w)
  <2>1. CASE ScheduleCleanup(w) BY <2>1 DEF ScheduleCleanup, Settles
  <2>2. CASE Reclaim(w) BY <1>0, <2>2 DEF Reclaim, Settles, IsOpen, TypeOK
  <2>3. CASE Plan(w) BY <2>3 DEF Plan, Queues
  <2>4. CASE DropQueued(w) BY <1>0, <2>4 DEF DropQueued, Settles, IsOpen, TypeOK
  <2>5. CASE StartTurn(w)
    BY <1>0, <2>5 DEF StartTurn, Settles, Starts, TypeOK
  <2> QED BY <1>3, <2>1, <2>2, <2>3, <2>4, <2>5 DEF Pump
<1>4. ASSUME NEW w \in Works, Interrupt(w) PROVE Settles
  BY <1>4, FinishSettles DEF Interrupt, InterruptConfirmed, InterruptFailed, Settles
<1>5. ASSUME NEW w \in Works, HermesEnds(w) \/ LoseTurn(w) PROVE Settles
  BY <1>5 DEF HermesEnds, LoseTurn, Settles
<1>6. CASE Close
  <2>1. \A w \in Works : live[Key(w)] = w => status[w] \in Occupying \cup {"interrupted"}
    BY <1>0 DEF IInv, TurnInv, TypeOK
  <2> QED BY <1>6, <2>1 DEF Close, ErrorStatus, Settles, IsOpen
<1>7. CASE Restart BY <1>7 DEF Restart, Settles, IsOpen
<1> QED BY <1>1, <1>2, <1>3, <1>4, <1>5, <1>6, <1>7, TurnKinds DEF Next

\* A prompt goes out only for works nobody stopped, into a session with no
\* unconfirmed stop.
THEOREM StoppedStaysSilent == Spec => NoPromptAfterStop
<1> DEFINE Silent(w) == sent'[w] # sent[w] =>
             /\ ~cancelRequested[w]
             /\ RunOf[w] \notin stopRequested
             /\ \A v \in SameKey(w) : ~cleanupPending[v]
<1>1. ASSUME IInv, [Next]_vars, NEW w \in Works PROVE Silent(w)
  <2> SUFFICES ASSUME sent'[w] # sent[w]
               PROVE  /\ ~cancelRequested[w]
                      /\ RunOf[w] \notin stopRequested
                      /\ \A v \in SameKey(w) : ~cleanupPending[v]
    OBVIOUS
  <2>1. Issues(w)
    BY <1>1, StepKinds DEF Settles, Queues, Starts, Issues, IInv, TypeOK
  <2>2. status[w] = "running"
    BY <1>1, <2>1, PhaseFacts DEF Issues, IsOpen, SubmitPrompt
  <2>3. WorkInv(w) BY <1>1 DEF IInv, WorkInv
  <2>4. ~cancelRequested[w] /\ ~cleanupPending[w] /\ RunOf[w] \notin stopRequested
    BY <2>2, <2>3 DEF WorkInv, StopInv
  <2>5. \A v \in SameKey(w) : ~cleanupPending[v]
    BY <1>1, <2>2, <2>4 DEF IInv, SessionInv, Busy, SameKey
  <2> QED BY <2>4, <2>5
<1>2. IInv /\ [Next]_vars => [\A w \in Works : Silent(w)]_vars
  BY <1>1
<1> QED BY <1>2, Inductive, PTL DEF Spec, NoPromptAfterStop

\* The occupying works, of one task and of all.
InProgress(t) == {w \in Works : Task(w) = t /\ status[w] \in Occupying}
AllInProgress == {w \in Works : status[w] \in Occupying}

\* A set of works that grows by one below a limit stays within it.
LEMMA OneMore ==
  ASSUME NEW limit \in Nat, NEW S, NEW T \in SUBSET Works, NEW U, NEW w,
         S \subseteq T \cup {w}, T \subseteq U, U \in SUBSET Works,
         Cardinality(U) < limit
  PROVE  Cardinality(S) <= limit
<1>1. IsFiniteSet(U) /\ IsFiniteSet(T)
  BY FS_Subset, ConstantsAssumption DEF ConstantsAssumption
<1>2. Cardinality(T) <= Cardinality(U) /\ Cardinality(T) \in Nat /\ Cardinality(U) \in Nat
  BY <1>1, FS_Subset, FS_CardinalityType
<1>3. /\ IsFiniteSet(T \cup {w}) /\ Cardinality(T \cup {w}) \in Nat
      /\ Cardinality(T \cup {w}) <= Cardinality(T) + 1
  BY <1>1, <1>2, FS_AddElement
<1>4. Cardinality(S) <= Cardinality(T \cup {w}) /\ Cardinality(S) \in Nat
  BY <1>3, FS_Subset, FS_CardinalityType
<1> QED BY <1>2, <1>3, <1>4

\* The limits of admission hold: what occupies after an admission was counted by
\* it, except the work itself.
THEOREM WithinLimits == Spec => []TurnLimits
<1>1. Init => TurnLimits
  <2> SUFFICES ASSUME Init PROVE TurnLimits
    OBVIOUS
  <2>1. AllInProgress = {} /\ \A t \in Tasks : InProgress(t) = {}
    BY DEF Init, AllInProgress, InProgress
  <2>0. Cardinality({}) = 0 BY FS_EmptySet, Zenon
  <2>2. /\ Cardinality(AllInProgress) = 0
        /\ \A t \in Tasks : Cardinality(InProgress(t)) = 0
    BY <2>0, <2>1, Zenon
  <2>3. 0 <= ConcurrencyLimit /\ 0 <= TaskLimit
    BY ConstantsAssumption DEF ConstantsAssumption
  <2> QED BY <2>2, <2>3 DEF TurnLimits, AllInProgress, InProgress
<1>2. ASSUME IInv, TurnLimits, [Next]_vars PROVE TurnLimits'
  <2>0. TypeOK BY <1>2 DEF IInv
  <2>1. CASE \A w \in Works : status'[w] \in Occupying => status[w] \in Occupying
    <3>1. /\ AllInProgress' \subseteq AllInProgress
          /\ \A t \in Tasks : InProgress(t)' \subseteq InProgress(t)
      BY <2>1 DEF AllInProgress, InProgress, Task
    <3>2. /\ IsFiniteSet(AllInProgress)
          /\ \A t \in Tasks : IsFiniteSet(InProgress(t))
      BY FS_Subset, ConstantsAssumption DEF ConstantsAssumption, AllInProgress, InProgress
    <3>3. /\ Cardinality(AllInProgress') <= Cardinality(AllInProgress)
          /\ Cardinality(AllInProgress) \in Nat /\ Cardinality(AllInProgress') \in Nat
      BY <3>1, <3>2, FS_Subset, FS_CardinalityType
    <3>4. ASSUME NEW t \in Tasks
          PROVE  /\ Cardinality(InProgress(t)') <= Cardinality(InProgress(t))
                 /\ Cardinality(InProgress(t)) \in Nat
                 /\ Cardinality(InProgress(t)') \in Nat
      BY <3>1, <3>2, FS_Subset, FS_CardinalityType
    <3>5. /\ Cardinality(AllInProgress) <= ConcurrencyLimit
          /\ \A t \in Tasks : Cardinality(InProgress(t)) <= TaskLimit
      BY <1>2 DEF TurnLimits, AllInProgress, InProgress
    <3>6. /\ Cardinality(AllInProgress') <= ConcurrencyLimit
          /\ \A t \in Tasks : Cardinality(InProgress(t)') <= TaskLimit
      BY <3>3, <3>4, <3>5, ConstantsAssumption DEF ConstantsAssumption
    <3> QED BY <3>6 DEF TurnLimits, AllInProgress, InProgress
  <2>2. ASSUME NEW w \in Works, Starts(w) PROVE TurnLimits'
    <3>1. /\ Cardinality(Occupied(w)) < ConcurrencyLimit
          /\ Cardinality(InTask(w)) < TaskLimit
      BY <2>2 DEF Starts, StartTurn
    <3>2. \A v \in Works : status[v] \in Occupying => v \in Occupied(w)
      BY <2>2 DEF Starts, Occupied, Pending
    <3>3. /\ AllInProgress' \subseteq AllInProgress \cup {w}
          /\ AllInProgress \subseteq Occupied(w) /\ Occupied(w) \in SUBSET Works
      BY <2>0, <2>2, <3>2 DEF Starts, AllInProgress, Occupied, TypeOK
    <3>4. Cardinality(AllInProgress') <= ConcurrencyLimit
      BY <3>1, <3>3, OneMore, ConstantsAssumption
         DEF ConstantsAssumption, AllInProgress
    <3>5. ASSUME NEW t \in Tasks PROVE Cardinality(InProgress(t)') <= TaskLimit
      <4>1. CASE t = Task(w)
        <5>1. /\ InProgress(t)' \subseteq InProgress(t) \cup {w}
              /\ InProgress(t) \subseteq InTask(w) /\ InTask(w) \in SUBSET Works
              /\ InProgress(t) \in SUBSET Works
          BY <2>0, <2>2, <3>2, <4>1 DEF Starts, InProgress, InTask, Occupied, Task, TypeOK
        <5> QED BY <3>1, <5>1, OneMore, ConstantsAssumption DEF ConstantsAssumption
      <4>2. CASE t # Task(w)
        <5>1. InProgress(t)' = InProgress(t)
          BY <2>0, <2>2, <4>2 DEF Starts, InProgress, Task, TypeOK
        <5> QED BY <1>2, <5>1 DEF TurnLimits, InProgress
      <4> QED BY <4>1, <4>2
    <3> QED BY <3>4, <3>5 DEF TurnLimits, AllInProgress, InProgress
  <2>3. ASSUME NEW w \in Works, Issues(w)
        PROVE  \A v \in Works : status'[v] \in Occupying => status[v] \in Occupying
    BY <2>3 DEF Issues
  <2>4. ASSUME Settles \/ Queues
        PROVE  \A v \in Works : status'[v] \in Occupying => status[v] \in Occupying
    BY <2>4 DEF Settles, Queues, IsOpen
  <2> QED BY <1>2, <2>1, <2>2, <2>3, <2>4, StepKinds
<1> QED BY <1>1, <1>2, Inductive, PTL DEF Spec

\* The server implements TurnPromise: queueing, sending and settling are its
\* steps, and nothing else it does can be seen there.
THEOREM ImplementsPromise == Spec => KeepsPromise
<1> DEFINE out(s) == IF s \in {"queued"} \cup Occupying THEN "open" ELSE s
           outcome == [w \in Works |-> out(status[w])]
<1>1. Init => Promise!Init
  BY DEF Init, Promise!Init
<1>2. ASSUME IInv, [Next]_vars
      PROVE  Promise!Next \/ (outcome' = outcome /\ sent' = sent)
  <2>0. TypeOK /\ TypeOK' BY <1>2, NextType DEF IInv
  <2>1. CASE Settles
    <3> DEFINE done == {w \in Works : outcome'[w] # outcome[w]}
    <3>1. \A w \in Works : \/ outcome'[w] = outcome[w]
                           \/ outcome[w] = "open" /\ outcome'[w] \in Terminal
      BY <2>1 DEF Settles, IsOpen
    <3>2. outcome' \in [Works -> {"absent", "open"} \cup Terminal]
      BY <2>0 DEF TypeOK
    <3>3. /\ done \in SUBSET Works
          /\ \A w \in done : outcome[w] = "open"
          /\ \A w \in Works : IF w \in done THEN outcome'[w] \in Terminal
                                            ELSE outcome'[w] = outcome[w]
      BY <3>1
    <3>4. sent' = sent BY <2>1 DEF Settles
    <3> HIDE DEF done, outcome
    <3> QED BY <3>2, <3>3, <3>4 DEF Promise!Next, Promise!Settle, Promise!Ends, outcome
  <2>2. CASE Queues
    <3> DEFINE new == {w \in Works : status'[w] # status[w]}
    <3>1. /\ new \in SUBSET Works
          /\ \A w \in new : outcome[w] = "absent"
          /\ outcome' = [w \in Works |-> IF w \in new THEN "open" ELSE outcome[w]]
      BY <2>2 DEF Queues
    <3>2. sent' = sent BY <2>2 DEF Queues
    <3> HIDE DEF new
    <3> QED BY <3>1, <3>2 DEF Promise!Next, Promise!Queue
  <2>3. ASSUME NEW w \in Works, Issues(w) PROVE Promise!Next
    <3>1. Promise!Issue(w) BY <2>3 DEF Issues, IsOpen, Promise!Issue
    <3> QED BY <3>1 DEF Promise!Next
  <2>4. ASSUME NEW w \in Works, Starts(w) PROVE outcome' = outcome /\ sent' = sent
    BY <2>0, <2>4 DEF Starts, TypeOK
  <2> QED BY <1>2, <2>1, <2>2, <2>3, <2>4, StepKinds
<1>3. IInv /\ [Next]_vars => [Promise!Next]_<<outcome, sent>>
  BY <1>2
<1> QED BY <1>1, <1>3, Inductive, PTL DEF Spec, KeepsPromise, Promise!Spec
=============================================================================
