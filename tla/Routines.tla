------------------------------ MODULE Routines ------------------------------
(***************************************************************************)
(* One routine of a bot (workspaceRoutines.ts): its schedule, the tick     *)
(* that starts what is due, runs asked for by hand, and the records of     *)
(* both, while the server is away, the account is blocked and the routine  *)
(* is changed.  A tick is one synchronous pass over stored rows, hence one *)
(* action; its transaction leaves no half of it behind.                    *)
(*                                                                         *)
(* Abstracted: time zones, weekdays and texts; a daily or weekly schedule  *)
(* is a time that comes back every Day units.  The run itself belongs to   *)
(* WorkspaceTurns; the limit of 100 records and other routines of the bot  *)
(* are left out.                                                           *)
(***************************************************************************)
EXTENDS Naturals, Sequences, FiniteSets

CONSTANTS
  Period, Day,  \* interval, and period of a daily schedule
  Hands,       \* request ids of runs by hand
  MaxTime,     \* bound: the clock
  MaxRecords,  \* bound: records of runs
  MaxEdits   \* bound: changes of the routine and of what it depends on

ASSUME RoutineAssumption ==
  /\ {Period, Day} \subseteq Nat \ {0} /\ {MaxTime, MaxRecords, MaxEdits} \subseteq Nat

VARIABLES
  clock,
  ticking,    \* the server is up and not paused for maintenance
  routine,    \* kind, the time of a "once", enabled, nextAt; 0: no next time
  records,    \* routine-run rows: what they were due for (0: by hand), start, status
  byHand,     \* commands that are remembered
  usable,     \* the account is active and the bot may have routines
  reachable,  \* its conversation takes messages
  changes     \* bookkeeping of the model

routineVars == <<clock, ticking, routine, records, byHand, usable, reachable, changes>>

Kinds == {"once", "interval", "daily"}

\* Mutant: the next time follows the one that was due.
FollowDue(r, after) ==
  CASE r.kind = "once"     -> IF r.at > after THEN r.at ELSE 0
    [] r.kind = "interval" -> r.nextAt + Period
    [] r.kind = "daily"    -> r.nextAt + Day

\* nextRoutineAt: always after the moment it is asked for.
NextAt(r, after) ==
  CASE r.kind = "once"     -> IF r.at > after THEN r.at ELSE 0
    [] r.kind = "interval" -> after + Period
    [] r.kind = "daily"    -> (after \div Day + 1) * Day

NoRoutine == [kind |-> "none", at |-> 0, enabled |-> FALSE, nextAt |-> 0]

RoutineInit ==
  /\ clock = 0 /\ ticking = TRUE
  /\ routine = NoRoutine /\ records = <<>> /\ byHand = {}
  /\ usable = TRUE /\ reachable = TRUE /\ changes = 0

-----------------------------------------------------------------------------
Unfinished == {i \in DOMAIN records : records[i].status = "running"}

\* run: recorded as skipped beside an unfinished one, as failed if the conversation
\* takes no message.
RunRecord(due) ==
  [due |-> due, start |-> clock,
   status |-> IF Unfinished # {} THEN "skipped"
              ELSE IF reachable THEN "running" ELSE "failed"]

Record(r) == Len(records) < MaxRecords /\ records' = Append(records, r)

\* tick: the routine that cannot run at all is recorded as failed and switched off.
Tick ==
  /\ ticking /\ routine.enabled /\ routine.nextAt # 0 /\ routine.nextAt <= clock
  /\ LET next == IF usable THEN NextAt(routine, clock) ELSE 0 IN
     /\ Record(IF usable THEN RunRecord(routine.nextAt)
               ELSE [due |-> routine.nextAt, start |-> clock, status |-> "failed"])
     /\ routine' = [routine EXCEPT !.nextAt = next, !.enabled = next # 0]
  /\ UNCHANGED <<clock, ticking, byHand, usable, reachable, changes>>

\* A run by hand; a repeated request gets the record of the first one.
RunByHand(h) ==
  /\ ticking /\ usable /\ routine # NoRoutine /\ h \notin byHand
  /\ Record(RunRecord(0))
  /\ byHand' = byHand \cup {h}
  /\ UNCHANGED <<clock, ticking, routine, usable, reachable, changes>>

RunEnds(i) ==
  /\ i \in Unfinished
  /\ records' = [records EXCEPT ![i].status = "ended"]
  /\ UNCHANGED <<clock, ticking, routine, byHand, usable, reachable, changes>>

Change == changes < MaxEdits /\ changes' = changes + 1

\* save: the same schedule, switched as before, keeps its next time; a schedule
\* that has no next time is refused.
Save(k, t, on) ==
  LET same == on = routine.enabled /\ k = routine.kind /\ (k = "once" => t = routine.at)
      r == [kind |-> k, at |-> t, enabled |-> on, nextAt |-> routine.nextAt]
      next == IF same THEN routine.nextAt ELSE IF on THEN NextAt(r, clock) ELSE 0
  IN
  /\ ticking /\ usable
  /\ IF routine = NoRoutine THEN UNCHANGED changes ELSE Change
  /\ on => next # 0
  /\ routine' = [r EXCEPT !.nextAt = next]
  /\ UNCHANGED <<clock, ticking, records, byHand, usable, reachable>>

\* The clock goes on, also while nobody ticks.
TimePasses ==
  /\ clock < MaxTime /\ clock' = clock + 1
  /\ UNCHANGED <<ticking, routine, records, byHand, usable, reachable, changes>>

\* The server stops, or waits for maintenance, and comes back.
Switch ==
  /\ Change /\ ticking' = ~ticking
  /\ UNCHANGED <<clock, routine, records, byHand, usable, reachable>>

\* The account is blocked, the bot archived, its conversation closed; and back.
Circumstances ==
  /\ Change
  /\ \/ usable' = ~usable /\ UNCHANGED reachable
     \/ reachable' = ~reachable /\ UNCHANGED usable
  /\ UNCHANGED <<clock, ticking, routine, records, byHand>>

-----------------------------------------------------------------------------
RoutineNext ==
  \/ Tick \/ TimePasses \/ Switch \/ Circumstances
  \/ \E h \in Hands : RunByHand(h)
  \/ \E i \in DOMAIN records : RunEnds(i)
  \/ \E k \in Kinds, on \in BOOLEAN :
       \E t \in IF k = "once" THEN 1 .. MaxTime ELSE {routine.at} : Save(k, t, on)

RoutineSpec == RoutineInit /\ [][RoutineNext]_routineVars

-----------------------------------------------------------------------------
(* Properties                                                              *)

\* Every variable has its type.
RoutineTypeOK ==
  /\ clock \in 0 .. MaxTime /\ changes \in 0 .. MaxEdits
  /\ {ticking, usable, reachable} \subseteq BOOLEAN
  /\ routine \in [kind : Kinds \cup {"none"}, at : Nat, enabled : BOOLEAN, nextAt : Nat]
  /\ \A i \in DOMAIN records :
       records[i] \in [due : Nat, start : 0 .. MaxTime,
                       status : {"running", "ended", "skipped", "failed"}]
  /\ byHand \subseteq Hands

\* Whatever was missed while the server was away, and however often the routine is
\* changed, switched off and on or started by hand, its occasions are not replayed
\* one after the other: each record of the schedule is due after the one before was
\* made, one run at a time is unfinished, and an enabled routine has its next time.
CatchesUpOnce ==
  /\ \A i, j \in DOMAIN records :
       (i < j /\ records[i].due # 0 /\ records[j].due # 0) => records[j].due > records[i].start
  /\ Cardinality(Unfinished) <= 1
  /\ routine.enabled <=> routine.nextAt # 0
=============================================================================
