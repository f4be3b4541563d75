----------------------------- MODULE MCProgress -----------------------------
(***************************************************************************)
(* Instances for TLC of what has to come to an end: commands and events    *)
(* between a client and Hermes, computers that are lent, notifications,    *)
(* goals and their assignments.                                            *)
(* They share no state, so a behaviour here is a behaviour of one of them, *)
(* chosen at the start: their states add up and do not multiply.           *)
(***************************************************************************)
EXTENDS RealtimeCommands, RealtimeReplay, ComputerPool, PushOutbox, TaskCoordinator, TLC

CONSTANTS c1, c2, f1, e1, e2, h1, h2, d1, d2, m1, m2, g1, n1, n2

VARIABLE subject  \* whose behaviour this is

\* Two holders share a computer; the other one is used as a desktop only.
Homes == h1 :> e1 @@ h2 :> e1

PlatformOf == m1 :> "ios" @@ m2 :> "ios" @@ g1 :> "android"

\* The second assignment needs the result of the first.
Chain == <<{}, {1}>>

progressVars == <<subject, vars, replayVars, poolVars, pushVars, taskVars>>

ProgressInit ==
  /\ subject \in {"commands", "replay", "pool", "push", "tasks"}
  /\ Init /\ ReplayInit /\ PoolInit /\ PushInit /\ TaskInit

ProgressNext ==
  /\ UNCHANGED subject
  /\ \/ subject = "commands" /\ Next
     \/ subject # "commands" /\ UNCHANGED vars
  /\ \/ subject = "replay" /\ ReplayNext
     \/ subject # "replay" /\ UNCHANGED replayVars
  /\ \/ subject = "pool" /\ PoolNext
     \/ subject # "pool" /\ UNCHANGED poolVars
  /\ \/ subject = "push" /\ PushNext
     \/ subject # "push" /\ UNCHANGED pushVars
  /\ \/ subject = "tasks" /\ TaskNext
     \/ subject # "tasks" /\ UNCHANGED taskVars

\* Nothing that fairness asks for is possible in an initial state, so that it asks
\* for nothing in the behaviours of the others.
ProgressSpec ==
  /\ ProgressInit /\ [][ProgressNext]_progressVars
  /\ Fairness /\ ReplayFairness /\ PoolFairness /\ PushFairness /\ TaskFairness

ProgressTypeOK == TypeOK /\ ReplayTypeOK /\ PoolTypeOK /\ PushTypeOK /\ TaskTypeOK
=============================================================================
