---------------------------- MODULE MCConsistency ----------------------------
(***************************************************************************)
(* Instances for TLC of what has to stay true: receipts of commands and of *)
(* tool calls, cached reads, what a turn asks its user, routines, the    *)
(* turns of a run.  As in MCProgress a behaviour is a behaviour of one of  *)
(* them.                                                                   *)
(***************************************************************************)
EXTENDS RealtimeCommands, ToolCalls, ReadCache, Interactions, Routines,
        WorkspaceCascade, TLC

CONSTANTS c1, c2, f1, f2, k1, k2, x, y, list, chat, rename, event, r1, q1, q2,
          a1, a2, a3

VARIABLE subject  \* whose behaviour this is

\* The list of sessions and the chat of one; a request and an event change them.
ReadTags == list :> {"sessions", "session-list"} @@ chat :> {"sessions", "session:1"}
ChangeTags == rename :> {"session-list", "session:1"} @@ event :> {"session:1"}

TwoSpeakers == <<a2, a3>>

consistencyVars == <<subject, vars, toolVars, cacheVars, interactionVars, routineVars,
                     cascadeVars>>

ConsistencyInit ==
  /\ subject \in {"commands", "tools", "cache", "interactions", "routines", "cascade"}
  /\ Init /\ ToolInit /\ CacheInit /\ InteractionInit /\ RoutineInit /\ RunInit
  /\ subject = "cascade" \/ mode = "host"
  /\ subject = "interactions" \/ ~toolsBound

ConsistencyNext ==
  /\ UNCHANGED subject
  /\ \/ subject = "commands" /\ Next
     \/ subject # "commands" /\ UNCHANGED vars
  /\ \/ subject = "tools" /\ ToolNext
     \/ subject # "tools" /\ UNCHANGED toolVars
  /\ \/ subject = "cache" /\ CacheNext
     \/ subject # "cache" /\ UNCHANGED cacheVars
  /\ \/ subject = "interactions" /\ InteractionNext
     \/ subject # "interactions" /\ UNCHANGED interactionVars
  /\ \/ subject = "routines" /\ RoutineNext
     \/ subject # "routines" /\ UNCHANGED routineVars
  /\ \/ subject = "cascade" /\ RunNext
     \/ subject # "cascade" /\ UNCHANGED cascadeVars

ConsistencySpec == ConsistencyInit /\ [][ConsistencyNext]_consistencyVars

ConsistencyTypeOK ==
  TypeOK /\ ToolTypeOK /\ CacheTypeOK /\ InteractionTypeOK /\ RoutineTypeOK /\ RunTypeOK
=============================================================================
