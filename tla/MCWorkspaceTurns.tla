-------------------------- MODULE MCWorkspaceTurns --------------------------
(* Instances of WorkspaceTurns for TLC: who executes what, in which run.   *)
EXTENDS WorkspaceTurns, TLC

CONSTANTS w1, w2, r1, r2, t1, a1, a2

\* Two submissions to one bot in one direct chat.
DirectRunOf == w1 :> r1 @@ w2 :> r2
DirectTaskOf == r1 :> t1 @@ r2 :> t1
DirectAgentOf == w1 :> a1 @@ w2 :> a1
DirectBatchOf == DirectRunOf
DirectParentOf == w1 :> NoWork @@ w2 :> NoWork
DirectMode == t1 :> "direct"
DirectAdmin == t1 :> a1

\* A host group: a message, which its administrator answers, and an assignment of
\* a member.
PairRunOf == DirectRunOf
PairTaskOf == DirectTaskOf
PairAgentOf == w1 :> a1 @@ w2 :> a2
PairBatchOf == PairRunOf
PairParentOf == DirectParentOf
PairMode == t1 :> "host"
PairAdmin == t1 :> a1

\* A member leaves in a behaviour without faults.  Neither step is fair, so the
\* bound cuts off no step that the fairness asks for.
LeaveOrFault == left = {} \/ faults = 0
=============================================================================
