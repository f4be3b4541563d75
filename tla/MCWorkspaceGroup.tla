-------------------------- MODULE MCWorkspaceGroup --------------------------
(***************************************************************************)
(* A host group for TLC.  The administrator's work w1 leads to a batch of  *)
(* two members, w2 and w3; beside them come another bot's message w4 and   *)
(* an assignment w5, both to the second member.  Exclusivity is a matter   *)
(* of two works at a time, so a behaviour is one of a few of them.         *)
(***************************************************************************)
EXTENDS WorkspaceTurns, TLC

CONSTANTS w1, w2, w3, w4, w5, r1, r2, r3, t1, a1, a2, a3

VARIABLE cast  \* the works that take part in this behaviour

GroupRunOf == w1 :> r1 @@ w2 :> r1 @@ w3 :> r1 @@ w4 :> r2 @@ w5 :> r3
GroupTaskOf == r1 :> t1 @@ r2 :> t1 @@ r3 :> t1
GroupAgentOf == w1 :> a1 @@ w2 :> a2 @@ w3 :> a3 @@ w4 :> a3 @@ w5 :> a3
GroupBatchOf == w1 :> r1 @@ w2 :> w1 @@ w3 :> w1 @@ w4 :> r2 @@ w5 :> r3
GroupParentOf == w1 :> NoWork @@ w2 :> w1 @@ w3 :> w1 @@ w4 :> NoWork @@ w5 :> NoWork
GroupMode == t1 :> "host"
GroupAdmin == t1 :> a1

\* Two submissions to one bot; the batch; one of the batch, and the administrator
\* before it, beside the message and beside the assignment.
OneBot == {w4, w5}
BesideMessage == {w1, w2, w4}
Casts == {OneBot, {w1, w2, w3}, BesideMessage, {w1, w2, w5}}

\* The administrator's work that only leads to the batch ends without incident.
Calm(w) ==
  /\ status[w] \in {"absent", "queued", "running", "complete"}
  /\ turn[w] \notin {"recheck", "reconnecting", "restoring"}
  /\ session[w] \in {"none", "running", "done"}

\* Faults strike the two submissions to one bot, and a member leaves while one of
\* the batch and the message are under way.
CastNext ==
  /\ Next
  /\ UNCHANGED cast
  /\ \A w \in Works \ cast : status'[w] = "absent"
  /\ w2 \in cast => Calm(w1)'
  /\ cast # OneBot => faults' = 0
  /\ cast # BesideMessage => left' = {}

CastInit == cast \in Casts /\ Init

CastSpec == CastInit /\ [][CastNext]_<<vars, cast>>
=============================================================================
