--------------------------- MODULE MCConversation ---------------------------
(***************************************************************************)
(* Instances for TLC of a conversation that comes to rest: the relays of a *)
(* free group, the channel of a turn to an execution node, the mirror of   *)
(* what a bot said, and the transcript of an ordinary conversation.  They  *)
(* share no state, so a behaviour here is a behaviour of one of them,      *)
(* chosen at the start: their states add up and do not multiply.           *)
(***************************************************************************)
EXTENDS WorkspaceCascade, SessionMirror, RunnerHub, ChatSync

CONSTANTS a1, a2, s1, s2, p1

VARIABLE subject  \* whose behaviour this is

Silence == <<>>

conversationVars == <<subject, cascadeVars, mirrorVars, runnerVars, chatVars>>

ConversationInit ==
  /\ subject \in {"cascade", "mirror", "node", "chat"}
  /\ RunInit /\ MirrorInit /\ RunnerInit /\ ChatInit

ConversationNext ==
  /\ UNCHANGED subject
  /\ \/ subject = "cascade" /\ RunNext
     \/ subject # "cascade" /\ UNCHANGED cascadeVars
  /\ \/ subject = "mirror" /\ MirrorNext
     \/ subject # "mirror" /\ UNCHANGED mirrorVars
  /\ \/ subject = "node" /\ RunnerNext
     \/ subject # "node" /\ UNCHANGED runnerVars
  /\ \/ subject = "chat" /\ ChatNext
     \/ subject # "chat" /\ UNCHANGED chatVars

\* Nothing that fairness asks for is possible in an initial state, so that it asks
\* for nothing in the behaviours of the others.
ConversationSpec ==
  /\ ConversationInit /\ [][ConversationNext]_conversationVars
  /\ RunFairness /\ MirrorFairness /\ RunnerFairness /\ ChatFairness

ConversationTypeOK == RunTypeOK /\ MirrorTypeOK /\ RunnerTypeOK /\ ChatTypeOK
=============================================================================
