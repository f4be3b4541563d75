-------------------------- MODULE WorkspaceCascade --------------------------
(***************************************************************************)
(* How one submission to a group conversation unfolds into turns and comes *)
(* to an end: workspaceScheduler.ts (admit, enqueue, plan, updateRoot, the *)
(* cancellation of works), with discussionOrder of workspaceDiscussion.ts  *)
(* and the routing decision of workspaceRelay.ts.                          *)
(*                                                                         *)
(* works is the durable list of the run's turns in order of creation; a    *)
(* batch is named by the turn that delegated it, 0 for the run itself.     *)
(* How a turn executes is the subject of WorkspaceTurns: here it starts    *)
(* and ends with some outcome.  What a reply mentions is a choice made     *)
(* when the turn is planned.  Abstracted: archiving, change of mode or     *)
(* administrator, assignments and peer messages (they never cascade), the  *)
(* notices posted when a cascade is cut; a turn that waits for an approval *)
(* counts as running.                                                      *)
(***************************************************************************)
EXTENDS Integers, Sequences, FiniteSets, SequencesExt

CONSTANTS
  Members,     \* the bots of the conversation
  Admin,       \* its administrator
  Modes,       \* ways of working together: "host", "free", "discussion"
  AutomaticBots,   \* autoReplyIds
  Rounds,      \* maxReplyRounds, -1 for no limit; rounds of a discussion
  Speakers,    \* the members of a discussion, in order
  Leavers,     \* bots that may be removed while the run goes on
  Stoppable,   \* bots the user may stop one by one
  MaxWorks,    \* bound: turns of the run
  MaxCrashes   \* bound: restarts of the process

ASSUME CascadeAssumption ==
  /\ IsFiniteSet(Members) /\ Admin \in Members
  /\ Modes \subseteq {"host", "free", "discussion"}
  /\ AutomaticBots \subseteq Members
  /\ Rounds \in Nat \cup {-1}
  /\ Speakers \in Seq(Members) /\ IsInjective(Speakers)
  /\ "discussion" \in Modes => Speakers # <<>>
  /\ Leavers \subseteq Members \ {Admin}
  /\ Stoppable \subseteq Members
  /\ MaxWorks \in Nat /\ MaxCrashes \in Nat

VARIABLES
  mode,           \* durable: the mode of the conversation, which stays
  works,          \* durable: the turns of the run
  root,           \* durable: status of the run
  stopRequested,  \* durable: the user stopped the run
  left,           \* durable: bots no longer in the conversation
  executing,      \* volatile: turns whose executeWork has not returned
  reported,        \* history: how often onRunSettled was called
  crashes         \* bookkeeping of the model

runVars == <<works, root, stopRequested, left, executing, reported, crashes>>
cascadeVars == <<mode, runVars>>

Terminal == {"complete", "failed", "interrupted"}
Statuses == {"queued", "running", "uncertain"} \cup Terminal

Ids == DOMAIN works
Active == {i \in Ids : works[i].status \notin Terminal}

\* discussionOrder: every round starts one speaker further.
SpeakerSlots == 0 .. Rounds * Len(Speakers) - 1
SlotRound(s) == s \div Len(Speakers)
SlotAgent(s) == Speakers[((s + SlotRound(s)) % Len(Speakers)) + 1]
SlotOf(work) == CHOOSE s \in SpeakerSlots : SlotRound(s) = work.depth /\ SlotAgent(s) = work.agent

NewWork(agent, depth, batch, review, required) ==
  [agent |-> agent, depth |-> depth, batch |-> batch, review |-> review,
   required |-> required, status |-> "queued", planned |-> FALSE]

\* enqueue: a review is unique per batch, any other turn per bot and depth.
Enqueue(ws, work) ==
  IF \E i \in DOMAIN ws :
       /\ ws[i].review = work.review
       /\ IF work.review THEN ws[i].batch = work.batch
          ELSE ws[i].agent = work.agent /\ ws[i].depth = work.depth
  THEN ws ELSE Append(ws, work)

\* Several bots at once, those that have a turn of that depth left out.
EnqueueAll(ws, agents, depth, batch, required) ==
  LET order == SetToSeq({a \in agents : ~\E i \in DOMAIN ws :
                           ~ws[i].review /\ ws[i].agent = a /\ ws[i].depth = depth})
  IN ws \o [n \in DOMAIN order |-> NewWork(order[n], depth, batch, FALSE, required)]

-----------------------------------------------------------------------------
(* The status of the run                                                   *)

Some(ws, P(_)) == \E i \in DOMAIN ws : P(ws[i])
Every(ws, P(_)) == \A i \in DOMAIN ws : P(ws[i])

\* Mutant: a run ends although a finished turn has not been planned.
DoneUnplanned(ws) == Every(ws, LAMBDA w : w.status \in Terminal)

Done(ws) == Every(ws, LAMBDA w : w.status \in Terminal /\ w.planned)

RootStatus(ws, stopped) ==
  CASE Done(ws) ->
         IF \/ stopped
            \/ Some(ws, LAMBDA w : w.required /\ w.status = "interrupted")
            \/ Every(ws, LAMBDA w : w.status = "interrupted")
         THEN "interrupted"
         ELSE IF \/ Some(ws, LAMBDA w : w.required /\ w.status = "failed")
                 \/ /\ mode = "discussion"
                    /\ Every(ws, LAMBDA w : w.status \in {"failed", "interrupted"})
         THEN "failed" ELSE "complete"
    [] OTHER ->
         IF Some(ws, LAMBDA w : w.status = "uncertain") THEN "uncertain"
         ELSE IF Some(ws, LAMBDA w : w.status # "queued") THEN "running" ELSE "queued"

\* saveWork and the end of plan: store the works, bring the run up to date and
\* report it when it has just come to an end.
SaveWorks(ws) ==
  /\ works' = ws
  /\ root' = RootStatus(ws, stopRequested')
  /\ reported' = IF Done(ws) /\ root \notin Terminal THEN reported + 1 ELSE reported

SetStatus(i, status) == [works EXCEPT ![i].status = status]

-----------------------------------------------------------------------------
(* Requests of the user                                                    *)

\* admit: the first turns.  Host: the administrator, or the one bot the
\* message targets; free: the mentioned bots, else the administrator and the
\* automatic members; discussion: the first speaker.
AdmitRun ==
  /\ works = <<>>
  /\ UNCHANGED <<stopRequested, left, executing, crashes>>
  /\ \/ /\ mode = "host"
        /\ SaveWorks(<<NewWork(Admin, 0, 0, FALSE, TRUE)>>)
     \/ /\ mode # "discussion"
        /\ \E a \in Members \ left : SaveWorks(<<NewWork(a, 0, 0, FALSE, TRUE)>>)
     \/ /\ mode = "free"
        /\ \/ \E mentions \in (SUBSET (Members \ left)) \ {{}} :
                SaveWorks(EnqueueAll(<<>>, mentions, 0, 0, FALSE))
           \/ SaveWorks(EnqueueAll(<<NewWork(Admin, 0, 0, FALSE, TRUE)>>,
                              AutomaticBots \ left, 0, 0, FALSE))
     \/ /\ mode = "discussion"
        /\ SaveWorks(<<NewWork(SlotAgent(0), 0, 0, FALSE, FALSE)>>)

\* cancelWorks: interrupted for good, and nothing follows from them.
Cancel(hit) ==
  SaveWorks([i \in Ids |-> IF i \in hit \cap Active
                      THEN [works[i] EXCEPT !.status = "interrupted", !.planned = TRUE]
                      ELSE works[i]])

Stop ==
  /\ works # <<>> /\ root \notin Terminal
  /\ stopRequested' = TRUE
  /\ Cancel(Ids)
  /\ UNCHANGED <<left, executing, crashes>>

StopAgent(a) ==
  /\ \E i \in Active : works[i].agent = a
  /\ UNCHANGED <<stopRequested, left, executing, crashes>>
  /\ Cancel({i \in Ids : works[i].agent = a})

Leave(a) ==
  /\ a \notin left
  /\ left' = left \cup {a}
  /\ UNCHANGED <<works, root, stopRequested, executing, reported, crashes>>

-----------------------------------------------------------------------------
(* Execution of a turn                                                     *)

Occupied(i) == {j \in Ids \ {i} : \/ works[j].status \in {"running", "uncertain"}
                                  \/ j \in executing /\ ~works[j].planned}

Excluded(i) ==
  \/ mode = "discussion" /\ Occupied(i) # {}
  \/ /\ mode = "host"
     /\ \E j \in Occupied(i) :
          \/ works[j].batch # works[i].batch \/ works[j].review # works[i].review
          \/ Admin \in {works[j].agent, works[i].agent}

\* Admission; the administrator of a host group owes an answer.
Start(i) ==
  /\ i \notin executing /\ works[i].status = "queued"
  /\ ~stopRequested /\ works[i].agent \notin left
  /\ ~\E j \in Occupied(i) : works[j].agent = works[i].agent
  /\ ~Excluded(i)
  /\ executing' = executing \cup {i}
  /\ UNCHANGED <<stopRequested, left, crashes>>
  /\ SaveWorks([works EXCEPT ![i].status = "running",
             ![i].required = @ \/ (mode = "host" /\ works[i].agent = Admin)])

\* Mutant: a dropped turn counts as planned, like a cancelled one.
DropPlanned(i) ==
  /\ i \notin executing /\ works[i].status = "queued"
  /\ stopRequested \/ works[i].agent \in left
  /\ UNCHANGED <<stopRequested, left, executing, crashes>>
  /\ SaveWorks([works EXCEPT ![i].status = "interrupted", ![i].planned = TRUE])

\* A queued turn whose bot is gone is interrupted.
Drop(i) ==
  /\ i \notin executing /\ works[i].status = "queued"
  /\ stopRequested \/ works[i].agent \in left
  /\ UNCHANGED <<stopRequested, left, executing, crashes>>
  /\ SaveWorks(SetStatus(i, "interrupted"))

\* Mutant: the status of a message stored as the status of a turn.
EndTurnError(i) ==
  /\ works[i].status = "running" /\ i \in executing
  /\ UNCHANGED <<stopRequested, left, executing, crashes>>
  /\ \E outcome \in {"complete", "error"} : SaveWorks(SetStatus(i, outcome))

\* The turn ends, is queued again (busy resource) or loses its outcome.
EndTurn(i) ==
  /\ works[i].status = "running" /\ i \in executing
  /\ UNCHANGED <<stopRequested, left, executing, crashes>>
  /\ \E outcome \in Statuses \ {"running"} : SaveWorks(SetStatus(i, outcome))

\* An uncertain turn is checked again, under the rules of admission: found
\* running, ended, or still unknown.
Recheck(i) ==
  /\ works[i].status = "uncertain" /\ i \notin executing
  /\ ~\E j \in Occupied(i) : works[j].agent = works[i].agent
  /\ ~Excluded(i)
  /\ UNCHANGED <<stopRequested, left, crashes>>
  /\ \/ /\ executing' = executing \cup {i}
        /\ SaveWorks(SetStatus(i, "running"))
     \/ /\ UNCHANGED executing
        /\ \E outcome \in Terminal : SaveWorks(SetStatus(i, outcome))

\* Mutant: a turn with an unknown outcome stays in the executing set.
EndExecutionUncertain(i) ==
  /\ i \in executing /\ works[i].status # "running"
  /\ executing' = IF works[i].status = "uncertain" THEN executing ELSE executing \ {i}
  /\ UNCHANGED <<works, root, stopRequested, left, reported, crashes>>

\* executeWork returns (a cancelled turn may still be executing for a while).
EndExecution(i) ==
  /\ i \in executing /\ works[i].status # "running"
  /\ executing' = executing \ {i}
  /\ UNCHANGED <<works, root, stopRequested, left, reported, crashes>>

-----------------------------------------------------------------------------
(* plan: what follows from a finished turn                                 *)

\* Mutant: the search for the next speaker starts one slot late.
NextSpeakerLate(i) ==
  LET later == {s \in SpeakerSlots : s > SlotOf(works[i]) + 1 /\ SlotAgent(s) \notin left}
  IN IF later = {} THEN {}
     ELSE {CHOOSE s \in later : \A t \in later : s <= t}

\* A discussion goes on with the next slot whose speaker is still a member.
NextSpeaker(i) ==
  LET later == {s \in SpeakerSlots : s > SlotOf(works[i]) /\ SlotAgent(s) \notin left}
  IN IF later = {} THEN {}
     ELSE {CHOOSE s \in later : \A t \in later : s <= t}

\* Mutant: a batch is just the turn itself.
BatchOfOne(i) == {i}

Batch(i) == {j \in Ids : works[j].batch = works[i].batch /\ ~works[j].review}

\* Whom a reply may be relayed to: the bots it mentions; in a free group the
\* automatic members when it mentions nobody, unless it only acknowledges.
\* Targets already told the same by an earlier turn of the bot are left out.
RelayTargets(i) ==
  LET eligible == Members \ (left \cup {works[i].agent})
      automatic == IF mode = "free" THEN AutomaticBots \cap eligible ELSE {}
      addressed == (SUBSET eligible) \cup {automatic}
      repeats == \E j \in Ids \ {i} : /\ works[j].agent = works[i].agent
                                      /\ works[j].status = "complete" /\ works[j].planned
  IN IF repeats THEN UNION {SUBSET targets : targets \in addressed} ELSE addressed

Plan(i) ==
  /\ works[i].status \in Terminal /\ ~works[i].planned /\ i \notin executing
  /\ UNCHANGED <<stopRequested, left, executing, crashes>>
  /\ LET done == [works EXCEPT ![i].planned = TRUE]
         depth == works[i].depth
     IN CASE stopRequested -> SaveWorks(done)
          [] ~stopRequested /\ mode = "discussion" ->
               IF NextSpeaker(i) = {} THEN SaveWorks(done)
               ELSE \E s \in NextSpeaker(i) :
                      SaveWorks(Enqueue(done,
                        NewWork(SlotAgent(s), SlotRound(s), 0, FALSE, FALSE)))
          [] ~stopRequested /\ mode = "host" /\ works[i].agent # Admin ->
               IF \A j \in Batch(i) : works[j].status \in Terminal
               THEN SaveWorks(Enqueue(done, NewWork(Admin, depth, works[i].batch, TRUE, TRUE)))
               ELSE SaveWorks(done)
          [] OTHER ->
               \E targets \in RelayTargets(i) :
                 IF /\ works[i].status = "complete"
                    /\ Rounds = -1 \/ depth + 1 < Rounds
                 THEN /\ Len(works) + Cardinality(targets) <= MaxWorks
                      /\ SaveWorks(EnqueueAll(done, targets, depth + 1, i, FALSE))
                 ELSE SaveWorks(done)

-----------------------------------------------------------------------------
\* The process restarts: running turns are checked when their prompt may have
\* been sent and queued again when it was not.
ServerRestart ==
  /\ crashes < MaxCrashes
  /\ crashes' = crashes + 1
  /\ executing' = {}
  /\ \E resubmit \in SUBSET {i \in Ids : works[i].status = "running"} :
       works' = [i \in Ids |->
         IF works[i].status # "running" THEN works[i]
         ELSE [works[i] EXCEPT !.status = IF i \in resubmit THEN "queued" ELSE "uncertain"]]
  /\ UNCHANGED <<root, stopRequested, left, reported>>

RunInit ==
  /\ mode \in Modes
  /\ works = <<>>
  /\ root = "queued"
  /\ stopRequested = FALSE
  /\ left = {}
  /\ executing = {}
  /\ reported = 0
  /\ crashes = 0

User == AdmitRun \/ Stop \/ (\E a \in Stoppable : StopAgent(a)) \/ (\E a \in Leavers : Leave(a))

Server(i) ==
  Start(i) \/ Drop(i) \/ EndTurn(i) \/ Recheck(i) \/ EndExecution(i) \/ Plan(i)

RunNext == (User \/ (\E i \in Ids : Server(i)) \/ ServerRestart) /\ UNCHANGED mode

RunSpec == RunInit /\ [][RunNext]_cascadeVars

-----------------------------------------------------------------------------
(* Properties                                                              *)

RunTypeOK ==
  /\ mode \in Modes
  /\ works \in Seq([agent : Members, depth : Nat, batch : 0 .. Len(works),
                    review : BOOLEAN, required : BOOLEAN,
                    status : Statuses, planned : BOOLEAN])
  /\ root \in Statuses
  /\ stopRequested \in BOOLEAN
  /\ left \subseteq Members
  /\ executing \subseteq Ids
  /\ reported \in Nat
  /\ crashes \in 0 .. MaxCrashes

\* The end of a run is reported at once and never again; after it the run keeps its
\* status, and no turn of it is added or revived by a late plan, recheck or restart.
SettledForGood ==
  [][/\ reported' = IF root' \in Terminal THEN 1 ELSE 0
     /\ (root \in Terminal) =>
       /\ root' = root
       /\ [i \in DOMAIN works' |-> works'[i].status] = [i \in Ids |-> works[i].status]]_cascadeVars

\* In a host group turns that are not finished yet belong together: all to one
\* batch, or to the one review of a batch whose members have all ended.
OneBatchAtATime ==
  /\ mode = "host" => \A i, j \in Active : /\ works[i].batch = works[j].batch
                                           /\ works[i].review = works[j].review
  /\ \A i \in Ids : works[i].review =>
       /\ \A j \in Batch(i) : works[j].status \in Terminal
       /\ \A j \in Ids : works[j].review /\ works[j].batch = works[i].batch => i = j

\* docs/workspace-chat.md:38: after a batch ends as a whole, the administrator
\* reviews it, whether its members succeeded, failed or were interrupted.  A run
\* nobody stopped does not settle while a delegated batch is unreviewed.
BatchesReviewed ==
  mode = "host" /\ root \in Terminal /\ ~stopRequested =>
    \A i \in Ids : works[i].batch # 0 /\ ~works[i].review =>
      \E j \in Ids : works[j].review /\ works[j].batch = works[i].batch

\* The same when bots are stopped one by one: what a member of a batch has
\* completed reaches the administrator.  The code breaks this: cancelWorks marks
\* the stopped turn as planned, so when it was the last of its batch nobody
\* plans the review (tests/server/workspace.test.ts:1233 stops the first one).
CompletedWorkReviewed ==
  mode = "host" /\ root \in Terminal /\ ~stopRequested =>
    \A i \in Ids : works[i].batch # 0 /\ ~works[i].review /\ works[i].status = "complete" =>
      \E j \in Ids : works[j].review /\ works[j].batch = works[i].batch

\* A discussion has one speaker at a time, follows the order of its slots and
\* skips only speakers that have left.
DiscussionInOrder ==
  mode = "discussion" => \A i, j \in Ids : i < j =>
    /\ SlotOf(works[i]) < SlotOf(works[j])
    /\ works[i].status \in Terminal
    /\ \A s \in SlotOf(works[i]) + 1 .. SlotOf(works[j]) - 1 :
         SlotAgent(s) \in left \/ \E k \in Ids : SlotOf(works[k]) = s

-----------------------------------------------------------------------------
\* The pump keeps running, turns end, and a recheck finally gets an answer.  A turn
\* has one thing to do at a time, so that one condition stands for each of them.
RunFairness ==
  \A i \in 1 .. MaxWorks :
    /\ WF_runVars(i \in Ids /\ Server(i))
    /\ SF_runVars(i \in Ids /\ EndTurn(i) /\ works'[i].status \in Terminal)

FairRunSpec == RunSpec /\ RunFairness

\* Every admitted run comes to an end (a run keeps its works).
RunSettles == []<>(works = <<>> \/ root \in Terminal)
=============================================================================
