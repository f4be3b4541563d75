------------------------------ MODULE ToolCalls ------------------------------
(***************************************************************************)
(* Tool calls of a turn: the lease that Hermes calls back                  *)
(* (workspaceToolLease.ts) and the journal that stores the intent of a     *)
(* call before its effect (toolOperationJournal.ts).  Callers repeat calls *)
(* under the same id, authority is revoked and granted again, the process  *)
(* dies, effects happen late or get lost.                                  *)
(*                                                                         *)
(* Abstracted: results (done, or the way they failed), the HTTP handshake  *)
(* of the lease, calls without an id (they are not journalled).            *)
(***************************************************************************)
EXTENDS Naturals, FiniteSets

CONSTANTS
  Calls,       \* ids of tool calls
  Human,      \* those of human input, which reach the journal without a lease
  Arguments,   \* what is asked for under an id
  NoArguments,
  CallLimit,   \* calls of one lease, 128 in the code
  MaxTrouble   \* bound: revocations, crashes and leases that end

ASSUME ToolAssumption ==
  /\ Human \subseteq Calls /\ NoArguments \notin Arguments
  /\ {CallLimit, MaxTrouble} \subseteq Nat

VARIABLES
  receipt,       \* durable state of each call; "unseen": complete, not cached
  fingerprint,   \* durable: the arguments the row was made for
  stage,     \* the running action: "none", "intent", "sent"
  airborne,  \* effects on their way, the caller still there or not
  effects,   \* how often the effect of each call has happened
  entry,     \* calls of the lease: arguments, and the answer once there is one
  open,      \* the lease is open
  allowed,   \* the turn, or the human control, is authorised
  heard,      \* answers given for each call
  trouble    \* bookkeeping of the model

toolVars == <<receipt, fingerprint, stage, airborne, effects, entry, open, allowed,
              heard, trouble>>

Answers == {"done", "refused", "failed", "uncertain", "unavailable"}
NoEntry == [args |-> NoArguments, answer |-> "none"]

ToolInit ==
  /\ receipt = [c \in Calls |-> "none"] /\ fingerprint = [c \in Calls |-> NoArguments]
  /\ stage = [c \in Calls |-> "none"] /\ airborne = {}
  /\ effects = [c \in Calls |-> 0]
  /\ entry = [c \in Calls |-> NoEntry]
  /\ open = FALSE /\ allowed = TRUE
  /\ heard = [c \in Calls |-> {}]
  /\ trouble = 0

-----------------------------------------------------------------------------
(* The journal                                                             *)

\* Mutant: an intent without an outcome may be carried out again.
FreshIfUnfinished(c) == receipt[c] \in {"none", "started"} /\ stage[c] = "none"

\* execute: only a call without a row may act.
Fresh(c) == receipt[c] = "none"

\* What execute answers to a call whose row is there and which is not running.
Stored(c) ==
  CASE receipt[c] = "complete" -> "done"
    [] receipt[c] = "unseen" -> "unavailable"
    [] receipt[c] = "failed" -> "failed"
    [] OTHER -> "uncertain"

\* Mutant: whatever ends a call leaves the row of a failure.
AlwaysFailed(r) == "failed"

\* Mutant: the row gets the answer.
OutcomeTold(r) == IF allowed THEN "done" ELSE "failed"

\* The row of an action that came back: it is complete, with or without a copy of
\* the result, unless the authority has ended, which the catch records.
Outcome(r) == IF allowed THEN r ELSE "failed"

\* An answer reaches its caller; one through the lease only while that is good.
Reply(c, a) ==
  /\ entry' = IF entry[c] = NoEntry THEN entry ELSE [entry EXCEPT ![c].answer = a]
  /\ heard' = IF c \in Human \/ (open /\ allowed)
             THEN [heard EXCEPT ![c] = @ \cup {a}]
             ELSE heard

\* execute, for a call with arguments a: refused, in conflict, under way,
\* answered from its row, or stored as an intent that will act.
Execute(c, a, e) ==
  /\ \/ /\ ~allowed /\ entry' = e
        /\ heard' = [heard EXCEPT ![c] = @ \cup {"refused"}]
        /\ UNCHANGED <<receipt, fingerprint, stage>>
     \/ /\ allowed /\ Fresh(c)
        /\ receipt' = [receipt EXCEPT ![c] = "started"]
        /\ fingerprint' = [fingerprint EXCEPT ![c] = a]
        /\ stage' = [stage EXCEPT ![c] = "intent"]
        /\ entry' = e /\ UNCHANGED heard
     \/ /\ allowed /\ ~Fresh(c) /\ fingerprint[c] = a
        /\ IF stage[c] # "none"
           THEN entry' = e /\ UNCHANGED heard
           ELSE /\ entry' = IF c \in Human THEN e ELSE [e EXCEPT ![c].answer = Stored(c)]
                /\ heard' = [heard EXCEPT ![c] = @ \cup {Stored(c)}]
        /\ UNCHANGED <<receipt, fingerprint, stage>>
     \/ /\ allowed /\ ~Fresh(c) /\ fingerprint[c] # a
        /\ entry' = IF c \in Human THEN e ELSE [e EXCEPT ![c].answer = "refused"]
        /\ heard' = [heard EXCEPT ![c] = @ \cup {"refused"}]
        /\ UNCHANGED <<receipt, fingerprint, stage>>
  /\ UNCHANGED <<airborne, effects, open, allowed, trouble>>

\* The action starts after a second look at the authority.
Act(c) ==
  /\ stage[c] = "intent"
  /\ \/ /\ allowed
        /\ stage' = [stage EXCEPT ![c] = "sent"]
        /\ airborne' = airborne \cup {c}
        /\ UNCHANGED <<receipt, entry, heard>>
     \/ /\ ~allowed
        /\ receipt' = [receipt EXCEPT ![c] = "failed"]
        /\ stage' = [stage EXCEPT ![c] = "none"]
        /\ Reply(c, "failed")
        /\ UNCHANGED airborne
  /\ UNCHANGED <<fingerprint, effects, open, allowed, trouble>>

\* The browser or computer carries the call out, or never gets it (external).
EffectHappens(c) ==
  /\ c \in airborne /\ airborne' = airborne \ {c}
  /\ effects' \in {effects, [effects EXCEPT ![c] = @ + 1]}
  /\ UNCHANGED <<receipt, fingerprint, stage, entry, open, allowed, heard, trouble>>

\* It answers; the row is written before the authority is looked at again.
Return(c) ==
  /\ stage[c] = "sent" /\ c \notin airborne /\ effects[c] > 0
  /\ \E r \in {"complete", "unseen"} : receipt' = [receipt EXCEPT ![c] = Outcome(r)]
  /\ stage' = [stage EXCEPT ![c] = "none"]
  /\ Reply(c, IF allowed THEN "done" ELSE "failed")
  /\ UNCHANGED <<fingerprint, airborne, effects, open, allowed, trouble>>

\* It fails, or its answer does not come in time.
Fail(c) ==
  /\ stage[c] = "sent"
  /\ receipt' = [receipt EXCEPT ![c] = "failed"]
  /\ stage' = [stage EXCEPT ![c] = "none"]
  /\ Reply(c, "failed")
  /\ UNCHANGED <<fingerprint, airborne, effects, open, allowed, trouble>>

-----------------------------------------------------------------------------
(* The lease                                                               *)

Used == {c \in Calls : entry[c] # NoEntry}

\* createWorkspaceToolLease, for the turn or the turn that follows it up.
OpenLease ==
  /\ ~open /\ allowed
  /\ open' = TRUE
  /\ entry' = [c \in Calls |-> NoEntry]
  /\ UNCHANGED <<receipt, fingerprint, stage, airborne, effects, allowed, heard, trouble>>

\* handle, for a call the lease does not know: at most CallLimit of them.
NewCall(c, a) ==
  /\ c \notin Human /\ open /\ allowed /\ entry[c] = NoEntry
  /\ Cardinality(Used) < CallLimit
  /\ Execute(c, a, [entry EXCEPT ![c].args = a])

\* A known call gets the answer of the first one, also when that was an error.
KnownCall(c, a) ==
  /\ c \notin Human /\ open /\ allowed /\ entry[c] # NoEntry
  /\ \/ /\ entry[c].args # a
        /\ heard' = [heard EXCEPT ![c] = @ \cup {"refused"}]
     \/ /\ entry[c].args = a /\ entry[c].answer # "none"
        /\ heard' = [heard EXCEPT ![c] = @ \cup {entry[c].answer}]
  /\ UNCHANGED <<receipt, fingerprint, stage, airborne, effects, entry, open, allowed, trouble>>

HumanInput(c, a) == c \in Human /\ Execute(c, a, entry)

Trouble == trouble < MaxTrouble /\ trouble' = trouble + 1

\* dispose: the turn has ended, the lease expired, or Hermes stopped it.
Dispose ==
  /\ open /\ open' = FALSE /\ Trouble
  /\ UNCHANGED <<receipt, fingerprint, stage, airborne, effects, entry, allowed, heard>>

\* The run is stopped or a grant withdrawn, and given again.
Revoke ==
  /\ Trouble /\ allowed' = ~allowed
  /\ UNCHANGED <<receipt, fingerprint, stage, airborne, effects, entry, open, heard>>

\* The process dies; what it sent may still happen.
ToolCrash ==
  /\ Trouble
  /\ stage' = [c \in Calls |-> "none"]
  /\ open' = FALSE /\ entry' = [c \in Calls |-> NoEntry]
  /\ UNCHANGED <<receipt, fingerprint, airborne, effects, allowed, heard>>

-----------------------------------------------------------------------------
ToolStep(c) ==
  \/ \E a \in Arguments : NewCall(c, a) \/ KnownCall(c, a) \/ HumanInput(c, a)
  \/ Act(c) \/ EffectHappens(c) \/ Return(c) \/ Fail(c)

ToolNext == \/ OpenLease \/ Dispose \/ Revoke \/ ToolCrash
            \/ \E c \in Calls : ToolStep(c)

ToolSpec == ToolInit /\ [][ToolNext]_toolVars

-----------------------------------------------------------------------------
(* Properties                                                              *)

\* Every variable has its type.
ToolTypeOK ==
  /\ receipt \in [Calls -> {"none", "started", "complete", "unseen", "failed"}]
  /\ fingerprint \in [Calls -> Arguments \cup {NoArguments}]
  /\ stage \in [Calls -> {"none", "intent", "sent"}]
  /\ airborne \subseteq Calls
  /\ effects \in [Calls -> Nat]
  /\ entry \in [Calls -> [args : Arguments \cup {NoArguments},
                          answer : Answers \cup {"none"}]]
  /\ open \in BOOLEAN /\ allowed \in BOOLEAN
  /\ heard \in [Calls -> SUBSET Answers]
  /\ trouble \in Nat

\* The effect of a call happens at most once, however often it is repeated,
\* through whichever lease, across crashes and late effects ("Missing replies are
\* never interpreted as permission to replay", toolOperationJournal.ts:26).
EffectOnce == \A c \in Calls : effects[c] <= 1

\* Answers agree with what happened and with each other: a call reported as done
\* has had its effect, and is never reported as failed or uncertain as well.
AnswersTrue ==
  \A c \in Calls : "done" \in heard[c] =>
    effects[c] = 1 /\ heard[c] \cap {"failed", "uncertain"} = {}

\* Why: a call without a row has not acted, an intent has not been sent, and what
\* is on its way has not happened.
EffectInv ==
  \A c \in Calls :
    /\ receipt[c] = "none" => stage[c] = "none" /\ c \notin airborne /\ effects[c] = 0
    /\ stage[c] = "intent" => c \notin airborne /\ effects[c] = 0
    /\ c \in airborne => effects[c] = 0
    /\ effects[c] <= 1
=============================================================================
