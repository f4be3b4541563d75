---------------------------- MODULE TurnCalls_proofs ----------------------------
(***************************************************************************)
(* What TLAPS proves about the ways in which work reaches outside of the   *)
(* server, for all sets of ids and all bounds.  Tool calls: the effect of  *)
(* a call happens at most once, and answers agree with it and with each    *)
(* other.  Questions: none is answered twice, however replies and          *)
(* connections are lost, nothing Hermes waits for counts as resolved, and  *)
(* a turn waits only for a reason.  Reads: whoever knows of a change of    *)
(* what is kept by Hermes reads it.  Routines: what was missed is made up  *)
(* for once.  At the end the components of MCConsistency side by side.     *)
(***************************************************************************)
EXTENDS MCConsistency, Realtime_proofs, WorkspaceCascade_proofs, FiniteSetTheorems,
        SequenceTheorems, TLAPS

-----------------------------------------------------------------------------
(* TOOL CALLS                                                              *)

Completed == {"complete", "unseen"}

\* A row that has an outcome is not acted for any more, and a complete one has
\* had its effect.
RowInv ==
  \A c \in Calls :
    /\ receipt[c] \in Completed \cup {"failed"} => stage[c] = "none"
    /\ receipt[c] \in Completed => effects[c] = 1

\* What justifies an answer: the row says so and cannot change any more.
Justified(c, a) ==
  /\ a = "done" => receipt[c] \in Completed
  /\ a = "failed" => receipt[c] = "failed"
  /\ a = "uncertain" => receipt[c] = "started" /\ stage[c] = "none"

\* Answers given, and those the lease keeps for repeated calls.
AnswerInv ==
  \A c \in Calls : /\ \A a \in heard[c] : Justified(c, a)
                   /\ Justified(c, entry[c].answer)

ToolInv == ToolTypeOK /\ EffectInv /\ RowInv /\ AnswerInv

-----------------------------------------------------------------------------
LEMMA NoEntryType ==
  NoEntry \in [args : Arguments \cup {NoArguments}, answer : Answers \cup {"none"}]
  BY DEF NoEntry

LEMMA CallsInit == ToolInit => ToolInv
<1> SUFFICES ASSUME ToolInit PROVE ToolInv
  OBVIOUS
<1>1. ToolTypeOK
  BY NoEntryType DEF ToolInit, ToolTypeOK
<1>2. EffectInv /\ RowInv
  BY DEF ToolInit, EffectInv, RowInv, Completed
<1>3. AnswerInv
  BY DEF ToolInit, AnswerInv, Justified, NoEntry
<1> QED
  BY <1>1, <1>2, <1>3 DEF ToolInv

\* A step that leaves rows, stages and effects alone and adds only justified
\* answers keeps the invariant.
LEMMA AnswerStep ==
  ASSUME ToolInv, ToolTypeOK',
         UNCHANGED <<receipt, stage, airborne, effects>>,
         \A d \in Calls : \A a \in heard'[d] : Justified(d, a),
         \A d \in Calls : Justified(d, entry'[d].answer)
  PROVE  ToolInv'
  BY DEF ToolInv, EffectInv, RowInv, AnswerInv, Justified

\* Entries without answers justify nothing and need no justification.
LEMMA SilentAnswers ==
  ASSUME NEW c \in Calls, NEW a \in {"none", "refused", "unavailable"}
  PROVE  Justified(c, a)
  BY DEF Justified

LEMMA StoredJustified ==
  ASSUME ToolInv, NEW c \in Calls, receipt[c] # "none", stage[c] = "none"
  PROVE  Justified(c, Stored(c)) /\ Stored(c) \in Answers
  BY DEF ToolInv, ToolTypeOK, Justified, Stored, Completed, Answers

\* The journal, whatever entry the call comes with.
LEMMA ExecuteInv ==
  ASSUME ToolInv, NEW c \in Calls, NEW a \in Arguments, NEW e,
         e \in [Calls -> [args : Arguments \cup {NoArguments}, answer : Answers \cup {"none"}]],
         \A d \in Calls : e[d].answer = entry[d].answer,
         c \notin Human => e[c].answer = "none",
         Execute(c, a, e)
  PROVE  ToolInv'
<1> USE DEF ToolInv
<1>1. CASE ~allowed /\ entry' = e /\ heard' = [heard EXCEPT ![c] = @ \cup {"refused"}]
           /\ UNCHANGED <<receipt, fingerprint, stage>>
  <2>1. ToolTypeOK'
    BY <1>1 DEF ToolTypeOK, Execute, Answers
  <2>2. \A d \in Calls : \A b \in heard'[d] : Justified(d, b)
    BY <1>1, SilentAnswers DEF AnswerInv, ToolTypeOK
  <2>3. \A d \in Calls : Justified(d, entry'[d].answer)
    BY <1>1 DEF AnswerInv
  <2> QED
    BY <1>1, <2>1, <2>2, <2>3, AnswerStep DEF Execute
<1>2. CASE /\ allowed /\ Fresh(c)
           /\ receipt' = [receipt EXCEPT ![c] = "started"]
           /\ fingerprint' = [fingerprint EXCEPT ![c] = a]
           /\ stage' = [stage EXCEPT ![c] = "intent"]
           /\ entry' = e /\ UNCHANGED heard
  <2>1. ToolTypeOK'
    BY <1>2 DEF ToolTypeOK, Execute, Answers
  <2>2. EffectInv' /\ RowInv'
    BY <1>2 DEF ToolTypeOK, EffectInv, RowInv, Execute, Fresh, Completed
  <2>3. AnswerInv'
    BY <1>2 DEF ToolTypeOK, AnswerInv, Justified, Execute, Fresh, Completed
  <2> QED
    BY <2>1, <2>2, <2>3
<1>3. CASE /\ allowed /\ ~Fresh(c) /\ fingerprint[c] = a
           /\ IF stage[c] # "none"
              THEN entry' = e /\ UNCHANGED heard
              ELSE /\ entry' = IF c \in Human THEN e ELSE [e EXCEPT ![c].answer = Stored(c)]
                   /\ heard' = [heard EXCEPT ![c] = @ \cup {Stored(c)}]
           /\ UNCHANGED <<receipt, fingerprint, stage>>
  <2>1. stage[c] = "none" => Justified(c, Stored(c)) /\ Stored(c) \in Answers
    BY <1>3, StoredJustified DEF Fresh
  <2>2. ToolTypeOK'
    <3>1. entry' \in [Calls -> [args : Arguments \cup {NoArguments},
                               answer : Answers \cup {"none"}]]
      <4>1. CASE entry' = e
        BY <4>1
      <4>2. CASE entry' = [e EXCEPT ![c].answer = Stored(c)] /\ Stored(c) \in Answers
        BY <4>2
      <4> QED
        BY <1>3, <2>1, <4>1, <4>2
    <3>2. heard' \in [Calls -> SUBSET Answers]
      BY <1>3, <2>1 DEF ToolTypeOK
    <3> QED
      BY <1>3, <3>1, <3>2 DEF ToolTypeOK, Execute
  <2>3. \A d \in Calls : \A b \in heard'[d] : Justified(d, b)
    <3>1. CASE heard' = heard
      BY <3>1 DEF AnswerInv
    <3>2. CASE heard' = [heard EXCEPT ![c] = @ \cup {Stored(c)}] /\ Justified(c, Stored(c))
      BY <3>2 DEF AnswerInv, ToolTypeOK
    <3> QED
      BY <1>3, <2>1, <3>1, <3>2
  <2>4. \A d \in Calls : Justified(d, entry'[d].answer)
    <3>1. CASE entry' = e
      BY <3>1 DEF AnswerInv
    <3>2. CASE entry' = [e EXCEPT ![c].answer = Stored(c)] /\ Justified(c, Stored(c))
      BY <3>2 DEF AnswerInv
    <3> QED
      BY <1>3, <2>1, <3>1, <3>2
  <2> QED
    BY <1>3, <2>2, <2>3, <2>4, AnswerStep DEF Execute
<1>4. CASE /\ allowed /\ ~Fresh(c) /\ fingerprint[c] # a
           /\ entry' = IF c \in Human THEN e ELSE [e EXCEPT ![c].answer = "refused"]
           /\ heard' = [heard EXCEPT ![c] = @ \cup {"refused"}]
           /\ UNCHANGED <<receipt, fingerprint, stage>>
  <2>1. ToolTypeOK'
    <3>1. entry' \in {e, [e EXCEPT ![c].answer = "refused"]} /\ "refused" \in Answers
      BY <1>4 DEF Answers
    <3>2. entry' \in [Calls -> [args : Arguments \cup {NoArguments},
                               answer : Answers \cup {"none"}]]
      BY <3>1
    <3>3. heard' \in [Calls -> SUBSET Answers]
      BY <1>4, <3>1 DEF ToolTypeOK
    <3> QED
      BY <1>4, <3>2, <3>3 DEF ToolTypeOK, Execute
  <2>2. \A d \in Calls : \A b \in heard'[d] : Justified(d, b)
    BY <1>4, SilentAnswers DEF AnswerInv, ToolTypeOK
  <2>3. \A d \in Calls : Justified(d, entry'[d].answer)
    BY <1>4, SilentAnswers DEF AnswerInv, ToolTypeOK
  <2> QED
    BY <1>4, <2>1, <2>2, <2>3, AnswerStep DEF Execute
<1> QED
  BY <1>1, <1>2, <1>3, <1>4 DEF Execute

-----------------------------------------------------------------------------
(* The actions                                                             *)

\* Reply passes one answer on, or nothing.
LEMMA ReplyAnswers ==
  ASSUME ToolTypeOK, NEW c \in Calls, NEW a \in Answers, Reply(c, a)
  PROVE  /\ entry' \in [Calls -> [args : Arguments \cup {NoArguments},
                                  answer : Answers \cup {"none"}]]
         /\ heard' \in [Calls -> SUBSET Answers]
         /\ \A d \in Calls : /\ heard'[d] \subseteq heard[d] \cup (IF d = c THEN {a} ELSE {})
                             /\ entry'[d].answer \in {entry[d].answer}
                                                     \cup (IF d = c THEN {a} ELSE {})
  BY DEF ToolTypeOK, Reply

\* An action that ends: its row gets an outcome, which justifies the reply.
LEMMA EndStep ==
  ASSUME ToolInv, NEW c \in Calls, NEW r \in Completed \cup {"failed"},
         NEW a \in {"done", "failed"},
         stage[c] # "none",
         r \in Completed => effects[c] = 1, a = "done" <=> r \in Completed,
         receipt' = [receipt EXCEPT ![c] = r],
         stage' = [stage EXCEPT ![c] = "none"],
         Reply(c, a),
         UNCHANGED <<fingerprint, airborne, effects, open, allowed, trouble>>
  PROVE  ToolInv'
<1> USE DEF ToolInv, Completed
<1>1. a \in Answers
  BY DEF Answers
<1>2. ToolTypeOK'
  BY <1>1, ReplyAnswers DEF ToolTypeOK
<1>3. EffectInv' /\ RowInv'
  BY DEF ToolTypeOK, EffectInv, RowInv
<1>4. \A d \in Calls, b \in Answers \cup {"none"} : d # c /\ Justified(d, b) => Justified(d, b)'
  BY DEF ToolTypeOK, Justified
<1>5. \A b \in Answers \cup {"none"} : Justified(c, b) => b \notin {"done", "failed", "uncertain"}
  BY DEF ToolTypeOK, RowInv, Justified
<1>6. Justified(c, a)'
  BY DEF ToolTypeOK, Justified
<1>7. \A d \in Calls, b \in Answers \cup {"none"} : Justified(d, b) => Justified(d, b)'
  BY <1>4, <1>5 DEF Justified
<1>8. ASSUME NEW d \in Calls
      PROVE  (/\ \A b \in heard[d] : Justified(d, b)
              /\ Justified(d, entry[d].answer))'
  <2>1. heard[d] \subseteq Answers /\ entry[d].answer \in Answers \cup {"none"}
    BY DEF ToolTypeOK
  <2>2. \A b \in heard[d] \cup {entry[d].answer} : Justified(d, b)'
    BY <1>7, <2>1 DEF AnswerInv
  <2>3. /\ heard'[d] \subseteq heard[d] \cup (IF d = c THEN {a} ELSE {})
        /\ entry'[d].answer \in {entry[d].answer} \cup (IF d = c THEN {a} ELSE {})
    BY <1>1, ReplyAnswers
  <2>4. (\A b \in heard[d] : Justified(d, b))'
    BY <1>6, <2>2, <2>3
  <2>5. entry'[d].answer = entry[d].answer \/ (d = c /\ entry'[d].answer = a)
    BY <2>3
  <2>6. Justified(d, entry[d].answer)'
    BY <1>6, <2>2, <2>5 DEF Justified
  <2> QED
    BY <2>4, <2>6
<1>9. AnswerInv'
  BY <1>8 DEF AnswerInv
<1> QED
  BY <1>2, <1>3, <1>9

LEMMA ActInv ==
  ASSUME ToolInv, NEW c \in Calls, Act(c)
  PROVE  ToolInv'
<1>1. CASE allowed
  BY <1>1 DEF ToolInv, ToolTypeOK, EffectInv, RowInv, AnswerInv, Justified, Act, Completed
<1>2. CASE ~allowed
  BY <1>2, EndStep DEF Act, Completed
<1> QED
  BY <1>1, <1>2

LEMMA EffectHappensInv ==
  ASSUME ToolInv, NEW c \in Calls, EffectHappens(c)
  PROVE  ToolInv'
  BY DEF ToolInv, ToolTypeOK, EffectInv, RowInv, AnswerInv, Justified, EffectHappens, Completed

LEMMA ReturnInv ==
  ASSUME ToolInv, NEW c \in Calls, Return(c)
  PROVE  ToolInv'
<1>1. PICK r \in Completed : receipt' = [receipt EXCEPT ![c] = Outcome(r)]
  BY DEF Return, Completed
<1>2. effects[c] = 1
  BY DEF Return, ToolInv, ToolTypeOK, EffectInv
<1>3. Outcome(r) = IF allowed THEN r ELSE "failed"
  BY DEF Outcome
<1> QED
  BY <1>1, <1>2, <1>3, EndStep DEF Return, Completed

LEMMA FailInv ==
  ASSUME ToolInv, NEW c \in Calls, Fail(c)
  PROVE  ToolInv'
  BY EndStep DEF Fail, Completed

LEMMA CallInv ==
  ASSUME ToolInv, NEW c \in Calls, NEW a \in Arguments,
         NewCall(c, a) \/ KnownCall(c, a) \/ HumanInput(c, a)
  PROVE  ToolInv'
<1>1. CASE NewCall(c, a)
  <2> DEFINE e == [entry EXCEPT ![c].args = a]
  <2>1. e \in [Calls -> [args : Arguments \cup {NoArguments}, answer : Answers \cup {"none"}]]
    BY DEF ToolInv, ToolTypeOK
  <2>2. \A d \in Calls : e[d].answer = entry[d].answer
    BY DEF ToolInv, ToolTypeOK
  <2>3. e[c].answer = "none"
    BY <1>1, <2>2 DEF NewCall, NoEntry
  <2>4. Execute(c, a, e)
    BY <1>1 DEF NewCall
  <2> HIDE DEF e
  <2> QED
    BY <2>1, <2>2, <2>3, <2>4, ExecuteInv
<1>2. CASE KnownCall(c, a)
  <2>1. ToolTypeOK'
    BY <1>2 DEF ToolInv, ToolTypeOK, KnownCall, Answers
  <2>2. \A d \in Calls : \A b \in heard'[d] : Justified(d, b)
    <3>1. PICK b \in {"refused", entry[c].answer} :
            heard' = [heard EXCEPT ![c] = @ \cup {b}]
      BY <1>2 DEF KnownCall
    <3>2. Justified(c, b)
      BY <3>1, SilentAnswers DEF ToolInv, AnswerInv
    <3> QED
      BY <3>1, <3>2 DEF ToolInv, AnswerInv, ToolTypeOK
  <2>3. \A d \in Calls : Justified(d, entry'[d].answer)
    BY <1>2 DEF ToolInv, AnswerInv, KnownCall
  <2> QED
    BY <1>2, <2>1, <2>2, <2>3, AnswerStep DEF KnownCall
<1>3. CASE HumanInput(c, a)
  <2>1. entry \in [Calls -> [args : Arguments \cup {NoArguments}, answer : Answers \cup {"none"}]]
    BY DEF ToolInv, ToolTypeOK
  <2> QED
    BY <1>3, <2>1, ExecuteInv DEF HumanInput
<1> QED
  BY <1>1, <1>2, <1>3

\* The lease opens and ends, authority comes and goes.
LEMMA LeaseInv ==
  ASSUME ToolInv, OpenLease \/ Dispose \/ Revoke
  PROVE  ToolInv'
<1>1. ToolTypeOK'
  <2>1. CASE OpenLease
    BY <2>1, NoEntryType DEF ToolInv, ToolTypeOK, OpenLease
  <2>2. CASE Dispose
    <3>1. open' \in BOOLEAN
      BY <2>2, Zenon DEF Dispose
    <3> QED
      BY <2>2, <3>1 DEF ToolInv, ToolTypeOK, Dispose, Trouble
  <2>3. CASE Revoke
    BY <2>3 DEF ToolInv, ToolTypeOK, Revoke, Trouble
  <2> QED
    BY <2>1, <2>2, <2>3
<1>2. \A d \in Calls : \A b \in heard'[d] : Justified(d, b)
  BY DEF ToolInv, AnswerInv, OpenLease, Dispose, Revoke
<1>3. \A d \in Calls : Justified(d, entry'[d].answer)
  BY SilentAnswers DEF ToolInv, AnswerInv, OpenLease, Dispose, Revoke, NoEntry
<1> QED
  BY <1>1, <1>2, <1>3, AnswerStep DEF OpenLease, Dispose, Revoke

LEMMA CrashInv ==
  ASSUME ToolInv, ToolCrash
  PROVE  ToolInv'
<1>1. ToolTypeOK'
  <2>1. open' \in BOOLEAN
    BY Zenon DEF ToolCrash
  <2> QED
    BY <2>1, NoEntryType DEF ToolInv, ToolTypeOK, ToolCrash, Trouble
<1>2. EffectInv' /\ RowInv'
  BY DEF ToolInv, ToolTypeOK, EffectInv, RowInv, ToolCrash
<1>3. AnswerInv'
  BY DEF ToolInv, AnswerInv, Justified, ToolCrash, NoEntry
<1> QED
  BY <1>1, <1>2, <1>3 DEF ToolInv

LEMMA CallsNext == ToolInv /\ [ToolNext]_toolVars => ToolInv'
<1> SUFFICES ASSUME ToolInv, [ToolNext]_toolVars PROVE ToolInv'
  OBVIOUS
<1>1. CASE UNCHANGED toolVars
  BY <1>1 DEF ToolInv, ToolTypeOK, EffectInv, RowInv, AnswerInv, Justified, toolVars
<1>2. CASE OpenLease \/ Dispose \/ Revoke
  BY <1>2, LeaseInv
<1>3. CASE ToolCrash
  BY <1>3, CrashInv
<1>4. ASSUME NEW c \in Calls, ToolStep(c) PROVE ToolInv'
  <2>1. CASE \E a \in Arguments : NewCall(c, a) \/ KnownCall(c, a) \/ HumanInput(c, a)
    BY <2>1, CallInv
  <2> QED
    BY <1>4, <2>1, ActInv, EffectHappensInv, ReturnInv, FailInv DEF ToolStep
<1> QED
  BY <1>1, <1>2, <1>3, <1>4 DEF ToolNext

-----------------------------------------------------------------------------
\* The invariant that carries the properties below.
THEOREM CallsInductive == ToolSpec => []ToolInv
  BY CallsInit, CallsNext, PTL DEF ToolSpec

\* The effect of a call happens at most once, whatever is repeated, revoked or
\* lost (toolOperationJournal.ts, execute).
THEOREM EffectsOnce == ToolSpec => []EffectOnce
<1>1. ToolInv => EffectOnce
  BY DEF ToolInv, EffectInv, EffectOnce
<1> QED
  BY <1>1, CallsInductive, PTL

\* A call answered as done has had its effect and is never answered as failed or
\* uncertain (toolOperationJournal.ts, execute and receipt).
THEOREM AnswersAgree == ToolSpec => []AnswersTrue
<1>1. ToolInv => AnswersTrue
  BY DEF ToolInv, RowInv, AnswerInv, Justified, AnswersTrue, Completed
<1> QED
  BY <1>1, CallsInductive, PTL

-----------------------------------------------------------------------------
(* QUESTIONS                                                               *)

\* What the argument needs to know about types; the order of notices matters to
\* nothing here.
ReplyTypes ==
  /\ takenUp \in [Questions -> Nat]
  /\ card \in [Questions -> [known : BOOLEAN, resolved : BOOLEAN,
                             answer : Replies \cup {NoReply},
                             state : {"none", "sending", "sent", "uncertain"}]]
  /\ reply \in [Questions -> [answer : Replies \cup {NoReply},
                              result : {"none", "ok", "rejected"}]]

\* A card that may be answered was never answered: no reply to it is under way,
\* adrift or taken up.  One reply at most is under way or adrift, and it is the one
\* Hermes takes up.
CardInv(i) ==
  /\ takenUp[i] <= 1
  /\ ~card[i].known => card[i].state = "none"
  /\ card[i].state = "none" => takenUp[i] = 0 /\ reply[i].answer = NoReply /\ i \notin adrift
  /\ card[i].state = "sent" => takenUp[i] = 1 /\ reply[i].answer = NoReply
  /\ reply[i].answer # NoReply =>
       i \notin adrift /\ takenUp[i] = (IF reply[i].result = "ok" THEN 1 ELSE 0)
  /\ reply[i].answer = NoReply => reply[i].result = "none"
  /\ i \in adrift => takenUp[i] = 0

ReplyInv == ReplyTypes /\ \A i \in Questions : CardInv(i)

-----------------------------------------------------------------------------
LEMMA RepliesInit == InteractionInit => ReplyInv
<1> SUFFICES ASSUME InteractionInit PROVE ReplyInv
  OBVIOUS
<1>1. NoCard \in [known : BOOLEAN, resolved : BOOLEAN, answer : Replies \cup {NoReply},
                  state : {"none", "sending", "sent", "uncertain"}]
  BY DEF NoCard
<1>2. NoCall \in [answer : Replies \cup {NoReply}, result : {"none", "ok", "rejected"}]
  BY DEF NoCall
<1>3. ReplyTypes
  BY <1>1, <1>2 DEF InteractionInit, ReplyTypes
<1>4. \A i \in Questions : CardInv(i)
  BY DEF InteractionInit, CardInv, NoCard, NoCall
<1> QED
  BY <1>3, <1>4 DEF ReplyInv

\* Steps that change no state of a card, no reply and nothing in Hermes.
LEMMA CardStep ==
  ASSUME ReplyInv, UNCHANGED <<takenUp, reply, adrift>>,
         card' \in [Questions -> [known : BOOLEAN, resolved : BOOLEAN,
                                  answer : Replies \cup {NoReply},
                                  state : {"none", "sending", "sent", "uncertain"}]],
         \A i \in Questions : card'[i].state = card[i].state
                              /\ (card[i].known => card'[i].known)
  PROVE  ReplyInv'
  BY DEF ReplyInv, ReplyTypes, CardInv

\* A card that was never answered is being answered, by the user or the policy.
LEMMA SendStep ==
  ASSUME ReplyInv, NEW i \in Questions, NEW a \in Replies, card[i].state = "none",
         card' = [card EXCEPT ![i] = Sending(i, a)],
         reply' = [reply EXCEPT ![i] = [answer |-> a, result |-> "none"]],
         UNCHANGED <<takenUp, adrift>>
  PROVE  ReplyInv'
<1>1. a # NoReply
  BY InteractionAssumption
<1>2. ReplyTypes'
  <2>1. Sending(i, a) \in [known : BOOLEAN, resolved : BOOLEAN,
                           answer : Replies \cup {NoReply},
                           state : {"none", "sending", "sent", "uncertain"}]
    BY DEF ReplyInv, ReplyTypes, Sending
  <2>2. reply' \in [Questions -> [answer : Replies \cup {NoReply},
                                 result : {"none", "ok", "rejected"}]]
    BY DEF ReplyInv, ReplyTypes
  <2> QED
    BY <2>1, <2>2 DEF ReplyInv, ReplyTypes
<1>3. ASSUME NEW j \in Questions PROVE CardInv(j)'
  BY <1>1 DEF ReplyInv, ReplyTypes, CardInv, Sending
<1> QED
  BY <1>2, <1>3 DEF ReplyInv

\* The outcomes of some calls are lost, whatever becomes of their cards.
LEMMA LostStep ==
  ASSUME ReplyInv, NEW is \in SUBSET UnderWay, Lost(is), UNCHANGED takenUp,
         card' \in [Questions -> [known : BOOLEAN, resolved : BOOLEAN,
                                  answer : Replies \cup {NoReply},
                                  state : {"none", "sending", "sent", "uncertain"}]],
         \A i \in Questions :
           /\ card'[i].known = card[i].known
           /\ card'[i].state = card[i].state \/ (i \in is /\ card'[i].state = "uncertain")
  PROVE  ReplyInv'
<1>1. NoCall \in [answer : Replies \cup {NoReply}, result : {"none", "ok", "rejected"}]
      /\ NoCall.answer = NoReply /\ NoCall.result = "none"
  BY DEF NoCall
<1>2. ReplyTypes'
  BY <1>1 DEF ReplyInv, ReplyTypes, Lost
<1>3. ASSUME NEW j \in Questions PROVE CardInv(j)'
  BY <1>1 DEF ReplyInv, ReplyTypes, CardInv, Lost, UnderWay
<1> QED
  BY <1>2, <1>3 DEF ReplyInv

\* The cards of calls whose outcome is lost.
LEMMA UncertainCards ==
  ASSUME ReplyInv, NEW is, card' = Uncertain(is)
  PROVE  /\ card' \in [Questions -> [known : BOOLEAN, resolved : BOOLEAN,
                                    answer : Replies \cup {NoReply},
                                    state : {"none", "sending", "sent", "uncertain"}]]
         /\ \A j \in Questions :
              /\ card'[j].known = card[j].known
              /\ card'[j].resolved = card[j].resolved
              /\ card'[j].state = card[j].state
                 \/ (j \in is /\ card'[j].state = "uncertain")
<1> DEFINE Cards == [known : BOOLEAN, resolved : BOOLEAN, answer : Replies \cup {NoReply},
                     state : {"none", "sending", "sent", "uncertain"}]
<1>1. card \in [Questions -> Cards]
  BY DEF ReplyInv, ReplyTypes
<1>2. card' = [j \in Questions |-> card'[j]]
      /\ \A j \in Questions : card'[j] = IF j \in is /\ ~card[j].resolved
                                        THEN [card[j] EXCEPT !.state = "uncertain"] ELSE card[j]
  BY DEF Uncertain
<1>3. ASSUME NEW j \in Questions
      PROVE  LET mark == [card[j] EXCEPT !.state = "uncertain"] IN
             /\ mark \in Cards /\ mark.known = card[j].known
             /\ mark.resolved = card[j].resolved /\ mark.state = "uncertain"
  BY <1>1
<1>4. \A j \in Questions : card'[j] \in Cards
  BY <1>1, <1>2, <1>3
<1>5. card' \in [Questions -> Cards]
  <2> HIDE DEF Cards
  <2> QED
    BY <1>2, <1>4
<1> QED
  BY <1>2, <1>3, <1>5

-----------------------------------------------------------------------------
(* The actions                                                             *)

\* Hermes.
LEMMA HermesInv ==
  ASSUME ReplyInv, NEW i \in Questions,
         Ask(i) \/ AskAgain(i) \/ Withdraw(i) \/ TakeReply(i) \/ TakeAdrift(i)
  PROVE  ReplyInv'
<1>1. CASE Ask(i) \/ AskAgain(i) \/ Withdraw(i)
  <2>1. UNCHANGED <<takenUp, reply, adrift, card>>
    BY <1>1 DEF Ask, AskAgain, Withdraw
  <2> QED
    BY <2>1 DEF ReplyInv, ReplyTypes, CardInv
<1>2. CASE TakeReply(i)
  <2>1. CASE reply[i].answer # NoReply /\ takenUp' = [takenUp EXCEPT ![i] = @ + 1]
             /\ reply[i].result = "none" /\ reply' = [reply EXCEPT ![i].result = "ok"]
             /\ UNCHANGED <<card, adrift>>
    <3>1. ReplyTypes'
      BY <2>1 DEF ReplyInv, ReplyTypes
    <3>2. ASSUME NEW j \in Questions PROVE CardInv(j)'
      BY <2>1 DEF ReplyInv, ReplyTypes, CardInv
    <3> QED
      BY <3>1, <3>2 DEF ReplyInv
  <2>2. CASE reply[i].answer # NoReply /\ reply[i].result = "none"
             /\ reply' = [reply EXCEPT ![i].result = "rejected"]
             /\ UNCHANGED <<takenUp, card, adrift>>
    <3>1. ReplyTypes'
      BY <2>2 DEF ReplyInv, ReplyTypes
    <3>2. ASSUME NEW j \in Questions PROVE CardInv(j)'
      BY <2>2 DEF ReplyInv, ReplyTypes, CardInv
    <3> QED
      BY <3>1, <3>2 DEF ReplyInv
  <2> QED
    BY <1>2, <2>1, <2>2 DEF TakeReply
<1>3. CASE TakeAdrift(i)
  <2>1. ReplyTypes'
    BY <1>3 DEF ReplyInv, ReplyTypes, TakeAdrift
  <2>2. ASSUME NEW j \in Questions PROVE CardInv(j)'
    BY <1>3 DEF ReplyInv, ReplyTypes, CardInv, TakeAdrift
  <2> QED
    BY <2>1, <2>2 DEF ReplyInv
<1> QED
  BY <1>1, <1>2, <1>3

\* Notices and replies, at the server.
LEMMA ServerInv ==
  ASSUME ReplyInv, NEW i \in Questions,
         \/ \E a \in Replies : Respond(i, a) \/ RespondInVain(i, a)
         \/ RequestArrives(i) \/ CancelArrives(i) \/ ReplyAnswered(i) \/ ReplyTimesOut(i)
  PROVE  ReplyInv'
<1>1. ASSUME NEW a \in Replies, Respond(i, a) PROVE ReplyInv'
  BY <1>1, SendStep DEF Respond, Answerable
<1>2. CASE RequestArrives(i)
  <2>1. CASE card[i].resolved
    BY <1>2, <2>1, CardStep DEF RequestArrives, ReplyInv, ReplyTypes
  <2>2. CASE ~card[i].resolved /\ i \in Automatic /\ ~card[i].known
    <3>1. "once" \in Replies /\ card[i].state = "none"
      BY <2>2, InteractionAssumption DEF ReplyInv, CardInv
    <3> QED
      BY <1>2, <2>2, <3>1, SendStep DEF RequestArrives
  <2>3. CASE ~card[i].resolved /\ ~(i \in Automatic /\ ~card[i].known)
    <3>1. card' = [card EXCEPT ![i].known = TRUE] /\ UNCHANGED <<takenUp, reply, adrift>>
      BY <1>2, <2>3 DEF RequestArrives
    <3>2. /\ card' \in [Questions -> [known : BOOLEAN, resolved : BOOLEAN,
                                     answer : Replies \cup {NoReply},
                                     state : {"none", "sending", "sent", "uncertain"}]]
          /\ \A j \in Questions : card'[j].state = card[j].state
                                  /\ (card[j].known => card'[j].known)
      BY <3>1 DEF ReplyInv, ReplyTypes
    <3> QED
      BY <3>1, <3>2, CardStep
  <2> QED
    BY <2>1, <2>2, <2>3
<1>3. CASE CancelArrives(i)
  <2>1. card[i].known \in BOOLEAN
    BY DEF ReplyInv, ReplyTypes
  <2> QED
    BY <1>3, <2>1, CardStep DEF CancelArrives, ReplyInv, ReplyTypes
<1>4. CASE ReplyAnswered(i)
  <2>1. NoCall \in [answer : Replies \cup {NoReply}, result : {"none", "ok", "rejected"}]
        /\ NoCall.answer = NoReply /\ NoCall.result = "none"
    BY DEF NoCall
  <2>2. ReplyTypes'
    <3>1. PICK c \in [known : BOOLEAN, resolved : BOOLEAN, answer : Replies \cup {NoReply},
                      state : {"none", "sending", "sent", "uncertain"}] :
            card' = [card EXCEPT ![i] = c]
      <4>1. CASE reply[i].result = "ok"
        <5>1. card' = [card EXCEPT ![i] = [card[i] EXCEPT !.resolved = TRUE, !.state = "sent"]]
          BY <1>4, <4>1 DEF ReplyAnswered, ReplyInv, ReplyTypes
        <5> QED
          BY <5>1 DEF ReplyInv, ReplyTypes
      <4>2. CASE reply[i].result # "ok" /\ card[i].resolved
        <5>1. card' = [card EXCEPT ![i] = card[i]]
          BY <1>4, <4>2 DEF ReplyAnswered, ReplyInv, ReplyTypes
        <5> QED
          BY <5>1 DEF ReplyInv, ReplyTypes
      <4>3. CASE reply[i].result # "ok" /\ ~card[i].resolved
        <5>1. card' = [card EXCEPT ![i] = [card[i] EXCEPT !.state = "none"]]
          BY <1>4, <4>3 DEF ReplyAnswered, ReplyInv, ReplyTypes
        <5> QED
          BY <5>1 DEF ReplyInv, ReplyTypes
      <4> QED
        BY <4>1, <4>2, <4>3
    <3> QED
      BY <1>4, <2>1, <3>1 DEF ReplyInv, ReplyTypes, ReplyAnswered
  <2>3. ASSUME NEW j \in Questions PROVE CardInv(j)'
    BY <1>4, <2>1 DEF ReplyInv, ReplyTypes, CardInv, ReplyAnswered
  <2> QED
    BY <2>2, <2>3 DEF ReplyInv
<1>5. CASE ReplyTimesOut(i)
  <2>1. {i} \in SUBSET UnderWay /\ Lost({i}) /\ card' = Uncertain({i}) /\ UNCHANGED takenUp
    BY <1>5 DEF ReplyTimesOut
  <2> QED
    BY <2>1, UncertainCards, LostStep
<1>6. ASSUME NEW a \in Replies, RespondInVain(i, a) PROVE ReplyInv'
  <2>1. /\ card[i].known /\ card[i].state = "none"
        /\ card' = [card EXCEPT ![i] = [card[i] EXCEPT !.answer = a, !.state = "uncertain"]]
        /\ UNCHANGED <<takenUp, reply, adrift>>
    BY <1>6 DEF RespondInVain, Answerable, ReplyInv, ReplyTypes
  <2>2. ReplyTypes'
    BY <2>1 DEF ReplyInv, ReplyTypes
  <2>3. ASSUME NEW j \in Questions PROVE CardInv(j)'
    BY <2>1 DEF ReplyInv, ReplyTypes, CardInv
  <2> QED
    BY <2>2, <2>3 DEF ReplyInv
<1> QED
  BY <1>1, <1>2, <1>3, <1>4, <1>5, <1>6

\* The cards when a turn is over or its outcome unknown.
LEMMA CardsAtTheEnd ==
  ASSUME ReplyInv, NEW outcome, card' = CardsAfter(outcome)
  PROVE  /\ card' \in [Questions -> [known : BOOLEAN, resolved : BOOLEAN,
                                    answer : Replies \cup {NoReply},
                                    state : {"none", "sending", "sent", "uncertain"}]]
         /\ \A j \in Questions :
              /\ card'[j].known = card[j].known
              /\ outcome = "uncertain" => card'[j].resolved = card[j].resolved
              /\ card'[j].state = card[j].state
                 \/ (j \in UnderWay /\ card'[j].state = "uncertain")
<1>1. CASE outcome = "uncertain"
  BY <1>1, UncertainCards DEF CardsAfter
<1>2. CASE outcome # "uncertain"
  <2> DEFINE Cards == [known : BOOLEAN, resolved : BOOLEAN, answer : Replies \cup {NoReply},
                       state : {"none", "sending", "sent", "uncertain"}]
  <2>1. card \in [Questions -> Cards]
    BY DEF ReplyInv, ReplyTypes
  <2>2. card' = [j \in Questions |-> [card[j] EXCEPT !.resolved = card[j].known]]
    BY <1>2 DEF CardsAfter, AllResolved
  <2>3. ASSUME NEW j \in Questions
        PROVE  LET c == [card[j] EXCEPT !.resolved = card[j].known] IN
               c \in Cards /\ c.known = card[j].known /\ c.state = card[j].state
    BY <2>1
  <2>4. \A j \in Questions : card'[j] = [card[j] EXCEPT !.resolved = card[j].known]
    BY <2>2
  <2>5. card' \in [Questions -> Cards]
    <3> HIDE DEF Cards
    <3> QED
      BY <2>2, <2>3
  <2> QED
    BY <1>2, <2>3, <2>4, <2>5
<1> QED
  BY <1>1, <1>2

\* Connections, the end of the turn and of the process.
LEMMA BreakInv ==
  ASSUME ReplyInv, Detach \/ Attach \/ TurnEnds \/ TurnFails \/ TurnCrash \/ TurnRecheck
  PROVE  ReplyInv'
<1>1. CASE Attach \/ TurnRecheck
  BY <1>1 DEF Attach, TurnRecheck, ReplyInv, ReplyTypes, CardInv
<1>2. CASE Detach
  BY <1>2, UncertainCards, LostStep DEF Detach
<1>3. CASE TurnEnds \/ TurnFails
  <2>1. PICK outcome : card' = CardsAfter(outcome) /\ Lost(UnderWay) /\ UNCHANGED takenUp
    BY <1>3 DEF TurnEnds, TurnFails, TurnFinish
  <2> QED
    BY <2>1, CardsAtTheEnd, LostStep
<1>4. CASE TurnCrash
  <2>1. Lost(UnderWay) /\ UNCHANGED <<takenUp, card>>
    BY <1>4 DEF TurnCrash
  <2> QED
    BY <2>1, LostStep DEF ReplyInv, ReplyTypes
<1> QED
  BY <1>1, <1>2, <1>3, <1>4

\* The computer and credentials.
Interruption ==
  TakeOver \/ PauseAgain \/ GiveBack \/ PauseArrives \/ ResumeArrives
  \/ CredentialBegins \/ CredentialEnds

LEMMA InterruptionKeeps ==
  Interruption => UNCHANGED <<request, takenUp, card, reply, adrift, toolsBound, attached>>
BY DEF Interruption, TakeOver, PauseAgain, Paused, GiveBack, PauseArrives, ResumeArrives,
       CredentialBegins, CredentialEnds

LEMMA RepliesNext == ReplyInv /\ [InteractionNext]_interactionVars => ReplyInv'
<1> SUFFICES ASSUME ReplyInv, [InteractionNext]_interactionVars PROVE ReplyInv'
  OBVIOUS
<1>1. CASE UNCHANGED interactionVars
  BY <1>1 DEF interactionVars, ReplyInv, ReplyTypes, CardInv
<1>2. CASE Interruption
  BY <1>2, InterruptionKeeps DEF ReplyInv, ReplyTypes, CardInv
<1>3. CASE InteractionNext
  BY <1>2, <1>3, HermesInv, ServerInv, BreakInv DEF InteractionNext, Interruption
<1> QED
  BY <1>1, <1>2, <1>3

-----------------------------------------------------------------------------
\* The invariant that carries the property below.
THEOREM RepliesInductive == InteractionSpec => []ReplyInv
  BY RepliesInit, RepliesNext, PTL DEF InteractionSpec

\* Hermes never acts on two replies to one request, and a card that says "sent" had
\* its answer acted on (workspaceRuntime.ts, respond).
THEOREM RepliesOnce == InteractionSpec => []AnsweredOnce
<1>1. ReplyInv => AnsweredOnce
  BY DEF ReplyInv, CardInv, AnsweredOnce
<1> QED
  BY <1>1, RepliesInductive, PTL

-----------------------------------------------------------------------------
(* The rest of the types                                                   *)

NoticeRecords ==
  [kind : {"request", "cancelled"}, of : Questions]
    \cup [kind : {"paused", "resumed"}, of : {Computer}]

\* What the invariant of the replies leaves out.
InteractionSides ==
  /\ request \in [Questions -> {"none", "open", "closed"}]
  /\ notices \in Seq(NoticeRecords)
  /\ adrift \subseteq Questions
  /\ turn \in {"running", "waiting", "uncertain", "ended"}
  /\ toolsBound \in BOOLEAN /\ taken \in BOOLEAN /\ apart \subseteq {"computer", "credential"}
  /\ attached \in BOOLEAN /\ breaks \in 0 .. MaxBreaks

LEMMA NoticeTypes ==
  /\ \A i \in Questions, k \in {"request", "cancelled"} : Notice(k, i) \in NoticeRecords
  /\ \A k \in {"paused", "resumed"} : Notice(k, Computer) \in NoticeRecords
BY DEF Notice, NoticeRecords

\* Notices are sent, taken in and lost.
LEMMA NoticesTyped ==
  ASSUME notices \in Seq(NoticeRecords), NEW n \in NoticeRecords,
         notices' \in {notices, <<>>, Append(notices, n)}
         \/ (notices # <<>> /\ notices' = Tail(notices))
  PROVE  notices' \in Seq(NoticeRecords)
<1>1. PICK q \in Seq(NoticeRecords) : q = notices
  OBVIOUS
<1>2. /\ <<>> \in Seq(NoticeRecords) /\ Append(q, n) \in Seq(NoticeRecords)
      /\ q # <<>> => Tail(q) \in Seq(NoticeRecords)
  OBVIOUS
<1> QED
  BY <1>1, <1>2

LEMMA HermesSides ==
  ASSUME InteractionSides, NEW i \in Questions,
         Ask(i) \/ AskAgain(i) \/ Withdraw(i) \/ TakeReply(i) \/ TakeAdrift(i)
  PROVE  InteractionSides'
<1>1. Notice("request", i) \in NoticeRecords /\ Notice("cancelled", i) \in NoticeRecords
  BY NoticeTypes
<1>2. /\ request' \in {request, [request EXCEPT ![i] = "open"], [request EXCEPT ![i] = "closed"]}
      /\ notices' \in {notices, Append(notices, Notice("request", i)),
                       Append(notices, Notice("cancelled", i))}
      /\ adrift' \subseteq adrift /\ UNCHANGED <<turn, toolsBound, taken, apart, attached, breaks>>
  BY DEF Ask, AskAgain, Withdraw, TakeReply, TakeAdrift, Announced, elsewhere
<1>3. notices' \in Seq(NoticeRecords)
  BY <1>1, <1>2, NoticesTyped DEF InteractionSides
<1>4. request' \in [Questions -> {"none", "open", "closed"}]
  BY <1>2 DEF InteractionSides
<1> QED
  BY <1>2, <1>3, <1>4 DEF InteractionSides

LEMMA ServerSides ==
  ASSUME InteractionSides, NEW i \in Questions,
         RequestArrives(i) \/ CancelArrives(i) \/ ReplyAnswered(i)
  PROVE  InteractionSides'
<1>1. notices' \in Seq(NoticeRecords)
  <2>1. UNCHANGED notices \/ (notices # <<>> /\ notices' = Tail(notices))
    BY DEF RequestArrives, CancelArrives, ReplyAnswered, Arrives
  <2> QED
    BY <2>1, NoticesTyped, NoticeTypes DEF InteractionSides
<1>2. /\ UNCHANGED <<request, adrift, toolsBound, taken, apart, attached, breaks>>
      /\ turn' \in {turn, "waiting", "running"}
  <2>1. CASE RequestArrives(i)
    BY <2>1 DEF RequestArrives, elsewhere
  <2>2. CASE CancelArrives(i)
    BY <2>2 DEF CancelArrives, GoesOn, elsewhere
  <2>3. CASE ReplyAnswered(i)
    BY <2>3 DEF ReplyAnswered, elsewhere
  <2> QED
    BY <2>1, <2>2, <2>3
<1> QED
  BY <1>1, <1>2 DEF InteractionSides

LEMMA InterruptionSides ==
  ASSUME InteractionSides, Interruption
  PROVE  InteractionSides'
<1>1. notices' \in Seq(NoticeRecords)
  <2>1. \/ notices' \in {notices, Append(notices, Notice("paused", Computer)),
                         Append(notices, Notice("resumed", Computer))}
        \/ (notices # <<>> /\ notices' = Tail(notices))
    BY DEF Interruption, TakeOver, PauseAgain, Paused, GiveBack, Announced, PauseArrives,
       ResumeArrives, Arrives, CredentialBegins, CredentialEnds
  <2> QED
    BY <2>1, NoticesTyped, NoticeTypes DEF InteractionSides
<1>2. /\ turn' \in {turn, "waiting", "running"} /\ taken' \in {taken, TRUE, FALSE}
      /\ apart' \subseteq apart \cup {"computer", "credential"}
      /\ Break \/ UNCHANGED breaks
  BY DEF Interruption, TakeOver, PauseAgain, Paused, GiveBack, PauseArrives, ResumeArrives,
     CredentialBegins, CredentialEnds
<1>3. Break => breaks' \in 0 .. MaxBreaks
  BY InteractionAssumption DEF Break, InteractionSides
<1> QED
  BY <1>1, <1>2, <1>3, InterruptionKeeps DEF InteractionSides

LEMMA NextSides ==
  ASSUME InteractionSides, [InteractionNext]_interactionVars
  PROVE  InteractionSides'
<1>1. /\ UnderWay \subseteq Questions /\ <<>> \in Seq(NoticeRecords)
      /\ Break => breaks' \in 0 .. MaxBreaks
  BY InteractionAssumption DEF UnderWay, Break, InteractionSides
<1>2. ASSUME NEW i \in Questions, NEW a \in Replies, Respond(i, a) \/ RespondInVain(i, a)
      PROVE  InteractionSides'
  BY <1>2 DEF Respond, RespondInVain, elsewhere, InteractionSides
<1>3. ASSUME NEW i \in Questions, ReplyTimesOut(i)
      PROVE  InteractionSides'
  BY <1>1, <1>3 DEF ReplyTimesOut, Lost, elsewhere, InteractionSides
<1>4. CASE Detach \/ TurnCrash
  BY <1>1, <1>4 DEF Detach, TurnCrash, Lost, elsewhere, InteractionSides
<1>5. CASE TurnEnds \/ TurnFails
  BY <1>1, <1>5 DEF TurnEnds, TurnFails, TurnFinish, Lost, InteractionSides
<1>6. CASE Attach \/ TurnRecheck \/ UNCHANGED interactionVars
  BY <1>6 DEF Attach, TurnRecheck, elsewhere, interactionVars, InteractionSides
<1>7. CASE Interruption
  BY <1>7, InterruptionSides
<1> QED
  BY <1>2, <1>3, <1>4, <1>5, <1>6, <1>7, HermesSides, ServerSides
     DEF InteractionNext, Interruption

LEMMA SidesInductive == InteractionSpec => []InteractionSides
<1>1. ASSUME InteractionInit PROVE InteractionSides
  <2>1. <<>> \in Seq(NoticeRecords)
    OBVIOUS
  <2>2. request \in [Questions -> {"none", "open", "closed"}]
    BY <1>1 DEF InteractionInit
  <2>3. toolsBound \in BOOLEAN /\ taken \in BOOLEAN /\ attached \in BOOLEAN
    BY <1>1, Zenon DEF InteractionInit
  <2>4. notices = <<>> /\ adrift = {} /\ apart = {} /\ turn = "running" /\ breaks = 0
    BY <1>1, Zenon DEF InteractionInit
  <2>5. breaks \in 0 .. MaxBreaks
    BY <2>4, InteractionAssumption
  <2>6. notices \in Seq(NoticeRecords)
    BY <2>1, <2>4
  <2> QED
    BY <2>2, <2>3, <2>4, <2>5, <2>6 DEF InteractionSides
<1> QED
  BY <1>1, NextSides, PTL DEF InteractionSpec

\* The types of the cards, the calls that answer them and the notices under way
\* (workspaceRuntime.ts, respond; workspaceGateway.ts).
THEOREM InteractionTypeInvariant == InteractionSpec => []InteractionTypeOK
<1>1. ASSUME ReplyInv, InteractionSides PROVE InteractionTypeOK
  <2>1. ASSUME NEW n \in NoticeRecords
        PROVE  n \in {Notice(kind, i) : kind \in {"request", "cancelled"}, i \in Questions}
                     \cup {Notice(kind, Computer) : kind \in {"paused", "resumed"}}
    <3>1. n = Notice(n.kind, n.of)
      BY DEF NoticeRecords, Notice
    <3>2. \/ n.kind \in {"request", "cancelled"} /\ n.of \in Questions
          \/ n.kind \in {"paused", "resumed"} /\ n.of = Computer
      BY DEF NoticeRecords
    <3> QED
      BY <3>1, <3>2
  <2>2. Range(notices) \subseteq NoticeRecords
    BY <1>1 DEF InteractionSides, Range
  <2>3. Range(notices) \subseteq
          {Notice(kind, i) : kind \in {"request", "cancelled"}, i \in Questions}
            \cup {Notice(kind, Computer) : kind \in {"paused", "resumed"}}
    BY <2>1, <2>2
  <2> QED
    BY <1>1, <2>3 DEF ReplyInv, ReplyTypes, InteractionSides, InteractionTypeOK
<1> QED
  BY <1>1, SidesInductive, RepliesInductive, PTL

-----------------------------------------------------------------------------
(* What is waited for                                                      *)

\* A card is resolved by Hermes' answer to a reply or by its withdrawal: both come
\* after Hermes has closed the request, which it never opens again.
AgreeInv ==
  /\ \A i \in Questions : reply[i].result = "ok" => request[i] = "closed"
  /\ \A n \in 1 .. Len(notices) :
       notices[n].kind = "cancelled" => request[notices[n].of] = "closed"
  /\ WaitingAgrees

\* Notices, pauses and uses of credentials are those of a turn that goes on.
LiveInv ==
  /\ attached => turn \in {"running", "waiting"}
  /\ notices # <<>> => attached
  /\ apart # {} => turn \in {"running", "waiting"}

LEMMA LiveNext == LiveInv /\ [InteractionNext]_interactionVars => LiveInv'
<1> SUFFICES ASSUME LiveInv, [InteractionNext]_interactionVars PROVE LiveInv'
  OBVIOUS
<1>1. ASSUME NEW i \in Questions,
             Ask(i) \/ AskAgain(i) \/ Withdraw(i) \/ TakeReply(i) \/ TakeAdrift(i)
      PROVE  LiveInv'
  BY <1>1 DEF Ask, AskAgain, Withdraw, Announced, TakeReply, TakeAdrift, elsewhere, LiveInv
<1>2. ASSUME NEW i \in Questions,
             \/ \E a \in Replies : Respond(i, a) \/ RespondInVain(i, a)
             \/ ReplyTimesOut(i)
      PROVE  LiveInv'
  <2>1. UNCHANGED <<notices, turn, apart, attached>>
    BY <1>2, Zenon DEF Respond, RespondInVain, ReplyTimesOut, elsewhere
  <2> QED
    BY <2>1 DEF LiveInv
<1>3. ASSUME NEW i \in Questions, RequestArrives(i) \/ CancelArrives(i) \/ ReplyAnswered(i)
      PROVE  LiveInv'
  <2>1. /\ UNCHANGED <<apart, attached>> /\ turn' \in {turn, "waiting", "running"}
        /\ turn' # turn => turn = "waiting" \/ notices # <<>>
        /\ notices' # <<>> => notices # <<>>
    BY <1>3 DEF RequestArrives, CancelArrives, GoesOn, ReplyAnswered, Arrives, elsewhere
  <2> QED
    BY <2>1 DEF LiveInv
<1>4. CASE TakeOver \/ PauseAgain \/ GiveBack
  BY <1>4 DEF TakeOver, PauseAgain, Paused, GiveBack, Announced, LiveInv
<1>5. CASE PauseArrives \/ ResumeArrives \/ CredentialBegins \/ CredentialEnds
  BY <1>5 DEF PauseArrives, ResumeArrives, Arrives, CredentialBegins, CredentialEnds, LiveInv
<1>6. CASE Detach \/ Attach \/ TurnEnds \/ TurnFails \/ TurnCrash \/ TurnRecheck
  BY <1>6 DEF Detach, Attach, TurnEnds, TurnFails, TurnFinish, TurnCrash, TurnRecheck, elsewhere, LiveInv
<1>7. CASE UNCHANGED interactionVars
  BY <1>7 DEF interactionVars, LiveInv
<1> QED
  BY <1>1, <1>2, <1>3, <1>4, <1>5, <1>6, <1>7 DEF InteractionNext

StaysClosed == \A i \in Questions : request[i] = "closed" => request'[i] = "closed"

\* Notices are only taken in, lost or followed by others.
LEMMA NoticesAgree ==
  ASSUME InteractionSides, AgreeInv, StaysClosed, NEW m \in NoticeRecords,
         m.kind = "cancelled" => request'[m.of] = "closed",
         notices' \in {notices, <<>>, Append(notices, m)}
         \/ (notices # <<>> /\ notices' = Tail(notices))
  PROVE  \A n \in 1 .. Len(notices') :
           notices'[n].kind = "cancelled" => request'[notices'[n].of] = "closed"
<1>1. PICK q \in Seq(NoticeRecords) : q = notices
  BY DEF InteractionSides
<1>2. ASSUME NEW n \in 1 .. Len(q), q[n].kind = "cancelled"
      PROVE  request'[q[n].of] = "closed"
  <2>1. q[n] \in NoticeRecords
    OBVIOUS
  <2>2. q[n].of \in Questions
    BY <1>2, <2>1 DEF NoticeRecords
  <2> QED
    BY <1>1, <1>2, <2>2 DEF AgreeInv, StaysClosed
<1>3. ASSUME notices' = <<>> PROVE Len(notices') = 0
  BY <1>3
<1>4. ASSUME notices' = Append(notices, m), NEW n \in 1 .. Len(notices')
      PROVE  notices'[n] = m \/ (n \in 1 .. Len(q) /\ notices'[n] = q[n])
  BY <1>1, <1>4
<1>5. ASSUME notices # <<>>, notices' = Tail(notices), NEW n \in 1 .. Len(notices')
      PROVE  n + 1 \in 1 .. Len(q) /\ notices'[n] = q[n + 1]
  BY <1>1, <1>5
<1> QED
  BY <1>1, <1>2, <1>3, <1>4, <1>5

\* Steps that resolve nothing, unless Hermes has closed it, and do not make the turn
\* wait or go on.
LEMMA CardsAgree ==
  ASSUME AgreeInv, StaysClosed, turn' = turn \/ turn' \in {"ended", "uncertain"},
         turn = "ended" => turn' = "ended", turn' = "waiting" => apart' = apart,
         turn' # "ended" =>
           \A i \in Questions : card'[i].known = card[i].known
                                /\ card'[i].resolved = card[i].resolved
  PROVE  WaitingAgrees'
<1>1. turn' # "ended" => OpenCards(card) = OpenCards(card)'
  BY DEF OpenCards
<1> QED
  BY <1>1 DEF AgreeInv, WaitingAgrees, StaysClosed

\* Hermes, the computer at its node.
LEMMA HermesAgrees ==
  ASSUME ReplyInv, InteractionSides, AgreeInv, NEW i \in Questions,
         Ask(i) \/ AskAgain(i) \/ Withdraw(i) \/ TakeReply(i) \/ TakeAdrift(i)
  PROVE  AgreeInv'
<1>1. StaysClosed /\ UNCHANGED <<card, turn, apart>>
  BY DEF Ask, AskAgain, Withdraw, TakeReply, TakeAdrift, StaysClosed, InteractionSides,
     elsewhere
<1>2. WaitingAgrees'
  BY <1>1, CardsAgree
<1>3. \A j \in Questions : reply'[j].result = "ok" => request'[j] = "closed"
  <2>1. CASE TakeReply(i)
    BY <1>1, <2>1 DEF TakeReply, StaysClosed, AgreeInv, ReplyInv, ReplyTypes, InteractionSides
  <2>2. CASE Ask(i) \/ AskAgain(i) \/ Withdraw(i) \/ TakeAdrift(i)
    <3>1. UNCHANGED reply
      BY <2>2 DEF Ask, AskAgain, Withdraw, TakeAdrift
    <3> QED
      BY <1>1, <3>1 DEF StaysClosed, AgreeInv
  <2> QED
    BY <2>1, <2>2
<1>4. PICK m \in NoticeRecords :
        /\ m.kind = "cancelled" => request'[m.of] = "closed"
        /\ notices' \in {notices, Append(notices, m)}
  <2>1. /\ Notice("request", i) \in NoticeRecords /\ Notice("cancelled", i) \in NoticeRecords
        /\ Notice("request", i).kind = "request" /\ Notice("cancelled", i).of = i
    BY NoticeTypes DEF Notice
  <2>2. CASE Ask(i) \/ AskAgain(i)
    BY <2>1, <2>2 DEF Ask, AskAgain
  <2>3. CASE Withdraw(i)
    BY <2>1, <2>3 DEF Withdraw, Announced, InteractionSides
  <2>4. CASE TakeReply(i) \/ TakeAdrift(i)
    BY <2>1, <2>4 DEF TakeReply, TakeAdrift
  <2> QED
    BY <2>2, <2>3, <2>4
<1>5. \A n \in 1 .. Len(notices') :
        notices'[n].kind = "cancelled" => request'[notices'[n].of] = "closed"
  BY <1>1, <1>4, NoticesAgree
<1> QED
  BY <1>2, <1>3, <1>5 DEF AgreeInv

\* What changes neither requests nor the outcome of a call, and tells nothing new.
LEMMA QuietStep ==
  ASSUME ReplyInv, InteractionSides, AgreeInv, UNCHANGED request, WaitingAgrees',
         \A i \in Questions : reply'[i].result \in {reply[i].result, "none"},
         \/ notices' \in {notices, <<>>} \/ (notices # <<>> /\ notices' = Tail(notices))
         \/ notices' \in {Append(notices, Notice("paused", Computer)),
                          Append(notices, Notice("resumed", Computer))}
  PROVE  AgreeInv'
<1>1. StaysClosed
  BY DEF StaysClosed
<1>2. \A i \in Questions : reply'[i].result = "ok" => request'[i] = "closed"
  BY DEF AgreeInv
<1>3. PICK m \in NoticeRecords :
        /\ m.kind # "cancelled"
        /\ notices' \in {notices, <<>>, Append(notices, m)}
           \/ (notices # <<>> /\ notices' = Tail(notices))
  <2>1. \A k \in {"paused", "resumed"} :
          Notice(k, Computer) \in NoticeRecords /\ Notice(k, Computer).kind # "cancelled"
    BY NoticeTypes DEF Notice
  <2> QED
    BY <2>1
<1>4. \A n \in 1 .. Len(notices') :
        notices'[n].kind = "cancelled" => request'[notices'[n].of] = "closed"
  BY <1>1, <1>3, NoticesAgree
<1> QED
  BY <1>2, <1>4 DEF AgreeInv

\* A card that is open afterwards, with no other resolved, keeps the turn waiting rightly.
LEMMA OpenStays ==
  ASSUME AgreeInv, UNCHANGED request, turn # "ended",
         NEW i \in Questions, card'[i].known, ~card'[i].resolved,
         \A j \in Questions : card'[j].resolved => card[j].resolved
  PROVE  WaitingAgrees'
<1>1. i \in OpenCards(card')
  BY DEF OpenCards
<1> QED
  BY <1>1 DEF AgreeInv, WaitingAgrees

\* The outcomes of some calls are lost.
LEMMA ReplyLost ==
  ASSUME ReplyInv, NEW is, Lost(is)
  PROVE  \A i \in Questions : reply'[i].result \in {reply[i].result, "none"}
BY DEF Lost, NoCall

\* A request is announced, by Hermes for the first time or again.
LEMMA RequestAgrees ==
  ASSUME ReplyInv, InteractionSides, AgreeInv, NEW i \in Questions, RequestArrives(i),
         turn # "ended"
  PROVE  AgreeInv'
<1>1. /\ UNCHANGED <<request, apart>> /\ notices # <<>> /\ notices' = Tail(notices)
  BY DEF RequestArrives, Arrives, elsewhere
<1>2. /\ \A j \in Questions : reply'[j].result \in {reply[j].result, "none"}
      /\ WaitingAgrees'
  <2>1. CASE card[i].resolved
    <3>1. UNCHANGED <<card, reply, turn>>
      BY <2>1 DEF RequestArrives
    <3> QED
      BY <1>1, <3>1, CardsAgree DEF StaysClosed
  <2>2. CASE ~card[i].resolved
    <3>1. /\ card[i] \in [known : BOOLEAN, resolved : BOOLEAN, answer : Replies \cup {NoReply},
                          state : {"none", "sending", "sent", "uncertain"}]
          /\ card \in [Questions -> [known : BOOLEAN, resolved : BOOLEAN,
                                     answer : Replies \cup {NoReply},
                                     state : {"none", "sending", "sent", "uncertain"}]]
      BY DEF ReplyInv, ReplyTypes
    <3>2. \/ /\ card' = [card EXCEPT ![i] = Sending(i, "once")]
             /\ reply' = [reply EXCEPT ![i] = [answer |-> "once", result |-> "none"]]
          \/ /\ card' = [card EXCEPT ![i] = [card[i] EXCEPT !.known = TRUE]]
             /\ UNCHANGED reply
      BY <2>2, <3>1 DEF RequestArrives
    <3>3. /\ Sending(i, "once").known = TRUE
          /\ Sending(i, "once").resolved = card[i].resolved
      BY <3>1 DEF Sending
    <3>4. card'[i].known = TRUE /\ card'[i].resolved = card[i].resolved
      BY <3>1, <3>2, <3>3
    <3>5. \A j \in Questions : j # i => card'[j] = card[j]
      BY <3>1, <3>2
    <3>6. \A j \in Questions : reply'[j].result \in {reply[j].result, "none"}
      BY <3>2 DEF ReplyInv, ReplyTypes
    <3> QED
      BY <1>1, <2>2, <3>4, <3>5, <3>6, OpenStays
  <2> QED
    BY <2>1, <2>2
<1> QED
  BY <1>1, <1>2, QuietStep

\* It is withdrawn.
LEMMA CancelAgrees ==
  ASSUME ReplyInv, InteractionSides, AgreeInv, NEW i \in Questions, CancelArrives(i),
         turn # "ended"
  PROVE  AgreeInv'
<1>1. /\ UNCHANGED <<request, apart, reply>> /\ notices # <<>> /\ notices' = Tail(notices)
      /\ Head(notices) = Notice("cancelled", i)
      /\ card' = [card EXCEPT ![i].resolved = card[i].known]
      /\ turn' = IF turn = "waiting" /\ OpenCards(card') = {} THEN "running" ELSE turn
  BY DEF CancelArrives, Arrives, elsewhere, GoesOn
<1>2. request[i] = "closed"
  <2>1. 1 \in 1 .. Len(notices) /\ notices[1] = Notice("cancelled", i)
    BY <1>1 DEF InteractionSides
  <2>2. notices[1].kind = "cancelled" /\ notices[1].of = i
    BY <2>1 DEF Notice
  <2> QED
    BY <2>1, <2>2 DEF AgreeInv
<1>3. \A j \in Questions : j # i => card'[j] = card[j]
  BY <1>1 DEF ReplyInv, ReplyTypes
<1>4. WaitingAgrees'
  <2>1. \A j \in Questions : card'[j].resolved => request'[j] = "closed"
    BY <1>1, <1>2, <1>3 DEF AgreeInv, WaitingAgrees
  <2>2. turn' = "waiting" => OpenCards(card)' # {}
    BY <1>1 DEF OpenCards
  <2> QED
    BY <2>1, <2>2 DEF WaitingAgrees
<1> QED
  BY <1>1, <1>4, QuietStep

\* The call that answered it comes back.
LEMMA AnswerAgrees ==
  ASSUME ReplyInv, InteractionSides, AgreeInv, NEW i \in Questions, ReplyAnswered(i)
  PROVE  AgreeInv'
<1>1. /\ UNCHANGED <<request, notices, apart>> /\ reply' = [reply EXCEPT ![i] = NoCall]
  BY DEF ReplyAnswered, elsewhere
<1>2. \A j \in Questions : reply'[j].result \in {reply[j].result, "none"}
  BY <1>1 DEF NoCall, ReplyInv, ReplyTypes
<1>3. WaitingAgrees'
  <2>1. CASE reply[i].result = "ok"
    <3>1. /\ request[i] = "closed"
          /\ card' = [card EXCEPT ![i].resolved = TRUE, ![i].state = "sent"]
          /\ turn' = IF turn = "waiting" THEN "running" ELSE turn
      BY <2>1 DEF ReplyAnswered, AgreeInv
    <3>2. \A j \in Questions : j # i => card'[j] = card[j]
      BY <3>1 DEF ReplyInv, ReplyTypes
    <3>3. turn' # "waiting" /\ (turn' # "ended" => turn # "ended")
      BY <3>1
    <3> QED
      BY <1>1, <3>1, <3>2, <3>3 DEF AgreeInv, WaitingAgrees
  <2>2. CASE reply[i].result # "ok"
    <3>1. \A j \in Questions : card'[j].known = card[j].known
                              /\ card'[j].resolved = card[j].resolved
      BY <2>2 DEF ReplyAnswered, ReplyInv, ReplyTypes
    <3>2. turn' = turn
      BY <2>2 DEF ReplyAnswered
    <3> QED
      BY <1>1, <3>1, <3>2, CardsAgree DEF StaysClosed
  <2> QED
    BY <2>1, <2>2
<1> QED
  BY <1>1, <1>2, <1>3, QuietStep

\* The user replies, with a connection or without one.
LEMMA ResponseAgrees ==
  ASSUME ReplyInv, InteractionSides, AgreeInv, NEW i \in Questions, NEW a \in Replies,
         Respond(i, a) \/ RespondInVain(i, a)
  PROVE  AgreeInv'
<1>1. /\ UNCHANGED <<request, notices, apart, turn>> /\ turn \in {"running", "waiting"}
      /\ card[i].known /\ ~card[i].resolved
  BY DEF Respond, RespondInVain, Answerable, elsewhere
<1> DEFINE Cards == [known : BOOLEAN, resolved : BOOLEAN, answer : Replies \cup {NoReply},
                     state : {"none", "sending", "sent", "uncertain"}]
<1>2. /\ \A j \in Questions : j # i => card'[j] = card[j]
      /\ card'[i].known /\ ~card'[i].resolved
  <2>1. card \in [Questions -> Cards] /\ card[i] \in Cards
    BY DEF ReplyInv, ReplyTypes
  <2>2. CASE Respond(i, a)
    <3>1. card' = [card EXCEPT ![i] = Sending(i, a)]
      BY <2>2 DEF Respond
    <3>2. Sending(i, a).known = TRUE /\ Sending(i, a).resolved = card[i].resolved
      BY <2>1 DEF Sending
    <3> QED
      BY <1>1, <2>1, <3>1, <3>2
  <2>3. CASE RespondInVain(i, a)
    <3>1. card' = [card EXCEPT ![i] = [card[i] EXCEPT !.answer = a, !.state = "uncertain"]]
      BY <2>1, <2>3 DEF RespondInVain
    <3> QED
      BY <1>1, <2>1, <3>1
  <2> QED
    BY <2>2, <2>3
<1>3. \A j \in Questions : reply'[j].result \in {reply[j].result, "none"}
  <2>1. reply' = reply \/ reply' = [reply EXCEPT ![i] = [answer |-> a, result |-> "none"]]
    BY DEF Respond, RespondInVain
  <2> QED
    BY <2>1 DEF ReplyInv, ReplyTypes
<1>4. WaitingAgrees'
  BY <1>1, <1>2, OpenStays
<1> QED
  BY <1>1, <1>3, <1>4, QuietStep

\* Calls are lost, the connection breaks, the turn fails, ends or is rechecked.
LEMMA BreaksAgree ==
  ASSUME ReplyInv, InteractionSides, AgreeInv,
         Detach \/ Attach \/ TurnEnds \/ TurnFails \/ TurnCrash \/ TurnRecheck
         \/ \E i \in Questions : ReplyTimesOut(i)
  PROVE  AgreeInv'
<1>1. CASE Detach \/ \E i \in Questions : ReplyTimesOut(i)
  <2>1. PICK is : /\ Lost(is) /\ card' = Uncertain(is)
                  /\ UNCHANGED <<request, turn, apart>> /\ notices' \in {notices, <<>>}
    BY <1>1 DEF Detach, ReplyTimesOut, elsewhere
  <2>2. WaitingAgrees'
    BY <2>1, UncertainCards, CardsAgree DEF StaysClosed
  <2> QED
    BY <2>1, <2>2, ReplyLost, QuietStep
<1>2. CASE Attach \/ TurnRecheck
  <2>1. /\ UNCHANGED <<request, card, reply, apart, notices>>
        /\ turn' = turn \/ (turn = "uncertain" /\ turn' = "running")
    BY <1>2 DEF Attach, TurnRecheck, elsewhere
  <2>2. WaitingAgrees'
    BY <2>1 DEF AgreeInv, WaitingAgrees, OpenCards
  <2> QED
    BY <2>1, <2>2, QuietStep
<1>3. CASE TurnEnds \/ TurnFails
  <2>1. PICK outcome \in {"ended", "uncertain"} :
          /\ turn' = outcome /\ card' = CardsAfter(outcome) /\ Lost(UnderWay)
          /\ notices' = <<>> /\ UNCHANGED request /\ turn # "ended"
    BY <1>3 DEF TurnEnds, TurnFails, TurnFinish
  <2>2. WaitingAgrees'
    BY <2>1, CardsAtTheEnd, CardsAgree DEF StaysClosed
  <2> QED
    BY <2>1, <2>2, ReplyLost, QuietStep
<1>4. CASE TurnCrash
  <2>1. /\ turn' = "uncertain" /\ turn \in {"running", "waiting"} /\ Lost(UnderWay)
        /\ notices' = <<>> /\ UNCHANGED <<request, card>>
    BY <1>4 DEF TurnCrash
  <2>2. WaitingAgrees'
    BY <2>1, CardsAgree DEF StaysClosed
  <2> QED
    BY <2>1, <2>2, ReplyLost, QuietStep
<1> QED
  BY <1>1, <1>2, <1>3, <1>4

\* A person takes the computer, a credential is used.
LEMMA InterruptionAgrees ==
  ASSUME ReplyInv, InteractionSides, AgreeInv, LiveInv, Interruption
  PROVE  AgreeInv'
<1>1. UNCHANGED <<request, card, reply>>
  BY InterruptionKeeps
<1>2. \/ notices' = notices \/ (notices # <<>> /\ notices' = Tail(notices))
      \/ notices' \in {Append(notices, Notice("paused", Computer)),
                       Append(notices, Notice("resumed", Computer))}
  BY DEF Interruption, TakeOver, PauseAgain, Paused, GiveBack, Announced, PauseArrives,
     ResumeArrives, Arrives, CredentialBegins, CredentialEnds
<1>3. \/ UNCHANGED <<turn, apart>>
      \/ turn # "ended" /\ (turn' = "running" \/ (turn' = "waiting" /\ apart' # {}))
  BY DEF Interruption, TakeOver, PauseAgain, Paused, GiveBack, PauseArrives, ResumeArrives,
     Arrives, CredentialBegins, CredentialEnds, LiveInv
<1>4. WaitingAgrees'
  BY <1>1, <1>3 DEF AgreeInv, WaitingAgrees, OpenCards
<1> QED
  BY <1>1, <1>2, <1>4, QuietStep

LEMMA NextAgrees ==
  ReplyInv /\ InteractionSides /\ LiveInv /\ AgreeInv /\ [InteractionNext]_interactionVars
    => AgreeInv'
<1> SUFFICES ASSUME ReplyInv, InteractionSides, LiveInv, AgreeInv,
                    [InteractionNext]_interactionVars
             PROVE  AgreeInv'
  OBVIOUS
<1>1. ASSUME NEW i \in Questions, RequestArrives(i) \/ CancelArrives(i)
      PROVE  AgreeInv'
  <2>1. turn # "ended"
    BY <1>1 DEF RequestArrives, CancelArrives, Arrives, LiveInv
  <2> QED
    BY <1>1, <2>1, RequestAgrees, CancelAgrees
<1>2. CASE UNCHANGED interactionVars
  BY <1>2 DEF interactionVars, AgreeInv, WaitingAgrees, OpenCards
<1>3. CASE Interruption
  BY <1>3, InterruptionAgrees
<1> QED
  BY <1>1, <1>2, <1>3, HermesAgrees, AnswerAgrees, ResponseAgrees, BreaksAgree
     DEF InteractionNext, Interruption

\* What counts as resolved in a turn that is not over is closed at Hermes, so no request
\* announced again is passed over; and a turn waits only for an unresolved card, a
\* computer that was taken over or a credential in use (workspaceRuntime.ts, the events
\* of a turn, respond and finish).
THEOREM SidesAgree == InteractionSpec => []WaitingAgrees
<1>1. InteractionInit => AgreeInv /\ LiveInv
  BY DEF InteractionInit, AgreeInv, LiveInv, WaitingAgrees, NoCall, NoCard
<1>2. AgreeInv => WaitingAgrees
  BY DEF AgreeInv
<1> QED
  BY <1>1, <1>2, LiveNext, NextAgrees, RepliesInductive, SidesInductive, PTL
     DEF InteractionSpec

-----------------------------------------------------------------------------
(* READS OF HERMES                                                         *)

Versions == 0 .. MaxChanges
CacheEntries == [value : Versions, age : {"fresh", "stale", "dead", "absent"}]
Flights == [on : {TRUE}, key : Keys, seen : Versions \cup {Unread}, void : BOOLEAN]

CacheTypes ==
  /\ version \in [Keys -> Versions] /\ settled \in [Keys -> Versions]
  /\ kept \in [Keys -> CacheEntries]
  /\ loads \in [Slots -> {NoFlight} \cup Flights]
  /\ joinable \in [Keys -> Slots \cup {NoLoad}]
  /\ reader \in [Readers ->
       {Resting} \cup [doing : {"waits"}, key : Keys, load : Slots, since : Versions]
                 \cup [doing : {"got"}, key : Keys, value : Versions, since : Versions]]

\* What is reported has happened.
SettledInv == \A k \in Keys : settled[k] <= version[k]

\* No entry, whatever its age, is older than the last change that was reported.
EntryInv == \A k \in Keys : kept[k].age # "absent" => settled[k] <= kept[k].value

\* A load that nobody has invalidated is the one that readers of its key join, and
\* what it has seen is not older than the last change that was reported.
LoadInv ==
  /\ \A s \in Slots : loads[s].on /\ ~loads[s].void =>
       joinable[loads[s].key] = s /\ settled[loads[s].key] <= loads[s].seen
  /\ \A k \in Keys : joinable[k] # NoLoad =>
       loads[joinable[k]].on /\ loads[joinable[k]].key = k /\ ~loads[joinable[k]].void

\* Who waits will not get less than it knew of; void loads may be read by those who
\* began before.
ReaderInv ==
  \A r \in Readers :
    /\ reader[r].doing = "waits" =>
         LET load == loads[reader[r].load] IN
         /\ load.on /\ load.key = reader[r].key
         /\ reader[r].since <= settled[load.key] /\ reader[r].since <= load.seen
    /\ reader[r].doing = "got" => reader[r].since <= reader[r].value

CacheInv == CacheTypes /\ SettledInv /\ EntryInv /\ LoadInv /\ ReaderInv

-----------------------------------------------------------------------------
(* Lemmas about flights                                                    *)

LEMMA Constants ==
  /\ MaxChanges \in Nat /\ LoadLimit \in Nat \ {0} /\ EntryLimit \in Nat
  /\ Unread \in Nat /\ Unread = MaxChanges + 1 /\ NoLoad \notin Slots
  BY CacheAssumption DEF Unread, NoLoad, Slots

\* A load that is on has a key; a free slot has nothing.
LEMMA OnFlight ==
  ASSUME CacheTypes, NEW s \in Slots
  PROVE  /\ loads[s].on \in BOOLEAN
         /\ loads[s].on => loads[s] \in Flights
         /\ ~loads[s].on => loads[s] = NoFlight
<1>1. loads[s] = NoFlight \/ loads[s] \in Flights
  BY DEF CacheTypes
<1>2. CASE loads[s] = NoFlight
  <2>1. loads[s].on = FALSE
    BY <1>2 DEF NoFlight
  <2> QED
    BY <1>2, <2>1
<1>3. CASE loads[s] \in Flights
  <2>1. loads[s].on = TRUE
    BY <1>3 DEF Flights
  <2> QED
    BY <1>3, <2>1
<1> QED
  BY <1>1, <1>2, <1>3

LEMMA FreeFlight == ~NoFlight.on
  BY DEF NoFlight

LEMMA NewFlight ==
  ASSUME NEW k \in Keys
  PROVE  /\ Flight(k) \in Flights
         /\ Flight(k).on /\ Flight(k).key = k /\ ~Flight(k).void /\ Flight(k).seen = Unread
  BY DEF Flight, Flights

-----------------------------------------------------------------------------
(* Parts of steps                                                          *)

LEMMA InitCache == CacheInit => CacheInv
<1> SUFFICES ASSUME CacheInit PROVE CacheInv
  OBVIOUS
<1>1. CacheTypes
  BY Constants DEF CacheInit, CacheTypes, Versions, CacheEntries, Absent
<1>2. SettledInv /\ EntryInv
  BY DEF CacheInit, SettledInv, EntryInv, Absent
<1>3. LoadInv /\ ReaderInv
  BY DEF CacheInit, LoadInv, ReaderInv, NoFlight, Resting, NoLoad
<1> QED
  BY <1>1, <1>2, <1>3 DEF CacheInv

\* A load is started for a key nobody loads, and nothing else changes but entries
\* that go and readers that begin to wait or have got what was known.
LEMMA LaunchInv ==
  ASSUME CacheInv, NEW k \in Keys, NEW s \in Slots, Launch(k, s), joinable[k] = NoLoad,
         UNCHANGED <<version, settled>>
  PROVE  /\ loads' \in [Slots -> {NoFlight} \cup Flights]
         /\ joinable' \in [Keys -> Slots \cup {NoLoad}]
         /\ LoadInv'
         /\ loads'[s] = Flight(k)
         /\ \A t \in Slots : t # s => loads'[t] = loads[t]
         /\ ~loads[s].on
<1>1. CacheTypes /\ LoadInv
  BY DEF CacheInv
<1>2. ~loads[s].on
  BY DEF Launch, Loading
<1>3. loads' \in [Slots -> {NoFlight} \cup Flights] /\ joinable' \in [Keys -> Slots \cup {NoLoad}]
  BY <1>1, NewFlight DEF Launch, CacheTypes
<1>4. loads'[s] = Flight(k) /\ \A t \in Slots : t # s => loads'[t] = loads[t]
  BY <1>1 DEF Launch, CacheTypes
<1>5. joinable'[k] = s /\ \A j \in Keys : j # k => joinable'[j] = joinable[j]
  BY <1>1 DEF Launch, CacheTypes
<1>6. ASSUME NEW t \in Slots, loads'[t].on, ~loads'[t].void
      PROVE  joinable'[loads'[t].key] = t /\ settled'[loads'[t].key] <= loads'[t].seen
  <2>1. CASE t = s
    BY <1>4, <1>5, <2>1, NewFlight, Constants, <1>1 DEF CacheTypes, Versions
  <2>2. CASE t # s
    <3>1. loads'[t] = loads[t] /\ loads[t] \in Flights
      BY <1>1, <1>4, <1>6, <2>2, OnFlight
    <3>2. joinable[loads[t].key] = t
      BY <1>1, <1>6, <3>1 DEF LoadInv
    <3>3. loads[t].key # k
      BY <3>2, Constants
    <3> QED
      BY <1>1, <1>5, <1>6, <3>1, <3>2, <3>3 DEF LoadInv, Flights
  <2> QED
    BY <2>1, <2>2
<1>7. ASSUME NEW j \in Keys, joinable'[j] # NoLoad
      PROVE  loads'[joinable'[j]].on /\ loads'[joinable'[j]].key = j /\ ~loads'[joinable'[j]].void
  <2>1. CASE j = k
    BY <1>4, <1>5, <2>1, NewFlight
  <2>2. CASE j # k
    <3>1. joinable'[j] = joinable[j] /\ joinable[j] \in Slots /\ loads[joinable[j]].on
      BY <1>1, <1>5, <1>7, <2>2 DEF LoadInv, CacheTypes
    <3> QED
      BY <1>1, <1>2, <1>4, <1>7, <3>1 DEF LoadInv
  <2> QED
    BY <2>1, <2>2
<1> QED
  BY <1>2, <1>3, <1>4, <1>6, <1>7 DEF LoadInv

\* Who waits for a load goes on waiting when it stays and has not seen less.
LEMMA WaitersKept ==
  ASSUME CacheInv, UNCHANGED reader,
         settled' \in [Keys -> Versions], \A k \in Keys : settled[k] <= settled'[k],
         loads' \in [Slots -> {NoFlight} \cup Flights],
         \A s \in Slots : loads[s].on =>
           loads'[s].on /\ loads'[s].key = loads[s].key
           /\ (loads'[s].seen = loads[s].seen \/ settled[loads[s].key] <= loads'[s].seen)
  PROVE  ReaderInv'
<1> SUFFICES ASSUME NEW r \in Readers, reader[r].doing = "waits"
             PROVE  LET load == loads'[reader[r].load] IN
                    /\ load.on /\ load.key = reader[r].key
                    /\ reader[r].since <= settled'[load.key] /\ reader[r].since <= load.seen
  BY DEF CacheInv, ReaderInv
<1>1. reader[r].load \in Slots /\ reader[r].since \in Versions /\ reader[r].key \in Keys
  BY DEF CacheInv, CacheTypes, Resting
<1> DEFINE s == reader[r].load
<1>2. /\ loads[s].on /\ loads[s].key = reader[r].key
      /\ reader[r].since <= settled[loads[s].key] /\ reader[r].since <= loads[s].seen
  BY DEF CacheInv, ReaderInv
<1> HIDE DEF s
<1>3. loads'[s].on /\ loads'[s].key = loads[s].key
      /\ (loads'[s].seen = loads[s].seen \/ settled[loads[s].key] <= loads'[s].seen)
  BY <1>1, <1>2 DEF s
<1>4. settled[loads[s].key] \in Nat /\ settled'[loads[s].key] \in Nat /\ reader[r].since \in Nat
  BY <1>1, <1>2, Constants DEF CacheInv, CacheTypes, Versions
<1>5. reader[r].since <= loads'[s].seen
  <2>1. CASE loads'[s].seen = loads[s].seen
    BY <1>2, <2>1
  <2>2. CASE settled[loads[s].key] <= loads'[s].seen
    <3>1. loads'[s] \in Flights
      BY <1>1, <1>3, FreeFlight DEF s
    <3>2. loads'[s].seen \in Versions \cup {Unread}
      BY <3>1 DEF Flights
    <3>3. loads'[s].seen \in Nat
      BY <3>2, Constants DEF Versions
    <3> QED
      BY <1>2, <1>4, <2>2, <3>3
  <2> QED
    BY <1>3, <2>1, <2>2
<1>6. reader[r].since <= settled'[loads[s].key]
  BY <1>1, <1>2, <1>4
<1> QED
  BY <1>2, <1>3, <1>5, <1>6 DEF s

-----------------------------------------------------------------------------
(* The actions                                                             *)

LEMMA ReadHitInv ==
  ASSUME CacheInv, NEW r \in Readers, NEW k \in Keys, ReadHit(r, k)
  PROVE  CacheInv'
<1> DEFINE result == [doing |-> "got", key |-> k, value |-> kept[k].value, since |-> settled[k]]
<1>1. reader' = [reader EXCEPT ![r] = result] /\ UNCHANGED <<version, kept, settled>>
  BY DEF ReadHit, Got
<1>2. result \in [doing : {"got"}, key : Keys, value : Versions, since : Versions]
      /\ result.doing = "got" /\ result.since <= result.value
  BY DEF CacheInv, CacheTypes, EntryInv, ReadHit, CacheEntries
<1> HIDE DEF result
<1>3. /\ loads' \in [Slots -> {NoFlight} \cup Flights] /\ joinable' \in [Keys -> Slots \cup {NoLoad}]
      /\ LoadInv' /\ \A s \in Slots : loads[s].on => loads'[s] = loads[s]
  <2>1. CASE UNCHANGED <<loads, joinable>>
    BY <1>1, <2>1 DEF CacheInv, CacheTypes, LoadInv
  <2>2. CASE \E s \in Slots : Launch(k, s) /\ joinable[k] = NoLoad
    BY <1>1, <2>2, LaunchInv
  <2> QED
    BY <2>1, <2>2 DEF ReadHit
<1>4. CacheTypes'
  BY <1>1, <1>2, <1>3 DEF CacheInv, CacheTypes
<1>5. SettledInv' /\ EntryInv'
  BY <1>1 DEF CacheInv, SettledInv, EntryInv
<1>6. ReaderInv'
  <2> SUFFICES ASSUME NEW q \in Readers
               PROVE  /\ reader'[q].doing = "waits" =>
                           LET load == loads'[reader'[q].load] IN
                           /\ load.on /\ load.key = reader'[q].key
                           /\ reader'[q].since <= settled'[load.key]
                           /\ reader'[q].since <= load.seen
                      /\ reader'[q].doing = "got" => reader'[q].since <= reader'[q].value
    BY DEF ReaderInv
  <2>1. CASE q = r
    <3>1. reader'[q] = result
      BY <1>1, <2>1 DEF CacheInv, CacheTypes
    <3> QED
      BY <1>2, <3>1
  <2>2. CASE q # r
    <3>1. reader'[q] = reader[q]
      BY <1>1, <2>2 DEF CacheInv, CacheTypes
    <3>2. reader[q].doing = "waits" => reader[q].load \in Slots
      BY DEF CacheInv, CacheTypes, Resting
    <3> QED
      BY <1>1, <1>3, <3>1, <3>2 DEF CacheInv, ReaderInv
  <2> QED
    BY <2>1, <2>2
<1> QED
  BY <1>3, <1>4, <1>5, <1>6 DEF CacheInv

LEMMA ReadMissInv ==
  ASSUME CacheInv, NEW r \in Readers, NEW k \in Keys, ReadMiss(r, k)
  PROVE  CacheInv'
<1>0. UNCHANGED <<version, settled>> /\ kept' = [kept EXCEPT ![k] = Absent]
  BY DEF ReadMiss
<1>1. PICK s \in Slots :
        /\ IF joinable[k] # NoLoad
           THEN s = joinable[k] /\ UNCHANGED <<loads, joinable>>
           ELSE Launch(k, s)
        /\ reader' = [reader EXCEPT ![r] = [doing |-> "waits", key |-> k, load |-> s,
                                            since |-> settled[k]]]
  BY DEF ReadMiss
<1> DEFINE wait == [doing |-> "waits", key |-> k, load |-> s, since |-> settled[k]]
<1>2. wait \in [doing : {"waits"}, key : Keys, load : Slots, since : Versions]
      /\ wait.doing = "waits" /\ wait.load = s /\ wait.key = k /\ wait.since = settled[k]
  BY DEF CacheInv, CacheTypes
<1>3. reader' = [reader EXCEPT ![r] = wait]
  BY <1>1
<1> HIDE DEF wait
<1>4. /\ loads' \in [Slots -> {NoFlight} \cup Flights] /\ joinable' \in [Keys -> Slots \cup {NoLoad}]
      /\ LoadInv' /\ \A t \in Slots : loads[t].on => loads'[t] = loads[t]
      /\ loads'[s].on /\ loads'[s].key = k /\ ~loads'[s].void
  <2>1. CASE joinable[k] # NoLoad
    <3>1. s = joinable[k] /\ UNCHANGED <<loads, joinable>>
      BY <1>1, <2>1
    <3> QED
      BY <1>0, <2>1, <3>1 DEF CacheInv, CacheTypes, LoadInv
  <2>2. CASE joinable[k] = NoLoad
    <3>1. Launch(k, s)
      BY <1>1, <2>2
    <3> QED
      BY <1>0, <2>2, <3>1, LaunchInv, NewFlight
  <2> QED
    BY <2>1, <2>2
<1>5. CacheTypes'
  <2>1. Absent \in CacheEntries
    BY Constants DEF Absent, CacheEntries, Versions
  <2> QED
    BY <1>0, <1>2, <1>3, <1>4, <2>1 DEF CacheInv, CacheTypes
<1>6. SettledInv' /\ EntryInv'
  <2>1. Absent.age = "absent"
    BY DEF Absent
  <2> QED
    BY <1>0, <2>1 DEF CacheInv, CacheTypes, SettledInv, EntryInv
<1>7. ReaderInv'
  <2> SUFFICES ASSUME NEW q \in Readers
               PROVE  /\ reader'[q].doing = "waits" =>
                           LET load == loads'[reader'[q].load] IN
                           /\ load.on /\ load.key = reader'[q].key
                           /\ reader'[q].since <= settled'[load.key]
                           /\ reader'[q].since <= load.seen
                      /\ reader'[q].doing = "got" => reader'[q].since <= reader'[q].value
    BY DEF ReaderInv
  <2>1. CASE q = r
    <3>1. reader'[q] = wait
      BY <1>3, <2>1 DEF CacheInv, CacheTypes
    <3>2. settled'[k] <= loads'[s].seen
      BY <1>4 DEF LoadInv
    <3>3. settled[k] <= settled'[k]
      BY <1>0, Constants DEF CacheInv, CacheTypes, Versions
    <3> QED
      BY <1>0, <1>2, <1>4, <3>1, <3>2, <3>3
  <2>2. CASE q # r
    <3>1. reader'[q] = reader[q]
      BY <1>3, <2>2 DEF CacheInv, CacheTypes
    <3>2. reader[q].doing = "waits" => reader[q].load \in Slots
      BY DEF CacheInv, CacheTypes, Resting
    <3> QED
      BY <1>0, <1>4, <3>1, <3>2 DEF CacheInv, ReaderInv
  <2> QED
    BY <2>1, <2>2
<1> QED
  BY <1>4, <1>5, <1>6, <1>7 DEF CacheInv

\* Hermes answers a load: what it gives is at least what was reported before.
LEMMA LoadReadsInv ==
  ASSUME CacheInv, NEW s \in Slots, LoadReads(s)
  PROVE  CacheInv'
<1> DEFINE k == loads[s].key
<1>1. loads[s].on /\ loads[s] \in Flights /\ k \in Keys
  BY OnFlight DEF CacheInv, LoadReads, Flights
<1>2. /\ UNCHANGED <<version, kept, joinable, reader, settled>>
      /\ loads' = [loads EXCEPT ![s] = [loads[s] EXCEPT !.seen = version[k]]]
  BY DEF LoadReads
<1> DEFINE read == [loads[s] EXCEPT !.seen = version[k]]
<1>3. /\ read \in Flights /\ read.on /\ read.key = k /\ read.void = loads[s].void
      /\ read.seen = version[k]
  BY <1>1 DEF CacheInv, CacheTypes, Flights
<1> HIDE DEF read
<1>4. loads' = [loads EXCEPT ![s] = read]
  BY <1>2 DEF read
<1>5. loads'[s] = read /\ \A t \in Slots : t # s => loads'[t] = loads[t]
  BY <1>4 DEF CacheInv, CacheTypes
<1>6. CacheTypes'
  BY <1>2, <1>3, <1>4 DEF CacheInv, CacheTypes
<1>7. SettledInv' /\ EntryInv'
  BY <1>2 DEF CacheInv, SettledInv, EntryInv
<1>8. settled[k] <= version[k]
  BY <1>1 DEF CacheInv, SettledInv
<1>9. LoadInv'
  <2>1. ASSUME NEW t \in Slots, loads'[t].on, ~loads'[t].void
        PROVE  joinable'[loads'[t].key] = t /\ settled'[loads'[t].key] <= loads'[t].seen
    <3>1. CASE t = s
      BY <1>1, <1>2, <1>3, <1>5, <1>8, <2>1, <3>1 DEF CacheInv, LoadInv
    <3>2. CASE t # s
      BY <1>2, <1>5, <2>1, <3>2 DEF CacheInv, LoadInv
    <3> QED
      BY <3>1, <3>2
  <2>2. ASSUME NEW j \in Keys, joinable'[j] # NoLoad
        PROVE  loads'[joinable'[j]].on /\ loads'[joinable'[j]].key = j /\ ~loads'[joinable'[j]].void
    <3>1. joinable[j] \in Slots /\ loads[joinable[j]].on /\ loads[joinable[j]].key = j
          /\ ~loads[joinable[j]].void /\ joinable'[j] = joinable[j]
      BY <1>2, <2>2 DEF CacheInv, CacheTypes, LoadInv
    <3> QED
      BY <1>3, <1>5, <3>1
  <2> QED
    BY <2>1, <2>2 DEF LoadInv
<1>10. ReaderInv'
  <2>1. \A t \in Slots : loads[t].on =>
          loads'[t].on /\ loads'[t].key = loads[t].key
          /\ (loads'[t].seen = loads[t].seen \/ settled[loads[t].key] <= loads'[t].seen)
    BY <1>3, <1>5, <1>8
  <2>2. settled' \in [Keys -> Versions] /\ \A j \in Keys : settled[j] <= settled'[j]
    BY <1>2, Constants DEF CacheInv, CacheTypes, Versions
  <2> QED
    BY <1>2, <1>6, <2>1, <2>2, WaitersKept DEF CacheTypes
<1> QED
  BY <1>6, <1>7, <1>9, <1>10 DEF CacheInv

\* An answer is kept when nobody has invalidated the load; its readers get it.
LEMMA LoadReturnsInv ==
  ASSUME CacheInv, NEW s \in Slots, LoadReturns(s)
  PROVE  CacheInv'
<1> DEFINE k == loads[s].key
<1> DEFINE answered == [value |-> loads[s].seen, age |-> "fresh"]
<1> DEFINE given(r) == [doing |-> "got", key |-> k, value |-> loads[s].seen,
                        since |-> reader[r].since]
<1>1. loads[s].on /\ loads[s] \in Flights /\ k \in Keys /\ loads[s].seen \in Versions
  <2>1. loads[s].on /\ loads[s].seen # Unread
    BY DEF LoadReturns
  <2>2. loads[s] \in Flights
    BY <2>1, OnFlight DEF CacheInv
  <2> QED
    BY <2>1, <2>2 DEF Flights
<1>2. /\ UNCHANGED <<version, settled>>
      /\ loads' = [loads EXCEPT ![s] = NoFlight]
      /\ joinable' = IF joinable[k] = s THEN [joinable EXCEPT ![k] = NoLoad] ELSE joinable
      /\ reader' = [r \in Readers |-> IF reader[r].doing = "waits" /\ reader[r].load = s
                                      THEN given(r) ELSE reader[r]]
  BY DEF LoadReturns
<1>3. loads'[s] = NoFlight /\ \A t \in Slots : t # s => loads'[t] = loads[t]
  BY <1>2 DEF CacheInv, CacheTypes
<1>4. kept' \in [Keys -> CacheEntries]
      /\ \A j \in Keys : \/ kept'[j] = kept[j] \/ kept'[j] = Absent
                         \/ j = k /\ kept'[j] = answered /\ ~loads[s].void
  <2> DEFINE filled == [kept EXCEPT ![k] = answered]
  <2>1. Absent \in CacheEntries /\ answered \in CacheEntries
    BY <1>1, Constants DEF Absent, CacheEntries, Versions
  <2>2. filled \in [Keys -> CacheEntries] /\ filled[k] = answered
        /\ \A j \in Keys : j # k => filled[j] = kept[j]
    BY <1>1, <2>1 DEF CacheInv, CacheTypes
  <2> HIDE DEF filled, answered
  <2>3. CASE UNCHANGED kept
    BY <2>3 DEF CacheInv, CacheTypes
  <2>4. CASE ~loads[s].void /\ kept' = filled
    BY <2>2, <2>4
  <2>5. CASE ~loads[s].void /\ \E i \in Keys : i # k /\ kept' = [filled EXCEPT ![i] = Absent]
    BY <2>1, <2>2, <2>5
  <2> QED
    BY <2>3, <2>4, <2>5 DEF LoadReturns, MayKeep, filled, answered
<1>5. CacheTypes'
  <2>1. loads' \in [Slots -> {NoFlight} \cup Flights]
    BY <1>2 DEF CacheInv, CacheTypes
  <2>2. joinable' \in [Keys -> Slots \cup {NoLoad}]
    BY <1>2 DEF CacheInv, CacheTypes
  <2>3. ASSUME NEW r \in Readers, reader[r].doing = "waits"
        PROVE  given(r) \in [doing : {"got"}, key : Keys, value : Versions, since : Versions]
    <3>1. reader[r].since \in Versions
      BY <2>3 DEF CacheInv, CacheTypes, Resting
    <3> QED
      BY <1>1, <3>1
  <2> HIDE DEF given
  <2>4. reader' \in [Readers ->
          {Resting} \cup [doing : {"waits"}, key : Keys, load : Slots, since : Versions]
                    \cup [doing : {"got"}, key : Keys, value : Versions, since : Versions]]
    BY <1>2, <2>3 DEF CacheInv, CacheTypes
  <2> QED
    BY <1>2, <1>4, <2>1, <2>2, <2>4 DEF CacheInv, CacheTypes
<1>6. SettledInv'
  BY <1>2 DEF CacheInv, SettledInv
<1>7. EntryInv'
  <2> SUFFICES ASSUME NEW j \in Keys, kept'[j].age # "absent"
               PROVE  settled'[j] <= kept'[j].value
    BY DEF EntryInv
  <2>1. CASE kept'[j] = kept[j]
    BY <1>2, <2>1 DEF CacheInv, EntryInv
  <2>2. CASE kept'[j] = Absent
    BY <2>2 DEF Absent
  <2>3. CASE j = k /\ kept'[j] = answered /\ ~loads[s].void
    BY <1>1, <1>2, <2>3 DEF CacheInv, LoadInv
  <2> QED
    BY <1>4, <2>1, <2>2, <2>3
<1>8. LoadInv'
  <2>1. ASSUME NEW t \in Slots, loads'[t].on, ~loads'[t].void
        PROVE  joinable'[loads'[t].key] = t /\ settled'[loads'[t].key] <= loads'[t].seen
    <3>1. t # s /\ loads'[t] = loads[t]
      BY <1>3, <2>1, FreeFlight
    <3>2. joinable[loads[t].key] = t /\ settled[loads[t].key] <= loads[t].seen
      BY <2>1, <3>1 DEF CacheInv, LoadInv
    <3>3. loads[t].key \in Keys
      BY <2>1, <3>1, OnFlight DEF CacheInv, Flights
    <3>4. joinable'[loads[t].key] = t
      BY <1>1, <1>2, <3>1, <3>2, <3>3 DEF CacheInv, CacheTypes
    <3> QED
      BY <1>2, <3>1, <3>2, <3>4
  <2>2. ASSUME NEW j \in Keys, joinable'[j] # NoLoad
        PROVE  loads'[joinable'[j]].on /\ loads'[joinable'[j]].key = j /\ ~loads'[joinable'[j]].void
    <3>1. joinable'[j] = joinable[j]
      BY <1>1, <1>2, <2>2 DEF CacheInv, CacheTypes
    <3>2. joinable[j] \in Slots /\ loads[joinable[j]].on /\ loads[joinable[j]].key = j
          /\ ~loads[joinable[j]].void
      BY <2>2, <3>1 DEF CacheInv, CacheTypes, LoadInv
    <3>3. joinable[j] # s
      BY <1>1, <1>2, <2>2, <3>1, <3>2 DEF CacheInv, CacheTypes
    <3> QED
      BY <1>3, <3>1, <3>2, <3>3
  <2> QED
    BY <2>1, <2>2 DEF LoadInv
<1>9. ReaderInv'
  <2> SUFFICES ASSUME NEW r \in Readers
               PROVE  /\ reader'[r].doing = "waits" =>
                           LET load == loads'[reader'[r].load] IN
                           /\ load.on /\ load.key = reader'[r].key
                           /\ reader'[r].since <= settled'[load.key]
                           /\ reader'[r].since <= load.seen
                      /\ reader'[r].doing = "got" => reader'[r].since <= reader'[r].value
    BY DEF ReaderInv
  <2>1. CASE reader[r].doing = "waits" /\ reader[r].load = s
    <3>1. reader'[r] = given(r)
      BY <1>2, <2>1
    <3>2. given(r).doing = "got" /\ given(r).since = reader[r].since
          /\ given(r).value = loads[s].seen
      OBVIOUS
    <3>3. reader[r].since <= loads[s].seen
      BY <2>1 DEF CacheInv, ReaderInv
    <3> QED
      BY <3>1, <3>2, <3>3
  <2>2. CASE ~(reader[r].doing = "waits" /\ reader[r].load = s)
    <3>1. reader'[r] = reader[r]
      BY <1>2, <2>2
    <3>2. reader[r].doing = "waits" => reader[r].load \in Slots \ {s}
      BY <2>2 DEF CacheInv, CacheTypes, Resting
    <3> QED
      BY <1>2, <1>3, <3>1, <3>2 DEF CacheInv, ReaderInv
  <2> QED
    BY <2>1, <2>2
<1> QED
  BY <1>5, <1>6, <1>7, <1>8, <1>9 DEF CacheInv

\* Credentials are refused: nothing is kept and no load may be joined.
LEMMA LoadRefusedInv ==
  ASSUME CacheInv, NEW s \in Slots, LoadRefused(s)
  PROVE  CacheInv'
<1>1. PICK on \in BOOLEAN :
        /\ loads' = [t \in Slots |-> IF t = s /\ ~on THEN NoFlight
                                     ELSE IF loads[t].on THEN [loads[t] EXCEPT !.void = TRUE]
                                     ELSE loads[t]]
        /\ reader' = [r \in Readers |->
                        IF ~on /\ reader[r].doing = "waits" /\ reader[r].load = s
                        THEN Resting ELSE reader[r]]
  BY DEF LoadRefused
<1>2. /\ UNCHANGED <<version, settled>>
      /\ kept' = [k \in Keys |-> Absent] /\ joinable' = [k \in Keys |-> NoLoad]
  BY DEF LoadRefused
<1>3. ASSUME NEW t \in Slots, loads[t].on
      PROVE  LET void == [loads[t] EXCEPT !.void = TRUE] IN
             void \in Flights /\ void.on /\ void.void /\ void.key = loads[t].key
             /\ void.seen = loads[t].seen
  <2>1. loads[t] \in Flights
    BY <1>3, OnFlight DEF CacheInv
  <2> QED
    BY <1>3, <2>1 DEF Flights
<1>4. ASSUME NEW t \in Slots
      PROVE  \/ loads'[t] = NoFlight
             \/ loads'[t] \in Flights /\ loads'[t].on /\ loads'[t].void
                /\ loads[t].on /\ loads'[t].key = loads[t].key
                /\ loads'[t].seen = loads[t].seen
  <2>1. CASE t = s /\ ~on
    BY <1>1, <2>1
  <2>2. CASE ~(t = s /\ ~on) /\ loads[t].on
    <3>1. loads'[t] = [loads[t] EXCEPT !.void = TRUE]
      BY <1>1, <2>2
    <3> QED
      BY <1>3, <2>2, <3>1
  <2>3. CASE ~(t = s /\ ~on) /\ ~loads[t].on
    BY <1>1, <2>3, OnFlight DEF CacheInv
  <2> QED
    BY <2>1, <2>2, <2>3
<1>5. loads' \in [Slots -> {NoFlight} \cup Flights]
  <2>1. loads' = [t \in Slots |-> loads'[t]]
    BY <1>1
  <2> QED
    BY <1>4, <2>1
<1>6. CacheTypes'
  <2>1. Absent \in CacheEntries
    BY Constants DEF Absent, CacheEntries, Versions
  <2>2. kept' \in [Keys -> CacheEntries] /\ joinable' \in [Keys -> Slots \cup {NoLoad}]
    BY <1>2, <2>1
  <2>3. reader' \in [Readers ->
          {Resting} \cup [doing : {"waits"}, key : Keys, load : Slots, since : Versions]
                    \cup [doing : {"got"}, key : Keys, value : Versions, since : Versions]]
    BY <1>1 DEF CacheInv, CacheTypes
  <2> QED
    BY <1>2, <1>5, <2>2, <2>3 DEF CacheInv, CacheTypes
<1>7. SettledInv' /\ EntryInv'
  BY <1>2 DEF CacheInv, SettledInv, EntryInv, Absent
<1>8. LoadInv'
  <2>1. \A t \in Slots : ~(loads'[t].on /\ ~loads'[t].void)
    BY <1>4, FreeFlight
  <2>2. \A k \in Keys : joinable'[k] = NoLoad
    BY <1>2
  <2> QED
    BY <2>1, <2>2 DEF LoadInv
<1>9. ReaderInv'
  <2> SUFFICES ASSUME NEW r \in Readers
               PROVE  /\ reader'[r].doing = "waits" =>
                           LET load == loads'[reader'[r].load] IN
                           /\ load.on /\ load.key = reader'[r].key
                           /\ reader'[r].since <= settled'[load.key]
                           /\ reader'[r].since <= load.seen
                      /\ reader'[r].doing = "got" => reader'[r].since <= reader'[r].value
    BY DEF ReaderInv
  <2>1. CASE ~on /\ reader[r].doing = "waits" /\ reader[r].load = s
    <3>1. reader'[r] = Resting
      BY <1>1, <2>1
    <3> QED
      BY <3>1 DEF Resting
  <2>2. CASE ~(~on /\ reader[r].doing = "waits" /\ reader[r].load = s)
    <3>1. reader'[r] = reader[r]
      BY <1>1, <2>2
    <3>2. CASE reader[r].doing = "waits"
      <4>1. reader[r].load \in Slots /\ loads[reader[r].load].on
        BY <3>2 DEF CacheInv, CacheTypes, Resting, ReaderInv
      <4>2. loads'[reader[r].load].on /\ loads'[reader[r].load].key = loads[reader[r].load].key
            /\ loads'[reader[r].load].seen = loads[reader[r].load].seen
        <5>1. loads'[reader[r].load] = [loads[reader[r].load] EXCEPT !.void = TRUE]
          BY <1>1, <2>2, <3>2, <4>1
        <5> QED
          BY <1>3, <4>1, <5>1
      <4> QED
        BY <1>2, <3>1, <3>2, <4>2 DEF CacheInv, ReaderInv
    <3>3. CASE reader[r].doing # "waits"
      BY <3>1, <3>3 DEF CacheInv, ReaderInv
    <3> QED
      BY <3>2, <3>3
  <2> QED
    BY <2>1, <2>2
<1> QED
  BY <1>6, <1>7, <1>8, <1>9 DEF CacheInv

LEMMA AgeInv ==
  ASSUME CacheInv, NEW k \in Keys, Age(k)
  PROVE  CacheInv'
<1>1. PICK age \in {"stale", "dead"} : kept' = [kept EXCEPT ![k] = [kept[k] EXCEPT !.age = age]]
  BY DEF Age
<1>2. UNCHANGED <<version, loads, joinable, reader, settled>> /\ kept[k].age # "absent"
  BY DEF Age
<1>3. [kept[k] EXCEPT !.age = age] \in CacheEntries
      /\ [kept[k] EXCEPT !.age = age].value = kept[k].value
  BY DEF CacheInv, CacheTypes, CacheEntries
<1>4. kept' \in [Keys -> CacheEntries]
  BY <1>1, <1>3 DEF CacheInv, CacheTypes
<1>5. CacheTypes'
  BY <1>2, <1>4 DEF CacheInv, CacheTypes
<1>6. EntryInv'
  BY <1>1, <1>2, <1>3 DEF CacheInv, CacheTypes, EntryInv
<1>7. SettledInv' /\ LoadInv' /\ ReaderInv'
  BY <1>2 DEF CacheInv, SettledInv, LoadInv, ReaderInv
<1> QED
  BY <1>5, <1>6, <1>7 DEF CacheInv

\* What is invalidated may be reported as changed.
LEMMA InvalidateInv ==
  ASSUME CacheInv, NEW ks \in SUBSET Keys, Invalidate(ks), UNCHANGED <<version, reader>>,
         settled' \in [Keys -> Versions],
         \A k \in Keys : settled[k] <= settled'[k] /\ settled'[k] <= version[k],
         \A k \in Keys \ ks : settled'[k] = settled[k]
  PROVE  CacheInv'
<1>1. /\ kept' = [k \in Keys |-> IF k \in ks THEN Absent ELSE kept[k]]
      /\ joinable' = [k \in Keys |-> IF k \in ks THEN NoLoad ELSE joinable[k]]
  BY DEF Invalidate
<1> DEFINE Hit(s) == loads[s].on /\ loads[s].key \in ks /\ joinable[loads[s].key] = s
<1>2. loads' = [s \in Slots |-> IF Hit(s) THEN [loads[s] EXCEPT !.void = TRUE] ELSE loads[s]]
  BY DEF Invalidate
<1>3. ASSUME NEW s \in Slots, Hit(s)
      PROVE  /\ loads'[s] \in Flights /\ loads'[s].on /\ loads'[s].void
             /\ loads'[s].key = loads[s].key /\ loads'[s].seen = loads[s].seen
  <2>1. loads[s] \in Flights
    BY <1>3, OnFlight DEF CacheInv
  <2>2. loads'[s] = [loads[s] EXCEPT !.void = TRUE]
    BY <1>2, <1>3
  <2> QED
    BY <1>3, <2>1, <2>2 DEF Flights
<1>4. \A s \in Slots : ~Hit(s) => loads'[s] = loads[s]
  BY <1>2
<1> HIDE DEF Hit
<1>5. loads' \in [Slots -> {NoFlight} \cup Flights]
  <2>1. loads' = [s \in Slots |-> loads'[s]]
    BY <1>2
  <2>2. \A s \in Slots : loads[s] \in {NoFlight} \cup Flights
    BY DEF CacheInv, CacheTypes
  <2> QED
    BY <1>3, <1>4, <2>1, <2>2
<1>6. CacheTypes'
  <2>1. Absent \in CacheEntries
    BY Constants DEF Absent, CacheEntries, Versions
  <2>2. kept' \in [Keys -> CacheEntries] /\ joinable' \in [Keys -> Slots \cup {NoLoad}]
    BY <1>1, <2>1 DEF CacheInv, CacheTypes
  <2> QED
    BY <1>5, <2>2 DEF CacheInv, CacheTypes
<1>7. SettledInv'
  BY DEF SettledInv
<1>8. EntryInv'
  BY <1>1 DEF CacheInv, EntryInv, Absent
<1>9. LoadInv'
  <2>1. ASSUME NEW s \in Slots, loads'[s].on, ~loads'[s].void
        PROVE  joinable'[loads'[s].key] = s /\ settled'[loads'[s].key] <= loads'[s].seen
    <3>1. ~Hit(s) /\ loads'[s] = loads[s]
      BY <1>3, <1>4, <2>1
    <3>2. joinable[loads[s].key] = s /\ settled[loads[s].key] <= loads[s].seen
      BY <2>1, <3>1 DEF CacheInv, LoadInv
    <3>3. loads[s].key \in Keys \ ks
      BY <2>1, <3>1, <3>2, OnFlight DEF CacheInv, Flights, Hit
    <3> QED
      BY <1>1, <3>1, <3>2, <3>3
  <2>2. ASSUME NEW k \in Keys, joinable'[k] # NoLoad
        PROVE  loads'[joinable'[k]].on /\ loads'[joinable'[k]].key = k /\ ~loads'[joinable'[k]].void
    <3>1. k \notin ks /\ joinable'[k] = joinable[k]
      BY <1>1, <2>2
    <3>2. joinable[k] \in Slots /\ loads[joinable[k]].on /\ loads[joinable[k]].key = k
          /\ ~loads[joinable[k]].void
      BY <2>2, <3>1 DEF CacheInv, CacheTypes, LoadInv
    <3>3. ~Hit(joinable[k])
      BY <3>1, <3>2 DEF Hit
    <3> QED
      BY <1>4, <3>1, <3>2, <3>3
  <2> QED
    BY <2>1, <2>2 DEF LoadInv
<1>10. ReaderInv'
  <2>1. \A s \in Slots : loads[s].on =>
          loads'[s].on /\ loads'[s].key = loads[s].key /\ loads'[s].seen = loads[s].seen
    BY <1>3, <1>4
  <2> QED
    BY <1>5, <2>1, WaitersKept
<1> QED
  BY <1>6, <1>7, <1>8, <1>9, <1>10 DEF CacheInv

\* Requests that change something, the changes, and their reports.
LEMMA ChangeInv ==
  ASSUME CacheInv, NEW m \in Mutations, Mutate(m) \/ Applied(m) \/ Reported(m)
  PROVE  CacheInv'
<1>1. \A k \in Keys : /\ version[k] \in Nat /\ settled[k] \in Nat
                     /\ settled[k] <= version[k] /\ settled[k] <= settled[k]
  BY Constants DEF CacheInv, CacheTypes, Versions, SettledInv
<1>2. Matching(m) \in SUBSET Keys
  BY DEF Matching
<1>3. CASE Mutate(m)
  <2>1. Invalidate(Matching(m)) /\ UNCHANGED <<version, reader, settled>>
    BY <1>3 DEF Mutate
  <2> QED
    BY <1>1, <1>2, <2>1, InvalidateInv DEF CacheInv, CacheTypes
<1>4. CASE Applied(m)
  <2>1. /\ version' = [k \in Keys |-> IF k \in Matching(m) THEN version[k] + 1 ELSE version[k]]
        /\ \A k \in Matching(m) : version[k] < MaxChanges
        /\ UNCHANGED <<kept, loads, joinable, reader, settled>>
    BY <1>4 DEF Applied
  <2>2. version' \in [Keys -> Versions]
    BY <1>1, <2>1, Constants DEF CacheInv, CacheTypes, Versions
  <2>3. SettledInv'
    BY <1>1, <2>1 DEF SettledInv
  <2> QED
    BY <2>1, <2>2, <2>3 DEF CacheInv, CacheTypes, EntryInv, LoadInv, ReaderInv
<1>5. CASE Reported(m)
  <2>1. Invalidate(Matching(m)) /\ UNCHANGED <<version, reader>>
    BY <1>5 DEF Reported
  <2>2. \/ UNCHANGED settled
        \/ settled' = [k \in Keys |-> IF k \in Matching(m) THEN version[k] ELSE settled[k]]
    BY <1>5 DEF Reported
  <2>3. settled' \in [Keys -> Versions]
    BY <2>2 DEF CacheInv, CacheTypes
  <2>4. \A k \in Keys : settled[k] <= settled'[k] /\ settled'[k] <= version[k]
    BY <1>1, <2>2
  <2>5. \A k \in Keys \ Matching(m) : settled'[k] = settled[k]
    BY <2>2
  <2> QED
    BY <1>2, <2>1, <2>3, <2>4, <2>5, InvalidateInv
<1> QED
  BY <1>3, <1>4, <1>5

LEMMA NextCache == CacheInv /\ [CacheNext]_cacheVars => CacheInv'
<1> SUFFICES ASSUME CacheInv, [CacheNext]_cacheVars PROVE CacheInv'
  OBVIOUS
<1>1. CASE UNCHANGED cacheVars
  BY <1>1 DEF cacheVars, CacheInv, CacheTypes, SettledInv, EntryInv, LoadInv, ReaderInv
<1>2. CASE CacheNext
  BY <1>2, ReadHitInv, ReadMissInv, LoadReadsInv, LoadReturnsInv, LoadRefusedInv, AgeInv,
     ChangeInv DEF CacheNext
<1> QED
  BY <1>1, <1>2

-----------------------------------------------------------------------------
\* The invariant of the cache: entries, loads that may be kept and what readers know
\* are never behind the changes that were reported.
THEOREM CacheInductive == CacheSpec => []CacheInv
  BY InitCache, NextCache, PTL DEF CacheSpec

\* A read that began after a change was answered, or its event observed, never gets
\* what was loaded before the change (upstreamReadCache.ts, refresh and invalidate).
THEOREM CacheCurrent == CacheSpec => []ReadsCurrent
<1>1. CacheInv => ReadsCurrent
  <2> SUFFICES ASSUME CacheInv, NEW r \in Readers, reader[r].doing = "got"
               PROVE  reader[r].value >= reader[r].since
    BY DEF ReadsCurrent
  <2>1. reader[r].value \in Nat /\ reader[r].since \in Nat
    BY Constants DEF CacheInv, CacheTypes, Resting, Versions
  <2>2. reader[r].since <= reader[r].value
    BY DEF CacheInv, ReaderInv
  <2> QED
    BY <2>1, <2>2
<1> QED
  BY <1>1, CacheInductive, PTL

\* Types, and a flight that may be joined is a load of its key.
THEOREM CacheTypeInvariant == CacheSpec => []CacheTypeOK
<1> DEFINE Changes == change \in [Mutations -> {"none", "sent", "applied", "late", "unseen"}]
<1>1. CacheInit => Changes
  BY DEF CacheInit
<1>2. Changes /\ [CacheNext]_cacheVars => Changes'
  <2> SUFFICES ASSUME Changes, [CacheNext]_cacheVars PROVE Changes'
    OBVIOUS
  <2>1. ASSUME NEW m \in Mutations, Mutate(m) \/ Applied(m) \/ Reported(m)
        PROVE  Changes'
    BY <2>1 DEF Mutate, Applied, Reported
  <2>2. ASSUME UNCHANGED change
        PROVE  Changes'
    BY <2>2
  <2> QED
    BY <2>1, <2>2 DEF CacheNext, cacheVars, ReadHit, ReadMiss, LoadReads, LoadReturns,
       LoadRefused, Age
<1>3. CacheInv /\ Changes => CacheTypeOK
  BY DEF CacheInv, CacheTypes, Versions, CacheEntries, LoadInv, CacheTypeOK
<1> QED
  BY <1>1, <1>2, <1>3, CacheInductive, PTL DEF CacheSpec

-----------------------------------------------------------------------------
(* Routines                                                                *)

RunRecords == [due : Nat, start : Nat, status : {"running", "ended", "skipped", "failed"}]

RoutineTypes ==
  /\ clock \in Nat
  /\ routine \in [kind : Kinds \cup {"none"}, at : Nat, enabled : BOOLEAN, nextAt : Nat]
  /\ records \in Seq(RunRecords)

\* What the schedule recorded is over before the next time of the routine comes.
ScheduleInv ==
  /\ \A i \in DOMAIN records :
       /\ records[i].start <= clock
       /\ records[i].due # 0 /\ routine.nextAt # 0 => routine.nextAt > records[i].start
  /\ \A i, j \in DOMAIN records :
       (i < j /\ records[i].due # 0 /\ records[j].due # 0) => records[j].due > records[i].start

OneUnfinished ==
  \A i, j \in DOMAIN records :
    records[i].status = "running" /\ records[j].status = "running" => i = j

\* Only a routine that was saved is switched on.
SwitchInv ==
  /\ routine.enabled <=> routine.nextAt # 0
  /\ routine.enabled => routine.kind \in Kinds

RoutineInv == RoutineTypes /\ ScheduleInv /\ OneUnfinished /\ SwitchInv

\* nextRoutineAt answers a time after the one it is asked for, or none.
LEMMA NextIsLater ==
  ASSUME NEW r, r.kind \in Kinds, r.at \in Nat, NEW after \in Nat
  PROVE  NextAt(r, after) \in Nat /\ (NextAt(r, after) = 0 \/ NextAt(r, after) > after)
<1> USE RoutineAssumption
<1>1. Period \in Nat /\ Period > 0 /\ Day \in Nat /\ Day > 0
  OBVIOUS
<1>2. CASE r.kind = "once"
  BY <1>2 DEF NextAt
<1>3. CASE r.kind = "interval"
  BY <1>1, <1>3 DEF NextAt
<1>4. CASE r.kind = "daily"
  <2> DEFINE q == after \div Day
             m == after % Day
  <2>1. q \in Nat /\ m \in Nat /\ m < Day /\ after = Day * q + m
    BY <1>1
  <2>2. (q + 1) * Day = Day * q + Day /\ (q + 1) * Day \in Nat
    <3> HIDE DEF q
    <3> QED
      BY <1>1, <2>1
  <2>3. (q + 1) * Day > after
    <3>1. Day * q \in Nat
      BY <1>1, <2>1
    <3> DEFINE base == Day * q
               bound == (q + 1) * Day
    <3>2. base \in Nat /\ bound = base + Day /\ after = base + m /\ bound \in Nat
      BY <2>1, <2>2, <3>1
    <3> HIDE DEF base, bound, m
    <3>3. bound > after
      BY <1>1, <2>1, <3>2 DEF m
    <3> QED
      BY <3>3 DEF bound
  <2> QED
    BY <1>4, <2>2, <2>3 DEF NextAt
<1> QED
  BY <1>2, <1>3, <1>4 DEF Kinds

\* A record that is added: of a run that begins only when no other one goes on.
LEMMA RecordAdded ==
  ASSUME RoutineTypes, OneUnfinished, NEW r \in RunRecords, Record(r),
         r.status = "running" => Unfinished = {}
  PROVE  /\ records' \in Seq(RunRecords) /\ OneUnfinished'
         /\ DOMAIN records' = 1 .. Len(records) + 1
         /\ \A i \in 1 .. Len(records) : i \in DOMAIN records /\ records'[i] = records[i]
         /\ records'[Len(records) + 1] = r
<1>1. records \in Seq(RunRecords) /\ records' = Append(records, r) /\ Len(records) \in Nat
  BY DEF RoutineTypes, Record
<1>2. /\ records' \in Seq(RunRecords) /\ DOMAIN records' = 1 .. Len(records) + 1
      /\ \A i \in 1 .. Len(records) : i \in DOMAIN records /\ records'[i] = records[i]
      /\ records'[Len(records) + 1] = r
  BY <1>1
<1>3. ASSUME NEW i \in DOMAIN records', NEW j \in DOMAIN records',
             records'[i].status = "running", records'[j].status = "running"
      PROVE  i = j
  <2>1. CASE r.status = "running"
    BY <1>1, <1>2, <1>3, <2>1 DEF Unfinished
  <2>2. CASE r.status # "running"
    <3>1. i \in 1 .. Len(records) /\ j \in 1 .. Len(records)
      BY <1>1, <1>2, <1>3, <2>2
    <3> QED
      BY <1>2, <1>3, <3>1 DEF OneUnfinished
  <2> QED
    BY <2>1, <2>2
<1> QED
  BY <1>2, <1>3 DEF OneUnfinished

LEMMA StartsInThePast ==
  ASSUME RoutineTypes, ScheduleInv, NEW i \in DOMAIN records
  PROVE  records[i].start \in Nat /\ records[i].start <= clock
<1>1. records[i] \in RunRecords
  BY DEF RoutineTypes
<1>2. records[i].start \in Nat
  BY <1>1 DEF RunRecords
<1> QED
  BY <1>2 DEF ScheduleInv

LEMMA RunRecordIsOne ==
  ASSUME RoutineTypes, NEW due \in Nat
  PROVE  /\ RunRecord(due) \in RunRecords
         /\ RunRecord(due).due = due /\ RunRecord(due).start = clock
         /\ RunRecord(due).status = "running" => Unfinished = {}
<1> DEFINE s == RunRecord(due).status
<1>1. s = IF Unfinished # {} THEN "skipped" ELSE IF reachable THEN "running" ELSE "failed"
  BY DEF RunRecord
<1>2. RunRecord(due).due = due /\ RunRecord(due).start = clock
  BY DEF RunRecord
<1>3. s \in {"running", "skipped", "failed"} /\ (s = "running" => Unfinished = {})
  <2>1. CASE Unfinished # {}
    BY <1>1, <2>1
  <2>2. CASE Unfinished = {} /\ reachable
    BY <1>1, <2>2
  <2>3. CASE Unfinished = {} /\ ~reachable
    BY <1>1, <2>3
  <2> QED
    BY <2>1, <2>2, <2>3
<1>4. RunRecord(due) = [due |-> due, start |-> clock, status |-> s]
  BY DEF RunRecord
<1>5. [due |-> due, start |-> clock, status |-> s] \in RunRecords
  BY <1>3 DEF RunRecords, RoutineTypes
<1> QED
  BY <1>2, <1>3, <1>4, <1>5

LEMMA TickStep ==
  ASSUME RoutineInv, Tick
  PROVE  RoutineInv'
<1> USE DEF RoutineInv
<1>1. /\ routine.enabled /\ routine.nextAt \in Nat /\ routine.nextAt # 0
      /\ routine.nextAt <= clock /\ clock' = clock /\ clock \in Nat
  BY DEF Tick, RoutineTypes
<1> DEFINE next == IF usable THEN NextAt(routine, clock) ELSE 0
           r == IF usable THEN RunRecord(routine.nextAt)
                ELSE [due |-> routine.nextAt, start |-> clock, status |-> "failed"]
<1>2. Record(r) /\ routine' = [routine EXCEPT !.nextAt = next, !.enabled = next # 0]
  BY DEF Tick
<1>3. r \in RunRecords /\ r.due = routine.nextAt /\ r.start = clock
      /\ (r.status = "running" => Unfinished = {})
  <2>1. CASE usable
    BY <1>1, <2>1, RunRecordIsOne
  <2>2. CASE ~usable
    BY <1>1, <2>2 DEF RunRecords
  <2> QED
    BY <2>1, <2>2
<1>4. next \in Nat /\ (next = 0 \/ next > clock)
  <2>1. CASE usable
    BY <1>1, <2>1, NextIsLater DEF RoutineTypes, SwitchInv
  <2>2. CASE ~usable
    BY <2>2
  <2> QED
    BY <2>1, <2>2
<1> HIDE DEF next, r
<1>5. /\ records' \in Seq(RunRecords) /\ OneUnfinished'
      /\ DOMAIN records' = 1 .. Len(records) + 1
      /\ \A i \in 1 .. Len(records) : i \in DOMAIN records /\ records'[i] = records[i]
      /\ records'[Len(records) + 1] = r
  BY <1>2, <1>3, RecordAdded
<1>6. /\ routine' \in [kind : Kinds \cup {"none"}, at : Nat, enabled : BOOLEAN, nextAt : Nat]
      /\ routine'.nextAt = next /\ routine'.enabled = (next # 0)
      /\ routine'.kind = routine.kind
  BY <1>2, <1>4 DEF RoutineTypes
<1>7. Len(records) \in Nat
  BY DEF RoutineTypes
<1>8. ASSUME NEW i \in DOMAIN records'
      PROVE  /\ records'[i].start <= clock'
             /\ records'[i].due # 0 /\ routine'.nextAt # 0 => routine'.nextAt > records'[i].start
  <2>1. records'[i].start \in Nat /\ records'[i].start <= clock
    <3>1. CASE i \in 1 .. Len(records)
      <4>1. i \in DOMAIN records /\ records'[i] = records[i]
        BY <1>5, <3>1
      <4> QED
        BY <4>1, StartsInThePast
    <3>2. CASE i = Len(records) + 1
      BY <1>1, <1>3, <1>5, <3>2
    <3> QED
      BY <1>5, <1>7, <1>8, <3>1, <3>2
  <2> QED
    BY <1>1, <1>4, <1>6, <2>1
<1>9. ASSUME NEW i \in DOMAIN records', NEW j \in DOMAIN records', i < j,
             records'[i].due # 0, records'[j].due # 0
      PROVE  records'[j].due > records'[i].start
  <2>1. i \in 1 .. Len(records)
    BY <1>5, <1>7, <1>9
  <2>2. i \in DOMAIN records /\ records'[i] = records[i]
    BY <1>5, <2>1
  <2>3. CASE j \in 1 .. Len(records)
    BY <1>5, <1>9, <2>2, <2>3 DEF ScheduleInv
  <2>4. CASE j = Len(records) + 1
    BY <1>1, <1>3, <1>5, <1>9, <2>2, <2>4 DEF ScheduleInv
  <2> QED
    BY <1>5, <1>7, <2>3, <2>4
<1>10. SwitchInv'
  BY <1>1, <1>6 DEF SwitchInv
<1>11. RoutineTypes'
  BY <1>1, <1>5, <1>6 DEF RoutineTypes
<1> QED
  BY <1>5, <1>8, <1>9, <1>10, <1>11 DEF ScheduleInv

LEMMA RunByHandStep ==
  ASSUME RoutineInv, NEW h \in Hands, RunByHand(h)
  PROVE  RoutineInv'
<1> USE DEF RoutineInv
<1> DEFINE r == RunRecord(0)
<1>1. Record(r) /\ clock' = clock /\ routine' = routine /\ clock \in Nat
  BY DEF RunByHand, RoutineTypes
<1>2. r \in RunRecords /\ r.due = 0 /\ r.start = clock /\ (r.status = "running" => Unfinished = {})
  BY RunRecordIsOne
<1> HIDE DEF r
<1>3. /\ records' \in Seq(RunRecords) /\ OneUnfinished'
      /\ DOMAIN records' = 1 .. Len(records) + 1
      /\ \A i \in 1 .. Len(records) : i \in DOMAIN records /\ records'[i] = records[i]
      /\ records'[Len(records) + 1] = r
  BY <1>1, <1>2, RecordAdded
<1>4. Len(records) \in Nat
  BY DEF RoutineTypes
<1>5. ASSUME NEW i \in DOMAIN records'
      PROVE  /\ records'[i].start <= clock'
             /\ records'[i].due # 0 /\ routine'.nextAt # 0 => routine'.nextAt > records'[i].start
  <2>1. CASE i \in 1 .. Len(records)
    BY <1>1, <1>3, <2>1 DEF ScheduleInv
  <2>2. CASE i = Len(records) + 1
    BY <1>1, <1>2, <1>3, <2>2
  <2> QED
    BY <1>3, <1>4, <1>5, <2>1, <2>2
<1>6. ASSUME NEW i \in DOMAIN records', NEW j \in DOMAIN records', i < j,
             records'[i].due # 0, records'[j].due # 0
      PROVE  records'[j].due > records'[i].start
  <2>1. j # Len(records) + 1
    BY <1>2, <1>3, <1>6
  <2>2. i \in 1 .. Len(records) /\ j \in 1 .. Len(records)
    BY <1>3, <1>4, <1>6, <2>1
  <2> QED
    BY <1>3, <1>6, <2>2 DEF ScheduleInv
<1> QED
  BY <1>1, <1>3, <1>5, <1>6 DEF RoutineTypes, ScheduleInv, SwitchInv

LEMMA RunEndsStep ==
  ASSUME RoutineInv, NEW i \in DOMAIN records, RunEnds(i)
  PROVE  RoutineInv'
<1> USE DEF RoutineInv
<1>1. records' = [records EXCEPT ![i].status = "ended"] /\ records \in Seq(RunRecords)
  BY DEF RunEnds, RoutineTypes
<1>2. clock' = clock /\ routine' = routine
  BY DEF RunEnds
<1>3. records[i] \in RunRecords
  BY <1>1
<1>4. [records[i] EXCEPT !.status = "ended"] \in RunRecords
  BY <1>3 DEF RunRecords
<1>5. records' \in Seq(RunRecords) /\ DOMAIN records' = DOMAIN records
  BY <1>1, <1>4
<1>6. ASSUME NEW j \in DOMAIN records
      PROVE  /\ records'[j].due = records[j].due /\ records'[j].start = records[j].start
             /\ records'[j].status = "running" => records[j].status = "running"
  <2>1. CASE j = i
    <3>1. records'[j] = [records[i] EXCEPT !.status = "ended"]
      BY <1>1, <2>1
    <3> QED
      BY <1>3, <2>1, <3>1 DEF RunRecords
  <2>2. CASE j # i
    BY <1>1, <2>2
  <2> QED
    BY <2>1, <2>2
<1>7. ScheduleInv'
  BY <1>2, <1>5, <1>6 DEF ScheduleInv
<1>8. OneUnfinished'
  BY <1>5, <1>6 DEF OneUnfinished
<1> QED
  BY <1>2, <1>5, <1>7, <1>8 DEF RoutineTypes, SwitchInv

LEMMA SaveStep ==
  ASSUME RoutineInv, NEW k \in Kinds, NEW on \in BOOLEAN,
         NEW t \in IF k = "once" THEN 1 .. MaxTime ELSE {routine.at}, Save(k, t, on)
  PROVE  RoutineInv'
<1> USE DEF RoutineInv
<1> DEFINE same == on = routine.enabled /\ k = routine.kind /\ (k = "once" => t = routine.at)
           r == [kind |-> k, at |-> t, enabled |-> on, nextAt |-> routine.nextAt]
           next == IF same THEN routine.nextAt ELSE IF on THEN NextAt(r, clock) ELSE 0
<1>1. /\ routine' = [r EXCEPT !.nextAt = next] /\ (on => next # 0)
      /\ clock' = clock /\ records' = records
  BY DEF Save
<1>2. t \in Nat /\ clock \in Nat /\ routine.nextAt \in Nat
  BY RoutineAssumption DEF RoutineTypes
<1>3. /\ NextAt(r, clock) \in Nat
      /\ NextAt(r, clock) = 0 \/ NextAt(r, clock) > clock
  BY <1>2, NextIsLater
<1>4. /\ next \in Nat /\ (next = routine.nextAt \/ next = 0 \/ next > clock)
      /\ on <=> next # 0
  <2>1. CASE same
    BY <1>2, <2>1 DEF SwitchInv
  <2>2. CASE ~same /\ on
    BY <1>1, <1>3, <2>2
  <2>3. CASE ~same /\ ~on
    BY <2>3
  <2> QED
    BY <2>1, <2>2, <2>3
<1> HIDE DEF next
<1>5. routine' = [kind |-> k, at |-> t, enabled |-> on, nextAt |-> next]
  BY <1>1
<1>6. ScheduleInv'
  <2>1. ASSUME NEW i \in DOMAIN records, records[i].due # 0, routine'.nextAt # 0
        PROVE  routine'.nextAt > records[i].start
    <3>1. records[i].start \in Nat /\ records[i].start <= clock
      BY StartsInThePast
    <3>2. CASE next = routine.nextAt
      BY <1>5, <2>1, <3>2 DEF ScheduleInv
    <3>3. CASE next > clock
      BY <1>2, <1>4, <1>5, <3>1, <3>3
    <3> QED
      BY <1>4, <1>5, <2>1, <3>2, <3>3
  <2> QED
    BY <1>1, <2>1 DEF ScheduleInv
<1>7. OneUnfinished'
  BY <1>1 DEF OneUnfinished
<1>8. SwitchInv'
  BY <1>4, <1>5 DEF SwitchInv
<1>9. RoutineTypes'
  BY <1>1, <1>2, <1>4, <1>5 DEF RoutineTypes
<1> QED
  BY <1>6, <1>7, <1>8, <1>9

\* CatchesUpOnce counts the unfinished records, of which there is at most one.
LEMMA CatchesUp_follows ==
  ASSUME RoutineInv
  PROVE  CatchesUpOnce
<1>1. Cardinality(Unfinished) <= 1
  <2>1. CASE Unfinished = {}
    BY <2>1, FS_EmptySet
  <2>2. CASE Unfinished # {}
    <3>1. PICK i : i \in Unfinished
      BY <2>2
    <3>2. Unfinished = {i}
      BY <3>1 DEF RoutineInv, OneUnfinished, Unfinished
    <3> QED
      BY <3>2, FS_Singleton
  <2> QED
    BY <2>1, <2>2
<1> QED
  BY <1>1 DEF RoutineInv, ScheduleInv, SwitchInv, CatchesUpOnce

\* Through restarts, maintenance, edits and runs by hand, every record of the schedule is
\* over before the next time of the routine comes, and one run goes on at a time.
THEOREM RoutineInductive == RoutineSpec => []RoutineInv
<1>1. RoutineInit => RoutineInv
  BY DEF RoutineInit, RoutineInv, RoutineTypes, ScheduleInv, OneUnfinished, SwitchInv,
         NoRoutine, RunRecords
<1>2. ASSUME RoutineInv, [RoutineNext]_routineVars
      PROVE  RoutineInv'
  <2> USE <1>2
  <2>1. CASE Tick
    BY <2>1, TickStep
  <2>2. CASE TimePasses
    <3>1. clock' = clock + 1 /\ clock \in Nat /\ UNCHANGED <<routine, records>>
      BY <2>2 DEF TimePasses, RoutineInv, RoutineTypes
    <3>2. \A i \in DOMAIN records : records[i].start <= clock'
      BY <3>1, StartsInThePast DEF RoutineInv
    <3> QED
      BY <3>1, <3>2 DEF RoutineInv, RoutineTypes, ScheduleInv, OneUnfinished, SwitchInv
  <2>3. CASE Switch \/ Circumstances
    BY <2>3 DEF Switch, Circumstances, RoutineInv, RoutineTypes, ScheduleInv, OneUnfinished,
                SwitchInv
  <2>4. CASE \E h \in Hands : RunByHand(h)
    BY <2>4, RunByHandStep
  <2>5. CASE \E i \in DOMAIN records : RunEnds(i)
    BY <2>5, RunEndsStep
  <2>6. CASE \E k \in Kinds, on \in BOOLEAN :
               \E t \in IF k = "once" THEN 1 .. MaxTime ELSE {routine.at} : Save(k, t, on)
    BY <2>6, SaveStep
  <2>7. CASE UNCHANGED routineVars
    BY <2>7 DEF routineVars, RoutineInv, RoutineTypes, ScheduleInv, OneUnfinished, SwitchInv
  <2> QED
    BY <2>1, <2>2, <2>3, <2>4, <2>5, <2>6, <2>7 DEF RoutineNext
<1> QED
  BY <1>1, <1>2, PTL DEF RoutineSpec

\* For every interval and period, and however long the server was away: what was missed
\* is made up for once (workspaceRoutines.ts, tick and save).
THEOREM MissedOnce == RoutineSpec => []CatchesUpOnce
<1>1. RoutineInv => CatchesUpOnce
  BY CatchesUp_follows
<1> QED
  BY <1>1, RoutineInductive, PTL

\* The rest of the types: nothing was started in the future, and the bounds hold.
RoutineSides ==
  /\ clock <= MaxTime /\ changes \in 0 .. MaxEdits
  /\ {ticking, usable, reachable} \subseteq BOOLEAN /\ byHand \subseteq Hands

LEMMA SidesStay ==
  ASSUME RoutineTypes, RoutineSides, [RoutineNext]_routineVars
  PROVE  RoutineSides'
<1>1. /\ MaxTime \in Nat /\ MaxEdits \in Nat /\ clock \in Nat /\ clock <= MaxTime
      /\ changes \in 0 .. MaxEdits
  BY RoutineAssumption DEF RoutineTypes, RoutineSides
<1>2. Change => changes' \in 0 .. MaxEdits
  BY <1>1 DEF Change
<1>3. CASE UNCHANGED routineVars
  BY <1>3 DEF routineVars, RoutineSides
<1>4. CASE Tick
  BY <1>4 DEF Tick, RoutineSides
<1>5. CASE TimePasses
  <2>1. clock' = clock + 1 /\ clock < MaxTime /\ UNCHANGED <<ticking, byHand, usable, reachable, changes>>
    BY <1>5 DEF TimePasses
  <2>2. clock' <= MaxTime
    BY <1>1, <2>1
  <2> QED
    BY <2>1, <2>2 DEF RoutineSides
<1>6. CASE Switch \/ Circumstances
  <2>1. /\ changes' \in 0 .. MaxEdits /\ UNCHANGED <<clock, byHand>>
        /\ ticking' \in {ticking, ~ticking} /\ usable' \in {usable, ~usable}
        /\ reachable' \in {reachable, ~reachable}
    BY <1>2, <1>6 DEF Switch, Circumstances
  <2>2. {ticking', usable', reachable'} \subseteq BOOLEAN
    BY <2>1 DEF RoutineSides
  <2> QED
    BY <1>1, <2>1, <2>2 DEF RoutineSides
<1>7. CASE \E h \in Hands : RunByHand(h)
  BY <1>7 DEF RunByHand, RoutineSides
<1>8. CASE \E i \in DOMAIN records : RunEnds(i)
  BY <1>8 DEF RunEnds, RoutineSides
<1>9. ASSUME NEW k, NEW t, NEW on, Save(k, t, on)
      PROVE  RoutineSides'
  <2>1. changes' = changes \/ Change
    BY <1>9 DEF Save
  <2>2. changes' \in 0 .. MaxEdits
    BY <1>1, <1>2, <2>1
  <2> QED
    BY <1>9, <2>2 DEF Save, RoutineSides
<1> QED
  BY <1>3, <1>4, <1>5, <1>6, <1>7, <1>8, <1>9 DEF RoutineNext

\* Every variable of a routine has its type: no record of a run is of a later time than
\* the clock has come to.
THEOREM RoutineTypeInvariant == RoutineSpec => []RoutineTypeOK
<1>1. RoutineInit => RoutineSides
  BY RoutineAssumption DEF RoutineInit, RoutineSides
<1>2. RoutineInv /\ RoutineSides /\ [RoutineNext]_routineVars => RoutineSides'
  BY SidesStay DEF RoutineInv
<1>3. RoutineInv /\ RoutineSides => RoutineTypeOK
  <2> SUFFICES ASSUME RoutineInv, RoutineSides PROVE RoutineTypeOK
    OBVIOUS
  <2>1. RoutineTypes /\ ScheduleInv /\ MaxTime \in Nat /\ clock \in Nat /\ clock <= MaxTime
    BY RoutineAssumption DEF RoutineInv, RoutineTypes, RoutineSides
  <2>2. ASSUME NEW i \in DOMAIN records
        PROVE  records[i] \in [due : Nat, start : 0 .. MaxTime,
                               status : {"running", "ended", "skipped", "failed"}]
    <3>1. records[i] \in RunRecords
      BY <2>1 DEF RoutineTypes
    <3>2. records[i].start \in 0 .. MaxTime
      BY <2>1, StartsInThePast
    <3> QED
      BY <3>1, <3>2 DEF RunRecords
  <2> QED
    BY <2>1, <2>2 DEF RoutineTypes, RoutineSides, RoutineTypeOK
<1> QED
  BY <1>1, <1>2, <1>3, RoutineInductive, PTL DEF RoutineSpec

-----------------------------------------------------------------------------
(* The parts side by side                                                  *)

\* Each of them behaves as it does alone.
LEMMA ConsistencyParts ==
  ConsistencySpec =>
    Spec /\ ToolSpec /\ CacheSpec /\ InteractionSpec /\ RoutineSpec /\ RunSpec
<1>1. ConsistencyInit =>
        Init /\ ToolInit /\ CacheInit /\ InteractionInit /\ RoutineInit /\ RunInit
  BY DEF ConsistencyInit
<1>2. [ConsistencyNext]_consistencyVars =>
        /\ [Next]_vars /\ [ToolNext]_toolVars /\ [CacheNext]_cacheVars
        /\ [InteractionNext]_interactionVars /\ [RoutineNext]_routineVars
        /\ [RunNext]_cascadeVars
  BY Zenon DEF ConsistencyNext, consistencyVars
<1> QED
  BY <1>1, <1>2, PTL DEF ConsistencySpec, Spec, ToolSpec, CacheSpec, InteractionSpec,
     RoutineSpec, RunSpec

\* Every variable keeps to its type: receipts, rows of tool calls, cached reads, cards,
\* the schedule of a routine and the turns of a run.
THEOREM ConsistencyTypes == ConsistencySpec => []ConsistencyTypeOK
<1>1. ToolInv => ToolTypeOK
  BY DEF ToolInv
<1>2. TypeOK /\ ToolTypeOK /\ CacheTypeOK /\ InteractionTypeOK /\ RoutineTypeOK /\ RunTypeOK
        => ConsistencyTypeOK
  BY DEF ConsistencyTypeOK
<1> QED
  BY <1>1, <1>2, ConsistencyParts, CommandTypeInvariant, CallsInductive, CacheTypeInvariant,
     InteractionTypeInvariant, RoutineTypeInvariant, RunTypeInvariant, PTL
=============================================================================
