---------------------------- MODULE Interactions ----------------------------
(***************************************************************************)
(* Approvals and clarifications of a turn: Hermes asks, the user or the    *)
(* approval policy replies (workspaceRuntime.ts: the events of a turn and  *)
(* respond), while the connection breaks, requests are repeated or         *)
(* withdrawn, replies get lost, a person takes over the computer, a        *)
(* credential is used, the turn fails and is rechecked, or the process     *)
(* dies.                                                                   *)
(*                                                                         *)
(* Abstracted: who may answer, which choices a request has, notification,  *)
(* the progress of a use of credentials (overlapping ones are one).        *)
(* Hermes is not relied upon to recognise a second answer to a request: it *)
(* could take it for the next one.                                         *)
(***************************************************************************)
EXTENDS Naturals, Sequences, FiniteSets, SequencesExt

CONSTANTS
  Questions,    \* what Hermes may ask for during the turn
  Automatic,   \* approvals the policy answers by itself
  Replies,     \* "once" is what the policy says
  NoReply,
  Computer,    \* what a pause is about
  MaxBreaks    \* bound: lost connections, lost replies, crashes, takeovers of the
               \* computer and uses of credentials

ASSUME InteractionAssumption ==
  /\ Automatic \subseteq Questions
  /\ "once" \in Replies /\ NoReply \notin Replies /\ Computer \notin Questions
  /\ MaxBreaks \in Nat

VARIABLES
  request,    \* Hermes: "none", "open", "closed"
  takenUp,    \* replies Hermes has acted on, for each request
  notices,    \* events on their way to the server, in order
  card,       \* durable interaction of each request
  reply,      \* respond: the call under way, and what Hermes answered
  adrift,     \* replies whose caller has given up
  turn,       \* durable status of the turn
  toolsBound, \* the turn was given tools of the server (never changes)
  taken,      \* node: a person has the computer
  apart,      \* why the turn waits apart from cards, as far as the server has heard
  attached,   \* the connection of the turn is up
  breaks      \* bookkeeping of the model

interactionVars == <<request, takenUp, notices, card, reply, adrift, turn,
                     toolsBound, taken, apart, attached, breaks>>

NoCard == [known |-> FALSE, resolved |-> FALSE, answer |-> NoReply, state |-> "none"]
NoCall == [answer |-> NoReply, result |-> "none"]
Notice(k, i) == [kind |-> k, of |-> i]
elsewhere == <<toolsBound, taken, apart>>
Announced(n) == IF attached THEN Append(notices, n) ELSE notices
OpenCards(cards) == {i \in Questions : cards[i].known /\ ~cards[i].resolved}

InteractionInit ==
  /\ request = [i \in Questions |-> "none"] /\ takenUp = [i \in Questions |-> 0]
  /\ notices = <<>>
  /\ card = [i \in Questions |-> NoCard] /\ reply = [i \in Questions |-> NoCall]
  /\ adrift = {} /\ turn = "running" /\ attached = TRUE /\ breaks = 0
  /\ toolsBound \in BOOLEAN /\ taken = FALSE /\ apart = {}

Break == breaks < MaxBreaks /\ breaks' = breaks + 1

-----------------------------------------------------------------------------
(* Hermes (external)                                                       *)

Ask(i) ==
  /\ request[i] = "none" /\ attached
  /\ request' = [request EXCEPT ![i] = "open"]
  /\ notices' = Append(notices, Notice("request", i))
  /\ UNCHANGED <<takenUp, card, reply, adrift, turn, attached, breaks, elsewhere>>

\* After a reconnection an open request is announced again.
AskAgain(i) ==
  /\ request[i] = "open" /\ attached /\ ~Contains(notices, Notice("request", i))
  /\ notices' = Append(notices, Notice("request", i))
  /\ UNCHANGED <<request, takenUp, card, reply, adrift, turn, attached, breaks, elsewhere>>

\* It gives up waiting, or somebody answered elsewhere.
Withdraw(i) ==
  /\ request[i] = "open"
  /\ request' = [request EXCEPT ![i] = "closed"]
  /\ notices' = Announced(Notice("cancelled", i))
  /\ UNCHANGED <<takenUp, card, reply, adrift, turn, attached, breaks, elsewhere>>

\* A reply arrives: it is acted on, or rejected once the request is closed.
TakeReply(i) ==
  /\ reply[i].answer # NoReply /\ reply[i].result = "none"
  /\ \/ /\ request' = [request EXCEPT ![i] = "closed"]
        /\ takenUp' = [takenUp EXCEPT ![i] = @ + 1]
        /\ reply' = [reply EXCEPT ![i].result = "ok"]
     \/ /\ request[i] = "closed"
        /\ reply' = [reply EXCEPT ![i].result = "rejected"]
        /\ UNCHANGED <<request, takenUp>>
  /\ UNCHANGED <<notices, card, adrift, turn, attached, breaks, elsewhere>>

TakeAdrift(i) ==
  /\ i \in adrift /\ adrift' = adrift \ {i}
  /\ request' = [request EXCEPT ![i] = "closed"]
  /\ takenUp' = [takenUp EXCEPT ![i] = @ + 1]
  /\ UNCHANGED <<notices, card, reply, turn, attached, breaks, elsewhere>>

\* A person takes over the computer of the turn (runner/worker/gateway.ts, takeControl),
\* which is announced again once the turn has stopped, and gives it back.
Paused ==
  /\ ~Contains(notices, Notice("paused", Computer))
  /\ notices' = Announced(Notice("paused", Computer))
  /\ UNCHANGED <<request, takenUp, card, reply, adrift, turn, toolsBound, apart, attached>>

TakeOver == turn # "ended" /\ ~taken /\ taken' = TRUE /\ Paused /\ Break
PauseAgain == taken /\ attached /\ Paused /\ UNCHANGED <<taken, breaks>>

GiveBack ==
  /\ taken /\ taken' = FALSE /\ ~Contains(notices, Notice("resumed", Computer))
  /\ notices' = Announced(Notice("resumed", Computer))
  /\ UNCHANGED <<request, takenUp, card, reply, adrift, turn, toolsBound, apart,
                 attached, breaks>>

-----------------------------------------------------------------------------
(* The server                                                              *)

\* Mutant: a reply with an unknown outcome may be given again.
AnswerableAgain(c) == c.known /\ ~c.resolved /\ c.state # "sending"

\* respond refuses a request that is resolved, being answered, or whose answer
\* may have arrived.
Answerable(c) == c.known /\ ~c.resolved /\ c.state = "none"

Sending(i, a) == [card[i] EXCEPT !.known = TRUE, !.answer = a, !.state = "sending"]

Respond(i, a) ==
  /\ Answerable(card[i]) /\ attached /\ turn \in {"running", "waiting"}
  /\ card' = [card EXCEPT ![i] = Sending(i, a)]
  /\ reply' = [reply EXCEPT ![i] = [answer |-> a, result |-> "none"]]
  /\ UNCHANGED <<request, takenUp, notices, adrift, turn, attached, breaks, elsewhere>>

\* respond without a connection: the answer never leaves, yet it counts as uncertain.
RespondInVain(i, a) ==
  /\ Answerable(card[i]) /\ ~attached /\ turn \in {"running", "waiting"}
  /\ card' = [card EXCEPT ![i].answer = a, ![i].state = "uncertain"]
  /\ UNCHANGED <<request, takenUp, notices, reply, adrift, turn, elsewhere, attached, breaks>>

Arrives(k, i) ==
  notices # <<>> /\ Head(notices) = Notice(k, i) /\ notices' = Tail(notices)

\* A request: a new one gets a card, and the policy may answer it at once; one
\* that is announced again keeps its card; one that was resolved is ignored.
RequestArrives(i) ==
  /\ Arrives("request", i)
  /\ IF card[i].resolved
     THEN UNCHANGED <<card, reply, turn>>
     ELSE /\ turn' = "waiting"
          /\ IF i \in Automatic /\ ~card[i].known
             THEN /\ card' = [card EXCEPT ![i] = Sending(i, "once")]
                  /\ reply' = [reply EXCEPT ![i] = [answer |-> "once", result |-> "none"]]
             ELSE /\ card' = [card EXCEPT ![i].known = TRUE]
                  /\ UNCHANGED reply
  /\ UNCHANGED <<request, takenUp, adrift, attached, breaks, elsewhere>>

\* The turn goes on once no card is open, whatever else it waits for.
GoesOn(cards) == IF turn = "waiting" /\ OpenCards(cards) = {} THEN "running" ELSE turn

CancelArrives(i) ==
  /\ Arrives("cancelled", i)
  /\ card' = [card EXCEPT ![i].resolved = card[i].known]
  /\ turn' = GoesOn(card')
  /\ UNCHANGED <<request, takenUp, reply, adrift, attached, breaks, elsewhere>>

\* The computer is taken over or given back: the turn waits or goes on, whatever
\* cards are open.
PauseArrives ==
  /\ Arrives("paused", Computer)
  /\ apart' = apart \cup {"computer"} /\ turn' = "waiting"
  /\ UNCHANGED <<request, takenUp, card, reply, adrift, toolsBound, taken, attached, breaks>>

ResumeArrives ==
  /\ Arrives("resumed", Computer)
  /\ apart' = apart \ {"computer"} /\ turn' = "running"
  /\ UNCHANGED <<request, takenUp, card, reply, adrift, toolsBound, taken, attached, breaks>>

\* The first use of a credential begins, the last one ends.
CredentialBegins ==
  /\ toolsBound /\ turn \in {"running", "waiting"} /\ "credential" \notin apart
  /\ apart' = apart \cup {"credential"} /\ turn' = "waiting" /\ Break
  /\ UNCHANGED <<request, takenUp, notices, card, reply, adrift, toolsBound, taken, attached>>

CredentialEnds ==
  /\ "credential" \in apart
  /\ apart' = apart \ {"credential"} /\ turn' = "running"
  /\ UNCHANGED <<request, takenUp, notices, card, reply, adrift, toolsBound, taken,
                 attached, breaks>>

\* respond, after the call: accepted, the turn goes on whatever else is open;
\* rejected, it may be answered again, unless it was resolved meanwhile.
ReplyAnswered(i) ==
  /\ reply[i].result # "none"
  /\ reply' = [reply EXCEPT ![i] = NoCall]
  /\ IF reply[i].result = "ok"
     THEN /\ card' = [card EXCEPT ![i].resolved = TRUE, ![i].state = "sent"]
          /\ turn' = IF turn = "waiting" THEN "running" ELSE turn
     ELSE /\ card' = IF card[i].resolved THEN card ELSE [card EXCEPT ![i].state = "none"]
          /\ UNCHANGED turn
  /\ UNCHANGED <<request, takenUp, notices, adrift, attached, breaks, elsewhere>>

\* Calls whose outcome is lost; Hermes may have got them, or get them yet.
Lost(is) ==
  /\ reply' = [i \in Questions |-> IF i \in is THEN NoCall ELSE reply[i]]
  /\ adrift' = adrift \cup {i \in is : reply[i].result = "none"}

Uncertain(is) ==
  [i \in Questions |-> IF i \in is /\ ~card[i].resolved
                      THEN [card[i] EXCEPT !.state = "uncertain"] ELSE card[i]]

UnderWay == {i \in Questions : reply[i].answer # NoReply}

ReplyTimesOut(i) ==
  /\ i \in UnderWay /\ Break
  /\ Lost({i}) /\ card' = Uncertain({i})
  /\ UNCHANGED <<request, takenUp, notices, turn, elsewhere, attached>>

\* The socket closes and opens again; the turn keeps its status meanwhile.
Detach ==
  /\ attached /\ attached' = FALSE /\ Break
  /\ Lost(UnderWay) /\ card' = Uncertain(UnderWay)
  /\ notices' = <<>>
  /\ UNCHANGED <<request, takenUp, turn, elsewhere>>

Attach ==
  /\ ~attached /\ turn \in {"running", "waiting"} /\ attached' = TRUE
  /\ UNCHANGED <<request, takenUp, notices, card, reply, adrift, turn, elsewhere, breaks>>

\* Everything the turn asked.
AllResolved == [i \in Questions |-> [card[i] EXCEPT !.resolved = card[i].known]]

\* Mutant: a turn whose outcome is unknown resolves what it asked as well.
ResolvedAlways(outcome) == AllResolved

\* finish resolves what the turn asked, unless its outcome is unknown.
CardsAfter(outcome) ==
  IF outcome = "uncertain" THEN Uncertain(UnderWay) ELSE AllResolved

\* finish and interruptTurn.
TurnFinish(outcome) ==
  /\ turn' = outcome /\ attached' = FALSE
  /\ notices' = <<>> /\ apart' = {}
  /\ card' = CardsAfter(outcome)
  /\ Lost(UnderWay)
  /\ UNCHANGED <<request, takenUp, toolsBound, taken, breaks>>

\* It is over, for a rechecked turn as well; or nobody knows what became of it.
TurnEnds == turn # "ended" /\ TurnFinish("ended")
TurnFails == turn \in {"running", "waiting"} /\ TurnFinish("uncertain")

\* The process dies: the call is forgotten, the card is not.
TurnCrash ==
  /\ turn \in {"running", "waiting"} /\ turn' = "uncertain" /\ attached' = FALSE
  /\ Break
  /\ Lost(UnderWay) /\ notices' = <<>> /\ apart' = {}
  /\ UNCHANGED <<request, takenUp, card, toolsBound, taken>>

\* An uncertain turn that Hermes still works on goes on, with the cards it had; one
\* that was given tools has lost them and stays uncertain.
TurnRecheck ==
  /\ turn = "uncertain" /\ ~toolsBound
  /\ turn' = "running" /\ attached' = TRUE
  /\ UNCHANGED <<request, takenUp, notices, card, reply, adrift, elsewhere, breaks>>

-----------------------------------------------------------------------------
InteractionNext ==
  \/ \E i \in Questions :
       \/ Ask(i) \/ AskAgain(i) \/ Withdraw(i) \/ TakeReply(i) \/ TakeAdrift(i)
       \/ \E a \in Replies : Respond(i, a) \/ RespondInVain(i, a)
       \/ RequestArrives(i) \/ CancelArrives(i) \/ ReplyAnswered(i) \/ ReplyTimesOut(i)
  \/ TakeOver \/ PauseAgain \/ GiveBack \/ PauseArrives \/ ResumeArrives
  \/ CredentialBegins \/ CredentialEnds
  \/ Detach \/ Attach \/ TurnEnds \/ TurnFails \/ TurnCrash \/ TurnRecheck

InteractionSpec == InteractionInit /\ [][InteractionNext]_interactionVars

-----------------------------------------------------------------------------
(* Properties                                                              *)

\* Every variable has its type, and a call under way belongs to a card.
InteractionTypeOK ==
  /\ request \in [Questions -> {"none", "open", "closed"}]
  /\ takenUp \in [Questions -> Nat]
  /\ Range(notices) \subseteq {Notice(k, i) : k \in {"request", "cancelled"}, i \in Questions}
                            \cup {Notice(k, Computer) : k \in {"paused", "resumed"}}
  /\ card \in [Questions -> [known : BOOLEAN, resolved : BOOLEAN,
                            answer : Replies \cup {NoReply},
                            state : {"none", "sending", "sent", "uncertain"}]]
  /\ reply \in [Questions -> [answer : Replies \cup {NoReply},
                             result : {"none", "ok", "rejected"}]]
  /\ adrift \subseteq Questions
  /\ turn \in {"running", "waiting", "uncertain", "ended"}
  /\ toolsBound \in BOOLEAN /\ taken \in BOOLEAN /\ apart \subseteq {"computer", "credential"}
  /\ attached \in BOOLEAN /\ breaks \in 0 .. MaxBreaks

\* Hermes never acts on two replies to one request, whoever answers and whatever
\* becomes of the first reply; a card that says "sent" had its answer acted on.
AnsweredOnce ==
  \A i \in Questions : /\ takenUp[i] <= 1
                       /\ card[i].state = "sent" => takenUp[i] = 1

\* The server and Hermes agree on what is waited for.  What counts as resolved in a
\* turn that is not over is closed at Hermes, so a request announced again after a
\* lost connection, a failed turn or a crash is never passed over while Hermes
\* waits for its answer.  And a turn waits only while a card is unresolved, a person
\* has the computer or a credential is in use, as far as the server has heard.  (A
\* card whose reply is uncertain is unresolved: nobody can answer it again, Hermes
\* withdraws it or the turn ends.)
WaitingAgrees ==
  /\ turn # "ended" => \A i \in Questions : card[i].resolved => request[i] = "closed"
  /\ turn = "waiting" => OpenCards(card) # {} \/ apart # {}
=============================================================================
