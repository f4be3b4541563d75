-------------------------- MODULE RealtimeCommands --------------------------
(***************************************************************************)
(* Commands a client posts to the realtime broker under an idempotency     *)
(* key: write-ahead admission (realtimeReceipts.ts), execution on the      *)
(* upstream socket (realtimeBroker.ts: command, perform, rpc, close) and   *)
(* the receipts clients read afterwards.  Clients retry as they like, with *)
(* the same or another body, before and after restarts and retention.      *)
(*                                                                         *)
(* Abstracted: bodies (a member of Frames), what a refusal is about        *)
(* (rights, routes, validity), several owners and upstreams; of the routes *)
(* one is kept.  Ages are a choice: any finished receipt may be old.       *)
(***************************************************************************)
EXTENDS Naturals, Sequences, FiniteSets

CONSTANTS
  Requests,      \* idempotency keys
  Frames,        \* command bodies
  Direct,        \* commands that bypass the queue of their route
  Capacity,      \* bound of the receipts table, 100000 in the code
  PendingLimit,  \* commands in execution per principal, 32 in the code
  MaxRestarts,   \* bound: restarts of the process
  NoFrame        \* absence of a body

ASSUME CommandsAssumption ==
  /\ Direct \subseteq Requests
  /\ Capacity \in Nat /\ PendingLimit \in Nat /\ MaxRestarts \in Nat
  /\ NoFrame \notin Frames

VARIABLES
  row,        \* durable: state of the receipt, "none" without a row
  print,      \* durable: fingerprint of the admitted body
  tombs,      \* durable: retired receipts, only their fingerprint is kept
  phase,      \* volatile: the commands map, and how far perform has come
  tail,       \* volatile: the queue of the route
  completed,  \* volatile: results kept in memory
  closed,     \* volatile: the broker is stopping
  upstream,   \* Hermes: what became of the command sent for the request
  applied,    \* Hermes: how often it took effect
  told,       \* history: receipts clients have been given
  restarts    \* bookkeeping of the model

durableVars == <<row, print, tombs>>
memoryVars == <<phase, tail, completed, closed>>
vars == <<durableVars, memoryVars, upstream, applied, told, restarts>>

Final == {"confirmed", "rejected", "unknown"}

-----------------------------------------------------------------------------
(* The receipts table                                                      *)

Rows == {r \in Requests : row[r] # "none"}

\* Mutant: a retired receipt is taken for a confirmed one.
LookupConfirmed(r) == IF r \in tombs THEN "confirmed" ELSE row[r]

\* lookup: a retired receipt has an unknown result.
Lookup(r) == IF r \in tombs THEN "unknown" ELSE row[r]

\* Mutant: retired receipts are forgotten.
KnownRows(r) == r \in Rows

Known(r) == r \in Rows \cup tombs

\* What receipt() and a repeated command() answer.
Receipt(r) == IF completed[r] # "none" THEN completed[r] ELSE Lookup(r)

Tell(r, state) == told' = [told EXCEPT ![r] = @ \cup {state}]

\* reserve, for a request never seen: one transaction retires old results and
\* inserts the pending row; at capacity nothing happens.
Reserve(r, f) ==
  \E old \in SUBSET {q \in Requests : row[q] \in {"confirmed", "rejected"}} :
    /\ Cardinality(Rows \ old) < Capacity
    /\ row' = [q \in Requests |-> IF q = r THEN "pending"
                                  ELSE IF q \in old THEN "none" ELSE row[q]]
    /\ tombs' = tombs \cup old
    /\ print' = [print EXCEPT ![r] = f]

-----------------------------------------------------------------------------
(* Commands                                                                *)

\* Mutant: the queue of the route keeps what has ended.
FinishQueued(ended, state) ==
  /\ row' = [r \in Requests |-> IF r \in ended THEN state ELSE row[r]]
  /\ phase' = [r \in Requests |-> IF r \in ended THEN "none" ELSE phase[r]]
  /\ completed' = [r \in Requests |-> IF r \in ended THEN state ELSE completed[r]]
  /\ told' = [r \in Requests |-> IF r \in ended THEN told[r] \cup {state} ELSE told[r]]
  /\ UNCHANGED <<print, tombs, tail, restarts>>

\* A queue without the commands that have ended; the others keep their order.
LeftIn(queue, ended) ==
  LET rest[n \in 0 .. Len(queue)] ==
        IF n = 0 THEN <<>>
        ELSE IF queue[n] \in ended THEN rest[n - 1] ELSE Append(rest[n - 1], queue[n])
  IN rest[Len(queue)]

\* The commands ended by one event: their receipts are written, their results
\* kept in memory and told to every client that waits for them.
Finish(ended, state) ==
  /\ row' = [r \in Requests |-> IF r \in ended THEN state ELSE row[r]]
  /\ phase' = [r \in Requests |-> IF r \in ended THEN "none" ELSE phase[r]]
  /\ completed' = [r \in Requests |-> IF r \in ended THEN state ELSE completed[r]]
  /\ told' = [r \in Requests |-> IF r \in ended THEN told[r] \cup {state} ELSE told[r]]
  /\ tail' = LeftIn(tail, ended)
  /\ UNCHANGED <<print, tombs, restarts>>

\* command, first post of a key.
Admit(r, f) ==
  /\ ~closed
  /\ ~Known(r)
  /\ Cardinality({q \in Requests : phase[q] # "none"}) < PendingLimit
  /\ Reserve(r, f)
  /\ phase' = [phase EXCEPT ![r] = "queued"]
  /\ tail' = IF r \in Direct THEN tail ELSE Append(tail, r)
  /\ UNCHANGED <<completed, closed, upstream, applied, told, restarts>>

\* command, posted again: another body is a conflict, the same one joins the
\* command in execution or is given the receipt.
Repeat(r, f) ==
  /\ ~closed
  /\ Known(r) /\ f = print[r] /\ phase[r] = "none"
  /\ Tell(r, Receipt(r))
  /\ UNCHANGED <<durableVars, memoryVars, upstream, applied, restarts>>

\* GET of a receipt.
Read(r) ==
  /\ Known(r)
  /\ Tell(r, Receipt(r))
  /\ UNCHANGED <<durableVars, memoryVars, upstream, applied, restarts>>

MayExecute(r) ==
  /\ phase[r] = "queued"
  /\ r \in Direct \/ (tail # <<>> /\ Head(tail) = r)

\* perform refuses before anything is sent (an HttpError): at once, or when the
\* command's turn in the queue has come.
Refuse(r) ==
  /\ phase[r] = "queued"
  /\ Finish({r}, "rejected")
  /\ UNCHANGED <<closed, upstream, applied>>

\* No usable socket: the error is not an HttpError.
Unavailable(r) ==
  /\ MayExecute(r)
  /\ Finish({r}, "unknown")
  /\ UNCHANGED <<closed, upstream, applied>>

\* rpc: the frame is written to the socket; it may never arrive.
Send(r) ==
  /\ MayExecute(r) /\ ~closed
  /\ phase' = [phase EXCEPT ![r] = "sent"]
  /\ \E fate \in {"received", "lost"} : upstream' = [upstream EXCEPT ![r] = fate]
  /\ UNCHANGED <<durableVars, tail, completed, closed, applied, told, restarts>>

\* Hermes carries the command out, or answers with an error.
Handle(r) ==
  /\ upstream[r] = "received"
  /\ \/ /\ upstream' = [upstream EXCEPT ![r] = "ok"]
        /\ applied' = [applied EXCEPT ![r] = @ + 1]
     \/ /\ upstream' = [upstream EXCEPT ![r] = "error"]
        /\ UNCHANGED applied
  /\ UNCHANGED <<durableVars, memoryVars, told, restarts>>

\* The answer arrives; a result that does not name its session is not trusted.
Answer(r) ==
  /\ phase[r] = "sent" /\ upstream[r] \in {"ok", "error"}
  /\ \/ upstream[r] = "ok" /\ Finish({r}, "confirmed")
     \/ upstream[r] = "ok" /\ Finish({r}, "unknown")
     \/ upstream[r] = "error" /\ Finish({r}, "rejected")
  /\ UNCHANGED <<closed, upstream, applied>>

\* Mutant: a time-out is reported as a refusal.
TimeoutRejected(r) ==
  /\ phase[r] = "sent"
  /\ Finish({r}, "rejected")
  /\ UNCHANGED <<closed, upstream, applied>>

\* No answer within the time limit; a later answer finds nobody waiting.
Timeout(r) ==
  /\ phase[r] = "sent"
  /\ Finish({r}, "unknown")
  /\ UNCHANGED <<closed, upstream, applied>>

Sent == {r \in Requests : phase[r] = "sent"}

\* The socket closes: everything sent on it has an unknown result.
Disconnect ==
  /\ Sent # {}
  /\ Finish(Sent, "unknown")
  /\ UNCHANGED <<closed, upstream, applied>>

\* close: like a disconnect, and nothing new is admitted or sent.
Close ==
  /\ ~closed
  /\ closed' = TRUE
  /\ Finish(Sent, "unknown")
  /\ UNCHANGED <<upstream, applied>>

\* sweep and the size limits drop results from memory.
Evict(r) ==
  /\ completed[r] # "none"
  /\ completed' = [completed EXCEPT ![r] = "none"]
  /\ UNCHANGED <<durableVars, phase, tail, closed, upstream, applied, told, restarts>>

\* The process ends and starts again; opening the table gives up every pending
\* receipt.
Restart ==
  /\ restarts < MaxRestarts
  /\ restarts' = restarts + 1
  /\ row' = [r \in Requests |-> IF row[r] = "pending" THEN "unknown" ELSE row[r]]
  /\ phase' = [r \in Requests |-> "none"]
  /\ tail' = <<>>
  /\ completed' = [r \in Requests |-> "none"]
  /\ closed' = FALSE
  /\ UNCHANGED <<print, tombs, upstream, applied, told>>

-----------------------------------------------------------------------------
Init ==
  /\ row = [r \in Requests |-> "none"]
  /\ print = [r \in Requests |-> NoFrame]
  /\ tombs = {}
  /\ phase = [r \in Requests |-> "none"]
  /\ tail = <<>>
  /\ completed = [r \in Requests |-> "none"]
  /\ closed = FALSE
  /\ upstream = [r \in Requests |-> "none"]
  /\ applied = [r \in Requests |-> 0]
  /\ told = [r \in Requests |-> {}]
  /\ restarts = 0

Client(r) == Read(r) \/ \E f \in Frames : Admit(r, f) \/ Repeat(r, f)

Broker(r) ==
  Refuse(r) \/ Unavailable(r) \/ Send(r) \/ Answer(r) \/ Timeout(r) \/ Evict(r)

Next ==
  \/ \E r \in Requests : Client(r) \/ Broker(r) \/ Handle(r)
  \/ Disconnect \/ Close \/ Restart

Spec == Init /\ [][Next]_vars

-----------------------------------------------------------------------------
(* Properties                                                              *)

TypeOK ==
  /\ row \in [Requests -> {"none", "pending"} \cup Final]
  /\ print \in [Requests -> Frames \cup {NoFrame}]
  /\ tombs \subseteq Requests
  /\ phase \in [Requests -> {"none", "queued", "sent"}]
  /\ tail \in Seq(Requests)
  /\ completed \in [Requests -> {"none"} \cup Final]
  /\ closed \in BOOLEAN
  /\ upstream \in [Requests -> {"none", "received", "lost", "ok", "error"}]
  /\ applied \in [Requests -> Nat]
  /\ told \in [Requests -> SUBSET ({"pending"} \cup Final)]
  /\ restarts \in 0 .. MaxRestarts

\* Whatever clients repeat and whenever the process dies or forgets results, a
\* command takes effect at most once.
ExecutedOnce == \A r \in Requests : applied[r] <= 1

\* A client told that its command was confirmed can rely on its effect, and one
\* told that it was rejected on there never being any.
ReceiptTruthful ==
  \A r \in Requests :
    /\ "confirmed" \in told[r] => applied[r] = 1
    /\ "rejected" \in told[r] => applied[r] = 0 /\ upstream[r] # "received"

\* A final receipt is final: later readers, also after a restart or retention,
\* learn the same or that the result is not known any more.
ReceiptStable ==
  [][\A r \in Requests : \A s \in told'[r] \ told[r] :
       told[r] \cap {"confirmed", "rejected"} # {} => s = "unknown"]_vars

-----------------------------------------------------------------------------
\* A queued command is attempted and a sent one gets an answer or its timeout.
Fairness ==
  \A r \in Requests : /\ WF_vars(MayExecute(r) /\ (Refuse(r) \/ Unavailable(r) \/ Send(r)))
                      /\ WF_vars(Answer(r) \/ Timeout(r))

FairSpec == Spec /\ Fairness

\* Every admitted command ends with a receipt, a stuck one does not hold up the
\* queue of its route for ever: keys are finite here and admitted once, so that
\* nothing is pending any more in the end.
CommandsEnd == <>[](\A r \in Requests : row[r] # "pending")
=============================================================================
