---------------------------- MODULE Realtime_proofs ----------------------------
(***************************************************************************)
(* What TLAPS proves about realtimeBroker.ts and its clients, for all      *)
(* values of the constants.                                                *)
(*                                                                         *)
(* Commands: a command takes effect at most once, receipts tell the truth  *)
(* and stay as they are.                                                   *)
(*                                                                         *)
(* Events: a client that follows a session is shown no event before the    *)
(* ones it follows.  The argument goes along the way of an event.  An      *)
(* answer on the wire divides the events of the runtime into those it      *)
(* tells of and those that come after it (Divides); a pass over received   *)
(* frames emits entries that continue each other up to a reset (Reached);  *)
(* so what a client has still to read continues what it knows (Continues), *)
(* and when no reset waits for it, the next event of the route continues   *)
(* that (InStep).                                                          *)
(***************************************************************************)
EXTENDS RealtimeCommands, RealtimeReplay, FiniteSetTheorems, SequenceTheorems, TLAPS

-----------------------------------------------------------------------------
(* Commands and their receipts                                             *)

Receipts == {"pending"} \cup Final

\* The types of everything but the queue of the route, which matters to none of
\* the properties.
CommandTypes ==
  /\ row \in [Requests -> {"none"} \cup Receipts]
  /\ tombs \subseteq Requests
  /\ phase \in [Requests -> {"none", "queued", "sent"}]
  /\ completed \in [Requests -> {"none"} \cup Final]
  /\ upstream \in [Requests -> {"none", "received", "lost", "ok", "error"}]
  /\ applied \in [Requests -> Nat]
  /\ told \in [Requests -> SUBSET Receipts]

\* How memory, table and Hermes belong together: a command in execution has its
\* pending row, a key the table does not know has left no trace, a command that
\* waits has not been sent, and Hermes applies what it answers with success.
TraceInv ==
  \A r \in Requests :
    /\ phase[r] # "none" => row[r] = "pending"
    /\ r \in tombs => row[r] = "none"
    /\ ~Known(r) => upstream[r] = "none" /\ completed[r] = "none" /\ told[r] = {}
    /\ phase[r] = "queued" => upstream[r] = "none"
    /\ applied[r] = IF upstream[r] = "ok" THEN 1 ELSE 0

\* What a receipt claims cannot change any more.
True(r, s) ==
  /\ s = "confirmed" => upstream[r] = "ok"
  /\ s = "rejected" => upstream[r] \in {"none", "error"} /\ phase[r] = "none" /\ Known(r)

\* A verdict a client knows is in the table until it is retired; memory keeps only
\* what clients were told.
ReceiptInv ==
  \A r \in Requests :
    /\ True(r, row[r]) /\ \A s \in told[r] : True(r, s)
    /\ \A s \in told[r] : s \in {"confirmed", "rejected"} => row[r] = s \/ r \in tombs
    /\ completed[r] # "none" => completed[r] \in told[r]

CommandInv == CommandTypes /\ TraceInv /\ ReceiptInv

\* A step after which nobody is told anything that contradicts an earlier verdict.
Stable ==
  \A r \in Requests : \A s \in told'[r] \ told[r] :
    told[r] \cap {"confirmed", "rejected"} # {} => s = "unknown"

-----------------------------------------------------------------------------
LEMMA CommandsInit == Init => CommandInv
<1> SUFFICES ASSUME Init PROVE CommandInv
  OBVIOUS
<1>1. CommandTypes
  BY DEF Init, CommandTypes, Receipts
<1>2. TraceInv
  BY DEF Init, TraceInv
<1>3. ReceiptInv
  BY DEF Init, ReceiptInv, True
<1> QED
  BY <1>1, <1>2, <1>3 DEF CommandInv

\* The end of commands in execution, with a verdict that Hermes' answer bears out.
LEMMA FinishCommand ==
  ASSUME CommandInv,
         NEW ended \in SUBSET {r \in Requests : phase[r] # "none"}, NEW state \in Final,
         \A r \in ended : /\ state = "confirmed" => upstream[r] = "ok"
                          /\ state = "rejected" => upstream[r] \in {"none", "error"},
         Finish(ended, state), UNCHANGED <<upstream, applied>>
  PROVE  CommandInv' /\ Stable
<1> USE DEF CommandInv
<1>1. CommandTypes'
  BY DEF CommandTypes, Finish, Receipts
<1>2. TraceInv'
  <2> SUFFICES ASSUME NEW r \in Requests
               PROVE  (/\ phase[r] # "none" => row[r] = "pending"
                       /\ r \in tombs => row[r] = "none"
                       /\ ~Known(r) => upstream[r] = "none" /\ completed[r] = "none"
                                        /\ told[r] = {}
                       /\ phase[r] = "queued" => upstream[r] = "none"
                       /\ applied[r] = IF upstream[r] = "ok" THEN 1 ELSE 0)'
    BY DEF TraceInv
  <2>1. CASE r \in ended
    BY <2>1 DEF CommandTypes, TraceInv, Finish, Known, Rows, Final
  <2>2. CASE r \notin ended
    BY <2>2 DEF CommandTypes, TraceInv, Finish, Known, Rows, Final
  <2> QED
    BY <2>1, <2>2
<1>3. \A r \in ended : row[r] = "pending" /\ r \notin tombs
                       /\ told[r] \cap {"confirmed", "rejected"} = {}
  BY DEF CommandTypes, TraceInv, ReceiptInv
<1>4. ReceiptInv'
  <2> SUFFICES ASSUME NEW r \in Requests
               PROVE  (/\ True(r, row[r]) /\ \A s \in told[r] : True(r, s)
                       /\ \A s \in told[r] :
                            s \in {"confirmed", "rejected"} => row[r] = s \/ r \in tombs
                       /\ completed[r] # "none" => completed[r] \in told[r])'
    BY DEF ReceiptInv
  <2>1. CASE r \in ended
    BY <2>1, <1>3 DEF CommandTypes, ReceiptInv, True, Finish, Known, Rows, Final
  <2>2. CASE r \notin ended
    BY <2>2 DEF CommandTypes, ReceiptInv, True, Finish, Known, Rows, Final
  <2> QED
    BY <2>1, <2>2
<1>5. Stable
  BY <1>3 DEF Stable, Finish, CommandTypes
<1> QED
  BY <1>1, <1>2, <1>4, <1>5

\* A receipt read from memory or from the table.
LEMMA TellStep ==
  ASSUME CommandInv, NEW r \in Requests, Known(r), Tell(r, Receipt(r)),
         UNCHANGED <<row, tombs, phase, completed, upstream, applied>>
  PROVE  CommandInv' /\ Stable
<1> USE DEF CommandInv
<1>1. Receipt(r) \in Receipts
  BY DEF Receipt, Lookup, CommandTypes, Known, Rows, Receipts, Final
<1>2. True(r, Receipt(r))
  BY DEF Receipt, Lookup, ReceiptInv, True
<1>3. Receipt(r) \in {"confirmed", "rejected"} => Receipt(r) \in told[r] \/ row[r] = Receipt(r)
  BY DEF Receipt, Lookup, ReceiptInv
<1>4. \A q \in Requests : told'[q] = IF q = r THEN told[q] \cup {Receipt(r)} ELSE told[q]
  BY DEF Tell, CommandTypes
<1>5. CommandTypes'
  BY <1>1 DEF Tell, CommandTypes
<1>6. TraceInv'
  BY <1>4 DEF TraceInv, Known, Rows
<1>7. ReceiptInv'
  <2> SUFFICES ASSUME NEW q \in Requests
               PROVE  (/\ True(q, row[q]) /\ \A s \in told[q] : True(q, s)
                       /\ \A s \in told[q] :
                            s \in {"confirmed", "rejected"} => row[q] = s \/ q \in tombs
                       /\ completed[q] # "none" => completed[q] \in told[q])'
    BY DEF ReceiptInv
  <2>1. \A s : True(q, s) <=> True(q, s)'
    BY DEF True, Known, Rows
  <2>2. Receipt(r) \in {"confirmed", "rejected"} => row[r] = Receipt(r) \/ r \in tombs
    BY <1>3 DEF ReceiptInv
  <2>3. \A s \in told'[q] : s \in told[q] \/ (q = r /\ s = Receipt(r))
    BY <1>4
  <2>4. (\A s \in told[q] : True(q, s))'
    BY <1>2, <2>1, <2>3 DEF ReceiptInv
  <2>5. True(q, row[q])'
    BY <2>1 DEF ReceiptInv
  <2>6. \A s \in told'[q] : s \in {"confirmed", "rejected"} => row[q] = s \/ q \in tombs
    BY <2>2, <2>3 DEF ReceiptInv
  <2> QED
    BY <1>4, <2>4, <2>5, <2>6 DEF ReceiptInv
<1>8. Stable
  <2> SUFFICES ASSUME NEW t \in told[r], t \in {"confirmed", "rejected"},
                      Receipt(r) \notin told[r]
               PROVE  Receipt(r) = "unknown"
    BY <1>4 DEF Stable
  <2>1. completed[r] = "none"
    BY DEF Receipt, ReceiptInv
  <2>2. row[r] = t \/ r \in tombs
    BY DEF ReceiptInv
  <2> QED
    BY <2>1, <2>2 DEF Receipt, Lookup
<1> QED
  BY <1>5, <1>6, <1>7, <1>8

-----------------------------------------------------------------------------
(* The actions                                                             *)

LEMMA ClientInv ==
  ASSUME CommandInv, NEW r \in Requests, Client(r)
  PROVE  CommandInv' /\ Stable
<1>1. CASE Read(r)
  BY <1>1, TellStep DEF Read, durableVars, memoryVars
<1>2. ASSUME NEW f \in Frames, Repeat(r, f) PROVE CommandInv' /\ Stable
  BY <1>2, TellStep DEF Repeat, durableVars, memoryVars
<1>3. ASSUME NEW f \in Frames, Admit(r, f) PROVE CommandInv' /\ Stable
  <2> USE <1>3 DEF CommandInv
  <2>1. PICK old \in SUBSET {q \in Requests : row[q] \in {"confirmed", "rejected"}} :
          /\ row' = [q \in Requests |-> IF q = r THEN "pending"
                                        ELSE IF q \in old THEN "none" ELSE row[q]]
          /\ tombs' = tombs \cup old
    BY DEF Admit, Reserve
  <2>2. ~Known(r) /\ phase' = [phase EXCEPT ![r] = "queued"]
        /\ UNCHANGED <<completed, upstream, applied, told>>
    BY DEF Admit
  <2>3. CommandTypes'
    BY <2>1, <2>2 DEF CommandTypes, Receipts
  <2>4. \A q \in Requests : q # r => (Known(q)' <=> Known(q))
    BY <2>1 DEF Known, Rows
  <2>5. TraceInv'
    BY <2>1, <2>2, <2>4 DEF CommandTypes, TraceInv, Known, Rows
  <2>6. ReceiptInv'
    <3> SUFFICES ASSUME NEW q \in Requests
                 PROVE  (/\ True(q, row[q]) /\ \A s \in told[q] : True(q, s)
                         /\ \A s \in told[q] :
                              s \in {"confirmed", "rejected"} => row[q] = s \/ q \in tombs
                         /\ completed[q] # "none" => completed[q] \in told[q])'
      BY DEF ReceiptInv
    <3>1. CASE q = r
      BY <3>1, <2>1, <2>2 DEF CommandTypes, TraceInv, True
    <3>2. CASE q # r
      BY <3>2, <2>1, <2>2, <2>4 DEF CommandTypes, ReceiptInv, True
    <3> QED
      BY <3>1, <3>2
  <2>7. Stable
    BY <2>2 DEF Stable
  <2> QED
    BY <2>3, <2>5, <2>6, <2>7
<1> QED
  BY <1>1, <1>2, <1>3 DEF Client

LEMMA BrokerInv ==
  ASSUME CommandInv, NEW r \in Requests, Broker(r)
  PROVE  CommandInv' /\ Stable
<1> USE DEF CommandInv
<1>1. CASE Refuse(r)
  <2>1. upstream[r] = "none"
    BY <1>1 DEF Refuse, TraceInv
  <2> QED
    BY <1>1, <2>1, FinishCommand DEF Refuse, Final
<1>2. CASE Unavailable(r) \/ Timeout(r)
  BY <1>2, FinishCommand DEF Unavailable, Timeout, MayExecute, Final
<1>3. CASE Answer(r)
  BY <1>3, FinishCommand DEF Answer, Final
<1>4. CASE Send(r)
  <2>1. PICK fate \in {"received", "lost"} : upstream' = [upstream EXCEPT ![r] = fate]
    BY <1>4 DEF Send
  <2>2. phase[r] = "queued" /\ phase' = [phase EXCEPT ![r] = "sent"]
        /\ UNCHANGED <<row, tombs, completed, applied, told>>
    BY <1>4 DEF Send, MayExecute, durableVars
  <2>3. CommandTypes'
    BY <2>1, <2>2 DEF CommandTypes
  <2>4. TraceInv'
    BY <2>1, <2>2 DEF CommandTypes, TraceInv, Known, Rows
  <2>5. ReceiptInv'
    BY <2>1, <2>2 DEF CommandTypes, TraceInv, ReceiptInv, True, Known, Rows
  <2> QED
    BY <2>2, <2>3, <2>4, <2>5 DEF Stable
<1>5. CASE Evict(r)
  <2>1. CommandTypes'
    BY <1>5 DEF Evict, CommandTypes, durableVars
  <2>2. TraceInv'
    BY <1>5 DEF Evict, CommandTypes, TraceInv, Known, Rows, durableVars
  <2>3. ReceiptInv'
    BY <1>5 DEF Evict, CommandTypes, ReceiptInv, True, Known, Rows, durableVars
  <2> QED
    BY <1>5, <2>1, <2>2, <2>3 DEF Evict, Stable
<1> QED
  BY <1>1, <1>2, <1>3, <1>4, <1>5 DEF Broker

LEMMA HandleInv ==
  ASSUME CommandInv, NEW r \in Requests, Handle(r)
  PROVE  CommandInv' /\ Stable
<1> USE DEF CommandInv
<1>1. UNCHANGED <<row, tombs, phase, completed, told>> /\ upstream[r] = "received"
  BY DEF Handle, durableVars, memoryVars
<1>2. CommandTypes'
  BY <1>1 DEF Handle, CommandTypes
<1>3. TraceInv'
  BY <1>1 DEF Handle, CommandTypes, TraceInv, Known, Rows
<1>4. ReceiptInv'
  BY <1>1 DEF Handle, CommandTypes, ReceiptInv, True, Known, Rows
<1> QED
  BY <1>1, <1>2, <1>3, <1>4 DEF Stable

\* Everything sent on a socket that closes has an unknown result.
LEMMA SocketInv ==
  ASSUME CommandInv, Disconnect \/ Close
  PROVE  CommandInv' /\ Stable
<1>1. Sent \in SUBSET {r \in Requests : phase[r] # "none"}
  BY DEF Sent
<1>2. Finish(Sent, "unknown") /\ UNCHANGED <<upstream, applied>>
  BY DEF Disconnect, Close
<1> QED
  BY <1>1, <1>2, FinishCommand DEF Final

LEMMA RestartInv ==
  ASSUME CommandInv, Restart
  PROVE  CommandInv' /\ Stable
<1> USE DEF CommandInv
<1>1. CommandTypes'
  BY DEF Restart, CommandTypes, Receipts, Final
<1>2. TraceInv'
  BY DEF Restart, CommandTypes, TraceInv, Known, Rows
<1>3. ReceiptInv'
  BY DEF Restart, CommandTypes, TraceInv, ReceiptInv, True, Known, Rows
<1> QED
  BY <1>1, <1>2, <1>3 DEF Restart, Stable

LEMMA CommandsNext == CommandInv /\ [Next]_vars => CommandInv' /\ Stable
<1> SUFFICES ASSUME CommandInv, [Next]_vars PROVE CommandInv' /\ Stable
  OBVIOUS
<1>1. CASE UNCHANGED vars
  <2>1. UNCHANGED <<row, tombs, phase, completed, upstream, applied, told>>
    BY <1>1 DEF vars, durableVars, memoryVars
  <2> QED
    BY <2>1 DEF CommandInv, CommandTypes, TraceInv, ReceiptInv, True, Known, Rows, Stable
<1>2. ASSUME NEW r \in Requests, Client(r) \/ Broker(r) \/ Handle(r)
      PROVE  CommandInv' /\ Stable
  BY <1>2, ClientInv, BrokerInv, HandleInv
<1> QED
  BY <1>1, <1>2, SocketInv, RestartInv DEF Next

-----------------------------------------------------------------------------
\* The invariant that carries the properties below.
THEOREM CommandsInductive == Spec => []CommandInv
  BY CommandsInit, CommandsNext, PTL DEF Spec

\* A command takes effect at most once, whatever is repeated, retired or lost
\* (realtimeReceipts.ts, reserve; realtimeBroker.ts, command).
THEOREM CommandsOnce == Spec => []ExecutedOnce
<1>1. CommandInv => ExecutedOnce
  BY DEF CommandInv, TraceInv, ExecutedOnce
<1> QED
  BY <1>1, CommandsInductive, PTL

\* Confirmed means carried out, rejected means never (realtimeBroker.ts, perform).
THEOREM ReceiptsTrue == Spec => []ReceiptTruthful
<1>1. CommandInv => ReceiptTruthful
  BY DEF CommandInv, TraceInv, ReceiptInv, True, ReceiptTruthful
<1> QED
  BY <1>1, CommandsInductive, PTL

\* A verdict once given is repeated or unknown, never reversed
\* (realtimeReceipts.ts, lookup and retirement).
THEOREM ReceiptsFinal == Spec => ReceiptStable
<1>1. CommandInv /\ [Next]_vars =>
        [\A r \in Requests : \A s \in told'[r] \ told[r] :
           told[r] \cap {"confirmed", "rejected"} # {} => s = "unknown"]_vars
  BY CommandsNext DEF Stable
<1> QED
  BY <1>1, CommandsInductive, PTL DEF Spec, ReceiptStable

-----------------------------------------------------------------------------
(* Events: the invariant                                                   *)

WireFrames == [kind : {"event", "resumed", "replay", "truncated", "missing", "join", "reopen"},
           gen : 0 .. MaxRuntimes, seq : 0 .. MaxEvents]
Entries == Numbered \cup {Reset}

ReplayTypes ==
  /\ hermes \in [gen : 1 .. MaxRuntimes, seq : 0 .. MaxEvents, ring : Nat, gone : BOOLEAN]
  /\ wire \in Seq(WireFrames)
  /\ asked \in {"none", "resume", "since", "join", "reopen", "answered"}
  /\ link \in {"down", "resume", "since", "up"}
  /\ route \in [gen : 0 .. MaxRuntimes, seq : 0 .. MaxEvents]
  /\ deferred \in Seq(Numbered) /\ Len(deferred) <= DeferLimit
  /\ early \in Seq(Numbered) /\ Len(early) <= EarlyLimit
  /\ chan \in [open : BOOLEAN, joined : BOOLEAN, dropped : Nat, entries : Seq(Entries)]
  /\ Len(chan.entries) <= KeepEntries
  /\ flight \in Seq(Entries)
  /\ client \in [mode : {"told", "open", "live"}, stream : BOOLEAN, cursor : Nat,
                 gen : 0 .. MaxRuntimes, seq : 0 .. MaxEvents]
  /\ faults \in Nat

Now(e) == e.gen = hermes.gen /\ e.seq <= hermes.seq
Past(e) == e.gen < hermes.gen \/ Now(e)

\* What the broker knows of Hermes.
RouteInv ==
  /\ \/ route = [gen |-> 0, seq |-> 0]
     \/ route.gen # 0 /\ Past(route)
  /\ link = "down" => wire = <<>> /\ asked = "none"
  /\ link = "up" => route.gen \in {0, hermes.gen} /\ asked \notin {"resume", "since"}
  /\ link = "resume" => route.gen # 0 /\ asked \in {"resume", "answered"}
  /\ link = "since" => route.gen = hermes.gen /\ asked \in {"since", "answered"}
  /\ \A i \in 1 .. Len(early) : Past(early[i])
  /\ \A i \in 1 .. Len(deferred) : Now(deferred[i])
  /\ deferred # <<>> => Recovering

IsReply(f) == f.kind # "event"
Numbering(f) == f.kind \in {"replay", "join", "reopen"}

\* An answer that tells the number of the last event: what was received or is before it
\* is not later, and every later event is on the wire after it.
Divides(k) ==
  /\ Now(wire[k])
  /\ \A i \in 1 .. k - 1 : wire[i].seq <= wire[k].seq
  /\ \A m \in wire[k].seq + 1 .. hermes.seq :
       \E i \in k + 1 .. Len(wire) : wire[i] = Event(hermes.gen, m)
  /\ \A i \in 1 .. Len(early) : early[i].gen = hermes.gen => early[i].seq <= wire[k].seq
  /\ \A i \in 1 .. Len(deferred) : deferred[i].seq <= wire[k].seq
  /\ route.gen = hermes.gen => route.seq <= wire[k].seq

WireInv ==
  /\ \A i \in 1 .. Len(wire) :
       /\ ~IsReply(wire[i]) => Now(wire[i]) /\ wire[i].seq > 0
       /\ IsReply(wire[i]) => asked = "answered"
       /\ wire[i].kind = "resumed" => link = "resume" /\ wire[i].gen = hermes.gen
       /\ wire[i].kind \in {"replay", "truncated"} => link = "since"
       /\ wire[i].kind \in {"join", "reopen"} => link = "up"
       /\ Numbering(wire[i]) => Divides(i)
  /\ \A i, j \in 1 .. Len(wire) :
       i < j => /\ ~IsReply(wire[i]) /\ ~IsReply(wire[j]) => wire[i].seq < wire[j].seq
                /\ IsReply(wire[i]) => ~IsReply(wire[j])

\* What the client has still to read.
Fed == Streaming \/ Covered(client.cursor)
ToRead == IF Streaming THEN flight
          ELSE SubSeq(chan.entries, client.cursor - chan.dropped + 1, Len(chan.entries))

StreamInv ==
  /\ client.mode = "told" => ~Streaming
  /\ Streaming => chan.open /\ client.cursor + Len(flight) = LastId
  /\ Streaming => \A i \in 1 .. Len(flight) :
       client.cursor + i > chan.dropped
         => flight[i] = chan.entries[client.cursor + i - chan.dropped]
  /\ client.mode # "told" /\ chan.open => client.cursor <= LastId

\* Before it has joined the route a client gets nothing but resets.
JoinInv ==
  client.mode = "open" =>
    /\ ~chan.joined
    /\ Fed => \A i \in 1 .. Len(ToRead) : ToRead[i] = Reset

\* The first i entries hold no reset.
Quiet(s, i) == \A j \in 1 .. i : s[j] # Reset

\* Entry i is the next one of a client that knows n of runtime g.
Continues(s, g, n) ==
  \A i \in 1 .. Len(s) : Quiet(s, i) =>
    /\ s[i].gen = g
    /\ IF i = 1 THEN s[i].seq <= n + 1 ELSE s[i].seq = s[i - 1].seq + 1

\* The client follows the route: the next event will continue what it has to read.
InStep ==
  /\ chan.joined /\ route.gen = client.gen /\ route.gen # 0
  /\ IF ToRead = <<>> THEN route.seq <= client.seq ELSE route.seq = ToRead[Len(ToRead)].seq
  /\ \A i \in 1 .. Len(early) : early[i].gen # route.gen
  /\ link = "up" /\ route.seq = 0 =>
       \A m \in client.seq + 1 .. hermes.seq :
         \E i \in 1 .. Len(wire) : wire[i] = Event(hermes.gen, m)

FollowInv ==
  client.mode = "live" /\ Fed =>
    /\ Continues(ToRead, client.gen, client.seq)
    /\ Quiet(ToRead, Len(ToRead)) => InStep

ReplayInv == ReplayTypes /\ RouteInv /\ WireInv /\ StreamInv /\ JoinInv /\ FollowInv
-----------------------------------------------------------------------------
(* Frames, one after the other                                             *)

\* Induction, for a set: what holds 0 and, with a number, the next one, holds all.
LEMMA Counted ==
  ASSUME NEW T, 0 \in T, \A n \in Nat : n \in T => n + 1 \in T
  PROVE  Nat \subseteq T
<1> SUFFICES ASSUME NEW k \in Nat, k \notin T PROVE FALSE
  OBVIOUS
<1> DEFINE Upto(n) == 0 .. n
           S == {Upto(n) : n \in Nat \ T}
<1>1. S \subseteq FiniteSubsetsOf(Nat) /\ S # {}
  <2>1. \A n \in Nat : Upto(n) \in SUBSET Nat /\ IsFiniteSet(Upto(n))
    BY FS_Interval
  <2>2. \A n \in Nat : Upto(n) \in FiniteSubsetsOf(Nat)
    BY <2>1, Zenon DEF FiniteSubsetsOf
  <2> QED
    BY <2>2
<1>2. IsWellFoundedOn(StrictSubsetOrdering(Nat), FiniteSubsetsOf(Nat))
  BY FS_StrictSubsetOrderingWellFounded
<1>3. \E x \in S : \A y \in S : <<y, x>> \notin StrictSubsetOrdering(Nat)
  <2> HIDE DEF S
  <2> QED
    BY <1>1, <1>2, WFMin
<1>4. PICK n \in Nat \ T : \A y \in S : <<y, Upto(n)>> \notin StrictSubsetOrdering(Nat)
  BY <1>3
<1>5. n - 1 \in Nat \ T /\ n - 1 < n
  BY <1>4
<1>6. Upto(n - 1) \subseteq Upto(n) /\ Upto(n - 1) # Upto(n) /\ Upto(n) \subseteq Nat
  BY <1>4, <1>5
<1>7. <<Upto(n - 1), Upto(n)>> \in StrictSubsetOrdering(Nat)
  BY <1>6, Zenon DEF StrictSubsetOrdering
<1> QED
  BY <1>4, <1>5, <1>7

\* The states of the loop over the frames es.
Loop(st, es, a, n) == a = [i \in 0 .. n |-> IF i = 0 THEN st ELSE Take(a[i - 1], es[i])]

LEMMA LoopRuns ==
  ASSUME NEW st, NEW es
  PROVE  \A n \in Nat : \E a : Loop(st, es, a, n)
<1> DEFINE T == {n \in Nat : \E a : Loop(st, es, a, n)}
<1>1. 0 \in T
  <2> DEFINE a == [i \in 0 .. 0 |-> st]
  <2>1. Loop(st, es, a, 0)
    BY DEF Loop
  <2> QED
    BY <2>1
<1>2. ASSUME NEW n \in Nat, n \in T
      PROVE  n + 1 \in T
  <2>1. PICK a : Loop(st, es, a, n)
    BY <1>2
  <2> DEFINE b == [i \in 0 .. n + 1 |-> IF i = n + 1 THEN Take(a[n], es[n + 1]) ELSE a[i]]
  <2>2. \A i \in 0 .. n + 1 : b[i] = IF i = 0 THEN st ELSE Take(b[i - 1], es[i])
    <3> SUFFICES ASSUME NEW i \in 0 .. n + 1
                 PROVE  b[i] = IF i = 0 THEN st ELSE Take(b[i - 1], es[i])
      OBVIOUS
    <3>1. CASE i = n + 1
      <4>1. b[i] = Take(a[n], es[n + 1]) /\ b[n] = a[n] /\ i # 0 /\ i - 1 = n
        BY <3>1
      <4> QED
        BY <3>1, <4>1
    <3>2. CASE i \in 0 .. n
      <4>1. b[i] = a[i] /\ (i # 0 => b[i - 1] = a[i - 1])
        BY <3>2
      <4>2. a[i] = IF i = 0 THEN st ELSE Take(a[i - 1], es[i])
        BY <2>1, <3>2 DEF Loop
      <4> QED
        BY <4>1, <4>2
    <3> QED
      BY <3>1, <3>2
  <2>3. Loop(st, es, b, n + 1)
    <3> DEFINE c == [i \in 0 .. n + 1 |-> IF i = 0 THEN st ELSE Take(b[i - 1], es[i])]
    <3>1. b = c
      BY <2>2
    <3> HIDE DEF b
    <3> QED
      BY <3>1 DEF Loop
  <2> QED
    BY <2>3
<1> HIDE DEF T
<1>3. Nat \subseteq T
  BY <1>1, <1>2, Counted
<1> QED
  BY <1>3 DEF T

\* They lead from st to the result.
Course(st, es, a) ==
  /\ a[0] = st /\ TakeAll(st, es) = a[Len(es)]
  /\ \A i \in 1 .. Len(es) : a[i] = Take(a[i - 1], es[i])

LEMMA Looped ==
  ASSUME NEW st, NEW es, Len(es) \in Nat
  PROVE  \E a : Course(st, es, a)
<1> DEFINE after == CHOOSE a : Loop(st, es, a, Len(es))
<1>1. Loop(st, es, after, Len(es))
  BY LoopRuns
<1>2. TakeAll(st, es) = after[Len(es)]
  BY DEF TakeAll, Loop
<1>3. \A i \in 0 .. Len(es) : after[i] = IF i = 0 THEN st ELSE Take(after[i - 1], es[i])
  <2> HIDE DEF after
  <2> QED
    BY <1>1 DEF Loop
<1> HIDE DEF after
<1>4. Course(st, es, after)
  BY <1>2, <1>3 DEF Course
<1> QED
  BY <1>4

Loops == [gen : 0 .. MaxRuntimes, seq : 0 .. MaxEvents, early : Seq(Numbered),
          out : Seq(Entries), joined : BOOLEAN]

\* Entries t tell of frames up to the k-th, from the number in st on up to n.
Emits(st, es, k, n, t) ==
  /\ ~st.joined => \A i \in 1 .. Len(t) : t[i] = Reset
  /\ \A i \in 1 .. Len(t) : Quiet(t, i) =>
       /\ \E j \in 1 .. k : t[i] = es[j] /\ es[j].gen = st.gen
       /\ IF i = 1 THEN st.seq = 0 \/ t[i].seq = st.seq + 1 ELSE t[i].seq = t[i - 1].seq + 1
  /\ st.joined /\ Quiet(t, Len(t)) => n = IF t = <<>> THEN st.seq ELSE t[Len(t)].seq

\* A first frame that is new to a client of the route is the first entry, or a reset is.
Starts(st, es, t) ==
  st.joined /\ es[1].gen = st.gen /\ es[1].seq > st.seq
    => t # <<>> /\ t[1] \in {Reset, es[1]}

\* What r, reached from st by k frames, has of st and of them.
Reached(st, es, k, r) ==
  /\ r \in Loops /\ r.gen = st.gen /\ r.joined = st.joined
  /\ Len(r.early) <= EarlyLimit
  /\ \A i \in 1 .. Len(r.early) :
       \/ \E j \in 1 .. Len(st.early) : r.early[i] = st.early[j]
       \/ \E j \in 1 .. k : r.early[i] = es[j] /\ es[j].gen # st.gen
  /\ r.seq >= st.seq /\ \A j \in 1 .. k : es[j].gen = st.gen => es[j].seq <= r.seq
  /\ r.seq = st.seq \/ \E j \in 1 .. k : es[j].gen = st.gen /\ r.seq = es[j].seq
  /\ \E t \in Seq(Entries) : /\ r.out = st.out \o t /\ Emits(st, es, k, r.seq, t)
                             /\ IF k = 0 THEN t = <<>> ELSE Starts(st, es, t)

LEMMA EntryFacts ==
  /\ Reset \in Entries
  /\ \A x \in Entries : x # Reset => x \in Numbered
  /\ \A e \in Numbered :
       /\ e \in Entries /\ e # Reset /\ e.kind = "event" /\ e.kind # "reset"
       /\ e.gen \in 1 .. MaxRuntimes /\ e.seq \in 1 .. MaxEvents
       /\ e.gen \in Nat /\ e.seq \in Nat /\ e.gen > 0 /\ e.seq > 0
<1>1. Reset.kind = "reset"
  BY DEF Reset, Frame
<1>2. MaxRuntimes \in Nat /\ MaxEvents \in Nat
  BY ReplayAssumption
<1>3. \A e \in Numbered :
        /\ e.kind = "event" /\ e.gen \in 1 .. MaxRuntimes /\ e.seq \in 1 .. MaxEvents
  BY DEF Numbered
<1> QED
  BY <1>1, <1>2, <1>3 DEF Entries

LEMMA QuietAppend ==
  ASSUME NEW t \in Seq(Entries), NEW x \in Entries
  PROVE  /\ Append(t, x) \in Seq(Entries) /\ Len(Append(t, x)) = Len(t) + 1
         /\ Append(t, x) # <<>> /\ Append(t, x)[Len(t) + 1] = x
         /\ \A i \in 1 .. Len(t) : Append(t, x)[i] = t[i] /\ Quiet(Append(t, x), i) = Quiet(t, i)
         /\ Quiet(Append(t, x), Len(t)) = Quiet(t, Len(t))
         /\ Quiet(Append(t, x), Len(t) + 1) <=> Quiet(t, Len(t)) /\ x # Reset
<1>1. /\ Append(t, x) \in Seq(Entries) /\ Len(Append(t, x)) = Len(t) + 1
      /\ Append(t, x) # <<>> /\ Append(t, x)[Len(t) + 1] = x /\ Len(t) \in Nat
      /\ \A i \in 1 .. Len(t) : Append(t, x)[i] = t[i]
  OBVIOUS
<1> DEFINE u == Append(t, x)
<1> HIDE DEF u
<1>2. \A i \in 0 .. Len(t) : Quiet(u, i) = Quiet(t, i)
  <2> SUFFICES ASSUME NEW i \in 0 .. Len(t) PROVE Quiet(u, i) = Quiet(t, i)
    OBVIOUS
  <2>1. \A j \in 1 .. i : u[j] = t[j]
    BY <1>1 DEF u
  <2> QED
    BY <2>1 DEF Quiet
<1>3. Quiet(u, Len(t) + 1) <=> Quiet(u, Len(t)) /\ x # Reset
  BY <1>1 DEF Quiet, u
<1> QED
  BY <1>1, <1>2, <1>3 DEF u

LEMMA ResetAlone ==
  ASSUME NEW st, NEW es, NEW k \in Nat, NEW n, NEW m, NEW t \in Seq(Entries),
         Emits(st, es, k, n, t)
  PROVE  Emits(st, es, k, m, Append(t, Reset))
<1>1. Reset \in Entries
  BY DEF Entries
<1> DEFINE u == Append(t, Reset)
<1>2. /\ u \in Seq(Entries) /\ Len(u) = Len(t) + 1 /\ u[Len(t) + 1] = Reset /\ Len(t) \in Nat
      /\ \A i \in 1 .. Len(t) : u[i] = t[i] /\ Quiet(u, i) = Quiet(t, i)
      /\ ~Quiet(u, Len(t) + 1)
  BY <1>1, QuietAppend
<1> HIDE DEF u
<1>3. Emits(st, es, k, m, u)
  BY <1>2 DEF Emits
<1> QED
  BY <1>3 DEF u

LEMMA NothingEmitted ==
  ASSUME NEW st, NEW es, NEW k \in Nat, NEW n, NEW t \in Seq(Entries),
         Emits(st, es, k, n, t)
  PROVE  Emits(st, es, k + 1, n, t)
BY DEF Emits

LEMMA ResetEmitted ==
  ASSUME NEW st, NEW es, NEW k \in Nat, NEW n, NEW m, NEW t \in Seq(Entries),
         Emits(st, es, k, n, t)
  PROVE  Emits(st, es, k + 1, m, Append(t, Reset))
<1>1. Emits(st, es, k, m, Append(t, Reset)) /\ Append(t, Reset) \in Seq(Entries)
  BY ResetAlone, QuietAppend DEF Entries
<1> QED
  BY <1>1, NothingEmitted

LEMMA EventEmitted ==
  ASSUME NEW st \in Loops, NEW es \in Seq(Numbered), NEW k \in Nat, k + 1 \in 1 .. Len(es),
         NEW n \in Nat, NEW t \in Seq(Entries), Emits(st, es, k, n, t), st.joined,
         es[k + 1].gen = st.gen, es[k + 1].seq > n,
         Quiet(t, Len(t)) => ~Gap(n, es[k + 1].seq)
  PROVE  Emits(st, es, k + 1, es[k + 1].seq, Append(t, es[k + 1]))
<1> DEFINE e == es[k + 1]
           u == Append(t, e)
<1>1. e \in Numbered /\ e \in Entries /\ e # Reset /\ e.seq \in Nat /\ e.seq > 0
  BY EntryFacts
<1>2. /\ u \in Seq(Entries) /\ Len(u) = Len(t) + 1 /\ u[Len(t) + 1] = e /\ Len(t) \in Nat
      /\ u # <<>>
      /\ \A i \in 1 .. Len(t) : u[i] = t[i] /\ Quiet(u, i) = Quiet(t, i)
      /\ Quiet(u, Len(t) + 1) <=> Quiet(t, Len(t))
  BY <1>1, QuietAppend
<1>3. Quiet(t, Len(t)) /\ t = <<>> => st.seq = 0 \/ e.seq = st.seq + 1
  BY <1>1 DEF Emits, Gap, Loops
<1>4. Quiet(t, Len(t)) /\ t # <<>> => e.seq = t[Len(t)].seq + 1
  <2> SUFFICES ASSUME Quiet(t, Len(t)), t # <<>> PROVE e.seq = t[Len(t)].seq + 1
    OBVIOUS
  <2>1. Len(t) \in 1 .. Len(t)
    OBVIOUS
  <2>2. n = t[Len(t)].seq
    BY DEF Emits
  <2>3. n > 0
    <3>1. \A j \in 1 .. k : es[j] \in Numbered
      OBVIOUS
    <3>2. \E j \in 1 .. k : t[Len(t)] = es[j]
      BY <2>1 DEF Emits
    <3> QED
      BY <2>2, <3>1, <3>2, EntryFacts
  <2> QED
    BY <1>1, <2>2, <2>3 DEF Gap
<1>5. ASSUME NEW i \in 1 .. Len(u), Quiet(u, i)
      PROVE  /\ \E j \in 1 .. k + 1 : u[i] = es[j] /\ es[j].gen = st.gen
             /\ IF i = 1 THEN st.seq = 0 \/ u[i].seq = st.seq + 1 ELSE u[i].seq = u[i - 1].seq + 1
  <2>1. CASE i \in 1 .. Len(t)
    <3>1. /\ u[i] = t[i] /\ Quiet(t, i) /\ (i # 1 => u[i - 1] = t[i - 1])
      BY <1>2, <1>5, <2>1
    <3>2. 1 .. k \subseteq 1 .. k + 1
      OBVIOUS
    <3>3. /\ \E j \in 1 .. k : t[i] = es[j] /\ es[j].gen = st.gen
          /\ IF i = 1 THEN st.seq = 0 \/ t[i].seq = st.seq + 1 ELSE t[i].seq = t[i - 1].seq + 1
      BY <2>1, <3>1 DEF Emits
    <3> QED
      BY <3>1, <3>2, <3>3
  <2>2. CASE i = Len(t) + 1
    <3>1. u[i] = e /\ (i # 1 => u[i - 1] = t[Len(t)] /\ t # <<>>) /\ Quiet(t, Len(t))
          /\ (i = 1 => t = <<>>)
      BY <1>2, <1>5, <2>2
    <3>2. k + 1 \in 1 .. k + 1 /\ u[i] = es[k + 1] /\ es[k + 1].gen = st.gen
      BY <3>1
    <3>3. i = 1 => st.seq = 0 \/ u[i].seq = st.seq + 1
      BY <1>3, <3>1
    <3>4. i # 1 => u[i].seq = u[i - 1].seq + 1
      BY <1>4, <3>1
    <3> QED
      BY <3>2, <3>3, <3>4
  <2> QED
    BY <1>2, <2>1, <2>2
<1> HIDE DEF u
<1>6. Emits(st, es, k + 1, e.seq, u)
  BY <1>2, <1>5 DEF Emits
<1> QED
  BY <1>6 DEF u

LEMMA AppendedEntry ==
  ASSUME NEW s \in Seq(Entries), NEW t \in Seq(Entries), NEW x \in Entries
  PROVE  s \o Append(t, x) = Append(s \o t, x)
<1>1. Append(t, x) = t \o <<x>> /\ Append(s \o t, x) = (s \o t) \o <<x>>
  BY ConcatProperties, AppendIsConcat
<1>2. <<x>> \in Seq(Entries)
  OBVIOUS
<1> QED
  BY <1>1, <1>2, ConcatAssociative

LEMMA StartsOn ==
  ASSUME NEW st, NEW es, NEW t \in Seq(Entries), NEW x \in Entries, Starts(st, es, t)
  PROVE  Starts(st, es, Append(t, x))
<1>1. Append(t, x) # <<>> /\ (t # <<>> => 1 \in 1 .. Len(t))
  BY EmptySeq, AppendProperties
<1>2. t # <<>> => Append(t, x)[1] = t[1]
  BY <1>1, QuietAppend
<1> QED
  BY <1>1, <1>2 DEF Starts

LEMMA StartsNow ==
  ASSUME NEW st, NEW es, NEW x \in Entries, x \in {Reset, es[1]}
  PROVE  Starts(st, es, Append(<<>>, x))
<1>1. Append(<<>>, x) # <<>> /\ Append(<<>>, x)[1] = x
  OBVIOUS
<1> QED
  BY <1>1 DEF Starts

\* One frame: what Take appends to what the client sees, case by case.
LEMMA FrameTaken ==
  ASSUME NEW st \in Loops, NEW es \in Seq(Numbered), NEW k \in Nat, k + 1 \in 1 .. Len(es),
         NEW r, Reached(st, es, k, r)
  PROVE  Reached(st, es, k + 1, Take(r, es[k + 1]))
<1> DEFINE e == es[k + 1]
           next == Take(r, e)
           Keeps(out) == \E u \in Seq(Entries) :
                           /\ out = st.out \o u
                           /\ Emits(st, es, k + 1, next.seq, u)
                           /\ Starts(st, es, u)
           Held(early1) == \A i \in 1 .. Len(early1) :
                             \/ \E j \in 1 .. Len(st.early) : early1[i] = st.early[j]
                             \/ \E j \in 1 .. k + 1 : early1[i] = es[j] /\ es[j].gen # st.gen
<1>1. e \in Numbered /\ e \in Entries /\ e # Reset /\ e.seq \in 1 .. MaxEvents /\ Reset \in Entries
  BY EntryFacts
<1>2. MaxEvents \in Nat /\ MaxRuntimes \in Nat /\ EarlyLimit \in Nat
  BY ReplayAssumption
<1>3. /\ r \in Loops /\ r.gen = st.gen /\ r.joined = st.joined /\ r.seq \in Nat /\ st.seq \in Nat
      /\ r.early \in Seq(Numbered) /\ r.out \in Seq(Entries) /\ r.seq >= st.seq
      /\ st.out \in Seq(Entries) /\ r.joined \in BOOLEAN /\ Len(r.early) \in Nat
  BY <1>2 DEF Reached, Loops
<1>4. PICK t \in Seq(Entries) : /\ r.out = st.out \o t /\ Emits(st, es, k, r.seq, t)
                                /\ IF k = 0 THEN t = <<>> ELSE Starts(st, es, t)
  BY DEF Reached
<1>5. 1 .. k \subseteq 1 .. k + 1 /\ k + 1 \in 1 .. k + 1 /\ k + 1 > 0
      /\ \A j \in 1 .. k + 1 : j \in 1 .. k \/ j = k + 1
  OBVIOUS
<1>6. Held(r.early)
  BY <1>5 DEF Reached
<1>7. Starts(st, es, t) \/ (k = 0 /\ t = <<>>)
  BY <1>4
<1>8. \/ e.gen # st.gen /\ Len(r.early) >= EarlyLimit
      \/ e.gen # st.gen /\ Len(r.early) < EarlyLimit
      \/ e.gen = st.gen /\ e.seq <= r.seq
      \/ e.gen = st.gen /\ e.seq > r.seq
  <2>1. Len(r.early) >= EarlyLimit \/ Len(r.early) < EarlyLimit
    <3>1. Len(r.early) \in Nat /\ EarlyLimit \in Nat
      BY <1>2, <1>3
    <3> QED
      BY <3>1
  <2>2. e.seq <= r.seq \/ e.seq > r.seq
    <3>1. e.seq \in Nat /\ r.seq \in Nat
      BY <1>1, <1>2, <1>3
    <3> QED
      BY <3>1
  <2> QED
    BY <2>1, <2>2, Zenon
<1>9. /\ next \in Loops /\ next.gen = st.gen /\ next.joined = st.joined
      /\ Len(next.early) <= EarlyLimit /\ Held(next.early)
      /\ next.seq = IF e.gen = st.gen /\ e.seq > r.seq THEN e.seq ELSE r.seq
      /\ Keeps(next.out)
  <2>1. CASE e.gen # st.gen /\ Len(r.early) >= EarlyLimit
    <3>1. next = [r EXCEPT !.early = <<>>, !.out = Append(@, Reset)]
      BY <1>2, <1>3, <2>1 DEF Take
    <3>2. Append(r.out, Reset) \in Seq(Entries) /\ <<>> \in Seq(Numbered)
      BY <1>1, <1>3
    <3>3. Emits(st, es, k + 1, r.seq, Append(t, Reset))
      BY <1>4, ResetEmitted
    <3>4. Starts(st, es, Append(t, Reset))
      <4>1. CASE Starts(st, es, t)
        BY <1>1, <4>1, StartsOn
      <4>2. CASE t = <<>>
        BY <1>1, <4>2, StartsNow
      <4> QED
        BY <1>7, <4>1, <4>2
    <3>5. Append(r.out, Reset) = st.out \o Append(t, Reset) /\ Append(t, Reset) \in Seq(Entries)
      <4>1. st.out \o Append(t, Reset) = Append(st.out \o t, Reset)
        BY <1>1, <1>3, AppendedEntry
      <4> QED
        BY <1>1, <1>4, <4>1, QuietAppend
    <3> HIDE DEF next, e, Keeps
    <3>6. /\ next \in Loops /\ next.early = <<>> /\ next.gen = r.gen /\ next.joined = r.joined
          /\ next.seq = r.seq /\ next.out = Append(r.out, Reset)
      BY <1>3, <3>1, <3>2 DEF Loops
    <3>7. Keeps(next.out)
      BY <3>3, <3>4, <3>5, <3>6 DEF Keeps
    <3> QED
      BY <1>2, <1>3, <2>1, <3>6, <3>7
  <2>2. CASE e.gen # st.gen /\ Len(r.early) < EarlyLimit
    <3>1. next = [r EXCEPT !.early = Append(@, e)]
      BY <1>2, <1>3, <2>2 DEF Take
    <3>2. Append(r.early, e) \in Seq(Numbered) /\ Len(Append(r.early, e)) = Len(r.early) + 1
          /\ Append(r.early, e)[Len(r.early) + 1] = e
          /\ \A i \in 1 .. Len(r.early) : Append(r.early, e)[i] = r.early[i]
      BY <1>1, <1>3
    <3>3. Emits(st, es, k + 1, r.seq, t)
      BY <1>4, NothingEmitted
    <3>4. Starts(st, es, t)
      BY <1>7, <2>2 DEF Starts
    <3> HIDE DEF next, Keeps
    <3>5. /\ next \in Loops /\ next.early = Append(r.early, e) /\ next.gen = r.gen
          /\ next.joined = r.joined /\ next.seq = r.seq /\ next.out = r.out
      BY <1>3, <3>1, <3>2 DEF Loops
    <3>6. Keeps(next.out)
      BY <1>4, <3>3, <3>4, <3>5 DEF Keeps
    <3>7. Held(next.early)
      <4> SUFFICES ASSUME NEW i \in 1 .. Len(next.early)
                   PROVE  \/ \E j \in 1 .. Len(st.early) : next.early[i] = st.early[j]
                          \/ \E j \in 1 .. k + 1 : next.early[i] = es[j] /\ es[j].gen # st.gen
        OBVIOUS
      <4>1. CASE i \in 1 .. Len(r.early)
        BY <1>6, <3>2, <3>5, <4>1
      <4>2. CASE i = Len(r.early) + 1
        BY <1>5, <2>2, <3>2, <3>5, <4>2
      <4>3. i \in 1 .. Len(r.early) \/ i = Len(r.early) + 1
        <5>1. Len(r.early) \in Nat
          BY <1>3
        <5> QED
          BY <3>2, <3>5, <5>1
      <4> QED
        BY <4>1, <4>2, <4>3
    <3> HIDE DEF e, Held
    <3> QED
      BY <1>2, <1>3, <2>2, <3>2, <3>5, <3>6, <3>7
  <2>3. CASE e.gen = st.gen /\ e.seq <= r.seq
    <3>1. next = r
      BY <1>3, <2>3 DEF Take
    <3>2. Emits(st, es, k + 1, r.seq, t)
      BY <1>4, NothingEmitted
    <3>3. Starts(st, es, t)
      <4>1. CASE k = 0
        <5>1. r.seq = st.seq /\ es[1] = e
          BY <4>1 DEF Reached
        <5> QED
          BY <1>1, <1>3, <2>3, <5>1 DEF Starts
      <4> QED
        BY <1>7, <4>1
    <3> HIDE DEF next, Keeps, Held, e
    <3>4. Keeps(next.out)
      BY <1>4, <3>1, <3>2, <3>3 DEF Keeps
    <3> QED
      BY <1>1, <1>3, <1>6, <2>3, <3>1, <3>4 DEF Reached
  <2>4. CASE e.gen = st.gen /\ e.seq > r.seq
    <3> DEFINE gaps == IF Gap(r.seq, e.seq) THEN <<Reset>> ELSE <<>>
               shown == IF r.joined THEN <<e>> ELSE <<>>
               new == r.out \o gaps \o shown
    <3>1. next = [r EXCEPT !.seq = e.seq, !.out = new]
      BY <1>1, <1>3, <2>4 DEF Take
    <3>2. new \in Seq(Entries)
      <4>1. gaps \in Seq(Entries) /\ shown \in Seq(Entries)
        BY <1>1
      <4> HIDE DEF gaps, shown
      <4> QED
        BY <1>3, <4>1
    <3>3. e.seq \in 0 .. MaxEvents
      BY <1>1, <1>2
    <3>4. \E u \in Seq(Entries) : /\ new = st.out \o u
                                  /\ Emits(st, es, k + 1, e.seq, u)
                                  /\ Starts(st, es, u)
      <4>1. CASE Gap(r.seq, e.seq)
        <5> DEFINE v == Append(t, Reset)
        <5>1. v \in Seq(Entries) /\ ~Quiet(v, Len(v))
          BY <1>1, QuietAppend
        <5>2. st.out \o v = r.out \o gaps
          <6>1. st.out \o v = Append(st.out \o t, Reset)
            BY <1>1, <1>3, AppendedEntry
          <6>2. Append(r.out, Reset) = r.out \o <<Reset>>
            BY <1>1, <1>3, AppendIsConcat
          <6> QED
            BY <1>4, <4>1, <6>1, <6>2
        <5>3. Starts(st, es, v)
          <6>1. CASE Starts(st, es, t)
            BY <1>1, <6>1, StartsOn
          <6>2. CASE t = <<>>
            BY <1>1, <6>2, StartsNow
          <6> QED
            BY <1>7, <6>1, <6>2
        <5>4. Emits(st, es, k, r.seq, v)
          BY <1>4, ResetAlone
        <5>5. CASE r.joined
          <6>1. Emits(st, es, k + 1, e.seq, Append(v, e))
            <7> HIDE DEF v
            <7> QED
              BY <1>3, <2>4, <5>1, <5>4, <5>5, EventEmitted
          <6>2. Starts(st, es, Append(v, e)) /\ Append(v, e) \in Seq(Entries)
            <7> HIDE DEF v, e
            <7> QED
              BY <1>1, <5>1, <5>3, StartsOn, QuietAppend
          <6>3. st.out \o Append(v, e) = Append(st.out \o v, e)
            BY <1>1, <1>3, <5>1, AppendedEntry
          <6>4. Append(r.out \o gaps, e) = (r.out \o gaps) \o <<e>>
            <7>1. r.out \o gaps \in Seq(Entries)
              BY <1>1, <1>3
            <7> QED
              BY <1>1, <7>1, AppendIsConcat
          <6> QED
            BY <5>2, <5>5, <6>1, <6>2, <6>3, <6>4
        <5>6. CASE ~r.joined
          <6>1. new = r.out \o gaps
            <7>1. r.out \o gaps \in Seq(Entries)
              BY <1>1, <1>3
            <7> QED
              BY <5>6, <7>1, ConcatEmptySeq
          <6>2. Emits(st, es, k + 1, e.seq, v)
            BY <1>4, ResetEmitted
          <6> QED
            BY <5>1, <5>2, <5>3, <6>1, <6>2
        <5> QED
          BY <1>3, <5>5, <5>6
      <4>2. CASE ~Gap(r.seq, e.seq)
        <5>1. r.out \o gaps = r.out
          BY <1>3, <4>2, ConcatEmptySeq
        <5>2. CASE r.joined
          <6>1. Emits(st, es, k + 1, e.seq, Append(t, e))
            BY <1>3, <1>4, <2>4, <4>2, <5>2, EventEmitted
          <6>2. Starts(st, es, Append(t, e)) /\ Append(t, e) \in Seq(Entries)
            <7>1. CASE Starts(st, es, t)
              BY <1>1, <7>1, StartsOn
            <7>2. CASE k = 0 /\ t = <<>>
              BY <1>1, <7>2, StartsNow
            <7> QED
              BY <1>1, <1>7, <7>1, <7>2
          <6>3. st.out \o Append(t, e) = Append(st.out \o t, e)
            BY <1>1, <1>3, AppendedEntry
          <6>4. Append(r.out, e) = r.out \o <<e>>
            BY <1>1, <1>3, AppendIsConcat
          <6> QED
            BY <1>4, <5>1, <5>2, <6>1, <6>2, <6>3, <6>4
        <5>3. CASE ~r.joined
          <6>1. new = r.out
            BY <1>3, <5>1, <5>3, ConcatEmptySeq
          <6>2. Emits(st, es, k + 1, e.seq, t)
            BY <1>3, <1>4, <5>3 DEF Emits
          <6>3. Starts(st, es, t)
            BY <1>3, <5>3 DEF Starts
          <6> QED
            BY <1>4, <6>1, <6>2, <6>3
        <5> QED
          BY <1>3, <5>2, <5>3
      <4> QED
        BY <4>1, <4>2
    <3> HIDE DEF next, Keeps, Held, e, new
    <3>5. /\ next \in Loops /\ next.early = r.early /\ next.gen = r.gen /\ next.joined = r.joined
          /\ next.seq = e.seq /\ next.out = new
      BY <1>3, <3>1, <3>2, <3>3 DEF Loops
    <3>6. Keeps(next.out)
      BY <3>4, <3>5 DEF Keeps
    <3> QED
      BY <1>1, <1>3, <1>6, <2>4, <3>5, <3>6 DEF Reached
  <2> QED
    BY <1>8, <2>1, <2>2, <2>3, <2>4
<1> HIDE DEF next, e, Keeps, Held
<1>10. next.seq >= st.seq /\ next.seq >= r.seq /\ next.seq \in Nat
       /\ (e.gen = st.gen => e.seq <= next.seq)
  <2>1. e.seq \in Nat
    BY <1>1, <1>2
  <2> QED
    BY <1>3, <1>9, <2>1
<1>11. \A j \in 1 .. k + 1 : es[j].gen = st.gen => es[j].seq <= next.seq
  <2>1. \A j \in 1 .. k : es[j].gen = st.gen => es[j].seq <= next.seq
    <3> SUFFICES ASSUME NEW j \in 1 .. k, es[j].gen = st.gen PROVE es[j].seq <= next.seq
      OBVIOUS
    <3>1. es[j].seq \in Nat
      <4>1. j \in 1 .. Len(es)
        OBVIOUS
      <4> QED
        BY <4>1, EntryFacts
    <3>2. es[j].seq <= r.seq
      BY DEF Reached
    <3>3. r.seq \in Nat /\ next.seq \in Nat /\ r.seq <= next.seq
      BY <1>3, <1>10
    <3> QED
      BY <3>1, <3>2, <3>3
  <2> QED
    BY <1>5, <1>10, <2>1 DEF e
<1>12. next.seq = st.seq \/ \E j \in 1 .. k + 1 : es[j].gen = st.gen /\ next.seq = es[j].seq
  BY <1>5, <1>9 DEF Reached, e
<1>13. \E u \in Seq(Entries) : /\ next.out = st.out \o u
                               /\ Emits(st, es, k + 1, next.seq, u)
                               /\ IF k + 1 = 0 THEN u = <<>> ELSE Starts(st, es, u)
  <2>1. PICK u \in Seq(Entries) : /\ next.out = st.out \o u
                                 /\ Emits(st, es, k + 1, next.seq, u) /\ Starts(st, es, u)
    BY <1>9 DEF Keeps
  <2>2. k + 1 # 0
    OBVIOUS
  <2> QED
    BY <2>1, <2>2
<1>14. Reached(st, es, k + 1, next)
  BY <1>9, <1>10, <1>11, <1>12, <1>13 DEF Reached, Held
<1> QED
  BY <1>14 DEF next, e

LEMMA AllTaken ==
  ASSUME NEW st \in Loops, Len(st.early) <= EarlyLimit, NEW es \in Seq(Numbered)
  PROVE  Reached(st, es, Len(es), TakeAll(st, es))
<1>1. Len(es) \in Nat
  OBVIOUS
<1> PICK a : Course(st, es, a)
  BY <1>1, Looped
<1>2. /\ a[0] = st /\ TakeAll(st, es) = a[Len(es)]
      /\ \A i \in 1 .. Len(es) : a[i] = Take(a[i - 1], es[i])
  BY DEF Course
<1> DEFINE T == {k \in Nat : k <= Len(es) => Reached(st, es, k, a[k])}
<1>3. 0 \in T
  <2>1. /\ <<>> \in Seq(Entries) /\ st.out \in Seq(Entries) /\ st.out = st.out \o <<>>
        /\ st.seq \in Nat /\ Len(<<>>) = 0
    <3>1. st.out \in Seq(Entries) /\ st.seq \in Nat
      BY ReplayAssumption DEF Loops
    <3> QED
      BY <3>1, ConcatEmptySeq
  <2>2. Emits(st, es, 0, st.seq, <<>>)
    BY <2>1 DEF Emits
  <2>3. \E t \in Seq(Entries) : /\ st.out = st.out \o t /\ Emits(st, es, 0, st.seq, t)
                               /\ IF 0 = 0 THEN t = <<>> ELSE Starts(st, es, t)
    <3> WITNESS <<>> \in Seq(Entries)
    <3> QED
      BY <2>1, <2>2
  <2>4. \A i \in 1 .. Len(st.early) : \E j \in 1 .. Len(st.early) : st.early[i] = st.early[j]
    OBVIOUS
  <2>5. /\ st.seq >= st.seq /\ (\A j \in 1 .. 0 : es[j].gen = st.gen => es[j].seq <= st.seq)
        /\ st.seq = st.seq \/ \E j \in 1 .. 0 : es[j].gen = st.gen /\ st.seq = es[j].seq
    BY <2>1
  <2>6. Reached(st, es, 0, st)
    BY <2>3, <2>4, <2>5, Zenon DEF Reached
  <2> QED
    BY <1>2, <2>6
<1>4. ASSUME NEW k \in Nat, k \in T
      PROVE  k + 1 \in T
  <2>1. CASE k + 1 <= Len(es)
    <3>1. k + 1 \in 1 .. Len(es) /\ Reached(st, es, k, a[k]) /\ (k + 1) - 1 = k
      BY <1>1, <1>4, <2>1
    <3>2. a[k + 1] = Take(a[k], es[k + 1])
      BY <1>2, <3>1
    <3> QED
      BY <3>1, <3>2, FrameTaken
  <2> QED
    BY <1>1, <2>1
<1> HIDE DEF T
<1>5. Nat \subseteq T
  BY <1>3, <1>4, Counted
<1> QED
  BY <1>1, <1>2, <1>5 DEF T

-----------------------------------------------------------------------------
(* What becomes of the channel and of what the client reads                *)

Channels == [open : BOOLEAN, joined : BOOLEAN, dropped : Nat, entries : Seq(Entries)]

\* Entries out are written to the channel and to the stream.
Passes(joined, out) ==
  /\ chan' = Keep([chan EXCEPT !.joined = joined, !.entries = @ \o out])
  /\ flight' = IF Streaming THEN flight \o out ELSE flight

Begun(g, n, pre, held, joined) ==
  [gen |-> g, seq |-> n, early |-> held, out |-> pre, joined |-> joined]

\* Frames es were taken from state st of the route on, and entries t written.
Took(st, es, r, t) ==
  /\ st \in Loops /\ es \in Seq(Numbered) /\ t \in Seq(Entries)
  /\ Reached(st, es, Len(es), r) /\ Emits(st, es, Len(es), r.seq, t)
  /\ es # <<>> => Starts(st, es, t)

\* What a delivery does to the route, to the early frames and to the channel.
Delivery(g, n, pre, held, es, joined) ==
  \E r, t : /\ Took(Begun(g, n, pre, held, joined), es, r, t)
            /\ route' = [gen |-> g, seq |-> r.seq] /\ early' = r.early
            /\ Passes(joined, IF chan.open THEN pre \o t ELSE <<>>)

LEMMA Delivered ==
  ASSUME ReplayTypes, NEW g \in 0 .. MaxRuntimes, NEW n \in 0 .. MaxEvents,
         NEW pre \in {<<>>, <<Reset>>}, NEW held \in Seq(Numbered), Len(held) <= EarlyLimit,
         NEW es \in Seq(Numbered), NEW joined \in BOOLEAN,
         NEW c, c = [chan EXCEPT !.joined = joined], Deliver(g, n, pre, held, es, c)
  PROVE  Delivery(g, n, pre, held, es, joined)
<1> DEFINE st == Begun(g, n, pre, held, joined)
           r == TakeAll(st, es)
<1>1. chan \in Channels
  BY DEF ReplayTypes, Channels
<1>2. c \in Channels /\ c.joined = joined /\ c.open = chan.open /\ c.entries = chan.entries
  BY <1>1 DEF Channels
<1>3. st \in Loops
  <2>1. <<>> \in Seq(Entries) /\ <<Reset>> \in Seq(Entries)
    BY EntryFacts
  <2> QED
    BY <2>1 DEF Loops, Begun
<1>4. Reached(st, es, Len(es), r)
  <2>1. Len(st.early) <= EarlyLimit
    BY DEF Begun
  <2> HIDE DEF st
  <2> QED
    BY <1>3, <2>1, AllTaken
<1>5. PICK t \in Seq(Entries) : /\ r.out = pre \o t /\ Emits(st, es, Len(es), r.seq, t)
                                /\ IF Len(es) = 0 THEN t = <<>> ELSE Starts(st, es, t)
  <2>1. st.out = pre
    BY DEF Begun
  <2> HIDE DEF st
  <2> QED
    BY <1>4, <2>1 DEF Reached
<1>6. st = [gen |-> g, seq |-> n, early |-> held, out |-> pre, joined |-> c.joined]
  BY <1>2 DEF Begun
<1> HIDE DEF st
<1>7. /\ route' = [gen |-> g, seq |-> r.seq] /\ early' = r.early
      /\ chan' = Keep([c EXCEPT !.entries = @ \o (IF c.open THEN r.out ELSE <<>>)])
      /\ flight' = IF Streaming THEN flight \o (IF c.open THEN r.out ELSE <<>>) ELSE flight
  BY <1>6 DEF Deliver
<1> HIDE DEF r
<1> DEFINE out == IF chan.open THEN pre \o t ELSE <<>>
<1>8. [c EXCEPT !.entries = @ \o out] = [chan EXCEPT !.joined = joined, !.entries = @ \o out]
  BY <1>1, <1>2 DEF Channels
<1>9. Passes(joined, out)
  BY <1>2, <1>5, <1>7, <1>8 DEF Passes
<1>10. es # <<>> => Starts(st, es, t)
  BY <1>5, EmptySeq
<1>11. Took(st, es, r, t)
  BY <1>3, <1>4, <1>5, <1>10 DEF Took
<1> QED
  BY <1>7, <1>9, <1>11 DEF st, Delivery

\* Entries are kept up to the limit, the others are counted.
LEMMA EntriesKept ==
  ASSUME NEW c \in Channels
  PROVE  \E d \in 0 .. Len(c.entries) :
           /\ Keep(c) \in Channels /\ Len(Keep(c).entries) <= KeepEntries
           /\ Keep(c).open = c.open /\ Keep(c).joined = c.joined
           /\ Keep(c).dropped = c.dropped + d
           /\ Len(Keep(c).entries) = Len(c.entries) - d
           /\ \A i \in 1 .. Len(c.entries) - d : Keep(c).entries[i] = c.entries[i + d]
<1>1. KeepEntries \in Nat
  BY ReplayAssumption
<1>2. c.entries \in Seq(Entries) /\ Len(c.entries) \in Nat /\ c.dropped \in Nat
  BY DEF Channels
<1> DEFINE d == Len(c.entries) - KeepEntries
<1>3. CASE d > 0
  <2> DEFINE kept == SubSeq(c.entries, d + 1, Len(c.entries))
  <2>1. d \in 0 .. Len(c.entries) /\ d + 1 \in 1 .. Len(c.entries) + 1 /\ d \in Nat
    BY <1>1, <1>2, <1>3
  <2>2. /\ kept \in Seq(Entries) /\ Len(kept) = Len(c.entries) - d
        /\ \A i \in 1 .. Len(c.entries) - d : kept[i] = c.entries[i + d]
    <3>1. /\ kept \in Seq(Entries)
          /\ Len(kept) = IF d + 1 <= Len(c.entries) THEN Len(c.entries) - (d + 1) + 1 ELSE 0
          /\ \A i \in 1 .. Len(c.entries) - (d + 1) + 1 : kept[i] = c.entries[(d + 1) + i - 1]
      <4>1. d + 1 \in Int /\ Len(c.entries) \in Int
        BY <1>2, <2>1
      <4>2. \A i \in d + 1 .. Len(c.entries) : c.entries[i] \in Entries
        BY <1>2, <2>1
      <4> HIDE DEF d
      <4> QED
        BY <4>1, <4>2, SubSeqProperties
    <3>2. Len(c.entries) - (d + 1) + 1 = Len(c.entries) - d
      BY <1>1, <1>2
    <3>3. \A i \in Nat : (d + 1) + i - 1 = i + d
      BY <1>1, <1>2
    <3>4. Len(kept) = Len(c.entries) - d
      BY <1>1, <1>2, <2>1, <3>1
    <3> HIDE DEF d, kept
    <3>5. ASSUME NEW i \in 1 .. Len(c.entries) - d
          PROVE  kept[i] = c.entries[i + d]
      <4>1. i \in 1 .. Len(c.entries) - (d + 1) + 1 /\ i \in Nat
        BY <3>2, <3>5
      <4>2. kept[i] = c.entries[(d + 1) + i - 1]
        BY <3>1, <4>1
      <4> QED
        BY <3>3, <4>1, <4>2
    <3> QED
      BY <3>1, <3>4, <3>5
  <2>3. Keep(c) = [c EXCEPT !.entries = kept, !.dropped = @ + d]
    BY <1>3 DEF Keep
  <2>4. KeepEntries = Len(c.entries) - d
    BY <1>1, <1>2
  <2> HIDE DEF d, kept
  <2>5. c.dropped + d \in Nat /\ kept \in Seq(Entries)
    BY <1>2, <2>1, <2>2
  <2>6. /\ Keep(c) \in Channels /\ Keep(c).entries = kept /\ Keep(c).open = c.open
        /\ Keep(c).joined = c.joined /\ Keep(c).dropped = c.dropped + d
    BY <2>3, <2>5 DEF Channels
  <2>7. Len(kept) <= KeepEntries
    BY <1>1, <2>2, <2>4
  <2> QED
    BY <2>1, <2>2, <2>6, <2>7
<1>4. CASE ~(d > 0)
  <2>1. Keep(c) = c
    BY <1>4 DEF Keep
  <2> QED
    BY <1>1, <1>2, <1>4, <2>1
<1> QED
  BY <1>3, <1>4

LEMMA UnreadFacts ==
  ASSUME ReplayTypes, StreamInv, Fed, client.mode # "told"
  PROVE  /\ ToRead \in Seq(Entries) /\ LastId \in Nat /\ client.cursor \in Nat
         /\ Len(ToRead) = LastId - client.cursor
         /\ \A i \in 1 .. Len(ToRead) : client.cursor + i > chan.dropped
              => ToRead[i] = chan.entries[client.cursor - chan.dropped + i]
<1>1. /\ chan.entries \in Seq(Entries) /\ chan.dropped \in Nat /\ flight \in Seq(Entries)
      /\ client.cursor \in Nat /\ Len(chan.entries) \in Nat /\ LastId \in Nat
      /\ Len(flight) \in Nat
  <2>1. /\ chan.entries \in Seq(Entries) /\ chan.dropped \in Nat /\ flight \in Seq(Entries)
        /\ client.cursor \in Nat
    BY DEF ReplayTypes
  <2>2. Len(chan.entries) \in Nat /\ Len(flight) \in Nat
    BY <2>1
  <2> QED
    BY <2>1, <2>2 DEF LastId
<1>2. CASE Streaming
  <2>1. ToRead = flight /\ Len(flight) = LastId - client.cursor
    BY <1>1, <1>2 DEF ToRead, StreamInv
  <2>2. \A i \in Nat : client.cursor + i - chan.dropped = client.cursor - chan.dropped + i
    BY <1>1
  <2>3. \A i \in 1 .. Len(ToRead) : client.cursor + i > chan.dropped
          => ToRead[i] = chan.entries[client.cursor - chan.dropped + i]
    BY <1>2, <2>1, <2>2 DEF StreamInv
  <2> QED
    BY <1>1, <2>1, <2>3
<1>3. CASE ~Streaming
  <2> DEFINE m == client.cursor - chan.dropped
  <2>1. m \in Nat /\ m <= Len(chan.entries) /\ LastId = chan.dropped + Len(chan.entries)
    BY <1>1, <1>3 DEF Fed, Covered, StreamInv, LastId
  <2>2. ToRead = SubSeq(chan.entries, m + 1, Len(chan.entries))
    BY <1>3 DEF ToRead
  <2> HIDE DEF m
  <2>3. m + 1 \in 1 .. Len(chan.entries) + 1
    BY <1>1, <2>1
  <2>4. /\ ToRead \in Seq(Entries)
        /\ Len(ToRead) = IF m + 1 <= Len(chan.entries) THEN Len(chan.entries) - (m + 1) + 1 ELSE 0
        /\ \A i \in 1 .. Len(chan.entries) - (m + 1) + 1 :
             ToRead[i] = chan.entries[(m + 1) + i - 1]
    BY <1>1, <2>2, <2>3, SubSeqProperties
  <2>5. Len(ToRead) = Len(chan.entries) - m
    BY <1>1, <2>1, <2>4
  <2>6. \A i \in 1 .. Len(ToRead) : ToRead[i] = chan.entries[m + i]
    <3> SUFFICES ASSUME NEW i \in 1 .. Len(ToRead) PROVE ToRead[i] = chan.entries[m + i]
      OBVIOUS
    <3>1. i \in 1 .. Len(chan.entries) - (m + 1) + 1 /\ (m + 1) + i - 1 = m + i
      BY <1>1, <2>1, <2>5
    <3> QED
      BY <2>4, <3>1
  <2>7. Len(ToRead) = LastId - client.cursor
    BY <1>1, <2>1, <2>5 DEF m
  <2> QED
    BY <1>1, <2>4, <2>6, <2>7 DEF m
<1> QED
  BY <1>2, <1>3

\* Entries out are added and the d oldest ones are dropped.
Shifts(joined, out, d) ==
  LET all == chan.entries \o out
  IN /\ chan' \in Channels /\ chan'.open = chan.open /\ chan'.joined = joined
     /\ d \in 0 .. Len(all) /\ chan'.dropped = chan.dropped + d
     /\ Len(chan'.entries) = Len(all) - d
     /\ \A i \in 1 .. Len(all) - d : chan'.entries[i] = all[i + d]
     /\ flight' = IF Streaming THEN flight \o out ELSE flight

LEMMA ChannelShifted ==
  ASSUME ReplayTypes, StreamInv, NEW joined \in BOOLEAN, NEW out \in Seq(Entries), NEW d \in Nat,
         Shifts(joined, out, d),
         client'.stream = client.stream, client'.cursor = client.cursor,
         client'.mode = "told" <=> client.mode = "told"
  PROVE  /\ flight' \in Seq(Entries)
         /\ StreamInv'
         /\ client.mode # "told" /\ Fed' => Fed /\ ToRead' = ToRead \o out
<1> DEFINE all == chan.entries \o out
           k == Len(chan.entries)
           m == Len(out)
<1>1. /\ chan \in Channels /\ chan.entries \in Seq(Entries) /\ chan.dropped \in Nat
      /\ flight \in Seq(Entries) /\ client.cursor \in Nat
      /\ k \in Nat /\ m \in Nat /\ Len(flight) \in Nat
  <2>1. chan \in Channels /\ flight \in Seq(Entries) /\ client.cursor \in Nat
    BY DEF ReplayTypes, Channels
  <2>2. chan.entries \in Seq(Entries) /\ chan.dropped \in Nat
    BY <2>1 DEF Channels
  <2> QED
    BY <2>1, <2>2
<1>3. /\ Len(all) = k + m
      /\ \A i \in 1 .. k + m : all[i] = IF i <= k THEN chan.entries[i] ELSE out[i - k]
  BY <1>1, ConcatProperties
<1>5. /\ chan' \in Channels /\ chan'.open = chan.open /\ chan'.joined = joined
      /\ d \in 0 .. Len(all) /\ chan'.dropped = chan.dropped + d
      /\ Len(chan'.entries) = Len(all) - d
      /\ \A i \in 1 .. Len(all) - d : chan'.entries[i] = all[i + d]
  BY DEF Shifts
<1>4. flight' = IF Streaming THEN flight \o out ELSE flight
  BY DEF Shifts
<1> HIDE DEF all
<1>6. /\ flight \o out \in Seq(Entries) /\ Len(flight \o out) = Len(flight) + m
      /\ \A i \in 1 .. Len(flight) + m :
           (flight \o out)[i] = IF i <= Len(flight) THEN flight[i] ELSE out[i - Len(flight)]
  BY <1>1, ConcatProperties
<1>7. flight' \in Seq(Entries)
  BY <1>1, <1>4, <1>6
<1>8. LastId = chan.dropped + k /\ LastId' = chan.dropped + k + m
  BY <1>1, <1>3, <1>5 DEF LastId
<1> DEFINE f == Len(flight)
           a == client.cursor
           b == chan.dropped
<1>9. /\ k \in Nat /\ m \in Nat /\ f \in Nat /\ a \in Nat /\ b \in Nat /\ d \in Nat /\ d <= k + m
      /\ client'.cursor = a /\ chan'.dropped = b + d /\ Len(chan'.entries) = k + m - d
      /\ LastId = b + k /\ LastId' = b + k + m /\ chan'.open = chan.open
  BY <1>1, <1>3, <1>5, <1>8
<1>13. k \in Nat /\ m \in Nat /\ f \in Nat /\ a \in Nat /\ b \in Nat /\ d <= k + m
  BY <1>9
<1> HIDE DEF k, m, f, a, b
<1>12. \A i \in 1 .. k + m - d : chan'.entries[i] = all[i + d]
  <2>1. Len(all) - d = k + m - d
    BY <1>3, <1>9
  <2> QED
    BY <1>5, <2>1
<1>11. StreamInv'
  <2>1. client'.mode = "told" => ~Streaming'
    BY DEF StreamInv, Streaming
  <2>2. ASSUME Streaming'
        PROVE  /\ Streaming /\ flight' = flight \o out /\ Len(flight') = f + m /\ a + f = b + k
               /\ chan.open
    <3>1. Streaming
      BY <2>2 DEF Streaming
    <3>2. flight' = flight \o out /\ Len(flight') = f + m
      BY <1>4, <1>6, <3>1 DEF f
    <3>3. chan.open /\ a + f = LastId
      BY <3>1 DEF StreamInv, a, f
    <3> QED
      BY <1>9, <3>1, <3>2, <3>3
  <2>3. Streaming' => chan'.open /\ client'.cursor + Len(flight') = LastId'
    <3> SUFFICES ASSUME Streaming' PROVE chan'.open /\ a + (f + m) = (b + k) + m
      BY <1>5, <1>9, <2>2
    <3>1. a + f = b + k
      BY <2>2
    <3> QED
      BY <1>5, <1>13, <2>2, <3>1
  <2>4. ASSUME Streaming', NEW i \in 1 .. Len(flight'), client'.cursor + i > chan'.dropped
        PROVE  flight'[i] = chan'.entries[client'.cursor + i - chan'.dropped]
    <3> DEFINE j == a + i - b
    <3>1. /\ j \in 1 .. k + m /\ j - d \in 1 .. k + m - d /\ (j - d) + d = j
          /\ client'.cursor + i - chan'.dropped = j - d /\ i \in 1 .. f + m
      BY <1>9, <2>2, <2>4
    <3>2. chan'.entries[j - d] = all[j]
      BY <1>12, <3>1
    <3>3. CASE i <= f
      <4>1. j <= k /\ a + i > b /\ i \in 1 .. f
        BY <1>9, <2>2, <2>4, <3>1, <3>3
      <4>2. flight'[i] = flight[i]
        BY <1>6, <2>2, <2>4, <3>1, <3>3 DEF f
      <4>3. flight[i] = chan.entries[j]
        BY <2>2, <2>4, <4>1 DEF StreamInv, a, b, f
      <4>4. all[j] = chan.entries[j]
        BY <1>3, <3>1, <4>1
      <4> QED
        BY <3>1, <3>2, <4>2, <4>3, <4>4
    <3>4. CASE ~(i <= f)
      <4>1. ~(j <= k) /\ j - k = i - f
        BY <1>9, <2>2, <2>4, <3>1, <3>4
      <4>2. flight'[i] = out[i - f]
        BY <1>6, <2>2, <2>4, <3>1, <3>4 DEF f
      <4>3. all[j] = out[j - k]
        BY <1>3, <3>1, <4>1
      <4> QED
        BY <3>1, <3>2, <4>1, <4>2, <4>3
    <3> QED
      BY <3>3, <3>4
  <2>5. client'.mode # "told" /\ chan'.open => client'.cursor <= LastId'
    BY <1>5, <1>9 DEF StreamInv, a
  <2> QED
    BY <2>1, <2>3, <2>4, <2>5 DEF StreamInv
<1>10. ASSUME client.mode # "told", Fed'
       PROVE  Fed /\ ToRead' = ToRead \o out
  <2>1. CASE Streaming
    BY <1>4, <2>1 DEF Fed, ToRead, Streaming
  <2>2. CASE ~Streaming
    <3> DEFINE n == a - b
               u == SubSeq(chan'.entries, n - d + 1, k + m - d)
    <3>1. ~Streaming' /\ chan.open /\ b + d <= a
      BY <1>5, <1>9, <1>10, <2>2 DEF Fed, Covered, Streaming
    <3>2. Fed
      <4>1. chan.dropped <= client.cursor
        BY <1>9, <3>1 DEF a, b
      <4> QED
        BY <3>1, <4>1 DEF Fed, Covered
    <3>3. n \in Nat /\ n - d \in Nat /\ n <= k /\ client'.cursor - chan'.dropped + 1 = n - d + 1
      <4>1. a <= b + k
        BY <1>9, <1>10, <3>1 DEF StreamInv, a
      <4> QED
        BY <1>9, <3>1, <4>1
    <3>4. ToRead' = u
      BY <1>9, <3>1, <3>3 DEF ToRead
    <3>5. LastId - client.cursor = k - n /\ \A i \in Nat \ {0} : client.cursor + i > chan.dropped
      <4>1. (b + k) - a = k - n /\ \A i \in Nat \ {0} : a + i > b
        <5>1. n \in Nat /\ n = a - b
          BY <3>3
        <5> QED
          BY <1>13, <5>1
      <4> QED
        BY <1>9, <4>1 DEF a, b
    <3>6. /\ ToRead \in Seq(Entries) /\ Len(ToRead) = k - n
          /\ \A i \in 1 .. k - n : ToRead[i] = chan.entries[n + i]
      <4>1. /\ ToRead \in Seq(Entries) /\ Len(ToRead) = k - n
            /\ \A i \in 1 .. Len(ToRead) : client.cursor + i > chan.dropped
                 => ToRead[i] = chan.entries[client.cursor - chan.dropped + i]
        BY <1>10, <3>2, <3>5, UnreadFacts
      <4> QED
        BY <3>5, <4>1 DEF a, b
    <3> HIDE DEF n
    <3>7. /\ u \in Seq(Entries) /\ Len(u) = k + m - n
          /\ \A i \in 1 .. k + m - n : u[i] = chan'.entries[n - d + i]
      <4>1. /\ n - d + 1 \in Int /\ k + m - d \in Int
            /\ \A i \in n - d + 1 .. k + m - d : i \in 1 .. Len(chan'.entries)
        <5>1. n - d + 1 \in Nat /\ n - d + 1 >= 1 /\ k + m - d \in Int
          BY <1>9, <3>3
        <5>2. \A i \in n - d + 1 .. k + m - d : i \in 1 .. k + m - d
          BY <5>1
        <5> QED
          BY <1>9, <5>1, <5>2
      <4>2. chan'.entries \in Seq(Entries)
        BY <1>5 DEF Channels
      <4>3. \A i \in n - d + 1 .. k + m - d : chan'.entries[i] \in Entries
        BY <4>1, <4>2, ElementOfSeq
      <4>4. /\ u \in Seq(Entries)
            /\ Len(u) = IF n - d + 1 <= k + m - d THEN (k + m - d) - (n - d + 1) + 1 ELSE 0
            /\ \A i \in 1 .. (k + m - d) - (n - d + 1) + 1 :
                 u[i] = chan'.entries[(n - d + 1) + i - 1]
        BY <4>1, <4>3, SubSeqProperties
      <4>5. (k + m - d) - (n - d + 1) + 1 = k + m - n
        BY <1>9, <3>3
      <4>6. \A i \in Nat : (n - d + 1) + i - 1 = n - d + i
        BY <1>9, <3>3
      <4>7. k + m - n \in Nat /\ (~(n - d + 1 <= k + m - d) => k + m - n = 0)
        BY <1>9, <3>3
      <4> HIDE DEF u
      <4>8. Len(u) = k + m - n
        BY <4>4, <4>5, <4>7
      <4>9. \A i \in 1 .. k + m - n : u[i] = chan'.entries[n - d + i]
        BY <4>4, <4>5, <4>6
      <4> QED
        BY <4>4, <4>8, <4>9
    <3>8. /\ ToRead \o out \in Seq(Entries) /\ Len(ToRead \o out) = k + m - n
          /\ \A i \in 1 .. k + m - n :
               (ToRead \o out)[i] = IF i <= k - n THEN ToRead[i] ELSE out[i - (k - n)]
      <4>1. /\ ToRead \o out \in Seq(Entries) /\ Len(ToRead \o out) = (k - n) + m
            /\ \A i \in 1 .. (k - n) + m :
                 (ToRead \o out)[i] = IF i <= k - n THEN ToRead[i] ELSE out[i - (k - n)]
        <5>1. /\ ToRead \o out \in Seq(Entries) /\ Len(ToRead \o out) = Len(ToRead) + Len(out)
              /\ \A i \in 1 .. Len(ToRead) + Len(out) :
                   (ToRead \o out)[i] = IF i <= Len(ToRead) THEN ToRead[i] ELSE out[i - Len(ToRead)]
          BY <3>6, ConcatProperties
        <5>2. Len(ToRead) = k - n /\ Len(out) = m
          BY <3>6 DEF m
        <5> QED
          BY <5>1, <5>2
      <4>2. (k - n) + m = k + m - n
        BY <1>9, <3>3
      <4> QED
        BY <4>1, <4>2
    <3> HIDE DEF u
    <3>9. \A i \in 1 .. k + m - n : u[i] = (ToRead \o out)[i]
      <4> SUFFICES ASSUME NEW i \in 1 .. k + m - n PROVE u[i] = (ToRead \o out)[i]
        OBVIOUS
      <4>1. /\ n - d + i \in 1 .. k + m - d /\ (n - d + i) + d = n + i /\ n + i \in 1 .. k + m
            /\ (i <= k - n <=> n + i <= k) /\ (n + i) - k = i - (k - n)
            /\ (i <= k - n => i \in 1 .. k - n)
        <5>1. n \in Nat /\ n - d \in Nat /\ n <= k
          BY <3>3
        <5> QED
          BY <1>13, <5>1
      <4>2. u[i] = all[n + i]
        <5>1. u[i] = chan'.entries[n - d + i]
          BY <3>7
        <5>2. \A j \in 1 .. k + m - d : j + d = n + i => chan'.entries[j] = all[n + i]
          BY <1>12
        <5>3. chan'.entries[n - d + i] = all[n + i]
          BY <4>1, <5>2
        <5> HIDE DEF u
        <5> QED
          BY <5>1, <5>3
      <4>3. all[n + i] = IF n + i <= k THEN chan.entries[n + i] ELSE out[(n + i) - k]
        BY <1>3, <4>1
      <4>4. (ToRead \o out)[i] = IF i <= k - n THEN ToRead[i] ELSE out[i - (k - n)]
        BY <3>8
      <4>5. i <= k - n => ToRead[i] = chan.entries[n + i]
        BY <3>6, <4>1
      <4> QED
        BY <4>1, <4>2, <4>3, <4>4, <4>5
    <3>10. u = ToRead \o out
      BY <3>7, <3>8, <3>9, SeqEqual
    <3> QED
      BY <3>2, <3>4, <3>10
  <2> QED
    BY <2>1, <2>2
<1> QED
  BY <1>7, <1>10, <1>11

LEMMA ChannelKept ==
  ASSUME ReplayTypes, StreamInv, NEW joined \in BOOLEAN, NEW out \in Seq(Entries),
         Passes(joined, out),
         client'.stream = client.stream, client'.cursor = client.cursor,
         client'.mode = "told" <=> client.mode = "told"
  PROVE  /\ chan' \in Channels /\ Len(chan'.entries) <= KeepEntries
         /\ chan'.open = chan.open /\ chan'.joined = joined
         /\ flight' \in Seq(Entries)
         /\ StreamInv'
         /\ client.mode # "told" /\ Fed' => Fed /\ ToRead' = ToRead \o out
<1> DEFINE c == [chan EXCEPT !.joined = joined, !.entries = @ \o out]
<1>1. chan \in Channels /\ chan.entries \o out \in Seq(Entries)
  BY DEF ReplayTypes, Channels
<1>2. /\ c \in Channels /\ c.open = chan.open /\ c.joined = joined /\ c.dropped = chan.dropped
      /\ c.entries = chan.entries \o out
  BY <1>1 DEF Channels
<1>3. chan' = Keep(c) /\ flight' = IF Streaming THEN flight \o out ELSE flight
  BY DEF Passes
<1> HIDE DEF c
<1>4. PICK d \in 0 .. Len(c.entries) :
        /\ chan' \in Channels /\ Len(chan'.entries) <= KeepEntries
        /\ chan'.open = c.open /\ chan'.joined = c.joined
        /\ chan'.dropped = c.dropped + d
        /\ Len(chan'.entries) = Len(c.entries) - d
        /\ \A i \in 1 .. Len(c.entries) - d : chan'.entries[i] = c.entries[i + d]
  BY <1>2, <1>3, EntriesKept
<1>5. Shifts(joined, out, d)
  BY <1>2, <1>3, <1>4 DEF Shifts
<1> QED
  BY <1>2, <1>4, <1>5, ChannelShifted

LEMMA QuietCat ==
  ASSUME NEW s \in Seq(Entries), NEW t \in Seq(Entries)
  PROVE  /\ s \o t \in Seq(Entries) /\ Len(s \o t) = Len(s) + Len(t)
         /\ Len(s) \in Nat /\ Len(t) \in Nat
         /\ \A i \in 1 .. Len(s) : (s \o t)[i] = s[i] /\ Quiet(s \o t, i) = Quiet(s, i)
         /\ \A j \in 1 .. Len(t) : /\ (s \o t)[Len(s) + j] = t[j]
                                   /\ Quiet(s \o t, Len(s) + j)
                                        <=> Quiet(s, Len(s)) /\ Quiet(t, j)
         /\ \A i \in 1 .. Len(s) + Len(t) :
              i \in 1 .. Len(s) \/ \E j \in 1 .. Len(t) : i = Len(s) + j
         /\ Quiet(s \o t, Len(s \o t)) <=> Quiet(s, Len(s)) /\ Quiet(t, Len(t))
<1> DEFINE u == s \o t
           k == Len(s)
           m == Len(t)
<1>1. /\ u \in Seq(Entries) /\ Len(u) = k + m /\ k \in Nat /\ m \in Nat
      /\ \A i \in 1 .. k + m : u[i] = IF i <= k THEN s[i] ELSE t[i - k]
  BY ConcatProperties
<1> HIDE DEF u, k, m
<1>2. \A i \in 1 .. k : u[i] = s[i]
  BY <1>1
<1>3. \A j \in 1 .. m : u[k + j] = t[j]
  <2> SUFFICES ASSUME NEW j \in 1 .. m PROVE u[k + j] = t[j]
    OBVIOUS
  <2>1. k + j \in 1 .. k + m /\ ~(k + j <= k) /\ (k + j) - k = j
    BY <1>1
  <2> QED
    BY <1>1, <2>1
<1>4. \A i \in 1 .. k : Quiet(u, i) = Quiet(s, i)
  <2> SUFFICES ASSUME NEW i \in 1 .. k PROVE Quiet(u, i) = Quiet(s, i)
    OBVIOUS
  <2>1. \A j \in 1 .. i : u[j] = s[j]
    BY <1>1, <1>2
  <2> QED
    BY <2>1 DEF Quiet
<1>5. \A i \in 1 .. k + m : i \in 1 .. k \/ \E j \in 1 .. m : i = k + j
  <2> SUFFICES ASSUME NEW i \in 1 .. k + m, i \notin 1 .. k PROVE \E j \in 1 .. m : i = k + j
    OBVIOUS
  <2>1. i - k \in 1 .. m /\ i = k + (i - k)
    BY <1>1
  <2> QED
    BY <2>1
<1>6. \A j \in 0 .. m : Quiet(u, k + j) <=> Quiet(s, k) /\ Quiet(t, j)
  <2> SUFFICES ASSUME NEW j \in 0 .. m
               PROVE  Quiet(u, k + j) <=> Quiet(s, k) /\ Quiet(t, j)
    OBVIOUS
  <2>1. ASSUME Quiet(u, k + j) PROVE Quiet(s, k) /\ Quiet(t, j)
    <3>1. 1 .. k \subseteq 1 .. k + j /\ \A i \in 1 .. j : k + i \in 1 .. k + j /\ i \in 1 .. m
      BY <1>1
    <3> QED
      BY <1>2, <1>3, <2>1, <3>1 DEF Quiet
  <2>2. ASSUME Quiet(s, k), Quiet(t, j) PROVE Quiet(u, k + j)
    <3> SUFFICES ASSUME NEW i \in 1 .. k + j PROVE u[i] # Reset
      BY DEF Quiet
    <3>1. CASE i \in 1 .. k
      BY <1>2, <2>2, <3>1 DEF Quiet
    <3>2. CASE i \notin 1 .. k
      <4>1. i - k \in 1 .. j /\ i - k \in 1 .. m /\ i = k + (i - k)
        BY <1>1, <3>2
      <4> QED
        BY <1>3, <2>2, <4>1 DEF Quiet
    <3> QED
      BY <3>1, <3>2
  <2> QED
    BY <2>1, <2>2
<1>7. Quiet(u, k + m) <=> Quiet(s, k) /\ Quiet(t, m)
  BY <1>1, <1>6
<1>8. \A j \in 1 .. m : j \in 0 .. m
  BY <1>1
<1>9. u = s \o t /\ k = Len(s) /\ m = Len(t)
  BY DEF u, k, m
<1> QED
  BY <1>1, <1>2, <1>3, <1>4, <1>5, <1>6, <1>7, <1>8, <1>9

\* Entries t follow on entries s, or on number n of runtime g.
Follows(s, t, g, n) ==
  \A i \in 1 .. Len(t) : Quiet(t, i) =>
    /\ t[i].gen = g
    /\ IF i # 1 THEN t[i].seq = t[i - 1].seq + 1
       ELSE IF s = <<>> THEN t[i].seq <= n + 1 ELSE t[i].seq = s[Len(s)].seq + 1

LEMMA ContinuesOn ==
  ASSUME NEW s \in Seq(Entries), NEW t \in Seq(Entries), NEW g, NEW n,
         Continues(s, g, n), Quiet(s, Len(s)) => Follows(s, t, g, n)
  PROVE  Continues(s \o t, g, n)
<1> DEFINE u == s \o t
           k == Len(s)
           m == Len(t)
<1>1. /\ u \in Seq(Entries) /\ Len(u) = k + m /\ k \in Nat /\ m \in Nat
      /\ \A i \in 1 .. k : u[i] = s[i] /\ Quiet(u, i) = Quiet(s, i)
      /\ \A j \in 1 .. m : u[k + j] = t[j] /\ (Quiet(u, k + j) <=> Quiet(s, k) /\ Quiet(t, j))
      /\ \A i \in 1 .. k + m : i \in 1 .. k \/ \E j \in 1 .. m : i = k + j
      /\ (k = 0 <=> s = <<>>) /\ u = s \o t /\ k = Len(s) /\ m = Len(t)
  BY QuietCat, EmptySeq
<1> HIDE DEF u, k, m
<1>2. ASSUME NEW i \in 1 .. k, Quiet(u, i)
      PROVE  u[i].gen = g /\ IF i = 1 THEN u[i].seq <= n + 1 ELSE u[i].seq = u[i - 1].seq + 1
  <2>1. i # 1 => i - 1 \in 1 .. k
    BY <1>1
  <2> QED
    BY <1>1, <1>2, <2>1 DEF Continues
<1>3. ASSUME NEW j \in 1 .. m, Quiet(u, k + j)
      PROVE  /\ u[k + j].gen = g
             /\ IF k + j = 1 THEN u[k + j].seq <= n + 1 ELSE u[k + j].seq = u[(k + j) - 1].seq + 1
  <2>1. /\ t[j].gen = g
        /\ IF j # 1 THEN t[j].seq = t[j - 1].seq + 1
           ELSE IF s = <<>> THEN t[j].seq <= n + 1 ELSE t[j].seq = s[k].seq + 1
    BY <1>1, <1>3 DEF Follows
  <2>2. CASE j # 1
    <3>1. j - 1 \in 1 .. m /\ (k + j) - 1 = k + (j - 1) /\ k + j # 1
      BY <1>1, <2>2
    <3> QED
      BY <1>1, <2>1, <2>2, <3>1
  <2>3. CASE j = 1 /\ k # 0
    <3>1. k \in 1 .. k /\ (k + j) - 1 = k /\ k + j # 1 /\ s # <<>>
      BY <1>1, <2>3
    <3> QED
      BY <1>1, <2>1, <2>3, <3>1
  <2>4. CASE j = 1 /\ k = 0
    <3>1. k + j = 1 /\ s = <<>>
      BY <1>1, <2>4
    <3> QED
      BY <1>1, <2>1, <2>4, <3>1
  <2> QED
    BY <2>2, <2>3, <2>4
<1>4. Continues(u, g, n)
  <2> SUFFICES ASSUME NEW i \in 1 .. Len(u), Quiet(u, i)
               PROVE  /\ u[i].gen = g
                      /\ IF i = 1 THEN u[i].seq <= n + 1 ELSE u[i].seq = u[i - 1].seq + 1
    BY DEF Continues
  <2>1. CASE i \in 1 .. k
    BY <1>2, <2>1
  <2>2. CASE i \notin 1 .. k
    <3>1. PICK j \in 1 .. m : i = k + j
      BY <1>1, <2>2
    <3> QED
      BY <1>3, <3>1
  <2> QED
    BY <2>1, <2>2
<1> QED
  BY <1>4 DEF u

-----------------------------------------------------------------------------
(* One delivery, and what the client still follows                          *)

\* The client knows all but what it has still to read.
Synced == Quiet(ToRead, Len(ToRead)) /\ InStep

\* A synced client stays so: frames es begin with the next event for it.
LEMMA SyncedOn ==
  ASSUME ReplayTypes, FollowInv, client.mode = "live", Fed,
         NEW st, NEW es, NEW r, NEW t, Took(st, es, r, t),
         ToRead \in Seq(Entries), ToRead' = ToRead \o t,
         st.gen = route.gen, st.seq = route.seq, chan'.joined = st.joined,
         chan.joined => st.joined,
         client'.gen = client.gen, client'.seq = client.seq,
         route' = [gen |-> st.gen, seq |-> r.seq], early' = r.early,
         Synced => \A i \in 1 .. Len(st.early) : st.early[i].gen # st.gen,
         Synced /\ st.seq = 0 /\ t # <<>> /\ t[1] # Reset => t[1].seq <= client.seq + 1,
         Synced /\ link' = "up" /\ r.seq = 0 =>
            \A m \in client.seq + 1 .. hermes'.seq :
               \E i \in 1 .. Len(wire') : wire'[i] = Event(hermes'.gen, m)
  PROVE  /\ Continues(ToRead', client'.gen, client'.seq)
         /\ Quiet(ToRead', Len(ToRead')) => InStep'
<1> DEFINE s == ToRead
<1>1. /\ s \o t \in Seq(Entries) /\ Len(s \o t) = Len(s) + Len(t)
      /\ Len(s) \in Nat /\ Len(t) \in Nat
      /\ \A j \in 1 .. Len(t) : (s \o t)[Len(s) + j] = t[j]
      /\ Quiet(s \o t, Len(s \o t)) <=> Quiet(s, Len(s)) /\ Quiet(t, Len(t))
  BY QuietCat DEF Took
<1>2. /\ st.gen \in Nat /\ st.seq \in Nat /\ r.seq \in Nat /\ t \in Seq(Entries)
      /\ client.seq \in Nat /\ client.gen \in Nat /\ r \in Loops
      /\ \A j \in 1 .. Len(es) : es[j] \in Numbered
  <2>1. /\ st \in Loops /\ r \in Loops /\ es \in Seq(Numbered) /\ t \in Seq(Entries)
        /\ client.seq \in 0 .. MaxEvents /\ client.gen \in 0 .. MaxRuntimes
    BY DEF Took, Reached, ReplayTypes
  <2>2. 0 .. MaxEvents \subseteq Nat /\ 0 .. MaxRuntimes \subseteq Nat
    BY ReplayAssumption
  <2>3. \A x \in Loops : x.gen \in Nat /\ x.seq \in Nat
    BY <2>2 DEF Loops
  <2>4. \A j \in 1 .. Len(es) : es[j] \in Numbered
    BY <2>1
  <2> QED
    BY <2>1, <2>2, <2>3, <2>4
<1>3. ASSUME Synced
      PROVE  Follows(s, t, client.gen, client.seq)
  <2> SUFFICES ASSUME NEW i \in 1 .. Len(t), Quiet(t, i)
               PROVE  /\ t[i].gen = client.gen
                      /\ IF i # 1 THEN t[i].seq = t[i - 1].seq + 1
                         ELSE IF s = <<>> THEN t[i].seq <= client.seq + 1
                              ELSE t[i].seq = s[Len(s)].seq + 1
    BY DEF Follows
  <2>1. /\ \E j \in 1 .. Len(es) : t[i] = es[j] /\ es[j].gen = st.gen
        /\ IF i = 1 THEN st.seq = 0 \/ t[i].seq = st.seq + 1 ELSE t[i].seq = t[i - 1].seq + 1
    BY DEF Took, Emits
  <2>2. /\ route.gen = client.gen
        /\ IF s = <<>> THEN route.seq <= client.seq ELSE route.seq = s[Len(s)].seq
    BY <1>3 DEF Synced, InStep
  <2>3. CASE i # 1
    BY <2>1, <2>2, <2>3
  <2>4. CASE i = 1 /\ s # <<>>
    <3>1. Len(s) \in 1 .. Len(s) /\ s[Len(s)] \in Entries /\ s[Len(s)] # Reset
      <4>1. Len(s) \in 1 .. Len(s)
        BY <1>1, <2>4, EmptySeq
      <4> QED
        BY <1>3, <4>1, ElementOfSeq DEF Synced, Quiet
    <3>2. s[Len(s)].seq > 0
      BY <3>1, EntryFacts
    <3> QED
      BY <1>2, <2>1, <2>2, <2>4, <3>2
  <2>5. CASE i = 1 /\ s = <<>>
    <3>1. t # <<>> /\ t[1] # Reset
      <4>1. 1 \in 1 .. i
        BY <2>5
      <4> QED
        BY <1>1, <2>5, <4>1, EmptySeq DEF Quiet
    <3>2. CASE st.seq = 0
      BY <1>3, <2>1, <2>2, <2>5, <3>1, <3>2
    <3>3. CASE st.seq # 0
      <4>1. t[1].seq = st.seq + 1 /\ st.seq <= client.seq
        BY <2>1, <2>2, <2>5, <3>3
      <4> QED
        BY <1>2, <2>1, <2>2, <2>5, <4>1
    <3> QED
      BY <3>2, <3>3
  <2> QED
    BY <2>3, <2>4, <2>5
<1>4. ASSUME Quiet(ToRead', Len(ToRead'))
      PROVE  Synced /\ Quiet(t, Len(t))
  <2>1. Quiet(s, Len(s)) /\ Quiet(t, Len(t))
    BY <1>1, <1>4
  <2> QED
    BY <2>1 DEF Synced, FollowInv
<1>5. Continues(ToRead', client'.gen, client'.seq)
  <2>1. Quiet(s, Len(s)) => Synced
    BY DEF Synced, FollowInv
  <2>2. Continues(s, client.gen, client.seq)
    BY DEF FollowInv
  <2> QED
    BY <1>2, <1>3, <2>1, <2>2, ContinuesOn
<1>6. ASSUME Quiet(ToRead', Len(ToRead'))
      PROVE  InStep'
  <2>1. /\ chan'.joined /\ route'.gen = client'.gen /\ route'.gen # 0 /\ route'.seq = r.seq
        /\ IF s = <<>> THEN route.seq <= client.seq ELSE route.seq = s[Len(s)].seq
    BY <1>4, <1>6 DEF Synced, InStep
  <2>2. r.seq = IF t = <<>> THEN st.seq ELSE t[Len(t)].seq
    BY <1>4, <1>6, <2>1 DEF Took, Emits
  <2>3. IF ToRead' = <<>> THEN route'.seq <= client'.seq
                          ELSE route'.seq = ToRead'[Len(ToRead')].seq
    <3>1. CASE t = <<>>
      <4>1. ToRead' = s
        BY <3>1, ConcatEmptySeq
      <4> QED
        BY <2>1, <2>2, <3>1, <4>1
    <3>2. CASE t # <<>>
      <4>1. Len(t) \in 1 .. Len(t)
        BY <1>1, <3>2, EmptySeq
      <4>2. ToRead' # <<>> /\ ToRead'[Len(ToRead')] = t[Len(t)]
        BY <1>1, <4>1, EmptySeq
      <4> QED
        BY <2>1, <2>2, <3>2, <4>2
    <3> QED
      BY <3>1, <3>2
  <2>4. \A i \in 1 .. Len(early') : early'[i].gen # route'.gen
    <3>1. \A i \in 1 .. Len(st.early) : st.early[i].gen # st.gen
      BY <1>4, <1>6
    <3> SUFFICES ASSUME NEW i \in 1 .. Len(r.early) PROVE r.early[i].gen # st.gen
      OBVIOUS
    <3>2. \/ \E j \in 1 .. Len(st.early) : r.early[i] = st.early[j]
          \/ \E j \in 1 .. Len(es) : r.early[i] = es[j] /\ es[j].gen # st.gen
      BY DEF Took, Reached
    <3> QED
      BY <3>1, <3>2
  <2>5. link' = "up" /\ route'.seq = 0 =>
          \A m \in client'.seq + 1 .. hermes'.seq :
             \E i \in 1 .. Len(wire') : wire'[i] = Event(hermes'.gen, m)
    BY <1>4, <1>6, <2>1
  <2> QED
    BY <2>1, <2>3, <2>4, <2>5 DEF InStep
<1> QED
  BY <1>5, <1>6

\* Frames es have been taken from state st on, and pre and entries t were written.
TakesIn(st, pre, es, r, t) ==
  /\ Took(st, es, r, t)
  /\ route' = [gen |-> st.gen, seq |-> r.seq] /\ early' = r.early
  /\ chan' \in Channels /\ Len(chan'.entries) <= KeepEntries
  /\ chan'.joined = st.joined /\ flight' \in Seq(Entries) /\ StreamInv'
  /\ client.mode # "told" /\ Fed' =>
       Fed /\ ToRead \in Seq(Entries) /\ ToRead' = ToRead \o (pre \o t)

Arrival(st, pre, es) == \E r, t : TakesIn(st, pre, es, r, t)

LEMMA Passed ==
  ASSUME ReplayTypes, StreamInv, NEW g \in 0 .. MaxRuntimes, NEW n \in 0 .. MaxEvents,
         NEW pre \in {<<>>, <<Reset>>}, NEW held \in Seq(Numbered), Len(held) <= EarlyLimit,
         NEW es \in Seq(Numbered), NEW joined \in BOOLEAN,
         NEW c, c = [chan EXCEPT !.joined = joined], Deliver(g, n, pre, held, es, c),
         client'.stream = client.stream, client'.cursor = client.cursor,
         client'.mode = "told" <=> client.mode = "told"
  PROVE  Arrival(Begun(g, n, pre, held, joined), pre, es)
<1> DEFINE st == Begun(g, n, pre, held, joined)
<1>1. PICK r, t : /\ Took(st, es, r, t)
                  /\ route' = [gen |-> g, seq |-> r.seq] /\ early' = r.early
                  /\ Passes(joined, IF chan.open THEN pre \o t ELSE <<>>)
  <2>1. Delivery(g, n, pre, held, es, joined)
    BY Delivered
  <2> QED
    BY <2>1 DEF Delivery
<1>3. t \in Seq(Entries)
  BY <1>1 DEF Took
<1> DEFINE out == IF chan.open THEN pre \o t ELSE <<>>
<1>4. out \in Seq(Entries)
  <2>1. <<>> \in Seq(Entries) /\ <<Reset>> \in Seq(Entries)
    BY EntryFacts
  <2>2. pre \in Seq(Entries)
    BY <2>1
  <2>3. pre \o t \in Seq(Entries)
    BY <1>3, <2>2, ConcatProperties
  <2> QED
    BY <2>1, <2>3
<1>5. Passes(joined, out)
  BY <1>1
<1> HIDE DEF out, st
<1>6. /\ chan' \in Channels /\ Len(chan'.entries) <= KeepEntries
      /\ chan'.open = chan.open /\ chan'.joined = joined
      /\ flight' \in Seq(Entries)
      /\ StreamInv'
      /\ client.mode # "told" /\ Fed' => Fed /\ ToRead' = ToRead \o out
  BY <1>4, <1>5, ChannelKept
<1>7. ASSUME client.mode # "told", Fed'
      PROVE  Fed /\ ToRead \in Seq(Entries) /\ ToRead' = ToRead \o (pre \o t)
  <2>1. Fed /\ ToRead \in Seq(Entries)
    BY <1>6, <1>7, UnreadFacts
  <2>2. chan.open
    BY <1>6, <2>1 DEF Fed, Covered, StreamInv
  <2>3. out = pre \o t
    BY <2>2 DEF out
  <2> QED
    BY <1>6, <1>7, <2>1, <2>3
<1>8. st.gen = g /\ st.joined = joined
  BY DEF st, Begun
<1>9. TakesIn(st, pre, es, r, t)
  BY <1>1, <1>6, <1>7, <1>8 DEF TakesIn
<1> QED
  BY <1>9 DEF Arrival, st

\* A client that waits for its snapshot still reads nothing but resets.
LEMMA StillWaits ==
  ASSUME JoinInv, NEW st, NEW es, NEW r, NEW t, Took(st, es, r, t),
         NEW pre \in {<<>>, <<Reset>>}, chan'.joined = st.joined,
         client'.mode = "open" => client.mode = "open" /\ ~st.joined,
         client.mode # "told" /\ Fed' =>
            Fed /\ ToRead \in Seq(Entries) /\ ToRead' = ToRead \o (pre \o t)
  PROVE  JoinInv'
<1> SUFFICES ASSUME client'.mode = "open"
             PROVE  ~chan'.joined /\ (Fed' => \A i \in 1 .. Len(ToRead') : ToRead'[i] = Reset)
  BY DEF JoinInv
<1>1. client.mode = "open" /\ ~st.joined
  OBVIOUS
<1>2. ASSUME Fed'
      PROVE  \A i \in 1 .. Len(ToRead') : ToRead'[i] = Reset
  <2>1. /\ ToRead \in Seq(Entries) /\ ToRead' = ToRead \o (pre \o t)
        /\ \A i \in 1 .. Len(ToRead) : ToRead[i] = Reset
    BY <1>1, <1>2 DEF JoinInv
  <2>2. t \in Seq(Entries) /\ \A i \in 1 .. Len(t) : t[i] = Reset
    BY <1>1 DEF Took, Emits
  <2>3. pre \in Seq(Entries) /\ \A i \in 1 .. Len(pre) : pre[i] = Reset
    <3>1. /\ <<Reset>> \in Seq(Entries) /\ Len(<<Reset>>) = 1 /\ <<Reset>>[1] = Reset
          /\ <<>> \in Seq(Entries) /\ Len(<<>>) = 0
      BY EntryFacts
    <3>2. CASE pre = <<>>
      BY <3>1, <3>2
    <3>3. CASE pre = <<Reset>>
      BY <3>1, <3>3
    <3> QED
      BY <3>2, <3>3
  <2>4. pre \o t \in Seq(Entries) /\ \A i \in 1 .. Len(pre \o t) : (pre \o t)[i] = Reset
    <3>1. /\ pre \o t \in Seq(Entries) /\ Len(pre \o t) = Len(pre) + Len(t)
          /\ \A i \in 1 .. Len(pre) : (pre \o t)[i] = pre[i]
          /\ \A j \in 1 .. Len(t) : (pre \o t)[Len(pre) + j] = t[j]
          /\ \A i \in 1 .. Len(pre) + Len(t) :
               i \in 1 .. Len(pre) \/ \E j \in 1 .. Len(t) : i = Len(pre) + j
      <4>1. pre \in Seq(Entries) /\ t \in Seq(Entries)
        BY <2>2, <2>3
      <4>2. pre \o t \in Seq(Entries) /\ Len(pre \o t) = Len(pre) + Len(t)
        BY <4>1, QuietCat
      <4>3. \A i \in 1 .. Len(pre) : (pre \o t)[i] = pre[i]
        BY <4>1, QuietCat
      <4>4. \A j \in 1 .. Len(t) : (pre \o t)[Len(pre) + j] = t[j]
        BY <4>1, QuietCat
      <4>5. \A i \in 1 .. Len(pre) + Len(t) :
              i \in 1 .. Len(pre) \/ \E j \in 1 .. Len(t) : i = Len(pre) + j
        BY <4>1, QuietCat
      <4> QED
        BY <4>2, <4>3, <4>4, <4>5
    <3> QED
      BY <2>2, <2>3, <3>1
  <2> DEFINE v == pre \o t
  <2> HIDE DEF v
  <2> v \in Seq(Entries)
    BY <2>4 DEF v
  <2>5. /\ Len(ToRead \o v) = Len(ToRead) + Len(v)
        /\ \A i \in 1 .. Len(ToRead) : (ToRead \o v)[i] = ToRead[i]
        /\ \A j \in 1 .. Len(v) : (ToRead \o v)[Len(ToRead) + j] = v[j]
        /\ \A i \in 1 .. Len(ToRead) + Len(v) :
             i \in 1 .. Len(ToRead) \/ \E j \in 1 .. Len(v) : i = Len(ToRead) + j
    BY <2>1, QuietCat
  <2>6. ToRead' = ToRead \o v /\ \A j \in 1 .. Len(v) : v[j] = Reset
    BY <2>1, <2>4 DEF v
  <2> SUFFICES ASSUME NEW i \in 1 .. Len(ToRead') PROVE ToRead'[i] = Reset
    OBVIOUS
  <2>7. i \in 1 .. Len(ToRead) \/ \E j \in 1 .. Len(v) : i = Len(ToRead) + j
    BY <2>5, <2>6
  <2> QED
    BY <2>1, <2>5, <2>6, <2>7
<1> QED
  BY <1>1, <1>2

\* Once a reset is written, what comes after it no longer matters to the client.
LEMMA ResetNow ==
  ASSUME FollowInv, NEW t \in Seq(Entries), client' = client,
         client.mode # "told" /\ Fed' =>
            Fed /\ ToRead \in Seq(Entries) /\ ToRead' = ToRead \o (<<Reset>> \o t)
  PROVE  FollowInv'
<1> SUFFICES ASSUME client.mode = "live", Fed'
             PROVE  /\ Continues(ToRead', client.gen, client.seq)
                    /\ ~Quiet(ToRead', Len(ToRead'))
  BY DEF FollowInv
<1> DEFINE v == <<Reset>> \o t
<1>1. /\ Fed /\ ToRead \in Seq(Entries) /\ ToRead' = ToRead \o v
      /\ Continues(ToRead, client.gen, client.seq)
  BY DEF FollowInv
<1>2. <<Reset>> \in Seq(Entries) /\ Len(<<Reset>>) = 1 /\ <<Reset>>[1] = Reset
  BY EntryFacts
<1>3. v \in Seq(Entries) /\ Len(v) = 1 + Len(t) /\ v[1] = Reset /\ Len(t) \in Nat
  BY <1>2, ConcatProperties
<1> HIDE DEF v
<1>4. \A i \in 1 .. Len(v) : ~Quiet(v, i)
  BY <1>3 DEF Quiet
<1>5. Follows(ToRead, v, client.gen, client.seq)
  BY <1>4 DEF Follows
<1>6. Continues(ToRead', client.gen, client.seq)
  BY <1>1, <1>3, <1>5, ContinuesOn
<1>7. ~Quiet(ToRead', Len(ToRead'))
  <2>1. Quiet(ToRead', Len(ToRead')) <=> Quiet(ToRead, Len(ToRead)) /\ Quiet(v, Len(v))
    BY <1>1, <1>3, QuietCat
  <2> QED
    BY <1>3, <1>4, <2>1
<1> QED
  BY <1>6, <1>7

\* What a delivery leaves in the route and among the early frames Hermes has sent.
LEMMA StillPast ==
  ASSUME ReplayTypes, NEW st, NEW pre, NEW es, NEW r, NEW t, TakesIn(st, pre, es, r, t),
         hermes' = hermes, st.gen = 0 => st.seq = 0, st.gen # 0 => Past(st),
         \A i \in 1 .. Len(st.early) : Past(st.early[i]),
         \A j \in 1 .. Len(es) : Past(es[j])
  PROVE  /\ route' \in [gen : 0 .. MaxRuntimes, seq : 0 .. MaxEvents] /\ route'.gen = st.gen
         /\ early' \in Seq(Numbered) /\ Len(early') <= EarlyLimit
         /\ (route' = [gen |-> 0, seq |-> 0] \/ (route'.gen # 0 /\ Past(route)'))
         /\ \A i \in 1 .. Len(early') : Past(early[i])'
<1>1. /\ Reached(st, es, Len(es), r) /\ st \in Loops /\ es \in Seq(Numbered)
      /\ route' = [gen |-> st.gen, seq |-> r.seq] /\ early' = r.early
  BY DEF TakesIn, Took
<1>2. /\ r \in Loops /\ Len(r.early) <= EarlyLimit
      /\ r.seq = st.seq \/ \E j \in 1 .. Len(es) : es[j].gen = st.gen /\ r.seq = es[j].seq
      /\ \A i \in 1 .. Len(r.early) :
           \/ \E j \in 1 .. Len(st.early) : r.early[i] = st.early[j]
           \/ \E j \in 1 .. Len(es) : r.early[i] = es[j]
  BY <1>1 DEF Reached
<1>3. /\ route' \in [gen : 0 .. MaxRuntimes, seq : 0 .. MaxEvents] /\ route'.gen = st.gen
      /\ route'.seq = r.seq
      /\ early' \in Seq(Numbered) /\ Len(early') <= EarlyLimit
  BY <1>1, <1>2 DEF Loops
<1>4. Past(route)' <=> Past([gen |-> st.gen, seq |-> r.seq])
  BY <1>1 DEF Past, Now
<1>5. (route' = [gen |-> 0, seq |-> 0] \/ (route'.gen # 0 /\ Past(route)'))
  <2>1. \A j \in 1 .. Len(es) : es[j] \in Numbered /\ es[j].gen # 0
    BY <1>1, EntryFacts
  <2>2. CASE st.gen = 0
    <3>1. ~\E j \in 1 .. Len(es) : es[j].gen = st.gen /\ r.seq = es[j].seq
      BY <2>1, <2>2
    <3>2. r.seq = 0
      BY <1>2, <2>2, <3>1
    <3>3. route' = [gen |-> st.gen, seq |-> r.seq]
      BY <1>1
    <3>4. route' = [gen |-> 0, seq |-> 0]
      BY <2>2, <3>2, <3>3, Zenon
    <3> QED
      BY <3>4, Zenon
  <2>3. CASE st.gen # 0
    <3>1. CASE r.seq = st.seq
      BY <1>1, <1>4, <2>3, <3>1 DEF Past, Now
    <3>2. CASE r.seq # st.seq
      <4>1. PICK j \in 1 .. Len(es) : es[j].gen = st.gen /\ r.seq = es[j].seq
        BY <1>2, <3>2
      <4>2. Past(es[j])
        OBVIOUS
      <4> QED
        BY <1>1, <1>4, <2>3, <4>1, <4>2 DEF Past, Now
    <3> QED
      BY <3>1, <3>2
  <2> QED
    BY <2>2, <2>3
<1>6. \A i \in 1 .. Len(early') : Past(early[i])'
  <2> SUFFICES ASSUME NEW i \in 1 .. Len(early') PROVE Past(early[i])'
    OBVIOUS
  <2>1. Past(r.early[i])
    BY <1>1, <1>2
  <2> QED
    BY <1>1, <2>1 DEF Past, Now
<1> QED
  BY <1>3, <1>5, <1>6

\* An answer ends a call: nothing but events is on its way after it.
LEMMA AnswerTaken ==
  ASSUME ReplayTypes, WireInv, wire # <<>>, IsReply(Head(wire)), wire' = Tail(wire),
         hermes' = hermes
  PROVE  /\ wire' \in Seq(WireFrames) /\ WireInv'
         /\ \A m : (\E i \in 2 .. Len(wire) : wire[i] = Event(hermes.gen, m))
                     => \E i \in 1 .. Len(wire') : wire'[i] = Event(hermes.gen, m)
<1>1. /\ wire' \in Seq(WireFrames) /\ Len(wire') = Len(wire) - 1 /\ Len(wire) \in Nat
      /\ Len(wire) > 0 /\ Head(wire) = wire[1]
      /\ \A i \in 1 .. Len(wire') : wire'[i] = wire[i + 1]
  BY HeadTailProperties, EmptySeq DEF ReplayTypes
<1>2. \A i \in 1 .. Len(wire') : i + 1 \in 1 .. Len(wire) /\ 1 < i + 1
  BY <1>1
<1>3. ~IsReply(wire[1]) <=> FALSE
  BY <1>1
<1>4. \A i \in 1 .. Len(wire') : ~IsReply(wire'[i]) /\ Now(wire[i])' /\ wire'[i].seq > 0
  <2> SUFFICES ASSUME NEW i \in 1 .. Len(wire')
               PROVE  ~IsReply(wire'[i]) /\ Now(wire[i])' /\ wire'[i].seq > 0
    OBVIOUS
  <2>1. 1 \in 1 .. Len(wire) /\ i + 1 \in 1 .. Len(wire) /\ 1 < i + 1
    BY <1>1, <1>2
  <2>2. ~IsReply(wire[i + 1])
    BY <1>3, <2>1 DEF WireInv
  <2>3. Now(wire[i + 1]) /\ wire[i + 1].seq > 0
    BY <2>1, <2>2 DEF WireInv
  <2> QED
    BY <1>1, <2>2, <2>3 DEF Now
<1>5. \A i, j \in 1 .. Len(wire') : i < j => wire'[i].seq < wire'[j].seq
  <2> SUFFICES ASSUME NEW i \in 1 .. Len(wire'), NEW j \in 1 .. Len(wire'), i < j
               PROVE  wire'[i].seq < wire'[j].seq
    OBVIOUS
  <2>1. i + 1 \in 1 .. Len(wire) /\ j + 1 \in 1 .. Len(wire) /\ i + 1 < j + 1
    BY <1>2
  <2>2. ~IsReply(wire[i + 1]) /\ ~IsReply(wire[j + 1])
    BY <1>1, <1>4
  <2>3. wire[i + 1].seq < wire[j + 1].seq
    BY <2>1, <2>2 DEF WireInv
  <2> QED
    BY <1>1, <2>3
<1>6. WireInv'
  <2>1. ASSUME NEW i \in 1 .. Len(wire')
        PROVE  /\ ~IsReply(wire'[i]) => Now(wire[i])' /\ wire'[i].seq > 0
               /\ wire'[i].kind = "event"
    BY <1>4 DEF IsReply
  <2> QED
    BY <1>5, <2>1 DEF WireInv, IsReply, Numbering
<1>7. ASSUME NEW m, NEW i \in 2 .. Len(wire), wire[i] = Event(hermes.gen, m)
      PROVE  \E k \in 1 .. Len(wire') : wire'[k] = Event(hermes.gen, m)
  <2>1. i - 1 \in 1 .. Len(wire') /\ (i - 1) + 1 = i
    BY <1>1
  <2> QED
    BY <1>1, <1>7, <2>1
<1> QED
  BY <1>1, <1>6, <1>7

-----------------------------------------------------------------------------
(* Hermes, and calls of the broker                                         *)

\* Neither the route nor what the client reads is touched.
Aside == UNCHANGED <<route, early, chan, flight, client>>

\* What is on its way to the broker covers a client the route has no number for.
Covers ==
  client.mode = "live" /\ Fed /\ Synced /\ link' = "up" /\ route.seq = 0 =>
     \A m \in client.seq + 1 .. hermes'.seq :
        \E i \in 1 .. Len(wire') : wire'[i] = Event(hermes'.gen, m)

LEMMA AsideKeeps ==
  ASSUME StreamInv, JoinInv, FollowInv, Aside, Covers
  PROVE  StreamInv' /\ JoinInv' /\ FollowInv'
<1>1. UNCHANGED <<route, early, chan, flight, client>>
  BY DEF Aside
<1>2. ToRead' = ToRead /\ (Fed' <=> Fed)
  BY <1>1 DEF ToRead, Fed, Streaming, Covered
<1>3. StreamInv'
  BY <1>1 DEF StreamInv, Streaming, LastId
<1>4. JoinInv'
  BY <1>1, <1>2 DEF JoinInv
<1>5. FollowInv'
  <2> SUFFICES ASSUME client.mode = "live", Fed
               PROVE  /\ Continues(ToRead, client.gen, client.seq)
                      /\ Quiet(ToRead, Len(ToRead)) => InStep'
    BY <1>1, <1>2 DEF FollowInv
  <2>1. Continues(ToRead, client.gen, client.seq)
    BY DEF FollowInv
  <2>2. ASSUME Quiet(ToRead, Len(ToRead)) PROVE InStep'
    <3>1. Synced /\ InStep
      BY <2>2 DEF FollowInv, Synced
    <3>2. link' = "up" /\ route.seq = 0 =>
            \A m \in client.seq + 1 .. hermes'.seq :
               \E i \in 1 .. Len(wire') : wire'[i] = Event(hermes'.gen, m)
      BY <3>1 DEF Covers
    <3> QED
      BY <1>1, <1>2, <3>1, <3>2 DEF InStep
  <2> QED
    BY <2>1, <2>2
<1> QED
  BY <1>3, <1>4, <1>5

\* Nothing changes but what Hermes may replay, and whether it has the session.
LEMMA WaitsOn ==
  ASSUME ReplayInv, Aside, UNCHANGED <<wire, link>>,
         hermes'.gen = hermes.gen, hermes'.seq = hermes.seq
  PROVE  StreamInv' /\ JoinInv' /\ FollowInv'
<1>1. Covers
  BY DEF Covers, Synced, InStep
<1> QED
  BY <1>1, AsideKeeps DEF ReplayInv

LEMMA ForgetKeeps ==
  ASSUME ReplayInv, Forget \/ Delete
  PROVE  ReplayInv'
<1>1. /\ UNCHANGED <<wire, asked, link, route, deferred, early, chan, flight, client>>
      /\ faults' = faults + 1
      /\ hermes' \in [gen : 1 .. MaxRuntimes, seq : 0 .. MaxEvents, ring : Nat, gone : BOOLEAN]
      /\ hermes'.gen = hermes.gen /\ hermes'.seq = hermes.seq
  <2>1. hermes \in [gen : 1 .. MaxRuntimes, seq : 0 .. MaxEvents, ring : Nat, gone : BOOLEAN]
    BY DEF ReplayInv, ReplayTypes
  <2>2. hermes.seq \in Nat
    BY <2>1, ReplayAssumption
  <2> QED
    BY <2>1, <2>2 DEF Forget, Delete, brokerVars
<1>2. ReplayTypes'
  BY <1>1 DEF ReplayInv, ReplayTypes
<1>4. RouteInv'
  BY <1>1 DEF ReplayInv, RouteInv, Past, Now, Recovering
<1>5. WireInv'
  BY <1>1 DEF ReplayInv, WireInv, Now, Divides
<1>6. StreamInv' /\ JoinInv' /\ FollowInv'
  BY <1>1, WaitsOn DEF Aside
<1> QED
  BY <1>2, <1>4, <1>5, <1>6 DEF ReplayInv

\* A frame is added at the end of the wire.
LEMMA WireAppend ==
  ASSUME ReplayTypes, NEW f \in WireFrames, wire' = Append(wire, f)
  PROVE  /\ wire' \in Seq(WireFrames) /\ Len(wire') = Len(wire) + 1 /\ Len(wire) \in Nat
         /\ wire'[Len(wire) + 1] = f
         /\ \A i \in 1 .. Len(wire) : wire'[i] = wire[i]
         /\ \A i \in 1 .. Len(wire') : i \in 1 .. Len(wire) \/ i = Len(wire) + 1
<1>1. wire \in Seq(WireFrames) /\ Len(wire) \in Nat
  BY DEF ReplayTypes
<1> QED
  BY <1>1

LEMMA Numbers ==
  ASSUME ReplayTypes
  PROVE  /\ hermes.gen \in Nat /\ hermes.seq \in Nat /\ hermes.gen > 0
         /\ hermes.gen \in 1 .. MaxRuntimes /\ hermes.seq \in 0 .. MaxEvents
         /\ \A i \in 1 .. Len(wire) : wire[i] \in WireFrames /\ wire[i].seq \in Nat
         /\ \A i \in 1 .. Len(early) : early[i] \in Numbered /\ early[i].seq \in Nat
         /\ \A i \in 1 .. Len(deferred) : deferred[i] \in Numbered /\ deferred[i].seq \in Nat
         /\ route.gen \in Nat /\ route.seq \in Nat /\ client.gen \in Nat /\ client.seq \in Nat
         /\ MaxRuntimes \in Nat /\ MaxEvents \in Nat
<1>1. MaxRuntimes \in Nat /\ MaxEvents \in Nat
  BY ReplayAssumption
<1>2. /\ hermes.gen \in 1 .. MaxRuntimes /\ hermes.seq \in 0 .. MaxEvents
      /\ route.gen \in 0 .. MaxRuntimes /\ route.seq \in 0 .. MaxEvents
      /\ client.gen \in 0 .. MaxRuntimes /\ client.seq \in 0 .. MaxEvents
      /\ wire \in Seq(WireFrames) /\ early \in Seq(Numbered) /\ deferred \in Seq(Numbered)
  BY DEF ReplayTypes
<1>3. \A i \in 1 .. Len(wire) : wire[i] \in WireFrames /\ wire[i].seq \in Nat
  <2>1. \A f \in WireFrames : f.seq \in 0 .. MaxEvents
    BY DEF WireFrames
  <2>2. \A f \in WireFrames : f.seq \in Nat
    BY <1>1, <2>1
  <2>3. \A i \in 1 .. Len(wire) : wire[i] \in WireFrames
    BY <1>2
  <2> QED
    BY <2>2, <2>3
<1>4. \A i \in 1 .. Len(early) : early[i] \in Numbered /\ early[i].seq \in Nat
  BY <1>2, EntryFacts
<1>5. \A i \in 1 .. Len(deferred) : deferred[i] \in Numbered /\ deferred[i].seq \in Nat
  BY <1>2, EntryFacts
<1>6. /\ hermes.gen \in Nat /\ hermes.seq \in Nat /\ hermes.gen > 0
      /\ route.gen \in Nat /\ route.seq \in Nat /\ client.gen \in Nat /\ client.seq \in Nat
  BY <1>1, <1>2
<1> QED
  BY <1>1, <1>2, <1>3, <1>4, <1>5, <1>6, Zenon

LEMMA PublishKeeps ==
  ASSUME ReplayInv, Publish
  PROVE  ReplayInv'
<1> DEFINE e == Event(hermes.gen, hermes.seq + 1)
<1>1. /\ UNCHANGED <<asked, link, route, deferred, early, chan, flight, client, faults>>
      /\ hermes' = [hermes EXCEPT !.seq = @ + 1] /\ hermes.seq < MaxEvents
      /\ \/ link # "down" /\ wire' = Append(wire, e)
         \/ link \in {"down", "resume"} /\ wire' = wire
  BY DEF Publish, brokerVars
<1>2. ReplayTypes /\ RouteInv /\ WireInv /\ StreamInv /\ JoinInv /\ FollowInv
  BY DEF ReplayInv
<1>3. /\ hermes'.gen = hermes.gen /\ hermes'.seq = hermes.seq + 1
      /\ hermes' \in [gen : 1 .. MaxRuntimes, seq : 0 .. MaxEvents, ring : Nat, gone : BOOLEAN]
      /\ hermes.seq \in Nat /\ hermes.gen \in 1 .. MaxRuntimes
  <2>1. hermes \in [gen : 1 .. MaxRuntimes, seq : 0 .. MaxEvents, ring : Nat, gone : BOOLEAN]
    BY <1>2 DEF ReplayTypes
  <2>2. hermes.seq \in Nat /\ MaxEvents \in Nat
    BY <1>2, Numbers
  <2>3. hermes.seq + 1 \in 0 .. MaxEvents
    BY <1>1, <2>2
  <2> QED
    BY <1>1, <2>1, <2>2, <2>3
<1>4. /\ e \in WireFrames /\ e.kind = "event" /\ e.gen = hermes.gen /\ e.seq = hermes.seq + 1
      /\ ~IsReply(e) /\ ~Numbering(e)
  <2>1. hermes.gen \in 0 .. MaxRuntimes /\ hermes.seq + 1 \in 0 .. MaxEvents
    BY <1>2, <1>3, Numbers
  <2> QED
    BY <2>1 DEF Event, Frame, WireFrames, IsReply, Numbering
<1> HIDE DEF e
<1>5. \A x : Now(x) /\ x.seq \in Nat => Now(x)'
  BY <1>3 DEF Now
<1>6. ReplayTypes'
  <2>1. wire' \in Seq(WireFrames)
    BY <1>1, <1>2, <1>4, WireAppend DEF ReplayTypes
  <2> QED
    BY <1>1, <1>2, <1>3, <2>1 DEF ReplayTypes
<1>7. RouteInv'
  <2>1. link = "down" => wire' = <<>>
    BY <1>1, <1>2 DEF RouteInv
  <2>2. \/ route = [gen |-> 0, seq |-> 0]
        \/ route.gen # 0 /\ Past(route)'
    <3>1. route.seq \in Nat
      BY <1>2, Numbers
    <3> QED
      BY <1>1, <1>2, <1>3, <3>1 DEF RouteInv, Past, Now
  <2>3. \A i \in 1 .. Len(early) : Past(early[i])'
    <3>1. \A i \in 1 .. Len(early) : early[i].seq \in Nat /\ Past(early[i])
      BY <1>2, Numbers DEF RouteInv
    <3> QED
      BY <1>1, <1>3, <3>1 DEF Past, Now
  <2>4. \A i \in 1 .. Len(deferred) : Now(deferred[i])'
    <3>1. \A i \in 1 .. Len(deferred) : deferred[i].seq \in Nat /\ Now(deferred[i])
      BY <1>2, Numbers DEF RouteInv
    <3> QED
      BY <1>1, <1>3, <3>1 DEF Now
  <2> QED
    BY <1>1, <1>2, <1>3, <2>1, <2>2, <2>3, <2>4 DEF RouteInv, Recovering
<1>8. CASE link # "down" /\ wire' = Append(wire, e)
  <2>1. /\ Len(wire') = Len(wire) + 1 /\ Len(wire) \in Nat
        /\ wire'[Len(wire) + 1] = e
        /\ \A i \in 1 .. Len(wire) : wire'[i] = wire[i] /\ i \in 1 .. Len(wire')
        /\ \A i \in 1 .. Len(wire') : i \in 1 .. Len(wire) \/ i = Len(wire) + 1
        /\ Len(wire) + 1 \in 1 .. Len(wire')
    BY <1>2, <1>4, <1>8, WireAppend
  <2>2. ASSUME NEW k \in 1 .. Len(wire), Numbering(wire[k])
        PROVE  Divides(k)'
    <3>1. Divides(k) /\ wire[k].seq \in Nat
      BY <1>2, <2>2, Numbers DEF WireInv
    <3>2. Now(wire[k])'
      BY <1>3, <2>1, <3>1 DEF Now, Divides
    <3>3. \A i \in 1 .. k - 1 : wire'[i].seq <= wire'[k].seq
      <4>1. \A i \in 1 .. k - 1 : i \in 1 .. Len(wire)
        BY <2>1
      <4> QED
        BY <2>1, <3>1, <4>1 DEF Divides
    <3>4. ASSUME NEW m \in wire[k].seq + 1 .. hermes'.seq
          PROVE  \E i \in k + 1 .. Len(wire') : wire'[i] = Event(hermes'.gen, m)
      <4>1. CASE m = hermes.seq + 1
        <5>1. Len(wire) + 1 \in k + 1 .. Len(wire')
          BY <2>1
        <5> QED
          BY <1>3, <2>1, <4>1, <5>1 DEF e
      <4>2. CASE m # hermes.seq + 1
        <5>1. m \in wire[k].seq + 1 .. hermes.seq
          BY <1>3, <3>1, <4>2
        <5>2. PICK i \in k + 1 .. Len(wire) : wire[i] = Event(hermes.gen, m)
          BY <3>1, <5>1 DEF Divides
        <5>3. i \in 1 .. Len(wire) /\ i \in k + 1 .. Len(wire')
          BY <2>1
        <5> QED
          BY <1>3, <2>1, <5>2, <5>3
      <4> QED
        BY <4>1, <4>2
    <3>5. /\ \A i \in 1 .. Len(early) : early[i].gen = hermes.gen => early[i].seq <= wire[k].seq
          /\ \A i \in 1 .. Len(deferred) : deferred[i].seq <= wire[k].seq
          /\ route.gen = hermes.gen => route.seq <= wire[k].seq
      BY <3>1 DEF Divides
    <3> QED
      BY <1>1, <1>3, <2>1, <3>2, <3>3, <3>4, <3>5 DEF Divides
  <2>3. ASSUME NEW i \in 1 .. Len(wire')
        PROVE  /\ ~IsReply(wire'[i]) => Now(wire[i])' /\ wire'[i].seq > 0
               /\ IsReply(wire'[i]) => asked' = "answered"
               /\ wire'[i].kind = "resumed" => link' = "resume" /\ wire'[i].gen = hermes'.gen
               /\ wire'[i].kind \in {"replay", "truncated"} => link' = "since"
               /\ wire'[i].kind \in {"join", "reopen"} => link' = "up"
               /\ Numbering(wire'[i]) => Divides(i)'
    <3>1. CASE i \in 1 .. Len(wire)
      <4>1. wire'[i] = wire[i] /\ wire[i].seq \in Nat
        BY <1>2, <2>1, <3>1, Numbers
      <4>2. Now(wire[i]) => Now(wire[i])'
        BY <1>3, <4>1 DEF Now
      <4>3. /\ ~IsReply(wire[i]) => Now(wire[i]) /\ wire[i].seq > 0
            /\ IsReply(wire[i]) => asked = "answered"
            /\ wire[i].kind = "resumed" => link = "resume" /\ wire[i].gen = hermes.gen
            /\ wire[i].kind \in {"replay", "truncated"} => link = "since"
            /\ wire[i].kind \in {"join", "reopen"} => link = "up"
        BY <1>2, <3>1 DEF WireInv
      <4>4. Numbering(wire[i]) => Divides(i)'
        BY <2>2, <3>1
      <4> QED
        BY <1>1, <1>3, <4>1, <4>2, <4>3, <4>4
    <3>2. CASE i = Len(wire) + 1
      <4>1. wire'[i] = e
        BY <2>1, <3>2
      <4>2. Now(wire[i])'
        BY <1>3, <1>4, <4>1 DEF Now
      <4> QED
        BY <1>3, <1>4, <4>1, <4>2
    <3> QED
      BY <2>1, <3>1, <3>2
  <2>4. ASSUME NEW i \in 1 .. Len(wire'), NEW j \in 1 .. Len(wire'), i < j
        PROVE  /\ ~IsReply(wire'[i]) /\ ~IsReply(wire'[j]) => wire'[i].seq < wire'[j].seq
               /\ IsReply(wire'[i]) => ~IsReply(wire'[j])
    <3>1. i \in 1 .. Len(wire) /\ wire'[i] = wire[i]
      BY <2>1, <2>4
    <3>2. CASE j \in 1 .. Len(wire)
      BY <1>2, <2>1, <2>4, <3>1, <3>2 DEF WireInv
    <3>3. CASE j = Len(wire) + 1
      <4>1. wire'[j] = e
        BY <2>1, <3>3
      <4>2. ~IsReply(wire[i]) => wire[i].seq <= hermes.seq /\ wire[i].seq \in Nat
        BY <1>2, <3>1, Numbers DEF WireInv, Now
      <4> QED
        BY <1>3, <1>4, <3>1, <4>1, <4>2
    <3> QED
      BY <2>1, <3>2, <3>3
  <2>5. WireInv'
    BY <2>3, <2>4 DEF WireInv
  <2>6. Covers
    <3> SUFFICES ASSUME client.mode = "live", Fed, Synced, link' = "up", route.seq = 0,
                        NEW m \in client.seq + 1 .. hermes'.seq
                 PROVE  \E i \in 1 .. Len(wire') : wire'[i] = Event(hermes'.gen, m)
      BY DEF Covers
    <3>1. CASE m = hermes.seq + 1
      BY <1>3, <2>1, <3>1 DEF e
    <3>2. CASE m # hermes.seq + 1
      <4>1. m \in client.seq + 1 .. hermes.seq
        <5>1. client.seq \in Nat
          BY <1>2, Numbers
        <5> QED
          BY <1>3, <3>2, <5>1
      <4>2. PICK i \in 1 .. Len(wire) : wire[i] = Event(hermes.gen, m)
        BY <1>1, <4>1 DEF Synced, InStep
      <4> QED
        BY <1>3, <2>1, <4>2
    <3> QED
      BY <3>1, <3>2
  <2> QED
    BY <1>1, <1>2, <1>6, <1>7, <2>5, <2>6, AsideKeeps DEF ReplayInv, Aside
<1>9. CASE link \in {"down", "resume"} /\ wire' = wire
  <2>1. \A i \in 1 .. Len(wire) : ~Numbering(wire[i])
    <3>1. link # "since" /\ link # "up"
      BY <1>9
    <3> QED
      BY <1>2, <3>1 DEF WireInv, Numbering
  <2>2. \A i \in 1 .. Len(wire) : Now(wire[i]) => Now(wire[i])'
    <3>1. \A i \in 1 .. Len(wire) : wire[i].seq \in Nat
      BY <1>2, Numbers
    <3> QED
      BY <1>3, <1>9, <3>1 DEF Now
  <2>3. WireInv'
    <3>1. ASSUME NEW i \in 1 .. Len(wire)
          PROVE  /\ ~IsReply(wire[i]) => Now(wire[i])' /\ wire[i].seq > 0
                 /\ IsReply(wire[i]) => asked = "answered"
                 /\ wire[i].kind = "resumed" => link = "resume" /\ wire[i].gen = hermes.gen
                 /\ wire[i].kind \in {"replay", "truncated"} => link = "since"
                 /\ wire[i].kind \in {"join", "reopen"} => link = "up"
      BY <1>2, <2>2 DEF WireInv
    <3>2. \A i, j \in 1 .. Len(wire) :
            i < j => /\ ~IsReply(wire[i]) /\ ~IsReply(wire[j]) => wire[i].seq < wire[j].seq
                     /\ IsReply(wire[i]) => ~IsReply(wire[j])
      BY <1>2 DEF WireInv
    <3> QED
      BY <1>1, <1>3, <1>9, <2>1, <3>1, <3>2 DEF WireInv
  <2>4. Covers
    BY <1>1, <1>9 DEF Covers
  <2> QED
    BY <1>1, <1>2, <1>6, <1>7, <2>3, <2>4, AsideKeeps DEF ReplayInv, Aside
<1> QED
  BY <1>1, <1>8, <1>9

LEMMA NewRuntimeKeeps ==
  ASSUME ReplayInv, ~Rebinds, NewRuntime
  PROVE  ReplayInv'
<1>1. /\ UNCHANGED <<wire, asked, link, route, deferred, early, chan, flight, client>>
      /\ faults' = faults + 1 /\ link = "down" /\ hermes.gen < MaxRuntimes
      /\ hermes' = [hermes EXCEPT !.gen = @ + 1, !.seq = 0, !.ring = 0]
  BY DEF NewRuntime, brokerVars
<1>2. ReplayTypes /\ RouteInv /\ WireInv /\ StreamInv /\ JoinInv /\ FollowInv
  BY DEF ReplayInv
<1>3. /\ hermes.gen \in Nat /\ hermes'.gen = hermes.gen + 1 /\ hermes'.seq = 0
      /\ hermes' \in [gen : 1 .. MaxRuntimes, seq : 0 .. MaxEvents, ring : Nat, gone : BOOLEAN]
  <2>1. hermes \in [gen : 1 .. MaxRuntimes, seq : 0 .. MaxEvents, ring : Nat, gone : BOOLEAN]
    BY <1>2 DEF ReplayTypes
  <2>2. hermes.gen \in Nat /\ hermes.gen > 0 /\ MaxRuntimes \in Nat /\ MaxEvents \in Nat
    BY <1>2, Numbers
  <2>3. hermes.gen + 1 \in 1 .. MaxRuntimes /\ 0 \in 0 .. MaxEvents
    BY <1>1, <2>2
  <2> QED
    BY <1>1, <2>1, <2>2, <2>3
<1>4. ReplayTypes'
  <2>1. faults' \in Nat
    <3>1. faults \in Nat
      BY <1>2 DEF ReplayTypes
    <3>2. faults' = faults + 1
      BY <1>1
    <3> QED
      BY <3>1, <3>2
  <2> QED
    BY <1>1, <1>2, <1>3, <2>1, Zenon DEF ReplayTypes
<1>5. wire = <<>> /\ deferred = <<>>
  BY <1>1, <1>2 DEF RouteInv, Recovering
<1>6. RouteInv'
  <2>1. \/ route = [gen |-> 0, seq |-> 0]
        \/ route.gen # 0 /\ Past(route)'
    <3>1. route.gen \in Nat
      BY <1>2, Numbers
    <3> QED
      BY <1>1, <1>2, <1>3, <3>1 DEF RouteInv, Past, Now
  <2>2. \A i \in 1 .. Len(early) : Past(early[i])'
    <3> SUFFICES ASSUME NEW i \in 1 .. Len(early) PROVE Past(early[i])'
      OBVIOUS
    <3>1. early[i].gen \in Nat /\ Past(early[i])
      BY <1>2, Numbers, EntryFacts DEF RouteInv
    <3> QED
      BY <1>1, <1>3, <3>1 DEF Past, Now
  <2> QED
    BY <1>1, <1>2, <1>5, <2>1, <2>2 DEF RouteInv, Recovering
<1>7. WireInv'
  <2>1. Len(wire') = 0
    BY <1>1, <1>5
  <2> QED
    BY <2>1 DEF WireInv
<1>8. Covers
  BY <1>1 DEF Covers
<1> QED
  BY <1>1, <1>2, <1>4, <1>6, <1>7, <1>8, AsideKeeps DEF ReplayInv, Aside

\* Hermes answers: it has sent all its events before.
LEMMA AnswersKeep ==
  ASSUME ReplayInv, HermesAnswers
  PROVE  ReplayInv'
<1>1. /\ UNCHANGED <<hermes, link, route, deferred, early, chan, flight, client, faults>>
      /\ asked \in {"resume", "since", "join", "reopen"} /\ asked' = "answered"
      /\ wire' = Append(wire, HermesReply)
  BY DEF HermesAnswers, brokerVars
<1>2. ReplayTypes /\ RouteInv /\ WireInv /\ StreamInv /\ JoinInv /\ FollowInv
  BY DEF ReplayInv
<1>3. /\ IsReply(HermesReply) /\ HermesReply \in WireFrames
      /\ HermesReply.kind = "resumed" => asked = "resume" /\ HermesReply.gen = hermes.gen
      /\ HermesReply.kind \in {"replay", "truncated"} => asked = "since"
      /\ HermesReply.kind \in {"join", "reopen"} => asked \in {"join", "reopen"}
      /\ Numbering(HermesReply) => HermesReply.gen = hermes.gen /\ HermesReply.seq = hermes.seq
  <2>1. /\ hermes.gone \in BOOLEAN /\ hermes.gen \in 0 .. MaxRuntimes /\ 0 \in 0 .. MaxRuntimes
        /\ hermes.seq \in 0 .. MaxEvents /\ 0 \in 0 .. MaxEvents
    <3>1. MaxRuntimes \in Nat /\ MaxEvents \in Nat /\ hermes.gen \in 1 .. MaxRuntimes
      BY <1>2, Numbers
    <3> QED
      BY <1>2, <3>1 DEF ReplayTypes
  <2>2. CASE hermes.gone
    <3>1. HermesReply = Frame("missing", 0, 0)
      BY <2>2 DEF HermesReply
    <3> QED
      BY <2>1, <3>1 DEF Frame, WireFrames, IsReply, Numbering
  <2>3. CASE ~hermes.gone /\ asked = "resume"
    <3>1. HermesReply = Frame("resumed", hermes.gen, 0)
      BY <2>3 DEF HermesReply
    <3> QED
      BY <2>1, <2>3, <3>1 DEF Frame, WireFrames, IsReply, Numbering
  <2>4. CASE ~hermes.gone /\ asked = "since"
    <3>1. HermesReply \in {Frame("replay", hermes.gen, hermes.seq), Frame("truncated", 0, 0)}
      BY <2>4 DEF HermesReply
    <3> QED
      BY <2>1, <2>4, <3>1 DEF Frame, WireFrames, IsReply, Numbering
  <2>5. CASE ~hermes.gone /\ asked \in {"join", "reopen"}
    <3>1. HermesReply = Frame(asked, hermes.gen, hermes.seq)
      BY <2>5 DEF HermesReply
    <3> QED
      BY <2>1, <2>5, <3>1 DEF Frame, WireFrames, IsReply, Numbering
  <2> QED
    BY <1>1, <2>1, <2>2, <2>3, <2>4, <2>5
<1> DEFINE f == HermesReply
<1>4. /\ wire' \in Seq(WireFrames) /\ Len(wire') = Len(wire) + 1 /\ Len(wire) \in Nat
      /\ wire'[Len(wire) + 1] = f
      /\ \A i \in 1 .. Len(wire) : wire'[i] = wire[i]
      /\ \A i \in 1 .. Len(wire') : i \in 1 .. Len(wire) \/ i = Len(wire) + 1
  BY <1>1, <1>2, <1>3, WireAppend
<1>5. \A i \in 1 .. Len(wire) : ~IsReply(wire[i]) /\ Now(wire[i]) /\ wire[i].seq > 0
  BY <1>1, <1>2 DEF WireInv
<1> HIDE DEF f
<1>6. ReplayTypes'
  BY <1>1, <1>2, <1>4 DEF ReplayTypes
<1>7. /\ asked = "resume" => link = "resume"
      /\ asked = "since" => link = "since"
      /\ asked \in {"join", "reopen"} => link = "up"
  BY <1>1, <1>2 DEF RouteInv, ReplayTypes
<1>8. RouteInv'
  <2>1. link # "down"
    BY <1>1, <1>2 DEF RouteInv
  <2> QED
    BY <1>1, <1>2, <1>7, <2>1 DEF RouteInv, Recovering, Past, Now
<1>9. ASSUME NEW k \in Nat, k = Len(wire) + 1, Numbering(f)
      PROVE  Divides(k)'
  <2>1. f.gen = hermes.gen /\ f.seq = hermes.seq /\ hermes.seq \in Nat
    BY <1>2, <1>3, <1>9, Numbers DEF f
  <2>2. \A i \in 1 .. Len(wire) : wire'[i].seq <= hermes.seq
    BY <1>4, <1>5 DEF Now
  <2>3. \A i \in 1 .. Len(early) : early[i].gen = hermes.gen => early[i].seq <= hermes.seq
    <3> SUFFICES ASSUME NEW i \in 1 .. Len(early), early[i].gen = hermes.gen
                 PROVE  early[i].seq <= hermes.seq
      OBVIOUS
    <3>1. Past(early[i]) /\ hermes.gen \in Nat
      BY <1>2, Numbers DEF RouteInv
    <3> QED
      BY <3>1 DEF Past, Now
  <2>4. \A i \in 1 .. Len(deferred) : deferred[i].seq <= hermes.seq
    BY <1>2 DEF RouteInv, Now
  <2>5. route.gen = hermes.gen => route.seq <= hermes.seq
    <3>1. hermes.gen \in Nat /\ hermes.gen > 0 /\ route.gen \in Nat
      BY <1>2, Numbers
    <3> QED
      BY <1>2, <3>1 DEF RouteInv, Past, Now
  <2>6. hermes.seq + 1 .. hermes.seq = {}
    BY <2>1
  <2>7. k - 1 = Len(wire) /\ wire'[k] = f
    BY <1>4, <1>9
  <2> QED
    BY <1>1, <1>4, <2>1, <2>2, <2>3, <2>4, <2>5, <2>6, <2>7 DEF Divides, Now
<1>10. WireInv'
  <2>1. ASSUME NEW i \in 1 .. Len(wire')
        PROVE  /\ ~IsReply(wire'[i]) => Now(wire[i])' /\ wire'[i].seq > 0
               /\ IsReply(wire'[i]) => asked' = "answered"
               /\ wire'[i].kind = "resumed" => link' = "resume" /\ wire'[i].gen = hermes'.gen
               /\ wire'[i].kind \in {"replay", "truncated"} => link' = "since"
               /\ wire'[i].kind \in {"join", "reopen"} => link' = "up"
               /\ Numbering(wire'[i]) => Divides(i)'
    <3>1. CASE i \in 1 .. Len(wire)
      <4>1. wire'[i] = wire[i] /\ ~IsReply(wire[i]) /\ Now(wire[i]) /\ wire[i].seq > 0
        BY <1>4, <1>5, <3>1
      <4>2. wire[i].kind = "event" /\ Now(wire[i])'
        BY <1>1, <4>1 DEF IsReply, Now
      <4> QED
        BY <1>1, <4>1, <4>2 DEF Numbering
    <3>2. CASE i = Len(wire) + 1
      <4>1. wire'[i] = f
        BY <1>4, <3>2
      <4>2. Numbering(wire'[i]) => Divides(i)'
        BY <1>9, <3>2, <4>1
      <4> QED
        BY <1>1, <1>3, <1>7, <4>1, <4>2 DEF f
    <3> QED
      BY <1>4, <3>1, <3>2
  <2>2. ASSUME NEW i \in 1 .. Len(wire'), NEW j \in 1 .. Len(wire'), i < j
        PROVE  /\ ~IsReply(wire'[i]) /\ ~IsReply(wire'[j]) => wire'[i].seq < wire'[j].seq
               /\ IsReply(wire'[i]) => ~IsReply(wire'[j])
    <3>1. i \in 1 .. Len(wire) /\ wire'[i] = wire[i] /\ ~IsReply(wire[i])
      BY <1>4, <1>5, <2>2
    <3>2. CASE j \in 1 .. Len(wire)
      BY <1>2, <1>4, <2>2, <3>1, <3>2 DEF WireInv
    <3>3. CASE j = Len(wire) + 1
      BY <1>3, <1>4, <3>1, <3>3 DEF f
    <3> QED
      BY <1>4, <3>2, <3>3
  <2> QED
    BY <2>1, <2>2 DEF WireInv
<1>11. Covers
  <2> SUFFICES ASSUME Synced, link' = "up", route.seq = 0,
                      NEW m \in client.seq + 1 .. hermes'.seq
               PROVE  \E i \in 1 .. Len(wire') : wire'[i] = Event(hermes'.gen, m)
    BY DEF Covers
  <2>1. PICK i \in 1 .. Len(wire) : wire[i] = Event(hermes.gen, m)
    BY <1>1 DEF Synced, InStep
  <2> QED
    BY <1>1, <1>4, <2>1
<1> QED
  BY <1>1, <1>2, <1>6, <1>8, <1>10, <1>11, AsideKeeps DEF ReplayInv, Aside

\* A call is sent, also the one that begins the recovery of a new socket.
LEMMA CallKeeps ==
  ASSUME ReplayInv, Connect \/ Reopen \/ Join
  PROVE  ReplayInv'
<1>1. /\ UNCHANGED <<hermes, wire, route, deferred, early, chan, flight, client, faults>>
      /\ \/ /\ link = "down" /\ route.gen = 0 /\ link' = "up" /\ asked' = "none"
         \/ /\ link = "down" /\ route.gen # 0 /\ link' = "resume" /\ asked' = "resume"
         \/ /\ link = "up" /\ asked = "none" /\ link' = "up" /\ asked' \in {"reopen", "join"}
  BY DEF Connect, Reopen, Join, brokerVars
<1>2. ReplayTypes /\ RouteInv /\ WireInv /\ StreamInv /\ JoinInv /\ FollowInv
  BY DEF ReplayInv
<1>3. ReplayTypes'
  BY <1>1, <1>2 DEF ReplayTypes
<1>4. RouteInv'
  BY <1>1, <1>2 DEF RouteInv, Recovering, Past, Now
<1>5. \A i \in 1 .. Len(wire) : ~IsReply(wire[i]) /\ ~Numbering(wire[i])
  BY <1>1, <1>2 DEF RouteInv, WireInv, IsReply, Numbering
<1>6. WireInv'
  <2>1. \A i \in 1 .. Len(wire) : wire[i].kind = "event"
    BY <1>5 DEF IsReply
  <2>2. \A i \in 1 .. Len(wire) : Now(wire[i]) /\ wire[i].seq > 0
    BY <1>2, <1>5 DEF WireInv
  <2>3. \A i, j \in 1 .. Len(wire) : i < j => wire[i].seq < wire[j].seq
    BY <1>2, <1>5 DEF WireInv
  <2> QED
    BY <1>1, <1>5, <2>1, <2>2, <2>3 DEF WireInv, Now
<1>7. Covers
  <2>1. Synced /\ link' = "up" => link = "up"
    BY <1>1 DEF Synced, InStep
  <2> QED
    BY <1>1, <2>1 DEF Covers, Synced, InStep
<1> QED
  BY <1>1, <1>2, <1>3, <1>4, <1>6, <1>7, AsideKeeps DEF ReplayInv, Aside

-----------------------------------------------------------------------------
(* The channel and the client                                              *)

\* Nothing changes but the channel, its stream and the client.
AtClient == UNCHANGED <<hermes, wire, asked, link, route, deferred, early>>

LEMMA BrokerAside ==
  ASSUME ReplayInv, AtClient
  PROVE  RouteInv' /\ WireInv'
<1>1. UNCHANGED <<hermes, wire, asked, link, route, deferred, early>>
  BY DEF AtClient
<1>2. RouteInv'
  BY <1>1 DEF ReplayInv, RouteInv, Recovering, Past, Now
<1>3. WireInv'
  BY <1>1 DEF ReplayInv, WireInv, Now, Divides
<1> QED
  BY <1>2, <1>3

\* The client reads on what it read before.
LEMMA SameUnread ==
  ASSUME ReplayInv, AtClient, client.mode # "told" /\ Fed' => Fed /\ ToRead' = ToRead,
         client'.mode = client.mode, client'.gen = client.gen, client'.seq = client.seq,
         chan'.joined = chan.joined
  PROVE  JoinInv' /\ FollowInv'
<1>1. UNCHANGED <<hermes, wire, link, route, early>>
  BY DEF AtClient
<1>2. JoinInv'
  BY DEF ReplayInv, JoinInv
<1>3. FollowInv'
  <2> SUFFICES ASSUME client.mode = "live", Fed'
               PROVE  /\ Continues(ToRead', client.gen, client.seq)
                      /\ Quiet(ToRead', Len(ToRead')) => InStep'
    BY DEF FollowInv
  <2>1. Fed /\ ToRead' = ToRead
    OBVIOUS
  <2>2. Continues(ToRead, client.gen, client.seq) /\ (Quiet(ToRead, Len(ToRead)) => InStep)
    BY <2>1 DEF ReplayInv, FollowInv
  <2>3. InStep => InStep'
    BY <1>1, <2>1 DEF InStep
  <2> QED
    BY <2>1, <2>2, <2>3
<1> QED
  BY <1>2, <1>3

LEMMA TrimKeeps ==
  ASSUME ReplayInv, Trim
  PROVE  ReplayInv'
<1>1. /\ AtClient /\ UNCHANGED <<flight, client, faults>> /\ chan.entries # <<>>
      /\ chan' = [chan EXCEPT !.entries = Tail(@), !.dropped = @ + 1]
  BY DEF Trim, brokerVars, AtClient
<1>2. ReplayTypes /\ StreamInv
  BY DEF ReplayInv
<1>3. /\ chan \in Channels /\ chan.entries \in Seq(Entries) /\ chan.dropped \in Nat
      /\ Len(chan.entries) <= KeepEntries /\ flight \in Seq(Entries) /\ KeepEntries \in Nat
  BY <1>2, ReplayAssumption DEF ReplayTypes, Channels
<1>4. /\ Len(chan.entries) \in Nat /\ Len(chan.entries) > 0
      /\ Tail(chan.entries) \in Seq(Entries) /\ Len(Tail(chan.entries)) = Len(chan.entries) - 1
      /\ \A i \in 1 .. Len(chan.entries) - 1 : Tail(chan.entries)[i] = chan.entries[i + 1]
  BY <1>1, <1>3, HeadTailProperties, EmptySeq
<1>5. /\ chan' \in Channels /\ chan'.open = chan.open /\ chan'.joined = chan.joined
      /\ chan'.dropped = chan.dropped + 1 /\ chan'.entries = Tail(chan.entries)
  <2>1. PICK es \in Seq(Entries) : es = Tail(chan.entries)
    BY <1>4
  <2>2. chan.dropped + 1 \in Nat
    BY <1>3
  <2>3. chan' = [chan EXCEPT !.entries = es, !.dropped = chan.dropped + 1]
    BY <1>1, <2>1
  <2> QED
    BY <1>3, <2>1, <2>2, <2>3 DEF Channels
<1>6. Shifts(chan.joined, <<>>, 1)
  <2>1. chan.entries \o <<>> = chan.entries /\ flight \o <<>> = flight
    BY <1>3, ConcatEmptySeq
  <2> QED
    BY <1>1, <1>4, <1>5, <2>1 DEF Shifts
<1>7. <<>> \in Seq(Entries) /\ chan.joined \in BOOLEAN
  BY <1>3 DEF Channels
<1>8. /\ StreamInv'
      /\ client.mode # "told" /\ Fed' => Fed /\ ToRead' = ToRead \o <<>>
  BY <1>1, <1>2, <1>6, <1>7, ChannelShifted
<1>9. client.mode # "told" /\ Fed' => Fed /\ ToRead' = ToRead
  BY <1>2, <1>8, UnreadFacts, ConcatEmptySeq
<1>10. ReplayTypes'
  <2>1. Len(chan'.entries) <= KeepEntries
    BY <1>3, <1>4, <1>5
  <2> QED
    BY <1>1, <1>2, <1>5, <2>1 DEF ReplayTypes, AtClient, Channels
<1>11. JoinInv' /\ FollowInv'
  BY <1>1, <1>5, <1>9, SameUnread
<1> QED
  BY <1>1, <1>8, <1>10, <1>11, BrokerAside DEF ReplayInv

LEMMA RemoveKeeps ==
  ASSUME ReplayInv, RemoveChannel
  PROVE  ReplayInv'
<1>1. /\ AtClient /\ UNCHANGED <<flight, client>> /\ faults' = faults + 1 /\ ~Streaming
      /\ chan' = [EmptyChannel EXCEPT !.open = FALSE]
  BY DEF RemoveChannel, brokerVars, AtClient
<1>2. chan' = [open |-> FALSE, joined |-> FALSE, dropped |-> 0, entries |-> <<>>]
  BY <1>1 DEF EmptyChannel
<1>3. /\ chan' \in [open : BOOLEAN, joined : BOOLEAN, dropped : Nat, entries : Seq(Entries)]
      /\ ~chan'.open /\ ~chan'.joined /\ Len(chan'.entries) = 0
  BY <1>2
<1>4. ReplayTypes'
  <2>1. Len(chan'.entries) <= KeepEntries
    BY <1>3, ReplayAssumption
  <2>2. faults' \in Nat
    <3>1. faults \in Nat
      BY DEF ReplayInv, ReplayTypes
    <3>2. faults' = faults + 1
      BY <1>1
    <3> QED
      BY <3>1, <3>2
  <2> QED
    BY <1>1, <1>3, <2>1, <2>2, Zenon DEF ReplayInv, ReplayTypes, AtClient
<1>5. ~Streaming' /\ ~Fed'
  BY <1>1, <1>3 DEF Fed, Covered, Streaming
<1>6. StreamInv'
  BY <1>1, <1>3, <1>5 DEF ReplayInv, StreamInv
<1>7. JoinInv' /\ FollowInv'
  BY <1>1, <1>3, <1>5 DEF JoinInv, FollowInv
<1> QED
  BY <1>1, <1>4, <1>6, <1>7, BrokerAside DEF ReplayInv

LEMMA OpenKeeps ==
  ASSUME ReplayInv, OpenChannel
  PROVE  ReplayInv'
<1>1. /\ AtClient /\ UNCHANGED faults /\ flight' = <<>> /\ chan' = EmptyChannel
      /\ client' = [client EXCEPT !.mode = "open", !.stream = TRUE, !.cursor = 0]
  BY DEF OpenChannel, brokerVars, AtClient
<1>2. chan' = [open |-> TRUE, joined |-> FALSE, dropped |-> 0, entries |-> <<>>]
  BY <1>1 DEF EmptyChannel
<1>3. /\ chan' \in [open : BOOLEAN, joined : BOOLEAN, dropped : Nat, entries : Seq(Entries)]
      /\ chan'.open /\ ~chan'.joined /\ chan'.dropped = 0 /\ Len(chan'.entries) = 0
      /\ flight' \in Seq(Entries) /\ Len(flight') = 0
  BY <1>1, <1>2
<1>4. /\ client'.mode = "open" /\ client'.stream /\ client'.cursor = 0
      /\ client' \in [mode : {"told", "open", "live"}, stream : BOOLEAN, cursor : Nat,
                      gen : 0 .. MaxRuntimes, seq : 0 .. MaxEvents]
  BY <1>1 DEF ReplayInv, ReplayTypes
<1>5. ReplayTypes'
  <2>1. Len(chan'.entries) <= KeepEntries
    BY <1>3, ReplayAssumption
  <2> QED
    BY <1>1, <1>3, <1>4, <2>1 DEF ReplayInv, ReplayTypes, AtClient
<1>6. StreamInv'
  BY <1>3, <1>4 DEF StreamInv, Streaming, LastId
<1>7. JoinInv' /\ FollowInv'
  <2>1. Len(ToRead') = 0
    BY <1>3, <1>4 DEF ToRead, Streaming
  <2> QED
    BY <1>3, <1>4, <2>1 DEF JoinInv, FollowInv
<1> QED
  BY <1>1, <1>5, <1>6, <1>7, BrokerAside DEF ReplayInv

LEMMA SuffixFacts ==
  ASSUME NEW es \in Seq(Entries), NEW m \in Nat, m <= Len(es)
  PROVE  /\ SubSeq(es, m + 1, Len(es)) \in Seq(Entries)
         /\ Len(SubSeq(es, m + 1, Len(es))) = Len(es) - m
         /\ \A i \in 1 .. Len(es) - m : SubSeq(es, m + 1, Len(es))[i] = es[m + i]
<1>1. Len(es) \in Nat /\ m + 1 \in 1 .. Len(es) + 1
  OBVIOUS
<1> DEFINE u == SubSeq(es, m + 1, Len(es))
<1>2. /\ u \in Seq(Entries)
      /\ Len(u) = IF m + 1 <= Len(es) THEN Len(es) - (m + 1) + 1 ELSE 0
      /\ \A i \in 1 .. Len(es) - (m + 1) + 1 : u[i] = es[(m + 1) + i - 1]
  BY <1>1, SubSeqProperties
<1> HIDE DEF u
<1>3. Len(es) - (m + 1) + 1 = Len(es) - m /\ Len(u) = Len(es) - m
  BY <1>1, <1>2
<1>4. \A i \in Nat : (m + 1) + i - 1 = m + i
  OBVIOUS
<1>5. ASSUME NEW i \in 1 .. Len(es) - m PROVE u[i] = es[m + i]
  <2>1. i \in 1 .. Len(es) - (m + 1) + 1 /\ i \in Nat
    BY <1>3
  <2>2. u[i] = es[(m + 1) + i - 1]
    BY <1>2, <2>1
  <2> QED
    BY <1>4, <2>1, <2>2
<1> QED
  BY <1>2, <1>3, <1>5 DEF u

LEMMA SubscribeKeeps ==
  ASSUME ReplayInv, Subscribe
  PROVE  ReplayInv'
<1>1. /\ AtClient /\ UNCHANGED <<chan, faults>> /\ client.mode # "told" /\ ~Streaming
      /\ \/ /\ Covered(client.cursor) /\ client' = [client EXCEPT !.stream = TRUE]
            /\ flight' = SubSeq(chan.entries, client.cursor - chan.dropped + 1,
                                Len(chan.entries))
         \/ client' = [client EXCEPT !.mode = "told"] /\ UNCHANGED flight
  BY DEF Subscribe, brokerVars, AtClient
<1>2. ReplayTypes /\ StreamInv /\ JoinInv /\ FollowInv
  BY DEF ReplayInv
<1>3. client \in [mode : {"told", "open", "live"}, stream : BOOLEAN, cursor : Nat,
                  gen : 0 .. MaxRuntimes, seq : 0 .. MaxEvents]
  BY <1>2 DEF ReplayTypes
<1>4. CASE /\ Covered(client.cursor) /\ client' = [client EXCEPT !.stream = TRUE]
           /\ flight' = SubSeq(chan.entries, client.cursor - chan.dropped + 1,
                               Len(chan.entries))
  <2>1. Fed /\ flight' = ToRead
    BY <1>1, <1>4 DEF Fed, ToRead
  <2>2. /\ ToRead \in Seq(Entries) /\ LastId \in Nat /\ client.cursor \in Nat
        /\ Len(ToRead) = LastId - client.cursor
        /\ \A i \in 1 .. Len(ToRead) : client.cursor + i > chan.dropped
             => ToRead[i] = chan.entries[client.cursor - chan.dropped + i]
    BY <1>1, <1>2, <2>1, UnreadFacts
  <2>3. /\ client'.mode = client.mode /\ client'.stream /\ client'.cursor = client.cursor
        /\ client'.gen = client.gen /\ client'.seq = client.seq
        /\ client' \in [mode : {"told", "open", "live"}, stream : BOOLEAN, cursor : Nat,
                        gen : 0 .. MaxRuntimes, seq : 0 .. MaxEvents]
    BY <1>3, <1>4
  <2>4. Fed' /\ ToRead' = ToRead
    BY <2>1, <2>3 DEF Fed, ToRead, Streaming
  <2>5. ReplayTypes'
    BY <1>1, <1>2, <2>1, <2>2, <2>3 DEF ReplayTypes, AtClient
  <2>6. StreamInv'
    <3>1. chan.open /\ LastId' = LastId /\ client.cursor + Len(ToRead) = LastId
      BY <1>1, <1>4, <2>2 DEF Covered, LastId
    <3>2. \A i \in 1 .. Len(ToRead) : client.cursor + i > chan.dropped
            => ToRead[i] = chan.entries[client.cursor + i - chan.dropped]
      <4>1. chan.dropped \in Nat
        BY <1>2 DEF ReplayTypes
      <4>2. \A i \in Nat : client.cursor + i - chan.dropped = client.cursor - chan.dropped + i
        BY <2>2, <4>1
      <4> QED
        BY <2>2, <4>2
    <3>3. client.cursor <= LastId
      BY <1>1, <1>2, <3>1 DEF StreamInv
    <3> QED
      BY <1>1, <2>1, <2>3, <3>1, <3>2, <3>3 DEF StreamInv, Streaming
  <2>7. JoinInv' /\ FollowInv'
    BY <1>1, <2>1, <2>3, <2>4, SameUnread
  <2> QED
    BY <1>1, <2>5, <2>6, <2>7, BrokerAside DEF ReplayInv
<1>5. CASE client' = [client EXCEPT !.mode = "told"] /\ UNCHANGED flight
  <2>1. /\ client'.mode = "told" /\ client'.stream = client.stream
        /\ client' \in [mode : {"told", "open", "live"}, stream : BOOLEAN, cursor : Nat,
                        gen : 0 .. MaxRuntimes, seq : 0 .. MaxEvents]
    BY <1>3, <1>5
  <2>2. ReplayTypes'
    BY <1>1, <1>2, <1>5, <2>1 DEF ReplayTypes, AtClient
  <2>3. StreamInv' /\ JoinInv' /\ FollowInv'
    BY <1>1, <2>1 DEF StreamInv, JoinInv, FollowInv, Streaming
  <2> QED
    BY <1>1, <2>2, <2>3, BrokerAside DEF ReplayInv
<1> QED
  BY <1>1, <1>4, <1>5

LEMMA StreamLostKeeps ==
  ASSUME ReplayInv, StreamLost
  PROVE  ReplayInv'
<1>1. /\ AtClient /\ UNCHANGED chan /\ faults' = faults + 1 /\ Streaming /\ flight' = <<>>
      /\ client' = [client EXCEPT !.stream = FALSE]
  BY DEF StreamLost, brokerVars, AtClient
<1>2. ReplayTypes /\ StreamInv /\ JoinInv /\ FollowInv
  BY DEF ReplayInv
<1>3. client \in [mode : {"told", "open", "live"}, stream : BOOLEAN, cursor : Nat,
                  gen : 0 .. MaxRuntimes, seq : 0 .. MaxEvents]
  BY <1>2 DEF ReplayTypes
<1>4. /\ client'.mode = client.mode /\ ~client'.stream /\ client'.cursor = client.cursor
      /\ client'.gen = client.gen /\ client'.seq = client.seq
      /\ client' \in [mode : {"told", "open", "live"}, stream : BOOLEAN, cursor : Nat,
                      gen : 0 .. MaxRuntimes, seq : 0 .. MaxEvents]
  BY <1>1, <1>3
<1>5. flight' \in Seq(Entries)
  BY <1>1
<1>6. ReplayTypes'
  <2>1. faults' \in Nat
    <3>1. faults \in Nat
      BY <1>2 DEF ReplayTypes
    <3>2. faults' = faults + 1
      BY <1>1
    <3> QED
      BY <3>1, <3>2
  <2> QED
    BY <1>1, <1>2, <1>4, <1>5, <2>1, Zenon DEF ReplayTypes, AtClient
<1>7. client.mode # "told" /\ Fed /\ chan.open /\ ~Streaming'
  BY <1>1, <1>2, <1>4 DEF StreamInv, Fed, Streaming
<1>8. /\ ToRead \in Seq(Entries) /\ LastId \in Nat /\ client.cursor \in Nat
      /\ Len(ToRead) = LastId - client.cursor
      /\ \A i \in 1 .. Len(ToRead) : client.cursor + i > chan.dropped
           => ToRead[i] = chan.entries[client.cursor - chan.dropped + i]
  BY <1>2, <1>7, UnreadFacts
<1>9. client.cursor <= LastId /\ LastId' = LastId
  BY <1>1, <1>2, <1>7 DEF StreamInv, LastId
<1>10. StreamInv'
  BY <1>1, <1>4, <1>7, <1>9 DEF StreamInv
<1>11. ASSUME Fed' PROVE ToRead' = ToRead
  <2> DEFINE m == client.cursor - chan.dropped
  <2>1. /\ chan.dropped <= client.cursor /\ chan.dropped \in Nat
        /\ chan.entries \in Seq(Entries) /\ Len(chan.entries) \in Nat
    BY <1>1, <1>2, <1>4, <1>7, <1>11 DEF Fed, Covered, ReplayTypes
  <2>2. /\ m \in Nat /\ m <= Len(chan.entries) /\ Len(ToRead) = Len(chan.entries) - m
        /\ \A i \in Nat \ {0} : client.cursor + i > chan.dropped
    <3>1. LastId = chan.dropped + Len(chan.entries) /\ client.cursor \in Nat
      BY <1>8 DEF LastId
    <3>2. m \in Nat /\ m <= Len(chan.entries)
      BY <1>9, <2>1, <3>1
    <3>3. Len(ToRead) = Len(chan.entries) - m
      BY <1>8, <2>1, <3>1
    <3>4. \A i \in Nat \ {0} : client.cursor + i > chan.dropped
      BY <2>1, <3>1
    <3> QED
      BY <3>2, <3>3, <3>4
  <2>3. \A i \in 1 .. Len(ToRead) : ToRead[i] = chan.entries[m + i]
    BY <1>8, <2>2
  <2>4. ToRead' = SubSeq(chan.entries, m + 1, Len(chan.entries))
    BY <1>1, <1>4, <1>7 DEF ToRead
  <2> HIDE DEF m
  <2>5. /\ ToRead' \in Seq(Entries) /\ Len(ToRead') = Len(chan.entries) - m
        /\ \A i \in 1 .. Len(chan.entries) - m : ToRead'[i] = chan.entries[m + i]
    BY <2>1, <2>2, <2>4, SuffixFacts
  <2> QED
    BY <1>8, <2>2, <2>3, <2>5, SeqEqual
<1>12. JoinInv' /\ FollowInv'
  BY <1>1, <1>4, <1>7, <1>11, SameUnread
<1> QED
  BY <1>1, <1>6, <1>10, <1>12, BrokerAside DEF ReplayInv

\* The client reads an entry: a reset ends its stream, an event is the next one.
LEMMA ReadKeeps ==
  ASSUME ReplayInv, ReadEntry
  PROVE  ReplayInv'
<1> DEFINE f == Head(flight)
<1>1. /\ AtClient /\ UNCHANGED <<chan, faults>> /\ Streaming /\ flight # <<>>
      /\ flight' = Tail(flight)
      /\ client' = IF f.kind = "reset"
                   THEN [client EXCEPT !.mode = "told", !.stream = FALSE]
                   ELSE IF f.gen = client.gen /\ f.seq <= client.seq
                        THEN [client EXCEPT !.cursor = @ + 1]
                        ELSE [client EXCEPT !.cursor = @ + 1, !.gen = f.gen, !.seq = f.seq]
  BY DEF ReadEntry, brokerVars, AtClient
<1>2. ReplayTypes /\ StreamInv /\ JoinInv /\ FollowInv
  BY DEF ReplayInv
<1>3. /\ client \in [mode : {"told", "open", "live"}, stream : BOOLEAN, cursor : Nat,
                     gen : 0 .. MaxRuntimes, seq : 0 .. MaxEvents]
      /\ flight \in Seq(Entries)
  BY <1>2 DEF ReplayTypes
<1>4. /\ Len(flight) \in Nat /\ Len(flight) > 0 /\ f = flight[1] /\ f \in Entries
      /\ Tail(flight) \in Seq(Entries) /\ Len(Tail(flight)) = Len(flight) - 1
      /\ \A i \in 1 .. Len(flight) - 1 : Tail(flight)[i] = flight[i + 1]
  <2>1. /\ Len(flight) \in Nat /\ Len(flight) > 0 /\ f = flight[1]
        /\ Tail(flight) \in Seq(Entries) /\ Len(Tail(flight)) = Len(flight) - 1
        /\ \A i \in 1 .. Len(flight) - 1 : Tail(flight)[i] = flight[i + 1]
    BY <1>1, <1>3, HeadTailProperties, EmptySeq
  <2>2. 1 \in 1 .. Len(flight)
    BY <2>1
  <2>3. flight[1] \in Entries
    BY <1>3, <2>2, ElementOfSeq
  <2> QED
    BY <2>1, <2>3
<1>5. Fed /\ ToRead = flight /\ client.mode # "told"
  BY <1>1, <1>2 DEF Fed, ToRead, StreamInv
<1>6. CASE f = Reset
  <2>1. f.kind = "reset"
    BY <1>6 DEF Reset, Frame
  <2>2. /\ client'.mode = "told" /\ ~client'.stream
        /\ client' \in [mode : {"told", "open", "live"}, stream : BOOLEAN, cursor : Nat,
                        gen : 0 .. MaxRuntimes, seq : 0 .. MaxEvents]
    BY <1>1, <1>3, <2>1
  <2>3. ReplayTypes'
    BY <1>1, <1>2, <1>4, <2>2 DEF ReplayTypes, AtClient
  <2>4. StreamInv' /\ JoinInv' /\ FollowInv'
    BY <2>2 DEF StreamInv, JoinInv, FollowInv, Streaming
  <2> QED
    BY <1>1, <2>3, <2>4, BrokerAside DEF ReplayInv
<1>7. CASE f # Reset
  <2>1. /\ f \in Numbered /\ f.kind # "reset" /\ f.gen \in 1 .. MaxRuntimes
        /\ f.seq \in 1 .. MaxEvents /\ f.seq \in Nat /\ f.seq > 0
    BY <1>4, <1>7, EntryFacts
  <2>2. 1 \in 1 .. Len(flight)
    BY <1>4
  <2>3. client.mode = "live"
    <3>1. client.mode # "open"
      BY <1>2, <1>4, <1>5, <1>7, <2>2 DEF JoinInv
    <3> QED
      BY <1>3, <1>5, <3>1
  <2>4. Continues(flight, client.gen, client.seq)
    BY <1>2, <1>5, <2>3 DEF FollowInv
  <2>5. Quiet(flight, 1)
    BY <1>4, <1>7 DEF Quiet
  <2>6. f.gen = client.gen /\ f.seq <= client.seq + 1
    BY <1>4, <2>2, <2>4, <2>5 DEF Continues
  <2>7. /\ client'.mode = "live" /\ client'.stream /\ client'.cursor = client.cursor + 1
        /\ client'.gen = client.gen /\ client'.seq >= client.seq /\ client'.seq >= f.seq
        /\ client'.seq \in Nat /\ client.cursor \in Nat /\ client.seq \in Nat
        /\ client' \in [mode : {"told", "open", "live"}, stream : BOOLEAN, cursor : Nat,
                        gen : 0 .. MaxRuntimes, seq : 0 .. MaxEvents]
    <3>1. /\ client.cursor \in Nat /\ client.seq \in Nat /\ client.cursor + 1 \in Nat
          /\ f.seq \in 0 .. MaxEvents /\ f.gen \in 0 .. MaxRuntimes
      <4>1. client.seq \in Nat
        BY <1>2, Numbers
      <4> QED
        BY <1>3, <2>1, <2>6, <4>1
    <3>2. CASE f.seq <= client.seq
      <4>1. client' = [client EXCEPT !.cursor = client.cursor + 1]
        BY <1>1, <2>1, <2>6, <3>2
      <4>2. /\ client'.mode = "live" /\ client'.stream /\ client'.cursor = client.cursor + 1
            /\ client'.gen = client.gen /\ client'.seq = client.seq
            /\ client' \in [mode : {"told", "open", "live"}, stream : BOOLEAN, cursor : Nat,
                            gen : 0 .. MaxRuntimes, seq : 0 .. MaxEvents]
        BY <1>1, <1>3, <2>3, <3>1, <4>1 DEF Streaming
      <4> QED
        BY <2>1, <3>1, <3>2, <4>2
    <3>3. CASE ~(f.seq <= client.seq)
      <4>1. client' = [client EXCEPT !.cursor = client.cursor + 1, !.gen = f.gen, !.seq = f.seq]
        BY <1>1, <2>1, <3>3
      <4>2. /\ client'.mode = "live" /\ client'.stream /\ client'.cursor = client.cursor + 1
            /\ client'.gen = f.gen /\ client'.seq = f.seq
            /\ client' \in [mode : {"told", "open", "live"}, stream : BOOLEAN, cursor : Nat,
                            gen : 0 .. MaxRuntimes, seq : 0 .. MaxEvents]
        BY <1>1, <1>3, <2>3, <3>1, <4>1 DEF Streaming
      <4> QED
        BY <2>1, <2>6, <3>1, <3>3, <4>2
    <3> QED
      BY <3>2, <3>3
  <2>8. ReplayTypes'
    BY <1>1, <1>2, <1>4, <2>7 DEF ReplayTypes, AtClient
  <2> DEFINE u == Tail(flight)
  <2>9. /\ u \in Seq(Entries) /\ Len(u) = Len(flight) - 1
        /\ \A i \in 1 .. Len(u) : u[i] = flight[i + 1] /\ i + 1 \in 1 .. Len(flight)
    BY <1>4
  <2>17. Len(u) \in Nat /\ Len(flight) = Len(u) + 1
    BY <1>4
  <2>10. Fed' /\ ToRead' = u /\ flight' = u
    BY <1>1, <2>7 DEF Fed, ToRead, Streaming
  <2> HIDE DEF u, f
  <2>11. StreamInv'
    <3>1. chan.open /\ LastId' = LastId /\ client.cursor + Len(flight) = LastId
      BY <1>1, <1>2 DEF StreamInv, LastId
    <3>2. client'.cursor + Len(u) = LastId'
      BY <1>4, <2>7, <2>9, <3>1
    <3>3. ASSUME NEW i \in 1 .. Len(u), client'.cursor + i > chan.dropped
          PROVE  u[i] = chan.entries[client'.cursor + i - chan.dropped]
      <4>1. /\ client'.cursor + i - chan.dropped = client.cursor + (i + 1) - chan.dropped
            /\ client.cursor + (i + 1) > chan.dropped
        <5>1. i \in Nat /\ client.cursor \in Nat /\ chan.dropped \in Nat
          BY <1>2, <2>7, <2>9 DEF ReplayTypes
        <5>2. (client.cursor + 1) + i > chan.dropped
          BY <2>7, <3>3
        <5>3. PICK a \in Nat, b \in Nat : a = client.cursor /\ b = chan.dropped
          BY <5>1
        <5>4. client'.cursor = a + 1
          BY <2>7, <5>3
        <5>5. (a + 1) + i - b = a + (i + 1) - b /\ ((a + 1) + i > b => a + (i + 1) > b)
          BY <5>1
        <5> QED
          BY <5>2, <5>3, <5>4, <5>5
      <4>2. flight[i + 1] = chan.entries[client.cursor + (i + 1) - chan.dropped]
        BY <1>1, <1>2, <2>9, <4>1 DEF StreamInv
      <4> QED
        BY <2>9, <4>1, <4>2
    <3>4. client'.cursor <= LastId'
      BY <1>4, <2>7, <2>9, <3>2
    <3> QED
      BY <1>1, <2>7, <2>10, <3>1, <3>2, <3>3, <3>4 DEF StreamInv, Streaming
  <2>12. JoinInv'
    BY <2>7 DEF JoinInv
  <2>13. \A i \in 1 .. Len(u) : Quiet(u, i) => Quiet(flight, i + 1)
    <3> SUFFICES ASSUME NEW i \in 1 .. Len(u), Quiet(u, i), NEW j \in 1 .. i + 1
                 PROVE  flight[j] # Reset
      BY DEF Quiet
    <3>1. CASE j = 1
      BY <1>4, <1>7, <3>1
    <3>2. CASE j # 1
      <4>1. j - 1 \in 1 .. i /\ j - 1 \in 1 .. Len(u) /\ (j - 1) + 1 = j
        BY <2>9, <3>2
      <4> QED
        BY <2>9, <4>1 DEF Quiet
    <3> QED
      BY <3>1, <3>2
  <2>14. Continues(u, client'.gen, client'.seq)
    <3> SUFFICES ASSUME NEW i \in 1 .. Len(u), Quiet(u, i)
                 PROVE  /\ u[i].gen = client'.gen
                        /\ IF i = 1 THEN u[i].seq <= client'.seq + 1
                                    ELSE u[i].seq = u[i - 1].seq + 1
      BY DEF Continues
    <3>1. /\ u[i] = flight[i + 1] /\ i + 1 \in 1 .. Len(flight) /\ i + 1 # 1 /\ (i + 1) - 1 = i
          /\ Quiet(flight, i + 1)
      BY <2>9, <2>13
    <3>2. flight[i + 1].gen = client.gen /\ flight[i + 1].seq = flight[i].seq + 1
      BY <2>4, <3>1 DEF Continues
    <3>3. CASE i = 1
      BY <1>4, <2>1, <2>7, <3>1, <3>2, <3>3
    <3>4. CASE i # 1
      <4>1. i - 1 \in 1 .. Len(u) /\ (i - 1) + 1 = i
        BY <2>9, <3>4
      <4> QED
        BY <2>7, <2>9, <3>1, <3>2, <3>4, <4>1
    <3> QED
      BY <3>3, <3>4
  <2>15. ASSUME Quiet(u, Len(u)) PROVE InStep'
    <3>1. Quiet(flight, Len(flight))
      <4>1. CASE Len(u) = 0
        <5>1. Len(flight) = 1
          BY <2>17, <4>1
        <5> QED
          BY <2>5, <5>1
      <4>2. CASE Len(u) # 0
        <5>1. Len(u) \in 1 .. Len(u) /\ Len(u) + 1 = Len(flight)
          BY <1>4, <2>9, <4>2
        <5> QED
          BY <2>13, <2>15, <5>1
      <4> QED
        BY <4>1, <4>2
    <3>2. InStep
      BY <1>2, <1>5, <2>3, <3>1 DEF FollowInv
    <3>3. route.seq = flight[Len(flight)].seq
      BY <1>1, <1>5, <3>2 DEF InStep
    <3>4. route.seq > 0
      <4>1. Len(flight) \in 1 .. Len(flight)
        BY <1>4
      <4>2. flight[Len(flight)] \in Entries /\ flight[Len(flight)] # Reset
        BY <1>3, <3>1, <4>1, ElementOfSeq DEF Quiet
      <4> QED
        BY <3>3, <4>2, EntryFacts
    <3>5. IF u = <<>> THEN route.seq <= client'.seq ELSE route.seq = u[Len(u)].seq
      <4>1. CASE Len(u) = 0
        <5>1. Len(flight) = 1 /\ u = <<>>
          BY <2>9, <2>17, <4>1, EmptySeq
        <5> QED
          BY <1>4, <2>1, <2>7, <3>3, <5>1
      <4>2. CASE Len(u) # 0
        <5>1. Len(u) \in 1 .. Len(u) /\ Len(u) + 1 = Len(flight) /\ u # <<>>
          BY <1>4, <2>9, <4>2, EmptySeq
        <5> QED
          BY <2>9, <3>3, <5>1
      <4> QED
        BY <4>1, <4>2
    <3>6. route.seq # 0
      BY <1>2, <3>4, Numbers
    <3>7. UNCHANGED <<route, early, chan>>
      BY <1>1 DEF AtClient
    <3> QED
      BY <2>7, <2>10, <3>2, <3>5, <3>6, <3>7 DEF InStep
  <2>16. FollowInv'
    BY <2>10, <2>14, <2>15 DEF FollowInv
  <2> QED
    BY <1>1, <2>8, <2>11, <2>12, <2>16, BrokerAside DEF ReplayInv
<1> QED
  BY <1>6, <1>7

-----------------------------------------------------------------------------
(* The broker, when a frame arrives or the socket is lost                  *)

\* A delivery leaves the route with runtime g, and the client reads on or starts over.
Settles(g) ==
  /\ route' \in [gen : 0 .. MaxRuntimes, seq : 0 .. MaxEvents] /\ route'.gen = g
  /\ \/ route' = [gen |-> 0, seq |-> 0]
     \/ route'.gen # 0 /\ Past(route)'
  /\ early' \in Seq(Numbered) /\ Len(early') <= EarlyLimit
  /\ \A i \in 1 .. Len(early') : Past(early[i])'
  /\ chan' \in Channels /\ Len(chan'.entries) <= KeepEntries /\ flight' \in Seq(Entries)
  /\ StreamInv' /\ JoinInv' /\ FollowInv'

\* Early frames and the number of the route come from what was there and from frames es.
Sources(held, n, es) ==
  /\ \A i \in 1 .. Len(early') : \/ \E j \in 1 .. Len(held) : early'[i] = held[j]
                                 \/ \E j \in 1 .. Len(es) : early'[i] = es[j]
  /\ route'.seq = n \/ \E j \in 1 .. Len(es) : route'.seq = es[j].seq

LEMMA ArrivedFrom ==
  ASSUME NEW st, NEW pre, NEW es, NEW r, NEW t, TakesIn(st, pre, es, r, t)
  PROVE  Sources(st.early, st.seq, es)
<1>1. Reached(st, es, Len(es), r) /\ route'.seq = r.seq /\ early' = r.early
  BY DEF TakesIn, Took
<1> QED
  BY <1>1 DEF Reached, Sources

LEMMA ResetSettles ==
  ASSUME ReplayInv, NEW g \in 0 .. MaxRuntimes, NEW n \in 0 .. MaxEvents,
         NEW joined \in BOOLEAN, joined => chan.joined, NEW es \in {deferred, <<>>},
         NEW c, c = [chan EXCEPT !.joined = joined],
         Deliver(g, n, <<Reset>>, early, es, c),
         hermes' = hermes, client' = client,
         g = 0 => n = 0, g # 0 => g < hermes.gen \/ (g = hermes.gen /\ n <= hermes.seq)
  PROVE  Settles(g) /\ Sources(early, n, es)
<1> DEFINE st == Begun(g, n, <<Reset>>, early, joined)
<1>1. ReplayTypes /\ RouteInv /\ WireInv /\ StreamInv /\ JoinInv /\ FollowInv
  BY DEF ReplayInv
<1>2. /\ early \in Seq(Numbered) /\ Len(early) <= EarlyLimit /\ es \in Seq(Numbered)
      /\ \A j \in 1 .. Len(es) : Past(es[j])
  <2>1. deferred \in Seq(Numbered) /\ <<>> \in Seq(Numbered) /\ Len(<<>>) = 0
    BY <1>1 DEF ReplayTypes
  <2>2. \A j \in 1 .. Len(deferred) : Past(deferred[j])
    BY <1>1 DEF RouteInv, Past
  <2>3. CASE es = deferred
    BY <1>1, <2>1, <2>2, <2>3 DEF ReplayTypes
  <2>4. CASE es = <<>>
    BY <1>1, <2>1, <2>4 DEF ReplayTypes
  <2> QED
    BY <2>3, <2>4
<1>3. <<Reset>> \in {<<>>, <<Reset>>}
  OBVIOUS
<1>4. Arrival(st, <<Reset>>, es)
  BY <1>1, <1>2, <1>3, Passed
<1>5. PICK r, t : TakesIn(st, <<Reset>>, es, r, t)
  BY <1>4 DEF Arrival
<1>6. st.gen = g /\ st.seq = n /\ st.early = early /\ st.joined = joined
  BY DEF Begun
<1> HIDE DEF st
<1>7. /\ route' \in [gen : 0 .. MaxRuntimes, seq : 0 .. MaxEvents] /\ route'.gen = g
      /\ early' \in Seq(Numbered) /\ Len(early') <= EarlyLimit
      /\ (route' = [gen |-> 0, seq |-> 0] \/ (route'.gen # 0 /\ Past(route)'))
      /\ \A i \in 1 .. Len(early') : Past(early[i])'
  <2>1. st.gen = 0 => st.seq = 0
    BY <1>6
  <2>2. st.gen # 0 => Past(st)
    BY <1>6 DEF Past, Now
  <2>3. \A i \in 1 .. Len(st.early) : Past(st.early[i])
    BY <1>1, <1>6 DEF RouteInv
  <2> QED
    BY <1>1, <1>2, <1>5, <1>6, <2>1, <2>2, <2>3, StillPast
<1>8. /\ Took(st, es, r, t) /\ t \in Seq(Entries)
      /\ chan' \in Channels /\ Len(chan'.entries) <= KeepEntries
      /\ chan'.joined = st.joined /\ flight' \in Seq(Entries) /\ StreamInv'
      /\ client.mode # "told" /\ Fed' =>
           Fed /\ ToRead \in Seq(Entries) /\ ToRead' = ToRead \o (<<Reset>> \o t)
  BY <1>5 DEF TakesIn, Took
<1>9. JoinInv'
  <2>1. client'.mode = "open" => client.mode = "open" /\ ~st.joined
    BY <1>1, <1>6 DEF JoinInv
  <2> QED
    BY <1>1, <1>3, <1>8, <2>1, StillWaits
<1>10. FollowInv'
  BY <1>1, <1>8, ResetNow
<1>11. Sources(early, n, es)
  BY <1>5, <1>6, ArrivedFrom
<1> QED
  BY <1>7, <1>8, <1>9, <1>10, <1>11 DEF Settles

LEMMA Resubscribes ==
  ASSUME ReplayInv, NEW g, Settles(g), hermes' = hermes, faults' \in Nat, asked' = "none",
         deferred' = <<>>, wire' \in Seq(WireFrames), WireInv',
         \/ link' = "down" /\ wire' = <<>>
         \/ link' = "up" /\ g \in {0, hermes.gen},
         client' \in [mode : {"told", "open", "live"}, stream : BOOLEAN, cursor : Nat,
                      gen : 0 .. MaxRuntimes, seq : 0 .. MaxEvents]
  PROVE  ReplayInv'
<1>1. ReplayTypes'
  <2>1. <<>> \in Seq(Numbered) /\ Len(<<>>) = 0 /\ DeferLimit \in Nat
    BY ReplayAssumption
  <2>2. deferred' \in Seq(Numbered) /\ Len(deferred') <= DeferLimit
    BY <2>1
  <2> QED
    BY <2>2 DEF ReplayInv, ReplayTypes, Settles, Channels
<1>2. RouteInv'
  <2>1. Len(deferred') = 0
    OBVIOUS
  <2> QED
    BY <2>1 DEF Settles, RouteInv
<1> QED
  BY <1>1, <1>2 DEF Settles, ReplayInv

LEMMA EmptyWire ==
  ASSUME wire' = <<>>
  PROVE  wire' \in Seq(WireFrames) /\ WireInv'
<1>1. Len(wire') = 0
  OBVIOUS
<1> QED
  BY <1>1 DEF WireInv

\* The number of the route is one of its runtime.
LEMMA RouteFacts ==
  ASSUME ReplayInv
  PROVE  /\ route.gen \in 0 .. MaxRuntimes /\ route.seq \in 0 .. MaxEvents
         /\ chan.joined \in BOOLEAN /\ chan = [chan EXCEPT !.joined = chan.joined]
         /\ route.gen = 0 => route.seq = 0
         /\ route.gen # 0 =>
              route.gen < hermes.gen \/ (route.gen = hermes.gen /\ route.seq <= hermes.seq)
         /\ faults \in Nat /\ faults + 1 \in Nat
         /\ client \in [mode : {"told", "open", "live"}, stream : BOOLEAN, cursor : Nat,
                        gen : 0 .. MaxRuntimes, seq : 0 .. MaxEvents]
<1>1. /\ chan \in [open : BOOLEAN, joined : BOOLEAN, dropped : Nat, entries : Seq(Entries)]
      /\ route \in [gen : 0 .. MaxRuntimes, seq : 0 .. MaxEvents]
      /\ client \in [mode : {"told", "open", "live"}, stream : BOOLEAN, cursor : Nat,
                     gen : 0 .. MaxRuntimes, seq : 0 .. MaxEvents]
      /\ faults \in Nat
  BY DEF ReplayInv, ReplayTypes
<1>2. \/ route = [gen |-> 0, seq |-> 0]
      \/ route.gen # 0 /\ Past(route)
  BY DEF ReplayInv, RouteInv
<1>3. chan = [chan EXCEPT !.joined = chan.joined]
  BY <1>1
<1>4. route.gen = 0 => route.seq = 0
  BY <1>2
<1>5. route.gen # 0 =>
        route.gen < hermes.gen \/ (route.gen = hermes.gen /\ route.seq <= hermes.seq)
  BY <1>2 DEF Past, Now
<1> QED
  BY <1>1, <1>3, <1>4, <1>5

LEMMA LinkLostKeeps ==
  ASSUME ReplayInv, LinkLost
  PROVE  ReplayInv'
<1>1. /\ link' = "down" /\ wire' = <<>> /\ asked' = "none" /\ deferred' = <<>>
      /\ faults' = faults + 1 /\ hermes' = hermes /\ client' = client
  BY DEF LinkLost
<1>2. wire' \in Seq(WireFrames) /\ WireInv'
  BY <1>1, EmptyWire
<1>3. CASE Recovering
  <2>1. Deliver(route.gen, route.seq, <<Reset>>, early, deferred, chan)
    BY <1>3 DEF LinkLost, Flush
  <2>2. Settles(route.gen)
    BY <1>1, <2>1, RouteFacts, ResetSettles
  <2> QED
    BY <1>1, <1>2, <2>2, RouteFacts, Resubscribes
<1>4. CASE ~Recovering
  <2>1. UNCHANGED <<route, early, chan, flight>>
    BY <1>4 DEF LinkLost
  <2>2. deferred = <<>>
    BY <1>4 DEF ReplayInv, RouteInv
  <2>3. Covers
    BY <1>1 DEF Covers
  <2>4. StreamInv' /\ JoinInv' /\ FollowInv'
    BY <1>1, <2>1, <2>2, <2>3, AsideKeeps DEF ReplayInv, Aside
  <2>5. RouteInv'
    BY <1>1, <2>1, <2>2 DEF ReplayInv, RouteInv, Past, Now
  <2>6. ReplayTypes'
    BY <1>1, <1>2, <2>1, <2>2, RouteFacts DEF ReplayInv, ReplayTypes
  <2> QED
    BY <1>2, <2>4, <2>5, <2>6 DEF ReplayInv
<1> QED
  BY <1>3, <1>4

LEMMA ResumedKeeps ==
  ASSUME ReplayInv, Resumed
  PROVE  ReplayInv'
<1> DEFINE g == Head(wire).gen
<1>1. /\ wire # <<>> /\ Head(wire).kind = "resumed" /\ wire' = Tail(wire)
      /\ UNCHANGED <<hermes, faults, client>>
      /\ \/ /\ g # route.gen /\ Deliver(g, 0, <<Reset>>, early, deferred, chan)
            /\ link' = "up" /\ asked' = "none" /\ deferred' = <<>>
         \/ /\ g = route.gen /\ link' = "since" /\ asked' = "since"
            /\ UNCHANGED <<route, deferred, early, chan, flight>>
  BY DEF Resumed, Receive, Flush, Recovered
<1>2. ReplayTypes /\ RouteInv /\ WireInv /\ StreamInv /\ JoinInv /\ FollowInv
  BY DEF ReplayInv
<1>3. 1 \in 1 .. Len(wire) /\ Head(wire) = wire[1] /\ hermes.gen > 0 /\ hermes.gen \in Nat
  <2>1. wire \in Seq(WireFrames)
    BY <1>2 DEF ReplayTypes
  <2>2. Len(wire) \in Nat /\ Len(wire) > 0 /\ Head(wire) = wire[1]
    BY <1>1, <2>1, EmptySeq
  <2> QED
    BY <1>2, <2>2, Numbers
<1>4. g = hermes.gen /\ link = "resume"
  BY <1>1, <1>2, <1>3 DEF WireInv
<1>5. wire' \in Seq(WireFrames) /\ WireInv'
  BY <1>1, <1>2, AnswerTaken DEF IsReply
<1> HIDE DEF g
<1>6. CASE g # route.gen
  <2>1. Deliver(g, 0, <<Reset>>, early, deferred, chan)
    BY <1>1, <1>6
  <2>2. /\ g \in 0 .. MaxRuntimes /\ 0 \in 0 .. MaxEvents /\ 0 <= hermes.seq
        /\ g # 0
    BY <1>2, <1>3, <1>4, Numbers
  <2>3. Settles(g)
    BY <1>1, <1>4, <2>1, <2>2, RouteFacts, ResetSettles
  <2> QED
    BY <1>1, <1>4, <1>5, <1>6, <2>3, RouteFacts, Resubscribes
<1>7. CASE g = route.gen
  <2>1. /\ link' = "since" /\ asked' = "since"
        /\ UNCHANGED <<route, deferred, early, chan, flight>>
    BY <1>1, <1>7
  <2>2. ReplayTypes'
    BY <1>1, <1>2, <1>5, <2>1 DEF ReplayTypes
  <2>3. RouteInv'
    BY <1>1, <1>2, <1>4, <1>7, <2>1 DEF RouteInv, Recovering, Past, Now
  <2>4. Covers
    BY <2>1 DEF Covers
  <2>5. StreamInv' /\ JoinInv' /\ FollowInv'
    BY <1>1, <1>2, <2>1, <2>4, AsideKeeps DEF Aside
  <2> QED
    BY <1>5, <2>2, <2>3, <2>5 DEF ReplayInv
<1> QED
  BY <1>6, <1>7

LEMMA MissingKeeps ==
  ASSUME ReplayInv, Missing
  PROVE  ReplayInv'
<1>1. /\ wire # <<>> /\ Head(wire).kind = "missing" /\ wire' = Tail(wire)
      /\ UNCHANGED <<hermes, faults, client>> /\ asked' = "none"
      /\ \/ /\ link = "resume" /\ link' = "up" /\ deferred' = <<>>
            /\ Deliver(0, 0, <<Reset>>, early, deferred, [chan EXCEPT !.joined = FALSE])
         \/ /\ link = "since" /\ link' = "up" /\ deferred' = <<>>
            /\ Deliver(route.gen, route.seq, <<Reset>>, early, deferred, chan)
         \/ /\ link = "up"
            /\ UNCHANGED <<link, route, deferred, early, chan, flight>>
  BY DEF Missing, Receive, Flush, Recovered
<1>2. ReplayTypes /\ RouteInv /\ WireInv /\ StreamInv /\ JoinInv /\ FollowInv
  BY DEF ReplayInv
<1>3. wire' \in Seq(WireFrames) /\ WireInv'
  BY <1>1, <1>2, AnswerTaken DEF IsReply
<1>4. CASE link = "resume"
  <2>1. /\ link' = "up" /\ deferred' = <<>>
        /\ Deliver(0, 0, <<Reset>>, early, deferred, [chan EXCEPT !.joined = FALSE])
    BY <1>1, <1>4
  <2>2. 0 \in 0 .. MaxEvents /\ 0 \in 0 .. MaxRuntimes
    BY <1>2, Numbers
  <2>3. Settles(0)
    BY <1>1, <2>1, <2>2, ResetSettles
  <2> QED
    BY <1>1, <1>3, <2>1, <2>3, RouteFacts, Resubscribes
<1>5. CASE link = "since"
  <2>1. /\ link' = "up" /\ deferred' = <<>>
        /\ Deliver(route.gen, route.seq, <<Reset>>, early, deferred, chan)
    BY <1>1, <1>5
  <2>2. Settles(route.gen)
    BY <1>1, <2>1, RouteFacts, ResetSettles
  <2>3. route.gen = hermes.gen
    BY <1>2, <1>5 DEF RouteInv
  <2> QED
    BY <1>1, <1>3, <2>1, <2>2, <2>3, RouteFacts, Resubscribes
<1>6. CASE link = "up"
  <2>1. UNCHANGED <<link, route, deferred, early, chan, flight>>
    BY <1>1, <1>6
  <2>2. ReplayTypes'
    BY <1>1, <1>2, <1>3, <2>1 DEF ReplayTypes
  <2>3. RouteInv'
    BY <1>1, <1>2, <1>6, <2>1 DEF RouteInv, Recovering, Past, Now
  <2>4. Covers
    <3> SUFFICES ASSUME Synced, route.seq = 0, NEW m \in client.seq + 1 .. hermes'.seq
                 PROVE  \E i \in 1 .. Len(wire') : wire'[i] = Event(hermes'.gen, m)
      BY DEF Covers
    <3>1. PICK i \in 1 .. Len(wire) : wire[i] = Event(hermes.gen, m)
      BY <1>1, <1>6 DEF Synced, InStep
    <3>2. i # 1 /\ i \in 2 .. Len(wire)
      <4>1. wire[1].kind = "missing"
        <5>1. wire \in Seq(WireFrames)
          BY <1>2 DEF ReplayTypes
        <5>2. Head(wire) = wire[1]
          BY <1>1, <5>1
        <5> QED
          BY <1>1, <5>2
      <4>2. wire[i].kind = "event"
        BY <3>1 DEF Event, Frame
      <4>3. i # 1
        BY <4>1, <4>2
      <4> QED
        BY <4>3
    <3>3. \E k \in 1 .. Len(wire') : wire'[k] = Event(hermes.gen, m)
      BY <1>1, <1>2, <3>1, <3>2, AnswerTaken DEF IsReply
    <3> QED
      BY <1>1, <3>3
  <2>5. StreamInv' /\ JoinInv' /\ FollowInv'
    BY <1>1, <1>2, <2>1, <2>4, AsideKeeps DEF Aside
  <2> QED
    BY <1>3, <2>2, <2>3, <2>5 DEF ReplayInv
<1> QED
  BY <1>1, <1>4, <1>5, <1>6

\* A replay begins with the event after the last one seen, if there is one.
LEMMA MissedFacts ==
  ASSUME ReplayTypes, NEW f, f.gen = hermes.gen, f.seq \in Nat, f.seq <= hermes.seq
  PROVE  /\ Missed(f) \in Seq(Numbered)
         /\ \A i \in 1 .. Len(Missed(f)) :
              Missed(f)[i].gen = hermes.gen /\ Missed(f)[i].seq <= f.seq
         /\ f.seq > route.seq => Len(Missed(f)) > 0 /\ Missed(f)[1].seq = route.seq + 1
         /\ f.seq <= route.seq => Missed(f) = <<>>
<1> DEFINE es == [i \in 1 .. (f.seq - route.seq) |-> Event(f.gen, route.seq + i)]
<1>1. Missed(f) = es
  BY DEF Missed, Events
<1>2. /\ route.seq \in Nat /\ hermes.seq \in 0 .. MaxEvents /\ hermes.gen \in 1 .. MaxRuntimes
      /\ MaxEvents \in Nat /\ hermes.seq \in Nat
  BY Numbers
<1>3. CASE f.seq > route.seq
  <2>1. PICK k \in Nat : k = f.seq - route.seq /\ k > 0
    BY <1>2, <1>3
  <2>2. es = [i \in 1 .. k |-> Event(f.gen, route.seq + i)]
    BY <2>1
  <2>3. \A i \in 1 .. k : /\ Event(f.gen, route.seq + i) \in Numbered
                          /\ Event(f.gen, route.seq + i).gen = hermes.gen
                          /\ Event(f.gen, route.seq + i).seq = route.seq + i
                          /\ route.seq + i <= f.seq
    <3> SUFFICES ASSUME NEW i \in 1 .. k
                 PROVE  /\ Event(f.gen, route.seq + i) \in Numbered
                        /\ Event(f.gen, route.seq + i).gen = hermes.gen
                        /\ Event(f.gen, route.seq + i).seq = route.seq + i
                        /\ route.seq + i <= f.seq
      OBVIOUS
    <3>1. route.seq + i \in 1 .. MaxEvents /\ route.seq + i <= f.seq
      BY <1>2, <2>1
    <3> QED
      BY <1>2, <3>1 DEF Event, Frame, Numbered
  <2> HIDE DEF es
  <2>4. es \in Seq(Numbered) /\ Len(es) = k /\ \A i \in 1 .. k : es[i] = Event(f.gen, route.seq + i)
    BY <2>2, <2>3
  <2>5. 1 \in 1 .. k /\ route.seq + 1 = route.seq + 1
    BY <2>1
  <2> QED
    BY <1>1, <1>2, <1>3, <2>1, <2>3, <2>4, <2>5
<1>4. CASE ~(f.seq > route.seq)
  <2>1. 1 .. (f.seq - route.seq) = {}
    BY <1>2, <1>4
  <2>2. es = <<>>
    BY <2>1
  <2> HIDE DEF es
  <2>3. es \in Seq(Numbered) /\ Len(es) = 0
    BY <2>2
  <2> QED
    BY <1>1, <1>2, <1>4, <2>2, <2>3
<1> QED
  BY <1>3, <1>4

LEMMA ReplayedKeeps ==
  ASSUME ReplayInv, Replayed
  PROVE  ReplayInv'
<1> DEFINE f == Head(wire)
<1>1. /\ wire # <<>> /\ f.kind \in {"replay", "truncated"} /\ wire' = Tail(wire)
      /\ UNCHANGED <<hermes, faults, client>>
      /\ link' = "up" /\ asked' = "none" /\ deferred' = <<>>
      /\ IF f.kind = "replay"
         THEN Deliver(route.gen, route.seq, <<>>, early, Missed(f) \o deferred, chan)
         ELSE Deliver(route.gen, route.seq, <<Reset>>, early, deferred, chan)
  BY DEF Replayed, Receive, Flush, Recovered
<1>2. ReplayTypes /\ RouteInv /\ WireInv /\ StreamInv /\ JoinInv /\ FollowInv
  BY DEF ReplayInv
<1>3. /\ 1 \in 1 .. Len(wire) /\ f = wire[1] /\ Len(wire) \in Nat
  <2>1. wire \in Seq(WireFrames)
    BY <1>2 DEF ReplayTypes
  <2>2. Len(wire) \in Nat /\ Len(wire) > 0 /\ f = wire[1]
    BY <1>1, <2>1, EmptySeq
  <2> QED
    BY <2>2
<1>4. link = "since" /\ route.gen = hermes.gen
  BY <1>1, <1>2, <1>3 DEF WireInv, RouteInv
<1>5. /\ wire' \in Seq(WireFrames) /\ WireInv'
      /\ \A m : (\E i \in 2 .. Len(wire) : wire[i] = Event(hermes.gen, m))
                  => \E i \in 1 .. Len(wire') : wire'[i] = Event(hermes.gen, m)
  BY <1>1, <1>2, AnswerTaken DEF IsReply
<1> HIDE DEF f
<1>6. CASE f.kind = "truncated"
  <2>1. Deliver(route.gen, route.seq, <<Reset>>, early, deferred, chan)
    BY <1>1, <1>6
  <2>2. Settles(route.gen)
    BY <1>1, <2>1, RouteFacts, ResetSettles
  <2> QED
    BY <1>1, <1>4, <1>5, <2>2, RouteFacts, Resubscribes
<1>7. CASE f.kind = "replay"
  <2> DEFINE es == Missed(f) \o deferred
             st == Begun(route.gen, route.seq, <<>>, early, chan.joined)
  <2>1. Deliver(route.gen, route.seq, <<>>, early, es, chan)
    BY <1>1, <1>7
  <2>2. Divides(1)
    BY <1>2, <1>3, <1>7 DEF WireInv, Numbering
  <2>3. /\ f.gen = hermes.gen /\ f.seq <= hermes.seq /\ f.seq \in Nat
        /\ \A i \in 1 .. Len(deferred) : deferred[i].seq <= f.seq
        /\ \A m \in f.seq + 1 .. hermes.seq :
             \E i \in 2 .. Len(wire) : wire[i] = Event(hermes.gen, m)
    BY <1>2, <1>3, <2>2, Numbers DEF Divides, Now
  <2>4. /\ Missed(f) \in Seq(Numbered)
        /\ \A i \in 1 .. Len(Missed(f)) : Missed(f)[i].gen = hermes.gen /\ Missed(f)[i].seq <= f.seq
        /\ f.seq > route.seq => Len(Missed(f)) > 0 /\ Missed(f)[1].seq = route.seq + 1
        /\ f.seq <= route.seq => Missed(f) = <<>>
    BY <1>2, <2>3, MissedFacts
  <2>5. /\ deferred \in Seq(Numbered) /\ early \in Seq(Numbered) /\ Len(early) <= EarlyLimit
        /\ \A i \in 1 .. Len(deferred) : deferred[i].gen = hermes.gen
    BY <1>2 DEF ReplayTypes, RouteInv, Now
  <2>6. /\ es \in Seq(Numbered)
        /\ \A i \in 1 .. Len(es) : es[i].gen = hermes.gen /\ es[i].seq <= f.seq
        /\ f.seq > route.seq => Len(es) > 0 /\ es[1].seq = route.seq + 1
    <3> DEFINE a == Missed(f)
    <3>1. /\ a \o deferred \in Seq(Numbered) /\ Len(a \o deferred) = Len(a) + Len(deferred)
          /\ \A i \in 1 .. Len(a) + Len(deferred) :
               (a \o deferred)[i] = IF i <= Len(a) THEN a[i] ELSE deferred[i - Len(a)]
          /\ Len(a) \in Nat /\ Len(deferred) \in Nat
      BY <2>4, <2>5, ConcatProperties
    <3>2. es = a \o deferred
      OBVIOUS
    <3> HIDE DEF a, es
    <3>3. \A i \in 1 .. Len(es) : es[i].gen = hermes.gen /\ es[i].seq <= f.seq
      <4> SUFFICES ASSUME NEW i \in 1 .. Len(es)
                   PROVE  es[i].gen = hermes.gen /\ es[i].seq <= f.seq
        OBVIOUS
      <4>1. CASE i <= Len(a)
        <5>1. i \in 1 .. Len(a) /\ es[i] = a[i]
          BY <3>1, <3>2, <4>1
        <5> QED
          BY <2>4, <5>1 DEF a
      <4>2. CASE ~(i <= Len(a))
        <5>1. i - Len(a) \in 1 .. Len(deferred) /\ es[i] = deferred[i - Len(a)]
          BY <3>1, <3>2, <4>2
        <5> QED
          BY <2>3, <2>5, <5>1
      <4> QED
        BY <4>1, <4>2
    <3>4. f.seq > route.seq => Len(es) > 0 /\ es[1].seq = route.seq + 1
      <4> SUFFICES ASSUME f.seq > route.seq PROVE Len(es) > 0 /\ es[1].seq = route.seq + 1
        OBVIOUS
      <4>1. Len(a) > 0 /\ a[1].seq = route.seq + 1
        BY <2>4 DEF a
      <4>2. 1 \in 1 .. Len(a) + Len(deferred) /\ 1 <= Len(a)
        BY <3>1, <4>1
      <4> QED
        BY <3>1, <3>2, <4>1, <4>2
    <3> QED
      BY <3>1, <3>2, <3>3, <3>4
  <2> HIDE DEF es
  <2>7. \A j \in 1 .. Len(es) : Past(es[j])
    <3>1. \A j \in 1 .. Len(es) : es[j].seq \in Nat
      BY <2>6, EntryFacts
    <3>2. hermes.seq \in Nat
      BY <1>2, Numbers
    <3> QED
      BY <2>3, <2>6, <3>1, <3>2 DEF Past, Now
  <2>8. Arrival(st, <<>>, es)
    <3>1. <<>> \in {<<>>, <<Reset>>}
      OBVIOUS
    <3>2. chan = [chan EXCEPT !.joined = chan.joined] /\ chan.joined \in BOOLEAN
          /\ route.gen \in 0 .. MaxRuntimes /\ route.seq \in 0 .. MaxEvents
      BY RouteFacts
    <3> QED
      BY <1>1, <1>2, <2>1, <2>5, <2>6, <3>1, <3>2, Passed
  <2>9. PICK r, t : TakesIn(st, <<>>, es, r, t)
    BY <2>8 DEF Arrival
  <2>10. /\ st.gen = route.gen /\ st.seq = route.seq /\ st.early = early
         /\ st.joined = chan.joined
    BY DEF Begun
  <2> HIDE DEF st
  <2>11. /\ route' \in [gen : 0 .. MaxRuntimes, seq : 0 .. MaxEvents] /\ route'.gen = route.gen
         /\ early' \in Seq(Numbered) /\ Len(early') <= EarlyLimit
         /\ (route' = [gen |-> 0, seq |-> 0] \/ (route'.gen # 0 /\ Past(route)'))
         /\ \A i \in 1 .. Len(early') : Past(early[i])'
    <3>1. st.gen = 0 => st.seq = 0
      BY <2>10, RouteFacts
    <3>2. st.gen # 0 => Past(st)
      BY <2>10, RouteFacts DEF Past, Now
    <3>3. \A i \in 1 .. Len(st.early) : Past(st.early[i])
      BY <1>2, <2>10 DEF RouteInv
    <3> QED
      BY <1>1, <1>2, <2>7, <2>9, <2>10, <3>1, <3>2, <3>3, StillPast
  <2>12. /\ Took(st, es, r, t) /\ t \in Seq(Entries)
         /\ route' = [gen |-> st.gen, seq |-> r.seq] /\ early' = r.early
         /\ chan' \in Channels /\ Len(chan'.entries) <= KeepEntries
         /\ chan'.joined = st.joined /\ flight' \in Seq(Entries) /\ StreamInv'
         /\ client.mode # "told" /\ Fed' =>
              Fed /\ ToRead \in Seq(Entries) /\ ToRead' = ToRead \o (<<>> \o t)
    BY <2>9 DEF TakesIn, Took
  <2>13. JoinInv'
    <3>1. client'.mode = "open" => client.mode = "open" /\ ~st.joined
      BY <1>1, <1>2, <2>10 DEF JoinInv
    <3>2. <<>> \in {<<>>, <<Reset>>}
      OBVIOUS
    <3> QED
      BY <1>2, <2>12, <3>1, <3>2, StillWaits
  <2>14. FollowInv'
    <3> SUFFICES ASSUME client.mode = "live", Fed'
                 PROVE  /\ Continues(ToRead', client'.gen, client'.seq)
                        /\ Quiet(ToRead', Len(ToRead')) => InStep'
      BY <1>1 DEF FollowInv
    <3>1. Fed /\ ToRead \in Seq(Entries) /\ ToRead' = ToRead \o t
      <4>1. Fed /\ ToRead \in Seq(Entries) /\ ToRead' = ToRead \o (<<>> \o t)
        BY <2>12
      <4>2. <<>> \o t = t
        BY <2>12, ConcatEmptySeq
      <4> QED
        BY <4>1, <4>2
    <3>2. Synced => \A i \in 1 .. Len(st.early) : st.early[i].gen # st.gen
      BY <2>10 DEF Synced, InStep
    <3>3. ASSUME Synced, st.seq = 0, t # <<>>, t[1] # Reset
          PROVE  t[1].seq <= client.seq + 1
      <4>1. 1 \in 1 .. Len(t) /\ Quiet(t, 1)
        <5>1. Len(t) \in Nat /\ Len(t) # 0
          BY <2>12, <3>3, EmptySeq
        <5> QED
          BY <3>3, <5>1 DEF Quiet
      <4>2. PICK j \in 1 .. Len(es) : t[1] = es[j]
        BY <2>12, <4>1 DEF Took, Emits
      <4>3. 1 \in 1 .. Len(es) /\ es # <<>>
        BY <2>6, <4>2, EmptySeq
      <4>4. es[1] \in Numbered /\ es[1].seq \in Nat /\ es[1].seq > 0 /\ es[1].seq <= f.seq
        BY <2>6, <4>3, EntryFacts
      <4>5. es[1].gen = st.gen /\ st.joined
        BY <1>4, <2>6, <2>10, <3>3, <4>3 DEF Synced, InStep
      <4>6. t[1] = es[1]
        BY <2>12, <3>3, <4>3, <4>4, <4>5 DEF Took, Starts
      <4>7. es[1].seq = route.seq + 1 /\ route.seq = 0
        BY <2>3, <2>6, <2>10, <3>3, <4>4
      <4> QED
        BY <1>2, <4>6, <4>7, Numbers
    <3>4. ASSUME r.seq = 0, NEW m \in client.seq + 1 .. hermes'.seq
          PROVE  \E i \in 1 .. Len(wire') : wire'[i] = Event(hermes'.gen, m)
      <4>1. r.seq >= st.seq /\ \A j \in 1 .. Len(es) : es[j].gen = st.gen => es[j].seq <= r.seq
        BY <2>12 DEF Took, Reached
      <4>2. route.seq \in Nat /\ client.seq \in Nat /\ hermes.seq \in Nat
        BY <1>2, Numbers
      <4>3. ~(f.seq > route.seq)
        <5> SUFFICES ASSUME f.seq > route.seq PROVE FALSE
          OBVIOUS
        <5>1. 1 \in 1 .. Len(es)
          BY <2>6
        <5>2. es[1].seq \in Nat /\ es[1].seq > 0 /\ es[1].gen = st.gen
          BY <1>4, <2>6, <2>10, <5>1, EntryFacts
        <5> QED
          BY <3>4, <4>1, <5>1, <5>2
      <4>4. route.seq = 0 /\ f.seq = 0
        BY <2>3, <2>10, <3>4, <4>1, <4>2, <4>3
      <4>5. m \in f.seq + 1 .. hermes.seq
        BY <1>1, <3>4, <4>2, <4>4
      <4>6. \E i \in 1 .. Len(wire') : wire'[i] = Event(hermes.gen, m)
        BY <1>5, <2>3, <4>5
      <4> QED
        BY <1>1, <4>6
    <3> QED
      BY <1>1, <1>2, <2>10, <2>12, <3>1, <3>2, <3>3, <3>4, SyncedOn
  <2>15. Settles(route.gen)
    BY <2>11, <2>12, <2>13, <2>14 DEF Settles
  <2> QED
    BY <1>1, <1>4, <1>5, <2>15, RouteFacts, Resubscribes
<1> QED
  BY <1>1, <1>6, <1>7

\* An event leaves the wire: it is not later than any answer behind it.
LEMMA EventTaken ==
  ASSUME ReplayInv, UNCHANGED <<hermes, asked, link>>, wire # <<>>, ~IsReply(wire[1]),
         wire' = Tail(wire),
         Sources(early, route.seq, <<wire[1]>>), route'.gen = route.gen,
         \A i \in 1 .. Len(deferred') :
            deferred'[i] = wire[1] \/ \E j \in 1 .. Len(deferred) : deferred'[i] = deferred[j]
  PROVE  wire' \in Seq(WireFrames) /\ WireInv'
<1>1. ReplayTypes /\ WireInv
  BY DEF ReplayInv
<1>2. /\ wire' \in Seq(WireFrames) /\ Len(wire') = Len(wire) - 1 /\ Len(wire) \in Nat
      /\ Len(wire) > 0
      /\ \A i \in 1 .. Len(wire') : /\ wire'[i] = wire[i + 1] /\ i + 1 \in 1 .. Len(wire)
                                    /\ 1 < i + 1
  <2>1. wire \in Seq(WireFrames)
    BY <1>1 DEF ReplayTypes
  <2>2. /\ Tail(wire) \in Seq(WireFrames) /\ Len(Tail(wire)) = Len(wire) - 1
        /\ \A i \in 1 .. Len(wire) - 1 : Tail(wire)[i] = wire[i + 1]
        /\ Len(wire) \in Nat /\ Len(wire) > 0
    BY <2>1, HeadTailProperties, EmptySeq
  <2> QED
    BY <2>2
<1> DEFINE e == wire[1]
<1>3. /\ Len(<<e>>) = 1 /\ <<e>>[1] = e
      /\ \A i \in 1 .. Len(early') :
           early'[i] = e \/ \E j \in 1 .. Len(early) : early'[i] = early[j]
      /\ route'.seq = route.seq \/ route'.seq = e.seq
  <2>1. Len(<<e>>) = 1 /\ <<e>>[1] = e
    OBVIOUS
  <2>2. \A j \in 1 .. Len(<<e>>) : <<e>>[j] = e
    BY <2>1
  <2> QED
    BY <2>1, <2>2 DEF Sources
<1> HIDE DEF e
<1>4. ASSUME NEW i \in 1 .. Len(wire'), Numbering(wire'[i])
      PROVE  Divides(i)'
  <2> DEFINE k == i + 1
  <2>1. k \in 1 .. Len(wire) /\ wire'[i] = wire[k] /\ 1 \in 1 .. k - 1 /\ k - 1 = i
    BY <1>2
  <2>2. Divides(k)
    BY <1>1, <1>4, <2>1 DEF WireInv
  <2> HIDE DEF k
  <2>3. e.seq <= wire[k].seq /\ Now(wire[k])
    BY <2>1, <2>2 DEF Divides, e
  <2>4. \A j \in 1 .. i - 1 : wire'[j].seq <= wire'[i].seq
    <3> SUFFICES ASSUME NEW j \in 1 .. i - 1 PROVE wire'[j].seq <= wire'[i].seq
      OBVIOUS
    <3>1. j \in 1 .. Len(wire') /\ j + 1 \in 1 .. k - 1
      BY <1>2, <2>1
    <3> QED
      BY <1>2, <2>1, <2>2, <3>1 DEF Divides
  <2>5. \A m \in wire'[i].seq + 1 .. hermes.seq :
          \E j \in i + 1 .. Len(wire') : wire'[j] = Event(hermes.gen, m)
    <3> SUFFICES ASSUME NEW m \in wire[k].seq + 1 .. hermes.seq
                 PROVE  \E j \in i + 1 .. Len(wire') : wire'[j] = Event(hermes.gen, m)
      BY <2>1
    <3>1. PICK j \in k + 1 .. Len(wire) : wire[j] = Event(hermes.gen, m)
      BY <2>2 DEF Divides
    <3>2. j - 1 \in i + 1 .. Len(wire') /\ j - 1 \in 1 .. Len(wire') /\ (j - 1) + 1 = j
      BY <1>2, <2>1
    <3> QED
      BY <1>2, <3>1, <3>2
  <2>6. \A j \in 1 .. Len(early') : early'[j].gen = hermes.gen => early'[j].seq <= wire[k].seq
    BY <1>3, <2>2, <2>3 DEF Divides
  <2>7. \A j \in 1 .. Len(deferred') : deferred'[j].seq <= wire[k].seq
    BY <2>2, <2>3 DEF Divides, e
  <2>8. route'.gen = hermes.gen => route'.seq <= wire[k].seq
    BY <1>3, <2>2, <2>3 DEF Divides
  <2> QED
    BY <2>1, <2>3, <2>4, <2>5, <2>6, <2>7, <2>8 DEF Divides, Now
<1>5. ASSUME NEW i \in 1 .. Len(wire')
      PROVE  /\ ~IsReply(wire'[i]) => Now(wire[i])' /\ wire'[i].seq > 0
             /\ IsReply(wire'[i]) => asked' = "answered"
             /\ wire'[i].kind = "resumed" => link' = "resume" /\ wire'[i].gen = hermes'.gen
             /\ wire'[i].kind \in {"replay", "truncated"} => link' = "since"
             /\ wire'[i].kind \in {"join", "reopen"} => link' = "up"
  BY <1>1, <1>2 DEF WireInv, Now
<1>6. ASSUME NEW i \in 1 .. Len(wire'), NEW j \in 1 .. Len(wire'), i < j
      PROVE  /\ ~IsReply(wire'[i]) /\ ~IsReply(wire'[j]) => wire'[i].seq < wire'[j].seq
             /\ IsReply(wire'[i]) => ~IsReply(wire'[j])
  <2>1. i + 1 \in 1 .. Len(wire) /\ j + 1 \in 1 .. Len(wire) /\ i + 1 < j + 1
    BY <1>2, <1>6
  <2> QED
    BY <1>1, <1>2, <2>1 DEF WireInv
<1> QED
  BY <1>2, <1>4, <1>5, <1>6 DEF WireInv

LEMMA LiveEventKeeps ==
  ASSUME ReplayInv, LiveEvent
  PROVE  ReplayInv'
<1> DEFINE e == wire[1]
<1>1. ReplayTypes /\ RouteInv /\ WireInv /\ StreamInv /\ JoinInv /\ FollowInv
  BY DEF ReplayInv
<1>2. /\ wire # <<>> /\ Head(wire) = e /\ e.kind = "event" /\ wire' = Tail(wire)
      /\ UNCHANGED <<hermes, faults, asked, link, client>>
      /\ Len(wire) \in Nat /\ 1 \in 1 .. Len(wire)
  <2>1. wire # <<>> /\ Head(wire).kind = "event" /\ wire' = Tail(wire)
        /\ UNCHANGED <<hermes, faults, asked, link, client>>
    BY DEF LiveEvent, Receive
  <2>2. wire \in Seq(WireFrames)
    BY <1>1 DEF ReplayTypes
  <2>3. Len(wire) \in Nat /\ Len(wire) > 0 /\ Head(wire) = e
    BY <2>1, <2>2, EmptySeq
  <2> QED
    BY <2>1, <2>3
<1>3. ~IsReply(e) /\ Now(e) /\ e.seq > 0 /\ e.seq \in Nat
  <2>1. ~IsReply(e)
    BY <1>2 DEF IsReply
  <2> QED
    BY <1>1, <1>2, <2>1, Numbers DEF WireInv
<1>4. e \in Numbered /\ <<e>> \in Seq(Numbered) /\ Len(<<e>>) = 1 /\ <<e>>[1] = e
  <2>1. e \in WireFrames
    BY <1>1, <1>2, Numbers
  <2>2. e.gen \in 1 .. MaxRuntimes /\ e.seq \in 1 .. MaxEvents
    <3>1. hermes.gen \in 1 .. MaxRuntimes /\ MaxEvents \in Nat /\ hermes.seq \in 0 .. MaxEvents
      BY <1>1, Numbers
    <3> QED
      BY <1>3, <3>1 DEF Now
  <2>3. e \in Numbered
    BY <1>2, <2>1, <2>2 DEF WireFrames, Numbered
  <2> QED
    BY <2>3
<1>5. \/ /\ ~Recovering /\ deferred' = deferred
         /\ Deliver(route.gen, route.seq, <<>>, early, <<e>>, chan)
      \/ /\ Recovering /\ Len(deferred) < DeferLimit /\ deferred' = Append(deferred, e)
         /\ UNCHANGED <<route, early, chan, flight>>
      \/ /\ Recovering /\ deferred' = <<>>
         /\ Deliver(route.gen, route.seq, <<Reset>>, early, <<>>, chan)
  BY <1>2 DEF LiveEvent
<1>6. link # "down"
  BY <1>1, <1>2 DEF RouteInv
<1> HIDE DEF e
<1>7. CASE /\ Recovering /\ Len(deferred) < DeferLimit /\ deferred' = Append(deferred, e)
           /\ UNCHANGED <<route, early, chan, flight>>
  <2>1. /\ deferred \in Seq(Numbered) /\ Len(deferred) \in Nat /\ DeferLimit \in Nat
    BY <1>1, ReplayAssumption DEF ReplayTypes
  <2>2. /\ deferred' \in Seq(Numbered) /\ Len(deferred') = Len(deferred) + 1
        /\ \A i \in 1 .. Len(deferred') :
             \/ i = Len(deferred) + 1 /\ deferred'[i] = e
             \/ i \in 1 .. Len(deferred) /\ deferred'[i] = deferred[i]
    BY <1>4, <1>7, <2>1
  <2>3. Sources(early, route.seq, <<e>>)
    BY <1>7 DEF Sources
  <2>4. wire' \in Seq(WireFrames) /\ WireInv'
    BY <1>2, <1>3, <1>7, <2>2, <2>3, EventTaken DEF e
  <2>5. ReplayTypes'
    <3>1. Len(deferred') <= DeferLimit
      BY <1>7, <2>1, <2>2
    <3> QED
      BY <1>1, <1>2, <1>7, <2>2, <2>4, <3>1 DEF ReplayTypes
  <2>6. RouteInv'
    <3>1. \A i \in 1 .. Len(deferred') : Now(deferred[i])'
      <4> SUFFICES ASSUME NEW i \in 1 .. Len(deferred') PROVE Now(deferred[i])'
        OBVIOUS
      <4>1. Now(deferred'[i]) 
        BY <1>1, <1>3, <2>2 DEF RouteInv, Now
      <4> QED
        BY <1>2, <4>1 DEF Now
    <3> QED
      BY <1>1, <1>2, <1>6, <1>7, <3>1 DEF RouteInv, Recovering, Past, Now
  <2>7. Covers
    BY <1>2, <1>7 DEF Covers, Recovering
  <2>8. StreamInv' /\ JoinInv' /\ FollowInv'
    BY <1>1, <1>2, <1>7, <2>7, AsideKeeps DEF Aside
  <2> QED
    BY <2>4, <2>5, <2>6, <2>8 DEF ReplayInv
<1>8. CASE /\ Recovering /\ deferred' = <<>>
           /\ Deliver(route.gen, route.seq, <<Reset>>, early, <<>>, chan)
  <2>1. Settles(route.gen) /\ Sources(early, route.seq, <<>>)
    BY <1>2, <1>8, RouteFacts, ResetSettles
  <2>2. Len(<<>>) = 0 /\ Len(deferred') = 0 /\ DeferLimit \in Nat
    BY <1>8, ReplayAssumption
  <2>3. Sources(early, route.seq, <<e>>)
    BY <2>1, <2>2 DEF Sources
  <2>4. wire' \in Seq(WireFrames) /\ WireInv'
    <3>1. route'.gen = route.gen
      BY <2>1 DEF Settles
    <3> QED
      BY <1>2, <1>3, <2>2, <2>3, <3>1, EventTaken DEF e
  <2>5. ReplayTypes'
    <3>1. deferred' \in Seq(Numbered) /\ Len(deferred') <= DeferLimit
      BY <1>8, <2>2
    <3> QED
      BY <1>1, <1>2, <2>1, <2>4, <3>1 DEF ReplayTypes, Settles, Channels
  <2>6. RouteInv'
    BY <1>1, <1>2, <1>6, <1>8, <2>1, <2>2 DEF RouteInv, Settles, Recovering
  <2> QED
    BY <2>1, <2>4, <2>5, <2>6 DEF ReplayInv, Settles
<1>9. CASE /\ ~Recovering /\ deferred' = deferred
           /\ Deliver(route.gen, route.seq, <<>>, early, <<e>>, chan)
  <2> DEFINE st == Begun(route.gen, route.seq, <<>>, early, chan.joined)
  <2>1. link = "up" /\ deferred = <<>> /\ route.gen \in {0, hermes.gen}
    BY <1>1, <1>6, <1>9 DEF RouteInv, ReplayTypes, Recovering
  <2>2. <<>> \in {<<>>, <<Reset>>} /\ early \in Seq(Numbered) /\ Len(early) <= EarlyLimit
    BY <1>1 DEF ReplayTypes
  <2>3. Arrival(st, <<>>, <<e>>)
    BY <1>1, <1>2, <1>4, <1>9, <2>2, RouteFacts, Passed
  <2>4. PICK r, t : TakesIn(st, <<>>, <<e>>, r, t)
    BY <2>3 DEF Arrival
  <2>5. /\ st.gen = route.gen /\ st.seq = route.seq /\ st.early = early
        /\ st.joined = chan.joined
    BY DEF Begun
  <2> DEFINE es == <<e>>
  <2>6. /\ es \in Seq(Numbered) /\ Len(es) = 1 /\ es[1] = e /\ 1 \in 1 .. Len(es)
        /\ \A j \in 1 .. Len(es) : es[j] = e
    BY <1>4
  <2> HIDE DEF st, es
  <2>7. TakesIn(st, <<>>, es, r, t)
    BY <2>4 DEF es
  <2>8. /\ route' \in [gen : 0 .. MaxRuntimes, seq : 0 .. MaxEvents] /\ route'.gen = route.gen
        /\ early' \in Seq(Numbered) /\ Len(early') <= EarlyLimit
        /\ (route' = [gen |-> 0, seq |-> 0] \/ (route'.gen # 0 /\ Past(route)'))
        /\ \A i \in 1 .. Len(early') : Past(early[i])'
    <3>1. st.gen = 0 => st.seq = 0
      BY <2>5, RouteFacts
    <3>2. st.gen # 0 => Past(st)
      BY <2>5, RouteFacts DEF Past, Now
    <3>3. \A i \in 1 .. Len(st.early) : Past(st.early[i])
      BY <1>1, <2>5 DEF RouteInv
    <3>4. \A j \in 1 .. Len(es) : Past(es[j])
      BY <1>3, <2>6 DEF Past
    <3> QED
      BY <1>1, <1>2, <2>5, <2>7, <3>1, <3>2, <3>3, <3>4, StillPast
  <2>9. /\ Took(st, es, r, t) /\ t \in Seq(Entries)
        /\ route' = [gen |-> st.gen, seq |-> r.seq] /\ early' = r.early
        /\ chan' \in Channels /\ Len(chan'.entries) <= KeepEntries
        /\ chan'.joined = st.joined /\ flight' \in Seq(Entries) /\ StreamInv'
        /\ client.mode # "told" /\ Fed' =>
             Fed /\ ToRead \in Seq(Entries) /\ ToRead' = ToRead \o (<<>> \o t)
    BY <2>7 DEF TakesIn, Took
  <2>10. wire' \in Seq(WireFrames) /\ WireInv'
    <3>1. Sources(early, route.seq, <<wire[1]>>)
      BY <2>5, <2>7, ArrivedFrom DEF es, e
    <3> QED
      BY <1>2, <1>3, <1>9, <2>8, <3>1, EventTaken DEF e
  <2>11. ReplayTypes'
    BY <1>1, <1>2, <1>9, <2>8, <2>9, <2>10 DEF ReplayTypes, Channels
  <2>12. RouteInv'
    BY <1>1, <1>2, <1>9, <2>1, <2>8 DEF RouteInv
  <2>13. JoinInv'
    <3>1. client'.mode = "open" => client.mode = "open" /\ ~st.joined
      BY <1>1, <1>2, <2>5 DEF JoinInv
    <3> QED
      BY <1>1, <2>2, <2>9, <3>1, StillWaits
  <2>14. FollowInv'
    <3> SUFFICES ASSUME client.mode = "live", Fed'
                 PROVE  /\ Continues(ToRead', client'.gen, client'.seq)
                        /\ Quiet(ToRead', Len(ToRead')) => InStep'
      BY <1>2 DEF FollowInv
    <3>1. Fed /\ ToRead \in Seq(Entries) /\ ToRead' = ToRead \o t
      <4>1. Fed /\ ToRead \in Seq(Entries) /\ ToRead' = ToRead \o (<<>> \o t)
        BY <2>9
      <4>2. <<>> \o t = t
        BY <2>9, ConcatEmptySeq
      <4> QED
        BY <4>1, <4>2
    <3>2. Synced => \A i \in 1 .. Len(st.early) : st.early[i].gen # st.gen
      BY <2>5 DEF Synced, InStep
    <3>3. Synced => route.gen = hermes.gen
      BY <2>1 DEF Synced, InStep
    <3>4. ASSUME Synced, st.seq = 0, t # <<>>, t[1] # Reset
          PROVE  t[1].seq <= client.seq + 1
      <4>1. 1 \in 1 .. Len(t) /\ Quiet(t, 1)
        <5>1. Len(t) \in Nat /\ Len(t) # 0
          BY <2>9, <3>4, EmptySeq
        <5> QED
          BY <3>4, <5>1 DEF Quiet
      <4>2. t[1] = e
        BY <2>6, <2>9, <4>1 DEF Took, Emits
      <4>3. client.seq \in Nat /\ hermes.seq \in Nat /\ e.seq <= hermes.seq
        BY <1>1, <1>3, Numbers DEF Now
      <4>4. CASE hermes.seq <= client.seq
        BY <1>3, <4>2, <4>3, <4>4
      <4>5. CASE ~(hermes.seq <= client.seq)
        <5>1. client.seq + 1 \in client.seq + 1 .. hermes.seq /\ route.seq = 0
          BY <2>5, <3>4, <4>3, <4>5
        <5>2. PICK i \in 1 .. Len(wire) : wire[i] = Event(hermes.gen, client.seq + 1)
          BY <2>1, <3>4, <5>1 DEF Synced, InStep
        <5>3. wire[i].seq = client.seq + 1 /\ wire[i].kind = "event"
          BY <5>2 DEF Event, Frame
        <5>4. i # 1 => e.seq < wire[i].seq
          <6>1. i # 1 => 1 < i
            BY <1>2
          <6>2. ~IsReply(wire[i])
            BY <5>3 DEF IsReply
          <6> QED
            BY <1>1, <1>2, <1>3, <6>1, <6>2 DEF WireInv, e
        <5>5. i = 1 => e.seq = wire[i].seq
          BY DEF e
        <5> QED
          BY <1>3, <4>2, <4>3, <5>3, <5>4, <5>5
      <4> QED
        BY <4>4, <4>5
    <3>5. Synced => r.seq # 0
      <4>1. es[1].gen = st.gen => es[1].seq <= r.seq
        BY <2>6, <2>9 DEF Took, Reached
      <4>2. Synced => e.gen = st.gen
        BY <1>3, <2>5, <3>3 DEF Now
      <4> QED
        BY <1>3, <2>6, <4>1, <4>2
    <3> QED
      BY <1>1, <1>2, <2>5, <2>9, <3>1, <3>2, <3>4, <3>5, SyncedOn
  <2> QED
    BY <2>9, <2>10, <2>11, <2>12, <2>13, <2>14 DEF ReplayInv
<1> QED
  BY <1>5, <1>7, <1>8, <1>9

\* A client that has opened the session follows it from its snapshot on.
LEMMA JoinedOn ==
  ASSUME ReplayTypes, JoinInv, client.mode = "open", Fed,
         NEW st, NEW es, NEW r, NEW t, Took(st, es, r, t),
         ToRead \in Seq(Entries), ToRead' = ToRead \o t,
         st.gen # 0, st.joined, chan'.joined = st.joined, st.early = <<>>,
         \A j \in 1 .. Len(es) : es[j].gen = st.gen => es[j].seq <= client'.seq,
         st.seq <= client'.seq, client'.gen = st.gen, client'.seq \in Nat,
         route' = [gen |-> st.gen, seq |-> r.seq], early' = r.early,
         \A m \in client'.seq + 1 .. hermes'.seq :
            \E i \in 1 .. Len(wire') : wire'[i] = Event(hermes'.gen, m)
  PROVE  /\ Continues(ToRead', client'.gen, client'.seq)
         /\ Quiet(ToRead', Len(ToRead')) => InStep'
<1>1. /\ t \in Seq(Entries) /\ Len(t) \in Nat /\ Len(ToRead) \in Nat
      /\ \A j \in 1 .. Len(es) : es[j] \in Numbered /\ es[j].seq \in Nat
  <2>1. t \in Seq(Entries) /\ es \in Seq(Numbered)
    BY DEF Took
  <2> QED
    BY <2>1, EntryFacts
<1>2. \A i \in 1 .. Len(ToRead) : ToRead[i] = Reset
  BY DEF JoinInv
<1>3. ASSUME Quiet(ToRead, Len(ToRead)) PROVE ToRead = <<>>
  <2>1. CASE Len(ToRead) = 0
    BY <2>1, EmptySeq
  <2>2. CASE Len(ToRead) # 0
    <3>1. Len(ToRead) \in 1 .. Len(ToRead)
      BY <1>1, <2>2
    <3> QED
      BY <1>2, <1>3, <3>1 DEF Quiet
  <2> QED
    BY <2>1, <2>2
<1>4. Continues(ToRead, client'.gen, client'.seq)
  <2> SUFFICES ASSUME NEW i \in 1 .. Len(ToRead), Quiet(ToRead, i) PROVE FALSE
    BY DEF Continues
  <2> QED
    BY <1>1, <1>2 DEF Quiet
<1>5. ASSUME NEW i \in 1 .. Len(t), Quiet(t, i)
      PROVE  /\ t[i].gen = client'.gen /\ t[i].seq <= client'.seq
             /\ i # 1 => t[i].seq = t[i - 1].seq + 1
  <2>1. /\ \E j \in 1 .. Len(es) : t[i] = es[j] /\ es[j].gen = st.gen
        /\ IF i = 1 THEN st.seq = 0 \/ t[i].seq = st.seq + 1 ELSE t[i].seq = t[i - 1].seq + 1
    BY <1>5 DEF Took, Emits
  <2> QED
    BY <2>1
<1>6. ASSUME Quiet(ToRead, Len(ToRead)) PROVE Follows(ToRead, t, client'.gen, client'.seq)
  <2> SUFFICES ASSUME NEW i \in 1 .. Len(t), Quiet(t, i)
               PROVE  /\ t[i].gen = client'.gen
                      /\ IF i # 1 THEN t[i].seq = t[i - 1].seq + 1
                         ELSE IF ToRead = <<>> THEN t[i].seq <= client'.seq + 1
                              ELSE t[i].seq = ToRead[Len(ToRead)].seq + 1
    BY DEF Follows
  <2>1. t[i].seq \in Nat
    <3>1. t[i] \in Entries /\ t[i] # Reset
      BY <1>1, ElementOfSeq DEF Quiet
    <3> QED
      BY <3>1, EntryFacts
  <2> QED
    BY <1>3, <1>5, <1>6, <2>1
<1>7. Continues(ToRead', client'.gen, client'.seq)
  BY <1>1, <1>4, <1>6, ContinuesOn
<1>8. ASSUME Quiet(ToRead', Len(ToRead'))
      PROVE  InStep'
  <2>1. Quiet(ToRead, Len(ToRead)) /\ Quiet(t, Len(t))
    BY <1>1, <1>8, QuietCat
  <2>2. ToRead' = t
    BY <1>1, <1>3, <2>1, ConcatEmptySeq
  <2>3. r.seq = IF t = <<>> THEN st.seq ELSE t[Len(t)].seq
    BY <2>1 DEF Took, Emits
  <2>4. \A i \in 1 .. Len(early') : early'[i].gen # route'.gen
    <3>1. Len(st.early) = 0
      OBVIOUS
    <3>2. \A i \in 1 .. Len(r.early) : \E j \in 1 .. Len(es) :
            r.early[i] = es[j] /\ es[j].gen # st.gen
      BY <3>1 DEF Took, Reached
    <3> QED
      BY <3>2
  <2>5. IF ToRead' = <<>> THEN route'.seq <= client'.seq
                          ELSE route'.seq = ToRead'[Len(ToRead')].seq
    BY <2>2, <2>3
  <2> QED
    BY <2>4, <2>5 DEF InStep
<1> QED
  BY <1>7, <1>8

LEMMA MappedKeeps ==
  ASSUME ReplayInv, Mapped
  PROVE  ReplayInv'
<1> DEFINE f == wire[1]
           joined == chan.joined \/ f.kind = "join"
           st == Begun(f.gen, route.seq, <<>>, <<>>, joined)
<1>1. ReplayTypes /\ RouteInv /\ WireInv /\ StreamInv /\ JoinInv /\ FollowInv
  BY DEF ReplayInv
<1>2. /\ wire # <<>> /\ f.kind \in {"join", "reopen"} /\ wire' = Tail(wire) /\ Head(wire) = f
      /\ UNCHANGED <<hermes, faults, link, deferred>> /\ asked' = "none"
      /\ Len(wire) \in Nat /\ 1 \in 1 .. Len(wire)
      /\ Deliver(f.gen, route.seq, <<>>, <<>>, early,
                 [chan EXCEPT !.joined = @ \/ f.kind = "join"])
      /\ client' = IF f.kind = "join" /\ client.mode = "open"
                   THEN [client EXCEPT !.mode = "live", !.gen = f.gen, !.seq = f.seq]
                   ELSE client
  <2>1. wire # <<>> /\ Head(wire).kind \in {"join", "reopen"} /\ wire' = Tail(wire)
    BY DEF Mapped, Receive
  <2>2. wire \in Seq(WireFrames)
    BY <1>1 DEF ReplayTypes
  <2>3. Len(wire) \in Nat /\ Len(wire) > 0 /\ Head(wire) = f
    BY <2>1, <2>2, EmptySeq
  <2>4. /\ UNCHANGED <<hermes, faults, link, deferred>> /\ asked' = "none"
        /\ Deliver(Head(wire).gen, route.seq, <<>>, <<>>, early,
                   [chan EXCEPT !.joined = @ \/ Head(wire).kind = "join"])
        /\ client' = IF Head(wire).kind = "join" /\ client.mode = "open"
                     THEN [client EXCEPT !.mode = "live", !.gen = Head(wire).gen,
                                         !.seq = Head(wire).seq]
                     ELSE client
    BY DEF Mapped, Receive, Opened
  <2>5. 1 \in 1 .. Len(wire)
    BY <2>3
  <2> HIDE DEF f
  <2>6. /\ Deliver(f.gen, route.seq, <<>>, <<>>, early,
                   [chan EXCEPT !.joined = @ \/ f.kind = "join"])
        /\ client' = IF f.kind = "join" /\ client.mode = "open"
                     THEN [client EXCEPT !.mode = "live", !.gen = f.gen, !.seq = f.seq]
                     ELSE client
    BY <2>3, <2>4
  <2> QED
    BY <2>1, <2>3, <2>4, <2>5, <2>6
<1>3. /\ IsReply(f) /\ Numbering(f) /\ f \in WireFrames
      /\ f.gen \in 0 .. MaxRuntimes /\ f.seq \in 0 .. MaxEvents /\ f.seq \in Nat
  <2>1. f \in WireFrames /\ f.seq \in Nat
    BY <1>1, <1>2, Numbers
  <2> QED
    BY <1>2, <2>1 DEF IsReply, Numbering, WireFrames
<1>4. Divides(1) /\ link = "up"
  BY <1>1, <1>2, <1>3 DEF WireInv
<1>5. /\ f.gen = hermes.gen /\ f.seq <= hermes.seq /\ f.gen # 0
      /\ \A m \in f.seq + 1 .. hermes.seq : \E i \in 2 .. Len(wire) : wire[i] = Event(hermes.gen, m)
      /\ \A i \in 1 .. Len(early) : early[i].gen = hermes.gen => early[i].seq <= f.seq
      /\ route.gen = hermes.gen => route.seq <= f.seq
  <2>1. hermes.gen > 0 /\ hermes.gen \in Nat
    BY <1>1, Numbers
  <2> QED
    BY <1>4, <2>1 DEF Divides, Now
<1>6. /\ wire' \in Seq(WireFrames) /\ WireInv'
      /\ \A m : (\E i \in 2 .. Len(wire) : wire[i] = Event(hermes.gen, m))
                  => \E i \in 1 .. Len(wire') : wire'[i] = Event(hermes.gen, m)
  BY <1>1, <1>2, <1>3, AnswerTaken
<1>7. deferred = <<>> /\ route.gen \in {0, hermes.gen} /\ route.seq <= f.seq
  <2>1. deferred = <<>> /\ route.gen \in {0, hermes.gen}
    BY <1>1, <1>4 DEF RouteInv, Recovering
  <2>2. route.gen = 0 => route.seq = 0
    BY RouteFacts
  <2> QED
    BY <1>3, <1>5, <2>1, <2>2
<1>8. /\ client' \in [mode : {"told", "open", "live"}, stream : BOOLEAN, cursor : Nat,
                      gen : 0 .. MaxRuntimes, seq : 0 .. MaxEvents]
      /\ client'.stream = client.stream /\ client'.cursor = client.cursor
      /\ client'.mode = "told" <=> client.mode = "told"
      /\ ~(f.kind = "join" /\ client.mode = "open") => client' = client
      /\ f.kind = "join" /\ client.mode = "open" =>
           client'.mode = "live" /\ client'.gen = f.gen /\ client'.seq = f.seq
  BY <1>2, <1>3, RouteFacts
<1> HIDE DEF f
<1>9. early \in Seq(Numbered) /\ <<>> \in Seq(Numbered) /\ Len(<<>>) = 0 /\ EarlyLimit \in Nat
  BY <1>1, ReplayAssumption DEF ReplayTypes
<1>10. Arrival(st, <<>>, early)
  <2>1. /\ <<>> \in {<<>>, <<Reset>>} /\ joined \in BOOLEAN /\ Len(<<>>) <= EarlyLimit
        /\ route.seq \in 0 .. MaxEvents
    BY <1>9, RouteFacts
  <2>2. [chan EXCEPT !.joined = @ \/ f.kind = "join"] = [chan EXCEPT !.joined = joined]
    BY <1>1 DEF ReplayTypes
  <2>3. Deliver(f.gen, route.seq, <<>>, <<>>, early, [chan EXCEPT !.joined = joined])
    BY <1>2, <2>2
  <2> HIDE DEF joined
  <2> QED
    BY <1>1, <1>3, <1>8, <1>9, <2>1, <2>3, Passed
<1>11. PICK r, t : TakesIn(st, <<>>, early, r, t)
  BY <1>10 DEF Arrival
<1>12. /\ st.gen = f.gen /\ st.seq = route.seq /\ st.early = <<>> /\ st.joined = joined
  BY DEF Begun
<1> HIDE DEF st, joined
<1>13. /\ route' \in [gen : 0 .. MaxRuntimes, seq : 0 .. MaxEvents] /\ route'.gen = f.gen
       /\ early' \in Seq(Numbered) /\ Len(early') <= EarlyLimit
       /\ (route' = [gen |-> 0, seq |-> 0] \/ (route'.gen # 0 /\ Past(route)'))
       /\ \A i \in 1 .. Len(early') : Past(early[i])'
  <2>1. st.gen # 0
    BY <1>5, <1>12
  <2>2. Past(st)
    <3>1. hermes.seq \in Nat /\ route.seq \in Nat
      BY <1>1, Numbers
    <3> QED
      BY <1>3, <1>5, <1>7, <1>12, <3>1 DEF Past, Now
  <2>3. \A i \in 1 .. Len(st.early) : Past(st.early[i])
    BY <1>9, <1>12
  <2>4. \A j \in 1 .. Len(early) : Past(early[j])
    BY <1>1 DEF RouteInv
  <2> QED
    BY <1>1, <1>2, <1>11, <1>12, <2>1, <2>2, <2>3, <2>4, StillPast
<1>14. /\ Took(st, early, r, t) /\ t \in Seq(Entries)
       /\ route' = [gen |-> st.gen, seq |-> r.seq] /\ early' = r.early
       /\ chan' \in Channels /\ Len(chan'.entries) <= KeepEntries
       /\ chan'.joined = st.joined /\ flight' \in Seq(Entries) /\ StreamInv'
       /\ client.mode # "told" /\ Fed' =>
            Fed /\ ToRead \in Seq(Entries) /\ ToRead' = ToRead \o (<<>> \o t)
  BY <1>11 DEF TakesIn, Took
<1>15. JoinInv'
  <2>1. client'.mode = "open" => client.mode = "open" /\ ~st.joined
    <3> SUFFICES ASSUME client'.mode = "open" PROVE client.mode = "open" /\ ~st.joined
      OBVIOUS
    <3>1. client.mode = "open" /\ f.kind # "join"
      BY <1>8
    <3> QED
      BY <1>1, <1>12, <3>1 DEF JoinInv, joined
  <2>2. <<>> \in {<<>>, <<Reset>>}
    OBVIOUS
  <2> QED
    BY <1>1, <1>14, <2>1, <2>2, StillWaits
<1>16. FollowInv'
  <2> SUFFICES ASSUME client'.mode = "live", Fed'
               PROVE  /\ Continues(ToRead', client'.gen, client'.seq)
                      /\ Quiet(ToRead', Len(ToRead')) => InStep'
    BY DEF FollowInv
  <2>1. client.mode # "told"
    BY <1>8
  <2>2. Fed /\ ToRead \in Seq(Entries) /\ ToRead' = ToRead \o t
    <3>1. Fed /\ ToRead \in Seq(Entries) /\ ToRead' = ToRead \o (<<>> \o t)
      BY <1>14, <2>1
    <3>2. <<>> \o t = t
      BY <1>14, ConcatEmptySeq
    <3> QED
      BY <3>1, <3>2
  <2>3. CASE f.kind = "join" /\ client.mode = "open"
    <3>1. client'.gen = st.gen /\ client'.seq = f.seq
      BY <1>8, <1>12, <2>3
    <3>2. /\ st.gen # 0 /\ st.joined /\ st.early = <<>> /\ st.seq <= client'.seq
          /\ \A j \in 1 .. Len(early) : early[j].gen = st.gen => early[j].seq <= client'.seq
      BY <1>5, <1>7, <1>12, <2>3, <3>1 DEF joined
    <3>3. \A m \in client'.seq + 1 .. hermes'.seq :
            \E i \in 1 .. Len(wire') : wire'[i] = Event(hermes'.gen, m)
      BY <1>2, <1>5, <1>6, <3>1
    <3> QED
      BY <1>1, <1>3, <1>14, <2>2, <2>3, <3>1, <3>2, <3>3, JoinedOn
  <2>4. CASE ~(f.kind = "join" /\ client.mode = "open")
    <3>1. client' = client /\ client.mode = "live"
      BY <1>8, <2>4
    <3>2. ASSUME Synced
          PROVE  /\ route.gen = hermes.gen /\ chan.joined
                 /\ \A j \in 1 .. Len(early) : early[j].gen # st.gen
      BY <1>5, <1>7, <1>12, <3>2 DEF Synced, InStep
    <3>3. CASE ~Synced
      <4>1. ~Quiet(ToRead, Len(ToRead)) /\ Continues(ToRead, client.gen, client.seq)
        BY <1>1, <2>2, <3>1, <3>3 DEF FollowInv, Synced
      <4>2. Continues(ToRead', client.gen, client.seq)
        BY <1>14, <2>2, <4>1, ContinuesOn
      <4>3. ~Quiet(ToRead', Len(ToRead'))
        BY <1>14, <2>2, <4>1, QuietCat
      <4> QED
        BY <3>1, <4>2, <4>3
    <3>4. CASE Synced
      <4>1. st.gen = route.gen /\ (chan.joined => st.joined)
        BY <1>5, <1>12, <3>2, <3>4 DEF joined
      <4>2. \A i \in 1 .. Len(st.early) : st.early[i].gen # st.gen
        BY <1>9, <1>12
      <4>3. ASSUME t # <<>>, t[1] # Reset PROVE FALSE
        <5>1. 1 \in 1 .. Len(t)
          BY <1>14, <4>3, EmptySeq
        <5>2. Quiet(t, 1)
          BY <4>3 DEF Quiet
        <5>3. \E j \in 1 .. Len(early) : t[1] = early[j] /\ early[j].gen = st.gen
          BY <1>14, <5>1, <5>2 DEF Took, Emits
        <5> QED
          BY <3>2, <3>4, <5>3
      <4>4. ASSUME link' = "up", r.seq = 0, NEW m \in client.seq + 1 .. hermes'.seq
            PROVE  \E i \in 1 .. Len(wire') : wire'[i] = Event(hermes'.gen, m)
        <5>1. r.seq >= st.seq /\ route.seq \in Nat
          BY <1>1, <1>14, Numbers DEF Took, Reached
        <5>2. route.seq = 0
          BY <1>12, <4>4, <5>1
        <5>3. \E i \in 1 .. Len(wire) : wire[i] = Event(hermes.gen, m)
          BY <1>2, <1>4, <3>4, <4>4, <5>2 DEF Synced, InStep
        <5>4. wire[1] # Event(hermes.gen, m)
          BY <1>3 DEF IsReply, Event, Frame, f
        <5>5. \E i \in 2 .. Len(wire) : wire[i] = Event(hermes.gen, m)
          BY <5>3, <5>4
        <5> QED
          BY <1>2, <1>6, <5>5
      <4> QED
        BY <1>1, <1>12, <1>14, <2>2, <3>1, <4>1, <4>2, <4>3, <4>4, SyncedOn
    <3> QED
      BY <3>3, <3>4
  <2> QED
    BY <2>3, <2>4
<1>17. Settles(f.gen)
  BY <1>13, <1>14, <1>15, <1>16 DEF Settles
<1>18. deferred' = <<>> /\ faults' \in Nat /\ link' = "up"
  BY <1>2, <1>4, <1>7, RouteFacts
<1> QED
  BY <1>2, <1>5, <1>6, <1>8, <1>17, <1>18, Resubscribes

-----------------------------------------------------------------------------
(* The theorems                                                            *)

LEMMA ReplayStarts ==
  ReplayInit => ReplayInv
<1> SUFFICES ASSUME ReplayInit PROVE ReplayInv
  OBVIOUS
<1>1. \A S : <<>> \in Seq(S)
  OBVIOUS
<1>2. /\ DeferLimit \in Nat /\ EarlyLimit \in Nat /\ KeepEntries \in Nat
      /\ MaxRuntimes \in Nat \ {0} /\ MaxEvents \in Nat
  BY ReplayAssumption
<1>3. /\ hermes = [gen |-> 1, seq |-> 0, ring |-> 0, gone |-> FALSE]
      /\ wire = <<>> /\ asked = "none" /\ link = "up" /\ route = [gen |-> 0, seq |-> 0]
      /\ deferred = <<>> /\ early = <<>> /\ flight = <<>> /\ faults = 0
      /\ chan = [open |-> FALSE, joined |-> FALSE, dropped |-> 0, entries |-> <<>>]
      /\ client = [mode |-> "told", stream |-> FALSE, cursor |-> 0, gen |-> 0, seq |-> 0]
  BY DEF ReplayInit, EmptyChannel
<1>4. Len(wire) = 0 /\ Len(deferred) = 0 /\ Len(early) = 0 /\ Len(chan.entries) = 0
  BY <1>3
<1>5. ReplayTypes
  <2>1. hermes \in [gen : 1 .. MaxRuntimes, seq : 0 .. MaxEvents, ring : Nat, gone : BOOLEAN]
    BY <1>2, <1>3
  <2>2. chan \in [open : BOOLEAN, joined : BOOLEAN, dropped : Nat, entries : Seq(Entries)]
    BY <1>1, <1>3
  <2>3. client \in [mode : {"told", "open", "live"}, stream : BOOLEAN, cursor : Nat,
                    gen : 0 .. MaxRuntimes, seq : 0 .. MaxEvents]
    BY <1>2, <1>3
  <2>4. route \in [gen : 0 .. MaxRuntimes, seq : 0 .. MaxEvents]
    BY <1>2, <1>3
  <2> QED
    BY <1>1, <1>2, <1>3, <1>4, <2>1, <2>2, <2>3, <2>4 DEF ReplayTypes
<1>6. RouteInv
  BY <1>3, <1>4 DEF RouteInv
<1>7. WireInv
  BY <1>4 DEF WireInv
<1>8. StreamInv /\ JoinInv /\ FollowInv
  BY <1>3 DEF StreamInv, JoinInv, FollowInv, Streaming
<1> QED
  BY <1>5, <1>6, <1>7, <1>8 DEF ReplayInv

LEMMA StutterKeeps ==
  ASSUME ReplayInv, UNCHANGED replayVars
  PROVE  ReplayInv'
<1>1. /\ hermes' = hermes /\ wire' = wire /\ asked' = asked /\ link' = link /\ route' = route
      /\ deferred' = deferred /\ early' = early /\ chan' = chan /\ flight' = flight
      /\ client' = client /\ faults' = faults
  BY DEF replayVars, brokerVars
<1>2. Aside
  BY <1>1 DEF Aside
<1>3. StreamInv' /\ JoinInv' /\ FollowInv'
  BY <1>1, <1>2, WaitsOn
<1>4. ReplayTypes'
  BY <1>1 DEF ReplayInv, ReplayTypes
<1>5. RouteInv'
  BY <1>1 DEF ReplayInv, RouteInv, Past, Now, Recovering
<1>6. WireInv'
  BY <1>1 DEF ReplayInv, WireInv, Divides, Now
<1> QED
  BY <1>3, <1>4, <1>5, <1>6 DEF ReplayInv

\* The invariant of the events' way to the client: what lies on the wire, what is held
\* back, what is early, what the channel keeps and what the stream brings fit together
\* after every step of the broker, as long as Hermes replaces no runtime the broker
\* follows (realtimeBroker.ts:282 expects that).
THEOREM ReplayInductive ==
  ASSUME ~Rebinds
  PROVE  ReplaySpec => []ReplayInv
<1>1. ReplayInit => ReplayInv
  BY ReplayStarts
<1>2. ReplayInv /\ [ReplayNext]_replayVars => ReplayInv'
  <2> SUFFICES ASSUME ReplayInv, [ReplayNext]_replayVars PROVE ReplayInv'
    OBVIOUS
  <2>1. CASE Publish
    BY <2>1, PublishKeeps
  <2>2. CASE Forget \/ Delete
    BY <2>2, ForgetKeeps
  <2>3. CASE NewRuntime
    BY <2>3, NewRuntimeKeeps
  <2>4. CASE HermesAnswers
    BY <2>4, AnswersKeep
  <2>5. CASE Connect \/ Reopen \/ Join
    BY <2>5, CallKeeps
  <2>6. CASE LinkLost
    BY <2>6, LinkLostKeeps
  <2>7. CASE BrokerReceives
    <3>1. CASE LiveEvent
      BY <3>1, LiveEventKeeps
    <3>2. CASE Resumed
      BY <3>2, ResumedKeeps
    <3>3. CASE Replayed
      BY <3>3, ReplayedKeeps
    <3>4. CASE Missing
      BY <3>4, MissingKeeps
    <3>5. CASE Mapped
      BY <3>5, MappedKeeps
    <3> QED
      BY <2>7, <3>1, <3>2, <3>3, <3>4, <3>5 DEF BrokerReceives
  <2>8. CASE Trim
    BY <2>8, TrimKeeps
  <2>9. CASE RemoveChannel
    BY <2>9, RemoveKeeps
  <2>10. CASE OpenChannel
    BY <2>10, OpenKeeps
  <2>11. CASE Subscribe
    BY <2>11, SubscribeKeeps
  <2>12. CASE ReadEntry
    BY <2>12, ReadKeeps
  <2>13. CASE StreamLost
    BY <2>13, StreamLostKeeps
  <2>14. CASE UNCHANGED replayVars
    BY <2>14, StutterKeeps
  <2> QED
    BY <2>1, <2>2, <2>3, <2>4, <2>5, <2>6, <2>7, <2>8, <2>9, <2>10, <2>11, <2>12, <2>13,
       <2>14 DEF ReplayNext
<1> QED
  BY <1>1, <1>2, PTL DEF ReplaySpec

\* The types of the model, the limits of the lists of waiting frames, and the end of the
\* stream, which is the last entry of the channel (realtimeBroker.ts, httpRealtime.ts).
THEOREM ReplayTypeInvariant ==
  ASSUME ~Rebinds
  PROVE  ReplaySpec => []ReplayTypeOK
<1>1. ReplayInv => ReplayTypeOK
  <2> SUFFICES ASSUME ReplayInv PROVE ReplayTypeOK
    OBVIOUS
  <2>1. ReplayTypes /\ RouteInv /\ StreamInv
    BY DEF ReplayInv
  <2> QED
    BY <2>1 DEF ReplayTypes, RouteInv, StreamInv, ReplayTypeOK, Entries
<1> QED
  BY <1>1, ReplayInductive, PTL

LEMMA ShownNext ==
  ASSUME ReplayInv, ReadEntry, client.mode = "live", client'.mode = "live"
  PROVE  client'.gen = client.gen /\ client'.seq <= client.seq + 1
<1> DEFINE f == Head(flight)
<1>1. /\ Streaming /\ flight # <<>> /\ flight \in Seq(Entries) /\ FollowInv
      /\ client \in [mode : {"told", "open", "live"}, stream : BOOLEAN, cursor : Nat,
                     gen : 0 .. MaxRuntimes, seq : 0 .. MaxEvents]
      /\ client' = IF f.kind = "reset"
                   THEN [client EXCEPT !.mode = "told", !.stream = FALSE]
                   ELSE IF f.gen = client.gen /\ f.seq <= client.seq
                        THEN [client EXCEPT !.cursor = @ + 1]
                        ELSE [client EXCEPT !.cursor = @ + 1, !.gen = f.gen, !.seq = f.seq]
  BY DEF ReplayInv, ReplayTypes, ReadEntry
<1>2. f = flight[1] /\ 1 \in 1 .. Len(flight)
  BY <1>1, EmptySeq
<1>3. f.kind # "reset"
  BY <1>1
<1>4. f # Reset
  BY <1>3 DEF Reset, Frame
<1>5. Continues(flight, client.gen, client.seq)
  BY <1>1 DEF FollowInv, Fed, ToRead
<1>6. Quiet(flight, 1)
  BY <1>2, <1>4 DEF Quiet
<1>7. f.gen = client.gen /\ f.seq <= client.seq + 1
  BY <1>2, <1>5, <1>6 DEF Continues
<1>8. client.seq \in Nat
  BY <1>1, ReplayAssumption
<1> HIDE DEF f
<1>9. CASE f.gen = client.gen /\ f.seq <= client.seq
  BY <1>1, <1>3, <1>8, <1>9
<1>10. CASE ~(f.gen = client.gen /\ f.seq <= client.seq)
  BY <1>1, <1>3, <1>7, <1>10
<1> QED
  BY <1>9, <1>10

\* What a client that follows a session is shown is known to it or is the next event of
\* the same runtime, whatever was lost, replayed, held back, trimmed or evicted on the
\* way; before a gap it is told to start over (realtimeBroker.ts, httpRealtime.ts,
\* realtimeApi.ts).
THEOREM ShownInOrder ==
  ASSUME ~Rebinds
  PROVE  ReplaySpec => NoSilentGap
<1>1. ReplayInv /\ [ReplayNext]_replayVars =>
        [client.mode = "live" /\ client'.mode = "live"
           => client'.gen = client.gen /\ client'.seq <= client.seq + 1]_replayVars
  <2> SUFFICES ASSUME ReplayInv, [ReplayNext]_replayVars,
                      client.mode = "live", client'.mode = "live"
               PROVE  client'.gen = client.gen /\ client'.seq <= client.seq + 1
    OBVIOUS
  <2>1. /\ client \in [mode : {"told", "open", "live"}, stream : BOOLEAN, cursor : Nat,
                       gen : 0 .. MaxRuntimes, seq : 0 .. MaxEvents]
        /\ client.seq \in Nat
    BY ReplayAssumption DEF ReplayInv, ReplayTypes
  <2>2. CASE ReadEntry
    BY <2>2, ShownNext
  <2>3. CASE client'.gen = client.gen /\ client'.seq = client.seq
    BY <2>1, <2>3
  <2>4. CASE UNCHANGED client
    BY <2>1, <2>4
  <2>5. CASE Mapped
    <3>1. client' = client
      BY <2>5 DEF Mapped
    <3> QED
      BY <2>4, <3>1
  <2>6. CASE OpenChannel
    BY <2>6 DEF OpenChannel
  <2>7. CASE Subscribe
    <3>1. client' = [client EXCEPT !.stream = TRUE] \/ client' = [client EXCEPT !.mode = "told"]
      BY <2>7 DEF Subscribe
    <3> QED
      BY <2>1, <2>3, <3>1
  <2>8. CASE StreamLost
    BY <2>1, <2>3, <2>8 DEF StreamLost
  <2>9. CASE Publish \/ Forget \/ NewRuntime \/ Delete \/ HermesAnswers \/ Connect
    BY <2>4, <2>9 DEF Publish, Forget, NewRuntime, Delete, HermesAnswers, Connect
  <2>10. CASE LinkLost \/ Reopen \/ Trim \/ RemoveChannel \/ Join
    BY <2>4, <2>10 DEF LinkLost, Reopen, Trim, RemoveChannel, Join
  <2>11. CASE LiveEvent \/ Resumed \/ Replayed \/ Missing
    BY <2>4, <2>11 DEF LiveEvent, Resumed, Replayed, Missing
  <2>12. CASE UNCHANGED replayVars
    BY <2>4, <2>12 DEF replayVars
  <2> QED
    BY <2>2, <2>5, <2>6, <2>7, <2>8, <2>9, <2>10, <2>11, <2>12 DEF ReplayNext, BrokerReceives
<1> QED
  BY <1>1, ReplayInductive, PTL DEF ReplaySpec, NoSilentGap

-----------------------------------------------------------------------------
(* The rest of the types of commands                                       *)

CommandSides ==
  /\ print \in [Requests -> Frames \cup {NoFrame}]
  /\ tail \in Seq(Requests)
  /\ closed \in BOOLEAN /\ restarts \in 0 .. MaxRestarts

\* The queue without those that have ended, up to place n.
Shortens(queue, ended, a, n) ==
  a = [k \in 0 .. n |-> IF k = 0 THEN <<>>
                        ELSE IF queue[k] \in ended THEN a[k - 1] ELSE Append(a[k - 1], queue[k])]

LEMMA ShorteningRuns ==
  ASSUME NEW queue, NEW ended
  PROVE  \A n \in Nat : \E a : Shortens(queue, ended, a, n)
<1> DEFINE next(q, k) == IF queue[k] \in ended THEN q ELSE Append(q, queue[k])
           T == {n \in Nat : \E a : a = [k \in 0 .. n |-> IF k = 0 THEN <<>> ELSE next(a[k - 1], k)]}
<1> HIDE DEF next
<1>1. 0 \in T
  <2> DEFINE a == [k \in 0 .. 0 |-> <<>>]
  <2>1. a = [k \in 0 .. 0 |-> IF k = 0 THEN <<>> ELSE next(a[k - 1], k)]
    OBVIOUS
  <2> QED
    BY <2>1
<1>2. ASSUME NEW n \in Nat, n \in T
      PROVE  n + 1 \in T
  <2>1. PICK a : a = [k \in 0 .. n |-> IF k = 0 THEN <<>> ELSE next(a[k - 1], k)]
    BY <1>2
  <2>2. \A k \in 0 .. n : a[k] = IF k = 0 THEN <<>> ELSE next(a[k - 1], k)
    BY <2>1
  <2> DEFINE b == [k \in 0 .. n + 1 |-> IF k = n + 1 THEN next(a[n], n + 1) ELSE a[k]]
             c == [k \in 0 .. n + 1 |-> IF k = 0 THEN <<>> ELSE next(b[k - 1], k)]
  <2>3. \A k \in 0 .. n + 1 : b[k] = IF k = 0 THEN <<>> ELSE next(b[k - 1], k)
    <3> SUFFICES ASSUME NEW k \in 0 .. n + 1
                 PROVE  b[k] = IF k = 0 THEN <<>> ELSE next(b[k - 1], k)
      OBVIOUS
    <3>1. CASE k = n + 1
      <4>1. b[k] = next(a[n], n + 1) /\ b[n] = a[n] /\ k # 0 /\ k - 1 = n
        BY <3>1
      <4> QED
        BY <3>1, <4>1
    <3>2. CASE k \in 0 .. n
      <4>1. b[k] = a[k] /\ (k # 0 => b[k - 1] = a[k - 1])
        BY <3>2
      <4> QED
        BY <2>2, <3>2, <4>1
    <3> QED
      BY <3>1, <3>2
  <2>4. b = c
    BY <2>3
  <2> HIDE DEF b
  <2>5. \E d : d = [k \in 0 .. n + 1 |-> IF k = 0 THEN <<>> ELSE next(d[k - 1], k)]
    BY <2>4
  <2> QED
    BY <2>5
<1>3. Nat \subseteq T
  <2> HIDE DEF T
  <2> QED
    BY <1>1, <1>2, Counted
<1> QED
  BY <1>3 DEF Shortens, next

LEMMA LeftInType ==
  ASSUME NEW queue \in Seq(Requests), NEW ended
  PROVE  LeftIn(queue, ended) \in Seq(Requests)
<1> DEFINE rest == CHOOSE a : Shortens(queue, ended, a, Len(queue))
<1>1. Shortens(queue, ended, rest, Len(queue)) /\ Len(queue) \in Nat
  BY ShorteningRuns
<1>2. LeftIn(queue, ended) = rest[Len(queue)]
  BY DEF LeftIn, Shortens
<1> HIDE DEF rest
<1>3. \A n \in 0 .. Len(queue) :
        rest[n] = IF n = 0 THEN <<>>
                  ELSE IF queue[n] \in ended THEN rest[n - 1] ELSE Append(rest[n - 1], queue[n])
  BY <1>1 DEF Shortens
<1> DEFINE T == {n \in Nat : n <= Len(queue) => rest[n] \in Seq(Requests)}
<1>4. 0 \in T
  <2>1. 0 \in 0 .. Len(queue)
    BY <1>1
  <2>2. rest[0] = <<>>
    BY <1>3, <2>1
  <2>3. <<>> \in Seq(Requests)
    OBVIOUS
  <2> QED
    BY <2>2, <2>3
<1>5. ASSUME NEW n \in Nat, n \in T, n + 1 <= Len(queue)
      PROVE  rest[n + 1] \in Seq(Requests)
  <2>1. rest[n] \in Seq(Requests) /\ queue[n + 1] \in Requests
    BY <1>1, <1>5
  <2>2. \/ rest[n + 1] = rest[n]
        \/ rest[n + 1] = Append(rest[n], queue[n + 1])
    <3>1. n + 1 \in 0 .. Len(queue) /\ n + 1 # 0 /\ (n + 1) - 1 = n
      BY <1>1, <1>5
    <3> QED
      BY <1>3, <3>1
  <2>3. PICK q \in Seq(Requests), r \in Requests : q = rest[n] /\ r = queue[n + 1]
    BY <2>1
  <2>4. Append(q, r) \in Seq(Requests)
    OBVIOUS
  <2> QED
    BY <2>2, <2>3, <2>4
<1>6. Nat \subseteq T
  <2>1. \A n \in Nat : n \in T => n + 1 \in T
    BY <1>5
  <2> HIDE DEF T
  <2> QED
    BY <1>4, <2>1, Counted
<1> QED
  BY <1>1, <1>2, <1>6

LEMMA CommandSidesStay ==
  ASSUME CommandSides, [Next]_vars
  PROVE  CommandSides'
<1>1. ASSUME NEW ended, NEW state, Finish(ended, state), UNCHANGED closed \/ closed' = TRUE
      PROVE  CommandSides'
  <2>1. LeftIn(tail, ended) \in Seq(Requests)
    BY LeftInType DEF CommandSides
  <2> QED
    BY <1>1, <2>1 DEF Finish, CommandSides
<1>2. ASSUME NEW r \in Requests, Broker(r) \/ Handle(r)
      PROVE  CommandSides'
  <2>1. CASE Refuse(r) \/ Unavailable(r) \/ Answer(r) \/ Timeout(r)
    BY <1>1, <2>1 DEF Refuse, Unavailable, Answer, Timeout
  <2>2. CASE Send(r) \/ Evict(r) \/ Handle(r)
    BY <2>2 DEF Send, Evict, Handle, CommandSides, durableVars, memoryVars
  <2> QED
    BY <1>2, <2>1, <2>2 DEF Broker
<1>3. ASSUME NEW r \in Requests, Client(r)
      PROVE  CommandSides'
  <2>1. ASSUME NEW f \in Frames, Admit(r, f)
        PROVE  CommandSides'
    <3>1. print' = [print EXCEPT ![r] = f]
      BY <2>1 DEF Admit, Reserve
    <3>2. tail' \in Seq(Requests)
      BY <2>1 DEF Admit, CommandSides
    <3> QED
      BY <2>1, <3>1, <3>2 DEF Admit, CommandSides
  <2>2. CASE Read(r) \/ \E f \in Frames : Repeat(r, f)
    BY <2>2 DEF Read, Repeat, CommandSides, durableVars, memoryVars
  <2> QED
    BY <1>3, <2>1, <2>2 DEF Client
<1>4. CASE Disconnect \/ Close
  BY <1>1, <1>4 DEF Disconnect, Close
<1>5. CASE Restart
  <2>1. restarts' \in 0 .. MaxRestarts
    BY <1>5, CommandsAssumption DEF Restart, CommandSides
  <2>2. tail' \in Seq(Requests)
    <3>1. <<>> \in Seq(Requests)
      OBVIOUS
    <3> QED
      BY <1>5, <3>1 DEF Restart
  <2> QED
    BY <1>5, <2>1, <2>2 DEF Restart, CommandSides
<1>6. CASE UNCHANGED vars
  BY <1>6 DEF vars, durableVars, memoryVars, CommandSides
<1> QED
  BY <1>2, <1>3, <1>4, <1>5, <1>6 DEF Next

\* The table of receipts, the queue of the route and what memory keeps hold what they
\* are meant for (realtimeReceipts.ts; realtimeBroker.ts, command and perform).
THEOREM CommandTypeInvariant == Spec => []TypeOK
<1>1. ASSUME Init PROVE CommandSides
  <2>1. <<>> \in Seq(Requests) /\ 0 \in 0 .. MaxRestarts
    BY CommandsAssumption
  <2> QED
    BY <1>1, <2>1 DEF Init, CommandSides
<1>2. CommandInv /\ CommandSides => TypeOK
  BY DEF CommandInv, CommandTypes, CommandSides, TypeOK, Receipts, Final
<1>3. Spec => []CommandSides
  BY <1>1, CommandSidesStay, PTL DEF Spec
<1> QED
  BY <1>2, <1>3, CommandsInductive, PTL
================================================================================
