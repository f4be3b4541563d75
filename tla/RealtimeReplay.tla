--------------------------- MODULE RealtimeReplay ---------------------------
(***************************************************************************)
(* The events of one Hermes session on their way to one client: numbered   *)
(* frames on the upstream socket, recovery after a lost socket, the        *)
(* entries of the client's channel (realtimeBroker.ts), the event stream   *)
(* and the client's cursor (realtimeApi.ts, httpRealtime.ts).              *)
(*                                                                         *)
(* Abstracted: payloads, frames without a number, other routes (recover    *)
(* treats them one after the other).  A new replay epoch is treated as a   *)
(* new runtime, as recover does; a refused replay as a truncated one; a    *)
(* refused or unanswered recovery call as a lost socket, since both end in *)
(* terminate.  Trimming by age or size may come at any time.               *)
(***************************************************************************)
EXTENDS Naturals, Sequences

CONSTANTS
  MaxEvents,    \* bound: events of one runtime
  MaxRuntimes,  \* bound: runtimes Hermes uses for the session
  MaxFaults,    \* bound: lost sockets, lost channels, and what Hermes forgets
  DeferLimit,   \* frames held back during recovery, 512 in the code
  EarlyLimit,   \* frames of an unknown runtime, 1 MiB in the code
  KeepEntries,  \* entries kept for a channel, 10000 in the code
  Rebinds       \* whether Hermes may replace a runtime the broker follows

ASSUME ReplayAssumption ==
  /\ {MaxEvents, MaxRuntimes, MaxFaults, DeferLimit, EarlyLimit, KeepEntries}
       \subseteq Nat
  /\ MaxRuntimes # 0
  /\ Rebinds \in BOOLEAN

VARIABLES
  hermes,    \* runtime of the session, its last event, the first one replayable
  wire,      \* frames sent by Hermes and not yet received
  asked,     \* the call the broker has under way
  link,      \* upstream: "down", "up", or the phase of recover
  route,     \* runtime of the route (0: no route) and last number seen
  deferred,  \* frames held back during recovery
  early,     \* frames of a runtime not mapped yet
  chan,      \* the channel: its entries and how many were evicted
  flight,    \* entries written to the event stream and not yet read
  client,    \* the client's mode, cursor and what it has been shown
  faults     \* bookkeeping of the model

brokerVars == <<link, route, deferred, early>>
replayVars == <<hermes, wire, asked, brokerVars, chan, flight, client, faults>>

Frame(k, g, n) == [kind |-> k, gen |-> g, seq |-> n]
Reset == Frame("reset", 0, 0)
Event(g, n) == Frame("event", g, n)
Events(g, a, b) == [i \in 1 .. (b - a) |-> Event(g, a + i)]

Recovering == link \in {"resume", "since"}
Streaming == client.stream

EmptyChannel == [open |-> TRUE, joined |-> FALSE, dropped |-> 0, entries |-> <<>>]
LastId == chan.dropped + Len(chan.entries)

ReplayInit ==
  /\ hermes = [gen |-> 1, seq |-> 0, ring |-> 0, gone |-> FALSE]
  /\ wire = <<>> /\ asked = "none"
  /\ link = "up" /\ route = [gen |-> 0, seq |-> 0]
  /\ deferred = <<>> /\ early = <<>>
  /\ chan = [EmptyChannel EXCEPT !.open = FALSE] /\ flight = <<>>
  /\ client = [mode |-> "told", stream |-> FALSE, cursor |-> 0, gen |-> 0, seq |-> 0]
  /\ faults = 0

-----------------------------------------------------------------------------
(* The broker: what becomes of received frames                             *)

\* event: a number after the next one means that events were lost.
Gap(seen, n) == seen > 0 /\ n > seen + 1

\* event: one frame, against the runtime and number of the route in st; the client
\* gets it when it has joined the route.
Take(st, e) ==
  IF e.gen # st.gen
  THEN IF Len(st.early) < EarlyLimit
       THEN [st EXCEPT !.early = Append(@, e)]
       ELSE [st EXCEPT !.early = <<>>, !.out = Append(@, Reset)]
  ELSE IF e.seq <= st.seq THEN st
       ELSE [st EXCEPT !.seq = e.seq,
                       !.out = @ \o (IF Gap(st.seq, e.seq) THEN <<Reset>> ELSE <<>>)
                                 \o (IF st.joined THEN <<e>> ELSE <<>>)]

\* Frames es, one after the other.
TakeAll(st, es) ==
  LET after[i \in 0 .. Len(es)] == IF i = 0 THEN st ELSE Take(after[i - 1], es[i])
  IN after[Len(es)]

\* Mutant: evicted entries are not counted.
KeepUncounted(c) ==
  LET n == Len(c.entries) - KeepEntries
  IN IF n > 0 THEN [c EXCEPT !.entries = SubSeq(@, n + 1, Len(@))] ELSE c

\* trim and evict, for the number of entries.
Keep(c) ==
  LET n == Len(c.entries) - KeepEntries
  IN IF n > 0 THEN [c EXCEPT !.entries = SubSeq(@, n + 1, Len(@)), !.dropped = @ + n]
              ELSE c

\* Announce pre, process frames es from route <<g, n>> on, and emit to channel c
\* what its client may see: resets, and events once it has joined the route.
Deliver(g, n, pre, held, es, c) ==
  LET end == TakeAll([gen |-> g, seq |-> n, early |-> held, out |-> pre,
                      joined |-> c.joined], es)
      out == IF c.open THEN end.out ELSE <<>>
  IN /\ route' = [gen |-> g, seq |-> end.seq]
     /\ early' = end.early
     /\ chan' = Keep([c EXCEPT !.entries = @ \o out])
     /\ flight' = IF Streaming THEN flight \o out ELSE flight

\* recover, finally: the frames held back are processed at last.
Flush == deferred

-----------------------------------------------------------------------------
(* Hermes: numbered events, a ring of recent ones, runtimes (external)     *)

Publish ==
  /\ ~hermes.gone /\ hermes.seq < MaxEvents
  /\ hermes' = [hermes EXCEPT !.seq = @ + 1]
  /\ \/ link # "down" /\ wire' = Append(wire, Event(hermes.gen, hermes.seq + 1))
     \/ link \in {"down", "resume"} /\ UNCHANGED wire
  /\ UNCHANGED <<asked, brokerVars, chan, flight, client, faults>>

\* The ring forgets what it holds.
Forget ==
  /\ hermes.ring < hermes.seq
  /\ faults < MaxFaults /\ faults' = faults + 1
  /\ hermes' = [hermes EXCEPT !.ring = hermes.seq]
  /\ UNCHANGED <<wire, asked, brokerVars, chan, flight, client>>

\* A restart of Hermes, or the end of an idle runtime.
NewRuntime ==
  /\ hermes.gen < MaxRuntimes /\ (link = "down" \/ Rebinds)
  /\ faults < MaxFaults /\ faults' = faults + 1
  /\ hermes' = [hermes EXCEPT !.gen = @ + 1, !.seq = 0, !.ring = 0]
  /\ UNCHANGED <<wire, asked, brokerVars, chan, flight, client>>

Delete ==
  /\ ~hermes.gone
  /\ faults < MaxFaults /\ faults' = faults + 1
  /\ hermes' = [hermes EXCEPT !.gone = TRUE]
  /\ UNCHANGED <<wire, asked, brokerVars, chan, flight, client>>

HermesReply ==
  CASE hermes.gone -> Frame("missing", 0, 0)
    [] ~hermes.gone /\ asked = "resume" -> Frame("resumed", hermes.gen, 0)
    [] ~hermes.gone /\ asked = "since" ->
         IF hermes.gen = route.gen /\ route.seq >= hermes.ring
         THEN Frame("replay", hermes.gen, hermes.seq)
         ELSE Frame("truncated", 0, 0)
    [] OTHER -> Frame(asked, hermes.gen, hermes.seq)

HermesAnswers ==
  /\ asked \in {"resume", "since", "join", "reopen"}
  /\ wire' = Append(wire, HermesReply)
  /\ asked' = "answered"
  /\ UNCHANGED <<hermes, brokerVars, chan, flight, client, faults>>

-----------------------------------------------------------------------------
(* The broker                                                              *)

\* connect, up to gateway.ready: recover starts when there is a route.
Connect ==
  /\ link = "down"
  /\ link' = IF route.gen = 0 THEN "up" ELSE "resume"
  /\ asked' = IF route.gen = 0 THEN "none" ELSE "resume"
  /\ UNCHANGED <<hermes, wire, route, deferred, early, chan, flight, client, faults>>

\* The socket closes, or recovery fails and closes it: pending calls are
\* rejected; a recovery under way announces a reset and flushes.
LinkLost ==
  /\ link # "down" /\ faults < MaxFaults
  /\ faults' = faults + 1
  /\ link' = "down" /\ wire' = <<>> /\ asked' = "none" /\ deferred' = <<>>
  /\ IF Recovering
     THEN Deliver(route.gen, route.seq, <<Reset>>, early, Flush, chan)
     ELSE UNCHANGED <<route, early, chan, flight>>
  /\ UNCHANGED <<hermes, client>>

Receive(kinds) == /\ wire # <<>> /\ Head(wire).kind \in kinds
                  /\ wire' = Tail(wire)
                  /\ UNCHANGED <<hermes, faults>>

\* event, live: held back during recovery; too many are given up for a reset.
LiveEvent ==
  /\ Receive({"event"})
  /\ \/ /\ ~Recovering
        /\ Deliver(route.gen, route.seq, <<>>, early, <<Head(wire)>>, chan)
        /\ UNCHANGED deferred
     \/ /\ Recovering /\ Len(deferred) < DeferLimit
        /\ deferred' = Append(deferred, Head(wire))
        /\ UNCHANGED <<route, early, chan, flight>>
     \/ /\ Recovering /\ Len(deferred) >= DeferLimit
        /\ deferred' = <<>>
        /\ Deliver(route.gen, route.seq, <<Reset>>, early, <<>>, chan)
  /\ UNCHANGED <<asked, link, client>>

Recovered == link' = "up" /\ asked' = "none" /\ deferred' = <<>>

\* recover after session.resume: another runtime (or epoch) starts afresh with
\* a reset, otherwise the missed events are asked for.
Resumed ==
  /\ Receive({"resumed"})
  /\ LET g == Head(wire).gen IN
     \/ /\ g # route.gen
        /\ Deliver(g, 0, <<Reset>>, early, Flush, chan)
        /\ Recovered
     \/ /\ g = route.gen
        /\ link' = "since" /\ asked' = "since"
        /\ UNCHANGED <<route, deferred, early, chan, flight>>
  /\ UNCHANGED client

\* Mutant: the replay starts after the first missed event.
MissedLate(f) == SelectSeq(Events(f.gen, route.seq, f.seq), LAMBDA e : e.seq > route.seq + 1)

\* The events after the last one seen.
Missed(f) == Events(f.gen, route.seq, f.seq)

\* recover after session.events.since.
Replayed ==
  /\ Receive({"replay", "truncated"})
  /\ LET f == Head(wire) IN
     IF f.kind = "replay"
     THEN Deliver(route.gen, route.seq, <<>>, early,
                  Missed(f) \o Flush, chan)
     ELSE Deliver(route.gen, route.seq, <<Reset>>, early, Flush, chan)
  /\ Recovered
  /\ UNCHANGED client

\* The stored session is missing: recover retires the route, whoever follows it
\* is told; a missing replay is only unavailable; a command is rejected.
Missing ==
  /\ Receive({"missing"})
  /\ \/ /\ link = "resume"
        /\ Deliver(0, 0, <<Reset>>, early, Flush, [chan EXCEPT !.joined = FALSE])
        /\ Recovered
     \/ /\ link = "since"
        /\ Deliver(route.gen, route.seq, <<Reset>>, early, Flush, chan)
        /\ Recovered
     \/ /\ link = "up" /\ asked' = "none"
        /\ UNCHANGED <<link, route, deferred, early, chan, flight>>
  /\ UNCHANGED client

\* perform, opening: the number already seen is kept, also for a new runtime.
Opened(g) == route.seq

\* perform after session.resume by a client: the route is mapped to the runtime
\* of the answer and the early frames of that runtime are processed; those of
\* others stay.
Mapped ==
  /\ Receive({"join", "reopen"})
  /\ LET f == Head(wire)
     IN /\ Deliver(f.gen, Opened(f.gen), <<>>, <<>>, early,
                   [chan EXCEPT !.joined = @ \/ f.kind = "join"])
        /\ client' = IF f.kind = "join" /\ client.mode = "open"
                     THEN [client EXCEPT !.mode = "live", !.gen = f.gen, !.seq = f.seq]
                     ELSE client
  /\ asked' = "none"
  /\ UNCHANGED <<link, deferred>>

\* Another client of the same owner opens the session.
Reopen ==
  /\ link = "up" /\ asked = "none" /\ route.gen # 0
  /\ asked' = "reopen"
  /\ UNCHANGED <<hermes, wire, brokerVars, chan, flight, client, faults>>

\* trim by age or size: a channel loses its oldest entries.
Trim ==
  /\ chan.entries # <<>>
  /\ chan' = [chan EXCEPT !.entries = Tail(@), !.dropped = @ + 1]
  /\ UNCHANGED <<hermes, wire, asked, brokerVars, flight, client, faults>>

\* create (under pressure) and sweep remove a channel nobody listens to.
RemoveChannel ==
  /\ chan.open /\ ~Streaming /\ faults < MaxFaults
  /\ faults' = faults + 1
  /\ chan' = [EmptyChannel EXCEPT !.open = FALSE]
  /\ UNCHANGED <<hermes, wire, asked, brokerVars, flight, client>>

-----------------------------------------------------------------------------
(* The client                                                              *)

\* A client told to start over opens a new channel (ChatRpcSocket.connect).
OpenChannel ==
  /\ client.mode = "told" /\ link = "up" /\ asked = "none"
  /\ chan' = EmptyChannel
  /\ client' = [client EXCEPT !.mode = "open", !.stream = TRUE, !.cursor = 0]
  /\ flight' = <<>>
  /\ UNCHANGED <<hermes, wire, asked, brokerVars, faults>>

\* It resumes the session, which joins the route and brings a snapshot.
Join ==
  /\ client.mode = "open" /\ Streaming /\ link = "up" /\ asked = "none"
  /\ chan.open
  /\ asked' = "join"
  /\ UNCHANGED <<hermes, wire, brokerVars, chan, flight, client, faults>>

\* subscribe: what lies before the cursor was read, what lies after it is kept.
Covered(seq) == chan.open /\ chan.dropped <= seq

\* readLoop connects again with Last-Event-ID; a refusal means to start over.
Subscribe ==
  /\ client.mode # "told" /\ ~Streaming
  /\ \/ /\ Covered(client.cursor)
        /\ flight' = SubSeq(chan.entries, client.cursor - chan.dropped + 1,
                            Len(chan.entries))
        /\ client' = [client EXCEPT !.stream = TRUE]
     \/ /\ ~Covered(client.cursor)
        /\ client' = [client EXCEPT !.mode = "told"]
        /\ UNCHANGED flight
  /\ UNCHANGED <<hermes, wire, asked, brokerVars, chan, faults>>

\* readLoop: one entry; a reset ends the channel, an event is shown; the
\* snapshot of the session may hold it already.
ReadEntry ==
  /\ Streaming /\ flight # <<>>
  /\ flight' = Tail(flight)
  /\ LET f == Head(flight) IN
     client' = IF f.kind = "reset"
               THEN [client EXCEPT !.mode = "told", !.stream = FALSE]
               ELSE IF f.gen = client.gen /\ f.seq <= client.seq
                    THEN [client EXCEPT !.cursor = @ + 1]
                    ELSE [client EXCEPT !.cursor = @ + 1, !.gen = f.gen, !.seq = f.seq]
  /\ UNCHANGED <<hermes, wire, asked, brokerVars, chan, faults>>

\* The event stream breaks; what was on its way is lost.
StreamLost ==
  /\ Streaming /\ faults < MaxFaults
  /\ faults' = faults + 1
  /\ client' = [client EXCEPT !.stream = FALSE]
  /\ flight' = <<>>
  /\ UNCHANGED <<hermes, wire, asked, brokerVars, chan>>

-----------------------------------------------------------------------------
BrokerReceives == LiveEvent \/ Resumed \/ Replayed \/ Missing \/ Mapped

ReplayNext ==
  \/ Publish \/ Forget \/ NewRuntime \/ Delete \/ HermesAnswers
  \/ Connect \/ LinkLost \/ BrokerReceives \/ Reopen \/ Trim \/ RemoveChannel
  \/ OpenChannel \/ Join \/ Subscribe \/ ReadEntry \/ StreamLost

ReplaySpec == ReplayInit /\ [][ReplayNext]_replayVars

\* Hermes answers; the broker reconnects on a timer and reads its socket; the
\* client's read loop reads and connects again.  Users promise nothing.
ReplayFairness ==
  /\ WF_replayVars(HermesAnswers) /\ WF_replayVars(Connect)
  /\ WF_replayVars(BrokerReceives)
  /\ WF_replayVars(Subscribe) /\ WF_replayVars(ReadEntry)

-----------------------------------------------------------------------------
(* Properties                                                              *)

Numbered == [kind : {"event"}, gen : 1 .. MaxRuntimes, seq : 1 .. MaxEvents]

\* Types and bounds: neither list of waiting frames outgrows its limit, the
\* stream ends with the last entry of the channel, and only recovery holds back.
ReplayTypeOK ==
  /\ link \in {"down", "resume", "since", "up"}
  /\ asked \in {"none", "resume", "since", "join", "reopen", "answered"}
  /\ route.gen \in 0 .. MaxRuntimes /\ route.seq \in 0 .. MaxEvents
  /\ deferred \in Seq(Numbered) /\ Len(deferred) <= DeferLimit
  /\ early \in Seq(Numbered) /\ Len(early) <= EarlyLimit
  /\ deferred # <<>> => Recovering
  /\ chan.entries \in Seq(Numbered \cup {Reset}) /\ Len(chan.entries) <= KeepEntries
  /\ client.mode \in {"told", "open", "live"}
  /\ Streaming => /\ client.cursor + Len(flight) = LastId
                  /\ chan.open

\* What a client is shown is known to it or the next event of the runtime it
\* follows: a client that misses events is told to start over before anything
\* else reaches it, whatever was lost, replayed, held back or trimmed.
NoSilentGap ==
  [][client.mode = "live" /\ client'.mode = "live"
       => client'.gen = client.gen /\ client'.seq <= client.seq + 1]_replayVars

\* A client that follows the session is up to date in the end: no loss goes
\* unnoticed because nothing comes after it.
CatchesUp ==
  <>[](client.mode = "live" /\ ~hermes.gone
         => client.gen = hermes.gen /\ client.seq = hermes.seq)

\* The number of a route counts events of the runtime it names, so that an event
\* that was never received is not taken for a repeated one and dropped
\* (realtimeBroker.ts:282 expects a resume to bring another runtime).
NumberSeen == route.gen = hermes.gen => route.seq <= hermes.seq
=============================================================================
