---------------------------- MODULE SessionMirror ----------------------------
(***************************************************************************)
(* The transcript of one bot in one conversation, mirrored to OpenViking   *)
(* (openVikingSessionSync.ts): changes are taken from the event log, what  *)
(* is missing is appended behind the part both sides agree on.  Answers    *)
(* get lost, appends are carried out after the server has given up on      *)
(* them, messages are edited while a request is awaited, servers sharing   *)
(* the database compete for the session and die holding its lock.          *)
(*                                                                         *)
(* Abstracted: how a message becomes text; the account of the bot and the  *)
(* creation of the session, for which the awaits before the first read     *)
(* stand; other sessions.  The deletion of conversations and bots is left  *)
(* out, and so is damage done to the remote session by somebody else.      *)
(***************************************************************************)
EXTENDS Naturals, Sequences, SequencesExt, FiniteSetsExt

CONSTANTS
  MessageCount,  \* messages 1 .. MessageCount, by their place in the conversation
  Versions,      \* bound: texts a message can have, one after the other
  Revised,       \* bound: the messages that can have more than one
  Servers,       \* processes that share the database
  EventPage,     \* 250 in the code
  AppendPage,    \* 100 in the code
  PidStays,      \* a server has the same process id after a restart
  MaxSetbacks      \* bound: times a process dies or OpenViking is switched off

ASSUME MirrorAssumption ==
  /\ {MessageCount, Versions, MaxSetbacks} \subseteq Nat
  /\ Revised \subseteq 1 .. MessageCount
  /\ {EventPage, AppendPage} \subseteq Nat \ {0} /\ PidStays \in BOOLEAN

VARIABLES
  text,     \* durable: the version of each message, 0: none
  news,     \* durable: messages changed since the event log was read
  rows,     \* durable: openviking_sync_messages, as text was when it was read
  job,      \* durable: the job of the session
  intent,   \* durable: the transcript after the append whose outcome is not known
  lock,     \* durable: the process that works on the session, if any
  remote,   \* OpenViking: the records of the session
  appends,  \* OpenViking: requests it has yet to carry out
  server,   \* each server: which process, how far it has come, what it has read
  on,       \* OpenViking is configured
  setbacks    \* bookkeeping of the model

mirrorVars == <<text, news, rows, job, intent, lock, remote, appends, server, on, setbacks>>

Messages == 1 .. MessageCount
Writing == Versions + 1  \* a reply that is still being written
Idle(s) == [server[s] EXCEPT !.at = "idle", !.seen = <<>>, !.base = 0]

MirrorInit ==
  /\ text = [m \in Messages |-> 0] /\ news = {} /\ rows = [m \in Messages |-> 0]
  /\ job = [status |-> "none", attempts |-> 0, synced |-> 0, resting |-> FALSE]
  /\ intent = <<>> /\ lock = {} /\ remote = <<>> /\ appends = <<>>
  /\ server = [s \in Servers |-> [up |-> TRUE, life |-> 1, at |-> "idle",
                                  seen |-> <<>>, base |-> 0]]
  /\ on = TRUE /\ setbacks = 0

\* projection: the messages before the first that is still written, by their places.
Payloads(texts) == {m \in Messages : /\ texts[m] \in 1 .. Versions
                                     /\ \A n \in 1 .. m : texts[n] # Writing}

Nth(messages, i) == CHOOSE m \in messages : Cardinality(messages \cap 1 .. m) = i

Transcript(texts) ==
  LET nth(i) == Nth(Payloads(texts), i) IN
  [i \in 1 .. Cardinality(Payloads(texts)) |-> <<nth(i), texts[nth(i)]>>]

Unfinished(texts) == \E m \in Messages : texts[m] = Writing

-----------------------------------------------------------------------------
(* The conversation                                                        *)

\* A message of the user, or a reply that begins.  One that causes a turn of the
\* bot only later comes into this transcript after messages that follow it.
Change(m, v) ==
  /\ text' = [text EXCEPT ![m] = v] /\ news' = news \cup {m}
  /\ UNCHANGED <<rows, job, intent, lock, remote, appends, server, on, setbacks>>

Say(m) == text[m] = 0 /\ (Change(m, 1) \/ Change(m, Writing))
EndReply(m) == text[m] = Writing /\ Change(m, 1)
Revise(m) == m \in Revised /\ text[m] \in 1 .. Versions - 1 /\ Change(m, text[m] + 1)

\* The administrator tries again what has failed.
AdminRetry ==
  /\ job.status = "failed"
  /\ job' = [job EXCEPT !.status = "pending", !.attempts = 0, !.resting = FALSE]
  /\ UNCHANGED <<text, news, rows, intent, lock, remote, appends, server, on, setbacks>>

History == {m \in Messages : text[m] # 0}

Setback == setbacks < MaxSetbacks /\ setbacks' = setbacks + 1

\* When it is switched on again, everything that is kept is looked through again.
Switch ==
  /\ on' = ~on
  /\ news' = IF on' THEN news \cup History ELSE news
  /\ IF on THEN Setback ELSE UNCHANGED setbacks
  /\ UNCHANGED <<text, rows, job, intent, lock, remote, appends, server>>

-----------------------------------------------------------------------------
(* A server                                                                *)

Me(s) == [by |-> s, life |-> server[s].life]

\* Mutant: a lock is never taken over.
ClaimableFree(holders) == holders = {}

\* claim: a lock counts while the process with its id lives.
Claimable(holders) ==
  \A h \in holders : ~server[h.by].up \/ (~PidStays /\ h.life # server[h.by].life)

Release(s) == lock' = lock \ {Me(s)}

\* discover: a page of changes is read; it goes on only with all of them read.
Discover ==
  /\ \E page \in SUBSET news :
       /\ page = news \/ Cardinality(page) = EventPage
       /\ Cardinality(page) <= EventPage
       /\ rows' = [m \in Messages |-> IF m \in page THEN text[m] ELSE rows[m]]
       /\ news' = news \ page
  /\ UNCHANGED text

\* enqueue: new rows wake the job unless it has failed.
Noticed ==
  IF rows' = rows \/ job.status = "failed" THEN job ELSE [job EXCEPT !.status = "pending"]

Rest == UNCHANGED <<remote, on, setbacks>>

\* tick: read the changes and start with the session when it is due and free.
Tick(s) ==
  /\ server[s].up /\ server[s].at = "idle" /\ on
  /\ Discover /\ job' = Noticed
  /\ IF /\ news' = {} /\ job'.status = "pending" /\ ~job'.resting /\ Claimable(lock)
     THEN lock' = {Me(s)} /\ server' = [server EXCEPT ![s].at = "open"]
     ELSE UNCHANGED <<lock, server>>
  /\ UNCHANGED <<intent, appends>> /\ Rest

\* The session is there; then its records are read, twice if something is appended.
SessionThere(s) ==
  /\ server[s].at = "open" /\ on
  /\ server' = [server EXCEPT ![s].at = "read"]
  /\ UNCHANGED <<text, news, rows, job, intent, lock, appends>> /\ Rest

ReadRemote(s) ==
  /\ \/ server[s].at = "read" /\ server' = [server EXCEPT ![s].at = "compare", ![s].seen = remote]
     \/ server[s].at = "reread" /\ server' = [server EXCEPT ![s].at = "confirm", ![s].seen = remote]
  /\ UNCHANGED <<text, news, rows, job, intent, lock, appends>> /\ Rest

Awaiting == {"open", "read", "compare", "reread", "confirm"}

\* check, after every await: switched off meanwhile.
Paused(s) ==
  /\ server[s].at \in Awaiting /\ ~on
  /\ server' = [server EXCEPT ![s] = Idle(s)] /\ Release(s)
  /\ UNCHANGED <<text, news, rows, job, intent, appends>> /\ Rest

\* tick, the catch: three failures in a row are final, a conflict is at once.
Failed(s, j, conflict) ==
  /\ job' = [j EXCEPT !.attempts = j.attempts + 1, !.resting = TRUE,
                      !.status = IF conflict \/ j.attempts >= 2 THEN "failed" ELSE "pending"]
  /\ server' = [server EXCEPT ![s] = Idle(s)] /\ Release(s)

RequestFails(s) ==
  /\ server[s].at \in {"open", "read", "reread"}
  /\ Failed(s, job, FALSE)
  /\ UNCHANGED <<text, news, rows, intent, appends>> /\ Rest

\* More has changed than one page: another time.
AnotherTime(s) ==
  /\ job' = Noticed /\ server' = [server EXCEPT ![s] = Idle(s)] /\ Release(s)
  /\ UNCHANGED <<intent, appends>>

\* Mutant: an append whose outcome is not known is taken for one that failed.
UncertainNever(seen) == FALSE

\* The last append is not there (yet): it may still be carried out.
Uncertain(seen) == intent # <<>> /\ ~IsPrefix(intent, seen)

Ended(s, texts, base) ==
  /\ job' = [Noticed EXCEPT
               !.status = IF ~Unfinished(texts) /\ server[s].seen = Transcript(texts)
                          THEN "complete" ELSE "pending",
               !.synced = Len(server[s].seen), !.attempts = 0,
               !.resting = Unfinished(texts) /\ base = 0]
  /\ server' = [server EXCEPT ![s] = Idle(s)] /\ Release(s)

\* sync, after the first read: both sides have to agree before anything is appended,
\* and the append is written down before it is sent.
Compare(s) ==
  LET seen == server[s].seen
      desired == Transcript(rows')
      end == Min({Len(desired), Len(seen) + AppendPage})
  IN
  /\ server[s].at = "compare" /\ on
  /\ Discover /\ Rest
  /\ IF news' # {} THEN AnotherTime(s)
     ELSE IF Len(seen) < job.synced \/ ~IsPrefix(seen, desired) \/ Uncertain(seen)
     THEN Failed(s, Noticed, TRUE) /\ UNCHANGED <<intent, appends>>
     ELSE IF seen = desired
     THEN intent' = <<>> /\ Ended(s, rows', 0) /\ UNCHANGED appends
     ELSE /\ intent' = SubSeq(desired, 1, end)
          /\ job' = [Noticed EXCEPT !.synced = Len(seen)]
          /\ appends' = Append(appends, [batch |-> SubSeq(desired, Len(seen) + 1, end), of |-> Me(s)])
          /\ server' = [server EXCEPT ![s].at = "append", ![s].base = Len(seen)]
          /\ UNCHANGED lock

\* The answer to an append: done, refused, or lost.
AppendAnswered(s) ==
  /\ server[s].at = "answered" /\ intent' = <<>>
  /\ \/ server' = [server EXCEPT ![s].at = "reread"] /\ UNCHANGED <<job, lock>>
     \/ Failed(s, job, FALSE)
  /\ UNCHANGED <<text, news, rows, appends>> /\ Rest

AppendLost(s) ==
  /\ server[s].at \in {"append", "answered"}
  /\ Failed(s, job, FALSE)
  /\ UNCHANGED <<text, news, rows, intent, appends>> /\ Rest

\* sync, after the second read: what was acknowledged need not be stored.
Confirm(s) ==
  LET seen == server[s].seen
      base == server[s].base
  IN
  /\ server[s].at = "confirm" /\ on
  /\ Discover /\ Rest
  /\ IF news' # {} THEN AnotherTime(s)
     ELSE /\ IF Len(seen) < base \/ ~IsPrefix(seen, Transcript(rows')) THEN Failed(s, Noticed, TRUE)
             ELSE IF Len(seen) = base THEN Failed(s, Noticed, FALSE)
             ELSE Ended(s, rows', 1)
          /\ UNCHANGED <<intent, appends>>

JobWakes ==
  /\ job.resting /\ job' = [job EXCEPT !.resting = FALSE]
  /\ UNCHANGED <<text, news, rows, intent, lock, appends, server>> /\ Rest

-----------------------------------------------------------------------------
(* Failures, and OpenViking                                                *)

\* The process ends, also in an orderly way: nobody waits for a tick under way.
Die(s) ==
  /\ server[s].up /\ Setback
  /\ server' = [server EXCEPT ![s] = [Idle(s) EXCEPT !.up = FALSE]]
  /\ UNCHANGED <<text, news, rows, job, intent, lock, remote, appends, on>>

StartServer(s) ==
  /\ ~server[s].up
  /\ server' = [server EXCEPT ![s].up = TRUE, ![s].life = @ + 1]
  /\ news' = news \cup History
  /\ UNCHANGED <<text, rows, job, intent, lock, remote, appends, on, setbacks>>

\* An append is carried out, all of it or the first part, for a server that may
\* have given up on it long ago.
Carry(i) ==
  LET a == appends[i]
      waiting == server[a.of.by].at = "append" /\ server[a.of.by].life = a.of.life
  IN
  /\ \E k \in 0 .. Len(a.batch) : remote' = remote \o SubSeq(a.batch, 1, k)
  /\ appends' = RemoveAt(appends, i)
  /\ server' = IF waiting THEN [server EXCEPT ![a.of.by].at = "answered"] ELSE server
  /\ UNCHANGED <<text, news, rows, job, intent, lock, on, setbacks>>

-----------------------------------------------------------------------------
Works(s) == Tick(s) \/ SessionThere(s) \/ ReadRemote(s) \/ Paused(s) \/ Compare(s) \/ Confirm(s)
Appends(s) == AppendAnswered(s) \/ AppendLost(s)

MirrorNext ==
  \/ \E m \in Messages : Say(m) \/ EndReply(m) \/ Revise(m)
  \/ AdminRetry \/ Switch \/ JobWakes
  \/ \E s \in Servers : Works(s) \/ Appends(s) \/ RequestFails(s) \/ Die(s) \/ StartServer(s)
  \/ \E i \in DOMAIN appends : Carry(i)

MirrorSpec == MirrorInit /\ [][MirrorNext]_mirrorVars

\* Requests have timeouts, the tick comes every second, back-offs end and a server
\* is started again.  OpenViking need not carry out anything.
MirrorFairness ==
  /\ \A s \in Servers : /\ WF_mirrorVars(Works(s)) /\ WF_mirrorVars(Appends(s))
                        /\ WF_mirrorVars(StartServer(s))
  /\ WF_mirrorVars(JobWakes)

FairMirrorSpec == MirrorSpec /\ MirrorFairness

-----------------------------------------------------------------------------
(* Properties                                                              *)

\* Every variable has its type.
MirrorTypeOK ==
  /\ {text, rows} \subseteq [Messages -> 0 .. Writing] /\ news \subseteq Messages
  /\ job \in [status : {"none", "pending", "complete", "failed"}, attempts : Nat,
              synced : Nat, resting : BOOLEAN]
  /\ {intent, remote} \subseteq Seq(Messages \X (1 .. Versions))
  /\ \A i \in DOMAIN appends : appends[i].batch \in Seq(Messages \X (1 .. Versions)) \ {<<>>}
  /\ server \in [Servers -> [up : BOOLEAN, life : Nat, base : Nat,
                             at : Awaiting \cup {"idle", "append", "answered"},
                             seen : Seq(Messages \X (1 .. Versions))]]
  /\ lock \subseteq {[by |-> s, life |-> server[s].life - n] : s \in Servers, n \in 0 .. setbacks}
  /\ Cardinality(lock) <= 1 /\ on \in BOOLEAN /\ setbacks \in 0 .. MaxSetbacks

\* Whatever gets lost or comes late, whoever dies: the mirror never holds a message
\* twice nor out of order, and no two processes work on the session.
MirrorExact ==
  /\ \A i, j \in DOMAIN remote : i < j => remote[i][1] < remote[j][1]
  /\ \A s, t \in Servers : server[s].at # "idle" /\ server[t].at # "idle" => s = t

\* In the end the mirror has the whole transcript, or it says that it failed
\* (openVikingSessionSync.ts:163: a crashed process is no obstacle).
MirrorEnds ==
  []<>(\/ ~on \/ Unfinished(text) \/ job.status = "failed"
       \/ remote = Transcript(text))
=============================================================================
