------------------------------ MODULE ChatSync ------------------------------
(***************************************************************************)
(* An ordinary conversation as the server keeps it (chatCache.ts,          *)
(* chatTranscriptStore.ts): replies arrive as frames of the realtime       *)
(* connection and are written into a transcript at once; a background job  *)
(* reads the history of Hermes over HTTP, page by page from the end, and   *)
(* rebuilds the transcript from it.  Frames come while pages are awaited,  *)
(* connections and the process are lost, users ask for a refresh.          *)
(*                                                                         *)
(* Abstracted: a reply stands for the turn it belongs to, a whole reply    *)
(* for its text; ids of runs, and those of rows, of which an import keeps  *)
(* the ones it recognises; queued and steered input, tools, approvals;     *)
(* other conversations (two are repaired at a time). A prompt counts as    *)
(* confirmed once it has been submitted, and Hermes stores a turn when it  *)
(* is over, with the id the client gave to the prompt. Left out: the first *)
(* import of a database of an older version and the rows it may bring,     *)
(* gateways that do not hand on client ids, aliases of a session,          *)
(* attachments, read positions, the explicit upstream mode.                *)
(***************************************************************************)
EXTENDS Integers, Sequences, SequencesExt, Functions

CONSTANTS
  ChatReplies,  \* bound: replies ever given
  Before,       \* of them, the replies older than the entry of the conversation
  ChatPage,     \* 100 in the code
  Totals,       \* Hermes declares the total and has_more with each page
  MaxUpsets,    \* bound: connections, requests and processes lost
  MaxRequests   \* bound: refreshes, invalidations and removals in Hermes

ASSUME ChatAssumption ==
  /\ {ChatReplies, MaxUpsets, MaxRequests} \subseteq Nat
  /\ Before \in 0 .. ChatReplies /\ ChatPage \in Nat \ {0}
  /\ Totals \in BOOLEAN

VARIABLES
  history,   \* Hermes: the replies it has stored
  speaking,  \* Hermes: the reply it is giving, 0: none
  born,      \* Hermes: replies begun
  onWay,     \* frames on their way to the broker
  line,      \* the broker: its connection, the last frame it has taken
  stored,    \* durable: chat_sessions and chat_messages of the conversation
  transcript, \* durable: the transcript and its head, the prompts asked here that no
              \* import has recognised yet, whether one withheld the history for them
  repair,    \* the job of the conversation and its row in chat_recovery_jobs
  reading,    \* reconcile: how far it has come and what it has read
  upsets, requests  \* bookkeeping of the model

chatVars == <<history, speaking, born, onWay, line, stored, transcript, repair, reading,
              upsets, requests>>

hermesVars == <<history, speaking, born>>

Replies == 1 .. ChatReplies

\* The frames of a reply: it starts, it is complete.
StartOf(r) == 2 * r - 1
EndOf(r) == 2 * r
ReplyOf(n) == (n + 1) \div 2
Emitted == 2 * born - (IF speaking = 0 THEN 0 ELSE 1)

NoFlight == [at |-> "off", force |-> FALSE, same |-> TRUE, offset |-> 0, known |-> 0,
             summary |-> 0, declared |-> {}, pages |-> <<>>, answer |-> <<>>, total |-> 0]

ChatInit ==
  /\ history = [i \in 1 .. Before |-> i] /\ speaking = 0 /\ born = Before
  /\ onWay = <<>>
  /\ line = [at |-> "open", heard |-> 2 * Before, missing |-> FALSE, running |-> 0]
  /\ stored = [rows |-> <<>>, total |-> -1, complete |-> FALSE, metadata |-> FALSE,
               state |-> "stale"]
  /\ transcript = [whole |-> {}, twice |-> {}, cut |-> {}, head |-> "ended", of |-> 0,
              running |-> FALSE, dated |-> FALSE, asked |-> {}, withheld |-> FALSE]
  /\ repair = [due |-> FALSE, force |-> FALSE, kept |-> FALSE]
  /\ reading = NoFlight
  /\ upsets = 0 /\ requests = 0

-----------------------------------------------------------------------------
(* The transcript                                                          *)

\* The row events are written to is taken from the reply it showed so far.
WithoutRow(t) ==
  IF t.of \in t.cut THEN [t EXCEPT !.cut = @ \ {t.of}]
  ELSE IF t.of \in t.twice THEN [t EXCEPT !.twice = @ \ {t.of}]
  ELSE [t EXCEPT !.whole = @ \ {t.of}]

WithRow(t, r) ==
  IF r \in t.whole THEN [t EXCEPT !.twice = @ \cup {r}] ELSE [t EXCEPT !.whole = @ \cup {r}]

\* reduce, message.start: a row that is still written to is kept on.
Started(t, r) == [t EXCEPT !.head = "open", !.of = r, !.running = TRUE]

\* reduce, message.complete: it ends the row that is open and overwrites the last one
\* when none is.
Completed(t, r) ==
  [WithRow(IF t.head = "ended" THEN WithoutRow(t) ELSE t, r) EXCEPT
     !.head = "ended", !.of = r, !.running = FALSE]

\* reduce, route.resumed, without the text of a reply that has ended: an open row
\* is closed as it is.
RouteResumed(t, r) ==
  IF r # 0 THEN Started(t, r)
  ELSE [t EXCEPT !.cut = IF t.head = "open" THEN @ \cup {t.of} ELSE @,
                 !.of = IF t.head = "await" THEN 0 ELSE @,
                 !.head = "ended", !.running = FALSE]

\* reduce, command.submitted, with nothing under way.
Submitted(t) ==
  IF t.running THEN t ELSE [t EXCEPT !.head = "await", !.of = 0, !.running = TRUE]

\* importHistory: what was stored replaces everything that is not recognised in it.
Imported(t, replies) ==
  [t EXCEPT !.whole = replies, !.twice = {}, !.cut = {},
            !.of = IF t.of \in replies THEN t.of ELSE 0, !.dated = FALSE,
            !.asked = {}, !.withheld = FALSE]

\* importHistory, when a prompt asked here is not in what was stored: it is left as it
\* is and the repair noted in chat_transcript_repairs.  It is dated from now on.
Withheld(t) == [t EXCEPT !.withheld = TRUE, !.dated = TRUE]

-----------------------------------------------------------------------------
(* The job                                                                 *)

\* schedule
Scheduled(job, force) ==
  [due |-> TRUE, force |-> job.force \/ force, kept |-> job.kept \/ force]

ScheduledIf(condition) == IF condition THEN Scheduled(repair, FALSE) ELSE repair

\* drain: done, unless a refresh has been asked for meanwhile.
JobDone ==
  /\ reading' = NoFlight
  /\ repair' = IF repair.force THEN repair ELSE [due |-> FALSE, force |-> FALSE, kept |-> FALSE]

\* Mutant: a refresh that failed is forgotten.
JobFailsForgetting == reading' = NoFlight /\ repair' = repair

\* drain, the catch: it is tried again after a while.  (A history that is withheld forces
\* the next attempt in any case.)
JobFails ==
  /\ reading' = NoFlight
  /\ repair' = [repair EXCEPT !.force = @ \/ reading.force]

Outdated == reading' = [reading EXCEPT !.same = FALSE]

-----------------------------------------------------------------------------
(* Events                                                                  *)

\* recordEvent: a gap remains one, otherwise live events keep a full history current.
AfterEvent(state) ==
  CASE state = "gap"     -> "gap"
    [] stored.complete   -> "current"
    [] OTHER             -> "stale"

Noted == stored' = [stored EXCEPT !.state = AfterEvent(stored.state)] /\ Outdated

\* observe, gateway.reset
GatewayReset == stored' = [stored EXCEPT !.state = "gap"] /\ Outdated

\* reduce, of a frame; bookkeeping: it is dated when the history had the reply already.
Reduced(t, n) ==
  LET r == ReplyOf(n)
      noted == [t EXCEPT !.dated = @ \/ r \in DOMAIN stored.rows]
  IN IF n = StartOf(r) THEN Started(noted, r) ELSE Completed(noted, r)

\* event: frames seen before are dropped, and one that is missing is told by a reset.
TakeFrame ==
  LET n == Head(onWay)
      gap == line.heard > 0 /\ n > line.heard + 1
  IN
  /\ line.at = "open" /\ onWay # <<>> /\ onWay' = Tail(onWay)
  /\ IF n <= line.heard THEN UNCHANGED <<line, stored, transcript, repair, reading>>
     ELSE /\ line' = [line EXCEPT !.heard = n, !.missing = @ /\ ~gap]
          /\ IF gap THEN GatewayReset ELSE Noted
          /\ transcript' = Reduced(transcript, n)
          /\ repair' = ScheduledIf(\/ stored'.state = "gap"
                                   \/ n = EndOf(ReplyOf(n)) /\ stored'.state # "current")
  /\ UNCHANGED <<hermesVars, upsets, requests>>

\* A change of the title: whatever the state was, a full history counts as current
\* and one that is not full as stale.
Retitle ==
  /\ stored' = [stored EXCEPT !.state = IF stored.complete THEN "current" ELSE "stale"]
  /\ UNCHANGED <<hermesVars, onWay, line, transcript, repair, reading, upsets, requests>>

-----------------------------------------------------------------------------
(* Hermes, and the connection to it                                        *)

\* A frame goes out; without a connection it is one the broker misses.
Emit(n) ==
  /\ onWay' = IF line.at \in {"open", "resumed"} THEN Append(onWay, n) ELSE onWay
  /\ line' = [line EXCEPT !.missing = @ \/ line.at = "closed"]

BeginReply == speaking = 0 /\ born < ChatReplies /\ speaking' = born + 1 /\ born' = born + 1

\* Another client of Hermes has a turn in this session.
Peer ==
  /\ BeginReply /\ Emit(StartOf(born + 1))
  /\ UNCHANGED <<history, stored, transcript, repair, reading, upsets, requests>>

\* command: the owner submits a prompt, noted before it is sent.
Prompt ==
  /\ line.at = "open" /\ Noted
  /\ transcript' = [Submitted(transcript) EXCEPT !.asked = @ \cup {born + 1}]
  /\ BeginReply /\ Emit(StartOf(born + 1))
  /\ UNCHANGED <<history, repair, upsets, requests>>

ReplyEnds ==
  /\ speaking # 0
  /\ speaking' = 0 /\ history' = Append(history, speaking) /\ Emit(EndOf(speaking))
  /\ UNCHANGED <<born, stored, transcript, repair, reading, upsets, requests>>

\* A reply is removed from the history of Hermes; no frame tells of it.
Removed ==
  /\ requests < MaxRequests /\ requests' = requests + 1 /\ speaking = 0
  /\ \E i \in DOMAIN history : history' = RemoveAt(history, i)
  /\ UNCHANGED <<speaking, born, onWay, line, stored, transcript, repair, reading, upsets>>

Upset == upsets < MaxUpsets /\ upsets' = upsets + 1

LineLost ==
  /\ Upset /\ line.at = "open"
  /\ line' = [line EXCEPT !.at = "down"] /\ onWay' = <<>>
  /\ UNCHANGED <<hermesVars, stored, transcript, repair, reading, requests>>

\* The prompt is noted and gets lost with the connection.
PromptLost ==
  /\ Upset /\ line.at = "open" /\ Noted /\ transcript' = Submitted(transcript)
  /\ line' = [line EXCEPT !.at = "down"] /\ onWay' = <<>>
  /\ UNCHANGED <<hermesVars, repair, requests>>

\* recover: session.resume is answered; frames are held back from now on.
ResumeAnswered ==
  /\ line.at = "down" /\ line' = [line EXCEPT !.at = "resumed", !.running = speaking]
  /\ UNCHANGED <<hermesVars, onWay, stored, transcript, repair, reading, upsets, requests>>

\* restore: the answer to session.resume is noted, which may be dated by now.
Restored(t) == [RouteResumed(t, line.running) EXCEPT !.dated = @ \/ line.running # speaking]

\* recover: nothing can be repeated, the transcript goes on from the answer.
NotReplayed ==
  /\ line.at = "resumed" /\ GatewayReset
  /\ line' = [line EXCEPT !.at = "open", !.missing = FALSE, !.running = 0]
  /\ transcript' = Restored(transcript)
  /\ repair' = Scheduled(repair, FALSE)
  /\ UNCHANGED <<hermesVars, onWay, upsets, requests>>

\* The transcript after the frames that were missed, one after the other.
Replayed ==
  LET after[n \in line.heard .. Emitted] ==
        IF n = line.heard THEN transcript ELSE Reduced(after[n - 1], n)
  IN after[Emitted]

\* recover: session.events.since is answered with all that was missed, and then the
\* answer to session.resume is noted, which is older.
FramesReplayed ==
  /\ line.at = "resumed" /\ Noted
  /\ line' = [line EXCEPT !.at = "open", !.heard = Emitted, !.running = 0]
  /\ transcript' = Restored(Replayed)
  /\ repair' = ScheduledIf(/\ stored'.state # "current"
                           /\ \E n \in line.heard + 1 .. Emitted : n = EndOf(ReplyOf(n)))
  /\ UNCHANGED <<hermesVars, onWay, upsets, requests>>

\* The process ends.  The cursor of the frames, the transcript and the job are stored;
\* the session is unknown to the broker until a client opens it.  A history that was
\* withheld is asked for again.
ChatRestart ==
  /\ Upset
  /\ line' = [at |-> "closed", heard |-> line.heard, running |-> 0,
              missing |-> line.missing \/ line.heard # Emitted]
  /\ onWay' = <<>> /\ reading' = NoFlight
  /\ LET again == repair.kept \/ transcript.withheld
     IN repair' = [repair EXCEPT !.force = again, !.kept = again]
  /\ UNCHANGED <<hermesVars, stored, transcript, requests>>

\* perform: a client opens the session; its state is noted, and no job is scheduled.
OpenSession ==
  /\ line.at = "closed" /\ line' = [line EXCEPT !.at = "open"]
  /\ Noted /\ transcript' = RouteResumed(transcript, speaking)
  /\ UNCHANGED <<hermesVars, onWay, repair, upsets, requests>>

-----------------------------------------------------------------------------
(* Requests                                                                *)

\* readLocal and the snapshot: what is incomplete or has a gap is repaired.
Look ==
  /\ ~repair.due
  /\ ~stored.complete \/ ~stored.metadata \/ stored.state = "gap"
  /\ repair' = Scheduled(repair, FALSE)
  /\ UNCHANGED <<hermesVars, onWay, line, stored, transcript, reading, upsets, requests>>

Ask == requests < MaxRequests /\ requests' = requests + 1

\* POST .../sync: the user asks for all of the history.
Refresh ==
  /\ Ask /\ repair' = Scheduled(repair, TRUE)
  /\ UNCHANGED <<hermesVars, onWay, line, stored, transcript, reading, upsets>>

\* sessions.changed
Invalidate ==
  /\ Ask /\ line.at = "open"
  /\ stored' = [stored EXCEPT !.metadata = FALSE] /\ Outdated
  /\ repair' = Scheduled(repair, FALSE)
  /\ UNCHANGED <<hermesVars, onWay, line, transcript, upsets>>

-----------------------------------------------------------------------------
(* reconcile                                                               *)

OthersKept == UNCHANGED <<hermesVars, onWay, line, upsets, requests>>

\* The number of replies up to the last one stored; 0 when that is not stored.
KnownTotal ==
  IF \E r \in DOMAIN stored.rows : stored.rows[r] = stored.total - 1 THEN stored.total ELSE 0

StartFlight ==
  /\ repair.due /\ reading.at = "off" /\ ~transcript.running
  /\ reading' = [NoFlight EXCEPT !.at = "detail", !.known = KnownTotal,
                               !.force = repair.force \/ transcript.withheld]
  /\ repair' = [repair EXCEPT !.force = FALSE]
  /\ UNCHANGED <<stored, transcript>> /\ OthersKept

AnswerDetail ==
  /\ reading.at = "detail"
  /\ reading' = [reading EXCEPT !.at = "detailed", !.summary = Len(history)]
  /\ UNCHANGED <<stored, transcript, repair>> /\ OthersKept

\* refreshMetadata: with the total unchanged nothing else is read.
MetadataOnly ==
  /\ ~reading.force /\ ~stored.metadata /\ stored.complete
  /\ reading.summary = stored.total /\ reading.same

TakeDetail ==
  /\ reading.at = "detailed"
  /\ IF MetadataOnly
     THEN stored' = [stored EXCEPT !.metadata = TRUE] /\ JobDone
     ELSE reading' = [reading EXCEPT !.at = "page"] /\ UNCHANGED <<stored, repair>>
  /\ UNCHANGED transcript /\ OthersKept

\* The page that ends before the offset, counted from the end of the history.
PageAt(offset) ==
  LET end == Len(history) - offset
  IN IF end <= 0 THEN <<>>
     ELSE SubSeq(history, IF end > ChatPage THEN end - ChatPage + 1 ELSE 1, end)

AnswerPage ==
  /\ reading.at = "page"
  /\ reading' = [reading EXCEPT !.at = "paged", !.answer = PageAt(reading.offset),
                              !.total = Len(history)]
  /\ UNCHANGED <<stored, transcript, repair>> /\ OthersKept

Total ==
  LET read == reading.offset + Len(reading.answer)
      given == IF Totals THEN reading.total ELSE reading.summary
  IN IF read > given THEN read ELSE given

HasMore ==
  IF Totals THEN reading.offset + Len(reading.answer) < reading.total
  ELSE Len(reading.answer) >= ChatPage

\* The positions of the replies of a page when there are so many in all.
Positions(page, total) ==
  [i \in DOMAIN page.messages |-> total - page.offset - Len(page.messages) + i - 1]

\* hasMessage
Found == {i \in DOMAIN reading.answer : reading.answer[i] \in DOMAIN stored.rows}
PageNow == [offset |-> reading.offset, messages |-> reading.answer]
Moved == \E i \in Found : stored.rows[reading.answer[i]] # Positions(PageNow, Total)[i]

ChangedTotal == Totals /\ \E t \in reading.declared : t # Total

\* What speaks against the page that has been read.
Contradicted ==
  \/ ~reading.force /\ (Total < reading.known \/ Moved)
  \/ ChangedTotal

Overlap == ~reading.force /\ Found # {}
LastPage == Overlap \/ ~HasMore
Short == ~Overlap /\ Totals /\ Total # reading.offset + Len(reading.answer)

-----------------------------------------------------------------------------
(* applySync: all pages at once, in one transaction                        *)

Window(page, total) == {Positions(page, total)[i] : i \in DOMAIN page.messages}

\* Rows of a window that the page does not have are replaced.
Cleared(rows, pages, total) ==
  LET gone == {r \in DOMAIN rows : \E i \in DOMAIN pages :
                 rows[r] \in Window(pages[i], total) /\ r \notin ToSet(pages[i].messages)}
  IN Restrict(rows, DOMAIN rows \ gone)

\* Where page p has reply r.
PlaceIn(p, r, total) ==
  Positions(p, total)[CHOOSE i \in DOMAIN p.messages : p.messages[i] = r]

\* A page takes the place of what was stored in its window, and of earlier pages.
NewRows(pages, total) ==
  LET old == IF reading.force THEN <<>> ELSE Cleared(stored.rows, pages, total)
      Holding(r) == {i \in DOMAIN pages : r \in ToSet(pages[i].messages)}
      read == {r \in Replies : Holding(r) # {}}
      Latest(r) == CHOOSE i \in Holding(r) : \A j \in Holding(r) : j <= i
  IN [r \in DOMAIN old \cup read |->
        IF r \in read THEN PlaceIn(pages[Latest(r)], r, total) ELSE old[r]]

Covers(rows, total) ==
  IF total = 0 THEN DOMAIN rows = {}
  ELSE /\ {rows[r] : r \in DOMAIN rows} = 0 .. total - 1
       /\ \A r, s \in DOMAIN rows : rows[r] = rows[s] => r = s

\* Mutant: what was read is applied whatever has come meanwhile.
UpToDateAlways == ~transcript.running

UpToDate == reading.same /\ ~transcript.running

ApplySync(pages, total) ==
  LET rows == NewRows(pages, total) IN
  IF UpToDate
  THEN /\ stored' = [rows |-> rows, total |-> total, complete |-> Covers(rows, total),
                     metadata |-> TRUE, state |-> "current"]
       /\ IF transcript.asked \subseteq DOMAIN rows
          THEN transcript' = Imported(transcript, DOMAIN rows) /\ JobDone
          ELSE transcript' = Withheld(transcript) /\ JobFails
  ELSE JobFails /\ UNCHANGED <<stored, transcript>>

\* reconcile, after a page: refused, applied, or followed by the next one.
TakePage ==
  LET pages == Append(reading.pages, PageNow) IN
  /\ reading.at = "paged"
  /\ IF Contradicted THEN JobFails /\ UNCHANGED <<stored, transcript>>
     ELSE IF LastPage
     THEN IF Short THEN JobFails /\ UNCHANGED <<stored, transcript>>
          ELSE ApplySync(pages, IF Overlap THEN Total ELSE reading.offset + Len(reading.answer))
     ELSE IF reading.answer = <<>> THEN JobFails /\ UNCHANGED <<stored, transcript>>
     ELSE /\ reading' = [reading EXCEPT !.at = "page", !.pages = pages, !.answer = <<>>, !.total = 0,
                                      !.offset = @ + Len(reading.answer), !.declared = {Total}]
          /\ UNCHANGED <<stored, transcript, repair>>
  /\ OthersKept

ReadingFails ==
  /\ Upset /\ reading.at \in {"detail", "page"} /\ JobFails
  /\ UNCHANGED <<hermesVars, onWay, line, stored, transcript, requests>>

-----------------------------------------------------------------------------
ReconcileStep == StartFlight \/ AnswerDetail \/ TakeDetail \/ AnswerPage \/ TakePage
RecoverLine == ResumeAnswered \/ NotReplayed \/ FramesReplayed

ChatNext ==
  \/ TakeFrame \/ Retitle \/ Peer \/ Prompt \/ ReplyEnds \/ Removed
  \/ LineLost \/ PromptLost \/ RecoverLine \/ ChatRestart \/ OpenSession
  \/ Look \/ Refresh \/ Invalidate
  \/ ReconcileStep \/ ReadingFails

ChatSpec == ChatInit /\ [][ChatNext]_chatVars

\* A job runs when its time has come, Hermes answers and ends its replies, frames that
\* were sent arrive, and the broker connects again.  Clients and users do as they like.
ChatFairness ==
  /\ WF_chatVars(ReconcileStep) /\ WF_chatVars(TakeFrame)
  /\ WF_chatVars(ReplyEnds) /\ WF_chatVars(RecoverLine)

FairChatSpec == ChatSpec /\ ChatFairness

-----------------------------------------------------------------------------
(* Properties                                                              *)

\* Every variable has its type.
ChatTypeOK ==
  /\ history \in Seq(Replies) /\ IsInjective(history)
  /\ speaking \in 0 .. ChatReplies /\ born \in Before .. ChatReplies
  /\ onWay \in Seq(1 .. 2 * ChatReplies)
  /\ line \in [at : {"open", "down", "resumed", "closed"}, heard : 0 .. 2 * ChatReplies,
               missing : BOOLEAN, running : 0 .. ChatReplies]
  /\ DOMAIN stored.rows \subseteq Replies /\ \A r \in DOMAIN stored.rows : stored.rows[r] \in Nat
  /\ stored.total \in -1 .. ChatReplies /\ {stored.complete, stored.metadata} \subseteq BOOLEAN
  /\ stored.state \in {"stale", "gap", "current"}
  /\ UNION {transcript.whole, transcript.twice, transcript.cut, transcript.asked} \subseteq Replies
  /\ transcript.head \in {"open", "await", "ended"} /\ transcript.of \in 0 .. ChatReplies
  /\ {transcript.running, transcript.dated, transcript.withheld} \subseteq BOOLEAN
  /\ repair \in [{"due", "force", "kept"} -> BOOLEAN]
  /\ reading.at \in {"off", "detail", "detailed", "page", "paged"}
  /\ upsets \in 0 .. MaxUpsets /\ requests \in 0 .. MaxRequests

\* Hermes has removed what is kept here: it stays until the user asks for a refresh.
Drifted ==
  \/ ~(transcript.whole \cup transcript.cut \subseteq ToSet(history) \cup {speaking})
  \/ \E r \in DOMAIN stored.rows : stored.rows[r] + 1 \notin DOMAIN history
                                   \/ history[stored.rows[r] + 1] # r

\* Nothing is under way for the conversation; no frame was lost unnoticed, and nothing
\* that came was older than what the transcript had.
Quiet ==
  /\ speaking = 0 /\ onWay = <<>> /\ line.at = "open" /\ ~line.missing
  /\ ~repair.due /\ ~transcript.running /\ ~transcript.dated

\* Whatever comes while the history is read, whatever gets lost: once nothing is under way,
\* a conversation that counts as current shows the replies of Hermes, each once and
\* whole (chatCache.ts:519: a result that has been overtaken is not applied).
HistoryTrue ==
  Quiet /\ ~Drifted /\ stored.complete /\ stored.state = "current" =>
    /\ transcript.whole = ToSet(history) /\ transcript.twice = {} /\ transcript.cut = {}

\* The transcript shows a reply at work that Hermes has ended.
Phantom == line.at = "open" /\ onWay = <<>> /\ ~line.missing /\ transcript.running /\ speaking = 0

\* Hermes has removed the turn of a prompt before an import recognised it: whatever is
\* read, the history is withheld, and each attempt at the repair is followed by another.
Orphaned == ~(transcript.asked \subseteq ToSet(history) \cup {speaking})

\* A repair that is due gets done, after lost connections and restarts too, unless the
\* history of Hermes no longer fits and nobody has asked for a refresh, it lacks a prompt
\* asked here (chatTranscriptStore.ts:445: the repair goes on for ever), or the session
\* has not been opened since a restart.
RepairsEnd ==
  []<>(\/ ~repair.due \/ (Drifted /\ ~repair.kept) \/ Orphaned
       \/ line.at = "closed" \/ Phantom)

\* docs/verification/2026-09-14-ordinary-chat-v2: after a replay the transcript is as
\* after the frames themselves, so that it does not run when Hermes has ended the reply.
RunsWithHermes == ~Phantom
=============================================================================
