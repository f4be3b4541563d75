--------------------------- MODULE ChatSync_proofs ---------------------------
(***************************************************************************)
(* What TLAPS proves about the transcript of an ordinary conversation, for *)
(* any number of replies, pages of any size, and however often connections *)
(* and processes are lost: once nothing is under way, a conversation that  *)
(* counts as current shows the replies of Hermes, each once and whole.     *)
(***************************************************************************)
EXTENDS ChatSync, FiniteSetTheorems, SequenceTheorems, TLAPS

-----------------------------------------------------------------------------
(* The inductive invariant                                                 *)

Places == UNION {[S -> Int] : S \in SUBSET Replies}
Lines == [at : {"open", "down", "resumed", "closed"}, heard : Nat, missing : BOOLEAN, running : Nat]
StoredRows == [rows : Places, total : Int, complete : BOOLEAN, metadata : BOOLEAN,
               state : {"stale", "gap", "current"}]
Transcripts == [whole : SUBSET Replies, twice : SUBSET Replies, cut : SUBSET Replies,
                head : {"open", "await", "ended"}, of : 0 .. ChatReplies,
                running : BOOLEAN, dated : BOOLEAN, asked : SUBSET Replies, withheld : BOOLEAN]
Jobs == [due : BOOLEAN, force : BOOLEAN, kept : BOOLEAN]
Pages == [offset : Nat, messages : Seq(Replies)]
Flights == [at : {"off", "detail", "detailed", "page", "paged"}, force : BOOLEAN, same : BOOLEAN,
            offset : Nat, known : Int, summary : Nat, declared : SUBSET Nat, pages : Seq(Pages),
            answer : Seq(Replies), total : Nat]

ChatTypes ==
  /\ history \in Seq(Replies) /\ born \in 0 .. ChatReplies /\ speaking \in {0, born}
  /\ onWay \in Seq(Nat) /\ line \in Lines /\ stored \in StoredRows
  /\ transcript \in Transcripts /\ repair \in Jobs /\ reading \in Flights

\* Hermes has ended reply r.
Over(r) == r \in 1 .. born /\ r # speaking

\* The frames that have arrived or were lost.
Sent == Emitted - Len(onWay)

\* A broker that has heard the frames up to h still learns that it lacks frame n.
Told(h, n) == n > h /\ (n > Sent \/ line.at \in {"down", "resumed"} \/ line.missing)

\* The answer to session.resume tells the reply that the first frame held back is from.
LineInv ==
  /\ Len(onWay) <= Emitted /\ \A i \in DOMAIN onWay : onWay[i] = Sent + i
  /\ line.heard <= Emitted /\ line.running <= born
  /\ line.at \in {"down", "closed"} => onWay = <<>>
  /\ line.at = "closed" => line.missing \/ line.heard = Emitted
  /\ line.at = "resumed" =>
       /\ line.heard <= Sent
       /\ \A r \in Nat : /\ Sent + 1 = EndOf(r) => line.running = r
                         /\ Sent + 1 = StartOf(r) => line.running = 0

Had == DOMAIN stored.rows

\* Reply r is not behind those the stored total counts.
Within(r) == \A i \in DOMAIN history : history[i] = r => i <= stored.total

\* Hermes has removed reply r, or has it where another one is stored: the rows no longer
\* fit to its history, now and until they are read again.
Passed(r) == Over(r) /\ r \notin Had /\ Within(r)
Lost(t) == \E w \in t.whole : Passed(w)

\* The last row of t is not one of a reply before r.
Owns(t, r) == t.of = 0 \/ t.of >= r

\* The head of transcript t, after the frames up to h.
TurnInv(t, h) ==
  /\ (t.running <=> t.head # "ended") /\ (t.head = "open" => t.of # 0) /\ t.of <= born
  /\ t.head = "open" => (EndOf(t.of) > h /\ t.of \notin Had) \/ t.dated

\* When the next frame completes a reply that has been started, its row is the last one,
\* or the completion finds out that the history was read meanwhile.
OwnInv(t, h) ==
  \A r \in 1 .. born : h = StartOf(r) =>
    /\ Owns(t, r) \/ t.running \/ r # speaking
    /\ stored.complete => Owns(t, r) \/ t.dated \/ r \in Had \/ Passed(r)

\* The next frame to arrive does not complete a reply in the row of another one.
NextInv(t, h) ==
  line.at = "open" =>
    \A r \in 1 .. born : (IF h > Sent THEN h ELSE Sent) + 1 = EndOf(r) =>
      t.head # "ended" \/ t.of \in {0, r}

\* What is shown was heard or read.  What is shown twice, or was closed early though it
\* had been read or Hermes is still giving it, is known to be dated.
RowInv(t, h) ==
  /\ t.whole \cup t.cut \cup t.twice \subseteq 1 .. born
  /\ \A r \in t.whole : r \in Had \/ EndOf(r) <= h \/ t.dated
  /\ speaking \in t.cut \/ t.twice # {} => t.dated
  /\ \A c \in t.cut : c \notin Had \/ t.dated

\* What has been read is shown, and so is what came after it, unless it is still to come
\* or a repair will read it; x excuses all.
CoverInv(t, h, x) ==
  stored.complete =>
    /\ \A r \in Had : r \in t.whole \/ t.dated \/ Lost(t) \/ x
    /\ \A i \in DOMAIN history : i > stored.total =>
         \/ history[i] \in t.whole \/ Told(h, EndOf(history[i]))
         \/ repair.due \/ line.missing \/ t.dated \/ Lost(t) \/ x

\* A row that was closed early is repaired, unless its reply has gone.
CutInv(t) ==
  stored.complete =>
    \A c \in t.cut : t.dated \/ repair.due \/ line.missing \/ Within(c)

TextInv(t, h) == TurnInv(t, h) /\ OwnInv(t, h) /\ RowInv(t, h)

StoredInv ==
  /\ \A r \in Had : Over(r)
  /\ stored.complete => Covers(stored.rows, stored.total)
  /\ \A i \in DOMAIN history : Over(history[i])

\* Reply r was added behind the backs of the pages read: the broker learns of it, and
\* nothing is left of it in the transcript that an import would take for older.
Later(r) ==
  /\ Told(line.heard, EndOf(r))
  /\ r \notin transcript.cut \/ transcript.dated
  /\ EndOf(r) # line.heard + 1 \/ Owns(transcript, r)

ReadInv ==
  /\ \A i \in DOMAIN reading.answer : Over(reading.answer[i])
  /\ \A i \in DOMAIN reading.pages :
       \A j \in DOMAIN reading.pages[i].messages : Over(reading.pages[i].messages[j])
RestInv == reading.same /\ reading.at # "off" => ~transcript.running
SummaryInv ==
  reading.same /\ reading.at \in {"detailed", "page", "paged"} =>
    \A i \in DOMAIN history : i > reading.summary => Later(history[i])
TotalInv ==
  reading.same /\ reading.at = "paged" =>
    \A i \in DOMAIN history : i > reading.total => Later(history[i])
LengthInv ==
  reading.at = "paged" =>
    Len(reading.answer) >= ChatPage \/ reading.offset + Len(reading.answer) >= reading.total

FlightInv == ReadInv /\ RestInv /\ SummaryInv /\ TotalInv /\ LengthInv

TranscriptInv ==
  /\ TextInv(transcript, line.heard) /\ NextInv(transcript, line.heard)
  /\ CoverInv(transcript, line.heard, FALSE) /\ CutInv(transcript)

ChatInv == ChatTypes /\ LineInv /\ StoredInv /\ TranscriptInv /\ FlightInv

-----------------------------------------------------------------------------
(* Lemmas about frames and transcripts                                     *)

LEMMA ChatConstants ==
  /\ ChatReplies \in Nat /\ MaxUpsets \in Nat /\ MaxRequests \in Nat
  /\ Before \in Nat /\ Before <= ChatReplies /\ ChatPage \in Nat /\ ChatPage >= 1
  BY ChatAssumption

LEMMA FrameOf ==
  ASSUME NEW n \in Nat, n >= 1
  PROVE  /\ ReplyOf(n) \in Nat /\ ReplyOf(n) >= 1
         /\ n = StartOf(ReplyOf(n)) \/ n = EndOf(ReplyOf(n))
  BY DEF ReplyOf, StartOf, EndOf

LEMMA FrameNumbers ==
  ASSUME NEW r \in Nat
  PROVE  /\ StartOf(r) \in Int /\ EndOf(r) \in Nat /\ EndOf(r) = StartOf(r) + 1
         /\ r >= 1 => StartOf(r) \in Nat /\ StartOf(r) >= 1
  BY DEF StartOf, EndOf

LEMMA FramesDiffer ==
  ASSUME NEW r \in Nat, NEW q \in Nat
  PROVE  /\ StartOf(r) # EndOf(q) /\ (EndOf(r) = EndOf(q) => r = q)
         /\ (StartOf(r) = StartOf(q) => r = q)
         /\ (r < q => EndOf(r) < StartOf(q))
  BY DEF StartOf, EndOf

LEMMA EmittedFacts ==
  ASSUME ChatTypes
  PROVE  /\ Emitted \in Nat /\ born \in Nat /\ speaking \in Nat
         /\ speaking # 0 => Emitted = StartOf(speaking) /\ Emitted + 1 = EndOf(speaking)
         /\ speaking = 0 => Emitted = EndOf(born)
         /\ \A r \in 1 .. born : StartOf(r) <= Emitted /\ (r # speaking => EndOf(r) <= Emitted)
         /\ \A r \in Nat : EndOf(r) = Emitted + 1 => r = speaking
  BY ChatConstants DEF ChatTypes, Emitted, StartOf, EndOf

LEMMA ReplyOfFrame ==
  ASSUME NEW r \in Nat
  PROVE  ReplyOf(StartOf(r)) = r /\ ReplyOf(EndOf(r)) = r
  BY DEF ReplyOf, StartOf, EndOf

\* A frame that starts a reply.
LEMMA StartFields ==
  ASSUME NEW t \in Transcripts, NEW r \in Replies, NEW u, u = Reduced(t, StartOf(r))
  PROVE  /\ u \in Transcripts /\ u.head = "open" /\ u.of = r /\ u.running
         /\ (u.dated <=> t.dated \/ r \in Had)
         /\ u.whole = t.whole /\ u.twice = t.twice /\ u.cut = t.cut
<1>1. r \in Nat /\ ReplyOf(StartOf(r)) = r /\ r \in 0 .. ChatReplies
  BY ChatConstants, ReplyOfFrame DEF Replies
<1>2. u = Started([t EXCEPT !.dated = @ \/ r \in Had], r)
  BY <1>1 DEF Reduced, Had
<1>3. u = [t EXCEPT !.dated = t.dated \/ r \in Had, !.head = "open", !.of = r, !.running = TRUE]
  BY <1>2 DEF Started, Transcripts
<1>4. (t.dated \/ r \in Had) \in BOOLEAN
  BY DEF Transcripts
<1> HIDE DEF Had
<1> QED
  BY <1>1, <1>3, <1>4 DEF Transcripts

LEMMA WithoutRowFields ==
  ASSUME NEW t \in Transcripts, NEW u, u = WithoutRow(t)
  PROVE  /\ u \in Transcripts /\ u.head = t.head /\ u.of = t.of /\ u.running = t.running
         /\ u.dated = t.dated /\ u.cut \subseteq t.cut /\ u.twice \subseteq t.twice
         /\ u.whole \subseteq t.whole /\ \A w \in t.whole : w \in u.whole \/ w = t.of
<1>1. CASE t.of \in t.cut
  <2>1. u = [t EXCEPT !.cut = t.cut \ {t.of}]
    BY <1>1 DEF WithoutRow, Transcripts
  <2> QED
    BY <2>1 DEF Transcripts
<1>2. CASE t.of \notin t.cut /\ t.of \in t.twice
  <2>1. u = [t EXCEPT !.twice = t.twice \ {t.of}]
    BY <1>2 DEF WithoutRow, Transcripts
  <2> QED
    BY <2>1 DEF Transcripts
<1>3. CASE t.of \notin t.cut /\ t.of \notin t.twice
  <2>1. u = [t EXCEPT !.whole = t.whole \ {t.of}]
    BY <1>3 DEF WithoutRow, Transcripts
  <2> QED
    BY <2>1 DEF Transcripts
<1> QED
  BY <1>1, <1>2, <1>3

LEMMA WithRowFields ==
  ASSUME NEW t \in Transcripts, NEW r \in Replies, NEW u, u = WithRow(t, r)
  PROVE  /\ u \in Transcripts /\ u.dated = t.dated /\ u.cut = t.cut
         /\ u.whole = t.whole \cup {r} /\ (u.twice # t.twice => r \in t.whole)
         /\ u.twice \subseteq t.twice \cup {r}
<1>1. CASE r \in t.whole
  <2>1. u = [t EXCEPT !.twice = t.twice \cup {r}]
    BY <1>1 DEF WithRow, Transcripts
  <2> QED
    BY <1>1, <2>1 DEF Transcripts
<1>2. CASE r \notin t.whole
  <2>1. u = [t EXCEPT !.whole = t.whole \cup {r}]
    BY <1>2 DEF WithRow, Transcripts
  <2> QED
    BY <2>1 DEF Transcripts
<1> QED
  BY <1>1, <1>2

\* A frame that completes a reply.
LEMMA EndFields ==
  ASSUME NEW t \in Transcripts, NEW r \in Replies, NEW u, u = Reduced(t, EndOf(r))
  PROVE  /\ u \in Transcripts /\ u.head = "ended" /\ u.of = r /\ ~u.running
         /\ (u.dated <=> t.dated \/ r \in Had)
         /\ u.cut \subseteq t.cut /\ u.whole \subseteq t.whole \cup {r} /\ r \in u.whole
         /\ u.twice \subseteq t.twice \cup {r} /\ (u.twice # {} => t.twice # {} \/ r \in t.whole)
         /\ \A w \in t.whole : w \in u.whole \/ (t.head = "ended" /\ w = t.of)
<1> DEFINE dated == t.dated \/ r \in Had
           noted == [t EXCEPT !.dated = dated]
<1>1. r \in Nat /\ ReplyOf(EndOf(r)) = r /\ EndOf(r) # StartOf(r) /\ r \in 0 .. ChatReplies
  BY ChatConstants, ReplyOfFrame, FramesDiffer, FrameNumbers DEF Replies
<1>2. u = Completed([t EXCEPT !.dated = @ \/ r \in Had], r)
  BY <1>1 DEF Reduced, Had
<1>3. dated \in BOOLEAN
  BY DEF Transcripts
<1> HIDE DEF dated
<1>4. u = Completed(noted, r)
  BY <1>2 DEF dated
<1>5. /\ noted \in Transcripts /\ noted.dated = dated /\ noted.head = t.head /\ noted.of = t.of
      /\ noted.whole = t.whole /\ noted.twice = t.twice /\ noted.cut = t.cut
  BY <1>3 DEF Transcripts
<1> HIDE DEF noted
<1> DEFINE bare == IF noted.head = "ended" THEN WithoutRow(noted) ELSE noted
           full == WithRow(bare, r)
<1>6. u = [full EXCEPT !.head = "ended", !.of = r, !.running = FALSE]
  BY <1>4 DEF Completed
<1>7. /\ bare \in Transcripts /\ bare.dated = dated /\ bare.cut \subseteq t.cut
      /\ bare.twice \subseteq t.twice /\ bare.whole \subseteq t.whole
      /\ \A w \in t.whole : w \in bare.whole \/ (t.head = "ended" /\ w = t.of)
  BY <1>5, WithoutRowFields
<1> HIDE DEF bare
<1>8. /\ full \in Transcripts /\ full.dated = dated /\ full.cut = bare.cut
      /\ full.whole = bare.whole \cup {r} /\ (full.twice # bare.twice => r \in bare.whole)
      /\ full.twice \subseteq bare.twice \cup {r}
  BY <1>7, WithRowFields
<1> HIDE DEF full
<1>9. /\ u \in Transcripts /\ u.head = "ended" /\ u.of = r /\ ~u.running
      /\ u.dated = dated /\ u.cut = full.cut /\ u.whole = full.whole /\ u.twice = full.twice
  BY <1>1, <1>6, <1>8 DEF Transcripts
<1> QED
  BY <1>7, <1>8, <1>9 DEF dated

LEMMA SentFacts ==
  ASSUME ChatTypes
  PROVE  Sent \in Int /\ Len(onWay) \in Nat /\ Sent + Len(onWay) = Emitted
<1>1. Emitted \in Nat /\ Len(onWay) \in Nat
  BY EmittedFacts DEF ChatTypes
<1> QED
  BY <1>1 DEF Sent

-----------------------------------------------------------------------------
(* A frame is taken: by the connection, or as one of those that were missed *)

\* In a replay: a reply that has been read starts after frame n.
Coming(n) == line.at = "resumed" /\ \E q \in Had : StartOf(q) > n

\* Frame n is the first on its way, or the next one of a replay.
Follows(t, h, n) ==
  /\ h \in Nat /\ n \in Nat /\ h < n /\ n <= Emitted
  /\ \/ line.at = "open" /\ n = Sent + 1 /\ NextInv(t, h)
     \/ line.at = "resumed" /\ n = h + 1

LEMMA FrameFacts ==
  ASSUME ChatTypes, LineInv, NEW n \in Nat, n >= 1, n <= Emitted
  PROVE  \E r \in 1 .. born : r \in Replies /\ (n = StartOf(r) \/ n = EndOf(r))
<1>1. ReplyOf(n) \in Nat /\ ReplyOf(n) >= 1 /\ (n = StartOf(ReplyOf(n)) \/ n = EndOf(ReplyOf(n)))
  BY FrameOf
<1>2. Emitted <= 2 * born /\ born \in Nat /\ born <= ChatReplies
  BY ChatConstants DEF ChatTypes, Emitted
<1>3. ReplyOf(n) <= born
  BY <1>1, <1>2, EmittedFacts DEF StartOf, EndOf
<1> QED
  BY <1>1, <1>2, <1>3, ChatConstants DEF Replies

\* The row a completion takes over is not missed, or that will be known.
LEMMA RowKept ==
  ASSUME ChatTypes, LineInv, StoredInv, NEW t \in Transcripts, NEW h, NEW n, Follows(t, h, n),
         OwnInv(t, h), RowInv(t, h), stored.complete,
         NEW u, u = Reduced(t, n), NEW x \in t.whole, x \notin u.whole
  PROVE  u.dated \/ Lost(u) \/ Coming(n)
<1>1. h \in Nat /\ n \in Nat /\ n >= 1 /\ n <= Emitted /\ h < n
  BY DEF Follows
<1>2. PICK r \in 1 .. born : r \in Replies /\ (n = StartOf(r) \/ n = EndOf(r))
  BY <1>1, FrameFacts
<1>3. n = EndOf(r)
  <2>1. CASE n = StartOf(r)
    <3>1. u = Reduced(t, StartOf(r))
      BY <2>1
    <3>2. u.whole = t.whole
      BY <1>2, <3>1, StartFields
    <3> QED
      BY <3>2
  <2> QED
    BY <1>2, <2>1
<1>4. t.head = "ended" /\ t.of = x /\ x # r /\ r \in u.whole /\ (u.dated <=> t.dated \/ r \in Had)
  BY <1>2, <1>3, EndFields
<1>5. x \in 1 .. born /\ born \in Nat /\ x \in Nat /\ r \in Nat
  BY EmittedFacts DEF RowInv
<1>6. CASE line.at = "open" /\ n = Sent + 1 /\ NextInv(t, h)
  <2>1. Sent \in Int
    BY <1>1, <1>6 DEF ChatTypes, Sent, Emitted
  <2>2. (IF h > Sent THEN h ELSE Sent) + 1 = EndOf(r)
    BY <1>1, <1>3, <1>6, <2>1
  <2>3. t.of \in {0, r}
    BY <1>4, <1>6, <2>2 DEF NextInv
  <2> QED
    BY <1>4, <1>5, <2>3
<1>7. CASE line.at = "resumed" /\ n = h + 1
  <2>1. h = StartOf(r)
    BY <1>1, <1>3, <1>5, <1>7 DEF StartOf, EndOf
  <2>2. Owns(t, r) \/ t.dated \/ r \in Had \/ Passed(r)
    BY <2>1 DEF OwnInv
  <2>3. CASE Owns(t, r) /\ ~t.dated
    <3>1. x > r
      BY <1>4, <1>5, <2>3 DEF Owns
    <3>2. EndOf(r) < StartOf(x) /\ StartOf(x) < EndOf(x)
          /\ StartOf(x) \in Int /\ EndOf(x) \in Int /\ EndOf(r) \in Int
      BY <1>5, <3>1 DEF StartOf, EndOf
    <3>3. x \in Had
      BY <1>1, <1>3, <2>3, <3>2 DEF RowInv
    <3> QED
      BY <1>3, <1>7, <3>2, <3>3 DEF Coming
  <2> QED
    BY <1>4, <2>2, <2>3 DEF Lost
<1> QED
  BY <1>6, <1>7 DEF Follows

LEMMA LostKept ==
  ASSUME ChatTypes, LineInv, StoredInv, NEW t \in Transcripts, NEW h, NEW n, Follows(t, h, n),
         OwnInv(t, h), RowInv(t, h), stored.complete,
         NEW u, u = Reduced(t, n), Lost(t)
  PROVE  u.dated \/ Lost(u) \/ Coming(n)
<1>1. PICK w \in t.whole : Passed(w)
  BY DEF Lost
<1>2. CASE w \in u.whole
  BY <1>1, <1>2 DEF Lost
<1>3. CASE w \notin u.whole
  BY <1>3, RowKept
<1> QED
  BY <1>2, <1>3

LEMMA ReducedTypes ==
  ASSUME ChatTypes, LineInv, NEW t \in Transcripts, NEW h, NEW n, Follows(t, h, n)
  PROVE  /\ Reduced(t, n) \in Transcripts /\ (t.dated => Reduced(t, n).dated)
         /\ Reduced(t, n).cut \subseteq t.cut
<1>1. n \in Nat /\ n >= 1 /\ n <= Emitted
  BY DEF Follows
<1>2. PICK r \in 1 .. born : r \in Replies /\ (n = StartOf(r) \/ n = EndOf(r))
  BY <1>1, FrameFacts
<1> QED
  BY <1>2, StartFields, EndFields

LEMMA TextFrame ==
  ASSUME ChatTypes, LineInv, StoredInv, NEW t \in Transcripts, NEW h, NEW n, Follows(t, h, n),
         TextInv(t, h), NEW u, u = Reduced(t, n)
  PROVE  TextInv(u, n) /\ \A r \in 1 .. born : n = StartOf(r) => u.head = "open" /\ u.of = r
<1>1. h \in Nat /\ n \in Nat /\ n >= 1 /\ n <= Emitted /\ h < n
  BY DEF Follows
<1>2. PICK r \in 1 .. born : r \in Replies /\ (n = StartOf(r) \/ n = EndOf(r))
  BY <1>1, FrameFacts
<1>3. r \in Nat /\ r >= 1 /\ born \in Nat
  BY EmittedFacts
<1>4. TurnInv(t, h) /\ OwnInv(t, h) /\ RowInv(t, h)
  BY DEF TextInv
<1>5. CASE n = StartOf(r)
  <2>1. /\ u \in Transcripts /\ u.head = "open" /\ u.of = r /\ u.running
        /\ (u.dated <=> t.dated \/ r \in Had)
        /\ u.whole = t.whole /\ u.twice = t.twice /\ u.cut = t.cut
    BY <1>2, <1>5, StartFields
  <2>2. EndOf(r) > n
    BY <1>3, <1>5, FramesDiffer, FrameNumbers
  <2>3. TurnInv(u, n)
    BY <1>2, <1>3, <2>1, <2>2 DEF TurnInv
  <2>4. \A q \in 1 .. born : n = StartOf(q) => q = r
    BY <1>3, <1>5 DEF StartOf
  <2>5. OwnInv(u, n)
    BY <1>3, <2>1, <2>4 DEF OwnInv, Owns
  <2>6. \A q \in 1 .. born : EndOf(q) <= h => EndOf(q) <= n
    BY <1>1, <1>3, FramesDiffer, FrameNumbers
  <2>7. RowInv(u, n)
    BY <1>4, <2>1, <2>6 DEF RowInv
  <2> QED
    BY <2>1, <2>3, <2>4, <2>5, <2>7 DEF TextInv
<1>6. CASE n = EndOf(r)
  <2>1. /\ u \in Transcripts /\ u.head = "ended" /\ u.of = r /\ ~u.running
        /\ (u.dated <=> t.dated \/ r \in Had)
        /\ u.cut \subseteq t.cut /\ u.whole \subseteq t.whole \cup {r}
        /\ u.twice \subseteq t.twice \cup {r} /\ (u.twice # {} => t.twice # {} \/ r \in t.whole)
    BY <1>2, <1>6, EndFields
  <2>2. \A q \in 1 .. born : n # StartOf(q)
    BY <1>3, <1>6, FramesDiffer, FrameNumbers
  <2>3. TurnInv(u, n)
    BY <1>3, <2>1 DEF TurnInv
  <2>4. OwnInv(u, n)
    BY <2>2 DEF OwnInv
  <2>5. \A q \in 1 .. born : EndOf(q) <= h => EndOf(q) <= n
    BY <1>1, <1>3, FramesDiffer, FrameNumbers
  <2>6. u.whole \cup u.cut \cup u.twice \subseteq 1 .. born
    BY <1>4, <2>1 DEF RowInv
  <2>7. \A w \in u.whole : w \in Had \/ EndOf(w) <= n \/ u.dated
    <3>1. EndOf(r) <= n
      BY <1>1, <1>6
    <3> QED
      BY <1>4, <2>1, <2>5, <2>6, <3>1 DEF RowInv
  <2>8. speaking \in u.cut \/ u.twice # {} => u.dated
    <3>1. r \in t.whole => r \in Had \/ t.dated
      BY <1>1, <1>4, <1>6 DEF RowInv
    <3> QED
      BY <1>4, <2>1, <3>1 DEF RowInv
  <2>9. \A c \in u.cut : c \notin Had \/ u.dated
    BY <1>4, <2>1 DEF RowInv
  <2>10. RowInv(u, n)
    BY <2>6, <2>7, <2>8, <2>9 DEF RowInv
  <2> QED
    BY <2>2, <2>3, <2>4, <2>10 DEF TextInv
<1> QED
  BY <1>2, <1>5, <1>6

LEMMA CoverFrame ==
  ASSUME ChatTypes, LineInv, StoredInv, NEW t \in Transcripts, NEW h, NEW n, Follows(t, h, n),
         TextInv(t, h), NEW u, u = Reduced(t, n), NEW x \in BOOLEAN,
         x => Coming(h), CoverInv(t, h, x)
  PROVE  CoverInv(u, n, Coming(n))
<1> SUFFICES ASSUME stored.complete
             PROVE  CoverInv(u, n, Coming(n))
  BY DEF CoverInv
<1>1. h \in Nat /\ n \in Nat /\ n >= 1 /\ n <= Emitted /\ h < n
  BY DEF Follows
<1>2. PICK r \in 1 .. born : r \in Replies /\ (n = StartOf(r) \/ n = EndOf(r))
  BY <1>1, FrameFacts
<1>3. r \in Nat /\ r >= 1 /\ born \in Nat /\ OwnInv(t, h) /\ RowInv(t, h)
  BY EmittedFacts DEF TextInv
<1> DEFINE Excused == u.dated \/ Lost(u) \/ Coming(n)
<1>4. \A w \in t.whole : w \in u.whole \/ Excused
  BY <1>3, RowKept
<1>5. Lost(t) => Excused
  BY <1>3, LostKept
<1>6. t.dated => u.dated
  BY ReducedTypes
<1>7. x => Excused
  <2> SUFFICES ASSUME line.at = "resumed", NEW q \in Had, StartOf(q) > h, ~(StartOf(q) > n)
               PROVE  u.dated
    BY DEF Coming
  <2>1. q \in Nat /\ q \in 1 .. born
    BY <1>3 DEF StoredInv, Over
  <2>2. StartOf(q) \in Int
    BY <2>1, FrameNumbers
  <2>3. n = h + 1
    BY DEF Follows
  <2>4. n = StartOf(q)
    BY <1>1, <2>2, <2>3
  <2>5. q = r
    BY <1>2, <1>3, <2>1, <2>4 DEF StartOf, EndOf
  <2> QED
    BY <1>2, <2>4, <2>5, StartFields
<1>8. ASSUME NEW q \in Had
      PROVE  q \in u.whole \/ Excused
  <2>1. q \in t.whole \/ t.dated \/ Lost(t) \/ x
    BY DEF CoverInv
  <2> QED
    BY <1>4, <1>5, <1>6, <1>7, <2>1
<1>9. ASSUME NEW i \in DOMAIN history, i > stored.total
      PROVE  history[i] \in u.whole \/ Told(n, EndOf(history[i]))
             \/ repair.due \/ line.missing \/ Excused
  <2> DEFINE q == history[i]
  <2>1. \/ q \in t.whole \/ Told(h, EndOf(q))
        \/ repair.due \/ line.missing \/ t.dated \/ Lost(t) \/ x
    BY <1>9 DEF CoverInv
  <2>2. q \in 1 .. born /\ q \in Nat
    BY <1>3 DEF StoredInv, Over
  <2> HIDE DEF q
  <2>3. EndOf(q) \in Nat
    BY <2>2, FrameNumbers
  <2>4. CASE Told(h, EndOf(q)) /\ ~line.missing /\ ~Told(n, EndOf(q))
    <3>1. EndOf(q) = n
      <4>1. Sent \in Int
        BY SentFacts
      <4>2. EndOf(q) > h /\ (EndOf(q) > Sent \/ line.at = "resumed")
        BY <2>4 DEF Follows, Told
      <4>3. ~(EndOf(q) > n)
        BY <1>1, <2>3, <2>4, <4>1, <4>2 DEF Follows, Told
      <4> QED
        BY <1>1, <2>3, <4>1, <4>2, <4>3 DEF Follows
    <3>2. q = r /\ n = EndOf(r)
      BY <1>2, <1>3, <2>2, <3>1 DEF StartOf, EndOf
    <3>3. r \in u.whole
      BY <1>2, <3>2, EndFields
    <3> QED
      BY <3>2, <3>3 DEF q
  <2> QED
    BY <1>4, <1>5, <1>6, <1>7, <2>1, <2>4 DEF q
<1> QED
  BY <1>8, <1>9 DEF CoverInv

-----------------------------------------------------------------------------
(* A replay                                                                *)

\* A set that has 0, and with a number the next one, has all of them.
LEMMA Counted ==
  ASSUME NEW T, 0 \in T, \A n \in Nat : n \in T => n + 1 \in T
  PROVE  Nat \subseteq T
<1> SUFFICES ASSUME NEW k \in Nat, k \notin T PROVE FALSE
  OBVIOUS
<1> DEFINE Upto(n) == 0 .. n
           S == {Upto(n) : n \in Nat \ T}
<1>1. S \subseteq FiniteSubsetsOf(Nat) /\ S # {}
  <2>1. \A n \in Nat : Upto(n) \in SUBSET Nat /\ IsFiniteSet(Upto(n))
    BY FS_Interval
  <2>2. \A n \in Nat : Upto(n) \in FiniteSubsetsOf(Nat)
    BY <2>1, Zenon DEF FiniteSubsetsOf
  <2> QED
    BY <2>2
<1>2. IsWellFoundedOn(StrictSubsetOrdering(Nat), FiniteSubsetsOf(Nat))
  BY FS_StrictSubsetOrderingWellFounded
<1>3. \E x \in S : \A y \in S : <<y, x>> \notin StrictSubsetOrdering(Nat)
  <2> HIDE DEF S
  <2> QED
    BY <1>1, <1>2, WFMin
<1>4. PICK n \in Nat \ T : \A y \in S : <<y, Upto(n)>> \notin StrictSubsetOrdering(Nat)
  BY <1>3
<1>5. n - 1 \in Nat \ T /\ n - 1 < n
  BY <1>4
<1>6. Upto(n - 1) \subseteq Upto(n) /\ Upto(n - 1) # Upto(n) /\ Upto(n) \subseteq Nat
  BY <1>4, <1>5
<1>7. <<Upto(n - 1), Upto(n)>> \in StrictSubsetOrdering(Nat)
  BY <1>6, Zenon DEF StrictSubsetOrdering
<1> QED
  BY <1>4, <1>5, <1>7

\* The transcripts of a replay, up to frame n.
Loop(a, n) ==
  a = [k \in line.heard .. n |-> IF k = line.heard THEN transcript ELSE Reduced(a[k - 1], k)]

LEMMA LoopRuns ==
  ASSUME line.heard \in Nat
  PROVE  \A d \in Nat : \E a : Loop(a, line.heard + d)
<1> DEFINE h == line.heard
           T == {d \in Nat : \E a : Loop(a, h + d)}
<1>1. 0 \in T
  <2> DEFINE a == [k \in h .. h + 0 |-> transcript]
  <2>1. a = [k \in h .. h + 0 |-> IF k = h THEN transcript ELSE Reduced(a[k - 1], k)]
    OBVIOUS
  <2>2. Loop(a, h + 0)
    BY <2>1 DEF Loop
  <2> QED
    BY <2>2
<1>2. ASSUME NEW d \in Nat, d \in T
      PROVE  d + 1 \in T
  <2>1. PICK a : Loop(a, h + d)
    BY <1>2
  <2> DEFINE n == h + d
             m == h + (d + 1)
             b == [k \in h .. m |-> IF k = m THEN Reduced(a[n], m) ELSE a[k]]
  <2>0. n \in Nat /\ m = n + 1 /\ h <= n /\ h \in Nat
    OBVIOUS
  <2>2. \A k \in h .. m : b[k] = IF k = h THEN transcript ELSE Reduced(b[k - 1], k)
    <3> SUFFICES ASSUME NEW k \in h .. m
                 PROVE  b[k] = IF k = h THEN transcript ELSE Reduced(b[k - 1], k)
      OBVIOUS
    <3>1. CASE k = m
      <4>1. b[k] = Reduced(a[n], m) /\ b[n] = a[n] /\ k # h /\ k - 1 = n
        BY <2>0, <3>1
      <4> QED
        BY <3>1, <4>1
    <3>2. CASE k \in h .. n
      <4>1. b[k] = a[k] /\ (k # h => b[k - 1] = a[k - 1])
        BY <2>0, <3>2
      <4>2. a[k] = IF k = h THEN transcript ELSE Reduced(a[k - 1], k)
        BY <2>1, <3>2 DEF Loop
      <4> QED
        BY <4>1, <4>2
    <3> QED
      BY <2>0, <3>1, <3>2
  <2>3. Loop(b, m)
    <3> DEFINE c == [k \in h .. m |-> IF k = h THEN transcript ELSE Reduced(b[k - 1], k)]
    <3>1. b = c
      BY <2>2
    <3> HIDE DEF b
    <3> QED
      BY <3>1 DEF Loop
  <2> QED
    BY <2>3
<1> HIDE DEF T
<1>3. Nat \subseteq T
  BY <1>1, <1>2, Counted
<1> QED
  BY <1>3 DEF T

\* They lead from the transcript, frame by frame, to the one after the replay.
Course(a) ==
  /\ a[line.heard] = transcript /\ Replayed = a[Emitted]
  /\ \A k \in line.heard + 1 .. Emitted : a[k] = Reduced(a[k - 1], k)

LEMMA Looped ==
  ASSUME line.heard \in Nat, Emitted \in Nat, line.heard <= Emitted
  PROVE  \E a : Course(a)
<1> DEFINE after == CHOOSE a : Loop(a, Emitted)
<1>1. Loop(after, Emitted)
  <2>1. Emitted - line.heard \in Nat /\ line.heard + (Emitted - line.heard) = Emitted
    OBVIOUS
  <2>2. \E a : Loop(a, Emitted)
    BY <2>1, LoopRuns
  <2> QED
    BY <2>2
<1>2. Replayed = after[Emitted]
  BY DEF Replayed, Loop
<1>3. \A k \in line.heard .. Emitted :
        after[k] = IF k = line.heard THEN transcript ELSE Reduced(after[k - 1], k)
  <2> HIDE DEF after
  <2> QED
    BY <1>1 DEF Loop
<1> HIDE DEF after
<1>4. Course(after)
  BY <1>2, <1>3 DEF Course
<1> QED
  BY <1>4

\* A transcript t after the frames up to k.
Along(t, k) ==
  /\ t \in Transcripts /\ TextInv(t, k) /\ CoverInv(t, k, Coming(k)) /\ CutInv(t)
  /\ k > line.heard => \A r \in 1 .. born : k = StartOf(r) => t.head = "open" /\ t.of = r
  /\ k = line.heard => t = transcript

LEMMA AlongNext ==
  ASSUME ChatTypes, LineInv, StoredInv, line.at = "resumed", NEW k \in Nat,
         line.heard < k, k <= Emitted, NEW t, Along(t, k - 1)
  PROVE  Along(Reduced(t, k), k)
<1>1. k - 1 \in Nat /\ k = (k - 1) + 1 /\ k # line.heard
  BY DEF ChatTypes, Lines
<1>2. t \in Transcripts /\ TextInv(t, k - 1) /\ CoverInv(t, k - 1, Coming(k - 1)) /\ CutInv(t)
  BY DEF Along
<1>3. Follows(t, k - 1, k)
  BY <1>1 DEF Follows
<1>4. Coming(k - 1) \in BOOLEAN
  BY DEF Coming
<1>5. Reduced(t, k) \in Transcripts
  BY <1>2, <1>3, ReducedTypes
<1>6. /\ TextInv(Reduced(t, k), k)
      /\ \A r \in 1 .. born : k = StartOf(r) => Reduced(t, k).head = "open" /\ Reduced(t, k).of = r
  BY <1>2, <1>3, TextFrame
<1>7. CoverInv(Reduced(t, k), k, Coming(k))
  BY <1>2, <1>3, <1>4, CoverFrame
<1>8. CutInv(Reduced(t, k))
  BY <1>2, <1>3, ReducedTypes DEF CutInv
<1> QED
  BY <1>1, <1>5, <1>6, <1>7, <1>8 DEF Along

LEMMA ReplayedInv ==
  ASSUME ChatInv, line.at = "resumed"
  PROVE  Along(Replayed, Emitted)
<1>1. /\ line.heard \in Nat /\ Emitted \in Nat /\ line.heard <= Emitted
  BY EmittedFacts DEF ChatInv, ChatTypes, Lines, LineInv
<1>2. PICK a : Course(a)
  BY <1>1, Looped
<1> DEFINE h == line.heard
           T == {d \in Nat : h + d <= Emitted => Along(a[h + d], h + d)}
<1>3. 0 \in T
  <2>1. CoverInv(transcript, h, Coming(h))
    BY DEF ChatInv, TranscriptInv, CoverInv
  <2>2. Along(transcript, h)
    BY <1>1, <2>1 DEF Along, ChatInv, ChatTypes, TranscriptInv
  <2> QED
    BY <1>1, <1>2, <2>2 DEF Course
<1>4. ASSUME NEW d \in Nat, d \in T
      PROVE  d + 1 \in T
  <2> SUFFICES ASSUME h + (d + 1) <= Emitted
               PROVE  Along(a[h + (d + 1)], h + (d + 1))
    OBVIOUS
  <2> DEFINE k == h + (d + 1)
  <2>1. k - 1 = h + d /\ k \in h + 1 .. Emitted /\ k \in Nat /\ h < k /\ k <= Emitted
    BY <1>1
  <2> HIDE DEF k
  <2>2. a[k] = Reduced(a[k - 1], k)
    BY <1>2, <2>1 DEF Course
  <2>3. Along(a[k - 1], k - 1)
    BY <1>1, <1>4, <2>1
  <2>4. Along(Reduced(a[k - 1], k), k)
    BY <2>1, <2>3, AlongNext DEF ChatInv
  <2> QED
    BY <2>2, <2>4 DEF k
<1> HIDE DEF T
<1>5. Nat \subseteq T
  BY <1>3, <1>4, Counted
<1>6. Emitted - h \in T /\ h + (Emitted - h) = Emitted
  BY <1>1, <1>5
<1> QED
  BY <1>1, <1>2, <1>6 DEF T, Course

-----------------------------------------------------------------------------
(* The state of a session is told                                          *)

\* Transcript u is t after Hermes has said that it is giving reply q, 0: none.
Resumed(t, q, u) ==
  /\ u \in Transcripts /\ u.whole = t.whole /\ u.twice = t.twice /\ (t.dated => u.dated)
  /\ q # speaking => u.dated
  /\ q # 0 => u.head = "open" /\ u.of = q /\ u.running /\ u.cut = t.cut
  /\ q = 0 => /\ u.head = "ended" /\ ~u.running /\ u.of \in {0, t.of} /\ u.cut \subseteq t.cut \cup {t.of}
              /\ t.head = "open" => u.of = t.of
              /\ t.head # "open" => u.cut = t.cut

LEMMA RouteFields ==
  ASSUME ChatTypes, NEW t \in Transcripts, t.head = "open" => t.of # 0,
         NEW q \in 0 .. ChatReplies, NEW u, u = RouteResumed(t, q)
  PROVE  /\ u \in Transcripts /\ u.whole = t.whole /\ u.twice = t.twice /\ (t.dated <=> u.dated)
         /\ q # 0 => u.head = "open" /\ u.of = q /\ u.running /\ u.cut = t.cut
         /\ q = 0 => /\ u.head = "ended" /\ ~u.running /\ u.of \in {0, t.of}
                     /\ u.cut \subseteq t.cut \cup {t.of} /\ (t.head = "open" => u.of = t.of)
                     /\ t.head # "open" => u.cut = t.cut
<1>1. CASE q # 0
  <2>1. u = [t EXCEPT !.head = "open", !.of = q, !.running = TRUE]
    BY <1>1 DEF RouteResumed, Started
  <2> QED
    BY <1>1, <2>1 DEF Transcripts
<1>2. CASE q = 0
  <2> DEFINE closed == IF t.head = "open" THEN t.cut \cup {t.of} ELSE t.cut
             last == IF t.head = "await" THEN 0 ELSE t.of
  <2>1. u = [t EXCEPT !.cut = closed, !.of = last, !.head = "ended", !.running = FALSE]
    BY <1>2 DEF RouteResumed, Transcripts
  <2>2. closed \in SUBSET Replies /\ closed \subseteq t.cut \cup {t.of} /\ (t.head # "open" => closed = t.cut)
    BY DEF Transcripts, Replies
  <2>3. last \in 0 .. ChatReplies /\ last \in {0, t.of} /\ (t.head = "open" => last = t.of)
    BY ChatConstants DEF Transcripts
  <2> HIDE DEF closed, last
  <2>4. /\ u \in Transcripts /\ u.whole = t.whole /\ u.twice = t.twice /\ u.dated = t.dated
        /\ u.cut = closed /\ u.of = last /\ u.head = "ended" /\ ~u.running
    BY <2>1, <2>2, <2>3 DEF Transcripts
  <2> QED
    BY <1>2, <2>2, <2>3, <2>4
<1> QED
  BY <1>1, <1>2

LEMMA RestoredFields ==
  ASSUME ChatTypes, LineInv, NEW t \in Transcripts, t.head = "open" => t.of # 0
  PROVE  Resumed(t, line.running, Restored(t))
<1> DEFINE q == line.running
           v == RouteResumed(t, q)
           dated == v.dated \/ q # speaking
           u == [v EXCEPT !.dated = dated]
<1>1. q \in 0 .. ChatReplies
  BY ChatConstants DEF ChatTypes, Lines, LineInv
<1> HIDE DEF q
<1>2. /\ v \in Transcripts /\ v.whole = t.whole /\ v.twice = t.twice /\ (t.dated <=> v.dated)
      /\ q # 0 => v.head = "open" /\ v.of = q /\ v.running /\ v.cut = t.cut
      /\ q = 0 => /\ v.head = "ended" /\ ~v.running /\ v.of \in {0, t.of}
                  /\ v.cut \subseteq t.cut \cup {t.of} /\ (t.head = "open" => v.of = t.of)
                  /\ t.head # "open" => v.cut = t.cut
  BY <1>1, RouteFields
<1>3. Restored(t) = u
  BY DEF Restored, q
<1> HIDE DEF v
<1>4. dated \in BOOLEAN
  BY <1>2 DEF Transcripts
<1>5. (t.dated => dated) /\ (q # speaking => dated)
  BY <1>2
<1> HIDE DEF dated
<1>6. /\ u \in Transcripts /\ u.whole = v.whole /\ u.twice = v.twice /\ u.dated = dated
      /\ u.head = v.head /\ u.of = v.of /\ u.running = v.running /\ u.cut = v.cut
  BY <1>2, <1>4 DEF Transcripts
<1> HIDE DEF u
<1>7. Resumed(t, q, u)
  BY <1>2, <1>5, <1>6 DEF Resumed
<1> QED
  BY <1>3, <1>7 DEF q

LEMMA OpenedFields ==
  ASSUME ChatTypes, NEW t \in Transcripts, t.head = "open" => t.of # 0
  PROVE  Resumed(t, speaking, RouteResumed(t, speaking))
<1>1. speaking \in 0 .. ChatReplies
  BY ChatConstants DEF ChatTypes
<1> DEFINE u == RouteResumed(t, speaking)
<1>2. u = RouteResumed(t, speaking)
  OBVIOUS
<1> HIDE DEF u
<1> QED
  BY <1>1, <1>2, RouteFields DEF Resumed, u

\* Told that none is given, the transcript has the row of the one that is, if it has heard
\* of it.
LEMMA TextResumed ==
  ASSUME ChatTypes, LineInv, StoredInv, NEW t \in Transcripts, NEW h \in Nat, h <= Emitted,
         TextInv(t, h), NEW q \in 0 .. born, NEW u, Resumed(t, q, u),
         q = 0 /\ speaking # 0 /\ h = StartOf(speaking) => t.head = "open" /\ t.of = speaking
  PROVE  TextInv(u, h)
<1>1. TurnInv(t, h) /\ OwnInv(t, h) /\ RowInv(t, h)
  BY DEF TextInv
<1>2. born \in Nat /\ speaking \in Nat /\ speaking \in {0, born} /\ Emitted \in Nat
  BY EmittedFacts DEF ChatTypes
<1>3. CASE q # 0
  <2>1. u.head = "open" /\ u.of = q /\ u.running /\ u.cut = t.cut
    BY <1>3 DEF Resumed
  <2>2. (t.dated => u.dated) /\ (q # speaking => u.dated) /\ u.whole = t.whole /\ u.twice = t.twice
    BY DEF Resumed
  <2>3. q = speaking => EndOf(q) > h /\ q \notin Had
    <3> SUFFICES ASSUME q = speaking PROVE EndOf(q) > h /\ q \notin Had
      OBVIOUS
    <3>1. EndOf(q) = Emitted + 1
      BY <1>3, EmittedFacts
    <3>2. q \notin Had
      BY DEF StoredInv, Over
    <3> QED
      BY <1>2, <3>1, <3>2
  <2>4. TurnInv(u, h)
    BY <1>2, <1>3, <2>1, <2>2, <2>3 DEF TurnInv
  <2>5. OwnInv(u, h)
    <3>1. q = speaking => \A r \in 1 .. born : Owns(u, r)
      BY <1>2, <1>3, <2>1 DEF Owns
    <3> QED
      BY <2>1, <2>2, <3>1 DEF OwnInv
  <2>6. RowInv(u, h)
    BY <1>1, <2>1, <2>2 DEF RowInv
  <2> QED
    BY <2>4, <2>5, <2>6 DEF TextInv
<1>4. CASE q = 0
  <2>1. /\ u.head = "ended" /\ ~u.running /\ u.of \in {0, t.of} /\ u.cut \subseteq t.cut \cup {t.of}
        /\ t.head = "open" => u.of = t.of
        /\ t.head # "open" => u.cut = t.cut
    BY <1>4 DEF Resumed
  <2>2. (t.dated => u.dated) /\ (0 # speaking => u.dated) /\ u.whole = t.whole /\ u.twice = t.twice
    BY <1>4 DEF Resumed
  <2>3. TurnInv(u, h)
    BY <1>1, <1>2, <2>1 DEF TurnInv
  <2>4. \A r \in 1 .. born : Owns(t, r) => Owns(u, r)
    BY <1>2, <2>1 DEF Owns
  <2>5. OwnInv(u, h)
    <3> SUFFICES ASSUME NEW r \in 1 .. born, h = StartOf(r)
                 PROVE  /\ Owns(u, r) \/ r # speaking
                        /\ stored.complete => Owns(u, r) \/ u.dated \/ r \in Had \/ Passed(r)
      BY DEF OwnInv
    <3>1. r = speaking => Owns(u, r)
      BY <1>2, <1>4, <2>1 DEF Owns
    <3>2. t.running => Owns(u, r) \/ r # speaking
      BY <3>1
    <3>3. stored.complete => Owns(t, r) \/ t.dated \/ r \in Had \/ Passed(r)
      BY <1>1 DEF OwnInv
    <3> QED
      BY <2>2, <2>4, <3>1, <3>3
  <2>6. RowInv(u, h)
    <3>1. t.head = "open" => t.of \in 1 .. born /\ (t.of \notin Had \/ t.dated)
      BY <1>1, <1>2 DEF TurnInv, Transcripts
    <3>2. u.cut \subseteq 1 .. born /\ \A c \in u.cut : c \notin Had \/ u.dated
      BY <1>1, <2>1, <2>2, <3>1 DEF RowInv
    <3>3. speaking \in u.cut => u.dated
      BY <1>2, <2>2, <3>2
    <3> QED
      BY <1>1, <2>2, <3>2, <3>3 DEF RowInv
  <2> QED
    BY <2>3, <2>5, <2>6 DEF TextInv
<1> QED
  BY <1>3, <1>4

\* What is shown and what is missed stays; a row that is closed early is one whose
\* completion is missed.
LEMMA CoverResumed ==
  ASSUME ChatTypes, LineInv, StoredInv, NEW t \in Transcripts, NEW h \in Nat, h <= Emitted,
         TurnInv(t, h), CoverInv(t, h, FALSE), NEW q \in 0 .. born, NEW u, Resumed(t, q, u)
  PROVE  CoverInv(u, h, FALSE) /\ (CutInv(t) /\ (line.missing \/ h = Emitted) => CutInv(u))
<1>1. u.whole = t.whole /\ (t.dated => u.dated)
  BY DEF Resumed
<1>2. CoverInv(u, h, FALSE)
  BY <1>1 DEF CoverInv, Lost
<1>3. ASSUME CutInv(t), line.missing \/ h = Emitted, stored.complete, NEW c \in u.cut
      PROVE  u.dated \/ repair.due \/ line.missing \/ Within(c)
  <2>1. CASE c \in t.cut
    BY <1>1, <1>3, <2>1 DEF CutInv
  <2>2. CASE c \notin t.cut
    <3>1. q = 0 /\ t.head = "open" /\ c = t.of
      BY <1>3, <2>2 DEF Resumed
    <3>2. t.dated \/ EndOf(t.of) > h
      BY <3>1 DEF TurnInv
    <3>3. CASE h = Emitted /\ EndOf(t.of) > h
      <4>1. t.of \in 1 .. born
        BY <3>1, EmittedFacts DEF TurnInv, Transcripts
      <4>2. t.of = speaking
        <5>1. EndOf(t.of) \in Nat /\ Emitted \in Nat
          BY <4>1, EmittedFacts, FrameNumbers
        <5> QED
          BY <3>3, <4>1, <5>1, EmittedFacts
      <4>3. speaking # 0
        BY <4>1, <4>2, EmittedFacts
      <4> QED
        BY <3>1, <4>3 DEF Resumed
    <3> QED
      BY <1>1, <1>3, <3>2, <3>3
  <2> QED
    BY <2>1, <2>2
<1> QED
  BY <1>2, <1>3 DEF CutInv

-----------------------------------------------------------------------------
(* Steps that leave Hermes and the rows stored alone                       *)

RowsKept == /\ stored'.rows = stored.rows /\ stored'.total = stored.total
            /\ stored'.complete = stored.complete

\* What is missed is still told, or a repair will read it.
ToldKept(h) ==
  /\ repair.due => repair'.due
  /\ line.missing => line'.missing \/ repair'.due
  /\ \A n \in Nat : n <= Emitted /\ Told(h, n) => Told(h, n)' \/ line'.missing \/ repair'.due

LEMMA Settle ==
  ASSUME ChatTypes, StoredInv, NEW t \in Transcripts, NEW h \in Nat,
         UNCHANGED hermesVars, RowsKept, ToldKept(h)
  PROVE  /\ StoredInv'
         /\ TextInv(t, h) => TextInv(t, h)'
         /\ CoverInv(t, h, FALSE) => CoverInv(t, h, FALSE)'
         /\ CutInv(t) => CutInv(t)'
<1>1. /\ history' = history /\ speaking' = speaking /\ born' = born
      /\ stored'.rows = stored.rows /\ stored'.total = stored.total
      /\ stored'.complete = stored.complete
  BY DEF hermesVars, RowsKept
<1>2. StoredInv'
  BY <1>1 DEF StoredInv, Over, Had
<1>3. \A r : Passed(r)' <=> Passed(r)
  BY <1>1 DEF Passed, Over, Had, Within
<1>4. TextInv(t, h) => TextInv(t, h)'
  <2>1. TurnInv(t, h) => TurnInv(t, h)'
    BY <1>1 DEF TurnInv, Had
  <2>2. OwnInv(t, h) => OwnInv(t, h)'
    BY <1>1, <1>3 DEF OwnInv, Had, Owns
  <2>3. RowInv(t, h) => RowInv(t, h)'
    BY <1>1 DEF RowInv, Had
  <2> QED
    BY <2>1, <2>2, <2>3 DEF TextInv
<1>5. Lost(t) => Lost(t)'
  BY <1>3 DEF Lost
<1>6. ASSUME CoverInv(t, h, FALSE), stored.complete
      PROVE  CoverInv(t, h, FALSE)'
  <2>1. \A r \in Had' : r \in t.whole \/ t.dated \/ Lost(t)'
    BY <1>1, <1>5, <1>6 DEF CoverInv, Had
  <2>2. ASSUME NEW i \in DOMAIN history, i > stored.total
        PROVE  \/ history[i] \in t.whole \/ Told(h, EndOf(history[i]))'
               \/ repair'.due \/ line'.missing \/ t.dated \/ Lost(t)'
    <3>1. \/ history[i] \in t.whole \/ Told(h, EndOf(history[i]))
          \/ repair.due \/ line.missing \/ t.dated \/ Lost(t)
      BY <1>6, <2>2 DEF CoverInv
    <3>2. history[i] \in 1 .. born /\ history[i] # speaking /\ born \in Nat
      BY EmittedFacts DEF StoredInv, Over
    <3>3. EndOf(history[i]) \in Nat /\ EndOf(history[i]) <= Emitted
      BY <3>2, EmittedFacts, FrameNumbers
    <3>4. Told(h, EndOf(history[i])) =>
            Told(h, EndOf(history[i]))' \/ line'.missing \/ repair'.due
      BY <1>1, <3>3 DEF ToldKept, Told, EndOf
    <3> QED
      BY <1>5, <3>1, <3>4 DEF ToldKept
  <2> QED
    BY <1>1, <2>1, <2>2 DEF CoverInv
<1>7. CutInv(t) => CutInv(t)'
  BY <1>1 DEF CutInv, Within, ToldKept
<1> QED
  BY <1>1, <1>2, <1>4, <1>6, <1>7 DEF CoverInv

LEMMA ByNotice ==
  ASSUME NEW t, NEW h, transcript' = t, line'.heard = h, TextInv(t, h)', NextInv(t, h)',
         CoverInv(t, h, FALSE)', CutInv(t)'
  PROVE  TranscriptInv'
<1>1. TextInv(transcript, line.heard)'
  BY DEF TextInv, TurnInv, OwnInv, RowInv, Owns
<1>2. NextInv(transcript, line.heard)'
  BY DEF NextInv
<1>3. CoverInv(transcript, line.heard, FALSE)'
  BY DEF CoverInv, Lost, Told
<1>4. CutInv(transcript)'
  BY DEF CutInv
<1> QED
  BY <1>1, <1>2, <1>3, <1>4 DEF TranscriptInv

\* Steps of the job and of requests that leave the transcript alone.
LEMMA Unnoticed ==
  ASSUME ChatInv, UNCHANGED <<hermesVars, onWay, line, transcript>>, RowsKept,
         repair.due => repair'.due
  PROVE  LineInv' /\ StoredInv' /\ TranscriptInv'
<1>1. PICK t : t = transcript
  OBVIOUS
<1>2. PICK h : h = line.heard
  OBVIOUS
<1>3. ChatTypes /\ StoredInv /\ t \in Transcripts /\ h \in Nat
  BY <1>1, <1>2 DEF ChatInv, ChatTypes, Lines
<1>4. Emitted' = Emitted /\ Sent' = Sent
  BY DEF Emitted, Sent, hermesVars
<1>5. LineInv'
  BY <1>4 DEF ChatInv, LineInv, hermesVars
<1>6. ToldKept(h)
  BY <1>4 DEF ToldKept, Told
<1>7. /\ TextInv(t, h) /\ NextInv(t, h) /\ CoverInv(t, h, FALSE) /\ CutInv(t)
  BY <1>1, <1>2 DEF ChatInv, TranscriptInv
<1>8. NextInv(t, h)'
  BY <1>4, <1>7 DEF NextInv, hermesVars
<1>9. transcript' = t /\ line'.heard = h
  BY <1>1, <1>2
<1>10. StoredInv' /\ TextInv(t, h)' /\ CoverInv(t, h, FALSE)' /\ CutInv(t)'
  BY <1>3, <1>6, <1>7, Settle
<1> QED
  BY <1>5, <1>8, <1>9, <1>10, ByNotice

-----------------------------------------------------------------------------
(* Steps of requests, and of the job up to a page                          *)

LEMMA LaterStays ==
  ASSUME ChatTypes, transcript' = transcript, line'.heard = line.heard,
         \A n \in Nat : n <= Emitted /\ Told(line.heard, n) => Told(line.heard, n)',
         NEW r, Over(r), Later(r)
  PROVE  Later(r)'
<1>1. r \in 1 .. born /\ r # speaking /\ born \in Nat
  BY EmittedFacts DEF Over
<1>2. EndOf(r) \in Nat /\ EndOf(r) <= Emitted
  BY <1>1, EmittedFacts, FrameNumbers
<1>3. Told(line.heard, EndOf(r))'
  BY <1>2 DEF Later, Told, EndOf
<1> QED
  BY <1>3 DEF Later, Owns

LEMMA FlightStays ==
  ASSUME ChatInv, history' = history, UNCHANGED <<transcript, reading>>,
         line'.heard = line.heard, \A r : Over(r) => Over(r)',
         \A n \in Nat : n <= Emitted /\ Told(line.heard, n) => Told(line.heard, n)'
  PROVE  FlightInv'
<1>1. ASSUME NEW i \in DOMAIN history, Later(history[i])
      PROVE  Later(history[i])'
  <2>1. PICK r : r = history[i]
    OBVIOUS
  <2>2. Over(r)
    BY <2>1 DEF ChatInv, StoredInv
  <2>3. Later(r)'
    BY <1>1, <2>1, <2>2, LaterStays DEF ChatInv
  <2> QED
    BY <2>1, <2>3
<1>2. ReadInv'
  BY DEF FlightInv, ReadInv, ChatInv
<1>3. RestInv' /\ SummaryInv' /\ TotalInv' /\ LengthInv'
  BY <1>1 DEF FlightInv, RestInv, SummaryInv, TotalInv, LengthInv, ChatInv
<1> QED
  BY <1>2, <1>3, Zenon DEF FlightInv

LEMMA FlightOutdated ==
  ASSUME ChatInv, Outdated, \A r : Over(r) => Over(r)'
  PROVE  FlightInv' /\ reading' \in Flights
<1>1. reading' \in Flights /\ reading'.same = FALSE /\ reading'.at = reading.at
      /\ reading'.answer = reading.answer /\ reading'.pages = reading.pages
      /\ reading'.offset = reading.offset /\ reading'.total = reading.total
  BY DEF Outdated, ChatInv, ChatTypes, Flights
<1>2. ReadInv'
  BY <1>1 DEF FlightInv, ReadInv, ChatInv
<1>3. RestInv' /\ SummaryInv' /\ TotalInv' /\ LengthInv'
  BY <1>1 DEF FlightInv, RestInv, SummaryInv, TotalInv, LengthInv, ChatInv
<1> QED
  BY <1>1, <1>2, <1>3, Zenon DEF FlightInv

LEMMA NoFlightInv ==
  ASSUME reading' = NoFlight
  PROVE  FlightInv' /\ reading' \in Flights
<1>1. /\ reading'.at = "off" /\ reading'.answer = <<>> /\ reading'.pages = <<>>
  BY DEF NoFlight
<1>2. reading' \in Flights
  BY DEF NoFlight, Flights
<1> QED
  BY <1>1, <1>2 DEF FlightInv, ReadInv, RestInv, SummaryInv, TotalInv, LengthInv

LEMMA ScheduledTypes ==
  ASSUME ChatTypes, NEW force \in BOOLEAN
  PROVE  Scheduled(repair, force) \in Jobs /\ Scheduled(repair, force).due
  BY DEF Scheduled, ChatTypes, Jobs

\* What is stored may count as current or not.
LEMMA StateTypes ==
  ASSUME ChatTypes, NEW s \in {"stale", "gap", "current"}
  PROVE  /\ [stored EXCEPT !.state = s] \in StoredRows
         /\ [stored EXCEPT !.state = s].rows = stored.rows
         /\ [stored EXCEPT !.state = s].total = stored.total
         /\ [stored EXCEPT !.state = s].complete = stored.complete
  BY DEF ChatTypes, StoredRows

LEMMA MetadataTypes ==
  ASSUME ChatTypes, NEW m \in BOOLEAN
  PROVE  /\ [stored EXCEPT !.metadata = m] \in StoredRows
         /\ [stored EXCEPT !.metadata = m].rows = stored.rows
         /\ [stored EXCEPT !.metadata = m].total = stored.total
         /\ [stored EXCEPT !.metadata = m].complete = stored.complete
  BY DEF ChatTypes, StoredRows

LEMMA RequestSteps ==
  ASSUME ChatInv, Retitle \/ Look \/ Refresh \/ Invalidate
  PROVE  ChatInv'
<1>1. ChatTypes /\ FlightInv
  BY DEF ChatInv
<1>2. CASE Retitle
  <2>1. RowsKept /\ stored' \in StoredRows
    BY <1>1, <1>2, StateTypes DEF Retitle, RowsKept
  <2>2. UNCHANGED <<hermesVars, onWay, line, transcript, repair, reading>>
    BY <1>2 DEF Retitle
  <2>3. ChatTypes'
    BY <1>1, <2>1, <2>2 DEF ChatTypes, hermesVars
  <2>4. FlightInv'
    BY <2>2, FlightStays DEF Told, Sent, Emitted, Over, hermesVars
  <2> QED
    BY <2>1, <2>2, <2>3, <2>4, Unnoticed DEF ChatInv
<1>3. CASE Look \/ Refresh
  <2>1. UNCHANGED <<hermesVars, onWay, line, transcript, stored, reading>>
    BY <1>3 DEF Look, Refresh
  <2>2. repair' \in Jobs /\ repair'.due
    BY <1>1, <1>3, ScheduledTypes DEF Look, Refresh
  <2>3. ChatTypes'
    BY <1>1, <2>1, <2>2 DEF ChatTypes, hermesVars
  <2>4. FlightInv'
    BY <2>1, FlightStays DEF Told, Sent, Emitted, Over, hermesVars
  <2>5. RowsKept
    BY <2>1 DEF RowsKept
  <2> QED
    BY <2>1, <2>2, <2>3, <2>4, <2>5, Unnoticed DEF ChatInv
<1>4. CASE Invalidate
  <2>1. UNCHANGED <<hermesVars, onWay, line, transcript>> /\ Outdated
    BY <1>4 DEF Invalidate
  <2>2. repair' \in Jobs /\ repair'.due
    BY <1>1, <1>4, ScheduledTypes DEF Invalidate
  <2>3. RowsKept /\ stored' \in StoredRows
    BY <1>1, <1>4, MetadataTypes DEF Invalidate, RowsKept
  <2>4. FlightInv' /\ reading' \in Flights
    BY <2>1, FlightOutdated DEF Over, hermesVars
  <2>5. ChatTypes'
    BY <1>1, <2>1, <2>2, <2>3, <2>4 DEF ChatTypes, hermesVars
  <2> QED
    BY <2>1, <2>2, <2>3, <2>4, <2>5, Unnoticed DEF ChatInv
<1> QED
  BY <1>2, <1>3, <1>4

LEMMA PageFacts ==
  ASSUME ChatTypes, NEW offset \in Nat
  PROVE  /\ PageAt(offset) \in Seq(Replies)
         /\ \A i \in DOMAIN PageAt(offset) : \E j \in DOMAIN history : PageAt(offset)[i] = history[j]
         /\ Len(PageAt(offset)) >= ChatPage \/ offset + Len(PageAt(offset)) >= Len(history)
         /\ offset + Len(PageAt(offset)) <= IF offset > Len(history) THEN offset ELSE Len(history)
<1> DEFINE end == Len(history) - offset
           from == IF end > ChatPage THEN end - ChatPage + 1 ELSE 1
<1>1. Len(history) \in Nat /\ history \in Seq(Replies) /\ ChatPage \in Nat /\ ChatPage >= 1
      /\ DOMAIN history = 1 .. Len(history)
  BY ChatConstants DEF ChatTypes
<1>2. CASE end <= 0
  <2>1. PageAt(offset) = <<>>
    BY <1>2 DEF PageAt
  <2> QED
    BY <1>1, <1>2, <2>1
<1>3. CASE end > 0
  <2>0. ~(Len(history) - offset <= 0)
    BY <1>1, <1>3
  <2>1. PageAt(offset) = SubSeq(history, from, end)
    BY <2>0, Zenon DEF PageAt
  <2>2. from \in 1 .. end /\ end \in 1 .. Len(history)
        /\ (end - from + 1 = ChatPage \/ (end - from + 1 = end /\ from = 1))
    BY <1>1, <1>3
  <2> HIDE DEF from, end
  <2>3. /\ SubSeq(history, from, end) \in Seq(Replies)
        /\ Len(SubSeq(history, from, end)) = end - from + 1
        /\ \A i \in 1 .. end - from + 1 : SubSeq(history, from, end)[i] = history[from + i - 1]
        /\ DOMAIN SubSeq(history, from, end) = 1 .. end - from + 1
    BY <1>1, <2>2
  <2>4. \A i \in 1 .. end - from + 1 : from + i - 1 \in DOMAIN history
    BY <1>1, <2>2
  <2>5. end = Len(history) - offset
    BY DEF end
  <2>6. \A i \in DOMAIN PageAt(offset) : \E j \in DOMAIN history : PageAt(offset)[i] = history[j]
    BY <2>1, <2>3, <2>4
  <2>7. Len(PageAt(offset)) >= ChatPage \/ offset + Len(PageAt(offset)) >= Len(history)
    BY <1>1, <2>1, <2>2, <2>3, <2>5
  <2>8. offset + Len(PageAt(offset)) <= IF offset > Len(history) THEN offset ELSE Len(history)
    BY <1>1, <2>1, <2>2, <2>3, <2>5
  <2> QED
    BY <2>1, <2>3, <2>6, <2>7, <2>8
<1> QED
  BY <1>1, <1>2, <1>3

LEMMA JobEnds ==
  ASSUME ChatTypes
  PROVE  /\ JobFails => repair' \in Jobs /\ (repair.due => repair'.due) /\ reading' = NoFlight
         /\ JobDone => repair' \in Jobs /\ reading' = NoFlight
<1>1. CASE JobFails
  <2>1. repair' = [repair EXCEPT !.force = repair.force \/ reading.force]
    BY <1>1 DEF JobFails, ChatTypes, Jobs
  <2>2. (repair.force \/ reading.force) \in BOOLEAN
    BY DEF ChatTypes, Jobs, Flights
  <2>3. repair' \in Jobs /\ repair'.due = repair.due
    BY <2>1, <2>2 DEF ChatTypes, Jobs
  <2> QED
    BY <1>1, <2>3 DEF JobFails, JobDone
<1>2. JobDone => repair' \in Jobs /\ reading' = NoFlight
  BY DEF JobDone, ChatTypes, Jobs
<1> QED
  BY <1>1, <1>2

\* The job has failed: it is still due.
LEMMA FailedSteps ==
  ASSUME ChatInv, JobFails, UNCHANGED <<stored, transcript, hermesVars, onWay, line>>
  PROVE  ChatInv'
<1>1. ChatTypes
  BY DEF ChatInv
<1>2. repair' \in Jobs /\ (repair.due => repair'.due) /\ reading' = NoFlight
  BY <1>1, JobEnds
<1>3. FlightInv' /\ reading' \in Flights
  BY <1>2, NoFlightInv
<1>4. ChatTypes'
  BY <1>1, <1>2, <1>3 DEF ChatTypes, hermesVars
<1> QED
  BY <1>2, <1>3, <1>4, Unnoticed DEF ChatInv, RowsKept

LEMMA StartFlightStep ==
  ASSUME ChatInv, StartFlight
  PROVE  ChatInv'
<1>1. ChatTypes
  BY DEF ChatInv
<1>2. UNCHANGED <<stored, transcript, hermesVars, onWay, line>> /\ ~transcript.running
  BY DEF StartFlight, OthersKept
<1>3. repair' \in Jobs /\ (repair.due => repair'.due)
  BY <1>1 DEF StartFlight, ChatTypes, Jobs
<1>4. KnownTotal \in Int
  BY <1>1 DEF KnownTotal, ChatTypes, StoredRows
<1>5. reading' \in Flights /\ reading'.at = "detail" /\ reading'.answer = <<>> /\ reading'.pages = <<>>
  <2>1. NoFlight \in Flights /\ NoFlight.answer = <<>> /\ NoFlight.pages = <<>>
    BY DEF NoFlight, Flights
  <2>2. reading' = [NoFlight EXCEPT !.at = "detail", !.known = KnownTotal,
                                    !.force = repair.force \/ transcript.withheld]
    BY DEF StartFlight
  <2>3. repair.force \/ transcript.withheld \in BOOLEAN
    BY <1>1 DEF ChatTypes, Jobs, Transcripts
  <2> QED
    BY <1>4, <2>1, <2>2, <2>3 DEF Flights
<1>6. FlightInv'
  BY <1>2, <1>5 DEF FlightInv, ReadInv, RestInv, SummaryInv, TotalInv, LengthInv
<1>7. ChatTypes'
  BY <1>1, <1>2, <1>3, <1>5 DEF ChatTypes, hermesVars
<1> QED
  BY <1>2, <1>3, <1>6, <1>7, Unnoticed DEF ChatInv, RowsKept

\* The history that is there now is not overtaken.
LEMMA AnswerSteps ==
  ASSUME ChatInv, AnswerDetail \/ AnswerPage
  PROVE  ChatInv'
<1>1. ChatTypes /\ FlightInv /\ StoredInv
  BY DEF ChatInv
<1>2. UNCHANGED <<stored, transcript, repair, hermesVars, onWay, line>>
  BY DEF AnswerDetail, AnswerPage, OthersKept
<1>3. Len(history) \in Nat /\ DOMAIN history = 1 .. Len(history) /\ history' = history
  BY <1>1, <1>2 DEF ChatTypes, hermesVars
<1>4. \A r : (Over(r)' <=> Over(r)) /\ (Later(r)' <=> Later(r))
  BY <1>2 DEF Over, Later, Told, Sent, Emitted, Owns, hermesVars
<1>5. ASSUME AnswerDetail
      PROVE  reading' \in Flights /\ FlightInv'
  <2>1. reading' = [reading EXCEPT !.at = "detailed", !.summary = Len(history)]
        /\ reading.at = "detail"
    BY <1>5 DEF AnswerDetail
  <2>2. /\ reading' \in Flights /\ reading'.at = "detailed" /\ reading'.summary = Len(history)
        /\ reading'.answer = reading.answer /\ reading'.pages = reading.pages
        /\ reading'.same = reading.same
    BY <1>1, <1>3, <2>1 DEF ChatTypes, Flights
  <2>3. ReadInv'
    BY <1>1, <1>4, <2>2 DEF FlightInv, ReadInv
  <2>4. RestInv'
    BY <1>1, <1>2, <2>1, <2>2 DEF FlightInv, RestInv
  <2>5. SummaryInv' /\ TotalInv' /\ LengthInv'
    BY <1>3, <2>2 DEF SummaryInv, TotalInv, LengthInv
  <2>6. FlightInv'
    BY <2>3, <2>4, <2>5, Zenon DEF FlightInv
  <2> QED
    BY <2>2, <2>6
<1>6. ASSUME AnswerPage
      PROVE  reading' \in Flights /\ FlightInv'
  <2>1. reading' = [reading EXCEPT !.at = "paged", !.answer = PageAt(reading.offset),
                                   !.total = Len(history)]
        /\ reading.at = "page"
    BY <1>6 DEF AnswerPage
  <2>2. reading.offset \in Nat
    BY <1>1 DEF ChatTypes, Flights
  <2>3. /\ PageAt(reading.offset) \in Seq(Replies)
        /\ \A i \in DOMAIN PageAt(reading.offset) :
             \E j \in DOMAIN history : PageAt(reading.offset)[i] = history[j]
        /\ Len(PageAt(reading.offset)) >= ChatPage
             \/ reading.offset + Len(PageAt(reading.offset)) >= Len(history)
    BY <1>1, <2>2, PageFacts
  <2>4. /\ reading' \in Flights /\ reading'.at = "paged" /\ reading'.total = Len(history)
        /\ reading'.answer = PageAt(reading.offset) /\ reading'.pages = reading.pages
        /\ reading'.same = reading.same /\ reading'.summary = reading.summary
        /\ reading'.offset = reading.offset
    BY <1>1, <1>3, <2>1, <2>3 DEF ChatTypes, Flights
  <2>5. \A i \in DOMAIN PageAt(reading.offset) : Over(PageAt(reading.offset)[i])
    BY <1>1, <2>3 DEF StoredInv
  <2>6. FlightInv'
    <3>1. ReadInv'
      BY <1>1, <1>2, <1>4, <2>4, <2>5 DEF FlightInv, ReadInv, Over, hermesVars
    <3>2. RestInv'
      BY <1>1, <1>2, <2>1, <2>4 DEF FlightInv, RestInv
    <3>3. SummaryInv'
      BY <1>1, <1>3, <1>4, <2>1, <2>4 DEF FlightInv, SummaryInv
    <3>4. TotalInv'
      BY <1>3, <2>4 DEF TotalInv
    <3>5. LengthInv'
      BY <2>3, <2>4 DEF LengthInv
    <3> QED
      BY <3>1, <3>2, <3>3, <3>4, <3>5, Zenon DEF FlightInv
  <2> QED
    BY <2>4, <2>6
<1>7. ChatTypes'
  BY <1>1, <1>2, <1>5, <1>6 DEF ChatTypes, hermesVars
<1> QED
  BY <1>2, <1>5, <1>6, <1>7, Unnoticed DEF ChatInv, RowsKept

LEMMA TakeDetailStep ==
  ASSUME ChatInv, TakeDetail
  PROVE  ChatInv'
<1>1. ChatTypes /\ FlightInv /\ StoredInv
  BY DEF ChatInv
<1>2. UNCHANGED <<transcript, hermesVars, onWay, line>> /\ reading.at = "detailed"
  BY DEF TakeDetail, OthersKept
<1>3. CASE ~MetadataOnly
  <2>1. reading' = [reading EXCEPT !.at = "page"] /\ UNCHANGED <<stored, repair>>
    BY <1>3 DEF TakeDetail
  <2>2. /\ reading' \in Flights /\ reading'.at = "page" /\ reading'.summary = reading.summary
        /\ reading'.answer = reading.answer /\ reading'.pages = reading.pages
        /\ reading'.same = reading.same
    BY <1>1, <2>1 DEF ChatTypes, Flights
  <2>3. \A r : (Over(r)' <=> Over(r)) /\ (Later(r)' <=> Later(r))
    BY <1>2 DEF Over, Later, Told, Sent, Emitted, Owns, hermesVars
  <2>4. history' = history
    BY <1>2 DEF hermesVars
  <2>5. FlightInv'
    BY <1>1, <1>2, <2>2, <2>3, <2>4 DEF FlightInv, ReadInv, RestInv, SummaryInv, TotalInv, LengthInv
  <2>6. ChatTypes'
    BY <1>1, <1>2, <2>1, <2>2 DEF ChatTypes, hermesVars
  <2> QED
    BY <1>2, <2>1, <2>5, <2>6, Unnoticed DEF ChatInv, RowsKept
<1>4. CASE MetadataOnly
  <2>1. stored' = [stored EXCEPT !.metadata = TRUE] /\ JobDone
    BY <1>4 DEF TakeDetail
  <2>2. RowsKept /\ stored' \in StoredRows
    BY <1>1, <2>1, MetadataTypes DEF RowsKept
  <2>3. repair' \in Jobs /\ reading' = NoFlight
    BY <1>1, <2>1, JobEnds
  <2>4. FlightInv' /\ reading' \in Flights
    BY <2>3, NoFlightInv
  <2>5. ChatTypes'
    BY <1>1, <1>2, <2>2, <2>3, <2>4 DEF ChatTypes, hermesVars
  <2>6. \A i \in DOMAIN history : i > stored.total => Later(history[i])
    BY <1>1, <1>2, <1>4 DEF FlightInv, SummaryInv, MetadataOnly
  <2>7. PICK t : t = transcript
    OBVIOUS
  <2>8. PICK h : h = line.heard
    OBVIOUS
  <2>9. Emitted' = Emitted /\ Sent' = Sent /\ transcript' = t /\ line'.heard = h
    BY <1>2, <2>7, <2>8 DEF Emitted, Sent, hermesVars
  <2>10. LineInv'
    BY <1>2, <2>9 DEF ChatInv, LineInv, hermesVars
  <2>11. \A r : Passed(r)' <=> Passed(r)
    BY <1>2, <2>2 DEF Passed, Over, Had, Within, hermesVars, RowsKept
  <2>12. StoredInv'
    BY <1>1, <1>2, <2>2 DEF StoredInv, Over, Had, hermesVars, RowsKept
  <2>13. TextInv(t, h)'
    <3>1. TextInv(t, h)
      BY <2>7, <2>8 DEF ChatInv, TranscriptInv
    <3>2. Had' = Had /\ stored'.complete = stored.complete
      BY <2>2 DEF Had, RowsKept
    <3> QED
      BY <1>2, <2>11, <3>1, <3>2 DEF TextInv, TurnInv, OwnInv, RowInv, Owns, hermesVars
  <2>14. NextInv(t, h)'
    BY <1>2, <2>7, <2>8, <2>9 DEF ChatInv, TranscriptInv, NextInv, hermesVars
  <2>15. CoverInv(t, h, FALSE)'
    <3>1. stored.complete => \A r \in Had : r \in t.whole \/ t.dated \/ Lost(t)
      BY <2>7, <2>8 DEF ChatInv, TranscriptInv, CoverInv
    <3>2. Lost(t) => Lost(t)'
      BY <2>11 DEF Lost
    <3>3. Had' = Had /\ stored'.complete = stored.complete /\ stored'.total = stored.total
      BY <2>2 DEF Had, RowsKept
    <3>4. \A i \in DOMAIN history : i > stored.total => Told(h, EndOf(history[i]))'
      BY <1>2, <2>6, <2>8, <2>9 DEF Later, Told, EndOf, hermesVars
    <3>5. \A r \in Had' : stored'.complete => r \in t.whole \/ t.dated \/ Lost(t)'
      BY <3>1, <3>2, <3>3
    <3>6. history' = history
      BY <1>2 DEF hermesVars
    <3> QED
      BY <3>3, <3>4, <3>5, <3>6 DEF CoverInv
  <2>16. CutInv(t)'
    <3>1. history' = history /\ stored'.total = stored.total
      BY <1>2, <2>2 DEF hermesVars, RowsKept
    <3>2. \A c \in t.cut : t.dated \/ Within(c)
      <4>1. stored.total \in Int /\ \A i \in DOMAIN history : i \in Int
        BY <1>1 DEF ChatTypes, StoredRows
      <4> QED
        BY <2>6, <2>7, <4>1 DEF Later, Within
    <3>3. \A c \in t.cut : t.dated \/ Within(c)'
      BY <3>1, <3>2 DEF Within
    <3> QED
      BY <3>3 DEF CutInv
  <2> QED
    BY <2>4, <2>5, <2>9, <2>10, <2>12, <2>13, <2>14, <2>15, <2>16, ByNotice DEF ChatInv
<1> QED
  BY <1>3, <1>4

-----------------------------------------------------------------------------
(* A page is taken                                                         *)

LEMMA LastOf ==
  ASSUME NEW n \in Nat, NEW S \in SUBSET (1 .. n), S # {}
  PROVE  \E i \in S : \A j \in S : j <= i
<1> DEFINE T == {d \in Nat : \A R \in SUBSET (1 .. d) :
                               R # {} => \E i \in R : \A j \in R : j <= i}
<1>1. 0 \in T
  <2>1. \A R \in SUBSET (1 .. 0) : R = {}
    <3>1. \A i \in 1 .. 0 : FALSE
      OBVIOUS
    <3> QED
      BY <3>1
  <2> QED
    BY <2>1
<1>2. ASSUME NEW d \in Nat, d \in T
      PROVE  d + 1 \in T
  <2> SUFFICES ASSUME NEW R \in SUBSET (1 .. d + 1), R # {}
               PROVE  \E i \in R : \A j \in R : j <= i
    OBVIOUS
  <2>1. CASE d + 1 \in R
    BY <2>1
  <2>2. CASE d + 1 \notin R
    <3>1. R \in SUBSET (1 .. d)
      BY <2>2
    <3> QED
      BY <1>2, <3>1
  <2> QED
    BY <2>1, <2>2
<1> HIDE DEF T
<1>3. Nat \subseteq T
  BY <1>1, <1>2, Counted
<1> QED
  BY <1>3 DEF T

LEMMA PlaceType ==
  ASSUME NEW p \in Pages, NEW r, r \in ToSet(p.messages), NEW total \in Int
  PROVE  PlaceIn(p, r, total) \in Int
<1>1. \E i \in DOMAIN p.messages : p.messages[i] = r
  BY DEF ToSet
<1> DEFINE k == CHOOSE i \in DOMAIN p.messages : p.messages[i] = r
<1>2. k \in DOMAIN p.messages
  BY <1>1
<1> HIDE DEF k
<1>3. p.messages \in Seq(Replies) /\ p.offset \in Nat
  BY DEF Pages
<1>4. k \in Int /\ Len(p.messages) \in Int
  BY <1>2, <1>3
<1>5. PlaceIn(p, r, total) = total - p.offset - Len(p.messages) + k - 1
  BY <1>2 DEF PlaceIn, Positions, k
<1> QED
  BY <1>3, <1>4, <1>5

\* The rows after an import: of replies that Hermes has ended.
LEMMA NewRowsFacts ==
  ASSUME ChatTypes, StoredInv, NEW pages \in Seq(Pages), NEW total \in Int,
         \A i \in DOMAIN pages : \A j \in DOMAIN pages[i].messages : Over(pages[i].messages[j])
  PROVE  /\ NewRows(pages, total) \in Places
         /\ \A r \in DOMAIN NewRows(pages, total) : Over(r)
<1> DEFINE old == IF reading.force THEN <<>> ELSE Cleared(stored.rows, pages, total)
           Holding(r) == {i \in DOMAIN pages : r \in ToSet(pages[i].messages)}
           read == {r \in Replies : Holding(r) # {}}
           Latest(r) == CHOOSE i \in Holding(r) : \A j \in Holding(r) : j <= i
           rows == [r \in DOMAIN old \cup read |->
                     IF r \in read THEN PlaceIn(pages[Latest(r)], r, total) ELSE old[r]]
<1>1. NewRows(pages, total) = rows
  BY DEF NewRows
<1>2. DOMAIN old \subseteq Had /\ \A r \in DOMAIN old : old[r] \in Int
  <2>1. stored.rows \in Places
    BY DEF ChatTypes, StoredRows
  <2>2. Had \subseteq Replies /\ \A r \in Had : stored.rows[r] \in Int
    BY <2>1 DEF Places, Had
  <2>3. CASE reading.force
    <3>1. old = <<>>
      BY <2>3
    <3> HIDE DEF old
    <3> QED
      BY <3>1
  <2>4. CASE ~reading.force
    <3>1. PICK gone : old = Restrict(stored.rows, Had \ gone)
      BY <2>4 DEF Cleared, Had
    <3>2. old = [x \in Had \ gone |-> stored.rows[x]]
      BY <3>1 DEF Restrict
    <3> HIDE DEF old
    <3> QED
      BY <2>2, <3>2
  <2> QED
    BY <2>3, <2>4
<1> HIDE DEF old
<1>3. \A r \in Had : r \in Replies /\ Over(r)
  <2>1. stored.rows \in Places
    BY DEF ChatTypes, StoredRows
  <2> QED
    BY <2>1 DEF Places, Had, StoredInv
<1>4. ASSUME NEW r \in read
      PROVE  Over(r) /\ PlaceIn(pages[Latest(r)], r, total) \in Int
  <2>1. Holding(r) # {} /\ Holding(r) \in SUBSET (1 .. Len(pages)) /\ Len(pages) \in Nat
    OBVIOUS
  <2>2. \E i \in Holding(r) : \A j \in Holding(r) : j <= i
    <3> HIDE DEF Holding
    <3> QED
      BY <2>1, LastOf
  <2>3. Latest(r) \in Holding(r)
    <3> HIDE DEF Holding
    <3> QED
      BY <2>2
  <2> DEFINE k == Latest(r)
  <2> HIDE DEF Latest
  <2>4. k \in DOMAIN pages /\ r \in ToSet(pages[k].messages) /\ pages[k] \in Pages
    BY <2>3
  <2>5. PICK j \in DOMAIN pages[k].messages : pages[k].messages[j] = r
    BY <2>4 DEF ToSet
  <2> HIDE DEF k
  <2>6. Over(r)
    BY <2>4, <2>5
  <2>7. PlaceIn(pages[k], r, total) \in Int
    BY <2>4, PlaceType
  <2> QED
    BY <2>6, <2>7 DEF k
<1>5. read \subseteq Replies
  OBVIOUS
<1> HIDE DEF read, Latest
<1>6. DOMAIN rows = DOMAIN old \cup read /\ DOMAIN rows \subseteq Replies
  BY <1>2, <1>3, <1>5
<1>7. rows \in [DOMAIN rows -> Int]
  BY <1>2, <1>4, <1>6
<1>8. \A r \in DOMAIN rows : Over(r)
  BY <1>2, <1>3, <1>4, <1>6
<1> HIDE DEF rows
<1>9. rows \in Places
  BY <1>6, <1>7 DEF Places
<1> QED
  BY <1>1, <1>8, <1>9

LEMMA ImportedFields ==
  ASSUME NEW t \in Transcripts, NEW W \in SUBSET Replies, NEW u, u = Imported(t, W)
  PROVE  /\ u \in Transcripts /\ u.whole = W /\ u.twice = {} /\ u.cut = {} /\ ~u.dated
         /\ u.head = t.head /\ u.running = t.running /\ u.of \in {0, t.of}
<1> DEFINE of == IF t.of \in W THEN t.of ELSE 0
<1>1. of \in 0 .. ChatReplies /\ of \in {0, t.of}
  BY ChatConstants DEF Transcripts
<1>2. u = [t EXCEPT !.whole = W, !.twice = {}, !.cut = {}, !.of = of, !.dated = FALSE,
                    !.asked = {}, !.withheld = FALSE]
  BY DEF Imported
<1> HIDE DEF of
<1> QED
  BY <1>1, <1>2 DEF Transcripts

\* What is read is stored, and withheld from the transcript.
LEMMA WithheldStep ==
  ASSUME ChatInv, UpToDate, UNCHANGED <<hermesVars, onWay, line>>,
         NEW rows \in Places, \A r \in DOMAIN rows : Over(r), NEW total \in Int,
         stored' = [rows |-> rows, total |-> total, complete |-> Covers(rows, total),
                    metadata |-> TRUE, state |-> "current"],
         transcript' = Withheld(transcript), JobFails
  PROVE  ChatInv'
<1>1. ChatTypes /\ FlightInv /\ StoredInv
  BY DEF ChatInv
<1>2. PICK t : t = transcript
  OBVIOUS
<1>3. PICK h : h = line.heard
  OBVIOUS
<1>4. PICK W : W = DOMAIN rows
  OBVIOUS
<1>5. PICK u : u = Withheld(t)
  OBVIOUS
<1>6. W \in SUBSET Replies /\ \A r \in W : Over(r)
  BY <1>4 DEF Places
<1>7. t \in Transcripts /\ h \in Nat /\ born \in Nat /\ speaking \in {0, born} /\ speaking \in Nat
  BY <1>1, <1>2, <1>3, EmittedFacts DEF ChatTypes, Lines
<1>8. /\ u \in Transcripts /\ u.whole = t.whole /\ u.twice = t.twice /\ u.cut = t.cut /\ u.dated
      /\ u.head = t.head /\ u.running = t.running /\ u.of = t.of
  BY <1>5, <1>7 DEF Withheld, Transcripts
<1>9. TurnInv(t, h) /\ OwnInv(t, h) /\ RowInv(t, h) /\ NextInv(t, h)
  BY <1>2, <1>3 DEF ChatInv, TranscriptInv, TextInv
<1>10. ~t.running /\ t.head = "ended"
  BY <1>2, <1>9 DEF UpToDate, TurnInv
<1>11. /\ Had' = W /\ stored'.total = total /\ stored'.complete = Covers(rows, total)
       /\ stored'.rows = rows
  BY <1>4 DEF Had
<1>12. stored' \in StoredRows
  BY DEF StoredRows, Covers
<1>13. /\ Emitted' = Emitted /\ Sent' = Sent /\ history' = history /\ born' = born
       /\ speaking' = speaking /\ transcript' = u /\ line'.heard = h /\ line' = line
  BY <1>2, <1>3, <1>5 DEF Emitted, Sent, hermesVars
<1>14. \A r : Over(r)' <=> Over(r)
  BY <1>13 DEF Over
<1>15. repair' \in Jobs /\ reading' = NoFlight
  BY <1>1 DEF JobFails, ChatTypes, Jobs, Flights
<1>16. FlightInv' /\ reading' \in Flights
  BY <1>15, NoFlightInv
<1>17. ChatTypes'
  BY <1>1, <1>8, <1>12, <1>13, <1>15, <1>16 DEF ChatTypes, hermesVars
<1>18. LineInv'
  BY <1>13 DEF ChatInv, LineInv
<1>19. StoredInv'
  BY <1>1, <1>6, <1>11, <1>13, <1>14 DEF StoredInv
<1>20. TextInv(u, h)'
  <2>1. TurnInv(u, h)'
    BY <1>7, <1>8, <1>9, <1>10, <1>13 DEF TurnInv
  <2>2. OwnInv(u, h)'
    BY <1>8, <1>9, <1>13 DEF OwnInv, Owns
  <2>3. RowInv(u, h)'
    BY <1>8, <1>9, <1>13 DEF RowInv
  <2> QED
    BY <2>1, <2>2, <2>3 DEF TextInv
<1>21. NextInv(u, h)'
  BY <1>8, <1>9, <1>13 DEF NextInv
<1>22. CoverInv(u, h, FALSE)' /\ CutInv(u)'
  BY <1>8 DEF CoverInv, CutInv
<1> QED
  BY <1>13, <1>16, <1>17, <1>18, <1>19, <1>20, <1>21, <1>22, ByNotice DEF ChatInv

\* What is read is applied: nothing has overtaken it.
LEMMA AppliedStep ==
  ASSUME ChatInv, reading.at = "paged", UpToDate, UNCHANGED <<hermesVars, onWay, line>>,
         NEW rows \in Places, \A r \in DOMAIN rows : Over(r), NEW total \in Int,
         total >= reading.total \/ total >= reading.summary,
         stored' = [rows |-> rows, total |-> total, complete |-> Covers(rows, total),
                    metadata |-> TRUE, state |-> "current"],
         transcript' = Imported(transcript, DOMAIN rows), JobDone
  PROVE  ChatInv'
<1>1. ChatTypes /\ FlightInv /\ StoredInv
  BY DEF ChatInv
<1>2. PICK t : t = transcript
  OBVIOUS
<1>3. PICK h : h = line.heard
  OBVIOUS
<1>4. PICK W : W = DOMAIN rows
  OBVIOUS
<1>5. PICK u : u = Imported(t, W)
  OBVIOUS
<1>6. W \in SUBSET Replies /\ \A r \in W : Over(r)
  BY <1>4 DEF Places
<1>7. t \in Transcripts /\ h \in Nat /\ born \in Nat /\ speaking \in {0, born} /\ speaking \in Nat
  BY <1>1, <1>2, <1>3, EmittedFacts DEF ChatTypes, Lines
<1>8. /\ u \in Transcripts /\ u.whole = W /\ u.twice = {} /\ u.cut = {} /\ ~u.dated
      /\ u.head = t.head /\ u.running = t.running /\ u.of \in {0, t.of}
  BY <1>5, <1>6, <1>7, ImportedFields
<1>9. TurnInv(t, h) /\ OwnInv(t, h) /\ RowInv(t, h) /\ NextInv(t, h)
  BY <1>2, <1>3 DEF ChatInv, TranscriptInv, TextInv
<1>10. ~t.running /\ t.head = "ended"
  BY <1>2, <1>9 DEF UpToDate, TurnInv
<1>11. /\ Had' = W /\ stored'.total = total /\ stored'.complete = Covers(rows, total)
       /\ stored'.rows = rows
  BY <1>4 DEF Had
<1>12. Covers(rows, total) \in BOOLEAN
  BY DEF Covers
<1>13. stored' \in StoredRows
  BY <1>12 DEF StoredRows
<1>14. /\ Emitted' = Emitted /\ Sent' = Sent /\ history' = history /\ born' = born
       /\ speaking' = speaking /\ transcript' = u /\ line'.heard = h /\ line' = line
  BY <1>2, <1>3, <1>4, <1>5 DEF Emitted, Sent, hermesVars
<1>15. \A r : Over(r)' <=> Over(r)
  BY <1>14 DEF Over
<1>16. ASSUME NEW i \in DOMAIN history, ~(i <= total)
       PROVE  Later(history[i])
  <2>1. i \in Nat /\ reading.total \in Nat /\ reading.summary \in Nat
    BY <1>1 DEF ChatTypes, Flights
  <2>2. i > reading.total \/ i > reading.summary
    BY <1>16, <2>1
  <2> QED
    BY <1>1, <2>2 DEF FlightInv, SummaryInv, TotalInv, UpToDate
<1>17. repair' \in Jobs /\ reading' = NoFlight
  BY <1>1, JobEnds
<1>18. FlightInv' /\ reading' \in Flights
  BY <1>17, NoFlightInv
<1>19. ChatTypes'
  BY <1>1, <1>8, <1>13, <1>14, <1>17, <1>18 DEF ChatTypes, hermesVars
<1>20. LineInv'
  BY <1>14 DEF ChatInv, LineInv
<1>21. StoredInv'
  BY <1>1, <1>6, <1>11, <1>14, <1>15 DEF StoredInv
<1>22. TurnInv(u, h)'
  BY <1>7, <1>8, <1>9, <1>10, <1>14 DEF TurnInv
<1>23. OwnInv(u, h)'
  <2>1. ASSUME NEW r \in 1 .. born, h = StartOf(r)
        PROVE  /\ Owns(u, r) \/ r # speaking
               /\ Owns(u, r) \/ r \in W \/ Passed(r)'
    <3>1. Owns(t, r) => Owns(u, r)
      BY <1>8 DEF Owns
    <3>2. Owns(t, r) \/ r # speaking
      BY <1>9, <1>10, <2>1 DEF OwnInv
    <3>3. ASSUME ~Owns(u, r), r \notin W
          PROVE  Passed(r)'
      <4>1. Over(r)'
        BY <1>15, <3>1, <3>2, <3>3 DEF Over
      <4>2. EndOf(r) = h + 1
        BY <1>7, <2>1, FrameNumbers
      <4>3. ~Later(r)
        BY <1>2, <1>3, <3>1, <3>3, <4>2 DEF Later
      <4>4. \A i \in DOMAIN history : history[i] = r => i <= total
        BY <1>16, <4>3
      <4>5. Within(r)'
        BY <1>11, <1>14, <4>4 DEF Within
      <4> QED
        BY <1>11, <3>3, <4>1, <4>5 DEF Passed
    <3> QED
      BY <3>1, <3>2, <3>3
  <2>2. \A r \in 1 .. born : h = StartOf(r) =>
          /\ Owns(u, r) \/ r # speaking
          /\ Owns(u, r) \/ r \in W \/ Passed(r)'
    BY <2>1
  <2>3. \A r : Owns(u, r)' <=> Owns(u, r)
    BY DEF Owns
  <2> QED
    BY <1>11, <1>14, <2>2, <2>3 DEF OwnInv
<1>24. RowInv(u, h)'
  BY <1>6, <1>8, <1>11, <1>14 DEF RowInv, Over
<1>25. TextInv(u, h)'
  BY <1>22, <1>23, <1>24 DEF TextInv
<1>26. NextInv(u, h)'
  BY <1>8, <1>9, <1>10, <1>14 DEF NextInv
<1>27. CoverInv(u, h, FALSE)'
  <2>1. \A i \in DOMAIN history : i > total => Told(h, EndOf(history[i]))'
    <3> SUFFICES ASSUME NEW i \in DOMAIN history, i > total
                 PROVE  Told(h, EndOf(history[i]))'
      OBVIOUS
    <3>1. i \in Int
      BY <1>1 DEF ChatTypes
    <3>2. Told(h, EndOf(history[i]))
      BY <1>3, <1>16, <3>1 DEF Later
    <3> QED
      BY <1>14, <3>2 DEF Told, EndOf
  <2>2. \A r \in W : r \in u.whole
    BY <1>8
  <2> QED
    BY <1>11, <1>14, <2>1, <2>2 DEF CoverInv
<1>28. CutInv(u)'
  BY <1>8 DEF CutInv
<1> QED
  BY <1>14, <1>18, <1>19, <1>20, <1>21, <1>25, <1>26, <1>27, <1>28, ByNotice DEF ChatInv

LEMMA TakePageStep ==
  ASSUME ChatInv, TakePage
  PROVE  ChatInv'
<1> DEFINE pages == Append(reading.pages, PageNow)
           read == reading.offset + Len(reading.answer)
           total == IF Overlap THEN Total ELSE read
<1>1. ChatTypes /\ FlightInv /\ StoredInv
  BY DEF ChatInv
<1>2. reading.at = "paged" /\ UNCHANGED <<hermesVars, onWay, line>>
  BY DEF TakePage, OthersKept
<1>3. /\ reading.offset \in Nat /\ reading.answer \in Seq(Replies) /\ reading.pages \in Seq(Pages)
      /\ reading.total \in Nat /\ reading.summary \in Nat /\ Len(reading.answer) \in Nat
  BY <1>1 DEF ChatTypes, Flights
<1>4. PageNow \in Pages /\ PageNow.messages = reading.answer
  BY <1>3 DEF PageNow, Pages
<1>5. pages \in Seq(Pages)
  BY <1>3, <1>4
<1>6. \A i \in DOMAIN pages : \A j \in DOMAIN pages[i].messages : Over(pages[i].messages[j])
  <2> SUFFICES ASSUME NEW i \in DOMAIN pages
               PROVE  \A j \in DOMAIN pages[i].messages : Over(pages[i].messages[j])
    OBVIOUS
  <2>1. CASE i \in DOMAIN reading.pages
    <3>1. pages[i] = reading.pages[i]
      BY <1>3, <1>4, <2>1
    <3> QED
      BY <1>1, <2>1, <3>1 DEF FlightInv, ReadInv
  <2>2. CASE i \notin DOMAIN reading.pages
    <3>1. pages[i] = PageNow
      BY <1>3, <1>4, <2>2
    <3> QED
      BY <1>1, <1>4, <3>1 DEF FlightInv, ReadInv
  <2> QED
    BY <2>1, <2>2
<1>7. Total \in Nat /\ Total >= read /\ (Totals => Total >= reading.total)
      /\ (~Totals => Total >= reading.summary)
  BY <1>3 DEF Total
<1>8. \/ JobFails /\ UNCHANGED <<stored, transcript>>
      \/ LastPage /\ ApplySync(pages, total)
      \/ /\ reading' = [reading EXCEPT !.at = "page", !.pages = pages, !.answer = <<>>, !.total = 0,
                                       !.offset = @ + Len(reading.answer), !.declared = {Total}]
         /\ UNCHANGED <<stored, transcript, repair>>
  BY DEF TakePage
<1> HIDE DEF pages
<1>9. CASE JobFails /\ UNCHANGED <<stored, transcript>>
  BY <1>2, <1>9, FailedSteps
<1>10. CASE LastPage /\ ApplySync(pages, total)
  <2> DEFINE rows == NewRows(pages, total)
  <2>1. total \in Int
    BY <1>3, <1>7
  <2>2. total >= reading.total \/ total >= reading.summary
    <3>1. CASE Overlap
      BY <1>7, <3>1
    <3>2. CASE ~Overlap
      <4>1. ~HasMore
        BY <1>10, <3>2 DEF LastPage
      <4>2. ChatPage \in Nat
        BY ChatConstants
      <4>3. read >= reading.total
        BY <1>1, <1>2, <1>3, <4>1, <4>2 DEF HasMore, FlightInv, LengthInv
      <4> QED
        BY <3>2, <4>3
    <3> QED
      BY <3>1, <3>2
  <2> HIDE DEF total
  <2>3. rows \in Places /\ \A r \in DOMAIN rows : Over(r)
    BY <1>1, <1>5, <1>6, <2>1, NewRowsFacts
  <2>4. CASE UpToDate
    <3>1. /\ stored' = [rows |-> rows, total |-> total, complete |-> Covers(rows, total),
                        metadata |-> TRUE, state |-> "current"]
          /\ \/ transcript' = Imported(transcript, DOMAIN rows) /\ JobDone
             \/ transcript' = Withheld(transcript) /\ JobFails
      BY <1>10, <2>4 DEF ApplySync
    <3> HIDE DEF rows
    <3>2. CASE transcript' = Imported(transcript, DOMAIN rows) /\ JobDone
      BY <1>2, <2>1, <2>2, <2>3, <2>4, <3>1, <3>2, AppliedStep
    <3>3. CASE transcript' = Withheld(transcript) /\ JobFails
      BY <1>2, <2>1, <2>3, <2>4, <3>1, <3>3, WithheldStep
    <3> QED
      BY <3>1, <3>2, <3>3
  <2>5. CASE ~UpToDate
    <3>1. JobFails /\ UNCHANGED <<stored, transcript>>
      BY <1>10, <2>5 DEF ApplySync
    <3> QED
      BY <1>2, <3>1, FailedSteps
  <2> QED
    BY <2>4, <2>5
<1>11. ASSUME
         /\ reading' = [reading EXCEPT !.at = "page", !.pages = pages, !.answer = <<>>, !.total = 0,
                                       !.offset = @ + Len(reading.answer), !.declared = {Total}]
         /\ UNCHANGED <<stored, transcript, repair>>
       PROVE ChatInv'
  <2>1. /\ reading' \in Flights /\ reading'.at = "page" /\ reading'.summary = reading.summary
        /\ reading'.answer = <<>> /\ reading'.pages = pages /\ reading'.same = reading.same
    <3>1. reading' = [reading EXCEPT !.at = "page", !.pages = pages, !.answer = <<>>, !.total = 0,
                                     !.offset = read, !.declared = {Total}]
      BY <1>1, <1>11 DEF ChatTypes, Flights
    <3>2. read \in Nat /\ {Total} \in SUBSET Nat /\ <<>> \in Seq(Replies)
      BY <1>3, <1>7
    <3> HIDE DEF read
    <3> QED
      BY <1>1, <1>5, <3>1, <3>2 DEF ChatTypes, Flights
  <2>2. \A r : (Over(r)' <=> Over(r)) /\ (Later(r)' <=> Later(r))
    BY <1>2, <1>11 DEF Over, Later, Told, Sent, Emitted, Owns, hermesVars
  <2>3. history' = history
    BY <1>2 DEF hermesVars
  <2>4. FlightInv'
    <3>1. ReadInv'
      BY <1>6, <2>1, <2>2 DEF ReadInv
    <3>2. RestInv'
      BY <1>1, <1>2, <1>11, <2>1 DEF FlightInv, RestInv
    <3>3. SummaryInv'
      BY <1>1, <1>2, <2>1, <2>2, <2>3 DEF FlightInv, SummaryInv
    <3>4. TotalInv' /\ LengthInv'
      BY <2>1 DEF TotalInv, LengthInv
    <3> QED
      BY <3>1, <3>2, <3>3, <3>4, Zenon DEF FlightInv
  <2>5. ChatTypes'
    BY <1>1, <1>2, <1>11, <2>1 DEF ChatTypes, hermesVars
  <2> QED
    BY <1>2, <1>11, <2>4, <2>5, Unnoticed DEF ChatInv, RowsKept
<1> QED
  BY <1>8, <1>9, <1>10, <1>11

-----------------------------------------------------------------------------
(* A frame is taken, the connection is lost and opened again               *)

LEMMA NotedFacts ==
  ASSUME ChatTypes, Noted \/ GatewayReset
  PROVE  RowsKept /\ stored' \in StoredRows /\ Outdated
<1>1. PICK s \in {"stale", "gap", "current"} : stored' = [stored EXCEPT !.state = s]
  <2>1. AfterEvent(stored.state) \in {"stale", "gap", "current"}
    BY DEF AfterEvent, ChatTypes, StoredRows
  <2> QED
    BY <2>1 DEF Noted, GatewayReset
<1>2. RowsKept /\ stored' \in StoredRows
  BY <1>1, StateTypes DEF RowsKept
<1> QED
  BY <1>2 DEF Noted, GatewayReset

LEMMA JobScheduled ==
  ASSUME ChatTypes, NEW c \in BOOLEAN
  PROVE  /\ ScheduledIf(c) \in Jobs /\ (repair.due => ScheduledIf(c).due)
         /\ c => ScheduledIf(c).due
<1>1. Scheduled(repair, FALSE) \in Jobs /\ Scheduled(repair, FALSE).due
  BY ScheduledTypes
<1>2. repair \in Jobs
  BY DEF ChatTypes
<1> QED
  BY <1>1, <1>2 DEF ScheduledIf

LEMMA SubmittedFacts ==
  ASSUME ChatTypes, NEW t \in Transcripts, NEW h, TextInv(t, h), CoverInv(t, h, FALSE), CutInv(t),
         NEW u, u = Submitted(t)
  PROVE  /\ u \in Transcripts /\ TextInv(u, h) /\ CoverInv(u, h, FALSE) /\ CutInv(u)
         /\ u.head # "ended"
<1>1. TurnInv(t, h) /\ OwnInv(t, h) /\ RowInv(t, h) /\ born \in Nat
  BY EmittedFacts DEF TextInv
<1>2. CASE t.running
  <2>1. u = t
    BY <1>2 DEF Submitted
  <2> QED
    BY <1>1, <1>2, <2>1 DEF TurnInv
<1>3. CASE ~t.running
  <2>1. u = [t EXCEPT !.head = "await", !.of = 0, !.running = TRUE]
    BY <1>3 DEF Submitted
  <2>2. 0 \in 0 .. ChatReplies
    BY ChatConstants
  <2>3. /\ u \in Transcripts /\ u.head = "await" /\ u.of = 0 /\ u.running
        /\ u.whole = t.whole /\ u.twice = t.twice /\ u.cut = t.cut /\ u.dated = t.dated
    BY <2>1, <2>2 DEF Transcripts
  <2>4. TurnInv(u, h) /\ OwnInv(u, h)
    BY <1>1, <2>3 DEF TurnInv, OwnInv, Owns
  <2>5. RowInv(u, h)
    BY <1>1, <2>3 DEF RowInv
  <2>6. CoverInv(u, h, FALSE)
    BY <2>3 DEF CoverInv, Lost
  <2>7. CutInv(u)
    BY <2>3 DEF CutInv
  <2> QED
    BY <2>3, <2>4, <2>5, <2>6, <2>7 DEF TextInv
<1> QED
  BY <1>2, <1>3

\* What the steps of the broker have in common: t and h are the transcript and the frames
\* heard after them.
LEMMA LineSteps ==
  ASSUME ChatTypes, StoredInv, UNCHANGED hermesVars, RowsKept, NEW t \in Transcripts, NEW h \in Nat,
         ToldKept(h), transcript' = t, line'.heard = h,
         TextInv(t, h), CoverInv(t, h, FALSE), CutInv(t) \/ repair'.due, NextInv(t, h)'
  PROVE  StoredInv' /\ TranscriptInv'
<1>1. StoredInv' /\ TextInv(t, h)' /\ CoverInv(t, h, FALSE)' /\ (CutInv(t) => CutInv(t)')
  BY Settle
<1>2. CutInv(t)'
  BY <1>1 DEF CutInv
<1> QED
  BY <1>1, <1>2, ByNotice

LEMMA TakeFrameStep ==
  ASSUME ChatInv, TakeFrame
  PROVE  ChatInv'
<1>1. ChatTypes /\ LineInv /\ StoredInv
  BY DEF ChatInv
<1>0. PICK n : n = Head(onWay)
  OBVIOUS
<1> DEFINE gap == line.heard > 0 /\ n > line.heard + 1
<1>2. /\ line.at = "open" /\ onWay # <<>> /\ onWay' = Tail(onWay)
      /\ UNCHANGED <<hermesVars, upsets, requests>>
  BY DEF TakeFrame
<1>3. PICK t : t = transcript
  OBVIOUS
<1>4. PICK h : h = line.heard
  OBVIOUS
<1>5. /\ Len(onWay) \in Nat \ {0} /\ Len(onWay') = Len(onWay) - 1 /\ onWay' \in Seq(Nat)
      /\ \A i \in DOMAIN onWay' : i + 1 \in DOMAIN onWay /\ onWay'[i] = onWay[i + 1]
      /\ n = onWay[1] /\ 1 \in DOMAIN onWay
  BY <1>0, <1>1, <1>2 DEF ChatTypes
<1>6. Emitted' = Emitted /\ Emitted \in Nat /\ Sent \in Int
  BY <1>1, <1>2, EmittedFacts, SentFacts DEF Emitted, hermesVars
<1>7. Sent' = Sent + 1 /\ n = Sent + 1 /\ n \in Nat /\ n >= 1 /\ n <= Emitted
  BY <1>1, <1>5, <1>6 DEF Sent, LineInv
<1>8. t \in Transcripts /\ h \in Nat /\ line \in Lines
  BY <1>1, <1>3, <1>4 DEF ChatTypes, Lines
<1>9. TextInv(t, h) /\ CoverInv(t, h, FALSE) /\ CutInv(t) /\ NextInv(t, h)
  BY <1>3, <1>4 DEF ChatInv, TranscriptInv
<1>10. \A i \in DOMAIN onWay' : onWay'[i] = Sent' + i
  <2> SUFFICES ASSUME NEW i \in DOMAIN onWay'
               PROVE  onWay'[i] = Sent' + i
    OBVIOUS
  <2>1. i \in Int
    BY <1>5
  <2>2. onWay[i + 1] = Sent + (i + 1)
    BY <1>1, <1>5 DEF LineInv
  <2> QED
    BY <1>5, <1>6, <1>7, <2>1, <2>2
<1>11. CASE n <= h
  <2>1. UNCHANGED <<line, stored, transcript, repair, reading>>
    BY <1>0, <1>4, <1>11 DEF TakeFrame
  <2>2. \A m \in Nat : Told(h, m) => Told(h, m)'
    BY <1>6, <1>7, <1>8, <1>11, <2>1 DEF Told
  <2>3. RowsKept /\ ToldKept(h)
    BY <2>1, <2>2 DEF RowsKept, ToldKept
  <2>4. NextInv(t, h)'
    BY <1>2, <1>6, <1>7, <1>8, <1>9, <1>11, <2>1 DEF NextInv, hermesVars
  <2>5. StoredInv' /\ TranscriptInv'
    BY <1>1, <1>2, <1>3, <1>4, <1>8, <1>9, <2>1, <2>3, <2>4, LineSteps
  <2>6. LineInv'
    BY <1>1, <1>2, <1>5, <1>6, <1>7, <1>10, <2>1 DEF LineInv, hermesVars
  <2>7. ChatTypes'
    BY <1>1, <1>2, <1>5, <2>1 DEF ChatTypes, hermesVars
  <2>8. FlightInv'
    BY <1>2, <1>4, <2>1, <2>2, FlightStays DEF Over, hermesVars
  <2> QED
    BY <2>5, <2>6, <2>7, <2>8 DEF ChatInv
<1>12. CASE n > h
  <2>1. /\ line' = [line EXCEPT !.heard = n, !.missing = @ /\ ~gap]
        /\ IF gap THEN GatewayReset ELSE Noted
        /\ transcript' = Reduced(t, n)
        /\ repair' = ScheduledIf(\/ stored'.state = "gap"
                                 \/ n = EndOf(ReplyOf(n)) /\ stored'.state # "current")
    <3>1. ~(Head(onWay) <= line.heard)
      BY <1>0, <1>4, <1>7, <1>8, <1>12
    <3> QED
      BY <1>0, <1>3, <3>1, Zenon DEF TakeFrame
  <2>2. RowsKept /\ stored' \in StoredRows /\ Outdated
    BY <1>1, <2>1, NotedFacts
  <2>3. PICK u : u = Reduced(t, n)
    OBVIOUS
  <2>4. Follows(t, h, n)
    BY <1>2, <1>7, <1>8, <1>9, <1>12 DEF Follows
  <2>5. u \in Transcripts /\ (t.dated => u.dated) /\ u.cut \subseteq t.cut
    BY <1>1, <1>8, <2>3, <2>4, ReducedTypes
  <2>6. TextInv(u, n) /\ \A r \in 1 .. born : n = StartOf(r) => u.head = "open" /\ u.of = r
    BY <1>1, <1>8, <1>9, <2>3, <2>4, TextFrame
  <2>7. CoverInv(u, n, FALSE)
    <3>1. CoverInv(u, n, Coming(n))
      BY <1>1, <1>8, <1>9, <2>3, <2>4, CoverFrame
    <3>2. ~Coming(n)
      BY <1>2 DEF Coming
    <3> QED
      BY <3>1, <3>2 DEF CoverInv
  <2>8. CutInv(u)
    BY <1>9, <2>5 DEF CutInv
  <2>9. /\ repair' \in Jobs /\ (repair.due => repair'.due)
        /\ stored'.state = "gap" => repair'.due
    <3> DEFINE c == \/ stored'.state = "gap"
                    \/ n = EndOf(ReplyOf(n)) /\ stored'.state # "current"
    <3>1. PICK d \in BOOLEAN : d = c
      BY DEF c
    <3>2. repair' = ScheduledIf(d)
      BY <2>1, <3>1
    <3>3. repair' \in Jobs /\ (repair.due => repair'.due) /\ (d => repair'.due)
      BY <1>1, <3>2, JobScheduled
    <3> QED
      BY <3>1, <3>3
  <2>10. gap => stored'.state = "gap"
    BY <1>1, <2>1 DEF GatewayReset, ChatTypes, StoredRows
  <2>11. /\ line' \in Lines /\ line'.heard = n /\ line'.at = "open" /\ line'.running = line.running
         /\ line'.missing <=> line.missing /\ ~gap
    <3>1. (line.missing /\ ~gap) \in BOOLEAN
      BY <1>8 DEF Lines
    <3> HIDE DEF gap
    <3>2. line' = [line EXCEPT !.heard = n, !.missing = line.missing /\ ~gap]
      BY <1>8, <2>1 DEF Lines
    <3> QED
      BY <1>2, <1>7, <1>8, <3>1, <3>2 DEF Lines
  <2> HIDE DEF gap
  <2>12. ToldKept(n)
    <3>1. line.missing => line'.missing \/ repair'.due
      BY <2>9, <2>10, <2>11
    <3>2. \A m \in Nat : Told(n, m) => Told(n, m)'
      BY <1>7 DEF Told
    <3> QED
      BY <2>9, <3>1, <3>2 DEF ToldKept
  <2>13. NextInv(u, n)'
    <3> SUFFICES ASSUME NEW r \in 1 .. born, n + 1 = EndOf(r)
                 PROVE  u.head = "open"
      BY <1>2, <1>6, <1>7 DEF NextInv, hermesVars
    <3>1. r \in Nat
      BY <1>1, EmittedFacts
    <3>2. n = StartOf(r)
      BY <1>7, <3>1, FrameNumbers
    <3> QED
      BY <2>6, <3>2
  <2>14. StoredInv' /\ TranscriptInv'
    BY <1>1, <1>2, <1>7, <2>1, <2>2, <2>3, <2>5, <2>6, <2>7, <2>8, <2>11, <2>12, <2>13, LineSteps
  <2>15. LineInv'
    BY <1>1, <1>2, <1>5, <1>6, <1>7, <1>10, <2>11 DEF LineInv, hermesVars
  <2>16. FlightInv' /\ reading' \in Flights
    BY <1>2, <2>2, FlightOutdated DEF Over, hermesVars
  <2>17. ChatTypes'
    BY <1>1, <1>2, <1>5, <2>1, <2>2, <2>3, <2>5, <2>9, <2>11, <2>16 DEF ChatTypes, hermesVars
  <2> QED
    BY <2>14, <2>15, <2>16, <2>17 DEF ChatInv
<1> QED
  BY <1>7, <1>8, <1>11, <1>12

LEMMA LostSteps ==
  ASSUME ChatInv, LineLost \/ PromptLost
  PROVE  ChatInv'
<1>1. ChatTypes /\ LineInv /\ StoredInv
  BY DEF ChatInv
<1>2. /\ line' = [line EXCEPT !.at = "down"] /\ onWay' = <<>> /\ line.at = "open"
      /\ UNCHANGED <<hermesVars, repair>>
  BY DEF LineLost, PromptLost
<1>3. PICK t : t = transcript
  OBVIOUS
<1>4. PICK h : h = line.heard
  OBVIOUS
<1>5. t \in Transcripts /\ h \in Nat /\ Emitted \in Nat
  BY <1>1, <1>3, <1>4, EmittedFacts DEF ChatTypes, Lines
<1>6. /\ line' \in Lines /\ line'.at = "down" /\ line'.heard = h /\ line'.missing = line.missing
      /\ line'.running = line.running
  BY <1>1, <1>2, <1>4 DEF ChatTypes, Lines
<1>7. Emitted' = Emitted /\ Sent' = Emitted' /\ Len(onWay') = 0
  BY <1>2, <1>5 DEF Emitted, Sent, hermesVars
<1>8. TextInv(t, h) /\ CoverInv(t, h, FALSE) /\ CutInv(t)
  BY <1>3, <1>4 DEF ChatInv, TranscriptInv
<1>9. \A m \in Nat : Told(h, m) => Told(h, m)'
  BY <1>6 DEF Told
<1>10. ToldKept(h)
  BY <1>2, <1>6, <1>9 DEF ToldKept
<1>11. LineInv'
  BY <1>1, <1>2, <1>4, <1>5, <1>6, <1>7 DEF LineInv, hermesVars
<1>12. CASE LineLost
  <2>1. UNCHANGED <<stored, transcript, reading>>
    BY <1>12 DEF LineLost
  <2>2. RowsKept
    BY <2>1 DEF RowsKept
  <2>3. NextInv(t, h)'
    BY <1>6 DEF NextInv
  <2>4. StoredInv' /\ TranscriptInv'
    BY <1>1, <1>2, <1>3, <1>5, <1>6, <1>8, <1>10, <2>1, <2>2, <2>3, LineSteps
  <2>5. FlightInv'
    BY <1>2, <1>4, <1>6, <1>9, <2>1, FlightStays DEF Over, hermesVars
  <2>6. ChatTypes'
    BY <1>1, <1>2, <1>6, <2>1 DEF ChatTypes, hermesVars
  <2> QED
    BY <1>11, <2>4, <2>5, <2>6 DEF ChatInv
<1>13. CASE PromptLost
  <2>1. RowsKept /\ stored' \in StoredRows /\ Outdated
    BY <1>1, <1>13, NotedFacts DEF PromptLost
  <2>2. PICK u : u = Submitted(t)
    OBVIOUS
  <2>3. transcript' = u
    BY <1>3, <1>13, <2>2 DEF PromptLost
  <2>4. u \in Transcripts /\ TextInv(u, h) /\ CoverInv(u, h, FALSE) /\ CutInv(u)
    BY <1>1, <1>5, <1>8, <2>2, SubmittedFacts
  <2>5. NextInv(u, h)'
    BY <1>6 DEF NextInv
  <2>6. StoredInv' /\ TranscriptInv'
    BY <1>1, <1>2, <1>5, <1>6, <1>10, <2>1, <2>3, <2>4, <2>5, LineSteps
  <2>7. FlightInv' /\ reading' \in Flights
    BY <1>2, <2>1, FlightOutdated DEF Over, hermesVars
  <2>8. ChatTypes'
    BY <1>1, <1>2, <1>6, <2>1, <2>3, <2>4, <2>7 DEF ChatTypes, hermesVars
  <2> QED
    BY <1>11, <2>6, <2>7, <2>8 DEF ChatInv
<1> QED
  BY <1>12, <1>13

LEMMA ResumeAnsweredStep ==
  ASSUME ChatInv, ResumeAnswered
  PROVE  ChatInv'
<1>1. ChatTypes /\ LineInv /\ StoredInv
  BY DEF ChatInv
<1>2. /\ line' = [line EXCEPT !.at = "resumed", !.running = speaking] /\ line.at = "down"
      /\ UNCHANGED <<hermesVars, onWay, stored, transcript, repair, reading>>
  BY DEF ResumeAnswered
<1>3. PICK t : t = transcript
  OBVIOUS
<1>4. PICK h : h = line.heard
  OBVIOUS
<1>5. t \in Transcripts /\ h \in Nat /\ Emitted \in Nat /\ speaking \in Nat /\ speaking <= born
  BY <1>1, <1>3, <1>4, EmittedFacts DEF ChatTypes, Lines
<1>6. /\ line' \in Lines /\ line'.at = "resumed" /\ line'.heard = h /\ line'.missing = line.missing
      /\ line'.running = speaking
  BY <1>1, <1>2, <1>4, <1>5 DEF ChatTypes, Lines
<1>7. onWay = <<>> /\ Emitted' = Emitted /\ Sent' = Emitted /\ Len(onWay) = 0
  BY <1>1, <1>2, <1>5 DEF Emitted, Sent, hermesVars, LineInv
<1>8. TextInv(t, h) /\ CoverInv(t, h, FALSE) /\ CutInv(t)
  BY <1>3, <1>4 DEF ChatInv, TranscriptInv
<1>9. \A m \in Nat : Told(h, m) => Told(h, m)'
  BY <1>6 DEF Told
<1>10. ToldKept(h) /\ RowsKept
  BY <1>2, <1>6, <1>9 DEF ToldKept, RowsKept
<1>11. ASSUME NEW r \in Nat
       PROVE  /\ Emitted + 1 = EndOf(r) => speaking = r
              /\ Emitted + 1 = StartOf(r) => speaking = 0
  <2>1. Emitted + 1 = EndOf(r) => speaking = r
    BY <1>1, EmittedFacts
  <2>2. speaking # 0 => Emitted + 1 # StartOf(r)
    BY <1>1, <1>5, EmittedFacts, FramesDiffer
  <2> QED
    BY <2>1, <2>2
<1>12. LineInv'
  BY <1>1, <1>2, <1>4, <1>5, <1>6, <1>7, <1>11 DEF LineInv, hermesVars
<1>13. NextInv(t, h)'
  BY <1>6 DEF NextInv
<1>14. StoredInv' /\ TranscriptInv'
  BY <1>1, <1>2, <1>3, <1>5, <1>6, <1>8, <1>10, <1>13, LineSteps
<1>15. FlightInv'
  BY <1>2, <1>4, <1>6, <1>9, FlightStays DEF Over, hermesVars
<1>16. ChatTypes'
  BY <1>1, <1>2, <1>6 DEF ChatTypes, hermesVars
<1> QED
  BY <1>12, <1>14, <1>15, <1>16 DEF ChatInv

\* The answer is that of a moment before the frames held back.
LEMMA AnswerFits ==
  ASSUME ChatTypes, LineInv, line.at = "resumed", line.running = 0
  PROVE  speaking # 0 => line.heard < Emitted /\ Sent < Emitted
<1>1. /\ Emitted \in Nat /\ Sent \in Int /\ line.heard \in Nat /\ line.heard <= Sent
      /\ Sent <= Emitted /\ speaking \in Nat
  BY EmittedFacts, SentFacts DEF ChatTypes, Lines, LineInv
<1>2. speaking # 0 => Sent # Emitted
  BY <1>1, EmittedFacts DEF LineInv
<1> QED
  BY <1>1, <1>2

LEMMA NotReplayedStep ==
  ASSUME ChatInv, NotReplayed
  PROVE  ChatInv'
<1>1. ChatTypes /\ LineInv /\ StoredInv
  BY DEF ChatInv
<1>2. /\ line' = [line EXCEPT !.at = "open", !.missing = FALSE, !.running = 0]
      /\ line.at = "resumed" /\ GatewayReset /\ repair' = Scheduled(repair, FALSE)
      /\ transcript' = Restored(transcript) /\ UNCHANGED <<hermesVars, onWay>>
  BY DEF NotReplayed
<1>3. PICK t : t = transcript
  OBVIOUS
<1>4. PICK h : h = line.heard
  OBVIOUS
<1>5. PICK q : q = line.running
  OBVIOUS
<1>6. PICK u : u = Restored(t)
  OBVIOUS
<1>7. /\ t \in Transcripts /\ h \in Nat /\ Emitted \in Nat /\ born \in Nat /\ h <= Emitted
      /\ q \in 0 .. born /\ Sent \in Int /\ h <= Sent
  BY <1>1, <1>2, <1>3, <1>4, <1>5, EmittedFacts, SentFacts DEF ChatTypes, Lines, LineInv
<1>8. /\ line' \in Lines /\ line'.at = "open" /\ line'.heard = h /\ ~line'.missing
      /\ line'.running = 0
  BY <1>1, <1>2, <1>4 DEF ChatTypes, Lines
<1>9. Emitted' = Emitted /\ Sent' = Sent /\ born' = born
  BY <1>2 DEF Emitted, Sent, hermesVars
<1>10. TextInv(t, h) /\ CoverInv(t, h, FALSE) /\ TurnInv(t, h)
  BY <1>3, <1>4 DEF ChatInv, TranscriptInv, TextInv
<1>11. Resumed(t, q, u)
  BY <1>1, <1>5, <1>6, <1>7, <1>10, RestoredFields DEF TurnInv
<1>12. repair' \in Jobs /\ repair'.due
  BY <1>1, <1>2, ScheduledTypes
<1>13. RowsKept /\ stored' \in StoredRows /\ Outdated
  BY <1>1, <1>2, NotedFacts
<1>14. TextInv(u, h)
  <2>1. q = 0 /\ speaking # 0 => h # StartOf(speaking)
    BY <1>1, <1>2, <1>4, <1>5, <1>7, AnswerFits, EmittedFacts
  <2> QED
    BY <1>1, <1>7, <1>10, <1>11, <2>1, TextResumed
<1>15. CoverInv(u, h, FALSE)
  BY <1>1, <1>7, <1>10, <1>11, CoverResumed
<1>16. ToldKept(h)
  BY <1>12 DEF ToldKept
<1>17. NextInv(u, h)'
  <2> SUFFICES ASSUME NEW r \in 1 .. born, Sent + 1 = EndOf(r)
               PROVE  u.head = "open"
    BY <1>7, <1>9 DEF NextInv
  <2>1. q = r /\ q # 0
    BY <1>1, <1>2, <1>5, <1>7 DEF LineInv
  <2> QED
    BY <1>11, <2>1 DEF Resumed
<1>18. u \in Transcripts /\ transcript' = u
  BY <1>2, <1>3, <1>6, <1>11 DEF Resumed
<1>19. StoredInv' /\ TranscriptInv'
  BY <1>1, <1>2, <1>7, <1>8, <1>12, <1>13, <1>14, <1>15, <1>16, <1>17, <1>18, LineSteps
<1>20. LineInv'
  BY <1>1, <1>2, <1>4, <1>7, <1>8, <1>9 DEF LineInv
<1>21. FlightInv' /\ reading' \in Flights
  BY <1>2, <1>13, FlightOutdated DEF Over, hermesVars
<1>22. ChatTypes'
  BY <1>1, <1>2, <1>8, <1>12, <1>13, <1>18, <1>21 DEF ChatTypes, hermesVars
<1> QED
  BY <1>19, <1>20, <1>21, <1>22 DEF ChatInv

LEMMA FramesReplayedStep ==
  ASSUME ChatInv, FramesReplayed
  PROVE  ChatInv'
<1>1. ChatTypes /\ LineInv /\ StoredInv
  BY DEF ChatInv
<1>2. /\ line' = [line EXCEPT !.at = "open", !.heard = Emitted, !.running = 0]
      /\ line.at = "resumed" /\ Noted
      /\ transcript' = Restored(Replayed) /\ UNCHANGED <<hermesVars, onWay>>
  BY DEF FramesReplayed
<1>3. PICK t : t = Replayed
  OBVIOUS
<1>4. PICK h : h = Emitted
  OBVIOUS
<1>5. PICK q : q = line.running
  OBVIOUS
<1>6. PICK u : u = Restored(t)
  OBVIOUS
<1>7. /\ h \in Nat /\ h = Emitted /\ born \in Nat /\ line.heard <= h /\ line.heard \in Nat
      /\ q \in 0 .. born /\ Sent \in Int /\ Sent <= Emitted /\ speaking \in Nat
  BY <1>1, <1>2, <1>4, <1>5, EmittedFacts, SentFacts DEF ChatTypes, Lines, LineInv
<1>8. Along(t, h)
  BY <1>2, <1>3, <1>4, ReplayedInv
<1>9. t \in Transcripts /\ TextInv(t, h) /\ TurnInv(t, h) /\ CutInv(t)
  BY <1>8 DEF Along, TextInv
<1>10. CoverInv(t, h, FALSE)
  <2>1. CoverInv(t, h, Coming(h))
    BY <1>8 DEF Along
  <2>2. ~Coming(h)
    <3> SUFFICES ASSUME NEW r \in Had, StartOf(r) > Emitted
                 PROVE  FALSE
      BY <1>7 DEF Coming
    <3>1. r \in 1 .. born
      BY <1>1 DEF StoredInv, Over
    <3>2. StartOf(r) <= Emitted /\ StartOf(r) \in Int
      BY <1>1, <1>7, <3>1, EmittedFacts, FrameNumbers
    <3> QED
      BY <1>7, <3>2
  <2> QED
    BY <2>1, <2>2 DEF CoverInv
<1>11. Resumed(t, q, u)
  BY <1>1, <1>5, <1>6, <1>9, RestoredFields DEF TurnInv
<1>12. q = 0 /\ speaking # 0 => t.head = "open" /\ t.of = speaking
  <2> SUFFICES ASSUME q = 0, speaking # 0
               PROVE  t.head = "open" /\ t.of = speaking
    OBVIOUS
  <2>1. line.heard < h
    BY <1>1, <1>2, <1>5, <1>7, AnswerFits
  <2>2. h = StartOf(speaking) /\ speaking \in 1 .. born
    BY <1>1, <1>7, EmittedFacts DEF ChatTypes
  <2> QED
    BY <1>7, <1>8, <2>1, <2>2 DEF Along
<1>13. TextInv(u, h)
  BY <1>1, <1>7, <1>9, <1>11, <1>12, TextResumed
<1>14. CoverInv(u, h, FALSE) /\ CutInv(u)
  <2>1. h <= Emitted
    BY <1>7
  <2>2. CoverInv(u, h, FALSE) /\ (CutInv(t) /\ (line.missing \/ h = Emitted) => CutInv(u))
    BY <1>1, <1>7, <1>9, <1>10, <1>11, <2>1, CoverResumed
  <2> QED
    BY <1>7, <1>9, <2>2
<1>15. RowsKept /\ stored' \in StoredRows /\ Outdated
  BY <1>1, <1>2, NotedFacts
<1>16. repair' \in Jobs /\ (repair.due => repair'.due)
  <2> DEFINE c == /\ stored'.state # "current"
                  /\ \E n \in line.heard + 1 .. Emitted : n = EndOf(ReplyOf(n))
  <2>1. PICK d \in BOOLEAN : d = c
    OBVIOUS
  <2>2. repair' = ScheduledIf(d)
    BY <2>1, Zenon DEF FramesReplayed
  <2> QED
    BY <1>1, <2>2, JobScheduled
<1>17. /\ line' \in Lines /\ line'.at = "open" /\ line'.heard = h /\ line'.missing = line.missing
       /\ line'.running = 0
  BY <1>1, <1>2, <1>7 DEF ChatTypes, Lines
<1>18. Emitted' = Emitted /\ Sent' = Sent /\ born' = born
  BY <1>2 DEF Emitted, Sent, hermesVars
<1>19. ToldKept(h)
  BY <1>7, <1>16, <1>17 DEF ToldKept, Told
<1>20. NextInv(u, h)'
  <2> SUFFICES ASSUME NEW r \in 1 .. born, Emitted + 1 = EndOf(r)
               PROVE  u.head = "open" \/ u.of = r
    BY <1>7, <1>18 DEF NextInv
  <2>1. r = speaking /\ speaking # 0
    BY <1>1, <1>7, EmittedFacts
  <2> QED
    BY <1>11, <1>12, <2>1 DEF Resumed
<1>21. u \in Transcripts /\ transcript' = u
  BY <1>2, <1>3, <1>6, <1>11 DEF Resumed
<1>22. StoredInv' /\ TranscriptInv'
  BY <1>1, <1>2, <1>7, <1>13, <1>14, <1>15, <1>17, <1>19, <1>20, <1>21, LineSteps
<1>23. LineInv'
  BY <1>1, <1>2, <1>7, <1>17, <1>18 DEF LineInv
<1>24. FlightInv' /\ reading' \in Flights
  BY <1>2, <1>15, FlightOutdated DEF Over, hermesVars
<1>25. ChatTypes'
  BY <1>1, <1>2, <1>15, <1>16, <1>17, <1>21, <1>24 DEF ChatTypes, hermesVars
<1> QED
  BY <1>22, <1>23, <1>24, <1>25 DEF ChatInv

LEMMA ChatRestartStep ==
  ASSUME ChatInv, ChatRestart
  PROVE  ChatInv'
<1>1. ChatTypes /\ LineInv /\ StoredInv
  BY DEF ChatInv
<1>2. /\ line' = [at |-> "closed", heard |-> line.heard, running |-> 0,
                  missing |-> line.missing \/ line.heard # Emitted]
      /\ onWay' = <<>> /\ reading' = NoFlight
      /\ LET again == repair.kept \/ transcript.withheld
         IN repair' = [repair EXCEPT !.force = again, !.kept = again]
      /\ UNCHANGED <<hermesVars, stored, transcript>>
  BY DEF ChatRestart
<1>3. PICK t : t = transcript
  OBVIOUS
<1>4. PICK h : h = line.heard
  OBVIOUS
<1>5. t \in Transcripts /\ h \in Nat /\ Emitted \in Nat /\ h <= Emitted
  BY <1>1, <1>3, <1>4, EmittedFacts DEF ChatTypes, Lines, LineInv
<1>6. /\ line' \in Lines /\ line'.at = "closed" /\ line'.heard = h /\ line'.running = 0
      /\ line'.missing <=> line.missing \/ h # Emitted
  <2>1. line.missing \in BOOLEAN
    BY <1>1 DEF ChatTypes, Lines
  <2> QED
    BY <1>2, <1>4, <1>5, <2>1 DEF Lines
<1>7. repair' \in Jobs /\ (repair.due => repair'.due)
  BY <1>1, <1>2 DEF ChatTypes, Jobs, Transcripts
<1>8. Emitted' = Emitted /\ Sent' = Emitted' /\ Len(onWay') = 0
  BY <1>2, <1>5 DEF Emitted, Sent, hermesVars
<1>9. TextInv(t, h) /\ CoverInv(t, h, FALSE) /\ CutInv(t)
  BY <1>3, <1>4 DEF ChatInv, TranscriptInv
<1>10. ToldKept(h)
  <2>1. \A n \in Nat : n <= Emitted /\ Told(h, n) => line'.missing
    BY <1>5, <1>6 DEF Told
  <2> QED
    BY <1>6, <1>7, <2>1 DEF ToldKept
<1>11. RowsKept
  BY <1>2 DEF RowsKept
<1>12. NextInv(t, h)'
  BY <1>6 DEF NextInv
<1>13. StoredInv' /\ TranscriptInv'
  BY <1>1, <1>2, <1>3, <1>5, <1>6, <1>9, <1>10, <1>11, <1>12, LineSteps
<1>14. LineInv'
  BY <1>1, <1>2, <1>5, <1>6, <1>8, EmittedFacts DEF LineInv, hermesVars
<1>15. FlightInv' /\ reading' \in Flights
  BY <1>2, NoFlightInv
<1>16. ChatTypes'
  BY <1>1, <1>2, <1>6, <1>7, <1>15 DEF ChatTypes, hermesVars
<1> QED
  BY <1>13, <1>14, <1>15, <1>16 DEF ChatInv

LEMMA OpenSessionStep ==
  ASSUME ChatInv, OpenSession
  PROVE  ChatInv'
<1>1. ChatTypes /\ LineInv /\ StoredInv
  BY DEF ChatInv
<1>2. /\ line' = [line EXCEPT !.at = "open"] /\ line.at = "closed" /\ Noted
      /\ transcript' = RouteResumed(transcript, speaking)
      /\ UNCHANGED <<hermesVars, onWay, repair>>
  BY DEF OpenSession
<1>3. PICK t : t = transcript
  OBVIOUS
<1>4. PICK h : h = line.heard
  OBVIOUS
<1>5. PICK u : u = RouteResumed(t, speaking)
  OBVIOUS
<1>6. /\ t \in Transcripts /\ h \in Nat /\ Emitted \in Nat /\ h <= Emitted /\ born \in Nat
      /\ speaking \in Nat /\ speaking \in 0 .. born /\ (line.missing \/ h = Emitted)
  BY <1>1, <1>2, <1>3, <1>4, EmittedFacts DEF ChatTypes, Lines, LineInv
<1>7. /\ line' \in Lines /\ line'.at = "open" /\ line'.heard = h /\ line'.missing = line.missing
      /\ line'.running = line.running
  BY <1>1, <1>2, <1>4 DEF ChatTypes, Lines
<1>8. Emitted' = Emitted /\ Sent = Emitted /\ Sent' = Emitted /\ onWay' = <<>> /\ born' = born
  BY <1>1, <1>2, <1>6 DEF Emitted, Sent, hermesVars, LineInv
<1>9. TextInv(t, h) /\ CoverInv(t, h, FALSE) /\ CutInv(t) /\ TurnInv(t, h)
  BY <1>3, <1>4 DEF ChatInv, TranscriptInv, TextInv
<1>10. Resumed(t, speaking, u)
  BY <1>1, <1>5, <1>6, <1>9, OpenedFields DEF TurnInv
<1>11. TextInv(u, h)
  BY <1>1, <1>6, <1>9, <1>10, TextResumed
<1>12. CoverInv(u, h, FALSE) /\ CutInv(u)
  <2>1. CoverInv(u, h, FALSE) /\ (CutInv(t) /\ (line.missing \/ h = Emitted) => CutInv(u))
    BY <1>1, <1>6, <1>9, <1>10, CoverResumed
  <2> QED
    BY <1>6, <1>9, <2>1
<1>13. RowsKept /\ stored' \in StoredRows /\ Outdated
  BY <1>1, <1>2, NotedFacts
<1>14. ToldKept(h)
  <2>1. \A n \in Nat : n <= Emitted /\ Told(h, n) => line'.missing
    BY <1>2, <1>6, <1>7, <1>8 DEF Told
  <2> QED
    BY <1>2, <1>7, <2>1 DEF ToldKept
<1>15. NextInv(u, h)'
  <2> SUFFICES ASSUME NEW r \in 1 .. born, Emitted + 1 = EndOf(r)
               PROVE  u.head = "open"
    BY <1>6, <1>8 DEF NextInv
  <2>1. r = speaking /\ speaking # 0
    BY <1>1, <1>6, EmittedFacts
  <2> QED
    BY <1>10, <2>1 DEF Resumed
<1>16. u \in Transcripts /\ transcript' = u
  BY <1>2, <1>3, <1>5, <1>10 DEF Resumed
<1>17. StoredInv' /\ TranscriptInv'
  BY <1>1, <1>2, <1>6, <1>7, <1>11, <1>12, <1>13, <1>14, <1>15, <1>16, LineSteps
<1>18. LineInv'
  BY <1>1, <1>2, <1>4, <1>6, <1>7, <1>8 DEF LineInv
<1>19. FlightInv' /\ reading' \in Flights
  BY <1>2, <1>13, FlightOutdated DEF Over, hermesVars
<1>20. ChatTypes'
  BY <1>1, <1>2, <1>7, <1>13, <1>16, <1>19 DEF ChatTypes, hermesVars
<1> QED
  BY <1>17, <1>18, <1>19, <1>20 DEF ChatInv

-----------------------------------------------------------------------------
(* Hermes begins, ends and removes replies                                 *)

\* A frame goes out, or is missed.
LEMMA EmitFacts ==
  ASSUME ChatTypes, LineInv, Emit(Emitted + 1), Emitted' = Emitted + 1, born' \in Nat, born <= born',
         NEW h, h = line.heard
  PROVE  /\ line' \in Lines /\ line'.at = line.at /\ line'.heard = h
         /\ line.missing => line'.missing
         /\ onWay' \in Seq(Nat) /\ LineInv' /\ (line.at = "open" => Sent' = Sent)
         /\ \A n \in Nat : n <= Emitted /\ Told(h, n) => Told(h, n)'
         /\ \A n \in Nat : n = Emitted + 1 => Told(h, n)'
<1>1. /\ line \in Lines /\ h \in Nat /\ Emitted \in Nat /\ h <= Emitted /\ Len(onWay) \in Nat
      /\ Sent \in Int /\ Sent <= Emitted /\ onWay \in Seq(Nat) /\ born \in Nat
      /\ Emitted = Sent + Len(onWay)
  BY EmittedFacts, SentFacts DEF ChatTypes, Lines, LineInv
<1>2. /\ line' = [line EXCEPT !.missing = line.missing \/ line.at = "closed"]
      /\ onWay' = IF line.at \in {"open", "resumed"} THEN Append(onWay, Emitted + 1) ELSE onWay
  BY <1>1 DEF Emit, Lines
<1>3. /\ line' \in Lines /\ line'.at = line.at /\ line'.heard = h /\ line'.running = line.running
      /\ line'.missing <=> line.missing \/ line.at = "closed"
  <2>1. (line.missing \/ line.at = "closed") \in BOOLEAN
    BY <1>1 DEF Lines
  <2> QED
    BY <1>1, <1>2, <2>1 DEF Lines
<1>4. ASSUME line.at \in {"open", "resumed"}
      PROVE  /\ onWay' \in Seq(Nat) /\ Sent' = Sent /\ Len(onWay') = Len(onWay) + 1
             /\ \A i \in DOMAIN onWay' : onWay'[i] = Sent' + i
  <2>1. onWay' = Append(onWay, Emitted + 1)
    BY <1>2, <1>4
  <2>2. /\ onWay' \in Seq(Nat) /\ Len(onWay') = Len(onWay) + 1
        /\ DOMAIN onWay' = 1 .. Len(onWay) + 1
        /\ \A i \in 1 .. Len(onWay) : onWay'[i] = onWay[i] /\ i \in DOMAIN onWay
        /\ onWay'[Len(onWay) + 1] = Emitted + 1
    BY <1>1, <2>1
  <2>3. Sent' = Sent
    BY <1>1, <2>2 DEF Sent
  <2>4. ASSUME NEW i \in DOMAIN onWay'
        PROVE  onWay'[i] = Sent + i
    <3>1. CASE i \in 1 .. Len(onWay)
      BY <2>2, <3>1 DEF LineInv
    <3>2. CASE i = Len(onWay) + 1
      BY <1>1, <2>2, <3>2
    <3> QED
      BY <1>1, <2>2, <3>1, <3>2
  <2> QED
    BY <2>2, <2>3, <2>4
<1>5. ASSUME line.at \notin {"open", "resumed"}
      PROVE  onWay' = <<>> /\ Sent' = Emitted' /\ line.at \in {"down", "closed"}
  <2>1. line.at \in {"down", "closed"} /\ onWay' = <<>>
    BY <1>1, <1>2, <1>5 DEF LineInv, Lines
  <2> QED
    BY <1>1, <2>1 DEF Sent
<1>6. LineInv'
  <2>1. Len(onWay') <= Emitted' /\ \A i \in DOMAIN onWay' : onWay'[i] = Sent' + i
    <3>1. CASE line.at \in {"open", "resumed"}
      BY <1>1, <1>4, <3>1 DEF LineInv
    <3>2. CASE line.at \notin {"open", "resumed"}
      BY <1>1, <1>5, <3>2
    <3> QED
      BY <3>1, <3>2
  <2>2. line'.heard <= Emitted' /\ line'.running <= born'
    <3>1. line.running \in Nat
      BY <1>1 DEF Lines
    <3> QED
      BY <1>1, <1>3, <3>1 DEF LineInv
  <2>3. /\ line'.at \in {"down", "closed"} => onWay' = <<>>
        /\ line'.at = "closed" => line'.missing
    BY <1>3, <1>5
  <2>4. line'.at = "resumed" =>
          /\ line'.heard <= Sent'
          /\ \A r \in Nat : /\ Sent' + 1 = EndOf(r) => line'.running = r
                            /\ Sent' + 1 = StartOf(r) => line'.running = 0
    BY <1>3, <1>4 DEF LineInv
  <2> QED
    BY <2>1, <2>2, <2>3, <2>4 DEF LineInv
<1>7. \A n \in Nat : n <= Emitted + 1 /\ n > h /\ (n = Emitted + 1 \/ Told(h, n)) => Told(h, n)'
  <2> SUFFICES ASSUME NEW n \in Nat, n > h, n = Emitted + 1 \/ Told(h, n)
               PROVE  Told(h, n)'
    OBVIOUS
  <2>1. CASE line.at \in {"open", "resumed"}
    BY <1>1, <1>3, <1>4, <2>1 DEF Told
  <2>2. CASE line.at \notin {"open", "resumed"}
    BY <1>3, <1>5, <2>2 DEF Told
  <2> QED
    BY <2>1, <2>2
<1>8. \A n \in Nat : Told(h, n) => n > h
  BY DEF Told
<1>9. \A n \in Nat : n <= Emitted /\ Told(h, n) => Told(h, n)'
  BY <1>1, <1>7, <1>8
<1>10. \A n \in Nat : n = Emitted + 1 => Told(h, n)'
  BY <1>1, <1>7
<1>11. onWay' \in Seq(Nat) /\ (line.at = "open" => Sent' = Sent)
  <2>1. CASE line.at \in {"open", "resumed"}
    BY <1>4, <2>1
  <2>2. CASE line.at \notin {"open", "resumed"}
    BY <1>1, <1>2, <1>5, <2>2
  <2> QED
    BY <2>1, <2>2
<1> QED
  BY <1>3, <1>6, <1>9, <1>10, <1>11

\* The row of a reply that Hermes has ended and the rows stored stay as they are.
LEMMA PassedStays ==
  ASSUME \A r : Over(r) => Over(r)', \A r : Over(r) /\ Within(r) => Within(r)', RowsKept
  PROVE  /\ \A r : Passed(r) => Passed(r)'
         /\ \A t : Lost(t) => Lost(t)'
<1>1. \A r : Passed(r) => Passed(r)'
  BY DEF Passed, Had, RowsKept
<1> QED
  BY <1>1 DEF Lost

\* A reply begins: whatever the transcript t is, it is not in it.
LEMMA BeginText ==
  ASSUME ChatTypes, StoredInv, LineInv, speaking = 0, speaking' = born + 1, born' = born + 1,
         history' = history, RowsKept, repair.due => repair'.due, line.missing => line'.missing,
         line'.at = line.at, line.at = "open" => Sent' = Sent,
         NEW h \in Nat, h <= Emitted, \A n \in Nat : n <= Emitted /\ Told(h, n) => Told(h, n)',
         NEW t \in Transcripts,
         TextInv(t, h), NextInv(t, h), CoverInv(t, h, FALSE), CutInv(t)
  PROVE  /\ StoredInv' /\ TextInv(t, h)' /\ NextInv(t, h)' /\ CoverInv(t, h, FALSE)' /\ CutInv(t)'
<1>1. /\ TurnInv(t, h) /\ OwnInv(t, h) /\ RowInv(t, h) /\ born \in Nat /\ Emitted \in Nat
      /\ Emitted = EndOf(born) /\ Sent \in Int /\ Sent <= Emitted
  BY EmittedFacts, SentFacts DEF TextInv
<1>2. /\ Had' = Had /\ stored'.complete = stored.complete /\ stored'.total = stored.total
      /\ stored'.rows = stored.rows
  BY DEF Had, RowsKept
<1>3. \A r : Over(r) => Over(r)'
  BY <1>1 DEF Over
<1>4. \A r : Within(r)' <=> Within(r)
  BY <1>2 DEF Within
<1>5. (\A r : Passed(r) => Passed(r)') /\ (Lost(t) => Lost(t)')
  BY <1>3, <1>4, PassedStays
<1>6. StoredInv'
  BY <1>2, <1>3 DEF StoredInv
<1>7. TurnInv(t, h)'
  BY <1>1, <1>2 DEF TurnInv, Transcripts
<1>8. OwnInv(t, h)'
  <2> SUFFICES ASSUME NEW r \in 1 .. born + 1, h = StartOf(r)
               PROVE  /\ Owns(t, r) \/ t.running \/ r # born + 1
                      /\ stored.complete => Owns(t, r) \/ t.dated \/ r \in Had \/ Passed(r)'
    BY <1>2 DEF OwnInv, Owns
  <2>1. r # born + 1
    BY <1>1 DEF StartOf, EndOf
  <2>2. r \in 1 .. born
    BY <1>1, <2>1
  <2> QED
    BY <1>1, <1>5, <2>1, <2>2 DEF OwnInv
<1>9. NextInv(t, h)'
  <2> SUFFICES ASSUME line.at = "open", NEW r \in 1 .. born + 1,
                      (IF h > Sent THEN h ELSE Sent) + 1 = EndOf(r)
               PROVE  t.head # "ended" \/ t.of \in {0, r}
    BY DEF NextInv
  <2>1. r # born + 1
    BY <1>1 DEF EndOf
  <2>2. r \in 1 .. born
    BY <1>1, <2>1
  <2> QED
    BY <2>2 DEF NextInv
<1>10. RowInv(t, h)'
  BY <1>1, <1>2 DEF RowInv
<1>11. CoverInv(t, h, FALSE)'
  <2>1. \A r \in Had : stored.complete => r \in t.whole \/ t.dated \/ Lost(t)'
    BY <1>5 DEF CoverInv
  <2>2. ASSUME NEW i \in DOMAIN history, i > stored.total, stored.complete
        PROVE  \/ history[i] \in t.whole \/ Told(h, EndOf(history[i]))'
               \/ repair'.due \/ line'.missing \/ t.dated \/ Lost(t)'
    <3>1. \/ history[i] \in t.whole \/ Told(h, EndOf(history[i]))
          \/ repair.due \/ line.missing \/ t.dated \/ Lost(t)
      BY <2>2 DEF CoverInv
    <3>2. history[i] \in 1 .. born /\ history[i] # speaking
      BY DEF StoredInv, Over
    <3>3. EndOf(history[i]) \in Nat /\ EndOf(history[i]) <= Emitted
      BY <1>1, <3>2, EmittedFacts, FrameNumbers
    <3>4. Told(h, EndOf(history[i])) => Told(h, EndOf(history[i]))'
      BY <3>3 DEF Told, EndOf
    <3> QED
      BY <1>5, <3>1, <3>4
  <2> QED
    BY <1>2, <2>1, <2>2 DEF CoverInv
<1>12. CutInv(t)'
  BY <1>2, <1>4 DEF CutInv
<1> QED
  BY <1>6, <1>7, <1>8, <1>9, <1>10, <1>11, <1>12 DEF TextInv

\* A transcript that differs in what it says of prompts only.
LEMMA BesideText ==
  ASSUME NEW w, NEW h, NEW u, u.whole = w.whole, u.twice = w.twice, u.cut = w.cut,
         u.dated = w.dated, u.head = w.head, u.running = w.running, u.of = w.of,
         TextInv(w, h), CoverInv(w, h, FALSE), CutInv(w)
  PROVE  TextInv(u, h) /\ CoverInv(u, h, FALSE) /\ CutInv(u)
<1>1. TextInv(u, h)
  BY DEF TextInv, TurnInv, OwnInv, RowInv, Owns
<1>2. CoverInv(u, h, FALSE) /\ CutInv(u)
  BY DEF CoverInv, CutInv, Lost
<1> QED
  BY <1>1, <1>2

LEMMA BeginSteps ==
  ASSUME ChatInv, Peer \/ Prompt
  PROVE  ChatInv'
<1>1. ChatTypes /\ LineInv /\ StoredInv
  BY DEF ChatInv
<1>2. BeginReply /\ Emit(StartOf(born + 1)) /\ UNCHANGED <<history, repair>>
  BY DEF Peer, Prompt
<1>3. PICK h : h = line.heard
  OBVIOUS
<1>4. PICK t : t = transcript
  OBVIOUS
<1>5. /\ speaking = 0 /\ speaking' = born + 1 /\ born' = born + 1 /\ born + 1 \in 1 .. ChatReplies
      /\ born \in Nat /\ born' \in Nat /\ born <= born'
  BY <1>1, <1>2, ChatConstants DEF BeginReply, ChatTypes
<1>6. Emitted \in Nat /\ Emitted' = Emitted + 1 /\ StartOf(born + 1) = Emitted + 1
  BY <1>5 DEF Emitted, StartOf
<1>7. /\ line' \in Lines /\ line'.at = line.at /\ line'.heard = h
      /\ line.missing => line'.missing
      /\ onWay' \in Seq(Nat) /\ LineInv' /\ (line.at = "open" => Sent' = Sent)
      /\ \A n \in Nat : n <= Emitted /\ Told(h, n) => Told(h, n)'
  <2>1. Emit(Emitted + 1)
    BY <1>2, <1>6
  <2> QED
    BY <1>1, <1>3, <1>5, <1>6, <2>1, EmitFacts
<1>8. /\ TextInv(t, h) /\ NextInv(t, h) /\ CoverInv(t, h, FALSE) /\ CutInv(t)
      /\ t \in Transcripts /\ h \in Nat /\ h <= Emitted
  BY <1>1, <1>3, <1>4 DEF ChatInv, TranscriptInv, ChatTypes, Lines, LineInv
<1>9. \A r : Over(r) => Over(r)'
  BY <1>5 DEF Over
<1>10. CASE Peer
  <2>1. UNCHANGED <<stored, transcript, reading>> /\ RowsKept
    BY <1>10 DEF Peer, RowsKept
  <2>2. StoredInv' /\ TextInv(t, h)' /\ NextInv(t, h)' /\ CoverInv(t, h, FALSE)' /\ CutInv(t)'
    BY <1>1, <1>2, <1>5, <1>7, <1>8, <2>1, BeginText
  <2>3. TranscriptInv'
    BY <1>4, <1>7, <2>1, <2>2, ByNotice
  <2>4. FlightInv'
    BY <1>2, <1>3, <1>7, <1>9, <2>1, FlightStays
  <2>5. ChatTypes'
    BY <1>1, <1>2, <1>5, <1>7, <2>1, ChatConstants DEF ChatTypes
  <2> QED
    BY <1>7, <2>2, <2>3, <2>4, <2>5 DEF ChatInv
<1>11. CASE Prompt
  <2>1. RowsKept /\ stored' \in StoredRows /\ Outdated
    BY <1>1, <1>11, NotedFacts DEF Prompt
  <2>2. PICK w : w = Submitted(t)
    OBVIOUS
  <2>3. PICK p \in Replies : p = born + 1
    BY <1>5 DEF Replies
  <2>4. PICK u : u = [w EXCEPT !.asked = @ \cup {p}]
    OBVIOUS
  <2>5. transcript' = u
    BY <1>4, <1>11, <2>2, <2>3, <2>4 DEF Prompt
  <2>6. u \in Transcripts /\ TextInv(u, h) /\ CoverInv(u, h, FALSE) /\ CutInv(u) /\ u.head # "ended"
    <3>1. /\ w \in Transcripts /\ TextInv(w, h) /\ CoverInv(w, h, FALSE) /\ CutInv(w)
          /\ w.head # "ended"
      BY <1>1, <1>8, <2>2, SubmittedFacts
    <3>2. /\ u \in Transcripts /\ u.whole = w.whole /\ u.twice = w.twice /\ u.cut = w.cut
          /\ u.dated = w.dated /\ u.head = w.head /\ u.running = w.running /\ u.of = w.of
      BY <2>4, <3>1 DEF Transcripts
    <3> QED
      BY <3>1, <3>2, BesideText
  <2>7. NextInv(u, h)
    BY <2>6 DEF NextInv
  <2>8. StoredInv' /\ TextInv(u, h)' /\ NextInv(u, h)' /\ CoverInv(u, h, FALSE)' /\ CutInv(u)'
    BY <1>1, <1>2, <1>5, <1>7, <1>8, <2>1, <2>6, <2>7, BeginText
  <2>9. TranscriptInv'
    BY <1>7, <2>5, <2>8, ByNotice
  <2>10. FlightInv' /\ reading' \in Flights
    BY <1>9, <2>1, FlightOutdated
  <2>11. ChatTypes'
    BY <1>1, <1>2, <1>5, <1>7, <2>1, <2>5, <2>6, <2>10, ChatConstants DEF ChatTypes
  <2> QED
    BY <1>7, <2>8, <2>9, <2>10, <2>11 DEF ChatInv
<1> QED
  BY <1>10, <1>11

\* A reply ends: the broker still learns of it.
LEMMA ReplyEndsStep ==
  ASSUME ChatInv, ReplyEnds
  PROVE  ChatInv'
<1>1. ChatTypes /\ LineInv /\ StoredInv /\ FlightInv
  BY DEF ChatInv
<1>2. /\ speaking # 0 /\ speaking' = 0 /\ history' = Append(history, speaking)
      /\ Emit(EndOf(speaking)) /\ UNCHANGED <<born, stored, transcript, repair, reading>>
  BY DEF ReplyEnds
<1>3. PICK h : h = line.heard
  OBVIOUS
<1>4. PICK t : t = transcript
  OBVIOUS
<1>5. PICK s : s = speaking
  OBVIOUS
<1>6. /\ s = born /\ s \in 1 .. born /\ born \in Nat /\ s \in Nat /\ s \in Replies /\ born' = born
  BY <1>1, <1>2, <1>5, ChatConstants DEF ChatTypes, Replies
<1>7. /\ Emitted \in Nat /\ Emitted' = Emitted + 1 /\ EndOf(s) = Emitted + 1
  BY <1>2, <1>5, <1>6 DEF Emitted, EndOf
<1>8. /\ line' \in Lines /\ line'.at = line.at /\ line'.heard = h
      /\ line.missing => line'.missing
      /\ onWay' \in Seq(Nat) /\ LineInv' /\ (line.at = "open" => Sent' = Sent)
      /\ \A n \in Nat : n <= Emitted /\ Told(h, n) => Told(h, n)'
      /\ \A n \in Nat : n = Emitted + 1 => Told(h, n)'
  <2>1. Emit(Emitted + 1)
    BY <1>2, <1>5, <1>7
  <2> QED
    BY <1>1, <1>3, <1>6, <1>7, <2>1, EmitFacts
<1>9. /\ TurnInv(t, h) /\ OwnInv(t, h) /\ RowInv(t, h) /\ NextInv(t, h)
      /\ CoverInv(t, h, FALSE) /\ CutInv(t)
      /\ t \in Transcripts /\ h \in Nat /\ h <= Emitted
  BY <1>1, <1>3, <1>4 DEF ChatInv, TranscriptInv, TextInv, ChatTypes, Lines, LineInv
<1>10. /\ history' \in Seq(Replies) /\ Len(history') = Len(history) + 1 /\ Len(history) \in Nat
       /\ \A i \in DOMAIN history : i \in DOMAIN history' /\ history'[i] = history[i]
       /\ \A i \in DOMAIN history' : i \in DOMAIN history \/ history'[i] = s
       /\ DOMAIN history' \subseteq Int
  BY <1>1, <1>2, <1>5, <1>6 DEF ChatTypes
<1>11. Had' = Had /\ stored' = stored
  BY <1>2 DEF Had
<1>12. \A r : Over(r) => Over(r)' /\ r # s
  BY <1>2, <1>5, <1>6 DEF Over
<1>13. Over(s)'
  BY <1>2, <1>5, <1>6 DEF Over
<1>14. \A r : Within(r) /\ r # s => Within(r)'
  BY <1>10, <1>11 DEF Within
<1>15. RowsKept
  BY <1>11 DEF RowsKept
<1>16. (\A r : Passed(r) => Passed(r)') /\ (Lost(t) => Lost(t)')
  BY <1>12, <1>14, <1>15, PassedStays
<1>17. StoredInv'
  BY <1>1, <1>10, <1>11, <1>12, <1>13 DEF StoredInv
<1>18. TurnInv(t, h)'
  BY <1>2, <1>9, <1>11 DEF TurnInv
<1>19. OwnInv(t, h)'
  <2> SUFFICES ASSUME NEW r \in 1 .. born, h = StartOf(r), stored.complete
               PROVE  Owns(t, r) \/ t.dated \/ r \in Had \/ Passed(r)'
    BY <1>2, <1>6, <1>11 DEF OwnInv, Owns
  <2> QED
    BY <1>9, <1>16 DEF OwnInv
<1>20. NextInv(t, h)'
  BY <1>2, <1>8, <1>9 DEF NextInv
<1>21. RowInv(t, h)'
  BY <1>2, <1>6, <1>9, <1>11 DEF RowInv
<1>22. CoverInv(t, h, FALSE)'
  <2>1. \A r \in Had : stored.complete => r \in t.whole \/ t.dated \/ Lost(t)'
    BY <1>9, <1>16 DEF CoverInv
  <2>2. ASSUME NEW i \in DOMAIN history', i > stored.total, stored.complete
        PROVE  \/ history'[i] \in t.whole \/ Told(h, EndOf(history[i]))'
               \/ repair'.due \/ line'.missing \/ t.dated \/ Lost(t)'
    <3>1. CASE history'[i] = s
      <4>1. PICK n \in Nat : n = EndOf(s)
        BY <1>7
      <4>2. Told(h, n)'
        BY <1>7, <1>8, <4>1
      <4> QED
        BY <3>1, <4>1, <4>2 DEF Told, EndOf
    <3>2. CASE i \in DOMAIN history /\ history'[i] = history[i]
      <4>1. \/ history[i] \in t.whole \/ Told(h, EndOf(history[i]))
            \/ repair.due \/ line.missing \/ t.dated \/ Lost(t)
        BY <1>9, <2>2, <3>2 DEF CoverInv
      <4>2. history[i] \in 1 .. born /\ history[i] # speaking
        BY <1>1, <3>2 DEF StoredInv, Over
      <4>3. PICK n \in Nat : n = EndOf(history[i]) /\ n <= Emitted
        BY <1>1, <1>6, <4>2, EmittedFacts, FrameNumbers
      <4>4. Told(h, n) => Told(h, n)'
        BY <1>8, <4>3
      <4>5. Told(h, EndOf(history[i])) => Told(h, EndOf(history[i]))'
        BY <3>2, <4>3, <4>4 DEF Told, EndOf
      <4> QED
        BY <1>2, <1>8, <1>16, <3>2, <4>1, <4>5
    <3> QED
      BY <1>10, <3>1, <3>2
  <2> QED
    BY <1>11, <2>1, <2>2 DEF CoverInv
<1>23. CutInv(t)'
  <2> SUFFICES ASSUME stored.complete, NEW c \in t.cut, ~t.dated, ~repair.due, ~line'.missing
               PROVE  Within(c)'
    BY <1>2, <1>11 DEF CutInv
  <2>1. Within(c)
    BY <1>8, <1>9 DEF CutInv
  <2>2. c # s
    BY <1>5, <1>9 DEF RowInv
  <2> QED
    BY <1>14, <2>1, <2>2
<1>24. TranscriptInv'
  <2>1. TextInv(t, h)'
    BY <1>18, <1>19, <1>21 DEF TextInv
  <2> QED
    BY <1>2, <1>4, <1>8, <1>20, <1>22, <1>23, <2>1, ByNotice
<1>25. \A r : Over(r) /\ Later(r) => Later(r)'
  BY <1>1, <1>2, <1>3, <1>8, LaterStays
<1>26. ASSUME reading.same, reading.at # "off"
       PROVE  Later(s)'
  <2>1. ~t.running
    BY <1>1, <1>4, <1>26 DEF FlightInv, RestInv
  <2>2. s \notin t.cut \/ t.dated
    BY <1>5, <1>9 DEF RowInv
  <2>3. EndOf(s) = h + 1 => Owns(t, s)
    BY <1>5, <1>6, <1>9, <2>1, FrameNumbers DEF OwnInv
  <2>4. PICK n \in Nat : n = EndOf(s)
    BY <1>7
  <2>5. Told(h, n)'
    BY <1>7, <1>8, <2>4
  <2> QED
    BY <1>2, <1>4, <1>8, <2>2, <2>3, <2>4, <2>5 DEF Later, Told, Owns, EndOf
<1>27. ASSUME NEW k \in Int, \A i \in DOMAIN history : i > k => Later(history[i]),
              reading.same, reading.at # "off"
       PROVE  \A i \in DOMAIN history' : i > k => Later(history[i])'
  <2> SUFFICES ASSUME NEW i \in DOMAIN history', i > k
               PROVE  Later(history[i])'
    OBVIOUS
  <2>1. PICK r : r = history'[i]
    OBVIOUS
  <2>2. Later(r)'
    <3>1. CASE r = s
      BY <1>26, <1>27, <3>1
    <3>2. CASE i \in DOMAIN history /\ r = history[i]
      BY <1>1, <1>25, <1>27, <3>2 DEF StoredInv
    <3> QED
      BY <1>10, <2>1, <3>1, <3>2
  <2> QED
    BY <2>1, <2>2
<1>28. FlightInv'
  <2>1. reading' = reading /\ reading.summary \in Int /\ reading.total \in Int /\ transcript' = transcript
    BY <1>1, <1>2 DEF ChatTypes, Flights
  <2>2. ReadInv' /\ RestInv' /\ LengthInv'
    BY <1>1, <1>12, <2>1 DEF FlightInv, ReadInv, RestInv, LengthInv
  <2>3. SummaryInv'
    BY <1>1, <1>27, <2>1 DEF FlightInv, SummaryInv
  <2>4. TotalInv'
    BY <1>1, <1>27, <2>1 DEF FlightInv, TotalInv
  <2> QED
    BY <2>2, <2>3, <2>4, Zenon DEF FlightInv
<1>29. ChatTypes'
  BY <1>1, <1>2, <1>8, <1>10 DEF ChatTypes
<1> QED
  BY <1>8, <1>17, <1>24, <1>28, <1>29 DEF ChatInv

LEMMA RemoveFacts ==
  ASSUME NEW s \in Seq(Replies), NEW i \in DOMAIN s
  PROVE  /\ RemoveAt(s, i) \in Seq(Replies)
         /\ \A j \in DOMAIN RemoveAt(s, i) :
              \E k \in DOMAIN s : k >= j /\ j \in Int /\ RemoveAt(s, i)[j] = s[k]
<1> DEFINE a == SubSeq(s, 1, i - 1)
           b == SubSeq(s, i + 1, Len(s))
           u == RemoveAt(s, i)
<1>1. Len(s) \in Nat /\ i \in 1 .. Len(s) /\ DOMAIN s = 1 .. Len(s)
  OBVIOUS
<1>2. /\ a \in Seq(Replies) /\ Len(a) = i - 1
      /\ \A j \in 1 .. i - 1 : a[j] = s[j]
  BY <1>1
<1>3. /\ b \in Seq(Replies) /\ Len(b) = Len(s) - i
      /\ \A j \in 1 .. Len(s) - i : b[j] = s[i + j]
  BY <1>1
<1>4. u = a \o b
  BY DEF RemoveAt
<1> HIDE DEF a, b, u
<1>5. /\ u \in Seq(Replies) /\ DOMAIN u = 1 .. Len(s) - 1
      /\ \A j \in 1 .. Len(s) - 1 : u[j] = IF j <= i - 1 THEN a[j] ELSE b[j - (i - 1)]
  <2>1. /\ u \in Seq(Replies) /\ Len(u) = Len(a) + Len(b)
        /\ \A j \in 1 .. Len(a) + Len(b) : u[j] = IF j <= Len(a) THEN a[j] ELSE b[j - Len(a)]
    BY <1>2, <1>3, <1>4, ConcatProperties
  <2>2. Len(a) + Len(b) = Len(s) - 1 /\ Len(a) = i - 1
    BY <1>1, <1>2, <1>3
  <2> QED
    BY <2>1, <2>2
<1>6. ASSUME NEW j \in DOMAIN u
      PROVE  \E k \in DOMAIN s : k >= j /\ j \in Int /\ u[j] = s[k]
  <2>1. CASE j <= i - 1
    <3>1. j \in 1 .. i - 1 /\ j \in DOMAIN s /\ j \in Int
      BY <1>1, <1>5, <2>1
    <3>2. u[j] = s[j]
      BY <1>1, <1>2, <1>5, <3>1
    <3> QED
      BY <3>1, <3>2
  <2>2. CASE j > i - 1
    <3>1. u[j] = s[j + 1]
      <4>1. j \in 1 .. Len(s) - 1 /\ ~(j <= i - 1) /\ j - (i - 1) \in 1 .. Len(s) - i
            /\ i + (j - (i - 1)) = j + 1
        BY <1>1, <1>5, <2>2
      <4>2. u[j] = b[j - (i - 1)]
        BY <1>5, <4>1
      <4>3. b[j - (i - 1)] = s[i + (j - (i - 1))]
        BY <1>3, <4>1
      <4> QED
        BY <4>1, <4>2, <4>3
    <3> QED
      BY <1>1, <1>5, <2>2, <3>1
  <2> QED
    BY <1>1, <1>5, <2>1, <2>2
<1> QED
  BY <1>5, <1>6 DEF u

\* What moves towards the start of the history was expected there or before.
LEMMA RemovedStep ==
  ASSUME ChatInv, Removed
  PROVE  ChatInv'
<1>1. ChatTypes /\ LineInv /\ StoredInv /\ FlightInv
  BY DEF ChatInv
<1>2. /\ UNCHANGED <<speaking, born, onWay, line, stored, transcript, repair, reading>>
      /\ \E i \in DOMAIN history : history' = RemoveAt(history, i)
  BY DEF Removed
<1>3. /\ history' \in Seq(Replies)
      /\ \A j \in DOMAIN history' :
           \E k \in DOMAIN history : k >= j /\ j \in Int /\ history'[j] = history[k]
  BY <1>1, <1>2, RemoveFacts DEF ChatTypes
<1>4. DOMAIN history \subseteq Int /\ stored.total \in Int
  BY <1>1 DEF ChatTypes, StoredRows
<1>5. PICK h : h = line.heard
  OBVIOUS
<1>6. PICK t : t = transcript
  OBVIOUS
<1>7. Had' = Had /\ stored' = stored /\ Emitted' = Emitted /\ Sent' = Sent /\ RowsKept
      /\ \A r : Over(r)' <=> Over(r)
  BY <1>2 DEF Had, Emitted, Sent, RowsKept, Over
<1>8. \A r : Within(r) => Within(r)'
  BY <1>3, <1>4, <1>7 DEF Within
<1>9. (\A r : Passed(r) => Passed(r)') /\ (Lost(t) => Lost(t)')
  BY <1>7, <1>8, PassedStays
<1>10. /\ TurnInv(t, h) /\ OwnInv(t, h) /\ RowInv(t, h) /\ NextInv(t, h)
       /\ CoverInv(t, h, FALSE) /\ CutInv(t)
  BY <1>5, <1>6 DEF ChatInv, TranscriptInv, TextInv
<1>11. LineInv'
  BY <1>1, <1>2, <1>7 DEF LineInv
<1>12. StoredInv'
  BY <1>1, <1>3, <1>7 DEF StoredInv
<1>13. TextInv(t, h)'
  <2>1. TurnInv(t, h)' /\ RowInv(t, h)'
    BY <1>2, <1>7, <1>10 DEF TurnInv, RowInv
  <2>2. OwnInv(t, h)'
    BY <1>2, <1>7, <1>9, <1>10 DEF OwnInv, Owns
  <2> QED
    BY <2>1, <2>2 DEF TextInv
<1>14. NextInv(t, h)'
  BY <1>2, <1>7, <1>10 DEF NextInv
<1>15. \A n : Told(h, n)' <=> Told(h, n)
  BY <1>2, <1>7 DEF Told
<1>16. CoverInv(t, h, FALSE)'
  <2>1. \A r \in Had : stored.complete => r \in t.whole \/ t.dated \/ Lost(t)'
    BY <1>9, <1>10 DEF CoverInv
  <2>2. ASSUME NEW j \in DOMAIN history', j > stored.total, stored.complete
        PROVE  \/ history'[j] \in t.whole \/ Told(h, EndOf(history[j]))'
               \/ repair'.due \/ line'.missing \/ t.dated \/ Lost(t)'
    <3>1. PICK k \in DOMAIN history : k >= j /\ j \in Int /\ history'[j] = history[k]
      BY <1>3
    <3>2. k > stored.total
      BY <1>4, <2>2, <3>1
    <3>3. \/ history[k] \in t.whole \/ Told(h, EndOf(history[k]))
          \/ repair.due \/ line.missing \/ t.dated \/ Lost(t)
      BY <1>10, <2>2, <3>2 DEF CoverInv
    <3>4. Told(h, EndOf(history[k])) => Told(h, EndOf(history[j]))'
      BY <1>2, <1>7, <3>1 DEF Told, EndOf
    <3> QED
      BY <1>2, <1>9, <3>1, <3>3, <3>4
  <2> QED
    BY <1>7, <2>1, <2>2 DEF CoverInv
<1>17. CutInv(t)'
  BY <1>2, <1>8, <1>10 DEF CutInv
<1>18. TranscriptInv'
  BY <1>2, <1>5, <1>6, <1>13, <1>14, <1>16, <1>17, ByNotice
<1>19. \A r : Later(r)' <=> Later(r)
  BY <1>2, <1>7 DEF Later, Told, Owns, EndOf
<1>20. ASSUME NEW m \in Int, \A i \in DOMAIN history : i > m => Later(history[i])
       PROVE  \A j \in DOMAIN history' : j > m => Later(history[j])'
  <2> SUFFICES ASSUME NEW j \in DOMAIN history', j > m
               PROVE  Later(history[j])'
    OBVIOUS
  <2>1. PICK k \in DOMAIN history : k >= j /\ j \in Int /\ history'[j] = history[k]
    BY <1>3
  <2>2. PICK r : r = history[k]
    OBVIOUS
  <2>3. Later(r)
    BY <1>4, <1>20, <2>1, <2>2
  <2>4. Later(r)'
    BY <1>19, <2>3
  <2> QED
    BY <2>1, <2>2, <2>4
<1>21. FlightInv'
  <2>1. reading' = reading /\ reading.summary \in Int /\ reading.total \in Int /\ transcript' = transcript
    BY <1>1, <1>2 DEF ChatTypes, Flights
  <2>2. ReadInv' /\ RestInv' /\ LengthInv'
    BY <1>1, <1>7, <2>1 DEF FlightInv, ReadInv, RestInv, LengthInv
  <2>3. SummaryInv'
    BY <1>1, <1>20, <2>1 DEF FlightInv, SummaryInv
  <2>4. TotalInv'
    BY <1>1, <1>20, <2>1 DEF FlightInv, TotalInv
  <2> QED
    BY <2>2, <2>3, <2>4, Zenon DEF FlightInv
<1>22. ChatTypes'
  BY <1>1, <1>2, <1>3 DEF ChatTypes
<1> QED
  BY <1>11, <1>12, <1>18, <1>21, <1>22 DEF ChatInv

-----------------------------------------------------------------------------
(* The invariant, and what follows from it                                 *)

LEMMA ChatInitInv ==
  ASSUME ChatInit
  PROVE  ChatInv
<1>1. /\ born = Before /\ born \in Nat /\ born <= ChatReplies /\ speaking = 0 /\ onWay = <<>>
      /\ ChatReplies \in Nat
  BY ChatConstants DEF ChatInit
<1>2. /\ history \in Seq(Replies) /\ DOMAIN history = 1 .. Before
      /\ \A i \in DOMAIN history : history[i] = i
  <2>1. /\ history = [i \in 1 .. Before |-> i] /\ \A i \in 1 .. Before : i \in Replies
    BY <1>1, ChatConstants DEF ChatInit, Replies
  <2> QED
    BY <1>1, <2>1
<1>3. Emitted = 2 * Before /\ Sent = 2 * Before /\ Len(onWay) = 0 /\ Emitted \in Nat
  BY <1>1 DEF Emitted, Sent
<1>4. /\ line.at = "open" /\ line.heard = 2 * Before /\ ~line.missing /\ line.running = 0
      /\ line \in Lines
  BY <1>1 DEF ChatInit, Lines
<1>5. stored \in StoredRows /\ Had = {} /\ ~stored.complete
  <2>1. <<>> \in Places /\ DOMAIN <<>> = {}
    <3>1. <<>> \in [{} -> Int] /\ {} \in SUBSET Replies
      OBVIOUS
    <3> QED
      BY <3>1 DEF Places
  <2> QED
    BY <2>1 DEF ChatInit, StoredRows, Had
<1>6. /\ transcript \in Transcripts /\ transcript.whole = {} /\ transcript.twice = {}
      /\ transcript.cut = {} /\ transcript.head = "ended" /\ transcript.of = 0
      /\ ~transcript.running /\ ~transcript.dated
  BY <1>1 DEF ChatInit, Transcripts
<1>7. reading = NoFlight /\ NoFlight \in Flights /\ NoFlight.at = "off"
      /\ NoFlight.answer = <<>> /\ NoFlight.pages = <<>> /\ repair \in Jobs
  BY DEF ChatInit, NoFlight, Flights, Jobs
<1>8. ChatTypes
  BY <1>1, <1>2, <1>4, <1>5, <1>6, <1>7 DEF ChatTypes
<1>9. LineInv
  BY <1>1, <1>3, <1>4 DEF LineInv
<1>10. StoredInv
  BY <1>1, <1>2, <1>5 DEF StoredInv, Over
<1>11. TranscriptInv
  <2>1. TextInv(transcript, line.heard)
    BY <1>1, <1>5, <1>6 DEF TextInv, TurnInv, OwnInv, RowInv, Owns
  <2>2. NextInv(transcript, line.heard)
    BY <1>6 DEF NextInv
  <2> QED
    BY <1>5, <2>1, <2>2 DEF TranscriptInv, CoverInv, CutInv
<1>12. FlightInv
  BY <1>7 DEF FlightInv, ReadInv, RestInv, SummaryInv, TotalInv, LengthInv
<1> QED
  BY <1>8, <1>9, <1>10, <1>11, <1>12 DEF ChatInv

LEMMA ReadingFailsStep ==
  ASSUME ChatInv, ReadingFails
  PROVE  ChatInv'
<1>1. JobFails /\ UNCHANGED <<stored, transcript, hermesVars, onWay, line>>
  BY DEF ReadingFails
<1> QED
  BY <1>1, FailedSteps

LEMMA ChatStutters ==
  ASSUME ChatInv, UNCHANGED chatVars
  PROVE  ChatInv'
<1>1. UNCHANGED <<hermesVars, onWay, line, transcript, stored, repair, reading>>
  BY DEF chatVars, hermesVars
<1>2. ChatTypes'
  BY <1>1 DEF ChatInv, ChatTypes, hermesVars
<1>3. FlightInv'
  BY <1>1, FlightStays DEF Told, Sent, Emitted, Over, hermesVars
<1> QED
  BY <1>1, <1>2, <1>3, Unnoticed DEF ChatInv, RowsKept

\* What the broker has heard, what has been read and what the transcript shows fit together
\* in every state, whatever comes while the history is read, and however often the
\* connection and the process are lost (chatCache.ts, recordEvent, recover, reconcile).
THEOREM ChatInductive == ChatSpec => []ChatInv
<1>1. ChatInit => ChatInv
  BY ChatInitInv
<1>2. ChatInv /\ [ChatNext]_chatVars => ChatInv'
  <2> SUFFICES ASSUME ChatInv, [ChatNext]_chatVars
               PROVE  ChatInv'
    OBVIOUS
  <2>1. CASE TakeFrame
    BY <2>1, TakeFrameStep
  <2>2. CASE Retitle \/ Look \/ Refresh \/ Invalidate
    BY <2>2, RequestSteps
  <2>3. CASE Peer \/ Prompt
    BY <2>3, BeginSteps
  <2>4. CASE ReplyEnds
    BY <2>4, ReplyEndsStep
  <2>5. CASE Removed
    BY <2>5, RemovedStep
  <2>6. CASE LineLost \/ PromptLost
    BY <2>6, LostSteps
  <2>7. CASE RecoverLine
    BY <2>7, ResumeAnsweredStep, NotReplayedStep, FramesReplayedStep DEF RecoverLine
  <2>8. CASE ChatRestart
    BY <2>8, ChatRestartStep
  <2>9. CASE OpenSession
    BY <2>9, OpenSessionStep
  <2>10. CASE ReconcileStep
    BY <2>10, StartFlightStep, AnswerSteps, TakeDetailStep, TakePageStep DEF ReconcileStep
  <2>11. CASE ReadingFails
    BY <2>11, ReadingFailsStep
  <2>12. CASE UNCHANGED chatVars
    BY <2>12, ChatStutters
  <2> QED
    BY <2>1, <2>2, <2>3, <2>4, <2>5, <2>6, <2>7, <2>8, <2>9, <2>10, <2>11, <2>12 DEF ChatNext
<1> QED
  BY <1>1, <1>2, PTL DEF ChatSpec

\* Nothing is under way: the transcript shows the history.
LEMMA QuietHistory ==
  ASSUME ChatInv
  PROVE  HistoryTrue
<1> SUFFICES ASSUME Quiet, ~Drifted, stored.complete, stored.state = "current"
             PROVE  /\ transcript.whole = ToSet(history)
                    /\ transcript.twice = {} /\ transcript.cut = {}
  BY DEF HistoryTrue
<1>1. ChatTypes /\ LineInv /\ StoredInv
  BY DEF ChatInv
<1>2. PICK t : t = transcript
  OBVIOUS
<1>3. PICK h : h = line.heard
  OBVIOUS
<1>4. /\ RowInv(t, h) /\ CoverInv(t, h, FALSE) /\ CutInv(t)
  BY <1>2, <1>3 DEF ChatInv, TranscriptInv, TextInv
<1>5. /\ speaking = 0 /\ line.at = "open" /\ ~line.missing /\ ~repair.due /\ ~t.dated
      /\ onWay = <<>>
  BY <1>2 DEF Quiet
<1>6. /\ Emitted \in Nat /\ Sent = Emitted /\ born \in Nat /\ h \in Nat
      /\ stored.total \in Int /\ DOMAIN history \subseteq Nat
      /\ \A i \in DOMAIN history : i >= 1
  BY <1>1, <1>3, <1>5, EmittedFacts DEF Sent, ChatTypes, Lines, StoredRows
<1>7. \A i \in DOMAIN history : ~Told(h, EndOf(history[i]))
  <2> SUFFICES ASSUME NEW i \in DOMAIN history
               PROVE  ~Told(h, EndOf(history[i]))
    OBVIOUS
  <2>1. history[i] \in 1 .. born /\ history[i] # speaking
    BY <1>1 DEF StoredInv, Over
  <2>2. EndOf(history[i]) \in Nat /\ EndOf(history[i]) <= Emitted
    BY <1>1, <1>6, <2>1, EmittedFacts, FrameNumbers
  <2> QED
    BY <1>5, <1>6, <2>2 DEF Told
<1>8. \A r \in Had : stored.rows[r] + 1 \in DOMAIN history /\ history[stored.rows[r] + 1] = r
  BY DEF Drifted, Had
<1>9. ASSUME NEW i \in DOMAIN history, i <= stored.total
      PROVE  history[i] \in Had
  <2>1. stored.total > 0 /\ i - 1 \in 0 .. stored.total - 1 /\ i \in Nat
    BY <1>6, <1>9
  <2>2. {stored.rows[r] : r \in DOMAIN stored.rows} = 0 .. stored.total - 1
    BY <1>1, <1>6, <2>1 DEF StoredInv, Covers
  <2>3. PICK r \in Had : stored.rows[r] = i - 1
    BY <2>1, <2>2 DEF Had
  <2>4. stored.rows[r] + 1 = i
    BY <2>1, <2>3
  <2> QED
    BY <1>8, <2>4
<1>10. t.whole \cup t.cut \subseteq ToSet(history)
  <2>1. t.whole \cup t.cut \subseteq ToSet(history) \cup {0}
    BY <1>2, <1>5 DEF Drifted
  <2>2. 0 \notin t.whole \cup t.cut
    BY <1>4, <1>6 DEF RowInv
  <2> QED
    BY <2>1, <2>2
<1>11. ASSUME NEW r \in ToSet(history), Within(r)
       PROVE  r \in Had
  <2>1. PICK i \in DOMAIN history : history[i] = r
    BY DEF ToSet
  <2> QED
    BY <1>9, <1>11, <2>1 DEF Within
<1>12. ~Lost(t)
  BY <1>10, <1>11 DEF Lost, Passed
<1>13. ASSUME NEW r \in ToSet(history)
       PROVE  r \in t.whole
  <2>1. PICK i \in DOMAIN history : history[i] = r
    BY DEF ToSet
  <2>2. CASE i <= stored.total
    BY <1>4, <1>5, <1>9, <1>12, <2>1, <2>2 DEF CoverInv
  <2>3. CASE i > stored.total
    BY <1>4, <1>5, <1>7, <1>12, <2>1, <2>3 DEF CoverInv
  <2> QED
    BY <1>6, <2>2, <2>3
<1>14. t.twice = {}
  BY <1>4, <1>5 DEF RowInv
<1>15. t.cut = {}
  BY <1>4, <1>5, <1>10, <1>11 DEF RowInv, CutInv
<1> QED
  BY <1>2, <1>10, <1>13, <1>14, <1>15

\* Whatever comes while the history is read and whatever gets lost: once nothing is under
\* way, a conversation that counts as current shows the replies of Hermes, each once
\* and whole (chatCache.ts:519).
THEOREM HistoryHolds == ChatSpec => []HistoryTrue
<1>1. ChatInv => HistoryTrue
  BY QuietHistory
<1> QED
  BY <1>1, ChatInductive, PTL

-----------------------------------------------------------------------------
(* Types and bounds                                                        *)

\* Hermes stores each reply once.
HistoryOrder ==
  /\ Before <= born /\ Len(history) + (IF speaking = 0 THEN 0 ELSE 1) <= born
  /\ \A i, j \in DOMAIN history : history[i] = history[j] => i = j

RowBound == stored.total \in -1 .. ChatReplies /\ \A r \in Had : stored.rows[r] >= 0

Fits(p, total) == p.offset + Len(p.messages) <= total

PageBound ==
  /\ reading.summary <= ChatReplies /\ reading.total <= ChatReplies
  /\ reading.offset + Len(reading.answer) <= ChatReplies
  /\ \A i \in DOMAIN reading.pages : Fits(reading.pages[i], reading.offset)

CountBound == upsets \in 0 .. MaxUpsets /\ requests \in 0 .. MaxRequests

BoundInv == HistoryOrder /\ RowBound /\ PageBound /\ CountBound

LEMMA HistoryLength ==
  ASSUME ChatTypes, HistoryOrder
  PROVE  Len(history) \in Nat /\ Len(history) <= ChatReplies
  BY ChatConstants DEF ChatTypes, HistoryOrder

LEMMA RemovedPlaces ==
  ASSUME NEW s \in Seq(Replies), NEW i \in DOMAIN s
  PROVE  /\ RemoveAt(s, i) \in Seq(Replies) /\ Len(RemoveAt(s, i)) = Len(s) - 1
         /\ \A j \in 1 .. Len(s) - 1 : RemoveAt(s, i)[j] = s[IF j < i THEN j ELSE j + 1]
<1> DEFINE a == SubSeq(s, 1, i - 1)
           b == SubSeq(s, i + 1, Len(s))
<1>1. Len(s) \in Nat /\ i \in 1 .. Len(s) /\ DOMAIN s = 1 .. Len(s)
  OBVIOUS
<1>2. /\ a \in Seq(Replies) /\ Len(a) = i - 1
      /\ \A j \in 1 .. i - 1 : a[j] = s[j]
  BY <1>1
<1>3. /\ b \in Seq(Replies) /\ Len(b) = Len(s) - i
      /\ \A j \in 1 .. Len(s) - i : b[j] = s[i + j]
  BY <1>1
<1>4. RemoveAt(s, i) = a \o b
  BY DEF RemoveAt
<1> HIDE DEF a, b
<1>5. /\ a \o b \in Seq(Replies) /\ Len(a \o b) = Len(a) + Len(b)
      /\ \A j \in 1 .. Len(a) + Len(b) : (a \o b)[j] = IF j <= Len(a) THEN a[j] ELSE b[j - Len(a)]
  BY <1>2, <1>3, ConcatProperties
<1>6. ASSUME NEW j \in 1 .. Len(s) - 1
      PROVE  (a \o b)[j] = s[IF j < i THEN j ELSE j + 1]
  <2>1. CASE j < i
    <3>1. j \in 1 .. i - 1 /\ j <= Len(a) /\ j \in 1 .. Len(a) + Len(b)
      BY <1>1, <1>2, <1>3, <2>1
    <3>2. (a \o b)[j] = a[j]
      BY <1>5, <3>1
    <3> QED
      BY <1>2, <2>1, <3>1, <3>2
  <2>2. CASE ~(j < i)
    <3>1. /\ ~(j <= Len(a)) /\ j \in 1 .. Len(a) + Len(b) /\ j - Len(a) \in 1 .. Len(s) - i
          /\ i + (j - Len(a)) = j + 1
      BY <1>1, <1>2, <1>3, <2>2
    <3>2. (a \o b)[j] = b[j - Len(a)]
      BY <1>5, <3>1
    <3>3. b[j - Len(a)] = s[i + (j - Len(a))]
      BY <1>3, <3>1
    <3> QED
      BY <2>2, <3>1, <3>2, <3>3
  <2> QED
    BY <2>1, <2>2
<1> QED
  BY <1>1, <1>2, <1>3, <1>4, <1>5, <1>6

LEMMA OrderSteps ==
  ASSUME ChatInv, HistoryOrder,
         \/ UNCHANGED hermesVars
         \/ BeginReply /\ UNCHANGED history
         \/ ReplyEnds \/ Removed
  PROVE  HistoryOrder'
<1>1. /\ history \in Seq(Replies) /\ DOMAIN history = 1 .. Len(history) /\ Len(history) \in Nat
      /\ born \in Nat /\ Before \in Nat /\ speaking \in Nat
  BY ChatConstants DEF ChatInv, ChatTypes
<1>2. CASE UNCHANGED hermesVars
  BY <1>2 DEF HistoryOrder, hermesVars
<1>3. CASE BeginReply /\ UNCHANGED history
  <2>1. speaking = 0 /\ born' = born + 1
    BY <1>3 DEF BeginReply
  <2> QED
    BY <1>1, <1>3, <2>1 DEF HistoryOrder
<1>4. CASE ReplyEnds
  <2>1. /\ speaking # 0 /\ speaking' = 0 /\ history' = Append(history, speaking) /\ born' = born
    BY <1>4 DEF ReplyEnds
  <2>2. speaking \in Replies
    <3>1. speaking \in {0, born} /\ born \in 0 .. ChatReplies /\ ChatReplies \in Nat
      BY ChatConstants DEF ChatInv, ChatTypes
    <3> QED
      BY <2>1, <3>1 DEF Replies
  <2>3. /\ Len(history') = Len(history) + 1 /\ DOMAIN history' = 1 .. Len(history) + 1
        /\ \A i \in 1 .. Len(history) : history'[i] = history[i]
        /\ history'[Len(history) + 1] = speaking
    <3>1. PICK h : h = history
      OBVIOUS
    <3>2. h \in Seq(Replies) /\ history' = Append(h, speaking)
      BY <1>1, <2>1, <3>1
    <3>3. /\ Append(h, speaking) \in Seq(Replies) /\ Len(Append(h, speaking)) = Len(h) + 1
          /\ \A i \in 1 .. Len(h) : Append(h, speaking)[i] = h[i]
          /\ Append(h, speaking)[Len(h) + 1] = speaking
      BY <2>2, <3>2, AppendProperties
    <3>4. DOMAIN Append(h, speaking) = 1 .. Len(h) + 1
      BY <3>3
    <3> QED
      BY <3>1, <3>2, <3>3, <3>4
  <2>4. \A i \in DOMAIN history : history[i] # speaking
    BY DEF ChatInv, StoredInv, Over
  <2>5. ASSUME NEW i \in DOMAIN history', NEW j \in DOMAIN history', history'[i] = history'[j]
        PROVE  i = j
    <3>1. CASE i \in DOMAIN history /\ j \in DOMAIN history
      BY <1>1, <2>3, <2>5, <3>1 DEF HistoryOrder
    <3>2. CASE i = Len(history) + 1 \/ j = Len(history) + 1
      BY <1>1, <2>3, <2>4, <2>5, <3>2
    <3> QED
      BY <1>1, <2>3, <3>1, <3>2
  <2>6. Len(history') <= born'
    BY <1>1, <2>1, <2>3 DEF HistoryOrder
  <2>7. Before <= born'
    BY <2>1 DEF HistoryOrder
  <2>8. Len(history') + (IF speaking' = 0 THEN 0 ELSE 1) <= born'
    <3>1. PICK n : n = Len(history')
      OBVIOUS
    <3>2. n \in Nat /\ n <= born'
      BY <1>1, <2>3, <2>6, <3>1
    <3>3. n + 0 <= born' /\ n + (IF speaking' = 0 THEN 0 ELSE 1) = n + 0
      BY <2>1, <3>2
    <3> QED
      BY <3>1, <3>3
  <2> QED
    BY <2>5, <2>7, <2>8 DEF HistoryOrder
<1>5. CASE Removed
  <2>1. PICK i \in DOMAIN history : history' = RemoveAt(history, i)
    BY <1>5 DEF Removed
  <2>2. speaking' = speaking /\ born' = born /\ speaking = 0
    BY <1>5 DEF Removed
  <2>3. /\ history' \in Seq(Replies) /\ Len(history') = Len(history) - 1
        /\ \A j \in 1 .. Len(history) - 1 : history'[j] = history[IF j < i THEN j ELSE j + 1]
    BY <1>1, <2>1, RemovedPlaces
  <2>4. DOMAIN history' = 1 .. Len(history) - 1
    BY <1>1, <2>3
  <2>5. ASSUME NEW j \in DOMAIN history', NEW k \in DOMAIN history', history'[j] = history'[k]
        PROVE  j = k
    <3>1. \E p \in DOMAIN history : /\ history'[j] = history[p]
                                    /\ p = IF j < i THEN j ELSE j + 1
      BY <1>1, <2>3, <2>4
    <3>2. PICK p \in DOMAIN history : /\ history'[j] = history[p]
                                      /\ p = IF j < i THEN j ELSE j + 1
      BY <3>1
    <3>3. \E q \in DOMAIN history : /\ history'[k] = history[q]
                                    /\ q = IF k < i THEN k ELSE k + 1
      BY <1>1, <2>3, <2>4
    <3>4. PICK q \in DOMAIN history : /\ history'[k] = history[q]
                                      /\ q = IF k < i THEN k ELSE k + 1
      BY <3>3
    <3>5. p = q
      BY <2>5, <3>2, <3>4 DEF HistoryOrder
    <3> QED
      BY <1>1, <2>4, <3>2, <3>4, <3>5
  <2>6. Len(history') <= born
    BY <1>1, <2>2, <2>3 DEF HistoryOrder
  <2>7. Before <= born
    BY DEF HistoryOrder
  <2> QED
    BY <1>1, <2>2, <2>3, <2>5, <2>6, <2>7 DEF HistoryOrder
<1> QED
  BY <1>2, <1>3, <1>4, <1>5

\* Steps beside the pages: what was read is kept, marked or forgotten.
LEMMA BesidePages ==
  ASSUME ChatInv, PageBound, UNCHANGED reading \/ Outdated \/ reading' = NoFlight
  PROVE  PageBound'
<1>1. CASE UNCHANGED reading
  BY <1>1 DEF PageBound, Fits
<1>2. CASE Outdated
  <2>1. reading \in Flights
    BY DEF ChatInv, ChatTypes
  <2>2. /\ reading'.summary = reading.summary /\ reading'.total = reading.total
        /\ reading'.offset = reading.offset /\ reading'.answer = reading.answer
        /\ reading'.pages = reading.pages
    BY <1>2, <2>1 DEF Outdated, Flights
  <2> QED
    BY <2>2 DEF PageBound, Fits
<1>3. CASE reading' = NoFlight
  <2>1. /\ reading'.summary = 0 /\ reading'.total = 0 /\ reading'.offset = 0
        /\ reading'.answer = <<>> /\ reading'.pages = <<>>
    BY <1>3 DEF NoFlight
  <2> QED
    BY <2>1, ChatConstants DEF PageBound
<1> QED
  BY <1>1, <1>2, <1>3

LEMMA BesideRows ==
  ASSUME RowBound, RowsKept
  PROVE  RowBound'
  BY DEF RowBound, RowsKept, Had

LEMMA AnswerBounds ==
  ASSUME ChatInv, HistoryOrder, PageBound, StartFlight \/ AnswerDetail \/ AnswerPage
  PROVE  PageBound'
<1>1. ChatTypes /\ reading \in Flights
  BY DEF ChatInv, ChatTypes
<1>2. Len(history) \in Nat /\ Len(history) <= ChatReplies /\ ChatReplies \in Nat
  BY <1>1, HistoryLength, ChatConstants
<1>3. CASE StartFlight
  <2>1. /\ reading'.summary = 0 /\ reading'.total = 0 /\ reading'.offset = 0
        /\ reading'.answer = <<>> /\ reading'.pages = <<>>
    BY <1>3 DEF StartFlight, NoFlight
  <2> QED
    BY <1>2, <2>1 DEF PageBound
<1>4. CASE AnswerDetail
  <2>1. /\ reading'.summary = Len(history) /\ reading'.total = reading.total
        /\ reading'.offset = reading.offset /\ reading'.answer = reading.answer
        /\ reading'.pages = reading.pages
    BY <1>1, <1>4 DEF AnswerDetail, Flights
  <2> QED
    BY <1>2, <2>1 DEF PageBound, Fits
<1>5. CASE AnswerPage
  <2>1. /\ reading'.summary = reading.summary /\ reading'.total = Len(history)
        /\ reading'.offset = reading.offset /\ reading'.answer = PageAt(reading.offset)
        /\ reading'.pages = reading.pages
    BY <1>1, <1>5 DEF AnswerPage, Flights
  <2>2. reading.offset \in Nat /\ Len(reading.answer) \in Nat
    BY <1>1 DEF Flights
  <2>3. /\ PageAt(reading.offset) \in Seq(Replies)
        /\ reading.offset + Len(PageAt(reading.offset))
             <= IF reading.offset > Len(history) THEN reading.offset ELSE Len(history)
    BY <1>1, <2>2, PageFacts
  <2>4. reading.offset <= ChatReplies
    BY <1>2, <2>2 DEF PageBound
  <2>5. Len(PageAt(reading.offset)) \in Nat
    BY <2>3
  <2>6. reading.offset + Len(PageAt(reading.offset)) <= ChatReplies
    BY <1>2, <2>2, <2>3, <2>4, <2>5
  <2> QED
    BY <1>2, <2>1, <2>6 DEF PageBound, Fits
<1> QED
  BY <1>3, <1>4, <1>5

\* Nothing is placed before the start of the history.
LEMMA PlacedInside ==
  ASSUME NEW p \in Pages, NEW r, r \in ToSet(p.messages), NEW total \in Int, Fits(p, total)
  PROVE  PlaceIn(p, r, total) >= 0
<1>1. \E i \in DOMAIN p.messages : p.messages[i] = r
  BY DEF ToSet
<1> DEFINE k == CHOOSE i \in DOMAIN p.messages : p.messages[i] = r
<1>2. k \in DOMAIN p.messages
  BY <1>1
<1> HIDE DEF k
<1>3. p.messages \in Seq(Replies) /\ p.offset \in Nat
  BY DEF Pages
<1>4. k \in Int /\ Len(p.messages) \in Int /\ 1 <= k
  BY <1>2, <1>3
<1>5. PlaceIn(p, r, total) = total - p.offset - Len(p.messages) + k - 1
  BY <1>2 DEF PlaceIn, Positions, k
<1> QED
  BY <1>3, <1>4, <1>5 DEF Fits

LEMMA NewRowsInside ==
  ASSUME ChatTypes, RowBound, NEW pages \in Seq(Pages), NEW total \in Int,
         \A i \in DOMAIN pages : Fits(pages[i], total),
         NEW r \in DOMAIN NewRows(pages, total)
  PROVE  NewRows(pages, total)[r] >= 0
<1> DEFINE old == IF reading.force THEN <<>> ELSE Cleared(stored.rows, pages, total)
           Holding(q) == {i \in DOMAIN pages : q \in ToSet(pages[i].messages)}
           read == {q \in Replies : Holding(q) # {}}
           Latest(q) == CHOOSE i \in Holding(q) : \A j \in Holding(q) : j <= i
           rows == [q \in DOMAIN old \cup read |->
                     IF q \in read THEN PlaceIn(pages[Latest(q)], q, total) ELSE old[q]]
<1>1. NewRows(pages, total) = rows
  BY DEF NewRows
<1>2. \A q \in DOMAIN old : old[q] >= 0
  <2>1. CASE reading.force
    <3>1. old = <<>>
      BY <2>1
    <3> HIDE DEF old
    <3> QED
      BY <3>1
  <2>2. CASE ~reading.force
    <3>1. PICK gone : old = Restrict(stored.rows, Had \ gone)
      BY <2>2 DEF Cleared, Had
    <3>2. old = [q \in Had \ gone |-> stored.rows[q]]
      BY <3>1 DEF Restrict
    <3> HIDE DEF old
    <3> QED
      BY <3>2 DEF RowBound
  <2> QED
    BY <2>1, <2>2
<1>3. r \in DOMAIN old \cup read
  BY <1>1
<1>4. CASE r \in read
  <2>1. Holding(r) # {} /\ Holding(r) \in SUBSET (1 .. Len(pages)) /\ Len(pages) \in Nat
    BY <1>4
  <2>2. \E i \in Holding(r) : \A j \in Holding(r) : j <= i
    <3> HIDE DEF Holding
    <3> QED
      BY <2>1, LastOf
  <2>3. Latest(r) \in Holding(r)
    <3> HIDE DEF Holding
    <3> QED
      BY <2>2
  <2> DEFINE k == Latest(r)
  <2>4. rows[r] = PlaceIn(pages[k], r, total)
    BY <1>3, <1>4
  <2> HIDE DEF Latest
  <2>5. k \in DOMAIN pages /\ r \in ToSet(pages[k].messages) /\ pages[k] \in Pages
    BY <2>3
  <2> HIDE DEF k
  <2>6. PlaceIn(pages[k], r, total) >= 0
    BY <2>5, PlacedInside
  <2> QED
    BY <1>1, <2>4, <2>6
<1>5. CASE r \notin read
  <2>1. rows[r] = old[r] /\ r \in DOMAIN old
    BY <1>3, <1>5
  <2> HIDE DEF rows, old
  <2> QED
    BY <1>1, <1>2, <2>1
<1> QED
  BY <1>4, <1>5

LEMMA TakePageBounds ==
  ASSUME ChatInv, BoundInv, TakePage
  PROVE  RowBound' /\ PageBound'
<1> DEFINE pages == Append(reading.pages, PageNow)
           read == reading.offset + Len(reading.answer)
           total == IF Overlap THEN Total ELSE read
<1>1. ChatTypes /\ RowBound /\ PageBound
  BY DEF ChatInv, BoundInv
<1>2. /\ reading.offset \in Nat /\ reading.answer \in Seq(Replies) /\ reading.pages \in Seq(Pages)
      /\ reading.total \in Nat /\ reading.summary \in Nat /\ Len(reading.answer) \in Nat
      /\ ChatReplies \in Nat
  BY <1>1, ChatConstants DEF ChatTypes, Flights
<1>3. PageNow \in Pages /\ PageNow.messages = reading.answer /\ PageNow.offset = reading.offset
  BY <1>2 DEF PageNow, Pages
<1>4. pages \in Seq(Pages)
  BY <1>2, <1>3
<1>5. read \in Nat /\ read <= ChatReplies /\ Total \in Nat /\ Total >= read /\ Total <= ChatReplies
  BY <1>1, <1>2 DEF Total, PageBound
<1>6. \A i \in DOMAIN pages : Fits(pages[i], read)
  <2> SUFFICES ASSUME NEW i \in DOMAIN pages
               PROVE  Fits(pages[i], read)
    OBVIOUS
  <2>1. CASE i \in DOMAIN reading.pages
    <3>1. pages[i] = reading.pages[i] /\ reading.pages[i] \in Pages
      BY <1>2, <1>3, <2>1
    <3>2. Fits(reading.pages[i], reading.offset)
      BY <1>1, <2>1 DEF PageBound
    <3>3. reading.pages[i].offset \in Nat /\ Len(reading.pages[i].messages) \in Nat
      BY <3>1 DEF Pages
    <3>4. PICK q \in Pages : q = pages[i] /\ q = reading.pages[i]
      BY <3>1
    <3> HIDE DEF pages
    <3>5. q.offset + Len(q.messages) <= reading.offset
      BY <3>2, <3>4 DEF Fits
    <3>6. q.offset + Len(q.messages) <= read
      <4>1. PICK a \in Nat : a = q.offset + Len(q.messages)
        BY DEF Pages
      <4>2. PICK o \in Nat, n \in Nat : o = reading.offset /\ n = Len(reading.answer)
        BY <1>2
      <4>3. a <= o => a <= o + n
        OBVIOUS
      <4> QED
        BY <3>5, <4>1, <4>2, <4>3
    <3> QED
      BY <3>4, <3>6 DEF Fits
  <2>2. CASE i \notin DOMAIN reading.pages
    <3>1. pages[i] = PageNow
      BY <1>2, <1>3, <2>2
    <3>2. pages[i].offset = reading.offset /\ pages[i].messages = reading.answer
      BY <1>3, <3>1
    <3>3. read <= read
      BY <1>5
    <3> QED
      BY <3>2, <3>3 DEF Fits
  <2> QED
    BY <2>1, <2>2
<1>7. \/ JobFails /\ UNCHANGED stored
      \/ ApplySync(pages, total)
      \/ /\ reading' = [reading EXCEPT !.at = "page", !.pages = pages, !.answer = <<>>, !.total = 0,
                                       !.offset = @ + Len(reading.answer), !.declared = {Total}]
         /\ UNCHANGED stored
  BY DEF TakePage
<1>8. total \in Nat /\ total <= ChatReplies /\ read <= total
  BY <1>5
<1> HIDE DEF pages, total
<1>9. CASE JobFails /\ UNCHANGED stored
  <2>1. reading' = NoFlight
    BY <1>9 DEF JobFails
  <2> QED
    BY <1>1, <1>9, <2>1, BesidePages DEF RowBound, Had
<1>10. CASE ApplySync(pages, total)
  <2>1. reading' = NoFlight
    BY <1>10 DEF ApplySync, JobDone, JobFails
  <2>2. PageBound'
    BY <1>1, <2>1, BesidePages
  <2>3. CASE UNCHANGED stored
    BY <1>1, <2>2, <2>3 DEF RowBound, Had
  <2>4. CASE stored'.rows = NewRows(pages, total) /\ stored'.total = total
    <3>1. \A i \in DOMAIN pages : Fits(pages[i], total)
      <4>1. ASSUME NEW i \in DOMAIN pages
            PROVE  Fits(pages[i], total)
        <5>1. pages[i] \in Pages /\ Fits(pages[i], read)
          BY <1>4, <1>6
        <5>2. pages[i].offset \in Nat /\ Len(pages[i].messages) \in Nat
          BY <5>1 DEF Pages
        <5> QED
          BY <1>5, <1>8, <5>1, <5>2 DEF Fits
      <4> QED
        BY <4>1
    <3>2. \A r \in DOMAIN NewRows(pages, total) : NewRows(pages, total)[r] >= 0
      BY <1>1, <1>4, <1>8, <3>1, NewRowsInside
    <3>3. RowBound'
      BY <1>2, <1>8, <2>4, <3>2 DEF RowBound, Had
    <3> QED
      BY <2>2, <3>3
  <2> QED
    BY <1>10, <2>3, <2>4 DEF ApplySync
<1>11. ASSUME
         /\ reading' = [reading EXCEPT !.at = "page", !.pages = pages, !.answer = <<>>, !.total = 0,
                                       !.offset = @ + Len(reading.answer), !.declared = {Total}]
         /\ UNCHANGED stored
       PROVE RowBound' /\ PageBound'
  <2>1. /\ reading'.summary = reading.summary /\ reading'.total = 0 /\ reading'.answer = <<>>
        /\ reading'.offset = read /\ reading'.pages = pages
    BY <1>1, <1>11 DEF ChatTypes, Flights
  <2> HIDE DEF read
  <2>2. PageBound'
    BY <1>1, <1>2, <1>5, <1>6, <2>1 DEF PageBound, Fits
  <2> QED
    BY <1>1, <1>11, <2>2 DEF RowBound, Had
<1> QED
  BY <1>7, <1>9, <1>10, <1>11

\* Steps beside the job, and those of it that read no page.
LEMMA BesideSteps ==
  ASSUME ChatInv, BoundInv,
         \/ TakeFrame \/ Retitle \/ Peer \/ Prompt \/ ReplyEnds \/ Removed \/ LineLost \/ PromptLost
         \/ ResumeAnswered \/ NotReplayed \/ FramesReplayed \/ ChatRestart \/ OpenSession
         \/ Look \/ Refresh \/ Invalidate \/ ReadingFails \/ UNCHANGED chatVars
  PROVE  RowBound' /\ PageBound'
<1>1. ChatTypes /\ RowBound /\ PageBound
  BY DEF ChatInv, BoundInv
<1>2. ASSUME RowsKept, UNCHANGED reading \/ Outdated \/ reading' = NoFlight
      PROVE  RowBound' /\ PageBound'
  BY <1>1, <1>2, BesidePages, BesideRows
<1>3. ASSUME Noted \/ GatewayReset
      PROVE  RowsKept /\ Outdated
  BY <1>1, <1>3, NotedFacts
<1>4. CASE UNCHANGED <<stored, reading>>
  BY <1>2, <1>4 DEF RowsKept
<1>5. CASE TakeFrame
  <2>1. CASE UNCHANGED <<stored, reading>>
    BY <1>4, <2>1
  <2>2. CASE Noted \/ GatewayReset
    BY <1>2, <1>3, <2>2
  <2> QED
    BY <1>5, <2>1, <2>2 DEF TakeFrame
<1>6. CASE Retitle
  <2>1. RowsKept /\ UNCHANGED reading
    BY <1>1, <1>6 DEF Retitle, RowsKept, ChatTypes, StoredRows
  <2> QED
    BY <1>2, <2>1
<1>7. CASE Peer \/ ReplyEnds \/ Removed \/ LineLost \/ ResumeAnswered \/ Look \/ Refresh
  BY <1>4, <1>7 DEF Peer, ReplyEnds, Removed, LineLost, ResumeAnswered, Look, Refresh
<1>8. CASE Prompt \/ PromptLost \/ NotReplayed \/ FramesReplayed \/ OpenSession
  BY <1>2, <1>3, <1>8 DEF Prompt, PromptLost, NotReplayed, FramesReplayed, OpenSession
<1>9. CASE ChatRestart
  BY <1>2, <1>9 DEF ChatRestart, RowsKept
<1>10. CASE Invalidate
  <2>1. RowsKept /\ Outdated
    BY <1>1, <1>10 DEF Invalidate, RowsKept, ChatTypes, StoredRows
  <2> QED
    BY <1>2, <2>1
<1>11. CASE ReadingFails
  BY <1>2, <1>11 DEF ReadingFails, JobFails, RowsKept
<1>12. CASE UNCHANGED chatVars
  BY <1>4, <1>12 DEF chatVars
<1> QED
  BY <1>5, <1>6, <1>7, <1>8, <1>9, <1>10, <1>11, <1>12

LEMMA TakeDetailBounds ==
  ASSUME ChatInv, BoundInv, TakeDetail
  PROVE  RowBound' /\ PageBound'
<1>1. ChatTypes /\ RowBound /\ PageBound
  BY DEF ChatInv, BoundInv
<1>2. CASE MetadataOnly
  <2>1. RowsKept /\ reading' = NoFlight
    BY <1>1, <1>2 DEF TakeDetail, JobDone, RowsKept, ChatTypes, StoredRows
  <2> QED
    BY <1>1, <2>1, BesidePages, BesideRows
<1>3. CASE ~MetadataOnly
  <2>1. reading' = [reading EXCEPT !.at = "page"] /\ UNCHANGED stored
    BY <1>3 DEF TakeDetail
  <2>2. /\ reading'.summary = reading.summary /\ reading'.total = reading.total
        /\ reading'.offset = reading.offset /\ reading'.answer = reading.answer
        /\ reading'.pages = reading.pages
    BY <1>1, <2>1 DEF ChatTypes, Flights
  <2> QED
    BY <1>1, <2>1, <2>2 DEF RowBound, PageBound, Had, Fits
<1> QED
  BY <1>2, <1>3

LEMMA HermesSteps ==
  ASSUME ChatInv, [ChatNext]_chatVars
  PROVE  \/ UNCHANGED hermesVars
         \/ BeginReply /\ UNCHANGED history
         \/ ReplyEnds \/ Removed
<1>1. CASE TakeFrame \/ Retitle \/ LineLost \/ PromptLost \/ RecoverLine \/ ChatRestart \/ OpenSession
  BY <1>1 DEF TakeFrame, Retitle, LineLost, PromptLost, RecoverLine, ResumeAnswered, NotReplayed,
     FramesReplayed, ChatRestart, OpenSession
<1>2. CASE Look \/ Refresh \/ Invalidate \/ ReconcileStep \/ ReadingFails
  BY <1>2 DEF Look, Refresh, Invalidate, ReconcileStep, StartFlight, AnswerDetail, TakeDetail,
     AnswerPage, TakePage, ReadingFails, OthersKept
<1>3. CASE Peer \/ Prompt
  BY <1>3 DEF Peer, Prompt
<1>4. CASE UNCHANGED chatVars
  BY <1>4 DEF chatVars, hermesVars
<1> QED
  BY <1>1, <1>2, <1>3, <1>4 DEF ChatNext

LEMMA CountSteps ==
  ASSUME CountBound, [ChatNext]_chatVars
  PROVE  CountBound'
<1>1. ASSUME upsets' = upsets \/ Upset, requests' = requests \/ Ask
      PROVE  CountBound'
  BY <1>1, ChatConstants DEF CountBound, Upset, Ask
<1>2. CASE TakeFrame \/ Retitle \/ RecoverLine \/ OpenSession \/ Peer \/ Prompt \/ ReplyEnds
  BY <1>1, <1>2 DEF TakeFrame, Retitle, RecoverLine, ResumeAnswered, NotReplayed, FramesReplayed,
     OpenSession, Peer, Prompt, ReplyEnds
<1>3. CASE LineLost \/ PromptLost \/ ChatRestart \/ ReadingFails
  BY <1>1, <1>3 DEF LineLost, PromptLost, ChatRestart, ReadingFails
<1>4. CASE Look \/ Refresh \/ Invalidate \/ Removed
  BY <1>1, <1>4 DEF Look, Refresh, Invalidate, Removed, Ask
<1>5. CASE ReconcileStep
  BY <1>1, <1>5 DEF ReconcileStep, StartFlight, AnswerDetail, TakeDetail, AnswerPage, TakePage,
     OthersKept
<1>6. CASE UNCHANGED chatVars
  BY <1>1, <1>6 DEF chatVars
<1> QED
  BY <1>2, <1>3, <1>4, <1>5, <1>6 DEF ChatNext

LEMMA BoundSteps ==
  ASSUME ChatInv, BoundInv, [ChatNext]_chatVars
  PROVE  BoundInv'
<1>1. HistoryOrder'
  BY HermesSteps, OrderSteps DEF BoundInv
<1>2. CountBound'
  BY CountSteps DEF BoundInv
<1>3. RowBound' /\ PageBound'
  <2>1. CASE StartFlight \/ AnswerDetail \/ AnswerPage
    <3>1. UNCHANGED stored
      BY <2>1 DEF StartFlight, AnswerDetail, AnswerPage
    <3> QED
      BY <2>1, <3>1, AnswerBounds DEF BoundInv, RowBound, Had
  <2>2. CASE TakeDetail
    BY <2>2, TakeDetailBounds
  <2>3. CASE TakePage
    BY <2>3, TakePageBounds
  <2>4. CASE ~(StartFlight \/ AnswerDetail \/ AnswerPage \/ TakeDetail \/ TakePage)
    BY <2>4, BesideSteps DEF ChatNext, RecoverLine, ReconcileStep
  <2> QED
    BY <2>1, <2>2, <2>3, <2>4
<1> QED
  BY <1>1, <1>2, <1>3 DEF BoundInv

LEMMA BoundInit ==
  ASSUME ChatInit
  PROVE  BoundInv
<1>1. HistoryOrder
  <2>1. /\ history = [i \in 1 .. Before |-> i] /\ Before \in Nat /\ born = Before /\ speaking = 0
    BY ChatConstants DEF ChatInit
  <2>2. Len(history) = Before /\ DOMAIN history = 1 .. Before
    BY <2>1
  <2>3. \A i, j \in DOMAIN history : history[i] = history[j] => i = j
    BY <2>1, <2>2
  <2>4. Len(history) + (IF speaking = 0 THEN 0 ELSE 1) <= born
    BY <2>1, <2>2
  <2> QED
    BY <2>1, <2>3, <2>4 DEF HistoryOrder
<1>2. RowBound
  BY ChatConstants DEF ChatInit, RowBound, Had
<1>3. PageBound
  <2>1. /\ reading.summary = 0 /\ reading.total = 0 /\ reading.offset = 0
        /\ reading.answer = <<>> /\ reading.pages = <<>>
    BY DEF ChatInit, NoFlight
  <2> QED
    BY <2>1, ChatConstants DEF PageBound
<1>4. CountBound
  BY ChatConstants DEF ChatInit, CountBound
<1> QED
  BY <1>1, <1>2, <1>3, <1>4 DEF BoundInv

LEMMA BoundMeans ==
  ASSUME ChatInv, BoundInv
  PROVE  ChatTypeOK
<1>1. /\ history \in Seq(Replies) /\ born \in 0 .. ChatReplies /\ speaking \in {0, born}
      /\ onWay \in Seq(Nat) /\ line \in Lines /\ stored \in StoredRows
      /\ transcript \in Transcripts /\ repair \in Jobs /\ reading \in Flights
  BY DEF ChatInv, ChatTypes
<1>2. IsInjective(history)
  BY DEF BoundInv, HistoryOrder, IsInjective
<1>3. speaking \in 0 .. ChatReplies /\ born \in Before .. ChatReplies
  BY <1>1, ChatConstants DEF BoundInv, HistoryOrder
<1>4. /\ Emitted \in Nat /\ Emitted <= 2 * ChatReplies /\ Len(onWay) \in Nat
      /\ Sent \in Nat /\ Sent + Len(onWay) = Emitted
  BY <1>1, <1>3, ChatConstants DEF Emitted, Sent, ChatInv, LineInv
<1>5. onWay \in Seq(1 .. 2 * ChatReplies)
  <2>1. ASSUME NEW i \in 1 .. Len(onWay)
        PROVE  onWay[i] \in 1 .. 2 * ChatReplies
    <3>1. onWay[i] = Sent + i
      BY <1>1, <2>1 DEF ChatInv, LineInv
    <3> QED
      BY <1>4, <2>1, <3>1, ChatConstants
  <2>2. onWay \in [1 .. Len(onWay) -> 1 .. 2 * ChatReplies]
    BY <1>1, <2>1
  <2> QED
    BY <1>4, <2>2, SeqDef
<1>6. line \in [at : {"open", "down", "resumed", "closed"}, heard : 0 .. 2 * ChatReplies,
                missing : BOOLEAN, running : 0 .. ChatReplies]
  <2>1. line.heard \in Nat /\ line.running \in Nat
    BY <1>1 DEF Lines
  <2>2. line.heard <= Emitted /\ line.running <= born
    BY DEF ChatInv, LineInv
  <2>3. line.heard \in 0 .. 2 * ChatReplies /\ line.running \in 0 .. ChatReplies
    BY <1>3, <1>4, <2>1, <2>2, ChatConstants
  <2> QED
    BY <1>1, <2>3 DEF Lines
<1>7. /\ DOMAIN stored.rows \subseteq Replies /\ \A r \in DOMAIN stored.rows : stored.rows[r] \in Nat
      /\ stored.total \in -1 .. ChatReplies /\ {stored.complete, stored.metadata} \subseteq BOOLEAN
      /\ stored.state \in {"stale", "gap", "current"}
  <2>1. stored.rows \in Places
    BY <1>1 DEF StoredRows
  <2>2. DOMAIN stored.rows \subseteq Replies /\ \A r \in DOMAIN stored.rows : stored.rows[r] \in Int
    BY <2>1 DEF Places
  <2> QED
    BY <1>1, <2>2 DEF StoredRows, BoundInv, RowBound, Had
<1>8. /\ UNION {transcript.whole, transcript.twice, transcript.cut, transcript.asked} \subseteq Replies
      /\ transcript.head \in {"open", "await", "ended"} /\ transcript.of \in 0 .. ChatReplies
      /\ {transcript.running, transcript.dated, transcript.withheld} \subseteq BOOLEAN
  BY <1>1 DEF Transcripts
<1>9. repair \in [{"due", "force", "kept"} -> BOOLEAN]
  BY <1>1 DEF Jobs
<1>10. reading.at \in {"off", "detail", "detailed", "page", "paged"}
  BY <1>1 DEF Flights
<1>11. upsets \in 0 .. MaxUpsets /\ requests \in 0 .. MaxRequests
  BY DEF BoundInv, CountBound
<1> QED
  BY <1>1, <1>2, <1>3, <1>5, <1>6, <1>7, <1>8, <1>9, <1>10, <1>11 DEF ChatTypeOK

\* Every variable of the conversation has its type: Hermes stores a reply once, no frame is
\* of a reply it has not begun, and rows are placed from the start of the history on.
THEOREM ChatTypeInvariant == ChatSpec => []ChatTypeOK
<1>1. ChatInit => BoundInv
  BY BoundInit
<1>2. ChatInv /\ BoundInv /\ [ChatNext]_chatVars => BoundInv'
  BY BoundSteps
<1>3. ChatInv /\ BoundInv => ChatTypeOK
  BY BoundMeans
<1> QED
  BY <1>1, <1>2, <1>3, ChatInductive, PTL DEF ChatSpec
=============================================================================
