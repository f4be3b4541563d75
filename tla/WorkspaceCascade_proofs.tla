----------------------- MODULE WorkspaceCascade_proofs -----------------------
(***************************************************************************)
(* What TLAPS proves about the unfolding of a run, for any members, modes, *)
(* rounds and bounds: a run settles once and for good, a host group works  *)
(* on one batch at a time, and every batch of it is reviewed.              *)
(***************************************************************************)
EXTENDS WorkspaceCascade, FiniteSetTheorems, SequenceTheorems, TLAPS

RunWork == [agent : Members, depth : Nat, batch : Nat, review : BOOLEAN,
            required : BOOLEAN, status : Statuses, planned : BOOLEAN]

CascadeTypes ==
  /\ mode \in Modes
  /\ works \in Seq(RunWork) /\ \A i \in Ids : works[i].batch < i
  /\ root \in Statuses /\ stopRequested \in BOOLEAN
  /\ left \subseteq Members /\ executing \subseteq Ids
  /\ reported \in Nat /\ crashes \in 0 .. MaxCrashes

\* A run is over exactly when its turns have ended and have been planned, and that
\* has been reported once.
SettleInv ==
  /\ \A i \in Ids : works[i].planned => works[i].status \in Terminal
  /\ root \in Terminal <=> works # <<>> /\ Done(works)
  /\ reported = IF root \in Terminal THEN 1 ELSE 0

\* The turns of the last turn's group: a batch of members, or a review.
Latest(i) ==
  /\ works[i].batch = works[Len(works)].batch
  /\ works[i].review = works[Len(works)].review

Reviewed(b) == \E j \in Ids : works[j].review /\ works[j].batch = b

\* Who does what in a host group: the administrator reviews, the others are asked by
\* a turn of the administrator that has been planned; a review has members to review.
RoleInv ==
  \A i \in Ids :
    /\ works[i].review => /\ mode = "host" /\ works[i].agent = Admin
                          /\ \E j \in Ids : ~works[j].review /\ works[j].batch = works[i].batch
                          /\ \A j \in Ids : works[j].review /\ works[j].batch = works[i].batch => i = j
    /\ mode = "host" /\ ~works[i].review => IF works[i].batch = 0 THEN i = 1
                                            ELSE works[i].agent # Admin
    /\ mode = "host" /\ works[i].batch # 0 => works[works[i].batch].planned

\* What came before the latest group is finished: its turns have ended, those of the
\* administrator have been planned and those of the others reviewed; the latest batch is
\* not reviewed.
GroupInv ==
  mode = "host" => \A i \in Ids :
    /\ ~Latest(i) => /\ works[i].status \in Terminal
                     /\ IF works[i].agent = Admin THEN works[i].planned
                        ELSE Reviewed(works[i].batch)
    /\ Latest(i) /\ ~works[i].review => ~Reviewed(works[i].batch)

\* Until a batch is reviewed some turn of it has to be planned, which brings the review.
ReviewInv ==
  mode = "host" /\ ~stopRequested => \A i \in Ids :
    works[i].agent # Admin =>
      \/ Reviewed(works[i].batch)
      \/ \E j \in Ids : /\ works[j].batch = works[i].batch /\ ~works[j].review
                        /\ ~works[j].planned

\* The turn stands at that slot.
Slotted(work, s) ==
  s \in SpeakerSlots /\ SlotRound(s) = work.depth /\ SlotAgent(s) = work.agent

Spoken(s) == \E k \in Ids : SlotOf(works[k]) = s

\* The turns of a discussion stand at slots of their own, one after the other; only the
\* last one may still have to be planned, and who was passed over has left.
OrderInv ==
  mode = "discussion" =>
    /\ IF SpeakerSlots = {} THEN Len(works) <= 1
       ELSE \A i \in Ids : Slotted(works[i], SlotOf(works[i]))
    /\ \A i, j \in Ids : i < j =>
         /\ works[i].planned
         /\ SlotOf(works[i]) < SlotOf(works[j])
         /\ \A s \in SlotOf(works[i]) + 1 .. SlotOf(works[j]) - 1 :
              SlotAgent(s) \in left \/ Spoken(s)

CascadeInv == CascadeTypes /\ SettleInv /\ RoleInv /\ GroupInv

-----------------------------------------------------------------------------
(* Lists of turns                                                          *)

\* The elements of a finite set can be listed.
LEMMA ListOfSet ==
  ASSUME NEW S, IsFiniteSet(S)
  PROVE  /\ SetToSeq(S) \in Seq(S)
         /\ S # {} => DOMAIN SetToSeq(S) # {}
<1> DEFINE size == Cardinality(S)
<1>1. size \in Nat /\ ExistsBijection(1 .. size, S)
  BY FS_CardinalityType
<1>2. \E f \in [1 .. size -> S] : IsInjective(f)
  BY <1>1 DEF ExistsBijection, Bijection, Injection
<1>3. SetToSeq(S) \in [1 .. size -> S]
  BY <1>2 DEF SetToSeq
<1>4. SetToSeq(S) \in Seq(S)
  BY <1>1, <1>3, SeqDef
<1>5. S # {} => size # 0
  BY FS_EmptySet
<1> QED
  BY <1>1, <1>3, <1>4, <1>5

LEMMA NewWorkType ==
  ASSUME NEW agent \in Members, NEW depth \in Nat, NEW batch \in Nat,
         NEW review \in BOOLEAN, NEW required \in BOOLEAN
  PROVE  LET work == NewWork(agent, depth, batch, review, required) IN
         /\ work \in RunWork
         /\ work.agent = agent /\ work.depth = depth /\ work.batch = batch
         /\ work.review = review /\ work.status = "queued" /\ ~work.planned
  BY DEF NewWork, RunWork, Statuses

\* out begins with the turns of ws and goes on with new ones.
Grown(ws, out) ==
  /\ out \in Seq(RunWork) /\ Len(ws) <= Len(out)
  /\ \A i \in 1 .. Len(ws) : out[i] = ws[i]
  /\ \A i \in Len(ws) + 1 .. Len(out) : out[i].status = "queued" /\ ~out[i].planned

\* The new turns are of one batch of those agents.
Asked(ws, out, agents, batch) ==
  \A i \in Len(ws) + 1 .. Len(out) :
    out[i].agent \in agents /\ out[i].batch = batch /\ ~out[i].review

\* enqueue of several bots: turns of bots that were asked, all of one batch.
LEMMA EnqueueAllGrows ==
  ASSUME NEW ws \in Seq(RunWork), NEW agents \in SUBSET Members, NEW depth \in Nat,
         NEW batch \in Nat
  PROVE  LET out == EnqueueAll(ws, agents, depth, batch, FALSE) IN
         /\ Grown(ws, out)
         /\ Asked(ws, out, agents, batch)
         /\ ws = <<>> /\ agents # {} => out # <<>>
<1> DEFINE fresh == {a \in agents : ~\E i \in DOMAIN ws :
                        ~ws[i].review /\ ws[i].agent = a /\ ws[i].depth = depth}
           order == SetToSeq(fresh)
           more == [n \in DOMAIN order |-> NewWork(order[n], depth, batch, FALSE, FALSE)]
           out == EnqueueAll(ws, agents, depth, batch, FALSE)
<1>1. IsFiniteSet(fresh)
  BY FS_Subset, CascadeAssumption
<1>2. order \in Seq(fresh) /\ (fresh # {} => DOMAIN order # {})
  BY <1>1, ListOfSet
<1> HIDE DEF fresh
<1>3. fresh \subseteq agents /\ (ws = <<>> => fresh = agents)
  BY DEF fresh
<1> HIDE DEF order
<1>4. Len(order) \in Nat /\ DOMAIN order = 1 .. Len(order)
      /\ \A n \in 1 .. Len(order) : order[n] \in fresh
  BY <1>2, LenProperties, ElementOfSeq
<1>5. \A n \in 1 .. Len(order) : more[n] \in RunWork
  BY <1>3, <1>4, NewWorkType
<1>6. more \in Seq(RunWork) /\ Len(more) = Len(order) /\ DOMAIN more = 1 .. Len(order)
  <2>1. more \in [1 .. Len(order) -> RunWork]
    BY <1>4, <1>5
  <2> HIDE DEF more
  <2>2. more \in Seq(RunWork)
    BY <1>4, <2>1, SeqDef
  <2> QED
    BY <1>4, <2>1, <2>2, LenProperties
<1>7. \A n \in 1 .. Len(order) : /\ more[n].agent \in agents /\ more[n].batch = batch
                                 /\ ~more[n].review /\ more[n].status = "queued"
                                 /\ ~more[n].planned
  <2> SUFFICES ASSUME NEW n \in 1 .. Len(order)
               PROVE  /\ more[n].agent \in agents /\ more[n].batch = batch
                      /\ ~more[n].review /\ more[n].status = "queued" /\ ~more[n].planned
    OBVIOUS
  <2>1. order[n] \in agents /\ order[n] \in Members
    BY <1>3, <1>4
  <2>2. more[n] = NewWork(order[n], depth, batch, FALSE, FALSE)
    BY <1>4
  <2> QED
    BY <2>1, <2>2 DEF NewWork
<1>8. out = ws \o more
  BY DEF EnqueueAll, order, fresh
<1> HIDE DEF more, out
<1>9. /\ out \in Seq(RunWork) /\ Len(out) = Len(ws) + Len(order)
      /\ \A i \in 1 .. Len(ws) + Len(order) :
           out[i] = IF i <= Len(ws) THEN ws[i] ELSE more[i - Len(ws)]
  <2>1. /\ ws \o more \in Seq(RunWork) /\ Len(ws \o more) = Len(ws) + Len(more)
        /\ \A i \in 1 .. Len(ws) + Len(more) :
             (ws \o more)[i] = IF i <= Len(ws) THEN ws[i] ELSE more[i - Len(ws)]
    BY <1>6, ConcatProperties
  <2> QED
    BY <1>6, <1>8, <2>1
<1>10. Len(ws) \in Nat /\ Len(order) \in Nat
  BY <1>4, LenProperties
<1>11. \A i \in Len(ws) + 1 .. Len(out) :
         out[i] = more[i - Len(ws)] /\ i - Len(ws) \in 1 .. Len(order)
  BY <1>9, <1>10
<1>12. \A i \in 1 .. Len(ws) : out[i] = ws[i]
  BY <1>9, <1>10
<1>13. Grown(ws, out)
  BY <1>7, <1>9, <1>10, <1>11, <1>12 DEF Grown
<1>14. ws = <<>> /\ agents # {} => out # <<>>
  <2> SUFFICES ASSUME ws = <<>>, agents # {} PROVE Len(out) # 0
    OBVIOUS
  <2>1. DOMAIN order # {}
    BY <1>2, <1>3
  <2> QED
    BY <1>4, <1>9, <1>10, <2>1
<1>15. Asked(ws, out, agents, batch)
  BY <1>7, <1>11 DEF Asked
<1> QED
  BY <1>13, <1>14, <1>15 DEF out

HasReview(ws, b) == \E i \in DOMAIN ws : ws[i].review /\ ws[i].batch = b

\* enqueue of one turn: it is added unless there is one like it.
LEMMA EnqueueGrows ==
  ASSUME NEW ws \in Seq(RunWork), NEW work \in RunWork, work.status = "queued", ~work.planned
  PROVE  LET out == Enqueue(ws, work) IN
         /\ Grown(ws, out)
         /\ \/ out = ws
            \/ Len(out) = Len(ws) + 1 /\ out[Len(ws) + 1] = work
         /\ work.review => (out = ws <=> HasReview(ws, work.batch))
<1> DEFINE out == Enqueue(ws, work)
<1>1. /\ Append(ws, work) \in Seq(RunWork) /\ Len(Append(ws, work)) = Len(ws) + 1
      /\ \A i \in 1 .. Len(ws) : Append(ws, work)[i] = ws[i]
      /\ Append(ws, work)[Len(ws) + 1] = work
  BY AppendProperties
<1>2. Len(ws) \in Nat
  BY LenProperties
<1>3. Append(ws, work) # ws
  BY <1>1, <1>2
<1>4. Grown(ws, Append(ws, work))
  BY <1>1, <1>2 DEF Grown
<1>5. Grown(ws, ws)
  BY <1>2 DEF Grown
<1>6. CASE \E i \in DOMAIN ws :
             /\ ws[i].review = work.review
             /\ IF work.review THEN ws[i].batch = work.batch
                ELSE ws[i].agent = work.agent /\ ws[i].depth = work.depth
  <2>1. out = ws
    BY <1>6 DEF Enqueue
  <2>2. work.review => HasReview(ws, work.batch)
    BY <1>6 DEF HasReview
  <2> QED
    BY <1>5, <2>1, <2>2
<1>7. CASE ~\E i \in DOMAIN ws :
             /\ ws[i].review = work.review
             /\ IF work.review THEN ws[i].batch = work.batch
                ELSE ws[i].agent = work.agent /\ ws[i].depth = work.depth
  <2>1. out = Append(ws, work)
    BY <1>7 DEF Enqueue
  <2>2. work.review => ~HasReview(ws, work.batch)
    <3> SUFFICES ASSUME work.review, NEW i \in DOMAIN ws, ws[i].review,
                        ws[i].batch = work.batch
                 PROVE FALSE
      BY DEF HasReview
    <3>1. ws[i].review \in BOOLEAN /\ work.review \in BOOLEAN
      BY LenProperties, ElementOfSeq DEF RunWork
    <3> QED
      BY <1>7, <3>1
  <2> QED
    BY <1>1, <1>3, <1>4, <2>1, <2>2
<1> QED
  BY <1>6, <1>7

\* out has the turns of ws, of which some have changed, but not whom they belong to:
\* what has ended stays so, and what is planned as well.
Edited(ws, out) ==
  /\ out \in Seq(RunWork) /\ Len(out) = Len(ws)
  /\ \A i \in 1 .. Len(ws) :
       /\ out[i].agent = ws[i].agent /\ out[i].depth = ws[i].depth
       /\ out[i].batch = ws[i].batch
       /\ out[i].review = ws[i].review
       /\ ws[i].status \in Terminal => out[i].status = ws[i].status
       /\ ws[i].planned => out[i].planned
       /\ out[i].planned => ws[i].planned \/ out[i].status \in Terminal

LEMMA WorkFields ==
  ASSUME NEW w \in RunWork
  PROVE  /\ w.agent \in Members /\ w.depth \in Nat /\ w.batch \in Nat
         /\ w.review \in BOOLEAN /\ w.required \in BOOLEAN
         /\ w.status \in Statuses /\ w.planned \in BOOLEAN
  BY DEF RunWork

LEMMA WorksOf ==
  ASSUME NEW ws \in Seq(RunWork)
  PROVE  /\ Len(ws) \in Nat /\ DOMAIN ws = 1 .. Len(ws) /\ ws \in [1 .. Len(ws) -> RunWork]
         /\ ws # <<>> <=> Len(ws) # 0
         /\ \A i \in 1 .. Len(ws) : ws[i] \in RunWork
  BY LenProperties, ElementOfSeq, EmptySeq

LEMMA Rewritten ==
  ASSUME NEW ws \in Seq(RunWork), NEW out \in [DOMAIN ws -> RunWork]
  PROVE  out \in Seq(RunWork) /\ Len(out) = Len(ws)
<1>1. Len(ws) \in Nat /\ DOMAIN ws = 1 .. Len(ws)
  BY WorksOf
<1>2. out \in Seq(RunWork)
  BY <1>1, SeqDef
<1> QED
  BY <1>1, <1>2, LenProperties

-----------------------------------------------------------------------------
(* Saving                                                                  *)

LEMMA DoneMeans ==
  ASSUME NEW ws
  PROVE  Done(ws) <=> \A i \in DOMAIN ws : ws[i].status \in Terminal /\ ws[i].planned
  BY DEF Done, Every

LEMMA StatusOfRun ==
  ASSUME NEW ws, NEW stopped
  PROVE  /\ RootStatus(ws, stopped) \in Statuses
         /\ RootStatus(ws, stopped) \in Terminal <=> Done(ws)
<1>1. CASE Done(ws)
  <2>1. RootStatus(ws, stopped) \in Terminal
    BY <1>1 DEF RootStatus, Terminal
  <2> QED
    BY <1>1, <2>1 DEF Statuses
<1>2. CASE ~Done(ws)
  <2>1. RootStatus(ws, stopped) \in {"uncertain", "running", "queued"}
    BY <1>2 DEF RootStatus
  <2> QED
    BY <1>2, <2>1 DEF Statuses, Terminal
<1> QED
  BY <1>1, <1>2

\* saveWork: while the run is not over it keeps its books in order.
LEMMA Saved ==
  ASSUME CascadeTypes, SettleInv, root \notin Terminal,
         NEW ws \in Seq(RunWork), ws # <<>>, SaveWorks(ws),
         \A i \in 1 .. Len(ws) : ws[i].planned => ws[i].status \in Terminal
  PROVE  SettleInv' /\ works' = ws /\ root' \in Statuses /\ reported' \in Nat
<1>1. works' = ws /\ root' = RootStatus(ws, stopRequested')
      /\ reported' = IF Done(ws) THEN reported + 1 ELSE reported
  BY DEF SaveWorks
<1>2. reported = 0
  BY DEF SettleInv
<1>3. root' \in Statuses /\ (root' \in Terminal <=> Done(ws))
  BY <1>1, StatusOfRun
<1>4. reported' = IF root' \in Terminal THEN 1 ELSE 0
  BY <1>1, <1>2, <1>3
<1>5. DOMAIN ws = 1 .. Len(ws)
  BY WorksOf
<1> QED
  BY <1>1, <1>3, <1>4, <1>5 DEF SettleInv, Ids

\* A run with a turn that has not ended or is not planned is not over.
LEMMA NotOver ==
  ASSUME SettleInv, NEW i \in Ids, works[i].status \notin Terminal \/ ~works[i].planned
  PROVE  root \notin Terminal
<1>1. ~Done(works)
  BY DoneMeans DEF Ids
<1> QED
  BY <1>1 DEF SettleInv

\* The same for a step that only edits turns.
LEMMA SavedEdit ==
  ASSUME CascadeTypes, SettleInv, root \notin Terminal, works # <<>>,
         NEW ws, Edited(works, ws), SaveWorks(ws)
  PROVE  /\ SettleInv' /\ works' = ws /\ root' \in Statuses /\ reported' \in Nat
         /\ works' \in Seq(RunWork) /\ Ids' = Ids /\ \A i \in Ids' : works'[i].batch < i
<1>1. works \in Seq(RunWork) /\ \A i \in Ids : works[i].batch < i
  BY DEF CascadeTypes
<1>2. /\ Len(works) \in Nat /\ Len(works) # 0 /\ Ids = 1 .. Len(works)
  BY <1>1, WorksOf DEF Ids
<1>3. ws \in Seq(RunWork) /\ Len(ws) = Len(works) /\ ws # <<>> /\ DOMAIN ws = 1 .. Len(works)
  BY <1>2, WorksOf DEF Edited
<1>4. \A i \in 1 .. Len(ws) : ws[i].planned => ws[i].status \in Terminal
  BY <1>2, <1>3 DEF Edited, SettleInv
<1>5. SettleInv' /\ works' = ws /\ root' \in Statuses /\ reported' \in Nat
  BY <1>3, <1>4, Saved
<1>6. \A i \in DOMAIN ws : ws[i].batch < i
  BY <1>1, <1>2, <1>3 DEF Edited
<1> QED
  BY <1>2, <1>3, <1>5, <1>6 DEF Ids

-----------------------------------------------------------------------------
(* Slots of a discussion                                                   *)

LEMMA CascadeSlots ==
  ASSUME "discussion" \in Modes, NEW s \in Nat
  PROVE  SlotAgent(s) \in Members /\ SlotRound(s) \in Nat
<1>1. Len(Speakers) \in Nat \ {0} /\ DOMAIN Speakers = 1 .. Len(Speakers)
      /\ \A n \in 1 .. Len(Speakers) : Speakers[n] \in Members
  BY CascadeAssumption, LenProperties, ElementOfSeq, EmptySeq
<1> DEFINE n == Len(Speakers)
<1>2. s \div n \in Nat
  BY <1>1
<1>3. (s + s \div n) % n \in 0 .. n - 1
  BY <1>1, <1>2
<1> QED
  BY <1>1, <1>2, <1>3 DEF SlotAgent, SlotRound

\* Division, which the provers know little of.
LEMMA Multiples ==
  ASSUME NEW n \in Nat \ {0}, NEW p \in Int, NEW q \in Int, NEW r \in Int, p < q
  PROVE  n * p + n <= n * q
<1>1. q - p - 1 \in Nat
  OBVIOUS
<1>2. n * (q - p - 1) \in Nat
  BY <1>1
<1>3. n * (q - p - 1) = n * q - n * p - n
  OBVIOUS
<1> QED
  BY <1>2, <1>3

LEMMA Divided ==
  ASSUME NEW n \in Nat \ {0}, NEW s \in Nat
  PROVE  /\ s \div n \in Nat /\ s % n \in 0 .. n - 1
         /\ s = n * (s \div n) + (s % n)
  OBVIOUS

LEMMA SameRest ==
  ASSUME NEW n \in Nat \ {0}, NEW d \in Nat, NEW s \in Nat, NEW t \in Nat,
         s \div n = t \div n, (s + d) % n = (t + d) % n, s < t
  PROVE  FALSE
<1>1. /\ s \div n \in Nat /\ s % n \in 0 .. n - 1 /\ s = n * (s \div n) + (s % n)
      /\ t \div n \in Nat /\ t % n \in 0 .. n - 1 /\ t = n * (t \div n) + (t % n)
  BY Divided
<1>2. t - s < n
  BY <1>1
<1>3. s + d \in Nat /\ t + d \in Nat
  OBVIOUS
<1> DEFINE p == (s + d) \div n
           q == (t + d) \div n
           r == (s + d) % n
<1>4. /\ p \in Nat /\ s + d = n * p + r /\ r \in 0 .. n - 1
      /\ q \in Nat /\ t + d = n * q + r
  BY <1>3, Divided
<1> HIDE DEF p, q, r
<1>5. n * p \in Int /\ n * q \in Int
  BY <1>4
<1>6. n * p < n * q /\ n * q < n * p + n
  BY <1>2, <1>4, <1>5
<1>7. CASE p < q
  BY <1>4, <1>5, <1>6, <1>7, Multiples
<1>8. CASE q <= p
  <2>1. q < p \/ q = p
    BY <1>4, <1>8
  <2> QED
    BY <1>4, <1>5, <1>6, <2>1, Multiples
<1> QED
  BY <1>4, <1>7, <1>8

\* A turn stands at one slot at most: nobody speaks twice in a round.
LEMMA OneSlot ==
  ASSUME "discussion" \in Modes, NEW work, NEW s, Slotted(work, s)
  PROVE  SlotOf(work) = s
<1> DEFINE n == Len(Speakers)
<1>1. n \in Nat \ {0} /\ DOMAIN Speakers = 1 .. n
  BY CascadeAssumption, LenProperties, EmptySeq
<1>2. s \in Nat
  BY DEF Slotted, SpeakerSlots
<1>3. ASSUME NEW t, Slotted(work, t)
      PROVE  t = s
  <2>1. t \in Nat
    BY <1>3 DEF Slotted, SpeakerSlots
  <2> DEFINE d == s \div n
  <2>2. d \in Nat /\ t \div n = d
    <3>1. s \div n = t \div n
      BY <1>3 DEF Slotted, SlotRound
    <3>2. d \in Nat
      BY <1>1, <1>2, Divided
    <3> QED
      BY <3>1, <3>2, Zenon
  <2> DEFINE a == (s + d) % n
             b == (t + d) % n
  <2>3. a \in 0 .. n - 1 /\ b \in 0 .. n - 1
    <3> HIDE DEF d, n
    <3>1. s + d \in Nat /\ t + d \in Nat
      BY <1>2, <2>1, <2>2
    <3> QED
      BY <1>1, <3>1, Divided
  <2>4. Speakers[a + 1] = Speakers[b + 1]
    BY <1>3, <2>2 DEF Slotted, SlotAgent, SlotRound
  <2> HIDE DEF a, b
  <2>5. a = b
    <3>1. a + 1 \in DOMAIN Speakers /\ b + 1 \in DOMAIN Speakers
      BY <1>1, <2>3
    <3>2. a + 1 = b + 1
      BY <2>4, <3>1, CascadeAssumption DEF IsInjective
    <3> QED
      BY <2>3, <3>2
  <2>6. (s + d) % n = (t + d) % n
    BY <2>5 DEF a, b
  <2>7. ASSUME NEW x \in Nat, NEW y \in Nat, x \div n = d, y \div n = d,
               (x + d) % n = (y + d) % n
        PROVE  ~(x < y)
    BY <1>1, <2>2, <2>7, SameRest
  <2>8. ~(s < t) /\ ~(t < s)
    <3>1. s \div n = d
      OBVIOUS
    <3> HIDE DEF d, n
    <3> QED
      BY <1>2, <2>1, <2>2, <2>6, <2>7, <3>1
  <2> QED
    BY <1>2, <2>1, <2>8
<1>4. \A t : t \in SpeakerSlots /\ SlotRound(t) = work.depth /\ SlotAgent(t) = work.agent
             => t = s
  BY <1>3 DEF Slotted
<1> QED
  BY <1>4 DEF SlotOf, Slotted
-----------------------------------------------------------------------------
(* Steps that add no turn                                                  *)

EditStep == CascadeTypes' /\ SettleInv' /\ Edited(works, works')

\* Nothing is planned but turns of the administrator.
PlansKept == \A i \in Ids : works[i].agent # Admin => (works'[i].planned <=> works[i].planned)

LEMMA SameWorks ==
  ASSUME CascadeTypes, SettleInv, UNCHANGED <<works, root, reported>>
  PROVE  SettleInv' /\ Edited(works, works') /\ Ids' = Ids /\ PlansKept
<1>1. works \in Seq(RunWork) /\ Ids = 1 .. Len(works)
  BY WorksOf DEF CascadeTypes, Ids
<1>2. Edited(works, works')
  BY <1>1 DEF Edited, SettleInv
<1>3. SettleInv'
  BY DEF SettleInv, Ids
<1> QED
  BY <1>2, <1>3 DEF Ids, PlansKept

LEMMA StatusEdit ==
  ASSUME CascadeTypes, SettleInv, NEW i \in Ids, works[i].status \notin Terminal,
         NEW status \in Statuses
  PROVE  /\ Edited(works, SetStatus(i, status))
         /\ \A j \in Ids : SetStatus(i, status)[j].planned = works[j].planned
<1> DEFINE ws == SetStatus(i, status)
<1>1. works \in Seq(RunWork) /\ Ids = 1 .. Len(works) /\ DOMAIN works = Ids
      /\ \A j \in Ids : works[j] \in RunWork
  BY WorksOf DEF CascadeTypes, Ids
<1>2. ~works[i].planned
  BY DEF SettleInv
<1>3. ws[i] = [works[i] EXCEPT !.status = status] /\ \A j \in Ids \ {i} : ws[j] = works[j]
  BY <1>1 DEF SetStatus
<1>4. /\ ws[i] \in RunWork /\ ws[i].agent = works[i].agent /\ ws[i].depth = works[i].depth
      /\ ws[i].batch = works[i].batch
      /\ ws[i].review = works[i].review /\ ws[i].planned = works[i].planned
  BY <1>1, <1>3 DEF RunWork
<1>5. ws \in [DOMAIN works -> RunWork]
  BY <1>1, <1>3, <1>4 DEF SetStatus
<1>6. ws \in Seq(RunWork) /\ Len(ws) = Len(works)
  BY <1>1, <1>5, Rewritten
<1>7. \A j \in Ids : /\ ws[j].agent = works[j].agent /\ ws[j].depth = works[j].depth
                     /\ ws[j].batch = works[j].batch
                     /\ ws[j].review = works[j].review /\ ws[j].planned = works[j].planned
                     /\ works[j].status \in Terminal => ws[j].status = works[j].status
  BY <1>3, <1>4
<1> HIDE DEF ws
<1>8. Edited(works, ws)
  BY <1>1, <1>6, <1>7 DEF Edited
<1> QED
  BY <1>7, <1>8 DEF ws

\* A turn that has not ended gets a new status.
LEMMA StatusStep ==
  ASSUME CascadeTypes, SettleInv, NEW i \in Ids, works[i].status \notin Terminal,
         NEW status \in Statuses, SaveWorks(SetStatus(i, status)),
         UNCHANGED <<mode, stopRequested, left, crashes>>,
         executing' \subseteq executing \cup {i}
  PROVE  EditStep /\ PlansKept
<1>1. root \notin Terminal
  BY NotOver
<1>2. works # <<>>
  BY WorksOf DEF CascadeTypes, Ids
<1>3. /\ Edited(works, SetStatus(i, status))
      /\ \A j \in Ids : SetStatus(i, status)[j].planned = works[j].planned
  BY StatusEdit
<1>4. /\ SettleInv' /\ works' = SetStatus(i, status) /\ root' \in Statuses /\ reported' \in Nat
      /\ works' \in Seq(RunWork) /\ Ids' = Ids /\ \A j \in Ids' : works'[j].batch < j
  BY <1>1, <1>2, <1>3, SavedEdit
<1>5. CascadeTypes'
  BY <1>4 DEF CascadeTypes
<1> QED
  BY <1>3, <1>4, <1>5 DEF EditStep, PlansKept

LEMMA DropStep ==
  ASSUME CascadeTypes, SettleInv, UNCHANGED mode, NEW i \in Ids, Drop(i)
  PROVE  EditStep /\ PlansKept
  BY StatusStep DEF Drop, Terminal, Statuses

LEMMA EndTurnStep ==
  ASSUME CascadeTypes, SettleInv, UNCHANGED mode, NEW i \in Ids, EndTurn(i)
  PROVE  EditStep /\ PlansKept
<1>1. PICK outcome \in Statuses \ {"running"} : SaveWorks(SetStatus(i, outcome))
  BY DEF EndTurn
<1>2. works[i].status \notin Terminal
  BY DEF EndTurn, Terminal
<1> QED
  BY <1>1, <1>2, StatusStep DEF EndTurn

LEMMA RecheckStep ==
  ASSUME CascadeTypes, SettleInv, UNCHANGED mode, NEW i \in Ids, Recheck(i)
  PROVE  EditStep /\ PlansKept
<1>1. works[i].status \notin Terminal
  BY DEF Recheck, Terminal
<1>2. "running" \in Statuses /\ Terminal \subseteq Statuses
  BY DEF Statuses
<1>3. CASE executing' = executing \cup {i} /\ SaveWorks(SetStatus(i, "running"))
  BY <1>1, <1>2, <1>3, StatusStep DEF Recheck
<1>4. CASE UNCHANGED executing /\ \E outcome \in Terminal : SaveWorks(SetStatus(i, outcome))
  <2>1. PICK outcome \in Terminal : SaveWorks(SetStatus(i, outcome))
    BY <1>4
  <2> QED
    BY <1>1, <1>2, <1>4, <2>1, StatusStep DEF Recheck
<1> QED
  BY <1>3, <1>4 DEF Recheck

LEMMA StartStep ==
  ASSUME CascadeTypes, SettleInv, UNCHANGED mode, NEW i \in Ids, Start(i)
  PROVE  EditStep /\ PlansKept
<1> DEFINE owes == works[i].required \/ (mode = "host" /\ works[i].agent = Admin)
           ws == [works EXCEPT ![i].status = "running", ![i].required = owes]
<1>1. works \in Seq(RunWork) /\ Ids = 1 .. Len(works) /\ DOMAIN works = Ids
      /\ \A j \in Ids : works[j] \in RunWork
  BY WorksOf DEF CascadeTypes, Ids
<1>2. works[i].status \notin Terminal /\ ~works[i].planned
  BY DEF Start, SettleInv, Terminal
<1>3. /\ ws[i] = [works[i] EXCEPT !.status = "running", !.required = owes]
      /\ \A j \in Ids \ {i} : ws[j] = works[j]
  BY <1>1
<1>4. owes \in BOOLEAN /\ "running" \in Statuses
  BY <1>1, WorkFields DEF Statuses
<1> HIDE DEF owes
<1>5. /\ ws[i] \in RunWork /\ ws[i].agent = works[i].agent /\ ws[i].depth = works[i].depth
      /\ ws[i].batch = works[i].batch
      /\ ws[i].review = works[i].review /\ ws[i].planned = works[i].planned
  BY <1>1, <1>3, <1>4 DEF RunWork
<1>6. ws \in [DOMAIN works -> RunWork]
  BY <1>1, <1>3, <1>5
<1>7. ws \in Seq(RunWork) /\ Len(ws) = Len(works)
  BY <1>1, <1>6, Rewritten
<1>8. \A j \in Ids : /\ ws[j].agent = works[j].agent /\ ws[j].depth = works[j].depth
                     /\ ws[j].batch = works[j].batch
                     /\ ws[j].review = works[j].review /\ ws[j].planned = works[j].planned
                     /\ works[j].status \in Terminal => ws[j].status = works[j].status
  BY <1>2, <1>3, <1>5
<1>9. SaveWorks(ws)
  BY DEF Start, owes
<1> HIDE DEF ws
<1>10. Edited(works, ws)
  BY <1>1, <1>7, <1>8 DEF Edited
<1>11. root \notin Terminal /\ works # <<>>
  BY <1>1, <1>2, NotOver, WorksOf
<1>12. /\ SettleInv' /\ works' = ws /\ root' \in Statuses /\ reported' \in Nat
       /\ works' \in Seq(RunWork) /\ Ids' = Ids /\ \A j \in Ids' : works'[j].batch < j
  BY <1>9, <1>10, <1>11, SavedEdit
<1>13. CascadeTypes'
  BY <1>12 DEF CascadeTypes, Start
<1> QED
  BY <1>8, <1>10, <1>12, <1>13 DEF EditStep, PlansKept

\* cancelWorks
LEMMA CancelStep ==
  ASSUME CascadeTypes, SettleInv, NEW hit, Cancel(hit), root \notin Terminal, works # <<>>,
         UNCHANGED <<mode, left, executing, crashes>>, stopRequested' \in BOOLEAN
  PROVE  EditStep /\ \A i \in Ids \ hit : works'[i].planned = works[i].planned
<1> DEFINE cancelled(i) == [works[i] EXCEPT !.status = "interrupted", !.planned = TRUE]
           ws == [i \in Ids |-> IF i \in hit \cap Active THEN cancelled(i) ELSE works[i]]
<1>1. works \in Seq(RunWork) /\ Ids = 1 .. Len(works) /\ DOMAIN works = Ids
      /\ \A j \in Ids : works[j] \in RunWork
  BY WorksOf DEF CascadeTypes, Ids
<1>2. \A i \in Ids :
        /\ cancelled(i) \in RunWork
        /\ cancelled(i).agent = works[i].agent /\ cancelled(i).depth = works[i].depth
        /\ cancelled(i).batch = works[i].batch /\ cancelled(i).review = works[i].review
        /\ cancelled(i).status = "interrupted" /\ cancelled(i).planned
  BY <1>1 DEF RunWork, Statuses, Terminal
<1> HIDE DEF cancelled
<1>3. ws \in [DOMAIN works -> RunWork]
  BY <1>1, <1>2
<1>4. ws \in Seq(RunWork) /\ Len(ws) = Len(works)
  BY <1>1, <1>3, Rewritten
<1>5. \A i \in Ids :
        /\ ws[i].agent = works[i].agent /\ ws[i].depth = works[i].depth
        /\ ws[i].batch = works[i].batch
        /\ ws[i].review = works[i].review
        /\ works[i].status \in Terminal => ws[i].status = works[i].status
        /\ works[i].planned => ws[i].planned
        /\ ws[i].planned => works[i].planned \/ ws[i].status \in Terminal
        /\ i \notin hit => ws[i] = works[i]
  BY <1>2 DEF Active, Terminal
<1>6. SaveWorks(ws)
  BY DEF Cancel, cancelled
<1> HIDE DEF ws
<1>7. Edited(works, ws)
  BY <1>1, <1>4, <1>5 DEF Edited
<1>8. /\ SettleInv' /\ works' = ws /\ root' \in Statuses /\ reported' \in Nat
      /\ works' \in Seq(RunWork) /\ Ids' = Ids /\ \A j \in Ids' : works'[j].batch < j
  BY <1>6, <1>7, SavedEdit
<1>9. CascadeTypes'
  BY <1>8 DEF CascadeTypes
<1> QED
  BY <1>5, <1>7, <1>8, <1>9 DEF EditStep

LEMMA StopStep ==
  ASSUME CascadeTypes, SettleInv, UNCHANGED mode, Stop
  PROVE  EditStep /\ stopRequested'
  BY CancelStep DEF Stop

LEMMA StopAgentStep ==
  ASSUME CascadeTypes, SettleInv, UNCHANGED mode, NEW a, StopAgent(a)
  PROVE  EditStep /\ (a = Admin => PlansKept)
<1>1. PICK i \in Ids : works[i].status \notin Terminal
  BY DEF StopAgent, Active
<1>2. root \notin Terminal /\ works # <<>>
  BY <1>1, NotOver, WorksOf DEF CascadeTypes, Ids
<1>3. stopRequested' \in BOOLEAN
  BY DEF StopAgent, CascadeTypes
<1> DEFINE hit == {j \in Ids : works[j].agent = a}
<1>4. EditStep /\ \A j \in Ids \ hit : works'[j].planned = works[j].planned
  BY <1>2, <1>3, CancelStep DEF StopAgent
<1> QED
  BY <1>4 DEF PlansKept

LEMMA LeaveStep ==
  ASSUME CascadeTypes, SettleInv, UNCHANGED mode, NEW a \in Leavers, Leave(a)
  PROVE  EditStep /\ PlansKept
  BY SameWorks, CascadeAssumption DEF Leave, EditStep, CascadeTypes

LEMMA EndExecutionStep ==
  ASSUME CascadeTypes, SettleInv, UNCHANGED mode, NEW i \in Ids, EndExecution(i)
  PROVE  EditStep /\ PlansKept
  BY SameWorks DEF EndExecution, EditStep, CascadeTypes

LEMMA RestartStep ==
  ASSUME CascadeTypes, SettleInv, UNCHANGED mode, ServerRestart
  PROVE  EditStep /\ PlansKept
<1>1. works \in Seq(RunWork) /\ Ids = 1 .. Len(works) /\ DOMAIN works = Ids
      /\ \A j \in Ids : works[j] \in RunWork
  BY WorksOf DEF CascadeTypes, Ids
<1>2. PICK resubmit \in SUBSET {i \in Ids : works[i].status = "running"} :
        works' = [i \in Ids |->
          IF works[i].status # "running" THEN works[i]
          ELSE [works[i] EXCEPT !.status = IF i \in resubmit THEN "queued" ELSE "uncertain"]]
  BY DEF ServerRestart
<1>3. \A i \in Ids :
        /\ works'[i] \in RunWork
        /\ works'[i].agent = works[i].agent /\ works'[i].depth = works[i].depth
        /\ works'[i].batch = works[i].batch
        /\ works'[i].review = works[i].review /\ works'[i].planned = works[i].planned
        /\ works[i].status # "running" => works'[i].status = works[i].status
        /\ works[i].status = "running" => works'[i].status \notin Terminal
  <2> SUFFICES ASSUME NEW i \in Ids
               PROVE  /\ works'[i] \in RunWork
                      /\ works'[i].agent = works[i].agent
                      /\ works'[i].depth = works[i].depth /\ works'[i].batch = works[i].batch
                      /\ works'[i].review = works[i].review
                      /\ works'[i].planned = works[i].planned
                      /\ works[i].status # "running" => works'[i].status = works[i].status
                      /\ works[i].status = "running" => works'[i].status \notin Terminal
    OBVIOUS
  <2>1. CASE works[i].status # "running"
    BY <1>1, <1>2, <2>1
  <2>2. CASE works[i].status = "running"
    <3>1. PICK status \in {"queued", "uncertain"} :
            works'[i] = [works[i] EXCEPT !.status = status]
      BY <1>2, <2>2
    <3>2. status \in Statuses /\ status \notin Terminal
      BY DEF Statuses, Terminal
    <3> QED
      BY <1>1, <2>2, <3>1, <3>2 DEF RunWork
  <2> QED
    BY <2>1, <2>2
<1>4. works' \in [DOMAIN works -> RunWork]
  BY <1>1, <1>2, <1>3
<1>5. works' \in Seq(RunWork) /\ Len(works') = Len(works)
  BY <1>1, <1>4, Rewritten
<1>6. Ids' = Ids
  BY <1>1, <1>5, WorksOf DEF Ids
<1>7. \A i \in Ids : /\ works[i].status \in Terminal => works'[i].status = works[i].status
                     /\ works'[i].status \in Terminal => works[i].status \in Terminal
  BY <1>3 DEF Terminal
<1>8. Edited(works, works')
  BY <1>1, <1>3, <1>5, <1>7 DEF Edited, SettleInv
<1>9. Done(works') <=> Done(works)
  BY <1>1, <1>3, <1>6, <1>7, DoneMeans DEF Ids
<1>10. works' # <<>> <=> works # <<>>
  BY <1>1, <1>5, WorksOf
<1>11. SettleInv'
  BY <1>3, <1>6, <1>7, <1>9, <1>10 DEF SettleInv, ServerRestart
<1>12. CascadeTypes'
  <2>1. executing' \subseteq Ids' /\ crashes' \in 0 .. MaxCrashes
    BY CascadeAssumption DEF ServerRestart, CascadeTypes
  <2>2. \A i \in Ids' : works'[i].batch < i
    BY <1>3, <1>6 DEF CascadeTypes
  <2> QED
    BY <1>5, <2>1, <2>2 DEF ServerRestart, CascadeTypes
<1> QED
  BY <1>3, <1>8, <1>11, <1>12 DEF EditStep, PlansKept

-----------------------------------------------------------------------------
(* The groups of a host conversation                                       *)

\* The turns there were still belong to whom they did, ended and planned as before.
Continued ==
  /\ works' \in Seq(RunWork) /\ Len(works) <= Len(works')
  /\ \A j \in Ids :
       /\ works'[j].agent = works[j].agent /\ works'[j].depth = works[j].depth
       /\ works'[j].batch = works[j].batch
       /\ works'[j].review = works[j].review
       /\ works[j].status \in Terminal => works'[j].status = works[j].status
       /\ works[j].planned => works'[j].planned

LEMMA EditContinues ==
  ASSUME CascadeTypes, EditStep
  PROVE  Continued /\ Len(works') = Len(works)
<1>1. works \in Seq(RunWork) /\ Ids = 1 .. Len(works) /\ Len(works) \in Nat
  BY WorksOf DEF CascadeTypes, Ids
<1> QED
  BY <1>1 DEF Continued, EditStep, Edited

\* The indices of turns before and after a step.
LEMMA Domains ==
  ASSUME CascadeTypes, Continued
  PROVE  /\ Ids = 1 .. Len(works) /\ Ids' = 1 .. Len(works')
         /\ Len(works) \in Nat /\ Len(works') \in Nat /\ Ids \subseteq Ids'
         /\ \A i \in Ids : works[i] \in RunWork
         /\ \A i \in Ids' : works'[i] \in RunWork
         /\ \A i \in Ids : works[i].batch \in Nat /\ works[i].batch < i
         /\ \A i \in Ids : works[i].batch # 0 => works[i].batch \in Ids
<1>1. works \in Seq(RunWork) /\ works' \in Seq(RunWork)
  BY DEF CascadeTypes, Continued
<1>2. /\ Ids = 1 .. Len(works) /\ Ids' = 1 .. Len(works')
      /\ Len(works) \in Nat /\ Len(works') \in Nat
      /\ \A i \in Ids : works[i] \in RunWork
      /\ \A i \in Ids' : works'[i] \in RunWork
  BY <1>1, WorksOf DEF Ids
<1>3. Ids \subseteq Ids'
  BY <1>2 DEF Continued
<1>4. \A i \in Ids : works[i].batch \in Nat /\ works[i].batch < i
  BY <1>2, WorkFields DEF CascadeTypes
<1> QED
  BY <1>2, <1>3, <1>4

ReviewedAfter(b) == \E j \in Ids' : works'[j].review /\ works'[j].batch = b

LEMMA ReviewedStays ==
  ASSUME CascadeTypes, Continued, NEW j \in Ids, Reviewed(works[j].batch)
  PROVE  ReviewedAfter(works[j].batch)
  BY Domains DEF Reviewed, ReviewedAfter, Continued

\* A step that adds no turn leaves the groups as they are.
LEMMA KeepGroups ==
  ASSUME CascadeTypes, RoleInv, GroupInv, UNCHANGED mode,
         Continued, Len(works') = Len(works)
  PROVE  RoleInv' /\ GroupInv'
<1>1. /\ Ids' = Ids /\ Ids = 1 .. Len(works) /\ Len(works) \in Nat
      /\ \A i \in Ids : works[i].batch # 0 => works[i].batch \in Ids
  BY Domains
<1>2. \A i \in Ids : /\ works'[i].agent = works[i].agent /\ works'[i].batch = works[i].batch
                     /\ works'[i].review = works[i].review
                     /\ works[i].planned => works'[i].planned
                     /\ works[i].status \in Terminal => works'[i].status = works[i].status
  BY DEF Continued
<1>3. RoleInv'
  BY <1>1, <1>2 DEF RoleInv
<1>4. \A i \in Ids : ReviewedAfter(works'[i].batch) <=> Reviewed(works[i].batch)
  BY <1>1, <1>2 DEF Reviewed, ReviewedAfter
<1>5. \A i \in Ids : Len(works) \in Ids /\ (Latest(i)' <=> Latest(i))
  BY <1>1, <1>2 DEF Latest
<1>6. ASSUME mode = "host", NEW i \in Ids
      PROVE  /\ ~Latest(i)' => /\ works'[i].status \in Terminal
                               /\ IF works'[i].agent = Admin THEN works'[i].planned
                                  ELSE ReviewedAfter(works'[i].batch)
             /\ Latest(i)' /\ ~works'[i].review => ~ReviewedAfter(works'[i].batch)
  <2>1. Latest(i)' <=> Latest(i)
    BY <1>5
  <2> QED
    BY <1>2, <1>4, <1>6, <2>1 DEF GroupInv
<1>7. GroupInv'
  BY <1>1, <1>6 DEF GroupInv, Reviewed, ReviewedAfter
<1> QED
  BY <1>3, <1>7

\* The review of the latest batch, whose turns have ended, is a group of its own.
LEMMA ReviewAdded ==
  ASSUME CascadeTypes, RoleInv, GroupInv, UNCHANGED mode, mode = "host",
         Continued, Len(works') = Len(works) + 1,
         NEW i \in Ids, works[i].agent # Admin, ~Reviewed(works[i].batch),
         \A j \in Batch(i) : works[j].status \in Terminal,
         works'[Len(works')].agent = Admin, works'[Len(works')].review,
         works'[Len(works')].batch = works[i].batch
  PROVE  RoleInv' /\ GroupInv'
<1> DEFINE new == Len(works')
           b == works[i].batch
<1>1. /\ Ids = 1 .. Len(works) /\ Len(works) \in Nat
      /\ Ids' = Ids \cup {new} /\ new \notin Ids /\ new \in Nat /\ 1 \in Ids
      /\ \A j \in Ids : works[j].batch # 0 => works[j].batch \in Ids
      /\ \A j \in Ids : works[j] \in RunWork
  BY Domains
<1>2. \A j \in Ids : /\ works'[j].agent = works[j].agent /\ works'[j].batch = works[j].batch
                     /\ works'[j].review = works[j].review
                     /\ works[j].planned => works'[j].planned
                     /\ works[j].status \in Terminal => works'[j].status = works[j].status
  BY DEF Continued
<1>3. ~works[i].review /\ Latest(i)
  BY DEF RoleInv, GroupInv
<1>4. \A j \in Ids : Latest(j) => ~works[j].review /\ works[j].batch = b
  BY <1>3 DEF Latest
<1>5. \A j \in Ids : works[j].review => works[j].batch # b
  BY DEF Reviewed
<1>6. ReviewedAfter(b)
  BY <1>1 DEF ReviewedAfter
<1>7. \A j \in Ids : Reviewed(works[j].batch) => ReviewedAfter(works[j].batch)
  BY ReviewedStays
<1> HIDE DEF new, b
<1>8. RoleInv'
  <2> SUFFICES ASSUME NEW j \in Ids'
               PROVE  /\ works'[j].review =>
                           /\ mode = "host" /\ works'[j].agent = Admin
                           /\ \E k \in Ids' : ~works'[k].review /\ works'[k].batch = works'[j].batch
                           /\ \A k \in Ids' : works'[k].review /\ works'[k].batch = works'[j].batch
                                => j = k
                      /\ ~works'[j].review => IF works'[j].batch = 0 THEN j = 1
                                              ELSE works'[j].agent # Admin
                      /\ works'[j].batch # 0 => works'[works'[j].batch].planned
    BY DEF RoleInv
  <2>1. CASE j = new
    <3>1. works'[j].review /\ works'[j].agent = Admin /\ works'[j].batch = b
      BY <2>1 DEF new, b
    <3>2. ~works'[i].review /\ works'[i].batch = b
      BY <1>2, <1>3 DEF b
    <3>3. \A k \in Ids' : works'[k].review /\ works'[k].batch = b => k = new
      BY <1>1, <1>2, <1>5
    <3>4. b # 0 => works'[b].planned
      BY <1>1, <1>2 DEF b, RoleInv
    <3> QED
      BY <1>1, <2>1, <3>1, <3>2, <3>3, <3>4
  <2>2. CASE j \in Ids
    <3>1. works'[j].review => /\ \E k \in Ids' : ~works'[k].review /\ works'[k].batch = works'[j].batch
                              /\ \A k \in Ids' : works'[k].review /\ works'[k].batch = works'[j].batch
                                   => j = k
      <4> SUFFICES ASSUME works'[j].review
                   PROVE  /\ \E k \in Ids' : ~works'[k].review /\ works'[k].batch = works'[j].batch
                          /\ \A k \in Ids' : works'[k].review /\ works'[k].batch = works'[j].batch
                               => j = k
        OBVIOUS
      <4>1. works[j].review /\ works'[j].batch = works[j].batch /\ works[j].batch # b
        BY <1>2, <1>5, <2>2
      <4>2. PICK k \in Ids : ~works[k].review /\ works[k].batch = works[j].batch
        BY <2>2, <4>1 DEF RoleInv
      <4>3. works'[new].batch = b
        BY DEF new, b
      <4>4. \A l \in Ids : works'[l].review /\ works'[l].batch = works'[j].batch => j = l
        BY <1>2, <2>2, <4>1 DEF RoleInv
      <4> QED
        BY <1>1, <1>2, <4>1, <4>2, <4>3, <4>4
    <3>2. works'[j].batch # 0 => works'[works'[j].batch].planned
      BY <1>1, <1>2, <2>2 DEF RoleInv
    <3> QED
      BY <1>2, <2>2, <3>1, <3>2 DEF RoleInv
  <2> QED
    BY <1>1, <2>1, <2>2
<1>9. GroupInv'
  <2>1. ASSUME NEW j \in Ids
        PROVE  /\ ~Latest(j)' /\ works'[j].status \in Terminal
               /\ IF works'[j].agent = Admin THEN works'[j].planned
                  ELSE ReviewedAfter(works'[j].batch)
    <3>1. works'[new].review /\ works'[new].batch = b
      BY DEF new, b
    <3>2. ~Latest(j)'
      BY <1>2, <1>5, <3>1 DEF Latest, new
    <3>3. CASE Latest(j)
      <4>1. ~works[j].review /\ works[j].batch = b
        BY <1>4, <3>3
      <4>2. works[j].status \in Terminal
        BY <4>1 DEF Batch, b
      <4>3. works[j].agent # Admin
        BY <4>1, <1>3 DEF RoleInv, b
      <4> QED
        BY <1>2, <1>6, <3>2, <4>1, <4>2, <4>3
    <3>4. CASE ~Latest(j)
      <4>1. /\ works[j].status \in Terminal
            /\ IF works[j].agent = Admin THEN works[j].planned ELSE Reviewed(works[j].batch)
        BY <3>4 DEF GroupInv
      <4> QED
        BY <1>2, <1>7, <3>2, <4>1
    <3> QED
      BY <3>3, <3>4
  <2>2. works'[new].review /\ works'[new].batch = works'[Len(works')].batch
        /\ works'[new].review = works'[Len(works')].review
    BY DEF new
  <2> QED
    BY <1>1, <2>1, <2>2 DEF GroupInv, Latest, Reviewed, ReviewedAfter
<1> QED
  BY <1>8, <1>9

\* The only turn of the administrator that is not planned is a group of its own; the
\* batch it delegates is new.
LEMMA BatchAdded ==
  ASSUME CascadeTypes, RoleInv, GroupInv, UNCHANGED mode, mode = "host",
         Continued, Len(works') > Len(works),
         NEW i \in Ids, works[i].agent = Admin, works[i].status \in Terminal,
         ~works[i].planned, works'[i].planned,
         \A j \in Ids' \ Ids : /\ works'[j].agent # Admin /\ works'[j].batch = i
                               /\ ~works'[j].review
  PROVE  RoleInv' /\ GroupInv'
<1>1. /\ Ids = 1 .. Len(works) /\ Len(works) \in Nat /\ Ids \subseteq Ids'
      /\ Len(works') \in Ids' \ Ids /\ i # 0
      /\ \A j \in Ids : works[j].batch # 0 => works[j].batch \in Ids
      /\ \A j \in Ids : works[j] \in RunWork
  BY Domains
<1>2. \A j \in Ids : /\ works'[j].agent = works[j].agent /\ works'[j].batch = works[j].batch
                     /\ works'[j].review = works[j].review
                     /\ works[j].planned => works'[j].planned
                     /\ works[j].status \in Terminal => works'[j].status = works[j].status
  BY DEF Continued
<1>3. Latest(i)
  BY DEF GroupInv
<1>4. \A j \in Ids : works[j].batch # i
  BY <1>1 DEF RoleInv
<1>5. \A j \in Ids : Reviewed(works[j].batch) => ReviewedAfter(works[j].batch)
  BY ReviewedStays
<1>6. \A j \in Ids : Latest(j) => j = i
  <2> SUFFICES ASSUME NEW j \in Ids, Latest(j) PROVE j = i
    OBVIOUS
  <2>1. works[j].batch = works[i].batch /\ works[j].review = works[i].review
    BY <1>3 DEF Latest
  <2>2. CASE works[i].review
    BY <2>1, <2>2 DEF RoleInv
  <2>3. CASE ~works[i].review
    <3>1. works[i].batch = 0 /\ i = 1
      BY <2>3 DEF RoleInv
    <3> QED
      BY <2>1, <2>3, <3>1 DEF RoleInv
  <2> QED
    BY <2>2, <2>3
<1>7. RoleInv'
  <2> SUFFICES ASSUME NEW j \in Ids'
               PROVE  /\ works'[j].review =>
                           /\ mode = "host" /\ works'[j].agent = Admin
                           /\ \E k \in Ids' : ~works'[k].review /\ works'[k].batch = works'[j].batch
                           /\ \A k \in Ids' : works'[k].review /\ works'[k].batch = works'[j].batch
                                => j = k
                      /\ ~works'[j].review => IF works'[j].batch = 0 THEN j = 1
                                              ELSE works'[j].agent # Admin
                      /\ works'[j].batch # 0 => works'[works'[j].batch].planned
    BY DEF RoleInv
  <2>1. CASE j \in Ids
    <3>1. works'[j].review => /\ \E k \in Ids' : ~works'[k].review /\ works'[k].batch = works'[j].batch
                              /\ \A k \in Ids' : works'[k].review /\ works'[k].batch = works'[j].batch
                                   => j = k
      <4> SUFFICES ASSUME works'[j].review
                   PROVE  /\ \E k \in Ids' : ~works'[k].review /\ works'[k].batch = works'[j].batch
                          /\ \A k \in Ids' : works'[k].review /\ works'[k].batch = works'[j].batch
                               => j = k
        OBVIOUS
      <4>1. works[j].review /\ works'[j].batch = works[j].batch
        BY <1>2, <2>1
      <4>2. PICK k \in Ids : ~works[k].review /\ works[k].batch = works[j].batch
        BY <2>1, <4>1 DEF RoleInv
      <4>3. \A l \in Ids : works'[l].review /\ works'[l].batch = works'[j].batch => j = l
        BY <1>2, <2>1, <4>1 DEF RoleInv
      <4> QED
        BY <1>1, <1>2, <4>1, <4>2, <4>3
    <3>2. works'[j].batch # 0 => works'[works'[j].batch].planned
      <4>1. works[j].batch # 0 => works[works[j].batch].planned /\ works[j].batch \in Ids
        BY <1>1, <2>1 DEF RoleInv
      <4> QED
        BY <1>2, <2>1, <4>1
    <3> QED
      BY <1>2, <2>1, <3>1, <3>2 DEF RoleInv
  <2>2. CASE j \notin Ids
    BY <1>1, <2>2
  <2> QED
    BY <2>1, <2>2
<1>8. GroupInv'
  <2>1. works'[Len(works')].batch = i
    BY <1>1
  <2>2. ASSUME NEW j \in Ids
        PROVE  /\ ~Latest(j)' /\ works'[j].status \in Terminal
               /\ IF works'[j].agent = Admin THEN works'[j].planned
                  ELSE ReviewedAfter(works'[j].batch)
    <3>1. ~Latest(j)'
      BY <1>2, <1>4, <2>1 DEF Latest
    <3>2. CASE Latest(j)
      BY <1>2, <1>6, <3>1, <3>2
    <3>3. CASE ~Latest(j)
      <4>1. /\ works[j].status \in Terminal
            /\ IF works[j].agent = Admin THEN works[j].planned ELSE Reviewed(works[j].batch)
        BY <3>3 DEF GroupInv
      <4> QED
        BY <1>2, <1>5, <3>1, <4>1
    <3> QED
      BY <3>2, <3>3
  <2>3. ASSUME NEW j \in Ids' \ Ids
        PROVE  Latest(j)' /\ ~ReviewedAfter(works'[j].batch)
    <3>1. works'[j].batch = i /\ ~works'[j].review
      OBVIOUS
    <3>2. ~works'[Len(works')].review
      BY <1>1
    <3>3. Latest(j)'
      BY <2>1, <3>1, <3>2, <1>1, Domains, WorkFields DEF Latest
    <3>4. ~ReviewedAfter(i)
      BY <1>2, <1>4 DEF ReviewedAfter
    <3> QED
      BY <3>1, <3>3, <3>4
  <2> QED
    BY <2>2, <2>3 DEF GroupInv, Reviewed, ReviewedAfter
<1> QED
  BY <1>7, <1>8

\* A batch that has no review keeps a turn to be planned, when whatever is planned
\* brings the review or leaves such a turn.
LEMMA ReviewKept ==
  ASSUME CascadeTypes, RoleInv, ReviewInv, UNCHANGED mode, Continued,
         stopRequested \in BOOLEAN, ~stopRequested' => ~stopRequested,
         \A j \in Ids :
           (mode = "host" /\ ~stopRequested' /\ works[j].agent # Admin
              /\ ~works[j].planned /\ works'[j].planned) =>
                \/ ReviewedAfter(works[j].batch)
                \/ \E k \in Ids : /\ works[k].batch = works[j].batch
                                  /\ ~works[k].review /\ ~works'[k].planned,
         \A j \in Ids' \ Ids : works'[j].agent # Admin => ~works'[j].planned /\ ~works'[j].review
  PROVE  ReviewInv'
<1> SUFFICES ASSUME mode = "host", ~stopRequested', NEW i \in Ids', works'[i].agent # Admin
             PROVE  \/ ReviewedAfter(works'[i].batch)
                    \/ \E j \in Ids' : /\ works'[j].batch = works'[i].batch /\ ~works'[j].review
                                       /\ ~works'[j].planned
  BY DEF ReviewInv, Reviewed, ReviewedAfter
<1>1. Ids \subseteq Ids'
  BY Domains
<1>2. CASE i \notin Ids
  BY <1>2
<1>3. CASE i \in Ids
  <2>1. /\ works'[i].agent = works[i].agent /\ works'[i].batch = works[i].batch
        /\ ~works[i].review
    BY <1>3 DEF Continued, RoleInv
  <2>2. CASE Reviewed(works[i].batch)
    BY <2>1, <2>2, ReviewedStays
  <2>3. CASE ~Reviewed(works[i].batch)
    <3>1. PICK j \in Ids : /\ works[j].batch = works[i].batch /\ ~works[j].review
                           /\ ~works[j].planned
      BY <1>3, <2>1, <2>3 DEF ReviewInv
    <3>2. works[j].agent # Admin
      BY <1>3, <2>1, <3>1 DEF RoleInv
    <3>3. CASE ~works'[j].planned
      BY <1>1, <2>1, <3>1, <3>3 DEF Continued
    <3>4. CASE works'[j].planned
      <4>1. \/ ReviewedAfter(works[j].batch)
            \/ \E k \in Ids : /\ works[k].batch = works[j].batch
                              /\ ~works[k].review /\ ~works'[k].planned
        BY <3>1, <3>2, <3>4
      <4> QED
        BY <1>1, <2>1, <3>1, <4>1 DEF Continued
    <3> QED
      BY <3>3, <3>4
  <2> QED
    BY <2>2, <2>3
<1> QED
  BY <1>2, <1>3

-----------------------------------------------------------------------------
(* Admission                                                               *)

LEMMA AdmittedRun ==
  ASSUME CascadeTypes, SettleInv, works = <<>>,
         UNCHANGED <<mode, stopRequested, left, executing, crashes>>,
         NEW ws \in Seq(RunWork), ws # <<>>, SaveWorks(ws),
         \A i \in 1 .. Len(ws) : ~ws[i].planned /\ ws[i].batch = 0 /\ ~ws[i].review,
         mode = "host" => Len(ws) = 1
  PROVE  CascadeInv' /\ ReviewInv'
<1>1. root \notin Terminal
  BY DEF SettleInv
<1>2. SettleInv' /\ works' = ws /\ root' \in Statuses /\ reported' \in Nat
  BY <1>1, Saved
<1>3. /\ Ids' = 1 .. Len(ws) /\ Len(ws) \in Nat /\ Len(ws) # 0
      /\ \A i \in Ids' : works'[i] \in RunWork
  BY <1>2, WorksOf DEF Ids
<1>4. Ids = {}
  BY DEF Ids
<1>5. CascadeTypes'
  <2>1. \A i \in Ids' : works'[i].batch < i
    BY <1>2, <1>3
  <2> QED
    BY <1>2, <1>4, <2>1 DEF CascadeTypes
<1>6. RoleInv'
  BY <1>2, <1>3 DEF RoleInv
<1>7. GroupInv'
  <2> SUFFICES ASSUME mode' = "host", NEW i \in Ids'
               PROVE  Latest(i)' /\ \A j \in Ids' : ~works'[j].review
    BY DEF GroupInv, Reviewed
  <2>1. Len(ws) = 1
    OBVIOUS
  <2>2. Len(works') = 1 /\ i = 1
    BY <1>2, <1>3, <2>1
  <2> QED
    BY <1>2, <1>3, <2>2 DEF Latest
<1>8. ReviewInv'
  BY <1>2, <1>3 DEF ReviewInv
<1> QED
  BY <1>2, <1>5, <1>6, <1>7, <1>8 DEF CascadeInv

LEMMA OneWork ==
  ASSUME NEW agent \in Members, NEW required \in BOOLEAN
  PROVE  LET ws == <<NewWork(agent, 0, 0, FALSE, required)>> IN
         /\ ws \in Seq(RunWork) /\ ws # <<>> /\ Len(ws) = 1
         /\ ~ws[1].planned /\ ws[1].batch = 0 /\ ~ws[1].review
<1> DEFINE work == NewWork(agent, 0, 0, FALSE, required)
<1>1. work \in RunWork /\ ~work.planned /\ work.batch = 0 /\ ~work.review
  BY DEF NewWork, RunWork, Statuses
<1> HIDE DEF work
<1>2. /\ <<work>> \in Seq(RunWork) /\ <<work>> # <<>> /\ Len(<<work>>) = 1
      /\ <<work>>[1] = work
  BY <1>1
<1>3. ~<<work>>[1].planned /\ <<work>>[1].batch = 0 /\ ~<<work>>[1].review
  BY <1>1, <1>2
<1> QED
  BY <1>2, <1>3 DEF work

LEMMA OneAdmitted ==
  ASSUME CascadeTypes, SettleInv, works = <<>>,
         UNCHANGED <<mode, stopRequested, left, executing, crashes>>,
         NEW agent \in Members, NEW required \in BOOLEAN,
         SaveWorks(<<NewWork(agent, 0, 0, FALSE, required)>>)
  PROVE  CascadeInv' /\ ReviewInv'
<1> DEFINE ws == <<NewWork(agent, 0, 0, FALSE, required)>>
<1>1. /\ ws \in Seq(RunWork) /\ ws # <<>> /\ Len(ws) = 1
      /\ ~ws[1].planned /\ ws[1].batch = 0 /\ ~ws[1].review
  BY OneWork
<1>2. SaveWorks(ws)
  OBVIOUS
<1> HIDE DEF ws
<1>3. \A i \in 1 .. Len(ws) : ~ws[i].planned /\ ws[i].batch = 0 /\ ~ws[i].review
  BY <1>1
<1> QED
  BY <1>1, <1>2, <1>3, AdmittedRun

LEMMA AdmitStep ==
  ASSUME CascadeTypes, SettleInv, UNCHANGED mode, AdmitRun
  PROVE  CascadeInv' /\ ReviewInv'
<1>0. works = <<>> /\ UNCHANGED <<mode, stopRequested, left, executing, crashes>>
  BY DEF AdmitRun
<1>1. CASE SaveWorks(<<NewWork(Admin, 0, 0, FALSE, TRUE)>>)
  BY <1>0, <1>1, OneAdmitted, CascadeAssumption
<1>2. CASE \E a \in Members \ left : SaveWorks(<<NewWork(a, 0, 0, FALSE, TRUE)>>)
  <2>1. PICK a \in Members : SaveWorks(<<NewWork(a, 0, 0, FALSE, TRUE)>>)
    BY <1>2
  <2> QED
    BY <1>0, <2>1, OneAdmitted
<1>3. ASSUME mode = "free", NEW mentions \in (SUBSET (Members \ left)) \ {{}},
             SaveWorks(EnqueueAll(<<>>, mentions, 0, 0, FALSE))
      PROVE  CascadeInv' /\ ReviewInv'
  <2> DEFINE ws == EnqueueAll(<<>>, mentions, 0, 0, FALSE)
  <2>1. <<>> \in Seq(RunWork) /\ Len(<<>>) = 0
    OBVIOUS
  <2>2. mentions \in SUBSET Members /\ mentions # {}
    BY <1>3
  <2>3. Grown(<<>>, ws) /\ ws # <<>> /\ Asked(<<>>, ws, mentions, 0)
    BY <2>1, <2>2, EnqueueAllGrows
  <2>4. SaveWorks(ws)
    BY <1>3
  <2> HIDE DEF ws
  <2>5. /\ ws \in Seq(RunWork)
        /\ \A i \in 1 .. Len(ws) : ~ws[i].planned /\ ws[i].batch = 0 /\ ~ws[i].review
    BY <2>1, <2>3 DEF Grown, Asked
  <2> QED
    BY <1>0, <1>3, <2>3, <2>5, <2>4, AdmittedRun
<1>4. ASSUME mode = "free",
             SaveWorks(EnqueueAll(<<NewWork(Admin, 0, 0, FALSE, TRUE)>>,
                                  AutomaticBots \ left, 0, 0, FALSE))
      PROVE  CascadeInv' /\ ReviewInv'
  <2> DEFINE first == <<NewWork(Admin, 0, 0, FALSE, TRUE)>>
             ws == EnqueueAll(first, AutomaticBots \ left, 0, 0, FALSE)
  <2>1. /\ first \in Seq(RunWork) /\ Len(first) = 1
        /\ ~first[1].planned /\ first[1].batch = 0 /\ ~first[1].review
    BY OneWork, CascadeAssumption
  <2>2. AutomaticBots \ left \in SUBSET Members
    BY CascadeAssumption
  <2>3. SaveWorks(ws)
    BY <1>4
  <2> HIDE DEF first
  <2>4. Grown(first, ws) /\ Asked(first, ws, AutomaticBots \ left, 0)
    BY <2>1, <2>2, EnqueueAllGrows
  <2> HIDE DEF ws
  <2>5. Len(ws) \in Nat /\ Len(ws) >= 1 /\ ws # <<>> /\ ws \in Seq(RunWork)
    BY <2>1, <2>4, WorksOf DEF Grown
  <2>6. \A i \in 1 .. Len(ws) : ~ws[i].planned /\ ws[i].batch = 0 /\ ~ws[i].review
    <3>1. ws[1] = first[1]
      BY <2>1, <2>4 DEF Grown
    <3> QED
      BY <2>1, <2>4, <2>5, <3>1 DEF Grown, Asked
  <2> QED
    BY <1>0, <1>4, <2>3, <2>5, <2>6, AdmittedRun
<1>5. CASE mode = "discussion" /\ SaveWorks(<<NewWork(SlotAgent(0), 0, 0, FALSE, FALSE)>>)
  <2>1. SlotAgent(0) \in Members
    BY <1>5, CascadeSlots DEF CascadeTypes
  <2> QED
    BY <1>0, <1>5, <2>1, OneAdmitted
<1> QED
  BY <1>1, <1>2, <1>3, <1>4, <1>5 DEF AdmitRun

-----------------------------------------------------------------------------
(* plan                                                                    *)

Planned(i) == [works EXCEPT ![i].planned = TRUE]

LEMMA PlannedEdit ==
  ASSUME CascadeTypes, SettleInv, NEW i \in Ids, works[i].status \in Terminal
  PROVE  /\ Edited(works, Planned(i)) /\ Planned(i)[i].planned
         /\ \A j \in Ids \ {i} : Planned(i)[j] = works[j]
<1> DEFINE ws == Planned(i)
<1>1. works \in Seq(RunWork) /\ Ids = 1 .. Len(works) /\ DOMAIN works = Ids
      /\ \A j \in Ids : works[j] \in RunWork
  BY WorksOf DEF CascadeTypes, Ids
<1>2. ws[i] = [works[i] EXCEPT !.planned = TRUE] /\ \A j \in Ids \ {i} : ws[j] = works[j]
  BY <1>1 DEF Planned
<1>3. /\ ws[i] \in RunWork /\ ws[i].agent = works[i].agent /\ ws[i].depth = works[i].depth
      /\ ws[i].batch = works[i].batch
      /\ ws[i].review = works[i].review /\ ws[i].status = works[i].status /\ ws[i].planned
  BY <1>1, <1>2 DEF RunWork
<1>4. ws \in [DOMAIN works -> RunWork]
  BY <1>1, <1>2, <1>3 DEF Planned
<1>5. ws \in Seq(RunWork) /\ Len(ws) = Len(works)
  BY <1>1, <1>4, Rewritten
<1> HIDE DEF ws
<1>6. Edited(works, ws)
  BY <1>1, <1>2, <1>3, <1>5 DEF Edited
<1> QED
  BY <1>2, <1>3, <1>6 DEF ws

\* What a plan stores: its turn planned, and new turns of a batch known by then.
LEMMA PlanSaved ==
  ASSUME CascadeTypes, SettleInv, NEW i \in Ids, works[i].status \in Terminal,
         ~works[i].planned, UNCHANGED <<mode, stopRequested, left, executing, crashes>>,
         NEW out, Grown(Planned(i), out), SaveWorks(out),
         \A j \in Len(works) + 1 .. Len(out) : out[j].batch < j
  PROVE  /\ CascadeTypes' /\ SettleInv' /\ Continued /\ works' = out
         /\ Ids' \ Ids = Len(works) + 1 .. Len(out)
         /\ works'[i].planned
         /\ \A j \in Ids \ {i} : works'[j].planned = works[j].planned
<1> DEFINE done == Planned(i)
<1>1. /\ Edited(works, done) /\ done[i].planned
      /\ \A j \in Ids \ {i} : done[j] = works[j]
  BY PlannedEdit
<1>2. /\ works \in Seq(RunWork) /\ Ids = 1 .. Len(works) /\ Len(works) \in Nat
      /\ works # <<>> /\ Len(works) # 0
      /\ \A j \in Ids : works[j].batch < j
  BY WorksOf DEF CascadeTypes, Ids
<1> HIDE DEF done
<1>3. Len(done) = Len(works) /\ done \in Seq(RunWork)
  BY <1>1 DEF Edited
<1>4. /\ out \in Seq(RunWork) /\ Len(works) <= Len(out) /\ Len(out) \in Nat
      /\ DOMAIN out = 1 .. Len(out) /\ out # <<>>
  BY <1>2, <1>3, WorksOf DEF Grown, done
<1>5. /\ \A j \in Ids : out[j] = done[j]
      /\ \A j \in Len(works) + 1 .. Len(out) : ~out[j].planned
  BY <1>2, <1>3 DEF Grown, done
<1>6. \A j \in 1 .. Len(out) : j \in Ids \/ j \in Len(works) + 1 .. Len(out)
  BY <1>2, <1>4
<1>7. \A j \in Ids :
        /\ out[j].agent = works[j].agent /\ out[j].depth = works[j].depth
        /\ out[j].batch = works[j].batch
        /\ out[j].review = works[j].review
        /\ works[j].status \in Terminal => out[j].status = works[j].status
        /\ works[j].planned => out[j].planned
        /\ out[j].planned => works[j].planned \/ out[j].status \in Terminal
  BY <1>1, <1>2, <1>5 DEF Edited
<1>8. \A j \in 1 .. Len(out) : out[j].planned => out[j].status \in Terminal
  BY <1>5, <1>6, <1>7 DEF SettleInv
<1>9. root \notin Terminal
  BY NotOver
<1>10. SettleInv' /\ works' = out /\ root' \in Statuses /\ reported' \in Nat
  BY <1>4, <1>8, <1>9, Saved
<1>11. Ids' = 1 .. Len(out)
  BY <1>4, <1>10 DEF Ids
<1>12. CascadeTypes'
  <2>1. \A j \in Ids' : works'[j].batch < j
    BY <1>2, <1>6, <1>7, <1>10, <1>11
  <2>2. executing' \subseteq Ids'
    BY <1>2, <1>4, <1>11 DEF CascadeTypes
  <2> QED
    BY <1>4, <1>10, <2>1, <2>2 DEF CascadeTypes
<1>13. Continued
  BY <1>4, <1>7, <1>10 DEF Continued
<1>14. Ids' \ Ids = Len(works) + 1 .. Len(out)
  BY <1>2, <1>4, <1>11
<1> QED
  BY <1>1, <1>5, <1>10, <1>12, <1>13, <1>14

LEMMA Least ==
  ASSUME NEW T \in SUBSET Nat, T # {}
  PROVE  \E x \in T : \A y \in T : x <= y
<1>1. PICK x \in T : \A y \in T : ~(<<y, x>> \in OpToRel(<, Nat))
  BY NatLessThanWellFounded, WFMin
<1>2. \A y \in T : ~(y < x)
  BY <1>1 DEF OpToRel
<1> QED
  BY <1>2

LEMMA SpeakerType ==
  ASSUME NEW i \in Ids, NEW s \in NextSpeaker(i)
  PROVE  s \in Nat
<1> DEFINE later == {t \in SpeakerSlots : t > SlotOf(works[i]) /\ SlotAgent(t) \notin left}
<1>1. later \in SUBSET Nat
  BY DEF SpeakerSlots
<1> HIDE DEF later
<1>2. later # {} /\ s = CHOOSE t \in later : \A u \in later : t <= u
  BY DEF NextSpeaker, later
<1> QED
  BY <1>1, <1>2, Least

LEMMA TargetsType ==
  ASSUME NEW i \in Ids, NEW targets \in RelayTargets(i)
  PROVE  targets \in SUBSET (Members \ {works[i].agent})
<1> DEFINE eligible == Members \ (left \cup {works[i].agent})
           automatic == IF mode = "free" THEN AutomaticBots \cap eligible ELSE {}
           addressed == (SUBSET eligible) \cup {automatic}
<1>1. automatic \subseteq eligible
  OBVIOUS
<1>2. \A t \in addressed : t \subseteq eligible
  <2> HIDE DEF automatic, eligible
  <2> QED
    BY <1>1
<1>3. targets \in addressed \/ targets \in UNION {SUBSET t : t \in addressed}
  BY DEF RelayTargets
<1> HIDE DEF addressed
<1> QED
  BY <1>2, <1>3

\* What plan does: nothing follows, the next speaker, the review of a batch, or the turns
\* of those that are mentioned.
LEMMA PlanCases ==
  ASSUME NEW i, Plan(i)
  PROVE  \/ /\ SaveWorks(Planned(i))
            /\ mode = "host" /\ ~stopRequested /\ works[i].agent # Admin =>
                 \E j \in Batch(i) : works[j].status \notin Terminal
         \/ /\ mode = "discussion"
            /\ \E s \in NextSpeaker(i) : SaveWorks(Enqueue(Planned(i),
                 NewWork(SlotAgent(s), SlotRound(s), 0, FALSE, FALSE)))
         \/ /\ mode = "host" /\ works[i].agent # Admin
            /\ \A j \in Batch(i) : works[j].status \in Terminal
            /\ SaveWorks(Enqueue(Planned(i),
                 NewWork(Admin, works[i].depth, works[i].batch, TRUE, TRUE)))
         \/ /\ mode = "host" => works[i].agent = Admin
            /\ mode # "discussion"
            /\ \E targets \in RelayTargets(i) :
                 SaveWorks(EnqueueAll(Planned(i), targets, works[i].depth + 1, i, FALSE))
<1>1. CASE stopRequested
  BY <1>1 DEF Plan, Planned
<1>2. CASE ~stopRequested /\ mode = "discussion"
  <2>1. IF NextSpeaker(i) = {} THEN SaveWorks(Planned(i))
        ELSE \E s \in NextSpeaker(i) : SaveWorks(Enqueue(Planned(i),
               NewWork(SlotAgent(s), SlotRound(s), 0, FALSE, FALSE)))
    BY <1>2 DEF Plan, Planned
  <2> QED
    BY <1>2, <2>1
<1>3. CASE ~stopRequested /\ mode = "host" /\ works[i].agent # Admin
  <2>1. IF \A j \in Batch(i) : works[j].status \in Terminal
        THEN SaveWorks(Enqueue(Planned(i),
               NewWork(Admin, works[i].depth, works[i].batch, TRUE, TRUE)))
        ELSE SaveWorks(Planned(i))
    BY <1>3 DEF Plan, Planned
  <2> QED
    BY <1>3, <2>1
<1>4. CASE ~stopRequested /\ mode # "discussion" /\ ~(mode = "host" /\ works[i].agent # Admin)
  <2>1. \E targets \in RelayTargets(i) :
          \/ SaveWorks(EnqueueAll(Planned(i), targets, works[i].depth + 1, i, FALSE))
          \/ SaveWorks(Planned(i))
    BY <1>4 DEF Plan, Planned
  <2> QED
    BY <1>4, <2>1
<1> QED
  BY <1>1, <1>2, <1>3, <1>4

\* Outside host groups there are no reviews.
LEMMA NoReviews ==
  ASSUME CascadeTypes, RoleInv, UNCHANGED mode, mode # "host", Continued,
         \A j \in Ids' \ Ids : ~works'[j].review
  PROVE  RoleInv' /\ GroupInv' /\ ReviewInv'
<1>1. \A j \in Ids' : ~works'[j].review
  BY DEF Continued, RoleInv
<1> QED
  BY <1>1 DEF RoleInv, GroupInv, ReviewInv

LEMMA PlanStep ==
  ASSUME CascadeInv, UNCHANGED mode, NEW i \in Ids, Plan(i)
  PROVE  CascadeInv' /\ (ReviewInv => ReviewInv')
<1> DEFINE done == Planned(i)
<1>1. CascadeTypes /\ SettleInv /\ RoleInv /\ GroupInv
  BY DEF CascadeInv
<1>2. /\ works[i].status \in Terminal /\ ~works[i].planned
      /\ UNCHANGED <<mode, stopRequested, left, executing, crashes>>
  BY DEF Plan
<1>3. /\ works \in Seq(RunWork) /\ Ids = 1 .. Len(works) /\ Len(works) \in Nat
      /\ \A j \in Ids : works[j] \in RunWork /\ works[j].batch \in Nat /\ works[j].batch < j
  BY <1>1, WorksOf, WorkFields DEF CascadeTypes, Ids
<1>4. /\ Edited(works, done)
      /\ done \in Seq(RunWork) /\ Len(done) = Len(works) /\ DOMAIN done = Ids
      /\ \A j \in Ids : done[j].review = works[j].review /\ done[j].batch = works[j].batch
  <2>1. Edited(works, done)
    BY <1>1, <1>2, PlannedEdit
  <2> HIDE DEF done
  <2>2. done \in Seq(RunWork) /\ Len(done) = Len(works)
    BY <2>1 DEF Edited
  <2> QED
    BY <1>3, <2>1, <2>2, WorksOf DEF Edited
<1>5. stopRequested \in BOOLEAN /\ (~stopRequested' => ~stopRequested)
  BY <1>1, <1>2 DEF CascadeTypes
<1>6. CASE /\ SaveWorks(done)
           /\ mode = "host" /\ ~stopRequested /\ works[i].agent # Admin =>
                \E j \in Batch(i) : works[j].status \notin Terminal
  <2>1. Grown(done, done)
    BY <1>3, <1>4 DEF Grown
  <2>2. \A j \in Len(works) + 1 .. Len(done) : FALSE
    BY <1>3, <1>4
  <2>3. /\ CascadeTypes' /\ SettleInv' /\ Continued /\ works' = done
        /\ \A j \in Ids \ {i} : works'[j].planned = works[j].planned
        /\ Ids' \ Ids = Len(works) + 1 .. Len(done)
    BY <1>1, <1>2, <1>6, <2>1, <2>2, PlanSaved
  <2>4. RoleInv' /\ GroupInv'
    BY <1>1, <1>2, <1>4, <2>3, KeepGroups
  <2>5. \A j \in Ids :
          (mode = "host" /\ ~stopRequested' /\ works[j].agent # Admin
             /\ ~works[j].planned /\ works'[j].planned) =>
          \E k \in Ids : works[k].batch = works[j].batch /\ ~works[k].review /\ ~works'[k].planned
    <3> SUFFICES ASSUME NEW j \in Ids, mode = "host", ~stopRequested', works[j].agent # Admin,
                        ~works[j].planned, works'[j].planned
                 PROVE  \E k \in Ids : /\ works[k].batch = works[j].batch
                                       /\ ~works[k].review /\ ~works'[k].planned
      OBVIOUS
    <3>1. j = i
      BY <2>3
    <3>2. PICK k \in Batch(i) : works[k].status \notin Terminal
      BY <1>5, <1>6, <3>1
    <3>3. k \in Ids /\ works[k].batch = works[i].batch /\ ~works[k].review
      BY DEF Batch
    <3>4. ~works[k].planned /\ k # i
      BY <1>1, <1>2, <3>2, <3>3 DEF SettleInv
    <3> QED
      BY <2>3, <3>1, <3>3, <3>4
  <2>6. ReviewInv => ReviewInv'
    BY <1>1, <1>2, <1>5, <2>2, <2>3, <2>5, ReviewKept
  <2> QED
    BY <2>3, <2>4, <2>6 DEF CascadeInv
<1>7. ASSUME mode = "discussion", NEW s \in NextSpeaker(i),
             SaveWorks(Enqueue(done, NewWork(SlotAgent(s), SlotRound(s), 0, FALSE, FALSE)))
      PROVE  CascadeInv' /\ (ReviewInv => ReviewInv')
  <2> DEFINE work == NewWork(SlotAgent(s), SlotRound(s), 0, FALSE, FALSE)
             out == Enqueue(done, work)
  <2>1. SlotAgent(s) \in Members /\ SlotRound(s) \in Nat
    BY <1>1, <1>7, SpeakerType, CascadeSlots DEF CascadeTypes
  <2>2. work \in RunWork /\ work.status = "queued" /\ ~work.planned
        /\ work.batch = 0 /\ ~work.review
    BY <2>1 DEF NewWork, RunWork, Statuses
  <2>3. SaveWorks(out)
    BY <1>7
  <2> HIDE DEF work, done
  <2>4. /\ Grown(done, out)
        /\ \/ out = done
           \/ Len(out) = Len(done) + 1 /\ out[Len(done) + 1] = work
    BY <1>4, <2>2, EnqueueGrows
  <2> HIDE DEF out
  <2>5. \A j \in Len(works) + 1 .. Len(out) : out[j].batch < j /\ ~out[j].review
    BY <1>3, <1>4, <2>2, <2>4
  <2>6. /\ CascadeTypes' /\ SettleInv' /\ Continued /\ works' = out
        /\ Ids' \ Ids = Len(works) + 1 .. Len(out)
    BY <1>1, <1>2, <2>3, <2>4, <2>5, PlanSaved DEF done
  <2> QED
    BY <1>1, <1>2, <1>7, <2>5, <2>6, NoReviews DEF CascadeInv
<1>8. CASE /\ mode = "host" /\ works[i].agent # Admin
           /\ \A j \in Batch(i) : works[j].status \in Terminal
           /\ SaveWorks(Enqueue(done, NewWork(Admin, works[i].depth, works[i].batch, TRUE, TRUE)))
  <2> DEFINE work == NewWork(Admin, works[i].depth, works[i].batch, TRUE, TRUE)
             out == Enqueue(done, work)
  <2>1. work \in RunWork /\ work.status = "queued" /\ ~work.planned
        /\ work.agent = Admin /\ work.batch = works[i].batch /\ work.review
    <3>1. works[i].depth \in Nat /\ works[i].batch \in Nat /\ Admin \in Members
      BY <1>3, WorkFields, CascadeAssumption
    <3> QED
      BY <3>1 DEF NewWork, RunWork, Statuses
  <2>2. SaveWorks(out)
    BY <1>8
  <2> HIDE DEF work, done
  <2>3. /\ Grown(done, out)
        /\ \/ out = done
           \/ Len(out) = Len(done) + 1 /\ out[Len(done) + 1] = work
        /\ out = done <=> HasReview(done, work.batch)
    BY <1>4, <2>1, EnqueueGrows
  <2>4. out = done <=> Reviewed(works[i].batch)
    BY <1>4, <2>1, <2>3 DEF Reviewed, HasReview
  <2> HIDE DEF out
  <2>5. \A j \in Len(works) + 1 .. Len(out) : out[j].batch < j
    BY <1>3, <1>4, <2>1, <2>3
  <2>6. /\ CascadeTypes' /\ SettleInv' /\ Continued /\ works' = out
        /\ Ids' \ Ids = Len(works) + 1 .. Len(out)
        /\ \A j \in Ids \ {i} : works'[j].planned = works[j].planned
    BY <1>1, <1>2, <2>2, <2>3, <2>5, PlanSaved DEF done
  <2>7. RoleInv' /\ GroupInv'
    <3>1. CASE Reviewed(works[i].batch)
      <4>1. Len(works') = Len(works)
        BY <1>4, <2>4, <2>6, <3>1
      <4> QED
        BY <1>1, <1>2, <2>6, <4>1, KeepGroups
    <3>2. CASE ~Reviewed(works[i].batch)
      <4>1. Len(works') = Len(works) + 1 /\ works'[Len(works')] = work
        BY <1>4, <2>3, <2>4, <2>6, <3>2
      <4>2. /\ works'[Len(works')].agent = Admin /\ works'[Len(works')].review
            /\ works'[Len(works')].batch = works[i].batch
        BY <2>1, <4>1
      <4> QED
        BY <1>1, <1>2, <1>8, <2>6, <3>2, <4>1, <4>2, ReviewAdded
    <3> QED
      BY <3>1, <3>2
  <2>8. ReviewedAfter(works[i].batch)
    <3>1. CASE Reviewed(works[i].batch)
      BY <1>1, <2>6, <3>1, ReviewedStays
    <3>2. CASE ~Reviewed(works[i].batch)
      <4>1. Len(works) + 1 \in Ids' /\ works'[Len(works) + 1] = work
        BY <1>3, <1>4, <2>3, <2>4, <2>6, <3>2
      <4> QED
        BY <2>1, <4>1 DEF ReviewedAfter
    <3> QED
      BY <3>1, <3>2
  <2>9. \A j \in Ids' \ Ids : works'[j].agent = Admin
    BY <1>3, <1>4, <2>1, <2>3, <2>6
  <2>10. \A j \in Ids : ~works[j].planned /\ works'[j].planned => j = i
    BY <2>6
  <2>11. ReviewInv => ReviewInv'
    BY <1>1, <1>2, <1>5, <2>6, <2>8, <2>9, <2>10, ReviewKept
  <2> QED
    BY <2>6, <2>7, <2>11 DEF CascadeInv
<1>9. ASSUME mode = "host" => works[i].agent = Admin, NEW targets \in RelayTargets(i),
             SaveWorks(EnqueueAll(done, targets, works[i].depth + 1, i, FALSE))
      PROVE  CascadeInv' /\ (ReviewInv => ReviewInv')
  <2> DEFINE depth == works[i].depth + 1
             out == EnqueueAll(done, targets, depth, i, FALSE)
  <2>1. depth \in Nat /\ i \in Nat
    BY <1>3, WorkFields
  <2>2. targets \in SUBSET Members /\ works[i].agent \notin targets
    BY TargetsType
  <2>3. SaveWorks(out)
    BY <1>9
  <2> HIDE DEF depth, done
  <2>4. Grown(done, out) /\ Asked(done, out, targets, i)
    BY <1>4, <2>1, <2>2, EnqueueAllGrows
  <2> HIDE DEF out
  <2>5. /\ Len(out) \in Nat /\ Len(works) <= Len(out)
        /\ \A j \in Len(works) + 1 .. Len(out) : out[j].batch < j
    BY <1>3, <1>4, <2>4, WorksOf DEF Asked, Grown
  <2>6. /\ CascadeTypes' /\ SettleInv' /\ Continued /\ works' = out
        /\ Ids' \ Ids = Len(works) + 1 .. Len(out)
        /\ works'[i].planned
        /\ \A j \in Ids \ {i} : works'[j].planned = works[j].planned
    BY <1>1, <1>2, <2>3, <2>4, <2>5, PlanSaved DEF done
  <2>7. \A j \in Ids' \ Ids : /\ works'[j].agent \in targets /\ works'[j].batch = i
                              /\ ~works'[j].review /\ ~works'[j].planned
    BY <1>4, <2>4, <2>6 DEF Asked, Grown
  <2>8. CASE mode # "host"
    BY <1>1, <1>2, <2>6, <2>7, <2>8, NoReviews DEF CascadeInv
  <2>9. CASE mode = "host"
    <3>1. \A j \in Ids' \ Ids : works'[j].agent # Admin
      BY <1>9, <2>2, <2>7, <2>9
    <3>2. RoleInv' /\ GroupInv'
      <4>1. CASE Len(works') = Len(works)
        BY <1>1, <1>2, <2>6, <4>1, KeepGroups
      <4>2. CASE Len(works') > Len(works)
        BY <1>1, <1>2, <1>9, <2>6, <2>7, <2>9, <3>1, <4>2, BatchAdded
      <4> QED
        BY <1>3, <2>5, <2>6, <4>1, <4>2
    <3>3. \A j \in Ids : ~works[j].planned /\ works'[j].planned => works[j].agent = Admin
      BY <1>9, <2>6, <2>9
    <3>4. ReviewInv => ReviewInv'
      BY <1>1, <1>2, <1>5, <2>6, <2>7, <3>3, ReviewKept
    <3> QED
      BY <2>6, <3>2, <3>4 DEF CascadeInv
  <2> QED
    BY <2>8, <2>9
<1> QED
  BY <1>6, <1>7, <1>8, <1>9, PlanCases

-----------------------------------------------------------------------------
(* The order of a discussion                                               *)

LEMMA SlotsKept ==
  ASSUME CascadeTypes, OrderInv, Continued, mode = "discussion", SpeakerSlots # {},
         NEW i \in Ids
  PROVE  /\ Slotted(works'[i], SlotOf(works[i])) /\ SlotOf(works'[i]) = SlotOf(works[i])
         /\ SlotOf(works[i]) \in Nat
<1>1. "discussion" \in Modes
  BY DEF CascadeTypes
<1>2. Slotted(works[i], SlotOf(works[i]))
  BY DEF OrderInv
<1>3. Slotted(works'[i], SlotOf(works[i]))
  BY <1>2 DEF Slotted, Continued
<1>4. SlotOf(works[i]) \in Nat
  BY <1>2 DEF Slotted, SpeakerSlots
<1> QED
  BY <1>1, <1>3, <1>4, OneSlot

\* Turns that are edited stay in order, and nobody comes back.
LEMMA EditOrder ==
  ASSUME CascadeTypes, OrderInv, UNCHANGED mode, Continued, Len(works') = Len(works),
         left \subseteq left'
  PROVE  OrderInv'
<1>1. Ids' = Ids /\ Ids = 1 .. Len(works) /\ Len(works) \in Nat
  BY Domains
<1>2. CASE mode # "discussion"
  BY <1>2 DEF OrderInv
<1>3. CASE mode = "discussion" /\ SpeakerSlots = {}
  BY <1>1, <1>3 DEF OrderInv
<1>4. CASE mode = "discussion" /\ SpeakerSlots # {}
  <2>1. \A i \in Ids : /\ Slotted(works'[i], SlotOf(works'[i]))
                       /\ SlotOf(works'[i]) = SlotOf(works[i])
    BY <1>4, SlotsKept
  <2>2. \A s : Spoken(s) => Spoken(s)'
    BY <1>1, <2>1 DEF Spoken
  <2>3. ASSUME NEW i \in Ids, NEW j \in Ids, i < j
        PROVE  /\ works'[i].planned
               /\ SlotOf(works'[i]) < SlotOf(works'[j])
               /\ \A s \in SlotOf(works'[i]) + 1 .. SlotOf(works'[j]) - 1 :
                    SlotAgent(s) \in left' \/ Spoken(s)'
    BY <1>4, <2>1, <2>2, <2>3 DEF OrderInv, Continued
  <2> QED
    BY <1>1, <1>4, <2>1, <2>3 DEF OrderInv
<1> QED
  BY <1>2, <1>3, <1>4

\* The first speaker opens the discussion.
LEMMA AdmitOrder ==
  ASSUME CascadeTypes, UNCHANGED mode, AdmitRun
  PROVE  OrderInv'
<1> SUFFICES ASSUME mode = "discussion" PROVE OrderInv'
  BY DEF OrderInv
<1>1. "discussion" \in Modes
  BY DEF CascadeTypes
<1> DEFINE work == NewWork(SlotAgent(0), 0, 0, FALSE, FALSE)
<1>2. works' = <<work>>
  BY DEF AdmitRun, SaveWorks
<1>3. work.agent = SlotAgent(0) /\ work.depth = 0
  BY DEF NewWork
<1> HIDE DEF work
<1>4. Len(works') = 1 /\ Ids' = {1} /\ works'[1] = work
  BY <1>2 DEF Ids
<1>5. ASSUME SpeakerSlots # {} PROVE Slotted(work, 0)
  <2>1. Len(Speakers) \in Nat \ {0} /\ Rounds \in Int
    BY <1>1, CascadeAssumption, LenProperties, EmptySeq
  <2>2. Rounds * Len(Speakers) \in Int
    BY <2>1
  <2>3. 0 \in SpeakerSlots
    BY <1>5, <2>2 DEF SpeakerSlots
  <2>4. SlotRound(0) = 0
    <3> DEFINE n == Len(Speakers)
               q == 0 \div n
               r == 0 % n
    <3>1. q \in Nat /\ r \in 0 .. n - 1 /\ 0 = n * q + r
      BY <2>1, Divided
    <3> HIDE DEF q, r
    <3>2. ~(0 < q)
      BY <2>1, <3>1, Multiples
    <3> QED
      BY <3>1, <3>2 DEF q, SlotRound
  <2> QED
    BY <1>3, <2>3, <2>4 DEF Slotted
<1>6. SpeakerSlots # {} => Slotted(work, SlotOf(work))
  BY <1>1, <1>5, OneSlot
<1> QED
  BY <1>4, <1>6 DEF OrderInv

\* The slots are numbered without gaps.
LEMMA SlotRange ==
  ASSUME NEW s \in SpeakerSlots
  PROVE  s \in Nat /\ \A t \in Nat : t < s => t \in SpeakerSlots
<1> DEFINE size == Rounds * Len(Speakers)
<1>1. size \in Int
  BY CascadeAssumption, LenProperties
<1> HIDE DEF size
<1>2. SpeakerSlots = 0 .. size - 1
  BY DEF size, SpeakerSlots
<1> QED
  BY <1>1, <1>2

\* The next speaker is the first one after this that is still a member.
LEMMA NextSlot ==
  ASSUME NEW i \in Ids, NEW s \in NextSpeaker(i)
  PROVE  /\ s \in SpeakerSlots /\ s > SlotOf(works[i])
         /\ \A t \in SpeakerSlots : t > SlotOf(works[i]) /\ t < s => SlotAgent(t) \in left
<1> DEFINE later == {t \in SpeakerSlots : t > SlotOf(works[i]) /\ SlotAgent(t) \notin left}
<1>1. later \in SUBSET Nat
  BY DEF SpeakerSlots
<1>2. later # {} /\ s = CHOOSE t \in later : \A u \in later : t <= u
  BY DEF NextSpeaker
<1> HIDE DEF later
<1>3. s \in later /\ \A t \in later : s <= t
  BY <1>1, <1>2, Least
<1>4. \A t \in later : ~(t < s)
  BY <1>1, <1>3
<1> QED
  BY <1>3, <1>4 DEF later

\* plan, of a discussion.
LEMMA PlanOrder ==
  ASSUME CascadeInv, OrderInv, UNCHANGED mode, NEW i \in Ids, Plan(i)
  PROVE  OrderInv'
<1> SUFFICES ASSUME mode = "discussion" PROVE OrderInv'
  BY DEF OrderInv
<1> DEFINE done == Planned(i)
<1>1. CascadeTypes /\ SettleInv /\ "discussion" \in Modes
  BY DEF CascadeInv, CascadeTypes
<1>2. /\ works[i].status \in Terminal /\ ~works[i].planned
      /\ UNCHANGED <<mode, stopRequested, left, executing, crashes>>
  BY DEF Plan
<1>3. Edited(works, done) /\ done \in Seq(RunWork) /\ Len(done) = Len(works)
  BY <1>1, <1>2, PlannedEdit DEF Edited
<1>4. Ids = 1 .. Len(works) /\ Len(works) \in Nat
  BY <1>1, WorksOf DEF CascadeTypes, Ids
<1> HIDE DEF done
<1>5. CASE SaveWorks(done)
  <2>1. Grown(done, done) /\ \A j \in Len(works) + 1 .. Len(done) : FALSE
    BY <1>3, <1>4 DEF Grown
  <2>2. Continued /\ works' = done
    BY <1>1, <1>2, <1>5, <2>1, PlanSaved DEF done
  <2> QED
    BY <1>1, <1>2, <1>3, <2>2, EditOrder
<1>6. ASSUME NEW s \in NextSpeaker(i),
             SaveWorks(Enqueue(done, NewWork(SlotAgent(s), SlotRound(s), 0, FALSE, FALSE)))
      PROVE  OrderInv'
  <2> DEFINE work == NewWork(SlotAgent(s), SlotRound(s), 0, FALSE, FALSE)
             out == Enqueue(done, work)
  <2>1. /\ s \in SpeakerSlots /\ s \in Nat /\ s > SlotOf(works[i])
        /\ \A t \in SpeakerSlots : t > SlotOf(works[i]) /\ t < s => SlotAgent(t) \in left
    BY <1>6, NextSlot, SlotRange
  <2>2. /\ work \in RunWork /\ work.status = "queued" /\ ~work.planned /\ ~work.review
        /\ work.agent = SlotAgent(s) /\ work.depth = SlotRound(s) /\ work.batch = 0
    <3>1. SlotAgent(s) \in Members /\ SlotRound(s) \in Nat
      BY <1>1, <2>1, CascadeSlots
    <3>2. /\ work \in RunWork /\ work.status = "queued" /\ ~work.planned
          /\ work.review = FALSE /\ work.agent = SlotAgent(s)
          /\ work.depth = SlotRound(s) /\ work.batch = 0
      BY <3>1 DEF NewWork, RunWork, Statuses
    <3> QED
      BY <3>2
  <2>3. SaveWorks(out)
    BY <1>6
  <2> HIDE DEF work
  <2>4. /\ Grown(done, out)
        /\ \/ out = done
           \/ Len(out) = Len(done) + 1 /\ out[Len(done) + 1] = work
    BY <1>3, <2>2, EnqueueGrows
  <2> HIDE DEF out
  <2>5. \A j \in Len(works) + 1 .. Len(out) : j = Len(works) + 1 /\ out[j] = work
    BY <1>3, <1>4, <2>4
  <2>6. \A j \in Len(works) + 1 .. Len(out) : out[j].batch < j
    BY <1>4, <2>2, <2>5
  <2>7. Continued /\ works' = out /\ works'[i].planned
    BY <1>1, <1>2, <2>3, <2>4, <2>6, PlanSaved DEF done
  <2>8. CASE out = done
    BY <1>1, <1>2, <1>3, <2>7, <2>8, EditOrder
  <2>9. CASE Len(out) = Len(done) + 1 /\ out[Len(done) + 1] = work
    <3> DEFINE m == Len(works) + 1
    <3>1. Ids' = Ids \cup {m} /\ m \notin Ids /\ works'[m] = work
      BY <1>1, <1>3, <1>4, <2>7, <2>9, Domains
    <3>2. SpeakerSlots # {} /\ Slotted(works'[m], s) /\ SlotOf(works'[m]) = s
      <4>1. SpeakerSlots # {} /\ Slotted(works'[m], s)
        BY <2>1, <2>2, <3>1 DEF Slotted
      <4> QED
        BY <1>1, <4>1, OneSlot
    <3>3. ASSUME NEW j \in Ids
          PROVE  /\ Slotted(works'[j], SlotOf(works'[j]))
                 /\ SlotOf(works'[j]) = SlotOf(works[j]) /\ SlotOf(works[j]) \in SpeakerSlots
                 /\ SlotOf(works[j]) \in Nat
                 /\ works[j].planned => works'[j].planned
      <4>1. works[j].planned => works'[j].planned
        BY <2>7 DEF Continued
      <4>2. Slotted(works[j], SlotOf(works[j]))
        BY <3>2 DEF OrderInv
      <4> QED
        BY <1>1, <2>7, <3>2, <4>1, <4>2, SlotsKept DEF Slotted
    <3>4. i = Len(works)
      <4>1. \A j \in Ids : ~(i < j)
        BY <1>2 DEF OrderInv
      <4> QED
        BY <1>4, <4>1
    <3>5. \A t : Spoken(t) => Spoken(t)'
      BY <3>1, <3>3 DEF Spoken
    <3>6. ASSUME NEW j \in Ids
          PROVE  /\ works'[j].planned
                 /\ SlotOf(works[j]) < s
                 /\ \A t \in SlotOf(works[j]) + 1 .. s - 1 :
                      SlotAgent(t) \in left' \/ Spoken(t)'
      <4>1. CASE j = i
        <5>1. \A t \in SlotOf(works[i]) + 1 .. s - 1 :
                t \in SpeakerSlots /\ t > SlotOf(works[i]) /\ t < s
          <6> SUFFICES ASSUME NEW t \in SlotOf(works[i]) + 1 .. s - 1
                       PROVE  t \in SpeakerSlots /\ t > SlotOf(works[i]) /\ t < s
            OBVIOUS
          <6>1. t \in Nat /\ t > SlotOf(works[i]) /\ t < s
            BY <2>1, <3>3
          <6> QED
            BY <2>1, <6>1, SlotRange
        <5> QED
          BY <1>2, <2>1, <2>7, <4>1, <5>1
      <4>2. CASE j # i
        <5>1. j < i
          BY <1>4, <3>4, <4>2
        <5>2. /\ works[j].planned /\ SlotOf(works[j]) < SlotOf(works[i])
              /\ \A t \in SlotOf(works[j]) + 1 .. SlotOf(works[i]) - 1 :
                   SlotAgent(t) \in left \/ Spoken(t)
          BY <5>1 DEF OrderInv
        <5>3. SlotOf(works[j]) \in Nat /\ SlotOf(works[i]) \in Nat
          BY <3>3
        <5>4. ASSUME NEW t \in SlotOf(works[j]) + 1 .. s - 1
              PROVE  SlotAgent(t) \in left' \/ Spoken(t)'
          <6>1. CASE t < SlotOf(works[i])
            <7>1. t \in SlotOf(works[j]) + 1 .. SlotOf(works[i]) - 1
              BY <5>3, <6>1
            <7> QED
              BY <1>2, <3>5, <5>2, <7>1
          <6>2. CASE t = SlotOf(works[i])
            BY <3>5, <6>2 DEF Spoken
          <6>3. CASE t > SlotOf(works[i])
            <7>1. t \in SpeakerSlots /\ t < s
              <8>1. t \in Nat /\ t < s
                BY <2>1, <5>3, <6>3
              <8> QED
                BY <2>1, <8>1, SlotRange
            <7> QED
              BY <1>2, <2>1, <6>3, <7>1
          <6> QED
            BY <5>3, <6>1, <6>2, <6>3
        <5> QED
          BY <2>1, <3>3, <5>2, <5>3, <5>4
      <4> QED
        BY <4>1, <4>2
    <3>7. ASSUME NEW j \in Ids', NEW k \in Ids', j < k
          PROVE  /\ works'[j].planned
                 /\ SlotOf(works'[j]) < SlotOf(works'[k])
                 /\ \A t \in SlotOf(works'[j]) + 1 .. SlotOf(works'[k]) - 1 :
                      SlotAgent(t) \in left' \/ Spoken(t)'
      <4>1. j \in Ids
        BY <1>4, <3>1, <3>7
      <4>2. CASE k = m
        BY <3>2, <3>3, <3>6, <4>1, <4>2
      <4>3. CASE k \in Ids
        <5>1. /\ works[j].planned /\ SlotOf(works[j]) < SlotOf(works[k])
              /\ \A t \in SlotOf(works[j]) + 1 .. SlotOf(works[k]) - 1 :
                   SlotAgent(t) \in left \/ Spoken(t)
          BY <3>7, <4>1, <4>3 DEF OrderInv
        <5>2. SlotOf(works'[j]) = SlotOf(works[j]) /\ SlotOf(works'[k]) = SlotOf(works[k])
          BY <3>3, <4>1, <4>3
        <5> QED
          BY <1>2, <3>3, <3>5, <4>1, <5>1, <5>2
      <4> QED
        BY <3>1, <4>2, <4>3
    <3>8. \A j \in Ids' : Slotted(works'[j], SlotOf(works'[j]))
      BY <3>1, <3>2, <3>3
    <3> QED
      BY <3>2, <3>7, <3>8 DEF OrderInv
  <2> QED
    BY <2>4, <2>8, <2>9
<1> QED
  BY <1>5, <1>6, PlanCases DEF done

LEMMA NextOrder ==
  ASSUME CascadeInv, OrderInv, [RunNext]_cascadeVars
  PROVE  OrderInv'
<1>1. CascadeTypes /\ SettleInv
  BY DEF CascadeInv
<1>2. ASSUME UNCHANGED mode, EditStep, left \subseteq left'
      PROVE  OrderInv'
  BY <1>1, <1>2, EditContinues, EditOrder
<1>3. CASE UNCHANGED cascadeVars
  <2>1. UNCHANGED <<mode, works, root, stopRequested, left, executing, reported, crashes>>
    BY <1>3 DEF cascadeVars, runVars
  <2> QED
    BY <1>1, <1>2, <2>1, SameWorks DEF EditStep, CascadeTypes, Ids
<1>4. ASSUME UNCHANGED mode, AdmitRun PROVE OrderInv'
  BY <1>1, <1>4, AdmitOrder
<1>5. ASSUME UNCHANGED mode, Stop \/ \E a \in Stoppable : StopAgent(a) PROVE OrderInv'
  <2>1. left' = left
    BY <1>5 DEF Stop, StopAgent
  <2> QED
    BY <1>1, <1>2, <1>5, <2>1, StopStep, StopAgentStep
<1>6. ASSUME UNCHANGED mode, NEW a \in Leavers, Leave(a) PROVE OrderInv'
  BY <1>1, <1>2, <1>6, LeaveStep DEF Leave
<1>7. ASSUME UNCHANGED mode, NEW i \in Ids, Server(i) PROVE OrderInv'
  <2>1. CASE Plan(i)
    BY <1>7, <2>1, PlanOrder
  <2>2. CASE ~Plan(i)
    <3>1. EditStep
      BY <1>1, <1>7, <2>2, StartStep, DropStep, EndTurnStep, RecheckStep, EndExecutionStep
         DEF Server
    <3>2. left' = left
      BY <1>7, <2>2 DEF Server, Start, Drop, EndTurn, Recheck, EndExecution
    <3> QED
      BY <1>2, <1>7, <3>1, <3>2
  <2> QED
    BY <2>1, <2>2
<1>8. ASSUME UNCHANGED mode, ServerRestart PROVE OrderInv'
  BY <1>1, <1>2, <1>8, RestartStep DEF ServerRestart
<1> QED
  BY <1>3, <1>4, <1>5, <1>6, <1>7, <1>8 DEF RunNext, User

-----------------------------------------------------------------------------
(* The invariants                                                          *)

LEMMA InitCascade == RunInit => CascadeInv /\ ReviewInv
<1> SUFFICES ASSUME RunInit PROVE CascadeInv /\ ReviewInv
  OBVIOUS
<1>1. Ids = {} /\ works \in Seq(RunWork)
  BY DEF RunInit, Ids
<1>2. CascadeTypes
  <2>1. 0 \in 0 .. MaxCrashes
    BY CascadeAssumption
  <2> QED
    BY <1>1, <2>1 DEF RunInit, CascadeTypes, Statuses
<1>3. SettleInv
  BY <1>1 DEF RunInit, SettleInv, Terminal
<1> QED
  BY <1>1, <1>2, <1>3 DEF CascadeInv, RoleInv, GroupInv, ReviewInv

LEMMA EditKeeps ==
  ASSUME CascadeInv, UNCHANGED mode, EditStep
  PROVE  CascadeInv'
  BY EditContinues, KeepGroups DEF CascadeInv, EditStep

\* A step that plans nothing, or that stops the run, brings no batch out of sight.
LEMMA EditReviews ==
  ASSUME CascadeInv, ReviewInv, UNCHANGED mode, EditStep,
         stopRequested' \/ (PlansKept /\ UNCHANGED stopRequested)
  PROVE  ReviewInv'
<1>1. CascadeTypes /\ RoleInv /\ Continued /\ Len(works') = Len(works)
  BY EditContinues DEF CascadeInv
<1>2. Ids' = Ids
  BY <1>1, Domains
<1>3. stopRequested \in BOOLEAN
  BY <1>1 DEF CascadeTypes
<1>4. CASE stopRequested'
  BY <1>4 DEF ReviewInv
<1>5. CASE PlansKept /\ UNCHANGED stopRequested
  <2>1. \A j \in Ids : works[j].agent # Admin => (works'[j].planned <=> works[j].planned)
    BY <1>5 DEF PlansKept
  <2>2. \A j \in Ids : ~(works[j].agent # Admin /\ ~works[j].planned /\ works'[j].planned)
    BY <2>1
  <2> QED
    BY <1>1, <1>2, <1>3, <1>5, <2>2, ReviewKept
<1> QED
  BY <1>4, <1>5

LEMMA NextCascade ==
  ASSUME CascadeInv, [RunNext]_cascadeVars
  PROVE  /\ CascadeInv'
         /\ Stoppable \subseteq {Admin} /\ ReviewInv => ReviewInv'
<1>0. CascadeTypes /\ SettleInv
  BY DEF CascadeInv
<1>1. CASE UNCHANGED cascadeVars
  <2>1. /\ UNCHANGED <<mode, works, root, stopRequested, left, executing, reported, crashes>>
        /\ Ids' = Ids
    BY <1>1 DEF cascadeVars, runVars, Ids
  <2>2. EditStep /\ PlansKept
    BY <1>0, <2>1, SameWorks DEF EditStep, CascadeTypes
  <2> QED
    BY <2>1, <2>2, EditKeeps, EditReviews
<1>2. ASSUME UNCHANGED mode, AdmitRun
      PROVE  CascadeInv' /\ ReviewInv'
  BY <1>0, <1>2, AdmitStep
<1>3. ASSUME UNCHANGED mode, Stop
      PROVE  CascadeInv' /\ (ReviewInv => ReviewInv')
  BY <1>0, <1>3, StopStep, EditKeeps, EditReviews
<1>4. ASSUME UNCHANGED mode, NEW a \in Stoppable, StopAgent(a)
      PROVE  CascadeInv' /\ (Stoppable \subseteq {Admin} /\ ReviewInv => ReviewInv')
  <2>1. EditStep /\ (a = Admin => PlansKept) /\ UNCHANGED stopRequested
    BY <1>0, <1>4, StopAgentStep DEF StopAgent
  <2> QED
    BY <1>4, <2>1, EditKeeps, EditReviews
<1>5. ASSUME UNCHANGED mode, NEW a \in Leavers, Leave(a)
      PROVE  CascadeInv' /\ (ReviewInv => ReviewInv')
  <2>1. EditStep /\ PlansKept /\ UNCHANGED stopRequested
    BY <1>0, <1>5, LeaveStep DEF Leave
  <2> QED
    BY <1>5, <2>1, EditKeeps, EditReviews
<1>6. ASSUME UNCHANGED mode, NEW i \in Ids, Server(i)
      PROVE  CascadeInv' /\ (ReviewInv => ReviewInv')
  <2>1. CASE Plan(i)
    BY <1>6, <2>1, PlanStep
  <2>2. CASE ~Plan(i)
    <3>1. EditStep /\ PlansKept
      BY <1>0, <1>6, <2>2, StartStep, DropStep, EndTurnStep, RecheckStep, EndExecutionStep
         DEF Server
    <3>2. UNCHANGED stopRequested
      BY <1>6, <2>2 DEF Server, Start, Drop, EndTurn, Recheck, EndExecution
    <3> QED
      BY <1>6, <3>1, <3>2, EditKeeps, EditReviews
  <2> QED
    BY <2>1, <2>2
<1>7. ASSUME UNCHANGED mode, ServerRestart
      PROVE  CascadeInv' /\ (ReviewInv => ReviewInv')
  <2>1. EditStep /\ PlansKept /\ UNCHANGED stopRequested
    BY <1>0, <1>7, RestartStep DEF ServerRestart
  <2> QED
    BY <1>7, <2>1, EditKeeps, EditReviews
<1> QED
  BY <1>1, <1>2, <1>3, <1>4, <1>5, <1>6, <1>7 DEF RunNext, User

\* The inductive invariant of a run: types, books, roles and groups.
THEOREM CascadeInductive == RunSpec => []CascadeInv
<1>1. RunInit => CascadeInv
  BY InitCascade
<1>2. CascadeInv /\ [RunNext]_cascadeVars => CascadeInv'
  BY NextCascade
<1> QED
  BY <1>1, <1>2, PTL DEF RunSpec

\* In a host group unfinished turns are of one batch or of one review: plan delegates
\* or calls for a review only from the latest group.
THEOREM BatchesInOrder == RunSpec => []OneBatchAtATime
<1>1. CascadeInv => OneBatchAtATime
  <2> SUFFICES ASSUME CascadeInv PROVE OneBatchAtATime
    OBVIOUS
  <2>0. RoleInv /\ GroupInv
    BY DEF CascadeInv
  <2>1. ASSUME mode = "host", NEW i \in Active, NEW j \in Active
        PROVE  works[i].batch = works[j].batch /\ works[i].review = works[j].review
    <3>1. Latest(i) /\ Latest(j)
      BY <2>0, <2>1 DEF GroupInv, Active
    <3> QED
      BY <3>1 DEF Latest
  <2>2. ASSUME NEW i \in Ids, works[i].review
        PROVE  \A j \in Batch(i) : works[j].status \in Terminal
    <3> SUFFICES ASSUME NEW j \in Ids, works[j].batch = works[i].batch, ~works[j].review
                 PROVE  works[j].status \in Terminal
      BY DEF Batch
    <3>1. mode = "host" /\ Reviewed(works[j].batch)
      BY <2>0, <2>2 DEF RoleInv, Reviewed
    <3> QED
      BY <2>0, <3>1 DEF GroupInv
  <2>3. ASSUME NEW i \in Ids, works[i].review
        PROVE  \A j \in Ids : works[j].review /\ works[j].batch = works[i].batch => i = j
    BY <2>0, <2>3 DEF RoleInv
  <2> QED
    BY <2>1, <2>2, <2>3 DEF OneBatchAtATime
<1> QED
  BY <1>1, CascadeInductive, PTL

\* A run that has ended keeps its status and its turns, and its end is reported once:
\* onRunSettled, called by saveWork and by plan.
THEOREM SettlesForGood == RunSpec => SettledForGood
<1> DEFINE Same == [i \in Ids' |-> works'[i].status] = [i \in Ids |-> works[i].status]
<1>1. ASSUME CascadeInv, CascadeInv', [RunNext]_cascadeVars
      PROVE  /\ reported' = IF root' \in Terminal THEN 1 ELSE 0
             /\ root \in Terminal => root' = root /\ Same
  <2>1. reported' = IF root' \in Terminal THEN 1 ELSE 0
    BY <1>1 DEF CascadeInv, SettleInv
  <2>2. ASSUME root \in Terminal PROVE root' = root /\ Same
    <3>1. CascadeTypes /\ works # <<>> /\ Done(works)
      BY <1>1, <2>2 DEF CascadeInv, SettleInv
    <3>2. \A i \in Ids : works[i].status \in Terminal /\ works[i].planned
      BY <3>1, DoneMeans DEF Ids
    <3>3. CASE UNCHANGED <<works, root>>
      BY <3>3 DEF Ids
    <3>4. CASE ServerRestart
      <4>1. Ids' = Ids /\ \A i \in Ids : works'[i] = works[i]
        BY <3>2, <3>4 DEF ServerRestart, Ids, Terminal
      <4> QED
        BY <3>4, <4>1 DEF ServerRestart
    <3>5. ~AdmitRun /\ ~Stop
      BY <2>2, <3>1 DEF AdmitRun, Stop
    <3>6. \A a : ~StopAgent(a)
      BY <3>2 DEF StopAgent, Active
    <3>7. \A i \in Ids : ~Start(i) /\ ~Drop(i) /\ ~EndTurn(i) /\ ~Recheck(i) /\ ~Plan(i)
      BY <3>2 DEF Start, Drop, EndTurn, Recheck, Plan, Terminal
    <3>8. \A i \in Ids : Server(i) => UNCHANGED <<works, root>>
      BY <3>7 DEF Server, EndExecution
    <3>9. User => UNCHANGED <<works, root>>
      BY <3>5, <3>6 DEF User, Leave
    <3>10. UNCHANGED cascadeVars => UNCHANGED <<works, root>>
      BY DEF cascadeVars, runVars
    <3> QED
      BY <1>1, <3>3, <3>4, <3>8, <3>9, <3>10 DEF RunNext
  <2> QED
    BY <2>1, <2>2
<1>2. ASSUME CascadeInv, CascadeInv', [RunNext]_cascadeVars
      PROVE  [/\ reported' = IF root' \in Terminal THEN 1 ELSE 0
              /\ (root \in Terminal) =>
                /\ root' = root
                /\ [i \in DOMAIN works' |-> works'[i].status] = [i \in Ids |-> works[i].status]]_cascadeVars
  BY <1>1, <1>2 DEF Ids
<1> QED
  BY <1>2, CascadeInductive, PTL DEF RunSpec, SettledForGood

\* When bots are not stopped one by one, the administrator excepted, a batch has a turn
\* that is still to be planned until it is reviewed (the run cascade_stop shows what
\* happens when they are).
THEOREM ReviewsFollow ==
  ASSUME Stoppable \subseteq {Admin}
  PROVE  RunSpec => []BatchesReviewed
<1>1. RunInit => CascadeInv /\ ReviewInv
  BY InitCascade
<1>2. CascadeInv /\ ReviewInv /\ [RunNext]_cascadeVars => CascadeInv' /\ ReviewInv'
  BY NextCascade
<1>3. CascadeInv /\ ReviewInv => BatchesReviewed
  <2> SUFFICES ASSUME CascadeInv, ReviewInv, mode = "host", root \in Terminal, ~stopRequested,
                      NEW i \in Ids, works[i].batch # 0, ~works[i].review
               PROVE  \E j \in Ids : works[j].review /\ works[j].batch = works[i].batch
    BY DEF BatchesReviewed
  <2>1. works[i].agent # Admin
    BY DEF CascadeInv, RoleInv
  <2>2. Done(works)
    BY DEF CascadeInv, SettleInv
  <2>3. \A j \in Ids : works[j].planned
    BY <2>2, DoneMeans DEF Ids
  <2> QED
    BY <2>1, <2>3 DEF ReviewInv, Reviewed
<1> QED
  BY <1>1, <1>2, <1>3, PTL DEF RunSpec
\* The speakers of a discussion take turns in the order of the slots, one at a time, and
\* only those that have left are passed over (plan, with discussionOrder).
THEOREM SpeakersInOrder == RunSpec => []DiscussionInOrder
<1>1. RunInit => CascadeInv /\ OrderInv
  <2> SUFFICES ASSUME RunInit PROVE CascadeInv /\ OrderInv
    OBVIOUS
  <2>1. Ids = {} /\ Len(works) = 0
    BY DEF RunInit, Ids
  <2> QED
    BY <2>1, InitCascade DEF OrderInv
<1>2. CascadeInv /\ OrderInv /\ [RunNext]_cascadeVars => CascadeInv' /\ OrderInv'
  BY NextCascade, NextOrder
<1>3. CascadeInv /\ OrderInv => DiscussionInOrder
  <2> SUFFICES ASSUME CascadeInv, OrderInv, mode = "discussion",
                      NEW i \in Ids, NEW j \in Ids, i < j
               PROVE  /\ SlotOf(works[i]) < SlotOf(works[j])
                      /\ works[i].status \in Terminal
                      /\ \A s \in SlotOf(works[i]) + 1 .. SlotOf(works[j]) - 1 :
                           SlotAgent(s) \in left \/ \E k \in Ids : SlotOf(works[k]) = s
    BY DEF DiscussionInOrder
  <2>1. /\ works[i].planned /\ SlotOf(works[i]) < SlotOf(works[j])
        /\ \A s \in SlotOf(works[i]) + 1 .. SlotOf(works[j]) - 1 :
             SlotAgent(s) \in left \/ Spoken(s)
    BY DEF OrderInv
  <2>2. works[i].status \in Terminal
    BY <2>1 DEF CascadeInv, SettleInv
  <2> QED
    BY <2>1, <2>2 DEF Spoken
<1> QED
  BY <1>1, <1>2, <1>3, PTL DEF RunSpec


\* The records of a run keep to their types; the group a reply belongs to came before it
\* (workspace/types.ts, WorkspaceWork; workspaceScheduler.ts, enqueue).
THEOREM RunTypeInvariant == RunSpec => []RunTypeOK
<1>1. ASSUME CascadeInv PROVE RunTypeOK
  <2> DEFINE Bounded == [agent : Members, depth : Nat, batch : 0 .. Len(works),
                         review : BOOLEAN, required : BOOLEAN,
                         status : Statuses, planned : BOOLEAN]
  <2>1. CascadeTypes
    BY <1>1 DEF CascadeInv
  <2>2. works \in Seq(RunWork) /\ Len(works) \in Nat /\ Ids = 1 .. Len(works)
    BY <2>1 DEF CascadeTypes, Ids
  <2>3. ASSUME NEW i \in 1 .. Len(works)
        PROVE  works[i] \in Bounded
    <3>1. PICK w \in RunWork : w = works[i]
      BY <2>2
    <3>2. w.batch \in Nat /\ w.batch < i
      BY <2>1, <2>2, <3>1 DEF CascadeTypes, RunWork
    <3>3. w.batch \in 0 .. Len(works)
      BY <2>2, <3>2
    <3>4. w \in Bounded
      BY <3>3 DEF RunWork
    <3> QED
      BY <3>1, <3>4
  <2> HIDE DEF Bounded
  <2>4. works \in Seq(Bounded)
    BY <2>2, <2>3
  <2> QED
    BY <2>1, <2>4 DEF CascadeTypes, RunTypeOK, Bounded
<1> QED
  BY <1>1, CascadeInductive, PTL
=============================================================================
