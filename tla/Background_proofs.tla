-------------------------- MODULE Background_proofs --------------------------
(***************************************************************************)
(* What TLAPS proves about the parts of the server that work without a     *)
(* user: the notices of PushOutbox, the assignments of TaskCoordinator.    *)
(* At the end the components of MCProgress side by side.                   *)
(***************************************************************************)
EXTENDS MCProgress, Realtime_proofs, ComputerPool_proofs, FiniteSetTheorems,
        SequenceTheorems, TLAPS

-----------------------------------------------------------------------------
(* Notices: the invariant                                                  *)

Flushes == [on : BOOLEAN, stale : BOOLEAN, left : SUBSET Items,
            item : Items \cup {NoItem}, to : Endpoints \cup {NoEndpoint}]

PushTypes ==
  /\ endpoint \in [Devices -> Endpoints \cup {NoEndpoint}]
  /\ DOMAIN outbox \subseteq Items
  /\ flush \in Flushes
  /\ shown \in [Items -> Nat] /\ losses \in Nat

\* Between flushes nothing is on its way.
FlushInv == ~flush.on => flush = NoFlush

\* An item that can still be shown, because its event is yet to come, or it waits in the
\* outbox or is on its way, was shown only by way of lost answers; what waits or is on its
\* way has been taken up, and that happens once.
NoticeInv ==
  \A i \in Items :
    /\ shown[i] <= 1 + losses
    /\ i[1] \notin processed \/ i \in DOMAIN outbox \/ flush.item = i => shown[i] <= losses
    /\ i \in DOMAIN outbox \/ flush.item = i => i[1] \in processed

PushInv == PushTypes /\ FlushInv /\ NoticeInv

-----------------------------------------------------------------------------
(* Notices: parts of steps                                                 *)

LEMMA PushConstants ==
  /\ NoItem \notin Items
  /\ \A i \in Items : i[1] \in Notices /\ i[2] \in Devices
  /\ NoFlush \in Flushes /\ NoFlush.item = NoItem /\ ~NoFlush.on
  BY PushAssumption DEF Items, NoFlush, Flushes

LEMMA WithoutLess ==
  ASSUME NEW items, Without(items)
  PROVE  DOMAIN outbox' = DOMAIN outbox \ items
  BY DEF Without, Restrict

LEMMA GoesOn ==
  ASSUME PushTypes, NEW rest \in SUBSET Items, GoOn(rest)
  PROVE  flush' \in Flushes /\ flush'.item = NoItem /\ (flush.on => FlushInv')
<1>1. CASE rest = {}
  BY <1>1, PushConstants DEF GoOn, FlushInv
<1>2. CASE rest # {}
  <2>1. flush' = [flush EXCEPT !.left = rest, !.item = NoItem, !.to = NoEndpoint]
    BY <1>2 DEF GoOn
  <2>2. flush' \in Flushes /\ flush'.item = NoItem /\ flush'.on = flush.on
    BY <2>1 DEF PushTypes, Flushes
  <2> QED
    BY <2>2 DEF FlushInv
<1> QED
  BY <1>1, <1>2

LEMMA Answers ==
  ASSUME PushTypes, FlushInv, NEW i \in Items, Awaited(i), AfterAnswer
  PROVE  flush' \in Flushes /\ flush'.item = NoItem /\ FlushInv'
<1>1. flush.on
  BY PushConstants DEF FlushInv, Awaited, PushTypes, Flushes
<1>2. CASE flush.stale
  BY <1>2, PushConstants DEF AfterAnswer, FlushInv
<1>3. CASE ~flush.stale
  <2>1. flush.left \ {flush.item} \in SUBSET Items
    BY DEF PushTypes, Flushes
  <2>2. GoOn(flush.left \ {flush.item})
    BY <1>3 DEF AfterAnswer
  <2> QED
    BY <1>1, <2>1, <2>2, GoesOn
<1> QED
  BY <1>2, <1>3

\* A step that shows nothing: what enters the outbox belongs to a new event, what goes on
\* its way was in the outbox.
LEMMA NothingShown ==
  ASSUME PushTypes, NoticeInv, UNCHANGED shown,
         losses' \in Nat, losses <= losses', processed \subseteq processed',
         \A i \in Items : i \in DOMAIN outbox' =>
           i \in DOMAIN outbox \/ (i[1] \notin processed /\ i[1] \in processed'),
         flush'.item \in {flush.item, NoItem} \cup DOMAIN outbox
  PROVE  NoticeInv'
<1> SUFFICES ASSUME NEW i \in Items
             PROVE  /\ shown[i] <= 1 + losses'
                    /\ i[1] \notin processed' \/ i \in DOMAIN outbox' \/ flush'.item = i
                         => shown[i] <= losses'
                    /\ i \in DOMAIN outbox' \/ flush'.item = i => i[1] \in processed'
  BY DEF NoticeInv
<1>1. shown[i] \in Nat /\ losses \in Nat /\ i # NoItem
  BY PushConstants DEF PushTypes
<1>2. flush'.item = i => flush.item = i \/ i \in DOMAIN outbox
  BY <1>1
<1> QED
  BY <1>1, <1>2 DEF NoticeInv

\* The item on its way is shown and not sent again, or its answer is lost.
LEMMA OneShown ==
  ASSUME PushTypes, NoticeInv, NEW i \in Items, Awaited(i), Shown(i), UNCHANGED processed,
         DOMAIN outbox' \subseteq DOMAIN outbox, flush'.item = NoItem,
         \/ losses' = losses /\ i \notin DOMAIN outbox'
         \/ losses' = losses + 1
  PROVE  NoticeInv' /\ shown' \in [Items -> Nat] /\ losses' \in Nat
<1>1. /\ shown \in [Items -> Nat] /\ losses \in Nat
      /\ shown' = [shown EXCEPT ![i] = shown[i] + 1]
  BY DEF PushTypes, Shown
<1>2. shown' \in [Items -> Nat] /\ losses' \in Nat
  BY <1>1
<1>3. shown[i] <= losses /\ i[1] \in processed
  BY DEF Awaited, NoticeInv
<1> SUFFICES ASSUME NEW j \in Items
             PROVE  /\ shown'[j] <= 1 + losses'
                    /\ j[1] \notin processed \/ j \in DOMAIN outbox' => shown'[j] <= losses'
                    /\ j \in DOMAIN outbox' => j[1] \in processed
                    /\ flush'.item # j
  BY <1>2 DEF NoticeInv
<1>4. flush'.item # j
  BY PushConstants
<1>5. CASE j = i
  BY <1>1, <1>3, <1>4, <1>5
<1>6. CASE j # i
  <2>1. shown'[j] = shown[j] /\ shown[j] \in Nat
    BY <1>1, <1>6
  <2>2. /\ shown[j] <= 1 + losses
        /\ j[1] \notin processed \/ j \in DOMAIN outbox => shown[j] <= losses
        /\ j \in DOMAIN outbox => j[1] \in processed
    BY DEF NoticeInv
  <2> QED
    BY <1>1, <1>4, <2>1, <2>2
<1> QED
  BY <1>5, <1>6

-----------------------------------------------------------------------------
(* Notices: steps                                                          *)

Registers == endpoint' \in [Devices -> Endpoints \cup {NoEndpoint}]

LEMMA RemovedDevices ==
  ASSUME PushTypes, NEW devices, RemoveDevices(devices)
  PROVE  Registers /\ DOMAIN outbox' \subseteq DOMAIN outbox
<1>1. DOMAIN outbox' = DOMAIN outbox \ ItemsOf(devices)
  BY WithoutLess DEF RemoveDevices
<1> QED
  BY <1>1 DEF RemoveDevices, PushTypes, Registers

\* What the account, its devices and the configuration do never shows anything.
LEMMA ChangesStep ==
  ASSUME PushInv, Changes
  PROVE  PushInv'
<1>1. PushTypes /\ FlushInv /\ NoticeInv
  BY DEF PushInv
<1> SUFFICES /\ UNCHANGED shown /\ Registers /\ processed \subseteq processed'
             /\ losses' \in Nat /\ losses <= losses'
             /\ \A i \in DOMAIN outbox' :
                  \/ i \in DOMAIN outbox
                  \/ i \in Items /\ i[1] \notin processed /\ i[1] \in processed'
             /\ flush' \in Flushes /\ flush'.item = flush.item /\ FlushInv'
  <2>1. PushTypes'
    BY <1>1 DEF PushTypes, Registers
  <2> QED
    BY <1>1, <2>1, NothingShown DEF PushInv
<1>2. UNCHANGED flush => flush' \in Flushes /\ flush'.item = flush.item /\ FlushInv'
  BY <1>1 DEF PushTypes, FlushInv
<1>3. UNCHANGED losses => losses' \in Nat /\ losses <= losses'
  BY <1>1 DEF PushTypes
<1>4. UNCHANGED endpoint => Registers
  BY <1>1 DEF PushTypes, Registers
<1>5. ASSUME NEW n \in Notices, NotifyOf(n)
      PROVE  \A i \in DOMAIN outbox' :
               \/ i \in DOMAIN outbox
               \/ i \in Items /\ i[1] \notin processed /\ i[1] \in processed'
  <2> DEFINE targets == {d \in Registered \cap vouched : Platform[endpoint[d]] \in enabled}
             new == {n} \X targets
  <2>1. DOMAIN outbox' = DOMAIN outbox \cup new
    BY <1>5 DEF NotifyOf
  <2>2. targets \subseteq Devices
    BY DEF Registered
  <2>3. n \notin processed /\ n \in processed'
    BY <1>5 DEF NotifyOf
  <2> HIDE DEF targets
  <2>4. \A i \in new : i \in Items /\ i[1] = n
    BY <2>2 DEF Items
  <2> QED
    BY <2>1, <2>3, <2>4
<1>6. CASE \E n \in Notices : NotifyOf(n)
  BY <1>2, <1>3, <1>4, <1>5, <1>6 DEF NotifyOf, registry
<1>7. ASSUME NEW d \in Devices, NEW e \in Endpoints, Register(d, e)
      PROVE  Registers /\ DOMAIN outbox' \subseteq DOMAIN outbox
  <2> DEFINE superseded == {x \in Registered \ {d} : endpoint[x] = e}
             moved == d \in Registered /\ Platform[endpoint[d]] # Platform[e]
  <2>1. DOMAIN outbox' = DOMAIN outbox \ ItemsOf(IF moved THEN superseded \cup {d} ELSE superseded)
    BY <1>7, WithoutLess DEF Register
  <2>2. Registers
    BY <1>1, <1>7 DEF Register, PushTypes, Registers
  <2> QED
    BY <2>1, <2>2
<1>8. CASE \E d \in Devices, e \in Endpoints : Register(d, e)
  BY <1>2, <1>3, <1>7, <1>8 DEF Register
<1>9. CASE \E d \in Devices : Unregister(d)
  BY <1>1, <1>2, <1>3, <1>9, RemovedDevices DEF Unregister
<1>10. CASE \E on \in BOOLEAN : Follow(on)
  <2>1. PICK on \in BOOLEAN : Follow(on)
    BY <1>10
  <2>2. DOMAIN outbox' \subseteq DOMAIN outbox
    <3>1. CASE on
      BY <2>1, <3>1 DEF Follow
    <3>2. CASE ~on
      BY <2>1, <3>2, WithoutLess DEF Follow
    <3> QED
      BY <3>1, <3>2
  <2> QED
    BY <1>2, <1>3, <1>4, <2>1, <2>2 DEF Follow
<1>11. CASE \E p \in {"ios", "android"} : Configure(p)
  <2>1. flush' = [flush EXCEPT !.stale = flush.on]
    BY <1>11 DEF Configure
  <2>2. flush \in Flushes /\ flush.on \in BOOLEAN
    BY <1>1 DEF PushTypes, Flushes
  <2>3. flush' \in Flushes /\ flush'.item = flush.item /\ flush'.on = flush.on
    BY <2>1, <2>2 DEF Flushes
  <2>4. ASSUME ~flush.on
        PROVE  flush' = NoFlush
    <3>1. flush = NoFlush
      BY <1>1, <2>4 DEF FlushInv
    <3>2. flush' = [NoFlush EXCEPT !.stale = FALSE]
      BY <2>1, <2>2, <2>4, <3>1
    <3> QED
      BY <3>2 DEF NoFlush
  <2>5. FlushInv'
    BY <2>3, <2>4 DEF FlushInv
  <2> QED
    BY <1>3, <1>4, <1>11, <2>3, <2>5 DEF Configure, registry
<1>12. CASE \E e \in Endpoints : TokenDies(e)
  BY <1>2, <1>3, <1>4, <1>12 DEF TokenDies, registry
<1>13. CASE ChangeAccount
  BY <1>2, <1>3, <1>4, <1>13 DEF ChangeAccount
<1>14. CASE Purge
  <2>1. CASE RemoveDevices(Devices) /\ UNCHANGED losses
    BY <1>1, <1>2, <1>3, <1>14, <2>1, RemovedDevices DEF Purge
  <2>2. CASE losses' = losses + 1 /\ UNCHANGED <<endpoint, vouched, follows, outbox, resting>>
    BY <1>1, <1>2, <1>4, <1>14, <2>2 DEF Purge, PushTypes
  <2> QED
    BY <1>14, <2>1, <2>2 DEF Purge
<1> QED
  BY <1>6, <1>8, <1>9, <1>10, <1>11, <1>12, <1>13, <1>14 DEF Changes

LEMMA FlushSteps ==
  ASSUME PushInv, StartFlush \/ (\E i \in Items : Wake(i)) \/ Looks
  PROVE  PushInv'
<1>1. PushTypes /\ FlushInv /\ NoticeInv
  BY DEF PushInv
<1> SUFFICES /\ UNCHANGED <<shown, losses, processed>> /\ Registers
             /\ DOMAIN outbox' \subseteq DOMAIN outbox
             /\ flush'.item \in {flush.item, NoItem} \cup DOMAIN outbox
             /\ flush' \in Flushes /\ FlushInv'
  <2>1. PushTypes'
    BY <1>1 DEF PushTypes, Registers
  <2>2. losses' \in Nat /\ losses <= losses'
    BY <1>1 DEF PushTypes
  <2> QED
    BY <1>1, <2>1, <2>2, NothingShown DEF PushInv
<1>2. UNCHANGED endpoint => Registers
  BY <1>1 DEF PushTypes, Registers
<1>3. CASE StartFlush
  <2>1. Due \in SUBSET Items
    BY <1>1 DEF Due, PushTypes
  <2>2. flush' = [NoFlush EXCEPT !.on = TRUE, !.left = Due]
    BY <1>3 DEF StartFlush
  <2>3. flush' \in Flushes /\ flush'.item = NoItem /\ flush'.on
    BY <2>1, <2>2 DEF NoFlush, Flushes
  <2> QED
    BY <1>2, <1>3, <2>3 DEF StartFlush, FlushInv, registry
<1>4. CASE \E i \in Items : Wake(i)
  BY <1>1, <1>2, <1>4 DEF Wake, registry, PushTypes, FlushInv
<1>5. CASE Looks
  <2>1. PICK i \in Items : Examine(i)
    BY <1>5 DEF Looks
  <2>2. flush.on /\ UNCHANGED <<shown, losses, processed>> /\ flush.left \ {i} \in SUBSET Items
    BY <1>1, <2>1 DEF Examine, Scanning, PushTypes, Flushes
  <2>3. GoOn(flush.left \ {i}) =>
          flush'.item \in {flush.item, NoItem} \cup DOMAIN outbox /\ flush' \in Flushes /\ FlushInv'
    BY <1>1, <2>2, GoesOn
  <2>4. CASE i \notin DOMAIN outbox
    BY <1>2, <2>1, <2>2, <2>3, <2>4 DEF Examine, registry
  <2>5. CASE i \in DOMAIN outbox /\ account # "active"
    BY <1>1, <2>1, <2>2, <2>3, <2>5, RemovedDevices DEF Examine
  <2>6. CASE i \in DOMAIN outbox /\ account = "active" /\ i[2] \notin vouched
    BY <1>1, <2>1, <2>2, <2>3, <2>6, RemovedDevices DEF Examine
  <2>7. CASE i \in DOMAIN outbox /\ account = "active" /\ i[2] \in vouched
    <3>1. /\ flush' = [flush EXCEPT !.item = i, !.to = endpoint[i[2]]]
          /\ UNCHANGED <<endpoint, outbox>>
      BY <2>1, <2>7 DEF Examine, registry
    <3>2. endpoint[i[2]] \in Endpoints \cup {NoEndpoint}
      BY <1>1, PushConstants DEF PushTypes
    <3>3. flush' \in Flushes /\ flush'.item = i /\ flush'.on
      BY <1>1, <2>2, <3>1, <3>2 DEF PushTypes, Flushes
    <3> QED
      BY <1>2, <2>2, <2>7, <3>1, <3>3 DEF FlushInv
  <2> QED
    BY <2>4, <2>5, <2>6, <2>7
<1> QED
  BY <1>3, <1>4, <1>5

LEMMA PostponeLess ==
  ASSUME NEW i, Postpone(i)
  PROVE  DOMAIN outbox' \subseteq DOMAIN outbox
  BY WithoutLess DEF Postpone

LEMMA AnswerSteps ==
  ASSUME PushInv, Answered
  PROVE  PushInv'
<1>1. PushTypes /\ FlushInv /\ NoticeInv
  BY DEF PushInv
<1>2. PICK i \in Items : Success(i) \/ Retry(i) \/ Reject(i) \/ GiveUp(i)
  BY DEF Answered
<1>3. flush' \in Flushes /\ flush'.item = NoItem /\ FlushInv' /\ UNCHANGED processed /\ Awaited(i)
  BY <1>1, <1>2, Answers DEF Success, Retry, Reject, GiveUp
<1>4. UNCHANGED endpoint => Registers
  BY <1>1 DEF PushTypes, Registers
<1>5. CASE Success(i)
  <2>1. DOMAIN outbox' = DOMAIN outbox \ {i}
    BY <1>5, WithoutLess DEF Success
  <2>2. NoticeInv' /\ shown' \in [Items -> Nat] /\ losses' \in Nat
    BY <1>1, <1>3, <1>5, <2>1, OneShown DEF Success
  <2> QED
    BY <1>1, <1>3, <1>4, <1>5, <2>1, <2>2 DEF Success, registry, PushInv, PushTypes, Registers
<1>6. CASE Retry(i)
  <2>1. DOMAIN outbox' \subseteq DOMAIN outbox
    BY <1>6, PostponeLess DEF Retry
  <2>2. CASE UNCHANGED <<shown, losses>>
    <3>1. losses' \in Nat /\ losses <= losses'
      BY <1>1, <2>2 DEF PushTypes
    <3>2. NoticeInv'
      BY <1>1, <1>3, <2>1, <2>2, <3>1, NothingShown
    <3> QED
      BY <1>1, <1>3, <1>4, <1>6, <2>1, <2>2, <3>2
         DEF Retry, registry, PushInv, PushTypes, Registers
  <2>3. CASE losses' = losses + 1 /\ Shown(i)
    <3>1. NoticeInv' /\ shown' \in [Items -> Nat] /\ losses' \in Nat
      BY <1>1, <1>3, <2>1, <2>3, OneShown
    <3> QED
      BY <1>1, <1>3, <1>4, <1>6, <2>1, <3>1 DEF Retry, registry, PushInv, PushTypes, Registers
  <2> QED
    BY <1>6, <2>2, <2>3 DEF Retry
<1>7. CASE Reject(i) \/ GiveUp(i)
  <2>1. Registers /\ DOMAIN outbox' \subseteq DOMAIN outbox /\ UNCHANGED <<shown, losses>>
    <3>1. CASE Reject(i)
      <4>1. DOMAIN outbox' \subseteq DOMAIN outbox
        BY <3>1, WithoutLess DEF Reject
      <4> QED
        BY <1>4, <3>1, <4>1 DEF Reject, registry
    <3>2. CASE GiveUp(i)
      BY <1>1, <1>4, <3>2, RemovedDevices DEF GiveUp
    <3> QED
      BY <1>7, <3>1, <3>2
  <2>2. losses' \in Nat /\ losses <= losses'
    BY <1>1, <2>1 DEF PushTypes
  <2>3. NoticeInv'
    BY <1>1, <1>3, <2>1, <2>2, NothingShown
  <2> QED
    BY <1>1, <1>3, <2>1, <2>3 DEF PushInv, PushTypes, Registers
<1> QED
  BY <1>2, <1>5, <1>6, <1>7

LEMMA FailStep ==
  ASSUME PushInv, FlushFails
  PROVE  PushInv'
<1>1. PushTypes /\ FlushInv /\ NoticeInv
  BY DEF PushInv
<1>2. /\ flush' = NoFlush /\ losses' = losses + 1
      /\ UNCHANGED <<endpoint, outbox, processed>>
  BY DEF FlushFails
<1>3. flush' \in Flushes /\ flush'.item = NoItem /\ FlushInv'
  BY <1>2, PushConstants DEF FlushInv
<1>4. losses' \in Nat /\ losses <= losses'
  BY <1>1, <1>2 DEF PushTypes
<1>5. CASE UNCHANGED shown
  <2>1. NoticeInv'
    BY <1>1, <1>2, <1>3, <1>4, <1>5, NothingShown
  <2> QED
    BY <1>1, <1>2, <1>3, <1>4, <1>5, <2>1 DEF PushInv, PushTypes
<1>6. CASE flush.item # NoItem /\ Shown(flush.item)
  <2>1. flush.item \in Items /\ Awaited(flush.item)
    BY <1>1, <1>6 DEF PushTypes, Flushes, Awaited
  <2>2. NoticeInv' /\ shown' \in [Items -> Nat]
    BY <1>1, <1>2, <1>3, <1>6, <2>1, OneShown
  <2> QED
    BY <1>1, <1>2, <1>3, <1>4, <2>2 DEF PushInv, PushTypes
<1> QED
  BY <1>5, <1>6 DEF FlushFails

LEMMA InitPush == PushInit => PushInv
<1> SUFFICES ASSUME PushInit PROVE PushInv
  OBVIOUS
<1>1. PushTypes /\ FlushInv
  BY PushConstants DEF PushInit, PushTypes, FlushInv
<1>2. NoticeInv
  BY PushConstants DEF PushInit, NoticeInv
<1> QED
  BY <1>1, <1>2 DEF PushInv

LEMMA NextPush ==
  ASSUME PushInv, [PushNext]_pushVars
  PROVE  PushInv'
<1>1. CASE UNCHANGED pushVars
  BY <1>1 DEF pushVars, registry, PushInv, PushTypes, FlushInv, NoticeInv
<1>2. CASE PushNext
  BY <1>2, ChangesStep, FlushSteps, AnswerSteps, FailStep DEF PushNext
<1> QED
  BY <1>1, <1>2

\* The inductive invariant of the outbox.
THEOREM NoticesInductive == PushSpec => []PushInv
<1>1. PushInit => PushInv
  BY InitPush
<1>2. PushInv /\ [PushNext]_pushVars => PushInv'
  BY NextPush
<1> QED
  BY <1>1, <1>2, PTL DEF PushSpec

\* A device shows a notification once, and once more for every lost answer: enqueue takes
\* an event up once, and flush removes what was sent.
THEOREM NoticesShownOnce == PushSpec => []ShownOnce
<1>1. PushInv => ShownOnce
  BY DEF PushInv, NoticeInv, ShownOnce
<1> QED
  BY <1>1, NoticesInductive, PTL

\* flush: an answer that a token is dead removes the registration only of a device that
\* has this token now.
THEOREM RegistrationsKept == PushSpec => RegistrationKept
<1>1. ASSUME PushInv, [PushNext]_pushVars, flush.item # NoItem, flush' # flush,
             NEW d \in Devices, d \in Registered, endpoint'[d] = NoEndpoint
      PROVE  endpoint[d] \in dead
  <2>1. endpoint[d] # NoEndpoint
    BY <1>1 DEF Registered
  <2>2. endpoint' # endpoint
    BY <1>1, <2>1
  <2>3. ~UNCHANGED pushVars /\ PushNext
    BY <1>1 DEF pushVars
  <2>4. ~Changes
    BY <1>1, <2>2 DEF Changes, NotifyOf, Unregister, Register, Follow, Configure, TokenDies,
       ChangeAccount, Purge, registry
  <2>5. ~StartFlush /\ ~Looks /\ ~FlushFails /\ ~\E i \in Items : Wake(i)
    BY <1>1, <2>2 DEF StartFlush, Looks, Examine, Scanning, FlushFails, Wake, registry
  <2>6. PICK i \in Items : Success(i) \/ Retry(i) \/ Reject(i) \/ GiveUp(i)
    BY <2>3, <2>4, <2>5 DEF PushNext, Answered
  <2>7. GiveUp(i)
    BY <2>2, <2>6 DEF Success, Retry, Reject, registry
  <2>8. ~Rotated(i) /\ RemoveDevices({i[2]}) /\ flush.to \in dead
    BY <2>2, <2>7 DEF GiveUp
  <2>9. endpoint' = [x \in Devices |-> IF x \in {i[2]} THEN NoEndpoint ELSE endpoint[x]]
    BY <2>8 DEF RemoveDevices
  <2>10. d = i[2]
    BY <1>1, <2>1, <2>9
  <2> QED
    BY <2>1, <2>8, <2>10 DEF Rotated
<1>2. PushInv /\ [PushNext]_pushVars =>
        [\A d \in Devices :
           (flush.item # NoItem /\ flush' # flush /\ d \in Registered /\ endpoint'[d] = NoEndpoint)
             => endpoint[d] \in dead]_pushVars
  BY <1>1
<1> QED
  BY <1>2, NoticesInductive, PTL DEF PushSpec, RegistrationKept

-----------------------------------------------------------------------------
(* Notices: types                                                          *)

\* What waits was tried fewer times than the limit; what rests waits.
BoxTypes ==
  /\ \A i \in DOMAIN outbox : outbox[i] \in 0 .. AttemptsMax
  /\ resting \subseteq DOMAIN outbox

Vouchers == vouched \subseteq Registered

RestTypes ==
  /\ {follows, purge} \subseteq BOOLEAN /\ account \in {"active", "blocked"}
  /\ processed \subseteq Notices /\ enabled \subseteq {"ios", "android"} /\ dead \subseteq Endpoints
  /\ turmoil \in 0 .. MaxTurmoil /\ losses \in 0 .. MaxLosses

PushSides == BoxTypes /\ Vouchers /\ RestTypes

LEMMA PushLimits ==
  /\ AttemptsMax \in Nat /\ MaxTurmoil \in Nat /\ MaxLosses \in Nat /\ NoEndpoint \notin Endpoints
  BY PushAssumption

LEMMA WithoutTypes ==
  ASSUME BoxTypes, NEW items, Without(items)
  PROVE  BoxTypes'
<1>1. outbox' = [i \in DOMAIN outbox \ items |-> outbox[i]] /\ resting' = resting \ items
  BY DEF Without, Restrict
<1> QED
  BY <1>1 DEF BoxTypes

LEMMA BoxStays ==
  ASSUME BoxTypes, UNCHANGED <<outbox, resting>>
  PROVE  BoxTypes'
  BY DEF BoxTypes

LEMMA VouchersStay ==
  ASSUME Vouchers, UNCHANGED <<endpoint, vouched>>
  PROVE  Vouchers'
  BY DEF Vouchers, Registered

LEMMA RemovedTypes ==
  ASSUME BoxTypes, Vouchers, NEW devices, RemoveDevices(devices)
  PROVE  BoxTypes' /\ Vouchers'
<1>1. BoxTypes'
  BY WithoutTypes DEF RemoveDevices
<1>2. /\ endpoint' = [d \in Devices |-> IF d \in devices THEN NoEndpoint ELSE endpoint[d]]
      /\ vouched' = vouched \ devices
  BY DEF RemoveDevices
<1>3. \A d \in vouched \ devices : d \in Devices /\ endpoint'[d] # NoEndpoint
  BY <1>2 DEF Vouchers, Registered
<1>4. Vouchers'
  BY <1>2, <1>3 DEF Vouchers, Registered
<1> QED
  BY <1>1, <1>4

LEMMA PostponeTypes ==
  ASSUME BoxTypes, NEW i, Postpone(i)
  PROVE  BoxTypes'
<1>1. CASE i \notin DOMAIN outbox \/ flush.stale
  BY <1>1, BoxStays DEF Postpone
<1>2. CASE i \in DOMAIN outbox /\ ~flush.stale
  <2>1. PICK n \in 0 .. AttemptsMax : n = outbox[i]
    BY <1>2 DEF BoxTypes
  <2>2. CASE n + 1 >= AttemptsMax
    BY <1>2, <2>1, <2>2, WithoutTypes DEF Postpone
  <2>3. CASE ~(n + 1 >= AttemptsMax)
    <3>1. n + 1 \in 0 .. AttemptsMax
      BY <2>1, <2>3, PushLimits
    <3>2. outbox' = [outbox EXCEPT ![i] = n + 1] /\ resting' = resting \cup {i}
      BY <1>2, <2>1, <2>3 DEF Postpone
    <3> QED
      BY <1>2, <3>1, <3>2 DEF BoxTypes
  <2> QED
    BY <2>2, <2>3
<1> QED
  BY <1>1, <1>2

LEMMA ChangesTypes ==
  ASSUME PushTypes, BoxTypes, Vouchers, Changes
  PROVE  BoxTypes' /\ Vouchers'
<1>1. ASSUME NEW n \in Notices, NotifyOf(n)
      PROVE  BoxTypes' /\ Vouchers'
  <2>1. PICK new : outbox' = [i \in DOMAIN outbox \cup new |-> IF i \in new THEN 0 ELSE outbox[i]]
    BY <1>1 DEF NotifyOf
  <2>2. UNCHANGED <<resting, endpoint, vouched>> /\ 0 \in 0 .. AttemptsMax
    BY <1>1, PushLimits DEF NotifyOf, registry
  <2> QED
    BY <2>1, <2>2, VouchersStay DEF BoxTypes
<1>2. ASSUME NEW d \in Devices, NEW e \in Endpoints, Register(d, e)
      PROVE  BoxTypes' /\ Vouchers'
  <2> DEFINE superseded == {x \in Registered \ {d} : endpoint[x] = e}
             moved == d \in Registered /\ Platform[endpoint[d]] # Platform[e]
  <2>1. /\ endpoint' = [x \in Devices |-> IF x = d THEN e
                          ELSE IF x \in superseded THEN NoEndpoint ELSE endpoint[x]]
        /\ vouched' = (vouched \ superseded) \cup {d}
        /\ Without(ItemsOf(IF moved THEN superseded \cup {d} ELSE superseded))
    BY <1>2 DEF Register
  <2> HIDE DEF superseded, moved
  <2>2. \A x \in vouched' : x \in Devices /\ endpoint'[x] # NoEndpoint
    BY <2>1, PushLimits DEF Vouchers, Registered
  <2>3. Vouchers'
    BY <2>2 DEF Vouchers, Registered
  <2> QED
    BY <2>1, <2>3, WithoutTypes
<1>3. ASSUME NEW on \in BOOLEAN, Follow(on)
      PROVE  BoxTypes' /\ Vouchers'
  BY <1>3, BoxStays, WithoutTypes, VouchersStay DEF Follow
<1>4. ASSUME ChangeAccount
      PROVE  BoxTypes' /\ Vouchers'
  BY <1>4, BoxStays DEF ChangeAccount, Vouchers
<1>5. ASSUME Purge
      PROVE  BoxTypes' /\ Vouchers'
  BY <1>5, RemovedTypes, BoxStays, VouchersStay DEF Purge
<1>6. ASSUME NEW d \in Devices, Unregister(d)
      PROVE  BoxTypes' /\ Vouchers'
  BY <1>6, RemovedTypes DEF Unregister
<1>7. ASSUME (\E p \in {"ios", "android"} : Configure(p)) \/ (\E e \in Endpoints : TokenDies(e))
      PROVE  BoxTypes' /\ Vouchers'
  BY <1>7, BoxStays, VouchersStay DEF Configure, TokenDies, registry
<1> QED
  BY <1>1, <1>2, <1>3, <1>4, <1>5, <1>6, <1>7 DEF Changes

LEMMA FlushTypes ==
  ASSUME PushTypes, BoxTypes, Vouchers,
         StartFlush \/ (\E i \in Items : Wake(i)) \/ Looks \/ Answered \/ FlushFails
  PROVE  BoxTypes' /\ Vouchers'
<1>1. CASE StartFlush \/ FlushFails
  BY <1>1, BoxStays, VouchersStay DEF StartFlush, FlushFails, registry
<1>2. CASE \E i \in Items : Wake(i)
  <2>1. UNCHANGED <<endpoint, vouched, outbox>> /\ resting' \subseteq resting
    BY <1>2 DEF Wake, registry
  <2> QED
    BY <2>1, VouchersStay DEF BoxTypes
<1>3. CASE Looks
  BY <1>3, BoxStays, VouchersStay, RemovedTypes DEF Looks, Examine, registry
<1>4. ASSUME NEW i \in Items, Success(i) \/ Reject(i) \/ Retry(i)
      PROVE  BoxTypes' /\ Vouchers'
  <2>1. UNCHANGED <<endpoint, vouched>>
    BY <1>4 DEF Success, Reject, Retry, registry
  <2>2. Without({i}) \/ UNCHANGED <<outbox, resting>> \/ Postpone(i)
    BY <1>4 DEF Success, Reject, Retry
  <2> QED
    BY <2>1, <2>2, VouchersStay, BoxStays, WithoutTypes, PostponeTypes
<1>5. ASSUME NEW i \in Items, GiveUp(i)
      PROVE  BoxTypes' /\ Vouchers'
  <2>1. CASE UNCHANGED <<endpoint, vouched, outbox, resting>>
    BY <2>1, BoxStays, VouchersStay
  <2>2. CASE /\ outbox' = [j \in DOMAIN outbox |-> IF j = i THEN 0 ELSE outbox[j]]
             /\ UNCHANGED <<endpoint, vouched, resting>>
    <3>1. 0 \in 0 .. AttemptsMax
      BY PushLimits
    <3> QED
      BY <2>2, <3>1, VouchersStay DEF BoxTypes
  <2>3. CASE RemoveDevices({i[2]})
    BY <2>3, RemovedTypes
  <2> QED
    BY <1>5, <2>1, <2>2, <2>3 DEF GiveUp
<1> QED
  BY <1>1, <1>2, <1>3, <1>4, <1>5 DEF Answered

LEMMA RestStays ==
  ASSUME PushTypes, RestTypes, [PushNext]_pushVars
  PROVE  RestTypes'
<1>1. ASSUME UNCHANGED <<account, purge, processed, enabled, dead, turmoil, losses>>,
             follows' \in {follows, FALSE}
      PROVE  RestTypes'
  BY <1>1 DEF RestTypes
<1>2. ASSUME UNCHANGED <<follows, account, purge, processed, enabled, dead, turmoil>>,
             losses < MaxLosses, losses' = losses + 1
      PROVE  RestTypes'
  BY <1>2, PushLimits DEF RestTypes
<1>3. ASSUME turmoil' = turmoil \/ Turmoil
      PROVE  turmoil' \in 0 .. MaxTurmoil
  BY <1>3, PushLimits DEF RestTypes, Turmoil
<1>4. CASE UNCHANGED pushVars
  BY <1>1, <1>4 DEF pushVars, registry
<1>5. CASE Changes
  <2>1. CASE \E n \in Notices : NotifyOf(n)
    BY <2>1 DEF NotifyOf, registry, RestTypes
  <2>2. CASE \E d \in Devices : Unregister(d) \/ \E e \in Endpoints : Register(d, e)
    BY <1>3, <2>2 DEF Unregister, Register, RestTypes
  <2>3. CASE \E on \in BOOLEAN : Follow(on)
    BY <1>3, <2>3 DEF Follow, RestTypes
  <2>4. CASE \E p \in {"ios", "android"} : Configure(p)
    BY <1>3, <2>4 DEF Configure, registry, RestTypes
  <2>5. CASE \E e \in Endpoints : TokenDies(e)
    BY <2>5 DEF TokenDies, registry, RestTypes
  <2>6. CASE ChangeAccount
    BY <1>3, <2>6 DEF ChangeAccount, RestTypes
  <2>7. CASE Purge
    <3>1. /\ purge' = FALSE /\ UNCHANGED <<account, processed, enabled, dead, turmoil>>
          /\ follows' \in {follows, FALSE}
          /\ losses' = losses \/ (losses < MaxLosses /\ losses' = losses + 1)
      BY <2>7 DEF Purge
    <3>2. losses' \in 0 .. MaxLosses
      BY <3>1, PushLimits DEF RestTypes
    <3> QED
      BY <3>1, <3>2 DEF RestTypes
  <2> QED
    BY <1>5, <2>1, <2>2, <2>3, <2>4, <2>5, <2>6, <2>7 DEF Changes
<1>6. CASE StartFlush \/ (\E i \in Items : Wake(i)) \/ Looks
  BY <1>1, <1>6 DEF StartFlush, Wake, Looks, Examine, registry
<1>7. CASE Answered
  BY <1>1, <1>2, <1>7 DEF Answered, Success, Retry, Reject, GiveUp, registry
<1>8. CASE FlushFails
  <2>1. /\ UNCHANGED <<follows, account, processed, enabled, dead, turmoil>>
        /\ purge' \in {purge, FALSE} /\ losses < MaxLosses /\ losses' = losses + 1
    BY <1>8 DEF FlushFails
  <2>2. losses' \in 0 .. MaxLosses
    BY <2>1, PushLimits DEF RestTypes
  <2>3. {follows', purge'} \subseteq BOOLEAN
    BY <2>1 DEF RestTypes
  <2> QED
    BY <2>1, <2>2, <2>3 DEF RestTypes
<1> QED
  BY <1>4, <1>5, <1>6, <1>7, <1>8 DEF PushNext

\* Every variable of the outbox has its type: no item is tried more often than the limit
\* allows, and only a device that is registered is vouched for.
THEOREM PushTypeInvariant == PushSpec => []PushTypeOK
<1>1. PushInit => PushSides
  <2> SUFFICES ASSUME PushInit PROVE PushSides
    OBVIOUS
  <2>1. BoxTypes /\ Vouchers
    BY DEF PushInit, BoxTypes, Vouchers
  <2>2. RestTypes
    <3>1. turmoil \in 0 .. MaxTurmoil /\ losses \in 0 .. MaxLosses
      BY PushLimits DEF PushInit
    <3>2. {follows, purge} \subseteq BOOLEAN
      BY DEF PushInit
    <3> QED
      BY <3>1, <3>2 DEF PushInit, RestTypes
  <2> QED
    BY <2>1, <2>2 DEF PushSides
<1>2. PushInv /\ PushSides /\ [PushNext]_pushVars => PushSides'
  <2> SUFFICES ASSUME PushInv, PushSides, [PushNext]_pushVars PROVE PushSides'
    OBVIOUS
  <2>1. PushTypes /\ BoxTypes /\ Vouchers /\ RestTypes
    BY DEF PushInv, PushSides
  <2>2. CASE UNCHANGED pushVars
    BY <2>1, <2>2, BoxStays, VouchersStay, RestStays DEF pushVars, registry, PushSides
  <2>3. CASE PushNext
    BY <2>1, <2>3, ChangesTypes, FlushTypes, RestStays DEF PushNext, PushSides
  <2> QED
    BY <2>2, <2>3
<1>3. PushInv /\ PushSides => PushTypeOK
  BY DEF PushInv, PushTypes, Flushes, PushSides, BoxTypes, Vouchers, RestTypes, PushTypeOK
<1> QED
  BY <1>1, <1>2, <1>3, NoticesInductive, PTL DEF PushSpec

-----------------------------------------------------------------------------
(* Tasks                                                                   *)

PartStatus == {"absent", "pending", "running", "review", "complete", "failed", "blocked",
               "cancelling", "cancelled"}
PartRecords == [status : PartStatus, attempt : Nat, cap : Nat,
                run : {"none", "active", "complete", "failed"}]

TaskTypes ==
  /\ goal \in {"none", "running", "review", "waiting"} \cup TerminalGoal \cup Stopping
  /\ part \in [Parts -> PartRecords]

Over == {"absent", "complete", "cancelled"}

\* An attempt runs only for an assignment that is under way or being cancelled.
RunsFor(r) == r.run = "active" => r.status \in {"running", "cancelling"}

\* An ended goal has nothing but ended assignments; one that is being stopped has besides
\* them those whose run still has to stop.
Fits(g, r) ==
  /\ g \in {"complete", "cancelled"} => r.status \in Over
  /\ g = "cancelling" => r.status \in Over \cup {"cancelling"}

PartInv == \A p \in Parts : RunsFor(part[p]) /\ Fits(goal, part[p])

TaskInv == TaskTypes /\ PartInv

\* The end an assignment is given fits its run, and every goal but one that has ended.
LEMMA EndsWell ==
  ASSUME TaskInv, NEW p \in Parts
  PROVE  LET r == [part[p] EXCEPT !.status = EndedBy(p)] IN
         r \in PartRecords /\ RunsFor(r) /\ r.status \in {"cancelling", "cancelled"}
<1>1. part[p] \in PartRecords
  BY DEF TaskInv, TaskTypes
<1>2. EndedBy(p) = IF part[p].run = "active" THEN "cancelling" ELSE "cancelled"
  BY DEF EndedBy
<1>3. EndedBy(p) \in {"cancelling", "cancelled"} /\ (part[p].run = "active" => EndedBy(p) = "cancelling")
  <2>1. CASE part[p].run = "active"
    BY <1>2, <2>1
  <2>2. CASE part[p].run # "active"
    BY <1>2, <2>2
  <2> QED
    BY <2>1, <2>2
<1>4. PICK s \in {"cancelling", "cancelled"} :
        s = EndedBy(p) /\ (part[p].run = "active" => s = "cancelling")
  BY <1>3
<1>5. /\ [part[p] EXCEPT !.status = s] \in PartRecords
      /\ RunsFor([part[p] EXCEPT !.status = s]) /\ [part[p] EXCEPT !.status = s].status = s
  BY <1>1, <1>4 DEF PartRecords, PartStatus, RunsFor
<1> QED
  BY <1>4, <1>5

\* cancel, the part of every stop.
LEMMA CancelledKeeps ==
  ASSUME TaskInv, Cancelled
  PROVE  TaskInv'
<1>1. CASE goal \in TerminalGoal \cup {"cancelling"}
  BY <1>1 DEF Cancelled, TaskInv, TaskTypes, PartInv
<1>2. CASE goal \notin TerminalGoal \cup {"cancelling"}
  <2>1. /\ goal' = "cancelling"
        /\ part' = [p \in Parts |->
             IF part[p].status \in {"absent", "complete", "cancelled"} THEN part[p]
             ELSE [part[p] EXCEPT !.status = EndedBy(p)]]
    BY <1>2 DEF Cancelled
  <2>2. ASSUME NEW p \in Parts
        PROVE  part'[p] \in PartRecords /\ RunsFor(part'[p]) /\ Fits(goal', part'[p])
    <3>1. CASE part[p].status \in {"absent", "complete", "cancelled"}
      BY <2>1, <3>1 DEF TaskInv, TaskTypes, PartInv, Fits, Over
    <3>2. CASE part[p].status \notin {"absent", "complete", "cancelled"}
      <4>1. part'[p] = [part[p] EXCEPT !.status = EndedBy(p)]
        BY <2>1, <3>2
      <4>2. part'[p] \in PartRecords /\ RunsFor(part'[p]) /\ part'[p].status \in {"cancelling", "cancelled"}
        BY <4>1, EndsWell
      <4> QED
        BY <2>1, <4>2 DEF Fits, Over
    <3> QED
      BY <3>1, <3>2
  <2>3. part' \in [Parts -> PartRecords]
    BY <2>1, <2>2
  <2> QED
    BY <2>1, <2>2, <2>3 DEF TaskInv, TaskTypes, PartInv, Stopping
<1> QED
  BY <1>1, <1>2

\* What one pass over the first n assignments makes of assignment p.
Looked(n, gone, p) ==
  CASE p > n -> part[p]
    [] p <= n /\ part[p].status = "cancelling" /\ part[p].run # "active" ->
         [part[p] EXCEPT !.status = "cancelled"]
    [] p <= n /\ part[p].status = "running" /\ part[p].run # "active" ->
         [part[p] EXCEPT !.status = IF part[p].run = "complete" THEN "review" ELSE "failed"]
    [] p <= n /\ Ready(p) /\ p \in gone -> [part[p] EXCEPT !.status = "blocked"]
    [] p <= n /\ Ready(p) /\ p \notin gone ->
         [part[p] EXCEPT !.status = "running", !.attempt = @ + 1, !.run = "active"]
    [] OTHER -> part[p]

\* One pass over the assignments dispatches what is ready and ends what has ended.
LEMMA LookedKeeps ==
  ASSUME TaskInv, NEW n \in Nat, NEW gone, NEW p \in Parts
  PROVE  Looked(n, gone, p) \in PartRecords /\ RunsFor(Looked(n, gone, p))
<1> DEFINE r == part[p]
           next == Looked(n, gone, p)
<1>1. r \in PartRecords /\ RunsFor(r) /\ p \in Nat
  BY TaskAssumption DEF TaskInv, TaskTypes, PartInv, Parts
<1>3. Ready(p) => r.status = "pending"
  BY DEF Ready
<1>4. \/ next = r
      \/ r.run # "active" /\ next = [r EXCEPT !.status = "cancelled"]
      \/ r.run # "active" /\ next = [r EXCEPT !.status = "review"]
      \/ r.run # "active" /\ next = [r EXCEPT !.status = "failed"]
      \/ Ready(p) /\ next = [r EXCEPT !.status = "blocked"]
      \/ next = [r EXCEPT !.status = "running", !.attempt = @ + 1, !.run = "active"]
  <2>1. CASE p > n
    BY <1>1, <2>1 DEF Looked
  <2>2. CASE p <= n /\ r.status = "cancelling"
    BY <1>1, <1>3, <2>2 DEF Looked
  <2>3. CASE p <= n /\ r.status = "running"
    BY <1>1, <1>3, <2>3 DEF Looked
  <2>4. CASE p <= n /\ Ready(p)
    BY <1>1, <1>3, <2>4 DEF Looked
  <2>5. CASE p <= n /\ r.status \notin {"cancelling", "running"} /\ ~Ready(p)
    BY <1>1, <2>5 DEF Looked
  <2> QED
    BY <1>1, <2>1, <2>2, <2>3, <2>4, <2>5
<1> SUFFICES next \in PartRecords /\ RunsFor(next)
  OBVIOUS
<1> HIDE DEF next
<1>5. r.status = "pending" => r.run # "active"
  BY <1>1 DEF RunsFor
<1>6. r.status \in PartStatus /\ r.attempt + 1 \in Nat
  BY <1>1 DEF PartRecords
<1>7. ASSUME NEW s \in PartStatus, next = [r EXCEPT !.status = s],
             r.run # "active"
      PROVE  next \in PartRecords /\ RunsFor(next)
  BY <1>1, <1>7 DEF PartRecords, RunsFor
<1>8. CASE next = [r EXCEPT !.status = "running", !.attempt = @ + 1, !.run = "active"]
  BY <1>1, <1>6, <1>8 DEF PartRecords, PartStatus, RunsFor
<1>9. CASE next = r
  BY <1>1, <1>9
<1> QED
  BY <1>3, <1>4, <1>5, <1>7, <1>8, <1>9 DEF PartStatus

LEMMA ProgressedKeeps ==
  ASSUME TaskInv, NEW n \in Nat, NEW gone, part' = Progressed(n, gone),
         goal' \in {"running", "review"}
  PROVE  TaskInv'
<1>1. part' = [p \in Parts |-> Looked(n, gone, p)]
  BY DEF Progressed, Looked
<1>2. ASSUME NEW p \in Parts
      PROVE  part'[p] \in PartRecords /\ RunsFor(part'[p]) /\ Fits(goal', part'[p])
  BY <1>1, LookedKeeps DEF Fits
<1>3. part' \in [Parts -> PartRecords]
  BY <1>1, <1>2
<1> QED
  BY <1>2, <1>3 DEF TaskInv, TaskTypes, PartInv

\* One assignment changes, to a record that fits its run and the goal; the goal goes on
\* unless it stays.
LEMMA OneChanges ==
  ASSUME TaskInv, NEW p \in Parts, NEW r \in PartRecords, part' = [part EXCEPT ![p] = r],
         RunsFor(r), Fits(goal', r), goal' \in {goal, "running", "waiting"}
  PROVE  TaskInv'
<1>1. part' \in [Parts -> PartRecords]
  BY DEF TaskInv, TaskTypes
<1>2. ASSUME NEW q \in Parts
      PROVE  RunsFor(part'[q]) /\ Fits(goal', part'[q])
  <2>1. CASE q = p
    BY <2>1 DEF TaskInv, TaskTypes
  <2>2. CASE q # p
    <3>1. part'[q] = part[q] /\ RunsFor(part[q]) /\ Fits(goal, part[q])
      BY <2>2 DEF TaskInv, TaskTypes, PartInv
    <3> QED
      BY <3>1 DEF Fits
  <2> QED
    BY <2>1, <2>2
<1> QED
  BY <1>1, <1>2 DEF TaskInv, TaskTypes, PartInv

\* createAssignment, reviewAssignment and updateAssignment are about an assignment that
\* does not run.
LEMMA IdleIs ==
  ASSUME TaskInv, NEW p \in Parts, part[p].status \notin {"running", "cancelling"}
  PROVE  part[p] \in PartRecords /\ part[p].run # "active"
BY DEF TaskInv, TaskTypes, PartInv, RunsFor

LEMMA OperationStep ==
  ASSUME TaskInv, NEW p \in Parts,
         \/ CreateAssignment(p) \/ Reassign(p) \/ CancelAssignment(p)
         \/ \E d \in {"accept", "retry", "blocked"} : ReviewAssignment(p, d)
         \/ PartRunEnds(p)
  PROVE  TaskInv'
<1>1. /\ part \in [Parts -> PartRecords] /\ part[p] \in PartRecords
      /\ RunsFor(part[p]) /\ Fits(goal, part[p])
  BY DEF TaskInv, TaskTypes, PartInv
<1>2. Revived \in {"running", "waiting"}
  BY DEF Revived
<1>3. \A s : With(p, s) = [part EXCEPT ![p] = [part[p] EXCEPT !.status = s]]
  BY <1>1 DEF With
<1>4. CASE CreateAssignment(p)
  <2> DEFINE r == [part[p] EXCEPT !.status = "pending"]
  <2>1. part' = [part EXCEPT ![p] = r] /\ goal' \in {"running", "waiting"}
    BY <1>2, <1>3, <1>4 DEF CreateAssignment
  <2>2. part[p].run # "active"
    BY <1>4, IdleIs DEF CreateAssignment
  <2>3. r \in PartRecords /\ RunsFor(r) /\ Fits(goal', r)
    BY <1>1, <2>1, <2>2 DEF PartRecords, PartStatus, RunsFor, Fits
  <2> HIDE DEF r
  <2> QED
    BY <2>1, <2>3, OneChanges
<1>5. CASE Reassign(p)
  <2> DEFINE r == [part[p] EXCEPT !.status = "pending", !.run = "none"]
  <2>1. part' = [part EXCEPT ![p] = r] /\ goal' = goal
    BY <1>1, <1>5 DEF Reassign
  <2>2. goal \notin {"complete", "cancelled", "cancelling"}
    BY <1>1, <1>5 DEF Reassign, Fits, Over, TerminalGoal
  <2>3. r \in PartRecords /\ RunsFor(r) /\ Fits(goal', r)
    BY <1>1, <2>1, <2>2 DEF PartRecords, PartStatus, RunsFor, Fits
  <2> HIDE DEF r
  <2> QED
    BY <2>1, <2>3, OneChanges
<1>6. CASE CancelAssignment(p)
  <2> DEFINE r == [part[p] EXCEPT !.status = EndedBy(p)]
  <2>1. part' = [part EXCEPT ![p] = r] /\ goal' = goal /\ goal \notin TerminalGoal
    BY <1>3, <1>6 DEF CancelAssignment
  <2>2. r \in PartRecords /\ RunsFor(r) /\ r.status \in {"cancelling", "cancelled"}
    BY EndsWell
  <2> HIDE DEF r
  <2>3. Fits(goal', r)
    BY <2>1, <2>2 DEF Fits, Over, TerminalGoal
  <2> QED
    BY <2>1, <2>2, <2>3, OneChanges
<1>7. ASSUME NEW d \in {"accept", "retry", "blocked"}, ReviewAssignment(p, d)
      PROVE  TaskInv'
  <2>1. part[p].run # "active"
    BY <1>7, IdleIs DEF ReviewAssignment
  <2>2. goal' \in {"running", "waiting"}
    BY <1>2, <1>7 DEF ReviewAssignment
  <2>3. PICK r \in PartRecords : part' = [part EXCEPT ![p] = r] /\ r.run # "active"
    <3>1. CASE d = "accept"
      <4>1. part' = [part EXCEPT ![p] = [part[p] EXCEPT !.status = "complete"]]
        BY <1>3, <1>7, <3>1 DEF ReviewAssignment
      <4>2. [part[p] EXCEPT !.status = "complete"] \in PartRecords
            /\ [part[p] EXCEPT !.status = "complete"].run # "active"
        BY <1>1, <2>1 DEF PartRecords, PartStatus
      <4> QED
        BY <4>1, <4>2
    <3>2. CASE d = "blocked"
      <4>1. part' = [part EXCEPT ![p] = [part[p] EXCEPT !.status = "blocked"]]
        BY <1>3, <1>7, <3>2 DEF ReviewAssignment
      <4>2. [part[p] EXCEPT !.status = "blocked"] \in PartRecords
            /\ [part[p] EXCEPT !.status = "blocked"].run # "active"
        BY <1>1, <2>1 DEF PartRecords, PartStatus
      <4> QED
        BY <4>1, <4>2
    <3>3. CASE d = "retry"
      <4>1. part' = [part EXCEPT ![p] = [part[p] EXCEPT !.status = "pending", !.run = "none"]]
        BY <1>1, <1>7, <3>3 DEF ReviewAssignment
      <4>2. [part[p] EXCEPT !.status = "pending", !.run = "none"] \in PartRecords
            /\ [part[p] EXCEPT !.status = "pending", !.run = "none"].run # "active"
        BY <1>1 DEF PartRecords, PartStatus
      <4> QED
        BY <4>1, <4>2
    <3> QED
      BY <3>1, <3>2, <3>3
  <2>4. RunsFor(r) /\ Fits(goal', r)
    BY <2>2, <2>3 DEF RunsFor, Fits
  <2> QED
    BY <2>2, <2>3, <2>4, OneChanges
<1>8. CASE PartRunEnds(p)
  <2>1. PICK e \in {"complete", "failed"} : part' = [part EXCEPT ![p].run = e]
    BY <1>8 DEF PartRunEnds
  <2> DEFINE r == [part[p] EXCEPT !.run = e]
  <2>2. part' = [part EXCEPT ![p] = r] /\ goal' = goal
    BY <1>1, <1>8, <2>1 DEF PartRunEnds
  <2>3. r \in PartRecords /\ RunsFor(r) /\ r.status = part[p].status
    BY <1>1 DEF PartRecords, RunsFor
  <2> HIDE DEF r
  <2>4. Fits(goal', r)
    BY <1>1, <2>2, <2>3 DEF Fits
  <2> QED
    BY <2>2, <2>3, <2>4, OneChanges
<1> QED
  BY <1>4, <1>5, <1>6, <1>7, <1>8

LEMMA FinishStep ==
  ASSUME TaskInv, NEW s \in {"complete", "blocked", "waiting"}, NEW t, FinishGoal(s, t)
  PROVE  TaskInv'
<1>1. goal' = s /\ part' = part /\ Finishable(s)
  BY DEF FinishGoal
<1>2. ASSUME NEW p \in Parts
      PROVE  Fits(s, part[p])
  <2>1. CASE s = "complete"
    <3>1. part[p].status = "absent" \/ part[p].status \in {"complete", "cancelled"}
      BY <1>1, <2>1 DEF Finishable, Created
    <3> QED
      BY <2>1, <3>1 DEF Fits, Over
  <2>2. CASE s # "complete"
    BY <2>2 DEF Fits
  <2> QED
    BY <2>1, <2>2
<1> QED
  BY <1>1, <1>2 DEF TaskInv, TaskTypes, PartInv, TerminalGoal

LEMMA ResumeStep ==
  ASSUME TaskInv, NEW t, Resume(t)
  PROVE  TaskInv'
<1>1. goal' = "running" /\ ~Busy(part)
  BY DEF Resume
<1> DEFINE again(p) == [part[p] EXCEPT !.cap = part[p].attempt + AttemptLimit]
           next(p) == IF p \notin Created THEN part[p]
                      ELSE IF part[p].status = "cancelled"
                           THEN [again(p) EXCEPT !.status = "pending", !.run = "none"]
                           ELSE again(p)
<1>2. part' = [p \in Parts |-> next(p)]
  BY DEF Resume
<1>3. ASSUME NEW p \in Parts
      PROVE  next(p) \in PartRecords /\ next(p).run # "active"
  <2>1. part[p] \in PartRecords /\ part[p].run # "active"
    BY <1>1 DEF TaskInv, TaskTypes, Busy
  <2>2. part[p].attempt + AttemptLimit \in Nat
    BY <2>1, TaskAssumption DEF PartRecords
  <2>3. again(p) \in PartRecords /\ again(p).run # "active"
    BY <2>1, <2>2 DEF PartRecords
  <2>4. /\ [again(p) EXCEPT !.status = "pending", !.run = "none"] \in PartRecords
        /\ [again(p) EXCEPT !.status = "pending", !.run = "none"].run # "active"
    BY <2>3 DEF PartRecords, PartStatus
  <2> HIDE DEF again
  <2> QED
    BY <2>1, <2>3, <2>4
<1> HIDE DEF next
<1>4. part' \in [Parts -> PartRecords] /\ \A p \in Parts : part'[p].run # "active"
  BY <1>2, <1>3
<1> QED
  BY <1>1, <1>4 DEF TaskInv, TaskTypes, PartInv, RunsFor, Fits

LEMMA ReconcileStopStep ==
  ASSUME TaskInv, ReconcileStop
  PROVE  TaskInv'
<1>1. CASE Busy(part)
  BY <1>1 DEF ReconcileStop, TaskInv, TaskTypes, PartInv
<1>2. CASE ~Busy(part)
  <2> DEFINE next(p) == IF part[p].status = "cancelling"
                        THEN [part[p] EXCEPT !.status = "cancelled"] ELSE part[p]
  <2>1. goal = "cancelling" /\ goal' = "cancelled" /\ part' = [p \in Parts |-> next(p)]
    BY <1>2 DEF ReconcileStop
  <2>2. ASSUME NEW p \in Parts
        PROVE  next(p) \in PartRecords /\ next(p).run # "active" /\ next(p).status \in Over
    <3>1. part[p] \in PartRecords /\ part[p].run # "active"
      BY <1>2 DEF TaskInv, TaskTypes, Busy
    <3>2. part[p].status \in Over \cup {"cancelling"}
      BY <2>1 DEF TaskInv, PartInv, Fits
    <3>3. CASE part[p].status = "cancelling"
      BY <3>1, <3>3 DEF PartRecords, PartStatus, Over
    <3>4. CASE part[p].status # "cancelling"
      BY <3>1, <3>2, <3>4
    <3> QED
      BY <3>3, <3>4
  <2> HIDE DEF next
  <2>3. /\ part' \in [Parts -> PartRecords]
        /\ \A p \in Parts : part'[p].run # "active" /\ part'[p].status \in Over
    BY <2>1, <2>2
  <2> QED
    BY <2>1, <2>3 DEF TaskInv, TaskTypes, PartInv, RunsFor, Fits, Stopping
<1> QED
  BY <1>1, <1>2

LEMMA ReconcileEndedStep ==
  ASSUME TaskInv, ReconcileEnded
  PROVE  TaskInv'
<1>1. goal' = goal
  BY DEF ReconcileEnded
<1>2. CASE goal # "blocked"
  <2>1. part' = part
    BY <1>2 DEF ReconcileEnded
  <2> QED
    BY <1>1, <2>1 DEF TaskInv, TaskTypes, PartInv
<1>3. CASE goal = "blocked"
  <2> DEFINE next(p) == IF part[p].status \in {"pending", "running", "cancelling"}
                        THEN [part[p] EXCEPT !.status = EndedBy(p)] ELSE part[p]
  <2>1. part' = [p \in Parts |-> next(p)]
    BY <1>3 DEF ReconcileEnded
  <2>2. ASSUME NEW p \in Parts
        PROVE  next(p) \in PartRecords /\ RunsFor(next(p))
    <3>1. CASE part[p].status \in {"pending", "running", "cancelling"}
      <4>1. next(p) = [part[p] EXCEPT !.status = EndedBy(p)]
        BY <3>1
      <4> QED
        BY <4>1, EndsWell
    <3>2. CASE part[p].status \notin {"pending", "running", "cancelling"}
      BY <3>2 DEF TaskInv, TaskTypes, PartInv
    <3> QED
      BY <3>1, <3>2
  <2> HIDE DEF next
  <2>3. part' \in [Parts -> PartRecords] /\ \A p \in Parts : RunsFor(part'[p])
    BY <2>1, <2>2
  <2> QED
    BY <1>1, <1>3, <2>3 DEF TaskInv, TaskTypes, PartInv, Fits
<1> QED
  BY <1>2, <1>3

LEMMA ReconcileWorkStep ==
  ASSUME TaskInv, ReconcileWork \/ Refused
  PROVE  TaskInv'
<1>1. goal \in {"running", "review"} /\ PartCount \in Nat
  BY TaskAssumption DEF ReconcileWork, Refused
<1>2. CASE ReconcileWork
  <2>1. PICK gone : part' = Progressed(PartCount, gone) /\ AskReview(part')
    BY <1>2 DEF ReconcileWork
  <2>2. goal' \in {"running", "review"}
    BY <1>1, <2>1 DEF AskReview
  <2> QED
    BY <1>1, <2>1, <2>2, ProgressedKeeps
<1>3. CASE Refused
  <2>1. goal' \in {"running", "review"}
    BY <1>1, <1>3 DEF Refused
  <2>2. \/ \E p \in Parts : part' = Progressed(p - 1, {})
        \/ part' = Progressed(PartCount, {})
    BY <1>3 DEF Refused
  <2>3. \A p \in Parts : p - 1 \in Nat
    BY TaskAssumption DEF Parts
  <2> QED
    BY <1>1, <2>1, <2>2, <2>3, ProgressedKeeps
<1> QED
  BY <1>2, <1>3

\* However an assignment came to its status, it has a running attempt only while it is
\* under way or being cancelled, and an ended goal has only assignments that ended.
THEOREM TaskInductive == TaskSpec => []TaskInv
<1>1. TaskInit => TaskInv
  <2>1. NoPart \in PartRecords /\ RunsFor(NoPart) /\ NoPart.status \in Over
    BY TaskAssumption DEF NoPart, PartRecords, PartStatus, RunsFor, Over
  <2> QED
    BY <2>1 DEF TaskInit, TaskInv, TaskTypes, PartInv, Fits
<1>2. ASSUME TaskInv, [TaskNext]_taskVars
      PROVE  TaskInv'
  <2> USE <1>2
  <2>1. CASE \E p \in Parts :
               \/ CreateAssignment(p) \/ Reassign(p) \/ CancelAssignment(p)
               \/ \E d \in {"accept", "retry", "blocked"} : ReviewAssignment(p, d)
               \/ PartRunEnds(p)
    BY <2>1, OperationStep
  <2>2. CASE \E s \in {"complete", "blocked", "waiting"} : \E t \in {0} \cup TurnSlots : FinishGoal(s, t)
    BY <2>2, FinishStep
  <2>3. CASE \E t \in TurnSlots : Resume(t)
    BY <2>3, ResumeStep
  <2>4. CASE StopTask \/ StopOrigin \/ ReconcileRevoked
    <3>1. CASE Cancelled
      BY <3>1, CancelledKeeps
    <3>2. CASE UNCHANGED <<goal, part>>
      BY <3>2 DEF TaskInv, TaskTypes, PartInv
    <3> QED
      BY <2>4, <3>1, <3>2 DEF StopTask, StopOrigin, ReconcileRevoked
  <2>5. CASE ReconcileStop
    BY <2>5, ReconcileStopStep
  <2>6. CASE ReconcileEnded
    BY <2>6, ReconcileEndedStep
  <2>7. CASE ReconcileWork \/ Refused
    BY <2>7, ReconcileWorkStep
  <2>8. CASE Begin
    BY <2>8 DEF Begin, TaskInv, TaskTypes, PartInv, Fits
  <2>9. CASE UNCHANGED <<goal, part>>
    BY <2>9 DEF TaskInv, TaskTypes, PartInv
  <2>10. CASE \/ \E t \in TurnSlots : OriginTurnEnds(t)
              \/ UpdateCriteria \/ AuthorityEnds \/ UserWrites \/ KickoffEnds
              \/ UNCHANGED taskVars
    BY <2>9, <2>10 DEF OriginTurnEnds, UpdateCriteria, AuthorityEnds, UserWrites, KickoffEnds, taskVars
  <2> QED
    BY <2>1, <2>2, <2>3, <2>4, <2>5, <2>6, <2>7, <2>8, <2>10 DEF TaskNext, Reconcile
<1> QED
  BY <1>1, <1>2, PTL DEF TaskSpec

\* A goal that reports itself complete, or that was stopped, has no assignment that still
\* works (taskCoordinator.ts, finish, cancel and reconcile).
THEOREM EndedGoalsRest == TaskSpec => []EndedMeansDone
<1>1. TaskInv => EndedMeansDone
  <2> SUFFICES ASSUME TaskInv, goal \in {"complete", "cancelled"}, NEW p \in Created
               PROVE  part[p].status \in {"complete", "cancelled"} /\ part[p].run # "active"
    BY DEF EndedMeansDone
  <2>1. RunsFor(part[p]) /\ part[p].status \in Over /\ part[p].status # "absent"
    BY DEF TaskInv, PartInv, Fits, Created
  <2> QED
    BY <2>1 DEF RunsFor, Over
<1> QED
  BY <1>1, TaskInductive, PTL

-----------------------------------------------------------------------------
(* Tasks: the rest of the types                                            *)

TurnRecords == [by : {"user", "review", "terminal"},
                state : {"active", "answered", "silent", "stopped"}]

\* The turns a goal names are turns of its origin.
TurnTypes ==
  /\ turns \in Seq(TurnRecords)
  /\ origin \in 0 .. Len(turns) /\ reviewer \in 0 .. Len(turns) /\ reporter \in 0 .. Len(turns)

CountTypes ==
  /\ authorized \in BOOLEAN /\ activation \in 1 .. MaxActivation
  /\ kickoff \in {"active", "stopping", "ended"}
  /\ criteria \in Nat /\ wakes \in 0 .. WakeLimit /\ revision \in Nat /\ ops \in Nat

Unasked == goal = "none" => turns = <<>>

TaskSides == TurnTypes /\ CountTypes /\ Unasked

LEMMA TaskLimits ==
  /\ PartCount \in Nat /\ AttemptLimit \in Nat /\ WakeLimit \in Nat /\ MaxTurns \in Nat
  /\ MaxOps \in Nat /\ MaxActivation \in Nat /\ MaxActivation >= 1
  BY TaskAssumption

LEMMA ActiveTurns ==
  ASSUME TurnTypes
  PROVE  /\ Len(turns) \in Nat /\ DOMAIN turns = 1 .. Len(turns)
         /\ \A t : TurnActive(t) => t \in 0 .. Len(turns)
  BY DEF TurnTypes, TurnActive

LEMMA TurnsKept ==
  ASSUME TurnTypes, turns' \in Seq(TurnRecords), Len(turns') \in {Len(turns), Len(turns) + 1},
         origin' \in {origin, 0} \/ TurnActive(origin'),
         reviewer' \in {reviewer, 0, Len(turns')} \/ TurnActive(reviewer'),
         reporter' \in {reporter, 0} \/ TurnActive(reporter')
  PROVE  TurnTypes'
<1>1. PICK n \in Nat, m \in Nat : n = Len(turns) /\ m = Len(turns')
  BY DEF TurnTypes
<1>2. n <= m /\ \A t : TurnActive(t) => t \in 0 .. n
  BY <1>1, ActiveTurns
<1>3. origin \in 0 .. n /\ reviewer \in 0 .. n /\ reporter \in 0 .. n
  BY <1>1 DEF TurnTypes
<1>4. origin' \in 0 .. m /\ reviewer' \in 0 .. m /\ reporter' \in 0 .. m
  BY <1>1, <1>2, <1>3
<1> QED
  BY <1>1, <1>4 DEF TurnTypes

LEMMA TurnsStay ==
  ASSUME TurnTypes, UNCHANGED <<turns, origin, reviewer, reporter>>
  PROVE  TurnTypes'
  BY DEF TurnTypes

\* A delivery that wakes the coordinator adds a turn, within the limit of wakes.
LEMMA Delivers ==
  ASSUME TurnTypes, CountTypes, NEW kind \in {"review", "terminal"}, NEW key,
         DeliverResult(kind, key)
  PROVE  /\ turns' \in Seq(TurnRecords) /\ Len(turns') \in {Len(turns), Len(turns) + 1}
         /\ reviewer' \in {reviewer, Len(turns')} /\ wakes' \in 0 .. WakeLimit
<1>1. turns \in Seq(TurnRecords) /\ wakes \in 0 .. WakeLimit /\ WakeLimit \in Nat
  BY TaskLimits DEF TurnTypes, CountTypes
<1>2. CASE UNCHANGED <<turns, reviewer, wakes>>
  BY <1>1, <1>2
<1>3. ASSUME ~(wakes >= WakeLimit), turns' = Append(turns, [by |-> kind, state |-> "active"]),
             wakes' = wakes + 1,
             reviewer' = IF kind = "review" THEN Len(turns) + 1 ELSE reviewer
      PROVE  /\ turns' \in Seq(TurnRecords) /\ Len(turns') \in {Len(turns), Len(turns) + 1}
             /\ reviewer' \in {reviewer, Len(turns')} /\ wakes' \in 0 .. WakeLimit
  <2>1. [by |-> kind, state |-> "active"] \in TurnRecords
    BY DEF TurnRecords
  <2>2. turns' \in Seq(TurnRecords) /\ Len(turns') = Len(turns) + 1
    BY <1>1, <1>3, <2>1
  <2>3. wakes' \in 0 .. WakeLimit
    BY <1>1, <1>3
  <2> QED
    BY <1>3, <2>2, <2>3
<1> QED
  BY <1>2, <1>3 DEF DeliverResult

LEMMA CountsStay ==
  ASSUME CountTypes,
         authorized' \in BOOLEAN, activation' \in 1 .. MaxActivation,
         kickoff' \in {kickoff, "active", "stopping", "ended"},
         criteria' \in {criteria, criteria + 1}, wakes' \in 0 .. WakeLimit,
         revision' \in {revision, revision + 1, 1}, ops' \in {ops, ops + 1}
  PROVE  CountTypes'
  BY DEF CountTypes

\* What the coordinator and the user do to a goal that is there.
LEMMA OperationTypes ==
  ASSUME TaskSides,
         \/ \E p \in Parts : \/ CreateAssignment(p) \/ Reassign(p) \/ CancelAssignment(p)
                             \/ \E d \in {"accept", "retry", "blocked"} : ReviewAssignment(p, d)
                             \/ PartRunEnds(p)
         \/ UpdateCriteria \/ StopTask \/ AuthorityEnds \/ ReconcileStop \/ ReconcileRevoked
         \/ Refused \/ KickoffEnds
  PROVE  TurnTypes' /\ CountTypes'
<1>1. TurnTypes /\ CountTypes
  BY DEF TaskSides
<1>2. /\ authorized \in BOOLEAN /\ activation \in 1 .. MaxActivation /\ wakes \in 0 .. WakeLimit
      /\ Halted \in {kickoff, "stopping"}
  BY <1>1 DEF CountTypes, Halted
<1>3. CASE \E p \in Parts : CreateAssignment(p) \/ Reassign(p) \/ CancelAssignment(p)
  BY <1>1, <1>2, <1>3, TurnsStay, CountsStay
     DEF CreateAssignment, Reassign, CancelAssignment, Coordinate, Operate
<1>4. CASE \E p \in Parts : \/ \E d \in {"accept", "retry", "blocked"} : ReviewAssignment(p, d)
                            \/ PartRunEnds(p)
  BY <1>1, <1>2, <1>4, TurnsStay, CountsStay DEF ReviewAssignment, PartRunEnds, Coordinate, Operate
<1>5. CASE UpdateCriteria \/ AuthorityEnds \/ KickoffEnds
  BY <1>1, <1>2, <1>5, TurnsStay, CountsStay DEF UpdateCriteria, AuthorityEnds, KickoffEnds, Operate
<1>6. CASE StopTask \/ ReconcileRevoked \/ ReconcileStop
  <2>1. /\ UNCHANGED <<turns, origin, reviewer, reporter, authorized, activation, criteria, wakes>>
        /\ kickoff' \in {kickoff, "stopping"} /\ revision' \in {revision, revision + 1}
        /\ ops' \in {ops, ops + 1}
    BY <1>2, <1>6 DEF StopTask, ReconcileRevoked, ReconcileStop, Cancelled, Operate
  <2> QED
    BY <1>1, <1>2, <2>1, TurnsStay, CountsStay
<1>7. CASE Refused
  BY <1>1, <1>2, <1>7, TurnsStay, CountsStay DEF Refused
<1> QED
  BY <1>3, <1>4, <1>5, <1>6, <1>7

\* What adds a turn, ends one, or names one.
LEMMA TurnSteps ==
  ASSUME TaskSides,
         \/ \E s \in {"complete", "blocked", "waiting"} : \E t \in {0} \cup TurnSlots : FinishGoal(s, t)
         \/ \E t \in TurnSlots : Resume(t) \/ OriginTurnEnds(t)
         \/ StopOrigin \/ UserWrites \/ Begin \/ ReconcileEnded \/ ReconcileWork
  PROVE  TurnTypes' /\ CountTypes'
<1>1. TurnTypes /\ CountTypes /\ Unasked
  BY DEF TaskSides
<1>2. /\ authorized \in BOOLEAN /\ activation \in 1 .. MaxActivation /\ wakes \in 0 .. WakeLimit
      /\ Halted \in {kickoff, "stopping"} /\ 0 \in 0 .. WakeLimit
  BY <1>1, TaskLimits DEF CountTypes, Halted
<1>3. /\ turns \in Seq(TurnRecords) /\ Len(turns) \in Nat /\ DOMAIN turns = 1 .. Len(turns)
  BY <1>1 DEF TurnTypes
<1>4. ASSUME NEW s, NEW t, FinishGoal(s, t)
      PROVE  TurnTypes' /\ CountTypes'
  <2>1. UNCHANGED <<turns, origin, reviewer>> /\ (reporter' = 0 \/ TurnActive(reporter'))
    BY <1>4 DEF FinishGoal
  <2>2. TurnTypes'
    BY <1>1, <1>3, <2>1, TurnsKept
  <2>3. CountTypes'
    BY <1>1, <1>2, <1>4, CountsStay DEF FinishGoal, Coordinate, Operate
  <2> QED
    BY <2>2, <2>3
<1>5. ASSUME NEW t, Resume(t)
      PROVE  TurnTypes' /\ CountTypes'
  <2>1. /\ UNCHANGED turns /\ TurnActive(t) /\ origin' = t /\ reviewer' = t /\ reporter' = 0
    BY <1>5 DEF Resume
  <2>2. TurnTypes'
    BY <1>1, <1>3, <2>1, TurnsKept
  <2>3. /\ authorized' \in BOOLEAN /\ activation' = activation + 1 /\ activation < MaxActivation
        /\ UNCHANGED <<kickoff, criteria>> /\ wakes' = 0 /\ revision' = revision + 1
        /\ ops' = ops + 1
    BY <1>5 DEF Resume, Operate
  <2>4. activation' \in 1 .. MaxActivation
    BY <1>2, <2>3, TaskLimits
  <2> QED
    BY <1>1, <1>2, <2>2, <2>3, <2>4, CountsStay
<1>6. ASSUME NEW t, OriginTurnEnds(t)
      PROVE  TurnTypes' /\ CountTypes'
  <2>1. /\ t \in DOMAIN turns /\ UNCHANGED <<origin, reviewer, reporter>>
        /\ \E s \in {"answered", "silent"} : turns' = [turns EXCEPT ![t].state = s]
    BY <1>6 DEF OriginTurnEnds, TurnActive
  <2>2. PICK s \in {"answered", "silent"} : turns' = [turns EXCEPT ![t] = [turns[t] EXCEPT !.state = s]]
    BY <2>1
  <2>a. turns[t] \in TurnRecords
    BY <1>3, <2>1
  <2>3. [turns[t] EXCEPT !.state = s] \in TurnRecords
    BY <2>a DEF TurnRecords
  <2>4. turns' \in Seq(TurnRecords) /\ Len(turns') = Len(turns)
    BY <1>3, <2>1, <2>2, <2>3, ExceptSeq
  <2>5. TurnTypes'
    BY <1>1, <2>1, <2>4, TurnsKept
  <2>6. CountTypes'
    BY <1>1, <1>2, <1>6, CountsStay DEF OriginTurnEnds
  <2> QED
    BY <2>5, <2>6
<1>7. CASE StopOrigin
  <2> DEFINE next(t) == IF TurnActive(t) THEN [turns[t] EXCEPT !.state = "stopped"] ELSE turns[t]
  <2>1. turns' = [t \in 1 .. Len(turns) |-> next(t)] /\ UNCHANGED <<origin, reviewer, reporter>>
    BY <1>3, <1>7 DEF StopOrigin
  <2>2. ASSUME NEW t \in 1 .. Len(turns)
        PROVE  next(t) \in TurnRecords
    <3>1. turns[t] \in TurnRecords
      BY <1>3
    <3>2. [turns[t] EXCEPT !.state = "stopped"] \in TurnRecords
      BY <3>1 DEF TurnRecords
    <3> QED
      BY <3>1, <3>2
  <2> HIDE DEF next
  <2>3. turns' \in [1 .. Len(turns) -> TurnRecords]
    BY <2>1, <2>2
  <2>4. turns' \in Seq(TurnRecords) /\ Len(turns') = Len(turns)
    BY <1>3, <2>3, SeqDef
  <2>5. TurnTypes'
    BY <1>1, <2>1, <2>4, TurnsKept
  <2>6. /\ UNCHANGED <<authorized, activation, criteria, wakes>>
        /\ kickoff' \in {kickoff, "stopping"} /\ revision' \in {revision, revision + 1}
        /\ ops' = ops + 1
    BY <1>2, <1>7 DEF StopOrigin, Cancelled, Operate
  <2> QED
    BY <1>1, <1>2, <2>5, <2>6, CountsStay
<1>8. CASE UserWrites
  <2>1. [by |-> "user", state |-> "active"] \in TurnRecords
    BY DEF TurnRecords
  <2>2. turns' \in Seq(TurnRecords) /\ Len(turns') = Len(turns) + 1
    BY <1>3, <1>8, <2>1 DEF UserWrites
  <2>3. TurnTypes'
    BY <1>1, <1>8, <2>2, TurnsKept DEF UserWrites
  <2>4. CountTypes'
    BY <1>1, <1>2, <1>8, CountsStay DEF UserWrites, Operate
  <2> QED
    BY <2>3, <2>4
<1>9. CASE Begin
  <2>1. turns = <<>> /\ turns' = <<[by |-> "user", state |-> "active"]>> /\ origin' = 1
        /\ UNCHANGED <<reviewer, reporter>>
    BY <1>1, <1>9 DEF Begin, Unasked
  <2>2. reviewer = 0 /\ reporter = 0
    BY <1>1, <2>1 DEF TurnTypes
  <2>3. [by |-> "user", state |-> "active"] \in TurnRecords
    BY DEF TurnRecords
  <2>4. turns' \in Seq(TurnRecords) /\ Len(turns') = 1
    BY <2>1, <2>3
  <2>5. TurnTypes'
    BY <2>1, <2>2, <2>4 DEF TurnTypes
  <2>6. CountTypes'
    BY <1>1, <1>2, <1>9, CountsStay DEF Begin
  <2> QED
    BY <2>5, <2>6
<1>10. CASE ReconcileEnded
  <2>1. DeliverResult("terminal", revision) /\ UNCHANGED <<origin, reporter>>
    BY <1>10 DEF ReconcileEnded
  <2>2. /\ turns' \in Seq(TurnRecords) /\ Len(turns') \in {Len(turns), Len(turns) + 1}
        /\ reviewer' \in {reviewer, Len(turns')} /\ wakes' \in 0 .. WakeLimit
    BY <1>1, <2>1, Delivers
  <2>3. TurnTypes'
    BY <1>1, <2>1, <2>2, TurnsKept
  <2>4. CountTypes'
    BY <1>1, <1>2, <1>10, <2>2, CountsStay DEF ReconcileEnded
  <2> QED
    BY <2>3, <2>4
<1>11. CASE ReconcileWork
  <2>1. PICK parts : AskReview(parts)
    BY <1>11 DEF ReconcileWork
  <2>2. UNCHANGED <<authorized, activation, kickoff, origin, reporter, criteria, ops>>
    BY <1>11 DEF ReconcileWork
  <2>3. /\ turns' \in Seq(TurnRecords) /\ Len(turns') \in {Len(turns), Len(turns) + 1}
        /\ reviewer' \in {reviewer, Len(turns')} /\ wakes' \in 0 .. WakeLimit
        /\ revision' \in {revision, revision + 1}
    <3>1. CASE UNCHANGED <<revision, turns, reviewer, wakes>>
      BY <1>2, <1>3, <3>1
    <3>2. CASE /\ DeliverResult("review", BatchOf(parts)) /\ revision' \in {revision, revision + 1}
      <4>1. "review" \in {"review", "terminal"}
        OBVIOUS
      <4> QED
        BY <1>1, <3>2, <4>1, Delivers
    <3> QED
      BY <2>1, <3>1, <3>2 DEF AskReview
  <2>4. TurnTypes'
    BY <1>1, <2>2, <2>3, TurnsKept
  <2> QED
    BY <1>1, <1>2, <2>2, <2>3, <2>4, CountsStay
<1> QED
  BY <1>4, <1>5, <1>6, <1>7, <1>8, <1>9, <1>10, <1>11

\* A goal is never unmade, and before it is made nobody has a turn.
LEMMA StaysMade ==
  ASSUME TurnTypes, Unasked, [TaskNext]_taskVars
  PROVE  Unasked'
<1> SUFFICES ASSUME goal' = "none" PROVE turns' = <<>>
  BY DEF Unasked
<1>1. goal = "none" => turns = <<>> /\ \A t : ~TurnActive(t)
  BY DEF Unasked, TurnActive
<1>2. CASE UNCHANGED taskVars
  BY <1>1, <1>2 DEF taskVars
<1>3. ~(Operate \/ Coordinate) \/ goal # "none"
  BY DEF Operate, Coordinate
<1>4. CASE UNCHANGED <<goal, turns>>
  BY <1>1, <1>4
<1>5. CASE \E p \in Parts : CreateAssignment(p) \/ Reassign(p) \/ CancelAssignment(p)
  BY <1>3, <1>5 DEF CreateAssignment, Reassign, CancelAssignment, Revived
<1>6. CASE \E p \in Parts : \/ \E d \in {"accept", "retry", "blocked"} : ReviewAssignment(p, d)
                            \/ PartRunEnds(p)
  BY <1>3, <1>4, <1>6 DEF ReviewAssignment, PartRunEnds, Revived
<1>7. CASE \E s \in {"complete", "blocked", "waiting"} : \E t \in {0} \cup TurnSlots : FinishGoal(s, t)
  BY <1>7 DEF FinishGoal
<1>8. CASE \E t \in TurnSlots : Resume(t) \/ OriginTurnEnds(t)
  BY <1>1, <1>8 DEF Resume, OriginTurnEnds
<1>9. CASE UpdateCriteria \/ StopTask \/ StopOrigin \/ AuthorityEnds \/ UserWrites
  BY <1>3, <1>4, <1>9 DEF UpdateCriteria, StopTask, StopOrigin, AuthorityEnds, UserWrites, Cancelled
<1>10. CASE Begin \/ KickoffEnds
  BY <1>4, <1>10 DEF Begin, KickoffEnds
<1>11. CASE Reconcile
  BY <1>4, <1>11 DEF Reconcile, ReconcileStop, ReconcileRevoked, ReconcileEnded, ReconcileWork,
     Cancelled, AskReview
<1>12. CASE Refused
  BY <1>4, <1>12 DEF Refused
<1> QED
  BY <1>2, <1>5, <1>6, <1>7, <1>8, <1>9, <1>10, <1>11, <1>12 DEF TaskNext

\* Every variable of a goal has its type: the turns it names are there, and the coordinator
\* is not woken more often than its authorisation allows.
THEOREM TaskTypeInvariant == TaskSpec => []TaskTypeOK
<1>1. TaskInit => TaskSides
  <2> SUFFICES ASSUME TaskInit PROVE TaskSides
    OBVIOUS
  <2>1. TurnTypes
    BY DEF TaskInit, TurnTypes
  <2>2. CountTypes
    BY TaskLimits DEF TaskInit, CountTypes
  <2> QED
    BY <2>1, <2>2 DEF TaskInit, TaskSides, Unasked
<1>2. TaskInv /\ TaskSides /\ [TaskNext]_taskVars => TaskSides'
  <2> SUFFICES ASSUME TaskSides, [TaskNext]_taskVars PROVE TaskSides'
    OBVIOUS
  <2>1. Unasked'
    BY StaysMade DEF TaskSides
  <2>2. CASE UNCHANGED taskVars
    BY <2>1, <2>2 DEF taskVars, TaskSides, TurnTypes, CountTypes
  <2>3. CASE TaskNext
    BY <2>1, <2>3, OperationTypes, TurnSteps DEF TaskNext, Reconcile, TaskSides
  <2> QED
    BY <2>2, <2>3
<1>3. TaskInv /\ TaskSides => TaskTypeOK
  <2> SUFFICES ASSUME TaskInv, TaskSides PROVE TaskTypeOK
    OBVIOUS
  <2>1. TaskTypes /\ TurnTypes /\ CountTypes
    BY DEF TaskInv, TaskSides
  <2>2. wakes \in Nat /\ wakes <= WakeLimit
    BY <2>1, TaskLimits DEF CountTypes
  <2>3. \A t \in DOMAIN turns : turns[t] \in TurnRecords
    BY <2>1 DEF TurnTypes
  <2> QED
    BY <2>1, <2>2, <2>3 DEF TaskTypes, PartRecords, PartStatus, TurnTypes, TurnRecords, CountTypes,
       TaskTypeOK
<1> QED
  BY <1>1, <1>2, <1>3, TaskInductive, PTL DEF TaskSpec

-----------------------------------------------------------------------------
(* The parts side by side                                                  *)

\* Each of them behaves as it does alone.
LEMMA ProgressParts ==
  ProgressSpec => Spec /\ ReplaySpec /\ PoolSpec /\ PushSpec /\ TaskSpec
<1>1. ProgressInit => Init /\ ReplayInit /\ PoolInit /\ PushInit /\ TaskInit
  BY DEF ProgressInit
<1>2. [ProgressNext]_progressVars =>
        /\ [Next]_vars /\ [ReplayNext]_replayVars /\ [PoolNext]_poolVars
        /\ [PushNext]_pushVars /\ [TaskNext]_taskVars
  BY Zenon DEF ProgressNext, progressVars
<1> QED
  BY <1>1, <1>2, PTL DEF ProgressSpec, Spec, ReplaySpec, PoolSpec, PushSpec, TaskSpec

\* Every variable keeps to its type: receipts, the events of a channel, the queues of the
\* computers, notices, goals; a session is not bound to another one, as in the runs.
THEOREM ProgressTypes ==
  ASSUME ~Rebinds
  PROVE  ProgressSpec => []ProgressTypeOK
<1>1. TypeOK /\ ReplayTypeOK /\ PoolTypeOK /\ PushTypeOK /\ TaskTypeOK => ProgressTypeOK
  BY DEF ProgressTypeOK
<1>2. ReplaySpec => []ReplayTypeOK
  BY ReplayTypeInvariant
<1> QED
  BY <1>1, <1>2, ProgressParts, CommandTypeInvariant, PoolTypeInvariant, PushTypeInvariant,
     TaskTypeInvariant, PTL
=============================================================================
