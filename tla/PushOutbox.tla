----------------------------- MODULE PushOutbox -----------------------------
(***************************************************************************)
(* Notifications for the devices of one account (pushCoordinator.ts): the  *)
(* durable outbox, the flush that sends what is due one item at a time,    *)
(* the providers' answers, and what changes while an answer is awaited:    *)
(* device tokens rotate, devices take over each other's token, rights      *)
(* change, a provider is configured anew, the process dies.                *)
(*                                                                         *)
(* Abstracted: texts, badges, expiry, collapsing (all pure data), the      *)
(* durations of back-offs (an item that rests is woken by a step) and the  *)
(* ends of retention (90 days or 50000 events).  The flush also looks for  *)
(* items whose device or subscription is gone or whose platform changed;   *)
(* what removes those removes their items in the same write, so that no    *)
(* such item exists and the model has no step for it.                      *)
(***************************************************************************)
EXTENDS Naturals, FiniteSets, Functions

CONSTANTS
  Devices,     \* installations: an app on a device, for an account of the app
  Endpoints,   \* device tokens and Firebase ids
  Platform,    \* the platform of an endpoint
  Notices,     \* events to be notified of
  RoomNotices, \* those of a group one can subscribe to
  NoEndpoint, NoItem,
  OutboxLimit, \* 10000 in the code
  DeviceLimit, \* 32 in the code
  AttemptsMax, \* 36 in the code
  MaxTurmoil,  \* bound: changes of registrations, rights and configuration
  MaxLosses    \* bound: lost answers, failing writes and crashes

ASSUME PushAssumption ==
  /\ Platform \in [Endpoints -> {"ios", "android"}]
  /\ NoEndpoint \notin Endpoints /\ RoomNotices \subseteq Notices
  /\ {OutboxLimit, DeviceLimit, AttemptsMax, MaxTurmoil, MaxLosses} \subseteq Nat
  /\ NoItem \notin Notices \X Devices

VARIABLES
  endpoint,   \* durable: the installations
  vouched,    \* those registered under the present authorization version
  outbox,     \* durable: the attempts made for each item that is left
  resting,    \* items whose next attempt lies in the future
  processed,  \* durable: processedEvents
  follows,    \* durable: the group subscription
  account,    \* "active", "blocked"
  purge,      \* the account has been changed and its push state is yet to be removed
  enabled,    \* platforms with a provider
  flush,      \* the active flush: under an old configuration?, items left, item sent, to whom
  dead,       \* external: endpoints their provider has given up
  shown,      \* external: how often an item was shown
  turmoil, losses  \* bookkeeping of the model

registry == <<endpoint, vouched, follows, account, purge>>
pushVars == <<registry, outbox, resting, processed, enabled, flush, dead, shown, turmoil, losses>>

Items == Notices \X Devices
NoFlush == [on |-> FALSE, stale |-> FALSE, left |-> {}, item |-> NoItem, to |-> NoEndpoint]
Registered == {d \in Devices : endpoint[d] # NoEndpoint}
ItemsOf(devices) == {i \in DOMAIN outbox : i[2] \in devices}

PushInit ==
  /\ endpoint = [d \in Devices |-> NoEndpoint] /\ vouched = {} /\ follows = FALSE
  /\ account = "active" /\ purge = FALSE
  /\ outbox = <<>> /\ resting = {} /\ processed = {}
  /\ enabled = {"ios", "android"} /\ flush = NoFlush
  /\ dead = {} /\ shown = [i \in Items |-> 0] /\ turmoil = 0 /\ losses = 0

Without(items) == /\ outbox' = Restrict(outbox, DOMAIN outbox \ items)
                  /\ resting' = resting \ items

-----------------------------------------------------------------------------
(* What the account and its devices do                                     *)

Turmoil == turmoil < MaxTurmoil /\ turmoil' = turmoil + 1

\* enqueue: once per event, for the devices that may have it now; a full outbox
\* takes none and the event counts as new.
NotifyOf(n) ==
  LET targets == {d \in Registered \cap vouched : Platform[endpoint[d]] \in enabled}
      new == {n} \X targets
  IN
  /\ enabled # {} /\ account = "active"
  /\ n \notin processed /\ (n \in RoomNotices => follows)
  /\ Cardinality(DOMAIN outbox \cup new) <= OutboxLimit
  /\ outbox' = [i \in DOMAIN outbox \cup new |-> IF i \in new THEN 0 ELSE outbox[i]]
  /\ processed' = processed \cup {n}
  /\ UNCHANGED <<registry, resting, enabled, flush, dead, shown, turmoil, losses>>

\* registerInstallation: a device that takes over a token supersedes the one that
\* had it, with its items; a change of platform drops the items of the device.
Register(d, e) ==
  LET superseded == {x \in Registered \ {d} : endpoint[x] = e}
      moved == d \in Registered /\ Platform[endpoint[d]] # Platform[e]
  IN
  /\ Turmoil /\ account = "active" /\ e \notin dead
  /\ d \in Registered \/ Cardinality(Registered \ superseded) < DeviceLimit
  /\ endpoint' = [x \in Devices |-> IF x = d THEN e
                                    ELSE IF x \in superseded THEN NoEndpoint ELSE endpoint[x]]
  /\ vouched' = (vouched \ superseded) \cup {d}
  /\ Without(ItemsOf(IF moved THEN superseded \cup {d} ELSE superseded))
  /\ UNCHANGED <<follows, account, purge, processed, enabled, flush, dead, shown, losses>>

RemoveDevices(devices) ==
  /\ endpoint' = [d \in Devices |-> IF d \in devices THEN NoEndpoint ELSE endpoint[d]]
  /\ vouched' = vouched \ devices
  /\ Without(ItemsOf(devices))

Unregister(d) ==
  /\ Turmoil /\ account = "active" /\ d \in Registered
  /\ RemoveDevices({d})
  /\ UNCHANGED <<follows, account, purge, processed, enabled, flush, dead, shown, losses>>

\* setGroupSubscription: ending it drops what waits for the group.
Follow(on) ==
  /\ account = "active" /\ follows # on /\ Turmoil
  /\ follows' = on
  /\ IF on THEN UNCHANGED <<outbox, resting>>
     ELSE Without({i \in DOMAIN outbox : i[1] \in RoomNotices})
  /\ UNCHANGED <<endpoint, vouched, account, purge, processed, enabled, flush, dead, shown, losses>>

\* An administrator changes the account: every registration is of an old version
\* now, and after an await (below) the push state is removed.
ChangeAccount ==
  /\ Turmoil /\ ~purge /\ purge' = TRUE
  /\ account' \in {"active", "blocked"} /\ vouched' = {}
  /\ UNCHANGED <<endpoint, follows, outbox, resting, processed, enabled, flush, dead, shown, losses>>

\* removeUser, on a best effort: the write may fail.  The code also forgets the
\* events; what could repeat them, the jobs, is removed with them.
Purge ==
  /\ purge /\ purge' = FALSE
  /\ \/ RemoveDevices(Devices) /\ follows' = FALSE /\ UNCHANGED losses
     \/ /\ losses < MaxLosses /\ losses' = losses + 1
        /\ UNCHANGED <<endpoint, vouched, follows, outbox, resting>>
  /\ UNCHANGED <<account, processed, enabled, flush, dead, shown, turmoil>>

\* configureAPNs, configureFCM: a flush that waits for an answer learns that its
\* configuration is an old one.
Configure(p) ==
  /\ Turmoil
  /\ \/ enabled' = enabled \cup {p} \/ enabled' = enabled \ {p}
  /\ flush' = [flush EXCEPT !.stale = flush.on]
  /\ UNCHANGED <<registry, outbox, resting, processed, dead, shown, losses>>

TokenDies(e) ==
  /\ e \notin dead /\ dead' = dead \cup {e}
  /\ UNCHANGED <<registry, outbox, resting, processed, enabled, flush, shown, turmoil, losses>>

-----------------------------------------------------------------------------
(* The flush: one at a time, of what is due when it starts                 *)

Due == {i \in DOMAIN outbox \ resting : Platform[endpoint[i[2]]] \in enabled}

Wake(i) ==
  /\ i \in resting /\ resting' = resting \ {i}
  /\ UNCHANGED <<registry, outbox, processed, enabled, flush, dead, shown, turmoil, losses>>

StartFlush ==
  /\ ~flush.on /\ Due # {}
  /\ flush' = [NoFlush EXCEPT !.on = TRUE, !.left = Due]
  /\ UNCHANGED <<registry, outbox, resting, processed, enabled, dead, shown, turmoil, losses>>

\* Up to the next request nothing else runs.
Scanning == flush.on /\ flush.item = NoItem

GoOn(rest) ==
  flush' = IF rest = {} THEN NoFlush
           ELSE [flush EXCEPT !.left = rest, !.item = NoItem, !.to = NoEndpoint]

\* Looked at again when its turn comes: it may be gone, its account blocked, its
\* device registered under an older authorization.
Examine(i) ==
  /\ Scanning /\ i \in flush.left
  /\ \/ /\ i \notin DOMAIN outbox
        /\ GoOn(flush.left \ {i})
        /\ UNCHANGED <<registry, outbox, resting>>
     \/ /\ i \in DOMAIN outbox /\ account # "active"
        /\ RemoveDevices(Devices) /\ follows' = FALSE
        /\ GoOn(flush.left \ {i})
        /\ UNCHANGED <<account, purge>>
     \/ /\ i \in DOMAIN outbox /\ account = "active" /\ i[2] \notin vouched
        /\ RemoveDevices({i[2]})
        /\ GoOn(flush.left \ {i})
        /\ UNCHANGED <<follows, account, purge>>
     \/ /\ i \in DOMAIN outbox /\ account = "active" /\ i[2] \in vouched
        /\ flush' = [flush EXCEPT !.item = i, !.to = endpoint[i[2]]]
        /\ UNCHANGED <<registry, outbox, resting>>
  /\ UNCHANGED <<processed, enabled, dead, shown, turmoil, losses>>

-----------------------------------------------------------------------------
(* Answers of the providers                                                *)

Awaited(i) == flush.item = i /\ i \in Items

\* An old configuration ends the flush, whatever the answer.
AfterAnswer == IF flush.stale THEN flush' = NoFlush ELSE GoOn(flush.left \ {flush.item})

Shown(i) == shown' = [shown EXCEPT ![i] = @ + 1]

\* Mutant: what was sent under an old configuration stays in the outbox.
SuccessUnlessStale(i) ==
  /\ Awaited(i) /\ flush.to \notin dead
  /\ Shown(i) /\ AfterAnswer
  /\ IF flush.stale THEN UNCHANGED <<outbox, resting>> ELSE Without({i})
  /\ UNCHANGED <<registry, processed, enabled, dead, turmoil, losses>>

Success(i) ==
  /\ Awaited(i) /\ flush.to \notin dead
  /\ Shown(i) /\ Without({i}) /\ AfterAnswer
  /\ UNCHANGED <<registry, processed, enabled, dead, turmoil, losses>>

\* Mutant: attempts are not counted.
PostponeUncounted(i) ==
  IF i \notin DOMAIN outbox \/ flush.stale THEN UNCHANGED <<outbox, resting>>
  ELSE UNCHANGED outbox /\ resting' = resting \cup {i}

\* Later, unless the attempts are used up; under an old configuration at once and
\* without counting.
Postpone(i) ==
  IF i \notin DOMAIN outbox \/ flush.stale THEN UNCHANGED <<outbox, resting>>
  ELSE IF outbox[i] + 1 >= AttemptsMax THEN Without({i})
  ELSE outbox' = [outbox EXCEPT ![i] = @ + 1] /\ resting' = resting \cup {i}

\* "retry" or "configuration"; the notice may have been shown all the same.
Retry(i) ==
  /\ Awaited(i) /\ Postpone(i) /\ AfterAnswer
  /\ \/ UNCHANGED <<shown, losses>>
     \/ flush.to \notin dead /\ losses < MaxLosses /\ losses' = losses + 1 /\ Shown(i)
  /\ UNCHANGED <<registry, processed, enabled, dead, turmoil>>

\* "drop": refused for good.
Reject(i) ==
  /\ Awaited(i) /\ AfterAnswer
  /\ IF flush.stale THEN UNCHANGED <<outbox, resting>> ELSE Without({i})
  /\ UNCHANGED <<registry, processed, enabled, dead, shown, turmoil, losses>>

\* Mutant: nobody looks whether the device has another token by now.
RotatedNever(i) == FALSE

\* The token is dead; if the device has another one by now, the item is sent there.
Rotated(i) == endpoint[i[2]] \notin {NoEndpoint, flush.to}

GiveUp(i) ==
  /\ Awaited(i) /\ flush.to \in dead /\ AfterAnswer
  /\ \/ flush.stale /\ UNCHANGED <<endpoint, vouched, outbox, resting>>
     \/ /\ ~flush.stale /\ Rotated(i)
        /\ outbox' = [j \in DOMAIN outbox |-> IF j = i THEN 0 ELSE outbox[j]]
        /\ UNCHANGED <<endpoint, vouched, resting>>
     \/ ~flush.stale /\ ~Rotated(i) /\ RemoveDevices({i[2]})
  /\ UNCHANGED <<follows, account, purge, processed, enabled, dead, shown, turmoil, losses>>

\* The answer cannot be written down, or the process dies before it comes: what was
\* sent is still in the outbox.  A process that dies also forgets the purge.
FlushFails ==
  /\ flush.on /\ losses < MaxLosses /\ losses' = losses + 1
  /\ flush' = NoFlush
  /\ purge' \in {purge, FALSE}
  /\ \/ UNCHANGED shown
     \/ flush.item # NoItem /\ flush.to \notin dead /\ Shown(flush.item)
  /\ UNCHANGED <<endpoint, vouched, follows, account, outbox, resting, processed, enabled, dead, turmoil>>

-----------------------------------------------------------------------------
Changes ==
  \/ \E n \in Notices : NotifyOf(n)
  \/ \E d \in Devices : Unregister(d) \/ \E e \in Endpoints : Register(d, e)
  \/ \E on \in BOOLEAN : Follow(on)
  \/ \E p \in {"ios", "android"} : Configure(p)
  \/ \E e \in Endpoints : TokenDies(e)
  \/ ChangeAccount \/ Purge

Answered == \E i \in Items : Success(i) \/ Retry(i) \/ Reject(i) \/ GiveUp(i)
Looks == \E i \in Items : Examine(i)

PushNext ==
  \/ ~Scanning /\ (Changes \/ StartFlush \/ \E i \in Items : Wake(i))
  \/ Looks \/ Answered \/ FlushFails

PushSpec == PushInit /\ [][PushNext]_pushVars

\* Requests to providers time out, back-offs end and the timer starts the flush.
PushFairness ==
  /\ WF_pushVars(StartFlush) /\ WF_pushVars(Looks) /\ WF_pushVars(Answered)
  /\ \A i \in Items : WF_pushVars(Wake(i))

-----------------------------------------------------------------------------
(* Properties                                                              *)

\* Every variable has its type.
PushTypeOK ==
  /\ endpoint \in [Devices -> Endpoints \cup {NoEndpoint}]
  /\ vouched \subseteq Registered /\ {follows, purge} \subseteq BOOLEAN
  /\ account \in {"active", "blocked"}
  /\ DOMAIN outbox \subseteq Items /\ \A i \in DOMAIN outbox : outbox[i] \in 0 .. AttemptsMax
  /\ resting \subseteq DOMAIN outbox /\ processed \subseteq Notices
  /\ enabled \subseteq {"ios", "android"} /\ dead \subseteq Endpoints
  /\ flush \in [on : BOOLEAN, stale : BOOLEAN, left : SUBSET Items,
                item : Items \cup {NoItem}, to : Endpoints \cup {NoEndpoint}]
  /\ shown \in [Items -> Nat] /\ turmoil \in 0 .. MaxTurmoil /\ losses \in 0 .. MaxLosses

\* However often an event is reported and whatever is configured while its
\* notification is on its way, a device shows it again only when an answer was lost.
ShownOnce == \A i \in Items : shown[i] <= 1 + losses

\* An answer that comes late costs a device its registration only if it is about the
\* token the device has now.
RegistrationKept ==
  [][\A d \in Devices :
       (flush.item # NoItem /\ flush' # flush /\ d \in Registered /\ endpoint'[d] = NoEndpoint)
         => endpoint[d] \in dead]_pushVars

\* Whatever fails on the way, no notification stays for ever: in the end the outbox
\* holds nothing but what waits for a provider to be configured.
NoticesEnd == <>[](\A i \in DOMAIN outbox : Platform[endpoint[i[2]]] \notin enabled)
=============================================================================
