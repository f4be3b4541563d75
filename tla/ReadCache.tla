------------------------------ MODULE ReadCache ------------------------------
(***************************************************************************)
(* The cache of reads from Hermes (upstreamReadCache.ts) between requests  *)
(* that read, requests that change something (upstream.ts) and events that *)
(* report a change: fresh and stale entries, loads shared by several       *)
(* readers, invalidation of entries and of loads in flight.                *)
(*                                                                         *)
(* Abstracted: a resource is the number of changes it has seen; keys carry *)
(* the tags of their policy; a load may answer something that is not kept. *)
(***************************************************************************)
EXTENDS Naturals, FiniteSets

CONSTANTS
  Keys,         \* cached reads
  Tags,         \* tags of the policy of each key
  Mutations,    \* requests and events that change resources
  Touches,      \* tags each of them invalidates (mutationTags, observeRealtime)
  StaleKeys,    \* keys that may be answered from a stale entry
  Readers,
  LoadLimit,    \* loads at the same time, 128 in the code
  EntryLimit,   \* entries kept
  MaxChanges    \* bound: changes of a resource

ASSUME CacheAssumption ==
  /\ StaleKeys \subseteq Keys
  /\ LoadLimit \in Nat \ {0} /\ {EntryLimit, MaxChanges} \subseteq Nat
  /\ DOMAIN Tags = Keys /\ DOMAIN Touches = Mutations

VARIABLES
  version,    \* Hermes: changes of each resource so far
  kept,       \* entry of each key: version and age ("absent" without one)
  loads,      \* what each load in flight is for and has seen, free ones absent
  joinable,   \* flights: the load that readers of a key join
  reader,     \* what each reader does and has got
  change,     \* what each mutation has reached
  settled     \* version each key had when the last change of it was reported

cacheVars == <<version, kept, loads, joinable, reader, change, settled>>

NoLoad == 0
Slots == 1 .. LoadLimit
Unread == MaxChanges + 1
Absent == [value |-> 0, age |-> "absent"]
NoFlight == [on |-> FALSE]
Flight(k) == [on |-> TRUE, key |-> k, seen |-> Unread, void |-> FALSE]
Loading == {s \in Slots : loads[s].on}
Resting == [doing |-> "nothing"]

CacheInit ==
  /\ version = [k \in Keys |-> 0] /\ settled = [k \in Keys |-> 0]
  /\ kept = [k \in Keys |-> Absent]
  /\ loads = [s \in Slots |-> NoFlight] /\ joinable = [k \in Keys |-> NoLoad]
  /\ reader = [r \in Readers |-> Resting]
  /\ change = [m \in Mutations |-> "none"]

-----------------------------------------------------------------------------
(* invalidate                                                              *)

Matching(m) == {k \in Keys : Tags[k] \cap Touches[m] # {}}

\* Entries go; loads in flight are marked and not joined any more.
Invalidate(ks) ==
  /\ kept' = [k \in Keys |-> IF k \in ks THEN Absent ELSE kept[k]]
  /\ loads' = [s \in Slots |-> IF loads[s].on /\ loads[s].key \in ks
                                   /\ joinable[loads[s].key] = s
                               THEN [loads[s] EXCEPT !.void = TRUE]
                               ELSE loads[s]]
  /\ joinable' = [k \in Keys |-> IF k \in ks THEN NoLoad ELSE joinable[k]]

-----------------------------------------------------------------------------
(* read and refresh                                                        *)

Got(r, k, v, since) ==
  reader' = [reader EXCEPT ![r] = [doing |-> "got", key |-> k, value |-> v, since |-> since]]

Launch(k, s) ==
  /\ s \in Slots \ Loading
  /\ loads' = [loads EXCEPT ![s] = Flight(k)]
  /\ joinable' = [joinable EXCEPT ![k] = s]

\* A hit; a stale one starts a load behind it when there is none and room.
ReadHit(r, k) ==
  /\ reader[r].doing # "waits" /\ kept[k].age \in {"fresh", "stale"}
  /\ Got(r, k, kept[k].value, settled[k])
  /\ IF kept[k].age = "stale" /\ joinable[k] = NoLoad /\ Loading # Slots
     THEN \E s \in Slots : Launch(k, s)
     ELSE UNCHANGED <<loads, joinable>>
  /\ UNCHANGED <<version, kept, change, settled>>

\* A miss joins a load or starts one; with too many loads it is refused, which
\* leaves everything as it was.  An entry past its time is removed.
ReadMiss(r, k) ==
  /\ reader[r].doing # "waits" /\ kept[k].age \in {"absent", "dead"}
  /\ kept' = [kept EXCEPT ![k] = Absent]
  /\ \E s \in Slots :
       /\ IF joinable[k] # NoLoad
          THEN s = joinable[k] /\ UNCHANGED <<loads, joinable>>
          ELSE Launch(k, s)
       /\ reader' = [reader EXCEPT ![r] = [doing |-> "waits", key |-> k, load |-> s,
                                           since |-> settled[k]]]
  /\ UNCHANGED <<version, change, settled>>

\* Hermes answers a load with what is there now (external).
LoadReads(s) ==
  /\ loads[s].on /\ loads[s].seen = Unread
  /\ loads' = [loads EXCEPT ![s].seen = version[loads[s].key]]
  /\ UNCHANGED <<version, kept, joinable, reader, change, settled>>

\* Mutant: also the answer of a load that was invalidated is kept.
KeepAlways(s) == TRUE

\* refresh: only an answer nobody invalidated is kept.
MayKeep(s) == ~loads[s].void

\* The answer is kept, unless it may not be; another entry may have to go.
LoadReturns(s) ==
  LET k == loads[s].key
      others == {j \in Keys : j # k /\ kept[j] # Absent}
      filled == [kept EXCEPT ![k] = [value |-> loads[s].seen, age |-> "fresh"]]
  IN
  /\ loads[s].on /\ loads[s].seen # Unread
  /\ \/ /\ MayKeep(s)
        /\ kept' \in IF Cardinality(others) < EntryLimit THEN {filled}
                      ELSE {[filled EXCEPT ![j] = Absent] : j \in others}
     \/ UNCHANGED kept
  /\ reader' = [r \in Readers |->
                  IF reader[r].doing = "waits" /\ reader[r].load = s
                  THEN [doing |-> "got", key |-> k, value |-> loads[s].seen,
                        since |-> reader[r].since]
                  ELSE reader[r]]
  /\ loads' = [loads EXCEPT ![s] = NoFlight]
  /\ joinable' = IF joinable[k] = s THEN [joinable EXCEPT ![k] = NoLoad] ELSE joinable
  /\ UNCHANGED <<version, change, settled>>

\* The credentials are refused (upstream.ts): everything is invalidated, this load
\* too; it is sent again with new ones, or its readers get an error.
LoadRefused(s) ==
  /\ loads[s].on /\ loads[s].seen = Unread
  /\ kept' = [k \in Keys |-> Absent]
  /\ joinable' = [k \in Keys |-> NoLoad]
  /\ \E on \in BOOLEAN :
       /\ loads' = [t \in Slots |-> IF t = s /\ ~on THEN NoFlight
                                    ELSE IF loads[t].on THEN [loads[t] EXCEPT !.void = TRUE]
                                    ELSE loads[t]]
       /\ reader' = [r \in Readers |->
                       IF ~on /\ reader[r].doing = "waits" /\ reader[r].load = s
                       THEN Resting ELSE reader[r]]
  /\ UNCHANGED <<version, change, settled>>

\* Time passes for an entry.
Age(k) ==
  /\ kept[k].age \in {"fresh", "stale"}
  /\ kept' = [kept EXCEPT ![k].age = IF @ = "fresh" /\ k \in StaleKeys
                                     THEN "stale" ELSE "dead"]
  /\ UNCHANGED <<version, loads, joinable, reader, change, settled>>

-----------------------------------------------------------------------------
(* Changes                                                                 *)

\* request, before the change is sent: what it touches is invalidated.
Mutate(m) ==
  /\ change[m] = "none" /\ change' = [change EXCEPT ![m] = "sent"]
  /\ Invalidate(Matching(m))
  /\ UNCHANGED <<version, reader, settled>>

\* Hermes changes the resources, perhaps after the request has given up; events
\* report changes nobody asked for (external).
Applied(m) ==
  /\ \A k \in Matching(m) : version[k] < MaxChanges
  /\ \/ change[m] = "sent" /\ change' = [change EXCEPT ![m] = "applied"]
     \/ change[m] = "none" /\ change' = [change EXCEPT ![m] = "unseen"]
     \/ change[m] = "late" /\ change' = [change EXCEPT ![m] = "unseen"]
  /\ version' = [k \in Keys |-> IF k \in Matching(m) THEN version[k] + 1 ELSE version[k]]
  /\ UNCHANGED <<kept, loads, joinable, reader, settled>>

\* The request ends, with an answer or with an error; or the event arrives
\* (observeRealtime).  Whoever knows of the change now may read it.
Reported(m) ==
  /\ \/ /\ change[m] = "sent" /\ change' = [change EXCEPT ![m] = "late"]
        /\ UNCHANGED settled
     \/ /\ change[m] \in {"applied", "unseen"} /\ change' = [change EXCEPT ![m] = "none"]
        /\ settled' = [k \in Keys |-> IF k \in Matching(m) THEN version[k] ELSE settled[k]]
  /\ Invalidate(Matching(m))  \* what was read meanwhile is invalidated again
  /\ UNCHANGED <<version, reader>>

-----------------------------------------------------------------------------
CacheNext ==
  \/ \E r \in Readers, k \in Keys : ReadHit(r, k) \/ ReadMiss(r, k)
  \/ \E s \in Slots : LoadReads(s) \/ LoadReturns(s) \/ LoadRefused(s)
  \/ \E k \in Keys : Age(k)
  \/ \E m \in Mutations : Mutate(m) \/ Applied(m) \/ Reported(m)

CacheSpec == CacheInit /\ [][CacheNext]_cacheVars

-----------------------------------------------------------------------------
(* Properties                                                              *)

\* Every variable has its type, and flights are loads of their key.
CacheTypeOK ==
  /\ version \in [Keys -> 0 .. MaxChanges] /\ settled \in [Keys -> 0 .. MaxChanges]
  /\ kept \in [Keys -> [value : 0 .. MaxChanges,
                        age : {"fresh", "stale", "dead", "absent"}]]
  /\ joinable \in [Keys -> Slots \cup {NoLoad}]
  /\ \A k \in Keys : joinable[k] # NoLoad =>
       loads[joinable[k]].on /\ loads[joinable[k]].key = k /\ ~loads[joinable[k]].void
  /\ change \in [Mutations -> {"none", "sent", "applied", "late", "unseen"}]

\* Who knows of a change reads it: a read that began after a change was answered,
\* or its event observed, never gets what was loaded before the change, from an
\* entry of any age, from a load it joined, or from one that returned late.
ReadsCurrent ==
  \A r \in Readers : reader[r].doing = "got" => reader[r].value >= reader[r].since
=============================================================================
