------------------------- MODULE ComputerPool_proofs -------------------------
(***************************************************************************)
(* What TLAPS proves about the computer pool, for any finite set of        *)
(* environments, any holders and any quota: the containers that run never  *)
(* exceed the quota, and the rows of the table tell the truth about them.  *)
(***************************************************************************)
EXTENDS ComputerPool, FiniteSetTheorems, TLAPS

Operations ==
  [op : LeaseCalls \cup Desktop \cup {"configure", "retire", "stop"},
   who : Holders \cup {NoHolder},
   stage : {"queued", "ensure", "fence", "stop"}]

QueueTypes ==
  /\ rowStatus \in [Environments -> Statuses]
  /\ todo \in [Environments -> Seq(Operations)]
  /\ running \subseteq Environments

\* Only the operation at the head of a queue is under way.
Queued(q) == \A i \in 2 .. Len(q) : q[i].stage = "queued"

\* The operation under way may start the container.
StartsUp(q) ==
  /\ q # <<>>
  /\ Head(q).stage = "ensure" \/ (Head(q).stage = "stop" /\ Head(q).op = "recreate")

Stops(q) == q # <<>> /\ Head(q).stage = "stop"

\* The environments that have a container, or may get one.
Live == running \cup {e \in Environments : StartsUp(todo[e])}

\* A live environment has a row, a used one a container, and the container of a used
\* environment is not being stopped.
RowInv ==
  \A e \in Environments :
    /\ Queued(todo[e])
    /\ e \in Live => rowStatus[e] # "free"
    /\ rowStatus[e] = "active" => e \in running /\ ~Stops(todo[e]) /\ ~StartsUp(todo[e])

\* Each environment took its place in the quota before it came to live.
PoolInv == QueueTypes /\ RowInv /\ Cardinality(Live) <= Concurrent

-----------------------------------------------------------------------------
(* Queues                                                                  *)

\* A request that joins a queue changes neither its head nor what runs.
LEMMA AppendQueue ==
  ASSUME NEW q \in Seq(Operations), NEW o \in Operations, o.stage = "queued", Queued(q)
  PROVE  /\ Append(q, o) \in Seq(Operations) /\ Queued(Append(q, o))
         /\ (StartsUp(Append(q, o)) <=> StartsUp(q))
         /\ (Stops(Append(q, o)) <=> Stops(q))
<1>1. /\ Append(q, o) \in Seq(Operations) /\ Len(Append(q, o)) = Len(q) + 1
      /\ \A i \in 1 .. Len(q) : Append(q, o)[i] = q[i]
      /\ Append(q, o)[Len(q) + 1] = o
  OBVIOUS
<1>2. Queued(Append(q, o))
  BY <1>1 DEF Queued
<1>3. CASE q = <<>>
  <2>1. Append(q, o) # <<>> /\ Head(Append(q, o)) = o
    BY <1>3, <1>1
  <2> QED
    BY <1>1, <1>2, <1>3, <2>1 DEF StartsUp, Stops
<1>4. CASE q # <<>>
  <2>1. Append(q, o) # <<>> /\ Head(Append(q, o)) = Head(q)
    BY <1>4, <1>1
  <2> QED
    BY <1>1, <1>2, <1>4, <2>1 DEF StartsUp, Stops
<1> QED
  BY <1>3, <1>4

\* When the head is done the next operation has not begun.
LEMMA TailQueue ==
  ASSUME NEW q \in Seq(Operations), q # <<>>, Queued(q)
  PROVE  /\ Tail(q) \in Seq(Operations) /\ Queued(Tail(q))
         /\ ~StartsUp(Tail(q)) /\ ~Stops(Tail(q))
<1>1. /\ Tail(q) \in Seq(Operations) /\ Len(Tail(q)) = Len(q) - 1
      /\ \A i \in 1 .. Len(q) - 1 : Tail(q)[i] = q[i + 1]
  OBVIOUS
<1>2. \A i \in 1 .. Len(Tail(q)) : Tail(q)[i].stage = "queued"
  BY <1>1 DEF Queued
<1>3. Queued(Tail(q))
  BY <1>1, <1>2 DEF Queued
<1>4. Tail(q) # <<>> => Head(Tail(q)).stage = "queued"
  <2>1. ASSUME Tail(q) # <<>> PROVE 1 \in 1 .. Len(Tail(q)) /\ Head(Tail(q)) = Tail(q)[1]
    BY <1>1, <2>1
  <2> QED
    BY <1>2, <2>1
<1> QED
  BY <1>1, <1>3, <1>4 DEF StartsUp, Stops

\* The head enters another stage.
LEMMA AwaitQueue ==
  ASSUME NEW q \in Seq(Operations), q # <<>>, Queued(q), NEW h \in Operations,
         NEW p, p = <<h>> \o Tail(q)
  PROVE  p \in Seq(Operations) /\ Queued(p) /\ p # <<>> /\ Head(p) = h
<1>1. /\ Tail(q) \in Seq(Operations) /\ Len(Tail(q)) = Len(q) - 1
      /\ \A i \in 1 .. Len(q) - 1 : Tail(q)[i] = q[i + 1]
  OBVIOUS
<1>2. <<h>> \in Seq(Operations) /\ Len(<<h>>) = 1 /\ <<h>>[1] = h
  OBVIOUS
<1>3. /\ p \in Seq(Operations) /\ Len(p) = Len(q) /\ p[1] = h
      /\ \A i \in 2 .. Len(q) : p[i] = q[i]
  BY <1>1, <1>2
<1>4. Queued(p)
  BY <1>3 DEF Queued
<1> QED
  BY <1>3, <1>4

-----------------------------------------------------------------------------
(* The quota                                                               *)

LEMMA LiveFinite ==
  ASSUME PoolInv
  PROVE  IsFiniteSet(Live) /\ Live \subseteq Environments
<1>1. Live \subseteq Environments
  BY DEF PoolInv, QueueTypes, Live
<1> QED
  BY <1>1, PoolAssumption, FS_Subset

\* A step that makes nothing live keeps the quota.
LEMMA QuotaKept ==
  ASSUME PoolInv, Live' \subseteq Live
  PROVE  Cardinality(Live') <= Concurrent
<1>1. IsFiniteSet(Live')  /\ Cardinality(Live') <= Cardinality(Live)
  BY LiveFinite, FS_Subset
<1> QED
  BY <1>1, LiveFinite, FS_CardinalityType, PoolAssumption DEF PoolInv

\* A start that finds room: all other live environments have rows, and those were
\* counted.
LEMMA QuotaStart ==
  ASSUME PoolInv, NEW e \in Environments, WithinQuota(e), Live' \subseteq Live \cup {e}
  PROVE  Cardinality(Live') <= Concurrent
<1> DEFINE others == {f \in Environments \ {e} : rowStatus[f] # "free"}
<1>1. IsFiniteSet(others) /\ Cardinality(others) < Concurrent
  BY PoolAssumption, FS_Subset DEF WithinQuota
<1>2. Live \ {e} \subseteq others
  BY LiveFinite DEF PoolInv, RowInv
<1>3. Live' \subseteq others \cup {e}
  BY <1>2
<1>4. e \notin others
  OBVIOUS
<1> HIDE DEF others
<1>5. IsFiniteSet(others \cup {e}) /\ Cardinality(others \cup {e}) = Cardinality(others) + 1
  BY <1>1, <1>4, FS_AddElement
<1>6. IsFiniteSet(Live') /\ Cardinality(Live') <= Cardinality(others \cup {e})
  BY <1>3, <1>5, FS_Subset
<1> QED
  BY <1>1, <1>5, <1>6, FS_CardinalityType, PoolAssumption
-----------------------------------------------------------------------------
(* Steps                                                                   *)

LEMMA PoolInitInv == PoolInit => PoolInv
<1> SUFFICES ASSUME PoolInit PROVE PoolInv
  OBVIOUS
<1>1. QueueTypes
  BY DEF PoolInit, QueueTypes, Statuses
<1>2. RowInv
  BY DEF PoolInit, RowInv, Queued, Live, StartsUp
<1>3. Live = {}
  BY DEF PoolInit, Live, StartsUp
<1>4. Cardinality(Live) <= Concurrent
  BY <1>3, FS_EmptySet, PoolAssumption
<1> QED
  BY <1>1, <1>2, <1>4 DEF PoolInv

\* A step of environment e: its queue, its row and its container.
LEMMA LocalStep ==
  ASSUME PoolInv, NEW e \in Environments,
         NEW q \in Seq(Operations), NEW s \in Statuses, NEW run \in SUBSET Environments,
         Queued(q), \A f \in Environments : f # e => (f \in run <=> f \in running),
         todo' = [todo EXCEPT ![e] = q],
         rowStatus' = [rowStatus EXCEPT ![e] = s],
         running' = run,
         e \in run \/ StartsUp(q) => s # "free",
         s = "active" => e \in run /\ ~Stops(q) /\ ~StartsUp(q),
         e \in run \/ StartsUp(q) => e \in Live \/ WithinQuota(e)
  PROVE  PoolInv'
<1>1. QueueTypes'
  BY DEF PoolInv, QueueTypes
<1>2. /\ \A f \in Environments : f # e => (f \in Live' <=> f \in Live)
      /\ (e \in Live' <=> e \in run \/ StartsUp(q))
  BY DEF PoolInv, QueueTypes, Live
<1>3. RowInv'
  BY <1>2 DEF PoolInv, QueueTypes, RowInv
<1>4. Live' \subseteq Environments
  BY <1>1 DEF QueueTypes, Live
<1>5. CASE e \in Live' => e \in Live
  BY <1>2, <1>4, <1>5, QuotaKept, <1>1, <1>3 DEF PoolInv
<1>6. CASE WithinQuota(e)
  BY <1>2, <1>4, <1>6, QuotaStart, <1>1, <1>3 DEF PoolInv
<1> QED
  BY <1>2, <1>5, <1>6

\* The same, for a step that leaves the container alone.
LEMMA QueueStep ==
  ASSUME PoolInv, NEW e \in Environments, NEW q \in Seq(Operations), NEW s \in Statuses,
         Queued(q), todo' = [todo EXCEPT ![e] = q],
         rowStatus' = [rowStatus EXCEPT ![e] = s], UNCHANGED running,
         e \in running \/ StartsUp(q) => s # "free",
         s = "active" => rowStatus[e] = "active" /\ ~Stops(q) /\ ~StartsUp(q),
         StartsUp(q) => e \in Live \/ WithinQuota(e)
  PROVE  PoolInv'
<1>1. running \in SUBSET Environments /\ (e \in running => e \in Live)
  BY DEF PoolInv, QueueTypes, Live
<1>2. s = "active" => e \in running
  BY DEF PoolInv, RowInv
<1> QED
  BY <1>1, <1>2, LocalStep

LEMMA StopOperation == Stop \in Operations /\ Stop.stage = "queued"
  BY DEF Stop, Operation, Operations

\* A request or a stop joins the queue; the row changes at most to "stopping".
LEMMA JoinStep ==
  ASSUME PoolInv, NEW e \in Environments, NEW o \in Operations, o.stage = "queued",
         todo' = [todo EXCEPT ![e] = Append(@, o)],
         \/ UNCHANGED rowStatus
         \/ rowStatus' = [rowStatus EXCEPT ![e] = "stopping"],
         UNCHANGED running
  PROVE  PoolInv'
<1> DEFINE q == Append(todo[e], o)
<1>1. /\ q \in Seq(Operations) /\ Queued(q)
      /\ (StartsUp(q) <=> StartsUp(todo[e])) /\ (Stops(q) <=> Stops(todo[e]))
  BY AppendQueue DEF PoolInv, QueueTypes, RowInv
<1>2. todo' = [todo EXCEPT ![e] = q]
  OBVIOUS
<1> HIDE DEF q
<1>3. PICK s \in {rowStatus[e], "stopping"} : rowStatus' = [rowStatus EXCEPT ![e] = s]
  BY DEF PoolInv, QueueTypes
<1>4. s \in Statuses
  BY DEF PoolInv, QueueTypes, Statuses
<1>5. e \in running \/ StartsUp(q) => s # "free" /\ e \in Live
  BY <1>1 DEF PoolInv, RowInv, Live
<1>6. s = "active" => rowStatus[e] = "active" /\ ~Stops(q) /\ ~StartsUp(q)
  BY <1>1 DEF PoolInv, RowInv
<1> QED
  BY <1>1, <1>2, <1>3, <1>4, <1>5, <1>6, QueueStep

\* The operation at the head is done.
LEMMA DoneStep ==
  ASSUME PoolInv, NEW e \in Environments, todo[e] # <<>>, Done(e), NEW s \in Statuses,
         NEW run \in SUBSET Environments,
         \A f \in Environments : f # e => (f \in run <=> f \in running),
         rowStatus' = [rowStatus EXCEPT ![e] = s], running' = run,
         s = "free" => e \notin run, s = "active" => e \in run, e \in run => e \in Live
  PROVE  PoolInv'
<1> DEFINE q == Tail(todo[e])
<1>1. q \in Seq(Operations) /\ Queued(q) /\ ~StartsUp(q) /\ ~Stops(q)
  BY TailQueue DEF PoolInv, QueueTypes, RowInv
<1>2. todo' = [todo EXCEPT ![e] = q]
  BY DEF Done
<1> HIDE DEF q
<1> QED
  BY <1>1, <1>2, LocalStep

\* It is done, and row and container are as they were.
LEMMA DeclineStep ==
  ASSUME PoolInv, NEW e \in Environments, todo[e] # <<>>, Done(e),
         UNCHANGED <<rowStatus, running>>
  PROVE  PoolInv'
<1>1. /\ rowStatus[e] \in Statuses /\ rowStatus' = [rowStatus EXCEPT ![e] = rowStatus[e]]
      /\ running \in SUBSET Environments
      /\ e \in running => e \in Live /\ rowStatus[e] # "free"
      /\ rowStatus[e] = "active" => e \in running
  BY DEF PoolInv, QueueTypes, RowInv, Live
<1> QED
  BY <1>1, DoneStep

\* It goes on to a call of the provider.
LEMMA AwaitStep ==
  ASSUME PoolInv, NEW e \in Environments, todo[e] # <<>>,
         NEW stage \in {"ensure", "fence", "stop"}, Await(e, stage),
         NEW s \in Statuses, NEW run \in SUBSET Environments,
         \A f \in Environments : f # e => (f \in run <=> f \in running),
         rowStatus' = [rowStatus EXCEPT ![e] = s], running' = run,
         e \in run => e \in Live /\ s # "free",
         s = "active" => e \in run /\ stage = "fence",
         stage = "ensure" \/ (stage = "stop" /\ Head(todo[e]).op = "recreate")
           => s # "free" /\ (e \in Live \/ WithinQuota(e))
  PROVE  PoolInv'
<1> DEFINE h == [Head(todo[e]) EXCEPT !.stage = stage]
           q == <<h>> \o Tail(todo[e])
<1>1. todo[e] \in Seq(Operations) /\ Queued(todo[e]) /\ Head(todo[e]) \in Operations
  BY DEF PoolInv, QueueTypes, RowInv
<1>2. h \in Operations /\ h.stage = stage /\ h.op = Head(todo[e]).op
  BY <1>1, SMTT(30) DEF Operations
<1>3. todo' = [todo EXCEPT ![e] = q]
  BY DEF Await
<1> HIDE DEF h
<1>4. q \in Seq(Operations) /\ Queued(q) /\ q # <<>> /\ Head(q) = h
  BY <1>1, <1>2, AwaitQueue
<1> HIDE DEF q
<1>5. /\ StartsUp(q) <=> stage = "ensure" \/ (stage = "stop" /\ Head(todo[e]).op = "recreate")
      /\ Stops(q) <=> stage = "stop"
  BY <1>2, <1>4 DEF StartsUp, Stops
<1> QED
  BY <1>3, <1>4, <1>5, LocalStep

-----------------------------------------------------------------------------
(* The operations                                                          *)

LEMMA RequestInv ==
  ASSUME PoolInv, NEW e \in Environments,
         NEW o \in LeaseCalls \cup Desktop \cup {"configure", "retire"},
         NEW h \in Holders \cup {NoHolder}, Call(e, o, h)
  PROVE  PoolInv'
<1>1. Operation(o, h) \in Operations /\ Operation(o, h).stage = "queued"
  BY DEF Operation, Operations
<1> QED
  BY <1>1, JoinStep DEF Call

LEMMA HeadFacts ==
  ASSUME PoolInv, NEW e \in Environments, todo[e] # <<>>
  PROVE  /\ Head(todo[e]) \in Operations
         /\ e \in running => e \in Live /\ rowStatus[e] # "free"
         /\ rowStatus[e] \in Statuses /\ running \in SUBSET Environments
         /\ rowStatus' = rowStatus => rowStatus' = [rowStatus EXCEPT ![e] = rowStatus[e]]
         /\ rowStatus[e] = "active" => e \in running
  BY DEF PoolInv, QueueTypes, RowInv, Live

LEMMA BeginAcquireInv ==
  ASSUME PoolInv, NEW e \in Environments, BeginAcquire(e)
  PROVE  PoolInv'
<1>1. todo[e] # <<>> /\ UNCHANGED running
  BY DEF BeginAcquire, Current
<1>2. CASE Done(e) /\ UNCHANGED rowStatus
  BY <1>1, <1>2, DeclineStep
<1>3. CASE /\ WithinQuota(e) /\ rowStatus' = [rowStatus EXCEPT ![e] = "preparing"]
           /\ Await(e, "ensure")
  BY <1>1, <1>3, HeadFacts, AwaitStep DEF Statuses
<1> QED
  BY <1>2, <1>3 DEF BeginAcquire

LEMMA BeginReleaseInv ==
  ASSUME PoolInv, NEW e \in Environments, BeginRelease(e)
  PROVE  PoolInv'
<1>1. todo[e] # <<>> /\ UNCHANGED running /\ Head(todo[e]).op \in {"release", "keep", "stopHolder"}
  BY DEF BeginRelease, Current
<1>2. CASE Done(e) /\ UNCHANGED rowStatus
  BY <1>1, <1>2, DeclineStep
<1>3. CASE Await(e, "fence") /\ UNCHANGED rowStatus
  BY <1>1, <1>3, HeadFacts, AwaitStep
<1>4. CASE Fenced(e) /\ Await(e, "stop")
  BY <1>1, <1>4, HeadFacts, AwaitStep DEF Fenced, Statuses
<1> QED
  BY <1>2, <1>3, <1>4 DEF BeginRelease

LEMMA BeginDesktopInv ==
  ASSUME PoolInv, NEW e \in Environments, BeginDesktop(e)
  PROVE  PoolInv'
<1>1. todo[e] # <<>> /\ UNCHANGED running /\ Head(todo[e]).op \in Desktop
      /\ rowStatus' = [rowStatus EXCEPT ![e] = "preparing"]
  BY DEF BeginDesktop, Current
<1>2. CASE Head(todo[e]).op = "start"
  <2>1. WithinQuota(e) /\ Await(e, "ensure")
    BY <1>2 DEF BeginDesktop, Starting
  <2> QED
    BY <1>1, <2>1, HeadFacts, AwaitStep DEF Statuses
<1>3. CASE Head(todo[e]).op = "halt"
  <2>1. Await(e, "stop")
    BY <1>3 DEF BeginDesktop
  <2> QED
    BY <1>1, <1>3, <2>1, HeadFacts, AwaitStep DEF Statuses
<1>4. CASE Head(todo[e]).op = "recreate"
  <2>1. WithinQuota(e) /\ Await(e, "stop")
    BY <1>4 DEF BeginDesktop, Starting
  <2> QED
    BY <1>1, <2>1, HeadFacts, AwaitStep DEF Statuses
<1> QED
  BY <1>1, <1>2, <1>3, <1>4 DEF Desktop

LEMMA BeginChangeInv ==
  ASSUME PoolInv, NEW e \in Environments, BeginChange(e)
  PROVE  PoolInv'
<1>1. /\ todo[e] # <<>> /\ UNCHANGED running /\ Await(e, "stop")
      /\ Head(todo[e]).op \in {"configure", "retire"} /\ rowStatus[e] \in {"free", "idle"}
  BY DEF BeginChange, Current
<1>2. PICK s \in {rowStatus[e], "stopping"} : rowStatus' = [rowStatus EXCEPT ![e] = s]
  BY <1>1, HeadFacts DEF BeginChange
<1>3. s \in Statuses /\ s # "active"
  BY <1>1 DEF Statuses
<1> QED
  BY <1>1, <1>2, <1>3, HeadFacts, AwaitStep

LEMMA BeginStopInv ==
  ASSUME PoolInv, NEW e \in Environments, BeginStop(e) \/ Decline(e)
  PROVE  PoolInv'
<1>1. CASE Done(e) /\ todo[e] # <<>> /\ UNCHANGED <<rowStatus, running>>
  BY <1>1, DeclineStep
<1>2. CASE BeginStop(e) /\ Fenced(e) /\ Await(e, "stop")
  <2>1. todo[e] # <<>> /\ UNCHANGED running /\ Head(todo[e]).op = "stop"
    BY <1>2 DEF BeginStop, Current
  <2> QED
    BY <1>2, <2>1, HeadFacts, AwaitStep DEF Fenced, Statuses
<1> QED
  BY <1>1, <1>2 DEF BeginStop, Decline, Current

LEMMA EnsuredInv ==
  ASSUME PoolInv, NEW e \in Environments, EnsuredLease(e) \/ EnsuredDesktop(e)
  PROVE  PoolInv'
<1>1. todo[e] # <<>> /\ Head(todo[e]).stage = "ensure"
  BY DEF EnsuredLease, EnsuredDesktop, Current
<1>2. e \in Live
  BY <1>1 DEF Live, StartsUp
<1>3. running \in SUBSET Environments /\ running \cup {e} \in SUBSET Environments
  BY DEF PoolInv, QueueTypes
<1>4. CASE EnsuredLease(e)
  <2>1. Head(todo[e]).op = "acquire"
    BY <1>4 DEF EnsuredLease, Current
  <2>2. CASE /\ running' = running \cup {e}
             /\ rowStatus' = [rowStatus EXCEPT ![e] = "active"] /\ Done(e)
    <3>1. "active" \in Statuses /\ e \in running \cup {e}
          /\ \A f \in Environments : f # e => (f \in running \cup {e} <=> f \in running)
      BY DEF Statuses
    <3> QED
      BY <1>1, <1>2, <1>3, <2>2, <3>1, DoneStep
  <2>3. CASE running' \in {running, running \cup {e}} /\ Fenced(e) /\ Await(e, "stop")
    <3>1. "stopping" \in Statuses
          /\ \A f \in Environments : f # e => (f \in running' <=> f \in running)
      BY <2>3 DEF Statuses
    <3>2. rowStatus' = [rowStatus EXCEPT ![e] = "stopping"] /\ running' \in SUBSET Environments
      BY <1>3, <2>3 DEF Fenced
    <3> QED
      BY <1>1, <1>2, <2>1, <2>3, <3>1, <3>2, AwaitStep
  <2> QED
    BY <1>4, <2>2, <2>3 DEF EnsuredLease
<1>5. CASE EnsuredDesktop(e)
  <2>1. PICK s \in {"idle", "uncertain"} : rowStatus' = [rowStatus EXCEPT ![e] = s]
    BY <1>5 DEF EnsuredDesktop
  <2>2. running' \in {running, running \cup {e}} /\ Done(e)
    BY <1>5 DEF EnsuredDesktop
  <2> QED
    BY <1>1, <1>2, <1>3, <2>1, <2>2, DoneStep DEF Statuses
<1> QED
  BY <1>4, <1>5

LEMMA KeptInv ==
  ASSUME PoolInv, NEW e \in Environments, Kept(e)
  PROVE  PoolInv'
<1>1. todo[e] # <<>> /\ Done(e) /\ UNCHANGED running
  BY DEF Kept, Current
<1>2. CASE UNCHANGED rowStatus
  BY <1>1, <1>2, DeclineStep
<1>3. CASE rowStatus' = [rowStatus EXCEPT ![e] = "idle"]
  BY <1>1, <1>3, HeadFacts, DoneStep DEF Statuses
<1> QED
  BY <1>2, <1>3 DEF Kept

LEMMA StoppedInv ==
  ASSUME PoolInv, NEW e \in Environments, Stopped(e)
  PROVE  PoolInv'
<1>1. todo[e] # <<>> /\ Head(todo[e]).stage = "stop"
  BY DEF Stopped
<1>2. /\ running \ {e} \in SUBSET Environments /\ running \in SUBSET Environments
      /\ rowStatus[e] # "active" /\ rowStatus[e] \in Statuses
  BY <1>1 DEF PoolInv, QueueTypes, RowInv, Stops
<1>3. CASE running' = running \ {e} /\ Head(todo[e]).op = "recreate"
           /\ Await(e, "ensure") /\ UNCHANGED rowStatus
  <2>1. e \in Live
    BY <1>1, <1>3 DEF Live, StartsUp
  <2>2. rowStatus[e] # "free" /\ rowStatus' = [rowStatus EXCEPT ![e] = rowStatus[e]]
    BY <1>3, <2>1 DEF PoolInv, RowInv, QueueTypes
  <2>3. e \notin running \ {e} /\ \A f \in Environments :
          f # e => (f \in running \ {e} <=> f \in running)
    OBVIOUS
  <2> QED
    BY <1>1, <1>2, <1>3, <2>1, <2>2, <2>3, AwaitStep
<1>4. CASE running' = running \ {e} /\ Done(e) /\ rowStatus' = [rowStatus EXCEPT ![e] = "free"]
  <2>1. "free" \in Statuses /\ e \notin running \ {e}
        /\ \A f \in Environments : f # e => (f \in running \ {e} <=> f \in running)
    BY DEF Statuses
  <2> QED
    BY <1>1, <1>2, <1>4, <2>1, DoneStep
<1>5. CASE running' \in {running, running \ {e}} /\ Done(e)
           /\ rowStatus' = [rowStatus EXCEPT ![e] = Unconfirmed(e)]
  <2>1. PICK s \in {rowStatus[e], "uncertain"} : rowStatus' = [rowStatus EXCEPT ![e] = s]
    BY <1>5 DEF Unconfirmed
  <2>2. s \in Statuses /\ s # "active" /\ (s = "free" => e \notin running)
        /\ (e \in running => e \in Live)
    BY <1>1, <1>2, <2>1, HeadFacts DEF Statuses
  <2>3. running' \in SUBSET Environments /\ (e \in running' => e \in running)
        /\ \A f \in Environments : f # e => (f \in running' <=> f \in running)
    BY <1>2, <1>5
  <2> QED
    BY <1>1, <1>5, <2>1, <2>2, <2>3, DoneStep
<1> QED
  BY <1>3, <1>4, <1>5 DEF Stopped

-----------------------------------------------------------------------------
(* Between the calls                                                       *)

LEMMA FenceInv ==
  ASSUME PoolInv, (\E h \in Holders : Abort(h)) \/ (\E e \in Environments : Sweep(e))
  PROVE  PoolInv'
<1>1. ASSUME NEW e \in Environments, todo' = [todo EXCEPT ![e] = Append(@, Stop)],
             (UNCHANGED rowStatus) \/ Fenced(e), UNCHANGED running
      PROVE  PoolInv'
  BY <1>1, StopOperation, JoinStep DEF Fenced
<1>2. ASSUME NEW h \in Holders, Abort(h) PROVE PoolInv'
  <2>1. CASE UNCHANGED <<rowStatus, todo, running>>
    BY <2>1 DEF PoolInv, QueueTypes, RowInv, Live
  <2>2. CASE Fenced(Home[h]) /\ todo' = [todo EXCEPT ![Home[h]] = Append(@, Stop)]
             /\ UNCHANGED running
    <3>1. Home[h] \in Environments
      BY PoolAssumption
    <3> QED
      BY <1>1, <2>2, <3>1
  <2> QED
    BY <1>2, <2>1, <2>2 DEF Abort
<1>3. ASSUME NEW e \in Environments, Sweep(e) PROVE PoolInv'
  BY <1>1, <1>3 DEF Sweep
<1> QED
  BY <1>2, <1>3

LEMMA ClosePoolInv ==
  ASSUME PoolInv, ClosePool
  PROVE  PoolInv'
<1>1. ASSUME NEW e \in Environments
      PROVE  /\ todo'[e] \in Seq(Operations) /\ Queued(todo'[e])
             /\ (StartsUp(todo'[e]) <=> StartsUp(todo[e]))
  BY StopOperation, AppendQueue DEF PoolInv, QueueTypes, RowInv, ClosePool, StopAll
<1>2. QueueTypes'
  <2>1. todo' = [e \in Environments |-> todo'[e]]
    BY DEF ClosePool, StopAll
  <2>2. todo' \in [Environments -> Seq(Operations)]
    BY <1>1, <2>1
  <2> QED
    BY <2>2 DEF PoolInv, QueueTypes, ClosePool, Statuses
<1>3. Live' = Live
  BY <1>1 DEF Live, ClosePool
<1>4. RowInv'
  BY <1>1, <1>3 DEF PoolInv, RowInv, ClosePool
<1> QED
  BY <1>2, <1>3, <1>4, QuotaKept DEF PoolInv

LEMMA NodeRestartsInv ==
  ASSUME PoolInv, NodeRestarts
  PROVE  PoolInv'
<1>1. <<>> \in Seq(Operations) /\ Queued(<<>>) /\ ~StartsUp(<<>>) /\ ~Stops(<<>>)
  BY DEF Queued, StartsUp, Stops
<1>2. ASSUME NEW e \in Environments
      PROVE  /\ todo'[e] \in Seq(Operations) /\ Queued(todo'[e])
             /\ ~StartsUp(todo'[e]) /\ ~Stops(todo'[e])
  <2>1. todo'[e] \in {<<>>, Append(<<>>, Stop)}
    BY DEF NodeRestarts, StopAll
  <2> QED
    BY <1>1, <2>1, StopOperation, AppendQueue
<1>3. QueueTypes'
  <2>1. todo' = [e \in Environments |-> todo'[e]]
    BY DEF NodeRestarts, StopAll
  <2>2. todo' \in [Environments -> Seq(Operations)]
    BY <1>2, <2>1
  <2> QED
    BY <2>2 DEF PoolInv, QueueTypes, NodeRestarts
<1>4. Live' \subseteq Live
  BY <1>2 DEF Live, NodeRestarts
<1>5. RowInv'
  BY <1>2, <1>4 DEF PoolInv, RowInv, NodeRestarts
<1> QED
  BY <1>3, <1>4, <1>5, QuotaKept DEF PoolInv

LEMMA PoolNextInv == PoolInv /\ [PoolNext]_poolVars => PoolInv'
<1> SUFFICES ASSUME PoolInv, [PoolNext]_poolVars PROVE PoolInv'
  OBVIOUS
<1>1. CASE UNCHANGED <<rowStatus, todo, running>>
  BY <1>1 DEF PoolInv, QueueTypes, RowInv, Live
<1>2. ASSUME NEW h \in Holders, NEW o \in LeaseCalls, AskHolder(h, o) PROVE PoolInv'
  BY <1>2, RequestInv, PoolAssumption DEF AskHolder
<1>3. ASSUME NEW e \in Environments, NEW o \in Desktop \cup {"configure", "retire"},
             AskDesktop(e, o)
      PROVE  PoolInv'
  BY <1>3, RequestInv DEF AskDesktop
<1>4. ASSUME NEW e \in Environments, Advance(e) PROVE PoolInv'
  BY <1>4, BeginAcquireInv, BeginReleaseInv, BeginDesktopInv, BeginChangeInv, BeginStopInv,
     EnsuredInv, KeptInv, StoppedInv DEF Advance
<1>5. ASSUME NEW h \in Holders, Renew(h) PROVE PoolInv'
  BY <1>1, <1>5 DEF Renew
<1>6. ASSUME NEW e \in Environments, Lapse(e) PROVE PoolInv'
  BY <1>1, <1>6 DEF Lapse
<1>7. CASE Maintain \/ Recover \/ UNCHANGED poolVars
  BY <1>1, <1>7 DEF Maintain, Recover, poolVars
<1> QED
  BY <1>2, <1>3, <1>4, <1>5, <1>6, <1>7, FenceInv, ClosePoolInv, NodeRestartsInv DEF PoolNext

-----------------------------------------------------------------------------
\* The invariant that carries the properties below.
THEOREM PoolInductive == PoolSpec => []PoolInv
  BY PoolInitInv, PoolNextInv, PTL DEF PoolSpec

\* The containers that run never exceed the quota (pool.ts, reserve, before the
\* first await of a start).
THEOREM QuotaHolds == PoolSpec => []PoolQuota
<1>1. PoolInv => PoolQuota
  <2> SUFFICES ASSUME PoolInv PROVE PoolQuota
    OBVIOUS
  <2>1. running \subseteq Live
    BY DEF Live
  <2>2. IsFiniteSet(running) /\ Cardinality(running) <= Cardinality(Live)
    BY <2>1, LiveFinite, FS_Subset
  <2> QED
    BY <2>2, LiveFinite, FS_CardinalityType, PoolAssumption DEF PoolInv, PoolQuota
<1> QED
  BY <1>1, PoolInductive, PTL

\* A row that says "free" forgets no container, one that says "active" has one
\* (pool.ts, invalidate and the writes that follow a call of the provider).
THEOREM RowsHold == PoolSpec => []RowsTruthful
<1>1. PoolInv => RowsTruthful
  BY DEF PoolInv, RowInv, Live, RowsTruthful
<1> QED
  BY <1>1, PoolInductive, PTL

-----------------------------------------------------------------------------
(* Types                                                                   *)

\* The operations of a lease name the holder that asked for them.
Signed(q) == \A i \in 1 .. Len(q) : q[i].op \in LeaseCalls => q[i].who \in Holders

\* What the invariant above leaves out.
PoolSides ==
  /\ pool \in {"recovering", "ready", "maintenance", "closing"}
  /\ due \in [Environments -> BOOLEAN]
  /\ leased \subseteq Holders
  /\ mishaps \in 0 .. MaxMishaps
  /\ \A e \in Environments : Signed(todo[e])

LEMMA SignedQueue ==
  ASSUME NEW q \in Seq(Operations), Signed(q)
  PROVE  /\ \A o \in Operations : (o.op \in LeaseCalls => o.who \in Holders)
                                    => Signed(Append(q, o))
         /\ q # <<>> => /\ Signed(Tail(q)) /\ Head(q) \in Operations
                        /\ Head(q).op \in LeaseCalls => Head(q).who \in Holders
<1>1. ASSUME NEW o \in Operations, o.op \in LeaseCalls => o.who \in Holders
      PROVE  Signed(Append(q, o))
  <2>1. /\ Len(Append(q, o)) = Len(q) + 1 /\ Append(q, o)[Len(q) + 1] = o
        /\ \A i \in 1 .. Len(q) : Append(q, o)[i] = q[i]
    OBVIOUS
  <2> QED
    BY <1>1, <2>1 DEF Signed
<1>2. ASSUME q # <<>>
      PROVE  /\ Signed(Tail(q)) /\ Head(q) \in Operations
             /\ Head(q).op \in LeaseCalls => Head(q).who \in Holders
  <2>1. /\ Len(Tail(q)) = Len(q) - 1 /\ Len(q) \in Nat \ {0} /\ Head(q) = q[1]
        /\ \A i \in 1 .. Len(q) - 1 : Tail(q)[i] = q[i + 1] /\ i + 1 \in 1 .. Len(q)
    BY <1>2
  <2> QED
    BY <2>1 DEF Signed
<1> QED
  BY <1>1, <1>2

LEMMA SignedAwait ==
  ASSUME NEW q \in Seq(Operations), Signed(q), q # <<>>,
         NEW stage \in {"queued", "ensure", "fence", "stop"},
         NEW p, p = <<[Head(q) EXCEPT !.stage = stage]>> \o Tail(q)
  PROVE  Signed(p)
<1> DEFINE h == [Head(q) EXCEPT !.stage = stage]
<1>1. /\ Head(q) \in Operations /\ Signed(Tail(q)) /\ Tail(q) \in Seq(Operations)
      /\ Head(q).op \in LeaseCalls => Head(q).who \in Holders
  BY SignedQueue
<1>2. h \in Operations /\ h.op = Head(q).op /\ h.who = Head(q).who
  BY <1>1, SMTT(30) DEF Operations
<1>3. p = <<h>> \o Tail(q)
  OBVIOUS
<1> HIDE DEF h
<1>4. <<h>> \in Seq(Operations) /\ Len(<<h>>) = 1 /\ <<h>>[1] = h
  BY <1>2
<1>5. PICK r \in Seq(Operations) : r = Tail(q)
  BY <1>1
<1>6. p = <<h>> \o r /\ Signed(r) /\ Len(r) \in Nat
  BY <1>1, <1>3, <1>5
<1>7. /\ Len(p) = 1 + Len(r) /\ p[1] = h
      /\ \A i \in 2 .. Len(p) : p[i] = r[i - 1] /\ i - 1 \in 1 .. Len(r)
  BY <1>4, <1>6
<1>8. ASSUME NEW i \in 1 .. Len(p), p[i].op \in LeaseCalls
      PROVE  p[i].who \in Holders
  <2>1. CASE i = 1
    BY <1>1, <1>2, <1>7, <1>8, <2>1
  <2>2. CASE i # 1
    <3>1. i \in 2 .. Len(p)
      BY <1>6, <1>7, <2>2
    <3>2. p[i] = r[i - 1] /\ i - 1 \in 1 .. Len(r)
      BY <1>7, <3>1
    <3> QED
      BY <1>6, <1>8, <3>2 DEF Signed
  <2> QED
    BY <2>1, <2>2
<1> QED
  BY <1>8 DEF Signed

\* A queue that a step has changed, and the others.
LEMMA QueuesSigned ==
  ASSUME QueueTypes, PoolSides, NEW e \in Environments,
         \/ todo[e] # <<>> /\ Done(e)
         \/ \E stage \in {"ensure", "fence", "stop"} : todo[e] # <<>> /\ Await(e, stage)
         \/ \E o \in Operations : /\ o.op \in LeaseCalls => o.who \in Holders
                                  /\ todo' = [todo EXCEPT ![e] = Append(@, o)]
  PROVE  \A f \in Environments : Signed(todo[f])'
<1>1. todo[e] \in Seq(Operations) /\ Signed(todo[e])
  BY DEF QueueTypes, PoolSides
<1>2. ASSUME NEW q, Signed(q), todo' = [todo EXCEPT ![e] = q]
      PROVE  \A f \in Environments : Signed(todo[f])'
  <2> SUFFICES ASSUME NEW f \in Environments PROVE Signed(todo'[f])
    OBVIOUS
  <2>1. todo'[f] = IF f = e THEN q ELSE todo[f]
    BY <1>2 DEF QueueTypes
  <2> QED
    BY <1>2, <2>1 DEF PoolSides
<1>3. CASE todo[e] # <<>> /\ Done(e)
  <2>1. Signed(Tail(todo[e]))
    BY <1>1, <1>3, SignedQueue
  <2> QED
    BY <1>2, <1>3, <2>1 DEF Done
<1>4. ASSUME NEW stage \in {"ensure", "fence", "stop"}, todo[e] # <<>>, Await(e, stage)
      PROVE  \A f \in Environments : Signed(todo[f])'
  <2>1. PICK p : p = <<[Head(todo[e]) EXCEPT !.stage = stage]>> \o Tail(todo[e])
    OBVIOUS
  <2>2. Signed(p)
    BY <1>1, <1>4, <2>1, SignedAwait
  <2>3. todo' = [todo EXCEPT ![e] = p]
    BY <1>4, <2>1 DEF Await
  <2> QED
    BY <1>2, <2>2, <2>3
<1>5. ASSUME NEW o \in Operations, o.op \in LeaseCalls => o.who \in Holders,
             todo' = [todo EXCEPT ![e] = Append(@, o)]
      PROVE  \A f \in Environments : Signed(todo[f])'
  <2>1. Signed(Append(todo[e], o))
    BY <1>1, <1>5, SignedQueue
  <2> QED
    BY <1>2, <1>5, <2>1
<1> QED
  BY <1>3, <1>4, <1>5

\* The other sides, when a step changes each of them only in a way its type allows.
LEMMA OtherSides ==
  ASSUME PoolSides, NEW e \in Environments,
         UNCHANGED pool \/ pool' \in {"recovering", "ready", "maintenance", "closing"},
         UNCHANGED due \/ \E b \in BOOLEAN : due' = [due EXCEPT ![e] = b],
         leased' \subseteq Holders,
         UNCHANGED mishaps \/ Mishap
  PROVE  /\ pool' \in {"recovering", "ready", "maintenance", "closing"}
         /\ due' \in [Environments -> BOOLEAN]
         /\ leased' \subseteq Holders /\ mishaps' \in 0 .. MaxMishaps
  BY PoolAssumption DEF PoolSides, Mishap

LEMMA AdvanceSides ==
  ASSUME QueueTypes, PoolSides, NEW e \in Environments, Advance(e)
  PROVE  PoolSides'
<1>1. /\ todo[e] # <<>>
      /\ Head(todo[e]).op = "acquire" => Head(todo[e]).who \in Holders
  <2>1. todo[e] # <<>>
    BY DEF Advance, BeginAcquire, BeginRelease, BeginDesktop, BeginChange, BeginStop, Decline,
           EnsuredLease, EnsuredDesktop, Kept, Stopped, Current
  <2>2. todo[e] \in Seq(Operations) /\ Signed(todo[e])
    BY DEF QueueTypes, PoolSides
  <2> QED
    BY <2>1, <2>2, SignedQueue DEF LeaseCalls
<1>2. Done(e) \/ \E stage \in {"ensure", "fence", "stop"} : Await(e, stage)
  BY DEF Advance, BeginAcquire, BeginRelease, BeginDesktop, BeginChange, BeginStop, Decline,
         EnsuredLease, EnsuredDesktop, Kept, Stopped
<1>3. \A f \in Environments : Signed(todo[f])'
  BY <1>1, <1>2, QueuesSigned
<1>4. leased \subseteq Holders
  BY DEF PoolSides
<1>5. /\ UNCHANGED pool /\ leased' \subseteq Holders
      /\ UNCHANGED due \/ \E b \in BOOLEAN : due' = [due EXCEPT ![e] = b]
      /\ UNCHANGED mishaps \/ Mishap
  <2>1. CASE BeginAcquire(e)
    BY <1>1, <1>4, <2>1 DEF BeginAcquire, Current
  <2>2. CASE BeginRelease(e)
    BY <1>4, <2>2 DEF BeginRelease, Fenced
  <2>3. CASE BeginDesktop(e) \/ BeginChange(e) \/ BeginStop(e) \/ Decline(e)
    BY <1>4, <2>3 DEF BeginDesktop, BeginChange, BeginStop, Decline, Fenced
  <2>4. CASE EnsuredLease(e)
    BY <1>4, <2>4 DEF EnsuredLease, Fenced
  <2>5. CASE EnsuredDesktop(e) \/ Kept(e) \/ Stopped(e)
    BY <1>4, <2>5 DEF EnsuredDesktop, Kept, Stopped
  <2> QED
    BY <2>1, <2>2, <2>3, <2>4, <2>5 DEF Advance
<1> QED
  BY <1>3, <1>5, OtherSides DEF PoolSides

LEMMA AskedSides ==
  ASSUME QueueTypes, PoolSides, NEW e \in Environments,
         NEW o \in LeaseCalls \cup Desktop \cup {"configure", "retire"},
         NEW h \in Holders \cup {NoHolder}, o \in LeaseCalls => h \in Holders, Call(e, o, h)
  PROVE  PoolSides'
<1>1. PICK r : r = Operation(o, h)
  OBVIOUS
<1>2. r \in Operations /\ (r.op \in LeaseCalls => r.who \in Holders)
  BY <1>1 DEF Operation, Operations
<1>3. todo' = [todo EXCEPT ![e] = Append(@, r)] /\ UNCHANGED <<pool, due, leased, mishaps>>
  BY <1>1 DEF Call
<1>4. \A f \in Environments : Signed(todo[f])'
  BY <1>2, <1>3, QueuesSigned
<1> QED
  BY <1>3, <1>4 DEF PoolSides

LEMMA StopSides ==
  ASSUME QueueTypes, PoolSides
  PROVE  /\ \A h \in Holders : Abort(h) => PoolSides'
         /\ \A e \in Environments : Sweep(e) => PoolSides'
<1>1. Stop \in Operations /\ Stop.op \notin LeaseCalls
  BY DEF Stop, Operation, Operations, LeaseCalls
<1>2. ASSUME NEW h \in Holders, Abort(h)
      PROVE  PoolSides'
  <2>1. PICK e \in Environments : e = Home[h]
    BY PoolAssumption
  <2>2. CASE UNCHANGED todo
    BY <1>2, <2>1, <2>2, OtherSides DEF Abort, Fenced, PoolSides
  <2>3. CASE todo' = [todo EXCEPT ![e] = Append(@, Stop)]
    <3>1. \A f \in Environments : Signed(todo[f])'
      BY <1>1, <2>3, QueuesSigned
    <3>2. /\ UNCHANGED <<pool, mishaps>> /\ leased' \subseteq leased
          /\ UNCHANGED due \/ \E b \in BOOLEAN : due' = [due EXCEPT ![e] = b]
      BY <1>2, <2>1 DEF Abort, Fenced
    <3> QED
      BY <3>1, <3>2, OtherSides DEF PoolSides
  <2> QED
    BY <1>2, <2>1, <2>2, <2>3 DEF Abort
<1>3. ASSUME NEW e \in Environments, Sweep(e)
      PROVE  PoolSides'
  <2>1. \A f \in Environments : Signed(todo[f])'
    BY <1>1, <1>3, QueuesSigned DEF Sweep
  <2>2. /\ UNCHANGED <<pool, mishaps>> /\ leased' \subseteq leased
        /\ UNCHANGED due \/ \E b \in BOOLEAN : due' = [due EXCEPT ![e] = b]
    BY <1>3 DEF Sweep, Fenced
  <2> QED
    BY <2>1, <2>2, OtherSides DEF PoolSides
<1> QED
  BY <1>2, <1>3

\* close and a restart queue a stop for every environment in use.
LEMMA StopAllSides ==
  ASSUME QueueTypes, PoolSides,
         NEW queues, \A e \in Environments : queues[e] \in Seq(Operations) /\ Signed(queues[e]),
         StopAll(queues)
  PROVE  \A e \in Environments : Signed(todo[e])'
<1>1. Stop \in Operations /\ Stop.op \notin LeaseCalls
  BY DEF Stop, Operation, Operations, LeaseCalls
<1> SUFFICES ASSUME NEW e \in Environments PROVE Signed(todo'[e])
  OBVIOUS
<1>2. Signed(Append(queues[e], Stop))
  BY <1>1, SignedQueue
<1>3. todo'[e] = IF rowStatus[e] = "free" THEN queues[e] ELSE Append(queues[e], Stop)
  BY DEF StopAll
<1> QED
  BY <1>2, <1>3

LEMMA NextSides ==
  ASSUME PoolInv, PoolSides, [PoolNext]_poolVars
  PROVE  PoolSides'
<1>1. QueueTypes
  BY DEF PoolInv
<1>2. ASSUME NEW h \in Holders, NEW o \in LeaseCalls, AskHolder(h, o)
      PROVE  PoolSides'
  BY <1>1, <1>2, AskedSides, PoolAssumption DEF AskHolder
<1>3. ASSUME NEW e \in Environments, NEW o \in Desktop \cup {"configure", "retire"},
             AskDesktop(e, o)
      PROVE  PoolSides'
  <2>1. o \notin LeaseCalls
    BY DEF Desktop, LeaseCalls
  <2> QED
    BY <1>1, <1>3, <2>1, AskedSides DEF AskDesktop
<1>4. ASSUME NEW e \in Environments, Lapse(e) PROVE PoolSides'
  BY <1>4 DEF Lapse, PoolSides
<1>5. ASSUME NEW h \in Holders, Renew(h) PROVE PoolSides'
  BY <1>5, PoolAssumption DEF Renew, PoolSides
<1>6. CASE Maintain \/ Recover \/ UNCHANGED poolVars
  BY <1>6 DEF Maintain, Recover, poolVars, PoolSides
<1>7. CASE ClosePool
  <2>1. \A e \in Environments : todo[e] \in Seq(Operations) /\ Signed(todo[e])
    BY <1>1 DEF QueueTypes, PoolSides
  <2>2. \A e \in Environments : Signed(todo[e])'
    BY <1>1, <1>7, <2>1, StopAllSides DEF ClosePool
  <2> QED
    BY <1>7, <2>2 DEF ClosePool, PoolSides
<1>8. CASE NodeRestarts
  <2>1. PICK queues : queues = [e \in Environments |-> <<>>]
    OBVIOUS
  <2>2. \A e \in Environments : queues[e] \in Seq(Operations) /\ Signed(queues[e])
    BY <2>1 DEF Signed
  <2>3. \A e \in Environments : Signed(todo[e])'
    BY <1>1, <1>8, <2>1, <2>2, StopAllSides DEF NodeRestarts
  <2> QED
    BY <1>8, <2>3, PoolAssumption DEF NodeRestarts, Mishap, PoolSides
<1> QED
  BY <1>1, <1>2, <1>3, <1>4, <1>5, <1>6, <1>7, <1>8, AdvanceSides, StopSides DEF PoolNext

\* The pool keeps to its types: what a queue holds is an operation somebody asked for,
\* and leases belong to holders (runner/computers/pool.ts, Entry and serial).
THEOREM PoolTypeInvariant == PoolSpec => []PoolTypeOK
<1>1. ASSUME PoolInit PROVE PoolSides
  <2>1. \A e \in Environments : Signed(todo[e])
    BY <1>1 DEF PoolInit, Signed
  <2>2. 0 \in 0 .. MaxMishaps
    BY PoolAssumption
  <2> QED
    BY <1>1, <2>1, <2>2 DEF PoolInit, PoolSides
<1>2. ASSUME PoolInv, PoolSides PROVE PoolTypeOK
  <2>1. ASSUME NEW e \in Environments, NEW i \in DOMAIN todo[e]
        PROVE  todo[e][i] \in Operations
    <3>1. todo[e] \in Seq(Operations)
      BY <1>2 DEF PoolInv, QueueTypes
    <3> QED
      BY <3>1
  <2> QED
    BY <1>2, <2>1 DEF PoolInv, PoolSides, QueueTypes, Operations, PoolTypeOK
<1>3. PoolSpec => []PoolSides
  BY <1>1, NextSides, PoolInductive, PTL DEF PoolSpec
<1> QED
  BY <1>2, <1>3, PoolInductive, PTL
=============================================================================
