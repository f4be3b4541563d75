---------------------------- MODULE ComputerPool ----------------------------
(***************************************************************************)
(* The pool of virtual computers of an execution node                      *)
(* (runner/computers/pool.ts): leases of several holders on one            *)
(* environment, a queue of operations per environment, the quota of        *)
(* running containers, the sweep that ends expired ones, and the stop that *)
(* has to be confirmed before an environment may be used again.            *)
(*                                                                         *)
(* A queued operation runs without interruption up to its call of the      *)
(* container provider; abort, expire and close act between those calls.    *)
(* Abstracted: generations (a lease is known by its own id), the           *)
(* specification of an environment, work done under a lease.  An           *)
(* environment without a row is a free one.  A deadline is a flag.         *)
(***************************************************************************)
EXTENDS Naturals, Sequences, FiniteSets, SequencesExt

CONSTANTS
  Environments, Holders,
  Home,         \* the environment a holder works in
  Concurrent,   \* limits.concurrent
  Backlog,      \* bound: operations that wait or run when one is asked for
  MaxMishaps    \* bound: failing provider calls and crashes

ASSUME PoolAssumption ==
  /\ Home \in [Holders -> Environments] /\ IsFiniteSet(Environments)
  /\ Concurrent \in Nat \ {0} /\ {Backlog, MaxMishaps} \subseteq Nat

VARIABLES
  pool,       \* "recovering", "ready", "maintenance" or "closing"
  rowStatus,  \* durable status of each environment
  due,        \* its deadline has passed
  todo,       \* serial: operations of each environment, the first one running
  leased,     \* holders with a lease
  running,    \* environments whose container runs
  mishaps     \* bookkeeping of the model

poolVars == <<pool, rowStatus, due, todo, leased, running, mishaps>>

NoHolder == "nobody"
Statuses == {"free", "idle", "preparing", "active", "stopping", "uncertain"}
Desktop == {"start", "halt", "recreate"}
Starting == {"start", "recreate"}
LeaseCalls == {"acquire", "release", "keep", "stopHolder"}
Operation(o, h) == [op |-> o, who |-> h, stage |-> "queued"]
Stop == Operation("stop", NoHolder)

HoldersOf(e) == {h \in leased : Home[h] = e}
Current(e, o, stage) == todo[e] # <<>> /\ Head(todo[e]).stage = stage
                                       /\ Head(todo[e]).op \in o

PoolInit ==
  /\ pool = "ready"
  /\ rowStatus = [e \in Environments |-> "free"]
  /\ due = [e \in Environments |-> TRUE]
  /\ todo = [e \in Environments |-> <<>>]
  /\ leased = {} /\ running = {} /\ mishaps = 0

-----------------------------------------------------------------------------
(* Requests join the queue of their environment                            *)

Call(e, o, h) ==
  /\ FoldFunction(LAMBDA q, n : n + Len(q), 0, todo) < Backlog
  /\ todo' = [todo EXCEPT ![e] = Append(@, Operation(o, h))]
  /\ UNCHANGED <<pool, rowStatus, due, leased, running, mishaps>>

\* A holder waits for its acquire; release refuses a lease that has ended.
AskHolder(h, o) ==
  /\ o = "acquire" => ~\E i \in DOMAIN todo[Home[h]] :
                         todo[Home[h]][i].op = "acquire" /\ todo[Home[h]][i].who = h
  /\ o \in {"release", "keep"} => h \in leased
  /\ Call(Home[h], o, h)

AskDesktop(e, o) == Call(e, o, NoHolder)

-----------------------------------------------------------------------------
(* invalidate, and the operation at the head of a queue                    *)

\* The fence: the row is marked and every lease ends.
Fenced(e) == /\ rowStatus' = [rowStatus EXCEPT ![e] = "stopping"]
             /\ due' = [due EXCEPT ![e] = TRUE]
             /\ leased' = leased \ HoldersOf(e)

\* The operation awaits the provider, or has ended.
Await(e, stage) == todo' = [todo EXCEPT ![e] = <<[Head(@) EXCEPT !.stage = stage]>> \o Tail(@)]
Done(e) == todo' = [todo EXCEPT ![e] = Tail(@)]

\* Mutant: only environments in use count.
ActiveOnly(e) ==
  Cardinality({f \in Environments \ {e} : rowStatus[f] = "active"}) < Concurrent

\* The quota counts every other environment that is not free.
WithinQuota(e) ==
  Cardinality({f \in Environments \ {e} : rowStatus[f] # "free"}) < Concurrent

\* acquire: an active environment is joined, a free or idle one is started.
BeginAcquire(e) ==
  LET h == Head(todo[e]).who IN
  /\ Current(e, {"acquire"}, "queued")
  /\ pool = "ready"
  /\ \/ /\ rowStatus[e] = "active" /\ h \notin leased
        /\ leased' = leased \cup {h} /\ due' = [due EXCEPT ![e] = FALSE]
        /\ Done(e)
        /\ UNCHANGED rowStatus
     \/ /\ rowStatus[e] \in {"free", "idle"} /\ WithinQuota(e)
        /\ rowStatus' = [rowStatus EXCEPT ![e] = "preparing"]
        /\ leased' = leased \cup {h} /\ due' = [due EXCEPT ![e] = FALSE]
        /\ Await(e, "ensure")
  /\ UNCHANGED <<pool, running, mishaps>>

\* release and stopHolder: the last holder to go stops the environment, or
\* leaves it running (keep) once the provider has given up its fence.
BeginRelease(e) ==
  LET o == Head(todo[e]) IN
  /\ Current(e, {"release", "keep", "stopHolder"}, "queued")
  /\ o.who \in leased
  /\ o.op = "keep" => rowStatus[e] = "active" /\ ~due[e] /\ pool # "closing"
  /\ IF HoldersOf(e) # {o.who}
     THEN leased' = leased \ {o.who} /\ Done(e) /\ UNCHANGED <<rowStatus, due>>
     ELSE IF o.op = "keep"
     THEN leased' = leased \ {o.who} /\ Await(e, "fence") /\ UNCHANGED <<rowStatus, due>>
     ELSE Fenced(e) /\ Await(e, "stop")
  /\ UNCHANGED <<pool, running, mishaps>>

\* desktop: the row keeps the deadline it had, which is none (0).
BeginDesktop(e) ==
  LET o == Head(todo[e]).op IN
  /\ Current(e, Desktop, "queued")
  /\ pool = "ready" /\ rowStatus[e] \in {"free", "idle"}
  /\ o \in Starting => WithinQuota(e)
  /\ rowStatus' = [rowStatus EXCEPT ![e] = "preparing"]
  /\ due' = [due EXCEPT ![e] = TRUE]
  /\ Await(e, IF o = "start" THEN "ensure" ELSE "stop")
  /\ UNCHANGED <<pool, leased, running, mishaps>>

\* configure and retire, of an environment nobody uses.
BeginChange(e) ==
  /\ Current(e, {"configure", "retire"}, "queued")
  /\ rowStatus[e] \in {"free", "idle"}
  /\ IF Head(todo[e]).op = "configure"
     THEN pool = "ready" /\ rowStatus' = [rowStatus EXCEPT ![e] = "stopping"]
     ELSE UNCHANGED rowStatus
  /\ Await(e, "stop")
  /\ UNCHANGED <<pool, due, leased, running, mishaps>>

\* stopEntry: whatever the queue has done since it was asked for.
BeginStop(e) ==
  /\ Current(e, {"stop"}, "queued")
  /\ \/ rowStatus[e] = "free" /\ Done(e) /\ UNCHANGED <<rowStatus, due, leased>>
     \/ rowStatus[e] # "free" /\ Fenced(e) /\ Await(e, "stop")
  /\ UNCHANGED <<pool, running, mishaps>>

\* A request is refused: its authority, its lease, the state of the pool.
Decline(e) ==
  /\ todo[e] # <<>> /\ Head(todo[e]).stage = "queued" /\ Head(todo[e]).op # "stop"
  /\ Done(e)
  /\ UNCHANGED <<pool, rowStatus, due, leased, running, mishaps>>

-----------------------------------------------------------------------------
(* The provider answers                                                    *)

Mishap == mishaps < MaxMishaps /\ mishaps' = mishaps + 1

\* acquire, after ensure: the lease must still be good, otherwise everything
\* that was started is stopped again.
EnsuredLease(e) ==
  LET h == Head(todo[e]).who
      good == h \in leased /\ rowStatus[e] = "preparing" /\ ~due[e] /\ pool # "closing"
  IN
  /\ Current(e, {"acquire"}, "ensure")
  /\ \/ /\ good
        /\ running' = running \cup {e}
        /\ rowStatus' = [rowStatus EXCEPT ![e] = "active"]
        /\ Done(e)
        /\ UNCHANGED <<due, leased, mishaps>>
     \/ /\ IF good THEN Mishap ELSE UNCHANGED mishaps
        /\ running' \in {running, running \cup {e}}
        /\ Fenced(e) /\ Await(e, "stop")
  /\ UNCHANGED pool

\* desktop, after ensure: idle, with a new idle period.
EnsuredDesktop(e) ==
  /\ Current(e, Starting, "ensure")
  /\ \/ /\ running' = running \cup {e}
        /\ rowStatus' = [rowStatus EXCEPT ![e] = "idle"]
        /\ due' = [due EXCEPT ![e] = FALSE]
        /\ UNCHANGED mishaps
     \/ /\ Mishap
        /\ running' \in {running, running \cup {e}}
        /\ rowStatus' = [rowStatus EXCEPT ![e] = "uncertain"]
        /\ UNCHANGED due
  /\ Done(e)
  /\ UNCHANGED <<pool, leased>>

\* release, after releaseFence: idle; a fence that fails leaves the row as it is.
Kept(e) ==
  /\ Current(e, {"keep"}, "fence")
  /\ \/ /\ rowStatus' = [rowStatus EXCEPT ![e] = "idle"]
        /\ due' = [due EXCEPT ![e] = FALSE]
        /\ UNCHANGED mishaps
     \/ Mishap /\ UNCHANGED <<rowStatus, due>>
  /\ Done(e)
  /\ UNCHANGED <<pool, leased, running>>

\* Mutant: an error of the provider is swallowed.
FreeAnyway(e) == "free"

\* What a stop that fails leaves: retire changes nothing, the others do not know.
Unconfirmed(e) == IF Head(todo[e]).op = "retire" THEN rowStatus[e] ELSE "uncertain"

\* stop and remove: confirmed, or unknown; recreate goes on to start again.
Stopped(e) ==
  /\ todo[e] # <<>> /\ Head(todo[e]).stage = "stop"
  /\ \/ /\ running' = running \ {e}
        /\ IF Head(todo[e]).op = "recreate"
           THEN Await(e, "ensure") /\ UNCHANGED rowStatus
           ELSE Done(e) /\ rowStatus' = [rowStatus EXCEPT ![e] = "free"]
        /\ UNCHANGED mishaps
     \/ /\ Mishap
        /\ running' \in {running, running \ {e}}
        /\ rowStatus' = [rowStatus EXCEPT ![e] = Unconfirmed(e)]
        /\ Done(e)
  /\ UNCHANGED <<pool, due, leased>>

-----------------------------------------------------------------------------
(* What happens between the provider's calls                               *)

\* The signal of a holder: it alone loses its lease; the last one stops.
Abort(h) ==
  LET e == Home[h] IN
  /\ h \in leased
  /\ IF HoldersOf(e) # {h}
     THEN leased' = leased \ {h} /\ UNCHANGED <<rowStatus, due, todo>>
     ELSE Fenced(e) /\ todo' = [todo EXCEPT ![e] = Append(@, Stop)]
  /\ UNCHANGED <<pool, running, mishaps>>

\* renew, by the work that uses the lease.
Renew(h) ==
  /\ h \in leased /\ rowStatus[Home[h]] = "active" /\ pool # "closing"
  /\ due' = [due EXCEPT ![Home[h]] = FALSE]
  /\ UNCHANGED <<pool, rowStatus, todo, leased, running, mishaps>>

\* Time passes: a lease, or the idle period of a desktop, runs out.
Lapse(e) ==
  /\ rowStatus[e] \in {"idle", "preparing", "active"} /\ ~due[e]
  /\ due' = [due EXCEPT ![e] = TRUE]
  /\ UNCHANGED <<pool, rowStatus, todo, leased, running, mishaps>>

\* Mutant: unconfirmed stops are not tried again.
ExpiredOnly(e) == rowStatus[e] \in {"idle", "preparing", "active"} /\ due[e]

\* What expire looks for; a stop that waits already is not asked for twice.
Overdue(e) ==
  \/ rowStatus[e] \in {"idle", "preparing", "active"} /\ due[e]
  \/ rowStatus[e] = "uncertain" /\ ~\E i \in DOMAIN todo[e] : todo[e][i].op = "stop"

Sweep(e) ==
  /\ pool \in {"ready", "maintenance"} /\ Overdue(e)
  /\ IF rowStatus[e] = "uncertain" THEN UNCHANGED <<rowStatus, due, leased>> ELSE Fenced(e)
  /\ todo' = [todo EXCEPT ![e] = Append(@, Stop)]
  /\ UNCHANGED <<pool, running, mishaps>>

\* beginMaintenance, when nothing is used and nothing is under way, and its end.
Maintain ==
  /\ \/ /\ pool = "ready" /\ pool' = "maintenance"
        /\ \A e \in Environments : todo[e] = <<>> /\ rowStatus[e] \in {"free", "idle"}
     \/ pool = "maintenance" /\ pool' = "ready"
  /\ UNCHANGED <<rowStatus, due, todo, leased, running, mishaps>>

\* Both queue a stop for whatever is not free.
StopAll(queues) ==
  todo' = [e \in Environments |->
             IF rowStatus[e] = "free" THEN queues[e] ELSE Append(queues[e], Stop)]

ClosePool ==
  /\ pool \in {"ready", "maintenance"} /\ pool' = "closing"
  /\ leased' = {h \in leased : rowStatus[Home[h]] = "free"}
  /\ rowStatus' = [e \in Environments |->
                     IF rowStatus[e] = "free" THEN "free" ELSE "stopping"]
  /\ due' = [e \in Environments |-> TRUE]
  /\ StopAll(todo)
  /\ UNCHANGED <<running, mishaps>>

\* The node dies, or is started again after close; recover stops what the table
\* names, and holders are not remembered.
NodeRestarts ==
  /\ Mishap
  /\ pool' = "recovering"
  /\ leased' = {}
  /\ StopAll([e \in Environments |-> <<>>])
  /\ UNCHANGED <<rowStatus, due, running>>

Recover ==
  /\ pool = "recovering" /\ pool' = "ready"
  /\ \A e \in Environments : todo[e] = <<>>
  /\ UNCHANGED <<rowStatus, due, todo, leased, running, mishaps>>

-----------------------------------------------------------------------------
Advance(e) ==
  \/ BeginAcquire(e) \/ BeginRelease(e) \/ BeginDesktop(e) \/ BeginChange(e)
  \/ BeginStop(e) \/ Decline(e)
  \/ EnsuredLease(e) \/ EnsuredDesktop(e) \/ Kept(e) \/ Stopped(e)

PoolNext ==
  \/ \E h \in Holders : \/ \E o \in LeaseCalls : AskHolder(h, o)
                        \/ Abort(h) \/ Renew(h)
  \/ \E e \in Environments : \/ \E o \in Desktop \cup {"configure", "retire"} : AskDesktop(e, o)
                             \/ Advance(e) \/ Lapse(e) \/ Sweep(e)
  \/ Maintain \/ ClosePool \/ NodeRestarts \/ Recover

PoolSpec == PoolInit /\ [][PoolNext]_poolVars

\* Provider calls have timeouts, the sweep runs every five seconds, and recover
\* is awaited.  Nobody has to ask for anything, nor to give anything back.
PoolFairness ==
  /\ \A e \in Environments : WF_poolVars(Advance(e)) /\ WF_poolVars(Sweep(e))
  /\ WF_poolVars(Recover)

-----------------------------------------------------------------------------
(* Properties                                                              *)

\* Every variable has its type, and only started or running operations and
\* environments in use have leases.
PoolTypeOK ==
  /\ pool \in {"recovering", "ready", "maintenance", "closing"}
  /\ rowStatus \in [Environments -> Statuses]
  /\ due \in [Environments -> BOOLEAN]
  /\ \A e \in Environments : \A i \in DOMAIN todo[e] :
       todo[e][i] \in [op : LeaseCalls \cup Desktop \cup {"configure", "retire", "stop"},
                       who : Holders \cup {NoHolder},
                       stage : {"queued", "ensure", "fence", "stop"}]
  /\ leased \subseteq Holders /\ running \subseteq Environments
  /\ mishaps \in 0 .. MaxMishaps

\* However starts, stops, failures and restarts interleave, the containers that
\* run never exceed the quota (pool.ts, the reservation before the first await).
PoolQuota == Cardinality(running) <= Concurrent

\* The durable row never claims more than is true: a free environment runs no
\* container that would be forgotten, an environment somebody uses does run.
RowsTruthful ==
  \A e \in Environments : /\ rowStatus[e] = "free" => e \notin running
                          /\ rowStatus[e] = "active" => e \in running

\* An environment whose stop is under way or unconfirmed comes back every time,
\* unless the pool is closing (expire: "must not block the environment forever").
EnvironmentsReturn ==
  \A e \in Environments :
    []<>(rowStatus[e] \notin {"stopping", "uncertain"} \/ pool = "closing")
=============================================================================
