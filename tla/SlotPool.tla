------------------------------- MODULE SlotPool -------------------------------
(***************************************************************************)
(* The slot pool of a worker (pkg/wsclient/slotpool.go): a counter behind  *)
(* one mutex and one condition variable that bounds how many requests run  *)
(* at once, shared by jobs from the router and by requests of the local    *)
(* API, which go first.                                                    *)
(*                                                                         *)
(* A goroutine is a member of Local or of Job.  One step is one critical   *)
(* section of p.mu, or one Broadcast or notification made outside it.  The *)
(* steps here change `pool' and `at' only; whoever composes them supplies  *)
(* the local hook and what a goroutine does while it holds a slot.         *)
(***************************************************************************)
EXTENDS Integers, FiniteSets

CONSTANTS
    Local,      \* requests of the local API
    Job,        \* jobs sent by the router: the number of each dispatch
    Capacities  \* the capacities a worker may advertise

ASSUME PoolAssumption ==
    /\ IsFiniteSet(Local) /\ IsFiniteSet(Job)
    /\ Local \cap Job = {}
    /\ Capacities \subseteq Nat \ {0}

VARIABLES
    pool,   \* the fields of the struct
    at,     \* where each goroutine is
    ended   \* its context: "no", "over" (with AfterFunc still to run), "told"

Goroutine == Local \cup Job

Pools == [capacity : Nat, ready : BOOLEAN, inFlight : Nat,
          localWaiters : Nat, localInFlight : Nat]

EmptyPool == [capacity |-> 0, ready |-> FALSE, inFlight |-> 0,
              localWaiters |-> 0, localInFlight |-> 0]

LocalBusy == pool.localInFlight + pool.localWaiters

\* cond.Broadcast: every sleeper will look at the pool again.
Woken(where) ==
    [g \in Goroutine |-> IF where[g] = "asleep" THEN "try" ELSE where[g]]

\* Init(capacity), which also wakes everyone.  The broadcast follows the
\* section at once: a goroutine that got between them has seen the new value.
Resized(n) == [pool EXCEPT !.capacity = n, !.ready = TRUE]
InitPool(n) == pool' = Resized(n) /\ at' = Woken(at)

Free == pool.ready /\ pool.inFlight < pool.capacity

-------------------------------------------------------------------------------
(* Contexts.  AfterFunc takes and releases the mutex before it broadcasts,  *)
(* so it cannot fall between a check of the context and the sleep after it. *)
(* It is stopped when the call that registered it returns.                  *)

BeforeSlot == {"accepted", "spawned", "announce", "try", "asleep"}

\* The contexts of the goroutines in G are cancelled.
Cancelled(G) ==
    [g \in Goroutine |-> IF g \in G /\ ended[g] = "no"
                         THEN IF at[g] \in BeforeSlot THEN "over" ELSE "told"
                         ELSE ended[g]]

\* The call returns: `defer stop()'.
Stopped(g) == [ended EXCEPT ![g] = IF @ = "over" THEN "told" ELSE @]

AfterFunc(g) ==
    /\ ended[g] = "over" /\ at[g] \in {"announce", "try", "asleep"}
    /\ ended' = [ended EXCEPT ![g] = "told"]
    /\ at' = Woken(at)
    /\ UNCHANGED pool

-------------------------------------------------------------------------------
(* Local requests.                                                          *)

\* AcquireLocal up to its first unlock.
AcquireLocal(l) ==
    /\ at[l] = "idle"
    /\ pool' = [pool EXCEPT !.localWaiters = @ + 1]
    /\ at' = [at EXCEPT ![l] = "announce"]
    /\ UNCHANGED ended

\* One turn of its loop: take a slot, give up, or sleep.
TryLocal(l) ==
    /\ at[l] = "try"
    /\ \/ /\ Free
          /\ pool' = [pool EXCEPT !.inFlight = @ + 1, !.localInFlight = @ + 1,
                                  !.localWaiters = @ - 1]
          /\ at' = [at EXCEPT ![l] = "hold"] /\ ended' = Stopped(l)
       \/ /\ ~Free /\ ended[l] # "no"
          /\ pool' = [pool EXCEPT !.localWaiters = @ - 1]
          /\ at' = [at EXCEPT ![l] = "quit"] /\ ended' = Stopped(l)
       \/ /\ ~Free /\ ended[l] = "no"
          /\ at' = [at EXCEPT ![l] = "asleep"]
          /\ UNCHANGED <<pool, ended>>

\* The one that gives up wakes the jobs that yielded to it.
MutantQuitLocalTwice(l) ==
    /\ at[l] = "quit"
    /\ pool' = [pool EXCEPT !.localWaiters = @ - 1]
    /\ at' = Woken([at EXCEPT ![l] = "renotify"])
    /\ UNCHANGED ended

QuitLocal(l) ==
    /\ at[l] = "quit"
    /\ at' = Woken([at EXCEPT ![l] = "renotify"])
    /\ UNCHANGED <<pool, ended>>

\* ReleaseLocal up to its call of Release.
MutantReleaseLocal(l) ==
    /\ at[l] = "hold"
    /\ pool' = [pool EXCEPT !.localInFlight = IF @ > 0 /\ ended[l] = "no" THEN @ - 1 ELSE @]
    /\ at' = [at EXCEPT ![l] = "release"]
    /\ UNCHANGED ended

ReleaseLocal(l) ==
    /\ at[l] = "hold"
    /\ pool' = [pool EXCEPT !.localInFlight = IF @ > 0 THEN @ - 1 ELSE @]
    /\ at' = [at EXCEPT ![l] = "release"]
    /\ UNCHANGED ended

-------------------------------------------------------------------------------
(* Jobs of the router.                                                      *)

\* One turn of the loop of acquireRouterOrYield.
MutantTryJob(j, yield) ==
    /\ at[j] = "try"
    /\ \/ /\ Free
          /\ pool' = [pool EXCEPT !.inFlight = @ + 1]
          /\ at' = [at EXCEPT ![j] = "hold"] /\ ended' = Stopped(j)
       \/ /\ ~Free /\ ended[j] # "no"
          /\ at' = [at EXCEPT ![j] = "unlist"] /\ ended' = Stopped(j)
          /\ UNCHANGED pool
       \/ /\ ~Free /\ ended[j] = "no"
          /\ at' = [at EXCEPT ![j] = "asleep"]
          /\ UNCHANGED <<pool, ended>>

TryJob(j, yield) ==
    LET may  == Free /\ pool.localWaiters = 0
        busy == yield /\ pool.ready /\ LocalBusy > 0
    IN  /\ at[j] = "try"
        /\ \/ /\ may
              /\ pool' = [pool EXCEPT !.inFlight = @ + 1]
              /\ at' = [at EXCEPT ![j] = "hold"] /\ ended' = Stopped(j)
           \/ /\ ~may /\ ended[j] # "no"
              /\ at' = [at EXCEPT ![j] = "unlist"] /\ ended' = Stopped(j)
              /\ UNCHANGED pool
           \/ /\ ~may /\ ended[j] = "no"
              /\ at' = [at EXCEPT ![j] = IF busy THEN "busy" ELSE "asleep"]
              /\ UNCHANGED <<pool, ended>>

-------------------------------------------------------------------------------
(* Release, by either kind: the section, then the broadcast.               *)

Release(g) ==
    /\ at[g] = "release"
    /\ pool' = [pool EXCEPT !.inFlight = IF @ > 0 THEN @ - 1 ELSE @]
    /\ at' = [at EXCEPT ![g] = "broadcast"]
    /\ UNCHANGED ended

\* Release returns: a local request notifies the hook, a job runs the rest of
\* its deferred calls.
MutantReleaseBroadcast(g) ==
    LET sleepers == {h \in Goroutine : at[h] = "asleep"}
        next     == [at EXCEPT ![g] = IF g \in Local THEN "renotify" ELSE "unlist"]
    IN  /\ at[g] = "broadcast"
        /\ IF sleepers = {} THEN at' = next
           ELSE \E h \in sleepers : at' = [next EXCEPT ![h] = "try"]
        /\ UNCHANGED <<pool, ended>>

ReleaseBroadcast(g) ==
    /\ at[g] = "broadcast"
    /\ at' = Woken([at EXCEPT ![g] = IF g \in Local THEN "renotify" ELSE "unlist"])
    /\ UNCHANGED <<pool, ended>>

-------------------------------------------------------------------------------
Holding == {"hold", "release"}
Waiting == {"announce", "try", "asleep"}

\* The counters are exactly the goroutines they stand for, whatever mixture of
\* cancelled waits, yields, resizes and two-part releases has happened: no slot
\* leaks and none is freed twice.
PoolAccounting ==
    /\ pool.inFlight = Cardinality({g \in Goroutine : at[g] \in Holding})
    /\ pool.localWaiters = Cardinality({l \in Local : at[l] \in Waiting})
    /\ pool.localInFlight = Cardinality({l \in Local : at[l] = "hold"})

\* A slot is taken only within the capacity of the moment, and by a job only
\* when no local request is waiting for one: local requests go first.
Taken(g) == at[g] \notin Holding /\ at'[g] \in Holding
LocalFirst ==
    [][\A g \in Goroutine : Taken(g) =>
           /\ Cardinality({h \in Goroutine : at'[h] \in Holding}) <= pool.capacity
           /\ g \in Job => \A l \in Local : at[l] \notin Waiting]_<<pool, at, ended>>
===============================================================================
