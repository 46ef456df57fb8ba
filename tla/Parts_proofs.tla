---------------------------- MODULE Parts_proofs ----------------------------
(***************************************************************************)
(* The components that the `parts' run explores: the slot pool under load  *)
(* with its reports, which models a client offers, a backend's answer as a *)
(* worker passes it on, the event stream the router makes of it, and the   *)
(* types of them all.                                                      *)
(***************************************************************************)
EXTENDS MCParts, SlotPool_proofs, Queue_proofs

-----------------------------------------------------------------------------
(* The pool.                                                               *)

(* The pool starts empty. *)
LEMMA LoadPoolInit ==
  ASSUME LoadInit
  PROVE  PoolInv
<1>1. /\ Standing(at, Goroutine, Holding) = {} /\ Standing(at, Local, Waiting) = {}
      /\ Standing(at, Local, {"hold"}) = {}
  BY DEF LoadInit, Standing, Holding, Waiting, Goroutine
<1>2. pool \in Pools /\ pool.inFlight = 0 /\ pool.localWaiters = 0 /\ pool.localInFlight = 0
  <2>1. PICK n \in Capacities : pool = [EmptyPool EXCEPT !.capacity = n, !.ready = TRUE]
    BY DEF LoadInit
  <2>2. n \in Nat
    BY PoolAssumption
  <2>3. pool = [capacity |-> n, ready |-> TRUE, inFlight |-> 0, localWaiters |-> 0, localInFlight |-> 0]
    BY <2>1 DEF EmptyPool
  <2> QED
    BY <2>2, <2>3 DEF Pools
<1>3. Cardinality({}) = 0
  BY FS_EmptySet
<1>4. at \in [Goroutine -> Where] /\ ended \in [Goroutine -> Contexts]
  BY DEF LoadInit, Where, Contexts
<1> QED
  BY <1>1, <1>2, <1>3, <1>4 DEF PoolInv, Accounts

\* A step of the pool's users: the counters stay right, and whoever takes a slot
\* takes it within the capacity and after the local requests.
Takes(g) == Taken(g) => /\ Free /\ pool'.inFlight = pool.inFlight + 1
                        /\ g \in Job => pool.localWaiters = 0
SlotStep == PoolInv' /\ \A g \in Goroutine : Takes(g)

(* A step of a local request keeps the counters (handleChatCompletions, the hook). *)
LEMMA LocalKeepsPool ==
  ASSUME PoolInv, NEW l \in Local, LocalArrives(l) \/ LocalHangsUp(l) \/ LocalStep(l)
  PROVE  SlotStep
<1>1. l \in Goroutine /\ at \in [Goroutine -> Where] /\ l \notin Job
  BY PoolAssumption DEF PoolInv, Goroutine
<1>2. ASSUME \A h \in Goroutine : ~Taken(h), PoolInv' PROVE SlotStep
  BY <1>2 DEF SlotStep, Takes
<1>3. CASE LocalArrives(l)
  <2>1. \A h \in Goroutine : ~Taken(h)
    BY <1>1, <1>3 DEF LocalArrives, AcquireLocal, Taken, Holding
  <2> QED
    BY <1>2, <1>3, <2>1, AcquireCounted DEF LocalArrives
<1>4. CASE LocalHangsUp(l)
  <2>1. PoolInv' /\ at' = at
    BY <1>4, ContextsTyped DEF LocalHangsUp, PoolInv
  <2> QED
    BY <1>2, <2>1 DEF Taken
<1>5. ASSUME NEW x \in {"try", "gone"}, at' = [at EXCEPT ![l] = x], at[l] \in {"announce", "renotify"},
             x = "try" <=> at[l] = "announce", UNCHANGED <<pool, ended>>
      PROVE  SlotStep
  <2>1. Accounts(pool, at') /\ at' \in [Goroutine -> Where]
    BY <1>1, <1>5, UncountedMove DEF Holding, Waiting, Where
  <2>2. PoolInv'
    BY <1>5, <2>1 DEF PoolInv
  <2> QED
    BY <1>1, <1>2, <1>5, <2>2 DEF Taken, Holding
<1>6. CASE Announce(l) \/ Renotify(l)
  BY <1>5, <1>6 DEF Announce, Renotify
<1>7. CASE TryLocal(l)
  BY <1>1, <1>7, TryLocalCounted DEF SlotStep, Takes
<1>8. CASE QuitLocal(l)
  <2>1. \A h \in Goroutine : ~Taken(h)
    BY <1>1, <1>8 DEF QuitLocal, Taken, Woken, Holding
  <2> QED
    BY <1>1, <1>2, <1>8, <2>1, QuitCounted
<1>9. CASE ReleaseLocal(l)
  <2>1. PoolInv' /\ at[l] = "hold" /\ at' = [at EXCEPT ![l] = "release"]
    BY <1>9, ReleaseLocalCounted DEF ReleaseLocal
  <2> QED
    BY <1>1, <1>2, <2>1 DEF Taken, Holding
<1>10. CASE Release(l)
  <2>1. \A h \in Goroutine : ~Taken(h)
    BY <1>1, <1>10 DEF Release, Taken, Woken, Holding
  <2> QED
    BY <1>1, <1>2, <1>10, <2>1, ReleaseCounted
<1>11. CASE ReleaseBroadcast(l)
  <2>1. \A h \in Goroutine : ~Taken(h)
    BY <1>1, <1>11 DEF ReleaseBroadcast, Taken, Woken, Holding
  <2> QED
    BY <1>1, <1>2, <1>11, <2>1, UncountedSteps
<1> QED
  BY <1>3, <1>4, <1>6, <1>7, <1>8, <1>9, <1>10, <1>11 DEF LocalStep, LocalPool

(* So does a step of a job (acquireRouterOrYield, Release, the deferred calls). *)
LEMMA JobKeepsPool ==
  ASSUME PoolInv, NEW j \in Job, JobArrives(j) \/ JobCancelled(j) \/ JobStep(j)
  PROVE  SlotStep
<1>1. j \in Goroutine /\ at \in [Goroutine -> Where] /\ j \notin Local
  BY PoolAssumption DEF PoolInv, Goroutine
<1>2. ASSUME \A h \in Goroutine : ~Taken(h), PoolInv' PROVE SlotStep
  BY <1>2 DEF SlotStep, Takes
<1>3. ASSUME NEW x \in {"try", "release", "gone", "unlist"}, at' = [at EXCEPT ![j] = x],
             x = "release" <=> at[j] = "hold", at[j] # "release", UNCHANGED <<pool, ended>>
      PROVE  SlotStep
  <2>1. Accounts(pool, at') /\ at' \in [Goroutine -> Where]
    BY <1>1, <1>3, UncountedMove DEF Holding, Where
  <2>2. PoolInv'
    BY <1>3, <2>1 DEF PoolInv
  <2> QED
    BY <1>1, <1>2, <1>3, <2>2 DEF Taken, Holding
<1>4. CASE JobArrives(j)
  BY <1>3, <1>4 DEF JobArrives
<1>5. CASE JobCancelled(j) \/ BusyReads(j)
  <2>1. PoolInv' /\ at' = at
    BY <1>5, ContextsTyped DEF JobCancelled, BusyReads, poolVars, PoolInv
  <2> QED
    BY <1>2, <2>1 DEF Taken
<1>6. CASE BusySends(j) \/ JobEnds(j)
  BY <1>3, <1>6 DEF BusySends, JobEnds
<1>7. CASE TryJob(j, yields[j])
  BY <1>1, <1>7, TryJobCounted DEF SlotStep, Takes
<1>8. CASE Release(j)
  <2>1. \A h \in Goroutine : ~Taken(h)
    BY <1>1, <1>8 DEF Release, Taken, Woken, Holding
  <2> QED
    BY <1>1, <1>2, <1>8, <2>1, ReleaseCounted
<1>9. CASE ReleaseBroadcast(j)
  <2>1. \A h \in Goroutine : ~Taken(h)
    BY <1>1, <1>9 DEF ReleaseBroadcast, Taken, Woken, Holding
  <2> QED
    BY <1>1, <1>2, <1>9, <2>1, UncountedSteps
<1> QED
  BY <1>4, <1>5, <1>6, <1>7, <1>8, <1>9 DEF JobStep, JobPool

(* And every step of the worker as a whole. *)
LEMMA LoadKeepsPool ==
  ASSUME PoolInv, [LoadNext]_allLoadVars
  PROVE  SlotStep
<1>1. ASSUME \A h \in Goroutine : ~Taken(h), PoolInv' PROVE SlotStep
  BY <1>1 DEF SlotStep, Takes
<1>2. ASSUME UNCHANGED poolVars PROVE SlotStep
  <2>1. PoolInv' /\ at' = at
    BY <1>2 DEF poolVars, PoolInv
  <2> QED
    BY <1>1, <2>1 DEF Taken
<1>3. ASSUME NEW g \in Goroutine, ContextFunc(g) PROVE SlotStep
  <2>1. PoolInv' /\ at' = Woken(at)
    BY <1>3, UncountedSteps DEF ContextFunc, AfterFunc
  <2> QED
    BY <1>1, <2>1 DEF Taken, Woken, Holding
<1>4. ASSUME NEW n \in Capacities, Resize(n) PROVE SlotStep
  <2>1. PoolInv' /\ at' = Woken(at)
    BY <1>4, UncountedSteps DEF Resize, InitPool
  <2> QED
    BY <1>1, <2>1 DEF Taken, Woken, Holding
<1>5. CASE ReporterReads \/ ReporterSends
  BY <1>2, <1>5 DEF ReporterReads, ReporterSends
<1>6. CASE UNCHANGED allLoadVars
  BY <1>2, <1>6 DEF allLoadVars
<1> QED
  BY <1>3, <1>4, <1>5, <1>6, LocalKeepsPool, JobKeepsPool DEF LoadNext

(* However waits are cancelled, jobs yield, the pool is resized and releases come
   in two parts, its counters are exactly the goroutines they stand for: no slot
   leaks and none is freed twice (slotpool.go). *)
THEOREM LoadPoolAccounting == LoadSpec => []PoolAccounting
<1>1. LoadInit => PoolInv
  BY LoadPoolInit
<1>2. PoolInv /\ [LoadNext]_allLoadVars => PoolInv'
  BY LoadKeepsPool DEF SlotStep
<1>3. PoolInv => PoolAccounting
  BY PoolInvAccounting
<1> QED
  BY <1>1, <1>2, <1>3, PTL DEF LoadSpec

(* A slot is taken only within the capacity of the moment, and by a job only when
   no local request waits for one (acquireRouterOrYield, AcquireLocal). *)
THEOREM LoadLocalFirst == LoadSpec => LocalFirst
<1>1. LoadInit => PoolInv
  BY LoadPoolInit
<1>2. PoolInv /\ [LoadNext]_allLoadVars => PoolInv'
  BY LoadKeepsPool DEF SlotStep
<1> DEFINE Fair == \A g \in Goroutine : Taken(g) =>
                      /\ Cardinality({h \in Goroutine : at'[h] \in Holding}) <= pool.capacity
                      /\ g \in Job => \A l \in Local : at[l] \notin Waiting
<1>3. PoolInv /\ [LoadNext]_allLoadVars => Fair
  BY LoadKeepsPool, TakenWithin DEF SlotStep, Takes
<1>4. PoolInv /\ [LoadNext]_allLoadVars => [Fair]_<<pool, at, ended>>
  BY <1>3
<1> QED
  BY <1>1, <1>2, <1>4, PTL DEF LoadSpec, LocalFirst

-----------------------------------------------------------------------------
(* The reports.                                                            *)

\* A local request is about to kick the reporting goroutine.
Kicking == \E l \in Local : at[l] \in {"announce", "quit", "release", "broadcast", "renotify"}

\* What the reporting goroutine holds is the load of now, or it will be told to
\* look again.
ReportInv ==
    /\ reporter \in Int
    /\ yields \in [Job -> BOOLEAN]
    /\ (\E j \in Job : yields[j]) =>
         /\ reporter # -1 => reporter = LocalBusy \/ kick \/ Kicking
         /\ reporter = -1 /\ knownBy = "reporter" => known = LocalBusy \/ kick \/ Kicking

(* A step that leaves the load and the reports alone, and does not end a request
   on its way to the hook, keeps the invariant. *)
LEMMA QuietKeepsReports ==
  ASSUME ReportInv, UNCHANGED <<yields, reporter, known, knownBy>>,
         kick => kick', Kicking => Kicking' \/ kick', LocalBusy' = LocalBusy \/ Kicking' \/ kick'
  PROVE  ReportInv'
BY DEF ReportInv

(* Waking sleepers ends no request on its way to the hook. *)
LEMMA WokenKicks ==
  ASSUME NEW w, NEW l \in Local, w[l] \in {"announce", "quit", "release", "broadcast", "renotify"}
  PROVE  Woken(w)[l] \in {"announce", "quit", "release", "broadcast", "renotify"}
BY DEF Woken, Goroutine

(* Every change of the load a request makes is followed by its kick
   (AcquireLocal's two calls of notifyLocal, ReleaseLocal's last). *)
LEMMA LocalKeepsReports ==
  ASSUME PoolInv, ReportInv, NEW l \in Local, LocalArrives(l) \/ LocalHangsUp(l) \/ LocalStep(l)
  PROVE  ReportInv'
<1>1. l \in Goroutine /\ at \in [Goroutine -> Where] /\ l \in Local
  BY DEF PoolInv, Goroutine
<1>2. UNCHANGED <<yields, reporter, known, knownBy>> /\ (kick => kick')
  BY DEF LocalArrives, LocalHangsUp, LocalStep, LocalPool, Announce, Renotify, loadVars
<1>3. CASE LocalHangsUp(l)
  <2>1. UNCHANGED <<at, pool>>
    BY <1>3 DEF LocalHangsUp
  <2> QED
    BY <1>2, <2>1, QuietKeepsReports DEF Kicking, LocalBusy
<1>4. CASE Announce(l) \/ Renotify(l)
  BY <1>2, <1>4, QuietKeepsReports DEF Announce, Renotify
<1>5. ASSUME at'[l] \in {"announce", "quit", "release", "broadcast", "renotify"} PROVE ReportInv'
  BY <1>2, <1>5, QuietKeepsReports DEF Kicking
<1>6. CASE LocalArrives(l)
  BY <1>1, <1>5, <1>6 DEF LocalArrives, AcquireLocal
<1>7. CASE TryLocal(l)
  <2>1. CASE at' = [at EXCEPT ![l] = "quit"]
    BY <1>1, <1>5, <2>1
  <2>2. CASE /\ at[l] = "try" /\ \E x \in {"hold", "asleep"} : at' = [at EXCEPT ![l] = x]
             /\ \/ pool' = pool
                \/ pool' = [pool EXCEPT !.inFlight = @ + 1, !.localInFlight = @ + 1, !.localWaiters = @ - 1]
    <3>1. Kicking => Kicking'
      BY <1>1, <2>2 DEF Kicking, Goroutine
    <3>2. LocalBusy' = LocalBusy
      <4>1. pool \in Pools /\ pool.localWaiters \in Nat /\ pool.localInFlight \in Nat
        BY Counters DEF PoolInv
      <4>2. CASE pool' = pool
        BY <4>2 DEF LocalBusy
      <4>3. CASE pool' = [pool EXCEPT !.inFlight = @ + 1, !.localInFlight = @ + 1, !.localWaiters = @ - 1]
        <5>1. pool'.localInFlight = pool.localInFlight + 1 /\ pool'.localWaiters = pool.localWaiters - 1
          BY <4>1, <4>3 DEF Pools
        <5> QED
          BY <4>1, <5>1 DEF LocalBusy
      <4> QED
        BY <2>2, <4>2, <4>3
    <3> QED
      BY <1>2, <3>1, <3>2, QuietKeepsReports
  <2> QED
    BY <1>7, <2>1, <2>2 DEF TryLocal
<1>8. CASE QuitLocal(l) \/ ReleaseLocal(l) \/ Release(l) \/ ReleaseBroadcast(l)
  <2>1. CASE ReleaseLocal(l) \/ Release(l)
    BY <1>1, <1>5, <2>1 DEF ReleaseLocal, Release
  <2>2. CASE at' = Woken([at EXCEPT ![l] = "renotify"])
    <3>1. [at EXCEPT ![l] = "renotify"][l] = "renotify"
      BY <1>1
    <3>2. at'[l] = "renotify"
      BY <1>1, <2>2, <3>1 DEF Woken
    <3> QED
      BY <1>5, <3>2
  <2> QED
    BY <1>8, <2>1, <2>2 DEF QuitLocal, ReleaseBroadcast
<1> QED
  BY <1>3, <1>4, <1>6, <1>7, <1>8 DEF LocalStep, LocalPool

(* A job changes no local load; what it reports itself is its own
   (acquireRouterOrYield, reportLocal). *)
LEMMA JobKeepsReports ==
  ASSUME PoolInv, ReportInv, NEW j \in Job, JobArrives(j) \/ JobCancelled(j) \/ JobStep(j)
  PROVE  ReportInv'
<1>1. j \in Goroutine /\ j \notin Local /\ at \in [Goroutine -> Where] /\ pool \in Pools
  BY PoolAssumption DEF PoolInv, Goroutine
<1>2. CASE BusySends(j)
  <2>1. /\ knownBy' = "job" /\ at' = [at EXCEPT ![j] = "unlist"]
        /\ UNCHANGED <<pool, yields, kick, reporter>>
    BY <1>2 DEF BusySends
  <2>2. (Kicking => Kicking') /\ LocalBusy' = LocalBusy
    BY <1>1, <2>1 DEF Kicking, LocalBusy
  <2> QED
    BY <2>1, <2>2 DEF ReportInv
<1>3. CASE ~BusySends(j)
  <2>1. UNCHANGED <<yields, reporter, known, knownBy, kick>>
    BY <1>3 DEF JobArrives, JobCancelled, JobStep, JobPool, JobEnds, BusyReads, loadVars
  <2>2. LocalBusy' = LocalBusy
    <3>1. pool'.localWaiters = pool.localWaiters /\ pool'.localInFlight = pool.localInFlight
      BY <1>1, <1>3 DEF JobArrives, JobCancelled, JobStep, JobPool, JobEnds, BusyReads, poolVars,
           TryJob, Release, ReleaseBroadcast, Pools
    <3> QED
      BY <3>1 DEF LocalBusy
  <2>3. Kicking => Kicking'
    <3>1. \/ at' = at \/ \E x : at' = [at EXCEPT ![j] = x]
          \/ \E x : at' = Woken([at EXCEPT ![j] = x])
      BY <1>3 DEF JobArrives, JobCancelled, JobStep, JobPool, JobEnds, BusyReads, poolVars,
           TryJob, Release, ReleaseBroadcast
    <3>2. \A l \in Local : at[l] \in {"announce", "quit", "release", "broadcast", "renotify"}
             => at'[l] \in {"announce", "quit", "release", "broadcast", "renotify"}
      BY <1>1, <3>1 DEF Woken, Goroutine
    <3> QED
      BY <3>2 DEF Kicking
  <2> QED
    BY <2>1, <2>2, <2>3, QuietKeepsReports
<1> QED
  BY <1>2, <1>3

(* Reading the load after taking the token, the reporting goroutine holds what
   is true or is kicked again (the reporting goroutine of conn.go). *)
LEMMA LoadKeepsReports ==
  ASSUME PoolInv, ReportInv, [LoadNext]_allLoadVars
  PROVE  ReportInv'
<1>1. at \in [Goroutine -> Where] /\ pool \in Pools /\ LocalBusy \in Nat
  BY Counters DEF PoolInv
<1>2. CASE UNCHANGED allLoadVars
  BY <1>2, QuietKeepsReports DEF allLoadVars, poolVars, loadVars, Kicking, LocalBusy
<1>3. ASSUME NEW g \in Goroutine, ContextFunc(g) PROVE ReportInv'
  <2>1. at' = Woken(at) /\ pool' = pool /\ UNCHANGED <<yields, reporter, known, knownBy, kick>>
    BY <1>3 DEF ContextFunc, AfterFunc, loadVars
  <2>2. Kicking => Kicking'
    BY <2>1, WokenKicks DEF Kicking
  <2> QED
    BY <2>1, <2>2, QuietKeepsReports DEF LocalBusy
<1>4. ASSUME NEW n \in Capacities, Resize(n) PROVE ReportInv'
  <2>1. at' = Woken(at) /\ pool' = Resized(n) /\ UNCHANGED <<yields, reporter, known, knownBy, kick>>
    BY <1>4 DEF Resize, InitPool, loadVars
  <2>2. Kicking => Kicking'
    BY <2>1, WokenKicks DEF Kicking
  <2>3. LocalBusy' = LocalBusy
    BY <1>1, <2>1 DEF LocalBusy, Resized, Pools
  <2> QED
    BY <2>1, <2>2, <2>3, QuietKeepsReports
<1>5. CASE ReporterReads
  <2>1. /\ reporter' = (IF \E j \in Job : yields[j] THEN LocalBusy ELSE -1)
        /\ UNCHANGED <<pool, at, yields, known, knownBy>>
    BY <1>5 DEF ReporterReads, poolVars
  <2>2. LocalBusy' = LocalBusy /\ Kicking' = Kicking
    BY <2>1 DEF LocalBusy, Kicking
  <2> QED
    BY <1>1, <2>1, <2>2 DEF ReportInv
<1>6. CASE ReporterSends
  <2>1. /\ reporter # -1 /\ known' = reporter /\ reporter' = -1
        /\ UNCHANGED <<pool, at, yields, kick>>
    BY <1>6 DEF ReporterSends, poolVars
  <2>2. LocalBusy' = LocalBusy /\ Kicking' = Kicking
    BY <2>1 DEF LocalBusy, Kicking
  <2> QED
    BY <2>1, <2>2 DEF ReportInv
<1> QED
  BY <1>2, <1>3, <1>4, <1>5, <1>6, LocalKeepsReports, JobKeepsReports DEF LoadNext

(* When the local load differs from what the reporting goroutine last told the
   router, a report of it, or the kick for one, is on its way: dropping a wake-up
   while one is pending loses nothing (kickLocal and reportLocal of conn.go). *)
THEOREM LoadReports == LoadSpec => []LoadReportRepaired
<1>1. LoadInit => PoolInv
  BY LoadPoolInit
<1>2. PoolInv /\ [LoadNext]_allLoadVars => PoolInv'
  BY LoadKeepsPool DEF SlotStep
<1>3. LoadInit => ReportInv
  <2> SUFFICES ASSUME LoadInit PROVE ReportInv
    OBVIOUS
  <2>1. PICK n \in Capacities : pool = [EmptyPool EXCEPT !.capacity = n, !.ready = TRUE]
    BY DEF LoadInit
  <2>2. LocalBusy = 0
    BY <2>1 DEF LocalBusy, EmptyPool
  <2>3. yields \in [Job -> BOOLEAN] /\ reporter = -1 /\ known = 0
    BY DEF LoadInit
  <2> QED
    BY <2>2, <2>3 DEF ReportInv
<1>4. PoolInv /\ ReportInv /\ [LoadNext]_allLoadVars => ReportInv'
  BY LoadKeepsReports
<1>5. ReportInv => LoadReportRepaired
  BY DEF ReportInv, Kicking, LoadReportRepaired
<1> QED
  BY <1>1, <1>2, <1>3, <1>4, <1>5, PTL DEF LoadSpec

-----------------------------------------------------------------------------
(* The models a client offers.                                             *)

\* The breaker has withdrawn model m and the watcher will be told, or was.
Announced(m) == token \/ \E r \in Req : req[r] = <<"tell", m>>

\* What the last registration offered, and what the next one will offer so far.
TripInv ==
    /\ breaker \in [Model -> [failures : Int, cooldown : Int, open : BOOLEAN, active : Int]]
    /\ DOMAIN req = Req
    /\ link = "up" /\ prober.pc = "idle" => \A m \in offered : breaker[m].open => Announced(m)
    /\ prober.pc # "idle" => \A m \in prober.next : breaker[m].open => Announced(m)
    /\ offered \subseteq Model
    /\ prober \in [pc : {"idle", "probe", "judge"}, todo : SUBSET Model,
                   at : SUBSET Model, next : SUBSET Model]

(* A step that opens no breaker without announcing it and takes no announcement
   back keeps the invariant, if it leaves the offers alone. *)
LEMMA QuietKeepsTrips ==
  ASSUME TripInv, UNCHANGED <<link, prober, offered>>, DOMAIN req' = Req,
         breaker' \in [Model -> [failures : Int, cooldown : Int, open : BOOLEAN, active : Int]],
         \A m \in Model : /\ Announced(m) => Announced(m)'
                          /\ breaker'[m].open => breaker[m].open \/ Announced(m)'
  PROVE  TripInv'
BY DEF TripInv

(* A request that trips a breaker announces it before anything else can undo its
   going (worker.Handle, Breaker.Failure, Conn.Recheck). *)
LEMMA RequestKeepsTrips ==
  ASSUME TripInv, NEW r \in Req, NEW m \in Model,
         HealthStart(r, m) \/ Succeeds(r, m) \/ SaysNothing(r, m) \/ Fails(r, m) \/ Recheck(r, m)
  PROVE  TripInv'
<1> DEFINE Rows == [failures : Int, cooldown : Int, open : BOOLEAN, active : Int]
<1>1. breaker \in [Model -> Rows] /\ breaker[m] \in Rows /\ DOMAIN req = Req
  BY DEF TripInv
<1>2. UNCHANGED <<link, prober, offered>> /\ (token => token') /\ DOMAIN req' = Req
  BY <1>1 DEF HealthStart, Succeeds, SaysNothing, Fails, Recheck
<1>3. \E row \in Rows : breaker' = [breaker EXCEPT ![m] = row]
                        /\ (row.open => breaker[m].open \/ (Fails(r, m) /\ Trips(breaker[m])))
  <2>1. \A row \in Rows : /\ [row EXCEPT !.active = @ - 1] \in Rows
                          /\ [row EXCEPT !.active = @ - 1].open = row.open
                          /\ [row EXCEPT !.active = @ + 1] \in Rows
                          /\ [row EXCEPT !.active = @ + 1].open = row.open
    OBVIOUS
  <2>2. CASE HealthStart(r, m)
    <3>1. breaker' = [breaker EXCEPT ![m] = [breaker[m] EXCEPT !.active = @ + 1]]
      BY <1>1, <2>2 DEF HealthStart
    <3> QED
      BY <1>1, <2>1, <3>1
  <2>3. CASE SaysNothing(r, m) \/ Recheck(r, m)
    <3>1. breaker' = [breaker EXCEPT ![m] = [breaker[m] EXCEPT !.active = @ - 1]]
      BY <1>1, <2>3 DEF SaysNothing, Recheck, HealthDone
    <3> QED
      BY <1>1, <2>1, <3>1
  <2>4. CASE Succeeds(r, m)
    <3>1. Succeeded(breaker[m]) \in Rows /\ ~Succeeded(breaker[m]).open
      <4> DEFINE zero == 0
                 no == FALSE
                 new == [breaker[m] EXCEPT !.failures = zero, !.open = no, !.cooldown = zero]
      <4>1. zero \in Int /\ no \in BOOLEAN /\ ~no
        OBVIOUS
      <4>2. Succeeded(breaker[m]) = new
        BY DEF Succeeded
      <4> HIDE DEF zero, no
      <4>3. new \in Rows /\ new.open = no
        BY <1>1, <4>1
      <4> QED
        BY <4>1, <4>2, <4>3
    <3>2. breaker' = [breaker EXCEPT ![m] = [Succeeded(breaker[m]) EXCEPT !.active = @ - 1]]
      BY <2>4 DEF Succeeds, HealthDone
    <3> QED
      BY <2>1, <3>1, <3>2
  <2>5. CASE Fails(r, m)
    <3>1. Failed(breaker[m]) \in Rows /\ (Failed(breaker[m]).open => breaker[m].open \/ Trips(breaker[m]))
      <4>1. MaxFailures \in Int /\ MaxCooldown \in Int
        BY HealthAssumption DEF MaxFailures
      <4>2. breaker[m].failures \in Int /\ breaker[m].cooldown \in Int /\ breaker[m].open \in BOOLEAN
        BY <1>1
      <4>3. Lesser(breaker[m].failures + 1, MaxFailures) \in Int
        BY <4>1, <4>2 DEF Lesser
      <4>4. Longer(breaker[m].cooldown) \in Int
        BY <4>1, <4>2 DEF Lesser, Longer
      <4>5. (breaker[m].open \/ Trips(breaker[m])) \in BOOLEAN
        OBVIOUS
      <4> DEFINE f == Lesser(breaker[m].failures + 1, MaxFailures)
                 d == IF Trips(breaker[m]) THEN Longer(breaker[m].cooldown) ELSE breaker[m].cooldown
                 o == breaker[m].open \/ Trips(breaker[m])
      <4>6. f \in Int /\ d \in Int /\ o \in BOOLEAN
        BY <4>2, <4>3, <4>4, <4>5
      <4>7. Failed(breaker[m]) = [breaker[m] EXCEPT !.failures = f, !.cooldown = d, !.open = o]
        BY <1>1 DEF Failed
      <4>8. o => breaker[m].open \/ Trips(breaker[m])
        OBVIOUS
      <4> HIDE DEF f, d, o
      <4>9. /\ [breaker[m] EXCEPT !.failures = f, !.cooldown = d, !.open = o] \in Rows
            /\ [breaker[m] EXCEPT !.failures = f, !.cooldown = d, !.open = o].open = o
        BY <1>1, <4>6
      <4> QED
        BY <4>7, <4>8, <4>9
    <3>2. \/ breaker' = [breaker EXCEPT ![m] = Failed(breaker[m])]
          \/ breaker' = [breaker EXCEPT ![m] = [Failed(breaker[m]) EXCEPT !.active = @ - 1]]
      BY <2>5 DEF Fails, HealthDone
    <3> HIDE DEF Rows
    <3> QED
      BY <2>1, <2>5, <3>1, <3>2
  <2> QED
    BY <2>2, <2>3, <2>4, <2>5
<1>4. \A x \in Model : Announced(x) => Announced(x)'
  <2>1. \A x \in Model, s \in Req : req[s] = <<"tell", x>> => req'[s] = <<"tell", x>> \/ token'
    BY <1>1 DEF HealthStart, Succeeds, SaysNothing, Fails, Recheck, NoRequest
  <2> QED
    BY <1>2, <2>1 DEF Announced
<1>5. Fails(r, m) /\ Trips(breaker[m]) => Announced(m)'
  BY <1>1 DEF Fails, Announced
<1>6. breaker' \in [Model -> Rows] /\ \A x \in Model : breaker'[x].open => breaker[x].open \/ Announced(x)'
  BY <1>1, <1>3, <1>5
<1> QED
  BY <1>2, <1>4, <1>6, QuietKeepsTrips

(* The watcher takes the token only to look at every breaker, and keeps out the
   models whose breaker is open when it looks (watchModels, Models). *)
LEMMA HealthKeepsTrips ==
  ASSUME TripInv, [HealthNext]_healthVars
  PROVE  TripInv'
<1> DEFINE Rows == [failures : Int, cooldown : Int, open : BOOLEAN, active : Int]
<1>1. breaker \in [Model -> Rows] /\ DOMAIN req = Req
      /\ offered \subseteq Model
      /\ prober \in [pc : {"idle", "probe", "judge"}, todo : SUBSET Model,
                     at : SUBSET Model, next : SUBSET Model]
  BY DEF TripInv
<1>2. CASE UNCHANGED healthVars
  BY <1>2 DEF healthVars, TripInv, Announced
<1>3. ASSUME NEW m \in Model, CooldownElapses(m) \/ BackendChanges(m) PROVE TripInv'
  <2>1. UNCHANGED <<link, prober, offered, req, token>>
        /\ (breaker' = breaker \/ breaker' = [breaker EXCEPT ![m].open = FALSE])
    BY <1>3 DEF CooldownElapses, BackendChanges
  <2>2. breaker' \in [Model -> Rows] /\ \A x \in Model : breaker'[x].open => breaker[x].open
    <3>1. CASE breaker' = breaker
      BY <1>1, <3>1
    <3>2. CASE breaker' = [breaker EXCEPT ![m].open = FALSE]
      <4> DEFINE row == [breaker[m] EXCEPT !.open = FALSE]
      <4>1. breaker[m] \in Rows /\ row \in Rows /\ ~row.open
        BY <1>1
      <4>2. breaker' = [breaker EXCEPT ![m] = row]
        BY <3>2
      <4> HIDE DEF row, Rows
      <4>3. \A x \in Model : breaker'[x] = IF x = m THEN row ELSE breaker[x]
        BY <1>1, <4>2
      <4> QED
        BY <1>1, <4>1, <4>2, <4>3
    <3> QED
      BY <2>1, <3>1, <3>2
  <2> QED
    BY <1>1, <2>1, <2>2, QuietKeepsTrips DEF Announced
<1>4. ASSUME NEW m \in Model, Probes(m) PROVE TripInv'
  <2>1. /\ prober.pc = "probe" /\ UNCHANGED <<breaker, req, token, link, offered>>
        /\ \/ prober' = [prober EXCEPT !.pc = "judge", !.todo = @ \ {m}, !.at = {m}]
           \/ prober' = [prober EXCEPT !.todo = @ \ {m}]
    <3>1. ProbeReady(m) \/ ProbeNameless(m) \/ ProbeMissed(m)
      BY <1>4 DEF Probes
    <3> QED
      BY <3>1 DEF ProbeReady, ProbeNameless, ProbeMissed
  <2>2. /\ prober'.pc # "idle" /\ prober'.next = prober.next
        /\ prober' \in [pc : {"idle", "probe", "judge"}, todo : SUBSET Model,
                        at : SUBSET Model, next : SUBSET Model]
    <3> DEFINE todo == prober.todo \ {m}
               looked == {m}
    <3>1. todo \subseteq Model /\ looked \subseteq Model
      BY <1>1
    <3>2. \/ prober' = [prober EXCEPT !.pc = "judge", !.todo = todo, !.at = looked]
          \/ prober' = [prober EXCEPT !.todo = todo]
      BY <2>1
    <3> HIDE DEF todo, looked
    <3>3. CASE prober' = [prober EXCEPT !.pc = "judge", !.todo = todo, !.at = looked]
      BY <1>1, <3>1, <3>3
    <3>4. CASE prober' = [prober EXCEPT !.todo = todo]
      BY <1>1, <2>1, <3>1, <3>4
    <3> QED
      BY <3>2, <3>3, <3>4
  <2> QED
    BY <1>1, <2>1, <2>2 DEF TripInv, Announced
<1>5. CASE ProbeJudged
  <2>1. /\ prober.pc = "judge" /\ prober'.pc = "probe"
        /\ prober'.next = prober.next \cup {m \in prober.at : ~breaker[m].open}
        /\ prober' \in [pc : {"idle", "probe", "judge"}, todo : SUBSET Model,
                        at : SUBSET Model, next : SUBSET Model]
        /\ UNCHANGED <<breaker, req, token, link, offered>>
    <3>1. /\ prober.pc = "judge" /\ UNCHANGED <<breaker, req, token, link, offered>>
          /\ prober' = [prober EXCEPT !.pc = "probe", !.at = {},
                          !.next = prober.next \cup {m \in prober.at : ~breaker[m].open}]
      BY <1>5 DEF ProbeJudged
    <3> DEFINE more == prober.next \cup {m \in prober.at : ~breaker[m].open}
    <3>2. more \subseteq Model
      BY <1>1
    <3>3. prober' = [prober EXCEPT !.pc = "probe", !.at = {}, !.next = more]
      BY <3>1
    <3> HIDE DEF more
    <3>4. /\ prober'.pc = "probe" /\ prober'.next = more
          /\ prober' \in [pc : {"idle", "probe", "judge"}, todo : SUBSET Model,
                          at : SUBSET Model, next : SUBSET Model]
      BY <1>1, <3>2, <3>3
    <3> QED
      BY <3>1, <3>4 DEF more
  <2> QED
    BY <1>1, <2>1 DEF TripInv, Announced
<1>6. CASE ProbeRegisters
  BY <1>1, <1>6 DEF ProbeRegisters, NotProbing, TripInv, Announced
<1>7. CASE LinkDials \/ WatcherWakes \/ WatcherTicks
  BY <1>1, <1>7 DEF LinkDials, WatcherWakes, WatcherTicks, Probing, TripInv, Announced
<1>8. CASE LinkDrops
  BY <1>1, <1>8 DEF LinkDrops, NotProbing, TripInv, Announced
<1> QED
  BY <1>2, <1>3, <1>4, <1>5, <1>6, <1>7, <1>8, RequestKeepsTrips DEF HealthNext

(* A model withdrawn by the breaker does not go on being offered until the next
   tick: while the watcher sleeps, a token is pending or about to be put, however
   failures, probes and reconnects fall (Conn.Recheck, watchModels). *)
THEOREM HealthTripAnnounced == HealthSpec => []TripAnnounced
<1>1. HealthInit => TripInv
  BY DEF HealthInit, TripInv, NotProbing
<1>2. TripInv /\ [HealthNext]_healthVars => TripInv'
  BY HealthKeepsTrips
<1>3. TripInv => TripAnnounced
  BY DEF TripInv, Announced, TripAnnounced
<1> QED
  BY <1>1, <1>2, <1>3, PTL DEF HealthSpec

-----------------------------------------------------------------------------
(* The breaker's law, and the types of the models' state.                  *)

Doubling(f, N) == f = [n \in 0 .. N |-> IF n = 0 THEN 1 ELSE 2 * f[n - 1]]

(* The powers of two exist up to any number ... *)
LEMMA DoublingExists ==
  ASSUME NEW N \in Nat
  PROVE  \E f : Doubling(f, N)
<1> DEFINE Bad == {n \in Nat : ~ \E f : Doubling(f, n)}
<1>1. SUFFICES ASSUME Bad # {} PROVE FALSE
  OBVIOUS
<1>2. PICK m \in Bad : \A k \in Bad : m <= k
  BY <1>1, FirstOf
<1>3. CASE m = 0
  <2>1. Doubling([n \in 0 .. 0 |-> 1], 0)
    BY DEF Doubling
  <2> QED
    BY <1>2, <1>3, <2>1
<1>4. CASE m # 0
  <2>1. m - 1 \in Nat /\ m - 1 \notin Bad /\ m \in Nat
    BY <1>2, <1>4
  <2>2. PICK f : Doubling(f, m - 1)
    BY <2>1
  <2> DEFINE g == [n \in 0 .. m |-> IF n = m THEN 2 * f[m - 1] ELSE f[n]]
  <2>3. \A n \in 0 .. m : n # 0 => n - 1 \in 0 .. (m - 1) /\ g[n - 1] = f[n - 1]
    BY <2>1
  <2>4. \A n \in 0 .. m : g[n] = IF n = 0 THEN 1 ELSE 2 * g[n - 1]
    <3> TAKE n \in 0 .. m
    <3>1. CASE n = m
      BY <1>4, <2>1, <2>3, <3>1
    <3>2. CASE n # m
      <4>1. n \in 0 .. (m - 1)
        BY <2>1, <3>2
      <4>2. f[n] = IF n = 0 THEN 1 ELSE 2 * f[n - 1]
        BY <2>2, <4>1 DEF Doubling
      <4> QED
        BY <2>3, <3>2, <4>2
    <3> QED
      BY <3>1, <3>2
  <2>5. g = [n \in 0 .. m |-> g[n]]
    OBVIOUS
  <2> HIDE DEF g
  <2>6. Doubling(g, m)
    BY <2>4, <2>5 DEF Doubling
  <2> QED
    BY <1>2, <2>6
<1> QED
  BY <1>3, <1>4

(* ... and each is larger than its exponent, so that MaxFailures counts far
   enough for the longest withdrawal. *)
LEMMA DoublingsGrow ==
  /\ Doublings[0] = 1
  /\ \A n \in 0 .. MaxCooldown : Doublings[n] \in Nat /\ Doublings[n] > n
  /\ \A n \in 0 .. MaxCooldown : n # 0 => Doublings[n] = 2 * Doublings[n - 1]
<1>1. MaxCooldown \in Nat
  BY HealthAssumption
<1>2. Doubling(Doublings, MaxCooldown)
  <2>1. \E f : f = [n \in 0 .. MaxCooldown |-> IF n = 0 THEN 1 ELSE 2 * f[n - 1]]
    BY <1>1, DoublingExists DEF Doubling
  <2> QED
    BY <2>1, Zenon DEF Doublings, Doubling
<1>3. \A n \in 0 .. MaxCooldown : Doublings[n] = IF n = 0 THEN 1 ELSE 2 * Doublings[n - 1]
  BY <1>2 DEF Doubling
<1> DEFINE Bad == {n \in 0 .. MaxCooldown : ~(Doublings[n] \in Nat /\ Doublings[n] > n)}
<1>4. Bad = {}
  <2>1. SUFFICES ASSUME Bad # {} PROVE FALSE
    OBVIOUS
  <2>2. Bad \in SUBSET Nat
    OBVIOUS
  <2>3. PICK m \in Bad : \A k \in Bad : m <= k
    <3> HIDE DEF Bad
    <3> QED
      BY <2>1, <2>2, FirstOf
  <2>4. m \in 0 .. MaxCooldown /\ ~(Doublings[m] \in Nat /\ Doublings[m] > m)
    OBVIOUS
  <2>5. m # 0
    BY <1>1, <1>3, <2>4
  <2>6. m - 1 \in 0 .. MaxCooldown /\ m - 1 \notin Bad
    BY <1>1, <2>3, <2>4, <2>5
  <2>7. Doublings[m - 1] \in Nat /\ Doublings[m - 1] > m - 1
    BY <2>6
  <2>8. Doublings[m] = 2 * Doublings[m - 1]
    BY <1>3, <2>4, <2>5
  <2> QED
    BY <2>4, <2>5, <2>7, <2>8
<1>5. 0 \in 0 .. MaxCooldown
  BY <1>1
<1> QED
  BY <1>3, <1>4, <1>5

\* The withdrawal after n failures in a row.
Withdrawal(n) == IF n < TripAfter THEN 0 ELSE Lesser(Doublings[n - TripAfter], MaxCooldown)

(* A failure moves a breaker that obeys the law to the next withdrawal, and one
   more failure than are counted changes nothing (Breaker.Failure). *)
LEMMA FailureObeys ==
  ASSUME NEW s, s.failures \in 0 .. MaxFailures, s.cooldown = Withdrawal(s.failures)
  PROVE  (IF Trips(s) THEN Longer(s.cooldown) ELSE s.cooldown)
            = Withdrawal(Lesser(s.failures + 1, MaxFailures))
         /\ Lesser(s.failures + 1, MaxFailures) \in 0 .. MaxFailures
         /\ Withdrawal(Lesser(s.failures + 1, MaxFailures)) \in Nat
<1> DEFINE f == s.failures
           next == Lesser(f + 1, MaxFailures)
<1>1. /\ TripAfter \in Nat /\ TripAfter > 0 /\ MaxCooldown \in Nat /\ MaxCooldown > 0
      /\ f \in Nat /\ MaxFailures = TripAfter + MaxCooldown /\ f <= MaxFailures
  BY HealthAssumption DEF MaxFailures
<1>2. next = (IF f < MaxFailures THEN f + 1 ELSE MaxFailures) /\ next \in 0 .. MaxFailures
  BY <1>1 DEF Lesser
<1> HIDE DEF next
<1>3. CASE f < TripAfter
  <2>1. s.cooldown = 0 /\ f < MaxFailures /\ next = f + 1
    BY <1>1, <1>2, <1>3 DEF Withdrawal
  <2>2. CASE f + 1 < TripAfter
    <3>1. ~Trips(s)
      BY <1>1, <2>1, <2>2 DEF Trips
    <3>2. Withdrawal(next) = 0
      BY <2>1, <2>2 DEF Withdrawal
    <3> QED
      BY <1>2, <2>1, <3>1, <3>2 DEF next
  <2>3. CASE f + 1 = TripAfter
    <3>1. next - TripAfter = 0 /\ ~(next < TripAfter) /\ Trips(s)
      BY <1>1, <2>1, <2>3 DEF Trips
    <3>2. Withdrawal(next) = Lesser(1, MaxCooldown)
      BY <3>1, DoublingsGrow DEF Withdrawal
    <3>3. Lesser(1, MaxCooldown) = 1
      BY <1>1 DEF Lesser
    <3>4. Longer(s.cooldown) = 1
      BY <2>1 DEF Longer
    <3>5. Withdrawal(next) = 1
      BY <3>2, <3>3
    <3> QED
      BY <1>2, <3>1, <3>4, <3>5 DEF next
  <2> QED
    BY <1>1, <1>3, <2>2, <2>3
<1>4. CASE ~(f < TripAfter)
  <2>1. PICK n \in 0 .. MaxCooldown : n = f - TripAfter
    BY <1>1, <1>4
  <2>2. PICK d \in Nat : d = Doublings[n] /\ d > n
    BY <2>1, DoublingsGrow
  <2>3. s.cooldown = (IF d < MaxCooldown THEN d ELSE MaxCooldown) /\ s.cooldown \in Nat /\ s.cooldown > 0
    BY <1>1, <1>4, <2>1, <2>2 DEF Withdrawal, Lesser
  <2>4. Trips(s)
    BY <2>3 DEF Trips
  <2>5. CASE n < MaxCooldown
    <3>1. n + 1 \in 0 .. MaxCooldown /\ n + 1 # 0 /\ (n + 1) - 1 = n
      BY <1>1, <2>1, <2>5
    <3>2. Doublings[n + 1] = 2 * d
      BY <2>2, <3>1, DoublingsGrow
    <3>3. next - TripAfter = n + 1 /\ ~(next < TripAfter)
      BY <1>1, <1>2, <1>4, <2>1, <2>5
    <3>4. Withdrawal(next) = IF 2 * d < MaxCooldown THEN 2 * d ELSE MaxCooldown
      BY <3>2, <3>3 DEF Withdrawal, Lesser
    <3>5. Longer(s.cooldown) = IF 2 * d < MaxCooldown THEN 2 * d ELSE MaxCooldown
      BY <1>1, <2>2, <2>3 DEF Longer, Lesser
    <3> QED
      BY <1>1, <1>2, <2>2, <2>4, <3>4, <3>5 DEF next
  <2>6. CASE n = MaxCooldown
    <3>1. next = f /\ s.cooldown = MaxCooldown
      BY <1>1, <1>2, <2>1, <2>2, <2>3, <2>6
    <3>2. Longer(s.cooldown) = MaxCooldown
      BY <1>1, <3>1 DEF Longer
    <3>3. Withdrawal(next) = MaxCooldown
      BY <3>1
    <3> QED
      BY <1>1, <1>2, <2>4, <3>1, <3>2, <3>3 DEF next
  <2> QED
    BY <1>1, <2>1, <2>5, <2>6
<1> QED
  BY <1>3, <1>4

\* The requests that run on model m, or are about to tell that it was withdrawn.
Uses(m) == Standing(req, Req, {<<"run", m>>, <<"tell", m>>})

HealthInv == HealthTypeOK /\ \A m \in Model : breaker[m].active = Cardinality(Uses(m))

Rows == [failures : 0 .. MaxFailures, cooldown : Nat, open : BOOLEAN, active : 0 .. Cardinality(Req)]
Lawful(s) == s.cooldown = Withdrawal(s.failures)

(* A step that touches the breaker of one model, counts the requests on it and
   leaves it lawful keeps the invariant. *)
LEMMA BreakerStep ==
  ASSUME HealthInv, NEW m \in Model, NEW r \in Req, NEW row, NEW next,
         row.failures \in 0 .. MaxFailures, row.cooldown \in Nat, row.open \in BOOLEAN, Lawful(row),
         row = [failures |-> row.failures, cooldown |-> row.cooldown, open |-> row.open,
                active |-> row.active],
         next \in {NoRequest, <<"run", m>>, <<"tell", m>>},
         req[r] \in {NoRequest, <<"run", m>>, <<"tell", m>>},
         row.active = breaker[m].active + (IF next = NoRequest THEN 0 ELSE 1)
                                        - (IF req[r] = NoRequest THEN 0 ELSE 1),
         breaker' = [breaker EXCEPT ![m] = row], req' = [req EXCEPT ![r] = next],
         UNCHANGED <<backend, alive, link, prober, offered>>, token' \in BOOLEAN
  PROVE  HealthInv'
<1>1. /\ breaker \in [Model -> Rows] /\ req \in [Req -> {NoRequest} \cup ({"run", "tell"} \X Model)]
      /\ \A p \in Model : Lawful(breaker[p]) /\ breaker[p].active = Cardinality(Uses(p))
  BY DEF HealthInv, HealthTypeOK, CooldownLaw, Rows, Lawful, Withdrawal
<1>2. /\ IsFiniteSet(Req) /\ Cardinality(Req) \in Nat
  BY HealthAssumption, FS_CardinalityType
<1>3. /\ req' \in [Req -> {NoRequest} \cup ({"run", "tell"} \X Model)] /\ req'[r] = next
      /\ \A q \in Req \ {r} : req'[q] = req[q]
  BY <1>1
<1>4. /\ NoRequest # <<"run", m>> /\ NoRequest # <<"tell", m>>
  BY DEF NoRequest
<1>5. \A p \in Model : /\ Cardinality(Uses(p)) \in Nat
                       /\ Cardinality(Uses(p)') \in Nat /\ Cardinality(Uses(p)') <= Cardinality(Req)
  <2>1. \A p \in Model : Uses(p) \subseteq Req /\ Uses(p)' \subseteq Req
    BY DEF Uses, Standing
  <2> QED
    BY <1>2, <2>1, FS_Subset, FS_CardinalityType
<1>6. row.active = Cardinality(Uses(m)')
  <2> DEFINE S == {<<"run", m>>, <<"tell", m>>}
  <2>1. /\ Cardinality(Standing(req, Req, S)) \in Nat
        /\ req[r] \notin S /\ req'[r] \in S =>
             Cardinality(Standing(req', Req, S)) = Cardinality(Standing(req, Req, S)) + 1
        /\ req[r] \in S /\ req'[r] \notin S =>
             Cardinality(Standing(req', Req, S)) = Cardinality(Standing(req, Req, S)) - 1
        /\ (req[r] \in S <=> req'[r] \in S) => Standing(req', Req, S) = Standing(req, Req, S)
    <3>1. PICK w, v : w = req /\ v = req'
      OBVIOUS
    <3>2. \A h \in Req \ {r} : w[h] \in S <=> v[h] \in S
      BY <1>3, <3>1
    <3> HIDE DEF S
    <3>3. /\ Cardinality(Standing(w, Req, S)) \in Nat
          /\ w[r] \notin S /\ v[r] \in S =>
               Cardinality(Standing(v, Req, S)) = Cardinality(Standing(w, Req, S)) + 1
          /\ w[r] \in S /\ v[r] \notin S =>
               Cardinality(Standing(v, Req, S)) = Cardinality(Standing(w, Req, S)) - 1
          /\ (w[r] \in S <=> v[r] \in S) => Standing(v, Req, S) = Standing(w, Req, S)
      BY <1>2, <3>2, OneMoves
    <3> QED
      BY <3>1, <3>3
  <2>2. (req[r] \in S <=> req[r] # NoRequest) /\ (req'[r] \in S <=> next # NoRequest)
    BY <1>3, <1>4
  <2>3. Uses(m) = Standing(req, Req, S) /\ Uses(m)' = Standing(req', Req, S)
    BY DEF Uses
  <2>4. breaker[m].active = Cardinality(Standing(req, Req, S))
    BY <1>1, <2>3
  <2> HIDE DEF S
  <2>5. row.active = Cardinality(Standing(req', Req, S))
    <3>1. CASE next = NoRequest /\ req[r] = NoRequest
      BY <2>1, <2>2, <2>4, <3>1
    <3>2. CASE next = NoRequest /\ req[r] # NoRequest
      BY <2>1, <2>2, <2>4, <3>2
    <3>3. CASE next # NoRequest /\ req[r] = NoRequest
      BY <2>1, <2>2, <2>4, <3>3
    <3>4. CASE next # NoRequest /\ req[r] # NoRequest
      BY <2>1, <2>2, <2>4, <3>4
    <3> QED
      BY <3>1, <3>2, <3>3, <3>4
  <2> QED
    BY <2>3, <2>5
<1>7. \A p \in Model \ {m} : Uses(p)' = Uses(p)
  <2>1. \A p \in Model \ {m} : next \notin {<<"run", p>>, <<"tell", p>>}
                             /\ req[r] \notin {<<"run", p>>, <<"tell", p>>}
    BY DEF NoRequest
  <2> QED
    BY <1>3, <2>1 DEF Uses, Standing
<1>8. row \in Rows
  BY <1>2, <1>5, <1>6 DEF Rows
<1>9. /\ breaker' \in [Model -> Rows] /\ breaker'[m] = row
      /\ \A p \in Model \ {m} : breaker'[p] = breaker[p]
  BY <1>1, <1>8
<1>10. \A p \in Model : Lawful(breaker'[p]) /\ breaker'[p].active = Cardinality(Uses(p)')
  BY <1>1, <1>6, <1>7, <1>9
<1> QED
  BY <1>3, <1>9, <1>10 DEF HealthInv, HealthTypeOK, CooldownLaw, Rows, Lawful, Withdrawal

(* A request starts and ends on a model (worker.Handle, Breaker.Success,
   Breaker.Failure, Conn.Recheck). *)
LEMMA RequestKeepsHealth ==
  ASSUME HealthInv, NEW r \in Req, NEW m \in Model,
         HealthStart(r, m) \/ Succeeds(r, m) \/ SaysNothing(r, m) \/ Fails(r, m) \/ Recheck(r, m)
  PROVE  HealthInv'
<1> DEFINE s == breaker[m]
<1>1. /\ s \in Rows /\ Lawful(s) /\ token \in BOOLEAN
      /\ s = [failures |-> s.failures, cooldown |-> s.cooldown, open |-> s.open, active |-> s.active]
      /\ s.failures \in 0 .. MaxFailures /\ s.cooldown \in Nat /\ s.open \in BOOLEAN /\ s.active \in Int
  BY HealthAssumption, FS_CardinalityType DEF HealthInv, HealthTypeOK, CooldownLaw, Rows, Lawful, Withdrawal
<1>2. <<"run", m>> # NoRequest /\ <<"tell", m>> # NoRequest
  BY DEF NoRequest
<1>3. 0 \in 0 .. MaxFailures /\ Withdrawal(0) = 0
  BY HealthAssumption DEF MaxFailures, Withdrawal
<1>4. CASE HealthStart(r, m)
  <2>1. PICK row : row = [s EXCEPT !.active = @ + 1]
    OBVIOUS
  <2>2. /\ row = [failures |-> s.failures, cooldown |-> s.cooldown, open |-> s.open, active |-> s.active + 1]
    BY <1>1, <2>1 DEF Rows
  <2>3. breaker' = [breaker EXCEPT ![m] = row]
    BY <1>4, <2>1 DEF HealthStart
  <2>4. /\ row.failures = s.failures /\ row.cooldown = s.cooldown /\ row.open = s.open /\ row.active = s.active + 1
    BY <2>2
  <2>5. row = [failures |-> row.failures, cooldown |-> row.cooldown, open |-> row.open, active |-> row.active]
    BY <2>2, <2>4
  <2>6. /\ row.failures \in 0 .. MaxFailures /\ row.cooldown \in Nat /\ row.open \in BOOLEAN /\ Lawful(row)
    BY <1>1, <1>4, <2>4 DEF Lawful
  <2>7. PICK next : next = <<"run", m>>
    OBVIOUS
  <2>8. /\ next \in {NoRequest, <<"run", m>>, <<"tell", m>>} /\ req[r] \in {NoRequest, <<"run", m>>, <<"tell", m>>}
        /\ row.active = breaker[m].active + (IF next = NoRequest THEN 0 ELSE 1)
                                          - (IF req[r] = NoRequest THEN 0 ELSE 1)
    BY <1>1, <1>2, <1>4, <2>4, <2>7 DEF HealthStart
  <2>9. /\ req' = [req EXCEPT ![r] = next] /\ UNCHANGED <<backend, alive, link, prober, offered>> /\ token' \in BOOLEAN
    BY <1>1, <1>4, <2>7 DEF HealthStart
  <2> QED
    BY <2>3, <2>5, <2>6, <2>8, <2>9, BreakerStep
<1>5. ASSUME NEW row0,
             row0.failures \in 0 .. MaxFailures, row0.cooldown \in Nat, row0.open \in BOOLEAN, Lawful(row0),
             row0 = [failures |-> row0.failures, cooldown |-> row0.cooldown, open |-> row0.open, active |-> s.active],
             req[r] \in {<<"run", m>>, <<"tell", m>>},
             breaker' = HealthDone(m, row0), req' = [req EXCEPT ![r] = NoRequest],
             UNCHANGED <<backend, alive, link, prober, offered>>, token' \in BOOLEAN
      PROVE  HealthInv'
  <2>1. PICK row : row = [row0 EXCEPT !.active = @ - 1]
    OBVIOUS
  <2>2. row = [failures |-> row0.failures, cooldown |-> row0.cooldown, open |-> row0.open, active |-> s.active - 1]
    BY <1>5, <2>1
  <2>3. breaker' = [breaker EXCEPT ![m] = row]
    BY <1>5, <2>1 DEF HealthDone
  <2>4. row.failures = row0.failures /\ row.cooldown = row0.cooldown /\ row.open = row0.open /\ row.active = s.active - 1
    BY <2>2
  <2>5. row = [failures |-> row.failures, cooldown |-> row.cooldown, open |-> row.open, active |-> row.active]
    BY <2>2, <2>4
  <2>6. /\ row.failures \in 0 .. MaxFailures /\ row.cooldown \in Nat /\ row.open \in BOOLEAN /\ Lawful(row)
    BY <1>1, <1>5, <2>4 DEF Lawful
  <2>7. PICK next : next = NoRequest
    OBVIOUS
  <2>8. /\ next \in {NoRequest, <<"run", m>>, <<"tell", m>>} /\ req[r] \in {NoRequest, <<"run", m>>, <<"tell", m>>}
        /\ row.active = breaker[m].active + (IF next = NoRequest THEN 0 ELSE 1)
                                          - (IF req[r] = NoRequest THEN 0 ELSE 1)
    BY <1>1, <1>2, <1>5, <2>4, <2>7 DEF HealthStart
  <2>9. /\ req' = [req EXCEPT ![r] = next] /\ UNCHANGED <<backend, alive, link, prober, offered>> /\ token' \in BOOLEAN
    BY <1>1, <1>5, <2>7 DEF HealthStart
  <2> QED
    BY <2>3, <2>5, <2>6, <2>8, <2>9, BreakerStep
<1>6. CASE Succeeds(r, m)
  <2>1. PICK row0 : row0 = Succeeded(s)
    OBVIOUS
  <2>2. row0 = [failures |-> 0, cooldown |-> 0, open |-> FALSE, active |-> s.active]
    BY <1>1, <2>1 DEF Succeeded, Rows
  <2>3. row0.failures = 0 /\ row0.cooldown = 0 /\ row0.open = FALSE /\ row0.active = s.active
    BY <2>2
  <2>4. Lawful(row0)
    BY <1>3, <2>3 DEF Lawful
  <2> QED
    BY <1>1, <1>3, <1>5, <1>6, <2>1, <2>2, <2>3, <2>4 DEF Succeeds
<1>7. CASE SaysNothing(r, m)
  BY <1>1, <1>5, <1>7 DEF SaysNothing
<1>8. CASE Recheck(r, m)
  BY <1>1, <1>5, <1>8 DEF Recheck
<1>9. CASE Fails(r, m)
  <2>1. PICK row0 : row0 = Failed(s)
    OBVIOUS
  <2>2. row0 = [failures |-> Lesser(s.failures + 1, MaxFailures),
                cooldown |-> IF Trips(s) THEN Longer(s.cooldown) ELSE s.cooldown,
                open |-> s.open \/ Trips(s), active |-> s.active]
    BY <1>1, <2>1 DEF Failed, Rows
  <2>3. /\ row0.failures = Lesser(s.failures + 1, MaxFailures)
        /\ row0.cooldown = (IF Trips(s) THEN Longer(s.cooldown) ELSE s.cooldown)
        /\ row0.open = (s.open \/ Trips(s)) /\ row0.active = s.active
    BY <2>2
  <2>4. /\ row0.failures \in 0 .. MaxFailures /\ row0.cooldown \in Nat /\ Lawful(row0)
    BY <1>1, <2>3, FailureObeys DEF Lawful
  <2>5. row0.open \in BOOLEAN
    BY <1>1, <2>3, Zenon DEF Trips
  <2>6. row0 = [failures |-> row0.failures, cooldown |-> row0.cooldown, open |-> row0.open, active |-> s.active]
    BY <2>2, <2>3
  <2>7. CASE Trips(s)
    <3>1. breaker' = [breaker EXCEPT ![m] = row0] /\ req' = [req EXCEPT ![r] = <<"tell", m>>]
      BY <1>9, <2>1, <2>7 DEF Fails
    <3>2. PICK next : next = <<"tell", m>>
      OBVIOUS
    <3>3. /\ next \in {NoRequest, <<"run", m>>, <<"tell", m>>} /\ req[r] \in {NoRequest, <<"run", m>>, <<"tell", m>>}
          /\ row0.active = breaker[m].active + (IF next = NoRequest THEN 0 ELSE 1)
                                             - (IF req[r] = NoRequest THEN 0 ELSE 1)
      BY <1>1, <1>2, <1>9, <2>3, <3>2 DEF Fails
    <3>4. /\ req' = [req EXCEPT ![r] = next] /\ UNCHANGED <<backend, alive, link, prober, offered>> /\ token' \in BOOLEAN
      BY <1>1, <1>9, <3>1, <3>2 DEF Fails
    <3>5. row0 = [failures |-> row0.failures, cooldown |-> row0.cooldown, open |-> row0.open, active |-> row0.active]
      BY <2>3, <2>6
    <3> QED
      BY <2>4, <2>5, <3>1, <3>3, <3>4, <3>5, BreakerStep
  <2>8. CASE ~Trips(s)
    <3>1. breaker' = HealthDone(m, row0) /\ req' = [req EXCEPT ![r] = NoRequest]
      BY <1>9, <2>1, <2>8 DEF Fails
    <3> QED
      BY <1>1, <1>5, <1>9, <2>4, <2>5, <2>6, <3>1 DEF Fails
  <2> QED
    BY <2>7, <2>8
<1> QED
  BY <1>4, <1>6, <1>7, <1>8, <1>9

(* The cooldown runs out; nothing else moves a breaker (Breaker.Available). *)
LEMMA ElapseKeepsHealth ==
  ASSUME HealthInv, NEW m \in Model, CooldownElapses(m)
  PROVE  HealthInv'
<1>1. breaker \in [Model -> Rows] /\ breaker[m] \in Rows /\ UNCHANGED req
  BY DEF HealthInv, HealthTypeOK, Rows, CooldownElapses
<1>2. PICK row : row = [breaker[m] EXCEPT !.open = FALSE]
  OBVIOUS
<1>3. breaker' = [breaker EXCEPT ![m] = row]
  BY <1>2 DEF CooldownElapses
<1>4. /\ row \in Rows /\ row.failures = breaker[m].failures /\ row.cooldown = breaker[m].cooldown
      /\ row.active = breaker[m].active
  BY <1>1, <1>2 DEF Rows
<1>5. /\ breaker' \in [Model -> Rows]
      /\ \A p \in Model : /\ breaker'[p].failures = breaker[p].failures
                          /\ breaker'[p].cooldown = breaker[p].cooldown
                          /\ breaker'[p].active = breaker[p].active
  BY <1>1, <1>3, <1>4
<1>6. \A p \in Model : Uses(p)' = Uses(p)
  BY <1>1 DEF Uses
<1> QED
  BY <1>1, <1>5, <1>6 DEF HealthInv, HealthTypeOK, CooldownLaw, CooldownElapses, Rows

(* What does not move a breaker or a request leaves the law alone. *)
LEMMA OthersKeepHealth ==
  ASSUME HealthInv, UNCHANGED <<breaker, req>>,
         backend' \in [Model -> [failures : 0 .. DownAfter, last : BOOLEAN]],
         alive' \in [Model -> BOOLEAN], token' \in BOOLEAN, link' \in {"down", "up"},
         prober' \in [pc : {"idle", "probe", "judge"}, todo : SUBSET Model,
                      at : SUBSET Model, next : SUBSET Model],
         offered' \subseteq Model
  PROVE  HealthInv'
<1>1. \A p \in Model : Uses(p)' = Uses(p)
  BY DEF Uses
<1> QED
  BY <1>1 DEF HealthInv, HealthTypeOK, CooldownLaw

(* The health checks, the connection and its watcher (Models, probe, watchModels). *)
LEMMA WatchingKeepsHealth ==
  ASSUME HealthInv,
         \/ \E m \in Model : BackendChanges(m) \/ Probes(m)
         \/ LinkDials \/ LinkDrops \/ WatcherWakes \/ WatcherTicks \/ ProbeJudged \/ ProbeRegisters
  PROVE  HealthInv'
<1> DEFINE Probers == [pc : {"idle", "probe", "judge"}, todo : SUBSET Model,
                       at : SUBSET Model, next : SUBSET Model]
           Backends == [failures : 0 .. DownAfter, last : BOOLEAN]
<1>1. /\ backend \in [Model -> Backends] /\ alive \in [Model -> BOOLEAN] /\ token \in BOOLEAN
      /\ link \in {"down", "up"} /\ prober \in Probers /\ offered \subseteq Model
  BY DEF HealthInv, HealthTypeOK
<1>2. Probing \in Probers /\ NotProbing \in Probers
  BY DEF Probing, NotProbing
<1>3. ASSUME NEW m \in Model, BackendChanges(m) PROVE HealthInv'
  <2>1. alive' \in [Model -> BOOLEAN]
    BY <1>1, <1>3 DEF BackendChanges
  <2> QED
    BY <1>1, <1>3, <2>1, OthersKeepHealth DEF BackendChanges
<1>4. ASSUME NEW m \in Model, Probes(m) PROVE HealthInv'
  <2>1. DownAfter \in Nat /\ DownAfter > 0 /\ backend[m] \in Backends
    BY <1>1, HealthAssumption
  <2>2. /\ 0 \in 0 .. DownAfter /\ Lesser(backend[m].failures + 1, DownAfter) \in 0 .. DownAfter
    BY <2>1 DEF Lesser
  <2>3. \A row \in Backends : [backend EXCEPT ![m] = row] \in [Model -> Backends]
    BY <1>1
  <2>4. \A b \in BOOLEAN : [failures |-> 0, last |-> b] \in Backends
                           /\ [failures |-> Lesser(backend[m].failures + 1, DownAfter), last |-> b] \in Backends
    BY <2>2
  <2>5. /\ [prober EXCEPT !.pc = "judge", !.todo = @ \ {m}, !.at = {m}] \in Probers
        /\ [prober EXCEPT !.todo = @ \ {m}] \in Probers
    BY <1>1
  <2> HIDE DEF Probers, Backends
  <2>6. CASE ProbeReady(m)
    <3>1. backend' \in [Model -> Backends]
      BY <2>3, <2>4, <2>6 DEF ProbeReady
    <3> QED
      BY <1>1, <2>5, <2>6, <3>1, OthersKeepHealth DEF ProbeReady, Probers, Backends
  <2>7. CASE ProbeNameless(m)
    <3>1. backend' \in [Model -> Backends]
      BY <2>3, <2>4, <2>7 DEF ProbeNameless
    <3> QED
      BY <1>1, <2>5, <2>7, <3>1, OthersKeepHealth DEF ProbeNameless, Probers, Backends
  <2>8. CASE ProbeMissed(m)
    <3> DEFINE busy == backend[m].last /\ breaker[m].active > 0
               keep == busy \/ (backend[m].last /\ backend[m].failures + 1 < DownAfter)
    <3>1. keep \in BOOLEAN
      OBVIOUS
    <3>2. /\ backend' = IF busy THEN backend
                        ELSE [backend EXCEPT ![m] = [failures |-> Lesser(backend[m].failures + 1, DownAfter),
                                                     last |-> keep]]
          /\ prober' = IF keep THEN [prober EXCEPT !.pc = "judge", !.todo = @ \ {m}, !.at = {m}]
                       ELSE [prober EXCEPT !.todo = @ \ {m}]
          /\ UNCHANGED <<breaker, alive, req, token, link, offered>>
      BY <2>8 DEF ProbeMissed
    <3> HIDE DEF keep, busy
    <3>3. backend' \in [Model -> Backends] /\ prober' \in Probers
      BY <1>1, <2>3, <2>4, <2>5, <3>1, <3>2
    <3> QED
      BY <1>1, <3>2, <3>3, OthersKeepHealth DEF Probers, Backends
  <2> QED
    BY <1>4, <2>6, <2>7, <2>8 DEF Probes
<1>5. CASE LinkDials \/ WatcherTicks \/ WatcherWakes
  BY <1>1, <1>2, <1>5, OthersKeepHealth DEF LinkDials, WatcherTicks, WatcherWakes
<1>6. CASE LinkDrops
  BY <1>1, <1>2, <1>6, OthersKeepHealth DEF LinkDrops
<1>7. CASE ProbeJudged
  <2>1. prober' \in Probers
    BY <1>1, <1>7 DEF ProbeJudged
  <2> QED
    BY <1>1, <1>7, <2>1, OthersKeepHealth DEF ProbeJudged
<1>8. CASE ProbeRegisters
  <2>1. prober.next \subseteq Model
    BY <1>1
  <2> QED
    BY <1>1, <1>2, <1>8, <2>1, OthersKeepHealth DEF ProbeRegisters
<1> QED
  BY <1>3, <1>4, <1>5, <1>6, <1>7, <1>8

(* Every step of requests, breaker and watcher keeps HealthInv. *)
LEMMA HealthKeepsTypes == HealthInv /\ [HealthNext]_healthVars => HealthInv'
<1> SUFFICES ASSUME HealthInv, [HealthNext]_healthVars PROVE HealthInv'
  OBVIOUS
<1>1. CASE HealthNext
  BY <1>1, RequestKeepsHealth, ElapseKeepsHealth, WatchingKeepsHealth DEF HealthNext
<1>2. CASE UNCHANGED healthVars
  <2>1. \A p \in Model : Uses(p)' = Uses(p)
    BY <1>2 DEF Uses, healthVars
  <2> QED
    BY <1>2, <2>1 DEF HealthInv, HealthTypeOK, CooldownLaw, healthVars
<1> QED
  BY <1>1, <1>2

(* It holds while no request has run and no model has failed. *)
LEMMA HealthStarts == HealthInit => HealthInv
<1> SUFFICES ASSUME HealthInit PROVE HealthInv
  OBVIOUS
<1>1. \A m \in Model : Uses(m) = {}
  BY DEF HealthInit, Uses, Standing, NoRequest
<1>2. Cardinality({}) = 0 /\ Cardinality(Req) \in Nat
  BY HealthAssumption, FS_EmptySet, FS_CardinalityType
<1>3. 0 \in 0 .. MaxFailures /\ 0 \in 0 .. DownAfter /\ 0 \in 0 .. Cardinality(Req) /\ 0 < TripAfter
  BY <1>2, HealthAssumption DEF MaxFailures
<1>4. \A m \in Model : breaker[m] = [failures |-> 0, cooldown |-> 0, open |-> FALSE, active |-> 0]
  BY DEF HealthInit
<1>5. CooldownLaw
  BY <1>3, <1>4 DEF CooldownLaw
<1>6. \A m \in Model : breaker[m].active = Cardinality(Uses(m))
  BY <1>1, <1>2, <1>4
<1>7. breaker \in [Model -> [failures : 0 .. MaxFailures, cooldown : Nat, open : BOOLEAN,
                             active : 0 .. Cardinality(Req)]]
  BY <1>3 DEF HealthInit
<1>8. backend \in [Model -> [failures : 0 .. DownAfter, last : BOOLEAN]]
  BY <1>3 DEF HealthInit
<1> QED
  BY <1>5, <1>6, <1>7, <1>8 DEF HealthInv, HealthTypeOK, HealthInit, NotProbing

-----------------------------------------------------------------------------
(* What the messages carry.                                                *)

Messages == [has : SUBSET Output, done : BOOLEAN, error : BOOLEAN]

(* A message more: what was sent before it stays where it was. *)
LEMMA AppendTyped ==
  ASSUME NEW S, NEW s \in Seq(S), NEW m \in S
  PROVE  /\ Append(s, m) \in Seq(S) /\ Append(s, m) # s /\ Len(Append(s, m)) = Len(s) + 1
         /\ \A i \in DOMAIN s : Append(s, m)[i] = s[i]
         /\ \A i \in DOMAIN Append(s, m) : i \in DOMAIN s \/ Append(s, m)[i] = m
<1>1. Len(Append(s, m)) = Len(s) + 1 /\ Len(s) \in Nat /\ Append(s, m) \in Seq(S)
  OBVIOUS
<1>2. Append(s, m) # s
  BY <1>1
<1> QED
  BY <1>1, <1>2

(* Before anything is read nothing is owed. *)
LEMMA CarryNothing == Carry(<<>>, <<>>, 0)
<1>1. {i \in 1 .. 0 : <<>>[i] \cap Output # {}} = {}
  OBVIOUS
<1>2. {k \in DOMAIN <<>> : <<>>[k].has # {}} = {}
  OBVIOUS
<1>3. [x \in {} |-> 0] \in [{} -> {}]
  OBVIOUS
<1> QED
  BY <1>1, <1>2, <1>3 DEF Carry

(* A message without output, an error or a bare end, adds nothing. *)
LEMMA CarryEmpty ==
  ASSUME NEW to \in Seq(Messages), NEW from, NEW n \in Nat, Carry(to, from, n),
         NEW m \in Messages, m.has = {}
  PROVE  Carry(Append(to, m), from, n)
<1> DEFINE content == {i \in 1 .. n : from[i] \cap Output # {}}
           passed  == {k \in DOMAIN to : to[k].has # {}}
           longer  == {k \in DOMAIN Append(to, m) : Append(to, m)[k].has # {}}
<1>1. PICK f \in [content -> passed] :
          /\ \A i, j \in content : i < j => f[i] < f[j]
          /\ \A k \in passed : \E i \in content : f[i] = k
          /\ \A i \in content : to[f[i]].has = from[i] \cap Output
  BY DEF Carry
<1>2. longer = passed /\ \A k \in passed : Append(to, m)[k] = to[k]
  OBVIOUS
<1>3. /\ f \in [content -> longer]
      /\ \A k \in longer : \E i \in content : f[i] = k
  BY <1>1, <1>2
<1>4. \A i \in content : Append(to, m)[f[i]].has = from[i] \cap Output
  <2>1. ASSUME NEW i \in content PROVE Append(to, m)[f[i]].has = from[i] \cap Output
    <3>1. f[i] \in passed
      BY <1>1
    <3> QED
      BY <1>1, <1>2, <3>1
  <2> QED
    BY <2>1
<1> QED
  BY <1>1, <1>3, <1>4 DEF Carry

(* So does a line without output that is read. *)
LEMMA CarryQuiet ==
  ASSUME NEW to \in Seq(Messages), NEW from, NEW n \in Nat, Carry(to, from, n),
         from[n + 1] \cap Output = {}
  PROVE  Carry(to, from, n + 1)
<1> DEFINE content == {i \in 1 .. n : from[i] \cap Output # {}}
           content1 == {i \in 1 .. n + 1 : from[i] \cap Output # {}}
           passed == {k \in DOMAIN to : to[k].has # {}}
           Maps(f, C) == /\ \A i, j \in C : i < j => f[i] < f[j]
                         /\ \A k \in passed : \E i \in C : f[i] = k
                         /\ \A i \in C : to[f[i]].has = from[i] \cap Output
<1>1. content1 = content
  OBVIOUS
<1>2. \E f \in [content -> passed] : Maps(f, content)
  BY DEF Carry
<1>3. \E f \in [content1 -> passed] : Maps(f, content1)
  <2> HIDE DEF content, content1, Maps
  <2> QED
    BY <1>1, <1>2
<1> QED
  BY <1>3 DEF Carry

(* A line's output goes out in a message of its own. *)
LEMMA CarryLine ==
  ASSUME NEW to \in Seq(Messages), NEW from, NEW n \in Nat, Carry(to, from, n),
         NEW m \in Messages, m.has = from[n + 1] \cap Output, m.has # {}
  PROVE  Carry(Append(to, m), from, n + 1)
<1> DEFINE content == {i \in 1 .. n : from[i] \cap Output # {}}
           passed  == {k \in DOMAIN to : to[k].has # {}}
           content1 == {i \in 1 .. n + 1 : from[i] \cap Output # {}}
           longer  == {k \in DOMAIN Append(to, m) : Append(to, m)[k].has # {}}
<1>1. PICK f \in [content -> passed] :
          /\ \A i, j \in content : i < j => f[i] < f[j]
          /\ \A k \in passed : \E i \in content : f[i] = k
          /\ \A i \in content : to[f[i]].has = from[i] \cap Output
  BY DEF Carry
<1>2. content1 = content \cup {n + 1} /\ n + 1 \notin content /\ \A i \in content : i \in Nat /\ i < n + 1
  OBVIOUS
<1>3. /\ longer = passed \cup {Len(to) + 1}
      /\ \A k \in passed : Append(to, m)[k] = to[k] /\ k \in Nat /\ k < Len(to) + 1
      /\ Append(to, m)[Len(to) + 1] = m
  OBVIOUS
<1> DEFINE g == [i \in content1 |-> IF i = n + 1 THEN Len(to) + 1 ELSE f[i]]
<1>4. g[n + 1] = Len(to) + 1 /\ \A i \in content : g[i] = f[i]
  BY <1>2
<1>5. g \in [content1 -> longer]
  BY <1>1, <1>2, <1>3
<1> HIDE DEF g
<1>6. \A i, j \in content1 : i < j => g[i] < g[j]
  <2>1. ASSUME NEW i \in content1, NEW j \in content1, i < j PROVE g[i] < g[j]
    <3>1. i # n + 1
      BY <2>1
    <3>2. i \in content
      BY <3>1, <1>2
    <3>3. CASE j = n + 1
      BY <1>1, <1>3, <1>4, <3>2, <3>3, SMTT(30)
    <3>4. CASE j \in content
      BY <1>1, <1>4, <3>2, <3>4, <2>1
    <3> QED
      BY <3>3, <3>4, <1>2
  <2> QED
    BY <2>1
<1>7. \A k \in longer : \E i \in content1 : g[i] = k
  <2>1. ASSUME NEW k \in passed PROVE \E i \in content1 : g[i] = k
    <3>1. PICK i \in content : f[i] = k
      BY <1>1
    <3> QED
      BY <3>1, <1>2, <1>4
  <2>2. \E i \in content1 : g[i] = Len(to) + 1
    BY <1>2, <1>4
  <2> QED
    BY <2>1, <2>2, <1>3
<1>8. \A i \in content1 : Append(to, m)[g[i]].has = from[i] \cap Output
  <2>1. ASSUME NEW i \in content PROVE Append(to, m)[g[i]].has = from[i] \cap Output
    <3>1. f[i] \in passed /\ g[i] = f[i]
      BY <1>1, <1>4
    <3>2. Append(to, m)[f[i]] = to[f[i]]
      BY <1>3, <3>1
    <3>3. Append(to, m)[g[i]].has = to[f[i]].has
      BY <3>1, <3>2
    <3>4. to[f[i]].has = from[i] \cap Output
      BY <1>1
    <3> QED
      BY <3>3, <3>4
  <2> QED
    BY <2>1, <1>2, <1>3, <1>4
<1> QED
  BY <1>5, <1>6, <1>7, <1>8 DEF Carry

(* What has been read of an answer does not change when more of it arrives. *)
LEMMA CarryWhenMore ==
  ASSUME NEW to, NEW S, NEW from \in Seq(S), NEW line \in S, NEW n \in 0 .. Len(from),
         Carry(to, from, n)
  PROVE  Carry(to, Append(from, line), n)
<1> DEFINE content == {i \in 1 .. n : from[i] \cap Output # {}}
           passed  == {k \in DOMAIN to : to[k].has # {}}
           content1 == {i \in 1 .. n : Append(from, line)[i] \cap Output # {}}
<1>1. PICK f \in [content -> passed] :
          /\ \A i, j \in content : i < j => f[i] < f[j]
          /\ \A k \in passed : \E i \in content : f[i] = k
          /\ \A i \in content : to[f[i]].has = from[i] \cap Output
  BY DEF Carry
<1>2. \A i \in 1 .. n : Append(from, line)[i] = from[i]
  OBVIOUS
<1>3. content1 = content
  BY <1>2
<1>4. \A i \in content : to[f[i]].has = Append(from, line)[i] \cap Output
  BY <1>1, <1>2
<1>5. /\ f \in [content1 -> passed]
      /\ \A i, j \in content1 : i < j => f[i] < f[j]
      /\ \A k \in passed : \E i \in content1 : f[i] = k
      /\ \A i \in content1 : to[f[i]].has = Append(from, line)[i] \cap Output
  BY <1>1, <1>3, <1>4
<1> QED
  BY <1>5 DEF Carry

-----------------------------------------------------------------------------
(* The invariant.                                                          *)

LinesInv == \A i \in DOMAIN said : "end" \in said[i] => i = Len(said)

ScanInv ==
  /\ task.via = "llamacpp" => reading.taken <= lines.scanned
  /\ task.via # "llamacpp" => lines.scanned = 0
  /\ lines.closed /\ over = "no" => /\ lines.scanned = Len(said) /\ peer \in {"eof", "cut"}
                                    /\ lines.err <=> peer = "cut"

ReadInv ==
  /\ reading.pc \in {"read", "drain"} => task.stream
  /\ reading.pc = "drain" => Ended /\ reading.taken = Len(said)

DoneInv ==
  task.stream /\ (\E i \in DOMAIN sent : sent[i].done) =>
    /\ reading.taken = Len(said)
    /\ Ended \/ (peer = "eof" /\ reading.finish)

CarryInv == task.stream /\ task.via # "anthropic" => Carry(sent, said, reading.taken)

StreamInv == StreamTypeOK /\ LinesInv /\ ScanInv /\ ReadInv /\ DoneInv /\ CarryInv

(* The fields of the reader's record, and how a step changes them. *)
Readings == [pc : {"wait", "read", "drain", "returned"}, taken : Nat,
             finish : BOOLEAN, first : BOOLEAN, tool : BOOLEAN, done : BOOLEAN]

(* The types the stream proof uses, one by one. *)
LEMMA StreamTyped ==
  ASSUME StreamTypeOK
  PROVE  /\ said \in Seq(LinesOf[task.via]) /\ sent \in Seq(Messages)
         /\ task.via \in Kinds /\ task.stream \in BOOLEAN
         /\ task.via \in {"llamacpp", "openai", "anthropic", "command"}
         /\ Len(said) \in Nat /\ reading.taken \in 0 .. Len(said) /\ lines.scanned \in 0 .. Len(said)
         /\ lines.closed \in BOOLEAN /\ lines.err \in BOOLEAN
         /\ lines = [scanned |-> lines.scanned, closed |-> lines.closed, err |-> lines.err]
         /\ reading \in Readings /\ watch \in Int /\ HealthFailures \in Nat /\ MaxLines \in Nat
         /\ LineBuffer \in Nat
<1>1. reading.taken \in 0 .. Len(said) /\ Len(said) \in Nat
  BY DEF StreamTypeOK
<1>2. reading \in Readings
  BY <1>1 DEF StreamTypeOK, Readings
<1>3. /\ task.via \in Kinds /\ task.stream \in BOOLEAN
      /\ task.via \in {"llamacpp", "openai", "anthropic", "command"}
  BY StreamAssumption DEF StreamTypeOK
<1>4. /\ lines.scanned \in 0 .. Len(said) /\ lines.closed \in BOOLEAN /\ lines.err \in BOOLEAN
      /\ lines = [scanned |-> lines.scanned, closed |-> lines.closed, err |-> lines.err]
  BY DEF StreamTypeOK
<1>5. watch \in Int /\ HealthFailures \in Nat /\ MaxLines \in Nat /\ LineBuffer \in Nat
  BY StreamAssumption DEF StreamTypeOK
<1> QED
  BY <1>1, <1>2, <1>3, <1>4, <1>5 DEF StreamTypeOK, Messages

(* A step that neither reads nor sends: health checks, ends of contexts, and the
   server's end or hang. *)
LEMMA OthersKeep ==
  ASSUME StreamInv, UNCHANGED <<task, said, lines, reading, sent>>,
         peer' \in {"up", "hung", "eof", "cut"}, peer' = peer \/ peer = "up",
         over' \in {"no", "hung", "cancelled"}, over' = over \/ over' # "no",
         watch' \in -1 .. HealthFailures
  PROVE  StreamInv'
<1>1. StreamTypeOK'
  BY DEF StreamInv, StreamTypeOK
<1>2. LinesInv' /\ ReadInv' /\ CarryInv'
  BY DEF StreamInv, LinesInv, ReadInv, CarryInv, Ended
<1>3. ScanInv'
  BY DEF StreamInv, ScanInv
<1>4. DoneInv'
  BY DEF StreamInv, DoneInv, Ended
<1> QED
  BY <1>1, <1>2, <1>3, <1>4 DEF StreamInv

(* The server sends a line (external): the answer has not ended and is not closed. *)
LEMMA SaysKeeps ==
  ASSUME StreamInv, NEW line \in LinesOf[task.via], Says(line)
  PROVE  StreamInv'
<1>1. StreamTypeOK
  BY DEF StreamInv
<1>2. /\ said \in Seq(LinesOf[task.via]) /\ Len(said) \in Nat /\ MaxLines \in Nat
      /\ reading.taken \in 0 .. Len(said) /\ lines.scanned \in 0 .. Len(said)
  BY <1>1, StreamTyped
<1>3. /\ said' = Append(said, line) /\ Len(said') = Len(said) + 1
      /\ said' \in Seq(LinesOf[task.via])
      /\ \A i \in DOMAIN said : said'[i] = said[i] /\ i \in DOMAIN said'
      /\ \A i \in DOMAIN said' : i \in DOMAIN said \/ i = Len(said) + 1
  BY <1>2 DEF Says
<1>4. /\ ~Ended /\ peer = "up" /\ reading.pc = "read" /\ Len(said) < MaxLines
      /\ UNCHANGED <<task, peer, lines, reading, watch, over, sent>>
  BY DEF Says
<1>5. StreamTypeOK'
  <2>1. said' \in Seq(LinesOf[task'.via]) /\ Len(said') <= MaxLines
    BY <1>2, <1>3, <1>4
  <2>2. /\ lines' \in [scanned : 0 .. Len(said'), closed : BOOLEAN, err : BOOLEAN]
        /\ reading' \in [pc : {"wait", "read", "drain", "returned"}, taken : 0 .. Len(said'),
                         finish : BOOLEAN, first : BOOLEAN, tool : BOOLEAN, done : BOOLEAN]
    <3>1. 0 .. Len(said) \subseteq 0 .. Len(said')
      BY <1>2, <1>3
    <3> QED
      BY <1>1, <1>4, <3>1 DEF StreamTypeOK
  <2> QED
    BY <1>1, <1>4, <2>1, <2>2 DEF StreamTypeOK
<1>6. LinesInv'
  BY <1>3, <1>4 DEF LinesInv, Ended
<1>7. ScanInv' /\ ReadInv'
  BY <1>4 DEF StreamInv, ScanInv, ReadInv
<1>8. DoneInv'
  BY <1>4 DEF StreamInv, DoneInv
<1>9. CarryInv'
  BY <1>2, <1>3, <1>4, CarryWhenMore DEF StreamInv, CarryInv
<1> QED
  BY <1>5, <1>6, <1>7, <1>8, <1>9 DEF StreamInv

(* The scanner of readStream hands over a line. *)
LEMMA ScansKeeps ==
  ASSUME StreamInv, Scans
  PROVE  StreamInv'
<1>1. StreamTypeOK
  BY DEF StreamInv
<1>2. /\ lines = [scanned |-> lines.scanned, closed |-> lines.closed, err |-> lines.err]
      /\ lines.scanned \in 0 .. Len(said) /\ Len(said) \in Nat /\ LineBuffer \in Nat
      /\ reading.taken \in 0 .. Len(said) /\ lines.closed \in BOOLEAN /\ lines.err \in BOOLEAN
  BY <1>1, StreamTyped
<1>3. /\ ~lines.closed /\ lines.scanned < Len(said) /\ lines.scanned - reading.taken < LineBuffer
      /\ lines'.scanned = lines.scanned + 1 /\ lines'.closed = lines.closed /\ lines'.err = lines.err
      /\ lines' = [scanned |-> lines.scanned + 1, closed |-> lines.closed, err |-> lines.err]
      /\ task.via = "llamacpp" /\ UNCHANGED <<task, peer, said, reading, watch, over, sent>>
  BY <1>2 DEF Scans
<1>4. /\ lines' \in [scanned : 0 .. Len(said), closed : BOOLEAN, err : BOOLEAN]
      /\ lines'.scanned - reading.taken <= LineBuffer
  BY <1>2, <1>3
<1>5. StreamTypeOK'
  BY <1>1, <1>3, <1>4 DEF StreamTypeOK
<1>6. LinesInv' /\ ReadInv' /\ CarryInv' /\ DoneInv'
  BY <1>3 DEF StreamInv, LinesInv, ReadInv, CarryInv, DoneInv, Ended
<1>7. ScanInv'
  BY <1>2, <1>3 DEF StreamInv, ScanInv
<1> QED
  BY <1>5, <1>6, <1>7 DEF StreamInv

(* The scanner stops, at the end of the body or with the context. *)
LEMMA ScanStopsKeeps ==
  ASSUME StreamInv, ScanStops
  PROVE  StreamInv'
<1>1. StreamTypeOK
  BY DEF StreamInv
<1>2. /\ lines = [scanned |-> lines.scanned, closed |-> lines.closed, err |-> lines.err]
      /\ lines.scanned \in 0 .. Len(said) /\ lines.closed \in BOOLEAN /\ lines.err \in BOOLEAN
  BY <1>1, StreamTyped
<1>3. /\ lines' = [scanned |-> lines.scanned, closed |-> TRUE, err |-> (over = "no" /\ peer = "cut")]
      /\ lines'.scanned = lines.scanned /\ lines'.err = (over = "no" /\ peer = "cut")
      /\ over # "no" \/ (lines.scanned = Len(said) /\ peer \in {"eof", "cut"})
      /\ task.via = "llamacpp" /\ UNCHANGED <<task, peer, said, reading, watch, over, sent>>
  BY <1>2 DEF ScanStops
<1>4. lines' \in [scanned : 0 .. Len(said), closed : BOOLEAN, err : BOOLEAN]
  BY <1>2, <1>3
<1>5. StreamTypeOK'
  BY <1>1, <1>3, <1>4 DEF StreamTypeOK
<1>6. LinesInv' /\ ReadInv' /\ CarryInv' /\ DoneInv'
  BY <1>3 DEF StreamInv, LinesInv, ReadInv, CarryInv, DoneInv, Ended
<1>7. ScanInv'
  BY <1>2, <1>3 DEF StreamInv, ScanInv
<1> QED
  BY <1>5, <1>6, <1>7 DEF StreamInv

(* An end of the worker's call, with an error to report or without one. *)
LEMMA ReturnKeeps ==
  ASSUME StreamInv, NEW failed \in BOOLEAN, Returns(failed),
         UNCHANGED <<task, peer, said, lines, watch>>,
         over' \in {"no", "hung", "cancelled"}, over' = over \/ over' # "no"
  PROVE  StreamInv'
<1>1. StreamTypeOK
  BY DEF StreamInv
<1>2. reading \in Readings /\ sent \in Seq(Messages) /\ reading.taken \in 0 .. Len(said)
      /\ task.stream \in BOOLEAN
  BY <1>1, StreamTyped
<1>3. reading' = [reading EXCEPT !.pc = "returned"]
  BY DEF Returns
<1>4. /\ reading'.pc = "returned" /\ reading'.taken = reading.taken
      /\ reading'.finish = reading.finish /\ reading'.done = reading.done
  BY <1>2, <1>3 DEF Readings
<1>5. reading' \in [pc : {"wait", "read", "drain", "returned"}, taken : 0 .. Len(said),
                    finish : BOOLEAN, first : BOOLEAN, tool : BOOLEAN, done : BOOLEAN]
  BY <1>1, <1>3 DEF StreamTypeOK
<1>6. PICK m \in Messages : /\ m.has = {} /\ ~m.done
                            /\ sent' = sent \/ sent' = Append(sent, m)
  <2>1. Message({}, FALSE, TRUE) \in Messages
    BY DEF Message, Messages
  <2>2. Message({}, FALSE, TRUE).has = {} /\ ~Message({}, FALSE, TRUE).done
    BY DEF Message
  <2> QED
    BY <2>1, <2>2 DEF Returns
<1>7. sent' \in Seq(Messages) /\ ((\E i \in DOMAIN sent' : sent'[i].done) => \E i \in DOMAIN sent : sent[i].done)
  BY <1>2, <1>6
<1>8. StreamTypeOK'
  BY <1>1, <1>4, <1>5, <1>7 DEF StreamTypeOK, Messages
<1>9. LinesInv' /\ ScanInv' /\ ReadInv'
  BY <1>4 DEF StreamInv, LinesInv, ScanInv, ReadInv
<1>10. DoneInv'
  BY <1>4, <1>7 DEF StreamInv, DoneInv, Ended
<1>11. CarryInv'
  <2>1. ASSUME Carry(sent, said, reading.taken) PROVE Carry(sent', said, reading.taken)
    <3>1. reading.taken \in Nat
      BY <1>2
    <3>2. Carry(Append(sent, m), said, reading.taken)
      BY <2>1, <3>1, <1>2, <1>6, CarryEmpty
    <3> QED
      BY <2>1, <3>2, <1>6
  <2> QED
    BY <2>1, <1>4 DEF StreamInv, CarryInv
<1> QED
  BY <1>8, <1>9, <1>10, <1>11 DEF StreamInv

(* An answer that ends cleanly after a finish reason is closed with an end of the
   reader's own (LlamaEOF, ShimEnds). *)
LEMMA CleanEndKeeps ==
  ASSUME StreamInv, UNCHANGED <<task, peer, said, lines, watch, over>>,
         peer = "eof", reading.finish, reading.taken = Len(said),
         reading' = [reading EXCEPT !.pc = "returned", !.done = TRUE], Send({}, TRUE)
  PROVE  StreamInv'
<1>1. StreamTypeOK
  BY DEF StreamInv
<1>2. reading \in Readings /\ sent \in Seq(Messages) /\ reading.taken \in Nat
  BY <1>1, StreamTyped DEF Readings
<1>3. /\ reading'.pc = "returned" /\ reading'.taken = reading.taken
      /\ reading'.finish = reading.finish
  BY <1>2 DEF Readings
<1>4. reading' \in [pc : {"wait", "read", "drain", "returned"}, taken : 0 .. Len(said),
                    finish : BOOLEAN, first : BOOLEAN, tool : BOOLEAN, done : BOOLEAN]
  BY <1>1 DEF StreamTypeOK
<1>5. Message({}, TRUE, FALSE) \in Messages /\ Message({}, TRUE, FALSE).has = {}
      /\ sent' = Append(sent, Message({}, TRUE, FALSE))
  BY DEF Message, Messages, Send
<1>6. sent' \in Seq(Messages)
  BY <1>2, <1>5, AppendTyped
<1>7. StreamTypeOK'
  BY <1>1, <1>3, <1>4, <1>6 DEF StreamTypeOK, Messages
<1>8. LinesInv' /\ ScanInv' /\ ReadInv' /\ DoneInv'
  BY <1>3 DEF StreamInv, LinesInv, ScanInv, ReadInv, DoneInv, Ended
<1>9. CarryInv'
  BY <1>2, <1>3, <1>5, CarryEmpty DEF StreamInv, CarryInv
<1> QED
  BY <1>7, <1>8, <1>9 DEF StreamInv

(* The first moves: the server responds, or a whole reply has come. *)
LEMMA StartKeeps ==
  ASSUME StreamInv, Responds \/ BatchReply
  PROVE  StreamInv'
<1>1. StreamTypeOK
  BY DEF StreamInv
<1>2. reading \in Readings /\ sent \in Seq(Messages) /\ reading.taken \in Nat
  BY <1>1, StreamTyped DEF Readings
<1>3. CASE Responds
  <2>1. /\ task.stream /\ UNCHANGED <<task, peer, said, lines, watch, over, sent>>
        /\ reading' = [reading EXCEPT !.pc = "read"]
    BY <1>3 DEF Responds
  <2>2. /\ reading'.pc = "read" /\ reading'.taken = reading.taken /\ reading'.finish = reading.finish
    BY <1>2, <2>1 DEF Readings
  <2>3. reading' \in [pc : {"wait", "read", "drain", "returned"}, taken : 0 .. Len(said),
                      finish : BOOLEAN, first : BOOLEAN, tool : BOOLEAN, done : BOOLEAN]
    BY <1>1, <2>1 DEF StreamTypeOK
  <2>4. StreamTypeOK'
    BY <1>1, <2>1, <2>2, <2>3 DEF StreamTypeOK
  <2> QED
    BY <2>1, <2>2, <2>4 DEF StreamInv, LinesInv, ScanInv, ReadInv, DoneInv, CarryInv, Ended
<1>4. CASE BatchReply
  <2>1. /\ ~task.stream /\ UNCHANGED <<task, peer, said, lines, watch, over>>
        /\ reading' = [reading EXCEPT !.pc = "returned", !.done = TRUE]
        /\ sent' = Append(sent, Message({"text"}, TRUE, FALSE))
    BY <1>4 DEF BatchReply, AwaitsReply
  <2>2. reading'.pc = "returned" /\ reading'.taken = reading.taken
    BY <1>2, <2>1 DEF Readings
  <2>3. reading' \in [pc : {"wait", "read", "drain", "returned"}, taken : 0 .. Len(said),
                      finish : BOOLEAN, first : BOOLEAN, tool : BOOLEAN, done : BOOLEAN]
    BY <1>1, <2>1 DEF StreamTypeOK
  <2>4. Message({"text"}, TRUE, FALSE) \in Messages
    BY DEF Message, Messages, Output
  <2>5. sent' \in Seq(Messages)
    BY <1>2, <2>1, <2>4, AppendTyped
  <2>6. StreamTypeOK'
    BY <1>1, <2>1, <2>2, <2>3, <2>5 DEF StreamTypeOK, Messages
  <2> QED
    BY <2>1, <2>2, <2>6 DEF StreamInv, LinesInv, ScanInv, ReadInv, DoneInv, CarryInv
<1> QED
  BY <1>3, <1>4

\* The reader takes the next line and keeps what it must know of it.
TakesLine ==
  /\ reading' \in [pc : {"read", "drain"}, taken : {reading.taken + 1},
                   finish : BOOLEAN, first : BOOLEAN, tool : BOOLEAN, done : BOOLEAN]
  /\ UNCHANGED <<task, peer, said, lines, watch, over>>

(* What a line does to the messages: nothing, or one more with its output. *)
LEMMA LineKeeps ==
  ASSUME StreamInv, TakesLine, reading.pc = "read", reading.taken < Len(said),
         task.via = "llamacpp" => reading.taken < lines.scanned,
         NEW line, line = said[reading.taken + 1],
         NEW m \in Messages, sent' = sent \/ sent' = Append(sent, m),
         reading'.pc = "drain" => "end" \in line,
         m.done => "end" \in line,
         task.via # "anthropic" /\ sent' = sent => line \cap Output = {},
         task.via # "anthropic" /\ sent' # sent => m.has = line \cap Output
  PROVE  StreamInv'
<1>1. StreamTypeOK
  BY DEF StreamInv
<1>2. /\ said \in Seq(LinesOf[task.via]) /\ sent \in Seq(Messages) /\ Len(said) \in Nat
      /\ reading.taken \in 0 .. Len(said) /\ reading.taken + 1 \in DOMAIN said
      /\ lines.scanned \in 0 .. Len(said) /\ task.stream
  BY <1>1, StreamTyped DEF StreamInv, ReadInv
<1>3. /\ reading'.taken = reading.taken + 1 /\ reading'.pc \in {"read", "drain"}
      /\ UNCHANGED <<task, peer, said, lines, watch, over>>
  BY DEF TakesLine
<1>4. "end" \in line => Ended /\ reading.taken + 1 = Len(said)
  BY <1>2 DEF StreamInv, LinesInv, Ended
<1>5. ~ \E i \in DOMAIN sent : sent[i].done
  BY <1>2 DEF StreamInv, DoneInv
<1>6. /\ sent' \in Seq(Messages)
      /\ (\E i \in DOMAIN sent' : sent'[i].done) => m.done
  <2>1. CASE sent' = sent
    BY <2>1, <1>2, <1>5
  <2>2. CASE sent' = Append(sent, m)
    <3>1. \A i \in DOMAIN sent' : (i \in DOMAIN sent /\ sent'[i] = sent[i]) \/ sent'[i] = m
      BY <2>2, <1>2, AppendTyped
    <3> QED
      BY <2>2, <3>1, <1>2, <1>5, AppendTyped
  <2> QED
    BY <2>1, <2>2
<1>7. StreamTypeOK'
  <2>1. reading' \in [pc : {"wait", "read", "drain", "returned"}, taken : 0 .. Len(said),
                      finish : BOOLEAN, first : BOOLEAN, tool : BOOLEAN, done : BOOLEAN]
    BY <1>2 DEF TakesLine
  <2>2. lines.scanned - reading'.taken <= LineBuffer
    BY <1>1, <1>2, <1>3, StreamAssumption DEF StreamTypeOK
  <2> QED
    BY <1>1, <1>3, <1>6, <2>1, <2>2 DEF StreamTypeOK, Messages
<1>8. LinesInv'
  BY <1>3 DEF StreamInv, LinesInv
<1>9. ScanInv'
  BY <1>2, <1>3 DEF StreamInv, ScanInv
<1>10. ReadInv' /\ DoneInv'
  BY <1>2, <1>3, <1>4, <1>6 DEF ReadInv, DoneInv, Ended
<1>11. CarryInv'
  <2>1. SUFFICES ASSUME task.via # "anthropic" PROVE Carry(sent', said, reading.taken + 1)
    BY <1>3 DEF CarryInv
  <2>2. Carry(sent, said, reading.taken) /\ reading.taken \in Nat
    BY <1>2, <2>1 DEF StreamInv, CarryInv
  <2>3. CASE line \cap Output = {}
    <3>1. Carry(sent, said, reading.taken + 1)
      BY <2>2, <2>3, <1>2, CarryQuiet
    <3>2. CASE sent' = sent
      BY <3>1, <3>2
    <3>3. CASE sent' # sent
      <4>1. m.has = {} /\ sent' = Append(sent, m)
        BY <2>1, <2>3, <3>3
      <4>2. reading.taken + 1 \in Nat
        BY <2>2
      <4> QED
        BY <3>1, <4>1, <4>2, <1>2, CarryEmpty
    <3> QED
      BY <3>2, <3>3
  <2>4. CASE line \cap Output # {}
    <3>1. m.has = said[reading.taken + 1] \cap Output /\ m.has # {} /\ sent' = Append(sent, m)
      BY <2>1, <2>4
    <3> QED
      BY <3>1, <2>2, <1>2, CarryLine
  <2> QED
    BY <2>3, <2>4
<1> QED
  BY <1>7, <1>8, <1>9, <1>10, <1>11 DEF StreamInv

(* A line of readStream. *)
LEMMA ReadLlamaKeeps ==
  ASSUME StreamInv, ReadLlama
  PROVE  StreamInv'
<1>1. StreamTypeOK
  BY DEF StreamInv
<1>2. PICK line : line = said[reading.taken + 1]
  OBVIOUS
<1>3. /\ said \in Seq(LinesOf[task.via]) /\ reading \in Readings
      /\ reading.taken \in 0 .. Len(said) /\ lines.scanned \in 0 .. Len(said) /\ Len(said) \in Nat
  BY <1>1, StreamTyped
<1>4. /\ task.via = "llamacpp" /\ reading.pc = "read" /\ reading.taken < lines.scanned
      /\ UNCHANGED <<task, peer, said, lines, watch, over>>
  BY DEF ReadLlama
<1>5. line \in LinesOf[task.via] /\ reading.taken < Len(said) /\ task.via \in Kinds
  BY <1>1, <1>2, <1>3, <1>4, StreamTyped
<1>6. CASE "end" \in line
  <2>1. /\ reading' = [[reading EXCEPT !.taken = @ + 1] EXCEPT !.pc = "drain", !.done = TRUE]
        /\ sent' = Append(sent, Message({}, TRUE, FALSE))
    BY <1>2, <1>6 DEF ReadLlama, Send
  <2>2. TakesLine
    BY <1>3, <1>4, <2>1 DEF TakesLine, Readings
  <2>3. Message({}, TRUE, FALSE) \in Messages /\ Message({}, TRUE, FALSE).has = {}
    BY DEF Message, Messages
  <2>4. line \cap Output = {}
    <3>1. line = {"end"}
      BY <1>4, <1>5, <1>6, StreamAssumption
    <3> QED
      BY <3>1 DEF Output
  <2>5. sent' = sent => line \cap Output = {}
    BY <2>4
  <2> QED
    BY <1>2, <1>4, <1>5, <1>6, <2>1, <2>2, <2>3, <2>4, LineKeeps
<1>7. CASE "end" \notin line
  <2>1. PICK has : has = line \cap Output
    OBVIOUS
  <2>2. /\ reading' = [[reading EXCEPT !.taken = @ + 1] EXCEPT !.finish = @ \/ "finish" \in line,
                                                               !.first = @ \/ has # {}]
        /\ IF has # {} THEN sent' = Append(sent, Message(has, FALSE, FALSE)) ELSE sent' = sent
    BY <1>2, <1>7, <2>1 DEF ReadLlama, Send
  <2>3. TakesLine /\ reading'.pc = "read"
    BY <1>3, <1>4, <2>2 DEF TakesLine, Readings
  <2>4. /\ Message(has, FALSE, FALSE) \in Messages /\ Message(has, FALSE, FALSE).has = has
        /\ ~Message(has, FALSE, FALSE).done
    BY <2>1 DEF Message, Messages
  <2>5. sent' = sent => has = {}
    <3>1. sent \in Seq(Messages)
      BY <1>1, StreamTyped
    <3> QED
      <4>1. PICK msg \in Messages : msg = Message(has, FALSE, FALSE)
        BY <2>4
      <4>2. Append(sent, msg) # sent
        BY <3>1, AppendTyped
      <4> QED
        BY <2>2, <4>1, <4>2
  <2>6. sent' = sent \/ sent' = Append(sent, Message(has, FALSE, FALSE))
    BY <2>2
  <2> QED
    BY <1>2, <1>4, <1>5, <2>1, <2>3, <2>4, <2>5, <2>6, LineKeeps
<1> QED
  BY <1>6, <1>7

(* The channel is closed and empty. *)
LEMMA LlamaEOFKeeps ==
  ASSUME StreamInv, LlamaEOF
  PROVE  StreamInv'
<1>1. StreamTypeOK
  BY DEF StreamInv
<1>2. /\ task.via = "llamacpp" /\ lines.closed /\ reading.taken = lines.scanned
      /\ UNCHANGED <<task, peer, said, lines, watch, over>>
  BY DEF LlamaEOF
<1>3. CASE Returns(TRUE)
  BY <1>1, <1>2, <1>3, ReturnKeeps DEF StreamTypeOK
<1>4. CASE /\ over = "no" /\ ~lines.err /\ reading.finish
           /\ reading' = [reading EXCEPT !.pc = "returned", !.done = TRUE] /\ Send({}, TRUE)
  <2>1. lines.scanned = Len(said) /\ peer = "eof"
    BY <1>2, <1>4 DEF StreamInv, ScanInv
  <2> QED
    BY <1>2, <1>4, <2>1, CleanEndKeeps
<1> QED
  BY <1>3, <1>4 DEF LlamaEOF

(* What follows the end marker is thrown away; nothing does. *)
LEMMA DrainsKeeps ==
  ASSUME StreamInv, Drains
  PROVE  StreamInv'
<1>1. StreamTypeOK
  BY DEF StreamInv
<1>2. /\ reading.pc = "drain" /\ UNCHANGED <<task, peer, said, lines, watch, over, sent>>
      /\ reading.taken = Len(said) /\ lines.scanned \in 0 .. Len(said)
      /\ reading \in Readings /\ Len(said) \in Nat
  BY <1>1, StreamTyped DEF Drains, StreamInv, ReadInv
<1>3. reading' = [reading EXCEPT !.pc = "returned"]
  BY <1>2 DEF Drains
<1>4. reading'.pc = "returned" /\ reading'.taken = reading.taken /\ reading'.finish = reading.finish
  BY <1>2, <1>3 DEF Readings
<1>5. reading' \in [pc : {"wait", "read", "drain", "returned"}, taken : 0 .. Len(said),
                    finish : BOOLEAN, first : BOOLEAN, tool : BOOLEAN, done : BOOLEAN]
  BY <1>1, <1>3 DEF StreamTypeOK
<1>6. StreamTypeOK'
  BY <1>1, <1>2, <1>4, <1>5 DEF StreamTypeOK
<1> QED
  BY <1>2, <1>4, <1>6 DEF StreamInv, LinesInv, ScanInv, ReadInv, DoneInv, CarryInv, Ended

(* A line of the shim's readers. *)
LEMMA ReadShimKeeps ==
  ASSUME StreamInv, ReadShim
  PROVE  StreamInv'
<1>1. StreamTypeOK
  BY DEF StreamInv
<1>2. PICK line : line = said[reading.taken + 1]
  OBVIOUS
<1>3. PICK has : has = IF "stop" \in line THEN {"tool"} ELSE line \cap Output
  OBVIOUS
<1>4. /\ said \in Seq(LinesOf[task.via]) /\ reading \in Readings /\ sent \in Seq(Messages)
      /\ reading.taken \in 0 .. Len(said) /\ Len(said) \in Nat /\ task.via \in Kinds
      /\ task.via \in {"llamacpp", "openai", "anthropic", "command"}
  BY <1>1, StreamTyped
<1>5. /\ task.via # "llamacpp" /\ reading.pc = "read" /\ reading.taken < Len(said)
      /\ UNCHANGED <<task, peer, said, lines, watch, over>>
      /\ reading' = [reading EXCEPT !.taken = @ + 1,
                          !.finish = @ \/ "finish" \in line,
                          !.tool   = ("open" \in line) \/ (@ /\ "stop" \notin line),
                          !.done   = @ \/ "end" \in line]
      /\ IF Sends(line) THEN sent' = Append(sent, Message(has, "end" \in line, FALSE))
                        ELSE sent' = sent
  BY <1>2, <1>3 DEF ReadShim, Send
<1>6. line \in LinesOf[task.via]
  BY <1>2, <1>4, <1>5
<1>7. TakesLine /\ reading'.pc = "read"
  BY <1>4, <1>5 DEF TakesLine, Readings
<1>8. has \in SUBSET Output
  BY <1>3 DEF Output
<1>9. /\ Message(has, "end" \in line, FALSE) \in Messages
      /\ Message(has, "end" \in line, FALSE).has = has
      /\ Message(has, "end" \in line, FALSE).done = ("end" \in line)
  BY <1>8 DEF Message, Messages
<1>10. sent' = sent \/ sent' = Append(sent, Message(has, "end" \in line, FALSE))
  BY <1>5
<1>11. ASSUME task.via # "anthropic"
       PROVE  has = line \cap Output /\ (sent' = sent => line \cap Output = {})
  <2>1. "stop" \notin line
    BY <1>4, <1>6, <1>11, StreamAssumption
  <2>2. has = line \cap Output
    BY <2>1, <1>3
  <2>3. line \cap Output # {} => Sends(line)
    BY <1>4, <1>5, <1>11 DEF Sends
  <2>4. Sends(line) => sent' # sent
    BY <1>4, <1>5, <1>9, AppendTyped
  <2> QED
    BY <2>2, <2>3, <2>4
<1> QED
  BY <1>2, <1>5, <1>7, <1>9, <1>10, <1>11, LineKeeps

(* The shim's loop is left. *)
LEMMA ShimEndsKeeps ==
  ASSUME StreamInv, ShimEnds
  PROVE  StreamInv'
<1>1. StreamTypeOK
  BY DEF StreamInv
<1>2. UNCHANGED <<task, peer, said, lines, watch, over>>
  BY DEF ShimEnds
<1>3. ASSUME NEW failed \in BOOLEAN, Returns(failed) PROVE StreamInv'
  BY <1>1, <1>2, <1>3, ReturnKeeps DEF StreamTypeOK
<1>4. PICK failed : failed = (\/ peer # "eof" \/ over # "no"
                              \/ ~reading.done /\ (task.via # "openai" \/ ~reading.finish))
  OBVIOUS
<1>5. failed \in BOOLEAN
  BY <1>4
<1>6. CASE /\ ~failed /\ ~reading.done /\ reading.taken = Len(said)
           /\ reading' = [reading EXCEPT !.pc = "returned", !.done = TRUE] /\ Send({}, TRUE)
  <2>1. peer = "eof" /\ reading.finish
    BY <1>4, <1>6
  <2> QED
    BY <1>2, <1>6, <2>1, CleanEndKeeps
<1>7. CASE Returns(FALSE) \/ Returns(failed)
  BY <1>3, <1>5, <1>7
<1>8. \/ Returns(FALSE) \/ Returns(failed)
      \/ /\ ~failed /\ ~reading.done /\ reading.taken = Len(said)
         /\ reading' = [reading EXCEPT !.pc = "returned", !.done = TRUE] /\ Send({}, TRUE)
  BY <1>4 DEF ShimEnds
<1> QED
  BY <1>6, <1>7, <1>8

(* Every step keeps the invariant. *)
LEMMA StreamKeeps ==
  ASSUME StreamInv, [StreamNext]_streamVars
  PROVE  StreamInv'
<1>1. StreamTypeOK
  BY DEF StreamInv
<1>2. watch \in -1 .. HealthFailures /\ HealthFailures \in Nat /\ over \in {"no", "hung", "cancelled"}
      /\ peer \in {"up", "hung", "eof", "cut"}
  BY <1>1, StreamTyped DEF StreamTypeOK
<1>3. CASE \E line \in LinesOf[task.via] : Says(line)
  BY <1>3, SaysKeeps
<1>4. CASE Closes("eof") \/ Closes("cut") \/ Hangs
  BY <1>2, <1>4, OthersKeep DEF Closes, Hangs
<1>5. CASE Refused \/ BatchFails
  <2>1. Returns(TRUE) /\ UNCHANGED <<task, peer, said, lines, watch, over>>
    BY <1>5 DEF Refused, BatchFails
  <2> QED
    BY <2>1, <1>2, ReturnKeeps
<1>6. CASE Responds \/ BatchReply
  BY <1>6, StartKeeps
<1>7. CASE Scans
  BY <1>7, ScansKeeps
<1>8. CASE ScanStops
  BY <1>8, ScanStopsKeeps
<1>9. CASE Reader
  <2>1. CASE ReadLlama
    BY <2>1, ReadLlamaKeeps
  <2>2. CASE LlamaEOF
    BY <2>2, LlamaEOFKeeps
  <2>3. CASE Drains
    BY <2>3, DrainsKeeps
  <2>4. CASE ContextEnds
    <3>1. Returns(TRUE) /\ UNCHANGED <<task, peer, said, lines, watch, over>>
      BY <2>4 DEF ContextEnds
    <3> QED
      BY <3>1, <1>2, ReturnKeeps
  <2>5. CASE ReadShim
    BY <2>5, ReadShimKeeps
  <2>6. CASE ShimEnds
    BY <2>6, ShimEndsKeeps
  <2> QED
    BY <1>9, <2>1, <2>2, <2>3, <2>4, <2>5, <2>6 DEF Reader
<1>10. CASE IdleTimeout
  <2>1. /\ Returns(TRUE) /\ UNCHANGED <<task, peer, said, lines, watch>>
        /\ over' \in {"no", "hung", "cancelled"} /\ over' # "no"
    BY <1>2, <1>10 DEF IdleTimeout
  <2> QED
    BY <2>1, ReturnKeeps
<1>11. CASE HealthMissed
  <2>1. /\ UNCHANGED <<task, peer, said, lines, reading, sent>>
        /\ over' = over \/ over' = "hung"
        /\ watch' \in -1 .. HealthFailures
    BY <1>2, <1>11 DEF HealthMissed
  <2> QED
    BY <2>1, <1>2, OthersKeep
<1>12. CASE HealthAnswered \/ HealthStops
  <2>1. /\ UNCHANGED <<task, peer, said, lines, reading, over, sent>>
        /\ watch' \in -1 .. HealthFailures
    BY <1>2, <1>12 DEF HealthAnswered, HealthStops
  <2> QED
    BY <2>1, <1>2, OthersKeep
<1>13. CASE StreamCancelled \/ ShimTimeout
  <2>1. /\ UNCHANGED <<task, peer, said, lines, reading, watch, sent>>
        /\ over' \in {"hung", "cancelled"}
    BY <1>13 DEF StreamCancelled, ShimTimeout
  <2> QED
    BY <2>1, <1>2, OthersKeep
<1>14. CASE UNCHANGED streamVars
  BY <1>2, <1>14, OthersKeep DEF streamVars
<1> QED
  BY <1>3, <1>4, <1>5, <1>6, <1>7, <1>8, <1>9, <1>10, <1>11, <1>12, <1>13, <1>14 DEF StreamNext

(* An answer begins with nothing said and nothing passed on. *)
LEMMA StreamStarts == StreamInit => StreamInv
<1> SUFFICES ASSUME StreamInit PROVE StreamInv
  OBVIOUS
<1>1. StreamTypeOK
  BY StreamAssumption DEF StreamInit, StreamTypeOK
<1>2. Carry(<<>>, <<>>, 0)
  BY CarryNothing
<1> QED
  BY <1>1, <1>2 DEF StreamInit, StreamInv, LinesInv, ScanInv, ReadInv, DoneInv, CarryInv

(* An answer is reported complete only when the server had completed it and every
   line of output was passed on (NoFalseSuccess: readStream, the shim's readers). *)
THEOREM StreamNoFalseSuccess == StreamSpec => []NoFalseSuccess
<1>1. StreamInv => NoFalseSuccess
  BY DEF StreamInv, DoneInv, CarryInv, NoFalseSuccess
<1> QED
  BY <1>1, StreamStarts, StreamKeeps, PTL DEF StreamSpec

-----------------------------------------------------------------------------
(* The events written.                                                     *)

Events == [name : EventNames, i : Nat]

(* The kind of output a block of each kind takes. *)
DeltaIn == [start_thinking |-> "thinking_delta", start_text |-> "text_delta",
            start_tool |-> "tool_delta"]

\* The events so far nest, the message has started and not stopped, n is the next
\* block's number or, if one is open, that one's, and `open' is its kind.
Written(ev, n, open) ==
  /\ ev \in Seq(Events) /\ Len(ev) > 0 /\ n \in Nat
  /\ \A i \in 1 .. Len(ev) : Nests(ev, i) /\ ev[i].name \notin Ending
  /\ Numbers(ev, Len(ev) + 1) = IF open = "none" THEN 0 .. n - 1 ELSE 0 .. n
  /\ IF open = "none" THEN \A j \in 1 .. Len(ev) : ~StillOpen(ev, j, Len(ev) + 1)
                      ELSE \E j \in 1 .. Len(ev) : StillOpen(ev, j, Len(ev) + 1) /\ ev[j] = Event(open, n)

(* The fields of an event. *)
LEMMA EventFields ==
  ASSUME NEW name \in EventNames, NEW n \in Nat
  PROVE  Event(name, n) \in Events /\ Event(name, n).name = name /\ Event(name, n).i = n
  BY DEF Event, Events

(* What stands before place i decides whether its event nests. *)
LEMMA Prefix ==
  ASSUME NEW ev \in Seq(Events), NEW e \in Events, NEW i \in 1 .. Len(ev) + 1
  PROVE  /\ Numbers(Append(ev, e), i) = Numbers(ev, i)
         /\ \A j \in 1 .. i - 1 : /\ StillOpen(Append(ev, e), j, i) <=> StillOpen(ev, j, i)
                                  /\ Append(ev, e)[j] = ev[j]
<1>1. \A j \in 1 .. i - 1 : Append(ev, e)[j] = ev[j]
  OBVIOUS
<1>2. {k \in 1 .. i - 1 : Append(ev, e)[k].name \in Opening} = {k \in 1 .. i - 1 : ev[k].name \in Opening}
  BY <1>1
<1>3. Numbers(Append(ev, e), i) = Numbers(ev, i)
  BY <1>1, <1>2 DEF Numbers
<1>4. ASSUME NEW j \in 1 .. i - 1 PROVE StillOpen(Append(ev, e), j, i) <=> StillOpen(ev, j, i)
  BY <1>1 DEF StillOpen
<1> QED
  BY <1>1, <1>3, <1>4

(* An event that nested still does when another follows, if it ended nothing. *)
LEMMA EarlierNest ==
  ASSUME NEW ev \in Seq(Events), NEW e \in Events, NEW i \in 1 .. Len(ev), Nests(ev, i),
         ev[i].name \notin {"message_stop", "error"}
  PROVE  Nests(Append(ev, e), i) /\ Append(ev, e)[i] = ev[i]
<1>1. Append(ev, e)[i] = ev[i]
  OBVIOUS
<1>2. /\ Numbers(Append(ev, e), i) = Numbers(ev, i)
      /\ \A j \in 1 .. i - 1 : /\ StillOpen(Append(ev, e), j, i) <=> StillOpen(ev, j, i)
                               /\ Append(ev, e)[j] = ev[j]
  <2>1. i \in 1 .. Len(ev) + 1
    OBVIOUS
  <2> QED
    BY ONLY <2>1, ev \in Seq(Events), e \in Events, Prefix, ZenonT(30)
<1> QED
  BY <1>1, <1>2 DEF Nests

(* What stands before an event that is added is untouched. *)
LEMMA OnePlaceOn ==
  ASSUME NEW ev \in Seq(Events), NEW e \in Events
  PROVE  /\ Append(ev, e) \in Seq(Events) /\ Len(Append(ev, e)) = Len(ev) + 1
         /\ Append(ev, e)[Len(ev) + 1] = e
         /\ Numbers(Append(ev, e), Len(ev) + 1) = Numbers(ev, Len(ev) + 1)
         /\ \A j \in 1 .. Len(ev) :
              /\ StillOpen(Append(ev, e), j, Len(ev) + 1) <=> StillOpen(ev, j, Len(ev) + 1)
              /\ Append(ev, e)[j] = ev[j]
<1>1. /\ Append(ev, e) \in Seq(Events) /\ Len(Append(ev, e)) = Len(ev) + 1 /\ Len(ev) \in Nat
      /\ Append(ev, e)[Len(ev) + 1] = e
  OBVIOUS
<1>2. PICK i \in 1 .. Len(ev) + 1 : i = Len(ev) + 1
  BY <1>1
<1>3. 1 .. i - 1 = 1 .. Len(ev)
  BY <1>1, <1>2
<1>4. /\ Numbers(Append(ev, e), i) = Numbers(ev, i)
      /\ \A j \in 1 .. Len(ev) : /\ StillOpen(Append(ev, e), j, i) <=> StillOpen(ev, j, i)
                                 /\ Append(ev, e)[j] = ev[j]
  <2>1. /\ Numbers(Append(ev, e), i) = Numbers(ev, i)
        /\ \A j \in 1 .. i - 1 : /\ StillOpen(Append(ev, e), j, i) <=> StillOpen(ev, j, i)
                                 /\ Append(ev, e)[j] = ev[j]
    BY Prefix
  <2> QED
    BY <1>3, <2>1
<1> QED
  BY <1>1, <1>2, <1>4

(* How the books change with one more event. *)
LEMMA OneMore ==
  ASSUME NEW ev \in Seq(Events), NEW e \in Events
  PROVE  /\ Append(ev, e) \in Seq(Events) /\ Len(Append(ev, e)) = Len(ev) + 1
         /\ Append(ev, e)[Len(ev) + 1] = e
         /\ Numbers(Append(ev, e), Len(ev) + 2)
              = IF e.name \in Opening THEN Numbers(ev, Len(ev) + 1) \cup {e.i}
                                      ELSE Numbers(ev, Len(ev) + 1)
         /\ \A j \in 1 .. Len(ev) :
              StillOpen(Append(ev, e), j, Len(ev) + 2)
                <=> StillOpen(ev, j, Len(ev) + 1) /\ e.name # "block_stop"
         /\ StillOpen(Append(ev, e), Len(ev) + 1, Len(ev) + 2) <=> e.name \in Opening
<1> DEFINE longer == Append(ev, e)
<1>1. /\ longer \in Seq(Events) /\ Len(longer) = Len(ev) + 1 /\ longer[Len(ev) + 1] = e
      /\ \A j \in 1 .. Len(ev) : longer[j] = ev[j]
      /\ Len(ev) \in Nat
  OBVIOUS
<1> HIDE DEF longer
<1>2. Numbers(longer, Len(ev) + 2)
        = IF e.name \in Opening THEN Numbers(ev, Len(ev) + 1) \cup {e.i}
                                ELSE Numbers(ev, Len(ev) + 1)
  <2>1. {k \in 1 .. Len(ev) + 1 : longer[k].name \in Opening}
          = {k \in 1 .. Len(ev) : ev[k].name \in Opening}
              \cup (IF e.name \in Opening THEN {Len(ev) + 1} ELSE {})
    BY <1>1
  <2>2. (Len(ev) + 2) - 1 = Len(ev) + 1 /\ (Len(ev) + 1) - 1 = Len(ev)
    BY <1>1
  <2> QED
    BY <1>1, <2>1, <2>2 DEF Numbers
<1>3. ASSUME NEW j \in 1 .. Len(ev)
      PROVE  StillOpen(longer, j, Len(ev) + 2) <=> StillOpen(ev, j, Len(ev) + 1) /\ e.name # "block_stop"
  BY <1>1 DEF StillOpen
<1>4. StillOpen(longer, Len(ev) + 1, Len(ev) + 2) <=> e.name \in Opening
  BY <1>1 DEF StillOpen
<1> QED
  BY <1>1, <1>2, <1>3, <1>4 DEF longer

(* An event that nests after those before it. *)
LEMMA EventKeeps ==
  ASSUME NEW ev, NEW n, NEW open, Written(ev, n, open), NEW e \in Events,
         Nests(Append(ev, e), Len(ev) + 1)
  PROVE  \A i \in 1 .. Len(Append(ev, e)) :
            /\ Nests(Append(ev, e), i)
            /\ i < Len(Append(ev, e)) => Append(ev, e)[i].name \notin Ending
<1>1. ev \in Seq(Events) /\ \A i \in 1 .. Len(ev) : Nests(ev, i) /\ ev[i].name \notin Ending
  BY DEF Written
<1>2. Len(Append(ev, e)) = Len(ev) + 1 /\ Len(ev) \in Nat
  BY <1>1
<1>3. ASSUME NEW i \in 1 .. Len(ev)
      PROVE  Nests(Append(ev, e), i) /\ Append(ev, e)[i].name \notin Ending
  BY <1>1, EarlierNest DEF Ending
<1> QED
  BY <1>2, <1>3

(* The first event: start. *)
LEMMA MessageStarts == Written(Append(<<>>, Event("message_start", 0)), 0, "none")
<1> DEFINE ev == Append(<<>>, Event("message_start", 0))
<1>1. Event("message_start", 0) \in Events /\ Event("message_start", 0).name = "message_start"
  BY EventFields DEF EventNames
<1>2. ev \in Seq(Events) /\ Len(ev) = 1 /\ ev[1].name = "message_start"
  BY <1>1
<1> HIDE DEF ev
<1>3. Nests(ev, 1)
  BY <1>2 DEF Nests, Opening
<1>4. {k \in 1 .. 1 : ev[k].name \in Opening} = {}
  BY <1>2 DEF Opening
<1>5. Numbers(ev, 2) = {}
  BY <1>4 DEF Numbers
<1>6. ~StillOpen(ev, 1, 2)
  BY <1>2 DEF StillOpen, Opening
<1>7. ev[1].name \notin Ending
  BY <1>2 DEF Ending
<1> QED
  BY <1>2, <1>3, <1>5, <1>6, <1>7 DEF Written, ev

(* A block opens. *)
LEMMA BlockOpens ==
  ASSUME NEW ev, NEW n, Written(ev, n, "none"), NEW kind \in Opening
  PROVE  Written(Append(ev, Event(kind, n)), n, kind)
<1> DEFINE longer == Append(ev, Event(kind, n))
<1>1. ev \in Seq(Events) /\ n \in Nat /\ Len(ev) \in Nat /\ Len(ev) > 0
  BY DEF Written
<1>2. Event(kind, n) \in Events /\ Event(kind, n).name = kind /\ Event(kind, n).i = n
  BY <1>1, EventFields DEF EventNames
<1>3. /\ longer \in Seq(Events) /\ Len(longer) = Len(ev) + 1 /\ longer[Len(ev) + 1] = Event(kind, n)
      /\ Numbers(longer, Len(ev) + 2) = Numbers(ev, Len(ev) + 1) \cup {n}
      /\ StillOpen(longer, Len(ev) + 1, Len(ev) + 2)
  <2>1. PICK e \in Events : e = Event(kind, n)
    BY <1>2
  <2>2. e.name \in Opening /\ e.i = n
    BY <1>2, <2>1
  <2> QED
    BY <1>1, <2>1, <2>2, OneMore
<1>4. /\ Numbers(longer, Len(ev) + 1) = Numbers(ev, Len(ev) + 1)
      /\ \A j \in 1 .. Len(ev) : StillOpen(longer, j, Len(ev) + 1) <=> StillOpen(ev, j, Len(ev) + 1)
  BY <1>1, <1>2, OnePlaceOn
<1> HIDE DEF longer
<1>5. Nests(longer, Len(ev) + 1)
  BY <1>1, <1>2, <1>3, <1>4 DEF Nests, Written, Opening
<1>6. \A i \in 1 .. Len(longer) : Nests(longer, i) /\ (i < Len(longer) => longer[i].name \notin Ending)
  BY <1>2, <1>5, EventKeeps DEF longer
<1>7. kind \notin Ending /\ kind # "none"
  BY DEF Opening, Ending
<1>8. Numbers(longer, Len(longer) + 1) = 0 .. n
  <2>1. Numbers(ev, Len(ev) + 1) = 0 .. n - 1 /\ Len(longer) + 1 = Len(ev) + 2
    BY <1>1, <1>3 DEF Written
  <2>2. (0 .. n - 1) \cup {n} = 0 .. n
    BY <1>1
  <2> QED
    BY <1>3, <2>1, <2>2
<1>9. \E j \in 1 .. Len(longer) : StillOpen(longer, j, Len(longer) + 1) /\ longer[j] = Event(kind, n)
  BY <1>1, <1>3
<1> QED
  BY <1>1, <1>2, <1>3, <1>6, <1>7, <1>8, <1>9 DEF Written, longer

(* Output arrives in the block that is open. *)
LEMMA OutputArrives ==
  ASSUME NEW ev, NEW n, NEW open \in Opening, Written(ev, n, open)
  PROVE  Written(Append(ev, Event(DeltaIn[open], n)), n, open)
<1> DEFINE delta == DeltaIn[open]
           longer == Append(ev, Event(delta, n))
<1>1. ev \in Seq(Events) /\ n \in Nat /\ Len(ev) \in Nat /\ Len(ev) > 0
  BY DEF Written
<1>2. delta \in Deltas /\ delta \notin Opening /\ delta \notin Ending /\ delta # "block_stop"
  BY DEF DeltaIn, Deltas, Opening, Ending
<1>3. Event(delta, n) \in Events /\ Event(delta, n).name = delta /\ Event(delta, n).i = n
  BY <1>1, <1>2, EventFields DEF EventNames
<1>4. /\ longer \in Seq(Events) /\ Len(longer) = Len(ev) + 1 /\ longer[Len(ev) + 1] = Event(delta, n)
      /\ Numbers(longer, Len(ev) + 2) = Numbers(ev, Len(ev) + 1)
      /\ \A j \in 1 .. Len(ev) : StillOpen(longer, j, Len(ev) + 2) <=> StillOpen(ev, j, Len(ev) + 1)
  <2>1. PICK e \in Events : e = Event(delta, n)
    BY <1>3
  <2>2. e.name # "block_stop" /\ e.name \notin Opening
    BY <1>2, <1>3, <2>1
  <2> HIDE DEF delta
  <2> QED
    BY <1>1, <2>1, <2>2, OneMore
<1>5. \A j \in 1 .. Len(ev) : /\ StillOpen(longer, j, Len(ev) + 1) <=> StillOpen(ev, j, Len(ev) + 1)
                              /\ longer[j] = ev[j]
  BY <1>1, <1>3, OnePlaceOn
<1>6. PICK j \in 1 .. Len(ev) : StillOpen(ev, j, Len(ev) + 1) /\ ev[j] = Event(open, n)
  BY DEF Written, Opening
<1>7. /\ open = "start_thinking" => delta = "thinking_delta"
      /\ open = "start_text" => delta = "text_delta"
      /\ open = "start_tool" => delta = "tool_delta"
  BY DEF DeltaIn
<1> HIDE DEF longer, delta
<1>8. Nests(longer, Len(ev) + 1)
  <2>1. \E k \in 1 .. (Len(ev) + 1) - 1 : StillOpen(longer, k, Len(ev) + 1) /\ longer[k] = Event(open, n)
    BY <1>1, <1>5, <1>6
  <2> QED
    BY <2>1, <1>3, <1>4, <1>7 DEF Nests, Opening
<1>9. \A i \in 1 .. Len(longer) : Nests(longer, i) /\ (i < Len(longer) => longer[i].name \notin Ending)
  BY <1>3, <1>8, EventKeeps DEF longer
<1>10. Numbers(longer, Len(longer) + 1) = 0 .. n
  BY <1>1, <1>4 DEF Written, Opening
<1>11. \E k \in 1 .. Len(longer) : StillOpen(longer, k, Len(longer) + 1) /\ longer[k] = Event(open, n)
  BY <1>1, <1>4, <1>5, <1>6
<1>12. Written(longer, n, open)
  BY <1>1, <1>2, <1>3, <1>4, <1>9, <1>10, <1>11 DEF Written, Opening
<1> QED
  BY <1>12 DEF longer, delta

(* A block is closed. *)
LEMMA BlockCloses ==
  ASSUME NEW ev, NEW n, NEW open \in Opening, Written(ev, n, open)
  PROVE  Written(Append(ev, Event("block_stop", n)), n + 1, "none")
<1> DEFINE longer == Append(ev, Event("block_stop", n))
<1>1. ev \in Seq(Events) /\ n \in Nat /\ Len(ev) \in Nat /\ Len(ev) > 0
  BY DEF Written
<1>2. Event("block_stop", n) \in Events /\ Event("block_stop", n).name = "block_stop"
      /\ Event("block_stop", n).i = n
  BY <1>1, EventFields DEF EventNames
<1>3. /\ longer \in Seq(Events) /\ Len(longer) = Len(ev) + 1 /\ longer[Len(ev) + 1] = Event("block_stop", n)
      /\ Numbers(longer, Len(ev) + 2) = Numbers(ev, Len(ev) + 1)
      /\ \A j \in 1 .. Len(ev) + 1 : ~StillOpen(longer, j, Len(ev) + 2)
  <2>1. PICK e \in Events : e = Event("block_stop", n)
    BY <1>2
  <2>2. e.name = "block_stop" /\ e.name \notin Opening
    BY <1>2, <2>1 DEF Opening
  <2>3. \A j \in 1 .. Len(ev) + 1 : j \in 1 .. Len(ev) \/ j = Len(ev) + 1
    BY <1>1
  <2> QED
    BY <1>1, <2>1, <2>2, <2>3, OneMore
<1>4. \A j \in 1 .. Len(ev) : /\ StillOpen(longer, j, Len(ev) + 1) <=> StillOpen(ev, j, Len(ev) + 1)
                              /\ longer[j] = ev[j]
  BY <1>1, <1>2, OnePlaceOn
<1>5. PICK j \in 1 .. Len(ev) : StillOpen(ev, j, Len(ev) + 1) /\ ev[j] = Event(open, n)
  BY DEF Written, Opening
<1> HIDE DEF longer
<1>6. Nests(longer, Len(ev) + 1)
  <2>1. \E k \in 1 .. (Len(ev) + 1) - 1 : StillOpen(longer, k, Len(ev) + 1) /\ longer[k] = Event(open, n)
    BY <1>1, <1>4, <1>5
  <2> QED
    BY <2>1, <1>2, <1>3 DEF Nests, Opening
<1>7. \A i \in 1 .. Len(longer) : Nests(longer, i) /\ (i < Len(longer) => longer[i].name \notin Ending)
  BY <1>2, <1>6, EventKeeps DEF longer
<1>8. Numbers(longer, Len(longer) + 1) = 0 .. (n + 1) - 1
  BY <1>1, <1>3 DEF Written, Opening
<1>9. \A k \in 1 .. Len(longer) : ~StillOpen(longer, k, Len(longer) + 1)
  BY <1>1, <1>3
<1>10. "block_stop" \notin Ending
  BY DEF Ending
<1>11. longer[Len(ev) + 1].name \notin Ending /\ n + 1 \in Nat /\ Len(longer) > 0
  BY <1>1, <1>2, <1>3, <1>10
<1>12. Written(longer, n + 1, "none")
  BY <1>1, <1>3, <1>7, <1>8, <1>9, <1>11 DEF Written
<1> QED
  BY <1>12 DEF longer

-----------------------------------------------------------------------------
(* The streamer.                                                           *)

Streamers == [out : Seq(Events), started : BOOLEAN, thinking : BOOLEAN, text : BOOLEAN,
              index : Nat, calls : 0 .. MaxCalls]

OpenIn(s) == IF s.thinking THEN "start_thinking" ELSE IF s.text THEN "start_text" ELSE "none"

\* The message has started, and the flags and the index say what is open.
Begun(s) == /\ s \in Streamers /\ s.started /\ ~(s.thinking /\ s.text)
            /\ Written(s.out, s.index, OpenIn(s))

(* sseEvent adds one event and leaves the streamer's flags alone. *)
LEMMA Emitted ==
  ASSUME NEW s \in Streamers, NEW name \in EventNames
  PROVE  /\ Emit(s, name) \in Streamers
         /\ Emit(s, name).out = Append(s.out, Event(name, s.index))
         /\ Emit(s, name).started = s.started /\ Emit(s, name).thinking = s.thinking
         /\ Emit(s, name).text = s.text /\ Emit(s, name).index = s.index
         /\ Emit(s, name).calls = s.calls
<1>1. PICK longer : longer = Append(s.out, Event(name, s.index))
  OBVIOUS
<1>2. s.out \in Seq(Events) /\ Event(name, s.index) \in Events
  BY EventFields DEF Streamers
<1>3. longer \in Seq(Events)
  BY <1>1, <1>2
<1>4. Emit(s, name) = [s EXCEPT !.out = longer]
  BY <1>1 DEF Emit
<1> QED
  BY <1>1, <1>3, <1>4 DEF Streamers

(* closeThinking and its like: the block is closed and the index goes up. *)
LEMMA BlockClosed ==
  ASSUME NEW s \in Streamers, NEW open \in Opening, Written(s.out, s.index, open)
  PROVE  LET c == CloseBlock(s)
         IN  /\ c \in Streamers /\ Written(c.out, c.index, "none")
             /\ c.started = s.started /\ c.thinking = s.thinking /\ c.text = s.text
             /\ c.calls = s.calls
<1>1. PICK e : e = Emit(s, "block_stop")
  OBVIOUS
<1>2. /\ e \in Streamers /\ e.out = Append(s.out, Event("block_stop", s.index))
      /\ e.started = s.started /\ e.thinking = s.thinking /\ e.text = s.text
      /\ e.index = s.index /\ e.calls = s.calls
  BY <1>1, Emitted DEF EventNames
<1>3. PICK c : c = CloseBlock(s)
  OBVIOUS
<1>4. c = [e EXCEPT !.index = @ + 1]
  BY <1>1, <1>3 DEF CloseBlock
<1>5. /\ c \in Streamers /\ c.out = e.out /\ c.index = s.index + 1
      /\ c.started = s.started /\ c.thinking = s.thinking /\ c.text = s.text /\ c.calls = s.calls
  BY <1>2, <1>4 DEF Streamers
<1>6. Written(c.out, c.index, "none")
  BY <1>2, <1>5, BlockCloses
<1> QED
  BY <1>3, <1>5, <1>6

(* start writes message_start once. *)
LEMMA StartBegins ==
  ASSUME NEW s, s = NewStreamer \/ Begun(s)
  PROVE  Begun(Start(s)) /\ (Begun(s) => Start(s) = s)
<1>1. CASE Begun(s)
  BY <1>1 DEF Start, Begun
<1>2. CASE s = NewStreamer
  <2>1. /\ s \in Streamers /\ s.out = <<>> /\ ~s.started /\ s.index = 0 /\ ~s.thinking /\ ~s.text
    BY <1>2, EventAssumption DEF NewStreamer, Streamers
  <2>2. PICK e : e = Emit(s, "message_start")
    OBVIOUS
  <2>3. /\ e \in Streamers /\ e.out = Append(<<>>, Event("message_start", 0))
        /\ ~e.thinking /\ ~e.text /\ e.index = 0
    BY <2>1, <2>2, Emitted DEF EventNames
  <2>4. PICK b : b = Start(s)
    OBVIOUS
  <2>5. b = [e EXCEPT !.started = TRUE]
    BY <2>1, <2>2, <2>4 DEF Start
  <2>6. /\ b \in Streamers /\ b.started /\ b.out = e.out /\ ~b.thinking /\ ~b.text /\ b.index = 0
    BY <2>3, <2>5 DEF Streamers
  <2>7. Begun(b)
    BY <2>3, <2>6, MessageStarts DEF Begun, OpenIn
  <2> QED
    BY <2>1, <2>4, <2>7 DEF Begun
<1> QED
  BY <1>1, <1>2

(* closeThinking leaves no thinking block open. *)
LEMMA ThinkingClosed ==
  ASSUME NEW s, Begun(s)
  PROVE  LET c == CloseThinking(s)
         IN  Begun(c) /\ ~c.thinking /\ c.text = s.text /\ c.calls = s.calls
<1>1. CASE ~s.thinking
  BY <1>1 DEF CloseThinking
<1>2. CASE s.thinking
  <2>1. s \in Streamers /\ Written(s.out, s.index, "start_thinking") /\ "start_thinking" \in Opening
        /\ ~s.text
    BY <1>2 DEF Begun, OpenIn, Opening
  <2>2. PICK b : b = CloseBlock(s)
    OBVIOUS
  <2>3. /\ b \in Streamers /\ Written(b.out, b.index, "none")
        /\ b.started = s.started /\ b.text = s.text /\ b.calls = s.calls
    BY <2>1, <2>2, BlockClosed
  <2>4. PICK c : c = CloseThinking(s)
    OBVIOUS
  <2>5. c = [b EXCEPT !.thinking = FALSE]
    BY <1>2, <2>2, <2>4 DEF CloseThinking
  <2>6. /\ c \in Streamers /\ c.started = s.started /\ ~c.thinking /\ c.text = s.text
        /\ c.out = b.out /\ c.index = b.index /\ c.calls = s.calls
    BY <2>3, <2>5 DEF Streamers
  <2>7. Begun(c)
    BY <2>1, <2>3, <2>6 DEF Begun, OpenIn
  <2> QED
    BY <2>4, <2>6, <2>7
<1> QED
  BY <1>1, <1>2

(* What Done does with an open text block. *)
LEMMA TextClosed ==
  ASSUME NEW s, Begun(s), ~s.thinking
  PROVE  LET c == CloseText(s)
         IN  Begun(c) /\ ~c.thinking /\ ~c.text
<1>1. CASE ~s.text
  BY <1>1 DEF CloseText
<1>2. CASE s.text
  <2>1. s \in Streamers /\ Written(s.out, s.index, "start_text") /\ "start_text" \in Opening
    BY <1>2 DEF Begun, OpenIn, Opening
  <2>2. PICK b : b = CloseBlock(s)
    OBVIOUS
  <2>3. /\ b \in Streamers /\ Written(b.out, b.index, "none")
        /\ b.started = s.started /\ b.thinking = s.thinking
    BY <2>1, <2>2, BlockClosed
  <2>4. PICK c : c = CloseText(s)
    OBVIOUS
  <2>5. c = [b EXCEPT !.text = FALSE]
    BY <1>2, <2>2, <2>4 DEF CloseText
  <2>6. /\ c \in Streamers /\ c.started = s.started /\ ~c.thinking /\ ~c.text
        /\ c.out = b.out /\ c.index = b.index
    BY <2>3, <2>5 DEF Streamers
  <2>7. Begun(c)
    BY <2>3, <2>6 DEF Begun, OpenIn
  <2> QED
    BY <2>4, <2>6, <2>7
<1> QED
  BY <1>1, <1>2

(* A block opens, and its flag is set. *)
LEMMA OpenedThinking ==
  ASSUME NEW s, Begun(s), ~s.thinking, ~s.text
  PROVE  LET c == [Emit(s, "start_thinking") EXCEPT !.thinking = TRUE]
         IN  Begun(c) /\ c.thinking
<1>1. s \in Streamers /\ Written(s.out, s.index, "none") /\ "start_thinking" \in Opening
      /\ "start_thinking" \in EventNames
  BY DEF Begun, OpenIn, Opening, EventNames
<1>2. PICK e : e = Emit(s, "start_thinking")
  OBVIOUS
<1>3. /\ e \in Streamers /\ e.out = Append(s.out, Event("start_thinking", s.index))
      /\ e.started = s.started /\ e.text = s.text /\ e.index = s.index
  BY <1>1, <1>2, Emitted
<1>4. PICK c : c = [e EXCEPT !.thinking = TRUE]
  OBVIOUS
<1>5. /\ c \in Streamers /\ c.started = s.started /\ c.thinking /\ c.text = s.text
      /\ c.out = e.out /\ c.index = s.index
  BY <1>3, <1>4 DEF Streamers
<1>6. Written(c.out, c.index, "start_thinking")
  BY <1>1, <1>3, <1>5, BlockOpens
<1>7. Begun(c)
  BY <1>5, <1>6 DEF Begun, OpenIn
<1> QED
  BY <1>2, <1>4, <1>5, <1>7

(* Delta has a text block open before it writes text. *)
LEMMA OpenedText ==
  ASSUME NEW s, Begun(s), ~s.thinking
  PROVE  LET c == OpenText(s)
         IN  Begun(c) /\ c.text /\ ~c.thinking
<1>1. CASE s.text
  BY <1>1 DEF OpenText
<1>2. CASE ~s.text
  <2>1. s \in Streamers /\ Written(s.out, s.index, "none") /\ "start_text" \in Opening
        /\ "start_text" \in EventNames
    BY <1>2 DEF Begun, OpenIn, Opening, EventNames
  <2>2. PICK e : e = Emit(s, "start_text")
    OBVIOUS
  <2>3. /\ e \in Streamers /\ e.out = Append(s.out, Event("start_text", s.index))
        /\ e.started = s.started /\ e.thinking = s.thinking /\ e.index = s.index
    BY <2>1, <2>2, Emitted
  <2>4. PICK c : c = OpenText(s)
    OBVIOUS
  <2>5. c = [e EXCEPT !.text = TRUE]
    BY <1>2, <2>2, <2>4 DEF OpenText
  <2>6. /\ c \in Streamers /\ c.started = s.started /\ ~c.thinking /\ c.text
        /\ c.out = e.out /\ c.index = s.index
    BY <2>3, <2>5 DEF Streamers
  <2>7. Written(c.out, c.index, "start_text")
    BY <2>1, <2>3, <2>6, BlockOpens
  <2>8. Begun(c)
    BY <2>6, <2>7 DEF Begun, OpenIn
  <2> QED
    BY <2>4, <2>6, <2>8
<1> QED
  BY <1>1, <1>2

(* Output goes into the open block of its kind. *)
LEMMA OutputEmitted ==
  ASSUME NEW s, Begun(s), NEW open \in Opening, OpenIn(s) = open, NEW name, name = DeltaIn[open]
  PROVE  LET c == Emit(s, name) IN Begun(c) /\ c.thinking = s.thinking /\ c.text = s.text
<1>1. s \in Streamers /\ Written(s.out, s.index, open)
  BY DEF Begun
<1>2. name \in EventNames
  BY DEF DeltaIn, Opening, EventNames, Deltas
<1>3. PICK c : c = Emit(s, name)
  OBVIOUS
<1>4. /\ c \in Streamers /\ c.out = Append(s.out, Event(name, s.index))
      /\ c.started = s.started /\ c.thinking = s.thinking /\ c.text = s.text /\ c.index = s.index
  BY <1>1, <1>2, <1>3, Emitted
<1>5. Written(c.out, c.index, open)
  BY <1>1, <1>4, OutputArrives
<1>6. Begun(c)
  BY <1>4, <1>5 DEF Begun, OpenIn
<1> QED
  BY <1>3, <1>4, <1>6

(* Reasoning that arrives after text is left out; any other opens a block or is added to it. *)
LEMMA ThinkingKeeps ==
  ASSUME NEW s, Begun(s)
  PROVE  Begun(Thinking(s))
<1>1. PICK o : o = IF s.thinking \/ s.text THEN s
                   ELSE [Emit(s, "start_thinking") EXCEPT !.thinking = TRUE]
  OBVIOUS
<1>2. Begun(o) /\ (o.thinking \/ o.text)
  BY <1>1, OpenedThinking
<1>3. Thinking(s) = IF o.thinking THEN Emit(o, "thinking_delta") ELSE o
  BY <1>1 DEF Thinking
<1>4. CASE o.thinking
  <2>1. OpenIn(o) = "start_thinking" /\ "start_thinking" \in Opening
        /\ "thinking_delta" = DeltaIn["start_thinking"]
    BY <1>4 DEF OpenIn, Opening, DeltaIn
  <2> QED
    BY <1>2, <1>3, <1>4, <2>1, OutputEmitted
<1> QED
  BY <1>2, <1>3, <1>4

(* Text closes the thinking block and opens its own. *)
LEMMA TextKeeps ==
  ASSUME NEW s, Begun(s)
  PROVE  Begun(Text(s))
<1>1. PICK c : c = CloseThinking(s)
  OBVIOUS
<1>2. Begun(c) /\ ~c.thinking
  BY <1>1, ThinkingClosed
<1>3. PICK o : o = OpenText(c)
  OBVIOUS
<1>4. Begun(o) /\ o.text /\ ~o.thinking
  BY <1>2, <1>3, OpenedText
<1>5. OpenIn(o) = "start_text" /\ "start_text" \in Opening /\ "text_delta" = DeltaIn["start_text"]
  BY <1>4 DEF OpenIn, Opening, DeltaIn
<1> QED
  BY <1>1, <1>3, <1>4, <1>5, OutputEmitted DEF Text

(* Delta: whatever a chunk carries, the events nest after it. *)
LEMMA DeltaKeeps ==
  ASSUME NEW s, s = NewStreamer \/ Begun(s), NEW has, NEW calls \in 0 .. MaxCalls
  PROVE  Begun(StreamerDelta(s, has, calls))
<1>1. PICK b : b = Start(s)
  OBVIOUS
<1>2. Begun(b)
  BY <1>1, StartBegins
<1>3. PICK begun : begun = [b EXCEPT !.calls = IF "tool" \in has THEN calls ELSE @]
  OBVIOUS
<1>4. /\ begun \in Streamers /\ begun.started = b.started /\ begun.thinking = b.thinking
      /\ begun.text = b.text /\ begun.out = b.out /\ begun.index = b.index
  BY <1>2, <1>3 DEF Begun, Streamers
<1>5. Begun(begun)
  BY <1>2, <1>4 DEF Begun, OpenIn
<1>6. PICK t : t = IF "reason" \in has THEN Thinking(begun) ELSE begun
  OBVIOUS
<1>7. Begun(t)
  BY <1>5, <1>6, ThinkingKeeps
<1>8. StreamerDelta(s, has, calls) = IF "text" \in has THEN Text(t) ELSE t
  BY <1>1, <1>3, <1>6 DEF StreamerDelta
<1> QED
  BY <1>7, <1>8, TextKeeps

(* A call is flushed as a block of its own. *)
LEMMA CallFlushed ==
  ASSUME NEW s, Begun(s), ~s.thinking, ~s.text, s.calls > 0, NEW args \in BOOLEAN,
         NEW t, t = [CloseBlock(IF args THEN Emit(Emit(s, "start_tool"), "tool_delta")
                                        ELSE Emit(s, "start_tool")) EXCEPT !.calls = @ - 1]
  PROVE  Begun(t) /\ ~t.thinking /\ ~t.text
<1>1. /\ s \in Streamers /\ Written(s.out, s.index, "none") /\ "start_tool" \in Opening
      /\ s.started /\ "start_tool" \in EventNames /\ "tool_delta" \in EventNames
  BY DEF Begun, OpenIn, Opening, EventNames, Deltas
<1>2. PICK o : o = Emit(s, "start_tool")
  OBVIOUS
<1>3. /\ o \in Streamers /\ o.out = Append(s.out, Event("start_tool", s.index))
      /\ o.started /\ ~o.thinking /\ ~o.text /\ o.index = s.index /\ o.calls = s.calls
  BY <1>1, <1>2, Emitted
<1>4. Written(o.out, o.index, "start_tool")
  BY <1>1, <1>3, BlockOpens
<1>5. PICK d : d = Emit(o, "tool_delta")
  OBVIOUS
<1>6. /\ d \in Streamers /\ d.out = Append(o.out, Event("tool_delta", o.index))
      /\ d.started /\ ~d.thinking /\ ~d.text /\ d.index = o.index /\ d.calls = s.calls
  BY <1>1, <1>3, <1>5, Emitted, SMTT(30)
<1>7. "tool_delta" = DeltaIn["start_tool"]
  BY DEF DeltaIn
<1>8. Written(d.out, d.index, "start_tool")
  BY <1>1, <1>4, <1>6, <1>7, OutputArrives
<1>9. PICK f : f = IF args THEN d ELSE o
  OBVIOUS
<1>10. /\ f \in Streamers /\ Written(f.out, f.index, "start_tool")
       /\ f.started /\ ~f.thinking /\ ~f.text /\ f.calls = s.calls
  BY <1>3, <1>4, <1>6, <1>8, <1>9
<1>11. PICK c : c = CloseBlock(f)
  OBVIOUS
<1>12. /\ c \in Streamers /\ Written(c.out, c.index, "none")
       /\ c.started /\ ~c.thinking /\ ~c.text /\ c.calls = s.calls
  BY <1>1, <1>10, <1>11, BlockClosed
<1>13. t = [c EXCEPT !.calls = @ - 1]
  BY <1>2, <1>5, <1>9, <1>11
<1>14. /\ t \in Streamers /\ t.started /\ ~t.thinking /\ ~t.text /\ t.out = c.out /\ t.index = c.index
  <2>1. s.calls - 1 \in 0 .. MaxCalls
    BY <1>1, EventAssumption DEF Streamers
  <2> QED
    BY <1>12, <1>13, <2>1 DEF Streamers
<1> QED
  BY <1>12, <1>14 DEF Begun, OpenIn

(* The message ends after the last block. *)
LEMMA MessageEnds ==
  ASSUME NEW s, Begun(s), ~s.thinking, ~s.text,
         NEW t, t = Emit(Emit(s, "message_delta"), "message_stop")
  PROVE  t \in Streamers /\ \A i \in DOMAIN t.out : Nests(t.out, i)
<1>1. /\ s \in Streamers /\ Written(s.out, s.index, "none")
      /\ "message_delta" \in EventNames /\ "message_stop" \in EventNames
  BY DEF Begun, OpenIn, EventNames, Ending
<1>2. PICK ev : ev = s.out
  OBVIOUS
<1>3. ev \in Seq(Events) /\ Len(ev) \in Nat /\ Len(ev) > 0 /\ s.index \in Nat
  BY <1>1, <1>2 DEF Written
<1>4. PICK d : d = Emit(s, "message_delta")
  OBVIOUS
<1>5. PICK m \in Events : m = Event("message_delta", s.index) /\ m.name = "message_delta"
  BY <1>1, <1>3, EventFields
<1>6. PICK longer : longer = Append(ev, m)
  OBVIOUS
<1>7. d \in Streamers /\ d.out = longer /\ d.index = s.index
  BY <1>1, <1>2, <1>4, <1>5, <1>6, Emitted
<1>8. PICK e \in Events : e = Event("message_stop", s.index) /\ e.name = "message_stop"
  BY <1>1, <1>3, EventFields
<1>9. t \in Streamers /\ t.out = Append(longer, e)
  BY <1>1, <1>4, <1>7, <1>8, Emitted
<1>10. /\ longer \in Seq(Events) /\ Len(longer) = Len(ev) + 1 /\ longer[Len(ev) + 1] = m
       /\ \A j \in 1 .. Len(ev) : StillOpen(longer, j, Len(ev) + 1) <=> StillOpen(ev, j, Len(ev) + 1)
  BY <1>3, <1>6, OnePlaceOn
<1>11. Nests(longer, Len(ev) + 1)
  BY <1>1, <1>2, <1>3, <1>5, <1>10 DEF Nests, Written, Opening
<1>12. \A i \in 1 .. Len(longer) : Nests(longer, i) /\ (i < Len(longer) => longer[i].name \notin Ending)
  BY <1>1, <1>2, <1>6, <1>11, EventKeeps
<1>13. \A i \in 1 .. Len(longer) : Nests(longer, i) /\ longer[i].name \notin {"message_stop", "error"}
  <2>1. \A i \in 1 .. Len(longer) : i < Len(longer) \/ longer[i] = m
    BY <1>3, <1>10
  <2> QED
    BY <1>12, <2>1, <1>5 DEF Ending
<1>14. \A i \in 1 .. Len(longer) : Nests(t.out, i)
  BY <1>9, <1>10, <1>13, EarlierNest
<1>15. /\ Len(t.out) = Len(longer) + 1 /\ t.out[Len(longer) + 1] = e /\ t.out[Len(longer)] = m
       /\ DOMAIN t.out = 1 .. Len(longer) + 1
  BY <1>3, <1>9, <1>10
<1>16. Nests(t.out, Len(longer) + 1)
  BY <1>3, <1>5, <1>8, <1>10, <1>15 DEF Nests, Opening
<1>17. \A i \in DOMAIN t.out : i \in 1 .. Len(longer) \/ i = Len(longer) + 1
  BY <1>3, <1>10, <1>15
<1> QED
  BY <1>9, <1>14, <1>16, <1>17

(* An error is the last event, even the first. *)
LEMMA ErrorEnds ==
  ASSUME NEW s, s = NewStreamer \/ Begun(s), NEW t, t = Emit(s, "error")
  PROVE  t \in Streamers /\ \A i \in DOMAIN t.out : Nests(t.out, i)
<1>1. s \in Streamers /\ "error" \in EventNames
  <2>1. NewStreamer \in Streamers
    BY EventAssumption DEF NewStreamer, Streamers
  <2> QED
    BY <2>1 DEF Begun, EventNames, Ending
<1>2. PICK ev \in Seq(Events) : ev = s.out
  BY <1>1 DEF Streamers
<1>3. PICK e \in Events : e = Event("error", s.index) /\ e.name = "error"
  BY <1>1, EventFields DEF Streamers
<1>4. t \in Streamers /\ t.out = Append(ev, e)
  BY <1>1, <1>2, <1>3, Emitted
<1>5. Len(ev) \in Nat /\ Len(t.out) = Len(ev) + 1 /\ t.out[Len(ev) + 1] = e
  BY <1>2, <1>4
<1>6. Nests(t.out, Len(ev) + 1)
  BY <1>3, <1>5 DEF Nests, Opening
<1>7. \A i \in DOMAIN t.out : i \in 1 .. Len(ev) \/ i = Len(ev) + 1
  BY <1>4, <1>5
<1>8. ASSUME NEW i \in 1 .. Len(ev) PROVE Nests(t.out, i)
  <2>1. Written(ev, s.index, OpenIn(s))
    <3>1. s # NewStreamer
      BY <1>2, <1>8 DEF NewStreamer
    <3> QED
      BY <1>2, <3>1 DEF Begun
  <2> QED
    <3>1. Nests(ev, i) /\ ev[i].name \notin {"message_stop", "error"}
      BY <1>8, <2>1 DEF Written, Ending
    <3> QED
      BY <1>2, <1>4, <1>8, <3>1, EarlierNest
<1> QED
  BY <1>4, <1>6, <1>7, <1>8

-----------------------------------------------------------------------------
(* The handler.                                                            *)

EventInv ==
  /\ streamer \in Streamers /\ phase \in {"reading", "closing", "returned"}
  /\ phase = "reading" => streamer = NewStreamer \/ Begun(streamer)
  /\ phase = "closing" => Begun(streamer) /\ ~streamer.thinking /\ ~streamer.text
  /\ EventsNest

(* What the streamer's books say of its events is what is to be shown. *)
LEMMA BegunNests ==
  ASSUME NEW s, s = NewStreamer \/ Begun(s)
  PROVE  s \in Streamers /\ \A i \in DOMAIN s.out : Nests(s.out, i)
<1>1. CASE s = NewStreamer
  <2>1. s \in Streamers /\ s.out = <<>>
    BY <1>1, EventAssumption DEF NewStreamer, Streamers
  <2> QED
    BY <2>1
<1>2. CASE Begun(s)
  <2>1. s \in Streamers /\ s.out \in Seq(Events) /\ \A i \in 1 .. Len(s.out) : Nests(s.out, i)
    BY <1>2 DEF Begun, Written
  <2> QED
    BY <2>1
<1> QED
  BY <1>1, <1>2

(* Every step of streamResponse keeps the invariant. *)
LEMMA EventKeepsInv ==
  ASSUME EventInv, [EventNext]_eventVars
  PROVE  EventInv'
<1>1. CASE UNCHANGED eventVars
  <2>1. streamer' = streamer /\ phase' = phase
    BY <1>1 DEF eventVars
  <2> QED
    BY <2>1 DEF EventInv, EventsNest
<1>2. ASSUME NEW has, NEW calls \in 0 .. MaxCalls, TakesChunk(has, calls) PROVE EventInv'
  <2>1. phase = "reading" /\ phase' = phase /\ streamer' = StreamerDelta(streamer, has, calls)
    BY <1>2 DEF TakesChunk
  <2>2. Begun(streamer')
    BY <2>1, DeltaKeeps DEF EventInv
  <2>3. streamer' \in Streamers /\ EventsNest'
    BY <2>2, BegunNests DEF EventsNest
  <2> QED
    BY <2>1, <2>2, <2>3 DEF EventInv
<1>3. ASSUME NEW has, NEW calls \in 0 .. MaxCalls, TakesLast(has, calls) PROVE EventInv'
  <2>1. /\ phase = "reading" /\ phase' = "closing"
        /\ streamer' = CloseText(CloseThinking(Start(StreamerDelta(streamer, has, calls))))
    BY <1>3 DEF TakesLast
  <2>2. PICK d : d = Start(StreamerDelta(streamer, has, calls))
    OBVIOUS
  <2>3. Begun(d)
    BY <2>1, <2>2, DeltaKeeps, StartBegins DEF EventInv
  <2>4. PICK c : c = CloseThinking(d)
    OBVIOUS
  <2>5. Begun(c) /\ ~c.thinking
    BY <2>3, <2>4, ThinkingClosed
  <2>6. Begun(streamer') /\ ~streamer'.thinking /\ ~streamer'.text
    BY <2>1, <2>2, <2>4, <2>5, TextClosed
  <2>7. streamer' \in Streamers /\ EventsNest'
    BY <2>6, BegunNests DEF EventsNest
  <2> QED
    BY <2>1, <2>6, <2>7 DEF EventInv
<1>4. ASSUME NEW args \in BOOLEAN, FlushCall(args) PROVE EventInv'
  <2>1. /\ phase = "closing" /\ phase' = phase /\ streamer.calls > 0
        /\ streamer' = [CloseBlock(IF args THEN Emit(Emit(streamer, "start_tool"), "tool_delta")
                                   ELSE Emit(streamer, "start_tool")) EXCEPT !.calls = @ - 1]
    BY <1>4 DEF FlushCall
  <2>2. Begun(streamer) /\ ~streamer.thinking /\ ~streamer.text
    BY <2>1 DEF EventInv
  <2>3. Begun(streamer') /\ ~streamer'.thinking /\ ~streamer'.text
    BY <2>1, <2>2, CallFlushed
  <2>4. streamer' \in Streamers /\ EventsNest'
    BY <2>3, BegunNests DEF EventsNest
  <2> QED
    BY <2>1, <2>3, <2>4 DEF EventInv
<1>5. CASE Finishes
  <2>1. /\ phase = "closing" /\ phase' = "returned"
        /\ streamer' = Emit(Emit(streamer, "message_delta"), "message_stop")
    BY <1>5 DEF Finishes
  <2>2. Begun(streamer) /\ ~streamer.thinking /\ ~streamer.text
    BY <2>1 DEF EventInv
  <2>3. streamer' \in Streamers /\ EventsNest'
    BY <2>1, <2>2, MessageEnds DEF EventsNest
  <2> QED
    BY <2>1, <2>3 DEF EventInv
<1>6. CASE AnswerFails
  <2>1. phase = "reading" /\ phase' = "returned" /\ streamer' = Emit(streamer, "error")
    BY <1>6 DEF AnswerFails
  <2>2. streamer' \in Streamers /\ EventsNest'
    BY <2>1, ErrorEnds DEF EventsNest, EventInv
  <2> QED
    BY <2>1, <2>2 DEF EventInv
<1>7. CASE CallerLeaves
  <2>1. streamer' = streamer /\ phase' = "returned"
    BY <1>7 DEF CallerLeaves
  <2> QED
    BY <2>1 DEF EventInv, EventsNest
<1> QED
  BY <1>1, <1>2, <1>3, <1>4, <1>5, <1>6, <1>7 DEF EventNext

(* A new streamer has written nothing. *)
LEMMA EventStarts == EventInit => EventInv
<1> SUFFICES ASSUME EventInit PROVE EventInv
  OBVIOUS
<1>1. streamer \in Streamers /\ EventsNest
  BY BegunNests DEF EventInit, EventsNest
<1> QED
  BY <1>1 DEF EventInit, EventInv

(* The events written to a caller of the Anthropic interface nest, whatever the chunks
   are and wherever they end (EventsNest: AnthropicStreamer, streamResponse). *)
THEOREM EventStreamNests == EventSpec => []EventsNest
<1>1. EventInv => EventsNest
  BY DEF EventInv
<1> QED
  BY <1>1, EventStarts, EventKeepsInv, PTL DEF EventSpec

-----------------------------------------------------------------------------
(* The types of the run's parts.                                           *)

Places == Where \ {"accepted", "spawned"}

LoadInv ==
    /\ PoolInv /\ at \in [Goroutine -> Places]
    /\ yields \in [Job -> BOOLEAN]
    /\ kick \in BOOLEAN /\ reporter \in LoadRange \cup {-1}
    /\ carry \in [Job -> LoadRange \cup {-1}]
    /\ known \in LoadRange /\ knownBy \in {"reporter", "job"}

(* A local request waits for a slot or holds one, so the load that is reported
   is at most their number (localBusy). *)
LEMMA LoadWithinRange ==
  ASSUME PoolInv
  PROVE  LocalBusy \in LoadRange
<1> DEFINE W == Standing(at, Local, Waiting)
           H == Standing(at, Local, {"hold"})
<1>1. IsFiniteSet(Local) /\ W \subseteq Local /\ H \subseteq Local /\ W \cap H = {}
  BY PoolAssumption DEF Standing, Waiting
<1> HIDE DEF W, H
<1>2. IsFiniteSet(W) /\ IsFiniteSet(H)
  BY <1>1, FS_Subset
<1>3. Cardinality(W \cup H) = Cardinality(W) + Cardinality(H)
  <2>1. Cardinality(W \cup H) = Cardinality(W) + Cardinality(H) - Cardinality(W \cap H)
    BY <1>2, FS_Union
  <2>2. Cardinality(W \cap H) = 0
    BY <1>1, FS_EmptySet
  <2> QED
    BY <1>2, <2>1, <2>2, FS_CardinalityType
<1>4. Cardinality(W \cup H) <= Cardinality(Local) /\ Cardinality(Local) \in Nat
  <2>1. W \cup H \subseteq Local
    BY <1>1
  <2> QED
    BY <1>1, <2>1, FS_Subset, FS_CardinalityType
<1>5. LocalBusy = Cardinality(H) + Cardinality(W) /\ Cardinality(H) \in Nat /\ Cardinality(W) \in Nat
  BY <1>2, FS_CardinalityType DEF LocalBusy, PoolInv, Accounts, W, H
<1> QED
  BY <1>3, <1>4, <1>5 DEF LoadRange

(* Nobody who uses the pool of LocalLoad is at a place of another user's. *)
LEMMA LoadStays ==
  ASSUME at \in [Goroutine -> Places], LoadNext
  PROVE  at' \in [Goroutine -> Places]
<1>1. \A w \in [Goroutine -> Places] : Woken(w) \in [Goroutine -> Places]
  BY DEF Woken, Places, Where
<1>2. \A g \in Goroutine, x \in Places : [at EXCEPT ![g] = x] \in [Goroutine -> Places]
  OBVIOUS
<1>3. ASSUME NEW l \in Local, LocalArrives(l) \/ LocalHangsUp(l) \/ LocalStep(l)
      PROVE  at' \in [Goroutine -> Places]
  <2>1. l \in Goroutine
    BY DEF Goroutine
  <2>2. ASSUME NEW x \in Places, at' = [at EXCEPT ![l] = x] \/ at' = Woken([at EXCEPT ![l] = x])
        PROVE  at' \in [Goroutine -> Places]
    <3>1. PICK w \in [Goroutine -> Places] : w = [at EXCEPT ![l] = x]
      BY <1>2, <2>1
    <3> QED
      BY <1>1, <2>2, <3>1
  <2>3. {"announce", "try", "hold", "quit", "asleep", "release", "broadcast", "renotify",
         "unlist", "gone"} \subseteq Places
    BY DEF Places, Where
  <2>4. CASE LocalArrives(l) \/ Announce(l) \/ Renotify(l)
    BY <2>2, <2>3, <2>4 DEF LocalArrives, AcquireLocal, Announce, Renotify
  <2>5. CASE LocalHangsUp(l)
    BY <2>5 DEF LocalHangsUp
  <2>6. CASE TryLocal(l)
    BY <2>2, <2>3, <2>6 DEF TryLocal
  <2>7. CASE QuitLocal(l) \/ ReleaseLocal(l) \/ Release(l)
    BY <2>2, <2>3, <2>7 DEF QuitLocal, ReleaseLocal, Release
  <2>8. CASE ReleaseBroadcast(l)
    BY <2>2, <2>3, <2>8 DEF ReleaseBroadcast
  <2> QED
    BY <1>3, <2>4, <2>5, <2>6, <2>7, <2>8 DEF LocalStep, LocalPool
<1>4. ASSUME NEW j \in Job, JobArrives(j) \/ JobCancelled(j) \/ JobStep(j)
      PROVE  at' \in [Goroutine -> Places]
  <2>1. j \in Goroutine
    BY DEF Goroutine
  <2>2. ASSUME NEW x \in Places, at' = [at EXCEPT ![j] = x] \/ at' = Woken([at EXCEPT ![j] = x])
        PROVE  at' \in [Goroutine -> Places]
    <3>1. PICK w \in [Goroutine -> Places] : w = [at EXCEPT ![j] = x]
      BY <1>2, <2>1
    <3> QED
      BY <1>1, <2>2, <3>1
  <2>3. {"try", "hold", "asleep", "release", "broadcast", "busy", "renotify", "unlist",
         "gone"} \subseteq Places
    BY DEF Places, Where
  <2>4. CASE JobArrives(j) \/ BusySends(j)
    BY <2>2, <2>3, <2>4 DEF JobArrives, BusySends
  <2>5. CASE JobCancelled(j) \/ BusyReads(j)
    BY <2>5 DEF JobCancelled, BusyReads, poolVars
  <2>6. CASE TryJob(j, yields[j])
    BY <2>2, <2>3, <2>6 DEF TryJob
  <2>7. CASE Release(j)
    BY <2>2, <2>3, <2>7 DEF Release
  <2>8. CASE ReleaseBroadcast(j)
    BY <2>2, <2>3, <2>8 DEF ReleaseBroadcast
  <2>9. CASE JobEnds(j)
    <3>1. \E x \in {"release", "gone"} : at' = [at EXCEPT ![j] = x]
      BY <2>9 DEF JobEnds
    <3> QED
      BY <2>2, <2>3, <3>1
  <2> QED
    BY <1>4, <2>4, <2>5, <2>6, <2>7, <2>8, <2>9 DEF JobStep, JobPool
<1>5. ASSUME NEW g \in Goroutine, ContextFunc(g) PROVE at' \in [Goroutine -> Places]
  BY <1>1, <1>5 DEF ContextFunc, AfterFunc
<1>6. ASSUME NEW n \in Capacities, Resize(n) PROVE at' \in [Goroutine -> Places]
  BY <1>1, <1>6 DEF Resize, InitPool
<1>7. CASE ReporterReads \/ ReporterSends
  BY <1>7 DEF ReporterReads, ReporterSends, poolVars
<1> QED
  BY <1>3, <1>4, <1>5, <1>6, <1>7 DEF LoadNext

(* What is reported is a load there was (reportLocal, the busy report of a job). *)
LEMMA ReportsTyped ==
  ASSUME LoadInv, LoadNext
  PROVE  /\ yields' \in [Job -> BOOLEAN]
         /\ kick' \in BOOLEAN /\ reporter' \in LoadRange \cup {-1}
         /\ carry' \in [Job -> LoadRange \cup {-1}]
         /\ known' \in LoadRange /\ knownBy' \in {"reporter", "job"}
<1> DEFINE Typed == /\ yields' \in [Job -> BOOLEAN]
                    /\ kick' \in BOOLEAN /\ reporter' \in LoadRange \cup {-1}
                    /\ carry' \in [Job -> LoadRange \cup {-1}]
                    /\ known' \in LoadRange /\ knownBy' \in {"reporter", "job"}
<1>1. LocalBusy \in LoadRange
  BY LoadWithinRange DEF LoadInv
<1>2. ASSUME UNCHANGED <<yields, reporter, carry, known, knownBy>>, kick' \in {TRUE, kick} PROVE Typed
  BY <1>2 DEF LoadInv
<1>3. ASSUME NEW l \in Local, LocalArrives(l) \/ LocalHangsUp(l) \/ LocalStep(l) PROVE Typed
  BY <1>2, <1>3 DEF LocalArrives, LocalHangsUp, LocalStep, LocalPool, Announce, Renotify, loadVars
<1>4. ASSUME NEW j \in Job, JobArrives(j) \/ JobCancelled(j) \/ JobStep(j) PROVE Typed
  <2>1. CASE BusyReads(j)
    BY <1>1, <2>1 DEF BusyReads, LoadInv
  <2>2. CASE BusySends(j)
    <3>1. carry[j] \in LoadRange
      BY <2>2 DEF BusySends, LoadInv
    <3> QED
      BY <2>2, <3>1 DEF BusySends, LoadInv
  <2> QED
    BY <1>2, <1>4, <2>1, <2>2 DEF JobArrives, JobCancelled, JobStep, JobPool, JobEnds, loadVars
<1>5. ASSUME NEW g \in Goroutine, ContextFunc(g) PROVE Typed
  BY <1>2, <1>5 DEF ContextFunc, loadVars
<1>6. ASSUME NEW n \in Capacities, Resize(n) PROVE Typed
  BY <1>2, <1>6 DEF Resize, loadVars
<1>7. CASE ReporterReads
  BY <1>1, <1>7 DEF ReporterReads, LoadInv
<1>8. CASE ReporterSends
  BY <1>8 DEF ReporterSends, LoadInv
<1> QED
  BY <1>3, <1>4, <1>5, <1>6, <1>7, <1>8 DEF LoadNext

(* Every step of the pool and its reports keeps LoadInv. *)
LEMMA LoadKeepsInv == LoadInv /\ [LoadNext]_allLoadVars => LoadInv'
<1> SUFFICES ASSUME LoadInv, [LoadNext]_allLoadVars PROVE LoadInv'
  OBVIOUS
<1>1. PoolInv'
  BY LoadKeepsPool DEF LoadInv, SlotStep
<1>2. CASE LoadNext
  BY <1>1, <1>2, LoadStays, ReportsTyped DEF LoadInv
<1>3. CASE UNCHANGED allLoadVars
  BY <1>1, <1>3 DEF LoadInv, allLoadVars, poolVars, loadVars, LoadRange
<1> QED
  BY <1>2, <1>3

(* The pool starts empty, nothing is reported. *)
LEMMA LoadStarts == LoadInit => LoadInv
<1> SUFFICES ASSUME LoadInit PROVE LoadInv
  OBVIOUS
<1>1. 0 \in LoadRange
  BY PoolAssumption, FS_CardinalityType DEF LoadRange
<1>2. at \in [Goroutine -> Places]
  BY DEF LoadInit, Places, Where
<1> QED
  BY <1>1, <1>2, LoadPoolInit DEF LoadInit, LoadInv

(* LoadInv contains the types. *)
LEMMA LoadTyped == LoadInv => LoadTypeOK
<1> SUFFICES ASSUME LoadInv PROVE LoadTypeOK
  OBVIOUS
<1>1. Places = {"idle", "announce", "try", "asleep", "hold", "quit", "busy",
                "release", "broadcast", "renotify", "unlist", "gone"}
  BY DEF Places, Where
<1> QED
  BY <1>1 DEF LoadInv, LoadTypeOK, PoolInv, Contexts

-----------------------------------------------------------------------------
\* The part that moves keeps its own invariant; the queue's holds in each of them.
PartsInv ==
    /\ part \in {"load", "health", "stream", "events", "queue"}
    /\ part = "load" => LoadInv
    /\ part = "health" => HealthInv
    /\ part = "stream" => StreamInv
    /\ part = "events" => EventInv
    /\ QueueInv

(* A step of one part leaves the others' invariants alone. *)
LEMMA PartsKeepInv ==
  ASSUME NoBlankId, PartsInv, [PartsNext]_partsVars
  PROVE  PartsInv'
<1>1. CASE part = "load" /\ part' = part /\ LoadNext /\ UNCHANGED vars
  <2>1. LoadInv' /\ QueueInv'
    BY <1>1, LoadKeepsInv, NextKeepsInv DEF PartsInv
  <2> QED
    BY <1>1, <2>1 DEF PartsInv
<1>2. CASE part = "health" /\ part' = part /\ HealthNext /\ UNCHANGED vars
  <2>1. HealthInv' /\ QueueInv'
    BY <1>2, HealthKeepsTypes, NextKeepsInv DEF PartsInv
  <2> QED
    BY <1>2, <2>1 DEF PartsInv
<1>3. CASE part = "stream" /\ part' = part /\ StreamNext /\ UNCHANGED vars
  <2>1. StreamInv' /\ QueueInv'
    BY <1>3, StreamKeeps, NextKeepsInv DEF PartsInv
  <2> QED
    BY <1>3, <2>1 DEF PartsInv
<1>4. CASE part = "events" /\ part' = part /\ EventNext /\ UNCHANGED vars
  <2>1. EventInv' /\ QueueInv'
    BY <1>4, EventKeepsInv, NextKeepsInv DEF PartsInv
  <2> QED
    BY <1>4, <2>1 DEF PartsInv
<1>5. CASE part = "queue" /\ part' = part /\ Next
  <2>1. QueueInv'
    BY <1>5, NextKeepsInv DEF PartsInv
  <2> QED
    BY <1>5, <2>1 DEF PartsInv
<1>6. CASE UNCHANGED partsVars
  <2>1. part' = part /\ UNCHANGED <<allLoadVars, healthVars, streamVars, eventVars, vars>>
    BY <1>6 DEF partsVars
  <2>2. /\ LoadInv => LoadInv'
        /\ HealthInv => HealthInv'
        /\ QueueInv => QueueInv'
    BY <2>1, LoadKeepsInv, HealthKeepsTypes, NextKeepsInv
  <2>3. /\ StreamInv => StreamInv'
        /\ EventInv => EventInv'
    BY <2>1, StreamKeeps, EventKeepsInv
  <2> QED
    BY <2>1, <2>2, <2>3 DEF PartsInv
<1> QED
  BY <1>1, <1>2, <1>3, <1>4, <1>5, <1>6 DEF PartsNext

(* Each component keeps its types, whatever its constants, and with them the bounds
   they state: a report never names more local requests than there are, a breaker
   counts the requests on its model, and its withdrawal is that of the failures in
   a row, however results interleave. *)
THEOREM PartsTyped == NoBlankId => (PartsSpec => []PartsTypeOK)
<1> SUFFICES ASSUME NoBlankId PROVE PartsSpec => []PartsTypeOK
  BY DEF NoBlankId
<1>1. PartsInit => PartsInv
  <2> SUFFICES ASSUME PartsInit PROVE PartsInv
    OBVIOUS
  <2>1. QueueInv
    BY DEF PartsInit, Init, QueueInv, TypeOK, IndexInverse
  <2> QED
    BY <2>1, LoadStarts, HealthStarts, StreamStarts, EventStarts DEF PartsInit, PartsInv
<1>2. PartsInv /\ [PartsNext]_partsVars => PartsInv'
  BY PartsKeepInv
<1>3. PartsInv => PartsTypeOK
  <2> SUFFICES ASSUME PartsInv PROVE PartsTypeOK
    OBVIOUS
  <2>1. CASE part = "load"
    BY <2>1, LoadTyped DEF PartsInv, PartsTypeOK
  <2>2. CASE part = "health"
    BY <2>2 DEF PartsInv, PartsTypeOK, HealthInv
  <2>3. CASE part = "stream"
    BY <2>3, StreamTyped DEF PartsInv, PartsTypeOK, StreamInv
  <2>4. CASE part = "events"
    <3>1. EventTypeOK
      BY <2>4 DEF PartsInv, EventInv, EventTypeOK, Streamers, Events
    <3> QED
      BY <2>4, <3>1 DEF PartsTypeOK
  <2>5. CASE part = "queue"
    BY <2>5 DEF PartsInv, PartsTypeOK, QueueInv
  <2> QED
    BY <2>1, <2>2, <2>3, <2>4, <2>5 DEF PartsInv
<1> QED
  BY <1>1, <1>2, <1>3, PTL DEF PartsSpec
=============================================================================
