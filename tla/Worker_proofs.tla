---------------------------- MODULE Worker_proofs ----------------------------
(***************************************************************************)
(* A worker process, for every set of jobs, local requests, capacities and *)
(* features, and any number of connections.                                *)
(***************************************************************************)
EXTENDS Worker, SlotPool_proofs

-----------------------------------------------------------------------------
(* The pool.                                                               *)

\* A step of the pool's users: the counters stay right, and whoever takes a slot
\* takes it within the capacity and after the local requests.
Takes(g) == Taken(g) => /\ Free /\ pool'.inFlight = pool.inFlight + 1
                        /\ g \in Job => pool.localWaiters = 0
PoolStep == PoolInv' /\ \A g \in Goroutine : Takes(g)

(* The process starts with an empty pool, which main may have sized. *)
LEMMA WorkerPoolInit ==
  ASSUME Init
  PROVE  PoolInv
<1>1. at \in [Goroutine -> {"idle", "gone"}] /\ ended \in [Goroutine -> Contexts]
  BY DEF Init, Contexts
<1>2. /\ Standing(at, Goroutine, Holding) = {} /\ Standing(at, Local, Waiting) = {}
      /\ Standing(at, Local, {"hold"}) = {}
  BY <1>1 DEF Standing, Holding, Waiting, Goroutine
<1>3. pool \in Pools /\ pool.inFlight = 0 /\ pool.localWaiters = 0 /\ pool.localInFlight = 0
  <2>1. CASE pool = EmptyPool
    BY <2>1 DEF EmptyPool, Pools
  <2>2. ASSUME NEW n \in Capacities, pool = [EmptyPool EXCEPT !.capacity = n, !.ready = TRUE]
        PROVE  pool \in Pools /\ pool.inFlight = 0 /\ pool.localWaiters = 0 /\ pool.localInFlight = 0
    <3>1. n \in Nat
      BY PoolAssumption
    <3>2. pool = [capacity |-> n, ready |-> TRUE, inFlight |-> 0, localWaiters |-> 0, localInFlight |-> 0]
      BY <2>2 DEF EmptyPool
    <3> QED
      BY <3>1, <3>2 DEF Pools
  <2> QED
    BY <2>1, <2>2 DEF Init
<1>4. Cardinality({}) = 0
  BY FS_EmptySet
<1>5. at \in [Goroutine -> Where]
  BY <1>1 DEF Where
<1> QED
  BY <1>1, <1>2, <1>3, <1>4, <1>5 DEF PoolInv, Accounts

(* A step that moves one goroutine without its taking, leaving or asking for a
   slot counts nothing. *)
LEMMA MovedStep ==
  ASSUME PoolInv, NEW g \in Goroutine, NEW x \in Where, pool' = pool,
         ended' \in [Goroutine -> Contexts], at' = [at EXCEPT ![g] = x],
         at[g] \in Holding <=> x \in Holding,
         g \in Local => (at[g] \in Waiting <=> x \in Waiting),
         g \in Local => (at[g] = "hold" <=> x = "hold")
  PROVE  PoolStep
<1>1. Accounts(pool, at') /\ at' \in [Goroutine -> Where]
  BY UncountedMove
<1>2. PoolInv'
  BY <1>1 DEF PoolInv
<1>3. \A h \in Goroutine : ~Taken(h)
  BY DEF Taken, PoolInv
<1> QED
  BY <1>2, <1>3 DEF PoolStep, Takes

(* So does one that leaves all of them where they are. *)
LEMMA StillStep ==
  ASSUME PoolInv, UNCHANGED <<pool, at>>, ended' \in [Goroutine -> Contexts]
  PROVE  PoolStep
BY DEF PoolInv, PoolStep, Takes, Taken

(* A step of a local request (handleChatCompletions, AcquireLocal, ReleaseLocal). *)
LEMMA LocalKeepsPool ==
  ASSUME PoolInv, NEW l \in Local, LocalArrives(l) \/ LocalHangsUp(l) \/ LocalStep(l)
  PROVE  PoolStep
<1>1. l \in Goroutine /\ at \in [Goroutine -> Where] /\ l \notin Job
      /\ ended \in [Goroutine -> Contexts]
  BY PoolAssumption DEF PoolInv, Goroutine
<1>2. ASSUME \A h \in Goroutine : ~Taken(h), PoolInv' PROVE PoolStep
  BY <1>2 DEF PoolStep, Takes
<1>3. CASE LocalArrives(l)
  <2>1. \A h \in Goroutine : ~Taken(h)
    BY <1>1, <1>3 DEF LocalArrives, AcquireLocal, Taken, Holding
  <2> QED
    BY <1>2, <1>3, <2>1, AcquireCounted DEF LocalArrives
<1>4. CASE LocalHangsUp(l)
  BY <1>1, <1>4, StillStep, ContextsTyped DEF LocalHangsUp
<1>5. CASE LocalNotifies(l)
  <2>1. PICK x \in {"try", "gone"} : at' = [at EXCEPT ![l] = x] /\ (x = "try" <=> at[l] = "announce")
                                     /\ at[l] \in {"announce", "renotify"} /\ UNCHANGED <<pool, ended>>
    BY <1>5 DEF LocalNotifies
  <2> QED
    BY <1>1, <2>1, MovedStep DEF Holding, Waiting, Where
<1>6. CASE TryLocal(l)
  BY <1>1, <1>6, TryLocalCounted DEF PoolStep, Takes
<1>7. CASE QuitLocal(l)
  <2>1. \A h \in Goroutine : ~Taken(h)
    BY <1>1, <1>7 DEF QuitLocal, Taken, Woken, Holding
  <2> QED
    BY <1>2, <1>7, <2>1, QuitCounted
<1>8. CASE ReleaseLocal(l)
  <2>1. \A h \in Goroutine : ~Taken(h)
    BY <1>1, <1>8 DEF ReleaseLocal, Taken, Holding
  <2> QED
    BY <1>2, <1>8, <2>1, ReleaseLocalCounted
<1>9. CASE Release(l)
  <2>1. \A h \in Goroutine : ~Taken(h)
    BY <1>1, <1>9 DEF Release, Taken, Holding
  <2> QED
    BY <1>1, <1>2, <1>9, <2>1, ReleaseCounted
<1>10. CASE ReleaseBroadcast(l)
  <2>1. \A h \in Goroutine : ~Taken(h)
    BY <1>1, <1>10 DEF ReleaseBroadcast, Taken, Woken, Holding
  <2> QED
    BY <1>1, <1>2, <1>10, <2>1, UncountedSteps
<1> QED
  BY <1>3, <1>4, <1>5, <1>6, <1>7, <1>8, <1>9, <1>10 DEF LocalStep

(* A step of a job goroutine (conn.go runJob, acquireRouterOrYield, Release). *)
LEMMA JobKeepsPool ==
  ASSUME PoolInv, NEW j \in Job, JobStep(j)
  PROVE  PoolStep
<1>1. j \in Goroutine /\ at \in [Goroutine -> Where] /\ j \notin Local
      /\ ended \in [Goroutine -> Contexts]
  BY PoolAssumption DEF PoolInv, Goroutine
<1>2. ASSUME \A h \in Goroutine : ~Taken(h), PoolInv' PROVE PoolStep
  BY <1>2 DEF PoolStep, Takes
<1>3. CASE JobStart(j) \/ BusyReturn(j)
  <2>1. PICK x \in {"try", "unlist"} : at' = [at EXCEPT ![j] = x] /\ UNCHANGED <<pool, ended>>
                                       /\ at[j] \in {"spawned", "busy"}
    BY <1>3 DEF JobStart, BusyReturn
  <2> QED
    BY <1>1, <2>1, MovedStep DEF Holding, Where
<1>4. CASE DispatchDone(j) \/ DispatchError(j) \/ DispatchAborted(j) \/ DispatchPanics(j)
  <2>1. at[j] = "hold" /\ at' = [at EXCEPT ![j] = "release"] /\ UNCHANGED <<pool, ended>>
    BY <1>4 DEF DispatchDone, DispatchError, DispatchAborted, DispatchPanics
  <2> QED
    BY <1>1, <2>1, MovedStep DEF Holding, Where
<1>5. CASE Recover(j)
  BY <1>1, <1>5, StillStep DEF Recover, poolVars
<1>6. CASE Unlist(j)
  <2>1. /\ at[j] = "unlist" /\ at' = [at EXCEPT ![j] = "gone"] /\ pool' = pool
        /\ ended' = [ended EXCEPT ![j] = "no"]
    BY <1>6 DEF Unlist, Forget
  <2>2. ended' \in [Goroutine -> Contexts]
    BY <1>1, <2>1 DEF Contexts
  <2> QED
    BY <1>1, <2>1, <2>2, MovedStep DEF Holding, Where
<1>7. CASE JobTry(j)
  BY <1>1, <1>7, TryJobCounted DEF JobTry, PoolStep, Takes
<1>8. CASE Release(j)
  <2>1. \A h \in Goroutine : ~Taken(h)
    BY <1>1, <1>8 DEF Release, Taken, Holding
  <2> QED
    BY <1>1, <1>2, <1>8, <2>1, ReleaseCounted
<1>9. CASE ReleaseBroadcast(j)
  <2>1. \A h \in Goroutine : ~Taken(h)
    BY <1>1, <1>9 DEF ReleaseBroadcast, Taken, Woken, Holding
  <2> QED
    BY <1>1, <1>2, <1>9, <2>1, UncountedSteps
<1> QED
  BY <1>3, <1>4, <1>5, <1>6, <1>7, <1>8, <1>9 DEF JobStep, LeaveSlot

(* A step of the connection or of the shutdown (connect, the reader, the
   watchers). *)
LEMMA LinkKeepsPool ==
  ASSUME PoolInv, run.pc = "accept" => run.job \in Job /\ at[run.job] = "accepted",
         \/ Connect \/ Register \/ Disconnect \/ RunReturns \/ SpawnJob \/ Signal \/ ShutStep
         \/ \E n \in Capacities : ProbeModels(n) \/ Reregister(n)
         \/ \E f \in Features : MsgRegistered(f)
         \/ \E j \in Job : MsgJob(j)
         \/ \E i \in Ids : MsgCancel(i)
         \/ \E g \in Goroutine : ContextFunc(g)
  PROVE  PoolStep
<1>1. at \in [Goroutine -> Where] /\ ended \in [Goroutine -> Contexts]
      /\ \A j \in Job : j \in Goroutine /\ j \notin Local
  BY PoolAssumption DEF PoolInv, Goroutine
<1>2. CASE \/ Connect \/ Register \/ RunReturns \/ Signal \/ \E f \in Features : MsgRegistered(f)
  BY <1>1, <1>2, StillStep DEF Connect, Register, RunReturns, Signal, MsgRegistered, poolVars
<1>3. CASE Disconnect \/ \E i \in Ids : MsgCancel(i)
  <2>1. UNCHANGED <<pool, at>> /\ \E G : ended' = Cancelled(G)
    BY <1>3 DEF Disconnect, MsgCancel, Hush
  <2> QED
    BY <1>1, <2>1, StillStep, ContextsTyped
<1>4. CASE ShutStep
  <2>1. UNCHANGED <<pool, at>> /\ (ended' = ended \/ \E G : ended' = Cancelled(G))
    BY <1>4 DEF ShutStep, ShutBegins, ShutIdle, ShutAnnounces, ShutDrained, ShutGivesUp, ShutCollects,
                ShutCancels, ShutReleases, Hush, poolVars
  <2> QED
    BY <1>1, <2>1, StillStep, ContextsTyped
<1>5. ASSUME NEW n \in Capacities, ProbeModels(n) \/ Reregister(n) PROVE PoolStep
  <2>1. InitPool(n) /\ UNCHANGED ended
    BY <1>5 DEF ProbeModels, Reregister
  <2>2. PoolInv' /\ \A g \in Goroutine : ~Taken(g)
    BY <1>1, <2>1, UncountedSteps DEF InitPool, Taken, Woken, Holding
  <2> QED
    BY <2>2 DEF PoolStep, Takes
<1>6. ASSUME NEW j \in Job, MsgJob(j) PROVE PoolStep
  <2>1. PICK x \in {"gone", "accepted"} : at' = [at EXCEPT ![j] = x]
    BY <1>6 DEF MsgJob
  <2>2. at[j] = "idle" /\ UNCHANGED <<pool, ended>>
    BY <1>6 DEF MsgJob
  <2> QED
    BY <1>1, <2>1, <2>2, MovedStep DEF Holding, Where
<1>7. CASE SpawnJob
  <2>1. /\ run.job \in Job /\ at[run.job] = "accepted" /\ pool' = pool
        /\ at' = [at EXCEPT ![run.job] = "spawned"]
        /\ ended' = [ended EXCEPT ![run.job] = IF ctxDone THEN "over" ELSE @]
    BY <1>7 DEF SpawnJob
  <2>2. ended' \in [Goroutine -> Contexts]
    BY <1>1, <2>1 DEF Contexts
  <2> QED
    BY <1>1, <2>1, <2>2, MovedStep DEF Holding, Where
<1>8. ASSUME NEW g \in Goroutine, ContextFunc(g) PROVE PoolStep
  <2>1. PoolInv' /\ at' = Woken(at)
    BY <1>8, UncountedSteps DEF ContextFunc, AfterFunc
  <2>2. \A h \in Goroutine : ~Taken(h)
    BY <1>1, <2>1 DEF Taken, Woken, Holding
  <2> QED
    BY <2>1, <2>2 DEF PoolStep, Takes
<1> QED
  BY <1>2, <1>3, <1>4, <1>5, <1>6, <1>7, <1>8

-----------------------------------------------------------------------------
(* Types.                                                                  *)

Runs == [pc : {"off", "probe", "register", "read", "accept", "stopped"},
         n : 0 .. MaxConns, job : Job \cup {None}]
Shuts == [pc : {"off", "watch", "announce", "drain", "collect", "handback", "close"}, ids : SUBSET Ids]

\* The socket that may be written to is that of the connection at hand.
LinkTyped ==
    /\ run \in Runs /\ (run.pc = "accept" => run.job \in Job /\ at[run.job] = "accepted")
    /\ ws \in {0, run.n} /\ ctxDone \in BOOLEAN
    /\ feats \in SUBSET {"local_busy", "drain"}
JobTyped ==
    /\ home \in [Job -> 0 .. MaxConns] /\ \A j \in Job : home[j] <= run.n
    /\ yields \in [Job -> BOOLEAN] /\ panicked \subseteq Job
    /\ cancels \in [Ids -> Job \cup {None}]
    /\ told \in [Job -> SUBSET {"done", "back"}]
StopTyped ==
    /\ draining \in BOOLEAN /\ stop \in BOOLEAN /\ shut \in Shuts

WorkerTyped == LinkTyped /\ JobTyped /\ StopTyped

(* What a job tells the router keeps the table of what was told (the send
   closure). *)
LEMMA TellTyped ==
  ASSUME told \in [Job -> SUBSET {"done", "back"}], NEW j \in Job, NEW m \in {"done", "back"}, Tell(j, m)
  PROVE  told' \in [Job -> SUBSET {"done", "back"}]
BY DEF Tell

(* A step of a job goroutine keeps the types; only the reader's hand-over is
   "accepted", and no job goroutine touches it. *)
LEMMA JobKeepsTypes ==
  ASSUME WorkerTyped, PoolInv, NEW j \in Job, JobStep(j)
  PROVE  WorkerTyped'
<1> USE DEF WorkerTyped
<1>1. j \in Goroutine /\ at \in [Goroutine -> Where] /\ IdOf[j] \in Ids
      /\ None \notin Job /\ told \in [Job -> SUBSET {"done", "back"}]
  BY WorkerAssumption DEF PoolInv, Goroutine, Ids, JobTyped
<1>2. at[j] # "accepted" /\ UNCHANGED <<linkVars, stopVars>>
  BY DEF JobStep, JobStart, JobTry, TryJob, BusyReturn, DispatchDone, DispatchError, DispatchAborted,
         DispatchPanics, LeaveSlot, Release, ReleaseBroadcast, Recover, Unlist
<1>3. \A k \in Job : at[k] = "accepted" => at'[k] = "accepted"
  <2>1. \/ at' = at \/ \E x : at' = [at EXCEPT ![j] = x] \/ at' = Woken([at EXCEPT ![j] = x])
    BY DEF JobStep, JobStart, JobTry, TryJob, BusyReturn, DispatchDone, DispatchError, DispatchAborted,
         DispatchPanics, LeaveSlot, Release, ReleaseBroadcast, Recover, Unlist, Forget, poolVars
  <2> QED
    BY <1>1, <1>2, <2>1 DEF Woken, Goroutine
<1>4. LinkTyped' /\ StopTyped'
  BY <1>2, <1>3 DEF LinkTyped, StopTyped, linkVars, stopVars
<1>5. run' = run
  BY <1>2 DEF linkVars
<1>6. CASE UNCHANGED <<jobVars, told>>
  BY <1>4, <1>5, <1>6 DEF JobTyped, jobVars
<1>7. CASE JobStart(j)
  BY <1>4, <1>5, <1>7 DEF JobStart, JobTyped
<1>8. CASE DispatchPanics(j)
  BY <1>4, <1>5, <1>8 DEF DispatchPanics, JobTyped
<1>9. CASE BusyReturn(j) \/ DispatchDone(j) \/ DispatchError(j) \/ Recover(j)
  <2>1. /\ UNCHANGED <<home, yields, cancels>> /\ panicked' \subseteq panicked
        /\ \E m \in {"done", "back"} : Tell(j, m)
    BY <1>9 DEF BusyReturn, DispatchDone, DispatchError, Recover, jobVars
  <2>2. told' \in [Job -> SUBSET {"done", "back"}]
    BY <1>1, <2>1, TellTyped
  <2> QED
    BY <1>4, <1>5, <2>1, <2>2 DEF JobTyped
<1>10. CASE Unlist(j)
  <2>1. /\ home' = [home EXCEPT ![j] = 0] /\ yields' = [yields EXCEPT ![j] = FALSE]
        /\ told' = [told EXCEPT ![j] = {}] /\ panicked' = panicked
        /\ cancels' = [cancels EXCEPT ![IdOf[j]] = None]
    BY <1>10 DEF Unlist, Forget
  <2>2. run \in Runs /\ run.n \in 0 .. MaxConns /\ 0 \in 0 .. MaxConns
    BY WorkerAssumption DEF LinkTyped, Runs
  <2>3. home' \in [Job -> 0 .. MaxConns] /\ \A k \in Job : home'[k] <= run.n
    BY <2>1, <2>2 DEF JobTyped
  <2> QED
    BY <1>4, <1>5, <2>1, <2>3 DEF JobTyped
<1>11. CASE JobTry(j) \/ LeaveSlot(j) \/ DispatchAborted(j)
  BY <1>6, <1>11 DEF JobTry, LeaveSlot, DispatchAborted
<1> QED
  BY <1>7, <1>8, <1>9, <1>10, <1>11 DEF JobStep

(* A local request has nothing to do with the connection. *)
LEMMA LocalKeepsTypes ==
  ASSUME WorkerTyped, PoolInv, NEW l \in Local, LocalArrives(l) \/ LocalHangsUp(l) \/ LocalStep(l)
  PROVE  WorkerTyped'
<1>1. l \in Goroutine /\ l \notin Job /\ at \in [Goroutine -> Where]
  BY PoolAssumption DEF PoolInv, Goroutine
<1>2. UNCHANGED <<jobVars, linkVars, stopVars, told>>
  BY DEF LocalArrives, LocalHangsUp, LocalStep, LocalNotifies
<1>3. \A k \in Job : at[k] = "accepted" => at'[k] = "accepted"
  <2>1. \/ at' = at \/ \E x : at' = [at EXCEPT ![l] = x] \/ at' = Woken([at EXCEPT ![l] = x])
    BY DEF LocalArrives, AcquireLocal, LocalHangsUp, LocalStep, LocalNotifies, TryLocal, QuitLocal,
           ReleaseLocal, Release, ReleaseBroadcast
  <2> QED
    BY <1>1, <2>1 DEF Woken, Goroutine
<1> QED
  BY <1>2, <1>3 DEF WorkerTyped, LinkTyped, JobTyped, StopTyped, jobVars, linkVars, stopVars

(* A step of the connection or of the shutdown keeps the types. *)
LEMMA LinkKeepsTypes ==
  ASSUME WorkerTyped, PoolInv,
         \/ Connect \/ Register \/ Disconnect \/ RunReturns \/ SpawnJob \/ Signal \/ ShutStep
         \/ \E n \in Capacities : ProbeModels(n) \/ Reregister(n)
         \/ \E f \in Features : MsgRegistered(f)
         \/ \E j \in Job : MsgJob(j)
         \/ \E i \in Ids : MsgCancel(i)
         \/ \E g \in Goroutine : ContextFunc(g)
  PROVE  WorkerTyped'
<1> USE DEF WorkerTyped
<1>1. /\ at \in [Goroutine -> Where] /\ \A j \in Job : j \in Goroutine
      /\ None \notin Job /\ MaxConns \in Nat /\ Features \in SUBSET SUBSET {"local_busy", "drain"}
      /\ \A j \in Job : IdOf[j] \in Ids
  BY WorkerAssumption DEF PoolInv, Goroutine, Ids
<1>2. run \in Runs /\ run.n \in 0 .. MaxConns /\ run.job \in Job \cup {None} /\ 0 \in 0 .. MaxConns
  BY <1>1 DEF LinkTyped, Runs
<1>3. CASE Connect
  <2>1. /\ run.n < MaxConns /\ run' = [pc |-> "probe", n |-> run.n + 1, job |-> None]
        /\ ws' = run.n + 1 /\ ctxDone' = FALSE /\ feats' = {}
        /\ shut' = [pc |-> "watch", ids |-> {}]
        /\ UNCHANGED <<jobVars, draining, stop, told>>
    BY <1>3 DEF Connect
  <2>2. run.n + 1 \in 0 .. MaxConns
    BY <1>1, <1>2, <2>1
  <2>3. LinkTyped'
    BY <2>1, <2>2 DEF LinkTyped, Runs
  <2>4. JobTyped'
    <3>1. \A j \in Job : home[j] \in Nat /\ home[j] <= run.n + 1
      BY <1>2 DEF JobTyped
    <3> QED
      BY <2>1, <3>1 DEF JobTyped, jobVars
  <2>5. StopTyped'
    BY <2>1 DEF StopTyped, Shuts
  <2> QED
    BY <2>3, <2>4, <2>5
<1>4. ASSUME NEW x \in {"off", "stopped", "read", "register"}, run' = [run EXCEPT !.pc = x],
             ws' \in {0, ws}, ctxDone' \in BOOLEAN, UNCHANGED <<feats, jobVars, stopVars, told>>
      PROVE  WorkerTyped'
  <2>1. run' \in Runs /\ run'.pc = x /\ run'.n = run.n
    BY <1>2, <1>4 DEF Runs
  <2>2. LinkTyped'
    BY <1>4, <2>1 DEF LinkTyped
  <2> QED
    BY <1>4, <2>1, <2>2 DEF JobTyped, StopTyped, jobVars, stopVars
<1>5. CASE Register \/ Disconnect \/ RunReturns \/ \E n \in Capacities : ProbeModels(n)
  <2>1. ctxDone \in BOOLEAN
    BY DEF LinkTyped
  <2>2. \/ run' = [run EXCEPT !.pc = "read"] \/ run' = [run EXCEPT !.pc = "off"]
        \/ run' = [run EXCEPT !.pc = "stopped"] \/ run' = [run EXCEPT !.pc = "register"]
    BY <1>5 DEF Register, Disconnect, RunReturns, ProbeModels
  <2>3. ws' \in {0, ws} /\ ctxDone' \in BOOLEAN /\ UNCHANGED <<feats, jobVars, stopVars, told>>
    BY <1>5, <2>1 DEF Register, Disconnect, RunReturns, ProbeModels
  <2> QED
    BY <1>4, <2>2, <2>3
<1>6. ASSUME UNCHANGED linkVars, UNCHANGED <<home, yields, panicked>>,
             cancels' \in [Ids -> Job \cup {None}], told' \in [Job -> SUBSET {"done", "back"}],
             draining' \in BOOLEAN, stop' \in BOOLEAN, shut' \in Shuts,
             at' = at \/ at' = Woken(at)
      PROVE  WorkerTyped'
  <2>1. \A k \in Job : at[k] = "accepted" => at'[k] = "accepted"
    BY <1>1, <1>6 DEF Woken
  <2> QED
    BY <1>6, <2>1 DEF LinkTyped, JobTyped, StopTyped, linkVars
<1>7. CASE (\E n \in Capacities : Reregister(n)) \/ (\E g \in Goroutine : ContextFunc(g)) \/ Signal
  BY <1>6, <1>7 DEF Reregister, ContextFunc, AfterFunc, InitPool, Signal, poolVars, jobVars, stopVars,
                    JobTyped, StopTyped
<1>8. ASSUME NEW i \in Ids, MsgCancel(i) PROVE WorkerTyped'
  <2>1. cancels' \in [Ids -> Job \cup {None}]
    BY <1>8 DEF MsgCancel, JobTyped
  <2> QED
    BY <1>6, <1>8, <2>1 DEF MsgCancel, stopVars, JobTyped, StopTyped
<1>9. ASSUME NEW f \in Features, MsgRegistered(f) PROVE WorkerTyped'
  BY <1>1, <1>9 DEF MsgRegistered, poolVars, jobVars, stopVars, LinkTyped, JobTyped, StopTyped
<1>10. ASSUME NEW j \in Job, MsgJob(j) PROVE WorkerTyped'
  <2>1. CASE UNCHANGED <<run, home>>
    <3>1. run.pc = "read" /\ UNCHANGED <<yields, cancels, panicked, ws, ctxDone, feats, stopVars, told>>
      BY <1>10 DEF MsgJob
    <3> QED
      BY <2>1, <3>1 DEF LinkTyped, JobTyped, StopTyped, stopVars
  <2>2. CASE /\ at' = [at EXCEPT ![j] = "accepted"] /\ home' = [home EXCEPT ![j] = run.n]
             /\ run' = [run EXCEPT !.pc = "accept", !.job = j]
    <3>1. UNCHANGED <<yields, cancels, panicked, ws, ctxDone, feats, stopVars, told>>
      BY <1>10 DEF MsgJob
    <3>2. run' \in Runs /\ run'.n = run.n /\ run'.job = j /\ at'[j] = "accepted"
      BY <1>1, <1>2, <2>2 DEF Runs
    <3>3. home' \in [Job -> 0 .. MaxConns] /\ \A k \in Job : home'[k] <= run.n
      BY <1>2, <2>2 DEF JobTyped
    <3> QED
      BY <3>1, <3>2, <3>3 DEF LinkTyped, JobTyped, StopTyped, stopVars
  <2> QED
    BY <1>10, <2>1, <2>2 DEF MsgJob
<1>11. CASE SpawnJob
  <2>1. /\ run.pc = "accept" /\ run' = [run EXCEPT !.pc = "read", !.job = None]
        /\ cancels' = [cancels EXCEPT ![IdOf[run.job]] = run.job]
        /\ UNCHANGED <<home, yields, panicked, ws, ctxDone, feats, stopVars, told>>
    BY <1>11 DEF SpawnJob
  <2>2. run' \in Runs /\ run'.n = run.n /\ run'.pc = "read"
    BY <1>2, <2>1 DEF Runs
  <2>3. run.job \in Job
    BY <2>1 DEF LinkTyped
  <2>4. cancels' \in [Ids -> Job \cup {None}]
    BY <1>1, <2>1, <2>3 DEF JobTyped
  <2> QED
    BY <2>1, <2>2, <2>4 DEF LinkTyped, JobTyped, StopTyped, stopVars
<1>12. CASE ShutStep
  <2>1. shut \in Shuts
    BY DEF StopTyped
  <2>2. /\ draining' \in BOOLEAN /\ UNCHANGED <<jobVars, run, ws, feats, stop, at>>
        /\ ctxDone' \in BOOLEAN
    BY <1>12 DEF ShutStep, ShutBegins, ShutIdle, ShutAnnounces, ShutDrained, ShutGivesUp, ShutCollects,
                 ShutCancels, ShutReleases, poolVars, linkVars, StopTyped, LinkTyped
  <2>3. told' \in [Job -> SUBSET {"done", "back"}]
    <3>1. CASE told' = told
      BY <3>1 DEF JobTyped
    <3>2. ASSUME NEW i \in Ids, ShutReleases(i) PROVE told' \in [Job -> SUBSET {"done", "back"}]
      BY <3>2 DEF ShutReleases, JobTyped
    <3> QED
      BY <1>12, <3>1, <3>2 DEF ShutStep, ShutBegins, ShutIdle, ShutAnnounces, ShutDrained, ShutGivesUp,
                 ShutCollects, ShutCancels
  <2>4. shut' \in Shuts
    <3>1. \/ \E x \in {"announce", "collect", "off", "drain", "close"} : shut' = [shut EXCEPT !.pc = x]
          \/ shut' = [pc |-> "handback", ids |-> {i \in Ids : cancels[i] # None}]
          \/ \E i \in Ids : shut' = [shut EXCEPT !.ids = @ \ {i}]
      BY <1>12 DEF ShutStep, ShutBegins, ShutIdle, ShutAnnounces, ShutDrained, ShutGivesUp, ShutCollects,
                 ShutCancels, ShutReleases
    <3>2. ASSUME NEW x \in {"announce", "collect", "off", "drain", "close"}, shut' = [shut EXCEPT !.pc = x]
          PROVE  shut' \in Shuts
      BY <2>1, <3>2 DEF Shuts
    <3>3. ASSUME NEW i \in Ids, shut' = [shut EXCEPT !.ids = @ \ {i}] PROVE shut' \in Shuts
      BY <2>1, <3>3 DEF Shuts
    <3>4. CASE shut' = [pc |-> "handback", ids |-> {i \in Ids : cancels[i] # None}]
      BY <3>4 DEF Shuts
    <3> QED
      BY <3>1, <3>2, <3>3, <3>4
  <2> QED
    BY <2>2, <2>3, <2>4 DEF LinkTyped, JobTyped, StopTyped, jobVars
<1> QED
  BY <1>3, <1>5, <1>7, <1>8, <1>9, <1>10, <1>11, <1>12

\* A step of the process: its pool and its connection stay sound.
WorkerInv == PoolInv /\ WorkerTyped

(* A step of the worker is one of the three kinds. *)
LEMMA WorkerCases ==
  ASSUME Next
  PROVE  \/ UNCHANGED vars
         \/ \E l \in Local : LocalArrives(l) \/ LocalHangsUp(l) \/ LocalStep(l)
         \/ \E j \in Job : JobStep(j)
         \/ Connect \/ Register \/ Disconnect \/ RunReturns \/ SpawnJob \/ Signal \/ ShutStep
         \/ \E n \in Capacities : ProbeModels(n) \/ Reregister(n)
         \/ \E f \in Features : MsgRegistered(f)
         \/ \E j \in Job : MsgJob(j)
         \/ \E i \in Ids : MsgCancel(i)
         \/ \E g \in Goroutine : ContextFunc(g)
BY DEF Next, Finished

(* Every step keeps the pool and the types. *)
LEMMA WorkerInvStep ==
  ASSUME WorkerInv, [Next]_vars
  PROVE  WorkerInv' /\ PoolStep
<1>1. CASE UNCHANGED vars
  <2>1. PoolInv' /\ at' = at
    BY <1>1 DEF WorkerInv, PoolInv, vars, poolVars
  <2>2. WorkerTyped'
    BY <1>1 DEF WorkerInv, WorkerTyped, LinkTyped, JobTyped, StopTyped, vars, poolVars, jobVars,
                linkVars, stopVars
  <2> QED
    BY <2>1, <2>2 DEF WorkerInv, PoolStep, Takes, Taken
<1>2. ASSUME PoolStep, WorkerTyped' PROVE WorkerInv' /\ PoolStep
  BY <1>2 DEF WorkerInv, PoolStep
<1>3. run.pc = "accept" => run.job \in Job /\ at[run.job] = "accepted"
  BY DEF WorkerInv, WorkerTyped, LinkTyped
<1>4. CASE ~UNCHANGED vars
  BY <1>2, <1>3, <1>4, WorkerCases, LocalKeepsPool, LocalKeepsTypes, JobKeepsPool, JobKeepsTypes,
     LinkKeepsPool, LinkKeepsTypes DEF WorkerInv
<1> QED
  BY <1>1, <1>4

(* The process starts typed. *)
LEMMA WorkerInvInit ==
  ASSUME Init
  PROVE  WorkerInv
<1>1. MaxConns \in Nat /\ 0 \in 0 .. MaxConns
  BY WorkerAssumption
<1>2. LinkTyped /\ StopTyped
  BY <1>1 DEF Init, LinkTyped, StopTyped, Runs, Shuts
<1>3. /\ home = [j \in Job |-> 0] /\ run.n = 0 /\ \A j \in Job : home[j] = 0
      /\ yields = [j \in Job |-> FALSE] /\ panicked = {}
  BY DEF Init
<1>4. home \in [Job -> 0 .. MaxConns] /\ \A j \in Job : home[j] <= run.n
  BY <1>1, <1>3
<1>5. cancels \in [Ids -> Job \cup {None}] /\ told \in [Job -> SUBSET {"done", "back"}]
  BY DEF Init
<1>6. JobTyped
  BY <1>3, <1>4, <1>5 DEF JobTyped
<1> QED
  BY <1>2, <1>6, WorkerPoolInit DEF WorkerInv, WorkerTyped

(* Every variable of the worker keeps its type: in particular the counters of the
   pool never go below zero, and a cancel function is that of a job (conn.go,
   slotpool.go). *)
THEOREM WorkerTypes == Spec => []TypeOK
<1>1. Init => WorkerInv
  BY WorkerInvInit
<1>2. WorkerInv /\ [Next]_vars => WorkerInv'
  BY WorkerInvStep
<1>3. WorkerInv => TypeOK
  <2> SUFFICES ASSUME WorkerInv PROVE TypeOK
    OBVIOUS
  <2>1. ws \in 0 .. MaxConns
    BY WorkerAssumption DEF WorkerInv, WorkerTyped, LinkTyped, Runs
  <2> QED
    BY <2>1 DEF WorkerInv, WorkerTyped, PoolInv, LinkTyped, JobTyped, StopTyped, Runs, Shuts, Where,
                Contexts, TypeOK
<1> QED
  BY <1>1, <1>2, <1>3, PTL DEF Spec

(* The counters of the pool are the goroutines they stand for in a whole worker
   too, with its connections, cancellations, drains and shutdown (slotpool.go). *)
THEOREM WorkerPoolAccounting == Spec => []PoolAccounting
<1>1. Init => WorkerInv
  BY WorkerInvInit
<1>2. WorkerInv /\ [Next]_vars => WorkerInv'
  BY WorkerInvStep
<1>3. WorkerInv => PoolAccounting
  BY PoolInvAccounting DEF WorkerInv
<1> QED
  BY <1>1, <1>2, <1>3, PTL DEF Spec

(* And a slot is taken within the capacity, local requests first (slotpool.go). *)
THEOREM WorkerLocalFirst == Spec => LocalFirst
<1>1. Init => WorkerInv
  BY WorkerInvInit
<1>2. WorkerInv /\ [Next]_vars => WorkerInv'
  BY WorkerInvStep
<1> DEFINE Fair == \A g \in Goroutine : Taken(g) =>
                      /\ Cardinality({h \in Goroutine : at'[h] \in Holding}) <= pool.capacity
                      /\ g \in Job => \A l \in Local : at[l] \notin Waiting
<1>3. WorkerInv /\ [Next]_vars => [Fair]_<<pool, at, ended>>
  BY WorkerInvStep, TakenWithin DEF WorkerInv, PoolStep, Takes
<1> QED
  BY <1>1, <1>2, <1>3, PTL DEF Spec, LocalFirst

-----------------------------------------------------------------------------
(* Nobody is dropped in silence.                                           *)

\* Where a job that has ended is on its way out.
Ending == {"release", "broadcast", "unlist"}

\* A job on its way out that nobody cancelled has been answered for, unless its
\* dispatch panicked and the error is still to be sent.
AnsweredFor(j) ==
    at[j] \in Ending /\ Live(home[j]) /\ ended[j] = "no" /\ j \notin panicked => told[j] # {}
Answered == \A j \in Job : AnsweredFor(j)

\* What a step may do to a job without answering for it.
Undisturbed(j) ==
    /\ at'[j] \in Ending => at[j] \in Ending
    /\ ended'[j] = "no" => ended[j] = "no"
    /\ Live(home[j])' => Live(home[j])
    /\ j \notin panicked' => j \notin panicked
    /\ told[j] \subseteq told'[j]

\* And a panicked job is not forgotten before its error is sent.
Forgotten(j) == at[j] = "unlist" /\ at'[j] = "gone" => j \notin panicked

(* A broadcast moves only sleepers, and a job on its way out does not sleep
   (slotpool.go, cond.Broadcast). *)
LEMMA WokenEnds ==
  ASSUME NEW w, NEW g \in Goroutine
  PROVE  /\ Woken(w)[g] \in Ending <=> w[g] \in Ending
         /\ Woken(w)[g] = "gone" <=> w[g] = "gone"
BY DEF Woken, Ending

(* A context that is over stays over: it is only renewed when the goroutine is
   gone (context cancellation in conn.go). *)
LEMMA OverStaysOver ==
  ASSUME ended \in [Goroutine -> Contexts], NEW g \in Goroutine,
         \/ ended' = ended
         \/ \E G : ended' = Cancelled(G)
         \/ \E h \in Goroutine : ended' = Stopped(h)
  PROVE  ended'[g] = "no" => ended[g] = "no"
<1>1. CASE ended' = ended
  BY <1>1
<1>2. CASE \E G : ended' = Cancelled(G)
  BY <1>2 DEF Cancelled
<1>3. CASE \E h \in Goroutine : ended' = Stopped(h)
  BY <1>3 DEF Stopped
<1> QED
  BY <1>1, <1>2, <1>3

(* A step of a job leaves the other jobs alone, and the job itself either as it
   was, answered for, cancelled, or with a panic to report (worker.go, the job
   goroutine of conn.go). *)
LEMMA JobAnswers ==
  ASSUME WorkerInv, Answered, NEW j \in Job, JobStep(j), NEW k \in Job
  PROVE  AnsweredFor(k)' /\ Forgotten(k)
<1>1. /\ at \in [Goroutine -> Where] /\ ended \in [Goroutine -> Contexts]
      /\ j \in Goroutine /\ k \in Goroutine /\ k \notin Local /\ j \notin Local
      /\ home \in [Job -> 0 .. MaxConns] /\ told \in [Job -> SUBSET {"done", "back"}]
      /\ panicked \subseteq Job /\ AnsweredFor(k)
  BY PoolAssumption DEF WorkerInv, PoolInv, WorkerTyped, JobTyped, Goroutine, Answered
<1>2. ASSUME Undisturbed(k) PROVE AnsweredFor(k)'
  BY <1>1, <1>2 DEF Undisturbed, AnsweredFor
<1>3. UNCHANGED <<ws>>
  BY DEF JobStep, JobStart, JobTry, BusyReturn, DispatchDone, DispatchError, DispatchAborted,
         DispatchPanics, LeaveSlot, Recover, Unlist, linkVars
<1>4. CASE JobStart(j)
  <2>1. /\ at' = [at EXCEPT ![j] = "try"] /\ UNCHANGED <<ended, home, panicked, told>>
    BY <1>4 DEF JobStart
  <2> QED
    BY <2>1, <1>1, <1>2, <1>3 DEF Undisturbed, Forgotten, Ending, Live
<1>5. CASE JobTry(j)
  <2>1. /\ at[j] = "try" /\ UNCHANGED <<home, panicked, told>>
        /\ \/ at' = [at EXCEPT ![j] = "hold"] /\ ended' = Stopped(j)
           \/ at' = [at EXCEPT ![j] = "unlist"] /\ ended[j] # "no" /\ ended' = Stopped(j)
           \/ ended' = ended /\ \E x \in {"busy", "asleep"} : at' = [at EXCEPT ![j] = x]
    BY <1>5 DEF JobTry, TryJob, jobVars
  <2>2. ended'[k] = "no" => ended[k] = "no"
    BY <2>1, <1>1, OverStaysOver
  <2>3. k # j => at'[k] = at[k]
    BY <2>1, <1>1
  <2>4. ASSUME k = j, at'[k] \in Ending PROVE ended'[k] # "no"
    BY <2>1, <2>2, <2>4, <1>1 DEF Ending
  <2>5. k = j => Forgotten(k)
    BY <2>1 DEF Forgotten
  <2> QED
    BY <2>1, <2>2, <2>3, <2>4, <2>5, <1>1, <1>2, <1>3 DEF Undisturbed, AnsweredFor, Forgotten, Live
<1>6. CASE BusyReturn(j) \/ DispatchDone(j) \/ DispatchError(j)
  <2>1. PICK m \in {"done", "back"}, x \in Ending :
          /\ Tell(j, m) /\ at' = [at EXCEPT ![j] = x] /\ at[j] \in {"busy", "hold"}
          /\ UNCHANGED <<ended, home, panicked>>
    BY <1>6 DEF BusyReturn, DispatchDone, DispatchError, jobVars, Ending
  <2>2. k # j => at'[k] = at[k] /\ told'[k] = told[k]
    BY <2>1, <1>1 DEF Tell
  <2>3. Live(home[j]) => told'[j] # {}
    BY <2>1, <1>1 DEF Tell
  <2> QED
    BY <2>1, <2>2, <2>3, <1>1, <1>2, <1>3 DEF Undisturbed, AnsweredFor, Forgotten, Live
<1>7. CASE DispatchAborted(j)
  <2>1. /\ at' = [at EXCEPT ![j] = "release"] /\ at[j] = "hold" /\ ended[j] # "no"
        /\ UNCHANGED <<ended, home, panicked, told>>
    BY <1>7 DEF DispatchAborted, jobVars
  <2> QED
    BY <2>1, <1>1, <1>2, <1>3 DEF Undisturbed, AnsweredFor, Forgotten, Live
<1>8. CASE DispatchPanics(j)
  <2>1. /\ at' = [at EXCEPT ![j] = "release"] /\ at[j] = "hold" /\ panicked' = panicked \cup {j}
        /\ UNCHANGED <<ended, home, told>>
    BY <1>8 DEF DispatchPanics
  <2> QED
    BY <2>1, <1>1, <1>2, <1>3 DEF Undisturbed, AnsweredFor, Forgotten, Live
<1>9. CASE LeaveSlot(j)
  <2>1. UNCHANGED <<ended, home, panicked, told>>
    BY <1>9 DEF LeaveSlot, Release, ReleaseBroadcast, jobVars
  <2>2. \/ at[j] = "release" /\ at' = [at EXCEPT ![j] = "broadcast"]
        \/ at[j] = "broadcast" /\ at' = Woken([at EXCEPT ![j] = "unlist"])
    BY <1>9, <1>1 DEF LeaveSlot, Release, ReleaseBroadcast
  <2>3. /\ at'[k] \in Ending => at[k] \in Ending
        /\ at'[k] = "gone" => at[k] = "gone"
    <3>1. CASE at[j] = "release" /\ at' = [at EXCEPT ![j] = "broadcast"]
      BY <3>1, <1>1 DEF Ending
    <3>2. CASE at[j] = "broadcast" /\ at' = Woken([at EXCEPT ![j] = "unlist"])
      BY <3>2, <1>1 DEF Ending, Woken
    <3> QED
      BY <2>2, <3>1, <3>2
  <2> QED
    BY <2>1, <2>3, <1>1, <1>2, <1>3 DEF Undisturbed, Forgotten, Live
<1>10. CASE Recover(j)
  <2>1. /\ Tell(j, "back") /\ panicked' = panicked \ {j} /\ UNCHANGED <<at, ended, home>>
    BY <1>10 DEF Recover, poolVars
  <2>2. k # j => told'[k] = told[k]
    BY <2>1, <1>1 DEF Tell
  <2>3. Live(home[j]) => told'[j] # {}
    BY <2>1, <1>1 DEF Tell
  <2> QED
    BY <2>1, <2>2, <2>3, <1>1, <1>2, <1>3 DEF Undisturbed, AnsweredFor, Forgotten, Live
<1>11. CASE Unlist(j)
  <2>1. /\ at' = [at EXCEPT ![j] = "gone"] /\ ended' = [ended EXCEPT ![j] = "no"]
        /\ home' = [home EXCEPT ![j] = 0] /\ told' = [told EXCEPT ![j] = {}]
        /\ j \notin panicked /\ UNCHANGED panicked
    BY <1>11 DEF Unlist, Forget
  <2>2. k # j => at'[k] = at[k] /\ ended'[k] = ended[k] /\ home'[k] = home[k] /\ told'[k] = told[k]
    BY <2>1, <1>1
  <2>3. k = j => at'[k] \notin Ending
    BY <2>1, <1>1 DEF Ending
  <2> QED
    BY <2>1, <2>2, <2>3, <1>1, <1>2, <1>3 DEF Undisturbed, AnsweredFor, Forgotten, Live
<1> QED
  BY <1>4, <1>5, <1>6, <1>7, <1>8, <1>9, <1>10, <1>11 DEF JobStep

(* A step of anybody else does not bring a job to its end: it wakes, cancels,
   loses the connection, accepts or hands back (conn.go, slotpool.go). *)
LEMMA OthersUndisturbing ==
  ASSUME WorkerInv, NEW k \in Job,
         \/ \E l \in Local : LocalArrives(l) \/ LocalHangsUp(l) \/ LocalStep(l)
         \/ Connect \/ Register \/ Disconnect \/ RunReturns \/ SpawnJob \/ Signal \/ ShutStep
         \/ \E n \in Capacities : ProbeModels(n) \/ Reregister(n)
         \/ \E f \in Features : MsgRegistered(f)
         \/ \E i \in Ids : MsgCancel(i)
         \/ \E g \in Goroutine : ContextFunc(g)
  PROVE  Undisturbed(k) /\ (at'[k] = "gone" => at[k] = "gone")
<1>1. /\ at \in [Goroutine -> Where] /\ ended \in [Goroutine -> Contexts]
      /\ k \in Goroutine /\ k \notin Local
      /\ home \in [Job -> 0 .. MaxConns] /\ home[k] <= run.n
      /\ told \in [Job -> SUBSET {"done", "back"}]
      /\ run.n \in Nat /\ ws \in {0, run.n}
      /\ run.pc = "accept" => run.job \in Job /\ at[run.job] = "accepted"
  BY PoolAssumption, WorkerAssumption
     DEF WorkerInv, PoolInv, WorkerTyped, LinkTyped, Runs, JobTyped, Goroutine
<1>2. UNCHANGED <<home, panicked>>
  BY DEF LocalArrives, LocalHangsUp, LocalStep, LocalNotifies, Connect, Register, Disconnect,
         RunReturns, SpawnJob, Signal, ShutStep, ShutBegins, ShutIdle, ShutAnnounces, ShutDrained,
         ShutGivesUp, ShutCollects, ShutCancels, ShutReleases, ProbeModels, Reregister, MsgRegistered,
         MsgCancel, ContextFunc, jobVars
<1>3. \/ at'[k] = at[k]
      \/ at'[k] = Woken(at)[k]
      \/ at[k] = "accepted" /\ at'[k] = "spawned"
  <2>1. CASE \E l \in Local : LocalArrives(l) \/ LocalHangsUp(l) \/ LocalStep(l)
    <3>1. PICK l \in Local : LocalArrives(l) \/ LocalHangsUp(l) \/ LocalStep(l)
      BY <2>1
    <3>2. \/ at' = at \/ \E x : at' = [at EXCEPT ![l] = x] \/ at' = Woken([at EXCEPT ![l] = x])
      BY <3>1 DEF LocalArrives, AcquireLocal, LocalHangsUp, LocalStep, LocalNotifies, TryLocal,
             QuitLocal, ReleaseLocal, Release, ReleaseBroadcast
    <3> QED
      BY <3>2, <1>1 DEF Woken
  <2>2. CASE SpawnJob
    BY <2>2, <1>1 DEF SpawnJob, Goroutine
  <2>3. CASE \/ Connect \/ Register \/ Disconnect \/ RunReturns \/ Signal \/ ShutStep
             \/ \E f \in Features : MsgRegistered(f)
             \/ \E i \in Ids : MsgCancel(i)
    BY <2>3 DEF Connect, Register, Disconnect, RunReturns, Signal, ShutStep, ShutBegins, ShutIdle,
         ShutAnnounces, ShutDrained, ShutGivesUp, ShutCollects, ShutCancels, ShutReleases,
         MsgRegistered, MsgCancel, poolVars
  <2>4. CASE \/ \E n \in Capacities : ProbeModels(n) \/ Reregister(n)
             \/ \E g \in Goroutine : ContextFunc(g)
    BY <2>4 DEF ProbeModels, Reregister, ContextFunc, InitPool, AfterFunc
  <2> QED
    BY <2>1, <2>2, <2>3, <2>4
<1>4. ended'[k] = "no" => ended[k] = "no"
  <2>1. CASE SpawnJob
    BY <2>1, <1>1 DEF SpawnJob, Goroutine, Contexts
  <2>2. CASE \E l \in Local : LocalArrives(l) \/ LocalHangsUp(l) \/ LocalStep(l)
    <3>1. PICK l \in Local : LocalArrives(l) \/ LocalHangsUp(l) \/ LocalStep(l)
      BY <2>2
    <3>2. l \in Goroutine
      BY DEF Goroutine
    <3>3. ended' = ended \/ ended' = Cancelled({l}) \/ ended' = Stopped(l)
      BY <3>1 DEF LocalArrives, AcquireLocal, LocalHangsUp, LocalStep, LocalNotifies, TryLocal,
             QuitLocal, ReleaseLocal, Release, ReleaseBroadcast
    <3> QED
      BY <3>2, <3>3, <1>1, OverStaysOver
  <2>3. CASE \E g \in Goroutine : ContextFunc(g)
    BY <2>3, <1>1 DEF ContextFunc, AfterFunc
  <2>4. CASE \/ Connect \/ Register \/ RunReturns \/ Signal
             \/ \E f \in Features : MsgRegistered(f)
             \/ \E n \in Capacities : ProbeModels(n) \/ Reregister(n)
    BY <2>4 DEF Connect, Register, RunReturns, Signal, MsgRegistered, ProbeModels, Reregister, poolVars
  <2>5. CASE \/ Disconnect \/ ShutStep
             \/ \E i \in Ids : MsgCancel(i)
    <3>1. ended' = ended \/ ended' = Hush(run.n) \/ \E i \in Ids : ended' = Cancelled({cancels[i]})
      BY <2>5 DEF Disconnect, ShutStep, ShutBegins, ShutIdle, ShutAnnounces, ShutDrained,
         ShutGivesUp, ShutCollects, ShutCancels, ShutReleases, MsgCancel, poolVars
    <3> QED
      BY <3>1, <1>1, OverStaysOver DEF Hush
  <2> QED
    BY <2>1, <2>2, <2>3, <2>4, <2>5
<1>5. ws' = ws \/ ws' = 0 \/ ws' = run.n + 1
  BY DEF LocalArrives, LocalHangsUp, LocalStep, LocalNotifies, Connect, Register, Disconnect,
         RunReturns, SpawnJob, Signal, ShutStep, ShutBegins, ShutIdle, ShutAnnounces, ShutDrained,
         ShutGivesUp, ShutCollects, ShutCancels, ShutReleases, ProbeModels, Reregister, MsgRegistered,
         MsgCancel, ContextFunc, linkVars
<1>6. Live(home[k])' => Live(home[k])
  BY <1>1, <1>2, <1>5 DEF Live
<1>7. told[k] \subseteq told'[k]
  <2>1. \/ told' = told
        \/ \E i \in Ids : told' = [j \in Job |-> IF IdOf[j] = i /\ at[j] # "idle" /\ Live(home[j])
                                                 THEN told[j] \cup {"back"} ELSE told[j]]
    BY DEF LocalArrives, LocalHangsUp, LocalStep, LocalNotifies, Connect, Register, Disconnect,
         RunReturns, SpawnJob, Signal, ShutStep, ShutBegins, ShutIdle, ShutAnnounces, ShutDrained,
         ShutGivesUp, ShutCollects, ShutCancels, ShutReleases, ProbeModels, Reregister, MsgRegistered,
         MsgCancel, ContextFunc
  <2> QED
    BY <2>1
<1> QED
  BY <1>1, <1>2, <1>3, <1>4, <1>6, <1>7, WokenEnds DEF Undisturbed, Ending, Woken

(* Every step keeps the invariant, and forgets no job unanswered. *)
LEMMA AnsweredStep ==
  ASSUME WorkerInv, Answered, [Next]_vars, NEW k \in Job
  PROVE  AnsweredFor(k)' /\ Forgotten(k)
<1>1. AnsweredFor(k)
  BY DEF Answered
<1>2. ASSUME Undisturbed(k) PROVE AnsweredFor(k)'
  BY <1>1, <1>2 DEF Undisturbed, AnsweredFor
<1>3. CASE UNCHANGED vars
  BY <1>3, <1>1 DEF vars, poolVars, jobVars, linkVars, stopVars, AnsweredFor, Forgotten, Live
<1>4. CASE \E j \in Job : JobStep(j)
  BY <1>4, JobAnswers
<1>5. CASE \E j \in Job : MsgJob(j)
  <2>1. PICK j \in Job : MsgJob(j)
    BY <1>5
  <2>2. /\ at[j] = "idle" /\ UNCHANGED <<ended, panicked, ws, told>>
        /\ \/ at' = [at EXCEPT ![j] = "gone"] /\ home' = home
           \/ at' = [at EXCEPT ![j] = "accepted"] /\ home' = [home EXCEPT ![j] = run.n]
    BY <2>1 DEF MsgJob
  <2>3. at \in [Goroutine -> Where] /\ j \in Goroutine /\ k \in Goroutine
        /\ home \in [Job -> 0 .. MaxConns]
    BY DEF WorkerInv, PoolInv, WorkerTyped, JobTyped, Goroutine
  <2>4. k # j => at'[k] = at[k] /\ home'[k] = home[k]
    BY <2>2, <2>3
  <2>5. k = j => at'[k] \notin Ending
    BY <2>2, <2>3 DEF Ending
  <2> QED
    BY <2>2, <2>4, <2>5, <1>1, <1>2 DEF Undisturbed, AnsweredFor, Forgotten, Live
<1>6. CASE \/ \E l \in Local : LocalArrives(l) \/ LocalHangsUp(l) \/ LocalStep(l)
           \/ Connect \/ Register \/ Disconnect \/ RunReturns \/ SpawnJob \/ Signal \/ ShutStep
           \/ \E n \in Capacities : ProbeModels(n) \/ Reregister(n)
           \/ \E f \in Features : MsgRegistered(f)
           \/ \E i \in Ids : MsgCancel(i)
           \/ \E g \in Goroutine : ContextFunc(g)
  BY <1>2, <1>6, OthersUndisturbing DEF Forgotten
<1> QED
  BY <1>3, <1>4, <1>5, <1>6, WorkerCases

(* A job that comes to its end on a live connection, and that nobody cancelled,
   has been answered for: the router is not left waiting for its lease (conn.go,
   the job goroutine with its deferred recover, release and delete). *)
THEOREM WorkerNoSilentDrop == Spec => NoSilentDrop
<1> DEFINE Heard == \A j \in Job :
                      at[j] = "unlist" /\ at'[j] = "gone" /\ Live(home[j]) /\ ended[j] = "no"
                        => told[j] # {}
<1>1. Init => WorkerInv /\ Answered
  <2> SUFFICES ASSUME Init PROVE WorkerInv /\ Answered
    OBVIOUS
  <2>1. ws = 0
    BY DEF Init
  <2> QED
    BY <2>1, WorkerInvInit DEF Answered, AnsweredFor, Live
<1>2. WorkerInv /\ Answered /\ [Next]_vars => WorkerInv' /\ Answered'
  BY WorkerInvStep, AnsweredStep DEF Answered
<1>3. WorkerInv /\ Answered /\ [Next]_vars => [Heard]_vars
  BY AnsweredStep DEF Answered, AnsweredFor, Forgotten, Ending
<1> QED
  BY <1>1, <1>2, <1>3, PTL DEF Spec, NoSilentDrop

=============================================================================
