-------------------------------- MODULE Worker --------------------------------
(***************************************************************************)
(* A worker process: the connection to the router with its reader, local   *)
(* load reporter, shutdown watcher and job goroutines                      *)
(* (pkg/wsclient/conn.go), what runs inside a job (client/internal/worker, *)
(* shim/internal/worker), and the local API (client/internal/localapi),    *)
(* all sharing the slot pool of module SlotPool.                           *)
(*                                                                         *)
(* One step is a critical section, an atomic flag, a channel operation or  *)
(* a message written to or read from the socket.                           *)
(***************************************************************************)
EXTENDS SlotPool

CONSTANTS
    IdOf,        \* the request ID of each job; a retry has that of an earlier one
    MaxConns,    \* connections explored
    Features,    \* what routers announce: some of {"local_busy", "drain"}
    Casts,       \* the sets of local requests and jobs that turn up together
    None

ASSUME WorkerAssumption ==
    /\ IdOf \in [Job -> {IdOf[j] : j \in Job}]
    /\ MaxConns \in Nat
    /\ Features \in SUBSET SUBSET {"local_busy", "drain"}
    /\ Casts \subseteq SUBSET Goroutine
    /\ Job \subseteq Nat /\ None \notin Job

VARIABLES
    run,       \* the goroutine of Conn.Run: pc, number of the connection, job at hand
    ws,        \* c.ws: number of the connection that may be written to, or 0
    ctxDone,   \* connCtx of connection run.n is cancelled
    home,      \* the connection a job came over
    yields,    \* the localBusy flag as the job read it
    panicked,  \* jobs whose dispatch panicked
    cancels,   \* c.cancels: request ID -> job, or None
    feats,     \* features the router has announced on this connection
    draining,  \* c.draining
    stop,      \* the outer context is done: a signal asked the worker to stop
    shut,      \* the shutdown watcher: pc and the IDs still to hand back
    told       \* what the router heard about each job: "done", or "back" for an
               \* error or a release, after which it may run elsewhere (history)

poolVars == <<pool, at, ended>>
jobVars  == <<home, yields, cancels, panicked>>
linkVars == <<run, ws, ctxDone, feats>>
stopVars == <<draining, stop, shut>>
vars == <<poolVars, jobVars, linkVars, stopVars, told>>

Ids == {IdOf[j] : j \in Job}

TypeOK ==
    /\ pool \in Pools
    /\ at \in [Goroutine -> {"idle", "announce", "try", "asleep", "hold", "quit",
                             "release", "broadcast", "renotify", "gone",
                             "accepted", "spawned", "busy", "unlist"}]
    /\ ended \in [Goroutine -> {"no", "over", "told"}]
    /\ run \in [pc : {"off", "probe", "register", "read", "accept", "stopped"},
                n : 0 .. MaxConns, job : Job \cup {None}]
    /\ ws \in 0 .. MaxConns /\ ctxDone \in BOOLEAN
    /\ home \in [Job -> 0 .. MaxConns] /\ yields \in [Job -> BOOLEAN]
    /\ panicked \subseteq Job
    /\ cancels \in [Ids -> Job \cup {None}]
    /\ feats \in SUBSET {"local_busy", "drain"} 
    /\ draining \in BOOLEAN /\ stop \in BOOLEAN
    /\ shut \in [pc : {"off", "watch", "announce", "drain", "collect",
                       "handback", "close"}, ids : SUBSET Ids]
    /\ told \in [Job -> SUBSET {"done", "back"}]

\* main may size the pool before the first connection (local API configured).
Init ==
    /\ pool \in {EmptyPool} \cup {[EmptyPool EXCEPT !.capacity = n, !.ready = TRUE] :
                                     n \in Capacities}
    /\ at \in {[g \in Goroutine |-> IF g \in c THEN "idle" ELSE "gone"] : c \in Casts}
    /\ ended = [g \in Goroutine |-> "no"]
    /\ run = [pc |-> "off", n |-> 0, job |-> None]
    /\ ws = 0 /\ ctxDone = TRUE
    /\ home = [j \in Job |-> 0] /\ yields = [j \in Job |-> FALSE]
    /\ panicked = {}
    /\ cancels = [i \in Ids |-> None]
    /\ feats = {}
    /\ draining = FALSE /\ stop = FALSE /\ shut = [pc |-> "off", ids |-> {}]
    /\ told = [j \in Job |-> {}]

-------------------------------------------------------------------------------
(* Sending and cancelling.                                                  *)

\* The send closure of connection n: dropped once another socket is current.
Live(n) == ws = n /\ ws # 0
Tell(j, m) == told' = [told EXCEPT ![j] = IF Live(home[j]) THEN @ \cup {m} ELSE @]

\* Cancelling connCtx ends the context of every job of this connection.
Hush(n) == Cancelled({j \in Job : home[j] = n})
jobCount == Cardinality({i \in Ids : cancels[i] # None})

-------------------------------------------------------------------------------
(* Run and connect.                                                         *)

\* A successful dial: flags are reset and the helpers start.  A failed dial
\* only waits and tries again.
Connect ==
    /\ run.pc = "off" /\ ~stop /\ run.n < MaxConns
    /\ run' = [pc |-> "probe", n |-> run.n + 1, job |-> None]
    /\ ws' = run.n + 1 /\ ctxDone' = FALSE
    /\ feats' = {}
    /\ shut' = [pc |-> "watch", ids |-> {}]
    /\ UNCHANGED <<poolVars, jobVars, draining, stop, told>>

\* Models returns, or is cut short by the end of connCtx; the pool is sized.
ProbeModels(n) ==
    /\ run.pc = "probe"
    /\ InitPool(n)
    /\ run' = [run EXCEPT !.pc = "register"]
    /\ UNCHANGED <<ended, jobVars, ws, ctxDone, feats, stopVars, told>>

Register ==
    /\ run.pc = "register"
    /\ run' = [run EXCEPT !.pc = "read"]
    /\ UNCHANGED <<poolVars, jobVars, ws, ctxDone, feats, stopVars, told>>

\* connect returns, by a failed write of the registration or a failed read:
\* connCtx ends, the socket closes, c.ws is cleared.  Run then backs off and
\* connects again, or returns when the outer context is done.
Disconnect ==
    /\ run.pc \in {"register", "read"}
    /\ run' = [run EXCEPT !.pc = "off"]
    /\ ended' = Hush(run.n)
    /\ ctxDone' = TRUE /\ ws' = 0
    /\ UNCHANGED <<pool, at, jobVars, feats, stopVars, told>>

RunReturns ==
    /\ run.pc = "off" /\ stop
    /\ run' = [run EXCEPT !.pc = "stopped"]
    /\ UNCHANGED <<poolVars, jobVars, ws, ctxDone, feats, stopVars, told>>

\* watchModels found other models or slots and registers again.
Reregister(n) ==
    /\ run.pc \in {"read", "accept"} /\ ~ctxDone
    /\ n # pool.capacity
    /\ InitPool(n)
    /\ UNCHANGED <<ended, jobVars, linkVars, stopVars, told>>

-------------------------------------------------------------------------------
(* Messages from the router.                                                *)

\* The acknowledgement names features, unless the router is an older one.
MsgRegistered(f) ==
    /\ run.pc = "read" /\ feats = {} /\ f # {}
    /\ feats' = f
    /\ UNCHANGED <<poolVars, jobVars, run, ws, ctxDone, stopVars, told>>

\* The router sends a request again only after the worker has answered for the
\* last time, or was told to cancel, or over another connection.
MayDispatch(j) ==
    \A k \in Job \ {j} :
        IdOf[k] = IdOf[j] /\ at[k] # "idle" /\ Live(home[k]) =>
            "back" \in told[k] \/ ended[k] # "no"

\* A job: handed straight back while draining, refused by Try (a shim that has
\* no such backend), or accepted.
MsgJob(j) ==
    /\ run.pc = "read" /\ at[j] = "idle" /\ MayDispatch(j)
    /\ \A k \in Job : k < j => at[k] # "idle"
    /\ \/ /\ draining    \* sends a release
          /\ at' = [at EXCEPT ![j] = "gone"] /\ UNCHANGED <<run, home>>
       \/ /\ ~draining   \* Try has sent an error
          /\ at' = [at EXCEPT ![j] = "gone"] /\ UNCHANGED <<run, home>>
       \/ /\ ~draining
          /\ at' = [at EXCEPT ![j] = "accepted"]
          /\ home' = [home EXCEPT ![j] = run.n]
          /\ run' = [run EXCEPT !.pc = "accept", !.job = j]
    /\ UNCHANGED <<pool, ended, yields, cancels, panicked, ws, ctxDone, feats,
                    stopVars, told>>

\* The reader enters the job in the cancel table and spawns its goroutine,
\* whose context descends from connCtx.
SpawnJob ==
    LET j == run.job
    IN  /\ run.pc = "accept"
        /\ cancels' = [cancels EXCEPT ![IdOf[j]] = j]
        /\ at' = [at EXCEPT ![j] = "spawned"]
        /\ ended' = [ended EXCEPT ![j] = IF ctxDone THEN "over" ELSE @]
        /\ run' = [run EXCEPT !.pc = "read", !.job = None]
        /\ UNCHANGED <<pool, home, yields, panicked, ws, ctxDone, feats,
                        stopVars, told>>

MsgCancel(i) ==
    /\ run.pc = "read" /\ cancels[i] # None
    /\ ended' = Cancelled({cancels[i]})
    /\ cancels' = [cancels EXCEPT ![i] = None]
    /\ UNCHANGED <<pool, at, home, yields, panicked, linkVars, stopVars, told>>

-------------------------------------------------------------------------------
(* A job goroutine.                                                         *)

JobStart(j) ==
    /\ at[j] = "spawned"
    /\ yields' = [yields EXCEPT ![j] = "local_busy" \in feats]
    /\ at' = [at EXCEPT ![j] = "try"]
    /\ UNCHANGED <<pool, ended, home, cancels, panicked, linkVars, stopVars, told>>

JobTry(j) ==
    /\ TryJob(j, yields[j])
    /\ UNCHANGED <<jobVars, linkVars, stopVars, told>>

\* Local requests hold the slots: the load is reported (module LocalLoad) and
\* the job handed back.
MutantBusyReturn(j) ==
    /\ at[j] = "busy"
    /\ at' = [at EXCEPT ![j] = "unlist"]
    /\ UNCHANGED <<pool, ended, jobVars, linkVars, stopVars, told>>

BusyReturn(j) ==
    /\ at[j] = "busy"
    /\ Tell(j, "back")
    /\ at' = [at EXCEPT ![j] = "unlist"]
    /\ UNCHANGED <<pool, ended, jobVars, linkVars, stopVars>>

\* Dispatch ends: with the last chunk, with an error (also when the model has no
\* endpoint), or in silence when the context is over.
DispatchDone(j) ==
    /\ at[j] = "hold"
    /\ Tell(j, "done")
    /\ at' = [at EXCEPT ![j] = "release"]
    /\ UNCHANGED <<pool, ended, jobVars, linkVars, stopVars>>

DispatchError(j) ==
    /\ at[j] = "hold" /\ ended[j] = "no"
    /\ Tell(j, "back")
    /\ at' = [at EXCEPT ![j] = "release"]
    /\ UNCHANGED <<pool, ended, jobVars, linkVars, stopVars>>

DispatchAborted(j) ==
    /\ at[j] = "hold" /\ ended[j] # "no"
    /\ at' = [at EXCEPT ![j] = "release"]
    /\ UNCHANGED <<pool, ended, jobVars, linkVars, stopVars, told>>

\* A panic: the slot is released on the way out, and the error sent after that.
DispatchPanics(j) ==
    /\ at[j] = "hold"
    /\ at' = [at EXCEPT ![j] = "release"]
    /\ panicked' = panicked \cup {j}
    /\ UNCHANGED <<pool, ended, home, yields, cancels, linkVars,
                   stopVars, told>>

LeaveSlot(j) ==
    /\ Release(j) \/ ReleaseBroadcast(j)
    /\ UNCHANGED <<jobVars, linkVars, stopVars, told>>

Recover(j) ==
    /\ at[j] = "unlist" /\ j \in panicked
    /\ Tell(j, "back")
    /\ panicked' = panicked \ {j}
    /\ UNCHANGED <<poolVars, home, yields, cancels, linkVars, stopVars>>

\* The goroutine is no more.
Forget(j) ==
    /\ at' = [at EXCEPT ![j] = "gone"] /\ ended' = [ended EXCEPT ![j] = "no"]
    /\ home' = [home EXCEPT ![j] = 0] /\ yields' = [yields EXCEPT ![j] = FALSE]
    /\ told' = [told EXCEPT ![j] = {}]

\* The entry under the job's request ID is deleted, whoever's it is by now.
Unlist(j) ==
    /\ at[j] = "unlist" /\ j \notin panicked
    /\ cancels' = [cancels EXCEPT ![IdOf[j]] = None]
    /\ Forget(j)
    /\ UNCHANGED <<pool, panicked, linkVars, stopVars>>

JobStep(j) ==
    \/ JobStart(j) \/ JobTry(j)
    \/ BusyReturn(j)
    \/ DispatchDone(j) \/ DispatchError(j) \/ DispatchAborted(j) \/ DispatchPanics(j)
    \/ LeaveSlot(j) \/ Recover(j) \/ Unlist(j)

-------------------------------------------------------------------------------
(* The local API, which does not depend on the connection.                  *)

LocalArrives(l) ==
    /\ AcquireLocal(l)
    /\ UNCHANGED <<jobVars, linkVars, stopVars, told>>

LocalHangsUp(l) ==
    /\ at[l] \in {"announce", "try", "asleep", "hold"} /\ ended[l] = "no"
    /\ ended' = Cancelled({l})
    /\ UNCHANGED <<pool, at, jobVars, linkVars, stopVars, told>>

\* The two calls of the hook only concern the reports.
LocalNotifies(l) ==
    /\ at[l] \in {"announce", "renotify"}
    /\ at' = [at EXCEPT ![l] = IF @ = "announce" THEN "try" ELSE "gone"]
    /\ UNCHANGED <<pool, ended, jobVars, linkVars, stopVars, told>>

LocalStep(l) ==
    \/ LocalNotifies(l)
    \/ /\ \/ TryLocal(l) \/ QuitLocal(l) \/ ReleaseLocal(l)
          \/ Release(l) \/ ReleaseBroadcast(l)
       /\ UNCHANGED <<jobVars, linkVars, stopVars, told>>

ContextFunc(g) ==
    /\ AfterFunc(g)
    /\ UNCHANGED <<jobVars, linkVars, stopVars, told>>

-------------------------------------------------------------------------------
(* Shutdown.                                                                *)

Signal ==
    /\ ~stop /\ run.pc # "stopped"
    /\ stop' = TRUE
    /\ UNCHANGED <<poolVars, jobVars, linkVars, draining, shut, told>>

\* With a drain time configured and a router that knows draining, the worker
\* first refuses new jobs.
ShutBegins ==
    /\ shut.pc = "watch" /\ stop
    /\ \/ /\ "drain" \in feats
          /\ draining' = TRUE
          /\ shut' = [shut EXCEPT !.pc = "announce"]
       \/ /\ shut' = [shut EXCEPT !.pc = "collect"]
          /\ UNCHANGED draining
    /\ UNCHANGED <<poolVars, jobVars, linkVars, stop, told>>

\* The watcher of a connection that ended before any signal just returns.
ShutIdle ==
    /\ shut.pc = "watch" /\ ctxDone
    /\ shut' = [shut EXCEPT !.pc = "off"]
    /\ UNCHANGED <<poolVars, jobVars, linkVars, draining, stop, told>>

ShutAnnounces ==
    /\ shut.pc = "announce"
    /\ shut' = [shut EXCEPT !.pc = "drain"]
    /\ UNCHANGED <<poolVars, jobVars, linkVars, draining, stop, told>>

\* waitForJobs ends when no job is left, or by its deadline, a second signal
\* or the end of the connection.
ShutDrained ==
    /\ shut.pc = "drain" /\ jobCount = 0
    /\ shut' = [shut EXCEPT !.pc = "collect"]
    /\ UNCHANGED <<poolVars, jobVars, linkVars, draining, stop, told>>

ShutGivesUp ==
    /\ shut.pc = "drain" /\ jobCount # 0
    /\ shut' = [shut EXCEPT !.pc = "collect"]
    /\ UNCHANGED <<poolVars, jobVars, linkVars, draining, stop, told>>

ShutCollects ==
    /\ shut.pc = "collect"
    /\ shut' = [pc |-> "handback", ids |-> {i \in Ids : cancels[i] # None}]
    /\ UNCHANGED <<poolVars, jobVars, linkVars, draining, stop, told>>

\* A release for one ID; whichever job of that ID the router believes is running.
ShutReleases(i) ==
    /\ shut.pc = "handback" /\ i \in shut.ids
    /\ shut' = [shut EXCEPT !.ids = @ \ {i}]
    /\ told' = [j \in Job |->
                  IF IdOf[j] = i /\ at[j] # "idle" /\ Live(home[j])
                  THEN told[j] \cup {"back"} ELSE told[j]]
    /\ UNCHANGED <<poolVars, jobVars, linkVars, draining, stop>>

MutantShutCancels ==
    /\ shut.pc = "handback" /\ shut.ids = {}
    /\ ended' = Hush(run.n)
    /\ shut' = [shut EXCEPT !.pc = "close"]
    /\ UNCHANGED <<pool, at, jobVars, linkVars, draining, stop, told>>

ShutCancels ==
    /\ shut.pc = "handback" /\ shut.ids = {}
    /\ ctxDone' = TRUE /\ ended' = Hush(run.n)
    /\ shut' = [shut EXCEPT !.pc = "close"]
    /\ UNCHANGED <<pool, at, jobVars, run, ws, feats, draining, stop, told>>

ShutStep ==
    \/ ShutBegins \/ ShutIdle \/ ShutAnnounces \/ ShutDrained \/ ShutGivesUp
    \/ ShutCollects \/ ShutCancels \/ \E i \in Ids : ShutReleases(i)

-------------------------------------------------------------------------------
Finished == run.pc = "stopped" /\ UNCHANGED vars

Next ==
    \/ /\ run.pc # "stopped"
       /\ \/ Connect \/ Register \/ Disconnect \/ RunReturns
          \/ \E n \in Capacities : ProbeModels(n) \/ Reregister(n)
          \/ \E f \in Features : MsgRegistered(f)
          \/ \E j \in Job : MsgJob(j) \/ JobStep(j)
          \/ SpawnJob
          \/ \E i \in Ids : MsgCancel(i)
          \/ \E l \in Local : LocalArrives(l) \/ LocalHangsUp(l) \/ LocalStep(l)
          \/ \E g \in Goroutine : ContextFunc(g)
          \/ Signal \/ ShutStep
    \/ Finished

Spec == Init /\ [][Next]_vars

\* Goroutines run when they can.  A dispatch and a proxied request end: the
\* backend answers, or its health check or the caller cuts it off.  A connection
\* whose context is done is closed by the router or by the read deadline.
Fairness ==
    /\ \A j \in Job : WF_vars(run.pc # "stopped" /\ JobStep(j))
    /\ \A l \in Local : WF_vars(run.pc # "stopped" /\ LocalStep(l))
    /\ \A g \in Goroutine : WF_vars(run.pc # "stopped" /\ ContextFunc(g))
    /\ WF_vars(ShutStep)
    /\ WF_vars(Register \/ SpawnJob \/ RunReturns \/ (ctxDone /\ Disconnect)
                 \/ \E n \in Capacities : ProbeModels(n))

FairSpec == Spec /\ Fairness

-------------------------------------------------------------------------------
(* Properties.                                                              *)

\* A job that has come to its end on a connection that is still up, and that
\* nobody cancelled, has been answered for: with its last chunk, an error, or a
\* release that gives it back.  Otherwise the router would wait for its lease.
NoSilentDrop ==
    [][\A j \in Job :
         at[j] = "unlist" /\ at'[j] = "gone" /\ Live(home[j]) /\ ended[j] = "no"
             => told[j] # {}]_vars

\* A signal stops the worker from every state: while probing, while draining,
\* while jobs wait for slots, and whatever the router sends meanwhile.
ShutdownEnds == stop ~> run.pc = "stopped"

\* "Register the cancel func before spawning so a cancel message can abort the
\* job even while it is still waiting for a slot": a job at work that nobody
\* has cancelled, and that was not handed back, can be found in the cancel table.
CancelReaches ==
    \A j \in Job :
        at[j] \in {"spawned", "try", "asleep", "hold"} /\ ended[j] = "no" /\ told[j] = {}
            => cancels[IdOf[j]] = j
===============================================================================
