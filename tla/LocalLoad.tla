------------------------------ MODULE LocalLoad ------------------------------
(***************************************************************************)
(* The slot pool under load, with the reports of local load a worker sends *)
(* to the router (the hook of slotpool.go, kickLocal, reportLocal and the  *)
(* reporting goroutine of conn.go) and the local API that takes slots      *)
(* (client/internal/localapi/server.go).  The connection stays up here;    *)
(* module Worker has the rest of its life.                                 *)
(***************************************************************************)
EXTENDS SlotPool

VARIABLES
    yields,    \* the localBusy flag as each job read it: the router knows reports
    kick,      \* c.localKick holds a token
    reporter,  \* load the reporting goroutine is about to send, or -1
    carry,     \* load a job that found no slot is about to send, or -1
    known,     \* the local load the router last heard
    knownBy    \* who told it (history)

poolVars == <<pool, at, ended>>
loadVars == <<kick, reporter, carry, known, knownBy>>
allLoadVars == <<poolVars, yields, loadVars>>

LoadRange == 0 .. Cardinality(Local)

LoadTypeOK ==
    /\ pool \in Pools
    /\ at \in [Goroutine -> {"idle", "announce", "try", "asleep", "hold", "quit", "busy",
                             "release", "broadcast", "renotify", "unlist", "gone"}]
    /\ ended \in [Goroutine -> {"no", "over", "told"}]
    /\ yields \in [Job -> BOOLEAN]
    /\ kick \in BOOLEAN /\ reporter \in LoadRange \cup {-1}
    /\ carry \in [Job -> LoadRange \cup {-1}]
    /\ known \in LoadRange /\ knownBy \in {"reporter", "job"}

\* All jobs of a connection find the same flag.
LoadInit ==
    /\ pool \in {[EmptyPool EXCEPT !.capacity = n, !.ready = TRUE] : n \in Capacities}
    /\ at = [g \in Goroutine |-> "idle"]
    /\ ended = [g \in Goroutine |-> "no"]
    /\ yields \in {[j \in Job |-> b] : b \in BOOLEAN}
    /\ kick = FALSE /\ reporter = -1 /\ carry = [j \in Job |-> -1]
    /\ known = 0 /\ knownBy = "reporter"

-------------------------------------------------------------------------------
(* The local API.  A request that is refused or names an unknown model does  *)
(* not reach the pool.                                                       *)

LocalArrives(l) == AcquireLocal(l) /\ UNCHANGED <<yields, loadVars>>

\* notifyLocal calls the hook, kickLocal, which never blocks.
Announce(l) ==
    /\ at[l] = "announce"
    /\ kick' = TRUE
    /\ at' = [at EXCEPT ![l] = "try"]
    /\ UNCHANGED <<pool, ended, yields, reporter, carry, known, knownBy>>

MutantRenotify(l) ==
    /\ at[l] = "renotify"
    /\ kick' = (kick \/ ended[l] = "no")
    /\ at' = [at EXCEPT ![l] = "gone"]
    /\ UNCHANGED <<pool, ended, yields, reporter, carry, known, knownBy>>

Renotify(l) ==
    /\ at[l] = "renotify"
    /\ kick' = TRUE
    /\ at' = [at EXCEPT ![l] = "gone"]
    /\ UNCHANGED <<pool, ended, yields, reporter, carry, known, knownBy>>

\* The caller of the local API hangs up.
LocalHangsUp(l) ==
    /\ at[l] \in {"announce", "try", "asleep", "hold"} /\ ended[l] = "no"
    /\ ended' = Cancelled({l})
    /\ UNCHANGED <<pool, at, yields, loadVars>>

\* The steps of handleChatCompletions; the proxied answer ends at any time.
LocalPool(l) ==
    /\ \/ TryLocal(l) \/ QuitLocal(l) \/ ReleaseLocal(l)
       \/ Release(l) \/ ReleaseBroadcast(l)
    /\ UNCHANGED <<yields, loadVars>>

LocalStep(l) == Announce(l) \/ Renotify(l) \/ LocalPool(l)

-------------------------------------------------------------------------------
(* Jobs, which hold their slot for any time and may be cancelled at any time. *)

JobArrives(j) ==
    /\ at[j] = "idle"
    /\ at' = [at EXCEPT ![j] = "try"]
    /\ UNCHANGED <<pool, ended, yields, loadVars>>

JobCancelled(j) ==
    /\ at[j] \in {"try", "asleep", "hold"} /\ ended[j] = "no"
    /\ ended' = Cancelled({j})
    /\ UNCHANGED <<pool, at, yields, loadVars>>

JobPool(j) ==
    /\ \/ TryJob(j, yields[j]) \/ Release(j) \/ ReleaseBroadcast(j)
    /\ UNCHANGED <<yields, loadVars>>

JobEnds(j) ==
    /\ at[j] \in {"hold", "unlist"}
    /\ at' = [at EXCEPT ![j] = IF @ = "hold" THEN "release" ELSE "gone"]
    /\ UNCHANGED <<pool, ended, yields, loadVars>>

\* A job local requests leave no slot for reports the load before it is handed
\* back: it reads the load, then sends it.
BusyReads(j) ==
    /\ at[j] = "busy" /\ carry[j] = -1
    /\ carry' = [carry EXCEPT ![j] = LocalBusy]
    /\ UNCHANGED <<poolVars, yields, kick, reporter, known, knownBy>>

BusySends(j) ==
    /\ at[j] = "busy" /\ carry[j] # -1
    /\ known' = carry[j] /\ knownBy' = "job"
    /\ carry' = [carry EXCEPT ![j] = -1]
    /\ at' = [at EXCEPT ![j] = "unlist"]
    /\ UNCHANGED <<pool, ended, yields, kick, reporter>>

JobStep(j) == JobPool(j) \/ JobEnds(j) \/ BusyReads(j) \/ BusySends(j)

-------------------------------------------------------------------------------
(* The connection's part.                                                   *)

\* A change between taking the token and reading the load leaves another token.
ReporterReads ==
    /\ kick /\ reporter = -1
    /\ kick' = FALSE
    /\ reporter' = IF \E j \in Job : yields[j] THEN LocalBusy ELSE -1
    /\ UNCHANGED <<poolVars, yields, carry, known, knownBy>>

ReporterSends ==
    /\ reporter # -1
    /\ known' = reporter /\ knownBy' = "reporter"
    /\ reporter' = -1
    /\ UNCHANGED <<poolVars, yields, kick, carry>>

\* A reconnect or a change of the backend's slots sizes the pool again.
Resize(n) ==
    /\ n # pool.capacity
    /\ InitPool(n)
    /\ UNCHANGED <<ended, yields, loadVars>>

ContextFunc(g) == AfterFunc(g) /\ UNCHANGED <<yields, loadVars>>

LoadNext ==
    \/ \E l \in Local : LocalArrives(l) \/ LocalHangsUp(l) \/ LocalStep(l)
    \/ \E j \in Job : JobArrives(j) \/ JobCancelled(j) \/ JobStep(j)
    \/ \E g \in Goroutine : ContextFunc(g)
    \/ \E n \in Capacities : Resize(n)
    \/ ReporterReads \/ ReporterSends

LoadSpec == LoadInit /\ [][LoadNext]_allLoadVars

\* Goroutines run when they can, and what holds a slot gives it back: the
\* backend answers, or its health check or the caller cuts it off.
LoadFairness ==
    /\ \A l \in Local : WF_allLoadVars(LocalStep(l))
    /\ \A j \in Job : WF_allLoadVars(JobStep(j))
    /\ \A g \in Goroutine : WF_allLoadVars(ContextFunc(g))
    /\ WF_allLoadVars(ReporterReads \/ ReporterSends)

-------------------------------------------------------------------------------
(* Properties, with PoolAccounting and LocalFirst of SlotPool.              *)

\* When the local load differs from what the reporting goroutine last told the
\* router, something is on its way to correct it: dropping a wake-up while one
\* is pending loses nothing.  (A report a job sends itself is another matter: it
\* may be overtaken, see the README.)
LoadReportRepaired ==
    (\E j \in Job : yields[j]) /\ knownBy = "reporter" /\ known # LocalBusy
        => \/ kick \/ reporter # -1
           \/ \E l \in Local :
                 at[l] \in {"announce", "quit", "release", "broadcast", "renotify"}

\* No wake-up is lost for ever: a job that waits for a slot gets one, is handed
\* back, or is cancelled, whatever local requests come, wait and give up.
JobsServed ==
    \A j \in Job : at[j] \in {"try", "asleep"} ~> at[j] \notin {"try", "asleep"}
===============================================================================
