--------------------------- MODULE SlotPool_proofs ---------------------------
(***************************************************************************)
(* The slot pool of a worker, for every set of goroutines and capacities.  *)
(* Each lemma is about one critical section of the pool: whoever composes  *)
(* the sections (LocalLoad, Worker) cites it for the steps it takes.       *)
(***************************************************************************)
EXTENDS SlotPool, FiniteSetTheorems, TLAPS

Where == {"idle", "announce", "try", "asleep", "hold", "quit", "busy", "release", "broadcast",
          "renotify", "unlist", "gone", "accepted", "spawned"}
Contexts == {"no", "over", "told"}

\* The members of G that are, by the table w, at one of the places in S.
Standing(w, G, S) == {g \in G : w[g] \in S}

\* The counters of p are the goroutines the table w shows.
Accounts(p, w) ==
    /\ p.inFlight = Cardinality(Standing(w, Goroutine, Holding))
    /\ p.localWaiters = Cardinality(Standing(w, Local, Waiting))
    /\ p.localInFlight = Cardinality(Standing(w, Local, {"hold"}))

PoolInv ==
    /\ pool \in Pools
    /\ at \in [Goroutine -> Where]
    /\ ended \in [Goroutine -> Contexts]
    /\ Accounts(pool, at)

-----------------------------------------------------------------------------
(* Counting.                                                               *)

(* A goroutine that arrives at one of the places S is one more there, one that
   leaves is one less; nothing else is counted (every counter of slotpool.go). *)
LEMMA OneMoves ==
  ASSUME NEW G, IsFiniteSet(G), NEW S, NEW w, NEW v, NEW g \in G,
         \A h \in G \ {g} : w[h] \in S <=> v[h] \in S
  PROVE  /\ Cardinality(Standing(w, G, S)) \in Nat
         /\ w[g] \notin S /\ v[g] \in S =>
                Cardinality(Standing(v, G, S)) = Cardinality(Standing(w, G, S)) + 1
         /\ w[g] \in S /\ v[g] \notin S =>
                /\ Cardinality(Standing(v, G, S)) = Cardinality(Standing(w, G, S)) - 1
                /\ Cardinality(Standing(w, G, S)) > 0
         /\ (w[g] \in S <=> v[g] \in S) => Standing(v, G, S) = Standing(w, G, S)
<1>1. /\ IsFiniteSet(Standing(w, G, S)) /\ IsFiniteSet(Standing(v, G, S))
      /\ Cardinality(Standing(w, G, S)) \in Nat /\ Cardinality(Standing(v, G, S)) \in Nat
  BY FS_Subset, FS_CardinalityType DEF Standing
<1>2. ASSUME w[g] \notin S, v[g] \in S
      PROVE  Cardinality(Standing(v, G, S)) = Cardinality(Standing(w, G, S)) + 1
  <2>1. Standing(v, G, S) = Standing(w, G, S) \cup {g} /\ g \notin Standing(w, G, S)
    BY <1>2 DEF Standing
  <2> QED
    BY <1>1, <2>1, FS_AddElement
<1>3. ASSUME w[g] \in S, v[g] \notin S
      PROVE  Cardinality(Standing(v, G, S)) = Cardinality(Standing(w, G, S)) - 1
             /\ Cardinality(Standing(w, G, S)) > 0
  <2>1. Standing(v, G, S) = Standing(w, G, S) \ {g} /\ g \in Standing(w, G, S)
    BY <1>3 DEF Standing
  <2>2. Cardinality(Standing(v, G, S)) = Cardinality(Standing(w, G, S)) - 1
    BY <1>1, <2>1, FS_RemoveElement
  <2> QED
    BY <1>1, <2>2
<1>4. ASSUME w[g] \in S <=> v[g] \in S PROVE Standing(v, G, S) = Standing(w, G, S)
  BY <1>4 DEF Standing
<1> QED
  BY <1>1, <1>2, <1>3, <1>4

(* Waking the sleepers changes neither who holds a slot nor who waits for one
   (cond.Broadcast: a sleeper only looks again). *)
LEMMA WokenCounts ==
  ASSUME NEW w
  PROVE  /\ Standing(Woken(w), Goroutine, Holding) = Standing(w, Goroutine, Holding)
         /\ Standing(Woken(w), Local, Waiting) = Standing(w, Local, Waiting)
         /\ Standing(Woken(w), Local, {"hold"}) = Standing(w, Local, {"hold"})
         /\ w \in [Goroutine -> Where] => Woken(w) \in [Goroutine -> Where]
  BY DEF Woken, Standing, Goroutine, Holding, Waiting, Where

(* The sections that move a goroutine without counting: it holds and waits, or
   not, as before (the broadcasts, the hooks, the end of a dispatch). *)
LEMMA UncountedMove ==
  ASSUME PoolInv, NEW g \in Goroutine, NEW x \in Where,
         at[g] \in Holding <=> x \in Holding,
         g \in Local => (at[g] \in Waiting <=> x \in Waiting),
         g \in Local => (at[g] = "hold" <=> x = "hold")
  PROVE  /\ Accounts(pool, [at EXCEPT ![g] = x]) /\ [at EXCEPT ![g] = x] \in [Goroutine -> Where]
         /\ Accounts(pool, Woken([at EXCEPT ![g] = x]))
         /\ Woken([at EXCEPT ![g] = x]) \in [Goroutine -> Where]
<1> DEFINE w == [at EXCEPT ![g] = x]
<1>1. w \in [Goroutine -> Where] /\ w[g] = x /\ \A h \in Goroutine \ {g} : w[h] = at[h]
  BY DEF PoolInv
<1> HIDE DEF w
<1>2. /\ Standing(w, Goroutine, Holding) = Standing(at, Goroutine, Holding)
      /\ Standing(w, Local, Waiting) = Standing(at, Local, Waiting)
      /\ Standing(w, Local, {"hold"}) = Standing(at, Local, {"hold"})
  BY <1>1 DEF Standing, Goroutine
<1>3. Accounts(pool, w) /\ Accounts(pool, Woken(w)) /\ Woken(w) \in [Goroutine -> Where]
  BY <1>1, <1>2, WokenCounts DEF Accounts, PoolInv
<1> QED
  BY <1>1, <1>3 DEF w

(* The counters are never negative, and one that counts somebody is not zero. *)
LEMMA Counters ==
  ASSUME PoolInv
  PROVE  /\ pool.inFlight \in Nat /\ pool.localWaiters \in Nat /\ pool.localInFlight \in Nat
         /\ pool.capacity \in Nat /\ pool.ready \in BOOLEAN
         /\ LocalBusy \in Nat
         /\ \A l \in Local : at[l] \in Waiting => pool.localWaiters > 0
  <1>1. /\ pool.inFlight \in Nat /\ pool.localWaiters \in Nat /\ pool.localInFlight \in Nat
        /\ pool.capacity \in Nat /\ pool.ready \in BOOLEAN
    BY DEF PoolInv, Pools
  <1>2. LocalBusy \in Nat
    BY <1>1 DEF LocalBusy
  <1>3. ASSUME NEW l \in Local, at[l] \in Waiting PROVE pool.localWaiters > 0
    <2>1. IsFiniteSet(Standing(at, Local, Waiting)) /\ l \in Standing(at, Local, Waiting)
      BY <1>3, FS_Subset, PoolAssumption DEF Standing
    <2>2. Cardinality(Standing(at, Local, Waiting)) # 0
      BY <2>1, FS_EmptySet
    <2> QED
      BY <1>1, <2>2 DEF PoolInv, Accounts
  <1> QED
    BY <1>1, <1>2, <1>3

-----------------------------------------------------------------------------
(* The sections.                                                           *)

(* Whatever happens to the contexts, their table keeps its type (a context is
   cancelled, AfterFunc runs, a call returns). *)
LEMMA ContextsTyped ==
  ASSUME ended \in [Goroutine -> Contexts]
  PROVE  /\ \A G : Cancelled(G) \in [Goroutine -> Contexts]
         /\ \A g \in Goroutine : Stopped(g) \in [Goroutine -> Contexts]
  BY DEF Cancelled, Stopped, Contexts

(* A local request is counted as waiting from its first section on
   (AcquireLocal). *)
LEMMA AcquireCounted ==
  ASSUME PoolInv, NEW l \in Local, AcquireLocal(l)
  PROVE  PoolInv'
<1>1. /\ at[l] = "idle" /\ UNCHANGED ended
      /\ pool' = [pool EXCEPT !.localWaiters = @ + 1] /\ at' = [at EXCEPT ![l] = "announce"]
  BY DEF AcquireLocal
<1>2. /\ at' \in [Goroutine -> Where] /\ at'[l] = "announce" /\ l \in Goroutine
      /\ \A h \in Goroutine \ {l} : at'[h] = at[h]
  BY <1>1 DEF PoolInv, Where, Goroutine
<1>3. Standing(at', Goroutine, Holding) = Standing(at, Goroutine, Holding)
      /\ Standing(at', Local, {"hold"}) = Standing(at, Local, {"hold"})
  BY <1>1, <1>2 DEF Standing, Holding, Goroutine
<1>4. Cardinality(Standing(at', Local, Waiting)) = Cardinality(Standing(at, Local, Waiting)) + 1
  <2>1. at[l] \notin Waiting /\ at'[l] \in Waiting /\ \A h \in Local \ {l} : at'[h] = at[h]
    BY <1>1, <1>2 DEF Waiting, Goroutine
  <2> QED
    BY <2>1, OneMoves, PoolAssumption
<1>5. pool.localWaiters + 1 \in Nat /\ pool \in Pools
  BY Counters DEF PoolInv
<1>6. /\ pool' \in Pools /\ pool'.inFlight = pool.inFlight
      /\ pool'.localInFlight = pool.localInFlight /\ pool'.localWaiters = pool.localWaiters + 1
  BY <1>1, <1>5 DEF Pools
<1> QED
  BY <1>1, <1>2, <1>3, <1>4, <1>6 DEF PoolInv, Accounts

(* A local request that takes a slot stops waiting and holds one; one that gives
   up only stops waiting (one turn of AcquireLocal's loop). *)
LEMMA TryLocalCounted ==
  ASSUME PoolInv, NEW l \in Local, TryLocal(l)
  PROVE  PoolInv' /\ (Taken(l) => Free /\ pool'.inFlight = pool.inFlight + 1)
         /\ \A h \in Goroutine \ {l} : ~Taken(h)
<1>1. at[l] = "try" /\ l \in Goroutine /\ pool \in Pools /\ at \in [Goroutine -> Where]
  BY DEF TryLocal, PoolInv, Goroutine
<1>2. ended' \in [Goroutine -> Contexts]
  BY <1>1, ContextsTyped DEF TryLocal, PoolInv
<1>3. pool.localWaiters - 1 \in Nat /\ pool.inFlight + 1 \in Nat /\ pool.localInFlight + 1 \in Nat
  BY <1>1, Counters DEF Waiting
<1>4. ASSUME NEW x \in {"hold", "quit"}, at' = [at EXCEPT ![l] = x]
      PROVE  /\ at' \in [Goroutine -> Where] /\ at'[l] = x
             /\ \A h \in Goroutine \ {l} : at'[h] = at[h]
             /\ Cardinality(Standing(at', Local, Waiting)) = Cardinality(Standing(at, Local, Waiting)) - 1
  <2>1. /\ at' \in [Goroutine -> Where] /\ at'[l] = x
        /\ \A h \in Goroutine \ {l} : at'[h] = at[h]
    BY <1>1, <1>4 DEF Where
  <2>2. at[l] \in Waiting /\ at'[l] \notin Waiting /\ \A h \in Local \ {l} : at'[h] = at[h]
    BY <1>1, <2>1 DEF Waiting, Goroutine
  <2> QED
    BY <2>1, <2>2, OneMoves, PoolAssumption
<1>5. CASE Free /\ at' = [at EXCEPT ![l] = "hold"]
           /\ pool' = [pool EXCEPT !.inFlight = @ + 1, !.localInFlight = @ + 1, !.localWaiters = @ - 1]
  <2>1. at'[l] = "hold" /\ \A h \in Goroutine \ {l} : at'[h] = at[h]
    BY <1>4, <1>5
  <2>2. /\ Cardinality(Standing(at', Goroutine, Holding)) = Cardinality(Standing(at, Goroutine, Holding)) + 1
        /\ Cardinality(Standing(at', Local, {"hold"})) = Cardinality(Standing(at, Local, {"hold"})) + 1
    <3>1. IsFiniteSet(Goroutine) /\ IsFiniteSet(Local)
      BY PoolAssumption, FS_Union DEF Goroutine
    <3>2. at[l] \notin Holding /\ at'[l] \in Holding /\ at[l] \notin {"hold"} /\ at'[l] \in {"hold"}
          /\ \A h \in Local \ {l} : at'[h] = at[h]
      BY <1>1, <2>1 DEF Holding, Goroutine
    <3>3. Cardinality(Standing(at', Goroutine, Holding)) = Cardinality(Standing(at, Goroutine, Holding)) + 1
      BY <1>1, <2>1, <3>1, <3>2, OneMoves
    <3>4. Cardinality(Standing(at', Local, {"hold"})) = Cardinality(Standing(at, Local, {"hold"})) + 1
      <4> DEFINE held == {"hold"}
      <4>1. at[l] \notin held /\ at'[l] \in held
        BY <3>2
      <4> HIDE DEF held
      <4>2. Cardinality(Standing(at', Local, held)) = Cardinality(Standing(at, Local, held)) + 1
        BY <3>1, <3>2, <4>1, OneMoves
      <4> QED
        BY <4>2 DEF held
    <3> QED
      BY <3>3, <3>4
  <2>3. /\ pool' \in Pools /\ pool'.inFlight = pool.inFlight + 1
        /\ pool'.localInFlight = pool.localInFlight + 1 /\ pool'.localWaiters = pool.localWaiters - 1
    BY <1>1, <1>3, <1>5 DEF Pools
  <2>4. Accounts(pool', at')
    BY <1>4, <1>5, <2>2, <2>3 DEF PoolInv, Accounts
  <2> QED
    BY <1>2, <1>4, <1>5, <2>1, <2>3, <2>4 DEF PoolInv, Taken
<1>6. CASE at' = [at EXCEPT ![l] = "quit"] /\ pool' = [pool EXCEPT !.localWaiters = @ - 1]
  <2>1. at'[l] = "quit" /\ \A h \in Goroutine \ {l} : at'[h] = at[h]
    BY <1>4, <1>6
  <2>2. Standing(at', Goroutine, Holding) = Standing(at, Goroutine, Holding)
        /\ Standing(at', Local, {"hold"}) = Standing(at, Local, {"hold"})
    BY <1>1, <2>1 DEF Standing, Holding, Goroutine
  <2>3. /\ pool' \in Pools /\ pool'.inFlight = pool.inFlight
        /\ pool'.localInFlight = pool.localInFlight /\ pool'.localWaiters = pool.localWaiters - 1
    BY <1>1, <1>3, <1>6 DEF Pools
  <2>4. Accounts(pool', at')
    BY <1>4, <1>6, <2>2, <2>3 DEF PoolInv, Accounts
  <2>5. ~Taken(l) /\ \A h \in Goroutine \ {l} : ~Taken(h)
    BY <2>1 DEF Taken, Holding
  <2> QED
    BY <1>2, <1>4, <1>6, <2>3, <2>4, <2>5 DEF PoolInv
<1>7. CASE at' = [at EXCEPT ![l] = "asleep"] /\ pool' = pool
  <2>1. Accounts(pool, at') /\ at' \in [Goroutine -> Where]
    BY <1>1, <1>7, UncountedMove DEF Holding, Waiting, Where
  <2>2. ~Taken(l) /\ \A h \in Goroutine \ {l} : ~Taken(h)
    BY <1>1, <1>7 DEF Taken, Holding
  <2> QED
    BY <1>1, <1>2, <1>7, <2>1, <2>2 DEF PoolInv
<1> QED
  BY <1>5, <1>6, <1>7 DEF TryLocal

(* A local request that has given up, or has released, wakes the others
   (AcquireLocal's exit, the broadcasts). *)
LEMMA QuitCounted ==
  ASSUME PoolInv, NEW l \in Local, QuitLocal(l)
  PROVE  PoolInv'
<1>1. l \in Goroutine /\ at[l] = "quit"
  BY DEF QuitLocal, Goroutine
<1>2. Accounts(pool, Woken([at EXCEPT ![l] = "renotify"]))
      /\ Woken([at EXCEPT ![l] = "renotify"]) \in [Goroutine -> Where]
  BY <1>1, UncountedMove DEF Holding, Waiting, Where
<1> QED
  BY <1>2 DEF QuitLocal, PoolInv

(* ReleaseLocal stops counting a local request as served; its slot is still taken
   until Release. *)
LEMMA ReleaseLocalCounted ==
  ASSUME PoolInv, NEW l \in Local, ReleaseLocal(l)
  PROVE  PoolInv'
<1>1. at[l] = "hold" /\ l \in Goroutine /\ at' = [at EXCEPT ![l] = "release"] /\ UNCHANGED ended
      /\ pool' = [pool EXCEPT !.localInFlight = IF @ > 0 THEN @ - 1 ELSE @]
  BY DEF ReleaseLocal, Goroutine
<1>2. at' \in [Goroutine -> Where] /\ at'[l] = "release" /\ \A h \in Goroutine \ {l} : at'[h] = at[h]
  BY <1>1 DEF PoolInv, Where
<1>3. Standing(at', Goroutine, Holding) = Standing(at, Goroutine, Holding)
      /\ Standing(at', Local, Waiting) = Standing(at, Local, Waiting)
  BY <1>1, <1>2 DEF Standing, Holding, Waiting, Goroutine
<1>4. /\ Cardinality(Standing(at', Local, {"hold"})) = Cardinality(Standing(at, Local, {"hold"})) - 1
      /\ Cardinality(Standing(at, Local, {"hold"})) > 0
  <2>1. at[l] \in {"hold"} /\ at'[l] \notin {"hold"} /\ \A h \in Local \ {l} : at'[h] = at[h]
    BY <1>1, <1>2 DEF Goroutine
  <2> QED
    BY <2>1, OneMoves, PoolAssumption
<1>5. pool \in Pools /\ pool.localInFlight \in Nat /\ pool.localInFlight > 0
      /\ pool.localInFlight - 1 \in Nat
  BY <1>4, Counters DEF PoolInv, Accounts
<1>6. /\ pool' \in Pools /\ pool'.inFlight = pool.inFlight
      /\ pool'.localInFlight = pool.localInFlight - 1 /\ pool'.localWaiters = pool.localWaiters
  BY <1>1, <1>5 DEF Pools
<1> QED
  BY <1>1, <1>2, <1>3, <1>4, <1>6 DEF PoolInv, Accounts

(* A job takes a slot only while no local request waits for one
   (one turn of acquireRouterOrYield). *)
LEMMA TryJobCounted ==
  ASSUME PoolInv, NEW j \in Job, NEW yield, TryJob(j, yield)
  PROVE  PoolInv' /\ (Taken(j) => Free /\ pool.localWaiters = 0 /\ pool'.inFlight = pool.inFlight + 1)
         /\ \A h \in Goroutine \ {j} : ~Taken(h)
<1>1. at[j] = "try" /\ j \in Goroutine /\ j \notin Local /\ pool \in Pools /\ at \in [Goroutine -> Where]
  BY PoolAssumption DEF TryJob, PoolInv, Goroutine
<1>2. ended' \in [Goroutine -> Contexts]
  BY <1>1, ContextsTyped DEF TryJob, PoolInv
<1>3. CASE /\ Free /\ pool.localWaiters = 0 /\ at' = [at EXCEPT ![j] = "hold"]
           /\ pool' = [pool EXCEPT !.inFlight = @ + 1]
  <2>1. at' \in [Goroutine -> Where] /\ at'[j] = "hold" /\ \A h \in Goroutine \ {j} : at'[h] = at[h]
    BY <1>1, <1>3 DEF Where
  <2>2. Standing(at', Local, Waiting) = Standing(at, Local, Waiting)
        /\ Standing(at', Local, {"hold"}) = Standing(at, Local, {"hold"})
    BY <1>1, <2>1 DEF Standing, Goroutine
  <2>3. Cardinality(Standing(at', Goroutine, Holding)) = Cardinality(Standing(at, Goroutine, Holding)) + 1
    <3>1. IsFiniteSet(Goroutine)
      BY PoolAssumption, FS_Union DEF Goroutine
    <3>2. at[j] \notin Holding /\ at'[j] \in Holding
      BY <1>1, <2>1 DEF Holding
    <3> QED
      BY <1>1, <2>1, <3>1, <3>2, OneMoves
  <2>4. /\ pool' \in Pools /\ pool'.inFlight = pool.inFlight + 1
        /\ pool'.localInFlight = pool.localInFlight /\ pool'.localWaiters = pool.localWaiters
    BY <1>1, <1>3, Counters DEF Pools
  <2>5. Accounts(pool', at')
    BY <2>2, <2>3, <2>4 DEF PoolInv, Accounts
  <2> QED
    BY <1>2, <1>3, <2>1, <2>4, <2>5 DEF PoolInv, Taken
<1>4. ASSUME NEW x \in {"unlist", "busy", "asleep"}, at' = [at EXCEPT ![j] = x], pool' = pool
      PROVE  PoolInv' /\ ~Taken(j) /\ \A h \in Goroutine \ {j} : ~Taken(h)
  <2>1. Accounts(pool, at') /\ at' \in [Goroutine -> Where]
    BY <1>1, <1>4, UncountedMove DEF Holding, Where
  <2>2. at'[j] = x /\ \A h \in Goroutine \ {j} : at'[h] = at[h]
    BY <1>1, <1>4
  <2>3. ~Taken(j) /\ \A h \in Goroutine \ {j} : ~Taken(h)
    BY <2>2 DEF Taken, Holding
  <2> QED
    BY <1>1, <1>2, <1>4, <2>1, <2>3 DEF PoolInv
<1> QED
  BY <1>3, <1>4 DEF TryJob

(* Release gives exactly one slot back, and the guard against a negative counter
   never bites (Release). *)
LEMMA ReleaseCounted ==
  ASSUME PoolInv, NEW g \in Goroutine, Release(g)
  PROVE  PoolInv'
<1>1. at[g] = "release" /\ at' = [at EXCEPT ![g] = "broadcast"] /\ UNCHANGED ended
      /\ pool' = [pool EXCEPT !.inFlight = IF @ > 0 THEN @ - 1 ELSE @]
  BY DEF Release
<1>2. at' \in [Goroutine -> Where] /\ at'[g] = "broadcast" /\ \A h \in Goroutine \ {g} : at'[h] = at[h]
  BY <1>1 DEF PoolInv, Where
<1>3. Standing(at', Local, {"hold"}) = Standing(at, Local, {"hold"})
      /\ Standing(at', Local, Waiting) = Standing(at, Local, Waiting)
  BY <1>1, <1>2 DEF Standing, Waiting, Goroutine
<1>4. /\ Cardinality(Standing(at', Goroutine, Holding)) = Cardinality(Standing(at, Goroutine, Holding)) - 1
      /\ Cardinality(Standing(at, Goroutine, Holding)) > 0
  <2>1. at[g] \in Holding /\ at'[g] \notin Holding
    BY <1>1, <1>2 DEF Holding
  <2>2. IsFiniteSet(Goroutine)
    BY PoolAssumption, FS_Union DEF Goroutine
  <2> QED
    BY <1>2, <2>1, <2>2, OneMoves
<1>5. pool \in Pools /\ pool.inFlight \in Nat /\ pool.inFlight > 0 /\ pool.inFlight - 1 \in Nat
  BY <1>4, Counters DEF PoolInv, Accounts
<1>6. /\ pool' \in Pools /\ pool'.inFlight = pool.inFlight - 1
      /\ pool'.localInFlight = pool.localInFlight /\ pool'.localWaiters = pool.localWaiters
  BY <1>1, <1>5 DEF Pools
<1> QED
  BY <1>1, <1>2, <1>3, <1>4, <1>6 DEF PoolInv, Accounts

(* The broadcasts, the sizing of the pool and the hooks count nothing. *)
LEMMA UncountedSteps ==
  ASSUME PoolInv
  PROVE  /\ \A g \in Goroutine : ReleaseBroadcast(g) => PoolInv'
         /\ \A g \in Goroutine : AfterFunc(g) => PoolInv'
         /\ \A n \in Capacities : InitPool(n) /\ UNCHANGED ended => PoolInv'
<1>1. ASSUME NEW g \in Goroutine, ReleaseBroadcast(g) PROVE PoolInv'
  <2> DEFINE x == IF g \in Local THEN "renotify" ELSE "unlist"
  <2>1. at[g] = "broadcast" /\ at' = Woken([at EXCEPT ![g] = x]) /\ UNCHANGED <<pool, ended>> /\ x \in Where
    BY <1>1 DEF ReleaseBroadcast, Where
  <2>2. x \notin Holding /\ x \notin Waiting /\ x # "hold"
    BY DEF Holding, Waiting
  <2> HIDE DEF x
  <2>3. Accounts(pool, Woken([at EXCEPT ![g] = x])) /\ Woken([at EXCEPT ![g] = x]) \in [Goroutine -> Where]
    BY <2>1, <2>2, UncountedMove DEF Holding, Waiting
  <2> QED
    BY <2>1, <2>3 DEF PoolInv
<1>2. ASSUME NEW g \in Goroutine, AfterFunc(g) PROVE PoolInv'
  <2>1. Accounts(pool, Woken(at)) /\ Woken(at) \in [Goroutine -> Where]
    BY WokenCounts DEF PoolInv, Accounts
  <2> QED
    BY <1>2, <2>1 DEF AfterFunc, PoolInv, Contexts
<1>3. ASSUME NEW n \in Capacities, InitPool(n), UNCHANGED ended PROVE PoolInv'
  <2>1. Accounts(pool, Woken(at)) /\ Woken(at) \in [Goroutine -> Where]
    BY WokenCounts DEF PoolInv, Accounts
  <2>2. n \in Nat /\ pool \in Pools
    BY PoolAssumption DEF PoolInv
  <2>3. /\ Resized(n) \in Pools /\ Resized(n).inFlight = pool.inFlight
        /\ Resized(n).localInFlight = pool.localInFlight /\ Resized(n).localWaiters = pool.localWaiters
    BY <2>2 DEF Resized, Pools
  <2> QED
    BY <1>3, <2>1, <2>3 DEF InitPool, PoolInv, Accounts
<1> QED
  BY <1>1, <1>2, <1>3

(* What a step that takes a slot leaves: no more holders than slots, and, when it
   is a job that took it, nobody local waiting (AcquireLocal,
   acquireRouterOrYield). *)
LEMMA TakenWithin ==
  ASSUME PoolInv, PoolInv', NEW g \in Goroutine, Taken(g), Free, pool'.inFlight = pool.inFlight + 1,
         g \in Job => pool.localWaiters = 0
  PROVE  /\ Cardinality({h \in Goroutine : at'[h] \in Holding}) <= pool.capacity
         /\ g \in Job => \A l \in Local : at[l] \notin Waiting
<1>1. pool'.inFlight = Cardinality({h \in Goroutine : at'[h] \in Holding})
  BY DEF PoolInv, Accounts, Standing
<1>2. pool.inFlight + 1 <= pool.capacity
  BY Counters DEF Free
<1>3. g \in Job => \A l \in Local : at[l] \notin Waiting
  BY Counters
<1> QED
  BY <1>1, <1>2, <1>3

(* The counters are what the run checks. *)
LEMMA PoolInvAccounting ==
  ASSUME PoolInv
  PROVE  PoolAccounting
BY DEF PoolInv, Accounts, Standing, PoolAccounting

=============================================================================
