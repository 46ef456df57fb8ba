--------------------------- MODULE Dispatch_proofs ---------------------------
(***************************************************************************)
(* For every number of requests, workers, slots, attempts and queue places *)
(* in Dispatch: the types, the capacity bound, one copy of a streaming     *)
(* request, two job tables that agree, and nothing tracked on a worker     *)
(* that has left.                                                          *)
(***************************************************************************)
EXTENDS Dispatch, FiniteSetTheorems, TLAPS

(* What the goroutines keep in their locals at each program counter. *)
SchedLocals ==
  /\ sched.pc \in {"pop", "track", "send", "untrack", "uncount", "push"} =>
       /\ sched.req \in Requests /\ sched.client \in Clients
  /\ sched.pc \in {"track", "send", "untrack", "uncount", "push"} => sched.copy \in Copies

ReaderLocals ==
  \A c \in Clients :
    /\ reader[c].pc \in {"decr", "act", "cancel"} => reader[c].req \in Requests
    /\ reader[c].pc = "free" => reader[c].client \in Clients

CallerLocals == \A r \in Requests : caller[r].pc = "free" => caller[r].client \in Clients

TypeInv == TypeOK /\ SchedLocals /\ ReaderLocals /\ CallerLocals
-----------------------------------------------------------------------------
(* Types of the shared steps *)

(* A tracked job is a record of its client, so taking it keeps both job tables
   well formed (hub.go:1268-1282). *)
LEMMA UntrackType ==
  ASSUME TypeInv, NEW r \in Requests, jobs[r] # None, Untrack(r)
  PROVE  /\ jobs[r] \in Jobs
         /\ jobs' \in [Requests -> Jobs \cup {None}]
         /\ jobsByClient' \in [Clients -> SUBSET Requests]
<1>1. jobs \in [Requests -> Jobs \cup {None}] /\ jobsByClient \in [Clients -> SUBSET Requests]
  BY DEF TypeInv, TypeOK
<1>2. jobs[r] \in Jobs /\ jobs[r].client \in Clients
  BY <1>1 DEF Jobs
<1> QED
  BY <1>1, <1>2 DEF Untrack

(* Freeing a slot by ID keeps the counters integers (hub.go:1214-1221). *)
LEMMA DecrType ==
  ASSUME TypeInv, NEW c \in Clients, DecrById(c)
  PROVE  inFlight' \in [Clients -> Int]
<1>1. inFlight \in [Clients -> Int]
  BY DEF TypeInv, TypeOK
<1> QED
  BY <1>1 DEF DecrById

(* A retry is a request again (hub.go:742-748). *)
LEMMA RetryType == ASSUME NEW copy \in Copies PROVE retryRequest(copy) \in Copies
BY DEF Copies, retryRequest

(* Leaving a message, the reader is back in its loop or in its sweep. *)
LEMMA RestType ==
  ASSUME TypeInv, NEW c \in Clients
  PROVE  Rest(c) \in ReaderStates /\ Rest(c).pc \in {"read", "sweep"}
<1>1. reader[c] \in ReaderStates
  BY DEF TypeInv, TypeOK
<1> QED
  BY <1>1 DEF Rest, IdleReader, ReaderStates
-----------------------------------------------------------------------------
(* The initial state is well typed. *)
LEMMA InitTypeInv == Init => TypeInv
<1> SUFFICES ASSUME Init PROVE TypeInv
  OBVIOUS
<1>1. IdleSched \in SchedStates /\ IdleReader \in ReaderStates
  BY DEF IdleSched, IdleReader, SchedStates, ReaderStates
<1>2. sched \in SchedStates /\ reader \in [Clients -> ReaderStates]
  BY <1>1 DEF Init
<1>3. caller \in [Requests -> CallerStates]
  BY DEF Init, CallerStates
<1>4. conn \in [Clients -> ConnStates]
  BY DEF Init, ConnStates
<1>5. inbox \in [Requests -> Seq(Chunks)]
  BY DEF Init
<1>6. /\ queue \in [Requests -> Copies \cup {None}] /\ jobs \in [Requests -> Jobs \cup {None}]
      /\ inFlight \in [Clients -> Int] /\ localBusy \in [Clients -> Nat]
      /\ slots \in [Clients -> Nat] /\ peak \in [Clients -> Nat]
      /\ \A c \in Clients : slots[c] <= peak[c]
      /\ jobsByClient \in [Clients -> SUBSET Requests]
  BY DispatchAssumption DEF Init
<1>b. draining \in [Clients -> BOOLEAN] /\ signal \in BOOLEAN
  BY DEF Init
<1>7. /\ reaper \in SUBSET [req : Requests, client : Clients] /\ work \in SUBSET WorkItems
      /\ sent \in [Requests -> Nat] /\ yields \in [Requests -> Nat]
      /\ seen \in [Requests -> SUBSET Nat] /\ dropped \in SUBSET Requests
  BY DEF Init
<1>8. TypeOK
  BY <1>2, <1>3, <1>4, <1>5, <1>6, <1>b, <1>7 DEF TypeOK
<1>9. SchedLocals /\ ReaderLocals /\ CallerLocals
  BY DEF Init, IdleSched, IdleReader, SchedLocals, ReaderLocals, CallerLocals
<1> QED
  BY <1>8, <1>9 DEF TypeInv

(* Every step of an API handler keeps the types (handler.go:602-951). *)
LEMMA HandlerTypeInv ==
  ASSUME TypeInv, NEW r \in Requests, Handler(r)
  PROVE  TypeInv'
<1>c. caller \in [Requests -> CallerStates]
  BY DEF TypeInv, TypeOK
<1>l. CallerLocals
  BY DEF TypeInv
<1>q. queue \in [Requests -> Copies \cup {None}] /\ signal \in BOOLEAN
  BY DEF TypeInv, TypeOK
<1>i. inbox \in [Requests -> Seq(Chunks)]
  BY DEF TypeInv, TypeOK
<1>s. seen \in [Requests -> SUBSET Nat]
  BY DEF TypeInv, TypeOK
<1>1. ASSUME NEW kind \in Kinds, Enqueue(r, kind) PROVE TypeInv'
  <2>1. kind \in {"stream", "batch"}
    BY DispatchAssumption
  <2>2. caller' \in [Requests -> CallerStates]
    BY <1>c, <1>1, <2>1 DEF Enqueue, CallerStates
  <2>3. CallerLocals'
    BY <1>c, <1>l, <1>1 DEF Enqueue, CallerStates, CallerLocals
  <2>4. [attempts |-> 0, model |-> Alias] \in Copies
    BY DEF Copies
  <2>5. queue' \in [Requests -> Copies \cup {None}] /\ signal' \in BOOLEAN
    BY <1>q, <1>1, <2>4 DEF Enqueue, Push, Wake
  <2> QED
    BY <1>1, <2>2, <2>3, <2>5
    DEF Enqueue, TypeInv, TypeOK, SchedLocals, ReaderLocals, hubVars, histVars
<1>2. CASE ReadChunk(r)
  <2>1. caller' \in [Requests -> CallerStates]
    BY <1>c, <1>2 DEF ReadChunk, CallerStates
  <2>2. CallerLocals'
    BY <1>c, <1>l, <1>2 DEF ReadChunk, CallerStates, CallerLocals
  <2>3. inbox[r] \in Seq(Chunks) /\ inbox[r] # << >>
    BY <1>i, <1>2 DEF ReadChunk
  <2>4. Head(inbox[r]) \in Chunks /\ Tail(inbox[r]) \in Seq(Chunks)
    BY <2>3
  <2>5. inbox' \in [Requests -> Seq(Chunks)]
    <3>1. \/ inbox' = [inbox EXCEPT ![r] = Tail(inbox[r])]
          \/ inbox' = [inbox EXCEPT ![r] = << >>]
      BY <1>2 DEF ReadChunk
    <3>2. << >> \in Seq(Chunks)
      OBVIOUS
    <3> QED
      BY <1>i, <2>4, <3>1, <3>2
  <2>6. seen' \in [Requests -> SUBSET Nat]
    <3>1. Head(inbox[r]).n \in Nat
      BY <2>4 DEF Chunks
    <3>2. seen' = seen \/ seen' = [seen EXCEPT ![r] = @ \cup {Head(inbox[r]).n}]
      BY <1>2 DEF ReadChunk
    <3> QED
      BY <1>s, <3>1, <3>2
  <2>7. /\ UNCHANGED <<queue, sched, signal, conn, inFlight, localBusy, draining, slots, jobs>>
        /\ UNCHANGED <<jobsByClient, reader, reaper, work, sent, yields, dropped, peak>>
    BY <1>2 DEF ReadChunk, hubVars
  <2> QED
    BY <2>1, <2>2, <2>5, <2>6, <2>7 DEF TypeInv, TypeOK, SchedLocals, ReaderLocals
<1>3. CASE GiveUp(r)
  <2>1. caller' \in [Requests -> CallerStates]
    <3> DEFINE row == [caller[r] EXCEPT !.pc = "cancel", !.next = "end"]
    <3>1. row \in CallerStates
      BY <1>c DEF CallerStates
    <3>2. caller' = [caller EXCEPT ![r] = row]
      BY <1>3 DEF GiveUp
    <3> HIDE DEF row
    <3> QED
      BY <1>c, <3>1, <3>2
  <2>2. CallerLocals'
    BY <1>c, <1>l, <1>3 DEF GiveUp, CallerStates, CallerLocals
  <2>3. queue' \in [Requests -> Copies \cup {None}]
    BY <1>q, <1>3 DEF GiveUp
  <2> QED
    BY <1>3, <2>1, <2>2, <2>3
    DEF GiveUp, TypeInv, TypeOK, SchedLocals, ReaderLocals, hubVars, histVars
<1>4. CASE BatchTimeout(r)
  <2>1. caller' \in [Requests -> CallerStates]
    <3> DEFINE more == caller[r].attempts + 1
               row == [caller[r] EXCEPT !.pc = "cancel", !.next = "retry", !.attempts = more]
    <3>1. caller[r] \in CallerStates /\ more \in Nat
      BY <1>c DEF CallerStates
    <3>2. caller' = [caller EXCEPT ![r] = row]
      BY <1>4 DEF BatchTimeout
    <3> HIDE DEF more
    <3>3. row \in CallerStates
      BY <3>1 DEF CallerStates
    <3> HIDE DEF row
    <3> QED
      BY <1>c, <3>2, <3>3
  <2>2. CallerLocals'
    BY <1>c, <1>l, <1>4 DEF BatchTimeout, CallerStates, CallerLocals
  <2>3. queue' \in [Requests -> Copies \cup {None}]
    BY <1>q, <1>4 DEF BatchTimeout
  <2> QED
    BY <1>4, <2>1, <2>2, <2>3
    DEF BatchTimeout, TypeInv, TypeOK, SchedLocals, ReaderLocals, hubVars, histVars
<1>5. CASE CancelUntrack(r)
  <2>1. CASE jobs[r] # None
    <3>1. Untrack(r)
      BY <1>5, <2>1 DEF CancelUntrack
    <3>2. jobs[r].client \in Clients
      BY <2>1, <3>1, UntrackType DEF Jobs
    <3>3. caller' \in [Requests -> CallerStates]
      BY <1>c, <1>5, <2>1, <3>2 DEF CancelUntrack, CallerStates
    <3>4. CallerLocals'
      BY <1>c, <1>l, <1>5, <2>1, <3>2 DEF CancelUntrack, CallerStates, CallerLocals
    <3>5. /\ jobs' \in [Requests -> Jobs \cup {None}]
          /\ jobsByClient' \in [Clients -> SUBSET Requests]
      BY <2>1, <3>1, UntrackType
    <3> QED
      BY <1>5, <3>3, <3>4, <3>5
      DEF CancelUntrack, TypeInv, TypeOK, SchedLocals, ReaderLocals, histVars
  <2>2. CASE jobs[r] = None
    <3>1. caller' \in [Requests -> CallerStates]
      BY <1>c, <1>5, <2>2 DEF CancelUntrack, CallerStates
    <3>2. CallerLocals'
      BY <1>c, <1>l, <1>5, <2>2 DEF CancelUntrack, CallerStates, CallerLocals
    <3> QED
      BY <1>5, <2>2, <3>1, <3>2
      DEF CancelUntrack, TypeInv, TypeOK, SchedLocals, ReaderLocals, histVars
  <2> QED
    BY <2>1, <2>2
<1>6. CASE CancelFree(r)
  <2>1. caller' \in [Requests -> CallerStates]
    <3> DEFINE row == [caller[r] EXCEPT !.pc = "after", !.client = None]
    <3>1. row \in CallerStates
      BY <1>c DEF CallerStates
    <3>2. caller' = [caller EXCEPT ![r] = row]
      BY <1>6 DEF CancelFree
    <3> HIDE DEF row
    <3> QED
      BY <1>c, <3>1, <3>2
  <2>2. CallerLocals'
    BY <1>c, <1>l, <1>6 DEF CancelFree, CallerStates, CallerLocals
  <2>3. inFlight' \in [Clients -> Int]
    BY <1>l, <1>6, DecrType DEF CancelFree, CallerLocals
  <2> QED
    BY <1>6, <2>1, <2>2, <2>3
    DEF CancelFree, Wake, TypeInv, TypeOK, SchedLocals, ReaderLocals, histVars
<1>7. CASE AfterCancel(r)
  <2>0. \/ caller' = [caller EXCEPT ![r].pc = "done"]
        \/ caller' = [caller EXCEPT ![r].pc = "wait", ![r].next = "answer"]
    BY <1>7 DEF AfterCancel
  <2>1. caller' \in [Requests -> CallerStates]
    BY <1>c, <2>0 DEF CallerStates
  <2>2. CallerLocals'
    BY <1>c, <1>l, <2>0 DEF CallerStates, CallerLocals
  <2>3. [attempts |-> caller[r].attempts, model |-> Alias] \in Copies
    BY <1>c DEF Copies, CallerStates
  <2>4. queue' \in [Requests -> Copies \cup {None}] /\ signal' \in BOOLEAN
    BY <1>q, <1>7, <2>3 DEF AfterCancel, Push, Wake
  <2>5. inbox' \in [Requests -> Seq(Chunks)]
    BY <1>i, <1>7 DEF AfterCancel
  <2>6. seen' \in [Requests -> SUBSET Nat]
    BY <1>s, <1>7 DEF AfterCancel
  <2>7. /\ UNCHANGED <<sched, conn, inFlight, localBusy, draining, slots, jobs, jobsByClient>>
        /\ UNCHANGED <<reader, reaper, work, sent, yields, dropped, peak>>
    BY <1>7 DEF AfterCancel, hubVars
  <2> QED
    BY <2>1, <2>2, <2>4, <2>5, <2>6, <2>7 DEF TypeInv, TypeOK, SchedLocals, ReaderLocals
<1> QED
  BY <1>1, <1>2, <1>3, <1>4, <1>5, <1>6, <1>7 DEF Handler

(* A drain starts from a copy of the clients with room and what each has left
   (scheduler.go:222-268). *)
LEMMA DrainType ==
  ASSUME TypeInv, StartDrain
  PROVE  sched' \in SchedStates /\ SchedLocals'
<1> DEFINE L == [c \in Clients |-> IF c \in Available THEN Room(c) ELSE 0]
<1>1. /\ inFlight \in [Clients -> Int] /\ localBusy \in [Clients -> Nat]
      /\ slots \in [Clients -> Nat]
  BY DEF TypeInv, TypeOK
<1>2. L \in [Clients -> Int]
  BY <1>1 DEF Room
<1>3. sched' = IdleSched \/ sched' = [IdleSched EXCEPT !.pc = "pick", !.room = L]
  BY DEF StartDrain
<1>4. sched' \in SchedStates /\ sched'.pc \in {"idle", "pick"}
  <2>1. IdleSched \in SchedStates /\ IdleSched.pc = "idle"
    BY DEF IdleSched, SchedStates
  <2>2. ASSUME NEW x \in SchedStates, NEW l \in [Clients -> Int]
        PROVE  LET y == [x EXCEPT !.pc = "pick", !.room = l]
               IN  y \in SchedStates /\ y.pc = "pick"
    BY DEF SchedStates
  <2> QED
    BY <1>2, <1>3, <2>1, <2>2
<1> QED
  BY <1>4 DEF SchedLocals

(* Every step of the scheduler keeps the types (scheduler.go:191-506). *)
LEMMA SchedTypeInv ==
  ASSUME TypeInv, SchedStep
  PROVE  TypeInv'
<1>s. sched \in SchedStates
  BY DEF TypeInv, TypeOK
<1>l. SchedLocals
  BY DEF TypeInv
<1>q. queue \in [Requests -> Copies \cup {None}]
  BY DEF TypeInv, TypeOK
<1>f. inFlight \in [Clients -> Int]
  BY DEF TypeInv, TypeOK
<1>j. jobs \in [Requests -> Jobs \cup {None}] /\ jobsByClient \in [Clients -> SUBSET Requests]
  BY DEF TypeInv, TypeOK
<1>w. work \in SUBSET WorkItems /\ sent \in [Requests -> Nat]
  BY DEF TypeInv, TypeOK
<1>i. IdleSched \in SchedStates /\ IdleSched.pc = "idle"
  BY DEF IdleSched, SchedStates
<1>1. CASE DrainOnSignal \/ DrainOnTick
  <2>1. sched' \in SchedStates /\ SchedLocals'
    BY <1>1, DrainType DEF DrainOnSignal, DrainOnTick
  <2> QED
    BY <1>1, <2>1
    DEF DrainOnSignal, DrainOnTick, TypeInv, TypeOK, ReaderLocals, CallerLocals, hubVars, histVars
<1>2. CASE Pick
  <2>1. sched' \in SchedStates /\ SchedLocals'
    <3>1. CASE sched' = IdleSched
      BY <1>i, <3>1 DEF SchedLocals
    <3>2. ASSUME NEW p \in Candidates,
                 sched' = [sched EXCEPT !.pc = "pop", !.req = p[1], !.client = p[2]]
          PROVE  sched' \in SchedStates /\ SchedLocals'
      <4>1. p[1] \in Requests /\ p[2] \in Clients
        BY DEF Candidates
      <4>3. sched' \in SchedStates
        BY <1>s, <3>2, <4>1 DEF SchedStates
      <4>4. sched'.pc = "pop" /\ sched'.req = p[1] /\ sched'.client = p[2]
        BY <1>s, <3>2 DEF SchedStates
      <4> QED
        BY <4>1, <4>3, <4>4 DEF SchedLocals
    <3> QED
      BY <1>2, <3>1, <3>2 DEF Pick
  <2> QED
    BY <1>2, <2>1 DEF Pick, TypeInv, TypeOK, ReaderLocals, CallerLocals, hubVars, histVars
<1>3. CASE PopAndCount
  <2> DEFINE r == sched.req
             c == sched.client
             copy == [attempts |-> queue[r].attempts, model |-> Serves[c]]
  <2>0. r \in Requests /\ c \in Clients
    BY <1>l, <1>3 DEF PopAndCount, SchedLocals
  <2>1. CASE queue[r] = None
    <3>1. \/ sched' = IdleSched
          \/ sched' = [sched EXCEPT !.pc = "pick", !.req = None, !.client = None,
                                    !.missed = @ \cup {r}]
      BY <1>3, <2>1 DEF PopAndCount
    <3>2. sched' \in SchedStates /\ sched'.pc \in {"idle", "pick"}
      <4>1. ASSUME NEW m \in SUBSET Requests
            PROVE  LET y == [sched EXCEPT !.pc = "pick", !.req = None, !.client = None, !.missed = m]
                   IN  y \in SchedStates /\ y.pc = "pick"
        BY <1>s DEF SchedStates
      <4>2. sched.missed \cup {r} \in SUBSET Requests
        BY <1>s, <2>0 DEF SchedStates
      <4> QED
        BY <1>i, <3>1, <4>1, <4>2
    <3>3. SchedLocals'
      BY <3>2 DEF SchedLocals
    <3>4. UNCHANGED <<queue, inFlight>>
      BY <1>3, <2>1 DEF PopAndCount
    <3> QED
      BY <1>3, <3>2, <3>3, <3>4
      DEF PopAndCount, TypeInv, TypeOK, ReaderLocals, CallerLocals, histVars
  <2>2. CASE queue[r] # None
    <3>1. queue[r] \in Copies
      BY <1>q, <2>0, <2>2
    <3>2. copy \in Copies
      BY <2>0, <3>1, DispatchAssumption DEF Copies
    <3>3. sched' = [sched EXCEPT !.pc = "track", !.copy = copy]
      BY <1>3, <2>2 DEF PopAndCount
    <3>4. sched' \in SchedStates
      BY <1>s, <3>2, <3>3 DEF SchedStates
    <3>5. /\ sched'.req = r /\ sched'.client = c /\ sched'.copy = copy
      BY <1>s, <3>3 DEF SchedStates
    <3>6. SchedLocals'
      BY <2>0, <3>2, <3>5 DEF SchedLocals
    <3>7. queue' = [queue EXCEPT ![r] = None]
      BY <1>3, <2>2 DEF PopAndCount
    <3>8. queue' \in [Requests -> Copies \cup {None}]
      BY <1>q, <3>7
    <3>9. inFlight' = inFlight \/ inFlight' = [inFlight EXCEPT ![c] = @ + 1]
      BY <1>3, <2>2 DEF PopAndCount
    <3>10. inFlight' \in [Clients -> Int]
      BY <1>f, <2>0, <3>9
    <3> QED
      BY <1>3, <3>4, <3>6, <3>8, <3>10
      DEF PopAndCount, TypeInv, TypeOK, ReaderLocals, CallerLocals, histVars
  <2> QED
    BY <2>1, <2>2
<1>4. CASE TrackJob
  <2> DEFINE r == sched.req
             c == sched.client
             job == [client |-> c, copy |-> sched.copy, produced |-> FALSE]
  <2>1. r \in Requests /\ c \in Clients /\ sched.copy \in Copies
    BY <1>l, <1>4 DEF TrackJob, SchedLocals
  <2>2. sched' = [sched EXCEPT !.pc = "send"] \/ sched' = [sched EXCEPT !.pc = "push"]
    BY <1>4 DEF TrackJob
  <2>3. sched' \in SchedStates
    BY <1>s, <2>2 DEF SchedStates
  <2>4. /\ sched'.req = r /\ sched'.client = c /\ sched'.copy = sched.copy
    BY <1>s, <2>2 DEF SchedStates
  <2>5. SchedLocals'
    BY <2>1, <2>4 DEF SchedLocals
  <2>6. job \in Jobs
    BY <2>1 DEF Jobs
  <2>7. \/ UNCHANGED <<jobs, jobsByClient>>
        \/ /\ jobs' = [jobs EXCEPT ![r] = job]
           /\ jobsByClient' = [jobsByClient EXCEPT ![c] = @ \cup {r}]
    BY <1>4 DEF TrackJob
  <2>8. /\ jobs' \in [Requests -> Jobs \cup {None}]
        /\ jobsByClient' \in [Clients -> SUBSET Requests]
    <3> HIDE DEF job
    <3> QED
      BY <1>j, <2>1, <2>6, <2>7
  <2> QED
    BY <1>4, <2>3, <2>5, <2>8 DEF TrackJob, TypeInv, TypeOK, ReaderLocals, CallerLocals, histVars
<1>5. CASE SendJob
  <2> DEFINE r == sched.req
             c == sched.client
             item == [client |-> c, req |-> r, n |-> sent[r] + 1]
  <2>1. r \in Requests /\ c \in Clients
    BY <1>l, <1>5 DEF SendJob, SchedLocals
  <2>2. sched' = [sched EXCEPT !.pc = "pick", !.req = None, !.client = None, !.copy = None,
                               !.room[c] = @ - 1]
    BY <1>5 DEF SendJob
  <2>3. sched' \in SchedStates /\ sched'.pc = "pick"
    <3>1. ASSUME NEW l \in [Clients -> Int]
          PROVE  LET y == [sched EXCEPT !.pc = "pick", !.req = None, !.client = None,
                                        !.copy = None, !.room = l]
                 IN  y \in SchedStates /\ y.pc = "pick"
      BY <1>s DEF SchedStates
    <3>2. [sched.room EXCEPT ![c] = @ - 1] \in [Clients -> Int]
      BY <1>s, <2>1 DEF SchedStates
    <3>3. sched' = [sched EXCEPT !.pc = "pick", !.req = None, !.client = None, !.copy = None,
                                 !.room = [sched.room EXCEPT ![c] = @ - 1]]
      BY <2>2
    <3> QED
      BY <3>1, <3>2, <3>3
  <2>4. SchedLocals'
    BY <2>3 DEF SchedLocals
  <2>5. item \in WorkItems
    BY <1>w, <2>1 DEF WorkItems
  <2>6. work' = work \cup {item} /\ sent' = [sent EXCEPT ![r] = @ + 1]
    BY <1>5 DEF SendJob
  <2>7. work' \in SUBSET WorkItems
    BY <1>w, <2>5, <2>6
  <2>8. sent' \in [Requests -> Nat]
    BY <1>w, <2>1, <2>6
  <2> QED
    BY <1>5, <2>3, <2>4, <2>7, <2>8
    DEF SendJob, TypeInv, TypeOK, ReaderLocals, CallerLocals, hubVars
<1>6. CASE SendFails
  <2>1. sched' \in SchedStates
    BY <1>s, <1>6 DEF SendFails, SchedStates
  <2>2. SchedLocals'
    BY <1>s, <1>l, <1>6 DEF SendFails, SchedLocals, SchedStates
  <2> QED
    BY <1>6, <2>1, <2>2 DEF SendFails, TypeInv, TypeOK, ReaderLocals, CallerLocals, hubVars, histVars
<1>7. CASE SchedUntrack
  <2> DEFINE r == sched.req
  <2>1. r \in Requests
    BY <1>l, <1>7 DEF SchedUntrack, SchedLocals
  <2>2. CASE HeldBy(r, sched.client)
    <3>1. Untrack(r) /\ jobs[r] # None /\ sched' = [sched EXCEPT !.pc = "uncount"]
      BY <1>7, <2>2 DEF SchedUntrack, HeldBy
    <3>2. /\ jobs' \in [Requests -> Jobs \cup {None}]
          /\ jobsByClient' \in [Clients -> SUBSET Requests]
      BY <2>1, <3>1, UntrackType
    <3>3. sched' \in SchedStates
      BY <1>s, <3>1 DEF SchedStates
    <3>4. SchedLocals'
      BY <1>s, <1>l, <1>7, <3>1 DEF SchedUntrack, SchedLocals, SchedStates
    <3> QED
      BY <1>7, <3>2, <3>3, <3>4
      DEF SchedUntrack, TypeInv, TypeOK, ReaderLocals, CallerLocals, histVars
  <2>3. CASE ~ HeldBy(r, sched.client)
    <3>1. sched' = IdleSched /\ UNCHANGED <<jobs, jobsByClient>>
      BY <1>7, <2>3 DEF SchedUntrack
    <3>2. SchedLocals'
      BY <1>i, <3>1 DEF SchedLocals
    <3> QED
      BY <1>7, <1>i, <3>1, <3>2
      DEF SchedUntrack, TypeInv, TypeOK, ReaderLocals, CallerLocals, histVars
  <2> QED
    BY <2>2, <2>3
<1>8. CASE SchedUncount
  <2>1. sched' \in SchedStates
    BY <1>s, <1>8 DEF SchedUncount, SchedStates
  <2>2. SchedLocals'
    BY <1>s, <1>l, <1>8 DEF SchedUncount, SchedLocals, SchedStates
  <2>3. sched.client \in Clients
    BY <1>l, <1>8 DEF SchedUncount, SchedLocals
  <2>4. inFlight' \in [Clients -> Int]
    BY <1>8, <2>3, DecrType DEF SchedUncount
  <2> QED
    BY <1>8, <2>1, <2>2, <2>4
    DEF SchedUncount, TypeInv, TypeOK, ReaderLocals, CallerLocals, histVars
<1>9. CASE SchedRequeue
  <2>1. sched.req \in Requests /\ sched.copy \in Copies
    BY <1>l, <1>9 DEF SchedRequeue, SchedLocals
  <2>2. queue' \in [Requests -> Copies \cup {None}]
    BY <1>q, <1>9, <2>1 DEF SchedRequeue, Push
  <2>3. SchedLocals' /\ sched' = IdleSched
    BY <1>9, <1>i DEF SchedRequeue, SchedLocals
  <2> QED
    BY <1>9, <1>i, <2>2, <2>3
    DEF SchedRequeue, TypeInv, TypeOK, ReaderLocals, CallerLocals, hubVars, histVars
<1> QED
  BY <1>1, <1>2, <1>3, <1>4, <1>5, <1>6, <1>7, <1>8, <1>9 DEF SchedStep
-----------------------------------------------------------------------------
(* Replacing one connection's goroutine by a well-formed one. *)
LEMMA SetReader ==
  ASSUME TypeInv, NEW c \in Clients, NEW x \in ReaderStates,
         x.pc \in {"decr", "act", "cancel"} => x.req \in Requests,
         x.pc = "free" => x.client \in Clients,
         reader' = [reader EXCEPT ![c] = x]
  PROVE  reader' \in [Clients -> ReaderStates] /\ ReaderLocals'
<1>1. reader \in [Clients -> ReaderStates] /\ ReaderLocals
  BY DEF TypeInv, TypeOK
<1> QED
  BY <1>1 DEF ReaderLocals

(* A goroutine that only moves on within its cleanup or to its loop. *)
LEMMA SetReaderPc ==
  ASSUME TypeInv, NEW c \in Clients, NEW p \in {"off", "read", "remove", "snapshot", "sweep"},
         reader' = [reader EXCEPT ![c].pc = p]
  PROVE  reader' \in [Clients -> ReaderStates] /\ ReaderLocals'
<1> DEFINE x == [reader[c] EXCEPT !.pc = p]
<1>1. reader[c] \in ReaderStates
  BY DEF TypeInv, TypeOK
<1>2. x \in ReaderStates /\ x.pc = p
  BY <1>1 DEF ReaderStates
<1>3. reader' = [reader EXCEPT ![c] = x]
  OBVIOUS
<1> HIDE DEF x
<1> QED
  BY <1>2, <1>3, SetReader

(* Every step of a connection's goroutine outside the answers of a worker keeps
   the types (hub.go:346-441, 529-579). *)
LEMMA HubTypeInv ==
  ASSUME TypeInv, NEW c \in Clients, HubStep(c)
  PROVE  TypeInv'
<1>r. reader[c] \in ReaderStates
  BY DEF TypeInv, TypeOK
<1>l. ReaderLocals
  BY DEF TypeInv
<1>n. conn \in [Clients -> ConnStates]
  BY DEF TypeInv, TypeOK
<1>f. inFlight \in [Clients -> Int] /\ localBusy \in [Clients -> Nat]
  BY DEF TypeInv, TypeOK
<1>j. jobs \in [Requests -> Jobs \cup {None}] /\ jobsByClient \in [Clients -> SUBSET Requests]
  BY DEF TypeInv, TypeOK
<1>i. IdleReader \in ReaderStates /\ IdleReader.pc = "off"
  BY DEF IdleReader, ReaderStates
<1>1. CASE Connect(c)
  <2>1. reader' \in [Clients -> ReaderStates] /\ ReaderLocals'
    BY <1>1, SetReaderPc DEF Connect
  <2>2. conn' \in [Clients -> ConnStates]
    BY <1>n, <1>1 DEF Connect, ConnStates
  <2> QED
    BY <1>1, <2>1, <2>2 DEF Connect, TypeInv, TypeOK, SchedLocals, CallerLocals, histVars
<1>2. ASSUME NEW n \in 1..MaxSlots[c], MsgRegister(c, n) PROVE TypeInv'
  <2>1. conn' \in [Clients -> ConnStates]
    BY <1>n, <1>2 DEF MsgRegister, ConnStates
  <2>2. /\ slots \in [Clients -> Nat] /\ peak \in [Clients -> Nat]
        /\ \A d \in Clients : slots[d] <= peak[d]
    BY DEF TypeInv, TypeOK
  <2>3. /\ slots' = [slots EXCEPT ![c] = n] /\ n \in Nat
        /\ peak' = [peak EXCEPT ![c] = IF n > @ THEN n ELSE @]
    BY <1>2, DispatchAssumption DEF MsgRegister
  <2>4. /\ slots' \in [Clients -> Nat] /\ peak' \in [Clients -> Nat]
        /\ \A d \in Clients : slots'[d] <= peak'[d]
    BY <2>2, <2>3
  <2> QED
    BY <1>2, <2>1, <2>4
    DEF MsgRegister, Wake, TypeInv, TypeOK, SchedLocals, ReaderLocals, CallerLocals, histVars
<1>3. CASE MsgDraining(c)
  <2>1. draining' = [draining EXCEPT ![c] = TRUE] /\ draining \in [Clients -> BOOLEAN]
    BY <1>3 DEF MsgDraining, TypeInv, TypeOK
  <2>2. draining' \in [Clients -> BOOLEAN]
    BY <2>1
  <2> QED
    BY <1>3, <2>2
    DEF MsgDraining, TypeInv, TypeOK, SchedLocals, ReaderLocals, CallerLocals, histVars
<1>4. ASSUME NEW report \in LocalLoads, MsgLocalBusy(c, report) PROVE TypeInv'
  <2>0. slots[c] \in Nat /\ report \in Nat
    BY DispatchAssumption DEF TypeInv, TypeOK
  <2>1. \E n \in Nat : localBusy' = [localBusy EXCEPT ![c] = n]
    BY <1>4, <2>0 DEF MsgLocalBusy
  <2>2. localBusy' \in [Clients -> Nat]
    BY <1>f, <2>1
  <2>3. signal' \in BOOLEAN
    BY <1>4 DEF MsgLocalBusy, TypeInv, TypeOK
  <2> QED
    BY <1>4, <2>2, <2>3
    DEF MsgLocalBusy, TypeInv, TypeOK, SchedLocals, ReaderLocals, CallerLocals, histVars
<1>5. CASE Disconnect(c)
  <2>1. reader' \in [Clients -> ReaderStates] /\ ReaderLocals'
    BY <1>5, SetReaderPc DEF Disconnect
  <2>2. conn' \in [Clients -> ConnStates]
    BY <1>n, <1>5 DEF Disconnect, ConnStates
  <2>3. work' \in SUBSET WorkItems
    BY <1>5 DEF Disconnect, TypeInv, TypeOK
  <2> QED
    BY <1>5, <2>1, <2>2, <2>3 DEF Disconnect, TypeInv, TypeOK, SchedLocals, CallerLocals, histVars
<1>6. CASE ReaderDecr(c)
  <2> DEFINE x == [reader[c] EXCEPT !.pc = "act"]
  <2>1. x \in ReaderStates /\ x.pc = "act" /\ x.req = reader[c].req
    BY <1>r DEF ReaderStates
  <2>2. x.req \in Requests
    BY <1>l, <1>6, <2>1 DEF ReaderDecr, ReaderLocals
  <2>3. reader' = [reader EXCEPT ![c] = x]
    BY <1>6 DEF ReaderDecr
  <2> HIDE DEF x
  <2>4. reader' \in [Clients -> ReaderStates] /\ ReaderLocals'
    BY <2>1, <2>2, <2>3, SetReader
  <2>5. inFlight' \in [Clients -> Int]
    BY <1>f, <1>6 DEF ReaderDecr
  <2>6. signal' \in BOOLEAN
    BY <1>6 DEF ReaderDecr, TypeInv, TypeOK
  <2> QED
    BY <1>6, <2>4, <2>5, <2>6 DEF ReaderDecr, TypeInv, TypeOK, SchedLocals, CallerLocals, histVars
<1>7. CASE ReaderAct(c)
  <2> DEFINE r == reader[c].req
             chunk == [n |-> reader[c].n,
                       kind |-> IF reader[c].from = "done" THEN "done" ELSE "error"]
  <2>1. r \in Requests
    BY <1>l, <1>7 DEF ReaderAct, ReaderLocals
  <2>2. chunk \in Chunks
    BY <1>r DEF Chunks, ReaderStates
  <2>3. Rest(c) \in ReaderStates /\ Rest(c).pc \in {"read", "sweep"}
    BY RestType
  <2>4. \/ reader' = [reader EXCEPT ![c] = Rest(c)]
        \/ reader' = [reader EXCEPT ![c] = [Rest(c) EXCEPT !.pc = "cancel", !.req = r]]
    BY <1>7 DEF ReaderAct
  <2>5. reader' \in [Clients -> ReaderStates] /\ ReaderLocals'
    <3> DEFINE y == [Rest(c) EXCEPT !.pc = "cancel", !.req = r]
    <3>1. y \in ReaderStates /\ y.pc = "cancel" /\ y.req = r
      BY <2>1, <2>3 DEF ReaderStates
    <3>2. CASE reader' = [reader EXCEPT ![c] = Rest(c)]
      BY <2>3, <3>2, SetReader
    <3> HIDE DEF y
    <3>3. CASE reader' = [reader EXCEPT ![c] = y]
      BY <2>1, <3>1, <3>3, SetReader
    <3> QED
      BY <2>4, <3>2, <3>3 DEF y
  <2>6. queue' \in [Requests -> Copies \cup {None}]
    <3>1. queue \in [Requests -> Copies \cup {None}]
      BY DEF TypeInv, TypeOK
    <3>2. reader[c].copy \in Copies \cup {None}
      BY <1>r DEF ReaderStates
    <3>3. queue' = queue \/ queue' = [queue EXCEPT ![r] = reader[c].copy]
      BY <1>7 DEF ReaderAct, Push
    <3> QED
      BY <2>1, <3>1, <3>2, <3>3
  <2>7. inbox' \in [Requests -> Seq(Chunks)]
    <3>1. inbox \in [Requests -> Seq(Chunks)]
      BY DEF TypeInv, TypeOK
    <3>2. inbox' = inbox \/ inbox' = [inbox EXCEPT ![r] = Append(@, chunk)]
      BY <1>7 DEF ReaderAct, Deliver
    <3>3. Append(inbox[r], chunk) \in Seq(Chunks)
      BY <2>1, <2>2, <3>1
    <3> QED
      BY <2>1, <3>1, <3>2, <3>3
  <2>8. signal' \in BOOLEAN
    BY <1>7 DEF ReaderAct, Wake, TypeInv, TypeOK
  <2>9. dropped' \in SUBSET Requests
    <3>1. dropped' = dropped \/ dropped' = dropped \cup {r}
      BY <1>7 DEF ReaderAct
    <3> QED
      BY <2>1, <3>1 DEF TypeInv, TypeOK
  <2>10. UNCHANGED <<sched, hubVars, reaper, caller, work, sent, yields, seen, peak>>
    BY <1>7 DEF ReaderAct
  <2> QED
    BY <2>5, <2>6, <2>7, <2>8, <2>9, <2>10
    DEF TypeInv, TypeOK, SchedLocals, CallerLocals, hubVars
<1>8. CASE ReaderCancel(c)
  <2> DEFINE r == reader[c].req
  <2>1. r \in Requests
    BY <1>l, <1>8 DEF ReaderCancel, ReaderLocals
  <2>2. UNCHANGED <<queue, sched, signal, conn, inFlight, localBusy, draining, slots, reaper,
                    caller, inbox, work, sent, yields, seen, peak>>
    BY <1>8 DEF ReaderCancel
  <2>3. CASE jobs[r] # None
    <3> DEFINE x == [reader[c] EXCEPT !.pc = "free", !.client = jobs[r].client]
    <3>1. /\ Untrack(r) /\ reader' = [reader EXCEPT ![c] = x]
          /\ dropped' = dropped \cup {r}
      BY <1>8, <2>3 DEF ReaderCancel
    <3>2. jobs[r].client \in Clients
      BY <2>1, <2>3, <3>1, UntrackType DEF Jobs
    <3>3. x \in ReaderStates /\ x.pc = "free" /\ x.client \in Clients
      BY <1>r, <3>2 DEF ReaderStates
    <3> HIDE DEF x
    <3>4. reader' \in [Clients -> ReaderStates] /\ ReaderLocals'
      BY <3>1, <3>3, SetReader
    <3>5. /\ jobs' \in [Requests -> Jobs \cup {None}]
          /\ jobsByClient' \in [Clients -> SUBSET Requests]
      BY <2>1, <2>3, <3>1, UntrackType
    <3>6. dropped' \in SUBSET Requests
      BY <2>1, <3>1 DEF TypeInv, TypeOK
    <3> QED
      BY <2>2, <3>4, <3>5, <3>6 DEF TypeInv, TypeOK, SchedLocals, CallerLocals
  <2>4. CASE jobs[r] = None
    <3>1. reader' = [reader EXCEPT ![c] = Rest(c)] /\ UNCHANGED <<jobs, jobsByClient, dropped>>
      BY <1>8, <2>4 DEF ReaderCancel
    <3>2. reader' \in [Clients -> ReaderStates] /\ ReaderLocals'
      BY <3>1, RestType, SetReader
    <3> QED
      BY <2>2, <3>1, <3>2 DEF TypeInv, TypeOK, SchedLocals, CallerLocals
  <2> QED
    BY <2>3, <2>4
<1>9. CASE ReaderFree(c)
  <2>1. reader' \in [Clients -> ReaderStates] /\ ReaderLocals'
    BY <1>9, RestType, SetReader DEF ReaderFree
  <2>2. reader[c].client \in Clients
    BY <1>l, <1>9 DEF ReaderFree, ReaderLocals
  <2>3. inFlight' \in [Clients -> Int]
    BY <1>9, <2>2, DecrType DEF ReaderFree
  <2> QED
    BY <1>9, <2>1, <2>3 DEF ReaderFree, Wake, TypeInv, TypeOK, SchedLocals, CallerLocals, histVars
<1>10. CASE RemoveClient(c)
  <2>1. reader' \in [Clients -> ReaderStates] /\ ReaderLocals'
    BY <1>10, SetReaderPc DEF RemoveClient
  <2>2. conn' \in [Clients -> ConnStates]
    BY <1>n, <1>10 DEF RemoveClient, ConnStates
  <2> QED
    BY <1>10, <2>1, <2>2 DEF RemoveClient, TypeInv, TypeOK, SchedLocals, CallerLocals, histVars
<1>11. CASE SnapshotOrphans(c)
  <2> DEFINE o == {r \in jobsByClient[c] : jobs[r] # None}
             x == [reader[c] EXCEPT !.pc = "sweep", !.orphans = o]
  <2>1. o \in SUBSET Requests
    BY <1>j
  <2>2. reader' = [reader EXCEPT ![c] = x]
    BY <1>11 DEF SnapshotOrphans
  <2> HIDE DEF o
  <2>3. x \in ReaderStates /\ x.pc = "sweep"
    BY <1>r, <2>1 DEF ReaderStates
  <2> HIDE DEF x
  <2>4. reader' \in [Clients -> ReaderStates] /\ ReaderLocals'
    BY <2>2, <2>3, SetReader
  <2> QED
    BY <1>11, <2>4
    DEF SnapshotOrphans, TypeInv, TypeOK, SchedLocals, CallerLocals, hubVars, histVars
<1>12. ASSUME NEW r \in Requests, SweepOrphan(c, r) PROVE TypeInv'
  <2> DEFINE left == [reader[c] EXCEPT !.orphans = @ \ {r}]
             copy == IF MayRetry(jobs[r]) THEN retryRequest(jobs[r].copy) ELSE None
             x == [left EXCEPT !.pc = "decr", !.req = r, !.from = "sweep", !.copy = copy]
  <2>1. left \in ReaderStates /\ left.pc = "sweep"
    BY <1>r, <1>12 DEF SweepOrphan, ReaderStates
  <2>2. UNCHANGED <<queue, sched, signal, conn, inFlight, localBusy, draining, slots, reaper,
                    caller, inbox, work, histVars>>
    BY <1>12 DEF SweepOrphan
  <2>3. CASE HeldBy(r, c)
    <3>1. Untrack(r) /\ jobs[r] # None /\ reader' = [reader EXCEPT ![c] = x]
      BY <1>12, <2>3 DEF SweepOrphan, HeldBy
    <3>2. jobs[r].copy \in Copies
      BY <3>1, UntrackType DEF Jobs
    <3>3. copy \in Copies \cup {None}
      BY <3>2, RetryType
    <3> HIDE DEF left, copy
    <3>4. x \in ReaderStates /\ x.pc = "decr" /\ x.req = r
      BY <2>1, <3>3 DEF ReaderStates
    <3> HIDE DEF x
    <3>5. reader' \in [Clients -> ReaderStates] /\ ReaderLocals'
      BY <3>1, <3>4, SetReader
    <3>6. /\ jobs' \in [Requests -> Jobs \cup {None}]
          /\ jobsByClient' \in [Clients -> SUBSET Requests]
      BY <3>1, UntrackType
    <3> QED
      BY <2>2, <3>5, <3>6 DEF TypeInv, TypeOK, SchedLocals, CallerLocals, histVars
  <2>4. CASE ~ HeldBy(r, c)
    <3>1. reader' = [reader EXCEPT ![c] = left] /\ UNCHANGED <<jobs, jobsByClient>>
      BY <1>12, <2>4 DEF SweepOrphan
    <3> HIDE DEF left
    <3>2. reader' \in [Clients -> ReaderStates] /\ ReaderLocals'
      BY <2>1, <3>1, SetReader
    <3> QED
      BY <2>2, <3>1, <3>2 DEF TypeInv, TypeOK, SchedLocals, CallerLocals, histVars
  <2> QED
    BY <2>3, <2>4
<1>13. CASE EndSweep(c)
  <2>1. reader' \in [Clients -> ReaderStates] /\ ReaderLocals'
    BY <1>13, <1>i, SetReader DEF EndSweep
  <2>2. jobsByClient' = [jobsByClient EXCEPT ![c] = {}]
    BY <1>13 DEF EndSweep
  <2>3. jobsByClient' \in [Clients -> SUBSET Requests]
    BY <1>j, <2>2
  <2> QED
    BY <1>13, <2>1, <2>3 DEF EndSweep, Wake, TypeInv, TypeOK, SchedLocals, CallerLocals, histVars
<1> QED
  BY <1>1, <1>2, <1>3, <1>4, <1>5, <1>6, <1>7, <1>8, <1>9, <1>10, <1>11, <1>12, <1>13
  DEF HubStep, ReaderStep
-----------------------------------------------------------------------------
(* A reader that takes the job it was told about will free a slot and then
   call back with a request it knows (hub.go:630-729). *)
LEMMA TakeJobType ==
  ASSUME TypeInv, NEW w \in work, HeldBy(w.req, w.client),
         NEW from \in {"done", "error", "release"}, NEW copy \in Copies \cup {None},
         TakeJob(w, from, copy)
  PROVE  /\ jobs' \in [Requests -> Jobs \cup {None}]
         /\ jobsByClient' \in [Clients -> SUBSET Requests]
         /\ reader' \in [Clients -> ReaderStates] /\ ReaderLocals'
<1>1. w.req \in Requests /\ w.client \in Clients /\ w.n \in Nat
  BY DEF TypeInv, TypeOK, WorkItems
<1>2. Untrack(w.req) /\ jobs[w.req] # None
  BY DEF TakeJob, HeldBy
<1>3. reader[w.client] \in ReaderStates
  BY <1>1 DEF TypeInv, TypeOK
<1> DEFINE x == [reader[w.client] EXCEPT !.pc = "decr", !.req = w.req, !.from = from,
                                        !.copy = copy, !.n = w.n]
<1>4. x \in ReaderStates /\ x.pc = "decr" /\ x.req = w.req
  BY <1>1, <1>3 DEF ReaderStates
<1>5. reader' = [reader EXCEPT ![w.client] = x]
  BY DEF TakeJob
<1> HIDE DEF x
<1>6. reader' \in [Clients -> ReaderStates] /\ ReaderLocals'
  BY <1>1, <1>4, <1>5, SetReader
<1> QED
  BY <1>1, <1>2, <1>6, UntrackType

(* Every message of a worker about a job keeps the types (hub.go:581-729). *)
LEMMA WorkerTypeInv ==
  ASSUME TypeInv, NEW w \in work, WorkerMsg(w)
  PROVE  TypeInv'
<1> DEFINE c == w.client
           r == w.req
<1>w. w \in WorkItems /\ r \in Requests /\ c \in Clients /\ w.n \in Nat
  BY DEF TypeInv, TypeOK, WorkItems
<1>k. work \in SUBSET WorkItems
  BY DEF TypeInv, TypeOK
<1>r. reader[c] \in ReaderStates
  BY <1>w DEF TypeInv, TypeOK
<1>j. jobs \in [Requests -> Jobs \cup {None}]
  BY DEF TypeInv, TypeOK
<1>1. CASE MsgOutput(w)
  <2>1. work' \in SUBSET WorkItems
    BY <1>k, <1>1 DEF MsgOutput
  <2>2. jobs' \in [Requests -> Jobs \cup {None}]
    <3>1. CASE HeldBy(r, c)
      <4> DEFINE job == [jobs[r] EXCEPT !.produced = TRUE]
      <4>1. jobs[r] \in Jobs
        BY <1>w, <1>j, <3>1 DEF HeldBy
      <4>2. job \in Jobs
        BY <4>1 DEF Jobs
      <4>3. jobs' = [jobs EXCEPT ![r] = job]
        BY <1>1, <3>1 DEF MsgOutput
      <4> HIDE DEF job
      <4> QED
        BY <1>w, <1>j, <4>2, <4>3
    <3>2. CASE ~ HeldBy(r, c)
      BY <1>1, <1>j, <3>2 DEF MsgOutput
    <3> QED
      BY <3>1, <3>2
  <2>3. inbox' \in [Requests -> Seq(Chunks)]
    <3> DEFINE chunk == [n |-> w.n, kind |-> "output"]
    <3>1. inbox \in [Requests -> Seq(Chunks)]
      BY DEF TypeInv, TypeOK
    <3>2. chunk \in Chunks
      BY <1>w DEF Chunks
    <3>3. inbox' = inbox \/ inbox' = [inbox EXCEPT ![r] = Append(@, chunk)]
      BY <1>1 DEF MsgOutput, Deliver
    <3> HIDE DEF chunk
    <3>4. Append(inbox[r], chunk) \in Seq(Chunks)
      BY <1>w, <3>1, <3>2
    <3> QED
      BY <1>w, <3>1, <3>3, <3>4
  <2>4. reader' \in [Clients -> ReaderStates] /\ ReaderLocals'
    <3> DEFINE x == [reader[c] EXCEPT !.pc = "cancel", !.req = r]
    <3>1. x \in ReaderStates /\ x.pc = "cancel" /\ x.req = r
      BY <1>w, <1>r DEF ReaderStates
    <3>2. reader' = reader \/ reader' = [reader EXCEPT ![c] = x]
      BY <1>1 DEF MsgOutput
    <3> HIDE DEF x
    <3>3. CASE reader' = reader
      BY <3>3 DEF TypeInv, TypeOK, ReaderLocals
    <3>4. CASE reader' = [reader EXCEPT ![c] = x]
      BY <1>w, <3>1, <3>4, SetReader
    <3> QED
      BY <3>2, <3>3, <3>4
  <2>5. UNCHANGED <<queue, sched, signal, conn, inFlight, localBusy, draining, slots, jobsByClient,
                    reaper, caller, histVars>>
    BY <1>1 DEF MsgOutput
  <2> QED
    BY <2>1, <2>2, <2>3, <2>4, <2>5 DEF TypeInv, TypeOK, SchedLocals, CallerLocals, histVars
<1>2. CASE MsgDone(w)
  <2>1. work' \in SUBSET WorkItems
    BY <1>k, <1>2 DEF MsgDone
  <2>2. /\ jobs' \in [Requests -> Jobs \cup {None}]
        /\ jobsByClient' \in [Clients -> SUBSET Requests]
        /\ reader' \in [Clients -> ReaderStates] /\ ReaderLocals'
    <3>1. CASE HeldBy(r, c)
      <4>1. TakeJob(w, "done", None)
        BY <1>2, <3>1 DEF MsgDone
      <4> QED
        BY <3>1, <4>1, TakeJobType
    <3>2. CASE ~ HeldBy(r, c)
      <4> DEFINE x == [reader[c] EXCEPT !.pc = "act", !.req = r, !.from = "done", !.n = w.n]
      <4>1. x \in ReaderStates /\ x.pc = "act" /\ x.req = r
        BY <1>w, <1>r DEF ReaderStates
      <4>2. reader' = [reader EXCEPT ![c] = x] /\ UNCHANGED <<jobs, jobsByClient>>
        BY <1>2, <3>2 DEF MsgDone
      <4> HIDE DEF x
      <4>3. reader' \in [Clients -> ReaderStates] /\ ReaderLocals'
        BY <1>w, <4>1, <4>2, SetReader
      <4> QED
        BY <4>2, <4>3 DEF TypeInv, TypeOK
    <3> QED
      BY <3>1, <3>2
  <2>3. UNCHANGED <<queue, sched, signal, conn, inFlight, localBusy, draining, slots, reaper,
                    caller, inbox, histVars>>
    BY <1>2 DEF MsgDone
  <2> QED
    BY <2>1, <2>2, <2>3 DEF TypeInv, TypeOK, SchedLocals, CallerLocals, histVars
<1>3. ASSUME NEW final \in BOOLEAN, MsgError(w, final) PROVE TypeInv'
  <2>1. work' \in SUBSET WorkItems
    BY <1>k, <1>3 DEF MsgError
  <2>2. /\ jobs' \in [Requests -> Jobs \cup {None}]
        /\ jobsByClient' \in [Clients -> SUBSET Requests]
        /\ reader' \in [Clients -> ReaderStates] /\ ReaderLocals'
    <3>1. CASE HeldBy(r, c)
      <4> DEFINE copy == IF ~ final /\ MayRetry(jobs[r]) THEN retryRequest(jobs[r].copy) ELSE None
      <4>1. TakeJob(w, "error", copy)
        BY <1>3, <3>1 DEF MsgError
      <4>2. jobs[r].copy \in Copies
        BY <1>w, <1>j, <3>1 DEF HeldBy, Jobs
      <4>3. copy \in Copies \cup {None}
        BY <4>2, RetryType
      <4> HIDE DEF copy
      <4> QED
        BY <3>1, <4>1, <4>3, TakeJobType
    <3>2. CASE ~ HeldBy(r, c)
      BY <1>3, <3>2 DEF MsgError, TypeInv, TypeOK, ReaderLocals
    <3> QED
      BY <3>1, <3>2
  <2>3. UNCHANGED <<queue, sched, signal, conn, inFlight, localBusy, draining, slots, reaper,
                    caller, inbox, histVars>>
    BY <1>3 DEF MsgError
  <2> QED
    BY <2>1, <2>2, <2>3 DEF TypeInv, TypeOK, SchedLocals, CallerLocals, histVars
<1>4. ASSUME NEW reason \in {"busy", "shutdown"}, MsgRelease(w, reason) PROVE TypeInv'
  <2> DEFINE free == reason = "busy" /\ localBusy[c] > 0 /\ ~ jobs[r].produced
  <2>1. work' \in SUBSET WorkItems
    BY <1>k, <1>4 DEF MsgRelease
  <2>2. draining' \in [Clients -> BOOLEAN]
    <3>1. draining \in [Clients -> BOOLEAN]
      BY DEF TypeInv, TypeOK
    <3>2. draining' = [draining EXCEPT ![c] = @ \/ reason = "shutdown"]
      BY <1>4 DEF MsgRelease
    <3> QED
      BY <1>w, <3>1, <3>2
  <2>3. /\ jobs' \in [Requests -> Jobs \cup {None}]
        /\ jobsByClient' \in [Clients -> SUBSET Requests]
        /\ reader' \in [Clients -> ReaderStates] /\ ReaderLocals'
    <3>1. CASE HeldBy(r, c)
      <4> DEFINE copy == IF free THEN [jobs[r].copy EXCEPT !.model = Alias]
                         ELSE IF MayRetry(jobs[r]) THEN retryRequest(jobs[r].copy) ELSE None
      <4>1. TakeJob(w, "release", copy)
        BY <1>4, <3>1 DEF MsgRelease
      <4>2. jobs[r].copy \in Copies
        BY <1>w, <1>j, <3>1 DEF HeldBy, Jobs
      <4>3. [jobs[r].copy EXCEPT !.model = Alias] \in Copies
        BY <4>2 DEF Copies
      <4>4. copy \in Copies \cup {None}
        BY <4>2, <4>3, RetryType
      <4> HIDE DEF copy
      <4> QED
        BY <3>1, <4>1, <4>4, TakeJobType
    <3>2. CASE ~ HeldBy(r, c)
      BY <1>4, <3>2 DEF MsgRelease, TypeInv, TypeOK, ReaderLocals
    <3> QED
      BY <3>1, <3>2
  <2>4. yields' \in [Requests -> Nat]
    <3>1. yields \in [Requests -> Nat]
      BY DEF TypeInv, TypeOK
    <3>2. yields' = yields \/ yields' = [yields EXCEPT ![r] = IF free THEN @ + 1 ELSE @]
      BY <1>4 DEF MsgRelease
    <3> HIDE DEF free
    <3> QED
      BY <1>w, <3>1, <3>2
  <2>5. UNCHANGED <<queue, sched, signal, conn, inFlight, localBusy, slots, reaper, caller, inbox,
                    sent, seen, dropped, peak>>
    BY <1>4 DEF MsgRelease
  <2> QED
    BY <2>1, <2>2, <2>3, <2>4, <2>5 DEF TypeInv, TypeOK, SchedLocals, CallerLocals
<1> QED
  BY <1>1, <1>2, <1>3, <1>4 DEF WorkerMsg

(* Every step of the lease reaper keeps the types (hub.go:1661-1697). *)
LEMMA ReaperTypeInv ==
  ASSUME TypeInv, ReaperStep
  PROVE  TypeInv'
<1>p. reaper \in SUBSET [req : Requests, client : Clients]
  BY DEF TypeInv, TypeOK
<1>j. jobs \in [Requests -> Jobs \cup {None}] /\ jobsByClient \in [Clients -> SUBSET Requests]
  BY DEF TypeInv, TypeOK
<1>1. ASSUME NEW expired \in SUBSET Requests, LeaseScan(expired) PROVE TypeInv'
  <2>1. jobs' = [r \in Requests |-> IF r \in expired THEN None ELSE jobs[r]]
    BY <1>1 DEF LeaseScan
  <2>2. jobs' \in [Requests -> Jobs \cup {None}]
    BY <1>j, <2>1
  <2>3. jobsByClient' \in [Clients -> SUBSET Requests]
    BY <1>j, <1>1 DEF LeaseScan
  <2>4. \A r \in expired : [req |-> r, client |-> jobs[r].client] \in [req : Requests, client : Clients]
    <3> TAKE r \in expired
    <3>1. r \in Requests /\ jobs[r] # None
      BY <1>1 DEF LeaseScan, Tracked
    <3>2. jobs[r].client \in Clients
      BY <1>j, <3>1 DEF Jobs
    <3> QED
      BY <3>1, <3>2
  <2>5. reaper' \in SUBSET [req : Requests, client : Clients]
    BY <1>1, <2>4 DEF LeaseScan
  <2>6. dropped' \in SUBSET Requests
    BY <1>1 DEF LeaseScan, TypeInv, TypeOK
  <2>7. UNCHANGED <<queue, sched, signal, conn, inFlight, localBusy, draining, slots, reader,
                    caller, inbox, work, sent, yields, seen, peak>>
    BY <1>1 DEF LeaseScan
  <2> QED
    BY <2>2, <2>3, <2>5, <2>6, <2>7 DEF TypeInv, TypeOK, SchedLocals, ReaderLocals, CallerLocals
<1>2. ASSUME NEW e \in reaper, LeaseFree(e) PROVE TypeInv'
  <2>1. e.client \in Clients
    BY <1>p
  <2>2. inFlight' \in [Clients -> Int]
    BY <1>2, <2>1, DecrType DEF LeaseFree
  <2>3. reaper' \in SUBSET [req : Requests, client : Clients]
    BY <1>p, <1>2 DEF LeaseFree
  <2>4. signal' \in BOOLEAN
    BY <1>2 DEF LeaseFree, TypeInv, TypeOK
  <2> QED
    BY <1>2, <2>2, <2>3, <2>4
    DEF LeaseFree, TypeInv, TypeOK, SchedLocals, ReaderLocals, CallerLocals, histVars
<1> QED
  BY <1>1, <1>2 DEF ReaperStep

(* Every step keeps the types and the locals. *)
LEMMA NextTypeInv == TypeInv /\ [Next]_vars => TypeInv'
<1> SUFFICES ASSUME TypeInv, [Next]_vars PROVE TypeInv'
  OBVIOUS
<1>1. CASE UNCHANGED vars
  BY <1>1 DEF vars, hubVars, histVars, TypeInv, TypeOK, SchedLocals, ReaderLocals, CallerLocals
<1> QED
  BY <1>1, HandlerTypeInv, SchedTypeInv, HubTypeInv, WorkerTypeInv, ReaperTypeInv DEF Next

(* No behaviour of the router, whatever the number of requests, workers and
   attempts, leaves a variable without its type; in particular no goroutine uses
   a request, client or copy it has not set (api, scheduler and hub). *)
THEOREM DispatchTypeOK == Spec => []TypeOK
<1>1. Spec => []TypeInv
  BY InitTypeInv, NextTypeInv, PTL DEF Spec
<1>2. TypeInv => TypeOK
  BY DEF TypeInv
<1> QED
  BY <1>1, <1>2, PTL
-----------------------------------------------------------------------------
(* Capacity.  What a drain believes to be left of a client, on top of what the
   client is counted to run, never exceeds the most it has registered, except by the
   one dispatch the drain is carrying out. *)
LoadInv ==
  /\ sched.pc \in {"pick", "pop"} =>
       \A c \in Clients : sched.room[c] > 0 => inFlight[c] + sched.room[c] <= peak[c]
  /\ sched.pc = "pop" => sched.room[sched.client] > 0
  /\ sched.pc \in {"track", "send"} =>
       \A c \in Clients : sched.room[c] > 0 =>
         inFlight[c] + sched.room[c] <= peak[c] + (IF c = sched.client THEN 1 ELSE 0)

OnlyFrees == \A c \in Clients : inFlight'[c] <= inFlight[c]

(* Freeing by ID only lowers counters. *)
LEMMA DecrOnlyFrees ==
  ASSUME TypeInv, NEW c \in Clients, DecrById(c)
  PROVE  OnlyFrees
<1>1. inFlight \in [Clients -> Int]
  BY DEF TypeInv, TypeOK
<1> QED
  BY <1>1 DEF DecrById, OnlyFrees

(* Unchanged counters are not raised. *)
LEMMA SameOnlyFrees ==
  ASSUME TypeInv, inFlight' = inFlight
  PROVE  OnlyFrees
<1>1. inFlight \in [Clients -> Int]
  BY DEF TypeInv, TypeOK
<1> QED
  BY <1>1 DEF OnlyFrees

(* Everyone but the scheduler leaves its locals alone and frees slots at most
   (IncrInFlight has one caller, scheduler.go:461). *)
LEMMA OthersOnlyFree ==
  ASSUME TypeInv,
         \/ \E r \in Requests : Handler(r)
         \/ \E c \in Clients : HubStep(c)
         \/ \E w \in work : WorkerMsg(w)
         \/ ReaperStep
  PROVE  sched' = sched /\ OnlyFrees
<1>1. ASSUME NEW r \in Requests, Handler(r) PROVE sched' = sched /\ OnlyFrees
  <2>1. CASE CancelFree(r)
    <3>1. caller[r].client \in Clients
      BY <2>1 DEF CancelFree, TypeInv, CallerLocals
    <3> QED
      BY <2>1, <3>1, DecrOnlyFrees DEF CancelFree
  <2>2. CASE ~ CancelFree(r)
    <3>1. sched' = sched /\ inFlight' = inFlight
      BY <1>1, <2>2
      DEF Handler, Enqueue, ReadChunk, GiveUp, BatchTimeout, CancelUntrack, AfterCancel, hubVars
    <3> QED
      BY <3>1, SameOnlyFrees
  <2> QED
    BY <2>1, <2>2
<1>2. ASSUME NEW c \in Clients, HubStep(c) PROVE sched' = sched /\ OnlyFrees
  <2>1. CASE ReaderDecr(c)
    <3>1. inFlight \in [Clients -> Int]
      BY DEF TypeInv, TypeOK
    <3> QED
      BY <2>1, <3>1 DEF ReaderDecr, OnlyFrees
  <2>2. CASE ReaderFree(c)
    <3>1. reader[c].client \in Clients
      BY <2>2 DEF ReaderFree, TypeInv, ReaderLocals
    <3> QED
      BY <2>2, <3>1, DecrOnlyFrees DEF ReaderFree
  <2>3. CASE ~ ReaderDecr(c) /\ ~ ReaderFree(c)
    <3>1. sched' = sched /\ inFlight' = inFlight
      BY <1>2, <2>3
      DEF HubStep, ReaderStep, Connect, MsgRegister, MsgDraining, MsgLocalBusy, Disconnect,
          ReaderAct, ReaderCancel, RemoveClient, SnapshotOrphans, SweepOrphan, EndSweep, hubVars
    <3> QED
      BY <3>1, SameOnlyFrees
  <2> QED
    BY <2>1, <2>2, <2>3
<1>3. ASSUME NEW w \in work, WorkerMsg(w) PROVE sched' = sched /\ OnlyFrees
  <2>1. sched' = sched /\ inFlight' = inFlight
    BY <1>3 DEF WorkerMsg, MsgOutput, MsgDone, MsgError, MsgRelease
  <2> QED
    BY <2>1, SameOnlyFrees
<1>4. CASE ReaperStep
  <2>1. ASSUME NEW e \in reaper, LeaseFree(e) PROVE sched' = sched /\ OnlyFrees
    <3>1. e.client \in Clients
      BY DEF TypeInv, TypeOK
    <3> QED
      BY <2>1, <3>1, DecrOnlyFrees DEF LeaseFree
  <2>2. ASSUME NEW expired \in SUBSET Requests, LeaseScan(expired) PROVE sched' = sched /\ OnlyFrees
    <3>1. sched' = sched /\ inFlight' = inFlight
      BY <2>2 DEF LeaseScan
    <3> QED
      BY <3>1, SameOnlyFrees
  <2> QED
    BY <1>4, <2>1, <2>2 DEF ReaperStep
<1> QED
  BY <1>1, <1>2, <1>3, <1>4

PeakGrows == \A c \in Clients : peak[c] <= peak'[c]

(* What a client has registered at most only ever grows (hub.go:553). *)
LEMMA NextPeakGrows ==
  ASSUME TypeInv, [Next]_vars
  PROVE  PeakGrows
<1>1. peak \in [Clients -> Nat]
  BY DEF TypeInv, TypeOK
<1>2. ASSUME NEW c \in Clients, NEW n \in 1..MaxSlots[c], MsgRegister(c, n) PROVE PeakGrows
  <2>1. n \in Nat /\ peak' = [peak EXCEPT ![c] = IF n > @ THEN n ELSE @]
    BY <1>2, DispatchAssumption DEF MsgRegister
  <2> QED
    BY <1>1, <2>1 DEF PeakGrows
<1>3. CASE peak' = peak
  BY <1>1, <1>3 DEF PeakGrows
<1>4. ASSUME NEW r \in Requests, Handler(r) PROVE peak' = peak
  BY <1>4 DEF Handler, Enqueue, ReadChunk, GiveUp, BatchTimeout, CancelUntrack, CancelFree,
              AfterCancel, histVars
<1>5. ASSUME SchedStep PROVE peak' = peak
  BY <1>5 DEF SchedStep, DrainOnSignal, DrainOnTick, Pick, PopAndCount, TrackJob, SendJob,
              SendFails, SchedUntrack, SchedUncount, SchedRequeue, histVars
<1>6. ASSUME NEW c \in Clients, HubStep(c), ~ \E n \in 1..MaxSlots[c] : MsgRegister(c, n)
      PROVE  peak' = peak
  BY <1>6
  DEF HubStep, ReaderStep, Connect, MsgDraining, MsgLocalBusy, Disconnect, ReaderDecr, ReaderFree,
      ReaderAct, ReaderCancel, RemoveClient, SnapshotOrphans, SweepOrphan, EndSweep, histVars
<1>7. ASSUME NEW w \in work, WorkerMsg(w) PROVE peak' = peak
  BY <1>7 DEF WorkerMsg, MsgOutput, MsgDone, MsgError, MsgRelease, histVars
<1>8. ASSUME ReaperStep PROVE peak' = peak
  BY <1>8 DEF ReaperStep, LeaseScan, LeaseFree, histVars
<1>9. CASE UNCHANGED vars
  BY <1>3, <1>9 DEF vars, histVars
<1> QED
  BY <1>2, <1>3, <1>4, <1>5, <1>6, <1>7, <1>8, <1>9 DEF Next

(* Lower counters and the same scheduler keep the bound. *)
LEMMA FreeingKeepsCapacity ==
  ASSUME TypeInv, TypeInv', LoadInv, CapacityBound, sched' = sched, OnlyFrees, PeakGrows
  PROVE  LoadInv' /\ CapacityBound'
<1>1. inFlight \in [Clients -> Int] /\ inFlight' \in [Clients -> Int]
  BY DEF TypeInv, TypeOK
<1>2. \A c \in Clients : sched.room[c] \in Int
  BY DEF TypeInv, TypeOK, SchedStates
<1>3. peak \in [Clients -> Nat] /\ peak' \in [Clients -> Nat]
  BY DEF TypeInv, TypeOK
<1>4. CapacityBound'
  BY <1>1, <1>3 DEF CapacityBound, OnlyFrees, PeakGrows
<1> QED
  BY <1>1, <1>2, <1>3, <1>4 DEF LoadInv, OnlyFrees, PeakGrows

(* The scheduler keeps the bound: a client it picks has a slot left by its
   copy, which is within the most the client has registered (scheduler.go:222-268, 313-506). *)
LEMMA SchedKeepsCapacity ==
  ASSUME TypeInv, TypeInv', LoadInv, CapacityBound, SchedStep
  PROVE  LoadInv' /\ CapacityBound'
<1>f. inFlight \in [Clients -> Int] /\ inFlight' \in [Clients -> Int]
  BY DEF TypeInv, TypeOK
<1>b. /\ localBusy \in [Clients -> Nat] /\ slots \in [Clients -> Nat]
      /\ \A c \in Clients : slots[c] <= peak[c]
  BY DEF TypeInv, TypeOK
<1>m. peak \in [Clients -> Nat] /\ peak' = peak
  BY DEF TypeInv, TypeOK, SchedStep, DrainOnSignal, DrainOnTick, Pick, PopAndCount, TrackJob,
         SendJob, SendFails, SchedUntrack, SchedUncount, SchedRequeue, histVars
<1>s. sched \in SchedStates
  BY DEF TypeInv, TypeOK
<1>d. \A c \in Clients : sched.room[c] \in Int
  BY <1>s DEF SchedStates
<1>l. SchedLocals
  BY DEF TypeInv
<1>i. IdleSched.pc = "idle"
  BY DEF IdleSched
<1>1. CASE DrainOnSignal \/ DrainOnTick
  <2> DEFINE L == [c \in Clients |-> IF c \in Available THEN Room(c) ELSE 0]
  <2>1. inFlight' = inFlight /\ StartDrain
    BY <1>1 DEF DrainOnSignal, DrainOnTick, hubVars
  <2>2. CASE sched' = IdleSched
    BY <1>i, <1>m, <2>1, <2>2 DEF LoadInv, CapacityBound
  <2>3. CASE sched' = [IdleSched EXCEPT !.pc = "pick", !.room = L]
    <3>1. sched'.pc = "pick" /\ sched'.room = L
      BY <2>3 DEF IdleSched
    <3>2. \A c \in Clients : L[c] > 0 => inFlight[c] + L[c] <= peak[c]
      BY <1>f, <1>b, <1>m DEF Room
    <3> HIDE DEF L
    <3> QED
      BY <1>m, <2>1, <3>1, <3>2 DEF LoadInv, CapacityBound
  <2> QED
    BY <2>1, <2>2, <2>3 DEF StartDrain
<1>2. CASE Pick
  <2>1. inFlight' = inFlight
    BY <1>2 DEF Pick, hubVars
  <2>2. CASE sched' = IdleSched
    BY <1>i, <1>m, <2>1, <2>2 DEF LoadInv, CapacityBound
  <2>3. ASSUME NEW p \in Candidates,
               sched' = [sched EXCEPT !.pc = "pop", !.req = p[1], !.client = p[2]]
        PROVE  LoadInv' /\ CapacityBound'
    <3>1. sched.room[p[2]] > 0
      BY DEF Candidates
    <3>2. sched'.pc = "pop" /\ sched'.client = p[2] /\ sched'.room = sched.room
      BY <1>s, <2>3 DEF SchedStates
    <3>3. sched.pc = "pick"
      BY <1>2 DEF Pick
    <3> QED
      BY <1>m, <2>1, <3>1, <3>2, <3>3 DEF LoadInv, CapacityBound
  <2> QED
    BY <1>2, <2>2, <2>3 DEF Pick
<1>3. CASE PopAndCount
  <2> DEFINE r == sched.req
             c == sched.client
  <2>0. sched.pc = "pop" /\ c \in Clients
    BY <1>l, <1>3 DEF PopAndCount, SchedLocals
  <2>1. CASE queue[r] = None
    <3>1. /\ inFlight' = inFlight
          /\ \/ sched' = IdleSched
             \/ sched' = [sched EXCEPT !.pc = "pick", !.req = None, !.client = None,
                                       !.missed = @ \cup {r}]
      BY <1>3, <2>1 DEF PopAndCount
    <3>2. sched'.pc = "idle" \/ (sched'.pc = "pick" /\ sched'.room = sched.room)
      <4>1. ASSUME NEW m \in SUBSET Requests
            PROVE  LET y == [sched EXCEPT !.pc = "pick", !.req = None, !.client = None, !.missed = m]
                   IN  y.pc = "pick" /\ y.room = sched.room
        BY <1>s DEF SchedStates
      <4>2. sched.missed \cup {r} \in SUBSET Requests
        BY <1>s, <1>l, <2>0 DEF SchedStates, SchedLocals
      <4>3. CASE sched' = IdleSched
        BY <1>i, <4>3
      <4>4. CASE sched' = [sched EXCEPT !.pc = "pick", !.req = None, !.client = None,
                                        !.missed = sched.missed \cup {r}]
        BY <4>1, <4>2, <4>4
      <4> QED
        BY <3>1, <4>3, <4>4
    <3> QED
      BY <1>m, <2>0, <3>1, <3>2 DEF LoadInv, CapacityBound
  <2>2. CASE queue[r] # None
    <3>1. inFlight' = inFlight \/ inFlight' = [inFlight EXCEPT ![c] = @ + 1]
      BY <1>3, <2>2 DEF PopAndCount
    <3>2. sched'.pc = "track" /\ sched'.client = c /\ sched'.room = sched.room
      <4>1. sched' = [sched EXCEPT !.pc = "track",
                        !.copy = [attempts |-> queue[r].attempts, model |-> Serves[c]]]
        BY <1>3, <2>2 DEF PopAndCount
      <4> QED
        BY <1>s, <4>1 DEF SchedStates
    <3>3. sched.room[c] > 0 /\ inFlight[c] + sched.room[c] <= peak[c]
      BY <2>0 DEF LoadInv
    <3>4. CapacityBound'
      BY <1>d, <1>f, <1>m, <2>0, <3>1, <3>3 DEF CapacityBound
    <3>5. \A d \in Clients : sched.room[d] > 0 =>
            inFlight'[d] + sched.room[d] <= peak[d] + (IF d = c THEN 1 ELSE 0)
      BY <1>f, <1>d, <1>m, <2>0, <3>1 DEF LoadInv
    <3> QED
      BY <1>m, <3>2, <3>4, <3>5 DEF LoadInv
  <2> QED
    BY <2>1, <2>2
<1>4. CASE TrackJob
  <2>1. inFlight' = inFlight
    BY <1>4 DEF TrackJob
  <2>2. \/ sched' = [sched EXCEPT !.pc = "send"] \/ sched' = [sched EXCEPT !.pc = "push"]
    BY <1>4 DEF TrackJob
  <2>3. /\ sched'.pc \in {"send", "push"} /\ sched'.client = sched.client
        /\ sched'.room = sched.room
    BY <1>s, <2>2 DEF SchedStates
  <2>4. sched.pc = "track"
    BY <1>4 DEF TrackJob
  <2> QED
    BY <1>m, <2>1, <2>3, <2>4 DEF LoadInv, CapacityBound
<1>5. CASE SendJob
  <2> DEFINE c == sched.client
  <2>1. sched.pc = "send" /\ inFlight' = inFlight /\ c \in Clients
    BY <1>l, <1>5 DEF SendJob, SchedLocals, hubVars
  <2>2. sched' = [sched EXCEPT !.pc = "pick", !.req = None, !.client = None, !.copy = None,
                               !.room = [sched.room EXCEPT ![c] = @ - 1]]
    BY <1>5 DEF SendJob
  <2>3. sched'.pc = "pick" /\ sched'.room = [sched.room EXCEPT ![c] = @ - 1]
    BY <1>s, <2>2 DEF SchedStates
  <2>4. sched.room \in [Clients -> Int]
    BY <1>s DEF SchedStates
  <2>5. \A d \in Clients : sched'.room[d] = IF d = c THEN sched.room[c] - 1 ELSE sched.room[d]
    BY <2>1, <2>3, <2>4
  <2>6. \A d \in Clients : sched'.room[d] > 0 => inFlight[d] + sched'.room[d] <= peak[d]
    BY <1>d, <1>f, <1>m, <2>1, <2>5 DEF LoadInv
  <2> QED
    BY <1>m, <2>1, <2>3, <2>6 DEF LoadInv, CapacityBound
<1>6. CASE SendFails \/ SchedUntrack \/ SchedRequeue
  <2>1. inFlight' = inFlight
    BY <1>6 DEF SendFails, SchedUntrack, SchedRequeue, hubVars
  <2>2. \/ sched' = IdleSched \/ sched' = [sched EXCEPT !.pc = "untrack"]
        \/ sched' = [sched EXCEPT !.pc = "uncount"]
    BY <1>6 DEF SendFails, SchedUntrack, SchedRequeue
  <2>3. sched'.pc \in {"idle", "untrack", "uncount"}
    BY <1>s, <1>i, <2>2 DEF SchedStates
  <2> QED
    BY <1>m, <2>1, <2>3 DEF LoadInv, CapacityBound
<1>7. CASE SchedUncount
  <2>1. sched.client \in Clients
    BY <1>l, <1>7 DEF SchedUncount, SchedLocals
  <2>2. OnlyFrees
    BY <1>7, <2>1, DecrOnlyFrees DEF SchedUncount
  <2>3. sched'.pc = "push"
    BY <1>s, <1>7 DEF SchedUncount, SchedStates
  <2>4. CapacityBound'
    BY <1>f, <1>m, <2>2 DEF CapacityBound, OnlyFrees
  <2> QED
    BY <2>3, <2>4 DEF LoadInv
<1> QED
  BY <1>1, <1>2, <1>3, <1>4, <1>5, <1>6, <1>7 DEF SchedStep

(* However the scheduler's drains interleave with answers, errors, releases,
   cancels, leases and disconnects, however stale the copy it works from and
   however a worker changes its slots meanwhile, no client is ever given more
   jobs than the most slots it has registered (scheduler.go:252-268,
   453-461; hub.go:136-138). *)
THEOREM DispatchCapacity == Spec => []CapacityBound
<1> DEFINE I == TypeInv /\ LoadInv /\ CapacityBound
<1>1. Init => I
  <2> SUFFICES ASSUME Init PROVE LoadInv /\ CapacityBound
    BY InitTypeInv
  <2>1. LoadInv
    BY DEF Init, IdleSched, LoadInv
  <2>2. CapacityBound
    BY DispatchAssumption DEF Init, CapacityBound
  <2> QED
    BY <2>1, <2>2
<1>2. I /\ [Next]_vars => I'
  <2> SUFFICES ASSUME I, [Next]_vars PROVE LoadInv' /\ CapacityBound'
    BY NextTypeInv
  <2>1. TypeInv' /\ PeakGrows
    BY NextTypeInv, NextPeakGrows
  <2>2. CASE SchedStep
    BY <2>1, <2>2, SchedKeepsCapacity
  <2>3. CASE UNCHANGED vars
    BY <2>1, <2>3, SameOnlyFrees, FreeingKeepsCapacity DEF vars, hubVars
  <2> QED
    BY <2>1, <2>2, <2>3, OthersOnlyFree, FreeingKeepsCapacity DEF Next
<1>3. I => CapacityBound
  OBVIOUS
<1> QED
  BY <1>1, <1>2, <1>3, PTL DEF Spec
-----------------------------------------------------------------------------
(* The copies of a request, and the job tables *)

(* The four places of Places, one by one. *)
InQueue(r) == queue[r] # None
InTable(r) == jobs[r] # None
InReader(r, c) == reader[c].req = r /\ reader[c].pc \in {"decr", "act"} /\ reader[c].copy # None

Nowhere(r) ==
  ~ InQueue(r) /\ ~ InTable(r) /\ ~ InHand(r) /\ \A c \in Clients : ~ InReader(r, c)

OnePlace(r) ==
  /\ ~ (InQueue(r) /\ InTable(r)) /\ ~ (InQueue(r) /\ InHand(r)) /\ ~ (InTable(r) /\ InHand(r))
  /\ \A c \in Clients : InReader(r, c) => ~ InQueue(r) /\ ~ InTable(r) /\ ~ InHand(r)
  /\ \A c, d \in Clients : InReader(r, c) /\ InReader(r, d) => c = d

(* A streaming request has one place, a request nobody has pushed has none, and
   only batch handlers retry. *)
PlaceInv ==
  \A r \in Requests :
    /\ caller[r].pc = "new" => Nowhere(r) /\ ~ IsBatch(r)
    /\ caller[r].next = "retry" => IsBatch(r)
    /\ ~ IsBatch(r) => OnePlace(r)

(* A connection that does not exist yet has no goroutine. *)
OffInv == \A c \in Clients : conn[c] = "off" => reader[c].pc = "off"

(* A connection's goroutine that is not busy with a job has none in its hands. *)
ReaderClean ==
  \A c \in Clients : reader[c].pc \notin {"decr", "act"} =>
    reader[c].copy = None /\ reader[c].from = "none"
-----------------------------------------------------------------------------
(* Replacing one connection's goroutine by a clean one. *)
LEMMA SetClean ==
  ASSUME TypeInv, ReaderClean, NEW c \in Clients, NEW x,
         x.pc \notin {"decr", "act"} => x.copy = None /\ x.from = "none",
         reader' = [reader EXCEPT ![c] = x]
  PROVE  ReaderClean'
<1>1. reader \in [Clients -> ReaderStates]
  BY DEF TypeInv, TypeOK
<1> QED
  BY <1>1 DEF ReaderClean

(* Moving on without touching a job. *)
LEMMA SetCleanPc ==
  ASSUME TypeInv, ReaderClean, NEW c \in Clients, NEW p,
         reader[c].pc \notin {"decr", "act"},
         reader' = [reader EXCEPT ![c].pc = p]
  PROVE  ReaderClean'
<1> DEFINE x == [reader[c] EXCEPT !.pc = p]
<1>1. reader[c] \in ReaderStates
  BY DEF TypeInv, TypeOK
<1>2. x.copy = reader[c].copy /\ x.from = reader[c].from
  BY <1>1 DEF ReaderStates
<1>3. reader[c].copy = None /\ reader[c].from = "none"
  BY DEF ReaderClean
<1>4. reader' = [reader EXCEPT ![c] = x]
  OBVIOUS
<1> HIDE DEF x
<1> QED
  BY <1>2, <1>3, <1>4, SetClean

(* Back in its loop or its sweep the goroutine is clean. *)
LEMMA RestClean ==
  ASSUME TypeInv, NEW c \in Clients
  PROVE  Rest(c).copy = None /\ Rest(c).from = "none"
<1>1. reader[c] \in ReaderStates
  BY DEF TypeInv, TypeOK
<1> QED
  BY <1>1 DEF Rest, IdleReader, ReaderStates

(* Goroutines start with Connect only (hub.go:346-378). *)
LEMMA NextOffInv ==
  ASSUME TypeInv, OffInv, Next
  PROVE  OffInv'
<1>t. conn \in [Clients -> ConnStates] /\ reader \in [Clients -> ReaderStates]
  BY DEF TypeInv, TypeOK
<1>1. CASE conn' = conn /\ reader' = reader
  BY <1>1 DEF OffInv
<1>2. ASSUME NEW c \in Clients, NEW x, NEW y, conn[c] # "off", y # "off",
             conn' = conn \/ conn' = [conn EXCEPT ![c] = y],
             reader' = reader \/ reader' = [reader EXCEPT ![c] = x]
      PROVE  OffInv'
  BY <1>t, <1>2 DEF OffInv
<1>3. ASSUME NEW r \in Requests, Handler(r) PROVE OffInv'
  BY <1>1, <1>3 DEF Handler, Enqueue, ReadChunk, GiveUp, BatchTimeout, CancelUntrack, CancelFree,
                    AfterCancel, hubVars
<1>4. CASE SchedStep
  BY <1>1, <1>4 DEF SchedStep, DrainOnSignal, DrainOnTick, Pick, PopAndCount, TrackJob, SendJob,
                    SendFails, SchedUntrack, SchedUncount, SchedRequeue, hubVars
<1>5. CASE ReaperStep
  BY <1>1, <1>5 DEF ReaperStep, LeaseScan, LeaseFree
<1>6. ASSUME NEW w \in work, WorkerMsg(w) PROVE OffInv'
  <2>1. w.client \in Clients /\ conn[w.client] # "off" /\ conn' = conn
    BY <1>6 DEF WorkerMsg, MsgOutput, MsgDone, MsgError, MsgRelease, Reading, TypeInv, TypeOK,
                WorkItems
  <2>2. reader' = reader \/ \E x : reader' = [reader EXCEPT ![w.client] = x]
    <3>1. ASSUME NEW from, NEW copy, TakeJob(w, from, copy)
          PROVE  \E x : reader' = [reader EXCEPT ![w.client] = x]
      BY <3>1 DEF TakeJob
    <3>2. CASE MsgOutput(w)
      BY <3>2 DEF MsgOutput
    <3>3. CASE MsgDone(w)
      BY <3>1, <3>3 DEF MsgDone
    <3>4. CASE \E final \in BOOLEAN : MsgError(w, final)
      BY <3>1, <3>4 DEF MsgError
    <3>5. CASE \E reason \in {"busy", "shutdown"} : MsgRelease(w, reason)
      BY <3>1, <3>5 DEF MsgRelease
    <3> QED
      BY <1>6, <3>2, <3>3, <3>4, <3>5 DEF WorkerMsg
  <2> QED
    BY <1>2, <2>1, <2>2
<1>7. ASSUME NEW c \in Clients, HubStep(c) PROVE OffInv'
  <2>1. CASE Connect(c)
    <3>1. conn' = [conn EXCEPT ![c] = "open"] /\ \E x : reader' = [reader EXCEPT ![c] = x]
      BY <2>1 DEF Connect
    <3> QED
      BY <1>t, <3>1 DEF OffInv
  <2>2. CASE ~ Connect(c)
    <3>1. conn[c] # "off"
      BY <1>7, <2>2
      DEF HubStep, ReaderStep, MsgRegister, MsgDraining, MsgLocalBusy, Disconnect, Reading,
          ReaderDecr, ReaderAct, ReaderCancel, ReaderFree, RemoveClient, SnapshotOrphans,
          SweepOrphan, EndSweep, OffInv
    <3>2. reader' = reader \/ \E x : reader' = [reader EXCEPT ![c] = x]
      BY <1>7, <2>2
      DEF HubStep, ReaderStep, MsgRegister, MsgDraining, MsgLocalBusy, Disconnect,
          ReaderDecr, ReaderAct, ReaderCancel, ReaderFree, RemoveClient, SnapshotOrphans,
          SweepOrphan, EndSweep
    <3>3. conn' = conn \/ \E y \in {"up", "down", "closed", "gone"} : conn' = [conn EXCEPT ![c] = y]
      BY <1>7, <2>2
      DEF HubStep, ReaderStep, MsgRegister, MsgDraining, MsgLocalBusy, Disconnect,
          ReaderDecr, ReaderAct, ReaderCancel, ReaderFree, RemoveClient, SnapshotOrphans,
          SweepOrphan, EndSweep, hubVars
    <3> QED
      BY <1>2, <3>1, <3>2, <3>3
  <2> QED
    BY <2>1, <2>2
<1> QED
  BY <1>3, <1>4, <1>5, <1>6, <1>7 DEF Next

(* No step leaves a job in the hands of a goroutine that has gone back to its
   loop (hub.go:346-441, 581-729). *)
LEMMA NextReaderClean ==
  ASSUME TypeInv, OffInv, ReaderClean, Next
  PROVE  ReaderClean'
<1>1. CASE reader' = reader
  BY <1>1 DEF ReaderClean
<1>2. ASSUME NEW r \in Requests, Handler(r) PROVE ReaderClean'
  BY <1>1, <1>2 DEF Handler, Enqueue, ReadChunk, GiveUp, BatchTimeout, CancelUntrack, CancelFree,
                    AfterCancel
<1>3. CASE SchedStep
  BY <1>1, <1>3 DEF SchedStep, DrainOnSignal, DrainOnTick, Pick, PopAndCount, TrackJob, SendJob,
                    SendFails, SchedUntrack, SchedUncount, SchedRequeue
<1>4. CASE ReaperStep
  BY <1>1, <1>4 DEF ReaperStep, LeaseScan, LeaseFree
<1>5. ASSUME NEW c \in Clients, HubStep(c) PROVE ReaderClean'
  <2>r. reader[c] \in ReaderStates
    BY DEF TypeInv, TypeOK
  <2>1. CASE Connect(c)
    <3>1. reader[c].pc = "off" /\ reader' = [reader EXCEPT ![c].pc = "read"]
      BY <2>1 DEF Connect, OffInv
    <3> QED
      BY <3>1, SetCleanPc
  <2>2. CASE \/ \E n \in 1..MaxSlots[c] : MsgRegister(c, n)
             \/ MsgDraining(c) \/ \E n \in LocalLoads : MsgLocalBusy(c, n)
    <3>1. reader' = reader
      BY <2>2 DEF MsgRegister, MsgDraining, MsgLocalBusy
    <3> QED
      BY <1>1, <3>1
  <2>3. CASE Disconnect(c)
    BY <2>3, SetCleanPc DEF Disconnect, Reading
  <2>4. CASE ReaderDecr(c)
    <3> DEFINE x == [reader[c] EXCEPT !.pc = "act"]
    <3>1. x.pc = "act" /\ reader' = [reader EXCEPT ![c] = x]
      BY <2>r, <2>4 DEF ReaderDecr, ReaderStates
    <3> HIDE DEF x
    <3> QED
      BY <3>1, SetClean
  <2>5. CASE ReaderAct(c)
    <3> DEFINE r == reader[c].req
               x == [Rest(c) EXCEPT !.pc = "cancel", !.req = r]
    <3>1. Rest(c) \in ReaderStates /\ Rest(c).copy = None /\ Rest(c).from = "none"
      BY RestType, RestClean
    <3>2. x.copy = None /\ x.from = "none"
      BY <3>1 DEF ReaderStates
    <3>3. reader' = [reader EXCEPT ![c] = Rest(c)] \/ reader' = [reader EXCEPT ![c] = x]
      BY <2>5 DEF ReaderAct
    <3> HIDE DEF x
    <3> QED
      BY <3>1, <3>2, <3>3, SetClean
  <2>6. CASE ReaderCancel(c)
    <3>1. CASE jobs[reader[c].req] # None
      <4> DEFINE x == [reader[c] EXCEPT !.pc = "free", !.client = jobs[reader[c].req].client]
      <4>1. reader' = [reader EXCEPT ![c] = x]
        BY <2>6, <3>1 DEF ReaderCancel
      <4>2. x.copy = reader[c].copy /\ x.from = reader[c].from
        BY <2>r DEF ReaderStates
      <4>3. reader[c].copy = None /\ reader[c].from = "none"
        BY <2>6 DEF ReaderCancel, ReaderClean
      <4> HIDE DEF x
      <4> QED
        BY <4>1, <4>2, <4>3, SetClean
    <3>2. CASE jobs[reader[c].req] = None
      BY <2>6, <3>2, RestClean, SetClean DEF ReaderCancel
    <3> QED
      BY <3>1, <3>2
  <2>7. CASE ReaderFree(c)
    BY <2>7, RestClean, SetClean DEF ReaderFree
  <2>8. CASE RemoveClient(c)
    BY <2>8, SetCleanPc DEF RemoveClient
  <2>9. CASE SnapshotOrphans(c)
    <3> DEFINE o == {r \in jobsByClient[c] : jobs[r] # None}
               x == [reader[c] EXCEPT !.pc = "sweep", !.orphans = o]
    <3>1. reader' = [reader EXCEPT ![c] = x]
      BY <2>9 DEF SnapshotOrphans
    <3> HIDE DEF o
    <3>2. x.copy = reader[c].copy /\ x.from = reader[c].from
      BY <2>r DEF ReaderStates
    <3>3. reader[c].copy = None /\ reader[c].from = "none"
      BY <2>9 DEF SnapshotOrphans, ReaderClean
    <3> HIDE DEF x
    <3> QED
      BY <3>1, <3>2, <3>3, SetClean
  <2>10. ASSUME NEW r \in Requests, SweepOrphan(c, r) PROVE ReaderClean'
    <3> DEFINE left == [reader[c] EXCEPT !.orphans = @ \ {r}]
               copy == IF MayRetry(jobs[r]) THEN retryRequest(jobs[r].copy) ELSE None
               x == [left EXCEPT !.pc = "decr", !.req = r, !.from = "sweep", !.copy = copy]
    <3>1. reader' = [reader EXCEPT ![c] = x] \/ reader' = [reader EXCEPT ![c] = left]
      BY <2>10 DEF SweepOrphan
    <3>2. left \in ReaderStates /\ left.copy = reader[c].copy /\ left.from = reader[c].from
      BY <2>r DEF ReaderStates
    <3>3. reader[c].copy = None /\ reader[c].from = "none"
      BY <2>10 DEF SweepOrphan, ReaderClean
    <3> HIDE DEF left, copy
    <3>4. x.pc = "decr"
      BY <3>2 DEF ReaderStates
    <3> HIDE DEF x
    <3> QED
      BY <3>1, <3>2, <3>3, <3>4, SetClean
  <2>11. CASE EndSweep(c)
    <3>1. IdleReader.copy = None /\ IdleReader.from = "none"
      BY DEF IdleReader
    <3> QED
      BY <2>11, <3>1, SetClean DEF EndSweep
  <2> QED
    BY <1>5, <2>1, <2>2, <2>3, <2>4, <2>5, <2>6, <2>7, <2>8, <2>9, <2>10, <2>11
    DEF HubStep, ReaderStep
<1>6. ASSUME NEW w \in work, WorkerMsg(w) PROVE ReaderClean'
  <2> DEFINE c == w.client
  <2>1. c \in Clients
    BY DEF TypeInv, TypeOK, WorkItems
  <2>r. reader[c] \in ReaderStates
    BY <2>1 DEF TypeInv, TypeOK
  <2>2. reader[c].copy = None /\ reader[c].from = "none"
    <3>1. reader[c].pc = "read"
      BY <1>6 DEF WorkerMsg, MsgOutput, MsgDone, MsgError, MsgRelease, Reading
    <3> QED
      BY <2>1, <3>1 DEF ReaderClean
  <2>3. ASSUME NEW from, NEW copy, TakeJob(w, from, copy) PROVE ReaderClean'
    <3> DEFINE x == [reader[c] EXCEPT !.pc = "decr", !.req = w.req, !.from = from,
                                      !.copy = copy, !.n = w.n]
    <3>1. x.pc = "decr" /\ reader' = [reader EXCEPT ![c] = x]
      BY <2>r, <2>3 DEF TakeJob, ReaderStates
    <3> HIDE DEF x
    <3> QED
      BY <2>1, <3>1, SetClean
  <2>4. CASE MsgOutput(w)
    <3> DEFINE x == [reader[c] EXCEPT !.pc = "cancel", !.req = w.req]
    <3>1. reader' = reader \/ reader' = [reader EXCEPT ![c] = x]
      BY <2>4 DEF MsgOutput
    <3>2. x.copy = reader[c].copy /\ x.from = reader[c].from
      BY <2>r DEF ReaderStates
    <3> HIDE DEF x
    <3> QED
      BY <1>1, <2>1, <2>2, <3>1, <3>2, SetClean
  <2>5. CASE MsgDone(w)
    <3> DEFINE x == [reader[c] EXCEPT !.pc = "act", !.req = w.req, !.from = "done", !.n = w.n]
    <3>1. TakeJob(w, "done", None) \/ reader' = [reader EXCEPT ![c] = x]
      BY <2>5 DEF MsgDone
    <3>2. x.pc = "act"
      BY <2>r DEF ReaderStates
    <3> HIDE DEF x
    <3> QED
      BY <2>1, <2>3, <3>1, <3>2, SetClean
  <2>6. CASE \E final \in BOOLEAN : MsgError(w, final)
    <3>1. reader' = reader \/ \E copy : TakeJob(w, "error", copy)
      BY <2>6 DEF MsgError
    <3> QED
      BY <1>1, <2>3, <3>1
  <2>7. CASE \E reason \in {"busy", "shutdown"} : MsgRelease(w, reason)
    <3>1. reader' = reader \/ \E copy : TakeJob(w, "release", copy)
      BY <2>7 DEF MsgRelease
    <3> QED
      BY <1>1, <2>3, <3>1
  <2> QED
    BY <1>6, <2>4, <2>5, <2>6, <2>7 DEF WorkerMsg
<1> QED
  BY <1>2, <1>3, <1>4, <1>5, <1>6 DEF Next
-----------------------------------------------------------------------------
(* How a step moves one request: every other request keeps at most the places
   it had, and the one that moves had a place. *)
FewerPlaces(r) ==
  /\ InQueue(r)' => InQueue(r)
  /\ InTable(r)' => InTable(r)
  /\ InHand(r)' => InHand(r)
  /\ \A c \in Clients : InReader(r, c)' => InReader(r, c)

KeepsPlaces ==
  \A r \in Requests : (OnePlace(r) => OnePlace(r)') /\ (Nowhere(r) => Nowhere(r)')

(* Giving up places keeps what is said of them. *)
LEMMA FewerKeeps == ASSUME NEW r \in Requests, FewerPlaces(r)
                    PROVE  (OnePlace(r) => OnePlace(r)') /\ (Nowhere(r) => Nowhere(r)')
BY DEF FewerPlaces, OnePlace, Nowhere

(* A move of s from one place to another. *)
LEMMA MoveKeeps ==
  ASSUME NEW s \in Requests, ~ Nowhere(s), OnePlace(s) => OnePlace(s)',
         \A r \in Requests \ {s} : FewerPlaces(r)
  PROVE  KeepsPlaces
BY FewerKeeps DEF KeepsPlaces

(* With the same goroutines, the queue and the job table decide. *)
LEMMA SameActors ==
  ASSUME NEW r \in Requests, sched' = sched, reader' = reader,
         InQueue(r)' => InQueue(r), InTable(r)' => InTable(r)
  PROVE  FewerPlaces(r)
BY DEF FewerPlaces, InHand, InReader

(* A taken job is tracked no more, the others as before. *)
LEMMA UntrackPlaces ==
  ASSUME TypeInv, NEW s \in Requests, Untrack(s)
  PROVE  ~ InTable(s)' /\ \A r \in Requests : r # s => jobs'[r] = jobs[r]
<1>1. jobs \in [Requests -> Jobs \cup {None}]
  BY DEF TypeInv, TypeOK
<1> QED
  BY <1>1 DEF Untrack, InTable

(* The scheduler carries a request from the queue to the table, or back
   (scheduler.go:419-486). *)
LEMMA SchedPlaces ==
  ASSUME TypeInv, SchedStep
  PROVE  KeepsPlaces /\ caller' = caller
<1>s. sched \in SchedStates
  BY DEF TypeInv, TypeOK
<1>l. SchedLocals
  BY DEF TypeInv
<1>q. queue \in [Requests -> Copies \cup {None}]
  BY DEF TypeInv, TypeOK
<1>j. jobs \in [Requests -> Jobs \cup {None}]
  BY DEF TypeInv, TypeOK
<1>i. IdleSched.pc = "idle"
  BY DEF IdleSched
<1>c. caller' = caller /\ reader' = reader
  BY DEF SchedStep, DrainOnSignal, DrainOnTick, Pick, PopAndCount, TrackJob, SendJob, SendFails,
         SchedUntrack, SchedUncount, SchedRequeue
<1>r. \A r \in Requests, c \in Clients : InReader(r, c)' <=> InReader(r, c)
  BY <1>c DEF InReader
<1>t. ASSUME sched'.pc \in {"idle", "pick", "pop", "send", "untrack"},
             queue' = queue, jobs' = jobs
      PROVE  KeepsPlaces
  BY <1>r, <1>t, FewerKeeps DEF KeepsPlaces, FewerPlaces, InQueue, InTable, InHand
<1>1. CASE DrainOnSignal \/ DrainOnTick
  <2>1. sched'.pc \in {"idle", "pick"}
    <3>1. CASE sched' = IdleSched
      BY <1>i, <3>1
    <3>2. ASSUME NEW l, sched' = [IdleSched EXCEPT !.pc = "pick", !.room = l]
          PROVE  sched'.pc = "pick"
      BY <3>2 DEF IdleSched
    <3> QED
      BY <1>1, <3>1, <3>2 DEF DrainOnSignal, DrainOnTick, StartDrain
  <2> QED
    BY <1>1, <1>t, <1>c, <2>1 DEF DrainOnSignal, DrainOnTick, hubVars
<1>2. CASE Pick
  <2>1. sched'.pc \in {"idle", "pop"}
    BY <1>s, <1>i, <1>2 DEF Pick, SchedStates
  <2> QED
    BY <1>2, <1>t, <1>c, <2>1 DEF Pick, hubVars
<1>3. CASE PopAndCount
  <2>0. PICK s \in Requests : sched.req = s /\ jobs' = jobs /\ sched.pc = "pop"
    BY <1>l, <1>3 DEF PopAndCount, SchedLocals
  <2>1. CASE queue[s] = None
    <3>1. /\ queue' = queue
          /\ \/ sched' = IdleSched
             \/ sched' = [sched EXCEPT !.pc = "pick", !.req = None, !.client = None,
                                       !.missed = sched.missed \cup {s}]
      BY <1>3, <2>0, <2>1 DEF PopAndCount
    <3>2. ASSUME NEW m \in SUBSET Requests
          PROVE  [sched EXCEPT !.pc = "pick", !.req = None, !.client = None, !.missed = m].pc = "pick"
      BY <1>s DEF SchedStates
    <3>3. sched.missed \cup {s} \in SUBSET Requests
      BY <1>s, <2>0 DEF SchedStates
    <3>4. sched'.pc \in {"idle", "pick"}
      BY <1>i, <3>1, <3>2, <3>3
    <3> QED
      BY <1>t, <1>c, <2>0, <3>1, <3>4
  <2>2. CASE queue[s] # None
    <3>1. queue' = [queue EXCEPT ![s] = None]
      BY <1>3, <2>0, <2>2 DEF PopAndCount
    <3>2. sched'.req = s
      <4>1. sched' = [sched EXCEPT !.pc = "track",
                        !.copy = [attempts |-> queue[s].attempts, model |-> Serves[sched.client]]]
        BY <1>3, <2>0, <2>2 DEF PopAndCount
      <4> QED
        BY <1>s, <2>0, <4>1 DEF SchedStates
    <3>3. \A r \in Requests \ {s} : FewerPlaces(r)
      BY <1>q, <1>r, <2>0, <3>1, <3>2 DEF FewerPlaces, InQueue, InTable, InHand
    <3>4. ~ Nowhere(s)
      BY <2>2 DEF Nowhere, InQueue
    <3>5. ~ InQueue(s)' /\ (InTable(s)' => InTable(s)) /\ InQueue(s)
      BY <1>q, <2>0, <2>2, <3>1 DEF InQueue, InTable
    <3>6. OnePlace(s) => OnePlace(s)'
      BY <1>r, <2>0, <3>5 DEF OnePlace
    <3> QED
      BY <1>c, <2>0, <3>3, <3>4, <3>6, MoveKeeps
  <2> QED
    BY <2>1, <2>2
<1>4. CASE TrackJob
  <2>1. PICK s \in Requests : sched.req = s /\ queue' = queue /\ sched.pc = "track"
    BY <1>l, <1>4 DEF TrackJob, SchedLocals
  <2>2. \/ sched' = [sched EXCEPT !.pc = "send"]
        \/ sched' = [sched EXCEPT !.pc = "push"] /\ jobs' = jobs
    BY <1>4 DEF TrackJob
  <2>3. \/ sched'.pc = "send" /\ sched'.req = s
        \/ sched'.pc = "push" /\ sched'.req = s /\ jobs' = jobs
    BY <1>s, <2>1, <2>2 DEF SchedStates
  <2>4. \A r \in Requests \ {s} : jobs'[r] = jobs[r]
    BY <1>j, <1>4, <2>1 DEF TrackJob
  <2>5. \A r \in Requests \ {s} : FewerPlaces(r)
    BY <1>r, <2>1, <2>3, <2>4 DEF FewerPlaces, InQueue, InTable, InHand
  <2>6. InHand(s) /\ (InQueue(s)' => InQueue(s))
    BY <2>1 DEF InHand, InQueue
  <2>7. ~ InHand(s)' \/ (InTable(s)' => InTable(s))
    BY <2>3 DEF InHand, InTable
  <2>8. OnePlace(s) => OnePlace(s)'
    BY <1>r, <2>6, <2>7 DEF OnePlace
  <2>9. ~ Nowhere(s)
    BY <2>6 DEF Nowhere
  <2> QED
    BY <1>c, <2>1, <2>5, <2>8, <2>9, MoveKeeps
<1>5. CASE SendJob
  <2>1. sched' = [sched EXCEPT !.pc = "pick", !.req = None, !.client = None, !.copy = None,
                               !.room = [sched.room EXCEPT ![sched.client] = @ - 1]]
    BY <1>5 DEF SendJob
  <2>2. sched'.pc = "pick"
    BY <1>s, <2>1 DEF SchedStates
  <2> QED
    BY <1>5, <1>t, <1>c, <2>2 DEF SendJob, hubVars
<1>6. CASE SendFails
  <2>1. sched'.pc = "untrack"
    BY <1>s, <1>6 DEF SendFails, SchedStates
  <2> QED
    BY <1>6, <1>t, <1>c, <2>1 DEF SendFails, hubVars
<1>7. CASE SchedUntrack
  <2>1. PICK s \in Requests : sched.req = s /\ queue' = queue
    BY <1>l, <1>7 DEF SchedUntrack, SchedLocals
  <2>2. CASE HeldBy(s, sched.client)
    <3>1. Untrack(s) /\ jobs[s] # None /\ sched' = [sched EXCEPT !.pc = "uncount"]
      BY <1>7, <2>1, <2>2 DEF SchedUntrack, HeldBy
    <3>2. sched'.pc = "uncount" /\ sched'.req = s
      BY <1>s, <2>1, <3>1 DEF SchedStates
    <3>3. ~ InTable(s)' /\ \A r \in Requests : r # s => jobs'[r] = jobs[r]
      BY <2>1, <3>1, UntrackPlaces
    <3>4. \A r \in Requests \ {s} : FewerPlaces(r)
      BY <1>r, <2>1, <3>2, <3>3 DEF FewerPlaces, InQueue, InTable, InHand
    <3>5. InTable(s) /\ (InQueue(s)' => InQueue(s))
      BY <2>1, <3>1 DEF InTable, InQueue
    <3>6. OnePlace(s) => OnePlace(s)'
      BY <1>r, <3>3, <3>5 DEF OnePlace
    <3>7. ~ Nowhere(s)
      BY <3>5 DEF Nowhere
    <3> QED
      BY <1>c, <2>1, <3>4, <3>6, <3>7, MoveKeeps
  <2>3. CASE ~ HeldBy(s, sched.client)
    BY <1>7, <1>t, <1>c, <1>i, <2>1, <2>3 DEF SchedUntrack
  <2> QED
    BY <2>2, <2>3
<1>8. CASE SchedUncount
  <2>1. sched'.pc = "push" /\ sched'.req = sched.req
    BY <1>s, <1>8 DEF SchedUncount, SchedStates
  <2>2. queue' = queue /\ jobs' = jobs /\ sched.pc = "uncount"
    BY <1>8 DEF SchedUncount
  <2> QED
    BY <1>c, <1>r, <2>1, <2>2, FewerKeeps DEF KeepsPlaces, FewerPlaces, InQueue, InTable, InHand
<1>9. CASE SchedRequeue
  <2>1. PICK s \in Requests : /\ sched.req = s /\ jobs' = jobs
                              /\ sched.pc = "push" /\ sched'.pc = "idle"
    BY <1>l, <1>i, <1>9 DEF SchedRequeue, SchedLocals, hubVars
  <2>2. queue' = [queue EXCEPT ![s] = sched.copy]
    BY <1>9, <2>1 DEF SchedRequeue, Push
  <2>3. \A r \in Requests \ {s} : FewerPlaces(r)
    BY <1>q, <1>r, <2>1, <2>2 DEF FewerPlaces, InQueue, InTable, InHand
  <2>4. InHand(s) /\ ~ InHand(s)' /\ (InTable(s)' => InTable(s))
    BY <2>1 DEF InHand, InTable
  <2>5. OnePlace(s) => OnePlace(s)'
    BY <1>r, <2>4 DEF OnePlace
  <2>6. ~ Nowhere(s)
    BY <2>4 DEF Nowhere
  <2> QED
    BY <1>c, <2>1, <2>3, <2>5, <2>6, MoveKeeps
<1> QED
  BY <1>c, <1>1, <1>2, <1>3, <1>4, <1>5, <1>6, <1>7, <1>8, <1>9 DEF SchedStep

(* A goroutine that takes s from the table and holds it has moved it. *)
LEMMA TakePlaces ==
  ASSUME TypeInv, NEW s \in Requests, NEW c \in Clients, NEW x,
         jobs[s] # None, Untrack(s), queue' = queue, sched' = sched,
         reader' = [reader EXCEPT ![c] = x], x.req = s,
         reader[c].pc \notin {"decr", "act"}
  PROVE  KeepsPlaces
<1>1. ~ InTable(s)' /\ \A r \in Requests : r # s => jobs'[r] = jobs[r]
  BY UntrackPlaces
<1>2. reader \in [Clients -> ReaderStates]
  BY DEF TypeInv, TypeOK
<1>3. /\ \A d \in Clients : d # c => reader'[d] = reader[d]
      /\ reader'[c] = x
  BY <1>2
<1>4. \A r \in Requests \ {s} : FewerPlaces(r)
  BY <1>1, <1>3 DEF FewerPlaces, InQueue, InTable, InHand, InReader
<1>5. InTable(s) /\ (InQueue(s)' => InQueue(s)) /\ (InHand(s)' => InHand(s))
  BY DEF InTable, InQueue, InHand
<1>6. \A d \in Clients : d # c => (InReader(s, d)' => InReader(s, d))
  BY <1>3 DEF InReader
<1>7. OnePlace(s) => OnePlace(s)'
  BY <1>1, <1>5, <1>6 DEF OnePlace
<1>8. ~ Nowhere(s)
  BY <1>5 DEF Nowhere
<1> QED
  BY <1>4, <1>7, <1>8, MoveKeeps

(* A goroutine that lets go of what it had, if anything. *)
LEMMA DropPlaces ==
  ASSUME TypeInv, NEW c \in Clients, NEW x, queue' = queue, sched' = sched,
         \A r \in Requests : InTable(r)' => InTable(r),
         reader' = [reader EXCEPT ![c] = x], x.pc \notin {"decr", "act"} \/ x.copy = None
  PROVE  KeepsPlaces
<1>1. reader \in [Clients -> ReaderStates]
  BY DEF TypeInv, TypeOK
<1>2. \A r \in Requests : FewerPlaces(r)
  BY <1>1 DEF FewerPlaces, InQueue, InHand, InReader
<1> QED
  BY <1>2, FewerKeeps DEF KeepsPlaces

(* Actors that neither push, track, take nor hold anything. *)
LEMMA QuietPlaces ==
  ASSUME queue' = queue, sched' = sched, reader' = reader,
         \A r \in Requests : InTable(r)' => InTable(r)
  PROVE  KeepsPlaces
BY SameActors, FewerKeeps DEF KeepsPlaces, InQueue

(* A connection's goroutine pushes the copy it holds, or lets it go; a sweep
   takes it from the table (hub.go:346-441). *)
LEMMA HubPlaces ==
  ASSUME TypeInv, OffInv, ReaderClean, NEW c \in Clients, HubStep(c)
  PROVE  KeepsPlaces /\ caller' = caller
<1>r. reader \in [Clients -> ReaderStates] /\ reader[c] \in ReaderStates
  BY DEF TypeInv, TypeOK
<1>q. queue \in [Requests -> Copies \cup {None}]
  BY DEF TypeInv, TypeOK
<1>c. caller' = caller /\ sched' = sched
  BY DEF HubStep, ReaderStep, Connect, MsgRegister, MsgDraining, MsgLocalBusy, Disconnect,
         ReaderDecr, ReaderAct, ReaderCancel, ReaderFree, RemoveClient, SnapshotOrphans,
         SweepOrphan, EndSweep
<1> SUFFICES KeepsPlaces
  BY <1>c
<1>p. ASSUME NEW p \in {"read", "remove", "snapshot"}, queue' = queue, jobs' = jobs,
             reader' = [reader EXCEPT ![c].pc = p]
      PROVE  KeepsPlaces
  <2> DEFINE x == [reader[c] EXCEPT !.pc = p]
  <2>1. x.pc = p /\ reader' = [reader EXCEPT ![c] = x]
    BY <1>r, <1>p DEF ReaderStates
  <2>2. \A r \in Requests : InTable(r)' => InTable(r)
    BY <1>p DEF InTable
  <2> HIDE DEF x
  <2> QED
    BY <1>c, <1>p, <2>1, <2>2, DropPlaces
<1>d. ASSUME NEW x, x.pc \notin {"decr", "act"}, reader' = [reader EXCEPT ![c] = x],
             queue' = queue, jobs' = jobs
      PROVE  KeepsPlaces
  <2>1. \A r \in Requests : InTable(r)' => InTable(r)
    BY <1>d DEF InTable
  <2> QED
    BY <1>c, <1>d, <2>1, DropPlaces
<1>1. CASE Connect(c)
  BY <1>1, <1>p DEF Connect
<1>2. CASE \/ \E n \in 1..MaxSlots[c] : MsgRegister(c, n)
           \/ MsgDraining(c) \/ \E n \in LocalLoads : MsgLocalBusy(c, n)
  <2>1. reader' = reader /\ queue' = queue /\ jobs' = jobs
    BY <1>2 DEF MsgRegister, MsgDraining, MsgLocalBusy
  <2>2. \A r \in Requests : InTable(r)' => InTable(r)
    BY <2>1 DEF InTable
  <2> QED
    BY <1>c, <2>1, <2>2, QuietPlaces
<1>3. CASE Disconnect(c)
  BY <1>3, <1>p DEF Disconnect
<1>4. CASE ReaderDecr(c)
  <2>1. /\ reader'[c].pc = "act" /\ reader[c].pc = "decr"
        /\ reader'[c].req = reader[c].req /\ reader'[c].copy = reader[c].copy
        /\ \A d \in Clients : d # c => reader'[d] = reader[d]
    BY <1>r, <1>4 DEF ReaderDecr, ReaderStates
  <2>2. queue' = queue /\ jobs' = jobs
    BY <1>4 DEF ReaderDecr
  <2>3. \A r \in Requests, d \in Clients : InReader(r, d)' => InReader(r, d)
    BY <2>1 DEF InReader
  <2>4. \A r \in Requests : FewerPlaces(r)
    BY <1>c, <2>2, <2>3 DEF FewerPlaces, InQueue, InTable, InHand
  <2> QED
    BY <1>c, <2>4, FewerKeeps DEF KeepsPlaces
<1>5. CASE ReaderAct(c)
  <2>1. PICK s \in Requests : reader[c].req = s /\ reader[c].pc = "act" /\ jobs' = jobs
    BY <1>5 DEF ReaderAct, TypeInv, ReaderLocals, hubVars
  <2>2. Rest(c) \in ReaderStates /\ Rest(c).pc \in {"read", "sweep"}
    BY RestType
  <2>3. CASE reader[c].copy # None
    <3>1. queue' = [queue EXCEPT ![s] = reader[c].copy] /\ reader' = [reader EXCEPT ![c] = Rest(c)]
      BY <1>5, <2>1, <2>3 DEF ReaderAct, Push
    <3>2. /\ \A d \in Clients : d # c => reader'[d] = reader[d]
          /\ reader'[c].pc \notin {"decr", "act"}
      BY <1>r, <2>2, <3>1
    <3>3. \A r \in Requests : /\ ~ InReader(r, c)'
                              /\ \A d \in Clients : d # c => (InReader(r, d)' => InReader(r, d))
      BY <3>2 DEF InReader
    <3>4. \A r \in Requests : (InTable(r)' => InTable(r)) /\ (InHand(r)' => InHand(r))
      BY <1>c, <2>1 DEF InTable, InHand
    <3>5. \A r \in Requests \ {s} : InQueue(r)' => InQueue(r)
      BY <1>q, <3>1 DEF InQueue
    <3>6. \A r \in Requests \ {s} : FewerPlaces(r)
      BY <3>3, <3>4, <3>5 DEF FewerPlaces
    <3>7. InReader(s, c)
      BY <2>1, <2>3 DEF InReader
    <3>8. OnePlace(s) => OnePlace(s)'
      BY <3>3, <3>4, <3>7 DEF OnePlace
    <3>9. ~ Nowhere(s)
      BY <3>7 DEF Nowhere
    <3> QED
      BY <1>c, <3>6, <3>8, <3>9, MoveKeeps
  <2>4. CASE reader[c].copy = None
    <3> DEFINE x == [Rest(c) EXCEPT !.pc = "cancel", !.req = s]
    <3>1. x.pc = "cancel"
      BY <2>2 DEF ReaderStates
    <3>2. /\ queue' = queue
          /\ reader' = [reader EXCEPT ![c] = Rest(c)] \/ reader' = [reader EXCEPT ![c] = x]
      BY <1>5, <2>1, <2>4 DEF ReaderAct
    <3> HIDE DEF x
    <3> QED
      BY <1>c, <1>d, <2>1, <2>2, <3>1, <3>2
  <2> QED
    BY <2>3, <2>4
<1>6. CASE ReaderCancel(c)
  <2>1. PICK s \in Requests : reader[c].req = s /\ queue' = queue
    BY <1>6 DEF ReaderCancel, TypeInv, ReaderLocals
  <2>2. CASE jobs[s] # None
    <3> DEFINE x == [reader[c] EXCEPT !.pc = "free", !.client = jobs[s].client]
    <3>1. Untrack(s) /\ reader' = [reader EXCEPT ![c] = x]
      BY <1>6, <2>1, <2>2 DEF ReaderCancel
    <3>2. x.pc = "free"
      BY <1>r DEF ReaderStates
    <3>3. \A r \in Requests : InTable(r)' => InTable(r)
      BY <3>1, UntrackPlaces DEF InTable
    <3> HIDE DEF x
    <3> QED
      BY <1>c, <2>1, <3>1, <3>2, <3>3, DropPlaces
  <2>3. CASE jobs[s] = None
    <3>1. jobs' = jobs /\ reader' = [reader EXCEPT ![c] = Rest(c)]
      BY <1>6, <2>1, <2>3 DEF ReaderCancel
    <3> QED
      BY <1>c, <1>d, <2>1, <3>1, RestType
  <2> QED
    BY <2>2, <2>3
<1>7. CASE ReaderFree(c)
  BY <1>7, <1>d, <1>c, RestType DEF ReaderFree
<1>8. CASE RemoveClient(c)
  BY <1>8, <1>p DEF RemoveClient
<1>9. CASE SnapshotOrphans(c)
  <2> DEFINE o == {r \in jobsByClient[c] : jobs[r] # None}
             x == [reader[c] EXCEPT !.pc = "sweep", !.orphans = o]
  <2>1. reader' = [reader EXCEPT ![c] = x] /\ queue' = queue /\ jobs' = jobs
    BY <1>9 DEF SnapshotOrphans, hubVars
  <2> HIDE DEF o
  <2>2. x.pc = "sweep"
    BY <1>r DEF ReaderStates
  <2> HIDE DEF x
  <2> QED
    BY <1>d, <1>c, <2>1, <2>2
<1>10. ASSUME NEW s \in Requests, SweepOrphan(c, s) PROVE KeepsPlaces
  <2> DEFINE left == [reader[c] EXCEPT !.orphans = @ \ {s}]
             copy == IF MayRetry(jobs[s]) THEN retryRequest(jobs[s].copy) ELSE None
             x == [left EXCEPT !.pc = "decr", !.req = s, !.from = "sweep", !.copy = copy]
  <2>1. left \in ReaderStates /\ left.pc = "sweep" /\ reader[c].pc = "sweep" /\ queue' = queue
    BY <1>r, <1>10 DEF SweepOrphan, ReaderStates
  <2>2. CASE HeldBy(s, c)
    <3>1. Untrack(s) /\ jobs[s] # None /\ reader' = [reader EXCEPT ![c] = x]
      BY <1>10, <2>2 DEF SweepOrphan, HeldBy
    <3> HIDE DEF left, copy
    <3>2. x.req = s
      BY <2>1 DEF ReaderStates
    <3> HIDE DEF x
    <3> QED
      BY <1>c, <2>1, <3>1, <3>2, TakePlaces
  <2>3. CASE ~ HeldBy(s, c)
    <3>1. jobs' = jobs /\ reader' = [reader EXCEPT ![c] = left]
      BY <1>10, <2>3 DEF SweepOrphan
    <3> HIDE DEF left
    <3> QED
      BY <1>d, <1>c, <2>1, <3>1
  <2> QED
    BY <2>2, <2>3
<1>11. CASE EndSweep(c)
  <2>1. IdleReader.pc = "off"
    BY DEF IdleReader
  <2> QED
    BY <1>11, <1>d, <1>c, <2>1 DEF EndSweep
<1> QED
  BY <1>c, <1>1, <1>2, <1>3, <1>4, <1>5, <1>6, <1>7, <1>8, <1>9, <1>10, <1>11
  DEF HubStep, ReaderStep

(* A message from a worker takes its job from the table, or changes nothing of
   where requests are (hub.go:581-729). *)
LEMMA WorkerPlaces ==
  ASSUME TypeInv, ReaderClean, NEW w \in work, WorkerMsg(w)
  PROVE  KeepsPlaces /\ caller' = caller
<1>w. w.client \in Clients /\ w.req \in Requests
  BY DEF TypeInv, TypeOK, WorkItems
<1>0. PICK c \in Clients, s \in Requests : c = w.client /\ s = w.req
  BY <1>w
<1>r. reader \in [Clients -> ReaderStates] /\ reader[c] \in ReaderStates
  BY DEF TypeInv, TypeOK
<1>j. jobs \in [Requests -> Jobs \cup {None}]
  BY DEF TypeInv, TypeOK
<1>c. caller' = caller /\ sched' = sched /\ queue' = queue /\ reader[c].pc = "read"
  BY <1>0 DEF WorkerMsg, MsgOutput, MsgDone, MsgError, MsgRelease, Reading
<1>n. reader[c].copy = None
  BY <1>c DEF ReaderClean
<1> SUFFICES KeepsPlaces
  BY <1>c
<1>q. ASSUME reader' = reader, jobs' = jobs PROVE KeepsPlaces
  <2>1. \A r \in Requests : InTable(r)' => InTable(r)
    BY <1>q DEF InTable
  <2> QED
    BY <1>c, <1>q, <2>1, QuietPlaces
<1>t. ASSUME NEW from, NEW copy, TakeJob(w, from, copy), HeldBy(s, c) PROVE KeepsPlaces
  <2> DEFINE x == [reader[c] EXCEPT !.pc = "decr", !.req = s, !.from = from, !.copy = copy,
                                    !.n = w.n]
  <2>1. Untrack(s) /\ reader' = [reader EXCEPT ![c] = x] /\ jobs[s] # None
    BY <1>0, <1>t DEF TakeJob, HeldBy
  <2>2. x.req = s
    BY <1>r DEF ReaderStates
  <2> HIDE DEF x
  <2> QED
    BY <1>c, <2>1, <2>2, TakePlaces
<1>1. CASE MsgOutput(w)
  <2> DEFINE x == [reader[c] EXCEPT !.pc = "cancel", !.req = s]
  <2>1. reader' = reader \/ reader' = [reader EXCEPT ![c] = x]
    BY <1>0, <1>1 DEF MsgOutput
  <2>2. x.pc = "cancel"
    BY <1>r DEF ReaderStates
  <2>3. jobs' = jobs \/ (jobs[s] # None /\ jobs' = [jobs EXCEPT ![s].produced = TRUE])
    BY <1>0, <1>1 DEF MsgOutput, HeldBy
  <2>4. \A r \in Requests : InTable(r)' => InTable(r)
    BY <1>j, <2>3 DEF InTable
  <2> HIDE DEF x
  <2> QED
    BY <1>c, <2>1, <2>2, <2>4, QuietPlaces, DropPlaces
<1>2. CASE MsgDone(w)
  <2>1. CASE HeldBy(s, c)
    BY <1>0, <1>t, <1>2, <2>1 DEF MsgDone
  <2>2. CASE ~ HeldBy(s, c)
    <3> DEFINE x == [reader[c] EXCEPT !.pc = "act", !.req = s, !.from = "done", !.n = w.n]
    <3>1. jobs' = jobs /\ reader' = [reader EXCEPT ![c] = x]
      BY <1>0, <1>2, <2>2 DEF MsgDone
    <3>2. x.copy = None
      BY <1>n, <1>r DEF ReaderStates
    <3>3. \A r \in Requests : InTable(r)' => InTable(r)
      BY <3>1 DEF InTable
    <3> HIDE DEF x
    <3> QED
      BY <1>c, <3>1, <3>2, <3>3, DropPlaces
  <2> QED
    BY <2>1, <2>2
<1>3. ASSUME NEW final \in BOOLEAN, MsgError(w, final) PROVE KeepsPlaces
  <2>1. \/ HeldBy(s, c) /\ \E copy : TakeJob(w, "error", copy)
        \/ reader' = reader /\ jobs' = jobs
    BY <1>0, <1>3 DEF MsgError
  <2> QED
    BY <1>c, <1>q, <1>t, <2>1
<1>4. ASSUME NEW reason \in {"busy", "shutdown"}, MsgRelease(w, reason) PROVE KeepsPlaces
  <2>1. \/ HeldBy(s, c) /\ \E copy : TakeJob(w, "release", copy)
        \/ reader' = reader /\ jobs' = jobs
    BY <1>0, <1>4 DEF MsgRelease
  <2> QED
    BY <1>c, <1>q, <1>t, <2>1
<1> QED
  BY <1>1, <1>2, <1>3, <1>4 DEF WorkerMsg

(* An expired lease only takes jobs from the table (hub.go:1661-1697). *)
LEMMA ReaperPlaces ==
  ASSUME TypeInv, ReaperStep
  PROVE  KeepsPlaces /\ caller' = caller
<1>1. caller' = caller /\ sched' = sched /\ queue' = queue /\ reader' = reader
  BY DEF ReaperStep, LeaseScan, LeaseFree
<1>2. \A r \in Requests : jobs'[r] = None \/ jobs'[r] = jobs[r]
  BY DEF ReaperStep, LeaseScan, LeaseFree
<1>3. \A r \in Requests : InTable(r)' => InTable(r)
  BY <1>2 DEF InTable
<1> QED
  BY <1>1, <1>3, QuietPlaces

(* A handler pushes a request that is nowhere yet, or a batch request again
   (handler.go:602-614, 917-940). *)
LEMMA HandlerPlaces ==
  ASSUME TypeInv, PlaceInv, NEW s \in Requests, Handler(s)
  PROVE  PlaceInv'
<1>c. caller \in [Requests -> CallerStates] /\ caller[s] \in CallerStates
  BY DEF TypeInv, TypeOK
<1>q. queue \in [Requests -> Copies \cup {None}]
  BY DEF TypeInv, TypeOK
<1>1. sched' = sched /\ reader' = reader
  BY DEF Handler, Enqueue, ReadChunk, GiveUp, BatchTimeout, CancelUntrack, CancelFree, AfterCancel
<1>2. \A r \in Requests : InTable(r)' => InTable(r)
  <2>1. jobs' = jobs \/ Untrack(s)
    BY DEF Handler, Enqueue, ReadChunk, GiveUp, BatchTimeout, CancelUntrack, CancelFree,
           AfterCancel, hubVars
  <2>2. CASE jobs' = jobs
    BY <2>2 DEF InTable
  <2>3. CASE Untrack(s)
    BY <2>3, UntrackPlaces DEF InTable
  <2> QED
    BY <2>1, <2>2, <2>3
<1>3. queue' = queue \/ \E copy : queue' = [queue EXCEPT ![s] = copy]
  BY DEF Handler, Enqueue, ReadChunk, GiveUp, BatchTimeout, CancelUntrack, CancelFree,
         AfterCancel, Push
<1>4. caller' = caller \/ \E x : caller' = [caller EXCEPT ![s] = x]
  BY DEF Handler, Enqueue, ReadChunk, GiveUp, BatchTimeout, CancelUntrack, CancelFree, AfterCancel
<1>5. \A r \in Requests \ {s} : FewerPlaces(r) /\ caller'[r] = caller[r]
  <2>1. \A r \in Requests \ {s} : InQueue(r)' => InQueue(r)
    BY <1>q, <1>3 DEF InQueue
  <2>2. \A r \in Requests \ {s} : caller'[r] = caller[r]
    BY <1>c, <1>4
  <2> QED
    BY <1>1, <1>2, <2>1, <2>2, SameActors
<1>6. ASSUME /\ caller'[s].pc # "new"
             /\ caller'[s].next = "retry" => IsBatch(s)'
             /\ ~ IsBatch(s)' => OnePlace(s)'
      PROVE  PlaceInv'
  BY <1>5, <1>6, FewerKeeps DEF PlaceInv, IsBatch
<1>7. ASSUME queue' = queue \/ queue' = [queue EXCEPT ![s] = None]
      PROVE  OnePlace(s) => OnePlace(s)'
  <2>1. InQueue(s)' => InQueue(s)
    BY <1>q, <1>7 DEF InQueue
  <2> QED
    BY <1>1, <1>2, <2>1, SameActors, FewerKeeps
<1>8. ASSUME NEW kind \in Kinds, Enqueue(s, kind) PROVE PlaceInv'
  <2>1. caller[s].pc = "new" /\ Nowhere(s) /\ ~ IsBatch(s) /\ caller[s].next # "retry"
    BY <1>8 DEF Enqueue, PlaceInv
  <2>2. \/ caller' = [caller EXCEPT ![s].pc = "done"]
        \/ caller' = [caller EXCEPT ![s].pc = "wait", ![s].kind = kind]
    BY <1>8 DEF Enqueue
  <2>3. caller'[s].pc # "new" /\ caller'[s].next = caller[s].next
    BY <1>c, <2>2 DEF CallerStates
  <2>4. ~ InTable(s)' /\ ~ InHand(s)' /\ \A c \in Clients : ~ InReader(s, c)'
    BY <1>1, <1>2, <2>1 DEF Nowhere, InHand, InReader
  <2>5. OnePlace(s)'
    BY <2>4 DEF OnePlace
  <2> QED
    BY <1>6, <2>1, <2>3, <2>5
<1>9. ASSUME NEW pc \in {"wait", "cancel", "free", "after", "done"}, NEW x,
             queue' = queue \/ queue' = [queue EXCEPT ![s] = None],
             caller[s].pc # "new",
             caller' = [caller EXCEPT ![s] = x],
             x.pc = pc, x.kind = caller[s].kind,
             x.next = "retry" => IsBatch(s)
      PROVE  PlaceInv'
  <2>1. caller'[s] = x
    BY <1>c, <1>9
  <2>2. IsBatch(s)' <=> IsBatch(s)
    BY <1>9, <2>1 DEF IsBatch
  <2>3. ~ IsBatch(s) => OnePlace(s)
    BY DEF PlaceInv
  <2> QED
    BY <1>6, <1>7, <1>9, <2>1, <2>2, <2>3
<1>10. caller[s].next = "retry" => IsBatch(s)
  BY DEF PlaceInv
<1>11. CASE ReadChunk(s)
  <2> DEFINE x == [caller[s] EXCEPT !.pc = "done"]
  <2>1. queue' = queue /\ caller[s].pc = "wait"
    BY <1>11 DEF ReadChunk
  <2>2. caller' = [caller EXCEPT ![s] = caller[s]] \/ caller' = [caller EXCEPT ![s] = x]
    BY <1>c, <1>11 DEF ReadChunk
  <2>3. x.pc = "done" /\ x.kind = caller[s].kind /\ x.next = caller[s].next
    BY <1>c DEF CallerStates
  <2> HIDE DEF x
  <2> QED
    BY <1>9, <1>10, <2>1, <2>2, <2>3
<1>12. CASE GiveUp(s)
  <2> DEFINE x == [caller[s] EXCEPT !.pc = "cancel", !.next = "end"]
  <2>1. /\ queue' = [queue EXCEPT ![s] = None] /\ caller[s].pc = "wait"
        /\ caller' = [caller EXCEPT ![s] = x]
    BY <1>12 DEF GiveUp
  <2>2. x.pc = "cancel" /\ x.kind = caller[s].kind /\ x.next = "end"
    BY <1>c DEF CallerStates
  <2> HIDE DEF x
  <2> QED
    BY <1>9, <2>1, <2>2
<1>13. CASE BatchTimeout(s)
  <2> DEFINE x == [caller[s] EXCEPT !.pc = "cancel", !.next = "retry", !.attempts = @ + 1]
  <2>1. /\ queue' = [queue EXCEPT ![s] = None] /\ caller[s].pc = "wait" /\ IsBatch(s)
        /\ caller' = [caller EXCEPT ![s] = x]
    BY <1>13 DEF BatchTimeout
  <2>2. x.pc = "cancel" /\ x.kind = caller[s].kind
    BY <1>c DEF CallerStates
  <2> HIDE DEF x
  <2> QED
    BY <1>9, <2>1, <2>2
<1>14. CASE CancelUntrack(s)
  <2> DEFINE x == [caller[s] EXCEPT !.pc = "free", !.client = jobs[s].client]
             y == [caller[s] EXCEPT !.pc = "after"]
  <2>1. /\ queue' = queue /\ caller[s].pc = "cancel"
        /\ caller' = [caller EXCEPT ![s] = x] \/ caller' = [caller EXCEPT ![s] = y]
    BY <1>14 DEF CancelUntrack
  <2>2. /\ x.pc = "free" /\ x.kind = caller[s].kind /\ x.next = caller[s].next
        /\ y.pc = "after" /\ y.kind = caller[s].kind /\ y.next = caller[s].next
    BY <1>c DEF CallerStates
  <2> HIDE DEF x, y
  <2> QED
    BY <1>9, <1>10, <2>1, <2>2
<1>15. CASE CancelFree(s)
  <2> DEFINE x == [caller[s] EXCEPT !.pc = "after", !.client = None]
  <2>1. /\ queue' = queue /\ caller[s].pc = "free"
        /\ caller' = [caller EXCEPT ![s] = x]
    BY <1>15 DEF CancelFree
  <2>2. x.pc = "after" /\ x.kind = caller[s].kind /\ x.next = caller[s].next
    BY <1>c DEF CallerStates
  <2> HIDE DEF x
  <2> QED
    BY <1>9, <1>10, <2>1, <2>2
<1>16. CASE AfterCancel(s)
  <2>1. CASE caller[s].next # "retry"
    <3> DEFINE x == [caller[s] EXCEPT !.pc = "done"]
    <3>1. /\ queue' = queue /\ caller[s].pc = "after"
          /\ caller' = [caller EXCEPT ![s] = x]
      BY <1>16, <2>1 DEF AfterCancel
    <3>2. x.pc = "done" /\ x.kind = caller[s].kind /\ x.next = caller[s].next
      BY <1>c DEF CallerStates
    <3> HIDE DEF x
    <3> QED
      BY <1>9, <1>10, <3>1, <3>2
  <2>2. CASE caller[s].next = "retry"
    <3>1. caller' = [caller EXCEPT ![s].pc = "wait", ![s].next = "answer"]
      BY <1>16, <2>2 DEF AfterCancel
    <3>2. caller'[s].pc = "wait" /\ caller'[s].next = "answer" /\ caller'[s].kind = caller[s].kind
      BY <1>c, <3>1 DEF CallerStates
    <3>3. IsBatch(s)'
      BY <1>10, <2>2, <3>2 DEF IsBatch
    <3> QED
      BY <1>6, <3>2, <3>3
  <2> QED
    BY <2>1, <2>2
<1> QED
  BY <1>8, <1>11, <1>12, <1>13, <1>14, <1>15, <1>16 DEF Handler

(* What a request's places are, and what the actors hold, for good. *)
CopyInv == TypeInv /\ OffInv /\ ReaderClean /\ PlaceInv

(* No request has a copy when the router starts. *)
LEMMA InitCopyInv == Init => CopyInv
<1> SUFFICES ASSUME Init PROVE OffInv /\ ReaderClean /\ PlaceInv
  BY InitTypeInv DEF CopyInv
<1>1. \A c \in Clients : reader[c] = IdleReader
  BY DEF Init
<1>2. OffInv /\ ReaderClean
  BY <1>1 DEF OffInv, ReaderClean, IdleReader
<1>3. \A r \in Requests : Nowhere(r)
  BY <1>1 DEF Init, Nowhere, InQueue, InTable, InHand, InReader, IdleSched, IdleReader
<1>4. \A r \in Requests : ~ IsBatch(r) /\ caller[r].next # "retry"
  BY DEF Init, IsBatch
<1>5. PlaceInv
  BY <1>3, <1>4 DEF PlaceInv, Nowhere, OnePlace
<1> QED
  BY <1>2, <1>5

(* No step of the router or of a worker makes a second copy. *)
LEMMA NextCopyInv == CopyInv /\ [Next]_vars => CopyInv'
<1> SUFFICES ASSUME CopyInv, [Next]_vars PROVE CopyInv'
  OBVIOUS
<1>0. TypeInv /\ OffInv /\ ReaderClean /\ PlaceInv
  BY DEF CopyInv
<1>1. TypeInv'
  BY <1>0, NextTypeInv
<1>2. CASE UNCHANGED vars
  <2>1. /\ queue' = queue /\ sched' = sched /\ reader' = reader /\ jobs' = jobs
        /\ caller' = caller /\ conn' = conn
    BY <1>2 DEF vars, hubVars
  <2> QED
    BY <1>0, <1>1, <2>1 DEF CopyInv, OffInv, ReaderClean, PlaceInv, OnePlace, Nowhere, InQueue,
                            InTable, InHand, InReader, IsBatch
<1>3. CASE Next
  <2>1. OffInv' /\ ReaderClean'
    BY <1>0, <1>3, NextOffInv, NextReaderClean
  <2>2. ASSUME KeepsPlaces, caller' = caller PROVE PlaceInv'
    BY <1>0, <2>2 DEF PlaceInv, KeepsPlaces, IsBatch
  <2>3. PlaceInv'
    BY <1>0, <1>3, <2>2, HandlerPlaces, SchedPlaces, HubPlaces, WorkerPlaces, ReaperPlaces DEF Next
  <2> QED
    BY <1>1, <2>1, <2>3 DEF CopyInv
<1> QED
  BY <1>2, <1>3

(* However a failed send, a disconnect sweep, a hand-back, an error, a lease and
   a cancel race for a streaming request, it is never in two places, so no
   second copy of it can run beside the first (scheduler.go:470-481,
   hub.go:1268-1282). *)
THEOREM DispatchOneCopy == Spec => []OneCopy
<1>1. CopyInv => OneCopy
  <2> SUFFICES ASSUME CopyInv, NEW r \in Requests, ~ IsBatch(r)
               PROVE  Cardinality(Places(r)) <= 1
    BY DEF OneCopy
  <2>1. OnePlace(r)
    BY DEF CopyInv, PlaceInv
  <2>2. \A p, q \in Places(r) : p = q
    BY <2>1 DEF OnePlace, Places, InQueue, InTable, InReader, Returning
  <2>3. CASE Places(r) = {}
    BY <2>3, FS_EmptySet
  <2>4. CASE Places(r) # {}
    <3>1. PICK p : Places(r) = {p}
      BY <2>2, <2>4
    <3>2. Cardinality({p}) = 1
      BY FS_Singleton, Zenon
    <3> QED
      BY <3>1, <3>2
  <2> QED
    BY <2>3, <2>4
<1> QED
  BY <1>1, InitCopyInv, NextCopyInv, PTL DEF Spec
-----------------------------------------------------------------------------
(* The two job tables and the cleanup after a connection *)

(* The index by client knows every job, and no streaming request that is not one. *)
IndexInv ==
  \A c \in Clients, r \in Requests :
    /\ HeldBy(r, c) => r \in jobsByClient[c]
    /\ r \in jobsByClient[c] /\ ~ IsBatch(r) => HeldBy(r, c)

(* The goroutine of c has made its list of orphans and works through it. *)
Sweeping(c) == \/ reader[c].pc = "sweep"
               \/ reader[c].pc \in {"decr", "act"} /\ reader[c].from = "sweep"

(* A sweep comes after RemoveClient and has every job that is left on its client
   in its list; once it has ended the index of the client is empty. *)
CleanupOK(c) ==
  /\ reader[c].pc = "snapshot" \/ Sweeping(c) => conn[c] = "gone"
  /\ Sweeping(c) => \A r \in Requests : HeldBy(r, c) => r \in reader[c].orphans
  /\ conn[c] = "gone" /\ reader[c].pc = "off" => jobsByClient[c] = {}

CleanupInv == \A c \in Clients : CleanupOK(c)

(* Jobs leave both tables together, and nothing enters either. *)
Shrinks ==
  \A c \in Clients, r \in Requests :
    /\ HeldBy(r, c)' => HeldBy(r, c)
    /\ r \in jobsByClient'[c] => r \in jobsByClient[c]
    /\ HeldBy(r, c) /\ ~ HeldBy(r, c)' => r \notin jobsByClient'[c]
    /\ HeldBy(r, c)' /\ r \in jobsByClient[c] => r \in jobsByClient'[c]

(* A step that leaves both job tables alone shrinks them, trivially. *)
LEMMA SameShrinks == ASSUME jobs' = jobs, jobsByClient' = jobsByClient PROVE Shrinks
BY DEF Shrinks, HeldBy

(* Taking a record takes its index entry with it (hub.go:1268-1282). *)
LEMMA UntrackShrinks ==
  ASSUME TypeInv, NEW s \in Requests, jobs[s] # None, Untrack(s)
  PROVE  Shrinks
<1>1. jobs \in [Requests -> Jobs \cup {None}] /\ jobsByClient \in [Clients -> SUBSET Requests]
  BY DEF TypeInv, TypeOK
<1>2. PICK d \in Clients : jobs[s].client = d
  BY <1>1 DEF Jobs
<1>3. \A r \in Requests : jobs'[r] = IF r = s THEN None ELSE jobs[r]
  BY <1>1 DEF Untrack
<1>4. \A c \in Clients : jobsByClient'[c] = IF c = d THEN jobsByClient[d] \ {s} ELSE jobsByClient[c]
  BY <1>1, <1>2 DEF Untrack
<1> QED
  BY <1>2, <1>3, <1>4 DEF Shrinks, HeldBy

(* Every step but TrackJob only takes jobs away. *)
LEMMA ShrinkOrTrack ==
  ASSUME TypeInv, CleanupInv, Next
  PROVE  Shrinks \/ TrackJob
<1>j. jobs \in [Requests -> Jobs \cup {None}] /\ jobsByClient \in [Clients -> SUBSET Requests]
  BY DEF TypeInv, TypeOK
<1>1. ASSUME NEW s \in Requests, Handler(s) PROVE Shrinks
  <2>1. \/ jobs' = jobs /\ jobsByClient' = jobsByClient
        \/ jobs[s] # None /\ Untrack(s)
    BY <1>1 DEF Handler, Enqueue, ReadChunk, GiveUp, BatchTimeout, CancelUntrack, CancelFree,
                AfterCancel, hubVars
  <2> QED
    BY <2>1, SameShrinks, UntrackShrinks
<1>2. CASE SchedStep
  <2>1. CASE SchedUntrack
    <3>1. HeldBy(sched.req, sched.client) => jobs[sched.req] # None /\ sched.req \in Requests
      BY <2>1 DEF HeldBy, SchedUntrack, TypeInv, SchedLocals
    <3> QED
      BY <2>1, <3>1, SameShrinks, UntrackShrinks DEF SchedUntrack
  <2>2. CASE ~ TrackJob /\ ~ SchedUntrack
    <3>1. jobs' = jobs /\ jobsByClient' = jobsByClient
      BY <1>2, <2>2 DEF SchedStep, DrainOnSignal, DrainOnTick, Pick, PopAndCount, SendJob,
                        SendFails, SchedUncount, SchedRequeue, hubVars
    <3> QED
      BY <3>1, SameShrinks
  <2> QED
    BY <2>1, <2>2
<1>3. ASSUME NEW c \in Clients, HubStep(c) PROVE Shrinks
  <2>1. CASE ReaderCancel(c)
    <3>1. reader[c].req \in Requests
      BY <2>1 DEF ReaderCancel, TypeInv, ReaderLocals
    <3> QED
      BY <2>1, <3>1, SameShrinks, UntrackShrinks DEF ReaderCancel
  <2>2. ASSUME NEW s \in Requests, SweepOrphan(c, s) PROVE Shrinks
    BY <2>2, SameShrinks, UntrackShrinks DEF SweepOrphan, HeldBy
  <2>3. CASE EndSweep(c)
    <3>1. \A r \in Requests : ~ HeldBy(r, c)
      BY <2>3 DEF EndSweep, CleanupInv, CleanupOK, Sweeping
    <3>2. jobs' = jobs /\ jobsByClient' = [jobsByClient EXCEPT ![c] = {}]
      BY <2>3 DEF EndSweep
    <3> QED
      BY <1>j, <3>1, <3>2 DEF Shrinks, HeldBy
  <2>4. CASE ~ ReaderCancel(c) /\ ~ EndSweep(c) /\ ~ \E s \in Requests : SweepOrphan(c, s)
    <3>1. jobs' = jobs /\ jobsByClient' = jobsByClient
      BY <1>3, <2>4 DEF HubStep, ReaderStep, Connect, MsgRegister, MsgDraining, MsgLocalBusy,
                        Disconnect, ReaderDecr, ReaderAct, ReaderFree, RemoveClient,
                        SnapshotOrphans, hubVars
    <3> QED
      BY <3>1, SameShrinks
  <2> QED
    BY <2>1, <2>2, <2>3, <2>4
<1>4. ASSUME NEW w \in work, WorkerMsg(w) PROVE Shrinks
  <2>1. w.req \in Requests
    BY DEF TypeInv, TypeOK, WorkItems
  <2>2. CASE MsgOutput(w)
    <3>1. /\ jobsByClient' = jobsByClient
          /\ \/ jobs' = jobs
             \/ jobs[w.req] # None /\ jobs' = [jobs EXCEPT ![w.req].produced = TRUE]
      BY <2>2 DEF MsgOutput, HeldBy
    <3>2. \A r \in Requests, c \in Clients : HeldBy(r, c)' <=> HeldBy(r, c)
      <4>1. CASE jobs' = jobs
        BY <4>1 DEF HeldBy
      <4>2. CASE jobs[w.req] # None /\ jobs' = [jobs EXCEPT ![w.req].produced = TRUE]
        <5>1. jobs[w.req] \in Jobs
          BY <1>j, <2>1, <4>2
        <5>2. jobs'[w.req] \in Jobs /\ jobs'[w.req].client = jobs[w.req].client
          BY <1>j, <2>1, <4>2, <5>1 DEF Jobs
        <5>3. \A r \in Requests : r # w.req => jobs'[r] = jobs[r]
          BY <1>j, <4>2
        <5> QED
          BY <2>1, <4>2, <5>2, <5>3, NoneAssumption DEF HeldBy
      <4> QED
        BY <3>1, <4>1, <4>2
    <3> QED
      BY <3>1, <3>2 DEF Shrinks
  <2>3. CASE ~ MsgOutput(w)
    <3>1. \/ jobs' = jobs /\ jobsByClient' = jobsByClient
          \/ jobs[w.req] # None /\ Untrack(w.req)
      BY <1>4, <2>3 DEF WorkerMsg, MsgDone, MsgError, MsgRelease, TakeJob, HeldBy
    <3> QED
      BY <2>1, <3>1, SameShrinks, UntrackShrinks
  <2> QED
    BY <2>2, <2>3
<1>5. ASSUME NEW e \in SUBSET Requests, LeaseScan(e) PROVE Shrinks
  <2>1. \A r \in Requests : jobs'[r] = IF r \in e THEN None ELSE jobs[r]
    BY <1>5 DEF LeaseScan
  <2>2. \A c \in Clients : jobsByClient'[c] = jobsByClient[c] \ {r \in e : HeldBy(r, c)}
    BY <1>5 DEF LeaseScan
  <2> QED
    BY <2>1, <2>2 DEF Shrinks, HeldBy
<1>6. CASE \E e \in reaper : LeaseFree(e)
  BY <1>6, SameShrinks DEF LeaseFree
<1> QED
  BY <1>1, <1>2, <1>3, <1>4, <1>5, <1>6 DEF Next, ReaperStep

(* A handler chooses the kind of its answer once (handler.go:602-614). *)
LEMMA KindStays ==
  ASSUME TypeInv, PlaceInv, Next, NEW r \in Requests, IsBatch(r)
  PROVE  IsBatch(r)'
<1>c. caller \in [Requests -> CallerStates]
  BY DEF TypeInv, TypeOK
<1>1. CASE caller' = caller
  BY <1>1 DEF IsBatch
<1>2. ASSUME NEW s \in Requests, Handler(s) PROVE IsBatch(r)'
  <2>1. CASE \E kind \in Kinds : Enqueue(s, kind)
    <3>1. caller[s].pc = "new" /\ \E x : caller' = [caller EXCEPT ![s] = x]
      BY <2>1 DEF Enqueue
    <3>2. s # r
      BY <3>1 DEF PlaceInv
    <3> QED
      BY <1>c, <3>1, <3>2 DEF IsBatch
  <2>2. CASE ~ \E kind \in Kinds : Enqueue(s, kind)
    <3>1. caller'[r].kind = caller[r].kind
      BY <1>2, <1>c, <2>2 DEF Handler, ReadChunk, GiveUp, BatchTimeout, CancelUntrack, CancelFree,
                              AfterCancel, CallerStates
    <3> QED
      BY <3>1 DEF IsBatch
  <2> QED
    BY <2>1, <2>2
<1>3. CASE SchedStep
  BY <1>1, <1>3, SchedPlaces
<1>4. CASE ReaperStep
  BY <1>1, <1>4, ReaperPlaces
<1>5. ASSUME NEW c \in Clients, HubStep(c) PROVE IsBatch(r)'
  BY <1>1, <1>5 DEF HubStep, ReaderStep, Connect, MsgRegister, MsgDraining, MsgLocalBusy,
                    Disconnect, ReaderDecr, ReaderAct, ReaderCancel, ReaderFree, RemoveClient,
                    SnapshotOrphans, SweepOrphan, EndSweep
<1>6. ASSUME NEW w \in work, WorkerMsg(w) PROVE IsBatch(r)'
  BY <1>1, <1>6 DEF WorkerMsg, MsgOutput, MsgDone, MsgError, MsgRelease
<1> QED
  BY <1>2, <1>3, <1>4, <1>5, <1>6 DEF Next

(* One job s and its index entry come to d, which is still in the registry. *)
Adds(s, d) ==
  \A c \in Clients, r \in Requests :
    /\ HeldBy(r, c)' => HeldBy(r, c) \/ (r = s /\ c = d /\ Connected(d))
    /\ HeldBy(r, c) /\ r # s => HeldBy(r, c)'
    /\ r \in jobsByClient[c] => r \in jobsByClient'[c]
    /\ r \in jobsByClient'[c] => \/ r \in jobsByClient[c]
                                 \/ r = s /\ c = d /\ Connected(d) /\ HeldBy(r, c)'
    /\ HeldBy(r, c)' /\ ~ HeldBy(r, c) => r \in jobsByClient'[c]

(* TrackJob tracks the request in the scheduler's hands (hub.go:1230-1259). *)
LEMMA TrackAdds ==
  ASSUME TypeInv, TrackJob
  PROVE  \E s \in Requests, d \in Clients : InHand(s) /\ Adds(s, d)
<1>j. jobs \in [Requests -> Jobs \cup {None}] /\ jobsByClient \in [Clients -> SUBSET Requests]
  BY DEF TypeInv, TypeOK
<1>1. PICK s \in Requests, d \in Clients :
        sched.req = s /\ sched.client = d /\ sched.pc = "track" /\ sched.copy \in Copies
  BY DEF TrackJob, TypeInv, SchedLocals
<1>2. InHand(s)
  BY <1>1 DEF InHand
<1>3. CASE ~ Connected(d)
  <2>1. jobs' = jobs /\ jobsByClient' = jobsByClient
    BY <1>1, <1>3 DEF TrackJob
  <2> QED
    BY <1>2, <2>1 DEF Adds, HeldBy
<1>4. CASE Connected(d)
  <2> DEFINE job == [client |-> d, copy |-> sched.copy, produced |-> FALSE]
  <2>1. job \in Jobs /\ job.client = d
    BY <1>1 DEF Jobs
  <2>2. job # None
    BY <2>1, NoneAssumption
  <2>3. jobs' = [jobs EXCEPT ![s] = job] /\ jobsByClient' = [jobsByClient EXCEPT ![d] = @ \cup {s}]
    BY <1>1, <1>4 DEF TrackJob
  <2>4. \A r \in Requests : jobs'[r] = IF r = s THEN job ELSE jobs[r]
    BY <1>j, <2>3
  <2>5. \A c \in Clients : jobsByClient'[c] = IF c = d THEN jobsByClient[d] \cup {s}
                                              ELSE jobsByClient[c]
    BY <1>j, <2>3
  <2> HIDE DEF job
  <2>6. \A r \in Requests, c \in Clients :
          HeldBy(r, c)' <=> IF r = s THEN c = d ELSE HeldBy(r, c)
    BY <2>1, <2>2, <2>4 DEF HeldBy
  <2> QED
    BY <1>2, <1>4, <2>5, <2>6 DEF Adds
<1> QED
  BY <1>3, <1>4

(* The tables agree after every step. *)
LEMMA NextIndexInv ==
  ASSUME CopyInv, CleanupInv, IndexInv, Next
  PROVE  IndexInv'
<1>0. TypeInv /\ PlaceInv
  BY DEF CopyInv
<1>k. \A r \in Requests : IsBatch(r) => IsBatch(r)'
  BY <1>0, KindStays
<1>1. CASE Shrinks
  BY <1>k, <1>1 DEF IndexInv, Shrinks
<1>2. CASE TrackJob
  <2>1. PICK s \in Requests, d \in Clients : InHand(s) /\ Adds(s, d)
    BY <1>0, <1>2, TrackAdds
  <2>2. ~ IsBatch(s) => \A c \in Clients : ~ HeldBy(s, c)
    BY <1>0, <2>1 DEF PlaceInv, OnePlace, InTable, HeldBy
  <2>3. ~ IsBatch(s) => \A c \in Clients : s \notin jobsByClient[c]
    BY <2>2 DEF IndexInv
  <2> QED
    BY <1>k, <2>1, <2>3 DEF IndexInv, Adds
<1> QED
  BY <1>0, <1>1, <1>2, ShrinkOrTrack

(* A step of c's own goroutine, or of nobody's, while the tables shrink. *)
LEMMA OthersCleanup ==
  ASSUME TypeInv, TypeInv', CleanupInv, Shrinks, NEW c \in Clients, CleanupOK(c)',
         \A d \in Clients : d # c => conn'[d] = conn[d] /\ reader'[d] = reader[d]
  PROVE  CleanupInv'
<1>j. jobsByClient \in [Clients -> SUBSET Requests]
  BY DEF TypeInv, TypeOK
<1>1. ASSUME NEW d \in Clients, d # c PROVE CleanupOK(d)'
  <2>1. jobsByClient' \in [Clients -> SUBSET Requests]
    BY DEF TypeInv, TypeOK
  <2>2. jobsByClient[d] = {} => jobsByClient'[d] = {}
    BY <1>j, <2>1 DEF Shrinks
  <2> QED
    BY <1>1, <2>2 DEF CleanupInv, CleanupOK, Sweeping, Shrinks
<1> QED
  BY <1>1 DEF CleanupInv

(* The goroutine of c is in no part of its cleanup where something is due. *)
LEMMA BusyCleanup ==
  ASSUME TypeInv, TypeInv', CleanupInv, Shrinks, NEW c \in Clients, NEW x,
         reader' = [reader EXCEPT ![c] = x],
         \A d \in Clients : d # c => conn'[d] = conn[d],
         \/ x.pc \in {"read", "cancel", "free", "remove"}
         \/ x.pc \in {"decr", "act"} /\ x.from # "sweep"
  PROVE  CleanupInv'
<1>r. reader \in [Clients -> ReaderStates]
  BY DEF TypeInv, TypeOK
<1>1. reader'[c] = x /\ \A d \in Clients : d # c => reader'[d] = reader[d]
  BY <1>r
<1>2. CleanupOK(c)'
  BY <1>1 DEF CleanupOK, Sweeping
<1> QED
  BY <1>1, <1>2, OthersCleanup

(* The goroutine of c goes on with its sweep. *)
LEMMA SweepCleanup ==
  ASSUME TypeInv, TypeInv', CleanupInv, Shrinks, NEW c \in Clients, NEW x,
         reader' = [reader EXCEPT ![c] = x], conn' = conn, conn[c] = "gone",
         x.pc \in {"sweep", "decr", "act"},
         \A r \in Requests : HeldBy(r, c)' => r \in x.orphans
  PROVE  CleanupInv'
<1>r. reader \in [Clients -> ReaderStates]
  BY DEF TypeInv, TypeOK
<1>1. reader'[c] = x /\ \A d \in Clients : d # c => reader'[d] = reader[d]
  BY <1>r
<1>2. CleanupOK(c)'
  BY <1>1 DEF CleanupOK, Sweeping
<1> QED
  BY <1>1, <1>2, OthersCleanup

(* The sweep starts after the registry has lost the client, misses no job, and
   nothing is tracked on the client afterwards (hub.go:383-441). *)
LEMMA NextCleanupInv ==
  ASSUME CopyInv, TypeInv', CleanupInv, IndexInv, Next
  PROVE  CleanupInv'
<1>0. TypeInv /\ ReaderClean /\ OffInv
  BY DEF CopyInv
<1>r. reader \in [Clients -> ReaderStates]
  BY <1>0 DEF TypeInv, TypeOK
<1>n. conn \in [Clients -> ConnStates]
  BY <1>0 DEF TypeInv, TypeOK
<1>1. CASE TrackJob
  <2>1. PICK s \in Requests, d \in Clients : InHand(s) /\ Adds(s, d)
    BY <1>0, <1>1, TrackAdds
  <2>2. reader' = reader /\ conn' = conn
    BY <1>1 DEF TrackJob
  <2>3. ASSUME NEW c \in Clients PROVE CleanupOK(c)'
    <3>1. CASE conn[c] # "gone"
      BY <2>2, <3>1 DEF CleanupInv, CleanupOK, Sweeping
    <3>2. CASE conn[c] = "gone"
      <4>1. ~ Connected(c)
        BY <3>2 DEF Connected
      <4>2. \A r \in Requests : /\ HeldBy(r, c)' => HeldBy(r, c)
                                /\ r \in jobsByClient'[c] => r \in jobsByClient[c]
        BY <2>1, <4>1 DEF Adds
      <4>3. jobsByClient[c] = {} => jobsByClient'[c] = {}
        BY <4>2 DEF TypeInv, TypeOK
      <4> QED
        BY <2>2, <4>2, <4>3 DEF CleanupInv, CleanupOK, Sweeping
    <3> QED
      BY <3>1, <3>2
  <2> QED
    BY <2>3 DEF CleanupInv
<1>2. CASE ~ TrackJob
  <2>s. Shrinks
    BY <1>0, <1>2, ShrinkOrTrack
  <2>u. ASSUME NEW c \in Clients, reader' = reader,
               \A d \in Clients : conn'[d] # conn[d] => reader[d].pc = "read"
        PROVE  CleanupOK(c)'
    <3>1. jobsByClient[c] = {} => jobsByClient'[c] = {}
      BY <2>s DEF Shrinks, TypeInv, TypeOK
    <3> QED
      BY <2>s, <2>u, <3>1 DEF CleanupInv, CleanupOK, Sweeping, Shrinks
  <2>1. ASSUME NEW s \in Requests, Handler(s) PROVE CleanupInv'
    <3>1. reader' = reader /\ conn' = conn
      BY <2>1 DEF Handler, Enqueue, ReadChunk, GiveUp, BatchTimeout, CancelUntrack, CancelFree,
                  AfterCancel, hubVars
    <3> QED
      BY <2>u, <3>1 DEF CleanupInv
  <2>2. CASE SchedStep \/ ReaperStep
    <3>1. reader' = reader /\ conn' = conn
      BY <1>2, <2>2 DEF SchedStep, DrainOnSignal, DrainOnTick, Pick, PopAndCount, SendJob,
                        SendFails, SchedUntrack, SchedUncount, SchedRequeue, ReaperStep,
                        LeaseScan, LeaseFree, hubVars
    <3> QED
      BY <2>u, <3>1 DEF CleanupInv
  <2>3. ASSUME NEW w \in work, WorkerMsg(w) PROVE CleanupInv'
    <3>w. w.client \in Clients
      BY <1>0 DEF TypeInv, TypeOK, WorkItems
    <3>0. PICK c \in Clients : c = w.client
      BY <3>w
    <3>c. conn' = conn /\ reader[c] \in ReaderStates
      BY <1>r, <2>3, <3>0 DEF WorkerMsg, MsgOutput, MsgDone, MsgError, MsgRelease
    <3>q. CASE reader' = reader
      BY <2>u, <3>c, <3>q DEF CleanupInv
    <3>t. ASSUME NEW from \in {"done", "error", "release"}, NEW copy, TakeJob(w, from, copy)
          PROVE  CleanupInv'
      <4> DEFINE x == [reader[c] EXCEPT !.pc = "decr", !.req = w.req, !.from = from,
                                        !.copy = copy, !.n = w.n]
      <4>1. reader' = [reader EXCEPT ![c] = x]
        BY <3>0, <3>t DEF TakeJob
      <4>2. x.pc = "decr" /\ x.from # "sweep"
        BY <3>c DEF ReaderStates
      <4> HIDE DEF x
      <4> QED
        BY <1>0, <2>s, <3>c, <4>1, <4>2, BusyCleanup
    <3>1. CASE MsgOutput(w)
      <4> DEFINE x == [reader[c] EXCEPT !.pc = "cancel", !.req = w.req]
      <4>1. reader' = reader \/ reader' = [reader EXCEPT ![c] = x]
        BY <3>0, <3>1 DEF MsgOutput
      <4>2. x.pc = "cancel"
        BY <3>c DEF ReaderStates
      <4> HIDE DEF x
      <4> QED
        BY <1>0, <2>s, <3>c, <3>q, <4>1, <4>2, BusyCleanup
    <3>2. CASE MsgDone(w)
      <4> DEFINE x == [reader[c] EXCEPT !.pc = "act", !.req = w.req, !.from = "done", !.n = w.n]
      <4>1. TakeJob(w, "done", None) \/ reader' = [reader EXCEPT ![c] = x]
        BY <3>0, <3>2 DEF MsgDone
      <4>2. x.pc = "act" /\ x.from = "done"
        BY <3>c DEF ReaderStates
      <4> HIDE DEF x
      <4> QED
        BY <1>0, <2>s, <3>c, <3>t, <4>1, <4>2, BusyCleanup
    <3>3. CASE \E final \in BOOLEAN : MsgError(w, final)
      <4>1. reader' = reader \/ \E copy : TakeJob(w, "error", copy)
        BY <3>3 DEF MsgError
      <4> QED
        BY <3>q, <3>t, <4>1
    <3>4. CASE \E reason \in {"busy", "shutdown"} : MsgRelease(w, reason)
      <4>1. reader' = reader \/ \E copy : TakeJob(w, "release", copy)
        BY <3>4 DEF MsgRelease
      <4> QED
        BY <3>q, <3>t, <4>1
    <3> QED
      BY <2>3, <3>1, <3>2, <3>3, <3>4 DEF WorkerMsg
  <2>4. ASSUME NEW c \in Clients, HubStep(c) PROVE CleanupInv'
    <3>r. reader[c] \in ReaderStates
      BY <1>r
    <3>1. CASE Connect(c) \/ Disconnect(c)
      <4>1. PICK p \in {"read", "remove"} : reader' = [reader EXCEPT ![c].pc = p]
        BY <3>1 DEF Connect, Disconnect
      <4>2. \A d \in Clients : d # c => conn'[d] = conn[d]
        BY <1>n, <3>1 DEF Connect, Disconnect
      <4> DEFINE x == [reader[c] EXCEPT !.pc = p]
      <4>3. x.pc = p /\ reader' = [reader EXCEPT ![c] = x]
        BY <3>r, <4>1 DEF ReaderStates
      <4> HIDE DEF x
      <4> QED
        BY <1>0, <2>s, <4>1, <4>2, <4>3, BusyCleanup
    <3>2. CASE \/ \E n \in 1..MaxSlots[c] : MsgRegister(c, n)
               \/ MsgDraining(c) \/ \E n \in LocalLoads : MsgLocalBusy(c, n)
      <4>1. /\ reader' = reader /\ reader[c].pc = "read"
            /\ conn' = conn \/ conn' = [conn EXCEPT ![c] = "up"]
        BY <3>2 DEF MsgRegister, MsgDraining, MsgLocalBusy, Reading
      <4>2. \A d \in Clients : conn'[d] # conn[d] => reader[d].pc = "read"
        BY <1>n, <4>1
      <4> QED
        BY <2>u, <4>1, <4>2 DEF CleanupInv
    <3>3. CASE ReaderDecr(c)
      <4> DEFINE x == [reader[c] EXCEPT !.pc = "act"]
      <4>1. reader[c].pc = "decr" /\ conn' = conn /\ reader' = [reader EXCEPT ![c] = x]
        BY <3>3 DEF ReaderDecr
      <4>2. x.pc = "act" /\ x.from = reader[c].from /\ x.orphans = reader[c].orphans
        BY <3>r DEF ReaderStates
      <4>3. CASE reader[c].from = "sweep"
        <5>1. conn[c] = "gone" /\ \A r \in Requests : HeldBy(r, c)' => r \in x.orphans
          BY <2>s, <4>1, <4>2, <4>3 DEF CleanupInv, CleanupOK, Sweeping, Shrinks
        <5> HIDE DEF x
        <5> QED
          BY <1>0, <2>s, <4>1, <4>2, <5>1, SweepCleanup
      <4>4. CASE reader[c].from # "sweep"
        <5> HIDE DEF x
        <5> QED
          BY <1>0, <2>s, <4>1, <4>2, <4>4, BusyCleanup
      <4> QED
        BY <4>3, <4>4
    <3>4. CASE ReaderAct(c)
      <4>1. reader[c].pc = "act" /\ conn' = conn
        BY <3>4 DEF ReaderAct, hubVars
      <4>2. CASE reader[c].from = "sweep"
        <5>1. reader' = [reader EXCEPT ![c] = Rest(c)]
          BY <3>4, <4>2 DEF ReaderAct
        <5>2. Rest(c).pc = "sweep" /\ Rest(c).orphans = reader[c].orphans
          BY <4>2 DEF Rest, IdleReader
        <5>3. conn[c] = "gone" /\ \A r \in Requests : HeldBy(r, c)' => r \in Rest(c).orphans
          BY <2>s, <4>1, <4>2, <5>2 DEF CleanupInv, CleanupOK, Sweeping, Shrinks
        <5> QED
          BY <1>0, <2>s, <4>1, <5>1, <5>2, <5>3, SweepCleanup
      <4>3. CASE reader[c].from # "sweep"
        <5> DEFINE x == [Rest(c) EXCEPT !.pc = "cancel", !.req = reader[c].req]
        <5>1. reader' = [reader EXCEPT ![c] = Rest(c)] \/ reader' = [reader EXCEPT ![c] = x]
          BY <3>4 DEF ReaderAct
        <5>2. Rest(c).pc = "read" /\ x.pc = "cancel"
          BY <4>3 DEF Rest, IdleReader
        <5> HIDE DEF x
        <5> QED
          BY <1>0, <2>s, <4>1, <5>1, <5>2, BusyCleanup
      <4> QED
        BY <4>2, <4>3
    <3>5. CASE ReaderCancel(c) \/ ReaderFree(c)
      <4>1. conn' = conn /\ reader[c].from = "none"
        BY <1>0, <3>5 DEF ReaderCancel, ReaderFree, ReaderClean
      <4>2. Rest(c).pc = "read"
        BY <4>1 DEF Rest, IdleReader
      <4> DEFINE x == [reader[c] EXCEPT !.pc = "free", !.client = jobs[reader[c].req].client]
      <4>3. x.pc = "free"
        BY <3>r DEF ReaderStates
      <4>4. reader' = [reader EXCEPT ![c] = Rest(c)] \/ reader' = [reader EXCEPT ![c] = x]
        BY <3>5 DEF ReaderCancel, ReaderFree
      <4> HIDE DEF x
      <4> QED
        BY <1>0, <2>s, <4>1, <4>2, <4>3, <4>4, BusyCleanup
    <3>6. CASE RemoveClient(c)
      <4>1. conn'[c] = "gone" /\ \A d \in Clients : d # c => conn'[d] = conn[d]
        BY <1>n, <3>6 DEF RemoveClient
      <4>2. reader'[c].pc = "snapshot" /\ \A d \in Clients : d # c => reader'[d] = reader[d]
        BY <1>r, <3>r, <3>6 DEF RemoveClient, ReaderStates
      <4>3. CleanupOK(c)'
        BY <4>1, <4>2 DEF CleanupOK, Sweeping
      <4> QED
        BY <1>0, <2>s, <4>1, <4>2, <4>3, OthersCleanup
    <3>7. CASE SnapshotOrphans(c)
      <4> DEFINE o == {r \in jobsByClient[c] : jobs[r] # None}
                 x == [reader[c] EXCEPT !.pc = "sweep", !.orphans = o]
      <4>1. /\ reader' = [reader EXCEPT ![c] = x] /\ reader[c].pc = "snapshot" /\ conn' = conn
            /\ jobs' = jobs
        BY <3>7 DEF SnapshotOrphans, hubVars
      <4>2. \A r \in Requests : HeldBy(r, c)' => r \in o
        BY <4>1 DEF IndexInv, HeldBy
      <4> HIDE DEF o
      <4>3. x.pc = "sweep" /\ x.orphans = o
        BY <3>r DEF ReaderStates
      <4>4. conn[c] = "gone"
        BY <4>1 DEF CleanupInv, CleanupOK
      <4> HIDE DEF x
      <4> QED
        BY <1>0, <2>s, <4>1, <4>2, <4>3, <4>4, SweepCleanup
    <3>8. ASSUME NEW s \in Requests, SweepOrphan(c, s) PROVE CleanupInv'
      <4> DEFINE left == [reader[c] EXCEPT !.orphans = @ \ {s}]
                 copy == IF MayRetry(jobs[s]) THEN retryRequest(jobs[s].copy) ELSE None
                 x == [left EXCEPT !.pc = "decr", !.req = s, !.from = "sweep", !.copy = copy]
      <4>1. /\ left \in ReaderStates /\ left.pc = "sweep" /\ reader[c].pc = "sweep"
            /\ left.orphans = reader[c].orphans \ {s} /\ conn' = conn
        BY <3>r, <3>8 DEF SweepOrphan, ReaderStates
      <4>2. reader' = [reader EXCEPT ![c] = x] \/ reader' = [reader EXCEPT ![c] = left]
        BY <3>8 DEF SweepOrphan
      <4>3. ~ HeldBy(s, c)'
        <5>1. CASE HeldBy(s, c)
          BY <1>0, <3>8, <5>1, UntrackPlaces DEF SweepOrphan, InTable, HeldBy
        <5>2. CASE ~ HeldBy(s, c)
          BY <2>s, <5>2 DEF Shrinks
        <5> QED
          BY <5>1, <5>2
      <4>4. conn[c] = "gone" /\ \A r \in Requests : HeldBy(r, c)' => r \in reader[c].orphans
        BY <2>s, <4>1 DEF CleanupInv, CleanupOK, Sweeping, Shrinks
      <4> HIDE DEF left, copy
      <4>5. x.pc = "decr" /\ x.orphans = left.orphans
        BY <4>1 DEF ReaderStates
      <4>6. \A r \in Requests : HeldBy(r, c)' => r \in left.orphans
        BY <4>1, <4>3, <4>4
      <4> HIDE DEF x
      <4> QED
        BY <1>0, <2>s, <4>1, <4>2, <4>4, <4>5, <4>6, SweepCleanup
    <3>9. CASE EndSweep(c)
      <4>1. /\ conn' = conn /\ reader' = [reader EXCEPT ![c] = IdleReader]
            /\ jobsByClient' = [jobsByClient EXCEPT ![c] = {}]
        BY <3>9 DEF EndSweep
      <4>2. reader'[c].pc = "off" /\ \A d \in Clients : d # c => reader'[d] = reader[d]
        BY <1>r, <4>1 DEF IdleReader
      <4>3. jobsByClient'[c] = {}
        BY <1>0, <4>1 DEF TypeInv, TypeOK
      <4>4. CleanupOK(c)'
        BY <4>2, <4>3 DEF CleanupOK, Sweeping
      <4> QED
        BY <1>0, <2>s, <4>1, <4>2, <4>4, OthersCleanup
    <3> QED
      BY <2>4, <3>1, <3>2, <3>3, <3>4, <3>5, <3>6, <3>7, <3>8, <3>9 DEF HubStep, ReaderStep
  <2> QED
    BY <2>1, <2>2, <2>3, <2>4 DEF Next
<1> QED
  BY <1>1, <1>2
-----------------------------------------------------------------------------
TableInv == CopyInv /\ IndexInv /\ CleanupInv

(* The job table and the index by client agree in every state (hub.go, TrackJob, UntrackJob). *)
LEMMA TableInvAlways == Spec => []TableInv
<1>1. Init => TableInv
  <2> SUFFICES ASSUME Init PROVE IndexInv /\ CleanupInv
    BY InitCopyInv DEF TableInv
  <2>1. IndexInv
    BY DEF Init, IndexInv, HeldBy
  <2>2. \A c \in Clients : reader[c].pc = "off" /\ conn[c] = "off"
    BY DEF Init, IdleReader
  <2>3. CleanupInv
    BY <2>2 DEF CleanupInv, CleanupOK, Sweeping
  <2> QED
    BY <2>1, <2>3
<1>2. TableInv /\ [Next]_vars => TableInv'
  <2> SUFFICES ASSUME TableInv, [Next]_vars PROVE IndexInv' /\ CleanupInv'
    BY NextCopyInv DEF TableInv
  <2>0. CopyInv /\ IndexInv /\ CleanupInv
    BY DEF TableInv
  <2>1. CASE Next
    <3>1. TypeInv'
      BY <2>0, NextTypeInv DEF CopyInv
    <3> QED
      BY <2>0, <2>1, <3>1, NextIndexInv, NextCleanupInv
  <2>2. CASE UNCHANGED vars
    <3>1. /\ jobs' = jobs /\ jobsByClient' = jobsByClient /\ caller' = caller
          /\ conn' = conn /\ reader' = reader
      BY <2>2 DEF vars, hubVars
    <3> QED
      BY <2>0, <3>1 DEF IndexInv, CleanupInv, CleanupOK, Sweeping, HeldBy, IsBatch
  <2> QED
    BY <2>1, <2>2
<1> QED
  BY <1>1, <1>2, PTL DEF Spec

(* The two job tables always agree: whoever untracks a job, a sweep that goes by
   the index finds every job of its client (hub.go:1230-1282, 1392-1403). *)
THEOREM DispatchJobIndex == Spec => []JobIndex
<1>1. TableInv => JobIndex
  <2> SUFFICES ASSUME TableInv, NEW c \in Clients
               PROVE  LET held == {r \in Requests : HeldBy(r, c)}
                      IN  held \subseteq jobsByClient[c] /\ (NoBatch => jobsByClient[c] = held)
    BY DEF JobIndex
  <2>1. jobsByClient[c] \subseteq Requests
    BY DEF TableInv, CopyInv, TypeInv, TypeOK
  <2> QED
    BY <2>1 DEF TableInv, IndexInv, NoBatch
<1> QED
  BY <1>1, TableInvAlways, PTL

(* However a dispatch races the disconnect of its worker, once the cleanup has
   ended nothing is tracked on the dead connection, so no request hangs on it
   (hub.go:383-441, 1230-1259). *)
THEOREM DispatchNoJobOnDeadClient == Spec => []NoJobOnDeadClient
<1>1. TableInv => NoJobOnDeadClient
  BY DEF TableInv, IndexInv, CleanupInv, CleanupOK, NoJobOnDeadClient
<1> QED
  BY <1>1, TableInvAlways, PTL
=============================================================================
