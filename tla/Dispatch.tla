------------------------------ MODULE Dispatch ------------------------------
(***************************************************************************)
(* How the router moves a request between the API handler, the queue, the  *)
(* scheduler, the hub and a worker, and back: router/internal/api,         *)
(* scheduler and hub, wired together in router/cmd/router/main.go.         *)
(*                                                                         *)
(* Goroutines interleave between critical sections: one handler per        *)
(* request, one scheduler, one reader per worker connection (which also    *)
(* cleans up after the connection), and the lease reaper.  Each section    *)
(* under q.mu or h.mu, and each atomic counter update, is one action; a    *)
(* wake-up of the scheduler rides on the action before it.  The queue is   *)
(* the pool of RequestPool, which Queue implements.                        *)
(*                                                                         *)
(* Time is abstracted: a timer may fire, a lease may expire, a worker may  *)
(* speak or a connection may drop whenever the code would let it.  Which   *)
(* of several dispatchable pairs is best is left open.                     *)
(***************************************************************************)
EXTENDS Integers, Sequences, FiniteSets

CONSTANTS Requests,       \* request IDs
          Kinds,          \* the answers callers may ask for: a subset of {"stream", "batch"}
          Clients,        \* connection IDs; a reconnecting worker gets a new one
          Models,         \* concrete model names
          Alias,          \* the name every request asks for: an alias of Models
          Serves,         \* Clients -> Models
          MaxSlots,       \* bound: Clients -> the most slots the worker ever registers
          MaxAttempts,    \* types.MaxAttempts
          MaxDepth,       \* q.MaxDepth, 0 = unlimited
          InboxCap,       \* capacity of a correlation channel (2048 in the code)
          LocalLoads,     \* what a worker may report as its local load
          MaxYields,      \* bound: free hand-backs per request
          None            \* nil

ASSUME DispatchAssumption ==
  /\ Kinds \subseteq {"stream", "batch"}
  /\ IsFiniteSet(Requests) /\ IsFiniteSet(Clients)
  /\ Alias \notin Models
  /\ Serves \in [Clients -> Models]
  /\ MaxSlots \in [Clients -> Nat]
  /\ MaxAttempts \in Nat \ {0} /\ MaxDepth \in Nat /\ InboxCap \in Nat /\ MaxYields \in Nat
  /\ LocalLoads \subseteq Nat

(* A request as the queue and the job table hold it: the retry count and the
   model name, which is the alias until a dispatch rewrites it. *)
Copies == [attempts : Nat, model : Models \cup {Alias}]
Jobs == [client : Clients, copy : Copies, produced : BOOLEAN]

ASSUME NoneAssumption == None \notin Copies \cup Jobs \cup Clients \cup Requests \cup Int

VARIABLES
  queue,         \* Requests -> queued copy or None
  sched,         \* the scheduler goroutine
  signal,        \* its one-slot wake-up channel
  conn,          \* Clients -> state of the connection
  inFlight,      \* Clients -> client.inFlight
  localBusy,     \* Clients -> client.localBusy
  draining,      \* Clients -> client.draining
  slots,         \* Clients -> client.MaxConcurrent, 0 until it registers
  jobs,          \* Requests -> h.jobs record or None
  jobsByClient,  \* Clients -> h.jobsByClient
  reader,        \* Clients -> the ServeWS goroutine
  reaper,        \* expired leases still to be settled: set of [req, client]
  caller,        \* Requests -> the API handler goroutine
  inbox,         \* Requests -> chunks in the correlation channel
  work,          \* jobs at workers that may still speak: set of [client, req, n]
  sent,          \* Requests -> dispatches that reached a worker          (history)
  yields,        \* Requests -> dispatches handed back free of charge     (history)
  seen,          \* Requests -> dispatches whose output the answer holds  (history)
  dropped,       \* requests whose job was dropped without a word         (history)
  peak           \* Clients -> the most slots it has registered           (history)

hubVars == <<conn, inFlight, localBusy, draining, slots, jobs, jobsByClient>>
histVars == <<sent, yields, seen, dropped, peak>>
vars == <<queue, sched, signal, hubVars, reader, reaper, caller, inbox, work, histVars>>

IdleSched == [pc |-> "idle", req |-> None, client |-> None, copy |-> None,
              room |-> [c \in Clients |-> 0], missed |-> {}]
IdleReader == [pc |-> "off", req |-> None, from |-> "none", copy |-> None,
               n |-> 0, client |-> None, orphans |-> {}]

Init ==
  /\ queue = [r \in Requests |-> None]
  /\ sched = IdleSched
  /\ signal = FALSE
  /\ conn = [c \in Clients |-> "off"]
  /\ inFlight = [c \in Clients |-> 0]
  /\ localBusy = [c \in Clients |-> 0]
  /\ draining = [c \in Clients |-> FALSE]
  /\ slots = [c \in Clients |-> 0]
  /\ jobs = [r \in Requests |-> None]
  /\ jobsByClient = [c \in Clients |-> {}]
  /\ reader = [c \in Clients |-> IdleReader]
  /\ reaper = {}
  /\ caller = [r \in Requests |-> [pc |-> "new", kind |-> "stream", attempts |-> 0,
                                 next |-> "answer", client |-> None]]
  /\ inbox = [r \in Requests |-> << >>]
  /\ work = {}
  /\ sent = [r \in Requests |-> 0]
  /\ yields = [r \in Requests |-> 0]
  /\ seen = [r \in Requests |-> {}]
  /\ dropped = {}
  /\ peak = [c \in Clients |-> 0]
-----------------------------------------------------------------------------
(* Shared steps *)

Connected(c) == conn[c] \notin {"off", "gone"}   \* c is a key of h.clients

Room(c) == slots[c] - (inFlight[c] + localBusy[c])
HasRoom(c) == ~ draining[c] /\ Room(c) > 0

Push(r, copy) == queue' = [queue EXCEPT ![r] = copy]

(* Mutant: the index by client keeps the request. *)
UntrackKeepsIndex(r) ==
  /\ jobs' = [jobs EXCEPT ![r] = None]
  /\ UNCHANGED jobsByClient

Wake == signal' = TRUE

Untrack(r) ==
  /\ jobs' = [jobs EXCEPT ![r] = None]
  /\ jobsByClient' = [jobsByClient EXCEPT ![jobs[r].client] = @ \ {r}]

HeldBy(r, c) == jobs[r] # None /\ jobs[r].client = c

(* Hub.DecrInFlight and the lookup in CancelRequest: by ID, so nothing happens
   once the connection has left the registry. *)
DecrById(c) ==
  inFlight' = IF Connected(c) THEN [inFlight EXCEPT ![c] = @ - 1] ELSE inFlight

(* Mutant: the name to restore was never recorded. *)
retryRequestUnnamed(copy) == [attempts |-> copy.attempts + 1, model |-> None]

(* Mutant: a retry costs no attempt. *)
retryRequestUncounted(copy) == [attempts |-> copy.attempts, model |-> Alias]

retryRequest(copy) == [attempts |-> copy.attempts + 1, model |-> Alias]

(* Mutant: a job that has produced output is retried. *)
MayRetryProduced(job) == retryRequest(job.copy).attempts < MaxAttempts

(* Mutant: one attempt too many. *)
MayRetryOneMore(job) == retryRequest(job.copy).attempts <= MaxAttempts /\ ~ job.produced

MayRetry(job) == retryRequest(job.copy).attempts < MaxAttempts /\ ~ job.produced

(* correlation.Store.Send: the handler's channel takes the chunk, or nobody
   listens any more. *)
Listening(r) == caller[r].pc \in {"wait", "cancel", "free", "after"}

Backlogged(r) == Listening(r) /\ Len(inbox[r]) >= InboxCap

Deliver(r, chunk) ==
  /\ ~ Backlogged(r)
  /\ inbox' = IF Listening(r) THEN [inbox EXCEPT ![r] = Append(@, chunk)] ELSE inbox
-----------------------------------------------------------------------------
(* API handler: enqueue, streamResponse, batchResponse, cancelRequest *)

IsBatch(r) == caller[r].kind = "batch"

Queued == {r \in Requests : queue[r] # None}

Enqueue(r, kind) ==
  /\ caller[r].pc = "new"
  /\ \/ /\ MaxDepth > 0 /\ Cardinality(Queued) >= MaxDepth
        /\ caller' = [caller EXCEPT ![r].pc = "done"]
        /\ UNCHANGED <<queue, signal>>
     \/ /\ MaxDepth = 0 \/ Cardinality(Queued) < MaxDepth
        /\ Push(r, [attempts |-> 0, model |-> Alias])
        /\ Wake
        /\ caller' = [caller EXCEPT ![r].pc = "wait", ![r].kind = kind]
  /\ UNCHANGED <<sched, hubVars, reader, reaper, inbox, work, histVars>>

(* A chunk is written to the caller; the terminal one ends the handler, which
   deletes its correlation entry. *)
ReadChunk(r) ==
  /\ caller[r].pc = "wait" /\ inbox[r] # << >>
  /\ LET chunk == Head(inbox[r])
     IN  /\ seen' = IF chunk.kind = "error" THEN seen
                    ELSE [seen EXCEPT ![r] = @ \cup {chunk.n}]
         /\ IF chunk.kind = "output"
            THEN inbox' = [inbox EXCEPT ![r] = Tail(@)] /\ UNCHANGED caller
            ELSE /\ inbox' = [inbox EXCEPT ![r] = << >>]
                 /\ caller' = [caller EXCEPT ![r].pc = "done"]
  /\ UNCHANGED <<queue, sched, signal, hubVars, reader, reaper, work, sent, yields, dropped, peak>>

(* The caller disconnects, or a timer fires with no retry left: cancelRequest
   first takes the request off the queue. *)
GiveUp(r) ==
  /\ caller[r].pc = "wait"
  /\ queue' = [queue EXCEPT ![r] = None]
  /\ caller' = [caller EXCEPT ![r].pc = "cancel", ![r].next = "end"]
  /\ UNCHANGED <<sched, signal, hubVars, reader, reaper, inbox, work, histVars>>

BatchTimeout(r) ==
  /\ IsBatch(r) /\ caller[r].pc = "wait"
  /\ caller[r].attempts + 1 < MaxAttempts
  /\ queue' = [queue EXCEPT ![r] = None]
  /\ caller' = [caller EXCEPT ![r].pc = "cancel", ![r].next = "retry", ![r].attempts = @ + 1]
  /\ UNCHANGED <<sched, signal, hubVars, reader, reaper, inbox, work, histVars>>

(* Hub.CancelRequest: take the record whoever holds it ... *)
CancelUntrack(r) ==
  /\ caller[r].pc = "cancel"
  /\ IF jobs[r] # None
     THEN /\ caller' = [caller EXCEPT ![r].pc = "free", ![r].client = jobs[r].client]
          /\ Untrack(r)
     ELSE /\ caller' = [caller EXCEPT ![r].pc = "after"]
          /\ UNCHANGED <<jobs, jobsByClient>>
  /\ UNCHANGED <<queue, sched, signal, conn, inFlight, localBusy, draining, slots, reader, reaper,
                 inbox, work, histVars>>

(* ... then free its slot.  The cancel message that follows only asks the
   worker to stop; it may have spoken already, so its job stays in work. *)
CancelFree(r) ==
  /\ caller[r].pc = "free"
  /\ DecrById(caller[r].client)
  /\ Wake
  /\ caller' = [caller EXCEPT ![r].pc = "after", ![r].client = None]
  /\ UNCHANGED <<queue, sched, conn, localBusy, draining, slots, jobs, jobsByClient, reader, reaper,
                 inbox, work, histVars>>

(* Mutant: a batch retry waits on without pushing the request again. *)
AfterCancelNoPush(r) ==
  /\ caller[r].pc = "after"
  /\ inbox' = [inbox EXCEPT ![r] = << >>]
  /\ caller' = [caller EXCEPT ![r].pc = IF caller[r].next = "end" THEN "done" ELSE "wait"]
  /\ UNCHANGED <<queue, sched, signal, hubVars, reader, reaper, work, histVars>>

(* The handler returns, or a batch retry throws away what arrived so far and
   pushes the handler's own copy of the request. *)
AfterCancel(r) ==
  /\ caller[r].pc = "after"
  /\ inbox' = [inbox EXCEPT ![r] = << >>]
  /\ \/ /\ caller[r].next = "end"
        /\ caller' = [caller EXCEPT ![r].pc = "done"]
        /\ UNCHANGED <<queue, signal, seen>>
     \/ /\ caller[r].next = "retry"
        /\ caller' = [caller EXCEPT ![r].pc = "wait", ![r].next = "answer"]
        /\ seen' = [seen EXCEPT ![r] = {}]
        /\ Push(r, [attempts |-> caller[r].attempts, model |-> Alias])
        /\ Wake
  /\ UNCHANGED <<sched, hubVars, reader, reaper, work, sent, yields, dropped, peak>>

Handler(r) == \/ \E kind \in Kinds : Enqueue(r, kind)
              \/ ReadChunk(r) \/ GiveUp(r) \/ BatchTimeout(r)
              \/ CancelUntrack(r) \/ CancelFree(r) \/ AfterCancel(r)
-----------------------------------------------------------------------------
(* Scheduler: loop and drainQueue *)

(* A wake-up or the 5-second ticker starts a drain, which works from a copy of
   the clients with room and what each had left; without any it ends at once. *)
Available == {c \in Clients : conn[c] \in {"up", "down"} /\ HasRoom(c)}

StartDrain ==
  sched' = IF Available = {} THEN IdleSched
           ELSE [IdleSched EXCEPT !.pc = "pick",
                   !.room = [c \in Clients |-> IF c \in Available THEN Room(c) ELSE 0]]

(* Mutant: no ticker, only the wake-up starts a drain. *)
DrainOnTickNever ==
  /\ sched.pc = "idle" /\ signal
  /\ StartDrain
  /\ UNCHANGED <<queue, signal, hubVars, reader, reaper, caller, inbox, work, histVars>>

DrainOnSignal ==
  /\ sched.pc = "idle" /\ signal
  /\ signal' = FALSE
  /\ StartDrain
  /\ UNCHANGED <<queue, hubVars, reader, reaper, caller, inbox, work, histVars>>

DrainOnTick ==
  /\ sched.pc = "idle"
  /\ StartDrain
  /\ UNCHANGED <<queue, signal, hubVars, reader, reaper, caller, inbox, work, histVars>>

(* Any queued request that a listed client can serve and, going by the copy,
   has a slot for.  The code picks the best such pair. *)
Candidates ==
  {p \in Requests \X Clients :
     /\ queue[p[1]] # None
     /\ queue[p[1]].model \in {Alias, Serves[p[2]]}
     /\ sched.room[p[2]] > 0}

Pick ==
  /\ sched.pc = "pick"
  /\ \/ /\ Candidates = {}
        /\ sched' = IdleSched
     \/ \E p \in Candidates : sched' = [sched EXCEPT !.pc = "pop", !.req = p[1], !.client = p[2]]
  /\ UNCHANGED <<queue, signal, hubVars, reader, reaper, caller, inbox, work, histVars>>

(* Mutant: a job is tracked against a client that has left the registry. *)
TrackJobBlind ==
  /\ sched.pc = "track"
  /\ jobs' = [jobs EXCEPT ![sched.req] = [client |-> sched.client, copy |-> sched.copy,
                                          produced |-> FALSE]]
  /\ jobsByClient' = [jobsByClient EXCEPT ![sched.client] = @ \cup {sched.req}]
  /\ sched' = [sched EXCEPT !.pc = "send"]
  /\ UNCHANGED <<queue, signal, conn, inFlight, localBusy, draining, slots, reader, reaper, caller,
                 inbox, work, histVars>>

(* Mutant: a request whose client has left is not put back. *)
TrackJobForgets ==
  /\ sched.pc = "track"
  /\ LET r == sched.req
         c == sched.client
     IN  IF Connected(c)
         THEN /\ jobs' = [jobs EXCEPT ![r] = [client |-> c, copy |-> sched.copy, produced |-> FALSE]]
              /\ jobsByClient' = [jobsByClient EXCEPT ![c] = @ \cup {r}]
              /\ sched' = [sched EXCEPT !.pc = "send"]
         ELSE /\ sched' = IdleSched
              /\ UNCHANGED <<jobs, jobsByClient>>
  /\ UNCHANGED <<queue, signal, conn, inFlight, localBusy, draining, slots, reader, reaper, caller,
                 inbox, work, histVars>>

(* PopByID, the rewrite of the model name and IncrInFlight.  A request that
   is gone is skipped once; missing it again ends the drain. *)
PopAndCount ==
  /\ sched.pc = "pop"
  /\ LET r == sched.req
         c == sched.client
     IN  \/ /\ queue[r] = None
            /\ sched' = IF r \in sched.missed THEN IdleSched
                        ELSE [sched EXCEPT !.pc = "pick", !.req = None, !.client = None,
                                           !.missed = @ \cup {r}]
            /\ UNCHANGED <<queue, inFlight>>
         \/ /\ queue[r] # None
            /\ queue' = [queue EXCEPT ![r] = None]
            /\ inFlight' = IF Connected(c) THEN [inFlight EXCEPT ![c] = @ + 1] ELSE inFlight
            /\ sched' = [sched EXCEPT !.pc = "track",
                                      !.copy = [attempts |-> queue[r].attempts, model |-> Serves[c]]]
  /\ UNCHANGED <<signal, conn, localBusy, draining, slots, jobs, jobsByClient, reader, reaper,
                 caller, inbox, work, histVars>>

(* Mutant: the drain's copy does not see its own dispatch. *)
SendJobUncounted ==
  /\ sched.pc = "send"
  /\ conn[sched.client] \in {"open", "up"}
  /\ sent' = [sent EXCEPT ![sched.req] = @ + 1]
  /\ work' = work \cup {[client |-> sched.client, req |-> sched.req, n |-> sent[sched.req] + 1]}
  /\ sched' = [sched EXCEPT !.pc = "pick", !.req = None, !.client = None, !.copy = None]
  /\ UNCHANGED <<queue, signal, hubVars, reader, reaper, caller, inbox, yields, seen, dropped, peak>>

TrackJob ==
  /\ sched.pc = "track"
  /\ LET r == sched.req
         c == sched.client
     IN  IF Connected(c)
         THEN /\ jobs' = [jobs EXCEPT ![r] = [client |-> c, copy |-> sched.copy, produced |-> FALSE]]
              /\ jobsByClient' = [jobsByClient EXCEPT ![c] = @ \cup {r}]
              /\ sched' = [sched EXCEPT !.pc = "send"]
         ELSE /\ sched' = [sched EXCEPT !.pc = "push"]
              /\ UNCHANGED <<jobs, jobsByClient>>
  /\ UNCHANGED <<queue, signal, conn, inFlight, localBusy, draining, slots, reader, reaper, caller,
                 inbox, work, histVars>>

SendJob ==
  /\ sched.pc = "send"
  /\ conn[sched.client] \in {"open", "up"}
  /\ LET r == sched.req
         c == sched.client
     IN  /\ sent' = [sent EXCEPT ![r] = @ + 1]
         /\ work' = work \cup {[client |-> c, req |-> r, n |-> sent[r] + 1]}
         /\ sched' = [sched EXCEPT !.pc = "pick", !.req = None, !.client = None, !.copy = None,
                                   !.room[c] = @ - 1]
  /\ UNCHANGED <<queue, signal, hubVars, reader, reaper, caller, inbox, yields, seen, dropped, peak>>

(* The connection is closing, or its send buffer is full. *)
SendFails ==
  /\ sched.pc = "send"
  /\ sched' = [sched EXCEPT !.pc = "untrack"]
  /\ UNCHANGED <<queue, signal, hubVars, reader, reaper, caller, inbox, work, histVars>>

(* Mutant: the scheduler puts the request back though the hub has taken it. *)
SchedUntrackAlways ==
  /\ sched.pc = "untrack"
  /\ sched' = [sched EXCEPT !.pc = "uncount"]
  /\ IF HeldBy(sched.req, sched.client) THEN Untrack(sched.req) ELSE UNCHANGED <<jobs, jobsByClient>>
  /\ UNCHANGED <<queue, signal, conn, inFlight, localBusy, draining, slots, reader, reaper, caller,
                 inbox, work, histVars>>

(* Only the actor that takes the record back may queue the request again. *)
SchedUntrack ==
  /\ sched.pc = "untrack"
  /\ IF HeldBy(sched.req, sched.client)
     THEN Untrack(sched.req) /\ sched' = [sched EXCEPT !.pc = "uncount"]
     ELSE sched' = IdleSched /\ UNCHANGED <<jobs, jobsByClient>>
  /\ UNCHANGED <<queue, signal, conn, inFlight, localBusy, draining, slots, reader, reaper, caller,
                 inbox, work, histVars>>

SchedUncount ==
  /\ sched.pc = "uncount"
  /\ DecrById(sched.client)
  /\ sched' = [sched EXCEPT !.pc = "push"]
  /\ UNCHANGED <<queue, signal, conn, localBusy, draining, slots, jobs, jobsByClient, reader,
                 reaper, caller, inbox, work, histVars>>

(* The copy goes back as it is, under the concrete model name. *)
SchedRequeue ==
  /\ sched.pc = "push"
  /\ Push(sched.req, sched.copy)
  /\ sched' = IdleSched
  /\ UNCHANGED <<signal, hubVars, reader, reaper, caller, inbox, work, histVars>>

SchedStep == \/ DrainOnSignal \/ DrainOnTick \/ Pick \/ PopAndCount \/ TrackJob \/ SendJob
             \/ SendFails \/ SchedUntrack \/ SchedUncount \/ SchedRequeue
-----------------------------------------------------------------------------
(* Hub: ServeWS, readLoop and dispatch for one connection *)

Reading(c) == conn[c] \in {"open", "up"} /\ reader[c].pc = "read"

Connect(c) ==
  /\ conn[c] = "off"
  /\ conn' = [conn EXCEPT ![c] = "open"]
  /\ reader' = [reader EXCEPT ![c].pc = "read"]
  /\ UNCHANGED <<queue, sched, signal, inFlight, localBusy, draining, slots, jobs, jobsByClient,
                 reaper, caller, inbox, work, histVars>>

(* A worker registers again, on the same connection, when its models or slots
   change.  Jobs in flight and the reported local load stay as they are. *)
MsgRegister(c, n) ==
  /\ Reading(c)
  /\ conn' = [conn EXCEPT ![c] = "up"]
  /\ slots' = [slots EXCEPT ![c] = n]
  /\ peak' = [peak EXCEPT ![c] = IF n > @ THEN n ELSE @]
  /\ Wake
  /\ UNCHANGED <<queue, sched, inFlight, localBusy, draining, jobs, jobsByClient, reader,
                 reaper, caller, inbox, work, sent, yields, seen,
                 dropped>>

MsgDraining(c) ==
  /\ Reading(c) /\ ~ draining[c]
  /\ draining' = [draining EXCEPT ![c] = TRUE]
  /\ UNCHANGED <<queue, sched, signal, conn, inFlight, localBusy, slots, jobs, jobsByClient, reader,
                 reaper, caller, inbox, work, histVars>>

(* A reported load is clamped to the client's slots; less load than before
   wakes the scheduler. *)
MsgLocalBusy(c, report) ==
  LET n == IF slots[c] > 0 /\ report > slots[c] THEN slots[c] ELSE report
  IN  /\ Reading(c) /\ conn[c] = "up" /\ n # localBusy[c]
      /\ localBusy' = [localBusy EXCEPT ![c] = n]
      /\ signal' = (signal \/ n < localBusy[c])
      /\ UNCHANGED <<queue, sched, conn, inFlight, draining, slots, jobs, jobsByClient, reader,
                     reaper, caller, inbox, work, histVars>>

(* Part of a streamed answer; a batch answer is one chunk, the last.
   Only the holder of the job marks it as having produced output, but the chunk
   reaches the handler anyway.  A handler that does not read makes the reader
   cancel the request. *)
MsgOutput(w) ==
  LET c == w.client
      r == w.req
  IN  /\ w \in work /\ ~ IsBatch(r) /\ Reading(c)
      /\ jobs' = IF HeldBy(r, c) THEN [jobs EXCEPT ![r].produced = TRUE] ELSE jobs
      /\ \/ /\ Deliver(r, [n |-> w.n, kind |-> "output"])
            /\ UNCHANGED reader
         \/ /\ Backlogged(r)
            /\ reader' = [reader EXCEPT ![c].pc = "cancel", ![c].req = r]
            /\ UNCHANGED inbox
      /\ UNCHANGED <<queue, sched, signal, conn, inFlight, localBusy, draining, slots, jobsByClient,
                     reaper, caller, work, histVars>>

(* What the reader does with a record it has just taken: free the slot, then
   call back with from, and with copy when the request goes to the queue. *)
TakeJob(w, from, copy) ==
  /\ Untrack(w.req)
  /\ reader' = [reader EXCEPT ![w.client].pc = "decr", ![w.client].req = w.req,
                              ![w.client].from = from, ![w.client].copy = copy,
                              ![w.client].n = w.n]

(* Mutant: a late last chunk takes the job from the client that has it now. *)
MsgDoneUnchecked(w) ==
  /\ w \in work /\ Reading(w.client) /\ jobs[w.req] # None
  /\ work' = work \ {w}
  /\ TakeJob(w, "done", None)
  /\ UNCHANGED <<queue, sched, signal, conn, inFlight, localBusy, draining, slots, reaper, caller,
                 inbox, histVars>>

(* The last chunk.  From a client that does not hold the job it frees nothing
   and still goes to the handler. *)
MsgDone(w) ==
  LET c == w.client
  IN  /\ w \in work /\ Reading(c)
      /\ work' = work \ {w}
      /\ IF HeldBy(w.req, c)
         THEN TakeJob(w, "done", None)
         ELSE /\ reader' = [reader EXCEPT ![c].pc = "act", ![c].req = w.req,
                                          ![c].from = "done", ![c].n = w.n]
              /\ UNCHANGED <<jobs, jobsByClient>>
      /\ UNCHANGED <<queue, sched, signal, conn, inFlight, localBusy, draining, slots, reaper, caller,
                     inbox, histVars>>

(* An error: retried unless it is final, the attempts are used up or output
   has gone out.  Stale errors are ignored. *)
MsgError(w, final) ==
  /\ w \in work /\ Reading(w.client)
  /\ work' = work \ {w}
  /\ IF HeldBy(w.req, w.client)
     THEN LET job == jobs[w.req]
          IN  TakeJob(w, "error", IF ~ final /\ MayRetry(job) THEN retryRequest(job.copy) ELSE None)
     ELSE UNCHANGED <<jobs, jobsByClient, reader>>
  /\ UNCHANGED <<queue, sched, signal, conn, inFlight, localBusy, draining, slots, reaper, caller,
                 inbox, histVars>>

(* A worker hands a job back: because it stops, or because its local API has
   the slot, which costs no attempt while it reports local load. *)
MsgRelease(w, reason) ==
  LET c == w.client
      job == jobs[w.req]
      free == reason = "busy" /\ localBusy[c] > 0 /\ ~ job.produced
  IN  /\ w \in work /\ Reading(c)
      /\ work' = work \ {w}
      /\ draining' = [draining EXCEPT ![c] = @ \/ reason = "shutdown"]
      /\ IF HeldBy(w.req, c)
         THEN /\ free => yields[w.req] < MaxYields
              /\ yields' = [yields EXCEPT ![w.req] = IF free THEN @ + 1 ELSE @]
              /\ TakeJob(w, "release",
                         IF free THEN [job.copy EXCEPT !.model = Alias]
                         ELSE IF MayRetry(job) THEN retryRequest(job.copy) ELSE None)
         ELSE UNCHANGED <<jobs, jobsByClient, reader, yields>>
      /\ UNCHANGED <<queue, sched, signal, conn, inFlight, localBusy, slots, reaper, caller,
                     inbox, sent, seen, dropped, peak>>

(* client.DecrInFlight on the connection's own object. *)
ReaderDecr(c) ==
  /\ reader[c].pc = "decr"
  /\ inFlight' = [inFlight EXCEPT ![c] = @ - 1]
  /\ signal' = (signal \/ reader[c].from \in {"done", "error"})
  /\ reader' = [reader EXCEPT ![c].pc = "act"]
  /\ UNCHANGED <<queue, sched, conn, localBusy, draining, slots, jobs, jobsByClient, reaper, caller,
                 inbox, work, histVars>>

Rest(c) == IF reader[c].from = "sweep"
           THEN [IdleReader EXCEPT !.pc = "sweep", !.orphans = reader[c].orphans]
           ELSE [IdleReader EXCEPT !.pc = "read"]

(* OnRelease, OnChunk or OnError.  A terminal chunk that finds no room is
   lost; only OnChunk then cancels the request. *)
ReaderAct(c) ==
  LET r == reader[c].req
      from == reader[c].from
  IN  /\ reader[c].pc = "act"
      /\ \/ /\ reader[c].copy # None
            /\ Push(r, reader[c].copy)
            /\ Wake
            /\ reader' = [reader EXCEPT ![c] = Rest(c)]
            /\ UNCHANGED <<inbox, dropped>>
         \/ /\ reader[c].copy = None
            /\ Deliver(r, [n |-> reader[c].n, kind |-> IF from = "done" THEN "done" ELSE "error"])
            /\ signal' = (signal \/ from = "release")
            /\ reader' = [reader EXCEPT ![c] = Rest(c)]
            /\ UNCHANGED <<queue, dropped>>
         \/ /\ reader[c].copy = None
            /\ Backlogged(r)
            /\ dropped' = dropped \cup {r}
            /\ signal' = (signal \/ from = "release")
            /\ reader' = [reader EXCEPT ![c] = IF from = "done"
                                               THEN [Rest(c) EXCEPT !.pc = "cancel", !.req = r]
                                               ELSE Rest(c)]
            /\ UNCHANGED <<queue, inbox>>
      /\ UNCHANGED <<sched, hubVars, reaper, caller, work, sent, yields, seen, peak>>

(* CancelRequest, run by the reader on behalf of OnChunk. *)
ReaderCancel(c) ==
  LET r == reader[c].req
  IN  /\ reader[c].pc = "cancel"
      /\ IF jobs[r] # None
         THEN /\ reader' = [reader EXCEPT ![c].pc = "free", ![c].client = jobs[r].client]
              /\ dropped' = dropped \cup {r}
              /\ Untrack(r)
         ELSE /\ reader' = [reader EXCEPT ![c] = Rest(c)]
              /\ UNCHANGED <<jobs, jobsByClient, dropped>>
      /\ UNCHANGED <<queue, sched, signal, conn, inFlight, localBusy, draining, slots, reaper, caller,
                     inbox, work, sent, yields, seen, peak>>

ReaderFree(c) ==
  /\ reader[c].pc = "free"
  /\ DecrById(reader[c].client)
  /\ Wake
  /\ reader' = [reader EXCEPT ![c] = Rest(c)]
  /\ UNCHANGED <<queue, sched, conn, localBusy, draining, slots, jobs, jobsByClient, reaper, caller,
                 inbox, work, histVars>>
-----------------------------------------------------------------------------
(* Hub: ServeWS after readLoop has returned *)

(* The connection drops, for whatever reason, and closeSend follows: nothing
   of what the worker still says will be read.  Until RemoveClient the client
   stays in the registry, and if it had registered ("down") the scheduler may
   still pick it. *)
Disconnect(c) ==
  /\ Reading(c)
  /\ conn' = [conn EXCEPT ![c] = IF @ = "up" THEN "down" ELSE "closed"]
  /\ reader' = [reader EXCEPT ![c].pc = "remove"]
  /\ work' = {w \in work : w.client # c}
  /\ UNCHANGED <<queue, sched, signal, inFlight, localBusy, draining, slots, jobs, jobsByClient,
                 reaper, caller, inbox, histVars>>

RemoveClient(c) ==
  /\ reader[c].pc = "remove"
  /\ conn' = [conn EXCEPT ![c] = "gone"]
  /\ reader' = [reader EXCEPT ![c].pc = "snapshot"]
  /\ UNCHANGED <<queue, sched, signal, inFlight, localBusy, draining, slots, jobs, jobsByClient,
                 reaper, caller, inbox, work, histVars>>

SnapshotOrphans(c) ==
  /\ reader[c].pc = "snapshot"
  /\ reader' = [reader EXCEPT ![c].pc = "sweep",
                              ![c].orphans = {r \in jobsByClient[c] : jobs[r] # None}]
  /\ UNCHANGED <<queue, sched, signal, hubVars, reaper, caller, inbox, work, histVars>>

SweepOrphan(c, r) ==
  /\ reader[c].pc = "sweep" /\ r \in reader[c].orphans
  /\ LET left == [reader[c] EXCEPT !.orphans = @ \ {r}]
         job == jobs[r]
     IN  IF HeldBy(r, c)
         THEN /\ Untrack(r)
              /\ reader' = [reader EXCEPT ![c] =
                   [left EXCEPT !.pc = "decr", !.req = r, !.from = "sweep",
                                !.copy = IF MayRetry(job) THEN retryRequest(job.copy) ELSE None]]
         ELSE /\ reader' = [reader EXCEPT ![c] = left]
              /\ UNCHANGED <<jobs, jobsByClient>>
  /\ UNCHANGED <<queue, sched, signal, conn, inFlight, localBusy, draining, slots, reaper, caller,
                 inbox, work, histVars>>

EndSweep(c) ==
  /\ reader[c].pc = "sweep" /\ reader[c].orphans = {}
  /\ jobsByClient' = [jobsByClient EXCEPT ![c] = {}]
  /\ Wake
  /\ reader' = [reader EXCEPT ![c] = IdleReader]
  /\ UNCHANGED <<queue, sched, conn, inFlight, localBusy, draining, slots, jobs, reaper, caller,
                 inbox, work, histVars>>

ReaderStep(c) ==
  \/ ReaderDecr(c) \/ ReaderAct(c) \/ ReaderCancel(c) \/ ReaderFree(c)
  \/ RemoveClient(c) \/ SnapshotOrphans(c)
  \/ \E r \in Requests : SweepOrphan(c, r)
  \/ EndSweep(c)

HubStep(c) ==
  \/ Connect(c) \/ MsgDraining(c) \/ Disconnect(c)
  \/ \E n \in 1..MaxSlots[c] : MsgRegister(c, n)
  \/ \E n \in LocalLoads : MsgLocalBusy(c, n)
  \/ ReaderStep(c)

WorkerMsg(w) == \/ MsgOutput(w) \/ MsgDone(w)
                \/ \E final \in BOOLEAN : MsgError(w, final)
                \/ \E reason \in {"busy", "shutdown"} : MsgRelease(w, reason)
-----------------------------------------------------------------------------
(* Hub: handleExpiredLeases *)

Tracked == {r \in Requests : jobs[r] # None}

(* One scan under h.mu takes every expired record, whichever those are ... *)
LeaseScan(expired) ==
  /\ reaper = {} /\ expired # {} /\ expired \subseteq Tracked
  /\ jobs' = [r \in Requests |-> IF r \in expired THEN None ELSE jobs[r]]
  /\ jobsByClient' = [c \in Clients |-> jobsByClient[c] \ {r \in expired : HeldBy(r, c)}]
  /\ reaper' = {[req |-> r, client |-> jobs[r].client] : r \in expired}
  /\ dropped' = dropped \cup expired
  /\ UNCHANGED <<queue, sched, signal, conn, inFlight, localBusy, draining, slots, reader, caller,
                 inbox, work, sent, yields, seen, peak>>

(* Mutant: an expired lease keeps its slot. *)
LeaseFreeLeaks(e) ==
  /\ e \in reaper
  /\ reaper' = reaper \ {e}
  /\ signal' = (signal \/ reaper = {e})
  /\ UNCHANGED <<queue, sched, hubVars, reader, caller, inbox, work, histVars>>

(* ... and then frees their slots one by one and wakes the scheduler. *)
LeaseFree(e) ==
  /\ e \in reaper
  /\ DecrById(e.client)
  /\ reaper' = reaper \ {e}
  /\ signal' = (signal \/ reaper = {e})
  /\ UNCHANGED <<queue, sched, conn, localBusy, draining, slots, jobs, jobsByClient, reader, caller,
                 inbox, work, histVars>>

ReaperStep == \/ \E expired \in SUBSET Requests : LeaseScan(expired)
              \/ \E e \in reaper : LeaseFree(e)
-----------------------------------------------------------------------------
Next == \/ \E r \in Requests : Handler(r)
        \/ SchedStep
        \/ \E c \in Clients : HubStep(c)
        \/ \E w \in work : WorkerMsg(w)
        \/ ReaperStep

Spec == Init /\ [][Next]_vars

(* Every goroutine that can run does: the scheduler, each reader that is busy
   with a message or a cleanup, the reaper that has slots to free, a handler
   that is cancelling.  A send buffer is not found full for ever: the write
   loop empties it or drops the connection within writeWait.  Nothing is
   assumed of workers, callers, timers or leases. *)
Fairness ==
  /\ WF_vars(SchedStep)
  /\ SF_vars(SendJob)
  /\ \A c \in Clients : WF_vars(ReaderStep(c))
  /\ \A r \in Requests : WF_vars(CancelUntrack(r) \/ CancelFree(r) \/ AfterCancel(r))
  /\ WF_vars(\E e \in reaper : LeaseFree(e))

FairSpec == Spec /\ Fairness
-----------------------------------------------------------------------------
(* Properties *)

ConnStates == {"off", "open", "up", "closed", "down", "gone"}
Chunks == [n : Nat, kind : {"output", "done", "error"}]

SchedStates ==
  [pc : {"idle", "pick", "pop", "track", "send", "untrack", "uncount", "push"},
   req : Requests \cup {None}, client : Clients \cup {None}, copy : Copies \cup {None},
   room : [Clients -> Int], missed : SUBSET Requests]
ReaderStates ==
  [pc : {"off", "read", "decr", "act", "cancel", "free", "remove", "snapshot", "sweep"},
   req : Requests \cup {None}, from : {"none", "done", "error", "release", "sweep"},
   copy : Copies \cup {None}, n : Nat, client : Clients \cup {None},
   orphans : SUBSET Requests]
CallerStates ==
  [pc : {"new", "wait", "cancel", "free", "after", "done"}, kind : {"stream", "batch"},
   attempts : Nat, next : {"answer", "end", "retry"}, client : Clients \cup {None}]
WorkItems == [client : Clients, req : Requests, n : Nat]

(* Every variable has its type. *)
TypeOK ==
  /\ queue \in [Requests -> Copies \cup {None}]
  /\ sched \in SchedStates
  /\ signal \in BOOLEAN
  /\ conn \in [Clients -> ConnStates]
  /\ inFlight \in [Clients -> Int]
  /\ localBusy \in [Clients -> Nat]
  /\ draining \in [Clients -> BOOLEAN]
  /\ slots \in [Clients -> Nat]
  /\ jobs \in [Requests -> Jobs \cup {None}]
  /\ jobsByClient \in [Clients -> SUBSET Requests]
  /\ reader \in [Clients -> ReaderStates]
  /\ reaper \in SUBSET [req : Requests, client : Clients]
  /\ caller \in [Requests -> CallerStates]
  /\ inbox \in [Requests -> Seq(Chunks)]
  /\ work \in SUBSET WorkItems
  /\ sent \in [Requests -> Nat]
  /\ yields \in [Requests -> Nat]
  /\ seen \in [Requests -> SUBSET Nat]
  /\ dropped \in SUBSET Requests
  /\ peak \in [Clients -> Nat] /\ \A c \in Clients : slots[c] <= peak[c]

NoBatch == \A r \in Requests : ~ IsBatch(r)

(* Everything that has a slot of c counted: a tracked job, and every actor
   between taking a slot and tracking, or between untracking and freeing. *)
SlotHolders(c) ==
  {<<"job", r>> : r \in {r \in Requests : HeldBy(r, c)}}
  \cup {<<"caller", r>> : r \in {r \in Requests : caller[r].pc = "free" /\ caller[r].client = c}}
  \cup {<<"reaper", r>> : r \in {r \in Requests : [req |-> r, client |-> c] \in reaper}}
  \cup {<<"reader", d>> : d \in {d \in Clients :
            \/ reader[d].pc = "decr" /\ d = c
            \/ reader[d].pc = "free" /\ reader[d].client = c}}
  \cup {<<"sched", d>> : d \in {d \in {c} : sched.pc \in {"track", "uncount"} /\ sched.client = c}}

(* A connected client's counter is never less than the slots really held, and
   without batch retries it is exactly that: no order of completion, error,
   release, cancel, lease expiry, failed send and disconnect frees a slot twice
   or leaves one behind (hub.go:1200-1293, scheduler.go:453-486). *)
SlotAccounting ==
  \A c \in Clients : Connected(c) =>
    /\ inFlight[c] >= Cardinality(SlotHolders(c))
    /\ NoBatch => inFlight[c] = Cardinality(SlotHolders(c))

(* A drain works on a copy that only grows stale, and a worker may change its
   slots meanwhile; yet none is ever given more jobs than the most slots it has
   registered so far (scheduler.go:252-268, hub.go:1200-1218). *)
CapacityBound == \A c \in Clients : inFlight[c] <= peak[c]

(* Every tracked job is in the index of its client, which is where the
   disconnect sweep looks for orphans; without batch retries the index holds
   nothing else (hub.go:1230-1282). *)
JobIndex ==
  \A c \in Clients :
    LET held == {r \in Requests : HeldBy(r, c)}
    IN  held \subseteq jobsByClient[c] /\ (NoBatch => jobsByClient[c] = held)

(* When the cleanup after a connection has ended, no job is tracked against
   it any more, so no request can hang on a dead worker (hub.go:383-434). *)
NoJobOnDeadClient ==
  \A c \in Clients : conn[c] = "gone" /\ reader[c].pc = "off" =>
    /\ jobsByClient[c] = {}
    /\ \A r \in Requests : ~ HeldBy(r, c)

(* The places a request can be in on its way to an answer. *)
InHand(r) == sched.req = r /\ sched.pc \in {"track", "uncount", "push"}
Returning(r) == {c \in Clients : reader[c].req = r /\ reader[c].pc \in {"decr", "act"}}
Places(r) == {<<"queue", r>> : q \in {q \in {r} : queue[q] # None}}
             \cup {<<"jobs", r>> : q \in {q \in {r} : jobs[q] # None}}
             \cup {<<"sched", r>> : q \in {q \in {r} : InHand(q)}}
             \cup {<<"reader", c>> : c \in {c \in Returning(r) : reader[c].copy # None}}

(* A streaming request is in one place at most: no interleaving of a failed
   send, a sweep, a hand-back and a retry gives it a second copy that would run
   beside the first (scheduler.go:470-481). *)
OneCopy == \A r \in {q \in Requests : ~ IsBatch(q)} : Cardinality(Places(r)) <= 1

(* A handler that waits has its request somewhere, an answer on its way, or a
   job the hub dropped (lease, backpressure): no failure on the way loses a
   request silently (scheduler.go:461-486, hub.go:399-428). *)
NothingLost ==
  \A r \in Requests : caller[r].pc = "wait" =>
    \/ Places(r) # {} \/ Returning(r) # {} \/ inbox[r] # << >>
    \/ r \in dropped

(* The answer a caller gets never holds output of two dispatches: a job that
   has produced output is never retried (hub.go:407-410, 663-666, 714-718). *)
NoStitchedAnswer == \A r \in Requests : Cardinality(seen[r]) <= 1

(* A streaming request reaches a worker at most MaxAttempts times, not counting
   dispatches that a busy worker handed back free of charge (types.go:379-382,
   hub.go:698-718). *)
DispatchBound == \A r \in {q \in Requests : ~ IsBatch(q)} : sent[r] <= MaxAttempts + yields[r]

(* While a worker with a free slot is connected, a waiting request does not
   stay inside the router for ever: it reaches a worker, gets an answer, or the
   hub has dropped it.  A drain that gives up after a failed send leaves no
   wake-up behind; the 5-second ticker has to come to its rescue
   (scheduler.go:191-199). *)
RouterNeverStalls ==
  \A r \in Requests :
    []<>(\/ caller[r].pc # "wait" \/ jobs[r] # None \/ inbox[r] # << >> \/ r \in dropped
         \/ ~ \E c \in Clients : conn[c] = "up" /\ HasRoom(c))

(* Handing a job back for local load, any number of times, leaks no slot, loses
   no request and spends or hides no attempt (hub.go:682-729). *)
HandBackSafe == SlotAccounting /\ NothingLost /\ DispatchBound

(* DispatchBound as types.go:379 states it: for every request. *)
MaxAttemptsIsTotal == \A r \in Requests : sent[r] <= MaxAttempts + yields[r]

(* cancelRequest takes a request off the queue or off its worker, so once a
   handler has given up its request is not running (handler.go:246-254). *)
CancelledIsNotRunning ==
  \A r \in Requests : caller[r].pc = "done" /\ caller[r].next = "end" => jobs[r] = None

(* A queued request carries the name its caller asked for, so that a retry
   resolves the alias again (scheduler.go:444-447, types.go:120-124). *)
QueuedUnderRequestedName == \A r \in Requests : queue[r] # None => queue[r].model = Alias
=============================================================================
