-------------------------------- MODULE Relay --------------------------------
(***************************************************************************)
(* How answers travel inside the router: the correlation store that hands  *)
(* a worker's chunks to the waiting HTTP handler (correlation/store.go),   *)
(* the registry that coalesces identical requests (dedup/dedup.go), and    *)
(* the handlers between them (enqueue, streamResponse, batchResponse and   *)
(* pumpForFollowers of api/handler.go), up to shutdown (main.go).          *)
(*                                                                         *)
(* All callers ask the same thing, so they share one content hash.  An     *)
(* entry of the registry is named by the caller that owns it.  A caller in *)
(* whole wants a single answer, the others a stream; the hash does not     *)
(* tell them apart.  The worker answers a streamed request with Texts      *)
(* pieces and an end, and a whole one with at most one keep-alive and an   *)
(* end that carries everything.                                            *)
(***************************************************************************)
EXTENDS Integers, Sequences, FiniteSets

CONSTANTS
    Caller, NoOne,
    Wholes,       \* which callers may be the ones that want a single answer
    Texts,        \* pieces of a streamed answer
    Attempts,     \* types.MaxAttempts
    ReplayCap,    \* maxReplayChunks
    SubCap,       \* buffer of a follower's channels
    ChanCap       \* chanBuffer of the correlation store

ASSUME RelayAssumption ==
    /\ IsFiniteSet(Caller) /\ Wholes \subseteq SUBSET Caller /\ NoOne \notin Caller
    /\ {Texts, Attempts, ReplayCap, SubCap, ChanCap} \subseteq Nat \ {0}

VARIABLES
    registry,   \* Registry.entries: owner of the entry for the hash, or NoOne
    entry,      \* the Entry each caller owns
    sub,        \* the subscriber each follower is
    box,        \* the channel each handler reads
    waiter,     \* each correlation entry: "none", "open", "closing", "closed"
    send,       \* Store.Send, by attempt of the request; 0 is the call in main
    hand,       \* where each handler, or the pump that took over from it, is
    job,        \* what the router and the worker do for each request
    tries,      \* req.Attempts of a handler
    got,        \* pieces of the answer each caller has: <<attempt, piece>>
    told,       \* callers that were told their answer is complete
    shut,       \* the shutdown goroutine
    whole       \* the callers that want a single answer; fixed

sharedVars == <<registry, entry, sub>>
callerVars == <<hand, tries, got, told>>
relayVars == <<sharedVars, box, waiter, send, callerVars, job, shut, whole>>

Sender == 0 .. Attempts
Chunk == [kind : {"ping", "text", "done", "cut"}, by : Sender, n : 0 .. Texts]
Last(chunk) == chunk.kind \in {"done", "cut"}

NewEntry == [chunks |-> << >>, subs |-> {}, done |-> FALSE, dropped |-> FALSE]
NewSub == [ch |-> << >>, overflow |-> FALSE, delivered |-> FALSE, closed |-> FALSE]
NewBox == [q |-> << >>, closed |-> FALSE, cap |-> ChanCap]
NotSending == << >>
NoJob == [at |-> "none", att |-> 0, n |-> 0]

RelayTypeOK ==
    /\ registry \in Caller \cup {NoOne}
    /\ \A c \in Caller :
         /\ entry[c].chunks \in Seq(Chunk) /\ Len(entry[c].chunks) <= ReplayCap
         /\ entry[c].subs \subseteq Caller \ {c}
         /\ sub[c].ch \in Seq(Chunk) /\ Len(sub[c].ch) <= SubCap
         /\ box[c].q \in Seq(Chunk) /\ Len(box[c].q) <= box[c].cap
         /\ waiter[c] \in {"none", "open", "closing", "closed"}
         /\ hand[c] \in {"new", "submit", "read", "pump", "delete", "closing", "unregister",
                         "spin", "end"}
         /\ job[c] \in [at : {"none", "queued", "running"}, att : 0 .. Attempts, n : 0 .. Texts]
         /\ tries[c] \in 0 .. Attempts
    /\ told \subseteq Caller
    /\ shut.pc \in {"no", "send", "drain"} /\ shut.todo \subseteq Caller

RelayInit ==
    /\ registry = NoOne
    /\ entry = [c \in Caller |-> NewEntry]
    /\ sub = [c \in Caller |-> NewSub]
    /\ box = [c \in Caller |-> NewBox]
    /\ waiter = [c \in Caller |-> "none"]
    /\ send = [c \in Caller |-> [a \in Sender |-> NotSending]]
    /\ hand = [c \in Caller |-> "new"]
    /\ job = [c \in Caller |-> NoJob]
    /\ tries = [c \in Caller |-> 0]
    /\ got = [c \in Caller |-> << >>]
    /\ told = {}
    /\ shut = [pc |-> "no", todo |-> {}]
    /\ whole \in Wholes

Original(c) == registry = c
Follower(c) == waiter[c] = "none" /\ hand[c] = "read"

-------------------------------------------------------------------------------
(* The registry.                                                            *)

\* What one chunk does to a follower: into its channel, or it has lost data.  A
\* follower that has left is still served, but what it gets is not recorded.
Offered(s, chunk) ==
    IF s.overflow THEN s
    ELSE IF Len(s.ch) < SubCap THEN [s EXCEPT !.ch = Append(@, chunk), !.delivered = TRUE]
    ELSE [s EXCEPT !.overflow = TRUE]

MutantBuffered(e, chunk) ==
    IF e.dropped THEN e
    ELSE IF Len(e.chunks) > ReplayCap THEN [e EXCEPT !.dropped = TRUE, !.chunks = << >>]
    ELSE [e EXCEPT !.chunks = Append(@, chunk)]

Buffered(e, chunk) ==
    IF e.dropped THEN e
    ELSE IF Len(e.chunks) >= ReplayCap THEN [e EXCEPT !.dropped = TRUE, !.chunks = << >>]
    ELSE [e EXCEPT !.chunks = Append(@, chunk)]

Forward(c, chunk) ==
    LET e == Buffered(entry[c], chunk)
    IN  /\ entry' = [entry EXCEPT ![c] = IF Last(chunk)
                                         THEN [e EXCEPT !.done = TRUE, !.subs = {}] ELSE e]
        /\ sub' = [f \in Caller |->
                     IF f \notin entry[c].subs \/ hand[f] = "end" THEN sub[f]
                     ELSE [Offered(sub[f], chunk) EXCEPT !.closed = Last(chunk)]]

\* Reset: followers that saw the abandoned attempt cannot be rewound.
Reset(c) ==
    /\ entry' = [entry EXCEPT ![c].chunks = IF entry[c].done THEN @ ELSE << >>]
    /\ sub' = [f \in Caller |->
                 IF f \in entry[c].subs /\ (sub[f].ch # << >> \/ sub[f].delivered)
                 THEN [sub[f] EXCEPT !.overflow = TRUE] ELSE sub[f]]

HasSubscribers(c) == ~entry[c].done /\ entry[c].subs # {}

\* What a handler that has ended held.
Forget(c) ==
    /\ box' = [box EXCEPT ![c] = NewBox]
    /\ tries' = [tries EXCEPT ![c] = 0]
    /\ got' = [got EXCEPT ![c] = << >>]
    /\ told' = told \ {c}

\* The deferred Unregister, which closes the channels an end has not closed.  A
\* follower has none, and only returns.
MutantUnregister(c) ==
    /\ hand[c] = "unregister"
    /\ hand' = [hand EXCEPT ![c] = "end"]
    /\ registry' = IF Original(c) THEN NoOne ELSE registry
    /\ entry' = [entry EXCEPT ![c] = NewEntry]
    /\ Forget(c)
    /\ UNCHANGED <<sub, waiter, send, job, shut>>

Unregister(c) ==
    /\ hand[c] = "unregister"
    /\ hand' = [hand EXCEPT ![c] = "end"]
    /\ registry' = IF Original(c) THEN NoOne ELSE registry
    /\ entry' = [entry EXCEPT ![c] = NewEntry]
    /\ Forget(c)
    /\ sub' = [f \in Caller |-> IF f = c THEN NewSub
                                ELSE IF f \in entry[c].subs /\ hand[f] # "end"
                                THEN [sub[f] EXCEPT !.closed = TRUE]
                                ELSE sub[f]]
    /\ UNCHANGED <<waiter, send, job, shut>>

-------------------------------------------------------------------------------
(* The correlation store.                                                   *)

Room(c) == Len(box[c].q) < box[c].cap
Senders(c) == {a \in Sender : send[c][a] # NotSending}

\* Send looks the entry up and joins its senders under the shard lock; without
\* an entry the message is dropped.
Joined(c, a, chunk) ==
    IF waiter[c] = "open" THEN [send EXCEPT ![c][a] = <<chunk>>] ELSE send

\* Then it delivers, or finds the entry closing, or gives up waiting for room:
\* OnChunk then cancels the request, which the call in main does not.
SendStep(c, a) ==
    /\ send[c][a] # NotSending
    /\ \/ /\ Room(c)
          /\ box' = [box EXCEPT ![c].q = @ \o send[c][a]]
          /\ UNCHANGED job
       \/ /\ waiter[c] = "closing"
          /\ UNCHANGED <<box, job>>
       \/ /\ ~Room(c)
          /\ job' = IF a = 0 THEN job ELSE [job EXCEPT ![c] = NoJob]
          /\ UNCHANGED box
    /\ send' = [send EXCEPT ![c][a] = NotSending]
    /\ UNCHANGED <<sharedVars, waiter, callerVars, shut>>

\* Delete takes the entry out of its shard and closes done.  An entry that
\* shutdown has taken is not there any more.  Whatever the worker says from here
\* on Send drops, so the job is forgotten with the entry.
Delete(c) ==
    /\ hand[c] = "delete"
    /\ IF waiter[c] = "open"
       THEN /\ waiter' = [waiter EXCEPT ![c] = "closing"]
            /\ hand' = [hand EXCEPT ![c] = "closing"]
            /\ job' = [job EXCEPT ![c] = NoJob]
       ELSE /\ hand' = [hand EXCEPT ![c] = "unregister"]
            /\ UNCHANGED <<waiter, job>>
    /\ UNCHANGED <<sharedVars, box, send, tries, got, told, shut>>

\* entry.close closes the channel when the last sender has left.
MutantCloseChannel(c) ==
    /\ waiter[c] = "closing"
    /\ waiter' = [waiter EXCEPT ![c] = "closed"]
    /\ box' = [box EXCEPT ![c].closed = TRUE]
    /\ hand' = [hand EXCEPT ![c] = IF @ = "closing" THEN "unregister" ELSE @]
    /\ UNCHANGED <<sharedVars, send, tries, got, told, job, shut>>

CloseChannel(c) ==
    /\ waiter[c] = "closing" /\ Senders(c) = {}
    /\ waiter' = [waiter EXCEPT ![c] = "closed"]
    /\ box' = [box EXCEPT ![c].closed = TRUE]
    /\ hand' = [hand EXCEPT ![c] = IF @ = "closing" THEN "unregister" ELSE @]
    /\ UNCHANGED <<sharedVars, send, tries, got, told, job, shut>>

-------------------------------------------------------------------------------
(* The router's queue and the worker, as far as an answer depends on them.  *)

Dispatched(c) ==
    /\ job[c].at = "queued" /\ shut.pc = "no"
    /\ job' = [job EXCEPT ![c].at = "running"]
    /\ UNCHANGED <<sharedVars, box, waiter, send, callerVars, shut>>

\* The worker's next message, read by the hub, which calls Send.
WorkerSays(c) ==
    LET j     == job[c]
        ping  == [kind |-> "ping", by |-> j.att, n |-> 0]
        text  == [kind |-> "text", by |-> j.att, n |-> j.n + 1]
        done  == [kind |-> "done", by |-> j.att, n |-> IF c \in whole THEN Texts ELSE 0]
    IN  /\ j.at = "running" /\ send[c][j.att] = NotSending
        /\ \/ /\ c \in whole /\ j.n = 0
              /\ send' = Joined(c, j.att, ping) /\ job' = [job EXCEPT ![c].n = 1]
           \/ /\ c \notin whole /\ j.n < Texts
              /\ send' = Joined(c, j.att, text) /\ job' = [job EXCEPT ![c].n = @ + 1]
           \/ /\ c \in whole \/ j.n = Texts
              /\ send' = Joined(c, j.att, done) /\ job' = [job EXCEPT ![c] = NoJob]
        /\ UNCHANGED <<sharedVars, box, waiter, callerVars, shut>>

-------------------------------------------------------------------------------
(* The handlers.                                                            *)

\* RegisterOrSubscribe, and MakeSubscriberChan for a follower.
MutantEnter(c) ==
    LET e == entry[registry]
    IN  /\ hand[c] = "new"
        /\ IF registry = NoOne
           THEN /\ registry' = c /\ hand' = [hand EXCEPT ![c] = "submit"]
                /\ UNCHANGED <<entry, sub, box>>
           ELSE /\ hand' = [hand EXCEPT ![c] = "read"]
                /\ box' = [box EXCEPT ![c] = [q |-> e.chunks, closed |-> e.done,
                                              cap |-> Len(e.chunks) + SubCap]]
                /\ entry' = [entry EXCEPT ![registry].subs = IF e.done THEN @ ELSE @ \cup {c}]
                /\ UNCHANGED <<registry, sub>>
        /\ UNCHANGED <<waiter, send, tries, got, told, job, shut>>

Enter(c) ==
    LET e == entry[registry]
    IN  /\ hand[c] = "new"
        /\ \/ /\ registry = NoOne
              /\ registry' = c /\ hand' = [hand EXCEPT ![c] = "submit"]
              /\ UNCHANGED <<entry, sub, box>>
           \/ /\ registry # NoOne /\ e.dropped
              /\ hand' = [hand EXCEPT ![c] = "submit"]
              /\ UNCHANGED <<registry, entry, sub, box>>
           \/ /\ registry # NoOne /\ ~e.dropped
              /\ hand' = [hand EXCEPT ![c] = "read"]
              /\ box' = [box EXCEPT ![c] = [q |-> e.chunks, closed |-> e.done,
                                            cap |-> Len(e.chunks) + SubCap]]
              /\ entry' = [entry EXCEPT ![registry].subs = IF e.done THEN @ ELSE @ \cup {c}]
              /\ UNCHANGED <<registry, sub>>
        /\ UNCHANGED <<waiter, send, tries, got, told, job, shut>>

\* Create and TryPush, which a full queue refuses.
Submit(c) ==
    /\ hand[c] = "submit"
    /\ \/ /\ waiter' = [waiter EXCEPT ![c] = "open"]
          /\ job' = [job EXCEPT ![c] = [at |-> "queued", att |-> 1, n |-> 0]]
          /\ hand' = [hand EXCEPT ![c] = "read"]
          /\ UNCHANGED box
       \/ /\ waiter' = [waiter EXCEPT ![c] = "closed"]
          /\ box' = [box EXCEPT ![c].closed = TRUE]
          /\ hand' = [hand EXCEPT ![c] = "unregister"]
          /\ UNCHANGED job
    /\ UNCHANGED <<sharedVars, send, tries, got, told, shut>>

\* A follower has nothing to clean up.
Leave(c) == [hand EXCEPT ![c] = IF Follower(c) THEN "unregister" ELSE "delete"]

Pieces(chunk) ==
    CASE chunk.kind = "text" -> << <<chunk.by, chunk.n>> >>
      [] chunk.kind = "done" -> [i \in 1 .. chunk.n |-> <<chunk.by, i>>]
      [] OTHER -> << >>

\* One chunk: the original passes it on, and everyone takes its pieces.
ReadChunk(c) ==
    LET chunk == Head(box[c].q)
    IN  /\ hand[c] = "read" /\ box[c].q # << >>
        /\ box' = [box EXCEPT ![c].q = Tail(@)]
        /\ IF Original(c) THEN Forward(c, chunk) ELSE UNCHANGED <<entry, sub>>
        /\ got' = [got EXCEPT ![c] = @ \o Pieces(chunk)]
        /\ IF Last(chunk)
           THEN /\ told' = IF chunk.kind = "done" THEN told \cup {c} ELSE told
                /\ hand' = Leave(c)
           ELSE UNCHANGED <<told, hand>>
        /\ UNCHANGED <<registry, waiter, send, tries, job, shut>>

\* A channel that closes without an end is a failure.
ReadClosed(c) ==
    /\ hand[c] = "read" /\ box[c].q = << >> /\ box[c].closed
    /\ hand' = Leave(c)
    /\ UNCHANGED <<sharedVars, box, waiter, send, tries, got, told, job, shut>>

\* cancelRequest: out of the queue, or away from the worker.
Cancel(c) == job' = [job EXCEPT ![c] = NoJob]

\* A timer of streamResponse, or the last one of batchResponse.
GiveUp(c) ==
    /\ hand[c] = "read" /\ (c \in whole => tries[c] + 1 >= Attempts)
    /\ hand' = Leave(c) /\ Cancel(c)
    /\ UNCHANGED <<sharedVars, box, waiter, send, tries, got, told, shut>>

\* batchResponse's timer before that: cancel, throw away what has come, run again.
\* A closed channel never runs empty, so throwing away does not end.
BatchTimeout(c) ==
    /\ hand[c] = "read" /\ c \in whole /\ tries[c] + 1 < Attempts
    /\ tries' = [tries EXCEPT ![c] = @ + 1]
    /\ IF box[c].closed
       THEN /\ hand' = [hand EXCEPT ![c] = "spin"] /\ Cancel(c)
            /\ box' = [box EXCEPT ![c].q = << >>]
            /\ UNCHANGED <<entry, sub, got>>
       ELSE /\ box' = [box EXCEPT ![c].q = << >>]
            /\ got' = [got EXCEPT ![c] = << >>]
            /\ IF Original(c) THEN Reset(c) ELSE UNCHANGED <<entry, sub>>
            /\ job' = IF waiter[c] = "open"
                      THEN [job EXCEPT ![c] = [at |-> "queued", att |-> tries[c] + 2, n |-> 0]]
                      ELSE job   \* what a follower pushes is run for nobody
            /\ UNCHANGED hand
    /\ UNCHANGED <<registry, waiter, send, told, shut>>

\* The caller hangs up: an original with followers leaves the stream to a pump.
HangUp(c) ==
    /\ hand[c] = "read"
    /\ IF Original(c) /\ HasSubscribers(c)
       THEN hand' = [hand EXCEPT ![c] = "pump"] /\ UNCHANGED job
       ELSE hand' = Leave(c) /\ Cancel(c)
    /\ UNCHANGED <<sharedVars, box, waiter, send, tries, got, told, shut>>

PumpChunk(c) ==
    LET chunk == Head(box[c].q)
    IN  /\ hand[c] = "pump" /\ box[c].q # << >>
        /\ box' = [box EXCEPT ![c].q = Tail(@)]
        /\ Forward(c, chunk)
        /\ hand' = [hand EXCEPT ![c] = IF Last(chunk) \/ entry[c].subs = {} THEN "delete" ELSE @]
        /\ job' = IF ~Last(chunk) /\ entry[c].subs = {} THEN [job EXCEPT ![c] = NoJob] ELSE job
        /\ UNCHANGED <<registry, waiter, send, tries, got, told, shut>>

\* Its channel has closed, or the worker has been silent too long.
PumpStops(c) ==
    /\ hand[c] = "pump"
    /\ IF box[c].q = << >> /\ box[c].closed THEN UNCHANGED job ELSE Cancel(c)
    /\ hand' = [hand EXCEPT ![c] = "delete"]
    /\ UNCHANGED <<sharedVars, box, waiter, send, tries, got, told, shut>>

\* MakeSubscriberChan's goroutine copies one chunk, or closes its channel.
Copy(c) ==
    /\ Follower(c) /\ ~box[c].closed
    /\ \/ /\ sub[c].ch # << >> /\ Room(c)
          /\ box' = [box EXCEPT ![c].q = Append(@, Head(sub[c].ch))]
          /\ sub' = [sub EXCEPT ![c].ch = Tail(@)]
       \/ /\ sub[c].ch = << >> /\ sub[c].closed
          /\ box' = [box EXCEPT ![c].closed = TRUE]
          /\ UNCHANGED sub
    /\ UNCHANGED <<registry, entry, waiter, send, callerVars, job, shut>>

-------------------------------------------------------------------------------
(* Shutdown: the queue is emptied and its requests told, then every entry.  *)

Cut == [kind |-> "cut", by |-> 0, n |-> 0]
MainIdle == \A c \in Caller : send[c][0] = NotSending

ShutBegins ==
    /\ shut.pc = "no"
    /\ shut' = [pc |-> "send", todo |-> {c \in Caller : job[c].at = "queued"}]
    /\ job' = [c \in Caller |-> IF job[c].at = "queued" THEN NoJob ELSE job[c]]
    /\ UNCHANGED <<sharedVars, box, waiter, send, callerVars>>

ShutSends(c) ==
    /\ shut.pc = "send" /\ c \in shut.todo /\ MainIdle
    /\ send' = Joined(c, 0, Cut)
    /\ shut' = [shut EXCEPT !.todo = @ \ {c}]
    /\ UNCHANGED <<sharedVars, box, waiter, callerVars, job>>

ShutDrains ==
    /\ shut.pc = "send" /\ shut.todo = {} /\ MainIdle
    /\ shut' = [pc |-> "drain", todo |-> {c \in Caller : hand[c] # "end"}]
    /\ UNCHANGED <<sharedVars, box, waiter, send, callerVars, job>>

\* DrainAll, one shard after another; it waits for each channel to close.
DrainEntry(c) ==
    /\ shut.pc = "drain" /\ c \in shut.todo
    /\ \A d \in Caller \ shut.todo : waiter[d] = "closing" => hand[d] = "closing"
    /\ shut' = [shut EXCEPT !.todo = @ \ {c}]
    /\ IF waiter[c] = "open"
       THEN /\ waiter' = [waiter EXCEPT ![c] = "closing"]
            /\ box' = [box EXCEPT ![c].q = IF Room(c) THEN Append(@, Cut) ELSE @]
            /\ job' = [job EXCEPT ![c] = NoJob]
       ELSE UNCHANGED <<waiter, box, job>>
    /\ UNCHANGED <<sharedVars, send, callerVars>>

-------------------------------------------------------------------------------
CleanUp(c) == Delete(c) \/ CloseChannel(c) \/ Unregister(c)
Reads(c) == ReadChunk(c) \/ ReadClosed(c)

RelayNext ==
    /\ \/ \E c \in Caller :
             \/ Enter(c) \/ Submit(c) \/ Reads(c) \/ GiveUp(c) \/ BatchTimeout(c) \/ HangUp(c)
             \/ PumpChunk(c) \/ PumpStops(c) \/ Copy(c) \/ CleanUp(c)
             \/ Dispatched(c) \/ WorkerSays(c)
             \/ \E a \in Sender : SendStep(c, a)
             \/ ShutSends(c) \/ DrainEntry(c)
       \/ ShutBegins \/ ShutDrains
    /\ UNCHANGED whole

RelaySpec == RelayInit /\ [][RelayNext]_relayVars

\* Goroutines run when they can.  Timers fire in the end for a handler that
\* waits for a worker; for a follower none is assumed.
RelayFairness ==
    \A c \in Caller :
        /\ WF_relayVars(Submit(c) /\ UNCHANGED whole)
        /\ WF_relayVars(Reads(c) /\ UNCHANGED whole)
        /\ WF_relayVars(~Follower(c) /\ (GiveUp(c) \/ BatchTimeout(c)) /\ UNCHANGED whole)
        /\ WF_relayVars(PumpStops(c) /\ UNCHANGED whole)
        /\ WF_relayVars(Copy(c) /\ UNCHANGED whole)
        /\ WF_relayVars(CleanUp(c) /\ UNCHANGED whole)
        /\ \A a \in Sender : WF_relayVars(SendStep(c, a) /\ UNCHANGED whole)

RelayFairSpec == RelaySpec /\ RelayFairness

-------------------------------------------------------------------------------
(* Properties.                                                              *)

\* A goroutine that is inside Send never meets a closed channel, on which it
\* would panic, whoever closes it and whenever (store.go:42-62, 118-132).
NoSendOnClosed ==
    \A c \in Caller : Senders(c) # {} => waiter[c] # "closed"

OfOneAttempt(s) == \E a \in 1 .. Attempts : s = [i \in 1 .. Texts |-> <<a, i>>]

\* A caller of a stream that is told its answer is complete has all of it, once,
\* in order and from one attempt, although it joined late, replayed a buffer that
\* grew meanwhile, fell behind, or its original retried (dedup.go:123-134,
\* 168-190, 222-243).
StreamIsWhole ==
    \A c \in Caller \ whole : c \in told => OfOneAttempt(got[c])

\* Nobody is left waiting: the handler of a stream ends, and a follower does so
\* without its own timer, because whoever serves its original tells it.  (The one
\* exception is an original caught in the endless loop of BatchTimeout.)
StreamsEnd ==
    \A c \in Caller :
        hand[c] = "read" /\ c \notin whole
            ~> hand[c] = "end" \/ \E o \in Caller : hand[o] = "spin"
===============================================================================
