---------------------------- MODULE Relay_proofs -----------------------------
(***************************************************************************)
(* The way of an answer inside the router, for every set of callers,       *)
(* length of an answer, number of attempts and size of the buffers.        *)
(***************************************************************************)
EXTENDS Relay, TLAPS

-----------------------------------------------------------------------------
(* Types.                                                                  *)

Hands == {"new", "submit", "read", "pump", "delete", "closing", "unregister", "spin", "end"}
Waits == {"none", "open", "closing", "closed"}
Jobs == [at : {"none", "queued", "running"}, att : 0 .. Attempts, n : 0 .. Texts]
Entries == [chunks : Seq(Chunk), subs : SUBSET Caller, done : BOOLEAN, dropped : BOOLEAN]
Subs == [ch : Seq(Chunk), overflow : BOOLEAN, delivered : BOOLEAN, closed : BOOLEAN]
Boxes == [q : Seq(Chunk), closed : BOOLEAN, cap : Nat]
Sends == {NotSending} \cup {<<chunk>> : chunk \in Chunk}

EntryOK(c, e) == e \in Entries /\ Len(e.chunks) <= ReplayCap /\ c \notin e.subs
SubOK(s) == s \in Subs /\ Len(s.ch) <= SubCap
BoxOK(b) == b \in Boxes /\ Len(b.q) <= b.cap

SharedTyped ==
    /\ registry \in Caller \cup {NoOne}
    /\ DOMAIN entry = Caller /\ \A c \in Caller : EntryOK(c, entry[c])
    /\ DOMAIN sub = Caller /\ \A c \in Caller : SubOK(sub[c])
StoreTyped ==
    /\ DOMAIN box = Caller /\ \A c \in Caller : BoxOK(box[c])
    /\ waiter \in [Caller -> Waits]
    /\ send \in [Caller -> [Sender -> Sends]]
CallerTyped ==
    /\ hand \in [Caller -> Hands] /\ tries \in [Caller -> 0 .. Attempts]
    /\ got \in [Caller -> Seq(Sender \X (0 .. Texts))] /\ told \subseteq Caller
RestTyped ==
    /\ job \in [Caller -> Jobs]
    /\ shut \in [pc : {"no", "send", "drain"}, todo : SUBSET Caller]
    /\ whole \in Wholes

\* The owner of the registered entry has entered.
OwnerEntered == registry # NoOne => hand[registry] # "new"

RelayTyped == SharedTyped /\ StoreTyped /\ CallerTyped /\ RestTyped /\ OwnerEntered

(* A chunk the worker or the shutdown sends is a chunk (WorkerSays, Cut). *)
LEMMA EmptyIsTyped ==
  /\ RelayAssumption => /\ Texts \in Nat \ {0} /\ Attempts \in Nat \ {0} /\ ReplayCap \in Nat \ {0}
                        /\ SubCap \in Nat \ {0} /\ ChanCap \in Nat \ {0}
  /\ Cut \in Chunk
  /\ NewEntry \in Entries /\ NewSub \in Subs
PROOF
<1>1. RelayAssumption => /\ Texts \in Nat \ {0} /\ Attempts \in Nat \ {0} /\ ReplayCap \in Nat \ {0}
                         /\ SubCap \in Nat \ {0} /\ ChanCap \in Nat \ {0}
  BY DEF RelayAssumption
<1>2. Cut \in Chunk
  BY <1>1, RelayAssumption DEF Cut, Chunk, Sender
<1>3. NewEntry \in Entries /\ NewSub \in Subs
  BY DEF NewEntry, NewSub, Entries, Subs
<1> QED
  BY <1>1, <1>2, <1>3

(* Offering a chunk to a follower keeps its channel within its buffer
   (dedup.go Forward: the send that would block is counted as a loss). *)
LEMMA OfferedOK ==
  ASSUME NEW s, SubOK(s), NEW chunk \in Chunk
  PROVE  SubOK(Offered(s, chunk))
<1>1. SubCap \in Nat /\ s \in Subs /\ s.ch \in Seq(Chunk) /\ Len(s.ch) \in Nat /\ Len(s.ch) <= SubCap
  BY EmptyIsTyped, RelayAssumption DEF SubOK, Subs
<1>2. CASE s.overflow
  BY <1>2 DEF Offered
<1>3. CASE ~s.overflow /\ Len(s.ch) < SubCap
  <2>1. Append(s.ch, chunk) \in Seq(Chunk) /\ Len(Append(s.ch, chunk)) = Len(s.ch) + 1
    BY <1>1
  <2> DEFINE q == Append(s.ch, chunk)
  <2> HIDE DEF q
  <2>2. [s EXCEPT !.ch = q, !.delivered = TRUE] \in Subs /\ [s EXCEPT !.ch = q, !.delivered = TRUE].ch = q
    BY <1>1, <2>1 DEF Subs, q
  <2>3. Offered(s, chunk) = [s EXCEPT !.ch = q, !.delivered = TRUE]
    BY <1>1, <1>3 DEF Offered, q
  <2> QED
    BY <1>1, <1>3, <2>1, <2>2, <2>3 DEF SubOK, q
<1>4. CASE ~s.overflow /\ ~(Len(s.ch) < SubCap)
  <2>1. [s EXCEPT !.overflow = TRUE] \in Subs /\ [s EXCEPT !.overflow = TRUE].ch = s.ch
    BY <1>1 DEF Subs
  <2> QED
    BY <1>1, <1>4, <2>1 DEF SubOK, Offered
<1> QED
  BY <1>2, <1>3, <1>4

(* The replay buffer never outgrows maxReplayChunks: the chunk that would not
   fit drops the buffer (dedup.go Forward). *)
LEMMA BufferedOK ==
  ASSUME NEW c \in Caller, NEW e, EntryOK(c, e), NEW chunk \in Chunk
  PROVE  EntryOK(c, Buffered(e, chunk)) /\ Buffered(e, chunk).subs = e.subs
<1>1. /\ ReplayCap \in Nat /\ e \in Entries /\ e.chunks \in Seq(Chunk) /\ Len(e.chunks) \in Nat
      /\ Len(e.chunks) <= ReplayCap
  BY EmptyIsTyped, RelayAssumption DEF EntryOK, Entries
<1>2. CASE e.dropped
  BY <1>2 DEF Buffered
<1>3. CASE ~e.dropped /\ Len(e.chunks) >= ReplayCap
  <2> DEFINE q == << >>
  <2>1. q \in Seq(Chunk) /\ Len(q) = 0
    OBVIOUS
  <2>2. Buffered(e, chunk) = [e EXCEPT !.dropped = TRUE, !.chunks = q]
    BY <1>1, <1>3 DEF Buffered
  <2> HIDE DEF q
  <2>3. /\ [e EXCEPT !.dropped = TRUE, !.chunks = q] \in Entries
        /\ [e EXCEPT !.dropped = TRUE, !.chunks = q].chunks = q
        /\ [e EXCEPT !.dropped = TRUE, !.chunks = q].subs = e.subs
    BY <1>1, <2>1 DEF Entries
  <2> QED
    BY <1>1, <2>1, <2>2, <2>3 DEF EntryOK
<1>4. CASE ~e.dropped /\ ~(Len(e.chunks) >= ReplayCap)
  <2> DEFINE q == Append(e.chunks, chunk)
  <2>1. q \in Seq(Chunk) /\ Len(q) = Len(e.chunks) + 1
    BY <1>1
  <2> HIDE DEF q
  <2>2. /\ [e EXCEPT !.chunks = q] \in Entries
        /\ [e EXCEPT !.chunks = q].chunks = q
        /\ [e EXCEPT !.chunks = q].subs = e.subs
    BY <1>1, <2>1 DEF Entries
  <2>3. Buffered(e, chunk) = [e EXCEPT !.chunks = q]
    BY <1>1, <1>4 DEF Buffered, q
  <2> QED
    BY <1>1, <1>4, <2>1, <2>2, <2>3 DEF EntryOK
<1> QED
  BY <1>2, <1>3, <1>4

(* One chunk forwarded keeps every entry and every follower typed (dedup.go
   Forward). *)
LEMMA ForwardOK ==
  ASSUME SharedTyped, NEW c \in Caller, NEW chunk \in Chunk, Forward(c, chunk)
  PROVE  /\ DOMAIN entry' = Caller /\ \A d \in Caller : EntryOK(d, entry'[d])
         /\ DOMAIN sub' = Caller /\ \A f \in Caller : SubOK(sub'[f])
<1> DEFINE e == Buffered(entry[c], chunk)
           new == IF Last(chunk) THEN [e EXCEPT !.done = TRUE, !.subs = {}] ELSE e
<1>1. EntryOK(c, e)
  BY BufferedOK DEF SharedTyped
<1>2. EntryOK(c, new)
  <2> HIDE DEF e
  <2>1. [e EXCEPT !.done = TRUE, !.subs = {}] \in Entries /\ [e EXCEPT !.done = TRUE, !.subs = {}].subs = {}
        /\ [e EXCEPT !.done = TRUE, !.subs = {}].chunks = e.chunks
    BY <1>1 DEF EntryOK, Entries
  <2> QED
    BY <1>1, <2>1 DEF EntryOK
<1>3. entry' = [entry EXCEPT ![c] = new]
  BY DEF Forward
<1> HIDE DEF new
<1>4. DOMAIN entry' = Caller /\ \A d \in Caller : EntryOK(d, entry'[d])
  BY <1>2, <1>3 DEF SharedTyped
<1>5. ASSUME NEW f \in Caller PROVE SubOK(sub'[f])
  <2> DEFINE s == Offered(sub[f], chunk)
  <2>1. SubOK(s)
    BY OfferedOK DEF SharedTyped
  <2> HIDE DEF s
  <2>2. Last(chunk) \in BOOLEAN
    BY DEF Last
  <2>3. [s EXCEPT !.closed = Last(chunk)] \in Subs /\ [s EXCEPT !.closed = Last(chunk)].ch = s.ch
    BY <2>1, <2>2 DEF SubOK, Subs
  <2>4. sub'[f] = sub[f] \/ sub'[f] = [s EXCEPT !.closed = Last(chunk)]
    BY DEF Forward, s
  <2> QED
    BY <2>1, <2>3, <2>4 DEF SubOK, SharedTyped
<1>6. DOMAIN sub' = Caller
  BY DEF Forward
<1> QED
  BY <1>4, <1>5, <1>6

(* So does a reset after an abandoned attempt (dedup.go Reset). *)
LEMMA ResetOK ==
  ASSUME SharedTyped, NEW c \in Caller, Reset(c)
  PROVE  /\ DOMAIN entry' = Caller /\ \A d \in Caller : EntryOK(d, entry'[d])
         /\ DOMAIN sub' = Caller /\ \A f \in Caller : SubOK(sub'[f])
<1>1. \A q \in {entry[c].chunks, << >>} :
         EntryOK(c, [entry[c] EXCEPT !.chunks = q])
  <2> SUFFICES ASSUME NEW q \in {entry[c].chunks, << >>} PROVE EntryOK(c, [entry[c] EXCEPT !.chunks = q])
    OBVIOUS
  <2>1. entry[c] \in Entries /\ c \notin entry[c].subs /\ Len(entry[c].chunks) <= ReplayCap
    BY DEF SharedTyped, EntryOK
  <2>2. q \in Seq(Chunk) /\ Len(q) <= ReplayCap
    <3>1. << >> \in Seq(Chunk) /\ Len(<< >>) = 0 /\ ReplayCap \in Nat
      BY EmptyIsTyped, RelayAssumption
    <3>2. entry[c].chunks \in Seq(Chunk)
      BY <2>1 DEF Entries
    <3>3. CASE q = << >>
      BY <3>1, <3>3
    <3>4. CASE q = entry[c].chunks
      BY <2>1, <3>2, <3>4
    <3> QED
      BY <3>3, <3>4
  <2> QED
    BY <2>1, <2>2 DEF EntryOK, Entries
<1>2. PICK q \in {entry[c].chunks, << >>} : entry' = [entry EXCEPT ![c] = [entry[c] EXCEPT !.chunks = q]]
  BY DEF Reset
<1>3. DOMAIN entry' = Caller /\ \A d \in Caller : EntryOK(d, entry'[d])
  BY <1>1, <1>2 DEF SharedTyped
<1>4. ASSUME NEW f \in Caller PROVE SubOK(sub'[f])
  <2> DEFINE lost == [sub[f] EXCEPT !.overflow = TRUE]
  <2>1. SubOK(sub[f])
    BY DEF SharedTyped
  <2>2. lost \in Subs /\ lost.ch = sub[f].ch
    BY <2>1 DEF SubOK, Subs
  <2>3. sub'[f] = sub[f] \/ sub'[f] = lost
    BY DEF Reset
  <2> HIDE DEF lost
  <2> QED
    BY <2>1, <2>2, <2>3 DEF SubOK
<1>5. DOMAIN sub' = Caller
  BY DEF Reset
<1> QED
  BY <1>3, <1>4, <1>5

(* Taking chunks out of a channel, or putting one into a channel with room,
   keeps the channel within its buffer. *)
LEMMA BoxesOK ==
  ASSUME NEW b, BoxOK(b)
  PROVE  /\ \A q \in Seq(Chunk) : Len(q) <= b.cap => BoxOK([b EXCEPT !.q = q])
         /\ BoxOK([b EXCEPT !.closed = TRUE])
         /\ BoxOK([b EXCEPT !.q = << >>])
         /\ b.q # << >> => /\ Head(b.q) \in Chunk /\ Tail(b.q) \in Seq(Chunk)
                           /\ Len(Tail(b.q)) = Len(b.q) - 1 /\ BoxOK([b EXCEPT !.q = Tail(@)])
         /\ Len(b.q) < b.cap => \A chunk \in Chunk : BoxOK([b EXCEPT !.q = Append(@, chunk)])
<1>1. b \in Boxes /\ b.q \in Seq(Chunk) /\ Len(b.q) \in Nat /\ b.cap \in Nat /\ Len(b.q) <= b.cap
  BY DEF BoxOK, Boxes
<1>2. ASSUME NEW q \in Seq(Chunk), Len(q) <= b.cap PROVE BoxOK([b EXCEPT !.q = q])
  BY <1>1, <1>2 DEF BoxOK, Boxes
<1>3. BoxOK([b EXCEPT !.closed = TRUE])
  BY <1>1 DEF BoxOK, Boxes
<1>4. << >> \in Seq(Chunk) /\ Len(<< >>) <= b.cap
  BY <1>1
<1>5. ASSUME b.q # << >>
      PROVE  /\ Head(b.q) \in Chunk /\ Tail(b.q) \in Seq(Chunk) /\ Len(Tail(b.q)) = Len(b.q) - 1
             /\ Len(Tail(b.q)) <= b.cap
  <2>1. Head(b.q) \in Chunk /\ Tail(b.q) \in Seq(Chunk) /\ Len(Tail(b.q)) = Len(b.q) - 1
    BY <1>1, <1>5
  <2> QED
    BY <1>1, <2>1
<1>6. ASSUME Len(b.q) < b.cap, NEW chunk \in Chunk
      PROVE  Append(b.q, chunk) \in Seq(Chunk) /\ Len(Append(b.q, chunk)) <= b.cap
  <2>1. Append(b.q, chunk) \in Seq(Chunk) /\ Len(Append(b.q, chunk)) = Len(b.q) + 1
    BY <1>1
  <2> QED
    BY <1>1, <1>6, <2>1
<1>7. \A q \in Seq(Chunk) : Len(q) <= b.cap => BoxOK([b EXCEPT !.q = q])
  BY <1>2
<1> QED
  BY <1>3, <1>4, <1>5, <1>6, <1>7

(* A handler's rows: whatever it becomes, the owner of the registered entry
   has entered. *)
LEMMA HandMoves ==
  ASSUME RelayTyped, NEW c \in Caller, NEW h \in Hands \ {"new"}, hand' = [hand EXCEPT ![c] = h],
         registry' \in {registry, NoOne, c}
  PROVE  hand' \in [Caller -> Hands] /\ registry' \in Caller \cup {NoOne} /\ OwnerEntered'
<1>1. hand \in [Caller -> Hands] /\ registry \in Caller \cup {NoOne} /\ NoOne \notin Caller
  BY RelayAssumption DEF RelayTyped, CallerTyped, SharedTyped
<1> QED
  BY <1>1 DEF RelayTyped, OwnerEntered

(* The entry and exit of a handler keep the types: RegisterOrSubscribe, Create
   and TryPush, Delete, close and Unregister. *)
LEMMA EnterLeaveTyped ==
  ASSUME RelayTyped, NEW c \in Caller,
         Enter(c) \/ Submit(c) \/ Delete(c) \/ CloseChannel(c) \/ Unregister(c), UNCHANGED whole
  PROVE  RelayTyped'
<1> USE DEF RelayTyped
<1>1. /\ hand \in [Caller -> Hands] /\ waiter \in [Caller -> Waits] /\ job \in [Caller -> Jobs]
      /\ \A d \in Caller : EntryOK(d, entry[d]) /\ SubOK(sub[d]) /\ BoxOK(box[d])
      /\ DOMAIN entry = Caller /\ DOMAIN sub = Caller /\ DOMAIN box = Caller
      /\ registry \in Caller \cup {NoOne}
  BY DEF SharedTyped, StoreTyped, CallerTyped, RestTyped
<1>2. ASSUME Enter(c) PROVE RelayTyped'
  <2>1. CASE registry = NoOne
    <3>1. registry' = c /\ hand' = [hand EXCEPT ![c] = "submit"] /\ UNCHANGED <<entry, sub, box>>
          /\ UNCHANGED <<waiter, send, tries, got, told, job, shut>>
      BY <1>2, <2>1 DEF Enter
    <3>2. hand' \in [Caller -> Hands] /\ registry' \in Caller \cup {NoOne} /\ OwnerEntered'
      BY <3>1, HandMoves DEF Hands
    <3> QED
      BY <3>1, <3>2 DEF SharedTyped, StoreTyped, CallerTyped, RestTyped
  <2>2. CASE registry # NoOne /\ entry[registry].dropped
    <3>1. hand' = [hand EXCEPT ![c] = "submit"] /\ UNCHANGED <<registry, entry, sub, box>>
          /\ UNCHANGED <<waiter, send, tries, got, told, job, shut>>
      BY <1>2, <2>2 DEF Enter
    <3>2. hand' \in [Caller -> Hands] /\ registry' \in Caller \cup {NoOne} /\ OwnerEntered'
      BY <3>1, HandMoves DEF Hands
    <3> QED
      BY <3>1, <3>2 DEF SharedTyped, StoreTyped, CallerTyped, RestTyped
  <2>3. CASE registry # NoOne /\ ~entry[registry].dropped
    <3> DEFINE e == entry[registry]
               b == [q |-> e.chunks, closed |-> e.done, cap |-> Len(e.chunks) + SubCap]
               subs == IF e.done THEN e.subs ELSE e.subs \cup {c}
    <3>1. /\ hand' = [hand EXCEPT ![c] = "read"] /\ hand[c] = "new"
          /\ box' = [box EXCEPT ![c] = b] /\ UNCHANGED <<registry, sub>>
          /\ entry' = [entry EXCEPT ![registry] = [e EXCEPT !.subs = subs]]
          /\ UNCHANGED <<waiter, send, tries, got, told, job, shut>>
      BY <1>2, <2>3 DEF Enter
    <3>2. registry \in Caller /\ registry # c /\ EntryOK(registry, e)
      BY <1>1, <2>3, <3>1 DEF OwnerEntered
    <3>3. BoxOK(b)
      <4>1. SubCap \in Nat /\ Len(e.chunks) \in Nat /\ e.chunks \in Seq(Chunk) /\ e.done \in BOOLEAN
        BY <3>2, EmptyIsTyped, RelayAssumption DEF EntryOK, Entries
      <4> QED
        BY <4>1 DEF BoxOK, Boxes
    <3> HIDE DEF b
    <3>4. EntryOK(registry, [e EXCEPT !.subs = subs])
      BY <3>2 DEF EntryOK, Entries
    <3>5. \A d \in Caller : BoxOK(box'[d])
      BY <1>1, <3>1, <3>3
    <3>6. \A d \in Caller : EntryOK(d, entry'[d])
      <4> HIDE DEF e, subs
      <4> QED
        BY <1>1, <3>1, <3>2, <3>4
    <3>7. hand' \in [Caller -> Hands] /\ registry' \in Caller \cup {NoOne} /\ OwnerEntered'
      BY <3>1, HandMoves DEF Hands
    <3>8. DOMAIN entry' = Caller /\ DOMAIN box' = Caller
      BY <1>1, <3>1
    <3> QED
      BY <3>1, <3>5, <3>6, <3>7, <3>8 DEF SharedTyped, StoreTyped, CallerTyped, RestTyped
  <2> QED
    BY <2>1, <2>2, <2>3
<1>3. ASSUME Submit(c) PROVE RelayTyped'
  <2>1. BoxOK([box[c] EXCEPT !.closed = TRUE])
    BY <1>1, BoxesOK
  <2>2. [at |-> "queued", att |-> 1, n |-> 0] \in Jobs
    BY EmptyIsTyped, RelayAssumption DEF Jobs
  <2>3. PICK w \in Waits, h \in {"read", "unregister"} :
          waiter' = [waiter EXCEPT ![c] = w] /\ hand' = [hand EXCEPT ![c] = h]
    BY <1>3 DEF Submit, Waits
  <2>4. hand' \in [Caller -> Hands] /\ OwnerEntered'
    BY <1>3, <2>3, HandMoves DEF Submit, sharedVars, Hands
  <2>5. UNCHANGED <<registry, entry, sub, send, tries, got, told, shut>>
    BY <1>3 DEF Submit, sharedVars
  <2>6. (\A d \in Caller : BoxOK(box'[d])) /\ DOMAIN box' = Caller /\ job' \in [Caller -> Jobs]
    <3>1. box' = box \/ box' = [box EXCEPT ![c] = [box[c] EXCEPT !.closed = TRUE]]
      BY <1>3 DEF Submit
    <3>2. (\A d \in Caller : BoxOK(box'[d])) /\ DOMAIN box' = Caller
      BY <1>1, <2>1, <3>1
    <3>3. job' \in [Caller -> Jobs]
      BY <1>1, <1>3, <2>2 DEF Submit
    <3> QED
      BY <3>2, <3>3
  <2> QED
    BY <1>1, <2>3, <2>4, <2>5, <2>6 DEF SharedTyped, StoreTyped, CallerTyped, RestTyped
<1>4. ASSUME Delete(c) PROVE RelayTyped'
  <2>1. NoJob \in Jobs
    BY EmptyIsTyped, RelayAssumption DEF NoJob, Jobs
  <2>2. PICK w \in Waits, h \in {"closing", "unregister"}, j \in Jobs :
          /\ waiter' = [waiter EXCEPT ![c] = w] /\ hand' = [hand EXCEPT ![c] = h]
          /\ job' = [job EXCEPT ![c] = j]
    <3>1. waiter = [waiter EXCEPT ![c] = waiter[c]] /\ job = [job EXCEPT ![c] = job[c]]
          /\ job[c] \in Jobs /\ waiter[c] \in Waits
      BY <1>1
    <3> QED
      BY <1>4, <2>1, <3>1 DEF Delete, Waits
  <2>3. UNCHANGED <<registry, entry, sub, box, send, tries, got, told, shut>>
    BY <1>4 DEF Delete, sharedVars
  <2>4. hand' \in [Caller -> Hands] /\ OwnerEntered'
    BY <2>2, <2>3, HandMoves DEF Hands
  <2> QED
    BY <1>1, <2>2, <2>3, <2>4 DEF SharedTyped, StoreTyped, CallerTyped, RestTyped
<1>5. ASSUME CloseChannel(c) PROVE RelayTyped'
  <2>1. BoxOK([box[c] EXCEPT !.closed = TRUE])
    BY <1>1, BoxesOK
  <2>2. /\ waiter' = [waiter EXCEPT ![c] = "closed"]
        /\ box' = [box EXCEPT ![c] = [box[c] EXCEPT !.closed = TRUE]]
        /\ hand' = [hand EXCEPT ![c] = IF @ = "closing" THEN "unregister" ELSE @]
        /\ UNCHANGED <<registry, entry, sub, send, tries, got, told, job, shut>>
    BY <1>5 DEF CloseChannel, sharedVars
  <2>3. (\A d \in Caller : BoxOK(box'[d])) /\ DOMAIN box' = Caller
    BY <1>1, <2>1, <2>2
  <2>4. hand' \in [Caller -> Hands] /\ OwnerEntered'
    BY <1>1, <2>2 DEF Hands, OwnerEntered
  <2> QED
    BY <1>1, <2>2, <2>3, <2>4 DEF SharedTyped, StoreTyped, CallerTyped, RestTyped, Waits
<1>6. ASSUME Unregister(c) PROVE RelayTyped'
  <2>1. BoxOK(NewBox) /\ EntryOK(c, NewEntry) /\ SubOK(NewSub)
    <3>1. NewEntry.chunks = << >> /\ NewEntry.subs = {} /\ NewSub.ch = << >>
      BY DEF NewEntry, NewSub
    <3>2. Len(NewEntry.chunks) = 0 /\ Len(NewSub.ch) = 0 /\ NewEntry \in Entries /\ NewSub \in Subs
          /\ ReplayCap \in Nat /\ SubCap \in Nat
      BY <3>1, EmptyIsTyped, RelayAssumption
    <3>4. EntryOK(c, NewEntry) /\ SubOK(NewSub)
      BY <3>1, <3>2 DEF EntryOK, SubOK
    <3>3. ChanCap \in Nat
      BY EmptyIsTyped, RelayAssumption
    <3>5. BoxOK(NewBox)
      BY <3>3 DEF NewBox, BoxOK, Boxes
    <3> QED
      BY <3>4, <3>5
  <2>2. /\ hand' = [hand EXCEPT ![c] = "end"] /\ registry' \in {registry, NoOne}
        /\ entry' = [entry EXCEPT ![c] = NewEntry]
        /\ box' = [box EXCEPT ![c] = NewBox] /\ tries' = [tries EXCEPT ![c] = 0]
        /\ got' = [got EXCEPT ![c] = << >>] /\ told' = told \ {c}
        /\ UNCHANGED <<waiter, send, job, shut>> /\ DOMAIN sub' = Caller
    BY <1>6 DEF Unregister, Forget
  <2>3. \A f \in Caller : SubOK(sub'[f])
    <3>1. \A f \in Caller : SubOK([sub[f] EXCEPT !.closed = TRUE])
      BY <1>1 DEF SubOK, Subs
    <3>2. \A f \in Caller : sub'[f] \in {NewSub, sub[f], [sub[f] EXCEPT !.closed = TRUE]}
      BY <1>6 DEF Unregister
    <3> QED
      BY <1>1, <2>1, <3>1, <3>2
  <2> HIDE DEF NewBox, NewEntry
  <2>4. /\ (\A d \in Caller : BoxOK(box'[d]) /\ EntryOK(d, entry'[d]))
        /\ DOMAIN box' = Caller /\ DOMAIN entry' = Caller
    BY <1>1, <2>1, <2>2
  <2>5. hand' \in [Caller -> Hands] /\ registry' \in Caller \cup {NoOne} /\ OwnerEntered'
    BY <2>2, HandMoves DEF Hands
  <2>6. tries' \in [Caller -> 0 .. Attempts]
    BY <2>2, EmptyIsTyped, RelayAssumption DEF CallerTyped
  <2>7. got' \in [Caller -> Seq(Sender \X (0 .. Texts))] /\ told' \subseteq Caller
    BY <2>2 DEF CallerTyped
  <2> QED
    BY <2>2, <2>3, <2>4, <2>5, <2>6, <2>7 DEF SharedTyped, StoreTyped, CallerTyped, RestTyped
<1> QED
  BY <1>2, <1>3, <1>4, <1>5, <1>6

(* Reading a chunk gives the caller pieces of it (streamResponse's loop,
   batchResponse's). *)
LEMMA PiecesTyped ==
  ASSUME RelayAssumption, NEW chunk \in Chunk
  PROVE  Pieces(chunk) \in Seq(Sender \X (0 .. Texts))
<1>1. Texts \in Nat /\ chunk.by \in Sender /\ chunk.n \in 0 .. Texts /\ chunk.n \in Nat
  BY EmptyIsTyped DEF Chunk
<1>2. CASE chunk.kind = "text"
  <2>1. <<chunk.by, chunk.n>> \in Sender \X (0 .. Texts)
    BY <1>1
  <2>2. << <<chunk.by, chunk.n>> >> \in Seq(Sender \X (0 .. Texts))
    BY <2>1
  <2> QED
    BY <1>2, <2>2 DEF Pieces
<1>3. CASE chunk.kind = "done"
  <2> DEFINE all == [i \in 1 .. chunk.n |-> <<chunk.by, i>>]
  <2>1. \A i \in 1 .. chunk.n : <<chunk.by, i>> \in Sender \X (0 .. Texts)
    BY <1>1
  <2>2. all \in Seq(Sender \X (0 .. Texts))
    BY <1>1, <2>1
  <2> QED
    BY <1>3, <2>2 DEF Pieces
<1>4. CASE chunk.kind \notin {"text", "done"}
  BY <1>4 DEF Pieces
<1> QED
  BY <1>2, <1>3, <1>4

(* What a reader of a channel does keeps the types: the handler, the pump that
   took over from it, and the goroutine that copies for a follower. *)
LEMMA ReadersTyped ==
  ASSUME RelayTyped, NEW c \in Caller,
         ReadChunk(c) \/ ReadClosed(c) \/ PumpChunk(c) \/ PumpStops(c) \/ Copy(c), UNCHANGED whole
  PROVE  RelayTyped'
<1> USE DEF RelayTyped
<1>1. /\ hand \in [Caller -> Hands] /\ waiter \in [Caller -> Waits] /\ job \in [Caller -> Jobs]
      /\ \A d \in Caller : EntryOK(d, entry[d]) /\ SubOK(sub[d]) /\ BoxOK(box[d])
      /\ DOMAIN entry = Caller /\ DOMAIN sub = Caller /\ DOMAIN box = Caller
      /\ got \in [Caller -> Seq(Sender \X (0 .. Texts))] /\ told \subseteq Caller
      /\ NoJob \in Jobs
  <2>1. NoJob \in Jobs
    BY EmptyIsTyped, RelayAssumption DEF NoJob, Jobs
  <2>2. job \in [Caller -> Jobs]
    BY DEF RestTyped
  <2> QED
    BY <2>1, <2>2 DEF SharedTyped, StoreTyped, CallerTyped
<1>2. ASSUME ReadChunk(c) PROVE RelayTyped'
  <2> DEFINE chunk == Head(box[c].q)
  <2>1. chunk \in Chunk /\ BoxOK([box[c] EXCEPT !.q = Tail(@)])
    BY <1>1, <1>2, BoxesOK DEF ReadChunk
  <2>2. box' = [box EXCEPT ![c] = [box[c] EXCEPT !.q = Tail(@)]]
        /\ UNCHANGED <<registry, waiter, send, tries, job, shut>>
    BY <1>2 DEF ReadChunk
  <2>3. (\A d \in Caller : BoxOK(box'[d])) /\ DOMAIN box' = Caller
    BY <1>1, <2>1, <2>2
  <2>4. (\A d \in Caller : EntryOK(d, entry'[d]) /\ SubOK(sub'[d]))
        /\ DOMAIN entry' = Caller /\ DOMAIN sub' = Caller
    BY <1>1, <1>2, <2>1, ForwardOK DEF ReadChunk
  <2>5. got' \in [Caller -> Seq(Sender \X (0 .. Texts))]
    <3>1. got[c] \o Pieces(chunk) \in Seq(Sender \X (0 .. Texts))
      BY <1>1, <2>1, PiecesTyped, RelayAssumption
    <3> QED
      BY <1>1, <1>2, <3>1 DEF ReadChunk
  <2>6. told' \subseteq Caller
    BY <1>1, <1>2 DEF ReadChunk
  <2>7. hand' \in [Caller -> Hands] /\ OwnerEntered'
    <3>1. hand' = hand \/ \E h \in Hands \ {"new"} : hand' = [hand EXCEPT ![c] = h]
      BY <1>2 DEF ReadChunk, Leave, Hands
    <3> QED
      BY <1>1, <2>2, <3>1, HandMoves DEF OwnerEntered
  <2> QED
    BY <2>2, <2>3, <2>4, <2>5, <2>6, <2>7 DEF SharedTyped, StoreTyped, CallerTyped, RestTyped
<1>3. ASSUME ReadClosed(c) PROVE RelayTyped'
  <2>1. UNCHANGED <<registry, entry, sub, box, waiter, send, tries, got, told, job, shut>>
    BY <1>3 DEF ReadClosed, sharedVars
  <2>2. \E h \in Hands \ {"new"} : hand' = [hand EXCEPT ![c] = h]
    BY <1>3 DEF ReadClosed, Leave, Hands
  <2>3. hand' \in [Caller -> Hands] /\ OwnerEntered'
    BY <2>1, <2>2, HandMoves
  <2> QED
    BY <2>1, <2>3 DEF SharedTyped, StoreTyped, CallerTyped, RestTyped
<1>4. ASSUME PumpChunk(c) PROVE RelayTyped'
  <2> DEFINE chunk == Head(box[c].q)
  <2>1. chunk \in Chunk /\ BoxOK([box[c] EXCEPT !.q = Tail(@)])
    BY <1>1, <1>4, BoxesOK DEF PumpChunk
  <2>2. box' = [box EXCEPT ![c] = [box[c] EXCEPT !.q = Tail(@)]]
        /\ UNCHANGED <<registry, waiter, send, tries, got, told, shut>>
    BY <1>4 DEF PumpChunk
  <2>3. (\A d \in Caller : BoxOK(box'[d])) /\ DOMAIN box' = Caller
    BY <1>1, <2>1, <2>2
  <2>4. (\A d \in Caller : EntryOK(d, entry'[d]) /\ SubOK(sub'[d]))
        /\ DOMAIN entry' = Caller /\ DOMAIN sub' = Caller
    BY <1>4, <2>1, ForwardOK DEF PumpChunk
  <2>5. job' \in [Caller -> Jobs]
    BY <1>1, <1>4 DEF PumpChunk
  <2>6. hand' \in [Caller -> Hands] /\ OwnerEntered'
    <3>1. \E h \in Hands \ {"new"} : hand' = [hand EXCEPT ![c] = h]
      BY <1>4 DEF PumpChunk, Hands
    <3> QED
      BY <2>2, <3>1, HandMoves
  <2> QED
    BY <2>2, <2>3, <2>4, <2>5, <2>6 DEF SharedTyped, StoreTyped, CallerTyped, RestTyped
<1>5. ASSUME PumpStops(c) PROVE RelayTyped'
  <2>1. UNCHANGED <<registry, entry, sub, box, waiter, send, tries, got, told, shut>>
    BY <1>5 DEF PumpStops, sharedVars
  <2>2. hand' \in [Caller -> Hands] /\ OwnerEntered'
    BY <1>5, <2>1, HandMoves DEF PumpStops, Hands
  <2>3. job' \in [Caller -> Jobs]
    BY <1>1, <1>5 DEF PumpStops, Cancel
  <2> QED
    BY <2>1, <2>2, <2>3 DEF SharedTyped, StoreTyped, CallerTyped, RestTyped
<1>6. ASSUME Copy(c) PROVE RelayTyped'
  <2>1. UNCHANGED <<registry, entry, waiter, send, hand, tries, got, told, job, shut>>
    BY <1>6 DEF Copy, callerVars
  <2>2. CASE sub[c].ch # << >> /\ Room(c)
             /\ box' = [box EXCEPT ![c].q = Append(@, Head(sub[c].ch))]
             /\ sub' = [sub EXCEPT ![c].ch = Tail(@)]
    <3>1. /\ sub[c].ch \in Seq(Chunk) /\ sub[c] \in Subs /\ Len(sub[c].ch) \in Nat
          /\ Len(sub[c].ch) <= SubCap /\ SubCap \in Nat
      BY <1>1, EmptyIsTyped, RelayAssumption DEF SubOK, Subs
    <3> DEFINE q == Tail(sub[c].ch)
    <3>2. Head(sub[c].ch) \in Chunk /\ q \in Seq(Chunk) /\ Len(q) <= SubCap
      <4>1. Head(sub[c].ch) \in Chunk /\ q \in Seq(Chunk) /\ Len(q) = Len(sub[c].ch) - 1
        BY <2>2, <3>1
      <4> QED
        BY <3>1, <4>1
    <3> HIDE DEF q
    <3>3. SubOK([sub[c] EXCEPT !.ch = q])
      BY <3>1, <3>2 DEF SubOK, Subs
    <3>4. sub' = [sub EXCEPT ![c] = [sub[c] EXCEPT !.ch = q]]
      BY <2>2 DEF q
    <3>5. BoxOK([box[c] EXCEPT !.q = Append(@, Head(sub[c].ch))])
      BY <1>1, <2>2, <3>2, BoxesOK DEF Room
    <3>6. box' = [box EXCEPT ![c] = [box[c] EXCEPT !.q = Append(@, Head(sub[c].ch))]]
      BY <2>2
    <3>7. /\ DOMAIN sub' = Caller /\ DOMAIN box' = Caller
          /\ \A d \in Caller : SubOK(sub'[d]) /\ BoxOK(box'[d])
      BY <1>1, <3>3, <3>4, <3>5, <3>6
    <3> QED
      BY <2>1, <3>7 DEF SharedTyped, StoreTyped, CallerTyped, RestTyped, OwnerEntered
  <2>3. CASE box' = [box EXCEPT ![c].closed = TRUE] /\ sub' = sub
    <3>1. BoxOK([box[c] EXCEPT !.closed = TRUE])
      BY <1>1, BoxesOK
    <3>2. box' = [box EXCEPT ![c] = [box[c] EXCEPT !.closed = TRUE]]
      BY <2>3
    <3>3. DOMAIN box' = Caller /\ \A d \in Caller : BoxOK(box'[d])
      BY <1>1, <3>1, <3>2
    <3> QED
      BY <2>1, <2>3, <3>3 DEF SharedTyped, StoreTyped, CallerTyped, RestTyped, OwnerEntered
  <2> QED
    BY <1>6, <2>2, <2>3 DEF Copy
<1> QED
  BY <1>2, <1>3, <1>4, <1>5, <1>6

(* The timers and the caller's hanging up keep the types; the attempts of a
   batch stay within MaxAttempts (streamResponse, batchResponse). *)
LEMMA TimersTyped ==
  ASSUME RelayTyped, NEW c \in Caller, GiveUp(c) \/ BatchTimeout(c) \/ HangUp(c), UNCHANGED whole
  PROVE  RelayTyped'
<1> USE DEF RelayTyped
<1>1. /\ hand \in [Caller -> Hands] /\ waiter \in [Caller -> Waits] /\ job \in [Caller -> Jobs]
      /\ \A d \in Caller : EntryOK(d, entry[d]) /\ SubOK(sub[d]) /\ BoxOK(box[d])
      /\ DOMAIN entry = Caller /\ DOMAIN sub = Caller /\ DOMAIN box = Caller
      /\ got \in [Caller -> Seq(Sender \X (0 .. Texts))] /\ tries \in [Caller -> 0 .. Attempts]
      /\ NoJob \in Jobs /\ Attempts \in Nat
  <2>1. NoJob \in Jobs /\ Attempts \in Nat
    BY EmptyIsTyped, RelayAssumption DEF NoJob, Jobs
  <2>2. job \in [Caller -> Jobs]
    BY DEF RestTyped
  <2> QED
    BY <2>1, <2>2 DEF SharedTyped, StoreTyped, CallerTyped
<1>2. CASE GiveUp(c)
  <2>1. UNCHANGED <<registry, entry, sub, box, waiter, send, tries, got, told, shut>>
    BY <1>2 DEF GiveUp, sharedVars
  <2>2. \E h \in Hands \ {"new"} : hand' = [hand EXCEPT ![c] = h]
    BY <1>2 DEF GiveUp, Leave, Hands
  <2>3. hand' \in [Caller -> Hands] /\ OwnerEntered'
    BY <2>1, <2>2, HandMoves
  <2>4. job' \in [Caller -> Jobs]
    BY <1>1, <1>2 DEF GiveUp, Cancel
  <2> QED
    BY <2>1, <2>3, <2>4 DEF SharedTyped, StoreTyped, CallerTyped, RestTyped
<1>3. CASE HangUp(c)
  <2>1. UNCHANGED <<registry, entry, sub, box, waiter, send, tries, got, told, shut>>
    BY <1>3 DEF HangUp, sharedVars
  <2>2. \E h \in Hands \ {"new"} : hand' = [hand EXCEPT ![c] = h]
    BY <1>3 DEF HangUp, Leave, Hands
  <2>3. hand' \in [Caller -> Hands] /\ OwnerEntered'
    BY <2>1, <2>2, HandMoves
  <2>4. job' \in [Caller -> Jobs]
    BY <1>1, <1>3 DEF HangUp, Cancel
  <2> QED
    BY <2>1, <2>3, <2>4 DEF SharedTyped, StoreTyped, CallerTyped, RestTyped
<1>4. CASE BatchTimeout(c)
  <2>1. UNCHANGED <<registry, waiter, send, told, shut>>
    BY <1>4 DEF BatchTimeout
  <2>2. tries' \in [Caller -> 0 .. Attempts]
    BY <1>1, <1>4 DEF BatchTimeout
  <2>3. DOMAIN box' = Caller /\ \A d \in Caller : BoxOK(box'[d])
    <3>1. BoxOK([box[c] EXCEPT !.q = << >>])
      BY <1>1, BoxesOK
    <3>2. box' = [box EXCEPT ![c] = [box[c] EXCEPT !.q = << >>]]
      BY <1>4 DEF BatchTimeout
    <3> QED
      BY <1>1, <3>1, <3>2
  <2>4. /\ DOMAIN entry' = Caller /\ DOMAIN sub' = Caller
        /\ \A d \in Caller : EntryOK(d, entry'[d]) /\ SubOK(sub'[d])
    <3>1. Reset(c) \/ UNCHANGED <<entry, sub>>
      BY <1>4 DEF BatchTimeout
    <3> QED
      BY <1>1, <3>1, ResetOK
  <2>5. got' \in [Caller -> Seq(Sender \X (0 .. Texts))]
    <3>1. << >> \in Seq(Sender \X (0 .. Texts))
      OBVIOUS
    <3> QED
      BY <1>1, <1>4, <3>1 DEF BatchTimeout
  <2>6. job' \in [Caller -> Jobs]
    <3>1. [at |-> "queued", att |-> tries[c] + 2, n |-> 0] \in Jobs
      <4>1. tries[c] + 2 \in 0 .. Attempts /\ 0 \in 0 .. Texts
        BY <1>1, <1>4, EmptyIsTyped, RelayAssumption DEF BatchTimeout
      <4> QED
        BY <4>1 DEF Jobs
    <3> QED
      BY <1>1, <1>4, <3>1 DEF BatchTimeout, Cancel
  <2>7. hand' \in [Caller -> Hands] /\ OwnerEntered'
    <3>1. hand' = hand \/ hand' = [hand EXCEPT ![c] = "spin"]
      BY <1>4 DEF BatchTimeout
    <3> QED
      BY <1>1, <2>1, <3>1, HandMoves DEF OwnerEntered, Hands
  <2> QED
    BY <2>1, <2>2, <2>3, <2>4, <2>5, <2>6, <2>7
       DEF SharedTyped, StoreTyped, CallerTyped, RestTyped
<1> QED
  BY <1>2, <1>3, <1>4

(* So do the worker's messages and the deliveries of Send (store.go Send,
   main.go OnChunk). *)
LEMMA WorkerTyped ==
  ASSUME RelayTyped, NEW c \in Caller,
         Dispatched(c) \/ WorkerSays(c) \/ (\E a \in Sender : SendStep(c, a)), UNCHANGED whole
  PROVE  RelayTyped'
<1> USE DEF RelayTyped
<1>1. /\ job \in [Caller -> Jobs] /\ \A d \in Caller : BoxOK(box[d])
      /\ DOMAIN box = Caller /\ NoJob \in Jobs /\ Texts \in Nat /\ Attempts \in Nat
      /\ send \in [Caller -> [Sender -> Sends]]
  BY EmptyIsTyped, RelayAssumption DEF StoreTyped, RestTyped, NoJob, Jobs
<1>2. ASSUME NEW a \in Sender, NEW chunk \in Chunk PROVE Joined(c, a, chunk) \in [Caller -> [Sender -> Sends]]
  BY <1>1, <1>2 DEF Joined, Sends
<1>3. CASE Dispatched(c)
  <2>1. [job[c] EXCEPT !.at = "running"] \in Jobs
    BY <1>1 DEF Jobs
  <2>2. /\ job' = [job EXCEPT ![c] = [job[c] EXCEPT !.at = "running"]]
        /\ UNCHANGED <<registry, entry, sub, box, waiter, send, hand, tries, got, told, shut>>
    BY <1>3 DEF Dispatched, sharedVars, callerVars
  <2>3. job' \in [Caller -> Jobs]
    BY <1>1, <2>1, <2>2
  <2> QED
    BY <2>2, <2>3 DEF SharedTyped, StoreTyped, CallerTyped, RestTyped, OwnerEntered
<1>4. CASE WorkerSays(c)
  <2> DEFINE j    == job[c]
             ping == [kind |-> "ping", by |-> j.att, n |-> 0]
             text == [kind |-> "text", by |-> j.att, n |-> j.n + 1]
             done == [kind |-> "done", by |-> j.att, n |-> IF c \in whole THEN Texts ELSE 0]
  <2>1. j \in Jobs /\ j.att \in Sender /\ j.n \in 0 .. Texts /\ j.n \in Nat
    BY <1>1 DEF Jobs, Sender
  <2>2. ping \in Chunk /\ done \in Chunk /\ (j.n < Texts => text \in Chunk)
    BY <1>1, <2>1 DEF Chunk
  <2>3. [j EXCEPT !.n = 1] \in Jobs /\ (j.n < Texts => [j EXCEPT !.n = @ + 1] \in Jobs)
    <3>1. 1 \in 0 .. Texts /\ (j.n < Texts => j.n + 1 \in 0 .. Texts)
      BY <2>1, EmptyIsTyped, RelayAssumption
    <3> QED
      BY <2>1, <3>1 DEF Jobs
  <2>4. /\ \/ send' = Joined(c, j.att, ping) /\ job' = [job EXCEPT ![c] = [j EXCEPT !.n = 1]]
           \/ j.n < Texts /\ send' = Joined(c, j.att, text) /\ job' = [job EXCEPT ![c] = [j EXCEPT !.n = @ + 1]]
           \/ send' = Joined(c, j.att, done) /\ job' = [job EXCEPT ![c] = NoJob]
        /\ UNCHANGED <<registry, entry, sub, box, waiter, hand, tries, got, told, shut>>
    BY <1>4 DEF WorkerSays, sharedVars, callerVars
  <2> HIDE DEF j, ping, text, done
  <2>5. send' \in [Caller -> [Sender -> Sends]]
    BY <1>2, <2>1, <2>2, <2>4
  <2>6. job' \in [Caller -> Jobs]
    BY <1>1, <2>3, <2>4
  <2> QED
    BY <2>4, <2>5, <2>6 DEF SharedTyped, StoreTyped, CallerTyped, RestTyped, OwnerEntered
<1>5. ASSUME NEW a \in Sender, SendStep(c, a) PROVE RelayTyped'
  <2>1. send' = [send EXCEPT ![c][a] = NotSending]
        /\ UNCHANGED <<registry, entry, sub, waiter, hand, tries, got, told, shut>>
    BY <1>5 DEF SendStep, sharedVars, callerVars
  <2>2. send' \in [Caller -> [Sender -> Sends]]
    BY <1>1, <2>1 DEF Sends
  <2>3. job' \in [Caller -> Jobs]
    BY <1>1, <1>5 DEF SendStep
  <2>4. DOMAIN box' = Caller /\ \A d \in Caller : BoxOK(box'[d])
    <3>1. CASE box' = box
      BY <1>1, <3>1
    <3>2. CASE Room(c) /\ box' = [box EXCEPT ![c].q = @ \o send[c][a]]
      <4>1. PICK chunk \in Chunk : send[c][a] = <<chunk>>
        BY <1>1, <1>5 DEF SendStep, Sends
      <4>2. box[c].q \in Seq(Chunk) /\ Len(box[c].q) < box[c].cap /\ box[c].cap \in Nat
        BY <1>1, <3>2 DEF Room, BoxOK, Boxes
      <4> DEFINE q == box[c].q \o send[c][a]
      <4>3. q \in Seq(Chunk) /\ Len(q) = Len(box[c].q) + 1
        BY <4>1, <4>2
      <4> HIDE DEF q
      <4>4. BoxOK([box[c] EXCEPT !.q = q])
        <5>1. BoxOK(box[c]) /\ Len(q) <= box[c].cap
          BY <1>1, <4>2, <4>3
        <5> QED
          BY <4>3, <5>1, BoxesOK
      <4>5. box' = [box EXCEPT ![c] = [box[c] EXCEPT !.q = q]]
        BY <3>2 DEF q
      <4> QED
        BY <1>1, <4>4, <4>5
    <3> QED
      BY <1>5, <3>1, <3>2 DEF SendStep
  <2> QED
    BY <2>1, <2>2, <2>3, <2>4 DEF SharedTyped, StoreTyped, CallerTyped, RestTyped, OwnerEntered
<1> QED
  BY <1>3, <1>4, <1>5

(* So does the shutdown (main.go, store.go DrainAll). *)
LEMMA ShutdownTyped ==
  ASSUME RelayTyped,
         ShutBegins \/ ShutDrains \/ (\E c \in Caller : ShutSends(c) \/ DrainEntry(c)), UNCHANGED whole
  PROVE  RelayTyped'
<1> USE DEF RelayTyped
<1>1. /\ job \in [Caller -> Jobs] /\ \A d \in Caller : BoxOK(box[d])
      /\ DOMAIN box = Caller /\ NoJob \in Jobs /\ waiter \in [Caller -> Waits]
      /\ send \in [Caller -> [Sender -> Sends]] /\ Cut \in Chunk /\ 0 \in Sender
      /\ shut \in [pc : {"no", "send", "drain"}, todo : SUBSET Caller]
  BY EmptyIsTyped, RelayAssumption DEF StoreTyped, RestTyped, NoJob, Jobs, Sender
<1>2. CASE ShutBegins
  <2>1. UNCHANGED <<registry, entry, sub, box, waiter, send, hand, tries, got, told>>
    BY <1>2 DEF ShutBegins, sharedVars, callerVars
  <2>2. job' \in [Caller -> Jobs]
    BY <1>1, <1>2 DEF ShutBegins
  <2>3. shut' \in [pc : {"no", "send", "drain"}, todo : SUBSET Caller]
    BY <1>2 DEF ShutBegins
  <2> QED
    BY <2>1, <2>2, <2>3 DEF SharedTyped, StoreTyped, CallerTyped, RestTyped, OwnerEntered
<1>3. CASE ShutDrains
  <2>1. UNCHANGED <<registry, entry, sub, box, waiter, send, hand, tries, got, told, job>>
    BY <1>3 DEF ShutDrains, sharedVars, callerVars
  <2>2. shut' \in [pc : {"no", "send", "drain"}, todo : SUBSET Caller]
    BY <1>3 DEF ShutDrains
  <2> QED
    BY <2>1, <2>2 DEF SharedTyped, StoreTyped, CallerTyped, RestTyped, OwnerEntered
<1>4. ASSUME NEW c \in Caller, ShutSends(c) PROVE RelayTyped'
  <2>1. /\ send' = Joined(c, 0, Cut) /\ shut' = [shut EXCEPT !.todo = @ \ {c}]
        /\ UNCHANGED <<registry, entry, sub, box, waiter, hand, tries, got, told, job>>
    BY <1>4 DEF ShutSends, sharedVars, callerVars
  <2>2. send' \in [Caller -> [Sender -> Sends]]
    BY <1>1, <2>1 DEF Joined, Sends
  <2>3. shut' \in [pc : {"no", "send", "drain"}, todo : SUBSET Caller]
    BY <1>1, <2>1
  <2> QED
    BY <2>1, <2>2, <2>3 DEF SharedTyped, StoreTyped, CallerTyped, RestTyped, OwnerEntered
<1>5. ASSUME NEW c \in Caller, DrainEntry(c) PROVE RelayTyped'
  <2>1. UNCHANGED <<registry, entry, sub, send, hand, tries, got, told>>
        /\ shut' = [shut EXCEPT !.todo = @ \ {c}]
    BY <1>5 DEF DrainEntry, sharedVars, callerVars
  <2>2. waiter' \in [Caller -> Waits]
    <3>1. waiter' = waiter \/ waiter' = [waiter EXCEPT ![c] = "closing"]
      BY <1>5 DEF DrainEntry
    <3> QED
      BY <1>1, <3>1 DEF Waits
  <2>5. job' \in [Caller -> Jobs]
    <3>1. job' = job \/ job' = [job EXCEPT ![c] = NoJob]
      BY <1>5 DEF DrainEntry
    <3> QED
      BY <1>1, <3>1
  <2>3. DOMAIN box' = Caller /\ \A d \in Caller : BoxOK(box'[d])
    <3>1. CASE box' = box
      BY <1>1, <3>1
    <3>2. CASE Room(c) /\ box' = [box EXCEPT ![c].q = Append(@, Cut)]
      <4>1. BoxOK([box[c] EXCEPT !.q = Append(@, Cut)])
        BY <1>1, <3>2, BoxesOK DEF Room
      <4>2. box' = [box EXCEPT ![c] = [box[c] EXCEPT !.q = Append(@, Cut)]]
        BY <3>2
      <4> QED
        BY <1>1, <4>1, <4>2
    <3>3. CASE ~Room(c) /\ box' = [box EXCEPT ![c].q = @]
      <4>1. box' = [box EXCEPT ![c] = [box[c] EXCEPT !.q = @]] /\ BoxOK([box[c] EXCEPT !.q = @])
        BY <1>1, <3>3 DEF BoxOK, Boxes
      <4> QED
        BY <1>1, <4>1
    <3> QED
      BY <1>5, <3>1, <3>2, <3>3 DEF DrainEntry
  <2>4. shut' \in [pc : {"no", "send", "drain"}, todo : SUBSET Caller]
    BY <1>1, <2>1
  <2> QED
    BY <2>1, <2>2, <2>3, <2>4, <2>5 DEF SharedTyped, StoreTyped, CallerTyped, RestTyped, OwnerEntered
<1> QED
  BY <1>2, <1>3, <1>4, <1>5

(* Every step keeps the types. *)
LEMMA RelayTypedStep ==
  ASSUME RelayTyped, [RelayNext]_relayVars
  PROVE  RelayTyped'
<1>1. CASE UNCHANGED relayVars
  BY <1>1 DEF relayVars, sharedVars, callerVars, RelayTyped, SharedTyped, StoreTyped,
              CallerTyped, RestTyped, OwnerEntered
<1>2. CASE RelayNext
  <2>1. UNCHANGED whole
    BY <1>2 DEF RelayNext
  <2>2. \/ ShutBegins \/ ShutDrains
        \/ \E c \in Caller : ShutSends(c) \/ DrainEntry(c)
        \/ \E c \in Caller : Enter(c) \/ Submit(c) \/ Delete(c) \/ CloseChannel(c) \/ Unregister(c)
        \/ \E c \in Caller : ReadChunk(c) \/ ReadClosed(c) \/ PumpChunk(c) \/ PumpStops(c) \/ Copy(c)
        \/ \E c \in Caller : GiveUp(c) \/ BatchTimeout(c) \/ HangUp(c)
        \/ \E c \in Caller : Dispatched(c) \/ WorkerSays(c) \/ (\E a \in Sender : SendStep(c, a))
    BY <1>2 DEF RelayNext, Reads, CleanUp
  <2> QED
    BY <2>1, <2>2, EnterLeaveTyped, ReadersTyped, TimersTyped, WorkerTyped, ShutdownTyped
<1> QED
  BY <1>1, <1>2

(* The router starts empty. *)
LEMMA RelayTypedInit ==
  ASSUME RelayInit
  PROVE  RelayTyped
<1>1. NewEntry \in Entries /\ NewSub \in Subs /\ 0 \in 0 .. Texts /\ 0 \in 0 .. Attempts
      /\ ReplayCap \in Nat /\ SubCap \in Nat /\ ChanCap \in Nat
  BY EmptyIsTyped, RelayAssumption
<1>2. SharedTyped
  <2>1. \A c \in Caller : EntryOK(c, NewEntry)
    BY <1>1 DEF EntryOK, NewEntry
  <2>2. SubOK(NewSub)
    BY <1>1 DEF SubOK, NewSub
  <2> QED
    BY <2>1, <2>2 DEF RelayInit, SharedTyped
<1>3. StoreTyped
  <2>1. BoxOK(NewBox)
    BY <1>1 DEF BoxOK, NewBox, Boxes
  <2> QED
    BY <2>1 DEF RelayInit, StoreTyped, Waits, Sends
<1>4. CallerTyped
  BY <1>1 DEF RelayInit, CallerTyped, Hands
<1>5. RestTyped
  BY <1>1 DEF RelayInit, RestTyped, Jobs, NoJob
<1>6. OwnerEntered
  BY DEF RelayInit, OwnerEntered
<1> QED
  BY <1>2, <1>3, <1>4, <1>5, <1>6 DEF RelayTyped

(* The types the run checks are among them. *)
LEMMA RelayTypedTypes ==
  ASSUME RelayTyped
  PROVE  RelayTypeOK
<1>1. \A c \in Caller : /\ entry[c].chunks \in Seq(Chunk) /\ Len(entry[c].chunks) <= ReplayCap
                        /\ entry[c].subs \subseteq Caller \ {c}
  BY DEF RelayTyped, SharedTyped, EntryOK, Entries
<1>2. \A c \in Caller : sub[c].ch \in Seq(Chunk) /\ Len(sub[c].ch) <= SubCap
  BY DEF RelayTyped, SharedTyped, SubOK, Subs
<1>3. \A c \in Caller : box[c].q \in Seq(Chunk) /\ Len(box[c].q) <= box[c].cap
  BY DEF RelayTyped, StoreTyped, BoxOK, Boxes
<1>4. registry \in Caller \cup {NoOne} /\ told \subseteq Caller
  BY DEF RelayTyped, SharedTyped, CallerTyped
<1>5. \A c \in Caller : waiter[c] \in Waits /\ hand[c] \in Hands /\ job[c] \in Jobs /\ tries[c] \in 0 .. Attempts
  BY DEF RelayTyped, StoreTyped, CallerTyped, RestTyped
<1>6. shut.pc \in {"no", "send", "drain"} /\ shut.todo \subseteq Caller
  BY DEF RelayTyped, RestTyped
<1> QED
  BY <1>1, <1>2, <1>3, <1>4, <1>5, <1>6 DEF RelayTypeOK, Waits, Hands, Jobs

(* However callers join, read, time out, hang up and leave, and whatever the
   worker and the shutdown send, the replay buffers, the followers' channels and
   the handlers' channels stay within their sizes, and nobody follows himself
   (dedup.go RegisterOrSubscribe, Forward, store.go Send). *)
THEOREM RelayTypes == RelaySpec => []RelayTypeOK
<1>1. RelaySpec => []RelayTyped
  BY RelayTypedInit, RelayTypedStep, PTL DEF RelaySpec
<1>2. RelayTyped => RelayTypeOK
  BY RelayTypedTypes
<1> QED
  BY <1>1, <1>2, PTL

-----------------------------------------------------------------------------
(* Sends and closing.                                                      *)

\* A handler that has not submitted has no correlation entry, and whoever is
\* inside Send joined while the entry was there.
NotYetWaiting == \A c \in Caller : hand[c] \in {"new", "submit"} => waiter[c] = "none"
SendersJoined == \A c \in Caller : Senders(c) # {} => waiter[c] \in {"open", "closing"}
SendInv == NotYetWaiting /\ SendersJoined

(* Whoever joins the senders of an entry does so while it is open, and the
   channel is closed only when the last of them has left (store.go Send,
   entry.close). *)
LEMMA SendInvStep ==
  ASSUME RelayTyped, SendInv, [RelayNext]_relayVars
  PROVE  SendInv'
<1> USE DEF SendInv
<1>1. /\ hand \in [Caller -> Hands] /\ waiter \in [Caller -> Waits]
      /\ send \in [Caller -> [Sender -> Sends]]
  BY DEF RelayTyped, StoreTyped, CallerTyped
<1>2. ASSUME UNCHANGED <<waiter, send>>,
             \A c \in Caller : hand'[c] \in {"new", "submit"} => hand[c] \in {"new", "submit"}
      PROVE  SendInv'
  BY <1>2 DEF NotYetWaiting, SendersJoined, Senders
<1>3. CASE UNCHANGED relayVars
  BY <1>2, <1>3 DEF relayVars, callerVars
<1>4. ASSUME NEW c \in Caller,
             Enter(c) \/ ReadChunk(c) \/ ReadClosed(c) \/ GiveUp(c) \/ BatchTimeout(c) \/ HangUp(c)
             \/ PumpChunk(c) \/ PumpStops(c) \/ Copy(c) \/ Unregister(c) \/ Dispatched(c)
      PROVE  SendInv'
  <2>1. UNCHANGED <<waiter, send>>
    BY <1>4 DEF Enter, ReadChunk, ReadClosed, GiveUp, BatchTimeout, HangUp, PumpChunk, PumpStops,
                Copy, Unregister, Dispatched
  <2>2. \/ Enter(c) /\ \E h \in {"submit", "read"} : hand[c] = "new" /\ hand' = [hand EXCEPT ![c] = h]
        \/ hand' = hand
        \/ \E h \in {"unregister", "delete", "spin", "pump", "end"} : hand' = [hand EXCEPT ![c] = h]
    BY <1>1, <1>4 DEF Enter, ReadChunk, ReadClosed, GiveUp, BatchTimeout, HangUp, PumpChunk, PumpStops,
                Copy, Unregister, Dispatched, Leave, callerVars
  <2> QED
    BY <1>1, <1>2, <2>1, <2>2
<1>5. ASSUME NEW c \in Caller, Submit(c) PROVE SendInv'
  <2>1. /\ hand[c] = "submit" /\ UNCHANGED send
        /\ \E h \in {"read", "unregister"} : hand' = [hand EXCEPT ![c] = h]
        /\ \E w \in {"open", "closed"} : waiter' = [waiter EXCEPT ![c] = w]
    BY <1>5 DEF Submit
  <2>2. Senders(c) = {}
    BY <2>1 DEF NotYetWaiting, SendersJoined
  <2> QED
    BY <1>1, <2>1, <2>2 DEF NotYetWaiting, SendersJoined, Senders
<1>6. ASSUME NEW c \in Caller, Delete(c) \/ CloseChannel(c) PROVE SendInv'
  <2>1. UNCHANGED send /\ (hand' = hand \/ \E h \in {"closing", "unregister"} : hand' = [hand EXCEPT ![c] = h])
    BY <1>1, <1>6 DEF Delete, CloseChannel
  <2>2. \/ waiter' = waiter
        \/ waiter[c] = "open" /\ waiter' = [waiter EXCEPT ![c] = "closing"]
        \/ Senders(c) = {} /\ waiter[c] = "closing" /\ waiter' = [waiter EXCEPT ![c] = "closed"]
    BY <1>6 DEF Delete, CloseChannel
  <2>3. \A d \in Caller : Senders(d)' = Senders(d)
    BY <2>1 DEF Senders
  <2>4. NotYetWaiting'
    <3>1. hand[c] \notin {"new", "submit"}
      BY <1>1, <1>6 DEF Delete, CloseChannel, NotYetWaiting
    <3>2. \A d \in Caller : d # c => waiter'[d] = waiter[d] /\ hand'[d] = hand[d]
      BY <1>1, <2>1, <2>2
    <3>3. hand'[c] \notin {"new", "submit"}
      BY <1>1, <2>1, <3>1
    <3> QED
      BY <3>2, <3>3 DEF NotYetWaiting
  <2>5. SendersJoined'
    BY <1>1, <2>2, <2>3 DEF SendersJoined
  <2> QED
    BY <2>4, <2>5
<1>7. ASSUME NEW c \in Caller,
             WorkerSays(c) \/ (\E a \in Sender : SendStep(c, a)) \/ ShutSends(c)
      PROVE  SendInv'
  <2>1. UNCHANGED <<waiter, hand>>
    BY <1>7 DEF WorkerSays, SendStep, ShutSends, callerVars
  <2>2. \/ \E a \in Sender : send' = [send EXCEPT ![c][a] = NotSending]
        \/ \E a, chunk : send' = Joined(c, a, chunk)
    BY <1>7 DEF WorkerSays, SendStep, ShutSends
  <2>3. CASE \E a \in Sender : send' = [send EXCEPT ![c][a] = NotSending]
    BY <1>1, <2>1, <2>3 DEF NotYetWaiting, SendersJoined, Senders
  <2>4. CASE \E a, chunk : send' = Joined(c, a, chunk)
    BY <1>1, <2>1, <2>4 DEF NotYetWaiting, SendersJoined, Senders, Joined
  <2> QED
    BY <2>2, <2>3, <2>4
<1>8. ASSUME NEW c \in Caller, DrainEntry(c) PROVE SendInv'
  <2>1. UNCHANGED <<send, hand>>
        /\ (waiter' = waiter \/ (waiter[c] = "open" /\ waiter' = [waiter EXCEPT ![c] = "closing"]))
    BY <1>8 DEF DrainEntry, callerVars
  <2> QED
    BY <1>1, <2>1 DEF NotYetWaiting, SendersJoined, Senders
<1>9. CASE ShutBegins \/ ShutDrains
  BY <1>2, <1>9 DEF ShutBegins, ShutDrains, callerVars
<1>10. CASE RelayNext
  BY <1>4, <1>5, <1>6, <1>7, <1>8, <1>9, <1>10 DEF RelayNext, Reads, CleanUp
<1> QED
  BY <1>3, <1>10

(* A goroutine inside Send never meets a closed channel, on which it would panic,
   whoever closes it and whenever: the handler's Delete, or DrainAll at shutdown
   (store.go:42-62, 118-132). *)
THEOREM RelayNoSendOnClosed == RelaySpec => []NoSendOnClosed
<1>1. RelayInit => SendInv
  BY DEF RelayInit, SendInv, NotYetWaiting, SendersJoined, Senders
<1>2. RelaySpec => []RelayTyped
  BY RelayTypedInit, RelayTypedStep, PTL DEF RelaySpec
<1>3. RelayTyped /\ SendInv /\ [RelayNext]_relayVars => SendInv'
  BY SendInvStep
<1>4. SendInv => NoSendOnClosed
  BY DEF SendInv, SendersJoined, NoSendOnClosed
<1> QED
  BY <1>1, <1>2, <1>3, <1>4, PTL DEF RelaySpec

-----------------------------------------------------------------------------
(* The pieces of a stream.                                                 *)

\* A line of chunks that goes on after k pieces: as long as everything before it
\* was a piece, the chunk in place k + i is piece k + i of the first attempt, or
\* the end after the last one, or says that the router gave up.
Fits(chunk, m) ==
    \/ chunk.kind = "text" /\ chunk.by = 1 /\ chunk.n = m /\ m <= Texts
    \/ chunk.kind = "done" /\ chunk.n = 0 /\ m = Texts + 1
    \/ chunk.kind = "cut"
Chain(s, k) ==
    \A i \in DOMAIN s : (\A j \in 1 .. i - 1 : s[j].kind = "text") => Fits(s[i], k + i)
Plain(s) == \A i \in DOMAIN s : s[i].kind = "text"
First(k) == [i \in 1 .. k |-> <<1, i>>]

\* What a whole answer can bring: no pieces, and an end that has all of them.
AtOnce(chunk) ==
    /\ chunk.kind # "text"
    /\ chunk.kind = "done" => chunk.n = Texts /\ chunk.by \in 1 .. Attempts
NoText(s) == \A i \in DOMAIN s : AtOnce(s[i])

\* A handler, or its pump, that is served by a worker of its own; what is still on
\* its way to it, and to a follower.
Owns(o) == hand[o] \in {"submit", "pump"} \/ (hand[o] = "read" /\ waiter[o] # "none")
OwnLine(o) == box[o].q \o send[o][1]
Fed(f) == box[f].q \o sub[f].ch
Listens(f) == f \notin whole /\ Follower(f)
StreamFed(f) == got[f] = First(Len(got[f])) /\ Chain(Fed(f), Len(got[f]))
WholeFed(f) == got[f] = << >> /\ NoText(Fed(f))

\* Where a handler can be, given its entries.
Seat(c) ==
    /\ registry = c => hand[c] \notin {"new", "end"} /\ ~Follower(c)
    /\ hand[c] = "pump" => registry = c
    /\ registry # c => entry[c] = NewEntry
    /\ c \in told => hand[c] \in {"delete", "closing", "unregister"}
    /\ hand[c] \in {"new", "submit"} => got[c] = << >> /\ box[c].q = << >>
    /\ hand[c] = "new" => sub[c] = NewSub

\* Only an open correlation entry has a request in the queue or on a worker, a
\* stream has one attempt, and one the shutdown told about has ended.
Asked(c) ==
    /\ job[c].at # "none" => waiter[c] = "open" /\ job[c].att >= 1
    /\ send[c][0] \in {NotSending, <<Cut>>}
    /\ shut.pc = "send" /\ c \in shut.todo => waiter[c] # "none"
    /\ c \notin whole =>
         /\ job[c].at # "none" =>
              /\ job[c].att = 1 /\ send[c][0] = NotSending
              /\ ~(shut.pc = "send" /\ c \in shut.todo)
         /\ \A a \in Sender : a >= 2 => send[c][a] = NotSending
    /\ c \in whole => \A a \in Sender : NoText(send[c][a])

\* What a handler of a stream that has passed on k pieces has and will get, and
\* what its entry has kept of it.
Own(o, k) ==
    o \notin whole /\ Owns(o) =>
        /\ Chain(OwnLine(o), k)
        /\ hand[o] # "pump" => got[o] = First(k)
        /\ job[o].at # "none" => Plain(OwnLine(o)) /\ job[o].n = k + Len(OwnLine(o))
        /\ registry = o /\ ~entry[o].dropped => Len(entry[o].chunks) = k /\ Plain(entry[o].chunks)
OwnWhole(o) == o \in whole /\ Owns(o) => NoText(box[o].q)
Kept(o) == IF o \in whole THEN NoText(entry[o].chunks) ELSE Chain(entry[o].chunks, 0)
FedWell(f) == Listens(f) => StreamFed(f) \/ WholeFed(f)

\* A follower is fed by one entry, and lags behind it by what is on its way.
Linked(o, f, k) ==
    f \in entry[o].subs =>
        /\ hand[f] # "new"
        /\ Listens(f) =>
             /\ o \in whole => WholeFed(f)
             /\ o \notin whole => StreamFed(f)
             /\ o \notin whole /\ Owns(o) /\ ~sub[f].overflow =>
                  Plain(Fed(f)) /\ Len(got[f]) + Len(Fed(f)) = k

Flow(K) ==
    /\ \A c \in Caller : Seat(c) /\ Asked(c) /\ OwnWhole(c) /\ Kept(c) /\ FedWell(c)
    /\ \A o \in Caller : Own(o, K[o])
    /\ \A o, f \in Caller : Linked(o, f, K[o])
FlowInv == StreamIsWhole /\ \E K \in [Caller -> 0 .. Texts] : Flow(K)

(* A chunk is a record of its fields. *)
LEMMA ChunkFields ==
  ASSUME NEW chunk \in Chunk
  PROVE  chunk.kind \in {"ping", "text", "done", "cut"} /\ chunk.by \in Sender /\ chunk.n \in 0 .. Texts
BY DEF Chunk

(* Lines of chunks put together: what leaves one channel for another stays in its
   place (MakeSubscriberChan, Send). *)
LEMMA LinesJoin ==
  ASSUME NEW q \in Seq(Chunk), NEW s \in Seq(Chunk), NEW x \in Chunk
  PROVE  /\ q \o s \in Seq(Chunk) /\ Len(q \o s) = Len(q) + Len(s)
         /\ q \o << >> = q /\ q \o <<x>> = Append(q, x)
         /\ q \o Append(s, x) = Append(q \o s, x)
         /\ q # << >> => q \o s # << >> /\ Head(q \o s) = Head(q) /\ Tail(q \o s) = Tail(q) \o s
         /\ s # << >> => Append(q, Head(s)) \o Tail(s) = q \o s
<1>1. q \o s \in Seq(Chunk) /\ Len(q \o s) = Len(q) + Len(s)
  OBVIOUS
<1>2. q \o << >> = q /\ q \o <<x>> = Append(q, x)
  OBVIOUS
<1>3. q \o Append(s, x) = Append(q \o s, x)
  OBVIOUS
<1>4. ASSUME q # << >> PROVE q \o s # << >> /\ Head(q \o s) = Head(q) /\ Tail(q \o s) = Tail(q) \o s
  <2>1. Len(q \o s) > 0
    BY <1>4
  <2>2. Head(q \o s) = Head(q) /\ Tail(q \o s) = Tail(q) \o s
    BY <1>4
  <2> QED
    BY <2>1, <2>2
<1>5. ASSUME s # << >> PROVE Append(q, Head(s)) \o Tail(s) = q \o s
  BY <1>5
<1> QED
  BY <1>1, <1>2, <1>3, <1>4, <1>5

(* Taking the first chunk off a line (streamResponse's loop, Forward). *)
LEMMA LineHead ==
  ASSUME NEW s \in Seq(Chunk), s # << >>, NEW k \in Nat
  PROVE  /\ Chain(s, k) => Fits(Head(s), k + 1)
         /\ Chain(s, k) /\ Head(s).kind = "text" => Chain(Tail(s), k + 1)
         /\ Plain(s) => Head(s).kind = "text" /\ Plain(Tail(s))
         /\ NoText(s) => AtOnce(Head(s)) /\ NoText(Tail(s))
<1>1. /\ Len(s) \in Nat \ {0} /\ Head(s) = s[1] /\ 1 \in DOMAIN s
      /\ Tail(s) \in Seq(Chunk) /\ DOMAIN Tail(s) = 1 .. Len(s) - 1 /\ DOMAIN s = 1 .. Len(s)
      /\ \A i \in 1 .. Len(s) - 1 : Tail(s)[i] = s[i + 1]
  OBVIOUS
<1>2. Chain(s, k) => Fits(Head(s), k + 1)
  BY <1>1 DEF Chain
<1>3. ASSUME Chain(s, k), Head(s).kind = "text" PROVE Chain(Tail(s), k + 1)
  <2> SUFFICES ASSUME NEW i \in 1 .. Len(s) - 1, \A j \in 1 .. i - 1 : Tail(s)[j].kind = "text"
               PROVE  Fits(Tail(s)[i], (k + 1) + i)
    BY <1>1 DEF Chain
  <2>1. i + 1 \in DOMAIN s /\ (i + 1) - 1 = i /\ k + (i + 1) = (k + 1) + i /\ Tail(s)[i] = s[i + 1]
    BY <1>1
  <2>2. ASSUME NEW j \in 1 .. i PROVE s[j].kind = "text"
    <3>1. CASE j = 1
      BY <1>1, <1>3, <3>1
    <3>2. CASE j # 1
      <4>1. j - 1 \in 1 .. i - 1 /\ j - 1 \in 1 .. Len(s) - 1 /\ (j - 1) + 1 = j
        BY <1>1, <3>2
      <4>2. Tail(s)[j - 1].kind = "text" /\ Tail(s)[j - 1] = s[(j - 1) + 1]
        BY <1>1, <4>1
      <4> QED
        BY <4>1, <4>2
    <3> QED
      BY <3>1, <3>2
  <2>3. Fits(s[i + 1], k + (i + 1))
    BY <1>3, <2>1, <2>2 DEF Chain
  <2> QED
    BY <2>1, <2>3
<1>4. ASSUME Plain(s) PROVE Head(s).kind = "text" /\ Plain(Tail(s))
  <2>1. ASSUME NEW i \in 1 .. Len(s) - 1 PROVE Tail(s)[i].kind = "text"
    <3>1. i + 1 \in DOMAIN s /\ Tail(s)[i] = s[i + 1]
      BY <1>1
    <3> QED
      BY <1>4, <3>1 DEF Plain
  <2> QED
    BY <1>1, <1>4, <2>1 DEF Plain
<1>5. ASSUME NoText(s) PROVE AtOnce(Head(s)) /\ NoText(Tail(s))
  <2>1. ASSUME NEW i \in 1 .. Len(s) - 1 PROVE AtOnce(Tail(s)[i])
    <3>1. i + 1 \in DOMAIN s /\ Tail(s)[i] = s[i + 1]
      BY <1>1
    <3> QED
      BY <1>5, <3>1 DEF NoText
  <2> QED
    BY <1>1, <1>5, <2>1 DEF NoText
<1> QED
  BY <1>2, <1>3, <1>4, <1>5

(* Putting a chunk at the end of a line (Send, Forward). *)
LEMMA LineAppend ==
  ASSUME NEW s \in Seq(Chunk), NEW x \in Chunk, NEW k \in Nat
  PROVE  /\ Chain(s, k) /\ (Plain(s) => Fits(x, k + Len(s) + 1)) => Chain(Append(s, x), k)
         /\ Plain(s) /\ x.kind = "text" => Plain(Append(s, x))
         /\ NoText(s) /\ AtOnce(x) => NoText(Append(s, x))
<1> DEFINE t == Append(s, x)
<1>1. /\ Len(s) \in Nat /\ DOMAIN s = 1 .. Len(s) /\ DOMAIN t = 1 .. Len(s) + 1
      /\ \A i \in 1 .. Len(s) : t[i] = s[i]
      /\ t[Len(s) + 1] = x
  OBVIOUS
<1> HIDE DEF t
<1>2. ASSUME Chain(s, k), Plain(s) => Fits(x, k + Len(s) + 1) PROVE Chain(t, k)
  <2> SUFFICES ASSUME NEW i \in 1 .. Len(s) + 1, \A j \in 1 .. i - 1 : t[j].kind = "text"
               PROVE  Fits(t[i], k + i)
    BY <1>1 DEF Chain
  <2>1. CASE i \in 1 .. Len(s)
    <3>1. \A j \in 1 .. i - 1 : s[j].kind = "text"
      BY <1>1, <2>1
    <3> QED
      BY <1>1, <1>2, <2>1, <3>1 DEF Chain
  <2>2. CASE i = Len(s) + 1
    <3>1. Plain(s)
      BY <1>1, <2>2 DEF Plain
    <3>2. k + i = k + Len(s) + 1
      BY <1>1, <2>2
    <3> QED
      BY <1>1, <1>2, <2>2, <3>1, <3>2
  <2> QED
    BY <1>1, <2>1, <2>2
<1>3. Plain(s) /\ x.kind = "text" => Plain(t)
  BY <1>1 DEF Plain
<1>4. NoText(s) /\ AtOnce(x) => NoText(t)
  BY <1>1 DEF NoText
<1> QED
  BY <1>2, <1>3, <1>4 DEF t

(* A line whose end is lost, and one that the router cuts in the middle (Send
   that gives up, DrainAll). *)
LEMMA LineCut ==
  ASSUME NEW q \in Seq(Chunk), NEW s \in Seq(Chunk), NEW k \in Nat, Chain(q \o s, k)
  PROVE  Chain(q, k) /\ Chain(Append(q, Cut) \o s, k)
<1> DEFINE w == q \o s
           t == Append(q, Cut) \o s
<1>1. Cut \in Chunk
  BY EmptyIsTyped
<1>2. /\ Len(q) \in Nat /\ Len(s) \in Nat /\ DOMAIN q = 1 .. Len(q)
      /\ DOMAIN w = 1 .. Len(q) + Len(s)
      /\ \A i \in 1 .. Len(q) : w[i] = q[i]
  OBVIOUS
<1>3. /\ DOMAIN t = 1 .. Len(q) + 1 + Len(s)
      /\ \A i \in 1 .. Len(q) : t[i] = q[i]
      /\ t[Len(q) + 1] = Cut
  BY <1>1
<1> HIDE DEF w, t
<1>4. ASSUME NEW i \in 1 .. Len(q), \A j \in 1 .. i - 1 : q[j].kind = "text"
      PROVE  Fits(q[i], k + i)
  <2>1. i \in DOMAIN w /\ w[i] = q[i] /\ \A j \in 1 .. i - 1 : w[j].kind = "text"
    BY <1>2, <1>4
  <2> QED
    BY <2>1 DEF Chain, w
<1>5. Chain(q, k)
  BY <1>2, <1>4 DEF Chain
<1>6. ASSUME NEW i \in 1 .. Len(q) + 1 + Len(s), \A j \in 1 .. i - 1 : t[j].kind = "text"
      PROVE  Fits(t[i], k + i)
  <2>1. CASE i \in 1 .. Len(q)
    <3>1. \A j \in 1 .. i - 1 : q[j].kind = "text"
      BY <1>2, <1>3, <1>6, <2>1
    <3> QED
      BY <1>3, <1>4, <2>1, <3>1
  <2>2. CASE i = Len(q) + 1
    BY <1>3, <2>2 DEF Fits, Cut
  <2>3. CASE i > Len(q) + 1
    <3>1. Len(q) + 1 \in 1 .. i - 1
      BY <1>2, <2>3
    <3>2. t[Len(q) + 1].kind = "text"
      BY <1>6, <3>1
    <3> QED
      BY <1>3, <3>2 DEF Cut
  <2> QED
    BY <1>2, <2>1, <2>2, <2>3
<1>7. Chain(t, k)
  BY <1>3, <1>6 DEF Chain
<1> QED
  BY <1>5, <1>7 DEF t

(* The pieces of an answer, one more. *)
LEMMA FirstGrows ==
  ASSUME NEW k \in Nat
  PROVE  /\ First(0) = << >> /\ Len(First(k)) = k
         /\ First(k) \o << <<1, k + 1>> >> = First(k + 1)
         /\ First(k) \o << >> = First(k)
<1>1. First(0) = << >>
  BY DEF First
<1>2. First(k) \in Seq({1} \X Nat) /\ Len(First(k)) = k /\ \A i \in 1 .. k : First(k)[i] = <<1, i>>
  <2>1. ASSUME NEW i \in 1 .. k PROVE <<1, i>> \in {1} \X Nat
    OBVIOUS
  <2> QED
    BY <2>1 DEF First
<1>3. <<1, k + 1>> \in {1} \X Nat
  OBVIOUS
<1> DEFINE s == First(k)
           x == <<1, k + 1>>
<1>4. /\ s \o <<x>> \in Seq({1} \X Nat) /\ Len(s \o <<x>>) = k + 1
      /\ \A i \in 1 .. k : (s \o <<x>>)[i] = s[i]
      /\ (s \o <<x>>)[k + 1] = x
  <2> HIDE DEF s, x
  <2>1. s \in Seq({1} \X Nat) /\ Len(s) = k /\ x \in {1} \X Nat
    BY <1>2, <1>3 DEF s, x
  <2> QED
    BY <2>1
<1>5. s \o <<x>> = First(k + 1)
  <2> DEFINE t == s \o <<x>>
  <2>1. DOMAIN t = 1 .. k + 1 /\ t = [i \in 1 .. k + 1 |-> t[i]]
    BY <1>4
  <2>2. \A i \in 1 .. k + 1 : t[i] = <<1, i>>
    BY <1>2, <1>4
  <2> HIDE DEF t
  <2>3. t = [i \in 1 .. k + 1 |-> <<1, i>>]
    BY <2>1, <2>2
  <2> QED
    BY <2>3 DEF First, t
<1>6. s \o << >> = s
  <2> HIDE DEF s
  <2>1. s \in Seq({1} \X Nat)
    BY <1>2 DEF s
  <2> QED
    BY <2>1
<1> QED
  BY <1>1, <1>2, <1>5, <1>6

(* What the types say of the lines. *)
LEMMA LinesTyped ==
  ASSUME RelayTyped, NEW c \in Caller
  PROVE  /\ box[c].q \in Seq(Chunk) /\ sub[c].ch \in Seq(Chunk) /\ entry[c].chunks \in Seq(Chunk)
         /\ send[c][1] \in Seq(Chunk) /\ Len(send[c][1]) <= 1
         /\ OwnLine(c) \in Seq(Chunk) /\ Fed(c) \in Seq(Chunk)
         /\ Texts \in Nat \ {0} /\ Attempts \in Nat \ {0} /\ 0 \in Sender /\ 1 \in Sender
         /\ send[c] \in [Sender -> Sends] /\ job[c] \in Jobs /\ c \notin entry[c].subs
<1>1. Texts \in Nat \ {0} /\ Attempts \in Nat \ {0} /\ 0 \in Sender /\ 1 \in Sender
  BY EmptyIsTyped, RelayAssumption DEF Sender
<1>2. box[c].q \in Seq(Chunk) /\ send[c] \in [Sender -> Sends]
  BY DEF RelayTyped, StoreTyped, BoxOK, Boxes
<1>3. sub[c].ch \in Seq(Chunk) /\ entry[c].chunks \in Seq(Chunk) /\ c \notin entry[c].subs
  BY DEF RelayTyped, SharedTyped, SubOK, Subs, EntryOK, Entries
<1>4. job[c] \in Jobs
  BY DEF RelayTyped, RestTyped
<1>5. send[c][1] \in Seq(Chunk) /\ Len(send[c][1]) <= 1
  <2>1. send[c][1] \in Sends
    BY <1>1, <1>2
  <2>2. CASE send[c][1] = << >>
    BY <2>2
  <2>3. CASE \E x \in Chunk : send[c][1] = <<x>>
    <3>1. PICK x \in Chunk : send[c][1] = <<x>>
      BY <2>3
    <3> QED
      BY <3>1
  <2> QED
    BY <2>1, <2>2, <2>3 DEF Sends, NotSending
<1>6. OwnLine(c) \in Seq(Chunk) /\ Fed(c) \in Seq(Chunk)
  BY <1>2, <1>3, <1>5 DEF OwnLine, Fed
<1> QED
  BY <1>1, <1>2, <1>3, <1>4, <1>5, <1>6

\* A step that leaves a caller where it is, with what it has.
Stays(d) ==
    /\ hand'[d] = hand[d] /\ waiter'[d] = waiter[d] /\ job'[d] = job[d] /\ send'[d] = send[d]
    /\ got'[d] = got[d] /\ box'[d].q = box[d].q
    /\ d \in told' <=> d \in told
    /\ hand[d] = "new" => sub'[d] = sub[d]
Same(d) == Stays(d) /\ sub'[d].ch = sub[d].ch

\* Shutdown has no more to tell than it had.
NoMoreToDo == shut'.pc = "send" => shut.pc = "send" /\ shut'.todo \subseteq shut.todo

(* What is said of such a caller stays true, if its entry keeps what it kept. *)
LEMMA CallerFrame ==
  ASSUME NEW d \in Caller, NEW k, Stays(d), NoMoreToDo, UNCHANGED whole,
         registry' = d <=> registry = d,
         entry'[d].chunks = entry[d].chunks, entry'[d].dropped = entry[d].dropped,
         registry # d => entry'[d] = entry[d]
  PROVE  /\ Seat(d) => Seat(d)'
         /\ Asked(d) => Asked(d)'
         /\ OwnWhole(d) => OwnWhole(d)'
         /\ Kept(d) => Kept(d)'
         /\ Own(d, k) => Own(d, k)'
         /\ Same(d) => (FedWell(d) => FedWell(d)')
<1>1. /\ Owns(d)' <=> Owns(d)
      /\ Follower(d)' <=> Follower(d)
      /\ Listens(d)' <=> Listens(d)
  BY DEF Stays, Owns, Follower, Listens
<1>2. OwnLine(d)' = OwnLine(d)
  BY DEF Stays, OwnLine
<1>3. Seat(d) => Seat(d)'
  BY <1>1 DEF Stays, Seat
<1>4. Asked(d) => Asked(d)'
  BY DEF Stays, Asked, NoMoreToDo
<1>5. OwnWhole(d) => OwnWhole(d)'
  BY <1>1 DEF Stays, OwnWhole
<1>6. Kept(d) => Kept(d)'
  BY DEF Kept
<1>7. Same(d) => (FedWell(d) => FedWell(d)')
  <2>1. Same(d) => Fed(d)' = Fed(d)
    BY DEF Stays, Same, Fed
  <2> QED
    BY <1>1, <2>1 DEF Stays, FedWell, StreamFed, WholeFed
<1>8. Own(d, k) => Own(d, k)'
  BY <1>1, <1>2 DEF Stays, Own
<1> QED
  BY <1>3, <1>4, <1>5, <1>6, <1>7, <1>8

(* Nor does such a step change what a follower has of an entry. *)
LEMMA LinkFrame ==
  ASSUME NEW o \in Caller, NEW f \in Caller, NEW k, UNCHANGED whole, Owns(o)' => Owns(o),
         f \in entry'[o].subs => f \in entry[o].subs,
         hand'[f] = "new" => hand[f] = "new", Listens(f)' => Listens(f),
         got'[f] = got[f], Fed(f)' = Fed(f), sub[f].overflow => sub'[f].overflow
  PROVE  Linked(o, f, k) => Linked(o, f, k)'
BY DEF Linked, StreamFed, WholeFed

\* A handler that moves on, or stays, as its hand and its correlation entry tell.
MovesOn(d) ==
    /\ hand'[d] \in {"new", "submit", "end"} => hand'[d] = hand[d]
    /\ hand'[d] = "read" => hand[d] = "read" /\ (waiter'[d] = "none" <=> waiter[d] = "none")
    /\ hand'[d] = "pump" => hand[d] = "pump" \/ (registry = d /\ hand[d] = "read")
    /\ hand[d] \in {"delete", "closing", "unregister"} => hand'[d] \in {"delete", "closing", "unregister"}
    /\ waiter[d] # "none" => waiter'[d] # "none"
    /\ waiter'[d] # "open" => job'[d].at = "none"
    /\ \/ job'[d].at = "none"
       \/ job[d].at # "none" /\ job'[d].att = job[d].att /\ job'[d].n = job[d].n
    /\ shut'.pc = "send" /\ d \in shut'.todo =>
         \/ shut.pc = "send" /\ d \in shut.todo
         \/ waiter[d] # "none" /\ job'[d].at = "none"

(* Handlers that give up, hang up or end, entries that close, requests that are
   dispatched or cancelled, move no chunk (GiveUp, HangUp, Delete, Cancel). *)
LEMMA CalmFlow ==
  ASSUME NEW K, Flow(K), UNCHANGED <<whole, registry, entry, sub, send, got, told>>,
         \A d \in Caller : box'[d].q = box[d].q /\ MovesOn(d)
  PROVE  Flow(K)'
<1>1. ASSUME NEW d \in Caller
      PROVE  /\ OwnLine(d)' = OwnLine(d) /\ Fed(d)' = Fed(d)
             /\ Listens(d)' => Listens(d)
             /\ Follower(d)' => Follower(d)
             /\ Seat(d) /\ Asked(d) /\ OwnWhole(d) /\ Kept(d) /\ FedWell(d) /\ Own(d, K[d])
             /\ MovesOn(d) /\ box'[d].q = box[d].q
  BY DEF OwnLine, Fed, Listens, Follower, MovesOn, Flow
<1>2. ASSUME NEW d \in Caller PROVE Owns(d)' => Owns(d)
  <2>1. registry = d /\ hand[d] = "read" => waiter[d] # "none"
    BY <1>1 DEF Seat, Follower
  <2>2. MovesOn(d)
    BY <1>1
  <2> QED
    BY <2>1, <2>2 DEF Owns, MovesOn
<1>3. ASSUME NEW d \in Caller PROVE Seat(d)'
  BY <1>1 DEF Seat, MovesOn
<1>4. ASSUME NEW d \in Caller PROVE Asked(d)'
  BY <1>1 DEF Asked, MovesOn
<1>5. ASSUME NEW d \in Caller PROVE OwnWhole(d)' /\ Kept(d)' /\ FedWell(d)'
  BY <1>1, <1>2 DEF OwnWhole, Kept, FedWell, StreamFed, WholeFed
<1>6. ASSUME NEW d \in Caller PROVE Own(d, K[d])'
  <2>1. MovesOn(d) /\ Own(d, K[d]) /\ OwnLine(d)' = OwnLine(d)
    BY <1>1
  <2>2. hand[d] = "pump" => hand'[d] = "pump" \/ ~Owns(d)'
    BY <2>1 DEF MovesOn, Owns
  <2> QED
    BY <1>2, <2>1, <2>2 DEF Own, MovesOn
<1>7. ASSUME NEW o \in Caller, NEW f \in Caller PROVE Linked(o, f, K[o])'
  <2>1. hand'[f] = "new" => hand[f] = "new"
    BY <1>1 DEF MovesOn
  <2>2. Linked(o, f, K[o])
    BY DEF Flow
  <2> QED
    BY <1>1, <1>2, <2>1, <2>2, LinkFrame
<1> QED
  BY <1>3, <1>4, <1>5, <1>6, <1>7 DEF Flow

\* A step after which a caller listens only to what it listened to.
Quiet(c) ==
    /\ hand'[c] = "new" => hand[c] = "new"
    /\ Listens(c)' => /\ Listens(c) /\ got'[c] = got[c] /\ Fed(c)' = Fed(c)
                      /\ sub[c].overflow => sub'[c].overflow

\* A step that leaves the entries and the lines of all others as they are.
Alone(c) ==
    /\ NoMoreToDo /\ UNCHANGED whole
    /\ \A d \in Caller : d # c =>
            /\ Same(d) /\ (registry' = d <=> registry = d) /\ entry'[d] = entry[d]
            /\ sub[d].overflow => sub'[d].overflow
    /\ entry'[c].subs \subseteq entry[c].subs /\ c \notin entry[c].subs

(* A step of one caller that leaves the entries and the lines of the others alone
   (Submit, Send, WorkerSays, DrainAll, Unregister, the copying goroutine). *)
LEMMA ActorFlow ==
  ASSUME NEW K \in [Caller -> 0 .. Texts], Flow(K), NEW c \in Caller, NEW k \in 0 .. Texts,
         Alone(c),
         Seat(c)', Asked(c)', OwnWhole(c)', Kept(c)', FedWell(c)', Own(c, k)',
         (k = K[c] /\ (Owns(c)' => Owns(c))) \/ entry'[c].subs = {},
         Quiet(c) \/ \A o \in Caller : o # c => Linked(o, c, K[o])'
  PROVE  Flow([K EXCEPT ![c] = k])'
<1> DEFINE K2 == [K EXCEPT ![c] = k]
<1>0. K2[c] = k /\ \A d \in Caller : d # c => K2[d] = K[d]
  OBVIOUS
<1> HIDE DEF K2
<1>1. ASSUME NEW d \in Caller, d # c
      PROVE  /\ Seat(d)' /\ Asked(d)' /\ OwnWhole(d)' /\ Kept(d)' /\ FedWell(d)' /\ Own(d, K2[d])'
             /\ Owns(d)' => Owns(d)
             /\ hand'[d] = "new" => hand[d] = "new"
             /\ Listens(d)' => Listens(d)
             /\ got'[d] = got[d] /\ Fed(d)' = Fed(d)
             /\ sub[d].overflow => sub'[d].overflow
  <2>1. Same(d) /\ (registry' = d <=> registry = d) /\ entry'[d] = entry[d]
        /\ (sub[d].overflow => sub'[d].overflow) /\ K2[d] = K[d]
        /\ NoMoreToDo /\ UNCHANGED whole
    BY <1>0, <1>1 DEF Alone
  <2>2. Seat(d) /\ Asked(d) /\ OwnWhole(d) /\ Kept(d) /\ FedWell(d) /\ Own(d, K[d])
    BY DEF Flow
  <2>3. Seat(d)' /\ Asked(d)' /\ OwnWhole(d)' /\ Kept(d)' /\ FedWell(d)' /\ Own(d, K[d])'
    BY <2>1, <2>2, CallerFrame DEF Same
  <2> QED
    BY <2>1, <2>3 DEF Same, Stays, Owns, Listens, Follower, Fed
<1>2. ASSUME NEW o \in Caller, NEW f \in Caller PROVE Linked(o, f, K2[o])'
  <2>1. Linked(o, f, K[o])
    BY DEF Flow
  <2>2. CASE o # c /\ f # c
    <3>1. entry'[o] = entry[o] /\ K2[o] = K[o] /\ UNCHANGED whole
      BY <1>0, <2>2 DEF Alone
    <3> QED
      BY <1>1, <2>1, <2>2, <3>1, LinkFrame
  <2>3. CASE o # c /\ f = c
    <3>1. entry'[o] = entry[o] /\ K2[o] = K[o] /\ UNCHANGED whole
      BY <1>0, <2>3 DEF Alone
    <3>2. CASE Quiet(c)
      <4>1. CASE Listens(f)'
        BY <1>1, <2>1, <2>3, <3>1, <3>2, <4>1, LinkFrame DEF Quiet
      <4>2. CASE ~Listens(f)'
        BY <2>1, <2>3, <3>1, <3>2, <4>2 DEF Linked, Quiet
      <4> QED
        BY <4>1, <4>2
    <3> QED
      BY <2>3, <3>1, <3>2
  <2>4. CASE o = c /\ f # c
    <3>1. CASE entry'[c].subs = {}
      BY <2>4, <3>1 DEF Linked
    <3>2. CASE k = K[c] /\ (Owns(c)' => Owns(c))
      BY <1>0, <1>1, <2>1, <2>4, <3>2, LinkFrame DEF Alone
    <3> QED
      BY <3>1, <3>2
  <2>5. CASE o = c /\ f = c
    BY <2>5 DEF Linked, Alone
  <2> QED
    BY <2>2, <2>3, <2>4, <2>5
<1>3. ASSUME NEW d \in Caller
      PROVE  Seat(d)' /\ Asked(d)' /\ OwnWhole(d)' /\ Kept(d)' /\ FedWell(d)' /\ Own(d, K2[d])'
  BY <1>0, <1>1
<1> QED
  BY <1>2, <1>3 DEF Flow, K2

(* So for a step after which as many pieces have been passed on as before. *)
LEMMA ActorStays ==
  ASSUME NEW K \in [Caller -> 0 .. Texts], Flow(K), NEW c \in Caller, Alone(c),
         Seat(c)', Asked(c)', OwnWhole(c)', Kept(c)', FedWell(c)', Own(c, K[c])',
         (Owns(c)' => Owns(c)) \/ entry'[c].subs = {},
         Quiet(c) \/ \A o \in Caller : o # c => Linked(o, c, K[o])'
  PROVE  Flow(K)'
<1>1. K[c] \in 0 .. Texts /\ [K EXCEPT ![c] = K[c]] = K
  OBVIOUS
<1>2. Flow([K EXCEPT ![c] = K[c]])'
  BY <1>1, ActorFlow
<1> QED
  BY <1>1, <1>2

(* The steps that move no chunk (GiveUp, HangUp, ReadClosed, Delete, entry.close,
   the pump that stops, the queue's hand-over, shutdown emptying the queue). *)
LEMMA CalmStep ==
  ASSUME RelayTyped, NEW K, Flow(K), UNCHANGED whole,
         \/ ShutBegins \/ ShutDrains
         \/ \E c \in Caller : \/ ReadClosed(c) \/ GiveUp(c) \/ HangUp(c) \/ PumpStops(c)
                              \/ Delete(c) \/ CloseChannel(c) \/ Dispatched(c)
  PROVE  Flow(K)'
<1>1. /\ hand \in [Caller -> Hands] /\ waiter \in [Caller -> Waits] /\ job \in [Caller -> Jobs]
      /\ DOMAIN box = Caller /\ NoJob.at = "none"
  BY DEF RelayTyped, StoreTyped, CallerTyped, RestTyped, NoJob
<1>2. \A d \in Caller : job[d].at # "none" => waiter[d] = "open"
  BY DEF Flow, Asked
<1>3. ASSUME NEW c \in Caller, GiveUp(c) \/ ReadClosed(c) \/ HangUp(c) \/ PumpStops(c)
      PROVE  Flow(K)'
  <2>1. UNCHANGED <<registry, entry, sub, box, waiter, send, tries, got, told, shut>>
    BY <1>3 DEF GiveUp, ReadClosed, HangUp, PumpStops, sharedVars
  <2>2. PICK h : /\ hand' = [hand EXCEPT ![c] = h]
                 /\ \/ hand[c] = "read" /\ h \in {"unregister", "delete"}
                    \/ hand[c] = "read" /\ h = "pump" /\ registry = c
                    \/ hand[c] = "pump" /\ h = "delete"
    <3>1. CASE GiveUp(c) \/ ReadClosed(c)
      BY <3>1 DEF GiveUp, ReadClosed, Leave
    <3>2. CASE HangUp(c)
      BY <3>2 DEF HangUp, Leave, Original
    <3>3. CASE PumpStops(c)
      BY <3>3 DEF PumpStops
    <3> QED
      BY <1>3, <3>1, <3>2, <3>3
  <2>3. job' = job \/ job' = [job EXCEPT ![c] = NoJob]
    BY <1>3 DEF GiveUp, ReadClosed, HangUp, PumpStops, Cancel
  <2>4. ASSUME NEW d \in Caller PROVE box'[d].q = box[d].q /\ MovesOn(d)
    <3>1. job'[d] = job[d] \/ job'[d].at = "none"
      BY <1>1, <2>3
    <3>2. d # c => hand'[d] = hand[d]
      BY <1>1, <2>2
    <3>3. hand'[c] = h
      BY <1>1, <2>2
    <3> QED
      BY <1>2, <2>1, <2>2, <3>1, <3>2, <3>3 DEF MovesOn
  <2> QED
    BY <2>1, <2>4, CalmFlow
<1>4. ASSUME NEW c \in Caller, Delete(c) \/ CloseChannel(c) PROVE Flow(K)'
  <2>1. UNCHANGED <<registry, entry, sub, send, tries, got, told, shut>>
    BY <1>4 DEF Delete, CloseChannel, sharedVars
  <2>2. \A d \in Caller : box'[d].q = box[d].q
    <3>1. CASE Delete(c)
      BY <3>1 DEF Delete
    <3>2. CASE CloseChannel(c)
      <4>1. box[c] \in Boxes
        BY DEF RelayTyped, StoreTyped, BoxOK
      <4>2. [box[c] EXCEPT !.closed = TRUE].q = box[c].q
        BY <4>1 DEF Boxes
      <4>3. box' = [box EXCEPT ![c] = [box[c] EXCEPT !.closed = TRUE]]
        BY <3>2 DEF CloseChannel
      <4> QED
        BY <1>1, <4>2, <4>3
    <3> QED
      BY <1>4, <3>1, <3>2
  <2>3. /\ \A d \in Caller : d # c => hand'[d] = hand[d] /\ waiter'[d] = waiter[d] /\ job'[d] = job[d]
        /\ hand'[c] = hand[c] \/ (hand[c] \in {"delete", "closing"} /\ hand'[c] \in {"closing", "unregister"})
    <3>1. CASE Delete(c)
      BY <1>1, <3>1 DEF Delete
    <3>2. CASE CloseChannel(c)
      BY <1>1, <3>2 DEF CloseChannel
    <3> QED
      BY <1>4, <3>1, <3>2
  <2>4. /\ waiter[c] # "none" => waiter'[c] # "none"
        /\ waiter[c] = "none" => waiter'[c] = "none"
        /\ job'[c] = job[c] \/ job'[c].at = "none"
        /\ waiter'[c] = waiter[c] \/ job'[c].at = "none"
    <3>1. CASE Delete(c)
      BY <1>1, <3>1 DEF Delete
    <3>2. CASE CloseChannel(c)
      <4>1. waiter[c] = "closing" /\ job' = job
        BY <3>2 DEF CloseChannel
      <4>2. waiter'[c] = "closed" /\ job[c].at = "none"
        BY <1>1, <1>2, <3>2, <4>1 DEF CloseChannel
      <4> QED
        BY <4>1, <4>2
    <3> QED
      BY <1>4, <3>1, <3>2
  <2>5. ASSUME NEW d \in Caller PROVE MovesOn(d)
    <3>1. CASE d = c
      BY <1>2, <2>1, <2>3, <2>4, <3>1 DEF MovesOn
    <3>2. CASE d # c
      BY <1>2, <2>1, <2>3, <3>2 DEF MovesOn
    <3> QED
      BY <3>1, <3>2
  <2> QED
    BY <2>1, <2>2, <2>5, CalmFlow
<1>5. ASSUME NEW c \in Caller, Dispatched(c) PROVE Flow(K)'
  <2>1. UNCHANGED <<registry, entry, sub, box, waiter, send, hand, tries, got, told, shut>>
    BY <1>5 DEF Dispatched, sharedVars, callerVars
  <2>2. \A d \in Caller : job'[d] = job[d] \/ (/\ job[d].at # "none" /\ job'[d].at # "none"
                                               /\ job'[d].att = job[d].att /\ job'[d].n = job[d].n)
    BY <1>1, <1>5 DEF Dispatched, Jobs
  <2>3. \A d \in Caller : box'[d].q = box[d].q /\ MovesOn(d)
    BY <1>2, <2>1, <2>2 DEF MovesOn
  <2> QED
    BY <2>1, <2>3, CalmFlow
<1>6. CASE ShutBegins
  <2>1. UNCHANGED <<registry, entry, sub, box, waiter, send, hand, tries, got, told>>
    BY <1>6 DEF ShutBegins, sharedVars, callerVars
  <2>2. \A d \in Caller : job'[d] = job[d] \/ job'[d].at = "none"
    BY <1>1, <1>6 DEF ShutBegins
  <2>3. \A d \in Caller : d \in shut'.todo => job[d].at # "none" /\ job'[d].at = "none"
    BY <1>1, <1>6 DEF ShutBegins
  <2>4. \A d \in Caller : box'[d].q = box[d].q /\ MovesOn(d)
    BY <1>2, <2>1, <2>2, <2>3 DEF MovesOn
  <2> QED
    BY <2>1, <2>4, CalmFlow
<1>7. CASE ShutDrains
  <2>1. UNCHANGED <<registry, entry, sub, box, waiter, send, hand, tries, got, told, job>>
        /\ shut'.pc = "drain"
    BY <1>7 DEF ShutDrains, sharedVars, callerVars
  <2>2. \A d \in Caller : box'[d].q = box[d].q /\ MovesOn(d)
    BY <1>2, <2>1 DEF MovesOn
  <2> QED
    BY <2>1, <2>2, CalmFlow
<1> QED
  BY <1>3, <1>4, <1>5, <1>6, <1>7

(* Create and TryPush: the request that enters the queue is the first attempt, and
   nothing has been said of it yet. *)
LEMMA SubmitFlow ==
  ASSUME RelayTyped, SendInv, NEW K \in [Caller -> 0 .. Texts], Flow(K), UNCHANGED whole,
         NEW c \in Caller, Submit(c)
  PROVE  Flow(K)'
<1>1. /\ hand \in [Caller -> Hands] /\ waiter \in [Caller -> Waits] /\ job \in [Caller -> Jobs]
      /\ DOMAIN box = Caller /\ NoJob.at = "none" /\ box[c] \in Boxes /\ Attempts \in Nat \ {0}
      /\ send[c] \in [Sender -> Sends] /\ 0 \in Sender /\ 1 \in Sender
  BY LinesTyped DEF RelayTyped, StoreTyped, CallerTyped, RestTyped, NoJob, BoxOK
<1>2. /\ Seat(c) /\ Asked(c) /\ OwnWhole(c) /\ Kept(c) /\ FedWell(c) /\ Own(c, K[c])
      /\ hand[c] = "submit" /\ waiter[c] = "none" /\ got[c] = << >> /\ box[c].q = << >>
      /\ \A a \in Sender : send[c][a] = NotSending
  <2>1. hand[c] = "submit" /\ Seat(c) /\ Asked(c) /\ OwnWhole(c) /\ Kept(c) /\ FedWell(c) /\ Own(c, K[c])
    BY DEF Submit, Flow
  <2>2. waiter[c] = "none" /\ \A a \in Sender : send[c][a] = NotSending
    BY <1>1, <2>1 DEF SendInv, NotYetWaiting, SendersJoined, Senders
  <2> QED
    BY <2>1, <2>2 DEF Seat
<1>3. /\ UNCHANGED <<registry, entry, sub, send, tries, got, told, shut>>
      /\ \/ hand' = [hand EXCEPT ![c] = "read"] /\ waiter' = [waiter EXCEPT ![c] = "open"]
            /\ job' = [job EXCEPT ![c] = [at |-> "queued", att |-> 1, n |-> 0]] /\ UNCHANGED box
         \/ hand' = [hand EXCEPT ![c] = "unregister"] /\ waiter' = [waiter EXCEPT ![c] = "closed"]
            /\ UNCHANGED job /\ box' = [box EXCEPT ![c] = [box[c] EXCEPT !.closed = TRUE]]
  BY DEF Submit, sharedVars
<1>4. \A d \in Caller : box'[d].q = box[d].q
  <2>1. [box[c] EXCEPT !.closed = TRUE].q = box[c].q
    BY <1>1 DEF Boxes
  <2> QED
    BY <1>1, <1>3, <2>1
<1>5. \/ hand'[c] = "read" /\ waiter'[c] = "open" /\ job'[c] = [at |-> "queued", att |-> 1, n |-> 0]
      \/ hand'[c] = "unregister" /\ waiter'[c] = "closed" /\ job'[c] = job[c]
  BY <1>1, <1>3
<1>6. Alone(c)
  <2>1. \A d \in Caller : d # c => hand'[d] = hand[d] /\ waiter'[d] = waiter[d] /\ job'[d] = job[d]
    BY <1>1, <1>3
  <2>2. c \notin entry[c].subs
    BY LinesTyped
  <2> QED
    BY <1>3, <1>4, <2>1, <2>2 DEF Alone, Same, Stays, NoMoreToDo
<1>7. Seat(c)'
  BY <1>2, <1>3, <1>5 DEF Seat, Follower
<1>8. Asked(c)'
  BY <1>1, <1>2, <1>3, <1>5 DEF Asked
<1>9. OwnWhole(c)' /\ Kept(c)' /\ FedWell(c)'
  BY <1>2, <1>3, <1>4, <1>5 DEF OwnWhole, Kept, FedWell, NoText, Listens, Follower
<1>10. Own(c, K[c])'
  <2>1. OwnLine(c)' = OwnLine(c) /\ OwnLine(c) = << >>
    <3>1. send'[c][1] = << >> /\ send[c][1] = << >> /\ box'[c].q = << >>
      BY <1>1, <1>2, <1>3, <1>4 DEF NotSending
    <3>2. << >> \o << >> = << >>
      OBVIOUS
    <3> QED
      BY <1>2, <3>1, <3>2 DEF OwnLine
  <2>2. Owns(c) /\ (Owns(c)' => hand'[c] = "read")
    BY <1>2, <1>5 DEF Owns
  <2>3. Plain(<< >>) /\ Len(<< >>) = 0
    BY DEF Plain
  <2>4. c \notin whole => K[c] = 0
    <3>1. K[c] \in Nat
      BY EmptyIsTyped, RelayAssumption
    <3>2. c \notin whole => << >> = First(K[c])
      BY <1>2, <2>2 DEF Own
    <3> QED
      BY <3>1, <3>2, FirstGrows
  <2>5. ASSUME hand'[c] = "read", c \notin whole
        PROVE  /\ Chain(OwnLine(c)', K[c]) /\ got'[c] = First(K[c])
               /\ Plain(OwnLine(c)') /\ job'[c].n = K[c] + Len(OwnLine(c)')
               /\ registry' = c /\ ~entry'[c].dropped => Len(entry'[c].chunks) = K[c] /\ Plain(entry'[c].chunks)
    <3>1. Own(c, K[c])
      BY <1>2
    <3>2. job'[c].n = 0
      BY <1>5, <2>5
    <3> QED
      BY <1>2, <1>3, <2>1, <2>2, <2>3, <2>4, <2>5, <3>1, <3>2 DEF Own
  <2> QED
    BY <1>3, <2>2, <2>5 DEF Own
<1>11. Owns(c) /\ Quiet(c)
  BY <1>2, <1>5 DEF Owns, Quiet, Listens, Follower
<1> QED
  BY <1>6, <1>7, <1>8, <1>9, <1>10, <1>11, ActorStays

(* The shutdown's call of Send tells a request that is not in the queue any more. *)
LEMMA ShutSendsFlow ==
  ASSUME RelayTyped, NEW K \in [Caller -> 0 .. Texts], Flow(K), UNCHANGED whole,
         NEW c \in Caller, ShutSends(c)
  PROVE  Flow(K)'
<1>1. /\ send \in [Caller -> [Sender -> Sends]] /\ 0 \in Sender /\ 1 \in Sender
      /\ shut \in [pc : {"no", "send", "drain"}, todo : SUBSET Caller]
  BY LinesTyped DEF RelayTyped, StoreTyped, RestTyped
<1>2. /\ Seat(c) /\ Asked(c) /\ OwnWhole(c) /\ Kept(c) /\ FedWell(c) /\ Own(c, K[c])
      /\ shut.pc = "send" /\ c \in shut.todo
  BY DEF Flow, ShutSends
<1>3. /\ UNCHANGED <<registry, entry, sub, box, waiter, hand, tries, got, told, job>>
      /\ send' = send \/ send' = [send EXCEPT ![c] = [send[c] EXCEPT ![0] = <<Cut>>]]
      /\ shut' = [shut EXCEPT !.todo = @ \ {c}]
  BY DEF ShutSends, sharedVars, callerVars, Joined
<1>4. /\ send'[c] = send[c] \/ send'[c] = [send[c] EXCEPT ![0] = <<Cut>>]
      /\ \A d \in Caller : d # c => send'[d] = send[d]
      /\ shut'.pc = shut.pc /\ shut'.todo = shut.todo \ {c}
  BY <1>1, <1>3
<1>5. /\ send'[c][0] \in {send[c][0], <<Cut>>}
      /\ \A a \in Sender : a # 0 => send'[c][a] = send[c][a]
  BY <1>1, <1>4
<1>6. Alone(c)
  <2>1. c \notin entry[c].subs
    BY LinesTyped
  <2> QED
    BY <1>3, <1>4, <2>1 DEF Alone, Same, Stays, NoMoreToDo
<1>7. /\ Owns(c)' <=> Owns(c)
      /\ Listens(c)' <=> Listens(c)
      /\ Follower(c)' <=> Follower(c)
      /\ OwnLine(c)' = OwnLine(c) /\ Fed(c)' = Fed(c)
  <2>1. send'[c][1] = send[c][1]
    BY <1>1, <1>5
  <2> QED
    BY <1>3, <2>1 DEF Owns, Listens, Follower, OwnLine, Fed
<1>8. Seat(c)' /\ OwnWhole(c)' /\ Kept(c)' /\ FedWell(c)' /\ Own(c, K[c])'
  <2>1. Seat(c)'
    BY <1>2, <1>3, <1>7 DEF Seat
  <2>2. OwnWhole(c)' /\ Kept(c)'
    BY <1>2, <1>3, <1>7 DEF OwnWhole, Kept
  <2>3. FedWell(c)'
    BY <1>2, <1>3, <1>7 DEF FedWell, StreamFed, WholeFed
  <2>4. Own(c, K[c])'
    BY <1>2, <1>3, <1>7 DEF Own
  <2> QED
    BY <2>1, <2>2, <2>3, <2>4
<1>9. Asked(c)'
  <2>1. NoText(<<Cut>>)
    BY DEF NoText, AtOnce, Cut
  <2>2. \A a \in Sender : send'[c][a] \in {send[c][a], <<Cut>>} /\ (a >= 2 => a # 0)
    BY <1>5
  <2>3. c \in whole => \A a \in Sender : NoText(send'[c][a])
    BY <1>2, <2>1, <2>2 DEF Asked
  <2> QED
    BY <1>1, <1>2, <1>3, <1>4, <1>5, <2>2, <2>3 DEF Asked
<1>10. Quiet(c)
  BY <1>3, <1>7 DEF Quiet
<1> QED
  BY <1>6, <1>7, <1>8, <1>9, <1>10, ActorStays

\* A step after which what is on its way to a handler is a line if it was one,
\* and the same line if a request of his is still out.
Shortens(c) ==
    /\ \A k \in Nat : Chain(OwnLine(c), k) => Chain(OwnLine(c)', k)
    /\ job'[c].at # "none" => job'[c] = job[c] /\ OwnLine(c)' = OwnLine(c)

(* What a step of Send or of DrainAll, for an entry somebody waits on, has to do to
   keep the lines whole. *)
LEMMA StoreFlow ==
  ASSUME RelayTyped, SendInv, NEW K \in [Caller -> 0 .. Texts], Flow(K), NEW c \in Caller,
         Alone(c), UNCHANGED <<registry, entry, sub, hand, tries, got, told>>,
         waiter[c] # "none", waiter'[c] # "none", Asked(c)',
         c \notin whole => Shortens(c),
         c \in whole /\ NoText(box[c].q) => NoText(box'[c].q)
  PROVE  Flow(K)'
<1>1. /\ Seat(c) /\ Asked(c) /\ OwnWhole(c) /\ Kept(c) /\ FedWell(c) /\ Own(c, K[c])
      /\ K[c] \in Nat /\ UNCHANGED whole
  BY EmptyIsTyped, RelayAssumption DEF Flow, Alone
<1>2. hand[c] \notin {"new", "submit"}
  BY DEF SendInv, NotYetWaiting
<1>3. /\ Owns(c)' <=> Owns(c)
      /\ ~Listens(c)' /\ ~Follower(c)' /\ ~Follower(c)
  BY DEF Owns, Listens, Follower
<1>4. Seat(c)'
  BY <1>1, <1>2, <1>3 DEF Seat
<1>5. OwnWhole(c)' /\ Kept(c)' /\ FedWell(c)'
  BY <1>1, <1>3 DEF OwnWhole, Kept, FedWell
<1>6. Own(c, K[c])'
  BY <1>1, <1>3 DEF Own, Shortens
<1>7. Quiet(c)
  BY <1>3 DEF Quiet
<1> QED
  BY <1>3, <1>4, <1>5, <1>6, <1>7, ActorStays

(* Send delivers, finds the entry closing, or gives up (store.go Send): a goroutine
   inside it belongs to an attempt of the request, or to the shutdown. *)
LEMMA SendStepFlow ==
  ASSUME RelayTyped, SendInv, NEW K \in [Caller -> 0 .. Texts], Flow(K), UNCHANGED whole,
         NEW c \in Caller, NEW a \in Sender, SendStep(c, a)
  PROVE  Flow(K)'
<1> DEFINE q == box[c].q
           x == Head(send[c][a])
           s == send[c][1]
<1>1. /\ send \in [Caller -> [Sender -> Sends]] /\ 0 \in Sender /\ 1 \in Sender /\ Attempts \in Nat
      /\ job \in [Caller -> Jobs] /\ DOMAIN box = Caller /\ box[c] \in Boxes
      /\ q \in Seq(Chunk) /\ s \in Seq(Chunk) /\ NoJob.at = "none"
  BY LinesTyped DEF RelayTyped, StoreTyped, RestTyped, NoJob, BoxOK
<1>2. /\ UNCHANGED <<registry, entry, sub, waiter, hand, tries, got, told, shut>>
      /\ send' = [send EXCEPT ![c] = [send[c] EXCEPT ![a] = NotSending]]
      /\ send[c][a] # NotSending
  BY DEF SendStep, sharedVars, callerVars
<1>3. waiter[c] \in {"open", "closing"}
  BY <1>2 DEF SendInv, SendersJoined, Senders
<1>4. Asked(c) /\ c \notin entry[c].subs /\ a \in Nat
  BY <1>1, LinesTyped DEF Flow, Sender
<1>5. send[c][a] = <<x>> /\ x \in Chunk
  <2>1. PICK y \in Chunk : send[c][a] = <<y>>
    BY <1>1, <1>2 DEF Sends
  <2> QED
    BY <2>1
<1>6. \/ box' = [box EXCEPT ![c] = [box[c] EXCEPT !.q = Append(q, x)]] /\ job' = job
      \/ box' = box /\ job' = job /\ (a = 0 \/ waiter[c] = "closing")
      \/ box' = box /\ job' = [job EXCEPT ![c] = NoJob]
  <2>1. q \o <<x>> = Append(q, x)
    BY <1>1, <1>5, LinesJoin
  <2>2. \/ box' = [box EXCEPT ![c].q = q \o send[c][a]] /\ job' = job
        \/ box' = box /\ job' = job /\ (a = 0 \/ waiter[c] = "closing")
        \/ box' = box /\ job' = [job EXCEPT ![c] = NoJob]
    BY DEF SendStep
  <2> QED
    BY <1>5, <2>1, <2>2
<1> HIDE DEF q, x, s
<1>7. /\ \A d \in Caller : d # c => box'[d] = box[d] /\ job'[d] = job[d] /\ send'[d] = send[d]
      /\ send'[c][a] = NotSending /\ \A b \in Sender : b # a => send'[c][b] = send[c][b]
      /\ job'[c] = job[c] \/ job'[c].at = "none"
  BY <1>1, <1>2, <1>6
<1>8. \/ box'[c].q = Append(q, x) /\ job'[c] = job[c]
      \/ box'[c].q = q /\ job'[c] = job[c] /\ (a = 0 \/ waiter[c] = "closing")
      \/ box'[c].q = q /\ job'[c].at = "none"
  <2>1. box[c].q = q /\ [box[c] EXCEPT !.q = Append(q, x)].q = Append(q, x)
    BY <1>1 DEF Boxes, q
  <2> QED
    BY <1>1, <1>6, <2>1
<1>9. Alone(c)
  BY <1>2, <1>4, <1>7 DEF Alone, Same, Stays, NoMoreToDo
<1>10. Asked(c)'
  <2>1. NoText(NotSending)
    BY DEF NoText, NotSending
  <2>2. \A b \in Sender : send'[c][b] \in {send[c][b], NotSending}
    BY <1>7
  <2>3. \A b \in Sender : c \in whole => NoText(send'[c][b])
    BY <1>4, <2>1, <2>2 DEF Asked
  <2>4. \A b \in Sender : c \notin whole /\ b >= 2 => send'[c][b] = NotSending
    BY <1>4, <2>2 DEF Asked
  <2> QED
    BY <1>1, <1>2, <1>4, <1>7, <2>2, <2>3, <2>4 DEF Asked
<1>11. ASSUME c \in whole, NoText(box[c].q) PROVE NoText(box'[c].q)
  <2>1. AtOnce(x)
    <3>1. NoText(<<x>>)
      BY <1>4, <1>5, <1>11 DEF Asked
    <3> QED
      BY <3>1 DEF NoText
  <2>2. NoText(Append(q, x))
    <3>1. 0 \in Nat /\ NoText(q)
      BY <1>11 DEF q
    <3> QED
      BY <1>1, <1>5, <2>1, <3>1, LineAppend
  <2> QED
    BY <1>8, <1>11, <2>2 DEF q
<1>12. ASSUME c \notin whole PROVE Shortens(c)
  <2>1. a = 0 \/ a = 1
    BY <1>2, <1>4, <1>12 DEF Asked
  <2>2. OwnLine(c) = q \o s /\ OwnLine(c)' = box'[c].q \o send'[c][1]
    BY DEF OwnLine, q, s
  <2>3. CASE a = 1
    <3>1. s = <<x>> /\ send'[c][1] = << >>
      BY <1>5, <1>7, <2>3 DEF s, NotSending
    <3>2. OwnLine(c) = Append(q, x) /\ Append(q, x) \in Seq(Chunk)
      BY <1>1, <1>5, <2>2, <3>1, LinesJoin
    <3>3. OwnLine(c)' = box'[c].q
      <4>1. box'[c].q \in Seq(Chunk)
        BY <1>1, <1>8, <3>2
      <4> QED
        BY <1>5, <2>2, <3>1, <4>1, LinesJoin
    <3>4. CASE box'[c].q = Append(q, x) /\ job'[c] = job[c]
      BY <3>2, <3>3, <3>4 DEF Shortens
    <3>5. CASE box'[c].q = q /\ job'[c].at = "none"
      <4>1. \A k \in Nat : Chain(q \o s, k) => Chain(q, k)
        BY <1>1, LineCut
      <4> QED
        BY <2>2, <3>3, <3>5, <4>1 DEF Shortens
    <3>6. CASE box'[c].q = q /\ job'[c] = job[c] /\ waiter[c] = "closing"
      <4>1. job'[c].at = "none"
        BY <1>4, <3>6 DEF Asked
      <4> QED
        BY <3>5, <3>6, <4>1
    <3> QED
      BY <1>8, <2>3, <3>4, <3>5, <3>6
  <2>4. CASE a = 0
    <3>1. send'[c][1] = s /\ x = Cut
      <4>1. send[c][0] = <<Cut>>
        BY <1>2, <1>4, <2>4 DEF Asked
      <4> QED
        BY <1>1, <1>5, <1>7, <2>4, <4>1 DEF s
    <3>2. job'[c].at = "none"
      BY <1>2, <1>4, <1>7, <1>12, <2>4 DEF Asked
    <3>3. \A k \in Nat : Chain(q \o s, k) => Chain(Append(q, Cut) \o s, k)
      BY <1>1, LineCut
    <3> QED
      BY <1>8, <2>2, <3>1, <3>2, <3>3 DEF Shortens
  <2> QED
    BY <2>1, <2>3, <2>4
<1> QED
  BY <1>2, <1>3, <1>9, <1>10, <1>11, <1>12, StoreFlow

(* DrainAll cuts the line of every handler that still waits (store.go). *)
LEMMA DrainEntryFlow ==
  ASSUME RelayTyped, SendInv, NEW K \in [Caller -> 0 .. Texts], Flow(K), UNCHANGED whole,
         NEW c \in Caller, DrainEntry(c)
  PROVE  Flow(K)'
<1> DEFINE q == box[c].q
           s == send[c][1]
<1>1. /\ waiter \in [Caller -> Waits] /\ job \in [Caller -> Jobs] /\ DOMAIN box = Caller
      /\ box[c] \in Boxes /\ q \in Seq(Chunk) /\ s \in Seq(Chunk) /\ NoJob.at = "none"
      /\ shut \in [pc : {"no", "send", "drain"}, todo : SUBSET Caller]
  BY LinesTyped DEF RelayTyped, StoreTyped, RestTyped, NoJob, BoxOK
<1>2. /\ UNCHANGED <<registry, entry, sub, send, hand, tries, got, told>>
      /\ shut' = [shut EXCEPT !.todo = @ \ {c}] /\ shut.pc = "drain"
  BY DEF DrainEntry, sharedVars, callerVars
<1>3. shut'.pc = "drain"
  BY <1>1, <1>2
<1>4. Asked(c) /\ c \notin entry[c].subs
  BY LinesTyped DEF Flow
<1>5. CASE waiter[c] # "open"
  <2>1. UNCHANGED <<waiter, box, job>>
    BY <1>5 DEF DrainEntry
  <2>2. ASSUME NEW d \in Caller PROVE box'[d].q = box[d].q /\ MovesOn(d)
    <3>1. job[d].at # "none" => waiter[d] = "open"
      BY DEF Flow, Asked
    <3> QED
      BY <1>2, <1>3, <2>1, <3>1 DEF MovesOn
  <2> QED
    BY <1>2, <2>1, <2>2, CalmFlow
<1>6. CASE waiter[c] = "open"
  <2>1. /\ waiter' = [waiter EXCEPT ![c] = "closing"]
        /\ job' = [job EXCEPT ![c] = NoJob]
        /\ box' = [box EXCEPT ![c] = [box[c] EXCEPT !.q = Append(q, Cut)]]
           \/ box' = [box EXCEPT ![c] = [box[c] EXCEPT !.q = q]]
    BY <1>6 DEF DrainEntry
  <2>2. [box[c] EXCEPT !.q = Append(q, Cut)].q = Append(q, Cut) /\ [box[c] EXCEPT !.q = q].q = q
    BY <1>1 DEF Boxes
  <2> HIDE DEF q, s
  <2>3. /\ waiter'[c] = "closing" /\ job'[c].at = "none"
        /\ box'[c].q = Append(q, Cut) \/ box'[c].q = q
        /\ \A d \in Caller : d # c => box'[d] = box[d] /\ job'[d] = job[d] /\ waiter'[d] = waiter[d]
    BY <1>1, <2>1, <2>2
  <2>4. Alone(c)
    BY <1>2, <1>3, <1>4, <2>3 DEF Alone, Same, Stays, NoMoreToDo
  <2>5. Asked(c)'
    BY <1>2, <1>3, <1>4, <2>3 DEF Asked
  <2>6. Shortens(c)
    <3>1. \A k \in Nat : Chain(q \o s, k) => Chain(Append(q, Cut) \o s, k)
      BY <1>1, LineCut
    <3>2. OwnLine(c) = q \o s /\ OwnLine(c)' = box'[c].q \o s
      BY <1>2 DEF OwnLine, q, s
    <3> QED
      BY <2>3, <3>1, <3>2 DEF Shortens
  <2>7. ASSUME NoText(box[c].q) PROVE NoText(box'[c].q)
    <3>1. AtOnce(Cut) /\ Cut \in Chunk /\ 0 \in Nat
      BY EmptyIsTyped DEF AtOnce, Cut
    <3>2. NoText(q) => NoText(Append(q, Cut))
      BY <1>1, <3>1, LineAppend
    <3> QED
      BY <2>3, <2>7, <3>2 DEF q
  <2> QED
    BY <1>2, <1>6, <2>3, <2>4, <2>5, <2>6, <2>7, StoreFlow
<1> QED
  BY <1>5, <1>6

(* The worker's next message is the next piece, or the end after the last one
   (the hub's read loop, OnChunk). *)
LEMMA WorkerSaysFlow ==
  ASSUME RelayTyped, NEW K \in [Caller -> 0 .. Texts], Flow(K), UNCHANGED whole,
         NEW c \in Caller, WorkerSays(c)
  PROVE  Flow(K)'
<1> DEFINE q == box[c].q
           j == job[c]
<1>1. /\ send \in [Caller -> [Sender -> Sends]] /\ 0 \in Sender /\ 1 \in Sender
      /\ Attempts \in Nat \ {0} /\ Texts \in Nat \ {0}
      /\ job \in [Caller -> Jobs] /\ q \in Seq(Chunk) /\ NoJob.at = "none"
      /\ K[c] \in Nat /\ c \notin entry[c].subs
  BY LinesTyped DEF RelayTyped, StoreTyped, RestTyped, NoJob
<1>2. j \in Jobs /\ j.at = "running" /\ j.att \in Sender /\ j.n \in 0 .. Texts /\ j.n \in Nat
  BY <1>1 DEF WorkerSays, Jobs, Sender
<1>3. /\ Seat(c) /\ Asked(c) /\ OwnWhole(c) /\ Kept(c) /\ FedWell(c) /\ Own(c, K[c])
      /\ waiter[c] = "open" /\ j.att >= 1 /\ j.att \in 1 .. Attempts /\ j.att # 0
  BY <1>1, <1>2 DEF Flow, Asked, Sender
<1>4. PICK x : /\ send' = [send EXCEPT ![c] = [send[c] EXCEPT ![j.att] = <<x>>]]
               /\ send[c][j.att] = NotSending
               /\ UNCHANGED <<registry, entry, sub, box, waiter, hand, tries, got, told, shut>>
               /\ \/ /\ c \in whole /\ AtOnce(x) /\ job' = [job EXCEPT ![c] = [j EXCEPT !.n = 1]]
                  \/ /\ c \notin whole /\ j.n < Texts /\ x = [kind |-> "text", by |-> j.att, n |-> j.n + 1]
                     /\ job' = [job EXCEPT ![c] = [j EXCEPT !.n = j.n + 1]]
                  \/ /\ c \in whole \/ j.n = Texts
                     /\ x = [kind |-> "done", by |-> j.att, n |-> IF c \in whole THEN Texts ELSE 0]
                     /\ job' = [job EXCEPT ![c] = NoJob]
  <2>1. AtOnce([kind |-> "ping", by |-> j.att, n |-> 0])
    BY DEF AtOnce
  <2> QED
    BY <1>3, <2>1 DEF WorkerSays, Joined, sharedVars, callerVars
<1>5. /\ \A d \in Caller : d # c => job'[d] = job[d] /\ send'[d] = send[d]
      /\ send'[c][j.att] = <<x>> /\ \A b \in Sender : b # j.att => send'[c][b] = send[c][b]
      /\ send'[c][0] = send[c][0]
  BY <1>1, <1>2, <1>3, <1>4
<1>6. Alone(c)
  BY <1>1, <1>4, <1>5 DEF Alone, Same, Stays, NoMoreToDo
<1>7. /\ Owns(c)' <=> Owns(c)
      /\ ~Listens(c)' /\ ~Follower(c)' /\ ~Follower(c)
  BY <1>3, <1>4 DEF Owns, Listens, Follower
<1>8. Seat(c)' /\ OwnWhole(c)' /\ Kept(c)' /\ FedWell(c)'
  BY <1>3, <1>4, <1>7 DEF Seat, OwnWhole, Kept, FedWell
<1>9. CASE c \in whole
  <2>1. AtOnce(x)
    BY <1>3, <1>4, <1>9 DEF AtOnce
  <2>2. NoText(<<x>>)
    BY <2>1 DEF NoText
  <2>3. \A b \in Sender : NoText(send'[c][b])
    BY <1>3, <1>5, <1>9, <2>2 DEF Asked
  <2>4. job'[c].at = "none" \/ job'[c].att = j.att
    BY <1>1, <1>2, <1>4, <1>9 DEF Jobs
  <2>5. Asked(c)'
    BY <1>3, <1>4, <1>5, <1>9, <2>3, <2>4 DEF Asked
  <2>6. Own(c, K[c])' /\ Quiet(c)
    BY <1>4, <1>7, <1>9 DEF Own, Quiet
  <2> QED
    BY <1>6, <1>7, <1>8, <2>5, <2>6, ActorStays
<1>10. CASE c \notin whole
  <2>1. /\ j.att = 1 /\ send[c][0] = NotSending /\ send[c][1] = << >>
        /\ ~(shut.pc = "send" /\ c \in shut.todo)
        /\ \A a \in Sender : a >= 2 => send[c][a] = NotSending
    <3>1. j.at # "none"
      BY <1>2
    <3>2. /\ j.att = 1 /\ send[c][0] = NotSending /\ ~(shut.pc = "send" /\ c \in shut.todo)
          /\ \A a \in Sender : a >= 2 => send[c][a] = NotSending
      BY <1>3, <1>10, <3>1 DEF Asked
    <3> QED
      BY <1>4, <3>2 DEF NotSending
  <2>2. CASE /\ j.n < Texts /\ x = [kind |-> "text", by |-> j.att, n |-> j.n + 1]
             /\ job' = [job EXCEPT ![c] = [j EXCEPT !.n = j.n + 1]]
    <3>1. job'[c].at = "running" /\ job'[c].att = 1 /\ job'[c].n = j.n + 1
      BY <1>1, <1>2, <2>1, <2>2 DEF Jobs
    <3>2. x \in Chunk /\ x.kind = "text" /\ x.by = 1 /\ x.n = j.n + 1
      <4>1. j.n + 1 \in 0 .. Texts
        BY <1>1, <1>2, <2>2
      <4> QED
        BY <1>2, <2>1, <2>2, <4>1 DEF Chunk
    <3>3. Asked(c)'
      BY <1>3, <1>4, <1>5, <1>10, <2>1, <3>1 DEF Asked
    <3>4. OwnLine(c) = q /\ OwnLine(c)' = Append(q, x)
      <4>1. send'[c][1] = <<x>> /\ box'[c].q = q
        BY <1>4, <1>5, <2>1
      <4>2. q \o << >> = q /\ q \o <<x>> = Append(q, x)
        BY <1>1, <3>2, LinesJoin
      <4> QED
        BY <2>1, <4>1, <4>2 DEF OwnLine
    <3>5. Own(c, K[c])'
      <4>1. CASE Owns(c)
        <5>1. Chain(q, K[c]) /\ Plain(q) /\ j.n = K[c] + Len(q)
          BY <1>2, <1>3, <1>10, <3>4, <4>1 DEF Own
        <5>2. Fits(x, K[c] + Len(q) + 1)
          BY <1>1, <1>2, <2>2, <3>2, <5>1 DEF Fits
        <5>3. Chain(Append(q, x), K[c]) /\ Plain(Append(q, x))
          BY <1>1, <3>2, <5>1, <5>2, LineAppend
        <5>4. Len(Append(q, x)) = Len(q) + 1 /\ Len(q) \in Nat
          BY <1>1
        <5>5. job'[c].n = K[c] + Len(Append(q, x))
          <6>1. PICK n : n = Len(q)
            OBVIOUS
          <6>2. n \in Nat /\ K[c] \in Nat
            BY <1>1, <5>4, <6>1
          <6>3. job'[c].n = (K[c] + n) + 1 /\ Len(Append(q, x)) = n + 1
            BY <3>1, <5>1, <5>4, <6>1
          <6>4. (K[c] + n) + 1 = K[c] + (n + 1)
            BY ONLY <6>2
          <6> QED
            BY <6>3, <6>4
        <5> HIDE DEF q
        <5> QED
          BY <1>3, <1>4, <1>10, <3>4, <4>1, <5>3, <5>5 DEF Own
      <4>2. CASE ~Owns(c)
        BY <1>7, <4>2 DEF Own
      <4> QED
        BY <4>1, <4>2
    <3>6. Quiet(c)
      BY <1>4, <1>7 DEF Quiet
    <3> QED
      BY <1>6, <1>7, <1>8, <3>3, <3>5, <3>6, ActorStays
  <2>3. CASE /\ j.n = Texts /\ x = [kind |-> "done", by |-> j.att, n |-> 0]
             /\ job' = [job EXCEPT ![c] = NoJob]
    <3>1. job'[c].at = "none"
      BY <1>1, <2>3
    <3>2. x \in Chunk /\ x.kind = "done" /\ x.n = 0
      BY <1>1, <1>2, <2>3 DEF Chunk
    <3>3. Asked(c)'
      BY <1>3, <1>4, <1>5, <1>10, <2>1, <3>1 DEF Asked
    <3>4. OwnLine(c) = q /\ OwnLine(c)' = Append(q, x)
      <4>1. send'[c][1] = <<x>> /\ box'[c].q = q
        BY <1>4, <1>5, <2>1
      <4>2. q \o << >> = q /\ q \o <<x>> = Append(q, x)
        BY <1>1, <3>2, LinesJoin
      <4> QED
        BY <2>1, <4>1, <4>2 DEF OwnLine
    <3>5. Own(c, K[c])'
      <4>1. CASE Owns(c)
        <5>1. Chain(q, K[c]) /\ j.n = K[c] + Len(q)
          BY <1>2, <1>3, <1>10, <3>4, <4>1 DEF Own
        <5>2. Fits(x, K[c] + Len(q) + 1)
          BY <1>1, <1>2, <2>3, <3>2, <5>1 DEF Fits
        <5>3. Chain(Append(q, x), K[c])
          BY <1>1, <3>2, <5>1, <5>2, LineAppend
        <5> HIDE DEF q
        <5> QED
          BY <1>3, <1>4, <1>10, <3>1, <3>4, <4>1, <5>3 DEF Own
      <4>2. CASE ~Owns(c)
        BY <1>7, <4>2 DEF Own
      <4> QED
        BY <4>1, <4>2
    <3>6. Quiet(c)
      BY <1>4, <1>7 DEF Quiet
    <3> QED
      BY <1>6, <1>7, <1>8, <3>3, <3>5, <3>6, ActorStays
  <2> QED
    BY <1>4, <1>10, <2>2, <2>3
<1> QED
  BY <1>9, <1>10

(* The goroutine of MakeSubscriberChan passes chunks on as they are. *)
LEMMA CopyFlow ==
  ASSUME RelayTyped, NEW K \in [Caller -> 0 .. Texts], Flow(K), UNCHANGED whole,
         NEW c \in Caller, Copy(c)
  PROVE  Flow(K)'
<1> DEFINE q == box[c].q
           s == sub[c].ch
<1>1. /\ DOMAIN box = Caller /\ DOMAIN sub = Caller /\ box[c] \in Boxes /\ sub[c] \in Subs
      /\ q \in Seq(Chunk) /\ s \in Seq(Chunk) /\ c \notin entry[c].subs
  BY LinesTyped DEF RelayTyped, SharedTyped, StoreTyped, BoxOK, SubOK
<1>2. /\ Seat(c) /\ Asked(c) /\ OwnWhole(c) /\ Kept(c) /\ FedWell(c) /\ Own(c, K[c])
      /\ Follower(c) /\ ~Owns(c)
  BY DEF Flow, Copy, Follower, Owns
<1>3. UNCHANGED <<registry, entry, waiter, send, hand, tries, got, told, job, shut>>
  BY DEF Copy, callerVars
<1>4. /\ \A d \in Caller : d # c => sub'[d] = sub[d] /\ box'[d].q = box[d].q
      /\ sub'[c].overflow = sub[c].overflow
      /\ Fed(c)' = Fed(c)
  <2>1. CASE /\ s # << >>
             /\ box' = [box EXCEPT ![c] = [box[c] EXCEPT !.q = Append(q, Head(s))]]
             /\ sub' = [sub EXCEPT ![c] = [sub[c] EXCEPT !.ch = Tail(s)]]
    <3>1. Append(q, Head(s)) \o Tail(s) = q \o s
      <4>1. Cut \in Chunk
        BY EmptyIsTyped
      <4> QED
        BY <1>1, <2>1, <4>1, LinesJoin
    <3>2. /\ [box[c] EXCEPT !.q = Append(q, Head(s))].q = Append(q, Head(s))
          /\ [sub[c] EXCEPT !.ch = Tail(s)].ch = Tail(s)
          /\ [sub[c] EXCEPT !.ch = Tail(s)].overflow = sub[c].overflow
      BY <1>1 DEF Boxes, Subs
    <3>3. /\ \A d \in Caller : d # c => sub'[d] = sub[d] /\ box'[d] = box[d]
          /\ box'[c] = [box[c] EXCEPT !.q = Append(q, Head(s))]
          /\ sub'[c] = [sub[c] EXCEPT !.ch = Tail(s)]
      BY <1>1, <2>1
    <3> QED
      BY <3>1, <3>2, <3>3 DEF Fed
  <2>2. CASE box' = [box EXCEPT ![c] = [box[c] EXCEPT !.closed = TRUE]] /\ sub' = sub
    <3>1. [box[c] EXCEPT !.closed = TRUE].q = q
      BY <1>1 DEF Boxes
    <3>2. (\A d \in Caller : d # c => box'[d] = box[d]) /\ box'[c] = [box[c] EXCEPT !.closed = TRUE]
      BY <1>1, <2>2
    <3> QED
      BY <2>2, <3>1, <3>2 DEF Fed
  <2> QED
    BY <2>1, <2>2 DEF Copy
<1>5. Alone(c)
  BY <1>1, <1>3, <1>4 DEF Alone, Same, Stays, NoMoreToDo
<1>6. /\ ~Owns(c)' /\ (Follower(c)' <=> Follower(c)) /\ (Listens(c)' <=> Listens(c)) /\ hand'[c] = "read"
  BY <1>2, <1>3 DEF Owns, Follower, Listens
<1>7. Seat(c)'
  BY <1>2, <1>3, <1>6 DEF Seat
<1>8. Asked(c)' /\ OwnWhole(c)' /\ Kept(c)' /\ Own(c, K[c])'
  BY <1>2, <1>3, <1>6 DEF Asked, OwnWhole, Kept, Own
<1>9. FedWell(c)' /\ Quiet(c)
  BY <1>2, <1>3, <1>4, <1>6 DEF FedWell, StreamFed, WholeFed, Quiet
<1> QED
  BY <1>5, <1>6, <1>7, <1>8, <1>9, ActorStays

(* What ends with a handler says nothing of the others (Unregister). *)
LEMMA UnregisterFlow ==
  ASSUME RelayTyped, NEW K \in [Caller -> 0 .. Texts], Flow(K), UNCHANGED whole,
         NEW c \in Caller, Unregister(c)
  PROVE  Flow(K)'
<1>1. /\ hand \in [Caller -> Hands] /\ DOMAIN box = Caller /\ DOMAIN sub = Caller /\ DOMAIN got = Caller
      /\ DOMAIN entry = Caller /\ c \notin entry[c].subs
      /\ \A d \in Caller : sub[d] \in Subs
  BY LinesTyped DEF RelayTyped, SharedTyped, StoreTyped, CallerTyped, SubOK
<1>2. /\ Seat(c) /\ Asked(c) /\ OwnWhole(c) /\ Kept(c) /\ FedWell(c) /\ Own(c, K[c])
      /\ hand[c] = "unregister"
      /\ \A f \in Caller : f \in entry[c].subs => hand[f] # "new"
  BY DEF Flow, Unregister, Linked
<1>3. /\ hand' = [hand EXCEPT ![c] = "end"]
      /\ registry' = IF registry = c THEN NoOne ELSE registry
      /\ entry' = [entry EXCEPT ![c] = NewEntry]
      /\ box' = [box EXCEPT ![c] = NewBox] /\ got' = [got EXCEPT ![c] = << >>] /\ told' = told \ {c}
      /\ UNCHANGED <<waiter, send, job, shut>>
  BY DEF Unregister, Forget, Original
<1>4. /\ hand'[c] = "end" /\ entry'[c] = NewEntry /\ registry' # c /\ c \notin told'
      /\ \A d \in Caller : d # c => /\ hand'[d] = hand[d] /\ entry'[d] = entry[d] /\ box'[d] = box[d]
                                    /\ got'[d] = got[d] /\ (registry' = d <=> registry = d)
  BY <1>1, <1>3, RelayAssumption
<1>5. ASSUME NEW d \in Caller, d # c
      PROVE  /\ sub'[d].ch = sub[d].ch /\ sub'[d].overflow = sub[d].overflow
             /\ hand[d] = "new" => sub'[d] = sub[d]
  <2>1. sub'[d] = sub[d] \/ (sub'[d] = [sub[d] EXCEPT !.closed = TRUE] /\ d \in entry[c].subs)
    BY <1>5 DEF Unregister
  <2>2. [sub[d] EXCEPT !.closed = TRUE].ch = sub[d].ch /\ [sub[d] EXCEPT !.closed = TRUE].overflow = sub[d].overflow
    BY <1>1 DEF Subs
  <2> QED
    BY <1>2, <2>1, <2>2
<1>6. NewEntry.subs = {} /\ NewEntry.chunks = << >>
  BY DEF NewEntry
<1>7. Alone(c)
  BY <1>1, <1>3, <1>4, <1>5, <1>6 DEF Alone, Same, Stays, NoMoreToDo
<1>8. ~Owns(c)' /\ ~Listens(c)' /\ ~Follower(c)'
  BY <1>4 DEF Owns, Listens, Follower
<1>9. Seat(c)'
  BY <1>4, <1>8 DEF Seat
<1>10. Asked(c)'
  BY <1>2, <1>3 DEF Asked
<1>11. OwnWhole(c)' /\ Kept(c)' /\ FedWell(c)' /\ Own(c, K[c])' /\ Quiet(c)
  BY <1>4, <1>6, <1>8 DEF OwnWhole, Kept, FedWell, Own, Quiet, NoText, Chain
<1> QED
  BY <1>7, <1>8, <1>9, <1>10, <1>11, ActorStays

(* A batch that runs again changes no line that a stream reads: the followers of
   the attempt it gives up have lost data for good (batchResponse, Reset). *)
LEMMA BatchTimeoutFlow ==
  ASSUME RelayTyped, NEW K \in [Caller -> 0 .. Texts], Flow(K), UNCHANGED whole,
         NEW c \in Caller, BatchTimeout(c)
  PROVE  Flow(K)'
<1>1. /\ hand \in [Caller -> Hands] /\ DOMAIN box = Caller /\ DOMAIN got = Caller /\ DOMAIN entry = Caller
      /\ job \in [Caller -> Jobs] /\ NoJob.at = "none" /\ box[c] \in Boxes /\ entry[c] \in Entries
      /\ tries[c] \in Nat /\ c \notin entry[c].subs /\ \A d \in Caller : sub[d] \in Subs
  BY LinesTyped DEF RelayTyped, SharedTyped, StoreTyped, CallerTyped, RestTyped, NoJob, BoxOK, SubOK, EntryOK
<1>2. /\ Seat(c) /\ Asked(c) /\ OwnWhole(c) /\ Kept(c) /\ FedWell(c) /\ Own(c, K[c])
      /\ hand[c] = "read" /\ c \in whole /\ c \notin told
      /\ \A f \in Caller : f \in entry[c].subs => hand[f] # "new"
  BY DEF Flow, BatchTimeout, Linked, Seat
<1>3. UNCHANGED <<registry, waiter, send, told, shut>>
  BY DEF BatchTimeout
<1>4. ~Listens(c)'
  BY <1>2 DEF Listens
<1>5. /\ box'[c].q = << >> /\ \A d \in Caller : d # c => box'[d] = box[d]
  <2>1. box' = [box EXCEPT ![c] = [box[c] EXCEPT !.q = << >>]]
    BY DEF BatchTimeout
  <2>2. [box[c] EXCEPT !.q = << >>].q = << >>
    BY <1>1 DEF Boxes
  <2> QED
    BY <1>1, <2>1, <2>2
<1>6. CASE box[c].closed
  <2>1. /\ hand' = [hand EXCEPT ![c] = "spin"] /\ job' = [job EXCEPT ![c] = NoJob]
        /\ UNCHANGED <<entry, sub, got>>
    BY <1>6 DEF BatchTimeout, Cancel
  <2>2. /\ hand'[c] = "spin" /\ job'[c].at = "none"
        /\ \A d \in Caller : d # c => hand'[d] = hand[d] /\ job'[d] = job[d]
    BY <1>1, <2>1
  <2>3. Alone(c)
    BY <1>1, <1>3, <1>5, <2>1, <2>2 DEF Alone, Same, Stays, NoMoreToDo
  <2>4. ~Owns(c)' /\ ~Follower(c)'
    BY <2>2 DEF Owns, Follower
  <2>5. Seat(c)'
    BY <1>2, <1>3, <2>1, <2>2, <2>4 DEF Seat
  <2>6. Asked(c)'
    BY <1>2, <1>3, <2>2 DEF Asked
  <2>7. OwnWhole(c)' /\ Kept(c)' /\ FedWell(c)' /\ Own(c, K[c])' /\ Quiet(c)
    BY <1>2, <1>4, <2>1, <2>2, <2>4 DEF OwnWhole, Kept, FedWell, Own, Quiet
  <2> QED
    BY <2>3, <2>4, <2>5, <2>6, <2>7, ActorStays
<1>7. CASE ~box[c].closed
  <2>1. /\ hand' = hand /\ got' = [got EXCEPT ![c] = << >>]
        /\ \/ registry = c /\ Reset(c)
           \/ registry # c /\ UNCHANGED <<entry, sub>>
        /\ \/ waiter[c] = "open" /\ job' = [job EXCEPT ![c] = [at |-> "queued", att |-> tries[c] + 2, n |-> 0]]
           \/ waiter[c] # "open" /\ job' = job
    BY <1>7 DEF BatchTimeout, Original
  <2>2. /\ \A d \in Caller : d # c => got'[d] = got[d] /\ job'[d] = job[d]
        /\ job'[c].at # "none" => waiter[c] = "open" /\ job'[c].att >= 1
    <3>1. CASE waiter[c] = "open" /\ job' = [job EXCEPT ![c] = [at |-> "queued", att |-> tries[c] + 2, n |-> 0]]
      <4>1. job'[c] = [at |-> "queued", att |-> tries[c] + 2, n |-> 0]
        BY <1>1, <3>1
      <4> QED
        BY <1>1, <2>1, <3>1, <4>1
    <3>2. CASE job' = job
      BY <1>1, <1>2, <2>1, <3>2 DEF Asked
    <3> QED
      BY <2>1, <3>1, <3>2
  <2>3. /\ \A d \in Caller : d # c => entry'[d] = entry[d]
        /\ entry'[c].subs = entry[c].subs
        /\ registry # c => entry'[c] = entry[c]
        /\ entry'[c].chunks = entry[c].chunks \/ entry'[c].chunks = << >>
        /\ \A d \in Caller : sub'[d].ch = sub[d].ch /\ (sub[d].overflow => sub'[d].overflow)
                             /\ (hand[d] = "new" => sub'[d] = sub[d])
    <3>1. CASE registry = c /\ Reset(c)
      <4>1. PICK q : entry' = [entry EXCEPT ![c] = [entry[c] EXCEPT !.chunks = q]]
                     /\ (q = entry[c].chunks \/ q = << >>)
        BY <3>1 DEF Reset
      <4>2. [entry[c] EXCEPT !.chunks = q].chunks = q /\ [entry[c] EXCEPT !.chunks = q].subs = entry[c].subs
        BY <1>1 DEF Entries
      <4>3. \A d \in Caller : sub'[d] = sub[d]
                              \/ (sub'[d] = [sub[d] EXCEPT !.overflow = TRUE] /\ d \in entry[c].subs)
        BY <3>1 DEF Reset
      <4>4. ASSUME NEW d \in Caller
            PROVE  [sub[d] EXCEPT !.overflow = TRUE].ch = sub[d].ch /\ [sub[d] EXCEPT !.overflow = TRUE].overflow
        BY <1>1 DEF Subs
      <4>5. ASSUME NEW d \in Caller
            PROVE  sub'[d].ch = sub[d].ch /\ (sub[d].overflow => sub'[d].overflow)
                   /\ (hand[d] = "new" => sub'[d] = sub[d])
        BY <1>2, <4>3, <4>4
      <4>6. (\A d \in Caller : d # c => entry'[d] = entry[d]) /\ entry'[c] = [entry[c] EXCEPT !.chunks = q]
        BY <1>1, <4>1
      <4> QED
        BY <3>1, <4>1, <4>2, <4>5, <4>6
    <3>2. CASE registry # c /\ UNCHANGED <<entry, sub>>
      BY <3>2
    <3> QED
      BY <2>1, <3>1, <3>2
  <2>4. Alone(c)
    BY <1>1, <1>3, <1>5, <2>1, <2>2, <2>3 DEF Alone, Same, Stays, NoMoreToDo
  <2>5. (Owns(c)' <=> Owns(c)) /\ (Follower(c)' <=> Follower(c))
    BY <1>3, <2>1 DEF Owns, Follower
  <2>6. Seat(c)'
    BY <1>2, <1>3, <2>1, <2>3, <2>5 DEF Seat
  <2>7. Asked(c)'
    BY <1>2, <1>3, <2>2 DEF Asked
  <2>8. NoText(<< >>)
    BY DEF NoText
  <2>9. OwnWhole(c)' /\ Kept(c)' /\ FedWell(c)' /\ Own(c, K[c])' /\ Quiet(c)
    BY <1>2, <1>4, <1>5, <2>1, <2>3, <2>5, <2>8 DEF OwnWhole, Kept, FedWell, Own, Quiet
  <2> QED
    BY <2>4, <2>5, <2>6, <2>7, <2>9, ActorStays
<1> QED
  BY <1>6, <1>7

(* RegisterOrSubscribe: who starts a stream has passed on nothing yet. *)
LEMMA StartsFlow ==
  ASSUME RelayTyped, SendInv, NEW K \in [Caller -> 0 .. Texts], Flow(K), UNCHANGED whole,
         NEW c \in Caller, Enter(c), hand'[c] = "submit"
  PROVE  Flow([K EXCEPT ![c] = 0])'
<1>1. /\ hand \in [Caller -> Hands] /\ 0 \in 0 .. Texts /\ send[c] \in [Sender -> Sends] /\ 1 \in Sender
      /\ c \notin entry[c].subs
  BY LinesTyped DEF RelayTyped, StoreTyped, CallerTyped
<1>2. /\ Seat(c) /\ Asked(c) /\ OwnWhole(c) /\ Kept(c) /\ FedWell(c)
      /\ hand[c] = "new" /\ registry # c /\ entry[c] = NewEntry /\ c \notin told
      /\ got[c] = << >> /\ box[c].q = << >>
  BY DEF Flow, Enter, Seat
<1>3. waiter[c] = "none" /\ job[c].at = "none" /\ send[c][1] = << >>
  BY <1>1, <1>2 DEF SendInv, NotYetWaiting, SendersJoined, Senders, Asked, NotSending
<1>4. /\ UNCHANGED <<entry, sub, box, waiter, send, got, told, job, shut>>
      /\ hand' = [hand EXCEPT ![c] = "submit"]
      /\ registry' = registry \/ (registry = NoOne /\ registry' = c)
  <2>1. ASSUME hand' = [hand EXCEPT ![c] = "read"] PROVE FALSE
    BY <1>1, <2>1
  <2> QED
    BY <2>1 DEF Enter
<1>5. \A d \in Caller : d # c => hand'[d] = hand[d] /\ (registry' = d <=> registry = d)
  BY <1>1, <1>4, RelayAssumption
<1>6. Alone(c)
  BY <1>1, <1>4, <1>5 DEF Alone, Same, Stays, NoMoreToDo
<1>7. Owns(c)' /\ ~Listens(c)' /\ ~Follower(c)'
  BY DEF Owns, Listens, Follower
<1>8. Seat(c)'
  BY <1>2, <1>4, <1>7 DEF Seat
<1>9. Asked(c)'
  BY <1>2, <1>4 DEF Asked
<1>10. OwnWhole(c)' /\ Kept(c)' /\ FedWell(c)' /\ Quiet(c)
  BY <1>2, <1>4, <1>7 DEF OwnWhole, Kept, FedWell, Quiet, NoText
<1>11. Own(c, 0)'
  <2>1. OwnLine(c)' = << >>
    <3>1. << >> \o << >> = << >>
      OBVIOUS
    <3>2. box'[c].q = << >> /\ send'[c][1] = << >>
      BY <1>2, <1>3, <1>4
    <3>3. OwnLine(c)' = box'[c].q \o send'[c][1]
      BY DEF OwnLine
    <3> QED
      BY <3>1, <3>2, <3>3
  <2>2. Chain(<< >>, 0) /\ First(0) = << >> /\ Len(<< >>) = 0 /\ Plain(<< >>)
    <3>1. First(0) = << >>
      BY FirstGrows, 0 \in Nat
    <3>2. Len(<< >>) = 0 /\ Chain(<< >>, 0) /\ Plain(<< >>)
      BY DEF Chain, Plain
    <3> QED
      BY <3>1, <3>2
  <2>3. entry'[c].chunks = << >> /\ got'[c] = << >> /\ job'[c].at = "none"
    BY <1>2, <1>3, <1>4 DEF NewEntry
  <2> QED
    BY <2>1, <2>2, <2>3 DEF Own
<1>12. entry'[c].subs = {}
  BY <1>2, <1>4 DEF NewEntry
<1> QED
  BY <1>1, <1>6, <1>8, <1>9, <1>10, <1>11, <1>12, ActorFlow

(* Who joins one gets what its entry has kept, which is all that was passed on. *)
LEMMA JoinsFlow ==
  ASSUME RelayTyped, SendInv, NEW K \in [Caller -> 0 .. Texts], Flow(K), UNCHANGED whole,
         NEW c \in Caller, Enter(c), hand'[c] # "submit"
  PROVE  Flow(K)'
<1>0. PICK o, s : o = registry /\ s = entry[o].chunks
  OBVIOUS
<1>1. /\ hand \in [Caller -> Hands] /\ registry \in Caller \cup {NoOne} /\ DOMAIN box = Caller
      /\ DOMAIN entry = Caller
  BY DEF RelayTyped, SharedTyped, StoreTyped, CallerTyped
<1>2. /\ Seat(c) /\ Asked(c) /\ OwnWhole(c) /\ Kept(c) /\ FedWell(c)
      /\ hand[c] = "new" /\ registry # c /\ entry[c] = NewEntry /\ c \notin told
      /\ got[c] = << >> /\ sub[c] = NewSub
  BY DEF Flow, Enter, Seat
<1>3. waiter[c] = "none"
  BY <1>2 DEF SendInv, NotYetWaiting
<1>4. /\ hand' = [hand EXCEPT ![c] = "read"] /\ registry # NoOne /\ ~entry[o].dropped
      /\ box' = [box EXCEPT ![c] = [q |-> s, closed |-> entry[o].done, cap |-> Len(s) + SubCap]]
      /\ \E subs \in {entry[o].subs, entry[o].subs \cup {c}} :
            entry' = [entry EXCEPT ![o] = [entry[o] EXCEPT !.subs = subs]]
      /\ UNCHANGED <<registry, sub, waiter, send, got, told, job, shut>>
  <2>1. ASSUME hand' = [hand EXCEPT ![c] = "submit"] PROVE FALSE
    BY <1>1, <2>1
  <2> QED
    BY <1>0, <2>1 DEF Enter
<1>5. o \in Caller /\ o # c
  BY <1>0, <1>1, <1>2, <1>4
<1>6. /\ entry[o] \in Entries /\ s \in Seq(Chunk) /\ K[o] \in Nat
      /\ Seat(o) /\ Asked(o) /\ Kept(o) /\ Own(o, K[o])
  BY <1>0, <1>5, LinesTyped DEF Flow, RelayTyped, SharedTyped, EntryOK
<1>7. /\ \A d \in Caller : d # o => entry'[d] = entry[d]
      /\ entry'[o].chunks = s /\ entry'[o].dropped = entry[o].dropped
      /\ entry'[o].subs \subseteq entry[o].subs \cup {c}
  <2>1. PICK subs \in {entry[o].subs, entry[o].subs \cup {c}} :
          entry' = [entry EXCEPT ![o] = [entry[o] EXCEPT !.subs = subs]]
    BY <1>4
  <2>2. /\ [entry[o] EXCEPT !.subs = subs].chunks = s
        /\ [entry[o] EXCEPT !.subs = subs].dropped = entry[o].dropped
        /\ [entry[o] EXCEPT !.subs = subs].subs = subs
    BY <1>0, <1>6 DEF Entries
  <2>3. entry'[o] = [entry[o] EXCEPT !.subs = subs] /\ \A d \in Caller : d # o => entry'[d] = entry[d]
    BY <1>1, <1>5, <2>1
  <2> QED
    BY <2>1, <2>2, <2>3
<1>8. /\ hand'[c] = "read" /\ box'[c].q = s
      /\ \A d \in Caller : d # c => hand'[d] = hand[d] /\ box'[d] = box[d]
  BY <1>1, <1>4
<1>9. ASSUME NEW d \in Caller, d # c
      PROVE  /\ Seat(d)' /\ Asked(d)' /\ OwnWhole(d)' /\ Kept(d)' /\ FedWell(d)' /\ Own(d, K[d])'
             /\ Same(d)
  <2>1. Same(d) /\ NoMoreToDo /\ (registry' = d <=> registry = d)
    BY <1>4, <1>8, <1>9 DEF Same, Stays, NoMoreToDo
  <2>2. /\ entry'[d].chunks = entry[d].chunks /\ entry'[d].dropped = entry[d].dropped
        /\ registry # d => entry'[d] = entry[d]
    BY <1>0, <1>7
  <2>3. Seat(d) /\ Asked(d) /\ OwnWhole(d) /\ Kept(d) /\ FedWell(d) /\ Own(d, K[d])
    BY DEF Flow
  <2> QED
    BY <2>1, <2>2, <2>3, CallerFrame DEF Same
<1>10. ~Owns(c)' /\ Follower(c)' /\ (Listens(c)' => c \notin whole)
  BY <1>3, <1>4, <1>8 DEF Owns, Follower, Listens
<1>11. Fed(c)' = s /\ got'[c] = << >> /\ Len(<< >>) = 0 /\ << >> = First(0)
  <2>1. sub'[c].ch = << >>
    BY <1>2, <1>4 DEF NewSub
  <2>2. s \o << >> = s
    BY <1>6
  <2> QED
    BY <1>2, <1>4, <1>8, <2>1, <2>2, FirstGrows DEF Fed
<1>12. (o \in whole => WholeFed(c)') /\ (o \notin whole => StreamFed(c)')
  BY <1>0, <1>6, <1>11 DEF Kept, WholeFed, StreamFed
<1>13. Seat(c)'
  BY <1>0, <1>2, <1>4, <1>5, <1>7, <1>8 DEF Seat
<1>14. Asked(c)'
  BY <1>2, <1>4 DEF Asked
<1>15. OwnWhole(c)' /\ Kept(c)' /\ FedWell(c)' /\ Own(c, K[c])'
  BY <1>2, <1>5, <1>7, <1>10, <1>12 DEF OwnWhole, Kept, FedWell, Own
<1>16. Linked(o, c, K[o])'
  <2>1. ASSUME o \notin whole, Owns(o)' PROVE Plain(Fed(c)') /\ Len(got'[c]) + Len(Fed(c)') = K[o]
    <3>1. Owns(o)
      BY <1>5, <1>9, <2>1 DEF Same, Stays, Owns
    <3>2. Len(s) = K[o] /\ Plain(s)
      BY <1>0, <1>4, <1>6, <2>1, <3>1 DEF Own
    <3> QED
      BY <1>6, <1>11, <3>2
  <2> QED
    BY <1>8, <1>12, <2>1 DEF Linked
<1>17. ASSUME NEW a \in Caller, NEW f \in Caller, ~(a = o /\ f = c) PROVE Linked(a, f, K[a])'
  <2>1. Linked(a, f, K[a])
    BY DEF Flow
  <2>2. CASE f = c
    BY <1>2, <1>7, <1>17, <2>1, <2>2 DEF Linked
  <2>3. CASE f # c
    <3>1. Owns(a)' => Owns(a)
      BY <1>9, <1>10 DEF Same, Stays, Owns
    <3>2. f \in entry'[a].subs => f \in entry[a].subs
      BY <1>7, <2>3
    <3>3. /\ hand'[f] = hand[f] /\ (Listens(f)' <=> Listens(f)) /\ got'[f] = got[f] /\ Fed(f)' = Fed(f)
          /\ sub'[f] = sub[f]
      BY <1>4, <1>9, <2>3 DEF Same, Stays, Listens, Follower, Fed
    <3> QED
      BY <2>1, <3>1, <3>2, <3>3, LinkFrame
  <2> QED
    BY <2>2, <2>3
<1>18. ASSUME NEW d \in Caller
       PROVE  Seat(d)' /\ Asked(d)' /\ OwnWhole(d)' /\ Kept(d)' /\ FedWell(d)' /\ Own(d, K[d])'
  BY <1>9, <1>13, <1>14, <1>15
<1>19. \A a, f \in Caller : Linked(a, f, K[a])'
  <2>1. o \in Caller
    BY <1>5
  <2> QED
    BY <1>16, <1>17, <2>1
<1> QED
  BY <1>18, <1>19 DEF Flow

(* The next piece of a stream is a piece more of it (streamResponse's loop). *)
LEMMA PieceTaken ==
  ASSUME NEW k \in Nat, NEW x \in Chunk, Fits(x, k + 1), ~Last(x)
  PROVE  x.kind = "text" /\ k + 1 \in 0 .. Texts /\ First(k) \o Pieces(x) = First(k + 1)
<1>1. x.kind = "text" /\ x.by = 1 /\ x.n = k + 1 /\ k + 1 <= Texts
  BY DEF Fits, Last
<1>2. Pieces(x) = << <<1, k + 1>> >>
  BY <1>1 DEF Pieces
<1>3. k + 1 \in 0 .. Texts
  BY <1>1, EmptyIsTyped, RelayAssumption
<1> QED
  BY <1>1, <1>2, <1>3, FirstGrows

(* A follower that takes a chunk that is not the end has what comes before the
   rest of what is on its way, as before. *)
LEMMA FeedTaken ==
  ASSUME RelayTyped, NEW c \in Caller, NEW x, box[c].q # << >>, x = Head(box[c].q), ~Last(x),
         box'[c].q = Tail(box[c].q), sub'[c].ch = sub[c].ch, got'[c] = got[c] \o Pieces(x)
  PROVE  /\ WholeFed(c) => WholeFed(c)'
         /\ StreamFed(c) => StreamFed(c)'
         /\ StreamFed(c) /\ Plain(Fed(c)) =>
              Plain(Fed(c))' /\ Len(got'[c]) + Len(Fed(c)') = Len(got[c]) + Len(Fed(c))
<1> DEFINE L == Len(got[c])
           w == Fed(c)
<1>1. /\ box[c].q \in Seq(Chunk) /\ sub[c].ch \in Seq(Chunk) /\ w \in Seq(Chunk) /\ x \in Chunk
      /\ got[c] \in Seq(Sender \X (0 .. Texts)) /\ L \in Nat
  BY LinesTyped DEF RelayTyped, CallerTyped
<1>2. w # << >> /\ Head(w) = x /\ Fed(c)' = Tail(w) /\ Len(w) = Len(Tail(w)) + 1 /\ Len(Tail(w)) \in Nat
  <2>1. Head(w) = x /\ Tail(w) = Tail(box[c].q) \o sub[c].ch
    BY <1>1, LinesJoin DEF Fed
  <2>2. Fed(c)' = Tail(w)
    BY <2>1 DEF Fed
  <2>3. w # << >>
    <3>1. PICK q, s : q = box[c].q /\ s = sub[c].ch
      OBVIOUS
    <3>2. w = q \o s /\ q \o s # << >>
      BY <1>1, <3>1, LinesJoin DEF Fed
    <3> QED
      BY <3>2
  <2> HIDE DEF w
  <2> QED
    BY <1>1, <2>1, <2>2, <2>3
<1>3. ASSUME WholeFed(c) PROVE WholeFed(c)'
  <2>1. got[c] = << >> /\ NoText(w)
    BY <1>3 DEF WholeFed
  <2>2. AtOnce(x) /\ NoText(Tail(w)) /\ 0 \in Nat
    BY <1>1, <1>2, <2>1, LineHead
  <2>3. Pieces(x) = << >>
    BY <2>2 DEF AtOnce, Last, Pieces
  <2>4. got'[c] = << >>
    BY <2>1, <2>3
  <2> QED
    BY <1>2, <2>2, <2>4 DEF WholeFed
<1>4. ASSUME StreamFed(c)
      PROVE  x.kind = "text" /\ got'[c] = First(L + 1) /\ Len(got'[c]) = L + 1 /\ Chain(Tail(w), L + 1)
  <2>1. got[c] = First(L) /\ Chain(w, L)
    BY <1>4 DEF StreamFed
  <2> HIDE DEF L, w
  <2>2. Fits(x, L + 1)
    BY <1>1, <1>2, <2>1, LineHead
  <2>3. x.kind = "text" /\ got'[c] = First(L + 1)
    BY <1>1, <2>1, <2>2, PieceTaken
  <2>4. Len(First(L + 1)) = L + 1
    <3>1. L + 1 \in Nat
      BY <1>1
    <3> QED
      BY <3>1, FirstGrows
  <2>5. Chain(Tail(w), L + 1)
    BY <1>1, <1>2, <2>1, <2>3, LineHead
  <2> QED
    BY <2>3, <2>4, <2>5
<1>5. ASSUME StreamFed(c) PROVE StreamFed(c)'
  <2> HIDE DEF L, w
  <2>1. got'[c] = First(Len(got'[c])) /\ Chain(Fed(c)', Len(got'[c]))
    BY <1>2, <1>4, <1>5
  <2> QED
    BY <2>1 DEF StreamFed
<1>6. ASSUME StreamFed(c), Plain(Fed(c))
      PROVE  Plain(Fed(c))' /\ Len(got'[c]) + Len(Fed(c)') = L + Len(w)
  <2>1. Plain(w)
    BY <1>6
  <2> HIDE DEF L, w
  <2>2. Plain(Tail(w))
    <3>1. 0 \in Nat
      OBVIOUS
    <3> QED
      BY <1>1, <1>2, <2>1, <3>1, LineHead
  <2>3. Plain(Fed(c))'
    BY <1>2, <2>2 DEF Plain
  <2>4. Len(got'[c]) + Len(Fed(c)') = L + Len(w)
    <3>1. Len(got'[c]) = L + 1 /\ Len(Fed(c)') = Len(Tail(w))
      BY <1>2, <1>4, <1>6
    <3>2. PICK n : n = Len(Tail(w))
      OBVIOUS
    <3>3. n \in Nat /\ Len(w) = n + 1 /\ L \in Nat
      BY <1>1, <1>2, <3>2
    <3>4. Len(got'[c]) + Len(Fed(c)') = (L + 1) + n
      BY <3>1, <3>2
    <3>5. (L + 1) + n = L + (n + 1)
      BY ONLY <3>3
    <3> QED
      BY <3>3, <3>4, <3>5
  <2> QED
    BY <2>3, <2>4
<1> QED
  BY <1>3, <1>5, <1>6

(* Whoever reads a chunk that it does not pass on: a follower, or a handler that
   found the entry without its buffer (streamResponse, batchResponse). *)
LEMMA ReadAloneFlow ==
  ASSUME RelayTyped, NEW K \in [Caller -> 0 .. Texts], Flow(K), UNCHANGED whole,
         NEW c \in Caller, ReadChunk(c), registry # c
  PROVE  \E k \in 0 .. Texts : Flow([K EXCEPT ![c] = k])'
<1>0. PICK q, x : q = box[c].q /\ x = Head(q)
  OBVIOUS
<1>1. /\ hand \in [Caller -> Hands] /\ DOMAIN box = Caller /\ DOMAIN got = Caller /\ box[c] \in Boxes
      /\ q \in Seq(Chunk) /\ q # << >> /\ x \in Chunk /\ Tail(q) \in Seq(Chunk)
      /\ c \notin entry[c].subs /\ K[c] \in 0 .. Texts /\ K[c] \in Nat /\ 0 \in Nat
  <2>1. q \in Seq(Chunk) /\ q # << >>
    BY <1>0, LinesTyped DEF ReadChunk
  <2>2. K[c] \in 0 .. Texts /\ K[c] \in Nat /\ 0 \in Nat
    BY EmptyIsTyped, RelayAssumption
  <2>3. x \in Chunk /\ Tail(q) \in Seq(Chunk)
    BY <1>0, <2>1
  <2> QED
    BY <2>1, <2>2, <2>3, LinesTyped DEF RelayTyped, StoreTyped, CallerTyped, BoxOK
<1>2. /\ Seat(c) /\ Asked(c) /\ OwnWhole(c) /\ Kept(c) /\ FedWell(c) /\ Own(c, K[c])
      /\ hand[c] = "read" /\ entry[c] = NewEntry /\ c \notin told
  BY DEF Flow, ReadChunk, Seat
<1>3. /\ UNCHANGED <<registry, entry, sub, waiter, send, tries, job, shut>>
      /\ box' = [box EXCEPT ![c] = [box[c] EXCEPT !.q = Tail(q)]]
      /\ got' = [got EXCEPT ![c] = got[c] \o Pieces(x)]
      /\ \/ /\ Last(x) /\ told' \in {told, told \cup {c}}
            /\ hand' = [hand EXCEPT ![c] = IF Follower(c) THEN "unregister" ELSE "delete"]
         \/ ~Last(x) /\ UNCHANGED <<told, hand>>
  BY <1>0 DEF ReadChunk, Original, Leave
<1>4. /\ box'[c].q = Tail(q) /\ got'[c] = got[c] \o Pieces(x)
      /\ \A d \in Caller : d # c => /\ box'[d] = box[d] /\ got'[d] = got[d] /\ hand'[d] = hand[d]
                                    /\ d \in told' <=> d \in told
      /\ \/ Last(x) /\ hand'[c] \in {"unregister", "delete"}
         \/ ~Last(x) /\ hand'[c] = "read" /\ c \notin told'
  <2>1. [box[c] EXCEPT !.q = Tail(q)].q = Tail(q)
    BY <1>1 DEF Boxes
  <2>2. box'[c] = [box[c] EXCEPT !.q = Tail(q)] /\ \A d \in Caller : d # c => box'[d] = box[d]
    BY <1>1, <1>3
  <2>3. /\ got'[c] = got[c] \o Pieces(x)
        /\ \A d \in Caller : d # c => got'[d] = got[d] /\ hand'[d] = hand[d] /\ (d \in told' <=> d \in told)
    BY <1>1, <1>3
  <2>4. \/ Last(x) /\ hand'[c] \in {"unregister", "delete"}
        \/ ~Last(x) /\ hand'[c] = "read" /\ c \notin told'
    BY <1>1, <1>2, <1>3
  <2> QED
    BY <2>1, <2>2, <2>3, <2>4
<1>5. Alone(c) /\ entry'[c].subs = {}
  BY <1>1, <1>2, <1>3, <1>4 DEF Alone, Same, Stays, NoMoreToDo, NewEntry
<1>6. Seat(c)'
  BY <1>2, <1>3, <1>4 DEF Seat
<1>7. Asked(c)' /\ Kept(c)'
  BY <1>2, <1>3 DEF Asked, Kept
<1>8. OwnWhole(c)'
  <2>1. ASSUME c \in whole, Owns(c)' PROVE NoText(box'[c].q)
    <3>1. Owns(c)
      BY <1>2, <1>3, <1>4, <2>1 DEF Owns
    <3>2. NoText(q)
      BY <1>0, <1>2, <2>1, <3>1 DEF OwnWhole
    <3> QED
      BY <1>0, <1>1, <1>4, <3>2, LineHead
  <2> QED
    BY <2>1 DEF OwnWhole
<1>9. hand'[c] # "new"
  BY <1>4
<1>10. CASE c \in whole
  <2>1. FedWell(c)' /\ Own(c, K[c])' /\ Quiet(c)
    BY <1>9, <1>10 DEF FedWell, Own, Quiet, Listens
  <2> QED
    BY <1>1, <1>5, <1>6, <1>7, <1>8, <2>1, ActorFlow
<1>11. CASE c \notin whole /\ waiter[c] # "none"
  <2>1. FedWell(c)' /\ Quiet(c)
    BY <1>3, <1>9, <1>11 DEF FedWell, Quiet, Listens, Follower
  <2>2. CASE hand'[c] # "read"
    <3>1. Own(c, K[c])'
      BY <1>4, <2>2 DEF Own, Owns
    <3> QED
      BY <1>1, <1>5, <1>6, <1>7, <1>8, <2>1, <3>1, ActorFlow
  <2>3. CASE hand'[c] = "read"
    <3> DEFINE w == OwnLine(c)
               k == K[c]
    <3>1. Owns(c) /\ Chain(w, k) /\ got[c] = First(k)
          /\ (job[c].at # "none" => Plain(w) /\ job[c].n = k + Len(w))
      BY <1>2, <1>11 DEF Own, Owns
    <3>2. /\ w \in Seq(Chunk) /\ w # << >> /\ Head(w) = x /\ OwnLine(c)' = Tail(w)
          /\ Len(w) = Len(Tail(w)) + 1 /\ Len(Tail(w)) \in Nat
      <4>1. send[c][1] \in Seq(Chunk) /\ w \in Seq(Chunk)
        BY LinesTyped
      <4>2. w = q \o send[c][1]
        BY <1>0 DEF OwnLine
      <4>3. Head(w) = x /\ Tail(w) = Tail(q) \o send[c][1]
        <5>1. PICK s : s = send[c][1]
          OBVIOUS
        <5>2. Head(q \o s) = Head(q) /\ Tail(q \o s) = Tail(q) \o s
          BY <1>1, <4>1, <5>1, LinesJoin
        <5> HIDE DEF w
        <5> QED
          BY <1>0, <4>2, <5>1, <5>2
      <4>4. OwnLine(c)' = Tail(w)
        BY <1>3, <1>4, <4>3 DEF OwnLine
      <4>5. w # << >>
        <5>1. PICK s : s = send[c][1]
          OBVIOUS
        <5>2. q \o s # << >>
          BY <1>1, <4>1, <5>1, LinesJoin
        <5> HIDE DEF w
        <5> QED
          BY <4>2, <5>1, <5>2
      <4> HIDE DEF w
      <4> QED
        BY <4>1, <4>3, <4>4, <4>5
    <3> HIDE DEF w, k
    <3>3. k \in Nat /\ ~Last(x)
      BY <1>1, <1>4, <2>3 DEF k
    <3>4. Fits(x, k + 1)
      BY <3>1, <3>2, <3>3, LineHead
    <3>5. x.kind = "text" /\ k + 1 \in 0 .. Texts /\ got'[c] = First(k + 1)
      BY <1>1, <1>4, <3>1, <3>3, <3>4, PieceTaken
    <3>6. Chain(Tail(w), k + 1) /\ (Plain(w) => Plain(Tail(w)))
      BY <3>1, <3>2, <3>3, <3>5, LineHead
    <3>7. Plain(w) /\ job[c].at # "none" => job[c].n = (k + 1) + Len(Tail(w))
      BY <3>1, <3>2, <3>3
    <3>8. Own(c, k + 1)'
      BY <1>3, <3>1, <3>2, <3>5, <3>6, <3>7 DEF Own
    <3> QED
      BY <1>5, <1>6, <1>7, <1>8, <2>1, <3>5, <3>8, ActorFlow
  <2> QED
    BY <2>2, <2>3
<1>12. CASE c \notin whole /\ waiter[c] = "none"
  <2>1. Follower(c) /\ Listens(c) /\ ~Owns(c)' /\ Own(c, K[c])'
    BY <1>2, <1>3, <1>4, <1>12 DEF Follower, Listens, Owns, Own
  <2>2. CASE Last(x)
    <3>1. ~Listens(c)'
      BY <1>4, <2>2 DEF Listens, Follower
    <3>2. FedWell(c)' /\ Quiet(c)
      BY <1>9, <3>1 DEF FedWell, Quiet
    <3> QED
      BY <1>1, <1>5, <1>6, <1>7, <1>8, <2>1, <3>2, ActorFlow
  <2>3. CASE ~Last(x)
    <3>1. Listens(c)'
      BY <1>3, <1>4, <1>12, <2>3 DEF Listens, Follower
    <3>2. /\ WholeFed(c) => WholeFed(c)'
          /\ StreamFed(c) => StreamFed(c)'
          /\ StreamFed(c) /\ Plain(Fed(c)) =>
               Plain(Fed(c))' /\ Len(got'[c]) + Len(Fed(c)') = Len(got[c]) + Len(Fed(c))
      BY <1>0, <1>1, <1>3, <1>4, <2>3, FeedTaken
    <3>3. FedWell(c)'
      BY <1>2, <2>1, <3>2 DEF FedWell
    <3>4. ASSUME NEW o \in Caller, o # c PROVE Linked(o, c, K[o])'
      <4>1. Linked(o, c, K[o])
        BY DEF Flow
      <4>2. Owns(o)' <=> Owns(o)
        BY <1>3, <1>4, <3>4 DEF Owns
      <4>3. entry' = entry /\ sub' = sub /\ whole' = whole
        BY <1>3
      <4>4. (Plain(Fed(c)))' <=> Plain(Fed(c)')
        BY DEF Plain
      <4> QED
        BY <1>9, <2>1, <3>2, <4>1, <4>2, <4>3, <4>4 DEF Linked
    <3> QED
      BY <1>1, <1>5, <1>6, <1>7, <1>8, <2>1, <3>3, <3>4, ActorFlow
  <2> QED
    BY <2>2, <2>3
<1> QED
  BY <1>10, <1>11, <1>12

(* What Forward does to the entry and to each follower (dedup.go Forward). *)
LEMMA Forwarded ==
  ASSUME RelayTyped, NEW c \in Caller, NEW x \in Chunk, Forward(c, x)
  PROVE  /\ \A d \in Caller : d # c => entry'[d] = entry[d]
         /\ entry'[c].subs \subseteq entry[c].subs /\ (Last(x) => entry'[c].subs = {})
         /\ \/ entry'[c].chunks = entry[c].chunks /\ entry'[c].dropped
            \/ entry'[c].chunks = << >> /\ entry'[c].dropped
            \/ entry'[c].chunks = Append(entry[c].chunks, x) /\ ~entry[c].dropped /\ ~entry'[c].dropped
         /\ \A f \in Caller :
              IF f \notin entry[c].subs \/ hand[f] = "end" THEN sub'[f] = sub[f]
              ELSE \/ sub'[f].ch = sub[f].ch /\ sub'[f].overflow
                   \/ sub'[f].ch = Append(sub[f].ch, x) /\ ~sub[f].overflow
<1>1. DOMAIN entry = Caller /\ entry[c] \in Entries /\ entry[c].chunks \in Seq(Chunk)
      /\ \A f \in Caller : sub[f] \in Subs
  BY DEF RelayTyped, SharedTyped, EntryOK, SubOK, Entries
<1>2. PICK e, new : /\ e = Buffered(entry[c], x)
                    /\ new = IF Last(x) THEN [e EXCEPT !.done = TRUE, !.subs = {}] ELSE e
                    /\ entry' = [entry EXCEPT ![c] = new]
  BY DEF Forward
<1>3. /\ e \in Entries /\ e.subs = entry[c].subs
      /\ \/ e.chunks = entry[c].chunks /\ e.dropped
         \/ e.chunks = << >> /\ e.dropped
         \/ e.chunks = Append(entry[c].chunks, x) /\ ~entry[c].dropped /\ ~e.dropped
  <2>1. e \in Entries /\ e.subs = entry[c].subs
    BY <1>2, BufferedOK DEF RelayTyped, SharedTyped, EntryOK
  <2>2. PICK q : q = Append(entry[c].chunks, x)
    OBVIOUS
  <2>3. \/ e = entry[c] /\ entry[c].dropped
        \/ ~entry[c].dropped /\ e = [entry[c] EXCEPT !.dropped = TRUE, !.chunks = << >>]
        \/ ~entry[c].dropped /\ e = [entry[c] EXCEPT !.chunks = q]
    BY <1>2, <2>2 DEF Buffered
  <2>4. /\ [entry[c] EXCEPT !.dropped = TRUE, !.chunks = << >>].chunks = << >>
        /\ [entry[c] EXCEPT !.dropped = TRUE, !.chunks = << >>].dropped
        /\ [entry[c] EXCEPT !.chunks = q].chunks = q
        /\ [entry[c] EXCEPT !.chunks = q].dropped = entry[c].dropped
    BY <1>1 DEF Entries
  <2>5. e = entry[c] /\ entry[c].dropped => e.chunks = entry[c].chunks /\ e.dropped
    OBVIOUS
  <2>6. ~entry[c].dropped /\ e = [entry[c] EXCEPT !.dropped = TRUE, !.chunks = << >>]
          => e.chunks = << >> /\ e.dropped
    BY <2>4
  <2>7. ~entry[c].dropped /\ e = [entry[c] EXCEPT !.chunks = q]
          => e.chunks = q /\ ~entry[c].dropped /\ ~e.dropped
    BY <2>4
  <2> QED
    BY <2>1, <2>2, <2>3, <2>5, <2>6, <2>7
<1>4. /\ new.chunks = e.chunks /\ new.dropped = e.dropped
      /\ new.subs \subseteq e.subs /\ (Last(x) => new.subs = {})
  <2>1. /\ [e EXCEPT !.done = TRUE, !.subs = {}].chunks = e.chunks
        /\ [e EXCEPT !.done = TRUE, !.subs = {}].dropped = e.dropped
        /\ [e EXCEPT !.done = TRUE, !.subs = {}].subs = {}
    BY <1>3 DEF Entries
  <2> QED
    BY <1>2, <2>1
<1>5. entry'[c] = new /\ \A d \in Caller : d # c => entry'[d] = entry[d]
  BY <1>1, <1>2
<1>6. ASSUME NEW f \in Caller
      PROVE  IF f \notin entry[c].subs \/ hand[f] = "end" THEN sub'[f] = sub[f]
             ELSE \/ sub'[f].ch = sub[f].ch /\ sub'[f].overflow
                  \/ sub'[f].ch = Append(sub[f].ch, x) /\ ~sub[f].overflow
  <2>1. sub'[f] = IF f \notin entry[c].subs \/ hand[f] = "end" THEN sub[f]
                  ELSE [Offered(sub[f], x) EXCEPT !.closed = Last(x)]
    BY DEF Forward
  <2>2. PICK s, q : s = Offered(sub[f], x) /\ q = Append(sub[f].ch, x)
    OBVIOUS
  <2>3. s \in Subs
    BY <2>2, OfferedOK DEF RelayTyped, SharedTyped, SubOK
  <2>4. \/ s = sub[f] /\ sub[f].overflow
        \/ s = [sub[f] EXCEPT !.ch = q, !.delivered = TRUE] /\ ~sub[f].overflow
        \/ s = [sub[f] EXCEPT !.overflow = TRUE]
    BY <2>2 DEF Offered
  <2>5. /\ [sub[f] EXCEPT !.ch = q, !.delivered = TRUE].ch = q
        /\ [sub[f] EXCEPT !.overflow = TRUE].ch = sub[f].ch
        /\ [sub[f] EXCEPT !.overflow = TRUE].overflow
    BY <1>1 DEF Subs
  <2>6. \/ s.ch = sub[f].ch /\ s.overflow
        \/ s.ch = q /\ ~sub[f].overflow
    <3>1. CASE s = sub[f] /\ sub[f].overflow
      BY <3>1
    <3>2. CASE s = [sub[f] EXCEPT !.ch = q, !.delivered = TRUE] /\ ~sub[f].overflow
      BY <2>5, <3>2
    <3>3. CASE s = [sub[f] EXCEPT !.overflow = TRUE]
      BY <2>5, <3>3
    <3> QED
      BY <2>4, <3>1, <3>2, <3>3
  <2>7. [s EXCEPT !.closed = Last(x)].ch = s.ch /\ [s EXCEPT !.closed = Last(x)].overflow = s.overflow
    BY <2>3 DEF Subs
  <2> QED
    BY <2>1, <2>2, <2>6, <2>7
<1> QED
  BY <1>3, <1>4, <1>5, <1>6

(* A follower of an entry that is offered the next chunk of the stream has the
   stream so far on its way, or has lost data and knows it. *)
LEMMA FollowerFed ==
  ASSUME RelayTyped, NEW c \in Caller, NEW f \in Caller, NEW x \in Chunk, NEW k \in Nat,
         f \in entry[c].subs, Listens(f), Linked(c, f, k), Owns(c), UNCHANGED whole,
         IF c \in whole THEN AtOnce(x) ELSE Fits(x, k + 1),
         got'[f] = got[f], box'[f].q = box[f].q,
         \/ sub'[f].ch = sub[f].ch /\ sub'[f].overflow
         \/ sub'[f].ch = Append(sub[f].ch, x) /\ ~sub[f].overflow
  PROVE  /\ c \in whole => WholeFed(f)'
         /\ c \notin whole => StreamFed(f)'
         /\ c \notin whole /\ x.kind = "text" /\ ~sub'[f].overflow =>
              Plain(Fed(f))' /\ Len(got'[f]) + Len(Fed(f)') = k + 1
<1>0. PICK w, L : w = Fed(f) /\ L = Len(got[f])
  OBVIOUS
<1>1. /\ box[f].q \in Seq(Chunk) /\ sub[f].ch \in Seq(Chunk) /\ w \in Seq(Chunk)
      /\ L \in Nat /\ 0 \in Nat /\ Len(w) \in Nat
  <2>1. box[f].q \in Seq(Chunk) /\ sub[f].ch \in Seq(Chunk) /\ w \in Seq(Chunk)
    BY <1>0, LinesTyped
  <2>2. L \in Nat
    BY <1>0 DEF RelayTyped, CallerTyped
  <2> QED
    BY <2>1, <2>2
<1>2. /\ c \in whole => got[f] = << >> /\ NoText(w)
      /\ c \notin whole => got[f] = First(L) /\ Chain(w, L)
      /\ c \notin whole /\ ~sub[f].overflow => Plain(w) /\ L + Len(w) = k
  BY <1>0 DEF Linked, WholeFed, StreamFed
<1>3. CASE sub'[f].ch = sub[f].ch /\ sub'[f].overflow
  <2>1. Fed(f)' = w
    BY <1>0, <1>3 DEF Fed
  <2> QED
    BY <1>0, <1>2, <1>3, <2>1 DEF WholeFed, StreamFed
<1>4. CASE sub'[f].ch = Append(sub[f].ch, x) /\ ~sub[f].overflow
  <2>1. Fed(f)' = Append(w, x)
    <3>1. PICK q, s : q = box[f].q /\ s = sub[f].ch
      OBVIOUS
    <3>2. q \o Append(s, x) = Append(q \o s, x)
      <4>1. q \in Seq(Chunk) /\ s \in Seq(Chunk) /\ x \in Chunk
        BY <1>1, <3>1
      <4> QED
        BY ONLY <4>1, LinesJoin
    <3>3. w = q \o s /\ Fed(f)' = q \o Append(s, x)
      BY <1>0, <1>4, <3>1 DEF Fed
    <3> QED
      BY <3>2, <3>3
  <2>2. CASE c \in whole
    <3>1. NoText(Append(w, x))
      BY <1>1, <1>2, <2>2, LineAppend
    <3> QED
      BY <1>2, <2>1, <2>2, <3>1 DEF WholeFed
  <2>3. CASE c \notin whole
    <3>1. Fits(x, L + Len(w) + 1)
      BY <1>2, <1>4, <2>3
    <3>2. Chain(Append(w, x), L) /\ (x.kind = "text" => Plain(Append(w, x)))
      BY <1>1, <1>2, <1>4, <2>3, <3>1, LineAppend
    <3>3. StreamFed(f)'
      BY <1>0, <1>2, <2>1, <2>3, <3>2 DEF StreamFed
    <3>4. Len(Append(w, x)) = Len(w) + 1
      BY <1>1
    <3>5. L + (Len(w) + 1) = k + 1
      BY <1>1, <1>2, <1>4, <2>3
    <3>6. Len(got'[f]) + Len(Fed(f)') = k + 1
      BY <1>0, <2>1, <3>4, <3>5
    <3>7. x.kind = "text" => Plain(Fed(f))'
      BY <2>1, <3>2 DEF Plain
    <3> QED
      BY <2>3, <3>3, <3>6, <3>7
  <2> QED
    BY <2>2, <2>3
<1> QED
  BY <1>3, <1>4

\* A handler, or its pump, that takes the next chunk of its own line and forwards it.
PassesOn(c, x) ==
    /\ registry = c /\ hand[c] \in {"read", "pump"} /\ box[c].q # << >> /\ x = Head(box[c].q)
    /\ box' = [box EXCEPT ![c] = [box[c] EXCEPT !.q = Tail(box[c].q)]]
    /\ Forward(c, x)
    /\ UNCHANGED <<registry, waiter, send, shut, whole>>
    /\ \A d \in Caller : d # c => /\ hand'[d] = hand[d] /\ got'[d] = got[d] /\ job'[d] = job[d]
                                  /\ d \in told' <=> d \in told
    /\ hand'[c] \in {hand[c], "delete"} /\ (Last(x) => hand'[c] = "delete")
    /\ job'[c] = job[c] \/ job'[c].at = "none"
    /\ hand'[c] = "read" => got'[c] = got[c] \o Pieces(x)
    /\ c \in told' => hand'[c] = "delete"

(* What is passed on is the next piece of the stream, to the replay buffer and to
   every follower (streamResponse, pumpForFollowers, Forward). *)
LEMMA PassOnFlow ==
  ASSUME RelayTyped, NEW K \in [Caller -> 0 .. Texts], Flow(K),
         NEW c \in Caller, NEW x, PassesOn(c, x)
  PROVE  \E k \in 0 .. Texts : Flow([K EXCEPT ![c] = k])'
<1>0. PICK q, w, h, m : q = box[c].q /\ w = OwnLine(c) /\ h = entry[c].chunks /\ m = K[c]
  OBVIOUS
<1>1. /\ DOMAIN box = Caller /\ box[c] \in Boxes /\ q \in Seq(Chunk) /\ q # << >> /\ x \in Chunk
      /\ w \in Seq(Chunk) /\ h \in Seq(Chunk) /\ send[c][1] \in Seq(Chunk)
      /\ c \notin entry[c].subs /\ m \in 0 .. Texts /\ m \in Nat /\ 0 \in Nat /\ Len(h) \in Nat
  <2>1. q \in Seq(Chunk) /\ q # << >> /\ x = Head(q)
    BY <1>0, LinesTyped DEF PassesOn
  <2>2. m \in 0 .. Texts /\ m \in Nat /\ 0 \in Nat
    BY <1>0, EmptyIsTyped, RelayAssumption
  <2>3. x \in Chunk
    BY <2>1
  <2>4. h \in Seq(Chunk) /\ w \in Seq(Chunk) /\ send[c][1] \in Seq(Chunk) /\ c \notin entry[c].subs
    BY <1>0, LinesTyped
  <2>5. DOMAIN box = Caller /\ box[c] \in Boxes
    BY DEF RelayTyped, StoreTyped, BoxOK
  <2> QED
    BY <2>1, <2>2, <2>3, <2>4, <2>5
<1>2. /\ Seat(c) /\ Asked(c) /\ OwnWhole(c) /\ Kept(c) /\ FedWell(c) /\ Own(c, m)
      /\ registry = c /\ registry' = c /\ hand[c] \in {"read", "pump"} /\ ~Follower(c) /\ Owns(c)
      /\ hand[c] = "read" => waiter[c] # "none"
  <2>1. Seat(c) /\ Asked(c) /\ OwnWhole(c) /\ Kept(c) /\ FedWell(c) /\ Own(c, m)
    BY <1>0 DEF Flow
  <2> QED
    BY <2>1 DEF PassesOn, Seat, Follower, Owns
<1>3. /\ UNCHANGED <<waiter, send, shut, whole>>
      /\ hand'[c] \in {hand[c], "delete"} /\ (Last(x) => hand'[c] = "delete")
      /\ job'[c] = job[c] \/ job'[c].at = "none"
      /\ hand'[c] = "read" => got'[c] = got[c] \o Pieces(x)
      /\ c \in told' => hand'[c] = "delete"
      /\ box'[c].q = Tail(q)
      /\ \A d \in Caller : d # c => box'[d] = box[d]
  <2>1. [box[c] EXCEPT !.q = Tail(box[c].q)].q = Tail(q)
    BY <1>0, <1>1 DEF Boxes
  <2>2. box' = [box EXCEPT ![c] = [box[c] EXCEPT !.q = Tail(box[c].q)]]
    BY DEF PassesOn
  <2>3. box'[c].q = Tail(q) /\ \A d \in Caller : d # c => box'[d] = box[d]
    BY <1>1, <2>1, <2>2
  <2> QED
    BY <2>3 DEF PassesOn
<1>4. /\ \A d \in Caller : d # c => entry'[d] = entry[d]
      /\ entry'[c].subs \subseteq entry[c].subs /\ (Last(x) => entry'[c].subs = {})
      /\ \/ entry'[c].chunks = h /\ entry'[c].dropped
         \/ entry'[c].chunks = << >> /\ entry'[c].dropped
         \/ entry'[c].chunks = Append(h, x) /\ ~entry[c].dropped /\ ~entry'[c].dropped
      /\ \A f \in Caller :
           IF f \notin entry[c].subs \/ hand[f] = "end" THEN sub'[f] = sub[f]
           ELSE \/ sub'[f].ch = sub[f].ch /\ sub'[f].overflow
                \/ sub'[f].ch = Append(sub[f].ch, x) /\ ~sub[f].overflow
  <2>1. Forward(c, x)
    BY DEF PassesOn
  <2> QED
    BY <1>0, <1>1, <2>1, Forwarded
\* The chunk, and the line it was taken from.
<1>5. w # << >> /\ Head(w) = x /\ OwnLine(c)' = Tail(w) /\ Tail(w) \in Seq(Chunk) /\ Len(Tail(w)) \in Nat
      /\ Len(w) = Len(Tail(w)) + 1
  <2>1. PICK s : s = send[c][1]
    OBVIOUS
  <2>2. w = q \o s
    BY <1>0, <2>1 DEF OwnLine
  <2>3. q \o s # << >> /\ Head(q \o s) = Head(q) /\ Tail(q \o s) = Tail(q) \o s
    <3>1. q \in Seq(Chunk) /\ s \in Seq(Chunk) /\ q # << >> /\ x \in Chunk
      BY <1>1, <2>1
    <3> QED
      BY ONLY <3>1, LinesJoin
  <2>4. OwnLine(c)' = Tail(q) \o s
    BY <1>3, <2>1 DEF OwnLine
  <2>5. w # << >> /\ Head(w) = x
    BY <1>0, <2>2, <2>3 DEF PassesOn
  <2>6. Tail(w) \in Seq(Chunk) /\ Len(Tail(w)) \in Nat /\ Len(w) = Len(Tail(w)) + 1
    BY <1>1, <2>5
  <2> QED
    BY <2>2, <2>3, <2>4, <2>5, <2>6
<1>6. ASSUME c \in whole PROVE AtOnce(x) /\ NoText(Tail(q)) /\ NoText(h)
  <2>1. NoText(q) /\ NoText(h)
    BY <1>0, <1>2, <1>6 DEF OwnWhole, Kept
  <2>2. x = Head(q)
    BY <1>0 DEF PassesOn
  <2> QED
    BY <1>1, <2>1, <2>2, LineHead
<1>7. ASSUME c \notin whole
      PROVE  /\ Fits(x, m + 1) /\ Chain(w, m) /\ Chain(h, 0)
             /\ hand[c] = "read" => got[c] = First(m)
             /\ job[c].at # "none" => Plain(w) /\ job[c].n = m + Len(w)
             /\ ~entry[c].dropped => Len(h) = m /\ Plain(h)
  <2>1. /\ Chain(w, m) /\ Chain(h, 0)
        /\ hand[c] = "read" => got[c] = First(m)
        /\ job[c].at # "none" => Plain(w) /\ job[c].n = m + Len(w)
        /\ ~entry[c].dropped => Len(h) = m /\ Plain(h)
    BY <1>0, <1>2, <1>7 DEF Own, Kept
  <2>2. Fits(x, m + 1)
    BY <1>1, <1>5, <2>1, LineHead
  <2> QED
    BY <2>1, <2>2
<1>8. PICK k \in 0 .. Texts :
        /\ c \notin whole /\ x.kind = "text" => k = m + 1
        /\ c \in whole \/ x.kind # "text" => k = m
  <2>1. CASE c \notin whole /\ x.kind = "text"
    <3>1. m + 1 \in 0 .. Texts
      <4>1. m + 1 <= Texts /\ Texts \in Nat
        BY <1>7, <2>1, EmptyIsTyped, RelayAssumption DEF Fits
      <4> QED
        BY <1>1, <4>1
    <3> QED
      BY <2>1, <3>1
  <2>2. CASE c \in whole \/ x.kind # "text"
    BY <1>1, <2>2
  <2> QED
    BY <2>1, <2>2
<1>9. ASSUME c \notin whole, ~Last(x) PROVE x.kind = "text" /\ k = m + 1
  BY <1>7, <1>8, <1>9 DEF Fits, Last
\* The one who passes it on.
<1>10. ~Follower(c)' /\ ~Listens(c)' /\ (Owns(c)' => hand'[c] = hand[c] /\ ~Last(x)) /\ hand'[c] # "new"
  BY <1>2, <1>3 DEF Follower, Listens, Owns
<1>11. Seat(c)'
  BY <1>2, <1>3, <1>10 DEF Seat
<1>12. Asked(c)'
  BY <1>2, <1>3 DEF Asked
<1>13. OwnWhole(c)' /\ FedWell(c)'
  BY <1>3, <1>6, <1>10 DEF OwnWhole, FedWell
<1>14. Kept(c)'
  <2>1. CASE entry'[c].chunks = h
    BY <1>0, <1>2, <1>3, <2>1 DEF Kept
  <2>2. CASE entry'[c].chunks = << >>
    <3>1. NoText(<< >>) /\ Chain(<< >>, 0)
      BY DEF NoText, Chain
    <3> QED
      BY <1>3, <2>2, <3>1 DEF Kept
  <2>3. CASE entry'[c].chunks = Append(h, x) /\ ~entry[c].dropped
    <3>1. c \in whole => NoText(Append(h, x))
      BY <1>1, <1>6, LineAppend
    <3>2. c \notin whole => Chain(Append(h, x), 0)
      <4>1. ASSUME c \notin whole PROVE Fits(x, 0 + Len(h) + 1) /\ Chain(h, 0)
        <5>1. 0 + Len(h) + 1 = m + 1
          BY <1>1, <1>7, <2>3, <4>1
        <5> QED
          BY <1>7, <4>1, <5>1
      <4> QED
        BY <1>1, <4>1, LineAppend
    <3> QED
      BY <1>3, <2>3, <3>1, <3>2 DEF Kept
  <2> QED
    BY <1>4, <2>1, <2>2, <2>3
<1>15. Own(c, k)'
  <2>1. ASSUME c \notin whole, Owns(c)'
        PROVE  /\ Chain(OwnLine(c)', k)
               /\ hand'[c] # "pump" => got'[c] = First(k)
               /\ job'[c].at # "none" => Plain(OwnLine(c)') /\ job'[c].n = k + Len(OwnLine(c)')
               /\ ~entry'[c].dropped => Len(entry'[c].chunks) = k /\ Plain(entry'[c].chunks)
    <3>1. ~Last(x) /\ hand'[c] = hand[c] /\ x.kind = "text" /\ k = m + 1
      BY <1>9, <1>10, <2>1
    <3>2. Chain(Tail(w), k) /\ (Plain(w) => Plain(Tail(w)))
      BY <1>1, <1>5, <1>7, <2>1, <3>1, LineHead
    <3>3. hand'[c] # "pump" => got'[c] = First(k)
      <4>1. First(m) \o Pieces(x) = First(m + 1)
        BY <1>1, <1>7, <2>1, <3>1, PieceTaken
      <4> QED
        BY <1>2, <1>3, <1>7, <2>1, <3>1, <4>1
    <3>4. job'[c].at # "none" => Plain(Tail(w)) /\ job'[c].n = k + Len(Tail(w))
      <4>1. ASSUME job'[c].at # "none" PROVE job'[c] = job[c] /\ Plain(w) /\ job[c].n = m + Len(w)
        BY <1>3, <1>7, <2>1, <4>1
      <4>2. m + Len(w) = k + Len(Tail(w))
        BY <1>1, <1>5, <3>1
      <4> QED
        BY <3>2, <4>1, <4>2
    <3>5. ASSUME ~entry'[c].dropped PROVE Len(entry'[c].chunks) = k /\ Plain(entry'[c].chunks)
      <4>1. entry'[c].chunks = Append(h, x) /\ Len(h) = m /\ Plain(h)
        BY <1>4, <1>7, <2>1, <3>5
      <4>2. Plain(Append(h, x))
        BY <1>1, <3>1, <4>1, LineAppend
      <4>3. Len(Append(h, x)) = Len(h) + 1
        BY <1>1
      <4> QED
        BY <3>1, <4>1, <4>2, <4>3
    <3> QED
      BY <1>5, <3>2, <3>3, <3>4, <3>5
  <2> QED
    BY <1>2, <1>3, <2>1 DEF Own
\* The others.
<1>16. ASSUME NEW d \in Caller, d # c
       PROVE  /\ Stays(d) /\ NoMoreToDo
              /\ Seat(d)' /\ Asked(d)' /\ OwnWhole(d)' /\ Kept(d)' /\ Own(d, K[d])'
              /\ (Listens(d)' <=> Listens(d))
  <2>1. Seat(d) /\ Asked(d) /\ OwnWhole(d) /\ Kept(d) /\ Own(d, K[d]) /\ Linked(c, d, K[c])
    BY DEF Flow
  <2>2. hand[d] = "new" => sub'[d] = sub[d]
    BY <1>4, <2>1 DEF Linked
  <2>3. Stays(d) /\ NoMoreToDo
    BY <1>3, <1>16, <2>2 DEF PassesOn, Stays, NoMoreToDo
  <2>4. (registry' = d <=> registry = d) /\ entry'[d] = entry[d] /\ UNCHANGED whole
    BY <1>2, <1>3, <1>4, <1>16
  <2> QED
    BY <2>1, <2>3, <2>4, CallerFrame DEF Stays, Listens, Follower
<1>17. ASSUME NEW d \in Caller, d # c, d \in entry[c].subs, Listens(d)
       PROVE  /\ c \in whole => WholeFed(d)'
              /\ c \notin whole => StreamFed(d)'
              /\ c \notin whole /\ x.kind = "text" /\ ~sub'[d].overflow =>
                   Plain(Fed(d))' /\ Len(got'[d]) + Len(Fed(d)') = m + 1
  <2>1. Linked(c, d, m)
    BY <1>0 DEF Flow
  <2>2. hand[d] # "end"
    BY <1>17 DEF Listens, Follower
  <2>3. IF c \in whole THEN AtOnce(x) ELSE Fits(x, m + 1)
    BY <1>6, <1>7
  <2>4. got'[d] = got[d] /\ box'[d].q = box[d].q
    BY <1>16, <1>17 DEF Stays
  <2>5. \/ sub'[d].ch = sub[d].ch /\ sub'[d].overflow
        \/ sub'[d].ch = Append(sub[d].ch, x) /\ ~sub[d].overflow
    BY <1>4, <1>17, <2>2
  <2>6. UNCHANGED whole
    BY <1>3
  <2>7. x \in Chunk /\ m \in Nat /\ Owns(c) /\ RelayTyped /\ c \in Caller /\ d \in Caller
    BY <1>1, <1>2
  <2> QED
    BY ONLY <1>17, <2>1, <2>3, <2>4, <2>5, <2>6, <2>7, FollowerFed
<1>18. ASSUME NEW d \in Caller, d # c PROVE FedWell(d)'
  <2>1. CASE ~Listens(d)
    BY <1>16, <1>18, <2>1 DEF FedWell
  <2>2. CASE Listens(d) /\ d \in entry[c].subs
    BY <1>17, <1>18, <2>2 DEF FedWell
  <2>3. CASE Listens(d) /\ d \notin entry[c].subs
    <3>1. Same(d)
      BY <1>4, <1>16, <1>18, <2>3 DEF Same
    <3>2. FedWell(d)
      BY DEF Flow
    <3>3. (registry' = d <=> registry = d) /\ entry'[d] = entry[d] /\ UNCHANGED whole
      BY <1>2, <1>3, <1>4, <1>18
    <3> QED
      BY <1>16, <1>18, <3>1, <3>2, <3>3, CallerFrame
  <2> QED
    BY <2>1, <2>2, <2>3
<1>19. PICK K2 : K2 = [K EXCEPT ![c] = k]
  OBVIOUS
<1>20. K2[c] = k /\ \A d \in Caller : d # c => K2[d] = K[d]
  BY <1>19
<1>21. ASSUME NEW o \in Caller, NEW f \in Caller PROVE Linked(o, f, K2[o])'
  <2>1. CASE o # c
    <3>1. entry'[o].subs = {}
      <4>1. Seat(o)
        BY DEF Flow
      <4> QED
        BY <1>2, <1>4, <2>1, <4>1 DEF Seat, NewEntry
    <3> QED
      BY <3>1 DEF Linked
  <2>2. CASE o = c /\ f = c
    BY <1>1, <1>4, <2>2 DEF Linked
  <2>3. CASE o = c /\ f # c
    <3>1. CASE Last(x) \/ f \notin entry[c].subs
      BY <1>4, <2>3, <3>1 DEF Linked
    <3>2. CASE ~Last(x) /\ f \in entry[c].subs
      <4>1. hand'[f] # "new"
        <5>1. Linked(c, f, K[c])
          BY DEF Flow
        <5> QED
          BY <1>16, <2>3, <3>2, <5>1 DEF Linked, Stays
      <4>2. CASE ~Listens(f)'
        BY <2>3, <4>1, <4>2 DEF Linked
      <4>3. CASE Listens(f)'
        <5>1. /\ c \in whole => WholeFed(f)'
              /\ c \notin whole => StreamFed(f)'
              /\ c \notin whole /\ x.kind = "text" /\ ~sub'[f].overflow =>
                   Plain(Fed(f))' /\ Len(got'[f]) + Len(Fed(f)') = m + 1
          BY <1>16, <1>17, <2>3, <3>2, <4>3
        <5>2. c \notin whole => x.kind = "text" /\ K2[c] = m + 1
          BY <1>9, <1>20, <3>2
        <5>3. whole' = whole
          BY <1>3
        <5>4. Plain(Fed(f))' <=> Plain(Fed(f)')
          BY DEF Plain
        <5> QED
          BY <2>3, <4>1, <5>1, <5>2, <5>3, <5>4 DEF Linked
      <4> QED
        BY <4>2, <4>3
    <3> QED
      BY <3>1, <3>2
  <2> QED
    BY <2>1, <2>2, <2>3
<1>22. ASSUME NEW d \in Caller
       PROVE  Seat(d)' /\ Asked(d)' /\ OwnWhole(d)' /\ Kept(d)' /\ FedWell(d)' /\ Own(d, K2[d])'
  <2>1. CASE d = c
    BY <1>11, <1>12, <1>13, <1>14, <1>15, <1>20, <2>1
  <2>2. CASE d # c
    BY <1>16, <1>18, <1>20, <2>2
  <2> QED
    BY <2>1, <2>2
<1>23. Flow(K2)'
  BY <1>21, <1>22 DEF Flow
<1> QED
  BY <1>19, <1>23

(* An original passes every chunk it reads on (streamResponse, batchResponse), and
   so does its pump (pumpForFollowers). *)
LEMMA PassersFlow ==
  ASSUME RelayTyped, NEW K \in [Caller -> 0 .. Texts], Flow(K), UNCHANGED whole,
         NEW c \in Caller, (ReadChunk(c) /\ registry = c) \/ PumpChunk(c)
  PROVE  \E k \in 0 .. Texts : Flow([K EXCEPT ![c] = k])'
<1>1. PICK x : x = Head(box[c].q)
  OBVIOUS
<1>2. hand \in [Caller -> Hands] /\ job \in [Caller -> Jobs] /\ DOMAIN got = Caller /\ NoJob.at = "none"
  BY DEF RelayTyped, CallerTyped, RestTyped, NoJob
<1>3. Seat(c)
  BY DEF Flow
<1>4. CASE ReadChunk(c) /\ registry = c
  <2>1. hand[c] = "read" /\ c \notin told /\ ~Follower(c)
    BY <1>3, <1>4 DEF ReadChunk, Seat
  <2>2. /\ got' = [got EXCEPT ![c] = got[c] \o Pieces(x)]
        /\ \/ Last(x) /\ told' \in {told, told \cup {c}} /\ hand' = [hand EXCEPT ![c] = "delete"]
           \/ ~Last(x) /\ UNCHANGED <<told, hand>>
    BY <1>1, <1>4, <2>1 DEF ReadChunk, Leave
  <2>3. /\ got'[c] = got[c] \o Pieces(x)
        /\ \A d \in Caller : d # c => /\ got'[d] = got[d] /\ hand'[d] = hand[d]
                                      /\ d \in told' <=> d \in told
        /\ \/ Last(x) /\ hand'[c] = "delete"
           \/ ~Last(x) /\ hand'[c] = hand[c] /\ c \notin told'
    BY <1>2, <2>1, <2>2
  <2>4. /\ box[c].q # << >> /\ Forward(c, x)
        /\ box' = [box EXCEPT ![c] = [box[c] EXCEPT !.q = Tail(box[c].q)]]
        /\ UNCHANGED <<registry, waiter, send, job, shut>>
    BY <1>1, <1>4 DEF ReadChunk, Original
  <2>5. PassesOn(c, x)
    BY <1>1, <1>4, <2>1, <2>3, <2>4 DEF PassesOn
  <2> QED
    BY <2>5, PassOnFlow
<1>5. CASE PumpChunk(c)
  <2>1. hand[c] = "pump" /\ c \notin told /\ registry = c
    BY <1>3, <1>5 DEF PumpChunk, Seat
  <2>2. /\ hand' = [hand EXCEPT ![c] = IF Last(x) \/ entry[c].subs = {} THEN "delete" ELSE "pump"]
        /\ job' = job \/ job' = [job EXCEPT ![c] = NoJob]
    BY <1>1, <1>5, <2>1 DEF PumpChunk
  <2>3. /\ hand'[c] \in {hand[c], "delete"} /\ (Last(x) => hand'[c] = "delete")
        /\ job'[c] = job[c] \/ job'[c].at = "none"
        /\ \A d \in Caller : d # c => hand'[d] = hand[d] /\ job'[d] = job[d]
    BY <1>2, <2>1, <2>2
  <2>4. /\ box[c].q # << >> /\ Forward(c, x)
        /\ box' = [box EXCEPT ![c] = [box[c] EXCEPT !.q = Tail(box[c].q)]]
        /\ UNCHANGED <<registry, waiter, send, got, told, shut>>
    BY <1>1, <1>5 DEF PumpChunk
  <2>5. hand'[c] # "read"
    BY <2>1, <2>3
  <2>6. PassesOn(c, x)
    BY <1>1, <2>1, <2>3, <2>4, <2>5 DEF PassesOn
  <2> QED
    BY <2>6, PassOnFlow
<1> QED
  BY <1>4, <1>5

(* Nobody starts with anything. *)
LEMMA FlowStarts ==
  ASSUME RelayInit
  PROVE  FlowInv
<1>1. PICK K : K = [c \in Caller |-> 0]
  OBVIOUS
<1>2. K \in [Caller -> 0 .. Texts]
  BY <1>1, EmptyIsTyped, RelayAssumption
<1>3. ASSUME NEW c \in Caller
      PROVE  /\ registry # c /\ entry[c] = NewEntry /\ sub[c] = NewSub /\ box[c].q = << >>
             /\ waiter[c] = "none" /\ hand[c] = "new" /\ job[c].at = "none" /\ got[c] = << >>
             /\ c \notin told /\ shut.pc = "no" /\ entry[c].subs = {} /\ entry[c].chunks = << >>
             /\ \A a \in Sender : send[c][a] = NotSending
  BY RelayAssumption DEF RelayInit, NewBox, NewEntry, NoJob
<1>4. NoText(<< >>) /\ Chain(<< >>, 0)
  BY DEF NoText, Chain
<1>5. ASSUME NEW c \in Caller PROVE ~Owns(c) /\ ~Listens(c) /\ ~Follower(c)
  BY <1>3 DEF Owns, Listens, Follower
<1>6. ASSUME NEW c \in Caller
      PROVE  Seat(c) /\ Asked(c) /\ OwnWhole(c) /\ Kept(c) /\ FedWell(c) /\ Own(c, K[c])
  <2>1. Seat(c)
    BY <1>3, <1>5 DEF Seat
  <2>2. 0 \in Sender
    BY EmptyIsTyped, RelayAssumption DEF Sender
  <2>3. Asked(c)
    BY <1>3, <1>4, <2>2 DEF Asked, NotSending
  <2>4. OwnWhole(c) /\ Kept(c) /\ FedWell(c) /\ Own(c, K[c])
    BY <1>3, <1>4, <1>5 DEF OwnWhole, Kept, FedWell, Own
  <2> QED
    BY <2>1, <2>3, <2>4
<1>7. ASSUME NEW o \in Caller, NEW f \in Caller PROVE Linked(o, f, K[o])
  BY <1>3 DEF Linked
<1>8. Flow(K)
  BY <1>6, <1>7 DEF Flow
<1>9. StreamIsWhole
  BY <1>3 DEF StreamIsWhole
<1> QED
  BY <1>2, <1>8, <1>9 DEF FlowInv

(* Only reading the end of an answer tells a caller that it is complete, and what
   such a caller has does not change until it is gone. *)
LEMMA ToldByTheEnd ==
  ASSUME RelayTyped, NEW K, Flow(K), RelayNext, NEW d \in Caller, d \in told'
  PROVE  \/ d \in told /\ got'[d] = got[d]
         \/ ReadChunk(d) /\ Head(box[d].q).kind = "done"
<1>1. DOMAIN got = Caller
  BY DEF RelayTyped, CallerTyped
<1>2. ASSUME NEW c \in Caller, hand[c] = "read" PROVE c \notin told
  BY <1>2 DEF Flow, Seat
<1>3. CASE UNCHANGED <<got, told>>
  BY <1>3
<1>4. ASSUME NEW c \in Caller, ReadChunk(c)
      PROVE  \/ d \in told /\ got'[d] = got[d]
             \/ ReadChunk(d) /\ Head(box[d].q).kind = "done"
  <2>1. /\ got' = [got EXCEPT ![c] = got[c] \o Pieces(Head(box[c].q))] /\ hand[c] = "read"
        /\ told' = told \/ (told' = told \cup {c} /\ Head(box[c].q).kind = "done")
    BY <1>4 DEF ReadChunk
  <2>2. CASE d = c
    BY <1>2, <1>4, <2>1, <2>2
  <2>3. CASE d # c
    BY <1>1, <2>1, <2>3
  <2> QED
    BY <2>2, <2>3
<1>5. ASSUME NEW c \in Caller, BatchTimeout(c) PROVE d \in told /\ got'[d] = got[d]
  <2>1. told' = told /\ hand[c] = "read" /\ (got' = got \/ got' = [got EXCEPT ![c] = << >>])
    BY <1>5 DEF BatchTimeout
  <2> QED
    BY <1>1, <1>2, <2>1
<1>6. ASSUME NEW c \in Caller, Unregister(c) PROVE d \in told /\ got'[d] = got[d]
  <2>1. told' = told \ {c} /\ got' = [got EXCEPT ![c] = << >>]
    BY <1>6 DEF Unregister, Forget
  <2> QED
    BY <1>1, <2>1
<1>7. ASSUME NEW c \in Caller,
             \/ Enter(c) \/ Submit(c) \/ ReadClosed(c) \/ GiveUp(c) \/ HangUp(c) \/ PumpChunk(c)
             \/ PumpStops(c) \/ Copy(c) \/ Delete(c) \/ CloseChannel(c)
      PROVE  UNCHANGED <<got, told>>
  BY <1>7 DEF Enter, Submit, ReadClosed, GiveUp, HangUp, PumpChunk, PumpStops, Copy, Delete,
              CloseChannel, callerVars
<1>8. ASSUME NEW c \in Caller,
             \/ Dispatched(c) \/ WorkerSays(c) \/ (\E a \in Sender : SendStep(c, a))
             \/ ShutSends(c) \/ DrainEntry(c)
      PROVE  UNCHANGED <<got, told>>
  BY <1>8 DEF Dispatched, WorkerSays, SendStep, ShutSends, DrainEntry, callerVars
<1>9. CASE ShutBegins \/ ShutDrains
  BY <1>9 DEF ShutBegins, ShutDrains, callerVars
<1> QED
  BY <1>3, <1>4, <1>5, <1>6, <1>7, <1>8, <1>9 DEF RelayNext, Reads, CleanUp

(* The end of a stream comes after its last piece, to an original and to a
   follower, unless it is the end of a whole answer, which brings everything. *)
LEMMA EndIsWhole ==
  ASSUME RelayTyped, NEW K \in [Caller -> 0 .. Texts], Flow(K), UNCHANGED whole,
         NEW d \in Caller \ whole, ReadChunk(d), Head(box[d].q).kind = "done"
  PROVE  OfOneAttempt(got'[d])
<1>1. PICK q, x : q = box[d].q /\ x = Head(q)
  OBVIOUS
<1>2. /\ q \in Seq(Chunk) /\ q # << >> /\ x \in Chunk /\ x.kind = "done" /\ hand[d] = "read"
      /\ got'[d] = got[d] \o Pieces(x) /\ send[d][1] \in Seq(Chunk) /\ sub[d].ch \in Seq(Chunk)
      /\ K[d] \in Nat /\ Texts \in Nat /\ Attempts \in Nat \ {0} /\ d \in Caller /\ d \notin whole
      /\ got[d] \in Seq(Sender \X (0 .. Texts)) /\ Len(got[d]) \in Nat
  <2>1. d \in Caller /\ d \notin whole
    OBVIOUS
  <2>2. q \in Seq(Chunk) /\ q # << >> /\ x.kind = "done" /\ hand[d] = "read"
    BY <1>1, <2>1, LinesTyped DEF ReadChunk
  <2>3. x \in Chunk
    BY <1>1, <2>2
  <2>4. got[d] \in Seq(Sender \X (0 .. Texts)) /\ DOMAIN got = Caller
    BY <2>1 DEF RelayTyped, CallerTyped
  <2>5. got'[d] = got[d] \o Pieces(x)
    BY <1>1, <2>1, <2>4 DEF ReadChunk
  <2>6. Len(got[d]) \in Nat
    BY <2>4
  <2>7. K[d] \in Nat /\ Texts \in Nat /\ Attempts \in Nat \ {0}
    BY <2>1, EmptyIsTyped, RelayAssumption
  <2>8. send[d][1] \in Seq(Chunk) /\ sub[d].ch \in Seq(Chunk)
    BY <2>1, LinesTyped
  <2> QED
    BY <2>1, <2>2, <2>3, <2>4, <2>5, <2>6, <2>7, <2>8
<1>3. Pieces(x) = [i \in 1 .. x.n |-> <<x.by, i>>]
  BY <1>2 DEF Pieces
\* The end of a stream, after k pieces.
<1>4. ASSUME NEW k \in Nat, NEW s \in Seq(Chunk), Chain(q \o s, k), got[d] = First(k)
      PROVE  OfOneAttempt(got'[d])
  <2>1. q \o s \in Seq(Chunk) /\ q \o s # << >> /\ Head(q \o s) = x
    BY <1>1, <1>2, LinesJoin
  <2>2. PICK w : w = q \o s
    OBVIOUS
  <2>3. Fits(x, k + 1)
    BY <1>4, <2>1, <2>2, LineHead
  <2>4. x.n = 0 /\ k = Texts
    BY <1>2, <2>3 DEF Fits
  <2>5. [i \in 1 .. 0 |-> <<x.by, i>>] = << >>
    OBVIOUS
  <2>6. got'[d] = First(Texts)
    <3>1. First(k) \o << >> = First(k)
      BY FirstGrows
    <3> QED
      BY <1>2, <1>3, <1>4, <2>4, <2>5, <3>1
  <2>7. 1 \in 1 .. Attempts
    BY <1>2
  <2> QED
    BY <2>6, <2>7 DEF OfOneAttempt, First
<1>5. Seat(d) /\ Own(d, K[d]) /\ FedWell(d)
  BY <1>2 DEF Flow
<1>6. CASE waiter[d] # "none"
  <2>1. Chain(q \o send[d][1], K[d]) /\ got[d] = First(K[d])
    BY <1>1, <1>2, <1>5, <1>6 DEF Own, Owns, OwnLine
  <2> QED
    BY <1>2, <1>4, <2>1
<1>7. CASE waiter[d] = "none" /\ StreamFed(d)
  <2>1. Chain(q \o sub[d].ch, Len(got[d])) /\ got[d] = First(Len(got[d]))
    BY <1>1, <1>7 DEF StreamFed, Fed
  <2> QED
    BY <1>2, <1>4, <2>1
<1>8. CASE waiter[d] = "none" /\ WholeFed(d)
  <2>1. got[d] = << >> /\ NoText(q \o sub[d].ch)
    BY <1>1, <1>8 DEF WholeFed, Fed
  <2>2. q \o sub[d].ch \in Seq(Chunk) /\ q \o sub[d].ch # << >> /\ Head(q \o sub[d].ch) = x
    <3>1. PICK s : s = sub[d].ch
      OBVIOUS
    <3>2. s \in Seq(Chunk) /\ q \in Seq(Chunk) /\ q # << >> /\ x \in Chunk
      BY <1>2, <3>1
    <3>3. q \o s \in Seq(Chunk) /\ q \o s # << >> /\ Head(q \o s) = Head(q)
      BY ONLY <3>2, LinesJoin
    <3> QED
      BY <1>1, <3>1, <3>3
  <2>3. AtOnce(x)
    <3>1. 0 \in Nat
      OBVIOUS
    <3>2. PICK w : w = q \o sub[d].ch
      OBVIOUS
    <3> QED
      BY <2>1, <2>2, <3>1, <3>2, LineHead
  <2>4. x.n = Texts /\ x.by \in 1 .. Attempts
    BY <1>2, <2>3 DEF AtOnce
  <2>5. got'[d] = [i \in 1 .. Texts |-> <<x.by, i>>]
    <3>1. PICK s : s = [i \in 1 .. Texts |-> <<x.by, i>>]
      OBVIOUS
    <3>2. s \in Seq({x.by} \X Nat)
      <4>1. \A i \in 1 .. Texts : <<x.by, i>> \in {x.by} \X Nat
        OBVIOUS
      <4> QED
        BY <1>2, <3>1, <4>1
    <3>3. << >> \o s = s
      BY <3>2
    <3> QED
      BY <1>2, <1>3, <2>1, <2>4, <3>1, <3>3
  <2> QED
    BY <2>4, <2>5 DEF OfOneAttempt
<1>9. waiter[d] = "none" => StreamFed(d) \/ WholeFed(d)
  BY <1>2, <1>5 DEF FedWell, Listens, Follower
<1> QED
  BY <1>6, <1>7, <1>8, <1>9

(* Every step keeps the lines, and what those have who were told. *)
LEMMA FlowInvStep ==
  ASSUME RelayTyped, SendInv, FlowInv, [RelayNext]_relayVars
  PROVE  FlowInv'
<1>1. PICK K \in [Caller -> 0 .. Texts] : Flow(K)
  BY DEF FlowInv
<1>2. StreamIsWhole
  BY DEF FlowInv
<1>3. CASE UNCHANGED relayVars
  <2>1. /\ \A d \in Caller : box'[d].q = box[d].q /\ MovesOn(d)
        /\ UNCHANGED <<whole, registry, entry, sub, send, got, told>>
    BY <1>1, <1>3 DEF relayVars, sharedVars, callerVars, MovesOn, Flow, Asked
  <2>2. Flow(K)'
    BY <1>1, <2>1, CalmFlow
  <2> QED
    BY <1>1, <1>2, <2>1, <2>2 DEF FlowInv, StreamIsWhole
<1>4. CASE RelayNext
  <2>1. UNCHANGED whole
    BY <1>4 DEF RelayNext
  <2>2. ASSUME NEW d \in Caller \ whole, d \in told' PROVE OfOneAttempt(got'[d])
    <3>1. CASE d \in told /\ got'[d] = got[d]
      BY <1>2, <3>1 DEF StreamIsWhole
    <3>2. CASE ReadChunk(d) /\ Head(box[d].q).kind = "done"
      BY <1>1, <2>1, <3>2, EndIsWhole
    <3>3. d \in Caller
      OBVIOUS
    <3> QED
      BY <1>1, <1>4, <2>2, <3>1, <3>2, <3>3, ToldByTheEnd
  <2>3. StreamIsWhole'
    BY <2>1, <2>2 DEF StreamIsWhole
  <2>4. ASSUME NEW c \in Caller, NEW k \in 0 .. Texts, Flow([K EXCEPT ![c] = k])' PROVE FlowInv'
    <3>1. PICK K2 : K2 = [K EXCEPT ![c] = k]
      OBVIOUS
    <3>2. K2 \in [Caller -> 0 .. Texts]
      BY <3>1
    <3> QED
      BY <2>3, <2>4, <3>1, <3>2 DEF FlowInv
  <2>5. ASSUME Flow(K)' PROVE FlowInv'
    BY <1>1, <2>3, <2>5 DEF FlowInv
  <2>6. ASSUME NEW c \in Caller, Enter(c) PROVE FlowInv'
    <3>1. CASE hand'[c] = "submit"
      <4>1. 0 \in 0 .. Texts
        BY EmptyIsTyped, RelayAssumption
      <4> QED
        BY <1>1, <2>1, <2>4, <2>6, <3>1, <4>1, StartsFlow
    <3>2. CASE hand'[c] # "submit"
      BY <1>1, <2>1, <2>5, <2>6, <3>2, JoinsFlow
    <3> QED
      BY <3>1, <3>2
  <2>7. ASSUME NEW c \in Caller, ReadChunk(c) \/ PumpChunk(c) PROVE FlowInv'
    <3>1. CASE ReadChunk(c) /\ registry # c
      BY <1>1, <2>1, <2>4, <3>1, ReadAloneFlow
    <3>2. CASE (ReadChunk(c) /\ registry = c) \/ PumpChunk(c)
      BY <1>1, <2>1, <2>4, <3>2, PassersFlow
    <3> QED
      BY <2>7, <3>1, <3>2
  <2>8. ASSUME NEW c \in Caller, Submit(c) \/ BatchTimeout(c) \/ Copy(c) \/ Unregister(c) PROVE FlowInv'
    BY <1>1, <2>1, <2>5, <2>8, SubmitFlow, BatchTimeoutFlow, CopyFlow, UnregisterFlow
  <2>9. ASSUME NEW c \in Caller, WorkerSays(c) \/ (\E a \in Sender : SendStep(c, a)) PROVE FlowInv'
    BY <1>1, <2>1, <2>5, <2>9, WorkerSaysFlow, SendStepFlow
  <2>10. ASSUME NEW c \in Caller, ShutSends(c) \/ DrainEntry(c) PROVE FlowInv'
    BY <1>1, <2>1, <2>5, <2>10, ShutSendsFlow, DrainEntryFlow
  <2>11. ASSUME \/ ShutBegins \/ ShutDrains
                \/ \E c \in Caller : \/ ReadClosed(c) \/ GiveUp(c) \/ HangUp(c) \/ PumpStops(c)
                                     \/ Delete(c) \/ CloseChannel(c) \/ Dispatched(c)
         PROVE  FlowInv'
    BY <1>1, <2>1, <2>5, <2>11, CalmStep
  <2> QED
    BY <1>4, <2>6, <2>7, <2>8, <2>9, <2>10, <2>11 DEF RelayNext, Reads, CleanUp
<1> QED
  BY <1>3, <1>4

(* A caller of a stream that is told its answer is complete has all of it, once, in
   order and from one attempt: the original, the follower that joined late, the
   handler that found the buffer dropped, and whoever follows a request for a whole
   answer (dedup.go:123-134, 168-190, 222-243). *)
THEOREM RelayStreamIsWhole == RelaySpec => []StreamIsWhole
<1>1. RelayInit => SendInv
  BY DEF RelayInit, SendInv, NotYetWaiting, SendersJoined, Senders
<1>2. RelayInit => FlowInv
  BY FlowStarts
<1>3. RelaySpec => []RelayTyped
  BY RelayTypedInit, RelayTypedStep, PTL DEF RelaySpec
<1>4. RelayTyped /\ SendInv /\ [RelayNext]_relayVars => SendInv'
  BY SendInvStep
<1>5. RelaySpec => []SendInv
  BY <1>1, <1>3, <1>4, PTL DEF RelaySpec
<1>6. RelayTyped /\ SendInv /\ FlowInv /\ [RelayNext]_relayVars => FlowInv'
  BY FlowInvStep
<1>7. FlowInv => StreamIsWhole
  BY DEF FlowInv
<1> QED
  BY <1>2, <1>3, <1>5, <1>6, <1>7, PTL DEF RelaySpec

=============================================================================
