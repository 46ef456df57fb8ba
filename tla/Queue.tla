-------------------------------- MODULE Queue --------------------------------
(***************************************************************************)
(* The router's request queue, router/internal/queue/queue.go: a slice of  *)
(* requests and an index from request ID to position.  Every operation     *)
(* runs under q.mu, so each one is a single action.  Positions count from  *)
(* 1 here and from 0 in the code.  Len and Snapshot only read, and nothing *)
(* waits on q.cond, so Signal changes nothing: they have no action.        *)
(***************************************************************************)
EXTENDS Naturals, Sequences

CONSTANTS Requests,  \* records [id, model, allowed, priority, at, owner, attempts]
          Owners,    \* the owners named in Requests
          Offers,    \* client descriptions [models, owner] the scheduler asks with
          Aliases,   \* alias name -> set of the models it may resolve to
          AnyModel,  \* the pseudo-model "any"
          NoOwner,   \* the empty preferOwner
          Blank,     \* the empty request ID
          MaxDepth,  \* q.MaxDepth, 0 = unlimited
          NoReq      \* nil

Ids == {r.id : r \in Requests}

ASSUME QueueAssumption ==
  /\ MaxDepth \in Nat
  /\ NoReq \notin Requests
  /\ \A r \in Requests : r.priority \in Nat /\ r.at \in Nat /\ r.owner \in Owners

VARIABLES items,  \* q.items
          byID,   \* q.byID: a function on the indexed IDs
          got,    \* the result of the latest call that returns a request
          ask     \* the arguments of that call

vars == <<items, byID, got, ask>>

Init == items = << >> /\ byID = [id \in {} |-> 0] /\ got = NoReq /\ ask = << >>
-----------------------------------------------------------------------------
(* Selection *)

ModelAllowed(r, m) == m \in r.allowed

canHandle(r, o) ==
  IF r.model = AnyModel
  THEN \E m \in o.models : ModelAllowed(r, m)
  ELSE \E m \in {r.model} \cup (IF r.model \in DOMAIN Aliases THEN Aliases[r.model] ELSE {}) :
         m \in o.models /\ ModelAllowed(r, m)

BetterRequest(a, b, aMatch, bMatch) ==
  IF aMatch # bMatch THEN aMatch
  ELSE IF a.priority # b.priority THEN a.priority < b.priority
  ELSE a.at < b.at

(* Mutant: the client's own requests get no preference. *)
betterForClientNoAffinity(a, b, preferOwner) == BetterRequest(a, b, FALSE, FALSE)

betterForClient(a, b, preferOwner) ==
  BetterRequest(a, b, preferOwner # NoOwner /\ a.owner = preferOwner,
                      preferOwner # NoOwner /\ b.owner = preferOwner)

(* The loop both selections run: keep the first usable item, replace it only
   by one that is strictly better.  0 stands for bestIdx == -1. *)
Scan(Usable(_), Beats(_, _)) ==
  LET best[n \in 0..Len(items)] ==
        IF n = 0 THEN 0
        ELSE IF Usable(items[n]) /\ (best[n - 1] = 0 \/ Beats(items[n], items[best[n - 1]]))
             THEN n
             ELSE best[n - 1]
  IN  best[Len(items)]
-----------------------------------------------------------------------------
(* The two ways the slice and the index change together *)

With(f, k, v) == [x \in DOMAIN f \cup {k} |-> IF x = k THEN v ELSE f[x]]
Without(f, k) == [x \in DOMAIN f \ {k} |-> f[x]]

pushLocked(r) ==
  \/ /\ r.id # Blank /\ r.id \in DOMAIN byID
     /\ items' = [items EXCEPT ![byID[r.id]] = r]
     /\ UNCHANGED byID
  \/ /\ r.id = Blank \/ r.id \notin DOMAIN byID
     /\ byID' = With(byID, r.id, Len(items) + 1)
     /\ items' = Append(items, r)

(* Mutant: the item moved into the hole keeps its old position in the index. *)
removeAtNoReindex(i) ==
  LET last == Len(items)
  IN  /\ items' = SubSeq([items EXCEPT ![i] = items[last]], 1, last - 1)
      /\ byID' = Without(byID, items[i].id)

(* Swap-and-pop; the index entry goes first, then the moved item gets its own. *)
removeAt(i) ==
  LET last == Len(items)
      left == Without(byID, items[i].id)
  IN  /\ items' = SubSeq([items EXCEPT ![i] = items[last]], 1, last - 1)
      /\ byID' = IF i # last THEN With(left, items[last].id, i) ELSE left
-----------------------------------------------------------------------------
(* Operations *)

Push(r) == pushLocked(r) /\ UNCHANGED <<got, ask>>

TryPush(r) ==
  /\ ask' = <<"try", r>>
  /\ \/ /\ MaxDepth > 0 /\ Len(items) >= MaxDepth
        /\ got' = NoReq
        /\ UNCHANGED <<items, byID>>
     \/ /\ ~ (MaxDepth > 0 /\ Len(items) >= MaxDepth)
        /\ pushLocked(r)
        /\ got' = r

PopBest(o) ==
  LET Usable(r) == canHandle(r, o)
      Beats(a, b) == BetterRequest(a, b, FALSE, FALSE)
      best == Scan(Usable, Beats)
  IN  /\ ask' = <<"best", o>>
      /\ \/ /\ best = 0
            /\ got' = NoReq
            /\ UNCHANGED <<items, byID>>
         \/ \E i \in DOMAIN items :
              /\ best = i
              /\ got' = items[i]
              /\ removeAt(i)

PeekBestForClient(o, eligible) ==
  LET Usable(r) == canHandle(r, o) /\ r.owner \in eligible
      Beats(a, b) == betterForClient(a, b, o.owner)
      best == Scan(Usable, Beats)
  IN  /\ ask' = <<"peek", o, eligible>>
      /\ \/ best = 0 /\ got' = NoReq
         \/ \E i \in DOMAIN items : best = i /\ got' = items[i]
      /\ UNCHANGED <<items, byID>>

PopByID(id) ==
  /\ ask' = <<"id", id>>
  /\ \/ /\ id \notin DOMAIN byID
        /\ got' = NoReq
        /\ UNCHANGED <<items, byID>>
     \/ /\ id \in DOMAIN byID
        /\ got' = items[byID[id]]
        /\ removeAt(byID[id])

Drain == items' = << >> /\ byID' = [id \in {} |-> 0] /\ UNCHANGED <<got, ask>>

Next == \/ \E r \in Requests : Push(r) \/ TryPush(r)
        \/ \E o \in Offers : PopBest(o)
        \/ \E o \in Offers, eligible \in SUBSET Owners : PeekBestForClient(o, eligible)
        \/ \E id \in Ids : PopByID(id)
        \/ Drain

Spec == Init /\ [][Next]_vars
-----------------------------------------------------------------------------
(* Properties *)

(* The slice holds requests, the index points into the slice, and a call
   returns a request or nil. *)
TypeOK == /\ items \in Seq(Requests)
          /\ DOMAIN byID \subseteq Ids
          /\ \A id \in DOMAIN byID : byID[id] \in DOMAIN items
          /\ got \in Requests \cup {NoReq}

(* byID and items describe the same queue: the indexed IDs are exactly the
   queued ones and each entry points at the item that carries the ID.  So no
   ID is queued twice, and every item that selection can return can also be
   removed by ID, without which the scheduler's drain would select it for ever
   (pushLocked and removeAt, queue.go:25-70). *)
IndexInverse == /\ DOMAIN byID = {items[i].id : i \in DOMAIN items}
                /\ \A i \in DOMAIN items : byID[items[i].id] = i

(* The queue implements the pool of requests: swap-and-pop reorders the slice,
   yet what PopBest and PeekBestForClient return is a request no other usable
   one beats, a re-pushed request supersedes its older copy, and nothing is
   lost or duplicated. *)
Pool == INSTANCE RequestPool
          WITH pool <- {items[i] : i \in DOMAIN items},
               CanHandle <- canHandle, Better <- BetterRequest
PoolSpec == Pool!Spec
=============================================================================
