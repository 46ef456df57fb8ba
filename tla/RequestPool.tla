----------------------------- MODULE RequestPool -----------------------------
(***************************************************************************)
(* What the router's request queue promises to its callers, with the slice *)
(* and the index of router/internal/queue/queue.go forgotten: a pool that  *)
(* holds at most one request per ID and hands over a best one on demand.   *)
(***************************************************************************)
EXTENDS Naturals, FiniteSets

CONSTANTS Requests,   \* every request a caller may push
          Owners,     \* the owners a request may have
          Offers,     \* the client descriptions the scheduler asks with
          MaxDepth,   \* queue bound for new requests, 0 = unlimited
          NoReq,      \* Go's nil *InferenceRequest
          NoOwner,    \* the empty owner, which is nobody's preference
          CanHandle(_, _),         \* may this request run on this client?
          Better(_, _, _, _)       \* types.BetterRequest

VARIABLES pool,  \* the queued requests
          got,   \* what the latest call that returns a request returned
          ask    \* what that call asked for

vars == <<pool, got, ask>>
-----------------------------------------------------------------------------
Init == pool = {} /\ got = NoReq /\ ask = << >>

Without(id) == {r \in pool : r.id # id}

(* A newer copy of a request supersedes the one that is queued. *)
Put(r) == pool' = Without(r.id) \cup {r} /\ UNCHANGED <<got, ask>>

TryPut(r) ==
  /\ ask' = <<"try", r>>
  /\ \/ /\ MaxDepth > 0 /\ Cardinality(pool) >= MaxDepth
        /\ got' = NoReq
        /\ UNCHANGED pool
     \/ /\ MaxDepth = 0 \/ Cardinality(pool) < MaxDepth
        /\ got' = r
        /\ pool' = Without(r.id) \cup {r}

(* A client asks for its owner's requests first, if it has an owner. *)
Preferred(r, owner) == owner # NoOwner /\ r.owner = owner

(* The requests of S that no other request of S beats: any of them may win. *)
BestOf(S, owner) ==
  {r \in S : \A s \in S : ~ Better(s, r, Preferred(s, owner), Preferred(r, owner))}

Servable(o) == {r \in pool : CanHandle(r, o)}

Answer(S, best) == got' \in IF S = {} THEN {NoReq} ELSE best

TakeBest(o) ==
  LET S == Servable(o)
  IN  /\ ask' = <<"best", o>>
      /\ Answer(S, {r \in S : \A s \in S : ~ Better(s, r, FALSE, FALSE)})
      /\ pool' = pool \ {got'}

PeekBest(o, eligible) ==
  LET S == {r \in Servable(o) : r.owner \in eligible}
  IN  /\ ask' = <<"peek", o, eligible>>
      /\ Answer(S, BestOf(S, o.owner))
      /\ UNCHANGED pool

Take(id) ==
  /\ ask' = <<"id", id>>
  /\ Answer({r \in pool : r.id = id}, {r \in pool : r.id = id})
  /\ pool' = Without(id)

TakeAll == pool' = {} /\ UNCHANGED <<got, ask>>

Next == \/ \E r \in Requests : Put(r) \/ TryPut(r)
        \/ \E o \in Offers : TakeBest(o)
        \/ \E o \in Offers, eligible \in SUBSET Owners : PeekBest(o, eligible)
        \/ \E id \in {r.id : r \in Requests} : Take(id)
        \/ TakeAll

Spec == Init /\ [][Next]_vars
=============================================================================
