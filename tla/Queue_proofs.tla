---------------------------- MODULE Queue_proofs ----------------------------
(***************************************************************************)
(* For every set of requests whose IDs are not empty: the queue's slice    *)
(* and its index always describe each other.                               *)
(***************************************************************************)
EXTENDS Queue, FiniteSetTheorems, WellFoundedInduction, TLAPS

(* Every ID the API handler gives a request is a fresh UUID (handler.go:515,
   541, 594): the theorems are about queues of such requests. *)
NoBlankId == \A r \in Requests : r.id # Blank

QueueInv == TypeOK /\ IndexInverse

(* Pushing keeps slice and index inverse: a known ID is replaced where it
   stands, a new one goes to the end (queue.go:40-49). *)
LEMMA PushKeepsInv ==
  ASSUME NoBlankId, QueueInv, NEW r \in Requests, pushLocked(r), got' \in Requests \cup {NoReq}
  PROVE  QueueInv'
<1> USE DEF QueueInv, TypeOK, IndexInverse, Ids
<1>1. r.id # Blank
  BY DEF NoBlankId
<1>2. CASE r.id \in DOMAIN byID
  <2>1. items' = [items EXCEPT ![byID[r.id]] = r] /\ byID' = byID
    BY <1>1, <1>2 DEF pushLocked
  <2>2. byID[r.id] \in DOMAIN items /\ items[byID[r.id]].id = r.id
    BY <1>2
  <2>3. items' \in Seq(Requests) /\ DOMAIN items' = DOMAIN items
    BY <2>1, <2>2
  <2>4. \A i \in DOMAIN items : items'[i].id = items[i].id
    BY <2>1, <2>2
  <2> QED
    BY <2>1, <2>3, <2>4
<1>3. CASE r.id \notin DOMAIN byID
  <2>1. items' = Append(items, r) /\ byID' = With(byID, r.id, Len(items) + 1)
    BY <1>3 DEF pushLocked
  <2>2. /\ items' \in Seq(Requests) /\ Len(items') = Len(items) + 1
        /\ items'[Len(items) + 1] = r
        /\ \A i \in 1..Len(items) : items'[i] = items[i]
    BY <2>1
  <2>3. DOMAIN byID' = DOMAIN byID \cup {r.id} /\ byID'[r.id] = Len(items) + 1
    BY <2>1 DEF With
  <2>4. \A id \in DOMAIN byID : byID'[id] = byID[id]
    BY <2>1, <1>3 DEF With
  <2>5. DOMAIN items' = DOMAIN items \cup {Len(items) + 1} /\ DOMAIN items = 1..Len(items)
    BY <2>2
  <2>6. \A i \in DOMAIN items' : byID'[items'[i].id] = i
    BY <2>2, <2>3, <2>4, <2>5
  <2>7. DOMAIN byID' = {items'[i].id : i \in DOMAIN items'}
    BY <2>2, <2>3, <2>5
  <2> QED
    BY <2>2, <2>3, <2>4, <2>5, <2>6, <2>7
<1> QED
  BY <1>2, <1>3

(* Swap-and-pop keeps slice and index inverse: the last item takes the place
   of the removed one and its index entry follows it (queue.go:60-70). *)
LEMMA RemoveKeepsInv ==
  ASSUME QueueInv, NEW k \in DOMAIN items, removeAt(k), got' \in Requests \cup {NoReq}
  PROVE  QueueInv'
<1> USE DEF QueueInv, TypeOK, IndexInverse, Ids
<1> DEFINE last == Len(items)
<1>1. /\ last \in Nat /\ last >= 1 /\ DOMAIN items = 1..last /\ k \in 1..last
      /\ \A i \in 1..last : items[i] \in Requests
  OBVIOUS
<1>2. items' = SubSeq([items EXCEPT ![k] = items[last]], 1, last - 1)
  BY DEF removeAt
<1>3. /\ items' \in Seq(Requests) /\ DOMAIN items' = 1..(last - 1)
      /\ \A i \in 1..(last - 1) : items'[i] = IF i = k THEN items[last] ELSE items[i]
  BY <1>1, <1>2
<1>4. \A i, j \in 1..last : items[i].id = items[j].id => i = j
  BY <1>1
<1>5. DOMAIN byID' = DOMAIN byID \ {items[k].id}
  BY <1>1, <1>4 DEF removeAt, With, Without
<1>6. \A id \in DOMAIN byID' :
        byID'[id] = IF k # last /\ id = items[last].id THEN k ELSE byID[id]
  BY <1>1, <1>4 DEF removeAt, With, Without
<1>7. DOMAIN byID = {items[i].id : i \in 1..last} /\ \A i \in 1..last : byID[items[i].id] = i
  BY <1>1
<1>8. DOMAIN byID \subseteq Ids /\ got' \in Requests \cup {NoReq}
  OBVIOUS
<1> HIDE DEF last, QueueInv, TypeOK, IndexInverse, Ids
<1>9. \A i \in 1..(last - 1) : items'[i].id \in DOMAIN byID' /\ byID'[items'[i].id] = i
  <2> TAKE i \in 1..(last - 1)
  <2>1. CASE i = k
    <3>1. items'[i] = items[last] /\ k # last /\ items[last].id # items[k].id
      BY <1>1, <1>3, <1>4, <2>1
    <3> QED
      BY <1>1, <1>5, <1>6, <1>7, <2>1, <3>1
  <2>2. CASE i # k
    <3>1. /\ items'[i] = items[i] /\ i \in 1..last /\ i # last
          /\ items[i].id # items[k].id /\ items[i].id # items[last].id
      BY <1>1, <1>3, <1>4, <2>2
    <3> QED
      BY <1>1, <1>5, <1>6, <1>7, <3>1
  <2> QED
    BY <2>1, <2>2
<1>10. \A id \in DOMAIN byID' : \E i \in 1..(last - 1) : items'[i].id = id
  <2> TAKE id \in DOMAIN byID'
  <2>1. PICK j \in 1..last : items[j].id = id
    BY <1>5, <1>7
  <2>2. j # k
    BY <1>5, <2>1
  <2>3. CASE j = last
    BY <1>1, <1>3, <2>1, <2>2, <2>3
  <2>4. CASE j # last
    <3>1. j \in 1..(last - 1)
      BY <1>1, <2>4
    <3> QED
      BY <1>3, <2>1, <2>2, <3>1
  <2> QED
    BY <2>3, <2>4
<1>11. DOMAIN byID' = {items'[i].id : i \in DOMAIN items'}
  BY <1>3, <1>9, <1>10
<1>12. TypeOK'
  <2>1. \A id \in DOMAIN byID' : byID'[id] \in DOMAIN items'
    BY <1>3, <1>9, <1>10
  <2> QED
    BY <1>3, <1>5, <1>8, <2>1 DEF TypeOK, Ids
<1> QED
  BY <1>3, <1>9, <1>11, <1>12 DEF QueueInv, IndexInverse

(* No operation of the queue lets slice and index disagree. *)
LEMMA NextKeepsInv == NoBlankId /\ QueueInv /\ [Next]_vars => QueueInv'
<1> SUFFICES ASSUME NoBlankId, QueueInv, [Next]_vars PROVE QueueInv'
  OBVIOUS
<1>1. ASSUME NEW r \in Requests, Push(r) PROVE QueueInv'
  BY <1>1, PushKeepsInv DEF Push, QueueInv, TypeOK
<1>2. ASSUME NEW r \in Requests, TryPush(r) PROVE QueueInv'
  <2>1. CASE UNCHANGED <<items, byID>> /\ got' = NoReq
    BY <2>1 DEF QueueInv, TypeOK, IndexInverse
  <2>2. CASE pushLocked(r) /\ got' = r
    BY <2>2, PushKeepsInv
  <2> QED
    BY <1>2, <2>1, <2>2 DEF TryPush
<1>3. ASSUME NEW o \in Offers, PopBest(o) PROVE QueueInv'
  <2>1. CASE UNCHANGED <<items, byID>> /\ got' = NoReq
    BY <2>1 DEF QueueInv, TypeOK, IndexInverse
  <2>2. ASSUME NEW i \in DOMAIN items, got' = items[i], removeAt(i) PROVE QueueInv'
    <3>1. got' \in Requests
      BY <2>2 DEF QueueInv, TypeOK
    <3> QED
      BY <2>2, <3>1, RemoveKeepsInv
  <2> QED
    BY <1>3, <2>1, <2>2 DEF PopBest
<1>4. ASSUME NEW o \in Offers, NEW eligible \in SUBSET Owners, PeekBestForClient(o, eligible)
      PROVE  QueueInv'
  <2>1. UNCHANGED <<items, byID>>
    BY <1>4 DEF PeekBestForClient
  <2>2. got' = NoReq \/ \E i \in DOMAIN items : got' = items[i]
    BY <1>4 DEF PeekBestForClient
  <2> QED
    BY <2>1, <2>2 DEF QueueInv, TypeOK, IndexInverse
<1>5. ASSUME NEW id \in Ids, PopByID(id) PROVE QueueInv'
  <2>1. CASE id \notin DOMAIN byID
    <3>1. UNCHANGED <<items, byID>> /\ got' = NoReq
      BY <1>5, <2>1 DEF PopByID
    <3> QED
      BY <3>1 DEF QueueInv, TypeOK, IndexInverse
  <2>2. CASE id \in DOMAIN byID
    <3>1. byID[id] \in DOMAIN items /\ got' = items[byID[id]] /\ removeAt(byID[id])
      BY <1>5, <2>2 DEF PopByID, QueueInv, TypeOK
    <3>2. got' \in Requests
      BY <3>1 DEF QueueInv, TypeOK
    <3> QED
      BY <3>1, <3>2, RemoveKeepsInv
  <2> QED
    BY <2>1, <2>2
<1>6. CASE Drain
  BY <1>6 DEF Drain, QueueInv, TypeOK, IndexInverse
<1>7. CASE UNCHANGED vars
  BY <1>7 DEF vars, QueueInv, TypeOK, IndexInverse
<1> QED
  BY <1>1, <1>2, <1>3, <1>4, <1>5, <1>6, <1>7 DEF Next

(* Whatever requests with an ID are pushed, popped and drained, in whatever
   order, the slice and the index of the queue stay inverse to each other:
   the scheduler is never offered a request that PopByID cannot remove. *)
THEOREM QueueIndexed == NoBlankId => (Spec => [](TypeOK /\ IndexInverse))
<1>1. Init => QueueInv
  BY DEF Init, QueueInv, TypeOK, IndexInverse
<1>2. NoBlankId /\ QueueInv /\ [Next]_vars => QueueInv'
  BY NextKeepsInv
<1>3. SUFFICES ASSUME NoBlankId PROVE Spec => [](TypeOK /\ IndexInverse)
  OBVIOUS
<1>4. QueueInv /\ [Next]_vars => QueueInv'
  BY <1>2, <1>3
<1>5. QueueInv => TypeOK /\ IndexInverse
  BY DEF QueueInv
<1> QED
  BY <1>1, <1>4, <1>5, PTL DEF Spec

-----------------------------------------------------------------------------
(* The scan over the slice.  It is a function defined by recursion on the  *)
(* position; what it returns is shown for a least position where it would  *)
(* not hold.                                                               *)

(* A set of positions has a first one (the loop over q.items goes through the
   slice from its start). *)
LEMMA FirstOf ==
  ASSUME NEW S \in SUBSET Nat, S # {}
  PROVE  \E m \in S : \A k \in S : m <= k
<1>1. \E m \in S : \A k \in S : <<k, m>> \notin OpToRel(<, Nat)
  BY WFMin, NatLessThanWellFounded, Zenon
<1>2. ASSUME NEW m \in S, NEW k \in S, <<k, m>> \notin OpToRel(<, Nat) PROVE m <= k
  BY <1>2 DEF OpToRel
<1> QED
  BY <1>1, <1>2

\* The function of the loop, over the positions U that are usable and the pairs
\* B of which the first beats the second.
Loop(f, N, U, B) ==
    f = [n \in 0..N |-> IF n = 0 THEN 0
                        ELSE IF n \in U /\ (f[n - 1] = 0 \/ <<n, f[n - 1]>> \in B) THEN n
                        ELSE f[n - 1]]

(* The loop has a result, for a slice of any length (popBestLocked and
   PeekBestForClient both run to the end of the slice). *)
LEMMA LoopExists ==
  ASSUME NEW N \in Nat, NEW U, NEW B
  PROVE  \E f : Loop(f, N, U, B)
<1> DEFINE Bad == {n \in Nat : ~ \E f : Loop(f, n, U, B)}
<1>1. SUFFICES ASSUME Bad # {} PROVE FALSE
  OBVIOUS
<1>2. PICK m \in Bad : \A k \in Bad : m <= k
  BY <1>1, FirstOf
<1>3. CASE m = 0
  <2>1. Loop([n \in 0..0 |-> 0], 0, U, B)
    BY DEF Loop
  <2> QED
    BY <1>2, <1>3, <2>1
<1>4. CASE m # 0
  <2>1. m - 1 \in Nat /\ m - 1 \notin Bad /\ m \in Nat
    BY <1>2, <1>4
  <2>2. PICK f : Loop(f, m - 1, U, B)
    BY <2>1
  <2> DEFINE last == IF m \in U /\ (f[m - 1] = 0 \/ <<m, f[m - 1]>> \in B) THEN m ELSE f[m - 1]
             g == [n \in 0..m |-> IF n = m THEN last ELSE f[n]]
  <2>3. \A n \in 0..m : n # 0 => n - 1 \in 0..(m - 1) /\ g[n - 1] = f[n - 1]
    BY <2>1
  <2>4. \A n \in 0..m :
          g[n] = IF n = 0 THEN 0
                 ELSE IF n \in U /\ (g[n - 1] = 0 \/ <<n, g[n - 1]>> \in B) THEN n
                 ELSE g[n - 1]
    <3> TAKE n \in 0..m
    <3>1. CASE n = m
      BY <1>4, <2>1, <2>3, <3>1
    <3>2. CASE n # m
      <4>1. n \in 0..(m - 1)
        BY <2>1, <3>2
      <4>2. f[n] = IF n = 0 THEN 0
                   ELSE IF n \in U /\ (f[n - 1] = 0 \/ <<n, f[n - 1]>> \in B) THEN n
                   ELSE f[n - 1]
        BY <2>2, <4>1 DEF Loop
      <4> QED
        BY <2>3, <3>2, <4>2
    <3> QED
      BY <3>1, <3>2
  <2>5. g = [n \in 0..m |-> g[n]]
    OBVIOUS
  <2> HIDE DEF g
  <2>6. Loop(g, m, U, B)
    BY <2>4, <2>5 DEF Loop
  <2> QED
    BY <1>2, <2>6
<1> QED
  BY <1>3, <1>4

(* Whatever is found stands: after n positions the loop has none if none of them
   was usable, and otherwise a usable one that no usable one before it beats. *)
LEMMA LoopFinds ==
  ASSUME NEW N \in Nat, NEW U \in SUBSET (1..N), NEW B, NEW f, Loop(f, N, U, B),
         \A a, b, c \in U : <<a, b>> \in B /\ <<b, c>> \in B => <<a, c>> \in B,
         \A a \in U : <<a, a>> \notin B
  PROVE  \/ f[N] = 0 /\ U = {}
         \/ f[N] \in U /\ \A a \in U : <<a, f[N]>> \notin B
<1> DEFINE Found(n) == \/ f[n] = 0 /\ \A a \in U : a > n
                       \/ /\ f[n] \in U
                          /\ \A a \in U : a <= n => <<a, f[n]>> \notin B
           Bad == {n \in 0..N : ~ Found(n)}
<1>1. ASSUME Bad # {} PROVE FALSE
  <2>0. Bad \in SUBSET Nat
    OBVIOUS
  <2>1. PICK m \in Bad : \A k \in Bad : m <= k
    <3> HIDE DEF Bad
    <3> QED
      BY <1>1, <2>0, FirstOf
  <2>2. m \in 0..N /\ ~ Found(m)
    BY <2>1
  <2>3. f[m] = IF m = 0 THEN 0
               ELSE IF m \in U /\ (f[m - 1] = 0 \/ <<m, f[m - 1]>> \in B) THEN m
               ELSE f[m - 1]
    BY <2>2 DEF Loop
  <2>4. m # 0
    BY <2>2, <2>3
  <2>5. m - 1 \in 0..N /\ m - 1 \notin Bad
    BY <2>1, <2>2, <2>4
  <2>6. Found(m - 1)
    BY <2>5
  <2>7. \A a \in U : a \in Nat /\ (a <= m <=> a <= m - 1 \/ a = m)
    BY <2>2
  <2> HIDE DEF Bad
  <2>8. CASE m \notin U
    BY <2>2, <2>3, <2>4, <2>6, <2>7, <2>8
  <2>9. CASE m \in U /\ f[m - 1] = 0
    <3>1. 0 \notin U
      BY <2>7
    <3> QED
      BY <2>2, <2>3, <2>4, <2>6, <2>7, <2>9, <3>1
  <2>10. CASE m \in U /\ f[m - 1] # 0
    <3>1. f[m - 1] \in U /\ \A a \in U : a <= m - 1 => <<a, f[m - 1]>> \notin B
      BY <2>6, <2>10
    <3>2. CASE <<m, f[m - 1]>> \in B
      <4>1. f[m] = m
        BY <2>3, <2>4, <2>10, <3>2
      <4>2. ASSUME NEW a \in U, a <= m PROVE <<a, m>> \notin B
        <5>1. CASE a = m
          BY <2>10, <5>1
        <5>2. CASE a # m
          <6>1. <<a, f[m - 1]>> \notin B
            BY <2>7, <3>1, <4>2, <5>2
          <6>2. PICK b \in U : b = f[m - 1]
            BY <3>1
          <6>3. a \in U /\ m \in U /\ <<m, b>> \in B /\ <<a, b>> \notin B
            BY <2>10, <3>2, <6>1, <6>2
          <6> QED
            BY <6>3, Zenon
        <5> QED
          BY <5>1, <5>2
      <4> QED
        BY <2>2, <2>10, <4>1, <4>2
    <3>3. CASE <<m, f[m - 1]>> \notin B
      <4>1. f[m] = f[m - 1]
        BY <2>3, <2>4, <2>10, <3>3
      <4>2. \A a \in U : a <= m => <<a, f[m]>> \notin B
        BY <2>7, <3>1, <3>3, <4>1
      <4> QED
        BY <2>2, <3>1, <4>1, <4>2
    <3> QED
      BY <3>2, <3>3
  <2> QED
    BY <2>8, <2>9, <2>10
<1>2. Found(N)
  BY <1>1
<1> QED
  BY <1>2

(* The loop only ever moves to the position it looks at (the index bestIdx is
   always that of an item already seen). *)
LEMMA LoopStays ==
  ASSUME NEW N \in Nat, NEW f, f[0] = 0, \A n \in 1..N : f[n] \in {n, f[n - 1]}
  PROVE  \A n \in 0..N : f[n] \in 0..n
<1> DEFINE Bad == {n \in 0..N : f[n] \notin 0..n}
<1>1. ASSUME Bad # {} PROVE FALSE
  <2>1. Bad \in SUBSET Nat
    OBVIOUS
  <2>2. PICK m \in Bad : \A k \in Bad : m <= k
    <3> HIDE DEF Bad
    <3> QED
      BY <1>1, <2>1, FirstOf
  <2>3. m # 0 /\ m \in 1..N /\ m - 1 \in 0..N
    BY <2>2
  <2>4. m - 1 \notin Bad
    BY <2>2, <2>3
  <2> QED
    BY <2>2, <2>3, <2>4
<1> QED
  BY <1>1

\* The loop over the slice, with the requests U that are usable and the pairs R
\* of which the first beats the second.
SliceLoop(f, U, R) ==
    f = [n \in 0..Len(items) |->
           IF n = 0 THEN 0
           ELSE IF items[n] \in U /\ (f[n - 1] = 0 \/ <<items[n], items[f[n - 1]]>> \in R) THEN n
           ELSE f[n - 1]]

\* What it returns: nothing, if nothing is usable, or a usable request no other beats.
Unbeaten(best, U, R) ==
    \/ best = 0 /\ \A i \in DOMAIN items : items[i] \notin U
    \/ /\ best \in DOMAIN items /\ items[best] \in U
       /\ \A i \in DOMAIN items : items[i] \in U => <<items[i], items[best]>> \notin R

(* The loop over the slice finds an unbeaten request, in whatever order
   swap-and-pop has left the slice (queue.go:149-165, 186-207). *)
LEMMA SliceFinds ==
  ASSUME items \in Seq(Requests), NEW U, NEW R,
         \A a, b, c \in Requests : <<a, b>> \in R /\ <<b, c>> \in R => <<a, c>> \in R,
         \A a \in Requests : <<a, a>> \notin R
  PROVE  /\ \E f : SliceLoop(f, U, R)
         /\ \A f : SliceLoop(f, U, R) => /\ \A n \in 0..Len(items) : f[n] \in 0..n
                                         /\ Unbeaten(f[Len(items)], U, R)
<1> DEFINE N == Len(items)
           P == {n \in 1..N : items[n] \in U}
           B == {p \in (1..N) \X (1..N) : <<items[p[1]], items[p[2]]>> \in R}
<1>1. N \in Nat /\ DOMAIN items = 1..N /\ \A i \in 1..N : items[i] \in Requests
  OBVIOUS
<1>2. \A a, b \in 1..N : <<a, b>> \in B <=> <<items[a], items[b]>> \in R
  OBVIOUS
<1>3. P \in SUBSET (1..N) /\ \A n \in 1..N : n \in P <=> items[n] \in U
  OBVIOUS
<1> HIDE DEF P, B
<1>4. ASSUME NEW f PROVE Loop(f, N, P, B) => \A n \in 0..N : f[n] \in 0..n
  <2>1. SUFFICES ASSUME Loop(f, N, P, B) PROVE \A n \in 0..N : f[n] \in 0..n
    OBVIOUS
  <2>2. f[0] = 0 /\ \A n \in 1..N : f[n] \in {n, f[n - 1]}
    BY <1>1, <2>1 DEF Loop
  <2> QED
    BY <1>1, <2>2, LoopStays
<1>5. ASSUME NEW f PROVE SliceLoop(f, U, R) => \A n \in 0..N : f[n] \in 0..n
  <2>1. SUFFICES ASSUME SliceLoop(f, U, R) PROVE \A n \in 0..N : f[n] \in 0..n
    OBVIOUS
  <2>2. f[0] = 0 /\ \A n \in 1..N : f[n] \in {n, f[n - 1]}
    BY <1>1, <2>1 DEF SliceLoop
  <2> QED
    BY <1>1, <2>2, LoopStays
<1>6. ASSUME NEW f, \A n \in 0..N : f[n] \in 0..n
      PROVE  Loop(f, N, P, B) <=> SliceLoop(f, U, R)
  <2>1. ASSUME NEW n \in 0..N
        PROVE  (IF n = 0 THEN 0 ELSE IF n \in P /\ (f[n - 1] = 0 \/ <<n, f[n - 1]>> \in B) THEN n
                ELSE f[n - 1])
             = (IF n = 0 THEN 0
                ELSE IF items[n] \in U /\ (f[n - 1] = 0 \/ <<items[n], items[f[n - 1]]>> \in R) THEN n
                ELSE f[n - 1])
    <3>1. CASE n = 0
      BY <3>1
    <3>2. CASE n # 0
      <4>1. n \in 1..N /\ n - 1 \in 0..N /\ (f[n - 1] = 0 \/ f[n - 1] \in 1..N)
        BY <1>1, <1>6, <3>2
      <4> QED
        BY <1>2, <1>3, <3>2, <4>1
    <3> QED
      BY <3>1, <3>2
  <2> QED
    BY <2>1 DEF Loop, SliceLoop
<1>7. \E f : SliceLoop(f, U, R)
  BY <1>1, <1>4, <1>6, LoopExists
<1>8. ASSUME NEW f, SliceLoop(f, U, R) PROVE Unbeaten(f[N], U, R)
  <2>1. Loop(f, N, P, B)
    BY <1>5, <1>6, <1>8
  <2>2. ASSUME NEW a \in P, NEW b \in P, NEW c \in P, <<a, b>> \in B, <<b, c>> \in B
        PROVE  <<a, c>> \in B
    <3>1. /\ items[a] \in Requests /\ items[b] \in Requests /\ items[c] \in Requests
          /\ <<items[a], items[b]>> \in R /\ <<items[b], items[c]>> \in R
      BY <1>1, <1>2, <1>3, <2>2
    <3>2. <<items[a], items[c]>> \in R
      BY <3>1, Zenon
    <3> QED
      BY <1>2, <1>3, <3>2
  <2>3. \A a \in P : <<a, a>> \notin B
    BY <1>1, <1>2, <1>3
  <2>4. \/ f[N] = 0 /\ P = {}
        \/ f[N] \in P /\ \A a \in P : <<a, f[N]>> \notin B
    BY <1>1, <1>3, <2>1, <2>2, <2>3, LoopFinds
  <2> QED
    BY <1>1, <1>2, <1>3, <2>4 DEF Unbeaten
<1> QED
  BY <1>5, <1>7, <1>8

(* BetterRequest, with a flag for each side that says whether it is preferred, is a
   strict order (types.BetterRequest): affinity, then priority, then age. *)
LEMMA BetterIsStrict ==
  ASSUME NEW a \in Requests, NEW b \in Requests, NEW c \in Requests,
         NEW p \in BOOLEAN, NEW q \in BOOLEAN, NEW s \in BOOLEAN
  PROVE  /\ BetterRequest(a, b, p, q) /\ BetterRequest(b, c, q, s) => BetterRequest(a, c, p, s)
         /\ ~ BetterRequest(a, a, p, p)
BY QueueAssumption DEF BetterRequest

\* The function of the loop of popBestLocked, and that of PeekBestForClient.
PopLoop(f, o) ==
    f = [n \in 0..Len(items) |->
           IF n = 0 THEN 0
           ELSE IF canHandle(items[n], o)
                   /\ (f[n - 1] = 0 \/ BetterRequest(items[n], items[f[n - 1]], FALSE, FALSE)) THEN n
           ELSE f[n - 1]]
PeekLoop(f, o, eligible) ==
    f = [n \in 0..Len(items) |->
           IF n = 0 THEN 0
           ELSE IF (canHandle(items[n], o) /\ items[n].owner \in eligible)
                   /\ (f[n - 1] = 0 \/ betterForClient(items[n], items[f[n - 1]], o.owner)) THEN n
           ELSE f[n - 1]]

\* Which requests a client can run, and of those whose owner is eligible.
Handled(o) == {r \in Requests : canHandle(r, o)}
Eligible(o, eligible) == {r \in Requests : canHandle(r, o) /\ r.owner \in eligible}

\* The order of the two selections.
Sooner == {p \in Requests \X Requests : BetterRequest(p[1], p[2], FALSE, FALSE)}
SoonerFor(owner) == {p \in Requests \X Requests : betterForClient(p[1], p[2], owner)}

(* PopBest answers with a request that no other usable one beats, or with nil if none
   is usable (popBestLocked). *)
LEMMA PopBestFinds ==
  ASSUME items \in Seq(Requests), NEW o \in Offers, PopBest(o)
  PROVE  \E best :
           /\ Unbeaten(best, Handled(o), Sooner)
           /\ ask' = <<"best", o>>
           /\ \/ best = 0 /\ got' = NoReq /\ UNCHANGED <<items, byID>>
              \/ best \in DOMAIN items /\ got' = items[best] /\ removeAt(best)
<1> DEFINE N == Len(items)
<1>1. N \in Nat /\ DOMAIN items = 1..N /\ \A i \in 1..N : items[i] \in Requests
  OBVIOUS
<1>2. /\ \A a, b, c \in Requests : <<a, b>> \in Sooner /\ <<b, c>> \in Sooner => <<a, c>> \in Sooner
      /\ \A a \in Requests : <<a, a>> \notin Sooner
  BY BetterIsStrict DEF Sooner
<1>3. /\ \E f : SliceLoop(f, Handled(o), Sooner)
      /\ \A f : SliceLoop(f, Handled(o), Sooner) =>
                  /\ \A n \in 0..N : f[n] \in 0..n
                  /\ Unbeaten(f[N], Handled(o), Sooner)
  BY <1>2, SliceFinds
<1>4. ASSUME NEW f, \A n \in 0..N : f[n] \in 0..n
      PROVE  PopLoop(f, o) <=> SliceLoop(f, Handled(o), Sooner)
  <2>1. ASSUME NEW n \in 0..N
        PROVE  (IF n = 0 THEN 0
                ELSE IF canHandle(items[n], o)
                        /\ (f[n - 1] = 0 \/ BetterRequest(items[n], items[f[n - 1]], FALSE, FALSE)) THEN n
                ELSE f[n - 1])
             = (IF n = 0 THEN 0
                ELSE IF items[n] \in Handled(o)
                        /\ (f[n - 1] = 0 \/ <<items[n], items[f[n - 1]]>> \in Sooner) THEN n
                ELSE f[n - 1])
    <3>1. CASE n = 0
      BY <3>1
    <3>2. CASE n # 0
      <4>1. n \in 1..N /\ n - 1 \in 0..N /\ (f[n - 1] = 0 \/ f[n - 1] \in 1..N)
        BY <1>1, <1>4, <3>2
      <4>2. items[n] \in Handled(o) <=> canHandle(items[n], o)
        BY <1>1, <4>1 DEF Handled
      <4>3. f[n - 1] # 0 => (<<items[n], items[f[n - 1]]>> \in Sooner
                               <=> BetterRequest(items[n], items[f[n - 1]], FALSE, FALSE))
        BY <1>1, <4>1 DEF Sooner
      <4> QED
        BY <3>2, <4>2, <4>3
    <3> QED
      BY <3>1, <3>2
  <2> QED
    BY <2>1 DEF PopLoop, SliceLoop
<1>5. ASSUME NEW f PROVE PopLoop(f, o) => \A n \in 0..N : f[n] \in 0..n
  <2>1. SUFFICES ASSUME PopLoop(f, o) PROVE \A n \in 0..N : f[n] \in 0..n
    OBVIOUS
  <2>2. f[0] = 0 /\ \A n \in 1..N : f[n] \in {n, f[n - 1]}
    BY <1>1, <2>1 DEF PopLoop
  <2> QED
    BY <1>1, <2>2, LoopStays
<1>6. \E f : PopLoop(f, o)
  BY <1>3, <1>4
<1> DEFINE loop == CHOOSE f : PopLoop(f, o)
<1>7. PopLoop(loop, o)
  BY <1>6
<1>8. Scan(LAMBDA r : canHandle(r, o), LAMBDA a, b : BetterRequest(a, b, FALSE, FALSE)) = loop[N]
  BY Zenon DEF PopLoop, Scan
<1>9. /\ ask' = <<"best", o>>
      /\ \/ loop[N] = 0 /\ got' = NoReq /\ UNCHANGED <<items, byID>>
         \/ loop[N] \in DOMAIN items /\ got' = items[loop[N]] /\ removeAt(loop[N])
  BY <1>8, Zenon DEF PopBest
<1> HIDE DEF loop
<1>10. Unbeaten(loop[N], Handled(o), Sooner)
  BY <1>3, <1>4, <1>5, <1>7
<1> QED
  BY <1>9, <1>10

(* PeekBestForClient likewise, among the requests whose owner is eligible and with the
   owner's own requests first. *)
LEMMA PeekFinds ==
  ASSUME items \in Seq(Requests), NEW o \in Offers, NEW eligible \in SUBSET Owners,
         PeekBestForClient(o, eligible)
  PROVE  \E best :
           /\ Unbeaten(best, Eligible(o, eligible), SoonerFor(o.owner))
           /\ ask' = <<"peek", o, eligible>> /\ UNCHANGED <<items, byID>>
           /\ \/ best = 0 /\ got' = NoReq
              \/ best \in DOMAIN items /\ got' = items[best]
<1> DEFINE N == Len(items)
           U == Eligible(o, eligible)
           R == SoonerFor(o.owner)
<1>1. N \in Nat /\ DOMAIN items = 1..N /\ \A i \in 1..N : items[i] \in Requests
  OBVIOUS
<1>2. /\ \A a, b, c \in Requests : <<a, b>> \in R /\ <<b, c>> \in R => <<a, c>> \in R
      /\ \A a \in Requests : <<a, a>> \notin R
  <2>1. \A r \in Requests : (o.owner # NoOwner /\ r.owner = o.owner) \in BOOLEAN
    OBVIOUS
  <2> QED
    BY <2>1, BetterIsStrict DEF SoonerFor, betterForClient
<1> HIDE DEF U, R
<1>3. /\ \E f : SliceLoop(f, U, R)
      /\ \A f : SliceLoop(f, U, R) => /\ \A n \in 0..N : f[n] \in 0..n
                                      /\ Unbeaten(f[N], U, R)
  BY <1>2, SliceFinds
<1>4. ASSUME NEW f, \A n \in 0..N : f[n] \in 0..n
      PROVE  PeekLoop(f, o, eligible) <=> SliceLoop(f, U, R)
  <2>1. ASSUME NEW n \in 0..N
        PROVE  (IF n = 0 THEN 0
                ELSE IF (canHandle(items[n], o) /\ items[n].owner \in eligible)
                        /\ (f[n - 1] = 0 \/ betterForClient(items[n], items[f[n - 1]], o.owner)) THEN n
                ELSE f[n - 1])
             = (IF n = 0 THEN 0
                ELSE IF items[n] \in U /\ (f[n - 1] = 0 \/ <<items[n], items[f[n - 1]]>> \in R) THEN n
                ELSE f[n - 1])
    <3>1. CASE n = 0
      BY <3>1
    <3>2. CASE n # 0
      <4>1. n \in 1..N /\ n - 1 \in 0..N /\ (f[n - 1] = 0 \/ f[n - 1] \in 1..N)
        BY <1>1, <1>4, <3>2
      <4>2. items[n] \in U <=> canHandle(items[n], o) /\ items[n].owner \in eligible
        BY <1>1, <4>1 DEF U, Eligible
      <4>3. f[n - 1] # 0 => (<<items[n], items[f[n - 1]]>> \in R
                               <=> betterForClient(items[n], items[f[n - 1]], o.owner))
        BY <1>1, <4>1 DEF R, SoonerFor
      <4> QED
        BY <3>2, <4>2, <4>3
    <3> QED
      BY <3>1, <3>2
  <2> QED
    BY <2>1 DEF PeekLoop, SliceLoop
<1>5. ASSUME NEW f PROVE PeekLoop(f, o, eligible) => \A n \in 0..N : f[n] \in 0..n
  <2>1. SUFFICES ASSUME PeekLoop(f, o, eligible) PROVE \A n \in 0..N : f[n] \in 0..n
    OBVIOUS
  <2>2. f[0] = 0 /\ \A n \in 1..N : f[n] \in {n, f[n - 1]}
    BY <1>1, <2>1 DEF PeekLoop
  <2> QED
    BY <1>1, <2>2, LoopStays
<1>6. \E f : PeekLoop(f, o, eligible)
  BY <1>3, <1>4
<1> DEFINE loop == CHOOSE f : PeekLoop(f, o, eligible)
<1>7. PeekLoop(loop, o, eligible)
  BY <1>6
<1>8. Scan(LAMBDA r : canHandle(r, o) /\ r.owner \in eligible,
           LAMBDA a, b : betterForClient(a, b, o.owner)) = loop[N]
  BY Zenon DEF PeekLoop, Scan
<1>9. /\ ask' = <<"peek", o, eligible>> /\ UNCHANGED <<items, byID>>
      /\ \/ loop[N] = 0 /\ got' = NoReq
         \/ loop[N] \in DOMAIN items /\ got' = items[loop[N]]
  BY <1>8, Zenon DEF PeekBestForClient
<1> HIDE DEF loop
<1>10. Unbeaten(loop[N], U, R)
  BY <1>3, <1>4, <1>5, <1>7
<1> QED
  BY <1>9, <1>10 DEF U, R

-----------------------------------------------------------------------------
(* The queue implements the pool of module RequestPool.                    *)

\* The pool the slice stands for.
Held == {items[i] : i \in DOMAIN items}

(* The slice holds as many items as the pool has requests, because no request is in
   it twice (the depth that TryPush compares is len(q.items)). *)
LEMMA HeldCount ==
  ASSUME QueueInv
  PROVE  IsFiniteSet(Held) /\ Cardinality(Held) = Len(items)
<1> DEFINE N == Len(items)
           place == [i \in 1..N |-> items[i]]
<1>1. N \in Nat /\ DOMAIN items = 1..N
  BY DEF QueueInv, TypeOK
<1>2. \A i, j \in 1..N : items[i] = items[j] => i = j
  BY <1>1 DEF QueueInv, IndexInverse
<1>3. place \in Bijection(1..N, Held)
  <2>1. place \in [1..N -> Held] /\ \A i \in 1..N : place[i] = items[i]
    BY <1>1 DEF Held
  <2>2. \A s \in Held : \E i \in 1..N : place[i] = s
    BY <1>1, <2>1 DEF Held
  <2> HIDE DEF place
  <2> QED
    BY <1>2, <2>1, <2>2, Zenon DEF Bijection, Injection, Surjection, IsInjective
<1> HIDE DEF place, N
<1>4. IsFiniteSet(1..N) /\ Cardinality(1..N) = N
  <2>1. 1 \in Int /\ N \in Int /\ (IF 1 > N THEN 0 ELSE N - 1 + 1) = N
    BY <1>1
  <2> QED
    BY <2>1, FS_Interval
<1>5. ExistsBijection(1..N, Held)
  BY <1>3 DEF ExistsBijection
<1> QED
  BY <1>4, <1>5, FS_Bijection DEF N

(* A push puts the request in, and takes an older copy of it out (pushLocked). *)
LEMMA PushHolds ==
  ASSUME NoBlankId, QueueInv, NEW r \in Requests, pushLocked(r)
  PROVE  Held' = {s \in Held : s.id # r.id} \cup {r}
<1>1. /\ items \in Seq(Requests) /\ Len(items) \in Nat /\ DOMAIN items = 1..Len(items)
      /\ r.id # Blank
      /\ DOMAIN byID = {items[i].id : i \in DOMAIN items}
      /\ \A i \in DOMAIN items : byID[items[i].id] = i
  BY DEF QueueInv, TypeOK, IndexInverse, NoBlankId
<1>2. CASE r.id \in DOMAIN byID
  <2>1. PICK k \in DOMAIN items : items[k].id = r.id /\ byID[r.id] = k
    BY <1>1, <1>2
  <2>2. items' = [items EXCEPT ![k] = r]
    BY <1>1, <1>2, <2>1 DEF pushLocked
  <2>3. DOMAIN items' = DOMAIN items /\ items'[k] = r /\ \A i \in DOMAIN items : i # k => items'[i] = items[i]
    BY <1>1, <2>1, <2>2
  <2>4. \A i \in DOMAIN items : items[i].id = r.id <=> i = k
    BY <1>1, <2>1
  <2> QED
    BY <2>1, <2>3, <2>4 DEF Held
<1>3. CASE r.id \notin DOMAIN byID
  <2>1. items' = Append(items, r)
    BY <1>3 DEF pushLocked
  <2>2. /\ DOMAIN items' = DOMAIN items \cup {Len(items) + 1} /\ items'[Len(items) + 1] = r
        /\ \A i \in DOMAIN items : items'[i] = items[i]
    BY <1>1, <2>1
  <2>3. \A i \in DOMAIN items : items[i].id # r.id
    BY <1>1, <1>3
  <2> QED
    BY <2>2, <2>3 DEF Held
<1> QED
  BY <1>2, <1>3

(* Swap-and-pop takes out the one request, which is the only one of its ID
   (removeAt). *)
LEMMA RemoveHolds ==
  ASSUME QueueInv, NEW k \in DOMAIN items, removeAt(k)
  PROVE  Held' = Held \ {items[k]} /\ Held' = {s \in Held : s.id # items[k].id}
<1> DEFINE last == Len(items)
<1>1. /\ last \in Nat /\ last >= 1 /\ DOMAIN items = 1..last /\ k \in 1..last
      /\ items \in Seq(Requests)
      /\ \A i, j \in 1..last : items[i].id = items[j].id => i = j
  BY DEF QueueInv, TypeOK, IndexInverse
<1>2. items' = SubSeq([items EXCEPT ![k] = items[last]], 1, last - 1)
  BY DEF removeAt
<1>3. /\ DOMAIN items' = 1..(last - 1)
      /\ \A i \in 1..(last - 1) : items'[i] = IF i = k THEN items[last] ELSE items[i]
  BY <1>1, <1>2
<1> HIDE DEF last
<1>4. ASSUME NEW i \in 1..last, i # k PROVE items[i] \in Held'
  <2>1. CASE i = last
    BY <1>1, <1>3, <1>4, <2>1 DEF Held
  <2>2. CASE i # last
    <3>1. i \in 1..(last - 1) /\ items'[i] = items[i]
      BY <1>1, <1>3, <1>4, <2>2
    <3> QED
      BY <1>3, <3>1 DEF Held
  <2> QED
    BY <2>1, <2>2
<1>5. ASSUME NEW s \in Held' PROVE \E i \in 1..last : s = items[i] /\ i # k
  <2>1. PICK i \in 1..(last - 1) : s = items'[i]
    BY <1>3, <1>5 DEF Held
  <2>2. i \in 1..last /\ i # last /\ last \in 1..last
    BY <1>1
  <2> QED
    BY <1>1, <1>3, <2>1, <2>2
<1>6. \A s : s \in Held <=> \E i \in 1..last : s = items[i]
  BY <1>1 DEF Held
<1>7. \A s : s \in Held' <=> \E i \in 1..last : s = items[i] /\ i # k
  BY <1>4, <1>5
<1>8. \A i \in 1..last : /\ i # k => items[i] # items[k] /\ items[i].id # items[k].id
  BY <1>1
<1>9. \A s : s \in Held' <=> s \in Held /\ s # items[k]
  BY <1>6, <1>7, <1>8
<1>10. \A s : s \in Held' <=> s \in Held /\ s.id # items[k].id
  BY <1>6, <1>7, <1>8
<1> QED
  BY <1>9, <1>10

(* Every step of the queue is one of the pool, with the same answer. *)
LEMMA PoolStep ==
  ASSUME NoBlankId, QueueInv, [Next]_vars
  PROVE  Pool!Next \/ UNCHANGED Pool!vars
<1> USE DEF Held
<1>1. /\ items \in Seq(Requests) /\ Held \subseteq Requests /\ NoReq \notin Held
      /\ \A i \in DOMAIN items : items[i] \in Held
  BY QueueAssumption DEF QueueInv, TypeOK
<1> HIDE DEF Held
<1>2. ASSUME NEW r \in Requests, Push(r) PROVE Pool!Put(r)
  BY <1>2, PushHolds DEF Push, Pool!Put, Pool!Without, Held
<1>3. ASSUME NEW r \in Requests, TryPush(r) PROVE Pool!TryPut(r)
  <2>1. Pool!Cardinality(Held) = Len(items) /\ Len(items) \in Nat /\ MaxDepth \in Nat
    <3>1. Pool!Cardinality(Held) = Cardinality(Held)
      BY DEF Pool!Cardinality, Cardinality
    <3> QED
      BY <1>1, <3>1, HeldCount, QueueAssumption
  <2>2. CASE MaxDepth > 0 /\ Len(items) >= MaxDepth
    <3>1. ask' = <<"try", r>> /\ got' = NoReq /\ Held' = Held
      BY <1>3, <2>2 DEF TryPush, Held
    <3> QED
      BY <2>1, <2>2, <3>1 DEF Pool!TryPut, Held
  <2>3. CASE ~ (MaxDepth > 0 /\ Len(items) >= MaxDepth)
    <3>1. ask' = <<"try", r>> /\ got' = r /\ pushLocked(r)
      BY <1>3, <2>3 DEF TryPush
    <3>2. Held' = {s \in Held : s.id # r.id} \cup {r}
      BY <3>1, PushHolds
    <3>3. MaxDepth = 0 \/ Pool!Cardinality(Held) < MaxDepth
      BY <2>1, <2>3
    <3> QED
      BY <3>1, <3>2, <3>3 DEF Pool!TryPut, Pool!Without, Held
  <2> QED
    BY <2>2, <2>3
<1>4. ASSUME NEW o \in Offers, PopBest(o) PROVE Pool!TakeBest(o)
  <2> DEFINE S == {r \in Held : canHandle(r, o)}
  <2>1. PICK best :
           /\ Unbeaten(best, Handled(o), Sooner)
           /\ ask' = <<"best", o>>
           /\ \/ best = 0 /\ got' = NoReq /\ UNCHANGED <<items, byID>>
              \/ best \in DOMAIN items /\ got' = items[best] /\ removeAt(best)
    BY <1>1, <1>4, PopBestFinds
  <2>2. 0 \notin DOMAIN items /\ \A r \in Held : r \in S <=> r \in Handled(o)
    BY <1>1 DEF Handled
  <2>3. CASE best = 0
    <3>1. S = {} /\ got' = NoReq /\ Held' = Held
      BY <1>1, <2>1, <2>2, <2>3 DEF Unbeaten, Held
    <3> QED
      BY <1>1, <2>1, <3>1 DEF Pool!TakeBest, Pool!Answer, Pool!Servable, Held
  <2>4. CASE best # 0
    <3>1. /\ best \in DOMAIN items /\ got' = items[best] /\ removeAt(best)
          /\ items[best] \in Handled(o)
          /\ \A i \in DOMAIN items : items[i] \in Handled(o) => <<items[i], items[best]>> \notin Sooner
      BY <2>1, <2>4 DEF Unbeaten
    <3>2. Held' = Held \ {got'}
      BY <3>1, RemoveHolds
    <3>3. got' \in S
      BY <1>1, <2>2, <3>1
    <3>4. \A s \in S : ~ BetterRequest(s, got', FALSE, FALSE)
      BY <1>1, <2>2, <3>1 DEF Held, Sooner
    <3> QED
      BY <2>1, <3>2, <3>3, <3>4 DEF Pool!TakeBest, Pool!Answer, Pool!Servable, Held
  <2> QED
    BY <2>3, <2>4
<1>5. ASSUME NEW o \in Offers, NEW eligible \in SUBSET Owners, PeekBestForClient(o, eligible)
      PROVE  Pool!PeekBest(o, eligible)
  <2> DEFINE S == {r \in {s \in Held : canHandle(s, o)} : r.owner \in eligible}
  <2>1. PICK best :
           /\ Unbeaten(best, Eligible(o, eligible), SoonerFor(o.owner))
           /\ ask' = <<"peek", o, eligible>> /\ UNCHANGED <<items, byID>>
           /\ \/ best = 0 /\ got' = NoReq
              \/ best \in DOMAIN items /\ got' = items[best]
    BY <1>1, <1>5, PeekFinds
  <2>2. 0 \notin DOMAIN items /\ Held' = Held /\ \A r \in Held : r \in S <=> r \in Eligible(o, eligible)
    BY <1>1, <2>1 DEF Eligible, Held
  <2>3. CASE best = 0
    <3>1. S = {} /\ got' = NoReq
      BY <1>1, <2>1, <2>2, <2>3 DEF Unbeaten, Held
    <3> QED
      BY <2>1, <2>2, <3>1 DEF Pool!PeekBest, Pool!Answer, Pool!Servable, Held
  <2>4. CASE best # 0
    <3>1. /\ best \in DOMAIN items /\ got' = items[best]
          /\ items[best] \in Eligible(o, eligible)
          /\ \A i \in DOMAIN items :
               items[i] \in Eligible(o, eligible) => <<items[i], items[best]>> \notin SoonerFor(o.owner)
      BY <2>1, <2>4 DEF Unbeaten
    <3>2. got' \in S
      BY <1>1, <2>2, <3>1
    <3>3. \A s \in S : ~ betterForClient(s, got', o.owner)
      BY <1>1, <2>2, <3>1 DEF Held, SoonerFor
    <3> QED
      BY <2>1, <2>2, <3>2, <3>3
         DEF Pool!PeekBest, Pool!Answer, Pool!Servable, Pool!BestOf, Pool!Preferred, Held, betterForClient
  <2> QED
    BY <2>3, <2>4
<1>6. ASSUME NEW id \in Ids, PopByID(id) PROVE Pool!Take(id)
  <2>1. /\ DOMAIN byID = {items[i].id : i \in DOMAIN items}
        /\ \A i \in DOMAIN items : byID[items[i].id] = i
    BY DEF QueueInv, IndexInverse
  <2>2. CASE id \notin DOMAIN byID
    <3>1. ask' = <<"id", id>> /\ got' = NoReq /\ Held' = Held
      BY <1>6, <2>2 DEF PopByID, Held
    <3>2. \A r \in Held : r.id # id
      BY <2>1, <2>2 DEF Held
    <3> QED
      BY <3>1, <3>2 DEF Pool!Take, Pool!Answer, Pool!Without, Held
  <2>3. CASE id \in DOMAIN byID
    <3>1. PICK k \in DOMAIN items : items[k].id = id /\ byID[id] = k
      BY <2>1, <2>3
    <3>2. ask' = <<"id", id>> /\ got' = items[k] /\ removeAt(k)
      BY <1>6, <2>3, <3>1 DEF PopByID
    <3>3. Held' = {s \in Held : s.id # id}
      BY <3>1, <3>2, RemoveHolds
    <3>4. got' \in {r \in Held : r.id = id}
      BY <1>1, <3>1, <3>2
    <3> QED
      BY <3>2, <3>3, <3>4 DEF Pool!Take, Pool!Answer, Pool!Without, Held
  <2> QED
    BY <2>2, <2>3
<1>7. ASSUME Drain PROVE Pool!TakeAll
  BY <1>7 DEF Drain, Pool!TakeAll
<1>8. ASSUME UNCHANGED vars PROVE UNCHANGED Pool!vars
  BY <1>8 DEF vars, Pool!vars
<1> QED
  BY <1>2, <1>3, <1>4, <1>5, <1>6, <1>7, <1>8 DEF Next, Pool!Next, Ids

(* The queue implements the pool, for every set of requests with IDs, every client
   and every depth: swap-and-pop reorders the slice, yet a selection never returns a
   request that another usable one beats, a re-push supersedes the older copy, the
   depth that TryPush enforces is that of the pool, and nothing is lost or handed out
   twice (queue.go:40-207). *)
THEOREM QueueImplementsPool == NoBlankId => (Spec => PoolSpec)
<1>1. SUFFICES ASSUME NoBlankId PROVE Spec => PoolSpec
  OBVIOUS
<1>2. Init => QueueInv /\ Pool!Init
  BY DEF Init, QueueInv, TypeOK, IndexInverse, Pool!Init
<1>3. QueueInv /\ [Next]_vars => QueueInv'
  BY <1>1, NextKeepsInv
<1>4. QueueInv /\ [Next]_vars => [Pool!Next]_(Pool!vars)
  BY <1>1, PoolStep
<1> QED
  BY <1>2, <1>3, <1>4, PTL DEF Spec, PoolSpec, Pool!Spec

=============================================================================
