----------------------- MODULE DispatchAnswers_proofs -----------------------
(***************************************************************************)
(* For every number of requests, workers, slots and attempts in Dispatch:  *)
(* slots are neither leaked nor freed twice, no request is lost silently,  *)
(* no answer mixes two dispatches, and a streaming request reaches a       *)
(* worker no more often than its attempts allow.                           *)
(***************************************************************************)
EXTENDS Dispatch_proofs

(* Slots *)

(* Who may have a slot counted: a request in the table, in a handler's or in the
   reaper's hands, or a goroutine of a connection, or the scheduler. *)
Tokens == ({"job", "caller", "reaper"} \X Requests) \cup ({"reader", "sched"} \X Clients)

Cancelling(r, c) == caller[r].pc = "free" /\ caller[r].client = c
Expired(r, c) == [req |-> r, client |-> c] \in reaper
Freeing(d, c) == \/ reader[d].pc = "decr" /\ d = c
                 \/ reader[d].pc = "free" /\ reader[d].client = c
Carried(c) == sched.pc \in {"track", "uncount"} /\ sched.client = c

(* H is the set of holders of a slot of c. *)
Lists(H, c) ==
  /\ H \subseteq Tokens
  /\ \A r \in Requests : /\ <<"job", r>> \in H <=> HeldBy(r, c)
                         /\ <<"caller", r>> \in H <=> Cancelling(r, c)
                         /\ <<"reaper", r>> \in H <=> Expired(r, c)
  /\ \A d \in Clients : /\ <<"reader", d>> \in H <=> Freeing(d, c)
                        /\ <<"sched", d>> \in H <=> d = c /\ Carried(c)

(* SlotHolders(c) lists the holders. *)
LEMMA HoldersList == \A c \in Clients : Lists(SlotHolders(c), c)
<1> SUFFICES ASSUME NEW c \in Clients PROVE Lists(SlotHolders(c), c)
  OBVIOUS
<1> DEFINE J == {<<"job", r>> : r \in {r \in Requests : HeldBy(r, c)}}
           A == {<<"caller", r>> : r \in {r \in Requests : Cancelling(r, c)}}
           E == {<<"reaper", r>> : r \in {r \in Requests : Expired(r, c)}}
           R == {<<"reader", d>> : d \in {d \in Clients : Freeing(d, c)}}
           S == {<<"sched", d>> : d \in {d \in {c} : Carried(c)}}
<1>1. SlotHolders(c) = J \cup A \cup E \cup R \cup S
  BY DEF SlotHolders, Cancelling, Expired, Freeing, Carried
<1>2. J \subseteq Tokens /\ \A r \in Requests : <<"job", r>> \in J <=> HeldBy(r, c)
  BY DEF Tokens
<1>3. A \subseteq Tokens /\ \A r \in Requests : <<"caller", r>> \in A <=> Cancelling(r, c)
  BY DEF Tokens
<1>4. E \subseteq Tokens /\ \A r \in Requests : <<"reaper", r>> \in E <=> Expired(r, c)
  BY DEF Tokens
<1>5. R \subseteq Tokens /\ \A d \in Clients : <<"reader", d>> \in R <=> Freeing(d, c)
  BY DEF Tokens
<1>6. S \subseteq Tokens /\ \A d \in Clients : <<"sched", d>> \in S <=> d = c /\ Carried(c)
  BY DEF Tokens
<1>7. SlotHolders(c) \subseteq Tokens
  BY <1>1, <1>2, <1>3, <1>4, <1>5, <1>6
<1>8. /\ \A p \in J : p[1] = "job"
      /\ \A p \in A : p[1] = "caller"
      /\ \A p \in E : p[1] = "reaper"
      /\ \A p \in R : p[1] = "reader"
      /\ \A p \in S : p[1] = "sched"
  OBVIOUS
<1> HIDE DEF J, A, E, R, S
<1>9. \A p : p \in SlotHolders(c) => \/ p \in J \/ p \in A \/ p \in E \/ p \in R \/ p \in S
  BY <1>1
<1>10. \A r \in Requests : /\ <<"job", r>> \in SlotHolders(c) <=> HeldBy(r, c)
                           /\ <<"caller", r>> \in SlotHolders(c) <=> Cancelling(r, c)
                           /\ <<"reaper", r>> \in SlotHolders(c) <=> Expired(r, c)
  <2> SUFFICES ASSUME NEW r \in Requests
               PROVE  /\ <<"job", r>> \in SlotHolders(c) <=> HeldBy(r, c)
                      /\ <<"caller", r>> \in SlotHolders(c) <=> Cancelling(r, c)
                      /\ <<"reaper", r>> \in SlotHolders(c) <=> Expired(r, c)
    OBVIOUS
  <2>1. <<"job", r>>[1] = "job" /\ <<"caller", r>>[1] = "caller" /\ <<"reaper", r>>[1] = "reaper"
    OBVIOUS
  <2> QED
    BY <1>1, <1>2, <1>3, <1>4, <1>8, <1>9, <2>1
<1>11. \A d \in Clients : /\ <<"reader", d>> \in SlotHolders(c) <=> Freeing(d, c)
                          /\ <<"sched", d>> \in SlotHolders(c) <=> d = c /\ Carried(c)
  <2> SUFFICES ASSUME NEW d \in Clients
               PROVE  /\ <<"reader", d>> \in SlotHolders(c) <=> Freeing(d, c)
                      /\ <<"sched", d>> \in SlotHolders(c) <=> d = c /\ Carried(c)
    OBVIOUS
  <2>1. <<"reader", d>>[1] = "reader" /\ <<"sched", d>>[1] = "sched"
    OBVIOUS
  <2> QED
    BY <1>1, <1>5, <1>6, <1>8, <1>9, <2>1
<1> QED
  BY <1>7, <1>10, <1>11 DEF Lists

(* A set of tokens that lists the holders is the set of holders. *)
LEMMA HoldersAre == \A c \in Clients : \A H : Lists(H, c) => H = SlotHolders(c)
<1> SUFFICES ASSUME NEW c \in Clients, NEW H, Lists(H, c)
             PROVE  H = SlotHolders(c)
  OBVIOUS
<1>1. Lists(SlotHolders(c), c)
  BY HoldersList
<1>2. ASSUME NEW p \in Tokens PROVE p \in H <=> p \in SlotHolders(c)
  <2>1. CASE p \in {"job", "caller", "reaper"} \X Requests
    <3>1. PICK k \in {"job", "caller", "reaper"}, r \in Requests : p = <<k, r>>
      BY <2>1
    <3> QED
      BY <1>1, <3>1 DEF Lists
  <2>2. CASE p \in {"reader", "sched"} \X Clients
    <3>1. PICK k \in {"reader", "sched"}, d \in Clients : p = <<k, d>>
      BY <2>2
    <3> QED
      BY <1>1, <3>1 DEF Lists
  <2> QED
    BY <2>1, <2>2 DEF Tokens
<1>3. H \subseteq Tokens /\ SlotHolders(c) \subseteq Tokens
  BY <1>1 DEF Lists
<1> QED
  BY <1>2, <1>3

(* Both, for the state after a step. *)
LEMMA HoldersNext ==
  /\ \A c \in Clients : Lists(SlotHolders(c), c)'
  /\ \A c \in Clients : \A H : Lists(H, c)' => H = SlotHolders(c)'
<1>1. (\A c \in Clients : Lists(SlotHolders(c), c))'
  BY HoldersList, PTL
<1>2. (\A c \in Clients : \A H : Lists(H, c) => H = SlotHolders(c))'
  BY HoldersAre, PTL
<1> QED
  BY <1>1, <1>2

(* There are finitely many holders. *)
LEMMA HoldersFinite ==
  /\ IsFiniteSet(Tokens)
  /\ \A H : H \subseteq Tokens => IsFiniteSet(H) /\ Cardinality(H) \in Nat
<1>1. IsFiniteSet(Requests) /\ IsFiniteSet(Clients)
  BY DispatchAssumption
<1>2. IsFiniteSet({"job", "caller", "reaper"}) /\ IsFiniteSet({"reader", "sched"})
  <2>1. IsFiniteSet({"job"}) /\ IsFiniteSet({"reader"})
    BY FS_Singleton
  <2>2. IsFiniteSet({"job"} \cup {"caller"}) /\ IsFiniteSet({"reader"} \cup {"sched"})
    BY <2>1, FS_AddElement
  <2>3. IsFiniteSet(({"job"} \cup {"caller"}) \cup {"reaper"})
    BY <2>2, FS_AddElement
  <2>4. ({"job"} \cup {"caller"}) \cup {"reaper"} = {"job", "caller", "reaper"}
    OBVIOUS
  <2>5. {"reader"} \cup {"sched"} = {"reader", "sched"}
    OBVIOUS
  <2> QED
    BY <2>2, <2>3, <2>4, <2>5
<1>3. /\ IsFiniteSet({"job", "caller", "reaper"} \X Requests)
      /\ IsFiniteSet({"reader", "sched"} \X Clients)
  BY <1>1, <1>2, FS_Product
<1>4. IsFiniteSet(Tokens)
  BY <1>3, FS_Union DEF Tokens
<1> QED
  BY <1>4, FS_Subset, FS_CardinalityType

-----------------------------------------------------------------------------
(* A client nobody has seen yet holds nothing; one in the registry has every
   holder counted, and nothing else unless a batch handler pushed again. *)
SlotOK(c) ==
  /\ conn[c] = "off" => SlotHolders(c) = {} /\ inFlight[c] = 0
  /\ Connected(c) => /\ inFlight[c] >= Cardinality(SlotHolders(c))
                     /\ NoBatch => inFlight[c] = Cardinality(SlotHolders(c))

SlotInv == \A c \in Clients : SlotOK(c)

(* The scheduler has room for, and deals with, only clients that have connected. *)
KnownInv == \A c \in Clients : conn[c] = "off" => sched.room[c] <= 0 /\ sched.client # c

(* What a step may do to the slots of c. *)
Balanced(c) ==
  \/ conn[c] = "gone"
  \/ SlotHolders(c)' = SlotHolders(c) /\ inFlight'[c] = inFlight[c]
  \/ /\ Connected(c)
     /\ inFlight'[c] - inFlight[c] = Cardinality(SlotHolders(c)') - Cardinality(SlotHolders(c))
  \/ ~ NoBatch' /\ SlotHolders(c)' \subseteq SlotHolders(c) /\ inFlight'[c] = inFlight[c]

(* A step after which every client has as many slots counted as holders keeps SlotInv. *)
LEMMA BalancedKeeps ==
  ASSUME TypeInv, TypeInv', NEW c \in Clients, SlotOK(c), Balanced(c), NoBatch' => NoBatch,
         conn[c] = "gone" => conn'[c] = "gone", conn'[c] = "off" => conn[c] = "off"
  PROVE  SlotOK(c)'
<1> DEFINE n == Cardinality(SlotHolders(c))
           m == Cardinality(SlotHolders(c)')
<1>1. SlotHolders(c) \subseteq Tokens /\ SlotHolders(c)' \subseteq Tokens
  BY HoldersList, HoldersNext DEF Lists
<1>2. n \in Nat /\ m \in Nat /\ IsFiniteSet(SlotHolders(c))
  BY <1>1, HoldersFinite
<1>3. inFlight[c] \in Int /\ inFlight'[c] \in Int
  BY DEF TypeInv, TypeOK
<1>4. SlotHolders(c)' \subseteq SlotHolders(c) => m <= n
  BY <1>2, FS_Subset
<1>5. SlotHolders(c)' = {} => m = 0
  BY FS_EmptySet
<1>6. SlotHolders(c) = {} => n = 0
  BY FS_EmptySet
<1>7. SlotHolders(c)' = SlotHolders(c) => m = n
  OBVIOUS
<1> HIDE DEF n, m
<1>8. Connected(c) => inFlight[c] >= n /\ (NoBatch => inFlight[c] = n)
  BY DEF SlotOK, n
<1>9. Connected(c)' => conn[c] = "off" \/ Connected(c)
  BY DEF Connected
<1>10. conn'[c] = "off" => SlotHolders(c)' = {} /\ inFlight'[c] = 0
  BY DEF Balanced, SlotOK, Connected
<1>11. Connected(c)' => inFlight'[c] >= m /\ (NoBatch' => inFlight'[c] = m)
  <2> HAVE Connected(c)'
  <2>1. CASE conn[c] = "off"
    <3>1. SlotHolders(c)' \subseteq {} /\ inFlight'[c] = 0
      BY <2>1 DEF Balanced, SlotOK, Connected
    <3> QED
      BY <3>1, <1>5
  <2>2. CASE Connected(c)
    <3>1. inFlight[c] >= n /\ (NoBatch => inFlight[c] = n)
      BY <2>2, <1>8
    <3>2. \/ m = n /\ inFlight'[c] = inFlight[c]
          \/ inFlight'[c] - inFlight[c] = m - n
          \/ ~ NoBatch' /\ m <= n /\ inFlight'[c] = inFlight[c]
      BY <2>2, <1>4, <1>7 DEF Balanced, Connected, n, m
    <3> QED
      BY <3>1, <3>2, <1>2, <1>3
  <2> QED
    BY <2>1, <2>2, <1>9
<1> QED
  BY <1>10, <1>11 DEF SlotOK, m

(* A slot changes hands. *)
LEMMA Moves ==
  ASSUME TypeInv, NEW c \in Clients, SlotOK(c), NEW H, H = SlotHolders(c), NEW p \in H,
         NEW q, q \notin H, Lists((H \ {p}) \cup {q}, c)', inFlight'[c] = inFlight[c]
  PROVE  Balanced(c)
<1>1. IsFiniteSet(H) /\ Cardinality(H) \in Nat
  BY HoldersList, HoldersFinite DEF Lists
<1>2. \A K : Lists(K, c)' => K = SlotHolders(c)'
  BY HoldersNext
<1>3. SlotHolders(c)' = (H \ {p}) \cup {q}
  BY <1>2
<1>4. IsFiniteSet(H \ {p}) /\ Cardinality(H \ {p}) = Cardinality(H) - 1
  BY <1>1, FS_RemoveElement
<1>5. Cardinality((H \ {p}) \cup {q}) = Cardinality(H \ {p}) + 1
  BY <1>4, FS_AddElement
<1>6. inFlight[c] \in Int
  BY DEF TypeInv, TypeOK
<1>7. conn[c] # "off"
  BY DEF SlotOK
<1> QED
  BY <1>1, <1>3, <1>4, <1>5, <1>6, <1>7 DEF Balanced, Connected

(* A slot is freed, by ID or by the connection itself. *)
LEMMA Frees ==
  ASSUME TypeInv, NEW c \in Clients, SlotOK(c), NEW H, H = SlotHolders(c), NEW p \in H,
         Lists(H \ {p}, c)', DecrById(c) \/ inFlight'[c] = inFlight[c] - 1
  PROVE  Balanced(c)
<1>1. IsFiniteSet(H) /\ Cardinality(H) \in Nat
  BY HoldersList, HoldersFinite DEF Lists
<1>2. \A K : Lists(K, c)' => K = SlotHolders(c)'
  BY HoldersNext
<1>3. SlotHolders(c)' = H \ {p}
  BY <1>2
<1>4. Cardinality(H \ {p}) = Cardinality(H) - 1
  BY <1>1, FS_RemoveElement
<1>5. inFlight \in [Clients -> Int]
  BY DEF TypeInv, TypeOK
<1>6. conn[c] # "off"
  BY DEF SlotOK
<1>7. conn[c] = "gone" \/ inFlight'[c] = inFlight[c] - 1
  BY <1>5, <1>6 DEF DecrById, Connected
<1> QED
  BY <1>1, <1>3, <1>4, <1>5, <1>6, <1>7 DEF Balanced, Connected

(* Nothing happens to the slots of c. *)
SameJobs(c) == \A r \in Requests : HeldBy(r, c)' <=> HeldBy(r, c)
SameCancelling(c) == \A r \in Requests : Cancelling(r, c)' <=> Cancelling(r, c)
SameExpired(c) == \A r \in Requests : Expired(r, c)' <=> Expired(r, c)
SameFreeing(c) == \A d \in Clients : Freeing(d, c)' <=> Freeing(d, c)
SameCarried(c) == Carried(c)' <=> Carried(c)

(* A step that changes neither a counter nor a holder keeps the balance. *)
LEMMA Keeps ==
  ASSUME NEW c \in Clients, inFlight'[c] = inFlight[c],
         SameJobs(c), SameCancelling(c), SameExpired(c), SameFreeing(c), SameCarried(c)
  PROVE  Balanced(c)
<1>1. Lists(SlotHolders(c), c)
  BY HoldersList
<1>2. PICK H : H = SlotHolders(c)
  OBVIOUS
<1>3. Lists(H, c)'
  BY <1>1, <1>2 DEF Lists, SameJobs, SameCancelling, SameExpired, SameFreeing, SameCarried
<1> QED
  BY <1>2, <1>3, HoldersNext DEF Balanced

(* A slot is taken. *)
LEMMA Takes ==
  ASSUME TypeInv, NEW c \in Clients, NEW H, H = SlotHolders(c), NEW q, q \notin H,
         Lists(H \cup {q}, c)', conn[c] # "off", Connected(c) => inFlight'[c] = inFlight[c] + 1
  PROVE  Balanced(c)
<1>1. IsFiniteSet(H) /\ Cardinality(H) \in Nat
  BY HoldersList, HoldersFinite DEF Lists
<1>2. \A K : Lists(K, c)' => K = SlotHolders(c)'
  BY HoldersNext
<1>3. SlotHolders(c)' = H \cup {q}
  BY <1>2
<1>4. Cardinality(H \cup {q}) = Cardinality(H) + 1
  BY <1>1, FS_AddElement
<1>5. inFlight[c] \in Int
  BY DEF TypeInv, TypeOK
<1> QED
  BY <1>1, <1>3, <1>4, <1>5 DEF Balanced, Connected
-----------------------------------------------------------------------------
(* Who hands a slot to whom *)

(* A cancelling handler takes the job and owes its slot (hub.go, CancelRequest). *)
LEMMA JobToCaller ==
  ASSUME TypeInv, NEW c \in Clients, SlotOK(c), NEW r \in Requests, NEW s \in Requests,
         HeldBy(r, c), \A x \in Requests : HeldBy(x, c)' <=> HeldBy(x, c) /\ x # r,
         ~ Cancelling(s, c), \A x \in Requests : Cancelling(x, c)' <=> Cancelling(x, c) \/ x = s,
         SameExpired(c), SameFreeing(c), SameCarried(c),
         inFlight'[c] = inFlight[c]
  PROVE  Balanced(c)
<1>1. PICK H : H = SlotHolders(c) /\ Lists(H, c)
  BY HoldersList
<1>2. Lists((H \ {<<"job", r>>}) \cup {<<"caller", s>>}, c)'
  BY <1>1 DEF Lists, Tokens, SameExpired, SameFreeing, SameCarried
<1>3. <<"job", r>> \in H /\ <<"caller", s>> \notin H
  BY <1>1 DEF Lists
<1> QED
  BY <1>1, <1>2, <1>3, Moves

(* A reader takes the job and owes its slot (hub.go:648-729, 383-434). *)
LEMMA JobToReader ==
  ASSUME TypeInv, NEW c \in Clients, SlotOK(c), NEW r \in Requests, NEW d \in Clients,
         HeldBy(r, c), \A x \in Requests : HeldBy(x, c)' <=> HeldBy(x, c) /\ x # r,
         ~ Freeing(d, c), \A x \in Clients : Freeing(x, c)' <=> Freeing(x, c) \/ x = d,
         SameCancelling(c), SameExpired(c), SameCarried(c),
         inFlight'[c] = inFlight[c]
  PROVE  Balanced(c)
<1>1. PICK H : H = SlotHolders(c) /\ Lists(H, c)
  BY HoldersList
<1>2. Lists((H \ {<<"job", r>>}) \cup {<<"reader", d>>}, c)'
  BY <1>1 DEF Lists, Tokens, SameCancelling, SameExpired, SameCarried
<1>3. <<"job", r>> \in H /\ <<"reader", d>> \notin H
  BY <1>1 DEF Lists
<1> QED
  BY <1>1, <1>2, <1>3, Moves

(* The scheduler takes back a job it could not send (scheduler.go:470-481). *)
LEMMA JobToSched ==
  ASSUME TypeInv, NEW c \in Clients, SlotOK(c), NEW r \in Requests,
         HeldBy(r, c), \A x \in Requests : HeldBy(x, c)' <=> HeldBy(x, c) /\ x # r,
         ~ Carried(c), Carried(c)',
         SameCancelling(c), SameExpired(c), SameFreeing(c),
         inFlight'[c] = inFlight[c]
  PROVE  Balanced(c)
<1>1. PICK H : H = SlotHolders(c) /\ Lists(H, c)
  BY HoldersList
<1>2. Lists((H \ {<<"job", r>>}) \cup {<<"sched", c>>}, c)'
  BY <1>1 DEF Lists, Tokens, SameCancelling, SameExpired, SameFreeing
<1>3. <<"job", r>> \in H /\ <<"sched", c>> \notin H
  BY <1>1 DEF Lists
<1> QED
  BY <1>1, <1>2, <1>3, Moves

(* The scheduler tracks the job it has counted (hub.go:1230-1259). *)
LEMMA SchedToJob ==
  ASSUME TypeInv, NEW c \in Clients, SlotOK(c), NEW r \in Requests,
         Carried(c), ~ Carried(c)',
         ~ HeldBy(r, c), \A x \in Requests : HeldBy(x, c)' <=> HeldBy(x, c) \/ x = r,
         SameCancelling(c), SameExpired(c), SameFreeing(c),
         inFlight'[c] = inFlight[c]
  PROVE  Balanced(c)
<1>1. PICK H : H = SlotHolders(c) /\ Lists(H, c)
  BY HoldersList
<1>2. Lists((H \ {<<"sched", c>>}) \cup {<<"job", r>>}, c)'
  BY <1>1 DEF Lists, Tokens, SameCancelling, SameExpired, SameFreeing
<1>3. <<"sched", c>> \in H /\ <<"job", r>> \notin H
  BY <1>1 DEF Lists
<1> QED
  BY <1>1, <1>2, <1>3, Moves

(* A cancelling handler frees the slot (hub.go, CancelRequest). *)
LEMMA CallerFrees ==
  ASSUME TypeInv, NEW c \in Clients, SlotOK(c), NEW s \in Requests,
         Cancelling(s, c), \A x \in Requests : Cancelling(x, c)' <=> Cancelling(x, c) /\ x # s,
         SameJobs(c), SameExpired(c), SameFreeing(c), SameCarried(c),
         DecrById(c)
  PROVE  Balanced(c)
<1>1. PICK H : H = SlotHolders(c) /\ Lists(H, c)
  BY HoldersList
<1>2. Lists(H \ {<<"caller", s>>}, c)'
  BY <1>1 DEF Lists, Tokens, SameJobs, SameExpired, SameFreeing, SameCarried
<1>3. <<"caller", s>> \in H
  BY <1>1 DEF Lists
<1> QED
  BY <1>1, <1>2, <1>3, Frees

(* The lease reaper frees the slot (hub.go, handleExpiredLeases). *)
LEMMA ReaperFrees ==
  ASSUME TypeInv, NEW c \in Clients, SlotOK(c), NEW r \in Requests,
         Expired(r, c), \A x \in Requests : Expired(x, c)' <=> Expired(x, c) /\ x # r,
         SameJobs(c), SameCancelling(c), SameFreeing(c), SameCarried(c),
         DecrById(c)
  PROVE  Balanced(c)
<1>1. PICK H : H = SlotHolders(c) /\ Lists(H, c)
  BY HoldersList
<1>2. Lists(H \ {<<"reaper", r>>}, c)'
  BY <1>1 DEF Lists, Tokens, SameJobs, SameCancelling, SameFreeing, SameCarried
<1>3. <<"reaper", r>> \in H
  BY <1>1 DEF Lists
<1> QED
  BY <1>1, <1>2, <1>3, Frees

(* A reader frees the slot (hub.go:1200-1221). *)
LEMMA ReaderFrees ==
  ASSUME TypeInv, NEW c \in Clients, SlotOK(c), NEW d \in Clients,
         Freeing(d, c), \A x \in Clients : Freeing(x, c)' <=> Freeing(x, c) /\ x # d,
         SameJobs(c), SameCancelling(c), SameExpired(c), SameCarried(c),
         DecrById(c) \/ inFlight'[c] = inFlight[c] - 1
  PROVE  Balanced(c)
<1>1. PICK H : H = SlotHolders(c) /\ Lists(H, c)
  BY HoldersList
<1>2. Lists(H \ {<<"reader", d>>}, c)'
  BY <1>1 DEF Lists, Tokens, SameJobs, SameCancelling, SameExpired, SameCarried
<1>3. <<"reader", d>> \in H
  BY <1>1 DEF Lists
<1> QED
  BY <1>1, <1>2, <1>3, Frees

(* The scheduler frees the slot of a job it could not send (scheduler.go:481-486). *)
LEMMA SchedFrees ==
  ASSUME TypeInv, NEW c \in Clients, SlotOK(c),
         Carried(c), ~ Carried(c)',
         SameJobs(c), SameCancelling(c), SameExpired(c), SameFreeing(c),
         DecrById(c)
  PROVE  Balanced(c)
<1>1. PICK H : H = SlotHolders(c) /\ Lists(H, c)
  BY HoldersList
<1>2. Lists(H \ {<<"sched", c>>}, c)'
  BY <1>1 DEF Lists, Tokens, SameJobs, SameCancelling, SameExpired, SameFreeing
<1>3. <<"sched", c>> \in H
  BY <1>1 DEF Lists
<1> QED
  BY <1>1, <1>2, <1>3, Frees

(* The scheduler counts the job it has popped (scheduler.go:453). *)
LEMMA SchedTakes ==
  ASSUME TypeInv, NEW c \in Clients, SlotOK(c),
         ~ Carried(c), Carried(c)',
         SameJobs(c), SameCancelling(c), SameExpired(c), SameFreeing(c),
         conn[c] # "off", Connected(c) => inFlight'[c] = inFlight[c] + 1
  PROVE  Balanced(c)
<1>1. PICK H : H = SlotHolders(c) /\ Lists(H, c)
  BY HoldersList
<1>2. Lists(H \cup {<<"sched", c>>}, c)'
  BY <1>1 DEF Lists, Tokens, SameJobs, SameCancelling, SameExpired, SameFreeing
<1>3. <<"sched", c>> \notin H
  BY <1>1 DEF Lists
<1> QED
  BY <1>1, <1>2, <1>3, Takes

-----------------------------------------------------------------------------
(* What leaves the holders alone. *)
LEMMA SameSlots ==
  ASSUME NEW c \in Clients
  PROVE  /\ jobs' = jobs => SameJobs(c)
         /\ caller' = caller => SameCancelling(c)
         /\ reaper' = reaper => SameExpired(c)
         /\ reader' = reader => SameFreeing(c)
         /\ sched' = sched => SameCarried(c)
BY DEF SameJobs, HeldBy, SameCancelling, Cancelling, SameExpired, Expired, SameFreeing, Freeing,
       SameCarried, Carried

(* Taking a record takes it from its client only (hub.go:1268-1282). *)
LEMMA UntrackHolds ==
  ASSUME TypeInv, NEW r \in Requests, jobs[r] # None, Untrack(r)
  PROVE  /\ \A x \in Requests, c \in Clients : HeldBy(x, c)' <=> HeldBy(x, c) /\ x # r
         /\ \A c \in Clients : jobs[r].client # c => SameJobs(c)
<1>1. jobs \in [Requests -> Jobs \cup {None}]
  BY DEF TypeInv, TypeOK
<1>2. \A x \in Requests : jobs'[x] = IF x = r THEN None ELSE jobs[x]
  BY <1>1 DEF Untrack
<1>3. \A x \in Requests, c \in Clients : HeldBy(x, c)' <=> HeldBy(x, c) /\ x # r
  BY <1>2 DEF HeldBy
<1> QED
  BY <1>3 DEF SameJobs, HeldBy

(* A step of one connection's goroutine that neither takes nor frees a slot. *)
LEMMA SameReader ==
  ASSUME TypeInv, NEW d \in Clients, NEW x, reader' = [reader EXCEPT ![d] = x],
         reader[d].pc \notin {"decr", "free"}, x.pc \notin {"decr", "free"}, NEW c \in Clients
  PROVE  SameFreeing(c)
<1>1. \A e \in Clients : reader'[e] = IF e = d THEN x ELSE reader[e]
  BY DEF TypeInv, TypeOK
<1> QED
  BY <1>1 DEF SameFreeing, Freeing

(* A handler takes and frees the slot of its own job only (handler.go, cancelRequest;
   hub.go, CancelRequest). *)
LEMMA HandlerSlots ==
  ASSUME TypeInv, NEW s \in Requests, Handler(s), NEW c \in Clients, SlotOK(c)
  PROVE  Balanced(c)
<1>t. /\ caller \in [Requests -> CallerStates] /\ jobs \in [Requests -> Jobs \cup {None}]
      /\ inFlight \in [Clients -> Int]
  BY DEF TypeInv, TypeOK
<1>f. reader' = reader /\ reaper' = reaper /\ sched' = sched /\ conn' = conn
  BY DEF Handler, Enqueue, ReadChunk, GiveUp, BatchTimeout, CancelUntrack, CancelFree, AfterCancel,
         hubVars
<1>g. SameExpired(c) /\ SameFreeing(c) /\ SameCarried(c)
  BY <1>f, SameSlots
<1>1. CASE /\ caller[s].pc # "free" /\ jobs' = jobs /\ inFlight' = inFlight
           /\ \E x : x.pc # "free" /\ caller' = [caller EXCEPT ![s] = x]
  <2>1. SameCancelling(c)
    BY <1>1, <1>t DEF SameCancelling, Cancelling
  <2> QED
    BY <1>1, <1>g, <2>1, SameSlots, Keeps
<1>2. CASE CancelUntrack(s)
  <2>1. CASE jobs[s] # None
    <3>1. jobs[s] \in Jobs /\ Untrack(s) /\ inFlight' = inFlight
      BY <1>2, <2>1, <1>t DEF CancelUntrack
    <3>2. PICK d \in Clients : d = jobs[s].client
      BY <3>1 DEF Jobs
    <3> DEFINE x == [caller[s] EXCEPT !.pc = "free", !.client = d]
    <3>3. caller' = [caller EXCEPT ![s] = x] /\ caller[s].pc = "cancel"
      BY <1>2, <2>1, <3>2, <1>t DEF CancelUntrack
    <3>4. x.pc = "free" /\ x.client = d
      BY <1>t DEF CallerStates
    <3> HIDE DEF x
    <3>5. \A r \in Requests : Cancelling(r, c)' <=> Cancelling(r, c) \/ (r = s /\ c = d)
      BY <3>3, <3>4, <1>t DEF Cancelling
    <3>6. ~ Cancelling(s, c)
      BY <3>3 DEF Cancelling
    <3>7. \A r \in Requests : HeldBy(r, c)' <=> HeldBy(r, c) /\ r # s
      BY <2>1, <3>1, UntrackHolds
    <3>8. CASE c = d
      <4>1. HeldBy(s, c)
        BY <2>1, <3>2, <3>8 DEF HeldBy
      <4>2. \A r \in Requests : Cancelling(r, c)' <=> Cancelling(r, c) \/ r = s
        BY <3>5, <3>8
      <4>3. inFlight'[c] = inFlight[c]
        BY <3>1
      <4> QED
        BY <1>g, <3>6, <3>7, <4>1, <4>2, <4>3, JobToCaller
    <3>9. CASE c # d
      <4>1. SameCancelling(c)
        BY <3>5, <3>9 DEF SameCancelling
      <4>2. SameJobs(c)
        BY <2>1, <3>1, <3>2, <3>9, UntrackHolds
      <4> QED
        BY <1>g, <3>1, <4>1, <4>2, Keeps
    <3> QED
      BY <3>8, <3>9
  <2>2. CASE jobs[s] = None
    <3> DEFINE x == [caller[s] EXCEPT !.pc = "after"]
    <3>1. /\ caller[s].pc = "cancel" /\ jobs' = jobs /\ inFlight' = inFlight
          /\ caller' = [caller EXCEPT ![s] = x]
      BY <1>2, <2>2 DEF CancelUntrack
    <3>2. x.pc # "free"
      BY <1>t DEF CallerStates
    <3> QED
      BY <1>1, <3>1, <3>2
  <2> QED
    BY <2>1, <2>2
<1>3. CASE CancelFree(s)
  <2>1. PICK d \in Clients : d = caller[s].client
    BY <1>3 DEF CancelFree, TypeInv, CallerLocals
  <2> DEFINE x == [caller[s] EXCEPT !.pc = "after", !.client = None]
  <2>2. /\ caller[s].pc = "free" /\ jobs' = jobs /\ DecrById(d)
        /\ caller' = [caller EXCEPT ![s] = x]
    BY <1>3, <2>1, <1>t DEF CancelFree
  <2>3. x.pc = "after"
    BY <1>t DEF CallerStates
  <2> HIDE DEF x
  <2>4. \A r \in Requests : Cancelling(r, c)' <=> Cancelling(r, c) /\ r # s
    BY <2>2, <2>3, <1>t DEF Cancelling
  <2>5. SameJobs(c)
    BY <2>2, SameSlots
  <2>6. CASE c = d
    <3>1. Cancelling(s, c)
      BY <2>1, <2>2, <2>6 DEF Cancelling
    <3>2. DecrById(c)
      BY <2>2, <2>6
    <3> QED
      BY <1>g, <2>4, <2>5, <3>1, <3>2, CallerFrees
  <2>7. CASE c # d
    <3>1. SameCancelling(c)
      BY <2>1, <2>4, <2>7 DEF SameCancelling, Cancelling
    <3>2. inFlight'[c] = inFlight[c]
      BY <2>2, <2>7, <1>t DEF DecrById
    <3> QED
      BY <1>g, <2>5, <3>1, <3>2, Keeps
  <2> QED
    BY <2>6, <2>7
<1>4. CASE \/ \E kind \in Kinds : Enqueue(s, kind)
           \/ GiveUp(s) \/ BatchTimeout(s)
  <2>1. /\ caller[s].pc # "free" /\ jobs' = jobs /\ inFlight' = inFlight
        /\ \E x : caller' = [caller EXCEPT ![s] = x]
    BY <1>4 DEF Enqueue, GiveUp, BatchTimeout, hubVars
  <2>2. caller'[s].pc # "free"
    BY <1>4, <1>t DEF Enqueue, GiveUp, BatchTimeout, CallerStates
  <2> QED
    BY <1>1, <1>t, <2>1, <2>2
<1>5. CASE ReadChunk(s) \/ AfterCancel(s)
  <2>1. /\ caller[s].pc # "free" /\ jobs' = jobs /\ inFlight' = inFlight
        /\ \E x : caller' = [caller EXCEPT ![s] = x]
    BY <1>5, <1>t DEF ReadChunk, AfterCancel, hubVars
  <2>2. caller'[s].pc # "free"
    BY <1>5, <1>t DEF ReadChunk, AfterCancel, CallerStates
  <2> QED
    BY <1>1, <1>t, <2>1, <2>2
<1> QED
  BY <1>2, <1>3, <1>4, <1>5 DEF Handler

-----------------------------------------------------------------------------
(* A dispatch counts a slot before it tracks the job and uncounts it after it has
   taken the job back; a tracked batch job it overwrites leaves its slot counted
   (scheduler.go:444-486, hub.go:1200-1282). *)
LEMMA SchedSlots ==
  ASSUME TypeInv, PlaceInv, KnownInv, SchedStep, NEW c \in Clients, SlotOK(c)
  PROVE  Balanced(c)
<1>t. /\ sched \in SchedStates /\ jobs \in [Requests -> Jobs \cup {None}]
      /\ inFlight \in [Clients -> Int]
  BY DEF TypeInv, TypeOK
<1>f. reader' = reader /\ reaper' = reaper /\ caller' = caller /\ conn' = conn
  BY DEF SchedStep, DrainOnSignal, DrainOnTick, Pick, PopAndCount, TrackJob, SendJob, SendFails,
         SchedUntrack, SchedUncount, SchedRequeue, hubVars
<1>g. SameExpired(c) /\ SameFreeing(c) /\ SameCancelling(c)
  BY <1>f, SameSlots
<1>h. IdleSched.pc = "idle"
  BY DEF IdleSched
<1>1. CASE /\ jobs' = jobs /\ inFlight' = inFlight
           /\ sched.pc \notin {"track", "uncount"} /\ sched'.pc \notin {"track", "uncount"}
  <2>1. SameCarried(c)
    BY <1>1 DEF SameCarried, Carried
  <2> QED
    BY <1>1, <1>g, <2>1, SameSlots, Keeps
<1>2. CASE DrainOnSignal \/ DrainOnTick
  <2>1. sched'.pc \in {"idle", "pick"}
    BY <1>2, <1>h DEF DrainOnSignal, DrainOnTick, StartDrain, IdleSched
  <2>2. jobs' = jobs /\ inFlight' = inFlight /\ sched.pc = "idle"
    BY <1>2 DEF DrainOnSignal, DrainOnTick, hubVars
  <2> QED
    BY <1>1, <2>1, <2>2
<1>3. CASE Pick \/ SendJob \/ SendFails \/ SchedRequeue
  <2>1. sched'.pc \in {"idle", "pop", "pick", "untrack"}
    BY <1>3, <1>h, <1>t DEF Pick, SendJob, SendFails, SchedRequeue, SchedStates
  <2>2. jobs' = jobs /\ inFlight' = inFlight /\ sched.pc \in {"pick", "send", "push"}
    BY <1>3 DEF Pick, SendJob, SendFails, SchedRequeue, hubVars
  <2> QED
    BY <1>1, <2>1, <2>2
<1>4. CASE PopAndCount
  <2>1. PICK r \in Requests, d \in Clients : sched.req = r /\ sched.client = d
    BY <1>4 DEF PopAndCount, TypeInv, SchedLocals
  <2>2. CASE queue[r] = None
    <3>1. sched'.pc \in {"idle", "pick"}
      BY <1>4, <1>h, <1>t, <2>1, <2>2 DEF PopAndCount, SchedStates
    <3>2. jobs' = jobs /\ inFlight' = inFlight /\ sched.pc = "pop"
      BY <1>4, <2>1, <2>2 DEF PopAndCount
    <3> QED
      BY <1>1, <3>1, <3>2
  <2>3. CASE queue[r] # None
    <3>1. /\ jobs' = jobs /\ sched.pc = "pop"
          /\ inFlight' = IF Connected(d) THEN [inFlight EXCEPT ![d] = @ + 1] ELSE inFlight
      BY <1>4, <2>1, <2>3 DEF PopAndCount
    <3>2. sched'.pc = "track" /\ sched'.client = d
      BY <1>4, <1>t, <2>1, <2>3 DEF PopAndCount, SchedStates
    <3>3. SameJobs(c)
      BY <3>1, SameSlots
    <3>4. CASE c = d
      <4>1. ~ Carried(c) /\ Carried(c)'
        BY <3>1, <3>2, <3>4 DEF Carried
      <4>2. conn[c] # "off"
        BY <2>1, <3>4 DEF KnownInv
      <4>3. Connected(c) => inFlight'[c] = inFlight[c] + 1
        BY <3>1, <3>4, <1>t
      <4> QED
        BY <1>g, <3>3, <4>1, <4>2, <4>3, SchedTakes
    <3>5. CASE c # d
      <4>1. SameCarried(c)
        BY <2>1, <3>1, <3>2, <3>5 DEF SameCarried, Carried
      <4>2. inFlight'[c] = inFlight[c]
        BY <3>1, <3>5, <1>t
      <4> QED
        BY <1>g, <3>3, <4>1, <4>2, Keeps
    <3> QED
      BY <3>4, <3>5
  <2> QED
    BY <2>2, <2>3
<1>5. CASE TrackJob
  <2>1. PICK r \in Requests, d \in Clients : sched.req = r /\ sched.client = d
    BY <1>5 DEF TrackJob, TypeInv, SchedLocals
  <2>2. /\ sched.pc = "track" /\ sched'.pc \in {"send", "push"} /\ sched'.client = d
        /\ inFlight' = inFlight
    BY <1>5, <1>t, <2>1 DEF TrackJob, SchedStates
  <2>3. c # d => SameCarried(c)
    BY <2>1, <2>2 DEF SameCarried, Carried
  <2>4. CASE ~ Connected(d)
    <3>1. jobs' = jobs
      BY <1>5, <2>1, <2>4 DEF TrackJob
    <3>2. CASE c = d
      <4>1. conn[c] = "gone"
        BY <2>1, <2>4, <3>2 DEF KnownInv, Connected
      <4> QED
        BY <4>1 DEF Balanced
    <3>3. CASE c # d
      BY <1>g, <2>2, <2>3, <3>1, <3>3, SameSlots, Keeps
    <3> QED
      BY <3>2, <3>3
  <2>5. CASE Connected(d)
    <3> DEFINE j == [client |-> d, copy |-> sched.copy, produced |-> FALSE]
    <3>1. jobs' = [jobs EXCEPT ![r] = j]
      BY <1>5, <2>1, <2>5 DEF TrackJob
    <3>2. j # None
      <4>1. sched.copy \in Copies
        BY <2>2 DEF TypeInv, SchedLocals
      <4>2. j \in Jobs
        BY <4>1 DEF Jobs
      <4> QED
        BY <4>2, NoneAssumption
    <3>3. j.client = d
      OBVIOUS
    <3> HIDE DEF j
    <3>4. \A x \in Requests : HeldBy(x, c)' <=> \/ HeldBy(x, c) /\ x # r
                                                \/ x = r /\ c = d
      BY <3>1, <3>2, <3>3, <1>t DEF HeldBy
    <3>5. CASE jobs[r] = None
      <4>1. ~ HeldBy(r, c)
        BY <3>5 DEF HeldBy
      <4>2. CASE c = d
        <5>1. \A x \in Requests : HeldBy(x, c)' <=> HeldBy(x, c) \/ x = r
          BY <3>4, <4>1, <4>2
        <5>2. Carried(c) /\ ~ Carried(c)'
          BY <2>1, <2>2, <4>2 DEF Carried
        <5>3. inFlight'[c] = inFlight[c]
          BY <2>2
        <5> QED
          BY <1>g, <4>1, <5>1, <5>2, <5>3, SchedToJob
      <4>3. CASE c # d
        <5>1. SameJobs(c)
          BY <3>4, <4>1, <4>3 DEF SameJobs
        <5> QED
          BY <1>g, <2>2, <2>3, <4>3, <5>1, Keeps
      <4> QED
        BY <4>2, <4>3
    <3>6. CASE jobs[r] # None
      <4>1. IsBatch(r)
        BY <2>1, <2>2, <3>6 DEF PlaceInv, OnePlace, InTable, InHand
      <4>2. ~ NoBatch'
        BY <4>1, <1>f DEF NoBatch, IsBatch
      <4>3. CASE HeldBy(r, c) \/ c # d
        <5>1. \A x \in Requests : HeldBy(x, c)' => HeldBy(x, c)
          BY <3>4, <4>3
        <5>2. Carried(c)' => Carried(c)
          BY <2>2 DEF Carried
        <5>3. Lists(SlotHolders(c), c) /\ Lists(SlotHolders(c), c)'
          BY HoldersList, HoldersNext
        <5>4. ASSUME NEW p \in SlotHolders(c)' PROVE p \in SlotHolders(c)
          <6>1. p \in Tokens
            BY <5>3 DEF Lists
          <6>2. CASE p \in {"job", "caller", "reaper"} \X Requests
            <7>1. PICK k \in {"job", "caller", "reaper"}, x \in Requests : p = <<k, x>>
              BY <6>2
            <7> QED
              BY <1>g, <5>1, <5>3, <7>1 DEF Lists, SameCancelling, SameExpired
          <6>3. CASE p \in {"reader", "sched"} \X Clients
            <7>1. PICK k \in {"reader", "sched"}, e \in Clients : p = <<k, e>>
              BY <6>3
            <7> QED
              BY <1>g, <5>2, <5>3, <7>1 DEF Lists, SameFreeing
          <6> QED
            BY <6>1, <6>2, <6>3 DEF Tokens
        <5> QED
          BY <2>2, <4>2, <5>4 DEF Balanced
      <4>4. CASE ~ HeldBy(r, c) /\ c = d
        <5>1. \A x \in Requests : HeldBy(x, c)' <=> HeldBy(x, c) \/ x = r
          BY <3>4, <4>4
        <5>2. Carried(c) /\ ~ Carried(c)'
          BY <2>1, <2>2, <4>4 DEF Carried
        <5>3. inFlight'[c] = inFlight[c]
          BY <2>2
        <5> QED
          BY <1>g, <4>4, <5>1, <5>2, <5>3, SchedToJob
      <4> QED
        BY <4>3, <4>4
    <3> QED
      BY <3>5, <3>6
  <2> QED
    BY <2>4, <2>5
<1>6. CASE SchedUntrack
  <2>1. PICK r \in Requests, d \in Clients : sched.req = r /\ sched.client = d
    BY <1>6 DEF SchedUntrack, TypeInv, SchedLocals
  <2>2. sched.pc = "untrack" /\ inFlight' = inFlight
    BY <1>6 DEF SchedUntrack
  <2>3. CASE HeldBy(r, d)
    <3>1. Untrack(r) /\ sched' = [sched EXCEPT !.pc = "uncount"]
      BY <1>6, <2>1, <2>3 DEF SchedUntrack
    <3>2. jobs[r] # None /\ jobs[r].client = d
      BY <2>3 DEF HeldBy
    <3>3. \A x \in Requests : HeldBy(x, c)' <=> HeldBy(x, c) /\ x # r
      BY <3>1, <3>2, UntrackHolds
    <3>4. sched'.pc = "uncount" /\ sched'.client = d
      BY <1>t, <2>1, <3>1 DEF SchedStates
    <3>5. CASE c = d
      <4>1. ~ Carried(c) /\ Carried(c)'
        BY <2>2, <3>4, <3>5 DEF Carried
      <4>2. HeldBy(r, c) /\ inFlight'[c] = inFlight[c]
        BY <2>2, <2>3, <3>5
      <4> QED
        BY <1>g, <3>3, <4>1, <4>2, JobToSched
    <3>6. CASE c # d
      <4>1. SameCarried(c)
        BY <2>2, <3>4, <3>6 DEF SameCarried, Carried
      <4>2. SameJobs(c)
        BY <3>1, <3>2, <3>6, UntrackHolds
      <4> QED
        BY <1>g, <2>2, <4>1, <4>2, Keeps
    <3> QED
      BY <3>5, <3>6
  <2>4. CASE ~ HeldBy(r, d)
    <3>1. jobs' = jobs /\ sched' = IdleSched
      BY <1>6, <2>1, <2>4 DEF SchedUntrack
    <3> QED
      BY <1>1, <1>h, <2>2, <3>1
  <2> QED
    BY <2>3, <2>4
<1>7. CASE SchedUncount
  <2>1. PICK d \in Clients : sched.client = d
    BY <1>7 DEF SchedUncount, TypeInv, SchedLocals
  <2>2. sched.pc = "uncount" /\ jobs' = jobs /\ DecrById(d)
    BY <1>7, <2>1 DEF SchedUncount
  <2>3. sched'.pc = "push"
    BY <1>7, <1>t DEF SchedUncount, SchedStates
  <2>4. SameJobs(c)
    BY <2>2, SameSlots
  <2>5. CASE c = d
    <3>1. Carried(c) /\ ~ Carried(c)'
      BY <2>1, <2>2, <2>3, <2>5 DEF Carried
    <3>2. DecrById(c)
      BY <2>2, <2>5
    <3> QED
      BY <1>g, <2>4, <3>1, <3>2, SchedFrees
  <2>6. CASE c # d
    <3>1. SameCarried(c)
      BY <2>1, <2>3, <2>6 DEF SameCarried, Carried
    <3>2. inFlight'[c] = inFlight[c]
      BY <2>2, <2>6, <1>t DEF DecrById
    <3> QED
      BY <1>g, <2>4, <3>1, <3>2, Keeps
  <2> QED
    BY <2>5, <2>6
<1> QED
  BY <1>2, <1>3, <1>4, <1>5, <1>6, <1>7 DEF SchedStep

-----------------------------------------------------------------------------
(* A connection's goroutine frees the slot of each job it takes, on its own counter or
   by the ID of the job's client, and no other (hub.go:383-434, 1200-1293). *)
LEMMA HubSlots ==
  ASSUME TypeInv, OffInv, NEW d \in Clients, HubStep(d), NEW c \in Clients, SlotOK(c)
  PROVE  Balanced(c)
<1>t. /\ reader \in [Clients -> ReaderStates] /\ jobs \in [Requests -> Jobs \cup {None}]
      /\ inFlight \in [Clients -> Int]
  BY DEF TypeInv, TypeOK
<1>f. sched' = sched /\ reaper' = reaper /\ caller' = caller
  BY DEF HubStep, ReaderStep, Connect, MsgRegister, MsgDraining, MsgLocalBusy, Disconnect,
         ReaderDecr, ReaderAct, ReaderCancel, ReaderFree, RemoveClient, SnapshotOrphans,
         SweepOrphan, EndSweep
<1>g. SameExpired(c) /\ SameCarried(c) /\ SameCancelling(c)
  BY <1>f, SameSlots
<1>1. CASE /\ jobs' = jobs /\ inFlight' = inFlight /\ reader[d].pc \notin {"decr", "free"}
           /\ \E x : x.pc \notin {"decr", "free"} /\ reader' = [reader EXCEPT ![d] = x]
  <2>1. SameFreeing(c)
    BY <1>1, SameReader
  <2> QED
    BY <1>1, <1>g, <2>1, SameSlots, Keeps
<1>2. CASE \/ \E n \in 1..MaxSlots[d] : MsgRegister(d, n)
           \/ MsgDraining(d)
           \/ \E n \in LocalLoads : MsgLocalBusy(d, n)
  <2>1. jobs' = jobs /\ inFlight' = inFlight /\ reader' = reader
    BY <1>2 DEF MsgRegister, MsgDraining, MsgLocalBusy
  <2> QED
    BY <1>g, <2>1, SameSlots, Keeps
<1>3. CASE Connect(d) \/ Disconnect(d) \/ RemoveClient(d) \/ SnapshotOrphans(d) \/ EndSweep(d)
  <2>1. /\ jobs' = jobs /\ inFlight' = inFlight
        /\ \E x : reader' = [reader EXCEPT ![d] = x]
    BY <1>3 DEF Connect, Disconnect, RemoveClient, SnapshotOrphans, EndSweep, hubVars
  <2>2. reader[d].pc \in {"off", "read", "remove", "snapshot", "sweep"}
    BY <1>3 DEF Connect, Disconnect, RemoveClient, SnapshotOrphans, EndSweep, Reading, OffInv
  <2>3. reader'[d].pc \in {"read", "remove", "snapshot", "sweep", "off"}
    BY <1>3, <1>t DEF Connect, Disconnect, RemoveClient, SnapshotOrphans, EndSweep, IdleReader,
                      ReaderStates
  <2> QED
    BY <1>1, <1>t, <2>1, <2>2, <2>3
<1>4. CASE ReaderAct(d)
  <2>1. /\ jobs' = jobs /\ inFlight' = inFlight /\ reader[d].pc = "act"
        /\ \E x : reader' = [reader EXCEPT ![d] = x]
    BY <1>4 DEF ReaderAct, hubVars
  <2>2. Rest(d) \in ReaderStates /\ Rest(d).pc \in {"read", "sweep"}
    BY RestType
  <2>3. reader'[d].pc \in {"read", "sweep", "cancel"}
    <3> DEFINE x == [Rest(d) EXCEPT !.pc = "cancel", !.req = reader[d].req]
    <3>1. x.pc = "cancel"
      BY <2>2 DEF ReaderStates
    <3>2. reader' = [reader EXCEPT ![d] = Rest(d)] \/ reader' = [reader EXCEPT ![d] = x]
      BY <1>4 DEF ReaderAct
    <3> HIDE DEF x
    <3> QED
      BY <1>t, <2>2, <3>1, <3>2
  <2> QED
    BY <1>1, <1>t, <2>1, <2>3
<1>5. ASSUME NEW r \in Requests, NEW h \in Clients, HeldBy(r, h), Untrack(r), inFlight' = inFlight,
             NEW x, reader' = [reader EXCEPT ![d] = x], reader[d].pc \notin {"decr", "free"},
             \/ x.pc = "decr" /\ h = d
             \/ x.pc = "free" /\ x.client = h
      PROVE  Balanced(c)
  <2>1. jobs[r] # None /\ jobs[r].client = h
    BY <1>5 DEF HeldBy
  <2>2. \A y \in Requests : HeldBy(y, c)' <=> HeldBy(y, c) /\ y # r
    BY <1>5, <2>1, UntrackHolds
  <2>3. \A e \in Clients : reader'[e] = IF e = d THEN x ELSE reader[e]
    BY <1>5, <1>t
  <2>4. ~ Freeing(d, c) /\ (Freeing(d, c)' <=> c = h)
    BY <1>5, <2>3 DEF Freeing
  <2>5. \A e \in Clients : e # d => (Freeing(e, c)' <=> Freeing(e, c))
    BY <2>3 DEF Freeing
  <2>6. CASE c = h
    <3>1. \A e \in Clients : Freeing(e, c)' <=> Freeing(e, c) \/ e = d
      BY <2>4, <2>5, <2>6
    <3>2. HeldBy(r, c) /\ inFlight'[c] = inFlight[c]
      BY <1>5, <2>6
    <3> QED
      BY <1>g, <2>2, <2>4, <3>1, <3>2, JobToReader
  <2>7. CASE c # h
    <3>1. SameFreeing(c)
      BY <2>4, <2>5, <2>7 DEF SameFreeing
    <3>2. SameJobs(c)
      BY <1>5, <2>1, <2>7, UntrackHolds
    <3> QED
      BY <1>g, <1>5, <3>1, <3>2, Keeps
  <2> QED
    BY <2>6, <2>7
<1>6. CASE ReaderCancel(d)
  <2>1. PICK r \in Requests : r = reader[d].req
    BY <1>6 DEF ReaderCancel, TypeInv, ReaderLocals
  <2>2. reader[d].pc = "cancel" /\ inFlight' = inFlight
    BY <1>6 DEF ReaderCancel
  <2>3. CASE jobs[r] # None
    <3>1. PICK h \in Clients : h = jobs[r].client
      BY <1>t, <2>3 DEF Jobs
    <3> DEFINE x == [reader[d] EXCEPT !.pc = "free", !.client = h]
    <3>2. Untrack(r) /\ reader' = [reader EXCEPT ![d] = x]
      BY <1>6, <1>t, <2>1, <2>3, <3>1 DEF ReaderCancel
    <3>3. x.pc = "free" /\ x.client = h
      BY <1>t DEF ReaderStates
    <3>4. HeldBy(r, h)
      BY <2>3, <3>1 DEF HeldBy
    <3> HIDE DEF x
    <3> QED
      BY <1>5, <2>2, <3>2, <3>3, <3>4
  <2>4. CASE jobs[r] = None
    <3>1. jobs' = jobs /\ reader' = [reader EXCEPT ![d] = Rest(d)]
      BY <1>6, <2>1, <2>4 DEF ReaderCancel
    <3>2. Rest(d).pc \in {"read", "sweep"}
      BY RestType
    <3> QED
      BY <1>1, <2>2, <3>1, <3>2
  <2> QED
    BY <2>3, <2>4
<1>7. ASSUME NEW r \in Requests, SweepOrphan(d, r) PROVE Balanced(c)
  <2>1. reader[d].pc = "sweep" /\ inFlight' = inFlight
    BY <1>7 DEF SweepOrphan
  <2>2. CASE HeldBy(r, d)
    <3> DEFINE left == [reader[d] EXCEPT !.orphans = @ \ {r}]
               x == [left EXCEPT !.pc = "decr", !.req = r, !.from = "sweep",
                       !.copy = IF MayRetry(jobs[r]) THEN retryRequest(jobs[r].copy) ELSE None]
    <3>1. Untrack(r) /\ reader' = [reader EXCEPT ![d] = x]
      BY <1>7, <2>2 DEF SweepOrphan
    <3>2. x.pc = "decr"
      BY <1>t DEF ReaderStates
    <3> HIDE DEF x
    <3> QED
      BY <1>5, <2>1, <2>2, <3>1, <3>2
  <2>3. CASE ~ HeldBy(r, d)
    <3> DEFINE x == [reader[d] EXCEPT !.orphans = @ \ {r}]
    <3>1. jobs' = jobs /\ reader' = [reader EXCEPT ![d] = x]
      BY <1>7, <2>3 DEF SweepOrphan
    <3>2. x.pc = "sweep"
      BY <1>t, <2>1 DEF ReaderStates
    <3> QED
      BY <1>1, <2>1, <3>1, <3>2
  <2> QED
    BY <2>2, <2>3
<1>8. ASSUME NEW h \in Clients, Freeing(d, h), \A e \in Clients : Freeing(d, e) => e = h,
             jobs' = jobs,
             NEW x, x.pc \notin {"decr", "free"}, reader' = [reader EXCEPT ![d] = x],
             DecrById(h) \/ inFlight' = [inFlight EXCEPT ![h] = @ - 1]
      PROVE  Balanced(c)
  <2>1. \A e \in Clients : reader'[e] = IF e = d THEN x ELSE reader[e]
    BY <1>8, <1>t
  <2>2. \A e \in Clients : Freeing(e, c)' <=> Freeing(e, c) /\ e # d
    BY <1>8, <2>1 DEF Freeing
  <2>3. SameJobs(c)
    BY <1>8, SameSlots
  <2>4. CASE c = h
    <3>1. Freeing(d, c)
      BY <1>8, <2>4
    <3>2. DecrById(c) \/ inFlight'[c] = inFlight[c] - 1
      BY <1>8, <1>t, <2>4
    <3> QED
      BY <1>g, <2>2, <2>3, <3>1, <3>2, ReaderFrees
  <2>5. CASE c # h
    <3>1. SameFreeing(c)
      BY <1>8, <2>2, <2>5 DEF SameFreeing
    <3>2. inFlight'[c] = inFlight[c]
      BY <1>8, <2>5, <1>t DEF DecrById
    <3> QED
      BY <1>g, <2>3, <3>1, <3>2, Keeps
  <2> QED
    BY <2>4, <2>5
<1>9. CASE ReaderDecr(d)
  <2> DEFINE x == [reader[d] EXCEPT !.pc = "act"]
  <2>1. /\ reader[d].pc = "decr" /\ jobs' = jobs /\ inFlight' = [inFlight EXCEPT ![d] = @ - 1]
        /\ reader' = [reader EXCEPT ![d] = x]
    BY <1>9 DEF ReaderDecr
  <2>2. x.pc = "act"
    BY <1>t DEF ReaderStates
  <2>3. Freeing(d, d) /\ \A e \in Clients : Freeing(d, e) => e = d
    BY <2>1 DEF Freeing
  <2> HIDE DEF x
  <2> QED
    BY <1>8, <2>1, <2>2, <2>3
<1>10. CASE ReaderFree(d)
  <2>1. PICK h \in Clients : h = reader[d].client
    BY <1>10 DEF ReaderFree, TypeInv, ReaderLocals
  <2>2. /\ reader[d].pc = "free" /\ jobs' = jobs /\ DecrById(h)
        /\ reader' = [reader EXCEPT ![d] = Rest(d)]
    BY <1>10, <2>1 DEF ReaderFree
  <2>3. Rest(d).pc \in {"read", "sweep"}
    BY RestType
  <2>4. Freeing(d, h) /\ \A e \in Clients : Freeing(d, e) => e = h
    BY <2>1, <2>2 DEF Freeing
  <2> QED
    BY <1>8, <2>2, <2>3, <2>4
<1> QED
  BY <1>2, <1>3, <1>4, <1>6, <1>7, <1>9, <1>10 DEF HubStep, ReaderStep

(* A worker's last word takes the job from its holder, and only then does the reader owe
   its slot: a late word from an earlier holder frees nothing (hub.go:624-729). *)
LEMMA WorkerSlots ==
  ASSUME TypeInv, NEW w \in work, WorkerMsg(w), NEW c \in Clients, SlotOK(c)
  PROVE  Balanced(c)
<1>t. /\ reader \in [Clients -> ReaderStates] /\ jobs \in [Requests -> Jobs \cup {None}]
      /\ inFlight \in [Clients -> Int]
  BY DEF TypeInv, TypeOK
<1>w. w.client \in Clients /\ w.req \in Requests
  BY DEF TypeInv, TypeOK, WorkItems
<1>f. sched' = sched /\ reaper' = reaper /\ caller' = caller /\ inFlight' = inFlight
  BY DEF WorkerMsg, MsgOutput, MsgDone, MsgError, MsgRelease
<1>g. SameExpired(c) /\ SameCarried(c) /\ SameCancelling(c)
  BY <1>f, SameSlots
<1>r. reader[w.client].pc = "read"
  BY DEF WorkerMsg, MsgOutput, MsgDone, MsgError, MsgRelease, Reading
<1>1. ASSUME NEW from, NEW copy, TakeJob(w, from, copy), HeldBy(w.req, w.client)
      PROVE  Balanced(c)
  <2>1. PICK d \in Clients, r \in Requests : w.client = d /\ w.req = r
    BY <1>w
  <2> DEFINE x == [reader[d] EXCEPT !.pc = "decr", !.req = r, !.from = from, !.copy = copy,
                                    !.n = w.n]
  <2>2. Untrack(r) /\ reader' = [reader EXCEPT ![d] = x]
    BY <1>1, <1>t, <2>1 DEF TakeJob
  <2>3. x.pc = "decr"
    BY <1>t DEF ReaderStates
  <2> HIDE DEF x
  <2>4. jobs[r] # None /\ jobs[r].client = d
    BY <1>1, <2>1 DEF HeldBy
  <2>5. \A y \in Requests : HeldBy(y, c)' <=> HeldBy(y, c) /\ y # r
    BY <2>2, <2>4, UntrackHolds
  <2>6. \A e \in Clients : reader'[e] = IF e = d THEN x ELSE reader[e]
    BY <2>2, <1>t
  <2>7. ~ Freeing(d, c) /\ (Freeing(d, c)' <=> c = d)
    BY <1>r, <2>1, <2>3, <2>6 DEF Freeing
  <2>8. \A e \in Clients : e # d => (Freeing(e, c)' <=> Freeing(e, c))
    BY <2>6 DEF Freeing
  <2>9. CASE c = d
    <3>1. \A e \in Clients : Freeing(e, c)' <=> Freeing(e, c) \/ e = d
      BY <2>7, <2>8, <2>9
    <3>2. HeldBy(r, c) /\ inFlight'[c] = inFlight[c]
      BY <1>1, <1>f, <2>1, <2>9
    <3> QED
      BY <1>g, <2>5, <2>7, <3>1, <3>2, JobToReader
  <2>10. CASE c # d
    <3>1. SameFreeing(c)
      BY <2>7, <2>8, <2>10 DEF SameFreeing
    <3>2. SameJobs(c)
      BY <2>2, <2>4, <2>10, UntrackHolds
    <3> QED
      BY <1>f, <1>g, <3>1, <3>2, Keeps
  <2> QED
    BY <2>9, <2>10
<1>2. CASE jobs' = jobs /\ reader' = reader
  BY <1>2, <1>f, <1>g, SameSlots, Keeps
<1>3. CASE \E final \in BOOLEAN : MsgError(w, final)
  BY <1>1, <1>2, <1>3 DEF MsgError
<1>4. CASE \E reason \in {"busy", "shutdown"} : MsgRelease(w, reason)
  BY <1>1, <1>2, <1>4 DEF MsgRelease
<1>5. CASE MsgDone(w)
  <2>1. CASE HeldBy(w.req, w.client)
    BY <1>1, <1>5, <2>1 DEF MsgDone
  <2>2. CASE ~ HeldBy(w.req, w.client)
    <3>1. jobs' = jobs /\ \E x : reader' = [reader EXCEPT ![w.client] = x]
      BY <1>5, <2>2 DEF MsgDone
    <3>2. reader'[w.client].pc = "act"
      BY <1>5, <1>t, <1>w, <2>2 DEF MsgDone, ReaderStates
    <3>3. SameFreeing(c)
      BY <1>r, <1>t, <1>w, <3>1, <3>2, SameReader
    <3> QED
      BY <1>f, <1>g, <3>1, <3>3, SameSlots, Keeps
  <2> QED
    BY <2>1, <2>2
<1>6. CASE MsgOutput(w)
  <2>1. SameJobs(c)
    <3>1. CASE HeldBy(w.req, w.client)
      <4> DEFINE j == [jobs[w.req] EXCEPT !.produced = TRUE]
      <4>1. jobs[w.req] \in Jobs
        BY <1>t, <1>w, <3>1 DEF HeldBy
      <4>2. jobs' = [jobs EXCEPT ![w.req] = j]
        BY <1>6, <3>1 DEF MsgOutput
      <4>3. j \in Jobs /\ j.client = jobs[w.req].client
        BY <4>1 DEF Jobs
      <4>4. j # None
        BY <4>3, NoneAssumption
      <4> HIDE DEF j
      <4> QED
        BY <1>t, <1>w, <3>1, <4>2, <4>3, <4>4 DEF SameJobs, HeldBy
    <3>2. CASE ~ HeldBy(w.req, w.client)
      BY <1>6, <3>2, SameSlots DEF MsgOutput
    <3> QED
      BY <3>1, <3>2
  <2>2. SameFreeing(c)
    <3>1. CASE reader' = reader
      BY <3>1, SameSlots
    <3>2. CASE reader' # reader
      <4>1. \E x : reader' = [reader EXCEPT ![w.client] = x]
        BY <1>6, <3>2 DEF MsgOutput
      <4>2. reader'[w.client].pc = "cancel"
        BY <1>6, <1>t, <1>w, <3>2 DEF MsgOutput, ReaderStates
      <4> QED
        BY <1>r, <1>t, <1>w, <4>1, <4>2, SameReader
    <3> QED
      BY <3>1, <3>2
  <2> QED
    BY <1>f, <1>g, <2>1, <2>2, Keeps
<1> QED
  BY <1>3, <1>4, <1>5, <1>6 DEF WorkerMsg

-----------------------------------------------------------------------------
(* A scan moves the slots of the jobs it takes to the reaper's list, and the reaper frees
   one for each entry (hub.go, handleExpiredLeases). *)
LEMMA ReaperSlots ==
  ASSUME TypeInv, ReaperStep, NEW c \in Clients, SlotOK(c)
  PROVE  Balanced(c)
<1>t. /\ reaper \in SUBSET [req : Requests, client : Clients]
      /\ jobs \in [Requests -> Jobs \cup {None}] /\ inFlight \in [Clients -> Int]
  BY DEF TypeInv, TypeOK
<1>f. sched' = sched /\ caller' = caller /\ reader' = reader
  BY DEF ReaperStep, LeaseScan, LeaseFree
<1>g. SameCancelling(c) /\ SameFreeing(c) /\ SameCarried(c)
  BY <1>f, SameSlots
<1>1. ASSUME NEW e \in reaper, LeaseFree(e) PROVE Balanced(c)
  <2>1. PICK r \in Requests, d \in Clients : e = [req |-> r, client |-> d]
    BY <1>t
  <2>2. jobs' = jobs /\ DecrById(d) /\ reaper' = reaper \ {e}
    BY <1>1, <2>1 DEF LeaseFree
  <2>3. \A x \in Requests : Expired(x, c)' <=> /\ Expired(x, c)
                                               /\ x = r => c # d
    BY <2>1, <2>2 DEF Expired
  <2>4. SameJobs(c)
    BY <2>2, SameSlots
  <2>5. CASE c = d
    <3>1. Expired(r, c)
      BY <1>1, <2>1, <2>5 DEF Expired
    <3>2. \A x \in Requests : Expired(x, c)' <=> Expired(x, c) /\ x # r
      BY <2>3, <2>5
    <3>3. DecrById(c)
      BY <2>2, <2>5
    <3> QED
      BY <1>g, <2>4, <3>1, <3>2, <3>3, ReaperFrees
  <2>6. CASE c # d
    <3>1. SameExpired(c)
      BY <2>3, <2>6 DEF SameExpired
    <3>2. inFlight'[c] = inFlight[c]
      BY <1>t, <2>2, <2>6 DEF DecrById
    <3> QED
      BY <1>g, <2>4, <3>1, <3>2, Keeps
  <2> QED
    BY <2>5, <2>6
<1>2. ASSUME NEW E \in SUBSET Requests, LeaseScan(E) PROVE Balanced(c)
  <2>1. PICK S : S = SlotHolders(c) /\ Lists(S, c)
    BY HoldersList
  <2>2. PICK T : T = SlotHolders(c)'
    OBVIOUS
  <2>3. Lists(T, c)'
    BY <2>2, HoldersNext
  <2>4. \A r \in Requests : jobs'[r] = IF r \in E THEN None ELSE jobs[r]
    BY <1>2 DEF LeaseScan
  <2>5. \A r \in Requests : HeldBy(r, c)' <=> HeldBy(r, c) /\ r \notin E
    BY <2>4 DEF HeldBy
  <2>6. \A r \in Requests : Expired(r, c)' <=> HeldBy(r, c) /\ r \in E
    <3> SUFFICES ASSUME NEW r \in Requests PROVE Expired(r, c)' <=> HeldBy(r, c) /\ r \in E
      OBVIOUS
    <3>1. reaper' = {[req |-> q, client |-> jobs[q].client] : q \in E} /\ E \subseteq Tracked
      BY <1>2 DEF LeaseScan
    <3>2. \A q \in E : [req |-> r, client |-> c] = [req |-> q, client |-> jobs[q].client]
                          <=> r = q /\ c = jobs[q].client
      OBVIOUS
    <3>3. Expired(r, c)' <=> \E q \in E : [req |-> r, client |-> c] = [req |-> q, client |-> jobs[q].client]
      BY <3>1 DEF Expired
    <3> QED
      BY <3>1, <3>2, <3>3 DEF HeldBy, Tracked
  <2>7. \A r \in Requests : ~ Expired(r, c)
    BY <1>2 DEF LeaseScan, Expired
  <2> DEFINE old == {p \in S : p[1] = "job" /\ p[2] \in E}
             f == [p \in S |-> IF p \in old THEN <<"reaper", p[2]>> ELSE p]
  <2>8. \A p \in S : p \in Tokens
    BY <2>1 DEF Lists
  <2>9. ASSUME NEW p \in S PROVE f[p] \in T
    <3>1. CASE p \in {"job", "caller", "reaper"} \X Requests
      <4>1. PICK k \in {"job", "caller", "reaper"}, r \in Requests : p = <<k, r>>
        BY <3>1
      <4>2. p[1] = k /\ p[2] = r
        BY <4>1
      <4>3. CASE k = "job" /\ r \in E
        <5>1. f[p] = <<"reaper", r>>
          BY <4>2, <4>3
        <5>2. HeldBy(r, c)
          BY <2>1, <2>9, <4>1, <4>3 DEF Lists
        <5> QED
          BY <2>3, <2>6, <4>3, <5>1, <5>2 DEF Lists
      <4>4. CASE k = "job" /\ r \notin E
        <5>1. f[p] = p
          BY <4>2, <4>4
        <5>2. HeldBy(r, c)
          BY <2>1, <2>9, <4>1, <4>4 DEF Lists
        <5> QED
          BY <2>3, <2>5, <4>1, <4>4, <5>1, <5>2 DEF Lists
      <4>5. CASE k # "job"
        <5>1. f[p] = p
          BY <4>2, <4>5
        <5>2. k = "caller"
          BY <2>1, <2>7, <2>9, <4>1, <4>5 DEF Lists
        <5> QED
          BY <1>g, <2>1, <2>3, <2>9, <4>1, <5>1, <5>2 DEF Lists, SameCancelling
      <4> QED
        BY <4>3, <4>4, <4>5
    <3>2. CASE p \in {"reader", "sched"} \X Clients
      <4>1. PICK k \in {"reader", "sched"}, d \in Clients : p = <<k, d>>
        BY <3>2
      <4>2. p[1] = k
        BY <4>1
      <4>3. f[p] = p
        BY <4>2
      <4> QED
        BY <1>g, <2>1, <2>3, <2>9, <4>1, <4>3 DEF Lists, SameFreeing, SameCarried
    <3> QED
      BY <2>8, <3>1, <3>2 DEF Tokens
  <2>10. ASSUME NEW q \in T PROVE \E p \in S : f[p] = q
    <3>1. q \in Tokens
      BY <2>3 DEF Lists
    <3>2. CASE q \in {"job", "caller", "reaper"} \X Requests
      <4>1. PICK k \in {"job", "caller", "reaper"}, r \in Requests : q = <<k, r>>
        BY <3>2
      <4>2. CASE k = "reaper"
        <5>1. HeldBy(r, c) /\ r \in E
          BY <2>3, <2>6, <2>10, <4>1, <4>2 DEF Lists
        <5>2. <<"job", r>> \in S
          BY <2>1, <5>1 DEF Lists
        <5>3. <<"job", r>> \in old
          BY <5>1, <5>2
        <5>4. f[<<"job", r>>] = <<"reaper", r>>
          BY <5>2, <5>3
        <5> QED
          BY <4>1, <4>2, <5>2, <5>4
      <4>3. CASE k = "job"
        <5>1. HeldBy(r, c) /\ r \notin E
          BY <2>3, <2>5, <2>10, <4>1, <4>3 DEF Lists
        <5>2. q \in S /\ q[2] = r
          BY <2>1, <4>1, <4>3, <5>1 DEF Lists
        <5>3. f[q] = q
          BY <5>1, <5>2
        <5> QED
          BY <5>2, <5>3
      <4>4. CASE k = "caller"
        <5>1. q \in S /\ q[1] = "caller"
          BY <1>g, <2>1, <2>3, <2>10, <4>1, <4>4 DEF Lists, SameCancelling
        <5>2. f[q] = q
          BY <5>1
        <5> QED
          BY <5>1, <5>2
      <4> QED
        BY <4>2, <4>3, <4>4
    <3>3. CASE q \in {"reader", "sched"} \X Clients
      <4>1. PICK k \in {"reader", "sched"}, d \in Clients : q = <<k, d>>
        BY <3>3
      <4>2. q \in S /\ q[1] = k
        BY <1>g, <2>1, <2>3, <2>10, <4>1 DEF Lists, SameFreeing, SameCarried
      <4>3. f[q] = q
        BY <4>2
      <4> QED
        BY <4>2, <4>3
    <3> QED
      BY <3>1, <3>2, <3>3 DEF Tokens
  <2>11. ASSUME NEW p \in S, NEW q \in S, f[p] = f[q] PROVE p = q
    <3>1. \A x \in S : x = <<x[1], x[2]>>
      BY <2>8 DEF Tokens
    <3>2. \A x \in S : x[1] # "reaper"
      <4> SUFFICES ASSUME NEW x \in S, x[1] = "reaper" PROVE FALSE
        OBVIOUS
      <4>1. PICK r \in Requests : x = <<"reaper", r>>
        BY <2>8 DEF Tokens
      <4> QED
        BY <2>1, <2>7, <4>1 DEF Lists
    <3>3. \A x \in S : \/ x \in old /\ f[x] = <<"reaper", x[2]>> /\ x[1] = "job"
                       \/ x \notin old /\ f[x] = x
      OBVIOUS
    <3> HIDE DEF f, old
    <3>4. \A x \in S : x \in old => f[x][1] = "reaper" /\ f[x][2] = x[2]
      BY <3>3
    <3> QED
      BY <2>11, <3>1, <3>2, <3>3, <3>4
  <2>12. f \in Bijection(S, T)
    <3>1. f \in [S -> T]
      BY <2>9
    <3> HIDE DEF f
    <3> QED
      BY <2>10, <2>11, <3>1, Zenon DEF Bijection, Injection, Surjection, IsInjective
  <2>13. IsFiniteSet(S)
    BY <2>1, HoldersFinite DEF Lists
  <2>14. Cardinality(T) = Cardinality(S)
    <3>1. ExistsBijection(S, T)
      BY <2>12 DEF ExistsBijection
    <3> QED
      BY <2>13, <3>1, FS_Bijection
  <2>15. inFlight'[c] = inFlight[c]
    BY <1>2 DEF LeaseScan
  <2>16. Cardinality(S) \in Nat
    BY <2>1, HoldersFinite DEF Lists
  <2>17. CASE conn[c] = "off"
    <3>1. S = {}
      BY <2>1, <2>17 DEF SlotOK
    <3>2. T = {}
      BY <2>10, <3>1
    <3> QED
      BY <2>1, <2>2, <2>15, <3>1, <3>2 DEF Balanced
  <2>18. CASE conn[c] # "off"
    BY <1>t, <2>1, <2>2, <2>14, <2>15, <2>16, <2>18 DEF Balanced, Connected
  <2> QED
    BY <2>17, <2>18
<1> QED
  BY <1>1, <1>2 DEF ReaperStep

-----------------------------------------------------------------------------
(* A drain lists only clients that have registered (hub.go, AvailableClients). *)
LEMMA NextKnownInv ==
  ASSUME TypeInv, KnownInv, Next
  PROVE  KnownInv'
<1>t. sched \in SchedStates /\ conn \in [Clients -> ConnStates]
  BY DEF TypeInv, TypeOK
<1>1. \A c \in Clients : conn'[c] = "off" => conn[c] = "off"
  <2>1. CASE conn' = conn
    BY <2>1
  <2>2. ASSUME NEW r \in Requests, Handler(r) PROVE conn' = conn
    BY <2>2 DEF Handler, Enqueue, ReadChunk, GiveUp, BatchTimeout, CancelUntrack, CancelFree,
                AfterCancel, hubVars
  <2>3. CASE SchedStep
    BY <2>1, <2>3 DEF SchedStep, DrainOnSignal, DrainOnTick, Pick, PopAndCount, TrackJob, SendJob,
                      SendFails, SchedUntrack, SchedUncount, SchedRequeue, hubVars
  <2>4. CASE ReaperStep
    BY <2>1, <2>4 DEF ReaperStep, LeaseScan, LeaseFree
  <2>5. ASSUME NEW w \in work, WorkerMsg(w) PROVE conn' = conn
    BY <2>5 DEF WorkerMsg, MsgOutput, MsgDone, MsgError, MsgRelease
  <2>6. ASSUME NEW d \in Clients, HubStep(d)
        PROVE  \A c \in Clients : conn'[c] = "off" => conn[c] = "off"
    <3>1. \/ conn' = conn
          \/ \E x : x # "off" /\ conn' = [conn EXCEPT ![d] = x]
      BY <2>6 DEF HubStep, ReaderStep, Connect, MsgRegister, MsgDraining, MsgLocalBusy, Disconnect,
                  ReaderDecr, ReaderAct, ReaderCancel, ReaderFree, RemoveClient, SnapshotOrphans,
                  SweepOrphan, EndSweep, hubVars
    <3> QED
      BY <3>1, <1>t
  <2> QED
    BY <2>1, <2>2, <2>3, <2>4, <2>5, <2>6 DEF Next
<1>2. CASE sched' = sched
  BY <1>1, <1>2 DEF KnownInv
<1>3. CASE sched' = IdleSched
  <2>1. \A c \in Clients : IdleSched.room[c] = 0 /\ IdleSched.client # c
    BY NoneAssumption DEF IdleSched
  <2> QED
    BY <1>3, <2>1 DEF KnownInv
<1>4. ASSUME conn' = conn, \A c \in Clients : sched'.room[c] <= sched.room[c],
             sched'.client \in {sched.client, None}
      PROVE  KnownInv'
  <2>1. \A c \in Clients : sched.room[c] \in Int /\ sched'.room[c] \in Int
    <3>1. sched' \in SchedStates
      BY NextTypeInv DEF TypeInv, TypeOK
    <3> QED
      BY <1>t, <3>1 DEF SchedStates
  <2> SUFFICES ASSUME NEW c \in Clients, conn'[c] = "off"
               PROVE  sched'.room[c] <= 0 /\ sched'.client # c
    BY DEF KnownInv
  <2>2. sched.room[c] <= 0 /\ sched.client # c
    BY <1>4 DEF KnownInv
  <2>3. c # None
    BY NoneAssumption
  <2> QED
    BY <1>4, <2>1, <2>2, <2>3
<1>5. CASE SchedStep
  <2>0. conn' = conn
    BY <1>5 DEF SchedStep, DrainOnSignal, DrainOnTick, Pick, PopAndCount, TrackJob, SendJob,
                SendFails, SchedUntrack, SchedUncount, SchedRequeue, hubVars
  <2>1. CASE DrainOnSignal \/ DrainOnTick
    <3>1. CASE sched' = IdleSched
      BY <1>3, <3>1
    <3>2. CASE sched' # IdleSched
      <4> DEFINE room == [c \in Clients |-> IF c \in Available THEN Room(c) ELSE 0]
      <4>1. sched' = [IdleSched EXCEPT !.pc = "pick", !.room = room]
        BY <2>1, <3>2 DEF DrainOnSignal, DrainOnTick, StartDrain
      <4>2. sched'.client = None /\ sched'.room = room
        BY <4>1 DEF IdleSched
      <4>3. \A c \in Clients : conn[c] = "off" => room[c] = 0
        BY DEF Available
      <4> QED
        BY <2>0, <4>2, <4>3, NoneAssumption DEF KnownInv
    <3> QED
      BY <3>1, <3>2
  <2>2. CASE Pick
    <3>1. CASE sched' = IdleSched
      BY <1>3, <3>1
    <3>2. CASE sched' # IdleSched
      <4>1. PICK p \in Candidates : sched' = [sched EXCEPT !.pc = "pop", !.req = p[1], !.client = p[2]]
        BY <2>2, <3>2 DEF Pick
      <4>2. sched'.client = p[2] /\ sched'.room = sched.room
        BY <1>t, <4>1 DEF SchedStates
      <4>3. p[2] \in Clients /\ sched.room[p[2]] > 0
        BY DEF Candidates
      <4>4. sched.room[p[2]] \in Int
        BY <1>t, <4>3 DEF SchedStates
      <4>5. conn[p[2]] # "off"
        BY <4>3, <4>4 DEF KnownInv
      <4> QED
        BY <2>0, <4>2, <4>5 DEF KnownInv
    <3> QED
      BY <3>1, <3>2
  <2>3. CASE SendJob
    <3>1. PICK d \in Clients : d = sched.client
      BY <2>3 DEF SendJob, TypeInv, SchedLocals
    <3> DEFINE room == [sched.room EXCEPT ![d] = @ - 1]
    <3>2. sched' = [sched EXCEPT !.pc = "pick", !.req = None, !.client = None, !.copy = None,
                                 !.room = room]
      BY <1>t, <2>3, <3>1 DEF SendJob, SchedStates
    <3>3. sched'.client = None /\ sched'.room = room
      BY <1>t, <3>2 DEF SchedStates
    <3>4. \A c \in Clients : room[c] <= sched.room[c]
      BY <1>t DEF SchedStates
    <3> HIDE DEF room
    <3> QED
      BY <1>4, <2>0, <3>3, <3>4
  <2>4. CASE PopAndCount \/ TrackJob \/ SendFails \/ SchedUntrack \/ SchedUncount \/ SchedRequeue
    <3>1. CASE sched' = IdleSched
      BY <1>3, <3>1
    <3>2. CASE sched' # IdleSched
      <4>1. sched'.room = sched.room /\ sched'.client \in {sched.client, None}
        BY <1>t, <2>4, <3>2 DEF PopAndCount, TrackJob, SendFails, SchedUntrack, SchedUncount,
                                SchedRequeue, SchedStates
      <4>2. \A c \in Clients : sched.room[c] \in Int
        BY <1>t DEF SchedStates
      <4>3. \A c \in Clients : sched'.room[c] <= sched.room[c]
        BY <4>1, <4>2
      <4> QED
        BY <1>4, <2>0, <4>1, <4>3
    <3> QED
      BY <3>1, <3>2
  <2> QED
    BY <1>5, <2>1, <2>2, <2>3, <2>4 DEF SchedStep
<1>6. CASE ~ SchedStep
  <2>1. ASSUME NEW r \in Requests, Handler(r) PROVE sched' = sched
    BY <2>1 DEF Handler, Enqueue, ReadChunk, GiveUp, BatchTimeout, CancelUntrack, CancelFree,
                AfterCancel
  <2>2. ReaperStep => sched' = sched
    BY DEF ReaperStep, LeaseScan, LeaseFree
  <2>3. ASSUME NEW w \in work, WorkerMsg(w) PROVE sched' = sched
    BY <2>3 DEF WorkerMsg, MsgOutput, MsgDone, MsgError, MsgRelease
  <2>4. ASSUME NEW d \in Clients, HubStep(d) PROVE sched' = sched
    BY <2>4 DEF HubStep, ReaderStep, Connect, MsgRegister, MsgDraining, MsgLocalBusy, Disconnect,
                ReaderDecr, ReaderAct, ReaderCancel, ReaderFree, RemoveClient, SnapshotOrphans,
                SweepOrphan, EndSweep
  <2> QED
    BY <1>2, <1>6, <2>1, <2>2, <2>3, <2>4 DEF Next
<1> QED
  BY <1>5, <1>6

(* A connection that has left the registry never comes back: a worker that reconnects
   gets a new ID (hub.go:383-398). *)
LEMMA GoneStays ==
  ASSUME TypeInv, Next, NEW c \in Clients
  PROVE  /\ conn[c] = "gone" => conn'[c] = "gone"
         /\ conn'[c] = "off" => conn[c] = "off"
<1>t. conn \in [Clients -> ConnStates]
  BY DEF TypeInv, TypeOK
<1>1. CASE conn' = conn
  BY <1>1
<1>2. ASSUME NEW r \in Requests, Handler(r) PROVE conn' = conn
  BY <1>2 DEF Handler, Enqueue, ReadChunk, GiveUp, BatchTimeout, CancelUntrack, CancelFree,
              AfterCancel, hubVars
<1>3. CASE SchedStep
  BY <1>1, <1>3 DEF SchedStep, DrainOnSignal, DrainOnTick, Pick, PopAndCount, TrackJob, SendJob,
                    SendFails, SchedUntrack, SchedUncount, SchedRequeue, hubVars
<1>4. CASE ReaperStep
  BY <1>1, <1>4 DEF ReaperStep, LeaseScan, LeaseFree
<1>5. ASSUME NEW w \in work, WorkerMsg(w) PROVE conn' = conn
  BY <1>5 DEF WorkerMsg, MsgOutput, MsgDone, MsgError, MsgRelease
<1>6. ASSUME NEW d \in Clients, HubStep(d)
      PROVE  \/ conn' = conn
             \/ \E x : /\ x # "off" /\ conn' = [conn EXCEPT ![d] = x]
                       /\ x = "gone" \/ conn[d] # "gone"
  BY <1>6 DEF HubStep, ReaderStep, Connect, MsgRegister, MsgDraining, MsgLocalBusy, Disconnect,
              ReaderDecr, ReaderAct, ReaderCancel, ReaderFree, RemoveClient, SnapshotOrphans,
              SweepOrphan, EndSweep, Reading, hubVars
<1> QED
  BY <1>t, <1>1, <1>2, <1>3, <1>4, <1>5, <1>6 DEF Next

(* Slots are exact: for any number of requests, workers and slots, no order of
   completion, error, hand-back, cancel, lease expiry, failed send and disconnect frees a
   slot twice or leaves one counted; the one exception is a batch handler's second push,
   after which a slot may stay counted but none is freed twice (hub.go:1200-1293,
   scheduler.go:453-486). *)
THEOREM DispatchSlotAccounting == Spec => []SlotAccounting
<1> DEFINE Inv == CopyInv /\ KnownInv /\ SlotInv
<1>1. Init => Inv
  <2> SUFFICES ASSUME Init PROVE Inv
    OBVIOUS
  <2>1. CopyInv
    BY InitCopyInv
  <2>2. KnownInv
    BY NoneAssumption DEF Init, KnownInv, IdleSched
  <2>3. ASSUME NEW c \in Clients PROVE SlotOK(c)
    <3>1. conn[c] = "off" /\ inFlight[c] = 0
      BY DEF Init
    <3>2. Lists({}, c)
      BY DEF Init, Lists, HeldBy, Cancelling, Expired, Freeing, Carried, IdleReader, IdleSched
    <3>3. SlotHolders(c) = {}
      BY <3>2, HoldersAre
    <3> QED
      BY <3>1, <3>3 DEF SlotOK, Connected
  <2> QED
    BY <2>1, <2>2, <2>3 DEF SlotInv
<1>2. Inv /\ [Next]_vars => Inv'
  <2> SUFFICES ASSUME Inv, [Next]_vars PROVE Inv'
    OBVIOUS
  <2>0. TypeInv /\ OffInv /\ PlaceInv
    BY DEF CopyInv
  <2>1. CopyInv' /\ TypeInv'
    BY NextCopyInv DEF CopyInv
  <2>2. CASE Next
    <3>1. KnownInv'
      BY <2>0, <2>2, NextKnownInv
    <3>2. ASSUME NEW c \in Clients PROVE SlotOK(c)'
      <4>1. SlotOK(c)
        BY DEF SlotInv
      <4>2. Balanced(c)
        BY <2>0, <2>2, <4>1, HandlerSlots, SchedSlots, HubSlots, WorkerSlots, ReaperSlots DEF Next
      <4>3. NoBatch' => NoBatch
        BY <2>0, <2>2, KindStays DEF NoBatch
      <4> QED
        BY <2>0, <2>1, <2>2, <4>1, <4>2, <4>3, GoneStays, BalancedKeeps
    <3> QED
      BY <2>1, <3>1, <3>2 DEF SlotInv
  <2>3. CASE UNCHANGED vars
    <3>1. KnownInv'
      BY <2>3 DEF vars, hubVars, KnownInv
    <3>2. ASSUME NEW c \in Clients PROVE SlotOK(c)'
      <4>1. /\ inFlight' = inFlight /\ conn' = conn /\ caller' = caller /\ jobs' = jobs
            /\ reaper' = reaper /\ reader' = reader /\ sched' = sched
        BY <2>3 DEF vars, hubVars
      <4>2. Balanced(c)
        BY <4>1, SameSlots, Keeps
      <4>3. SlotOK(c) /\ (NoBatch' => NoBatch)
        BY <4>1 DEF SlotInv, NoBatch, IsBatch
      <4> QED
        BY <2>0, <2>1, <4>1, <4>2, <4>3, BalancedKeeps
    <3> QED
      BY <2>1, <3>1, <3>2 DEF SlotInv
  <2> QED
    BY <2>2, <2>3
<1>3. Inv => SlotAccounting
  BY DEF SlotInv, SlotOK, SlotAccounting
<1> QED
  BY <1>1, <1>2, <1>3, PTL DEF Spec
-----------------------------------------------------------------------------
(* Answers *)

-----------------------------------------------------------------------------
(* Nothing is lost.                                                        *)

\* The goroutine of c has r in its hands, to answer it or to queue it again.
InHandOf(r, c) == reader[c].req = r /\ reader[c].pc \in {"decr", "act"}

\* The handler will read the end of its answer.
HasEnd(r) == \E i \in DOMAIN inbox[r] : inbox[r][i].kind # "output"

\* The request of a handler that waits is somewhere, or has been dropped.
Awaited(r) ==
  \/ InQueue(r) \/ InTable(r) \/ InHand(r) \/ HasEnd(r) \/ r \in dropped
  \/ \E c \in Clients : InHandOf(r, c)

LostInv == \A r \in Requests : caller[r].pc = "wait" => Awaited(r)

\* A step that leaves everything of r as it was, or adds to it.
Spares(r) ==
  /\ InQueue(r) => InQueue(r)'
  /\ InTable(r) => InTable(r)'
  /\ InHand(r) => InHand(r)'
  /\ HasEnd(r) => HasEnd(r)'
  /\ r \in dropped => r \in dropped'
  /\ \A c \in Clients : InHandOf(r, c) => InHandOf(r, c)'

(* What such a step leaves in place is still awaited by the handler. *)
LEMMA SparesAwaited == ASSUME NEW r \in Requests, Spares(r), Awaited(r) PROVE Awaited(r)'
BY DEF Spares, Awaited

(* A chunk that arrives leaves the end of the answer where it was
   (correlation.go, Send). *)
LEMMA AppendKeepsEnd ==
  ASSUME NEW r \in Requests, NEW s \in Requests, NEW chunk \in Chunks,
         inbox \in [Requests -> Seq(Chunks)],
         inbox' = inbox \/ inbox' = [inbox EXCEPT ![s] = Append(@, chunk)]
  PROVE  HasEnd(r) => HasEnd(r)'
<1>1. CASE inbox' = inbox
  BY <1>1 DEF HasEnd
<1>2. CASE inbox' = [inbox EXCEPT ![s] = Append(@, chunk)]
  <2>1. inbox[r] \in Seq(Chunks) /\ (r = s => inbox'[r] = Append(inbox[r], chunk))
        /\ (r # s => inbox'[r] = inbox[r])
    BY <1>2
  <2>2. ASSUME NEW q \in Seq(Chunks)
        PROVE  \A i \in DOMAIN q : i \in DOMAIN Append(q, chunk) /\ Append(q, chunk)[i] = q[i]
    OBVIOUS
  <2>3. \A i \in DOMAIN inbox[r] : i \in DOMAIN inbox'[r] /\ inbox'[r][i] = inbox[r][i]
    <3>1. CASE r = s
      BY ONLY <2>1, <2>2, <3>1
    <3>2. CASE r # s
      BY ONLY <2>1, <3>2
    <3> QED
      BY <3>1, <3>2
  <2> QED
    BY <2>3 DEF HasEnd
<1> QED
  BY <1>1, <1>2

(* A handler works on its own request and its own channel (handler.go:602-951). *)
LEMMA HandlerFrame ==
  ASSUME TypeInv, NEW s \in Requests, Handler(s)
  PROVE  /\ sched' = sched /\ reader' = reader /\ dropped' = dropped /\ conn' = conn /\ work' = work
         /\ sent' = sent /\ yields' = yields
         /\ \A r \in Requests : r # s =>
              /\ caller'[r] = caller[r] /\ queue'[r] = queue[r] /\ jobs'[r] = jobs[r]
              /\ inbox'[r] = inbox[r] /\ seen'[r] = seen[r]
<1>t. /\ caller \in [Requests -> CallerStates] /\ inbox \in [Requests -> Seq(Chunks)]
      /\ jobs \in [Requests -> Jobs \cup {None}] /\ queue \in [Requests -> Copies \cup {None}]
      /\ seen \in [Requests -> SUBSET Nat]
  BY DEF TypeInv, TypeOK
<1> USE DEF Handler, Enqueue, ReadChunk, GiveUp, BatchTimeout, CancelUntrack, CancelFree, AfterCancel
<1>1. sched' = sched /\ reader' = reader /\ dropped' = dropped /\ conn' = conn /\ work' = work
      /\ sent' = sent /\ yields' = yields
  BY DEF histVars, hubVars
<1>2. SUFFICES ASSUME NEW r \in Requests, r # s
               PROVE  /\ caller'[r] = caller[r] /\ queue'[r] = queue[r] /\ jobs'[r] = jobs[r]
                      /\ inbox'[r] = inbox[r] /\ seen'[r] = seen[r]
  BY <1>1
<1>3. queue'[r] = queue[r] /\ inbox'[r] = inbox[r]
  BY <1>t, <1>2 DEF Push
<1>4. jobs'[r] = jobs[r]
  BY <1>t, <1>2 DEF Untrack, hubVars
<1>5. caller'[r] = caller[r]
  BY <1>t, <1>2
<1>6. seen'[r] = seen[r]
  BY <1>t, <1>2 DEF histVars
<1> QED
  BY <1>3, <1>4, <1>5, <1>6

(* A handler that still waits after its step has pushed its request, or read a chunk
   that was not the last (handler.go, streamResponse and batchResponse). *)
LEMMA HandlerAwaits ==
  ASSUME TypeInv, LostInv, NEW s \in Requests, Handler(s)
  PROVE  LostInv'
<1>t. /\ caller \in [Requests -> CallerStates] /\ inbox \in [Requests -> Seq(Chunks)]
      /\ jobs \in [Requests -> Jobs \cup {None}] /\ queue \in [Requests -> Copies \cup {None}]
  BY DEF TypeInv, TypeOK
<1>1. sched' = sched /\ reader' = reader /\ dropped' = dropped
  BY HandlerFrame
<1>2. ASSUME NEW r \in Requests, r # s
      PROVE  caller'[r] = caller[r] /\ queue'[r] = queue[r] /\ jobs'[r] = jobs[r] /\ inbox'[r] = inbox[r]
  BY <1>2, HandlerFrame
<1>3. ASSUME NEW r \in Requests, r # s, caller'[r].pc = "wait" PROVE Awaited(r)'
  <2>1. Spares(r)
    BY <1>1, <1>2, <1>3 DEF Spares, InQueue, InTable, InHand, HasEnd, InHandOf
  <2> QED
    BY <1>2, <1>3, <2>1, SparesAwaited DEF LostInv
<1>4. ASSUME caller'[s].pc = "wait" PROVE Awaited(s)'
  <2>1. CASE \E kind \in Kinds : Enqueue(s, kind)
    <3>1. caller' = [caller EXCEPT ![s].pc = "done"] \/ Push(s, [attempts |-> 0, model |-> Alias])
      BY <2>1 DEF Enqueue
    <3>3. queue'[s] = [attempts |-> 0, model |-> Alias]
      BY <1>4, <1>t, <3>1 DEF Push, CallerStates
    <3>2. [attempts |-> 0, model |-> Alias] # None
      BY NoneAssumption DEF Copies
    <3> QED
      BY <3>2, <3>3 DEF Awaited, InQueue
  <2>2. CASE ReadChunk(s)
    <3>1. inbox[s] # << >> /\ inbox[s] \in Seq(Chunks)
      BY <1>t, <2>2 DEF ReadChunk
    <3>2. /\ Head(inbox[s]).kind = "output" /\ inbox'[s] = Tail(inbox[s])
          /\ caller' = caller /\ queue' = queue /\ jobs' = jobs
      <4>1. queue' = queue /\ jobs' = jobs
        BY <2>2 DEF ReadChunk, hubVars
      <4>2. \/ /\ Head(inbox[s]).kind = "output"
               /\ inbox' = [inbox EXCEPT ![s] = Tail(@)] /\ caller' = caller
            \/ caller' = [caller EXCEPT ![s].pc = "done"]
        BY <2>2 DEF ReadChunk
      <4> QED
        BY <1>4, <1>t, <4>1, <4>2 DEF CallerStates
    <3>3. HasEnd(s) => HasEnd(s)'
      <4>1. SUFFICES ASSUME NEW i \in DOMAIN inbox[s], inbox[s][i].kind # "output" PROVE HasEnd(s)'
        BY DEF HasEnd
      <4>2. i # 1 /\ i \in 2..Len(inbox[s])
        BY <3>1, <3>2, <4>1
      <4>3. i - 1 \in DOMAIN inbox'[s] /\ inbox'[s][i - 1] = inbox[s][i]
        BY <3>1, <3>2, <4>2
      <4> QED
        BY <4>1, <4>3 DEF HasEnd
    <3>4. Spares(s)
      BY <1>1, <3>2, <3>3 DEF Spares, InQueue, InTable, InHand, InHandOf
    <3> QED
      BY <1>4, <3>2, <3>4, SparesAwaited DEF LostInv
  <2>3. CASE GiveUp(s) \/ BatchTimeout(s) \/ CancelUntrack(s) \/ CancelFree(s)
    <3>1. caller'[s].pc \in {"cancel", "free", "after"}
      BY <1>t, <2>3 DEF GiveUp, BatchTimeout, CancelUntrack, CancelFree, CallerStates
    <3> QED
      BY <1>4, <3>1
  <2>4. CASE AfterCancel(s)
    <3>1. queue'[s] = [attempts |-> caller[s].attempts, model |-> Alias]
      BY <1>4, <1>t, <2>4 DEF AfterCancel, Push, CallerStates
    <3>2. [attempts |-> caller[s].attempts, model |-> Alias] # None
      BY <1>t, NoneAssumption DEF Copies, CallerStates
    <3> QED
      BY <3>1, <3>2 DEF Awaited, InQueue
  <2> QED
    BY <2>1, <2>2, <2>3, <2>4 DEF Handler
<1> QED
  BY <1>3, <1>4 DEF LostInv

(* The scheduler never lets go of a request: from the queue it goes to its hand, from
   there to the table or back to the queue (scheduler.go:419-486). *)
LEMMA SchedAwaits ==
  ASSUME TypeInv, LostInv, SchedStep
  PROVE  LostInv'
<1>t. /\ sched \in SchedStates /\ SchedLocals
      /\ jobs \in [Requests -> Jobs \cup {None}] /\ queue \in [Requests -> Copies \cup {None}]
      /\ IdleSched \in SchedStates /\ IdleSched.pc = "idle"
  BY DEF TypeInv, TypeOK, IdleSched, SchedStates
<1>1. caller' = caller /\ reader' = reader /\ inbox' = inbox /\ dropped' = dropped
  BY DEF SchedStep, DrainOnSignal, DrainOnTick, Pick, PopAndCount, TrackJob, SendJob, SendFails,
         SchedUntrack, SchedUncount, SchedRequeue, histVars
<1>2. SUFFICES ASSUME NEW r \in Requests,
                      InQueue(r) \/ InTable(r) \/ InHand(r)
               PROVE  InQueue(r)' \/ InTable(r)' \/ InHand(r)'
  BY <1>1 DEF LostInv, Awaited, HasEnd, InHandOf
<1>3. CASE DrainOnSignal \/ DrainOnTick \/ Pick \/ SendFails
  <2>1. queue' = queue /\ jobs' = jobs /\ sched.pc \in {"idle", "pick", "send"}
    BY <1>3 DEF DrainOnSignal, DrainOnTick, Pick, SendFails, hubVars
  <2> QED
    BY <1>2, <2>1 DEF InQueue, InTable, InHand
<1>4. CASE SendJob
  BY <1>2, <1>4 DEF SendJob, hubVars, InQueue, InTable, InHand
<1>5. CASE PopAndCount
  <2>1. jobs' = jobs /\ sched.pc = "pop" /\ sched.req \in Requests
    BY <1>5, <1>t DEF PopAndCount, SchedLocals
  <2>2. CASE queue[sched.req] = None
    BY <1>2, <1>5, <2>1, <2>2 DEF PopAndCount, InQueue, InTable, InHand
  <2>3. CASE queue[sched.req] # None
    <3>1. /\ queue' = [queue EXCEPT ![sched.req] = None]
          /\ sched'.pc = "track" /\ sched'.req = sched.req
      BY <1>5, <1>t, <2>3 DEF PopAndCount, SchedStates
    <3> QED
      BY <1>2, <1>t, <2>1, <3>1 DEF InQueue, InTable, InHand
  <2> QED
    BY <2>2, <2>3
<1>6. CASE TrackJob
  <2>1. queue' = queue /\ sched.pc = "track" /\ sched.req \in Requests
        /\ sched.client \in Clients /\ sched.copy \in Copies
    BY <1>6, <1>t DEF TrackJob, SchedLocals
  <2>2. CASE Connected(sched.client)
    <3> DEFINE job == [client |-> sched.client, copy |-> sched.copy, produced |-> FALSE]
    <3>1. jobs' = [jobs EXCEPT ![sched.req] = job]
      BY <1>6, <2>2 DEF TrackJob
    <3>2. job # None
      <4>1. job \in Jobs
        BY <2>1 DEF Jobs
      <4> HIDE DEF job
      <4> QED
        BY <4>1, NoneAssumption
    <3> HIDE DEF job
    <3> QED
      BY <1>2, <1>t, <2>1, <3>1, <3>2 DEF InQueue, InTable, InHand
  <2>3. CASE ~ Connected(sched.client)
    <3>1. jobs' = jobs /\ sched'.pc = "push" /\ sched'.req = sched.req
      BY <1>6, <1>t, <2>3 DEF TrackJob, SchedStates
    <3> QED
      BY <1>2, <2>1, <3>1 DEF InQueue, InTable, InHand
  <2> QED
    BY <2>2, <2>3
<1>7. CASE SchedUntrack
  <2>1. queue' = queue /\ sched.pc = "untrack" /\ sched.req \in Requests
    BY <1>7, <1>t DEF SchedUntrack, SchedLocals
  <2>2. CASE HeldBy(sched.req, sched.client)
    <3>1. Untrack(sched.req) /\ sched'.pc = "uncount" /\ sched'.req = sched.req
      BY <1>7, <1>t, <2>2 DEF SchedUntrack, SchedStates
    <3> QED
      BY <1>2, <2>1, <3>1, UntrackPlaces DEF InQueue, InTable, InHand
  <2>3. CASE ~ HeldBy(sched.req, sched.client)
    BY <1>2, <1>7, <2>1, <2>3 DEF SchedUntrack, InQueue, InTable, InHand
  <2> QED
    BY <2>2, <2>3
<1>8. CASE SchedUncount
  <2>1. queue' = queue /\ jobs' = jobs /\ sched'.pc = "push" /\ sched'.req = sched.req
    BY <1>8, <1>t DEF SchedUncount, SchedStates
  <2> QED
    BY <1>2, <2>1 DEF InQueue, InTable, InHand
<1>9. CASE SchedRequeue
  <2>1. /\ jobs' = jobs /\ sched.pc = "push" /\ sched.req \in Requests
        /\ queue' = [queue EXCEPT ![sched.req] = sched.copy] /\ sched.copy # None
    BY <1>9, <1>t, NoneAssumption DEF SchedRequeue, Push, hubVars, SchedLocals
  <2> QED
    BY <1>2, <1>t, <2>1 DEF InQueue, InTable, InHand
<1> QED
  BY <1>3, <1>4, <1>5, <1>6, <1>7, <1>8, <1>9 DEF SchedStep

(* A goroutine of a connection lets go of a request only to push it, to answer it or to
   drop it; a sweep takes it in hand (hub.go:346-441). *)
LEMMA HubAwaits ==
  ASSUME CopyInv, LostInv, NEW c \in Clients, HubStep(c)
  PROVE  LostInv'
<1>t. /\ TypeInv /\ reader \in [Clients -> ReaderStates] /\ inbox \in [Requests -> Seq(Chunks)]
      /\ jobs \in [Requests -> Jobs \cup {None}] /\ queue \in [Requests -> Copies \cup {None}]
      /\ reader[c] \in ReaderStates
  BY DEF CopyInv, TypeInv, TypeOK
<1>1. caller' = caller /\ sched' = sched
  BY DEF HubStep, ReaderStep, Connect, MsgRegister, MsgDraining, MsgLocalBusy, Disconnect, ReaderDecr,
         ReaderAct, ReaderCancel, ReaderFree, RemoveClient, SnapshotOrphans, SweepOrphan, EndSweep
<1>2. ASSUME \A r \in Requests : Awaited(r) /\ caller[r].pc = "wait" => Awaited(r)' PROVE LostInv'
  BY <1>1, <1>2 DEF LostInv
<1>3. ASSUME \A r \in Requests : Spares(r) PROVE LostInv'
  BY <1>2, <1>3, SparesAwaited
<1>4. ASSUME queue' = queue, jobs' = jobs, inbox' = inbox, dropped' = dropped, NEW x,
             reader' = [reader EXCEPT ![c] = x], reader[c].pc \notin {"decr", "act"}
      PROVE  LostInv'
  <2>1. \A r \in Requests : Spares(r)
    BY <1>t, <1>1, <1>4 DEF Spares, InQueue, InTable, InHand, HasEnd, InHandOf
  <2> QED
    BY <2>1, <1>3
<1>5. CASE \/ Connect(c) \/ Disconnect(c) \/ ReaderFree(c) \/ RemoveClient(c) \/ SnapshotOrphans(c)
           \/ EndSweep(c)
  <2>1. queue' = queue /\ jobs' = jobs /\ inbox' = inbox /\ dropped' = dropped
    BY <1>5 DEF Connect, Disconnect, ReaderFree, RemoveClient, SnapshotOrphans, EndSweep, histVars,
                hubVars
  <2>2. \E x : reader' = [reader EXCEPT ![c] = x]
    BY <1>5 DEF Connect, Disconnect, ReaderFree, RemoveClient, SnapshotOrphans, EndSweep
  <2>3. reader[c].pc \notin {"decr", "act"}
    BY <1>5 DEF Connect, Disconnect, ReaderFree, RemoveClient, SnapshotOrphans, EndSweep, CopyInv,
                OffInv, Reading
  <2> QED
    BY <1>4, <2>1, <2>2, <2>3
<1>6. CASE \/ MsgDraining(c) \/ \E n \in 1..MaxSlots[c] : MsgRegister(c, n)
           \/ \E n \in LocalLoads : MsgLocalBusy(c, n)
  <2>1. queue' = queue /\ jobs' = jobs /\ inbox' = inbox /\ dropped' = dropped /\ reader' = reader
    BY <1>6 DEF MsgDraining, MsgRegister, MsgLocalBusy, histVars
  <2> QED
    BY <1>1, <1>3, <2>1 DEF Spares, InQueue, InTable, InHand, HasEnd, InHandOf
<1>7. CASE ReaderDecr(c)
  <2>1. queue' = queue /\ jobs' = jobs /\ inbox' = inbox /\ dropped' = dropped
        /\ reader' = [reader EXCEPT ![c].pc = "act"]
    BY <1>7 DEF ReaderDecr, histVars
  <2>2. \A r \in Requests, d \in Clients : InHandOf(r, d) => InHandOf(r, d)'
    BY <1>t, <2>1 DEF InHandOf, ReaderStates
  <2> QED
    BY <1>1, <1>3, <2>1, <2>2 DEF Spares, InQueue, InTable, InHand, HasEnd
<1>8. CASE ReaderAct(c)
  <2>0. PICK s \in Requests : s = reader[c].req
    BY <1>8, <1>t DEF ReaderAct, TypeInv, ReaderLocals
  <2>1. /\ jobs' = jobs /\ reader[c].pc = "act"
        /\ \E x : reader' = [reader EXCEPT ![c] = x]
    BY <1>8, <1>t DEF ReaderAct, hubVars
  <2>2. ASSUME NEW r \in Requests PROVE r # s => \A d \in Clients : InHandOf(r, d) => InHandOf(r, d)'
    BY <1>t, <2>0, <2>1 DEF InHandOf
  <2>3. CASE reader[c].copy # None
    <3>1. /\ queue' = [queue EXCEPT ![s] = reader[c].copy] /\ inbox' = inbox /\ dropped' = dropped
      BY <1>8, <2>0, <2>3 DEF ReaderAct, Push
    <3>2. InQueue(s)' /\ \A r \in Requests : InQueue(r) => InQueue(r)'
      BY <1>t, <2>1, <2>3, <3>1 DEF InQueue
    <3>3. ASSUME NEW r \in Requests, r # s PROVE Spares(r)
      BY <1>1, <2>1, <2>2, <3>1, <3>2, <3>3 DEF Spares, InTable, InHand, HasEnd
    <3> QED
      BY <1>2, <3>2, <3>3, SparesAwaited DEF Awaited
  <2>4. CASE reader[c].copy = None
    <3> DEFINE chunk == [n |-> reader[c].n, kind |-> IF reader[c].from = "done" THEN "done" ELSE "error"]
    <3>1. chunk \in Chunks /\ chunk.kind # "output"
      BY <1>t DEF Chunks, ReaderStates
    <3>2. /\ queue' = queue
          /\ \/ Deliver(s, chunk) /\ dropped' = dropped
             \/ dropped' = dropped \cup {s} /\ inbox' = inbox
      BY <1>8, <2>0, <2>4 DEF ReaderAct
    <3> HIDE DEF chunk
    <3>3. inbox' = inbox \/ inbox' = [inbox EXCEPT ![s] = Append(@, chunk)]
      BY <3>2 DEF Deliver
    <3>4. \A r \in Requests : HasEnd(r) => HasEnd(r)'
      BY <1>t, <2>1, <3>1, <3>3, AppendKeepsEnd
    <3>5. ASSUME NEW r \in Requests, r # s PROVE Spares(r)
      BY <1>1, <2>1, <2>2, <3>2, <3>4, <3>5 DEF Spares, InQueue, InTable, InHand
    <3>6. caller[s].pc = "wait" => HasEnd(s)' \/ s \in dropped'
      <4>1. CASE Deliver(s, chunk) /\ caller[s].pc = "wait"
        <5>1. inbox'[s] = Append(inbox[s], chunk) /\ inbox[s] \in Seq(Chunks)
          BY <1>t, <2>1, <4>1 DEF Deliver, Listening
        <5>2. Len(inbox[s]) + 1 \in DOMAIN inbox'[s] /\ inbox'[s][Len(inbox[s]) + 1] = chunk
          BY <3>1, <5>1
        <5> QED
          BY <3>1, <5>2 DEF HasEnd
      <4> QED
        BY <3>2, <4>1
    <3> QED
      BY <1>2, <3>5, <3>6, SparesAwaited DEF Awaited
  <2> QED
    BY <2>3, <2>4
<1>9. CASE ReaderCancel(c)
  <2> DEFINE s == reader[c].req
  <2>1. /\ s \in Requests /\ reader[c].pc = "cancel" /\ queue' = queue /\ inbox' = inbox
        /\ \E x : reader' = [reader EXCEPT ![c] = x]
    BY <1>9, <1>t DEF ReaderCancel, TypeInv, ReaderLocals
  <2>2. \A r \in Requests, d \in Clients : InHandOf(r, d) => InHandOf(r, d)'
    BY <1>t, <2>1 DEF InHandOf
  <2>3. CASE jobs[s] # None
    <3>1. Untrack(s) /\ dropped' = dropped \cup {s}
      BY <1>9, <2>3 DEF ReaderCancel
    <3>2. \A r \in Requests : r # s => jobs'[r] = jobs[r]
      BY <1>t, <2>1, <3>1, UntrackPlaces
    <3>3. ASSUME NEW r \in Requests, r # s PROVE Spares(r)
      BY <1>1, <2>1, <2>2, <3>1, <3>2, <3>3 DEF Spares, InQueue, InTable, InHand, HasEnd
    <3> QED
      BY <1>2, <3>1, <3>3, SparesAwaited DEF Awaited
  <2>4. CASE jobs[s] = None
    <3>1. jobs' = jobs /\ dropped' = dropped
      BY <1>9, <2>4 DEF ReaderCancel
    <3> QED
      BY <1>1, <1>3, <2>1, <2>2, <3>1 DEF Spares, InQueue, InTable, InHand, HasEnd
  <2> QED
    BY <2>3, <2>4
<1>10. CASE \E s \in Requests : SweepOrphan(c, s)
  <2>1. PICK s \in Requests : SweepOrphan(c, s)
    BY <1>10
  <2>2. /\ reader[c].pc = "sweep" /\ queue' = queue /\ inbox' = inbox /\ dropped' = dropped
        /\ \E x : reader' = [reader EXCEPT ![c] = x]
    BY <2>1 DEF SweepOrphan, histVars
  <2>3. \A r \in Requests, d \in Clients : InHandOf(r, d) => InHandOf(r, d)'
    BY <1>t, <2>2 DEF InHandOf
  <2>4. CASE HeldBy(s, c)
    <3>1. Untrack(s) /\ reader'[c].pc = "decr" /\ reader'[c].req = s
      <4> DEFINE x == [[reader[c] EXCEPT !.orphans = @ \ {s}]
                         EXCEPT !.pc = "decr", !.req = s, !.from = "sweep",
                                !.copy = IF MayRetry(jobs[s]) THEN retryRequest(jobs[s].copy) ELSE None]
      <4>1. Untrack(s) /\ reader' = [reader EXCEPT ![c] = x]
        BY <2>1, <2>4 DEF SweepOrphan
      <4>2. x.pc = "decr" /\ x.req = s
        BY <1>t DEF ReaderStates
      <4> HIDE DEF x
      <4> QED
        BY <1>t, <4>1, <4>2
    <3>2. \A r \in Requests : r # s => jobs'[r] = jobs[r]
      BY <1>t, <3>1, UntrackPlaces
    <3>3. ASSUME NEW r \in Requests, r # s PROVE Spares(r)
      BY <1>1, <2>2, <2>3, <3>2, <3>3 DEF Spares, InQueue, InTable, InHand, HasEnd
    <3> QED
      BY <1>2, <3>1, <3>3, SparesAwaited DEF Awaited, InHandOf
  <2>5. CASE ~ HeldBy(s, c)
    <3>1. jobs' = jobs
      BY <2>1, <2>5 DEF SweepOrphan
    <3> QED
      BY <1>1, <1>3, <2>2, <2>3, <3>1 DEF Spares, InQueue, InTable, InHand, HasEnd
  <2> QED
    BY <2>4, <2>5
<1> QED
  BY <1>5, <1>6, <1>7, <1>8, <1>9, <1>10 DEF HubStep, ReaderStep

(* A message of a worker answers or takes in hand only the job it names
   (hub.go:600-735). *)
LEMMA WorkerAwaits ==
  ASSUME CopyInv, LostInv, NEW w \in work, WorkerMsg(w)
  PROVE  LostInv'
<1> DEFINE c == w.client
           s == w.req
<1>t. /\ TypeInv /\ reader \in [Clients -> ReaderStates] /\ inbox \in [Requests -> Seq(Chunks)]
      /\ jobs \in [Requests -> Jobs \cup {None}] /\ c \in Clients /\ s \in Requests /\ w.n \in Nat
      /\ reader[c] \in ReaderStates
  BY DEF CopyInv, TypeInv, TypeOK, WorkItems
<1>1. caller' = caller /\ sched' = sched /\ queue' = queue /\ dropped' = dropped /\ reader[c].pc = "read"
  BY DEF WorkerMsg, MsgOutput, MsgDone, MsgError, MsgRelease, histVars, Reading
<1> HIDE DEF c, s
<1>2. ASSUME \A r \in Requests : Awaited(r) => Awaited(r)' PROVE LostInv'
  BY <1>1, <1>2 DEF LostInv
<1>3. \A x : reader' = [reader EXCEPT ![c] = x] =>
               \A r \in Requests, d \in Clients : InHandOf(r, d) => InHandOf(r, d)'
  BY <1>t, <1>1 DEF InHandOf
<1>4. CASE MsgOutput(w)
  <2>1. \A r \in Requests : InTable(r) => InTable(r)'
    <3>1. \/ jobs' = jobs
          \/ jobs' = [jobs EXCEPT ![s] = [jobs[s] EXCEPT !.produced = TRUE]] /\ jobs[s] # None
      BY <1>4 DEF MsgOutput, HeldBy, s, c
    <3>2. jobs[s] # None => [jobs[s] EXCEPT !.produced = TRUE] \in Jobs
      BY <1>t DEF Jobs
    <3> QED
      BY <1>t, <3>1, <3>2, NoneAssumption DEF InTable
  <2>2. [n |-> w.n, kind |-> "output"] \in Chunks
    BY <1>t DEF Chunks
  <2>3. inbox' = inbox \/ inbox' = [inbox EXCEPT ![s] = Append(@, [n |-> w.n, kind |-> "output"])]
    BY <1>4 DEF MsgOutput, Deliver, s
  <2>4. \A r \in Requests : HasEnd(r) => HasEnd(r)'
    BY <1>t, <2>2, <2>3, AppendKeepsEnd
  <2>5. reader' = reader \/ \E x : reader' = [reader EXCEPT ![c] = x]
    BY <1>4 DEF MsgOutput, c
  <2>6. \A r \in Requests, d \in Clients : InHandOf(r, d) => InHandOf(r, d)'
    BY <1>3, <2>5 DEF InHandOf
  <2> QED
    BY <1>1, <1>2, <2>1, <2>4, <2>6, SparesAwaited DEF Spares, InQueue, InHand
<1>5. ASSUME NEW from, NEW copy, TakeJob(w, from, copy), inbox' = inbox PROVE LostInv'
  <2>1. Untrack(s) /\ \A r \in Requests : r # s => jobs'[r] = jobs[r]
    BY <1>t, <1>5, UntrackPlaces DEF TakeJob, s
  <2>2. InHandOf(s, c)'
    <3> DEFINE x == [reader[c] EXCEPT !.pc = "decr", !.req = s, !.from = from, !.copy = copy, !.n = w.n]
    <3>1. reader' = [reader EXCEPT ![c] = x]
      BY <1>5 DEF TakeJob, s, c
    <3>2. x.pc = "decr" /\ x.req = s
      BY <1>t DEF ReaderStates
    <3> HIDE DEF x
    <3> QED
      BY <1>t, <3>1, <3>2 DEF InHandOf
  <2>3. \E x : reader' = [reader EXCEPT ![c] = x]
    BY <1>5 DEF TakeJob, c
  <2>4. ASSUME NEW r \in Requests, r # s PROVE Spares(r)
    BY <1>1, <1>3, <1>5, <2>1, <2>3, <2>4 DEF Spares, InQueue, InTable, InHand, HasEnd
  <2> QED
    BY <1>t, <1>2, <2>2, <2>4, SparesAwaited DEF Awaited
<1>6. ASSUME jobs' = jobs, inbox' = inbox, reader' = reader \/ \E x : reader' = [reader EXCEPT ![c] = x]
      PROVE  LostInv'
  <2>1. \A r \in Requests, d \in Clients : InHandOf(r, d) => InHandOf(r, d)'
    BY <1>3, <1>6 DEF InHandOf
  <2> QED
    BY <1>1, <1>2, <1>6, <2>1, SparesAwaited DEF Spares, InQueue, InTable, InHand, HasEnd
<1>7. CASE ~ MsgOutput(w)
  <2>1. /\ inbox' = inbox
        /\ \/ jobs' = jobs /\ (reader' = reader \/ \E x : reader' = [reader EXCEPT ![c] = x])
           \/ \E from, copy : TakeJob(w, from, copy)
    BY <1>7 DEF WorkerMsg, MsgDone, MsgError, MsgRelease, c
  <2> QED
    BY <1>5, <1>6, <2>1
<1> QED
  BY <1>4, <1>7

(* An expired lease drops its request (hub.go, handleExpiredLeases). *)
LEMMA ReaperAwaits ==
  ASSUME TypeInv, LostInv, ReaperStep
  PROVE  LostInv'
<1>1. /\ caller' = caller /\ sched' = sched /\ queue' = queue /\ reader' = reader /\ inbox' = inbox
      /\ \A r \in Requests : r \in dropped => r \in dropped'
      /\ \A r \in Requests : InTable(r) => InTable(r)' \/ r \in dropped'
  BY DEF ReaperStep, LeaseScan, LeaseFree, InTable, histVars
<1> QED
  BY <1>1 DEF LostInv, Awaited, InQueue, InHand, HasEnd, InHandOf

(* A handler that waits has its request somewhere, the end of its answer on its way, or
   a job the hub dropped: no failure on the way loses a request (scheduler.go:461-486,
   hub.go:399-428). *)
THEOREM DispatchNothingLost == Spec => []NothingLost
<1>1. Init => LostInv
  BY DEF Init, LostInv
<1>2. CopyInv /\ LostInv /\ [Next]_vars => LostInv'
  <2>1. SUFFICES ASSUME CopyInv, LostInv, [Next]_vars PROVE LostInv'
    OBVIOUS
  <2>2. CASE UNCHANGED vars
    BY <2>1, <2>2 DEF vars, hubVars, histVars, LostInv, Awaited, InQueue, InTable, InHand, HasEnd, InHandOf
  <2>3. CASE Next
    BY <2>1, <2>3, HandlerAwaits, SchedAwaits, HubAwaits, WorkerAwaits, ReaperAwaits DEF Next, CopyInv
  <2> QED
    BY <2>1, <2>2, <2>3
<1>3. CopyInv /\ LostInv => NothingLost
  <2>1. SUFFICES ASSUME CopyInv, LostInv, NEW r \in Requests, caller[r].pc = "wait"
                 PROVE  Places(r) # {} \/ Returning(r) # {} \/ inbox[r] # << >> \/ r \in dropped
    BY DEF NothingLost
  <2>2. Awaited(r)
    BY <2>1 DEF LostInv
  <2>3. inbox[r] \in Seq(Chunks) /\ (HasEnd(r) => inbox[r] # << >>)
    BY <2>1 DEF CopyInv, TypeInv, TypeOK, HasEnd
  <2> QED
    BY <2>2, <2>3 DEF Awaited, Places, Returning, InQueue, InTable, InHandOf
<1> QED
  BY <1>1, <1>2, <1>3, InitCopyInv, NextCopyInv, PTL DEF Spec

-----------------------------------------------------------------------------
(* One answer, from one dispatch, after a bounded number of them.          *)

\* The scheduler has tracked r and has not sent it.
AtSend(r) == sched.req = r /\ sched.pc \in {"send", "untrack"}

\* Nobody is going to dispatch r.
Resting(r) ==
  ~ InQueue(r) /\ ~ InHand(r) /\ ~ AtSend(r) /\ \A c \in Clients : ~ InReader(r, c)

\* The goroutine of c is about to deliver the last chunk of r.
Ending(r, c) == InHandOf(r, c) /\ reader[c].from = "done"

\* Something of an answer has reached the router.
Spoken(r) ==
  \/ seen[r] # {}
  \/ \E i \in DOMAIN inbox[r] : inbox[r][i].kind # "error"
  \/ \E c \in Clients : Ending(r, c)

Live(c) == conn[c] \in {"open", "up"}

(* A worker that has a streaming request has its last dispatch, alone. *)
WorkOK(r) ==
  \A w \in work : w.req = r =>
    /\ w.n = sent[r] /\ Resting(r)
    /\ InTable(r) => jobs[r].client = w.client
    /\ \A v \in work : v.req = r => v = w

(* What the scheduler tracks goes to the client it tracked it on, and as long as
   that one can be sent to nobody else moves the request. *)
SendOK(r) ==
  AtSend(r) =>
    /\ conn[sched.client] # "off"
    /\ InTable(r) => jobs[r].client = sched.client
    /\ sched.pc = "send" /\ Live(sched.client) =>
         ~ InQueue(r) /\ \A c \in Clients : ~ InReader(r, c)

(* A request with output is not going to be dispatched again, so that all its
   output is of the last dispatch. *)
SpokenOK(r) ==
  /\ Spoken(r) => Resting(r) /\ (InTable(r) => jobs[r].produced)
  /\ seen[r] \subseteq {sent[r]}
  /\ \A i \in DOMAIN inbox[r] : inbox[r][i].kind # "error" => inbox[r][i].n = sent[r]
  /\ \A c \in Clients : Ending(r, c) => reader[c].n = sent[r]

(* Dispatches made, and the one about to be made, against the attempts counted
   in a copy: one behind while a job is tracked. *)
Pending(r) == IF AtSend(r) THEN 1 ELSE 0
Fits(r, copy) ==
  copy.attempts < MaxAttempts /\ sent[r] + Pending(r) <= copy.attempts + yields[r]
FitsSent(r, copy) ==
  copy.attempts < MaxAttempts /\ sent[r] + Pending(r) <= copy.attempts + 1 + yields[r]

BoundOK(r) ==
  /\ InQueue(r) => Fits(r, queue[r])
  /\ InHand(r) => Fits(r, sched.copy)
  /\ \A c \in Clients : InReader(r, c) => Fits(r, reader[c].copy)
  /\ InTable(r) => FitsSent(r, jobs[r].copy)
  /\ AtSend(r) => FitsSent(r, sched.copy)
  /\ sent[r] + Pending(r) <= MaxAttempts + yields[r]
  /\ caller[r].pc = "new" => sent[r] = 0

StreamOK(r) == WorkOK(r) /\ SendOK(r) /\ SpokenOK(r) /\ BoundOK(r)

(* A batch answer is one chunk, with which the handler ends. *)
BatchOK(r) ==
  /\ \A i \in DOMAIN inbox[r] : inbox[r][i].kind # "output"
  /\ caller[r].pc # "done" => seen[r] = {}
  /\ \A i, j \in seen[r] : i = j

NewOK(r) ==
  caller[r].pc = "new" =>
    ~ Spoken(r) /\ ~ AtSend(r) /\ \A w \in work : w.req # r

AnswerOK(r) ==
  /\ NewOK(r)
  /\ ~ IsBatch(r) => StreamOK(r)
  /\ IsBatch(r) => BatchOK(r)

AnswerInv ==
  /\ \A w \in work : Live(w.client)
  /\ \A r \in Requests : AnswerOK(r)

(* A step that gives r no new place, puts nothing new in its answer and sends it to
   nobody. *)
NoNewPlace(r) ==
  /\ InQueue(r)' => InQueue(r) /\ queue'[r] = queue[r]
  /\ InHand(r)' => InHand(r) /\ sched'.copy = sched.copy
  /\ AtSend(r)' => /\ AtSend(r) /\ sched'.copy = sched.copy /\ sched'.client = sched.client
                   /\ sched'.pc = "send" => sched.pc = "send"
  /\ \A c \in Clients : InReader(r, c)' => InReader(r, c) /\ reader'[c].copy = reader[c].copy
  /\ InTable(r)' => /\ InTable(r)
                    /\ jobs'[r].client = jobs[r].client /\ jobs'[r].copy = jobs[r].copy
                    /\ jobs[r].produced => jobs'[r].produced

NothingSaid(r) ==
  /\ seen'[r] = seen[r]
  /\ \A i \in DOMAIN inbox'[r] : inbox'[r][i].kind # "error" =>
       \E j \in DOMAIN inbox[r] : inbox[r][j] = inbox'[r][i]
  /\ \A c \in Clients : Ending(r, c)' => Ending(r, c) /\ reader'[c].n = reader[c].n
  /\ \A w \in work' : w.req = r => w \in work

SameCaller(r) ==
  /\ caller'[r].kind = caller[r].kind
  /\ caller'[r].pc = "new" => caller[r].pc = "new"
  /\ caller[r].pc = "done" => caller'[r].pc = "done"

SameCount(r) == sent'[r] = sent[r] /\ yields'[r] = yields[r]

Calm(r) == NoNewPlace(r) /\ NothingSaid(r) /\ SameCaller(r) /\ SameCount(r)

(* Connections close, and open once. *)
LinksClose ==
  \A c \in Clients : /\ Live(c)' => Live(c) \/ conn[c] = "off"
                     /\ conn'[c] = "off" => conn[c] = "off"

(* A batch answer that gets nothing new stays as it should be. *)
LEMMA BatchKeeps ==
  ASSUME NEW r \in Requests, BatchOK(r), NothingSaid(r), SameCaller(r)
  PROVE  BatchOK(r)'
<1>1. ASSUME NEW i \in DOMAIN inbox'[r], inbox'[r][i].kind = "output" PROVE FALSE
  <2>1. \E j \in DOMAIN inbox[r] : inbox[r][j] = inbox'[r][i]
    BY <1>1 DEF NothingSaid
  <2> QED
    BY <1>1, <2>1 DEF BatchOK
<1> QED
  BY <1>1 DEF BatchOK, NothingSaid, SameCaller

(* A step that gives r no new place and no new worker keeps what is said of its
   places. *)
LEMMA PlacesKeep ==
  ASSUME TypeInv, TypeInv', LinksClose, NEW r \in Requests, StreamOK(r), NoNewPlace(r), SameCaller(r),
         SameCount(r), \A w \in work' : w.req = r => w \in work
  PROVE  (Resting(r) => Resting(r)') /\ WorkOK(r)' /\ SendOK(r)' /\ BoundOK(r)'
<1>t. /\ sent[r] \in Nat /\ yields[r] \in Nat /\ MaxAttempts \in Nat
      /\ sched \in SchedStates /\ SchedLocals
  BY DispatchAssumption DEF TypeInv, TypeOK
<1>r. Resting(r) => Resting(r)'
  BY DEF Resting, NoNewPlace
<1>w. WorkOK(r)'
  <2>1. ASSUME NEW w \in work', w.req = r
        PROVE  /\ w.n = sent'[r] /\ Resting(r)' /\ (InTable(r)' => jobs'[r].client = w.client)
               /\ \A v \in work' : v.req = r => v = w
    BY <1>r, <2>1 DEF StreamOK, WorkOK, NoNewPlace, SameCount
  <2> QED
    BY <2>1 DEF WorkOK
<1>s. SendOK(r)'
  <2>1. SUFFICES ASSUME AtSend(r)'
                 PROVE  /\ conn'[sched'.client] # "off"
                        /\ InTable(r)' => jobs'[r].client = sched'.client
                        /\ sched'.pc = "send" /\ Live(sched.client)' =>
                             ~ InQueue(r)' /\ \A c \in Clients : ~ InReader(r, c)'
    BY DEF SendOK
  <2>2. AtSend(r) /\ sched'.client = sched.client /\ (sched'.pc = "send" => sched.pc = "send")
    BY <2>1 DEF NoNewPlace
  <2>3. sched.client \in Clients
    BY <1>t, <2>2 DEF AtSend, SchedLocals
  <2>4. conn[sched.client] # "off" /\ conn'[sched.client] # "off"
        /\ (Live(sched.client)' => Live(sched.client))
    BY <2>2, <2>3 DEF StreamOK, SendOK, LinksClose, Live
  <2> QED
    BY <2>2, <2>4 DEF StreamOK, SendOK, NoNewPlace
<1>b. BoundOK(r)'
  <2>1. Pending(r)' <= Pending(r) /\ Pending(r) \in Nat /\ Pending(r)' \in Nat
    BY DEF Pending, NoNewPlace
  <2>2. \A k \in Nat :
          /\ sent[r] + Pending(r) <= k + yields[r] => sent'[r] + Pending(r)' <= k + yields'[r]
          /\ sent[r] + Pending(r) <= k + 1 + yields[r] => sent'[r] + Pending(r)' <= k + 1 + yields'[r]
    BY <1>t, <2>1 DEF SameCount
  <2>3. /\ InQueue(r) => queue[r].attempts \in Nat
        /\ InHand(r) \/ AtSend(r) => sched.copy.attempts \in Nat
        /\ \A c \in Clients : InReader(r, c) => reader[c].copy.attempts \in Nat
        /\ InTable(r) => jobs[r].copy.attempts \in Nat
    BY DEF TypeInv, TypeOK, SchedLocals, InQueue, InHand, AtSend, InReader, InTable, ReaderStates, Jobs,
           Copies
  <2>5. InQueue(r)' => Fits(r, queue[r])'
    BY <2>2, <2>3 DEF StreamOK, BoundOK, NoNewPlace, Fits
  <2>6. InHand(r)' => Fits(r, sched.copy)'
    BY <2>2, <2>3 DEF StreamOK, BoundOK, NoNewPlace, Fits
  <2>7. \A c \in Clients : InReader(r, c)' => Fits(r, reader[c].copy)'
    BY <2>2, <2>3 DEF StreamOK, BoundOK, NoNewPlace, Fits
  <2>8. InTable(r)' => FitsSent(r, jobs[r].copy)'
    BY <2>2, <2>3 DEF StreamOK, BoundOK, NoNewPlace, FitsSent
  <2>9. AtSend(r)' => FitsSent(r, sched.copy)'
    BY <2>2, <2>3 DEF StreamOK, BoundOK, NoNewPlace, FitsSent
  <2>10. (sent[r] + Pending(r))' <= MaxAttempts + yields'[r]
    BY <1>t, <2>1 DEF StreamOK, BoundOK, SameCount
  <2>11. caller'[r].pc = "new" => sent'[r] = 0
    BY DEF StreamOK, BoundOK, SameCount, SameCaller
  <2> QED
    BY <2>5, <2>6, <2>7, <2>8, <2>9, <2>10, <2>11 DEF BoundOK
<1> QED
  BY <1>r, <1>w, <1>s, <1>b

(* Such a step keeps what is said of r. *)
LEMMA CalmKeeps ==
  ASSUME TypeInv, TypeInv', LinksClose, NEW r \in Requests, AnswerOK(r), Calm(r)
  PROVE  AnswerOK(r)'
<1> USE DEF Calm
<1>1. Spoken(r)' => Spoken(r)
  BY DEF Spoken, NothingSaid
<1>2. NewOK(r)'
  BY <1>1 DEF AnswerOK, NewOK, NoNewPlace, NothingSaid, SameCaller
<1>3. ASSUME IsBatch(r)' PROVE BatchOK(r)'
  <2>1. BatchOK(r)
    BY <1>3 DEF AnswerOK, IsBatch, SameCaller
  <2> QED
    BY <2>1, BatchKeeps
<1>4. ASSUME ~ IsBatch(r)' PROVE StreamOK(r)'
  <2>1. StreamOK(r)
    BY <1>4 DEF AnswerOK, IsBatch, SameCaller
  <2>2. (Resting(r) => Resting(r)') /\ WorkOK(r)' /\ SendOK(r)' /\ BoundOK(r)'
    BY <2>1, PlacesKeep DEF NothingSaid
  <2>3. SpokenOK(r)'
    BY <1>1, <2>1, <2>2 DEF StreamOK, SpokenOK, NoNewPlace, NothingSaid, SameCount
  <2> QED
    BY <2>2, <2>3 DEF StreamOK
<1> QED
  BY <1>2, <1>3, <1>4 DEF AnswerOK

(* A step that adds to the answer of r, which nobody is going to dispatch, what its
   last dispatch has said. *)
LEMMA SpeakKeeps ==
  ASSUME TypeInv, TypeInv', LinksClose, NEW r \in Requests, AnswerOK(r), NoNewPlace(r), SameCaller(r),
         SameCount(r), \A w \in work' : w.req = r => w \in work,
         caller[r].pc # "new", seen'[r] = seen[r],
         \A i \in DOMAIN inbox'[r] :
           \/ \E j \in DOMAIN inbox[r] : inbox[r][j] = inbox'[r][i]
           \/ IF IsBatch(r) THEN inbox'[r][i].kind # "output"
              ELSE inbox'[r][i].kind # "error" => inbox'[r][i].n = sent[r],
         ~ IsBatch(r) => /\ Resting(r)
                         /\ InTable(r)' => jobs'[r].produced
                         /\ \A c \in Clients : Ending(r, c)' => reader'[c].n = sent[r]
  PROVE  AnswerOK(r)'
<1>1. NewOK(r)' /\ (IsBatch(r)' <=> IsBatch(r))
  BY DEF NewOK, SameCaller, IsBatch
<1>2. ASSUME IsBatch(r) PROVE BatchOK(r)'
  <2>1. BatchOK(r)
    BY <1>2 DEF AnswerOK
  <2>2. \A i \in DOMAIN inbox'[r] : inbox'[r][i].kind # "output"
    BY <1>2, <2>1 DEF BatchOK
  <2> QED
    BY <2>1, <2>2 DEF BatchOK, SameCaller
<1>3. ASSUME ~ IsBatch(r) PROVE StreamOK(r)'
  <2>1. StreamOK(r)
    BY <1>3 DEF AnswerOK
  <2>2. Resting(r)' /\ WorkOK(r)' /\ SendOK(r)' /\ BoundOK(r)'
    BY <1>3, <2>1, PlacesKeep
  <2>3. \A i \in DOMAIN inbox'[r] : inbox'[r][i].kind # "error" => inbox'[r][i].n = sent[r]
    BY <1>3, <2>1 DEF StreamOK, SpokenOK
  <2>4. SpokenOK(r)'
    BY <1>3, <2>1, <2>2, <2>3 DEF StreamOK, SpokenOK, SameCount
  <2> QED
    BY <2>2, <2>4 DEF StreamOK
<1> QED
  BY <1>1, <1>2, <1>3 DEF AnswerOK

(* A step that changes nothing of r is calm for r. *)
LEMMA SameCalm ==
  ASSUME NEW r \in Requests, sched' = sched, reader' = reader, \A w \in work' : w.req = r => w \in work,
         caller'[r] = caller[r], queue'[r] = queue[r], jobs'[r] = jobs[r], inbox'[r] = inbox[r],
         seen'[r] = seen[r], sent'[r] = sent[r], yields'[r] = yields[r]
  PROVE  Calm(r)
<1>1. NoNewPlace(r)
  BY DEF NoNewPlace, InQueue, InHand, AtSend, InReader, InTable
<1>2. NothingSaid(r)
  BY DEF NothingSaid, Ending, InHandOf
<1> QED
  BY <1>1, <1>2 DEF Calm, SameCaller, SameCount

(* A handler puts a request in the queue once, unless it is a batch retry, and holds
   only what came through its channel (handler.go:602-951). *)
LEMMA HandlerAnswers ==
  ASSUME CopyInv, TypeInv', AnswerInv, NEW s \in Requests, Handler(s)
  PROVE  AnswerInv'
<1>t. /\ TypeInv /\ caller \in [Requests -> CallerStates] /\ inbox \in [Requests -> Seq(Chunks)]
      /\ jobs \in [Requests -> Jobs \cup {None}] /\ queue \in [Requests -> Copies \cup {None}]
      /\ seen \in [Requests -> SUBSET Nat] /\ sent \in [Requests -> Nat] /\ yields \in [Requests -> Nat]
      /\ caller[s] \in CallerStates /\ seen[s] \in SUBSET Nat /\ sent[s] \in Nat /\ yields[s] \in Nat
      /\ MaxAttempts \in Nat \ {0}
  BY DispatchAssumption DEF CopyInv, TypeInv, TypeOK
<1>f. /\ sched' = sched /\ reader' = reader /\ conn' = conn /\ work' = work /\ sent' = sent /\ yields' = yields
      /\ \A r \in Requests : r # s =>
           /\ caller'[r] = caller[r] /\ queue'[r] = queue[r] /\ jobs'[r] = jobs[r]
           /\ inbox'[r] = inbox[r] /\ seen'[r] = seen[r]
  BY <1>t, HandlerFrame
<1>l. LinksClose
  BY <1>f DEF LinksClose, Live
<1>o. AnswerOK(s)
  BY DEF AnswerInv
<1>1. ASSUME AnswerOK(s)' PROVE AnswerInv'
  <2>1. \A w \in work' : Live(w.client)'
    BY <1>f DEF AnswerInv, Live
  <2>2. ASSUME NEW r \in Requests, r # s PROVE AnswerOK(r)'
    <3>1. Calm(r)
      BY <1>f, <2>2, SameCalm
    <3> QED
      BY <1>t, <1>l, <3>1, CalmKeeps DEF AnswerInv
  <2> QED
    BY <1>1, <2>1, <2>2 DEF AnswerInv
<1>2. ASSUME InQueue(s)' => InQueue(s) /\ queue'[s] = queue[s],
             jobs'[s] = jobs[s] \/ jobs'[s] = None, seen'[s] = seen[s],
             inbox'[s] = inbox[s] \/ inbox'[s] = << >>, SameCaller(s)
      PROVE  AnswerInv'
  <2>1. NoNewPlace(s)
    BY <1>f, <1>2 DEF NoNewPlace, InHand, AtSend, InReader, InTable
  <2>2. NothingSaid(s)
    BY <1>f, <1>2 DEF NothingSaid, Ending, InHandOf
  <2>3. Calm(s)
    BY <1>f, <1>2, <2>1, <2>2 DEF Calm, SameCount
  <2> QED
    BY <1>t, <1>l, <1>o, <1>1, <2>3, CalmKeeps
<1>3. CASE GiveUp(s) \/ BatchTimeout(s) \/ CancelUntrack(s) \/ CancelFree(s)
  <2>1. SameCaller(s)
    BY <1>3, <1>t DEF SameCaller, GiveUp, BatchTimeout, CancelUntrack, CancelFree, CallerStates
  <2>2. seen' = seen /\ inbox' = inbox
    BY <1>3 DEF GiveUp, BatchTimeout, CancelUntrack, CancelFree, histVars
  <2>3. InQueue(s)' => InQueue(s) /\ queue'[s] = queue[s]
    BY <1>3, <1>t DEF GiveUp, BatchTimeout, CancelUntrack, CancelFree, InQueue
  <2>4. jobs'[s] = jobs[s] \/ jobs'[s] = None
    BY <1>3, <1>t DEF GiveUp, BatchTimeout, CancelUntrack, CancelFree, hubVars, Untrack
  <2> QED
    BY <1>2, <2>1, <2>2, <2>3, <2>4
<1>4. CASE AfterCancel(s) /\ caller[s].next = "end"
  <2>1. /\ caller' = [caller EXCEPT ![s].pc = "done"] /\ inbox' = [inbox EXCEPT ![s] = << >>]
        /\ queue' = queue /\ jobs' = jobs /\ seen' = seen
    BY <1>4 DEF AfterCancel, hubVars
  <2>2. SameCaller(s) /\ inbox'[s] = << >>
    BY <1>t, <2>1 DEF SameCaller, CallerStates
  <2> QED
    BY <1>2, <2>1, <2>2 DEF InQueue
<1>5. CASE AfterCancel(s) /\ caller[s].next # "end"
  <2>1. /\ caller[s].next = "retry" /\ seen'[s] = {} /\ inbox'[s] = << >>
        /\ caller'[s].pc = "wait" /\ caller'[s].kind = caller[s].kind
    BY <1>5, <1>t DEF AfterCancel, CallerStates
  <2>2. IsBatch(s) /\ IsBatch(s)'
    BY <2>1 DEF IsBatch, CopyInv, PlaceInv
  <2> QED
    BY <1>1, <2>1, <2>2 DEF AnswerOK, NewOK, BatchOK
<1>6. ASSUME NEW kind \in Kinds, Enqueue(s, kind) PROVE AnswerInv'
  <2>1. /\ caller[s].pc = "new" /\ seen' = seen /\ inbox' = inbox /\ jobs' = jobs
    BY <1>6 DEF Enqueue, histVars, hubVars
  <2>2. CASE caller' = [caller EXCEPT ![s].pc = "done"] /\ queue' = queue
    <3>1. SameCaller(s)
      BY <1>t, <2>1, <2>2 DEF SameCaller, CallerStates
    <3> QED
      BY <1>2, <2>1, <2>2, <3>1 DEF InQueue
  <2>3. CASE ~ (caller' = [caller EXCEPT ![s].pc = "done"] /\ queue' = queue)
    <3>1. /\ caller' = [caller EXCEPT ![s].pc = "wait", ![s].kind = kind]
          /\ queue' = [queue EXCEPT ![s] = [attempts |-> 0, model |-> Alias]]
      BY <1>6, <2>3 DEF Enqueue, Push
    <3>2. caller'[s].pc = "wait" /\ queue'[s].attempts = 0
      BY <1>t, <3>1 DEF CallerStates
    <3>3. /\ Nowhere(s) /\ ~ IsBatch(s) /\ ~ Spoken(s) /\ ~ AtSend(s) /\ \A w \in work : w.req # s
      BY <1>o, <2>1 DEF AnswerOK, NewOK, CopyInv, PlaceInv
    <3>4. StreamOK(s) /\ sent[s] = 0
      BY <1>o, <2>1, <3>3 DEF AnswerOK, StreamOK, BoundOK
    <3>5. /\ ~ Spoken(s)' /\ ~ AtSend(s)' /\ ~ InHand(s)' /\ ~ InTable(s)'
          /\ \A c \in Clients : ~ InReader(s, c)' /\ ~ Ending(s, c)'
      BY <1>f, <2>1, <3>3 DEF Spoken, AtSend, InHand, InTable, InReader, Nowhere, Ending, InHandOf
    <3>6. seen[s] = {} /\ \A i \in DOMAIN inbox[s] : inbox[s][i].kind = "error"
      BY <3>3 DEF Spoken
    <3>7. WorkOK(s)' /\ SendOK(s)' /\ SpokenOK(s)'
      BY <1>f, <2>1, <3>3, <3>5, <3>6 DEF WorkOK, SendOK, SpokenOK
    <3>8. BoundOK(s)'
      BY <1>f, <1>t, <3>2, <3>4, <3>5 DEF BoundOK, Fits, Pending
    <3>9. BatchOK(s)'
      BY <2>1, <3>6 DEF BatchOK
    <3>10. NewOK(s)'
      BY <3>2 DEF NewOK
    <3>11. AnswerOK(s)'
      BY <3>7, <3>8, <3>9, <3>10 DEF AnswerOK, StreamOK
    <3> QED
      BY <1>1, <3>11
  <2> QED
    BY <2>2, <2>3
<1>7. CASE ReadChunk(s)
  <2> DEFINE chunk == Head(inbox[s])
  <2>1. /\ caller[s].pc = "wait" /\ inbox[s] # << >> /\ inbox[s] \in Seq(Chunks)
        /\ queue' = queue /\ jobs' = jobs
    BY <1>7, <1>t DEF ReadChunk, hubVars
  <2>2. chunk \in Chunks /\ 1 \in DOMAIN inbox[s] /\ inbox[s][1] = chunk
    <3>1. ASSUME NEW q \in Seq(Chunks), q # << >>
          PROVE  Head(q) \in Chunks /\ 1 \in DOMAIN q /\ q[1] = Head(q)
      BY <3>1
    <3> QED
      BY <2>1, <3>1
  <2>3. /\ chunk.kind = "error" => seen' = seen
        /\ chunk.kind # "error" => seen'[s] = seen[s] \cup {chunk.n}
        /\ chunk.kind = "output" => inbox'[s] = Tail(inbox[s]) /\ caller' = caller
        /\ chunk.kind # "output" => inbox'[s] = << >> /\ caller' = [caller EXCEPT ![s].pc = "done"]
    BY <1>7, <1>t DEF ReadChunk
  <2>4. \A i \in DOMAIN inbox'[s] : i + 1 \in DOMAIN inbox[s] /\ inbox'[s][i] = inbox[s][i + 1]
    <3>1. ASSUME NEW q \in Seq(Chunks), q # << >>
          PROVE  \A i \in DOMAIN Tail(q) : i + 1 \in DOMAIN q /\ Tail(q)[i] = q[i + 1]
      BY <3>1
    <3>2. DOMAIN << >> = {}
      OBVIOUS
    <3> QED
      BY <2>1, <2>3, <3>1, <3>2
  <2> HIDE DEF chunk
  <2>5. SameCaller(s) /\ caller'[s].pc # "new" /\ (IsBatch(s)' <=> IsBatch(s))
    BY <1>t, <2>1, <2>3 DEF SameCaller, CallerStates, IsBatch
  <2>6. CASE chunk.kind = "error"
    <3>1. inbox'[s] = << >> /\ seen'[s] = seen[s]
      BY <2>3, <2>6
    <3> QED
      BY <1>2, <2>1, <2>5, <3>1 DEF InQueue
  <2>7. CASE chunk.kind # "error"
    <3>1. NewOK(s)'
      BY <2>5 DEF NewOK
    <3>2. ASSUME IsBatch(s)' PROVE BatchOK(s)'
      <4>1. BatchOK(s)
        BY <1>o, <2>5, <3>2 DEF AnswerOK
      <4>2. chunk.kind # "output" /\ seen[s] = {}
        BY <2>1, <2>2, <4>1 DEF BatchOK
      <4>3. inbox'[s] = << >> /\ caller'[s].pc = "done" /\ seen'[s] = {chunk.n}
        BY <1>t, <2>3, <2>7, <4>2 DEF CallerStates
      <4> QED
        BY <4>3 DEF BatchOK
    <3>3. ASSUME ~ IsBatch(s)' PROVE StreamOK(s)'
      <4>1. StreamOK(s)
        BY <1>o, <2>5, <3>3 DEF AnswerOK
      <4>2. Spoken(s) /\ chunk.n = sent[s]
        BY <2>2, <2>7, <4>1 DEF Spoken, StreamOK, SpokenOK
      <4>3. /\ (InQueue(s)' <=> InQueue(s)) /\ (InHand(s)' <=> InHand(s)) /\ (AtSend(s)' <=> AtSend(s))
            /\ (InTable(s)' <=> InTable(s))
            /\ \A c \in Clients : (InReader(s, c)' <=> InReader(s, c)) /\ (Ending(s, c)' <=> Ending(s, c))
        BY <1>f, <2>1 DEF InQueue, InHand, AtSend, InReader, Ending, InHandOf, InTable
      <4>4. Resting(s) /\ Resting(s)'
        BY <4>1, <4>2, <4>3 DEF StreamOK, SpokenOK, Resting
      <4>5. WorkOK(s)'
        BY <1>f, <2>1, <4>1, <4>3, <4>4 DEF StreamOK, WorkOK
      <4>6. SendOK(s)'
        BY <4>4 DEF SendOK, Resting
      <4>7. SpokenOK(s)'
        <5>1. seen'[s] \subseteq {sent[s]}
          BY <2>3, <2>7, <4>1, <4>2 DEF StreamOK, SpokenOK
        <5>2. \A i \in DOMAIN inbox'[s] : inbox'[s][i].kind # "error" => inbox'[s][i].n = sent[s]
          BY <2>4, <4>1 DEF StreamOK, SpokenOK
        <5>3. InTable(s) => jobs[s].produced
          BY <4>1, <4>2 DEF StreamOK, SpokenOK
        <5>4. \A c \in Clients : Ending(s, c)' => reader'[c].n = sent[s]
          BY <1>f, <4>1, <4>3 DEF StreamOK, SpokenOK
        <5> QED
          BY <1>f, <2>1, <4>3, <4>4, <5>1, <5>2, <5>3, <5>4 DEF SpokenOK
      <4>8. BoundOK(s)'
        <5>1. Pending(s)' = Pending(s)
          BY <4>3 DEF Pending
        <5> QED
          BY <1>f, <2>1, <2>5, <4>1, <4>3, <5>1 DEF StreamOK, BoundOK, Fits, FitsSent
      <4> QED
        BY <4>5, <4>6, <4>7, <4>8 DEF StreamOK
    <3>4. AnswerOK(s)'
      BY <3>1, <3>2, <3>3 DEF AnswerOK
    <3> QED
      BY <1>1, <3>4
  <2> QED
    BY <2>6, <2>7
<1> QED
  BY <1>3, <1>4, <1>5, <1>6, <1>7 DEF Handler

(* A streaming request without an answer or a worker may go anywhere. *)
LEMMA RetryAnswer ==
  ASSUME NEW s \in Requests, AnswerOK(s), caller[s].pc # "new", NothingSaid(s), SameCaller(s),
         ~ IsBatch(s) => ~ Spoken(s) /\ (\A w \in work' : w.req # s) /\ SendOK(s)' /\ BoundOK(s)'
  PROVE  AnswerOK(s)'
<1>1. NewOK(s)' /\ (IsBatch(s)' <=> IsBatch(s))
  BY DEF NewOK, SameCaller, IsBatch
<1>2. ASSUME ~ IsBatch(s) PROVE WorkOK(s)' /\ SpokenOK(s)'
  <2>1. ~ Spoken(s)'
    BY <1>2 DEF Spoken, NothingSaid
  <2> QED
    BY <1>2, <2>1 DEF WorkOK, SpokenOK, Spoken
<1> QED
  BY <1>1, <1>2, BatchKeeps DEF AnswerOK, StreamOK

(* A request that is on its way has no answer and no worker, and a step that moves it
   gives it neither. *)
LEMMA MoveAnswer ==
  ASSUME PlaceInv, NEW s \in Requests, AnswerOK(s), ~ Resting(s), NothingSaid(s), SameCaller(s),
         ~ IsBatch(s) => SendOK(s)' /\ BoundOK(s)'
  PROVE  AnswerOK(s)'
<1>1. caller[s].pc # "new"
  BY DEF AnswerOK, NewOK, PlaceInv, Nowhere, Resting
<1>2. ~ IsBatch(s) => ~ Spoken(s) /\ \A w \in work' : w.req # s
  BY DEF AnswerOK, StreamOK, WorkOK, SpokenOK, NothingSaid
<1> QED
  BY <1>1, <1>2, RetryAnswer

(* The scheduler sends a request it has tracked to a worker that nobody else has, and
   puts back only what it has not sent (scheduler.go:419-486). *)
LEMMA SchedAnswers ==
  ASSUME CopyInv, TypeInv', AnswerInv, SchedStep
  PROVE  AnswerInv'
<1>t. /\ TypeInv /\ PlaceInv /\ sched \in SchedStates /\ SchedLocals /\ MaxAttempts \in Nat
      /\ jobs \in [Requests -> Jobs \cup {None}] /\ queue \in [Requests -> Copies \cup {None}]
      /\ sent \in [Requests -> Nat] /\ yields \in [Requests -> Nat]
      /\ IdleSched \in SchedStates /\ IdleSched.pc = "idle" /\ IdleSched.req = None
      /\ \A r \in Requests : r # None
  <2>1. IdleSched \in SchedStates /\ IdleSched.pc = "idle" /\ IdleSched.req = None
    BY DEF IdleSched, SchedStates
  <2>2. \A r \in Requests : r # None
    BY NoneAssumption
  <2> QED
    BY <2>1, <2>2, DispatchAssumption DEF CopyInv, TypeInv, TypeOK
<1>f. caller' = caller /\ reader' = reader /\ inbox' = inbox /\ conn' = conn /\ seen' = seen /\ yields' = yields
  BY DEF SchedStep, DrainOnSignal, DrainOnTick, Pick, PopAndCount, TrackJob, SendJob, SendFails,
         SchedUntrack, SchedUncount, SchedRequeue, histVars, hubVars
<1>l. LinksClose
  BY <1>f DEF LinksClose, Live
<1>p. \A r \in Requests : /\ SameCaller(r)
                          /\ \A c \in Clients : /\ InReader(r, c)' <=> InReader(r, c)
                                                /\ Ending(r, c)' <=> Ending(r, c)
  BY <1>f DEF SameCaller, InReader, Ending, InHandOf
<1>c. ASSUME NEW r \in Requests, NoNewPlace(r), sent'[r] = sent[r], \A w \in work' : w.req = r => w \in work
      PROVE  AnswerOK(r)'
  <2>1. Calm(r)
    BY <1>c, <1>f, <1>p DEF Calm, NothingSaid, SameCount
  <2> QED
    BY <1>t, <1>l, <2>1, CalmKeeps DEF AnswerInv
<1>1. ASSUME work' = work, sent' = sent, \A r \in Requests : AnswerOK(r)' PROVE AnswerInv'
  BY <1>1, <1>f DEF AnswerInv, Live
<1>2. ASSUME work' = work, sent' = sent, \A r \in Requests : NoNewPlace(r) PROVE AnswerInv'
  BY <1>1, <1>2, <1>c
<1>3. ASSUME NEW s \in Requests, work' = work, sent' = sent, ~ Resting(s), SendOK(s)', BoundOK(s) => BoundOK(s)',
             \A r \in Requests : r # s => NoNewPlace(r)
      PROVE  AnswerInv'
  <2>1. NothingSaid(s)
    BY <1>f, <1>p, <1>3 DEF NothingSaid
  <2>2. AnswerOK(s) /\ (~ IsBatch(s) => BoundOK(s))
    BY DEF AnswerInv, AnswerOK, StreamOK
  <2>3. AnswerOK(s)'
    BY <1>t, <1>p, <1>3, <2>1, <2>2, MoveAnswer
  <2>4. \A r \in Requests : r # s => AnswerOK(r)'
    BY <1>3, <1>c
  <2> QED
    BY <1>1, <1>3, <2>3, <2>4
<1>4. ASSUME queue' = queue, jobs' = jobs, sent' = sent, work' = work, sched'.pc \in {"idle", "pick", "pop"}
      PROVE  AnswerInv'
  BY <1>2, <1>4, <1>p, <1>f DEF NoNewPlace, InQueue, InTable, InHand, AtSend
<1>5. CASE DrainOnSignal \/ DrainOnTick \/ Pick
  <2>1. queue' = queue /\ jobs' = jobs /\ sent' = sent /\ work' = work
    BY <1>5 DEF DrainOnSignal, DrainOnTick, Pick, histVars, hubVars
  <2>2. sched'.pc \in {"idle", "pick", "pop"}
    BY <1>5, <1>t DEF DrainOnSignal, DrainOnTick, Pick, StartDrain, SchedStates
  <2> QED
    BY <1>4, <2>1, <2>2
<1>6. CASE SendFails \/ SchedUncount
  <2>1. queue' = queue /\ jobs' = jobs /\ sent' = sent /\ work' = work
    BY <1>6 DEF SendFails, SchedUncount, histVars, hubVars
  <2>2. /\ sched'.req = sched.req /\ sched'.copy = sched.copy /\ sched'.client = sched.client
        /\ \/ sched.pc = "send" /\ sched'.pc = "untrack"
           \/ sched.pc = "uncount" /\ sched'.pc = "push"
    BY <1>6, <1>t DEF SendFails, SchedUncount, SchedStates
  <2>3. \A r \in Requests : NoNewPlace(r)
    BY <1>f, <1>p, <2>1, <2>2 DEF NoNewPlace, InQueue, InTable, InHand, AtSend
  <2> QED
    BY <1>2, <2>1, <2>3
<1>7. CASE PopAndCount
  <2>0. PICK s \in Requests : s = sched.req
    BY <1>7, <1>t DEF PopAndCount, SchedLocals
  <2>1. jobs' = jobs /\ sched.pc = "pop" /\ work' = work /\ sent' = sent
    BY <1>7 DEF PopAndCount, histVars
  <2>2. CASE queue[s] = None
    <3>1. queue' = queue /\ sched'.pc \in {"idle", "pick"}
      BY <1>7, <1>t, <2>0, <2>2 DEF PopAndCount, SchedStates
    <3> QED
      BY <1>4, <2>1, <3>1
  <2>3. CASE queue[s] # None
    <3>1. /\ queue' = [queue EXCEPT ![s] = None]
          /\ sched'.pc = "track" /\ sched'.req = s /\ sched'.copy.attempts = queue[s].attempts
      <4> DEFINE copy == [attempts |-> queue[s].attempts, model |-> Serves[sched.client]]
      <4>1. /\ queue' = [queue EXCEPT ![s] = None]
            /\ sched' = [sched EXCEPT !.pc = "track", !.copy = copy]
        BY <1>7, <2>0, <2>3 DEF PopAndCount
      <4>2. copy.attempts = queue[s].attempts
        OBVIOUS
      <4> HIDE DEF copy
      <4> QED
        BY <1>t, <2>0, <4>1, <4>2 DEF SchedStates
    <3>2. InQueue(s) /\ ~ InQueue(s)' /\ ~ AtSend(s) /\ ~ AtSend(s)' /\ (InTable(s)' <=> InTable(s))
      BY <1>t, <2>1, <2>3, <3>1 DEF InQueue, InTable, AtSend
    <3>3. \A r \in Requests : r # s => NoNewPlace(r)
      BY <1>f, <1>p, <1>t, <2>1, <3>1 DEF NoNewPlace, InQueue, InTable, InHand, AtSend
    <3>4. SendOK(s)' /\ ~ Resting(s)
      BY <3>2 DEF SendOK, Resting
    <3>5. BoundOK(s) => BoundOK(s)'
      <4>1. Pending(s)' = Pending(s)
        BY <3>2 DEF Pending
      <4> QED
        BY <1>f, <1>p, <2>1, <3>1, <3>2, <4>1 DEF BoundOK, Fits, FitsSent
    <3> QED
      BY <1>3, <2>1, <3>3, <3>4, <3>5
  <2> QED
    BY <2>2, <2>3
<1>8. CASE TrackJob
  <2>0. PICK s \in Requests : s = sched.req
    BY <1>8, <1>t DEF TrackJob, SchedLocals
  <2>1. /\ sched.pc = "track" /\ queue' = queue /\ work' = work /\ sent' = sent /\ InHand(s)
        /\ sched.client \in Clients /\ sched.copy \in Copies
    BY <1>8, <1>t, <2>0 DEF TrackJob, histVars, InHand, SchedLocals
  <2>2. CASE ~ Connected(sched.client)
    <3>1. jobs' = jobs /\ sched'.pc = "push" /\ sched'.req = sched.req /\ sched'.copy = sched.copy
      BY <1>8, <1>t, <2>2 DEF TrackJob, SchedStates
    <3>2. \A r \in Requests : NoNewPlace(r)
      BY <1>f, <1>p, <2>1, <3>1 DEF NoNewPlace, InQueue, InTable, InHand, AtSend
    <3> QED
      BY <1>2, <2>1, <3>2
  <2>3. CASE Connected(sched.client)
    <3>1. /\ jobs' = [jobs EXCEPT ![s] = [client |-> sched.client, copy |-> sched.copy, produced |-> FALSE]]
          /\ sched'.pc = "send" /\ sched'.req = s /\ sched'.copy = sched.copy /\ sched'.client = sched.client
      BY <1>8, <1>t, <2>0, <2>3 DEF TrackJob, SchedStates
    <3>2. jobs'[s].client = sched.client /\ jobs'[s].copy = sched.copy
      BY <1>t, <3>1
    <3>3. \A r \in Requests : r # s => NoNewPlace(r)
      BY <1>f, <1>p, <1>t, <2>1, <3>1 DEF NoNewPlace, InQueue, InTable, InHand, AtSend
    <3>4. ~ Resting(s) /\ AtSend(s)' /\ ~ InHand(s)' /\ ~ AtSend(s)
      BY <2>1, <3>1 DEF Resting, AtSend, InHand
    <3>5. ~ IsBatch(s) => ~ InQueue(s)' /\ \A c \in Clients : ~ InReader(s, c)'
      BY <1>p, <1>t, <2>1 DEF PlaceInv, OnePlace, InQueue
    <3>6. ~ IsBatch(s) => SendOK(s)'
      BY <1>f, <2>3, <3>1, <3>2, <3>5 DEF SendOK, Connected
    <3>7. ~ IsBatch(s) => BoundOK(s)'
      <4>1. ASSUME ~ IsBatch(s) PROVE BoundOK(s)'
        <5>1. BoundOK(s)
          BY <4>1 DEF AnswerInv, AnswerOK, StreamOK
        <5>2. Pending(s) = 0 /\ Pending(s)' = 1
          BY <3>4 DEF Pending
        <5>3. /\ sched.copy.attempts \in Nat /\ sched.copy.attempts < MaxAttempts
              /\ sent[s] \in Nat /\ yields[s] \in Nat /\ sent[s] <= sched.copy.attempts + yields[s]
          BY <1>t, <2>1, <5>1, <5>2 DEF BoundOK, Fits, Copies
        <5>4. sent[s] + 1 <= sched.copy.attempts + 1 + yields[s] /\ sent[s] + 1 <= MaxAttempts + yields[s]
          BY <1>t, <5>3
        <5>5. caller'[s].pc # "new"
          BY <1>f, <1>t, <2>1 DEF PlaceInv, Nowhere
        <5>6. FitsSent(s, sched.copy)' /\ FitsSent(s, jobs[s].copy)'
          BY <1>f, <2>1, <3>1, <3>2, <5>2, <5>3, <5>4 DEF FitsSent
        <5> QED
          BY <1>f, <2>1, <3>4, <3>5, <4>1, <5>2, <5>4, <5>5, <5>6 DEF BoundOK
      <4> QED
        BY <4>1
    <3>8. NothingSaid(s) /\ AnswerOK(s)
      BY <1>f, <1>p, <2>1 DEF NothingSaid, AnswerInv
    <3>9. AnswerOK(s)'
      BY <1>t, <1>p, <3>4, <3>6, <3>7, <3>8, MoveAnswer
    <3> QED
      BY <1>1, <1>c, <2>1, <3>3, <3>9
  <2> QED
    BY <2>2, <2>3
<1>9. CASE SchedUntrack
  <2>0. PICK s \in Requests : s = sched.req
    BY <1>9, <1>t DEF SchedUntrack, SchedLocals
  <2>1. sched.pc = "untrack" /\ queue' = queue /\ work' = work /\ sent' = sent /\ sched.copy \in Copies
    BY <1>9, <1>t DEF SchedUntrack, histVars, SchedLocals
  <2>2. CASE ~ HeldBy(s, sched.client)
    <3>1. jobs' = jobs /\ sched'.pc = "idle"
      BY <1>9, <1>t, <2>0, <2>2 DEF SchedUntrack
    <3> QED
      BY <1>4, <2>1, <3>1
  <2>3. CASE HeldBy(s, sched.client)
    <3>1. /\ Untrack(s) /\ sched'.pc = "uncount" /\ sched'.req = s /\ sched'.copy = sched.copy
      BY <1>9, <1>t, <2>0, <2>3 DEF SchedUntrack, SchedStates
    <3>2. ~ InTable(s)' /\ \A r \in Requests : r # s => jobs'[r] = jobs[r]
      BY <1>t, <3>1, UntrackPlaces
    <3>3. \A r \in Requests : r # s => NoNewPlace(r)
      BY <1>f, <1>p, <1>t, <2>1, <3>1, <3>2 DEF NoNewPlace, InQueue, InTable, InHand, AtSend
    <3>4. AtSend(s) /\ ~ AtSend(s)' /\ ~ InHand(s) /\ (InQueue(s)' <=> InQueue(s))
      BY <2>0, <2>1, <3>1 DEF AtSend, InHand, InQueue
    <3>5. ~ Resting(s) /\ SendOK(s)'
      BY <3>4 DEF Resting, SendOK
    <3>6. ASSUME BoundOK(s) PROVE BoundOK(s)'
      <4>1. Pending(s) = 1 /\ Pending(s)' = 0
        BY <3>4 DEF Pending
      <4>2. /\ sent[s] \in Nat /\ yields[s] \in Nat /\ sched.copy.attempts \in Nat
            /\ queue[s] # None => queue[s].attempts \in Nat
            /\ \A c \in Clients : InReader(s, c) => reader[c].copy.attempts \in Nat
        BY <1>t, <2>1 DEF Copies, TypeInv, TypeOK, InReader, ReaderStates
      <4>3. Fits(s, sched.copy)'
        BY <1>f, <2>1, <3>1, <3>4, <3>6, <4>1, <4>2 DEF BoundOK, FitsSent, Fits
      <4>4. InQueue(s)' => Fits(s, queue[s])'
        BY <1>f, <2>1, <3>4, <3>6, <4>1, <4>2 DEF BoundOK, Fits, InQueue
      <4>5. \A c \in Clients : InReader(s, c)' => Fits(s, reader[c].copy)'
        BY <1>f, <1>p, <2>1, <3>6, <4>1, <4>2 DEF BoundOK, Fits
      <4>6. sent'[s] + Pending(s)' <= MaxAttempts + yields'[s]
        BY <1>f, <1>t, <2>1, <3>6, <4>1, <4>2 DEF BoundOK
      <4> QED
        BY <1>f, <2>1, <3>2, <3>4, <3>6, <4>3, <4>4, <4>5, <4>6 DEF BoundOK
    <3> QED
      BY <1>3, <2>1, <3>3, <3>5, <3>6
  <2> QED
    BY <2>2, <2>3
<1>10. CASE SchedRequeue
  <2>0. PICK s \in Requests : s = sched.req
    BY <1>10, <1>t DEF SchedRequeue, SchedLocals
  <2>1. /\ jobs' = jobs /\ sched.pc = "push" /\ work' = work /\ sent' = sent
        /\ queue' = [queue EXCEPT ![s] = sched.copy] /\ sched' = IdleSched
    BY <1>10, <2>0 DEF SchedRequeue, Push, hubVars, histVars
  <2>2. \A r \in Requests : r # s => NoNewPlace(r)
    BY <1>f, <1>p, <1>t, <2>1 DEF NoNewPlace, InQueue, InTable, InHand, AtSend
  <2>3. /\ InHand(s) /\ ~ InHand(s)' /\ ~ AtSend(s) /\ ~ AtSend(s)' /\ (InTable(s)' <=> InTable(s))
        /\ queue'[s] = sched.copy
    BY <1>t, <2>0, <2>1 DEF InHand, InTable, AtSend
  <2>4. ~ Resting(s) /\ SendOK(s)'
    BY <2>3 DEF Resting, SendOK
  <2>5. BoundOK(s) => BoundOK(s)'
    <3>1. Pending(s)' = Pending(s)
      BY <2>3 DEF Pending
    <3> QED
      BY <1>f, <1>p, <2>1, <2>3, <3>1 DEF BoundOK, Fits, FitsSent
  <2> QED
    BY <1>3, <2>1, <2>2, <2>4, <2>5
<1>11. CASE SendJob
  <2>0. PICK s \in Requests, d \in Clients : s = sched.req /\ d = sched.client
    BY <1>11, <1>t DEF SendJob, SchedLocals
  <2> DEFINE item == [client |-> d, req |-> s, n |-> sent[s] + 1]
  <2>1. /\ sched.pc = "send" /\ Live(d) /\ queue' = queue /\ jobs' = jobs
        /\ work' = work \cup {item} /\ sent' = [sent EXCEPT ![s] = @ + 1]
    BY <1>11, <2>0 DEF SendJob, Live, hubVars
  <2>2. sched'.pc = "pick"
    BY <1>11, <1>t DEF SendJob, SchedStates
  <2>i. item.client = d /\ item.req = s /\ item.n = sent[s] + 1
    OBVIOUS
  <2> HIDE DEF item
  <2>3. \A w \in work' : Live(w.client)'
    BY <1>f, <2>1, <2>i DEF AnswerInv, Live
  <2>4. \A r \in Requests : NoNewPlace(r)
    BY <1>f, <1>p, <2>1, <2>2 DEF NoNewPlace, InQueue, InTable, InHand, AtSend
  <2>5. \A r \in Requests : r # s => AnswerOK(r)'
    BY <1>c, <1>t, <2>1, <2>4, <2>i
  <2>6. AtSend(s) /\ ~ Resting(s) /\ AnswerOK(s)
    BY <2>0, <2>1 DEF AtSend, Resting, AnswerInv
  <2>7. NewOK(s)'
    BY <1>f, <2>6 DEF AnswerOK, NewOK
  <2>8. IsBatch(s)' => BatchOK(s)'
    BY <1>f, <2>6 DEF AnswerOK, BatchOK, IsBatch
  <2>9. ASSUME ~ IsBatch(s)' PROVE StreamOK(s)'
    <3>1. StreamOK(s)
      BY <1>f, <2>6, <2>9 DEF AnswerOK, IsBatch
    <3>2. ~ InQueue(s) /\ (\A c \in Clients : ~ InReader(s, c)) /\ (InTable(s) => jobs[s].client = d)
      BY <2>0, <2>1, <2>6, <3>1 DEF StreamOK, SendOK
    <3>3. Resting(s)'
      BY <1>p, <2>1, <2>2, <3>2 DEF Resting, InQueue, InHand, AtSend
    <3>4. ~ Spoken(s) /\ \A w \in work : w.req # s
      BY <2>6, <3>1 DEF StreamOK, WorkOK, SpokenOK
    <3>5. sent'[s] = sent[s] + 1
      BY <1>t, <2>1
    <3>6. WorkOK(s)'
      <4>1. \A w \in work' : w.req = s => w = item
        BY <2>1, <3>4
      <4> QED
        BY <2>1, <2>i, <3>2, <3>3, <3>5, <4>1 DEF WorkOK, InTable
    <3>7. SendOK(s)'
      BY <3>3 DEF SendOK, Resting
    <3>8. SpokenOK(s)'
      BY <1>f, <1>p, <3>4 DEF SpokenOK, Spoken
    <3>9. BoundOK(s)'
      <4>1. Pending(s) = 1 /\ Pending(s)' = 0
        BY <2>6, <3>3 DEF Pending, Resting
      <4>2. /\ sent[s] \in Nat /\ yields[s] \in Nat /\ (InTable(s) => jobs[s].copy.attempts \in Nat)
        BY <1>t DEF Jobs, Copies, InTable
      <4>3. InTable(s)' => FitsSent(s, jobs[s].copy)'
        BY <1>f, <2>1, <3>1, <3>5, <4>1, <4>2 DEF StreamOK, BoundOK, FitsSent, InTable
      <4>4. sent'[s] + Pending(s)' <= MaxAttempts + yields'[s]
        BY <1>f, <1>t, <3>1, <3>5, <4>1, <4>2 DEF StreamOK, BoundOK
      <4>5. caller'[s].pc # "new"
        BY <1>f, <2>6 DEF AnswerOK, NewOK
      <4> QED
        BY <3>3, <4>3, <4>4, <4>5 DEF BoundOK, Resting
    <3> QED
      BY <3>6, <3>7, <3>8, <3>9 DEF StreamOK
  <2>10. AnswerOK(s)'
    BY <2>7, <2>8, <2>9 DEF AnswerOK
  <2> QED
    BY <2>3, <2>5, <2>10 DEF AnswerInv
<1> QED
  BY <1>5, <1>6, <1>7, <1>8, <1>9, <1>10, <1>11 DEF SchedStep

(* A job taken from the table to be tried again, or to be answered with an error
   (hub.go:399-428, 640-735). *)
LEMMA TakeAnswer ==
  ASSUME TypeInv, TypeInv', PlaceInv, LinksClose, NEW s \in Requests, NEW c \in Clients, AnswerOK(s),
         jobs[s] # None, jobs'[s] = None, queue' = queue, sched' = sched, conn' = conn,
         caller'[s] = caller[s], seen'[s] = seen[s], inbox'[s] = inbox[s], sent'[s] = sent[s],
         \A w \in work' : w.req = s => w \in work, reader[c].pc \notin {"decr", "act"},
         \A d \in Clients : d # c => reader'[d] = reader[d], reader'[c].from # "done",
         \/ reader'[c].copy = None /\ yields'[s] = yields[s]
         \/ /\ ~ jobs[s].produced /\ reader'[c].copy \in Copies
            /\ reader'[c].copy.attempts < MaxAttempts /\ yields'[s] >= yields[s]
            /\ reader'[c].copy.attempts + yields'[s] = jobs[s].copy.attempts + 1 + yields[s]
            /\ ~ IsBatch(s) => /\ \A w \in work' : w.req # s
                               /\ AtSend(s) => ~ Live(sched.client)
  PROVE  AnswerOK(s)'
<1>1. NothingSaid(s) /\ SameCaller(s) /\ caller[s].pc # "new"
  BY DEF NothingSaid, SameCaller, Ending, InHandOf, PlaceInv, Nowhere, InTable
<1>2. /\ (InQueue(s)' <=> InQueue(s)) /\ (InHand(s)' <=> InHand(s)) /\ (AtSend(s)' <=> AtSend(s))
      /\ InTable(s) /\ ~ InTable(s)'
      /\ \A d \in Clients : d # c => (InReader(s, d)' <=> InReader(s, d))
  BY DEF InQueue, InHand, AtSend, InTable, InReader
<1>3. CASE reader'[c].copy = None /\ yields'[s] = yields[s]
  <2>1. NoNewPlace(s)
    BY <1>2, <1>3 DEF NoNewPlace, InReader
  <2> QED
    BY <1>1, <1>3, <2>1, CalmKeeps DEF Calm, SameCount
<1>4. CASE ~ (reader'[c].copy = None /\ yields'[s] = yields[s])
  <2>1. ASSUME ~ IsBatch(s) PROVE ~ Spoken(s) /\ SendOK(s)' /\ BoundOK(s)'
    <3>1. WorkOK(s) /\ SendOK(s) /\ SpokenOK(s) /\ BoundOK(s)
      BY <2>1 DEF AnswerOK, StreamOK
    <3>2. ~ Spoken(s)
      BY <1>2, <1>4, <3>1 DEF SpokenOK
    <3>3. SendOK(s)'
      <4>1. Live(sched.client)' <=> Live(sched.client)
        BY DEF Live
      <4> QED
        BY <1>2, <1>4, <2>1, <3>1, <4>1 DEF SendOK
    <3>4. BoundOK(s)'
      <4>1. ~ InQueue(s)' /\ ~ InHand(s)' /\ \A d \in Clients : d # c => ~ InReader(s, d)'
        BY <1>2, <2>1 DEF PlaceInv, OnePlace
      <4>2. Pending(s)' = Pending(s) /\ Pending(s) \in {0, 1}
        BY <1>2 DEF Pending
      <4>3. /\ sent[s] \in Nat /\ yields[s] \in Nat /\ yields'[s] \in Nat /\ MaxAttempts \in Nat
            /\ jobs[s].copy.attempts \in Nat /\ reader'[c].copy.attempts \in Nat
            /\ AtSend(s) => sched.copy.attempts \in Nat
        BY <1>4, DispatchAssumption DEF TypeInv, TypeOK, Jobs, Copies, SchedLocals, AtSend
      <4>4. Fits(s, reader[c].copy)'
        BY <1>2, <1>4, <3>1, <4>2, <4>3 DEF BoundOK, FitsSent, Fits
      <4>5. AtSend(s)' => FitsSent(s, sched.copy)'
        BY <1>2, <1>4, <3>1, <4>2, <4>3 DEF BoundOK, FitsSent
      <4>6. sent'[s] + Pending(s)' <= MaxAttempts + yields'[s]
        BY <1>4, <3>1, <4>2, <4>3 DEF BoundOK
      <4> QED
        BY <1>1, <1>2, <4>1, <4>4, <4>5, <4>6 DEF BoundOK
    <3> QED
      BY <3>2, <3>3, <3>4
  <2> QED
    BY <1>1, <1>4, <2>1, RetryAnswer
<1> QED
  BY <1>3, <1>4

(* The cleanup after a connection begins when it is closed. *)
RemoveInv == \A c \in Clients : reader[c].pc = "remove" => ~ Live(c)

(* A goroutine with an answer in its hands delivers it or pushes the copy; a sweep
   takes only what no worker can still speak for (hub.go:346-441). *)
LEMMA HubAnswers ==
  ASSUME TableInv, TypeInv', RemoveInv, AnswerInv, NEW c \in Clients, HubStep(c)
  PROVE  AnswerInv'
<1>t. /\ TypeInv /\ PlaceInv /\ reader \in [Clients -> ReaderStates] /\ inbox \in [Requests -> Seq(Chunks)]
      /\ jobs \in [Requests -> Jobs \cup {None}] /\ queue \in [Requests -> Copies \cup {None}]
      /\ reader[c] \in ReaderStates /\ conn \in [Clients -> ConnStates] /\ work \subseteq WorkItems
      /\ sent \in [Requests -> Nat]
  BY DEF TableInv, CopyInv, TypeInv, TypeOK
<1>f. caller' = caller /\ sched' = sched /\ sent' = sent /\ yields' = yields /\ seen' = seen
  BY DEF HubStep, ReaderStep, Connect, MsgRegister, MsgDraining, MsgLocalBusy, Disconnect, ReaderDecr,
         ReaderAct, ReaderCancel, ReaderFree, RemoveClient, SnapshotOrphans, SweepOrphan, EndSweep, histVars
<1>l. LinksClose /\ work' \subseteq work /\ \A w \in work' : Live(w.client)'
  <2>1. CASE conn' = conn /\ work' = work
    BY <2>1 DEF LinksClose, Live, AnswerInv
  <2>2. CASE Connect(c)
    <3>1. conn[c] = "off" /\ conn' = [conn EXCEPT ![c] = "open"] /\ work' = work
      BY <2>2 DEF Connect
    <3> QED
      BY <1>t, <3>1 DEF LinksClose, Live, AnswerInv
  <2>3. CASE \E n \in 1..MaxSlots[c] : MsgRegister(c, n)
    <3>1. Live(c) /\ conn' = [conn EXCEPT ![c] = "up"] /\ work' = work
      BY <2>3 DEF MsgRegister, Reading, Live
    <3> QED
      BY <1>t, <3>1 DEF LinksClose, Live, AnswerInv
  <2>4. CASE Disconnect(c)
    <3>1. /\ \E x \in {"down", "closed"} : conn' = [conn EXCEPT ![c] = x]
          /\ work' = {w \in work : w.client # c}
      BY <2>4 DEF Disconnect
    <3> QED
      BY <1>t, <3>1 DEF LinksClose, Live, AnswerInv
  <2>5. CASE RemoveClient(c)
    <3>1. ~ Live(c) /\ conn' = [conn EXCEPT ![c] = "gone"] /\ work' = work
      BY <2>5 DEF RemoveClient, RemoveInv
    <3> QED
      BY <1>t, <3>1 DEF LinksClose, Live, AnswerInv
  <2>6. CASE ~ Connect(c) /\ ~ Disconnect(c) /\ ~ RemoveClient(c) /\ ~ \E n \in 1..MaxSlots[c] : MsgRegister(c, n)
    <3>1. conn' = conn /\ work' = work
      BY <2>6 DEF HubStep, ReaderStep, MsgDraining, MsgLocalBusy, ReaderDecr, ReaderAct, ReaderCancel,
                  ReaderFree, SnapshotOrphans, SweepOrphan, EndSweep, hubVars
    <3> QED
      BY <2>1, <3>1
  <2> QED
    BY <2>2, <2>3, <2>4, <2>5, <2>6
<1>p. \A r \in Requests : SameCaller(r) /\ SameCount(r)
  BY <1>f DEF SameCaller, SameCount
<1>1. ASSUME \A r \in Requests : AnswerOK(r)' PROVE AnswerInv'
  BY <1>1, <1>l DEF AnswerInv
<1>2. ASSUME NEW r \in Requests, queue'[r] = queue[r], jobs'[r] = jobs[r] \/ jobs'[r] = None,
             inbox'[r] = inbox[r],
             \A d \in Clients : /\ InReader(r, d)' => InReader(r, d) /\ reader'[d].copy = reader[d].copy
                                /\ Ending(r, d)' => Ending(r, d) /\ reader'[d].n = reader[d].n
      PROVE  AnswerOK(r)'
  <2>1. NoNewPlace(r)
    BY <1>2, <1>f DEF NoNewPlace, InQueue, InHand, AtSend, InTable
  <2>2. NothingSaid(r)
    BY <1>2, <1>f, <1>l DEF NothingSaid
  <2> QED
    BY <1>t, <1>p, <1>l, <2>1, <2>2, CalmKeeps DEF Calm, AnswerInv
<1>3. ASSUME NEW x, reader' = [reader EXCEPT ![c] = x], NEW r \in Requests,
             x.pc \notin {"decr", "act"} \/ x.req # r
      PROVE  \A d \in Clients : /\ InReader(r, d)' => InReader(r, d) /\ reader'[d].copy = reader[d].copy
                                /\ Ending(r, d)' => Ending(r, d) /\ reader'[d].n = reader[d].n
  BY <1>t, <1>3 DEF InReader, Ending, InHandOf
<1>4. ASSUME NEW x, reader' = [reader EXCEPT ![c] = x], x.pc \notin {"decr", "act"}, queue' = queue,
             inbox' = inbox, \A r \in Requests : jobs'[r] = jobs[r] \/ jobs'[r] = None
      PROVE  AnswerInv'
  BY <1>1, <1>2, <1>3, <1>4
<1>r. Rest(c).pc \notin {"decr", "act"}
  BY <1>t, RestType
<1>5. CASE \/ Connect(c) \/ Disconnect(c) \/ RemoveClient(c) \/ SnapshotOrphans(c) \/ EndSweep(c)
           \/ ReaderFree(c) \/ ReaderCancel(c)
  <2>1. queue' = queue /\ inbox' = inbox
    BY <1>5 DEF Connect, Disconnect, RemoveClient, SnapshotOrphans, EndSweep, ReaderFree, ReaderCancel
  <2>2. \A r \in Requests : jobs'[r] = jobs[r] \/ jobs'[r] = None
    BY <1>5, <1>t DEF Connect, Disconnect, RemoveClient, SnapshotOrphans, EndSweep, ReaderFree,
                      ReaderCancel, hubVars, Untrack
  <2>3. \E x : reader' = [reader EXCEPT ![c] = x] /\ x.pc \notin {"decr", "act"}
    <3>1. CASE EndSweep(c) \/ ReaderFree(c)
      BY <1>r, <3>1 DEF EndSweep, ReaderFree, IdleReader
    <3>2. CASE Connect(c) \/ Disconnect(c) \/ RemoveClient(c)
      <4>1. PICK p \in {"read", "remove", "snapshot"} : reader' = [reader EXCEPT ![c].pc = p]
        BY <3>2 DEF Connect, Disconnect, RemoveClient
      <4> DEFINE x == [reader[c] EXCEPT !.pc = p]
      <4>2. x.pc = p
        BY <1>t DEF ReaderStates
      <4>3. reader' = [reader EXCEPT ![c] = x]
        BY <4>1
      <4> HIDE DEF x
      <4> QED
        BY <4>2, <4>3
    <3>3. CASE SnapshotOrphans(c)
      <4> DEFINE x == [reader[c] EXCEPT !.pc = "sweep", !.orphans = {r \in jobsByClient[c] : jobs[r] # None}]
      <4>1. reader' = [reader EXCEPT ![c] = x]
        BY <3>3 DEF SnapshotOrphans
      <4>2. x.pc = "sweep"
        BY <1>t DEF ReaderStates
      <4> HIDE DEF x
      <4> QED
        BY <4>1, <4>2
    <3>4. CASE ReaderCancel(c)
      <4> DEFINE x == [reader[c] EXCEPT !.pc = "free", !.client = jobs[reader[c].req].client]
      <4>1. reader' = [reader EXCEPT ![c] = x] \/ reader' = [reader EXCEPT ![c] = Rest(c)]
        BY <3>4 DEF ReaderCancel
      <4>2. x.pc = "free"
        BY <1>t DEF ReaderStates
      <4> HIDE DEF x
      <4> QED
        BY <1>r, <4>1, <4>2
    <3> QED
      BY <1>5, <3>1, <3>2, <3>3, <3>4
  <2> QED
    BY <1>4, <2>1, <2>2, <2>3
<1>6. CASE \/ MsgDraining(c) \/ \E n \in 1..MaxSlots[c] : MsgRegister(c, n)
           \/ \E n \in LocalLoads : MsgLocalBusy(c, n)
  <2>1. queue' = queue /\ jobs' = jobs /\ inbox' = inbox /\ reader' = reader
    BY <1>6 DEF MsgDraining, MsgRegister, MsgLocalBusy
  <2> QED
    BY <1>1, <1>2, <2>1 DEF InReader, Ending, InHandOf
<1>7. CASE ReaderDecr(c)
  <2>1. queue' = queue /\ jobs' = jobs /\ inbox' = inbox
        /\ reader[c].pc = "decr" /\ reader' = [reader EXCEPT ![c].pc = "act"]
    BY <1>7 DEF ReaderDecr
  <2>2. /\ \A d \in Clients : d # c => reader'[d] = reader[d]
        /\ reader'[c].req = reader[c].req /\ reader'[c].copy = reader[c].copy
        /\ reader'[c].from = reader[c].from /\ reader'[c].n = reader[c].n
    BY <1>t, <2>1 DEF ReaderStates
  <2>3. \A r \in Requests, d \in Clients :
          /\ InReader(r, d)' => InReader(r, d) /\ reader'[d].copy = reader[d].copy
          /\ Ending(r, d)' => Ending(r, d) /\ reader'[d].n = reader[d].n
    BY <2>1, <2>2 DEF InReader, Ending, InHandOf
  <2> QED
    BY <1>1, <1>2, <2>1, <2>3
<1>8. CASE ReaderAct(c)
  <2>0. PICK s \in Requests : s = reader[c].req
    BY <1>8, <1>t DEF ReaderAct, TypeInv, ReaderLocals
  <2>1. /\ jobs' = jobs /\ reader[c].pc = "act" /\ conn' = conn
    BY <1>8 DEF ReaderAct, hubVars
  <2>x. PICK x : reader' = [reader EXCEPT ![c] = x] /\ x.pc \notin {"decr", "act"}
    <3>1. \/ reader' = [reader EXCEPT ![c] = Rest(c)]
          \/ reader' = [reader EXCEPT ![c] = [Rest(c) EXCEPT !.pc = "cancel", !.req = reader[c].req]]
      BY <1>8 DEF ReaderAct
    <3>2. [Rest(c) EXCEPT !.pc = "cancel", !.req = reader[c].req].pc = "cancel"
      BY <1>t, RestType DEF ReaderStates
    <3> QED
      BY <1>r, <3>1, <3>2
  <2>2. \A r \in Requests, d \in Clients :
               /\ InReader(r, d)' => InReader(r, d) /\ reader'[d].copy = reader[d].copy
               /\ Ending(r, d)' => Ending(r, d) /\ reader'[d].n = reader[d].n
    BY <1>3, <2>x
  <2>3. \A r \in Requests : r # s => queue'[r] = queue[r] /\ inbox'[r] = inbox[r]
    BY <1>8, <1>t, <2>0 DEF ReaderAct, Push, Deliver
  <2>4. ASSUME AnswerOK(s)' PROVE AnswerInv'
    BY <1>1, <1>2, <2>1, <2>2, <2>3, <2>4
  <2>5. AnswerOK(s)
    BY DEF AnswerInv
  <2>6. CASE reader[c].copy # None
    <3>1. queue' = [queue EXCEPT ![s] = reader[c].copy] /\ inbox' = inbox
      BY <1>8, <2>0, <2>6 DEF ReaderAct, Push
    <3>2. InReader(s, c) /\ ~ InReader(s, c)' /\ queue'[s] = reader[c].copy
      BY <1>t, <2>0, <2>1, <2>6, <2>x, <3>1 DEF InReader
    <3>3. NothingSaid(s) /\ ~ Resting(s)
      BY <1>f, <1>l, <2>2, <3>1, <3>2 DEF NothingSaid, Resting
    <3>4. ASSUME ~ IsBatch(s) PROVE SendOK(s)' /\ BoundOK(s)'
      <4>1. SendOK(s) /\ BoundOK(s)
        BY <2>5, <3>4 DEF AnswerOK, StreamOK
      <4>2. (AtSend(s)' <=> AtSend(s)) /\ (Live(sched.client)' <=> Live(sched.client)) /\ (InTable(s)' <=> InTable(s))
            /\ (InHand(s)' <=> InHand(s)) /\ Pending(s)' = Pending(s)
        BY <1>f, <2>1 DEF AtSend, Live, InTable, InHand, Pending
      <4>3. SendOK(s)'
        BY <1>f, <2>1, <3>2, <4>1, <4>2 DEF SendOK
      <4>4. BoundOK(s)'
        BY <1>f, <2>1, <2>2, <3>2, <4>1, <4>2 DEF BoundOK, Fits, FitsSent
      <4> QED
        BY <4>3, <4>4
    <3> QED
      BY <1>p, <1>t, <2>4, <2>5, <3>3, <3>4, MoveAnswer
  <2>7. CASE inbox' = inbox /\ reader[c].copy = None
    <3>1. queue' = queue
      BY <1>8, <2>7 DEF ReaderAct
    <3> QED
      BY <1>1, <1>2, <2>1, <2>2, <2>7, <3>1
  <2>8. CASE inbox' # inbox
    <3> DEFINE chunk == [n |-> reader[c].n, kind |-> IF reader[c].from = "done" THEN "done" ELSE "error"]
    <3>1. queue' = queue /\ inbox' = [inbox EXCEPT ![s] = Append(@, chunk)] /\ reader[c].copy = None
          /\ Listening(s)
      BY <1>8, <2>0, <2>8 DEF ReaderAct, Deliver
    <3>2. /\ chunk \in Chunks /\ chunk.n = reader[c].n /\ chunk.kind # "output"
          /\ chunk.kind # "error" => reader[c].from = "done"
      BY <1>t DEF Chunks, ReaderStates
    <3> HIDE DEF chunk
    <3>3. inbox'[s] = Append(inbox[s], chunk) /\ inbox[s] \in Seq(Chunks)
      BY <1>t, <3>1
    <3>4. \A i \in DOMAIN inbox'[s] :
            (\E j \in DOMAIN inbox[s] : inbox[s][j] = inbox'[s][i]) \/ inbox'[s][i] = chunk
      <4>1. ASSUME NEW q \in Seq(Chunks)
            PROVE  \A i \in DOMAIN Append(q, chunk) :
                     (i \in DOMAIN q /\ Append(q, chunk)[i] = q[i]) \/ Append(q, chunk)[i] = chunk
        BY <3>2
      <4> QED
        BY <3>3, <4>1
    <3>5. NoNewPlace(s)
      BY <1>f, <2>1, <2>2, <3>1 DEF NoNewPlace, InQueue, InHand, AtSend, InTable
    <3>6. CASE reader[c].from = "done"
      <4>1. Ending(s, c) /\ caller[s].pc # "new"
        BY <2>0, <2>1, <3>1, <3>6 DEF Ending, InHandOf, Listening
      <4>2. ASSUME ~ IsBatch(s)
            PROVE  /\ Resting(s) /\ (InTable(s)' => jobs'[s].produced) /\ reader[c].n = sent[s]
                   /\ \A d \in Clients : Ending(s, d)' => reader'[d].n = sent[s]
        <5>1. SpokenOK(s) /\ Spoken(s)
          BY <2>5, <4>1, <4>2 DEF AnswerOK, StreamOK, Spoken
        <5> QED
          BY <2>1, <2>2, <4>1, <5>1 DEF SpokenOK, InTable
      <4>3. \A i \in DOMAIN inbox'[s] :
              \/ \E j \in DOMAIN inbox[s] : inbox[s][j] = inbox'[s][i]
              \/ IF IsBatch(s) THEN inbox'[s][i].kind # "output"
                 ELSE inbox'[s][i].kind # "error" => inbox'[s][i].n = sent[s]
        BY <3>2, <3>4, <4>2
      <4>4. AnswerOK(s)'
        BY <1>t, <1>f, <1>l, <1>p, <2>5, <3>5, <4>1, <4>2, <4>3, SpeakKeeps
      <4> QED
        BY <2>4, <4>4
    <3>7. CASE reader[c].from # "done"
      <4>1. NothingSaid(s)
        BY <1>f, <1>l, <2>2, <3>2, <3>4, <3>7 DEF NothingSaid
      <4>2. AnswerOK(s)'
        BY <1>t, <1>l, <1>p, <2>5, <3>5, <4>1, CalmKeeps DEF Calm
      <4> QED
        BY <2>4, <4>2
    <3> QED
      BY <3>6, <3>7
  <2> QED
    BY <2>6, <2>7, <2>8
<1>9. CASE \E s \in Requests : SweepOrphan(c, s)
  <2>1. PICK s \in Requests : SweepOrphan(c, s)
    BY <1>9
  <2>2. reader[c].pc = "sweep" /\ queue' = queue /\ inbox' = inbox /\ conn' = conn /\ work' = work
    BY <2>1 DEF SweepOrphan
  <2>3. CASE ~ HeldBy(s, c)
    <3> DEFINE x == [reader[c] EXCEPT !.orphans = @ \ {s}]
    <3>1. jobs' = jobs /\ reader' = [reader EXCEPT ![c] = x]
      BY <2>1, <2>3 DEF SweepOrphan
    <3>2. x.pc = "sweep"
      BY <1>t, <2>2 DEF ReaderStates
    <3> HIDE DEF x
    <3> QED
      BY <1>4, <2>2, <3>1, <3>2
  <2>4. CASE HeldBy(s, c)
    <3> DEFINE retry == IF MayRetry(jobs[s]) THEN retryRequest(jobs[s].copy) ELSE None
               x == [[reader[c] EXCEPT !.orphans = @ \ {s}]
                       EXCEPT !.pc = "decr", !.req = s, !.from = "sweep", !.copy = retry]
    <3>1. Untrack(s) /\ reader' = [reader EXCEPT ![c] = x]
      BY <2>1, <2>4 DEF SweepOrphan
    <3>2. x.pc = "decr" /\ x.req = s /\ x.from = "sweep" /\ x.copy = retry
      <4> HIDE DEF retry
      <4> QED
        BY <1>t DEF ReaderStates
    <3>3. jobs[s] \in Jobs /\ jobs[s] # None /\ jobs[s].client = c /\ jobs[s].copy \in Copies
      BY <1>t, <2>4 DEF HeldBy, Jobs
    <3>4. /\ jobs[s].copy.attempts \in Nat
          /\ \/ retry = None
             \/ /\ ~ jobs[s].produced /\ retry \in Copies /\ retry.attempts < MaxAttempts
                /\ retry.attempts = jobs[s].copy.attempts + 1
      BY <3>3 DEF MayRetry, retryRequest, Copies
    <3> HIDE DEF x, retry
    <3>5. ~ InTable(s)' /\ \A r \in Requests : r # s => jobs'[r] = jobs[r]
      BY <1>t, <3>1, UntrackPlaces
    <3>6. \A r \in Requests : r # s => AnswerOK(r)'
      BY <1>2, <1>3, <2>2, <3>1, <3>2, <3>5
    <3>7. ~ Live(c)
      BY <2>2 DEF TableInv, CleanupInv, CleanupOK, Sweeping, Live
    <3>8. AnswerOK(s)
      BY DEF AnswerInv
    <3>9. ~ IsBatch(s) => (\A w \in work' : w.req # s) /\ (AtSend(s) => ~ Live(sched.client))
      BY <2>2, <3>3, <3>7, <3>8 DEF AnswerOK, StreamOK, WorkOK, SendOK, InTable, AnswerInv
    <3>10. /\ jobs'[s] = None /\ reader'[c] = x /\ \A d \in Clients : d # c => reader'[d] = reader[d]
           /\ yields[s] \in Nat
      BY <1>t, <3>1, <3>5 DEF InTable, TypeInv, TypeOK
    <3>11. \/ reader'[c].copy = None /\ yields'[s] = yields[s]
           \/ /\ ~ jobs[s].produced /\ reader'[c].copy \in Copies
              /\ reader'[c].copy.attempts < MaxAttempts /\ yields'[s] >= yields[s]
              /\ reader'[c].copy.attempts + yields'[s] = jobs[s].copy.attempts + 1 + yields[s]
              /\ ~ IsBatch(s) => /\ \A w \in work' : w.req # s
                                 /\ AtSend(s) => ~ Live(sched.client)
      BY <1>f, <3>2, <3>4, <3>9, <3>10
    <3>12. AnswerOK(s)'
      BY <1>f, <1>l, <1>t, <2>2, <3>2, <3>3, <3>8, <3>10, <3>11, TakeAnswer
    <3> QED
      BY <1>1, <3>6, <3>12
  <2> QED
    BY <2>3, <2>4
<1> QED
  BY <1>5, <1>6, <1>7, <1>8, <1>9 DEF HubStep, ReaderStep

(* Only Disconnect starts the cleanup (hub.go:367-391). *)
LEMMA NextRemoveInv ==
  ASSUME TypeInv, OffInv, RemoveInv, Next
  PROVE  RemoveInv'
<1>t. conn \in [Clients -> ConnStates] /\ reader \in [Clients -> ReaderStates]
  BY DEF TypeInv, TypeOK
<1>1. CASE conn' = conn /\ reader' = reader
  BY <1>1 DEF RemoveInv, Live
<1>2. ASSUME NEW c \in Clients, NEW x, x.pc # "remove", reader' = [reader EXCEPT ![c] = x],
             conn' = conn \/ \E y : conn' = [conn EXCEPT ![c] = y]
      PROVE  RemoveInv'
  BY <1>t, <1>2 DEF RemoveInv, Live
<1>3. ASSUME NEW c \in Clients, NEW p, p # "remove", reader' = [reader EXCEPT ![c].pc = p],
             conn' = conn \/ \E y : conn' = [conn EXCEPT ![c] = y]
      PROVE  RemoveInv'
  <2> DEFINE x == [reader[c] EXCEPT !.pc = p]
  <2>1. x.pc # "remove" /\ reader' = [reader EXCEPT ![c] = x]
    BY <1>t, <1>3 DEF ReaderStates
  <2> HIDE DEF x
  <2> QED
    BY <1>2, <1>3, <2>1
<1>4. ASSUME NEW r \in Requests, Handler(r) PROVE RemoveInv'
  BY <1>1, <1>4 DEF Handler, Enqueue, ReadChunk, GiveUp, BatchTimeout, CancelUntrack, CancelFree,
                    AfterCancel, hubVars
<1>5. CASE SchedStep
  BY <1>1, <1>5 DEF SchedStep, DrainOnSignal, DrainOnTick, Pick, PopAndCount, TrackJob, SendJob,
                    SendFails, SchedUntrack, SchedUncount, SchedRequeue, hubVars
<1>6. CASE ReaperStep
  BY <1>1, <1>6 DEF ReaperStep, LeaseScan, LeaseFree
<1>7. ASSUME NEW w \in work, WorkerMsg(w) PROVE RemoveInv'
  <2>1. w.client \in Clients /\ conn' = conn /\ reader[w.client].pc = "read" /\ reader[w.client] \in ReaderStates
    BY <1>7, <1>t DEF WorkerMsg, MsgOutput, MsgDone, MsgError, MsgRelease, Reading, TypeInv, TypeOK, WorkItems
  <2>2. reader'[w.client].pc # "remove" /\ \A d \in Clients : d # w.client => reader'[d] = reader[d]
    <3>1. ASSUME NEW from, NEW copy, TakeJob(w, from, copy)
          PROVE  /\ reader'[w.client].pc # "remove"
                 /\ \A d \in Clients : d # w.client => reader'[d] = reader[d]
      BY <1>t, <2>1, <3>1 DEF TakeJob, ReaderStates
    <3>2. CASE MsgOutput(w)
      BY <1>t, <2>1, <3>2 DEF MsgOutput, ReaderStates
    <3>3. CASE MsgDone(w)
      <4>1. CASE \E from, copy : TakeJob(w, from, copy)
        BY <3>1, <4>1
      <4>2. CASE ~ \E from, copy : TakeJob(w, from, copy)
        BY <1>t, <2>1, <3>3, <4>2 DEF MsgDone, ReaderStates
      <4> QED
        BY <4>1, <4>2
    <3>4. CASE \E final \in BOOLEAN : MsgError(w, final)
      BY <2>1, <3>1, <3>4 DEF MsgError
    <3>5. CASE \E reason \in {"busy", "shutdown"} : MsgRelease(w, reason)
      BY <2>1, <3>1, <3>5 DEF MsgRelease
    <3> QED
      BY <1>7, <3>2, <3>3, <3>4, <3>5 DEF WorkerMsg
  <2> QED
    BY <2>1, <2>2 DEF RemoveInv, Live
<1>8. ASSUME NEW c \in Clients, HubStep(c) PROVE RemoveInv'
  <2>r. Rest(c).pc \in {"read", "sweep"} /\ reader[c] \in ReaderStates
    BY <1>t, RestType
  <2>1. CASE Disconnect(c)
    <3>1. /\ \E x : reader' = [reader EXCEPT ![c] = x]
          /\ \E y \in {"down", "closed"} : conn' = [conn EXCEPT ![c] = y]
      BY <2>1 DEF Disconnect
    <3> QED
      BY <1>t, <3>1 DEF RemoveInv, Live
  <2>2. CASE Connect(c) \/ RemoveClient(c) \/ ReaderDecr(c)
    <3>1. \E p \in {"read", "snapshot", "act"} : reader' = [reader EXCEPT ![c].pc = p]
      BY <2>2 DEF Connect, RemoveClient, ReaderDecr
    <3>2. conn' = conn \/ \E y : conn' = [conn EXCEPT ![c] = y]
      BY <2>2 DEF Connect, RemoveClient, ReaderDecr
    <3> QED
      BY <1>3, <3>1, <3>2
  <2>3. CASE \E n \in 1..MaxSlots[c] : MsgRegister(c, n)
    <3>1. reader[c].pc = "read" /\ reader' = reader /\ \E y : conn' = [conn EXCEPT ![c] = y]
      BY <2>3 DEF MsgRegister, Reading
    <3> QED
      BY <1>t, <3>1 DEF RemoveInv, Live
  <2>4. CASE MsgDraining(c) \/ \E n \in LocalLoads : MsgLocalBusy(c, n)
    BY <1>1, <2>4 DEF MsgDraining, MsgLocalBusy
  <2>5. CASE EndSweep(c) \/ ReaderFree(c)
    <3>1. \E x : x.pc # "remove" /\ reader' = [reader EXCEPT ![c] = x]
      BY <2>5, <2>r DEF EndSweep, ReaderFree, IdleReader
    <3>2. conn' = conn
      BY <2>5 DEF EndSweep, ReaderFree
    <3> QED
      BY <1>2, <3>1, <3>2
  <2>6. CASE ReaderAct(c)
    <3>1. \/ reader' = [reader EXCEPT ![c] = Rest(c)]
          \/ reader' = [reader EXCEPT ![c] = [Rest(c) EXCEPT !.pc = "cancel", !.req = reader[c].req]]
      BY <2>6 DEF ReaderAct
    <3>2. [Rest(c) EXCEPT !.pc = "cancel", !.req = reader[c].req].pc = "cancel"
      BY <1>t, RestType DEF ReaderStates
    <3>3. conn' = conn
      BY <2>6 DEF ReaderAct, hubVars
    <3> QED
      BY <1>2, <2>r, <3>1, <3>2, <3>3
  <2>7. CASE ReaderCancel(c)
    <3> DEFINE x == [reader[c] EXCEPT !.pc = "free", !.client = jobs[reader[c].req].client]
    <3>1. reader' = [reader EXCEPT ![c] = x] \/ reader' = [reader EXCEPT ![c] = Rest(c)]
      BY <2>7 DEF ReaderCancel
    <3>2. x.pc = "free" /\ conn' = conn
      BY <2>7, <2>r DEF ReaderStates, ReaderCancel
    <3> HIDE DEF x
    <3> QED
      BY <1>2, <2>r, <3>1, <3>2
  <2>8. CASE SnapshotOrphans(c)
    <3> DEFINE x == [reader[c] EXCEPT !.pc = "sweep", !.orphans = {r \in jobsByClient[c] : jobs[r] # None}]
    <3>1. reader' = [reader EXCEPT ![c] = x] /\ conn' = conn
      BY <2>8 DEF SnapshotOrphans, hubVars
    <3>2. x.pc = "sweep"
      BY <2>r DEF ReaderStates
    <3> HIDE DEF x
    <3> QED
      BY <1>2, <3>1, <3>2
  <2>9. ASSUME NEW s \in Requests, SweepOrphan(c, s) PROVE RemoveInv'
    <3> DEFINE left == [reader[c] EXCEPT !.orphans = @ \ {s}]
               copy == IF MayRetry(jobs[s]) THEN retryRequest(jobs[s].copy) ELSE None
               x == [left EXCEPT !.pc = "decr", !.req = s, !.from = "sweep", !.copy = copy]
    <3>1. reader' = [reader EXCEPT ![c] = x] \/ reader' = [reader EXCEPT ![c] = left]
      BY <2>9 DEF SweepOrphan
    <3>2. left.pc = reader[c].pc /\ x.pc = "decr"
      <4> HIDE DEF copy
      <4> QED
        BY <2>r DEF ReaderStates
    <3>3. conn' = conn /\ reader[c].pc = "sweep"
      BY <2>9 DEF SweepOrphan
    <3> HIDE DEF x, left
    <3> QED
      BY <1>2, <3>1, <3>2, <3>3
  <2> QED
    BY <1>8, <2>1, <2>2, <2>3, <2>4, <2>5, <2>6, <2>7, <2>8, <2>9 DEF HubStep, ReaderStep
<1> QED
  BY <1>4, <1>5, <1>6, <1>7, <1>8 DEF Next

(* What a worker says belongs to the last dispatch of its request, and what it hands
   back unanswered it will not speak of again (hub.go:600-735). *)
LEMMA WorkerAnswers ==
  ASSUME CopyInv, TypeInv', AnswerInv, NEW w \in work, WorkerMsg(w)
  PROVE  AnswerInv'
<1>0. PICK c \in Clients, s \in Requests, k \in Nat : w.client = c /\ w.req = s /\ w.n = k
  BY DEF CopyInv, TypeInv, TypeOK, WorkItems
<1>t. /\ TypeInv /\ PlaceInv /\ reader \in [Clients -> ReaderStates] /\ inbox \in [Requests -> Seq(Chunks)]
      /\ jobs \in [Requests -> Jobs \cup {None}] /\ reader[c] \in ReaderStates
      /\ sent \in [Requests -> Nat] /\ yields \in [Requests -> Nat] /\ sent[s] \in Nat /\ yields[s] \in Nat
  BY DEF CopyInv, TypeInv, TypeOK
<1>f. caller' = caller /\ sched' = sched /\ queue' = queue /\ sent' = sent /\ seen' = seen /\ conn' = conn
      /\ work' \subseteq work /\ reader[c].pc = "read"
  BY <1>0 DEF WorkerMsg, MsgOutput, MsgDone, MsgError, MsgRelease, histVars, Reading
<1>l. LinksClose /\ \A v \in work' : Live(v.client)'
  BY <1>f DEF LinksClose, Live, AnswerInv
<1>1. ASSUME NEW r \in Requests, jobs'[r] = jobs[r], inbox'[r] = inbox[r], yields'[r] = yields[r],
             \A d \in Clients : /\ InReader(r, d)' => InReader(r, d) /\ reader'[d].copy = reader[d].copy
                                /\ Ending(r, d)' => Ending(r, d) /\ reader'[d].n = reader[d].n
      PROVE  AnswerOK(r)'
  <2>1. NoNewPlace(r)
    BY <1>1, <1>f DEF NoNewPlace, InQueue, InHand, AtSend, InTable
  <2>2. NothingSaid(r) /\ SameCaller(r) /\ SameCount(r)
    BY <1>1, <1>f DEF NothingSaid, SameCaller, SameCount
  <2> QED
    BY <1>t, <1>l, <2>1, <2>2, CalmKeeps DEF Calm, AnswerInv
<1>2. ASSUME AnswerOK(s)', \A r \in Requests : r # s =>
               jobs'[r] = jobs[r] /\ inbox'[r] = inbox[r] /\ yields'[r] = yields[r],
             \A d \in Clients : d # c => reader'[d] = reader[d],
             reader' = reader \/ reader'[c].pc \notin {"decr", "act"} \/ reader'[c].req = s
      PROVE  AnswerInv'
  <2>1. \A r \in Requests, d \in Clients : r # s =>
          /\ InReader(r, d)' => InReader(r, d) /\ reader'[d].copy = reader[d].copy
          /\ Ending(r, d)' => Ending(r, d) /\ reader'[d].n = reader[d].n
    BY <1>2 DEF InReader, Ending, InHandOf
  <2>2. \A r \in Requests : r # s => AnswerOK(r)'
    BY <1>1, <1>2, <2>1
  <2> QED
    BY <1>2, <1>l, <2>2 DEF AnswerInv
<1>3. AnswerOK(s) /\ caller[s].pc # "new" /\ reader[c].copy = None
  BY <1>0, <1>f DEF AnswerInv, AnswerOK, NewOK, CopyInv, ReaderClean
<1>4. ASSUME ~ IsBatch(s)
      PROVE  /\ Resting(s) /\ k = sent[s] /\ (InTable(s) => HeldBy(s, c))
             /\ \A v \in work : v.req = s => v = w
             /\ Spoken(s) => (InTable(s) => jobs[s].produced)
             /\ \A d \in Clients : Ending(s, d) => reader[d].n = sent[s]
  <2>1. WorkOK(s) /\ SpokenOK(s)
    BY <1>3, <1>4 DEF AnswerOK, StreamOK
  <2> QED
    BY <1>0, <2>1 DEF WorkOK, SpokenOK, HeldBy, InTable
<1>5. CASE MsgOutput(w)
  <2>0. ~ IsBatch(s) /\ yields' = yields
    BY <1>0, <1>5 DEF MsgOutput, histVars
  <2>1. /\ \A r \in Requests : r # s => jobs'[r] = jobs[r]
        /\ InTable(s)' => InTable(s)
        /\ InTable(s) => /\ jobs'[s].client = jobs[s].client /\ jobs'[s].copy = jobs[s].copy
                         /\ jobs'[s].produced
    <3>1. CASE InTable(s)
      <4>1. jobs' = [jobs EXCEPT ![s] = [jobs[s] EXCEPT !.produced = TRUE]]
        BY <1>0, <1>4, <1>5, <2>0, <3>1 DEF MsgOutput
      <4>2. jobs[s] \in Jobs
        BY <1>t, <3>1 DEF InTable
      <4> QED
        BY <1>t, <3>1, <4>1, <4>2 DEF Jobs
    <3>2. CASE ~ InTable(s)
      <4>1. jobs' = jobs
        BY <1>0, <1>5, <3>2 DEF MsgOutput, HeldBy, InTable
      <4> QED
        BY <3>2, <4>1 DEF InTable
    <3> QED
      BY <3>1, <3>2
  <2>2. /\ \A d \in Clients : d # c => reader'[d] = reader[d]
        /\ reader' = reader \/ reader'[c].pc \notin {"decr", "act"}
    <3>1. \/ reader' = reader
          \/ reader' = [reader EXCEPT ![c].pc = "cancel", ![c].req = s]
      BY <1>0, <1>5 DEF MsgOutput
    <3> QED
      BY <1>t, <3>1 DEF ReaderStates
  <2> DEFINE chunk == [n |-> k, kind |-> "output"]
  <2>3. chunk \in Chunks /\ chunk.n = k
    BY DEF Chunks
  <2>4. inbox' = inbox \/ inbox' = [inbox EXCEPT ![s] = Append(@, chunk)]
    BY <1>0, <1>5 DEF MsgOutput, Deliver
  <2> HIDE DEF chunk
  <2>5. \A r \in Requests : r # s => inbox'[r] = inbox[r]
    BY <1>t, <2>4
  <2>6. \A i \in DOMAIN inbox'[s] :
          (\E j \in DOMAIN inbox[s] : inbox[s][j] = inbox'[s][i]) \/ inbox'[s][i].n = sent[s]
    <3>1. ASSUME NEW q \in Seq(Chunks)
          PROVE  \A i \in DOMAIN Append(q, chunk) :
                   (i \in DOMAIN q /\ Append(q, chunk)[i] = q[i]) \/ Append(q, chunk)[i] = chunk
      BY <2>3
    <3>2. inbox[s] \in Seq(Chunks) /\ (inbox'[s] = inbox[s] \/ inbox'[s] = Append(inbox[s], chunk))
      BY <1>t, <2>4
    <3> QED
      BY <1>4, <2>0, <2>3, <3>1, <3>2
  <2>7. \A d \in Clients : /\ InReader(s, d)' => InReader(s, d) /\ reader'[d].copy = reader[d].copy
                           /\ Ending(s, d)' => Ending(s, d) /\ reader'[d].n = reader[d].n
    BY <2>2 DEF InReader, Ending, InHandOf
  <2>8. NoNewPlace(s)
    BY <1>f, <2>1, <2>7 DEF NoNewPlace, InQueue, InHand, AtSend
  <2>9. SameCaller(s) /\ SameCount(s)
    BY <1>f, <2>0 DEF SameCaller, SameCount
  <2>10. AnswerOK(s)'
    BY <1>f, <1>l, <1>t, <1>3, <1>4, <2>0, <2>1, <2>6, <2>7, <2>8, <2>9, SpeakKeeps
  <2> QED
    BY <1>2, <2>0, <2>1, <2>2, <2>5, <2>10
<1>6. CASE MsgDone(w)
  <2>0. inbox' = inbox /\ yields' = yields
    BY <1>6 DEF MsgDone, histVars
  <2>1. /\ \A r \in Requests : r # s => jobs'[r] = jobs[r]
        /\ HeldBy(s, c) => ~ InTable(s)'
        /\ ~ HeldBy(s, c) => jobs' = jobs
    <3>1. CASE HeldBy(s, c)
      <4>1. Untrack(s)
        BY <1>0, <1>6, <3>1 DEF MsgDone, TakeJob
      <4> QED
        BY <1>t, <3>1, <4>1, UntrackPlaces
    <3>2. CASE ~ HeldBy(s, c)
      BY <1>0, <1>6, <3>2 DEF MsgDone
    <3> QED
      BY <3>1, <3>2
  <2>2. /\ \A d \in Clients : d # c => reader'[d] = reader[d]
        /\ reader'[c].req = s /\ reader'[c].copy = None /\ reader'[c].n = k
    <3>1. \/ reader' = [reader EXCEPT ![c].pc = "decr", ![c].req = s, ![c].from = "done",
                                      ![c].copy = None, ![c].n = k]
          \/ reader' = [reader EXCEPT ![c].pc = "act", ![c].req = s, ![c].from = "done", ![c].n = k]
      BY <1>0, <1>6 DEF MsgDone, TakeJob
    <3> QED
      BY <1>t, <1>3, <3>1 DEF ReaderStates
  <2>3. \A d \in Clients : InReader(s, d)' => InReader(s, d) /\ reader'[d].copy = reader[d].copy
    BY <2>2 DEF InReader
  <2>4. ~ IsBatch(s) => /\ Resting(s) /\ (InTable(s)' => jobs'[s].produced)
                        /\ \A d \in Clients : Ending(s, d)' => reader'[d].n = sent[s]
    BY <1>4, <2>1, <2>2 DEF Ending, InHandOf, InTable, HeldBy
  <2>5. NoNewPlace(s)
    BY <1>f, <2>1, <2>3 DEF NoNewPlace, InQueue, InHand, AtSend, InTable
  <2>6. SameCaller(s) /\ SameCount(s)
    BY <1>f, <2>0 DEF SameCaller, SameCount
  <2>7. \A i \in DOMAIN inbox'[s] : \E j \in DOMAIN inbox[s] : inbox[s][j] = inbox'[s][i]
    BY <2>0
  <2>8. AnswerOK(s)'
    BY <1>f, <1>l, <1>t, <1>3, <2>4, <2>5, <2>6, <2>7, SpeakKeeps
  <2> QED
    BY <1>2, <2>0, <2>1, <2>2, <2>8
<1>7. ASSUME NEW from \in {"error", "release"}, NEW copy, TakeJob(w, from, copy), HeldBy(s, c),
             inbox' = inbox, work' = work \ {w}, \A r \in Requests : r # s => yields'[r] = yields[r],
             \/ copy = None /\ yields'[s] = yields[s]
             \/ /\ ~ jobs[s].produced /\ copy \in Copies
                /\ copy.attempts < MaxAttempts /\ yields'[s] >= yields[s]
                /\ copy.attempts + yields'[s] = jobs[s].copy.attempts + 1 + yields[s]
      PROVE  AnswerInv'
  <2>1. Untrack(s) /\ ~ InTable(s)' /\ \A r \in Requests : r # s => jobs'[r] = jobs[r]
    BY <1>0, <1>t, <1>7, UntrackPlaces DEF TakeJob
  <2>2. /\ \A d \in Clients : d # c => reader'[d] = reader[d]
        /\ reader'[c].req = s /\ reader'[c].copy = copy /\ reader'[c].from = from
    <3>1. reader' = [reader EXCEPT ![c].pc = "decr", ![c].req = s, ![c].from = from, ![c].copy = copy, ![c].n = k]
      BY <1>0, <1>7 DEF TakeJob
    <3> QED
      BY <1>t, <3>1 DEF ReaderStates
  <2>3. ~ IsBatch(s) => (\A v \in work' : v.req # s) /\ ~ AtSend(s)
    BY <1>4, <1>7 DEF Resting
  <2>4. /\ jobs[s] # None /\ jobs'[s] = None /\ caller'[s] = caller[s] /\ seen'[s] = seen[s]
        /\ inbox'[s] = inbox[s] /\ sent'[s] = sent[s]
    BY <1>f, <1>7, <2>1 DEF HeldBy, InTable
  <2>5. \/ reader'[c].copy = None /\ yields'[s] = yields[s]
        \/ /\ ~ jobs[s].produced /\ reader'[c].copy \in Copies
           /\ reader'[c].copy.attempts < MaxAttempts /\ yields'[s] >= yields[s]
           /\ reader'[c].copy.attempts + yields'[s] = jobs[s].copy.attempts + 1 + yields[s]
           /\ ~ IsBatch(s) => /\ \A v \in work' : v.req # s
                              /\ AtSend(s) => ~ Live(sched.client)
    BY <1>7, <2>2, <2>3
  <2>6. AnswerOK(s)'
    BY <1>f, <1>l, <1>t, <1>3, <1>7, <2>2, <2>4, <2>5, TakeAnswer
  <2> QED
    BY <1>2, <1>7, <2>1, <2>2, <2>6
<1>8. ASSUME jobs' = jobs, inbox' = inbox, reader' = reader, yields' = yields PROVE AnswerInv'
  <2>1. AnswerOK(s)'
    BY <1>1, <1>8 DEF InReader, Ending, InHandOf
  <2> QED
    BY <1>2, <1>8, <2>1
<1>h. ASSUME HeldBy(s, c) PROVE jobs[s] \in Jobs /\ jobs[s].copy \in Copies /\ jobs[s].copy.attempts \in Nat
  BY <1>h, <1>t DEF HeldBy, Jobs, Copies
<1>9. ASSUME NEW final \in BOOLEAN, MsgError(w, final) PROVE AnswerInv'
  <2>0. inbox' = inbox /\ yields' = yields /\ work' = work \ {w}
    BY <1>9 DEF MsgError, histVars
  <2>1. CASE HeldBy(s, c)
    <3> DEFINE copy == IF ~ final /\ MayRetry(jobs[s]) THEN retryRequest(jobs[s].copy) ELSE None
    <3>1. TakeJob(w, "error", copy)
      BY <1>0, <1>9, <2>1 DEF MsgError
    <3>2. \/ copy = None
          \/ /\ ~ jobs[s].produced /\ copy \in Copies /\ copy.attempts < MaxAttempts
             /\ copy.attempts = jobs[s].copy.attempts + 1
      BY <1>h, <2>1 DEF MayRetry, retryRequest, Copies
    <3> HIDE DEF copy
    <3>3. \/ copy = None /\ yields'[s] = yields[s]
          \/ /\ ~ jobs[s].produced /\ copy \in Copies /\ copy.attempts < MaxAttempts
             /\ yields'[s] >= yields[s]
             /\ copy.attempts + yields'[s] = jobs[s].copy.attempts + 1 + yields[s]
      BY <1>t, <2>0, <3>2
    <3> QED
      BY <1>7, <2>0, <2>1, <3>1, <3>3
  <2>2. CASE ~ HeldBy(s, c)
    BY <1>0, <1>8, <1>9, <2>0, <2>2 DEF MsgError
  <2> QED
    BY <2>1, <2>2
<1>10. ASSUME NEW reason \in {"busy", "shutdown"}, MsgRelease(w, reason) PROVE AnswerInv'
  <2>0. inbox' = inbox /\ work' = work \ {w}
    BY <1>10 DEF MsgRelease
  <2>1. CASE HeldBy(s, c)
    <3> DEFINE free == reason = "busy" /\ localBusy[c] > 0 /\ ~ jobs[s].produced
               copy == IF free THEN [jobs[s].copy EXCEPT !.model = Alias]
                       ELSE IF MayRetry(jobs[s]) THEN retryRequest(jobs[s].copy) ELSE None
    <3>1. /\ TakeJob(w, "release", copy)
          /\ yields' = [yields EXCEPT ![s] = IF free THEN @ + 1 ELSE @]
      BY <1>0, <1>10, <2>1 DEF MsgRelease
    <3>2. CASE free
      <4>1. /\ copy \in Copies /\ copy.attempts = jobs[s].copy.attempts /\ ~ jobs[s].produced
        BY <1>h, <2>1, <3>2 DEF Copies
      <4>2. yields'[s] = yields[s] + 1 /\ \A r \in Requests : r # s => yields'[r] = yields[r]
        BY <1>t, <3>1, <3>2
      <4>3. ASSUME ~ IsBatch(s) PROVE jobs[s].copy.attempts < MaxAttempts
        <5>1. InTable(s)
          BY <2>1 DEF HeldBy, InTable
        <5> QED
          BY <1>3, <4>3, <5>1 DEF AnswerOK, StreamOK, BoundOK, FitsSent
      <4> HIDE DEF copy, free
      <4>4. CASE ~ IsBatch(s)
        <5>1. /\ ~ jobs[s].produced /\ copy \in Copies /\ copy.attempts < MaxAttempts
              /\ yields'[s] >= yields[s]
              /\ copy.attempts + yields'[s] = jobs[s].copy.attempts + 1 + yields[s]
          <6>1. jobs[s].copy.attempts \in Nat /\ jobs[s].copy.attempts < MaxAttempts
            BY <1>h, <2>1, <4>3, <4>4
          <6>2. yields'[s] = yields[s] + 1 /\ yields[s] \in Nat
            BY <1>t, <4>2
          <6>3. copy \in Copies /\ copy.attempts = jobs[s].copy.attempts /\ ~ jobs[s].produced
            BY <4>1
          <6> QED
            BY <6>1, <6>2, <6>3
        <5> QED
          BY <1>7, <2>0, <2>1, <3>1, <4>2, <5>1
      <4>5. CASE IsBatch(s)
        <5>1. Untrack(s) /\ ~ InTable(s)' /\ \A r \in Requests : r # s => jobs'[r] = jobs[r]
          BY <1>0, <1>t, <3>1, UntrackPlaces DEF TakeJob
        <5>2. /\ \A d \in Clients : d # c => reader'[d] = reader[d]
              /\ reader'[c].req = s /\ reader'[c].from = "release"
          <6>1. reader' = [reader EXCEPT ![c].pc = "decr", ![c].req = s, ![c].from = "release",
                                         ![c].copy = copy, ![c].n = k]
            BY <1>0, <3>1 DEF TakeJob
          <6> QED
            BY <1>t, <6>1 DEF ReaderStates
        <5>3. NothingSaid(s) /\ SameCaller(s)
          BY <1>f, <2>0, <5>2 DEF NothingSaid, SameCaller, Ending, InHandOf
        <5>4. AnswerOK(s)'
          BY <1>3, <4>5, <5>3, RetryAnswer
        <5> QED
          BY <1>2, <2>0, <4>2, <5>1, <5>2, <5>4
      <4> QED
        BY <4>4, <4>5
    <3>3. CASE ~ free
      <4>1. copy = IF MayRetry(jobs[s]) THEN retryRequest(jobs[s].copy) ELSE None
        BY <3>3
      <4>2. yields' = yields
        BY <1>t, <3>1, <3>3
      <4> HIDE DEF copy, free
      <4>3. \/ copy = None
            \/ /\ ~ jobs[s].produced /\ copy \in Copies /\ copy.attempts < MaxAttempts
               /\ copy.attempts = jobs[s].copy.attempts + 1
        BY <1>h, <2>1, <4>1 DEF MayRetry, retryRequest, Copies
      <4>4. \/ copy = None /\ yields'[s] = yields[s]
            \/ /\ ~ jobs[s].produced /\ copy \in Copies /\ copy.attempts < MaxAttempts
               /\ yields'[s] >= yields[s]
               /\ copy.attempts + yields'[s] = jobs[s].copy.attempts + 1 + yields[s]
        BY <1>t, <4>2, <4>3
      <4> QED
        BY <1>7, <2>0, <2>1, <3>1, <4>2, <4>4
    <3> QED
      BY <3>2, <3>3
  <2>2. CASE ~ HeldBy(s, c)
    BY <1>0, <1>8, <1>10, <2>0, <2>2 DEF MsgRelease
  <2> QED
    BY <2>1, <2>2
<1> QED
  BY <1>5, <1>6, <1>9, <1>10 DEF WorkerMsg

(* An expired lease takes the record and nothing else (hub.go, handleExpiredLeases). *)
LEMMA ReaperAnswers ==
  ASSUME TypeInv, TypeInv', AnswerInv, ReaperStep
  PROVE  AnswerInv'
<1>t. jobs \in [Requests -> Jobs \cup {None}]
  BY DEF TypeInv, TypeOK
<1>1. /\ caller' = caller /\ sched' = sched /\ queue' = queue /\ sent' = sent /\ seen' = seen /\ conn' = conn
      /\ work' = work /\ reader' = reader /\ inbox' = inbox /\ yields' = yields
  BY DEF ReaperStep, LeaseScan, LeaseFree, histVars
<1>2. \A r \in Requests : jobs'[r] = jobs[r] \/ jobs'[r] = None
  BY <1>t DEF ReaperStep, LeaseScan, LeaseFree
<1>3. LinksClose /\ \A w \in work' : Live(w.client)'
  BY <1>1 DEF LinksClose, Live, AnswerInv
<1>4. ASSUME NEW r \in Requests PROVE AnswerOK(r)'
  <2>1. NoNewPlace(r)
    BY <1>1, <1>2 DEF NoNewPlace, InQueue, InHand, AtSend, InTable, InReader
  <2>2. NothingSaid(r) /\ SameCaller(r) /\ SameCount(r)
    BY <1>1 DEF NothingSaid, SameCaller, SameCount, Ending, InHandOf
  <2> QED
    BY <1>3, <2>1, <2>2, CalmKeeps DEF Calm, AnswerInv
<1> QED
  BY <1>3, <1>4 DEF AnswerInv

(* Nothing has been asked or answered when the router starts. *)
LEMMA InitAnswerInv == Init => RemoveInv /\ AnswerInv
<1> SUFFICES ASSUME Init PROVE RemoveInv /\ AnswerInv
  OBVIOUS
<1>0. \A c \in Clients : reader[c].pc = "off"
  BY DEF Init, IdleReader
<1>1. RemoveInv
  BY <1>0 DEF RemoveInv
<1>2. ASSUME NEW r \in Requests PROVE AnswerOK(r)
  <2>1. /\ ~ InQueue(r) /\ ~ InTable(r) /\ ~ InHand(r) /\ ~ AtSend(r)
        /\ \A c \in Clients : ~ InReader(r, c) /\ ~ Ending(r, c)
    BY <1>0 DEF Init, InQueue, InTable, InHand, AtSend, InReader, Ending, InHandOf, IdleSched
  <2>2. seen[r] = {} /\ inbox[r] = << >> /\ work = {} /\ sent[r] = 0 /\ yields[r] = 0 /\ ~ IsBatch(r)
    BY DEF Init, IsBatch
  <2>3. \A i \in DOMAIN inbox[r] : FALSE
    BY <2>2
  <2>4. ~ Spoken(r)
    BY <2>1, <2>2, <2>3 DEF Spoken
  <2>5. WorkOK(r) /\ SendOK(r) /\ SpokenOK(r)
    BY <2>1, <2>2, <2>3, <2>4 DEF WorkOK, SendOK, SpokenOK
  <2>6. BoundOK(r)
    BY <2>1, <2>2, DispatchAssumption DEF BoundOK, Pending
  <2> QED
    BY <2>1, <2>2, <2>4, <2>5, <2>6 DEF AnswerOK, NewOK, StreamOK
<1> QED
  BY <1>1, <1>2 DEF AnswerInv, Init

(* The state of every answer, after any number of steps. *)
LEMMA AnswerInvAlways == Spec => [](TypeInv /\ AnswerInv)
<1>1. TableInv /\ TableInv' /\ RemoveInv /\ AnswerInv /\ [Next]_vars => RemoveInv' /\ AnswerInv'
  <2>1. SUFFICES ASSUME TableInv, TableInv', RemoveInv, AnswerInv, [Next]_vars PROVE RemoveInv' /\ AnswerInv'
    OBVIOUS
  <2>2. TypeInv /\ TypeInv' /\ OffInv /\ CopyInv
    BY <2>1 DEF TableInv, CopyInv
  <2>3. CASE UNCHANGED vars
    <3>1. /\ caller' = caller /\ sched' = sched /\ queue' = queue /\ sent' = sent /\ seen' = seen /\ conn' = conn
          /\ work' = work /\ reader' = reader /\ inbox' = inbox /\ yields' = yields /\ jobs' = jobs
      BY <2>3 DEF vars, hubVars, histVars
    <3>2. RemoveInv' /\ LinksClose /\ \A w \in work' : Live(w.client)'
      BY <2>1, <3>1 DEF RemoveInv, Live, LinksClose, AnswerInv
    <3>3. ASSUME NEW r \in Requests PROVE AnswerOK(r)'
      <4>1. Calm(r)
        BY <3>1, SameCalm
      <4> QED
        BY <2>1, <2>2, <3>2, <4>1, CalmKeeps DEF AnswerInv
    <3> QED
      BY <3>2, <3>3 DEF AnswerInv
  <2>4. CASE Next
    <3>1. RemoveInv'
      BY <2>1, <2>2, <2>4, NextRemoveInv
    <3>2. AnswerInv'
      BY <2>1, <2>2, <2>4, HandlerAnswers, SchedAnswers, HubAnswers, WorkerAnswers, ReaperAnswers DEF Next
    <3> QED
      BY <3>1, <3>2
  <2> QED
    BY <2>1, <2>3, <2>4
<1>2. TableInv => TypeInv
  BY DEF TableInv, CopyInv
<1> QED
  BY <1>1, <1>2, InitAnswerInv, TableInvAlways, PTL DEF Spec

(* The answer a caller gets never holds output of two dispatches, whatever retries,
   sweeps, hand-backs and late messages happened on the way (hub.go:407-410, 663-666,
   714-718). *)
THEOREM DispatchNoStitchedAnswer == Spec => []NoStitchedAnswer
<1>1. TypeInv /\ AnswerInv => NoStitchedAnswer
  <2>1. SUFFICES ASSUME TypeInv, AnswerInv, NEW r \in Requests PROVE Cardinality(seen[r]) <= 1
    BY DEF NoStitchedAnswer
  <2>2. \A i, j \in seen[r] : i = j
    BY <2>1 DEF AnswerInv, AnswerOK, BatchOK, StreamOK, SpokenOK
  <2>3. CASE seen[r] = {}
    BY <2>3, FS_EmptySet
  <2>4. CASE seen[r] # {}
    <3>1. PICK i : seen[r] = {i}
      BY <2>2, <2>4
    <3> QED
      BY <3>1, FS_Singleton
  <2> QED
    BY <2>3, <2>4
<1> QED
  BY <1>1, AnswerInvAlways, PTL

(* A streaming request reaches a worker at most MaxAttempts times, and once more for
   each time a busy worker handed it back free of charge (types.go:379-382,
   hub.go:698-718). *)
THEOREM DispatchAttemptsBound == Spec => []DispatchBound
<1>1. TypeInv /\ AnswerInv => DispatchBound
  <2>1. SUFFICES ASSUME TypeInv, AnswerInv, NEW r \in Requests, ~ IsBatch(r)
                 PROVE  sent[r] <= MaxAttempts + yields[r]
    BY DEF DispatchBound
  <2>2. sent[r] + Pending(r) <= MaxAttempts + yields[r]
    BY <2>1 DEF AnswerInv, AnswerOK, StreamOK, BoundOK
  <2>3. sent[r] \in Nat /\ yields[r] \in Nat /\ MaxAttempts \in Nat /\ Pending(r) \in {0, 1}
    BY <2>1, DispatchAssumption DEF TypeInv, TypeOK, Pending
  <2> QED
    BY <2>2, <2>3
<1> QED
  BY <1>1, AnswerInvAlways, PTL

(* A job handed back for local load, any number of times, leaks no slot, loses no
   request and spends or hides no attempt, on any number of workers (hub.go:682-729). *)
THEOREM DispatchHandBackSafe == Spec => []HandBackSafe
<1>1. SlotAccounting /\ NothingLost /\ DispatchBound => HandBackSafe
  BY DEF HandBackSafe
<1> QED
  BY <1>1, DispatchSlotAccounting, DispatchNothingLost, DispatchAttemptsBound, PTL

=============================================================================
