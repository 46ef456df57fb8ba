---------------------------- MODULE Admin_proofs -----------------------------
(***************************************************************************)
(* The administrative state of the router, for every set of users,         *)
(* principals, concurrent changes and lookups: the pairing cache answers   *)
(* as the database does once no change is under way, an enabled owner or   *)
(* admin always remains, nothing that grants access outlives the account   *)
(* it was granted to, the counters of usage and performance are neither    *)
(* lost nor counted twice on their way to the database, and the rows of a  *)
(* report add up to its totals.                                            *)
(***************************************************************************)
EXTENDS MCAdmin, WellFoundedInduction, SequenceTheorems, FiniteSetTheorems, TLAPS

-----------------------------------------------------------------------------
(* The pairing cache.                                                      *)

\* A lookup past pairCache holds an object that has been made.
HoldsObject ==
    \A r \in Reader : reader[r].pc \in {"look", "read", "store"} => reader[r].obj \in 1 .. Len(objects)

\* With no change under way the current object agrees with the database, and
\* so does what a lookup is about to put into it.
Fresh ==
    Settled /\ current # 0 =>
        /\ \A t \in Cached : objects[current][t] \in {Unread, tables[t]}
        /\ \A r \in Reader : reader[r].pc = "store" /\ reader[r].obj = current =>
                                reader[r].got = tables[reader[r].table]

CacheInv == CacheTypeOK /\ HoldsObject /\ Fresh

(* Every write to a table leaves its request with a cache to drop, so the
   invariant has nothing to say until it has (SaveRole, SavePolicy, Bind,
   UpdateUser, SetClientSharing). *)
LEMMA WriteKeepsCache ==
  ASSUME CacheInv, NEW c \in Changer, NEW table \in Compiled \cup Cached,
         NEW next \in {"roles", "drop"}, Write(c, table, next)
  PROVE  CacheInv'
<1> USE CacheAssumption DEF CacheInv, CacheTypeOK
<1>1. table \in {"roles", "policies", "subjects", "sharing"} /\ tables[table] < MaxChanges
  <2>1. \A t \in {"roles", "policies", "subjects", "sharing"} : tables[t] \in Nat
    BY DEF Compiled, Cached
  <2> QED
    BY <2>1 DEF Write, Changes, Compiled, Cached
<1>2. tables' \in [Compiled \cup Cached -> 0 .. MaxChanges]
  BY <1>1 DEF Write
<1>3. changer'[c].pc # "idle" /\ changer' \in [Changer ->
         [pc : {"idle", "roles", "policies", "swap", "drop"},
          roles : 0 .. MaxChanges, policies : 0 .. MaxChanges]]
  BY DEF Write
<1>4. ~Settled'
  BY <1>3 DEF Settled
<1> QED
  BY <1>2, <1>3, <1>4 DEF Write, HoldsObject, Fresh

(* Recompiling the engine touches neither the cache nor a table, and a request
   is done only when the cache is dropped (ReloadAuthz, invalidateAccess). *)
LEMMA ReloadKeepsCache ==
  ASSUME CacheInv, NEW c \in Changer,
         ReadRoles(c) \/ ReadPolicies(c) \/ SwapEngine(c) \/ InvalidateAccess(c)
  PROVE  CacheInv'
<1> USE CacheAssumption
<1> DEFINE ChangeRow == [pc : {"idle", "roles", "policies", "swap", "drop"},
                         roles : 0 .. MaxChanges, policies : 0 .. MaxChanges]
<1>1. /\ changer \in [Changer -> ChangeRow] /\ compiled \in [Compiled -> 0 .. MaxChanges]
      /\ \A t \in Compiled : tables[t] \in 0 .. MaxChanges
  BY DEF CacheInv, CacheTypeOK
<1>2. /\ changer' \in [Changer -> ChangeRow] /\ compiled' \in [Compiled -> 0 .. MaxChanges]
      /\ current' \in {current, 0}
      /\ Settled' /\ current' # 0 => Settled
      /\ UNCHANGED <<tables, objects, reader>>
  <2>1. CASE ReadRoles(c)
    <3>1. changer' = [changer EXCEPT ![c] = [@ EXCEPT !.pc = "policies", !.roles = tables["roles"]]]
      BY <2>1 DEF ReadRoles
    <3>2. /\ [changer[c] EXCEPT !.pc = "policies", !.roles = tables["roles"]] \in ChangeRow
          /\ [changer[c] EXCEPT !.pc = "policies", !.roles = tables["roles"]].pc # "idle"
      BY <1>1 DEF Compiled
    <3> DEFINE row == [changer[c] EXCEPT !.pc = "policies", !.roles = tables["roles"]]
    <3> HIDE DEF row
    <3>3. changer' = [changer EXCEPT ![c] = row] /\ row \in ChangeRow /\ row.pc # "idle"
      BY <3>1, <3>2 DEF row
    <3>4. changer' \in [Changer -> ChangeRow] /\ changer'[c].pc # "idle"
      BY <1>1, <3>3
    <3> QED
      BY <1>1, <2>1, <3>4 DEF ReadRoles, Settled
  <2>2. CASE ReadPolicies(c)
    <3>1. changer' = [changer EXCEPT ![c] = [@ EXCEPT !.pc = "swap", !.policies = tables["policies"]]]
      BY <2>2 DEF ReadPolicies
    <3>2. /\ [changer[c] EXCEPT !.pc = "swap", !.policies = tables["policies"]] \in ChangeRow
          /\ [changer[c] EXCEPT !.pc = "swap", !.policies = tables["policies"]].pc # "idle"
      BY <1>1 DEF Compiled
    <3> DEFINE row == [changer[c] EXCEPT !.pc = "swap", !.policies = tables["policies"]]
    <3> HIDE DEF row
    <3>3. changer' = [changer EXCEPT ![c] = row] /\ row \in ChangeRow /\ row.pc # "idle"
      BY <3>1, <3>2 DEF row
    <3>4. changer' \in [Changer -> ChangeRow] /\ changer'[c].pc # "idle"
      BY <1>1, <3>3
    <3> QED
      BY <1>1, <2>2, <3>4 DEF ReadPolicies, Settled
  <2>3. CASE SwapEngine(c)
    <3>1. compiled' \in [Compiled -> 0 .. MaxChanges]
      BY <1>1, <2>3 DEF SwapEngine, Compiled
    <3> QED
      BY <1>1, <2>3, <3>1 DEF SwapEngine, Settled
  <2>4. CASE InvalidateAccess(c)
    BY <1>1, <2>4 DEF InvalidateAccess, NoChange
  <2> QED
    BY <2>1, <2>2, <2>3, <2>4
<1>3. CacheTypeOK'
  BY <1>2 DEF CacheInv, CacheTypeOK
<1>4. HoldsObject'
  BY <1>2 DEF CacheInv, HoldsObject
<1>5. Fresh'
  <2>1. CASE current' = 0
    BY <2>1 DEF Fresh
  <2>2. CASE current' = current
    BY <1>2, <2>2 DEF CacheInv, Fresh
  <2> QED
    BY <1>2, <2>1, <2>2
<1> QED
  BY <1>3, <1>4, <1>5 DEF CacheInv

\* The rows a lookup can be in while n objects have been made.
LookupRow(n) ==
    [pc : {"idle", "take", "look", "read", "store"}, table : Cached, obj : 0 .. n, got : 0 .. Unread]

\* The row of a lookup once it has its answer (Found).
Answered(row) ==
    IF row.table = "sharing" THEN [row EXCEPT !.pc = "take", !.table = "subjects"] ELSE NoLookup

(* The answer to the client's half starts the requester's half, and that ends
   the lookup (the two reads of pairSubject and ClientSharing). *)
LEMMA AnsweredRow ==
  ASSUME NEW n \in Nat, NEW row \in LookupRow(n)
  PROVE  Answered(row) \in LookupRow(n) /\ Answered(row).pc \in {"take", "idle"}
<1>1. "subjects" \in Cached /\ "sharing" \in Cached /\ Unread \in 0 .. Unread
  BY CacheAssumption DEF Cached, Unread
<1>2. CASE row.table = "sharing"
  BY <1>1, <1>2 DEF Answered, LookupRow
<1>3. CASE row.table # "sharing"
  BY <1>1, <1>3 DEF Answered, LookupRow, NoLookup
<1> QED
  BY <1>2, <1>3

(* A lookup that finds no object makes an empty one, which no other lookup
   holds yet (pairCache). *)
LEMMA PairCacheKeepsCache ==
  ASSUME CacheInv, NEW r \in Reader, PairCache(r)
  PROVE  CacheInv'
<1> USE CacheAssumption
<1> DEFINE row == [reader[r] EXCEPT !.pc = "look", !.obj = current']
<1>1. /\ reader \in [Reader -> LookupRow(Len(objects))] /\ current \in 0 .. Len(objects)
      /\ objects \in Seq([Cached -> 0 .. Unread]) /\ Len(objects) \in Nat
  BY DEF CacheInv, CacheTypeOK, LookupRow
<1>2. /\ reader' = [reader EXCEPT ![r] = row]
      /\ tables' = tables /\ compiled' = compiled /\ changer' = changer
  BY DEF PairCache
<1>3. /\ objects' \in Seq([Cached -> 0 .. Unread]) /\ Len(objects') \in Nat
      /\ Len(objects') >= Len(objects) /\ current' \in 1 .. Len(objects')
      /\ current # 0 => objects' = objects /\ current' = current
      /\ current = 0 => /\ current' = Len(objects) + 1
                        /\ \A t \in Cached : objects'[current'][t] = Unread
  <2>1. CASE current # 0
    BY <1>1, <2>1 DEF PairCache
  <2>2. CASE current = 0
    <3>1. EmptyObject \in [Cached -> 0 .. Unread] /\ \A t \in Cached : EmptyObject[t] = Unread
      BY DEF EmptyObject, Unread
    <3>2. objects' = Append(objects, EmptyObject) /\ current' = Len(objects) + 1
      BY <2>2 DEF PairCache
    <3> QED
      BY <1>1, <2>2, <3>1, <3>2
  <2> QED
    BY <2>1, <2>2
<1>4. \A q \in Reader : reader[q] \in LookupRow(Len(objects'))
  BY <1>1, <1>3 DEF LookupRow
<1>5. row \in LookupRow(Len(objects')) /\ row.pc = "look" /\ row.obj = current'
  <2>1. current' \in 0 .. Len(objects') /\ reader[r] \in LookupRow(Len(objects'))
    BY <1>3, <1>4
  <2> QED
    BY <2>1 DEF LookupRow
<1>6. reader' \in [Reader -> LookupRow(Len(objects'))]
  BY <1>1, <1>2, <1>4, <1>5
<1>7. CacheTypeOK'
  BY <1>2, <1>3, <1>6 DEF CacheInv, CacheTypeOK, LookupRow
<1>8. \A q \in Reader : reader'[q] = reader[q] \/ reader'[q] = row
  BY <1>1, <1>2
<1> HIDE DEF row
<1>9. \A q \in Reader : reader[q].pc \in {"look", "read", "store"} =>
                           /\ reader[q].obj \in 1 .. Len(objects)
                           /\ reader[q].obj \in 1 .. Len(objects')
  BY <1>1, <1>3 DEF CacheInv, HoldsObject
<1>10. HoldsObject'
  BY <1>3, <1>5, <1>8, <1>9 DEF HoldsObject
<1>11. Fresh'
  <2>1. CASE current # 0
    BY <1>2, <1>3, <1>5, <1>8, <2>1 DEF CacheInv, Fresh, Settled
  <2>2. CASE current = 0
    <3>1. \A q \in Reader : reader'[q].pc = "store" => reader'[q].obj # current'
      <4>1. current' = Len(objects) + 1 /\ current' \notin 1 .. Len(objects)
        BY <1>1, <1>3, <2>2
      <4> QED
        BY <1>5, <1>8, <1>9, <4>1
    <3> QED
      BY <1>3, <2>2, <3>1 DEF Fresh
  <2> QED
    BY <2>1, <2>2
<1> QED
  BY <1>7, <1>10, <1>11 DEF CacheInv

(* What a lookup read while no change was under way is what it stores, and
   only the current object matters (the last lines of pairSubject and of
   ClientSharing). *)
LEMMA StoreKeepsCache ==
  ASSUME CacheInv, NEW r \in Reader, StoreEntry(r)
  PROVE  CacheInv'
<1> USE CacheAssumption
<1> DEFINE o == reader[r].obj
           t == reader[r].table
           found == Answered(reader[r])
<1>1. /\ reader \in [Reader -> LookupRow(Len(objects))] /\ current \in 0 .. Len(objects)
      /\ objects \in Seq([Cached -> 0 .. Unread]) /\ Len(objects) \in Nat
  BY DEF CacheInv, CacheTypeOK, LookupRow
<1>2. /\ o \in 1 .. Len(objects) /\ t \in Cached /\ reader[r].got \in 0 .. Unread
      /\ reader[r].pc = "store"
  BY <1>1 DEF StoreEntry, CacheInv, HoldsObject, LookupRow
<1>3. /\ objects' = [objects EXCEPT ![o] = [@ EXCEPT ![t] = reader[r].got]]
      /\ reader' = [reader EXCEPT ![r] = found]
      /\ tables' = tables /\ compiled' = compiled /\ current' = current /\ changer' = changer
  BY DEF StoreEntry, Found, Answered
<1>4. /\ objects[o] \in [Cached -> 0 .. Unread]
      /\ objects' \in Seq([Cached -> 0 .. Unread]) /\ Len(objects') = Len(objects)
      /\ objects'[o] = [objects[o] EXCEPT ![t] = reader[r].got]
      /\ \A i \in 1 .. Len(objects) : i # o => objects'[i] = objects[i]
  <2> DEFINE filled == [objects[o] EXCEPT ![t] = reader[r].got]
  <2>1. objects[o] \in [Cached -> 0 .. Unread]
    BY <1>1, <1>2
  <2>2. filled \in [Cached -> 0 .. Unread] /\ objects' = [objects EXCEPT ![o] = filled]
    BY <1>2, <1>3, <2>1
  <2> HIDE DEF filled
  <2>3. /\ objects' \in Seq([Cached -> 0 .. Unread]) /\ Len(objects') = Len(objects)
        /\ objects'[o] = filled
        /\ \A i \in 1 .. Len(objects) : i # o => objects'[i] = objects[i]
    BY <1>1, <1>2, <2>2
  <2> QED
    BY <2>1, <2>3 DEF filled
<1>5. found \in LookupRow(Len(objects)) /\ found.pc \in {"idle", "take"}
  BY <1>1, AnsweredRow
<1>6. CacheTypeOK'
  BY <1>1, <1>3, <1>4, <1>5 DEF CacheInv, CacheTypeOK, LookupRow
<1>7. \A q \in Reader : reader'[q] = reader[q] \/ reader'[q] = found
  BY <1>1, <1>3
<1>8. HoldsObject'
  BY <1>4, <1>5, <1>7 DEF CacheInv, HoldsObject
<1>9. ASSUME Settled, current # 0
      PROVE  \A u \in Cached : objects'[current][u] \in {Unread, tables[u]}
  <2>1. current \in 1 .. Len(objects)
    BY <1>1, <1>9
  <2>2. \A u \in Cached : objects[current][u] \in {Unread, tables[u]}
    BY <1>9 DEF CacheInv, Fresh
  <2>3. CASE current = o
    <3>1. reader[r].got = tables[t]
      BY <1>2, <1>9, <2>3 DEF CacheInv, Fresh
    <3> QED
      BY <1>4, <2>2, <2>3, <3>1
  <2>4. CASE current # o
    BY <1>4, <2>1, <2>2, <2>4
  <2> QED
    BY <2>3, <2>4
<1>10. Fresh'
  BY <1>3, <1>5, <1>7, <1>9 DEF CacheInv, Fresh, Settled
<1> QED
  BY <1>6, <1>8, <1>10 DEF CacheInv

(* The steps of a lookup that leave the objects alone: it starts, finds its
   entry, or reads the table. *)
LEMMA LookupKeepsCache ==
  ASSUME CacheInv, NEW r \in Reader, StartPair(r) \/ LookUp(r) \/ ReadTable(r)
  PROVE  CacheInv'
<1> USE CacheAssumption
<1>1. /\ reader \in [Reader -> LookupRow(Len(objects))] /\ Len(objects) \in Nat
      /\ tables \in [Compiled \cup Cached -> 0 .. MaxChanges]
  BY DEF CacheInv, CacheTypeOK, LookupRow
<1>2. PICK row \in LookupRow(Len(objects)) :
        /\ reader' = [reader EXCEPT ![r] = row]
        /\ row.pc \in {"look", "read", "store"} => /\ reader[r].pc \in {"look", "read", "store"}
                                                /\ row.obj = reader[r].obj
        /\ row.pc = "store" => row.got = tables[row.table]
        /\ UNCHANGED <<tables, compiled, objects, current, changer>>
  <2>1. CASE StartPair(r)
    <3> DEFINE row == [reader[r] EXCEPT !.pc = "take", !.table = "sharing"]
    <3>1. row \in LookupRow(Len(objects)) /\ row.pc = "take"
      BY <1>1 DEF LookupRow, Cached
    <3>2. reader' = [reader EXCEPT ![r] = row]
      BY <2>1 DEF StartPair
    <3> QED
      BY <2>1, <3>1, <3>2 DEF StartPair
  <2>2. CASE LookUp(r)
    <3> DEFINE found == Answered(reader[r])
               read == [reader[r] EXCEPT !.pc = "read"]
    <3>1. found \in LookupRow(Len(objects)) /\ found.pc \in {"take", "idle"}
      BY <1>1, AnsweredRow
    <3>2. read \in LookupRow(Len(objects)) /\ read.pc = "read" /\ read.obj = reader[r].obj
      BY <1>1 DEF LookupRow
    <3>3. reader[r].pc = "look" /\ UNCHANGED <<tables, compiled, objects, current, changer>>
      BY <2>2 DEF LookUp
    <3>4. reader' = [reader EXCEPT ![r] = found] \/ reader' = [reader EXCEPT ![r] = read]
      BY <2>2 DEF LookUp, Found, Answered
    <3> QED
      BY <3>1, <3>2, <3>3, <3>4
  <2>3. CASE ReadTable(r)
    <3> DEFINE row == [reader[r] EXCEPT !.pc = "store", !.got = tables[reader[r].table]]
    <3>1. /\ row \in LookupRow(Len(objects)) /\ row.pc = "store" /\ row.obj = reader[r].obj
          /\ row.got = tables[row.table]
      <4>1. reader[r] \in LookupRow(Len(objects)) /\ tables[reader[r].table] \in 0 .. Unread
        BY <1>1 DEF LookupRow, Unread
      <4> QED
        BY <4>1 DEF LookupRow
    <3>2. reader' = [reader EXCEPT ![r] = row] /\ reader[r].pc = "read"
      BY <2>3 DEF ReadTable
    <3> QED
      BY <2>3, <3>1, <3>2 DEF ReadTable
  <2> QED
    BY <2>1, <2>2, <2>3
<1>3. \A q \in Reader : reader'[q] = reader[q] \/ (q = r /\ reader'[q] = row)
  BY <1>1, <1>2
<1>4. CacheTypeOK'
  BY <1>1, <1>2 DEF CacheInv, CacheTypeOK, LookupRow
<1>5. HoldsObject'
  BY <1>2, <1>3 DEF CacheInv, HoldsObject
<1>6. Fresh'
  BY <1>2, <1>3 DEF CacheInv, Fresh, Settled
<1> QED
  BY <1>4, <1>5, <1>6 DEF CacheInv

(* No step of a change or a lookup disturbs the cache (sharing_store.go). *)
LEMMA CacheInvHolds == (CacheInit => CacheInv) /\ (CacheInv /\ [CacheNext]_cacheVars => CacheInv')
<1>1. CacheInit => CacheInv
  BY CacheAssumption
     DEF CacheInit, CacheInv, CacheTypeOK, HoldsObject, Fresh, NoChange, NoLookup,
         Compiled, Cached, Unread
<1>2. CacheInv /\ [CacheNext]_cacheVars => CacheInv'
  <2> SUFFICES ASSUME CacheInv, [CacheNext]_cacheVars PROVE CacheInv'
    OBVIOUS
  <2>1. ASSUME NEW c \in Changer, ChangeRules(c) PROVE CacheInv'
    BY <2>1, WriteKeepsCache DEF ChangeRules, Cached
  <2>2. ASSUME NEW c \in Changer, ChangeCached(c) PROVE CacheInv'
    BY <2>2, WriteKeepsCache DEF ChangeCached
  <2>3. CASE UNCHANGED cacheVars
    BY <2>3 DEF cacheVars, CacheInv, CacheTypeOK, HoldsObject, Fresh, Settled
  <2> QED
    BY <2>1, <2>2, <2>3, ReloadKeepsCache, PairCacheKeepsCache, StoreKeepsCache,
       LookupKeepsCache DEF CacheNext
<1> QED
  BY <1>1, <1>2

(* Whatever changes and lookups overlap, once no change is under way the
   pairing cache answers as the database does (sharing_store.go:18-24). *)
THEOREM AccessCacheCurrent == CacheSpec => []CacheCurrent
<1>1. CacheInv => CacheCurrent
  BY DEF CacheInv, Fresh, CacheCurrent
<1> QED
  BY <1>1, CacheInvHolds, PTL DEF CacheSpec

-----------------------------------------------------------------------------
(* Accounts: types.                                                        *)

\* The round of the re-check is a record of these.
Round ==
    [phase : {"idle", "asking", "applying"}, left : SUBSET User,
     out : SUBSET [on : User, answer : Answer]]

\* A name without a row has the empty one.
NoRowLeft == \A u \in User : ~LookupUser(u) => users[u] = NoRow

AccountsTyped == AccountsTypeOK /\ recheck \in Round /\ NoRowLeft

\* The row of an account that has been disabled (SetDisabledBy).
DisabledRow(row, by) == [row EXCEPT !.disabled = TRUE, !.by = by, !.refresh = FALSE]

(* SetDisabledBy writes the row of a disabled account (state.go SetDisabledBy). *)
LEMMA DisablingUpdates ==
  ASSUME AccountsTyped, NEW u \in User, NEW by \in {"", "oidc"}, SetDisabledBy(u, TRUE, by)
  PROVE  /\ DisabledRow(users[u], by) \in Row
         /\ DisabledRow(users[u], by).exists = users[u].exists
         /\ DisabledRow(users[u], by).disabled
         /\ UpdateUser(u, DisabledRow(users[u], by))
<1>1. users[u] \in Row
  BY DEF AccountsTyped, AccountsTypeOK
<1>2. /\ DisabledRow(users[u], by) \in Row
      /\ DisabledRow(users[u], by).exists = users[u].exists
      /\ DisabledRow(users[u], by).disabled
  BY <1>1 DEF Row, DisabledRow
<1>3. [users[u] EXCEPT !.disabled = TRUE, !.by = IF TRUE THEN by ELSE "", !.refresh = ~TRUE /\ @]
         = DisabledRow(users[u], by)
  BY <1>1 DEF Row, DisabledRow
<1> QED
  BY <1>2, <1>3 DEF SetDisabledBy

(* A new database is empty (state.go LoadState). *)
LEMMA InitTyped == AccountsInit => AccountsTyped
<1> SUFFICES ASSUME AccountsInit PROVE AccountsTyped
  OBVIOUS
<1>1. NoRow \in Row
  BY DEF NoRow, Row
<1>2. users \in [User -> Row] /\ \A u \in User : users[u] = NoRow
  BY <1>1 DEF AccountsInit
<1>3. recheck \in Round /\ recheck = [phase |-> "idle", left |-> {}, out |-> {}]
  BY DEF AccountsInit, Round
<1>4. AccountsTypeOK
  BY <1>2, <1>3 DEF AccountsInit, AccountsTypeOK
<1> QED
  BY <1>2, <1>3, <1>4 DEF AccountsTyped, NoRowLeft

(* A row written by UpdateUser is a row, of a name that has one, and only ends
   sessions (state.go UpdateUser). *)
LEMMA UpdateTyped ==
  ASSUME AccountsTyped, NEW u \in User, NEW row \in Row, row.exists, UpdateUser(u, row)
  PROVE  /\ users' \in [User -> Row] /\ sessions' \subseteq User
         /\ \A v \in User : users'[v].exists \/ users'[v] = NoRow
<1>1. [row EXCEPT !.by = ""] \in Row /\ [row EXCEPT !.by = ""].exists
  BY DEF Row
<1>2. PICK new \in Row : new.exists /\ users' = [users EXCEPT ![u] = new]
  BY <1>1 DEF UpdateUser
<1>3. users \in [User -> Row] /\ sessions \subseteq User
  BY DEF AccountsTyped, AccountsTypeOK
<1>4. \A v \in User : users[v].exists \/ users[v] = NoRow
  BY DEF AccountsTyped, NoRowLeft, LookupUser
<1> QED
  BY <1>2, <1>3, <1>4 DEF UpdateUser, RevokeSessions

(* The operations on accounts keep the types (pages.go, handleSetup to
   handleUserRoleRemove). *)
LEMMA AccountStepTyped ==
  ASSUME AccountsTyped, AccountStep
  PROVE  AccountsTyped'
<1> USE DEF AccountsTyped
<1>1. /\ users \in [User -> Row] /\ roles \in [User -> SUBSET Privileged] /\ sessions \subseteq User
      /\ conns \subseteq Holder /\ barred \subseteq User /\ creds \subseteq Kind \X Holder
      /\ members \in [User -> {"none", "member", "maintainer"}]
      /\ \A v \in User : users[v].exists \/ users[v] = NoRow
  BY DEF AccountsTypeOK, NoRowLeft, LookupUser
<1> DEFINE Good ==
       /\ users' \in [User -> Row] /\ roles' \in [User -> SUBSET Privileged]
       /\ sessions' \subseteq User /\ conns' \subseteq Holder /\ barred' \subseteq User
       /\ creds' \subseteq Kind \X Holder
       /\ members' \in [User -> {"none", "member", "maintainer"}]
       /\ \A v \in User : users'[v].exists \/ users'[v] = NoRow
       /\ team' = team /\ recheck' = recheck
<1>2. ASSUME NEW u \in User, handleSetup(u) PROVE Good
  <2>1. [users[u] EXCEPT !.exists = TRUE] \in Row /\ [users[u] EXCEPT !.exists = TRUE].exists
    <3>1. users[u] \in Row
      BY <1>1
    <3> QED
      BY <3>1 DEF Row
  <2>2. users' = [users EXCEPT ![u] = [users[u] EXCEPT !.exists = TRUE]]
    BY <1>2 DEF handleSetup, AddFirstAdmin
  <2>3. PICK new \in Row : new.exists /\ users' = [users EXCEPT ![u] = new]
    BY <2>1, <2>2
  <2> QED
    BY <1>1, <1>2, <2>3 DEF handleSetup, AddFirstAdmin, Privileged
<1>3. ASSUME NEW u \in User, handleLogin(u) \/ handleSessionRevoke(u) PROVE Good
  BY <1>1, <1>3 DEF handleLogin, handleSessionRevoke, startSession, RevokeSessions
<1>4. ASSUME NEW a \in User, NEW u \in User, handleAddUser(a, u) PROVE Good
  <2>1. [users[u] EXCEPT !.exists = TRUE] \in Row /\ [users[u] EXCEPT !.exists = TRUE].exists
    <3>1. users[u] \in Row
      BY <1>1
    <3> QED
      BY <3>1 DEF Row
  <2>2. users' = [users EXCEPT ![u] = [users[u] EXCEPT !.exists = TRUE]]
    BY <1>4 DEF handleAddUser, AddUser
  <2>3. PICK new \in Row : new.exists /\ users' = [users EXCEPT ![u] = new]
    BY <2>1, <2>2
  <2> QED
    BY <1>1, <1>4, <2>3 DEF handleAddUser, AddUser, bindInitialRole, Privileged
<1>5. ASSUME NEW a \in User, NEW u \in User, handleUserDisable(a, u) PROVE Good
  <2>1. SetDisabledBy(u, TRUE, "") /\ users[u].exists
    BY <1>5 DEF handleUserDisable, LookupUser
  <2> QED
    BY <1>1, <1>5, <2>1, DisablingUpdates, UpdateTyped DEF handleUserDisable, CloseByToken
<1>6. ASSUME NEW a \in User, NEW u \in User, handleUserEnable(a, u) PROVE Good
  <2> DEFINE row == [users[u] EXCEPT !.disabled = FALSE]
  <2>1. row \in Row /\ row.exists
    BY <1>1, <1>6 DEF Row, handleUserEnable, LookupUser
  <2> QED
    BY <1>1, <1>6, <2>1, UpdateTyped DEF handleUserEnable
<1>7. ASSUME NEW a \in User, NEW u \in User, handleUserDelete(a, u) PROVE Good
  <2>1. NoRow \in Row
    BY DEF NoRow, Row
  <2> QED
    BY <1>1, <1>7, <2>1 DEF handleUserDelete, DeleteUser, RevokeSessions
<1>8. ASSUME NEW a \in User, NEW u \in User, handleUserSignOut(a, u) PROVE Good
  BY <1>1, <1>8 DEF handleUserSignOut, RevokeSessions
<1>9. ASSUME NEW a \in User, NEW u \in User, NEW role \in Privileged,
             handleUserRoleAdd(a, u, role) \/ handleUserRoleRemove(a, u, role) PROVE Good
  BY <1>1, <1>9 DEF handleUserRoleAdd, handleUserRoleRemove
<1>10. Good
  BY <1>2, <1>3, <1>4, <1>5, <1>6, <1>7, <1>8, <1>9 DEF AccountStep
<1> QED
  BY <1>10 DEF AccountsTypeOK, NoRowLeft, LookupUser

(* So do the operations on the team, its keys and tokens, and the workers
   connected with them (pages.go, handleTeamCreate to handleClientTokenRevoke). *)
LEMMA CredentialStepTyped ==
  ASSUME AccountsTyped, TokenStep \/ KeyStep \/ TeamStep
  PROVE  AccountsTyped'
<1>1. /\ members \in [User -> {"none", "member", "maintainer"}] /\ creds \subseteq Kind \X Holder
      /\ conns \subseteq Holder /\ team \in {"absent", "active", "disabled"}
  BY DEF AccountsTyped, AccountsTypeOK
<1>2. \A p \in Holder : <<"token", p>> \in Kind \X Holder /\ <<"key", p>> \in Kind \X Holder
  BY DEF Kind
<1> DEFINE Good ==
       /\ members' \in [User -> {"none", "member", "maintainer"}] /\ creds' \subseteq Kind \X Holder
       /\ conns' \subseteq Holder /\ team' \in {"absent", "active", "disabled"}
       /\ UNCHANGED <<users, roles, sessions, recheck, barred>>
<1>3. ASSUME NEW p \in Holder, LookupActiveClientToken(p) \/ WorkerLeaves(p) PROVE Good
  BY <1>1, <1>3 DEF LookupActiveClientToken, WorkerLeaves
<1>4. ASSUME NEW p \in Holder, NEW a \in User,
             handleClientTokenCreate(a, p) \/ handleClientTokenRevoke(a, p) PROVE Good
  BY <1>1, <1>2, <1>4 DEF handleClientTokenCreate, handleClientTokenRevoke, CloseByToken
<1>5. ASSUME NEW p \in Holder, NEW a \in User,
             handleAPIKeyCreate(a, p) \/ handleAPIKeyRevoke(a, p) PROVE Good
  BY <1>1, <1>2, <1>5 DEF handleAPIKeyCreate, handleAPIKeyRevoke
<1>6. ASSUME NEW a \in User, handleTeamCreate(a) PROVE Good
  BY <1>1, <1>6 DEF handleTeamCreate, CreateTeam
<1>7. ASSUME NEW a \in User, NEW action \in {"enable", "disable", "delete"},
             handleTeamState(a, action) PROVE Good
  <2>1. CloseByToken(Team) \subseteq conns /\ creds \ (Kind \X {Team}) \subseteq creds
    BY DEF CloseByToken
  <2> QED
    BY <1>1, <1>7, <2>1 DEF handleTeamState, DeleteTeam, SetTeamDisabled
<1>8. ASSUME NEW a \in User, NEW u \in User, handleTeamMemberRemove(a, u) PROVE Good
  BY <1>1, <1>8 DEF handleTeamMemberRemove
<1>9. ASSUME NEW a \in User, NEW u \in User, NEW maintainer \in BOOLEAN,
             handleTeamMemberAdd(a, u, maintainer) PROVE Good
  BY <1>1, <1>9 DEF handleTeamMemberAdd, AddTeamMember
<1>10. Good
  BY <1>3, <1>4, <1>5, <1>6, <1>7, <1>8, <1>9 DEF TokenStep, KeyStep, TeamStep
<1> QED
  BY <1>10 DEF AccountsTyped, AccountsTypeOK, NoRowLeft, LookupUser

(* A row of a sign-in through the provider (state.go ProvisionOIDCUser). *)
LEMMA ProvisionedTyped ==
  ASSUME AccountsTyped, NEW u \in User
  PROVE  ProvisionOIDCUser(u) \in Row /\ ProvisionOIDCUser(u).exists
<1>1. users[u] \in Row
  BY DEF AccountsTyped, AccountsTypeOK
<1>2. CASE LookupUser(u)
  BY <1>1, <1>2 DEF ProvisionOIDCUser, LookupUser
<1>3. CASE ~LookupUser(u)
  BY <1>3 DEF ProvisionOIDCUser, NoRow, Row
<1> QED
  BY <1>2, <1>3

(* Synchronised roles are roles, and group membership is membership
   (oidc_access.go syncManagedAccess). *)
LEMMA SyncedTyped ==
  ASSUME AccountsAssumption, AccountsTyped, NEW u \in User, NEW have \in SUBSET Privileged,
         NEW answer \in Answer
  PROVE  /\ Synced(u, have, answer) \in SUBSET Privileged
         /\ Grouped(u, answer) \in {"none", "member", "maintainer"}
<1>1. answer.roles \subseteq Privileged
  BY DEF AccountsAssumption, Answer, Privileged
<1>2. members[u] \in {"none", "member", "maintainer"}
  BY DEF AccountsTyped, AccountsTypeOK
<1> QED
  BY <1>1, <1>2 DEF Synced, Grouped, AddTeamMember

(* The steps of the provider and of its re-check keep the types (oidc_access.go,
   oidc_revalidate.go, oidc.go completeOIDCLogin and adminForTokenIdentity). *)
LEMMA ProviderStepTyped ==
  ASSUME AccountsAssumption, AccountsTyped, ProviderStep
  PROVE  AccountsTyped'
<1>1. /\ users \in [User -> Row] /\ roles \in [User -> SUBSET Privileged] /\ sessions \subseteq User
      /\ conns \subseteq Holder /\ recheck \in Round
      /\ members \in [User -> {"none", "member", "maintainer"}]
      /\ \A v \in User : users[v].exists \/ users[v] = NoRow
  BY DEF AccountsTyped, AccountsTypeOK, NoRowLeft, LookupUser
<1> DEFINE Good ==
       /\ users' \in [User -> Row] /\ roles' \in [User -> SUBSET Privileged]
       /\ sessions' \subseteq User /\ conns' \subseteq Holder /\ recheck' \in Round
       /\ members' \in [User -> {"none", "member", "maintainer"}]
       /\ \A v \in User : users'[v].exists \/ users'[v] = NoRow
       /\ team' = team /\ barred' = barred /\ creds' = creds
<1>2. ASSUME NEW u \in User, handleTokenLogin(u) PROVE Good
  <2>1. ProvisionedRoles(u, "admin") \in SUBSET Privileged
    BY <1>1 DEF ProvisionedRoles, bindInitialRole, Privileged
  <2>2. PICK row \in Row : row.exists /\ users' = [users EXCEPT ![u] = row]
    BY <1>2, ProvisionedTyped DEF handleTokenLogin, adminForTokenIdentity
  <2> QED
    BY <1>1, <1>2, <2>1, <2>2 DEF handleTokenLogin, adminForTokenIdentity, startSession
<1>3. ASSUME NEW u \in User, NEW answer \in Answer, completeOIDCLogin(u, answer) PROVE Good
  <2> DEFINE row == ProvisionOIDCUser(u)
             have == ProvisionedRoles(u, legacyRoleOf(answer.roles))
             new == [row EXCEPT !.disabled = FALSE, !.by = IF row.disabled THEN "" ELSE @,
                                !.refresh = row.managed \/ @]
  <2>1. row \in Row /\ row.exists
    BY ProvisionedTyped
  <2>2. new \in Row /\ new.exists
    BY <2>1 DEF Row
  <2>3. have \in SUBSET Privileged
    BY <1>1 DEF ProvisionedRoles, bindInitialRole, Privileged
  <2>4. users' = [users EXCEPT ![u] = new]
    BY <1>3 DEF completeOIDCLogin
  <2>5. PICK s \in SUBSET Privileged : roles' = [roles EXCEPT ![u] = s]
    BY <1>3, <2>3, SyncedTyped DEF completeOIDCLogin
  <2>6. PICK m \in {"none", "member", "maintainer"} : members' = [members EXCEPT ![u] = m]
    BY <1>1, <1>3, <2>3, SyncedTyped DEF completeOIDCLogin
  <2>7. /\ sessions' = sessions \cup {u} /\ UNCHANGED <<team, creds, conns, recheck, barred>>
    BY <1>3 DEF completeOIDCLogin, startSession
  <2> HIDE DEF new
  <2> QED
    BY <1>1, <2>2, <2>4, <2>5, <2>6, <2>7
<1>4. ASSUME NEW u \in User, NEW answers \in SUBSET Answer, revalidateOne(u, answers) PROVE Good
  <2>1. recheck' = [recheck EXCEPT !.left = @ \ {u}, !.out = @ \cup [on : {u}, answer : answers]]
    BY <1>4 DEF revalidateOne
  <2>2. recheck' \in Round
    BY <1>1, <2>1 DEF Round
  <2> QED
    BY <1>1, <1>4, <2>2 DEF revalidateOne
<1>5. ASSUME NEW a \in User, NEW u \in User, handleUserResetPassword(a, u) PROVE Good
  <2>1. users[u].exists
    BY <1>5 DEF handleUserResetPassword, LookupUser
  <2>2. [users[u] EXCEPT !.managed = FALSE] \in Row /\ [users[u] EXCEPT !.managed = FALSE].exists
    <3>1. users[u] \in Row
      BY <1>1
    <3> QED
      BY <2>1, <3>1 DEF Row
  <2>3. PICK new \in Row : new.exists /\ users' = [users EXCEPT ![u] = new]
    <3>1. users' = [users EXCEPT ![u] = [users[u] EXCEPT !.managed = FALSE]]
      BY <1>5 DEF handleUserResetPassword
    <3> QED
      BY <2>2, <3>1
  <2> QED
    BY <1>1, <1>5, <2>3 DEF handleUserResetPassword, RevokeSessions
<1>6. ASSUME RunOIDCRevalidation PROVE Good
  <2>1. recheck' \in Round
    BY <1>6 DEF RunOIDCRevalidation, Round, managedWithRefresh
  <2>3. UNCHANGED <<users, roles, team, members, creds, sessions, conns, barred>>
    BY <1>6 DEF RunOIDCRevalidation
  <2> QED
    BY <1>1, <2>1, <2>3
<1>7. ASSUME revalidateOIDC PROVE Good
  <2>1. PICK ph \in {"idle", "applying"}, out \in {{}, recheck.out} :
           recheck' = [phase |-> ph, left |-> {}, out |-> out]
    BY <1>7 DEF revalidateOIDC
  <2>2. recheck' \in Round
    BY <1>1, <2>1 DEF Round
  <2>3. UNCHANGED <<users, roles, team, members, creds, sessions, conns, barred>>
    BY <1>7 DEF revalidateOIDC
  <2> QED
    BY <1>1, <2>2, <2>3
<1>8. ASSUME RecheckDone PROVE Good
  <2>1. recheck' \in Round
    BY <1>1, <1>8 DEF RecheckDone, Round
  <2>3. UNCHANGED <<users, roles, team, members, creds, sessions, conns, barred>>
    BY <1>8 DEF RecheckDone
  <2> QED
    BY <1>1, <2>1, <2>3
<1>9. ASSUME NEW o \in recheck.out, disableByProvider(o) PROVE Good
  <2>1. o.on \in User /\ recheck' \in Round
    BY <1>1, <1>9 DEF disableByProvider, Applied, Round
  <2>2. CASE LookupUser(o.on) /\ ~LastPrivileged(o.on)
    <3>1. SetDisabledBy(o.on, TRUE, "oidc") /\ users[o.on].exists
      BY <1>9, <2>2 DEF disableByProvider, LookupUser
    <3> QED
      BY <1>1, <1>9, <2>1, <2>2, <3>1, DisablingUpdates, UpdateTyped
         DEF disableByProvider, CloseByToken
  <2>3. CASE ~(LookupUser(o.on) /\ ~LastPrivileged(o.on))
    BY <1>1, <1>9, <2>1, <2>3 DEF disableByProvider
  <2> QED
    BY <2>2, <2>3
<1>10. ASSUME NEW o \in recheck.out, syncManagedAccess(o) PROVE Good
  <2>1. o.on \in User /\ o.answer \in Answer /\ recheck' \in Round
    BY <1>1, <1>10 DEF syncManagedAccess, Applied, Round
  <2>2. CASE LookupUser(o.on)
    <3> DEFINE u == o.on
    <3>1. roles[u] \in SUBSET Privileged /\ users[u] \in Row /\ users[u].exists
      BY <1>1, <2>1, <2>2 DEF LookupUser
    <3>2. [users[u] EXCEPT !.refresh = TRUE] \in Row /\ [users[u] EXCEPT !.refresh = TRUE].exists
      BY <3>1 DEF Row
    <3>3. PICK new \in Row : new.exists /\ users' = [users EXCEPT ![u] = new]
      BY <1>10, <2>2, <3>2 DEF syncManagedAccess
    <3>4. PICK s \in SUBSET Privileged : roles' = [roles EXCEPT ![u] = s]
      BY <1>10, <2>1, <2>2, <3>1, SyncedTyped DEF syncManagedAccess
    <3>5. PICK m \in {"none", "member", "maintainer"} : members' = [members EXCEPT ![u] = m]
      BY <1>10, <2>1, <2>2, <3>1, SyncedTyped DEF syncManagedAccess
    <3> QED
      BY <1>1, <1>10, <2>1, <3>3, <3>4, <3>5 DEF syncManagedAccess
  <2>3. CASE ~LookupUser(o.on)
    BY <1>1, <1>10, <2>1, <2>3 DEF syncManagedAccess
  <2> QED
    BY <2>2, <2>3
<1>11. Good
  <2>1. {} \in SUBSET Answer /\ \A answer \in Answer : {answer} \in SUBSET Answer
    OBVIOUS
  <2>2. (\E u \in User, answers \in SUBSET Answer : revalidateOne(u, answers)) => Good
    BY <1>4
  <2> HIDE DEF Good
  <2>3. ASSUME NEW u \in User, revalidateOne(u, {}) PROVE Good
    BY <2>1, <2>2, <2>3
  <2>4. ASSUME NEW u \in User, NEW answer \in Answer, revalidateOne(u, {answer}) PROVE Good
    BY <2>1, <2>2, <2>4
  <2> QED
    BY <1>2, <1>3, <1>5, <1>6, <1>7, <1>8, <1>9, <1>10, <2>3, <2>4 DEF ProviderStep
<1> QED
  BY <1>11 DEF AccountsTyped, AccountsTypeOK, NoRowLeft, LookupUser, Round

-----------------------------------------------------------------------------
(* Accounts: an enabled owner or admin remains.                            *)

(* A step that touches one account keeps somebody privileged if that account
   stays what it was or another one is enough: the guard every handler that
   disables, deletes or unbinds applies (otherActivePrivileged). *)
LEMMA OthersSuffice ==
  ASSUME SomeonePrivileged, NEW u \in User, \E v \in User : LookupUser(v),
         \A v \in User \ {u} : users'[v] = users[v] /\ roles'[v] = roles[v],
         \/ otherActivePrivileged(u) # {}
         \/ Active(u) /\ isPrivileged(u) =>
               users'[u].exists /\ ~users'[u].disabled /\ roles'[u] # {}
  PROVE  SomeonePrivileged'
<1>1. PICK w \in User : Active(w) /\ isPrivileged(w)
  BY DEF SomeonePrivileged
<1>2. CASE w # u
  BY <1>1, <1>2 DEF SomeonePrivileged, Active, LookupUser, isPrivileged
<1>3. CASE w = u
  <2>1. CASE otherActivePrivileged(u) # {}
    BY <2>1 DEF otherActivePrivileged, SomeonePrivileged, Active, LookupUser, isPrivileged
  <2>2. CASE otherActivePrivileged(u) = {}
    BY <1>1, <1>3, <2>2 DEF SomeonePrivileged, Active, LookupUser, isPrivileged
  <2> QED
    BY <2>1, <2>2
<1> QED
  BY <1>2, <1>3

(* What the provider's word leaves of a privileged account's roles is not
   nothing, unless another account is enough (syncManagedAccess's Unbind). *)
LEMMA SyncedKeeps ==
  ASSUME NEW u \in User, NEW have \in SUBSET Privileged, NEW answer \in Answer, have # {},
         otherActivePrivileged(u) = {}
  PROVE  Synced(u, have, answer) # {}
<1>1. "admin" \in Privileged
  BY DEF Privileged
<1> QED
  BY <1>1 DEF Synced, UnbindRefused, Privileged

(* An account that is disabled leaves another privileged one: handleUserDisable
   and disableByProvider refuse to disable the last. *)
LEMMA DisableKeepsPrivileged ==
  ASSUME AccountsTyped, SomeonePrivileged, NEW u \in User, NEW by \in {"", "oidc"}, LookupUser(u),
         ~LastPrivileged(u), SetDisabledBy(u, TRUE, by), roles' = roles
  PROVE  SomeonePrivileged'
<1>1. \A v \in User \ {u} : users'[v] = users[v]
  BY DEF SetDisabledBy, UpdateUser, AccountsTyped, AccountsTypeOK
<1> QED
  BY <1>1, OthersSuffice DEF LastPrivileged

(* The operations on accounts leave somebody privileged. *)
LEMMA AccountStepPrivileged ==
  ASSUME AccountsTyped, SomeonePrivileged, AccountStep
  PROVE  SomeonePrivileged'
<1>1. /\ users \in [User -> Row] /\ roles \in [User -> SUBSET Privileged]
      /\ \A v \in User : users[v].exists \/ users[v] = NoRow
  BY DEF AccountsTyped, AccountsTypeOK, NoRowLeft, LookupUser
<1>2. ASSUME NEW u \in User, handleSetup(u) PROVE SomeonePrivileged'
  <2>1. ~users[u].disabled
    <3>1. users[u] = NoRow
      BY <1>1, <1>2 DEF handleSetup, NeedsSetup, LookupUser
    <3>2. ~NoRow.disabled
      BY DEF NoRow
    <3> QED
      BY <3>1, <3>2
  <2>2. users[u] \in Row
    BY <1>1
  <2>3. users' = [users EXCEPT ![u] = [users[u] EXCEPT !.exists = TRUE]] /\ roles'[u] = {"owner"}
    BY <1>1, <1>2 DEF handleSetup, AddFirstAdmin
  <2>4. users'[u] = [users[u] EXCEPT !.exists = TRUE]
    BY <1>1, <2>3
  <2>5. users'[u].exists /\ ~users'[u].disabled
    BY <2>1, <2>2, <2>4 DEF Row
  <2> QED
    BY <2>3, <2>5 DEF SomeonePrivileged, Active, LookupUser, isPrivileged
<1>3. ASSUME NEW u \in User, handleLogin(u) \/ handleSessionRevoke(u) PROVE SomeonePrivileged'
  BY <1>3 DEF handleLogin, handleSessionRevoke, SomeonePrivileged, Active, LookupUser, isPrivileged
<1>4. ASSUME NEW a \in User, NEW u \in User, handleAddUser(a, u) PROVE SomeonePrivileged'
  <2>1. \A v \in User \ {u} : users'[v] = users[v] /\ roles'[v] = roles[v]
    BY <1>1, <1>4 DEF handleAddUser, AddUser
  <2>2. LookupUser(a) /\ ~Active(u)
    BY <1>4 DEF handleAddUser, requirePerm, sessionUser, Active
  <2> QED
    BY <2>1, <2>2, OthersSuffice
<1>5. ASSUME NEW a \in User, NEW u \in User, handleUserDisable(a, u) PROVE SomeonePrivileged'
  BY <1>5, DisableKeepsPrivileged DEF handleUserDisable
<1>6. ASSUME NEW a \in User, NEW u \in User, handleUserEnable(a, u) PROVE SomeonePrivileged'
  <2>1. UpdateUser(u, [users[u] EXCEPT !.disabled = FALSE]) /\ roles' = roles /\ LookupUser(u)
    BY <1>6 DEF handleUserEnable
  <2>2. \A v \in User \ {u} : users'[v] = users[v]
    BY <1>1, <2>1 DEF UpdateUser
  <2>3. PICK row : row.exists /\ ~row.disabled /\ users' = [users EXCEPT ![u] = row]
    <3>1. users[u] \in Row
      BY <1>1
    <3> DEFINE row == [users[u] EXCEPT !.disabled = FALSE]
    <3>2. row \in Row /\ row.exists /\ ~row.disabled
      BY <2>1, <3>1 DEF LookupUser, Row
    <3> HIDE DEF row
    <3>3. [row EXCEPT !.by = ""].exists /\ ~[row EXCEPT !.by = ""].disabled
      BY <3>2 DEF Row
    <3> QED
      BY <2>1, <3>2, <3>3 DEF UpdateUser, row
  <2> QED
    BY <1>1, <2>1, <2>2, <2>3, OthersSuffice DEF isPrivileged
<1>7. ASSUME NEW a \in User, NEW u \in User, handleUserDelete(a, u) PROVE SomeonePrivileged'
  <2>1. \A v \in User \ {u} : users'[v] = users[v] /\ roles'[v] = roles[v]
    BY <1>1, <1>7 DEF handleUserDelete, DeleteUser
  <2>2. LookupUser(u) /\ ~Active(u)
    BY <1>7 DEF handleUserDelete, DeleteUser, Active
  <2> QED
    BY <2>1, <2>2, OthersSuffice
<1>8. ASSUME NEW a \in User, NEW u \in User, handleUserSignOut(a, u) PROVE SomeonePrivileged'
  BY <1>8 DEF handleUserSignOut, SomeonePrivileged, Active, LookupUser, isPrivileged
<1>9. ASSUME NEW a \in User, NEW u \in User, NEW role \in Privileged, handleUserRoleAdd(a, u, role)
      PROVE  SomeonePrivileged'
  <2>1. users' = users /\ roles' = [roles EXCEPT ![u] = roles[u] \cup {role}] /\ LookupUser(u)
    BY <1>9 DEF handleUserRoleAdd
  <2> QED
    BY <1>1, <2>1, OthersSuffice DEF Active, LookupUser
<1>10. ASSUME NEW a \in User, NEW u \in User, NEW role \in Privileged,
              handleUserRoleRemove(a, u, role) PROVE SomeonePrivileged'
  <2>1. /\ users' = users /\ roles' = [roles EXCEPT ![u] = roles[u] \ {role}] /\ LookupUser(a)
        /\ otherActivePrivileged(u) # {} \/ roles[u] \ {role} # {}
    BY <1>10 DEF handleUserRoleRemove, requirePerm, sessionUser, Active, UnbindRefused
  <2> QED
    BY <1>1, <2>1, OthersSuffice DEF Active, LookupUser
<1> QED
  BY <1>2, <1>3, <1>4, <1>5, <1>6, <1>7, <1>8, <1>9, <1>10 DEF AccountStep

(* The steps of the provider and of its re-check leave somebody privileged. *)
LEMMA ProviderStepPrivileged ==
  ASSUME AccountsAssumption, AccountsTyped, SomeonePrivileged, ProviderStep
  PROVE  SomeonePrivileged'
<1>1. /\ users \in [User -> Row] /\ roles \in [User -> SUBSET Privileged] /\ recheck \in Round
  BY DEF AccountsTyped, AccountsTypeOK
<1>2. ASSUME NEW u \in User, handleTokenLogin(u) PROVE SomeonePrivileged'
  <2>1. /\ users' = [users EXCEPT ![u] = ProvisionOIDCUser(u)]
        /\ roles' = [roles EXCEPT ![u] = ProvisionedRoles(u, "admin")]
        /\ \E v \in User : LookupUser(v)
    BY <1>2 DEF handleTokenLogin, adminForTokenIdentity, NeedsSetup
  <2>2. Active(u) => users'[u] = users[u] /\ roles'[u] = roles[u]
    BY <1>1, <2>1 DEF Active, ProvisionOIDCUser, ProvisionedRoles
  <2> QED
    BY <1>1, <2>1, <2>2, OthersSuffice DEF Active, LookupUser, isPrivileged
<1>3. ASSUME NEW u \in User, NEW answer \in Answer, completeOIDCLogin(u, answer)
      PROVE  SomeonePrivileged'
  <2> DEFINE row == ProvisionOIDCUser(u)
             have == ProvisionedRoles(u, legacyRoleOf(answer.roles))
             new == [row EXCEPT !.disabled = FALSE, !.by = IF row.disabled THEN "" ELSE @,
                                !.refresh = row.managed \/ @]
  <2>1. /\ users' = [users EXCEPT ![u] = new]
        /\ roles' = [roles EXCEPT ![u] = IF row.managed THEN Synced(u, have, answer) ELSE have]
        /\ \E v \in User : LookupUser(v)
    BY <1>3 DEF completeOIDCLogin, NeedsSetup
  <2>2. new.exists /\ ~new.disabled
    <3>1. row \in Row /\ row.exists
      BY ProvisionedTyped
    <3> QED
      BY <3>1 DEF Row
  <2>3. ASSUME Active(u), isPrivileged(u), otherActivePrivileged(u) = {} PROVE roles'[u] # {}
    <3>1. have = roles[u] /\ have \in SUBSET Privileged /\ have # {}
      BY <1>1, <2>3 DEF Active, ProvisionedRoles, isPrivileged
    <3>2. Synced(u, have, answer) # {}
      BY <2>3, <3>1, SyncedKeeps
    <3>3. roles'[u] = IF row.managed THEN Synced(u, have, answer) ELSE have
      BY <1>1, <2>1
    <3> QED
      BY <3>1, <3>2, <3>3
  <2>4. users'[u] = new /\ \A v \in User \ {u} : users'[v] = users[v] /\ roles'[v] = roles[v]
    BY <1>1, <2>1
  <2> HIDE DEF new
  <2> QED
    BY <2>1, <2>2, <2>3, <2>4, OthersSuffice
<1>4. ASSUME NEW u \in User, NEW answers, revalidateOne(u, answers) PROVE SomeonePrivileged'
  BY <1>4 DEF revalidateOne, SomeonePrivileged, Active, LookupUser, isPrivileged
<1>5. ASSUME NEW a \in User, NEW u \in User, handleUserResetPassword(a, u)
      PROVE  SomeonePrivileged'
  <2>1. users[u] \in Row
    BY <1>1
  <2>2. /\ users' = [users EXCEPT ![u] = [users[u] EXCEPT !.managed = FALSE]] /\ roles' = roles
        /\ LookupUser(u)
    BY <1>5 DEF handleUserResetPassword
  <2>3. /\ [users[u] EXCEPT !.managed = FALSE].exists = users[u].exists
        /\ [users[u] EXCEPT !.managed = FALSE].disabled = users[u].disabled
    BY <2>1 DEF Row
  <2>4. /\ users'[u].exists = users[u].exists /\ users'[u].disabled = users[u].disabled
        /\ \A v \in User \ {u} : users'[v] = users[v] /\ roles'[v] = roles[v]
        /\ roles'[u] = roles[u]
    BY <1>1, <2>2, <2>3
  <2> QED
    BY <2>2, <2>4, OthersSuffice DEF Active, LookupUser, isPrivileged
<1>6. CASE RunOIDCRevalidation \/ revalidateOIDC \/ RecheckDone
  <2>1. users' = users /\ roles' = roles
    BY <1>6 DEF RunOIDCRevalidation, revalidateOIDC, RecheckDone
  <2> QED
    BY <2>1 DEF SomeonePrivileged, Active, LookupUser, isPrivileged
<1>7. ASSUME NEW o \in recheck.out, disableByProvider(o) PROVE SomeonePrivileged'
  <2>1. o.on \in User /\ roles' = roles
    BY <1>1, <1>7 DEF disableByProvider, Round
  <2>2. CASE LookupUser(o.on) /\ ~LastPrivileged(o.on)
    BY <1>7, <2>1, <2>2, DisableKeepsPrivileged DEF disableByProvider
  <2>3. CASE ~(LookupUser(o.on) /\ ~LastPrivileged(o.on))
    BY <1>7, <2>1, <2>3
       DEF disableByProvider, SomeonePrivileged, Active, LookupUser, isPrivileged
  <2> QED
    BY <2>2, <2>3
<1>8. ASSUME NEW o \in recheck.out, syncManagedAccess(o) PROVE SomeonePrivileged'
  <2>1. o.on \in User /\ o.answer \in Answer
    BY <1>1, <1>8 DEF Round
  <2>2. CASE LookupUser(o.on)
    <3> DEFINE u == o.on
    <3>1. /\ users' = [users EXCEPT ![u] = [users[u] EXCEPT !.refresh = TRUE]]
          /\ roles' = [roles EXCEPT ![u] = Synced(u, roles[u], o.answer)]
      BY <1>8, <2>2 DEF syncManagedAccess
    <3>2. users[u] \in Row /\ roles[u] \in SUBSET Privileged
      BY <1>1, <2>1
    <3>3. /\ [users[u] EXCEPT !.refresh = TRUE].exists = users[u].exists
          /\ [users[u] EXCEPT !.refresh = TRUE].disabled = users[u].disabled
      BY <3>2 DEF Row
    <3>4. /\ users'[u].exists = users[u].exists /\ users'[u].disabled = users[u].disabled
          /\ \A v \in User \ {u} : users'[v] = users[v] /\ roles'[v] = roles[v]
          /\ roles'[u] = Synced(u, roles[u], o.answer)
      BY <1>1, <2>1, <3>1, <3>3
    <3>5. roles[u] # {} /\ otherActivePrivileged(u) = {} => Synced(u, roles[u], o.answer) # {}
      BY <2>1, <3>2, SyncedKeeps
    <3> HIDE DEF u
    <3>6. u \in User /\ LookupUser(u)
      BY <2>1, <2>2 DEF u
    <3> QED
      BY <3>4, <3>5, <3>6, OthersSuffice DEF Active, LookupUser, isPrivileged
  <2>3. CASE ~LookupUser(o.on)
    BY <1>8, <2>3 DEF syncManagedAccess, SomeonePrivileged, Active, LookupUser, isPrivileged
  <2> QED
    BY <2>2, <2>3
<1> QED
  BY <1>2, <1>3, <1>4, <1>5, <1>6, <1>7, <1>8 DEF ProviderStep

(* Whatever administrators, the provider and its re-check do, an enabled owner
   or admin remains: the guards on the last one, in five handlers that do not
   know of each other, are enough together (handleUserDisable, DeleteUser,
   Unbind, disableByProvider, syncManagedAccess). *)
THEOREM AccountsSomeonePrivileged == AccountsSpec => []SomeonePrivileged
<1> DEFINE Inv == AccountsTyped /\ SomeonePrivileged
<1>1. AccountsInit => Inv
  <2>1. AccountsInit => AccountsTyped
    BY InitTyped
  <2>2. AccountsInit => \A u \in User : ~LookupUser(u)
    <3>1. ~NoRow.exists
      BY DEF NoRow
    <3> QED
      BY <3>1 DEF AccountsInit, LookupUser
  <2> QED
    BY <2>1, <2>2 DEF SomeonePrivileged
<1>2. Inv /\ [AccountsNext]_accountsVars => Inv'
  <2> SUFFICES ASSUME Inv, [AccountsNext]_accountsVars PROVE Inv'
    OBVIOUS
  <2>1. ASSUME TokenStep \/ KeyStep \/ TeamStep PROVE users' = users /\ roles' = roles
    BY <2>1 DEF TokenStep, KeyStep, TeamStep, LookupActiveClientToken, WorkerLeaves,
       handleClientTokenCreate, handleClientTokenRevoke, handleAPIKeyCreate, handleAPIKeyRevoke,
       handleTeamCreate, handleTeamState, handleTeamMemberRemove, handleTeamMemberAdd
  <2>2. ASSUME TokenStep \/ KeyStep \/ TeamStep PROVE SomeonePrivileged'
    BY <2>1, <2>2 DEF SomeonePrivileged, Active, LookupUser, isPrivileged
  <2>3. CASE UNCHANGED accountsVars
    BY <2>3 DEF accountsVars, AccountsTyped, AccountsTypeOK, NoRowLeft, SomeonePrivileged,
                Active, LookupUser, isPrivileged
  <2> QED
    BY <2>2, <2>3, AccountsAssumption, AccountStepTyped, CredentialStepTyped, ProviderStepTyped,
       AccountStepPrivileged, ProviderStepPrivileged DEF AccountsNext
<1> QED
  BY <1>1, <1>2, PTL DEF AccountsSpec

(* Every handler of the accounts keeps their types. *)
LEMMA AccountsKeepTypes == AccountsTyped /\ [AccountsNext]_accountsVars => AccountsTyped'
<1> SUFFICES ASSUME AccountsTyped, [AccountsNext]_accountsVars PROVE AccountsTyped'
  OBVIOUS
<1>1. CASE UNCHANGED accountsVars
  BY <1>1 DEF accountsVars, AccountsTyped, AccountsTypeOK, NoRowLeft, LookupUser
<1> QED
  BY <1>1, AccountsAssumption, AccountStepTyped, CredentialStepTyped, ProviderStepTyped DEF AccountsNext

-----------------------------------------------------------------------------
(* Accounts: nothing that grants access outlives its principal.            *)

SessionsActive == \A u \in sessions : Active(u)
HeldByRows == \A u \in User : roles[u] # {} \/ members[u] # "none" => LookupUser(u)
MembersOfTeam == (\E u \in User : members[u] # "none") => team # "absent"
Owned(p) == IF p = Team THEN team # "absent" ELSE LookupUser(p)
CredsOwned == \A c \in creds : Owned(c[2])
Admitted(p) == <<"token", p>> \in creds /\ PrincipalActive(p)
WorkersAdmitted == \A p \in conns : Admitted(p)

AccessInv ==
    AccountsTyped /\ SessionsActive /\ HeldByRows /\ MembersOfTeam /\ CredsOwned /\ WorkersAdmitted

(* Access granted by rows that only change in one account: what is granted to
   the others stays as justified as it was. *)
LEMMA OneAccountChanges ==
  ASSUME AccountsAssumption, AccessInv, NEW u \in User,
         \A v \in User \ {u} : users'[v] = users[v] /\ roles'[v] = roles[v] /\ members'[v] = members[v],
         AccountsTyped', team' = team, creds' \subseteq creds, conns' \subseteq conns,
         sessions' \subseteq sessions \cup {u},
         u \in sessions' => users'[u].exists /\ ~users'[u].disabled,
         roles'[u] # {} \/ members'[u] # "none" => users'[u].exists,
         members'[u] # "none" => members[u] # "none" \/ team # "absent",
         users'[u].exists \/ \A kind \in Kind : <<kind, u>> \notin creds',
         \A p \in conns' : <<"token", p>> \in creds',
         u \in conns' => ~users'[u].exists \/ ~users'[u].disabled
  PROVE  AccessInv'
<1> USE DEF AccessInv
<1>1. /\ sessions \subseteq User /\ sessions' \subseteq User /\ Team \notin User
      /\ creds \subseteq Kind \X Holder /\ Holder \subseteq User \cup {Team} /\ conns \subseteq Holder
  BY DEF AccountsTyped, AccountsTypeOK, AccountsAssumption
<1>2. SessionsActive'
  BY <1>1 DEF SessionsActive, Active, LookupUser
<1>3. HeldByRows'
  BY DEF HeldByRows, LookupUser
<1>4. MembersOfTeam'
  BY DEF MembersOfTeam
<1>5. CredsOwned'
  <2> SUFFICES ASSUME NEW c \in creds' PROVE Owned(c[2])'
    BY DEF CredsOwned
  <2>1. c \in creds /\ c[1] \in Kind /\ c[2] \in Holder /\ c = <<c[1], c[2]>> /\ Owned(c[2])
    BY <1>1 DEF CredsOwned
  <2>2. CASE c[2] = u
    BY <1>1, <2>1, <2>2 DEF Owned, LookupUser
  <2>3. CASE c[2] # u
    BY <1>1, <2>1, <2>3 DEF Owned, LookupUser
  <2> QED
    BY <2>2, <2>3
<1>6. WorkersAdmitted'
  <2> SUFFICES ASSUME NEW p \in conns' PROVE Admitted(p)'
    BY DEF WorkersAdmitted
  <2>1. p \in User \cup {Team} /\ PrincipalActive(p) /\ <<"token", p>> \in creds'
    BY <1>1 DEF WorkersAdmitted, Admitted
  <2> QED
    BY <1>1, <2>1 DEF Admitted, PrincipalActive, LookupUser
<1> QED
  BY <1>2, <1>3, <1>4, <1>5, <1>6

(* Disabling an account ends its sessions and cuts its workers (SetDisabledBy
   with CloseByToken, in handleUserDisable and disableByProvider). *)
LEMMA DisableKeepsAccess ==
  ASSUME AccountsAssumption, AccessInv, AccountsTyped', NEW u \in User, NEW by \in {"", "oidc"},
         LookupUser(u), SetDisabledBy(u, TRUE, by), conns' = CloseByToken(u),
         UNCHANGED <<roles, team, members, creds>>
  PROVE  AccessInv'
<1> DEFINE row == DisabledRow(users[u], by)
<1>1. /\ users \in [User -> Row] /\ users[u].exists /\ conns \subseteq Holder /\ u \in User
      /\ sessions \subseteq User
  BY DEF AccessInv, AccountsTyped, AccountsTypeOK, LookupUser
<1>2. row \in Row /\ row.exists /\ row.disabled /\ UpdateUser(u, row)
  BY <1>1, DisablingUpdates DEF AccessInv
<1> HIDE DEF row
<1>3. users' = [users EXCEPT ![u] = row]
  BY <1>2 DEF UpdateUser
<1>4. u \notin sessions' /\ sessions' \subseteq sessions
  <2>1. ~users[u].disabled => sessions' = sessions \ {u}
    BY <1>2 DEF UpdateUser, RevokeSessions
  <2>2. users[u].disabled => sessions' = sessions /\ u \notin sessions
    BY <1>2 DEF UpdateUser, AccessInv, SessionsActive, Active
  <2> QED
    BY <2>1, <2>2
<1>5. u \notin conns' /\ conns' \subseteq conns
  BY DEF CloseByToken, AccessInv, WorkersAdmitted, Admitted
<1>6. \A p \in conns' : <<"token", p>> \in creds'
  BY <1>5 DEF AccessInv, WorkersAdmitted, Admitted
<1>7. users'[u] = row /\ \A v \in User \ {u} : users'[v] = users[v]
  BY <1>1, <1>3
<1> QED
  BY <1>1, <1>2, <1>4, <1>5, <1>6, <1>7, OneAccountChanges

(* The operations on accounts leave no access behind. *)
LEMMA AccountStepAccess ==
  ASSUME AccountsAssumption, AccessInv, AccountsTyped', AccountStep
  PROVE  AccessInv'
<1>1. /\ users \in [User -> Row] /\ roles \in [User -> SUBSET Privileged] /\ sessions \subseteq User
      /\ conns \subseteq Holder /\ members \in [User -> {"none", "member", "maintainer"}]
      /\ \A v \in User : users[v].exists \/ users[v] = NoRow
      /\ ~NoRow.disabled /\ ~NoRow.exists
  <2>1. ~NoRow.disabled /\ ~NoRow.exists
    BY DEF NoRow
  <2> QED
    BY <2>1 DEF AccessInv, AccountsTyped, AccountsTypeOK, NoRowLeft, LookupUser
<1>2. /\ \A v \in User : v \in sessions => users[v].exists /\ ~users[v].disabled
      /\ \A v \in User : roles[v] # {} \/ members[v] # "none" => users[v].exists
      /\ \A v \in User : members[v] # "none" => team # "absent"
      /\ \A v \in User : users[v].exists \/ \A kind \in Kind : <<kind, v>> \notin creds
      /\ \A p \in conns : <<"token", p>> \in creds
      /\ \A v \in User : v \in conns => ~users[v].exists \/ ~users[v].disabled
  <2>1. \A v \in User : v # Team
    BY DEF AccountsAssumption
  <2>2. \A v \in User, kind \in Kind : <<kind, v>> \in creds => users[v].exists
    BY <2>1 DEF AccessInv, CredsOwned, Owned, LookupUser
  <2> QED
    BY <2>1, <2>2 DEF AccessInv, SessionsActive, Active, LookupUser, HeldByRows, MembersOfTeam,
       WorkersAdmitted, Admitted, PrincipalActive
<1>3. ASSUME NEW u \in User, users' = [users EXCEPT ![u] = [users[u] EXCEPT !.exists = TRUE]],
             ~users[u].disabled, \E s : roles' = [roles EXCEPT ![u] = s],
             UNCHANGED <<team, members, creds, sessions, conns>>
      PROVE  AccessInv'
  <2>1. users[u] \in Row
    BY <1>1
  <2>2. [users[u] EXCEPT !.exists = TRUE].exists /\ ~[users[u] EXCEPT !.exists = TRUE].disabled
    BY <1>3, <2>1 DEF Row
  <2>3. users'[u].exists /\ ~users'[u].disabled /\ \A v \in User \ {u} : users'[v] = users[v]
    BY <1>1, <1>3, <2>2
  <2>4. \A v \in User \ {u} : roles'[v] = roles[v]
    BY <1>1, <1>3
  <2> QED
    BY <1>2, <1>3, <2>3, <2>4, OneAccountChanges
<1>4. ASSUME NEW u \in User, handleSetup(u) PROVE AccessInv'
  <2>1. ~users[u].disabled
    BY <1>1, <1>4 DEF handleSetup, NeedsSetup, LookupUser
  <2> QED
    BY <1>3, <1>4, <2>1 DEF handleSetup, AddFirstAdmin
<1>5. ASSUME NEW a \in User, NEW u \in User, handleAddUser(a, u) PROVE AccessInv'
  <2>1. ~users[u].disabled
    BY <1>1, <1>5 DEF handleAddUser, LookupUser
  <2> QED
    BY <1>3, <1>5, <2>1 DEF handleAddUser, AddUser
<1>6. ASSUME NEW u \in User, handleLogin(u) \/ handleSessionRevoke(u) PROVE AccessInv'
  BY <1>2, <1>6, OneAccountChanges
     DEF handleLogin, handleSessionRevoke, startSession, RevokeSessions, Active, LookupUser
<1>7. ASSUME NEW a \in User, NEW u \in User, handleUserDisable(a, u) PROVE AccessInv'
  BY <1>7, DisableKeepsAccess DEF handleUserDisable
<1>8. ASSUME NEW a \in User, NEW u \in User, handleUserEnable(a, u) PROVE AccessInv'
  <2> DEFINE row == [users[u] EXCEPT !.disabled = FALSE]
  <2>1. users[u] \in Row /\ users[u].exists /\ UpdateUser(u, row)
    BY <1>1, <1>8 DEF handleUserEnable, LookupUser
  <2>2. row \in Row /\ row.exists /\ ~row.disabled
    BY <2>1 DEF Row
  <2> HIDE DEF row
  <2>3. [row EXCEPT !.by = ""].exists /\ ~[row EXCEPT !.by = ""].disabled
    BY <2>2 DEF Row
  <2>4. PICK new : new.exists /\ ~new.disabled /\ users' = [users EXCEPT ![u] = new]
    BY <2>1, <2>2, <2>3 DEF UpdateUser
  <2>5. users'[u] = new /\ \A v \in User \ {u} : users'[v] = users[v]
    BY <1>1, <2>4
  <2>6. sessions' = sessions /\ UNCHANGED <<roles, team, members, creds, conns>>
    BY <1>8, <2>1, <2>2 DEF UpdateUser, handleUserEnable
  <2> QED
    BY <1>2, <2>1, <2>4, <2>5, <2>6, OneAccountChanges
<1>9. ASSUME NEW a \in User, NEW u \in User, handleUserDelete(a, u) PROVE AccessInv'
  <2>1. /\ users[u].disabled /\ users[u].exists
        /\ users' = [users EXCEPT ![u] = NoRow] /\ roles' = [roles EXCEPT ![u] = {}]
        /\ members' = [members EXCEPT ![u] = "none"] /\ creds' = creds \ (Kind \X {u})
        /\ sessions' = sessions \ {u} /\ team' = team /\ conns' = conns
    BY <1>9 DEF handleUserDelete, DeleteUser, RevokeSessions, LookupUser
  <2>2. u \notin conns
    BY <1>2, <2>1
  <2>3. \A p \in conns' : <<"token", p>> \in creds'
    BY <1>2, <2>1, <2>2
  <2>4. \A kind \in Kind : <<kind, u>> \notin creds'
    BY <2>1
  <2>5. /\ users'[u] = NoRow /\ roles'[u] = {} /\ members'[u] = "none" /\ creds' \subseteq creds
        /\ \A v \in User \ {u} : users'[v] = users[v] /\ roles'[v] = roles[v] /\ members'[v] = members[v]
    BY <1>1, <2>1
  <2> QED
    BY <1>1, <2>1, <2>2, <2>3, <2>4, <2>5, OneAccountChanges
<1>10. ASSUME NEW a \in User, NEW u \in User, handleUserSignOut(a, u) PROVE AccessInv'
  BY <1>2, <1>10, OneAccountChanges DEF handleUserSignOut, RevokeSessions
<1>11. ASSUME NEW a \in User, NEW u \in User, NEW role \in Privileged,
              handleUserRoleAdd(a, u, role) \/ handleUserRoleRemove(a, u, role)
       PROVE  AccessInv'
  <2>1. /\ \A v \in User \ {u} : roles'[v] = roles[v]
        /\ roles'[u] # {} => users[u].exists
        /\ UNCHANGED <<users, team, members, creds, sessions, conns>>
    BY <1>1, <1>2, <1>11 DEF handleUserRoleAdd, handleUserRoleRemove, LookupUser
  <2> QED
    BY <1>2, <2>1, OneAccountChanges
<1> QED
  BY <1>4, <1>5, <1>6, <1>7, <1>8, <1>9, <1>10, <1>11 DEF AccountStep

(* The team's handlers and those of keys and tokens leave no access behind:
   deleting the team takes its members and credentials along, and disabling it
   or revoking a token cuts the workers (handleTeamState,
   handleClientTokenRevoke). *)
LEMMA CredentialStepAccess ==
  ASSUME AccountsAssumption, AccessInv, AccountsTyped', TokenStep \/ KeyStep \/ TeamStep
  PROVE  AccessInv'
<1>1. /\ conns \subseteq Holder /\ members \in [User -> {"none", "member", "maintainer"}]
      /\ creds \subseteq Kind \X Holder /\ team \in {"absent", "active", "disabled"}
      /\ Holder \subseteq User \cup {Team} /\ Team \notin User
  BY DEF AccessInv, AccountsTyped, AccountsTypeOK, AccountsAssumption
<1>2. UNCHANGED <<users, roles, sessions>>
  BY DEF TokenStep, KeyStep, TeamStep, LookupActiveClientToken, WorkerLeaves,
     handleClientTokenCreate, handleClientTokenRevoke, handleAPIKeyCreate, handleAPIKeyRevoke,
     handleTeamCreate, handleTeamState, handleTeamMemberRemove, handleTeamMemberAdd
<1>3. SessionsActive'
  BY <1>2 DEF AccessInv, SessionsActive, Active, LookupUser
<1>4. ASSUME UNCHANGED <<team, members>>,
             \A c \in creds' : c \in creds \/ Owned(c[2]),
             \A p \in conns' : <<"token", p>> \in creds' /\ PrincipalActive(p)
      PROVE  AccessInv'
  <2>1. HeldByRows' /\ MembersOfTeam'
    BY <1>2, <1>4 DEF AccessInv, HeldByRows, MembersOfTeam, LookupUser
  <2>2. CredsOwned' /\ WorkersAdmitted'
    BY <1>2, <1>4 DEF AccessInv, CredsOwned, Owned, WorkersAdmitted, Admitted, PrincipalActive,
                      LookupUser
  <2> QED
    BY <1>3, <2>1, <2>2 DEF AccessInv
<1>5. \A p \in conns : <<"token", p>> \in creds /\ PrincipalActive(p)
  BY DEF AccessInv, WorkersAdmitted, Admitted
<1>6. ASSUME NEW p \in Holder, LookupActiveClientToken(p) \/ WorkerLeaves(p) PROVE AccessInv'
  BY <1>4, <1>5, <1>6 DEF LookupActiveClientToken, WorkerLeaves
<1>7. ASSUME NEW a \in User, NEW p \in Holder, credentialOwner(a, p) PROVE Owned(p)
  BY <1>1, <1>7
     DEF credentialOwner, Owned, sessionUser, Active, teamFromForm
<1>8. ASSUME NEW a \in User, NEW p \in Holder, handleAPIKeyCreate(a, p) \/ handleAPIKeyRevoke(a, p)
      PROVE  AccessInv'
  <2>1. Owned(p)
    BY <1>7, <1>8 DEF handleAPIKeyCreate, handleAPIKeyRevoke
  <2>2. \A q : <<"token", q>> # <<"key", p>>
    OBVIOUS
  <2> QED
    BY <1>4, <1>5, <1>8, <2>1, <2>2 DEF handleAPIKeyCreate, handleAPIKeyRevoke
<1>9. ASSUME NEW a \in User, NEW p \in Holder,
             handleClientTokenCreate(a, p) \/ handleClientTokenRevoke(a, p)
      PROVE  AccessInv'
  <2>1. Owned(p)
    BY <1>7, <1>9 DEF handleClientTokenCreate, handleClientTokenRevoke
  <2>2. \A q \in conns' : q \in conns /\ <<"token", q>> \in creds'
    BY <1>5, <1>9 DEF handleClientTokenCreate, handleClientTokenRevoke, CloseByToken
  <2> QED
    BY <1>4, <1>5, <1>9, <2>1, <2>2 DEF handleClientTokenCreate, handleClientTokenRevoke
<1>10. ASSUME NEW a \in User, handleTeamCreate(a) PROVE AccessInv'
  <2>1. /\ team = "absent" /\ team' = "active" /\ members' = [members EXCEPT ![a] = "maintainer"]
        /\ creds' = creds /\ conns' = conns /\ LookupUser(a)
    BY <1>10 DEF handleTeamCreate, CreateTeam, requirePerm, sessionUser, Active
  <2>2. HeldByRows' /\ MembersOfTeam'
    BY <1>1, <1>2, <2>1 DEF AccessInv, HeldByRows, MembersOfTeam, LookupUser
  <2>3. CredsOwned' /\ WorkersAdmitted'
    BY <1>1, <1>2, <1>5, <2>1 DEF AccessInv, CredsOwned, Owned, WorkersAdmitted, Admitted,
       PrincipalActive, LookupUser
  <2> QED
    BY <1>3, <2>2, <2>3 DEF AccessInv
<1>11. ASSUME NEW a \in User, NEW action \in {"enable", "disable", "delete"},
              handleTeamState(a, action)
       PROVE  AccessInv'
  <2>1. team # "absent"
    BY <1>11 DEF handleTeamState, teamFromForm
  <2>2. CASE action = "delete"
    <3>1. /\ team' = "absent" /\ members' = [u \in User |-> "none"]
          /\ creds' = creds \ (Kind \X {Team}) /\ conns' = CloseByToken(Team)
      BY <1>11, <2>2 DEF handleTeamState, DeleteTeam
    <3>2. HeldByRows' /\ MembersOfTeam'
      BY <1>2, <3>1 DEF AccessInv, HeldByRows, MembersOfTeam, LookupUser
    <3>3. CredsOwned'
      <4> SUFFICES ASSUME NEW c \in creds' PROVE Owned(c[2])'
        BY DEF CredsOwned
      <4>1. c \in creds /\ c[1] \in Kind /\ c = <<c[1], c[2]>> /\ c[2] # Team
        BY <1>1, <3>1
      <4> QED
        BY <1>2, <4>1 DEF AccessInv, CredsOwned, Owned, LookupUser
    <3>4. \A p \in conns' : p \in conns /\ p # Team
      BY <1>5, <3>1 DEF CloseByToken
    <3>5. WorkersAdmitted'
      <4> SUFFICES ASSUME NEW p \in conns' PROVE Admitted(p)'
        BY DEF WorkersAdmitted
      <4>1. p # Team /\ <<"token", p>> \in creds' /\ PrincipalActive(p)
        BY <1>5, <3>1, <3>4
      <4> QED
        BY <1>2, <4>1 DEF Admitted, PrincipalActive, LookupUser
    <3> QED
      BY <1>3, <3>2, <3>3, <3>5 DEF AccessInv
  <2>3. CASE action # "delete"
    <3>1. /\ team' \in {"active", "disabled"} /\ members' = members /\ creds' = creds
          /\ conns' \subseteq conns
          /\ team' = "disabled" => conns' = CloseByToken(Team)
      BY <1>11, <2>3 DEF handleTeamState, SetTeamDisabled, CloseByToken
    <3>2. HeldByRows' /\ MembersOfTeam' /\ CredsOwned'
      BY <1>2, <2>1, <3>1
         DEF AccessInv, HeldByRows, MembersOfTeam, CredsOwned, Owned, LookupUser
    <3>3. Team \in conns' => team' = "active"
      BY <1>5, <3>1 DEF CloseByToken
    <3>4. WorkersAdmitted'
      BY <1>2, <1>5, <3>1, <3>3 DEF WorkersAdmitted, Admitted, PrincipalActive, LookupUser
    <3> QED
      BY <1>3, <3>2, <3>4 DEF AccessInv
  <2> QED
    BY <2>2, <2>3
<1>12. ASSUME NEW u \in User, NEW m, members' = [members EXCEPT ![u] = m],
              m # "none" => team # "absent" /\ LookupUser(u), UNCHANGED <<team, creds, conns>>
       PROVE  AccessInv'
  <2>1. HeldByRows' /\ MembersOfTeam'
    BY <1>1, <1>2, <1>12 DEF AccessInv, HeldByRows, MembersOfTeam, LookupUser
  <2>2. CredsOwned' /\ WorkersAdmitted'
    BY <1>2, <1>5, <1>12 DEF AccessInv, CredsOwned, Owned, WorkersAdmitted, Admitted,
       PrincipalActive, LookupUser
  <2> QED
    BY <1>3, <2>1, <2>2 DEF AccessInv
<1>13. ASSUME NEW a \in User, NEW u \in User, handleTeamMemberRemove(a, u) PROVE AccessInv'
  BY <1>12, <1>13 DEF handleTeamMemberRemove
<1>14. ASSUME NEW a \in User, NEW u \in User, NEW maintainer \in BOOLEAN,
              handleTeamMemberAdd(a, u, maintainer)
       PROVE  AccessInv'
  BY <1>12, <1>14 DEF handleTeamMemberAdd, teamFromForm
<1> QED
  BY <1>6, <1>8, <1>9, <1>10, <1>11, <1>13, <1>14 DEF TokenStep, KeyStep, TeamStep

(* The provider's steps leave no access behind: signing in enables the account
   it gives a session to, the account the provider disables loses its sessions
   and its workers, and synchronising gives roles and memberships only to an
   account that is there (completeOIDCLogin, disableByProvider,
   syncManagedAccess). *)
LEMMA ProviderStepAccess ==
  ASSUME AccountsAssumption, AccessInv, AccountsTyped', ProviderStep
  PROVE  AccessInv'
<1>1. /\ users \in [User -> Row] /\ roles \in [User -> SUBSET Privileged] /\ recheck \in Round
      /\ members \in [User -> {"none", "member", "maintainer"}] /\ AccountsTyped
  BY DEF AccessInv, AccountsTyped, AccountsTypeOK
<1>2. /\ \A v \in User : v \in sessions => users[v].exists /\ ~users[v].disabled
      /\ \A v \in User : roles[v] # {} \/ members[v] # "none" => users[v].exists
      /\ \A v \in User : members[v] # "none" => team # "absent"
      /\ \A v \in User : users[v].exists \/ \A kind \in Kind : <<kind, v>> \notin creds
      /\ \A p \in conns : <<"token", p>> \in creds
      /\ \A v \in User : v \in conns => ~users[v].exists \/ ~users[v].disabled
  <2>1. \A v \in User : v # Team
    BY DEF AccountsAssumption
  <2>2. \A v \in User, kind \in Kind : <<kind, v>> \in creds => users[v].exists
    BY <2>1 DEF AccessInv, CredsOwned, Owned, LookupUser
  <2> QED
    BY <2>1, <2>2 DEF AccessInv, SessionsActive, Active, LookupUser, HeldByRows, MembersOfTeam,
       WorkersAdmitted, Admitted, PrincipalActive
<1>3. ASSUME NEW u \in User, NEW answer \in Answer PROVE Grouped(u, answer) # "none" => team # "absent"
  BY <1>2 DEF Grouped
<1>4. ASSUME NEW u \in User, handleTokenLogin(u) PROVE AccessInv'
  <2>1. ProvisionOIDCUser(u).exists /\ ~ProvisionOIDCUser(u).disabled
    <3>1. CASE LookupUser(u)
      BY <1>4, <3>1 DEF ProvisionOIDCUser, LookupUser, handleTokenLogin, adminForTokenIdentity
    <3>2. CASE ~LookupUser(u)
      BY <3>2 DEF ProvisionOIDCUser, NoRow
    <3> QED
      BY <3>1, <3>2
  <2>2. /\ users' = [users EXCEPT ![u] = ProvisionOIDCUser(u)]
        /\ roles' = [roles EXCEPT ![u] = ProvisionedRoles(u, "admin")]
        /\ sessions' = sessions \cup {u} /\ UNCHANGED <<team, members, creds, conns>>
    BY <1>4 DEF handleTokenLogin, adminForTokenIdentity, startSession
  <2>3. /\ users'[u] = ProvisionOIDCUser(u)
        /\ \A v \in User \ {u} : users'[v] = users[v] /\ roles'[v] = roles[v]
    BY <1>1, <2>2
  <2> QED
    BY <1>2, <2>1, <2>2, <2>3, OneAccountChanges
<1>5. ASSUME NEW u \in User, NEW answer \in Answer, completeOIDCLogin(u, answer) PROVE AccessInv'
  <2> DEFINE row == ProvisionOIDCUser(u)
             new == [row EXCEPT !.disabled = FALSE, !.by = IF row.disabled THEN "" ELSE @,
                                !.refresh = row.managed \/ @]
  <2>1. new.exists /\ ~new.disabled
    <3>1. row \in Row /\ row.exists
      BY <1>1, ProvisionedTyped
    <3> QED
      BY <3>1 DEF Row
  <2>2. users' = [users EXCEPT ![u] = new]
    BY <1>5 DEF completeOIDCLogin
  <2>3. users'[u] = new /\ \A v \in User \ {u} : users'[v] = users[v]
    BY <1>1, <2>2
  <2>4. \A v \in User \ {u} : roles'[v] = roles[v] /\ members'[v] = members[v]
    BY <1>1, <1>5 DEF completeOIDCLogin
  <2>5. members'[u] # "none" => team # "absent"
    BY <1>1, <1>2, <1>3, <1>5 DEF completeOIDCLogin
  <2>6. sessions' = sessions \cup {u} /\ UNCHANGED <<team, creds, conns>>
    BY <1>5 DEF completeOIDCLogin, startSession
  <2> HIDE DEF new
  <2> QED
    BY <1>2, <2>1, <2>3, <2>4, <2>5, <2>6, OneAccountChanges
<1>6. ASSUME UNCHANGED <<users, roles, team, members, creds, sessions, conns>> PROVE AccessInv'
  BY <1>6 DEF AccessInv, SessionsActive, Active, LookupUser, HeldByRows, MembersOfTeam, CredsOwned,
     Owned, WorkersAdmitted, Admitted, PrincipalActive
<1>7. ASSUME NEW u \in User, NEW answers, revalidateOne(u, answers) PROVE AccessInv'
  BY <1>6, <1>7 DEF revalidateOne
<1>8. ASSUME NEW a \in User, NEW u \in User, handleUserResetPassword(a, u) PROVE AccessInv'
  <2>1. users[u] \in Row
    BY <1>1
  <2>2. /\ users' = [users EXCEPT ![u] = [users[u] EXCEPT !.managed = FALSE]]
        /\ sessions' = sessions \ {u} /\ UNCHANGED <<roles, team, members, creds, conns>>
        /\ users[u].exists
    BY <1>8 DEF handleUserResetPassword, RevokeSessions, LookupUser
  <2>3. /\ [users[u] EXCEPT !.managed = FALSE].exists = users[u].exists
        /\ [users[u] EXCEPT !.managed = FALSE].disabled = users[u].disabled
    BY <2>1 DEF Row
  <2>4. /\ users'[u].exists = users[u].exists /\ users'[u].disabled = users[u].disabled
        /\ \A v \in User \ {u} : users'[v] = users[v]
    BY <1>1, <2>2, <2>3
  <2> QED
    BY <1>2, <2>2, <2>4, OneAccountChanges
<1>9. CASE RunOIDCRevalidation \/ revalidateOIDC \/ RecheckDone
  BY <1>6, <1>9 DEF RunOIDCRevalidation, revalidateOIDC, RecheckDone
<1>10. ASSUME NEW o \in recheck.out, disableByProvider(o) PROVE AccessInv'
  <2>1. o.on \in User
    BY <1>1, <1>10 DEF Round
  <2>2. CASE LookupUser(o.on) /\ ~LastPrivileged(o.on)
    BY <1>10, <2>1, <2>2, DisableKeepsAccess DEF disableByProvider
  <2>3. CASE ~(LookupUser(o.on) /\ ~LastPrivileged(o.on))
    BY <1>6, <1>10, <2>3 DEF disableByProvider
  <2> QED
    BY <2>2, <2>3
<1>11. ASSUME NEW o \in recheck.out, syncManagedAccess(o) PROVE AccessInv'
  <2>1. o.on \in User /\ o.answer \in Answer
    BY <1>1, <1>11 DEF Round
  <2>2. CASE LookupUser(o.on)
    <3> DEFINE u == o.on
    <3>1. /\ users' = [users EXCEPT ![u] = [users[u] EXCEPT !.refresh = TRUE]]
          /\ roles' = [roles EXCEPT ![u] = Synced(u, roles[u], o.answer)]
          /\ members' = [members EXCEPT ![u] = Grouped(u, o.answer)]
          /\ UNCHANGED <<team, creds, sessions, conns>>
      BY <1>11, <2>2 DEF syncManagedAccess
    <3>2. users[u] \in Row /\ users[u].exists
      BY <1>1, <2>1, <2>2 DEF LookupUser
    <3>3. /\ [users[u] EXCEPT !.refresh = TRUE].exists = users[u].exists
          /\ [users[u] EXCEPT !.refresh = TRUE].disabled = users[u].disabled
      BY <3>2 DEF Row
    <3>4. /\ users'[u].exists = users[u].exists /\ users'[u].disabled = users[u].disabled
          /\ \A v \in User \ {u} :
                users'[v] = users[v] /\ roles'[v] = roles[v] /\ members'[v] = members[v]
          /\ members'[u] = Grouped(u, o.answer)
      BY <1>1, <2>1, <3>1, <3>3
    <3>5. members'[u] # "none" => team # "absent"
      BY <1>3, <2>1, <3>4
    <3> HIDE DEF u
    <3>6. u \in User
      BY <2>1 DEF u
    <3> QED
      BY <1>2, <3>1, <3>2, <3>4, <3>5, <3>6, OneAccountChanges
  <2>3. CASE ~LookupUser(o.on)
    BY <1>6, <1>11, <2>3 DEF syncManagedAccess
  <2> QED
    BY <2>2, <2>3
<1> QED
  BY <1>4, <1>5, <1>7, <1>8, <1>9, <1>10, <1>11 DEF ProviderStep

(* Whatever handlers, sign-ins and re-checks follow each other, no session,
   role, membership, key, token or worker connection outlives the account or
   the team it rests on (state.go DeleteUser and UpdateUser, access_store.go
   DeleteTeam). *)
THEOREM AccountsNoDanglingAccess == AccountsSpec => []NoDanglingAccess
<1>1. AccountsInit => AccessInv
  BY InitTyped DEF AccountsInit, AccessInv, SessionsActive, HeldByRows, MembersOfTeam, CredsOwned,
                   WorkersAdmitted
<1>2. AccessInv /\ [AccountsNext]_accountsVars => AccessInv'
  <2> SUFFICES ASSUME AccessInv, [AccountsNext]_accountsVars PROVE AccessInv'
    OBVIOUS
  <2>1. AccountsTyped
    BY DEF AccessInv
  <2>2. CASE UNCHANGED accountsVars
    BY <2>2 DEF accountsVars, AccessInv, AccountsTyped, AccountsTypeOK, NoRowLeft, SessionsActive,
       Active, LookupUser, HeldByRows, MembersOfTeam, CredsOwned, Owned, WorkersAdmitted, Admitted,
       PrincipalActive
  <2> QED
    BY <2>1, <2>2, AccountsAssumption, AccountStepTyped, CredentialStepTyped, ProviderStepTyped,
       AccountStepAccess, CredentialStepAccess, ProviderStepAccess DEF AccountsNext
<1>3. AccessInv => NoDanglingAccess
  BY DEF AccessInv, SessionsActive, HeldByRows, MembersOfTeam, CredsOwned, Owned, WorkersAdmitted,
     Admitted, NoDanglingAccess
<1> QED
  BY <1>1, <1>2, <1>3, PTL DEF AccountsSpec

-----------------------------------------------------------------------------
(* The records of usage and performance.                                   *)

Fields(rec) == IF rec = "usage" THEN {"requests", "prompt", "completion"}
               ELSE {"samples", "total", "peak", "firsts", "first"}
Deltas(rec) == [Fields(rec) -> Nat]

\* How two counters of one name are merged.
Joint(f, m, n) == IF f = "peak" THEN IF m >= n THEN m ELSE n ELSE m + n

(* A delta is a function from its counters. *)
LEMMA DeltaFields ==
  ASSUME NEW rec \in Recorder
  PROVE  /\ DOMAIN Zero(rec) = Fields(rec) /\ Zero(rec) \in Deltas(rec)
         /\ \A f \in Fields(rec) : Zero(rec)[f] = 0
<1>1. CASE rec = "usage"
  BY <1>1 DEF Zero, UsageZero, Fields, Deltas
<1>2. CASE rec # "usage"
  BY <1>2 DEF Zero, PerfZero, Fields, Deltas
<1> QED
  BY <1>1, <1>2

(* A peak is the larger of two, every other counter their sum (perf.go, merge;
   usage.go, AddUsageDelta). *)
LEMMA MergeFields ==
  ASSUME NEW rec \in Recorder, NEW d \in Deltas(rec), NEW e \in Deltas(rec)
  PROVE  /\ MergeDelta(rec, d, e) \in Deltas(rec)
         /\ \A f \in Fields(rec) : MergeDelta(rec, d, e)[f] = Joint(f, d[f], e[f])
<1>1. DOMAIN UsageZero = Fields("usage") /\ DOMAIN PerfZero = Fields("perf")
  BY DEF UsageZero, PerfZero, Fields
<1>2. CASE rec = "usage"
  <2>1. MergeDelta(rec, d, e) = [f \in Fields(rec) |-> d[f] + e[f]]
    BY <1>1, <1>2 DEF MergeDelta, UsageSum
  <2>2. \A f \in Fields(rec) : f # "peak"
    BY <1>2 DEF Fields
  <2> QED
    BY <2>1, <2>2 DEF Deltas, Joint
<1>3. CASE rec = "perf"
  <2>1. d["peak"] \in Nat /\ e["peak"] \in Nat
    BY <1>3 DEF Deltas, Fields
  <2>2. Max({d.peak, e.peak}) = Joint("peak", d["peak"], e["peak"])
    <3> DEFINE m == Joint("peak", d["peak"], e["peak"])
    <3>1. m \in {d.peak, e.peak} /\ \A y \in {d.peak, e.peak} : m >= y
      BY <2>1 DEF Joint
    <3>2. \A x \in {d.peak, e.peak} : (\A y \in {d.peak, e.peak} : x >= y) => x = m
      BY <2>1, <3>1
    <3> QED
      BY <3>1, <3>2 DEF Max
  <2>3. MergeDelta(rec, d, e) =
          [f \in Fields(rec) |-> IF f = "peak" THEN Max({d.peak, e.peak}) ELSE d[f] + e[f]]
    BY <1>1, <1>3 DEF MergeDelta, PerfMerge
  <2>4. \A f \in Fields(rec) : MergeDelta(rec, d, e)[f] = Joint(f, d[f], e[f])
    BY <2>2, <2>3 DEF Joint
  <2>5. \A f \in Fields(rec) : Joint(f, d[f], e[f]) \in Nat
    BY DEF Joint, Deltas
  <2> QED
    BY <2>3, <2>4, <2>5 DEF Deltas
<1> QED
  BY <1>2, <1>3 DEF Recorder

(* Deltas with the same counters are the same. *)
LEMMA SameDelta ==
  ASSUME NEW rec, NEW d \in Deltas(rec), NEW e \in Deltas(rec),
         \A f \in Fields(rec) : d[f] = e[f]
  PROVE  d = e
BY DEF Deltas

\* What the table, the buffer, the flush and the removed rows hold of one key.
Total(rec, a, b, c, d) == MergeDelta(rec, MergeDelta(rec, a, b), MergeDelta(rec, c, d))

(* Recording adds to the total of a key; a swap, a written row, a row that goes back into the
   buffer, a prune and an exit leave it as it is (usage.go:293-317). *)
LEMMA TotalMoves ==
  ASSUME NEW rec \in Recorder, NEW a \in Deltas(rec), NEW b \in Deltas(rec), NEW c \in Deltas(rec),
         NEW d \in Deltas(rec), NEW x \in Deltas(rec)
  PROVE  /\ Total(rec, a, MergeDelta(rec, b, x), c, d) = MergeDelta(rec, Total(rec, a, b, c, d), x)
         /\ Total(rec, a, Zero(rec), b, d) = Total(rec, a, b, Zero(rec), d)
         /\ Total(rec, MergeDelta(rec, a, c), b, Zero(rec), d) = Total(rec, a, b, c, d)
         /\ Total(rec, a, MergeDelta(rec, b, c), Zero(rec), d) = Total(rec, a, b, c, d)
         /\ Total(rec, Zero(rec), b, c, MergeDelta(rec, d, a)) = Total(rec, a, b, c, d)
         /\ Total(rec, a, Zero(rec), Zero(rec), MergeDelta(rec, MergeDelta(rec, d, b), c))
              = Total(rec, a, b, c, d)
         /\ MergeDelta(rec, Zero(rec), x) = x
         /\ Total(rec, a, b, c, d) \in Deltas(rec)
<1> DEFINE z == Zero(rec)
           M(i, j) == MergeDelta(rec, i, j)
           T(i, j, k, l) == Total(rec, i, j, k, l)
<1>z. z \in Deltas(rec) /\ \A f \in Fields(rec) : z[f] = 0
  BY DeltaFields
<1>m. \A i, j \in Deltas(rec) : /\ M(i, j) \in Deltas(rec)
                                /\ \A f \in Fields(rec) : M(i, j)[f] = Joint(f, i[f], j[f])
  BY MergeFields
<1>t. \A i, j, k, l \in Deltas(rec) :
        /\ T(i, j, k, l) \in Deltas(rec)
        /\ \A f \in Fields(rec) :
             T(i, j, k, l)[f] = Joint(f, Joint(f, i[f], j[f]), Joint(f, k[f], l[f]))
  BY <1>m DEF Total
<1>n. \A i \in Deltas(rec), f \in Fields(rec) : i[f] \in Nat
  BY DEF Deltas
<1> HIDE DEF z, M, T
<1>j. ASSUME NEW f \in Fields(rec)
      PROVE  LET J(i, j) == Joint(f, i, j)
                 S(i, j, k, l) == Joint(f, Joint(f, i, j), Joint(f, k, l))
             IN  /\ S(a[f], J(b[f], x[f]), c[f], d[f]) = J(S(a[f], b[f], c[f], d[f]), x[f])
                 /\ S(a[f], 0, b[f], d[f]) = S(a[f], b[f], 0, d[f])
                 /\ S(J(a[f], c[f]), b[f], 0, d[f]) = S(a[f], b[f], c[f], d[f])
                 /\ S(a[f], J(b[f], c[f]), 0, d[f]) = S(a[f], b[f], c[f], d[f])
                 /\ S(0, b[f], c[f], J(d[f], a[f])) = S(a[f], b[f], c[f], d[f])
                 /\ S(a[f], 0, 0, J(J(d[f], b[f]), c[f])) = S(a[f], b[f], c[f], d[f])
                 /\ J(0, x[f]) = x[f]
  <2>1. a[f] \in Nat /\ b[f] \in Nat /\ c[f] \in Nat /\ d[f] \in Nat /\ x[f] \in Nat
    BY <1>n
  <2> QED
    BY ONLY <2>1 DEF Joint
<1>1. T(a, M(b, x), c, d) = M(T(a, b, c, d), x)
  <2>1. M(b, x) \in Deltas(rec) /\ T(a, b, c, d) \in Deltas(rec)
    BY <1>m, <1>t
  <2>2. T(a, M(b, x), c, d) \in Deltas(rec) /\ M(T(a, b, c, d), x) \in Deltas(rec)
    BY <1>m, <1>t, <1>z, <2>1
  <2>3. ASSUME NEW f \in Fields(rec) PROVE T(a, M(b, x), c, d)[f] = M(T(a, b, c, d), x)[f]
    BY <1>j, <1>m, <1>t, <1>z, <2>1
  <2> QED
    BY <2>2, <2>3, SameDelta
<1>2. T(a, z, b, d) = T(a, b, z, d)
  <2>1. T(a, z, b, d) \in Deltas(rec) /\ T(a, b, z, d) \in Deltas(rec)
    BY <1>m, <1>t, <1>z
  <2>2. ASSUME NEW f \in Fields(rec) PROVE T(a, z, b, d)[f] = T(a, b, z, d)[f]
    BY <1>j, <1>m, <1>t, <1>z
  <2> QED
    BY <2>1, <2>2, SameDelta
<1>3. T(M(a, c), b, z, d) = T(a, b, c, d)
  <2>1. M(a, c) \in Deltas(rec)
    BY <1>m, <1>t
  <2>2. T(M(a, c), b, z, d) \in Deltas(rec) /\ T(a, b, c, d) \in Deltas(rec)
    BY <1>m, <1>t, <1>z, <2>1
  <2>3. ASSUME NEW f \in Fields(rec) PROVE T(M(a, c), b, z, d)[f] = T(a, b, c, d)[f]
    BY <1>j, <1>m, <1>t, <1>z, <2>1
  <2> QED
    BY <2>2, <2>3, SameDelta
<1>4. T(a, M(b, c), z, d) = T(a, b, c, d)
  <2>1. M(b, c) \in Deltas(rec)
    BY <1>m, <1>t
  <2>2. T(a, M(b, c), z, d) \in Deltas(rec) /\ T(a, b, c, d) \in Deltas(rec)
    BY <1>m, <1>t, <1>z, <2>1
  <2>3. ASSUME NEW f \in Fields(rec) PROVE T(a, M(b, c), z, d)[f] = T(a, b, c, d)[f]
    BY <1>j, <1>m, <1>t, <1>z, <2>1
  <2> QED
    BY <2>2, <2>3, SameDelta
<1>5. T(z, b, c, M(d, a)) = T(a, b, c, d)
  <2>1. M(d, a) \in Deltas(rec)
    BY <1>m, <1>t
  <2>2. T(z, b, c, M(d, a)) \in Deltas(rec) /\ T(a, b, c, d) \in Deltas(rec)
    BY <1>m, <1>t, <1>z, <2>1
  <2>3. ASSUME NEW f \in Fields(rec) PROVE T(z, b, c, M(d, a))[f] = T(a, b, c, d)[f]
    BY <1>j, <1>m, <1>t, <1>z, <2>1
  <2> QED
    BY <2>2, <2>3, SameDelta
<1>6. T(a, z, z, M(M(d, b), c)) = T(a, b, c, d)
  <2>1. M(d, b) \in Deltas(rec) /\ M(M(d, b), c) \in Deltas(rec)
    BY <1>m, <1>t
  <2>2. T(a, z, z, M(M(d, b), c)) \in Deltas(rec) /\ T(a, b, c, d) \in Deltas(rec)
    BY <1>m, <1>t, <1>z, <2>1
  <2>3. ASSUME NEW f \in Fields(rec) PROVE T(a, z, z, M(M(d, b), c))[f] = T(a, b, c, d)[f]
    BY <1>j, <1>m, <1>t, <1>z, <2>1
  <2> QED
    BY <2>2, <2>3, SameDelta
<1>7. M(z, x) = x
  <2>1. M(z, x) \in Deltas(rec) /\ x \in Deltas(rec)
    BY <1>m, <1>t, <1>z
  <2>2. ASSUME NEW f \in Fields(rec) PROVE M(z, x)[f] = x[f]
    BY <1>j, <1>m, <1>t, <1>z
  <2> QED
    BY <2>1, <2>2, SameDelta
<1> QED
  BY <1>1, <1>2, <1>3, <1>4, <1>5, <1>6, <1>7, <1>t DEF z, M, T

\* A buffer or a database table: deltas by key.
IsTable(rec, t) == t = [k \in DOMAIN t |-> t[k]] /\ \A k \in DOMAIN t : t[k] \in Deltas(rec)

(* What tables hold of a key, after each way to change them. *)
LEMMA TableAt ==
  ASSUME NEW rec \in Recorder, NEW t, IsTable(rec, t), NEW x
  PROVE  DeltaAt(rec, t, x) \in Deltas(rec)
BY DeltaFields DEF DeltaAt, IsTable

(* A map that was just made holds nothing (usage.go:293-298). *)
LEMMA EmptyAt ==
  ASSUME NEW rec \in Recorder
  PROVE  IsTable(rec, Empty) /\ DOMAIN Empty = {} /\ \A x : DeltaAt(rec, Empty, x) = Zero(rec)
<1>1. DOMAIN Empty = {}
  BY DEF Empty
<1>2. Empty = [k \in {} |-> Empty[k]]
  BY DEF Empty
<1> QED
  BY <1>1, <1>2 DEF DeltaAt, IsTable

(* A delta merged into a map, or upserted into a table, leaves deltas (usage.go:239-259). *)
LEMMA AddToTable ==
  ASSUME NEW rec \in Recorder, NEW t, NEW k, NEW d \in Deltas(rec), IsTable(rec, t)
  PROVE  IsTable(rec, AddTo(rec, t, k, d))
<1> DEFINE m == MergeDelta(rec, DeltaAt(rec, t, k), d)
           u == [x \in DOMAIN t \cup {k} |-> IF x = k THEN m ELSE t[x]]
<1>1. AddTo(rec, t, k, d) = u
  BY DEF AddTo
<1>2. m \in Deltas(rec)
  BY TableAt, MergeFields
<1> HIDE DEF m
<1>3. u = [x \in DOMAIN u |-> u[x]] /\ \A x \in DOMAIN u : u[x] \in Deltas(rec)
  BY <1>2 DEF IsTable
<1> HIDE DEF u
<1> QED
  BY <1>1, <1>3 DEF IsTable

(* It changes what is held of its own key only. *)
LEMMA AddToAt ==
  ASSUME NEW rec, NEW t, NEW k, NEW d, NEW v, v = AddTo(rec, t, k, d), NEW x
  PROVE  /\ x \in DOMAIN v <=> x \in DOMAIN t \/ x = k
         /\ x = k => DeltaAt(rec, v, x) = MergeDelta(rec, DeltaAt(rec, t, x), d)
         /\ x # k => DeltaAt(rec, v, x) = DeltaAt(rec, t, x)
<1> DEFINE m == MergeDelta(rec, DeltaAt(rec, t, k), d)
<1>1. v = [y \in DOMAIN t \cup {k} |-> IF y = k THEN m ELSE t[y]]
  BY DEF AddTo
<1> HIDE DEF m
<1>2. x \in DOMAIN v <=> x \in DOMAIN t \/ x = k
  BY <1>1
<1>3. x = k => DeltaAt(rec, v, x) = m
  BY <1>1 DEF DeltaAt
<1>4. x # k => DeltaAt(rec, v, x) = DeltaAt(rec, t, x)
  BY <1>1 DEF DeltaAt
<1> QED
  BY <1>2, <1>3, <1>4 DEF m

(* Merging two tables merges them key by key. *)
LEMMA AddAllAt ==
  ASSUME NEW rec \in Recorder, NEW t, NEW u, IsTable(rec, t), IsTable(rec, u),
         NEW v, v = AddAll(rec, t, u)
  PROVE  /\ IsTable(rec, v)
         /\ \A x : /\ x \in DOMAIN v <=> x \in DOMAIN t \/ x \in DOMAIN u
                   /\ DeltaAt(rec, v, x) = MergeDelta(rec, DeltaAt(rec, t, x), DeltaAt(rec, u, x))
<1> DEFINE m(x) == MergeDelta(rec, DeltaAt(rec, t, x), DeltaAt(rec, u, x))
<1>1. v = [x \in DOMAIN t \cup DOMAIN u |-> m(x)]
  BY DEF AddAll
<1>2. ASSUME NEW x PROVE m(x) \in Deltas(rec)
  BY TableAt, MergeFields
<1> HIDE DEF m
<1>3. DOMAIN v = DOMAIN t \cup DOMAIN u /\ v = [x \in DOMAIN v |-> v[x]]
  BY <1>1
<1>4. \A x \in DOMAIN v : v[x] \in Deltas(rec)
  BY <1>1, <1>2
<1>5. ASSUME NEW x PROVE DeltaAt(rec, v, x) = m(x)
  <2>1. CASE x \in DOMAIN v
    BY <1>1, <2>1 DEF DeltaAt
  <2>2. CASE x \notin DOMAIN v
    <3>1. DeltaAt(rec, t, x) = Zero(rec) /\ DeltaAt(rec, u, x) = Zero(rec)
      BY <1>3, <2>2 DEF DeltaAt
    <3>2. m(x) = Zero(rec)
      BY <3>1, DeltaFields, TotalMoves DEF m
    <3> QED
      BY <2>2, <3>2 DEF DeltaAt
  <2> QED
    BY <2>1, <2>2
<1>6. IsTable(rec, v)
  BY <1>3, <1>4 DEF IsTable
<1> QED
  BY <1>3, <1>5, <1>6 DEF m

(* A part of a table holds what the table held of the keys it keeps (usage.go, prune). *)
LEMMA PartAt ==
  ASSUME NEW rec \in Recorder, NEW t, NEW S, IsTable(rec, t), S \subseteq DOMAIN t,
         NEW v, v = [k \in S |-> t[k]]
  PROVE  /\ IsTable(rec, v)
         /\ \A x : /\ x \in DOMAIN v <=> x \in S
                   /\ x \in S => DeltaAt(rec, v, x) = DeltaAt(rec, t, x)
                   /\ x \notin S => DeltaAt(rec, v, x) = Zero(rec)
<1>1. DOMAIN v = S /\ v = [x \in DOMAIN v |-> v[x]] /\ \A x \in S : v[x] = t[x]
  OBVIOUS
<1>2. IsTable(rec, v)
  BY <1>1 DEF IsTable
<1>3. ASSUME NEW x
      PROVE  /\ x \in DOMAIN v <=> x \in S
             /\ x \in S => DeltaAt(rec, v, x) = DeltaAt(rec, t, x)
             /\ x \notin S => DeltaAt(rec, v, x) = Zero(rec)
  BY <1>1 DEF DeltaAt
<1> QED
  BY ONLY <1>2, <1>3

\* What one key has in five tables adds up: v of the database, b of the buffer, f of the
\* flush, r of what was removed; a is what was ever recorded.
Adds(rec, v, b, f, r, a, x) ==
  /\ x \in DOMAIN a <=> x \in DOMAIN v \/ x \in DOMAIN b \/ x \in DOMAIN f \/ x \in DOMAIN r
  /\ Total(rec, DeltaAt(rec, v, x), DeltaAt(rec, b, x), DeltaAt(rec, f, x), DeltaAt(rec, r, x))
     = DeltaAt(rec, a, x)

\* The books of a recorder balance.
Balance(rec, v, b, f, r, a) ==
  /\ IsTable(rec, v) /\ IsTable(rec, b) /\ IsTable(rec, f) /\ IsTable(rec, r) /\ IsTable(rec, a)
  /\ \A x : Adds(rec, v, b, f, r, a, x)

(* Books that balance conserve every counter. *)
LEMMA BalanceConserves ==
  ASSUME NEW rec \in Recorder, NEW v, NEW b, NEW f, NEW r, NEW a, Balance(rec, v, b, f, r, a)
  PROVE  AddAll(rec, AddAll(rec, v, b), AddAll(rec, f, r)) = a
<1>1. IsTable(rec, v) /\ IsTable(rec, b) /\ IsTable(rec, f) /\ IsTable(rec, r) /\ IsTable(rec, a)
  BY DEF Balance
<1> PICK s : s = AddAll(rec, v, b)
  OBVIOUS
<1> PICK t : t = AddAll(rec, f, r)
  OBVIOUS
<1> PICK u : u = AddAll(rec, s, t)
  OBVIOUS
<1>2. /\ IsTable(rec, s)
      /\ \A x : /\ x \in DOMAIN s <=> x \in DOMAIN v \/ x \in DOMAIN b
                /\ DeltaAt(rec, s, x) = MergeDelta(rec, DeltaAt(rec, v, x), DeltaAt(rec, b, x))
  BY <1>1, AddAllAt
<1>3. /\ IsTable(rec, t)
      /\ \A x : /\ x \in DOMAIN t <=> x \in DOMAIN f \/ x \in DOMAIN r
                /\ DeltaAt(rec, t, x) = MergeDelta(rec, DeltaAt(rec, f, x), DeltaAt(rec, r, x))
  BY <1>1, AddAllAt
<1>4. IsTable(rec, s) /\ IsTable(rec, t)
  BY <1>2, <1>3
<1>5. /\ IsTable(rec, u)
      /\ \A x : /\ x \in DOMAIN u <=> x \in DOMAIN s \/ x \in DOMAIN t
                /\ DeltaAt(rec, u, x) = MergeDelta(rec, DeltaAt(rec, s, x), DeltaAt(rec, t, x))
  BY <1>4, AddAllAt
<1>6. ASSUME NEW x
      PROVE  (x \in DOMAIN u <=> x \in DOMAIN a) /\ DeltaAt(rec, u, x) = DeltaAt(rec, a, x)
  <2>1. Adds(rec, v, b, f, r, a, x)
    BY DEF Balance
  <2> QED
    BY <1>2, <1>3, <1>5, <2>1 DEF Adds, Total
<1>7. DOMAIN u = DOMAIN a /\ \A x \in DOMAIN a : u[x] = a[x]
  BY <1>6 DEF DeltaAt
<1>8. u = [x \in DOMAIN u |-> u[x]] /\ a = [x \in DOMAIN a |-> a[x]]
  BY <1>1, <1>5 DEF IsTable
<1>9. u = a
  BY <1>7, <1>8
<1> QED
  BY <1>9

(* A finished request goes into the buffer (usage.go:239-259, perf.go, RecordPerf). *)
LEMMA RecordBalances ==
  ASSUME NEW rec \in Recorder, NEW v, NEW b, NEW f, NEW r, NEW a, Balance(rec, v, b, f, r, a),
         NEW k, NEW d \in Deltas(rec), NEW p, NEW q, p = AddTo(rec, b, k, d), q = AddTo(rec, a, k, d)
  PROVE  Balance(rec, v, p, f, r, q)
<1>1. IsTable(rec, v) /\ IsTable(rec, b) /\ IsTable(rec, f) /\ IsTable(rec, r) /\ IsTable(rec, a)
  BY DEF Balance
<1>2. IsTable(rec, p) /\ IsTable(rec, q)
  BY <1>1, AddToTable
<1>3. ASSUME NEW x
      PROVE  Adds(rec, v, p, f, r, q, x)
  <2>1. /\ DeltaAt(rec, v, x) \in Deltas(rec) /\ DeltaAt(rec, b, x) \in Deltas(rec)
        /\ DeltaAt(rec, f, x) \in Deltas(rec) /\ DeltaAt(rec, r, x) \in Deltas(rec)
    BY <1>1, TableAt
  <2>2. Total(rec, DeltaAt(rec, v, x), MergeDelta(rec, DeltaAt(rec, b, x), d),
              DeltaAt(rec, f, x), DeltaAt(rec, r, x))
        = MergeDelta(rec, Total(rec, DeltaAt(rec, v, x), DeltaAt(rec, b, x),
                                DeltaAt(rec, f, x), DeltaAt(rec, r, x)), d)
    BY <2>1, TotalMoves
  <2>3. Adds(rec, v, b, f, r, a, x)
    BY DEF Balance
  <2>4. /\ x \in DOMAIN p <=> x \in DOMAIN b \/ x = k
        /\ x = k => DeltaAt(rec, p, x) = MergeDelta(rec, DeltaAt(rec, b, x), d)
        /\ x # k => DeltaAt(rec, p, x) = DeltaAt(rec, b, x)
    BY AddToAt
  <2>5. /\ x \in DOMAIN q <=> x \in DOMAIN a \/ x = k
        /\ x = k => DeltaAt(rec, q, x) = MergeDelta(rec, DeltaAt(rec, a, x), d)
        /\ x # k => DeltaAt(rec, q, x) = DeltaAt(rec, a, x)
    BY AddToAt
  <2> QED
    BY <2>2, <2>3, <2>4, <2>5 DEF Adds
<1> QED
  BY <1>1, <1>2, <1>3 DEF Balance

(* A buffer that is swapped for an empty one becomes the flush (usage.go:293-298). *)
LEMMA SwapBalances ==
  ASSUME NEW rec \in Recorder, NEW v, NEW b, NEW f, NEW r, NEW a, Balance(rec, v, b, f, r, a),
         f = Empty
  PROVE  Balance(rec, v, Empty, b, r, a)
<1>1. IsTable(rec, v) /\ IsTable(rec, b) /\ IsTable(rec, r) /\ IsTable(rec, a)
  BY DEF Balance
<1>2. IsTable(rec, Empty) /\ DOMAIN Empty = {} /\ \A x : DeltaAt(rec, Empty, x) = Zero(rec)
  BY EmptyAt
<1>3. ASSUME NEW x PROVE Adds(rec, v, Empty, b, r, a, x)
  <2>1. /\ DeltaAt(rec, v, x) \in Deltas(rec) /\ DeltaAt(rec, b, x) \in Deltas(rec)
        /\ DeltaAt(rec, r, x) \in Deltas(rec) /\ Zero(rec) \in Deltas(rec)
    BY <1>1, TableAt, DeltaFields
  <2>2. Total(rec, DeltaAt(rec, v, x), Zero(rec), DeltaAt(rec, b, x), DeltaAt(rec, r, x))
        = Total(rec, DeltaAt(rec, v, x), DeltaAt(rec, b, x), Zero(rec), DeltaAt(rec, r, x))
    BY <2>1, TotalMoves
  <2>3. Adds(rec, v, b, f, r, a, x)
    BY DEF Balance
  <2> QED
    BY <1>2, <2>2, <2>3 DEF Adds
<1> QED
  BY <1>1, <1>2, <1>3 DEF Balance

(* A row of the flush is written: the upsert adds it to the row that is there (usage.go:300-309). *)
LEMMA WriteBalances ==
  ASSUME NEW rec \in Recorder, NEW v, NEW b, NEW f, NEW r, NEW a, Balance(rec, v, b, f, r, a),
         NEW k \in DOMAIN f, NEW p, NEW g, p = AddTo(rec, v, k, f[k]),
         g = [y \in DOMAIN f \ {k} |-> f[y]]
  PROVE  Balance(rec, p, b, g, r, a)
<1>1. IsTable(rec, v) /\ IsTable(rec, b) /\ IsTable(rec, f) /\ IsTable(rec, r) /\ IsTable(rec, a)
  BY DEF Balance
<1>2. f[k] \in Deltas(rec) /\ f[k] = DeltaAt(rec, f, k)
  BY <1>1 DEF IsTable, DeltaAt
<1>3. IsTable(rec, p)
  BY <1>1, <1>2, AddToTable
<1>4. DOMAIN f \ {k} \subseteq DOMAIN f
  OBVIOUS
<1>5. /\ IsTable(rec, g)
      /\ \A x : /\ x \in DOMAIN g <=> x \in DOMAIN f \ {k}
                /\ x \in DOMAIN f \ {k} => DeltaAt(rec, g, x) = DeltaAt(rec, f, x)
                /\ x \notin DOMAIN f \ {k} => DeltaAt(rec, g, x) = Zero(rec)
  BY <1>1, <1>4, PartAt
<1>6. ASSUME NEW x PROVE Adds(rec, p, b, g, r, a, x)
  <2>1. /\ DeltaAt(rec, v, x) \in Deltas(rec) /\ DeltaAt(rec, b, x) \in Deltas(rec)
        /\ DeltaAt(rec, f, x) \in Deltas(rec) /\ DeltaAt(rec, r, x) \in Deltas(rec)
    BY <1>1, TableAt
  <2>2. Total(rec, MergeDelta(rec, DeltaAt(rec, v, x), DeltaAt(rec, f, x)), DeltaAt(rec, b, x),
              Zero(rec), DeltaAt(rec, r, x))
        = Total(rec, DeltaAt(rec, v, x), DeltaAt(rec, b, x), DeltaAt(rec, f, x), DeltaAt(rec, r, x))
    BY <2>1, TotalMoves
  <2>3. Adds(rec, v, b, f, r, a, x)
    BY DEF Balance
  <2>4. /\ x \in DOMAIN p <=> x \in DOMAIN v \/ x = k
        /\ x = k => DeltaAt(rec, p, x) = MergeDelta(rec, DeltaAt(rec, v, x), f[k])
        /\ x # k => DeltaAt(rec, p, x) = DeltaAt(rec, v, x)
    BY AddToAt
  <2>5. /\ x \in DOMAIN g <=> x \in DOMAIN f /\ x # k
        /\ x = k => DeltaAt(rec, g, x) = Zero(rec)
        /\ x # k => DeltaAt(rec, g, x) = DeltaAt(rec, f, x)
    BY <1>5 DEF DeltaAt
  <2> QED
    BY <1>2, <2>2, <2>3, <2>4, <2>5 DEF Adds
<1> QED
  BY <1>1, <1>3, <1>5, <1>6 DEF Balance

(* A row that could not be written goes back into the buffer, with what was recorded meanwhile
   (usage.go:303-309). *)
LEMMA RebufferBalances ==
  ASSUME NEW rec \in Recorder, NEW v, NEW b, NEW f, NEW r, NEW a, Balance(rec, v, b, f, r, a),
         NEW k \in DOMAIN f, NEW p, NEW g, p = AddTo(rec, b, k, f[k]),
         g = [y \in DOMAIN f \ {k} |-> f[y]]
  PROVE  Balance(rec, v, p, g, r, a)
<1>1. IsTable(rec, v) /\ IsTable(rec, b) /\ IsTable(rec, f) /\ IsTable(rec, r) /\ IsTable(rec, a)
  BY DEF Balance
<1>2. f[k] \in Deltas(rec) /\ f[k] = DeltaAt(rec, f, k)
  BY <1>1 DEF IsTable, DeltaAt
<1>3. IsTable(rec, p)
  BY <1>1, <1>2, AddToTable
<1>4. DOMAIN f \ {k} \subseteq DOMAIN f
  OBVIOUS
<1>5. /\ IsTable(rec, g)
      /\ \A x : /\ x \in DOMAIN g <=> x \in DOMAIN f \ {k}
                /\ x \in DOMAIN f \ {k} => DeltaAt(rec, g, x) = DeltaAt(rec, f, x)
                /\ x \notin DOMAIN f \ {k} => DeltaAt(rec, g, x) = Zero(rec)
  BY <1>1, <1>4, PartAt
<1>6. ASSUME NEW x PROVE Adds(rec, v, p, g, r, a, x)
  <2>1. /\ DeltaAt(rec, v, x) \in Deltas(rec) /\ DeltaAt(rec, b, x) \in Deltas(rec)
        /\ DeltaAt(rec, f, x) \in Deltas(rec) /\ DeltaAt(rec, r, x) \in Deltas(rec)
    BY <1>1, TableAt
  <2>2. Total(rec, DeltaAt(rec, v, x), MergeDelta(rec, DeltaAt(rec, b, x), DeltaAt(rec, f, x)),
              Zero(rec), DeltaAt(rec, r, x))
        = Total(rec, DeltaAt(rec, v, x), DeltaAt(rec, b, x), DeltaAt(rec, f, x), DeltaAt(rec, r, x))
    BY <2>1, TotalMoves
  <2>3. Adds(rec, v, b, f, r, a, x)
    BY DEF Balance
  <2>4. /\ x \in DOMAIN p <=> x \in DOMAIN b \/ x = k
        /\ x = k => DeltaAt(rec, p, x) = MergeDelta(rec, DeltaAt(rec, b, x), f[k])
        /\ x # k => DeltaAt(rec, p, x) = DeltaAt(rec, b, x)
    BY AddToAt
  <2>5. /\ x \in DOMAIN g <=> x \in DOMAIN f /\ x # k
        /\ x = k => DeltaAt(rec, g, x) = Zero(rec)
        /\ x # k => DeltaAt(rec, g, x) = DeltaAt(rec, f, x)
    BY <1>5 DEF DeltaAt
  <2> QED
    BY <1>2, <2>2, <2>3, <2>4, <2>5 DEF Adds
<1> QED
  BY <1>1, <1>3, <1>5, <1>6 DEF Balance

(* Nothing is added to a counter that is not there. *)
LEMMA MergeZero ==
  ASSUME NEW rec \in Recorder, NEW d \in Deltas(rec)
  PROVE  MergeDelta(rec, d, Zero(rec)) = d
<1>1. Zero(rec) \in Deltas(rec) /\ \A f \in Fields(rec) : Zero(rec)[f] = 0
  BY DeltaFields
<1>2. /\ MergeDelta(rec, d, Zero(rec)) \in Deltas(rec)
      /\ \A f \in Fields(rec) : MergeDelta(rec, d, Zero(rec))[f] = Joint(f, d[f], Zero(rec)[f])
  BY <1>1, MergeFields
<1>3. \A f \in Fields(rec) : d[f] \in Nat
  BY DEF Deltas
<1>4. \A f \in Fields(rec) : MergeDelta(rec, d, Zero(rec))[f] = d[f]
  BY <1>1, <1>2, <1>3 DEF Joint
<1> QED
  BY <1>2, <1>4, SameDelta

(* Rows that are pruned go from the table to what was removed (usage.go, prune). *)
LEMMA PruneBalances ==
  ASSUME NEW rec \in Recorder, NEW v, NEW b, NEW f, NEW r, NEW a, Balance(rec, v, b, f, r, a),
         NEW old, old \subseteq DOMAIN v, NEW p, NEW q, p = [k \in DOMAIN v \ old |-> v[k]],
         q = AddAll(rec, r, [k \in old |-> v[k]])
  PROVE  Balance(rec, p, b, f, q, a)
<1>1. IsTable(rec, v) /\ IsTable(rec, b) /\ IsTable(rec, f) /\ IsTable(rec, r) /\ IsTable(rec, a)
  BY DEF Balance
<1> PICK o : o = [k \in old |-> v[k]]
  OBVIOUS
<1>2. /\ IsTable(rec, o)
      /\ \A x : /\ x \in DOMAIN o <=> x \in old
                /\ x \in old => DeltaAt(rec, o, x) = DeltaAt(rec, v, x)
                /\ x \notin old => DeltaAt(rec, o, x) = Zero(rec)
  BY <1>1, PartAt
<1>3. DOMAIN v \ old \subseteq DOMAIN v
  OBVIOUS
<1>4. /\ IsTable(rec, p)
      /\ \A x : /\ x \in DOMAIN p <=> x \in DOMAIN v \ old
                /\ x \in DOMAIN v \ old => DeltaAt(rec, p, x) = DeltaAt(rec, v, x)
                /\ x \notin DOMAIN v \ old => DeltaAt(rec, p, x) = Zero(rec)
  BY <1>1, <1>3, PartAt
<1>5. q = AddAll(rec, r, o) /\ IsTable(rec, o)
  BY <1>2
<1>6. /\ IsTable(rec, q)
      /\ \A x : /\ x \in DOMAIN q <=> x \in DOMAIN r \/ x \in DOMAIN o
                /\ DeltaAt(rec, q, x) = MergeDelta(rec, DeltaAt(rec, r, x), DeltaAt(rec, o, x))
  BY <1>1, <1>5, AddAllAt
<1>7. ASSUME NEW x PROVE Adds(rec, p, b, f, q, a, x)
  <2>1. /\ DeltaAt(rec, v, x) \in Deltas(rec) /\ DeltaAt(rec, b, x) \in Deltas(rec)
        /\ DeltaAt(rec, f, x) \in Deltas(rec) /\ DeltaAt(rec, r, x) \in Deltas(rec)
    BY <1>1, TableAt
  <2>2. Total(rec, Zero(rec), DeltaAt(rec, b, x), DeltaAt(rec, f, x),
              MergeDelta(rec, DeltaAt(rec, r, x), DeltaAt(rec, v, x)))
        = Total(rec, DeltaAt(rec, v, x), DeltaAt(rec, b, x), DeltaAt(rec, f, x), DeltaAt(rec, r, x))
    BY <2>1, TotalMoves
  <2>3. Adds(rec, v, b, f, r, a, x)
    BY DEF Balance
  <2>4. CASE x \in old
    <3>1. /\ x \in DOMAIN q /\ x \in DOMAIN v /\ x \notin DOMAIN p
          /\ DeltaAt(rec, p, x) = Zero(rec)
          /\ DeltaAt(rec, q, x) = MergeDelta(rec, DeltaAt(rec, r, x), DeltaAt(rec, v, x))
      BY <1>2, <1>4, <1>6, <2>4
    <3> QED
      BY <2>2, <2>3, <3>1 DEF Adds
  <2>5. CASE x \notin old
    <3>1. DeltaAt(rec, q, x) = DeltaAt(rec, r, x) /\ (x \in DOMAIN q <=> x \in DOMAIN r)
      <4>1. DeltaAt(rec, q, x) = MergeDelta(rec, DeltaAt(rec, r, x), Zero(rec))
        BY <1>2, <1>6, <2>5
      <4> QED
        BY <1>2, <1>6, <2>1, <2>5, <4>1, MergeZero
    <3>2. DeltaAt(rec, p, x) = DeltaAt(rec, v, x) /\ (x \in DOMAIN p <=> x \in DOMAIN v)
      BY <1>4, <2>5 DEF DeltaAt
    <3> QED
      BY <2>3, <3>1, <3>2 DEF Adds
  <2> QED
    BY <2>4, <2>5
<1> QED
  BY <1>1, <1>4, <1>6, <1>7 DEF Balance

(* A process that ends takes the buffer and the flush with it. *)
LEMMA ExitBalances ==
  ASSUME NEW rec \in Recorder, NEW v, NEW b, NEW f, NEW r, NEW a, Balance(rec, v, b, f, r, a),
         NEW q, q = AddAll(rec, AddAll(rec, r, b), f)
  PROVE  Balance(rec, v, Empty, Empty, q, a)
<1>1. IsTable(rec, v) /\ IsTable(rec, b) /\ IsTable(rec, f) /\ IsTable(rec, r) /\ IsTable(rec, a)
  BY DEF Balance
<1>2. IsTable(rec, Empty) /\ DOMAIN Empty = {} /\ \A x : DeltaAt(rec, Empty, x) = Zero(rec)
  BY EmptyAt
<1> PICK s : s = AddAll(rec, r, b)
  OBVIOUS
<1>3. /\ IsTable(rec, s)
      /\ \A x : /\ x \in DOMAIN s <=> x \in DOMAIN r \/ x \in DOMAIN b
                /\ DeltaAt(rec, s, x) = MergeDelta(rec, DeltaAt(rec, r, x), DeltaAt(rec, b, x))
  BY <1>1, AddAllAt
<1>4. q = AddAll(rec, s, f) /\ IsTable(rec, s)
  BY <1>3
<1>5. /\ IsTable(rec, q)
      /\ \A x : /\ x \in DOMAIN q <=> x \in DOMAIN s \/ x \in DOMAIN f
                /\ DeltaAt(rec, q, x) = MergeDelta(rec, DeltaAt(rec, s, x), DeltaAt(rec, f, x))
  BY <1>1, <1>4, AddAllAt
<1>6. ASSUME NEW x PROVE Adds(rec, v, Empty, Empty, q, a, x)
  <2>1. /\ DeltaAt(rec, v, x) \in Deltas(rec) /\ DeltaAt(rec, b, x) \in Deltas(rec)
        /\ DeltaAt(rec, f, x) \in Deltas(rec) /\ DeltaAt(rec, r, x) \in Deltas(rec)
    BY <1>1, TableAt
  <2>2. Total(rec, DeltaAt(rec, v, x), Zero(rec), Zero(rec),
              MergeDelta(rec, MergeDelta(rec, DeltaAt(rec, r, x), DeltaAt(rec, b, x)), DeltaAt(rec, f, x)))
        = Total(rec, DeltaAt(rec, v, x), DeltaAt(rec, b, x), DeltaAt(rec, f, x), DeltaAt(rec, r, x))
    BY <2>1, TotalMoves
  <2>3. Adds(rec, v, b, f, r, a, x)
    BY DEF Balance
  <2> QED
    BY <1>2, <1>3, <1>5, <2>2, <2>3 DEF Adds
<1> QED
  BY <1>1, <1>2, <1>5, <1>6 DEF Balance

\* A recorder has a flush only while its loop writes it.
FlushInv ==
  \A rec \in Recorder : loop[rec] \notin {"flush", "last"} => counters[rec].flush = Empty

\* The books of every recorder balance.
BooksInv ==
  \A rec \in Recorder : Balance(rec, counters[rec].db, counters[rec].buf, counters[rec].flush,
                                removed[rec], recorded[rec])

MeterShape ==
  /\ DOMAIN loop = Recorder /\ loop = [rec \in Recorder |-> loop[rec]]
  /\ DOMAIN recorded = Recorder /\ recorded = [rec \in Recorder |-> recorded[rec]]
  /\ DOMAIN removed = Recorder /\ removed = [rec \in Recorder |-> removed[rec]]
  /\ DOMAIN counters = Recorder /\ counters = [rec \in Recorder |-> counters[rec]]
  /\ \A rec \in Recorder : counters[rec] = [buf |-> counters[rec].buf, flush |-> counters[rec].flush,
                                            db |-> counters[rec].db]

MeterInv == MeterShape /\ FlushInv /\ BooksInv

(* Nothing has been recorded when the router is new. *)
LEMMA InitMeterInv == MeterInit => MeterInv
<1> SUFFICES ASSUME MeterInit PROVE MeterInv
  OBVIOUS
<1>1. MeterShape /\ FlushInv
  BY DEF MeterInit, MeterShape, FlushInv
<1>2. ASSUME NEW rec \in Recorder
      PROVE  Balance(rec, Empty, Empty, Empty, Empty, Empty)
  <2>1. IsTable(rec, Empty) /\ DOMAIN Empty = {} /\ \A x : DeltaAt(rec, Empty, x) = Zero(rec)
    BY EmptyAt
  <2>2. Zero(rec) \in Deltas(rec)
    BY DeltaFields
  <2>3. MergeDelta(rec, Zero(rec), Zero(rec)) = Zero(rec)
    BY <2>2, MergeZero
  <2>4. Total(rec, Zero(rec), Zero(rec), Zero(rec), Zero(rec)) = Zero(rec)
    BY <2>3 DEF Total
  <2>5. ASSUME NEW x PROVE Adds(rec, Empty, Empty, Empty, Empty, Empty, x)
    BY <2>1, <2>4 DEF Adds
  <2> QED
    BY <2>1, <2>5 DEF Balance
<1>3. \A rec \in Recorder : /\ counters[rec].db = Empty /\ counters[rec].buf = Empty
                            /\ counters[rec].flush = Empty
                            /\ removed[rec] = Empty /\ recorded[rec] = Empty
  BY DEF MeterInit
<1>4. BooksInv
  BY <1>2, <1>3 DEF BooksInv
<1> QED
  BY <1>1, <1>4 DEF MeterInv

(* Recording a request changes the buffer and the history of one recorder. *)
LEMMA RecordMeterInv ==
  ASSUME MeterInv, NEW rec \in Recorder, NEW k, NEW d \in Deltas(rec),
         Record(rec, k, d), UNCHANGED <<loop, removed>>
  PROVE  MeterInv'
<1>1. MeterShape /\ FlushInv /\ BooksInv
  BY DEF MeterInv
<1>2. counters' = [counters EXCEPT ![rec] = [@ EXCEPT !.buf = AddTo(rec, counters[rec].buf, k, d)]]
  BY DEF Record
<1>3. recorded' = [recorded EXCEPT ![rec] = AddTo(rec, recorded[rec], k, d)]
  BY DEF Record
<1> PICK p : p = AddTo(rec, counters[rec].buf, k, d)
  OBVIOUS
<1> PICK q : q = AddTo(rec, recorded[rec], k, d)
  OBVIOUS
<1>4. /\ counters'[rec].db = counters[rec].db /\ counters'[rec].buf = p
      /\ counters'[rec].flush = counters[rec].flush /\ recorded'[rec] = q
      /\ \A o \in Recorder : o # rec => counters'[o] = counters[o] /\ recorded'[o] = recorded[o]
      /\ \A o \in Recorder : counters'[o].flush = counters[o].flush
  BY <1>1, <1>2, <1>3 DEF MeterShape
<1>5. MeterShape'
  BY <1>1, <1>2, <1>3 DEF MeterShape
<1>6. FlushInv'
  BY <1>1, <1>4 DEF FlushInv
<1>7. Balance(rec, counters[rec].db, counters[rec].buf, counters[rec].flush, removed[rec], recorded[rec])
  BY <1>1 DEF BooksInv
<1>8. Balance(rec, counters[rec].db, p, counters[rec].flush, removed[rec], q)
  BY <1>7, RecordBalances
<1>9. BooksInv'
  BY <1>1, <1>4, <1>8 DEF BooksInv
<1> QED
  BY <1>5, <1>6, <1>9 DEF MeterInv

(* A measurement and a count of tokens are deltas (hub.go, RecordPerf; handler.go, RecordUsage). *)
LEMMA SamplesAreDeltas ==
  ASSUME NEW r \in Finished
  PROVE  /\ Sample(r) \in Deltas("perf")
         /\ [requests |-> 1, prompt |-> r.tokens, completion |-> 1] \in Deltas("usage")
<1>1. r.tokens \in Nat /\ r.took \in Nat /\ r.first \in Nat
  BY MeterAssumption
<1>2. Fields("perf") = {"samples", "total", "peak", "firsts", "first"}
      /\ Fields("usage") = {"requests", "prompt", "completion"}
  BY DEF Fields
<1> QED
  BY <1>1, <1>2 DEF Sample, Deltas

(* What a step of a recorder's loop does to the books. *)
LEMMA LoopMeterInv ==
  ASSUME MeterInv, NEW rec \in Recorder, NEW v, NEW b, NEW f, NEW r,
         counters' = [counters EXCEPT ![rec] = [buf |-> b, flush |-> f, db |-> v]],
         removed' = [removed EXCEPT ![rec] = r], UNCHANGED recorded,
         loop' = [loop EXCEPT ![rec] = loop'[rec]],
         loop'[rec] \in {"flush", "last"} \/ f = Empty,
         Balance(rec, v, b, f, r, recorded[rec])
  PROVE  MeterInv'
<1>1. MeterShape /\ FlushInv /\ BooksInv
  BY DEF MeterInv
<1> PICK l : l = loop'[rec]
  OBVIOUS
<1>2. /\ counters'[rec].db = v /\ counters'[rec].buf = b /\ counters'[rec].flush = f
      /\ removed'[rec] = r /\ recorded'[rec] = recorded[rec]
      /\ \A o \in Recorder : o # rec => /\ counters'[o] = counters[o] /\ removed'[o] = removed[o]
                                        /\ loop'[o] = loop[o] /\ recorded'[o] = recorded[o]
  BY <1>1 DEF MeterShape
<1>3. MeterShape'
  <2>1. /\ DOMAIN loop' = Recorder /\ loop' = [o \in Recorder |-> loop'[o]]
        /\ DOMAIN removed' = Recorder /\ removed' = [o \in Recorder |-> removed'[o]]
        /\ DOMAIN counters' = Recorder /\ counters' = [o \in Recorder |-> counters'[o]]
    BY <1>1 DEF MeterShape
  <2>2. \A o \in Recorder : counters'[o] = [buf |-> counters'[o].buf, flush |-> counters'[o].flush,
                                            db |-> counters'[o].db]
    BY <1>1, <1>2 DEF MeterShape
  <2> QED
    BY <1>1, <2>1, <2>2 DEF MeterShape
<1>4. FlushInv'
  BY <1>1, <1>2 DEF FlushInv
<1>5. BooksInv'
  BY <1>1, <1>2 DEF BooksInv
<1> QED
  BY <1>3, <1>4, <1>5 DEF MeterInv

(* A recorder's counters are its three tables. *)
LEMMA CountersOf ==
  ASSUME MeterInv, NEW rec \in Recorder
  PROVE  /\ counters[rec] = [buf |-> counters[rec].buf, flush |-> counters[rec].flush,
                             db |-> counters[rec].db]
         /\ counters = [counters EXCEPT ![rec] = counters[rec]]
         /\ removed = [removed EXCEPT ![rec] = removed[rec]]
         /\ loop = [loop EXCEPT ![rec] = loop[rec]]
         /\ Balance(rec, counters[rec].db, counters[rec].buf, counters[rec].flush,
                    removed[rec], recorded[rec])
         /\ loop[rec] \notin {"flush", "last"} => counters[rec].flush = Empty
<1>1. /\ counters = [counters EXCEPT ![rec] = counters[rec]]
      /\ removed = [removed EXCEPT ![rec] = removed[rec]]
      /\ loop = [loop EXCEPT ![rec] = loop[rec]]
  BY DEF MeterInv, MeterShape
<1>2. counters[rec] = [buf |-> counters[rec].buf, flush |-> counters[rec].flush,
                       db |-> counters[rec].db]
  BY DEF MeterInv, MeterShape
<1> QED
  BY <1>1, <1>2 DEF MeterInv, BooksInv, FlushInv

(* No step of a recorder's loop loses or doubles a counter. *)
LEMMA PruneMeterInv ==
  ASSUME MeterInv, NEW rec \in Recorder, Prune(rec)
  PROVE  MeterInv'
<1> DEFINE db == counters[rec].db
           b == counters[rec].buf
           f == counters[rec].flush
           old == {k \in DOMAIN counters[rec].db : k.hour <= hour - Retention}
<1>1. /\ counters[rec] = [buf |-> b, flush |-> f, db |-> db]
      /\ counters = [counters EXCEPT ![rec] = counters[rec]]
      /\ removed = [removed EXCEPT ![rec] = removed[rec]]
      /\ loop = [loop EXCEPT ![rec] = loop[rec]]
      /\ Balance(rec, db, b, f, removed[rec], recorded[rec])
      /\ loop[rec] \notin {"flush", "last"} => f = Empty
  BY CountersOf
<1>2. /\ loop[rec] \in {"start", "idle"} /\ loop' = [loop EXCEPT ![rec] = "idle"]
      /\ UNCHANGED recorded
  BY DEF Prune
<1>3. f = Empty
  BY <1>1, <1>2
<1>4. loop' = [loop EXCEPT ![rec] = loop'[rec]]
  BY <1>1, <1>2 DEF MeterInv, MeterShape
<1>5. CASE UNCHANGED <<counters, removed>>
  <2>1. /\ counters' = [counters EXCEPT ![rec] = [buf |-> b, flush |-> f, db |-> db]]
        /\ removed' = [removed EXCEPT ![rec] = removed[rec]]
    BY <1>1, <1>5
  <2> HIDE DEF db, b, f
  <2> QED
    BY <1>1, <1>2, <1>3, <1>4, <2>1, LoopMeterInv
<1>6. CASE /\ counters' = [counters EXCEPT ![rec].db = [k \in DOMAIN @ \ old |-> @[k]]]
           /\ removed' = [removed EXCEPT ![rec] = AddAll(rec, @, [k \in old |-> db[k]])]
  <2> PICK p : p = [k \in DOMAIN db \ old |-> db[k]]
    OBVIOUS
  <2> PICK q : q = AddAll(rec, removed[rec], [k \in old |-> db[k]])
    OBVIOUS
  <2>1. /\ counters' = [counters EXCEPT ![rec] = [buf |-> b, flush |-> f, db |-> p]]
        /\ removed' = [removed EXCEPT ![rec] = q]
    <3>1. counters' = [counters EXCEPT ![rec] = [counters[rec] EXCEPT !.db = p]]
      BY <1>6
    <3>2. [counters[rec] EXCEPT !.db = p] = [buf |-> b, flush |-> f, db |-> p]
      BY <1>1
    <3> QED
      BY <1>6, <3>1, <3>2
  <2>2. old \subseteq DOMAIN db
    OBVIOUS
  <2> HIDE DEF db, b, f, old
  <2>3. Balance(rec, p, b, f, q, recorded[rec])
    BY <1>1, <2>2, PruneBalances
  <2> QED
    BY <1>2, <1>3, <1>4, <2>1, <2>3, LoopMeterInv
<1> QED
  BY <1>5, <1>6 DEF Prune

(* The buffer is swapped under the lock (usage.go:293-298). *)
LEMMA SwapMeterInv ==
  ASSUME MeterInv, NEW rec \in Recorder, SwapBuffer(rec)
  PROVE  MeterInv'
<1> DEFINE db == counters[rec].db
           b == counters[rec].buf
           f == counters[rec].flush
<1>1. /\ counters[rec] = [buf |-> b, flush |-> f, db |-> db]
      /\ removed = [removed EXCEPT ![rec] = removed[rec]]
      /\ Balance(rec, db, b, f, removed[rec], recorded[rec])
      /\ loop[rec] \notin {"flush", "last"} => f = Empty
  BY CountersOf
<1>2. /\ loop[rec] = "idle" /\ UNCHANGED <<recorded, removed>>
      /\ \E l \in {"flush", "last"} : loop' = [loop EXCEPT ![rec] = l]
      /\ counters' = [counters EXCEPT ![rec].flush = counters[rec].buf, ![rec].buf = Empty]
  BY DEF SwapBuffer
<1>3. loop' = [loop EXCEPT ![rec] = loop'[rec]] /\ loop'[rec] \in {"flush", "last"}
  BY <1>2 DEF MeterInv, MeterShape
<1>4. /\ counters' = [counters EXCEPT ![rec] = [buf |-> Empty, flush |-> b, db |-> db]]
      /\ removed' = [removed EXCEPT ![rec] = removed[rec]]
  <2>1. counters' = [counters EXCEPT ![rec] = [counters[rec] EXCEPT !.flush = b, !.buf = Empty]]
    <3> DEFINE x == [counters[rec] EXCEPT !.flush = b, !.buf = Empty]
    <3>1. counters'[rec] = x /\ \A o \in Recorder : o # rec => counters'[o] = counters[o]
      BY <1>2 DEF MeterInv, MeterShape
    <3>2. DOMAIN counters = Recorder /\ counters' = [o \in Recorder |-> counters'[o]]
      BY <1>2 DEF MeterInv, MeterShape
    <3> HIDE DEF x
    <3>3. counters' = [counters EXCEPT ![rec] = x]
      BY <3>1, <3>2
    <3> QED
      BY <3>3 DEF x
  <2>2. [counters[rec] EXCEPT !.flush = b, !.buf = Empty] = [buf |-> Empty, flush |-> b, db |-> db]
    <3> PICK c : c = counters[rec]
      OBVIOUS
    <3>1. c = [buf |-> b, flush |-> f, db |-> db]
      BY <1>1
    <3> HIDE DEF b, f, db
    <3>2. [c EXCEPT !.flush = b, !.buf = Empty] = [buf |-> Empty, flush |-> b, db |-> db]
      <4> DEFINE x == [c EXCEPT !.flush = b, !.buf = Empty]
      <4>1. DOMAIN x = {"buf", "flush", "db"} /\ x = [i \in DOMAIN x |-> x[i]]
        BY <3>1
      <4>2. x["buf"] = Empty /\ x["flush"] = b /\ x["db"] = db
        BY <3>1
      <4> HIDE DEF x
      <4>3. x = [buf |-> Empty, flush |-> b, db |-> db]
        BY <4>1, <4>2
      <4> QED
        BY <4>3 DEF x
    <3> QED
      BY <3>2
  <2> QED
    BY <1>2, <1>1, <2>1, <2>2
<1>5. f = Empty
  BY <1>1, <1>2
<1> HIDE DEF db, b, f
<1>6. Balance(rec, db, Empty, b, removed[rec], recorded[rec])
  BY <1>1, <1>5, SwapBalances
<1> QED
  BY <1>2, <1>3, <1>4, <1>6, LoopMeterInv

(* A row is written, or merged back into the buffer (usage.go:300-309). *)
LEMMA WriteMeterInv ==
  ASSUME MeterInv, NEW rec \in Recorder, NEW k, WriteRow(rec, k)
  PROVE  MeterInv'
<1> DEFINE db == counters[rec].db
           b == counters[rec].buf
           f == counters[rec].flush
<1>1. /\ counters[rec] = [buf |-> b, flush |-> f, db |-> db]
      /\ removed = [removed EXCEPT ![rec] = removed[rec]]
      /\ loop = [loop EXCEPT ![rec] = loop[rec]]
      /\ Balance(rec, db, b, f, removed[rec], recorded[rec])
  BY CountersOf
<1>2. /\ loop[rec] \in {"flush", "last"} /\ k \in DOMAIN f /\ UNCHANGED <<loop, recorded, removed>>
  BY DEF WriteRow
<1>3. /\ loop' = [loop EXCEPT ![rec] = loop'[rec]] /\ loop'[rec] \in {"flush", "last"}
      /\ removed' = [removed EXCEPT ![rec] = removed[rec]]
  BY <1>1, <1>2
<1> PICK g : g = [y \in DOMAIN f \ {k} |-> f[y]]
  OBVIOUS
<1> PICK p : p = AddTo(rec, db, k, f[k])
  OBVIOUS
<1> PICK q : q = AddTo(rec, b, k, f[k])
  OBVIOUS
<1>4. \/ counters' = [counters EXCEPT ![rec] = [buf |-> b, flush |-> g, db |-> p]]
      \/ counters' = [counters EXCEPT ![rec] = [buf |-> q, flush |-> g, db |-> db]]
  <2> DEFINE c == counters[rec]
             written == [c EXCEPT !.db = AddTo(rec, @, k, c.flush[k])]
             less(n) == [n EXCEPT !.flush = [x \in DOMAIN @ \ {k} |-> @[x]]]
  <2>1. \E n \in {written, Rebuffer(rec, c, k)} : counters' = [counters EXCEPT ![rec] = less(n)]
    BY DEF WriteRow
  <2>2. written = [buf |-> b, flush |-> f, db |-> p]
    BY <1>1
  <2>3. Rebuffer(rec, c, k) = [buf |-> q, flush |-> f, db |-> db]
    BY <1>1 DEF Rebuffer
  <2>4. ASSUME NEW x, NEW y
        PROVE  less([buf |-> x, flush |-> f, db |-> y]) = [buf |-> x, flush |-> g, db |-> y]
    <3> HIDE DEF f
    <3> QED
      OBVIOUS
  <2>5. /\ less(written) = [buf |-> b, flush |-> g, db |-> p]
        /\ less(Rebuffer(rec, c, k)) = [buf |-> q, flush |-> g, db |-> db]
    <3> HIDE DEF written, less, c, b, f, db
    <3> QED
      BY <2>2, <2>3, <2>4
  <2> HIDE DEF written, less, c
  <2> QED
    BY <2>1, <2>5
<1> HIDE DEF db, b, f
<1>5. Balance(rec, p, b, g, removed[rec], recorded[rec])
  BY <1>1, <1>2, WriteBalances
<1>6. Balance(rec, db, q, g, removed[rec], recorded[rec])
  BY <1>1, <1>2, RebufferBalances
<1>7. CASE counters' = [counters EXCEPT ![rec] = [buf |-> b, flush |-> g, db |-> p]]
  BY <1>2, <1>3, <1>5, <1>7, LoopMeterInv
<1>8. CASE counters' = [counters EXCEPT ![rec] = [buf |-> q, flush |-> g, db |-> db]]
  BY <1>2, <1>3, <1>6, <1>8, LoopMeterInv
<1> QED
  BY <1>4, <1>7, <1>8

(* The loop goes back to waiting, or ends, when every row has been tried. *)
LEMMA FlushEndsMeterInv ==
  ASSUME MeterInv, NEW rec \in Recorder, FlushEnds(rec)
  PROVE  MeterInv'
<1>1. MeterShape'
  BY DEF FlushEnds, MeterInv, MeterShape
<1>2. FlushInv'
  BY DEF FlushEnds, MeterInv, MeterShape, FlushInv
<1>3. BooksInv'
  BY DEF FlushEnds, MeterInv, BooksInv
<1> QED
  BY <1>1, <1>2, <1>3 DEF MeterInv

(* What was in memory when the process ends counts as removed (main.go:435). *)
LEMMA ExitMeterInv ==
  ASSUME MeterInv, Exit
  PROVE  MeterInv'
<1>1. MeterShape'
  BY DEF Exit, MeterInv, MeterShape
<1>2. FlushInv'
  BY DEF Exit, FlushInv
<1>3. ASSUME NEW rec \in Recorder
      PROVE  Balance(rec, counters'[rec].db, counters'[rec].buf, counters'[rec].flush,
                     removed'[rec], recorded'[rec])
  <2> PICK q : q = AddAll(rec, AddAll(rec, removed[rec], counters[rec].buf), counters[rec].flush)
    OBVIOUS
  <2>1. /\ counters'[rec].db = counters[rec].db /\ counters'[rec].buf = Empty
        /\ counters'[rec].flush = Empty /\ removed'[rec] = q /\ recorded'[rec] = recorded[rec]
    BY DEF Exit
  <2>2. Balance(rec, counters[rec].db, counters[rec].buf, counters[rec].flush, removed[rec], recorded[rec])
    BY CountersOf
  <2>3. Balance(rec, counters[rec].db, Empty, Empty, q, recorded[rec])
    BY <2>2, ExitBalances
  <2> QED
    BY <2>1, <2>3
<1> QED
  BY <1>1, <1>2, <1>3 DEF MeterInv, BooksInv

(* No step of Metering disturbs the books. *)
LEMMA NextMeterInv == MeterInv /\ [MeterNext]_meterVars => MeterInv'
<1> SUFFICES ASSUME MeterInv, [MeterNext]_meterVars PROVE MeterInv'
  OBVIOUS
<1>0. ASSUME UNCHANGED <<counters, loop, recorded, removed>> PROVE MeterInv'
  BY <1>0 DEF MeterInv, MeterShape, FlushInv, BooksInv
<1>1. ASSUME NEW r \in Finished, RecordPerf(r) PROVE MeterInv'
  <2>1. "perf" \in Recorder
    BY DEF Recorder
  <2> QED
    BY <1>1, <2>1, SamplesAreDeltas, RecordMeterInv DEF RecordPerf
<1>2. ASSUME NEW r \in Finished, NEW served, RecordUsage(r, served) PROVE MeterInv'
  <2>1. "usage" \in Recorder
    BY DEF Recorder
  <2> QED
    BY <1>2, <2>1, SamplesAreDeltas, RecordMeterInv DEF RecordUsage
<1>3. ASSUME NEW r \in Finished, SettlesUncounted(r) PROVE MeterInv'
  BY <1>0, <1>3 DEF SettlesUncounted
<1>4. ASSUME NEW rec \in Recorder,
             Prune(rec) \/ SwapBuffer(rec) \/ FlushEnds(rec) \/ \E k : WriteRow(rec, k)
      PROVE  MeterInv'
  BY <1>4, PruneMeterInv, SwapMeterInv, FlushEndsMeterInv, WriteMeterInv
<1>5. ASSUME NEW rec \in Recorder, Close(rec) PROVE MeterInv'
  BY <1>0, <1>5 DEF Close
<1>6. ASSUME NEW p \in Rates, SetModelPricing(p) \/ DeleteModelPricing(p) PROVE MeterInv'
  BY <1>0, <1>6 DEF SetModelPricing, DeleteModelPricing
<1>7. CASE HourPasses
  BY <1>0, <1>7 DEF HourPasses
<1>8. CASE Exit
  BY <1>8, ExitMeterInv
<1>9. CASE UNCHANGED meterVars
  BY <1>0, <1>9 DEF meterVars
<1> QED
  BY <1>1, <1>2, <1>3, <1>4, <1>5, <1>6, <1>7, <1>8, <1>9 DEF MeterNext

(* CountersConserved of the run Admin, for any requests, hours, pricings and ends of the process:
   the database, the buffer, the flush under way and what was removed hold, key by key, all that
   was ever recorded, whatever rows fail to be written and whatever is recorded meanwhile
   (usage.go:239-317, perf.go). *)
THEOREM MeterCounters == MeterSpec => []CountersConserved
<1>1. MeterInv => CountersConserved
  <2> SUFFICES ASSUME MeterInv, NEW rec \in Recorder
               PROVE  AddAll(rec, AddAll(rec, counters[rec].db, counters[rec].buf),
                             AddAll(rec, counters[rec].flush, removed[rec])) = recorded[rec]
    BY DEF CountersConserved
  <2>1. Balance(rec, counters[rec].db, counters[rec].buf, counters[rec].flush, removed[rec], recorded[rec])
    BY CountersOf
  <2> QED
    BY <2>1, BalanceConserves
<1> QED
  BY <1>1, InitMeterInv, NextMeterInv, PTL DEF MeterSpec

-----------------------------------------------------------------------------
(* The policy engine: induction on conditions.                             *)
(* A set of numbers has a least one. *)
LEMMA Least ==
  ASSUME NEW S \in SUBSET Nat, S # {}
  PROVE  \E m \in S : \A k \in S : m <= k
<1>1. \E m \in S : \A k \in S : <<k, m>> \notin OpToRel(<, Nat)
  BY WFMin, NatLessThanWellFounded, Zenon
<1>2. ASSUME NEW m \in S, NEW k \in S, <<k, m>> \notin OpToRel(<, Nat) PROVE m <= k
  BY <1>2 DEF OpToRel
<1> QED
  BY <1>1, <1>2

Layers(f, N) == f = [n \in 0 .. N |-> IF n = 0 THEN CondOps ELSE Combined(f[n - 1])]

(* The layers of conditions exist up to any depth. *)
LEMMA LayersExist ==
  ASSUME NEW N \in Nat
  PROVE  \E f : Layers(f, N)
<1> DEFINE Bad == {n \in Nat : ~ \E f : Layers(f, n)}
<1>1. SUFFICES ASSUME Bad # {} PROVE FALSE
  OBVIOUS
<1>2. PICK m \in Bad : \A k \in Bad : m <= k
  BY <1>1, Least
<1>3. CASE m = 0
  <2>1. Layers([n \in 0 .. 0 |-> CondOps], 0)
    BY DEF Layers
  <2> QED
    BY <1>2, <1>3, <2>1
<1>4. CASE m # 0
  <2>1. m - 1 \in Nat /\ m - 1 \notin Bad /\ m \in Nat
    BY <1>2, <1>4
  <2>2. PICK f : Layers(f, m - 1)
    BY <2>1
  <2> DEFINE g == [n \in 0 .. m |-> IF n = m THEN Combined(f[m - 1]) ELSE f[n]]
  <2>3. \A n \in 0 .. m : n # 0 => n - 1 \in 0 .. (m - 1) /\ g[n - 1] = f[n - 1]
    BY <2>1
  <2>4. \A n \in 0 .. m : g[n] = IF n = 0 THEN CondOps ELSE Combined(g[n - 1])
    <3> TAKE n \in 0 .. m
    <3>1. CASE n = m
      BY <1>4, <2>1, <2>3, <3>1
    <3>2. CASE n # m
      <4>1. n \in 0 .. (m - 1)
        BY <2>1, <3>2
      <4>2. f[n] = IF n = 0 THEN CondOps ELSE Combined(f[n - 1])
        BY <2>2, <4>1 DEF Layers
      <4> QED
        BY <2>3, <3>2, <4>2
    <3> QED
      BY <3>1, <3>2
  <2>5. g = [n \in 0 .. m |-> g[n]]
    OBVIOUS
  <2> HIDE DEF g
  <2>6. Layers(g, m)
    BY <2>4, <2>5 DEF Layers
  <2> QED
    BY <1>2, <2>6
<1> QED
  BY <1>3, <1>4

Depth == MaxCondDepth + 1

(* What Nested is. *)
LEMMA NestedIs ==
  /\ Depth \in Nat /\ Depth > 0 /\ Conditions = Nested[Depth]
  /\ Nested[0] = CondOps
  /\ \A n \in 1 .. Depth : Nested[n] = Combined(Nested[n - 1])
<1>1. Depth \in Nat /\ Depth > 0 /\ Conditions = Nested[Depth]
  BY DEF Depth, MaxCondDepth, Conditions
<1>2. Layers(Nested, Depth)
  <2>1. \E f : f = [n \in 0 .. Depth |-> IF n = 0 THEN CondOps ELSE Combined(f[n - 1])]
    BY <1>1, LayersExist DEF Layers
  <2> QED
    BY <2>1, Zenon DEF Nested, Layers, Depth
<1>3. \A n \in 0 .. Depth : Nested[n] = IF n = 0 THEN CondOps ELSE Combined(Nested[n - 1])
  BY <1>2 DEF Layers
<1>4. 0 \in 0 .. Depth /\ \A n \in 1 .. Depth : n \in 0 .. Depth /\ n # 0
  BY <1>1
<1> QED
  BY <1>1, <1>3, <1>4

Joins == {"all", "any", "not"}

(* A condition is an operator, or its parts are one level below it. *)
LEMMA PartsBelow ==
  ASSUME NEW n \in 1 .. Depth
  PROVE  /\ Nested[n - 1] \subseteq Nested[n]
         /\ \A c \in Nested[n] : \/ c \in CondOps
                                 \/ /\ c.kind \in Joins /\ c.list \in Seq(Nested[n - 1])
                                    /\ c.kind = "not" => DOMAIN c.list = {1}
                                    /\ c = [kind |-> c.kind, list |-> c.list]
<1> DEFINE Good(k) == /\ Nested[k - 1] \subseteq Nested[k]
                      /\ \A c \in Nested[k] : \/ c \in CondOps
                                 \/ /\ c.kind \in Joins /\ c.list \in Seq(Nested[k - 1])
                                    /\ c.kind = "not" => DOMAIN c.list = {1}
                                    /\ c = [kind |-> c.kind, list |-> c.list]
           Bad == {k \in 1 .. Depth : ~Good(k)}
<1>1. SUFFICES ASSUME Bad # {} PROVE FALSE
  OBVIOUS
<1>2. PICK m \in Bad : \A k \in Bad : m <= k
  <2>1. Bad \in SUBSET Nat
    BY NestedIs
  <2> HIDE DEF Bad
  <2> QED
    BY <1>1, <2>1, Least
<1>3. m \in 1 .. Depth /\ ~Good(m)
  BY <1>2
<1>4. PICK S : S = Nested[m - 1]
  OBVIOUS
<1>5. Nested[m] = Combined(S)
  BY <1>3, <1>4, NestedIs
<1>6. S \subseteq Nested[m]
  BY <1>5 DEF Combined
<1>7. ASSUME NEW c \in S
      PROVE  \/ c \in CondOps
             \/ /\ c.kind \in Joins /\ c.list \in Seq(S)
                /\ c.kind = "not" => DOMAIN c.list = {1}
                /\ c = [kind |-> c.kind, list |-> c.list]
  <2>1. CASE m = 1
    BY <1>4, <2>1, NestedIs
  <2>2. CASE m # 1
    <3>1. m - 1 \in 1 .. Depth /\ m - 1 \notin Bad
      BY <1>2, <1>3, <2>2, NestedIs
    <3>2. Good(m - 1)
      BY <3>1
    <3>3. PICK R : R = Nested[(m - 1) - 1]
      OBVIOUS
    <3>4. R \subseteq S
      BY <1>4, <3>2, <3>3
    <3>5. Seq(R) \subseteq Seq(S)
      BY <3>4
    <3> QED
      BY <1>4, <3>2, <3>3, <3>5
  <2> QED
    BY <2>1, <2>2
<1>8. ASSUME NEW c \in Combined(S), c \notin S
      PROVE  /\ c.kind \in Joins /\ c.list \in Seq(S)
             /\ c.kind = "not" => DOMAIN c.list = {1}
             /\ c = [kind |-> c.kind, list |-> c.list]
  <2>1. CASE c \in [kind : {"all", "any"}, list : Seq(S)]
    BY <2>1 DEF Joins
  <2>2. CASE c \in [kind : {"not"}, list : [1 .. 1 -> S]]
    <3>1. c.kind = "not" /\ c.list \in [1 .. 1 -> S] /\ c = [kind |-> c.kind, list |-> c.list]
      BY <2>2
    <3>2. c.list \in Seq(S)
      <4>1. PICK s : s = c.list
        OBVIOUS
      <4>2. s \in [1 .. 1 -> S]
        BY <3>1, <4>1
      <4>3. s \in Seq(S)
        BY <4>2, SeqDef, 1 \in Nat, Zenon
      <4> QED
        BY <4>1, <4>3
    <3>3. 1 .. 1 = {1}
      OBVIOUS
    <3> QED
      BY <3>1, <3>2, <3>3 DEF Joins
  <2> QED
    BY <1>8, <2>1, <2>2 DEF Combined
<1>9. Good(m)
  BY <1>4, <1>5, <1>6, <1>7, <1>8
<1> QED
  BY <1>3, <1>9

(* An operator is none of the three joins. *)
LEMMA OpsAreOps ==
  \A c \in CondOps : /\ c.kind = "op" /\ c = [kind |-> "op", op |-> c.op, args |-> c.args]
                     /\ c.args \in Seq({c.args[i] : i \in DOMAIN c.args})
                     /\ \A i \in DOMAIN c.args : IsArg(c.args[i])
<1> SUFFICES ASSUME NEW c \in CondOps
             PROVE  /\ c.kind = "op" /\ c = [kind |-> "op", op |-> c.op, args |-> c.args]
                    /\ c.args \in Seq({c.args[i] : i \in DOMAIN c.args})
                    /\ \A i \in DOMAIN c.args : IsArg(c.args[i])
  OBVIOUS
<1>1. /\ c = [kind |-> "op", op |-> c.op, args |-> c.args]
      /\ c.args \in Seq({c.args[i] : i \in DOMAIN c.args})
      /\ \A i \in DOMAIN c.args : IsArg(c.args[i])
  BY OpAssumption, Zenon DEF Op
<1>2. PICK o, a : c = [kind |-> "op", op |-> o, args |-> a]
  BY <1>1
<1>3. c.kind = "op"
  BY <1>2
<1> QED
  BY <1>1, <1>3

(* No layer has more than the last. *)
LEMMA Shallower == \A n \in 0 .. Depth : Nested[n] \subseteq Conditions
<1> DEFINE Bad == {k \in 0 .. Depth : ~(Nested[Depth - k] \subseteq Conditions)}
<1>1. SUFFICES ASSUME Bad # {} PROVE FALSE
  <2>1. \A n \in 0 .. Depth : Depth - n \in 0 .. Depth /\ Depth - (Depth - n) = n
    BY NestedIs
  <2> QED
    BY <2>1
<1>2. PICK m \in Bad : \A k \in Bad : m <= k
  <2>1. Bad \in SUBSET Nat
    BY NestedIs
  <2> HIDE DEF Bad
  <2> QED
    BY <1>1, <2>1, Least
<1>3. m # 0
  BY <1>2, NestedIs
<1>4. PICK n \in 1 .. Depth : n = Depth - (m - 1)
  BY <1>2, <1>3, NestedIs
<1>5. m - 1 \in 0 .. Depth /\ m - 1 \notin Bad
  BY <1>2, <1>3, NestedIs
<1>6. Nested[n] \subseteq Conditions
  BY <1>4, <1>5
<1>7. n - 1 = Depth - m
  BY <1>2, <1>4, NestedIs
<1>8. Nested[n - 1] \subseteq Nested[n]
  BY PartsBelow
<1> QED
  BY <1>2, <1>6, <1>7, <1>8

(* An operator is a condition. *)
LEMMA OpsAreConds == CondOps \subseteq Conditions
<1>1. 0 \in 0 .. Depth
  BY NestedIs
<1> QED
  BY <1>1, Shallower, NestedIs

(* Every condition is an operator or joins others, and what holds of operators
   and, wherever it holds of the parts, of what joins them, holds of all. *)
LEMMA CondInduction ==
  ASSUME NEW S, CondOps \subseteq S,
         \A c \in Conditions :
            c.kind \in Joins /\ c.list \in Seq(S) /\ c.list \in Seq(Conditions) => c \in S
  PROVE  Conditions \subseteq S
<1> DEFINE Bad == {n \in 0 .. Depth : ~(Nested[n] \subseteq S)}
<1>1. SUFFICES ASSUME Bad # {} PROVE FALSE
  <2>1. Depth \in 0 .. Depth
    BY NestedIs
  <2> QED
    BY <2>1, NestedIs
<1>2. PICK m \in Bad : \A k \in Bad : m <= k
  <2>1. Bad \in SUBSET Nat
    BY NestedIs
  <2> HIDE DEF Bad
  <2> QED
    BY <1>1, <2>1, Least
<1>3. m \in 1 .. Depth
  <2>1. m # 0
    BY <1>2, NestedIs
  <2> QED
    BY <1>2, <2>1, NestedIs
<1>4. PICK P : P = Nested[m - 1]
  OBVIOUS
<1>5. P \subseteq S
  BY <1>2, <1>3, <1>4, NestedIs
<1>6. \A n \in 0 .. Depth : Nested[n] \subseteq Conditions
  BY Shallower
<1>7. P \subseteq Conditions /\ Nested[m] \subseteq Conditions
  BY <1>3, <1>4, <1>6, NestedIs
<1>8. ASSUME NEW c \in Nested[m] PROVE c \in S
  <2>1. CASE c \in CondOps
    BY <2>1
  <2>2. CASE c.kind \in Joins /\ c.list \in Seq(P)
    <3>1. c.list \in Seq(S) /\ c.list \in Seq(Conditions)
      BY <1>5, <1>7, <2>2, SeqMonotonic, Zenon
    <3> QED
      BY <1>7, <2>2, <3>1
  <2> QED
    BY <1>3, <1>4, <2>1, <2>2, PartsBelow
<1> QED
  BY <1>2, <1>8

\* A function on the conditions S: what `leaf' says of an operator, and what
\* `join' makes of the values of the parts.
Recursion(f, S, V, leaf, join) ==
    /\ f \in [S -> V]
    /\ \A c \in S : f[c] = IF c.kind = "op" THEN leaf[c]
                           ELSE join[<<c.kind, [i \in DOMAIN c.list |-> f[c.list[i]]]>>]

(* Such a function exists, whatever its values are. *)
LEMMA CondRecursion ==
  ASSUME NEW V, NEW leaf \in [CondOps -> V], NEW join \in [Joins \X Seq(V) -> V]
  PROVE  \E f : Recursion(f, Conditions, V, leaf, join)
<1> DEFINE Bad == {n \in 0 .. Depth : ~\E f : Recursion(f, Nested[n], V, leaf, join)}
<1>1. SUFFICES ASSUME Bad # {} PROVE FALSE
  <2>1. Depth \in 0 .. Depth
    BY NestedIs
  <2> QED
    BY <2>1, NestedIs
<1>2. PICK m \in Bad : \A k \in Bad : m <= k
  <2>1. Bad \in SUBSET Nat
    BY NestedIs
  <2> HIDE DEF Bad
  <2> QED
    BY <1>1, <2>1, Least
<1>3. CASE m = 0
  <2>1. \A c \in CondOps : c.kind = "op"
    BY OpsAreOps
  <2>2. Recursion(leaf, CondOps, V, leaf, join)
    BY <2>1 DEF Recursion
  <2> QED
    BY <1>2, <1>3, <2>2, NestedIs
<1>4. CASE m # 0
  <2>1. m \in 1 .. Depth /\ m - 1 \in 0 .. Depth /\ m - 1 \notin Bad
    BY <1>2, <1>4, NestedIs
  <2>2. PICK P, Q : P = Nested[m - 1] /\ Q = Nested[m]
    OBVIOUS
  <2>3. PICK f : Recursion(f, P, V, leaf, join)
    BY <2>1, <2>2
  <2>4. P \subseteq Q /\ \A c \in Q : c \in CondOps \/ (c.kind \in Joins /\ c.list \in Seq(P))
    BY <2>1, <2>2, PartsBelow
  <2>5. \A c \in CondOps : c.kind = "op"
    BY OpsAreOps
  <2> DEFINE Value(c) == IF c.kind = "op" THEN leaf[c]
                         ELSE join[<<c.kind, [i \in DOMAIN c.list |-> f[c.list[i]]]>>]
  <2>6. PICK g : g = [c \in Q |-> Value(c)]
    OBVIOUS
  <2>7. \A c \in P : g[c] = f[c]
    BY <2>3, <2>4, <2>6 DEF Recursion
  <2>8. ASSUME NEW c \in Q
        PROVE  /\ g[c] \in V
               /\ g[c] = IF c.kind = "op" THEN leaf[c]
                         ELSE join[<<c.kind, [i \in DOMAIN c.list |-> g[c.list[i]]]>>]
    <3>1. CASE c \in CondOps
      BY <2>5, <2>6, <3>1
    <3>2. CASE c.kind \in Joins /\ c.list \in Seq(P)
      <4>1. PICK l : l = c.list
        OBVIOUS
      <4>2. l \in Seq(P) /\ c.kind # "op"
        BY <3>2, <4>1 DEF Joins
      <4>3. PICK n \in Nat : l \in [1 .. n -> P]
        BY <4>2, LenProperties, Zenon
      <4>4. DOMAIN l = 1 .. n /\ \A i \in DOMAIN l : l[i] \in P
        BY <4>3
      <4>5. PICK vals : vals = [i \in DOMAIN l |-> f[l[i]]]
        OBVIOUS
      <4>6. vals \in [1 .. n -> V]
        BY <2>3, <4>4, <4>5 DEF Recursion
      <4>7. vals \in Seq(V)
        <5>1. vals \in UNION {[1 .. k -> V] : k \in Nat}
          BY <4>3, <4>6
        <5> QED
          BY <5>1, SeqDef, Zenon
      <4>8. join[<<c.kind, vals>>] \in V
        BY <3>2, <4>7
      <4>9. [i \in DOMAIN l |-> g[l[i]]] = vals
        BY <2>7, <4>4, <4>5
      <4>10. g[c] = join[<<c.kind, vals>>]
        BY <2>6, <4>1, <4>2, <4>5
      <4> QED
        BY <4>1, <4>2, <4>8, <4>9, <4>10
    <3> QED
      BY <2>4, <3>1, <3>2
  <2>9. g \in [Q -> V]
    BY <2>6, <2>8
  <2>10. Recursion(g, Q, V, leaf, join)
    BY <2>8, <2>9 DEF Recursion
  <2> QED
    BY <1>2, <2>2, <2>10
<1> QED
  BY <1>3, <1>4

(* A condition that is no operator joins others. *)
LEMMA JoinsParts ==
  \A c \in Conditions :
     \/ c.kind = "op" /\ c \in CondOps
     \/ /\ c.kind # "op" /\ c.kind \in Joins /\ c.list \in Seq(Conditions)
        /\ c.kind = "not" => DOMAIN c.list = {1}
        /\ c = [kind |-> c.kind, list |-> c.list]
<1> SUFFICES ASSUME NEW c \in Conditions
             PROVE  \/ c.kind = "op" /\ c \in CondOps
                    \/ /\ c.kind # "op" /\ c.kind \in Joins /\ c.list \in Seq(Conditions)
                       /\ c.kind = "not" => DOMAIN c.list = {1}
                       /\ c = [kind |-> c.kind, list |-> c.list]
  OBVIOUS
<1>1. CASE c \in CondOps
  BY <1>1, OpsAreOps
<1>2. PICK P : P = Nested[Depth - 1]
  OBVIOUS
<1>3. P \subseteq Conditions
  BY <1>2, Shallower, NestedIs
<1>4. CASE /\ c.kind \in Joins /\ c.list \in Seq(P)
           /\ c.kind = "not" => DOMAIN c.list = {1}
           /\ c = [kind |-> c.kind, list |-> c.list]
  <2>1. c.list \in Seq(Conditions)
    BY <1>3, <1>4, SeqMonotonic, Zenon
  <2>2. c.kind # "op"
    BY <1>4 DEF Joins
  <2> QED
    BY <1>4, <2>1, <2>2
<1>5. c \in Nested[Depth] /\ Depth \in 1 .. Depth
  BY NestedIs
<1> QED
  BY <1>1, <1>2, <1>4, <1>5, PartsBelow

\* The function that Eval computes.
EvalFunction(h, req) ==
    h = [x \in Conditions |-> IF x.kind = "op" THEN EvalOp(x, req)
                              ELSE Joined(x.kind, {h[x.list[i]] : i \in DOMAIN x.list})]

(* Eval: an operator by itself, everything else from its parts. *)
LEMMA EvalIs ==
  ASSUME NEW req
  PROVE  \A c \in Conditions :
            Eval(c, req) = IF c.kind = "op" THEN EvalOp(c, req)
                           ELSE Joined(c.kind, {Eval(c.list[i], req) : i \in DOMAIN c.list})
<1>1. PICK V : V = {"true", "false", "unknown"} \cup {EvalOp(c, req) : c \in CondOps}
  OBVIOUS
<1>2. PICK leaf : leaf = [c \in CondOps |-> EvalOp(c, req)]
  OBVIOUS
<1>3. PICK join : join = [x \in Joins \X Seq(V) |-> Joined(x[1], {x[2][i] : i \in DOMAIN x[2]})]
  OBVIOUS
<1>4. leaf \in [CondOps -> V]
  BY <1>1, <1>2
<1>5. join \in [Joins \X Seq(V) -> V]
  <2>1. \A k \in Joins : \A subs : Joined(k, subs) \in V
    BY <1>1 DEF Joins, Joined
  <2> QED
    BY <1>3, <2>1
<1>6. PICK f : Recursion(f, Conditions, V, leaf, join)
  BY <1>4, <1>5, CondRecursion
<1>7. ASSUME NEW c \in Conditions
      PROVE  f[c] = IF c.kind = "op" THEN EvalOp(c, req)
                    ELSE Joined(c.kind, {f[c.list[i]] : i \in DOMAIN c.list})
  <2>1. CASE c.kind = "op"
    BY <1>2, <1>6, <2>1, JoinsParts DEF Recursion
  <2>2. CASE c.kind # "op"
    <3>1. PICK l : l = c.list
      OBVIOUS
    <3>2. l \in Seq(Conditions) /\ c.kind \in Joins
      BY <2>2, <3>1, JoinsParts
    <3>3. PICK vals : vals = [i \in DOMAIN l |-> f[l[i]]]
      OBVIOUS
    <3>4. vals \in Seq(V)
      <4>1. Len(l) \in Nat /\ l \in [1 .. Len(l) -> Conditions] /\ DOMAIN l = 1 .. Len(l)
        BY <3>2, LenProperties, Zenon
      <4>2. f \in [Conditions -> V]
        BY <1>6 DEF Recursion
      <4>3. vals \in [1 .. Len(l) -> V]
        BY <3>3, <4>1, <4>2
      <4>4. vals \in UNION {[1 .. k -> V] : k \in Nat}
        BY <4>1, <4>3
      <4> QED
        BY <4>4, SeqDef, Zenon
    <3>5. f[c] = join[<<c.kind, vals>>]
      BY <1>6, <2>2, <3>1, <3>3 DEF Recursion
    <3>6. join[<<c.kind, vals>>] = Joined(c.kind, {vals[i] : i \in DOMAIN vals})
      BY <1>3, <3>2, <3>4
    <3>7. {vals[i] : i \in DOMAIN vals} = {f[l[i]] : i \in DOMAIN l}
      BY <3>3
    <3> QED
      BY <2>2, <3>1, <3>5, <3>6, <3>7
  <2> QED
    BY <2>1, <2>2
<1>8. EvalFunction(f, req)
  <2>1. f = [x \in Conditions |-> f[x]]
    BY <1>6 DEF Recursion
  <2> QED
    BY <1>7, <2>1, Zenon DEF EvalFunction
<1>9. PICK truth : truth = CHOOSE h : EvalFunction(h, req)
  OBVIOUS
<1>10. EvalFunction(truth, req)
  <2>1. \E h : EvalFunction(h, req)
    BY <1>8
  <2> QED
    BY <1>9, <2>1, Zenon
<1>11. \A c : Eval(c, req) = truth[c]
  BY <1>9, Zenon DEF Eval, EvalFunction
<1> QED
  <2> SUFFICES ASSUME NEW c \in Conditions
               PROVE  Eval(c, req) = IF c.kind = "op" THEN EvalOp(c, req)
                           ELSE Joined(c.kind, {Eval(c.list[i], req) : i \in DOMAIN c.list})
    OBVIOUS
  <2>1. truth[c] = IF c.kind = "op" THEN EvalOp(c, req)
                   ELSE Joined(c.kind, {truth[c.list[i]] : i \in DOMAIN c.list})
    BY <1>10, Zenon DEF EvalFunction
  <2>2. {truth[c.list[i]] : i \in DOMAIN c.list} = {Eval(c.list[i], req) : i \in DOMAIN c.list}
    BY <1>11, Zenon
  <2> QED
    BY <1>11, <2>1, <2>2

(* There is a function that says of every condition whether some operator in
   it is one that `leaf' picks. *)
LEMMA SomeLeaf ==
  ASSUME NEW leaf \in [CondOps -> BOOLEAN]
  PROVE  \E f : /\ f \in [Conditions -> BOOLEAN]
                /\ \A c \in Conditions :
                     f[c] = IF c.kind = "op" THEN leaf[c]
                            ELSE \E i \in DOMAIN c.list : f[c.list[i]]
<1>1. PICK join : join = [x \in Joins \X Seq(BOOLEAN) |-> \E i \in DOMAIN x[2] : x[2][i]]
  OBVIOUS
<1>2. join \in [Joins \X Seq(BOOLEAN) -> BOOLEAN]
  BY <1>1
<1>3. PICK f : Recursion(f, Conditions, BOOLEAN, leaf, join)
  BY <1>2, CondRecursion
<1>4. f \in [Conditions -> BOOLEAN]
  BY <1>3 DEF Recursion
<1>5. ASSUME NEW c \in Conditions
      PROVE  f[c] = IF c.kind = "op" THEN leaf[c] ELSE \E i \in DOMAIN c.list : f[c.list[i]]
  <2>1. CASE c.kind = "op"
    BY <1>3, <2>1 DEF Recursion
  <2>2. CASE c.kind # "op"
    <3>1. PICK l : l = c.list
      OBVIOUS
    <3>2. l \in Seq(Conditions) /\ c.kind \in Joins
      BY <2>2, <3>1, JoinsParts
    <3>3. PICK vals : vals = [i \in DOMAIN l |-> f[l[i]]]
      OBVIOUS
    <3>4. vals \in Seq(BOOLEAN)
      <4>1. Len(l) \in Nat /\ l \in [1 .. Len(l) -> Conditions] /\ DOMAIN l = 1 .. Len(l)
        BY <3>2, LenProperties, Zenon
      <4>2. vals \in [1 .. Len(l) -> BOOLEAN]
        BY <1>4, <3>3, <4>1
      <4>3. vals \in UNION {[1 .. k -> BOOLEAN] : k \in Nat}
        BY <4>1, <4>2
      <4> QED
        BY <4>3, SeqDef, Zenon
    <3>5. f[c] = join[<<c.kind, vals>>]
      BY <1>3, <2>2, <3>1, <3>3 DEF Recursion
    <3>6. join[<<c.kind, vals>>] = \E i \in DOMAIN vals : vals[i]
      BY <1>1, <3>2, <3>4
    <3>7. (\E i \in DOMAIN vals : vals[i]) <=> (\E i \in DOMAIN l : f[l[i]])
      BY <3>3
    <3>8. f[c] <=> \E i \in DOMAIN l : f[l[i]]
      BY <3>5, <3>6, <3>7, Zenon
    <3>9. f[c] \in BOOLEAN
      BY <1>4
    <3> QED
      BY <2>2, <3>1, <3>8, <3>9, Zenon
  <2> QED
    BY <2>1, <2>2
<1> QED
  BY <1>4, <1>5

\* The function that ContextDependent computes.
DependsFunction(h) ==
    h = [x \in Conditions |->
            IF x.kind = "op"
            THEN \E i \in DOMAIN x.args : IsRef(x.args[i].ref) /\ x.args[i].ref[1] = "context"
            ELSE \E i \in DOMAIN x.list : h[x.list[i]]]

ReadsContext(c) == \E i \in DOMAIN c.args : IsRef(c.args[i].ref) /\ c.args[i].ref[1] = "context"

(* A condition depends on the context if some operator in it does. *)
LEMMA ContextDependentIs ==
  \A c \in Conditions :
     ContextDependent(c) <=> IF c.kind = "op" THEN ReadsContext(c)
                             ELSE \E i \in DOMAIN c.list : ContextDependent(c.list[i])
<1>1. PICK leaf : leaf = [c \in CondOps |-> ReadsContext(c)]
  OBVIOUS
<1>2. leaf \in [CondOps -> BOOLEAN]
  BY <1>1 DEF ReadsContext
<1>3. PICK f : /\ f \in [Conditions -> BOOLEAN]
               /\ \A c \in Conditions : f[c] = IF c.kind = "op" THEN leaf[c]
                                               ELSE \E i \in DOMAIN c.list : f[c.list[i]]
  BY <1>2, SomeLeaf
<1>4. \A c \in Conditions : f[c] = IF c.kind = "op" THEN ReadsContext(c)
                                   ELSE \E i \in DOMAIN c.list : f[c.list[i]]
  BY <1>1, <1>3, JoinsParts, Zenon
<1>5. DependsFunction(f)
  <2>1. f = [x \in Conditions |-> f[x]]
    BY <1>3
  <2> QED
    BY <1>4, <2>1, Zenon DEF DependsFunction, ReadsContext
<1>6. PICK g : g = CHOOSE h : DependsFunction(h)
  OBVIOUS
<1>7. DependsFunction(g)
  <2>1. \E h : DependsFunction(h)
    BY <1>5
  <2> QED
    BY <1>6, <2>1, Zenon
<1>8. \A c : ContextDependent(c) = g[c]
  BY <1>6, Zenon DEF ContextDependent, DependsFunction
<1> QED
  BY <1>7, <1>8, Zenon DEF DependsFunction, ReadsContext

\* The function that AsksForAbsence computes.
AsksFunction(h) ==
    h = [x \in Conditions |->
            IF x.kind = "op" THEN x.op = "exists" ELSE \E i \in DOMAIN x.list : h[x.list[i]]]

(* A condition asks for absence if some operator in it does. *)
LEMMA AsksForAbsenceIs ==
  \A c \in Conditions :
     AsksForAbsence(c) <=> IF c.kind = "op" THEN c.op = "exists"
                           ELSE \E i \in DOMAIN c.list : AsksForAbsence(c.list[i])
<1>1. PICK leaf : leaf = [c \in CondOps |-> c.op = "exists"]
  OBVIOUS
<1>2. leaf \in [CondOps -> BOOLEAN]
  BY <1>1
<1>3. PICK f : /\ f \in [Conditions -> BOOLEAN]
               /\ \A c \in Conditions : f[c] = IF c.kind = "op" THEN leaf[c]
                                               ELSE \E i \in DOMAIN c.list : f[c.list[i]]
  BY <1>2, SomeLeaf
<1>4. \A c \in Conditions : f[c] = IF c.kind = "op" THEN c.op = "exists"
                                   ELSE \E i \in DOMAIN c.list : f[c.list[i]]
  BY <1>1, <1>3, JoinsParts, Zenon
<1>5. AsksFunction(f)
  <2>1. f = [x \in Conditions |-> f[x]]
    BY <1>3
  <2> QED
    BY <1>4, <2>1, Zenon DEF AsksFunction
<1>6. PICK g : g = CHOOSE h : AsksFunction(h)
  OBVIOUS
<1>7. AsksFunction(g)
  <2>1. \E h : AsksFunction(h)
    BY <1>5
  <2> QED
    BY <1>6, <2>1, Zenon
<1>8. \A c : AsksForAbsence(c) = g[c]
  BY <1>6, Zenon DEF AsksForAbsence, AsksFunction
<1> QED
  BY <1>7, <1>8, Zenon DEF AsksFunction

(* An argument is read back as it was written. *)
LEMMA ArgKept == ASSUME NEW a, IsArg(a) PROVE ParseArg(MarshalArg(a)) = a
<1>1. PICK raw : raw = MarshalArg(a)
  OBVIOUS
<1>2. CASE a = Lit(a.lit)
  <2>1. a.ref = <<>>
    BY <1>2 DEF Lit
  <2>2. raw = [wrapped |-> a.lit.t = "str" /\ IsRef(a.lit.v), json |-> a.lit]
    BY <1>1, <2>1, Zenon DEF MarshalArg
  <2>3. raw.json = a.lit /\ (raw.wrapped <=> (a.lit.t = "str" /\ IsRef(a.lit.v)))
    BY <2>2, Zenon
  <2>4. ParseArg(raw) = Lit(a.lit)
    BY <2>3, Zenon DEF ParseArg
  <2> QED
    BY <1>1, <1>2, <2>4
<1>3. CASE a = Ref(a.ref) /\ IsRef(a.ref)
  <2>1. a.ref # <<>>
    BY <1>3 DEF IsRef
  <2>2. raw = [wrapped |-> FALSE, json |-> Val("str", a.ref)]
    BY <1>1, <2>1, Zenon DEF MarshalArg
  <2>3. ~raw.wrapped /\ raw.json.t = "str" /\ raw.json.v = a.ref
    BY <2>2 DEF Val
  <2>4. ParseArg(raw) = Ref(a.ref)
    BY <1>3, <2>3, Zenon DEF ParseArg
  <2> QED
    BY <1>1, <1>3, <2>4
<1> QED
  BY <1>2, <1>3 DEF IsArg

\* The function that Stored computes.
BackFunction(h) ==
    h = [x \in Conditions |->
            IF x.kind = "op"
            THEN [x EXCEPT !.args = [i \in DOMAIN x.args |-> ParseArg(MarshalArg(x.args[i]))]]
            ELSE [x EXCEPT !.list = [i \in DOMAIN x.list |-> h[x.list[i]]]]]

(* A condition comes back from the database as it was written. *)
LEMMA StoredIs == \A c \in Conditions : Stored(c) = c
<1>1. ASSUME NEW c \in Conditions, c.kind = "op"
      PROVE  [c EXCEPT !.args = [i \in DOMAIN c.args |-> ParseArg(MarshalArg(c.args[i]))]] = c
  <2>0. c \in CondOps
    BY <1>1, JoinsParts
  <2>1. PICK a : a = c.args
    OBVIOUS
  <2>2. c = [kind |-> "op", op |-> c.op, args |-> a] /\ a \in Seq({a[i] : i \in DOMAIN a})
    BY <2>0, <2>1, OpsAreOps, Zenon
  <2>3. \A i \in DOMAIN a : ParseArg(MarshalArg(a[i])) = a[i]
    BY <2>0, <2>1, OpsAreOps, ArgKept, Zenon
  <2>4. a = [i \in DOMAIN a |-> a[i]]
    <3>1. PICK T : T = {a[i] : i \in DOMAIN a}
      OBVIOUS
    <3>2. a \in [1 .. Len(a) -> T] /\ DOMAIN a = 1 .. Len(a)
      BY <2>2, <3>1, LenProperties, Zenon
    <3> QED
      BY <3>2
  <2>5. [i \in DOMAIN a |-> ParseArg(MarshalArg(a[i]))] = a
    BY <2>3, <2>4, Zenon
  <2>6. [c EXCEPT !.args = a] = c
    BY <2>2
  <2> QED
    BY <2>1, <2>5, <2>6, Zenon
<1>2. ASSUME NEW c \in Conditions, c.kind # "op", NEW h, \A i \in DOMAIN c.list : h[c.list[i]] = c.list[i]
      PROVE  [c EXCEPT !.list = [i \in DOMAIN c.list |-> h[c.list[i]]]] = c
  <2>1. PICK l : l = c.list
    OBVIOUS
  <2>2. c = [kind |-> c.kind, list |-> l] /\ l \in Seq(Conditions)
    BY <1>2, <2>1, JoinsParts
  <2>3. l = [i \in DOMAIN l |-> l[i]]
    <3>1. l \in [1 .. Len(l) -> Conditions] /\ DOMAIN l = 1 .. Len(l)
      BY <2>2, LenProperties, Zenon
    <3> QED
      BY <3>1
  <2>4. [i \in DOMAIN l |-> h[l[i]]] = l
    BY <1>2, <2>1, <2>3, Zenon
  <2>5. [c EXCEPT !.list = l] = c
    BY <2>2
  <2> QED
    BY <2>1, <2>4, <2>5, Zenon
<1>3. PICK f : f = [x \in Conditions |-> x]
  OBVIOUS
<1>4. BackFunction(f)
  <2>1. ASSUME NEW x \in Conditions
        PROVE  x = IF x.kind = "op"
                   THEN [x EXCEPT !.args = [i \in DOMAIN x.args |-> ParseArg(MarshalArg(x.args[i]))]]
                   ELSE [x EXCEPT !.list = [i \in DOMAIN x.list |-> f[x.list[i]]]]
    <3>1. CASE x.kind = "op"
      BY <1>1, <3>1, Zenon
    <3>2. CASE x.kind # "op"
      <4>1. PICK l : l = x.list
        OBVIOUS
      <4>2. l \in [1 .. Len(l) -> Conditions] /\ DOMAIN l = 1 .. Len(l)
        BY <3>2, <4>1, JoinsParts, LenProperties, Zenon
      <4>3. \A i \in DOMAIN l : f[l[i]] = l[i]
        BY <1>3, <4>2
      <4>4. \A i \in DOMAIN x.list : f[x.list[i]] = x.list[i]
        BY <4>1, <4>3, Zenon
      <4>5. [x EXCEPT !.list = [i \in DOMAIN x.list |-> f[x.list[i]]]] = x
        BY <1>2, <3>2, <4>4, Zenon
      <4> QED
        BY <3>2, <4>5, Zenon
    <3> QED
      BY <3>1, <3>2
  <2> QED
    BY <1>3, <2>1, Zenon DEF BackFunction
<1>5. PICK g : g = CHOOSE h : BackFunction(h)
  OBVIOUS
<1>6. BackFunction(g)
  <2>1. \E h : BackFunction(h)
    BY <1>4
  <2> QED
    BY <1>5, <2>1, Zenon
<1>7. \A c : Stored(c) = g[c]
  BY <1>5, Zenon DEF Stored, BackFunction
<1>8. PICK S : S = {c \in Conditions : g[c] = c}
  OBVIOUS
<1>9. CondOps \subseteq S
  <2>1. \A c \in CondOps : c \in Conditions /\ c.kind = "op"
    BY OpsAreConds, OpsAreOps, Zenon
  <2> QED
    BY <1>1, <1>6, <1>8, <2>1, Zenon DEF BackFunction
<1>10. ASSUME NEW c \in Conditions, c.kind \in Joins, c.list \in Seq(S) PROVE c \in S
  <2>1. PICK l : l = c.list
    OBVIOUS
  <2>2. l \in [1 .. Len(l) -> S] /\ DOMAIN l = 1 .. Len(l)
    BY <1>10, <2>1, LenProperties, Zenon
  <2>3. \A i \in DOMAIN l : g[l[i]] = l[i]
    BY <1>8, <2>2
  <2>4. c.kind # "op"
    BY <1>10 DEF Joins
  <2>0. \A i \in DOMAIN c.list : g[c.list[i]] = c.list[i]
    BY <2>1, <2>3, Zenon
  <2>5. [c EXCEPT !.list = [i \in DOMAIN c.list |-> g[c.list[i]]]] = c
    BY <1>2, <1>10, <2>0, <2>4, Zenon
  <2>6. g[c] = c
    BY <1>6, <2>4, <2>5, Zenon DEF BackFunction
  <2> QED
    BY <1>8, <2>6
<1>11. Conditions \subseteq S
  BY <1>9, <1>10, CondInduction
<1> QED
  BY <1>7, <1>8, <1>11

(* The engine is compiled from the rules as their author wrote them. *)
LEMMA EngineAsWritten ==
  ASSUME rules \in Policies PROVE Engine = Compile(BuiltinRoles, rules)
<1>1. ASSUME NEW p \in rules PROVE Reloaded(p) = p
  <2>1. IsPolicy(p)
    BY EngineAssumption
  <2>2. PICK c : c = p.condition
    OBVIOUS
  <2>3. c \in Conditions \cup {NoCondition}
    BY <2>1, <2>2 DEF IsPolicy
  <2>4. (IF c = NoCondition THEN c ELSE Stored(c)) = c
    BY <2>3, StoredIs
  <2>5. [p EXCEPT !.condition = c] = p
    <3>1. PICK e, n, s, a, r : p = [effect |-> e, enabled |-> n, subject |-> s, actions |-> a,
                                    resource |-> r, condition |-> c]
      BY <2>1, <2>2, Zenon DEF IsPolicy
    <3> QED
      BY <3>1
  <2>6. Reloaded(p) = [p EXCEPT !.condition = IF c = NoCondition THEN c ELSE Stored(c)]
    BY <2>2, Zenon DEF Reloaded
  <2> QED
    BY <2>4, <2>5, <2>6, Zenon
<1>2. {Reloaded(p) : p \in rules} = rules
  BY <1>1
<1> QED
  BY <1>2, Zenon DEF Engine

\* The references that are resolved by name.
SubjectRefs == {<<"subject", "id">>, <<"subject", "kind">>, <<"subject", "roles">>,
                <<"subject", "teams">>, <<"subject", "managed_by">>}
ResourceRefs == {<<"resource", "type">>, <<"resource", "id">>, <<"resource", "owner">>,
                 <<"resource", "team">>}
CountedRefs == {<<"context", "via_upstream">>, <<"context", "prompt_tokens">>}
FixedRefs == SubjectRefs \cup ResourceRefs \cup CountedRefs

Given(text) == IF text = <<>> THEN Nothing ELSE Val("str", text)

(* The value of each reference that is resolved by name. *)
LEMMA NamedRefs ==
  ASSUME NEW o
  PROVE  /\ Resolve(<<"subject", "id">>, o) = Given(o.subject.id)
         /\ Resolve(<<"subject", "kind">>, o) = Given(Name(o.subject.kind))
         /\ Resolve(<<"subject", "roles">>, o) = Val("list", ListOf({<<b.role>> : b \in o.subject.bindings}))
         /\ Resolve(<<"subject", "teams">>, o) = Val("list", ListOf({<<t>> : t \in o.subject.teams}))
         /\ Resolve(<<"subject", "managed_by">>, o) = Val("str", o.subject.managedBy)
         /\ Resolve(<<"resource", "type">>, o) = Given(Name(o.resource.type))
         /\ Resolve(<<"resource", "id">>, o) = Given(o.resource.id)
         /\ Resolve(<<"resource", "owner">>, o) = Given(o.resource.owner)
         /\ Resolve(<<"resource", "team">>, o) = Given(Name(o.resource.team))
         /\ Resolve(<<"context", "via_upstream">>, o) = Val("bool", FALSE)
         /\ Resolve(<<"context", "prompt_tokens">>, o) = Val("num", o.promptTokens)
<1>1. Resolve(<<"subject", "id">>, o) = Given(o.subject.id)
  BY Zenon DEF Resolve, Given
<1>2. Resolve(<<"subject", "kind">>, o) = Given(Name(o.subject.kind))
  BY Zenon DEF Resolve, Given
<1>3. Resolve(<<"subject", "roles">>, o) = Val("list", ListOf({<<b.role>> : b \in o.subject.bindings}))
  BY Zenon DEF Resolve, Given
<1>4. Resolve(<<"subject", "teams">>, o) = Val("list", ListOf({<<t>> : t \in o.subject.teams}))
  BY Zenon DEF Resolve, Given
<1>5. Resolve(<<"subject", "managed_by">>, o) = Val("str", o.subject.managedBy)
  BY Zenon DEF Resolve, Given
<1>6. Resolve(<<"resource", "type">>, o) = Given(Name(o.resource.type))
  BY Zenon DEF Resolve, Given
<1>7. Resolve(<<"resource", "id">>, o) = Given(o.resource.id)
  BY Zenon DEF Resolve, Given
<1>8. Resolve(<<"resource", "owner">>, o) = Given(o.resource.owner)
  BY Zenon DEF Resolve, Given
<1>9. Resolve(<<"resource", "team">>, o) = Given(Name(o.resource.team))
  BY Zenon DEF Resolve, Given
<1>10. Resolve(<<"context", "via_upstream">>, o) = Val("bool", FALSE)
  BY Zenon DEF Resolve, Given
<1>11. Resolve(<<"context", "prompt_tokens">>, o) = Val("num", o.promptTokens)
  BY Zenon DEF Resolve, Given
<1> QED
  BY <1>1, <1>2, <1>3, <1>4, <1>5, <1>6, <1>7, <1>8, <1>9, <1>10, <1>11, Zenon

(* Requests that agree on everything named have the same attributes by name. *)
LEMMA FixedRefsAlike ==
  ASSUME NEW p, NEW q, q.resource = p.resource,
         q.subject.id = p.subject.id, q.subject.kind = p.subject.kind,
         q.subject.bindings = p.subject.bindings, q.subject.teams = p.subject.teams,
         q.subject.managedBy = p.subject.managedBy,
         NEW ref \in FixedRefs, ref = <<"context", "prompt_tokens">> => q.promptTokens = p.promptTokens
  PROVE  Resolve(ref, q) = Resolve(ref, p)
<1>1. CASE ref \in SubjectRefs
  BY <1>1, NamedRefs, ZenonT(40) DEF SubjectRefs
<1>2. CASE ref \in ResourceRefs
  BY <1>2, NamedRefs, ZenonT(40) DEF ResourceRefs
<1>3. CASE ref \in CountedRefs
  BY <1>3, NamedRefs, ZenonT(40) DEF CountedRefs
<1> QED
  BY <1>1, <1>2, <1>3, Zenon DEF FixedRefs

\* The references to the attributes of a subject.
IsAttr(ref) == Len(ref) = 3 /\ ref[1] = "subject" /\ ref[2] = "attrs"

(* How an attribute of the subject is resolved. *)
LEMMA AttrRefs ==
  ASSUME NEW ref, IsAttr(ref), NEW o
  PROVE  Resolve(ref, o) = IF ref[3] \in DOMAIN o.subject.attrs
                           THEN Val("str", o.subject.attrs[ref[3]]) ELSE Nothing
<1>1. /\ ref # <<"subject", "id">> /\ ref # <<"subject", "kind">> /\ ref # <<"subject", "roles">>
      /\ ref # <<"subject", "teams">> /\ ref # <<"subject", "managed_by">>
      /\ ref # <<"resource", "type">> /\ ref # <<"resource", "id">>
      /\ ref # <<"resource", "owner">> /\ ref # <<"resource", "team">>
      /\ ref # <<"context", "via_upstream">> /\ ref # <<"context", "prompt_tokens">>
  BY DEF IsAttr
<1> QED
  BY <1>1, Zenon DEF Resolve, IsAttr

(* How the references that have no name in the code are resolved. *)
LEMMA OtherRefs ==
  ASSUME NEW ref, ~IsAttr(ref), ref \notin FixedRefs, NEW o
  PROVE  Resolve(ref, o) = IF ref \in DOMAIN o.attrs THEN o.attrs[ref] ELSE Nothing
<1>1. /\ ref # <<"subject", "id">> /\ ref # <<"subject", "kind">> /\ ref # <<"subject", "roles">>
      /\ ref # <<"subject", "teams">> /\ ref # <<"subject", "managed_by">>
      /\ ref # <<"resource", "type">> /\ ref # <<"resource", "id">>
      /\ ref # <<"resource", "owner">> /\ ref # <<"resource", "team">>
      /\ ref # <<"context", "via_upstream">> /\ ref # <<"context", "prompt_tokens">>
  BY Zenon DEF FixedRefs, SubjectRefs, ResourceRefs, CountedRefs
<1> QED
  BY <1>1, Zenon DEF Resolve, IsAttr

(* What one request carries, one that carries more carries too. *)
LEMMA ResolveGrows ==
  ASSUME NEW p, NEW q, IsSubject(p.subject), CarriesMore(q, p),
         NEW ref, Resolve(ref, p).t # "none"
  PROVE  Resolve(ref, q) = Resolve(ref, p)
<1>1. PICK s, z : s = p.subject /\ z = q.subject
  OBVIOUS
<1>2. z = [s EXCEPT !.attrs = z.attrs, !.rev = z.rev]
  BY <1>1, Zenon DEF CarriesMore
<1>3. q.resource = p.resource /\ q.promptTokens = p.promptTokens
  BY DEF CarriesMore
<1>4. /\ z.id = s.id /\ z.kind = s.kind /\ z.bindings = s.bindings /\ z.teams = s.teams
      /\ z.managedBy = s.managedBy
  <2>1. PICK id, kind, bindings, teams, managedBy, attrs, rev :
           s = [id |-> id, kind |-> kind, bindings |-> bindings, teams |-> teams,
                managedBy |-> managedBy, attrs |-> attrs, rev |-> rev]
    BY <1>1, Zenon DEF IsSubject
  <2> QED
    BY <1>2, <2>1
<1>5. CASE IsAttr(ref)
  <2>1. ref[3] \in DOMAIN p.subject.attrs
    BY <1>5, AttrRefs DEF Nothing, Val
  <2>2. ref[3] \in DOMAIN q.subject.attrs /\ q.subject.attrs[ref[3]] = p.subject.attrs[ref[3]]
    BY <2>1 DEF CarriesMore
  <2> QED
    BY <1>5, <2>1, <2>2, AttrRefs, Zenon
<1>6. CASE ~IsAttr(ref) /\ ref \notin FixedRefs
  <2>1. ref \in DOMAIN p.attrs
    BY <1>6, OtherRefs DEF Nothing, Val
  <2>2. ref \in DOMAIN q.attrs /\ q.attrs[ref] = p.attrs[ref]
    BY <2>1 DEF CarriesMore
  <2> QED
    BY <1>6, <2>1, <2>2, OtherRefs, Zenon
<1>7. CASE ref \in FixedRefs
  BY <1>1, <1>3, <1>4, <1>7, FixedRefsAlike, Zenon
<1> QED
  BY <1>5, <1>6, <1>7

(* An operator that does not ask for absence keeps its answer when more is
   carried. *)
LEMMA EvalOpGrows ==
  ASSUME NEW p, NEW q, IsSubject(p.subject), CarriesMore(q, p),
         NEW c, c.op # "exists", EvalOp(c, p) # "unknown"
  PROVE  EvalOp(c, q) = EvalOp(c, p)
<1>1. \A i \in DOMAIN c.args : ArgValue(c.args[i], p).t # "none"
  BY Zenon DEF EvalOp
<1>2. \A i \in DOMAIN c.args : ArgValue(c.args[i], q) = ArgValue(c.args[i], p)
  BY <1>1, ResolveGrows, Zenon DEF ArgValue
<1>3. [i \in DOMAIN c.args |-> ArgValue(c.args[i], q)] = [i \in DOMAIN c.args |-> ArgValue(c.args[i], p)]
  BY <1>2, Zenon
<1>4. \A o : (\A i \in DOMAIN c.args : ArgValue(c.args[i], o).t # "none") =>
                EvalOp(c, o) = Apply(c.op, [i \in DOMAIN c.args |-> ArgValue(c.args[i], o)])
  BY Zenon DEF EvalOp
<1> QED
  BY <1>1, <1>2, <1>3, <1>4, Zenon

(* So does a condition. *)
LEMMA EvalGrows ==
  ASSUME NEW p, NEW q, IsSubject(p.subject), CarriesMore(q, p)
  PROVE  \A c \in Conditions : ~AsksForAbsence(c) /\ Eval(c, p) # "unknown" => Eval(c, q) = Eval(c, p)
<1>1. PICK S : S = {c \in Conditions : ~AsksForAbsence(c) /\ Eval(c, p) # "unknown" =>
                                          Eval(c, q) = Eval(c, p)}
  OBVIOUS
<1>2. ASSUME NEW c \in CondOps PROVE c \in S
  <2>1. c \in Conditions /\ c.kind = "op"
    BY OpsAreConds, OpsAreOps, Zenon
  <2>2. (AsksForAbsence(c) <=> c.op = "exists") /\ Eval(c, p) = EvalOp(c, p) /\ Eval(c, q) = EvalOp(c, q)
    BY <2>1, AsksForAbsenceIs, EvalIs, Zenon
  <2> QED
    BY <1>1, <2>1, <2>2, EvalOpGrows, Zenon
<1>3. ASSUME NEW c \in Conditions, c.kind \in Joins, c.list \in Seq(S),
             ~AsksForAbsence(c), Eval(c, p) # "unknown"
      PROVE  Eval(c, q) = Eval(c, p)
  <2>1. PICK l : l = c.list
    OBVIOUS
  <2>2. \A i \in DOMAIN l : l[i] \in S
    <3>1. l \in [1 .. Len(l) -> S] /\ DOMAIN l = 1 .. Len(l)
      BY <1>3, <2>1, LenProperties, Zenon
    <3> QED
      BY <3>1
  <2>3. c.kind # "op"
    BY <1>3 DEF Joins
  <2>4. \A i \in DOMAIN l : ~AsksForAbsence(l[i])
    BY <1>3, <2>1, <2>3, AsksForAbsenceIs, Zenon
  <2>5. PICK v, w : v = [i \in DOMAIN l |-> Eval(l[i], p)] /\ w = [i \in DOMAIN l |-> Eval(l[i], q)]
    OBVIOUS
  <2>6. \A i \in DOMAIN l : v[i] # "unknown" => w[i] = v[i]
    BY <1>1, <2>2, <2>4, <2>5
  <2>7. /\ Eval(c, p) = Joined(c.kind, {v[i] : i \in DOMAIN l})
        /\ Eval(c, q) = Joined(c.kind, {w[i] : i \in DOMAIN l})
    <3>1. /\ {Eval(l[i], p) : i \in DOMAIN l} = {v[i] : i \in DOMAIN l}
          /\ {Eval(l[i], q) : i \in DOMAIN l} = {w[i] : i \in DOMAIN l}
      BY <2>5
    <3>2. \A o : Eval(c, o) = Joined(c.kind, {Eval(c.list[i], o) : i \in DOMAIN c.list})
      BY <1>3, <2>3, EvalIs, Zenon
    <3> QED
      BY <2>1, <3>1, <3>2
  <2>8. c.kind = "not" => DOMAIN l = {1}
    BY <1>3, <2>1, <2>3, JoinsParts, Zenon
  <2>9. PICK D, k, sp, sq : /\ D = DOMAIN l /\ k = c.kind
                              /\ sp = {v[i] : i \in D} /\ sq = {w[i] : i \in D}
    OBVIOUS
  <2>10. k \in Joins /\ (k = "not" => D = {1}) /\ Joined(k, sp) # "unknown"
    BY <1>3, <2>7, <2>8, <2>9
  <2>11. /\ \A i \in D : v[i] # "unknown" => w[i] = v[i]
         /\ \A x : x \in sp <=> \E i \in D : x = v[i]
         /\ \A x : x \in sq <=> \E i \in D : x = w[i]
    BY <2>6, <2>9
  <2>12. Joined(k, sq) = Joined(k, sp)
    <3>1. CASE k = "all"
      <4>1. CASE "false" \in sp
        <5>1. "false" \in sq
          BY <2>11, <4>1
        <5> QED
          BY <3>1, <4>1, <5>1 DEF Joined
      <4>2. CASE "false" \notin sp
        <5>1. "unknown" \notin sp
          BY <2>10, <3>1, <4>2 DEF Joined
        <5>2. \A x : x \in sq <=> x \in sp
          BY <2>11, <5>1
        <5> QED
          BY <3>1, <5>2 DEF Joined
      <4> QED
        BY <4>1, <4>2
    <3>2. CASE k = "any"
      <4>1. CASE "true" \in sp
        <5>1. "true" \in sq
          BY <2>11, <4>1
        <5> QED
          BY <3>2, <4>1, <5>1 DEF Joined
      <4>2. CASE "true" \notin sp
        <5>1. "unknown" \notin sp
          BY <2>10, <3>2, <4>2 DEF Joined
        <5>2. \A x : x \in sq <=> x \in sp
          BY <2>11, <5>1
        <5> QED
          BY <3>2, <5>2 DEF Joined
      <4> QED
        BY <4>1, <4>2
    <3>3. CASE k = "not"
      <4>1. \A x : (x \in sp <=> x = v[1]) /\ (x \in sq <=> x = w[1])
        BY <2>10, <2>11, <3>3
      <4>2. v[1] # "unknown"
        BY <2>10, <3>3, <4>1 DEF Joined
      <4>3. w[1] = v[1]
        BY <2>10, <2>11, <3>3, <4>2
      <4> QED
        BY <3>3, <4>1, <4>3 DEF Joined
    <3> QED
      BY <2>10, <3>1, <3>2, <3>3 DEF Joins
  <2> QED
    BY <2>7, <2>9, <2>12
<1>4. Conditions \subseteq S
  BY <1>1, <1>2, <1>3, CondInduction
<1> QED
  BY <1>1, <1>4, Zenon

\* Two requests that differ in their context only.
SameButContext(o, p) ==
    /\ o.subject = p.subject /\ o.resource = p.resource
    /\ \A ref \in DOMAIN o.attrs \cup DOMAIN p.attrs : ref[1] = "context"

(* They carry the same under every reference to the subject or the resource. *)
LEMMA ResolveAlike ==
  ASSUME NEW p, NEW o, SameButContext(o, p), NEW ref, ref[1] # "context"
  PROVE  Resolve(ref, o) = Resolve(ref, p)
<1>1. o.subject = p.subject /\ o.resource = p.resource
  BY DEF SameButContext
<1>2. CASE IsAttr(ref)
  BY <1>1, <1>2, AttrRefs, Zenon
<1>3. CASE ~IsAttr(ref) /\ ref \notin FixedRefs
  <2>1. ref \notin DOMAIN o.attrs /\ ref \notin DOMAIN p.attrs
    BY Zenon DEF SameButContext
  <2> QED
    BY <1>3, <2>1, OtherRefs, Zenon
<1>4. CASE ref \in FixedRefs
  <2>1. ref # <<"context", "prompt_tokens">>
    OBVIOUS
  <2> QED
    BY <1>1, <1>4, <2>1, FixedRefsAlike, Zenon
<1> QED
  BY <1>2, <1>3, <1>4

(* An operator that does not read the context answers both alike. *)
LEMMA EvalOpAlike ==
  ASSUME NEW p, NEW o, SameButContext(o, p), NEW c \in CondOps, ~ReadsContext(c)
  PROVE  EvalOp(c, o) = EvalOp(c, p)
<1>1. ASSUME NEW i \in DOMAIN c.args PROVE ArgValue(c.args[i], o) = ArgValue(c.args[i], p)
  <2>1. PICK a : a = c.args[i]
    OBVIOUS
  <2>2. IsArg(a)
    BY <2>1, OpsAreOps, Zenon
  <2>3. CASE a.ref = <<>>
    BY <2>1, <2>3, Zenon DEF ArgValue
  <2>4. CASE a.ref # <<>>
    <3>1. IsRef(a.ref)
      BY <2>2, <2>4 DEF IsArg, Lit
    <3>2. a.ref[1] # "context"
      BY <2>1, <3>1, Zenon DEF ReadsContext
    <3> QED
      BY <2>1, <2>4, <3>2, ResolveAlike, Zenon DEF ArgValue
  <2> QED
    BY <2>3, <2>4
<1>2. [i \in DOMAIN c.args |-> ArgValue(c.args[i], o)] = [i \in DOMAIN c.args |-> ArgValue(c.args[i], p)]
  BY <1>1, Zenon
<1>3. (\E i \in DOMAIN c.args : ArgValue(c.args[i], o).t = "none") <=>
      (\E i \in DOMAIN c.args : ArgValue(c.args[i], p).t = "none")
  BY <1>1, Zenon
<1> QED
  BY <1>2, <1>3, Zenon DEF EvalOp

(* So does a condition. *)
LEMMA EvalAlike ==
  ASSUME NEW p, NEW o, SameButContext(o, p)
  PROVE  \A c \in Conditions : ~ContextDependent(c) => Eval(c, o) = Eval(c, p)
<1>1. PICK S : S = {c \in Conditions : ~ContextDependent(c) => Eval(c, o) = Eval(c, p)}
  OBVIOUS
<1>2. ASSUME NEW c \in CondOps PROVE c \in S
  <2>1. c \in Conditions /\ c.kind = "op"
    BY OpsAreConds, OpsAreOps, Zenon
  <2>2. (ContextDependent(c) <=> ReadsContext(c)) /\ Eval(c, p) = EvalOp(c, p) /\ Eval(c, o) = EvalOp(c, o)
    BY <2>1, ContextDependentIs, EvalIs, Zenon
  <2> QED
    BY <1>1, <2>1, <2>2, EvalOpAlike, Zenon
<1>3. ASSUME NEW c \in Conditions, c.kind \in Joins, c.list \in Seq(S), ~ContextDependent(c)
      PROVE  Eval(c, o) = Eval(c, p)
  <2>1. PICK l : l = c.list
    OBVIOUS
  <2>2. \A i \in DOMAIN l : l[i] \in S
    <3>1. l \in [1 .. Len(l) -> S] /\ DOMAIN l = 1 .. Len(l)
      BY <1>3, <2>1, LenProperties, Zenon
    <3> QED
      BY <3>1
  <2>3. c.kind # "op"
    BY <1>3 DEF Joins
  <2>4. \A i \in DOMAIN l : ~ContextDependent(l[i])
    BY <1>3, <2>1, <2>3, ContextDependentIs, Zenon
  <2>5. {Eval(c.list[i], o) : i \in DOMAIN c.list} = {Eval(c.list[i], p) : i \in DOMAIN c.list}
    <3>1. \A i \in DOMAIN l : Eval(l[i], o) = Eval(l[i], p)
      BY <1>1, <2>2, <2>4
    <3> QED
      BY <2>1, <3>1, Zenon
  <2>6. /\ Eval(c, o) = Joined(c.kind, {Eval(c.list[i], o) : i \in DOMAIN c.list})
        /\ Eval(c, p) = Joined(c.kind, {Eval(c.list[i], p) : i \in DOMAIN c.list})
    BY <1>3, <2>3, EvalIs, Zenon
  <2> QED
    BY <2>5, <2>6, Zenon
<1>4. Conditions \subseteq S
  BY <1>1, <1>2, <1>3, CondInduction
<1> QED
  BY <1>1, <1>4, Zenon

\* The parts of a decision.
Denied(e, req) == \E r \in e.policies : /\ r.effect = "deny" /\ req.action \in r.actions
                                        /\ Applies(r, req) # "false"
Granted(e, req) ==
    IF req.action = "client.use" THEN SharingAdmits(req.subject, req.resource)
    ELSE \E r \in e.policies : /\ r.effect = "allow" /\ req.action \in r.actions
                               /\ Applies(r, req) = "true"
Decision(e, req) ==
    /\ req.action \in Catalogue
    /\ ~Denied(e, req)
    /\ IF req.action \in GrantActions THEN RoleAllows(e, req) /\ Granted(e, req)
       ELSE RoleAllows(e, req) \/ Granted(e, req)

(* A decision is made of its parts. *)
LEMMA DecisionIs ==
  ASSUME NEW e, NEW req
  PROVE  (DecideAfresh(e, req) <=> Decision(e, req)) /\ DecideAfresh(e, req) \in BOOLEAN
<1>1. \A f, t : (\E r \in {r \in e.policies : r.effect = f /\ req.action \in r.actions} : Applies(r, req) = t)
                <=> (\E r \in e.policies : r.effect = f /\ req.action \in r.actions /\ Applies(r, req) = t)
  OBVIOUS
<1>2. \A f, t : (\E r \in {r \in e.policies : r.effect = f /\ req.action \in r.actions} : Applies(r, req) # t)
                <=> (\E r \in e.policies : r.effect = f /\ req.action \in r.actions /\ Applies(r, req) # t)
  OBVIOUS
<1>3. DecideAfresh(e, req) <=> Decision(e, req)
  BY <1>1, <1>2, Zenon DEF DecideAfresh, Decision, Denied, Granted
<1>4. DecideAfresh(e, req) \in BOOLEAN
  BY Zenon DEF DecideAfresh
<1> QED
  BY <1>3, <1>4

(* The decision is the same for both if no rule about the action reads the
   context: the memo may answer one with what was decided of the other. *)
LEMMA DecisionAlike ==
  ASSUME NEW p, NEW o, SameButContext(o, p), o.action = p.action, NEW e,
         \A r \in e.policies : r.condition \in Conditions \cup {NoCondition},
         \A r \in e.policies : p.action \in r.actions /\ r.condition # NoCondition
                                  => ~ContextDependent(r.condition)
  PROVE  DecideAfresh(e, o) = DecideAfresh(e, p)
<1>1. o.subject = p.subject /\ o.resource = p.resource
  BY DEF SameButContext
<1>2. ASSUME NEW r \in e.policies, p.action \in r.actions
      PROVE  Applies(r, o) = Applies(r, p)
  <2>1. r.condition # NoCondition => Eval(r.condition, o) = Eval(r.condition, p)
    BY <1>2, EvalAlike, Zenon
  <2> QED
    BY <1>1, <2>1, Zenon DEF Applies
<1>3. RoleAllows(e, o) = RoleAllows(e, p)
  BY <1>1, Zenon DEF RoleAllows
<1>4. Denied(e, o) <=> Denied(e, p)
  BY <1>2, Zenon DEF Denied
<1>5. Granted(e, o) <=> Granted(e, p)
  BY <1>1, <1>2, Zenon DEF Granted
<1>6. \A q : DecideAfresh(e, q) <=> Decision(e, q)
  BY DecisionIs, Zenon
<1>7. Decision(e, o) <=> Decision(e, p)
  BY <1>3, <1>4, <1>5, Zenon DEF Decision
<1>8. DecideAfresh(e, o) \in BOOLEAN /\ DecideAfresh(e, p) \in BOOLEAN
  BY DecisionIs, Zenon
<1>9. DecideAfresh(e, o) <=> DecideAfresh(e, p)
  BY <1>6, <1>7, Zenon
<1> QED
  BY <1>8, <1>9

(* What is allowed stays allowed when more is carried, by rules that do not
   select by attributes or ask for absence. *)
LEMMA DecisionGrows ==
  ASSUME NEW p, NEW q, IsSubject(p.subject), CarriesMore(q, p), NEW e,
         \A r \in e.policies : r.condition \in Conditions \cup {NoCondition},
         \A r \in e.policies : /\ r.subject.attrs = <<>>
                               /\ r.condition # NoCondition => ~AsksForAbsence(r.condition),
         DecideAfresh(e, p)
  PROVE  DecideAfresh(e, q)
<1>1. PICK s, z : s = p.subject /\ z = q.subject
  OBVIOUS
<1>2. /\ z.id = s.id /\ z.kind = s.kind /\ z.bindings = s.bindings /\ z.teams = s.teams
  <2>1. PICK id, kind, bindings, teams, managedBy, attrs, rev :
           s = [id |-> id, kind |-> kind, bindings |-> bindings, teams |-> teams,
                managedBy |-> managedBy, attrs |-> attrs, rev |-> rev]
    BY <1>1, Zenon DEF IsSubject
  <2>2. z = [s EXCEPT !.attrs = z.attrs, !.rev = z.rev]
    BY <1>1, Zenon DEF CarriesMore
  <2> QED
    BY <2>1, <2>2
<1>3. q.action = p.action /\ q.resource = p.resource
  BY DEF CarriesMore
<1>4. ASSUME NEW r \in e.policies
      PROVE  SubjectMatches(r.subject, z) <=> SubjectMatches(r.subject, s)
  <2>1. PICK m : m = r.subject
    OBVIOUS
  <2>2. DOMAIN m.attrs = {}
    BY <2>1
  <2> QED
    BY <1>2, <2>1, <2>2, Zenon DEF SubjectMatches, HasTeam
<1>5. ASSUME NEW r \in e.policies, Applies(r, p) # "unknown"
      PROVE  Applies(r, q) = Applies(r, p)
  <2>1. ASSUME r.condition # NoCondition, Eval(r.condition, p) # "unknown"
        PROVE  Eval(r.condition, q) = Eval(r.condition, p)
    BY <2>1, EvalGrows, Zenon
  <2>2. SubjectMatches(r.subject, q.subject) <=> SubjectMatches(r.subject, p.subject)
    BY <1>1, <1>4, Zenon
  <2> QED
    BY <1>3, <1>5, <2>1, <2>2, Zenon DEF Applies
<1>6. \A a : SharingAdmits(z, a) <=> SharingAdmits(s, a)
  BY <1>2, Zenon DEF SharingAdmits, IsOwnerSide, HasTeam
<1>7. RoleAllows(e, q) <=> RoleAllows(e, p)
  BY <1>1, <1>2, <1>3, Zenon DEF RoleAllows, HasTeam
<1>8. Decision(e, p)
  BY DecisionIs, Zenon
<1>9. ~Denied(e, q)
  <2>1. ~Denied(e, p)
    BY <1>8, Zenon DEF Decision
  <2>2. ASSUME NEW r \in e.policies, r.effect = "deny", q.action \in r.actions
        PROVE  Applies(r, q) = "false"
    BY <1>3, <1>5, <2>1, <2>2 DEF Denied
  <2> QED
    BY <2>2, Zenon DEF Denied
<1>10. Granted(e, p) => Granted(e, q)
  BY <1>1, <1>3, <1>5, <1>6 DEF Granted
<1>11. Decision(e, q)
  BY <1>3, <1>7, <1>8, <1>9, <1>10, Zenon DEF Decision
<1> QED
  BY <1>11, DecisionIs, Zenon

(* Questions with the same key, both of which may be memoised, are decided
   alike. *)
LEMMA SameKey ==
  ASSUME rules \in Policies, NEW o \in Questions, NEW p \in Questions,
         Cacheable(Engine, o), Cacheable(Engine, p), CacheKey(o) = CacheKey(p)
  PROVE  DecideAfresh(Engine, o) = DecideAfresh(Engine, p)
<1>1. PICK e : e = Engine
  OBVIOUS
<1>2. /\ o.subject.id = p.subject.id /\ o.subject.rev = p.subject.rev /\ o.action = p.action
      /\ o.resource.type = p.resource.type /\ o.resource.id = p.resource.id
      /\ o.resource.owner = p.resource.owner /\ o.resource.team = p.resource.team
  BY DEF CacheKey
<1>3. o.subject = p.subject
  <2>1. o.subject.rev # ""
    BY Zenon DEF Cacheable
  <2> QED
    BY <1>2, <2>1, EngineAssumption, Zenon
<1>4. o.resource = p.resource
  <2>1. o.resource.sharing = NoSharing /\ p.resource.sharing = NoSharing
    BY Zenon DEF Cacheable
  <2>2. IsResource(o.resource) /\ IsResource(p.resource)
    BY EngineAssumption, Zenon DEF IsRequest
  <2> QED
    BY <1>2, <2>1, <2>2, Zenon DEF IsResource
<1>5. \A ref \in DOMAIN o.attrs \cup DOMAIN p.attrs : ref[1] = "context"
  <2>1. \A q \in Questions : \A ref \in DOMAIN q.attrs : ref[1] \in {"resource", "context"}
    BY EngineAssumption, Zenon DEF IsRequest
  <2>2. /\ \A ref \in DOMAIN o.attrs : ref[1] # "resource"
        /\ \A ref \in DOMAIN p.attrs : ref[1] # "resource"
    BY Zenon DEF Cacheable
  <2> QED
    BY <2>1, <2>2
<1>6. SameButContext(o, p)
  BY <1>3, <1>4, <1>5, Zenon DEF SameButContext
<1>7. e.policies \subseteq rules
  BY <1>1, EngineAsWritten DEF Compile
<1>8. \A r \in e.policies : r.condition \in Conditions \cup {NoCondition}
  BY <1>7, EngineAssumption, Zenon DEF IsPolicy
<1>9. \A r \in e.policies : p.action \in r.actions /\ r.condition # NoCondition
                               => ~ContextDependent(r.condition)
  BY <1>1, Zenon DEF Cacheable
<1> QED
  BY <1>1, <1>2, <1>6, <1>8, <1>9, DecisionAlike, Zenon

Response == [kind : {"decide", "pair"}, req : Questions, allowed : BOOLEAN]

\* What the memo m of an engine e holds was decided of a question with its key.
MemoRight(e, m) ==
    \A k \in DOMAIN m :
        \E o \in Questions : Cacheable(e, o) /\ CacheKey(o) = k /\ m[k] = DecideAfresh(e, o)

\* The answers given are those of the engine.
AnswerRight(e, a) ==
    CASE a.kind = "decide" -> a.allowed = DecideAfresh(e, a.req)
      [] a.kind = "pair" ->
            /\ a.req.action = "model.use" /\ a.req.promptTokens = 0
            /\ a.allowed => /\ DecideAfresh(e, a.req)
                            /\ PairClient(e, a.req.subject, ClientOf(a.req)).allowed

EngineInv ==
    /\ rules \in Policies /\ Len(asked) <= MaxAsked
    /\ asked \in Seq(Response)
    /\ MemoRight(Engine, memo)
    /\ \A i \in DOMAIN asked : AnswerRight(Engine, asked[i])

(* A further answer that is right leaves all of them right. *)
LEMMA OneMore ==
  ASSUME NEW e, NEW s \in Seq(Response), NEW a \in Response, AnswerRight(e, a),
         \A i \in DOMAIN s : AnswerRight(e, s[i]), NEW t, t = Append(s, a)
  PROVE  t \in Seq(Response) /\ Len(t) = Len(s) + 1 /\ \A i \in DOMAIN t : AnswerRight(e, t[i])
<1>1. t \in Seq(Response) /\ Len(t) = Len(s) + 1
  OBVIOUS
<1>2. DOMAIN t = 1 .. Len(s) + 1 /\ DOMAIN s = 1 .. Len(s) /\ Len(s) \in Nat
  BY <1>1, LenProperties
<1>3. ASSUME NEW i \in DOMAIN t PROVE AnswerRight(e, t[i])
  <2>1. CASE i = Len(s) + 1
    <3>1. t[i] = a
      BY <2>1
    <3> QED
      BY <3>1
  <2>2. CASE i # Len(s) + 1
    <3>1. i \in DOMAIN s
      BY <1>2, <2>2
    <3>2. t[i] = s[i]
      BY <1>2, <3>1
    <3> QED
      BY <3>1, <3>2
  <2> QED
    BY <2>1, <2>2
<1> QED
  BY <1>1, <1>3

(* Every step of the engine keeps it. *)
LEMMA EngineInvHolds ==
  /\ EngineInit => EngineInv
  /\ EngineInv /\ [EngineNext]_engineVars => EngineInv'
<1>0. MaxAsked \in Nat \ {0}
  BY EngineAssumption, Zenon
<1>1. ASSUME EngineInit PROVE EngineInv
  <2>1. rules \in Policies /\ memo = <<>> /\ asked = <<>>
    BY <1>1 DEF EngineInit
  <2>2. MemoRight(Engine, memo)
    BY <2>1 DEF MemoRight
  <2>3. asked \in Seq(Response) /\ Len(asked) = 0 /\ DOMAIN asked = {}
    BY <2>1
  <2>4. Len(asked) <= MaxAsked
    BY <1>0, <2>3
  <2> QED
    BY <2>1, <2>2, <2>3, <2>4 DEF EngineInv
<1>2. ASSUME EngineInv, [EngineNext]_engineVars PROVE EngineInv'
  <2>1. CASE UNCHANGED engineVars
    <3>1. rules' = rules /\ memo' = memo /\ asked' = asked
      BY <2>1 DEF engineVars
    <3>2. Engine' = Engine
      BY <3>1, Zenon DEF Engine
    <3> QED
      BY <1>2, <3>1, <3>2, Zenon DEF EngineInv
  <2>2. ASSUME NEW req \in Questions, Decide(req) PROVE EngineInv'
    <3>1. PICK e, key : e = Engine /\ key = CacheKey(req)
      OBVIOUS
    <3>2. PICK answer : answer = IF Cacheable(e, req) /\ key \in DOMAIN memo THEN memo[key]
                                 ELSE DecideAfresh(e, req)
      OBVIOUS
    <3>3. /\ Len(asked) < MaxAsked /\ rules' = rules
          /\ asked' = Append(asked, [kind |-> "decide", req |-> req, allowed |-> answer])
          /\ memo' = IF Cacheable(e, req)
                     THEN [k \in DOMAIN memo \cup {key} |-> IF k = key THEN answer ELSE memo[k]]
                     ELSE memo
      BY <2>2, <3>1, <3>2, Zenon DEF Decide
    <3>4. answer = DecideAfresh(e, req)
      <4>1. CASE Cacheable(e, req) /\ key \in DOMAIN memo
        <5>1. PICK o \in Questions : /\ Cacheable(e, o) /\ CacheKey(o) = key
                                     /\ memo[key] = DecideAfresh(e, o)
          BY <1>2, <3>1, <4>1, Zenon DEF EngineInv, MemoRight
        <5>2. DecideAfresh(e, o) = DecideAfresh(e, req)
          BY <1>2, <3>1, <4>1, <5>1, SameKey, Zenon DEF EngineInv
        <5> QED
          BY <3>2, <4>1, <5>1, <5>2, Zenon
      <4>2. CASE ~(Cacheable(e, req) /\ key \in DOMAIN memo)
        BY <3>2, <4>2, Zenon
      <4> QED
        BY <4>1, <4>2
    <3>5. MemoRight(e, memo')
      <4>1. CASE Cacheable(e, req)
        <5>1. memo' = [k \in DOMAIN memo \cup {key} |-> IF k = key THEN answer ELSE memo[k]]
          BY <3>3, <4>1, Zenon
        <5>2. PICK m : m = memo'
          OBVIOUS
        <5>3. ASSUME NEW k \in DOMAIN m
              PROVE  \E o \in Questions : Cacheable(e, o) /\ CacheKey(o) = k /\ m[k] = DecideAfresh(e, o)
          <6>1. CASE k = key
            BY <3>1, <3>4, <4>1, <5>1, <5>2, <6>1
          <6>2. CASE k # key
            <7>1. k \in DOMAIN memo /\ m[k] = memo[k]
              BY <5>1, <5>2, <5>3, <6>2
            <7> QED
              BY <1>2, <3>1, <7>1, Zenon DEF EngineInv, MemoRight
          <6> QED
            BY <6>1, <6>2
        <5> QED
          BY <5>2, <5>3, Zenon DEF MemoRight
      <4>2. CASE ~Cacheable(e, req)
        BY <1>2, <3>1, <3>3, <4>2, Zenon DEF EngineInv
      <4> QED
        BY <4>1, <4>2
    <3>6. PICK a : a = [kind |-> "decide", req |-> req, allowed |-> answer]
      OBVIOUS
    <3>7. a \in Response /\ AnswerRight(e, a)
      <4>1. answer \in BOOLEAN
        BY <3>4, DecisionIs, Zenon
      <4> QED
        BY <3>4, <3>6, <4>1 DEF Response, AnswerRight
    <3>8. /\ asked' \in Seq(Response) /\ Len(asked') = Len(asked) + 1
          /\ \A i \in DOMAIN asked' : AnswerRight(e, asked'[i])
      <4>1. asked \in Seq(Response) /\ \A i \in DOMAIN asked : AnswerRight(e, asked[i])
        BY <1>2, <3>1, Zenon DEF EngineInv
      <4>2. PICK s, t : s = asked /\ t = asked'
        OBVIOUS
      <4>3. /\ s \in Seq(Response) /\ (\A i \in DOMAIN s : AnswerRight(e, s[i]))
            /\ t = Append(s, a)
        BY <3>3, <3>6, <4>1, <4>2
      <4>4. t \in Seq(Response) /\ Len(t) = Len(s) + 1 /\ \A i \in DOMAIN t : AnswerRight(e, t[i])
        BY ONLY <3>7, <4>3, OneMore
      <4> QED
        BY <4>2, <4>4
    <3>9. Len(asked') <= MaxAsked
      <4>1. Len(asked) \in Nat
        BY <1>2, LenProperties, Zenon DEF EngineInv
      <4> QED
        BY <1>0, <3>3, <3>8, <4>1
    <3>10. Engine' = e
      BY <3>1, <3>3, Zenon DEF Engine
    <3> QED
      BY <1>2, <3>3, <3>5, <3>8, <3>9, <3>10, Zenon DEF EngineInv
  <2>3. ASSUME NEW req \in Questions, Pair(req) PROVE EngineInv'
    <3>1. PICK e : e = Engine
      OBVIOUS
    <3>2. PICK answer : answer = (DecideAfresh(e, req) /\ PairClient(e, req.subject, ClientOf(req)).allowed)
      OBVIOUS
    <3>3. PICK a : a = [kind |-> "pair", req |-> req, allowed |-> answer]
      OBVIOUS
    <3>4. /\ asked = <<>> /\ req.action = "model.use" /\ req.promptTokens = 0
          /\ asked' = << a >> /\ rules' = rules /\ memo' = memo
      BY <2>3, <3>1, <3>2, <3>3, Zenon DEF Pair
    <3>5. answer \in BOOLEAN
      BY <3>2
    <3>6. a \in Response /\ AnswerRight(e, a)
      <4>1. a.kind = "pair" /\ a.req = req /\ a.allowed = answer
        BY <3>3
      <4>2. answer => DecideAfresh(e, req) /\ PairClient(e, req.subject, ClientOf(req)).allowed
        BY <3>2
      <4>3. AnswerRight(e, a)
        BY <3>4, <4>1, <4>2, Zenon DEF AnswerRight
      <4>4. a \in Response
        BY <3>3, <3>5 DEF Response
      <4> QED
        BY <4>3, <4>4
    <3>7. asked' \in Seq(Response) /\ Len(asked') = 1 /\ DOMAIN asked' = {1} /\ asked'[1] = a
      BY <3>4, <3>6
    <3>8. \A i \in DOMAIN asked' : AnswerRight(e, asked'[i])
      BY <3>6, <3>7
    <3>9. Engine' = e
      BY <3>1, <3>4, Zenon DEF Engine
    <3>10. Len(asked') <= MaxAsked
      BY <1>0, <3>7
    <3> QED
      BY <1>2, <3>1, <3>4, <3>7, <3>8, <3>9, <3>10, Zenon DEF EngineInv
  <2> QED
    BY <1>2, <2>1, <2>2, <2>3, Zenon DEF EngineNext
<1> QED
  BY <1>1, <1>2

(* The invariant holds of every behaviour of the engine (engine.go, Decide;
   sharing.go, PairClient). *)
THEOREM EngineInvariant == EngineSpec => []EngineInv
  BY EngineInvHolds, PTL DEF EngineSpec

(* An engine answers a question as its rules were written, whatever it was
   asked before and although they come back from a database (engine.go:39,
   cond.go:164): AnswersAsWritten. *)
THEOREM EngineAnswersAsWritten == EngineSpec => []AnswersAsWritten
<1>1. ASSUME EngineInv PROVE AnswersAsWritten
  <2>1. Engine = Compile(BuiltinRoles, rules)
    BY <1>1, EngineAsWritten, Zenon DEF EngineInv
  <2>2. ASSUME NEW i \in DOMAIN asked, asked[i].kind = "decide"
        PROVE  asked[i].allowed = DecideAfresh(Compile(BuiltinRoles, rules), asked[i].req)
    <3>1. PICK a : a = asked[i]
      OBVIOUS
    <3>2. AnswerRight(Engine, a) /\ a.kind = "decide"
      BY <1>1, <2>2, <3>1, Zenon DEF EngineInv
    <3>3. a.allowed = DecideAfresh(Engine, a.req)
      BY <3>2, Zenon DEF AnswerRight
    <3> QED
      BY <2>1, <3>1, <3>3, Zenon
  <2> QED
    BY <2>2, Zenon DEF AnswersAsWritten
<1> QED
  BY <1>1, EngineInvariant, PTL

(* DecisionGrows, of the engine's own rules. *)
LEMMA RulesGrow ==
  ASSUME rules \in Policies, NoAbsenceTest, NEW p, NEW q, IsSubject(p.subject),
         CarriesMore(q, p), DecideAfresh(Engine, p)
  PROVE  DecideAfresh(Engine, q)
<1>1. PICK e : e = Engine
  OBVIOUS
<1>2. e.policies \subseteq rules
  BY <1>1, EngineAsWritten DEF Compile
<1>3. \A r \in e.policies : r.condition \in Conditions \cup {NoCondition}
  BY <1>2, EngineAssumption, Zenon DEF IsPolicy
<1>4. \A r \in e.policies : /\ r.subject.attrs = <<>>
                            /\ r.condition # NoCondition => ~AsksForAbsence(r.condition)
  BY <1>2, Zenon DEF NoAbsenceTest
<1> QED
  <2>1. DecideAfresh(e, p)
    BY <1>1
  <2>2. DecideAfresh(e, q)
    BY <1>3, <1>4, <2>1, DecisionGrows, Zenon
  <2> QED
    BY <1>1, <2>2

(* A missing attribute never grants (cond.go:29-32): what was allowed is still
   allowed when more is carried, by the rules that do not ask for absence:
   MissingNeverGrants. *)
THEOREM EngineMissingNeverGrants == EngineSpec => []MissingNeverGrants
<1>1. ASSUME EngineInv PROVE MissingNeverGrants
  <2>1. SUFFICES ASSUME NoAbsenceTest, NEW i \in DOMAIN asked, asked[i].kind = "decide",
                        asked[i].allowed, NEW q \in Questions, CarriesMore(q, asked[i].req)
                 PROVE  DecideAfresh(Engine, q)
    BY Zenon DEF MissingNeverGrants
  <2>2. PICK a, p : a = asked[i] /\ p = a.req
    OBVIOUS
  <2>3. a \in Response /\ AnswerRight(Engine, a) /\ a.kind = "decide" /\ a.allowed
    <3>1. asked \in Seq(Response)
      BY <1>1, Zenon DEF EngineInv
    <3>2. asked[i] \in Response
      BY <3>1
    <3> QED
      BY <1>1, <2>1, <2>2, <3>2, Zenon DEF EngineInv
  <2>4. p \in Questions /\ DecideAfresh(Engine, p)
    <3>1. p \in Questions
      BY <2>2, <2>3 DEF Response
    <3> QED
      BY <2>2, <2>3, <3>1, Zenon DEF AnswerRight
  <2>5. IsSubject(p.subject)
    BY <2>4, EngineAssumption, Zenon DEF IsRequest
  <2>6. CarriesMore(q, p)
    BY <2>1, <2>2, Zenon
  <2> QED
    BY <1>1, <2>1, <2>4, <2>5, <2>6, RulesGrow, Zenon DEF EngineInv
<1> QED
  BY <1>1, EngineInvariant, PTL

(* Deciding a pairing in two halves is never wider than deciding it in one
   (sharing.go:122): SplitNeverWider. *)
THEOREM EngineSplitNeverWider == EngineSpec => []SplitNeverWider
<1>1. ASSUME EngineInv PROVE SplitNeverWider
  <2>1. SUFFICES ASSUME NoAbsenceTest, NEW i \in DOMAIN asked, asked[i].kind = "pair",
                        asked[i].allowed
                 PROVE  CanPair(Engine, asked[i].req, ClientOf(asked[i].req))
    BY Zenon DEF SplitNeverWider
  <2>2. PICK a, req, client : a = asked[i] /\ req = a.req /\ client = ClientOf(req)
    OBVIOUS
  <2>3. a \in Response /\ AnswerRight(Engine, a) /\ a.kind = "pair" /\ a.allowed
    <3>1. asked \in Seq(Response)
      BY <1>1, Zenon DEF EngineInv
    <3>2. asked[i] \in Response
      BY <3>1
    <3> QED
      BY <1>1, <2>1, <2>2, <3>2, Zenon DEF EngineInv
  <2>4. req \in Questions
    BY <2>2, <2>3 DEF Response
  <2>5. /\ req.action = "model.use" /\ req.promptTokens = 0 /\ DecideAfresh(Engine, req)
        /\ PairClient(Engine, req.subject, client).allowed
    BY <2>2, <2>3, Zenon DEF AnswerRight
  <2>6. IsRequest(req) /\ IsResource(client)
    BY <2>2, <2>4, EngineAssumption, Zenon
  <2>7. PICK s, r, x : req = [subject |-> s, action |-> "model.use", resource |-> r,
                              attrs |-> x, promptTokens |-> 0]
    BY <2>5, <2>6, Zenon DEF IsRequest
  <2>8. [req EXCEPT !.action = "model.use"] = req
    BY <2>7
  <2>9. PICK p, q : /\ p = [subject |-> s, action |-> "client.use", resource |-> client,
                            attrs |-> <<>>, promptTokens |-> 0]
                    /\ q = [req EXCEPT !.action = "client.use", !.resource = client]
    OBVIOUS
  <2>10. q = [subject |-> s, action |-> "client.use", resource |-> client,
              attrs |-> x, promptTokens |-> 0]
    BY <2>7, <2>9
  <2>11. DecideAfresh(Engine, p)
    <3>1. req.subject = s
      BY <2>7
    <3>2. PairClient(Engine, s, client).allowed = DecideAfresh(Engine, p)
      BY <2>9, Zenon DEF PairClient
    <3> QED
      BY <2>5, <3>1, <3>2, Zenon
  <2>12. IsSubject(s)
    BY <2>6, <2>7 DEF IsRequest
  <2>13. CarriesMore(q, p)
    <3>1. s = [s EXCEPT !.attrs = s.attrs, !.rev = s.rev]
      <4>1. PICK id, kind, bindings, teams, managedBy, attrs, rev :
               s = [id |-> id, kind |-> kind, bindings |-> bindings, teams |-> teams,
                    managedBy |-> managedBy, attrs |-> attrs, rev |-> rev]
        BY <2>12, Zenon DEF IsSubject
      <4> QED
        BY <4>1
    <3>2. p.subject = s /\ q.subject = s /\ q.action = p.action /\ q.resource = p.resource
          /\ q.promptTokens = p.promptTokens /\ DOMAIN p.attrs = {}
      <4>1. p = [subject |-> s, action |-> "client.use", resource |-> client,
                 attrs |-> <<>>, promptTokens |-> 0]
        BY <2>9, Zenon
      <4>2. p.attrs = <<>>
        BY <4>1
      <4>3. DOMAIN p.attrs = {}
        BY <4>2
      <4> QED
        BY ONLY <2>10, <4>1, <4>3
    <3>3. DOMAIN p.subject.attrs = DOMAIN q.subject.attrs /\ p.subject.attrs = q.subject.attrs
      BY <3>2
    <3> QED
      BY <3>1, <3>2, <3>3, Zenon DEF CarriesMore
  <2>14. IsSubject(p.subject)
    BY <2>9, <2>12
  <2>15. DecideAfresh(Engine, q)
    BY <1>1, <2>1, <2>11, <2>13, <2>14, RulesGrow, Zenon DEF EngineInv
  <2> QED
    BY <2>2, <2>5, <2>8, <2>9, <2>15, Zenon DEF CanPair
<1> QED
  BY <1>1, EngineInvariant, PTL

-----------------------------------------------------------------------------
(* The wildcard matcher.                                                   *)

\* What a character of the pattern, at i, says of the cuts beside it.
CutOne(pattern, name, i, n, k) ==
    IF pattern[i] = "*" THEN n <= k
    ELSE k = n + 1 /\ pattern[i] \in {"?", name[n]}

\* The name from n on can be cut as the pattern from p on says.
Cuts(pattern, name, p, n, cut) ==
    /\ cut \in [p .. Len(pattern) + 1 -> 1 .. Len(name) + 1]
    /\ cut[p] = n /\ cut[Len(pattern) + 1] = Len(name) + 1
    /\ \A i \in p .. Len(pattern) : CutOne(pattern, name, i, cut[i], cut[i + 1])
From(pattern, name, p, n) == \E cut : Cuts(pattern, name, p, n, cut)

(* A match is one of the whole pattern with the whole name. *)
LEMMA MatchesIs ==
  ASSUME NEW pattern, NEW name
  PROVE  Matches(pattern, name) <=> From(pattern, name, 1, 1)
  BY DEF Matches, From, Cuts, CutOne

(* At the end of the pattern, the name has to end. *)
LEMMA FromEnd ==
  ASSUME NEW pattern, Len(pattern) \in Nat, NEW name, Len(name) \in Nat, NEW n \in 1 .. Len(name) + 1
  PROVE  From(pattern, name, Len(pattern) + 1, n) <=> n = Len(name) + 1
<1>1. PICK lp : lp = Len(pattern)
  OBVIOUS
<1>2. PICK ln : ln = Len(name)
  OBVIOUS
<1>3. lp \in Nat /\ ln \in Nat /\ n \in 1 .. ln + 1
  BY <1>1, <1>2
<1>4. ASSUME n = ln + 1 PROVE Cuts(pattern, name, lp + 1, n, [i \in lp + 1 .. lp + 1 |-> n])
  BY <1>1, <1>2, <1>3, <1>4 DEF Cuts
<1> QED
  BY <1>1, <1>2, <1>4 DEF From, Cuts

(* Before it, the first character is read and the rest follows. *)
LEMMA FromOne ==
  ASSUME NEW pattern, Len(pattern) \in Nat, NEW name, Len(name) \in Nat,
         NEW p \in 1 .. Len(pattern), NEW n \in 1 .. Len(name) + 1
  PROVE  From(pattern, name, p, n)
         <=> \E k \in 1 .. Len(name) + 1 : CutOne(pattern, name, p, n, k) /\ From(pattern, name, p + 1, k)
<1>1. PICK lp : lp = Len(pattern)
  OBVIOUS
<1>2. PICK ln : ln = Len(name)
  OBVIOUS
<1>3. lp \in Nat /\ ln \in Nat /\ p \in 1 .. lp /\ n \in 1 .. ln + 1
  BY <1>1, <1>2
<1>4. ASSUME NEW cut, Cuts(pattern, name, p, n, cut)
      PROVE  \E k \in 1 .. ln + 1 : CutOne(pattern, name, p, n, k) /\ From(pattern, name, p + 1, k)
  <2>1. /\ cut \in [p .. lp + 1 -> 1 .. ln + 1] /\ cut[p] = n /\ cut[lp + 1] = ln + 1
        /\ \A i \in p .. lp : CutOne(pattern, name, i, cut[i], cut[i + 1])
    BY <1>1, <1>2, <1>4 DEF Cuts
  <2>2. cut[p + 1] \in 1 .. ln + 1 /\ CutOne(pattern, name, p, n, cut[p + 1])
    BY <1>3, <2>1
  <2> DEFINE rest == [i \in p + 1 .. lp + 1 |-> cut[i]]
  <2>3. \A i \in p + 1 .. lp + 1 : i \in p .. lp + 1 /\ rest[i] = cut[i]
    BY <1>3
  <2>4. rest \in [p + 1 .. lp + 1 -> 1 .. ln + 1]
    BY <2>1, <2>3
  <2>5. rest[p + 1] = cut[p + 1] /\ rest[lp + 1] = ln + 1
    BY <1>3, <2>1, <2>3
  <2>6. ASSUME NEW i \in p + 1 .. lp PROVE CutOne(pattern, name, i, rest[i], rest[i + 1])
    <3>1. i \in p .. lp /\ i \in p + 1 .. lp + 1 /\ i + 1 \in p + 1 .. lp + 1
      BY <1>3
    <3> QED
      BY <2>1, <2>3, <3>1
  <2> HIDE DEF rest
  <2>7. Cuts(pattern, name, p + 1, cut[p + 1], rest)
    BY <1>1, <1>2, <2>4, <2>5, <2>6 DEF Cuts
  <2> QED
    BY <2>2, <2>7 DEF From
<1>5. ASSUME NEW k \in 1 .. ln + 1, CutOne(pattern, name, p, n, k),
             NEW cut, Cuts(pattern, name, p + 1, k, cut)
      PROVE  From(pattern, name, p, n)
  <2>1. /\ cut \in [p + 1 .. lp + 1 -> 1 .. ln + 1] /\ cut[p + 1] = k /\ cut[lp + 1] = ln + 1
        /\ \A i \in p + 1 .. lp : CutOne(pattern, name, i, cut[i], cut[i + 1])
    BY <1>1, <1>2, <1>5 DEF Cuts
  <2> DEFINE all == [i \in p .. lp + 1 |-> IF i = p THEN n ELSE cut[i]]
  <2>2. \A i \in p .. lp + 1 : all[i] \in 1 .. ln + 1
    <3> TAKE i \in p .. lp + 1
    <3>1. CASE i = p
      BY <1>3, <3>1
    <3>2. CASE i # p
      <4>1. i \in p + 1 .. lp + 1 /\ all[i] = cut[i]
        BY <1>3, <3>2
      <4> QED
        BY <2>1, <4>1
    <3> QED
      BY <3>1, <3>2
  <2>3. all \in [p .. lp + 1 -> 1 .. ln + 1]
    BY <2>2
  <2>4. all[p] = n /\ all[lp + 1] = ln + 1 /\ all[p + 1] = k
    BY <1>3, <2>1
  <2>5. ASSUME NEW i \in p .. lp PROVE CutOne(pattern, name, i, all[i], all[i + 1])
    <3>1. CASE i = p
      BY <1>5, <2>4, <3>1
    <3>2. CASE i # p
      <4>1. i \in p + 1 .. lp /\ all[i] = cut[i] /\ all[i + 1] = cut[i + 1]
        BY <1>3, <3>2
      <4> QED
        BY <2>1, <4>1
    <3> QED
      BY <3>1, <3>2
  <2> HIDE DEF all
  <2>6. Cuts(pattern, name, p, n, all)
    BY <1>1, <1>2, <2>3, <2>4, <2>5 DEF Cuts
  <2> QED
    BY <2>6 DEF From
<1> QED
  BY <1>2, <1>4, <1>5 DEF From

\* The rest of the pattern from p on asks for nothing more.
OnlyStars(pattern, p) == \A i \in p .. Len(pattern) : pattern[i] = "*"

(* At the end of the name, only stars may follow. *)
LEMMA FromNameEnd ==
  ASSUME NEW pattern, Len(pattern) \in Nat, NEW name, Len(name) \in Nat,
         NEW p \in 1 .. Len(pattern) + 1
  PROVE  From(pattern, name, p, Len(name) + 1) <=> OnlyStars(pattern, p)
<1>1. PICK lp : lp = Len(pattern)
  OBVIOUS
<1>2. PICK ln : ln = Len(name)
  OBVIOUS
<1>3. lp \in Nat /\ ln \in Nat /\ ln + 1 \in 1 .. ln + 1
  BY <1>1, <1>2
<1> DEFINE Wrong == {d \in 0 .. lp : ~(From(pattern, name, lp + 1 - d, ln + 1) <=> OnlyStars(pattern, lp + 1 - d))}
<1>4. SUFFICES ASSUME Wrong # {} PROVE FALSE
  <2>1. lp + 1 - p \in 0 .. lp /\ lp + 1 - (lp + 1 - p) = p
    BY <1>1, <1>3
  <2> QED
    BY <1>1, <1>2, <2>1
<1>5. PICK d \in Wrong : \A e \in Wrong : d <= e
  <2>1. Wrong \in SUBSET Nat
    BY <1>3
  <2> HIDE DEF Wrong
  <2> QED
    BY <1>4, <2>1, Least
<1>6. d \in 0 .. lp
  OBVIOUS
<1>7. CASE d = 0
  <2>1. OnlyStars(pattern, lp + 1)
    BY <1>1, <1>3 DEF OnlyStars
  <2>2. From(pattern, name, lp + 1, ln + 1)
    BY <1>1, <1>2, <1>3, FromEnd
  <2> QED
    BY <1>3, <1>7, <2>1, <2>2
<1>8. CASE d # 0
  <2>1. PICK q : q = lp + 1 - d
    OBVIOUS
  <2>2. q \in 1 .. lp /\ d - 1 \in 0 .. lp /\ lp + 1 - (d - 1) = q + 1 /\ q + 1 \in 1 .. lp + 1
    BY <1>3, <1>6, <1>8, <2>1
  <2>3. d - 1 \notin Wrong
    BY <1>5, <1>6, <1>3
  <2>4. From(pattern, name, q + 1, ln + 1) <=> OnlyStars(pattern, q + 1)
    BY <2>2, <2>3
  <2>5. ASSUME NEW k \in 1 .. ln + 1, CutOne(pattern, name, q, ln + 1, k)
        PROVE  k = ln + 1 /\ pattern[q] = "*"
    BY <1>3, <2>5 DEF CutOne
  <2>6. pattern[q] = "*" => CutOne(pattern, name, q, ln + 1, ln + 1)
    BY <1>3 DEF CutOne
  <2>7. From(pattern, name, q, ln + 1) <=> pattern[q] = "*" /\ From(pattern, name, q + 1, ln + 1)
    <3>1. From(pattern, name, q, ln + 1)
          <=> \E k \in 1 .. ln + 1 : CutOne(pattern, name, q, ln + 1, k) /\ From(pattern, name, q + 1, k)
      BY <1>1, <1>2, <1>3, <2>2, FromOne
    <3> QED
      BY <1>3, <2>5, <2>6, <3>1
  <2>8. OnlyStars(pattern, q) <=> pattern[q] = "*" /\ OnlyStars(pattern, q + 1)
    <3>1. \A i : i \in q .. lp <=> i = q \/ i \in q + 1 .. lp
      BY <1>3, <2>2
    <3> QED
      BY <1>1, <3>1 DEF OnlyStars
  <2> QED
    BY <2>1, <2>4, <2>7, <2>8
<1> QED
  BY <1>7, <1>8

(* A run of the pattern without stars takes as much of the name. *)
LEMMA RunTakes ==
  ASSUME NEW pattern, Len(pattern) \in Nat, NEW name, Len(name) \in Nat,
         NEW p \in 1 .. Len(pattern) + 1, NEW n \in 1 .. Len(name) + 1,
         NEW m \in Nat, p + m <= Len(pattern) + 1,
         \A i \in 0 .. m - 1 : pattern[p + i] # "*"
  PROVE  /\ From(pattern, name, p, n)
            => n + m <= Len(name) + 1 /\ From(pattern, name, p + m, n + m)
         /\ /\ \A i \in 0 .. m - 1 : Reads(pattern, name, p + i, n + i)
            /\ n + m <= Len(name) + 1 /\ From(pattern, name, p + m, n + m)
            => From(pattern, name, p, n)
<1>1. PICK lp : lp = Len(pattern)
  OBVIOUS
<1>2. PICK ln : ln = Len(name)
  OBVIOUS
<1>3. lp \in Nat /\ ln \in Nat /\ p \in 1 .. lp + 1 /\ n \in 1 .. ln + 1 /\ p + m <= lp + 1
  BY <1>1, <1>2
<1> DEFINE Right(k) ==
      /\ From(pattern, name, p, n) => n + k <= ln + 1 /\ From(pattern, name, p + k, n + k)
      /\ /\ \A i \in 0 .. k - 1 : Reads(pattern, name, p + i, n + i)
         /\ n + k <= ln + 1 /\ From(pattern, name, p + k, n + k)
         => From(pattern, name, p, n)
<1> DEFINE Wrong == {k \in 0 .. m : ~Right(k)}
<1>4. SUFFICES ASSUME Wrong # {} PROVE FALSE
  <2>1. m \in 0 .. m
    OBVIOUS
  <2>2. Right(m)
    BY <1>4, <2>1
  <2> QED
    BY <1>2, <2>2
<1>5. PICK k \in Wrong : \A e \in Wrong : k <= e
  <2>1. Wrong \in SUBSET Nat
    OBVIOUS
  <2> HIDE DEF Wrong
  <2> QED
    BY <1>4, <2>1, Least
<1>6. k \in 0 .. m /\ ~Right(k)
  OBVIOUS
<1>7. CASE k = 0
  <2>1. p + 0 = p /\ n + 0 = n /\ n <= ln + 1
    BY <1>3
  <2> QED
    BY <1>6, <1>7, <2>1
<1>8. CASE k # 0
  <2>1. PICK j : j = k - 1
    OBVIOUS
  <2>2. j \in 0 .. m - 1 /\ j \in 0 .. m /\ k = j + 1 /\ p + j \in 1 .. lp /\ (p + j) + 1 = p + k /\ (n + j) + 1 = n + k
    BY <1>3, <1>6, <1>8, <2>1
  <2>3. Right(j)
    <3>1. ~(k <= j) /\ j \in 0 .. m
      BY <1>6, <2>2
    <3> HIDE DEF Right
    <3> QED
      BY <1>5, <3>1
  <2>4. pattern[p + j] # "*"
    BY <2>2
  <2>5. ASSUME n + j <= ln + 1
        PROVE  From(pattern, name, p + j, n + j)
               <=> n + k <= ln + 1 /\ Reads(pattern, name, p + j, n + j) /\ From(pattern, name, p + k, n + k)
    <3>1. n + j \in 1 .. ln + 1
      BY <1>3, <2>2, <2>5
    <3>2. From(pattern, name, p + j, n + j)
          <=> \E l \in 1 .. ln + 1 : CutOne(pattern, name, p + j, n + j, l) /\ From(pattern, name, (p + j) + 1, l)
      BY <1>1, <1>2, <1>3, <2>2, <3>1, FromOne
    <3>3. ASSUME NEW l \in 1 .. ln + 1
          PROVE  CutOne(pattern, name, p + j, n + j, l) <=> l = n + k /\ Reads(pattern, name, p + j, n + j)
      BY <1>1, <1>2, <1>3, <2>2, <2>4, <3>1 DEF CutOne, Reads
    <3>4. n + k <= ln + 1 => n + k \in 1 .. ln + 1
      BY <1>3, <1>6
    <3>5. \A l \in 1 .. ln + 1 : l <= ln + 1
      BY <1>3
    <3> QED
      BY <2>2, <3>2, <3>3, <3>4, <3>5
  <2>6. (\A i \in 0 .. k - 1 : Reads(pattern, name, p + i, n + i))
        => Reads(pattern, name, p + j, n + j) /\ \A i \in 0 .. j - 1 : Reads(pattern, name, p + i, n + i)
    <3>1. j \in 0 .. k - 1 /\ \A i \in 0 .. j - 1 : i \in 0 .. k - 1
      BY <1>3, <2>2
    <3> QED
      BY <3>1, Zenon
  <2>7. n + k <= ln + 1 => n + j <= ln + 1
    BY <1>3, <2>2
  <2>8. Right(k)
    BY <2>3, <2>5, <2>6, <2>7
  <2> QED
    BY <1>6, <2>8
<1> QED
  BY <1>7, <1>8

(* How far pattern and name are read. *)
LEMMA ReadsOnIs ==
  ASSUME NEW pattern, Len(pattern) \in Nat, NEW name, Len(name) \in Nat,
         NEW p \in 1 .. Len(pattern) + 1, NEW n \in 1 .. Len(name) + 1
  PROVE  \E m \in Nat :
            /\ m = ReadsOn(pattern, name, p, n)
            /\ p + m <= Len(pattern) + 1 /\ n + m <= Len(name) + 1
            /\ \A i \in 0 .. m - 1 : Reads(pattern, name, p + i, n + i)
            /\ ~Reads(pattern, name, p + m, n + m)
<1>1. PICK lp : lp = Len(pattern)
  OBVIOUS
<1>2. PICK ln : ln = Len(name)
  OBVIOUS
<1>3. lp \in Nat /\ ln \in Nat /\ p \in 1 .. lp + 1 /\ n \in 1 .. ln + 1
  BY <1>1, <1>2
<1> DEFINE Stops == {m \in Nat : ~Reads(pattern, name, p + m, n + m)}
<1>4. ln + 1 - n \in Stops
  BY <1>2, <1>3 DEF Reads
<1>5. PICK m \in Stops : \A k \in Stops : m <= k
  <2>1. Stops \in SUBSET Nat /\ Stops # {}
    BY <1>4
  <2> HIDE DEF Stops
  <2> QED
    BY <2>1, Least
<1>6. m \in Nat /\ m <= ln + 1 - n /\ ~Reads(pattern, name, p + m, n + m)
  BY <1>4, <1>5
<1>7. ASSUME NEW i \in 0 .. m - 1 PROVE Reads(pattern, name, p + i, n + i)
  BY <1>5, <1>6, <1>7
<1> HIDE DEF Stops
<1>8. m \in 0 .. ln
  BY <1>3, <1>6
<1>9. PICK r : r = ReadsOn(pattern, name, p, n)
  OBVIOUS
<1>10. /\ r \in 0 .. ln /\ \A i \in 0 .. r - 1 : Reads(pattern, name, p + i, n + i)
       /\ ~Reads(pattern, name, p + r, n + r)
  BY <1>2, <1>6, <1>7, <1>8, <1>9, Zenon DEF ReadsOn
<1>11. p + r <= lp + 1 /\ n + r <= ln + 1
  <2>1. CASE r = 0
    BY <1>3, <2>1
  <2>2. CASE r # 0
    <3>1. r - 1 \in 0 .. r - 1 /\ r \in Nat
      BY <1>3, <1>10, <2>2
    <3>2. Reads(pattern, name, p + (r - 1), n + (r - 1))
      BY <1>10, <3>1
    <3>3. p + (r - 1) <= lp /\ n + (r - 1) <= ln
      BY <1>1, <1>2, <3>2 DEF Reads
    <3> QED
      BY <1>3, <3>1, <3>3
  <2> QED
    BY <2>1, <2>2
<1>12. r \in Nat
  BY <1>3, <1>10
<1> QED
  BY <1>1, <1>2, <1>9, <1>10, <1>11, <1>12

\* What the loop decides when it has gone back to a star: the rest of the
\* pattern matches the name from there or from later on; without a star yet,
\* from there.
Decides(pattern, name, starP, starN) ==
    IF starP = 0 THEN From(pattern, name, 1, starN)
    ELSE \E k \in starN .. Len(name) + 1 : From(pattern, name, starP + 1, k)

(* Only the last star is worth going back to. *)
LEMMA LoopDecides ==
  ASSUME NEW pattern, Len(pattern) \in Nat, NEW name, Len(name) \in Nat,
         \A i \in 1 .. Len(name) : name[i] # "*",
         NEW starP \in 0 .. Len(pattern), NEW starN \in 1 .. Len(name) + 1,
         NEW p, p = starP + 1 + ReadsOn(pattern, name, starP + 1, starN),
         NEW n, n = starN + ReadsOn(pattern, name, starP + 1, starN)
  PROVE  /\ p \in starP + 1 .. Len(pattern) + 1 /\ n \in starN .. Len(name) + 1
         /\ n > Len(name) => (Decides(pattern, name, starP, starN) <=> OnlyStars(pattern, p))
         /\ n <= Len(name) /\ p <= Len(pattern) /\ pattern[p] = "*"
            => (Decides(pattern, name, starP, starN) <=> Decides(pattern, name, p, n))
         /\ n <= Len(name) /\ ~(p <= Len(pattern) /\ pattern[p] = "*")
            => (Decides(pattern, name, starP, starN)
                <=> starP > 0 /\ Decides(pattern, name, starP, starN + 1))
<1>1. PICK lp : lp = Len(pattern)
  OBVIOUS
<1>2. PICK ln : ln = Len(name)
  OBVIOUS
<1>3. PICK q : q = starP + 1
  OBVIOUS
<1>4. /\ lp \in Nat /\ ln \in Nat /\ starP \in 0 .. lp /\ q \in 1 .. lp + 1 /\ starN \in 1 .. ln + 1
      /\ \A i \in 1 .. ln : name[i] # "*"
  BY <1>1, <1>2, <1>3
<1>5. PICK m \in Nat : /\ m = ReadsOn(pattern, name, q, starN)
                       /\ q + m <= lp + 1 /\ starN + m <= ln + 1
                       /\ \A i \in 0 .. m - 1 : Reads(pattern, name, q + i, starN + i)
                       /\ ~Reads(pattern, name, q + m, starN + m)
  BY <1>1, <1>2, <1>4, ReadsOnIs
<1>6. p = q + m /\ n = starN + m /\ p \in q .. lp + 1 /\ n \in starN .. ln + 1
      /\ p \in 1 .. lp + 1 /\ n \in 1 .. ln + 1
  BY <1>3, <1>4, <1>5
<1>7. ASSUME NEW i \in 0 .. m - 1 PROVE pattern[q + i] # "*"
  <2>1. Reads(pattern, name, q + i, starN + i) /\ starN + i \in Nat /\ starN + i >= 1
    BY <1>4, <1>5
  <2>2. starN + i \in 1 .. ln /\ pattern[q + i] \in {"?", name[starN + i]}
    BY <1>2, <1>4, <2>1 DEF Reads
  <2> QED
    BY <1>4, <2>2
<1>8. From(pattern, name, q, starN) <=> From(pattern, name, p, n)
  <2>1. /\ From(pattern, name, q, starN)
           => starN + m <= Len(name) + 1 /\ From(pattern, name, q + m, starN + m)
        /\ /\ \A i \in 0 .. m - 1 : Reads(pattern, name, q + i, starN + i)
           /\ starN + m <= Len(name) + 1 /\ From(pattern, name, q + m, starN + m)
           => From(pattern, name, q, starN)
    BY <1>1, <1>2, <1>4, <1>5, <1>7, RunTakes
  <2> QED
    BY <1>2, <1>5, <1>6, <2>1
<1>9. ASSUME NEW k \in 1 .. ln + 1, From(pattern, name, q, k)
      PROVE  k + m <= ln + 1 /\ From(pattern, name, p, k + m)
  BY <1>1, <1>2, <1>4, <1>5, <1>6, <1>7, <1>9, RunTakes
<1>10. \/ starP = 0 /\ q = 1 /\ (Decides(pattern, name, starP, starN) <=> From(pattern, name, q, starN))
       \/ starP > 0 /\ (Decides(pattern, name, starP, starN)
                         <=> \E k \in starN .. ln + 1 : From(pattern, name, q, k))
  BY <1>2, <1>3, <1>4 DEF Decides
<1>11. starN \in starN .. ln + 1 /\ \A k \in starN .. ln + 1 : k \in 1 .. ln + 1
  BY <1>4
<1>12. Decides(pattern, name, starP, starN)
       => \E k \in starN .. ln + 1 : From(pattern, name, q, k)
  BY <1>10, <1>11
<1>13. From(pattern, name, q, starN) => Decides(pattern, name, starP, starN)
  BY <1>10, <1>11
<1>14. ASSUME n > ln PROVE Decides(pattern, name, starP, starN) <=> OnlyStars(pattern, p)
  <2>1. n = ln + 1
    BY <1>4, <1>6, <1>14
  <2>2. From(pattern, name, p, n) <=> OnlyStars(pattern, p)
    BY <1>1, <1>2, <1>6, <2>1, FromNameEnd
  <2>3. ASSUME NEW k \in starN .. ln + 1, From(pattern, name, q, k) PROVE k = starN
    <3>1. k + m <= ln + 1
      BY <1>9, <1>11, <2>3
    <3>2. k \in Nat /\ starN \in Nat /\ starN <= k /\ starN + m = ln + 1 /\ ln \in Nat
      BY <1>4, <1>6, <2>1
    <3> QED
      BY <3>1, <3>2
  <2> QED
    BY <1>8, <1>12, <1>13, <2>2, <2>3
<1>15. ASSUME n <= ln, p <= lp, pattern[p] = "*"
       PROVE  Decides(pattern, name, starP, starN) <=> Decides(pattern, name, p, n)
  <2>1. p \in 1 .. lp /\ p # 0
    BY <1>4, <1>6, <1>15
  <2>2. ASSUME NEW k \in 1 .. ln + 1
        PROVE  From(pattern, name, p, k) <=> \E l \in 1 .. ln + 1 : k <= l /\ From(pattern, name, p + 1, l)
    <3>1. \A l : CutOne(pattern, name, p, k, l) <=> k <= l
      BY <1>15 DEF CutOne
    <3> QED
      BY <1>1, <1>2, <2>1, <3>1, FromOne
  <2>3. Decides(pattern, name, p, n) <=> \E l \in 1 .. ln + 1 : n <= l /\ From(pattern, name, p + 1, l)
    <3>1. Decides(pattern, name, p, n) <=> \E l \in n .. ln + 1 : From(pattern, name, p + 1, l)
      BY <1>2, <2>1 DEF Decides
    <3>2. \A l : l \in n .. ln + 1 <=> l \in 1 .. ln + 1 /\ n <= l
      BY <1>4, <1>6
    <3> QED
      BY <3>1, <3>2
  <2>4. Decides(pattern, name, p, n) <=> From(pattern, name, p, n)
    BY <1>6, <2>2, <2>3
  <2>5. ASSUME NEW k \in starN .. ln + 1, From(pattern, name, q, k) PROVE Decides(pattern, name, p, n)
    <3>1. k \in 1 .. ln + 1
      BY <1>11
    <3>2. k + m \in 1 .. ln + 1 /\ From(pattern, name, p, k + m) /\ n <= k + m
      <4>1. k + m <= ln + 1 /\ From(pattern, name, p, k + m)
        BY <1>9, <2>5, <3>1
      <4>2. k \in Nat /\ starN \in Nat /\ starN <= k /\ starN + m = n /\ ln \in Nat /\ starN >= 1
        <5>1. starN \in Nat /\ ln \in Nat /\ starN >= 1
          BY <1>4
        <5>2. starN + m = n
          BY <1>6
        <5> QED
          BY <5>1, <5>2
      <4>3. k + m \in 1 .. ln + 1 /\ n <= k + m
        BY <4>1, <4>2
      <4> QED
        BY <4>1, <4>3
    <3>3. PICK l \in 1 .. ln + 1 : k + m <= l /\ From(pattern, name, p + 1, l)
      BY <2>2, <3>2
    <3>4. n <= l
      BY <1>4, <1>6, <3>2, <3>3
    <3> QED
      BY <2>3, <3>3, <3>4
  <2> QED
    BY <1>8, <1>12, <1>13, <2>4, <2>5
<1>16. ASSUME n <= ln, ~(p <= lp /\ pattern[p] = "*")
       PROVE  Decides(pattern, name, starP, starN) <=> starP > 0 /\ Decides(pattern, name, starP, starN + 1)
  <2>1. ~From(pattern, name, p, n)
    <3>1. CASE p = lp + 1
      BY <1>1, <1>2, <1>4, <1>6, <1>16, <3>1, FromEnd
    <3>2. CASE p # lp + 1
      <4>1. p \in 1 .. lp
        BY <1>4, <1>6, <3>2
      <4>2. \A l \in 1 .. ln + 1 : ~CutOne(pattern, name, p, n, l)
        BY <1>1, <1>2, <1>4, <1>5, <1>6, <1>16, <4>1 DEF CutOne, Reads
      <4> QED
        BY <1>1, <1>2, <1>6, <4>1, <4>2, FromOne
    <3> QED
      BY <3>1, <3>2
  <2>2. ~From(pattern, name, q, starN)
    BY <1>8, <2>1
  <2>3. \A k : k \in starN .. ln + 1 <=> k = starN \/ k \in starN + 1 .. ln + 1
    BY <1>4
  <2>4. starP > 0 => (Decides(pattern, name, starP, starN + 1)
                      <=> \E k \in starN + 1 .. ln + 1 : From(pattern, name, q, k))
    BY <1>2, <1>3, <1>4 DEF Decides
  <2> QED
    BY <1>4, <1>10, <2>2, <2>3, <2>4
<1> QED
  BY <1>1, <1>2, <1>3, <1>6, <1>14, <1>15, <1>16

LoopFunction(pattern, name, f) ==
    f = [last \in (0 .. Len(pattern)) \X (1 .. Len(name) + 1) |->
            LET starP == last[1]
                starN == last[2]
                p == starP + 1 + ReadsOn(pattern, name, starP + 1, starN)
                n == starN + ReadsOn(pattern, name, starP + 1, starN)
            IN  IF n > Len(name) THEN \A i \in p .. Len(pattern) : pattern[i] = "*"
                ELSE IF p <= Len(pattern) /\ pattern[p] = "*" THEN f[<<p, n>>]
                ELSE starP > 0 /\ f[<<starP, starN + 1>>]]

(* The matcher is its loop, from the start. *)
LEMMA GlobIs ==
  ASSUME NEW pattern, NEW name, \E f : LoopFunction(pattern, name, f)
  PROVE  \E f : LoopFunction(pattern, name, f) /\ Glob(pattern, name) = f[<<0, 1>>]
<1> DEFINE L == CHOOSE f : LoopFunction(pattern, name, f)
<1>1. LoopFunction(pattern, name, L)
  BY Zenon
<1>2. Glob(pattern, name) = L[<<0, 1>>]
  BY DEF Glob, LoopFunction
<1> QED
  BY <1>1, <1>2, Zenon

(* The backtracking matcher decides what its wildcards mean. *)
LEMMA GlobRight ==
  ASSUME NEW pattern, Len(pattern) \in Nat, NEW name, Len(name) \in Nat,
         \A i \in 1 .. Len(name) : name[i] # "*"
  PROVE  Glob(pattern, name) = Matches(pattern, name)
<1>1. PICK lp : lp = Len(pattern)
  OBVIOUS
<1>2. PICK ln : ln = Len(name)
  OBVIOUS
<1>3. lp \in Nat /\ ln \in Nat /\ \A i \in 1 .. ln : name[i] # "*"
  BY <1>1, <1>2
<1> DEFINE P(sp, sn) == sp + 1 + ReadsOn(pattern, name, sp + 1, sn)
           N(sp, sn) == sn + ReadsOn(pattern, name, sp + 1, sn)
           D(sp, sn) == Decides(pattern, name, sp, sn)
<1>4. ASSUME NEW sp \in 0 .. lp, NEW sn \in 1 .. ln + 1
      PROVE  /\ P(sp, sn) \in sp + 1 .. lp + 1 /\ N(sp, sn) \in sn .. ln + 1
             /\ N(sp, sn) > ln => (D(sp, sn) <=> OnlyStars(pattern, P(sp, sn)))
             /\ N(sp, sn) <= ln /\ P(sp, sn) <= lp /\ pattern[P(sp, sn)] = "*"
                => (D(sp, sn) <=> D(P(sp, sn), N(sp, sn)))
             /\ N(sp, sn) <= ln /\ ~(P(sp, sn) <= lp /\ pattern[P(sp, sn)] = "*")
                => (D(sp, sn) <=> sp > 0 /\ D(sp, sn + 1))
  <2>1. sp \in 0 .. Len(pattern) /\ sn \in 1 .. Len(name) + 1
    BY <1>1, <1>2
  <2> HIDE DEF P, N
  <2>2. P(sp, sn) = sp + 1 + ReadsOn(pattern, name, sp + 1, sn) /\ N(sp, sn) = sn + ReadsOn(pattern, name, sp + 1, sn)
    BY DEF P, N
  <2> QED
    BY <1>1, <1>2, <2>1, <2>2, LoopDecides
<1>5. \A sp, sn : D(sp, sn) \in BOOLEAN
  BY DEF Decides, From
<1> HIDE DEF D
<1>6. \E f : LoopFunction(pattern, name, f)
  <2> DEFINE h == [v \in (0 .. lp) \X (1 .. ln + 1) |-> D(v[1], v[2])]
  <2>1. ASSUME NEW sp \in 0 .. lp, NEW sn \in 1 .. ln + 1
        PROVE  D(sp, sn) = IF N(sp, sn) > ln THEN OnlyStars(pattern, P(sp, sn))
                           ELSE IF P(sp, sn) <= lp /\ pattern[P(sp, sn)] = "*" THEN h[<<P(sp, sn), N(sp, sn)>>]
                           ELSE sp > 0 /\ h[<<sp, sn + 1>>]
    <3>1. PICK p : p = P(sp, sn)
      OBVIOUS
    <3>2. PICK n : n = N(sp, sn)
      OBVIOUS
    <3> HIDE DEF P, N
    <3>3. p \in sp + 1 .. lp + 1 /\ n \in sn .. ln + 1
      BY <1>4, <3>1, <3>2
    <3>4. n > ln => D(sp, sn) = OnlyStars(pattern, p)
      BY <1>4, <1>5, <3>1, <3>2 DEF OnlyStars
    <3>5. n <= ln /\ p <= lp /\ pattern[p] = "*" => D(sp, sn) = h[<<p, n>>]
      <4>1. n <= ln /\ p <= lp => p \in 0 .. lp /\ n \in 1 .. ln + 1
        BY <1>3, <3>3
      <4> QED
        BY <1>4, <1>5, <3>1, <3>2, <4>1
    <3>6. n <= ln /\ ~(p <= lp /\ pattern[p] = "*") => D(sp, sn) = (sp > 0 /\ h[<<sp, sn + 1>>])
      <4>1. n <= ln => sn + 1 \in 1 .. ln + 1
        BY <1>3, <3>3
      <4>2. n <= ln => h[<<sp, sn + 1>>] = D(sp, sn + 1)
        BY <4>1
      <4> HIDE DEF h
      <4> QED
        BY <1>4, <1>5, <3>1, <3>2, <4>2
    <3>7. n > ln \/ n <= ln
      BY <1>3, <3>3
    <3> HIDE DEF h
    <3> QED
      BY <3>1, <3>2, <3>4, <3>5, <3>6, <3>7
  <2>2. ASSUME NEW v \in (0 .. lp) \X (1 .. ln + 1)
        PROVE  D(v[1], v[2]) = IF N(v[1], v[2]) > ln THEN OnlyStars(pattern, P(v[1], v[2]))
                               ELSE IF P(v[1], v[2]) <= lp /\ pattern[P(v[1], v[2])] = "*"
                                    THEN h[<<P(v[1], v[2]), N(v[1], v[2])>>]
                               ELSE v[1] > 0 /\ h[<<v[1], v[2] + 1>>]
    <3>1. v[1] \in 0 .. lp /\ v[2] \in 1 .. ln + 1
      OBVIOUS
    <3> HIDE DEF h, P, N
    <3> QED
      BY <2>1, <3>1, Zenon
  <2>3. h = [v \in (0 .. lp) \X (1 .. ln + 1) |-> D(v[1], v[2])]
    OBVIOUS
  <2> HIDE DEF h
  <2>4. LoopFunction(pattern, name, h)
    <3>1. h = [v \in (0 .. lp) \X (1 .. ln + 1) |->
                IF N(v[1], v[2]) > ln THEN OnlyStars(pattern, P(v[1], v[2]))
                ELSE IF P(v[1], v[2]) <= lp /\ pattern[P(v[1], v[2])] = "*"
                     THEN h[<<P(v[1], v[2]), N(v[1], v[2])>>]
                ELSE v[1] > 0 /\ h[<<v[1], v[2] + 1>>]]
      BY <2>2, <2>3, Zenon
    <3> QED
      BY <1>1, <1>2, <3>1, Zenon DEF LoopFunction, OnlyStars
  <2> QED
    BY <2>4
<1>7. PICK f : LoopFunction(pattern, name, f) /\ Glob(pattern, name) = f[<<0, 1>>]
  BY <1>6, GlobIs
<1>8. ASSUME NEW sp \in 0 .. lp, NEW sn \in 1 .. ln + 1
      PROVE  f[<<sp, sn>>] = IF N(sp, sn) > ln THEN OnlyStars(pattern, P(sp, sn))
                         ELSE IF P(sp, sn) <= lp /\ pattern[P(sp, sn)] = "*" THEN f[<<P(sp, sn), N(sp, sn)>>]
                         ELSE sp > 0 /\ f[<<sp, sn + 1>>]
  <2>1. f = [v \in (0 .. lp) \X (1 .. ln + 1) |->
                IF N(v[1], v[2]) > ln THEN OnlyStars(pattern, P(v[1], v[2]))
                ELSE IF P(v[1], v[2]) <= lp /\ pattern[P(v[1], v[2])] = "*"
                     THEN f[<<P(v[1], v[2]), N(v[1], v[2])>>]
                ELSE v[1] > 0 /\ f[<<v[1], v[2] + 1>>]]
    BY <1>1, <1>2, <1>7, Zenon DEF LoopFunction, OnlyStars
  <2> HIDE DEF P, N
  <2>2. ASSUME NEW v \in (0 .. lp) \X (1 .. ln + 1)
        PROVE  f[v] = IF N(v[1], v[2]) > ln THEN OnlyStars(pattern, P(v[1], v[2]))
                      ELSE IF P(v[1], v[2]) <= lp /\ pattern[P(v[1], v[2])] = "*"
                           THEN f[<<P(v[1], v[2]), N(v[1], v[2])>>]
                      ELSE v[1] > 0 /\ f[<<v[1], v[2] + 1>>]
    BY <2>1, Zenon
  <2>3. PICK w : w = <<sp, sn>>
    OBVIOUS
  <2>4. w \in (0 .. lp) \X (1 .. ln + 1) /\ w[1] = sp /\ w[2] = sn
    BY <2>3
  <2> QED
    BY <2>2, <2>3, <2>4, Zenon
<1> HIDE DEF P, N
<1> DEFINE Wrong == {v \in (0 .. lp) \X (1 .. ln + 1) : f[v] # D(v[1], v[2])}
<1>9. Wrong = {}
  <2> SUFFICES ASSUME Wrong # {} PROVE FALSE
    OBVIOUS
  <2>1. PICK a \in 0 .. lp : /\ \E w \in Wrong : w[1] = lp - a
                             /\ \A v \in Wrong : v[1] <= lp - a
    <3> DEFINE S == {b \in 0 .. lp : \E w \in Wrong : w[1] = lp - b}
    <3>1. \A w \in Wrong : lp - w[1] \in 0 .. lp /\ lp - (lp - w[1]) = w[1]
      BY <1>3
    <3>2. S # {} /\ S \in SUBSET Nat
      BY <3>1
    <3> HIDE DEF S
    <3>3. PICK b \in S : \A c \in S : b <= c
      BY <3>2, Least
    <3>4. b \in 0 .. lp /\ \E w \in Wrong : w[1] = lp - b
      BY DEF S
    <3>5. ASSUME NEW v \in Wrong PROVE v[1] <= lp - b
      <4>1. lp - v[1] \in S
        BY <3>1 DEF S
      <4>2. b <= lp - v[1]
        BY <3>3, <4>1
      <4> QED
        BY <1>3, <3>1, <3>4, <4>2
    <3> QED
      BY <3>4, <3>5
  <2>2. PICK c \in 0 .. ln : /\ <<lp - a, ln + 1 - c>> \in Wrong
                             /\ \A v \in Wrong : v[1] = lp - a => v[2] <= ln + 1 - c
    <3> DEFINE S == {b \in 0 .. ln : <<lp - a, ln + 1 - b>> \in Wrong}
    <3>1. \A w \in Wrong : w = <<w[1], w[2]>> /\ ln + 1 - w[2] \in 0 .. ln /\ ln + 1 - (ln + 1 - w[2]) = w[2]
      BY <1>3
    <3>2. S # {} /\ S \in SUBSET Nat
      <4>1. PICK w \in Wrong : w[1] = lp - a
        BY <2>1
      <4>2. w = <<w[1], w[2]>> /\ ln + 1 - w[2] \in 0 .. ln /\ ln + 1 - (ln + 1 - w[2]) = w[2]
        BY <3>1
      <4>3. ln + 1 - w[2] \in S
        BY <4>1, <4>2, Zenon
      <4> HIDE DEF Wrong
      <4>4. \A b \in S : b \in Nat
        BY <1>3
      <4> HIDE DEF S
      <4> QED
        BY <4>3, <4>4
    <3>3. PICK b \in S : \A d \in S : b <= d
      <4> HIDE DEF S
      <4> QED
        BY <3>2, Least
    <3>4. ASSUME NEW v \in Wrong, v[1] = lp - a PROVE v[2] <= ln + 1 - b
      <4>1. ln + 1 - v[2] \in S
        BY <3>1, <3>4
      <4>2. b <= ln + 1 - v[2]
        BY <3>3, <4>1
      <4> QED
        BY <1>3, <3>1, <3>3, <4>2
    <3> QED
      BY <3>3, <3>4
  <2>3. PICK sp, sn : sp = lp - a /\ sn = ln + 1 - c
    OBVIOUS
  <2>4. sp \in 0 .. lp /\ sn \in 1 .. ln + 1 /\ f[<<sp, sn>>] # D(sp, sn)
    BY <1>3, <2>2, <2>3
  <2>5. ASSUME NEW u \in 0 .. lp, NEW v \in 1 .. ln + 1, u > sp \/ (u = sp /\ v > sn)
        PROVE  f[<<u, v>>] = D(u, v)
    <3>1. <<u, v>> \notin Wrong
      BY <1>3, <2>1, <2>2, <2>3, <2>5
    <3> QED
      BY <3>1
  <2> HIDE DEF Wrong
  <2>6. PICK p : p = P(sp, sn)
    OBVIOUS
  <2>7. PICK n : n = N(sp, sn)
    OBVIOUS
  <2>8. p \in sp + 1 .. lp + 1 /\ n \in sn .. ln + 1
    BY <1>4, <2>4, <2>6, <2>7
  <2>9. f[<<sp, sn>>] = IF n > ln THEN OnlyStars(pattern, p)
                         ELSE IF p <= lp /\ pattern[p] = "*" THEN f[<<p, n>>]
                         ELSE sp > 0 /\ f[<<sp, sn + 1>>]
    BY <1>8, <2>4, <2>6, <2>7, Zenon
  <2>10. n <= ln => ~(n > ln)
    BY <1>3, <2>8
  <2>11. CASE n > ln
    BY <1>4, <1>5, <1>8, <2>4, <2>6, <2>7, <2>11 DEF OnlyStars
  <2>12. CASE n <= ln /\ p <= lp /\ pattern[p] = "*"
    <3>1. p \in 0 .. lp /\ n \in 1 .. ln + 1 /\ p > sp
      BY <1>3, <2>4, <2>8, <2>12
    <3>2. f[<<p, n>>] = D(p, n)
      BY <2>5, <3>1
    <3>3. f[<<sp, sn>>] = f[<<p, n>>]
      BY <2>12, <2>9, <2>10, Zenon
    <3>4. D(sp, sn) <=> D(p, n)
      BY <1>4, <2>4, <2>6, <2>7, <2>12, Zenon
    <3> QED
      BY <1>5, <2>4, <3>2, <3>3, <3>4, Zenon
  <2>13. CASE n <= ln /\ ~(p <= lp /\ pattern[p] = "*")
    <3>1. sn + 1 \in 1 .. ln + 1 /\ sn + 1 > sn
      BY <1>3, <2>4, <2>8, <2>13
    <3>2. f[<<sp, sn + 1>>] = D(sp, sn + 1)
      BY <2>4, <2>5, <3>1
    <3>3. f[<<sp, sn>>] = (sp > 0 /\ f[<<sp, sn + 1>>])
      BY <2>13, <2>9, <2>10, Zenon
    <3>4. D(sp, sn) <=> sp > 0 /\ D(sp, sn + 1)
      BY <1>4, <2>4, <2>6, <2>7, <2>13, Zenon
    <3> QED
      BY <1>5, <2>4, <3>2, <3>3, <3>4, Zenon
  <2>14. n > ln \/ n <= ln
    BY <1>3, <2>8
  <2> QED
    BY <2>11, <2>12, <2>13, <2>14
<1>10. f[<<0, 1>>] = D(0, 1)
  <2>1. 0 \in 0 .. lp /\ 1 \in 1 .. ln + 1 /\ <<0, 1>> \notin Wrong
    BY <1>3, <1>9
  <2> HIDE DEF Wrong
  <2> QED
    BY <2>1 DEF Wrong
<1>11. D(0, 1) <=> Matches(pattern, name)
  BY MatchesIs DEF D, Decides
<1>12. Matches(pattern, name) \in BOOLEAN
  BY DEF Matches
<1> QED
  BY <1>5, <1>7, <1>10, <1>11, <1>12

(* GlobIsMatch holds of every pattern and every name without a star. *)
THEOREM EngineGlobIsMatch == EngineSpec => []GlobIsMatch
<1>1. GlobIsMatch
  <2> SUFFICES ASSUME NEW g \in Globs, \A i \in DOMAIN g[2] : g[2][i] # "*"
               PROVE  Glob(g[1], g[2]) = Matches(g[1], g[2])
    BY DEF GlobIsMatch
  <2>1. IsText(g[1]) /\ IsText(g[2])
    BY EngineAssumption
  <2>2. Len(g[1]) \in Nat /\ Len(g[2]) \in Nat /\ DOMAIN g[2] = 1 .. Len(g[2])
    BY <2>1 DEF IsText
  <2> QED
    BY <2>2, GlobRight
<1> QED
  BY <1>1, PTL

-----------------------------------------------------------------------------
(* The administration as one run explores it.                              *)

\* The keys of what was ever recorded, and with them those of every table.
KeysInv ==
    \A rec \in Recorder :
        /\ IsFiniteSet(DOMAIN recorded[rec])
        /\ \A k \in DOMAIN recorded[rec] : k.hour \in 1 .. hour /\ k.owner \in Column("owner")

MeterScalars ==
    /\ hour \in 1 .. MaxHours
    /\ status \in [Finished -> {"running", "measured", "settled"}]
    /\ loop \in [Recorder -> {"start", "idle", "flush", "last", "closed"}]
    /\ closing \in [Recorder -> BOOLEAN]
    /\ pricing \in SUBSET Rates /\ \A p, q \in pricing : p.model = q.model => p = q
    /\ exits \in 0 .. MaxExits

MeterTyped == MeterInv /\ MeterScalars /\ KeysInv

(* A recorded request is counted under the hour it finished in and its owner. *)
LEMMA RecordKeys ==
  ASSUME MeterInv, KeysInv, hour \in Nat \ {0}, NEW rec \in Recorder, NEW k, NEW d, Record(rec, k, d),
         k.hour = hour, k.owner \in Column("owner"), UNCHANGED hour
  PROVE  KeysInv'
<1>1. recorded' = [recorded EXCEPT ![rec] = AddTo(rec, recorded[rec], k, d)]
  BY DEF Record
<1> PICK q : q = AddTo(rec, recorded[rec], k, d)
  OBVIOUS
<1>2. recorded'[rec] = q /\ \A o \in Recorder : o # rec => recorded'[o] = recorded[o]
  BY <1>1 DEF MeterInv, MeterShape
<1>3. DOMAIN q = DOMAIN recorded[rec] \cup {k}
  <2>1. \A x : x \in DOMAIN q <=> x \in DOMAIN recorded[rec] \/ x = k
    BY AddToAt
  <2> QED
    BY <2>1
<1>4. IsFiniteSet(DOMAIN q)
  BY <1>3, FS_AddElement DEF KeysInv
<1> QED
  BY <1>2, <1>3, <1>4 DEF KeysInv

(* The types of Metering hold of what its invariant says. *)
LEMMA MeterTypes == MeterTyped => MeterTypeOK
<1> SUFFICES ASSUME MeterTyped PROVE MeterTypeOK
  OBVIOUS
<1>1. ASSUME NEW rec \in Recorder
      PROVE  /\ loop[rec] \notin {"flush", "last"} => counters[rec].flush = Empty
             /\ \A f \in {counters[rec].buf, counters[rec].flush, counters[rec].db,
                          recorded[rec], removed[rec]} :
                   \A k \in DOMAIN f : /\ k.hour \in 1 .. hour
                                       /\ k.owner \in Column("owner")
                                       /\ DOMAIN f[k] = DOMAIN Zero(rec)
  <2>1. /\ Balance(rec, counters[rec].db, counters[rec].buf, counters[rec].flush,
                   removed[rec], recorded[rec])
        /\ loop[rec] \notin {"flush", "last"} => counters[rec].flush = Empty
    BY CountersOf DEF MeterTyped
  <2>2. ASSUME NEW f \in {counters[rec].buf, counters[rec].flush, counters[rec].db,
                          recorded[rec], removed[rec]}, NEW k \in DOMAIN f
        PROVE  k \in DOMAIN recorded[rec] /\ DOMAIN f[k] = DOMAIN Zero(rec)
    <3>1. IsTable(rec, f)
      BY <2>1, Zenon DEF Balance
    <3>2. f[k] \in Deltas(rec)
      BY <3>1 DEF IsTable
    <3>3. k \in DOMAIN recorded[rec]
      BY <2>1, Zenon DEF Balance, Adds
    <3> QED
      BY <3>2, <3>3, DeltaFields DEF Deltas
  <2> QED
    BY <2>1, <2>2 DEF MeterTyped, KeysInv
<1> QED
  BY <1>1, Zenon DEF MeterTyped, MeterScalars, MeterTypeOK

(* Every step of Metering keeps its types. *)
LEMMA MeterTypedHolds ==
  /\ MeterInit => MeterTyped
  /\ MeterTyped /\ [MeterNext]_meterVars => MeterTyped'
<1>0. MaxHours \in Nat \ {0} /\ MaxExits \in Nat
  BY MeterAssumption
<1>1. ASSUME MeterInit PROVE MeterTyped
  <2>1. MeterScalars
    BY <1>0, <1>1 DEF MeterInit, MeterScalars
  <2>2. KeysInv
    BY <1>1, EmptyAt, FS_EmptySet DEF MeterInit, KeysInv
  <2> QED
    BY <1>1, <2>1, <2>2, InitMeterInv DEF MeterTyped
<1>2. ASSUME MeterTyped, [MeterNext]_meterVars PROVE MeterTyped'
  <2>1. MeterInv'
    BY <1>2, NextMeterInv DEF MeterTyped
  <2>2. MeterInv /\ MeterScalars /\ KeysInv /\ hour \in Nat \ {0}
    BY <1>0, <1>2 DEF MeterTyped, MeterScalars
  <2>3. ASSUME UNCHANGED <<hour, recorded>> PROVE KeysInv'
    BY <2>2, <2>3 DEF KeysInv
  <2>4. ASSUME NEW r \in Finished, RecordPerf(r) PROVE MeterScalars' /\ KeysInv'
    <3>1. MeterScalars'
      BY <2>2, <2>4 DEF MeterScalars, RecordPerf
    <3>2. PICK k : k = PerfKey(r)
      OBVIOUS
    <3>3. k.hour = hour /\ k.owner \in Column("owner")
      BY <3>2 DEF PerfKey, Column
    <3>4. "perf" \in Recorder /\ Record("perf", k, Sample(r)) /\ UNCHANGED hour
      BY <2>4, <3>2 DEF RecordPerf, Recorder
    <3> QED
      BY <2>2, <3>1, <3>3, <3>4, RecordKeys
  <2>5. ASSUME NEW r \in Finished, NEW served, RecordUsage(r, served) PROVE MeterScalars' /\ KeysInv'
    <3>1. MeterScalars'
      BY <2>2, <2>5 DEF MeterScalars, RecordUsage
    <3>2. PICK k : k = Bucket(r, attributedModel(r, served))
      OBVIOUS
    <3>3. k.hour = hour /\ k.owner \in Column("owner")
      BY <3>2 DEF Bucket, Column
    <3>4. PICK d : d = [requests |-> 1, prompt |-> r.tokens, completion |-> 1]
      OBVIOUS
    <3>5. "usage" \in Recorder /\ Record("usage", k, d) /\ UNCHANGED hour
      BY <2>5, <3>2, <3>4 DEF RecordUsage, Recorder
    <3> QED
      BY <2>2, <3>1, <3>3, <3>5, RecordKeys
  <2>6. ASSUME NEW r \in Finished, SettlesUncounted(r) PROVE MeterScalars' /\ KeysInv'
    BY <2>2, <2>3, <2>6 DEF MeterScalars, SettlesUncounted
  <2>7. ASSUME NEW rec \in Recorder, Prune(rec) \/ SwapBuffer(rec) \/ FlushEnds(rec)
        PROVE  MeterScalars' /\ KeysInv'
    <3>1. CASE Prune(rec)
      BY <2>2, <2>3, <3>1 DEF MeterScalars, Prune
    <3>2. CASE SwapBuffer(rec)
      BY <2>2, <2>3, <3>2 DEF MeterScalars, SwapBuffer
    <3>3. CASE FlushEnds(rec)
      BY <2>2, <2>3, <3>3 DEF MeterScalars, FlushEnds
    <3> QED
      BY <2>7, <3>1, <3>2, <3>3
  <2>8. ASSUME NEW rec \in Recorder, NEW k, WriteRow(rec, k) PROVE MeterScalars' /\ KeysInv'
    BY <2>2, <2>3, <2>8 DEF MeterScalars, WriteRow
  <2>9. ASSUME NEW rec \in Recorder, Close(rec) PROVE MeterScalars' /\ KeysInv'
    BY <2>2, <2>3, <2>9 DEF MeterScalars, Close
  <2>10. ASSUME NEW p \in Rates, SetModelPricing(p) PROVE MeterScalars' /\ KeysInv'
    BY <2>2, <2>3, <2>10 DEF MeterScalars, SetModelPricing
  <2>11. ASSUME NEW p \in Rates, DeleteModelPricing(p) PROVE MeterScalars' /\ KeysInv'
    BY <2>2, <2>3, <2>11 DEF MeterScalars, DeleteModelPricing
  <2>12. ASSUME HourPasses PROVE MeterScalars' /\ KeysInv'
    <3>1. hour' = hour + 1 /\ hour' \in 1 .. MaxHours /\ recorded' = recorded
      BY <1>0, <2>2, <2>12 DEF HourPasses, MeterScalars
    <3>2. MeterScalars'
      BY <2>2, <2>12, <3>1 DEF HourPasses, MeterScalars
    <3>3. \A n \in 1 .. hour : n \in 1 .. hour'
      BY <2>2, <3>1
    <3> QED
      BY <2>2, <3>1, <3>2, <3>3 DEF KeysInv
  <2>13. ASSUME Exit PROVE MeterScalars' /\ KeysInv'
    <3>1. exits' \in 0 .. MaxExits
      BY <1>0, <2>2, <2>13 DEF Exit, MeterScalars
    <3> QED
      BY <2>2, <2>3, <2>13, <3>1 DEF Exit, MeterScalars
  <2>14. ASSUME UNCHANGED meterVars PROVE MeterScalars' /\ KeysInv'
    BY <2>2, <2>3, <2>14 DEF meterVars, MeterScalars
  <2>15. MeterScalars' /\ KeysInv'
    BY <1>2, <2>4, <2>5, <2>6, <2>7, <2>8, <2>9, <2>10, <2>11, <2>12, <2>13, <2>14, Zenon DEF MeterNext
  <2> QED
    BY <2>1, <2>15 DEF MeterTyped
<1> QED
  BY <1>1, <1>2

-----------------------------------------------------------------------------
(* Reports.                                                                *)

(* Of finite sets, one has none of the others within it. *)
LEMMA Smallest ==
  ASSUME NEW B, B # {}, \A s \in B : IsFiniteSet(s)
  PROVE  \E s \in B : \A t \in B : t \subseteq s => t = s
<1> DEFINE Sizes == {Cardinality(s) : s \in B}
<1>1. \A s \in B : Cardinality(s) \in Nat
  BY FS_CardinalityType
<1>2. Sizes \in SUBSET Nat /\ Sizes # {}
  BY <1>1
<1>3. PICK n \in Sizes : \A k \in Sizes : n <= k
  <2> HIDE DEF Sizes
  <2> QED
    BY <1>2, Least
<1>4. PICK s \in B : Cardinality(s) = n
  BY <1>3
<1>5. ASSUME NEW t \in B, t \subseteq s PROVE t = s
  <2>1. Cardinality(t) <= Cardinality(s) /\ (Cardinality(s) = Cardinality(t) => s = t)
    BY <1>5, FS_Subset
  <2>2. Cardinality(s) <= Cardinality(t)
    BY <1>3, <1>4
  <2> QED
    BY <1>1, <2>1, <2>2
<1> QED
  BY <1>5

(* How Functions adds up the values f has on S: by taking one element away at a time. *)
One(s) == CHOOSE x \in s : TRUE

AddsUp(h, f, S) ==
    h = [s \in SUBSET S |-> IF s = {} THEN 0 ELSE f[One(s)] + h[s \ {One(s)}]]

LEMMA SumIs ==
  ASSUME NEW f, NEW S
  PROVE  SumFunctionOnSet(f, S) = (CHOOSE h : AddsUp(h, f, S))[S]
  BY DEF SumFunctionOnSet, FoldFunctionOnSet, MapThenFoldSet, AddsUp, One

LEMMA OneOf ==
  ASSUME NEW s, IsFiniteSet(s), s # {}
  PROVE  /\ One(s) \in s /\ IsFiniteSet(s \ {One(s)})
         /\ Cardinality(s \ {One(s)}) = Cardinality(s) - 1 /\ Cardinality(s) \in Nat \ {0}
<1>1. One(s) \in s
  BY DEF One
<1> QED
  BY <1>1, FS_RemoveElement, FS_CardinalityType, FS_EmptySet

Sums(h, f, S, n) ==
    /\ h = [s \in SUBSET S |-> h[s]]
    /\ \A s \in SUBSET S :
          Cardinality(s) <= n => h[s] = IF s = {} THEN 0 ELSE f[One(s)] + h[s \ {One(s)}]

(* The sets of up to N elements have sums. *)
LEMMA SumsExist ==
  ASSUME NEW f, NEW S, IsFiniteSet(S), NEW N \in Nat
  PROVE  \E h : Sums(h, f, S, N)
<1>0. SUFFICES \E h : /\ h = [s \in SUBSET S |-> h[s]]
                      /\ \A s \in SUBSET S :
                            Cardinality(s) <= N =>
                              h[s] = IF s = {} THEN 0 ELSE f[One(s)] + h[s \ {One(s)}]
  BY Zenon DEF Sums
<1> DEFINE D == SUBSET S
           Step(h, s) == IF s = {} THEN 0 ELSE f[One(s)] + h[s \ {One(s)}]
           Upto(h, n) == h = [s \in D |-> h[s]] /\ \A s \in D : Cardinality(s) <= n => h[s] = Step(h, s)
           Bad == {n \in Nat : ~ \E h : Upto(h, n)}
<1>5. \A s \in D : IsFiniteSet(s) /\ Cardinality(s) \in Nat
  BY FS_Subset, FS_CardinalityType
<1>1. SUFFICES ASSUME Bad # {} PROVE FALSE
  OBVIOUS
<1>2. PICK m \in Bad : \A k \in Bad : m <= k
  BY <1>1, Least
<1>3. CASE m = 0
  <2> DEFINE g == [s \in D |-> 0]
  <2>1. \A s \in D : Cardinality(s) <= 0 => s = {}
    BY <1>5, FS_EmptySet
  <2>2. \A s \in D : Cardinality(s) <= 0 => g[s] = Step(g, s)
    BY <2>1
  <2>3. g = [s \in D |-> g[s]]
    OBVIOUS
  <2>4. Upto(g, 0)
    <3> HIDE DEF g
    <3> QED
      BY <2>2, <2>3
  <2> QED
    BY <1>2, <1>3, <2>4
<1>4. CASE m # 0
  <2>1. m - 1 \in Nat /\ m - 1 \notin Bad
    <3>1. m \in Nat /\ m - 1 \in Nat
      BY <1>4
    <3> HIDE DEF Bad
    <3> QED
      BY <1>2, <3>1
  <2>2. PICK h : Upto(h, m - 1)
    BY <2>1
  <2> DEFINE g == [s \in D |-> IF Cardinality(s) <= m - 1 THEN h[s] ELSE Step(h, s)]
  <2>3. ASSUME NEW s \in D, Cardinality(s) <= m PROVE g[s] = Step(g, s)
    <3>1. CASE s = {}
      <4>1. h[s] = 0 \/ ~ Cardinality(s) <= m - 1
        BY <2>2, <3>1
      <4> QED
        BY <3>1, <4>1
    <3>2. CASE s # {}
      <4>1. /\ s \ {One(s)} \in D /\ Cardinality(s \ {One(s)}) <= m - 1
        BY <1>5, <2>1, <2>3, <3>2, OneOf
      <4>2. g[s \ {One(s)}] = h[s \ {One(s)}]
        BY <4>1
      <4>3. g[s] = Step(h, s)
        BY <2>2
      <4> QED
        BY <3>2, <4>2, <4>3
    <3> QED
      BY <3>1, <3>2
  <2>4. g = [s \in D |-> g[s]]
    OBVIOUS
  <2>5. Upto(g, m)
    <3> HIDE DEF g
    <3> QED
      BY <2>3, <2>4
  <2> QED
    BY <1>2, <2>5
<1> QED
  BY <1>3, <1>4

(* The sums over a finite S exist. *)
LEMMA AddsUpExists ==
  ASSUME NEW f, NEW S, IsFiniteSet(S)
  PROVE  \E h : AddsUp(h, f, S)
<1>1. Cardinality(S) \in Nat
  BY FS_CardinalityType
<1>2. PICK h : Sums(h, f, S, Cardinality(S))
  BY <1>1, SumsExist
<1>3. \A s \in SUBSET S : h[s] = IF s = {} THEN 0 ELSE f[One(s)] + h[s \ {One(s)}]
  BY <1>2, FS_Subset DEF Sums
<1>4. h = [s \in SUBSET S |-> IF s = {} THEN 0 ELSE f[One(s)] + h[s \ {One(s)}]]
  BY <1>2, <1>3 DEF Sums
<1> QED
  BY <1>4, Zenon DEF AddsUp

(* A sum takes one element away from its set. *)
LEMMA SumStep ==
  ASSUME NEW f, NEW S, IsFiniteSet(S)
  PROVE  /\ SumFunctionOnSet(f, {}) = 0
         /\ S # {} => SumFunctionOnSet(f, S) = f[One(S)] + SumFunctionOnSet(f, S \ {One(S)})
<1>1. \A T : IsFiniteSet(T) => AddsUp(CHOOSE h : AddsUp(h, f, T), f, T)
  BY AddsUpExists, Zenon
<1>2. \A T : IsFiniteSet(T) =>
        \E h : /\ AddsUp(h, f, T) /\ SumFunctionOnSet(f, T) = h[T]
               /\ \A s \in SUBSET T : h[s] = IF s = {} THEN 0 ELSE f[One(s)] + h[s \ {One(s)}]
  <2> TAKE T
  <2> HAVE IsFiniteSet(T)
  <2>1. PICK h : h = CHOOSE g : AddsUp(g, f, T)
    OBVIOUS
  <2>2. AddsUp(h, f, T)
    BY <1>1, <2>1
  <2>3. SumFunctionOnSet(f, T) = h[T]
    BY <2>1, SumIs
  <2>4. \A s \in SUBSET T : h[s] = IF s = {} THEN 0 ELSE f[One(s)] + h[s \ {One(s)}]
    BY <2>2 DEF AddsUp
  <2> QED
    BY <2>2, <2>3, <2>4
<1>3. SumFunctionOnSet(f, {}) = 0
  BY <1>2, FS_EmptySet
<1>4. ASSUME S # {} PROVE SumFunctionOnSet(f, S) = f[One(S)] + SumFunctionOnSet(f, S \ {One(S)})
  <2>1. PICK R : R = S \ {One(S)}
    OBVIOUS
  <2>2. IsFiniteSet(R) /\ R \subseteq S
    BY <1>4, <2>1, OneOf
  <2>3. PICK h : /\ SumFunctionOnSet(f, S) = h[S]
                 /\ \A s \in SUBSET S : h[s] = IF s = {} THEN 0 ELSE f[One(s)] + h[s \ {One(s)}]
    BY <1>2
  <2>4. PICK g : /\ SumFunctionOnSet(f, R) = g[R]
                 /\ \A s \in SUBSET R : g[s] = IF s = {} THEN 0 ELSE f[One(s)] + g[s \ {One(s)}]
    BY <1>2, <2>2
  <2> DEFINE Bad == {s \in SUBSET R : h[s] # g[s]}
  <2>5. ASSUME Bad # {} PROVE FALSE
    <3>1. \A s \in Bad : IsFiniteSet(s)
      BY <2>2, FS_Subset
    <3>2. PICK s \in Bad : \A t \in Bad : t \subseteq s => t = s
      <4> HIDE DEF Bad
      <4> QED
        BY <2>5, <3>1, Smallest
    <3>3. s # {} /\ s \in SUBSET S /\ IsFiniteSet(s) /\ s \in SUBSET R
      BY <2>2, <2>3, <2>4, <3>1
    <3>4. One(s) \in s
      BY <3>3, OneOf
    <3>5. h[s \ {One(s)}] = g[s \ {One(s)}]
      BY <3>2, <3>3, <3>4
    <3> QED
      BY <2>3, <2>4, <3>2, <3>3, <3>5
  <2>6. h[R] = g[R]
    BY <2>5
  <2> QED
    BY <1>4, <2>1, <2>3, <2>4, <2>6
<1> QED
  BY <1>3, <1>4

(* Nothing adds up to 0. *)
LEMMA SumNone == \A f : SumFunctionOnSet(f, {}) = 0
  BY SumStep, FS_EmptySet

(* A sum depends on nothing but the values, and is a number if they are. *)
LEMMA SumType ==
  ASSUME NEW f, NEW S, IsFiniteSet(S), \A k \in S : f[k] \in Nat
  PROVE  SumFunctionOnSet(f, S) \in Nat
<1> DEFINE Bad == {s \in SUBSET S : SumFunctionOnSet(f, s) \notin Nat}
<1>1. SUFFICES ASSUME Bad # {} PROVE FALSE
  OBVIOUS
<1>2. \A s \in Bad : IsFiniteSet(s)
  BY FS_Subset
<1>3. PICK s \in Bad : \A t \in Bad : t \subseteq s => t = s
  <2> HIDE DEF Bad
  <2> QED
    BY <1>1, <1>2, Smallest
<1>4. s # {} /\ IsFiniteSet(s) /\ s \in SUBSET S
  <2>1. SumFunctionOnSet(f, {}) \in Nat
    BY SumNone
  <2> QED
    BY <1>2, <1>3, <2>1
<1>5. One(s) \in s
  BY <1>4, OneOf
<1>6. SumFunctionOnSet(f, s \ {One(s)}) \in Nat
  BY <1>3, <1>4, <1>5
<1>7. SumFunctionOnSet(f, s) = f[One(s)] + SumFunctionOnSet(f, s \ {One(s)})
  BY <1>4, SumStep
<1> QED
  BY <1>3, <1>4, <1>5, <1>6, <1>7

LEMMA SumSame ==
  ASSUME NEW f, NEW g, NEW S, IsFiniteSet(S), \A k \in S : f[k] = g[k]
  PROVE  SumFunctionOnSet(f, S) = SumFunctionOnSet(g, S)
<1> DEFINE Bad == {s \in SUBSET S : SumFunctionOnSet(f, s) # SumFunctionOnSet(g, s)}
<1>1. SUFFICES ASSUME Bad # {} PROVE FALSE
  OBVIOUS
<1>2. \A s \in Bad : IsFiniteSet(s)
  BY FS_Subset
<1>3. PICK s \in Bad : \A t \in Bad : t \subseteq s => t = s
  <2> HIDE DEF Bad
  <2> QED
    BY <1>1, <1>2, Smallest
<1>4. s # {} /\ IsFiniteSet(s) /\ s \in SUBSET S
  <2>1. SumFunctionOnSet(f, {}) = SumFunctionOnSet(g, {})
    BY SumNone
  <2> QED
    BY <1>2, <1>3, <2>1
<1>5. One(s) \in s
  BY <1>4, OneOf
<1>6. SumFunctionOnSet(f, s \ {One(s)}) = SumFunctionOnSet(g, s \ {One(s)})
  BY <1>3, <1>4, <1>5
<1>7. /\ SumFunctionOnSet(f, s) = f[One(s)] + SumFunctionOnSet(f, s \ {One(s)})
      /\ SumFunctionOnSet(g, s) = g[One(s)] + SumFunctionOnSet(g, s \ {One(s)})
  BY <1>4, SumStep
<1> QED
  BY <1>3, <1>4, <1>5, <1>6, <1>7

(* Any element may be taken away. *)
LEMMA SumWithout ==
  ASSUME NEW f, NEW S, IsFiniteSet(S), \A k \in S : f[k] \in Nat, NEW e \in S
  PROVE  SumFunctionOnSet(f, S) = f[e] + SumFunctionOnSet(f, S \ {e})
<1> DEFINE Bad == {s \in SUBSET S : \E x \in s : SumFunctionOnSet(f, s) # f[x] + SumFunctionOnSet(f, s \ {x})}
<1>1. SUFFICES ASSUME Bad # {} PROVE FALSE
  OBVIOUS
<1>2. \A s \in SUBSET S : IsFiniteSet(s) /\ SumFunctionOnSet(f, s) \in Nat
  BY FS_Subset, SumType
<1>3. PICK s \in Bad : \A t \in Bad : t \subseteq s => t = s
  <2>1. \A s \in Bad : IsFiniteSet(s)
    BY <1>2
  <2> HIDE DEF Bad
  <2> QED
    BY <1>1, <2>1, Smallest
<1>4. PICK x \in s : SumFunctionOnSet(f, s) # f[x] + SumFunctionOnSet(f, s \ {x})
  BY <1>3
<1>5. PICK y : y = One(s)
  OBVIOUS
<1>6. /\ s \in SUBSET S /\ IsFiniteSet(s) /\ s # {} /\ y \in s
      /\ SumFunctionOnSet(f, s) = f[y] + SumFunctionOnSet(f, s \ {y})
  BY <1>2, <1>3, <1>4, <1>5, OneOf, SumStep
<1>7. x # y
  BY <1>4, <1>6
<1>8. SumFunctionOnSet(f, s \ {y}) = f[x] + SumFunctionOnSet(f, (s \ {y}) \ {x})
  BY <1>3, <1>4, <1>6, <1>7
<1>9. SumFunctionOnSet(f, s \ {x}) = f[y] + SumFunctionOnSet(f, (s \ {x}) \ {y})
  BY <1>3, <1>4, <1>6, <1>7
<1>10. (s \ {x}) \ {y} = (s \ {y}) \ {x} /\ (s \ {y}) \ {x} \in SUBSET S
  BY <1>6
<1>11. f[x] \in Nat /\ f[y] \in Nat /\ SumFunctionOnSet(f, (s \ {y}) \ {x}) \in Nat
  BY <1>2, <1>4, <1>6, <1>10
<1> QED
  BY <1>4, <1>6, <1>8, <1>9, <1>10, <1>11

(* What two sets without a common element add up to. *)
LEMMA SumUnion ==
  ASSUME NEW f, NEW A, IsFiniteSet(A), NEW B, IsFiniteSet(B), A \cap B = {},
         \A k \in A \cup B : f[k] \in Nat
  PROVE  SumFunctionOnSet(f, A \cup B) = SumFunctionOnSet(f, A) + SumFunctionOnSet(f, B)
<1> DEFINE Bad == {s \in SUBSET B : SumFunctionOnSet(f, A \cup s) # SumFunctionOnSet(f, A) + SumFunctionOnSet(f, s)}
<1>1. SUFFICES ASSUME Bad # {} PROVE FALSE
  OBVIOUS
<1>2. \A s \in SUBSET B : IsFiniteSet(s) /\ IsFiniteSet(A \cup s)
  BY FS_Subset, FS_Union
<1>3. PICK s \in Bad : \A t \in Bad : t \subseteq s => t = s
  <2>1. \A s \in Bad : IsFiniteSet(s)
    BY <1>2
  <2> HIDE DEF Bad
  <2> QED
    BY <1>1, <2>1, Smallest
<1>4. SumFunctionOnSet(f, A) \in Nat /\ SumFunctionOnSet(f, {}) = 0
  BY SumType, SumNone
<1>5. s # {} /\ s \in SUBSET B
  <2>1. SumFunctionOnSet(f, A \cup {}) = SumFunctionOnSet(f, A) + SumFunctionOnSet(f, {})
    <3>1. A \cup {} = A
      OBVIOUS
    <3> QED
      BY <1>4, <3>1
  <2> QED
    BY <1>3, <2>1
<1>6. PICK x : x \in s
  BY <1>5
<1>7. PICK r : r = s \ {x}
  OBVIOUS
<1>8. /\ r \in SUBSET B /\ x \notin A /\ x \notin r /\ x \in B /\ r \notin Bad
      /\ (A \cup s) \ {x} = A \cup r /\ x \in A \cup s
  BY <1>3, <1>5, <1>6, <1>7
<1>9. SumFunctionOnSet(f, A \cup r) = SumFunctionOnSet(f, A) + SumFunctionOnSet(f, r)
  BY <1>8
<1>10. SumFunctionOnSet(f, A \cup s) = f[x] + SumFunctionOnSet(f, A \cup r)
  <2>1. \A k \in A \cup s : f[k] \in Nat
    BY <1>5
  <2> QED
    BY <1>2, <1>5, <1>8, <2>1, SumWithout
<1>11. SumFunctionOnSet(f, s) = f[x] + SumFunctionOnSet(f, r)
  <2>1. \A k \in s : f[k] \in Nat
    BY <1>5
  <2> QED
    BY <1>2, <1>5, <1>6, <1>7, <2>1, SumWithout
<1>12. f[x] \in Nat /\ SumFunctionOnSet(f, r) \in Nat
  <2>1. \A k \in r : f[k] \in Nat
    BY <1>8
  <2> QED
    BY <1>2, <1>8, <2>1, SumType
<1>13. SumFunctionOnSet(f, A \cup s) # SumFunctionOnSet(f, A) + SumFunctionOnSet(f, s)
  BY <1>3
<1> QED
  BY <1>4, <1>9, <1>10, <1>11, <1>12, <1>13

(* The pieces of a set: every element is in one. *)
Parted(piece, Q, S) ==
    /\ \A q \in Q : piece[q] \subseteq S
    /\ \A k \in S : \E q \in Q : k \in piece[q]
    /\ \A p, q \in Q : piece[p] \cap piece[q] # {} => p = q

(* What the parts of a set add up to, the set adds up to. *)
LEMMA SumParts ==
  ASSUME NEW f, NEW S, IsFiniteSet(S), \A k \in S : f[k] \in Nat,
         NEW Q, IsFiniteSet(Q), NEW piece, Parted(piece, Q, S),
         NEW t, \A q \in Q : t[q] = SumFunctionOnSet(f, piece[q])
  PROVE  SumFunctionOnSet(t, Q) = SumFunctionOnSet(f, S)
<1> DEFINE In(R) == {k \in S : \E q \in R : k \in piece[q]}
           Bad == {R \in SUBSET Q : SumFunctionOnSet(t, R) # SumFunctionOnSet(f, In(R))}
<1>1. ASSUME Bad # {} PROVE FALSE
  <2>1. PICK R \in Bad : \A r \in Bad : r \subseteq R => r = R
    <3>1. \A r \in Bad : IsFiniteSet(r)
      BY FS_Subset
    <3> HIDE DEF Bad
    <3> QED
      BY <1>1, <3>1, Smallest
  <2>2. R # {}
    <3>1. In({}) = {}
      OBVIOUS
    <3>2. SumFunctionOnSet(t, {}) = SumFunctionOnSet(f, In({}))
      BY <3>1, SumNone
    <3> QED
      BY <2>1, <3>2
  <2>3. PICK q : q \in R
    BY <2>2
  <2>4. PICK r : r = R \ {q}
    OBVIOUS
  <2>5. R \in SUBSET Q /\ r \in SUBSET Q /\ q \in Q /\ r \notin Bad /\ r \subseteq R /\ r # R
    BY <2>1, <2>3, <2>4
  <2>6. SumFunctionOnSet(t, r) = SumFunctionOnSet(f, In(r))
    BY <2>5
  <2>7. \A p \in Q : IsFiniteSet(piece[p]) /\ t[p] \in Nat /\ piece[p] \subseteq S
    <3> TAKE p \in Q
    <3>1. piece[p] \subseteq S
      BY DEF Parted
    <3>2. IsFiniteSet(piece[p])
      BY <3>1, FS_Subset
    <3>3. SumFunctionOnSet(f, piece[p]) \in Nat
      BY <3>1, <3>2, SumType
    <3> QED
      BY <3>1, <3>2, <3>3
  <2>8. SumFunctionOnSet(t, R) = t[q] + SumFunctionOnSet(t, r)
    <3>1. IsFiniteSet(R) /\ \A p \in R : t[p] \in Nat
      BY <2>5, <2>7, FS_Subset
    <3> QED
      BY <2>3, <2>4, <3>1, SumWithout
  <2>9. PICK A : A = In(r)
    OBVIOUS
  <2>10. In(R) = A \cup piece[q] /\ A \cap piece[q] = {} /\ A \subseteq S
    <3>1. \A k \in piece[q] : k \in S
      BY <2>5, <2>7
    <3>2. \A k \in A : k \notin piece[q]
      BY <2>4, <2>5, <2>9 DEF Parted
    <3>3. \A k : k \in In(R) <=> k \in A \/ k \in piece[q]
      BY <2>3, <2>4, <2>9, <3>1
    <3> HIDE DEF In
    <3> QED
      BY <2>9, <3>2, <3>3 DEF In
  <2>11. SumFunctionOnSet(f, A \cup piece[q]) = SumFunctionOnSet(f, A) + SumFunctionOnSet(f, piece[q])
    <3>1. IsFiniteSet(A) /\ \A k \in A \cup piece[q] : f[k] \in Nat
      BY <2>5, <2>7, <2>10, FS_Subset
    <3> QED
      BY <2>5, <2>7, <2>10, <3>1, SumUnion
  <2>12. SumFunctionOnSet(f, A) \in Nat /\ SumFunctionOnSet(f, piece[q]) = t[q] /\ t[q] \in Nat
    <3>1. IsFiniteSet(A) /\ \A k \in A : f[k] \in Nat
      BY <2>10, FS_Subset
    <3> QED
      BY <2>5, <2>7, <3>1, SumType
  <2>13. SumFunctionOnSet(t, R) # SumFunctionOnSet(f, In(R))
    BY <2>1
  <2> HIDE DEF In
  <2> QED
    BY <2>6, <2>8, <2>9, <2>10, <2>11, <2>12, <2>13
<1>2. SumFunctionOnSet(t, Q) = SumFunctionOnSet(f, In(Q))
  BY <1>1
<1>3. In(Q) = S
  BY DEF Parted
<1> QED
  BY <1>2, <1>3

Weighs(h, f, a, g, b, S) ==
    \A k \in S : f[k] \in Nat /\ g[k] \in Nat /\ h[k] = f[k] * a + g[k] * b

(* A weighted sum. *)
LEMMA SumWeighted ==
  ASSUME NEW f, NEW g, NEW h, NEW S, IsFiniteSet(S), NEW a \in Nat, NEW b \in Nat,
         Weighs(h, f, a, g, b, S)
  PROVE  SumFunctionOnSet(h, S) = SumFunctionOnSet(f, S) * a + SumFunctionOnSet(g, S) * b
<1> DEFINE Right(s) == SumFunctionOnSet(h, s) = SumFunctionOnSet(f, s) * a + SumFunctionOnSet(g, s) * b
           Bad == {s \in SUBSET S : ~Right(s)}
<1>1. SUFFICES ASSUME Bad # {} PROVE FALSE
  OBVIOUS
<1>2. \A s \in SUBSET S : /\ IsFiniteSet(s)
                          /\ SumFunctionOnSet(f, s) \in Nat /\ SumFunctionOnSet(g, s) \in Nat
  BY FS_Subset, SumType DEF Weighs
<1>3. PICK s \in Bad : \A t \in Bad : t \subseteq s => t = s
  <2>1. \A s \in Bad : IsFiniteSet(s)
    BY <1>2
  <2> HIDE DEF Bad
  <2> QED
    BY <1>1, <2>1, Smallest
<1>4. s # {} /\ s \in SUBSET S /\ IsFiniteSet(s)
  <2>1. Right({})
    BY SumNone
  <2> HIDE DEF Right
  <2> QED
    BY <1>2, <1>3, <2>1
<1>5. PICK x : x = One(s)
  OBVIOUS
<1>6. PICK r : r = s \ {x}
  OBVIOUS
<1>7. x \in s /\ x \in S /\ r \in SUBSET S /\ r \subseteq s /\ r # s
  BY <1>4, <1>5, <1>6, OneOf
<1>8. /\ SumFunctionOnSet(f, s) = f[x] + SumFunctionOnSet(f, r)
      /\ SumFunctionOnSet(g, s) = g[x] + SumFunctionOnSet(g, r)
      /\ SumFunctionOnSet(h, s) = h[x] + SumFunctionOnSet(h, r)
  BY <1>4, <1>5, <1>6, SumStep
<1>9. SumFunctionOnSet(h, r) = SumFunctionOnSet(f, r) * a + SumFunctionOnSet(g, r) * b
  BY <1>3, <1>7
<1>10. \A y, z, u, v \in Nat : (y * a + z * b) + (u * a + v * b) = (y + u) * a + (z + v) * b
  OBVIOUS
<1>11. SumFunctionOnSet(h, s) = (f[x] + SumFunctionOnSet(f, r)) * a + (g[x] + SumFunctionOnSet(g, r)) * b
  BY <1>2, <1>7, <1>8, <1>9, <1>10 DEF Weighs
<1> QED
  BY <1>3, <1>8, <1>11

(* Parts that are divided lose less than one each. *)
LEMMA SumDivided ==
  ASSUME NEW f, NEW t, NEW Q, IsFiniteSet(Q), NEW U \in Nat \ {0},
         \A q \in Q : f[q] \in Nat /\ t[q] = f[q] \div U
  PROVE  SumFunctionOnSet(f, Q) \div U - SumFunctionOnSet(t, Q) \in 0 .. Cardinality(Q)
<1> DEFINE Right(s) == SumFunctionOnSet(f, s) \div U - SumFunctionOnSet(t, s) \in 0 .. Cardinality(s)
           Bad == {s \in SUBSET Q : ~Right(s)}
<1>1. SUFFICES ASSUME Bad # {} PROVE FALSE
  OBVIOUS
<1>2. \A q \in Q : t[q] \in Nat
  OBVIOUS
<1>3. \A s \in SUBSET Q : /\ IsFiniteSet(s) /\ Cardinality(s) \in Nat
                          /\ SumFunctionOnSet(f, s) \in Nat /\ SumFunctionOnSet(t, s) \in Nat
  BY <1>2, FS_Subset, FS_CardinalityType, SumType
<1>4. PICK s \in Bad : \A r \in Bad : r \subseteq s => r = s
  <2>1. \A s \in Bad : IsFiniteSet(s)
    BY <1>3
  <2> HIDE DEF Bad
  <2> QED
    BY <1>1, <2>1, Smallest
<1>5. s # {} /\ s \in SUBSET Q /\ IsFiniteSet(s)
  <2>1. Right({})
    <3>1. 0 \div U = 0 /\ Cardinality({}) = 0
      BY FS_EmptySet
    <3> QED
      BY <3>1, SumNone
  <2> HIDE DEF Right
  <2> QED
    BY <1>3, <1>4, <2>1
<1>6. PICK x : x = One(s)
  OBVIOUS
<1>7. PICK r : r = s \ {x}
  OBVIOUS
<1>8. x \in s /\ x \in Q /\ r \in SUBSET Q /\ r \subseteq s /\ r # s /\ Cardinality(s) = Cardinality(r) + 1
  BY <1>3, <1>5, <1>6, <1>7, OneOf
<1>9. /\ SumFunctionOnSet(f, s) = f[x] + SumFunctionOnSet(f, r)
      /\ SumFunctionOnSet(t, s) = t[x] + SumFunctionOnSet(t, r)
  BY <1>5, <1>6, <1>7, SumStep
<1>10. SumFunctionOnSet(f, r) \div U - SumFunctionOnSet(t, r) \in 0 .. Cardinality(r)
  BY <1>4, <1>8
<1>11. \A y, z \in Nat : (y + z) \div U - (y \div U + z \div U) \in 0 .. 1
  OBVIOUS
<1>12. (f[x] + SumFunctionOnSet(f, r)) \div U - (t[x] + SumFunctionOnSet(f, r) \div U) \in 0 .. 1
  BY <1>3, <1>8, <1>11
<1>13. (f[x] + SumFunctionOnSet(f, r)) \div U - (t[x] + SumFunctionOnSet(t, r)) \in 0 .. Cardinality(s)
  <2>1. PICK y, z, v, w, n : /\ y = (f[x] + SumFunctionOnSet(f, r)) \div U /\ z = SumFunctionOnSet(f, r) \div U
                             /\ v = t[x] /\ w = SumFunctionOnSet(t, r) /\ n = Cardinality(r)
    OBVIOUS
  <2>2. y \in Int /\ z \in Int /\ v \in Nat /\ w \in Nat /\ n \in Nat
    BY <1>2, <1>3, <1>8, <2>1
  <2>3. y - (v + z) \in 0 .. 1 /\ z - w \in 0 .. n
    BY <1>10, <1>12, <2>1
  <2>4. y - (v + w) \in 0 .. (n + 1)
    BY <2>2, <2>3
  <2> QED
    BY <1>8, <2>1, <2>4
<1> QED
  BY <1>4, <1>9, <1>13

(* A finite set of numbers has a largest. *)
LEMMA LargestIs ==
  ASSUME NEW S \in SUBSET Nat, IsFiniteSet(S), S # {}
  PROVE  Max(S) \in S /\ \A k \in S : k <= Max(S)
<1> DEFINE Bad == {s \in SUBSET S : s # {} /\ ~ \E m \in s : \A k \in s : k <= m}
<1>1. ASSUME Bad # {} PROVE FALSE
  <2>1. PICK s \in Bad : \A r \in Bad : r \subseteq s => r = s
    <3>1. \A s \in Bad : IsFiniteSet(s)
      BY FS_Subset
    <3> HIDE DEF Bad
    <3> QED
      BY <1>1, <3>1, Smallest
  <2>2. s \in SUBSET S /\ s # {} /\ ~ \E m \in s : \A k \in s : k <= m
    BY <2>1
  <2>3. PICK x : x \in s
    BY <2>2
  <2>4. PICK r : r = s \ {x}
    OBVIOUS
  <2>5. r \in SUBSET S /\ r \subseteq s /\ r # s /\ r \notin Bad /\ s \subseteq Nat
    BY <2>1, <2>2, <2>3, <2>4
  <2>6. r # {}
    BY <2>2, <2>3, <2>4, <2>5
  <2>7. PICK m \in r : \A k \in r : k <= m
    BY <2>5, <2>6
  <2>8. m \in Nat /\ x \in Nat
    BY <2>3, <2>5, <2>7
  <2>9. CASE x <= m
    BY <2>2, <2>4, <2>5, <2>7, <2>8, <2>9
  <2>10. CASE ~ x <= m
    <3>1. \A k \in s : k <= x
      BY <2>4, <2>5, <2>7, <2>8, <2>10
    <3> QED
      BY <2>2, <2>3, <3>1
  <2> QED
    BY <2>9, <2>10
<1>2. \E m \in S : \A k \in S : m >= k
  <2>1. PICK m \in S : \A k \in S : k <= m
    BY <1>1
  <2>2. \A k \in S : m >= k
    BY <2>1
  <2> QED
    BY <2>2
<1>3. Max(S) \in S /\ \A k \in S : Max(S) >= k
  BY <1>2, Zenon DEF Max
<1> QED
  BY <1>3

(* What a report is made of. *)
TablesAre ==
    /\ IsFiniteSet(DOMAIN counters["usage"].db) /\ IsFiniteSet(DOMAIN counters["perf"].db)
    /\ \A k \in DOMAIN counters["usage"].db : \A f \in DOMAIN UsageZero : counters["usage"].db[k][f] \in Nat
    /\ \A k \in DOMAIN counters["perf"].db : \A f \in DOMAIN PerfZero : counters["perf"].db[k][f] \in Nat
    /\ \A m : RateIn("in", m) \in Nat /\ RateIn("out", m) \in Nat

(* The values of a function on a finite set are finitely many. *)
LEMMA FiniteValues ==
  ASSUME NEW g, NEW S, IsFiniteSet(S)
  PROVE  IsFiniteSet({g[k] : k \in S})
<1> DEFINE h == [k \in S |-> g[k]]
<1>1. h \in Surjection(S, {g[k] : k \in S})
  BY DEF Surjection
<1> HIDE DEF h
<1> QED
  BY <1>1, FS_Surjection

(* A sum over a set of keys does not depend on how its function is written. *)
LEMMA SumOver ==
  ASSUME NEW S, IsFiniteSet(S), NEW f, NEW v, DOMAIN v = S, \A k \in S : v[k] = f[k]
  PROVE  SumFunction(v) = SumFunctionOnSet(f, S)
<1>1. SumFunction(v) = SumFunctionOnSet(v, S)
  BY Zenon DEF SumFunction
<1> QED
  BY <1>1, SumSame

(* What the keys of the usage table cost, and what they count. *)
Actual == [k \in DOMAIN counters["usage"].db |->
             IF Charged(k.model) THEN Price(k.model, counters["usage"].db[k]) ELSE 0]
Estimate == [k \in DOMAIN counters["usage"].db |->
               IF Charged(k.model) THEN 0 ELSE Price(k.model, counters["usage"].db[k])]
Free == [k \in DOMAIN counters["usage"].db |->
           IF Unpriced(k.model) THEN counters["usage"].db[k].requests ELSE 0]
Counted(rec, f) == [k \in DOMAIN counters[rec].db |-> counters[rec].db[k][f]]

(* The tokens and the costs of some rows of the usage table, as sums of those. *)
LEMMA CostsOf ==
  ASSUME NEW S, IsFiniteSet(S), S \subseteq DOMAIN counters["usage"].db
  PROVE  /\ Costs(S).actual = SumFunctionOnSet(Actual, S) \div RateUnit
         /\ Costs(S).estimated = SumFunctionOnSet(Estimate, S) \div RateUnit
         /\ Costs(S).unpriced = SumFunctionOnSet(Free, S)
         /\ \A f \in DOMAIN UsageZero : Tokens(S)[f] = SumFunctionOnSet(Counted("usage", f), S)
<1> PICK U : U = counters["usage"].db
  OBVIOUS
<1> PICK a : a = [k \in S |-> IF Charged(k.model) THEN Price(k.model, U[k]) ELSE 0]
  OBVIOUS
<1> PICK e : e = [k \in S |-> IF Charged(k.model) THEN 0 ELSE Price(k.model, U[k])]
  OBVIOUS
<1> PICK u : u = [k \in S |-> IF Unpriced(k.model) THEN U[k].requests ELSE 0]
  OBVIOUS
<1>1. /\ SumFunction(a) = SumFunctionOnSet(Actual, S)
      /\ SumFunction(e) = SumFunctionOnSet(Estimate, S)
      /\ SumFunction(u) = SumFunctionOnSet(Free, S)
  <2>1. \A k \in S : a[k] = Actual[k] /\ e[k] = Estimate[k] /\ u[k] = Free[k]
    BY DEF Actual, Estimate, Free
  <2>2. DOMAIN a = S /\ DOMAIN e = S /\ DOMAIN u = S
    OBVIOUS
  <2> QED
    BY <2>1, <2>2, SumOver
<1>2. Costs(S) = [actual |-> SumFunction(a) \div RateUnit, estimated |-> SumFunction(e) \div RateUnit,
                  unpriced |-> SumFunction(u)]
  BY DEF Costs
<1>3. ASSUME NEW f \in DOMAIN UsageZero
      PROVE  Tokens(S)[f] = SumFunctionOnSet(Counted("usage", f), S)
  <2> PICK v : v = [k \in S |-> U[k][f]]
    OBVIOUS
  <2>1. Tokens(S)[f] = SumFunction(v)
    BY DEF Tokens
  <2>2. DOMAIN v = S /\ \A k \in S : v[k] = Counted("usage", f)[k]
    BY DEF Counted
  <2> QED
    BY <2>1, <2>2, SumOver
<1> QED
  BY <1>1, <1>2, <1>3

Scope(rec, owners) == {k \in DOMAIN counters[rec].db : InScope(owners, k)}

(* The rows of a report are the parts of the table it is about. *)
LEMMA RowsPart ==
  ASSUME NEW rec, NEW owners, NEW by, NEW daily, IsFiniteSet(Scope(rec, owners)),
         NEW rows, \A row \in rows : row.of \in GroupsOf(rec, owners, by, daily),
         \A S \in GroupsOf(rec, owners, by, daily) : \E row \in rows : row.of = S,
         \A p, q \in rows : p.of = q.of => p = q
  PROVE  /\ IsFiniteSet(rows)
         /\ Parted([row \in rows |-> row.of], rows, Scope(rec, owners))
<1> PICK S : S = Scope(rec, owners)
  OBVIOUS
<1>1. GroupsOf(rec, owners, by, daily)
      = {{k \in S : Group(k, by, daily) = g} : g \in {Group(k, by, daily) : k \in S}}
  BY DEF GroupsOf, Scope
<1>2. ASSUME NEW G \in GroupsOf(rec, owners, by, daily)
      PROVE  \E g : \A k : k \in G <=> k \in S /\ Group(k, by, daily) = g
  <2>1. PICK g : G = {k \in S : Group(k, by, daily) = g}
    BY <1>1
  <2> QED
    BY <2>1
<1>3. \A row \in rows : row.of \subseteq S
  BY <1>2
<1>4. \A k \in S : \E row \in rows : k \in row.of
  <2> TAKE k \in S
  <2>1. PICK G : G = {x \in S : Group(x, by, daily) = Group(k, by, daily)}
    OBVIOUS
  <2>2. G \in GroupsOf(rec, owners, by, daily) /\ k \in G
    BY <1>1, <2>1
  <2> QED
    BY <2>2
<1>5. \A p, q \in rows : p.of \cap q.of # {} => p = q
  <2> TAKE p, q \in rows
  <2> HAVE p.of \cap q.of # {}
  <2>1. PICK g : \A k : k \in p.of <=> k \in S /\ Group(k, by, daily) = g
    BY <1>2
  <2>2. PICK h : \A k : k \in q.of <=> k \in S /\ Group(k, by, daily) = h
    BY <1>2
  <2>3. g = h
    BY <2>1, <2>2
  <2>4. p.of = q.of
    <3>1. \A k : k \in p.of <=> k \in q.of
      BY <2>1, <2>2, <2>3
    <3>2. \A G \in GroupsOf(rec, owners, by, daily) : \A H \in GroupsOf(rec, owners, by, daily) :
             (\A k : k \in G <=> k \in H) => G = H
      OBVIOUS
    <3> QED
      BY <3>1, <3>2
  <2> QED
    BY <2>4
<1>6. Parted([row \in rows |-> row.of], rows, S)
  BY <1>3, <1>4, <1>5 DEF Parted
<1>7. IsFiniteSet(rows)
  <2> DEFINE f == [row \in rows |-> row.of]
  <2>1. IsFiniteSet(SUBSET S)
    BY FS_SUBSET
  <2>2. f \in Injection(rows, SUBSET S)
    BY <1>3 DEF Injection, IsInjective
  <2> HIDE DEF f
  <2> QED
    BY <2>1, <2>2, FS_Injection
<1> QED
  BY <1>6, <1>7

\* The rows of one usage report against its totals: tokens exactly, money to
\* less than one micro-unit a row.
UsageAddsUp(owners, by, daily) ==
    /\ \A f \in DOMAIN UsageZero : \A t :
          DOMAIN t = QueryUsage(owners, by, daily) /\ (\A row \in DOMAIN t : t[row] = row.tokens[f]) =>
            SumFunction(t) = UsageTotals(owners).tokens[f]
    /\ SumFunction([row \in QueryUsage(owners, by, daily) |-> row.costs.unpriced])
       = UsageTotals(owners).costs.unpriced
    /\ UsageTotals(owners).costs.actual
       - SumFunction([row \in QueryUsage(owners, by, daily) |-> row.costs.actual])
       \in 0 .. Cardinality(QueryUsage(owners, by, daily))
    /\ UsageTotals(owners).costs.estimated
       - SumFunction([row \in QueryUsage(owners, by, daily) |-> row.costs.estimated])
       \in 0 .. Cardinality(QueryUsage(owners, by, daily))

(* The rows of a usage report add up to the totals. *)
LEMMA UsageAgrees ==
  ASSUME TablesAre, RateUnit \in Nat \ {0}, NEW owners, NEW by, NEW daily
  PROVE  UsageAddsUp(owners, by, daily)
<1> PICK rows : rows = QueryUsage(owners, by, daily)
  OBVIOUS
<1> PICK S : S = Scope("usage", owners)
  OBVIOUS
<1> PICK piece : piece = [row \in rows |-> row.of]
  OBVIOUS
<1>1. IsFiniteSet(S) /\ S \subseteq DOMAIN counters["usage"].db
  BY FS_Subset DEF TablesAre, Scope
<1>2. \A row \in rows : /\ row.of \in GroupsOf("usage", owners, by, daily)
                        /\ row = [of |-> row.of, tokens |-> Tokens(row.of), costs |-> Costs(row.of)]
  BY DEF QueryUsage
<1>3. IsFiniteSet(rows) /\ Parted(piece, rows, S)
  <2>1. ASSUME NEW G \in GroupsOf("usage", owners, by, daily) PROVE \E row \in rows : row.of = G
    <3>1. PICK row : row = [of |-> G, tokens |-> Tokens(G), costs |-> Costs(G)]
      OBVIOUS
    <3>2. row \in rows
      BY <3>1 DEF QueryUsage
    <3> QED
      BY <3>1, <3>2
  <2>2. \A p, q \in rows : p.of = q.of => p = q
    BY <1>2
  <2> QED
    BY <1>1, <1>2, <2>1, <2>2, RowsPart
<1>4. \A row \in rows : /\ piece[row] = row.of /\ row.of \subseteq S /\ IsFiniteSet(row.of)
                        /\ row.tokens = Tokens(row.of) /\ row.costs = Costs(row.of)
  <2>1. \A row \in rows : piece[row] = row.of /\ piece[row] \subseteq S
    BY <1>3 DEF Parted
  <2> QED
    BY <1>1, <1>2, <2>1, FS_Subset
<1>5. UsageTotals(owners).tokens = Tokens(S) /\ UsageTotals(owners).costs = Costs(S)
  BY DEF UsageTotals, Scope
<1>6. \A k \in S : Actual[k] \in Nat /\ Estimate[k] \in Nat /\ Free[k] \in Nat
  <2> TAKE k \in S
  <2>1. PICK d : d = counters["usage"].db[k]
    OBVIOUS
  <2>2. d.requests \in Nat /\ d.prompt \in Nat /\ d.completion \in Nat
    BY <1>1, <2>1 DEF TablesAre, UsageZero
  <2>3. RateIn("in", k.model) \in Nat /\ RateIn("out", k.model) \in Nat
    BY DEF TablesAre
  <2>4. \A x, y, z, w \in Nat : x * y + z * w \in Nat
    OBVIOUS
  <2>5. Price(k.model, d) \in Nat
    BY <2>2, <2>3, <2>4 DEF Price
  <2> QED
    BY <1>1, <2>1, <2>2, <2>5 DEF Actual, Estimate, Free
<1>7. ASSUME NEW f \in DOMAIN UsageZero, NEW t, DOMAIN t = rows,
             \A row \in rows : t[row] = row.tokens[f]
      PROVE  SumFunction(t) = Tokens(S)[f]
  <2>1. \A k \in S : Counted("usage", f)[k] \in Nat
    BY <1>1 DEF TablesAre, Counted
  <2>2. \A row \in rows : t[row] = SumFunctionOnSet(Counted("usage", f), piece[row])
    BY <1>1, <1>4, <1>7, CostsOf
  <2>3. SumFunctionOnSet(t, rows) = SumFunctionOnSet(Counted("usage", f), S)
    BY <1>1, <1>3, <2>1, <2>2, SumParts
  <2>4. SumFunction(t) = SumFunctionOnSet(t, rows)
    BY <1>3, <1>7, SumOver
  <2> QED
    BY <1>1, <2>3, <2>4, CostsOf
<1>8. SumFunction([row \in rows |-> row.costs.unpriced]) = Costs(S).unpriced
  <2> PICK t : t = [row \in rows |-> row.costs.unpriced]
    OBVIOUS
  <2>1. \A row \in rows : t[row] = SumFunctionOnSet(Free, piece[row])
    BY <1>1, <1>4, CostsOf
  <2>2. SumFunctionOnSet(t, rows) = SumFunctionOnSet(Free, S)
    BY <1>1, <1>3, <1>6, <2>1, SumParts
  <2>3. SumFunction(t) = SumFunctionOnSet(t, rows)
    BY <1>3, SumOver
  <2> QED
    BY <1>1, <2>2, <2>3, CostsOf
<1>9. ASSUME NEW g, \A k \in S : g[k] \in Nat, NEW t, DOMAIN t = rows,
             \A row \in rows : t[row] = SumFunctionOnSet(g, piece[row]) \div RateUnit
      PROVE  SumFunctionOnSet(g, S) \div RateUnit - SumFunction(t) \in 0 .. Cardinality(rows)
  <2> PICK w : w = [row \in rows |-> SumFunctionOnSet(g, piece[row])]
    OBVIOUS
  <2>1. SumFunctionOnSet(w, rows) = SumFunctionOnSet(g, S)
    BY <1>1, <1>3, <1>9, SumParts
  <2>2. \A row \in rows : w[row] \in Nat /\ t[row] = w[row] \div RateUnit
    <3> TAKE row \in rows
    <3>1. IsFiniteSet(piece[row]) /\ \A k \in piece[row] : g[k] \in Nat
      BY <1>4, <1>9
    <3> QED
      BY <1>9, <3>1, SumType
  <2>3. SumFunctionOnSet(w, rows) \div RateUnit - SumFunctionOnSet(t, rows) \in 0 .. Cardinality(rows)
    BY <1>3, <2>2, SumDivided
  <2>4. SumFunction(t) = SumFunctionOnSet(t, rows)
    BY <1>3, <1>9, SumOver
  <2> QED
    BY <2>1, <2>3, <2>4
<1>10. Costs(S).actual - SumFunction([row \in rows |-> row.costs.actual]) \in 0 .. Cardinality(rows)
  <2> PICK t : t = [row \in rows |-> row.costs.actual]
    OBVIOUS
  <2>1. DOMAIN t = rows /\ \A row \in rows : t[row] = SumFunctionOnSet(Actual, piece[row]) \div RateUnit
    BY <1>1, <1>4, CostsOf
  <2>2. SumFunctionOnSet(Actual, S) \div RateUnit - SumFunction(t) \in 0 .. Cardinality(rows)
    BY <1>6, <1>9, <2>1
  <2> QED
    BY <1>1, <2>2, CostsOf
<1>11. Costs(S).estimated - SumFunction([row \in rows |-> row.costs.estimated]) \in 0 .. Cardinality(rows)
  <2> PICK t : t = [row \in rows |-> row.costs.estimated]
    OBVIOUS
  <2>1. DOMAIN t = rows /\ \A row \in rows : t[row] = SumFunctionOnSet(Estimate, piece[row]) \div RateUnit
    BY <1>1, <1>4, CostsOf
  <2>2. SumFunctionOnSet(Estimate, S) \div RateUnit - SumFunction(t) \in 0 .. Cardinality(rows)
    BY <1>6, <1>9, <2>1
  <2> QED
    BY <1>1, <2>2, CostsOf
<1> QED
  BY <1>5, <1>7, <1>8, <1>10, <1>11 DEF UsageAddsUp

(* A row of one model costs what CostMicro says of its tokens. *)
LEMMA ModelRowCosts ==
  ASSUME TablesAre, RateUnit \in Nat \ {0}, NEW owners,
         NEW row \in QueryUsage(owners, "model", FALSE), NEW k \in row.of
  PROVE  row.costs.actual + row.costs.estimated = CostMicro(k.model, row.tokens)
<1> PICK S : S = Scope("usage", owners)
  OBVIOUS
<1> PICK U : U = counters["usage"].db
  OBVIOUS
<1> PICK R : R = row.of
  OBVIOUS
<1>1. IsFiniteSet(S) /\ S \subseteq DOMAIN U
  BY FS_Subset DEF TablesAre, Scope
<1>2. PICK G \in GroupsOf("usage", owners, "model", FALSE) :
        row = [of |-> G, tokens |-> Tokens(G), costs |-> Costs(G)]
  BY DEF QueryUsage
<1>3. R = G /\ row.tokens = Tokens(R) /\ row.costs = Costs(R) /\ k \in R
  BY <1>2
<1>4. PICK g : R = {x \in S : Group(x, "model", FALSE) = g}
  <2>1. GroupsOf("usage", owners, "model", FALSE)
        = {{x \in S : Group(x, "model", FALSE) = g} : g \in {Group(x, "model", FALSE) : x \in S}}
    BY DEF GroupsOf, Scope
  <2> QED
    BY <1>2, <1>3, <2>1
<1>5. \A x \in R : x.model = k.model
  <2> TAKE x \in R
  <2>1. Group(x, "model", FALSE) = Group(k, "model", FALSE)
    BY <1>3, <1>4
  <2>2. <<x.hour, x.model>> = <<k.hour, k.model>>
    BY <2>1 DEF Group
  <2> QED
    BY <2>2
<1>6. IsFiniteSet(R) /\ R \subseteq DOMAIN U
  BY <1>1, <1>4, FS_Subset
<1> PICK m : m = k.model
  OBVIOUS
<1> PICK a : a = RateIn("in", m)
  OBVIOUS
<1> PICK b : b = RateIn("out", m)
  OBVIOUS
<1> PICK p : p = Counted("usage", "prompt")
  OBVIOUS
<1> PICK c : c = Counted("usage", "completion")
  OBVIOUS
<1>7. a \in Nat /\ b \in Nat
  BY DEF TablesAre
<1>8. /\ \A x \in R : /\ p[x] \in Nat /\ c[x] \in Nat
                      /\ Price(m, U[x]) = p[x] * a + c[x] * b
      /\ row.tokens.prompt = SumFunctionOnSet(p, R) /\ row.tokens.completion = SumFunctionOnSet(c, R)
  <2>1. "prompt" \in DOMAIN UsageZero /\ "completion" \in DOMAIN UsageZero
    BY DEF UsageZero
  <2>2. row.tokens.prompt = SumFunctionOnSet(p, R) /\ row.tokens.completion = SumFunctionOnSet(c, R)
    BY <1>3, <1>6, <2>1, CostsOf
  <2>3. \A x \in R : p[x] = U[x].prompt /\ c[x] = U[x].completion
    BY <1>6 DEF Counted
  <2>4. \A x \in R : p[x] \in Nat /\ c[x] \in Nat
    BY <1>6, <2>1, <2>3 DEF TablesAre
  <2>5. \A x \in R : Price(m, U[x]) = p[x] * a + c[x] * b
    BY <2>3 DEF Price
  <2> QED
    BY <2>2, <2>4, <2>5
<1>9. /\ row.costs.actual = SumFunctionOnSet(Actual, R) \div RateUnit
      /\ row.costs.estimated = SumFunctionOnSet(Estimate, R) \div RateUnit
  BY <1>3, <1>6, CostsOf
<1>10. ASSUME NEW h, \A x \in R : h[x] = Price(m, U[x])
       PROVE  SumFunctionOnSet(h, R) \div RateUnit = CostMicro(m, row.tokens)
  <2>1. \A x \in R : p[x] \in Nat /\ c[x] \in Nat /\ h[x] = p[x] * a + c[x] * b
    BY <1>8, <1>10
  <2>4. Weighs(h, p, a, c, b, R)
    BY <2>1 DEF Weighs
  <2>2. SumFunctionOnSet(h, R) = SumFunctionOnSet(p, R) * a + SumFunctionOnSet(c, R) * b
    BY <1>6, <1>7, <2>4, SumWeighted
  <2>3. SumFunctionOnSet(h, R) = row.tokens.prompt * a + row.tokens.completion * b
    BY <1>8, <2>2
  <2> QED
    BY <2>3 DEF CostMicro, Price
<1>11. ASSUME NEW h, \A x \in R : h[x] = 0
       PROVE  SumFunctionOnSet(h, R) \div RateUnit = 0
  <2>1. \A x \in R : p[x] \in Nat /\ c[x] \in Nat /\ h[x] = p[x] * 0 + c[x] * 0
    BY <1>8, <1>11
  <2>2. 0 \in Nat /\ Weighs(h, p, 0, c, 0, R)
    BY <2>1 DEF Weighs
  <2>3. SumFunctionOnSet(h, R) = SumFunctionOnSet(p, R) * 0 + SumFunctionOnSet(c, R) * 0
    BY <1>6, <2>2, SumWeighted
  <2>4. SumFunctionOnSet(p, R) \in Nat /\ SumFunctionOnSet(c, R) \in Nat
    BY <1>6, <1>8, SumType
  <2>5. SumFunctionOnSet(h, R) = 0
    BY <2>3, <2>4
  <2> QED
    BY <2>5
<1>12. CostMicro(m, row.tokens) \in Nat
  <2>1. row.tokens.prompt \in Nat /\ row.tokens.completion \in Nat
    BY <1>6, <1>8, SumType
  <2>2. \A x, y, z, w \in Nat : x * y + z * w \in Nat
    OBVIOUS
  <2>3. Price(m, row.tokens) \in Nat
    BY <1>7, <2>1, <2>2 DEF Price
  <2> QED
    BY <2>3 DEF CostMicro
<1>13. CASE Charged(m)
  <2>1. \A x \in R : Actual[x] = Price(m, U[x]) /\ Estimate[x] = 0
    BY <1>5, <1>6, <1>13 DEF Actual, Estimate
  <2>2. row.costs.actual = CostMicro(m, row.tokens) /\ row.costs.estimated = 0
    BY <1>9, <1>10, <1>11, <2>1
  <2> QED
    BY <1>12, <2>2
<1>14. CASE ~Charged(m)
  <2>1. \A x \in R : Actual[x] = 0 /\ Estimate[x] = Price(m, U[x])
    BY <1>5, <1>6, <1>14 DEF Actual, Estimate
  <2>2. row.costs.actual = 0 /\ row.costs.estimated = CostMicro(m, row.tokens)
    BY <1>9, <1>10, <1>11, <2>1
  <2> QED
    BY <1>12, <2>2
<1> QED
  BY <1>13, <1>14

(* The measurements of some rows of the performance table. *)
LEMMA StatsOf ==
  ASSUME NEW S, IsFiniteSet(S), S \subseteq DOMAIN counters["perf"].db
  PROVE  /\ Stats(S) = [f \in DOMAIN PerfZero |-> Stats(S)[f]]
         /\ Stats(S).peak = Max({0} \cup {counters["perf"].db[k].peak : k \in S})
         /\ \A f \in DOMAIN PerfZero \ {"peak"} : Stats(S)[f] = SumFunctionOnSet(Counted("perf", f), S)
<1> PICK P : P = counters["perf"].db
  OBVIOUS
<1> PICK v : v = [k \in S |-> P[k]]
  OBVIOUS
<1>1. Stats(S) = Together(v)
  BY DEF Stats
<1>2. Together(v) = [f \in DOMAIN PerfZero |-> Together(v)[f]]
  BY DEF Together
<1>3. Together(v).peak = Max({0} \cup {P[k].peak : k \in S})
  <2>1. {v[k].peak : k \in DOMAIN v} = {P[k].peak : k \in S}
    OBVIOUS
  <2>2. "peak" \in DOMAIN PerfZero
    BY DEF PerfZero
  <2> QED
    BY <2>1, <2>2 DEF Together
<1>4. ASSUME NEW f \in DOMAIN PerfZero \ {"peak"}
      PROVE  Together(v)[f] = SumFunctionOnSet(Counted("perf", f), S)
  <2> PICK t : t = [i \in DOMAIN v |-> v[i][f]]
    OBVIOUS
  <2>1. Together(v)[f] = SumFunction(t)
    BY DEF Together
  <2>2. DOMAIN t = S /\ \A k \in S : t[k] = Counted("perf", f)[k]
    BY DEF Counted
  <2> QED
    BY <2>1, <2>2, SumOver
<1> QED
  BY <1>1, <1>2, <1>3, <1>4

(* The measurements of the parts of a set are together those of the set. *)
LEMMA PartsTogether ==
  ASSUME TablesAre, NEW S, S \subseteq DOMAIN counters["perf"].db,
         NEW Q, IsFiniteSet(Q), NEW piece, Parted(piece, Q, S),
         NEW v, DOMAIN v = Q, \A q \in Q : v[q] = Stats(piece[q])
  PROVE  Together(v) = Stats(S)
<1> PICK P : P = counters["perf"].db
  OBVIOUS
<1>1. IsFiniteSet(S)
  BY FS_Subset DEF TablesAre
<1>2. \A q \in Q : piece[q] \subseteq S /\ IsFiniteSet(piece[q]) /\ piece[q] \subseteq DOMAIN counters["perf"].db
  BY <1>1, FS_Subset DEF Parted
<1>3. ASSUME NEW f \in DOMAIN PerfZero \ {"peak"} PROVE Together(v)[f] = Stats(S)[f]
  <2> PICK t : t = [q \in DOMAIN v |-> v[q][f]]
    OBVIOUS
  <2>1. Together(v)[f] = SumFunction(t)
    BY DEF Together
  <2>2. SumFunction(t) = SumFunctionOnSet(t, Q)
    BY SumOver
  <2>3. \A q \in Q : t[q] = SumFunctionOnSet(Counted("perf", f), piece[q])
    BY <1>2, StatsOf
  <2>4. \A k \in S : Counted("perf", f)[k] \in Nat
    BY DEF TablesAre, Counted
  <2>5. SumFunctionOnSet(t, Q) = SumFunctionOnSet(Counted("perf", f), S)
    BY <1>1, <2>3, <2>4, SumParts
  <2> QED
    BY <1>1, <2>1, <2>2, <2>5, StatsOf
<1>4. Together(v).peak = Stats(S).peak
  <2> DEFINE Peaks(T) == {0} \cup {P[k].peak : k \in T}
  <2>1. \A k \in S : P[k].peak \in Nat
    <3>1. "peak" \in DOMAIN PerfZero
      BY DEF PerfZero
    <3> QED
      BY <3>1 DEF TablesAre
  <2>2. ASSUME NEW T, T \subseteq S
        PROVE  Max(Peaks(T)) \in Peaks(T) /\ \A n \in Peaks(T) : n <= Max(Peaks(T))
    <3>1. IsFiniteSet(T)
      BY <1>1, <2>2, FS_Subset
    <3>6. \A h : IsFiniteSet({h[k] : k \in T})
      BY <3>1, FiniteValues
    <3> PICK g : g = [k \in S |-> P[k].peak]
      OBVIOUS
    <3>2. {P[k].peak : k \in T} = {g[k] : k \in T}
      BY <2>2
    <3>3. IsFiniteSet({g[k] : k \in T})
      BY <3>6
    <3>4. IsFiniteSet(Peaks(T))
      BY <3>2, <3>3, FS_Union, FS_Singleton
    <3>5. Peaks(T) \in SUBSET Nat /\ Peaks(T) # {}
      BY <2>1, <2>2
    <3> HIDE DEF Peaks
    <3> QED
      BY <3>4, <3>5, LargestIs
  <2>3. \A q \in Q : v[q].peak = Max(Peaks(piece[q]))
    BY <1>2, StatsOf
  <2>4. Stats(S).peak = Max(Peaks(S))
    BY <1>1, StatsOf
  <2> PICK B : B = {0} \cup {v[q].peak : q \in Q}
    OBVIOUS
  <2>5. Together(v).peak = Max(B)
    <3>1. "peak" \in DOMAIN PerfZero
      BY DEF PerfZero
    <3> QED
      BY <3>1 DEF Together
  <2>6. \A q \in Q : v[q].peak \in Peaks(piece[q]) /\ \A n \in Peaks(piece[q]) : n <= v[q].peak
    <3> HIDE DEF Peaks
    <3> QED
      BY <1>2, <2>2, <2>3
  <2>7. \A q \in Q : Peaks(piece[q]) \subseteq Peaks(S)
    BY <1>2
  <2>8. Peaks(S) \subseteq Nat
    BY <2>1
  <2>9. B \subseteq Peaks(S)
    BY <2>6, <2>7
  <2>10. Max(B) \in B /\ \A n \in B : n <= Max(B)
    <3> PICK g : g = [q \in Q |-> v[q].peak]
      OBVIOUS
    <3>1. {v[q].peak : q \in Q} = {g[q] : q \in Q}
      OBVIOUS
    <3>2. IsFiniteSet({g[q] : q \in Q})
      BY FiniteValues
    <3>3. IsFiniteSet(B)
      BY <3>1, <3>2, FS_Union, FS_Singleton
    <3>4. B \in SUBSET Nat /\ B # {}
      BY <2>8, <2>9
    <3> QED
      BY <3>3, <3>4, LargestIs
  <2>11. Max(Peaks(S)) \in Peaks(S) /\ \A n \in Peaks(S) : n <= Max(Peaks(S))
    BY <2>2
  <2>12. \E n \in B : Max(Peaks(S)) <= n
    <3>1. CASE Max(Peaks(S)) = 0
      <4>1. 0 \in B /\ 0 <= 0
        OBVIOUS
      <4> HIDE DEF Peaks
      <4> QED
        BY <3>1, <4>1
    <3>2. CASE Max(Peaks(S)) # 0
      <4>1. PICK k \in S : Max(Peaks(S)) = P[k].peak
        BY <2>11, <3>2
      <4>2. PICK q \in Q : k \in piece[q]
        BY DEF Parted
      <4>3. P[k].peak \in Peaks(piece[q])
        BY <4>2
      <4>4. P[k].peak <= v[q].peak /\ v[q].peak \in B
        BY <2>6, <4>3
      <4> QED
        BY <4>1, <4>4
    <3> QED
      BY <3>1, <3>2
  <2>13. Max(Peaks(S)) \in Nat /\ Max(B) \in Nat /\ B \subseteq Nat
    BY <2>8, <2>9, <2>10, <2>11
  <2> HIDE DEF Peaks
  <2>14. Max(Peaks(S)) <= Max(B)
    BY <2>10, <2>12, <2>13
  <2>15. Max(B) <= Max(Peaks(S))
    BY <2>9, <2>10, <2>11
  <2> QED
    BY <2>4, <2>5, <2>13, <2>14, <2>15
<1>5. Stats(S) = [f \in DOMAIN PerfZero |-> Stats(S)[f]]
  BY <1>1, StatsOf
<1>6. Together(v) = [f \in DOMAIN PerfZero |-> Together(v)[f]]
  BY DEF Together
<1> QED
  BY <1>3, <1>4, <1>5, <1>6

(* The rows of a performance report are together the totals. *)
LEMMA PerfAgrees ==
  ASSUME TablesAre, NEW owners, NEW by, NEW daily
  PROVE  Together([row \in QueryPerf(owners, by, daily) |-> row.stats]) = PerfTotals(owners)
<1> PICK S : S = Scope("perf", owners)
  OBVIOUS
<1> PICK rows : rows = QueryPerf(owners, by, daily)
  OBVIOUS
<1> PICK piece : piece = [row \in rows |-> row.of]
  OBVIOUS
<1> PICK v : v = [row \in rows |-> row.stats]
  OBVIOUS
<1>1. IsFiniteSet(S) /\ S \subseteq DOMAIN counters["perf"].db
  BY FS_Subset DEF TablesAre, Scope
<1>2. \A row \in rows : /\ row.of \in GroupsOf("perf", owners, by, daily)
                        /\ row = [of |-> row.of, stats |-> Stats(row.of)]
  BY DEF QueryPerf
<1>3. IsFiniteSet(rows) /\ Parted(piece, rows, S)
  <2>1. ASSUME NEW G \in GroupsOf("perf", owners, by, daily) PROVE \E row \in rows : row.of = G
    <3>1. PICK row : row = [of |-> G, stats |-> Stats(G)]
      OBVIOUS
    <3>2. row \in rows
      BY <3>1 DEF QueryPerf
    <3> QED
      BY <3>1, <3>2
  <2>2. \A p, q \in rows : p.of = q.of => p = q
    BY <1>2
  <2> QED
    BY <1>1, <1>2, <2>1, <2>2, RowsPart
<1>4. DOMAIN v = rows /\ \A row \in rows : v[row] = Stats(piece[row])
  BY <1>2
<1>5. Together(v) = Stats(S)
  BY <1>1, <1>3, <1>4, PartsTogether
<1> QED
  BY <1>5 DEF PerfTotals, Scope

(* The rows of a set by the model they name. *)
LEMMA ModelsTogether ==
  ASSUME TablesAre, NEW T, T \subseteq DOMAIN counters["perf"].db,
         NEW v, v = [m \in {k.model : k \in T} |-> Stats({k \in T : k.model = m})]
  PROVE  Together(v) = Stats(T)
<1>1. IsFiniteSet(T)
  BY FS_Subset DEF TablesAre
<1>2. \A h : IsFiniteSet({h[k] : k \in T})
  BY <1>1, FiniteValues
<1> PICK Q : Q = {k.model : k \in T}
  OBVIOUS
<1>3. IsFiniteSet(Q)
  <2> PICK h : h = [k \in T |-> k.model]
    OBVIOUS
  <2>1. Q = {h[k] : k \in T}
    OBVIOUS
  <2>2. IsFiniteSet({h[k] : k \in T})
    BY <1>2
  <2> QED
    BY <2>1, <2>2, Zenon
<1> PICK piece : piece = [m \in Q |-> {k \in T : k.model = m}]
  OBVIOUS
<1>4. Parted(piece, Q, T)
  <2>1. \A m \in Q : piece[m] \subseteq T /\ \A k : k \in piece[m] <=> k \in T /\ k.model = m
    OBVIOUS
  <2>2. \A k \in T : k.model \in Q
    OBVIOUS
  <2>3. \A k \in T : \E m \in Q : k \in piece[m]
    BY <2>1, <2>2
  <2>4. ASSUME NEW p \in Q, NEW q \in Q, piece[p] \cap piece[q] # {} PROVE p = q
    <3>1. PICK k : k \in piece[p] /\ k \in piece[q]
      BY <2>4
    <3> QED
      BY <2>1, <3>1
  <2>5. \A m \in Q : piece[m] \subseteq T
    BY <2>1
  <2> QED
    BY <2>3, <2>4, <2>5, Zenon DEF Parted
<1>5. DOMAIN v = Q /\ \A m \in Q : v[m] = Stats(piece[m])
  OBVIOUS
<1>6. \A S \in SUBSET DOMAIN counters["perf"].db : Parted(piece, Q, S) => Together(v) = Stats(S)
  BY <1>3, <1>5, PartsTogether
<1> QED
  BY <1>4, <1>6

(* The models of a worker are together the worker. *)
LEMMA ClientsAgree ==
  ASSUME TablesAre, NEW owners
  PROVE  /\ DOMAIN PerfByClientModel(owners) = DOMAIN PerfByClient(owners)
         /\ \A c \in DOMAIN PerfByClient(owners) :
              Together(PerfByClientModel(owners)[c]) = PerfByClient(owners)[c]
<1> PICK S : S = {k \in DOMAIN counters["perf"].db : InScope(owners, k) /\ k.client # ""}
  OBVIOUS
<1>1. /\ PerfByClient(owners) = [c \in {k.client : k \in S} |-> Stats({k \in S : k.client = c})]
      /\ PerfByClientModel(owners)
         = [c \in {k.client : k \in S} |->
              [m \in {k.model : k \in {x \in S : x.client = c}} |->
                 Stats({k \in S : k.client = c /\ k.model = m})]]
  BY DEF PerfByClient, PerfByClientModel
<1>2. ASSUME NEW c \in {k.client : k \in S}
      PROVE  Together(PerfByClientModel(owners)[c]) = PerfByClient(owners)[c]
  <2>1. S \subseteq DOMAIN counters["perf"].db
    OBVIOUS
  <2>2. /\ PerfByClient(owners)[c] = Stats({k \in S : k.client = c})
        /\ PerfByClientModel(owners)[c]
           = [m \in {k.model : k \in {x \in S : x.client = c}} |->
                Stats({k \in S : k.client = c /\ k.model = m})]
    BY <1>1
  <2> PICK T : T = {k \in S : k.client = c}
    OBVIOUS
  <2>3. T \subseteq DOMAIN counters["perf"].db
    BY <2>1
  <2>4. ASSUME NEW m PROVE {k \in S : k.client = c /\ k.model = m} = {k \in T : k.model = m}
    OBVIOUS
  <2>5. PerfByClientModel(owners)[c] = [m \in {k.model : k \in T} |-> Stats({k \in T : k.model = m})]
    BY <2>2, <2>4
  <2>6. Together(PerfByClientModel(owners)[c]) = Stats(T)
    BY <2>3, <2>5, ModelsTogether
  <2> QED
    BY <2>2, <2>6
<1> QED
  BY <1>1, <1>2

(* Reports agree whatever is in the tables. *)
LEMMA TablesAgree ==
  ASSUME TablesAre, RateUnit \in Nat \ {0}
  PROVE  ReportsAgree
<1> SUFFICES ASSUME NEW owners
             PROVE  LET totals == UsageTotals(owners)
                        Money(rows, piece) == SumFunction([row \in rows |-> row.costs[piece]])
                    IN  /\ \A by \in {"model", "owner", "label"}, daily \in BOOLEAN :
                             LET rows == QueryUsage(owners, by, daily)
                             IN  /\ \A f \in DOMAIN UsageZero :
                                      SumFunction([row \in rows |-> row.tokens[f]]) = totals.tokens[f]
                                 /\ Money(rows, "unpriced") = totals.costs.unpriced
                                 /\ \A piece \in {"actual", "estimated"} :
                                      totals.costs[piece] - Money(rows, piece) \in 0 .. Cardinality(rows)
                        /\ \A row \in QueryUsage(owners, "model", FALSE) : \A k \in row.of :
                             row.costs.actual + row.costs.estimated = CostMicro(k.model, row.tokens)
                        /\ \A by \in {"model", "owner", "label", "client"}, daily \in BOOLEAN :
                             Together([row \in QueryPerf(owners, by, daily) |-> row.stats])
                             = PerfTotals(owners)
                        /\ LET named == PerfByClient(owners)
                               split == PerfByClientModel(owners)
                           IN  /\ DOMAIN split = DOMAIN named
                               /\ \A c \in DOMAIN named : Together(split[c]) = named[c]
  BY Zenon DEF ReportsAgree
<1> DEFINE totals == UsageTotals(owners)
           Money(rows, piece) == SumFunction([row \in rows |-> row.costs[piece]])
<1>1. ASSUME NEW by, NEW daily
      PROVE  LET rows == QueryUsage(owners, by, daily)
             IN  /\ \A f \in DOMAIN UsageZero :
                      SumFunction([row \in rows |-> row.tokens[f]]) = totals.tokens[f]
                 /\ Money(rows, "unpriced") = totals.costs.unpriced
                 /\ \A piece \in {"actual", "estimated"} :
                      totals.costs[piece] - Money(rows, piece) \in 0 .. Cardinality(rows)
  <2> DEFINE rows == QueryUsage(owners, by, daily)
  <2>1. UsageAddsUp(owners, by, daily)
    BY UsageAgrees
  <2>2. \A f \in DOMAIN UsageZero : \A t :
          DOMAIN t = QueryUsage(owners, by, daily) /\ (\A row \in DOMAIN t : t[row] = row.tokens[f]) =>
            SumFunction(t) = UsageTotals(owners).tokens[f]
    BY <2>1 DEF UsageAddsUp
  <2>3. \A f \in DOMAIN UsageZero : SumFunction([row \in rows |-> row.tokens[f]]) = totals.tokens[f]
    <3> TAKE f \in DOMAIN UsageZero
    <3> PICK t : t = [row \in QueryUsage(owners, by, daily) |-> row.tokens[f]]
      OBVIOUS
    <3>1. DOMAIN t = QueryUsage(owners, by, daily) /\ \A row \in DOMAIN t : t[row] = row.tokens[f]
      OBVIOUS
    <3>2. SumFunction(t) = UsageTotals(owners).tokens[f]
      BY <2>2, <3>1, Zenon
    <3> QED
      BY <3>2
  <2>4. Money(rows, "unpriced") = totals.costs.unpriced
    BY <2>1, Zenon DEF UsageAddsUp
  <2>5. totals.costs["actual"] - Money(rows, "actual") \in 0 .. Cardinality(rows)
    BY <2>1, Zenon DEF UsageAddsUp
  <2>6. totals.costs["estimated"] - Money(rows, "estimated") \in 0 .. Cardinality(rows)
    BY <2>1, Zenon DEF UsageAddsUp
  <2> QED
    BY <2>3, <2>4, <2>5, <2>6, Zenon
<1>2. \A row \in QueryUsage(owners, "model", FALSE) : \A k \in row.of :
        row.costs.actual + row.costs.estimated = CostMicro(k.model, row.tokens)
  BY ModelRowCosts
<1>3. \A by, daily : Together([row \in QueryPerf(owners, by, daily) |-> row.stats]) = PerfTotals(owners)
  BY PerfAgrees, Zenon
<1>4. /\ DOMAIN PerfByClientModel(owners) = DOMAIN PerfByClient(owners)
      /\ \A c \in DOMAIN PerfByClient(owners) :
           Together(PerfByClientModel(owners)[c]) = PerfByClient(owners)[c]
  BY ClientsAgree
<1> QED
  BY <1>1, <1>2, <1>3, <1>4, Zenon

(* The tables hold numbers of finitely many keys, and rates are numbers. *)
LEMMA TablesHold == MeterTyped => TablesAre
<1> SUFFICES ASSUME MeterTyped PROVE TablesAre
  OBVIOUS
<1>1. ASSUME NEW rec \in Recorder
      PROVE  /\ IsFiniteSet(DOMAIN counters[rec].db)
             /\ \A k \in DOMAIN counters[rec].db : counters[rec].db[k] \in Deltas(rec)
  <2>1. Balance(rec, counters[rec].db, counters[rec].buf, counters[rec].flush,
                removed[rec], recorded[rec])
    BY CountersOf DEF MeterTyped
  <2>2. IsTable(rec, counters[rec].db) /\ DOMAIN counters[rec].db \subseteq DOMAIN recorded[rec]
    BY <2>1 DEF Balance, Adds
  <2>3. IsFiniteSet(DOMAIN recorded[rec])
    BY DEF MeterTyped, KeysInv
  <2> QED
    BY <2>2, <2>3, FS_Subset DEF IsTable
<1>2. "usage" \in Recorder /\ "perf" \in Recorder
  BY DEF Recorder
<1>3. DOMAIN UsageZero = Fields("usage") /\ DOMAIN PerfZero = Fields("perf")
  BY DEF UsageZero, PerfZero, Fields
<1>4. /\ \A k \in DOMAIN counters["usage"].db : \A f \in DOMAIN UsageZero : counters["usage"].db[k][f] \in Nat
      /\ \A k \in DOMAIN counters["perf"].db : \A f \in DOMAIN PerfZero : counters["perf"].db[k][f] \in Nat
  BY <1>1, <1>2, <1>3 DEF Deltas
<1>5. ASSUME NEW m PROVE RateIn("in", m) \in Nat /\ RateIn("out", m) \in Nat
  <2>1. CASE \E p \in pricing : p.model = m
    <3>1. PICK p : p = CHOOSE q \in pricing : q.model = m
      OBVIOUS
    <3>2. p \in Rates
      BY <2>1, <3>1 DEF MeterTyped, MeterScalars
    <3>3. p.in \in Nat /\ p.out \in Nat
      BY <3>2, MeterAssumption
    <3>4. RateIn("in", m) = p["in"] /\ RateIn("out", m) = p["out"]
      BY <2>1, <3>1 DEF RateIn
    <3> QED
      BY <3>3, <3>4
  <2>2. CASE ~ \E p \in pricing : p.model = m
    BY <2>2 DEF RateIn
  <2> QED
    BY <2>1, <2>2
<1> QED
  BY <1>1, <1>2, <1>4, <1>5 DEF TablesAre

(* ReportsAgree of the run Admin, for any requests, rates, groups and hours: however a bill or a
   speed report is grouped, its rows add up to the total, to less than one micro-unit a row
   (usage.go:96-99), a row of one model costs what CostMicro says of its tokens, and a worker's
   models add up to the worker (perf.go:396-455). *)
THEOREM MeterReports == MeterSpec => []ReportsAgree
<1>1. MeterTyped => ReportsAgree
  BY TablesHold, TablesAgree, MeterAssumption
<1>2. MeterInit => MeterTyped
  BY MeterTypedHolds
<1>3. MeterTyped /\ [MeterNext]_meterVars => MeterTyped'
  BY MeterTypedHolds
<1> QED
  BY <1>1, <1>2, <1>3, PTL DEF MeterSpec

-----------------------------------------------------------------------------
(* The sum of the components.                                              *)

(* The types of an engine. *)
LEMMA EngineTypes == EngineInv => EngineTypeOK
<1> SUFFICES ASSUME EngineInv PROVE EngineTypeOK
  OBVIOUS
<1>1. \A i \in DOMAIN asked : asked[i].req \in Questions /\ asked[i].allowed \in BOOLEAN
  <2>1. \A i \in DOMAIN asked : asked[i] \in Response
    BY DEF EngineInv
  <2> QED
    BY <2>1 DEF Response
<1>2. \A k \in DOMAIN memo : memo[k] \in BOOLEAN
  BY DecisionIs, Zenon DEF EngineInv, MemoRight
<1> QED
  BY <1>1, <1>2 DEF EngineInv, EngineTypeOK

AdminInv ==
    /\ part \in WithAccounts \cup {"cache", "engine"} \cup Recorder
    /\ AccountsTyped /\ CacheInv /\ MeterTyped
    /\ part = "engine" => EngineInv

(* The run Admin keeps the types of each component (AdminTypeOK), for any
   users, tables, rules, requests and hours. *)
THEOREM AdminTyped == AdminSpec => []AdminTypeOK
<1>1. AdminInit => AdminInv
  BY InitTyped, CacheInvHolds, MeterTypedHolds, EngineInvHolds, Zenon DEF AdminInit, AdminInv
<1>2. AdminInv /\ [AdminNext]_adminVars => AdminInv'
  <2> SUFFICES ASSUME AdminInv, [AdminNext]_adminVars PROVE AdminInv'
    OBVIOUS
  <2>1. AccountsPart => AccountsNext
    BY Zenon DEF AccountsPart, AccountsNext, TeamStep
  <2>2. MeterPart => MeterNext
    <3>1. ASSUME NEW r \in Finished, RecordUsage(r, r.served) \/ RecordUsage(r, "") PROVE MeterNext
      BY <3>1 DEF MeterNext
    <3>2. ASSUME NEW r \in Finished, RecordPerf(r) \/ SettlesUncounted(r) PROVE MeterNext
      BY <3>2, Zenon DEF MeterNext
    <3>3. ASSUME NEW rec \in Recorder, Close(rec) \/ Prune(rec) \/ SwapBuffer(rec) \/ FlushEnds(rec)
          PROVE  MeterNext
      BY <3>3, Zenon DEF MeterNext
    <3>4. ASSUME NEW rec \in Recorder, NEW k \in DOMAIN counters[rec].flush, WriteRow(rec, k)
          PROVE  MeterNext
      BY <3>4, Zenon DEF MeterNext
    <3>5. ASSUME NEW p \in Rates, SetModelPricing(p) \/ DeleteModelPricing(p) PROVE MeterNext
      BY <3>5, Zenon DEF MeterNext
    <3>6. HourPasses \/ Exit => MeterNext
      BY Zenon DEF MeterNext
    <3> QED
      BY <3>1, <3>2, <3>3, <3>4, <3>5, <3>6, Zenon DEF MeterPart
  <2>3. CASE UNCHANGED adminVars
    <3>1. /\ part' = part
          /\ accountsVars' = accountsVars /\ cacheVars' = cacheVars
          /\ engineVars' = engineVars /\ meterVars' = meterVars
      BY <2>3 DEF adminVars
    <3> QED
      BY <3>1, AccountsKeepTypes, CacheInvHolds, MeterTypedHolds, EngineInvHolds, Zenon DEF AdminInv
  <2>4. ASSUME part' = part, AccountsPart, UNCHANGED <<cacheVars, engineVars, meterVars>>
        PROVE  AdminInv'
    <3>1. cacheVars' = cacheVars /\ engineVars' = engineVars /\ meterVars' = meterVars
      BY <2>4
    <3> QED
      BY <2>1, <2>4, <3>1, AccountsKeepTypes, CacheInvHolds, MeterTypedHolds, EngineInvHolds, Zenon DEF AdminInv
  <2>5. ASSUME part' = part, CacheNext, UNCHANGED <<accountsVars, engineVars, meterVars>>
        PROVE  AdminInv'
    <3>1. accountsVars' = accountsVars /\ engineVars' = engineVars /\ meterVars' = meterVars
      BY <2>5
    <3> QED
      BY <2>5, <3>1, AccountsKeepTypes, CacheInvHolds, MeterTypedHolds, EngineInvHolds, Zenon DEF AdminInv
  <2>6. ASSUME part' = part, EngineNext, UNCHANGED <<accountsVars, cacheVars, meterVars>>
        PROVE  AdminInv'
    <3>1. accountsVars' = accountsVars /\ cacheVars' = cacheVars /\ meterVars' = meterVars
      BY <2>6
    <3> QED
      BY <2>6, <3>1, AccountsKeepTypes, CacheInvHolds, MeterTypedHolds, EngineInvHolds, Zenon DEF AdminInv
  <2>7. ASSUME part' = part, MeterPart, UNCHANGED <<accountsVars, cacheVars, engineVars>>
        PROVE  AdminInv'
    <3>1. accountsVars' = accountsVars /\ cacheVars' = cacheVars /\ engineVars' = engineVars
      BY <2>7
    <3> QED
      BY <2>2, <2>7, <3>1, AccountsKeepTypes, CacheInvHolds, MeterTypedHolds, EngineInvHolds, Zenon DEF AdminInv
  <2> QED
    BY <2>3, <2>4, <2>5, <2>6, <2>7 DEF AdminNext
<1>3. AdminInv => AdminTypeOK
  <2>1. AdminInv => AccountsTypeOK /\ CacheTypeOK /\ MeterTypeOK /\ (part = "engine" => EngineTypeOK)
    BY MeterTypes, EngineTypes, Zenon DEF AdminInv, AccountsTyped, CacheInv
  <2>2. AdminInv => part \in WithAccounts \cup {"cache", "engine"} \cup Recorder
    BY DEF AdminInv
  <2> QED
    BY <2>1, <2>2 DEF AdminTypeOK, WithAccounts, Recorder
<1> QED
  BY <1>1, <1>2, <1>3, PTL DEF AdminSpec

=============================================================================
