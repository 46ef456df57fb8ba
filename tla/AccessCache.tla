----------------------------- MODULE AccessCache -----------------------------
(***************************************************************************)
(* What the router remembers of the access database                        *)
(* (src/router/internal/admin/access_store.go, sharing_store.go): the      *)
(* compiled engine, swapped in after a change of roles or policies, and    *)
(* the pairing cache the scheduler reads subjects and sharing settings     *)
(* through, dropped whole after any change.                                *)
(*                                                                         *)
(* Each table is the number of changes made to it; a copy of it is the     *)
(* number it had when it was read.  Requests of several administrators     *)
(* run at once: one connection serialises their statements and nothing     *)
(* serialises the requests.  A cache object lives on in the hands of a     *)
(* reader after it has been dropped.                                       *)
(***************************************************************************)
EXTENDS Naturals, Sequences

CONSTANTS Changer,       \* requests that change the access database, one at a time each
          Reader,        \* goroutines that ask for pairings
          MaxChanges     \* bound: changes made in all

ASSUME CacheAssumption == MaxChanges \in Nat

VARIABLES tables,        \* the database: table -> changes made to it
          compiled,      \* authzEngine: the roles and policies it was compiled from
          objects,       \* every pairingCache made so far: subjects and sharing, or Unread
          current,       \* pairingCache pointer: an index of objects, 0 for nil
          changer,       \* Changer -> where its request is and what it has read
          reader         \* Reader -> where its lookup is

cacheVars == <<tables, compiled, objects, current, changer, reader>>

Compiled == {"roles", "policies"}
Cached == {"subjects", "sharing"}
Unread == MaxChanges + 1
EmptyObject == [t \in Cached |-> Unread]

NoChange == [pc |-> "idle", roles |-> 0, policies |-> 0]
NoLookup == [pc |-> "idle", table |-> "sharing", obj |-> 0, got |-> Unread]

CacheInit ==
    /\ tables = [t \in Compiled \cup Cached |-> 0]
    /\ compiled = [roles |-> 0, policies |-> 0]
    /\ objects = <<>> /\ current = 0
    /\ changer = [c \in Changer |-> NoChange]
    /\ reader = [r \in Reader |-> NoLookup]

-----------------------------------------------------------------------------
(* A change.                                                               *)

Changes == tables["roles"] + tables["policies"] + tables["subjects"] + tables["sharing"]

Write(c, table, next) ==
    /\ changer[c].pc = "idle" /\ Changes < MaxChanges
    /\ tables' = [tables EXCEPT ![table] = @ + 1]
    /\ changer' = [changer EXCEPT ![c].pc = next]
    /\ UNCHANGED <<compiled, objects, current, reader>>

\* SaveRole, DeleteRole; SavePolicy, DeletePolicy; Bind, Unbind and the team
\* operations: they bump the version and recompile.
ChangeRules(c) == \E t \in Compiled \cup {"subjects"} : Write(c, t, "roles")

\* UpdateUser and SetUserAttrs; SetClientSharing: they only drop the cache.
ChangeCached(c) == \E t \in Cached : Write(c, t, "drop")

\* ReloadAuthz reads the roles, then the policies, compiles, and swaps the
\* engine in.
ReadRoles(c) ==
    /\ changer[c].pc = "roles"
    /\ changer' = [changer EXCEPT ![c].pc = "policies", ![c].roles = tables["roles"]]
    /\ UNCHANGED <<tables, compiled, objects, current, reader>>

ReadPolicies(c) ==
    /\ changer[c].pc = "policies"
    /\ changer' = [changer EXCEPT ![c].pc = "swap", ![c].policies = tables["policies"]]
    /\ UNCHANGED <<tables, compiled, objects, current, reader>>

SwapEngine(c) ==
    /\ changer[c].pc = "swap"
    /\ compiled' = [roles |-> changer[c].roles, policies |-> changer[c].policies]
    /\ changer' = [changer EXCEPT ![c].pc = "drop"]
    /\ UNCHANGED <<tables, objects, current, reader>>

\* invalidateAccess.
InvalidateAccess(c) ==
    /\ changer[c].pc = "drop"
    /\ current' = 0
    /\ changer' = [changer EXCEPT ![c] = NoChange]
    /\ UNCHANGED <<tables, compiled, objects, reader>>

-----------------------------------------------------------------------------
(* A lookup: the sharing setting of the client, then the requester.        *)

StartPair(r) ==
    /\ reader[r].pc = "idle"
    /\ reader' = [reader EXCEPT ![r].pc = "take", ![r].table = "sharing"]
    /\ UNCHANGED <<tables, compiled, objects, current, changer>>

\* pairCache: the current object, made if there is none.
PairCache(r) ==
    /\ reader[r].pc = "take"
    /\ IF current # 0 THEN UNCHANGED <<objects, current>>
       ELSE objects' = Append(objects, EmptyObject) /\ current' = Len(objects) + 1
    /\ reader' = [reader EXCEPT ![r].pc = "look", ![r].obj = current']
    /\ UNCHANGED <<tables, compiled, changer>>

\* The answer is in the object at hand, or has to be read.
Found(r) ==
    reader' = [reader EXCEPT ![r] = IF @.table = "sharing"
                                    THEN [@ EXCEPT !.pc = "take", !.table = "subjects"]
                                    ELSE NoLookup]

LookUp(r) ==
    LET entry == objects[reader[r].obj][reader[r].table]
    IN  /\ reader[r].pc = "look"
        /\ IF entry # Unread THEN Found(r)
           ELSE reader' = [reader EXCEPT ![r].pc = "read"]
        /\ UNCHANGED <<tables, compiled, objects, current, changer>>

ReadTable(r) ==
    /\ reader[r].pc = "read"
    /\ reader' = [reader EXCEPT ![r].pc = "store", ![r].got = tables[reader[r].table]]
    /\ UNCHANGED <<tables, compiled, objects, current, changer>>

\* The entry goes into the object taken before the read, dropped or not.
MutantStoreEntry(r) ==
    /\ reader[r].pc = "store"
    /\ objects' = IF current = 0 THEN objects
                  ELSE [objects EXCEPT ![current][reader[r].table] = reader[r].got]
    /\ Found(r)
    /\ UNCHANGED <<tables, compiled, current, changer>>

StoreEntry(r) ==
    /\ reader[r].pc = "store"
    /\ objects' = [objects EXCEPT ![reader[r].obj][reader[r].table] = reader[r].got]
    /\ Found(r)
    /\ UNCHANGED <<tables, compiled, current, changer>>

CacheNext ==
    \/ \E c \in Changer : \/ ChangeRules(c) \/ ChangeCached(c) \/ ReadRoles(c)
                          \/ ReadPolicies(c) \/ SwapEngine(c) \/ InvalidateAccess(c)
    \/ \E r \in Reader : StartPair(r) \/ PairCache(r) \/ LookUp(r) \/ ReadTable(r) \/ StoreEntry(r)

CacheSpec == CacheInit /\ [][CacheNext]_cacheVars

-----------------------------------------------------------------------------
(* Properties.                                                             *)

CacheTypeOK ==
    /\ tables \in [Compiled \cup Cached -> 0 .. MaxChanges]
    /\ compiled \in [Compiled -> 0 .. MaxChanges]
    /\ objects \in Seq([Cached -> 0 .. Unread]) /\ current \in 0 .. Len(objects)
    /\ changer \in [Changer -> [pc : {"idle", "roles", "policies", "swap", "drop"},
                                roles : 0 .. MaxChanges, policies : 0 .. MaxChanges]]
    /\ reader \in [Reader -> [pc : {"idle", "take", "look", "read", "store"}, table : Cached,
                              obj : 0 .. Len(objects), got : 0 .. Unread]]

Settled == \A c \in Changer : changer[c].pc = "idle"

\* Once no change is under way, whatever the cache answers is what the
\* database says (sharing_store.go:18-24: "not worth a stale permission"),
\* however the changes and lookups overlapped.
CacheCurrent ==
    Settled /\ current # 0 =>
        \A t \in Cached : objects[current][t] \in {Unread, tables[t]}

=============================================================================
