------------------------------- MODULE MCQueue -------------------------------
(***************************************************************************)
(* Small instances of Queue.  Three IDs with different priority, age and   *)
(* owner; "a" also exists as the copy a retry pushes.                      *)
(***************************************************************************)
EXTENDS Queue

Request(id, model, allowed, priority, at, owner, attempts) ==
  [id |-> id, model |-> model, allowed |-> allowed, priority |-> priority,
   at |-> at, owner |-> owner, attempts |-> attempts]

MCOwners == {"ann", "bob", "none"}

(* Ann's "a" is less urgent than "b" and bob's "c" younger than "a", so whose
   client asks decides.  "fast" is an alias of m1 and m2; "d" may only use m1
   although it asks for any, and has no owner, like the last client. *)
MCRequests ==
  { Request("a", "fast", {"m1", "m2"}, 1, 1, "ann", 0),
    Request("a", "fast", {"m1", "m2"}, 1, 1, "ann", 1),
    Request("b", "m1",   {"m1", "m2"}, 0, 2, "bob", 0),
    Request("c", "m2",   {"m1", "m2"}, 1, 3, "bob", 0),
    Request("d", "any",  {"m1"},       2, 4, "none", 0) }

MCAliases == [fast |-> {"m1", "m2"}]

MCOffers == { [models |-> {"m1"}, owner |-> "ann"],
              [models |-> {"m2"}, owner |-> "bob"],
              [models |-> {"m1", "m2"}, owner |-> "none"] }
=============================================================================
