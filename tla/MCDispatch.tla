----------------------------- MODULE MCDispatch -----------------------------
(* Small instances of Dispatch. *)
EXTENDS Dispatch, TLC

CONSTANTS c1, c2, r1, r2

OneSlot == [c \in Clients |-> 1]
TwoSlots == [c \in Clients |-> 2]
SameModel == [c \in Clients |-> "m1"]
TwoModels == (c1 :> "m1") @@ (c2 :> "m2")

(* Bounds of the instances without liveness: a request reaches a worker at most
   MaxDispatches times, enough for a stale dispatch to meet its successor on the
   other client, and no worker announces that it drains (Live has that). *)
MaxDispatches == 2
Bounded == /\ \A r \in Requests : sent[r] <= MaxDispatches
           /\ \A c \in Clients : ~ draining[c]

(* With two requests, two dispatches in all: one each, or one and its retry. *)
FewSends == sent[r1] + sent[r2] <= MaxDispatches

(* All but the history that the invariants of an instance do not read. *)
WithoutAnswers == <<queue, sched, signal, hubVars, reader, reaper, caller, inbox, work, sent, peak>>

SymmetricRequests == Permutations(Requests)
SymmetricClients == Permutations(Clients)
=============================================================================
