----------------------------- MODULE ModelHealth -----------------------------
(***************************************************************************)
(* Which models a llama.cpp client offers to the router: the circuit       *)
(* breaker (client/internal/health/breaker.go), what a job reports to it   *)
(* (client/internal/worker/worker.go), the health checks                   *)
(* (client/internal/ws/conn.go) and the watcher that registers again when  *)
(* the result changes (watchModels and Recheck in pkg/wsclient/conn.go).   *)
(*                                                                         *)
(* Time is abstracted: a cooldown is a number of units of FirstCooldown,   *)
(* and it may run out at any moment after it began.                        *)
(***************************************************************************)
EXTENDS Integers, FiniteSets

CONSTANTS
    Model, Req,
    TripAfter,     \* failures in a row that withdraw a model
    MaxCooldown,   \* longest withdrawal, in units of the first
    DownAfter      \* health checks missed in a row that withdraw a model

ASSUME HealthAssumption ==
    /\ IsFiniteSet(Model) /\ IsFiniteSet(Req)
    /\ TripAfter \in Nat \ {0} /\ MaxCooldown \in Nat \ {0} /\ DownAfter \in Nat \ {0}

VARIABLES
    breaker,   \* modelState of each model; openUntil is kept as `open'
    backend,   \* backendState of each model
    alive,     \* the backend process answers
    req,       \* each request: NoRequest, <<"run", m>>, or <<"tell", m>> before onChange
    token,     \* recheckKick holds a token
    link,      \* the connection: "down", "up"
    prober,    \* the goroutine inside Models: pc, models still to probe, result
    offered    \* what the router was last told on this connection

healthVars == <<breaker, backend, alive, req, token, link, prober, offered>>

NoRequest == <<"none">>

MaxFailures == TripAfter + MaxCooldown   \* the counters only matter up to here

Lesser(x, y) == IF x < y THEN x ELSE y

Doublings[n \in 0 .. MaxCooldown] == IF n = 0 THEN 1 ELSE 2 * Doublings[n - 1]

\* However results of old and new requests interleave, the withdrawal is that of
\* the failures in a row: none before TripAfter of them, then doubling with each
\* one more, never beyond the maximum.
CooldownLaw ==
    \A m \in Model :
        LET s == breaker[m]
        IN  s.cooldown = IF s.failures < TripAfter THEN 0
                         ELSE Lesser(Doublings[s.failures - TripAfter], MaxCooldown)

HealthTypeOK ==
    /\ breaker \in [Model -> [failures : 0 .. MaxFailures, cooldown : Nat,
                              open : BOOLEAN, active : 0 .. Cardinality(Req)]]
    /\ backend \in [Model -> [failures : 0 .. DownAfter, last : BOOLEAN]]
    /\ alive \in [Model -> BOOLEAN]
    /\ req \in [Req -> {NoRequest} \cup ({"run", "tell"} \X Model)]
    /\ token \in BOOLEAN /\ link \in {"down", "up"}
    /\ prober \in [pc : {"idle", "probe", "judge"}, todo : SUBSET Model,
                   at : SUBSET Model, next : SUBSET Model]
    /\ offered \subseteq Model
    /\ CooldownLaw

NotProbing == [pc |-> "idle", todo |-> {}, at |-> {}, next |-> {}]

HealthInit ==
    /\ breaker = [m \in Model |-> [failures |-> 0, cooldown |-> 0, open |-> FALSE,
                                   active |-> 0]]
    /\ backend = [m \in Model |-> [failures |-> 0, last |-> FALSE]]
    /\ alive \in [Model -> BOOLEAN]
    /\ req = [r \in Req |-> NoRequest]
    /\ token = FALSE /\ link = "down" /\ prober = NotProbing /\ offered = {}

-------------------------------------------------------------------------------
(* The breaker.                                                             *)

\* Failure on state s: the n-th in a row, or any while the cooldown is set,
\* withdraws the model, each time for twice as long up to the maximum.
MutantLonger(cooldown) ==
    IF cooldown = 0 THEN 1 ELSE IF cooldown < MaxCooldown THEN 2 * cooldown ELSE cooldown

Longer(cooldown) ==
    IF cooldown = 0 THEN 1
    ELSE IF cooldown < MaxCooldown THEN Lesser(2 * cooldown, MaxCooldown)
    ELSE cooldown

Trips(s) == s.cooldown > 0 \/ s.failures + 1 >= TripAfter

Failed(s) ==
    [s EXCEPT !.failures = Lesser(@ + 1, MaxFailures),
              !.cooldown = IF Trips(s) THEN Longer(@) ELSE @,
              !.open     = @ \/ Trips(s)]

Succeeded(s) == [s EXCEPT !.failures = 0, !.open = FALSE, !.cooldown = 0]

\* now() passes openUntil.
CooldownElapses(m) ==
    /\ breaker[m].open
    /\ breaker' = [breaker EXCEPT ![m].open = FALSE]
    /\ UNCHANGED <<backend, alive, req, token, link, prober, offered>>

-------------------------------------------------------------------------------
(* Requests (worker.Handle).                                                *)

HealthStart(r, m) ==
    /\ req[r] = NoRequest /\ link = "up" /\ m \in offered
    /\ req' = [req EXCEPT ![r] = <<"run", m>>]
    /\ breaker' = [breaker EXCEPT ![m].active = @ + 1]
    /\ UNCHANGED <<backend, alive, token, link, prober, offered>>

HealthDone(m, s) == [breaker EXCEPT ![m] = [s EXCEPT !.active = @ - 1]]

\* The backend answered, and Success is recorded; or the request was cancelled or
\* at fault itself (a final error), which says nothing about the model.
Succeeds(r, m) ==
    /\ req[r] = <<"run", m>> /\ alive[m]
    /\ breaker' = HealthDone(m, Succeeded(breaker[m]))
    /\ req' = [req EXCEPT ![r] = NoRequest]
    /\ UNCHANGED <<backend, alive, token, link, prober, offered>>

SaysNothing(r, m) ==
    /\ req[r] = <<"run", m>>
    /\ breaker' = HealthDone(m, breaker[m])
    /\ req' = [req EXCEPT ![r] = NoRequest]
    /\ UNCHANGED <<backend, alive, token, link, prober, offered>>

\* The backend failed the request: the breaker counts it under its lock, and when
\* that withdraws the model calls onChange after unlocking.
Fails(r, m) ==
    /\ req[r] = <<"run", m>>
    /\ breaker' = IF Trips(breaker[m]) THEN [breaker EXCEPT ![m] = Failed(@)]
                  ELSE HealthDone(m, Failed(breaker[m]))
    /\ req' = [req EXCEPT ![r] = IF Trips(breaker[m]) THEN <<"tell", m>> ELSE NoRequest]
    /\ UNCHANGED <<backend, alive, token, link, prober, offered>>

\* onChange is Conn.Recheck: a token, unless one is pending.
MutantRecheck(r, m) ==
    /\ req[r] = <<"tell", m>>
    /\ token' = (token \/ breaker[m].cooldown = 1)
    /\ breaker' = HealthDone(m, breaker[m])
    /\ req' = [req EXCEPT ![r] = NoRequest]
    /\ UNCHANGED <<backend, alive, link, prober, offered>>

Recheck(r, m) ==
    /\ req[r] = <<"tell", m>>
    /\ token' = TRUE
    /\ breaker' = HealthDone(m, breaker[m])
    /\ req' = [req EXCEPT ![r] = NoRequest]
    /\ UNCHANGED <<backend, alive, link, prober, offered>>

-------------------------------------------------------------------------------
(* The connection and its watcher.                                          *)

Probing == [pc |-> "probe", todo |-> Model, at |-> {}, next |-> {}]

\* connect calls Models before it registers.
LinkDials ==
    /\ link = "down" /\ prober.pc = "idle"
    /\ prober' = Probing
    /\ UNCHANGED <<breaker, backend, alive, req, token, link, offered>>

\* The connection is lost.  Its watcher ends, and may have taken the token with it.
LinkDrops ==
    /\ link = "up"
    /\ link' = "down" /\ prober' = NotProbing /\ offered' = {}
    /\ token' \in {token, FALSE}
    /\ UNCHANGED <<breaker, backend, alive, req>>

WatcherWakes ==
    /\ link = "up" /\ prober.pc = "idle" /\ token
    /\ token' = FALSE /\ prober' = Probing
    /\ UNCHANGED <<breaker, backend, alive, req, link, offered>>

WatcherTicks ==
    /\ link = "up" /\ prober.pc = "idle"
    /\ prober' = Probing
    /\ UNCHANGED <<breaker, backend, alive, req, token, link, offered>>

\* probe of a backend that is ready and names its model.
MutantProbeReady(m) ==
    /\ prober.pc = "probe" /\ m \in prober.todo /\ alive[m]
    /\ backend[m].failures < DownAfter
    /\ backend' = [backend EXCEPT ![m] = [failures |-> 0, last |-> TRUE]]
    /\ prober' = [prober EXCEPT !.pc = "judge", !.todo = @ \ {m}, !.at = {m}]
    /\ UNCHANGED <<breaker, alive, req, token, link, offered>>

ProbeReady(m) ==
    /\ prober.pc = "probe" /\ m \in prober.todo /\ alive[m]
    /\ backend' = [backend EXCEPT ![m] = [failures |-> 0, last |-> TRUE]]
    /\ prober' = [prober EXCEPT !.pc = "judge", !.todo = @ \ {m}, !.at = {m}]
    /\ UNCHANGED <<breaker, alive, req, token, link, offered>>

\* ... that is ready and names no model.
ProbeNameless(m) ==
    /\ prober.pc = "probe" /\ m \in prober.todo /\ alive[m]
    /\ backend' = [backend EXCEPT ![m] = [failures |-> 0, last |-> FALSE]]
    /\ prober' = [prober EXCEPT !.todo = @ \ {m}]
    /\ UNCHANGED <<breaker, alive, req, token, link, offered>>

\* ... that misses the check, being down or only slow: while requests run on it,
\* or it has not missed enough, it is offered as before.
ProbeMissed(m) ==
    LET b    == backend[m]
        busy == b.last /\ breaker[m].active > 0
        keep == busy \/ (b.last /\ b.failures + 1 < DownAfter)
    IN  /\ prober.pc = "probe" /\ m \in prober.todo
        /\ backend' = IF busy THEN backend
                      ELSE [backend EXCEPT ![m] = [failures |-> Lesser(b.failures + 1, DownAfter),
                                                   last |-> keep]]
        /\ prober' = IF keep THEN [prober EXCEPT !.pc = "judge", !.todo = @ \ {m}, !.at = {m}]
                     ELSE [prober EXCEPT !.todo = @ \ {m}]
        /\ UNCHANGED <<breaker, alive, req, token, link, offered>>

\* Models leaves out a model whose breaker is open.
ProbeJudged ==
    /\ prober.pc = "judge"
    /\ prober' = [prober EXCEPT !.pc = "probe", !.at = {},
                     !.next = @ \cup {m \in prober.at : ~breaker[m].open}]
    /\ UNCHANGED <<breaker, backend, alive, req, token, link, offered>>

\* connect registers; the watcher does when the result differs from the last one.
ProbeRegisters ==
    /\ prober.pc = "probe" /\ prober.todo = {}
    /\ link' = "up" /\ offered' = prober.next /\ prober' = NotProbing
    /\ UNCHANGED <<breaker, backend, alive, req, token>>

-------------------------------------------------------------------------------
BackendChanges(m) ==
    /\ alive' = [alive EXCEPT ![m] = ~@]
    /\ UNCHANGED <<breaker, backend, req, token, link, prober, offered>>

Probes(m) == ProbeReady(m) \/ ProbeNameless(m) \/ ProbeMissed(m)

HealthNext ==
    \/ \E m \in Model :
          \/ CooldownElapses(m) \/ BackendChanges(m) \/ Probes(m)
          \/ \E r \in Req : \/ HealthStart(r, m) \/ Succeeds(r, m) \/ SaysNothing(r, m)
                            \/ Fails(r, m) \/ Recheck(r, m)
    \/ LinkDials \/ LinkDrops \/ WatcherWakes \/ WatcherTicks \/ ProbeJudged \/ ProbeRegisters

HealthSpec == HealthInit /\ [][HealthNext]_healthVars

\* Goroutines run, the ticker ticks, cooldowns run out, and a backend that is up
\* for good answers a health check in the end.
HealthFairness ==
    /\ \A m \in Model : /\ WF_healthVars(CooldownElapses(m)) /\ WF_healthVars(Probes(m))
                        /\ SF_healthVars(ProbeReady(m))
                        /\ \A r \in Req : WF_healthVars(Recheck(r, m))
    /\ WF_healthVars(LinkDials) /\ WF_healthVars(WatcherWakes \/ WatcherTicks)
    /\ WF_healthVars(ProbeJudged) /\ WF_healthVars(ProbeRegisters)

-------------------------------------------------------------------------------
(* Properties.                                                              *)

\* A model withdrawn by the breaker does not go on being offered until the next
\* tick: while the watcher sleeps, a token is pending or about to be put.
TripAnnounced ==
    link = "up" /\ prober.pc = "idle" =>
        \A m \in offered : breaker[m].open =>
            token \/ \E r \in Req : req[r] = <<"tell", m>>

\* A model is not withdrawn for good: if its backend is up and the connection
\* stays, it is offered again and again, even if its requests keep failing.
OfferedAgain ==
    \A m \in Model :
        <>[](alive[m] /\ link = "up") => []<>(m \in offered)
===============================================================================
