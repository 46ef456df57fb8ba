------------------------------- MODULE MCParts -------------------------------
(***************************************************************************)
(* The components that do not share state with each other, each explored   *)
(* by itself within one run: a behaviour is one of the component `part',   *)
(* while the others keep one initial state.                                *)
(***************************************************************************)
EXTENDS LocalLoad, ModelHealth, Streams, EventStream, MCQueue

CONSTANTS j1, j2, l1, m1, r1, r2

VARIABLE part

partsVars == <<part, allLoadVars, healthVars, streamVars, eventVars, vars>>

MCJob == {j1, j2}
MCLocal == {l1}
MCModel == {m1}
MCReq == {r1, r2}

MCLinesOf ==
    [llamacpp  |-> {{"text"}, {"finish"}, {"text", "finish"}, {"end"}},
     openai    |-> {{"text"}, {"reason"}, {"tool"}, {"finish"}, {"text", "finish"}, {"end"}},
     anthropic |-> {{"text"}, {"reason"}, {"open"}, {"stop"}, {"end"}},
     command   |-> {{}, {"reason", "text"}, {"tool"}, {"finish"}, {"text", "end"}}]

\* A component that rests has nothing to do that fairness would ask of it.
HealthRests ==
    /\ breaker = [m \in Model |-> [failures |-> 0, cooldown |-> 0, open |-> FALSE,
                                   active |-> 0]]
    /\ backend = [m \in Model |-> [failures |-> 0, last |-> FALSE]]
    /\ alive = [m \in Model |-> FALSE] /\ req = [r \in Req |-> NoRequest]
    /\ token = FALSE /\ link = "down" /\ offered = {}
    /\ prober = [NotProbing EXCEPT !.pc = "resting"]

LoadRests == LoadInit /\ pool.capacity = 1 /\ \A j \in Job : yields[j]

\* A worker that holds no job: its answer has ended.
StreamRests ==
    /\ task = [via |-> "openai", stream |-> FALSE]
    /\ peer = "eof" /\ said = <<>> /\ sent = <<>> /\ over = "no" /\ watch = -1
    /\ lines = [scanned |-> 0, closed |-> TRUE, err |-> FALSE]
    /\ reading = [pc |-> "returned", taken |-> 0, finish |-> FALSE, first |-> FALSE,
                  tool |-> FALSE, done |-> FALSE]

EventRests == streamer = NewStreamer /\ phase = "returned"

PartsInit ==
    /\ part \in {"load", "health", "stream", "events", "queue"}
    /\ IF part = "load" THEN LoadInit ELSE LoadRests
    /\ IF part = "health" THEN HealthInit ELSE HealthRests
    /\ IF part = "stream" THEN StreamInit ELSE StreamRests
    /\ IF part = "events" THEN EventInit ELSE EventRests
    /\ Init

PartsNext ==
    /\ UNCHANGED part
    /\ \/ /\ part = "load" /\ LoadNext
          /\ UNCHANGED <<healthVars, streamVars, eventVars, vars>>
       \/ /\ part = "health" /\ HealthNext
          /\ UNCHANGED <<allLoadVars, streamVars, eventVars, vars>>
       \/ /\ part = "stream" /\ StreamNext
          /\ UNCHANGED <<allLoadVars, healthVars, eventVars, vars>>
       \/ /\ part = "events" /\ EventNext
          /\ UNCHANGED <<allLoadVars, healthVars, streamVars, vars>>
       \/ /\ part = "queue" /\ Next
          /\ UNCHANGED <<allLoadVars, healthVars, streamVars, eventVars>>

PartsSpec ==
    /\ PartsInit /\ [][PartsNext]_partsVars
    /\ LoadFairness /\ HealthFairness /\ StreamFairness

PartsTypeOK ==
    CASE part = "load" -> LoadTypeOK
      [] part = "health" -> HealthTypeOK
      [] part = "stream" -> StreamTypeOK
      [] part = "events" -> EventTypeOK
      [] part = "queue" -> TypeOK
===============================================================================
