------------------------------ MODULE Metering ------------------------------
(***************************************************************************)
(* The usage and performance records of the router (router/internal/admin/ *)
(* usage.go, perf.go, pricing.go): counters of finished requests are       *)
(* gathered in memory by hour and written to the database by a loop, and   *)
(* are priced when they are read.  The two recorders run the same protocol *)
(* and differ in what a delta holds and how deltas are merged.  A row that *)
(* is not written goes back into the buffer, where its key may be in use   *)
(* again.  Time goes in hours.                                             *)
(***************************************************************************)
EXTENDS Integers, FiniteSets, FiniteSetsExt, Functions, TLC

CONSTANTS
    Finished,     \* requests: [model, served, owner, label, client, tokens, took, first]
    Rates,        \* pricings [model, in, out, basis] an administrator may set
    RateUnit,     \* tokensPerRateUnit
    Retention,    \* usageRetention and perfRetention
    HoursPerDay,
    MaxHours,     \* bound: hours that pass
    MaxExits      \* bound: times the process ends

\* What a request used and how long it took, in tokens and milliseconds, and rates.
ASSUME MeterAssumption ==
    /\ \A r \in Finished : r.tokens \in Nat /\ r.took \in Nat /\ r.first \in Nat
    /\ \A p \in Rates : p.in \in Nat /\ p.out \in Nat
    /\ Retention \in Nat /\ RateUnit \in Nat \ {0}
    /\ MaxHours \in Nat \ {0} /\ MaxExits \in Nat

VARIABLES
    hour,       \* the clock
    status,     \* each request: "running", "measured" by the hub, "settled"
    counters,   \* each recorder's buffer, the deltas it is writing, and its table
    loop,       \* where each recorder's loop is
    closing,    \* r.stop of each recorder
    pricing,    \* the pricings in force
    exits,      \* times the process has ended
    \* history
    recorded,   \* what each recorder was ever given
    removed     \* what it pruned or lost when the process ended

meterVars == <<hour, status, counters, loop, closing, pricing, exits, recorded, removed>>

Recorder == {"usage", "perf"}
Empty == [k \in {} |-> 0]
Column(name) == {r[name] : r \in Finished}

UsageZero == [requests |-> 0, prompt |-> 0, completion |-> 0]
PerfZero == [samples |-> 0, total |-> 0, peak |-> 0, firsts |-> 0, first |-> 0]
Zero(rec) == IF rec = "usage" THEN UsageZero ELSE PerfZero

\* One hour, owner, key, model and, for measurements, client.
Bucket(r, model) == [hour |-> hour, owner |-> r.owner, label |-> r.label, model |-> model]
PerfKey(r) == [client |-> r.client, hour |-> hour, owner |-> r.owner, label |-> r.label,
               model |-> r.served]

MeterTypeOK ==
    /\ hour \in 1 .. MaxHours
    /\ status \in [Finished -> {"running", "measured", "settled"}]
    /\ loop \in [Recorder -> {"start", "idle", "flush", "last", "closed"}]
    /\ closing \in [Recorder -> BOOLEAN]
    /\ pricing \in SUBSET Rates /\ \A p, q \in pricing : p.model = q.model => p = q
    /\ exits \in 0 .. MaxExits
    /\ \A rec \in Recorder :
          /\ loop[rec] \notin {"flush", "last"} => counters[rec].flush = Empty
          /\ \A f \in {counters[rec].buf, counters[rec].flush, counters[rec].db,
                       recorded[rec], removed[rec]} :
                \A k \in DOMAIN f : /\ k.hour \in 1 .. hour
                                    /\ k.owner \in Column("owner")
                                    /\ DOMAIN f[k] = DOMAIN Zero(rec)

MeterInit ==
    /\ hour = 1 /\ exits = 0 /\ pricing = {}
    /\ status = [r \in Finished |-> "running"]
    /\ counters = [rec \in Recorder |-> [buf |-> Empty, flush |-> Empty, db |-> Empty]]
    /\ loop = [rec \in Recorder |-> "start"]
    /\ closing = [rec \in Recorder |-> FALSE]
    /\ recorded = [rec \in Recorder |-> Empty] /\ removed = [rec \in Recorder |-> Empty]

-----------------------------------------------------------------------------
(* Deltas.                                                                 *)

\* AddUsageDelta: the upsert adds the counters of a key that is there.
UsageSum(d, e) == [f \in DOMAIN UsageZero |-> d[f] + e[f]]

\* PerfDelta.merge, AddPerfDelta, PerfStats.Add: a peak is the larger of two.
PerfMerge(d, e) ==
    [f \in DOMAIN PerfZero |-> IF f = "peak" THEN Max({d.peak, e.peak}) ELSE d[f] + e[f]]

MergeDelta(rec, d, e) == IF rec = "usage" THEN UsageSum(d, e) ELSE PerfMerge(d, e)

DeltaAt(rec, table, k) == IF k \in DOMAIN table THEN table[k] ELSE Zero(rec)
AddTo(rec, table, k, d) ==
    [x \in DOMAIN table \cup {k} |->
        IF x = k THEN MergeDelta(rec, DeltaAt(rec, table, k), d) ELSE table[x]]
AddAll(rec, table, more) ==
    [k \in DOMAIN table \cup DOMAIN more |->
        MergeDelta(rec, DeltaAt(rec, table, k), DeltaAt(rec, more, k))]

\* A first token is measured for a streamed request only, whose first # 0.
Sample(r) == [samples |-> 1, total |-> r.took, peak |-> r.took,
              firsts |-> IF r.first > 0 THEN 1 ELSE 0, first |-> r.first]

Record(rec, k, d) ==
    /\ counters' = [counters EXCEPT ![rec].buf = AddTo(rec, @, k, d)]
    /\ recorded' = [recorded EXCEPT ![rec] = AddTo(rec, @, k, d)]

-----------------------------------------------------------------------------
(* Requests finish: the hub measures the job, and the API handler, which   *)
(* reads the last chunk later, counts the tokens.                          *)

RecordPerf(r) ==
    /\ status[r] = "running"
    /\ status' = [status EXCEPT ![r] = "measured"]
    /\ Record("perf", PerfKey(r), Sample(r))
    /\ UNCHANGED <<hour, loop, closing, pricing, exits, removed>>

\* Without the name of the model that served it, the name that was asked for.
attributedModel(r, served) == IF served # "" THEN served ELSE r.model

RecordUsage(r, served) ==
    /\ status[r] \in {"running", "measured"}
    /\ status' = [status EXCEPT ![r] = "settled"]
    /\ Record("usage", Bucket(r, attributedModel(r, served)),
              [requests |-> 1, prompt |-> r.tokens, completion |-> 1])
    /\ UNCHANGED <<hour, loop, closing, pricing, exits, removed>>

\* The caller has gone, or the answer came without token counts.
SettlesUncounted(r) ==
    /\ status[r] \in {"running", "measured"}
    /\ status' = [status EXCEPT ![r] = "settled"]
    /\ UNCHANGED <<hour, counters, loop, closing, pricing, exits, recorded, removed>>

-----------------------------------------------------------------------------
(* The loop of a recorder.                                                 *)

\* At the start and once a day, somewhere within an hour, so that the bucket of
\* the hour the retention reaches back into goes too; a failure is only logged.
Prune(rec) ==
    /\ loop[rec] \in {"start", "idle"}
    /\ loop' = [loop EXCEPT ![rec] = "idle"]
    /\ LET old == {k \in DOMAIN counters[rec].db : k.hour <= hour - Retention}
           Part(f, S) == [k \in S |-> f[k]]
       IN  \/ /\ counters' = [counters EXCEPT ![rec].db = Part(@, DOMAIN @ \ old)]
              /\ removed' = [removed EXCEPT ![rec] = AddAll(rec, @, Part(counters[rec].db, old))]
           \/ UNCHANGED <<counters, removed>>
    /\ UNCHANGED <<hour, status, closing, pricing, exits, recorded>>

\* The ticker or the stop channel; both may be ready.
SwapBuffer(rec) ==
    /\ loop[rec] = "idle"
    /\ \/ loop' = [loop EXCEPT ![rec] = "flush"]
       \/ closing[rec] /\ loop' = [loop EXCEPT ![rec] = "last"]
    /\ counters' = [counters EXCEPT ![rec].flush = counters[rec].buf, ![rec].buf = Empty]
    /\ UNCHANGED <<hour, status, closing, pricing, exits, recorded, removed>>

\* Mutant: the delta that was not written replaces what its key gathered since.
MutantRebuffer(rec, c, k) == [c EXCEPT !.buf = (k :> c.flush[k]) @@ @]

Rebuffer(rec, c, k) == [c EXCEPT !.buf = AddTo(rec, @, k, c.flush[k])]

WriteRow(rec, k) ==
    /\ loop[rec] \in {"flush", "last"} /\ k \in DOMAIN counters[rec].flush
    /\ LET c == counters[rec]
           written == [c EXCEPT !.db = AddTo(rec, @, k, c.flush[k])]
       IN  \E next \in {written, Rebuffer(rec, c, k)} :
             counters' = [counters EXCEPT ![rec] =
                [next EXCEPT !.flush = [x \in DOMAIN @ \ {k} |-> @[x]]]]
    /\ UNCHANGED <<hour, status, loop, closing, pricing, exits, recorded, removed>>

FlushEnds(rec) ==
    /\ loop[rec] \in {"flush", "last"} /\ counters[rec].flush = Empty
    /\ loop' = [loop EXCEPT ![rec] = IF @ = "last" THEN "closed" ELSE "idle"]
    /\ UNCHANGED <<hour, status, counters, closing, pricing, exits, recorded, removed>>

\* The shutdown closes one recorder, waits for it, and closes the other.
Close(rec) ==
    /\ ~closing[rec] /\ (rec = "perf" => loop["usage"] = "closed")
    /\ closing' = [closing EXCEPT ![rec] = TRUE]
    /\ UNCHANGED <<hour, status, counters, loop, pricing, exits, recorded, removed>>

-----------------------------------------------------------------------------
(* The process ends, at any moment: it fails, or main returns as soon as   *)
(* the server's Shutdown has been called.  It starts again.                *)

Exit ==
    /\ exits < MaxExits
    /\ exits' = exits + 1
    /\ status' = [r \in Finished |-> "settled"]
    /\ removed' = [rec \in Recorder |->
         AddAll(rec, AddAll(rec, removed[rec], counters[rec].buf), counters[rec].flush)]
    /\ counters' = [rec \in Recorder |->
         [buf |-> Empty, flush |-> Empty, db |-> counters[rec].db]]
    /\ loop' = [rec \in Recorder |-> "start"]
    /\ closing' = [rec \in Recorder |-> FALSE]
    /\ UNCHANGED <<hour, pricing, recorded>>

HourPasses ==
    /\ hour < MaxHours
    /\ hour' = hour + 1
    /\ UNCHANGED <<status, counters, loop, closing, pricing, exits, recorded, removed>>

SetModelPricing(p) ==
    /\ pricing' = {q \in pricing : q.model # p.model} \cup {p}
    /\ UNCHANGED <<hour, status, counters, loop, closing, exits, recorded, removed>>

DeleteModelPricing(p) ==
    /\ p \in pricing
    /\ pricing' = pricing \ {p}
    /\ UNCHANGED <<hour, status, counters, loop, closing, exits, recorded, removed>>

MeterNext ==
    \/ \E r \in Finished : \/ RecordPerf(r) \/ SettlesUncounted(r)
                           \/ \E served \in {r.served, ""} : RecordUsage(r, served)
    \/ \E rec \in Recorder :
         \/ Prune(rec) \/ SwapBuffer(rec) \/ FlushEnds(rec) \/ Close(rec)
         \/ \E k \in DOMAIN counters[rec].flush : WriteRow(rec, k)
    \/ \E p \in Rates : SetModelPricing(p) \/ DeleteModelPricing(p)
    \/ HourPasses \/ Exit

MeterSpec == MeterInit /\ [][MeterNext]_meterVars

-----------------------------------------------------------------------------
(* Reports.                                                                *)

\* ownerClause: nil stands for every owner.
AnyOwner == {"*"}
InScope(owners, k) == owners = AnyOwner \/ k.owner \in owners

\* The rate of a model, which has one pricing or none.
RateIn(side, model) ==
    IF \E p \in pricing : p.model = model
    THEN (CHOOSE p \in pricing : p.model = model)[side] ELSE 0
Charged(model) == \E p \in pricing : p.model = model /\ p.basis = "actual"
Price(model, d) == d.prompt * RateIn("in", model) + d.completion * RateIn("out", model)
CostMicro(model, d) == Price(model, d) \div RateUnit

Unpriced(model) == RateIn("in", model) = 0 /\ RateIn("out", model) = 0

\* costSelect: the products are summed before the one division.
MutantCosts(S) ==
    LET used == counters["usage"].db
        Cost(k) == CostMicro(k.model, used[k])
    IN  [actual    |-> SumFunction([k \in S |-> IF Charged(k.model) THEN Cost(k) ELSE 0]),
         estimated |-> SumFunction([k \in S |-> IF Charged(k.model) THEN 0 ELSE Cost(k)]),
         unpriced  |-> SumFunction([k \in S |-> IF Unpriced(k.model) THEN used[k].requests ELSE 0])]

Costs(S) ==
    LET used == counters["usage"].db
        Cost(k) == Price(k.model, used[k])
    IN  [actual    |-> SumFunction([k \in S |-> IF Charged(k.model) THEN Cost(k) ELSE 0]) \div RateUnit,
         estimated |-> SumFunction([k \in S |-> IF Charged(k.model) THEN 0 ELSE Cost(k)]) \div RateUnit,
         unpriced  |-> SumFunction([k \in S |-> IF Unpriced(k.model) THEN used[k].requests ELSE 0])]

\* The rows of a table as groups: by a column, in hours or days.
Group(k, by, daily) == <<IF daily THEN (k.hour - 1) \div HoursPerDay ELSE k.hour, k[by]>>
GroupsOf(rec, owners, by, daily) ==
    LET S == {k \in DOMAIN counters[rec].db : InScope(owners, k)}
    IN  {{k \in S : Group(k, by, daily) = g} : g \in {Group(k, by, daily) : k \in S}}

Tokens(S) == [f \in DOMAIN UsageZero |-> SumFunction([k \in S |-> counters["usage"].db[k][f]])]

\* The measurements of several rows in one: sums, and the largest peak.
Together(rows) ==
    [f \in DOMAIN PerfZero |->
        IF f = "peak" THEN Max({0} \cup {rows[i].peak : i \in DOMAIN rows})
        ELSE SumFunction([i \in DOMAIN rows |-> rows[i][f]])]
Stats(S) == Together([k \in S |-> counters["perf"].db[k]])

QueryUsage(owners, by, daily) ==
    {[of |-> S, tokens |-> Tokens(S), costs |-> Costs(S)] : S \in GroupsOf("usage", owners, by, daily)}

UsageTotals(owners) ==
    LET S == {k \in DOMAIN counters["usage"].db : InScope(owners, k)}
    IN  [tokens |-> Tokens(S), costs |-> Costs(S)]

QueryPerf(owners, by, daily) ==
    {[of |-> S, stats |-> Stats(S)] : S \in GroupsOf("perf", owners, by, daily)}

PerfTotals(owners) == Stats({k \in DOMAIN counters["perf"].db : InScope(owners, k)})

\* Only of workers that have a name.
PerfByClient(owners) ==
    LET S == {k \in DOMAIN counters["perf"].db : InScope(owners, k) /\ k.client # ""}
    IN  [c \in {k.client : k \in S} |-> Stats({k \in S : k.client = c})]

PerfByClientModel(owners) ==
    LET S == {k \in DOMAIN counters["perf"].db : InScope(owners, k) /\ k.client # ""}
    IN  [c \in {k.client : k \in S} |->
           [m \in {k.model : k \in {x \in S : x.client = c}} |->
              Stats({k \in S : k.client = c /\ k.model = m})]]

-----------------------------------------------------------------------------
(* Properties.                                                             *)

\* Nothing a recorder was given is lost or counted twice while the process
\* runs, whatever rows fail to be written and whatever is recorded meanwhile:
\* what the table, the buffer and the flush under way hold, with what was pruned
\* and what earlier processes lost at their end, is all that was ever recorded
\* (usage.go:300-309: "so a transient DB error doesn't lose the counters").
CountersConserved ==
    \A rec \in Recorder :
      LET c == counters[rec]
      IN  AddAll(rec, AddAll(rec, c.db, c.buf), AddAll(rec, c.flush, removed[rec]))
          = recorded[rec]

\* However a bill or a speed report is grouped, its rows add up to the total:
\* tokens and requests exactly, money but for less than one micro-unit a row; and
\* the row of one model costs what CostMicro says of its tokens (usage.go:96-99:
\* a group "is not eroded by repeated integer truncation").  The clients of a
\* report are the sum of their models.
ReportsAgree ==
    (\E rec \in Recorder : counters[rec].db # Empty) =>
    \A owners \in {AnyOwner} \cup {{o} : o \in Column("owner")} :
      LET totals == UsageTotals(owners)
          Money(rows, part) == SumFunction([row \in rows |-> row.costs[part]])
      IN  /\ \A by \in {"model", "owner", "label"}, daily \in BOOLEAN :
               LET rows == QueryUsage(owners, by, daily)
               IN  /\ \A f \in DOMAIN UsageZero :
                        SumFunction([row \in rows |-> row.tokens[f]]) = totals.tokens[f]
                   /\ Money(rows, "unpriced") = totals.costs.unpriced
                   /\ \A part \in {"actual", "estimated"} :
                        totals.costs[part] - Money(rows, part) \in 0 .. Cardinality(rows)
          /\ \A row \in QueryUsage(owners, "model", FALSE) : \A k \in row.of :
               row.costs.actual + row.costs.estimated = CostMicro(k.model, row.tokens)
          /\ \A by \in {"model", "owner", "label", "client"}, daily \in BOOLEAN :
               Together([row \in QueryPerf(owners, by, daily) |-> row.stats]) = PerfTotals(owners)
          /\ LET named == PerfByClient(owners)
                 split == PerfByClientModel(owners)
             IN  /\ DOMAIN split = DOMAIN named
                 /\ \A c \in DOMAIN named : Together(split[c]) = named[c]
=============================================================================
