-------------------------------- MODULE MCAdmin --------------------------------
(***************************************************************************)
(* The parts of the administration, each explored by itself within one     *)
(* run: a behaviour is one of the component that `part' names, while the   *)
(* others rest.  Accounts have two users; to keep them small a behaviour   *)
(* exercises the accounts with one other subject (the identity provider    *)
(* and a worker's token, the provider and the groups it maps to the team,  *)
(* the team and all credentials), and the two recorders of Metering one at *)
(* a time, the other only while the process shuts down.                    *)
(***************************************************************************)
EXTENDS Accounts, AccessCache, PolicyEngine, Metering

CONSTANTS ann, bob, crew

VARIABLE part

adminVars == <<part, accountsVars, cacheVars, engineVars, meterVars>>

-----------------------------------------------------------------------------
(* Accounts.                                                               *)

MCUser == {ann, bob}
MCHolder == {bob, crew}
WithAccounts == {"provider", "groups", "team"}

AccountsPart ==
    \/ AccountStep
    \/ part # "team" /\ ProviderStep
    \/ part = "provider" /\ TokenStep
    \/ part = "groups" /\ \E a \in User : handleTeamCreate(a) \/ handleTeamState(a, "disable")
    \/ part = "team" /\ (TeamStep \/ TokenStep \/ KeyStep)

-----------------------------------------------------------------------------
(* Policies: every operator, alone and negated, and pairs of the core ones, *)
(* as the only allow rule or as a deny rule beside the default one, for both *)
(* halves of a pairing or the client alone; asked about with and without    *)
(* the attributes they read.                                                *)

Txt(s) == Val("str", <<s>>)
Dept == Ref(<<"subject", "attrs", "dept">>)
Endpoint == Ref(<<"context", "endpoint">>)
CoreLeaves ==
    {Op("eq", <<Dept, Lit(Txt("x"))>>),
     Op("ne", <<Endpoint, Lit(Txt("chat"))>>),
     Op("in", <<Dept, Lit(Val("list", <<<<"x">>, <<"y">>>>))>>),
     Op("exists", <<Dept>>)}
OtherLeaves ==
    {Op("ne", <<Dept, Lit(Val("str", <<"context", "endpoint">>))>>),
     Op("not_in", <<Endpoint, Lit(Txt("chat"))>>),
     Op("has", <<Ref(<<"subject", "roles">>), Lit(Txt("member"))>>),
     Op("glob", <<Dept, Lit(Val("str", <<"?">>))>>),
     Op("cidr", <<Ref(<<"context", "source_ip">>), Lit(Val("prefix", {1, 2}))>>),
     Op("le", <<Ref(<<"context", "prompt_tokens">>), Lit(Val("num", 4))>>),
     Op("lt", <<Dept, Lit(Val("num", 4))>>),
     Op("eq", <<Ref(<<"subject", "teams">>), Lit(Val("list", <<>>))>>),
     Op("time_between", <<Ref(<<"context", "time">>), Lit(Val("clock", 1320)),
                          Lit(Val("clock", 360)), Lit(Val("zone", 60))>>)}
Leaves == CoreLeaves \cup OtherLeaves
MCCondOps == Leaves \cup {Op("ne", <<Dept, Endpoint>>)}
Conds ==
    Leaves \cup {Not(l) : l \in Leaves}
    \cup {All(<<a, Not(b)>>) : a, b \in CoreLeaves}
    \cup {Not(AnyOf(<<a, b>>)) : a, b \in CoreLeaves}

Rule(effect, actions, c) ==
    [effect |-> effect, enabled |-> TRUE, subject |-> Everyone, actions |-> actions,
     resource |-> [type |-> "", ids |-> {<<"*">>}, owners |-> {}, teams |-> {}],
     condition |-> c]
BothUses == {"model.use", "client.use"}
Default == Rule("allow", BothUses, NoCondition)
MCPolicies ==
    {{Rule("allow", BothUses, c)} : c \in Conds}
    \cup {{Default, Rule("deny", BothUses, c)} : c \in Conds}
    \cup {{Default, Rule("deny", {"client.use"}, c)} : c \in Leaves \cup {Not(l) : l \in Leaves}}

Depts == {<<>>, "dept" :> <<"x">>, "dept" :> <<"context", "endpoint">>}
Asker(d) ==
    [id |-> <<"user:", "a">>, kind |-> "user", bindings |-> {[role |-> "member", team |-> ""]},
     teams |-> {}, managedBy |-> <<>>, attrs |-> d, rev |-> ToString(d)]
TheModel ==
    [type |-> "model", id |-> <<"a", "b">>, owner |-> <<>>, team |-> "", sharing |-> NoSharing]
MCClientOf(q) ==
    [type |-> "client", id |-> <<"c">>, owner |-> <<"user:", "b">>, team |-> "",
     sharing |-> IF q.subject.attrs = <<>> THEN NoSharing
                 ELSE [mode |-> "idle", with |-> {<<"role:", "member">>}, reserved |-> 1]]

Endpoints == {<<>>, <<"context", "endpoint">> :> Txt("chat")}
Where ==
    {<<>>, <<"context", "time">> :> Val("time", 1290) @@ <<"context", "source_ip">> :> Val("addr", 3)}
MCQuestions ==
    {[subject |-> Asker(d), action |-> "model.use", resource |-> TheModel,
      attrs |-> e @@ w, promptTokens |-> 0] : d \in Depts, e \in Endpoints, w \in Where}

Texts(S, n) == UNION {[1 .. k -> S] : k \in 0 .. n}
MCGlobs == Texts({"a", "?", "*"}, 3) \X Texts({"a", "b"}, 3)

-----------------------------------------------------------------------------
(* Metering: two requests that share a counter and one of another user,    *)
(* whose answer names no model or has no token counts.                     *)

Request(owner, label, client, tokens, took, first) ==
    [model |-> "fast", served |-> "m1", owner |-> owner, label |-> label, client |-> client,
     tokens |-> tokens, took |-> took, first |-> first]
MCFinished ==
    {Request("ann", "k1", "c1", 3, 2, 1), Request("ann", "k1", "c1", 2, 3, 0),
     Request("bob", "k2", "", 2, 1, 1)}
MCRates ==
    {[model |-> "m1", in |-> 3, out |-> 1, basis |-> "actual"],
     [model |-> "m1", in |-> 2, out |-> 0, basis |-> "estimated"]}

MeterPart ==
    \/ \E r \in Finished :
         \/ part = "perf" /\ RecordPerf(r)
         \/ part = "usage" /\ RecordUsage(r, r.served)
         \/ part = "usage" /\ r.owner = "bob" /\ (RecordUsage(r, "") \/ SettlesUncounted(r))
    \/ \E rec \in Recorder :
         \/ Close(rec)
         \/ /\ rec = part \/ closing[rec]
            /\ \/ Prune(rec) \/ SwapBuffer(rec) \/ FlushEnds(rec)
               \/ \E k \in DOMAIN counters[rec].flush : WriteRow(rec, k)
    \/ /\ part = "usage" /\ \A r \in Finished : status[r] = "settled"
       /\ \E p \in Rates : SetModelPricing(p) \/ DeleteModelPricing(p)
    \/ HourPasses \/ Exit

-----------------------------------------------------------------------------
(* The sum.                                                                *)

\* An engine that rests has refused a pairing.
EngineRests ==
    /\ rules = {} /\ memo = <<>>
    /\ \E req \in Questions :
          /\ req.attrs = <<>> /\ req.subject.attrs = <<>>
          /\ asked = << [kind |-> "pair", req |-> req, allowed |-> FALSE] >>

AdminInit ==
    /\ part \in WithAccounts \cup {"cache", "engine"} \cup Recorder
    /\ AccountsInit /\ CacheInit /\ MeterInit
    /\ IF part = "engine" THEN EngineInit ELSE EngineRests

AdminNext ==
    /\ UNCHANGED part
    /\ \/ part \in WithAccounts /\ AccountsPart /\ UNCHANGED <<cacheVars, engineVars, meterVars>>
       \/ part = "cache" /\ CacheNext /\ UNCHANGED <<accountsVars, engineVars, meterVars>>
       \/ part = "engine" /\ EngineNext /\ UNCHANGED <<accountsVars, cacheVars, meterVars>>
       \/ part \in Recorder /\ MeterPart /\ UNCHANGED <<accountsVars, cacheVars, engineVars>>

AdminSpec == AdminInit /\ [][AdminNext]_adminVars

AdminTypeOK ==
    CASE part \in WithAccounts -> AccountsTypeOK
      [] part = "cache" -> CacheTypeOK
      [] part = "engine" -> EngineTypeOK
      [] part \in Recorder -> MeterTypeOK

\* All but the history of who disabled an account.
MCView ==
    <<part, users, roles, team, members, creds, sessions, conns, recheck,
      cacheVars, engineVars, meterVars>>
=============================================================================
