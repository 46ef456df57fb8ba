-------------------------------- MODULE Authz --------------------------------
(***************************************************************************)
(* The access engine of src/router/internal/authz: three-valued policy     *)
(* conditions, matchers, role permissions and scopes, the sharing of       *)
(* clients, and the decision itself.  The package is pure but for its memo *)
(* of decisions, which PolicyEngine adds.                                  *)
(*                                                                         *)
(* A text (a name, a pattern, a string attribute) is a sequence of         *)
(* symbols: characters for Glob, dotted segments for a reference.  An      *)
(* attribute value is a record [t, v] of its Go type and content.  What a  *)
(* request carries besides its subject and resource is the partial         *)
(* function `attrs' from references to values: a reference outside its     *)
(* domain is an attribute the request does not carry.                      *)
(***************************************************************************)
EXTENDS Integers, Sequences, FiniteSets, TLC

CONSTANT CondOps   \* the operators, each applied to its arguments, that conditions are built from

-----------------------------------------------------------------------------
(* Names and matchers (match.go).                                          *)

\* A matcher that gives up at the first mismatch after a star.
MutantGlob(pattern, name) ==
    LET Loop[p \in 1 .. Len(pattern) + 1, n \in 1 .. Len(name) + 1] ==
            CASE p > Len(pattern) -> n > Len(name)
              [] p <= Len(pattern) /\ pattern[p] = "*" ->
                    \/ p = Len(pattern)
                    \/ n <= Len(name) /\ Loop[p + 1, n + 1]
              [] OTHER -> /\ n <= Len(name) /\ pattern[p] \in {"?", name[n]}
                          /\ Loop[p + 1, n + 1]
    IN  Loop[1, 1]

\* A character of the pattern that stands for the one of the name.
Reads(pattern, name, p, n) ==
    p <= Len(pattern) /\ n <= Len(name) /\ pattern[p] \in {"?", name[n]}

\* How far both are read, from p and n on, before something else is due.
ReadsOn(pattern, name, p, n) ==
    CHOOSE m \in 0 .. Len(name) : /\ \A i \in 0 .. m - 1 : Reads(pattern, name, p + i, n + i)
                                  /\ ~Reads(pattern, name, p + m, n + m)

\* The wildcard matcher: a loop over name with single-star backtracking.  It
\* goes back to the last star (0: none yet) with one more character for it.
Glob(pattern, name) ==
    LET Loop[last \in (0 .. Len(pattern)) \X (1 .. Len(name) + 1)] ==
            LET starP == last[1]
                starN == last[2]
                p == starP + 1 + ReadsOn(pattern, name, starP + 1, starN)
                n == starN + ReadsOn(pattern, name, starP + 1, starN)
            IN  IF n > Len(name) THEN \A i \in p .. Len(pattern) : pattern[i] = "*"
                ELSE IF p <= Len(pattern) /\ pattern[p] = "*" THEN Loop[<<p, n>>]
                ELSE starP > 0 /\ Loop[<<starP, starN + 1>>]
    IN  Loop[<<0, 1>>]

GlobAny(patterns, name) == \E p \in patterns : Glob(p, name)

HasTeam(s, team) == team \in s.teams

\* Every field that is not empty must match; within a field one value is enough.
SubjectMatches(m, s) ==
    /\ m.ids # {} => GlobAny(m.ids, s.id)
    /\ m.kinds # {} => s.kind \in m.kinds
    /\ m.roles # {} => \E b \in s.bindings : b.role \in m.roles
    /\ m.teams # {} => \E t \in m.teams : HasTeam(s, t)
    /\ \A k \in DOMAIN m.attrs : k \in DOMAIN s.attrs /\ Glob(m.attrs[k], s.attrs[k])

ResourceMatches(m, r) ==
    /\ m.type # "" => m.type = r.type
    /\ m.ids # {} => GlobAny(m.ids, r.id)
    /\ m.owners # {} => GlobAny(m.owners, r.owner)
    /\ m.teams # {} => r.team \in m.teams

ValidResourceMatcher(m) == <<>> \notin m.ids \cup m.owners

-----------------------------------------------------------------------------
(* Values and references (cond.go).                                        *)

Val(type, content) == [t |-> type, v |-> content]
Nothing == Val("none", <<>>)

IsString(x) == x.t \in {"str", "bool", "num"}
AsString(x) ==
    CASE x.t = "str" -> x.v
      [] x.t = "bool" -> IF x.v THEN <<"true">> ELSE <<"false">>
      [] x.t = "num" -> <<ToString(x.v)>>
IsList(x) == x.t = "list"
IsNumber(x) == x.t = "num"

\* Numbers compare as numbers, lists as bags, everything else as strings.
Equal(a, b) ==
    LET Count(l, e) == Cardinality({i \in DOMAIN l : l[i] = e})
    IN  CASE IsNumber(a) /\ IsNumber(b) -> a.v = b.v
          [] IsList(a) /\ IsList(b) ->
                /\ Len(a.v) = Len(b.v)
                /\ \A i \in DOMAIN a.v : Count(a.v, a.v[i]) = Count(b.v, a.v[i])
          [] OTHER -> IsString(a) /\ IsString(b) /\ AsString(a) = AsString(b)

\* A text that begins with a namespace reads as a reference.
IsRef(s) == Len(s) > 1 /\ s[1] \in {"subject", "resource", "context"}

ValidRef(ref) ==
    /\ IsRef(ref)
    /\ CASE ref[1] = "subject" ->
                \/ ref[2] \in {"id", "kind", "roles", "teams", "managed_by"}
                \/ ref[2] = "attrs" /\ Len(ref) > 2
         [] ref[1] = "resource" -> TRUE
         [] ref[1] = "context" ->
                \/ ref[2] \in {"time", "source_ip", "endpoint", "priority",
                                "credential_kind", "via_upstream", "prompt_tokens"}
                \/ ref[2] = "extra" /\ Len(ref) > 2

ListOf(S) == CHOOSE l \in [1 .. Cardinality(S) -> S] : {l[i] : i \in DOMAIN l} = S

Name(word) == IF word = "" THEN <<>> ELSE <<word>>

\* resolve: what a request carries under a reference.  Roles, teams, the
\* provider and the two counted attributes are always there; another field of
\* the subject or the resource is there unless it is empty.
Resolve(ref, req) ==
    LET s == req.subject
        r == req.resource
        Given(text) == IF text = <<>> THEN Nothing ELSE Val("str", text)
    IN  CASE ref = <<"subject", "id">> -> Given(s.id)
          [] ref = <<"subject", "kind">> -> Given(Name(s.kind))
          [] ref = <<"subject", "roles">> -> Val("list", ListOf({<<b.role>> : b \in s.bindings}))
          [] ref = <<"subject", "teams">> -> Val("list", ListOf({<<t>> : t \in s.teams}))
          [] ref = <<"subject", "managed_by">> -> Val("str", s.managedBy)
          [] Len(ref) = 3 /\ ref[1] = "subject" /\ ref[2] = "attrs" ->
                IF ref[3] \in DOMAIN s.attrs THEN Val("str", s.attrs[ref[3]]) ELSE Nothing
          [] ref = <<"resource", "type">> -> Given(Name(r.type))
          [] ref = <<"resource", "id">> -> Given(r.id)
          [] ref = <<"resource", "owner">> -> Given(r.owner)
          [] ref = <<"resource", "team">> -> Given(Name(r.team))
          [] ref = <<"context", "via_upstream">> -> Val("bool", FALSE)
          [] ref = <<"context", "prompt_tokens">> -> Val("num", req.promptTokens)
          [] OTHER -> IF ref \in DOMAIN req.attrs THEN req.attrs[ref] ELSE Nothing

-----------------------------------------------------------------------------
(* Conditions (cond.go).                                                   *)

operators == [eq |-> 2, ne |-> 2, in |-> 2, not_in |-> 2, has |-> 2, glob |-> 2, cidr |-> 2,
              lt |-> 2, le |-> 2, gt |-> 2, ge |-> 2, exists |-> 1, time_between |-> 4]

Ref(r) == [ref |-> r, lit |-> Nothing]
Lit(x) == [ref |-> <<>>, lit |-> x]
Op(name, args) == [kind |-> "op", op |-> name, args |-> args]
All(list) == [kind |-> "all", list |-> list]
AnyOf(list) == [kind |-> "any", list |-> list]
Not(c) == [kind |-> "not", list |-> <<c>>]

\* An argument is a reference if it reads as one, and otherwise a literal.
IsArg(a) == a = Lit(a.lit) \/ (a = Ref(a.ref) /\ IsRef(a.ref))

ASSUME OpAssumption ==
    \A c \in CondOps : /\ c = Op(c.op, c.args)
                       /\ c.args \in Seq({c.args[i] : i \in DOMAIN c.args})
                       /\ \A i \in DOMAIN c.args : IsArg(c.args[i])

Minutes == 1440
MaxCondDepth == 16

\* What all, any and not make of the conditions S, and S itself.
Combined(S) ==
    S \cup [kind : {"all", "any"}, list : Seq(S)] \cup [kind : {"not"}, list : [1 .. 1 -> S]]

\* The conditions of at most so many levels of all, any and not.
Nested[levels \in 0 .. MaxCondDepth + 1] ==
    IF levels = 0 THEN CondOps ELSE Combined(Nested[levels - 1])

Conditions == Nested[MaxCondDepth + 1]

\* The literals that are checked before a request arrives: a prefix parses
\* to a set of addresses, a clock to a minute, a zone to an offset.
LiteralsValid(c) ==
    LET Is(i, type) == c.args[i].ref = <<>> /\ c.args[i].lit.t = type
    IN  CASE c.op = "exists" -> c.args[1].ref # <<>>
          [] c.op = "cidr" -> Is(2, "prefix")
          [] c.op = "time_between" ->
                /\ \A i \in {2, 3} : Is(i, "clock") /\ c.args[i].lit.v \in 0 .. Minutes - 1
                /\ Is(4, "zone")
          [] c.op = "glob" -> Is(2, "str")
          [] OTHER -> TRUE

ValidCond(c) ==
    LET Valid[x \in Conditions, depth \in 0 .. MaxCondDepth + 1] ==
            /\ depth <= MaxCondDepth
            /\ IF x.kind = "op"
               THEN /\ x.op \in DOMAIN operators /\ Len(x.args) = operators[x.op]
                    /\ \A i \in DOMAIN x.args : x.args[i].ref # <<>> => ValidRef(x.args[i].ref)
                    /\ LiteralsValid(x)
               ELSE x.list # <<>> /\ \A i \in DOMAIN x.list : Valid[x.list[i], depth + 1]
    IN  Valid[c, 0]

\* What is stored for an argument: a literal that would read as a reference
\* is wrapped.
MarshalArg(a) ==
    CASE a.ref # <<>> -> [wrapped |-> FALSE, json |-> Val("str", a.ref)]
      [] a.ref = <<>> -> [wrapped |-> a.lit.t = "str" /\ IsRef(a.lit.v), json |-> a.lit]

\* Reads every string as it is written, wrapped or not.
MutantParseArg(raw) ==
    IF raw.json.t = "str" /\ IsRef(raw.json.v) THEN Ref(raw.json.v) ELSE Lit(raw.json)

ParseArg(raw) ==
    IF ~raw.wrapped /\ raw.json.t = "str" /\ IsRef(raw.json.v)
    THEN Ref(raw.json.v) ELSE Lit(raw.json)

\* A condition as it comes back from the database: MarshalJSON, then
\* UnmarshalJSON.
Stored(c) ==
    LET Back[x \in Conditions] ==
            IF x.kind = "op"
            THEN [x EXCEPT !.args = [i \in DOMAIN x.args |-> ParseArg(MarshalArg(x.args[i]))]]
            ELSE [x EXCEPT !.list = [i \in DOMAIN x.list |-> Back[x.list[i]]]]
    IN  Back[c]

ContextDependent(c) ==
    LET Depends[x \in Conditions] ==
            IF x.kind = "op"
            THEN \E i \in DOMAIN x.args : IsRef(x.args[i].ref) /\ x.args[i].ref[1] = "context"
            ELSE \E i \in DOMAIN x.list : Depends[x.list[i]]
    IN  Depends[c]

TriOf(b) == IF b THEN "true" ELSE "false"

\* An operator whose arguments have all been resolved.
Apply(op, x) ==
    CASE op = "exists" -> "true"
      [] op = "eq" -> TriOf(Equal(x[1], x[2]))
      [] op = "ne" -> TriOf(~Equal(x[1], x[2]))
      [] op \in {"in", "not_in"} ->
            IF ~IsList(x[2]) \/ ~IsString(x[1]) THEN "unknown"
            ELSE TriOf((op = "in") = (\E i \in DOMAIN x[2].v : x[2].v[i] = AsString(x[1])))
      [] op = "has" ->
            IF ~IsList(x[1]) \/ ~IsString(x[2]) THEN "unknown"
            ELSE TriOf(\E i \in DOMAIN x[1].v : x[1].v[i] = AsString(x[2]))
      [] op = "glob" ->
            IF ~IsString(x[1]) THEN "unknown" ELSE TriOf(Glob(x[2].v, AsString(x[1])))
      [] op = "cidr" -> IF x[1].t # "addr" THEN "unknown" ELSE TriOf(x[1].v \in x[2].v)
      [] op \in {"lt", "le", "gt", "ge"} ->
            IF ~IsNumber(x[1]) \/ ~IsNumber(x[2]) THEN "unknown"
            ELSE TriOf(CASE op = "lt" -> x[1].v < x[2].v
                         [] op = "le" -> x[1].v <= x[2].v
                         [] op = "gt" -> x[1].v > x[2].v
                         [] op = "ge" -> x[1].v >= x[2].v)
      [] op = "time_between" ->
            IF x[1].t # "time" THEN "unknown"
            ELSE LET m == (x[1].v + x[4].v) % Minutes
                 IN  TriOf(IF x[2].v <= x[3].v THEN m >= x[2].v /\ m < x[3].v
                                               ELSE m >= x[2].v \/ m < x[3].v)

\* The value of an argument: a literal's own, a reference's in the request.
ArgValue(a, req) == IF a.ref = <<>> THEN a.lit ELSE Resolve(a.ref, req)

\* An operator with a missing argument simply does not hold.
MutantEvalOp(c, req) ==
    IF \E i \in DOMAIN c.args : ArgValue(c.args[i], req).t = "none" THEN "false"
    ELSE Apply(c.op, [i \in DOMAIN c.args |-> ArgValue(c.args[i], req)])

EvalOp(c, req) ==
    IF \E i \in DOMAIN c.args : ArgValue(c.args[i], req).t = "none"
    THEN IF c.op = "exists" THEN "false" ELSE "unknown"
    ELSE Apply(c.op, [i \in DOMAIN c.args |-> ArgValue(c.args[i], req)])

\* What all, any or not make of the values of their parts.
Joined(kind, subs) ==
    CASE kind = "all" -> IF "false" \in subs THEN "false"
                         ELSE IF "unknown" \in subs THEN "unknown" ELSE "true"
      [] kind = "any" -> IF "true" \in subs THEN "true"
                         ELSE IF "unknown" \in subs THEN "unknown" ELSE "false"
      [] kind = "not" -> IF "true" \in subs THEN "false"
                         ELSE IF "false" \in subs THEN "true" ELSE "unknown"

Eval(c, req) ==
    LET Truth[x \in Conditions] ==
            IF x.kind = "op" THEN EvalOp(x, req)
            ELSE Joined(x.kind, {Truth[x.list[i]] : i \in DOMAIN x.list})
    IN  Truth[c]

-----------------------------------------------------------------------------
(* Actions, permissions and roles (actions.go, roles.go).                  *)

ScopedActions == {"key.create", "key.manage", "key.view", "key.limits", "client.create",
                  "client.manage", "client.view", "client.share", "usage.view", "job.view",
                  "job.cancel", "team.manage", "team.view"}
GrantActions == {"model.use", "client.use"}
PlainActions == {"team.create", "fleet.view", "user.view", "user.manage", "role.manage",
                 "alias.manage", "pricing.manage", "settings.view", "settings.manage",
                 "queue.cancel", "policy.view", "policy.manage", "policy.simulate",
                 "audit.view", "owner.manage"}
Catalogue == ScopedActions \cup GrantActions \cup PlainActions

Scopes == {"own", "team", "any"}
Perm(action, scope) == [action |-> action, scope |-> scope]
Unscoped(actions) == {Perm(a, "any") : a \in actions}
Scoped(actions, scope) == {Perm(a, scope) : a \in actions}

\* A scoped action needs a scope and no other takes one; "" is no scope.
ValidPermission(p) ==
    /\ p.action \in Catalogue
    /\ IF p.action \in ScopedActions THEN p.scope \in Scopes ELSE p.scope = ""
ParsedPermission(p) == IF p.scope = "" THEN Perm(p.action, "any") ELSE p

\* The permissions of every role the router ships with.
BuiltinRoles ==
    [owner |-> Unscoped(Catalogue),
     admin |-> Unscoped(Catalogue \ {"owner.manage"}),
     operator |->
        Unscoped({"model.use", "client.use", "queue.cancel", "fleet.view", "alias.manage",
                  "pricing.manage", "settings.view", "team.create", "key.limits",
                  "client.create", "client.manage", "client.view", "client.share",
                  "usage.view", "job.view", "job.cancel", "team.view"})
        \cup Scoped({"key.create", "key.manage", "key.view"}, "own"),
     auditor |-> Unscoped({"key.view", "client.view", "usage.view", "job.view", "team.view",
                           "fleet.view", "user.view", "settings.view", "policy.view",
                           "policy.simulate", "audit.view"}),
     member |->
        Unscoped({"model.use", "client.use"})
        \cup Scoped({"key.create", "key.manage", "key.view", "client.create", "client.manage",
                     "client.view", "client.share", "usage.view", "job.view", "job.cancel",
                     "team.view"}, "own"),
     viewer |-> Scoped({"usage.view", "job.view", "team.view"}, "own"),
     maintainer |-> Scoped(ScopedActions \ {"key.limits"}, "team"),
     teammate |-> Scoped({"key.view", "client.view", "usage.view", "job.view", "team.view"}, "team")
                  \cup Scoped({"job.cancel"}, "own")]

-----------------------------------------------------------------------------
(* The engine (engine.go).                                                 *)

Everyone == [ids |-> {}, kinds |-> {}, roles |-> {}, teams |-> {}, attrs |-> <<>>]
NoCondition == [kind |-> "none"]

\* Action patterns are sets of actions here: a glob stands for what it covers.
ValidPolicy(p) ==
    /\ p.effect \in {"allow", "deny"}
    /\ p.actions # {} /\ p.actions \subseteq Catalogue
    /\ ValidResourceMatcher(p.resource)
    /\ p.condition # NoCondition => ValidCond(p.condition)

\* Compile refuses the whole set for one bad role or policy, and keeps the
\* enabled policies.
Compiles(roles, policies) ==
    /\ \A r \in DOMAIN roles : \A p \in roles[r] : p.action \in Catalogue /\ p.scope \in Scopes
    /\ \A p \in policies : ValidPolicy(p)
Compile(roles, policies) == [roles |-> roles, policies |-> {p \in policies : p.enabled}]

Applies(p, req) ==
    CASE ~SubjectMatches(p.subject, req.subject) \/ ~ResourceMatches(p.resource, req.resource) ->
            "false"
      [] OTHER -> IF p.condition = NoCondition THEN "true" ELSE Eval(p.condition, req)

\* A binding confined to a team gives scoped permissions only, on that
\* team's resources only, whatever scope they name.
RoleAllows(e, req) ==
    \E b \in req.subject.bindings :
        /\ b.role \in DOMAIN e.roles
        /\ \E p \in e.roles[b.role] :
              /\ p.action = req.action
              /\ IF b.team # "" THEN req.action \in ScopedActions /\ req.resource.team = b.team
                 ELSE \/ p.scope = "any"
                      \/ p.scope = "own" /\ req.resource.owner \notin {<<>>}
                                         /\ req.resource.owner = req.subject.id
                      \/ p.scope = "team" /\ req.resource.team # ""
                                          /\ HasTeam(req.subject, req.resource.team)

\* The client's owner, or a member of the team that owns it.
IsOwnerSide(s, client) ==
    \/ client.owner # <<>> /\ s.id = client.owner
    \/ client.team # "" /\ HasTeam(s, client.team)

NoSharing == [mode |-> "none"]

SharingAdmits(s, client) ==
    LET sh == client.sharing
    IN  \/ IsOwnerSide(s, client)
        \/ sh = NoSharing
        \/ /\ sh.mode # "private"
           /\ \/ sh.with = {}
              \/ s.id \in sh.with
              \/ \E t \in s.teams : <<"team:", t>> \in sh.with
              \/ \E b \in s.bindings : b.team = "" /\ <<"role:", b.role>> \in sh.with

\* Engine.decide: deny overrides; a grant action needs a role and a grant,
\* which for client.use is the client's own sharing and nothing else.
DecideAfresh(e, req) ==
    LET For(effect) == {p \in e.policies : p.effect = effect /\ req.action \in p.actions}
        denied == \E p \in For("deny") : Applies(p, req) # "false"
        granted == IF req.action = "client.use" THEN SharingAdmits(req.subject, req.resource)
                   ELSE \E p \in For("allow") : Applies(p, req) = "true"
        role == RoleAllows(e, req)
    IN  /\ req.action \in Catalogue
        /\ ~denied
        /\ IF req.action \in GrantActions THEN role /\ granted ELSE role \/ granted

\* A request whose decision may be memoised, and the key it goes under.
Cacheable(e, req) ==
    /\ req.subject.rev # ""
    /\ ~\E p \in e.policies : /\ req.action \in p.actions /\ p.condition # NoCondition
                              /\ ContextDependent(p.condition)
    /\ ~\E ref \in DOMAIN req.attrs : ref[1] = "resource"
    /\ req.resource.sharing = NoSharing
CacheKey(req) == <<req.subject.id, req.subject.rev, req.action, req.resource.type,
                   req.resource.id, req.resource.owner, req.resource.team>>

\* PairClient: may the subject use the client, and on what terms; what the
\* scheduler asks, with no context at all.
PairClient(e, s, client) ==
    LET allowed == DecideAfresh(e, [subject |-> s, action |-> "client.use", resource |-> client,
                                    attrs |-> <<>>, promptTokens |-> 0])
        limited == allowed /\ ~IsOwnerSide(s, client) /\ client.sharing # NoSharing
    IN  [allowed |-> allowed, ownerSide |-> allowed /\ IsOwnerSide(s, client),
         idleOnly |-> limited /\ client.sharing.mode = "idle",
         reserved |-> IF limited THEN client.sharing.reserved ELSE 0]

\* CanPair: both decisions, the model's and the client's, in one context.
CanPair(e, req, client) ==
    /\ DecideAfresh(e, [req EXCEPT !.action = "model.use"])
    /\ DecideAfresh(e, [req EXCEPT !.action = "client.use", !.resource = client])

=============================================================================
