---------------------------- MODULE PolicyEngine ----------------------------
(***************************************************************************)
(* An access engine in use (src/router/internal/authz/engine.go): policies *)
(* are stored as JSON, compiled, and asked a few questions in a row, with  *)
(* the memo of decisions in between; and the two halves of a pairing, the  *)
(* model decided at admission with the request's context and the client    *)
(* decided by the scheduler without one.                                   *)
(***************************************************************************)
EXTENDS Authz

CONSTANTS Policies,      \* the sets of policies an engine may be compiled from
          Questions,     \* the requests it may be asked about
          ClientOf(_),   \* the client the scheduler considers for a request
          Globs,         \* <<pattern, name>> pairs for the matcher
          MaxAsked       \* bound: questions asked of one engine

\* A request with its subject and resource.  Subjects with the same ID and
\* Rev are identical (types.go:48-50); what a request carries besides them is
\* of its resource or its context.
IsSubject(s) ==
    s = [id |-> s.id, kind |-> s.kind, bindings |-> s.bindings, teams |-> s.teams,
         managedBy |-> s.managedBy, attrs |-> s.attrs, rev |-> s.rev]
IsResource(r) ==
    r = [type |-> r.type, id |-> r.id, owner |-> r.owner, team |-> r.team, sharing |-> r.sharing]
IsRequest(q) ==
    /\ q = [subject |-> q.subject, action |-> q.action, resource |-> q.resource,
            attrs |-> q.attrs, promptTokens |-> q.promptTokens]
    /\ IsSubject(q.subject) /\ IsResource(q.resource)
    /\ \A ref \in DOMAIN q.attrs : ref[1] \in {"resource", "context"}
IsText(x) == x \in Seq({x[i] : i \in DOMAIN x})
IsPolicy(p) ==
    /\ p = [effect |-> p.effect, enabled |-> p.enabled, subject |-> p.subject,
            actions |-> p.actions, resource |-> p.resource, condition |-> p.condition]
    /\ p.condition \in Conditions \cup {NoCondition}

ASSUME EngineAssumption ==
    /\ \A ps \in Policies : \A p \in ps : IsPolicy(p)
    /\ \A q \in Questions : IsRequest(q) /\ IsResource(ClientOf(q))
    /\ \A q, o \in Questions :
          /\ q.subject.rev # ""
          /\ q.subject.id = o.subject.id /\ q.subject.rev = o.subject.rev
          => q.subject = o.subject
    /\ \A g \in Globs : IsText(g[1]) /\ IsText(g[2])
    /\ MaxAsked \in Nat \ {0}

VARIABLES rules,         \* the stored policies, as their author wrote them
          memo,          \* Engine.cache: request key -> decision
          asked          \* the questions answered so far, with their answers

engineVars == <<rules, memo, asked>>

-----------------------------------------------------------------------------
\* The policies come back from the database before they are compiled.
Reloaded(p) == [p EXCEPT !.condition = IF @ = NoCondition THEN @ ELSE Stored(@)]

Engine == Compile(BuiltinRoles, {Reloaded(p) : p \in rules})

EngineInit ==
    /\ rules \in Policies /\ \A p \in rules : ValidPolicy(p)
    /\ memo = <<>> /\ asked = <<>>

\* Decide: the memo answers if it can, and learns what it may.
Decide(req) ==
    LET key == CacheKey(req)
        hit == Cacheable(Engine, req) /\ key \in DOMAIN memo
        answer == IF hit THEN memo[key] ELSE DecideAfresh(Engine, req)
    IN  /\ Len(asked) < MaxAsked
        /\ asked' = Append(asked, [kind |-> "decide", req |-> req, allowed |-> answer])
        /\ memo' = IF Cacheable(Engine, req)
                   THEN [k \in DOMAIN memo \cup {key} |-> IF k = key THEN answer ELSE memo[k]]
                   ELSE memo
        /\ UNCHANGED rules

\* A request is admitted for its model, in a context that names no prompt
\* tokens (model_access.go:39), and later offered a client.
Pair(req) ==
    /\ asked = <<>> /\ req.action = "model.use" /\ req.promptTokens = 0
    /\ asked' = << [kind |-> "pair", req |-> req,
                    allowed |-> /\ DecideAfresh(Engine, req)
                                /\ PairClient(Engine, req.subject, ClientOf(req)).allowed] >>
    /\ UNCHANGED <<rules, memo>>

EngineNext == \E req \in Questions : Decide(req) \/ Pair(req)

EngineSpec == EngineInit /\ [][EngineNext]_engineVars

-----------------------------------------------------------------------------
(* Properties.                                                             *)

EngineTypeOK ==
    /\ rules \in Policies
    /\ Len(asked) <= MaxAsked
    /\ \A i \in DOMAIN asked : asked[i].req \in Questions /\ asked[i].allowed \in BOOLEAN
    /\ \A k \in DOMAIN memo : memo[k] \in BOOLEAN

\* Whatever was asked before, and although policies travel through the
\* database as JSON, an answer is the one the policies as their author wrote
\* them give to this very request: the memo is transparent (engine.go:39,
\* "makes the cache trivially correct") and a literal that looks like a
\* reference stays a literal (cond.go:164).
AnswersAsWritten ==
    \A i \in DOMAIN asked : asked[i].kind = "decide" =>
        asked[i].allowed = DecideAfresh(Compile(BuiltinRoles, rules), asked[i].req)

AsksForAbsence(c) ==
    LET Asks[x \in Conditions] ==
            IF x.kind = "op" THEN x.op = "exists" ELSE \E i \in DOMAIN x.list : Asks[x.list[i]]
    IN  Asks[c]

\* No rule asks for absence itself, by exists or by a matcher that selects
\* those who have an attribute (match.go:49-52: matchers do not protect).
NoAbsenceTest ==
    \A p \in rules : /\ p.subject.attrs = <<>>
                     /\ p.condition # NoCondition => ~AsksForAbsence(p.condition)

\* q carries what p carries and perhaps more, and agrees on it.
CarriesMore(q, p) ==
    /\ q.subject = [p.subject EXCEPT !.attrs = q.subject.attrs, !.rev = q.subject.rev]
    /\ q.action = p.action /\ q.resource = p.resource /\ q.promptTokens = p.promptTokens
    /\ \A ref \in DOMAIN p.attrs : ref \in DOMAIN q.attrs /\ q.attrs[ref] = p.attrs[ref]
    /\ \A k \in DOMAIN p.subject.attrs :
          k \in DOMAIN q.subject.attrs /\ q.subject.attrs[k] = p.subject.attrs[k]

\* A missing attribute never grants and never lets a subject slip a
\* restriction (cond.go:29-32): a request that is allowed is still allowed
\* with any of the attributes it did not carry filled in, by every condition
\* that does not ask for absence itself (exists).
MissingNeverGrants ==
    NoAbsenceTest =>
        \A i \in DOMAIN asked : asked[i].kind = "decide" /\ asked[i].allowed =>
            \A q \in Questions : CarriesMore(q, asked[i].req) => DecideAfresh(Engine, q)

\* Deciding the model at admission and the client in the scheduler, which has
\* no context (sharing_store.go:101), never admits a pairing that the whole
\* question in the request's own context would refuse (sharing.go:122).
SplitNeverWider ==
    NoAbsenceTest =>
        \A i \in DOMAIN asked : asked[i].kind = "pair" /\ asked[i].allowed =>
            CanPair(Engine, asked[i].req, ClientOf(asked[i].req))

\* What the wildcards mean: the name can be cut into one run of characters
\* for each character of the pattern, any run for *, a single one for ? and
\* for a character that stands for itself.
Matches(pattern, name) ==
    \E cut \in [1 .. Len(pattern) + 1 -> 1 .. Len(name) + 1] :
       /\ cut[1] = 1 /\ cut[Len(pattern) + 1] = Len(name) + 1
       /\ \A i \in 1 .. Len(pattern) :
             IF pattern[i] = "*" THEN cut[i] <= cut[i + 1]
             ELSE cut[i + 1] = cut[i] + 1 /\ pattern[i] \in {"?", name[cut[i]]}

\* The backtracking matcher decides what its wildcards mean (match.go:5-9),
\* for names without a star: a star of the name is read as the literal it
\* meets in the pattern.
GlobIsMatch ==
    asked = <<>> =>
        \A g \in Globs : (\A i \in DOMAIN g[2] : g[2][i] # "*") => Glob(g[1], g[2]) = Matches(g[1], g[2])

=============================================================================
