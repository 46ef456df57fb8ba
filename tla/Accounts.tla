------------------------------ MODULE Accounts ------------------------------
(***************************************************************************)
(* The access tables of the router's state database and the portal         *)
(* handlers that change them: users, router-wide roles, one team with its   *)
(* members, API keys and client tokens, portal sessions, the worker         *)
(* connections opened with a token, and the loop that re-checks            *)
(* provider-managed accounts with the identity provider.                   *)
(*                                                                         *)
(* Every handler is one step.  The exception is the re-check: it asks the  *)
(* provider about all accounts first and applies the answers afterwards,   *)
(* so that other handlers run between the question and its consequence.    *)
(*                                                                         *)
(* Only the roles the guards tell apart are kept, owner and admin; any     *)
(* other router-wide role is the lack of both.  Deny policies can only     *)
(* refuse a handler that is allowed here.                                  *)
(***************************************************************************)
EXTENDS FiniteSets, Naturals

CONSTANTS User,           \* user names
          Team,           \* the id of a team
          Holder,         \* the principals that are given keys and tokens
          Mapped,         \* the provider's role map: what it can grant
          MassRefusals    \* refusals from which a re-check distrusts the provider

ASSUME AccountsAssumption ==
    /\ Team \notin User
    /\ Holder \subseteq User \cup {Team}
    /\ Mapped \subseteq {"owner", "admin"}
    /\ MassRefusals \in Nat

VARIABLES users, roles, team, members, creds, sessions, conns, recheck, barred

accountsVars ==
    <<users, roles, team, members, creds, sessions, conns, recheck, barred>>

Privileged == {"owner", "admin"}
Kind == {"key", "token"}
Answer == [allowed : BOOLEAN, roles : SUBSET Mapped, grouped : BOOLEAN]
Row == [exists : BOOLEAN, disabled : BOOLEAN, by : {"", "oidc"},
        managed : BOOLEAN, refresh : BOOLEAN]

NoRow == [exists |-> FALSE, disabled |-> FALSE, by |-> "",
          managed |-> FALSE, refresh |-> FALSE]

AccountsTypeOK ==
    /\ users \in [User -> Row]
    /\ roles \in [User -> SUBSET Privileged]
    /\ team \in {"absent", "active", "disabled"}
    /\ members \in [User -> {"none", "member", "maintainer"}]
    /\ creds \subseteq Kind \X Holder
    /\ sessions \subseteq User
    /\ conns \subseteq Holder
    /\ recheck.phase \in {"idle", "asking", "applying"}
    /\ recheck.left \subseteq User
    /\ recheck.out \subseteq [on : User, answer : Answer]
    /\ barred \subseteq User

AccountsInit ==
    /\ users = [u \in User |-> NoRow]
    /\ roles = [u \in User |-> {}]
    /\ team = "absent"
    /\ members = [u \in User |-> "none"]
    /\ creds = {} /\ sessions = {} /\ conns = {}
    /\ recheck = [phase |-> "idle", left |-> {}, out |-> {}]
    /\ barred = {}

-----------------------------------------------------------------------------
(* The queries the guards are made of.                                     *)

LookupUser(u) == users[u].exists
Active(u) == LookupUser(u) /\ ~users[u].disabled

isPrivileged(u) == roles[u] # {}
otherActivePrivileged(u) == {v \in User \ {u} : Active(v) /\ isPrivileged(v)}
activeOwners(u) == {v \in User \ {u} : Active(v) /\ "owner" \in roles[v]}
NeedsSetup == \A u \in User : ~LookupUser(u)

\* A user without a row counts as active: a key from before accounts existed.
PrincipalActive(p) ==
    IF p = Team THEN team = "active" ELSE ~LookupUser(p) \/ ~users[p].disabled

\* The user of a request, from its session, and what the roles let it do:
\* both privileged roles carry every permission but the care of owners.
sessionUser(a) == a \in sessions /\ Active(a)
requirePerm(a) == sessionUser(a) /\ isPrivileged(a)
canGrantRole(a, role) == isPrivileged(a) /\ (role = "owner" => "owner" \in roles[a])
userChangeRefused(a, u) == \E role \in roles[u] : ~canGrantRole(a, role)
teamFromForm(a) == team # "absent" /\ (requirePerm(a) \/ members[a] = "maintainer")

\* Whom a new or revoked key or token may belong to.
credentialOwner(a, p) ==
    /\ sessionUser(a)
    /\ \/ a = p
       \/ p = Team /\ teamFromForm(a)
       \/ p \in User /\ LookupUser(p) /\ requirePerm(a)

-----------------------------------------------------------------------------
(* Accounts.                                                               *)

\* What the sessions are once those of u are revoked.
RevokeSessions(u) == sessions \ {u}

\* The workers that stay connected once the tokens of p are closed.
CloseByToken(p) == IF <<"token", p>> \in creds THEN conns \ {p} ELSE conns

\* A new row of u: enabling clears what disabled the account, and the change
\* from enabled to disabled ends its sessions.
UpdateUser(u, row) ==
    /\ users' = [users EXCEPT ![u] =
          IF users[u].disabled /\ ~row.disabled THEN [row EXCEPT !.by = ""] ELSE row]
    /\ sessions' = IF row.disabled /\ ~users[u].disabled
                   THEN RevokeSessions(u) ELSE sessions

\* A mistake: the account's name is recorded where the source belongs.
MutantSetDisabledBy(u, disabled, by) ==
    UpdateUser(u, [users[u] EXCEPT !.disabled = disabled, !.by = u])

\* A disabled account keeps no refresh token.
SetDisabledBy(u, disabled, by) ==
    UpdateUser(u, [users[u] EXCEPT !.disabled = disabled,
                                   !.by = IF disabled THEN by ELSE "",
                                   !.refresh = ~disabled /\ @])

\* The administrator's roles: of the first account, and of a new one.
AddFirstAdmin(u) ==
    /\ users' = [users EXCEPT ![u].exists = TRUE]
    /\ roles' = [roles EXCEPT ![u] = {"owner"}]

bindInitialRole(role) == {role} \cap {"admin"}

AddUser(u, role) ==
    /\ users' = [users EXCEPT ![u].exists = TRUE]
    /\ roles' = [roles EXCEPT ![u] = bindInitialRole(role)]

handleSetup(u) ==
    /\ NeedsSetup
    /\ AddFirstAdmin(u)
    /\ UNCHANGED <<team, members, creds, sessions, conns, recheck, barred>>

handleAddUser(a, u) ==
    /\ requirePerm(a) /\ ~LookupUser(u)
    /\ AddUser(u, "member")
    /\ UNCHANGED <<team, members, creds, sessions, conns, recheck, barred>>

\* The guard on the last enabled administrator.
LastPrivileged(u) == isPrivileged(u) /\ otherActivePrivileged(u) = {}

handleUserDisable(a, u) ==
    /\ requirePerm(a) /\ LookupUser(u) /\ u # a
    /\ ~userChangeRefused(a, u) /\ ~LastPrivileged(u)
    /\ SetDisabledBy(u, TRUE, "")
    /\ conns' = CloseByToken(u)
    /\ barred' = barred \cup {u}
    /\ UNCHANGED <<roles, team, members, creds, recheck>>

handleUserEnable(a, u) ==
    /\ requirePerm(a) /\ LookupUser(u) /\ ~userChangeRefused(a, u)
    /\ UpdateUser(u, [users[u] EXCEPT !.disabled = FALSE])
    /\ barred' = barred \ {u}
    /\ UNCHANGED <<roles, team, members, creds, conns, recheck>>

\* Setting a password hands a managed account back to the router.
handleUserResetPassword(a, u) ==
    /\ requirePerm(a) /\ LookupUser(u) /\ u # a /\ ~userChangeRefused(a, u)
    /\ users' = [users EXCEPT ![u].managed = FALSE]
    /\ sessions' = RevokeSessions(u)
    /\ UNCHANGED <<roles, team, members, creds, conns, recheck, barred>>

\* A mistake: the deletion forgets the client tokens.
MutantDeleteUser(u) ==
    /\ users[u].disabled /\ ~LastPrivileged(u)
    /\ users' = [users EXCEPT ![u] = NoRow]
    /\ roles' = [roles EXCEPT ![u] = {}]
    /\ members' = [members EXCEPT ![u] = "none"]
    /\ creds' = creds \ {<<"key", u>>}
    /\ sessions' = RevokeSessions(u)

\* Only a disabled account can be deleted, with everything that names it.
DeleteUser(u) ==
    /\ users[u].disabled /\ ~LastPrivileged(u)
    /\ users' = [users EXCEPT ![u] = NoRow]
    /\ roles' = [roles EXCEPT ![u] = {}]
    /\ members' = [members EXCEPT ![u] = "none"]
    /\ creds' = creds \ (Kind \X {u})
    /\ sessions' = RevokeSessions(u)

handleUserDelete(a, u) ==
    /\ requirePerm(a) /\ LookupUser(u) /\ u # a /\ ~userChangeRefused(a, u)
    /\ DeleteUser(u)
    /\ barred' = barred \ {u}
    /\ UNCHANGED <<team, conns, recheck>>

handleUserSignOut(a, u) ==
    /\ requirePerm(a) /\ ~userChangeRefused(a, u)
    /\ sessions' = RevokeSessions(u)
    /\ UNCHANGED <<users, roles, team, members, creds, conns, recheck, barred>>

\* A user ends its own session: by signing out, or from the list of sessions.
handleSessionRevoke(u) ==
    /\ sessionUser(u)
    /\ sessions' = RevokeSessions(u)
    /\ UNCHANGED <<users, roles, team, members, creds, conns, recheck, barred>>

-----------------------------------------------------------------------------
(* Roles.                                                                  *)

\* A managed account's roles are its provider's business.
roleManagedElsewhere(u) == users[u].managed

roleChangeRefused(a, u, role) ==
    userChangeRefused(a, u) \/ ~canGrantRole(a, role) \/ roleManagedElsewhere(u)

\* Neither the last owner nor the last role of the last administrator goes.
UnbindRefused(u, role, held) ==
    \/ role = "owner" /\ activeOwners(u) = {}
    \/ otherActivePrivileged(u) = {} /\ held \ {role} = {}

handleUserRoleAdd(a, u, role) ==
    /\ requirePerm(a) /\ ~roleChangeRefused(a, u, role) /\ LookupUser(u)
    /\ roles' = [roles EXCEPT ![u] = @ \cup {role}]
    /\ UNCHANGED <<users, team, members, creds, sessions, conns, recheck, barred>>

handleUserRoleRemove(a, u, role) ==
    /\ requirePerm(a) /\ ~roleChangeRefused(a, u, role)
    /\ ~UnbindRefused(u, role, roles[u])
    /\ roles' = [roles EXCEPT ![u] = @ \ {role}]
    /\ UNCHANGED <<users, team, members, creds, sessions, conns, recheck, barred>>

-----------------------------------------------------------------------------
(* The team, and the keys and tokens of users and of the team.             *)

CreateTeam(a) ==
    /\ team = "absent"
    /\ team' = "active"
    /\ members' = [members EXCEPT ![a] = "maintainer"]

handleTeamCreate(a) ==
    /\ requirePerm(a)
    /\ CreateTeam(a)
    /\ UNCHANGED <<users, roles, creds, sessions, conns, recheck, barred>>

SetTeamDisabled(disabled) == team' = IF disabled THEN "disabled" ELSE "active"

DeleteTeam ==
    /\ team' = "absent"
    /\ members' = [u \in User |-> "none"]
    /\ creds' = creds \ (Kind \X {Team})

\* Disabling and deleting a team also cut its workers.
handleTeamState(a, action) ==
    /\ teamFromForm(a) /\ requirePerm(a)
    /\ IF action = "delete" THEN DeleteTeam
       ELSE SetTeamDisabled(action = "disable") /\ UNCHANGED <<members, creds>>
    /\ conns' = IF action = "enable" THEN conns ELSE CloseByToken(Team)
    /\ UNCHANGED <<users, roles, sessions, recheck, barred>>

\* The membership of one who is added; it replaces the one before.
AddTeamMember(maintainer) == IF maintainer THEN "maintainer" ELSE "member"

\* Maintainers add plain members; appointing a maintainer takes an admin.
handleTeamMemberAdd(a, u, maintainer) ==
    /\ sessionUser(a) /\ teamFromForm(a) /\ (maintainer => requirePerm(a))
    /\ LookupUser(u)
    /\ members' = [members EXCEPT ![u] = AddTeamMember(maintainer)]
    /\ UNCHANGED <<users, roles, team, creds, sessions, conns, recheck, barred>>

handleTeamMemberRemove(a, u) ==
    /\ sessionUser(a) /\ teamFromForm(a)
    /\ members' = [members EXCEPT ![u] = "none"]
    /\ UNCHANGED <<users, roles, team, creds, sessions, conns, recheck, barred>>

handleAPIKeyCreate(a, p) ==
    /\ credentialOwner(a, p)
    /\ creds' = creds \cup {<<"key", p>>}
    /\ UNCHANGED <<users, roles, team, members, sessions, conns, recheck, barred>>

handleAPIKeyRevoke(a, p) ==
    /\ credentialOwner(a, p)
    /\ creds' = creds \ {<<"key", p>>}
    /\ UNCHANGED <<users, roles, team, members, sessions, conns, recheck, barred>>

handleClientTokenCreate(a, p) ==
    /\ credentialOwner(a, p)
    /\ creds' = creds \cup {<<"token", p>>}
    /\ UNCHANGED <<users, roles, team, members, sessions, conns, recheck, barred>>

handleClientTokenRevoke(a, p) ==
    /\ credentialOwner(a, p)
    /\ creds' = creds \ {<<"token", p>>}
    /\ conns' = CloseByToken(p)
    /\ UNCHANGED <<users, roles, team, members, sessions, recheck, barred>>

\* A worker connects with a token, or goes.
LookupActiveClientToken(p) ==
    /\ <<"token", p>> \in creds /\ PrincipalActive(p) /\ p \notin conns
    /\ conns' = conns \cup {p}
    /\ UNCHANGED <<users, roles, team, members, creds, sessions, recheck, barred>>

WorkerLeaves(p) ==
    /\ p \in conns
    /\ conns' = conns \ {p}
    /\ UNCHANGED <<users, roles, team, members, creds, sessions, recheck, barred>>

-----------------------------------------------------------------------------
(* Signing in.                                                             *)

startSession(u) == sessions' = sessions \cup {u}

\* A managed account signs in through its provider only.
managedElsewhere(u) == users[u].managed

handleLogin(u) ==
    /\ Active(u) /\ ~managedElsewhere(u) /\ u \notin sessions
    /\ startSession(u)
    /\ UNCHANGED <<users, roles, team, members, creds, conns, recheck, barred>>

\* A mistake: the provider's word is applied without the guard.
MutantSynced(u, have, answer) == answer.roles \cup (have \cap {"owner"})

\* The roles of a managed account become the mapped ones: what is missing is
\* bound, what is not mapped is unbound unless the guard refuses, and the
\* provider never takes the owner role away.
Synced(u, have, answer) ==
    LET bound == have \cup answer.roles
        unmapped == {"admin"} \ answer.roles
    IN  IF UnbindRefused(u, "admin", bound) THEN bound ELSE bound \ unmapped

\* Membership of the mapped team follows the groups.  A member of a disabled
\* team counts as outside it, so it is added again, as a plain member.
Grouped(u, answer) ==
    LET isIn == members[u] # "none" /\ team = "active"
    IN  CASE team # "absent" /\ answer.grouped /\ ~isIn -> AddTeamMember(FALSE)
          [] ~answer.grouped /\ isIn -> "none"
          [] OTHER -> members[u]

\* The row and the roles of the account a provider's identity leads to.
legacyRoleOf(granted) == IF granted = {} THEN "member" ELSE "admin"
ProvisionOIDCUser(u) ==
    IF LookupUser(u) THEN users[u] ELSE [NoRow EXCEPT !.exists = TRUE, !.managed = TRUE]
ProvisionedRoles(u, role) ==
    IF LookupUser(u) THEN roles[u] ELSE bindInitialRole(role)

\* A sign-in with the provider's identity of u: provisioned the first time,
\* re-enabled if it was the provider that disabled the account, synchronised
\* if the provider manages it.  The provider is configured after the setup.
completeOIDCLogin(u, answer) ==
    /\ ~NeedsSetup /\ answer.allowed
    /\ users[u].disabled => users[u].managed /\ users[u].by = "oidc"
    /\ LET row == ProvisionOIDCUser(u)
           have == ProvisionedRoles(u, legacyRoleOf(answer.roles))
       IN  /\ users' = [users EXCEPT ![u] =
                  [row EXCEPT !.disabled = FALSE, !.by = IF row.disabled THEN "" ELSE @,
                              !.refresh = row.managed \/ @]]
           /\ roles' = [roles EXCEPT ![u] =
                  IF row.managed THEN Synced(u, have, answer) ELSE have]
           /\ members' = [members EXCEPT ![u] =
                  IF row.managed THEN Grouped(u, answer) ELSE @]
    /\ startSession(u)
    /\ UNCHANGED <<team, creds, conns, recheck, barred>>

\* A machine account signs in with an access token, and is made an admin the
\* first time.
adminForTokenIdentity(u) ==
    /\ ~users[u].disabled
    /\ users' = [users EXCEPT ![u] = ProvisionOIDCUser(u)]
    /\ roles' = [roles EXCEPT ![u] = ProvisionedRoles(u, "admin")]

handleTokenLogin(u) ==
    /\ ~NeedsSetup
    /\ adminForTokenIdentity(u)
    /\ startSession(u)
    /\ UNCHANGED <<team, members, creds, conns, recheck, barred>>

-----------------------------------------------------------------------------
(* The re-check of managed accounts.                                       *)

managedWithRefresh ==
    {u \in User : Active(u) /\ users[u].managed /\ users[u].refresh}

RunOIDCRevalidation ==
    /\ recheck.phase = "idle" /\ managedWithRefresh # {}
    /\ recheck' = [phase |-> "asking", left |-> managedWithRefresh, out |-> {}]
    /\ UNCHANGED <<users, roles, team, members, creds, sessions, conns, barred>>

\* The provider answers, or gives no answer, which is not a refusal.
revalidateOne(u, answers) ==
    /\ recheck.phase = "asking" /\ u \in recheck.left
    /\ recheck' = [recheck EXCEPT !.left = @ \ {u},
                                  !.out = @ \cup [on : {u}, answer : answers]]
    /\ UNCHANGED <<users, roles, team, members, creds, sessions, conns, barred>>

\* When most accounts are refused at once, none is disabled.
revalidateOIDC ==
    /\ recheck.phase = "asking" /\ recheck.left = {}
    /\ LET refused == {o \in recheck.out : ~o.answer.allowed}
           distrust == /\ Cardinality(refused) >= MassRefusals
                       /\ 2 * Cardinality(refused) > Cardinality(recheck.out)
       IN  recheck' = [phase |-> IF distrust THEN "idle" ELSE "applying",
                       left |-> {}, out |-> IF distrust THEN {} ELSE recheck.out]
    /\ UNCHANGED <<users, roles, team, members, creds, sessions, conns, barred>>

Applied(o) ==
    /\ recheck.phase = "applying" /\ o \in recheck.out
    /\ recheck' = [recheck EXCEPT !.out = @ \ {o}]

disableByProvider(o) ==
    /\ Applied(o) /\ ~o.answer.allowed
    /\ IF LookupUser(o.on) /\ ~LastPrivileged(o.on)
       THEN SetDisabledBy(o.on, TRUE, "oidc") /\ conns' = CloseByToken(o.on)
       ELSE UNCHANGED <<users, sessions, conns>>
    /\ UNCHANGED <<roles, team, members, creds, barred>>

\* The account is synchronised as the row read before the question says.
syncManagedAccess(o) ==
    /\ Applied(o) /\ o.answer.allowed
    /\ IF LookupUser(o.on)
       THEN /\ roles' = [roles EXCEPT ![o.on] = Synced(o.on, @, o.answer)]
            /\ members' = [members EXCEPT ![o.on] = Grouped(o.on, o.answer)]
            /\ users' = [users EXCEPT ![o.on].refresh = TRUE]
       ELSE UNCHANGED <<roles, members, users>>
    /\ UNCHANGED <<team, creds, sessions, conns, barred>>

RecheckDone ==
    /\ recheck.phase = "applying" /\ recheck.out = {}
    /\ recheck' = [recheck EXCEPT !.phase = "idle"]
    /\ UNCHANGED <<users, roles, team, members, creds, sessions, conns, barred>>

-----------------------------------------------------------------------------
AccountStep ==
    \/ \E u \in User : handleSetup(u) \/ handleLogin(u) \/ handleSessionRevoke(u)
    \/ \E a, u \in User :
          \/ handleAddUser(a, u) \/ handleUserDisable(a, u) \/ handleUserEnable(a, u)
          \/ handleUserDelete(a, u) \/ handleUserSignOut(a, u)
          \/ \E role \in Privileged :
                handleUserRoleAdd(a, u, role) \/ handleUserRoleRemove(a, u, role)

TokenStep ==
    \E p \in Holder :
       \/ LookupActiveClientToken(p) \/ WorkerLeaves(p)
       \/ \E a \in User : handleClientTokenCreate(a, p) \/ handleClientTokenRevoke(a, p)

KeyStep ==
    \E a \in User, p \in Holder : handleAPIKeyCreate(a, p) \/ handleAPIKeyRevoke(a, p)

TeamStep ==
    \/ \E a \in User : handleTeamCreate(a)
    \/ \E a \in User, action \in {"enable", "disable", "delete"} : handleTeamState(a, action)
    \/ \E a, u \in User : handleTeamMemberRemove(a, u)
    \/ \E a, u \in User, maintainer \in BOOLEAN : handleTeamMemberAdd(a, u, maintainer)

ProviderStep ==
    \/ \E u \in User : handleTokenLogin(u) \/ revalidateOne(u, {})
    \/ \E u \in User, answer \in Answer :
          completeOIDCLogin(u, answer) \/ revalidateOne(u, {answer})
    \/ \E a, u \in User : handleUserResetPassword(a, u)
    \/ RunOIDCRevalidation \/ revalidateOIDC \/ RecheckDone
    \/ \E o \in recheck.out : disableByProvider(o) \/ syncManagedAccess(o)

AccountsNext == AccountStep \/ TokenStep \/ KeyStep \/ TeamStep \/ ProviderStep

AccountsSpec == AccountsInit /\ [][AccountsNext]_accountsVars

-----------------------------------------------------------------------------
\* Once the router is set up, an enabled owner or admin remains, whatever
\* administrators, the provider and its re-check do: every handler that
\* disables an account or takes a role away guards against the last one
\* (pages.go handleUserDisable, access_store.go Unbind, oidc_revalidate.go
\* disableByProvider, oidc_access.go syncManagedAccess).
SomeonePrivileged ==
    (\E u \in User : LookupUser(u)) => \E u \in User : Active(u) /\ isPrivileged(u)

\* Nothing that grants access outlives its principal.  A key or token whose
\* owner has no row would be accepted (PrincipalActive), a session or worker
\* connection that survives a disable would be back when the account is
\* enabled, and a role or membership left behind would be the next bearer of
\* the name's (state.go DeleteUser and UpdateUser, access_store.go DeleteTeam).
NoDanglingAccess ==
    /\ \A u \in sessions : Active(u)
    /\ \A u \in User : roles[u] # {} \/ members[u] # "none" => LookupUser(u)
    /\ (\E u \in User : members[u] # "none") => team # "absent"
    /\ \A c \in creds : IF c[2] = Team THEN team # "absent" ELSE LookupUser(c[2])
    /\ \A p \in conns : <<"token", p>> \in creds /\ PrincipalActive(p)

\* An account an administrator disabled stays disabled until an administrator
\* enables it: "One an admin disabled stays disabled" (completeOIDCLogin).
AdminDisableSticks == \A u \in barred : ~Active(u)
=============================================================================
