------------------------------ MODULE UserAccounts ------------------------------
(***************************************************************************)
(* The accounts of a tenant: the rows of the table users, the identities,  *)
(* sessions and reset links that the provider (SuperTokens) keeps, the     *)
(* requests of administrators that change both (PATCH, PATCH active, PATCH *)
(* password, DELETE, POST of v1/users) and the self-service reset.         *)
(*                                                                         *)
(* A handler is cut at every await on the database or the provider, so any *)
(* other request, login or failure may come between two of its steps.  No  *)
(* step of a handler is undone when a later one fails.                     *)
(***************************************************************************)
EXTENDS Integers, FiniteSets, Sequences

CONSTANTS
  Users,     \* ids of rows
  Founders,  \* those that exist at first, all of them administrators
  Tenants,
  TenantOf,  \* TenantOf[u]: the tenant of founder u
  EmailOf,   \* EmailOf[u]: the e-mail that u has or would be created with
  Absent,    \* role left out of the body
  Nobody,    \* the requester of a self-service reset
  Asks,      \* bound: what administrators ask for
  Visitors,  \* bound: users who log in or ask for a reset link
  Requests   \* slots for concurrent requests

Roles == {"ADMIN", "USER"}

Ask ==
  [kind : {"patch"}, role : Roles \cup {Absent}]
  \cup [kind : {"active"}, isActive : BOOLEAN]
  \cup [kind : {"delete", "password", "reset"}]
  \cup [kind : {"create"}, role : Roles]

\* hasIdentity: supertokensUserId is not 'pending-supertokens-id'
Row == [tenant : Tenants, role : Roles, isActive : BOOLEAN, deleted : BOOLEAN,
        hasIdentity : BOOLEAN]

ASSUME FounderAssumption ==
  Founders \subseteq Users /\ IsFiniteSet(Users) /\ TenantOf \in [Founders -> Tenants]
ASSUME BoundAssumption   ==
  Asks \subseteq Ask \ [kind : {"reset"}] /\ Visitors \subseteq Users
ASSUME NobodyAssumption  == Nobody \notin Users /\ Absent \notin Roles

VARIABLES
  users,       \* the table users, a function on the ids that have a row
  identities,  \* users whose identity the provider has
  sessions,    \* sessions[u]: passwords ("now", "old") the open sessions of u used
  links,       \* users with a reset link that was not used
  requests     \* requests[r]: the request in slot r

vars == <<users, identities, sessions, links, requests>>

Idle == [phase |-> "idle"]

---------------------------------------------------------------------------
Live(u) == u \in DOMAIN users /\ ~users[u].deleted

IsActiveAdmin(row) == row.role = "ADMIN" /\ row.isActive /\ ~row.deleted

\* countActiveAdminsByTenantId
ActiveAdmins(t) ==
  {u \in DOMAIN users : users[u].tenant = t /\ IsActiveAdmin(users[u])}

\* Bug: an administrator may deactivate himself.
RefusedOnSelf_MayDeactivate(ask) ==
  ask.kind = "delete" \/ (ask.kind = "patch" /\ ask.role # Absent)

\* What an administrator may not do to himself.
RefusedOnSelf(ask) ==
  \/ ask.kind = "delete"
  \/ ask.kind = "active" /\ ~ask.isActive
  \/ ask.kind = "patch" /\ ask.role # Absent

\* The request takes an active administrator away, as far as it has read.
Removes(ask, seen) ==
  /\ seen.isActive /\ seen.role = "ADMIN"
  /\ \/ ask.kind = "delete"
     \/ ask.kind = "active" /\ ~ask.isActive
     \/ ask.kind = "patch" /\ ask.role \notin {Absent, "ADMIN"}

\* Bug: the row goes before the identity.
Steps_RowFirst(ask) ==
  CASE ask.kind = "patch"  -> <<"update">>
    [] ask.kind = "active" -> IF ask.isActive THEN <<"update">> ELSE <<"revoke", "update">>
    [] ask.kind = "delete" -> <<"revoke", "softDelete", "deleteIdentity">>
    [] ask.kind \in {"password", "reset"} -> <<"setPassword", "revoke">>

\* Bug: sessions are revoked before the password changes.
Steps_RevokeFirst(ask) ==
  CASE ask.kind = "patch"  -> <<"update">>
    [] ask.kind = "active" -> IF ask.isActive THEN <<"update">> ELSE <<"revoke", "update">>
    [] ask.kind = "delete" -> <<"revoke", "deleteIdentity", "softDelete">>
    [] ask.kind \in {"password", "reset"} -> <<"revoke", "setPassword">>

\* What a handler does once its checks have passed, in this order.
Steps(ask) ==
  CASE ask.kind = "patch"  -> <<"update">>
    [] ask.kind = "active" -> IF ask.isActive THEN <<"update">> ELSE <<"revoke", "update">>
    [] ask.kind = "delete" -> <<"revoke", "deleteIdentity", "softDelete">>
    [] ask.kind \in {"password", "reset"} -> <<"setPassword", "revoke">>

\* Bug: isActive takes the default of the entity when it is not asked for.
Written_ActiveByDefault(ask, seen, row) ==
  [row EXCEPT
     !.role     = IF ask.kind = "patch" /\ ask.role # Absent THEN ask.role ELSE seen.role,
     !.isActive = IF ask.kind = "active" THEN ask.isActive ELSE TRUE]

\* The row that update writes: every column, with what the request read for those
\* it does not ask to change.
Written(ask, seen, row) ==
  [row EXCEPT
     !.role     = IF ask.kind = "patch" /\ ask.role # Absent THEN ask.role ELSE seen.role,
     !.isActive = IF ask.kind = "active" THEN ask.isActive ELSE seen.isActive]

---------------------------------------------------------------------------
Init ==
  /\ users = [u \in Founders |->
       [tenant |-> TenantOf[u], role |-> "ADMIN", isActive |-> TRUE,
        deleted |-> FALSE, hasIdentity |-> TRUE]]
  /\ identities = Founders
  /\ sessions = [u \in Users |-> {}]
  /\ links = {}
  /\ requests = [r \in Requests |-> Idle]

---------------------------------------------------------------------------
(* Requests of administrators.                                             *)

\* The middleware resolves the requester to an active row, RolesGuard wants an
\* administrator, and the use case refuses some requests on oneself.  The session
\* itself is not looked at again after this point.  (An access token stays valid
\* for a while after its session is revoked, so any active row may have one.)
Authorized(by) ==
  by \in DOMAIN users /\ users[by].hasIdentity /\ IsActiveAdmin(users[by])

\* The id of a new row is one nobody has or is about to have.
Fresh(u) ==
  /\ u \notin DOMAIN users
  /\ \A r \in Requests : requests[r] # Idle => requests[r].target # u

Admit(r, by, target, ask) ==
  /\ requests[r] = Idle
  /\ Authorized(by)
  /\ IF ask.kind = "create" THEN Fresh(target) ELSE TRUE
  /\ ~(by = target /\ RefusedOnSelf(ask))
  /\ requests' = [requests EXCEPT ![r] =
       [phase |-> "find", ask |-> ask, by |-> by, target |-> target]]
  /\ UNCHANGED <<users, identities, sessions, links>>

\* Bug: findById ignores the tenant.
Found_AnyTenant(r) == Live(requests[r].target)

Found(r) ==
  LET q == requests[r]
  IN Live(q.target) /\ users[q.target].tenant = users[q.by].tenant

\* findById; the use cases that count the administrators do so next.
FindTarget(r) ==
  LET q == requests[r] IN
  /\ q.phase = "find" /\ q.ask.kind # "create"
  /\ requests' = [requests EXCEPT ![r] =
       IF ~Found(r) THEN Idle      \* 404 USER_NOT_FOUND
       ELSE IF Removes(q.ask, users[q.target])
       THEN [phase |-> "count", ask |-> q.ask, by |-> q.by, target |-> q.target,
             seen |-> users[q.target]]
       ELSE [phase |-> "run", ask |-> q.ask, by |-> q.by, target |-> q.target,
             seen |-> users[q.target], counted |-> 0, todo |-> Steps(q.ask)]]
  /\ UNCHANGED <<users, identities, sessions, links>>

\* Bug: the last administrator is counted as one too many.
CountAdmins_OffByOne(r) ==
  LET q == requests[r]
      admins == Cardinality(ActiveAdmins(users[q.by].tenant))
  IN /\ q.phase = "count"
     /\ requests' = [requests EXCEPT ![r] =
          IF admins < 1 THEN Idle
          ELSE [phase |-> "run", ask |-> q.ask, by |-> q.by, target |-> q.target,
                seen |-> q.seen, counted |-> admins, todo |-> Steps(q.ask)]]
     /\ UNCHANGED <<users, identities, sessions, links>>

CountAdmins(r) ==
  LET q == requests[r]
      admins == Cardinality(ActiveAdmins(users[q.by].tenant))
  IN /\ q.phase = "count"
     /\ requests' = [requests EXCEPT ![r] =
          IF admins <= 1 THEN Idle      \* 403 USER_LAST_ADMIN
          ELSE [phase |-> "run", ask |-> q.ask, by |-> q.by, target |-> q.target,
                seen |-> q.seen, counted |-> admins, todo |-> Steps(q.ask)]]
     /\ UNCHANGED <<users, identities, sessions, links>>

---------------------------------------------------------------------------
(* The steps of the handlers.                                              *)

Doing(r, step) == requests[r].phase = "run" /\ Head(requests[r].todo) = step

Finish(r) ==
  LET q == requests[r]
  IN requests' = [requests EXCEPT ![r] =
       IF Len(q.todo) = 1 THEN Idle ELSE [q EXCEPT !.todo = Tail(q.todo)]]

\* The UPDATE has no condition on deletedAt; on a deleted row the handler fails
\* afterwards, with the row written.
Update(r) ==
  LET q == requests[r] IN
  /\ Doing(r, "update")
  /\ users' = [users EXCEPT ![q.target] = Written(q.ask, q.seen, @)]
  /\ Finish(r)
  /\ UNCHANGED <<identities, sessions, links>>

RevokeSessions(r) ==
  /\ Doing(r, "revoke")
  /\ sessions' = [sessions EXCEPT ![requests[r].target] = {}]
  /\ Finish(r)
  /\ UNCHANGED <<users, identities, links>>

\* The code does not rely on the provider to end the sessions of the identity.
DeleteIdentity(r) ==
  LET u == requests[r].target IN
  /\ Doing(r, "deleteIdentity")
  /\ identities' = identities \ {u}
  /\ sessions' \in {sessions, [sessions EXCEPT ![u] = {}]}
  /\ links' = links \ {u}
  /\ Finish(r)
  /\ UNCHANGED users

SoftDelete(r) ==
  /\ Doing(r, "softDelete")
  /\ users' = [users EXCEPT ![requests[r].target].deleted = TRUE]
  /\ Finish(r)
  /\ UNCHANGED <<identities, sessions, links>>

\* The sessions that are open were opened with a password that is now old.
SetPassword(r) ==
  LET u == requests[r].target IN
  /\ Doing(r, "setPassword")
  /\ \/ /\ u \in identities
        /\ sessions' = [sessions EXCEPT ![u] = IF @ = {} THEN {} ELSE {"old"}]
        /\ Finish(r)
     \/ /\ u \notin identities      \* UNKNOWN_USER_ID
        /\ requests' = [requests EXCEPT ![r] = Idle]
        /\ UNCHANGED sessions
  /\ UNCHANGED <<users, identities, links>>

---------------------------------------------------------------------------
(* Creation.  The identity of a row created here is a constant, so at most *)
(* one live row of all tenants can have it.                                *)

EmailTaken(u, t) ==
  \E v \in DOMAIN users : Live(v) /\ users[v].tenant = t /\ EmailOf[v] = EmailOf[u]

FindEmail(r) ==
  LET q == requests[r] IN
  /\ q.phase = "find" /\ q.ask.kind = "create"
  /\ requests' = [requests EXCEPT ![r] =
       IF EmailTaken(q.target, users[q.by].tenant) THEN Idle      \* 409
       ELSE [@ EXCEPT !.phase = "insert"]]
  /\ UNCHANGED <<users, identities, sessions, links>>

\* The two partial unique indexes of the table.
Conflicts(u, t) ==
  \/ EmailTaken(u, t)
  \/ \E v \in DOMAIN users : Live(v) /\ ~users[v].hasIdentity

Insert(r) ==
  LET q == requests[r]
      t == users[q.by].tenant
  IN /\ q.phase = "insert"
     /\ users' = IF Conflicts(q.target, t) THEN users
                 ELSE [v \in DOMAIN users \cup {q.target} |->
                         IF v # q.target THEN users[v]
                         ELSE [tenant |-> t, role |-> q.ask.role, isActive |-> TRUE,
                               deleted |-> FALSE, hasIdentity |-> FALSE]]
     /\ requests' = [requests EXCEPT ![r] = Idle]
     /\ UNCHANGED <<identities, sessions, links>>

---------------------------------------------------------------------------
(* Self-service, the provider's own routes, and failures.                  *)

\* The provider does not know isActive or deletedAt: whoever has an identity logs
\* in and is sent a link.
Login(u) ==
  /\ u \in identities
  /\ sessions' = [sessions EXCEPT ![u] = @ \cup {"now"}]
  /\ UNCHANGED <<users, identities, links, requests>>

SendResetLink(u) ==
  /\ u \in identities
  /\ links' = links \cup {u}
  /\ UNCHANGED <<users, identities, sessions, requests>>

\* consumePasswordResetToken: the link is gone whatever comes of the rest.
ConsumeLink(r, u) ==
  /\ requests[r] = Idle
  /\ u \in links
  /\ links' = links \ {u}
  /\ requests' = [requests EXCEPT ![r] =
       [phase |-> "run", ask |-> [kind |-> "reset"], by |-> Nobody, target |-> u,
        seen |-> users[u], counted |-> 0, todo |-> Steps([kind |-> "reset"])]]
  /\ UNCHANGED <<users, identities, sessions>>

\* An await of the handler rejects, or its process dies.
RequestFails(r) ==
  /\ requests[r] # Idle
  /\ requests' = [requests EXCEPT ![r] = Idle]
  /\ UNCHANGED <<users, identities, sessions, links>>

---------------------------------------------------------------------------
RunStep(r) ==
  Update(r) \/ RevokeSessions(r) \/ DeleteIdentity(r) \/ SoftDelete(r) \/ SetPassword(r)

HandlerStep(r) ==
  FindTarget(r) \/ CountAdmins(r) \/ RunStep(r) \/ FindEmail(r) \/ Insert(r)

Next ==
  \/ \E r \in Requests, by \in Users, u \in Users, ask \in Asks : Admit(r, by, u, ask)
  \/ \E r \in Requests : HandlerStep(r) \/ RequestFails(r)
  \/ \E u \in Visitors : Login(u) \/ SendResetLink(u)
  \/ \E r \in Requests, u \in Visitors : ConsumeLink(r, u)

Spec == Init /\ [][Next]_vars

---------------------------------------------------------------------------
(* Properties.                                                             *)

\* Type invariant.
Todos == {<<"update">>, <<"revoke", "update">>,
          <<"revoke", "deleteIdentity", "softDelete">>,
          <<"deleteIdentity", "softDelete">>, <<"softDelete">>,
          <<"setPassword", "revoke">>, <<"revoke">>}

FindState   == [phase : {"find"}, ask : Ask, by : Users, target : Users]
InsertState == [phase : {"insert"}, ask : [kind : {"create"}, role : Roles],
                by : Users, target : Users]
CountState  == [phase : {"count"}, ask : Ask, by : Users, target : Users, seen : Row]
RunState    == [phase : {"run"}, ask : Ask, by : Users \cup {Nobody}, target : Users,
                seen : Row, counted : Nat, todo : Todos]

RequestState == {Idle} \cup FindState \cup InsertState \cup CountState \cup RunState

TypeOK ==
  /\ DOMAIN users \subseteq Users /\ users \in [DOMAIN users -> Row]
  /\ identities \subseteq DOMAIN users
  /\ sessions \in [Users -> SUBSET {"now", "old"}]
  /\ links \subseteq identities
  /\ requests \in [Requests -> RequestState]

LosesItsAdmins(t) == ActiveAdmins(t) # {} /\ ActiveAdmins(t)' = {}

\* The last administrator of a tenant is lost only in a race: the request that
\* takes him away counted more administrators than there are now, or read a row
\* that has changed since.  A request that runs after the others is refused, even
\* when it was admitted before them.
AdminsVanishOnlyInARace ==
  [][\A r \in Requests, t \in Tenants :
       LosesItsAdmins(t) /\ RunStep(r) =>
         \/ Cardinality(ActiveAdmins(t)) < requests[r].counted
         \/ users[requests[r].target] # requests[r].seen]_vars

\* And only at the hand of a requester who is himself no administrator any more
\* when it happens, or on a row that has changed since it was read: refusing
\* administrators on themselves keeps one of them as long as requests do not mix.
AdminsVanishUnderAStaleAdmin ==
  [][\A r \in Requests, t \in Tenants :
       LosesItsAdmins(t) /\ RunStep(r) =>
         \/ requests[r].by \notin ActiveAdmins(t)
         \/ users[requests[r].target] # requests[r].seen]_vars

\* Tenant t has no administrator, and no request of an earlier one is under way.
LockedOut(t) ==
  /\ ActiveAdmins(t) = {}
  /\ \A r \in Requests : requests[r].phase # "idle" =>
       requests[r].by = Nobody \/ users[requests[r].by].tenant # t

\* That is for good: no route of the API, of this tenant's users or of others,
\* gives it an administrator again.
LockoutIsPermanent == [][\A t \in Tenants : LockedOut(t) => LockedOut(t)']_vars

\* Every tenant keeps an active administrator (comments of assertNotLastAdmin and
\* of SetUserActiveUseCase).
TenantKeepsAnAdmin == \A u \in Founders : ActiveAdmins(TenantOf[u]) # {}

Asked(ask) ==
  CASE ask.kind = "patch"  -> IF ask.role = Absent THEN {} ELSE {"role"}
    [] ask.kind = "active" -> {"isActive"}
    [] ask.kind = "delete" -> {"deleted"}
    [] OTHER               -> {}

ChangesOnlyAsked(r) ==
  LET u == requests[r].target IN
  \A field \in DOMAIN users[u] \ Asked(requests[r].ask) :
    users'[u][field] = users[u][field]

\* A request changes no field that its body does not mention, as long as the row
\* is still the one it read: update writes every column.
UncontendedWritesAreExact ==
  [][\A r \in Requests :
       RunStep(r) /\ users[requests[r].target] = requests[r].seen
         => ChangesOnlyAsked(r)]_vars

\* When a change of password, by an administrator or by a link, is answered with
\* success, no session opened with an earlier password is left, even if its owner
\* logged in while the request ran.
PasswordChangeEndsOldSessions ==
  [][\A r \in Requests :
       /\ RunStep(r)
       /\ requests[r].ask.kind \in {"password", "reset"}
       /\ requests[r].target \in identities
       /\ requests'[r] = Idle
       => "old" \notin sessions'[requests[r].target]]_vars

\* No row is deleted while the provider still has its identity: wherever a DELETE
\* stops, either the account is whole or repeating the request finds the row.
DeletedHasNoIdentity ==
  \A u \in DOMAIN users : users[u].deleted => u \notin identities

\* A request of an administrator touches rows, identities and sessions of users
\* of his own tenant only.
TenantsDoNotTouch ==
  [][\A r \in Requests, u \in DOMAIN users :
       /\ RunStep(r)
       /\ requests[r].by # Nobody
       /\ \/ users'[u] # users[u]
          \/ sessions'[u] # sessions[u]
          \/ u \in identities \ identities'
       => users[u].tenant = users[requests[r].by].tenant]_vars
=============================================================================
