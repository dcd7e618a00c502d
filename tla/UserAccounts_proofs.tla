-------------------------- MODULE UserAccounts_proofs --------------------------
(***************************************************************************)
(* Proofs about UserAccounts, for every number of users, tenants and       *)
(* concurrent requests.                                                    *)
(***************************************************************************)
EXTENDS UserAccounts, FiniteSetTheorems, TLAPS

---------------------------------------------------------------------------
(* The inductive invariant: what a request has read and checked stays true *)
(* of the state, as far as later steps rely on it.                         *)

\* What is left of a handler tells what was asked.
Remaining(ask, todo) ==
  \/ ask.kind = "patch" /\ todo = <<"update">>
  \/ ask.kind = "active" /\ todo \in {<<"update">>, <<"revoke", "update">>}
  \/ ask.kind = "delete" /\ todo \in {<<"revoke", "deleteIdentity", "softDelete">>,
                                      <<"deleteIdentity", "softDelete">>, <<"softDelete">>}
  \/ ask.kind \in {"password", "reset"}
       /\ todo \in {<<"setPassword", "revoke">>, <<"revoke">>}

\* The rows are R and the identities I.  The target of a request that has read it
\* is a row of the requester's tenant.
OnTarget(q, R) ==
  q.phase \in {"count", "run"} =>
    /\ q.target \in DOMAIN R
    /\ q.by # Nobody => R[q.target].tenant = R[q.by].tenant

NotOnSelf(q) ==
  q.phase \in {"find", "count", "run"} => ~(q.by = q.target /\ RefusedOnSelf(q.ask))

\* A request that takes an administrator away has counted another one, and one
\* that is about to delete the row has deleted the identity.
Checked(q, I) ==
  /\ q.phase = "count" => q.ask.kind \in {"patch", "active", "delete"}
  /\ q.phase = "run" =>
       /\ Remaining(q.ask, q.todo)
       /\ q.by = Nobody => q.ask.kind = "reset"
       /\ Removes(q.ask, q.seen) => q.counted > 1
       /\ q.todo = <<"softDelete">> => q.target \notin I

HasRequester(q, R) == q.phase # "idle" => q.by \in DOMAIN R \cup {Nobody}

Sound(q, R, I) == HasRequester(q, R) /\ OnTarget(q, R) /\ NotOnSelf(q) /\ Checked(q, I)

Tables ==
  /\ DOMAIN users \subseteq Users /\ users \in [DOMAIN users -> Row]
  /\ identities \subseteq DOMAIN users
  /\ sessions \in [Users -> SUBSET {"now", "old"}]
  /\ links \subseteq identities
  /\ DeletedHasNoIdentity

Creating(q) == q.phase \in {"find", "insert"} /\ q.ask.kind = "create"

\* The id of a row about to be created is nobody's, for requests S and rows R.
Reserved(S, R) ==
  \A r \in Requests : Creating(S[r]) =>
    /\ S[r].target \notin DOMAIN R
    /\ \A s \in Requests \ {r} : Creating(S[s]) => S[s].target # S[r].target

IInv ==
  /\ Tables
  /\ requests \in [Requests -> RequestState]
  /\ \A r \in Requests : Sound(requests[r], users, identities)
  /\ Reserved(requests, users)

\* What no step takes back: rows stay, in their tenant, and identities only go.
Mild ==
  /\ DOMAIN users \subseteq DOMAIN users'
  /\ \A u \in DOMAIN users : users'[u].tenant = users[u].tenant
  /\ identities' \subseteq identities

Steady == Mild /\ DOMAIN users' = DOMAIN users

---------------------------------------------------------------------------
(* The operators.                                                          *)

LEMMA Shapes ==
  ASSUME NEW q \in RequestState
  PROVE  /\ q.phase = "find" => q \in FindState
         /\ q.phase = "insert" => q \in InsertState
         /\ q.phase = "count" => q \in CountState
         /\ q.phase = "run" => q \in RunState
         /\ q.phase \in {"idle", "find", "insert", "count", "run"}
BY DEF RequestState, Idle, FindState, InsertState, CountState, RunState

LEMMA StepsOfDelete ==
  ASSUME NEW ask, ask.kind = "delete"
  PROVE  Steps(ask) = <<"revoke", "deleteIdentity", "softDelete">>
BY DEF Steps

LEMMA StepsOfPassword ==
  ASSUME NEW ask, ask.kind \in {"password", "reset"}
  PROVE  Steps(ask) = <<"setPassword", "revoke">>
BY DEF Steps

LEMMA StepsAreRemaining ==
  ASSUME NEW ask \in Ask, ask.kind # "create"
  PROVE  Steps(ask) \in Todos /\ Remaining(ask, Steps(ask)) /\ Steps(ask) # <<"softDelete">>
<1>1. ask.kind \in {"patch", "active", "delete", "password", "reset"}
  BY DEF Ask
<1>2. CASE ask.kind = "patch"
  <2>1. Steps(ask) = <<"update">>
    BY <1>2 DEF Steps
  <2>2. QED
    BY <1>2, <2>1 DEF Remaining, Todos
<1>3. CASE ask.kind = "active"
  <2>1. Steps(ask) = IF ask.isActive THEN <<"update">> ELSE <<"revoke", "update">>
    BY <1>3, Zenon DEF Steps
  <2>2. Steps(ask) \in {<<"update">>, <<"revoke", "update">>}
    BY <2>1, Zenon
  <2>3. QED
    BY <1>3, <2>2 DEF Remaining, Todos
<1>4. CASE ask.kind = "delete"
  <2>1. Steps(ask) = <<"revoke", "deleteIdentity", "softDelete">>
    BY <1>4, StepsOfDelete
  <2>2. QED
    BY <1>4, <2>1 DEF Remaining, Todos
<1>5. CASE ask.kind \in {"password", "reset"}
  <2>1. Steps(ask) = <<"setPassword", "revoke">>
    BY <1>5, StepsOfPassword
  <2>2. QED
    BY <1>5, <2>1 DEF Remaining, Todos
<1>6. QED
  BY <1>1, <1>2, <1>3, <1>4, <1>5

LEMMA Tails ==
  /\ Tail(<<"revoke", "update">>) = <<"update">>
  /\ Tail(<<"revoke", "deleteIdentity", "softDelete">>) = <<"deleteIdentity", "softDelete">>
  /\ Tail(<<"deleteIdentity", "softDelete">>) = <<"softDelete">>
  /\ Tail(<<"setPassword", "revoke">>) = <<"revoke">>
OBVIOUS

LEMMA TodoCases ==
  ASSUME NEW todo \in Todos
  PROVE  \/ todo \in {<<"update">>, <<"softDelete">>, <<"revoke">>} /\ Len(todo) = 1
         \/ todo = <<"revoke", "update">> /\ Len(todo) # 1 /\ Tail(todo) = <<"update">>
         \/ /\ todo = <<"revoke", "deleteIdentity", "softDelete">> /\ Len(todo) # 1
            /\ Tail(todo) = <<"deleteIdentity", "softDelete">>
         \/ /\ todo = <<"deleteIdentity", "softDelete">> /\ Len(todo) # 1
            /\ Tail(todo) = <<"softDelete">>
         \/ todo = <<"setPassword", "revoke">> /\ Len(todo) # 1 /\ Tail(todo) = <<"revoke">>
<1>1. CASE todo \in {<<"update">>, <<"softDelete">>, <<"revoke">>}
  BY <1>1
<1>2. CASE todo = <<"revoke", "update">>
  BY <1>2, Tails
<1>3. CASE todo = <<"revoke", "deleteIdentity", "softDelete">>
  BY <1>3, Tails
<1>4. CASE todo = <<"deleteIdentity", "softDelete">>
  BY <1>4, Tails
<1>5. CASE todo = <<"setPassword", "revoke">>
  BY <1>5, Tails
<1>6. QED
  BY <1>1, <1>2, <1>3, <1>4, <1>5 DEF Todos

LEMMA TodoHeads ==
  ASSUME NEW todo \in Todos
  PROVE  /\ Head(todo) = "update" => todo = <<"update">>
         /\ Head(todo) = "softDelete" => todo = <<"softDelete">>
         /\ Head(todo) = "setPassword" => todo = <<"setPassword", "revoke">>
         /\ Head(todo) = "deleteIdentity" => todo = <<"deleteIdentity", "softDelete">>
BY DEF Todos

LEMMA TailRemains ==
  ASSUME NEW ask, NEW todo \in Todos, Remaining(ask, todo), Len(todo) # 1
  PROVE  /\ Tail(todo) \in Todos /\ Remaining(ask, Tail(todo))
         /\ Tail(todo) = <<"softDelete">> => todo = <<"deleteIdentity", "softDelete">>
<1> DEFINE rest == Tail(todo)
<1>1. CASE todo = <<"revoke", "update">> /\ rest = <<"update">>
  BY <1>1 DEF Remaining, Todos
<1>2. CASE /\ todo = <<"revoke", "deleteIdentity", "softDelete">>
           /\ rest = <<"deleteIdentity", "softDelete">>
  BY <1>2 DEF Remaining, Todos
<1>3. CASE todo = <<"deleteIdentity", "softDelete">> /\ rest = <<"softDelete">>
  BY <1>3 DEF Remaining, Todos
<1>4. CASE todo = <<"setPassword", "revoke">> /\ rest = <<"revoke">>
  BY <1>4 DEF Remaining, Todos
<1>5. QED
  BY <1>1, <1>2, <1>3, <1>4, TodoCases

LEMMA WrittenType ==
  ASSUME NEW ask \in Ask, NEW seen \in Row, NEW row \in Row
  PROVE  /\ Written(ask, seen, row) \in Row
         /\ Written(ask, seen, row).tenant = row.tenant
         /\ Written(ask, seen, row).deleted = row.deleted
         /\ Written(ask, seen, row).hasIdentity = row.hasIdentity
<1> DEFINE role == IF ask.kind = "patch" /\ ask.role # Absent THEN ask.role ELSE seen.role
           active == IF ask.kind = "active" THEN ask.isActive ELSE seen.isActive
<1>1. Written(ask, seen, row) = [[row EXCEPT !.role = role] EXCEPT !.isActive = active]
  BY DEF Written
<1>2. role \in Roles
  BY DEF Ask, Row
<1>3. active \in BOOLEAN
  BY DEF Ask, Row
<1> HIDE DEF role, active
<1>4. QED
  BY <1>1, <1>2, <1>3 DEF Row
---------------------------------------------------------------------------
(* The steps.                                                              *)

LEMMA MildKeepsSound ==
  ASSUME Mild, NEW q \in RequestState, Sound(q, users, identities)
  PROVE  Sound(q, users', identities')
<1>1. q.phase \in {"count", "run"} => q.target \in DOMAIN users
  BY DEF Sound, OnTarget
<1>2. q.phase # "idle" => q.by \in DOMAIN users \cup {Nobody}
  BY DEF Sound, HasRequester
<1>3. HasRequester(q, users')
  BY <1>2 DEF HasRequester, Mild
<1>4. OnTarget(q, users')
  BY <1>1, <1>2 DEF OnTarget, Sound, Mild
<1>5. Checked(q, identities')
  BY DEF Checked, Sound, Mild
<1>6. QED
  BY <1>3, <1>4, <1>5 DEF Sound

\* A step that fills slot r with q and keeps the tables in order.
LEMMA SlotFilled ==
  ASSUME IInv, Mild, Tables', Reserved(requests', users'), NEW r \in Requests,
         NEW q \in RequestState,
         Sound(q, users', identities'), requests' = [requests EXCEPT ![r] = q]
  PROVE  IInv'
<1>1. requests' \in [Requests -> RequestState]
  BY DEF IInv
<1>2. ASSUME NEW s \in Requests
      PROVE  Sound(requests'[s], users', identities')
  <2>1. CASE s = r
    BY <2>1 DEF IInv
  <2>2. CASE s # r
    <3>1. requests'[s] = requests[s]
      BY <2>2 DEF IInv
    <3>2. requests[s] \in RequestState /\ Sound(requests[s], users, identities)
      BY DEF IInv
    <3>3. Sound(requests[s], users', identities')
      BY <3>2, MildKeepsSound
    <3>4. QED
      BY <3>1, <3>3
  <2>3. QED
    BY <2>1, <2>2
<1>3. QED
  BY <1>1, <1>2 DEF IInv

\* A slot that is being filled for something else than a creation.
LEMMA SlotStep ==
  ASSUME IInv, Steady, Tables', NEW r \in Requests, NEW q \in RequestState,
         q.phase \notin {"find", "insert"},
         Sound(q, users', identities'), requests' = [requests EXCEPT ![r] = q]
  PROVE  IInv'
<1>1. \A s \in Requests : requests'[s] = IF s = r THEN q ELSE requests[s]
  BY DEF IInv
<1>2. ~Creating(requests'[r])
  BY <1>1 DEF Creating
<1>3. \A s \in Requests : Creating(requests'[s]) => requests'[s] = requests[s]
  BY <1>1, <1>2
<1>4. Reserved(requests', users')
  BY <1>3 DEF Reserved, IInv, Steady
<1>5. QED
  BY <1>4, SlotFilled DEF Steady

LEMMA IdleSound ==
  ASSUME NEW R, NEW I
  PROVE  /\ Idle \in RequestState /\ Sound(Idle, R, I)
         /\ Idle.phase \notin {"find", "insert"}
BY DEF RequestState, Idle, Sound, HasRequester, OnTarget, NotOnSelf, Checked

LEMMA SameTables ==
  ASSUME IInv, UNCHANGED <<users, identities, sessions, links>>
  PROVE  Tables' /\ Steady
BY DEF IInv, Tables, Steady, Mild, DeletedHasNoIdentity

LEMMA InitSound == Init => IInv
<1> SUFFICES ASSUME Init PROVE IInv
  OBVIOUS
<1>1. Tables
  BY FounderAssumption DEF Init, Tables, Row, Roles, DeletedHasNoIdentity
<1>2. QED
  BY <1>1, IdleSound DEF Init, IInv, Reserved, Creating

LEMMA AdmitSound ==
  ASSUME IInv, NEW r \in Requests, NEW by \in Users, NEW u \in Users, NEW ask \in Asks,
         Admit(r, by, u, ask)
  PROVE  IInv'
<1> DEFINE q == [phase |-> "find", ask |-> ask, by |-> by, target |-> u]
<1>1. ask \in Ask
  BY BoundAssumption
<1>2. q \in RequestState
  BY <1>1 DEF RequestState, FindState
<1>3. Sound(q, users, identities)
  BY DEF Admit, Authorized, Sound, HasRequester, OnTarget, NotOnSelf, Checked
<1>4. requests' = [requests EXCEPT ![r] = q] /\ Sound(q, users', identities')
  BY <1>3 DEF Admit
<1>5. users' = users
  BY DEF Admit
<1>6. q.ask.kind = "create" => Fresh(u)
  BY DEF Admit
<1>7. ASSUME NEW s \in Requests, s # r, Creating(requests[s])
      PROVE  requests[s] # Idle
  BY <1>7 DEF Creating, Idle
<1>8. Reserved(requests', users')
  <2>1. \A s \in Requests : requests'[s] = IF s = r THEN q ELSE requests[s]
    BY <1>4 DEF IInv
  <2> HIDE DEF q
  <2>2. q.target = u
    BY DEF q
  <2>3. ASSUME NEW s \in Requests, s # r, Creating(requests[s]), Creating(q)
        PROVE  requests[s].target # u /\ u \notin DOMAIN users
    BY <1>6, <1>7, <2>3 DEF Fresh, Creating
  <2>4. Creating(q) => u \notin DOMAIN users
    BY <1>6 DEF Fresh, Creating
  <2>5. QED
    BY <1>5, <2>1, <2>2, <2>3, <2>4 DEF Reserved, IInv
<1>9. QED
  BY <1>2, <1>4, <1>8, SameTables, SlotFilled DEF Admit, Steady

LEMMA FindTargetSound ==
  ASSUME IInv, NEW r \in Requests, FindTarget(r)
  PROVE  IInv'
<1> DEFINE q == requests[r]
           row == users[q.target]
           count == [phase |-> "count", ask |-> q.ask, by |-> q.by, target |-> q.target,
                     seen |-> row]
           run == [phase |-> "run", ask |-> q.ask, by |-> q.by, target |-> q.target,
                   seen |-> row, counted |-> 0, todo |-> Steps(q.ask)]
           next == IF ~Found(r) THEN Idle ELSE IF Removes(q.ask, row) THEN count ELSE run
<1>1. q \in FindState /\ q.ask.kind # "create" /\ Sound(q, users, identities)
  BY Shapes DEF FindTarget, IInv
<1>2. requests' = [requests EXCEPT ![r] = next]
  BY DEF FindTarget
<1>3. CASE Found(r)
  <2>1. /\ q.target \in DOMAIN users /\ row \in Row
        /\ users[q.target].tenant = users[q.by].tenant
    BY <1>3 DEF Found, Live, IInv, Tables
  <2>2. q.by \in DOMAIN users
    BY <1>1, NobodyAssumption DEF FindState, Sound, HasRequester
  <2>3. q.by # Nobody
    BY <1>1, NobodyAssumption DEF FindState
  <2>4. ~(q.by = q.target /\ RefusedOnSelf(q.ask))
    BY <1>1 DEF FindState, Sound, NotOnSelf
  <2>5. CASE Removes(q.ask, row)
    <3>1. count \in RequestState
      BY <1>1, <2>1 DEF RequestState, CountState, FindState
    <3>2. q.ask.kind \in {"patch", "active", "delete"}
      BY <2>5 DEF Removes
    <3>3. Sound(count, users, identities)
      BY <2>1, <2>2, <2>4, <3>2 DEF Sound, HasRequester, OnTarget, NotOnSelf, Checked
    <3>4. QED
      BY <1>2, <1>3, <2>5, <3>1, <3>3, SameTables, SlotStep DEF FindTarget
  <2>6. CASE ~Removes(q.ask, row)
    <3>1. q.ask \in Ask
      BY <1>1 DEF FindState
    <3>2. /\ Steps(q.ask) \in Todos /\ Remaining(q.ask, Steps(q.ask))
          /\ Steps(q.ask) # <<"softDelete">>
      BY <1>1, <3>1, StepsAreRemaining
    <3>3. run \in RequestState
      BY <1>1, <2>1, <3>2 DEF RequestState, RunState, FindState
    <3>4. Sound(run, users, identities)
      BY <2>1, <2>2, <2>3, <2>4, <2>6, <3>2
         DEF Sound, HasRequester, OnTarget, NotOnSelf, Checked
    <3>5. QED
      BY <1>2, <1>3, <2>6, <3>3, <3>4, SameTables, SlotStep DEF FindTarget
  <2>7. QED
    BY <2>5, <2>6
<1>4. CASE ~Found(r)
  BY <1>2, <1>4, IdleSound, SameTables, SlotStep DEF FindTarget
<1>5. QED
  BY <1>3, <1>4

LEMMA AdminCount == Tables => \A t : Cardinality(ActiveAdmins(t)) \in Nat
<1> SUFFICES ASSUME Tables, NEW t PROVE Cardinality(ActiveAdmins(t)) \in Nat
  OBVIOUS
<1>1. ActiveAdmins(t) \subseteq Users
  BY DEF ActiveAdmins, Tables
<1>2. IsFiniteSet(ActiveAdmins(t))
  BY <1>1, FounderAssumption, FS_Subset
<1>3. QED
  BY <1>2, FS_CardinalityType

LEMMA CountAdminsSound ==
  ASSUME IInv, NEW r \in Requests, CountAdmins(r)
  PROVE  IInv'
<1> DEFINE q == requests[r]
           admins == Cardinality(ActiveAdmins(users[q.by].tenant))
           run == [phase |-> "run", ask |-> q.ask, by |-> q.by, target |-> q.target,
                   seen |-> q.seen, counted |-> admins, todo |-> Steps(q.ask)]
<1>1. q \in CountState /\ Sound(q, users, identities)
  BY Shapes DEF CountAdmins, IInv
<1>2. requests' = [requests EXCEPT ![r] = IF admins <= 1 THEN Idle ELSE run]
  BY DEF CountAdmins
<1>3. admins \in Nat
  BY AdminCount DEF IInv
<1>4. CASE admins <= 1
  BY <1>2, <1>4, IdleSound, SameTables, SlotStep DEF CountAdmins
<1>5. CASE ~(admins <= 1)
  <2>1. q.ask \in Ask /\ q.ask.kind # "create"
    BY <1>1 DEF CountState, Sound, Checked
  <2>2. /\ Steps(q.ask) \in Todos /\ Remaining(q.ask, Steps(q.ask))
        /\ Steps(q.ask) # <<"softDelete">>
    BY <2>1, StepsAreRemaining
  <2>3. run \in RequestState
    BY <1>1, <1>3, <2>2 DEF RequestState, RunState, CountState
  <2>4. admins > 1 /\ q.by # Nobody
    BY <1>1, <1>3, <1>5, NobodyAssumption DEF CountState
  <2>5. HasRequester(run, users) /\ OnTarget(run, users) /\ NotOnSelf(run)
    BY <1>1 DEF CountState, Sound, HasRequester, OnTarget, NotOnSelf
  <2>6. Checked(run, identities)
    BY <2>2, <2>4 DEF Checked
  <2>7. Sound(run, users, identities)
    BY <2>5, <2>6 DEF Sound
  <2>8. QED
    BY <1>2, <1>5, <2>3, <2>7, SameTables, SlotStep DEF CountAdmins
<1>6. QED
  BY <1>4, <1>5

\* A step of a handler that is over, or goes on with what remains.
LEMMA FinishSound ==
  ASSUME IInv, Steady, Tables', NEW r \in Requests, requests[r].phase = "run", Finish(r),
         requests[r].todo = <<"deleteIdentity", "softDelete">>
           => requests[r].target \notin identities'
  PROVE  IInv'
<1> DEFINE q == requests[r]
           rest == [q EXCEPT !.todo = Tail(q.todo)]
<1>1. q \in RunState /\ q \in RequestState /\ Sound(q, users, identities)
  BY Shapes DEF IInv
<1>2. requests' = [requests EXCEPT ![r] = IF Len(q.todo) = 1 THEN Idle ELSE rest]
  BY DEF Finish
<1>3. CASE Len(q.todo) = 1
  BY <1>2, <1>3, IdleSound, SlotStep
<1>4. CASE Len(q.todo) # 1
  <2>1. q.todo \in Todos /\ Remaining(q.ask, q.todo)
    BY <1>1 DEF RunState, Sound, Checked
  <2>2. /\ Tail(q.todo) \in Todos /\ Remaining(q.ask, Tail(q.todo))
        /\ Tail(q.todo) = <<"softDelete">> => q.target \notin identities'
    BY <1>4, <2>1, TailRemains
  <2>3. /\ rest \in RunState /\ rest.todo = Tail(q.todo) /\ rest.phase = "run"
        /\ rest.ask = q.ask /\ rest.by = q.by /\ rest.target = q.target
        /\ rest.seen = q.seen /\ rest.counted = q.counted
    BY <1>1, <2>2 DEF RunState
  <2>4. Sound(q, users', identities')
    BY <1>1, MildKeepsSound DEF Steady
  <2> HIDE DEF rest
  <2>5. HasRequester(rest, users') /\ OnTarget(rest, users') /\ NotOnSelf(rest)
    BY <2>3, <2>4 DEF Sound, HasRequester, OnTarget, NotOnSelf
  <2>6. Checked(rest, identities')
    BY <2>2, <2>3, <2>4 DEF Sound, Checked
  <2>7. /\ Sound(rest, users', identities') /\ rest \in RequestState
        /\ rest.phase \notin {"find", "insert"}
    BY <2>3, <2>5, <2>6 DEF Sound, RequestState
  <2>8. QED
    BY <1>2, <1>4, <2>7, SlotStep
<1>5. QED
  BY <1>3, <1>4

\* The request that runs a step, and what it has left.
LEMMA Running ==
  ASSUME IInv, NEW r \in Requests, requests[r].phase = "run"
  PROVE  /\ requests[r] \in RunState
         /\ requests[r].target \in DOMAIN users
         /\ requests[r].todo \in Todos
         /\ Sound(requests[r], users, identities)
BY Shapes DEF IInv, RunState, Sound, OnTarget

LEMMA UpdateTables ==
  ASSUME IInv, NEW r \in Requests, Update(r)
  PROVE  Tables' /\ Steady
<1> DEFINE q == requests[r]
           u == q.target
           row == Written(q.ask, q.seen, users[u])
<1>1. q \in RunState /\ u \in DOMAIN users
  BY Running DEF Update, Doing
<1>2. users[u] \in Row
  BY <1>1 DEF IInv, Tables
<1>3. row \in Row /\ row.tenant = users[u].tenant /\ row.deleted = users[u].deleted
  BY <1>1, <1>2, WrittenType DEF RunState
<1>4. users' = [users EXCEPT ![u] = row]
  BY DEF Update
<1> HIDE DEF row
<1>5. DOMAIN users' = DOMAIN users /\ users' \in [DOMAIN users -> Row]
  BY <1>3, <1>4 DEF IInv, Tables
<1>6. \A v \in DOMAIN users : /\ users'[v].tenant = users[v].tenant
                              /\ users'[v].deleted = users[v].deleted
  BY <1>3, <1>4
<1>7. QED
  BY <1>5, <1>6 DEF IInv, Tables, Steady, Mild, DeletedHasNoIdentity, Update

LEMMA UpdateSound ==
  ASSUME IInv, NEW r \in Requests, Update(r)
  PROVE  IInv'
<1>1. requests[r].phase = "run" /\ Finish(r) /\ Head(requests[r].todo) = "update"
  BY DEF Update, Doing
<1>2. requests[r].todo = <<"update">>
  BY <1>1, Running, TodoHeads
<1>3. requests[r].todo # <<"deleteIdentity", "softDelete">>
  BY <1>2
<1>4. QED
  BY <1>1, <1>3, UpdateTables, FinishSound

LEMMA RevokeSessionsSound ==
  ASSUME IInv, NEW r \in Requests, RevokeSessions(r)
  PROVE  IInv'
<1>1. requests[r].phase = "run" /\ Finish(r) /\ Head(requests[r].todo) = "revoke"
  BY DEF RevokeSessions, Doing
<1>2. requests[r].todo # <<"deleteIdentity", "softDelete">>
  BY <1>1
<1>3. sessions' \in [Users -> SUBSET {"now", "old"}]
  BY DEF RevokeSessions, IInv, Tables
<1>4. Tables' /\ Steady
  BY <1>3 DEF RevokeSessions, IInv, Tables, Steady, Mild, DeletedHasNoIdentity
<1>5. QED
  BY <1>1, <1>2, <1>4, FinishSound

LEMMA DeleteIdentitySound ==
  ASSUME IInv, NEW r \in Requests, DeleteIdentity(r)
  PROVE  IInv'
<1> DEFINE u == requests[r].target
<1>1. requests[r].phase = "run" /\ Finish(r)
  BY DEF DeleteIdentity, Doing
<1>2. identities' = identities \ {u} /\ links' = links \ {u} /\ users' = users
  BY DEF DeleteIdentity
<1>3. sessions' \in [Users -> SUBSET {"now", "old"}]
  BY DEF DeleteIdentity, IInv, Tables
<1>4. Tables' /\ Steady
  BY <1>2, <1>3 DEF IInv, Tables, Steady, Mild, DeletedHasNoIdentity
<1>5. QED
  BY <1>1, <1>2, <1>4, FinishSound

LEMMA SoftDeleteSound ==
  ASSUME IInv, NEW r \in Requests, SoftDelete(r)
  PROVE  IInv'
<1> DEFINE q == requests[r]
           u == q.target
<1>1. q.phase = "run" /\ Finish(r) /\ Head(q.todo) = "softDelete"
  BY DEF SoftDelete, Doing
<1>2. q.todo = <<"softDelete">> /\ u \in DOMAIN users
  BY <1>1, Running, TodoHeads
<1>3. u \notin identities
  BY <1>1, <1>2, Running DEF Sound, Checked
<1>4. users' = [users EXCEPT ![u] = [users[u] EXCEPT !.deleted = TRUE]]
  BY DEF SoftDelete
<1>5. users[u] \in Row
  BY <1>2 DEF IInv, Tables
<1>6. /\ [users[u] EXCEPT !.deleted = TRUE] \in Row
      /\ [users[u] EXCEPT !.deleted = TRUE].tenant = users[u].tenant
  BY <1>5 DEF Row
<1>7. DOMAIN users' = DOMAIN users /\ users' \in [DOMAIN users -> Row]
  BY <1>4, <1>6 DEF IInv, Tables
<1>8. \A v \in DOMAIN users : /\ users'[v].tenant = users[v].tenant
                              /\ v # u => users'[v] = users[v]
  BY <1>4, <1>6
<1>9. UNCHANGED <<identities, sessions, links>>
  BY DEF SoftDelete
<1>10. Tables' /\ Steady
  BY <1>3, <1>7, <1>8, <1>9 DEF IInv, Tables, Steady, Mild, DeletedHasNoIdentity
<1>11. q.todo # <<"deleteIdentity", "softDelete">>
  BY <1>2
<1>12. QED
  BY <1>1, <1>10, <1>11, FinishSound

LEMMA SetPasswordSound ==
  ASSUME IInv, NEW r \in Requests, SetPassword(r)
  PROVE  IInv'
<1> DEFINE u == requests[r].target
<1>1. CASE u \in identities
  <2>1. requests[r].phase = "run" /\ Finish(r) /\ Head(requests[r].todo) = "setPassword"
    BY <1>1 DEF SetPassword, Doing
  <2>2. requests[r].todo # <<"deleteIdentity", "softDelete">>
    BY <2>1
  <2>3. sessions' = [sessions EXCEPT ![u] = IF sessions[u] = {} THEN {} ELSE {"old"}]
    BY <1>1 DEF SetPassword
  <2>4. sessions' \in [Users -> SUBSET {"now", "old"}]
    BY <2>3 DEF IInv, Tables
  <2>5. Tables' /\ Steady
    BY <2>4 DEF SetPassword, IInv, Tables, Steady, Mild, DeletedHasNoIdentity
  <2>6. QED
    BY <2>1, <2>2, <2>5, FinishSound
<1>2. CASE u \notin identities
  <2>1. UNCHANGED <<users, identities, sessions, links>>
    BY <1>2 DEF SetPassword
  <2>2. requests' = [requests EXCEPT ![r] = Idle]
    BY <1>2 DEF SetPassword
  <2>3. QED
    BY <2>1, <2>2, IdleSound, SameTables, SlotStep
<1>3. QED
  BY <1>1, <1>2

LEMMA FindEmailSound ==
  ASSUME IInv, NEW r \in Requests, FindEmail(r)
  PROVE  IInv'
<1> DEFINE q == requests[r]
           insert == [q EXCEPT !.phase = "insert"]
           taken == EmailTaken(q.target, users[q.by].tenant)
<1>1. q \in FindState /\ q.ask.kind = "create" /\ Sound(q, users, identities)
  BY Shapes DEF FindEmail, IInv
<1>2. requests' = [requests EXCEPT ![r] = IF taken THEN Idle ELSE insert]
  BY DEF FindEmail
<1>3. UNCHANGED <<users, identities, sessions, links>>
  BY DEF FindEmail
<1> HIDE DEF taken
<1>4. CASE taken
  BY <1>2, <1>3, <1>4, IdleSound, SameTables, SlotStep
<1>5. CASE ~taken
  <2>1. q.ask \in [kind : {"create"}, role : Roles]
    BY <1>1 DEF FindState, Ask
  <2>2. insert \in InsertState /\ insert.phase = "insert" /\ insert.by = q.by
    BY <1>1, <2>1 DEF FindState, InsertState
  <2>3. q.by \in DOMAIN users \cup {Nobody}
    BY <1>1 DEF FindState, Sound, HasRequester
  <2> HIDE DEF insert
  <2>4. Sound(insert, users', identities') /\ insert \in RequestState
    BY <1>3, <2>2, <2>3
       DEF RequestState, Sound, HasRequester, OnTarget, NotOnSelf, Checked
  <2>5. requests' = [requests EXCEPT ![r] = insert]
    BY <1>2, <1>5
  <2>6. insert.target = q.target /\ Creating(q)
    BY <1>1, <2>2 DEF FindState, Creating, insert
  <2>7. Reserved(requests', users')
    <3>1. \A s \in Requests : requests'[s] = IF s = r THEN insert ELSE requests[s]
      BY <2>5 DEF IInv
    <3>2. \A s \in Requests : requests'[s].target = requests[s].target
      BY <2>6, <3>1
    <3>3. \A s \in Requests : Creating(requests'[s]) => Creating(requests[s])
      BY <2>6, <3>1
    <3>4. QED
      BY <1>3, <3>2, <3>3 DEF Reserved, IInv
  <2>8. QED
    BY <1>3, <2>4, <2>5, <2>7, SameTables, SlotFilled DEF Steady
<1>6. QED
  BY <1>4, <1>5

LEMMA InsertSound ==
  ASSUME IInv, NEW r \in Requests, Insert(r)
  PROVE  IInv'
<1> DEFINE q == requests[r]
           t == users[q.by].tenant
           row == [tenant |-> t, role |-> q.ask.role, isActive |-> TRUE,
                   deleted |-> FALSE, hasIdentity |-> FALSE]
<1>1. q \in InsertState /\ Sound(q, users, identities)
  BY Shapes DEF Insert, IInv
<1>2. q.by \in DOMAIN users
  BY <1>1, NobodyAssumption DEF InsertState, Sound, HasRequester
<1>3. users[q.by] \in Row
  BY <1>2 DEF IInv, Tables
<1>4. row \in Row /\ ~row.deleted
  BY <1>1, <1>3 DEF InsertState, Row
<1>5. requests' = [requests EXCEPT ![r] = Idle] /\ UNCHANGED <<identities, sessions, links>>
  BY DEF Insert
<1>6. CASE users' = users
  BY <1>5, <1>6, IdleSound, SameTables, SlotStep
<1>7. CASE users' = [v \in DOMAIN users \cup {q.target} |->
                      IF v # q.target THEN users[v] ELSE row]
  <2> HIDE DEF row
  <2>1. q.target \in Users
    BY <1>1 DEF InsertState
  <2>2. Creating(q)
    BY <1>1 DEF InsertState, Creating
  <2>3. q.target \notin DOMAIN users
    BY <2>2 DEF IInv, Reserved
  <2>4. /\ DOMAIN users' = DOMAIN users \cup {q.target}
        /\ \A v \in DOMAIN users : users'[v] = users[v]
        /\ users'[q.target] = row
    BY <1>7, <2>3
  <2>5. users' \in [DOMAIN users' -> Row]
    BY <1>4, <1>7 DEF IInv, Tables
  <2>6. Mild
    BY <1>5, <2>4 DEF Mild
  <2>7. DeletedHasNoIdentity'
    BY <1>4, <1>5, <2>3, <2>4 DEF IInv, Tables, DeletedHasNoIdentity
  <2>8. Tables'
    BY <1>5, <2>1, <2>4, <2>5, <2>7 DEF IInv, Tables
  <2>9. Reserved(requests', users')
    <3>1. \A s \in Requests : requests'[s] = IF s = r THEN Idle ELSE requests[s]
      BY <1>5 DEF IInv
    <3>2. ~Creating(Idle)
      BY DEF Creating, Idle
    <3>3. \A s \in Requests : Creating(requests'[s]) => s # r /\ requests'[s] = requests[s]
      BY <3>1, <3>2
    <3>4. QED
      BY <2>2, <2>4, <3>3 DEF IInv, Reserved
  <2>10. QED
    BY <1>5, <2>6, <2>8, <2>9, IdleSound, SlotFilled
<1>8. QED
  BY <1>6, <1>7, Zenon DEF Insert

LEMMA VisitorSound ==
  ASSUME IInv, NEW u \in Visitors, Login(u) \/ SendResetLink(u)
  PROVE  IInv'
<1>1. u \in Users
  BY BoundAssumption
<1>2. users' = users /\ identities' = identities /\ requests' = requests
  BY DEF Login, SendResetLink
<1>3. sessions' \in [Users -> SUBSET {"now", "old"}] /\ links' \subseteq identities
  BY <1>1 DEF Login, SendResetLink, IInv, Tables
<1>4. Tables'
  BY <1>2, <1>3 DEF IInv, Tables, DeletedHasNoIdentity
<1>5. QED
  BY <1>2, <1>4 DEF IInv

LEMMA ConsumeLinkSound ==
  ASSUME IInv, NEW r \in Requests, NEW u \in Visitors, ConsumeLink(r, u)
  PROVE  IInv'
<1> DEFINE ask == [kind |-> "reset"]
           run == [phase |-> "run", ask |-> ask, by |-> Nobody, target |-> u,
                   seen |-> users[u], counted |-> 0, todo |-> Steps(ask)]
<1>1. u \in Users /\ u \in DOMAIN users /\ users[u] \in Row /\ Nobody # u
  BY BoundAssumption, NobodyAssumption DEF ConsumeLink, IInv, Tables
<1>2. ask \in Ask /\ ask.kind = "reset"
  BY DEF Ask
<1> HIDE DEF ask
<1>3. Steps(ask) \in Todos /\ Remaining(ask, Steps(ask)) /\ Steps(ask) # <<"softDelete">>
  BY <1>2, StepsAreRemaining
<1>4. run \in RequestState
  BY <1>1, <1>2, <1>3 DEF RequestState, RunState
<1>5. ~Removes(ask, users[u])
  BY <1>2 DEF Removes
<1>6. Sound(run, users, identities)
  BY <1>1, <1>2, <1>3, <1>5 DEF Sound, HasRequester, OnTarget, NotOnSelf, Checked
<1>7. requests' = [requests EXCEPT ![r] = run] /\ UNCHANGED <<users, identities, sessions>>
  BY DEF ConsumeLink, ask
<1>8. links' \subseteq identities
  BY DEF ConsumeLink, IInv, Tables
<1>9. Tables' /\ Steady
  BY <1>7, <1>8 DEF IInv, Tables, Steady, Mild, DeletedHasNoIdentity
<1>10. QED
  BY <1>4, <1>6, <1>7, <1>9, SlotStep

LEMMA RequestFailsSound ==
  ASSUME IInv, NEW r \in Requests, RequestFails(r)
  PROVE  IInv'
BY IdleSound, SameTables, SlotStep DEF RequestFails

LEMMA NextSound == IInv /\ [Next]_vars => IInv'
<1> SUFFICES ASSUME IInv, [Next]_vars PROVE IInv'
  OBVIOUS
<1>1. ASSUME NEW r \in Requests, NEW by \in Users, NEW u \in Users, NEW ask \in Asks,
             Admit(r, by, u, ask)
      PROVE  IInv'
  BY <1>1, AdmitSound
<1>2. ASSUME NEW r \in Requests, HandlerStep(r)
      PROVE  IInv'
  <2>1. CASE RunStep(r)
    BY <2>1, UpdateSound, RevokeSessionsSound, DeleteIdentitySound, SoftDeleteSound,
       SetPasswordSound DEF RunStep
  <2>2. QED
    BY <1>2, <2>1, FindTargetSound, CountAdminsSound, FindEmailSound, InsertSound
       DEF HandlerStep
<1>3. ASSUME NEW r \in Requests, RequestFails(r)
      PROVE  IInv'
  BY <1>3, RequestFailsSound
<1>4. ASSUME NEW u \in Visitors, Login(u) \/ SendResetLink(u)
      PROVE  IInv'
  BY <1>4, VisitorSound
<1>5. ASSUME NEW r \in Requests, NEW u \in Visitors, ConsumeLink(r, u)
      PROVE  IInv'
  BY <1>5, ConsumeLinkSound
<1>6. CASE UNCHANGED vars
  BY <1>6 DEF vars, IInv, Tables, DeletedHasNoIdentity
<1>7. QED
  BY <1>1, <1>2, <1>3, <1>4, <1>5, <1>6 DEF Next

LEMMA AlwaysSound == Spec => []IInv
BY InitSound, NextSound, PTL DEF Spec

---------------------------------------------------------------------------
(* The theorems.                                                           *)

\* Type correctness of rows, identities, sessions, links and requests.
THEOREM AccountsTypeCorrect == Spec => []TypeOK
<1>1. IInv => TypeOK
  BY DEF IInv, Tables, TypeOK
<1>2. QED
  BY <1>1, AlwaysSound, PTL

\* The identity goes before the row (DeleteUserUseCase): no deleted row has one.
THEOREM IdentitiesGoFirst == Spec => []DeletedHasNoIdentity
<1>1. IInv => DeletedHasNoIdentity
  BY DEF IInv, Tables
<1>2. QED
  BY <1>1, AlwaysSound, PTL

---------------------------------------------------------------------------
(* What one step of a handler may change.                                  *)

\* The row of request q is left alone, written by update, or marked deleted.
RowStep(q) ==
  \/ users' = users
  \/ /\ q.ask.kind \in {"patch", "active"}
     /\ users' = [users EXCEPT ![q.target] = Written(q.ask, q.seen, users[q.target])]
  \/ /\ q.ask.kind = "delete"
     /\ users' = [users EXCEPT ![q.target] = [users[q.target] EXCEPT !.deleted = TRUE]]

LEMMA RunStepRuns == ASSUME NEW r, RunStep(r) PROVE requests[r].phase = "run"
BY DEF RunStep, Update, RevokeSessions, DeleteIdentity, SoftDelete, SetPassword, Doing

LEMMA RunStepRow ==
  ASSUME IInv, NEW r \in Requests, RunStep(r)
  PROVE  RowStep(requests[r])
<1> DEFINE q == requests[r]
<1>1. q \in RunState /\ q.todo \in Todos /\ Remaining(q.ask, q.todo)
  BY RunStepRuns, Running DEF Sound, Checked
<1>2. CASE Update(r)
  <2>1. q.todo = <<"update">>
    BY <1>1, <1>2, TodoHeads DEF Update, Doing
  <2>2. q.ask.kind \in {"patch", "active"}
    BY <1>1, <2>1 DEF Remaining
  <2>3. QED
    BY <1>2, <2>2 DEF Update, RowStep
<1>3. CASE SoftDelete(r)
  <2>1. q.todo = <<"softDelete">>
    BY <1>1, <1>3, TodoHeads DEF SoftDelete, Doing
  <2>2. q.ask.kind = "delete"
    BY <1>1, <2>1 DEF Remaining
  <2>3. QED
    BY <1>3, <2>2 DEF SoftDelete, RowStep
<1>4. CASE RevokeSessions(r) \/ DeleteIdentity(r) \/ SetPassword(r)
  BY <1>4 DEF RevokeSessions, DeleteIdentity, SetPassword, RowStep
<1>5. QED
  BY <1>2, <1>3, <1>4 DEF RunStep

\* Nobody but the target is touched.
LEMMA OnlyTheTarget ==
  ASSUME IInv, NEW r \in Requests, RunStep(r), NEW v \in DOMAIN users, v # requests[r].target
  PROVE  /\ v \in DOMAIN users' /\ users'[v] = users[v]
         /\ sessions'[v] = sessions[v]
         /\ v \in identities => v \in identities'
<1>1. v \in DOMAIN users' /\ users'[v] = users[v]
  BY RunStepRow DEF RowStep
<1>2. sessions'[v] = sessions[v] /\ (v \in identities => v \in identities')
  <2>1. v \in Users
    BY DEF IInv, Tables
  <2>2. CASE Update(r) \/ SoftDelete(r)
    BY <2>2 DEF Update, SoftDelete
  <2>3. CASE RevokeSessions(r)
    BY <2>1, <2>3 DEF RevokeSessions, IInv, Tables
  <2>4. CASE DeleteIdentity(r)
    BY <2>1, <2>4 DEF DeleteIdentity, IInv, Tables
  <2>5. CASE SetPassword(r)
    BY <2>1, <2>5 DEF SetPassword, IInv, Tables
  <2>6. QED
    BY <2>2, <2>3, <2>4, <2>5 DEF RunStep
<1>3. QED
  BY <1>1, <1>2

\* A request of an administrator reaches users of his own tenant only.
THEOREM NoReachAcross == Spec => TenantsDoNotTouch
<1>1. ASSUME IInv, NEW r \in Requests, NEW u \in DOMAIN users, RunStep(r),
             requests[r].by # Nobody,
             \/ users'[u] # users[u]
             \/ sessions'[u] # sessions[u]
             \/ u \in identities \ identities'
      PROVE  users[u].tenant = users[requests[r].by].tenant
  <2>1. u = requests[r].target
    BY <1>1, OnlyTheTarget
  <2>2. OnTarget(requests[r], users) /\ requests[r].phase = "run"
    BY <1>1, RunStepRuns DEF IInv, Sound
  <2>3. QED
    BY <1>1, <2>1, <2>2 DEF OnTarget
<1> DEFINE A == \A r \in Requests, u \in DOMAIN users :
                  /\ RunStep(r)
                  /\ requests[r].by # Nobody
                  /\ \/ users'[u] # users[u]
                     \/ sessions'[u] # sessions[u]
                     \/ u \in identities \ identities'
                  => users[u].tenant = users[requests[r].by].tenant
<1>2. IInv => A
  BY <1>1
<1> HIDE DEF A
<1>3. []IInv => [][A]_vars
  BY <1>2, PTL
<1>4. QED
  BY <1>3, AlwaysSound, PTL DEF TenantsDoNotTouch, A

---------------------------------------------------------------------------
(* The last administrator.                                                 *)

\* The row that is written keeps what the request was not asked to change.
LEMMA WrittenFields ==
  ASSUME NEW ask \in Ask, NEW row \in Row
  PROVE  /\ ~(ask.kind = "patch" /\ ask.role # Absent)
              => Written(ask, row, row).role = row.role
         /\ ask.kind = "patch" /\ ask.role # Absent
              => Written(ask, row, row).role = ask.role
         /\ ask.kind # "active" => Written(ask, row, row).isActive = row.isActive
         /\ ask.kind = "active" => Written(ask, row, row).isActive = ask.isActive
<1> DEFINE role == IF ask.kind = "patch" /\ ask.role # Absent THEN ask.role ELSE row.role
           active == IF ask.kind = "active" THEN ask.isActive ELSE row.isActive
           w == [[row EXCEPT !.role = role] EXCEPT !.isActive = active]
<1>1. Written(ask, row, row) = w
  BY DEF Written
<1> HIDE DEF role, active
<1>2. w.role = role /\ w.isActive = active
  BY DEF Row
<1> HIDE DEF w
<1>3. QED
  BY <1>1, <1>2 DEF role, active

\* An update that does not take an administrator away leaves him one.
LEMMA AdminStays ==
  ASSUME NEW ask \in Ask, NEW row \in Row, ask.kind \in {"patch", "active"},
         IsActiveAdmin(row), ~Removes(ask, row)
  PROVE  IsActiveAdmin(Written(ask, row, row))
<1> DEFINE w == Written(ask, row, row)
<1>1. w.deleted = row.deleted
  BY WrittenType
<1>2. w.role = "ADMIN"
  BY WrittenFields DEF IsActiveAdmin, Removes
<1>3. ask.kind = "active" => ask.isActive
  BY DEF IsActiveAdmin, Removes
<1>4. w.isActive
  <2>1. CASE ask.kind = "active"
    BY <1>3, <2>1, WrittenFields
  <2>2. CASE ask.kind # "active"
    BY <2>2, WrittenFields DEF IsActiveAdmin
  <2>3. QED
    BY <2>1, <2>2
<1> HIDE DEF w
<1>5. IsActiveAdmin(w)
  BY <1>1, <1>2, <1>4 DEF IsActiveAdmin
<1>6. QED
  BY <1>5 DEF w

\* The step that takes the last administrator is one on his row, by a request that
\* meant to take him away, unless the row has changed since it was read.
LEMMA LastAdminIsTheTarget ==
  ASSUME IInv, NEW r \in Requests, NEW t \in Tenants, RunStep(r), LosesItsAdmins(t)
  PROVE  /\ ActiveAdmins(t) = {requests[r].target}
         /\ users[requests[r].target] = requests[r].seen
              => Removes(requests[r].ask, requests[r].seen)
<1> DEFINE q == requests[r]
           u == q.target
<1>1. q \in RunState /\ u \in DOMAIN users /\ q.ask \in Ask /\ users[u] \in Row
  BY RunStepRuns, Running DEF RunState, IInv, Tables
<1>2. ASSUME NEW v \in ActiveAdmins(t), v # u
      PROVE  FALSE
  <2>1. v \in DOMAIN users' /\ users'[v] = users[v]
    BY <1>2, OnlyTheTarget DEF ActiveAdmins
  <2>2. v \in ActiveAdmins(t)'
    BY <1>2, <2>1 DEF ActiveAdmins, IsActiveAdmin
  <2>3. QED
    BY <2>2 DEF LosesItsAdmins
<1>3. ActiveAdmins(t) = {u}
  BY <1>2 DEF LosesItsAdmins
<1>4. users[u].tenant = t /\ IsActiveAdmin(users[u])
  BY <1>3 DEF ActiveAdmins
<1>5. ASSUME users[u] = q.seen, ~Removes(q.ask, q.seen)
      PROVE  FALSE
  <2>1. q.ask.kind # "delete"
    BY <1>4, <1>5 DEF Removes, IsActiveAdmin
  <2>2. u \notin ActiveAdmins(t)'
    BY DEF LosesItsAdmins
  <2>3. users' # users
    BY <1>3, <2>2 DEF ActiveAdmins, IsActiveAdmin
  <2>4. /\ q.ask.kind \in {"patch", "active"}
        /\ users' = [users EXCEPT ![u] = Written(q.ask, q.seen, users[u])]
    BY <2>1, <2>3, RunStepRow DEF RowStep
  <2>5. /\ IsActiveAdmin(Written(q.ask, users[u], users[u]))
        /\ Written(q.ask, users[u], users[u]).tenant = t
    BY <1>1, <1>4, <1>5, <2>4, AdminStays, WrittenType
  <2>6. u \in DOMAIN users' /\ users'[u] = Written(q.ask, users[u], users[u])
    BY <1>1, <1>5, <2>4
  <2>7. u \in ActiveAdmins(t)'
    BY <2>5, <2>6 DEF ActiveAdmins, IsActiveAdmin
  <2>8. QED
    BY <2>2, <2>7
<1>6. QED
  BY <1>3, <1>5

\* The last administrator is lost only in a race.
THEOREM LastAdminGoesInARace == Spec => AdminsVanishOnlyInARace
<1> DEFINE A == \A r \in Requests, t \in Tenants :
                  LosesItsAdmins(t) /\ RunStep(r) =>
                    \/ Cardinality(ActiveAdmins(t)) < requests[r].counted
                    \/ users[requests[r].target] # requests[r].seen
<1>1. ASSUME IInv, NEW r \in Requests, NEW t \in Tenants, LosesItsAdmins(t), RunStep(r),
             users[requests[r].target] = requests[r].seen
      PROVE  Cardinality(ActiveAdmins(t)) < requests[r].counted
  <2>1. requests[r] \in RunState /\ Checked(requests[r], identities)
    BY <1>1, RunStepRuns, Running DEF Sound
  <2>2. requests[r].counted \in Nat /\ requests[r].counted > 1
    BY <1>1, <2>1, RunStepRuns, LastAdminIsTheTarget DEF Checked, RunState
  <2>3. Cardinality(ActiveAdmins(t)) = 1
    BY <1>1, LastAdminIsTheTarget, FS_Singleton
  <2>4. QED
    BY <2>2, <2>3
<1>2. IInv => A
  BY <1>1
<1> HIDE DEF A
<1>3. []IInv => [][A]_vars
  BY <1>2, PTL
<1>4. QED
  BY <1>3, AlwaysSound, PTL DEF AdminsVanishOnlyInARace, A

\* And under a requester who is no administrator himself any more.
THEOREM LastAdminGoesUnderAStaleOne == Spec => AdminsVanishUnderAStaleAdmin
<1> DEFINE A == \A r \in Requests, t \in Tenants :
                  LosesItsAdmins(t) /\ RunStep(r) =>
                    \/ requests[r].by \notin ActiveAdmins(t)
                    \/ users[requests[r].target] # requests[r].seen
<1>1. ASSUME IInv, NEW r \in Requests, NEW t \in Tenants, LosesItsAdmins(t), RunStep(r),
             users[requests[r].target] = requests[r].seen,
             requests[r].by \in ActiveAdmins(t)
      PROVE  FALSE
  <2>1. requests[r].by = requests[r].target /\ Removes(requests[r].ask, requests[r].seen)
    BY <1>1, LastAdminIsTheTarget
  <2>2. RefusedOnSelf(requests[r].ask)
    BY <2>1 DEF Removes, RefusedOnSelf
  <2>3. NotOnSelf(requests[r]) /\ requests[r].phase = "run"
    BY <1>1, RunStepRuns DEF IInv, Sound
  <2>4. QED
    BY <2>1, <2>2, <2>3 DEF NotOnSelf
<1>2. IInv => A
  BY <1>1
<1> HIDE DEF A
<1>3. []IInv => [][A]_vars
  BY <1>2, PTL
<1>4. QED
  BY <1>3, AlwaysSound, PTL DEF AdminsVanishUnderAStaleAdmin, A

---------------------------------------------------------------------------
(* A tenant without administrators.                                        *)

\* A step gives tenant t no row it did not have, and no requester of its own.
GivesNothing(t) ==
  /\ \A v \in DOMAIN users' :
       users'[v].tenant = t => v \in DOMAIN users /\ users'[v] = users[v]
  /\ \A r \in Requests : requests'[r].phase # "idle" =>
       \/ requests'[r].by = Nobody
       \/ requests'[r].by \in DOMAIN users /\ users[requests'[r].by].tenant # t

\* Slot r goes on under the same requester, or is free.
Continues(r) ==
  \E q : /\ requests' = [requests EXCEPT ![r] = q]
         /\ \/ q.phase = "idle"
            \/ requests[r].phase # "idle" /\ q.by = requests[r].by

LEMMA HandlersContinue ==
  ASSUME IInv, NEW r \in Requests, HandlerStep(r) \/ RequestFails(r)
  PROVE  Continues(r)
<1> DEFINE q == requests[r]
<1>1. Idle.phase = "idle"
  BY DEF Idle
<1>2. CASE FindTarget(r)
  <2> DEFINE count == [phase |-> "count", ask |-> q.ask, by |-> q.by, target |-> q.target,
                       seen |-> users[q.target]]
             run == [phase |-> "run", ask |-> q.ask, by |-> q.by, target |-> q.target,
                     seen |-> users[q.target], counted |-> 0, todo |-> Steps(q.ask)]
             next == IF ~Found(r) THEN Idle
                     ELSE IF Removes(q.ask, users[q.target]) THEN count ELSE run
  <2>1. requests' = [requests EXCEPT ![r] = next] /\ q.phase = "find"
    BY <1>2 DEF FindTarget
  <2>2. next.phase = "idle" \/ next.by = q.by
    BY <1>1
  <2> HIDE DEF next
  <2>3. QED
    BY <2>1, <2>2 DEF Continues
<1>3. CASE CountAdmins(r)
  <2> DEFINE admins == Cardinality(ActiveAdmins(users[q.by].tenant))
             run == [phase |-> "run", ask |-> q.ask, by |-> q.by, target |-> q.target,
                     seen |-> q.seen, counted |-> admins, todo |-> Steps(q.ask)]
             next == IF admins <= 1 THEN Idle ELSE run
  <2>1. requests' = [requests EXCEPT ![r] = next] /\ q.phase = "count"
    BY <1>3 DEF CountAdmins
  <2>2. next.phase = "idle" \/ next.by = q.by
    BY <1>1
  <2> HIDE DEF next
  <2>3. QED
    BY <2>1, <2>2 DEF Continues
<1>4. CASE RunStep(r)
  <2>1. q \in RunState /\ q.phase = "run"
    BY <1>4, RunStepRuns, Running
  <2>2. requests' = [requests EXCEPT ![r] = Idle] \/ Finish(r)
    BY <1>4 DEF RunStep, Update, RevokeSessions, DeleteIdentity, SoftDelete, SetPassword
  <2> DEFINE rest == [q EXCEPT !.todo = Tail(q.todo)]
  <2>3. rest.by = q.by
    BY <2>1 DEF RunState
  <2>4. \/ requests' = [requests EXCEPT ![r] = Idle]
        \/ requests' = [requests EXCEPT ![r] = rest]
    BY <2>2 DEF Finish
  <2> HIDE DEF rest
  <2>5. QED
    BY <1>1, <2>1, <2>3, <2>4 DEF Continues
<1>5. CASE FindEmail(r)
  <2> DEFINE insert == [q EXCEPT !.phase = "insert"]
  <2>1. q \in FindState /\ q.phase = "find"
    BY <1>5, Shapes DEF FindEmail, IInv
  <2>2. insert.by = q.by
    BY <2>1 DEF FindState
  <2>3. \/ requests' = [requests EXCEPT ![r] = Idle]
        \/ requests' = [requests EXCEPT ![r] = insert]
    BY <1>5 DEF FindEmail
  <2> HIDE DEF insert
  <2>4. QED
    BY <1>1, <2>1, <2>2, <2>3 DEF Continues
<1>6. CASE Insert(r) \/ RequestFails(r)
  BY <1>1, <1>6 DEF Insert, RequestFails, Continues
<1>7. QED
  BY <1>2, <1>3, <1>4, <1>5, <1>6 DEF HandlerStep

\* The requests of a step that continues one of them.
LEMMA ContinuesQuietly ==
  ASSUME IInv, NEW t \in Tenants, LockedOut(t), NEW r \in Requests, Continues(r),
         NEW s \in Requests, requests'[s].phase # "idle"
  PROVE  \/ requests'[s].by = Nobody
         \/ requests'[s].by \in DOMAIN users /\ users[requests'[s].by].tenant # t
<1>1. requests[s].phase # "idle" /\ requests'[s].by = requests[s].by
  BY DEF Continues, IInv
<1>2. HasRequester(requests[s], users)
  BY DEF IInv, Sound
<1>3. QED
  BY <1>1, <1>2 DEF LockedOut, HasRequester

\* The rows of a step of a request.
LEMMA HandlersGiveNoRow ==
  ASSUME IInv, NEW t \in Tenants, LockedOut(t), NEW r \in Requests, HandlerStep(r),
         NEW v \in DOMAIN users', users'[v].tenant = t
  PROVE  v \in DOMAIN users /\ users'[v] = users[v]
<1> DEFINE q == requests[r]
<1>1. q.phase # "idle" => q.by = Nobody \/ users[q.by].tenant # t
  BY DEF LockedOut
<1>2. CASE RunStep(r)
  <2>1. q \in RunState /\ q.target \in DOMAIN users /\ Sound(q, users, identities)
    BY <1>2, RunStepRuns, Running
  <2>2. CASE users' = users
    BY <2>2
  <2>3. CASE users' # users
    <3>1. /\ q.ask.kind # "reset" /\ DOMAIN users' = DOMAIN users
          /\ users[q.target] \in Row /\ q.ask \in Ask /\ q.seen \in Row
      BY <1>2, <2>1, <2>3, RunStepRow DEF RowStep, IInv, Tables, RunState
    <3>2. users[q.target].tenant # t
      BY <1>1, <1>2, <2>1, <3>1, RunStepRuns DEF Sound, Checked, OnTarget
    <3>3. users'[q.target].tenant = users[q.target].tenant
      <4>1. Written(q.ask, q.seen, users[q.target]).tenant = users[q.target].tenant
        BY <3>1, WrittenType
      <4>2. [users[q.target] EXCEPT !.deleted = TRUE].tenant = users[q.target].tenant
        BY <3>1 DEF Row
      <4>3. QED
        BY <1>2, <2>1, <2>3, <4>1, <4>2, RunStepRow DEF RowStep
    <3>4. v # q.target
      BY <3>2, <3>3
    <3>5. QED
      BY <1>2, <3>1, <3>4, OnlyTheTarget
  <2>4. QED
    BY <2>2, <2>3
<1>3. CASE Insert(r)
  <2>1. q \in InsertState
    BY <1>3, Shapes DEF Insert, IInv
  <2>2. users[q.by].tenant # t
    BY <1>1, <1>3, <2>1, NobodyAssumption DEF Insert, InsertState
  <2> DEFINE row == [tenant |-> users[q.by].tenant, role |-> q.ask.role, isActive |-> TRUE,
                     deleted |-> FALSE, hasIdentity |-> FALSE]
  <2>3. row.tenant # t
    BY <2>2
  <2>4. \/ users' = users
        \/ users' = [w \in DOMAIN users \cup {q.target} |->
                       IF w # q.target THEN users[w] ELSE row]
    BY <1>3, Zenon DEF Insert
  <2> HIDE DEF row
  <2>5. QED
    BY <2>3, <2>4
<1>4. CASE FindTarget(r) \/ CountAdmins(r) \/ FindEmail(r)
  BY <1>4 DEF FindTarget, CountAdmins, FindEmail
<1>5. QED
  BY <1>2, <1>3, <1>4 DEF HandlerStep

LEMMA StepsGiveNothing ==
  ASSUME IInv, [Next]_vars, NEW t \in Tenants, LockedOut(t)
  PROVE  GivesNothing(t)
<1>1. ASSUME NEW r \in Requests, NEW by \in Users, NEW u \in Users, NEW ask \in Asks,
             Admit(r, by, u, ask)
      PROVE  GivesNothing(t)
  <2> DEFINE q == [phase |-> "find", ask |-> ask, by |-> by, target |-> u]
  <2>1. by \in DOMAIN users /\ IsActiveAdmin(users[by])
    BY <1>1 DEF Admit, Authorized
  <2>2. users[by].tenant # t
    BY <2>1 DEF LockedOut, ActiveAdmins
  <2>3. requests' = [requests EXCEPT ![r] = q] /\ users' = users
    BY <1>1 DEF Admit
  <2>4. ASSUME NEW s \in Requests, requests'[s].phase # "idle"
        PROVE  \/ requests'[s].by = Nobody
               \/ requests'[s].by \in DOMAIN users /\ users[requests'[s].by].tenant # t
    <3>1. CASE s = r
      BY <2>1, <2>2, <2>3, <3>1 DEF IInv
    <3>2. CASE s # r
      BY <2>3, <2>4, <3>2 DEF IInv, Sound, HasRequester, LockedOut
    <3>3. QED
      BY <3>1, <3>2
  <2>5. QED
    BY <2>3, <2>4 DEF GivesNothing
<1>2. ASSUME NEW r \in Requests, HandlerStep(r) \/ RequestFails(r)
      PROVE  GivesNothing(t)
  <2>1. Continues(r)
    BY <1>2, HandlersContinue
  <2>2. RequestFails(r) => users' = users
    BY DEF RequestFails
  <2>3. QED
    BY <1>2, <2>1, <2>2, ContinuesQuietly, HandlersGiveNoRow DEF GivesNothing
<1>3. ASSUME NEW r \in Requests, NEW u \in Visitors, ConsumeLink(r, u)
      PROVE  GivesNothing(t)
  <2> DEFINE q == [phase |-> "run", ask |-> [kind |-> "reset"], by |-> Nobody, target |-> u,
                   seen |-> users[u], counted |-> 0, todo |-> Steps([kind |-> "reset"])]
  <2>1. requests' = [requests EXCEPT ![r] = q] /\ users' = users /\ q.by = Nobody
    BY <1>3 DEF ConsumeLink
  <2> HIDE DEF q
  <2>2. \A s \in Requests : requests'[s] = q \/ requests'[s] = requests[s]
    BY <2>1 DEF IInv
  <2>3. QED
    BY <2>1, <2>2 DEF GivesNothing, IInv, Sound, HasRequester, LockedOut
<1>4. ASSUME users' = users /\ requests' = requests
      PROVE  GivesNothing(t)
  BY <1>4 DEF GivesNothing, IInv, Sound, HasRequester, LockedOut
<1>5. QED
  BY <1>1, <1>2, <1>3, <1>4 DEF Next, Login, SendResetLink, vars

\* A tenant that is locked out stays so: nothing gives it an administrator again.
THEOREM LockoutIsForGood == Spec => LockoutIsPermanent
<1> DEFINE A == \A t \in Tenants : LockedOut(t) => LockedOut(t)'
<1>1. ASSUME IInv, [Next]_vars, NEW t \in Tenants, LockedOut(t)
      PROVE  LockedOut(t)'
  <2>1. GivesNothing(t) /\ IInv'
    BY <1>1, StepsGiveNothing, NextSound
  <2>2. ActiveAdmins(t)' = {}
    BY <1>1, <2>1 DEF GivesNothing, LockedOut, ActiveAdmins, IsActiveAdmin
  <2>3. ASSUME NEW r \in Requests, requests'[r].phase # "idle", requests'[r].by # Nobody
        PROVE  users'[requests'[r].by].tenant # t
    <3>1. requests'[r].by \in DOMAIN users'
      BY <2>1, <2>3 DEF IInv, Sound, HasRequester
    <3>2. QED
      BY <2>1, <2>3, <3>1 DEF GivesNothing
  <2>4. QED
    BY <2>2, <2>3 DEF LockedOut
<1>2. IInv /\ [Next]_vars => A
  BY <1>1
<1> HIDE DEF A
<1>3. []IInv /\ [][Next]_vars => [][A]_vars
  BY <1>2, PTL
<1>4. QED
  BY <1>3, AlwaysSound, PTL DEF Spec, LockoutIsPermanent, A

---------------------------------------------------------------------------
(* What a request writes, and what a change of password ends.              *)

LEMMA WhatIsAsked ==
  ASSUME NEW ask
  PROVE  /\ ask.kind = "patch" /\ ask.role # Absent => Asked(ask) = {"role"}
         /\ ask.kind = "active" => Asked(ask) = {"isActive"}
         /\ ask.kind = "delete" => Asked(ask) = {"deleted"}
<1>1. CASE ask.kind = "patch"
  BY <1>1 DEF Asked
<1>2. CASE ask.kind = "active"
  BY <1>2 DEF Asked
<1>3. CASE ask.kind = "delete"
  BY <1>3 DEF Asked
<1>4. QED
  BY <1>1, <1>2, <1>3

\* A request on the row it read changes the fields of its body and no other.
THEOREM WritesAreExact == Spec => UncontendedWritesAreExact
<1> DEFINE A == \A r \in Requests :
                  RunStep(r) /\ users[requests[r].target] = requests[r].seen
                    => ChangesOnlyAsked(r)
<1>1. ASSUME IInv, NEW r \in Requests, RunStep(r),
             users[requests[r].target] = requests[r].seen
      PROVE  ChangesOnlyAsked(r)
  <2> DEFINE q == requests[r]
             row == users[q.target]
             w == Written(q.ask, row, row)
  <2>1. /\ q \in RunState /\ q.target \in DOMAIN users /\ q.ask \in Ask /\ row \in Row
        /\ q.seen = row
    BY <1>1, RunStepRuns, Running DEF RunState, IInv, Tables
  <2>2. DOMAIN row = {"tenant", "role", "isActive", "deleted", "hasIdentity"}
    BY <2>1 DEF Row
  <2> SUFFICES ASSUME NEW field \in DOMAIN row \ Asked(q.ask)
               PROVE  users'[q.target][field] = row[field]
    BY DEF ChangesOnlyAsked
  <2>3. CASE users' = users
    BY <2>3
  <2>4. CASE /\ q.ask.kind \in {"patch", "active"}
             /\ users' = [users EXCEPT ![q.target] = Written(q.ask, q.seen, row)]
    <3>1. users'[q.target] = w
      BY <2>1, <2>4
    <3>2. w.tenant = row.tenant /\ w.deleted = row.deleted /\ w.hasIdentity = row.hasIdentity
      BY <2>1, WrittenType
    <3>3. field = "role" => w.role = row.role
      BY <2>1, WhatIsAsked, WrittenFields
    <3>4. field = "isActive" => w.isActive = row.isActive
      BY <2>1, <2>4, WhatIsAsked, WrittenFields
    <3> HIDE DEF w
    <3>5. QED
      BY <2>2, <3>1, <3>2, <3>3, <3>4
  <2>5. CASE /\ q.ask.kind = "delete"
             /\ users' = [users EXCEPT ![q.target] = [row EXCEPT !.deleted = TRUE]]
    <3>1. field # "deleted"
      BY <2>5, WhatIsAsked
    <3>2. users'[q.target] = [row EXCEPT !.deleted = TRUE]
      BY <2>1, <2>5
    <3>3. QED
      BY <2>1, <3>1, <3>2 DEF Row
  <2>6. QED
    BY <1>1, <2>3, <2>4, <2>5, RunStepRow DEF RowStep
<1>2. IInv => A
  BY <1>1
<1> HIDE DEF A
<1>3. []IInv => [][A]_vars
  BY <1>2, PTL
<1>4. QED
  BY <1>3, AlwaysSound, PTL DEF UncontendedWritesAreExact, A

\* A change of password that succeeds leaves no session opened with an earlier one.
THEOREM PasswordChangeIsThorough == Spec => PasswordChangeEndsOldSessions
<1> DEFINE A == \A r \in Requests :
                  /\ RunStep(r)
                  /\ requests[r].ask.kind \in {"password", "reset"}
                  /\ requests[r].target \in identities
                  /\ requests'[r] = Idle
                  => "old" \notin sessions'[requests[r].target]
<1>1. ASSUME IInv, NEW r \in Requests, RunStep(r),
             requests[r].ask.kind \in {"password", "reset"},
             requests[r].target \in identities, requests'[r] = Idle
      PROVE  "old" \notin sessions'[requests[r].target]
  <2> DEFINE q == requests[r]
  <2>1. /\ q \in RunState /\ q.phase = "run" /\ q.target \in Users
        /\ Remaining(q.ask, q.todo)
    BY <1>1, RunStepRuns, Running DEF RunState, Sound, Checked
  <2>2. q.todo \in {<<"setPassword", "revoke">>, <<"revoke">>}
    BY <1>1, <2>1 DEF Remaining
  <2>3. CASE q.todo = <<"revoke">>
    <3>1. RevokeSessions(r)
      BY <1>1, <2>3
         DEF RunStep, Update, DeleteIdentity, SoftDelete, SetPassword, Doing
    <3>2. QED
      BY <1>1, <2>1, <3>1 DEF RevokeSessions, IInv, Tables
  <2>4. CASE q.todo = <<"setPassword", "revoke">>
    <3>1. SetPassword(r)
      BY <1>1, <2>4
         DEF RunStep, Update, DeleteIdentity, SoftDelete, RevokeSessions, Doing
    <3>2. Finish(r) /\ Len(q.todo) # 1
      BY <1>1, <2>4, <3>1 DEF SetPassword
    <3> DEFINE rest == [q EXCEPT !.todo = Tail(q.todo)]
    <3>3. requests'[r] = rest
      BY <1>1, <3>2 DEF Finish, IInv
    <3>4. rest.phase = "run"
      BY <2>1 DEF RunState
    <3>5. QED
      BY <1>1, <3>3, <3>4 DEF Idle
  <2>5. QED
    BY <2>2, <2>3, <2>4
<1>2. IInv => A
  BY <1>1
<1> HIDE DEF A
<1>3. []IInv => [][A]_vars
  BY <1>2, PTL
<1>4. QED
  BY <1>3, AlwaysSound, PTL DEF PasswordChangeEndsOldSessions, A
=============================================================================
