--------------------------- MODULE RealtimeRooms_proofs ---------------------------
(***************************************************************************)
(* Proofs about RealtimeRooms, for any number of processes, sockets,       *)
(* tenants and users, whatever happens to the accounts meanwhile.          *)
(***************************************************************************)
EXTENDS RealtimeRooms, UserAccounts_proofs

---------------------------------------------------------------------------
(* The inductive invariant.                                                *)

SocketState == {None} \cup Waiting \cup Resolved

RoomsShape ==
  /\ closed \subseteq Tenants
  /\ listening \subseteq Procs
  /\ sockets \in [Sockets -> SocketState]
  /\ received \in [Sockets -> SUBSET Tenants]
  /\ seen \in [Sockets -> SUBSET {"active", "inactive"}]

\* A handshake knows what its user is now; what it resolved to is what the user was at
\* some moment of it, and the tenant is his; nothing is sent before the room is joined.
SocketGood(c) ==
  LET x == sockets[c] IN
  /\ Handshaking(c) => Status(x.user) \in seen[c] /\ received[c] = {}
  /\ x.phase \in {"resolved", "joined"} /\ x.tenant # NoTenant =>
       x.user \in DOMAIN users /\ users[x.user].tenant = x.tenant
  /\ x.phase = "joined" => x.tenant # NoTenant /\ received[c] \subseteq {x.tenant}
  /\ x.phase = "resolved" /\ x.tenant # NoTenant => "active" \in seen[c]
  /\ x.phase = "resolved" /\ x.tenant = NoTenant /\ x.why = "user" => "inactive" \in seen[c]

RoomsInv == IInv /\ RoomsShape /\ \A c \in Sockets : SocketGood(c)

---------------------------------------------------------------------------
(* The accounts below.                                                     *)

LEMMA RoomsInitIsInit == RoomsInit => Init
BY DEF RoomsInit

LEMMA RoomsNextIsNext == [RoomsNext]_roomsVars => [Next]_vars
<1>1. CASE RoomStep /\ UNCHANGED <<accountVars, closed>>
  BY <1>1 DEF accountVars, vars
<1>2. CASE TenantStep
  BY <1>2 DEF TenantStep, accountVars, vars
<1>3. CASE AccountStep
  BY <1>3 DEF AccountStep, Next
<1>4. CASE UNCHANGED roomsVars
  BY <1>4 DEF roomsVars, vars
<1>5. QED
  BY <1>1, <1>2, <1>3, <1>4 DEF RoomsNext

\* Sockets and tenants do not interfere with the accounts: every behaviour is one of
\* UserAccounts, so what is proved about the accounts holds with the sockets.
THEOREM RoomsKeepAccounts == RoomsSpec => Spec
BY RoomsInitIsInit, RoomsNextIsNext, PTL DEF RoomsSpec, Spec

\* Rows stay, in their tenant.
RowsStay ==
  /\ DOMAIN users \subseteq DOMAIN users'
  /\ \A u \in DOMAIN users : users'[u].tenant = users[u].tenant

LEMMA RowsAlwaysStay ==
  ASSUME IInv, [Next]_vars
  PROVE  RowsStay
<1>1. CASE users' = users
  BY <1>1 DEF RowsStay
<1>2. users \in [DOMAIN users -> Row]
  BY DEF IInv, Tables
<1>3. ASSUME NEW r \in Requests, RunStep(r) PROVE RowsStay
  <2>1. requests[r].phase = "run"
    BY <1>3, RunStepRuns
  <2> DEFINE q == requests[r]
  <2>2. RowStep(q) /\ q.target \in DOMAIN users
    BY <1>3, <2>1, RunStepRow DEF IInv, Sound, OnTarget
  <2>3. Written(q.ask, q.seen, users[q.target]).tenant = users[q.target].tenant
    BY <1>2, <2>2 DEF Written, Row
  <2>4. [users[q.target] EXCEPT !.deleted = TRUE].tenant = users[q.target].tenant
    BY <1>2, <2>2 DEF Row
  <2> HIDE DEF q
  <2>5. QED
    BY <1>2, <2>2, <2>3, <2>4 DEF RowStep, RowsStay
<1>4. ASSUME NEW r \in Requests, Insert(r) PROVE RowsStay
  <2>1. requests[r].target \notin DOMAIN users
    <3>1. requests[r].phase = "insert" /\ requests[r] \in RequestState
      BY <1>4 DEF Insert, IInv
    <3>2. Creating(requests[r])
      BY <3>1 DEF Creating, RequestState, Idle, FindState, InsertState, CountState, RunState
    <3>3. QED
      BY <3>2 DEF IInv, Reserved
  <2>2. QED
    BY <1>4, <2>1 DEF Insert, RowsStay
<1>5. ASSUME NEW r \in Requests, HandlerStep(r) PROVE RowsStay
  <2>1. CASE FindTarget(r) \/ CountAdmins(r) \/ FindEmail(r)
    BY <1>1, <2>1 DEF FindTarget, CountAdmins, FindEmail
  <2>2. QED
    BY <1>3, <1>4, <1>5, <2>1 DEF HandlerStep
<1>6. ASSUME NEW r \in Requests, RequestFails(r) PROVE RowsStay
  BY <1>1, <1>6 DEF RequestFails
<1>7. ASSUME NEW u \in Visitors, Login(u) \/ SendResetLink(u) PROVE RowsStay
  BY <1>1, <1>7 DEF Login, SendResetLink
<1>8. ASSUME NEW r \in Requests, NEW u \in Visitors, ConsumeLink(r, u) PROVE RowsStay
  BY <1>1, <1>8 DEF ConsumeLink
<1>9. ASSUME NEW r \in Requests, NEW by \in Users, NEW u \in Users, NEW ask \in Asks,
             Admit(r, by, u, ask)
      PROVE  RowsStay
  BY <1>1, <1>9 DEF Admit
<1>10. CASE UNCHANGED vars
  BY <1>1, <1>10 DEF vars
<1>11. QED
  BY <1>5, <1>6, <1>7, <1>8, <1>9, <1>10 DEF Next

---------------------------------------------------------------------------
(* The sockets.                                                            *)

LEMMA SocketShapes ==
  ASSUME NEW x \in SocketState
  PROVE  /\ x.phase \in {"session", "lookup"} => x \in Waiting
         /\ x.phase \in {"resolved", "joined"} => x \in Resolved
         /\ x.phase = "none" => x = None
         /\ x.phase \in {"none", "session", "lookup", "resolved", "joined"}
BY DEF SocketState, None, Waiting, Resolved

LEMMA Observed ==
  ASSUME RoomsShape, Observe
  PROVE  /\ seen' \in [Sockets -> SUBSET {"active", "inactive"}]
         /\ \A c \in Sockets :
              /\ Handshaking(c)' => (Status(sockets[c].user) \in seen[c])'
              /\ Handshaking(c)' /\ Handshaking(c) => seen[c] \subseteq seen'[c]
<1>1. \A u : Status(u)' \in {"active", "inactive"}
  BY DEF Status
<1>2. QED
  BY <1>1 DEF Observe, RoomsShape, Status

\* A socket that nothing happens to, but for events of its tenant.
LEMMA SocketStays ==
  ASSUME RoomsInv, RowsStay, Observe, NEW c \in Sockets, sockets'[c] = sockets[c],
         \/ received'[c] = received[c]
         \/ sockets[c].phase = "joined" /\ received'[c] \subseteq received[c] \cup {sockets[c].tenant}
  PROVE  SocketGood(c)'
<1>1. SocketGood(c) /\ sockets[c] \in SocketState /\ RoomsShape
  BY DEF RoomsInv, RoomsShape
<1>2. Handshaking(c)' = Handshaking(c)
  BY DEF Handshaking
<1>3. Handshaking(c)' => (Status(sockets[c].user) \in seen[c])' /\ seen[c] \subseteq seen'[c]
  BY <1>1, <1>2, Observed
<1>4. Handshaking(c)' => received'[c] = {}
  BY <1>1, <1>2 DEF SocketGood, Handshaking
<1>5. sockets[c].phase = "resolved" => Handshaking(c)'
  BY DEF Handshaking
<1>6. QED
  BY <1>1, <1>3, <1>4, <1>5 DEF SocketGood, RowsStay

LEMMA SocketGone ==
  ASSUME NEW c \in Sockets, sockets'[c] = None
  PROVE  SocketGood(c)'
BY DEF SocketGood, Handshaking, None

\* One socket moves, and the accounts do not.
LEMMA SocketMoves ==
  ASSUME RoomsInv, Observe, UNCHANGED <<accountVars, closed, listening>>,
         NEW c \in Sockets, NEW x \in SocketState, sockets' = [sockets EXCEPT ![c] = x],
         received' \in [Sockets -> SUBSET Tenants],
         \A d \in Sockets \ {c} : received'[d] = received[d],
         sockets'[c] = x => SocketGood(c)'
  PROVE  RoomsInv'
<1>1. IInv'
  BY NextSound DEF RoomsInv, accountVars, vars
<1>2. RowsStay
  BY DEF accountVars, RowsStay
<1>3. sockets' \in [Sockets -> SocketState] /\ sockets'[c] = x
      /\ \A d \in Sockets \ {c} : sockets'[d] = sockets[d]
  BY DEF RoomsInv, RoomsShape
<1>4. RoomsShape'
  BY <1>3, Observed DEF RoomsInv, RoomsShape
<1>5. \A d \in Sockets : SocketGood(d)'
  BY <1>2, <1>3, SocketStays
<1>6. QED
  BY <1>1, <1>4, <1>5 DEF RoomsInv

LEMMA DroppedKeeps ==
  ASSUME RoomsInv, Observe, UNCHANGED <<accountVars, closed>>, NEW c \in Sockets, Dropped(c)
  PROVE  RoomsInv'
<1>1. None \in SocketState /\ sockets' = [sockets EXCEPT ![c] = None]
      /\ UNCHANGED <<listening, received>>
  BY DEF SocketState, Dropped
<1>2. received' \in [Sockets -> SUBSET Tenants]
  BY <1>1 DEF RoomsInv, RoomsShape
<1> HIDE DEF None
<1>3. QED
  BY <1>1, <1>2, SocketMoves, SocketGone

LEMMA ConnectKeeps ==
  ASSUME RoomsInv, Observe, UNCHANGED <<accountVars, closed>>, NEW c \in Sockets,
         NEW p \in Procs, NEW u \in Users \cup {Nobody}, NEW origin, Connect(c, p, u, origin)
  PROVE  RoomsInv'
<1> DEFINE x == IF u = Nobody
                THEN [phase |-> "resolved", proc |-> p, user |-> u, open |-> TRUE,
                      tenant |-> NoTenant, why |-> "session"]
                ELSE [phase |-> "session", proc |-> p, user |-> u, open |-> TRUE]
<1>1. sockets' = [sockets EXCEPT ![c] = x] /\ received' = [received EXCEPT ![c] = {}]
      /\ UNCHANGED listening
  BY DEF Connect
<1>2. x \in SocketState /\ x.phase \in {"session", "resolved"}
      /\ (x.phase = "resolved" => x.tenant = NoTenant /\ x.why = "session")
  BY DEF SocketState, Waiting, Resolved
<1> HIDE DEF x
<1>3. received' \in [Sockets -> SUBSET Tenants] /\ received'[c] = {}
      /\ \A d \in Sockets \ {c} : received'[d] = received[d]
  BY <1>1 DEF RoomsInv, RoomsShape
<1>4. ASSUME sockets'[c] = x PROVE SocketGood(c)'
  <2>1. Handshaking(c)' => (Status(sockets[c].user) \in seen[c])'
    BY Observed DEF RoomsInv
  <2>2. QED
    BY <1>2, <1>3, <1>4, <2>1 DEF SocketGood
<1>5. QED
  BY <1>1, <1>2, <1>3, <1>4, SocketMoves

\* A handshake goes on: its user stays the same.
LEMMA HandshakeMoves ==
  ASSUME RoomsInv, Observe, UNCHANGED <<accountVars, closed, listening, received>>,
         NEW c \in Sockets, Handshaking(c),
         NEW x \in SocketState, sockets' = [sockets EXCEPT ![c] = x],
         x.phase \in {"lookup", "resolved", "joined"} \cup {sockets[c].phase},
         x.user = sockets[c].user,
         x.phase \in {"resolved", "joined"} /\ x.tenant # NoTenant =>
           /\ x.user \in DOMAIN users /\ users[x.user].tenant = x.tenant
           /\ "active" \in seen[c],
         x.phase = "joined" => x.tenant # NoTenant,
         x.phase = "resolved" /\ x.tenant = NoTenant /\ x.why = "user" => "inactive" \in seen[c]
  PROVE  RoomsInv'
<1>1. received' \in [Sockets -> SUBSET Tenants] /\ received[c] = {}
  BY DEF RoomsInv, RoomsShape, SocketGood
<1>2. ASSUME sockets'[c] = x PROVE SocketGood(c)'
  <2>1. Handshaking(c)' => (Status(sockets[c].user) \in seen[c])' /\ seen[c] \subseteq seen'[c]
    BY Observed DEF RoomsInv
  <2>2. Handshaking(c)' <=> x.phase \in {"session", "lookup", "resolved"}
    BY <1>2 DEF Handshaking
  <2>3. users' = users
    BY DEF accountVars
  <2>4. QED
    BY <1>1, <1>2, <2>1, <2>2, <2>3 DEF SocketGood
<1>3. QED
  BY <1>1, <1>2, SocketMoves

LEMMA ResolveKeeps ==
  ASSUME RoomsInv, Observe, UNCHANGED <<accountVars, closed, listening, received>>,
         NEW c \in Sockets, sockets[c].phase \in {"session", "lookup"},
         NEW t \in Tenants \cup {NoTenant}, NEW why \in {"session", "user"}, Resolve(c, t, why),
         t # NoTenant => /\ sockets[c].user \in DOMAIN users
                         /\ users[sockets[c].user].tenant = t
                         /\ "active" \in seen[c],
         t = NoTenant /\ why = "user" => "inactive" \in seen[c]
  PROVE  RoomsInv'
<1> DEFINE y == sockets[c]
           x == [phase |-> "resolved", proc |-> y.proc, user |-> y.user, open |-> y.open,
                 tenant |-> t, why |-> why]
<1>1. y \in Waiting /\ Handshaking(c) /\ sockets' = [sockets EXCEPT ![c] = x]
  BY SocketShapes DEF RoomsInv, RoomsShape, Handshaking, Resolve
<1>2. /\ x \in SocketState /\ x.phase = "resolved" /\ x.user = y.user
      /\ x.tenant = t /\ x.why = why
  BY <1>1 DEF SocketState, Waiting, Resolved
<1> HIDE DEF x
<1>3. QED
  BY <1>1, <1>2, HandshakeMoves

LEMMA SocketStepKeeps ==
  ASSUME RoomsInv, Observe, UNCHANGED <<accountVars, closed>>, NEW c \in Sockets, SocketStep(c)
  PROVE  RoomsInv'
<1> DEFINE y == sockets[c]
<1>1. y \in SocketState /\ SocketGood(c)
  BY DEF RoomsInv, RoomsShape
<1>2. CASE SessionValid(c)
  <2> DEFINE x == [y EXCEPT !.phase = "lookup"]
  <2>1. y.phase = "session" /\ sockets' = [sockets EXCEPT ![c] = x]
        /\ UNCHANGED <<listening, received>>
    BY <1>2 DEF SessionValid, Is
  <2>2. y \in Waiting /\ Handshaking(c)
    BY <1>1, <2>1, SocketShapes DEF Handshaking
  <2>3. x \in SocketState /\ x.phase = "lookup" /\ x.user = y.user
    BY <2>2 DEF SocketState, Waiting
  <2> HIDE DEF x
  <2>4. QED
    BY <2>1, <2>2, <2>3, HandshakeMoves
<1>3. CASE SessionInvalid(c)
  BY <1>3, ResolveKeeps DEF SessionInvalid, Is
<1>4. CASE LookUp(c)
  <2> DEFINE t == IF ActiveUser(y.user) THEN users[y.user].tenant ELSE NoTenant
  <2>1. y.phase = "lookup" /\ Resolve(c, t, "user") /\ UNCHANGED <<listening, received>>
    BY <1>4 DEF LookUp, Is
  <2>2. Status(y.user) \in seen[c]
    BY <1>1, <2>1 DEF SocketGood, Handshaking
  <2>3. CASE ActiveUser(y.user)
    <3>1. y.user \in DOMAIN users /\ users[y.user].tenant \in Tenants
      BY <2>3 DEF ActiveUser, RoomsInv, IInv, Tables, Row
    <3>2. t = users[y.user].tenant /\ t \in Tenants \cup {NoTenant} /\ t # NoTenant
      BY <2>3, <3>1, NoTenantAssumption
    <3>3. "active" \in seen[c]
      BY <2>2, <2>3 DEF Status
    <3> HIDE DEF t
    <3>4. QED
      BY <2>1, <3>1, <3>2, <3>3, ResolveKeeps
  <2>4. CASE ~ActiveUser(y.user)
    <3>1. t = NoTenant /\ "inactive" \in seen[c]
      BY <2>2, <2>4 DEF Status
    <3> HIDE DEF t
    <3>2. QED
      BY <2>1, <3>1, ResolveKeeps
  <2>5. QED
    BY <2>3, <2>4
<1>5. CASE HandshakeFails(c) \/ Reject(c)
  BY <1>5, DroppedKeeps DEF HandshakeFails, Reject
<1>6. CASE Join(c)
  <2>1. y.phase = "resolved" /\ y.tenant # NoTenant
    BY <1>6 DEF Join, Is
  <2>2. CASE y.open
    <3> DEFINE x == [y EXCEPT !.phase = "joined"]
    <3>1. sockets' = [sockets EXCEPT ![c] = x] /\ UNCHANGED <<listening, received>>
      BY <1>6, <2>2 DEF Join
    <3>2. y \in Resolved /\ Handshaking(c)
      BY <1>1, <2>1, SocketShapes DEF Handshaking
    <3>3. x \in SocketState /\ x.phase = "joined" /\ x.user = y.user /\ x.tenant = y.tenant
      BY <3>2 DEF SocketState, Resolved
    <3>4. y.user \in DOMAIN users /\ users[y.user].tenant = y.tenant /\ "active" \in seen[c]
      BY <1>1, <2>1 DEF SocketGood
    <3> HIDE DEF x
    <3>5. QED
      BY <2>1, <3>1, <3>2, <3>3, <3>4, HandshakeMoves
  <2>3. CASE ~y.open
    BY <1>6, <2>3, DroppedKeeps DEF Join
  <2>4. QED
    BY <2>2, <2>3
<1>7. CASE Disconnect(c)
  <2>1. CASE y.phase = "joined"
    BY <1>7, <2>1, DroppedKeeps DEF Disconnect, Is
  <2>2. CASE y.phase # "joined"
    <3> DEFINE x == [y EXCEPT !.open = FALSE]
    <3>1. y.phase # "none" /\ sockets' = [sockets EXCEPT ![c] = x]
          /\ UNCHANGED <<listening, received>>
      BY <1>7, <2>2 DEF Disconnect, Is
    <3>2. y \in Waiting \cup Resolved /\ Handshaking(c)
      BY <1>1, <2>2, <3>1, SocketShapes DEF Handshaking
    <3>3. /\ x \in SocketState /\ x.phase = y.phase /\ x.user = y.user
          /\ y.phase = "resolved" => x.tenant = y.tenant /\ x.why = y.why
      BY <3>2 DEF SocketState, Waiting, Resolved
    <3> HIDE DEF x
    <3>4. QED
      BY <1>1, <2>2, <3>1, <3>2, <3>3, HandshakeMoves DEF SocketGood
  <2>3. QED
    BY <2>1, <2>2
<1>8. QED
  BY <1>2, <1>3, <1>4, <1>5, <1>6, <1>7 DEF SocketStep

\* No socket moves: events are sent, processes start, accounts and tenants change.
LEMMA SocketsStay ==
  ASSUME RoomsInv, Observe, [Next]_vars, closed' \subseteq Tenants, listening' \subseteq Procs,
         sockets' = sockets, received' \in [Sockets -> SUBSET Tenants],
         \A c \in Sockets :
           \/ received'[c] = received[c]
           \/ sockets[c].phase = "joined" /\ received'[c] \subseteq received[c] \cup {sockets[c].tenant}
  PROVE  RoomsInv'
<1>1. IInv' /\ RowsStay
  BY NextSound, RowsAlwaysStay DEF RoomsInv
<1>2. RoomsShape'
  BY Observed DEF RoomsInv, RoomsShape
<1>3. \A c \in Sockets : SocketGood(c)'
  BY <1>1, SocketStays
<1>4. QED
  BY <1>1, <1>2, <1>3 DEF RoomsInv

LEMMA emitKeeps ==
  ASSUME RoomsInv, Observe, UNCHANGED <<accountVars, closed>>,
         NEW p \in Procs, NEW t \in Tenants, emit(p, t)
  PROVE  RoomsInv'
<1>1. UNCHANGED <<listening, sockets, vars>>
  BY DEF emit, accountVars, vars
<1>2. received' \in [Sockets -> SUBSET Tenants]
  BY DEF emit, RoomsInv, RoomsShape
<1>3. ASSUME NEW c \in Sockets
      PROVE  \/ received'[c] = received[c]
             \/ /\ sockets[c].phase = "joined"
                /\ received'[c] \subseteq received[c] \cup {sockets[c].tenant}
  BY DEF emit, Members, Is
<1>4. QED
  BY <1>1, <1>2, <1>3, SocketsStay DEF RoomsInv, RoomsShape

LEMMA ProcessStopsKeeps ==
  ASSUME RoomsInv, Observe, UNCHANGED <<accountVars, closed>>, NEW p \in Procs, ProcessStops(p)
  PROVE  RoomsInv'
<1>1. IInv' /\ RowsStay
  BY NextSound DEF RoomsInv, accountVars, vars, RowsStay
<1>2. \A c \in Sockets : sockets'[c] = None \/ sockets'[c] = sockets[c]
  BY DEF ProcessStops
<1>3. RoomsShape'
  BY <1>2, Observed DEF RoomsInv, RoomsShape, ProcessStops, SocketState
<1>4. \A c \in Sockets : SocketGood(c)'
  BY <1>1, <1>2, SocketStays, SocketGone DEF ProcessStops
<1>5. QED
  BY <1>1, <1>3, <1>4 DEF RoomsInv

LEMMA RoomsInitSound == RoomsInit => RoomsInv
<1> SUFFICES ASSUME RoomsInit PROVE RoomsInv
  OBVIOUS
<1>1. IInv
  BY InitSound DEF RoomsInit
<1>2. RoomsShape
  BY DEF RoomsInit, RoomsShape, SocketState
<1>3. \A c \in Sockets : SocketGood(c)
  BY DEF RoomsInit, SocketGood, Handshaking, None
<1>4. QED
  BY <1>1, <1>2, <1>3 DEF RoomsInv

LEMMA RoomsNextSound == RoomsInv /\ [RoomsNext]_roomsVars => RoomsInv'
<1> SUFFICES ASSUME RoomsInv, [RoomsNext]_roomsVars PROVE RoomsInv'
  OBVIOUS
<1>1. [Next]_vars /\ IInv'
  BY RoomsNextIsNext, NextSound DEF RoomsInv
<1>2. CASE RoomStep /\ UNCHANGED <<accountVars, closed>> /\ Observe
  <2>1. ASSUME NEW p \in Procs, afterInit(p) PROVE RoomsInv'
    BY <1>1, <1>2, <2>1, SocketsStay DEF afterInit, RoomsInv, RoomsShape
  <2>2. QED
    BY <1>2, <2>1, ConnectKeeps, SocketStepKeeps, emitKeeps, ProcessStopsKeeps DEF RoomStep
<1>3. CASE TenantStep /\ Observe
  BY <1>1, <1>3, SocketsStay DEF TenantStep, roomVars, RoomsInv, RoomsShape
<1>4. CASE AccountStep /\ Observe
  BY <1>1, <1>4, SocketsStay DEF AccountStep, roomVars, RoomsInv, RoomsShape
<1>5. CASE UNCHANGED roomsVars
  BY <1>1, <1>5 DEF roomsVars, vars, RoomsInv, RoomsShape, SocketGood, Handshaking, Status, ActiveUser
<1>6. QED
  BY <1>2, <1>3, <1>4, <1>5 DEF RoomsNext

\* The inductive invariant of sockets and accounts together.
THEOREM RoomsAlwaysSound == RoomsSpec => []RoomsInv
BY RoomsInitSound, RoomsNextSound, PTL DEF RoomsSpec

---------------------------------------------------------------------------
(* The properties.                                                         *)

\* Type correctness of sockets, rooms and accounts.
THEOREM RoomsTypeCorrect == RoomsSpec => []RoomsTypeOK
<1>1. RoomsInv => RoomsTypeOK
  BY DEF RoomsInv, RoomsShape, SocketState, RoomsTypeOK, IInv, Tables, TypeOK
<1>2. QED
  BY <1>1, RoomsAlwaysSound, PTL

\* What a socket was sent are events of the tenant its user belongs to now, since no
\* route moves a user (handleConnection joins the room of the row's tenant).
THEOREM EventsStay == RoomsSpec => []EventsStayInTenant
<1>1. RoomsInv => EventsStayInTenant
  BY DEF RoomsInv, SocketGood, EventsStayInTenant, Is
<1>2. QED
  BY <1>1, RoomsAlwaysSound, PTL

\* Only who was active at some moment of his handshake enters a room.
THEOREM ActiveUsersJoin == RoomsSpec => OnlyActiveUsersJoin
<1> DEFINE A == \A c \in Sockets :
                  Join(c) /\ sockets'[c].phase = "joined"
                    => "active" \in seen[c] /\ sockets[c].open
<1>1. RoomsInv => A
  <2> SUFFICES ASSUME RoomsInv, NEW c \in Sockets, Join(c), sockets'[c].phase = "joined"
               PROVE  "active" \in seen[c] /\ sockets[c].open
    OBVIOUS
  <2>2. SocketGood(c) /\ sockets \in [Sockets -> SocketState]
    BY DEF RoomsInv, RoomsShape
  <2>3. "active" \in seen[c]
    BY <2>2 DEF SocketGood, Join, Is
  <2>4. sockets[c].open
    BY <2>2 DEF Join, Dropped, None
  <2>5. QED
    BY <2>3, <2>4
<1>2. OnlyActiveUsersJoin <=> [][A]_roomsVars
  BY DEF OnlyActiveUsersJoin
<1> HIDE DEF A
<1>3. QED
  BY <1>1, <1>2, RoomsAlwaysSound, PTL DEF RoomsSpec

\* "unauthorized" is told to those without a session or who were not active at some
\* moment of the handshake, never because the provider or the database failed.
THEOREM RejectionsAreDeserved == RoomsSpec => UnauthorizedIsDeserved
<1> DEFINE A == \A c \in Sockets :
                  Reject(c) => sockets[c].why = "session" \/ "inactive" \in seen[c]
<1>1. RoomsInv => A
  <2> SUFFICES ASSUME RoomsInv, NEW c \in Sockets, Reject(c)
               PROVE  sockets[c].why = "session" \/ "inactive" \in seen[c]
    OBVIOUS
  <2>2. SocketGood(c) /\ sockets[c] \in SocketState
        /\ sockets[c].phase = "resolved" /\ sockets[c].tenant = NoTenant
    BY DEF RoomsInv, RoomsShape, Reject, Is
  <2>3. sockets[c].why \in {"session", "user"}
    BY <2>2, SocketShapes DEF Resolved
  <2>4. QED
    BY <2>2, <2>3 DEF SocketGood
<1>2. UnauthorizedIsDeserved <=> [][A]_roomsVars
  BY DEF UnauthorizedIsDeserved
<1> HIDE DEF A
<1>3. QED
  BY <1>1, <1>2, RoomsAlwaysSound, PTL DEF RoomsSpec
=============================================================================
