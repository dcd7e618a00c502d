------------------------------ MODULE RealtimeRooms ------------------------------
(***************************************************************************)
(* The sockets of the realtime namespace on top of the accounts of         *)
(* UserAccounts: the handshake, which asks the session provider and then   *)
(* the database who the client is, the room of each tenant, and events     *)
(* sent to a room.  Users are changed by the requests of UserAccounts and  *)
(* tenants are closed while handshakes are under way.                      *)
(***************************************************************************)
EXTENDS UserAccounts

CONSTANTS
  Procs,    \* processes of the API
  Sockets,  \* slots for sockets
  Origins,  \* origins of pages that connect
  NoOrigin, \* the header is missing: no browser
  AllowedOrigins,  \* CORS_ORIGINS
  NoTenant  \* the handshake resolved to nobody

ASSUME NoTenantAssumption == NoTenant \notin Tenants

VARIABLES
  closed,     \* tenants that are inactive or removed
  listening,  \* processes whose namespace is set up (afterInit)
  sockets,    \* sockets[c]: the socket in slot c
  received,   \* history: received[c]: tenants whose events the client of c was sent
  seen        \* history: seen[c]: what the user of c was since he connected

roomVars == <<listening, sockets, received>>
accountVars == <<users, identities, sessions, links, requests>>

None == [phase |-> "none"]

---------------------------------------------------------------------------
\* The row that findActiveBySupertokensUserId finds.
ActiveUser(u) ==
  /\ u \in DOMAIN users /\ users[u].hasIdentity
  /\ users[u].isActive /\ ~users[u].deleted
  /\ users[u].tenant \notin closed

Is(c, phase) == sockets[c].phase = phase

---------------------------------------------------------------------------
(* The handshake.                                                          *)

\* checkOrigin, before there is a socket.
AllowRequest(origin) == origin = NoOrigin \/ origin \in AllowedOrigins

\* Without a cookie there is nothing to ask the provider.
Connect(c, p, u, origin) ==
  /\ sockets[c] = None
  /\ AllowRequest(origin)
  /\ p \in listening
  /\ sockets' = [sockets EXCEPT ![c] =
       IF u = Nobody
       THEN [phase |-> "resolved", proc |-> p, user |-> u, open |-> TRUE,
             tenant |-> NoTenant, why |-> "session"]
       ELSE [phase |-> "session", proc |-> p, user |-> u, open |-> TRUE]]
  /\ received' = [received EXCEPT ![c] = {}]
  /\ UNCHANGED listening

\* client.disconnect, or a failure that is no answer to who the client is.
Dropped(c) == sockets' = [sockets EXCEPT ![c] = None] /\ UNCHANGED <<listening, received>>

\* An access token is good until it expires, whatever became of its session.
SessionValid(c) ==
  /\ Is(c, "session")
  /\ sockets' = [sockets EXCEPT ![c].phase = "lookup"]
  /\ UNCHANGED <<listening, received>>

Resolve(c, t, why) ==
  sockets' = [sockets EXCEPT ![c] =
    [phase |-> "resolved", proc |-> @.proc, user |-> @.user, open |-> @.open,
     tenant |-> t, why |-> why]]

\* No session, or an error of INVALID_SESSION_ERROR_TYPES.
SessionInvalid(c) ==
  /\ Is(c, "session")
  /\ Resolve(c, NoTenant, "session")
  /\ UNCHANGED <<listening, received>>

\* Bug: findBySupertokensUserId, which finds inactive rows too.
LookUp_AnyRow(c) ==
  LET u == sockets[c].user IN
  /\ Is(c, "lookup")
  /\ Resolve(c, IF u \in DOMAIN users THEN users[u].tenant ELSE NoTenant, "user")
  /\ UNCHANGED <<listening, received>>

\* Bug: the user is taken for his tenantId.
LookUp_WholeUser(c) ==
  LET u == sockets[c].user IN
  /\ Is(c, "lookup")
  /\ Resolve(c, IF ActiveUser(u) THEN u ELSE NoTenant, "user")
  /\ UNCHANGED <<listening, received>>

LookUp(c) ==
  LET u == sockets[c].user IN
  /\ Is(c, "lookup")
  /\ Resolve(c, IF ActiveUser(u) THEN users[u].tenant ELSE NoTenant, "user")
  /\ UNCHANGED <<listening, received>>

\* Bug: a failure of the provider or the database counts as no session.
HandshakeFails_Swallowed(c) ==
  /\ Is(c, "session") \/ Is(c, "lookup")
  /\ Resolve(c, NoTenant, "user")
  /\ UNCHANGED <<listening, received>>

\* The provider or the database fails: disconnected without a reason given.
HandshakeFails(c) ==
  /\ Is(c, "session") \/ Is(c, "lookup")
  /\ Dropped(c)

\* The client is told "unauthorized" and disconnected.
Reject(c) ==
  /\ Is(c, "resolved") /\ sockets[c].tenant = NoTenant
  /\ Dropped(c)

\* join does nothing on a socket that is closed.
Join(c) ==
  /\ Is(c, "resolved") /\ sockets[c].tenant # NoTenant
  /\ IF sockets[c].open
     THEN sockets' = [sockets EXCEPT ![c].phase = "joined"]
                          /\ UNCHANGED <<listening, received>>
     ELSE Dropped(c)

\* The client goes away.  A handshake under way does not notice.
Disconnect(c) ==
  /\ ~Is(c, "none") /\ sockets[c].open
  /\ IF Is(c, "joined")
     THEN Dropped(c)
     ELSE sockets' = [sockets EXCEPT ![c].open = FALSE] /\ UNCHANGED <<listening, received>>

---------------------------------------------------------------------------
(* Events.                                                                 *)

Members(p, t) ==
  {c \in Sockets : Is(c, "joined") /\ sockets[c].proc = p /\ sockets[c].tenant = t}

\* Bug: the event goes to the whole namespace.
emit_Namespace(p, t) ==
  /\ p \in listening
  /\ received' = [c \in Sockets |->
       IF Is(c, "joined") /\ sockets[c].proc = p THEN received[c] \cup {t} ELSE received[c]]
  /\ UNCHANGED <<listening, sockets>>

\* Only the sockets of this process; before the namespace is set up nobody.
emit(p, t) ==
  /\ p \in listening
  /\ received' = [c \in Sockets |->
       IF c \in Members(p, t) THEN received[c] \cup {t} ELSE received[c]]
  /\ UNCHANGED <<listening, sockets>>

afterInit(p) == listening' = listening \cup {p} /\ UNCHANGED <<sockets, received>>

ProcessStops(p) ==
  /\ listening' = listening \ {p}
  /\ sockets' = [c \in Sockets |->
       IF ~Is(c, "none") /\ sockets[c].proc = p THEN None ELSE sockets[c]]
  /\ UNCHANGED received

---------------------------------------------------------------------------
SocketStep(c) ==
  \/ SessionValid(c) \/ SessionInvalid(c) \/ LookUp(c) \/ HandshakeFails(c)
  \/ Reject(c) \/ Join(c) \/ Disconnect(c)

RoomStep ==
  \/ \E c \in Sockets, p \in Procs, u \in Users \cup {Nobody},
        origin \in Origins \cup {NoOrigin} : Connect(c, p, u, origin)
  \/ \E c \in Sockets : SocketStep(c)
  \/ \E p \in Procs, t \in Tenants : emit(p, t)
  \/ \E p \in Procs : afterInit(p) \/ ProcessStops(p)

\* An administrator of the system changes isActive of a tenant or removes it.
TenantStep ==
  /\ \E t \in Tenants : closed' \in {closed \cup {t}, closed \ {t}}
  /\ UNCHANGED accountVars /\ UNCHANGED roomVars

\* The requests of users of a closed tenant are not admitted any more.
AccountStep ==
  /\ \/ \E r \in Requests, by \in Users, u \in Users, ask \in Asks :
          users[by].tenant \notin closed /\ Admit(r, by, u, ask)
     \/ \E r \in Requests : HandlerStep(r) \/ RequestFails(r)
     \/ \E u \in Visitors : Login(u) \/ SendResetLink(u)
     \/ \E r \in Requests, u \in Visitors : ConsumeLink(r, u)
  /\ UNCHANGED closed /\ UNCHANGED roomVars

Status(u) == IF ActiveUser(u) THEN "active" ELSE "inactive"

Handshaking(c) == sockets[c].phase \in {"session", "lookup", "resolved"}

\* What the user of a handshake is after this step, and was before.
Observe ==
  seen' = [c \in Sockets |->
    IF ~Handshaking(c)' THEN {}
    ELSE (IF Handshaking(c) THEN seen[c] ELSE {}) \cup {Status(sockets[c].user)'}]

RoomsInit ==
  /\ Init
  /\ closed = {}
  /\ listening = {}
  /\ sockets = [c \in Sockets |-> None]
  /\ received = [c \in Sockets |-> {}]
  /\ seen = [c \in Sockets |-> {}]

RoomsNext ==
  /\ \/ RoomStep /\ UNCHANGED <<accountVars, closed>>
     \/ TenantStep
     \/ AccountStep
  /\ Observe

roomsVars == <<vars, closed, listening, sockets, received, seen>>

RoomsSpec == RoomsInit /\ [][RoomsNext]_roomsVars

---------------------------------------------------------------------------
(* Properties.                                                             *)

\* Type invariant, with that of the accounts.
Waiting  == [phase : {"session", "lookup"}, proc : Procs, user : Users, open : BOOLEAN]
Resolved == [phase : {"resolved", "joined"}, proc : Procs, user : Users \cup {Nobody},
             open : BOOLEAN, tenant : Tenants \cup {NoTenant}, why : {"session", "user"}]

RoomsTypeOK ==
  /\ TypeOK
  /\ closed \subseteq Tenants
  /\ listening \subseteq Procs
  /\ sockets \in [Sockets -> {None} \cup Waiting \cup Resolved]
  /\ received \in [Sockets -> SUBSET Tenants]
  /\ seen \in [Sockets -> SUBSET {"active", "inactive"}]

\* Who is sent the events of a tenant is a user of that tenant.
EventsStayInTenant ==
  \A c \in Sockets :
    Is(c, "joined") => \A t \in received[c] : users[sockets[c].user].tenant = t

\* Nobody enters a room who was deactivated, deleted or whose tenant was closed
\* during the whole handshake; and a client that is gone is in no room.
OnlyActiveUsersJoin ==
  [][\A c \in Sockets :
       Join(c) /\ sockets'[c].phase = "joined"
         => "active" \in seen[c] /\ sockets[c].open]_roomsVars

\* A client is told that its session is over only when the provider said so or the
\* user was not active at some moment of the handshake: no failure of the provider
\* or the database logs users out (comment of handleConnection).
UnauthorizedIsDeserved ==
  [][\A c \in Sockets :
       Reject(c) => sockets[c].why = "session" \/ "inactive" \in seen[c]]_roomsVars
=============================================================================
