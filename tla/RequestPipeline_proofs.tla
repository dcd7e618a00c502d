-------------------------- MODULE RequestPipeline_proofs --------------------------
(***************************************************************************)
(* Theorems about RequestPipeline.  Each rests on an inductive invariant of *)
(* its own, in layers: first the types, with what the phase of a request    *)
(* says of its route, its user and its row; then the rows, the records and  *)
(* the objects a request leaves, and what was seen of its user.             *)
(***************************************************************************)
EXTENDS RequestPipeline, TLAPS

---------------------------------------------------------------------------
(* Requests.                                                               *)

InHandler == {"create", "save", "patch", "write", "reread", "remove", "upload", "put"}
WithUser == {"guards", "probe"} \cup InHandler
Statuses  == {200, 201, 204, 400, 401, 403, 404, 409, 413, 429, 500, 503}

\* What the phase of a request q says of its route and its user; D are the ids of the
\* rows there are.
Placed(q, D) ==
  /\ q.phase \in {"create", "save"} => q.ask.route = "create"
  /\ q.phase \in {"patch", "write", "reread"} => q.ask.route = "patch"
  /\ q.phase = "remove" => q.ask.route = "remove"
  /\ q.phase \in {"upload", "put"} => q.ask.route = "upload"
  /\ q.phase = "probe" => q.ask.route = "ready"
  /\ q.phase \in InHandler => q.user # NoUser
  /\ q.phase \in {"write", "reread"} => q.ask.id \in D

AllPlaced == \A r \in Requests : Placed(requests[r], DOMAIN tenants)

TypeInv == TypeOK /\ AllPlaced

LEMMA Shapes ==
  ASSUME TypeOK, NEW r \in Requests
  PROVE  /\ requests[r] \in Request
         /\ ~Is(r, "none") => Asked(r) \in Asks
         /\ requests[r].phase \in {"session", "lookup", "guards"}
              => requests[r].by \in Users \cup {Nobody}
         /\ requests[r].phase \in WithUser \cup {"answered"} => requests[r].user \in User
         /\ Is(r, "write") => requests[r].row \in Row
         /\ Is(r, "put") => requests[r].waiting \in SUBSET PartNames
         /\ Is(r, "probe") => /\ requests[r].waiting \in SUBSET Dependencies
                              /\ requests[r].failed \in BOOLEAN
         /\ Is(r, "answered") => requests[r].status \in Statuses
<1>1. requests[r] \in Request
  BY DEF TypeOK
<1>2. QED
  BY <1>1 DEF Request, Is, Asked, WithUser, InHandler, Statuses

\* What the routes let a client ask for.
LEMMA AskShapes ==
  ASSUME NEW a \in Asks
  PROVE  /\ a.route \in {"ready", "create", "patch", "remove", "upload"}
         /\ a.route = "create" => a.document \in Documents
         /\ a.route = "patch" => /\ a.id \in Tenants
                                 /\ a.name \in Names \cup {Absent}
                                 /\ a.isActive \in BOOLEAN \cup {Absent}
         /\ a.route = "remove" => a.id \in Tenants
         /\ a.route = "upload" => /\ a.file.declared \in {"image", "pdf", "other"}
                                  /\ a.file.detected \in {"image", "pdf", "other"}
<1>1. a \in Ask
  BY AskAssumption
<1>2. QED
  BY <1>1 DEF Ask

LEMMA StatusOf ==
  ASSUME NEW n
  PROVE  Status(Domain(n)) = n /\ Status(Http(n)) = n /\ Status(Unknown) = 500
BY DEF Status, Domain, Http, Unknown

\* One request becomes q, the others stay as they are, and no row disappears.
LEMMA MoveType ==
  ASSUME TypeInv, NEW r \in Requests, NEW q \in Request, Placed(q, DOMAIN tenants'),
         requests' = [requests EXCEPT ![r] = q], DOMAIN tenants \subseteq DOMAIN tenants'
  PROVE  requests' \in [Requests -> Request] /\ AllPlaced'
<1>1. \A s \in Requests : requests'[s] = IF s = r THEN q ELSE requests[s]
  BY DEF TypeInv, TypeOK
<1>2. requests' \in [Requests -> Request]
  BY DEF TypeInv, TypeOK
<1>3. \A s \in Requests : Placed(requests[s], DOMAIN tenants')
  BY DEF TypeInv, AllPlaced, Placed
<1>4. QED
  BY <1>1, <1>2, <1>3 DEF AllPlaced

LEMMA AnswerType ==
  ASSUME TypeInv, NEW r \in Requests, requests[r].phase \in WithUser,
         NEW status \in Statuses, Answered(r, status), DOMAIN tenants \subseteq DOMAIN tenants'
  PROVE  requests' \in [Requests -> Request] /\ AllPlaced'
<1> DEFINE q == [phase |-> "answered", ask |-> requests[r].ask, user |-> requests[r].user,
                 status |-> status]
<1>1. requests' = [requests EXCEPT ![r] = q]
  BY DEF Answered
<1>2. requests[r].ask \in Asks /\ requests[r].user \in User
  BY Shapes DEF TypeInv, WithUser, InHandler, Is, Asked
<1>3. q \in Request
  BY <1>2 DEF Request, Statuses
<1>4. Placed(q, DOMAIN tenants')
  BY DEF Placed, InHandler
<1>5. QED
  BY <1>1, <1>3, <1>4, MoveType

---------------------------------------------------------------------------
(* The table of tenants.                                                   *)

TableOK ==
  /\ DOMAIN tenants \subseteq Tenants /\ tenants \in [DOMAIN tenants -> Row]
  /\ \A t, u \in DOMAIN tenants :
       Live(t) /\ Live(u) /\ tenants[t].document = tenants[u].document => t = u

\* A row that is written is new and has a document that is free, or keeps its document
\* and is not brought back.
Writable(t, row) ==
  \/ t \notin DOMAIN tenants /\ ~Taken(row.document)
  \/ /\ t \in DOMAIN tenants /\ row.document = tenants[t].document
     /\ tenants[t].deleted => row.deleted

LEMMA WriteType ==
  ASSUME TypeOK, NEW r \in Requests, NEW t \in Tenants, NEW row \in Row,
         Writable(t, row), Write(r, t, row)
  PROVE  /\ TableOK' /\ changed' \subseteq Requests /\ raced' \subseteq Requests
         /\ DOMAIN tenants' = DOMAIN tenants \cup {t}
         /\ \A u \in DOMAIN tenants' : tenants'[u] = IF u = t THEN row ELSE tenants[u]
<1>1. tenants' = [u \in DOMAIN tenants \cup {t} |-> IF u = t THEN row ELSE tenants[u]]
  BY DEF Write, With
<1>2. /\ DOMAIN tenants' = DOMAIN tenants \cup {t}
      /\ \A u \in DOMAIN tenants' : tenants'[u] = IF u = t THEN row ELSE tenants[u]
  BY <1>1
<1>3. DOMAIN tenants' \subseteq Tenants /\ tenants' \in [DOMAIN tenants' -> Row]
  BY <1>1 DEF TypeOK
<1>4. ASSUME NEW u \in DOMAIN tenants, u # t, ~row.deleted, ~tenants[u].deleted
      PROVE  row.document # tenants[u].document
  BY <1>4 DEF Writable, Taken, Live, TypeOK
<1>5. \A u, v \in DOMAIN tenants' :
        ~tenants'[u].deleted /\ ~tenants'[v].deleted
          /\ tenants'[u].document = tenants'[v].document => u = v
  BY <1>2, <1>4 DEF TypeOK, Live
<1>6. changed' \subseteq Requests /\ raced' \subseteq Requests
  BY DEF Write, Racing, TypeOK
<1>7. QED
  BY <1>2, <1>3, <1>5, <1>6 DEF TableOK, Live

\* Rows that the handlers write.
LEMMA HandlersWriteRows ==
  ASSUME TypeInv, NEW r \in Requests
  PROVE  /\ Is(r, "save") /\ ~Taken(Asked(r).document)
              => \A t \in Tenants \ DOMAIN tenants :
                   NewRow(r) \in Row /\ Writable(t, NewRow(r))
         /\ Is(r, "write") =>
              /\ Asked(r).id \in Tenants /\ Updated(r) \in Row
              /\ Writable(Asked(r).id, Updated(r))
              /\ Updated(r).deleted = tenants[Asked(r).id].deleted
         /\ Is(r, "remove") /\ Asked(r).id \in DOMAIN tenants =>
              LET row == [tenants[Asked(r).id] EXCEPT !.deleted = TRUE]
              IN Asked(r).id \in Tenants /\ row \in Row /\ Writable(Asked(r).id, row)
<1> DEFINE t == Asked(r).id
           gone == [tenants[t] EXCEPT !.deleted = TRUE]
<1>1. ~Is(r, "none") => Asked(r) \in Asks
  BY Shapes DEF TypeInv
<1>2. CASE Is(r, "save")
  <2>1. Asked(r).document \in Documents
    BY <1>1, <1>2, AskShapes DEF TypeInv, AllPlaced, Placed, Is, Asked
  <2>2. NewRow(r) \in Row /\ NewRow(r).document = Asked(r).document
    BY <2>1, TenantAssumption DEF NewRow, Row
  <2>3. QED
    BY <1>2, <2>2 DEF Writable, Is
<1>3. CASE Is(r, "write")
  <2>1. t \in DOMAIN tenants /\ t \in Tenants /\ tenants[t] \in Row /\ requests[r].row \in Row
    BY <1>3, Shapes DEF TypeInv, TypeOK, AllPlaced, Placed, Is, Asked
  <2>2. /\ Updated(r) \in Row /\ Updated(r).document = tenants[t].document
        /\ Updated(r).deleted = tenants[t].deleted
    BY <2>1 DEF Updated, Row
  <2>3. QED
    BY <1>3, <2>1, <2>2 DEF Writable, Is
<1>4. CASE Is(r, "remove") /\ t \in DOMAIN tenants
  <2>1. t \in Tenants /\ tenants[t] \in Row
    BY <1>4 DEF TypeInv, TypeOK
  <2>2. gone \in Row /\ gone.document = tenants[t].document /\ gone.deleted
    BY <2>1 DEF Row
  <2>3. QED
    BY <1>4, <2>1, <2>2 DEF Writable, Is
<1>5. QED
  BY <1>2, <1>3, <1>4

---------------------------------------------------------------------------
(* Types.                                                                  *)

StoredOK ==
  /\ inactive \subseteq Members
  /\ sent \subseteq Objects /\ bucket \subseteq Objects
  /\ saving \subseteq Records /\ auditLog \subseteq Records

HistoryOK ==
  /\ seen \in [Requests -> SUBSET {"active", "inactive"}]
  /\ changed \subseteq Requests /\ faulted \subseteq Requests /\ raced \subseteq Requests

LEMMA TypeParts ==
  TypeOK <=> requests \in [Requests -> Request] /\ TableOK /\ StoredOK /\ HistoryOK
BY DEF TypeOK, TableOK, StoredOK, HistoryOK

LEMMA ObserveType ==
  ASSUME seen \in [Requests -> SUBSET {"active", "inactive"}], Observe
  PROVE  seen' \in [Requests -> SUBSET {"active", "inactive"}]
<1>1. \A r \in Requests : seen[r] \subseteq {"active", "inactive"}
  OBVIOUS
<1>2. \A r \in Requests : seen'[r] \subseteq {"active", "inactive"}
  BY <1>1 DEF Observe
<1>3. QED
  BY <1>2 DEF Observe

\* The user that the middleware finds, and the record of a request of his.
LEMMA FoundUsers ==
  ASSUME NEW u \in Users \cup {Nobody}
  PROVE  /\ NoUser \in User
         /\ ActiveUser(u) =>
              [userId |-> u, tenantId |-> TenantOf[u], role |-> RoleOf[u]] \in User
         /\ [userId |-> "superadmin", tenantId |-> NoTenant, role |-> "SUPERADMIN"] \in User
<1>1. ActiveUser(u) =>
        u \in Users /\ TenantOf[u] \in Tenants /\ RoleOf[u] \in {"ADMIN", "USER"}
  BY UserAssumption, TenantAssumption DEF ActiveUser, Members
<1>2. QED
  BY <1>1 DEF User

LEMMA RecordType ==
  ASSUME TypeInv, NEW r \in Requests, requests[r].phase \in InHandler,
         NEW e \in Tenants \cup {"unknown"}
  PROVE  Record(r, e) \in Records
<1>1. requests[r].user \in User /\ requests[r].user # NoUser
  BY Shapes DEF TypeInv, AllPlaced, Placed, WithUser
<1>2. /\ requests[r].user.userId \in Users \cup {"superadmin"}
      /\ requests[r].user.tenantId \in Tenants \cup {NoTenant}
  BY <1>1 DEF User
<1>3. QED
  BY <1>2 DEF Record, Records

\* A successful answer.
LEMMA SucceedType ==
  ASSUME TypeInv, NEW r \in Requests, requests[r].phase \in InHandler,
         NEW status \in Statuses, NEW e \in Tenants \cup {"unknown"}, Succeed(r, status, e),
         DOMAIN tenants \subseteq DOMAIN tenants'
  PROVE  /\ requests' \in [Requests -> Request] /\ AllPlaced'
         /\ saving' \subseteq Records
<1>1. saving' \subseteq Records
  BY RecordType DEF Succeed, TypeInv, TypeOK
<1>2. QED
  BY <1>1, AnswerType DEF Succeed, WithUser

\* A step that changes nothing but one request and, it may be, what met a failure.
Plain(r) == UNCHANGED <<tenants, stored, changed, raced>> /\ faulted' \subseteq faulted \cup {r}

LEMMA PlainType ==
  ASSUME TypeInv, Observe, NEW r \in Requests, Plain(r),
         requests' \in [Requests -> Request], AllPlaced'
  PROVE  TypeInv'
<1>1. TableOK'
  BY TypeParts DEF TypeInv, Plain, TableOK, Live
<1>2. StoredOK'
  BY TypeParts DEF TypeInv, Plain, stored, StoredOK
<1>3. HistoryOK'
  BY ObserveType, TypeParts DEF TypeInv, Plain, HistoryOK
<1>4. TypeOK'
  BY <1>1, <1>2, <1>3 DEF TypeOK, TableOK, StoredOK, HistoryOK
<1>5. QED
  BY <1>4 DEF TypeInv

LEMMA RefuseType ==
  ASSUME TypeInv, Observe, NEW r \in Requests, Plain(r), requests[r].phase \in WithUser,
         NEW status \in Statuses, Answered(r, status)
  PROVE  TypeInv'
BY AnswerType, PlainType DEF Plain

LEMMA MoveIsPlain ==
  ASSUME TypeInv, Observe, NEW r \in Requests, Plain(r), NEW q \in Request,
         Placed(q, DOMAIN tenants), requests' = [requests EXCEPT ![r] = q]
  PROVE  TypeInv'
<1>1. tenants' = tenants
  BY DEF Plain
<1>2. requests' \in [Requests -> Request] /\ AllPlaced'
  BY <1>1, MoveType
<1>3. QED
  BY <1>2, PlainType

LEMMA ResolutionType ==
  ASSUME TypeInv, Observe, NEW r \in Requests, Resolution(r)
  PROVE  TypeInv'
<1> DEFINE by   == requests[r].by
           ask  == requests[r].ask
           user == requests[r].user
<1>1. requests[r].phase \in {"session", "lookup"} => ask \in Asks /\ by \in Users \cup {Nobody}
  BY Shapes DEF TypeInv, Is, Asked
<1>2. requests[r].phase \in WithUser => ask \in Asks /\ user \in User
  BY Shapes DEF TypeInv, Is, Asked, WithUser, InHandler
<1>3. ASSUME NEW b \in Users \cup {Nobody}, NEW a \in Asks, Arrive(r, b, a)
      PROVE  TypeInv'
  <2> DEFINE q == [phase |-> "session", ask |-> a, by |-> b]
  <2>1. q \in Request /\ Placed(q, DOMAIN tenants)
    BY DEF Request, Placed, InHandler
  <2>2. Plain(r) /\ requests' = [requests EXCEPT ![r] = q]
    BY <1>3 DEF Arrive, Plain
  <2>3. QED
    BY <2>1, <2>2, MoveIsPlain
<1>4. CASE SessionFound(r)
  <2> DEFINE q == [requests[r] EXCEPT !.phase = "lookup"]
  <2>1. Is(r, "session") /\ Plain(r) /\ requests' = [requests EXCEPT ![r] = q]
    BY <1>4 DEF SessionFound, Plain
  <2>2. requests[r] \in [phase : {"session", "lookup"}, ask : Asks, by : Users \cup {Nobody}]
    BY <2>1 DEF TypeInv, TypeOK, Request, Is
  <2>3. q \in [phase : {"session", "lookup"}, ask : Asks, by : Users \cup {Nobody}]
        /\ q.phase = "lookup"
    BY <2>2
  <2>4. q \in Request /\ Placed(q, DOMAIN tenants)
    BY <2>3 DEF Request, Placed, InHandler
  <2>5. QED
    BY <2>1, <2>4, MoveIsPlain
<1>5. CASE SessionMissing(r)
  <2> DEFINE q == [phase |-> "guards", ask |-> ask, by |-> Nobody, user |-> NoUser]
  <2>1. Is(r, "session") /\ Plain(r) /\ requests' = [requests EXCEPT ![r] = q]
    BY <1>5 DEF SessionMissing, Plain
  <2>2. q \in Request /\ Placed(q, DOMAIN tenants)
    BY <1>1, <2>1 DEF Request, Placed, InHandler, User, Is
  <2>3. QED
    BY <2>1, <2>2, MoveIsPlain
<1>6. ASSUME NEW found \in User, Is(r, "lookup"), Plain(r), Resolved(r, found)
      PROVE  TypeInv'
  <2> DEFINE q == [phase |-> "guards", ask |-> ask, by |-> by, user |-> found]
  <2>1. requests' = [requests EXCEPT ![r] = q]
    BY <1>6 DEF Resolved
  <2>2. q \in Request /\ Placed(q, DOMAIN tenants)
    BY <1>1, <1>6 DEF Request, Placed, InHandler, Is
  <2>3. QED
    BY <1>6, <2>1, <2>2, MoveIsPlain
<1>7. CASE LookUp(r) \/ LookUpFails(r)
  <2>1. Is(r, "lookup") /\ Plain(r)
    BY <1>7 DEF LookUp, LookUpFails, Plain
  <2>2. by \in Users \cup {Nobody}
    BY <1>1, <2>1 DEF Is
  <2>3. \E found \in User : Resolved(r, found)
    BY <1>7, <2>2, FoundUsers DEF LookUp, LookUpFails
  <2>4. QED
    BY <1>6, <2>1, <2>3
<1>8. CASE GuardsRefuse(r)
  <2>1. Is(r, "guards") /\ Plain(r)
    BY <1>8 DEF GuardsRefuse, Plain
  <2>2. \E status \in {401, 403, 429} : Answered(r, status)
    BY <1>8, StatusOf DEF GuardsRefuse, Refuse
  <2>3. QED
    BY <2>1, <2>2, RefuseType DEF Statuses, WithUser, Is
<1>9. CASE GuardsPass(r)
  <2> DEFINE q == Handling(ask.route, ask, user)
  <2>1. Is(r, "guards") /\ Plain(r) /\ requests' = [requests EXCEPT ![r] = q]
        /\ (Public(ask.route) \/ user # NoUser)
    BY <1>9 DEF GuardsPass, Plain, Asked
  <2>2. ask \in Asks /\ user \in User
    BY <1>2, <2>1 DEF Is, WithUser
  <2>3. ask.route \in {"ready", "create", "patch", "remove", "upload"}
    BY <2>2, AskShapes
  <2>4. q \in Request
    BY <2>2, <2>3 DEF Request, Handling
  <2>5. Placed(q, DOMAIN tenants)
    BY <2>1, <2>3 DEF Placed, Handling, InHandler, Public
  <2>6. QED
    BY <2>1, <2>4, <2>5, MoveIsPlain
<1>10. CASE PipesRefuse(r)
  <2>1. requests[r].phase \in WithUser /\ Plain(r) /\ Answered(r, 400)
    BY <1>10, StatusOf DEF PipesRefuse, Plain, WithUser, InHandler, Refuse
  <2>2. QED
    BY <2>1, RefuseType DEF Statuses
<1>11. QED
  BY <1>3, <1>4, <1>5, <1>7, <1>8, <1>9, <1>10 DEF Resolution

\* A step that writes a row, and whose request and records are of their types.
LEMMA WritingType ==
  ASSUME TypeInv, Observe, NEW r \in Requests,
         NEW t \in Tenants, NEW row \in Row, Writable(t, row), Write(r, t, row),
         requests' \in [Requests -> Request], AllPlaced', saving' \subseteq Records,
         UNCHANGED <<inactive, sent, bucket, auditLog>>, faulted' \subseteq faulted \cup {r}
  PROVE  TypeInv'
<1>1. TableOK' /\ changed' \subseteq Requests /\ raced' \subseteq Requests
  BY WriteType DEF TypeInv
<1>2. StoredOK'
  BY TypeParts DEF TypeInv, StoredOK
<1>3. HistoryOK'
  BY <1>1, ObserveType, TypeParts DEF TypeInv, HistoryOK
<1>4. TypeOK'
  BY <1>1, <1>2, <1>3 DEF TypeOK, TableOK, StoredOK, HistoryOK
<1>5. QED
  BY <1>4 DEF TypeInv

\* An answer that succeeds and writes no row.
LEMMA AnsweringType ==
  ASSUME TypeInv, Observe, NEW r \in Requests, requests[r].phase \in InHandler,
         NEW status \in Statuses, NEW e \in Tenants \cup {"unknown"}, Succeed(r, status, e),
         UNCHANGED <<tenants, inactive, sent, bucket, auditLog, changed, faulted, raced>>
  PROVE  TypeInv'
<1>1. requests' \in [Requests -> Request] /\ AllPlaced' /\ saving' \subseteq Records
  BY SucceedType
<1>2. TableOK'
  BY TypeParts DEF TypeInv, TableOK, Live
<1>3. StoredOK'
  BY <1>1, TypeParts DEF TypeInv, StoredOK
<1>4. HistoryOK'
  BY ObserveType, TypeParts DEF TypeInv, HistoryOK
<1>5. TypeOK'
  BY <1>1, <1>2, <1>3, <1>4 DEF TypeOK, TableOK, StoredOK, HistoryOK
<1>6. QED
  BY <1>1, <1>5 DEF TypeInv

LEMMA PatchedType ==
  ASSUME NEW row \in Row, NEW ask, ask.name \in Names \cup {Absent},
         ask.isActive \in BOOLEAN \cup {Absent}
  PROVE  Patched(row, ask) \in Row
<1>1. (IF ask.name = Absent THEN row.name ELSE ask.name) \in Names
  BY DEF Row
<1>2. (IF ask.isActive = Absent THEN row.isActive ELSE ask.isActive) \in BOOLEAN
  BY DEF Row
<1>3. QED
  BY <1>1, <1>2 DEF Patched, Row

LEMMA TenantRouteType ==
  ASSUME TypeInv, Observe, NEW r \in Requests, TenantRoute(r)
  PROVE  TypeInv'
<1> DEFINE ask  == requests[r].ask
           user == requests[r].user
           t    == ask.id
<1>1. requests[r].phase \in WithUser => ask \in Asks /\ user \in User
  BY Shapes DEF TypeInv, Is, Asked, WithUser, InHandler
<1>2. Placed(requests[r], DOMAIN tenants)
  BY DEF TypeInv, AllPlaced
<1>3. CASE CreateFinds(r)
  <2>1. Is(r, "create") /\ Plain(r)
    BY <1>3 DEF CreateFinds, Plain
  <2>2. CASE Taken(ask.document)
    <3>1. Answered(r, 409)
      BY <1>3, <2>2, StatusOf DEF CreateFinds, Refuse, Asked
    <3>2. QED
      BY <2>1, <3>1, RefuseType DEF Statuses, WithUser, InHandler, Is
  <2>3. CASE ~Taken(ask.document)
    <3> DEFINE q == [requests[r] EXCEPT !.phase = "save"]
    <3>1. requests' = [requests EXCEPT ![r] = q]
      BY <1>3, <2>3 DEF CreateFinds, Asked
    <3>2. requests[r] \in [phase : {"create", "save", "patch", "reread", "remove", "upload"},
                           ask : Asks, user : User]
      BY <2>1 DEF TypeInv, TypeOK, Request, Is
    <3>3. q \in [phase : {"create", "save", "patch", "reread", "remove", "upload"},
                 ask : Asks, user : User]
          /\ q.phase = "save" /\ q.ask = ask /\ q.user = user
      BY <3>2
    <3>4. q \in Request
      BY <3>3 DEF Request
    <3>5. Placed(q, DOMAIN tenants)
      BY <1>2, <2>1, <3>3 DEF Placed, InHandler, Is
    <3>6. QED
      BY <2>1, <3>1, <3>4, <3>5, MoveIsPlain
  <2>4. QED
    BY <2>2, <2>3
<1>4. CASE CreateSaves(r)
  <2>1. Is(r, "save") /\ ~Taken(Asked(r).document)
    BY <1>4 DEF CreateSaves
  <2>2. PICK n \in Tenants \ DOMAIN tenants : Write(r, n, NewRow(r)) /\ Succeed(r, 201, n)
    BY <1>4 DEF CreateSaves
  <2>3. NewRow(r) \in Row /\ Writable(n, NewRow(r))
    BY <2>1, HandlersWriteRows
  <2>4. DOMAIN tenants \subseteq DOMAIN tenants'
    BY <2>2, <2>3, WriteType DEF TypeInv
  <2>5. requests' \in [Requests -> Request] /\ AllPlaced' /\ saving' \subseteq Records
    BY <2>1, <2>2, <2>4, SucceedType DEF Statuses, InHandler, Is
  <2>6. QED
    BY <1>4, <2>2, <2>3, <2>5, WritingType DEF CreateSaves
<1>5. CASE CreateCollides(r)
  <2>1. requests[r].phase \in WithUser /\ Plain(r) /\ Answered(r, 500)
    BY <1>5, StatusOf DEF CreateCollides, Plain, WithUser, InHandler, Refuse, Is
  <2>2. QED
    BY <2>1, RefuseType DEF Statuses
<1>6. CASE PatchFinds(r)
  <2>1. Is(r, "patch") /\ Plain(r)
    BY <1>6 DEF PatchFinds, Plain
  <2>2. CASE Live(t)
    <3> DEFINE q == [phase |-> "write", ask |-> ask, user |-> user,
                     row |-> Patched(tenants[t], ask)]
    <3>1. requests' = [requests EXCEPT ![r] = q]
      BY <1>6, <2>2 DEF PatchFinds, Asked
    <3>2. ask \in Asks /\ user \in User /\ ask.route = "patch" /\ user # NoUser
      BY <1>1, <1>2, <2>1 DEF Is, Placed, WithUser, InHandler
    <3>3. t \in DOMAIN tenants /\ tenants[t] \in Row
      BY <2>2 DEF Live, TypeInv, TypeOK
    <3>4. Patched(tenants[t], ask) \in Row
      BY <3>2, <3>3, AskShapes, PatchedType
    <3>5. q \in Request
      BY <3>2, <3>4 DEF Request
    <3>6. Placed(q, DOMAIN tenants)
      BY <3>2, <3>3 DEF Placed
    <3>7. QED
      BY <2>1, <3>1, <3>5, <3>6, MoveIsPlain
  <2>3. CASE ~Live(t)
    <3>1. Answered(r, 404)
      BY <1>6, <2>3, StatusOf DEF PatchFinds, Refuse, Asked
    <3>2. QED
      BY <2>1, <3>1, RefuseType DEF Statuses, WithUser, InHandler, Is
  <2>4. QED
    BY <2>2, <2>3
<1>7. CASE PatchWrites(r)
  <2> DEFINE q == [phase |-> "reread", ask |-> ask, user |-> user]
  <2>1. /\ Is(r, "write") /\ Write(r, t, Updated(r)) /\ UNCHANGED <<stored, faulted>>
        /\ requests' = [requests EXCEPT ![r] = q]
    BY <1>7 DEF PatchWrites, Asked
  <2>2. t \in Tenants /\ Updated(r) \in Row /\ Writable(t, Updated(r))
    BY <2>1, HandlersWriteRows DEF Asked
  <2>3. DOMAIN tenants \subseteq DOMAIN tenants'
    BY <2>1, <2>2, WriteType DEF TypeInv
  <2>4. q \in Request
    BY <1>1, <2>1 DEF Request, Is, WithUser, InHandler
  <2>5. Placed(q, DOMAIN tenants')
    BY <1>2, <2>1, <2>3 DEF Placed, InHandler, Is
  <2>6. requests' \in [Requests -> Request] /\ AllPlaced'
    BY <2>1, <2>3, <2>4, <2>5, MoveType
  <2>7. saving' \subseteq Records /\ UNCHANGED <<inactive, sent, bucket, auditLog>>
    BY <2>1 DEF stored, TypeInv, TypeOK
  <2>8. QED
    BY <2>1, <2>2, <2>6, <2>7, WritingType
<1>8. CASE PatchRereads(r)
  <2>1. Is(r, "reread")
    BY <1>8 DEF PatchRereads
  <2>2. CASE Live(t)
    <3>1. t \in Tenants
      BY <2>2 DEF Live, TypeInv, TypeOK
    <3>2. Succeed(r, 200, t)
      BY <1>8, <2>2 DEF PatchRereads, Asked
    <3>3. QED
      BY <1>8, <2>1, <3>1, <3>2, AnsweringType DEF PatchRereads, Statuses, InHandler, Is
  <2>3. CASE ~Live(t)
    <3>1. Plain(r) /\ Answered(r, 500)
      BY <1>8, <2>3, StatusOf DEF PatchRereads, Plain, stored, Refuse, Asked
    <3>2. QED
      BY <2>1, <3>1, RefuseType DEF Statuses, WithUser, InHandler, Is
  <2>4. QED
    BY <2>2, <2>3
<1>9. CASE Remove(r)
  <2> DEFINE row == [tenants[t] EXCEPT !.deleted = TRUE]
  <2>1. /\ Is(r, "remove") /\ Succeed(r, 204, t)
        /\ UNCHANGED <<inactive, sent, bucket, auditLog, faulted>>
    BY <1>9 DEF Remove, Asked
  <2>2. t \in Tenants
    BY <1>1, <1>2, <2>1, AskShapes DEF Placed, Is, WithUser, InHandler
  <2>3. CASE t \in DOMAIN tenants
    <3>1. Write(r, t, row) /\ row \in Row /\ Writable(t, row)
      BY <1>9, <2>1, <2>3, HandlersWriteRows DEF Remove, Asked
    <3>2. DOMAIN tenants \subseteq DOMAIN tenants'
      BY <2>2, <3>1, WriteType DEF TypeInv
    <3>3. requests' \in [Requests -> Request] /\ AllPlaced' /\ saving' \subseteq Records
      BY <2>1, <2>2, <3>2, SucceedType DEF Statuses, InHandler, Is
    <3>4. QED
      BY <2>1, <2>2, <3>1, <3>3, WritingType
  <2>4. CASE t \notin DOMAIN tenants
    <3>1. UNCHANGED <<tenants, changed, raced>>
      BY <1>9, <2>4 DEF Remove, Asked
    <3>2. QED
      BY <2>1, <2>2, <3>1, AnsweringType DEF Statuses, InHandler, Is
  <2>5. QED
    BY <2>3, <2>4
<1>10. CASE StatementFails(r)
  <2>1. /\ requests[r].phase \in WithUser /\ Answered(r, 500)
        /\ faulted' = faulted \cup {r} /\ UNCHANGED stored
    BY <1>10, StatusOf DEF StatementFails, Refuse, WithUser, InHandler
  <2>2. CASE UNCHANGED <<tenants, changed, raced>>
    BY <2>1, <2>2, RefuseType DEF Plain, Statuses
  <2>3. ASSUME NEW u \in Tenants, NEW row \in Row, Writable(u, row), Write(r, u, row)
        PROVE  TypeInv'
    <3>1. DOMAIN tenants \subseteq DOMAIN tenants'
      BY <2>3, WriteType DEF TypeInv
    <3>2. requests' \in [Requests -> Request] /\ AllPlaced'
      BY <2>1, <3>1, AnswerType DEF Statuses
    <3>3. saving' \subseteq Records /\ UNCHANGED <<inactive, sent, bucket, auditLog>>
      BY <2>1 DEF stored, TypeInv, TypeOK
    <3>4. QED
      BY <2>1, <2>3, <3>2, <3>3, WritingType
  <2>4. QED
    BY <1>10, <2>2, <2>3, HandlersWriteRows DEF StatementFails, Asked
<1>11. QED
  BY <1>3, <1>4, <1>5, <1>6, <1>7, <1>8, <1>9, <1>10 DEF TenantRoute

LEMMA PartsOf ==
  ASSUME NEW file
  PROVE  Parts(file) \in SUBSET PartNames /\ Parts(file) # {}
BY DEF Parts, PartNames

LEMMA UploadRouteType ==
  ASSUME TypeInv, Observe, NEW r \in Requests, UploadRoute(r)
  PROVE  TypeInv'
<1> DEFINE ask  == requests[r].ask
           user == requests[r].user
<1>1. requests[r].phase \in WithUser => ask \in Asks /\ user \in User
  BY Shapes DEF TypeInv, Is, Asked, WithUser, InHandler
<1>2. Placed(requests[r], DOMAIN tenants)
  BY DEF TypeInv, AllPlaced
<1>3. CASE BodyRefused(r) \/ UploadRefused(r) \/ PutFails(r)
  <2>1. requests[r].phase \in WithUser /\ Plain(r)
    BY <1>3 DEF BodyRefused, UploadRefused, PutFails, Plain, WithUser, InHandler, Is
  <2>2. \E status \in {400, 413, 500} : Answered(r, status)
    BY <1>3, StatusOf DEF BodyRefused, UploadRefused, PutFails, Refuse
  <2>3. QED
    BY <2>1, <2>2, RefuseType DEF Statuses
<1>4. CASE UploadStarts(r)
  <2> DEFINE parts == Parts(Asked(r).file)
             q == [phase |-> "put", ask |-> ask, user |-> user, waiting |-> parts]
             new == {Object(r, part) : part \in parts}
  <2>1. /\ Is(r, "upload") /\ user.tenantId # NoTenant
        /\ requests' = [requests EXCEPT ![r] = q] /\ sent' = sent \cup new
        /\ UNCHANGED <<tenants, inactive, bucket, saving, auditLog, changed, faulted, raced>>
    BY <1>4 DEF UploadStarts, Asked
  <2>2. ask \in Asks /\ user \in User /\ user # NoUser /\ ask.route = "upload"
    BY <1>1, <1>2, <2>1 DEF Is, Placed, WithUser, InHandler
  <2>3. parts \in SUBSET PartNames
    BY PartsOf
  <2> HIDE DEF parts
  <2>4. q \in Request
    BY <2>2, <2>3 DEF Request
  <2>5. Placed(q, DOMAIN tenants')
    BY <2>2 DEF Placed
  <2>6. requests' \in [Requests -> Request] /\ AllPlaced'
    BY <2>1, <2>4, <2>5, MoveType
  <2>7. user.tenantId \in Tenants
    BY <2>1, <2>2 DEF User
  <2>8. new \subseteq Objects
    BY <2>3, <2>7 DEF Object, Objects
  <2>9. TableOK'
    BY <2>1, TypeParts DEF TypeInv, TableOK, Live
  <2>10. StoredOK'
    BY <2>1, <2>8, TypeParts DEF TypeInv, StoredOK
  <2>11. HistoryOK'
    BY <2>1, ObserveType, TypeParts DEF TypeInv, HistoryOK
  <2>12. TypeOK'
    BY <2>6, <2>9, <2>10, <2>11 DEF TypeOK, TableOK, StoredOK, HistoryOK
  <2>13. QED
    BY <2>6, <2>12 DEF TypeInv
<1>5. ASSUME NEW part, PutEnds(r, part)
      PROVE  TypeInv'
  <2>1. Is(r, "put")
    BY <1>5 DEF PutEnds
  <2>2. CASE requests[r].waiting = {part}
    <3>1. /\ Succeed(r, 201, "unknown")
          /\ UNCHANGED <<tenants, inactive, sent, bucket, auditLog, changed, faulted, raced>>
      BY <1>5, <2>2 DEF PutEnds
    <3>2. QED
      BY <2>1, <3>1, AnsweringType DEF Statuses, InHandler, Is
  <2>3. CASE requests[r].waiting # {part}
    <3> DEFINE q == [requests[r] EXCEPT !.waiting = @ \ {part}]
    <3>1. Plain(r) /\ requests' = [requests EXCEPT ![r] = q]
      BY <1>5, <2>3 DEF PutEnds, Plain, stored
    <3>2. requests[r] \in [phase : {"put"}, ask : Asks, user : User, waiting : SUBSET PartNames]
      BY <2>1 DEF TypeInv, TypeOK, Request, Is
    <3>3. /\ q \in [phase : {"put"}, ask : Asks, user : User, waiting : SUBSET PartNames]
          /\ q.ask = ask /\ q.user = user
      BY <3>2
    <3>4. q \in Request
      BY <3>3 DEF Request
    <3>5. Placed(q, DOMAIN tenants)
      BY <1>2, <2>1, <3>3 DEF Placed, InHandler, Is
    <3>6. QED
      BY <3>1, <3>4, <3>5, MoveIsPlain
  <2>4. QED
    BY <2>2, <2>3
<1>6. QED
  BY <1>3, <1>4, <1>5 DEF UploadRoute

LEMMA ReadyRouteType ==
  ASSUME TypeInv, Observe, NEW r \in Requests, ReadyRoute(r)
  PROVE  TypeInv'
<1>1. PICK d \in Dependencies, up \in BOOLEAN : ProbeEnds(r, d, up)
  BY DEF ReadyRoute, ProbeTimesOut
<1> DEFINE failed == requests[r].failed \/ ~up
           status == IF failed THEN 503 ELSE 200
<1>2. Is(r, "probe") /\ Plain(r)
  BY <1>1 DEF ProbeEnds, Plain
<1>3. requests[r] \in [phase : {"probe"}, ask : Asks, user : User,
                       waiting : SUBSET Dependencies, failed : BOOLEAN]
  BY <1>2 DEF TypeInv, TypeOK, Request, Is
<1>4. CASE requests[r].waiting = {d}
  <2>1. Answered(r, status)
    BY <1>1, <1>4 DEF ProbeEnds
  <2>2. status \in Statuses
    BY DEF Statuses
  <2>3. QED
    BY <1>2, <2>1, <2>2, RefuseType DEF WithUser, Is
<1>5. CASE requests[r].waiting # {d}
  <2> DEFINE q == [requests[r] EXCEPT !.waiting = @ \ {d}, !.failed = failed]
  <2>1. requests' = [requests EXCEPT ![r] = q]
    BY <1>1, <1>5 DEF ProbeEnds
  <2>2. failed \in BOOLEAN
    OBVIOUS
  <2> HIDE DEF failed
  <2>3. /\ q \in [phase : {"probe"}, ask : Asks, user : User,
                   waiting : SUBSET Dependencies, failed : BOOLEAN]
        /\ q.ask = requests[r].ask
    BY <1>3, <2>2
  <2>4. q \in Request
    BY <2>3 DEF Request
  <2>5. Placed(requests[r], DOMAIN tenants)
    BY DEF TypeInv, AllPlaced
  <2>6. Placed(q, DOMAIN tenants)
    BY <1>2, <2>3, <2>5 DEF Placed, InHandler, Is
  <2>7. QED
    BY <1>2, <2>1, <2>4, <2>6, MoveIsPlain
<1>6. QED
  BY <1>4, <1>5

\* What goes on without the request: tables other than that of tenants are written.
Aside == UNCHANGED <<requests, tenants, changed, raced>>

LEMMA AsideType ==
  ASSUME TypeInv, Observe, Aside, StoredOK', faulted' \subseteq Requests
  PROVE  TypeInv'
<1>1. requests' \in [Requests -> Request] /\ AllPlaced'
  BY DEF TypeInv, TypeOK, AllPlaced, Aside
<1>2. TableOK'
  BY TypeParts DEF TypeInv, TableOK, Live, Aside
<1>3. HistoryOK'
  BY ObserveType, TypeParts DEF TypeInv, HistoryOK, Aside
<1>4. TypeOK'
  BY <1>1, <1>2, <1>3 DEF TypeOK, TableOK, StoredOK, HistoryOK
<1>5. QED
  BY <1>1, <1>4 DEF TypeInv

LEMMA RestType ==
  ASSUME TypeInv, Observe,
         \/ \E r \in Requests : ProcessStops(r)
         \/ \E o \in sent : ObjectArrives(o)
         \/ \E a \in saving : RecordSaved(a) \/ RecordFails(a)
         \/ \E u \in Changing : UserChanges(u)
  PROVE  TypeInv'
<1>1. StoredOK /\ faulted \subseteq Requests
  BY TypeParts DEF TypeInv, HistoryOK
<1>2. ASSUME NEW r \in Requests, ProcessStops(r)
      PROVE  TypeInv'
  <2>1. /\ ~Is(r, "none") /\ faulted' = faulted \cup {r}
        /\ UNCHANGED <<tenants, inactive, sent, bucket, changed, raced>>
        /\ saving' \subseteq saving /\ auditLog' \subseteq auditLog \cup saving
    BY <1>2 DEF ProcessStops
  <2>2. requests' \in [Requests -> Request] /\ AllPlaced'
    <3>1. CASE Is(r, "answered")
      BY <1>2, <2>1, <3>1 DEF ProcessStops, TypeInv, TypeOK, AllPlaced
    <3>2. CASE ~Is(r, "answered")
      <4> DEFINE q == [phase |-> "lost", ask |-> requests[r].ask]
      <4>1. requests' = [requests EXCEPT ![r] = q]
        BY <1>2, <3>2 DEF ProcessStops
      <4>2. q \in Request
        BY <2>1, Shapes DEF TypeInv, Request, Asked
      <4>3. Placed(q, DOMAIN tenants')
        BY DEF Placed, InHandler
      <4>4. QED
        BY <2>1, <4>1, <4>2, <4>3, MoveType
    <3>3. QED
      BY <3>1, <3>2
  <2>3. TableOK'
    BY <2>1, TypeParts DEF TypeInv, TableOK, Live
  <2>4. StoredOK'
    BY <1>1, <2>1 DEF StoredOK
  <2>5. HistoryOK'
    BY <1>1, <2>1, ObserveType, TypeParts DEF TypeInv, HistoryOK
  <2>6. TypeOK'
    BY <2>2, <2>3, <2>4, <2>5 DEF TypeOK, TableOK, StoredOK, HistoryOK
  <2>7. QED
    BY <2>2, <2>6 DEF TypeInv
<1>3. ASSUME NEW o \in sent, ObjectArrives(o)
      PROVE  TypeInv'
  BY <1>1, <1>3, AsideType DEF ObjectArrives, Aside, StoredOK
<1>4. ASSUME NEW a \in saving, RecordSaved(a) \/ RecordFails(a)
      PROVE  TypeInv'
  <2>1. a.request \in Requests
    BY <1>1, <1>4 DEF StoredOK, Records
  <2>2. Aside /\ StoredOK' /\ faulted' \subseteq Requests
    BY <1>1, <1>4, <2>1 DEF RecordSaved, RecordFails, Aside, StoredOK
  <2>3. QED
    BY <2>2, AsideType
<1>5. ASSUME NEW u \in Changing, UserChanges(u)
      PROVE  TypeInv'
  <2>1. u \in Members
    BY <1>5, UserAssumption
  <2>2. Aside /\ StoredOK' /\ faulted' \subseteq Requests
    BY <1>1, <1>5, <2>1 DEF UserChanges, Aside, StoredOK
  <2>3. QED
    BY <2>2, AsideType
<1>6. QED
  BY <1>2, <1>3, <1>4, <1>5

LEMMA TypeInit == Init => TypeInv
<1> SUFFICES ASSUME Init PROVE TypeInv
  OBVIOUS
<1>1. requests \in [Requests -> Request] /\ AllPlaced
  BY DEF Init, Request, AllPlaced, Placed, InHandler
<1>2. TableOK
  <2>1. \A t \in DOMAIN Founders :
          [document |-> Founders[t], name |-> FirstName, isActive |-> TRUE,
           deleted |-> FALSE] \in Row
    BY TenantAssumption DEF Row
  <2>2. DOMAIN tenants \subseteq Tenants /\ tenants \in [DOMAIN tenants -> Row]
    BY <2>1, TenantAssumption DEF Init
  <2>3. \A t \in DOMAIN tenants : t \in DOMAIN Founders /\ tenants[t].document = Founders[t]
    BY DEF Init
  <2>4. QED
    BY <2>2, <2>3, FoundersDiffer DEF TableOK
<1>3. StoredOK /\ HistoryOK
  BY DEF Init, StoredOK, HistoryOK
<1>4. QED
  BY <1>1, <1>2, <1>3, TypeParts DEF TypeInv

LEMMA TypeStep == TypeInv /\ [Next]_vars => TypeInv'
<1> SUFFICES ASSUME TypeInv, [Next]_vars PROVE TypeInv'
  OBVIOUS
<1>1. CASE Next
  BY <1>1, ResolutionType, TenantRouteType, UploadRouteType, ReadyRouteType, RestType DEF Next
<1>2. CASE UNCHANGED vars
  <2>1. requests' \in [Requests -> Request] /\ AllPlaced'
    BY <1>2 DEF TypeInv, TypeOK, AllPlaced, vars
  <2>2. TableOK'
    BY <1>2, TypeParts DEF TypeInv, TableOK, Live, vars
  <2>3. StoredOK' /\ HistoryOK'
    BY <1>2, TypeParts DEF TypeInv, StoredOK, HistoryOK, vars, stored
  <2>4. TypeOK'
    BY <2>1, <2>2, <2>3 DEF TypeOK, TableOK, StoredOK, HistoryOK
  <2>5. QED
    BY <2>1, <2>4 DEF TypeInv
<1>3. QED
  BY <1>1, <1>2

LEMMA Typed == Spec => []TypeInv
BY TypeInit, TypeStep, PTL DEF Spec

\* Every variable keeps its type and two live tenants never share a document, however
\* many creations run against each other.
THEOREM TypeCorrect == Spec => []TypeOK
<1>1. TypeInv => TypeOK
  BY DEF TypeInv
<1>2. QED
  BY <1>1, Typed, PTL

---------------------------------------------------------------------------
(* Whom a step moves.                                                      *)

StepOf(r) ==
  \/ Resolution(r) \/ TenantRoute(r) \/ UploadRoute(r) \/ ReadyRoute(r) \/ ProcessStops(r)

\* The steps of request r leave the others as they are, and itself when it has its
\* answer.
LEMMA OthersStay ==
  ASSUME TypeInv, NEW r \in Requests, StepOf(r), NEW s \in Requests
  PROVE  requests'[s] = requests[s] \/ (s = r /\ ~Is(r, "answered"))
<1>0. requests \in [Requests -> Request]
  BY DEF TypeInv, TypeOK
<1>1. ASSUME NEW status, Answered(r, status), ~Is(r, "answered")
      PROVE  requests'[s] = requests[s] \/ (s = r /\ ~Is(r, "answered"))
  BY <1>0, <1>1 DEF Answered
<1>2. CASE Resolution(r)
  BY <1>0, <1>2 DEF Resolution, Arrive, SessionFound, SessionMissing, LookUp, LookUpFails,
                 Resolved, GuardsRefuse, GuardsPass, PipesRefuse, Refuse, Answered, Is
<1>3. CASE TenantRoute(r)
  BY <1>0, <1>3 DEF TenantRoute, CreateFinds, CreateSaves, CreateCollides, PatchFinds,
                 PatchWrites, PatchRereads, Remove, StatementFails, Succeed, Refuse,
                 Answered, Is
<1>4. CASE UploadRoute(r)
  BY <1>0, <1>4 DEF UploadRoute, BodyRefused, UploadRefused, UploadStarts, PutFails, PutEnds,
                 Succeed, Refuse, Answered, Is
<1>5. CASE ReadyRoute(r)
  BY <1>0, <1>5 DEF ReadyRoute, ProbeEnds, ProbeTimesOut, Answered, Is
<1>6. CASE ProcessStops(r)
  BY <1>0, <1>6 DEF ProcessStops, Is
<1>7. QED
  BY <1>2, <1>3, <1>4, <1>5, <1>6 DEF StepOf

\* A step is one of a request, or one that no request takes part in.
LEMMA StepKinds ==
  ASSUME [Next]_vars
  PROVE  \/ \E r \in Requests : StepOf(r) /\ Observe
         \/ /\ Observe
            /\ \/ \E o \in sent : ObjectArrives(o)
               \/ \E a \in saving : RecordSaved(a) \/ RecordFails(a)
               \/ \E u \in Changing : UserChanges(u)
         \/ UNCHANGED vars
BY DEF Next, StepOf

LEMMA MoversStep ==
  ASSUME TypeInv, [Next]_vars, NEW r \in Requests, requests'[r] # requests[r]
  PROVE  StepOf(r) /\ ~Is(r, "answered")
<1>1. ASSUME NEW s \in Requests, StepOf(s)
      PROVE  s = r /\ ~Is(r, "answered")
  BY <1>1, OthersStay
<1>2. ASSUME \/ \E o \in sent : ObjectArrives(o)
             \/ \E a \in saving : RecordSaved(a) \/ RecordFails(a)
             \/ \E u \in Changing : UserChanges(u)
             \/ UNCHANGED vars
      PROVE  FALSE
  BY <1>2 DEF ObjectArrives, RecordSaved, RecordFails, UserChanges, vars
<1>3. QED
  BY <1>1, <1>2, StepKinds

LEMMA AnsweredIs ==
  ASSUME TypeInv, NEW r \in Requests, NEW status, Answered(r, status)
  PROVE  /\ requests'[r].phase = "answered" /\ requests'[r].status = status
         /\ requests'[r].ask = requests[r].ask /\ requests'[r].user = requests[r].user
BY DEF Answered, TypeInv, TypeOK

\* The steps that bring a request further without an answer, and where it is then.
LEMMA WithoutAnswer ==
  ASSUME TypeInv, NEW r \in Requests, StepOf(r), \A status : ~Answered(r, status),
         requests'[r] # requests[r]
  PROVE  \/ requests'[r].phase \in {"session", "lookup", "lost"}
         \/ /\ SessionMissing(r) \/ LookUp(r) \/ LookUpFails(r)
            /\ requests'[r].phase = "guards"
         \/ GuardsPass(r) /\ requests'[r].phase \in {"probe", "create", "patch", "remove", "upload"}
         \/ CreateFinds(r) /\ requests'[r].phase = "save"
         \/ PatchFinds(r) /\ Live(Asked(r).id) /\ requests'[r].phase = "write"
         \/ PatchWrites(r) /\ requests'[r].phase = "reread"
         \/ UploadStarts(r) /\ requests'[r].phase = "put"
         \/ \E part \in PartNames : /\ PutEnds(r, part) /\ requests[r].waiting # {part}
                                   /\ requests'[r].phase = "put"
         \/ ReadyRoute(r) /\ requests'[r].phase = "probe"
<1>0. requests \in [Requests -> Request]
  BY DEF TypeInv, TypeOK
<1>1. CASE Resolution(r)
  <2>1. CASE GuardsPass(r)
    <3>1. Is(r, "guards")
      BY <2>1 DEF GuardsPass
    <3>2. Asked(r).route \in {"ready", "create", "patch", "remove", "upload"}
      BY <3>1, Shapes, AskShapes DEF TypeInv, Is
    <3>3. requests'[r] = Handling(Asked(r).route, requests[r].ask, requests[r].user)
      BY <1>0, <2>1 DEF GuardsPass
    <3>4. requests'[r].phase \in {"probe", "create", "patch", "remove", "upload"}
      BY <3>2, <3>3 DEF Handling
    <3>5. QED
      BY <2>1, <3>4
  <2>2. CASE GuardsRefuse(r) \/ PipesRefuse(r)
    BY <2>2 DEF GuardsRefuse, PipesRefuse, Refuse
  <2>3. CASE \E by \in Users \cup {Nobody}, ask \in Asks : Arrive(r, by, ask)
    BY <1>0, <2>3 DEF Arrive
  <2>4. CASE SessionFound(r) \/ SessionMissing(r)
    <3>1. Is(r, "session")
      BY <2>4 DEF SessionFound, SessionMissing
    <3>2. requests[r] \in [phase : {"session", "lookup"}, ask : Asks, by : Users \cup {Nobody}]
      BY <1>0, <3>1 DEF Request, Is
    <3>3. CASE SessionFound(r)
      BY <1>0, <3>2, <3>3 DEF SessionFound
    <3>4. CASE SessionMissing(r)
      BY <1>0, <3>4 DEF SessionMissing
    <3>5. QED
      BY <2>4, <3>3, <3>4
  <2>5. CASE LookUp(r) \/ LookUpFails(r)
    <3>1. PICK found : Resolved(r, found)
      BY <2>5 DEF LookUp, LookUpFails
    <3>2. QED
      BY <1>0, <2>5, <3>1 DEF Resolved
  <2>6. QED
    BY <1>1, <2>1, <2>2, <2>3, <2>4, <2>5 DEF Resolution
<1>2. CASE TenantRoute(r)
  <2>1. CASE CreateFinds(r)
    <3>1. Is(r, "create")
      BY <2>1 DEF CreateFinds
    <3>2. requests[r] \in [phase : {"create", "save", "patch", "reread", "remove", "upload"},
                           ask : Asks, user : User]
      BY <1>0, <3>1 DEF Request, Is
    <3>3. requests' = [requests EXCEPT ![r].phase = "save"]
      BY <2>1 DEF CreateFinds, Refuse
    <3>4. QED
      BY <1>0, <2>1, <3>2, <3>3
  <2>2. CASE CreateSaves(r) \/ CreateCollides(r) \/ PatchRereads(r) \/ Remove(r) \/ StatementFails(r)
    BY <2>2 DEF CreateSaves, CreateCollides, PatchRereads, Remove, StatementFails, Succeed, Refuse
  <2>3. CASE PatchFinds(r)
    BY <1>0, <2>3 DEF PatchFinds, Refuse
  <2>4. CASE PatchWrites(r)
    BY <1>0, <2>4 DEF PatchWrites
  <2>5. QED
    BY <1>2, <2>1, <2>2, <2>3, <2>4 DEF TenantRoute
<1>3. CASE UploadRoute(r)
  <2>1. CASE BodyRefused(r) \/ UploadRefused(r) \/ PutFails(r)
    BY <2>1 DEF BodyRefused, UploadRefused, PutFails, Refuse
  <2>2. CASE UploadStarts(r)
    BY <1>0, <2>2 DEF UploadStarts
  <2>3. ASSUME NEW part \in PartNames, PutEnds(r, part)
        PROVE  PutEnds(r, part) /\ requests[r].waiting # {part} /\ requests'[r].phase = "put"
    <3>1. /\ requests[r].waiting # {part} /\ Is(r, "put")
          /\ requests' = [requests EXCEPT ![r].waiting = @ \ {part}]
      BY <2>3 DEF PutEnds, Succeed
    <3>2. requests[r] \in [phase : {"put"}, ask : Asks, user : User, waiting : SUBSET PartNames]
      BY <1>0, <3>1 DEF Request, Is
    <3>3. QED
      BY <1>0, <2>3, <3>1, <3>2
  <2>4. QED
    BY <1>3, <2>1, <2>2, <2>3 DEF UploadRoute, PartNames
<1>4. CASE ReadyRoute(r)
  <2>1. PICK d \in Dependencies, up \in BOOLEAN : ProbeEnds(r, d, up)
    BY <1>4 DEF ReadyRoute, ProbeTimesOut
  <2>2. requests[r] \in [phase : {"probe"}, ask : Asks, user : User,
                         waiting : SUBSET Dependencies, failed : BOOLEAN]
    BY <1>0, <2>1 DEF ProbeEnds, Is, Request
  <2>3. requests' = [requests EXCEPT ![r].waiting = @ \ {d},
                                     ![r].failed = requests[r].failed \/ ~up]
    BY <2>1 DEF ProbeEnds
  <2>4. QED
    BY <1>0, <1>4, <2>2, <2>3
<1>5. CASE ProcessStops(r)
  BY <1>0, <1>5 DEF ProcessStops
<1>6. QED
  BY <1>1, <1>2, <1>3, <1>4, <1>5 DEF StepOf

---------------------------------------------------------------------------
(* Records of the audit log.                                               *)

\* What a successful answer leaves.
Succeeds(r, a) ==
  \E status \in {200, 201, 204}, e \in Tenants \cup {"unknown"} :
    Succeed(r, status, e) /\ a = Record(r, e)

LEMMA WhoRecords ==
  ASSUME TypeInv, [Next]_vars, NEW a \in auditLog' \cup saving', a \notin auditLog \cup saving
  PROVE  \E r \in Requests : Succeeds(r, a)
<1>1. ASSUME NEW r \in Requests, StepOf(r)
      PROVE  Succeeds(r, a)
  <2>1. CASE CreateSaves(r)
    <3>1. PICK t \in Tenants : Succeed(r, 201, t)
      BY <2>1 DEF CreateSaves
    <3>2. auditLog' = auditLog
      BY <2>1 DEF CreateSaves
    <3>3. QED
      BY <3>1, <3>2 DEF Succeeds, Succeed
  <2>2. CASE PatchRereads(r)
    <3>1. auditLog' = auditLog
      BY <2>2 DEF PatchRereads
    <3>2. Succeed(r, 200, Asked(r).id) /\ Live(Asked(r).id)
      BY <2>2, <3>1 DEF PatchRereads
    <3>3. Asked(r).id \in Tenants
      BY <3>2 DEF Live, TypeInv, TypeOK
    <3>4. QED
      BY <3>1, <3>2, <3>3 DEF Succeeds, Succeed
  <2>3. CASE Remove(r)
    <3>1. auditLog' = auditLog /\ Succeed(r, 204, Asked(r).id) /\ Is(r, "remove")
      BY <2>3 DEF Remove
    <3>2. Asked(r).id \in Tenants
      BY <3>1, Shapes, AskShapes DEF TypeInv, AllPlaced, Placed, Is, Asked
    <3>3. QED
      BY <3>1, <3>2 DEF Succeeds, Succeed
  <2>4. ASSUME NEW part, PutEnds(r, part)
        PROVE  Succeeds(r, a)
    BY <2>4 DEF PutEnds, Succeeds, Succeed
  <2>5. CASE \/ Resolution(r) \/ ReadyRoute(r) \/ ProcessStops(r)
             \/ CreateFinds(r) \/ CreateCollides(r) \/ PatchFinds(r) \/ PatchWrites(r)
             \/ StatementFails(r)
             \/ BodyRefused(r) \/ UploadRefused(r) \/ UploadStarts(r) \/ PutFails(r)
    BY <2>5 DEF Resolution, Arrive, SessionFound, SessionMissing, LookUp, LookUpFails,
                GuardsRefuse, GuardsPass, PipesRefuse, ReadyRoute, ProbeEnds, ProbeTimesOut,
                ProcessStops, CreateFinds, CreateCollides, PatchFinds, PatchWrites,
                StatementFails, BodyRefused, UploadRefused, UploadStarts, PutFails, stored
  <2>6. QED
    BY <1>1, <2>1, <2>2, <2>3, <2>4, <2>5 DEF StepOf, TenantRoute, UploadRoute
<1>2. ASSUME \/ \E o \in sent : ObjectArrives(o)
             \/ \E x \in saving : RecordSaved(x) \/ RecordFails(x)
             \/ \E u \in Changing : UserChanges(u)
             \/ UNCHANGED vars
      PROVE  FALSE
  BY <1>2 DEF ObjectArrives, RecordSaved, RecordFails, UserChanges, vars, stored
<1>3. QED
  BY <1>1, <1>2, StepKinds

LEMMA RecordsStep ==
  ASSUME TypeInv, RecordsAreOfSuccesses, [Next]_vars
  PROVE  RecordsAreOfSuccesses'
<1> SUFFICES ASSUME NEW a \in auditLog' \cup saving'
             PROVE  /\ requests'[a.request].phase = "answered"
                    /\ requests'[a.request].status \in 200 .. 299
                    /\ a.user = requests'[a.request].user.userId
  BY DEF RecordsAreOfSuccesses
<1>1. CASE a \in auditLog \cup saving
  <2>1. a.request \in Requests
    BY <1>1 DEF TypeInv, TypeOK, Records
  <2>2. /\ requests[a.request].phase = "answered"
        /\ requests[a.request].status \in 200 .. 299
        /\ a.user = requests[a.request].user.userId
    BY <1>1 DEF RecordsAreOfSuccesses
  <2>3. requests'[a.request] = requests[a.request]
    BY <2>1, <2>2, MoversStep DEF Is
  <2>4. QED
    BY <2>2, <2>3
<1>2. CASE a \notin auditLog \cup saving
  <2>1. PICK r \in Requests, status \in {200, 201, 204}, e \in Tenants \cup {"unknown"} :
          Succeed(r, status, e) /\ a = Record(r, e)
    BY <1>2, WhoRecords DEF Succeeds
  <2>2. a.request = r /\ a.user = requests[r].user.userId
    BY <2>1 DEF Record
  <2>3. requests'[r] = [phase |-> "answered", ask |-> requests[r].ask,
                        user |-> requests[r].user, status |-> status]
    BY <2>1 DEF Succeed, Answered, TypeInv, TypeOK
  <2>4. QED
    BY <2>2, <2>3
<1>3. QED
  BY <1>1, <1>2

\* Whatever is in the audit log, or on its way there, is of a request that was answered
\* with success, under the name of who made it (AuditLogInterceptor).
THEOREM RecordsMeanSuccess == Spec => []RecordsAreOfSuccesses
<1>1. Init => RecordsAreOfSuccesses
  BY DEF Init, RecordsAreOfSuccesses
<1>2. QED
  BY <1>1, RecordsStep, Typed, PTL DEF Spec

---------------------------------------------------------------------------
(* Changes of the table of tenants.                                        *)

\* A PATCH under way whose row is no longer live has been raced.
RowsLast ==
  \A r \in Requests :
    requests[r].phase \in {"write", "reread"} => Live(Asked(r).id) \/ r \in raced

ChangesInv == RowsLast /\ ChangesAreRecorded

\* What only grows.
LEMMA HistoryGrows ==
  ASSUME [Next]_vars
  PROVE  faulted \subseteq faulted' /\ raced \subseteq raced'
<1>1. ASSUME NEW r \in Requests, StepOf(r)
      PROVE  faulted \subseteq faulted' /\ raced \subseteq raced'
  <2>1. CASE Resolution(r)
    BY <2>1 DEF Resolution, Arrive, SessionFound, SessionMissing, LookUp, LookUpFails,
                GuardsRefuse, GuardsPass, PipesRefuse
  <2>2. CASE TenantRoute(r)
    BY <2>2 DEF TenantRoute, CreateFinds, CreateSaves, CreateCollides, PatchFinds,
                PatchWrites, PatchRereads, Remove, StatementFails, Write
  <2>3. CASE UploadRoute(r) \/ ReadyRoute(r) \/ ProcessStops(r)
    BY <2>3 DEF UploadRoute, BodyRefused, UploadRefused, UploadStarts, PutFails, PutEnds,
                ReadyRoute, ProbeEnds, ProbeTimesOut, ProcessStops
  <2>4. QED
    BY <1>1, <2>1, <2>2, <2>3 DEF StepOf
<1>2. QED
  BY <1>1, StepKinds DEF ObjectArrives, RecordSaved, RecordFails, UserChanges, vars

\* A record stays, on its way or in the table, unless its request met a failure.
LEMMA RecordsLast ==
  ASSUME TypeInv, [Next]_vars, NEW a \in auditLog \cup saving
  PROVE  a \in auditLog' \cup saving' \/ a.request \in faulted'
<1>1. ASSUME NEW r \in Requests, StepOf(r)
      PROVE  a \in auditLog' \cup saving' \/ a.request \in faulted'
  <2>1. CASE Resolution(r)
    BY <2>1 DEF Resolution, Arrive, SessionFound, SessionMissing, LookUp, LookUpFails,
                GuardsRefuse, GuardsPass, PipesRefuse, stored
  <2>2. CASE TenantRoute(r)
    BY <2>2 DEF TenantRoute, CreateFinds, CreateSaves, CreateCollides, PatchFinds,
                PatchWrites, PatchRereads, Remove, StatementFails, Succeed, stored
  <2>3. CASE UploadRoute(r) \/ ReadyRoute(r)
    BY <2>3 DEF UploadRoute, BodyRefused, UploadRefused, UploadStarts, PutFails, PutEnds,
                Succeed, ReadyRoute, ProbeEnds, ProbeTimesOut, stored
  <2>4. CASE ProcessStops(r)
    BY <2>4 DEF ProcessStops
  <2>5. QED
    BY <1>1, <2>1, <2>2, <2>3, <2>4 DEF StepOf
<1>2. QED
  BY <1>1, StepKinds DEF ObjectArrives, RecordSaved, RecordFails, UserChanges, vars, stored

\* Who writes the table, and what is true of him after the step.
LEMMA WhoWrites ==
  ASSUME TypeInv, [Next]_vars, tenants' # tenants
  PROVE  \E r \in Requests, t \in Tenants, row \in Row :
           /\ Write(r, t, row) /\ Writable(t, row)
           /\ \/ \E a \in saving' : a.request = r
              \/ Is(r, "reread")'
              \/ r \in faulted'
           /\ \/ t \in DOMAIN tenants => row.deleted = tenants[t].deleted
              \/ Is(r, "remove")
<1> DEFINE Goal == \E r \in Requests, t \in Tenants, row \in Row :
           /\ Write(r, t, row) /\ Writable(t, row)
           /\ \/ \E a \in saving' : a.request = r
              \/ Is(r, "reread")'
              \/ r \in faulted'
           /\ \/ t \in DOMAIN tenants => row.deleted = tenants[t].deleted
              \/ Is(r, "remove")
<1>1. ASSUME NEW r \in Requests, NEW status, NEW e, Succeed(r, status, e)
      PROVE  \E a \in saving' : a.request = r
  <2>1. Record(r, e) \in saving'
    BY <1>1 DEF Succeed
  <2>2. Record(r, e).request = r
    BY DEF Record
  <2>3. QED
    BY <2>1, <2>2
<1>2. ASSUME NEW r \in Requests, TenantRoute(r)
      PROVE  Goal
  <2>1. CASE CreateSaves(r)
    <3>1. Is(r, "save") /\ ~Taken(Asked(r).document)
      BY <2>1 DEF CreateSaves
    <3>2. PICK t \in Tenants \ DOMAIN tenants : Write(r, t, NewRow(r)) /\ Succeed(r, 201, t)
      BY <2>1 DEF CreateSaves
    <3>3. NewRow(r) \in Row /\ Writable(t, NewRow(r))
      BY <3>1, HandlersWriteRows
    <3>4. QED
      BY <1>1, <3>2, <3>3
  <2>2. CASE PatchWrites(r)
    <3>1. Is(r, "write") /\ Write(r, Asked(r).id, Updated(r)) /\ Is(r, "reread")'
      BY <2>2 DEF PatchWrites, Is, TypeInv, TypeOK
    <3>2. QED
      BY <3>1, HandlersWriteRows
  <2>3. CASE Remove(r)
    <3> DEFINE row == [tenants[Asked(r).id] EXCEPT !.deleted = TRUE]
    <3>1. /\ Is(r, "remove") /\ Succeed(r, 204, Asked(r).id)
          /\ Asked(r).id \in DOMAIN tenants /\ Write(r, Asked(r).id, row)
      BY <1>2, <2>3 DEF Remove
    <3>2. Asked(r).id \in Tenants /\ row \in Row /\ Writable(Asked(r).id, row)
      BY <3>1, HandlersWriteRows
    <3>3. QED
      BY <1>1, <3>1, <3>2
  <2>4. CASE StatementFails(r)
    <3>1. r \in faulted'
      BY <2>4 DEF StatementFails
    <3>2. CASE Is(r, "save") /\ ~Taken(Asked(r).document)
               /\ \E t \in Tenants \ DOMAIN tenants : Write(r, t, NewRow(r))
      <4>1. PICK t \in Tenants \ DOMAIN tenants : Write(r, t, NewRow(r))
        BY <3>2
      <4>2. NewRow(r) \in Row /\ Writable(t, NewRow(r))
        BY <3>2, HandlersWriteRows
      <4>3. QED
        BY <3>1, <4>1, <4>2
    <3>3. CASE Is(r, "write") /\ Write(r, Asked(r).id, Updated(r))
      BY <3>1, <3>3, HandlersWriteRows
    <3>4. CASE /\ Is(r, "remove") /\ Asked(r).id \in DOMAIN tenants
               /\ Write(r, Asked(r).id, [tenants[Asked(r).id] EXCEPT !.deleted = TRUE])
      <4> DEFINE row == [tenants[Asked(r).id] EXCEPT !.deleted = TRUE]
      <4>1. Asked(r).id \in Tenants /\ row \in Row /\ Writable(Asked(r).id, row)
        BY <3>4, HandlersWriteRows
      <4>2. Is(r, "remove") /\ Write(r, Asked(r).id, row)
        BY <3>4
      <4> HIDE DEF row
      <4>3. QED
        BY <3>1, <4>1, <4>2
    <3>5. QED
      BY <2>4, <3>2, <3>3, <3>4 DEF StatementFails
  <2>5. CASE CreateFinds(r) \/ CreateCollides(r) \/ PatchFinds(r) \/ PatchRereads(r)
    BY <2>5 DEF CreateFinds, CreateCollides, PatchFinds, PatchRereads
  <2>6. QED
    BY <1>2, <2>1, <2>2, <2>3, <2>4, <2>5 DEF TenantRoute
<1>3. ASSUME NEW r \in Requests,
             Resolution(r) \/ UploadRoute(r) \/ ReadyRoute(r) \/ ProcessStops(r)
      PROVE  FALSE
  BY <1>3 DEF Resolution, Arrive, SessionFound, SessionMissing, LookUp, LookUpFails,
              GuardsRefuse, GuardsPass, PipesRefuse, UploadRoute, BodyRefused,
              UploadRefused, UploadStarts, PutFails, PutEnds, ReadyRoute, ProbeEnds,
              ProbeTimesOut, ProcessStops
<1>4. QED
  BY <1>2, <1>3, StepKinds
  DEF StepOf, ObjectArrives, RecordSaved, RecordFails, UserChanges, vars

LEMMA NobodyElseChanges ==
  ASSUME [Next]_vars, tenants' = tenants
  PROVE  changed' = changed
<1>1. ASSUME NEW r \in Requests, StepOf(r)
      PROVE  changed' = changed
  <2>1. CASE Resolution(r) \/ UploadRoute(r) \/ ReadyRoute(r) \/ ProcessStops(r)
    BY <2>1 DEF Resolution, Arrive, SessionFound, SessionMissing, LookUp, LookUpFails,
              GuardsRefuse, GuardsPass, PipesRefuse, UploadRoute, BodyRefused,
              UploadRefused, UploadStarts, PutFails, PutEnds, ReadyRoute, ProbeEnds,
              ProbeTimesOut, ProcessStops
  <2>2. CASE TenantRoute(r)
    BY <2>2 DEF TenantRoute, CreateFinds, CreateSaves, CreateCollides, PatchFinds,
                PatchWrites, PatchRereads, Remove, StatementFails, Write
  <2>3. QED
    BY <1>1, <2>1, <2>2 DEF StepOf
<1>2. QED
  BY <1>1, StepKinds DEF ObjectArrives, RecordSaved, RecordFails, UserChanges, vars

\* A row is live until a removal, and that one races those who are at work on it.
LEMMA RowsGoInARace ==
  ASSUME TypeInv, [Next]_vars, NEW t, Live(t), ~Live(t)',
         NEW s \in Requests, requests[s].phase \in {"write", "reread"}, Asked(s).id = t
  PROVE  s \in raced'
<1>1. tenants' # tenants
  BY DEF Live
<1>2. PICK r \in Requests, u \in Tenants, row \in Row :
        /\ Write(r, u, row) /\ Writable(u, row)
        /\ \/ u \in DOMAIN tenants => row.deleted = tenants[u].deleted
           \/ Is(r, "remove")
  BY <1>1, WhoWrites
<1>3. /\ DOMAIN tenants' = DOMAIN tenants \cup {u}
      /\ \A v \in DOMAIN tenants' : tenants'[v] = IF v = u THEN row ELSE tenants[v]
  BY <1>2, WriteType DEF TypeInv
<1>4. u = t /\ row.deleted
  BY <1>3 DEF Live
<1>5. Is(r, "remove") /\ r # s
  BY <1>2, <1>4 DEF Live, Is
<1>6. QED
  BY <1>2, <1>4, <1>5 DEF Write, Racing

LEMMA RowsLastStep ==
  ASSUME TypeInv, RowsLast, [Next]_vars
  PROVE  RowsLast'
<1> SUFFICES ASSUME NEW r \in Requests, requests'[r].phase \in {"write", "reread"}
             PROVE  Live(Asked(r).id)' \/ r \in raced'
  BY DEF RowsLast
<1>1. CASE requests'[r] = requests[r]
  <2>1. Live(Asked(r).id) \/ r \in raced
    BY <1>1 DEF RowsLast
  <2>2. Asked(r)' = Asked(r)
    BY <1>1 DEF Asked
  <2>3. QED
    BY <1>1, <2>1, <2>2, RowsGoInARace, HistoryGrows
<1>2. CASE requests'[r] # requests[r]
  <2>0. requests \in [Requests -> Request]
    BY DEF TypeInv, TypeOK
  <2>1. StepOf(r)
    BY <1>2, MoversStep
  <2>2. \A status : ~Answered(r, status)
    <3>1. ASSUME NEW status, Answered(r, status) PROVE FALSE
      <4>1. requests'[r].phase = "answered"
        BY <3>1, AnsweredIs
      <4>2. QED
        BY <4>1
    <3>2. QED
      BY <3>1
  <2>3. CASE PatchFinds(r) /\ Live(Asked(r).id)
    <3>1. Asked(r)' = Asked(r) /\ tenants' = tenants
      BY <2>0, <2>3 DEF PatchFinds, Asked
    <3>2. QED
      BY <2>3, <3>1 DEF Live
  <2>4. CASE PatchWrites(r)
    <3>1. Is(r, "write") /\ Asked(r)' = Asked(r)
      BY <2>0, <2>4 DEF PatchWrites, Asked
    <3>2. Live(Asked(r).id) \/ r \in raced
      BY <3>1 DEF RowsLast, Is
    <3>3. CASE Live(Asked(r).id)
      BY <3>1, <3>3, RowsGoInARace DEF Is
    <3>4. QED
      BY <3>1, <3>2, <3>3, HistoryGrows
  <2>5. QED
    BY <1>2, <2>1, <2>2, <2>3, <2>4, WithoutAnswer
<1>3. QED
  BY <1>1, <1>2

\* Who leaves the second read of a PATCH has recorded it, met a failure or lost a race.
LEMMA RereadEnds ==
  ASSUME TypeInv, RowsLast, [Next]_vars, NEW r \in Requests, Is(r, "reread"), ~Is(r, "reread")'
  PROVE  (\E a \in saving' : a.request = r) \/ r \in faulted' \cup raced'
<1>1. StepOf(r)
  BY MoversStep DEF Is
<1>2. CASE PatchRereads(r)
  <2>1. CASE Live(Asked(r).id)
    <3>1. Record(r, Asked(r).id) \in saving'
      BY <1>2, <2>1 DEF PatchRereads, Succeed
    <3>2. Record(r, Asked(r).id).request = r
      BY DEF Record
    <3>3. QED
      BY <3>1, <3>2
  <2>2. CASE ~Live(Asked(r).id)
    BY <2>2, HistoryGrows DEF RowsLast, Is
  <2>3. QED
    BY <2>1, <2>2
<1>3. CASE StatementFails(r) \/ ProcessStops(r)
  BY <1>3 DEF StatementFails, ProcessStops
<1>4. CASE Resolution(r) \/ UploadRoute(r) \/ ReadyRoute(r)
  BY <1>4 DEF Resolution, Arrive, SessionFound, SessionMissing, LookUp, LookUpFails,
              GuardsRefuse, GuardsPass, PipesRefuse, UploadRoute, BodyRefused,
              UploadRefused, UploadStarts, PutFails, PutEnds, ReadyRoute, ProbeEnds,
              ProbeTimesOut, Is
<1>5. CASE \/ CreateFinds(r) \/ CreateSaves(r) \/ CreateCollides(r) \/ PatchFinds(r)
           \/ PatchWrites(r) \/ Remove(r)
  BY <1>5 DEF CreateFinds, CreateSaves, CreateCollides, PatchFinds, PatchWrites, Remove, Is
<1>6. QED
  BY <1>1, <1>2, <1>3, <1>4, <1>5 DEF StepOf, TenantRoute

LEMMA ChangesStep ==
  ASSUME TypeInv, ChangesInv, [Next]_vars
  PROVE  ChangesInv'
<1>1. RowsLast'
  BY RowsLastStep DEF ChangesInv
<1>2. ASSUME NEW r \in changed'
      PROVE  \/ Is(r, "reread")'
             \/ \E a \in auditLog' \cup saving' : a.request = r
             \/ r \in faulted' \cup raced'
  <2>1. CASE r \in changed
    <3>1. r \in Requests
      BY <2>1 DEF TypeInv, TypeOK
    <3>2. CASE Is(r, "reread")
      BY <3>1, <3>2, RereadEnds DEF ChangesInv
    <3>3. CASE \E a \in auditLog \cup saving : a.request = r
      BY <3>3, RecordsLast
    <3>4. CASE r \in faulted \cup raced
      BY <3>4, HistoryGrows
    <3>5. QED
      BY <2>1, <3>2, <3>3, <3>4 DEF ChangesInv, ChangesAreRecorded
  <2>2. CASE r \notin changed
    <3>1. tenants' # tenants
      BY <1>2, <2>2, NobodyElseChanges
    <3>2. PICK q \in Requests, t \in Tenants, row \in Row :
            /\ Write(q, t, row)
            /\ \/ \E a \in saving' : a.request = q
               \/ Is(q, "reread")'
               \/ q \in faulted'
      BY <3>1, WhoWrites
    <3>3. r = q
      BY <1>2, <2>2, <3>1, <3>2 DEF Write
    <3>4. QED
      BY <3>2, <3>3
  <2>3. QED
    BY <2>1, <2>2
<1>3. QED
  BY <1>1, <1>2 DEF ChangesInv, ChangesAreRecorded

\* A tenant that was changed without a record was changed by a request that met a
\* failure or a race (TenantController, AuditLogInterceptor).
THEOREM ChangesLeaveRecords == Spec => []ChangesAreRecorded
<1>1. Init => ChangesInv
  BY DEF Init, ChangesInv, RowsLast, ChangesAreRecorded
<1>2. ChangesInv => ChangesAreRecorded
  BY DEF ChangesInv
<1>3. QED
  BY <1>1, <1>2, ChangesStep, Typed, PTL DEF Spec

---------------------------------------------------------------------------
(* Uploads.                                                                *)

\* The parts an upload under way does not wait for any more are there.
PutsAreSound ==
  \A r \in Requests : Is(r, "put") =>
    \A part \in Parts(Asked(r).file) \ requests[r].waiting : Object(r, part) \in bucket

\* So are all, once it is answered with success.
StoredIsThere ==
  \A r \in Requests :
    Is(r, "answered") /\ Asked(r).route = "upload" /\ requests[r].status = 201 =>
      \A part \in Parts(Asked(r).file) : Object(r, part) \in bucket

\* An object is of an upload that has begun, and was not refused.
ObjectsAreOfUploads ==
  \A o \in sent \cup bucket :
    /\ requests[o.request].phase \in {"put", "answered", "lost"}
    /\ Is(o.request, "answered") => requests[o.request].status \notin 400 .. 499

UploadInv == PutsAreSound /\ StoredIsThere /\ ObjectsAreOfUploads

LEMMA BucketGrows ==
  ASSUME [Next]_vars
  PROVE  bucket \subseteq bucket'
<1>1. ASSUME NEW r \in Requests, StepOf(r)
      PROVE  bucket' = bucket
  <2>1. CASE Resolution(r)
    BY <2>1 DEF Resolution, Arrive, SessionFound, SessionMissing, LookUp, LookUpFails,
                GuardsRefuse, GuardsPass, PipesRefuse, stored
  <2>2. CASE TenantRoute(r)
    BY <2>2 DEF TenantRoute, CreateFinds, CreateSaves, CreateCollides, PatchFinds,
                PatchWrites, PatchRereads, Remove, StatementFails, stored
  <2>3. CASE UploadRoute(r) \/ ReadyRoute(r) \/ ProcessStops(r)
    BY <2>3 DEF UploadRoute, BodyRefused, UploadRefused, UploadStarts, PutFails, PutEnds,
                ReadyRoute, ProbeEnds, ProbeTimesOut, ProcessStops, stored
  <2>4. QED
    BY <1>1, <2>1, <2>2, <2>3 DEF StepOf
<1>2. QED
  BY <1>1, StepKinds DEF ObjectArrives, RecordSaved, RecordFails, UserChanges, vars, stored

LEMMA WhoSends ==
  ASSUME TypeInv, [Next]_vars, NEW o \in sent' \cup bucket', o \notin sent \cup bucket
  PROVE  o.request \in Requests /\ UploadStarts(o.request)
<1>1. ASSUME NEW r \in Requests, StepOf(r)
      PROVE  o.request = r /\ UploadStarts(r)
  <2>1. CASE Resolution(r)
    BY <2>1 DEF Resolution, Arrive, SessionFound, SessionMissing, LookUp, LookUpFails,
                GuardsRefuse, GuardsPass, PipesRefuse, stored
  <2>2. CASE TenantRoute(r)
    BY <2>2 DEF TenantRoute, CreateFinds, CreateSaves, CreateCollides, PatchFinds,
                PatchWrites, PatchRereads, Remove, StatementFails, stored
  <2>3. CASE UploadStarts(r)
    BY <2>3 DEF UploadStarts, Object
  <2>4. CASE (UploadRoute(r) /\ ~UploadStarts(r)) \/ ReadyRoute(r) \/ ProcessStops(r)
    BY <2>4 DEF UploadRoute, BodyRefused, UploadRefused, PutFails, PutEnds,
                ReadyRoute, ProbeEnds, ProbeTimesOut, ProcessStops, stored
  <2>5. QED
    BY <1>1, <2>1, <2>2, <2>3, <2>4 DEF StepOf
<1>2. QED
  BY <1>1, StepKinds DEF ObjectArrives, RecordSaved, RecordFails, UserChanges, vars, stored

\* An upload under way ends with success, when the last of its parts is there, or with
\* an error of the server; before it is under way it does not end with success.
LEMMA UploadAnswers ==
  ASSUME TypeInv, NEW r \in Requests, StepOf(r), requests'[r] # requests[r],
         Is(r, "answered")'
  PROVE  /\ requests'[r].ask = requests[r].ask /\ requests'[r].user = requests[r].user
         /\ Is(r, "put") => requests'[r].status \in {201, 500}
         /\ Asked(r).route = "upload" /\ requests'[r].status = 201 =>
              Is(r, "put") /\ \E part : requests[r].waiting = {part} /\ Object(r, part) \in bucket
<1>0. requests \in [Requests -> Request] /\ Placed(requests[r], DOMAIN tenants)
  BY DEF TypeInv, TypeOK, AllPlaced
<1>1. PICK status : Answered(r, status)
  BY WithoutAnswer DEF Is
<1>2. /\ requests'[r].phase = "answered" /\ requests'[r].status = status
      /\ requests'[r].ask = requests[r].ask /\ requests'[r].user = requests[r].user
  BY <1>1, AnsweredIs
<1>3. ASSUME NEW n, Answered(r, n) PROVE status = n
  BY <1>2, <1>3, AnsweredIs
<1>4. CASE Resolution(r)
  <2>1. CASE GuardsRefuse(r)
    <3>1. \E n \in {401, 403, 429} : Answered(r, n)
      BY <2>1, StatusOf DEF GuardsRefuse, Refuse
    <3>2. Is(r, "guards")
      BY <2>1 DEF GuardsRefuse
    <3>3. QED
      BY <1>2, <1>3, <3>1, <3>2 DEF Is
  <2>2. CASE PipesRefuse(r)
    BY <1>0, <1>2, <2>2 DEF PipesRefuse, Placed, Is, Asked
  <2>3. CASE ~GuardsRefuse(r) /\ ~PipesRefuse(r)
    <3>1. requests[r].phase \in {"none", "session", "lookup", "guards"}
      BY <1>4, <2>3 DEF Resolution, Arrive, SessionFound, SessionMissing, LookUp, LookUpFails,
                        GuardsPass, Is
    <3>2. CASE GuardsPass(r)
      <4>1. Asked(r).route \in {"ready", "create", "patch", "remove", "upload"}
        BY <3>2, Shapes, AskShapes DEF TypeInv, Is, GuardsPass
      <4>2. requests'[r].phase # "answered"
        BY <1>0, <3>2, <4>1 DEF GuardsPass, Handling
      <4>3. QED
        BY <1>2, <4>2
    <3>3. CASE SessionFound(r)
      <4>1. requests[r] \in [phase : {"session", "lookup"}, ask : Asks,
                             by : Users \cup {Nobody}]
        BY <1>0, <3>3 DEF SessionFound, Request, Is
      <4>2. requests'[r].phase = "lookup"
        BY <1>0, <3>3, <4>1 DEF SessionFound
      <4>3. QED
        BY <1>2, <4>2
    <3>4. CASE \/ \E by \in Users \cup {Nobody}, ask \in Asks : Arrive(r, by, ask)
               \/ SessionMissing(r) \/ LookUp(r) \/ LookUpFails(r)
      <4>1. requests'[r].phase \in {"session", "guards"}
        BY <1>0, <3>4 DEF Arrive, SessionMissing, LookUp, LookUpFails, Resolved
      <4>2. QED
        BY <1>2, <4>1
    <3>5. QED
      BY <1>4, <2>3, <3>2, <3>3, <3>4 DEF Resolution
  <2>4. QED
    BY <2>1, <2>2, <2>3
<1>5. CASE TenantRoute(r)
  <2>1. requests[r].phase \in {"create", "save", "patch", "write", "reread", "remove"}
    BY <1>5 DEF TenantRoute, CreateFinds, CreateSaves, CreateCollides, PatchFinds,
                PatchWrites, PatchRereads, Remove, StatementFails, Is
  <2>2. QED
    BY <1>0, <1>2, <2>1 DEF Placed, Is, Asked
<1>6. CASE UploadRoute(r)
  <2>1. CASE BodyRefused(r) \/ UploadRefused(r)
    <3>1. \E n \in {400, 413} : Answered(r, n)
      BY <2>1, StatusOf DEF BodyRefused, UploadRefused, Refuse
    <3>2. Is(r, "upload")
      BY <2>1 DEF BodyRefused, UploadRefused
    <3>3. QED
      BY <1>2, <1>3, <3>1, <3>2 DEF Is
  <2>2. CASE PutFails(r)
    <3>1. Answered(r, 500)
      BY <2>2, StatusOf DEF PutFails, Refuse
    <3>2. QED
      BY <1>2, <1>3, <3>1
  <2>3. CASE UploadStarts(r)
    BY <1>0, <1>2, <2>3 DEF UploadStarts
  <2>4. ASSUME NEW part, PutEnds(r, part)
        PROVE  /\ Is(r, "put") /\ status = 201
               /\ requests[r].waiting = {part} /\ Object(r, part) \in bucket
    <3>1. Is(r, "put") /\ Object(r, part) \in bucket
      BY <2>4 DEF PutEnds
    <3>2. CASE requests[r].waiting = {part}
      <4>1. Answered(r, 201)
        BY <2>4, <3>2 DEF PutEnds, Succeed
      <4>2. QED
        BY <1>3, <3>1, <3>2, <4>1
    <3>3. CASE requests[r].waiting # {part}
      <4>1. requests[r] \in [phase : {"put"}, ask : Asks, user : User,
                             waiting : SUBSET PartNames]
        BY <1>0, <3>1 DEF Request, Is
      <4>2. requests'[r].phase = "put"
        BY <1>0, <2>4, <3>3, <4>1 DEF PutEnds
      <4>3. QED
        BY <1>2, <4>2
    <3>4. QED
      BY <3>2, <3>3
  <2>5. QED
    BY <1>2, <1>6, <2>1, <2>2, <2>3, <2>4 DEF UploadRoute
<1>7. CASE ReadyRoute(r)
  <2>1. Is(r, "probe")
    BY <1>7 DEF ReadyRoute, ProbeEnds, ProbeTimesOut
  <2>2. QED
    BY <1>0, <1>2, <2>1 DEF Placed, Is, Asked
<1>8. CASE ProcessStops(r)
  BY <1>0, <1>2, <1>8 DEF ProcessStops
<1>9. QED
  BY <1>4, <1>5, <1>6, <1>7, <1>8 DEF StepOf

LEMMA PutsStep ==
  ASSUME TypeInv, PutsAreSound, [Next]_vars
  PROVE  PutsAreSound'
<1> SUFFICES ASSUME NEW r \in Requests, Is(r, "put")',
                    NEW part, part \in Parts(Asked(r)'.file) \ requests'[r].waiting
             PROVE  Object(r, part)' \in bucket'
  BY DEF PutsAreSound
<1>0. requests \in [Requests -> Request]
  BY DEF TypeInv, TypeOK
<1>1. CASE requests'[r] = requests[r]
  <2>1. Object(r, part) \in bucket /\ Object(r, part)' = Object(r, part)
    BY <1>1 DEF PutsAreSound, Is, Asked, Object
  <2>2. QED
    BY <2>1, BucketGrows
<1>2. CASE requests'[r] # requests[r]
  <2>1. StepOf(r) /\ \A status : ~Answered(r, status)
    <3>1. ASSUME NEW status, Answered(r, status) PROVE FALSE
      <4>1. requests'[r].phase = "answered"
        BY <3>1, AnsweredIs
      <4>2. QED
        BY <4>1 DEF Is
    <3>2. QED
      BY <1>2, <3>1, MoversStep
  <2>2. requests'[r].phase = "put"
    BY DEF Is
  <2>3. CASE UploadStarts(r)
    BY <1>0, <2>3 DEF UploadStarts, Asked
  <2>4. ASSUME NEW p \in PartNames, PutEnds(r, p), requests[r].waiting # {p}
        PROVE  Object(r, part)' \in bucket'
    <3>1. /\ Is(r, "put") /\ Object(r, p) \in bucket /\ bucket' = bucket
          /\ requests' = [requests EXCEPT ![r].waiting = @ \ {p}]
      BY <2>4 DEF PutEnds
    <3>2. requests[r] \in [phase : {"put"}, ask : Asks, user : User, waiting : SUBSET PartNames]
      BY <1>0, <3>1 DEF Request, Is
    <3>3. /\ requests'[r].ask = requests[r].ask /\ requests'[r].user = requests[r].user
          /\ requests'[r].waiting = requests[r].waiting \ {p}
      BY <1>0, <3>1, <3>2
    <3>4. Object(r, part)' = Object(r, part)
      BY <3>3 DEF Object
    <3>5. part \in Parts(Asked(r).file) /\ (part = p \/ part \notin requests[r].waiting)
      BY <3>3 DEF Asked
    <3>6. QED
      BY <3>1, <3>4, <3>5 DEF PutsAreSound
  <2>5. CASE GuardsPass(r) /\ requests'[r].phase \in {"probe", "create", "patch", "remove", "upload"}
    BY <2>2, <2>5
  <2>6. QED
    BY <1>2, <2>1, <2>2, <2>3, <2>4, <2>5, WithoutAnswer
<1>3. QED
  BY <1>1, <1>2

LEMMA StoredStep ==
  ASSUME TypeInv, PutsAreSound, StoredIsThere, [Next]_vars
  PROVE  StoredIsThere'
<1> SUFFICES ASSUME NEW r \in Requests, Is(r, "answered")', Asked(r)'.route = "upload",
                    requests'[r].status = 201, NEW part, part \in Parts(Asked(r)'.file)
             PROVE  Object(r, part)' \in bucket'
  BY DEF StoredIsThere
<1>1. CASE requests'[r] = requests[r]
  <2>1. Object(r, part) \in bucket /\ Object(r, part)' = Object(r, part)
    BY <1>1 DEF StoredIsThere, Is, Asked, Object
  <2>2. QED
    BY <2>1, BucketGrows
<1>2. CASE requests'[r] # requests[r]
  <2>1. StepOf(r)
    BY <1>2, MoversStep
  <2>2. requests'[r].ask = requests[r].ask /\ requests'[r].user = requests[r].user
    BY <1>2, <2>1, UploadAnswers
  <2>3. Asked(r)' = Asked(r) /\ Object(r, part)' = Object(r, part)
    BY <2>2 DEF Asked, Object
  <2>4. PICK p : Is(r, "put") /\ requests[r].waiting = {p} /\ Object(r, p) \in bucket
    BY <1>2, <2>1, <2>3, UploadAnswers
  <2>5. Object(r, part) \in bucket
    BY <2>3, <2>4 DEF PutsAreSound
  <2>6. QED
    BY <2>3, <2>5, BucketGrows
<1>3. QED
  BY <1>1, <1>2

LEMMA ObjectsStep ==
  ASSUME TypeInv, ObjectsAreOfUploads, [Next]_vars
  PROVE  ObjectsAreOfUploads'
<1> SUFFICES ASSUME NEW o \in sent' \cup bucket'
             PROVE  /\ requests'[o.request].phase \in {"put", "answered", "lost"}
                    /\ requests'[o.request].phase = "answered"
                         => requests'[o.request].status \notin 400 .. 499
  BY DEF ObjectsAreOfUploads, Is
<1> DEFINE r == o.request
<1>0. requests \in [Requests -> Request]
  BY DEF TypeInv, TypeOK
<1>1. CASE o \notin sent \cup bucket
  <2>1. r \in Requests /\ UploadStarts(r)
    BY <1>1, WhoSends
  <2>2. requests'[r].phase = "put"
    BY <1>0, <2>1 DEF UploadStarts
  <2>3. QED
    BY <2>2
<1>2. CASE o \in sent \cup bucket
  <2>1. /\ r \in Requests /\ requests[r].phase \in {"put", "answered", "lost"}
        /\ requests[r].phase = "answered" => requests[r].status \notin 400 .. 499
    BY <1>2 DEF ObjectsAreOfUploads, TypeInv, TypeOK, Objects, Is
  <2> HIDE DEF r
  <2>2. CASE requests'[r] = requests[r]
    BY <2>1, <2>2 DEF r
  <2>3. CASE requests'[r] # requests[r]
    <3>1. StepOf(r) /\ ~Is(r, "answered")
      BY <2>1, <2>3, MoversStep
    <3>2. CASE ProcessStops(r)
      <4>1. requests'[r].phase = "lost"
        BY <1>0, <2>1, <3>1, <3>2 DEF ProcessStops
      <4>2. QED
        BY <4>1 DEF r
    <3>3. CASE Is(r, "put") /\ UploadRoute(r)
      <4>1. CASE requests'[r].phase = "answered"
        <5>1. requests'[r].status \in {201, 500}
          BY <2>1, <2>3, <3>1, <3>3, <4>1, UploadAnswers DEF Is
        <5>2. QED
          BY <4>1, <5>1 DEF r
      <4>2. CASE requests'[r].phase # "answered"
        <5>1. \A status : ~Answered(r, status)
          <6>1. ASSUME NEW status, Answered(r, status) PROVE FALSE
            <7>1. requests'[r].phase = "answered"
              BY <2>1, <6>1, AnsweredIs
            <7>2. QED
              BY <4>2, <7>1
          <6>2. QED
            BY <6>1
        <5>2. PICK p \in PartNames : PutEnds(r, p)
          BY <3>3, <5>1 DEF UploadRoute, BodyRefused, UploadRefused, UploadStarts, PutFails,
                            Refuse, Is, PartNames
        <5>3. requests[r].waiting # {p}
          BY <5>1, <5>2 DEF PutEnds, Succeed
        <5>4. requests[r] \in [phase : {"put"}, ask : Asks, user : User,
                               waiting : SUBSET PartNames]
          BY <1>0, <2>1, <3>3 DEF Request, Is
        <5>5. requests'[r].phase = "put"
          BY <1>0, <2>1, <5>2, <5>3, <5>4 DEF PutEnds
        <5>6. QED
          BY <5>5 DEF r
      <4>3. QED
        BY <4>1, <4>2
    <3>4. Is(r, "put") \/ Is(r, "lost")
      BY <2>1, <3>1 DEF Is
    <3>5. Resolution(r) => FALSE
      BY <3>4 DEF Resolution, Arrive, SessionFound, SessionMissing, LookUp, LookUpFails,
                  GuardsRefuse, GuardsPass, PipesRefuse, Is
    <3>6. TenantRoute(r) => FALSE
      BY <3>4 DEF TenantRoute, CreateFinds, CreateSaves, CreateCollides, PatchFinds,
                  PatchWrites, PatchRereads, Remove, StatementFails, Is
    <3>7. ReadyRoute(r) => FALSE
      BY <3>4 DEF ReadyRoute, ProbeEnds, ProbeTimesOut, Is
    <3>8. UploadRoute(r) => Is(r, "put")
      BY <3>4 DEF UploadRoute, BodyRefused, UploadRefused, UploadStarts, PutFails, PutEnds, Is
    <3>9. QED
      BY <3>1, <3>2, <3>3, <3>5, <3>6, <3>7, <3>8 DEF StepOf
  <2>4. QED
    BY <2>2, <2>3
<1>3. QED
  BY <1>1, <1>2

\* Who is told that a file is stored finds all its parts, and of a file that was refused
\* nothing was ever sent (StorageController.upload).
THEOREM UploadsTellTheTruth == Spec => []UploadAnswersAreTrue
<1>1. Init => UploadInv
  BY DEF Init, UploadInv, PutsAreSound, StoredIsThere, ObjectsAreOfUploads, Is
<1>2. TypeInv /\ UploadInv /\ [Next]_vars => UploadInv'
  BY PutsStep, StoredStep, ObjectsStep DEF UploadInv
<1>3. UploadInv => UploadAnswersAreTrue
  BY DEF UploadInv, StoredIsThere, ObjectsAreOfUploads, UploadAnswersAreTrue, Is
<1>4. QED
  BY <1>1, <1>2, <1>3, Typed, PTL DEF Spec

---------------------------------------------------------------------------
(* What was seen of a user.                                                *)

Standing(u) == IF ActiveUser(u) THEN "active" ELSE "inactive"

\* What the user is now has been seen, until he is looked up.
SeenNow ==
  \A r \in Requests :
    requests[r].phase \in {"session", "lookup"} => Standing(requests[r].by) \in seen[r]

\* What he was looked up as, he was then.
FoundWasTrue ==
  \A r \in Requests :
    Is(r, "guards") /\ requests[r].user # NoUser =>
      IF requests[r].user.role = "SUPERADMIN"
      THEN "inactive" \in seen[r] /\ requests[r].by \in Superadmins
      ELSE "active" \in seen[r] /\ requests[r].user.userId = requests[r].by

SeenInv == SeenNow /\ FoundWasTrue

LEMMA SeenStep ==
  ASSUME TypeInv, SeenInv, [Next]_vars
  PROVE  SeenInv'
<1>0. requests \in [Requests -> Request]
  BY DEF TypeInv, TypeOK
<1>1. CASE UNCHANGED vars
  BY <1>1 DEF SeenInv, SeenNow, FoundWasTrue, Standing, ActiveUser, Live, Is, vars, stored
<1>2. CASE Next
  <2>1. Observe
    BY <1>2 DEF Next
  <2>2. SeenNow'
    BY <2>1 DEF Observe, SeenNow, Standing, Resolving, Is
  <2>3. ASSUME NEW r \in Requests, Is(r, "guards")', requests'[r].user # NoUser
        PROVE  IF requests'[r].user.role = "SUPERADMIN"
               THEN "inactive" \in seen'[r] /\ requests'[r].by \in Superadmins
               ELSE "active" \in seen'[r] /\ requests'[r].user.userId = requests'[r].by
    <3>1. seen'[r] = seen[r]
      BY <2>1, <2>3 DEF Observe, Resolving, Is
    <3>2. CASE requests'[r] = requests[r]
      BY <2>3, <3>1, <3>2 DEF SeenInv, FoundWasTrue, Is
    <3>3. CASE requests'[r] # requests[r]
      <4>1. StepOf(r)
        BY <3>3, MoversStep
      <4>2. \A status : ~Answered(r, status)
        <5>1. ASSUME NEW status, Answered(r, status) PROVE FALSE
          <6>1. requests'[r].phase = "answered"
            BY <5>1, AnsweredIs
          <6>2. QED
            BY <2>3, <6>1 DEF Is
        <5>2. QED
          BY <5>1
      <4>3. CASE LookUp(r)
        <5> DEFINE u == requests[r].by
                   found == CASE ActiveUser(u) ->
                              [userId |-> u, tenantId |-> TenantOf[u], role |-> RoleOf[u]]
                            [] ~ActiveUser(u) /\ u \in Superadmins ->
                              [userId |-> "superadmin", tenantId |-> NoTenant,
                               role |-> "SUPERADMIN"]
                            [] OTHER -> NoUser
        <5>1. Is(r, "lookup") /\ Resolved(r, found)
          BY <4>3 DEF LookUp
        <5>2. requests'[r].user = found /\ requests'[r].by = u
          BY <1>0, <5>1 DEF Resolved
        <5>3. Standing(u) \in seen[r]
          BY <5>1 DEF SeenInv, SeenNow, Is
        <5>4. CASE ActiveUser(u)
          <6>1. found = [userId |-> u, tenantId |-> TenantOf[u], role |-> RoleOf[u]]
            BY <5>4
          <6>2. RoleOf[u] # "SUPERADMIN"
            BY <5>4, UserAssumption DEF ActiveUser
          <6>3. "active" \in seen[r]
            BY <5>3, <5>4 DEF Standing
          <6>4. QED
            BY <3>1, <5>2, <6>1, <6>2, <6>3
        <5>5. CASE ~ActiveUser(u) /\ u \in Superadmins
          <6>1. found = [userId |-> "superadmin", tenantId |-> NoTenant, role |-> "SUPERADMIN"]
            BY <5>5
          <6>2. "inactive" \in seen[r]
            BY <5>3, <5>5 DEF Standing
          <6>3. QED
            BY <3>1, <5>2, <5>5, <6>1, <6>2
        <5>6. CASE ~ActiveUser(u) /\ u \notin Superadmins
          <6>1. found = NoUser
            BY <5>6
          <6>2. QED
            BY <2>3, <5>2, <6>1
        <5>7. QED
          BY <5>4, <5>5, <5>6
      <4>4. CASE LookUpFails(r) \/ SessionMissing(r)
        <5>1. requests'[r].user = NoUser
          BY <1>0, <4>4 DEF LookUpFails, SessionMissing, Resolved
        <5>2. QED
          BY <2>3, <5>1
      <4>5. LookUp(r) \/ LookUpFails(r) \/ SessionMissing(r)
        <5>1. requests'[r].phase = "guards"
          BY <2>3 DEF Is
        <5>2. QED
          BY <3>3, <4>1, <4>2, <5>1, WithoutAnswer
      <4>6. QED
        BY <4>3, <4>4, <4>5
    <3>4. QED
      BY <3>2, <3>3
  <2>4. QED
    BY <2>2, <2>3 DEF SeenInv, FoundWasTrue
<1>3. QED
  BY <1>1, <1>2

\* Nobody reaches a handler as a user of his tenant, or as a system administrator, unless
\* he was one at some moment while the request was resolved (TenantContextMiddleware,
\* then RolesGuard).
THEOREM OnlyTheAdmittedPass == Spec => AdmittedWereActive
<1>1. Init => SeenInv
  BY DEF Init, SeenInv, SeenNow, FoundWasTrue, Is
<1>2. TypeInv /\ SeenInv /\ [Next]_vars => SeenInv'
  BY SeenStep
<1>3. SeenInv => \A r \in Requests :
                   GuardsPass(r) /\ ~Public(Asked(r).route)
                     => IF requests[r].user.role = "SUPERADMIN"
                        THEN "inactive" \in seen[r] /\ requests[r].by \in Superadmins
                        ELSE "active" \in seen[r] /\ requests[r].user.userId = requests[r].by
  BY DEF SeenInv, FoundWasTrue, GuardsPass
<1>4. QED
  BY <1>1, <1>2, <1>3, Typed, PTL DEF Spec, AdmittedWereActive

=============================================================================
