----------------------------- MODULE RequestPipeline -----------------------------
(***************************************************************************)
(* What a request goes through from the middleware to the answer, and what *)
(* is left of it afterwards: the tenants table, the bucket and the audit   *)
(* log.  The routes are those of the tenants (system administrators), the  *)
(* upload (users of a tenant) and readiness (public).  Each await is a     *)
(* step; a process may stop, and statements and calls may fail, at each.   *)
(***************************************************************************)
EXTENDS Naturals, FiniteSets

CONSTANTS
  Requests,     \* the requests of a behaviour
  Asks,         \* what they may ask for
  Users, Nobody,\* who has a session, and who has none
  TenantOf,     \* TenantOf[u], for the users that have a row
  RoleOf,       \* RoleOf[u], for the same
  Superadmins,  \* SUPERADMIN_SUPERTOKENS_IDS
  Tenants,      \* ids of tenants
  Documents,    \* documents (CNPJ) of tenants, as they are written
  Founders,     \* Founders[t]: document of a tenant that exists from the start
  Names,        \* names of tenants; a PATCH need not name one
  FirstName,    \* the name tenants are created with
  Changing,     \* bound: members whose row may become active or inactive
  Absent,       \* a field that a PATCH does not name
  NoTenant      \* tenantId of a system administrator: ''

Members == DOMAIN TenantOf

ASSUME UserAssumption ==
  /\ Members \subseteq Users /\ Superadmins \subseteq Users /\ Nobody \notin Users
  /\ TenantOf \in [Members -> DOMAIN Founders] /\ Changing \subseteq Members
  /\ RoleOf \in [Members -> {"ADMIN", "USER"}]
ASSUME TenantAssumption ==
  /\ DOMAIN Founders \subseteq Tenants /\ Founders \in [DOMAIN Founders -> Documents]
  /\ NoTenant \notin Tenants
  /\ FirstName \in Names /\ Absent \notin Names \cup BOOLEAN
\* What the schemas and the routes let a client ask for.  A file is what the client
\* declares and what its first bytes say.
Ask ==
  [route : {"ready"}]
  \cup [route : {"create"}, document : Documents]
  \cup [route : {"patch"}, id : Tenants, name : Names \cup {Absent},
        isActive : BOOLEAN \cup {Absent}]
  \cup [route : {"remove"}, id : Tenants]
  \cup [route : {"upload"},
        file : [declared : {"image", "pdf", "other"}, detected : {"image", "pdf", "other"}]]

ASSUME AskAssumption == Asks \subseteq Ask
ASSUME FoundersDiffer ==
  \A t, u \in DOMAIN Founders : Founders[t] = Founders[u] => t = u

VARIABLES
  requests,   \* requests[r]
  tenants,    \* the table app_tenants, a function on ids
  inactive,   \* users whose row is inactive or removed
  sent,       \* objects on their way to the bucket
  bucket,     \* objects in the bucket
  saving,     \* audit records whose INSERT is under way
  auditLog,   \* the table audit_logs
  seen,       \* history: seen[r]: what the user of r was while r was resolved
  changed,    \* history: requests that changed a row of app_tenants
  faulted,    \* history: requests that met a failure
  raced       \* history: requests whose row another one wrote while they ran

stored == <<inactive, sent, bucket, saving, auditLog>>
vars   == <<requests, tenants, stored, seen, changed, faulted, raced>>

Is(r, phase) == requests[r].phase = phase
Asked(r)     == requests[r].ask

---------------------------------------------------------------------------
(* Tables.                                                                 *)

Live(t) == t \in DOMAIN tenants /\ ~tenants[t].deleted

\* findActiveBySupertokensUserId
ActiveUser(u) ==
  u \in Members /\ u \notin inactive /\ Live(TenantOf[u]) /\ tenants[TenantOf[u]].isActive

\* The unique index on document, over rows that are not removed.
Taken(document) == \E t \in DOMAIN tenants : Live(t) /\ tenants[t].document = document

With(t, row) == [u \in DOMAIN tenants \cup {t} |-> IF u = t THEN row ELSE tenants[u]]

---------------------------------------------------------------------------
(* Answers.                                                                *)

\* GlobalExceptionFilter: what neither the domain nor Nest threw is a 500.
Status(exception) == IF exception.kind = "unknown" THEN 500 ELSE exception.status

Domain(status) == [kind |-> "domain", status |-> status]
Http(status)   == [kind |-> "http", status |-> status]
Unknown        == [kind |-> "unknown"]

Answered(r, status) ==
  requests' = [requests EXCEPT ![r] =
    [phase |-> "answered", ask |-> @.ask, user |-> @.user, status |-> status]]

Refuse(r, exception) == Answered(r, Status(exception))

\* AuditLogInterceptor: what it notes of a write that succeeded.
Record(r, entity) ==
  LET user == requests[r].user IN
  [request |-> r, user |-> user.userId, tenant |-> user.tenantId,
   action |-> CASE Asked(r).route = "patch"  -> "UPDATE"
                [] Asked(r).route = "remove" -> "DELETE"
                [] OTHER                     -> "CREATE",
   entity |-> entity]

\* The INSERT of the record is started when the handler has returned; the answer does
\* not wait for it.
Succeed(r, status, entity) ==
  /\ Answered(r, status)
  /\ saving' = saving \cup {Record(r, entity)}

---------------------------------------------------------------------------
(* TenantContextMiddleware and the guards.                                 *)

Resolved(r, user) ==
  requests' = [requests EXCEPT ![r] =
    [phase |-> "guards", ask |-> @.ask, by |-> @.by, user |-> user]]

\* request.user is undefined.
NoUser == [userId |-> Nobody, tenantId |-> NoTenant, role |-> "none"]

Arrive(r, by, ask) ==
  /\ Is(r, "none")
  /\ requests' = [requests EXCEPT ![r] = [phase |-> "session", ask |-> ask, by |-> by]]
  /\ UNCHANGED <<tenants, stored, changed, faulted, raced>>

SessionFound(r) ==
  /\ Is(r, "session")
  /\ requests[r].by # Nobody
  /\ requests' = [requests EXCEPT ![r].phase = "lookup"]
  /\ UNCHANGED <<tenants, stored, changed, faulted, raced>>

\* The session is over, or there is none, or the provider fails: request.user stays
\* undefined and SuperTokensAuthGuard finds no session either.
SessionMissing(r) ==
  /\ Is(r, "session")
  /\ requests' = [requests EXCEPT ![r] =
       [phase |-> "guards", ask |-> @.ask, by |-> Nobody, user |-> NoUser]]
  /\ UNCHANGED <<tenants, stored, changed, faulted, raced>>

\* Bug: the row is looked up without regard to its tenant.
LookUp_IgnoresTenant(r) ==
  LET u == requests[r].by IN
  /\ Is(r, "lookup")
  /\ Resolved(r, CASE u \in Members \ inactive ->
                        [userId |-> u, tenantId |-> TenantOf[u], role |-> RoleOf[u]]
                   [] u \notin Members \ inactive /\ u \in Superadmins ->
                        [userId |-> "superadmin", tenantId |-> NoTenant, role |-> "SUPERADMIN"]
                   [] OTHER -> NoUser)
  /\ UNCHANGED <<tenants, stored, changed, faulted, raced>>

\* A row that is active comes first; the list of system administrators is asked only
\* for who has none.
LookUp(r) ==
  LET u == requests[r].by IN
  /\ Is(r, "lookup")
  /\ Resolved(r, CASE ActiveUser(u) ->
                        [userId |-> u, tenantId |-> TenantOf[u], role |-> RoleOf[u]]
                   [] ~ActiveUser(u) /\ u \in Superadmins ->
                        [userId |-> "superadmin", tenantId |-> NoTenant, role |-> "SUPERADMIN"]
                   [] OTHER -> NoUser)
  /\ UNCHANGED <<tenants, stored, changed, faulted, raced>>

\* The catch of the middleware: no user, but the session is good.
LookUpFails(r) ==
  /\ Is(r, "lookup")
  /\ Resolved(r, NoUser)
  /\ faulted' = faulted \cup {r}
  /\ UNCHANGED <<tenants, stored, changed, raced>>

\* The roles a route asks for.
Roles(route) == IF route = "upload" THEN {"ADMIN", "USER"} ELSE {"SUPERADMIN"}

Public(route) == route = "ready"

\* RolesGuard
HasRole(user, route) == user.role = "SUPERADMIN" \/ user.role \in Roles(route)

\* TenantGuard
HasTenant(user) == user.role = "SUPERADMIN" \/ user.tenantId # NoTenant

GuardsRefuse(r) ==
  LET route == Asked(r).route
      user  == requests[r].user
  IN /\ Is(r, "guards")
     /\ \/ ~Public(route) /\ requests[r].by = Nobody /\ Refuse(r, Http(401))
        \/ /\ ~Public(route) /\ requests[r].by # Nobody
           /\ user = NoUser \/ ~HasRole(user, route) \/ ~HasTenant(user)
           /\ Refuse(r, Http(403))
        \/ Refuse(r, Http(429))  \* ThrottlerGuard
     /\ UNCHANGED <<tenants, stored, changed, faulted, raced>>

Dependencies == {"database", "storage", "redis"}

\* What the handler of a route begins with.
Handling(route, ask, user) ==
  IF route = "ready"
  THEN [phase |-> "probe", ask |-> ask, user |-> user, waiting |-> Dependencies,
        failed |-> FALSE]
  ELSE [phase |-> route, ask |-> ask, user |-> user]

\* Bug: the record is saved when the handler is called, not when it has returned.
GuardsPass_RecordsFirst(r) ==
  LET route == Asked(r).route
      user  == requests[r].user
  IN /\ Is(r, "guards")
     /\ Public(route) \/ (user # NoUser /\ HasRole(user, route) /\ HasTenant(user))
     /\ requests' = [requests EXCEPT ![r] = Handling(route, @.ask, @.user)]
     /\ saving' = saving \cup IF Public(route) THEN {} ELSE {Record(r, "unknown")}
     /\ UNCHANGED <<tenants, inactive, sent, bucket, auditLog, changed, faulted, raced>>

GuardsPass(r) ==
  LET route == Asked(r).route
      user  == requests[r].user
  IN /\ Is(r, "guards")
     /\ Public(route) \/ (user # NoUser /\ HasRole(user, route) /\ HasTenant(user))
     /\ requests' = [requests EXCEPT ![r] = Handling(route, @.ask, @.user)]
     /\ UNCHANGED <<tenants, stored, changed, faulted, raced>>

\* UuidValidationPipe and ZodValidationPipe, before the handler.
PipesRefuse(r) ==
  /\ requests[r].phase \in {"create", "patch", "remove"}
  /\ Refuse(r, Http(400))
  /\ UNCHANGED <<tenants, stored, changed, faulted, raced>>

---------------------------------------------------------------------------
(* TenantController.                                                       *)

\* Other requests that are between two statements on row t.
Racing(r, t) ==
  {s \in Requests \ {r} : requests[s].phase \in {"write", "reread"} /\ Asked(s).id = t}

Write(r, t, row) ==
  /\ tenants' = With(t, row)
  /\ changed' = IF tenants' # tenants THEN changed \cup {r} ELSE changed
  /\ raced' = raced \cup Racing(r, t)

CreateFinds(r) ==
  /\ Is(r, "create")
  /\ IF Taken(Asked(r).document)
     THEN Refuse(r, Domain(409))
     ELSE requests' = [requests EXCEPT ![r].phase = "save"]
  /\ UNCHANGED <<tenants, stored, changed, faulted, raced>>

NewRow(r) ==
  [document |-> Asked(r).document, name |-> FirstName, isActive |-> TRUE, deleted |-> FALSE]

\* Bug: the index is not there, and the check is all there is.
CreateSaves_NoIndex(r) ==
  /\ Is(r, "save")
  /\ \E t \in Tenants \ DOMAIN tenants : Write(r, t, NewRow(r)) /\ Succeed(r, 201, t)
  /\ UNCHANGED <<inactive, sent, bucket, auditLog, faulted>>

CreateSaves(r) ==
  /\ Is(r, "save")
  /\ ~Taken(Asked(r).document)
  /\ \E t \in Tenants \ DOMAIN tenants : Write(r, t, NewRow(r)) /\ Succeed(r, 201, t)
  /\ UNCHANGED <<inactive, sent, bucket, auditLog, faulted>>

\* Who lost the race for the document is told of an internal error.
CreateCollides(r) ==
  /\ Is(r, "save")
  /\ Taken(Asked(r).document)
  /\ Refuse(r, Unknown)
  /\ UNCHANGED <<tenants, stored, changed, faulted, raced>>

Patched(row, ask) ==
  [row EXCEPT !.name = IF ask.name = Absent THEN @ ELSE ask.name,
              !.isActive = IF ask.isActive = Absent THEN @ ELSE ask.isActive]

\* Bug: the row is not looked for first.
PatchFinds_Assumes(r) ==
  /\ Is(r, "patch")
  /\ IF Asked(r).id \in DOMAIN tenants
     THEN requests' = [requests EXCEPT ![r] =
            [phase |-> "write", ask |-> @.ask, user |-> @.user,
             row |-> Patched(tenants[Asked(r).id], Asked(r))]]
     ELSE Refuse(r, Domain(404))
  /\ UNCHANGED <<tenants, stored, changed, faulted, raced>>

PatchFinds(r) ==
  /\ Is(r, "patch")
  /\ IF Live(Asked(r).id)
     THEN requests' = [requests EXCEPT ![r] =
            [phase |-> "write", ask |-> @.ask, user |-> @.user,
             row |-> Patched(tenants[Asked(r).id], Asked(r))]]
     ELSE Refuse(r, Domain(404))
  /\ UNCHANGED <<tenants, stored, changed, faulted, raced>>

\* UPDATE of every column that a PATCH may name, removed or not.
Updated(r) ==
  [tenants[Asked(r).id] EXCEPT !.name = requests[r].row.name,
                               !.isActive = requests[r].row.isActive]

PatchWrites(r) ==
  /\ Is(r, "write")
  /\ Write(r, Asked(r).id, Updated(r))
  /\ requests' = [requests EXCEPT ![r] =
       [phase |-> "reread", ask |-> @.ask, user |-> @.user]]
  /\ UNCHANGED <<stored, faulted>>

\* findOneOrFail
PatchRereads(r) ==
  /\ Is(r, "reread")
  /\ IF Live(Asked(r).id)
     THEN Succeed(r, 200, Asked(r).id)
     ELSE Refuse(r, Unknown) /\ UNCHANGED saving
  /\ UNCHANGED <<tenants, inactive, sent, bucket, auditLog, changed, faulted, raced>>

\* softDelete answers 204 whether there is such a row or not.
Remove(r) ==
  LET t == Asked(r).id IN
  /\ Is(r, "remove")
  /\ IF t \in DOMAIN tenants
     THEN Write(r, t, [tenants[t] EXCEPT !.deleted = TRUE])
     ELSE UNCHANGED <<tenants, changed, raced>>
  /\ Succeed(r, 204, t)
  /\ UNCHANGED <<inactive, sent, bucket, auditLog, faulted>>

\* A statement fails.  One that writes may have been committed all the same.
StatementFails(r) ==
  /\ requests[r].phase \in {"create", "save", "patch", "write", "reread", "remove"}
  /\ \/ UNCHANGED <<tenants, changed, raced>>
     \/ /\ Is(r, "save") /\ ~Taken(Asked(r).document)
        /\ \E t \in Tenants \ DOMAIN tenants : Write(r, t, NewRow(r))
     \/ Is(r, "write") /\ Write(r, Asked(r).id, Updated(r))
     \/ /\ Is(r, "remove") /\ Asked(r).id \in DOMAIN tenants
        /\ Write(r, Asked(r).id, [tenants[Asked(r).id] EXCEPT !.deleted = TRUE])
  /\ Refuse(r, Unknown)
  /\ faulted' = faulted \cup {r}
  /\ UNCHANGED stored

---------------------------------------------------------------------------
(* StorageController.                                                      *)

Allowed == {"image", "pdf"}

\* The keys under the prefix of the tenant: an image is stored with its thumbnail.
Parts(file) == IF file.detected = "image" THEN {"optimized", "thumbnail"} ELSE {"original"}

Object(r, part) == [request |-> r, tenant |-> requests[r].user.tenantId, part |-> part]

\* FileInterceptor: the body is over its limits, which is told before anything else.
BodyRefused(r) ==
  /\ Is(r, "upload")
  /\ \E status \in {400, 413} : Refuse(r, Http(status))
  /\ UNCHANGED <<tenants, stored, changed, faulted, raced>>

UploadRefused(r) ==
  LET file == Asked(r).file IN
  /\ Is(r, "upload")
  /\ \/ requests[r].user.tenantId = NoTenant
     \/ file.declared \notin Allowed \/ file.declared # file.detected
     \/ file.detected = "image"  \* sharp cannot read it
  /\ Refuse(r, Domain(400))
  /\ UNCHANGED <<tenants, stored, changed, faulted, raced>>

\* The calls for all parts are made before one is waited for.
UploadStarts(r) ==
  LET file == Asked(r).file IN
  /\ Is(r, "upload")
  /\ requests[r].user.tenantId # NoTenant
  /\ file.declared \in Allowed /\ file.declared = file.detected
  /\ requests' = [requests EXCEPT ![r] =
       [phase |-> "put", ask |-> @.ask, user |-> @.user, waiting |-> Parts(file)]]
  /\ sent' = sent \cup {Object(r, part) : part \in Parts(file)}
  /\ UNCHANGED <<tenants, inactive, bucket, saving, auditLog, changed, faulted, raced>>

ObjectArrives(o) ==
  /\ sent' = sent \ {o}
  /\ bucket' = bucket \cup {o}
  /\ UNCHANGED <<requests, tenants, inactive, saving, auditLog, changed, faulted, raced>>

\* Bug: the first upload that ends answers for all.
PutEnds_Any(r, part) ==
  /\ Is(r, "put") /\ part \in requests[r].waiting
  /\ Object(r, part) \in bucket
  /\ Succeed(r, 201, "unknown")
  /\ UNCHANGED <<tenants, inactive, sent, bucket, auditLog, changed, faulted, raced>>

\* The answer of an upload has no id, and so its record has none.
PutEnds(r, part) ==
  /\ Is(r, "put") /\ part \in requests[r].waiting
  /\ Object(r, part) \in bucket
  /\ IF requests[r].waiting = {part}
     THEN Succeed(r, 201, "unknown")
     ELSE /\ requests' = [requests EXCEPT ![r].waiting = @ \ {part}]
          /\ UNCHANGED saving
  /\ UNCHANGED <<tenants, inactive, sent, bucket, auditLog, changed, faulted, raced>>

\* Bug: without throwOnRequestTimeout only an error that S3 answers ends the wait.
PutFails_OnlyIfAnswered(r) ==
  /\ Is(r, "put")
  /\ sent = {}
  /\ Refuse(r, Unknown)
  /\ faulted' = faulted \cup {r}
  /\ UNCHANGED <<tenants, stored, changed, raced>>

\* A call for one part gives up after its timeout and attempts.  Its object may be in
\* the bucket or get there later, and so may the other part.
PutFails(r) ==
  /\ Is(r, "put")
  /\ Refuse(r, Unknown)
  /\ faulted' = faulted \cup {r}
  /\ UNCHANGED <<tenants, stored, changed, raced>>

---------------------------------------------------------------------------
(* HealthController: the probes run at the same time and all are awaited.  *)

ProbeEnds(r, d, up) ==
  LET failed == requests[r].failed \/ ~up IN
  /\ Is(r, "probe") /\ d \in requests[r].waiting
  /\ IF requests[r].waiting = {d}
     THEN Answered(r, IF failed THEN 503 ELSE 200)
     ELSE requests' = [requests EXCEPT ![r].waiting = @ \ {d}, ![r].failed = failed]
  /\ UNCHANGED <<tenants, stored, changed, faulted, raced>>

\* Each has a timeout of its own.
ProbeTimesOut(r, d) == ProbeEnds(r, d, FALSE)

---------------------------------------------------------------------------
(* The rest.                                                               *)

RecordSaved(a) ==
  /\ saving' = saving \ {a}
  /\ auditLog' = auditLog \cup {a}
  /\ UNCHANGED <<requests, tenants, inactive, sent, bucket, changed, faulted, raced>>

\* The INSERT fails, committed or not: the error is logged and nothing else.
RecordFails(a) ==
  /\ saving' = saving \ {a}
  /\ auditLog' \in {auditLog, auditLog \cup {a}}
  /\ faulted' = faulted \cup {a.request}
  /\ UNCHANGED <<requests, tenants, inactive, sent, bucket, changed, raced>>

\* The process of r stops.  What it has sent may still arrive.
ProcessStops(r) ==
  /\ ~Is(r, "none")
  /\ requests' = IF Is(r, "answered") THEN requests
                 ELSE [requests EXCEPT ![r] = [phase |-> "lost", ask |-> @.ask]]
  /\ \E a \in SUBSET {x \in saving : x.request = r} : auditLog' = auditLog \cup a
  /\ saving' = {x \in saving : x.request # r}
  /\ faulted' = faulted \cup {r}
  /\ UNCHANGED <<tenants, inactive, sent, bucket, changed, raced>>

\* Users are activated, deactivated and removed (module UserAccounts).
UserChanges(u) ==
  /\ inactive' \in {inactive \cup {u}, inactive \ {u}}
  /\ UNCHANGED <<requests, tenants, sent, bucket, saving, auditLog, changed, faulted, raced>>

\* What the user of a request is after this step, and was before, until it is resolved.
Resolving(r) == requests[r].phase \in {"session", "lookup", "guards"}

Observe ==
  seen' = [r \in Requests |->
    IF ~Resolving(r)' THEN {}
    ELSE IF Is(r, "guards")' THEN seen[r]
    ELSE seen[r] \cup {IF ActiveUser(requests[r].by)' THEN "active" ELSE "inactive"}]

Init ==
  /\ requests = [r \in Requests |-> [phase |-> "none"]]
  /\ tenants = [t \in DOMAIN Founders |->
       [document |-> Founders[t], name |-> FirstName, isActive |-> TRUE, deleted |-> FALSE]]
  /\ inactive = {}
  /\ sent = {} /\ bucket = {}
  /\ saving = {} /\ auditLog = {}
  /\ seen = [r \in Requests |-> {}]
  /\ changed = {} /\ faulted = {} /\ raced = {}

Resolution(r) ==
  \/ \E by \in Users \cup {Nobody}, ask \in Asks : Arrive(r, by, ask)
  \/ SessionFound(r) \/ SessionMissing(r) \/ LookUp(r) \/ LookUpFails(r)
  \/ GuardsRefuse(r) \/ GuardsPass(r) \/ PipesRefuse(r)

TenantRoute(r) ==
  \/ CreateFinds(r) \/ CreateSaves(r) \/ CreateCollides(r)
  \/ PatchFinds(r) \/ PatchWrites(r) \/ PatchRereads(r)
  \/ Remove(r) \/ StatementFails(r)

UploadRoute(r) ==
  \/ BodyRefused(r) \/ UploadRefused(r) \/ UploadStarts(r) \/ PutFails(r)
  \/ \E part \in {"optimized", "thumbnail", "original"} : PutEnds(r, part)

ReadyRoute(r) == \E d \in Dependencies : ProbeEnds(r, d, TRUE) \/ ProbeTimesOut(r, d)

Next ==
  /\ \/ \E r \in Requests :
          \/ Resolution(r) \/ TenantRoute(r) \/ UploadRoute(r) \/ ReadyRoute(r)
          \/ ProcessStops(r)
     \/ \E o \in sent : ObjectArrives(o)
     \/ \E a \in saving : RecordSaved(a) \/ RecordFails(a)
     \/ \E u \in Changing : UserChanges(u)
  /\ Observe

\* The timeouts of the S3 client and of the probes: nothing else that a request waits
\* for has one.
Fairness ==
  \A r \in Requests :
    WF_vars(PutFails(r) /\ Observe) /\ \A d \in Dependencies : WF_vars(ProbeTimesOut(r, d) /\ Observe)

Spec == Init /\ [][Next]_vars /\ Fairness

---------------------------------------------------------------------------
(* Properties.                                                             *)

\* Type invariant, with the unique index of app_tenants: two rows that are not removed
\* never have the same document, whatever creations run against each other.
Row  == [document : Documents, name : Names, isActive : BOOLEAN, deleted : BOOLEAN]
User ==
  {NoUser}
  \cup [userId : Users \cup {"superadmin"}, tenantId : Tenants \cup {NoTenant},
        role : {"ADMIN", "USER", "SUPERADMIN"}]
PartNames == {"optimized", "thumbnail", "original"}
Objects   == [request : Requests, tenant : Tenants, part : PartNames]
Records   == [request : Requests, user : Users \cup {"superadmin"},
              tenant : Tenants \cup {NoTenant}, action : {"CREATE", "UPDATE", "DELETE"},
              entity : Tenants \cup {"unknown"}]
Request ==
  [phase : {"none"}]
  \cup [phase : {"lost"}, ask : Asks]
  \cup [phase : {"session", "lookup"}, ask : Asks, by : Users \cup {Nobody}]
  \cup [phase : {"guards"}, ask : Asks, by : Users \cup {Nobody}, user : User]
  \cup [phase : {"create", "save", "patch", "reread", "remove", "upload"}, ask : Asks,
        user : User]
  \cup [phase : {"write"}, ask : Asks, user : User, row : Row]
  \cup [phase : {"put"}, ask : Asks, user : User, waiting : SUBSET PartNames]
  \cup [phase : {"probe"}, ask : Asks, user : User, waiting : SUBSET Dependencies,
        failed : BOOLEAN]
  \cup [phase : {"answered"}, ask : Asks, user : User,
        status : {200, 201, 204, 400, 401, 403, 404, 409, 413, 429, 500, 503}]

TypeOK ==
  /\ requests \in [Requests -> Request]
  /\ DOMAIN tenants \subseteq Tenants /\ tenants \in [DOMAIN tenants -> Row]
  /\ \A t, u \in DOMAIN tenants :
       Live(t) /\ Live(u) /\ tenants[t].document = tenants[u].document => t = u
  /\ inactive \subseteq Members
  /\ sent \subseteq Objects /\ bucket \subseteq Objects
  /\ saving \subseteq Records /\ auditLog \subseteq Records
  /\ seen \in [Requests -> SUBSET {"active", "inactive"}]
  /\ changed \subseteq Requests /\ faulted \subseteq Requests /\ raced \subseteq Requests

\* Nobody reaches a handler as a user of his tenant who was deactivated, or whose tenant
\* was closed, for as long as the request took to be resolved; and nobody reaches one
\* as a system administrator who has an active row (TenantContextMiddleware).
AdmittedWereActive ==
  [][\A r \in Requests :
       GuardsPass(r) /\ ~Public(Asked(r).route)
         => IF requests[r].user.role = "SUPERADMIN"
            THEN "inactive" \in seen[r] /\ requests[r].by \in Superadmins
            ELSE "active" \in seen[r] /\ requests[r].user.userId = requests[r].by]_vars

\* The audit log holds no record of a request that was refused, failed or never ended,
\* and none under another name than that of who made it (AuditLogInterceptor).
RecordsAreOfSuccesses ==
  \A a \in auditLog \cup saving :
    /\ requests[a.request].phase = "answered" /\ requests[a.request].status \in 200 .. 299
    /\ a.user = requests[a.request].user.userId

\* A change of a tenant that leaves no record is the work of a request that met a
\* failure or lost a race for the row; an error alone does not mean that nothing was
\* changed (TenantController.update, AuditLogInterceptor).
ChangesAreRecorded ==
  \A r \in changed :
    \/ Is(r, "reread")
    \/ \E a \in auditLog \cup saving : a.request = r
    \/ r \in faulted \cup raced

\* Who is told that a file is stored finds all its parts under the prefix of his
\* tenant, and of a file that was refused nothing is stored (StorageController.upload).
UploadAnswersAreTrue ==
  \A r \in Requests :
    Is(r, "answered") /\ Asked(r).route = "upload" =>
      /\ requests[r].status = 201
           => \A part \in Parts(Asked(r).file) : Object(r, part) \in bucket
      /\ requests[r].status \in 400 .. 499
           => \A o \in sent \cup bucket : o.request # r

\* An upload that has reached S3 and a readiness check are answered although S3, Redis or
\* the database accepts connections and never answers (comments of S3StorageAdapter and
\* of the health indicators).  The statements before the puts have no timeout.
StorageNeverHangsARequest ==
  \A r \in Requests :
    requests[r].phase \in {"put", "probe"} ~> requests[r].phase \in {"answered", "lost"}
=============================================================================
