SPECIFICATION RoomsSpec
CONSTANTS
  a = a
  b = b
  c1 = c1
  t1 = t1
  t2 = t2
  Users = {a, b, c1}
  Founders = {a, b, c1}
  Tenants = {t1, t2}
  TenantOf <- TwoTenants
  EmailOf <- Emails
  Absent = Absent
  Nobody = Nobody
  Asks <- SessionAsks
  Visitors = {b}
  Requests = {r1}
  Procs = {p}
  Sockets = {s}
  NoTenant = NoTenant
  Origins = {site, elsewhere}
  NoOrigin = NoOrigin
  AllowedOrigins = {site}
CHECK_DEADLOCK FALSE
INVARIANTS
  RoomsTypeOK
  DeletedHasNoIdentity
  EventsStayInTenant
PROPERTIES
  PasswordChangeEndsOldSessions
  TenantsDoNotTouch
  OnlyActiveUsersJoin
  UnauthorizedIsDeserved
