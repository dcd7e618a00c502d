SPECIFICATION Spec
CONSTANTS
  member = member
  listed = listed
  t1 = t1
  t2 = t2
  t3 = t3
  cnpj = cnpj
  other = other
  Requests = {r1, r2}
  Asks <- RouteAsks
  Users = {member, listed}
  Nobody = Nobody
  TenantOf <- OneTeam
  RoleOf <- TeamRoles
  Superadmins = {listed}
  Tenants = {t1, t2, t3}
  Documents = {cnpj, other}
  Founders <- OneTenant
  Names = {n}
  FirstName = n
  Changing = {listed}
  Absent = Absent
  NoTenant = NoTenant
CHECK_DEADLOCK FALSE
INVARIANTS
  TypeOK
  RecordsAreOfSuccesses
  ChangesAreRecorded
  UploadAnswersAreTrue
PROPERTIES
  AdmittedWereActive
  StorageNeverHangsARequest
