SPECIFICATION Spec
CONSTANTS
  a = a
  b = b
  n = n
  t1 = t1
  Users = {a, b}
  Founders = {a, b}
  Tenants = {t1}
  TenantOf <- OneTenant
  EmailOf <- Emails
  Absent = Absent
  Nobody = Nobody
  Asks <- Activations
  Visitors = {}
  Requests = {r1, r2}
CHECK_DEADLOCK FALSE
SYMMETRY Symmetry
INVARIANT TenantKeepsAnAdmin
