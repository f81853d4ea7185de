CONSTANTS
  watcher = watcher
  second = second
  analyst = analyst
  checkpoint = checkpoint
  answer = answer
  secret = secret
  alert = alert
  foreign = foreign
  inv = inv
  other = other
  A = A
  B = B
  Clients = {watcher, second, analyst}
  Slow = {second, analyst}
  Invs = {inv, other}
  Events = {checkpoint, answer, secret, alert, foreign}
  UserOf <- MCUserOf
  OrgOf <- MCOrgOf
  RouteOf <- MCRouteOf
  Access <- MCAccess
  EventOf <- MCEventOf
  Global = Global
  LIMIT = 2
  MAX_PER_USER = 1
  Scenarios <- MCScenarios
  None = None
SPECIFICATION FairSpec
INVARIANTS
  QueueBound
  ConnectionLimit
  ExactlyOnce
  InOrder
  TenantIsolation
PROPERTIES
  FastClientsServed
  CriticalYieldsToCritical
CHECK_DEADLOCK FALSE
