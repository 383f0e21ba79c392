SPECIFICATION Spec
CONSTANTS
  Conn = {c1, c2}
  NoUser = NoUser
  User = {alice}
  Ip = {lan}
  DiagUser = diag
  Loopback = loopback
  MaxConnections = 2
  AuthTimeout = 1
  ScanEvery = 1
  Grace = 2
PROPERTY UnauthorizedDropped
