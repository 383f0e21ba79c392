SPECIFICATION Spec
CONSTANTS
  Conn = {c1, c2}
  NoUser = NoUser
  User = {alice, diag}
  Ip = {lan, loopback}
  DiagUser = diag
  Loopback = loopback
  MaxConnections = 2
  AuthTimeout = 1
  ScanEvery = 1
  Grace = 2
INVARIANTS TypeOK NoTwins OneAlertPerAbsence LossArmed
PROPERTIES LossReported IdleDropped
