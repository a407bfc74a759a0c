CONSTANTS
  t1 = t1
  t2 = t2
  t3 = t3
  c1 = c1
  c2 = c2
  c3 = c3
  c4 = c4
  c5 = c5
  Threads <- MCThreads2
  Conns <- MCConns4
  kMaxClients = 1
  DefaultUser = "p4user"
  DefaultPasswd = "p4passwd"
  Users <- MCUsers
  Passwds <- MCPasswds
  OutputLen = 2
  MaxCalls = 2
  MaxDrops = 1
  None = None
SPECIFICATION Spec
INVARIANT TypeOK
INVARIANT ExactlyOneOwner
INVARIANT RunsWithRequestedCreds
SYMMETRY MCSymmetry
