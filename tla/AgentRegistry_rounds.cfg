CONSTANTS
  a1 = a1
  c1 = c1
  c2 = c2
  n1 = n1
  n2 = n2
  None = None
  Admin = Admin
  Agents = {a1}
  Conns = {c1, c2}
  Rounds = {n1, n2}
SPECIFICATION FairSpec
INVARIANTS TypeOK ServedIsOnline DisabledOnlyLate PendingAccounted
PROPERTIES ImplementsExchange RequestsEnd
