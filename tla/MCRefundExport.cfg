SPECIFICATION Spec
CONSTANTS
  o1 = o1
  o2 = o2
  r1 = r1
  r2 = r2
  u1 = u1
  u2 = u2
  Orders = {o1, o2}
  Receipts = {r1, r2}
  MaxAmount = 2
  Days = {1, 2}
  Files <- MCFiles
  Revenues <- MCRevenues
  InitialRevenue <- MCSmall
  Uploads <- MCChange
  Repairs <- MCChange
  Sessions = {u1, u2}
  Operator = Operator
  None = None
  MaxVersions = 2
  MaxEvents = 3
  MaxPages = 1
INVARIANTS TypeOK EventsExplainActive NewestIsCurrent PublishedIsFull ShownIsOfItsRevenue
SYMMETRY SessionSymmetry
