SPECIFICATION Spec
CONSTANTS
  p1 = p1
  p2 = p2
  MaxRuns = 2
  Procs = {p1, p2}
  Retain = 1
  MaxApproved = 1
  MaxDisturbed = 1
SYMMETRY ProcSymmetry
INVARIANTS TypeOK LogExplainsStatus GatesPassed
