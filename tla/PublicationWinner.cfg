SPECIFICATION Spec
CONSTANTS
  a = a
  b = b
  n1 = n1
  u1 = u1
  u2 = u2
  u3 = u3
  u4 = u4
  p1 = p1
  p2 = p2
  None = None
  Empty = e
  Dir = dir
  StatDir = statdir
  Proc = {p1, p2}
  Name = {a}
  Uuid = {n1, u1, u2, u3, u4}
  Bytes = {e, x}
  InitNodes <- OnlyFile
  InitData <- Contents
  MaxEtag = 1
  MaxCrashes = 1
  MaxEdits = 0
  EditPending = FALSE
CHECK_DEADLOCK FALSE
SYMMETRY WinnerSymmetry
INVARIANTS OneWinner
