CONSTANTS
  d2 = d2
  d1 = d1
  Doc = {d2, d1}
  Length <- MCLength
  Pieces = 2
  Writer = {w1}
  Reader = {r1}
  File = {f1, f2, f3}
  Alone = TRUE
  Ordered = TRUE
  Hole = Hole
  None = None
SPECIFICATION Spec
INVARIANTS ReadWhole
PROPERTIES WrittenAtomically
SYMMETRY Files
