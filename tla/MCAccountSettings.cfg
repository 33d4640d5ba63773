SPECIFICATION Spec
CONSTANTS
  Users = {u1}
  Passwords = {w1, w2}
  Pins = {p1, p2}
  None = None
  Null = Null
  MaxOps = 4
  MaxDepth = 3
SYMMETRY Symmetry
INVARIANTS ListAgrees
PROPERTIES FileKept
