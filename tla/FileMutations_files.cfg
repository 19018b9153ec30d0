SPECIFICATION Spec
CONSTANTS
  p1 = p1  p2 = p2  f1 = f1  x = x  y = y  z = z
  Commands = {k1, k2}
  Proposals = {p1, p2}
  Paths = {f1}
  PathOf <- MCPathOf
  Creates = {p2}
  Texts = {x, y}
  Absent = Absent
  EditOf <- MCEditOf
  Mutations = {m1, m2}
  None = None
  EagerUndo = FALSE
  LiveStart = FALSE
  StoreMayFail = TRUE
SYMMETRY Symmetry
INVARIANTS
  TypeOK
  
  
PROPERTIES
  NoSilentOverwrite
  
