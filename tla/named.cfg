SPECIFICATION Spec
CONSTANTS
  Wrappers = {w1, w2, w3}
  Names = {n1, n2}
  NoName = NoName
  Ids = {i1, i2, i3}
  NoId = NoId
  Classes <- MCClasses
  Modes <- MCModes
  Copiers = {w1}
INVARIANTS
  NoDangling
  NoLeak
  SharedByName
SYMMETRY MCSymmetry
\* Every program may have ended in a constructor.
CHECK_DEADLOCK FALSE
