SPECIFICATION Spec
CONSTANTS
  a = a
  b = b
  c = c
  d = d
  e = e
  v1 = v1
  v2 = v2
  None = None
  Keys = {a, b, c, d, e}
  Values = {v1, v2}
  SmallHashTableSize = 1
  RebuildMultiplier = 1
  HashOf <- MCHash
  WordSpan = 64

SYMMETRY MCValueSymmetry

INVARIANTS
  EntriesLinkedOnce
  IteratorNotDangling
PROPERTIES
  ImplementsArray
