SPECIFICATION Spec
CONSTANTS
  v0 = v0
  v1 = v1
  b1 = b1
  b2 = b2
  b3 = b3
  b4 = b4
  Proc = {p1, p2}
  Block = {b1, b2, b3, b4}
  Writable = {b3}
  Level <- MCLevel
  Val = {v0, v1}
  Image <- MCImage
  Zero = v0
  NBUF = 3
  None = None
SYMMETRY Symmetry
INVARIANTS TypeOK RefsExact PanicsOnlyFull NoLostWakeup
PROPERTIES ImplementsBlockStore
