CONSTANTS
  Fifo = {f1, f2}
  Node = {n1, n2, n3}
  NULL = NULL
SPECIFICATION Spec
INVARIANT Represents
