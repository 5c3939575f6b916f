CONSTANTS
  Thread = {t1, t2, t3}
  total_length = 6
  block_sz = 2
SPECIFICATION Spec
INVARIANT BlocksInArray
PROPERTIES NullWhenExhausted ImplementsBlockPool
