SPECIFICATION Spec
CONSTANTS
  Payload = {0, 1}
  MaxSize = 4
INVARIANT
  CountExact
PROPERTY
  PoolSpec
