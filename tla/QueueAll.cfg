SPECIFICATION Spec
CONSTANTS
  Reqs = {r1, r2, r3}
  Endpoints <- Endpoints7
  MaxLen = 3
  DefaultTtl = 60
  BodyTtls <- NoneOrZero
  BatchSizes = {2}
  Keeps = {1}
  Retries = 1
CONSTRAINT Slice
SYMMETRY Symmetry
INVARIANTS TypeOK QueueBounded DequeOrder NoDoubleDelivery NoImmortalQueue OutcomeHonest NoMissingTtl
PROPERTY TrimKeepsNewest
CHECK_DEADLOCK FALSE
