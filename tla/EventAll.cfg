SPECIFICATION Spec
CONSTANTS
  Reqs = {r1, r2, r3, r4}
  Groups = {g1}
  Consumers = {c1, c2}
  Endpoints <- AllEndpoints
  DefaultTtl = 60
  BodyTtls = {0, 60}
  Counts = {1, 2}
  MaxLen = 2
  NodeMax = 2
  MaxEvents = 4
  Retries = 1
CONSTRAINT Slice
SYMMETRY Symmetry
INVARIANTS NewestKept OncePerGroup DeliveredIsPending
CHECK_DEADLOCK FALSE
