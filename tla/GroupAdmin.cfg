SPECIFICATION Spec
CONSTANTS
  Reqs = {r1, r2}
  Groups = {g1, g2}
  Members = {m1}
  Others = {o}
  Internal = {i}
  BulkMax = 2
  BatchSize = 1
  Endpoints <- AllEndpoints
  DefaultTtl = 60
  BodyTtls <- NoneOrSome
  Retries = 1
SYMMETRY Symmetry
INVARIANTS NoImmortalGroup BulkDeletesAll DeletionsHonest
PROPERTIES OnlyAskedDeleted
CHECK_DEADLOCK FALSE
