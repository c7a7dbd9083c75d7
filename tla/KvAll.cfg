SPECIFICATION Spec
CONSTANTS
  Reqs = {r1, r2}
  NoReq = NoReq
  Keys = {k1, k2}
  Endpoints <- AllEndpoints
  DefaultTtl = 60
  BodyTtls <- NoneOrSome
  Numbers = {1}
  Deltas = {1}
  IntMin <- Minus2
  IntMax = 2
  Retries = 1
SYMMETRY ReqSymmetry
INVARIANTS TypeOK BatchAtomic NxExclusive NxRefusedByOther TtlMatchesWriter
CHECK_DEADLOCK FALSE
