SPECIFICATION Spec
CONSTANTS
  Reqs = {r1, r2}
  NoReq = NoReq
  Keys = {k1, k2}
  Fields = {f1, f2}
  Endpoints <- AllEndpoints
  DefaultTtl = 60
  BodyTtls <- NoneOrSome
  Retries = 1
SYMMETRY Symmetry
INVARIANTS WholeWrites TtlWithWrite
CHECK_DEADLOCK FALSE
