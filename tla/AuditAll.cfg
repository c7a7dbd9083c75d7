SPECIFICATION Spec
CONSTANTS
  Reqs = {r1, r2, r3}
  Keys = {k1}
  Ops = {"put", "get", "health"}
  QueueMax = 2
  Correlate = TRUE
  NoReq = NoReq
SYMMETRY Symmetry
INVARIANTS LinesConserved DrainedUnlessFull DenialsRecorded
CHECK_DEADLOCK FALSE
