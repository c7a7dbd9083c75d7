SPECIFICATION FairSpec
CONSTANTS
  Reqs = {r1, r2}
  Members = {m1, m2}
  Scores <- InputScores
  Endpoints <- AllEndpoints
  DefaultTtl = 60
  BodyTtls <- NoneOrSome
  Big = 2
  Retries = 1
INVARIANT RefusedHasNoEffect
PROPERTY Answered
CHECK_DEADLOCK FALSE
