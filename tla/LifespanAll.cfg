SPECIFICATION LifespanSpec
CONSTANTS
  Workers = {w1, w2, w3}
  Interval = 5
  Ttl = 4
  MaxStarts = 4
SYMMETRY Symmetry
INVARIANTS OneUnlessOverlap NoSilence
PROPERTIES ElectionsApart
