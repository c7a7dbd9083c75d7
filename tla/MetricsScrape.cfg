SPECIFICATION ScrapeSpec
CONSTANTS
  Requests = {r1, r2}
  Exporters = {w1, w2}
  Handlers = {h1, h2}
  Retries = 1
  MaxResets = 1
  TextTtl = 1
  NsTtl = 2
  ScrapeInterval = 3
  ScrapeTimeout = 2
CONSTRAINT Slice
SYMMETRY Symmetry
INVARIANTS NsCountsFresh CountersExact
PROPERTIES ScrapesMonotone
