\* Two operations one after the other, then two at the same time, by two callers.
CONSTANTS
  Callers = {c1, c2}
  Basic = {1, 2, 3, 7}
  Observations = {3, 7}
  Derived = {4}
  Verdicts = {5}
  Perishable = {1}
  Stakes = {0, 1}
  Attr <- MCAttr
  Matrix <- MCMatrix
  MinCoverage = 85
  MinRecall = 85
  Horizon = 1
  Radix = 16
  MaxBeliefs = 3
  Queries = {{"exists"}}
  Ceiling = 8
  NoticeTtl = 1
  MaxOps = 4
  Prelude = 2
  Requestable = {"tool_recheck"}
  Messages = {{2}}
  Outputs = {{1}}
  MaxTurn = 1
  None = None
SYMMETRY Symmetry
SPECIFICATION Spec
INVARIANT EpisodeTypeOK
INVARIANT QuiescentIsSettled
INVARIANT ConflictsAreTies
INVARIANT FallenIsAnnounced
INVARIANT DefeatSampledOnce
