\* One caller: a claim is confirmed by an observation and stated again.
CONSTANTS
  Callers = {c1}
  Basic = {1, 3}
  Observations = {3}
  Derived = {4}
  Verdicts = {5}
  Perishable = {1}
  Stakes = {0, 1}
  Attr <- MCAttr
  Matrix <- MCMatrix
  MinCoverage = 85
  MinRecall = 85
  Horizon = 1
  Radix = 16
  MaxBeliefs = 3
  Queries = {{"exists"}}
  Ceiling = 8
  NoticeTtl = 1
  MaxOps = 4
  Prelude = 2
  Requestable = {"tool_recheck"}
  Messages = {{1}}
  Outputs = {{}}
  MaxTurn = 1
  None = None
SYMMETRY Symmetry
SPECIFICATION Spec
INVARIANT EveryOpenTaskCanComplete
