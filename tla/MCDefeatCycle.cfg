\* One caller: an observation, two inferences that build on each other, and a
\* defeat.
CONSTANTS
  Callers = {c1}
  Basic = {3}
  Observations = {3}
  Derived = {4, 6}
  Verdicts = {5}
  Perishable = {}
  Stakes = {0}
  Attr <- MCAttr
  Matrix <- MCMatrix
  MinCoverage = 85
  MinRecall = 85
  Horizon = 1
  Radix = 16
  MaxBeliefs = 3
  Queries = {{"exists"}}
  Ceiling = 8
  NoticeTtl = 1
  MaxOps = 4
  Prelude = 2
  Requestable = {"tool_recheck"}
  Messages = {}
  Outputs = {{}}
  MaxTurn = 1
  None = None
SYMMETRY Symmetry
SPECIFICATION Spec
INVARIANT NothingStandsOnFallen
