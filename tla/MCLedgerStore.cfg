\* Two episodes, two callers and one key that is asked for with two requests.
CONSTANTS
  Episodes = {e1, e2}
  Callers = {c1, c2}
  Keys = {k1}
  Prints = {p1, p2}
  Versions = {None}
  None = None
  MaxEvents = 5
  MaxSnapshots = 1
SYMMETRY Symmetry
SPECIFICATION Spec
INVARIANT LedgerTypeOK
INVARIANT ChainIntact
INVARIANT ReplayReproducesTables
INVARIANT RetriesGetFirstAnswer
INVARIANT OutcomeCountedOnce
INVARIANT QuietSnapshotReplays
INVARIANT AnchorVerdicts
