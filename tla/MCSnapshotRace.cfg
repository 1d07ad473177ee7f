\* Two callers: one creates a snapshot while the other appends.
CONSTANTS
  Episodes = {e1}
  Callers = {c1, c2}
  Keys = {k1}
  Prints = {p1}
  Versions = {None}
  None = None
  MaxEvents = 5
  MaxSnapshots = 1
SYMMETRY Symmetry
SPECIFICATION Spec
INVARIANT SnapshotAtItsHeight
