\* One caller, so that nothing is interleaved, and both ways to create a snapshot:
\* without a package version (the library) and with one (the command line).
CONSTANTS
  Episodes = {e1}
  Callers = {c1}
  Keys = {k1}
  Prints = {p1}
  Versions = {None, v1}
  None = None
  MaxEvents = 5
  MaxSnapshots = 1
SYMMETRY Symmetry
SPECIFICATION Spec
INVARIANT SnapshotNeverMatters
