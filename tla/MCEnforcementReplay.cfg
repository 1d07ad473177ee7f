\* Two episodes, so that a call of one episode can touch a receipt of the other.
CONSTANTS
  Receipts = {r1, r2}
  Tokens = {t1}
  Episodes = {e1, e2}
  Actions = {a1}
  Scopes = {"exact_action", "standing"}
  Beliefs = {}
  None = None
  ApprovalTtls = {1}
  ActionTtls = {1}
  LockWait = 0
  MaxClock = 1
  MaxEvents = 5
SYMMETRY Symmetry
SPECIFICATION ReplaySpec
INVARIANT RebuildReproducesProjection
INVARIANT PurgeIsolatesEpisode
INVARIANT PurgeLeavesNoTrace
\* Callers may stop calling: the log and the clock reach their bounds.
CHECK_DEADLOCK FALSE
