\* An evaluation and a retraction of its only premise, interleaved.
CONSTANTS
  Callers = {c1, c2}
  Premises = {b1}
  ApprovalRequired = FALSE
  NoOpenConflict = FALSE
  Receipts = {}
  Tokens = {t1, t2}
  Episodes = {e1}
  Actions = {a1}
  Scopes = {"exact_action"}
  Beliefs = {b1}
  None = None
  ApprovalTtls = {2}
  ActionTtls = {1}
  LockWait = 0
  MaxClock = 1
  MaxEvents = 4
SYMMETRY Symmetry
SPECIFICATION FlowSpec
PROPERTY SupportDriftFailsClosed
