\* One approval of the scope the facade grants, one permit, one denial.
CONSTANTS
  Receipts = {r1}
  Tokens = {t1}
  Episodes = {e1}
  Actions = {a1}
  Scopes = {"exact_action"}
  Beliefs = {}
  None = None
  ApprovalTtls = {2}
  ActionTtls = {2}
  LockWait = 0
  MaxClock = 2
  MaxEvents = 5
SYMMETRY Symmetry
SPECIFICATION Spec
INVARIANT DenialFailsClosed
