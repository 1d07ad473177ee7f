\* One approval of either scope, two tokens, a supporting belief and a caller that
\* waits for the lock: everything issue_action and consume_action revalidate, in
\* logs of up to five events.
CONSTANTS
  Receipts = {r1}
  Tokens = {t1, t2}
  Episodes = {e1}
  Actions = {a1}
  Scopes = {"exact_action", "standing"}
  Beliefs = {b1}
  None = None
  ApprovalTtls = {1}
  ActionTtls = {1}
  LockWait = 1
  MaxClock = 1
  MaxEvents = 5
SYMMETRY Symmetry
SPECIFICATION Spec
INVARIANT TypeOK
INVARIANT ConsumedAtMostOnce
INVARIANT OnePermitPerSingleUseApproval
INVARIANT NoSpendAfterWithdrawal
PROPERTY ImplementsAuthority
