\* An MCP proxy and a gateway on one ledger, with one approval that is denied,
\* revoked or expires, a premise that is retracted, upstream tools that change, and
\* a policy that asks for the approval and for no open conflict.
CONSTANTS
  Callers = {c1, c2}
  Proxies = {c1}
  Services = {c2}
  Schemas = {s1, s2}
  CacheSize = 1
  Told = b1
  Premises = {b1}
  ApprovalRequired = TRUE
  NoOpenConflict = TRUE
  Receipts = {r1}
  Tokens = {t1, t2}
  Episodes = {e1}
  Actions = {a1}
  Scopes = {"exact_action"}
  Beliefs = {b1}
  None = None
  ApprovalTtls = {1}
  ActionTtls = {1}
  LockWait = 0
  MaxClock = 1
  MaxEvents = 5
SYMMETRY Symmetry
SPECIFICATION DispatchSpec
INVARIANT FlowTypeOK
INVARIANT FinalizeSweepsPermits
INVARIANT SpentIsAudited
INVARIANT EffectNeedsPermit
INVARIANT ForwardedAsShown
INVARIANT RetractedStaysOut
INVARIANT PolicyDetermined
INVARIANT ProfileProven
INVARIANT PermitGrounded
INVARIANT DeliversAllOrNothing
PROPERTY NothingSpentAfterFinalize
PROPERTY ApprovalStandsAtIssue
