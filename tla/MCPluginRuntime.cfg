\* Two callback threads and the maintenance thread on one session, two callbacks.
CONSTANTS
  None = None
  h1 = h1
  h2 = h2
  h3 = h3
  b1 = b1
  k1 = k1
  k2 = k2
  Threads = {h1, h2, h3}
  Drainer = h3
  Episodes <- MCEpisodes
  Sizes = {2}
  Reports = {3}
  MaxCallsTurn = 1
  MaxCallsEpisode = 2
  MaxTokens = 3
  MaxTurn = 3
  MaxRows = 3
  Cited = {b1}
  Clauses = {k1, k2}
  ClauseAttr <- MCClauseAttr
  Texts <- MCTexts
  Sessions = {"s"}
  Markers = {1, 2}
  CacheLimit = 1
  QueueLimit = 1
  Policies = {"rewrite_once", "block", "annotate", "allow"}
  Hooks = {"pre_llm_call", "pre_tool_call", "transform_tool_result", "llm_request", "transform_llm_output", "on_session_finalize"}
  MaxCallbacks = 2
  MaxDisturbances = 1
SPECIFICATION HostSpec
INVARIANT HostTypeOK
INVARIANT OneHolder
INVARIANT TurnCountedOnce
INVARIANT BudgetKept
INVARIANT FailClosed
INVARIANT NothingUngroundedDelivered
INVARIANT HandlesReleased
PROPERTY HostSettles
CHECK_DEADLOCK FALSE
