SPECIFICATION AgentFairSpec
CONSTANTS
  Runs = {r1}
  Tools <- MCTools
  Declares <- MCDeclares
  allowed_capabilities <- MCGranted
  Proposals <- MCAllProposals
  max_depth = 2
  timeout_seconds = 3
  tool_timeout_seconds = 2
  max_executions = 3
  budget_seconds = 4
INVARIANTS
  ExecutionIsEvidenced
  TrailAccounts
PROPERTIES
  RefusalIsFinal
  NoStepAfterDeadline
  RunsEnd
CHECK_DEADLOCK FALSE
