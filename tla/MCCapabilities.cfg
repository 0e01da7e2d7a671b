SPECIFICATION MCSpec
CONSTANTS
  Future = Future
  Considered = {"config.read", "config.write", "mcp.read", "mcp.call", "secret.ref"}
INVARIANTS
  OnlyGrantedIsExecuted
  EveryRequirementAccounted
  ReportsMatchOutcomes
  TestHostAgrees
