SPECIFICATION Spec
CONSTANTS
  Deployers = {"v1", "v2"}
  VersionOf <- Versions
  ByFleet = {"v2"}
  Steps <- MCSteps
  Base <- MCBase
  Backups <- MCBackups
  Policies <- MCPolicies
  MaxTime = 1
  MaxRollbacks = 2
CHECK_DEADLOCK FALSE
INVARIANTS RecordIsKept GcSparesNewest  
