SPECIFICATION Spec
CONSTANTS
  Hosts = {"web1", "web2", "db1", "new"}
  Plan <- MCPlan
  Inputs <- MCInputs
CHECK_DEADLOCK FALSE
INVARIANTS ReportIsHonest StampsAreEarned FailuresAreNotified
PROPERTY DeployEnds
