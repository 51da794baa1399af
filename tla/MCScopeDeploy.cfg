SPECIFICATION Spec
CONSTANTS
  Objects = {"f", "g"}
  Plans <- MCPlans
  Options <- MCOptions
  Targets <- MCTargets
INVARIANTS RecordsMatch PlanOrder FailFastContains ExactlyPriorUndone RestoredAsBefore
PROPERTY Finishes
