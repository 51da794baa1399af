SPECIFICATION Spec
CONSTANTS
  Names = {"nightly"}
  Defs <- MCDefs
  MaxRuns = 3
INVARIANTS NoOverlap EndsCoherent
PROPERTY StartsWhatIsListed
