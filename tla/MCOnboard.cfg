SPECIFICATION OnboardSpec
CONSTANTS
  Operators = {"o1", "o2"}
  Inputs <- MCInputs
  Hosts = {"h1", "h2"}
  Paths = {"main"}
  Configured = "main"
  Agent = {"h2"}
  Bare = {"h2"}
  MaxKeys = 2
 
PROPERTIES AddsOnlyWhatIsMissing OnboardingEnds
