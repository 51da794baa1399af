SPECIFICATION PreflightSpec
CONSTANTS
  Worlds <- MCWorlds
  Configs <- MCConfigs
  Replies <- MCReplies
  Legacies <- MCLegacies
  Actors <- MCActors
  Others <- MCOthers
  MaxJobs = 2
CHECK_DEADLOCK FALSE
PROPERTY SkipIsProven
