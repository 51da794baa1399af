SPECIFICATION Spec
CONSTANTS
  NumHosts = 4
  Configs <- MCConfigs
INVARIANTS BlastRadius SkipsAreReported
PROPERTIES EveryHostDecided ImplementsRollingRollout
