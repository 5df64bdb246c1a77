SPECIFICATION FairSpec
CONSTANTS
  N = 2
  Scripts <- AllScripts
  MaxFaults = 1
PROPERTIES HandoverKeepsPods HandoverFinishes RolloutReachesPods
