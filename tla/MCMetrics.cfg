SPECIFICATION FairSpec
CONSTANTS
  Clusters <- MCClusters
  RegionOf <- MCRegionOf
  Regions <- MCRegions
  Resources <- MCResources
  Replicas <- MCReplicas
  Pods <- MCPods
  Ready <- MCReady
  Limits <- MCLimits
  Port <- MCPort
  Local = "management"
  Placements <- MCPlacements
  Namings <- MCNamings
  MaxFailures = 1
  None = None
  Bad = Bad
INVARIANTS
  NoSendAfterClose
  EveryClusterReported
  PodsToldTruly
  CountedOnce
PROPERTIES
  Answered
CHECK_DEADLOCK FALSE
