SPECIFICATION FairSpec
CONSTANTS
  Regionals <- TwoRegionals
  Children <- OneChild
  TenantConfig <- TenantA
  KcmRegions <- OneRegion
  Local <- Nobody
  Endpoints <- MCEndpoints
  Initial <- OneOfTwo
  LocalEndpoint = "local"
  Scheme <- MCScheme
  Port <- MCPort
  VLCluster = None
  VTCluster = "vt"
  Regionless = FALSE
  Pods <- OnePod
  None = None
  MaxEvents = 2
CHECK_DEADLOCK FALSE
INVARIANTS
  Provisioned
  PromxyConverged
  NothingLeft
  TenantConfined
PROPERTY
  Settles
