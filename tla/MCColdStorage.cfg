SPECIFICATION FairSpec
CONSTANTS
  NumberOf <- Numbers
  TimeOf <- Times
  Sources <- AllSources
  CfgTenants <- Nothing
  CfgClusters <- Nothing
  TenantOrder <- TenantNames
  ClusterOrder <- ClusterNames
  Default = "default"
  Records <- MCRecords
  Source <- MCSource
  Hour <- MCHour
  Form <- MCForm
  Line <- MCLine
  LineFormat = FALSE
  CatchUpHours = 1
  TicksPerHour = 2
  ExportDelay = 1
  BatchSize = 2
  None = None
  FirstHour = 2
  MaxHour = 2
  MaxFaults = 1
INVARIANTS
  
  SuccessMeansMarked
  DiscoveryCovers
PROPERTIES
  MarkedIsFinal
  StreamEnds
  DueIsExported
