SPECIFICATION FairSpec
CONSTANTS
  PromRules <- OnePromRule
  PromContents <- MCPromContents
  AlertMaps <- MCAlertMaps
  RecordMaps <- MCRecordMaps
  ClusterOf <- MCClusterOf
  AlertContents <- MCAlertContents
  RecordContents <- MCRecordContents
  Malformed = Malformed
  LabelNames <- MCLabelNames
  LabelValues <- MCLabelValues
  VmRules <- MCVmRules
  Manual = Manual
  None = None
  MaxEvents = 2
CHECK_DEADLOCK FALSE

  
PROPERTIES
  ManualKept
  Settles
