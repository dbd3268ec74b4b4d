SPECIFICATION FairSpec
CONSTANTS
  Streams <- OneStream
  PlatformStream = "platform"
  PlatformTenant = "PLATFORM"
  Tenants <- OneTenant
  AutoDiscover = FALSE
  ComplianceMode = TRUE
  ObjectLock = TRUE
  CatchUpHours = 2
  TicksPerHour = 2
  ExportDelay = 1
  Unreadable <- FirstUnreadable
  None = None
  FirstHour = 3
  MaxHour = 4
  MaxEvents = 1
  MaxFaults = 2
PROPERTIES
  WriteOnce
  DueIsExported
