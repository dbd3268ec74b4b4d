SPECIFICATION Spec
CONSTANTS
  Streams <- OneStream
  PlatformStream = "platform"
  PlatformTenant = "PLATFORM"
  Tenants <- OneTenant
  AutoDiscover = TRUE
  ComplianceMode = FALSE
  ObjectLock = FALSE
  CatchUpHours = 2
  TicksPerHour = 2
  ExportDelay = 1
  Unreadable <- NothingUnreadable
  None = None
  FirstHour = 3
  MaxHour = 4
  MaxEvents = 2
  MaxFaults = 2
INVARIANTS
  TypeOK
  CompleteWindow
  LinksVerify
  SuccessIsComplete
  NotBeforeDelay
PROPERTIES
  CompletedStays
  ImplementsArchive
