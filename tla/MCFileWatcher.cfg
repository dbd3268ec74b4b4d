SPECIFICATION Spec
CONSTANTS
  Files <- TwoFiles
  Dirs <- OneDir
  Dir <- MCDir
  Root = "/"
  Contents <- TwoContents
  Recursive = TRUE
  WithStore = TRUE
  None = None
  MaxEvents = 4
CHECK_DEADLOCK FALSE

  
PROPERTY
  BaselineKept
