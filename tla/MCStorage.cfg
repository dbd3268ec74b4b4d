SPECIFICATION FairSpec
CONSTANTS
  Conns <- TwoConns
  Clusters <- TwoKinds
  Specs <- TwoSpecs
  Address <- MCAddress
  SecretName <- MCSecretName
  UsernameKey <- MCUsernameKey
  PasswordKey <- MCPasswordKey
  TLS <- MCTLS
  Insecure <- MCInsecure
  None = None
  Movable = FALSE
  ClusterLag = FALSE
  MaxEvents = 4
CHECK_DEADLOCK FALSE

  
  
PROPERTIES
  UnmanagedKept
  Settles
