\* Regionless mode; the clouds of the children are not recognised.
SPECIFICATION FairSpec
CONSTANTS
    Children = {"c1", "c2"}
    Regionals = {}
    Management = {"m"}
    Name <- OwnName
    Namespace <- OneNamespace
    Cloud <- UnknownCloud
    Location <- Apart
    KcmRegion <- NoRegion
    Unknown = "unknown"
    Matched = {"aws"}
    Anywhere = {"docker"}
    Labels <- NoLabels
    CrossNamespace = FALSE
    Relabel = FALSE
    Revert = FALSE
    Sinks <- PromxyOnly
    None = None
    MaxEdits = 4
    MaxFaults = 2
PROPERTY
    EveryChildConfigured
