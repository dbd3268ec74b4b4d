\* A child is labelled, relabelled and released while both regional clusters change.
SPECIFICATION FairSpec
CONSTANTS
    Children = {"c1"}
    Regionals = {"r1", "r2"}
    Management = {}
    Name <- OwnName
    Namespace <- OneNamespace
    Cloud <- OneCloud
    Location <- Apart
    KcmRegion <- OneRegion
    Unknown = "unknown"
    Matched = {"aws"}
    Anywhere = {"docker"}
    Labels <- ToSecond
    CrossNamespace = FALSE
    Relabel = TRUE
    Revert = TRUE
    Sinks <- PromxyOnly
    None = None
    MaxEdits = 4
    MaxFaults = 1
PROPERTY
    Converges
