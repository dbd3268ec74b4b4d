\* Two regional clusters in one location.
SPECIFICATION Spec
CONSTANTS
    Children = {"c1"}
    Regionals = {"r1", "r2"}
    Management = {}
    Name <- OwnName
    Namespace <- OneNamespace
    Cloud <- OneCloud
    Location <- Together
    KcmRegion <- NoRegion
    Unknown = "unknown"
    Matched = {"aws"}
    Anywhere = {"docker"}
    Labels <- NoLabels
    CrossNamespace = FALSE
    Relabel = FALSE
    Revert = FALSE
    Sinks <- PromxyOnly
    None = None
    MaxEdits = 3
    MaxFaults = 0
INVARIANT
    ChildProvisioned
