\* Two regional clusters in different locations; children without labels, or created
\* with a label that sends them to the other location.
SPECIFICATION Spec
CONSTANTS
    Children = {"c1"}
    Regionals = {"r1", "r2"}
    Management = {}
    Name <- OwnName
    Namespace <- OneNamespace
    Cloud <- OneCloud
    Location <- Apart
    KcmRegion <- OneRegion
    Unknown = "unknown"
    Matched = {"aws"}
    Anywhere = {"docker"}
    Labels <- ToSecond
    CrossNamespace = FALSE
    Relabel = FALSE
    Revert = FALSE
    Sinks <- AllSinks
    None = None
    MaxEdits = 4
    MaxFaults = 1
INVARIANTS
    PlacedByRule
    ChildProvisioned
    PropagationTidied
    RegionalSettles
