------------------------- MODULE MCClusterPlacement -------------------------
(***************************************************************************)
(* Small deployments for ClusterPlacement: a child and two regional        *)
(* clusters, or two children in regionless mode.  The functions below give *)
(* the attributes of the clusters.                                         *)
(***************************************************************************)
EXTENDS ClusterPlacement

AllAre(v) == [x \in Clusters |-> v]

OwnName == [x \in Clusters |-> x]
OneNamespace == AllAre("kcm-system")
OneCloud == AllAre("aws")
UnknownCloud == AllAre(Unknown)
NoRegion == AllAre(None)
OneRegion == AllAre("region")

\* r1 and the children are in the east, r2 is in the west.
Apart == [x \in Clusters |-> IF x = "r2" THEN "west" ELSE "east"]

\* Every cluster is in the east.
Together == AllAre("east")

\* r1 and c1 belong to one KCM region, the others to none.
FirstInRegion == [x \in Clusters |-> IF x \in {"r1", "c1"} THEN "region" ELSE None]

LabelOf(r) == [name |-> r, namespace |-> None]
NoLabels == {}
ToSecond == {LabelOf("r2")}

\* Without names of a VTCluster and a VLCluster no storage connections are made.
PromxyOnly == <<"PromxyServerGroup">>
AllSinks == <<"PromxyServerGroup", "TracesStorageConnection",
              "LogsStorageConnection", "AuditLogsStorageConnection">>
=============================================================================
