------------------------ MODULE MCMetricsCollection ------------------------
(***************************************************************************)
(* A region, a cluster in it and one outside, in any arrangement of their  *)
(* kubeconfigs, and with two of them of one name or not.                   *)
(***************************************************************************)
EXTENDS MetricsCollection

MCClusters == <<"child", "plain", "region">>
MCRegions == <<"region">>
MCRegionOf == [c \in {"child", "plain", "region"} |-> IF c = "child" THEN "region" ELSE None]
MCNamings ==
  {[child |-> "child", plain |-> x, region |-> "region"] : x \in {"plain", "child"}}
MCPlacements ==
  {[child |-> x, plain |-> {Local}, region |-> y] :
     x \in SUBSET {Local, "region"}, y \in {{}, {Local}}}

MCResources ==
  [child |-> <<"otelchild">>, plain |-> <<"otelplain", "targets">>, region |-> <<"otelregion">>,
   management |-> <<>>]
MCReplicas ==
  [otelchild |-> [expected |-> 1, current |-> 1], otelplain |-> [expected |-> 0, current |-> 0],
   targets |-> [expected |-> 1, current |-> 1], otelregion |-> [expected |-> 1, current |-> None]]
MCPods ==
  [otelchild |-> {"c"}, otelplain |-> {"p"}, targets |-> {"t"}, otelregion |-> {"r"}]
MCReady == [c |-> TRUE, p |-> FALSE, t |-> TRUE, r |-> None]
MCLimits == [c |-> TRUE, p |-> FALSE, t |-> TRUE, r |-> None]
MCPort == [c |-> TRUE, t |-> TRUE, p |-> TRUE, r |-> FALSE]
=============================================================================
