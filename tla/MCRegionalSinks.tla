--------------------------- MODULE MCRegionalSinks ---------------------------
(* Instances of RegionalSinks for TLC.                                     *)
EXTENDS RegionalSinks, TLC

TwoRegionals == {"r1", "r2"}
OneChild == {"c1"}
OneRegion == {"r1"}
Nobody == {}
OnePod == {"p1"}
MCEndpoints == {"e2", "bad"}
MCScheme == [e1 |-> "http", e2 |-> "https", bad |-> "ftp", local |-> "http"]
MCPort == [e1 |-> "8427", e2 |-> None, bad |-> None, local |-> None]
TenantA == [label |-> <<"tenant", "a">>, filters |-> [tenant |-> "a"]]
OneOfTwo == [r1 |-> "e1", r2 |-> None]
=============================================================================
