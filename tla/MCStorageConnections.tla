------------------------ MODULE MCStorageConnections ------------------------
(* Instances of StorageConnections for TLC.                                *)
EXTENDS StorageConnections, TLC

TwoConns == {"c1", "c2"}
OneCluster == {<<"VTCluster", "a">>}
TwoKinds == {<<"VTCluster", "a">>, <<"VLCluster", "a">>}

\* A node with credentials and one without.
TwoSpecs == {"s1", "s2"}
MCAddress == [s1 |-> "n1", s2 |-> "n2"]
MCSecretName == [s1 |-> "k1", s2 |-> None]
MCUsernameKey == [s1 |-> "user", s2 |-> None]
MCPasswordKey == [s1 |-> "password", s2 |-> None]
MCTLS == [s1 |-> "true", s2 |-> "false"]
MCInsecure == [s1 |-> "false", s2 |-> "true"]
=============================================================================
