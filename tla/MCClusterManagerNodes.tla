------------------------ MODULE MCClusterManagerNodes ------------------------
(* ClusterManagerNodes for TLC.                                              *)
EXTENDS ClusterManagerNodes
=============================================================================
