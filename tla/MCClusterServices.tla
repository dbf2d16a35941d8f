------------------------- MODULE MCClusterServices --------------------------
EXTENDS ClusterServices, MCCallPath
=============================================================================
