------------------------- MODULE MCSnapshotBarrier --------------------------
(* Small layouts of connectors and tables for SnapshotBarrier.              *)
EXTENDS SnapshotBarrier, TLC

CONSTANTS c1, c2, p1, p2

\* Two connectors, one partition each.
PairConnectorOf == p1 :> c1 @@ p2 :> c2
\* ... that write one replicated table ...
SharedGroupOf == c1 :> 1 @@ c2 :> 1
SharedReplicated == <<TRUE>>
\* ... or a table each, the first of them replicated.
SplitGroupOf == c1 :> 1 @@ c2 :> 2
SplitReplicated == <<TRUE, FALSE>>
=============================================================================
