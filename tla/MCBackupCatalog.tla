-------------------------- MODULE MCBackupCatalog ---------------------------
(* Small sets of Jobs and configurations for BackupCatalog.                 *)
EXTENDS BackupCatalog, TLC

CONSTANTS j1, j2, j3, t1, t2

\* All Jobs of one release ...
OneTopology == [b \in {j1, j2, j3, Seed} |-> t1]
\* ... or the last of another that was pointed at the same catalog.
TwoTopologies == j1 :> t1 @@ j2 :> t1 @@ j3 :> t2 @@ Seed :> t1
=============================================================================
