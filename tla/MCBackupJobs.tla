---------------------------- MODULE MCBackupJobs ----------------------------
(* Instances of BackupJobs for TLC.                                         *)
EXTENDS BackupJobs, TLC

Interchangeable == Permutations(Jobs) \cup Permutations(Uploads)
                   \cup Permutations(Names)
=============================================================================
