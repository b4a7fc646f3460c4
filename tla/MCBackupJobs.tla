---------------------------- MODULE MCBackupJobs ----------------------------
EXTENDS BackupJobs, TLC
Symmetry == Permutations(Handlers) \cup Permutations(Keys)
=============================================================================
