------------------------------ MODULE MCBackup ------------------------------
(* Uploads and a backup of them, with interchangeable workers.              *)
EXTENDS Backup, TLC

Symmetry == Permutations(Workers)

=============================================================================
