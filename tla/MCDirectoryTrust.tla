-------------------------- MODULE MCDirectoryTrust --------------------------
(* One device that may change its package, one installation.                *)
EXTENDS DirectoryTrust

CONSTANTS phone, p, q, k1, k2, c1

Users == [e \in {phone} |-> "alice"]
=============================================================================
