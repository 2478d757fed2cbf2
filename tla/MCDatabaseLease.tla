-------------------------- MODULE MCDatabaseLease --------------------------
(* DatabaseLease with two processes: one at work and one that meets it.  The *)
(* inodes are as many, for a lock file created while the old one is open.    *)
EXTENDS DatabaseLease

CONSTANTS p1, p2, i1, i2

=============================================================================
