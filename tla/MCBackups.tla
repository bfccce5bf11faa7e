------------------------------ MODULE MCBackups ------------------------------
\* Backups for TLC; the bounds are in the configurations.
EXTENDS Backups
=============================================================================
