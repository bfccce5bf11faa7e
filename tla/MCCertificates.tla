--------------------------- MODULE MCCertificates ---------------------------
(* Small instances of Certificates. *)
EXTENDS Certificates
=============================================================================
