----------------------------- MODULE MCUploads ------------------------------
(* TLC instances of Uploads. *)
EXTENDS Uploads
=============================================================================
