------------------------------- MODULE MCLog -------------------------------
(* The instance of Log that log.cfg checks. *)
EXTENDS Log
=============================================================================
