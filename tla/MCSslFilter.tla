---------------------------- MODULE MCSslFilter ----------------------------
(* Instances of SslFilter for TLC. *)
EXTENDS SslFilter
=============================================================================
