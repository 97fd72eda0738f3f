--------------------------- MODULE MCPodResolver ---------------------------
(* Instances of PodResolver for TLC. *)
EXTENDS PodResolver
=============================================================================
