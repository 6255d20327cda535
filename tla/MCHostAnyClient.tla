-------------------------- MODULE MCHostAnyClient --------------------------
(* Instances of HostAnyClient for TLC. *)
EXTENDS HostAnyClient
=============================================================================
