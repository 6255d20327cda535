--------------------------- MODULE MCTudorSystem ---------------------------
(* Instances of TudorSystem for TLC. *)
EXTENDS TudorSystem
=============================================================================
