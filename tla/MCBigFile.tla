------------------------------ MODULE MCBigFile ------------------------------
(* Instances of BigFile small enough for TLC. *)
EXTENDS BigFile
=============================================================================
