---------------------------- MODULE MCSignatures ----------------------------
(* Words of two bits and the component types of two words. *)
EXTENDS Signatures

MCComponentIds == 0 .. 3
=============================================================================
