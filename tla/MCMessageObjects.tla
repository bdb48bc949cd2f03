-------------------------- MODULE MCMessageObjects --------------------------
(* An instance of MessageObjects for TLC. *)
EXTENDS MessageObjects

TheNewerField == Varint(9, 1)
=============================================================================
