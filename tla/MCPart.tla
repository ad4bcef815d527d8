-------------------------------- MODULE MCPart --------------------------------
(***************************************************************************)
(* Values for the constants of PartStream: parts of no bytes, of less than, *)
(* exactly and more than one and two buffers.                               *)
(***************************************************************************)
EXTENDS PartStream

MCSizes == {0, 1, 2, 3, 4, 7}
=============================================================================
