--------------------------- MODULE MCLoginFormat ---------------------------
(***************************************************************************)
(* LoginFormat for TLC: fields of three bytes, addresses and ports of two; *)
(* the neighbour's address and port contain EOT.                           *)
(***************************************************************************)
EXTENDS LoginFormat

MCNeighbour == [name |-> <<97, 98>>, addr |-> <<10, EOT>>, port |-> <<EOT, 10>>]
=============================================================================
