--------------------------- MODULE MCReferenceWire ---------------------------
(* Constants of the reference-wire runs: opposite corners of a 2x2 board.  *)
EXTENDS ReferenceProperties

CopCorner   == <<0, 0>>
ThiefCorner == <<1, 1>>

=============================================================================
