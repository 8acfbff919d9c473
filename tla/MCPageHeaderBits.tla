-------------------------- MODULE MCPageHeaderBits --------------------------
(* Bytes with and without high bits, at both ends of a nibble.             *)
EXTENDS PageHeaderBits

MCArgs == {0, 1, 2, 6, 15, 16, 33, 240, 255}
=============================================================================
