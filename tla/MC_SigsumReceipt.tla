-------------------------- MODULE MC_SigsumReceipt --------------------------
(* The Sigsum client with two stamps. They are told apart by name only, but  *)
(* liveness is checked with safety here, so no symmetry is declared.         *)
EXTENDS SigsumReceipt
=============================================================================
