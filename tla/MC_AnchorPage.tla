---------------------------- MODULE MC_AnchorPage ----------------------------
(* The anchor page, with a batch of two hashes already pasted or with none. *)
EXTENDS AnchorPage

CONSTANTS h1, h2

Two == {h1, h2}
Pasted == {<<h1, h2>>}
=============================================================================
