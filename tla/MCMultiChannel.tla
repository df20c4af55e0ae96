----------------------------- MODULE MCMultiChannel -----------------------------
(* The instances of MultiChannel that TLC checks.                          *)
EXTENDS MultiChannel
=============================================================================
