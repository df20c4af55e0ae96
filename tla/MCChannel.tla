------------------------------ MODULE MCChannel ------------------------------
(* The instances of Channel that TLC checks.                               *)
EXTENDS Channel

MCKinds == [role: {"connect", "accept"}, ssl: BOOLEAN, ex: BOOLEAN]
=============================================================================
