------------------------------ MODULE MCIoBuffer ------------------------------
(* The instance of IoBuffer that TLC checks.                               *)
EXTENDS IoBufferLines
=============================================================================
