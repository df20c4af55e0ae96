------------------------------ MODULE MCSupervisor ------------------------------
(* The instances of Supervisor that TLC checks.                            *)
EXTENDS Supervisor
=============================================================================
