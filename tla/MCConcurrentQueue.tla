-------------------------- MODULE MCConcurrentQueue --------------------------
(* The instances of ConcurrentQueue that TLC checks.                       *)
EXTENDS ConcurrentQueue
=============================================================================
