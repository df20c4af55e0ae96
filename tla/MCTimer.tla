------------------------------ MODULE MCTimer ------------------------------
(* The instance of Timer that TLC checks: two clients with two ids each    *)
(* are enough for an entry before, at and after the one being called.      *)
EXTENDS Timer
=============================================================================
