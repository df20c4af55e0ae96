------------------------------ MODULE MCIoPoller ------------------------------
(* The instance of IoPoller that TLC checks: epoll with a batch of one and   *)
(* of both events, select with and without room for both descriptors.        *)
EXTENDS IoPoller

AllKinds == {[name |-> "epoll", size |-> 0, batch |-> 1],
             [name |-> "epoll", size |-> 0, batch |-> 2],
             [name |-> "select", size |-> 1, batch |-> 1],
             [name |-> "select", size |-> 2, batch |-> 1]}
AllMasks == SUBSET {"in"}
=============================================================================
