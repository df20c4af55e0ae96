----------------------------- MODULE BoundedQueue -----------------------------
(***************************************************************************)
(* What ConcurrentQueueTemplate (src/pw/pw_concurrentqueue_if.h) promises  *)
(* to its threads: a list with a limit, on which each operation takes      *)
(* effect in one step.                                                     *)
(***************************************************************************)
EXTENDS Naturals, Sequences

CONSTANTS
    Item,   \* what is queued
    Limits  \* the values setMaxSize() is called with; 0 is no limit

VARIABLES
    cont,     \* m_cont
    max_size, \* m_max_size
    taken     \* all that was ever popped, in order

Init == cont = <<>> /\ max_size = 0 /\ taken = <<>>

HasRoom == max_size = 0 \/ Len(cont) < max_size

Push(x) == HasRoom /\ cont' = Append(cont, x) /\ UNCHANGED <<max_size, taken>>

PushFront(x) == HasRoom /\ cont' = <<x>> \o cont /\ UNCHANGED <<max_size, taken>>

Pop ==
    /\ cont # <<>>
    /\ taken' = Append(taken, Head(cont))
    /\ cont' = Tail(cont)
    /\ UNCHANGED max_size

Clear == cont' = <<>> /\ UNCHANGED <<max_size, taken>>

SetMaxSize == max_size' \in Limits /\ UNCHANGED <<cont, taken>>

Next ==
    \/ \E x \in Item : Push(x) \/ PushFront(x)
    \/ Pop \/ Clear \/ SetMaxSize

Spec == Init /\ [][Next]_<<cont, max_size, taken>>
=============================================================================
