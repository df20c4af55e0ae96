----------------------------- MODULE MCJobManager -----------------------------
(* The instance of JobManager that TLC checks.  What the application and the  *)
(* clock do to the jobs is bounded in sum; checkTimeout() itself is not, as   *)
(* none of its steps adds to the sum.  The counter of keys, which no          *)
(* constructor sets, begins shortly before it goes round.                     *)
EXTENDS JobManager

CONSTANT MaxActs    \* bound: jobs created, released, overdue, and reservations

Bounded ==
    created' + Len(reserve') + Cardinality(released') + Cardinality(overdue')
        <= MaxActs

MCInit == Init /\ lastKey = W - 2

MCNext == Next /\ Bounded

MCSpec == MCInit /\ [][MCNext]_vars /\ Fairness
=============================================================================
