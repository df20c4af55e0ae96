---------------------------- MODULE ConcurrentQueue ----------------------------
(***************************************************************************)
(* ConcurrentQueueTemplate (src/pw/pw_concurrentqueue_if.h): threads that  *)
(* share a std::list under a mutex and wait on a condition variable for it *)
(* to be filled.  The mutex and the condition variable are modelled as the *)
(* C++ library specifies them: notify_one() wakes one of the waiters, a    *)
(* wait may end spuriously, and wait_until() reports a timeout whenever    *)
(* its time is over by then, whatever woke it.                             *)
(*                                                                         *)
(* empty(), size() and getMaxSize() change nothing and are left out; the   *)
(* three forms of pop() and the two of each push are one.                  *)
(***************************************************************************)
EXTENDS Naturals, Sequences, FiniteSets

CONSTANTS
    Threads,
    Item,     \* what is queued
    Limits,   \* the values setMaxSize() is called with; 0 is no limit
    Timed,    \* whether popTimed() is called (HAVE_TIMED_MUTEX)
    MaxOps,   \* bound: operations ever begun
    Nobody    \* no thread has the lock; nothing was read

ASSUME ConcurrentQueueAssumption ==
    /\ IsFiniteSet(Threads)
    /\ Limits \subseteq Nat /\ 0 \in Limits
    /\ Timed \in BOOLEAN
    /\ MaxOps \in Nat
    /\ Nobody \notin Threads \cup Item

VARIABLES
    cont, max_size,
    owner,    \* who has m_lock
    pc,       \* where each thread is
    op,       \* the operation it is in
    ret,      \* pop: the front element it has read
    expired,  \* popTimed: dest_limit has passed
    begun,    \* operations begun
    taken,    \* history: all that was ever popped, in order
    wasted    \* history: threads that were woken and then timed out

data == <<cont, max_size, taken>>
vars == <<cont, max_size, owner, pc, op, ret, expired, begun, taken, wasted>>

Pops == {"pop", "popTimed", "popTry"}
Ops == Pops \cup {"push", "push_front", "clear", "setMaxSize"}

Init ==
    /\ cont = <<>> /\ max_size = 0
    /\ owner = Nobody
    /\ pc = [t \in Threads |-> "idle"]
    /\ op = [t \in Threads |-> "pop"]
    /\ ret = [t \in Threads |-> Nobody]   \* nothing read yet
    /\ expired = [t \in Threads |-> FALSE]
    /\ begun = 0
    /\ taken = <<>>
    /\ wasted = 0

Goto(t, l) == pc' = [pc EXCEPT ![t] = l]

\* The operation ends and lets go of the lock.
Leave(t) == Goto(t, "idle") /\ owner' = Nobody

Begin(t) ==
    /\ pc[t] = "idle"
    /\ begun < MaxOps
    /\ begun' = begun + 1
    /\ \E o \in Ops :
        /\ o = "popTimed" => Timed
        /\ op' = [op EXCEPT ![t] = o]
    /\ expired' = [expired EXCEPT ![t] = FALSE]
    /\ Goto(t, "lock")
    /\ UNCHANGED <<data, owner, ret, wasted>>

\* the limit of a popTimed() passes
Expire(t) ==
    /\ pc[t] # "idle" /\ op[t] = "popTimed"
    /\ ~expired[t]
    /\ expired' = [expired EXCEPT ![t] = TRUE]
    /\ UNCHANGED <<data, owner, pc, op, ret, begun, wasted>>

Lock(t) ==
    /\ pc[t] = "lock"
    /\ owner = Nobody
    /\ owner' = t
    /\ Goto(t, "locked")
    /\ UNCHANGED <<data, op, ret, expired, begun, wasted>>

\* try_to_lock fails; try_lock_until fails
LockFails(t) ==
    /\ pc[t] = "lock"
    /\ owner # Nobody
    /\ op[t] = "popTry" \/ (op[t] = "popTimed" /\ expired[t])
    /\ Goto(t, "idle")
    /\ UNCHANGED <<data, owner, op, ret, expired, begun, wasted>>

-----------------------------------------------------------------------------
(* pop(), popTimed(), popTry()                                             *)

AtPop(t) == pc[t] = "locked" /\ op[t] \in Pops

\* ret = m_cont.front()
Front(t) ==
    /\ AtPop(t)
    /\ cont # <<>>
    /\ ret' = [ret EXCEPT ![t] = Head(cont)]
    /\ Goto(t, "front")
    /\ UNCHANGED <<data, owner, op, expired, begun, wasted>>

\* m_cont.pop_front(), and the lock is released
PopFront(t) ==
    /\ pc[t] = "front"
    /\ cont' = Tail(cont)
    /\ taken' = Append(taken, ret[t])
    /\ Leave(t)
    /\ UNCHANGED <<max_size, op, ret, expired, begun, wasted>>

\* the queue is empty: popTry() gives up, the others release the lock and wait
Wait(t) ==
    /\ AtPop(t)
    /\ cont = <<>>
    /\ Goto(t, IF op[t] = "popTry" THEN "idle" ELSE "wait")
    /\ owner' = Nobody
    /\ UNCHANGED <<data, op, ret, expired, begun, wasted>>

\* the wait of popTimed() ends by itself, or any wait does, spuriously
WakeUp(t) ==
    /\ pc[t] = "wait"
    /\ Goto(t, IF expired[t] THEN "late" ELSE "woken")
    /\ UNCHANGED <<data, owner, op, ret, expired, begun, wasted>>

\* wait() returns with the lock; wait_until() may find that time is up by now
\* and popTimed() then returns false without a look at the queue
Relock(t) ==
    /\ pc[t] = "woken"
    /\ owner = Nobody
    /\ \/ owner' = t /\ Goto(t, "locked") /\ UNCHANGED wasted
       \/ expired[t] /\ Goto(t, "idle") /\ wasted' = wasted + 1
                     /\ UNCHANGED owner
    /\ UNCHANGED <<data, op, ret, expired, begun>>

\* cv_status::timeout: popTimed() returns false, having had the lock
TimeOut(t) ==
    /\ pc[t] = "late"
    /\ owner = Nobody
    /\ Goto(t, "idle")
    /\ UNCHANGED <<data, owner, op, ret, expired, begun, wasted>>

-----------------------------------------------------------------------------
(* push(), push_front(), clear(), setMaxSize()                             *)

AtPush(t) == pc[t] = "locked" /\ op[t] \in {"push", "push_front"}

\* mutant: one element too many
HasRoom_Off == max_size = 0 \/ Len(cont) <= max_size

HasRoom == max_size = 0 \/ Len(cont) < max_size

Pushed(t, x) == IF op[t] = "push" THEN Append(cont, x) ELSE <<x>> \o cont

\* mutant: waiters are only told when the queue was empty
AfterPush_IfEmpty == IF cont = <<>> THEN "notify" ELSE "idle"

\* notify_one() is called after every push
AfterPush == "notify"

Push(t) ==
    /\ AtPush(t)
    /\ HasRoom
    /\ \E x \in Item : cont' = Pushed(t, x)
    /\ Goto(t, AfterPush)
    /\ owner' = Nobody
    /\ UNCHANGED <<max_size, taken, op, ret, expired, begun, wasted>>

Full(t) ==
    /\ AtPush(t)
    /\ ~HasRoom
    /\ Leave(t)
    /\ UNCHANGED <<data, op, ret, expired, begun, wasted>>

Waiting == {t \in Threads : pc[t] = "wait"}

\* m_cv.notify_one(), without the lock
NotifyOne(t) ==
    /\ pc[t] = "notify"
    /\ \/ /\ Waiting = {}
          /\ Goto(t, "idle")
       \/ \E w \in Waiting : pc' = [pc EXCEPT ![t] = "idle", ![w] = "woken"]
    /\ UNCHANGED <<data, owner, op, ret, expired, begun, wasted>>

Clear(t) ==
    /\ pc[t] = "locked" /\ op[t] = "clear"
    /\ cont' = <<>>
    /\ Leave(t)
    /\ UNCHANGED <<max_size, taken, op, ret, expired, begun, wasted>>

SetMaxSize(t) ==
    /\ pc[t] = "locked" /\ op[t] = "setMaxSize"
    /\ max_size' \in Limits
    /\ Leave(t)
    /\ UNCHANGED <<cont, taken, op, ret, expired, begun, wasted>>

Run(t) == Lock(t) \/ LockFails(t) \/ Front(t) \/ PopFront(t) \/ Wait(t)
          \/ Relock(t) \/ TimeOut(t) \/ Push(t) \/ Full(t) \/ NotifyOne(t)
          \/ Clear(t) \/ SetMaxSize(t)

Next == \E t \in Threads : Begin(t) \/ Run(t) \/ Expire(t) \/ WakeUp(t)

Spec == Init /\ [][Next]_vars

\* Every thread that can run runs.  Nobody has to begin an operation, and
\* nothing wakes a waiter but a notification.
FairSpec == Spec /\ \A t \in Threads : WF_vars(Run(t))

-----------------------------------------------------------------------------
(* Properties                                                              *)

TypeOK ==
    /\ cont \in Seq(Item) /\ taken \in Seq(Item)
    /\ max_size \in Limits
    /\ owner \in Threads \cup {Nobody}
    /\ pc \in [Threads -> {"idle", "lock", "locked", "front", "wait", "woken",
                           "late", "notify"}]
    /\ op \in [Threads -> Ops]
    /\ ret \in [Threads -> Item \cup {Nobody}]
    /\ \A t \in Threads : pc[t] = "front" => ret[t] \in Item
    /\ expired \in [Threads -> BOOLEAN]
    /\ begun \in 0..MaxOps /\ wasted \in Nat

\* Each operation takes effect in one step, as if the queue had one user.
Queue == INSTANCE BoundedQueue
ActsAtomically == Queue!Spec

\* While a thread waits in pop(), there are at least as many threads about to
\* call notify_one(), awake in a pop of their own, or gone with a notification
\* (wait_until() returned too late), as there are elements: no element is left
\* lying for which somebody waits but for those that popTimed() did not take.
Telling == {t \in Threads : pc[t] = "notify"}
Awake == {t \in Threads : \/ pc[t] \in {"woken", "front"}
                          \/ pc[t] = "locked" /\ op[t] \in Pops}

NoLostWakeup ==
    Waiting # {} =>
        Len(cont) <= Cardinality(Telling) + Cardinality(Awake) + wasted
=============================================================================
