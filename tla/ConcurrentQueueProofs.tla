------------------------- MODULE ConcurrentQueueProofs -------------------------
(***************************************************************************)
(* Proofs about ConcurrentQueue for any set of threads, any elements and   *)
(* any number of operations.                                               *)
(***************************************************************************)
EXTENDS ConcurrentQueue, FiniteSetTheorems, TLAPS

USE ConcurrentQueueAssumption

LEMMA TailType ==
    ASSUME NEW S, NEW s \in Seq(S), s # <<>>
    PROVE  /\ Head(s) \in S /\ Tail(s) \in Seq(S)
           /\ Len(s) \in Nat /\ Len(Tail(s)) = Len(s) - 1
  OBVIOUS

LEMMA ConsType ==
    ASSUME NEW S, NEW s \in Seq(S), NEW x \in S
    PROVE  /\ Append(s, x) \in Seq(S) /\ Len(Append(s, x)) = Len(s) + 1
           /\ <<x>> \o s \in Seq(S) /\ Len(<<x>> \o s) = Len(s) + 1
  OBVIOUS

(* The lock: whoever is inside has it, and what a pop has read is still at *)
(* the front.                                                              *)
LockInv ==
    /\ \A t \in Threads : pc[t] \in {"locked", "front"} => owner = t
    /\ \A t \in Threads :
        pc[t] = "front" => cont # <<>> /\ ret[t] = Head(cont)
    /\ \A t \in Threads :
        pc[t] \in {"front", "wait", "woken", "late"} => op[t] \in Pops

Locations == {"idle", "lock", "locked", "front", "wait", "woken", "late", "notify"}

LEMMA TypeStep == TypeOK /\ LockInv /\ [Next]_vars => TypeOK'
<1> SUFFICES ASSUME TypeOK, LockInv, [Next]_vars PROVE TypeOK'
  OBVIOUS
<1> USE DEF TypeOK, Goto, Leave, data
<1>1. ASSUME NEW t \in Threads, Begin(t) PROVE TypeOK'
  BY <1>1 DEF Begin
<1>2. ASSUME NEW t \in Threads, Expire(t) PROVE TypeOK'
  BY <1>2 DEF Expire
<1>3. ASSUME NEW t \in Threads, Lock(t) PROVE TypeOK'
  BY <1>3 DEF Lock
<1>4. ASSUME NEW t \in Threads, LockFails(t) PROVE TypeOK'
  BY <1>4 DEF LockFails
<1>5. ASSUME NEW t \in Threads, Front(t) PROVE TypeOK'
  <2>1. Head(cont) \in Item
    BY <1>5, TailType DEF Front
  <2>2. QED
    BY <1>5, <2>1 DEF Front
<1>6. ASSUME NEW t \in Threads, PopFront(t) PROVE TypeOK'
  <2>1. cont # <<>> /\ ret[t] \in Item
    BY <1>6 DEF PopFront, LockInv
  <2>2. cont' \in Seq(Item) /\ taken' \in Seq(Item)
    BY <1>6, <2>1, TailType, ConsType DEF PopFront
  <2>3. QED
    BY <1>6, <2>2 DEF PopFront
<1>7. ASSUME NEW t \in Threads, Wait(t) PROVE TypeOK'
  BY <1>7 DEF Wait
<1>8. ASSUME NEW t \in Threads, WakeUp(t) PROVE TypeOK'
  BY <1>8 DEF WakeUp
<1>9. ASSUME NEW t \in Threads, Relock(t) PROVE TypeOK'
  BY <1>9 DEF Relock
<1>10. ASSUME NEW t \in Threads, TimeOut(t) PROVE TypeOK'
  BY <1>10 DEF TimeOut
<1>11. ASSUME NEW t \in Threads, Push(t) PROVE TypeOK'
  <2>1. cont' \in Seq(Item)
    BY <1>11, ConsType DEF Push, Pushed
  <2>2. QED
    BY <1>11, <2>1 DEF Push, AfterPush
<1>12. ASSUME NEW t \in Threads, Full(t) PROVE TypeOK'
  BY <1>12 DEF Full
<1>13. ASSUME NEW t \in Threads, NotifyOne(t) PROVE TypeOK'
  BY <1>13 DEF NotifyOne, Waiting
<1>14. ASSUME NEW t \in Threads, Clear(t) PROVE TypeOK'
  BY <1>14 DEF Clear
<1>15. ASSUME NEW t \in Threads, SetMaxSize(t) PROVE TypeOK'
  BY <1>15 DEF SetMaxSize
<1>16. CASE UNCHANGED vars
  BY <1>16 DEF vars
<1>17. QED
  BY <1>1, <1>2, <1>3, <1>4, <1>5, <1>6, <1>7, <1>8, <1>9, <1>10, <1>11,
     <1>12, <1>13, <1>14, <1>15, <1>16 DEF Next, Run

LEMMA LockStep == TypeOK /\ LockInv /\ [Next]_vars => LockInv'
<1> SUFFICES ASSUME TypeOK, LockInv, [Next]_vars PROVE LockInv'
  OBVIOUS
<1> USE DEF TypeOK, LockInv, Goto, Leave, data, Pops
<1>1. ASSUME NEW t \in Threads, Begin(t) PROVE LockInv'
  BY <1>1 DEF Begin
<1>2. ASSUME NEW t \in Threads, Expire(t) PROVE LockInv'
  BY <1>2 DEF Expire
<1>3. ASSUME NEW t \in Threads, Lock(t) PROVE LockInv'
  BY <1>3 DEF Lock
<1>4. ASSUME NEW t \in Threads, LockFails(t) PROVE LockInv'
  BY <1>4 DEF LockFails
<1>5. ASSUME NEW t \in Threads, Front(t) PROVE LockInv'
  BY <1>5 DEF Front, AtPop
<1>6. ASSUME NEW t \in Threads, PopFront(t) PROVE LockInv'
  BY <1>6 DEF PopFront
<1>7. ASSUME NEW t \in Threads, Wait(t) PROVE LockInv'
  BY <1>7 DEF Wait, AtPop
<1>8. ASSUME NEW t \in Threads, WakeUp(t) PROVE LockInv'
  BY <1>8 DEF WakeUp
<1>9. ASSUME NEW t \in Threads, Relock(t) PROVE LockInv'
  BY <1>9 DEF Relock
<1>10. ASSUME NEW t \in Threads, TimeOut(t) PROVE LockInv'
  BY <1>10 DEF TimeOut
<1>11. ASSUME NEW t \in Threads, Push(t) PROVE LockInv'
  BY <1>11 DEF Push, AtPush, AfterPush
<1>12. ASSUME NEW t \in Threads, Full(t) PROVE LockInv'
  BY <1>12 DEF Full, AtPush
<1>13. ASSUME NEW t \in Threads, NotifyOne(t) PROVE LockInv'
  BY <1>13 DEF NotifyOne, Waiting
<1>14. ASSUME NEW t \in Threads, Clear(t) PROVE LockInv'
  BY <1>14 DEF Clear
<1>15. ASSUME NEW t \in Threads, SetMaxSize(t) PROVE LockInv'
  BY <1>15 DEF SetMaxSize
<1>16. CASE UNCHANGED vars
  BY <1>16 DEF vars
<1>17. QED
  BY <1>1, <1>2, <1>3, <1>4, <1>5, <1>6, <1>7, <1>8, <1>9, <1>10, <1>11,
     <1>12, <1>13, <1>14, <1>15, <1>16 DEF Next, Run

LEMMA Invariant == Spec => [](TypeOK /\ LockInv)
<1>1. Init => TypeOK /\ LockInv
  BY DEF Init, TypeOK, LockInv, Ops, Pops
<1>2. QED
  BY <1>1, TypeStep, LockStep, PTL DEF Spec

(* The variables of the queue keep their types.                            *)
THEOREM TypeCorrect == Spec => []TypeOK
  BY Invariant, PTL

-----------------------------------------------------------------------------
(* Each step of a thread is one step of the queue that BoundedQueue        *)
(* specifies, or none.                                                     *)
LEMMA QueueStep ==
    TypeOK /\ LockInv /\ [Next]_vars => [Queue!Next]_<<cont, max_size, taken>>
<1> SUFFICES ASSUME TypeOK, LockInv, [Next]_vars
             PROVE  [Queue!Next]_<<cont, max_size, taken>>
  OBVIOUS
<1>1. ASSUME NEW t \in Threads, PopFront(t) PROVE Queue!Pop
  BY <1>1 DEF PopFront, Queue!Pop, LockInv
<1>2. ASSUME NEW t \in Threads, Push(t)
      PROVE  \E x \in Item : Queue!Push(x) \/ Queue!PushFront(x)
  BY <1>2 DEF Push, Pushed, HasRoom, Queue!HasRoom, Queue!Push, Queue!PushFront
<1>3. ASSUME NEW t \in Threads, Clear(t) PROVE Queue!Clear
  BY <1>3 DEF Clear, Queue!Clear
<1>4. ASSUME NEW t \in Threads, SetMaxSize(t) PROVE Queue!SetMaxSize
  BY <1>4 DEF SetMaxSize, Queue!SetMaxSize
<1>5. CASE UNCHANGED data
  BY <1>5 DEF data
<1>6. QED
  BY <1>1, <1>2, <1>3, <1>4, <1>5
     DEF Next, Run, Begin, Expire, Lock, LockFails, Front, Wait, WakeUp, Relock,
         TimeOut, Full, NotifyOne, vars, data, Queue!Next

(* The queue behaves as if each operation were one step: threads neither   *)
(* take the same element twice nor lose one nor get them out of order.     *)
THEOREM Linearizable == Spec => ActsAtomically
<1>1. Init => Queue!Init
  BY DEF Init, Queue!Init
<1>2. QED
  BY <1>1, QueueStep, Invariant, PTL DEF Spec, ActsAtomically, Queue!Spec

-----------------------------------------------------------------------------
(* A wakeup is only ever lost to a popTimed() that times out as it is told. *)
LEMMA SetsAreFinite ==
    /\ IsFiniteSet(Telling) /\ IsFiniteSet(Awake)
    /\ Cardinality(Telling) \in Nat /\ Cardinality(Awake) \in Nat
<1>1. Telling \in SUBSET Threads /\ Awake \in SUBSET Threads
  BY DEF Telling, Awake
<1>2. IsFiniteSet(Telling) /\ IsFiniteSet(Awake)
  BY <1>1, FS_Subset
<1>3. QED
  BY <1>2, FS_CardinalityType

LEMMA SetsAreFiniteNext ==
    /\ IsFiniteSet(Telling') /\ IsFiniteSet(Awake')
    /\ Cardinality(Telling') \in Nat /\ Cardinality(Awake') \in Nat
<1>1. Telling' \in SUBSET Threads /\ Awake' \in SUBSET Threads
  BY DEF Telling, Awake
<1>2. IsFiniteSet(Telling') /\ IsFiniteSet(Awake')
  BY <1>1, FS_Subset
<1>3. QED
  BY <1>2, FS_CardinalityType

(* A step that wakes nobody's element: nobody stops telling or looking.    *)
LEMMA Quiet ==
    ASSUME TypeOK, NoLostWakeup, TypeOK', Waiting' \subseteq Waiting,
           Telling \subseteq Telling', Awake \subseteq Awake',
           Len(cont') <= Len(cont), wasted <= wasted'
    PROVE  NoLostWakeup'
<1>1. /\ Cardinality(Telling) <= Cardinality(Telling')
      /\ Cardinality(Awake) <= Cardinality(Awake')
  BY SetsAreFiniteNext, FS_Subset
<1>2. Len(cont) \in Nat /\ Len(cont') \in Nat /\ wasted \in Nat /\ wasted' \in Nat
  BY DEF TypeOK
<1>3. QED
  BY <1>1, <1>2, SetsAreFinite, SetsAreFiniteNext DEF NoLostWakeup

LEMMA WakeStep ==
    TypeOK /\ TypeOK' /\ LockInv /\ NoLostWakeup /\ [Next]_vars
        => NoLostWakeup'
<1> SUFFICES ASSUME TypeOK, TypeOK', LockInv, NoLostWakeup, [Next]_vars
             PROVE  NoLostWakeup'
  OBVIOUS
<1>0. Len(cont) \in Nat /\ Len(cont') \in Nat /\ wasted \in Nat /\ wasted' \in Nat
  BY DEF TypeOK
<1>1. ASSUME NEW t \in Threads,
             \/ Begin(t) \/ Expire(t) \/ Lock(t) \/ LockFails(t) \/ Front(t)
             \/ WakeUp(t) \/ TimeOut(t) \/ Full(t) \/ SetMaxSize(t)
      PROVE  NoLostWakeup'
  <2>1. cont' = cont /\ wasted' = wasted
    BY <1>1 DEF Begin, Expire, Lock, LockFails, Front, WakeUp, TimeOut,
                Full, SetMaxSize, data
  <2>2. Waiting' \subseteq Waiting
    BY <1>1 DEF Begin, Expire, Lock, LockFails, Front, WakeUp, TimeOut,
                Full, SetMaxSize, Goto, Leave, Waiting, TypeOK
  <2>3. Telling \subseteq Telling'
    BY <1>1 DEF Begin, Expire, Lock, LockFails, Front, WakeUp, TimeOut,
                Full, SetMaxSize, Goto, Leave, Telling, TypeOK, AtPop, AtPush
  <2>4. Awake \subseteq Awake'
    BY <1>1 DEF Begin, Expire, Lock, LockFails, Front, WakeUp, TimeOut,
                Full, SetMaxSize, Goto, Leave, Awake, TypeOK, AtPop, AtPush,
                LockInv, Pops
  <2>5. QED
    BY <1>0, <2>1, <2>2, <2>3, <2>4, Quiet
<1>7. ASSUME NEW t \in Threads, Relock(t) PROVE NoLostWakeup'
  <2>1. /\ cont' = cont /\ pc[t] = "woken" /\ op' = op
        /\ Waiting' \subseteq Waiting /\ Telling' = Telling
    BY <1>7 DEF Relock, data, Goto, Waiting, Telling, TypeOK
  <2>2. CASE Goto(t, "locked") /\ UNCHANGED wasted
    <3>1. Awake \subseteq Awake'
      BY <2>1, <2>2 DEF Goto, Awake, TypeOK, LockInv
    <3>2. QED
      BY <1>0, <2>1, <2>2, <3>1, Quiet
  <2>3. CASE Goto(t, "idle") /\ wasted' = wasted + 1
    <3>1. t \in Awake /\ Awake' = Awake \ {t}
      BY <2>1, <2>3 DEF Goto, Awake, TypeOK
    <3>2. Cardinality(Awake') = Cardinality(Awake) - 1
      BY <3>1, SetsAreFinite, FS_RemoveElement
    <3>3. QED
      BY <1>0, <2>1, <2>3, <3>2, SetsAreFinite DEF NoLostWakeup
  <2>4. QED
    BY <1>7, <2>2, <2>3 DEF Relock
<1>2. ASSUME NEW t \in Threads, PopFront(t) PROVE NoLostWakeup'
  <2>1. t \in Awake /\ Awake' = Awake \ {t} /\ Telling' = Telling
        /\ Waiting' = Waiting /\ wasted' = wasted
    BY <1>2 DEF PopFront, Leave, Goto, Awake, Telling, Waiting, TypeOK
  <2>2. Len(cont') = Len(cont) - 1
    BY <1>2, TailType DEF PopFront, LockInv, TypeOK
  <2>3. Cardinality(Awake') = Cardinality(Awake) - 1
    BY <2>1, SetsAreFinite, FS_RemoveElement
  <2>4. QED
    BY <1>0, <2>1, <2>2, <2>3, SetsAreFinite DEF NoLostWakeup
<1>3. ASSUME NEW t \in Threads, Wait(t) \/ Clear(t) PROVE NoLostWakeup'
  <2>1. Len(cont') = 0
    BY <1>3 DEF Wait, Clear, data
  <2>2. QED
    BY <1>0, <2>1, SetsAreFiniteNext DEF NoLostWakeup
<1>4. ASSUME NEW t \in Threads, Push(t) PROVE NoLostWakeup'
  <2>1. t \notin Telling /\ Telling' = Telling \cup {t} /\ Awake' = Awake
        /\ Waiting' = Waiting /\ wasted' = wasted
    BY <1>4 DEF Push, AtPush, AfterPush, Goto, Awake, Telling, Waiting, TypeOK,
                Pops
  <2>2. Len(cont') = Len(cont) + 1
    BY <1>4, ConsType DEF Push, Pushed, TypeOK
  <2>3. Cardinality(Telling') = Cardinality(Telling) + 1
    BY <2>1, SetsAreFinite, FS_AddElement
  <2>4. QED
    BY <1>0, <2>1, <2>2, <2>3, SetsAreFinite DEF NoLostWakeup
<1>5. ASSUME NEW t \in Threads, NotifyOne(t) PROVE NoLostWakeup'
  <2>1. CASE Waiting = {}
    <3>1. Waiting' = {}
      BY <1>5, <2>1 DEF NotifyOne, Goto, Waiting, TypeOK
    <3>2. QED
      BY <3>1 DEF NoLostWakeup
  <2>2. CASE Waiting # {}
    <3>1. PICK w \in Waiting : pc' = [pc EXCEPT ![t] = "idle", ![w] = "woken"]
      BY <1>5, <2>2 DEF NotifyOne
    <3>2. pc[t] = "notify" /\ pc[w] = "wait" /\ w \in Threads /\ w # t
          /\ UNCHANGED <<cont, op, wasted>>
      BY <1>5, <3>1 DEF NotifyOne, Waiting, data
    <3>3. t \in Telling /\ Telling' = Telling \ {t}
      BY <3>1, <3>2 DEF Telling, TypeOK
    <3>4. w \notin Awake /\ Awake' = Awake \cup {w}
      BY <3>1, <3>2 DEF Awake, TypeOK
    <3>5. Cardinality(Telling') = Cardinality(Telling) - 1
      BY <3>3, SetsAreFinite, FS_RemoveElement
    <3>6. Cardinality(Awake') = Cardinality(Awake) + 1
      BY <3>4, SetsAreFinite, FS_AddElement
    <3>7. QED
      BY <1>0, <2>2, <3>2, <3>5, <3>6, SetsAreFinite DEF NoLostWakeup
  <2>3. QED
    BY <2>1, <2>2
<1>6. CASE UNCHANGED vars
  BY <1>6 DEF vars, NoLostWakeup, Waiting, Telling, Awake
<1>8. QED
  BY <1>1, <1>2, <1>3, <1>4, <1>5, <1>6, <1>7 DEF Next, Run

(* notify_one() after each push is enough: an element lies in the queue     *)
(* while a thread sleeps in pop() only if a popTimed() went away with the  *)
(* notification for it.                                                    *)
THEOREM NothingSleeps == Spec => []NoLostWakeup
<1>1. Init => NoLostWakeup
  BY DEF Init, NoLostWakeup, Waiting
<1>2. QED
  BY <1>1, WakeStep, Invariant, PTL DEF Spec

(* Without popTimed() none is wasted.                                       *)
Untimed == wasted = 0 /\ \A t \in Threads : op[t] # "popTimed" /\ ~expired[t]

THEOREM NothingWasted ==
    ASSUME Timed = FALSE
    PROVE  Spec => [](wasted = 0 /\ NoLostWakeup)
<1>1. Init => Untimed
  BY DEF Init, Untimed
<1>2. TypeOK /\ Untimed /\ [Next]_vars => Untimed'
  BY DEF TypeOK, Untimed, Next, Run, Begin, Expire, Lock, LockFails, Front,
         PopFront, Wait, WakeUp, Relock, TimeOut, Push, AfterPush, Full,
         NotifyOne, Waiting, Clear, SetMaxSize, vars, Goto, Leave
<1>3. Untimed => wasted = 0
  BY DEF Untimed
<1>4. QED
  BY <1>1, <1>2, <1>3, Invariant, NothingSleeps, PTL DEF Spec
=============================================================================
