----------------------------- MODULE TimerProofs -----------------------------
(***************************************************************************)
(* Proofs about Timer for any number of clients and ids, any cycles and    *)
(* any bound of the clock.  What needs the clock not to go back says so.   *)
(***************************************************************************)
EXTENDS Timer, TLAPS

(* ib is end() or points to a node of m_clients *)
IbValid == ib = NoClient \/ ib \in Nodes(reg)

(* While nothing has been invalidated the walk's iterators are good.       *)
IteratorInv ==
    /\ pc \in {"outer", "inner"} => ~m_inv_itrs
    /\ pc \in {"inner", "callback", "advance"} => last_client \in Clients
    /\ pc \in {"callback", "advance"} => ib_event \in Ids
    /\ (pc # "idle" /\ ~m_inv_itrs) =>
          /\ dangling = {}
          /\ IbValid
          /\ pc = "inner" => ib_event = NoId \/ Current \in reg
          /\ pc \in {"callback", "advance"} => Current \in reg

(* The entries that the walk has behind it.                                *)
Passed(c, i) ==
    \/ pc = "outer" /\ c < ib
    \/ pc \in {"inner", "callback", "advance"} /\ c < last_client
    \/ pc = "inner" /\ c = last_client /\ i < ib_event
    \/ pc \in {"callback", "advance"} /\ c = last_client /\ i <= ib_event
    \/ pc = "inner" /\ last_client < c /\ c < ib
    \/ pc \in {"callback", "advance"} /\ ~m_inv_itrs
          /\ last_client < c /\ c < ib

PassInv ==
    /\ now <= clock
    /\ \A c \in Clients, i \in Ids :
          (<<c, i>> \in reg /\ (Passed(c, i) \/ <<c, i>> \in fired))
              => ~Due(<<c, i>>, now)

USE TimerAssumption DEF Clients, Ids, NoClient, NoId

(* Only the walk itself needs to know that it is at a client.              *)
TypeInv == TypeOK /\ (pc \in {"inner", "callback", "advance"} => last_client \in Clients)

LEMMA ErasedType ==
    ASSUME NEW gone, NEW left PROVE Erased(gone, left) \subseteq {"ib", "ib_event"}
  BY DEF Erased

LEMMA TypeInvariant == Spec => []TypeInv
<1>1. Init => TypeInv
  <2> SUFFICES ASSUME Init PROVE TypeInv
    OBVIOUS
  <2>1. start \in [Events -> 0..MaxClock] /\ cycle \in [Events -> Cycles \cup {0}]
    BY DEF Init
  <2>2. reg \subseteq Events /\ fired \subseteq Events
    BY DEF Init
  <2>3. ib \in 1..NoClient /\ last_client \in 1..NoClient /\ ib_event \in 1..NoId
    BY DEF Init
  <2>4. /\ clock \in 0..MaxClock /\ m_last_check \in 0..MaxClock /\ now \in 0..MaxClock
        /\ pc = "idle" /\ dangling = {}
    BY DEF Init
  <2>5. m_inv_itrs \in BOOLEAN
    BY Zenon DEF Init
  <2>6. QED
    BY <2>1, <2>2, <2>3, <2>4, <2>5 DEF TypeInv, TypeOK
<1>2. TypeInv /\ [Next]_vars => TypeInv'
  <2> SUFFICES ASSUME TypeInv, [Next]_vars PROVE TypeInv'
    OBVIOUS
  <2> USE DEF TypeInv, TypeOK
  <2>1. CASE Tick
    BY <2>1 DEF Tick, entries, walk
  <2>2. ASSUME NEW e \in Events, NEW cy \in Cycles, Add(e, cy) PROVE TypeInv'
    BY <2>2 DEF Add, walk
  <2>3. ASSUME NEW e \in Events, Remove(e) PROVE TypeInv'
    <3>1. dangling' \subseteq {"ib", "ib_event"}
      BY <2>3, ErasedType DEF Remove
    <3>2. reg' \subseteq Events
      BY <2>3 DEF Remove
    <3>3. start' \in [Events -> 0..MaxClock] /\ cycle' \in [Events -> Cycles \cup {0}]
      BY <2>3 DEF Remove
    <3>4. QED
      BY <2>3, <3>1, <3>2, <3>3 DEF Remove, walk
  <2>4. CASE Clear
    <3>1. dangling' \subseteq {"ib", "ib_event"}
      BY <2>4, ErasedType DEF Clear
    <3>2. start' \in [Events -> 0..MaxClock] /\ cycle' \in [Events -> Cycles \cup {0}]
      BY <2>4 DEF Clear
    <3>3. QED
      BY <2>4, <3>1, <3>2 DEF Clear, walk
  <2>5. CASE InvalidateIterator
    BY <2>5 DEF InvalidateIterator, walk, entries
  <2>6. CASE CheckBegin
    BY <2>6 DEF CheckBegin, entries
  <2>7. CASE NextClient
    BY <2>7 DEF NextClient, entries
  <2>8. CASE CheckEnd
    BY <2>8 DEF CheckEnd, entries
  <2>9. CASE Fire
    <3>1. Current \in Events
      BY <2>9 DEF Fire, Restamped, Current, Events
    <3>2. QED
      BY <2>9, <3>1 DEF Fire, Restamped, Restamped
  <2>10. CASE NotDue
    BY <2>10 DEF NotDue, entries
  <2>11. CASE ClientDone
    BY <2>11 DEF ClientDone, entries
  <2>12. CASE CallbackReturns
    BY <2>12 DEF CallbackReturns, entries
  <2>13. CASE Restart
    BY <2>13 DEF Restart, RestartFrom, entries
  <2>14. CASE NextEvent
    BY <2>14 DEF NextEvent, entries
  <2>15. CASE UNCHANGED vars
    BY <2>15 DEF vars
  <2>16. QED
    BY <2>1, <2>2, <2>3, <2>4, <2>5, <2>6, <2>7, <2>8, <2>9, <2>10, <2>11,
       <2>12, <2>13, <2>14, <2>15 DEF Next, Program, Check
<1>3. QED
  BY <1>1, <1>2, PTL DEF Spec

LEMMA NodesMember == ASSUME NEW r, NEW c, NEW i, <<c, i>> \in r PROVE c \in Nodes(r)
  BY DEF Nodes

(* The variables keep their types.                                         *)
THEOREM TypeCorrect == Spec => []TypeOK
  BY TypeInvariant, PTL DEF TypeInv

(* IteratorInv is inductive: only remove() and clear() erase nodes, and    *)
(* both invalidate; every other step keeps reg or recomputes an iterator   *)
(* from it.                                                                *)
LEMMA IteratorStep == TypeInv /\ IteratorInv /\ [Next]_vars => IteratorInv'
<1> SUFFICES ASSUME TypeInv, IteratorInv, [Next]_vars PROVE IteratorInv'
  OBVIOUS
<1> USE DEF TypeInv, TypeOK, IteratorInv, IbValid
<1>1. CASE Tick
  BY <1>1 DEF Tick, entries, walk, Current
<1>2. ASSUME NEW e \in Events, NEW cy \in Cycles, Add(e, cy) PROVE IteratorInv'
  BY <1>2 DEF Add, walk, Callable, Current
<1>3. ASSUME NEW e \in Events, Remove(e) PROVE IteratorInv'
  BY <1>3 DEF Remove, walk, Callable
<1>4. CASE Clear
  BY <1>4 DEF Clear, walk, Callable
<1>5. CASE InvalidateIterator
  BY <1>5 DEF InvalidateIterator, walk, entries, Callable
<1>6. CASE CheckBegin
  BY <1>6 DEF CheckBegin, entries, IsLowerBound
<1>7. CASE NextClient
  BY <1>7 DEF NextClient, entries, IsLowerBound, Current
<1>8. CASE CheckEnd
  BY <1>8 DEF CheckEnd
<1>9. CASE Fire
  BY <1>9 DEF Fire, Restamped, Current
<1>10. CASE NotDue
  BY <1>10 DEF NotDue, entries, Current
<1>11. CASE ClientDone
  BY <1>11 DEF ClientDone, entries
<1>12. CASE CallbackReturns
  BY <1>12 DEF CallbackReturns, entries, Current
<1>13. CASE Restart
  BY <1>13 DEF Restart, RestartFrom, entries, IsLowerBound
<1>14. CASE NextEvent
  BY <1>14 DEF NextEvent, entries, IsLowerBound, Current
<1>15. CASE UNCHANGED vars
  BY <1>15 DEF vars, Current
<1>16. QED
  BY <1>1, <1>2, <1>3, <1>4, <1>5, <1>6, <1>7, <1>8, <1>9, <1>10, <1>11,
     <1>12, <1>13, <1>14, <1>15 DEF Next, Program, Check

(* check() never uses an iterator into an erased node, whatever the        *)
(* callbacks do.                                                           *)
THEOREM IteratorsAreGood == Spec => []NoStaleIterator
<1>1. Init => IteratorInv
  BY DEF Init, IteratorInv
<1>2. IteratorInv => NoStaleIterator
  BY DEF IteratorInv, IbValid, NoStaleIterator
<1>3. QED
  BY <1>1, <1>2, TypeInvariant, IteratorStep, PTL DEF Spec

-----------------------------------------------------------------------------
(* From here on the clock does not go back.                                *)
AllInv == TypeInv /\ IteratorInv /\ PassInv

(* What a callback adds starts at or after `now' and what is called starts *)
(* at `now', so neither is due again in this pass.                         *)
LEMMA CycleIsNat ==
    ASSUME TypeOK, NEW e \in Events PROVE cycle[e] \in Nat /\ start[e] \in Int
<1>1. cycle \in [Events -> Cycles \cup {0}] /\ start \in [Events -> 0..MaxClock]
  BY DEF TypeOK
<1>2. Cycles \cup {0} \subseteq Nat
  OBVIOUS
<1>3. cycle[e] \in Cycles \cup {0} /\ start[e] \in 0..MaxClock
  BY <1>1
<1>4. cycle[e] \in Nat
  BY <1>2, <1>3, Zenon
<1>5. start[e] \in Int
  BY <1>3
<1>6. QED
  BY <1>4, <1>5

LEMMA PassStep ==
    ASSUME ClockSteps \subseteq Nat
    PROVE  AllInv /\ [Next]_vars => PassInv'
<1> SUFFICES ASSUME AllInv, [Next]_vars PROVE PassInv'
  OBVIOUS
<1> USE DEF AllInv, TypeInv, TypeOK, PassInv, Passed, Due, Slack
<1>1. CASE Tick
  BY <1>1 DEF Tick, entries, walk
<1>2. ASSUME NEW e \in Events, NEW cy \in Cycles, Add(e, cy) PROVE PassInv'
  <2> SUFFICES ASSUME NEW c \in Clients, NEW i \in Ids, <<c, i>> \in reg',
                      (Passed(c, i) \/ <<c, i>> \in fired)'
               PROVE  ~Due(<<c, i>>, now)'
    BY <1>2 DEF Add, walk
  <2>1. CASE <<c, i>> = e
    BY <1>2, <2>1 DEF Add, walk, Events
  <2>2. CASE <<c, i>> # e
    BY <1>2, <2>2 DEF Add, walk, Events
  <2>3. QED
    BY <2>1, <2>2
<1>3. ASSUME NEW e \in Events, Remove(e) PROVE PassInv'
  BY <1>3 DEF Remove, walk, Events
<1>4. CASE Clear
  BY <1>4 DEF Clear, walk
<1>5. CASE InvalidateIterator
  BY <1>5 DEF InvalidateIterator, walk, entries
<1>6. CASE CheckBegin
  BY <1>6, NodesMember DEF CheckBegin, entries, IsLowerBound
<1>7. CASE NextClient
  BY <1>7, NodesMember DEF NextClient, entries, IsLowerBound
<1>8. CASE CheckEnd
  BY <1>8 DEF CheckEnd, entries
<1>9. CASE Fire
  <2> SUFFICES ASSUME NEW c \in Clients, NEW i \in Ids, <<c, i>> \in reg,
                      (Passed(c, i) \/ <<c, i>> \in fired)'
               PROVE  ~Due(<<c, i>>, now)'
    BY <1>9 DEF Fire
  <2> <<c, i>> \in Events
    BY DEF Events
  <2>1. cycle[<<c, i>>] \in Nat /\ now \in Int
    BY CycleIsNat
  <2>2. CASE <<c, i>> = Current
    <3>1. start'[<<c, i>>] = now /\ cycle' = cycle /\ now' = now
      BY <1>9, <2>1, <2>2 DEF Fire, Restamped
    <3>2. QED
      BY <2>1, <3>1
  <2>3. CASE <<c, i>> # Current
    BY <1>9, <2>1, <2>3 DEF Fire, Restamped, Current
  <2>4. QED
    BY <2>2, <2>3
<1>10. CASE NotDue
  BY <1>10 DEF NotDue, entries, Current, IteratorInv
<1>11. CASE ClientDone
  BY <1>11 DEF ClientDone, entries
<1>12. CASE CallbackReturns
  BY <1>12 DEF CallbackReturns, entries
<1>13. CASE Restart
  BY <1>13, NodesMember DEF Restart, RestartFrom, entries, IsLowerBound
<1>14. CASE NextEvent
  BY <1>14, NodesMember DEF NextEvent, entries, IsLowerBound
<1>15. CASE UNCHANGED vars
  BY <1>15 DEF vars
<1>16. QED
  BY <1>1, <1>2, <1>3, <1>4, <1>5, <1>6, <1>7, <1>8, <1>9, <1>10, <1>11,
     <1>12, <1>13, <1>14, <1>15 DEF Next, Program, Check

LEMMA AllInvariant == ASSUME ClockSteps \subseteq Nat PROVE Spec => []AllInv
<1>1. Init => IteratorInv /\ PassInv
  BY DEF Init, IteratorInv, PassInv
<1>2. IteratorInv /\ PassInv /\ TypeInv /\ [Next]_vars => (IteratorInv /\ PassInv)'
  BY IteratorStep, PassStep DEF AllInv
<1>3. QED
  BY <1>1, <1>2, TypeInvariant, PTL DEF Spec, AllInv

(* A pass that ends leaves no due entry behind.                            *)
THEOREM NothingIsMissed ==
    ASSUME ClockSteps \subseteq Nat PROVE Spec => []PassMissesNothing
<1>1. AllInv => PassMissesNothing
  <2> SUFFICES ASSUME AllInv, pc = "outer", ib = NoClient, NEW e \in reg
               PROVE  ~Due(e, now)
    BY DEF PassMissesNothing
  <2>1. PICK c \in Clients, i \in Ids : e = <<c, i>>
    BY DEF AllInv, TypeInv, TypeOK, Events
  <2>2. Passed(c, i)
    BY DEF Passed
  <2>3. QED
    BY <2>1, <2>2 DEF AllInv, PassInv
<1>2. QED
  BY <1>1, AllInvariant, PTL

(* No entry is called twice in one pass.                                   *)
THEOREM CalledOnce ==
    ASSUME ClockSteps \subseteq Nat PROVE Spec => FiresOncePerPass
<1>1. AllInv /\ [Next]_vars =>
        [(pc = "inner" /\ pc' = "callback") => Current \notin fired]_vars
  <2> SUFFICES ASSUME AllInv, [Next]_vars, pc = "inner", pc' = "callback"
               PROVE  Current \notin fired
    OBVIOUS
  <2>1. Fire
    BY DEF Next, vars, Tick, Program, Check, Add, Remove, Clear, walk,
           Callable, InvalidateIterator, CheckBegin, NextClient, CheckEnd,
           NotDue, ClientDone, CallbackReturns, Restart, NextEvent
  <2>2. Current \in reg /\ last_client \in Clients /\ ib_event \in Ids
    BY <2>1 DEF Fire, Restamped, AllInv, TypeInv, TypeOK, IteratorInv
  <2>3. QED
    BY <2>1, <2>2 DEF Fire, Restamped, AllInv, PassInv, Current
<1>2. QED
  BY <1>1, AllInvariant, PTL DEF Spec, FiresOncePerPass

\* A pass of check() calls the entries that are due, each of them and each
\* once, if the clock is not set back.
THEOREM PassCorrect ==
    ASSUME ClockSteps \subseteq Nat PROVE Spec => PassIsExact
<1>1. PassMissesNothing
        => [(pc = "outer" /\ pc' = "idle") => PassMissesNothing]_vars
  OBVIOUS
<1>2. QED
  BY <1>1, NothingIsMissed, CalledOnce, PTL DEF PassIsExact
=============================================================================
