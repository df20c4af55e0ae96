--------------------------- MODULE SupervisorProofs ---------------------------
(***************************************************************************)
(* Proofs about Supervisor for any number of children, process ids and     *)
(* descriptors, and whoever forks again and whatever fails.                *)
(***************************************************************************)
EXTENDS Supervisor, TLAPS

USE SupervisorAssumption DEF Children, NoPid, Stranger

LEMMA ForkType ==
    ASSUME TypeOK, NEW i \in Children, Fork(i)
    PROVE  /\ pid' \in [Children -> Pids \cup {NoPid}]
           /\ fd' \in [Children -> SUBSET Fds]
           /\ proc' \in [Pids -> {"free", "run", "zombie"}]
           /\ forkedFor' \in [Pids -> Children \cup {Stranger}]
           /\ stopping' \subseteq Pids
           /\ fdOwner' \in [Fds -> Children \cup {FreeFd, OtherFd}]
           /\ forks' \in 0..MaxForks
<1>1. Closed(fdOwner, fd[i]) \in [Fds -> Children \cup {FreeFd, OtherFd}]
  BY DEF TypeOK, Closed
<1>2. \A owner \in [Fds -> Children \cup {FreeFd, OtherFd}] : \A pair :
          Owned(owner, pair, i) \in [Fds -> Children \cup {FreeFd, OtherFd}]
  BY DEF Owned
<1>3. CASE ForkSucceeds(i)
  <2> DEFINE owner == Closed(fdOwner, fd[i])
  <2>1. PICK pair \in SUBSET Fds, p \in FreePids :
            /\ fd' = [fd EXCEPT ![i] = pair]
            /\ fdOwner' = Owned(owner, pair, i)
            /\ pid' = [pid EXCEPT ![i] = p]
            /\ proc' = [proc EXCEPT ![p] = "run"]
            /\ forkedFor' = [forkedFor EXCEPT ![p] = i]
            /\ stopping' = IF run THEN stopping \ {p} ELSE stopping \cup {p}
    BY <1>3 DEF ForkSucceeds
  <2>2. p \in Pids
    BY DEF FreePids
  <2>3. fdOwner' \in [Fds -> Children \cup {FreeFd, OtherFd}]
    BY <1>1, <1>2, <2>1
  <2>4. forks' \in 0..MaxForks
    BY <1>3 DEF ForkSucceeds, TypeOK
  <2>5. pid' \in [Children -> Pids \cup {NoPid}] /\ fd' \in [Children -> SUBSET Fds]
    BY <2>1, <2>2 DEF TypeOK
  <2>6. /\ proc' \in [Pids -> {"free", "run", "zombie"}]
        /\ forkedFor' \in [Pids -> Children \cup {Stranger}]
    BY <2>1, <2>2 DEF TypeOK
  <2>7. stopping' \subseteq Pids
    BY <2>1, <2>2 DEF TypeOK
  <2>8. QED
    BY <2>3, <2>4, <2>5, <2>6, <2>7
<1>4. CASE ForkFails(i)
  <2> DEFINE owner == Closed(fdOwner, fd[i])
  <2>1. UNCHANGED <<pid, proc, forkedFor, stopping, forks>>
    BY <1>4 DEF ForkFails
  <2>2. \/ fdOwner' = owner /\ fd' = fd
        \/ \E pair \in SUBSET Fds :
               fd' = [fd EXCEPT ![i] = pair] /\ fdOwner' = Owned(owner, pair, i)
    BY <1>4, Zenon DEF ForkFails
  <2>3. fdOwner' \in [Fds -> Children \cup {FreeFd, OtherFd}]
    BY <1>1, <1>2, <2>2, Zenon
  <2>4. fd' \in [Children -> SUBSET Fds]
    BY <2>2 DEF TypeOK
  <2>5. QED
    BY <2>1, <2>3, <2>4 DEF TypeOK
<1>5. QED
  BY <1>3, <1>4 DEF Fork

TypeInv == TypeOK /\ (pc = "init" => next < NChildren)

LEMMA TypeInvariant == Spec => []TypeInv
<1>1. Init => TypeInv
  <2> SUFFICES ASSUME Init PROVE TypeInv
    OBVIOUS
  <2>1. run \in BOOLEAN /\ check_child \in BOOLEAN /\ sigchld \in BOOLEAN
    BY Zenon DEF Init
  <2>2. cont \in Seq(Children \cup {Stranger})
    BY DEF Init
  <2>3. /\ pid \in [Children -> Pids \cup {NoPid}]
        /\ fd \in [Children -> SUBSET Fds]
        /\ proc \in [Pids -> {"free", "run", "zombie"}]
        /\ forkedFor \in [Pids -> Children \cup {Stranger}]
        /\ fdOwner \in [Fds -> Children \cup {FreeFd, OtherFd}]
    BY DEF Init
  <2>4. /\ dead_count \in Nat /\ reaped \in Nat /\ forks \in 0..MaxForks
        /\ next = 0 /\ pc = "init" /\ stopping = {}
    BY DEF Init
  <2>5. QED
    BY <2>1, <2>2, <2>3, <2>4 DEF TypeInv, TypeOK
<1>2. TypeInv /\ [Next]_vars => TypeInv'
  <2> SUFFICES ASSUME TypeInv, [Next]_vars PROVE TypeInv'
    OBVIOUS
  <2> USE DEF TypeInv, TypeOK, slots, flags, kernel, history
  <2>1. CASE InitChild
    <3>1. next \in Children
      BY <2>1 DEF InitChild
    <3>2. CASE /\ ForkSucceeds(next)
               /\ next' = next + 1
               /\ pc' = IF next' = NChildren THEN "loop" ELSE "init"
      BY <2>1, <3>1, <3>2, ForkType DEF InitChild, Fork
    <3>3. CASE ForkFails(next) /\ pc' = "failed" /\ UNCHANGED next
      BY <2>1, <3>1, <3>3, ForkType DEF InitChild, Fork
    <3>4. QED
      BY <2>1, <3>2, <3>3 DEF InitChild
  <2>2. CASE LoopTop
    BY <2>2 DEF LoopTop
  <2>3. CASE ReapNothing
    BY <2>3 DEF ReapNothing
  <2>4. CASE ReapChild
    BY <2>4 DEF ReapChild, Emptied, Listed, Closed, Zombies, SlotOf
  <2>5. CASE ReapStranger
    BY <2>5 DEF ReapStranger, Listed, Zombies
  <2>6. CASE Report
    <3>1. Head(cont) \in Children \cup {Stranger}
          /\ cont' \in Seq(Children \cup {Stranger})
      BY <2>6 DEF Report
    <3>0. /\ dead_count' = dead_count + 1
          /\ UNCHANGED <<flags, pc, next, sigchld, reaped>>
      BY <2>6 DEF Report
    <3>2. CASE Head(cont) # Stranger /\ Fork(Head(cont))
      <4>1. Head(cont) \in Children /\ Fork(Head(cont))
        BY <3>1, <3>2
      <4>2. /\ next' \in 0..NChildren /\ reaped' \in Nat
            /\ dead_count' \in Nat /\ pc' = pc /\ UNCHANGED <<flags, sigchld>>
            /\ (pc' = "init" => next' < NChildren)
        BY <3>0
      <4>3. /\ pid' \in [Children -> Pids \cup {NoPid}]
            /\ fd' \in [Children -> SUBSET Fds]
            /\ proc' \in [Pids -> {"free", "run", "zombie"}]
            /\ forkedFor' \in [Pids -> Children \cup {Stranger}]
            /\ stopping' \subseteq Pids
            /\ fdOwner' \in [Fds -> Children \cup {FreeFd, OtherFd}]
            /\ forks' \in 0..MaxForks
        BY <4>1, ForkType
      <4>4. run' \in BOOLEAN /\ check_child' \in BOOLEAN /\ sigchld' \in BOOLEAN
        BY <4>2, Zenon
      <4>5. QED
        BY <3>1, <4>2, <4>3, <4>4
    <3>3. CASE UNCHANGED <<slots, proc, forkedFor, stopping, fdOwner, forks>>
      BY <2>6, <3>1, <3>3 DEF Report
    <3>4. QED
      BY <2>6, <3>2, <3>3 DEF Report
  <2>7. CASE ReportsDone
    BY <2>7 DEF ReportsDone
  <2>8. CASE ForkLater
    BY <2>8, ForkType DEF ForkLater
  <2>9. CASE OpenOther
    BY <2>9 DEF OpenOther, FreeFds
  <2>10. CASE CloseOther
    BY <2>10 DEF CloseOther
  <2>11. CASE SpawnStranger
    BY <2>11 DEF SpawnStranger, FreePids
  <2>12. CASE WorkDone
    BY <2>12 DEF WorkDone
  <2>13. CASE SignalToChild
    BY <2>13 DEF SignalToChild, Kill
  <2>14. CASE EventExit
    <3>1. AllPids \subseteq Pids \cup {NoPid}
      BY DEF AllPids
    <3>2. stopping' \subseteq Pids
      BY <2>14, <3>1 DEF EventExit, Kill
    <3>3. run' \in BOOLEAN /\ check_child' \in BOOLEAN /\ sigchld' \in BOOLEAN
      BY <2>14, Zenon DEF EventExit
    <3>4. QED
      BY <2>14, <3>2, <3>3 DEF EventExit
  <2>15. CASE StopSignal
    BY <2>15 DEF StopSignal
  <2>16. CASE ChildSignal
    BY <2>16 DEF ChildSignal
  <2>17. ASSUME NEW p \in Pids, Dies(p) PROVE TypeInv'
    BY <2>17 DEF Dies
  <2>18. CASE Orphaned
    BY <2>18 DEF Orphaned, Zombies
  <2>19. CASE UNCHANGED vars
    BY <2>19 DEF vars
  <2>20. QED
    BY <2>1, <2>2, <2>3, <2>4, <2>5, <2>6, <2>7, <2>8, <2>9, <2>10, <2>11,
       <2>12, <2>13, <2>14, <2>15, <2>16, <2>17, <2>18, <2>19
       DEF Next, Loop, Callbacks, Environment, Crash, ChildExits
<1>3. QED
  BY <1>1, <1>2, PTL DEF Spec

(* The variables keep their types.                                         *)
THEOREM TypeCorrect == Spec => []TypeOK
  BY TypeInvariant, PTL DEF TypeInv

-----------------------------------------------------------------------------
(* The table is exact.  What makes it inductive: a slot is forked only     *)
(* when it is empty, since eventInitChild() forks each slot once, the      *)
(* report of a child forks only the slot that its reaping has emptied, and *)
(* a timer looks at the slot first.                                        *)

Exact(p, i) == pid[i] = p <=> (proc[p] # "free" /\ forkedFor[p] = i)

Known(n) == cont[n] # Stranger

TableInv ==
    /\ ~Ended => \A p \in Pids, i \in Children : Exact(p, i)
    /\ pc = "init" => \A i \in Children : i >= next => pid[i] = NoPid
    /\ pc \notin {"reap", "report"} => cont = <<>>
    /\ pc = "reap" => \A n \in 1..Len(cont) : ~Known(n)
    /\ pc = "report" => \A m, n \in 1..Len(cont) : Known(m) /\ Known(n) => m = n
    /\ \A n \in 1..Len(cont) : Known(n) => pid[cont[n]] = NoPid

LEMMA AppendFacts ==
    ASSUME NEW S, NEW s \in Seq(S), NEW x
    PROVE  /\ Len(Append(s, x)) = Len(s) + 1 /\ Len(s) \in Nat
           /\ \A n \in 1..Len(Append(s, x)) :
                (n \in 1..Len(s) /\ Append(s, x)[n] = s[n]) \/ Append(s, x)[n] = x
  OBVIOUS

LEMMA ForkKeepsExact ==
    ASSUME TypeOK, NEW i \in Children, Fork(i), pid[i] = NoPid,
           \A p \in Pids, j \in Children : Exact(p, j)
    PROVE  /\ (\A p \in Pids, j \in Children : Exact(p, j))'
           /\ \A j \in Children : j # i => pid'[j] = pid[j]
<1>1. CASE ForkSucceeds(i)
  <2>1. PICK p \in FreePids :
            /\ pid' = [pid EXCEPT ![i] = p]
            /\ proc' = [proc EXCEPT ![p] = "run"]
            /\ forkedFor' = [forkedFor EXCEPT ![p] = i]
    BY <1>1 DEF ForkSucceeds
  <2>2. p \in Pids /\ proc[p] = "free"
    BY DEF FreePids
  <2>3. QED
    BY <2>1, <2>2 DEF TypeOK, Exact
<1>2. CASE ForkFails(i)
  BY <1>2 DEF ForkFails, Exact
<1>3. QED
  BY <1>1, <1>2 DEF Fork

LEMMA TableStep == TypeInv /\ TableInv /\ [Next]_vars => TableInv'
<1> SUFFICES ASSUME TypeInv, TableInv, [Next]_vars PROVE TableInv'
  OBVIOUS
<1> USE DEF TypeInv, TypeOK, TableInv, Exact, Known, Ended, slots, flags,
            kernel, history
<1>1. CASE InitChild
  <2>1. next \in Children /\ pid[next] = NoPid
    BY <1>1 DEF InitChild
  <2>2. Fork(next) /\ cont' = <<>> /\ pc' \notin {"reap", "report"}
    BY <1>1 DEF InitChild, Fork
  <2>3. CASE pc' = "failed"
    BY <2>2, <2>3
  <2>4. CASE pc' # "failed"
    <3>1. next' = next + 1
      BY <1>1, <2>4 DEF InitChild
    <3>2. QED
      BY <1>1, <2>1, <2>2, <3>1, ForkKeepsExact DEF InitChild
  <2>5. QED
    BY <2>3, <2>4
<1>2. CASE LoopTop
  BY <1>2 DEF LoopTop
<1>3. CASE ReapNothing
  BY <1>3 DEF ReapNothing
<1>4. CASE ReapChild
  <2>1. PICK p \in Zombies, i \in Children :
            /\ i \in SlotOf(p)
            /\ proc' = [proc EXCEPT ![p] = "free"]
            /\ pid' = [pid EXCEPT ![i] = NoPid]
            /\ cont' = Append(cont, i)
    BY <1>4 DEF ReapChild, Emptied, Listed, SlotOf
  <2>2. p \in Pids /\ proc[p] = "zombie" /\ i \in Children /\ pid[i] = p
    BY <2>1 DEF Zombies, SlotOf
  <2>3. forkedFor' = forkedFor /\ pc' = "report" /\ pc = "reap"
    BY <1>4 DEF ReapChild
  <2>4. \A q \in Pids, j \in Children : Exact(q, j)'
    BY <2>1, <2>2, <2>3
  <2>5. \A n \in 1..Len(cont') : Known(n)' => n = Len(cont) + 1 /\ cont'[n] = i
    BY <2>1, <2>2, <2>3
  <2>6. QED
    BY <2>1, <2>2, <2>3, <2>4, <2>5
<1>5. CASE ReapStranger
  <2>1. PICK p \in Zombies : SlotOf(p) = {} /\ proc' = [proc EXCEPT ![p] = "free"]
    BY <1>5 DEF ReapStranger
  <2>2. p \in Pids /\ proc[p] = "zombie" /\ \A j \in Children : pid[j] # p
    BY <2>1 DEF SlotOf, Zombies
  <2>3. /\ pid' = pid /\ forkedFor' = forkedFor /\ pc' = "reap" /\ pc = "reap"
        /\ cont' = Append(cont, Stranger)
    BY <1>5 DEF ReapStranger, Listed
  <2>4. \A q \in Pids, j \in Children : Exact(q, j)'
    BY <2>1, <2>2, <2>3
  <2>5. \A n \in 1..Len(cont') : ~Known(n)'
    BY <2>3, AppendFacts
  <2>6. QED
    BY <2>3, <2>4, <2>5
<1>6. CASE Report
  <2>1. /\ pc = "report" /\ pc' = "report" /\ cont # <<>> /\ cont' = Tail(cont)
        /\ cont \in Seq(Children \cup {Stranger})
    BY <1>6 DEF Report
  <2>2. /\ Len(cont') = Len(cont) - 1
        /\ \A n \in 1..Len(cont') : cont'[n] = cont[n + 1]
    BY <2>1
  <2>3. \A m, n \in 1..Len(cont') : Known(m)' /\ Known(n)' => m = n
    BY <2>1, <2>2
  <2>4. CASE Head(cont) # Stranger /\ Fork(Head(cont))
    <3>1. Head(cont) = cont[1] /\ Known(1) /\ 1 \in 1..Len(cont)
      BY <2>1, <2>4
    <3>2. Fork(Head(cont)) /\ Head(cont) \in Children /\ pid[Head(cont)] = NoPid
      BY <2>1, <2>4, <3>1
    <3>3. \A n \in 1..Len(cont') : ~Known(n)'
      BY <2>1, <2>2, <3>1
    <3>4. QED
      BY <2>1, <3>2, <3>3, ForkKeepsExact
  <2>5. CASE UNCHANGED <<slots, proc, forkedFor, stopping, fdOwner, forks>>
    <3>1. UNCHANGED <<slots, proc, forkedFor>>
      BY <2>5
    <3>2. QED
      BY <2>1, <2>2, <2>3, <3>1
  <2>6. QED
    BY <1>6, <2>4, <2>5 DEF Report
<1>7. CASE ReportsDone
  BY <1>7 DEF ReportsDone
<1>8. CASE ForkLater
  BY <1>8, ForkKeepsExact DEF ForkLater
<1>9. CASE OpenOther
  BY <1>9 DEF OpenOther
<1>10. CASE CloseOther
  BY <1>10 DEF CloseOther
<1>11. CASE SpawnStranger
  BY <1>11 DEF SpawnStranger, FreePids
<1>12. CASE WorkDone
  BY <1>12 DEF WorkDone
<1>13. CASE SignalToChild
  BY <1>13 DEF SignalToChild
<1>14. CASE EventExit
  BY <1>14 DEF EventExit
<1>15. CASE StopSignal
  BY <1>15 DEF StopSignal
<1>16. CASE ChildSignal
  BY <1>16 DEF ChildSignal
<1>17. ASSUME NEW p \in Pids, Dies(p) PROVE TableInv'
  BY <1>17 DEF Dies
<1>18. CASE Orphaned
  BY <1>18 DEF Orphaned
<1>19. CASE UNCHANGED vars
  BY <1>19 DEF vars
<1>20. QED
  BY <1>1, <1>2, <1>3, <1>4, <1>5, <1>6, <1>7, <1>8, <1>9, <1>10, <1>11,
     <1>12, <1>13, <1>14, <1>15, <1>16, <1>17, <1>18, <1>19
     DEF Next, Loop, Callbacks, Environment, Crash, ChildExits

LEMMA TableInvariant == Spec => []TableInv
<1>1. Init => TableInv
  BY DEF Init, TableInv, Exact
<1>2. QED
  BY <1>1, TypeInvariant, TableStep, PTL DEF Spec

(* No slot holds the id of a process that is not its child any more, and   *)
(* no child is missing from its slot.                                      *)
THEOREM TableCorrect == Spec => []TableIsExact
<1>1. TableInv => TableIsExact
  BY DEF TableInv, TableIsExact, Exact
<1>2. QED
  BY <1>1, TableInvariant, PTL

(* A report takes one entry off the list and counts it.                    *)
LEMMA OneReport ==
  ASSUME NEW d \in Nat, NEW r \in Nat, NEW S, NEW s \in Seq(S), s # <<>>,
         d + Len(s) = r
  PROVE  (d + 1) + Len(Tail(s)) = r
<1>1. Len(s) \in Nat /\ Len(Tail(s)) = Len(s) - 1
  OBVIOUS
<1>2. QED
  BY <1>1

(* No reaped process goes unreported and none is reported twice.           *)
THEOREM ReportsCorrect == Spec => []EveryReapIsReported
<1>1. Init => EveryReapIsReported
  BY DEF Init, EveryReapIsReported
<1>2. TypeInv /\ EveryReapIsReported /\ [Next]_vars => EveryReapIsReported'
  <2> SUFFICES ASSUME TypeOK, EveryReapIsReported, [Next]_vars
               PROVE  EveryReapIsReported'
    BY DEF TypeInv
  <2> USE DEF TypeOK, EveryReapIsReported, history
  <2>1. ASSUME NEW i \in Children \cup {Stranger}, cont' = Append(cont, i),
               reaped' = reaped + 1, dead_count' = dead_count
        PROVE  EveryReapIsReported'
    <3>1. Len(cont') = Len(cont) + 1 /\ Len(cont) \in Nat
      BY <2>1, AppendFacts
    <3>2. QED
      BY <2>1, <3>1
  <2>5. CASE ReapChild
    <3>1. PICK i \in Children : cont' = Append(cont, i)
      BY <2>5 DEF ReapChild, Listed, SlotOf
    <3>2. QED
      BY <2>1, <2>5, <3>1 DEF ReapChild
  <2>2. CASE ReapStranger
    BY <2>1, <2>2 DEF ReapStranger, Listed
  <2>3. CASE Report
    <3>1. dead_count' = dead_count + 1 /\ cont' = Tail(cont) /\ cont # <<>>
          /\ reaped' = reaped
      BY <2>3 DEF Report
    <3>2. QED
      <4>1. (dead_count + 1) + Len(Tail(cont)) = reaped
        BY <3>1, OneReport
      <4>2. QED
        BY <3>1, <4>1
  <2>4. CASE UNCHANGED <<dead_count, cont, reaped>>
    BY <2>4
  <2>6. QED
    BY <2>5, <2>2, <2>3, <2>4
       DEF Next, vars, Loop, Callbacks, Environment, InitChild, LoopTop,
           ReapNothing, ReportsDone, ForkLater, OpenOther, CloseOther,
           SpawnStranger, WorkDone, SignalToChild, EventExit, StopSignal,
           Crash, ChildExits, Dies, ChildSignal, Orphaned
<1>3. QED
  BY <1>1, <1>2, TypeInvariant, PTL DEF Spec

-----------------------------------------------------------------------------
(* eventExit() reaches every child: by TableIsExact the slots hold all of  *)
(* them, and nothing forks afterwards.                                     *)
THEOREM ExitReachesAll == Spec => []ExitTellsAll
<1>1. Init => ExitTellsAll
  BY DEF Init, ExitTellsAll
<1>2. TypeInv /\ TableInv /\ ExitTellsAll /\ [Next]_vars => ExitTellsAll'
  <2> SUFFICES ASSUME TypeInv, TableInv, ExitTellsAll, [Next]_vars,
                      pc' = "done", NEW p \in Pids,
                      proc'[p] = "run", forkedFor'[p] # Stranger
               PROVE  p \in stopping'
    BY DEF ExitTellsAll
  <2> USE DEF TypeInv, TypeOK, slots, flags, kernel, history
  <2>1. CASE EventExit
    <3>1. PICK i \in Children : forkedFor[p] = i
      BY <2>1 DEF EventExit
    <3>2. pid[i] = p
      BY <2>1, <3>1 DEF EventExit, TableInv, Exact, Ended
    <3>3. p \in AllPids
      BY <3>2 DEF AllPids
    <3>4. QED
      BY <2>1, <3>3 DEF EventExit, Kill
  <2>2. CASE pc = "done"
    <3>1. UNCHANGED <<forkedFor, stopping>> /\ proc[p] = "run"
      BY <2>2 DEF Next, vars, Loop, Callbacks, Environment, InitChild,
           LoopTop, ReapNothing, ReapChild, ReapStranger, Report,
           ReportsDone, ForkLater, OpenOther, CloseOther,
           SpawnStranger, WorkDone, SignalToChild, EventExit, StopSignal,
           Crash, ChildExits, Dies, ChildSignal, Orphaned, Zombies, Ended
    <3>2. QED
      BY <2>2, <3>1 DEF ExitTellsAll
  <2>3. QED
    BY <2>1, <2>2
       DEF Next, vars, Loop, Callbacks, Environment, InitChild, LoopTop,
           ReapNothing, ReapChild, ReapStranger, Report, ReportsDone,
           ForkLater, OpenOther, CloseOther, SpawnStranger, WorkDone,
           SignalToChild, StopSignal, Crash, ChildExits, Dies, ChildSignal,
           Orphaned
<1>3. QED
  BY <1>1, <1>2, TypeInvariant, TableInvariant, PTL DEF Spec
=============================================================================
