------------------------------ MODULE Supervisor ------------------------------
(***************************************************************************)
(* The parent process of a MULTI daemon (src/pw/pw_instance_if.cpp):       *)
(* start() forks one child per slot of m_child.cont, the main loop reaps   *)
(* the dead ones when SIGCHLD has been seen, and eventExit() passes the    *)
(* end of the daemon on to the children.  The kernel is modelled as far as *)
(* the code depends on it: processes, zombies and waitpid(), signals that  *)
(* merge while one is pending, and a descriptor table that hands out the   *)
(* lowest free number.                                                     *)
(*                                                                         *)
(* A slot's pair of descriptors is the set of the two numbers in fd[2]; {} *)
(* is {-1, -1}.                                                            *)
(***************************************************************************)
EXTENDS Integers, Sequences, FiniteSets

CONSTANTS
    NChildren,  \* m_child.count
    Pids,       \* process ids the kernel can give
    Fds,        \* descriptor numbers of the parent
    ForkAtExit, \* whether eventExitChild() may call fork() again
    ForkLate,   \* whether a timer or another callback of the loop may
    ForkMayFail,\* whether socketpair() and fork() may fail with room left
    MaxForks    \* bound: forks that succeed

Children == 0..NChildren - 1
NoPid == -1
Stranger == -1  \* a child process that m_child.cont does not know
FreeFd == -1    \* nobody has the descriptor
OtherFd == -2   \* it belongs to something else than a slot's pair

ASSUME SupervisorAssumption ==
    /\ NChildren \in Nat \ {0}
    /\ Pids \subseteq Nat \ {0}
    /\ Fds \subseteq Nat
    /\ ForkAtExit \in BOOLEAN /\ ForkLate \in BOOLEAN
    /\ ForkMayFail \in BOOLEAN
    /\ MaxForks \in Nat

VARIABLES
    pid, fd,      \* child_type::pid and ::fd of each slot
    run, check_child,  \* m_flag
    dead_count,   \* m_child.dead_count
    pc,           \* where start() is
    next,         \* eventInitChild(): the slot to fork next
    cont,         \* _checkChild(): what it reaped, in order
    proc, forkedFor,  \* kernel: state of each process, the slot it is for
    sigchld,      \* kernel: SIGCHLD pending for the parent
    stopping,     \* children whose own m_flag.run is false
    fdOwner,      \* kernel: each descriptor is free, of a slot's pair or other
    forks, reaped \* history: forks that succeeded, processes reaped

vars == <<pid, fd, run, check_child, dead_count, pc, next, cont, proc,
          forkedFor, sigchld, stopping, fdOwner, forks, reaped>>
slots == <<pid, fd>>
flags == <<run, check_child>>
kernel == <<proc, forkedFor, sigchld, stopping, fdOwner>>
history == <<forks, reaped>>

Init ==
    /\ pid = [i \in Children |-> NoPid]          \* _initChildInfo()
    /\ fd = [i \in Children |-> {}]
    /\ run = TRUE
    /\ check_child \in BOOLEAN                   \* the constructor leaves it
    /\ dead_count = 0
    /\ pc = "init"
    /\ next = 0
    /\ cont = <<>>
    /\ proc = [p \in Pids |-> "free"]
    /\ forkedFor = [p \in Pids |-> Stranger]
    /\ sigchld = FALSE
    /\ stopping = {}
    /\ fdOwner = [f \in Fds |-> FreeFd]
    /\ forks = 0
    /\ reaped = 0

-----------------------------------------------------------------------------
(* fork()                                                                  *)

\* _closePair(): close both numbers, whoever has them now; fd[] keeps them
Closed(owner, fds) == [f \in Fds |-> IF f \in fds THEN FreeFd ELSE owner[f]]

FreeFds(owner) == {f \in Fds : owner[f] = FreeFd}

\* socketpair() takes the two lowest free numbers
IsLowestPair(pair, owner) ==
    /\ pair \subseteq FreeFds(owner)
    /\ \E a, b \in pair : a # b /\ pair = {a, b}
    /\ \A f \in FreeFds(owner) \ pair : \A g \in pair : g < f

Owned(owner, pair, i) == [f \in Fds |-> IF f \in pair THEN i ELSE owner[f]]

FreePids == {p \in Pids : proc[p] = "free"}

\* socketpair() or ::fork() fails: the slot is left as it is by then
ForkFails(i) ==
    LET owner == Closed(fdOwner, fd[i]) IN
    /\ \/ /\ ForkMayFail \/ Cardinality(FreeFds(owner)) < 2
          /\ fdOwner' = owner
          /\ UNCHANGED fd
       \/ /\ ForkMayFail \/ forks = MaxForks \/ FreePids = {}
          /\ \E pair \in SUBSET Fds :
              /\ IsLowestPair(pair, owner)
              /\ fd' = [fd EXCEPT ![i] = pair]
              /\ fdOwner' = Owned(owner, pair, i)
    /\ UNCHANGED <<pid, proc, forkedFor, stopping, forks>>

ForkSucceeds(i) ==
    LET owner == Closed(fdOwner, fd[i]) IN
    /\ forks < MaxForks
    /\ \E pair \in SUBSET Fds, p \in FreePids :
        /\ IsLowestPair(pair, owner)
        /\ fd' = [fd EXCEPT ![i] = pair]
        /\ fdOwner' = Owned(owner, pair, i)
        /\ pid' = [pid EXCEPT ![i] = p]
        /\ proc' = [proc EXCEPT ![p] = "run"]
        /\ forkedFor' = [forkedFor EXCEPT ![p] = i]
        /\ stopping' = IF run THEN stopping \ {p} ELSE stopping \cup {p}
    /\ forks' = forks + 1

Fork(i) == ForkSucceeds(i) \/ ForkFails(i)

\* eventInitChild(): one slot after the other; a failure ends start() there
InitChild ==
    /\ pc = "init"
    /\ \/ /\ ForkSucceeds(next)
          /\ next' = next + 1
          /\ pc' = IF next' = NChildren THEN "loop" ELSE "init"
       \/ /\ ForkFails(next)
          /\ pc' = "failed"
          /\ UNCHANGED next
    /\ UNCHANGED <<flags, dead_count, cont, sigchld, reaped>>

-----------------------------------------------------------------------------
(* The main loop                                                           *)

LoopTop ==
    /\ pc = "loop"
    /\ IF ~run
       THEN pc' = "exit" /\ UNCHANGED check_child
       ELSE /\ pc' = IF check_child THEN "reap" ELSE "work"
            /\ check_child' = FALSE
    /\ UNCHANGED <<slots, run, dead_count, next, cont, kernel, history>>

Zombies == {p \in Pids : proc[p] = "zombie"}

SlotOf(p) == {i \in Children : pid[i] = p}

\* mutant: the slot keeps its pid
Emptied_Not(i) == pid

\* ci.pid = -1
Emptied(i) == [pid EXCEPT ![i] = NoPid]

\* mutant: only a known child is put on the list
Listed_Known(i) == IF i = Stranger THEN cont ELSE Append(cont, i)

\* cont.push_back()
Listed(i) == Append(cont, i)

\* waitpid() finds nothing: on to the reports
ReapNothing ==
    /\ pc = "reap"
    /\ Zombies = {}
    /\ pc' = "report"
    /\ UNCHANGED <<slots, flags, dead_count, next, cont, kernel, history>>

\* a child of m_child.cont: its slot is emptied, the pair closed, and the
\* loop is left (the `break' after _closePair)
ReapChild ==
    /\ pc = "reap"
    /\ \E p \in Zombies : \E i \in SlotOf(p) :
        /\ proc' = [proc EXCEPT ![p] = "free"]
        /\ pid' = Emptied(i)
        /\ fdOwner' = Closed(fdOwner, fd[i])
        /\ cont' = Listed(i)
    /\ reaped' = reaped + 1
    /\ pc' = "report"
    /\ UNCHANGED <<fd, flags, dead_count, next, forkedFor, sigchld, stopping,
                   forks>>

\* a process that no slot knows: reported with index -1, and the loop goes on
ReapStranger ==
    /\ pc = "reap"
    /\ \E p \in Zombies :
        /\ SlotOf(p) = {}
        /\ proc' = [proc EXCEPT ![p] = "free"]
    /\ cont' = Listed(Stranger)
    /\ reaped' = reaped + 1
    /\ UNCHANGED <<slots, flags, dead_count, pc, next, forkedFor, sigchld,
                   stopping, fdOwner, forks>>

\* ++dead_count and eventExitChild(), which may fork the slot again
Report ==
    /\ pc = "report"
    /\ cont # <<>>
    /\ cont' = Tail(cont)
    /\ dead_count' = dead_count + 1
    /\ \/ ForkAtExit /\ Head(cont) # Stranger /\ Fork(Head(cont))
       \/ UNCHANGED <<slots, proc, forkedFor, stopping, fdOwner, forks>>
    /\ UNCHANGED <<flags, pc, next, sigchld, reaped>>

ReportsDone ==
    /\ pc = "report"
    /\ cont = <<>>
    /\ pc' = "work"
    /\ UNCHANGED <<slots, flags, dead_count, next, cont, kernel, history>>

-----------------------------------------------------------------------------
(* The rest of a turn: poller, job manager, timers, eventEndTurn()         *)

\* a timer of the application forks a child for an empty slot
ForkLater ==
    /\ pc = "work"
    /\ ForkLate
    /\ \E i \in Children : pid[i] = NoPid /\ Fork(i)
    /\ UNCHANGED <<flags, dead_count, pc, next, cont, sigchld, reaped>>

\* a callback opens a descriptor (accepts a client, say) or closes it
OpenOther ==
    /\ pc = "work"
    /\ \E f \in FreeFds(fdOwner) :
        /\ \A g \in FreeFds(fdOwner) : f <= g
        /\ fdOwner' = [fdOwner EXCEPT ![f] = OtherFd]
    /\ UNCHANGED <<slots, flags, dead_count, pc, next, cont, proc, forkedFor,
                   sigchld, stopping, history>>

CloseOther ==
    /\ pc = "work"
    /\ \E f \in Fds :
        /\ fdOwner[f] = OtherFd
        /\ fdOwner' = [fdOwner EXCEPT ![f] = FreeFd]
    /\ UNCHANGED <<slots, flags, dead_count, pc, next, cont, proc, forkedFor,
                   sigchld, stopping, history>>

\* a callback starts a process of its own (system(), popen())
SpawnStranger ==
    /\ pc = "work"
    /\ forks < MaxForks
    /\ forks' = forks + 1
    /\ \E p \in FreePids :
        /\ proc' = [proc EXCEPT ![p] = "run"]
        /\ forkedFor' = [forkedFor EXCEPT ![p] = Stranger]
        /\ stopping' = stopping \ {p}
    /\ UNCHANGED <<slots, flags, dead_count, pc, next, cont, sigchld, fdOwner,
                   reaped>>

WorkDone ==
    /\ pc = "work"
    /\ pc' = "loop"
    /\ UNCHANGED <<slots, flags, dead_count, next, cont, kernel, history>>

\* kill() for each pid of the set; -1 stands for every process there is
Kill(pids) ==
    stopping' = IF NoPid \in pids
                THEN {p \in Pids : proc[p] = "run"} \cup stopping
                ELSE pids \cup stopping

\* signalToChild(), called by a callback with SIGINT, SIGUSR1 or SIGUSR2
SignalToChild ==
    /\ pc = "work"
    /\ \E i \in Children : Kill({pid[i]})
    /\ UNCHANGED <<slots, flags, dead_count, pc, next, cont, proc, forkedFor,
                   sigchld, fdOwner, forks, reaped>>

\* mutant: the last slot is forgotten
AllPids_ButLast == {pid[i] : i \in Children \ {NChildren - 1}}

\* the loop of signalToChildAll()
AllPids == {pid[i] : i \in Children}

\* eventExit(): signalToChildAll_Interrupt(), then start() returns
EventExit ==
    /\ pc = "exit"
    /\ Kill(AllPids)
    /\ pc' = "done"
    /\ UNCHANGED <<slots, flags, dead_count, next, cont, proc, forkedFor,
                   sigchld, fdOwner, forks, reaped>>

-----------------------------------------------------------------------------
(* Signals and the processes                                               *)

Ended == pc \in {"done", "failed"}

\* _sigINT(), _sigUSR1(), _sigUSR2()
StopSignal ==
    /\ run
    /\ ~Ended
    /\ run' = FALSE
    /\ UNCHANGED <<slots, check_child, dead_count, pc, next, cont, kernel,
                   history>>

\* _sigCHLD(); however many children died, it is called once
ChildSignal ==
    /\ sigchld
    /\ ~Ended
    /\ sigchld' = FALSE
    /\ check_child' = TRUE
    /\ UNCHANGED <<slots, run, dead_count, pc, next, cont, proc, forkedFor,
                   stopping, fdOwner, history>>

\* a process ends: without a parent, init reaps it
Dies(p) ==
    /\ proc[p] = "run"
    /\ proc' = [proc EXCEPT ![p] = IF Ended THEN "free" ELSE "zombie"]
    /\ sigchld' = TRUE
    /\ UNCHANGED <<slots, flags, dead_count, pc, next, cont, forkedFor,
                   stopping, fdOwner, history>>

Crash == \E p \in Pids : p \notin stopping /\ Dies(p)

\* a child that was told to stop leaves its loop and exits
ChildExits(p) == p \in stopping /\ Dies(p)

\* what is left of the parent's children when it is gone
Orphaned ==
    /\ Ended
    /\ Zombies # {}
    /\ proc' = [p \in Pids |-> IF p \in Zombies THEN "free" ELSE proc[p]]
    /\ UNCHANGED <<slots, flags, dead_count, pc, next, cont, forkedFor,
                   sigchld, stopping, fdOwner, history>>

Loop == InitChild \/ LoopTop \/ ReapNothing \/ ReapChild \/ ReapStranger
        \/ Report \/ ReportsDone \/ WorkDone \/ EventExit

Callbacks == ForkLater \/ OpenOther \/ CloseOther \/ SpawnStranger
             \/ SignalToChild

Environment == StopSignal \/ Crash \/ (\E p \in Pids : ChildExits(p))

Next == Loop \/ Callbacks \/ Environment \/ ChildSignal \/ Orphaned

Spec == Init /\ [][Next]_vars

\* The loop goes round, since poll() has a timeout, signals are delivered,
\* the kernel cleans up, and a child that is told to stop stops.  Nothing
\* makes a process crash or the operator stop the daemon.
FairSpec == /\ Spec
            /\ WF_vars(Loop) /\ WF_vars(ChildSignal) /\ WF_vars(Orphaned)
            /\ \A p \in Pids : WF_vars(ChildExits(p))

-----------------------------------------------------------------------------
(* Properties                                                              *)

TypeOK ==
    /\ pid \in [Children -> Pids \cup {NoPid}]
    /\ fd \in [Children -> SUBSET Fds]
    /\ run \in BOOLEAN /\ check_child \in BOOLEAN /\ sigchld \in BOOLEAN
    /\ dead_count \in Nat
    /\ pc \in {"init", "loop", "reap", "report", "work", "exit", "done",
               "failed"}
    /\ next \in 0..NChildren
    /\ cont \in Seq(Children \cup {Stranger})
    /\ proc \in [Pids -> {"free", "run", "zombie"}]
    /\ forkedFor \in [Pids -> Children \cup {Stranger}]
    /\ stopping \subseteq Pids
    /\ fdOwner \in [Fds -> Children \cup {FreeFd, OtherFd}]
    /\ forks \in 0..MaxForks
    /\ reaped \in Nat

\* m_child.cont is exact while the parent lives: a slot's pid is the process
\* that was last forked for it and that has not been reaped, never one that
\* the kernel may have given away, and each such child is in its slot.
TableIsExact ==
    ~Ended => \A p \in Pids, i \in Children :
        pid[i] = p <=> (proc[p] # "free" /\ forkedFor[p] = i)

\* Every reaped process is reported by eventExitChild(), once.
EveryReapIsReported == dead_count + Len(cont) = reaped

\* "Let us not die alone": at the end of eventExit() no child of the parent's
\* is running without having been told to stop.
ExitTellsAll ==
    pc = "done" => \A p \in Pids :
        proc[p] = "run" /\ forkedFor[p] # Stranger => p \in stopping

\* A daemon that is told to stop once all its children were forked goes, and
\* all of them go.
EveryoneLeaves ==
    (~run /\ pc \notin {"init", "failed"}) ~>
        (Ended /\ \A p \in Pids : forkedFor[p] # Stranger => proc[p] = "free")

\* Every child that died is reaped.
DeadAreReaped ==
    \A p \in Pids :
        (proc[p] = "zombie" /\ forkedFor[p] # Stranger) ~> (proc[p] # "zombie")
=============================================================================
