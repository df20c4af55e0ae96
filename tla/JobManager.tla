------------------------------ MODULE JobManager ------------------------------
(***************************************************************************)
(* Jobs (transactions) and their manager (src/pw/pw_jobmanager.{h,cpp}).   *)
(* A job object enters itself in m_jobs under a fresh key when it is       *)
(* constructed and leaves it when it is destroyed.  Packets, errors and    *)
(* timeouts reach it as callbacks, which may create jobs, release them and *)
(* reserve packets; the callback's del_this says whether the manager       *)
(* deletes the job on return.  The main loop calls checkTimeout(), which   *)
(* destroys the released jobs, delivers what was reserved and then walks   *)
(* over m_jobs looking for those that are late.                            *)
(*                                                                         *)
(* A job ends by del_this or setRelease(): its destructor is protected.    *)
(* How long a job takes is abstracted to one bit: it is overdue or not.    *)
(***************************************************************************)
EXTENDS Integers, Sequences, FiniteSets

CONSTANTS
    W,           \* number of values of job_key_type (2^32 in the code)
    MaxJobs,     \* bound: jobs ever created
    MaxReserves  \* bound: reservations that wait at a time

Keys == 0..W - 1
Ids == 1..MaxJobs
None == 0        \* no job
NoKey == -1      \* the job is not there

ASSUME JobManagerAssumption ==
    /\ W \in Nat \ {0, 1}
    /\ MaxJobs \in Nat
    /\ MaxReserves \in Nat

VARIABLES
    jobs,       \* m_jobs
    key,        \* m_key of each job object
    lastKey,    \* m_key of the manager
    kills,      \* m_kills
    reserve,    \* what of m_reserve the loop has not looked at
    pc,         \* where checkTimeout() is; "call": in a callback of a job
    caller,     \* where that callback returns to
    cur,        \* pjob
    ib, rest,   \* walk over m_jobs: next job, and those after it
    overdue,    \* jobs whose time is up
    late,       \* those of them for the `now' of this pass
    created,    \* history: how many jobs there were
    released,   \* history: jobs whose setRelease() was called
    doomed,     \* history: jobs that were released when the pass began
    moved,      \* history: jobs that a rehash has put to the iterator's other
                \* side in this pass
    timedout    \* history: eventTimeout() calls of this pass, per job

table == <<jobs, key, lastKey, kills, created, released>>
walk == <<ib, rest, moved, timedout>>
pass == <<late, doomed>>
vars == <<table, reserve, pc, caller, cur, walk, pass, overdue>>

Init ==
    /\ jobs = [k \in Keys |-> None]
    /\ key = [i \in Ids |-> NoKey]
    /\ lastKey \in Keys                  \* no constructor sets it
    /\ kills = {} /\ released = {} /\ created = 0
    /\ reserve = <<>>
    /\ pc = "idle" /\ caller = "idle" /\ cur = None
    /\ ib = None /\ rest = {} /\ moved = {}
    /\ timedout = [i \in Ids |-> 0]
    /\ late = {} /\ doomed = {} /\ overdue = {}

Live == {i \in Ids : key[i] # NoKey}

-----------------------------------------------------------------------------
(* What the application does, in a callback of a job or of a channel       *)

App == pc \in {"idle", "call"}

Free(k) == k # 0 /\ jobs[k] = None

\* how many steps getKey() needs to come to k
Steps(k) == (k - lastKey - 1) % W

\* mutants: m_jobs is not looked into; the lowest free key is taken
GetKey_Unchecked(k) ==
    k # 0 /\ \A j \in Keys \ {0} : Steps(k) <= Steps(j)
GetKey_Lowest(k) == Free(k) /\ \A j \in Keys : Free(j) => k <= j

\* getKey() gives the first free key after the last one
GetKey(k) == Free(k) /\ \A j \in Keys : Free(j) => Steps(k) <= Steps(j)

\* Job::Job().  A job that is inserted during the walk may come before or
\* after the iterator; when m_jobs is rehashed for it every job may, but the
\* iterator stays good.
Create ==
    /\ App
    /\ created < MaxJobs
    /\ \E k \in Keys :
        /\ GetKey(k)
        /\ jobs' = [jobs EXCEPT ![k] = created + 1]
        /\ key' = [key EXCEPT ![created + 1] = k]
        /\ lastKey' = k
    /\ created' = created + 1
    /\ rest' \in IF ib = None THEN {rest}
                 ELSE SUBSET ((Live \cup {created + 1}) \ {ib})
    /\ moved' = moved \cup (((rest \ rest') \cup (rest' \ rest)) \ {created + 1})
    /\ UNCHANGED <<kills, released, reserve, pc, caller, cur, ib, timedout,
                   pass, overdue>>

\* Job::setRelease()
SetRelease ==
    /\ App
    /\ \E i \in Live :
        /\ kills' = kills \cup {key[i]}
        /\ released' = released \cup {i}
    /\ UNCHANGED <<jobs, key, lastKey, created, reserve, pc, caller, cur, walk,
                   pass, overdue>>

\* the entry that is pushed for job i
Reserved(i) == Append(reserve, [key |-> key[i], job |-> i])

\* reservePacket(), reserveError().  The statement that looks as if it took
\* m_reserve_lock declares a local variable: only this thread may call them.
Reserve ==
    /\ App
    /\ Len(reserve) < MaxReserves
    /\ \E i \in Live : reserve' = Reserved(i)
    /\ UNCHANGED <<table, pc, caller, cur, walk, pass, overdue>>

\* A callback of job i begins.  from: where it will return to.
Call(i, from) == pc' = "call" /\ caller' = from /\ cur' = i

\* dispatchPacket(), dispatchError() with the key of a job there is
Dispatch ==
    /\ pc = "idle"
    /\ \E k \in Keys : jobs[k] # None /\ Call(jobs[k], "idle")
    /\ UNCHANGED <<table, reserve, walk, pass, overdue>>

\* ~Job() of the jobs in dead
Destroy(dead) ==
    /\ jobs' = [k \in Keys |-> IF jobs[k] \in dead THEN None ELSE jobs[k]]
    /\ key' = [i \in Ids |-> IF i \in dead THEN NoKey ELSE key[i]]

\* mutant: the iterator is advanced after the callback
NextOf_Late(i) == i

\* the iterator that the walk saves before it calls job i
NextOf(i) == ib

Return ==
    /\ pc = "call"
    /\ pc' = caller
    /\ caller' = "idle" /\ cur' = None
    /\ \E del_this \in BOOLEAN :
        IF del_this THEN Destroy({cur}) /\ rest' = rest \ {cur}
        ELSE UNCHANGED <<jobs, key, rest>>
    /\ ib' = IF caller = "walk" THEN NextOf(cur) ELSE ib
    /\ UNCHANGED <<lastKey, kills, created, released, reserve, moved, timedout,
                   pass, overdue>>

-----------------------------------------------------------------------------
(* checkTimeout()                                                          *)

Killed == {jobs[k] : k \in kills} \ {None}

\* mutant: m_kills.clear() comes first
DispatchKill_ClearedFirst == UNCHANGED <<jobs, key>> /\ kills' = {}

\* the jobs whose keys are in m_kills are destroyed
DispatchKill == Destroy(Killed) /\ kills' = {}

\* checkTimeout(): `now' is read, then dispatchKill()
PassBegin ==
    /\ pc = "idle"
    /\ late' = overdue
    /\ doomed' = released
    /\ DispatchKill
    /\ moved' = {} /\ timedout' = [i \in Ids |-> 0]
    /\ pc' = "reserve"
    /\ UNCHANGED <<lastKey, created, released, reserve, caller, cur, ib, rest,
                   overdue>>

\* dispatchReserve(): the loop looks at one entry; it also sees those that
\* its callbacks append.  An entry it has looked at stays in m_reserve until
\* the clear(), but nothing looks at it again.
DeliverReserve ==
    /\ pc = "reserve"
    /\ reserve # <<>>
    /\ reserve' = Tail(reserve)
    /\ LET i == jobs[Head(reserve).key] IN
       IF i = None THEN UNCHANGED <<pc, caller, cur>> ELSE Call(i, "reserve")
    /\ UNCHANGED <<table, walk, pass, overdue>>

\* mutant: the end of the list is looked up too early, one is not seen
AllSeen_ButOne == Len(reserve) <= 1

AllSeen == reserve = <<>>

\* ++ib, with jobs as those that are left: any of them, as the order is
\* the table's
Advance(left) ==
    \/ left = {} /\ ib' = None /\ rest' = {}
    \/ \E i \in left : ib' = i /\ rest' = left \ {i}

\* the end of the loop, m_reserve.clear(), and m_jobs.begin()
ClearReserve ==
    /\ pc = "reserve"
    /\ AllSeen
    /\ reserve' = <<>>
    /\ Advance(Live)
    /\ pc' = "walk"
    /\ UNCHANGED <<table, caller, cur, moved, timedout, pass, overdue>>

\* (now - m_start) > timeout
IsLate(i) == i \in late

\* eventTimeout() for a late job, with the iterator already on the next
Timeout ==
    /\ pc = "walk"
    /\ IsLate(ib)
    /\ timedout' = [timedout EXCEPT ![ib] = @ + 1]
    /\ Call(ib, "walk")
    /\ Advance(rest)
    /\ UNCHANGED <<table, reserve, moved, pass, overdue>>

NotLate ==
    /\ pc = "walk"
    /\ ib # None /\ ~IsLate(ib)
    /\ Advance(rest)
    /\ UNCHANGED <<table, reserve, pc, caller, cur, moved, timedout, pass,
                   overdue>>

PassEnd ==
    /\ pc = "walk"
    /\ ib = None
    /\ pc' = "idle"
    /\ late' = {} /\ doomed' = {}
    /\ UNCHANGED <<table, reserve, caller, cur, walk, overdue>>

\* time passes for a job
Age ==
    /\ \E i \in Live \ overdue : overdue' = overdue \cup {i}
    /\ UNCHANGED <<table, reserve, pc, caller, cur, walk, pass>>

CheckTimeout == PassBegin \/ DeliverReserve \/ ClearReserve \/ Timeout
                \/ NotLate \/ PassEnd

Next == CheckTimeout \/ Return \/ Create \/ SetRelease \/ Reserve \/ Dispatch
        \/ Age

Spec == Init /\ [][Next]_vars

\* The main loop comes round: poll() hands out finitely many events in a
\* turn before checkTimeout() is called, and callbacks return.
Fairness == SF_vars(PassBegin) /\ WF_vars(CheckTimeout) /\ WF_vars(Return)

FairSpec == Spec /\ Fairness

-----------------------------------------------------------------------------
(* Properties                                                              *)

TypeOK ==
    /\ jobs \in [Keys -> Ids \cup {None}]
    /\ key \in [Ids -> Keys \cup {NoKey}]
    /\ lastKey \in Keys /\ kills \subseteq Keys
    /\ created \in 0..MaxJobs /\ moved \subseteq Ids
    /\ reserve \in Seq([key : Keys, job : Ids])
    /\ pc \in {"idle", "call", "reserve", "walk"}
    /\ caller \in {"idle", "reserve", "walk"}
    /\ cur \in Ids \cup {None} /\ ib \in Ids \cup {None}
    /\ rest \subseteq Ids /\ overdue \subseteq Ids /\ late \subseteq Ids
    /\ released \subseteq Ids /\ doomed \subseteq Ids
    /\ timedout \in [Ids -> Nat]

\* m_jobs is exact, however often the counter of keys wraps: each job object
\* is found under its own key, and 0, which stands for "no job", is nobody's.
TableIsExact ==
    /\ \A k \in Keys, i \in Ids : jobs[k] = i <=> key[i] = k
    /\ jobs[0] = None

\* checkTimeout() never uses an iterator to a job that was destroyed.
NoStaleIterator == ib # None => ib \in Live

\* A key that waits in m_kills or m_reserve does not come to mean another
\* job before it is used, until the counter of keys has been all round.
KeysStayMeant ==
    created < W =>
    /\ \A k \in kills : jobs[k] # None => jobs[k] \in released
    /\ \A n \in 1..Len(reserve) :
        jobs[reserve[n].key] \in {None, reserve[n].job}

\* A job whose setRelease() was called before checkTimeout(), by whomever and
\* in whatever callback, is called by this checkTimeout() for no packet, error
\* or timeout: its key is in m_kills and leads dispatchKill() to it.
DoomedGetNothing ==
    pc = "call" /\ caller \in {"reserve", "walk"} => cur \notin doomed

\* checkTimeout() calls eventTimeout() once for each job that was late when
\* it began, if nothing has destroyed the job, and for no job twice.  That
\* holds for all but those that m_jobs, rehashed for a job created in
\* eventTimeout(), has put from behind the iterator before it or the other
\* way (LateAreServed).
LateAreServedOnce ==
    /\ \A i \in Ids \ moved : timedout[i] <= 1
    /\ pc = "walk" /\ ib = None =>
        \A i \in (late \cap Live) \ moved : timedout[i] = 1

\* checkTimeout() "deals with the jobs whose time is out" (pw_jobmanager.h):
\* at its end none of them is left that was not called.  It does not hold:
\* the rehash for a job created in eventTimeout() puts others behind.
LateAreServed ==
    pc = "walk" /\ ib = None => \A i \in late \cap Live : timedout[i] > 0

\* checkTimeout() is in dispatchReserve() or in a callback of it
Delivering == pc = "reserve" \/ (pc = "call" /\ caller = "reserve")

\* The three queues of checkTimeout() are served.  clear() throws no
\* reservation away that the loop has not looked at, also none that one of
\* its callbacks made, and each is looked at in the end.  The loop ends,
\* unless its callbacks reserve for ever; and if it ends, setRelease() takes
\* effect and a job whose time is up is told or goes.
AllAreServed ==
    /\ [][reserve' # reserve =>
            \/ \E i \in Live : reserve' = Append(reserve, [key |-> key[i], job |-> i])
            \/ Len(reserve) = Len(reserve') + 1]_vars
    /\ \A i \in Ids : (\E n \in 1..Len(reserve) : reserve[n].job = i)
                      ~> (i \notin Live \/ (pc = "call" /\ caller = "reserve" /\ cur = i))
    /\ <>[]Delivering => []<><<Reserve>>_vars
    /\ \A i \in Ids : \/ i \in released ~> i \notin Live
                      \/ <>[]Delivering
    /\ \A i \in Ids : \/ i \in overdue ~> (i \notin Live \/ timedout[i] > 0)
                      \/ <>[]Delivering
=============================================================================
