-------------------------------- MODULE Timer --------------------------------
(***************************************************************************)
(* pw::Timer (src/pw/pw_timer.{h,cpp}): the singleton that the main loop   *)
(* polls with check().  It walks m_clients, a std::map from Timer::Event*  *)
(* to a std::map from id to event_type, and calls eventTimer(id, param) on *)
(* every entry that is due.  The callback runs in the middle of the walk   *)
(* and may add, remove or clear entries of its own or of any other client; *)
(* the flag m_inv_itrs tells the walk that its iterators may be stale.     *)
(*                                                                         *)
(* A pointer is its rank in the order of the map.  An iterator is the key  *)
(* it points to; NoClient and NoId are end().  `dangling` is a history     *)
(* variable: the iterators whose node has been erased since they were set, *)
(* which C++ forbids to increment or dereference.  A param is data that    *)
(* nothing here tells apart and is left out.                               *)
(***************************************************************************)
EXTENDS Integers

CONSTANTS
    NClients,    \* clients are 1..NClients, in pointer order
    NIds,        \* ids of a client are 1..NIds
    Cycles,      \* the cycles that add() is called with, in ms
    ClockSteps,  \* by how much gettimeofday() moves between two reads, in ms
    MaxClock     \* bound: the clock stays within 0..MaxClock

ASSUME TimerAssumption ==
    /\ NClients \in Nat
    /\ NIds \in Nat
    /\ Cycles \subseteq Nat
    /\ ClockSteps \subseteq Int
    /\ MaxClock \in Nat

Clients == 1..NClients
Ids == 1..NIds
NoClient == NClients + 1
NoId == NIds + 1

MinGap == 100   \* the 100LL of check()
Slack == 1000   \* the 1000LL of check()

VARIABLES
    clock,         \* what s_getNow() returns
    reg,           \* the entries of m_clients: pairs <<client, id>>
    start, cycle,  \* event_type::start and ::cycle of each entry
    m_last_check,
    m_inv_itrs,
    pc,            \* where check() is: see the actions
    now,           \* its local `now'
    ib, last_client, ib_event,  \* its iterators and its restart point
    dangling,      \* history: iterators whose node was erased
    fired          \* history: the entries this pass has called

vars == <<clock, reg, start, cycle, m_last_check, m_inv_itrs, pc, now,
          ib, last_client, ib_event, dangling, fired>>
walk == <<pc, now, ib, last_client, ib_event, m_last_check, fired>>
entries == <<reg, start, cycle>>

Events == Clients \X Ids

\* a client has a node in m_clients exactly when it has an entry
Nodes(r) == {e[1] : e \in r}

\* k is the least element of S that is >= low, or `end' if there is none:
\* std::map::lower_bound, and with low the successor of a key, operator++
IsLowerBound(k, S, low, end) ==
    \/ /\ k \in S
       /\ k >= low
       /\ \A x \in S : x >= low => k <= x
    \/ /\ k = end
       /\ \A x \in S : x < low

Due(e, t) == t - (start[e] + cycle[e]) >= Slack

Init ==
    /\ clock = 0
    /\ reg = {}
    /\ start = [e \in Events |-> 0]
    /\ cycle = [e \in Events |-> 0]
    /\ m_last_check = clock
    /\ m_inv_itrs = FALSE
    /\ pc = "idle"
    /\ now = clock
    /\ ib = NoClient
    /\ last_client = NoClient
    /\ ib_event = NoId
    /\ dangling = {}
    /\ fired = {}

-----------------------------------------------------------------------------
(* The wall clock may move while the program or a callback runs.           *)
Tick ==
    /\ pc \in {"idle", "callback"}
    /\ \E d \in ClockSteps :
        /\ clock + d \in 0..MaxClock
        /\ clock' = clock + d
    /\ UNCHANGED <<entries, walk, m_inv_itrs, dangling>>

-----------------------------------------------------------------------------
(* The operations, called by the program between two checks or by a        *)
(* callback in the middle of one.                                          *)
Callable == pc \in {"idle", "callback"}

Erased(gone, left) ==
    IF pc # "callback" THEN {}
    ELSE {it \in {"ib"} : ib \in Nodes(gone) /\ ib \notin Nodes(left)}
         \cup {it \in {"ib_event"} : <<last_client, ib_event>> \in gone}

\* add(): a new entry invalidates, an update in place does not
Add(e, cy) ==
    /\ Callable
    /\ reg' = reg \cup {e}
    /\ start' = [start EXCEPT ![e] = clock]
    /\ cycle' = [cycle EXCEPT ![e] = cy]
    /\ m_inv_itrs' = IF e \in reg THEN m_inv_itrs ELSE TRUE
    /\ UNCHANGED <<clock, walk, dangling>>

\* mutant: the iterators are not marked
Remove_KeepsIterators(e) ==
    /\ Callable
    /\ e \in reg
    /\ reg' = reg \ {e}
    /\ dangling' = dangling \cup Erased({e}, reg')
    /\ UNCHANGED <<clock, walk, start, cycle, m_inv_itrs>>

\* remove(): an unknown entry is an early return
Remove(e) ==
    /\ Callable
    /\ e \in reg
    /\ reg' = reg \ {e}
    /\ start' = [start EXCEPT ![e] = 0]
    /\ cycle' = [cycle EXCEPT ![e] = 0]
    /\ m_inv_itrs' = TRUE
    /\ dangling' = dangling \cup Erased({e}, reg')
    /\ UNCHANGED <<clock, walk>>

Clear ==
    /\ Callable
    /\ reg' = {}
    /\ start' = [e \in Events |-> 0]
    /\ cycle' = [e \in Events |-> 0]
    /\ m_inv_itrs' = TRUE
    /\ dangling' = dangling \cup Erased(reg, {})
    /\ UNCHANGED <<clock, walk>>

\* Event::Event() and Event::~Event(): an entry of the object stays
InvalidateIterator ==
    /\ Callable
    /\ m_inv_itrs' = TRUE
    /\ UNCHANGED <<clock, entries, walk, dangling>>

-----------------------------------------------------------------------------
(* check(), one action per stretch of code between two loop tests or       *)
(* callbacks.  A call made too soon returns at once and changes nothing.   *)
CheckBegin ==
    /\ pc = "idle"
    /\ clock - m_last_check >= MinGap
    /\ m_last_check' = clock
    /\ now' = clock
    /\ \E c \in 1..NoClient :
        /\ IsLowerBound(c, Nodes(reg), 1, NoClient)
        /\ ib' = c
    /\ m_inv_itrs' = FALSE
    /\ dangling' = {}
    /\ fired' = {}
    /\ pc' = "outer"
    /\ UNCHANGED <<clock, entries, last_client, ib_event>>

\* head of the outer loop: take the client's entries and move ib on
NextClient ==
    /\ pc = "outer"
    /\ ib # NoClient
    /\ last_client' = ib
    /\ \E i \in 1..NoId : 
        /\ IsLowerBound(i, {j \in Ids : <<ib, j>> \in reg}, 1, NoId)
        /\ ib_event' = i
    /\ \E c \in 1..NoClient :
        /\ IsLowerBound(c, Nodes(reg), ib + 1, NoClient)
        /\ ib' = c
    /\ dangling' = {}
    /\ pc' = "inner"
    /\ UNCHANGED <<clock, entries, m_last_check, m_inv_itrs, now, fired>>

CheckEnd ==
    /\ pc = "outer"
    /\ ib = NoClient
    /\ pc' = "idle"
    /\ UNCHANGED <<clock, entries, m_last_check, m_inv_itrs, now, ib,
                   last_client, ib_event, dangling, fired>>

Current == <<last_client, ib_event>>

\* mutant: the start is left alone
Restamped_Never == start

\* e.start = now, before the callback runs
Restamped == [start EXCEPT ![Current] = now]

\* the entry is due
Fire ==
    /\ pc = "inner"
    /\ ib_event # NoId
    /\ Due(Current, now)
    /\ start' = Restamped
    /\ fired' = fired \cup {Current}
    /\ pc' = "callback"
    /\ UNCHANGED <<clock, reg, cycle, m_last_check, m_inv_itrs, now, ib,
                   last_client, ib_event, dangling>>

NotDue ==
    /\ pc = "inner"
    /\ ib_event # NoId
    /\ ~Due(Current, now)
    /\ pc' = "advance"
    /\ UNCHANGED <<clock, entries, m_last_check, m_inv_itrs, now, ib,
                   last_client, ib_event, dangling, fired>>

ClientDone ==
    /\ pc = "inner"
    /\ ib_event = NoId
    /\ pc' = "outer"
    /\ UNCHANGED <<clock, entries, m_last_check, m_inv_itrs, now, ib,
                   last_client, ib_event, dangling, fired>>

CallbackReturns ==
    /\ pc = "callback"
    /\ pc' = "advance"
    /\ UNCHANGED <<clock, entries, m_last_check, m_inv_itrs, now, ib,
                   last_client, ib_event, dangling, fired>>

\* mutant: the interrupted client is taken for finished
RestartFrom_Successor == last_client + 1

\* the key given to lower_bound()
RestartFrom == last_client

\* something was added or removed: start again from the same client
Restart ==
    /\ pc = "advance"
    /\ m_inv_itrs
    /\ m_inv_itrs' = FALSE
    /\ \E c \in 1..NoClient :
        /\ IsLowerBound(c, Nodes(reg), RestartFrom, NoClient)
        /\ ib' = c
    /\ dangling' = {}
    /\ pc' = "outer"
    /\ UNCHANGED <<clock, entries, m_last_check, now, last_client,
                   ib_event, fired>>

NextEvent ==
    /\ pc = "advance"
    /\ ~m_inv_itrs
    /\ \E i \in 1..NoId :
        /\ IsLowerBound(i, {j \in Ids : <<last_client, j>> \in reg},
                        ib_event + 1, NoId)
        /\ ib_event' = i
    /\ dangling' = dangling \ {"ib_event"}
    /\ pc' = "inner"
    /\ UNCHANGED <<clock, entries, m_last_check, m_inv_itrs, now, ib,
                   last_client, fired>>

Check == \/ CheckBegin \/ NextClient \/ CheckEnd \/ Fire \/ NotDue
         \/ ClientDone \/ CallbackReturns \/ Restart \/ NextEvent

Program == \/ \E e \in Events, cy \in Cycles : Add(e, cy)
           \/ \E e \in Events : Remove(e)
           \/ Clear
           \/ InvalidateIterator

Next == Tick \/ Program \/ Check

Spec == Init /\ [][Next]_vars

\* the main loop polls check() and a callback returns
FairSpec == Spec /\ WF_vars(Check)

-----------------------------------------------------------------------------
(* Properties                                                              *)

TypeOK ==
    /\ clock \in 0..MaxClock
    /\ reg \subseteq Events
    /\ start \in [Events -> 0..MaxClock]
    /\ cycle \in [Events -> Cycles \cup {0}]
    /\ m_last_check \in 0..MaxClock
    /\ m_inv_itrs \in BOOLEAN
    /\ pc \in {"idle", "outer", "inner", "callback", "advance"}
    /\ now \in 0..MaxClock
    /\ ib \in 1..NoClient
    /\ last_client \in 1..NoClient
    /\ ib_event \in 1..NoId
    /\ dangling \subseteq {"ib", "ib_event"}
    /\ fired \subseteq Events

\* Whatever a callback did, check() never reads, compares or increments an
\* iterator whose node is gone, and the entry it is about to read is in the
\* map.
NoStaleIterator ==
    /\ pc = "outer" => /\ "ib" \notin dangling
                       /\ ib # NoClient => ib \in Nodes(reg)
    /\ pc = "inner" => /\ "ib_event" \notin dangling
                       /\ ib_event # NoId => Current \in reg
    /\ (pc = "advance" /\ ~m_inv_itrs) => "ib_event" \notin dangling

\* When a pass ends it has missed nothing: no entry that is in the map,
\* whether a callback put it there or it was there all along, is still due.
PassMissesNothing ==
    (pc = "outer" /\ ib = NoClient) => \A e \in reg : ~Due(e, now)

\* One pass calls an entry at most once, also when the walk starts again
\* from the same client and when a callback removes the entry and adds it
\* back.
FiresOncePerPass ==
    [][(pc = "inner" /\ pc' = "callback") => Current \notin fired]_vars

\* A pass calls the entries that are due, each of them and each once.
PassIsExact ==
    /\ [][(pc = "outer" /\ pc' = "idle") => PassMissesNothing]_vars
    /\ FiresOncePerPass

\* A pass ends, although callbacks may invalidate it again and again.
PassEnds == (pc # "idle") ~> (pc = "idle")
=============================================================================
