------------------------------- MODULE IoPoller -------------------------------
(***************************************************************************)
(* pw::IoPoller (src/pw/pw_iopoller*.{h,cpp}): the table m_clients from a  *)
(* descriptor to the client that is called for it, over the kernel's epoll *)
(* or over two fd_sets and select(), and the descriptors that the clients  *)
(* (Socket, SslDummyChannel, ChannelInterface, _WakeUp) open and close.    *)
(*                                                                         *)
(* dispatch() takes a batch of ready descriptors and calls the clients one *)
(* by one.  A callback may close, reuse and register any descriptor, also  *)
(* those that are still waiting in the batch.                              *)
(***************************************************************************)
EXTENDS Integers, FiniteSets, FiniteSetsExt

CONSTANTS
    Kinds,     \* the pollers: name, FD_SETSIZE and MAX_EVENT_SIZE
    Fds,       \* the descriptors, of which the kernel hands out the lowest
    Masks,     \* the masks clients ask for
    Clients,
    Nobody,
    AddMayFail \* whether EPOLL_CTL_ADD may fail (ENOMEM, ENOSPC)

ASSUME IoPollerAssumption ==
    /\ Kinds \subseteq [name : {"epoll", "select"}, size : Nat, batch : Nat \ {0}]
    /\ Fds \subseteq Nat /\ IsFiniteSet(Fds)
    /\ \A m1, m2 \in Masks : m1 \cup m2 \in Masks /\ m1 \cap m2 \in Masks
    /\ {} \in Masks
    /\ Nobody \notin Clients
    /\ AddMayFail \in BOOLEAN

VARIABLES
    kind,
    clients,  \* m_clients: the event and the mask of each descriptor
    m_max_fd, \* select: the last entry that is looked at
    watched,  \* epoll: the descriptors in the interest list
    interest, \* what the kernel, or rfds and wfds, hold for each descriptor
    owner,    \* the client whose descriptor it is; Nobody: it is not open
    ready,    \* the descriptors on which what is asked for can be done
    batch,    \* the events dispatch() still has to deliver
    calling,  \* the client whose eventIo() runs
    cur,      \* the descriptor it was called for
    down,     \* a null pointer was called
    failed,   \* history: entries whose add() failed
    left,     \* history: entries whose descriptor was closed without remove()
    gone,     \* history: entries that remove() has reset in this dispatch
    bare      \* history: entries that have a mask and were never added

table == <<clients, m_max_fd, watched, interest>>
loop == <<batch, calling, cur, down>>
history == <<failed, left, gone, bare>>
vars == <<kind, table, owner, ready, loop, history>>

NoEntry == [event |-> Nobody, mask |-> {}]

Init ==
    /\ kind \in Kinds
    /\ clients = [f \in Fds |-> NoEntry]
    /\ m_max_fd = -1
    /\ watched = {}
    /\ interest = [f \in Fds |-> {}]
    /\ owner = [f \in Fds |-> Nobody]
    /\ ready = {}
    /\ batch = {} /\ calling = Nobody /\ cur = -1 /\ down = FALSE
    /\ failed = {} /\ left = {} /\ gone = {} /\ bare = {}

Epoll == kind.name = "epoll"
\* select's operations refuse a descriptor that no fd_set can hold
InRange(f) == Epoll \/ f < kind.size

-----------------------------------------------------------------------------
(* add(), remove(), setMask(), orMask(), andMask() of both pollers          *)

Registered(f, c, m) ==
    /\ clients' = [clients EXCEPT ![f] = [event |-> c, mask |-> m]]
    /\ watched' = IF Epoll THEN watched \cup {f} ELSE watched
    /\ interest' = [interest EXCEPT ![f] = IF Epoll THEN m ELSE @ \cup m]
    /\ m_max_fd' = IF ~Epoll /\ m_max_fd < f THEN f ELSE m_max_fd
    /\ failed' = failed \ {f}
    /\ left' = IF Epoll THEN left \ {f} ELSE left
    /\ bare' = bare \ {f}

\* the entry is written before the kernel is asked
AddFailed(f, c, m) ==
    /\ Epoll /\ AddMayFail
    /\ clients' = [clients EXCEPT ![f] = [event |-> c, mask |-> m]]
    /\ failed' = failed \cup {f}
    /\ left' = left \ {f}
    /\ UNCHANGED <<m_max_fd, watched, interest, bare>>

Ignored == UNCHANGED <<table, failed, left, bare>>

add(f, c, m) ==
    IF InRange(f) THEN Registered(f, c, m) \/ AddFailed(f, c, m) ELSE Ignored

\* mutant: m_max_fd stops at the first registered descriptor below, exclusively
LastEvent_Off(t, f) ==
    LET under == {g \in Fds : g < f /\ t[g].event # Nobody} IN
    IF under = {} THEN -1 ELSE Max(under) - 1

\* the while loop over m_max_fd
LastEvent(t, f) ==
    LET under == {g \in Fds : g <= f /\ t[g].event # Nobody} IN
    IF under = {} THEN -1 ELSE Max(under)

\* mutant: the entry keeps its client
Reset_Keeps(f) == [clients EXCEPT ![f].mask = {}]

Reset(f) == [clients EXCEPT ![f] = NoEntry]

\* what remove() leaves when it succeeds; EPOLL_CTL_DEL fails for a descriptor
\* that is not watched, and the entry is then left alone
Removed(f) ==
    /\ clients' = Reset(f)
    /\ watched' = watched \ {f}
    /\ interest' = [interest EXCEPT ![f] = {}]
    /\ m_max_fd' = IF Epoll THEN m_max_fd ELSE LastEvent(clients', m_max_fd)
    /\ failed' = failed \ {f} /\ left' = left \ {f}
    /\ gone' = gone \cup {f} /\ bare' = bare \ {f}

CanRemove(f) == IF Epoll THEN f \in watched ELSE InRange(f)

remove(f) ==
    IF CanRemove(f) THEN Removed(f) ELSE Ignored /\ UNCHANGED gone

\* mutant: et.mask is not written
setMask_Lost(f, m) ==
    IF CanRemove(f)
    THEN /\ interest' = [interest EXCEPT ![f] = m]
         /\ UNCHANGED <<clients, m_max_fd, watched, failed, left, bare>>
    ELSE Ignored

setMask(f, m) ==
    IF CanRemove(f)
    THEN /\ clients' = [clients EXCEPT ![f].mask = m]
         /\ interest' = [interest EXCEPT ![f] = m]
         /\ bare' = IF clients[f].event = Nobody THEN bare \cup {f} ELSE bare
         /\ UNCHANGED <<m_max_fd, watched, failed, left>>
    ELSE Ignored

orMask(f, m) == setMask(f, clients[f].mask \cup m)
andMask(f, m) == setMask(f, clients[f].mask \cap m)

-----------------------------------------------------------------------------
(* The clients: from the main loop between two dispatches, or from a        *)
(* callback                                                                 *)

MayRun == ~down /\ (calling # Nobody \/ batch = {})

Idle(c) == \A f \in Fds : owner[f] # c
Owns(c, f) == owner[f] = c

Opens(c, f) ==
    /\ Idle(c)
    /\ owner[f] = Nobody
    /\ \A g \in Fds : g < f => owner[g] # Nobody
    /\ owner' = [owner EXCEPT ![f] = c]

\* a descriptor is opened and added
Open(c) ==
    /\ MayRun
    /\ \E f \in Fds, m \in Masks : Opens(c, f) /\ add(f, c, m)
    /\ UNCHANGED <<kind, ready, loop, gone>>

\* procConnect() connects at once and does not add the descriptor
ConnectAtOnce(c) ==
    /\ MayRun
    /\ \E f \in Fds : Opens(c, f)
    /\ UNCHANGED <<kind, table, ready, loop, history>>

\* _WakeUp::setEventOut() adds its descriptor again
AddAgain(c) ==
    /\ MayRun
    /\ \E f \in Fds, m \in Masks :
        /\ Owns(c, f) /\ clients[f].event # c
        /\ add(f, c, m)
    /\ UNCHANGED <<kind, owner, ready, loop, gone>>

Mask(c) ==
    /\ MayRun
    /\ \E f \in Fds, m \in Masks :
        /\ Owns(c, f)
        /\ setMask(f, m) \/ orMask(f, m) \/ andMask(f, m)
    /\ UNCHANGED <<kind, owner, ready, loop, gone>>

\* Socket::close(), ~Socket(), clearInstance(): removed, then closed
Close(c) ==
    /\ MayRun
    /\ \E f \in Fds :
        /\ Owns(c, f)
        /\ remove(f)
        /\ owner' = [owner EXCEPT ![f] = Nobody]
        /\ ready' = ready \ {f}
    /\ UNCHANGED <<kind, loop>>

\* ~SslDummyChannel() after a failed handshake, in its own eventIo(): closed
\* and not removed.  The kernel forgets it; the entry and the fd_sets do not.
Abandon ==
    /\ calling # Nobody /\ Owns(calling, cur)
    /\ owner' = [owner EXCEPT ![cur] = Nobody]
    /\ watched' = watched \ {cur}
    /\ interest' = IF Epoll THEN [interest EXCEPT ![cur] = {}] ELSE interest
    /\ ready' = ready \ {cur}
    /\ left' = left \cup {cur}
    /\ UNCHANGED <<kind, clients, m_max_fd, loop, failed, gone, bare>>

\* SslDummyChannel::eventIo(): the handshake is done, the descriptor is
\* removed and eventAccept() makes a channel of it
Handover(d) ==
    /\ calling # Nobody /\ Owns(calling, cur) /\ CanRemove(cur)
    /\ clients[cur].event = calling
    /\ Idle(d)
    /\ owner' = [owner EXCEPT ![cur] = d]
    /\ gone' = gone \cup {cur}
    /\ \E m \in Masks, ok \in {TRUE, ~(Epoll /\ AddMayFail)} :
        /\ clients' = [clients EXCEPT ![cur] = [event |-> d, mask |-> m]]
        /\ interest' = [interest EXCEPT ![cur] = IF ok THEN m ELSE {}]
        /\ watched' = IF ok THEN watched ELSE watched \ {cur}
        /\ failed' = IF ok THEN failed \ {cur} ELSE failed \cup {cur}
    /\ left' = left \ {cur} /\ bare' = bare \ {cur}
    /\ UNCHANGED <<kind, m_max_fd, ready, loop>>

-----------------------------------------------------------------------------
(* dispatch()                                                               *)

Askable == {f \in Fds : interest[f] # {} /\ (Epoll \/ f <= m_max_fd)}

\* select() fails with EBADF as long as one of its descriptors is closed
Stalled == ~Epoll /\ \E f \in Askable : owner[f] = Nobody

Ready == Askable \cap ready

\* epoll_wait(), select()
Wait ==
    /\ ~down /\ batch = {} /\ calling = Nobody
    /\ ~Stalled
    /\ batch' \in SUBSET Ready
    /\ batch' # {}
    /\ batch' = Ready \/ (Epoll /\ Cardinality(batch') = kind.batch)
    /\ Epoll => Cardinality(batch') <= kind.batch
    /\ gone' = {}
    /\ UNCHANGED <<kind, table, owner, ready, calling, cur, down, failed, left, bare>>

\* the next event: of select in the order of the descriptors
InTurn(f) == f \in batch /\ (Epoll \/ f = Min(batch))

\* select: the loop ends at the m_max_fd of now
Beyond(f) == ~Epoll /\ f > m_max_fd

Deliver(f) ==
    /\ ~down /\ calling = Nobody
    /\ InTurn(f) /\ ~Beyond(f)
    /\ clients[f].event # Nobody
    /\ calling' = clients[f].event
    /\ cur' = f
    /\ batch' = batch \ {f}
    /\ UNCHANGED <<kind, table, owner, ready, down, history>>

\* an entry without a client: epoll passes over it, select calls it
Skip(f) ==
    /\ ~down /\ calling = Nobody
    /\ InTurn(f) /\ ~Beyond(f)
    /\ clients[f].event = Nobody
    /\ batch' = batch \ {f}
    /\ down' = ~Epoll
    /\ UNCHANGED <<kind, table, owner, ready, calling, cur, history>>

Stop ==
    /\ ~down /\ calling = Nobody
    /\ \E f \in batch : InTurn(f) /\ Beyond(f)
    /\ batch' = {}
    /\ UNCHANGED <<kind, table, owner, ready, calling, cur, down, history>>

\* eventIo() returns
Return ==
    /\ calling # Nobody
    /\ calling' = Nobody
    /\ UNCHANGED <<kind, table, owner, ready, batch, cur, down, history>>

\* eventIo() returns with del_event, as _WakeUp's does, having done nothing
ReturnDel ==
    /\ calling # Nobody
    /\ clients[cur].event = calling
    /\ calling' = Nobody
    /\ remove(cur)
    /\ UNCHANGED <<kind, owner, ready, batch, cur, down>>

\* the peer sends or reads, or the client has taken what there was
Network ==
    /\ \E f \in Fds :
        /\ owner[f] # Nobody
        /\ ready' = IF f \in ready THEN ready \ {f} ELSE ready \cup {f}
    /\ UNCHANGED <<kind, table, owner, loop, history>>

ClientSteps == \E c \in Clients :
    Open(c) \/ ConnectAtOnce(c) \/ AddAgain(c) \/ Mask(c) \/ Close(c) \/ Handover(c)

Dispatch == Wait \/ Stop \/ Return \/ ReturnDel
            \/ \E f \in Fds : Deliver(f) \/ Skip(f)

Next == ClientSteps \/ Abandon \/ Dispatch \/ Network

Spec == Init /\ [][Next]_vars

\* The main loop calls dispatch() again and again, callbacks return, and the
\* kernel lets no ready descriptor starve (its ready list is a queue).
FairSpec ==
    /\ Spec
    /\ WF_vars(Return)
    /\ \A f \in Fds : WF_vars(Deliver(f) \/ Skip(f)) /\ SF_vars(Wait /\ f \in batch')
    /\ WF_vars(Stop)

-----------------------------------------------------------------------------
(* Properties                                                              *)

TypeOK ==
    /\ kind \in Kinds
    /\ clients \in [Fds -> [event : Clients \cup {Nobody}, mask : Masks]]
    /\ m_max_fd \in Fds \cup {-1}
    /\ watched \in SUBSET Fds
    /\ interest \in [Fds -> Masks]
    /\ owner \in [Fds -> Clients \cup {Nobody}]
    /\ ready \in SUBSET Fds
    /\ batch \in SUBSET Fds
    /\ calling \in Clients \cup {Nobody}
    /\ cur \in Fds \cup {-1}
    /\ calling # Nobody => cur \in Fds
    /\ down \in BOOLEAN
    /\ failed \in SUBSET Fds /\ left \in SUBSET Fds /\ gone \in SUBSET Fds
    /\ bare \in SUBSET Fds

\* What epoll watches is open, and m_clients names its owner and its mask, so
\* that the pointer the kernel gives back leads to the owner.
KernelKnowsOwner ==
    \A f \in watched :
        /\ owner[f] # Nobody
        /\ clients[f] = [event |-> owner[f], mask |-> interest[f]]

\* select() is asked about every registered descriptor: none lies beyond
\* m_max_fd, however far remove() has brought it down.
SelectCovers ==
    ~Epoll =>
        \A f \in Fds : clients[f].event # Nobody => f <= m_max_fd

\* No client is called for a descriptor that is not its own, whatever the
\* callbacks before it in the batch have closed and reused, unless an add() of
\* the descriptor had failed or it was closed without remove().  A null pointer
\* is only called by select: for a descriptor that was removed earlier in the
\* same dispatch, or whose mask is set without add().
CallsOwner ==
    [][/\ calling' \notin {Nobody, calling} =>
            owner[cur'] = calling' \/ cur' \in failed \cup left
       /\ down' # down =>
            /\ ~Epoll
            /\ \E f \in batch \ batch' : f \in gone \cup bare]_vars

\* A client whose descriptor stays ready for what it asks for is called, unless
\* select() is stopped by an abandoned descriptor or has called a null pointer.
Wants(c, f) ==
    owner[f] = c /\ clients[f].event = c /\ interest[f] # {} /\ f \in ready
ReadyIsServed ==
    \A c \in Clients, f \in Fds :
        Wants(c, f) ~> (~Wants(c, f) \/ calling = c \/ down \/ Stalled)
=============================================================================
