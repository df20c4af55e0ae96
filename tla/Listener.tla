------------------------------- MODULE Listener -------------------------------
(***************************************************************************)
(* The listeners of src/pw/pw_listener_if.{h,cpp} in a MULTI daemon.  A    *)
(* ParentListener accepts a connection and passes its descriptor to the    *)
(* children in turn, through the socket pair of the child's slot; a        *)
(* ChildListenerInterface takes it out, and negotiates SSL with an         *)
(* SslDummyChannel before eventAccept() gives it to the application.  The  *)
(* parent may have a ListenerInterface of its own as well.                 *)
(*                                                                         *)
(* The parent's descriptors are numbers that the kernel gives out lowest   *)
(* first.  A slot keeps the numbers of its pair when the pair is closed,   *)
(* fork() closes them once more, and getPipeFD() still returns them.  The  *)
(* parent process also holds the child's end of a pair, so that a pair     *)
(* outlives its child.                                                     *)
(***************************************************************************)
EXTENDS Integers, Sequences, FiniteSets, FiniteSetsExt

CONSTANTS
    Conn,         \* connections
    NumChildren,  \* InstanceInterface::m_child.count
    PairRoom,     \* messages that the buffer of a pair holds
    MaxForks      \* bound: forks after the first ones

ASSUME ListenerAssumption ==
    /\ IsFiniteSet(Conn)
    /\ NumChildren \in Nat \ {0}
    /\ PairRoom \in Nat
    /\ MaxForks \in Nat

Child == 0..NumChildren - 1
Parent == NumChildren
Fd == 0..2 * NumChildren + Cardinality(Conn)

Nobody == <<>>           \* what a free number leads to
End(ch, e) == <<ch, e>>  \* an end of a slot's pair: 0 is the parent's
Socket(c) == <<c>>
Thing == {Nobody} \cup {Socket(c) : c \in Conn} \cup {End(ch, e) : ch \in Child, e \in 0..1}

VARIABLES
    fds,       \* the parent's descriptors: what each number leads to
    state,     \* of a slot: its child is running, dead, reaped, or was not forked
    pair,      \* of a slot: fd[0] and fd[1]
    pipe,      \* of a slot: the messages for the child, and those that go astray
    index,     \* getPipeFD(): the static index
    pc, cur,   \* ParentListener::eventIo(): where it is, its connection
    life,      \* of a connection: see Lives
    owner,     \* the process that has it
    number,    \* its number in the parent
    offers,    \* history: calls of eventAccept() for it
    spoiled,   \* history: connections whose peer got the bytes of a message
    gap,       \* history: a slot stood with the numbers of a closed pair
    forks      \* history: forks after the first ones

vars == <<fds, state, pair, pipe, index, pc, cur, life, owner, number, offers,
          spoiled, gap, forks>>
slots == <<state, pair, pipe, gap, forks>>
handler == <<index, pc, cur>>

Lives == {"away", "waiting",      \* not accepted yet
          "moving",               \* accepted by ParentListener
          "shaking", "ok", "bad", \* with an SslDummyChannel
          "kept", "gone"}         \* with the application, closed
InProcess == {"shaking", "ok", "bad", "kept"}

Init ==  \* after eventInitListener() and eventInitChild()
    /\ fds = [n \in Fd |-> IF n < 2 * NumChildren THEN End(n \div 2, n % 2) ELSE Nobody]
    /\ state = [ch \in Child |-> "running"]
    /\ pair = [ch \in Child |-> [e \in 0..1 |-> 2 * ch + e]]
    /\ pipe = [ch \in Child |-> [e \in 0..1 |-> <<>>]]
    /\ index = -1
    /\ pc = "loop" /\ cur \in Conn
    /\ life = [c \in Conn |-> "away"]
    /\ owner = [c \in Conn |-> Parent]
    /\ number = [c \in Conn |-> 0]
    /\ offers = [c \in Conn |-> 0]
    /\ spoiled = {} /\ gap = FALSE /\ forks = 0

\* the connections whose messages wait at an end of the pair
Waiting(ch) ==
    {c \in Conn : \E e \in 0..1 : \E i \in 1..Len(pipe[ch][e]) : pipe[ch][e][i] = c}

Lowest(table) == Min({n \in Fd : table[n] = Nobody})

Dial(c) ==
    /\ life[c] = "away"
    /\ life' = [life EXCEPT ![c] = "waiting"]
    /\ UNCHANGED <<fds, owner, number, offers, spoiled, slots, handler>>

-----------------------------------------------------------------------------
(* A process gets a connection: ListenerInterface::eventIo() and            *)
(* ChildListenerInterface::eventIo(), then SslDummyChannel                  *)

\* closed, given to the application (which may refuse), negotiated
Outcomes == {"dropped", "refused", "kept", "shaking", "ok", "bad"}
Offered(o) == o \in {"refused", "kept"}

Settled(c, p, o) ==
    /\ life' = [life EXCEPT ![c] = IF o \in InProcess THEN o ELSE "gone"]
    /\ owner' = [owner EXCEPT ![c] = p]
    /\ offers' = [offers EXCEPT ![c] = @ + IF Offered(o) THEN 1 ELSE 0]

\* in the parent close() frees the number, whatever it leads to by now
Freed(table, c, p) == IF p = Parent THEN [table EXCEPT ![number[c]] = Nobody] ELSE table

AcceptHere(c) ==
    /\ pc = "loop" /\ life[c] = "waiting"
    /\ LET n == Lowest(fds) IN
       \E o \in Outcomes :
           /\ Settled(c, Parent, o)
           /\ number' = [number EXCEPT ![c] = n]
           /\ fds' = IF o \in InProcess THEN [fds EXCEPT ![n] = Socket(c)] ELSE fds
    /\ UNCHANGED <<spoiled, slots, handler>>

Receive(ch) ==
    /\ state[ch] = "running" /\ pipe[ch][1] # <<>>
    /\ pipe' = [pipe EXCEPT ![ch][1] = Tail(@)]
    /\ \E o \in Outcomes : Settled(Head(pipe[ch][1]), ch, o)
    /\ UNCHANGED <<fds, number, spoiled, state, pair, gap, forks, handler>>

\* mutant: a handshake that failed is not given up
Handshake_Kept(c) ==
    IF life[c] = "ok" THEN {"refused", "kept"}
    ELSE IF life[c] = "bad" THEN {"bad"} ELSE {"refused", "kept", "bad"}

\* what SslDummyChannel::eventIo() may end in
Handshake(c) ==
    CASE life[c] = "shaking" -> {"refused", "kept", "dropped"}
      [] life[c] = "ok" -> {"refused", "kept"}
      [] OTHER -> {"dropped"}

Busy(p) == p = Parent /\ pc # "loop"

SslEvent(c) ==
    /\ life[c] \in {"shaking", "ok", "bad"} /\ ~Busy(owner[c])
    /\ \E o \in Handshake(c) :
           /\ Settled(c, owner[c], o)
           /\ fds' = IF o = "kept" THEN fds ELSE Freed(fds, c, owner[c])
    /\ UNCHANGED <<number, spoiled, slots, handler>>

Hangup(c) ==  \* the application closes it
    /\ life[c] = "kept" /\ ~Busy(owner[c])
    /\ life' = [life EXCEPT ![c] = "gone"]
    /\ fds' = Freed(fds, c, owner[c])
    /\ UNCHANGED <<owner, number, offers, spoiled, slots, handler>>

-----------------------------------------------------------------------------
(* ParentListener::eventIo()                                                *)

NextIndex == (index + 1) % NumChildren

Accept(c) ==
    /\ pc = "loop" /\ life[c] = "waiting"
    /\ life' = [life EXCEPT ![c] = "moving"]
    /\ number' = [number EXCEPT ![c] = Lowest(fds)]
    /\ fds' = [fds EXCEPT ![Lowest(fds)] = Socket(c)]
    /\ index' = NextIndex
    /\ pc' = "send" /\ cur' = c
    /\ UNCHANGED <<owner, offers, spoiled, slots>>

\* getFDByParent(): where the number of the chosen slot leads
Target == fds[pair[index][0]]
IsPair(target) == Len(target) = 2

\* the message is there for whoever reads at the other end
SendToPair ==
    LET ch == Target[1]
        e == 1 - Target[2]
    IN  /\ Len(pipe[ch][e]) < PairRoom  \* else sendmsg() blocks
        /\ pipe' = [pipe EXCEPT ![ch][e] = Append(@, cur)]
        /\ UNCHANGED <<life, spoiled>>

\* a connection takes the four bytes as data and ignores the descriptor; for a
\* free number sendmsg() fails
SendElsewhere ==
    /\ spoiled' = spoiled \cup {c \in Conn : Target = Socket(c)}
    /\ life' = [life EXCEPT ![cur] = "gone"]
    /\ UNCHANGED pipe

Send ==
    /\ pc = "send"
    /\ IF IsPair(Target) THEN SendToPair ELSE SendElsewhere
    /\ pc' = "close"
    /\ UNCHANGED <<fds, owner, number, offers, state, pair, gap, forks, index, cur>>

\* mutant: only what could not be sent is closed
CloseAccepted_Failed == IF life[cur] = "gone" THEN [fds EXCEPT ![number[cur]] = Nobody] ELSE fds

\* eventAccept() of ParentListener is false; with true it is closed as well
CloseAccepted == [fds EXCEPT ![number[cur]] = Nobody]

Close ==
    /\ pc = "close"
    /\ fds' = CloseAccepted
    /\ pc' = "loop"
    /\ UNCHANGED <<life, owner, number, offers, spoiled, slots, index, cur>>

-----------------------------------------------------------------------------
(* The children die and are forked again                                    *)

Die(ch) ==
    /\ state[ch] = "running" /\ forks < MaxForks
    /\ state' = [state EXCEPT ![ch] = "dead"]
    /\ life' = [c \in Conn |-> IF life[c] \in InProcess /\ owner[c] = ch THEN "gone" ELSE life[c]]
    /\ UNCHANGED <<fds, pair, pipe, gap, forks, handler, owner, number, offers, spoiled>>

\* _closePair(): both numbers, whatever they lead to
ClosedPair(table, ch) ==
    [n \in Fd |-> IF n \in {pair[ch][0], pair[ch][1]} THEN Nobody ELSE table[n]]

NewPair(table) ==
    LET n == Lowest(table)
    IN  [e \in 0..1 |-> IF e = 0 THEN n ELSE Lowest([table EXCEPT ![n] = End(0, 0)])]

\* A pair that no process holds takes the messages with it.
Lost(ch) == [c \in Conn |-> IF c \in Waiting(ch) THEN "gone" ELSE life[c]]

Opened(table, ch, new) ==
    [n \in Fd |-> IF n = new[0] THEN End(ch, 0) ELSE IF n = new[1] THEN End(ch, 1) ELSE table[n]]

\* mutant: the old numbers are closed when the new pair is there
Repaired_Late(table, ch) == ClosedPair(Opened(table, ch, NewPair(table)), ch)

\* the old numbers are closed first
Repaired(table, ch) ==
    LET closed == ClosedPair(table, ch) IN Opened(closed, ch, NewPair(closed))

\* fork() of a slot: socketpair() may fail, and the system's fork() after it
Fork(table, ch) ==
    \/ /\ fds' = Repaired(table, ch)
       /\ pair' = [pair EXCEPT ![ch] = NewPair(ClosedPair(table, ch))]
       /\ \E s \in {"running", "unforked"} : state' = [state EXCEPT ![ch] = s]
       /\ UNCHANGED gap
    \/ /\ fds' = ClosedPair(table, ch)
       /\ state' = [state EXCEPT ![ch] = "reaped"]
       /\ gap' = TRUE
       /\ UNCHANGED pair

\* _checkChild() and eventExitChild(), which forks or does not
Reap(ch) ==
    /\ pc = "loop" /\ state[ch] = "dead"
    /\ pipe' = [pipe EXCEPT ![ch] = [e \in 0..1 |-> <<>>]]
    /\ life' = Lost(ch)
    /\ \/ Fork(ClosedPair(fds, ch), ch)
       \/ /\ fds' = ClosedPair(fds, ch)
          /\ state' = [state EXCEPT ![ch] = "reaped"]
          /\ gap' = TRUE
          /\ UNCHANGED pair
    /\ forks' = forks + 1
    /\ UNCHANGED <<handler, owner, number, offers, spoiled>>

\* the application tries again, from a timer
ForkAgain(ch) ==
    /\ pc = "loop" /\ state[ch] \in {"reaped", "unforked"} /\ forks < MaxForks
    /\ pipe' = [pipe EXCEPT ![ch] = [e \in 0..1 |-> <<>>]]
    /\ life' = Lost(ch)
    /\ Fork(fds, ch)
    /\ forks' = forks + 1
    /\ UNCHANGED <<handler, owner, number, offers, spoiled>>

-----------------------------------------------------------------------------

Next ==
    \/ \E c \in Conn : Dial(c) \/ Accept(c) \/ AcceptHere(c) \/ SslEvent(c) \/ Hangup(c)
    \/ Send \/ Close
    \/ \E ch \in Child : Receive(ch) \/ Die(ch) \/ Reap(ch) \/ ForkAgain(ch)

\* The pollers serve what is ready.  Whether a peer goes on with its handshake
\* is up to the peer: nothing in the code limits the time that it may take.
Fairness ==
    /\ WF_vars(Send) /\ WF_vars(Close)
    /\ \A c \in Conn : WF_vars(Accept(c) \/ AcceptHere(c)) 
                     /\ WF_vars(life[c] # "shaking" /\ SslEvent(c))
    /\ \A ch \in Child : WF_vars(Receive(ch))

Spec == Init /\ [][Next]_vars /\ Fairness

-----------------------------------------------------------------------------
(* Properties                                                              *)

TypeOK ==
    /\ fds \in [Fd -> Thing]
    /\ state \in [Child -> {"running", "dead", "reaped", "unforked"}]
    /\ pair \in [Child -> [0..1 -> Fd]]
    /\ pipe \in [Child -> [0..1 -> Seq(Conn)]]
    /\ \A ch \in Child, e \in 0..1 : Len(pipe[ch][e]) <= PairRoom
    /\ index \in -1..NumChildren - 1
    /\ pc \in {"loop", "send", "close"} /\ cur \in Conn
    /\ life \in [Conn -> Lives] /\ owner \in [Conn -> Child \cup {Parent}]
    /\ number \in [Conn -> Fd] /\ offers \in [Conn -> Nat]
    /\ spoiled \subseteq Conn /\ gap \in BOOLEAN /\ forks \in Nat

Messages(c) ==
    {m \in Child \X (0..1) \X (1..PairRoom) :
        m[3] <= Len(pipe[m[1]][m[2]]) /\ pipe[m[1]][m[2]][m[3]] = c}

\* A connection that was accepted is in one place: in a message, with one
\* process, or closed.  Between two events the parent has none but its own open,
\* so that the peer sees when a child closes.
OneHolder == \A c \in Conn :
    /\ Cardinality(Messages(c)) + (IF life[c] \in InProcess THEN 1 ELSE 0) <= 1
    /\ Messages(c) # {} => life[c] = "moving"
    /\ pc = "loop" /\ (\E n \in Fd : fds[n] = Socket(c)) =>
           life[c] \in InProcess /\ owner[c] = Parent

\* As long as every slot was forked again before the parent went on, a slot's
\* numbers lead to its own pair and an own connection's to the connection, and
\* no peer gets the bytes of a message.
NumbersMeant ==
    ~gap =>
        /\ \A ch \in Child, e \in 0..1 : fds[pair[ch][e]] = End(ch, e)
        /\ \A c \in Conn : life[c] \in InProcess /\ owner[c] = Parent =>
               fds[number[c]] = Socket(c)
        /\ spoiled = {}

\* sendmsg() blocks on a pair that nobody reads.
Hung ==
    /\ pc = "send" /\ IsPair(Target)
    /\ Target[2] = 1 \/ state[Target[1]] # "running"

Unread(c) == \E ch \in Child : c \in Waiting(ch) /\
    (state[ch] # "running" \/ \E i \in 1..Len(pipe[ch][0]) : pipe[ch][0][i] = c)

\* A connection is offered to an application or closed in the end, but for one
\* whose handshake waits for its peer (SslDummyChannel has no timeout), one in
\* the pair of a child that does not run, and for a parent that waits to send to
\* such a pair.
Settles == \A c \in Conn :
    life[c] = "waiting" ~> \/ offers[c] > 0 \/ life[c] \in {"gone", "shaking"}
                           \/ Unread(c) \/ Hung
=============================================================================
