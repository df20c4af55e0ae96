----------------------------- MODULE MultiChannel -----------------------------
(***************************************************************************)
(* A kept connection to another server: MultiChannelInterface              *)
(* (src/pw/pw_multichannel_if.cpp), on top of MsgChannel's reader          *)
(* (pw_msgchannel.cpp) and of what ChannelInterface (pw_channel_if.cpp)    *)
(* does for a client without SSL and without a handshake of its own.  One  *)
(* object lives through any number of connections to its host; two timers  *)
(* bring it back when it is down.                                          *)
(*                                                                         *)
(* The bytes of a connection are cut into cells: a packet is the first     *)
(* half of its header ("begin"), the half with the end of the line ("end") *)
(* and the cells of its body ("data"); "bad" is a line that is no header.  *)
(* A cell knows how many cells of its packet come from it on.  Where the   *)
(* reader has lost its place, what it takes for a line or a header is open.*)
(***************************************************************************)
EXTENDS Naturals, Sequences

CONSTANTS
    MaxWire,   \* bound: cells that are sent and not read
    MaxBody,   \* bound: cells of a body
    MaxHeader, \* MAX_HEADER_SIZE, in cells
    Immediate, \* whether connect() may succeed at once on an async socket
    Sync       \* whether the pool was created with param.async = false

ASSUME MultiChannelAssumption ==
    /\ MaxWire \in Nat \ {0}
    /\ MaxBody \in Nat
    /\ MaxHeader \in Nat \ {0}
    /\ Immediate \in BOOLEAN /\ Sync \in BOOLEAN

VARIABLES
    conn,        \* m_conn_state
    open,        \* m_fd # -1
    polled,      \* the poller watches m_fd
    m_connected,
    recv,        \* m_recv_state; START is HEADER with an empty m_recv
    dest, got,   \* m_dest_bodylen, m_recv_bodylen
    part,        \* history: the header in m_recv is of a packet of this
                 \* connection ("cur"), of a former one ("old"), or is a line
                 \* that the peer never sent as a header ("wrong")
    stream,      \* what the peer has sent and the reader has not taken
    here,        \* how much of it is in m_rbuf
    timers,      \* which of TIMER_RECONNECT_INIT, _RESPONSE are set
    loop,        \* eventReadData() is in its loop
    sent,        \* peer: the last cell it has sent
    closed,      \* kernel: the peer is gone
    greeted,     \* history: setConnected() was called on this connection
    began,       \* history: m_recv_state when this connection began
    last,        \* history: what the last packet of this connection was
    dropped,     \* history: disconnect() was called
    tries        \* history: changes with each reconnect()

socket == <<conn, open, polled>>
progress == <<dest, got, part>>
link == <<stream, here, sent, closed>>
notes == <<greeted, last, began>>
vars == <<socket, m_connected, recv, progress, link, timers, loop, notes,
          dropped, tries>>

Cells == [kind : {"begin", "end", "data", "bad"}, left : 1..MaxBody + 2]

\* as if a packet had just ended
Whole == [kind |-> "data", left |-> 1]

-----------------------------------------------------------------------------
(* The socket                                                              *)

\* clearInstance(): the socket is closed and the buffers are emptied; neither
\* m_recv_state nor m_recv is touched.
Clear ==
    /\ conn' = "NONE" /\ open' = FALSE /\ polled' = FALSE
    /\ stream' = <<>> /\ here' = 0 /\ sent' = Whole /\ closed' = FALSE
    /\ greeted' = FALSE /\ last' = "none"

\* The next connection begins with the reader as it is.  (The actions say so
\* also where nothing was cleared: nothing has been read then.)
Aged ==
    /\ part' = IF part = "none" THEN "none" ELSE "old"
    /\ began' = recv
    /\ UNCHANGED <<recv, dest, got>>

\* mutant: the reconnect is not scheduled
InitAdded_Not(t) == t

\* TimerAdd(this, TIMER_RECONNECT_INIT, ...), with the timers t there are
InitAdded(t) == t \cup {"INIT"}

SetDisconnected(t) ==
    /\ m_connected' = FALSE
    /\ Clear
    /\ timers' = InitAdded(t)

\* mutant: only the timer that started the connection is removed
TimersOff_InitOnly(t) == t \ {"INIT"}

\* setConnected() removes both timers
TimersOff(t) == {}

SetConnected(t) ==
    /\ m_connected' = TRUE
    /\ IF m_connected THEN timers' = t /\ UNCHANGED greeted
       ELSE timers' = TimersOff(t) /\ greeted' = TRUE

\* eventConnect(): the application gives no hello packet, waits for the
\* peer's, or does without
EventConnect(t) ==
    \/ SetDisconnected(t)
    \/ /\ conn' = "SUCC" /\ open' = TRUE
       /\ \/ timers' = t \cup {"RESPONSE"} /\ UNCHANGED <<m_connected, greeted>>
          \/ SetConnected(t)
       /\ UNCHANGED <<link, last>>

\* procConnect() fails, and reconnect() will try again
ConnectFails(t) ==
    /\ Clear
    /\ timers' = t \cup {"INIT"}
    /\ UNCHANGED m_connected

\* reconnect().  procConnect() refuses an object that has a socket.  After a
\* connect() that succeeds at once it calls setMask() for a descriptor that
\* nobody has given to the poller.
Reconnect(t) ==
    /\ tries' = ~tries
    /\ \/ ConnectFails(t)
       \/ /\ ~open
          /\ conn' = "SEND" /\ open' = TRUE /\ polled' = TRUE
          /\ timers' = t
          /\ UNCHANGED <<m_connected, link, greeted, last>>
       \/ /\ ~open /\ Immediate
          /\ EventConnect(t)
          /\ polled' = FALSE

Init ==
    /\ recv = "HEADER" /\ dest = 0 /\ got = 0 /\ part = "none" /\ loop = FALSE
    /\ stream = <<>> /\ here = 0 /\ sent = Whole /\ closed = FALSE
    /\ began = "HEADER" /\ last = "none" /\ dropped = FALSE /\ tries = FALSE
    \* s_create() has called reconnect() or connectSync()
    /\ \/ ~Sync /\ conn = "SEND" /\ m_connected = FALSE /\ timers = {}
       \/ ~Sync /\ conn = "NONE" /\ m_connected = FALSE /\ timers = {"INIT"}
       \/ /\ ~Sync /\ Immediate
          /\ conn = "SUCC" /\ m_connected = FALSE /\ timers = {"RESPONSE"}
       \/ /\ Sync \/ Immediate
          /\ conn = "SUCC" /\ m_connected = TRUE /\ timers = {}
    /\ open = (conn # "NONE") /\ polled = (conn = "SEND") /\ greeted = m_connected

-----------------------------------------------------------------------------
(* Timers and the socket's events                                          *)

Quiet == ~loop

InitTimer ==
    /\ Quiet /\ "INIT" \in timers
    /\ Reconnect(timers \ {"INIT"})
    /\ Aged
    /\ UNCHANGED <<loop, dropped>>

\* no hello came: clearInstance() and once more from the beginning
ResponseTimer ==
    /\ Quiet /\ "RESPONSE" \in timers
    /\ Clear
    /\ timers' = {"INIT"}
    /\ Aged
    /\ UNCHANGED <<m_connected, loop, dropped, tries>>

\* TIMER_CHECK_10SEC, if the application has set it: m_last_read is as old as
\* the object, since hookReadPacket() is overridden
PingTimeout ==
    /\ Quiet /\ conn = "SUCC"
    /\ SetDisconnected(timers)
    /\ Aged
    /\ UNCHANGED <<loop, dropped, tries>>

\* eventConnecting(): SO_ERROR says how the connect ended
ConnectDone ==
    /\ Quiet /\ conn = "SEND" /\ polled
    /\ EventConnect(timers)
    /\ polled' = (conn' = "SUCC")
    /\ UNCHANGED <<recv, progress, began, loop, dropped, tries>>

\* mutant: READ_CLOSE is not an error
EventError_Not == UNCHANGED <<socket, m_connected, timers, link, greeted, last>>

\* eventError(): setRelease() and then setDisconnected(), which makes the
\* object NORMAL again
EventError == SetDisconnected(timers)

\* eventIo() finds the connection broken (READ_CLOSE, READ, NORMAL): what is
\* still unread may be lost
ReadFails ==
    /\ Quiet /\ conn = "SUCC" /\ polled
    /\ closed
    /\ EventError
    /\ Aged
    /\ UNCHANGED <<loop, dropped, tries>>

\* eventRead(): some of what is there is read
EventRead ==
    /\ Quiet /\ conn = "SUCC" /\ polled
    /\ here' \in here + 1..Len(stream)
    /\ loop' = TRUE
    /\ UNCHANGED <<socket, m_connected, recv, progress, stream, sent, closed,
                   timers, notes, dropped, tries>>

-----------------------------------------------------------------------------
(* eventReadData(): the loop, a round at a time                            *)

\* the next cell is the first of a packet (or of a line that is none)
AtBegin == IF stream = <<>> THEN sent.left = 1
           ELSE Head(stream).kind \in {"begin", "bad"}

\* the next cells are those that are missing of the body in m_recv
AtRest ==
    /\ part = "cur"
    /\ IF stream = <<>> THEN sent.kind # "begin" /\ sent.left = dest - got + 1
       ELSE Head(stream).kind = "data" /\ Head(stream).left = dest - got

\* the reader is at the place of the peer's stream that its state is for
InStep == IF recv = "BODY" THEN AtRest ELSE AtBegin

\* mutant: m_recv_bodylen is not reset
Restart_Kept == recv' = "HEADER" /\ part' = "none" /\ UNCHANGED <<dest, got>>

\* RecvState::START: m_recv and its lengths are cleared
Restart == recv' = "HEADER" /\ part' = "none" /\ dest' = 0 /\ got' = 0

\* moveRead()
Taken(n) ==
    /\ stream' = SubSeq(stream, n + 1, Len(stream)) /\ here' = here - n
    /\ UNCHANGED <<sent, closed>>

\* hookReadPacket() with the packet whose last n cells are in m_rbuf: to the
\* application, which may call disconnect(), or to checkHelloPacket().
\* whole: it is a packet that the peer has sent.
Deliver(n, whole) ==
    /\ Restart
    /\ \/ /\ m_connected \/ SetConnected(timers)
          /\ m_connected => UNCHANGED <<m_connected, timers, greeted>>
          /\ Taken(n)
          /\ last' = IF whole THEN "whole" ELSE "spoilt"
          /\ UNCHANGED <<socket, began, dropped>>
       \/ /\ m_connected
          /\ Clear /\ began' = "HEADER" /\ timers' = {} /\ dropped' = TRUE
          /\ UNCHANGED m_connected
       \/ /\ ~m_connected
          /\ EventError /\ began' = "HEADER"
          /\ UNCHANGED dropped
    /\ UNCHANGED <<loop, tries>>

\* findLine(): the first line of m_rbuf may be its first n cells.  There is
\* an end of a line in "end" and "bad", and there may be one in a body.
IsLine(n) ==
    /\ stream[n].kind # "begin"
    /\ \A i \in 1..n - 1 : stream[i].kind \in {"begin", "data"}

NoLine == \A i \in 1..here : stream[i].kind \in {"begin", "data"}

\* the first n cells are a header of the peer's
IsHeader(n) == n = 2 /\ stream[1].kind = "begin"

\* the lengths of a body that setHeader() may read in a line: what stands
\* there, or any that happens to look like one
Lengths(n) ==
    IF IsHeader(n) THEN {stream[2].left - 1}
    ELSE IF n = 1 /\ stream[1].kind = "bad" THEN {} ELSE 0..MaxBody

\* nothing to go on with: no line yet, or no more of the body
WaitMore ==
    /\ loop
    /\ IF recv = "BODY" THEN here = 0 ELSE NoLine /\ here <= MaxHeader
    /\ loop' = FALSE
    /\ UNCHANGED <<socket, m_connected, recv, progress, link, timers, notes,
                   dropped, tries>>

\* a line that setHeader() does not take, or none where there should be one:
\* RecvState::ERROR
BadHeader ==
    /\ loop /\ recv = "HEADER"
    /\ \/ \E n \in 1..here : IsLine(n) /\ ~IsHeader(n)
       \/ NoLine /\ here > MaxHeader
    /\ EventError /\ began' = "HEADER"
    /\ Restart
    /\ UNCHANGED <<loop, dropped, tries>>

HeaderOnly ==
    /\ loop /\ recv = "HEADER"
    /\ \E n \in 1..here : IsLine(n) /\ 0 \in Lengths(n) /\ Deliver(n, IsHeader(n))

HeaderOfBody ==
    /\ loop /\ recv = "HEADER"
    /\ \E n \in 1..here :
        /\ IsLine(n)
        /\ dest' \in Lengths(n) \ {0}
        /\ part' = IF IsHeader(n) THEN "cur" ELSE "wrong"
        /\ Taken(n)
    /\ recv' = "BODY"
    /\ UNCHANGED <<socket, m_connected, got, timers, loop, notes, dropped, tries>>

\* The body takes m_dest_bodylen - m_recv_bodylen of what is in m_rbuf,
\* whatever it is, or all there is; here a cell at a time, nothing else
\* running in between.
BodyPart ==
    /\ loop /\ recv = "BODY" /\ here > 0
    /\ got + 1 < dest
    /\ got' = got + 1
    /\ Taken(1)
    /\ UNCHANGED <<socket, m_connected, recv, dest, part, timers, loop, notes,
                   dropped, tries>>

Body ==
    /\ loop /\ recv = "BODY" /\ here > 0
    /\ got + 1 >= dest
    /\ Deliver(1, InStep)

-----------------------------------------------------------------------------
(* The application and the peer                                            *)

\* disconnect(): neither m_connected nor the pool is told
Disconnect ==
    /\ Quiet /\ m_connected
    /\ Clear /\ timers' = {} /\ dropped' = TRUE
    /\ Aged
    /\ UNCHANGED <<m_connected, loop, tries>>

\* after that it may call reconnect()
AppReconnect ==
    /\ Quiet /\ dropped /\ ~open
    /\ Reconnect(timers)
    /\ Aged
    /\ UNCHANGED <<loop, dropped>>

\* the cells that may come after cell c
Follows(c, d) ==
    IF c.left = 1
    THEN (d.kind = "begin" /\ d.left >= 2) \/ (d.kind = "bad" /\ d.left = 1)
    ELSE d.left = c.left - 1 /\ d.kind = IF c.kind = "begin" THEN "end" ELSE "data"

PeerSends ==
    /\ conn = "SUCC" /\ ~closed
    /\ Len(stream) - here < MaxWire
    /\ \E c \in Cells :
        Follows(sent, c) /\ stream' = Append(stream, c) /\ sent' = c
    /\ UNCHANGED <<socket, m_connected, recv, progress, here, closed, timers,
                   loop, notes, dropped, tries>>

PeerCloses ==
    /\ conn = "SUCC" /\ ~closed
    /\ closed' = TRUE
    /\ UNCHANGED <<socket, m_connected, recv, progress, stream, here, sent,
                   timers, loop, notes, dropped, tries>>

Reading == WaitMore \/ BadHeader \/ HeaderOnly \/ HeaderOfBody \/ BodyPart \/ Body

Next == InitTimer \/ ResponseTimer \/ PingTimeout \/ ConnectDone \/ ReadFails
        \/ EventRead \/ Reading \/ Disconnect \/ AppReconnect
        \/ PeerSends \/ PeerCloses

Spec == Init /\ [][Next]_vars

\* Timers fire, the kernel ends every connect and reports every broken
\* socket that is polled, and the loop goes on.
FairSpec == /\ Spec
            /\ WF_vars(InitTimer) /\ WF_vars(ResponseTimer)
            /\ WF_vars(ConnectDone) /\ SF_vars(ReadFails) /\ WF_vars(Reading)

-----------------------------------------------------------------------------
(* Properties                                                              *)

TypeOK ==
    /\ conn \in {"NONE", "SEND", "SUCC"}
    /\ open \in BOOLEAN /\ polled \in BOOLEAN /\ m_connected \in BOOLEAN
    /\ recv \in {"HEADER", "BODY"} /\ began \in {"HEADER", "BODY"}
    /\ dest \in 0..MaxBody /\ got \in 0..MaxBody
    /\ part \in {"none", "cur", "old", "wrong"}
    /\ stream \in Seq(Cells) /\ here \in 0..Len(stream) /\ sent \in Cells
    /\ timers \subseteq {"INIT", "RESPONSE"}
    /\ loop \in BOOLEAN /\ closed \in BOOLEAN
    /\ greeted \in BOOLEAN /\ dropped \in BOOLEAN /\ tries \in BOOLEAN
    /\ last \in {"none", "whole", "spoilt"}

\* A channel that is down and that nobody has disconnected has somebody to
\* bring it up again: a timer, or a connect that is under way in the poller.
NeverStranded ==
    ~m_connected /\ ~dropped =>
        \/ timers # {}
        \/ conn = "SEND" /\ polled

\* While isConnected() holds there is a connection, its hello was checked,
\* and no timer of an earlier attempt is left that would cut it.
ConnectedIsReal ==
    m_connected /\ ~dropped =>
        conn = "SUCC" /\ open /\ greeted /\ timers = {}

\* On a connection that began with an empty m_recv each packet handed on is
\* one that the peer sent on it, and the reader goes on where the next one
\* begins, in whatever pieces they come and whatever hookReadPacket() does to
\* the connection in between (eventReadData()).
StaysInStep ==
    conn = "SUCC" /\ began = "HEADER" => InStep /\ last # "spoilt"

\* eventReadPacket() is called "when one whole packet was received"
\* (pw_channel_if.h).  It does not hold on a connection that begins while
\* m_recv still waits for the body of a packet of the one before.
PacketsAreWhole == last # "spoilt"

Broken == m_connected /\ closed

\* A channel comes back: a broken connection that the poller watches is
\* noticed, and while the channel is down there is always another attempt,
\* whatever becomes of this one: refused, cut, answered with rubbish or not
\* answered (reconnect(), TIMER_RECONNECT).
ComesBack ==
    /\ (Broken /\ polled) ~> ~Broken
    /\ \A b \in BOOLEAN :
        (~m_connected /\ tries = b) ~> (m_connected \/ dropped \/ tries # b)
=============================================================================
