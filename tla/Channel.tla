------------------------------- MODULE Channel -------------------------------
(***************************************************************************)
(* One channel (src/pw/pw_channel_if.cpp): the states of its connection    *)
(* and of its instance, what it asks the poller for, its output, and when  *)
(* it is destroyed.  A channel belongs to one loop; between epoll_wait()   *)
(* and the delivery of its event the callbacks of other clients run, and   *)
(* inside its own callbacks the application may call it back.              *)
(*                                                                         *)
(* The variable at says where the loop is: "new" is the application's code *)
(* that has just made a channel of an accepted descriptor, "loop" any code *)
(* outside of this channel, "callback" eventReadData() or eventConnect(),  *)
(* after which eventIo() only looks at the instance, and "wrote"           *)
(* eventWriteData(), which eventWrite() goes on after.                     *)
(***************************************************************************)
EXTENDS Naturals

CONSTANTS
    Kinds,     \* the kinds of channel there are
    MaxOut,    \* bound: units of output waiting
    MaxRoom,   \* bound: units the kernel takes before the peer reads
    Immediate  \* whether an asynchronous connect() may succeed at once

ASSUME ChannelAssumption ==
    /\ Kinds \subseteq [role: {"connect", "accept"}, ssl: BOOLEAN, ex: BOOLEAN]
    /\ MaxOut \in Nat \ {0} /\ MaxRoom \in Nat \ {0}
    /\ Immediate \in BOOLEAN

VARIABLES
    kind,    \* m_ssl, isExHandShakingChannel(), and who made the connection
    inst,    \* m_inst_state
    conn,    \* m_conn_state
    open,    \* m_fd # -1
    wbuf,    \* units in m_wbuf
    alive,   \* not deleted
    at,      \* where the loop is
    polled,  \* the poller has the descriptor
    mask,    \* what it is asked for
    lost,    \* history: what is needed and was overwritten in it when the
             \* connection was made, and has not been asked for again
    got,     \* the events that epoll_wait() has returned and are not delivered
    sock,    \* kernel: the connection
    input,   \* kernel: what there is to read
    room     \* kernel: units that write() would take

channel == <<inst, conn, open, wbuf>>
poller == <<polled, mask, lost>>
kernel == <<sock, input, room>>
vars == <<kind, channel, alive, at, poller, got, kernel>>

Lesser(a, b) == IF a < b THEN a ELSE b

-----------------------------------------------------------------------------
(* The poller and the kernel                                               *)

\* setMask(): epoll_ctl(EPOLL_CTL_MOD) fails if the descriptor was not added
SetMask(m) ==
    /\ mask' = IF polled THEN m ELSE mask
    /\ lost' = lost \ m

\* setMask() of connectSsl(), connectEx() and the like, who do not ask whether
\* there is output or whether the channel is to go
SetMaskAnew(m) ==
    /\ mask' = IF polled THEN m ELSE mask
    /\ lost' = (IF wbuf > 0 \/ inst # "NORMAL" THEN {"OUT"} ELSE {}) \ m

OrMask(m) == SetMask(mask \cup m)

\* What epoll_wait() returns for the descriptor.  ERR stands for POLLERR and
\* POLLHUP, which need not be asked for; a socket that hangs up need not be
\* reported as writable.
Ready ==
    IF ~polled THEN {} ELSE
    (IF input # "none" \/ sock = "broken" THEN mask \cap {"IN"} ELSE {})
    \cup (IF sock = "broken" \/ (sock = "up" /\ room > 0)
          THEN mask \cap {"OUT"} ELSE {})
    \cup (IF sock = "broken" THEN {"ERR"} ELSE {})

Wait ==
    /\ at = "loop" /\ got = {} /\ Ready # {}
    /\ got' = Ready \/ (sock = "broken" /\ got' = Ready \ {"OUT"})
    /\ UNCHANGED <<kind, channel, alive, at, poller, kernel>>

\* the descriptor is closed
SocketClosed ==
    /\ open' = FALSE /\ polled' = FALSE /\ mask' = {} /\ lost' = {}
    /\ sock' = "none" /\ input' = "none" /\ room' = MaxRoom

\* connect() in progress or an accepted descriptor
FreshSocket(s) ==
    /\ open' = TRUE
    /\ sock' = s /\ input' = "none" /\ room' = MaxRoom

Peer == UNCHANGED <<kind, channel, alive, at, poller, got>>

ConnectEnds ==
    /\ sock = "connecting"
    /\ sock' \in {"up", "broken"}
    /\ UNCHANGED <<input, room>> /\ Peer

PeerSends ==
    /\ sock = "up" /\ input = "none"
    /\ input' \in {"data", "end"}
    /\ UNCHANGED <<sock, room>> /\ Peer

PeerReads ==
    /\ sock = "up" /\ room < MaxRoom
    /\ room' = room + 1
    /\ UNCHANGED <<sock, input>> /\ Peer

ConnectionBreaks ==
    /\ sock = "up"
    /\ sock' = "broken"
    /\ UNCHANGED <<input, room>> /\ Peer

-----------------------------------------------------------------------------
(* The end of a channel                                                    *)

\* releaseInstance().  It is also what becomes of eventError() inside of
\* eventIo(): setRelease() there, and the test of isInstDelete() at the end.
Release ==
    /\ alive' = FALSE /\ conn' = "NONE"
    /\ SocketClosed
    /\ at' = "loop"
    /\ UNCHANGED <<kind, inst, wbuf>>

\* mutant: the poller is not told
SetRelease_Unarmed == inst' = "DELETE" /\ UNCHANGED <<mask, lost>>

\* setRelease()
SetRelease ==
    /\ inst' = "DELETE"
    /\ SetMask({"OUT"})

\* mutant: the poller is told only if there is output
SetExpired_Empty == inst' = "EXPIRED" /\ UNCHANGED <<mask, lost>>

\* setExpired()
SetExpired ==
    /\ inst' = "EXPIRED"
    /\ SetMask({"OUT"})

-----------------------------------------------------------------------------
(* Connecting and handshakes                                               *)

\* the loop goes on without a callback
Back == at' = "loop" /\ UNCHANGED <<kind, inst, open, wbuf, alive>>

\* setConnSuccess() and, where there is one, hookConnect()
Connected(next) ==
    /\ conn' = "SUCC" /\ SetMaskAnew({"IN"})
    /\ at' = next
    /\ UNCHANGED <<kind, inst, open, wbuf, alive, polled>>

\* a handshake needs another event: OpenSSL, or the application's procedure,
\* has read what there was or filled the kernel's buffer
GoesOn(state) ==
    /\ \/ /\ input # "end" /\ sock # "broken"
          /\ SetMaskAnew({"IN"}) /\ input' = "none" /\ UNCHANGED room
       \/ SetMaskAnew({"OUT"}) /\ room' = 0 /\ UNCHANGED input
    /\ conn' = state
    /\ Back /\ UNCHANGED <<polled, sock>>

\* a handshake is over: what the peer has sent after it may be left to read
Over(next) ==
    /\ sock = "up"
    /\ Connected(next)
    /\ input' \in {input, IF input = "data" THEN "none" ELSE input}
    /\ UNCHANGED <<sock, room>>

\* connectEx(), acceptEx(): they differ in the application's procedure only
BeginEx(next) == Over(next) \/ GoesOn("EX")

\* connectSsl(), acceptSsl() and handshakeSsl(), which go on with connectEx()
Ssl(next) ==
    \/ IF kind.ex THEN BeginEx(next) ELSE Over(next)
    \/ GoesOn("SSL")

\* handshakeEx() refuses every channel that is in the state EX, for it tests
\* isConnSslHandShaking(); what eventConnecting() then does depends on whether
\* errno is still the EINPROGRESS of an earlier call.
HandshakeEx ==
    \/ Release
    \/ Back /\ UNCHANGED <<conn, poller, kernel>>

\* eventIo() delivers an event to a channel that is not to be deleted
Delivered ==
    /\ at = "loop" /\ got # {} /\ polled /\ inst # "DELETE"
    /\ got' = {}

\* eventConnecting()
EventConnecting ==
    /\ Delivered /\ conn # "SUCC"
    /\ \/ /\ conn = "SEND" /\ sock # "broken" /\ ~kind.ssl
          /\ IF kind.ex THEN BeginEx("callback") \/ Release
             ELSE Connected("callback") /\ UNCHANGED kernel
       \/ /\ \/ conn = "SEND" /\ sock # "broken" /\ kind.ssl
             \/ conn = "SSL"
          /\ Ssl("callback") \/ Release
       \/ conn = "EX" /\ HandshakeEx
       \/ conn \in {"NONE", "FAIL"} /\ Release
       \/ conn = "SEND" /\ sock = "broken" /\ Release

-----------------------------------------------------------------------------
(* Events of a connected channel                                           *)

\* eventIo(): the channel was to be deleted before the event came
EventDeleted ==
    /\ at = "loop" /\ got # {} /\ polled /\ inst = "DELETE"
    /\ got' = {}
    /\ Release

\* eventIo(): an expired channel reads no more
ReadExpired ==
    /\ Delivered /\ conn = "SUCC" /\ inst = "EXPIRED" /\ "IN" \in got
    /\ SetMask({"OUT"})
    /\ Back /\ UNCHANGED <<conn, polled, kernel>>

Reads == inst = "NORMAL"

\* eventRead().  A part of an SSL record gives no data yet.
EventRead ==
    /\ Delivered /\ conn = "SUCC" /\ Reads /\ "IN" \in got
    /\ \/ /\ input = "data" /\ input' \in {"none", "data"}
          /\ at' = "callback"
          /\ UNCHANGED <<kind, channel, alive, poller, sock, room>>
       \/ /\ input = "data" /\ kind.ssl /\ input' = "none"
          /\ Back /\ UNCHANGED <<conn, poller, sock, room>>
       \/ /\ input = "none" /\ sock # "broken"
          /\ Back /\ UNCHANGED <<conn, poller, kernel>>
       \/ (input = "end" \/ sock = "broken") /\ Release

\* mutant: an expired channel is done with the first write
Done_Expired == wbuf = 0 \/ inst = "EXPIRED"

\* m_wbuf->isEmpty()
Done == wbuf = 0

\* what eventWrite() does to a channel that is not expired when there is
\* nothing left to write
AllWritten == SetMask({"IN"})

AfterWrite == IF Done THEN AllWritten ELSE UNCHANGED <<mask, lost>>

\* eventWrite(), up to the call of eventWriteData(); getEventDispatchCount()
\* is 1, so that there is one write for each event
EventWrite ==
    /\ Delivered /\ conn = "SUCC" /\ "OUT" \in got /\ "IN" \notin got
    /\ \/ /\ Done
          /\ IF inst = "EXPIRED" THEN Release
             ELSE AllWritten /\ Back /\ UNCHANGED <<conn, polled, kernel>>
       \/ /\ ~Done /\ (sock = "connecting" \/ (sock = "up" /\ room = 0))
          /\ Back /\ UNCHANGED <<conn, poller, kernel>>
       \/ /\ ~Done /\ sock = "up"
          /\ \E n \in 1 .. Lesser(wbuf, room) :
                wbuf' = wbuf - n /\ room' = room - n
          /\ at' = "wrote"
          /\ UNCHANGED <<kind, inst, conn, open, alive, poller, sock, input>>
       \/ ~Done /\ sock = "broken" /\ Release

\* eventIo(): neither POLLIN nor POLLOUT
EventError ==
    /\ Delivered /\ conn = "SUCC" /\ got = {"ERR"}
    /\ Release

\* eventWrite() after eventWriteData()
WroteReturns ==
    /\ at = "wrote"
    /\ IF inst = "DELETE" \/ (Done /\ inst = "EXPIRED") THEN Release
       ELSE AfterWrite /\ Back /\ UNCHANGED <<conn, polled, kernel>>
    /\ UNCHANGED got

\* eventReadData() or hookConnect() return
CallbackReturns ==
    /\ at = "callback"
    /\ IF inst = "DELETE" THEN Release
       ELSE Back /\ UNCHANGED <<conn, poller, kernel>>
    /\ UNCHANGED got

\* an event for a descriptor that was removed after epoll_wait()
EventDropped ==
    /\ at = "loop" /\ got # {} /\ ~polled
    /\ got' = {}
    /\ UNCHANGED <<kind, channel, alive, at, poller, kernel>>

-----------------------------------------------------------------------------
(* The application                                                         *)

\* A callback of this channel, of another client, or a timer.  Nobody is to
\* close the channel inside of eventWriteData(): eventWrite() would then call
\* setMask() for the descriptor -1.
App == alive /\ at # "new" /\ UNCHANGED <<kind, alive, at, got>>

\* write() asks for POLLOUT
Arm == OrMask({"OUT"})

\* write(), which does not ask whether the connection is made.  The result of
\* orMask() is ignored.
Write ==
    /\ inst = "NORMAL" /\ open /\ wbuf < MaxOut
    /\ wbuf' = wbuf + 1
    /\ Arm
    /\ UNCHANGED <<inst, conn, open, polled, kernel>> /\ App

AppExpires ==
    /\ inst = "NORMAL"
    /\ SetExpired
    /\ UNCHANGED <<conn, open, wbuf, polled, kernel>> /\ App

AppReleases ==
    /\ inst # "DELETE"
    /\ SetRelease
    /\ UNCHANGED <<conn, open, wbuf, polled, kernel>> /\ App

\* releaseInstance() from outside, for a channel that is not connected
AppDestroys ==
    /\ alive /\ at = "loop" /\ conn # "SUCC"
    /\ Release
    /\ UNCHANGED got

\* close(): the output stays in the buffer
Close ==
    /\ at # "wrote" /\ open
    /\ conn' = "NONE" /\ SocketClosed
    /\ UNCHANGED <<inst, wbuf>> /\ App

\* clearInstance()
ClearInstance ==
    /\ at # "wrote"
    /\ conn' = "NONE" /\ SocketClosed
    /\ inst' = "NORMAL" /\ wbuf' = 0
    /\ App

\* setConnSend(), and the poller waits until the connection is made
InProgress ==
    /\ FreshSocket("connecting")
    /\ conn' = "SEND" /\ polled' = TRUE /\ mask' = {"OUT"} /\ lost' = {}

\* procConnect(), asynchronous.  After a connect() that succeeds at once the
\* descriptor is not given to the poller, and it stays open if a handshake
\* then fails.  The new descriptor may have the number of one that was closed
\* while an event for it is still to be delivered.
Connect ==
    /\ kind.role = "connect" /\ conn \notin {"SUCC", "SEND"} /\ ~open
    /\ inst = "NORMAL" /\ at \notin {"new", "wrote"} /\ alive
    /\ got' \in {got, {}}
    /\ \/ /\ conn' = "NONE"
          /\ UNCHANGED <<open, poller, kernel>>
       \/ InProgress
       \/ /\ Immediate
          /\ FreshSocket("up")
          /\ \/ conn' = "SUCC"
             \/ conn' = "SSL" /\ kind.ssl
             \/ conn' = "EX" /\ kind.ex
             \/ conn' = "FAIL" /\ (kind.ssl \/ kind.ex)
          /\ UNCHANGED poller
    /\ UNCHANGED <<kind, inst, wbuf, alive, at>>

\* The application makes a channel of an accepted descriptor, which counts as
\* connected from the constructor on, and gives it to the poller.  It is done
\* with it unless there is a handshake that the listener has not made.
Adopt ==
    /\ at = "new" /\ ~polled
    /\ polled' = TRUE /\ mask' = {"IN"} /\ UNCHANGED lost
    /\ \/ at' = "loop" /\ (kind.ex => kind.ssl)
       \/ at' = "new" /\ (kind.ssl \/ kind.ex)
    /\ UNCHANGED <<kind, channel, alive, got, kernel>>

\* acceptSsl(), or acceptEx() where there is no SSL
Accept ==
    /\ at = "new" /\ polled
    /\ \/ IF kind.ssl THEN Ssl("loop") ELSE BeginEx("loop")
       \/ conn' = "FAIL" /\ Back /\ UNCHANGED <<poller, kernel>>
    /\ UNCHANGED got

-----------------------------------------------------------------------------
(* Specification                                                           *)

\* the constructor
Init ==
    /\ kind \in Kinds
    /\ inst = "NORMAL" /\ wbuf = 0 /\ alive = TRUE
    /\ polled = FALSE /\ mask = {} /\ lost = {} /\ got = {}
    /\ input = "none" /\ room = MaxRoom
    /\ IF kind.role = "accept"
       THEN conn = "SUCC" /\ open = TRUE /\ at = "new" /\ sock = "up"
       ELSE conn = "NONE" /\ open = FALSE /\ at = "loop" /\ sock = "none"

Loop ==
    \/ Wait \/ EventDropped \/ EventDeleted \/ EventConnecting
    \/ ReadExpired \/ EventRead \/ EventWrite \/ EventError
    \/ WroteReturns \/ CallbackReturns

Next ==
    \/ Loop
    \/ Write \/ AppExpires \/ AppReleases \/ AppDestroys
    \/ Close \/ ClearInstance \/ Connect \/ Adopt \/ Accept
    \/ ConnectEnds \/ PeerSends \/ PeerReads \/ ConnectionBreaks

Spec == Init /\ [][Next]_vars

\* The loop keeps dispatching and callbacks return; the kernel ends each
\* connect, at the latest when it times out.
FairSpec == Spec /\ WF_vars(Loop) /\ WF_vars(ConnectEnds)

-----------------------------------------------------------------------------
(* Properties                                                              *)

\* Type correctness: the variables of a channel hold what the code's types
\* and the kernel can hold.
TypeOK ==
    /\ kind \in Kinds
    /\ inst \in {"NORMAL", "EXPIRED", "DELETE"}
    /\ conn \in {"NONE", "SEND", "FAIL", "SUCC", "SSL", "EX"}
    /\ open \in BOOLEAN /\ alive \in BOOLEAN /\ polled \in BOOLEAN
    /\ wbuf \in 0 .. MaxOut /\ room \in 0 .. MaxRoom
    /\ at \in {"new", "loop", "callback", "wrote"}
    /\ mask \subseteq {"IN", "OUT"} /\ lost \subseteq {"OUT"}
    /\ got \subseteq {"IN", "OUT", "ERR"}
    /\ sock \in {"none", "connecting", "up", "broken"}
    /\ input \in {"none", "data", "end"}

\* Output is never forgotten: as long as a connected channel has something in
\* m_wbuf, the poller watches for POLLOUT, unless it was written before the
\* connection was made.  The masks are set by write(), by each kind of event
\* and by setExpired(), and the last one wins.
OutputIsArmed ==
    alive /\ polled /\ conn = "SUCC" /\ wbuf > 0 => "OUT" \in mask \cup lost

\* A channel that is to go, at once or when its output is written, waits for
\* POLLOUT, the event on which eventIo() lets it go, unless that was before
\* the connection was made.
GoingIsArmed ==
    alive /\ polled /\ inst # "NORMAL" => "OUT" \in mask \cup lost

\* Input is never ignored: a connected channel that is neither expired nor to
\* be deleted waits for POLLIN, whatever it has to write.
InputIsArmed ==
    alive /\ polled /\ conn = "SUCC" /\ inst = "NORMAL" => "IN" \in mask

\* The poller is asked for all that the channel waits for, whatever the
\* application does in and between its callbacks: five places set the mask and
\* the last one wins.  Only where the connection is made is POLLOUT lost that
\* the application asked for before (connectEx(), eventConnecting()).
IsArmed == OutputIsArmed /\ GoingIsArmed /\ InputIsArmed

\* "isConnSuccess() tells whether it is connected" (connect() in
\* pw_channel_if.h), that is, of no connection that is still being made.  It
\* does not hold when an event of a closed descriptor is delivered to the new
\* one of the same number, whose SO_ERROR is 0.
SuccIsUp == conn = "SUCC" => sock # "connecting"

\* setExpired() lets the output go out first: an expired channel is destroyed
\* with nothing in m_wbuf, unless its connection is broken; also when events of
\* an older connection are delivered to it (eventWrite()).
ExpiredIsFlushed ==
    [][alive /\ ~alive' /\ inst = "EXPIRED" /\ conn = "SUCC"
       => wbuf = 0 \/ sock = "broken"]_vars

\* A channel that is to go is destroyed in the end, given that its peer keeps
\* reading: the events that eventIo() waits for do come.  Not so one that
\* expires before its handshake is over (handshakeSsl(), handshakeEx() need
\* not end) or whose POLLOUT was lost when the connection was made.
GoingGoes ==
    []<>(room > 0) =>
        (alive /\ polled /\ inst # "NORMAL"
         ~> \/ ~alive \/ ~polled \/ inst = "NORMAL"
            \/ inst = "EXPIRED" /\ (lost # {} \/ conn \in {"SSL", "EX"}))

\* EXPIRED is "an instance that is soon deleted, handled on the OUT event"
\* (InstanceState in pw_channel_if.h).  It does not hold of a channel that was
\* expired before its connection was made, with nothing to hear from the peer.
ExpiredGoes ==
    []<>(room > 0) =>
        (alive /\ polled /\ inst = "EXPIRED"
         ~> ~alive \/ ~polled \/ inst # "EXPIRED")
=============================================================================
