---------------------------- MODULE ChannelProofs ----------------------------
(***************************************************************************)
(* Proofs about Channel, for all kinds of channel, every bound and every   *)
(* order of the application's calls.                                       *)
(***************************************************************************)
EXTENDS Channel, TLAPS

USE ChannelAssumption

\* Only a descriptor that is open is in the poller, and only one in the poller
\* has a mask; inside of its callbacks the channel is there.
ShapeInv ==
    /\ polled => open
    /\ ~polled => mask = {} /\ lost = {}
    /\ ~alive => ~open
    /\ conn = "NONE" <=> ~open
    /\ at \in {"new", "callback", "wrote"} => alive
    /\ at = "wrote" => conn = "SUCC"
    /\ at = "new" =>
        conn = "SUCC" /\ inst = "NORMAL" /\ wbuf = 0 /\ got = {}

\* An error that is to be delivered to a connected channel is its own, though
\* other events of an older connection may be delivered to it.
SocketInv == "ERR" \in got /\ polled /\ conn = "SUCC" => sock = "broken"

\* What the poller is asked for.
MaskInv == InputIsArmed /\ OutputIsArmed /\ GoingIsArmed

Inv == TypeOK /\ ShapeInv /\ SocketInv /\ MaskInv

LEMMA Bounds == 0 \in 0 .. MaxOut /\ 0 \in 0 .. MaxRoom /\ MaxRoom \in 0 .. MaxRoom
  BY ChannelAssumption

-----------------------------------------------------------------------------
(* The handlers that the actions share.                                    *)

LEMMA InitInv == Init => Inv
<1> SUFFICES ASSUME Init PROVE Inv
  OBVIOUS
<1>1. TypeOK
  <2>1. kind \in Kinds /\ wbuf \in 0 .. MaxOut /\ room \in 0 .. MaxRoom
    BY Bounds DEF Init
  <2>2. QED
    BY <2>1 DEF Init, TypeOK
<1>2. ShapeInv /\ SocketInv
  BY DEF Init, ShapeInv, SocketInv
<1>3. MaskInv
  BY DEF Init, MaskInv, InputIsArmed, OutputIsArmed, GoingIsArmed
<1>4. QED
  BY <1>1, <1>2, <1>3 DEF Inv

\* A channel that has been destroyed, whatever it was before.
LEMMA ReleaseStep ==
    ASSUME Inv, Release, got' \subseteq got
    PROVE  Inv'
<1>1. TypeOK'
  <2>1. kind' \in Kinds /\ wbuf' \in 0 .. MaxOut /\ room' \in 0 .. MaxRoom
    BY Bounds DEF Inv, TypeOK, Release, SocketClosed
  <2>2. inst' = inst /\ got' \subseteq {"IN", "OUT", "ERR"}
    BY DEF Inv, TypeOK, Release
  <2>3. QED
    BY <2>1, <2>2 DEF Inv, TypeOK, Release, SocketClosed
<1>2. ShapeInv' /\ SocketInv'
  BY DEF Release, SocketClosed, ShapeInv, SocketInv
<1>3. MaskInv'
  BY DEF Release, SocketClosed, MaskInv, InputIsArmed, OutputIsArmed, GoingIsArmed
<1>4. QED
  BY <1>1, <1>2, <1>3 DEF Inv

\* The connection is made, or the handshake is over.
LEMMA ConnectedStep ==
    ASSUME Inv, NEW next \in {"loop", "callback"}, Connected(next),
           polled, alive, inst # "DELETE",
           got' = {}, UNCHANGED <<sock, room>>,
           input' \in {"none", "data", "end"}
    PROVE  Inv'
<1>1. TypeOK'
  BY DEF Inv, TypeOK, Connected, SetMaskAnew
<1>2. ShapeInv'
  BY DEF Inv, ShapeInv, Connected
<1>3. SocketInv'
  BY DEF Inv, SocketInv, Connected
<1>4. MaskInv'
  BY DEF Inv, TypeOK, Connected, SetMaskAnew, MaskInv, InputIsArmed, OutputIsArmed,
         GoingIsArmed
<1>5. QED
  BY <1>1, <1>2, <1>3, <1>4 DEF Inv

\* The handshake needs another event.
LEMMA GoesOnStep ==
    ASSUME Inv, NEW state \in {"SSL", "EX"}, GoesOn(state),
           polled, alive, inst # "DELETE",
           got' = {}
    PROVE  Inv'
<1>1. TypeOK'
  <2>1. room' \in 0 .. MaxRoom /\ input' \in {"none", "data", "end"}
    BY Bounds DEF Inv, TypeOK, GoesOn
  <2>2. mask' \subseteq {"IN", "OUT"} /\ lost' \subseteq {"OUT"}
    BY DEF GoesOn, SetMaskAnew
  <2>3. QED
    BY <2>1, <2>2 DEF Inv, TypeOK, GoesOn, Back
<1>2. ShapeInv'
  BY DEF Inv, ShapeInv, GoesOn, Back
<1>3. SocketInv'
  BY DEF Inv, SocketInv, GoesOn, Back
<1>4. MaskInv'
  BY DEF Inv, TypeOK, GoesOn, SetMaskAnew, Back, MaskInv, InputIsArmed,
         OutputIsArmed, GoingIsArmed
<1>5. QED
  BY <1>1, <1>2, <1>3, <1>4 DEF Inv

LEMMA OverStep ==
    ASSUME Inv, NEW next \in {"loop", "callback"}, Over(next),
           polled, alive, inst # "DELETE",
           got' = {}
    PROVE  Inv'
<1>1. Connected(next) /\ UNCHANGED <<sock, room>> /\ sock = "up"
  BY DEF Over
<1>2. input' \in {"none", "data", "end"}
  BY DEF Over, Inv, TypeOK
<1>3. QED
  BY <1>1, <1>2, ConnectedStep

\* One call into OpenSSL or into the application's procedure.
LEMMA HandshakeStep ==
    ASSUME Inv, NEW next \in {"loop", "callback"}, BeginEx(next) \/ Ssl(next),
           polled, alive, inst # "DELETE",
           got' = {}
    PROVE  Inv'
<1>1. Over(next) \/ GoesOn("EX") \/ GoesOn("SSL")
  BY DEF BeginEx, Ssl
<1>2. QED
  BY <1>1, OverStep, GoesOnStep

\* Only at and the events to be delivered change.
LEMMA BackStep ==
    ASSUME Inv, UNCHANGED <<kind, channel, alive, poller, sock, room>>,
           at' = "loop" \/ (at' = "callback" /\ alive),
           got' \in {{}, got},
           input' \in {"none", "data", "end"}
    PROVE  Inv'
<1> USE DEF channel, poller
<1>1. TypeOK'
  <2>1. at' \in {"new", "loop", "callback", "wrote"} /\ got' \subseteq {"IN", "OUT", "ERR"}
    BY DEF Inv, TypeOK
  <2>2. open' \in BOOLEAN /\ alive' \in BOOLEAN /\ polled' \in BOOLEAN
    BY Zenon DEF Inv, TypeOK
  <2>3. mask' \subseteq {"IN", "OUT"} /\ lost' \subseteq {"OUT"} /\ wbuf' \in 0 .. MaxOut /\ room' \in 0 .. MaxRoom
    BY DEF Inv, TypeOK
  <2>4. /\ kind' \in Kinds /\ inst' \in {"NORMAL", "EXPIRED", "DELETE"}
        /\ conn' \in {"NONE", "SEND", "FAIL", "SUCC", "SSL", "EX"}
        /\ sock' \in {"none", "connecting", "up", "broken"}
    BY Zenon DEF Inv, TypeOK
  <2>5. QED
    BY <2>1, <2>2, <2>3, <2>4, Zenon DEF TypeOK
<1>2. ShapeInv'
  BY DEF Inv, ShapeInv
<1>3. SocketInv'
  BY DEF Inv, SocketInv
<1>4. MaskInv'
  BY DEF Inv, MaskInv, InputIsArmed, OutputIsArmed, GoingIsArmed
<1>5. QED
  BY <1>1, <1>2, <1>3, <1>4 DEF Inv

\* Only the mask changes; the loop goes on.
LEMMA MaskStep ==
    ASSUME Inv, NEW m \in SUBSET {"IN", "OUT"}, SetMask(m), Back,
           UNCHANGED <<conn, polled, kernel>>, got' \in {{}, got},
           "IN" \in m \/ inst # "NORMAL",
           "OUT" \in m \/ (wbuf = 0 /\ inst = "NORMAL")
    PROVE  Inv'
<1> USE DEF Back, kernel
<1>1. TypeOK'
  <2>1. at' \in {"new", "loop", "callback", "wrote"} /\ got' \subseteq {"IN", "OUT", "ERR"}
    BY DEF Inv, TypeOK
  <2>2. open' \in BOOLEAN /\ alive' \in BOOLEAN /\ polled' \in BOOLEAN
    BY Zenon DEF Inv, TypeOK
  <2>3. mask' \subseteq {"IN", "OUT"} /\ lost' \subseteq {"OUT"} /\ wbuf' \in 0 .. MaxOut /\ room' \in 0 .. MaxRoom
    BY DEF Inv, TypeOK, SetMask
  <2>4. /\ kind' \in Kinds /\ inst' \in {"NORMAL", "EXPIRED", "DELETE"}
        /\ conn' \in {"NONE", "SEND", "FAIL", "SUCC", "SSL", "EX"}
        /\ sock' \in {"none", "connecting", "up", "broken"}
        /\ input' \in {"none", "data", "end"}
    BY Zenon DEF Inv, TypeOK
  <2>5. QED
    BY <2>1, <2>2, <2>3, <2>4, Zenon DEF TypeOK
<1>2. ShapeInv'
  BY DEF Inv, ShapeInv, SetMask
<1>3. SocketInv'
  BY DEF Inv, SocketInv
<1>4. MaskInv'
  BY DEF Inv, SetMask, MaskInv, InputIsArmed, OutputIsArmed, GoingIsArmed
<1>5. QED
  BY <1>1, <1>2, <1>3, <1>4 DEF Inv

\* A channel whose event is delivered lives and is not being connected.
LEMMA DeliveredFacts ==
    ASSUME Inv, Delivered
    PROVE  /\ alive /\ open /\ polled /\ conn # "NONE" /\ at = "loop"
           /\ inst \in {"NORMAL", "EXPIRED"} /\ got' = {}
<1>1. alive /\ open /\ polled /\ conn # "NONE" /\ at = "loop"
  BY DEF Inv, ShapeInv, Delivered
<1>2. inst \in {"NORMAL", "EXPIRED"} /\ got' = {}
  BY DEF Inv, TypeOK, Delivered
<1>3. QED
  BY <1>1, <1>2

-----------------------------------------------------------------------------
(* The steps of the loop                                                   *)

LEMMA WaitInv == Inv /\ Wait => Inv'
<1> SUFFICES ASSUME Inv, Wait PROVE Inv'
  OBVIOUS
<1> USE DEF channel, poller, kernel
<1>1. got' \subseteq Ready /\ Ready \subseteq {"IN", "OUT", "ERR"}
  BY DEF Wait, Ready
<1>2. TypeOK'
  BY <1>1 DEF Inv, TypeOK, Wait
<1>3. ShapeInv'
  BY DEF Inv, ShapeInv, Wait
<1>4. SocketInv'
  <2>1. "ERR" \in Ready => sock = "broken"
    BY DEF Inv, TypeOK, Ready
  <2>2. QED
    BY <1>1, <2>1 DEF SocketInv, Wait
<1>5. MaskInv'
  BY DEF Inv, MaskInv, InputIsArmed, OutputIsArmed, GoingIsArmed, Wait
<1>6. QED
  BY <1>2, <1>3, <1>4, <1>5 DEF Inv

LEMMA EventConnectingInv == Inv /\ EventConnecting => Inv'
<1> SUFFICES ASSUME Inv, EventConnecting PROVE Inv'
  OBVIOUS
<1>1. Delivered /\ conn # "SUCC"
  BY DEF EventConnecting
<1>2. alive /\ open /\ polled /\ inst # "DELETE" /\ got' = {}
  BY <1>1, DeliveredFacts
<1>4. CASE Release
  BY <1>2, <1>4, ReleaseStep
<1>5. CASE BeginEx("callback") \/ Ssl("callback")
  BY <1>2, <1>5, HandshakeStep
<1>6. CASE Connected("callback") /\ UNCHANGED kernel
  <2>1. input' \in {"none", "data", "end"} /\ UNCHANGED <<sock, room>>
    BY <1>6 DEF Inv, TypeOK, kernel
  <2>2. QED
    BY <1>2, <1>6, <2>1, ConnectedStep
<1>7. CASE Back /\ UNCHANGED <<conn, poller, kernel>>
  <2>1. UNCHANGED <<kind, channel, alive, poller, sock, room, input>> /\ at' = "loop"
    BY <1>7 DEF Back, channel, kernel
  <2>2. QED
    BY <1>2, <2>1, BackStep DEF Inv, TypeOK
<1>8. QED
  BY <1>4, <1>5, <1>6, <1>7 DEF EventConnecting, HandshakeEx

LEMMA ReadExpiredInv == Inv /\ ReadExpired => Inv'
<1> SUFFICES ASSUME Inv, ReadExpired PROVE Inv'
  OBVIOUS
<1>1. got' = {} /\ inst # "NORMAL"
  BY DEF ReadExpired, Delivered
<1>2. QED
  BY <1>1, MaskStep DEF ReadExpired

LEMMA EventReadInv == Inv /\ EventRead => Inv'
<1> SUFFICES ASSUME Inv, EventRead PROVE Inv'
  OBVIOUS
<1>1. alive /\ got' = {}
  BY DeliveredFacts DEF EventRead
<1>2. CASE Release
  BY <1>1, <1>2, ReleaseStep
<1>3. CASE /\ input = "data" /\ input' \in {"none", "data"}
           /\ at' = "callback"
           /\ UNCHANGED <<kind, channel, alive, poller, sock, room>>
  BY <1>1, <1>3, BackStep
<1>4. CASE /\ input = "data" /\ kind.ssl /\ input' = "none"
           /\ Back /\ UNCHANGED <<conn, poller, sock, room>>
  BY <1>1, <1>4, BackStep DEF Back, channel
<1>5. CASE Back /\ UNCHANGED <<conn, poller, kernel>>
  <2>1. UNCHANGED <<kind, channel, alive, poller, sock, room, input>> /\ at' = "loop"
    BY <1>5 DEF Back, channel, kernel
  <2>2. QED
    BY <1>1, <2>1, BackStep DEF Inv, TypeOK
<1>6. QED
  BY <1>2, <1>3, <1>4, <1>5 DEF EventRead

\* A write takes from the buffer what the kernel takes.
LEMMA WrittenStep ==
    ASSUME Inv, alive, conn = "SUCC", got' = {},
           NEW n \in 1 .. Lesser(wbuf, room),
           wbuf' = wbuf - n, room' = room - n, at' = "wrote",
           UNCHANGED <<kind, inst, conn, open, alive, poller, sock, input>>
    PROVE  Inv'
<1> USE DEF poller
<1>1. wbuf' \in 0 .. MaxOut /\ room' \in 0 .. MaxRoom /\ wbuf > 0
  BY ChannelAssumption DEF Inv, TypeOK, Lesser
<1>2. TypeOK'
  BY <1>1 DEF Inv, TypeOK
<1>3. ShapeInv' /\ SocketInv'
  BY DEF Inv, ShapeInv, SocketInv
<1>4. MaskInv'
  BY <1>1 DEF Inv, MaskInv, InputIsArmed, OutputIsArmed, GoingIsArmed
<1>5. QED
  BY <1>2, <1>3, <1>4 DEF Inv

LEMMA EventWriteInv == Inv /\ EventWrite => Inv'
<1> SUFFICES ASSUME Inv, EventWrite PROVE Inv'
  OBVIOUS
<1>1. alive /\ conn = "SUCC" /\ got' = {} /\ inst \in {"NORMAL", "EXPIRED"}
  BY DeliveredFacts DEF EventWrite
<1>2. CASE Release
  BY <1>1, <1>2, ReleaseStep
<1>3. CASE /\ Done /\ inst # "EXPIRED"
           /\ AllWritten /\ Back /\ UNCHANGED <<conn, polled, kernel>>
  BY <1>1, <1>3, MaskStep DEF Done, AllWritten
<1>4. CASE Back /\ UNCHANGED <<conn, poller, kernel>>
  <2>1. UNCHANGED <<kind, channel, alive, poller, sock, room, input>> /\ at' = "loop"
    BY <1>4 DEF Back, channel, kernel
  <2>2. QED
    BY <1>1, <2>1, BackStep DEF Inv, TypeOK
<1>5. CASE /\ \E n \in 1 .. Lesser(wbuf, room) :
                wbuf' = wbuf - n /\ room' = room - n
           /\ at' = "wrote"
           /\ UNCHANGED <<kind, inst, conn, open, alive, poller, sock, input>>
  BY <1>1, <1>5, WrittenStep
<1>6. QED
  BY <1>2, <1>3, <1>4, <1>5 DEF EventWrite

LEMMA ReturnsInv == Inv /\ (WroteReturns \/ CallbackReturns) => Inv'
<1> SUFFICES ASSUME Inv, WroteReturns \/ CallbackReturns PROVE Inv'
  OBVIOUS
<1>1. got' = got
  BY DEF WroteReturns, CallbackReturns
<1>2. CASE Release
  BY <1>1, <1>2, ReleaseStep
<1>3. CASE /\ Done /\ inst \notin {"DELETE", "EXPIRED"} /\ AllWritten
           /\ Back /\ UNCHANGED <<conn, polled, kernel>>
  <2>1. inst = "NORMAL"
    BY <1>3 DEF Inv, TypeOK
  <2>2. QED
    BY <1>1, <1>3, <2>1, MaskStep DEF Done, AllWritten
<1>4. CASE Back /\ UNCHANGED <<conn, poller, kernel>>
  <2>1. UNCHANGED <<kind, channel, alive, poller, sock, room, input>> /\ at' = "loop"
    BY <1>4 DEF Back, channel, kernel
  <2>2. QED
    BY <1>1, <2>1, BackStep DEF Inv, TypeOK
<1>5. QED
  BY <1>2, <1>3, <1>4 DEF WroteReturns, CallbackReturns, AfterWrite, poller

LEMMA LoopInv == Inv /\ Loop => Inv'
<1> SUFFICES ASSUME Inv, Loop PROVE Inv'
  OBVIOUS
<1>1. CASE EventDropped
  BY <1>1, BackStep DEF EventDropped, Inv, TypeOK, kernel
<1>2. CASE EventDeleted \/ EventError
  BY <1>2, ReleaseStep DEF EventDeleted, EventError, Delivered
<1>3. QED
  BY <1>1, <1>2, WaitInv, EventConnectingInv, ReadExpiredInv, EventReadInv,
     EventWriteInv, ReturnsInv DEF Loop

-----------------------------------------------------------------------------
(* The steps of the application, the kernel and the peer                   *)

LEMMA WriteInv == Inv /\ Write => Inv'
<1> SUFFICES ASSUME Inv, Write PROVE Inv'
  OBVIOUS
<1> USE DEF App, kernel
<1>1. wbuf' \in 0 .. MaxOut
  BY ChannelAssumption DEF Inv, TypeOK, Write
<1>2. mask' \subseteq {"IN", "OUT"} /\ (polled => mask' = mask \cup {"OUT"})
      /\ (~polled => mask' = mask) /\ lost' = lost \ (mask \cup {"OUT"})
  BY DEF Inv, TypeOK, Write, Arm, OrMask, SetMask
<1>3. TypeOK'
  BY <1>1, <1>2 DEF Inv, TypeOK, Write
<1>4. ShapeInv' /\ SocketInv'
  BY <1>2 DEF Inv, ShapeInv, SocketInv, Write
<1>5. MaskInv'
  BY <1>2 DEF Inv, MaskInv, InputIsArmed, OutputIsArmed, GoingIsArmed, Write
<1>6. QED
  BY <1>3, <1>4, <1>5 DEF Inv

LEMMA GoingInv == Inv /\ (AppExpires \/ AppReleases) => Inv'
<1> SUFFICES ASSUME Inv, AppExpires \/ AppReleases PROVE Inv'
  OBVIOUS
<1> USE DEF App, kernel
<1>1. /\ inst' \in {"EXPIRED", "DELETE"}
      /\ at # "new"
      /\ SetMask({"OUT"})
      /\ UNCHANGED <<kind, conn, open, wbuf, alive, at, polled, got, sock, input, room>>
  BY DEF AppExpires, AppReleases, SetExpired, SetRelease
<1>2. TypeOK'
  BY <1>1 DEF Inv, TypeOK, SetMask
<1>3. ShapeInv' /\ SocketInv'
  BY <1>1 DEF Inv, ShapeInv, SocketInv, SetMask
<1>4. MaskInv'
  BY <1>1 DEF SetMask, MaskInv, InputIsArmed, OutputIsArmed, GoingIsArmed
<1>5. QED
  BY <1>2, <1>3, <1>4 DEF Inv

LEMMA ClosedInv == Inv /\ (Close \/ ClearInstance) => Inv'
<1> SUFFICES ASSUME Inv, Close \/ ClearInstance PROVE Inv'
  OBVIOUS
<1>1. /\ conn' = "NONE" /\ SocketClosed /\ at \notin {"new", "wrote"}
      /\ UNCHANGED <<kind, alive, at, got>>
      /\ inst' \in {inst, "NORMAL"} /\ wbuf' \in {wbuf, 0}
  BY DEF Close, ClearInstance, App
<1>2. TypeOK'
  <2>1. kind' \in Kinds /\ wbuf' \in 0 .. MaxOut /\ room' \in 0 .. MaxRoom
    BY <1>1, Bounds DEF Inv, TypeOK, SocketClosed
  <2>2. inst' \in {"NORMAL", "EXPIRED", "DELETE"}
    BY <1>1 DEF Inv, TypeOK
  <2>3. QED
    BY <1>1, <2>1, <2>2 DEF Inv, TypeOK, SocketClosed
<1>3. ShapeInv' /\ SocketInv'
  BY <1>1 DEF Inv, ShapeInv, SocketInv, SocketClosed
<1>4. MaskInv'
  BY <1>1 DEF SocketClosed, MaskInv, InputIsArmed, OutputIsArmed, GoingIsArmed
<1>5. QED
  BY <1>2, <1>3, <1>4 DEF Inv

LEMMA ConnectInv == Inv /\ Connect => Inv'
<1> SUFFICES ASSUME Inv, Connect PROVE Inv'
  OBVIOUS
<1> USE DEF App, poller, kernel
<1>1. /\ ~open /\ ~polled /\ mask = {} /\ conn = "NONE"
      /\ inst = "NORMAL" /\ alive /\ at \notin {"new", "wrote"}
      /\ lost = {} /\ got' \subseteq got
      /\ UNCHANGED <<kind, inst, wbuf, alive, at>>
  BY DEF Inv, ShapeInv, Connect
<1>2. CASE conn' = "NONE" /\ UNCHANGED <<open, poller, kernel>>
  <2>1. TypeOK'
    BY <1>1, <1>2 DEF Inv, TypeOK
  <2>2. ShapeInv' /\ SocketInv' /\ MaskInv'
    BY <1>1, <1>2 DEF Inv, ShapeInv, SocketInv, MaskInv, InputIsArmed,
                      OutputIsArmed, GoingIsArmed
  <2>3. QED
    BY <2>1, <2>2 DEF Inv
<1>3. CASE InProgress
  <2>1. TypeOK'
    BY <1>1, <1>3, Bounds DEF Inv, TypeOK, InProgress, FreshSocket
  <2>2. ShapeInv' /\ SocketInv' /\ MaskInv'
    BY <1>1, <1>3 DEF Inv, ShapeInv, SocketInv, MaskInv, InputIsArmed,
                      OutputIsArmed, GoingIsArmed, InProgress, FreshSocket
  <2>3. QED
    BY <2>1, <2>2 DEF Inv
<1>4. CASE /\ FreshSocket("up") /\ conn' \in {"SUCC", "SSL", "EX", "FAIL"}
           /\ UNCHANGED poller
  <2>1. TypeOK'
    BY <1>1, <1>4, Bounds DEF Inv, TypeOK, FreshSocket
  <2>2. ShapeInv' /\ SocketInv' /\ MaskInv'
    BY <1>1, <1>4 DEF Inv, ShapeInv, SocketInv, MaskInv, InputIsArmed,
                      OutputIsArmed, GoingIsArmed, FreshSocket
  <2>3. QED
    BY <2>1, <2>2 DEF Inv
<1>5. QED
  BY <1>2, <1>3, <1>4 DEF Connect

LEMMA AdoptInv == Inv /\ Adopt => Inv'
<1> SUFFICES ASSUME Inv, Adopt PROVE Inv'
  OBVIOUS
<1> USE DEF channel, kernel
<1>1. TypeOK'
  BY DEF Inv, TypeOK, Adopt
<1>2. ShapeInv' /\ SocketInv'
  BY DEF Inv, ShapeInv, SocketInv, Adopt
<1>3. MaskInv'
  BY DEF Inv, ShapeInv, MaskInv, InputIsArmed, OutputIsArmed, GoingIsArmed, Adopt
<1>4. QED
  BY <1>1, <1>2, <1>3 DEF Inv

LEMMA AcceptInv == Inv /\ Accept => Inv'
<1> SUFFICES ASSUME Inv, Accept PROVE Inv'
  OBVIOUS
<1>1. /\ alive /\ polled /\ open /\ conn = "SUCC" /\ inst = "NORMAL" /\ wbuf = 0
      /\ got = {} /\ got' = got
  BY DEF Inv, ShapeInv, Accept
<1>3. CASE Ssl("loop") \/ BeginEx("loop")
  BY <1>1, <1>3, HandshakeStep
<1>4. CASE conn' = "FAIL" /\ Back /\ UNCHANGED <<poller, kernel>>
  <2> USE DEF Back, poller, kernel
  <2>1. TypeOK'
    BY <1>1, <1>4 DEF Inv, TypeOK
  <2>2. ShapeInv' /\ SocketInv'
    BY <1>1, <1>4 DEF Inv, ShapeInv, SocketInv
  <2>3. MaskInv'
    BY <1>1, <1>4 DEF MaskInv, InputIsArmed, OutputIsArmed, GoingIsArmed
  <2>4. QED
    BY <2>1, <2>2, <2>3 DEF Inv
<1>5. QED
  BY <1>3, <1>4 DEF Accept

LEMMA OutsideInv ==
    Inv /\ (ConnectEnds \/ PeerSends \/ PeerReads \/ ConnectionBreaks) => Inv'
<1> SUFFICES ASSUME Inv, ConnectEnds \/ PeerSends \/ PeerReads \/ ConnectionBreaks
             PROVE  Inv'
  OBVIOUS
<1> USE DEF Peer, channel, poller
<1>1. /\ UNCHANGED <<kind, inst, conn, open, wbuf, alive, at, polled, mask, lost, got>>
      /\ sock' \in {sock, "up", "broken"} /\ (sock = "broken" => sock' = "broken")
      /\ sock # "connecting" \/ input' = input
  BY DEF ConnectEnds, PeerSends, PeerReads, ConnectionBreaks
<1>2. room' \in 0 .. MaxRoom
  BY ChannelAssumption DEF Inv, TypeOK, ConnectEnds, PeerSends, PeerReads, ConnectionBreaks
<1>3. input' \in {"none", "data", "end"}
  BY DEF Inv, TypeOK, ConnectEnds, PeerSends, PeerReads, ConnectionBreaks
<1>4. TypeOK'
  BY <1>1, <1>2, <1>3 DEF Inv, TypeOK
<1>5. ShapeInv' /\ MaskInv'
  BY <1>1 DEF Inv, ShapeInv, MaskInv, InputIsArmed, OutputIsArmed,
              GoingIsArmed
<1>6. SocketInv'
  BY <1>1 DEF Inv, SocketInv
<1>7. QED
  BY <1>4, <1>5, <1>6 DEF Inv

LEMMA NextInv == Inv /\ [Next]_vars => Inv'
<1> SUFFICES ASSUME Inv, [Next]_vars PROVE Inv'
  OBVIOUS
<1>1. CASE Next
  <2>1. AppDestroys => Inv'
    BY ReleaseStep DEF AppDestroys
  <2>2. QED
    BY <1>1, <2>1, LoopInv, WriteInv, GoingInv, ClosedInv, ConnectInv, AdoptInv,
       AcceptInv, OutsideInv DEF Next
<1>2. CASE UNCHANGED vars
  <2> USE <1>2 DEF vars, channel, poller, kernel
  <2>1. TypeOK'
    BY DEF Inv, TypeOK
  <2>2. ShapeInv' /\ SocketInv' /\ MaskInv'
    BY DEF Inv, ShapeInv, SocketInv, MaskInv, InputIsArmed,
           OutputIsArmed, GoingIsArmed
  <2>3. QED
    BY <2>1, <2>2 DEF Inv
<1>3. QED
  BY <1>1, <1>2

LEMMA InvHolds == Spec => []Inv
  BY InitInv, NextInv, PTL DEF Spec

-----------------------------------------------------------------------------
(* Theorems                                                                *)

\* The variables of a channel keep their types.
THEOREM TypeCorrect == Spec => []TypeOK
  BY InvHolds, PTL DEF Inv

\* Input of a connected channel is never ignored, whatever the application
\* does.
THEOREM InputCorrect == Spec => []InputIsArmed
  BY InvHolds, PTL DEF Inv, MaskInv

\* Output is never forgotten, unless it was written before the connection was
\* made.
THEOREM OutputCorrect == Spec => []OutputIsArmed
  BY InvHolds, PTL DEF Inv, MaskInv

\* A channel that is to go waits for the event on which it goes, unless that
\* event was lost when the connection was made.
THEOREM GoingCorrect == Spec => []GoingIsArmed
  BY InvHolds, PTL DEF Inv, MaskInv

\* The poller is asked for everything a channel waits for; POLLOUT is lost
\* only where a connection is made that was used before.
THEOREM ArmedCorrect == Spec => []IsArmed
  BY InputCorrect, OutputCorrect, GoingCorrect, PTL DEF IsArmed

\* An expired channel is destroyed with its output gone, or broken, whatever
\* events are left of an older connection.
THEOREM FlushCorrect == Spec => ExpiredIsFlushed
<1> DEFINE Flushed == alive /\ ~alive' /\ inst = "EXPIRED" /\ conn = "SUCC"
                      => wbuf = 0 \/ sock = "broken"
<1>1. Inv /\ [Next]_vars => [Flushed]_vars
  <2> SUFFICES ASSUME Inv, Next, alive, ~alive', inst = "EXPIRED", conn = "SUCC"
               PROVE  wbuf = 0 \/ sock = "broken"
    BY DEF vars
  <2>1. CASE EventWrite \/ WroteReturns
    BY <2>1 DEF EventWrite, WroteReturns, Done, Back, channel
  <2>2. CASE EventError
    BY <2>2 DEF EventError, Delivered, Inv, SocketInv, ShapeInv
  <2>3. QED
    BY <2>1, <2>2 DEF Next, Loop, Wait, EventDropped, EventDeleted,
       EventConnecting, ReadExpired, EventRead, Reads, CallbackReturns, Write,
       AppExpires, AppReleases, AppDestroys, Close, ClearInstance, Connect, App,
       Adopt, Accept, ConnectEnds, PeerSends, PeerReads, ConnectionBreaks, Peer,
       Delivered, Back, Ssl, BeginEx, Over, GoesOn, Connected
<1>2. QED
  BY <1>1, InvHolds, PTL DEF Spec, ExpiredIsFlushed
=============================================================================
