------------------------------ MODULE HttpChannel ------------------------------
(***************************************************************************)
(* A channel of src/pw/pw_httpchannel.{h,cpp}: the reader of HTTP messages *)
(* that the server's and the client's channel share, on top of IoBuffer,   *)
(* whose buf is m_rbuf, and the client's query: connect, send, be          *)
(* answered, give up.  A query reports to a job ("job"), or is waited for by s_query()    *)
(* with async off, which turns a poller of its own ("sync").               *)
(*                                                                         *)
(* A text is a sequence of symbols: "nl" is CR LF, the others stand for    *)
(* what a line is recognised by (a method, a response code, the header     *)
(* Content-Length with its value, another header, anything else).  In a    *)
(* body each is one byte.                                                  *)
(***************************************************************************)
EXTENDS IoBuffer, FiniteSetsExt

CONSTANTS
    Roles,     \* the kinds of channel: "server", "job", "sync"
    MaxLine,   \* MAX_FIRST_LINE_SIZE, MAX_HEADER_LINE_SIZE
    MaxBody,   \* MAX_BODY_SIZE
    Requests,  \* the texts that a peer of a server may send
    Responses, \* those that a peer of a client may send
    MaxTexts   \* bound: how many of them it sends, for each role

LengthOf == [len0 |-> 0, len2 |-> 2, len3 |-> 3]
Lengths == DOMAIN LengthOf
Symbol == {"nl", "get", "post", "resp", "hdr", "x"} \cup Lengths
Unknown == -1  \* size_t(-1): the length of the body is not given

ASSUME HttpChannelAssumption ==
    /\ Roles \subseteq {"server", "job", "sync"}
    /\ MaxLine \in Nat /\ MaxBody \in Nat
    /\ Byte = Symbol
    /\ Requests \subseteq Seq(Symbol) /\ Responses \subseteq Seq(Symbol)

VARIABLES
    role,         \* what the channel is
    conn, inst,   \* connection: connecting, up, freed; m_inst_state
    out,          \* m_wbuf or m_query holds something to send
    pc,           \* in poll(), or in the loop of eventReadData()
    st, dest, pk, \* m_recv_state, m_dest_bodylen, the packet being read
    wire, closed, \* what is on its way, and whether the peer has closed
    call, late,   \* the caller: where _s_querySync() is, or whether the application has
                  \* cancelled; and whether the time of the query is over
    sent, texts,  \* history: all the peer sent
    told,         \* history: the packets and errors handed on (an error to a job
                  \* or a server's application, to nobody in s_query()), and the
                  \* end of what was read by then
    long          \* history: a line was found too long

httpVars == <<role, conn, inst, out, pc, st, dest, pk, buf, wire, closed, call,
              late, sent, texts, told, long>>
peer == <<wire, closed, sent, texts>>
reader == <<st, dest, pk, buf, long>>

Cleared == [first |-> "", headers |-> <<>>, body |-> <<>>]
Error == [Cleared EXCEPT !.first = "error"]
IsClient == role # "server"
\* of what was sent: the symbols that have come, and those of them that are read
Come == Len(sent) - Len(wire)
Used == Come - Readable(buf)

HttpInit ==
    /\ role \in Roles
    /\ conn = (IF role = "server" THEN "up" ELSE "connecting")
    /\ inst = "normal" /\ out = IsClient /\ pc = "poll"
    /\ st = "start" /\ dest = 0 /\ pk = Cleared
    /\ BufferInit
    /\ wire = <<>> /\ closed = FALSE /\ sent = <<>> /\ texts = 0
    /\ call = (IF role = "sync" THEN "wait" ELSE "none") /\ late = FALSE
    /\ told = <<>> /\ long = FALSE

-----------------------------------------------------------------------------
(* The peer and the clock                                                   *)

Texts == IF IsClient THEN Responses ELSE Requests

\* The text is read in any pieces, so that nothing is lost when the peer sends
\* only before all that it sent is read, or after.
PeerSends ==
    /\ conn = "up" /\ inst = "normal" /\ pc = "poll" /\ ~closed /\ texts < MaxTexts[role]
    /\ wire \in {<<>>, sent}
    /\ \E text \in Texts : wire' = wire \o text /\ sent' = sent \o text
    /\ texts' = texts + 1
    /\ UNCHANGED <<conn, inst, out, pc, closed, call, told, reader, late, role>>

\* all that it sent may still come, or what was not read may be lost
PeerCloses ==
    /\ conn = "up" /\ ~closed /\ pc = "poll" /\ closed' = TRUE
    /\ \/ UNCHANGED <<wire, sent>>
       \/ wire' = <<>> /\ sent' = SubSeq(sent, 1, Come)
    /\ UNCHANGED <<conn, inst, out, pc, texts, call, told, reader, late, role>>

TimePasses ==
    /\ call = "wait" /\ ~late /\ late' = TRUE
    /\ UNCHANGED <<conn, inst, out, pc, call, told, reader, peer, role>>

-----------------------------------------------------------------------------
(* Ends: expiry, release, errors                                            *)

Expired(i) == IF i = "normal" THEN "expired" ELSE i

\* mutant: the client's channel is kept
AfterPacket_Kept(i) == {i}

\* setExpired() in HttpClientChannel::hookReadPacket(); a server's application
\* may say the same with isKeepAlive(), or release the channel
AfterPacket(i) ==
    IF IsClient THEN {Expired(i)}
    ELSE {i, Expired(i), "delete"}

\* eventIo() returns: a channel that is to be deleted is
EndOfEvent(i) ==
    /\ inst' = i
    /\ conn' = IF i = "delete" THEN "freed" ELSE conn
    /\ pc' = "poll"

Told(packet) == told' = Append(told, [packet |-> packet, end |-> Used])

\* an event of this channel, which _s_querySync() waits for
InEvent ==
    /\ conn # "freed" /\ pc = "poll"
    /\ call \in {"none", "cancelled", "wait"}
    /\ call' = IF call = "wait" THEN "check" ELSE call

\* eventError(): the packet that the close of the peer ends, or the error, which
\* a job is told of; then setRelease()
ToldOfClose == IF st = "body" /\ dest = Unknown THEN pk ELSE Error

\* eventConnecting()
Connected ==
    /\ InEvent /\ conn = "connecting" /\ conn' = "up"
    /\ UNCHANGED <<inst, out, pc, told, reader, peer, late, role>>

ConnectFails ==
    /\ InEvent /\ conn = "connecting"
    /\ Told(Error)
    /\ st' = "start"
    /\ EndOfEvent("delete")
    /\ UNCHANGED <<out, dest, pk, buf, long, peer, late, role>>

\* eventRead() finds the connection closed
ReadClose ==
    /\ InEvent /\ conn = "up" /\ inst = "normal" /\ closed /\ wire = <<>>
    /\ Told(ToldOfClose)
    /\ st' = "start"
    /\ EndOfEvent("delete")
    /\ UNCHANGED <<out, dest, pk, buf, long, peer, late, role>>

\* the connection breaks, found by read(), by write() or as POLLERR alone
Breaks ==
    /\ InEvent /\ conn = "up" /\ (inst = "expired" => out)
    /\ Told(Error)
    /\ st' = IF IsClient THEN "start" ELSE st
    /\ EndOfEvent("delete")
    /\ UNCHANGED <<out, dest, pk, buf, long, peer, late, role>>

\* mutant: nothing is released
AfterWrite_Stays(i) == i

\* with the buffer empty an expired channel goes
AfterWrite(i) == IF i = "expired" THEN "delete" ELSE i

\* eventWrite() until the buffer is empty
Write ==
    /\ InEvent /\ conn = "up"
    /\ out \/ inst = "expired"
    /\ out' = FALSE
    /\ EndOfEvent(AfterWrite(inst))
    /\ UNCHANGED <<told, reader, peer, late, role>>

-----------------------------------------------------------------------------
(* eventReadData()                                                         *)

Text == Content(buf)
Eol(text) ==
    LET ends == {i \in DOMAIN text : text[i] = "nl"} IN IF ends = {} THEN 0 ELSE Min(ends)
Line == SubSeq(Text, 1, Eol(Text) - 1)

\* readFromFile(): what has come, as far as it fits
EventRead ==
    /\ InEvent /\ conn = "up" /\ inst = "normal" /\ wire # <<>>
    /\ \E b \in ReadBlock(buf) : \E k \in 1..Len(wire) :
        /\ k <= Writeable(b)
        /\ buf' = Stored(b, SubSeq(wire, 1, k))
        /\ wire' = SubSeq(wire, k + 1, Len(wire))
    /\ pc' = "read"
    /\ UNCHANGED <<conn, inst, out, st, dest, pk, long, closed, sent, texts, told, late, role>>

\* a pass of the loop: the channel goes on reading, whatever its state
Pass(next) ==
    /\ pc = "read" /\ st' = next
    /\ UNCHANGED <<out, call, peer, late, role>>
Goes == UNCHANGED <<conn, inst, pc>>

\* the return for want of bytes
Waits(state) == st = state /\ EndOfEvent(inst) /\ Pass(state)

Start ==
    /\ st = "start" /\ Pass("first") /\ Goes
    /\ pk' = Cleared /\ dest' = Unknown
    /\ UNCHANGED <<buf, told, long>>

Fits(text) == Len(text) <= MaxLine

FirstLineWaits ==
    /\ Eol(Text) = 0 /\ Fits(Text) /\ Waits("first")
    /\ UNCHANGED <<dest, pk, buf, told, long>>

FirstLineTooLong ==
    /\ st = "first" /\ Eol(Text) = 0 /\ ~Fits(Text) /\ Pass("error") /\ Goes
    /\ long' = TRUE
    /\ UNCHANGED <<dest, pk, buf, told>>

\* setFirstLine() of the packet
FirstWords == IF IsClient THEN {"resp"} ELSE {"get", "post"}
IsFirstLine(line) == line # <<>> /\ Head(line) \in FirstWords

ReadFirstLine ==
    /\ st = "first" /\ Eol(Text) > 0 /\ Goes
    /\ buf' = Taken(buf, Eol(Text))
    /\ IF IsFirstLine(Line)
       THEN Pass("header") /\ pk' = [pk EXCEPT !.first = Head(Line)]
       ELSE Pass("error") /\ pk' = pk
    /\ UNCHANGED <<dest, told, long>>

\* the key and the value of a header are parted by a colon
Colons == Lengths \cup {"hdr"}
HasColon(line) == \E i \in DOMAIN line : line[i] \in Colons
IsLength(line) == Head(line) \in Lengths

HeaderWaits ==
    /\ Eol(Text) = 0 /\ Fits(Text) /\ Waits("header")
    /\ UNCHANGED <<dest, pk, buf, told, long>>

Header ==
    /\ st = "header" /\ Fits(Text) /\ Eol(Text) > 1 /\ Goes
    /\ buf' = Taken(buf, Eol(Text))
    /\ IF HasColon(Line)
       THEN /\ Pass("header")
            /\ dest' = IF IsLength(Line) THEN LengthOf[Head(Line)] ELSE dest
            /\ pk' = IF IsLength(Line) THEN pk
                     ELSE [pk EXCEPT !.headers = Append(@, Line)]
       ELSE Pass("error") /\ UNCHANGED <<dest, pk>>
    /\ UNCHANGED <<told, long>>

\* a body of unknown length, which the close of the peer ends
UntilClose(first) == IsClient \/ first = "post"
HasBody == dest # Unknown \/ UntilClose(pk.first)

\* what follows the header
AfterHeader ==
    IF ~HasBody \/ dest = 0 THEN "done"
    ELSE IF dest > MaxBody THEN "error" ELSE "body"

\* the loop ends at an empty line, and with more than MaxLine bytes readable,
\* where the state ERROR is set and at once replaced
HeaderEnds ==
    /\ st = "header" /\ (~Fits(Text) \/ Eol(Text) = 1)
    /\ Pass(AfterHeader) /\ Goes
    /\ dest' = IF HasBody THEN dest ELSE 0
    /\ buf' = IF Fits(Text) THEN Taken(buf, 1) ELSE buf
    /\ long' = (long \/ ~Fits(Text))
    /\ UNCHANGED <<pk, told>>

\* mutant: all that was read is taken for the body
Missing_All == Len(Text)
\* m_dest_bodylen - m_recv_bodylen, which for an unknown length is beyond all
Missing == IF dest = Unknown THEN Len(Text)
           ELSE Least(Len(Text), dest - Len(pk.body))

Body ==
    /\ st = "body" /\ pc = "read"
    /\ pk' = [pk EXCEPT !.body = @ \o SubSeq(Text, 1, Missing)]
    /\ buf' = Taken(buf, Missing)
    /\ IF Len(pk'.body) = dest THEN Pass("done") /\ Goes
       ELSE Pass("body") /\ EndOfEvent(inst)
    /\ UNCHANGED <<dest, told, long>>

\* hookReadPacket(), and setExpired() without isKeepAlive()
Done ==
    /\ st = "done" /\ Pass("start")
    /\ Told(pk)
    /\ inst' \in AfterPacket(inst)
    /\ UNCHANGED <<conn, pc, dest, pk, buf, long>>

BadPacket ==
    /\ st = "error" /\ Pass("start")
    /\ Told(Error)
    /\ EndOfEvent("delete")
    /\ UNCHANGED <<dest, pk, buf, long>>

ReadData ==
    \/ Start \/ FirstLineWaits \/ FirstLineTooLong \/ ReadFirstLine
    \/ HeaderWaits \/ Header \/ HeaderEnds \/ Body \/ Done \/ BadPacket

-----------------------------------------------------------------------------
(* Giving up: cancelQuery(), _s_querySync()                                 *)

\* a connected channel expires, another is deleted at once
CancelQuery ==
    IF conn = "up" THEN inst' = Expired(inst) /\ conn' = conn
    ELSE inst' = inst /\ conn' = "freed"

\* The application that holds out.ch, which it may not use any more after that.
AppCancels ==
    /\ role = "job" /\ conn # "freed" /\ pc = "poll" /\ call = "none"
    /\ CancelQuery
    /\ call' = "cancelled"
    /\ UNCHANGED <<out, pc, told, reader, peer, late, role>>

\* The time is up: pch->cancelQuery(), and at ERROR_PROC delete pch.  A connected
\* channel expires and is deleted.  Of one that is not connected, the first deletes
\* the object and the second deletes it again; one that has gone by itself in the
\* last dispatch() is used after that.  What such a call does, and whether it
\* returns, is undefined.
TimedOut ==
    /\ call = "check" /\ pc = "poll" /\ late
    /\ conn' = "freed"
    /\ call' = IF conn = "up" THEN "timeout" ELSE "undefined"
    /\ UNCHANGED <<inst, out, pc, told, reader, peer, late, role>>

\* s_getChannel() says whether the channel is there
GoesOn ==
    /\ call = "check" /\ pc = "poll" /\ ~late
    /\ call' = IF conn = "freed" THEN "answered" ELSE "wait"
    /\ UNCHANGED <<conn, inst, out, pc, told, reader, peer, late, role>>

\* dispatch() returns without an event when its time is over
NoEvent ==
    /\ call = "wait" /\ late /\ pc = "poll" /\ call' = "check"
    /\ UNCHANGED <<conn, inst, out, pc, told, reader, peer, late, role>>

Stopped == conn = "freed" /\ call \notin {"wait", "check"} /\ UNCHANGED httpVars

Turn ==
    \/ Connected \/ ConnectFails \/ ReadClose \/ Breaks \/ Write \/ EventRead
    \/ ReadData \/ TimedOut \/ GoesOn \/ NoEvent

HttpNext == PeerSends \/ PeerCloses \/ TimePasses \/ AppCancels \/ Turn \/ Stopped

HttpSpec ==
    HttpInit /\ [][HttpNext]_httpVars /\ WF_httpVars(Turn) /\ WF_httpVars(TimePasses)

-----------------------------------------------------------------------------
(* The messages of a text s, by positions.  A message begins behind p, its  *)
(* first line ends at e and its head at h: at the first empty line.         *)

FirstLineEnds(s, p, e) == s[e] = "nl" /\ \A i \in p + 1..e - 1 : s[i] # "nl"
IsEmptyLine(s, i) == s[i] = "nl" /\ s[i - 1] = "nl"
NoEmptyLine(s, e, h) == \A i \in e + 1..h : ~IsEmptyLine(s, i)
HeadEnds(s, e, h) == e < h /\ IsEmptyLine(s, h) /\ NoEmptyLine(s, e, h - 1)

\* where the lines of the head begin
Begins(s, e, h) == {i \in e + 1..h : s[i - 1] = "nl" /\ s[i] # "nl"}
LengthLines(s, e, h) == {i \in Begins(s, e, h) : s[i] \in Lengths}
OtherLines(s, e, h) == Begins(s, e, h) \ LengthLines(s, e, h)

LineParted(s, i, h) == \E j \in i..h : s[j] \in Colons /\ \A k \in i..j : s[k] # "nl"
LineIs(s, i, h, line) ==
    /\ i + Len(line) <= h /\ s[i + Len(line)] = "nl"
    /\ \A j \in DOMAIN line : line[j] = s[i + j - 1] /\ line[j] # "nl"

\* the head, as far as h, is a good one
GoodHead(s, p, e, h) ==
    /\ p + 1 < e /\ e <= h /\ FirstLineEnds(s, p, e) /\ s[p + 1] \in FirstWords
    /\ \A i \in Begins(s, e, h) : LineParted(s, i, h)

\* the last of its lengths counts
LengthIs(s, e, h, n) ==
    \/ n = Unknown /\ LengthLines(s, e, h) = {}
    \/ \E i \in LengthLines(s, e, h) :
           n = LengthOf[s[i]] /\ \A j \in LengthLines(s, e, h) : j <= i

\* all its other lines, in order, are the headers
HeadersAre(s, e, h, headers) ==
    \E at \in [DOMAIN headers -> OtherLines(s, e, h)] :
        /\ \A i, j \in DOMAIN headers : i < j => at[i] < at[j]
        /\ \A i \in OtherLines(s, e, h) : \E j \in DOMAIN headers : at[j] = i
        /\ \A i \in DOMAIN headers : LineIs(s, at[i], h, headers[i])

BodyIs(s, h, q, body) == Len(body) = q - h /\ \A i \in DOMAIN body : body[i] = s[h + i]
PacketIs(s, p, e, h, q, m) ==
    m.first = s[p + 1] /\ HeadersAre(s, e, h, m.headers) /\ BodyIs(s, h, q, m.body)

HeadIs(s, p, e, h, n) == GoodHead(s, p, e, h) /\ HeadEnds(s, e, h) /\ LengthIs(s, e, h, n)
BodyEnds(s, p, h, n, q) ==
    IF n = Unknown THEN ~UntilClose(s[p + 1]) /\ q = h ELSE n <= MaxBody /\ q = h + n

BodyLengths == {Unknown} \cup {LengthOf[x] : x \in Lengths}

\* from p to q there is one message, and its packet is m
IsMessage(s, p, q) ==
    \E e, h \in p + 1..q, n \in BodyLengths : HeadIs(s, p, e, h, n) /\ BodyEnds(s, p, h, n, q)
MessageIs(s, p, q, m) ==
    \E e, h \in p + 1..q, n \in BodyLengths :
        HeadIs(s, p, e, h, n) /\ BodyEnds(s, p, h, n, q) /\ PacketIs(s, p, e, h, q, m)

\* the message behind p ends with the text, at q
LastMessageIs(s, p, q, m) ==
    \E e, h \in p + 1..q :
        HeadIs(s, p, e, h, Unknown) /\ UntilClose(s[p + 1]) /\ PacketIs(s, p, e, h, q, m)

\* what is there behind p, up to q, is no message, whatever comes: its first line,
\* a line of the head or the length of the body is wrong
IsBad(s, p, q) ==
    \E e \in p + 1..q :
        /\ FirstLineEnds(s, p, e)
        /\ \/ e = p + 1 \/ s[p + 1] \notin FirstWords
           \/ \E h \in e + 1..q, i \in Begins(s, e, q) :
                  NoEmptyLine(s, e, h) /\ s[h] = "nl" /\ i < h /\ ~LineParted(s, i, h)
           \/ \E h \in e + 1..q, n \in BodyLengths :
                  HeadEnds(s, e, h) /\ LengthIs(s, e, h, n) /\ n > MaxBody

-----------------------------------------------------------------------------
(* Properties                                                              *)

Packet ==
    [first : Symbol \cup {"", "error"}, headers : Seq(Seq(Symbol)), body : Seq(Symbol)]

\* with BufferTypeOK for the buffer
HttpTypeOK ==
    /\ role \in Roles
    /\ conn \in {"connecting", "up", "freed"} /\ inst \in {"normal", "expired", "delete"}
    /\ out \in BOOLEAN /\ pc \in {"poll", "read"}
    /\ st \in {"start", "first", "header", "body", "done", "error"}
    /\ dest \in BodyLengths
    /\ wire \in Seq(Symbol) /\ sent \in Seq(Symbol) /\ texts \in Nat
    /\ call \in {"none", "cancelled", "wait", "check", "answered", "timeout", "undefined"}
    /\ late \in BOOLEAN /\ closed \in BOOLEAN /\ long \in BOOLEAN
    /\ pk \in Packet /\ told \in Seq([packet : Packet, end : Nat])

\* where the next message to be handed on begins, when i were
Begin(i) == IF i = 0 THEN 0 ELSE told[i].end

\* However the bytes come in, the packets handed on are the messages of the text,
\* in order, each whole and none left out; an error comes last, or a packet that
\* the close of the peer ends.  The state ERROR is only for a text that is wrong,
\* and the reader never waits with a message, or what cannot be one, before it.
\* With a line that is too long (or a head read in one piece with more than
\* MAX_HEADER_LINE_SIZE bytes) nothing is promised.
ReadsWhatWasSent ==
    LET next == Begin(Len(told)) IN
    ~long =>
        /\ \A i \in DOMAIN told :
               LET m == told[i].packet IN
               \/ MessageIs(sent, Begin(i - 1), told[i].end, m)
               \/ /\ i = Len(told) /\ conn = "freed"
                  /\ m = Error \/ (closed /\ LastMessageIs(sent, Begin(i - 1), Len(sent), m))
        /\ st = "error" => IsBad(sent, next, Come)
        /\ pc = "poll" /\ conn = "up" /\ inst = "normal" =>
               ~IsBad(sent, next, Come) /\ \A q \in next + 1..Come : ~IsMessage(sent, next, q)

\* A job whose channel has gone was told of a packet or of an error, unless the
\* application cancelled the query.
IsAnswered == role = "job" /\ conn = "freed" => told # <<>> \/ call = "cancelled"

\* After its first packet or error a client reads no more from the connection.  What
\* it still hands on is made of bytes that came with the first, in the loop that
\* read them; or it is the error of a connection that broke while the query was not
\* all written, with which the channel goes.
OnlyWhatCameWithIt ==
    IsClient /\ told # <<>> =>
        /\ Come' = Come
        /\ told' # told => pc = "read" \/ (out /\ conn' = "freed")

\* A query with a job is answered before its channel is gone, unless it is cancelled,
\* and never by what came after its answer (hookReadPacket(), eventError()).
AnsweredOnce == []IsAnswered /\ [][OnlyWhatCameWithIt]_httpVars

\* An expired channel only waits for POLLOUT (pw_channel_if.h:74): it hands on no
\* packet and no error in the loop of eventReadData().  The code goes on with that
\* loop, and with each message that is in the buffer.
ExpiredReadsNothing == [][inst = "expired" /\ pc = "read" => told' = told]_httpVars

\* A channel is not used after cancelQuery() (pw_httpchannel.h:152), nor after it has
\* gone.  _s_querySync() does both.
NotUsedAfterCancel == call # "undefined"

\* A channel whose peer has closed goes; and s_query() returns, but for the calls
\* that use a channel which has gone.
QueryEnds ==
    /\ closed ~> conn = "freed"
    /\ call = "wait" ~> call \in {"answered", "timeout", "undefined"}
=============================================================================
