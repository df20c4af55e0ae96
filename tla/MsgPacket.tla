------------------------------ MODULE MsgPacket ------------------------------
(* pw::MsgPacket (pw_msgpacket.cpp) and the packets of APNS                  *)
(* (pw_apnspacket.cpp): how they are written and read.  A text is a sequence *)
(* of characters.                                                            *)
EXTENDS Integers, Sequences, SequencesExt, FiniteSetsExt

CONSTANTS
    CodeSize,      \* PW_CODE_SIZE
    MAX_BODY_SIZE,
    Short,         \* numbers of 16 bits are counted modulo this
    Byte           \* what a byte of a body is

LOCAL T == INSTANCE Tokenizer WITH CR <- "\r", LF <- "\n", Delimiter <- " ", Letter <- "a"

WordSize == 16     \* tmpstr
CRLF == <<"\r", "\n">>

Digit == [d \in {"0", "1", "2", "3", "4", "7"} |->
            CASE d = "0" -> 0 [] d = "1" -> 1 [] d = "2" -> 2
              [] d = "3" -> 3 [] d = "4" -> 4 [] d = "7" -> 7]
RECURSIVE Unsigned(_, _)
Unsigned(s, n) == IF s = <<>> \/ Head(s) \notin DOMAIN Digit THEN n
                  ELSE Unsigned(Tail(s), n * 10 + Digit[Head(s)])
atoi(s) == IF s # <<>> /\ Head(s) = "-" THEN -Unsigned(Tail(s), 0) ELSE Unsigned(s, 0)
RECURSIVE Decimal(_)
Decimal(n) == IF n < 10 THEN <<(CHOOSE d \in DOMAIN Digit : Digit[d] = n)>>
              ELSE Decimal(n \div 10) \o Decimal(n % 10)

-----------------------------------------------------------------------------
(* Fields                                                                    *)

COMPRESSED == 0
ENCRYPTED == 1
CHUNKED == 2

empty == [code |-> <<>>, trid |-> 0, flags |-> {}, total |-> 0, index |-> 0,
          appendix |-> <<>>, body |-> <<>>]
clear(pk) == empty
setFlag(pk, bit, v) ==
    [pk EXCEPT !.flags = IF v THEN @ \cup {bit} ELSE @ \ {bit}]
isFlagChunked(pk) == CHUNKED \in pk.flags

\* the copy constructor: without the chunk
copy(pk) == [pk EXCEPT !.total = 0, !.index = 0]
setCodeTrid(pk, other) == [pk EXCEPT !.code = other.code, !.trid = other.trid]

\* _str2ulong(): a letter a bit, the first the lowest
str2ulong(s) == {b \in 0 .. 7 : b < Len(s) /\ s[b + 1] # "0"}
\* _uint82str(): the three that have a name
uint82str(flags) == [i \in 1 .. 3 |-> IF i - 1 \in flags THEN "1" ELSE "0"]

-----------------------------------------------------------------------------
(* Reading.  A word: whether it is there, its text and the next position     *)

Word(t, p, size) ==
    LET Read(r) == [ok |-> r.ok, text |-> IF r.ok THEN T!Text(t, r.span) ELSE <<>>,
                    pos |-> r.pos]
    IN Read(T!getNext(t, p, FALSE, " ", size))

\* words of these sizes, one behind the other
Words(t, p, sizes) ==
    FoldLeft(LAMBDA w, size : Append(w, Word(t, IF w = <<>> THEN p ELSE Last(w).pos, size)),
             <<>>, sizes)

\* the chunk: total and index, unless the index of some is 0
Chunk(t, p) ==
    LET Numbers(w, total, index) ==
            [ok |-> w[1].ok /\ w[2].ok /\ ~(total > 0 /\ index = 0),
             total |-> total, index |-> index, pos |-> w[2].pos]
        Read(w) == Numbers(w, atoi(w[1].text) % Short, atoi(w[2].text) % Short)
    IN Read(Words(t, p, <<WordSize, WordSize>>))
NoChunk(p) == [ok |-> TRUE, total |-> 0, index |-> 0, pos |-> p]

\* setHeader(): a set of one packet, or of none, which leaves the old one.
\* The body has its size, and the bytes that were there before.
setHeader(t) ==
    LET Packet(w, chunk) ==
            [code |-> w[1].text, trid |-> atoi(w[2].text) % Short,
             flags |-> str2ulong(w[3].text), total |-> chunk.total,
             index |-> chunk.index, appendix |-> SubSeq(t, chunk.pos, Len(t)),
             body |-> [i \in 1 .. atoi(w[4].text) |-> Byte]]
        Checked(w, chunk) ==
            IF /\ \A i \in 1 .. 4 : w[i].ok
               /\ atoi(w[4].text) <= MAX_BODY_SIZE
               /\ chunk.ok
            THEN {Packet(w, chunk)} ELSE {}
        Read(w) == Checked(w, IF CHUNKED \in str2ulong(w[3].text) THEN Chunk(t, w[4].pos)
                              ELSE NoChunk(w[4].pos))
    IN Read(Words(t, T!Begin, <<CodeSize + 1, WordSize, WordSize, WordSize>>))

-----------------------------------------------------------------------------
(* Writing                                                                   *)

Header(pk) ==
    pk.code \o <<" ">> \o Decimal(pk.trid) \o <<" ">> \o uint82str(pk.flags)
        \o <<" ">> \o Decimal(Len(pk.body))
        \o (IF isFlagChunked(pk)
            THEN <<" ">> \o Decimal(pk.total) \o <<" ">> \o Decimal(pk.index) ELSE <<>>)
        \o (IF pk.appendix # <<>> THEN <<" ">> \o pk.appendix ELSE <<>>)

\* the three write()
write(pk) == Header(pk) \o CRLF \o pk.body

\* getPacketSize(), which write() to a buffer aborts on if it is wrong
getPacketSize(pk) ==
    Len(pk.code) + 1 + Len(Decimal(pk.trid)) + 1 + 3 + 1 + Len(Decimal(Len(pk.body))) + 2
        + (IF isFlagChunked(pk)
           THEN 2 + Len(Decimal(pk.total)) + Len(Decimal(pk.index)) ELSE 0)
        + (IF pk.appendix # <<>> THEN Len(pk.appendix) + 1 ELSE 0)
        + Len(pk.body)

\* MsgChannel::getPacketSync(): the line, and as many bytes as it tells
getPacketSync(wire) ==
    LET Read(eol) == IF eol > Len(wire) THEN {} ELSE setHeader(SubSeq(wire, 1, eol - 1))
        UpTo(pk, eol) == eol + 1 + Len(pk.body)
        With(eol) ==
            {[pk |-> [pk EXCEPT !.body = SubSeq(wire, eol + 2, UpTo(pk, eol))],
              rest |-> SubSeq(wire, UpTo(pk, eol) + 1, Len(wire))]
               : pk \in {q \in Read(eol) : UpTo(q, eol) <= Len(wire)}}
    IN With(T!FindLine(wire, 1, T!NoLimit))

-----------------------------------------------------------------------------
(* APNS: a list of items, each an id and a body; sizes are bytes, a number   *)
(* of 16 bits is one cell here                                               *)

apnsClear == [cmd |-> 2, items |-> <<>>]
ItemHeader == 2       \* cells of an id and a size
apnsSize(pk) == 2 + FoldLeft(LAMBDA n, i : n + ItemHeader + Len(i.body), 0, pk.items)

\* _write(): an item's size is cut to 16 bits, and so is what is copied; the
\* packet keeps its size, and its end is what the buffer held
apnsWrite(pk) ==
    LET cut(body) == SubSeq(body, 1, Len(body) % Short)
        item(i) == <<i.id, Len(i.body) % Short>> \o cut(i.body)
        all == <<pk.cmd, apnsSize(pk) - 2>>
                   \o FlattenSeq([i \in DOMAIN pk.items |-> item(pk.items[i])])
    IN all \o [i \in 1 .. apnsSize(pk) - Len(all) |-> "unset"]
apnsResponse(status, id) == <<8, status>> \o id
apnsResponseCleared == apnsResponse(0, <<0, 0, 0, 0>>)

\* what APNS takes from it
RECURSIVE ItemsOf(_)
ItemsOf(s) == IF s = <<>> THEN <<>>
              ELSE <<[id |-> s[1], body |-> SubSeq(s, 3, 2 + s[2])]>>
                       \o ItemsOf(SubSeq(s, 3 + s[2], Len(s)))

-----------------------------------------------------------------------------
(* What a channel relies on                                                  *)

Join(words) == FlattenSeq([i \in DOMAIN words |->
                   words[i] \o (IF i < Len(words) THEN <<" ">> ELSE <<>>)])

\* A header that is read is written in as many bytes as getPacketSize() tells,
\* and the next one to read it, with the bytes of another packet behind it,
\* gets the same packet, but for flags that have no name, and not a byte more.
\* It is refused only for a body that is too big, a word too few or too long,
\* and a chunk without its number.
HeadersReadBack(words) ==
    \A read \in {setHeader(Join(words))} :
    LET named(pk) == [pk EXCEPT !.flags = @ \cap {COMPRESSED, ENCRYPTED, CHUNKED}]
        behind == <<"a">> \o CRLF
        n == IF words # <<>> /\ Last(words) = <<>> THEN Len(words) - 1 ELSE Len(words)
    IN /\ \A pk \in read :
            /\ Len(write(pk)) = getPacketSize(pk)
            /\ getPacketSync(write(pk) \o behind) = {[pk |-> named(pk), rest |-> behind]}
            /\ \A i \in 1 .. Len(pk.body) :
                 getPacketSync(SubSeq(write(pk), 1, Len(write(pk)) - i)) = {}
            /\ getPacketSync(write(copy(pk))) # {}
            \* an answer takes the question's code and number, whatever it was
            /\ \A answer \in {setCodeTrid(setFlag(clear(pk), CHUNKED, FALSE), pk)} :
                 getPacketSync(write(answer)) = {[pk |-> answer, rest |-> <<>>]}
       /\ read = {} <=>
            \/ n < 4 \/ Len(words[1]) > CodeSize
            \/ atoi(words[4]) > MAX_BODY_SIZE
            \/ /\ CHUNKED \in str2ulong(words[3])
               /\ \/ n < 6
                  \/ atoi(words[5]) % Short > 0 /\ atoi(words[6]) % Short = 0

\* A push of items that fit 16 bits arrives as it is.
ItemsArrive(bodies) ==
    LET pk == [apnsClear EXCEPT !.items = [i \in DOMAIN bodies |->
                   [id |-> i, body |-> bodies[i]]]]
        sent == apnsWrite(pk)
    IN (\A i \in DOMAIN bodies : Len(bodies[i]) < Short) =>
            /\ Len(sent) = sent[2] + 2
            /\ ItemsOf(SubSeq(sent, 3, Len(sent))) = pk.items
=============================================================================
