------------------------------- MODULE IoBuffer -------------------------------
(***************************************************************************)
(* pw::IoBuffer (src/pw/pw_iobuffer.{h,cpp}): a block of memory of m_size  *)
(* bytes in which [m_posRead, m_posWrite) is what was written and not yet  *)
(* read.  Reading moves m_posRead up, flush() moves the readable bytes     *)
(* down, increase() and decrease() reallocate the block, which may move,   *)
(* stay or fail.  Pointers are offsets into the block.                     *)
(*                                                                         *)
(* IoBufferSsl is the same buffer over Ssl::read() and write().  A byte    *)
(* that is not readable is Junk: nobody looks at it again.                 *)
(***************************************************************************)
EXTENDS Integers, Sequences

CONSTANTS
    Byte,
    Junk,
    InitSize,  \* m_init
    Delta,     \* m_delta
    MaxSize,   \* the size from which realloc() fails
    MaxWrite   \* bound: the bytes of one write

ASSUME IoBufferAssumption ==
    /\ Junk \notin Byte
    /\ InitSize \in Nat \ {0} /\ Delta \in Nat \ {0}
    /\ MaxSize \in Nat /\ InitSize <= MaxSize
    /\ MaxWrite \in Nat

VARIABLE buf  \* the block and its positions

Offsets == 0..MaxSize - 1
Pieces(n) == UNION {[1..k -> Byte] : k \in 0..n}

BufferInit ==
    buf = [mem |-> [i \in Offsets |-> Junk], posRead |-> 0, posWrite |-> 0,
           size |-> InitSize]

Readable(b) == b.posWrite - b.posRead

\* a size_t: it wraps when m_posWrite is past the end
Wrapped == MaxSize + MaxWrite + 1
Writeable(b) == IF b.posWrite <= b.size THEN b.size - b.posWrite ELSE Wrapped

IsFlush(b) == b.posRead >= b.size \div 2

\* the bytes that were written and not yet read
Content(b) == [i \in 1..Readable(b) |-> b.mem[b.posRead + i - 1]]

Least(m, n) == IF m < n THEN m ELSE n

-----------------------------------------------------------------------------
(* The helpers: flush(), increase(), decrease(), grabWrite()                *)

\* mutant: one byte less is moved
MovedDown_Short(b) ==
    [i \in Offsets |-> IF i < Readable(b) - 1 THEN b.mem[b.posRead + i] ELSE Junk]

\* memmove() to the beginning of the block
MovedDown(b) ==
    [i \in Offsets |-> IF i < Readable(b) THEN b.mem[b.posRead + i] ELSE Junk]

Flush(b) ==
    IF b.posRead = 0 THEN b
    ELSE [b EXCEPT !.mem = MovedDown(b), !.posRead = 0, !.posWrite = Readable(b)]

\* mutant: never
AutoFlush_Never(b) == b

AutoFlush(b) == IF IsFlush(b) THEN Flush(b) ELSE b

\* increase() and decrease() flush when there is something to keep
Compacted(b) == IF Readable(b) > 0 THEN Flush(b) ELSE b

\* with a new block the bytes are taken from its beginning, whatever m_posRead was
NewBlock(b, size) ==
    [b EXCEPT !.size = size, !.posRead = 0, !.posWrite = Readable(b)]

Resized(b, size) ==
    LET c == Compacted(b) IN
    IF size > MaxSize THEN {c}  \* not enough memory
    ELSE {[c EXCEPT !.size = size], NewBlock(c, size)}

Increase(b, delta) == Resized(b, b.size + delta)

\* the room that grabWrite(blob, blen) asks for
Room(b, blen) == b.size + ((blen - Writeable(b)) \div Delta + 1) * Delta

GrabWrite(b, blen) ==
    LET c == AutoFlush(b) IN
    IF Writeable(c) >= blen THEN {c} ELSE Resized(c, Room(c, blen))

Stored(b, s) ==
    [b EXCEPT !.mem = [i \in Offsets |->
                          IF i >= b.posWrite /\ i < b.posWrite + Len(s)
                          THEN s[i - b.posWrite + 1] ELSE b.mem[i]],
              !.posWrite = b.posWrite + Len(s)]

Taken(b, n) ==
    [b EXCEPT !.mem = [i \in Offsets |-> IF i < b.posRead + n THEN Junk ELSE b.mem[i]],
              !.posRead = b.posRead + n]

-----------------------------------------------------------------------------
(* The operations                                                           *)

\* writeToBuffer(): what finds room is written
WriteToBuffer ==
    \E s \in Pieces(MaxWrite) : \E b \in GrabWrite(buf, Len(s)) :
        buf' = Stored(b, SubSeq(s, 1, Least(Len(s), Writeable(b))))

\* grabWrite(blob, pklen + 1) and moveWrite(pklen), as the packets do: a packet
\* is written as a whole or not at all
WritePacket ==
    \E s \in Pieces(MaxWrite) : \E b \in GrabWrite(buf, Len(s) + 1) :
        buf' = IF Writeable(b) >= Len(s) + 1 THEN Stored(b, s) ELSE b

\* the block that readFromFile() reads into
ReadBlock(b) ==
    LET c == AutoFlush(b) IN
    IF Writeable(c) = 0 THEN Increase(c, Delta) ELSE {c}

\* readFromFile(): read() gives any number of bytes that fit, or none
ReadFromFile ==
    \E b \in ReadBlock(buf) : \E s \in Pieces(MaxWrite) :
        Len(s) <= Writeable(b) /\ buf' = Stored(b, s)

\* writeToFile(), readFromBuffer(), readFromBufferAll(), moveRead()
Take == \E n \in 0..Readable(buf) : buf' = Taken(buf, n)

Clear == buf' = [Taken(buf, Readable(buf)) EXCEPT !.posRead = 0, !.posWrite = 0]

CallFlush == buf' = Flush(buf)

\* increase() and decrease() from outside.  decrease() does not look whether
\* what it holds fits: its callers have to.
Resize ==
    \E size \in 1..MaxSize :
        /\ size >= Readable(buf)
        /\ size # buf.size
        /\ buf' \in Resized(buf, size)

BufferNext ==
    \/ WriteToBuffer \/ WritePacket \/ ReadFromFile \/ Take
    \/ Clear \/ CallFlush \/ Resize

BufferSpec == BufferInit /\ [][BufferNext]_buf

-----------------------------------------------------------------------------
(* Properties                                                              *)

BufferTypeOK ==
    buf \in [mem : [Offsets -> Byte \cup {Junk}], posRead : 0..MaxSize,
             posWrite : 0..MaxSize, size : 1..MaxSize]

\* The positions stay in order and in the block, but for an empty buffer that
\* decrease() has shrunk under its positions; all that is readable was written.
InBlock ==
    /\ buf.posRead <= buf.posWrite
    /\ buf.posRead < buf.posWrite => buf.posWrite <= buf.size
    /\ \A i \in 1..Readable(buf) : Content(buf)[i] \in Byte

\* No write goes past the end of the block, also right after decrease().
WritesInBlock ==
    [][buf'.posWrite - buf'.posRead > Readable(buf) => buf'.posWrite <= buf'.size]_buf

\* The buffer is a queue of bytes.
Queue == INSTANCE ByteQueue WITH queue <- Content(buf)
IsByteQueue == Queue!Spec
=============================================================================
