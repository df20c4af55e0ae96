------------------------------- MODULE Strings -------------------------------
(* pw_string: trimming, splitting and merging, lines of a stream, base 36,   *)
(* letters' case, hexadecimal dumps and the cutting of UTF-8.  A text is a   *)
(* sequence of bytes without a NUL.                                          *)
EXTENDS Integers, Sequences, SequencesExt, FiniteSetsExt

CONSTANTS Sample,    \* the bytes of which texts are made
          Buffer     \* DEFAULT_BUFFER_SIZE

White == (7 .. 13) \cup {32}

Blank(c) == c \in White
Dark(s) == {i \in DOMAIN s : ~Blank(s[i])}

\* An empty text leaves the output as it was (old).
trimLeft(old, s) ==
    IF s = <<>> THEN old
    ELSE IF Dark(s) = {} THEN <<>> ELSE SubSeq(s, Min(Dark(s)), Len(s))

trimRight(old, s) ==
    IF s = <<>> THEN old
    ELSE IF Dark(s) = {} THEN <<>> ELSE SubSeq(s, 1, Max(Dark(s)))

trim(old, s) ==
    IF s = <<>> THEN old
    ELSE IF Dark(s) = {} THEN <<>> ELSE SubSeq(s, Min(Dark(s)), Max(Dark(s)))

\* findLine(): the place of the first "\r\n", 0 for none
findLine(s) ==
    LET at == {i \in 1 .. Len(s) - 1 : s[i] = 13 /\ s[i + 1] = 10}
    IN IF at = {} THEN 0 ELSE Min(at)

-----------------------------------------------------------------------------
(* Lines of a stream                                                         *)

\* istream::getline() of the rest s: the characters, the rest, and the state
Getline(s) ==
    LET lf == {i \in DOMAIN s : s[i] = 10}
        stop == IF lf = {} THEN Len(s) + 1 ELSE Min(lf)
    IN CASE stop > Buffer ->
              [got |-> SubSeq(s, 1, Buffer - 1),
               rest |-> SubSeq(s, Buffer, Len(s)), state |-> "fail"]
         [] stop <= Buffer /\ lf = {} ->
              [got |-> s, rest |-> <<>>, state |-> "eof"]
         [] OTHER ->
              [got |-> SubSeq(s, 1, stop - 1),
               rest |-> SubSeq(s, stop + 1, Len(s)), state |-> "good"]

\* getLine(): goes on after a full buffer; the line and the stream that is
\* left, whose eofbit ends the caller's loop
RECURSIVE getLine(_)
getLine(s) ==
    LET g == Getline(s) IN
    IF g.state = "fail"
    THEN LET r == getLine(g.rest) IN [r EXCEPT !.line = g.got \o @]
    ELSE [line |-> g.got, rest |-> g.rest, eof |-> g.state = "eof"]

RECURSIVE Lines(_)
Lines(s) ==
    LET r == getLine(s) IN
    IF r.eof THEN <<r.line>> ELSE <<r.line>> \o Lines(r.rest)

-----------------------------------------------------------------------------
(* split(), split2(), merge()                                                *)

FirstIn(s, from, T) ==
    LET at == {i \in from .. Len(s) : s[i] \in T}
    IN IF at = {} THEN Len(s) + 1 ELSE Min(at)

\* getNext2() until it fails; delimiters at the end give an empty item
RECURSIVE split(_, _)
split(s, d) ==
    IF s = <<>> THEN <<>>
    ELSE LET a == FirstIn(s, 1, Sample \ {d})
             b == FirstIn(s, a, {d})
         IN <<SubSeq(s, a, b - 1)>> \o split(SubSeq(s, b + 1, Len(s)), d)

RECURSIVE split2From(_, _, _)
split2From(s, start, del) ==
    IF start > Len(s) THEN <<>>
    ELSE LET stop == FirstIn(s, start, del)
         IN <<SubSeq(s, start, stop - 1)>>
                \o split2From(s, FirstIn(s, stop + 1, Sample \ del), del)
split2(s, del) == split2From(s, FirstIn(s, 1, Sample \ del), del)

\* the delimiter stands between the items, del a sequence
merge(items, del) ==
    FlattenSeq([i \in DOMAIN items |->
        IF i = Len(items) THEN items[i] ELSE items[i] \o del])

-----------------------------------------------------------------------------
(* Case, base 36, dump                                                       *)

Lower(c) == IF c \in 65 .. 90 THEN c + 32 ELSE c
Upper(c) == IF c \in 97 .. 122 THEN c - 32 ELSE c

toLower(s) == [i \in DOMAIN s |-> Lower(s[i])]
toUpper(s) == [i \in DOMAIN s |-> Upper(s[i])]
\* the form for a char array converts the other way
toUpperArray(s) == toLower(s)

Digit36(n) == IF n < 10 THEN 48 + n ELSE 55 + n

RECURSIVE Unsigned36(_)
Unsigned36(u) ==
    (IF u < 36 THEN <<>> ELSE Unsigned36(u \div 36)) \o <<Digit36(u % 36)>>

toBase36(n) == IF n < 0 THEN <<45>> \o Unsigned36(-n) ELSE Unsigned36(n)

\* a line of dumpHex(): the columns of up to 16 bytes, cells that are empty,
\* and the characters with '.' for those that are not printed
dumpLine(s) ==
    [hex |-> [i \in 1 .. 16 |-> IF i <= Len(s) THEN s[i] ELSE -1],
     text |-> [i \in DOMAIN s |-> IF s[i] \in 32 .. 126 THEN s[i] ELSE 46]]

RECURSIVE dumpHex(_)
dumpHex(s) ==
    IF s = <<>> THEN <<>>
    ELSE LET n == Min({Len(s), 16})
         IN <<dumpLine(SubSeq(s, 1, n))>> \o dumpHex(SubSeq(s, n + 1, Len(s)))

-----------------------------------------------------------------------------
(* UTF-8                                                                     *)

Continues(c) == c \in 128 .. 191

\* _getUtf8Size(): the byte and what continues it, up to the NUL
Utf8Size(s, i) ==
    (Min({j \in i + 1 .. Len(s) + 1 : j = Len(s) + 1 \/ ~Continues(s[j])})) - i

RECURSIVE SliceFrom(_, _, _)
SliceFrom(s, sum, less) ==
    IF sum = Len(s) \/ sum + Utf8Size(s, sum + 1) > less THEN sum
    ELSE SliceFrom(s, sum + Utf8Size(s, sum + 1), less)
sliceUTF8(s, less) == SliceFrom(s, 0, less)

-----------------------------------------------------------------------------
(* Properties of a text                                                      *)

PiecesAt(s, T) ==
    LET ends == SetToSortSeq({i \in DOMAIN s : s[i] \in T} \cup {Len(s) + 1}, <)
    IN [i \in DOMAIN ends |->
            SubSeq(s, IF i = 1 THEN 1 ELSE ends[i - 1] + 1, ends[i] - 1)]
NotEmpty(a) == a # <<>>

\* A stream is read line by line whatever the size of the buffer: its lines
\* are those between the line feeds.
LinesAreExact(s) == Lines(s) = PiecesAt(s, {10})

\* split() and split2() find the same items, the pieces that are not empty,
\* and merge() and split() undo each other.
SplitsAgree(s) ==
    \A d \in Sample :
        LET items == SelectSeq(PiecesAt(s, {d}), NotEmpty)
        IN /\ split2(s, {d}) = items
           /\ SelectSeq(split(s, d), NotEmpty) = items
           /\ split(merge(items, <<d>>), d) = items
           /\ merge(PiecesAt(s, {d}), <<d>>) = s

\* trim() is trimLeft() and trimRight() in either order, and a text that is
\* trimmed stays as it is, unless nothing is left: an empty text leaves what
\* was in the output.
TrimsAgree(s) ==
    /\ trim(s, s) = trimRight(s, trimLeft(s, s)) \/ Dark(s) = {}
    /\ trim(s, s) = trimLeft(s, trimRight(s, s)) \/ Dark(s) = {}
    /\ trim(trim(s, s), trim(s, s)) = trim(s, s)

\* sliceUTF8() never cuts a character, and leaves none out that would fit.
SlicesWhole(s) ==
    \A less \in 0 .. Len(s) + 1 :
        LET n == sliceUTF8(s, less) IN
        /\ n <= less
        /\ n < Len(s) /\ n > 0 => ~Continues(s[n + 1])
        /\ n < Len(s) =>
             \A m \in n + 1 .. Min({less, Len(s)}) :
                /\ m < Len(s) => Continues(s[m + 1])
                /\ m < Len(s)
=============================================================================
