-------------------------------- MODULE Codec --------------------------------
(* pw_encode: the URL, hexadecimal, base64 and escaped forms of a text.      *)
(* Each loop of the code is a template over its source: a blob, which knows  *)
(* where it ends, or a stream, which knows it only after a read has failed.  *)
(* A text is a sequence of bytes.  For TLC only: the operators recurse.      *)
EXTENDS Integers, Sequences, SequencesExt, Bitwise

Sources == {"blob", "stream"}

\* isEnd(): a stream does not know it yet
IsEnd(k, s) == k = "blob" /\ s = <<>>

\* get() and getAndNext(); a stream that has nothing more gives EOF as a byte
Peek(s) == IF s = <<>> THEN 255 ELSE Head(s)
Rest(s) == IF s = <<>> THEN <<>> ELSE Tail(s)

Each(s, f(_)) == FlattenSeq([i \in DOMAIN s |-> f(s[i])])

-----------------------------------------------------------------------------
(* Digits                                                                    *)

Oct == 48 .. 55
Hex == (48 .. 57) \cup (65 .. 70) \cup (97 .. 102)
IsHex(c) == c \in Hex

Bin2HexHalf(n, upper) ==
    IF n < 10 THEN 48 + n ELSE n - 10 + (IF upper THEN 65 ELSE 97)

Bin2HexFull(c, upper) ==
    <<Bin2HexHalf(c \div 16, upper), Bin2HexHalf(c % 16, upper)>>

\* no test: what is no digit has a value, too
Hex2BinHalf(c) ==
    IF c \in 48 .. 57 THEN c - 48
    ELSE IF c \in 65 .. 90 THEN c - 65 + 10
    ELSE (c - 97 + 10) % 256

-----------------------------------------------------------------------------
(* URL                                                                       *)

\* mutant: a table that leaves '+' as it is
UrlTable_Plus ==
    (0 .. 32) \cup {34, 35, 37, 38, 47} \cup (58 .. 64)
        \cup (91 .. 94) \cup {96} \cup (123 .. 255)

UrlTable == (0 .. 32) \cup {34, 35, 37, 38, 43, 47} \cup (58 .. 64)
                \cup (91 .. 94) \cup {96} \cup (123 .. 255)
Url2Table == UrlTable \ (128 .. 255)

UrlByte(c, table) ==
    IF c = 32 THEN <<43>>
    ELSE IF c \in table THEN <<37>> \o Bin2HexFull(c, TRUE) ELSE <<c>>

EncodeURL(s) == Each(s, LAMBDA c : UrlByte(c, UrlTable))
EncodeURL2(s) == Each(s, LAMBDA c : UrlByte(c, Url2Table))

\* a '%' without a digit is dropped; with one digit it stands for its value
RECURSIVE DecodeURL(_, _)
DecodeURL(k, s) ==
    IF s = <<>> THEN <<>>
    ELSE LET c == Head(s)
             a == Tail(s)
             b == Rest(a)
         IN CASE c = 43 -> <<32>> \o DecodeURL(k, a)
              [] c = 37 /\ (IsEnd(k, a) \/ ~IsHex(Peek(a))) -> DecodeURL(k, a)
              [] c = 37 /\ (IsEnd(k, b) \/ ~IsHex(Peek(b))) ->
                    <<Hex2BinHalf(Peek(a))>> \o DecodeURL(k, b)
              [] c = 37 ->
                    <<16 * Hex2BinHalf(Peek(a)) + Hex2BinHalf(Peek(b))>>
                        \o DecodeURL(k, Rest(b))
              [] OTHER -> <<c>> \o DecodeURL(k, a)

\* decodeURL() from a blob to a stream calls the loop that encodes
DecodeURLToStream(s) == EncodeURL(s)

-----------------------------------------------------------------------------
(* Hexadecimal                                                               *)

EncodeHex(s, upper) == Each(s, LAMBDA c : Bin2HexFull(c, upper))

\* an odd digit at the end stands for itself
RECURSIVE DecodeHex(_)
DecodeHex(s) ==
    IF s = <<>> THEN <<>>
    ELSE IF Len(s) = 1 THEN <<Hex2BinHalf(s[1])>>
    ELSE <<((16 * Hex2BinHalf(s[1])) | Hex2BinHalf(s[2])) % 256>>
            \o DecodeHex(SubSeq(s, 3, Len(s)))

-----------------------------------------------------------------------------
(* Base64                                                                    *)

Enc64(v, uri) ==
    CASE v < 26 -> 65 + v
      [] v \in 26 .. 51 -> 71 + v
      [] v \in 52 .. 61 -> v - 4
      [] v = 62 -> IF uri THEN 45 ELSE 43
      [] v = 63 -> IF uri THEN 95 ELSE 47

NotADigit == -1

\* both alphabets are read, and a blank is taken for a '+'
Dec64(c) ==
    CASE c \in 65 .. 90 -> c - 65
      [] c \in 97 .. 122 -> c - 71
      [] c \in 48 .. 57 -> c + 4
      [] c \in {32, 43, 45} -> 62
      [] c \in {47, 95} -> 63
      [] OTHER -> NotADigit

At(g, i) == IF i <= Len(g) THEN g[i] ELSE 0

\* the digits of one to three bytes, then padding up to four if asked for
Bin2Base64(g, uri, pad) ==
    LET v == << At(g, 1) \div 4,
                (At(g, 1) % 4) * 16 + At(g, 2) \div 16,
                (At(g, 2) % 16) * 4 + At(g, 3) \div 64,
                At(g, 3) % 64 >>
    IN [i \in 1 .. (IF pad THEN 4 ELSE Len(g) + 1) |->
            IF i <= Len(g) + 1 THEN Enc64(v[i], uri) ELSE 61]

RECURSIVE EncodeBase64(_, _, _)
EncodeBase64(s, uri, pad) ==
    IF Len(s) <= 3 THEN IF s = <<>> THEN <<>> ELSE Bin2Base64(s, uri, pad)
    ELSE Bin2Base64(SubSeq(s, 1, 3), uri, pad)
            \o EncodeBase64(SubSeq(s, 4, Len(s)), uri, pad)

\* the bytes of a group of four, up to the first '=' or what is no digit
Base642Bin(g) ==
    LET bad == {i \in DOMAIN g : g[i] = 61 \/ Dec64(g[i]) = NotADigit}
        n == IF bad = {} THEN Len(g)
             ELSE (CHOOSE i \in bad : \A j \in bad : i <= j) - 1
        v(i) == IF i <= n THEN Dec64(g[i]) ELSE 0
        out == << v(1) * 4 + v(2) \div 16,
                  (v(2) % 16) * 16 + v(3) \div 4,
                  (v(3) % 4) * 64 + v(4) >>
    IN SubSeq(out, 1, n - 1)

\* a last group that is short is closed by '='
RECURSIVE DecodeBase64(_)
DecodeBase64(s) ==
    IF Len(s) < 4 THEN IF s = <<>> THEN <<>> ELSE Base642Bin(Append(s, 61))
    ELSE Base642Bin(SubSeq(s, 1, 4)) \o DecodeBase64(SubSeq(s, 5, Len(s)))

-----------------------------------------------------------------------------
(* Escapes                                                                   *)

EscapeTable ==
    [c \in {0, 7, 8, 9, 10, 11, 12, 13, 32, 34, 39, 92} |->
        CASE c = 0 -> 48 [] c = 7 -> 97 [] c = 8 -> 98 [] c = 9 -> 116
          [] c = 10 -> 110 [] c = 11 -> 118 [] c = 12 -> 102 [] c = 13 -> 114
          [] OTHER -> c]

Bin2Escape(c) == IF c \in DOMAIN EscapeTable THEN <<92, EscapeTable[c]>> ELSE <<c>>

EncodeEscape(s) == Each(s, LAMBDA c : Bin2Escape(c))

\* what the letter after a backslash announces
EscapeKind(c) ==
    CASE c \in {97, 98, 102, 110, 114, 116, 118} -> "control"
      [] c \in Oct -> "octet"
      [] c \in {88, 120} -> "hex"
      [] c = 117 -> "unicode"
      [] c = 85 -> "bigunicode"
      [] OTHER -> "itself"

Control(c) ==
    CHOOSE d \in DOMAIN EscapeTable : EscapeTable[d] = c

\* Each of the following takes what is behind the letter and gives the bytes
\* it stands for and what is left.

\* up to three octal digits, c the first of them
RECURSIVE OctetFrom(_, _, _, _)
OctetFrom(k, num, n, s) ==
    IF n < 3 /\ ~IsEnd(k, s) /\ Peek(s) \in Oct
    THEN OctetFrom(k, num * 8 + Head(s) - 48, n + 1, Tail(s))
    ELSE <<(<<num % 256>>), s>>

HexEscape(k, s) ==
    IF IsEnd(k, s) \/ ~IsHex(Peek(s)) THEN <<(<<0>>), s>>
    ELSE LET r == Tail(s) IN
         IF ~IsEnd(k, r) /\ IsHex(Peek(r))
         THEN <<(<<16 * Hex2BinHalf(Head(s)) + Hex2BinHalf(Head(r))>>), Tail(r)>>
         ELSE <<(<<Hex2BinHalf(Head(s))>>), r>>

\* up to max digits, a byte for two, by c - '0' whatever the digit; i counts
\* from 0.  A blob that ends after one digit of a pair gives nothing for it,
\* one that ends after a pair an extra 0.
RECURSIVE UnicodeFrom(_, _, _, _, _, _)
UnicodeFrom(k, max, i, num, c, s) ==
    LET n == (num * 16) | ((c - 48) % 256)
        out == IF i % 2 = 1 THEN <<n % 256>> ELSE <<>>
        left == IF i % 2 = 1 THEN 0 ELSE n
        last(j) == IF j % 2 = 0 THEN out ELSE Append(out, left % 256)
    IN IF IsEnd(k, s) THEN <<last(i), s>>
       ELSE IF i + 1 >= max THEN <<last(i + 1), s>>
       ELSE IF ~IsHex(Peek(s)) THEN <<Append(out, left % 256), s>>
       ELSE LET r == UnicodeFrom(k, max, i + 1, left, Head(s), Tail(s))
            IN <<out \o r[1], r[2]>>

Unicode(k, max, s) ==
    IF IsEnd(k, s) \/ ~IsHex(Peek(s)) THEN <<(<<0>>), s>>
    ELSE UnicodeFrom(k, max, 0, 0, Head(s), Tail(s))

\* the bytes and the rest for the letter c and what is behind it
Unescaped(k, c, s) ==
    LET Read(kind) ==
            CASE kind = "control" -> <<(<<Control(c)>>), s>>
              [] kind = "octet" -> OctetFrom(k, c - 48, 1, s)
              [] kind = "hex" -> HexEscape(k, s)
              [] kind \in {"unicode", "bigunicode"} ->
                    Unicode(k, IF kind = "unicode" THEN 4 ELSE 8, s)
              [] OTHER -> <<(<<c>>), s>>
    IN Read(EscapeKind(c))

RECURSIVE DecodeEscape(_, _)
DecodeEscape(k, s) ==
    IF s = <<>> THEN <<>>
    ELSE IF Head(s) # 92 THEN <<Head(s)>> \o DecodeEscape(k, Tail(s))
    ELSE IF IsEnd(k, Tail(s)) THEN <<>>
    ELSE LET Then(r) == r[1] \o DecodeEscape(k, r[2])
         IN Then(Unescaped(k, Peek(Tail(s)), Rest(Tail(s))))

-----------------------------------------------------------------------------
(* Properties of a text                                                      *)

\* a NUL becomes a backslash and a 0, which an octal digit behind it continues
NulBeforeDigit(s) ==
    \E i \in 1 .. Len(s) - 1 : s[i] = 0 /\ s[i + 1] \in Oct

\* the escapes that a stream and a blob read differently: one that the text
\* ends in, a backslash or a letter u with an odd number of digits
CutEscape(s) ==
    \E i \in DOMAIN s :
        /\ s[i] = 92
        /\ \/ i = Len(s)
           \/ s[i + 1] \in {85, 117} /\ \A j \in i + 2 .. Len(s) : IsHex(s[j])

\* What the encoders of pw_encode write, the decoders that are used with them
\* turn into the text again, from either source and whichever alphabet, case or
\* padding was asked for.  Two pairs are not among them: escapes of a text with
\* a NUL before an octal digit, and decodeURL() from a blob to a stream.
Inverts(s) ==
    /\ \A k \in Sources :
        /\ DecodeURL(k, EncodeURL(s)) = s
        /\ DecodeURL(k, EncodeURL2(s)) = s
        /\ NulBeforeDigit(s) \/ DecodeEscape(k, EncodeEscape(s)) = s
    /\ \A upper \in BOOLEAN : DecodeHex(EncodeHex(s, upper)) = s
    /\ \A uri, pad \in BOOLEAN : DecodeBase64(EncodeBase64(s, uri, pad)) = s

\* Escapes are read back as the text they were written from, whatever is in it.
EscapesInvert(s) == \A k \in Sources : DecodeEscape(k, EncodeEscape(s)) = s

\* An encoded text that is decoded from a blob into a stream is the text again.
StreamsInvert(s) == DecodeURLToStream(EncodeURL(s)) = s

\* Any text is read the same from a blob and from a stream (but for escapes that
\* it ends in the middle of), and no longer than it was: the callers' buffers
\* are as long as the text (decodeURL() and decodeEscape() reserve no more).
ReadsAlike(s) ==
    /\ DecodeURL("blob", s) = DecodeURL("stream", s)
    /\ CutEscape(s) \/ DecodeEscape("blob", s) = DecodeEscape("stream", s)
    /\ Len(DecodeURL("blob", s)) <= Len(s)
    /\ Len(DecodeEscape("blob", s)) <= Len(s)
    /\ 4 * Len(DecodeBase64(s)) <= 3 * Len(s)
    /\ DecodeBase64(s) = DecodeBase64([i \in DOMAIN s |-> IF s[i] = 32 THEN 43 ELSE s[i]])
=============================================================================
