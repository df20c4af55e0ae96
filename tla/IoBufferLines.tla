---------------------------- MODULE IoBufferLines ----------------------------
(***************************************************************************)
(* The line functions of pw::IoBuffer: getLine() into a string or into an  *)
(* array and peekLine() look for the first CR LF of what is readable with  *)
(* memchr() and a count of the bytes that are left.  The count is a size_t *)
(* that is lowered by the distance from the first byte at every LF: when   *)
(* it falls below zero it wraps and no longer bounds memchr().             *)
(***************************************************************************)
EXTENDS IoBuffer, FiniteSets, FiniteSetsExt

CONSTANTS CR, LF

ASSUME IoBufferLinesAssumption == CR \in Byte /\ LF \in Byte /\ CR # LF

NoLine == -1
Overrun == -2  \* memchr() reads behind the readable bytes

\* memchr(p, '\n', rlen) in a readable text; a negative rlen has wrapped
Hits(text, p, rlen) ==
    {i \in p..Len(text) - 1 : text[i + 1] = LF /\ (rlen < 0 \/ i < p + rlen)}

\* mutant: the byte before the LF is not looked at
Terminated_LF(text, i) == i > 0

\* *(p - 1) == '\r'
Terminated(text, i) == i > 0 /\ text[i] = CR

\* getLine(string) and peekLine() at p, with rlen bytes to go: the number of
\* bytes before the CR LF
LineFrom(search, text, p, rlen) ==
    LET hits == Hits(text, p, rlen) IN
    IF hits = {}
    THEN IF rlen < 0 \/ p + rlen > Len(text) THEN Overrun ELSE NoLine
    ELSE LET gap == Min(hits)
             at == IF gap = 0 THEN 1 ELSE gap  \* ++p at a leading LF
             left == (IF gap = 0 THEN rlen - 1 ELSE rlen) - (gap + 1)
         IN  IF gap = 0 /\ at = Len(text) THEN NoLine
             ELSE IF Terminated(text, at) THEN gap - 1
             ELSE search[<<at + 1, left>>]

LineEnd(text) ==
    LET search[s \in Nat \X Int] == LineFrom(search, text, s[1], s[2])
    IN  search[<<0, Len(text)>>]

\* getLine() into an array: a line that does not fit, and a leading LF, end it
LineFromIn(search, text, blen, p, rlen) ==
    LET hits == Hits(text, p, rlen) IN
    IF hits = {}
    THEN IF rlen < 0 \/ p + rlen > Len(text) THEN Overrun ELSE NoLine
    ELSE LET gap == Min(hits) - 1 IN
         IF gap < 0 \/ gap > blen THEN NoLine
         ELSE IF Terminated(text, gap + 1) THEN gap
         ELSE search[<<gap + 2, rlen - (gap + 2)>>]

LineEndIn(text, blen) ==
    LET search[s \in Nat \X Int] == LineFromIn(search, text, blen, s[1], s[2])
    IN  search[<<0, Len(text)>>]

\* a line leaves the buffer with its CR LF
GetLine ==
    /\ LineEnd(Content(buf)) >= 0
    /\ buf' = Taken(buf, LineEnd(Content(buf)) + 2)

LinesNext == BufferNext \/ GetLine

LinesSpec == BufferInit /\ [][LinesNext]_buf

-----------------------------------------------------------------------------
(* Properties                                                              *)

CRLFs(text) == {i \in 1..Len(text) - 1 : text[i] = CR /\ text[i + 1] = LF}

FirstLine(text) == IF CRLFs(text) = {} THEN NoLine ELSE Min(CRLFs(text)) - 1

\* the LFs without a CR before the end of the first line
BareLFs(text) ==
    {i \in 1..Len(text) :
        /\ text[i] = LF /\ (i = 1 \/ text[i - 1] # CR)
        /\ CRLFs(text) # {} => i < Min(CRLFs(text))}

\* getLine() finds the first line that CR LF ends, and none when there is none,
\* in a text with at most one bare LF before it: the second one spoils the
\* count.  With a limit it does so for a line that fits in a text that does not
\* begin with LF.
FindsLine ==
    LET text == Content(buf)
        bare == BareLFs(text)
    IN  Cardinality(bare) <= 1 =>
            /\ LineEnd(text) = FirstLine(text)
            /\ \A blen \in 0..Len(text) :
                1 \notin bare =>
                    LineEndIn(text, blen) =
                        IF FirstLine(text) <= blen /\ \A i \in bare : i - 2 <= blen
                        THEN FirstLine(text) ELSE NoLine
=============================================================================
