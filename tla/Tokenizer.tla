------------------------------ MODULE Tokenizer ------------------------------
(* TokenizerTemplate: a text, a position in it, and the functions that read  *)
(* the next token, the next line or what is left.  Every function comes in   *)
(* four forms, for a buffer without (A) and with a closing NUL, for a        *)
(* pointer (Z) and for a string, and, with a 2, skipping delimiters first.   *)
(* A call gives a record: whether it succeeded, the cells <<first, behind>>  *)
(* of the text that it hands out (or Unset), and the new position.           *)
(* Positions are 1 .. Len(text) + 1.                                         *)
EXTENDS Integers, Sequences, SequencesExt, FiniteSetsExt

CONSTANTS CR, LF, Delimiter, Letter

Symbols == {CR, LF, Delimiter, Letter}

Unset == <<0, 0>>
NoLimit == -1
End(t) == Len(t) + 1

Size(span) == span[2] - span[1]
Text(t, span) == SubSeq(t, span[1], span[2] - 1)

\* setBuffer() and the constructors
Begin == 1

Kept(p) == [ok |-> FALSE, span |-> Unset, pos |-> p]
Given(a, b, p) == [ok |-> TRUE, span |-> <<a, b>>, pos |-> p]

\* size_t(ib - m_pos - 1) > len: a token may be one longer than the limit
TooFar(p, i, limit) == limit # NoLimit /\ i # p /\ i - p - 1 > limit
Fits(n, limit) == limit = NoLimit \/ n <= limit

-----------------------------------------------------------------------------
(* Searching                                                                 *)

FirstFrom(t, p, Test(_)) ==
    LET found == {i \in p .. Len(t) : Test(i)}
    IN IF found = {} THEN End(t) ELSE Min(found)

FindNot(t, p, d) == FirstFrom(t, p, LAMBDA i : t[i] # d)

FindAny(t, p, d) == FirstFrom(t, p, LAMBDA i : t[i] = d)

\* _find() with a length gives the end if the delimiter is too far away
Find(t, p, d, limit) ==
    LET i == FindAny(t, p, d)
    IN IF i # End(t) /\ TooFar(p, i, limit) THEN End(t) ELSE i

\* mutant: a CR alone ends a line, too
FindLine_AnyCR(t, p, limit) == FindAny(t, p, CR)

\* "\r\n"; a CR at the very end is no line's end
FindLine(t, p, limit) ==
    LET i == FirstFrom(t, p, LAMBDA j : t[j] = CR /\ j < Len(t) /\ t[j + 1] = LF)
    IN IF i # End(t) /\ TooFar(p, i, limit) THEN End(t) ELSE i

\* m_pos = ib + 1
Behind(i) == i + 1

-----------------------------------------------------------------------------
(* Tokens                                                                    *)

\* limit is what the search and the test of the last token compare with
NextToken(t, p, strict, d, limit) ==
    LET i == Find(t, p, d, limit) IN
    CASE p = End(t) -> Kept(p)
      [] p # End(t) /\ i = End(t) ->
            IF strict \/ ~Fits(i - p, limit) THEN Kept(p) ELSE Given(p, i, i)
      [] OTHER -> Given(p, i, Behind(i))

getNextA(t, p, strict, d, len) == NextToken(t, p, strict, d, len)
getNextZ(t, p, strict, d) == NextToken(t, p, strict, d, NoLimit)
getNext(t, p, strict, d, len) == NextToken(t, p, strict, d, len - 1)
getNextString(t, p, strict, d) == NextToken(t, p, strict, d, NoLimit)

\* getNextUnit(): a single character, in a buffer of one
getNextUnit(t, p, strict, d) == getNext(t, p, strict, d, 1)

\* the forms that skip delimiters; what was skipped comes back if the call fails
NextToken2(t, p, strict, d, limit) ==
    LET q == FindNot(t, p, d)
        i == Find(t, q, d, limit)
    IN CASE p = End(t) -> Kept(p)
         [] p # End(t) /\ q = End(t) -> IF strict THEN Kept(p) ELSE Given(q, q, q)
         [] q # End(t) /\ i = End(t) ->
               IF strict \/ ~Fits(i - q, limit) THEN Kept(p) ELSE Given(q, i, i)
         [] OTHER -> Given(q, i, Behind(i))

getNextA2(t, p, strict, d, len) == NextToken2(t, p, strict, d, len)
getNext2(t, p, strict, d, len) == NextToken2(t, p, strict, d, len - 1)
getNext2String(t, p, strict, d) == NextToken2(t, p, strict, d, NoLimit)
getNextUnit2(t, p, strict, d) == getNext2(t, p, strict, d, 1)

\* getNextZ2() forgets the pointer of a token that is found behind delimiters
getNextZ2(t, p, strict, d) ==
    LET r == NextToken2(t, p, strict, d, NoLimit)
    IN IF r.ok /\ t[p] = d /\ r.span[2] # End(t)
       THEN [r EXCEPT !.span = <<0, Size(r.span)>>] ELSE r

skip(t, p, d) ==
    LET i == FindAny(t, p, d)
    IN IF p = End(t) \/ i = End(t) THEN Kept(p) ELSE Given(p, p, Behind(i))

-----------------------------------------------------------------------------
(* Lines and the rest                                                        *)

\* a last line without "\r\n" is handed out, but the result is false
NextLine(t, p, strict, limit) ==
    LET i == FindLine(t, p, limit) IN
    CASE p = End(t) -> Kept(p)
      [] p # End(t) /\ i = End(t) ->
            IF strict \/ ~Fits(i - p, limit) THEN Kept(p)
            ELSE [Given(p, i, i) EXCEPT !.ok = FALSE]
      [] OTHER -> Given(p, i, Behind(i) + 1)

getLineA(t, p, strict, len) == NextLine(t, p, strict, len)
getLineZ(t, p, strict) == NextLine(t, p, strict, NoLimit)
getLine(t, p, strict, len) == NextLine(t, p, strict, len - 1)
getLineString(t, p, strict, len) == NextLine(t, p, strict, len)

LeftOver(t, p, strict, limit) ==
    LET left == End(t) - p IN
    IF (left = 0 /\ strict) \/ ~Fits(left, limit) THEN Kept(p)
    ELSE Given(p, End(t), End(t))

getLeftA(t, p, strict, len) == LeftOver(t, p, strict, len)
getLeftZ(t, p, strict) == LeftOver(t, p, strict, NoLimit)
getLeft(t, p, strict, len) == LeftOver(t, p, strict, len - 1)
getLeftString(t, p, strict) == LeftOver(t, p, strict, NoLimit)

-----------------------------------------------------------------------------
(* Properties of a text                                                      *)

Reading(of, t, p, strict) ==
    CASE of = "tokens" -> getNextString(t, p, strict, Delimiter)
      [] of = "tokens2" -> getNext2String(t, p, strict, Delimiter)
      [] of = "lines" -> getLineString(t, p, strict, NoLimit)

\* what a loop over one of the functions collects
RECURSIVE AllFrom(_, _, _, _)
AllFrom(of, t, p, strict) ==
    LET Then(r) ==
            IF r.span = Unset THEN <<>>
            ELSE <<Text(t, r.span)>>
                    \o (IF r.ok THEN AllFrom(of, t, r.pos, strict) ELSE <<>>)
    IN Then(Reading(of, t, p, strict))
All(of, t, strict) == AllFrom(of, t, Begin, strict)

\* the pieces of a text between the places where a separator begins
Pieces(t, at, width) ==
    LET ends == SetToSortSeq(at \cup {End(t)}, <)
    IN [i \in DOMAIN ends |->
            SubSeq(t, IF i = 1 THEN 1 ELSE ends[i - 1] + width, ends[i] - 1)]

\* the loop stops in front of an empty piece at the end
Trimmed(s) == IF s # <<>> /\ Last(s) = <<>> THEN Front(s) ELSE s

Delimiters(t) == {i \in DOMAIN t : t[i] = Delimiter}
LineEnds(t) == {i \in 1 .. Len(t) - 1 : t[i] = CR /\ t[i + 1] = LF}

\* Reading on and on gives the pieces of the text, in order and complete: of
\* getNext() all between delimiters, of getNext2() those that are not empty
\* (and an empty one for delimiters at the end), of getLine() the lines.  In
\* strict mode the last one, which no delimiter ends, is left.
ReadsAll(t) ==
    LET NotEmpty(a) == a # <<>>
    IN \A pieces \in {Pieces(t, Delimiters(t), 1)}, lines \in {Pieces(t, LineEnds(t), 2)} :
       /\ All("tokens", t, FALSE) = Trimmed(pieces)
       /\ All("tokens", t, TRUE) = Front(pieces)
       /\ SelectSeq(All("tokens2", t, FALSE), NotEmpty) = SelectSeq(pieces, NotEmpty)
       /\ All("lines", t, FALSE) = Trimmed(lines)
       /\ All("lines", t, TRUE) = Front(lines)

Same(a, b) == a.ok = b.ok /\ a.span = b.span /\ a.pos = b.pos

\* The forms of a function agree wherever the buffer is long enough, a token
\* that fails leaves the position alone, and one that is handed out is whole:
\* a buffer that is too short by two or more gives a failure, never a part of
\* the token.  Of one that is too short by just one nothing is said here, nor of
\* where the token begins that getNextZ2() hands out.
FormsAgree(t) ==
    LET d == Delimiter IN
    \A p \in 1 .. End(t), strict \in BOOLEAN, len \in 1 .. 4 :
        LET whole == getNextString(t, p, strict, d)
            whole2 == getNext2String(t, p, strict, d)
            line == getLineString(t, p, strict, NoLimit)
            short(r, w, room) == Size(w.span) > room + 1
                                 => r.span = Unset /\ ~r.ok /\ r.pos = p
            same(r, w, room) == Size(w.span) <= room => Same(r, w)
        IN /\ Same(getNextZ(t, p, strict, d), whole)
           /\ Same(getLineZ(t, p, strict), line)
           /\ same(getNextA(t, p, strict, d, len), whole, len)
           /\ same(getNext(t, p, strict, d, len), whole, len - 1)
           /\ same(getNextA2(t, p, strict, d, len), whole2, len)
           /\ same(getNext2(t, p, strict, d, len), whole2, len - 1)
           /\ same(getLineA(t, p, strict, len), line, len)
           /\ same(getLine(t, p, strict, len), line, len - 1)
           /\ short(getNextA(t, p, strict, d, len), whole, len)
           /\ short(getNext(t, p, strict, d, len), whole, len - 1)
           /\ short(getNextA2(t, p, strict, d, len), whole2, len)
           /\ short(getNext2(t, p, strict, d, len), whole2, len - 1)
           /\ short(getLineA(t, p, strict, len), line, len)
           /\ short(getLine(t, p, strict, len), line, len - 1)
           /\ getNextZ2(t, p, strict, d).pos = whole2.pos
           /\ Size(getNextZ2(t, p, strict, d).span) = Size(whole2.span)
           /\ Same(getLeftZ(t, p, strict), getLeftString(t, p, strict))
           /\ same(getLeftA(t, p, strict, len), getLeftString(t, p, strict), len)
           /\ same(getLeft(t, p, strict, len), getLeftString(t, p, strict), len - 1)

\* No function copies more than the len characters of the caller's buffer, those
\* that close it with a NUL one less.
CopiesFit(t) ==
    LET d == Delimiter IN
    \A p \in 1 .. End(t), strict \in BOOLEAN, len \in 1 .. 4 :
        /\ \A r \in {getNextA(t, p, strict, d, len), getNextA2(t, p, strict, d, len),
                     getLineA(t, p, strict, len), getLeftA(t, p, strict, len)} :
                Size(r.span) <= len
        /\ \A r \in {getNext(t, p, strict, d, len), getNext2(t, p, strict, d, len),
                     getLine(t, p, strict, len), getLeft(t, p, strict, len)} :
                Size(r.span) <= len - 1

\* getNextZ2() hands out the token that getNext2() would copy.
PointersPoint(t) ==
    \A p \in 1 .. End(t), strict \in BOOLEAN :
        Same(getNextZ2(t, p, strict, Delimiter), getNext2String(t, p, strict, Delimiter))
=============================================================================
