-------------------------------- MODULE Redis --------------------------------
(* pw::redis (pw_redispacket.cpp): values, how they are written, and the     *)
(* reader that takes a stream in any pieces.  A text is a sequence of        *)
(* characters.  For TLC only: a value is a tree.                             *)
EXTENDS Integers, Sequences, SequencesExt, FiniteSetsExt

CR == "\r"
LF == "\n"
CRLF == <<CR, LF>>

-----------------------------------------------------------------------------
(* Value: of every type the fields it has not are empty                      *)

Value(type, null, text, num, items) ==
    [type |-> type, null |-> null, text |-> text, num |-> num, items |-> items]
Integer(n) == Value(":", FALSE, <<>>, n, <<>>)
Text(type, s) == Value(type, FALSE, s, 0, <<>>)
Array(items) == Value("*", FALSE, <<>>, 0, items)
Null(type) == Value(type, TRUE, <<>>, 0, <<>>)

\* Value(type): what each type begins with
OfType(type) == IF type = ":" THEN Integer(0) ELSE Value(type, FALSE, <<>>, 0, <<>>)

\* Value(type, size): texts of NULs, and integers that are the size
Reserved(type, n) ==
    CASE type = ":" -> Integer(n)
      [] type = "*" -> Array([i \in 1 .. n |-> Integer(0)])
      [] OTHER -> Text(type, [i \in 1 .. n |-> "NUL"])

\* the lines of simple strings and errors must not hold an end of a line
Allowed(type, s) == type \in {"+", "-"} => {CR, LF} \cap Range(s) = {}

\* size(), clear(), append(), appendNull...(), operator []
size(v) == CASE v.null -> 0
             [] ~v.null /\ v.type = ":" -> 1
             [] ~v.null /\ v.type = "*" -> Len(v.items)
             [] OTHER -> Len(v.text)
clear(v) == CASE v.null -> v
              [] ~v.null /\ v.type = "$" -> Null("$")
              [] OTHER -> OfType(v.type)
append(v, x) == [v EXCEPT !.items = Append(@, x)]
resetAsArray(n) == Reserved("*", n)

\* strtoll() and what a number is written as
Digit == [d \in {"0", "1", "2", "3"} |->
            CASE d = "0" -> 0 [] d = "1" -> 1 [] d = "2" -> 2 [] d = "3" -> 3]
RECURSIVE Unsigned(_, _)
Unsigned(s, n) == IF s = <<>> \/ Head(s) \notin DOMAIN Digit THEN n
                  ELSE Unsigned(Tail(s), n * 10 + Digit[Head(s)])
strtoll(s) == IF s # <<>> /\ Head(s) = "-" THEN -Unsigned(Tail(s), 0) ELSE Unsigned(s, 0)

RECURSIVE Decimal(_)
Decimal(n) ==
    CASE n < 0 -> <<"-">> \o Decimal(-n)
      [] n \in 0 .. 9 -> <<(CHOOSE d \in DOMAIN Digit : Digit[d] = n)>>
      [] OTHER -> Decimal(n \div 10) \o Decimal(n % 10)

\* write()
RECURSIVE write(_)
write(v) ==
    <<v.type>> \o
    (CASE v.null -> <<"-", "1">> \o CRLF
       [] ~v.null /\ v.type = "$" -> Decimal(Len(v.text)) \o CRLF \o v.text \o CRLF
       [] ~v.null /\ v.type \in {"+", "-"} -> v.text \o CRLF
       [] ~v.null /\ v.type = ":" -> Decimal(v.num) \o CRLF
       [] OTHER -> Decimal(Len(v.items)) \o CRLF
                     \o FlattenSeq([i \in DOMAIN v.items |-> write(v.items[i])]))

-----------------------------------------------------------------------------
(* Reader: buf is m_buf, status the stack with its top last, cont the values *)
(* that are whole.  out tells an error, which clears all, and an exception,  *)
(* which leaves all as it is.                                                *)

Begin == [buf |-> <<>>, status |-> <<>>, cont |-> <<>>, out |-> "ok"]
Cleared == [Begin EXCEPT !.out = "error"]

Entry(count, node) == [index |-> 0, count |-> count, node |-> node]
Top(r) == Last(r.status)

\* node[index].assign(v): at() refuses a place that is not there
Placed(e, v) == [e EXCEPT !.node.items[e.index + 1] = v, !.index = @ + 1]

\* mutant: only one array ends with its last element
_rollback_Once(r) ==
    IF Len(r.status) = 1
    THEN [r EXCEPT !.cont = Append(@, Top(r).node), !.status = <<>>]
    ELSE [r EXCEPT !.status = Append(Front(Front(@)), Placed(Last(Front(@)), Top(r).node))]

\* _rollback(): an array that is full goes to the one around it, or is whole;
\* at() throws when that one has no place for it, and the full one is gone
RECURSIVE _rollback(_)
_rollback(r) ==
    LET under == Last(Front(r.status))
        rest == Front(Front(r.status))
    IN CASE Top(r).index # Top(r).count -> r
         [] Top(r).index = Top(r).count /\ Len(r.status) = 1 ->
               [r EXCEPT !.cont = Append(@, Top(r).node), !.status = <<>>]
         [] OTHER ->
               IF under.index = under.count
               THEN [r EXCEPT !.status = Front(@), !.out = "throws"]
               ELSE _rollback([r EXCEPT !.status = Append(rest, Placed(under, Top(r).node))])

\* _appendToTop(): an array of no elements is never rolled back, and the next
\* value finds no place in it
_appendToTop(r, v) ==
    CASE r.status = <<>> -> [r EXCEPT !.cont = Append(@, v)]
      [] r.status # <<>> /\ Top(r).index = Top(r).count -> [r EXCEPT !.out = "throws"]
      [] OTHER -> _rollback([r EXCEPT !.status = Append(Front(@), Placed(Top(r), v))])

Push(r, e) == [r EXCEPT !.status = Append(@, e)]

_parseInteger(r, s) == _appendToTop(r, Integer(strtoll(s)))
\* _parseSimpleString() and _parseError()
_parseSimpleString(r, type, s) ==
    IF Allowed(type, s) THEN _appendToTop(r, Text(type, s)) ELSE [r EXCEPT !.out = "throws"]
_parseBulkString(r, s) ==
    IF strtoll(s) > -1 THEN Push(r, Entry(strtoll(s), Null("$")))
    ELSE _appendToTop(r, Null("$"))
_parseBulkString2(r, line) ==
    _appendToTop([r EXCEPT !.status = Front(@)], Text("$", line))
_parseArray(r, s) ==
    IF strtoll(s) > -1 THEN Push(r, Entry(strtoll(s), Reserved("*", strtoll(s))))
    ELSE _appendToTop(r, Null("*"))

\* _parse(): a line of one character is an error, whatever it is
_parse(r, line) ==
    IF Len(line) < 2 THEN Cleared
    ELSE LET c == Head(line)
             s == Tail(line)
         IN CASE c = ":" -> _parseInteger(r, s)
              [] c \in {"+", "-"} -> _parseSimpleString(r, c, s)
              [] c = "$" -> _parseBulkString(r, s)
              [] c = "*" -> _parseArray(r, s)
              [] OTHER -> Cleared

\* IoBuffer::getLine() (what it does with a bare line feed: IoBufferLines)
Ends(s) == {i \in 1 .. Len(s) - 1 : s[i] = CR /\ s[i + 1] = LF}

\* the loop of parse(): a bulk string waits for its length and two more,
\* which are skipped unseen
RECURSIVE Loop(_)
Loop(r) ==
    CASE r.out # "ok" -> r
      [] r.out = "ok" /\ r.status # <<>> /\ Top(r).node.type = "$" ->
            IF Len(r.buf) < Top(r).count + 2 THEN r
            ELSE LET n == Top(r).count IN
                 Loop(_parseBulkString2([r EXCEPT !.buf = SubSeq(@, n + 3, Len(@))],
                                        SubSeq(r.buf, 1, n)))
      [] OTHER ->
            IF Ends(r.buf) = {} THEN r
            ELSE LET e == Min(Ends(r.buf)) IN
                 Loop(_parse([r EXCEPT !.buf = SubSeq(@, e + 2, Len(@))],
                             SubSeq(r.buf, 1, e - 1)))
parse(r, piece) == Loop([r EXCEPT !.buf = @ \o piece])

\* pop(): the oldest value that is whole
pop(r) == [r EXCEPT !.cont = Tail(@)]

-----------------------------------------------------------------------------
(* What a channel relies on.  lines: the text, a line after the other        *)

\* The values of a text do not depend on the pieces in which it comes, nor on
\* which of them were taken out in between.
PiecesDoNotMatter(lines) ==
    LET s == FlattenSeq(lines)
        whole == parse(Begin, s)
    IN whole.out = "ok" =>
        \A i \in 1 .. Len(s) - 1 :
            LET first == parse(Begin, SubSeq(s, 1, i))
                rest == SubSeq(s, i + 1, Len(s))
            IN /\ parse(first, rest) = whole
               /\ first.cont # <<>> =>
                    parse(pop(first), rest).cont = Tail(whole.cont)

\* What was read is read again from what it is written as, also values within
\* values and null ones.
ReadsItsOwn(lines) ==
    LET values == parse(Begin, FlattenSeq(lines)).cont
        text == FlattenSeq([i \in DOMAIN values |-> write(values[i])])
    IN parse(Begin, text) = [Begin EXCEPT !.cont = values]
=============================================================================
