--------------------------------- MODULE Ini ---------------------------------
(* Ini (pw_ini.cpp): sections of items with values, read from and written to *)
(* lines.  The texts are sequences of bytes; trimming and escapes are those  *)
(* of Strings and Codec.  For TLC only: those modules recurse.               *)
EXTENDS Integers, Sequences, SequencesExt, FiniteSetsExt, TLC

LOCAL S == INSTANCE Strings WITH Sample <- 1 .. 255, Buffer <- 2048
LOCAL C == INSTANCE Codec

CR == 13
Equals == 61
Opens == 91
Closes == 93
Comment == {35, 39, 96, 34, 59}

NoName == <<>>
Of(name, value) == name :> value
Nothing == [x \in {} |-> x]

\* Ini(): the section without a name, with an item without a name
Begin == Of(NoName, Of(NoName, <<>>))

setString(f, value, item, sec) ==
    LET items == IF sec \in DOMAIN f THEN f[sec] ELSE Nothing
    IN Of(sec, Of(item, value) @@ items) @@ f

\* getItem() behind all the getters, with the caller's default
getString(f, item, sec, def) ==
    IF sec \in DOMAIN f /\ item \in DOMAIN f[sec] THEN f[sec][item] ELSE def

\* strtoimax() and atoi(): white space, a sign, and digits as far as they go
strtoimax(s) ==
    LET t == S!trimLeft(s, s)
        sign == IF t # <<>> /\ t[1] \in {43, 45} THEN 1 ELSE 0
        digits == {i \in DOMAIN t : i > sign /\ \A j \in sign + 1 .. i : t[j] \in 48 .. 57}
        value == FoldLeft(LAMBDA n, c : 10 * n + c - 48, 0,
                          SubSeq(t, sign + 1, sign + Cardinality(digits)))
    IN IF sign = 1 /\ t[1] = 45 THEN -value ELSE value

\* PWStr::toBoolean(): the first letter decides, or the number
toBoolean(s) ==
    CASE s = <<>> -> FALSE
      [] s # <<>> /\ s[1] \in {84, 89, 116, 121} -> TRUE
      [] s # <<>> /\ s[1] \in {70, 78, 102, 110} -> FALSE
      [] OTHER -> strtoimax(s) # 0

\* what is there is converted, whatever it is; the default is for an item that
\* is not there
getBoolean(f, item, sec, def) ==
    IF sec \in DOMAIN f /\ item \in DOMAIN f[sec] THEN toBoolean(f[sec][item]) ELSE def
getInteger(f, item, sec, def) ==
    IF sec \in DOMAIN f /\ item \in DOMAIN f[sec] THEN strtoimax(f[sec][item]) ELSE def

\* the setters set a text
True == <<116, 114, 117, 101>>
False == <<102, 97, 108, 115, 101>>
setBoolean(f, v, item, sec) == setString(f, IF v THEN True ELSE False, item, sec)

Decimal(n) ==  \* of two digits at most
    LET m == IF n < 0 THEN -n ELSE n
    IN (IF n < 0 THEN <<45>> ELSE <<>>)
         \o (IF m > 9 THEN <<48 + m \div 10>> ELSE <<>>) \o <<48 + (m % 10)>>
setInteger(f, v, item, sec) == setString(f, Decimal(v), item, sec)

-----------------------------------------------------------------------------
(* read(): one line after the other into a new object; an event may refuse a *)
(* section or an item and stop it all, or pass an item over                  *)

Keep == [section |-> {}, stop |-> {}, skip |-> {}]     \* no Event

IsSection(s) == s[1] = Opens /\ Last(S!trimRight(s, s)) = Closes

SectionOf(s) == SubSeq(s, 2, Len(S!trimRight(s, s)) - 1)

\* the item and its value; without '=' the whole line is the item
ItemOf(s) ==
    LET at == {i \in DOMAIN s : s[i] = Equals}
        Item(name, value) == <<S!trimRight(name, name), S!trimLeft(value, value)>>
    IN IF at = {} THEN Item(s, <<>>)
       ELSE Item(SubSeq(s, 1, Min(at) - 1),
                 C!DecodeEscape("blob", SubSeq(s, Min(at) + 1, Len(s))))

EnterSection(r, name, e) ==
    IF name \in e.section THEN [r EXCEPT !.ok = FALSE]
    ELSE [r EXCEPT !.sec = name,
                   !.ini = IF name \in DOMAIN @ THEN @
                           ELSE Of(name, Of(NoName, <<>>)) @@ @]

TakeItem(r, item, e) ==
    CASE item[1] \in e.stop -> [r EXCEPT !.ok = FALSE]
      [] item[1] \in e.skip -> r
      [] OTHER -> [r EXCEPT !.ini = setString(@, item[2], item[1], r.sec)]

\* a section's line that is not closed is an item's, cut at its end
ReadLine(r, line, e) ==
    LET Read(s) ==
            CASE ~r.ok \/ s = <<>> \/ s[1] \in Comment -> r
              [] r.ok /\ s # <<>> /\ IsSection(s) ->
                    EnterSection(r, SectionOf(s), e)
              [] OTHER -> TakeItem(r, ItemOf(IF s[1] = Opens THEN S!trimRight(s, s) ELSE s), e)
    IN Read(S!trimLeft(line, line))

\* a last line that no line feed ends is not read
read(old, lines, ended, e) ==
    LET whole == IF ended \/ lines = <<>> THEN lines ELSE Front(lines)
        Result(r) == [ok |-> r.ok, ini |-> IF r.ok THEN r.ini ELSE old]
    IN Result(FoldLeft(LAMBDA x, line : ReadLine(x, line, e),
                       [ok |-> TRUE, ini |-> Begin, sec |-> NoName], whole))

-----------------------------------------------------------------------------
(* write()                                                                   *)

\* the order of std::map
RECURSIVE Before(_, _)
Before(a, b) ==
    CASE b = <<>> -> FALSE
      [] a = <<>> /\ b # <<>> -> TRUE
      [] OTHER -> Head(a) < Head(b) \/ (Head(a) = Head(b) /\ Before(Tail(a), Tail(b)))
Sorted(names) == SetToSortSeq(names, Before)

\* mutant: the value is written as it is
ItemLine_Raw(name, value) == name \o <<Equals>> \o value \o <<CR>>

ItemLine(name, value) == name \o <<Equals>> \o C!EncodeEscape(value) \o <<CR>>

\* an item passed over by an event is written as a comment
SectionLines(f, sec, e) ==
    LET names == Sorted(DOMAIN f[sec]) IN
    IF sec = NoName /\ f[sec] = Of(NoName, <<>>) THEN <<>>
    ELSE <<(<<Opens>> \o sec \o <<Closes, CR>>)>>
         \o [i \in DOMAIN names |->
               (IF names[i] \in e.skip THEN <<59>> ELSE <<>>)
                 \o ItemLine(names[i], f[sec][names[i]])]
         \o <<(<<CR>>)>>

\* the lines, each ended by a line feed; an event's refusal ends it there
write(f, e) ==
    LET secs == Sorted(DOMAIN f)
    IN FlattenSeq([i \in DOMAIN secs |-> SectionLines(f, secs[i], e)])

-----------------------------------------------------------------------------
(* What a caller relies on                                                   *)

\* What a file says is still said after it was written and read again, but for
\* white space around the values: the same sections with the same items, and
\* each value as it was, without blanks before it and possibly with the carriage
\* return of write()'s line behind it.
ReadsItsOwn(lines) ==
    LET left(v) == S!trimLeft(v, v)
        same(g, f) ==
            /\ DOMAIN g = DOMAIN f
            /\ \A s \in DOMAIN f :
                 /\ DOMAIN g[s] = DOMAIN f[s]
                 /\ \A i \in DOMAIN f[s] : g[s][i] \in {left(f[s][i]), left(Append(f[s][i], CR))}
    IN \A f \in {read(Begin, lines, TRUE, Keep).ini} :
         \A back \in {read(Begin, write(f, Keep), TRUE, Keep)} :
             back.ok /\ same(back.ini, f)

\* What is written is read as it was.
WrittenIsRead(lines) ==
    \A f \in {read(Begin, lines, TRUE, Keep).ini} :
        read(Begin, write(f, Keep), TRUE, Keep) = [ok |-> TRUE, ini |-> f]

\* A truth value or a number that is set is the one that is got, also from a
\* file that was written and read in between, and nothing else changes.
SettersReach(lines) ==
    \A f \in {read(Begin, lines, TRUE, Keep).ini},
       v \in {-12, -1, 0, 1, 30}, item \in {<<97>>, <<98>>}, sec \in {NoName, <<97>>} :
      \A b \in {setBoolean(f, v > 0, item, sec)}, n \in {setInteger(f, v, item, sec)} :
        LET again(g) == read(Nothing, write(g, Keep), TRUE, Keep).ini
            other(h, x) == [i \in DOMAIN h[x] \ {y \in {item} : x = sec} |-> h[x][i]]
        IN /\ \A x \in DOMAIN f, g \in {b, n} : other(g, x) = other(f, x)
           /\ \A back \in BOOLEAN :
                /\ \A g \in {IF back THEN again(b) ELSE b} :
                     getBoolean(g, item, sec, ~(v > 0)) = (v > 0)
                /\ \A h \in {IF back THEN again(n) ELSE n} :
                     /\ getInteger(h, item, sec, v + 1) = v
                     /\ getBoolean(h, item, sec, v = 0) = (v # 0)

\* The last line of an item's name in a section is the one that counts, as if
\* the sections of one name were one; a refused section or item leaves the
\* object that was there.
LastLineCounts(lines) ==
    \A f \in {read(Begin, lines, TRUE, Keep).ini},
       whole \in {[i \in DOMAIN lines |-> S!trimLeft(lines[i], lines[i])]} :
      \A real \in {{i \in DOMAIN lines : whole[i] # <<>> /\ whole[i][1] \notin Comment}} :
        \A heads \in {{i \in real : IsSection(whole[i])}},
           item \in {[i \in real |-> ItemOf(IF whole[i][1] = Opens
                                             THEN S!trimRight(whole[i], whole[i]) ELSE whole[i])]} :
          LET refuse(n) == [Keep EXCEPT !.stop = {n}]
              named == UNION {DOMAIN f[s] : s \in DOMAIN f} \ {NoName}
              sec(i) == IF \E h \in heads : h < i
                        THEN SectionOf(whole[Max({h \in heads : h < i})]) ELSE NoName
          IN /\ \A i \in real \ heads :
                  (\A j \in real \ heads :
                      j > i => sec(j) # sec(i) \/ item[j][1] # item[i][1])
                    => getString(f, item[i][1], sec(i), <<0>>) = item[i][2]
             /\ \A n \in named : read(Nothing, lines, TRUE, refuse(n))
                                   = [ok |-> FALSE, ini |-> Nothing]
=============================================================================
