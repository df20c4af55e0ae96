------------------------------- MODULE StrFltr -------------------------------
(* StringFilter (pw_strfltr.cpp): rules of several kinds that are tried in   *)
(* the order of their lines, and a set of digests that is tried last.  A     *)
(* text is a sequence of letters; a line is what reading has cut from it:    *)
(* its first character's kind, the word before '>' and the rest.             *)
EXTENDS Integers, Sequences, SequencesExt, FiniteSetsExt

CONSTANTS Upper        \* the letters with their upper case

Letters == DOMAIN Upper
Dot == "."             \* the one operator of the regular expressions here
Bad == "("             \* what regcomp() and std::regex refuse

_Str2Pattern == [w \in {"substr", "substring", "substr_icase", "substring_icase",
                        "regex", "regex_icase", "hash"} |->
                 CASE w \in {"substr", "substring"} -> "SUBSTRING"
                   [] w \in {"substr_icase", "substring_icase"} -> "SUBSTRING_I"
                   [] w = "regex" -> "REGEX"
                   [] w = "regex_icase" -> "REGEX_I"
                   [] w = "hash" -> "HASH"]
_Pattern2Str == [p \in {"SUBSTRING", "SUBSTRING_I", "REGEX", "REGEX_I", "HASH"} |->
                 CASE p = "SUBSTRING" -> "substr"
                   [] p = "SUBSTRING_I" -> "substr_icase"
                   [] p = "REGEX" -> "regex"
                   [] p = "REGEX_I" -> "regex_icase"
                   [] p = "HASH" -> "hash"]
toPattern(w) == IF w \in DOMAIN _Str2Pattern THEN _Str2Pattern[w] ELSE "NONE"

toupper(t) == [i \in DOMAIN t |-> IF t[i] \in Letters THEN Upper[t[i]] ELSE t[i]]

\* the library of regular expressions: one letter or any
Regex(needle, key, Same(_, _)) ==
    \E from \in 0 .. Len(key) - Len(needle) : \A i \in DOMAIN needle :
        needle[i] = Dot \/ Same(needle[i], key[from + i])

Holds(needle, key) ==
    \E from \in 0 .. Len(key) - Len(needle) :
        needle = SubSeq(key, from + 1, from + Len(needle))

\* compile(): the needle that is kept, or none.  The rule without case keeps
\* it in upper case
Compile(pattern, needle) ==
    CASE pattern = "SUBSTRING" -> IF needle = <<>> THEN {} ELSE {needle}
      [] pattern = "SUBSTRING_I" -> IF needle = <<>> THEN {} ELSE {toupper(needle)}
      [] pattern \in {"REGEX", "REGEX_I"} -> IF Contains(needle, Bad) THEN {} ELSE {needle}
      [] OTHER -> {}

isMatched(rule, key) ==
    CASE rule.pattern = "SUBSTRING" -> Holds(rule.needle, key)
      [] rule.pattern = "SUBSTRING_I" -> Holds(rule.needle, toupper(key))
      [] rule.pattern = "REGEX" -> Regex(rule.needle, key, LAMBDA a, b : a = b)
      [] rule.pattern = "REGEX_I" ->
            Regex(rule.needle, key, LAMBDA a, b : toupper(<<a>>) = toupper(<<b>>))

\* a digest is known by the text it is of; what is no 32 bytes is none
Digest(t) == <<"sha256", t>>
DecodedHash(t) == IF Contains(t, Bad) THEN {} ELSE {Digest(t)}

Empty == [cont |-> <<>>, hash |-> {}]

\* add(), and what reading does with a line of the same pattern
Add(f, pattern, needle) ==
    IF pattern = "HASH"
    THEN [f EXCEPT !.hash = @ \cup DecodedHash(needle)]
    ELSE [f EXCEPT !.cont = @ \o SetToSeq({[pattern |-> pattern, needle |-> n]
                                             : n \in Compile(pattern, needle)})]

\* add()'s result: a digest that is known already is refused
Added(f, pattern, needle) ==
    IF pattern = "HASH" THEN ~(DecodedHash(needle) \subseteq f.hash)
    ELSE Compile(pattern, needle) # {}

\* a blank line, a comment, and a line without a rest are passed over
Line(first, word, rest) == [first |-> first, word |-> word, rest |-> rest]
Comment == {"sharp", "quote", "semicolon", "grave"}
IsRule(l) == l.first \notin Comment \cup {"none"} /\ l.rest # <<>>

\* readFromStream(): a new filter takes the place of the old one at the end
readFromStream(lines) ==
    FoldLeft(LAMBDA f, l : IF IsRule(l) THEN Add(f, toPattern(l.word), l.rest) ELSE f,
             Empty, lines)

\* writeToStream(): the rules alone, the digests are not written
writeToStream(f) ==
    [i \in DOMAIN f.cont |->
        Line("s", _Pattern2Str[f.cont[i].pattern], f.cont[i].needle)]

\* check2(): the first rule that matches, with its needle
check2(f, key) ==
    LET hits == {i \in DOMAIN f.cont : isMatched(f.cont[i], key)} IN
    CASE hits # {} -> <<f.cont[Min(hits)].pattern, f.cont[Min(hits)].needle>>
      [] hits = {} /\ f.hash # {} /\ Digest(key) \in f.hash -> <<"HASH", Digest(key)>>
      [] OTHER -> <<"NONE", <<>>>>

check(f, key) ==
    LET hits == {i \in DOMAIN f.cont : isMatched(f.cont[i], key)} IN
    IF hits # {} THEN f.cont[Min(hits)].pattern
    ELSE IF Digest(key) \in f.hash THEN "HASH" ELSE "NONE"

-----------------------------------------------------------------------------
(* What a caller relies on                                                   *)

\* the lines that are rules, each with what its words say of a key
Says(l, key) ==
    LET same(a, b) == toupper(<<a>>) = toupper(<<b>>)
        at(Same(_, _)) == \E from \in 0 .. Len(key) - Len(l.rest) :
                            \A i \in DOMAIN l.rest : Same(l.rest[i], key[from + i])
    IN CASE toPattern(l.word) = "SUBSTRING" -> at(LAMBDA a, b : a = b)
         [] toPattern(l.word) = "SUBSTRING_I" -> at(same)
         [] toPattern(l.word) = "REGEX" ->
              ~Contains(l.rest, Bad) /\ at(LAMBDA a, b : a = Dot \/ a = b)
         [] toPattern(l.word) = "REGEX_I" ->
              ~Contains(l.rest, Bad) /\ at(LAMBDA a, b : a = Dot \/ same(a, b))
         [] OTHER -> FALSE

\* What check() answers for a key is the pattern of the first line of the file
\* that matches it, and the digests come last whatever their lines' place;
\* check2() answers the same; and a filter that is written and read again
\* answers the same for every key that a rule matches or nothing does.
FirstLineDecides(lines, keys) ==
    LET f == readFromStream(lines)
        again == readFromStream(writeToStream(f))
        rules == SelectSeq(lines, IsRule)
        hashed(k) == \E i \in DOMAIN rules : rules[i].word = "hash" /\ rules[i].rest = k
    IN \A k \in keys :
        LET hits == {i \in DOMAIN rules : Says(rules[i], k)} IN
        /\ check(f, k) = IF hits # {} THEN toPattern(rules[Min(hits)].word)
                         ELSE IF hashed(k) /\ ~Contains(k, Bad) THEN "HASH" ELSE "NONE"
        /\ check2(f, k)[1] = check(f, k)
        /\ check(f, k) # "HASH" => check(again, k) = check(f, k)
        /\ check(f, k) = "HASH" => check(again, k) \in {"HASH", "NONE"}

\* A filter that is written and read again answers the same for every key.
WrittenFilters(lines, keys) ==
    \A f \in {readFromStream(lines)} :
        \A again \in {readFromStream(writeToStream(f))}, k \in keys :
            check(again, k) = check(f, k)
=============================================================================
