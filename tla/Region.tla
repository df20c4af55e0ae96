------------------------------- MODULE Region -------------------------------
(* Region (pw_region.cpp): names of regions with their country code and      *)
(* telephone code, found by either.  Codes compare without case; a telephone *)
(* code is a sequence of digits.                                             *)
EXTENDS Integers, Sequences, SequencesExt, FiniteSetsExt

CONSTANT Codes         \* the country codes with their upper case

\* list: m_region; code: m_code_index, the place in list for each code
\* (upper case); phones: m_phone_index in the order of insertion.  m_codes
\* and m_phones only hold the characters.
Empty == [list |-> <<>>, code |-> <<>>, phones |-> <<>>]

Known(r, c) == \E i \in DOMAIN r.code : r.code[i].code = Codes[c]

\* _insert(): when the code is there already, the way back erases that code
\* from the index, not only the new region from the list
_insert(r, name, c, phone) ==
    LET n == Len(r.list) + 1 IN
    IF Known(r, c)
    THEN [r EXCEPT !.code = SelectSeq(@, LAMBDA e : e.code # Codes[c])]
    ELSE [list |-> Append(r.list, [name |-> name, code |-> c, phone |-> phone]),
          code |-> Append(r.code, [code |-> Codes[c], at |-> n]),
          phones |-> Append(r.phones, [phone |-> phone, at |-> n])]

\* s_initialize(): the results of _insert() are not looked at
s_initialize(rows) == FoldLeft(LAMBDA r, w : _insert(r, w[1], w[2], w[3]), Empty, rows)

findByCode(r, c) ==
    IF ~Known(r, c) THEN {}
    ELSE {r.list[r.code[i].at] : i \in {j \in DOMAIN r.code : r.code[j].code = Codes[c]}}

\* findByPhone(): a leading '+' is skipped, and the number is cut from its end
\* until a code is equal to it.  An empty number is looked up once; then its
\* length wraps and it is looked up for ever
Plus == "+"
RECURSIVE Cut(_, _)
Cut(r, number) ==
    LET equal == SelectSeq(r.phones, LAMBDA e : e.phone = number) IN
    CASE equal # <<>> -> [i \in DOMAIN equal |-> r.list[equal[i].at]]
      [] equal = <<>> /\ Len(number) = 1 -> <<>>
      [] OTHER -> Cut(r, Front(number))
findByPhone(r, number) ==
    Cut(r, IF number # <<>> /\ number[1] = Plus THEN Tail(number) ELSE number)

\* write(): a count and a line of three words for each region
write(r) == [count |-> Len(r.list), line |-> r.list]

\* read(): nothing is read when the count is 0, and everything is given up
\* when a line ends before its third word (an empty word at the end of a line
\* is none) or when a code comes twice
read(old, ini) ==
    LET fits(i) == ini.line[i].phone # <<>>
        new == s_initialize([i \in DOMAIN ini.line |->
                    <<ini.line[i].name, ini.line[i].code, ini.line[i].phone>>])
    IN IF ini.count > 0 /\ (\A i \in DOMAIN ini.line : fits(i))
          /\ Len(new.list) = Len(ini.line)
       THEN [ok |-> TRUE, region |-> new] ELSE [ok |-> FALSE, region |-> old]

-----------------------------------------------------------------------------
(* What a caller relies on.  rows: the rows of the table                     *)

\* A number finds every region of the longest telephone code it begins with,
\* each once and in the table's order, and none else.
LongestCode(rows, numbers) ==
    LET r == s_initialize(rows)
        codes(n) == {e.phone : e \in {r.list[i] : i \in DOMAIN r.list}}
                        \cap {SubSeq(n, 1, k) : k \in 1 .. Len(n)}
        longest(n) == CHOOSE c \in codes(n) : \A d \in codes(n) : Len(d) <= Len(c)
    IN \A n \in numbers :
        findByPhone(r, n) = findByPhone(r, <<Plus>> \o n)
        /\ findByPhone(r, n) = IF codes(n) = {} THEN <<>>
                               ELSE SelectSeq(r.list, LAMBDA e : e.phone = longest(n))

\* A code that is in the table once finds its region; of one that is there
\* more often, at most one region is found, one that has it.  (It may be none:
\* a row that is refused takes the code of the earlier row out of the index.)
CodeFindsItsRegion(rows) ==
    LET r == s_initialize(rows)
        with(c) == {i \in DOMAIN rows : Codes[rows[i][2]] = Codes[c]}
    IN \A c \in DOMAIN Codes :
        /\ Cardinality(findByCode(r, c)) <= 1
        /\ \A e \in findByCode(r, c) : Codes[e.code] = Codes[c]
        /\ Cardinality(with(c)) = 1 => findByCode(r, c) # {}

\* Every region that is in the table is found by its code.
EveryRegionIsFound(rows) ==
    LET r == s_initialize(rows)
    IN \A i \in DOMAIN r.list : r.list[i] \in findByCode(r, r.list[i].code)

\* What is written is read back as the same table, unless a region has no
\* telephone code or a code is there twice: then nothing is read.
ReadsItsOwn(rows) ==
    LET r == s_initialize(rows)
        back == read(Empty, write(r))
        twice == \E i, j \in DOMAIN r.list :
                    i # j /\ Codes[r.list[i].code] = Codes[r.list[j].code]
        mute == \E i \in DOMAIN r.list : r.list[i].phone = <<>>
    IN /\ back.ok <=> (r.list # <<>> /\ ~twice /\ ~mute)
       /\ back.ok => back.region.list = r.list
=============================================================================
