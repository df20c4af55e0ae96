------------------------------- MODULE IpRange -------------------------------
(* IpRange (pw_iprange.cpp) and the ranges of pw_iprange_type: two sorted    *)
(* maps from ranges of addresses to values, one for each version.  Ranges    *)
(* compare as equivalent when they overlap, which is what find() and the     *)
(* refusal of an insertion rest on.  A line of a file is the sequence of its *)
(* words; an address is a number in host order.                              *)
EXTENDS Integers, Sequences, SequencesExt, FiniteSetsExt

CONSTANTS AddressOf,     \* the words inet_pton() takes, with their addresses
          Octet,         \* values of an octet of an address
          Octets         \* octets of an address

Space == Octet ^ Octets
Address == 0 .. Space - 1
Width == CHOOSE n \in 0 .. 24 : 2 ^ n = Space
Versions == {"ipv4", "ipv6"}
Comment == {"#", ";", "'"}

-----------------------------------------------------------------------------
(* ItemTemplate                                                              *)

Item(b, e) == IF b > e THEN [begin |-> e, end |-> b] ELSE [begin |-> b, end |-> e]

\* a word that is no address leaves the bound that was there: 0 for the items
\* that insert() makes, anything for those of find()
s_toValue(old, w) == IF w \in DOMAIN AddressOf THEN {AddressOf[w]} ELSE old
Items(old, b, e) == {Item(x, y) : x \in s_toValue(old, b), y \in s_toValue(old, e)}

Less(a, b) == a.end < b.begin

str(k) == LET word(a) == CHOOSE w \in DOMAIN AddressOf : AddressOf[w] = a
          IN <<word(k.begin), word(k.end)>>

-----------------------------------------------------------------------------
(* The maps: std::map keeps its entries sorted by Less                       *)

Empty == [v \in Versions |-> <<>>]

LowerBound(m, k) == Min({i \in DOMAIN m : ~Less(m[i].key, k)} \cup {Len(m) + 1})

Hit(m, k) == LET i == LowerBound(m, k) IN i <= Len(m) /\ ~Less(k, m[i].key)

\* __insert(): an equivalent key is refused
Insert(m, k, value) ==
    IF Hit(m, k) THEN m
    ELSE InsertAt(m, LowerBound(m, k), [key |-> k, value |-> value])

s_toIpVersion(w) == IF w \in {"ipv6", "IPv6"} THEN "ipv6" ELSE "ipv4"

insert(t, v, begin, end, value) ==
    LET k == CHOOSE i \in Items({0}, begin, end) : TRUE
    IN [t EXCEPT ![v] = Insert(@, k, value)]

\* the low bits of a word in the network's order: its octets are swapped
\* (std::bitset<4> and the second half of 128 bits are written past their
\* ends, which is not modelled: the word holds the bits all the same up to 32
\* and 64)
Mask(bits) ==
    LET low == 2 ^ bits - 1
        octet(i) == (low \div Octet ^ i) % Octet
    IN FoldSet(LAMBDA i, sum : sum + octet(i) * Octet ^ (Octets - 1 - i),
               0, 0 .. Octets - 1)

Bit(n, i) == (n \div 2 ^ i) % 2
Join(a, b, Op(_, _)) ==
    FoldSet(LAMBDA i, sum : sum + 2 ^ i * Op(Bit(a, i), Bit(b, i)), 0,
            0 .. Width - 1)

\* the base with and without the mask
BlockOf(address, bits) ==
    LET mask == Mask(bits)
        low == Join(address, mask, LAMBDA x, y : x * y)
    IN Item(low, Join(low, Space - 1 - mask, LAMBDA x, y : IF x + y > 0 THEN 1 ELSE 0))

insertByCIDR(t, v, base, bits, value) ==
    IF base \notin DOMAIN AddressOf THEN t
    ELSE [t EXCEPT ![v] = Insert(@, BlockOf(AddressOf[base], bits), value)]

\* find4(), find6(): the value, or "" with FALSE; one outcome for each range
\* an unset item may hold
findIn(m, ip) ==
    {IF Hit(m, k) THEN <<TRUE, m[LowerBound(m, k)].value>> ELSE <<FALSE, "">>
        : k \in {Item(x, y) : x \in s_toValue(Address, ip), y \in s_toValue(Address, ip)}}

\* find(): the second map is asked when the first has nothing
find(t, ip) ==
    LET four == findIn(t["ipv4"], ip) IN
    {r \in four : r[1]}
        \cup (IF \E r \in four : ~r[1] THEN findIn(t["ipv6"], ip) ELSE {})

-----------------------------------------------------------------------------
(* Files                                                                     *)

\* a line of readAsText() that is not blank, a comment or too short
Taken(words) == Len(words) >= 3 /\ words[1] \notin Comment

\* the last line counts only when a line feed ends it
readAsText(lines, ended) ==
    LET whole == IF ended \/ lines = <<>> THEN lines ELSE Front(lines)
        take(t, w) == IF ~Taken(w) THEN t
                      ELSE insert(t, s_toIpVersion(w[1]), w[2], w[3],
                                  IF Len(w) > 3 THEN w[4] ELSE "")
    IN FoldLeft(take, Empty, whole)

\* the rows of all writers: version, both bounds and the value, the first
\* version before the second
Rows(t) ==
    LET of(v) == [i \in DOMAIN t[v] |-> <<v>> \o str(t[v][i].key) \o <<t[v][i].value>>]
    IN of("ipv4") \o of("ipv6")

\* an empty value leaves a line of three words
writeAsText(t) ==
    [i \in DOMAIN Rows(t) |-> SelectSeq(Rows(t)[i], LAMBDA w : w # "")]

\* _read_json(): what is no object, or has no number and no two texts, is
\* passed over, as is an unknown version
IsRow(j) == Len(j) = 4 /\ j[1] \in Versions
_read_json(values) ==
    FoldLeft(LAMBDA t, j : IF IsRow(j) THEN insert(t, j[1], j[2], j[3], j[4]) ELSE t,
             Empty, values)
writeAsJson(t) == Rows(t)

\* readAsJson(): with the name of a member the text must be an object, which
\* writeAsJson() never writes
readAsJson(old, values, named) ==
    IF named THEN [ok |-> FALSE, table |-> old]
    ELSE [ok |-> TRUE, table |-> _read_json(values)]

\* readAsSqlite(): a column that is NULL gives everything up, and the table
\* stays as it was
Null == "NULL"
readAsSqlite(old, rows) ==
    IF \E i \in DOMAIN rows : Null \in {rows[i][j] : j \in 2 .. 4}
    THEN [ok |-> FALSE, table |-> old]
    ELSE [ok |-> TRUE, table |-> _read_json(rows)]
writeAsSqlite(t) == Rows(t)

-----------------------------------------------------------------------------
(* What a caller relies on.  given: the lines of a file                      *)

Covers(k, a) == k.begin <= a /\ a <= k.end

\* the ranges of a version that are in force, by the rule of the first come
InForce(given, v) ==
    LET accept(kept, w) ==
            LET k == CHOOSE i \in Items({0}, w[2], w[3]) : TRUE IN
            IF ~Taken(w) \/ s_toIpVersion(w[1]) # v
               \/ \E r \in kept : \E a \in Address : Covers(r.key, a) /\ Covers(k, a)
            THEN kept
            ELSE kept \cup {[key |-> k, value |-> IF Len(w) > 3 THEN w[4] ELSE ""]}
    IN FoldLeft(accept, {}, given)

\* The sorted map answers as a walk over all the ranges would: what find()
\* gives for an address is the value of the one range in force that covers
\* it, the first version before the second, also after ranges that overlap
\* were refused.
FindsWhatCovers(given) ==
    LET t == readAsText(given, TRUE)
        answers(v, a) == {r.value : r \in {q \in InForce(given, v) : Covers(q.key, a)}}
    IN \A w \in DOMAIN AddressOf :
        LET a == AddressOf[w]
            all == IF answers("ipv4", a) # {} THEN answers("ipv4", a) ELSE answers("ipv6", a)
        IN find(t, w) = IF all = {} THEN {<<FALSE, "">>} ELSE {<<TRUE, x>> : x \in all}

\* What a table writes, as text, as JSON or as rows of a table, it reads back
\* as the same table.
ReadsItsOwn(given) ==
    LET t == readAsText(given, TRUE) IN
    /\ readAsText(writeAsText(t), TRUE) = t
    /\ readAsJson(Empty, writeAsJson(t), FALSE) = [ok |-> TRUE, table |-> t]
    /\ readAsSqlite(Empty, writeAsSqlite(t)) = [ok |-> TRUE, table |-> t]

\* A prefix of whole octets covers exactly the addresses that share it.
PrefixesAreBlocks ==
    \A w \in DOMAIN AddressOf, n \in 0 .. Octets :
        LET bits == CHOOSE b \in 0 .. Width : 2 ^ b = Octet ^ n
            size == Octet ^ (Octets - n)
            first == (AddressOf[w] \div size) * size
        IN insertByCIDR(Empty, "ipv4", w, bits, "x")["ipv4"]
             = <<[key |-> Item(first, first + size - 1), value |-> "x"]>>
=============================================================================
