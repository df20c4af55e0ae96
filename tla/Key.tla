--------------------------------- MODULE Key ---------------------------------
(* KeyTemplate and KeyCode (pw_key_tpl.h, pw_key.cpp): a text in a fixed     *)
(* array of MAX_SIZE + 1 cells.  A character is a number, NUL is 0; the      *)
(* cells behind the closing NUL keep what was there before.                  *)
EXTENDS Integers, Sequences, SequencesExt, FiniteSetsExt

CONSTANTS
    MAX_SIZE,
    Fresh       \* what the cells hold before they are written

LOCAL T == INSTANCE Tokenizer WITH CR <- 13, LF <- 10, Delimiter <- 32, Letter <- 97

Key(buf, size) == [m_buf |-> buf, m_size |-> size]
Content(k) == SubSeq(k.m_buf, 1, k.m_size)

\* strlen(): the text in front of the first NUL
length(v) == LET nuls == {i \in DOMAIN v : v[i] = 0}
             IN IF nuls = {} THEN Len(v) ELSE Min(nuls) - 1

\* trait_type::copy(), the NUL and m_size
Copied(k, v, n) ==
    Key([i \in DOMAIN k.m_buf |->
           CASE i <= n -> v[i] [] i = n + 1 -> 0 [] OTHER -> k.m_buf[i]], n)

empty == Key([i \in 1 .. MAX_SIZE + 1 |-> IF i = 1 THEN 0 ELSE Fresh], 0)
clear(k) == Copied(k, <<>>, 0)

\* assign(): what is longer is cut
assignLen(k, v, len) == Copied(k, v, Min({MAX_SIZE, len}))
assignText(k, v) == assignLen(k, v, length(v))
assignKey(k, v) == Copied(k, v.m_buf, v.m_size)
truncate(k, n) == Key([k.m_buf EXCEPT ![n + 1] = 0], n)

\* assign() of a token: what is longer is refused and clears the key; by one
\* (see Tokenizer) it is taken, and its NUL is written behind the array, which
\* is not modelled: such tokens are not given
assignToken(k, t) ==
    LET Taken(r) == IF r.ok THEN Copied(k, T!Text(t, r.span), T!Size(r.span)) ELSE clear(k)
    IN Taken(T!getNext(t, T!Begin, FALSE, 32, MAX_SIZE + 1))

\* format() and formatV(): what is longer clears the key
format(k, v) ==
    IF length(v) <= MAX_SIZE THEN Copied(k, v, length(v)) ELSE clear(k)

\* KeyCode: the first cells as one number, here their sequence; the number
\* that is assigned leaves m_size alone
toInt32(k) == SubSeq(k.m_buf, 1, MAX_SIZE)
assignInt32(k, cells) == Key(cells \o <<0>>, k.m_size)

\* compare() with another key and with a text; the signs only
compareTo(a, b, n) ==
    LET differ == {i \in 1 .. n : a[i] # b[i]}
    IN IF differ = {} THEN 0 ELSE IF a[Min(differ)] < b[Min(differ)] THEN -1 ELSE 1
Ordered(a, m, b, n) ==
    LET c == compareTo(a, b, Min({m, n}))
    IN IF m = n \/ c # 0 THEN c ELSE IF m > n THEN 1 ELSE -1
compare(k, j) == Ordered(k.m_buf, k.m_size, j.m_buf, j.m_size)
compareText(k, v) == Ordered(k.m_buf, k.m_size, v, length(v))

hash(k) == FoldLeft(LAMBDA sum, c : sum + c, 0, Content(k))

-----------------------------------------------------------------------------
(* calls: <<name, argument>> in the order they are made                      *)

Call(k, c) ==
    CASE c[1] = "text" -> assignText(k, c[2])
      [] c[1] = "token" -> assignToken(k, c[2])
      [] c[1] = "format" -> format(k, c[2])
      [] c[1] = "number" -> assignInt32(k, c[2])
      [] c[1] = "cut" -> truncate(k, Min({c[2], k.m_size}))
After(calls) == FoldLeft(Call, empty, calls)

\* What was in a key before leaves nothing that one can see: a key is the same
\* as a new one with its text in every comparison, for its hash and as a
\* C string, but for a NUL in the text, and, when its text fills it, as a
\* number.  (A shorter code's number holds what was there before.)
KeysHaveNoPast(calls) ==
    \A n \in DOMAIN calls :
      \A k \in {After(SubSeq(calls, 1, n - 1))} :
        \A next \in {Call(k, calls[n])} :
          \A new \in {IF calls[n][1] = "cut" THEN assignLen(empty, Content(k), next.m_size)
                      ELSE Call(empty, calls[n])} :
            calls[n][1] # "number" =>
              /\ compare(next, new) = 0 /\ hash(next) = hash(new)
              /\ 0 \notin Range(Content(new)) =>
                    /\ compareText(next, next.m_buf) = 0
                    /\ compare(next, k) = -compareText(k, Content(new))
              /\ next.m_size = MAX_SIZE => toInt32(next) = toInt32(new)
=============================================================================
