------------------------------- MODULE Compress -------------------------------
(* Compress (pw_compress.cpp): the loops that drive a stream of zlib, with a *)
(* buffer of m_chunk_size for what comes out, and the objects that all calls *)
(* of s_compress() and s_uncompress() share.  A text is a sequence of        *)
(* letters; what it is packed into is a head, cells of one or two equal      *)
(* letters, and a tail.                                                      *)
EXTENDS Integers, Sequences, SequencesExt, FiniteSetsExt

Cell(kind, of) == [kind |-> kind, of |-> of]
HeadCell == Cell("head", <<>>)
TailCell == Cell("tail", <<>>)
Least(a, b) == IF a < b THEN a ELSE b

-----------------------------------------------------------------------------
(* zlib.  held: what deflate() keeps until it is told to finish; out: what   *)
(* found no room yet; begun, ended: whether the head and the tail were seen  *)

Begin == [held |-> <<>>, out |-> <<>>, begun |-> FALSE, ended |-> FALSE]

RECURSIVE Cells(_)
Cells(s) ==
    CASE s = <<>> -> <<>>
      [] Len(s) > 1 /\ s[1] = s[Least(2, Len(s))] ->
            <<Cell("data", SubSeq(s, 1, 2))>> \o Cells(SubSeq(s, 3, Len(s)))
      [] OTHER -> <<Cell("data", <<s[1]>>)>> \o Cells(Tail(s))

Given(z, all, room, rest, code) ==
    [stream |-> [z EXCEPT !.out = SubSeq(all, room + 1, Len(all))],
     given |-> SubSeq(all, 1, Least(room, Len(all))), rest |-> rest, code |-> code]

\* deflate(): an eager one packs what it gets at once
deflate(z, in, room, finish, eager) ==
    LET more == z.held \o in
        packs == eager \/ finish
        all == z.out \o (IF z.begun THEN <<>> ELSE <<HeadCell>>)
                 \o (IF packs THEN Cells(more) ELSE <<>>)
                 \o (IF finish /\ ~z.ended THEN <<TailCell>> ELSE <<>>)
    IN Given([z EXCEPT !.held = IF packs THEN <<>> ELSE more, !.begun = TRUE,
                       !.ended = @ \/ finish], all, room, <<>>, "Z_OK")

\* inflate(): reads on until the room is full or nothing is left; a call that
\* neither reads nor gives anything, and a finish before the end, is an error
RECURSIVE Inflated(_, _, _)
Inflated(z, in, room) ==
    LET c == Head(in) IN
    CASE z.ended \/ in = <<>> -> Given(z, z.out, room, in, "Z_OK")
      [] ~(z.ended \/ in = <<>>) /\ (c.kind = "head") = z.begun ->
            Given(z, z.out, room, in, "Z_DATA_ERROR")
      [] ~(z.ended \/ in = <<>>) /\ (c.kind = "head") # z.begun
         /\ c.kind = "data" /\ Len(z.out) >= room -> Given(z, z.out, room, in, "Z_OK")
      [] OTHER -> Inflated([z EXCEPT !.out = @ \o c.of, !.begun = TRUE,
                                     !.ended = c.kind = "tail"], Tail(in), room)
inflate(z, in, room, finish) ==
    LET Ended(r) == r.stream.ended /\ r.stream.out = <<>>
        Stuck(r) == r.rest = in /\ r.given = <<>>
        Judged(r) ==
            CASE r.code = "Z_OK" /\ Ended(r) -> [r EXCEPT !.code = "Z_STREAM_END"]
              [] r.code = "Z_OK" /\ ~Ended(r) /\ (Stuck(r) \/ finish) ->
                    [r EXCEPT !.code = "Z_BUF_ERROR"]
              [] OTHER -> r
    IN Judged(Inflated(z, in, room))

-----------------------------------------------------------------------------
(* _pw_compress and _pw_uncompress: one code, but for the call of zlib       *)

CHUNK_SIZE == 3

create(type, n) ==
    [type |-> type, m_init |-> TRUE, m_chunk_size |-> IF n = 0 THEN CHUNK_SIZE ELSE n,
     stream |-> Begin]
createCompress(eager, n) == create(IF eager THEN "eager" ELSE "lazy", n)
createUncompress(n) == create("uncompress", n)

reinitialize(c, n) ==
    [c EXCEPT !.m_init = TRUE, !.m_chunk_size = n, !.stream = Begin]

Turn(c, in, finish) ==
    IF c.type = "uncompress" THEN inflate(c.stream, in, c.m_chunk_size, finish)
    ELSE deflate(c.stream, in, c.m_chunk_size, finish, c.type = "eager")

Did(c, ok, out) == [c |-> c, ok |-> ok, out |-> out]
Behind(out, d) == [d EXCEPT !.out = out \o @]

\* do ... while ( avail_out == 0 ): every error, also that of a call that had
\* nothing to do, ends the stream
RECURSIVE Drain(_, _, _)
Drain(c, in, finish) ==
    LET Then(r, next) ==
            CASE r.code \notin {"Z_OK", "Z_STREAM_END"} ->
                    Did([next EXCEPT !.m_init = FALSE], FALSE, <<>>)
              [] r.code \in {"Z_OK", "Z_STREAM_END"} /\ Len(r.given) = c.m_chunk_size ->
                    Behind(r.given, Drain(next, r.rest, finish))
              [] OTHER -> Did(next, TRUE, r.given)
        After(r) == Then(r, [c EXCEPT !.stream = r.stream])
    IN After(Turn(c, in, finish))

RECURSIVE update(_, _)
update(c, in) ==
    LET n == Least(c.m_chunk_size, Len(in))
        Then(d) == IF d.ok THEN Behind(d.out, update(d.c, SubSeq(in, n + 1, Len(in)))) ELSE d
    IN IF c.m_init /\ in # <<>> THEN Then(Drain(c, SubSeq(in, 1, n), FALSE))
       ELSE Did(c, c.m_init, <<>>)

finalize(c) ==
    LET d == Drain(c, <<>>, TRUE)
    IN IF c.m_init THEN [d EXCEPT !.c.m_init = FALSE] ELSE Did(c, FALSE, <<>>)

\* update() of each piece and finalize(), until one of them fails
Run(c, pieces) ==
    LET step(r, in) == IF r.ok THEN Behind(r.out, update(r.c, in)) ELSE r
        End(d) == IF d.ok THEN Behind(d.out, finalize(d.c)) ELSE d
    IN End(FoldLeft(step, Did(c, TRUE, <<>>), pieces))

\* s_compress() and s_uncompress() with the object that was there
s_compress(c, s, n) == Run(reinitialize(c, n), <<s>>)
s_uncompress(c, s, n) == Run(reinitialize(c, n), <<s>>)
\* of a blob in place: it is replaced when all went well
s_uncompressInPlace(c, s, n) ==
    LET Replaced(r) == IF r.ok THEN r.out ELSE s IN Replaced(s_uncompress(c, s, n))

-----------------------------------------------------------------------------
(* What a caller relies on                                                   *)

Content(cells) == FlattenSeq([i \in DOMAIN cells |-> cells[i].of])

\* what update() hands to zlib at a time
PartsOf(s, n) ==
    [i \in 1 .. (Len(s) + n - 1) \div n |-> SubSeq(s, (i - 1) * n + 1, Least(i * n, Len(s)))]

\* a part of the input, before the end, whose letters fill the buffer to the
\* last one: the loop asks once more, and the answer is taken for an error
Fills(parts, n) ==
    \E i \in DOMAIN parts :
        /\ ~Contains(parts[i], TailCell)
        /\ Content(parts[i]) # <<>> /\ Len(Content(parts[i])) % n = 0

\* What a text was packed into, cut behind its first j cells, is the text.
UnpacksTo(packed, m, j, s) ==
    LET cut == Front(packed)
    IN \A one \in {SubSeq(packed, 1, j)}, two \in {SubSeq(packed, j + 1, Len(packed))} :
         \A back \in {Run(createUncompress(m), <<one, two>>)} :
           \A again \in {s_uncompress(back.c, packed \o <<HeadCell>>, m)} :
             /\ back.ok <=> ~Fills(PartsOf(one, m) \o PartsOf(two, m), m)
             /\ back.ok => back.out = s
             /\ again.ok <=> ~Fills(PartsOf(packed, m), m)
             /\ again.ok => again.out = s
             /\ ~s_uncompress(back.c, cut, m).ok
             /\ s_uncompressInPlace(back.c, cut, m) = cut

\* A text is packed into the same cells, but for the pairs, whatever the chunk
\* and the pieces, and unpacked to itself however it comes, with what is behind
\* it left alone, unless a part fills the buffer: then it is refused.  A stream
\* that is cut is refused.  What was done with an object before, well or not,
\* changes nothing.
StreamsReadBack(s) ==
    \A n \in 1 .. 3, eager \in BOOLEAN, i \in 0 .. Len(s) :
      \A new \in {createCompress(eager, n)} :
        \A r \in {Run(new, <<SubSeq(s, 1, i), SubSeq(s, i + 1, Len(s))>>)} :
          /\ r.ok /\ Content(r.out) = s
          /\ Head(r.out) = HeadCell /\ Last(r.out) = TailCell
          /\ s_compress(r.c, s, n).out = s_compress(new, s, n).out
          /\ \A m \in 1 .. 3, j \in 0 .. Len(r.out) : UnpacksTo(r.out, m, j, s)
=============================================================================
