------------------------------- MODULE Common -------------------------------
(* pw_common: hosts and urls as text, alone and in lists, and blobs, which   *)
(* own their bytes or only point at them.  A text is a sequence of           *)
(* characters.                                                               *)
EXTENDS Integers, Sequences, SequencesExt, FiniteSetsExt

Colon == ":"
Slash == "/"
LIST_DEL == ";"

Places(s, c) == {i \in DOMAIN s : s[i] = c}

-----------------------------------------------------------------------------
(* host_type and url_type                                                    *)

\* read(): the last colon parts them; {} when there is none
readHost(s) ==
    LET at == Places(s, Colon) IN
    {[host |-> SubSeq(s, 1, Max(at) - 1), service |-> SubSeq(s, Max(at) + 1, Len(s))]
        : x \in IF at = {} THEN {} ELSE {0}}
writeHost(h) == h.host \o <<Colon>> \o h.service

\* read(): the first colon, and the first slash behind it
readUrl(s) ==
    LET at == Places(s, Colon)
        pos == Min(at)
        behind == {i \in Places(s, Slash) : i > pos}
        pos2 == IF behind = {} THEN Len(s) + 1 ELSE Min(behind)
    IN {[host |-> SubSeq(s, 1, pos - 1), service |-> SubSeq(s, pos + 1, pos2 - 1),
         page |-> SubSeq(s, pos2, Len(s))] : x \in IF at = {} THEN {} ELSE {0}}
writeUrl(u) == u.host \o <<Colon>> \o u.service \o u.page

\* operator host_type and operator = (const host_type&)
HostOfUrl(u) == [host |-> u.host, service |-> u.service]
UrlOfHost(h) == [host |-> h.host, service |-> h.service, page |-> <<>>]

\* url_type(const uri_type&): port is the uri's or its scheme's, a null part
\* is none; the fragment counts only behind a query
UrlOfUri(uri, port) ==
    [host |-> uri.host, service |-> IF uri.port = <<>> THEN port ELSE uri.port,
     page |-> (IF uri.path = <<>> THEN <<Slash>> ELSE uri.path)
              \o (IF uri.query = <<>> THEN <<>>
                  ELSE <<"?">> \o uri.query
                       \o (IF uri.fragment = <<>> THEN <<>>
                           ELSE <<"#">> \o uri.fragment))]

\* the tokens of getNext2(): delimiters in a row count as one
Items(s) ==
    LET first == {i \in DOMAIN s : s[i] # LIST_DEL /\ (i = 1 \/ s[i - 1] = LIST_DEL)}
        last(i) == Max({j \in i .. Len(s) : \A k \in i .. j : s[k] # LIST_DEL})
        order == SetToSortSeq(first, <)
    IN [n \in DOMAIN order |-> SubSeq(s, order[n], last(order[n]))]

\* s_read() of both: what is no host or url is left out
readOne(type, s) == IF type = "host" THEN readHost(s) ELSE readUrl(s)
writeOne(type, x) == IF type = "host" THEN writeHost(x) ELSE writeUrl(x)

s_read(type, s) == FlattenSeq([i \in DOMAIN Items(s) |-> SetToSeq(readOne(type, Items(s)[i]))])

s_write(type, list) ==
    FlattenSeq([i \in DOMAIN list |->
        writeOne(type, list[i]) \o (IF i < Len(list) THEN <<LIST_DEL>> ELSE <<>>)])

-----------------------------------------------------------------------------
(* blob_type: type tells who frees buf; a byte that nothing wrote is Unset   *)

Unset == "unset"
Null == [type |-> "CT_MALLOC", buf |-> <<>>, null |-> TRUE]
Blob(type, s) == [type |-> type, buf |-> s, null |-> FALSE]
empty(b) == b.null \/ b.buf = <<>>

\* assign(): an empty blob copied is a null one, a text of no bytes is not
assignBlob(b, type) == IF type = "CT_MALLOC" /\ empty(b) THEN Null ELSE [b EXCEPT !.type = type]
assign(s, type) == Blob(type, s)
clear == Null

\* allocate(): bytes nobody has written
allocate(old, n) == IF n = 0 THEN old ELSE Blob("CT_MALLOC", [i \in 1 .. n |-> Unset])

\* append() at pos: bytes from pos on are written over, and those behind them
\* stay.  A blob that only points takes a copy of what is before pos alone.
append(b, pos, s) ==
    IF s = <<>> THEN b
    ELSE IF empty(b) THEN assign(s, "CT_MALLOC")
    ELSE LET at == IF Len(b.buf) < pos THEN Len(b.buf) ELSE pos
             size == IF Len(b.buf) - at < Len(s) THEN at + Len(s) ELSE Len(b.buf)
             kept == IF b.type = "CT_POINTER" THEN SubSeq(b.buf, 1, at) ELSE b.buf
         IN Blob("CT_MALLOC",
                 [i \in 1 .. size |->
                    CASE i > at /\ i <= at + Len(s) -> s[i - at]
                      [] i \in DOMAIN kept /\ ~(i > at /\ i <= at + Len(s)) -> kept[i]
                      [] OTHER -> Unset])

\* move assignment does not free what the target had, which is the only blob
\* that leaks
Leaks(target) == target.type = "CT_MALLOC" /\ ~target.null

-----------------------------------------------------------------------------
(* What a caller relies on                                                   *)

\* A list that was read writes a text that reads as the same list, and so does
\* each of its members; a url loses no character but those of a list.
ListsReadBack(s) ==
    LET list(type) == s_read(type, s)
        urls == list("url")
    IN /\ \A type \in {"host", "url"} :
            /\ s_read(type, s_write(type, list(type))) = list(type)
            /\ \A i \in DOMAIN list(type) :
                 readOne(type, writeOne(type, list(type)[i])) = {list(type)[i]}
       /\ Len(list("host")) = Cardinality({i \in DOMAIN Items(s) : Contains(Items(s)[i], Colon)})
       /\ FlattenSeq([i \in DOMAIN urls |-> writeUrl(urls[i])])
            = FlattenSeq(SelectSeq(Items(s), LAMBDA t : Contains(t, Colon)))
       /\ \A i \in DOMAIN urls :
            LET h == HostOfUrl(urls[i])
            IN HostOfUrl(UrlOfHost(h)) = h /\ writeUrl(UrlOfHost(h)) = writeHost(h)

\* Bytes appended one part after the other are the bytes of the blob, whoever
\* owned the first part, and appending at a place never changes what is before
\* it.
AppendsAddUp(s) ==
    \A n \in 0 .. Len(s), type \in {"CT_MALLOC", "CT_POINTER"}, pos \in 0 .. Len(s) :
        LET first == assign(SubSeq(s, 1, n), type)
            rest == SubSeq(s, n + 1, Len(s))
            both == append(first, n, rest)
            at == IF pos < n THEN pos ELSE n
        IN /\ both.buf = s
           /\ n > 0 => SubSeq(append(first, pos, rest).buf, 1, at) = SubSeq(s, 1, at)
           /\ rest # <<>> => both.type = "CT_MALLOC"
=============================================================================
