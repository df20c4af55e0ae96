------------------------------ MODULE HttpText ------------------------------
(* The texts of HTTP (pw_httppacket.cpp): names of methods, versions and     *)
(* encodings, forms, first lines and whole packets.  A name is a value; a    *)
(* form and a uri are sequences of bytes, whose URL coding is that of Codec. *)
(* For TLC only: Codec recurses.                                             *)
EXTENDS Integers, Sequences, SequencesExt, FiniteSetsExt, TLC

LOCAL C == INSTANCE Codec

And == 38
Equals == 61

-----------------------------------------------------------------------------
(* Names.  strcasecmp(): a word stands for all its spellings                 *)

Methods == {"NONE", "GET", "HEAD", "POST", "PUT", "DELETE", "TRACE", "CONNECT", "OPTIONS"}
Versions == {"HTTP/1.0", "HTTP/1.1", "HTTP/2"}
Encodings == {"deflate", "gzip", "sdch", "identity"}

\* toMethod(): TRACE is no method it knows
toMethod(w) == IF w \in Methods \ {"TRACE"} THEN w ELSE "NONE"
toVersion(w) == IF w \in Versions THEN w ELSE "HTTP/1.0"
toContentEncoding(w) == IF w \in Encodings THEN w ELSE "identity"
toStringA(x) == x
isSsl(scheme) == scheme = "https"

-----------------------------------------------------------------------------
(* Forms                                                                     *)

Parts(s) ==
    LET at == SetToSortSeq({0} \cup {i \in DOMAIN s : s[i] = And} \cup {Len(s) + 1}, <)
        all == [n \in 1 .. Len(at) - 1 |-> SubSeq(s, at[n] + 1, at[n + 1] - 1)]
    IN IF all[Len(all)] = <<>> THEN Front(all) ELSE all

\* a part: its key, the one of the part before when it is empty, and its value
KeyOf(t, before) ==
    LET at == {i \in DOMAIN t : t[i] = Equals} IN
    IF t = <<>> THEN before ELSE IF at = {} THEN t ELSE SubSeq(t, 1, Min(at) - 1)
ValueOf(t) ==
    LET at == {i \in DOMAIN t : t[i] = Equals} IN
    IF at = {} THEN <<>> ELSE C!DecodeURL("blob", SubSeq(t, Min(at) + 1, Len(t)))

\* splitUrlencodedForm(): no key and a key that is there already end it, and
\* out is left alone
TakePart(r, t) ==
    LET key == KeyOf(t, r.key) IN
    IF ~r.ok \/ key = <<>> \/ key \in DOMAIN r.form THEN [r EXCEPT !.ok = FALSE]
    ELSE [r EXCEPT !.key = key, !.form = @ @@ (key :> ValueOf(t))]
splitUrlencodedForm(old, s) ==
    LET r == FoldLeft(TakePart, [ok |-> TRUE, key |-> <<>>, form |-> <<>>], Parts(s))
    IN IF r.ok THEN [ok |-> TRUE, form |-> r.form] ELSE [ok |-> FALSE, form |-> old]

\* mutant: the value is written as it is
FormPart_Raw(form, k) == k \o <<Equals>> \o form[k]

\* a key is written as it is
FormPart(form, k) == k \o <<Equals>> \o C!EncodeURL(form[k])

\* mergeUrlencodedForm(), in the map's order (here: any)
mergeUrlencodedForm(form) ==
    LET keys == SetToSeq(DOMAIN form)
    IN FlattenSeq([i \in DOMAIN keys |->
         FormPart(form, keys[i]) \o (IF i < Len(keys) THEN <<And>> ELSE <<>>)])

\* splitUrlencodedFormRequest(): a key of the body hides the one of the query
splitUrlencodedFormRequest(body, query) ==
    splitUrlencodedForm(<<>>, body).form @@ splitUrlencodedForm(<<>>, query).form

-----------------------------------------------------------------------------
(* First lines, as the words between blanks                                  *)

TooLong == "too long"      \* a word that does not fit the array it is read into

\* HttpRequestPacket::setFirstLine(): words behind the third are ignored
setRequestLine(words, uris) ==
    LET ok == /\ Len(words) >= 3
              /\ words[1] # TooLong /\ toMethod(words[1]) # "NONE"
              /\ words[2] \in uris
              /\ words[3] # TooLong
    IN {[method |-> toMethod(words[1]), uri |-> words[2], version |-> toVersion(words[3])]
          : x \in IF ok THEN {0} ELSE {}}
writeRequestLine(p) == <<toStringA(p.method), p.uri, toStringA(p.version)>>

\* HttpResponsePacket::setFirstLine(): without a message the old one stays
setResponseLine(old, words, codeOf) ==
    LET ok == /\ Len(words) >= 2
              /\ words[1] # TooLong /\ words[2] # TooLong
              /\ codeOf[words[2]] \in 100 .. 999
    IN {[version |-> toVersion(words[1]), code |-> codeOf[words[2]],
         message |-> IF Len(words) > 2 THEN SubSeq(words, 3, Len(words)) ELSE old]
          : x \in IF ok THEN {0} ELSE {}}
writeResponseLine(p, wordOf) == <<toStringA(p.version), wordOf[p.code]>> \o p.message

-----------------------------------------------------------------------------
(* Headers and packets: a map without case, and a length behind it whether   *)
(* the map has one or not                                                    *)

ContentLength == "Content-Length"

writeHeaders(headers, body) ==
    LET names == SetToSeq(DOMAIN headers)
    IN [i \in DOMAIN names |-> <<names[i], headers[names[i]]>>]
         \o <<(<<ContentLength, Len(body)>>)>>

\* content_base_type::writeHeadersTo...(): without a length
writeHeadersOnly(headers) ==
    LET names == SetToSeq(DOMAIN headers)
    IN [i \in DOMAIN names |-> <<names[i], headers[names[i]]>>]

write(p) == [first |-> p.first, headers |-> writeHeaders(p.headers, p.body), body |-> p.body]

\* clear() of both packets
Cleared == [version |-> "HTTP/1.0", method |-> "NONE", headers |-> <<>>, body |-> <<>>]

\* setHeaderHost(): port 80 is told for a host without a service, and left out
\* of a uri's, as 443 is, whatever its scheme
HostHeader(host, service) == <<host, IF service = <<>> THEN 80 ELSE service>>
HostHeaderOfUri(host, port) ==
    IF port \notin {0, 80, 443} THEN <<host, port>> ELSE <<host>>

\* compress() tells the encoding only when it worked, uncompress() leaves it
Compressed(p, type, done) ==
    IF done /\ type \in {"gzip", "deflate"}
    THEN [p EXCEPT !.headers = ("Content-Encoding" :> type) @@ @] ELSE p

-----------------------------------------------------------------------------
(* What a channel relies on                                                  *)

\* A form that was read is read again from what it is written as; a part that
\* has no key or one that is there already refuses the whole form.
FormsReadBack(s) ==
    LET r == splitUrlencodedForm(<<>>, s)
        parts == Parts(s)
        keys == [i \in DOMAIN parts |-> KeyOf(parts[i], <<>>)]
    IN /\ r.ok <=> /\ \A i \in DOMAIN keys : keys[i] # <<>>
                   /\ \A i, j \in DOMAIN keys : i # j => keys[i] # keys[j]
       /\ r.ok => splitUrlencodedForm(<<>>, mergeUrlencodedForm(r.form)) = r
       /\ splitUrlencodedFormRequest(s, s) = r.form

\* What the first line of a packet says is what it is written as, but for the
\* spelling, the words behind it and a version nobody knows.
LinesReadBack(words) ==
    LET number == [w \in Range(words) |->
                     CASE w = "200" -> 200 [] w = "99" -> 99 [] OTHER -> 0]
        word == [n \in {200} |-> "200"]
        uris == Range(words) \ {"("}
    IN /\ \A p \in setRequestLine(words, uris) :
            setRequestLine(writeRequestLine(p), uris) = {p}
       /\ \A p \in setResponseLine(<<>>, words, number) :
            setResponseLine(<<>>, writeResponseLine(p, word), number) = {p}
=============================================================================
