------------------------------- MODULE MCTexts -------------------------------
(* The instance that TLC checks of the modules about texts and tables, which *)
(* are operators without a state: a behaviour picks a kind and grows a text  *)
(* of it, a symbol a step, so that every text up to a length is a state.     *)
(* What a symbol is depends on the kind: a byte, a word, a line of a file, a *)
(* call.                                                                     *)
EXTENDS Integers, Sequences, TLC

CONSTANTS CodecBytes,  \* bytes the codecs treat differently
          Spaces,      \* bytes the functions on strings treat differently
          FormBytes    \* bytes a form is made of

CodecOf == INSTANCE Codec
TokensOf == INSTANCE Tokenizer
              WITH CR <- "\r", LF <- "\n", Delimiter <- " ", Letter <- "a"
StringsOf == INSTANCE Strings WITH Sample <- Spaces, Buffer <- 3
RangesOf == INSTANCE IpRange
              WITH Octet <- 4, Octets <- 2,
                   AddressOf <- [w \in {"a0", "a1", "a2", "a3", "a6", "a15"} |->
                                   CASE w = "a0" -> 0 [] w = "a1" -> 1 [] w = "a2" -> 2
                                     [] w = "a3" -> 3 [] w = "a6" -> 6 [] OTHER -> 15]
FilterOf == INSTANCE StrFltr
              WITH Upper <- [c \in {"a", "A", "b", "B"} |->
                               IF c \in {"a", "A"} THEN "A" ELSE "B"]
RegionOf == INSTANCE Region
              WITH Codes <- [c \in {"kr", "KR", "us", ""} |->
                               CASE c \in {"kr", "KR"} -> "KR" [] c = "us" -> "US"
                                 [] OTHER -> ""]
IniOf == INSTANCE Ini
CommonOf == INSTANCE Common
RedisOf == INSTANCE Redis
HttpOf == INSTANCE HttpText
KeyOf == INSTANCE Key WITH MAX_SIZE <- 2, Fresh <- 99
PacketOf == INSTANCE MsgPacket
              WITH CodeSize <- 2, MAX_BODY_SIZE <- 2, Short <- 4, Byte <- "b"
PoolOf == INSTANCE Pool WITH Groups <- 2, Hosts <- 2, Dups <- 2
CompressOf == INSTANCE Compress
UriOf == INSTANCE Uri
           WITH Port <- [w \in {<<"http">>, <<"80">>} |-> 80],
                Services <- [w \in {<<"http">>} |-> <<"80">>]

VARIABLES kind, text

-----------------------------------------------------------------------------
(* The symbols of each kind, and how many make a text                        *)

Needles == {<<"a">>, <<"b", "A">>}
Rules ==
    {FilterOf!Line("s", w, n) :
        w \in {"substr", "substr_icase", "regex_icase", "hash"}, n \in Needles}
    \cup {FilterOf!Line("sharp", "substr", <<"a">>), FilterOf!Line("s", "regex", <<"(">>),
          FilterOf!Line("s", "regex", <<"b", ".">>), FilterOf!Line("s", "other", <<"b">>),
          FilterOf!Line("s", "hash", <<"a", "b">>), FilterOf!Line("s", "substr", <<>>)}

RangeLines ==
    {<<v, b, e>> : v \in {"ipv4", "IPv6"}, b \in {"a0", "a2"}, e \in {"a1", "a3"}}
    \cup {<<"#", "x", "x">>, <<"ipv4", "a1">>, <<"ipv4", "a1", "a3", "K">>,
          <<"ipv4", "a6", "a2", "Q">>, <<"ipv6", "a1", "a1", "R">>,
          <<"ipv4", "a15", "a15", "Q">>}

\* [a]  [a  []_  a= b  a=\n  =b_  _a_  #  _  b=\ \\  [a]=]
IniLines ==
    {<<91, 97, 93>>, <<91, 97>>, <<91, 93, 32>>, <<97, 61, 32, 98>>,
     <<97, 61, 92, 110>>, <<61, 98, 32>>, <<32, 97, 32>>, <<35>>, <<32>>,
     <<98, 61, 92, 32, 92, 92>>, <<91, 97, 93, 61, 93>>}

Crlf == <<"\r", "\n">>
RedisLines ==
    {w \o Crlf : w \in {<<"*", "0">>, <<"*", "1">>, <<"*", "2">>, <<"*", "-", "1">>,
                        <<"$", "0">>, <<"$", "1">>, <<"$", "-", "1">>, <<"a">>, <<>>,
                        <<":", "-", "1">>, <<"+", "a">>, <<"-", "a", "\n">>}}

\* the words of a message's header, by their place
HeaderWords(n) ==
    CASE n = 1 -> {<<"a">>, <<>>, <<"a", "a", "a", "a">>}
      [] n = 2 -> {<<"1">>, <<"7">>}
      [] n = 3 -> {<<"0">>, <<"0", "0", "1">>, <<"1">>, <<"1", "1", "0", "1">>}
      [] n = 4 -> {<<"0">>, <<"2">>, <<"-", "1">>, <<"3">>, <<>>}
      [] OTHER -> {<<"1">>, <<"4">>, <<>>, <<"a">>}

KeyCalls ==
    ({"text", "token", "format"}
        \X {<<>>, <<1>>, <<1, 0>>, <<2, 1>>, <<1, 2, 1, 1>>, <<1, 32, 2>>})
    \cup ({"number"} \X {<<1, 2>>}) \cup ({"cut"} \X {0, 1})

PoolCalls ==
    ({"up", "down", "remove"} \X {1, 2, 3}) \cup ({"up", "get"} \X {5})
        \cup ({"get", "group", "host"} \X {1})

Kinds == {"codec", "token", "string", "ini", "filter", "list", "range", "region",
          "key", "pool", "redis", "header", "item", "form", "line", "uri", "path",
          "stream"}

Symbols(k, n) ==
    CASE k = "codec" -> CodecBytes
      [] k = "token" -> TokensOf!Symbols
      [] k = "string" -> Spaces
      [] k = "ini" -> IniLines
      [] k = "filter" -> Rules
      [] k = "list" -> {":", ";", "/", "a"}
      [] k = "range" -> RangeLines
      [] k = "region" -> {"x"} \X {"kr", "KR", "us", ""} \X {<<"1">>, <<"1", "2">>, <<>>}
      [] k = "key" -> KeyCalls
      [] k = "pool" -> PoolCalls
      [] k = "redis" -> RedisLines
      [] k = "header" -> HeaderWords(n)
      [] k = "item" -> {[i \in 1 .. size |-> "z"] : size \in 0 .. 3}
      [] k = "form" -> FormBytes
      [] k = "line" -> {"GET", "TRACE", "(", "too long", "HTTP/1.1", "200", "99", "x"}
      [] k = "uri" -> {"http", ":", "/", "?", "#", "@", "x"}
      [] k = "path" -> {"x", "/"}
      [] k = "stream" -> {"a", "b"}

Bound(k) ==
    CASE k \in {"string", "codec", "pool", "redis", "line"} -> 4
      [] k \in {"token", "form", "uri", "path", "stream"} -> 5
      [] k = "list" -> 6
      [] k = "header" -> 7
      [] OTHER -> 3

Init == kind \in Kinds /\ text = <<>>

Next ==
    /\ Len(text) < Bound(kind)
    /\ \E x \in Symbols(kind, Len(text) + 1) : text' = Append(text, x)
    /\ UNCHANGED kind

Spec == Init /\ [][Next]_<<kind, text>>

-----------------------------------------------------------------------------
(* Properties                                                                *)

TextsOver(letters, n) == UNION {[1 .. m -> letters] : m \in 0 .. n}

\* What the encoders of pw_encode write, their decoders read as it was, from a
\* blob as from a stream, which know in different ways that they have ended:
\* URL (to a string, or from a stream), hexadecimal, base64, and escapes of a
\* text without a NUL before an octal digit.  A text that nobody encoded is read
\* alike from both (but for an escape it ends in), and no text, however bad, is
\* read as more than it is long.
CodecsInvert ==
    kind = "codec" => CodecOf!Inverts(text) /\ CodecOf!ReadsAlike(text)

\* A text is cut into the same words and lines by every function that cuts:
\* the four forms of each of the tokenizer's, those of pw_string, and reading
\* a stream through a buffer that is too short; nothing of it is lost or comes
\* twice, and no character of UTF-8 is cut.  The tokenizer's forms are compared
\* with a buffer that is long enough, or too short by two or more, and
\* getNextZ2()'s tokens by their length and by what is left of the text.
WordsAgree ==
    /\ kind = "token" => TokensOf!ReadsAll(text) /\ TokensOf!FormsAgree(text)
    /\ kind = "string" =>
         /\ StringsOf!LinesAreExact(text) /\ StringsOf!SplitsAgree(text)
         /\ StringsOf!TrimsAgree(text) /\ StringsOf!SlicesWhole(text)

\* Of lines that contradict each other in a file of settings the one counts that
\* should: an item's last, a filter's first.  And what is written and read again
\* is a file with the same sections and items (of Ini; a value may have lost
\* blanks before it and got a carriage return behind it), the same rules (of
\* StringFilter; digests may be lost) or the same list of hosts or urls.
SettingsAgree ==
    /\ kind = "ini" => IniOf!ReadsItsOwn(text) /\ IniOf!LastLineCounts(text)
                      /\ IniOf!SettersReach(text)
    /\ kind = "filter" =>
         FilterOf!FirstLineDecides(text, TextsOver({"a", "A", "b"}, 2))
    /\ kind = "list" => CommonOf!ListsReadBack(text) /\ CommonOf!AppendsAddUp(text)

\* An index finds what a walk over everything would, whatever was inserted,
\* refused and removed before: the range of an address, the regions of a
\* telephone number, the region of a code that is in one row of the table only,
\* a key that is used again, the next channel of a pool.  Of a code that is in
\* several rows it finds no region of another code; it may find none.
LookupsAgree ==
    /\ kind = "range" =>
         /\ RangesOf!FindsWhatCovers(text) /\ RangesOf!ReadsItsOwn(text)
         /\ RangesOf!PrefixesAreBlocks
    /\ kind = "region" =>
         /\ RegionOf!LongestCode(text, TextsOver({"1", "2"}, 3) \ {<<>>})
         /\ RegionOf!CodeFindsItsRegion(text) /\ RegionOf!ReadsItsOwn(text)
    /\ kind = "key" => KeyOf!KeysHaveNoPast(text)
    /\ kind = "pool" => PoolOf!EveryChannelHasItsTurn(text)

\* Where a message ends does not depend on how it arrives: replies of Redis
\* read in any two pieces are those read at once, a message or a list of items
\* read from what it is written as is the same, with what is behind it left
\* alone, and a text packed by zlib is the same again through buffers of any
\* size, unless a part of it fills one.
RepliesInPieces ==
    /\ kind = "redis" => RedisOf!PiecesDoNotMatter(text) /\ RedisOf!ReadsItsOwn(text)
    /\ kind = "header" => PacketOf!HeadersReadBack(text)
    /\ kind = "item" => PacketOf!ItemsArrive(text)
    /\ kind = "stream" => CompressOf!StreamsReadBack(text)

\* A form, a first line, an URI and a path that were read are written as they
\* were; what is lost on the way is no more than the conditions of the
\* operators name.
TextsReadBack ==
    /\ kind = "form" => HttpOf!FormsReadBack(text)
    /\ kind = "line" => HttpOf!LinesReadBack(text)
    /\ kind = "uri" => UriOf!UrisReadBack(text)
    /\ kind = "path" => UriOf!PathsReadBack(text)

-----------------------------------------------------------------------------
(* What the documents say of the same functions, and the code does not do:   *)
(* TLC refutes each in this instance, and no run has it among those it checks *)

\* Escapes are decoded into what was encoded (pw_encode.cpp writes a NUL as a
\* backslash and a 0, and reads up to three digits behind a backslash).
EscapesComeBack == kind = "codec" => CodecOf!EscapesInvert(text)

\* decodeURL() from a blob to a stream undoes encodeURL() (pw_encode.cpp calls
\* the loop that encodes).
UrlsComeBack == kind = "codec" => CodecOf!StreamsInvert(text)

\* The tokenizer copies no more than the size of the buffer it is given
\* (pw_tokenizer_tpl.h compares the length less one).
CopiesAreInBounds == kind = "token" => TokensOf!CopiesFit(text)

\* getNextZ2() sets the pointer to the token it has found (pw_tokenizer_tpl.h
\* sets the length alone when it has skipped a delimiter).
PointersAreSet == kind = "token" => TokensOf!PointersPoint(text)

\* What Ini::write() writes Ini::read() reads as it was (it leaves the carriage
\* return of the line in the value).
IniComesBack == kind = "ini" => IniOf!WrittenIsRead(text)

\* A filter that was written to a stream and read from it finds what it found
\* (StringFilter::writeToStream() leaves the digests out).
FilterComesBack ==
    kind = "filter" => FilterOf!WrittenFilters(text, TextsOver({"a", "A", "b"}, 2))

\* Every region that Region has is found by its code, also when a later row with
\* the same code was refused (Region::_insert() erases the code then).
RegionsAreFound == kind = "region" => RegionOf!EveryRegionIsFound(text)
=============================================================================
