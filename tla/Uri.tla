--------------------------------- MODULE Uri ---------------------------------
(* pw::uri_type (pw_uri.cpp): the parts of an URI, and how they go to and    *)
(* from the uriparser library.  A text is a sequence of words and of the     *)
(* marks that separate them; a part that is not there is Null.               *)
EXTENDS Integers, Sequences, SequencesExt, FiniteSetsExt, TLC

CONSTANTS
    Port,      \* _getPort(): words that are a port's number or a service's name
    Services   \* getservbyname(): the word of a service's port

LOCAL T == INSTANCE Tokenizer WITH CR <- "\r", LF <- "\n", Delimiter <- "/", Letter <- "a"

Null == <<"null">>
empty == [scheme |-> Null, userInfo |-> Null, host |-> Null, port |-> Null,
          path |-> <<>>, query |-> Null, fragment |-> Null, isAbs |-> FALSE]
clear(u) == empty

-----------------------------------------------------------------------------
(* The library: what it makes of a text, and of its parts                    *)

Marks == {":", "/", "?", "#", "@"}
FirstOf(s, marks) == LET at == {i \in DOMAIN s : s[i] \in marks}
                     IN IF at = {} THEN Len(s) + 1 ELSE Min(at)
Before(s, i) == SubSeq(s, 1, i - 1)
Behind(s, i) == SubSeq(s, i + 1, Len(s))

Split(s) ==
    FoldLeft(LAMBDA r, x : IF x = "/" THEN Append(r, <<>>)
                           ELSE [r EXCEPT ![Len(r)] = Append(@, x)], <<(<<>>)>>, s)

\* uriParseUriExA(), of texts that are URIs, from its end to its begin: the
\* path has a head only when there is one, and tells that it begins with a
\* slash only without a host
PathPart(p, hasHost) ==
    LET absolute == p # <<>> /\ p[1] = "/"
        path == IF absolute THEN Tail(p) ELSE p
    IN [path |-> IF p = <<>> \/ (path = <<>> /\ ~hasHost) THEN <<>> ELSE Split(path),
        absolutePath |-> absolute /\ ~hasHost]

AuthorityPart(s) ==
    LET a == FirstOf(s, {"@"})
        At(h) == [hostText |-> Before(h, FirstOf(h, {":"})),
                  portText |-> IF FirstOf(h, {":"}) > Len(h) THEN Null
                               ELSE Behind(h, FirstOf(h, {":"}))]
    IN IF a > Len(s) THEN At(s) @@ [userInfo |-> Null]
       ELSE At(Behind(s, a)) @@ [userInfo |-> Before(s, a)]

HierarchicalPart(s) ==
    LET rest == SubSeq(s, 3, Len(s))
        Hosted(n) == AuthorityPart(Before(rest, n))
                       @@ PathPart(SubSeq(rest, n, Len(rest)), TRUE)
    IN IF Len(s) > 1 /\ s[1] = "/" /\ s[2] = "/" THEN Hosted(FirstOf(rest, {"/"}))
       ELSE PathPart(s, FALSE) @@ [hostText |-> Null, portText |-> Null, userInfo |-> Null]

SchemePart(s) ==
    LET c == FirstOf(s, {":", "/"})
    IN IF c <= Len(s) /\ s[c] = ":" /\ c > 1
       THEN HierarchicalPart(Behind(s, c)) @@ [scheme |-> Before(s, c)]
       ELSE HierarchicalPart(s) @@ [scheme |-> Null]

QueryPart(s) ==
    LET q == FirstOf(s, {"?"})
    IN SchemePart(Before(s, q))
         @@ [query |-> IF q > Len(s) THEN Null ELSE Behind(s, q)]

Library(s) ==
    LET f == FirstOf(s, {"#"})
    IN QueryPart(Before(s, f))
         @@ [fragment |-> IF f > Len(s) THEN Null ELSE Behind(s, f)]

\* uriToStringA()
Recompose(p) ==
    LET part(mark, x) == IF x = Null THEN <<>> ELSE mark \o x
        after(x, mark) == IF x = Null THEN <<>> ELSE x \o mark
        segments == FlattenSeq([i \in DOMAIN p.path |->
                        (IF i > 1 THEN <<"/">> ELSE <<>>) \o p.path[i]])
    IN after(p.scheme, <<":">>)
         \o (IF p.hostText = Null THEN <<>>
             ELSE <<"/", "/">> \o after(p.userInfo, <<"@">>) \o p.hostText
                    \o part(<<":">>, p.portText))
         \o (IF p.absolutePath \/ (p.path # <<>> /\ p.hostText # Null)
             THEN <<"/">> ELSE <<>>)
         \o segments \o part(<<"?">>, p.query) \o part(<<"#">>, p.fragment)

-----------------------------------------------------------------------------
(* uri_type                                                                  *)

\* _setFromData(): whether the path begins with a slash is kept with a host
\* only, where the library never tells it
setFromData(p) ==
    [scheme |-> p.scheme, userInfo |-> p.userInfo, host |-> p.hostText,
     port |-> p.portText, path |-> p.path, query |-> p.query,
     fragment |-> p.fragment, isAbs |-> p.hostText # Null /\ p.absolutePath]

setToData(u) ==
    [scheme |-> u.scheme, userInfo |-> u.userInfo, hostText |-> u.host,
     portText |-> u.port, path |-> u.path, absolutePath |-> u.isAbs,
     query |-> u.query, fragment |-> u.fragment]

\* parse(), for the texts that the library takes
parse(s) == setFromData(Library(s))

\* str(): what has one character, or none, is empty; words have several
Length(s) == FoldLeft(LAMBDA n, x : n + (IF x \in Marks THEN 1 ELSE 3), 0, s)
str(u) == LET s == Recompose(setToData(u)) IN IF Length(s) > 1 THEN s ELSE <<>>

\* copies; the move constructor leaves the other empty but for isAbs, and the
\* move assignment copies
copy(u) == [u EXCEPT !.path = [i \in DOMAIN u.path |-> u.path[i]]]
swap(u, v) == <<v, u>>
moveConstruct(u) == <<copy(u), [empty EXCEPT !.isAbs = u.isAbs]>>
moveAssign(u, v) == <<copy(v), v>>

getNumericPort(u) ==
    LET number(x) == IF x \in DOMAIN Port THEN Port[x] ELSE 0
    IN CASE u.port # Null /\ number(u.port) # 0 -> number(u.port)
         [] u.scheme # Null -> number(u.scheme)
         [] OTHER -> 0

\* setPortByService() and setPortByScheme(): of names only
setPortByService(u, name, numberOf) ==
    IF name \in DOMAIN numberOf THEN [u EXCEPT !.port = numberOf[name]] ELSE u
setPortByScheme(u, numberOf) ==
    IF u.scheme = Null THEN u ELSE setPortByService(u, u.scheme, numberOf)

\* both getPathString()
getPathString(u) ==
    IF u.path = <<>> THEN <<"/">>
    ELSE FlattenSeq([i \in DOMAIN u.path |->
             <<"/">> \o (IF u.path[i] = Null THEN <<>> ELSE u.path[i])])

\* setPath(): the tokens between slashes, an empty one before a leading slash
RECURSIVE TokensFrom(_, _)
TokensFrom(s, p) ==
    LET Then(r) == IF r.ok THEN <<T!Text(s, r.span)>> \o TokensFrom(s, r.pos) ELSE <<>>
    IN Then(T!getNextString(s, p, FALSE, "/"))
setPath(u, s) == [u EXCEPT !.path = TokensFrom(s, T!Begin)]

\* normalize(), addBase() and removeBase() hand the parts to the library, and
\* take what it gives; if it fails the form with an output clears that
ThroughLibrary(out, ok, p, clears) ==
    CASE ok -> setFromData(p) [] ~ok /\ clears -> empty [] OTHER -> out

-----------------------------------------------------------------------------
(* What is read is what is written                                           *)

\* An URI that is parsed is written as it was, and so is a copy of it and what
\* the library hands back unchanged; only a slash that begins the path of one
\* without a host is lost, and a text of one character.
UrisReadBack(s) ==
    \A u \in {parse(s)}, p \in {Library(s)} :
    LET kept == IF p.absolutePath
                THEN Recompose([p EXCEPT !.absolutePath = FALSE]) ELSE s
    IN /\ Recompose(p) = s
       /\ str(u) = IF Length(kept) > 1 THEN kept ELSE <<>>
       /\ copy(u) = u /\ moveAssign(empty, u)[1] = u /\ moveConstruct(u)[1] = u
       /\ ThroughLibrary(empty, TRUE, setToData(u), TRUE) = u
       /\ u.port = Null =>
            getNumericPort(setPortByScheme(u, Services)) = getNumericPort(u)

\* A path that is set is the path, but for a slash that ends it; asked for it
\* begins with a slash, and set again so with one more.
PathsReadBack(s) ==
    \A u \in {setPath(empty, s)} :
    LET trimmed == IF s # <<>> /\ Last(s) = "/" THEN Front(s) ELSE s
        again == setPath(u, getPathString(u))
    IN IF s = <<>> THEN getPathString(u) = <<"/">>
       ELSE /\ getPathString(u) = <<"/">> \o trimmed
            /\ trimmed # <<>> /\ Last(trimmed) # "/"
                 => getPathString(again) = <<"/">> \o getPathString(u)
=============================================================================
