----------------------------- MODULE MCHttpChannel -----------------------------
(* The instance of HttpChannel that TLC checks: messages with every length *)
(* of a body, with bad lines in each place and with a line without an end. *)
EXTENDS HttpChannel

Heads == {<<"nl">>, <<"hdr", "nl", "len2", "nl", "nl">>, <<"len0", "nl", "nl">>,
          <<"len3", "nl", "nl">>, <<"x", "nl">>, <<"x", "len2", "nl", "nl">>}
Bodies == {<<>>, <<"x">>, <<"nl", "x">>}
MessagesOf(first) == {<<first, "nl">> \o h \o b : h \in Heads, b \in Bodies}
Unfit == {<<"x", "nl">>, <<"x", "x", "x", "x">>}

MCRequests ==
    MessagesOf("post") \cup Unfit
    \cup {<<"get", "nl", "nl">>, <<"get", "nl", "len2", "nl", "nl", "x", "x">>}
MCResponses == MessagesOf("resp") \cup Unfit
MCMaxTexts == [server |-> 2, job |-> 2, sync |-> 1]
=============================================================================
