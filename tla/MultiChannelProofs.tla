-------------------------- MODULE MultiChannelProofs --------------------------
(***************************************************************************)
(* Proofs about MultiChannel, for bodies of any length, any number of      *)
(* cells under way, any number of connections and both ways of starting.   *)
(***************************************************************************)
EXTENDS MultiChannel, TLAPS

USE MultiChannelAssumption

(* The peer's cells come in the order in which packets are made of them.   *)
LinkInv ==
    /\ stream \in Seq(Cells) /\ here \in 0..Len(stream) /\ sent \in Cells
    /\ \A i \in 1..Len(stream) : stream[i].kind = "begin" => stream[i].left >= 2
    /\ \A i \in 1..Len(stream) - 1 : Follows(stream[i], stream[i + 1])
    /\ stream # <<>> => stream[Len(stream)] = sent

(* The reader waits for a header, or for a part of a body.                 *)
ReaderInv ==
    /\ recv \in {"HEADER", "BODY"}
    /\ dest \in 0..MaxBody /\ got \in 0..MaxBody
    /\ part \in {"none", "cur", "old", "wrong"}
    /\ recv = "HEADER" => got = 0
    /\ recv = "BODY" => got < dest

(* Before a connection is established nothing is read.                     *)
SocketInv ==
    /\ conn = "NONE" <=> ~open
    /\ conn # "SUCC" => /\ stream = <<>> /\ sent = Whole /\ last = "none"
                        /\ began = recv /\ part # "cur"

Inv == /\ TypeOK /\ LinkInv /\ ReaderInv /\ SocketInv
       /\ NeverStranded /\ ConnectedIsReal /\ StaysInStep

-----------------------------------------------------------------------------
(* The peer's cells.                                                       *)

LEMMA WholeIsCell == Whole \in Cells /\ Whole.left = 1 /\ Whole.kind = "data"
  BY DEF Whole, Cells

LEMMA CellType ==
    ASSUME NEW c \in Cells
    PROVE  c.left \in 1..MaxBody + 2 /\ c.kind \in {"begin", "end", "data", "bad"}
  BY DEF Cells

(* What is in front after moveRead() of n cells.                           *)
LEMMA TakenFacts ==
    ASSUME LinkInv, NEW n \in 1..here, Taken(n)
    PROVE  /\ LinkInv'
           /\ sent' = sent
           /\ stream[n] \in Cells
           /\ stream' = <<>> => sent = stream[n]
           /\ stream' # <<>> => /\ Head(stream') = stream[n + 1]
                                /\ Follows(stream[n], stream[n + 1])
                                /\ stream[n + 1] \in Cells
<1>1. /\ stream \in Seq(Cells) /\ here \in 0..Len(stream) /\ sent \in Cells
      /\ n \in 1..Len(stream)
  BY DEF LinkInv
<1>2. /\ stream' = SubSeq(stream, n + 1, Len(stream)) /\ here' = here - n /\ sent' = sent
  BY DEF Taken
<1>3. /\ stream' \in Seq(Cells) /\ Len(stream') = Len(stream) - n
      /\ \A i \in 1..Len(stream') : stream'[i] = stream[n + i] /\ n + i \in 1..Len(stream)
  BY <1>1, <1>2
<1>4. here' \in 0..Len(stream')
  BY <1>1, <1>2, <1>3
<1>5. \A i \in 1..Len(stream') : stream'[i].kind = "begin" => stream'[i].left >= 2
  BY <1>3 DEF LinkInv
<1>6. \A i \in 1..Len(stream') - 1 : Follows(stream'[i], stream'[i + 1])
  <2>1. SUFFICES ASSUME NEW i \in 1..Len(stream') - 1
                 PROVE  Follows(stream'[i], stream'[i + 1])
    OBVIOUS
  <2>2. i \in 1..Len(stream') /\ i + 1 \in 1..Len(stream')
    BY <1>1, <1>3
  <2>3. stream'[i] = stream[n + i] /\ stream'[i + 1] = stream[(n + i) + 1]
    BY <1>1, <1>3, <2>2
  <2>4. n + i \in 1..Len(stream) - 1
    BY <1>1, <1>3, <2>2
  <2>5. Follows(stream[n + i], stream[(n + i) + 1])
    BY <2>4 DEF LinkInv
  <2>6. QED
    BY <2>3, <2>5
<1>7. ASSUME stream' # <<>> PROVE stream'[Len(stream')] = sent'
  <2>1. Len(stream') \in 1..Len(stream') /\ stream # <<>>
    BY <1>1, <1>3, <1>7
  <2>2. n + Len(stream') = Len(stream)
    BY <1>1, <1>3
  <2>3. stream'[Len(stream')] = stream[Len(stream)]
    BY <1>3, <2>1, <2>2
  <2>4. QED
    BY <1>2, <2>1, <2>3 DEF LinkInv
<1>8. LinkInv'
  BY <1>1, <1>2, <1>3, <1>4, <1>5, <1>6, <1>7 DEF LinkInv
<1>9. stream[n] \in Cells
  BY <1>1
<1>10. stream' = <<>> => sent = stream[n]
  BY <1>1, <1>3 DEF LinkInv
<1>11. ASSUME stream' # <<>>
       PROVE  /\ Head(stream') = stream[n + 1]
              /\ Follows(stream[n], stream[n + 1]) /\ stream[n + 1] \in Cells
  <2>1. Len(stream') >= 1
    BY <1>3, <1>11
  <2>2. Head(stream') = stream'[1]
    BY <1>3, <2>1
  <2>3. n \in 1..Len(stream) - 1 /\ n + 1 \in 1..Len(stream)
    BY <1>1, <1>3, <2>1
  <2>4. stream[n + 1] \in Cells
    BY <1>1, <2>3
  <2>5. QED
    BY <1>3, <2>1, <2>2, <2>3, <2>4 DEF LinkInv
<1>12. QED
  BY <1>2, <1>8, <1>9, <1>10, <1>11

(* After the last cell of a packet comes the first of one.                 *)
LEMMA AfterLast ==
    ASSUME LinkInv, NEW n \in 1..here, Taken(n), stream[n].left = 1
    PROVE  AtBegin'
<1>1. /\ sent' = sent
      /\ stream' = <<>> => sent = stream[n]
      /\ stream' # <<>> => /\ Head(stream') = stream[n + 1]
                           /\ Follows(stream[n], stream[n + 1])
  BY TakenFacts
<1>2. CASE stream' = <<>>
  BY <1>1, <1>2 DEF AtBegin
<1>3. CASE stream' # <<>>
  BY <1>1, <1>3 DEF AtBegin, Follows
<1>4. QED
  BY <1>2, <1>3

(* What findLine() finds where a packet begins is its header.              *)
LEMMA LineIsHeader ==
    ASSUME LinkInv, AtBegin, NEW n \in 1..here, IsLine(n), Lengths(n) # {}
    PROVE  /\ IsHeader(n)
           /\ stream[2].kind = "end" /\ stream[2] \in Cells
           /\ Lengths(n) = {stream[2].left - 1}
           /\ stream[2].left - 1 \in 0..MaxBody
<1>1. /\ stream \in Seq(Cells) /\ n \in 1..Len(stream) /\ stream # <<>>
      /\ Len(stream) \in Nat /\ stream[1] \in Cells
  BY DEF LinkInv
<1>2. stream[1].kind \in {"begin", "bad"}
  BY <1>1 DEF AtBegin
<1>3. stream[1].kind # "bad"
  <2>1. SUFFICES ASSUME stream[1].kind = "bad" PROVE FALSE
    OBVIOUS
  <2>2. n = 1
    BY <1>1, <2>1 DEF IsLine
  <2>3. Lengths(n) = {}
    BY <2>1, <2>2 DEF Lengths, IsHeader
  <2>4. QED
    BY <2>3
<1>4. stream[1].kind = "begin" /\ stream[1].left >= 2
  BY <1>1, <1>2, <1>3 DEF LinkInv
<1>5. n >= 2
  BY <1>1, <1>4 DEF IsLine
<1>6. Follows(stream[1], stream[2]) /\ stream[2] \in Cells
  <2>1. 1 \in 1..Len(stream) - 1 /\ 2 \in 1..Len(stream)
    BY <1>1, <1>5
  <2>2. Follows(stream[1], stream[1 + 1])
    BY <2>1 DEF LinkInv
  <2>3. QED
    BY <1>1, <2>1, <2>2
<1>7. stream[2].kind = "end" /\ stream[2].left = stream[1].left - 1
  BY <1>4, <1>6 DEF Follows
<1>8. n = 2
  <2>1. n > 2 => 2 \in 1..n - 1
    BY <1>1
  <2>2. QED
    BY <1>1, <1>5, <1>7, <2>1 DEF IsLine
<1>9. IsHeader(n)
  BY <1>4, <1>8 DEF IsHeader
<1>10. stream[2].left - 1 \in 0..MaxBody
  BY <1>1, <1>4, <1>6, <1>7, CellType
<1>11. QED
  BY <1>6, <1>7, <1>9, <1>10 DEF Lengths

-----------------------------------------------------------------------------
(* The reader.                                                             *)

(* RecvState::START, and a new connection with the reader as it is.        *)
LEMMA ReaderAfter ==
    ASSUME ReaderInv, Restart \/ Aged
    PROVE  ReaderInv' /\ part' # "cur"
<1>1. CASE Restart
  BY <1>1 DEF Restart, ReaderInv
<1>2. CASE Aged
  BY <1>2 DEF Aged, ReaderInv
<1>3. QED
  BY <1>1, <1>2

(* Where a header with a body was, the rest of the body is next.           *)
LEMMA StepHeader ==
    ASSUME LinkInv, ReaderInv, recv = "HEADER", AtBegin,
           NEW n \in 1..here, IsLine(n), dest' \in Lengths(n) \ {0},
           part' = IF IsHeader(n) THEN "cur" ELSE "wrong",
           Taken(n), recv' = "BODY", got' = got
    PROVE  InStep'
<1>1. /\ IsHeader(n) /\ stream[2].kind = "end" /\ stream[2] \in Cells
      /\ Lengths(n) = {stream[2].left - 1} /\ stream[2].left - 1 \in 0..MaxBody
  <2>1. Lengths(n) # {}
    OBVIOUS
  <2>2. QED
    BY <2>1, LineIsHeader
<1>2. n = 2 /\ dest' = stream[2].left - 1 /\ dest' # 0 /\ got' = 0 /\ part' = "cur"
  BY <1>1 DEF IsHeader, ReaderInv
<1>3. /\ sent' = sent
      /\ stream' = <<>> => sent = stream[2]
      /\ stream' # <<>> => Head(stream') = stream[3] /\ Follows(stream[2], stream[3])
  <2>1. n + 1 = 3
    BY <1>2
  <2>2. QED
    BY <1>2, <2>1, TakenFacts
<1>4. stream[2].left \in Nat /\ stream[2].left # 1
  BY <1>1, <1>2, CellType
<1>5. CASE stream' = <<>>
  BY <1>1, <1>2, <1>3, <1>4, <1>5 DEF InStep, AtRest
<1>6. CASE stream' # <<>>
  <2>1. stream[3].left = stream[2].left - 1 /\ stream[3].kind = "data"
    BY <1>1, <1>3, <1>4, <1>6 DEF Follows
  <2>2. QED
    BY <1>2, <1>3, <1>4, <1>6, <2>1 DEF InStep, AtRest
<1>7. QED
  BY <1>5, <1>6

(* A cell of the body, and not its last.                                   *)
LEMMA StepPart ==
    ASSUME LinkInv, ReaderInv, recv = "BODY", AtRest, here > 0,
           got + 1 < dest, got' = got + 1, Taken(1), UNCHANGED <<recv, dest, part>>
    PROVE  InStep'
<1>1. stream # <<>> /\ here \in Nat /\ dest \in Nat /\ got \in Nat
  BY DEF LinkInv, ReaderInv
<1>2. Head(stream) = stream[1]
  BY <1>1 DEF LinkInv
<1>3. stream[1].kind = "data" /\ stream[1].left = dest - got /\ part = "cur"
  BY <1>1, <1>2 DEF AtRest
<1>4. /\ sent' = sent
      /\ stream' = <<>> => sent = stream[1]
      /\ stream' # <<>> => Head(stream') = stream[2] /\ Follows(stream[1], stream[2])
  <2>1. 1 \in 1..here /\ 1 + 1 = 2
    BY <1>1
  <2>2. QED
    BY <2>1, TakenFacts
<1>5. CASE stream' = <<>>
  BY <1>1, <1>3, <1>4, <1>5 DEF InStep, AtRest
<1>6. CASE stream' # <<>>
  <2>1. stream[2].left = stream[1].left - 1 /\ stream[2].kind = "data"
    BY <1>1, <1>3, <1>4, <1>6 DEF Follows
  <2>2. QED
    BY <1>1, <1>3, <1>4, <1>6, <2>1 DEF InStep, AtRest
<1>7. QED
  BY <1>5, <1>6

(* The peer's next cell.                                                   *)
LEMMA LinkSends ==
    ASSUME LinkInv, NEW c \in Cells, Follows(sent, c),
           stream' = Append(stream, c), sent' = c, here' = here
    PROVE  LinkInv'
<1>1. /\ stream \in Seq(Cells) /\ here \in 0..Len(stream) /\ Len(stream) \in Nat
      /\ sent \in Cells
  BY DEF LinkInv
<1>2. /\ stream' \in Seq(Cells) /\ Len(stream') = Len(stream) + 1
      /\ stream'[Len(stream) + 1] = c
      /\ \A i \in 1..Len(stream) : stream'[i] = stream[i]
  BY <1>1
<1>3. c.kind = "begin" => c.left >= 2
  <2>1. sent.left \in Nat /\ c.left \in Nat
    BY <1>1, CellType
  <2>2. QED
    BY <2>1 DEF Follows
<1>4. \A i \in 1..Len(stream') : stream'[i].kind = "begin" => stream'[i].left >= 2
  BY <1>1, <1>2, <1>3 DEF LinkInv
<1>5. \A i \in 1..Len(stream') - 1 : Follows(stream'[i], stream'[i + 1])
  <2>1. SUFFICES ASSUME NEW i \in 1..Len(stream)
                 PROVE  Follows(stream'[i], stream'[i + 1])
    BY <1>1, <1>2
  <2>2. CASE i = Len(stream)
    <3>1. stream # <<>> /\ stream'[i] = sent
      BY <1>1, <1>2, <2>2 DEF LinkInv
    <3>2. QED
      BY <1>2, <2>2, <3>1
  <2>3. CASE i # Len(stream)
    <3>1. i \in 1..Len(stream) - 1 /\ i + 1 \in 1..Len(stream)
      BY <1>1, <2>3
    <3>2. stream'[i] = stream[i] /\ stream'[i + 1] = stream[i + 1]
      BY <1>2, <3>1
    <3>3. QED
      BY <3>1, <3>2 DEF LinkInv
  <2>4. QED
    BY <2>2, <2>3
<1>6. here' \in 0..Len(stream') /\ stream'[Len(stream')] = sent'
  BY <1>1, <1>2
<1>7. QED
  BY <1>2, <1>4, <1>5, <1>6 DEF LinkInv

(* It is where the reader expects it.                                      *)
LEMMA StepSends ==
    ASSUME LinkInv, ReaderInv, InStep, NEW c \in Cells, Follows(sent, c),
           stream' = Append(stream, c), sent' = c,
           UNCHANGED <<recv, dest, got, part>>
    PROVE  InStep'
<1>1. stream \in Seq(Cells)
  BY DEF LinkInv
<1>2. stream' # <<>> /\ Head(stream') = IF stream = <<>> THEN c ELSE Head(stream)
  BY <1>1
<1>3. CASE stream # <<>>
  BY <1>2, <1>3 DEF InStep, AtBegin, AtRest
<1>4. CASE stream = <<>> /\ recv = "BODY"
  <2>1. /\ part = "cur" /\ sent.kind # "begin" /\ sent.left = dest - got + 1
    BY <1>4 DEF InStep, AtRest
  <2>2. dest \in Nat /\ got \in Nat /\ got < dest
    BY <1>4 DEF ReaderInv
  <2>3. c.kind = "data" /\ c.left = dest - got
    BY <2>1, <2>2 DEF Follows
  <2>4. QED
    BY <1>2, <1>4, <2>1, <2>3 DEF InStep, AtRest
<1>5. CASE stream = <<>> /\ recv # "BODY"
  <2>1. sent.left = 1
    BY <1>5 DEF InStep, AtBegin
  <2>2. c.kind \in {"begin", "bad"}
    BY <2>1 DEF Follows
  <2>3. QED
    BY <1>2, <1>5, <2>2 DEF InStep, AtBegin
<1>6. QED
  BY <1>3, <1>4, <1>5

-----------------------------------------------------------------------------
(* The handlers that the actions share.                                    *)

Types ==
    /\ m_connected' \in BOOLEAN /\ greeted' \in BOOLEAN
    /\ timers' \subseteq {"INIT", "RESPONSE"}
    /\ loop' \in BOOLEAN /\ dropped' \in BOOLEAN /\ tries' \in BOOLEAN

LEMMA EventConnectFacts ==
    ASSUME TypeOK, NEW t \in SUBSET {"INIT", "RESPONSE"}, EventConnect(t),
           ~(m_connected /\ ~dropped)
    PROVE  /\ m_connected' \in BOOLEAN /\ greeted' \in BOOLEAN
           /\ timers' \subseteq {"INIT", "RESPONSE"}
           /\ ~m_connected' => timers' # {}
           /\ m_connected' /\ ~dropped => greeted' /\ timers' = {} /\ conn' = "SUCC"
           /\ \/ Clear
              \/ conn' = "SUCC" /\ open' = TRUE /\ UNCHANGED <<link, last>>
<1>1. CASE SetDisconnected(t)
  BY <1>1 DEF SetDisconnected, InitAdded, Clear, TypeOK
<1>2. CASE conn' = "SUCC" /\ open' = TRUE /\ UNCHANGED <<link, last>>
           /\ timers' = t \cup {"RESPONSE"} /\ UNCHANGED <<m_connected, greeted>>
  BY <1>2 DEF TypeOK
<1>3. CASE conn' = "SUCC" /\ open' = TRUE /\ UNCHANGED <<link, last>>
           /\ SetConnected(t)
  BY <1>3 DEF SetConnected, TimersOff, TypeOK
<1>4. QED
  BY <1>1, <1>2, <1>3 DEF EventConnect

LEMMA ReconnectFacts ==
    ASSUME TypeOK, SocketInv, NEW t \in SUBSET {"INIT", "RESPONSE"}, Reconnect(t),
           ~(m_connected /\ ~dropped)
    PROVE  /\ tries' \in BOOLEAN
           /\ m_connected' \in BOOLEAN /\ greeted' \in BOOLEAN
           /\ timers' \subseteq {"INIT", "RESPONSE"}
           /\ ~m_connected' => timers' # {} \/ (conn' = "SEND" /\ polled')
           /\ m_connected' /\ ~dropped => greeted' /\ timers' = {} /\ conn' = "SUCC"
           /\ \/ Clear
              \/ /\ conn' \in {"SEND", "SUCC"} /\ open' = TRUE /\ polled' \in BOOLEAN
                 /\ ~open /\ UNCHANGED <<link, last>>
<1>1. CASE ConnectFails(t)
  <2>1. Clear /\ timers' = t \cup {"INIT"} /\ m_connected' = m_connected
    BY <1>1 DEF ConnectFails
  <2>2. tries' \in BOOLEAN
    BY DEF Reconnect
  <2>3. QED
    BY <2>1, <2>2 DEF TypeOK, Clear
<1>2. CASE /\ ~open
           /\ conn' = "SEND" /\ open' = TRUE /\ polled' = TRUE
           /\ timers' = t
           /\ UNCHANGED <<m_connected, link, greeted, last>>
  <2>1. tries' \in BOOLEAN
    BY DEF Reconnect
  <2>2. m_connected' = m_connected /\ greeted' = greeted
    BY <1>2
  <2>3. m_connected \in BOOLEAN /\ greeted \in BOOLEAN
    BY DEF TypeOK
  <2>4. ~(m_connected' /\ ~dropped)
    BY <2>2
  <2>5. timers' \subseteq {"INIT", "RESPONSE"}
    BY <1>2
  <2>6. QED
    BY <1>2, <2>1, <2>2, <2>3, <2>4, <2>5
<1>3. CASE ~open /\ EventConnect(t) /\ polled' = FALSE
  <2>1. tries' \in BOOLEAN
    BY DEF Reconnect
  <2>2. QED
    BY <1>3, <2>1, EventConnectFacts
<1>4. QED
  BY <1>1, <1>2, <1>3 DEF Reconnect

(* After clearInstance() only the timers and m_connected are left to show. *)
LEMMA Cleared ==
    ASSUME Inv, Clear, Types, ReaderInv', part' # "cur", began' = recv',
           ~m_connected' /\ ~dropped' => timers' # {},
           ~(m_connected' /\ ~dropped')
    PROVE  Inv'
<1>1. /\ conn' = "NONE" /\ open' = FALSE /\ polled' = FALSE
      /\ stream' = <<>> /\ here' = 0 /\ sent' = Whole /\ closed' = FALSE
      /\ greeted' = FALSE /\ last' = "none"
  BY DEF Clear
<1>2. LinkInv'
  BY <1>1, WholeIsCell DEF LinkInv
<1>3. TypeOK'
  BY <1>1, <1>2 DEF TypeOK, Types, ReaderInv, LinkInv
<1>4. SocketInv'
  BY <1>1 DEF SocketInv
<1>5. NeverStranded' /\ ConnectedIsReal'
  BY DEF NeverStranded, ConnectedIsReal
<1>6. StaysInStep'
  BY <1>1 DEF StaysInStep
<1>7. QED
  BY <1>2, <1>3, <1>4, <1>5, <1>6 DEF Inv

(* A connect that is under way or done, for an object that had no socket   *)
(* or whose connect was under way: nothing has been read yet.              *)
LEMMA Connected ==
    ASSUME Inv, conn # "SUCC", conn' \in {"SEND", "SUCC"}, open' = TRUE,
           polled' \in BOOLEAN, Types, ReaderInv', part' # "cur", began' = recv',
           ~m_connected' => timers' # {} \/ (conn' = "SEND" /\ polled'),
           m_connected' /\ ~dropped => greeted' /\ timers' = {} /\ conn' = "SUCC",
           UNCHANGED <<link, last, dropped>>
    PROVE  Inv'
<1>1. /\ stream' = <<>> /\ sent' = Whole /\ last' = "none"
      /\ here' = here /\ closed' = closed /\ stream' = stream /\ sent' = sent
      /\ dropped' = dropped
  BY DEF Inv, SocketInv, link
<1>2. LinkInv'
  BY <1>1 DEF Inv, LinkInv
<1>3. TypeOK'
  <2>1. closed' \in BOOLEAN
    BY <1>1 DEF Inv, TypeOK
  <2>2. began' \in {"HEADER", "BODY"}
    BY DEF ReaderInv
  <2>3. stream' \in Seq(Cells) /\ here' \in 0..Len(stream') /\ sent' \in Cells
    BY <1>2 DEF LinkInv
  <2>4. QED
    BY <1>1, <2>1, <2>2, <2>3 DEF TypeOK, Types, ReaderInv
<1>4. SocketInv'
  BY <1>1 DEF SocketInv
<1>5. NeverStranded' /\ ConnectedIsReal'
  BY <1>1 DEF NeverStranded, ConnectedIsReal
<1>6. StaysInStep'
  <2>1. began' = "HEADER" => InStep'
    BY <1>1, WholeIsCell DEF InStep, AtBegin
  <2>2. QED
    BY <1>1, <2>1 DEF StaysInStep
<1>7. QED
  BY <1>2, <1>3, <1>4, <1>5, <1>6 DEF Inv

(* Where a connection breaks.                                              *)
LEMMA BreakInv ==
    ASSUME Inv, SetDisconnected(timers),
           ReaderInv', part' # "cur", began' = recv',
           UNCHANGED <<loop, dropped, tries>>
    PROVE  Inv'
<1>1. /\ m_connected' = FALSE /\ Clear /\ timers' = timers \cup {"INIT"}
      /\ greeted' = FALSE
  BY DEF SetDisconnected, InitAdded, Clear
<1>2. timers' \subseteq {"INIT", "RESPONSE"} /\ timers' # {}
  BY <1>1 DEF Inv, TypeOK
<1>3. loop' \in BOOLEAN /\ dropped' \in BOOLEAN /\ tries' \in BOOLEAN
  BY Zenon DEF Inv, TypeOK
<1>4. Types
  BY <1>1, <1>2, <1>3 DEF Types
<1>5. QED
  BY <1>1, <1>2, <1>4, Cleared

(* reconnect(), whoever calls it.                                          *)
LEMMA ReconnectInv ==
    ASSUME Inv, NEW t \in SUBSET {"INIT", "RESPONSE"}, Reconnect(t),
           ~(m_connected /\ ~dropped), Aged, UNCHANGED <<loop, dropped>>
    PROVE  Inv'
<1>1. TypeOK /\ SocketInv /\ ReaderInv
  BY DEF Inv
<1>2. /\ tries' \in BOOLEAN
      /\ m_connected' \in BOOLEAN /\ greeted' \in BOOLEAN
      /\ timers' \subseteq {"INIT", "RESPONSE"}
      /\ ~m_connected' => timers' # {} \/ (conn' = "SEND" /\ polled')
      /\ m_connected' /\ ~dropped => greeted' /\ timers' = {} /\ conn' = "SUCC"
      /\ \/ Clear
         \/ /\ conn' \in {"SEND", "SUCC"} /\ open' = TRUE /\ polled' \in BOOLEAN
            /\ ~open /\ UNCHANGED <<link, last>>
  BY <1>1, ReconnectFacts
<1>3. ReaderInv' /\ part' # "cur" /\ began' = recv'
  BY <1>1, ReaderAfter DEF Aged
<1>4. loop' \in BOOLEAN /\ dropped' \in BOOLEAN /\ dropped' = dropped
  BY <1>1 DEF TypeOK
<1>5. Types
  BY <1>2, <1>4 DEF Types
<1>6. CASE Clear
  <2>1. conn' = "NONE"
    BY <1>6 DEF Clear
  <2>2. ~m_connected' /\ ~dropped' => timers' # {}
    BY <1>2, <2>1
  <2>3. ~(m_connected' /\ ~dropped')
    BY <1>2, <1>4, <2>1
  <2>4. QED
    BY <1>3, <1>5, <1>6, <2>2, <2>3, Cleared
<1>7. CASE /\ conn' \in {"SEND", "SUCC"} /\ open' = TRUE /\ polled' \in BOOLEAN
           /\ ~open /\ UNCHANGED <<link, last>>
  <2>1. conn # "SUCC"
    BY <1>1, <1>7 DEF SocketInv
  <2>2. QED
    BY <1>2, <1>3, <1>4, <1>5, <1>7, <2>1, Connected
<1>8. QED
  BY <1>2, <1>6, <1>7

(* What the reader does on a connection that stays, and what the peer      *)
(* sends, has to show only that both are in step.                          *)
LEMMA Stayed ==
    ASSUME Inv, conn = "SUCC", UNCHANGED <<socket, began, dropped>>,
           Types, LinkInv', ReaderInv', closed' \in BOOLEAN,
           last' \in {"none", "whole", "spoilt"},
           m_connected => m_connected' /\ UNCHANGED <<timers, greeted>>,
           ~m_connected /\ m_connected' => greeted' /\ timers' = {},
           ~m_connected' => UNCHANGED timers,
           began = "HEADER" => InStep' /\ last' # "spoilt"
    PROVE  Inv'
<1>1. /\ conn' = conn /\ open' = open /\ polled' = polled /\ began' = began
      /\ dropped' = dropped /\ conn = "SUCC" /\ open = TRUE
  <2>1. open = TRUE
    BY DEF Inv, TypeOK, SocketInv
  <2>2. QED
    BY <2>1 DEF socket
<1>2. TypeOK'
  <2>1. polled' \in BOOLEAN /\ began' \in {"HEADER", "BODY"}
    BY <1>1 DEF Inv, TypeOK
  <2>2. QED
    BY <1>1, <2>1 DEF TypeOK, Types, ReaderInv, LinkInv
<1>3. SocketInv'
  BY <1>1 DEF SocketInv
<1>4. NeverStranded'
  <2>1. ~m_connected' => ~m_connected
    OBVIOUS
  <2>2. ~m_connected /\ ~dropped => timers # {}
    BY <1>1 DEF Inv, NeverStranded
  <2>3. QED
    BY <1>1, <2>1, <2>2 DEF NeverStranded
<1>5. ConnectedIsReal'
  BY <1>1 DEF Inv, ConnectedIsReal
<1>6. StaysInStep'
  BY <1>1 DEF StaysInStep
<1>7. QED
  BY <1>2, <1>3, <1>4, <1>5, <1>6 DEF Inv

(* A packet that the reader has put together, of a connection in step up   *)
(* to its last cell.                                                       *)
LEMMA DeliverInv ==
    ASSUME Inv, loop, conn = "SUCC", NEW n \in 1..here, NEW whole,
           Deliver(n, whole),
           began = "HEADER" => whole /\ stream[n].left = 1
    PROVE  Inv'
<1>1. /\ Restart /\ recv' = "HEADER" /\ part' = "none" /\ loop' = loop /\ tries' = tries
      /\ ReaderInv'
  BY ReaderAfter DEF Deliver, Restart, Inv
<1>2. /\ loop' \in BOOLEAN /\ tries' \in BOOLEAN /\ dropped \in BOOLEAN
      /\ m_connected \in BOOLEAN /\ greeted \in BOOLEAN
      /\ timers \subseteq {"INIT", "RESPONSE"}
  BY <1>1 DEF Inv, TypeOK
<1>3. CASE /\ m_connected \/ SetConnected(timers)
           /\ m_connected => UNCHANGED <<m_connected, timers, greeted>>
           /\ Taken(n)
           /\ last' = IF whole THEN "whole" ELSE "spoilt"
           /\ UNCHANGED <<socket, began, dropped>>
  <2>1. m_connected' = TRUE
    BY <1>2, <1>3 DEF SetConnected
  <2>2. greeted' \in BOOLEAN /\ timers' \subseteq {"INIT", "RESPONSE"}
    BY <1>2, <1>3 DEF SetConnected, TimersOff
  <2>3. ~m_connected => greeted' = TRUE /\ timers' = {}
    BY <1>3 DEF SetConnected, TimersOff
  <2>4. Types
    BY <1>2, <1>3, <2>1, <2>2 DEF Types
  <2>5. LinkInv' /\ closed' \in BOOLEAN
    BY <1>3, TakenFacts DEF Inv, Taken, TypeOK
  <2>6. ASSUME began = "HEADER" PROVE InStep' /\ last' # "spoilt"
    <3>1. AtBegin'
      BY <1>3, <2>6, AfterLast DEF Inv
    <3>2. QED
      BY <1>1, <1>3, <2>6, <3>1 DEF InStep
  <2>7. last' \in {"none", "whole", "spoilt"}
    BY <1>3
  <2>8. QED
    BY <1>1, <1>3, <2>1, <2>3, <2>4, <2>5, <2>6, <2>7, Stayed
<1>4. CASE m_connected /\ Clear /\ began' = "HEADER" /\ timers' = {}
           /\ dropped' = TRUE /\ UNCHANGED m_connected
  <2>1. Types
    BY <1>2, <1>4 DEF Types, Clear
  <2>2. QED
    BY <1>1, <1>4, <2>1, Cleared
<1>5. CASE ~m_connected /\ EventError /\ began' = "HEADER" /\ UNCHANGED dropped
  BY <1>1, <1>5, BreakInv DEF EventError
<1>6. QED
  BY <1>3, <1>4, <1>5 DEF Deliver

-----------------------------------------------------------------------------
(* The invariant.                                                          *)

LEMMA InvInit == Init => Inv
<1> SUFFICES ASSUME Init PROVE Inv
  OBVIOUS
<1>1. TypeOK
  <2>1. stream \in Seq(Cells) /\ here \in 0..Len(stream) /\ sent \in Cells
    BY WholeIsCell DEF Init
  <2>2. /\ open \in BOOLEAN /\ polled \in BOOLEAN /\ m_connected \in BOOLEAN
        /\ loop \in BOOLEAN /\ closed \in BOOLEAN
        /\ greeted \in BOOLEAN /\ dropped \in BOOLEAN /\ tries \in BOOLEAN
    BY DEF Init
  <2>3. /\ conn \in {"NONE", "SEND", "SUCC"} /\ timers \subseteq {"INIT", "RESPONSE"}
        /\ recv \in {"HEADER", "BODY"} /\ began \in {"HEADER", "BODY"}
        /\ last \in {"none", "whole", "spoilt"}
    BY DEF Init
  <2>4. /\ dest \in 0..MaxBody /\ got \in 0..MaxBody
        /\ part \in {"none", "cur", "old", "wrong"}
    BY DEF Init
  <2>5. QED
    BY <2>1, <2>2, <2>3, <2>4 DEF TypeOK
<1>2. LinkInv
  BY WholeIsCell DEF Init, LinkInv
<1>3. ReaderInv /\ SocketInv
  <2>1. conn = "NONE" <=> ~open
    <3>1. open = (conn # "NONE")
      BY DEF Init
    <3>2. QED
      BY <3>1, Zenon
  <2>2. /\ recv = "HEADER" /\ dest = 0 /\ got = 0 /\ part = "none" /\ stream = <<>>
        /\ sent = Whole /\ began = "HEADER" /\ last = "none"
    BY DEF Init
  <2>3. ReaderInv
    BY <2>2 DEF ReaderInv
  <2>4. conn # "SUCC" => /\ stream = <<>> /\ sent = Whole /\ last = "none"
                         /\ began = recv /\ part # "cur"
    BY <2>2
  <2>5. QED
    BY <2>1, <2>3, <2>4 DEF SocketInv
<1>4. NeverStranded /\ ConnectedIsReal
  BY DEF Init, NeverStranded, ConnectedIsReal
<1>5. StaysInStep
  BY WholeIsCell DEF Init, StaysInStep, InStep, AtBegin
<1>6. QED
  BY <1>1, <1>2, <1>3, <1>4, <1>5 DEF Inv

LEMMA InvStep == Inv /\ [Next]_vars => Inv'
<1> SUFFICES ASSUME Inv, [Next]_vars PROVE Inv'
  OBVIOUS
<1>1. /\ TypeOK /\ LinkInv /\ ReaderInv /\ SocketInv
      /\ NeverStranded /\ ConnectedIsReal /\ StaysInStep
  BY DEF Inv
<1>b. /\ m_connected \in BOOLEAN /\ greeted \in BOOLEAN
      /\ timers \subseteq {"INIT", "RESPONSE"} /\ timers \in SUBSET {"INIT", "RESPONSE"}
      /\ loop \in BOOLEAN /\ dropped \in BOOLEAN /\ tries \in BOOLEAN
      /\ closed \in BOOLEAN /\ last \in {"none", "whole", "spoilt"}
  BY <1>1 DEF TypeOK
<1>s. here \in Nat /\ (here > 0 => conn = "SUCC" /\ stream # <<>>)
  BY <1>1 DEF SocketInv, LinkInv
<1>2. CASE InitTimer
  <2>1. timers # {} /\ timers \ {"INIT"} \in SUBSET {"INIT", "RESPONSE"}
    BY <1>b, <1>2 DEF InitTimer
  <2>2. ~(m_connected /\ ~dropped)
    BY <1>1, <2>1 DEF ConnectedIsReal
  <2>3. QED
    BY <1>2, <2>1, <2>2, ReconnectInv DEF InitTimer
<1>3. CASE ResponseTimer
  <2>1. /\ Clear /\ timers' = {"INIT"} /\ Aged /\ m_connected' = m_connected
        /\ loop' = loop /\ dropped' = dropped /\ tries' = tries
        /\ greeted' = FALSE /\ began' = recv'
    BY <1>3 DEF ResponseTimer, Clear, Aged
  <2>2. ~(m_connected /\ ~dropped)
    BY <1>1, <1>3 DEF ResponseTimer, ConnectedIsReal
  <2>3. Types
    BY <1>b, <2>1 DEF Types
  <2>4. ReaderInv' /\ part' # "cur"
    BY <1>1, <2>1, ReaderAfter
  <2>5. QED
    BY <2>1, <2>2, <2>3, <2>4, Cleared
<1>4. CASE PingTimeout
  <2>1. ReaderInv' /\ part' # "cur" /\ began' = recv'
    BY <1>1, <1>4, ReaderAfter DEF PingTimeout, Aged
  <2>2. QED
    BY <1>4, <2>1, BreakInv DEF PingTimeout
<1>5. CASE ConnectDone
  <2>1. /\ conn = "SEND" /\ EventConnect(timers) /\ polled' = (conn' = "SUCC")
        /\ recv' = recv /\ dest' = dest /\ got' = got /\ part' = part
        /\ began' = began /\ loop' = loop /\ dropped' = dropped /\ tries' = tries
    BY <1>5 DEF ConnectDone, progress
  <2>2. ~(m_connected /\ ~dropped)
    BY <1>1, <2>1 DEF ConnectedIsReal
  <2>3. /\ m_connected' \in BOOLEAN /\ greeted' \in BOOLEAN
        /\ timers' \subseteq {"INIT", "RESPONSE"}
        /\ ~m_connected' => timers' # {}
        /\ m_connected' /\ ~dropped => greeted' /\ timers' = {} /\ conn' = "SUCC"
        /\ \/ Clear
           \/ conn' = "SUCC" /\ open' = TRUE /\ UNCHANGED <<link, last>>
    BY <1>1, <1>b, <2>1, <2>2, EventConnectFacts
  <2>4. Types
    BY <1>b, <2>1, <2>3 DEF Types
  <2>5. ReaderInv' /\ part' # "cur" /\ began' = recv'
    BY <1>1, <2>1 DEF SocketInv, ReaderInv
  <2>6. CASE Clear
    <3>1. conn' = "NONE"
      BY <2>6 DEF Clear
    <3>2. ~(m_connected' /\ ~dropped')
      BY <2>1, <2>3, <3>1
    <3>3. QED
      BY <2>1, <2>3, <2>4, <2>5, <2>6, <3>2, Cleared
  <2>7. CASE conn' = "SUCC" /\ open' = TRUE /\ UNCHANGED <<link, last>>
    <3>1. conn # "SUCC" /\ polled' \in BOOLEAN
      BY <2>1
    <3>2. ~m_connected' => timers' # {} \/ (conn' = "SEND" /\ polled')
      BY <2>3
    <3>3. QED
      BY <2>1, <2>3, <2>4, <2>5, <2>7, <3>1, <3>2, Connected
  <2>8. QED
    BY <2>3, <2>6, <2>7
<1>6. CASE ReadFails
  <2>1. ReaderInv' /\ part' # "cur" /\ began' = recv'
    BY <1>1, <1>6, ReaderAfter DEF ReadFails, Aged
  <2>2. QED
    BY <1>6, <2>1, BreakInv DEF ReadFails, EventError
<1>7. CASE EventRead
  <2>1. /\ conn = "SUCC" /\ UNCHANGED <<socket, m_connected, recv, progress, stream,
             sent, closed, timers, notes, dropped, tries>>
        /\ loop' = TRUE /\ here' \in here + 1..Len(stream)
    BY <1>7 DEF EventRead
  <2>2. /\ recv' = recv /\ dest' = dest /\ got' = got /\ part' = part /\ stream' = stream
        /\ sent' = sent /\ began' = began /\ last' = last /\ greeted' = greeted
        /\ m_connected' = m_connected /\ timers' = timers /\ dropped' = dropped
        /\ tries' = tries /\ closed' = closed
    BY <2>1 DEF progress, notes
  <2>3. Types
    BY <1>b, <2>1, <2>2 DEF Types
  <2>4. LinkInv'
    BY <1>1, <2>1, <2>2 DEF LinkInv
  <2>5. ReaderInv'
    BY <1>1, <2>2 DEF ReaderInv
  <2>6. began = "HEADER" => InStep' /\ last' # "spoilt"
    BY <1>1, <2>1, <2>2 DEF StaysInStep, InStep, AtBegin, AtRest
  <2>7. QED
    BY <1>b, <2>1, <2>2, <2>3, <2>4, <2>5, <2>6, Stayed
<1>8. CASE WaitMore
  <2>1. /\ UNCHANGED <<socket, m_connected, recv, progress, link, timers, notes,
                       dropped, tries>>
        /\ loop' = FALSE
    BY <1>8 DEF WaitMore
  <2>2. /\ recv' = recv /\ dest' = dest /\ got' = got /\ part' = part /\ stream' = stream
        /\ sent' = sent /\ began' = began /\ last' = last /\ greeted' = greeted
        /\ m_connected' = m_connected /\ timers' = timers /\ dropped' = dropped
        /\ tries' = tries /\ closed' = closed /\ here' = here
        /\ conn' = conn /\ open' = open /\ polled' = polled
    BY <2>1 DEF progress, notes, link, socket
  <2>3. TypeOK'
    <3>1. loop' \in BOOLEAN
      BY <2>1
    <3>2. stream' \in Seq(Cells) /\ here' \in 0..Len(stream') /\ sent' \in Cells
      BY <1>1, <2>2 DEF LinkInv
    <3>3. QED
      BY <1>1, <2>2, <3>1, <3>2 DEF TypeOK
  <2>4. LinkInv' /\ ReaderInv' /\ SocketInv'
    BY <1>1, <2>2 DEF LinkInv, ReaderInv, SocketInv
  <2>5. NeverStranded' /\ ConnectedIsReal' /\ StaysInStep'
    BY <1>1, <2>2 DEF NeverStranded, ConnectedIsReal, StaysInStep, InStep, AtBegin, AtRest
  <2>6. QED
    BY <2>3, <2>4, <2>5 DEF Inv
<1>9. CASE BadHeader
  <2>1. /\ EventError /\ began' = "HEADER" /\ Restart
        /\ UNCHANGED <<loop, dropped, tries>>
    BY <1>9 DEF BadHeader
  <2>2. ReaderInv' /\ part' # "cur"
    BY <1>1, <2>1, ReaderAfter
  <2>3. recv' = "HEADER"
    BY <2>1 DEF Restart
  <2>4. QED
    BY <2>1, <2>2, <2>3, BreakInv DEF EventError
<1>10. CASE HeaderOnly
  <2>1. PICK n \in 1..here : IsLine(n) /\ 0 \in Lengths(n) /\ Deliver(n, IsHeader(n))
    BY <1>10 DEF HeaderOnly
  <2>2. loop /\ recv = "HEADER" /\ conn = "SUCC"
    BY <1>10, <1>s, <2>1 DEF HeaderOnly
  <2>3. ASSUME began = "HEADER" PROVE IsHeader(n) /\ stream[n].left = 1
    <3>1. AtBegin
      BY <1>1, <2>2, <2>3 DEF StaysInStep, InStep
    <3>2. /\ IsHeader(n) /\ stream[2] \in Cells /\ Lengths(n) = {stream[2].left - 1}
      BY <1>1, <2>1, <3>1, LineIsHeader
    <3>3. n = 2 /\ stream[2].left - 1 = 0
      BY <2>1, <3>2 DEF IsHeader
    <3>4. QED
      BY <3>2, <3>3, CellType
  <2>4. QED
    BY <2>1, <2>2, <2>3, DeliverInv
<1>11. CASE HeaderOfBody
  <2>1. PICK n \in 1..here :
          /\ IsLine(n) /\ dest' \in Lengths(n) \ {0}
          /\ part' = IF IsHeader(n) THEN "cur" ELSE "wrong"
          /\ Taken(n)
    BY <1>11 DEF HeaderOfBody
  <2>2. /\ recv = "HEADER" /\ conn = "SUCC" /\ recv' = "BODY"
        /\ UNCHANGED <<socket, m_connected, got, timers, loop, notes, dropped, tries>>
    BY <1>11, <1>s, <2>1 DEF HeaderOfBody
  <2>3. /\ greeted' = greeted /\ last' = last /\ began' = began /\ closed' = closed
        /\ got' = got /\ m_connected' = m_connected /\ timers' = timers
        /\ loop' = loop /\ dropped' = dropped /\ tries' = tries
    BY <2>1, <2>2 DEF notes, Taken
  <2>4. Types
    BY <1>b, <2>3 DEF Types
  <2>5. LinkInv'
    BY <1>1, <2>1, TakenFacts
  <2>6. dest' \in 1..MaxBody
    <3>1. CASE IsHeader(n)
      <4>1. stream[1] \in Cells /\ stream[2] \in Cells /\ stream[1].left >= 2
            /\ Follows(stream[1], stream[2]) /\ stream[1].kind = "begin"
        <5>1. n = 2 /\ stream[1].kind = "begin" /\ Len(stream) >= 2
          BY <1>1, <2>1, <3>1 DEF IsHeader, LinkInv
        <5>2. 1 \in 1..Len(stream) - 1 /\ 1 \in 1..Len(stream) /\ 2 \in 1..Len(stream)
          BY <1>1, <5>1 DEF LinkInv
        <5>3. Follows(stream[1], stream[1 + 1])
          BY <1>1, <5>2 DEF LinkInv
        <5>4. QED
          BY <1>1, <5>1, <5>2, <5>3 DEF LinkInv
      <4>2. stream[1].left \in 1..MaxBody + 2 /\ stream[2].left \in 1..MaxBody + 2
        BY <4>1, CellType
      <4>3. stream[2].left = stream[1].left - 1
        BY <4>1, <4>2 DEF Follows
      <4>4. dest' = stream[2].left - 1 /\ dest' # 0
        BY <2>1, <3>1 DEF Lengths
      <4>5. QED
        BY <4>1, <4>2, <4>3, <4>4
    <3>2. CASE ~IsHeader(n)
      BY <2>1, <3>2 DEF Lengths
    <3>3. QED
      BY <3>1, <3>2
  <2>7. ReaderInv'
    BY <1>1, <2>1, <2>2, <2>3, <2>6 DEF ReaderInv
  <2>8. ASSUME began = "HEADER" PROVE InStep' /\ last' # "spoilt"
    <3>1. AtBegin /\ last # "spoilt"
      BY <1>1, <2>2, <2>8 DEF StaysInStep, InStep
    <3>2. InStep'
      BY <1>1, <2>1, <2>2, <2>3, <3>1, StepHeader
    <3>3. QED
      BY <2>3, <3>1, <3>2
  <2>9. QED
    BY <1>b, <2>2, <2>3, <2>4, <2>5, <2>7, <2>8, Stayed
<1>12. CASE BodyPart
  <2>1. /\ recv = "BODY" /\ here > 0 /\ got + 1 < dest /\ got' = got + 1 /\ Taken(1)
        /\ UNCHANGED <<socket, m_connected, recv, dest, part, timers, loop, notes,
                       dropped, tries>>
    BY <1>12 DEF BodyPart
  <2>2. conn = "SUCC" /\ 1 \in 1..here
    BY <1>s, <2>1
  <2>3. /\ greeted' = greeted /\ last' = last /\ began' = began /\ closed' = closed
        /\ m_connected' = m_connected /\ timers' = timers
        /\ loop' = loop /\ dropped' = dropped /\ tries' = tries
    BY <2>1 DEF notes, Taken
  <2>4. Types
    BY <1>b, <2>3 DEF Types
  <2>5. LinkInv'
    BY <1>1, <2>1, <2>2, TakenFacts
  <2>6. ReaderInv'
    BY <1>1, <2>1 DEF ReaderInv
  <2>7. ASSUME began = "HEADER" PROVE InStep' /\ last' # "spoilt"
    <3>1. AtRest /\ last # "spoilt"
      BY <1>1, <2>1, <2>2, <2>7 DEF StaysInStep, InStep
    <3>2. QED
      BY <1>1, <2>1, <2>3, <3>1, StepPart
  <2>8. QED
    BY <1>b, <2>1, <2>2, <2>3, <2>4, <2>5, <2>6, <2>7, Stayed
<1>13. CASE Body
  <2>1. loop /\ recv = "BODY" /\ here > 0 /\ got + 1 >= dest /\ Deliver(1, InStep)
    BY <1>13 DEF Body
  <2>2. conn = "SUCC" /\ 1 \in 1..here
    BY <1>s, <2>1
  <2>3. ASSUME began = "HEADER" PROVE InStep /\ stream[1].left = 1
    <3>1. InStep /\ AtRest
      BY <1>1, <2>1, <2>2, <2>3 DEF StaysInStep, InStep
    <3>2. stream # <<>> /\ Head(stream) = stream[1]
      BY <1>s, <1>1, <2>1 DEF LinkInv
    <3>3. stream[1].left = dest - got
      BY <3>1, <3>2 DEF AtRest
    <3>4. dest \in Nat /\ got \in Nat /\ got < dest
      BY <1>1, <2>1 DEF ReaderInv
    <3>5. QED
      BY <2>1, <3>1, <3>3, <3>4
  <2>4. QED
    BY <2>1, <2>2, <2>3, DeliverInv
<1>14. CASE Disconnect
  <2>1. /\ Clear /\ timers' = {} /\ dropped' = TRUE /\ Aged
        /\ m_connected' = m_connected /\ loop' = loop /\ tries' = tries
        /\ greeted' = FALSE /\ began' = recv'
    BY <1>14 DEF Disconnect, Clear, Aged
  <2>2. Types
    BY <1>b, <2>1 DEF Types
  <2>3. ReaderInv' /\ part' # "cur"
    BY <1>1, <2>1, ReaderAfter
  <2>4. QED
    BY <2>1, <2>2, <2>3, Cleared
<1>15. CASE AppReconnect
  BY <1>b, <1>15, ReconnectInv DEF AppReconnect
<1>16. CASE PeerSends
  <2>1. PICK c \in Cells : Follows(sent, c) /\ stream' = Append(stream, c) /\ sent' = c
    BY <1>16 DEF PeerSends
  <2>2. /\ conn = "SUCC"
        /\ UNCHANGED <<socket, m_connected, recv, progress, here, closed, timers,
                       loop, notes, dropped, tries>>
    BY <1>16 DEF PeerSends
  <2>3. /\ recv' = recv /\ dest' = dest /\ got' = got /\ part' = part /\ here' = here
        /\ began' = began /\ last' = last /\ greeted' = greeted
        /\ m_connected' = m_connected /\ timers' = timers /\ dropped' = dropped
        /\ tries' = tries /\ closed' = closed /\ loop' = loop
    BY <2>2 DEF progress, notes
  <2>4. Types
    BY <1>b, <2>3 DEF Types
  <2>5. ReaderInv'
    BY <1>1, <2>3 DEF ReaderInv
  <2>6. LinkInv'
    BY <1>1, <2>1, <2>3, LinkSends
  <2>7. ASSUME began = "HEADER" PROVE InStep' /\ last' # "spoilt"
    <3>1. InStep /\ last # "spoilt"
      BY <1>1, <2>2, <2>7 DEF StaysInStep
    <3>2. QED
      BY <1>1, <2>1, <2>3, <3>1, StepSends
  <2>8. QED
    BY <1>b, <2>2, <2>3, <2>4, <2>5, <2>6, <2>7, Stayed
<1>17. CASE PeerCloses
  <2>1. /\ conn = "SUCC" /\ closed' = TRUE
        /\ UNCHANGED <<socket, m_connected, recv, progress, stream, here, sent,
                       timers, loop, notes, dropped, tries>>
    BY <1>17 DEF PeerCloses
  <2>2. /\ recv' = recv /\ dest' = dest /\ got' = got /\ part' = part /\ here' = here
        /\ stream' = stream /\ sent' = sent
        /\ began' = began /\ last' = last /\ greeted' = greeted
        /\ m_connected' = m_connected /\ timers' = timers /\ dropped' = dropped
        /\ tries' = tries /\ loop' = loop
    BY <2>1 DEF progress, notes
  <2>3. Types
    BY <1>b, <2>2 DEF Types
  <2>4. LinkInv' /\ ReaderInv'
    BY <1>1, <2>2 DEF LinkInv, ReaderInv
  <2>5. began = "HEADER" => InStep' /\ last' # "spoilt"
    BY <1>1, <2>1, <2>2 DEF StaysInStep, InStep, AtBegin, AtRest
  <2>6. closed' \in BOOLEAN
    BY <2>1
  <2>7. QED
    BY <1>b, <2>1, <2>2, <2>3, <2>4, <2>5, <2>6, Stayed
<1>18. CASE UNCHANGED vars
  <2>1. /\ recv' = recv /\ dest' = dest /\ got' = got /\ part' = part /\ stream' = stream
        /\ sent' = sent /\ began' = began /\ last' = last /\ greeted' = greeted
        /\ m_connected' = m_connected /\ timers' = timers /\ dropped' = dropped
        /\ tries' = tries /\ closed' = closed /\ here' = here /\ loop' = loop
        /\ conn' = conn /\ open' = open /\ polled' = polled
    BY <1>18 DEF vars, progress, notes, link, socket
  <2>2. TypeOK'
    BY <1>1, <2>1 DEF TypeOK
  <2>3. LinkInv' /\ ReaderInv' /\ SocketInv'
    BY <1>1, <2>1 DEF LinkInv, ReaderInv, SocketInv
  <2>4. NeverStranded' /\ ConnectedIsReal' /\ StaysInStep'
    BY <1>1, <2>1 DEF NeverStranded, ConnectedIsReal, StaysInStep, InStep, AtBegin, AtRest
  <2>5. QED
    BY <2>2, <2>3, <2>4 DEF Inv
<1>19. QED
  BY <1>2, <1>3, <1>4, <1>5, <1>6, <1>7, <1>8, <1>9, <1>10, <1>11, <1>12, <1>13,
     <1>14, <1>15, <1>16, <1>17, <1>18 DEF Next, Reading

LEMMA AlwaysInv == Spec => []Inv
<1>1. Init => Inv
  BY InvInit
<1>2. Inv /\ [Next]_vars => Inv'
  BY InvStep
<1>3. QED
  BY <1>1, <1>2, PTL DEF Spec

-----------------------------------------------------------------------------
(* The variables keep their types.                                         *)
THEOREM TypeCorrect == Spec => []TypeOK
<1>1. Inv => TypeOK
  BY DEF Inv
<1>2. QED
  BY <1>1, AlwaysInv, PTL

(* eventTimer(), setDisconnected() and reconnect() leave no channel that   *)
(* is down without a timer or a connect that the poller watches.           *)
THEOREM AlwaysRetried == Spec => []NeverStranded
<1>1. Inv => NeverStranded
  BY DEF Inv
<1>2. QED
  BY <1>1, AlwaysInv, PTL

(* setConnected() leaves no timer behind that would cut the connection,    *)
(* and isConnected() holds of a connection whose hello was checked.        *)
THEOREM ConnectedCorrect == Spec => []ConnectedIsReal
<1>1. Inv => ConnectedIsReal
  BY DEF Inv
<1>2. QED
  BY <1>1, AlwaysInv, PTL

(* What eventReadData() hands on is what the peer has sent, packet for     *)
(* packet, on each connection that does not begin with the header of an    *)
(* older one in m_recv; and it goes on where the next packet begins.       *)
THEOREM StepCorrect == Spec => []StaysInStep
<1>1. Inv => StaysInStep
  BY DEF Inv
<1>2. QED
  BY <1>1, AlwaysInv, PTL
=============================================================================
