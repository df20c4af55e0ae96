---------------------------- MODULE ListenerProofs ----------------------------
(***************************************************************************)
(* Proofs about Listener for any number of connections, of children and of *)
(* messages in a pair.  Inv relates three things: what the parent's        *)
(* numbers lead to (FdsInv), who holds a connection (SocketsKnown, Passing)*)
(* and where the messages are (CarryInv).                                  *)
(***************************************************************************)
EXTENDS Listener, FiniteSetTheorems, TLAPS

USE ListenerAssumption DEF Child, Parent, Fd

(* The lowest of some numbers is one of them.                              *)
LEMMA LeastNat ==
    ASSUME NEW S, S \subseteq Nat, S # {}
    PROVE  Min(S) \in S /\ \A y \in S : Min(S) <= y
<1> DEFINE R == OpToRel(<, Nat)
<1>1. IsWellFoundedOn(R, Nat)
  BY NatLessThanWellFounded, Zenon
<1>2. \A p \in Nat \X Nat : p[1] < p[2] => p \in R
  BY DEF OpToRel
<1> HIDE DEF R
<1>3. PICK x \in S : \A y \in S : ~(<<y, x>> \in R)
  BY <1>1, WFMin
<1>4. ASSUME NEW y \in S PROVE x <= y
  <2>1. <<y, x>> \in Nat \X Nat /\ ~(y < x)
    BY <1>2, <1>3
  <2>2. QED
    BY <2>1
<1>5. QED
  BY <1>4 DEF Min

(* The three things a number may lead to.                                  *)
LEMMA Things ==
    /\ \A c \in Conn : \A k, e : Socket(c) # Nobody /\ End(k, e) # Nobody /\ Socket(c) # End(k, e)
    /\ \A c, d \in Conn : Socket(c) = Socket(d) => c = d
    /\ \A k, e, j, g : End(k, e) = End(j, g) => k = j /\ e = g
    /\ \A k, e : IsPair(End(k, e)) /\ End(k, e)[1] = k /\ End(k, e)[2] = e
    /\ \A c \in Conn : ~IsPair(Socket(c))
    /\ ~IsPair(Nobody)
    /\ Nobody \in Thing /\ \A c \in Conn : Socket(c) \in Thing
    /\ \A k \in Child, e \in 0..1 : End(k, e) \in Thing
  BY DEF Thing, Socket, End, Nobody, IsPair

-----------------------------------------------------------------------------
(* There is a free number.                                                 *)
LEMMA Images ==
    ASSUME NEW S, IsFiniteSet(S), NEW g
    PROVE  /\ IsFiniteSet({g[x] : x \in S})
           /\ Cardinality({g[x] : x \in S}) <= Cardinality(S)
<1> DEFINE T == {g[x] : x \in S}
           f == [x \in S |-> g[x]]
<1>1. f \in Surjection(S, T)
  BY DEF Surjection
<1>2. QED
  BY <1>1, FS_Surjection

\* A set without one of its elements.
LEMMA WithoutOne ==
    ASSUME NEW S, IsFiniteSet(S), NEW x \in S
    PROVE  IsFiniteSet(S \ {x}) /\ Cardinality(S \ {x}) = Cardinality(S) - 1
  BY FS_RemoveElement

Ends(C) == {pair[x[1]][x[2]] : x \in C \X (0..1)}
Numbers == {number[c] : c \in Conn}

(* The numbers in use are those of the pairs and those of the connections. *)
LEMMA EndsBound ==
    ASSUME NEW C, C \subseteq Child
    PROVE  /\ IsFiniteSet(Ends(C) \cup Numbers)
           /\ Cardinality(Ends(C) \cup Numbers) <= 2 * Cardinality(C) + Cardinality(Conn)
           /\ Cardinality(C) \in Nat
<1>1. IsFiniteSet(C) /\ Cardinality(C) \in Nat
  <2>1. IsFiniteSet(Child)
    BY FS_Interval
  <2>2. QED
    BY <2>1, FS_Subset, FS_CardinalityType
<1>2. IsFiniteSet(0..1) /\ Cardinality(0..1) = 2
  <2>1. {} \cup {0} = {0} /\ {0} \cup {1} = 0..1 /\ 1 \notin {0}
    OBVIOUS
  <2>2. IsFiniteSet({0}) /\ Cardinality({0}) = 1
    BY FS_Singleton
  <2>3. IsFiniteSet({0} \cup {1}) /\ Cardinality({0} \cup {1}) = 1 + 1
    BY <2>1, <2>2, FS_AddElement
  <2>4. QED
    BY <2>1, <2>3
<1>3. /\ IsFiniteSet(C \X (0..1)) 
      /\ Cardinality(C \X (0..1)) = Cardinality(C) * 2
  BY <1>1, <1>2, FS_Product
<1> DEFINE g == [x \in C \X (0..1) |-> pair[x[1]][x[2]]]
<1>4. Ends(C) = {g[x] : x \in C \X (0..1)}
  BY DEF Ends
<1> HIDE DEF g
<1>5. IsFiniteSet(Ends(C)) /\ Cardinality(Ends(C)) <= 2 * Cardinality(C)
  BY <1>1, <1>3, <1>4, Images
<1>6. IsFiniteSet(Numbers) /\ Cardinality(Numbers) <= Cardinality(Conn)
  BY Images DEF Numbers
<1>7. Cardinality(Ends(C)) \in Nat /\ Cardinality(Numbers) \in Nat /\ Cardinality(Conn) \in Nat
  BY <1>5, <1>6, FS_CardinalityType
<1>8. Cardinality(Ends(C) \cap Numbers) \in Nat
  BY <1>5, FS_Intersection, FS_CardinalityType
<1>9. /\ IsFiniteSet(Ends(C) \cup Numbers)
      /\ Cardinality(Ends(C) \cup Numbers) =
             Cardinality(Ends(C)) + Cardinality(Numbers) - Cardinality(Ends(C) \cap Numbers)
  BY <1>5, <1>6, FS_Union
<1>10. QED
  BY <1>1, <1>5, <1>6, <1>7, <1>8, <1>9

(* A table in which fewer numbers are used than there are has a free one.  *)
LEMMA LowestIsFree ==
    ASSUME NEW t, NEW U, IsFiniteSet(U),
           Cardinality(U) <= 2 * NumChildren + Cardinality(Conn),
           \A n \in Fd : t[n] # Nobody => n \in U
    PROVE  Lowest(t) \in Fd /\ t[Lowest(t)] = Nobody
<1> DEFINE F == {n \in Fd : t[n] = Nobody}
<1>1. Cardinality(Conn) \in Nat /\ Cardinality(U) \in Nat
  BY FS_CardinalityType
<1>2. Cardinality(Fd) = 2 * NumChildren + Cardinality(Conn) + 1
  BY <1>1, FS_Interval
<1>3. F # {}
  <2>1. SUFFICES ASSUME F = {} PROVE FALSE
    OBVIOUS
  <2>2. Fd \in SUBSET U
    BY <2>1
  <2>3. Cardinality(Fd) <= Cardinality(U)
    BY <2>2, FS_Subset
  <2>4. QED
    BY <1>1, <1>2, <2>3
<1>4. F \subseteq Nat
  OBVIOUS
<1>5. Min(F) \in F
  BY <1>3, <1>4, LeastNat
<1>6. QED
  BY <1>5 DEF Lowest

-----------------------------------------------------------------------------
(* The parent's descriptors.  A number that leads to an end of a pair is   *)
(* the one that the slot has for it, and one that leads to a connection is *)
(* that connection's; the parent has no connection open but those it keeps *)
(* and the one that it is passing on.                                      *)
Held(c) == life[c] \in InProcess /\ owner[c] = Parent

EndsKnown == \A n \in Fd, k \in Child, e \in 0..1 : fds[n] = End(k, e) => pair[k][e] = n
SocketsKnown == \A n \in Fd, c \in Conn :
    fds[n] = Socket(c) => number[c] = n /\ (Held(c) \/ (pc # "loop" /\ c = cur))
Passing ==
    /\ pc # "loop" => fds[number[cur]] = Socket(cur) /\ ~Held(cur)
    /\ pc = "send" => index \in Child /\ life[cur] = "moving"

FdsInv == EndsKnown /\ SocketsKnown /\ Passing

LEMMA Ranges ==
    ASSUME TypeOK
    PROVE  /\ \A k \in Child, e \in 0..1 : pair[k][e] \in Fd
           /\ \A c \in Conn : number[c] \in Fd
           /\ \A n \in Fd : fds[n] \in Thing
<1>1. pair \in [Child -> [0..1 -> Fd]] /\ number \in [Conn -> Fd] /\ fds \in [Fd -> Thing]
  BY DEF TypeOK
<1>2. \A k \in Child : pair[k] \in [0..1 -> Fd]
  BY <1>1, Zenon
<1>3. \A k \in Child, e \in 0..1 : pair[k][e] \in Fd
  BY <1>2, Zenon
<1>4. (\A c \in Conn : number[c] \in Fd) /\ (\A n \in Fd : fds[n] \in Thing)
  BY <1>1, Zenon
<1>5. QED
  BY <1>3, <1>4

LEMMA UsedNumbers ==
    ASSUME TypeOK, FdsInv, NEW n \in Fd
    PROVE  \/ fds[n] = Nobody
           \/ \E c \in Conn : fds[n] = Socket(c) /\ number[c] = n
           \/ \E k \in Child, e \in 0..1 : fds[n] = End(k, e) /\ pair[k][e] = n
<1>1. fds[n] \in Thing
  BY DEF TypeOK
<1>2. QED
  BY <1>1 DEF Thing, FdsInv, EndsKnown, SocketsKnown

(* accept() gets a free number.                                            *)
LEMMA FreeNumber ==
    ASSUME TypeOK, FdsInv
    PROVE  Lowest(fds) \in Fd /\ fds[Lowest(fds)] = Nobody
<1>1. ASSUME NEW n \in Fd, fds[n] # Nobody PROVE n \in Ends(Child) \cup Numbers
  <2>1. CASE \E c \in Conn : number[c] = n
    BY <2>1 DEF Numbers
  <2>2. ASSUME NEW k \in Child, NEW e \in 0..1, pair[k][e] = n PROVE n \in Ends(Child)
    <3>1. <<k, e>> \in Child \X (0..1) /\ <<k, e>>[1] = k /\ <<k, e>>[2] = e
      OBVIOUS
    <3>2. QED
      BY <2>2, <3>1 DEF Ends
  <2>3. QED
    BY <1>1, <2>1, <2>2, UsedNumbers
<1>2. Cardinality(Child) = NumChildren
  BY FS_Interval
<1>3. /\ IsFiniteSet(Ends(Child) \cup Numbers)
      /\ Cardinality(Ends(Child) \cup Numbers) <= 2 * NumChildren + Cardinality(Conn)
  BY <1>2, EndsBound
<1>4. QED
  BY <1>1, <1>3, LowestIsFree

(* With a slot's pair closed there are two free numbers for a new one.     *)
LEMMA NewNumbers ==
    ASSUME TypeOK, FdsInv, NEW k \in Child
    PROVE  LET closed == ClosedPair(fds, k)
               new == NewPair(closed)
           IN  /\ new \in [0..1 -> Fd] /\ new[0] # new[1]
               /\ closed[new[0]] = Nobody /\ closed[new[1]] = Nobody
<1> DEFINE closed == ClosedPair(fds, k)
           C == Child \ {k}
           U == Ends(C) \cup Numbers
           n0 == Lowest(closed)
           t1 == [closed EXCEPT ![n0] = End(0, 0)]
           n1 == Lowest(t1)
<1>1. ASSUME NEW n \in Fd, closed[n] # Nobody PROVE n \in U
  <2>1. fds[n] # Nobody /\ n # pair[k][0] /\ n # pair[k][1]
    BY <1>1 DEF ClosedPair
  <2>2. CASE \E c \in Conn : number[c] = n
    BY <2>2 DEF Numbers
  <2>3. ASSUME NEW j \in Child, NEW e \in 0..1, pair[j][e] = n PROVE n \in Ends(C)
    <3>1. j # k
      BY <2>1, <2>3
    <3>2. <<j, e>> \in C \X (0..1) /\ <<j, e>>[1] = j /\ <<j, e>>[2] = e
      BY <3>1
    <3>3. QED
      BY <2>3, <3>2 DEF Ends
  <2>4. QED
    BY <2>1, <2>2, <2>3, UsedNumbers
<1>2. Cardinality(C) = NumChildren - 1
  <2>1. IsFiniteSet(Child) /\ Cardinality(Child) = NumChildren
    BY FS_Interval
  <2>2. QED
    BY <2>1, WithoutOne
<1>3. /\ IsFiniteSet(U) /\ Cardinality(U) \in Nat
      /\ Cardinality(U) <= 2 * (NumChildren - 1) + Cardinality(Conn)
  BY <1>2, EndsBound, FS_CardinalityType
<1>4. Cardinality(Conn) \in Nat
  BY FS_CardinalityType
<1> HIDE DEF closed, U
<1>5. n0 \in Fd /\ closed[n0] = Nobody
  <2>1. Cardinality(U) <= 2 * NumChildren + Cardinality(Conn)
    BY <1>3, <1>4
  <2>2. QED
    BY <1>1, <1>3, <2>1, LowestIsFree
<1> HIDE DEF n0
<1>6. /\ IsFiniteSet(U \cup {n0})
      /\ Cardinality(U \cup {n0}) <= 2 * NumChildren + Cardinality(Conn)
  <2>1. /\ IsFiniteSet(U \cup {n0})
        /\ Cardinality(U \cup {n0}) \in {Cardinality(U), Cardinality(U) + 1}
    BY <1>3, FS_AddElement
  <2>2. QED
    BY <1>3, <1>4, <2>1
<1>7. closed = [n \in Fd |-> closed[n]]
  BY DEF closed, ClosedPair
<1>8. \A n \in Fd : t1[n] = IF n = n0 THEN End(0, 0) ELSE closed[n]
  BY <1>7
<1> HIDE DEF t1
<1>9. n1 \in Fd /\ t1[n1] = Nobody
  BY <1>1, <1>6, <1>8, LowestIsFree
<1>10. n1 # n0 /\ closed[n1] = Nobody
  BY <1>5, <1>8, <1>9, Things
<1>11. NewPair(closed) = [e \in 0..1 |-> IF e = 0 THEN n0 ELSE n1]
  BY DEF NewPair, n0, t1
<1>12. QED
  BY <1>5, <1>9, <1>10, <1>11 DEF closed

(* _closePair() once, and once more by fork().                             *)
LEMMA Closing ==
    ASSUME TypeOK, NEW k \in Child
    PROVE  /\ \A n \in Fd : ClosedPair(fds, k)[n] =
                  IF n = pair[k][0] \/ n = pair[k][1] THEN Nobody ELSE fds[n]
           /\ ClosedPair(fds, k) \in [Fd -> Thing]
           /\ ClosedPair(ClosedPair(fds, k), k) = ClosedPair(fds, k)
<1> DEFINE closed == ClosedPair(fds, k)
<1>1. \A n \in Fd : closed[n] = IF n = pair[k][0] \/ n = pair[k][1] THEN Nobody ELSE fds[n]
  BY DEF ClosedPair
<1>2. closed = [n \in Fd |-> closed[n]]
  BY DEF ClosedPair
<1>3. closed \in [Fd -> Thing]
  <2>1. Nobody \in Thing
    BY DEF Thing
  <2>2. QED
    BY <1>1, <1>2, <2>1 DEF TypeOK
<1>4. \A n \in Fd : n \in {pair[k][0], pair[k][1]} => closed[n] = Nobody
  BY <1>1
<1> HIDE DEF closed
<1>5. ClosedPair(closed, k) = closed
  BY <1>2, <1>4 DEF ClosedPair
<1>6. QED
  BY <1>1, <1>3, <1>5 DEF closed

(* A slot is forked again, or its pair is only closed.                     *)
LEMMA ForkStep ==
    ASSUME TypeOK, FdsInv, NumbersMeant, pc = "loop", NEW k \in Child,
           \/ Fork(fds, k)
           \/ fds' = ClosedPair(fds, k) /\ gap' = TRUE /\ pair' = pair,
           UNCHANGED <<pc, index, cur, owner, number, spoiled>>,
           \A c \in Conn : life'[c] \in InProcess <=> life[c] \in InProcess
    PROVE  /\ FdsInv' /\ NumbersMeant'
           /\ fds' \in [Fd -> Thing] /\ pair' \in [Child -> [0..1 -> Fd]]
<1> DEFINE closed == ClosedPair(fds, k)
           new == NewPair(closed)
<1>1. \A n \in Fd : closed[n] = IF n = pair[k][0] \/ n = pair[k][1] THEN Nobody ELSE fds[n]
  BY Closing
<1>2. closed \in [Fd -> Thing]
  BY Closing
<1>3. /\ new \in [0..1 -> Fd] /\ new[0] # new[1]
      /\ closed[new[0]] = Nobody /\ closed[new[1]] = Nobody
  BY NewNumbers
<1>4. Passing'
  BY DEF Passing
<1>5. CASE fds' = Repaired(fds, k) /\ pair' = [pair EXCEPT ![k] = new] /\ gap' = gap
  <2>1. fds' = Opened(closed, k, new)
    BY <1>5 DEF Repaired
  <2> HIDE DEF closed, new
  <2>2. \A n \in Fd : fds'[n] = IF n = new[0] THEN End(k, 0)
                                ELSE IF n = new[1] THEN End(k, 1) ELSE closed[n]
    BY <2>1 DEF Opened
  <2>3. fds' \in [Fd -> Thing] /\ pair' \in [Child -> [0..1 -> Fd]]
    <3>1. End(k, 0) \in Thing /\ End(k, 1) \in Thing
      BY DEF Thing
    <3>2. QED
      BY <1>2, <1>3, <1>5, <2>1, <3>1 DEF Opened, TypeOK
  <2>4. \A j \in Child : pair'[j] = IF j = k THEN new ELSE pair[j]
    BY <1>5 DEF TypeOK
  <2>5. ASSUME NEW n \in Fd, NEW j \in Child, NEW e \in 0..1, fds'[n] = End(j, e)
        PROVE  pair'[j][e] = n
    <3>1. CASE n = new[0] \/ n = new[1]
      BY <2>2, <2>4, <2>5, <3>1, Things
    <3>2. CASE n # new[0] /\ n # new[1]
      <4>1. fds[n] = End(j, e) /\ n # pair[k][0] /\ n # pair[k][1]
        BY <1>1, <2>2, <2>5, <3>2, Things
      <4>2. pair[j][e] = n
        BY <4>1 DEF FdsInv, EndsKnown
      <4>3. j # k
        BY <4>1, <4>2
      <4>4. QED
        BY <2>4, <4>2, <4>3
    <3>3. QED
      BY <3>1, <3>2
  <2>6. ASSUME NEW n \in Fd, NEW c \in Conn, fds'[n] = Socket(c)
        PROVE  fds[n] = Socket(c)
    BY <1>1, <2>2, <2>6, Things
  <2>7. EndsKnown' /\ SocketsKnown'
    BY <2>5, <2>6 DEF EndsKnown, SocketsKnown, FdsInv, Held
  <2>8. ASSUME ~gap, NEW j \in Child, NEW e \in 0..1 PROVE fds'[pair'[j][e]] = End(j, e)
    <3>1. CASE j = k
      BY <1>3, <2>2, <2>4, <3>1
    <3>2. CASE j # k
      <4> DEFINE m == pair[j][e]
      <4>1. m \in Fd /\ fds[m] = End(j, e)
        <5>1. m \in Fd
          BY Ranges
        <5>2. QED
          BY <2>8, <5>1 DEF NumbersMeant
      <4>2. m # pair[k][0] /\ m # pair[k][1]
        BY <2>8, <3>2, <4>1, Things DEF NumbersMeant
      <4>3. m # new[0] /\ m # new[1]
        BY <1>1, <1>3, <4>1, <4>2, Things
      <4>4. QED
        BY <1>1, <2>2, <2>4, <3>2, <4>1, <4>2, <4>3
    <3>3. QED
      BY <3>1, <3>2
  <2>9. ASSUME ~gap, NEW c \in Conn, life[c] \in InProcess, owner[c] = Parent
        PROVE  fds'[number[c]] = Socket(c)
    <3> DEFINE m == number[c]
    <3>1. m \in Fd /\ fds[m] = Socket(c)
      BY <2>9, Ranges DEF NumbersMeant
    <3>2. m # pair[k][0] /\ m # pair[k][1]
      BY <2>9, <3>1, Things DEF NumbersMeant
    <3>3. m # new[0] /\ m # new[1]
      BY <1>1, <1>3, <3>1, <3>2, Things
    <3>4. QED
      BY <1>1, <2>2, <3>1, <3>2, <3>3
  <2>10. NumbersMeant'
    BY <1>5, <2>8, <2>9 DEF NumbersMeant
  <2>11. QED
    BY <1>4, <2>3, <2>7, <2>10 DEF FdsInv
<1>6. CASE fds' = closed /\ gap' = TRUE /\ pair' = pair
  <2>1. ASSUME NEW n \in Fd, NEW x \in Thing, x # Nobody, fds'[n] = x PROVE fds[n] = x
    BY <1>1, <1>6, <2>1
  <2>2. EndsKnown' /\ SocketsKnown'
    BY <1>1, <1>6, Things DEF EndsKnown, SocketsKnown, FdsInv, Held
  <2>3. NumbersMeant'
    BY <1>6 DEF NumbersMeant
  <2>4. QED
    BY <1>2, <1>4, <1>6, <2>2, <2>3 DEF FdsInv, TypeOK
<1>7. QED
  BY <1>5, <1>6 DEF Fork

(* Steps that open and close no number of the parent's.                    *)
LEMMA FdsKept ==
    ASSUME TypeOK, FdsInv, NumbersMeant, UNCHANGED <<fds, pair, number, gap, cur, index>>,
           gap \/ spoiled' = spoiled, (pc' = "loop") = (pc = "loop"),
           pc' = "send" => pc = "send" /\ life'[cur] = "moving",
           \A c \in Conn : life'[c] \in InProcess /\ owner'[c] = Parent <=> Held(c)
    PROVE  FdsInv' /\ NumbersMeant'
<1>1. EndsKnown'
  BY DEF FdsInv, EndsKnown
<1>2. Passing'
  BY DEF FdsInv, Passing, Held, TypeOK
<1>3. SocketsKnown'
  BY DEF FdsInv, SocketsKnown, Held
<1>4. NumbersMeant'
  BY DEF NumbersMeant, Held
<1>5. QED
  BY <1>1, <1>2, <1>3, <1>4 DEF FdsInv

(* A process closes a connection.                                          *)
LEMMA FdsFreed ==
    ASSUME TypeOK, FdsInv, NumbersMeant, NEW c \in Conn,
           life[c] \in InProcess, life'[c] = "gone", ~Busy(owner[c]),
           fds' = Freed(fds, c, owner[c]), owner' = owner,
           \A d \in Conn \ {c} : life'[d] = life[d],
           UNCHANGED <<pair, number, gap, cur, index, pc, spoiled>>
    PROVE  FdsInv' /\ NumbersMeant' /\ fds' \in [Fd -> Thing]
<1>1. life'[c] \notin InProcess /\ "moving" \notin InProcess
  BY DEF InProcess
<1>2. CASE owner[c] # Parent
  <2>1. fds' = fds
    BY <1>2 DEF Freed
  <2>2. pc = "send" => cur # c
    BY <1>1 DEF FdsInv, Passing
  <2>3. pc' = "send" => life'[cur] = "moving"
    BY <2>2 DEF FdsInv, Passing, TypeOK
  <2>4. QED
    BY <1>1, <1>2, <2>1, <2>3, FdsKept DEF TypeOK, Held
<1>3. CASE owner[c] = Parent
  <2>1. /\ pc = "loop"
        /\ number[c] \in Fd
        /\ fds' \in [Fd -> Thing]
        /\ \A n \in Fd : fds'[n] = IF n = number[c] THEN Nobody ELSE fds[n]
    BY <1>3, Things DEF Freed, Busy, TypeOK
  <2>2. ASSUME NEW n \in Fd, NEW d \in Conn, fds'[n] = Socket(d)
        PROVE  number[d] = n /\ life'[d] \in InProcess /\ owner'[d] = Parent
    <3>1. n # number[c] /\ fds[n] = Socket(d)
      BY <2>1, <2>2, Things
    <3>2. number[d] = n /\ Held(d)
      BY <2>1, <3>1 DEF FdsInv, SocketsKnown
    <3>3. d # c
      BY <3>1, <3>2
    <3>4. QED
      BY <3>2, <3>3 DEF Held
  <2>3. EndsKnown' /\ SocketsKnown' /\ Passing'
    BY <2>1, <2>2, Things DEF FdsInv, EndsKnown, SocketsKnown, Held, Passing
  <2>4. ASSUME ~gap PROVE NumbersMeant'
    <3>1. fds[number[c]] = Socket(c)
      BY <1>3, <2>4 DEF NumbersMeant
    <3>2. ASSUME NEW k \in Child, NEW e \in 0..1 PROVE fds'[pair[k][e]] = End(k, e)
      <4>1. pair[k][e] \in Fd /\ fds[pair[k][e]] = End(k, e)
        BY <2>4, Ranges DEF NumbersMeant
      <4>2. QED
        BY <2>1, <3>1, <4>1, Things
    <3>3. ASSUME NEW d \in Conn, life'[d] \in InProcess, owner[d] = Parent
          PROVE  fds'[number[d]] = Socket(d)
      <4>1. d # c /\ number[d] \in Fd /\ fds[number[d]] = Socket(d)
        BY <1>1, <2>4, <3>3, Ranges DEF NumbersMeant
      <4>2. QED
        BY <2>1, <3>1, <4>1, Things
    <3>4. QED
      BY <2>4, <3>2, <3>3 DEF NumbersMeant
  <2>5. QED
    BY <2>1, <2>3, <2>4 DEF FdsInv, NumbersMeant
<1>4. QED
  BY <1>2, <1>3 DEF TypeOK

(* A connection gets the lowest free number, and is passed on or kept.     *)
LEMMA FdsTaken ==
    ASSUME TypeOK, FdsInv, NumbersMeant, pc = "loop", NEW c \in Conn,
           life[c] = "waiting",
           fds' = [fds EXCEPT ![Lowest(fds)] = Socket(c)],
           number' = [number EXCEPT ![c] = Lowest(fds)],
           \A d \in Conn \ {c} : life'[d] = life[d] /\ owner'[d] = owner[d],
           \/ pc' = "loop" /\ life'[c] \in InProcess /\ owner'[c] = Parent
           \/ /\ pc' = "send" /\ cur' = c /\ index' \in Child
              /\ life'[c] = "moving",
           UNCHANGED <<pair, gap, spoiled>>
    PROVE  FdsInv' /\ NumbersMeant' /\ fds' \in [Fd -> Thing] /\ number' \in [Conn -> Fd]
<1>1. Lowest(fds) \in Fd /\ fds[Lowest(fds)] = Nobody
  BY FreeNumber
<1>2. "waiting" \notin InProcess /\ "moving" \notin InProcess
  BY DEF InProcess
<1>3. Socket(c) \in Thing
  BY DEF Thing
<1>4. /\ fds' \in [Fd -> Thing] /\ number' \in [Conn -> Fd]
      /\ \A n \in Fd : fds'[n] = IF n = Lowest(fds) THEN Socket(c) ELSE fds[n]
      /\ \A d \in Conn : number'[d] = IF d = c THEN Lowest(fds) ELSE number[d]
  BY <1>1, <1>3 DEF TypeOK
<1>5. ASSUME NEW n \in Fd, NEW d \in Conn, fds'[n] = Socket(d)
      PROVE  /\ number'[d] = n
             /\ (life'[d] \in InProcess /\ owner'[d] = Parent) \/ (pc' # "loop" /\ d = cur')
  <2>1. CASE n = Lowest(fds)
    BY <1>4, <1>5, <2>1, Things
  <2>2. CASE n # Lowest(fds)
    <3>1. fds[n] = Socket(d)
      BY <1>4, <1>5, <2>2
    <3>2. number[d] = n /\ Held(d)
      BY <3>1 DEF FdsInv, SocketsKnown
    <3>3. d # c
      BY <1>2, <3>2 DEF Held
    <3>4. QED
      BY <1>4, <3>2, <3>3 DEF Held
  <2>3. QED
    BY <2>1, <2>2
<1>6. EndsKnown' /\ SocketsKnown'
  BY <1>4, <1>5, Things DEF FdsInv, EndsKnown, SocketsKnown, Held
<1>7. Passing'
  BY <1>1, <1>2, <1>4 DEF Passing, Held
<1>8. ASSUME ~gap PROVE NumbersMeant'
  <2>1. ASSUME NEW k \in Child, NEW e \in 0..1 PROVE fds'[pair[k][e]] = End(k, e)
    <3>1. pair[k][e] \in Fd /\ fds[pair[k][e]] = End(k, e)
      BY <1>8, Ranges DEF NumbersMeant
    <3>2. QED
      BY <1>1, <1>4, <3>1, Things
  <2>2. ASSUME NEW d \in Conn, life'[d] \in InProcess, owner'[d] = Parent
        PROVE  fds'[number'[d]] = Socket(d)
    <3>1. CASE d = c
      BY <1>1, <1>4, <3>1
    <3>2. CASE d # c
      <4>1. number[d] \in Fd /\ fds[number[d]] = Socket(d)
        BY <1>8, <2>2, <3>2, Ranges DEF NumbersMeant
      <4>2. QED
        BY <1>1, <1>4, <3>2, <4>1, Things
    <3>3. QED
      BY <3>1, <3>2
  <2>3. QED
    BY <1>8, <2>1, <2>2 DEF NumbersMeant
<1>9. QED
  BY <1>4, <1>6, <1>7, <1>8 DEF FdsInv, NumbersMeant

(* The parent closes what it has passed on.                                *)
LEMMA FdsClosed ==
    ASSUME TypeOK, FdsInv, NumbersMeant, Close
    PROVE  FdsInv' /\ NumbersMeant' /\ fds' \in [Fd -> Thing]
<1>1. /\ pc # "loop" /\ pc' = "loop" /\ cur \in Conn /\ number[cur] \in Fd
      /\ UNCHANGED <<pair, number, gap, spoiled, life, owner, cur>>
      /\ fds[number[cur]] = Socket(cur) /\ ~Held(cur)
  BY DEF Close, slots, FdsInv, Passing, TypeOK
<1>2. /\ fds' \in [Fd -> Thing]
      /\ \A n \in Fd : fds'[n] = IF n = number[cur] THEN Nobody ELSE fds[n]
  BY <1>1, Things DEF Close, CloseAccepted, TypeOK
<1>3. ASSUME NEW n \in Fd, NEW d \in Conn, fds'[n] = Socket(d)
      PROVE  number[d] = n /\ Held(d)
  <2>1. n # number[cur] /\ fds[n] = Socket(d)
    BY <1>2, <1>3, Things
  <2>2. number[d] = n /\ (Held(d) \/ d = cur)
    BY <2>1 DEF FdsInv, SocketsKnown
  <2>3. QED
    BY <2>1, <2>2
<1>4. EndsKnown' /\ SocketsKnown' /\ Passing'
  BY <1>1, <1>2, <1>3, Things DEF FdsInv, EndsKnown, SocketsKnown, Held, Passing
<1>5. ASSUME ~gap PROVE NumbersMeant'
  <2>1. ASSUME NEW k \in Child, NEW e \in 0..1 PROVE fds'[pair[k][e]] = End(k, e)
    <3>1. pair[k][e] \in Fd /\ fds[pair[k][e]] = End(k, e)
      BY <1>5, Ranges DEF NumbersMeant
    <3>2. QED
      BY <1>1, <1>2, <3>1, Things
  <2>2. ASSUME NEW d \in Conn, life[d] \in InProcess, owner[d] = Parent
        PROVE  fds'[number[d]] = Socket(d)
    <3>1. number[d] \in Fd /\ fds[number[d]] = Socket(d)
      BY <1>5, <2>2, Ranges DEF NumbersMeant
    <3>2. QED
      BY <1>1, <1>2, <2>2, <3>1, Things DEF Held
  <2>3. QED
    BY <1>1, <1>5, <2>1, <2>2 DEF NumbersMeant
<1>6. QED
  BY <1>1, <1>2, <1>4, <1>5 DEF FdsInv, NumbersMeant

-----------------------------------------------------------------------------
(* The messages: At(p, k, e, i, c) if the i-th at end e of pair k is c's.  *)
At(p, k, e, i, c) == i \in 1..Len(p[k][e]) /\ p[k][e][i] = c

Carried == \A k \in Child, e \in 0..1, i \in Nat, c \in Conn :
    At(pipe, k, e, i, c) => life[c] = "moving" /\ ~(pc = "send" /\ c = cur)
Once(p, k, l, e, g, i, j, c) ==
    At(p, k, e, i, c) /\ At(p, l, g, j, c) => k = l /\ e = g /\ i = j
CarriedOnce == \A k, l \in Child, e, g \in 0..1, i, j \in Nat, c \in Conn :
    Once(pipe, k, l, e, g, i, j, c)

CarryInv == Carried /\ CarriedOnce

Inv == TypeOK /\ FdsInv /\ NumbersMeant /\ CarryInv

LEMMA SamePlace ==
    ASSUME CarryInv, NEW k \in Child, NEW l \in Child, NEW e \in 0..1, NEW g \in 0..1,
           NEW i \in Nat, NEW j \in Nat, NEW c \in Conn,
           At(pipe, k, e, i, c), At(pipe, l, g, j, c)
    PROVE  k = l /\ e = g /\ i = j
<1>1. Once(pipe, k, l, e, g, i, j, c)
  BY Zenon DEF CarryInv, CarriedOnce
<1>2. QED
  BY <1>1 DEF Once

(* Steps that send and take no message.                                    *)
LEMMA CarryKept ==
    ASSUME CarryInv, pipe' = pipe,
           \A c \in Conn : life[c] = "moving" =>
               life'[c] = "moving" \/ (pc = "send" /\ c = cur /\ pc' # "send"),
           pc' = "send" => life[cur'] # "moving" \/ (pc = "send" /\ cur' = cur)
    PROVE  CarryInv'
<1>1. ASSUME NEW k \in Child, NEW e \in 0..1, NEW i \in Nat, NEW c \in Conn, At(pipe, k, e, i, c)
      PROVE  life'[c] = "moving" /\ ~(pc' = "send" /\ c = cur')
  <2>1. life[c] = "moving" /\ ~(pc = "send" /\ c = cur)
    BY <1>1 DEF CarryInv, Carried
  <2>2. QED
    BY <2>1
<1>2. Carried'
  BY <1>1 DEF Carried
<1>3. ASSUME NEW k \in Child, NEW l \in Child, NEW e \in 0..1, NEW g \in 0..1,
             NEW i \in Nat, NEW j \in Nat, NEW c \in Conn
      PROVE  Once(pipe', k, l, e, g, i, j, c)
  <2> SUFFICES ASSUME At(pipe', k, e, i, c), At(pipe', l, g, j, c)
               PROVE  k = l /\ e = g /\ i = j
    BY DEF Once
  <2> QED
    BY SamePlace
<1>4. CarriedOnce'
  BY <1>3, Zenon DEF CarriedOnce
<1>5. QED
  BY <1>2, <1>4 DEF CarryInv

LEMMA PipeType ==
    ASSUME TypeOK
    PROVE  \A k \in Child, e \in 0..1 :
               /\ pipe[k][e] \in Seq(Conn)
               /\ Len(pipe[k][e]) \in Nat /\ Len(pipe[k][e]) <= PairRoom
<1>1. pipe \in [Child -> [0..1 -> Seq(Conn)]]
  BY DEF TypeOK
<1>2. ASSUME NEW k \in Child, NEW e \in 0..1 PROVE pipe[k][e] \in Seq(Conn)
  BY <1>1
<1>3. \A k \in Child, e \in 0..1 : Len(pipe[k][e]) <= PairRoom
  BY DEF TypeOK
<1>4. QED
  BY <1>2, <1>3

(* A child takes the first message of its pair.                            *)
LEMMA CarryReceive ==
    ASSUME TypeOK, CarryInv, NEW k \in Child, Receive(k)
    PROVE  /\ CarryInv' /\ Head(pipe[k][1]) \in Conn
           /\ life[Head(pipe[k][1])] = "moving" /\ ~(pc = "send" /\ Head(pipe[k][1]) = cur)
<1> DEFINE h == Head(pipe[k][1])
<1>1. pipe[k][1] \in Seq(Conn) /\ pipe[k][1] # <<>>
  BY DEF Receive, TypeOK
<1>2. h \in Conn /\ At(pipe, k, 1, 1, h) /\ pipe[k][1][1] = h
  BY <1>1 DEF At
<1>3. life[h] = "moving" /\ ~(pc = "send" /\ h = cur)
  BY <1>2 DEF CarryInv, Carried
<1>4. ASSUME NEW l \in Child, NEW g \in 0..1, NEW j \in Nat, NEW c \in Conn,
             At(pipe', l, g, j, c)
      PROVE  IF l = k /\ g = 1 THEN At(pipe, k, 1, j + 1, c) ELSE At(pipe, l, g, j, c)
  <2>1. CASE l = k /\ g = 1
    <3>1. pipe'[k][1] = Tail(pipe[k][1])
      BY DEF Receive, TypeOK
    <3>2. QED
      BY <1>1, <1>4, <2>1, <3>1 DEF At
  <2>2. CASE ~(l = k /\ g = 1)
    <3>1. pipe'[l][g] = pipe[l][g]
      BY <2>2 DEF Receive, TypeOK
    <3>2. QED
      BY <1>4, <2>2, <3>1 DEF At
  <2>3. QED
    BY <2>1, <2>2
<1>5. ASSUME NEW l \in Child, NEW g \in 0..1, NEW j \in Nat, NEW c \in Conn,
             At(pipe', l, g, j, c)
      PROVE  life'[c] = "moving" /\ ~(pc' = "send" /\ c = cur')
  <2>1. PICK i \in Nat : At(pipe, l, g, i, c) /\ ~(l = k /\ g = 1 /\ i = 1)
    <3>1. CASE l = k /\ g = 1
      <4>1. At(pipe, l, g, j + 1, c)
        BY <1>4, <1>5, <3>1
      <4>2. j # 0
        BY <1>5 DEF At
      <4>3. j + 1 \in Nat /\ j + 1 # 1
        BY <4>2
      <4>4. QED
        BY <4>1, <4>3
    <3>2. CASE ~(l = k /\ g = 1)
      BY <1>4, <1>5, <3>2
    <3>3. QED
      BY <3>1, <3>2
  <2>2. c # h
    BY <1>2, <2>1, SamePlace
  <2>3. life[c] = "moving" /\ ~(pc = "send" /\ c = cur)
    BY <2>1 DEF CarryInv, Carried
  <2>4. life'[c] = life[c] /\ pc' = pc /\ cur' = cur
    BY <1>2, <2>2 DEF Receive, Settled, handler, TypeOK
  <2>5. QED
    BY <2>3, <2>4
<1>6. Carried'
  BY <1>5 DEF Carried
<1>7. ASSUME NEW l \in Child, NEW m \in Child, NEW g \in 0..1, NEW f \in 0..1,
             NEW i \in Nat, NEW j \in Nat, NEW c \in Conn
      PROVE  Once(pipe', l, m, g, f, i, j, c)
  <2> SUFFICES ASSUME At(pipe', l, g, i, c), At(pipe', m, f, j, c)
               PROVE  l = m /\ g = f /\ i = j
    BY DEF Once
  <2>1. PICK a \in {i, i + 1} : At(pipe, l, g, a, c) /\ a = IF l = k /\ g = 1 THEN i + 1 ELSE i
    BY <1>4, <1>7
  <2>2. PICK b \in {j, j + 1} : At(pipe, m, f, b, c) /\ b = IF m = k /\ f = 1 THEN j + 1 ELSE j
    BY <1>4, <1>7
  <2>3. l = m /\ g = f /\ a = b
    BY <2>1, <2>2, SamePlace
  <2>4. QED
    BY <2>1, <2>2, <2>3
<1>8. CarriedOnce'
  BY <1>7, Zenon DEF CarriedOnce
<1>9. QED
  BY <1>2, <1>3, <1>6, <1>8 DEF CarryInv

(* sendmsg() puts a connection behind the others; it was in none before.   *)
LEMMA CarrySend ==
    ASSUME TypeOK, CarryInv, Passing, pc = "send", pc' = "close",
           UNCHANGED <<life, cur>>, NEW k \in Child, NEW e \in 0..1,
           pipe' = [pipe EXCEPT ![k][e] = Append(@, cur)]
    PROVE  CarryInv'
<1>1. pipe[k][e] \in Seq(Conn) /\ cur \in Conn /\ life[cur] = "moving"
  <2>1. pipe[k][e] \in Seq(Conn)
    BY PipeType
  <2>2. QED
    BY <2>1 DEF TypeOK, Passing
<1>0. \A l \in Child, g \in 0..1 :
          pipe'[l][g] = IF l = k /\ g = e THEN Append(pipe[l][g], cur) ELSE pipe[l][g]
  BY DEF TypeOK
<1>2. ASSUME NEW l \in Child, NEW g \in 0..1, NEW j \in Nat, NEW c \in Conn,
             At(pipe', l, g, j, c)
      PROVE  \/ At(pipe, l, g, j, c) /\ c # cur
             \/ l = k /\ g = e /\ j = Len(pipe[k][e]) + 1 /\ c = cur
  <2>1. At(pipe, l, g, j, c) => c # cur
    BY DEF CarryInv, Carried
  <2>2. CASE l = k /\ g = e
    <3>1. pipe'[k][e] = Append(pipe[k][e], cur)
      BY <1>0
    <3>2. j \in 1..Len(Append(pipe[k][e], cur)) /\ Append(pipe[k][e], cur)[j] = c
      BY <1>2, <2>2, <3>1 DEF At
    <3>3. Len(Append(pipe[k][e], cur)) = Len(pipe[k][e]) + 1 /\ Len(pipe[k][e]) \in Nat
      BY <1>1
    <3>4. CASE j = Len(pipe[k][e]) + 1
      BY <1>1, <2>2, <3>2, <3>4
    <3>5. CASE j \in 1..Len(pipe[k][e])
      <4>1. pipe[k][e][j] = c
        BY <1>1, <3>2, <3>5
      <4>2. QED
        BY <2>1, <2>2, <3>5, <4>1 DEF At
    <3>6. QED
      BY <3>2, <3>3, <3>4, <3>5
  <2>3. CASE ~(l = k /\ g = e)
    <3>1. pipe'[l][g] = pipe[l][g]
      BY <1>0, <2>3
    <3>2. QED
      BY <1>2, <2>1, <3>1 DEF At
  <2>4. QED
    BY <2>2, <2>3
<1>3. Carried'
  BY <1>1, <1>2 DEF CarryInv, Carried
<1>4. ASSUME NEW l \in Child, NEW m \in Child, NEW g \in 0..1, NEW f \in 0..1,
             NEW i \in Nat, NEW j \in Nat, NEW c \in Conn
      PROVE  Once(pipe', l, m, g, f, i, j, c)
  <2> SUFFICES ASSUME At(pipe', l, g, i, c), At(pipe', m, f, j, c)
               PROVE  l = m /\ g = f /\ i = j
    BY DEF Once
  <2>1. \/ At(pipe, l, g, i, c) /\ c # cur
        \/ l = k /\ g = e /\ i = Len(pipe[k][e]) + 1 /\ c = cur
    BY <1>2, <1>4
  <2>2. \/ At(pipe, m, f, j, c) /\ c # cur
        \/ m = k /\ f = e /\ j = Len(pipe[k][e]) + 1 /\ c = cur
    BY <1>2, <1>4
  <2>3. CASE c = cur
    BY <2>1, <2>2, <2>3
  <2>4. CASE c # cur
    <3>1. At(pipe, l, g, i, c) /\ At(pipe, m, f, j, c)
      BY <2>1, <2>2, <2>4
    <3>2. QED
      BY <3>1, SamePlace
  <2>5. QED
    BY <2>3, <2>4
<1>5. CarriedOnce'
  BY <1>4, Zenon DEF CarriedOnce
<1>6. QED
  BY <1>3, <1>5 DEF CarryInv

(* A pair that is closed takes its messages with it.                       *)
LEMMA CarryLost ==
    ASSUME TypeOK, CarryInv, NEW k \in Child, pc' = "loop", life' = Lost(k),
           pipe' = [pipe EXCEPT ![k] = [e \in 0..1 |-> <<>>]]
    PROVE  /\ CarryInv'
           /\ \A c \in Conn : life'[c] = life[c] \/ (life'[c] = "gone" /\ life[c] = "moving")
<1>0. \A l \in Child, g \in 0..1 : pipe'[l][g] = IF l = k THEN <<>> ELSE pipe[l][g]
  BY DEF TypeOK
<1>1. ASSUME NEW l \in Child, NEW g \in 0..1, NEW j \in Nat, NEW c \in Conn,
             At(pipe', l, g, j, c)
      PROVE  l # k /\ At(pipe, l, g, j, c)
  <2>1. l # k
    <3>1. SUFFICES ASSUME l = k PROVE FALSE
      OBVIOUS
    <3>2. pipe'[l][g] = <<>>
      BY <1>0, <3>1
    <3>3. QED
      BY <1>1, <3>2 DEF At
  <2>2. pipe'[l][g] = pipe[l][g]
    BY <1>0, <2>1
  <2>3. QED
    BY <1>1, <2>1, <2>2 DEF At
<1>2. ASSUME NEW c \in Conn, c \in Waiting(k)
      PROVE  \E e \in 0..1, i \in Nat : At(pipe, k, e, i, c)
  <2>1. PICK e \in 0..1 : \E i \in 1..Len(pipe[k][e]) : pipe[k][e][i] = c
    BY <1>2 DEF Waiting
  <2>2. PICK i \in 1..Len(pipe[k][e]) : pipe[k][e][i] = c
    BY <2>1
  <2>3. pipe[k][e] \in Seq(Conn)
    BY PipeType
  <2>4. i \in Nat /\ At(pipe, k, e, i, c)
    BY <2>2, <2>3 DEF At
  <2>5. QED
    BY <2>4
<1>3. ASSUME NEW l \in Child, NEW g \in 0..1, NEW j \in Nat, NEW c \in Conn,
             At(pipe', l, g, j, c)
      PROVE  life'[c] = "moving"
  <2>1. l # k /\ At(pipe, l, g, j, c)
    BY <1>1, <1>3
  <2>2. c \notin Waiting(k)
    BY <1>2, <2>1, SamePlace
  <2>3. QED
    BY <2>1, <2>2 DEF Lost, CarryInv, Carried
<1>4. Carried'
  BY <1>3 DEF Carried
<1>5. ASSUME NEW l \in Child, NEW m \in Child, NEW g \in 0..1, NEW f \in 0..1,
             NEW i \in Nat, NEW j \in Nat, NEW c \in Conn
      PROVE  Once(pipe', l, m, g, f, i, j, c)
  <2> SUFFICES ASSUME At(pipe', l, g, i, c), At(pipe', m, f, j, c)
               PROVE  l = m /\ g = f /\ i = j
    BY DEF Once
  <2>1. At(pipe, l, g, i, c)
    BY <1>1, <1>5
  <2>2. At(pipe, m, f, j, c)
    BY <1>1, <1>5
  <2>3. QED
    BY <2>1, <2>2, SamePlace
<1>6. CarriedOnce'
  BY <1>5, Zenon DEF CarriedOnce
<1>7. ASSUME NEW c \in Conn
      PROVE  life'[c] = life[c] \/ (life'[c] = "gone" /\ life[c] = "moving")
  BY <1>2 DEF Lost, CarryInv, Carried
<1>8. QED
  BY <1>4, <1>6, <1>7 DEF CarryInv

-----------------------------------------------------------------------------
(* The steps.                                                              *)
(* A process takes a connection on.                                        *)
LEMMA Settling ==
    ASSUME TypeOK, NEW c \in Conn, NEW p \in Child \cup {Parent}, NEW o \in Outcomes,
           Settled(c, p, o)
    PROVE  /\ life' \in [Conn -> Lives] /\ owner' \in [Conn -> Child \cup {Parent}]
           /\ offers' \in [Conn -> Nat]
           /\ life'[c] = (IF o \in InProcess THEN o ELSE "gone") /\ owner'[c] = p
           /\ \A d \in Conn \ {c} : life'[d] = life[d] /\ owner'[d] = owner[d]
<1>1. (IF o \in InProcess THEN o ELSE "gone") \in Lives
  BY DEF InProcess, Lives
<1>2. offers' \in [Conn -> Nat]
  <2>1. offers \in [Conn -> Nat]
    BY DEF TypeOK
  <2>2. offers[c] + (IF Offered(o) THEN 1 ELSE 0) \in Nat
    BY <2>1
  <2>3. QED
    BY <2>1, <2>2 DEF Settled
<1>3. QED
  BY <1>1, <1>2 DEF Settled, TypeOK

LEMMA DialStep ==
    ASSUME Inv, NEW c \in Conn, Dial(c) PROVE Inv'
<1>1. /\ life' \in [Conn -> Lives] /\ life[c] = "away" /\ life'[c] = "waiting"
      /\ \A d \in Conn \ {c} : life'[d] = life[d]
  BY DEF Inv, Dial, TypeOK, Lives
<1>2. TypeOK'
  BY <1>1 DEF Inv, Dial, TypeOK, slots, handler
<1>3. "away" \notin InProcess /\ "waiting" \notin InProcess
  BY DEF InProcess
<1>4. pc = "send" => life'[cur] = "moving"
  BY <1>1 DEF Inv, FdsInv, Passing, TypeOK
<1>5. FdsInv' /\ NumbersMeant'
  BY <1>1, <1>3, <1>4, FdsKept DEF Inv, Dial, slots, handler, Held
<1>6. CarryInv'
  BY <1>1, CarryKept DEF Inv, Dial, slots, handler
<1>7. QED
  BY <1>2, <1>5, <1>6 DEF Inv

LEMMA AcceptStep ==
    ASSUME Inv, NEW c \in Conn, Accept(c) PROVE Inv'
<1>1. /\ life' \in [Conn -> Lives] /\ life[c] = "waiting" /\ life'[c] = "moving"
      /\ \A d \in Conn \ {c} : life'[d] = life[d]
      /\ pc = "loop" /\ pc' = "send" /\ cur' = c
      /\ UNCHANGED <<owner, offers, spoiled, state, pair, pipe, gap, forks>>
  BY DEF Inv, Accept, TypeOK, Lives, slots
<1>2. index' \in Child
  <2>1. index + 1 \in Int
    BY DEF Inv, TypeOK
  <2>2. QED
    BY <2>1 DEF Accept, NextIndex
<1>3. FdsInv' /\ NumbersMeant' /\ fds' \in [Fd -> Thing] /\ number' \in [Conn -> Fd]
  BY <1>1, <1>2, FdsTaken DEF Inv, Accept
<1>4. CarryInv'
  BY <1>1, CarryKept DEF Inv
<1>5. TypeOK'
  <2>1. index' \in -1..NumChildren - 1 /\ cur' \in Conn /\ pc' \in {"loop", "send", "close"}
    BY <1>1, <1>2
  <2>2. fds' \in [Fd -> Thing] /\ number' \in [Conn -> Fd]
    BY <1>3
  <2>3. QED
    BY <1>1, <2>1, <2>2 DEF Inv, TypeOK
<1>6. QED
  BY <1>3, <1>4, <1>5 DEF Inv

LEMMA AcceptHereStep ==
    ASSUME Inv, NEW c \in Conn, AcceptHere(c) PROVE Inv'
<1>1. PICK o \in Outcomes :
          /\ Settled(c, Parent, o)
          /\ number' = [number EXCEPT ![c] = Lowest(fds)]
          /\ fds' = IF o \in InProcess THEN [fds EXCEPT ![Lowest(fds)] = Socket(c)] ELSE fds
  BY DEF AcceptHere
<1>2. /\ pc = "loop" /\ life[c] = "waiting"
      /\ UNCHANGED <<spoiled, state, pair, pipe, gap, forks, index, pc, cur>>
  BY DEF AcceptHere, slots, handler
<1>3. /\ life' \in [Conn -> Lives] /\ owner' \in [Conn -> Child \cup {Parent}]
      /\ offers' \in [Conn -> Nat]
      /\ life'[c] = (IF o \in InProcess THEN o ELSE "gone") /\ owner'[c] = Parent
      /\ \A d \in Conn \ {c} : life'[d] = life[d] /\ owner'[d] = owner[d]
  BY <1>1, Settling DEF Inv
<1>4. FdsInv' /\ NumbersMeant' /\ fds' \in [Fd -> Thing] /\ number' \in [Conn -> Fd]
  <2>1. CASE o \in InProcess
    BY <1>1, <1>2, <1>3, <2>1, FdsTaken DEF Inv
  <2>2. CASE o \notin InProcess
    <3>1. fds' = fds /\ life'[c] \notin InProcess /\ life[c] \notin InProcess
      BY <1>1, <1>2, <1>3, <2>2 DEF InProcess
    <3>2. /\ number' \in [Conn -> Fd]
          /\ \A d \in Conn \ {c} : number'[d] = number[d]
      BY <1>1, FreeNumber DEF Inv, TypeOK
    <3>3. ASSUME NEW n \in Fd, NEW d \in Conn, fds[n] = Socket(d)
          PROVE  number'[d] = n /\ life'[d] \in InProcess /\ owner'[d] = Parent
      <4>1. number[d] = n /\ Held(d)
        BY <1>2, <3>3 DEF Inv, FdsInv, SocketsKnown
      <4>2. QED
        BY <1>3, <3>1, <3>2, <4>1 DEF Held
    <3>4. EndsKnown' /\ SocketsKnown' /\ Passing'
      BY <1>2, <3>1, <3>3 DEF Inv, FdsInv, EndsKnown, SocketsKnown, Held, Passing
    <3>5. NumbersMeant'
      BY <1>2, <1>3, <3>1, <3>2 DEF Inv, NumbersMeant
    <3>6. QED
      BY <3>1, <3>2, <3>4, <3>5 DEF Inv, FdsInv, TypeOK
  <2>3. QED
    BY <2>1, <2>2
<1>5. CarryInv'
  BY <1>2, <1>3, CarryKept DEF Inv
<1>6. TypeOK'
  BY <1>2, <1>3, <1>4 DEF Inv, TypeOK
<1>7. QED
  BY <1>4, <1>5, <1>6 DEF Inv

LEMMA SslEventStep ==
    ASSUME Inv, NEW c \in Conn, SslEvent(c) PROVE Inv'
<1>1. PICK o \in Handshake(c) :
          /\ Settled(c, owner[c], o)
          /\ fds' = IF o = "kept" THEN fds ELSE Freed(fds, c, owner[c])
  BY DEF SslEvent
<1>2. /\ life[c] \in {"shaking", "ok", "bad"} /\ ~Busy(owner[c])
      /\ UNCHANGED <<number, spoiled, state, pair, pipe, gap, forks, index, pc, cur>>
  BY DEF SslEvent, slots, handler
<1>3. o \in {"refused", "kept", "dropped"} /\ o \in Outcomes
  BY <1>2 DEF Handshake, Outcomes
<1>4. life[c] \in InProcess /\ life[c] # "moving" /\ owner[c] \in Child \cup {Parent}
  BY <1>2 DEF InProcess, Inv, TypeOK
<1>5. /\ life' \in [Conn -> Lives] /\ owner' \in [Conn -> Child \cup {Parent}]
      /\ offers' \in [Conn -> Nat]
      /\ life'[c] = (IF o \in InProcess THEN o ELSE "gone")
      /\ \A d \in Conn \ {c} : life'[d] = life[d] /\ owner'[d] = owner[d]
  BY <1>1, <1>3, <1>4, Settling DEF Inv
<1>6. owner' = owner
  BY <1>1 DEF Settled, Inv, TypeOK
<1>7. FdsInv' /\ NumbersMeant' /\ fds' \in [Fd -> Thing]
  <2>1. CASE o = "kept"
    <3>1. life'[c] \in InProcess
      BY <1>5, <2>1 DEF InProcess
    <3>2. pc = "send" => life'[cur] = "moving"
      BY <1>4, <1>5 DEF Inv, FdsInv, Passing, TypeOK
    <3>3. fds' = fds /\ \A d \in Conn : life'[d] \in InProcess /\ owner'[d] = Parent <=> Held(d)
      BY <1>1, <1>4, <1>5, <1>6, <2>1, <3>1 DEF Held
    <3>4. FdsInv' /\ NumbersMeant'
      BY <1>2, <3>2, <3>3, FdsKept DEF Inv
    <3>5. QED
      BY <3>3, <3>4 DEF Inv, TypeOK
  <2>2. CASE o # "kept"
    <3>1. life'[c] = "gone" /\ fds' = Freed(fds, c, owner[c])
      BY <1>1, <1>3, <1>5, <2>2 DEF InProcess
    <3>2. QED
      BY <1>2, <1>4, <1>5, <1>6, <3>1, FdsFreed DEF Inv
  <2>3. QED
    BY <2>1, <2>2
<1>8. CarryInv'
  <2>1. \A d \in Conn : life[d] = "moving" => life'[d] = "moving"
    BY <1>4, <1>5
  <2>2. pc' = "send" => pc = "send" /\ cur' = cur
    BY <1>2
  <2>3. QED
    BY <1>2, <2>1, <2>2, CarryKept DEF Inv
<1>9. TypeOK'
  BY <1>2, <1>5, <1>7 DEF Inv, TypeOK
<1>10. QED
  BY <1>7, <1>8, <1>9 DEF Inv

LEMMA HangupStep ==
    ASSUME Inv, NEW c \in Conn, Hangup(c) PROVE Inv'
<1>1. /\ life' \in [Conn -> Lives] /\ life[c] \in InProcess /\ life[c] # "moving"
      /\ life'[c] = "gone"
      /\ \A d \in Conn \ {c} : life'[d] = life[d]
      /\ ~Busy(owner[c]) /\ fds' = Freed(fds, c, owner[c])
      /\ UNCHANGED <<owner, number, offers, spoiled, state, pair, pipe, gap, forks, index, pc, cur>>
  BY DEF Inv, Hangup, TypeOK, Lives, InProcess, slots, handler
<1>2. FdsInv' /\ NumbersMeant' /\ fds' \in [Fd -> Thing]
  BY <1>1, FdsFreed DEF Inv
<1>3. CarryInv'
  <2>1. \A d \in Conn : life[d] = "moving" => life'[d] = "moving"
    BY <1>1
  <2>2. QED
    BY <1>1, <2>1, CarryKept DEF Inv
<1>4. TypeOK'
  BY <1>1, <1>2 DEF Inv, TypeOK
<1>5. QED
  BY <1>2, <1>3, <1>4 DEF Inv

LEMMA SendStep ==
    ASSUME Inv, Send PROVE Inv'
<1>1. /\ pc = "send" /\ pc' = "close" /\ index \in Child /\ cur \in Conn /\ life[cur] = "moving"
      /\ UNCHANGED <<fds, owner, number, offers, state, pair, gap, forks, index, cur>>
      /\ life[cur] \notin InProcess
  BY DEF Inv, FdsInv, Passing, Send, TypeOK, InProcess
<1>2. CASE IsPair(Target)
  <2>1. PICK k \in Child, e \in 0..1 : Target = End(k, e)
    <3>1. pair[index][0] \in Fd
      BY <1>1, Ranges DEF Inv
    <3>2. Target \in Thing
      BY <3>1, Ranges DEF Inv, Target
    <3>3. QED
      BY <1>2, <3>2, Things DEF Thing
  <2> DEFINE g == 1 - e
  <2>2. /\ g \in 0..1 /\ Len(pipe[k][g]) < PairRoom
        /\ pipe' = [pipe EXCEPT ![k][g] = Append(@, cur)]
        /\ UNCHANGED <<life, spoiled>>
    <3>1. SendToPair /\ g \in 0..1
      BY <1>2 DEF Send
    <3>2. Target[1] = k /\ Target[2] = e
      BY <2>1, Things
    <3>3. QED
      BY <3>1, <3>2 DEF SendToPair
  <2> HIDE DEF g
  <2>3. pipe[k][g] \in Seq(Conn) /\ Len(pipe[k][g]) \in Nat
    BY <2>2, PipeType DEF Inv
  <2>4. \A l \in Child, f \in 0..1 :
            pipe'[l][f] = IF l = k /\ f = g THEN Append(pipe[l][f], cur) ELSE pipe[l][f]
    BY <2>2 DEF Inv, TypeOK
  <2>5. Append(pipe[k][g], cur) \in Seq(Conn) /\ Len(Append(pipe[k][g], cur)) <= PairRoom
    BY <1>1, <2>2, <2>3
  <2>6. pipe' \in [Child -> [0..1 -> Seq(Conn)]]
    <3>1. pipe \in [Child -> [0..1 -> Seq(Conn)]]
      BY DEF Inv, TypeOK
    <3>2. QED
      BY <2>2, <2>5, <3>1
  <2>7. \A l \in Child, f \in 0..1 : Len(pipe'[l][f]) <= PairRoom
    BY <2>4, <2>5 DEF Inv, TypeOK
  <2>8. TypeOK'
    BY <1>1, <2>2, <2>6, <2>7 DEF Inv, TypeOK
  <2>9. FdsInv' /\ NumbersMeant'
    BY <1>1, <2>2, FdsKept DEF Inv, Held
  <2>10. CarryInv'
    BY <1>1, <2>2, CarrySend DEF Inv, FdsInv
  <2>11. QED
    BY <2>8, <2>9, <2>10 DEF Inv
<1>3. CASE ~IsPair(Target)
  <2>1. /\ spoiled' = spoiled \cup {c \in Conn : Target = Socket(c)}
        /\ life' \in [Conn -> Lives] /\ life'[cur] = "gone"
        /\ \A d \in Conn \ {cur} : life'[d] = life[d]
        /\ pipe' = pipe
    BY <1>1, <1>3 DEF Inv, Send, SendElsewhere, TypeOK, Lives
  <2>2. gap
    BY <1>1, <1>3, Things DEF Inv, NumbersMeant, Target
  <2>3. life'[cur] \notin InProcess
    BY <2>1 DEF InProcess
  <2>4. FdsInv' /\ NumbersMeant'
    BY <1>1, <2>1, <2>2, <2>3, FdsKept DEF Inv, Held
  <2>5. CarryInv'
    BY <1>1, <2>1, CarryKept DEF Inv
  <2>6. TypeOK'
    BY <1>1, <2>1 DEF Inv, TypeOK
  <2>7. QED
    BY <2>4, <2>5, <2>6 DEF Inv
<1>4. QED
  BY <1>2, <1>3

LEMMA CloseStep ==
    ASSUME Inv, Close PROVE Inv'
<1>1. /\ pc' = "loop"
      /\ UNCHANGED <<life, owner, number, offers, spoiled, state, pair, pipe, gap, forks, index, cur>>
  BY DEF Close, slots
<1>2. FdsInv' /\ NumbersMeant' /\ fds' \in [Fd -> Thing]
  BY FdsClosed DEF Inv
<1>3. CarryInv'
  BY <1>1, CarryKept DEF Inv
<1>4. TypeOK'
  BY <1>1, <1>2 DEF Inv, TypeOK
<1>5. QED
  BY <1>2, <1>3, <1>4 DEF Inv

LEMMA ReceiveStep ==
    ASSUME Inv, NEW k \in Child, Receive(k) PROVE Inv'
<1> DEFINE h == Head(pipe[k][1])
<1>1. /\ CarryInv' /\ h \in Conn /\ life[h] = "moving" /\ ~(pc = "send" /\ h = cur)
  BY CarryReceive DEF Inv
<1>2. PICK o \in Outcomes : Settled(h, k, o)
  BY DEF Receive
<1>3. UNCHANGED <<fds, number, spoiled, state, pair, gap, forks, index, pc, cur>>
  BY DEF Receive, handler
<1> HIDE DEF h
<1>4. /\ life' \in [Conn -> Lives] /\ owner' \in [Conn -> Child \cup {Parent}]
      /\ offers' \in [Conn -> Nat] /\ owner'[h] = k
      /\ \A d \in Conn \ {h} : life'[d] = life[d] /\ owner'[d] = owner[d]
  BY <1>1, <1>2, Settling DEF Inv
<1>5. life[h] \notin InProcess /\ k # Parent
  BY <1>1 DEF InProcess
<1>6. pc' = "send" => pc = "send" /\ life'[cur] = "moving"
  BY <1>1, <1>3, <1>4 DEF Inv, FdsInv, Passing, TypeOK
<1>7. \A d \in Conn : life'[d] \in InProcess /\ owner'[d] = Parent <=> Held(d)
  BY <1>4, <1>5 DEF Held
<1>8. FdsInv' /\ NumbersMeant'
  BY <1>3, <1>6, <1>7, FdsKept DEF Inv
<1>9. pipe[k][1] \in Seq(Conn) /\ pipe[k][1] # <<>> /\ Len(pipe[k][1]) \in Nat
  BY PipeType DEF Inv, Receive
<1>10. Tail(pipe[k][1]) \in Seq(Conn) /\ Len(Tail(pipe[k][1])) <= Len(pipe[k][1])
  BY <1>9
<1>11. pipe' \in [Child -> [0..1 -> Seq(Conn)]]
  <2>1. pipe \in [Child -> [0..1 -> Seq(Conn)]]
    BY DEF Inv, TypeOK
  <2>2. QED
    BY <1>10, <2>1 DEF Receive
<1>12. ASSUME NEW l \in Child, NEW f \in 0..1 PROVE Len(pipe'[l][f]) <= PairRoom
  <2>1. pipe'[l][f] = IF l = k /\ f = 1 THEN Tail(pipe[k][1]) ELSE pipe[l][f]
    BY DEF Inv, Receive, TypeOK
  <2>2. Len(pipe[l][f]) <= PairRoom /\ Len(pipe[k][1]) <= PairRoom
    BY PipeType DEF Inv
  <2>3. Len(Tail(pipe[k][1])) \in Nat
    BY <1>10
  <2>4. QED
    BY <1>9, <1>10, <2>1, <2>2, <2>3
<1>13. TypeOK'
  BY <1>3, <1>4, <1>11, <1>12 DEF Inv, TypeOK
<1>14. QED
  BY <1>1, <1>8, <1>13 DEF Inv

LEMMA DieStep ==
    ASSUME Inv, NEW k \in Child, Die(k) PROVE Inv'
<1>1. /\ state' \in [Child -> {"running", "dead", "reaped", "unforked"}]
      /\ \A d \in Conn : life'[d] =
             IF life[d] \in InProcess /\ owner[d] = k THEN "gone" ELSE life[d]
      /\ UNCHANGED <<fds, pair, pipe, gap, forks, index, pc, cur, owner, number, offers, spoiled>>
      /\ k # Parent
  <2>1. state' \in [Child -> {"running", "dead", "reaped", "unforked"}]
    BY DEF Inv, Die, TypeOK
  <2>2. QED
    BY <2>1 DEF Die, handler
<1>2. life' \in [Conn -> Lives]
  BY DEF Inv, Die, TypeOK, Lives
<1>3. "moving" \notin InProcess /\ "gone" \notin InProcess
  BY DEF InProcess
<1>4. \A d \in Conn : life[d] = "moving" => life'[d] = "moving"
  BY <1>1, <1>3
<1>5. \A d \in Conn : life'[d] \in InProcess /\ owner'[d] = Parent <=> Held(d)
  BY <1>1, <1>3 DEF Held
<1>6. pc' = "send" => pc = "send" /\ life'[cur] = "moving"
  BY <1>1, <1>4 DEF Inv, FdsInv, Passing, TypeOK
<1>7. FdsInv' /\ NumbersMeant'
  BY <1>1, <1>5, <1>6, FdsKept DEF Inv
<1>8. CarryInv'
  BY <1>1, <1>4, CarryKept DEF Inv
<1>9. TypeOK'
  BY <1>1, <1>2 DEF Inv, TypeOK
<1>10. QED
  BY <1>7, <1>8, <1>9 DEF Inv

LEMMA ForkedStep ==
    ASSUME Inv, NEW k \in Child, Reap(k) \/ ForkAgain(k) PROVE Inv'
<1>1. /\ pc = "loop" /\ pc' = "loop" /\ life' = Lost(k)
      /\ pipe' = [pipe EXCEPT ![k] = [e \in 0..1 |-> <<>>]]
      /\ forks' = forks + 1
      /\ UNCHANGED <<pc, index, cur, owner, number, offers, spoiled>>
  BY DEF Reap, ForkAgain, handler
<1>2. Fork(fds, k) \/ (fds' = ClosedPair(fds, k) /\ gap' = TRUE /\ pair' = pair)
  <2>1. Fork(ClosedPair(fds, k), k) <=> Fork(fds, k)
    <3>1. ClosedPair(ClosedPair(fds, k), k) = ClosedPair(fds, k)
      BY Closing DEF Inv
    <3>2. QED
      BY <3>1 DEF Fork, Repaired
  <2>2. QED
    BY <2>1 DEF Reap, ForkAgain
<1>3. /\ state' \in [Child -> {"running", "dead", "reaped", "unforked"}]
      /\ gap' \in BOOLEAN
  BY DEF Inv, TypeOK, Reap, ForkAgain, Fork
<1>4. /\ CarryInv'
      /\ \A c \in Conn : life'[c] = life[c] \/ (life'[c] = "gone" /\ life[c] = "moving")
  BY <1>1, CarryLost DEF Inv
<1>5. \A c \in Conn : life'[c] \in InProcess <=> life[c] \in InProcess
  BY <1>4 DEF InProcess
<1>6. /\ FdsInv' /\ NumbersMeant'
      /\ fds' \in [Fd -> Thing] /\ pair' \in [Child -> [0..1 -> Fd]]
  BY <1>1, <1>2, <1>5, ForkStep DEF Inv
<1>7. life' \in [Conn -> Lives]
  BY <1>1 DEF Inv, TypeOK, Lost, Lives
<1>8. /\ pipe' \in [Child -> [0..1 -> Seq(Conn)]]
      /\ \A l \in Child, f \in 0..1 : Len(pipe'[l][f]) <= PairRoom
  <2>1. pipe \in [Child -> [0..1 -> Seq(Conn)]]
    BY DEF Inv, TypeOK
  <2>2. <<>> \in Seq(Conn) /\ Len(<<>>) = 0
    OBVIOUS
  <2>3. pipe' \in [Child -> [0..1 -> Seq(Conn)]]
    BY <1>1, <2>1, <2>2
  <2>4. \A l \in Child, f \in 0..1 : pipe'[l][f] = IF l = k THEN <<>> ELSE pipe[l][f]
    BY <1>1, <2>1
  <2>5. ASSUME NEW l \in Child, NEW f \in 0..1 PROVE Len(pipe'[l][f]) <= PairRoom
    <3>1. Len(pipe[l][f]) <= PairRoom
      BY PipeType DEF Inv
    <3>2. QED
      BY <2>2, <2>4, <3>1
  <2>6. QED
    BY <2>3, <2>5
<1>9. TypeOK'
  <2>1. fds' \in [Fd -> Thing] /\ pair' \in [Child -> [0..1 -> Fd]]
    BY <1>6
  <2>2. forks' \in Nat
    BY <1>1 DEF Inv, TypeOK
  <2>3. /\ index' \in -1..NumChildren - 1 /\ pc' \in {"loop", "send", "close"} /\ cur' \in Conn
        /\ owner' \in [Conn -> Child \cup {Parent}]
        /\ number' \in [Conn -> Fd] /\ offers' \in [Conn -> Nat] /\ spoiled' \subseteq Conn
    BY <1>1 DEF Inv, TypeOK
  <2>4. QED
    BY <1>3, <1>7, <1>8, <2>1, <2>2, <2>3 DEF TypeOK
<1>10. QED
  BY <1>4, <1>6, <1>9 DEF Inv

LEMMA NoStep ==
    ASSUME Inv, UNCHANGED vars PROVE Inv'
<1>1. TypeOK'
  BY DEF Inv, TypeOK, vars
<1>2. FdsInv' /\ NumbersMeant'
  BY DEF Inv, FdsInv, EndsKnown, SocketsKnown, Passing, Held, NumbersMeant, vars
<1>3. CarryInv'
  BY DEF Inv, CarryInv, Carried, CarriedOnce, Once, vars
<1>4. QED
  BY <1>1, <1>2, <1>3 DEF Inv

(* After eventInitListener() and eventInitChild() the pairs have the lowest*)
(* numbers.                                                                *)
LEMMA Start ==
    ASSUME Init PROVE Inv
<1>1. Cardinality(Conn) \in Nat
  BY FS_CardinalityType
<1>2. \A n \in Fd : fds[n] = IF n < 2 * NumChildren THEN End(n \div 2, n % 2) ELSE Nobody
  BY DEF Init
<1>3. \A n \in Fd : n < 2 * NumChildren => n \div 2 \in Child /\ n % 2 \in 0..1
  BY <1>1
<1>4. \A k \in Child, e \in 0..1 :
          /\ 2 * k + e \in Fd /\ 2 * k + e < 2 * NumChildren
          /\ (2 * k + e) \div 2 = k /\ (2 * k + e) % 2 = e
  BY <1>1
<1>5. \A n \in Fd : 2 * (n \div 2) + (n % 2) = n
  BY <1>1
<1>6. \A k \in Child, e \in 0..1 : pair[k][e] = 2 * k + e
  BY DEF Init
<1>7. fds \in [Fd -> Thing]
  <2>1. fds = [n \in Fd |-> fds[n]]
    BY DEF Init
  <2>2. ASSUME NEW n \in Fd PROVE fds[n] \in Thing
    BY <1>2, <1>3, Things
  <2>3. QED
    BY <2>1, <2>2
<1>8. pair \in [Child -> [0..1 -> Fd]]
  BY <1>4 DEF Init
<1>9. /\ pipe \in [Child -> [0..1 -> Seq(Conn)]]
      /\ \A k \in Child, e \in 0..1 : pipe[k][e] = <<>> /\ Len(pipe[k][e]) = 0
  BY DEF Init
<1>10. /\ TypeOK /\ pc = "loop"
       /\ \A c \in Conn : life[c] \notin InProcess
  <2>1. /\ state \in [Child -> {"running", "dead", "reaped", "unforked"}]
        /\ pc = "loop" /\ cur \in Conn
        /\ life \in [Conn -> Lives] /\ owner \in [Conn -> Child \cup {Parent}]
    BY DEF Init, Lives
  <2>2. index \in -1..NumChildren - 1 /\ offers \in [Conn -> Nat]
    BY DEF Init
  <2>3. spoiled \subseteq Conn /\ gap \in BOOLEAN /\ forks \in Nat
    BY DEF Init
  <2>4. 0 \in Fd /\ number \in [Conn -> Fd]
    BY <1>1 DEF Init
  <2>5. \A c \in Conn : life[c] \notin InProcess
    BY DEF Init, InProcess
  <2>6. \A k \in Child, e \in 0..1 : Len(pipe[k][e]) <= PairRoom
    BY <1>9
  <2>7. QED
    BY <1>7, <1>8, <1>9, <2>1, <2>2, <2>3, <2>4, <2>5, <2>6 DEF TypeOK
<1>11. ASSUME NEW n \in Fd, NEW k \in Child, NEW e \in 0..1, fds[n] = End(k, e)
       PROVE  pair[k][e] = n
  <2>1. n < 2 * NumChildren /\ End(n \div 2, n % 2) = End(k, e)
    BY <1>2, <1>11, Things
  <2>2. n \div 2 = k /\ n % 2 = e
    BY <2>1, Things
  <2>3. QED
    BY <1>5, <1>6, <2>2
<1>12. FdsInv
  BY <1>2, <1>10, <1>11, Things DEF FdsInv, EndsKnown, SocketsKnown, Passing
<1>13. NumbersMeant
  <2>1. ASSUME NEW k \in Child, NEW e \in 0..1 PROVE fds[pair[k][e]] = End(k, e)
    <3> DEFINE n == 2 * k + e
    <3>1. n \in Fd /\ n < 2 * NumChildren /\ n \div 2 = k /\ n % 2 = e
      BY <1>4
    <3> HIDE DEF n
    <3>2. fds[n] = End(n \div 2, n % 2)
      BY <1>2, <3>1
    <3>3. pair[k][e] = n
      BY <1>6 DEF n
    <3>4. QED
      BY <3>1, <3>2, <3>3
  <2>2. QED
    BY <1>10, <2>1 DEF NumbersMeant, Init
<1>14. CarryInv
  BY <1>9 DEF CarryInv, Carried, CarriedOnce, Once, At
<1>15. QED
  BY <1>10, <1>12, <1>13, <1>14 DEF Inv

(* Every step of the parent, of its children and of the peers keeps Inv.   *)
THEOREM Invariant == Spec => []Inv
<1>1. Init => Inv
  BY Start
<1>2. Inv /\ [Next]_vars => Inv'
  <2> SUFFICES ASSUME Inv, [Next]_vars PROVE Inv'
    OBVIOUS
  <2>1. ASSUME NEW c \in Conn, Dial(c) \/ Accept(c) \/ AcceptHere(c) PROVE Inv'
    BY <2>1, DialStep, AcceptStep, AcceptHereStep
  <2>2. ASSUME NEW c \in Conn, SslEvent(c) \/ Hangup(c) PROVE Inv'
    BY <2>2, SslEventStep, HangupStep
  <2>3. CASE Send \/ Close
    BY <2>3, SendStep, CloseStep
  <2>4. ASSUME NEW k \in Child, Receive(k) \/ Die(k) PROVE Inv'
    BY <2>4, ReceiveStep, DieStep
  <2>5. ASSUME NEW k \in Child, Reap(k) \/ ForkAgain(k) PROVE Inv'
    BY <2>5, ForkedStep
  <2>6. CASE UNCHANGED vars
    BY <2>6, NoStep
  <2>7. QED
    BY <2>1, <2>2, <2>3, <2>4, <2>5, <2>6 DEF Next
<1>3. QED
  BY <1>1, <1>2, PTL DEF Spec

(* The variables keep their types: there is always a free number for       *)
(* accept() and for socketpair(), and no message is sent to a full pair.   *)
THEOREM TypeCorrect == Spec => []TypeOK
<1>1. Inv => TypeOK
  BY DEF Inv
<1>2. QED
  BY <1>1, Invariant, PTL

(* getPipeFD() returns the slot's own number and close() closes what it is *)
(* meant to close, as long as no slot was left with a closed pair.         *)
THEOREM NumbersCorrect == Spec => []NumbersMeant
<1>1. Inv => NumbersMeant
  BY DEF Inv
<1>2. QED
  BY <1>1, Invariant, PTL

(* A connection is in one message, with one process or closed, and the     *)
(* parent has none open that it passed on.                                 *)
THEOREM HolderCorrect == Spec => []OneHolder
<1>1. Inv => OneHolder
  <2> SUFFICES ASSUME Inv, NEW c \in Conn
               PROVE  /\ Cardinality(Messages(c)) + (IF life[c] \in InProcess THEN 1 ELSE 0) <= 1
                      /\ Messages(c) # {} => life[c] = "moving"
                      /\ pc = "loop" /\ (\E n \in Fd : fds[n] = Socket(c)) =>
                             life[c] \in InProcess /\ owner[c] = Parent
    BY DEF OneHolder
  <2>1. ASSUME NEW m \in Messages(c)
        PROVE  /\ m = <<m[1], m[2], m[3]>> /\ m[1] \in Child /\ m[2] \in 0..1 /\ m[3] \in Nat
               /\ At(pipe, m[1], m[2], m[3], c)
    BY DEF Messages, At
  <2>2. Messages(c) # {} => life[c] = "moving"
    BY <2>1 DEF Inv, CarryInv, Carried
  <2>3. ASSUME NEW m \in Messages(c), NEW n \in Messages(c) PROVE m = n
    <3>1. m[1] = n[1] /\ m[2] = n[2] /\ m[3] = n[3]
      BY <2>1, SamePlace DEF Inv
    <3>2. QED
      BY <2>1, <3>1
  <2>4. CASE Messages(c) = {}
    BY <2>4, FS_EmptySet DEF Inv, FdsInv, SocketsKnown, Held
  <2>5. CASE Messages(c) # {}
    <3>1. PICK m \in Messages(c) : Messages(c) = {m}
      BY <2>3, <2>5
    <3>2. Cardinality(Messages(c)) = 1
      BY <3>1, FS_Singleton
    <3>3. life[c] \notin InProcess
      BY <2>2, <2>5 DEF InProcess
    <3>4. QED
      BY <2>2, <3>2, <3>3 DEF Inv, FdsInv, SocketsKnown, Held
  <2>6. QED
    BY <2>4, <2>5
<1>2. QED
  BY <1>1, Invariant, PTL
===============================================================================
