------------------------------- MODULE IoProofs -------------------------------
(***************************************************************************)
(* Proofs about IoPoller, for any descriptors, masks, clients and batches  *)
(* and for both pollers with any FD_SETSIZE, about IoBuffer and its line   *)
(* functions, for any sizes of the block and of a write, and about the     *)
(* reader of HTTP messages on such a buffer, HttpChannel, for any texts of *)
(* the peer and any limits.                                                *)
(***************************************************************************)
EXTENDS IoPoller, IoBufferLines, HttpChannel, FiniteSetTheorems, WellFoundedInduction, TLAPS

(* A set of numbers has a least element.                                   *)
LEMMA LeastNat ==
    ASSUME NEW S, S \subseteq Nat, S # {}
    PROVE  \E x \in S : \A y \in S : x <= y
<1> DEFINE R == OpToRel(<, Nat)
<1>1. IsWellFoundedOn(R, Nat)
  BY NatLessThanWellFounded, Zenon
<1>2. \A p \in Nat \X Nat : p[1] < p[2] => p \in R
  BY DEF OpToRel
<1> HIDE DEF R
<1>3. PICK x \in S : \A y \in S : ~(<<y, x>> \in R)
  BY <1>1, WFMin
<1>4. ASSUME NEW y \in S PROVE x <= y
  <2>1. <<y, x>> \in Nat \X Nat /\ ~(y < x)
    BY <1>2, <1>3
  <2>2. QED
    BY <2>1
<1>5. QED
  BY <1>4

(* Max finds the greatest element of a set of numbers that are bounded.   *)
LEMMA GreatestNat ==
    ASSUME NEW S, S # {}, NEW n \in Nat, S \subseteq 0..n
    PROVE  Max(S) \in S /\ \A y \in S : y <= Max(S)
<1> DEFINE T == {n - y : y \in S}
<1>1. T \subseteq Nat
  OBVIOUS
<1>2. PICK t \in T : \A u \in T : t <= u
  <2>1. T # {}
    <3>1. PICK y \in S : TRUE
      OBVIOUS
    <3>2. n - y \in T
      BY <3>1
    <3>3. QED
      BY <3>2
  <2>2. QED
    BY <1>1, <2>1, LeastNat
<1>3. PICK x \in S : t = n - x
  OBVIOUS
<1>4. ASSUME NEW y \in S PROVE x >= y
  <2>1. n - y \in T
    OBVIOUS
  <2>2. t <= n - y
    BY <1>2, <2>1
  <2>3. QED
    BY <1>3, <2>2
<1>5. \E z \in S : \A y \in S : z >= y
  BY <1>4
<1>6. Max(S) \in S /\ \A y \in S : Max(S) >= y
  BY <1>5 DEF Max
<1>7. QED
  BY <1>6

LEMMA Params == Fds \subseteq Nat /\ {} \in Masks /\ Nobody \notin Clients
  BY IoPollerAssumption

-----------------------------------------------------------------------------
(* Types                                                                   *)

TableType ==
    /\ clients \in [Fds -> [event : Clients \cup {Nobody}, mask : Masks]]
    /\ m_max_fd \in Fds \cup {-1}
    /\ watched \in SUBSET Fds
    /\ interest \in [Fds -> Masks]
    /\ failed \in SUBSET Fds /\ left \in SUBSET Fds /\ bare \in SUBSET Fds

LEMMA AddType ==
    ASSUME TypeOK, NEW f \in Fds, NEW c \in Clients, NEW m \in Masks, add(f, c, m)
    PROVE  TableType'
<1>1. CASE Registered(f, c, m)
  <2>1. interest[f] \cup m \in Masks
    BY IoPollerAssumption DEF TypeOK
  <2>2. /\ interest' \in [Fds -> Masks]
        /\ clients' \in [Fds -> [event : Clients \cup {Nobody}, mask : Masks]]
    BY <1>1, <2>1 DEF Registered, TypeOK
  <2>3. QED
    BY <1>1, <2>2 DEF Registered, TypeOK, TableType
<1>2. CASE AddFailed(f, c, m)
  BY <1>2 DEF AddFailed, TypeOK, TableType
<1>3. CASE Ignored
  BY <1>3 DEF Ignored, table, TypeOK, TableType
<1>4. QED
  BY <1>1, <1>2, <1>3 DEF add

(* remove() brings m_max_fd down to the last registered entry.             *)
LEMMA LastFound ==
    ASSUME NEW t, NEW f \in Fds \cup {-1}
    PROVE  /\ LastEvent(t, f) \in Fds \cup {-1}
           /\ LastEvent(t, f) # -1 => t[LastEvent(t, f)].event # Nobody
           /\ \A g \in Fds : g <= f /\ t[g].event # Nobody => g <= LastEvent(t, f)
<1> DEFINE under == {g \in Fds : g <= f /\ t[g].event # Nobody}
<1>1. CASE under = {}
  BY <1>1 DEF LastEvent
<1>2. CASE under # {}
  <2>1. f \in Nat /\ under \subseteq 0..f
    <3>1. PICK g \in under : TRUE
      BY <1>2
    <3>2. g \in Nat /\ g <= f
      BY <3>1, Params
    <3>3. f \in Nat
      BY <3>2, Params
    <3>4. \A h \in under : h \in 0..f
      BY <3>3, Params
    <3>5. QED
      BY <3>3, <3>4
  <2>2. Max(under) \in under /\ \A g \in under : g <= Max(under)
    BY <1>2, <2>1, GreatestNat
  <2>3. LastEvent(t, f) = Max(under)
    BY <1>2 DEF LastEvent
  <2>4. QED
    BY <2>2, <2>3
<1>3. QED
  BY <1>1, <1>2

LEMMA RemoveType ==
    ASSUME TypeOK, NEW f \in Fds, remove(f)
    PROVE  TableType' /\ gone' \in SUBSET Fds
<1>1. CASE CanRemove(f)
  <2>1. Removed(f)
    BY <1>1 DEF remove
  <2>2. m_max_fd' \in Fds \cup {-1}
    BY <2>1, LastFound DEF Removed, TypeOK
  <2>3. QED
    BY <2>1, <2>2, Params DEF Removed, Reset, NoEntry, TypeOK, TableType
<1>2. CASE ~CanRemove(f)
  BY <1>2 DEF remove, Ignored, table, TypeOK, TableType
<1>3. QED
  BY <1>1, <1>2

LEMMA MaskType ==
    ASSUME TypeOK, NEW f \in Fds, NEW m \in Masks, setMask(f, m)
    PROVE  TableType'
<1>1. CASE CanRemove(f)
  <2>1. /\ interest' \in [Fds -> Masks]
        /\ clients' \in [Fds -> [event : Clients \cup {Nobody}, mask : Masks]]
    BY <1>1 DEF setMask, TypeOK
  <2>2. QED
    BY <1>1, <2>1 DEF setMask, TypeOK, TableType
<1>2. CASE ~CanRemove(f)
  BY <1>2 DEF setMask, Ignored, table, TypeOK, TableType
<1>3. QED
  BY <1>1, <1>2

(* What orMask() and andMask() set is a mask.                              *)
LEMMA MaskSet ==
    ASSUME TypeOK, NEW f \in Fds, NEW m \in Masks,
           setMask(f, m) \/ orMask(f, m) \/ andMask(f, m)
    PROVE  \E n \in Masks : setMask(f, n)
<1>1. clients[f].mask \in Masks
  BY DEF TypeOK
<1>2. clients[f].mask \cup m \in Masks /\ clients[f].mask \cap m \in Masks
  BY <1>1, IoPollerAssumption
<1>3. QED
  BY <1>2 DEF orMask, andMask

LEMMA TypeStep == TypeOK /\ [Next]_vars => TypeOK'
<1> SUFFICES ASSUME TypeOK, [Next]_vars PROVE TypeOK'
  OBVIOUS
<1>1. ASSUME NEW c \in Clients, Open(c) PROVE TypeOK'
  <2>1. TableType'
    BY <1>1, AddType DEF Open
  <2>2. owner' \in [Fds -> Clients \cup {Nobody}]
    BY <1>1 DEF Open, Opens, TypeOK
  <2>3. QED
    BY <1>1, <2>1, <2>2 DEF Open, TypeOK, TableType, loop
<1>2. ASSUME NEW c \in Clients, ConnectAtOnce(c) PROVE TypeOK'
  BY <1>2 DEF ConnectAtOnce, Opens, TypeOK, table, loop, history
<1>3. ASSUME NEW c \in Clients, AddAgain(c) PROVE TypeOK'
  <2>1. TableType'
    BY <1>3, AddType DEF AddAgain
  <2>2. QED
    BY <1>3, <2>1 DEF AddAgain, TypeOK, TableType, loop
<1>4. ASSUME NEW c \in Clients, Mask(c) PROVE TypeOK'
  <2>1. PICK f \in Fds, n \in Masks : setMask(f, n)
    BY <1>4, MaskSet DEF Mask
  <2>2. TableType'
    BY <2>1, MaskType
  <2>3. QED
    BY <1>4, <2>2 DEF Mask, TypeOK, TableType, loop
<1>5. ASSUME NEW c \in Clients, Close(c) PROVE TypeOK'
  <2>1. TableType' /\ gone' \in SUBSET Fds
    BY <1>5, RemoveType DEF Close
  <2>2. QED
    BY <1>5, <2>1 DEF Close, TypeOK, TableType, loop
<1>6. ASSUME NEW c \in Clients, Handover(c) PROVE TypeOK'
  <2>1. cur \in Fds
    BY <1>6 DEF Handover, TypeOK
  <2>2. /\ owner' \in [Fds -> Clients \cup {Nobody}]
        /\ clients' \in [Fds -> [event : Clients \cup {Nobody}, mask : Masks]]
        /\ interest' \in [Fds -> Masks]
        /\ watched' \in SUBSET Fds /\ failed' \in SUBSET Fds
    BY <1>6, <2>1, Params DEF Handover, TypeOK
  <2>3. gone' \in SUBSET Fds /\ left' \in SUBSET Fds /\ bare' \in SUBSET Fds
    BY <1>6, <2>1 DEF Handover, TypeOK
  <2>4. UNCHANGED <<kind, m_max_fd, ready, batch, calling, cur, down>>
    BY <1>6 DEF Handover, loop
  <2>5. QED
    BY <2>2, <2>3, <2>4 DEF TypeOK
<1>7. CASE Abandon
  <2>1. cur \in Fds
    BY <1>7 DEF Abandon, TypeOK
  <2>2. /\ owner' \in [Fds -> Clients \cup {Nobody}]
        /\ interest' \in [Fds -> Masks]
    BY <1>7, <2>1, Params DEF Abandon, TypeOK
  <2>3. QED
    BY <1>7, <2>1, <2>2 DEF Abandon, TypeOK, loop
<1>8. CASE ReturnDel
  <2>1. TableType' /\ gone' \in SUBSET Fds
    BY <1>8, RemoveType DEF ReturnDel, TypeOK
  <2>2. QED
    BY <1>8, <2>1 DEF ReturnDel, TypeOK, TableType
<1>9. CASE Wait
  BY <1>9 DEF Wait, Ready, Askable, TypeOK, table
<1>10. ASSUME NEW f \in Fds, Deliver(f) \/ Skip(f) PROVE TypeOK'
  BY <1>10 DEF Deliver, Skip, TypeOK, table, history
<1>11. CASE Stop \/ Return
  BY <1>11 DEF Stop, Return, TypeOK, table, history
<1>12. CASE Network
  BY <1>12 DEF Network, TypeOK, table, loop, history
<1>13. CASE UNCHANGED vars
  BY <1>13 DEF TypeOK, vars, table, loop, history
<1>14. QED
  BY <1>1, <1>2, <1>3, <1>4, <1>5, <1>6, <1>7, <1>8, <1>9, <1>10, <1>11,
     <1>12, <1>13 DEF Next, ClientSteps, Dispatch

(* Every variable of the pollers keeps its type.                           *)
THEOREM TypeCorrect == Spec => []TypeOK
<1>1. Init => TypeOK
  <2> SUFFICES ASSUME Init PROVE TypeOK
    OBVIOUS
  <2>1. NoEntry \in [event : Clients \cup {Nobody}, mask : Masks]
    BY Params DEF NoEntry
  <2>2. QED
    BY <2>1, Params DEF Init, TypeOK
<1>2. QED
  BY <1>1, TypeStep, PTL DEF Spec

-----------------------------------------------------------------------------
(* The table.  A descriptor's entry names its owner unless its add()       *)
(* failed or it was closed without remove(); what epoll does not watch has *)
(* no other entry; select registers only what its fd_sets can hold, and a  *)
(* mask without a client was set without add().  m_max_fd is registered.   *)
Stale == failed \cup left
Empty(f) == clients[f].event = Nobody

Watched(f) ==
    f \in watched =>
        owner[f] # Nobody /\ clients[f] = [event |-> owner[f], mask |-> interest[f]]

EntryOK(f) ==
    /\ Watched(f)
    /\ Empty(f) \/ clients[f].event = owner[f] \/ f \in Stale
    /\ Epoll => f \in watched \/ Empty(f) \/ f \in Stale
    /\ ~Epoll =>
        /\ f \notin watched
        /\ f < kind.size \/ Empty(f)
        /\ interest[f] # {} /\ Empty(f) => f \in bare

LastRegistered == ~Epoll => m_max_fd = -1 \/ ~Empty(m_max_fd)

TableInv == (\A f \in Fds : EntryOK(f)) /\ SelectCovers /\ LastRegistered

USE DEF Epoll, Stale, Empty, Watched

(* The operations write one entry.                                         *)
Others(f) ==
    \A g \in Fds \ {f} :
        /\ clients'[g] = clients[g] /\ interest'[g] = interest[g] /\ owner'[g] = owner[g]
        /\ (g \in watched') = (g \in watched) /\ (g \in failed') = (g \in failed)
        /\ (g \in left') = (g \in left) /\ (g \in bare') = (g \in bare)

LEMMA OneEntry ==
    ASSUME TypeOK, TableInv, NEW f \in Fds, Others(f), kind' = kind, EntryOK(f)',
           SelectCovers', LastRegistered'
    PROVE  TableInv'
<1>1. ASSUME NEW g \in Fds, g # f PROVE EntryOK(g)'
  BY <1>1 DEF EntryOK, TableInv, Others
<1>2. \A g \in Fds : EntryOK(g)'
  BY <1>1
<1>3. QED
  BY <1>2 DEF TableInv

(* add() by the new owner of a descriptor, or by its owner while the entry *)
(* names somebody else.                                                    *)
LEMMA AddStep ==
    ASSUME TypeOK, TableInv, NEW f \in Fds, NEW c \in Clients, NEW m \in Masks,
           add(f, c, m), owner' = [owner EXCEPT ![f] = c], kind' = kind,
           owner[f] = Nobody \/ (owner[f] = c /\ clients[f].event # c)
    PROVE  TableInv'
<1>1. owner'[f] = c /\ c # Nobody /\ f \notin watched /\ EntryOK(f)
  BY Params DEF TypeOK, TableInv, EntryOK
<1>2. CASE InRange(f) /\ Registered(f, c, m)
  <2>1. Others(f)
    BY <1>2 DEF Registered, Others, TypeOK
  <2>2. EntryOK(f)'
    <3>1. clients'[f] = [event |-> c, mask |-> m] /\ interest'[f] = IF Epoll THEN m ELSE interest[f] \cup m
      BY <1>2 DEF Registered, TypeOK
    <3>2. watched' = IF Epoll THEN watched \cup {f} ELSE watched
      BY <1>2 DEF Registered
    <3>3. QED
      BY <1>1, <1>2, <3>1, <3>2, Params DEF EntryOK, InRange
  <2>3. SelectCovers'
    BY <1>2, Params DEF Registered, SelectCovers, TypeOK, TableInv
  <2>4. LastRegistered'
    BY <1>1, <1>2, Params DEF Registered, LastRegistered, TypeOK, TableInv
  <2>5. QED
    BY <2>1, <2>2, <2>3, <2>4, OneEntry
<1>3. CASE AddFailed(f, c, m)
  <2>1. Others(f)
    BY <1>3 DEF AddFailed, Others, TypeOK
  <2>2. EntryOK(f)'
    BY <1>1, <1>3 DEF AddFailed, EntryOK, TypeOK
  <2>3. SelectCovers' /\ LastRegistered'
    BY <1>3 DEF AddFailed, SelectCovers, LastRegistered
  <2>4. QED
    BY <2>1, <2>2, <2>3, OneEntry
<1>4. CASE Ignored /\ ~InRange(f)
  <2>1. Others(f)
    BY <1>4 DEF Ignored, table, Others, TypeOK
  <2>2. EntryOK(f)'
    BY <1>1, <1>4 DEF Ignored, table, EntryOK, InRange
  <2>3. SelectCovers' /\ LastRegistered'
    BY <1>4 DEF Ignored, table, SelectCovers, LastRegistered, TableInv
  <2>4. QED
    BY <2>1, <2>2, <2>3, OneEntry
<1>5. QED
  BY <1>2, <1>3, <1>4 DEF add

(* remove() of a descriptor by its owner, who may close it after that.     *)
LEMMA RemoveStep ==
    ASSUME TypeOK, TableInv, NEW f \in Fds, remove(f), kind' = kind,
           owner' \in {owner, [owner EXCEPT ![f] = Nobody]}
    PROVE  TableInv'
<1>1. EntryOK(f)
  BY DEF TableInv
<1>2. CASE Removed(f)
  <2>1. Others(f)
    BY <1>2 DEF Removed, Reset, Others, TypeOK
  <2>2. EntryOK(f)'
    BY <1>1, <1>2 DEF Removed, Reset, NoEntry, EntryOK, TypeOK
  <2>3. ASSUME ~Epoll, NEW g \in Fds, clients'[g].event # Nobody
        PROVE  g <= m_max_fd /\ clients[g].event # Nobody
    BY <1>2, <2>3 DEF Removed, Reset, NoEntry, TableInv, SelectCovers, TypeOK
  <2>4. SelectCovers' /\ LastRegistered'
    BY <1>2, <2>3, LastFound DEF Removed, SelectCovers, LastRegistered, TypeOK
  <2>5. QED
    BY <2>1, <2>2, <2>4, OneEntry
<1>3. CASE Ignored /\ ~CanRemove(f)
  <2>1. Others(f)
    BY <1>3 DEF Ignored, table, Others, TypeOK
  <2>2. EntryOK(f)'
    BY <1>1, <1>3 DEF Ignored, table, EntryOK, CanRemove, InRange, TypeOK
  <2>3. SelectCovers' /\ LastRegistered'
    BY <1>3 DEF Ignored, table, SelectCovers, LastRegistered, TableInv
  <2>4. QED
    BY <2>1, <2>2, <2>3, OneEntry
<1>4. QED
  BY <1>2, <1>3 DEF remove

LEMMA MaskStep ==
    ASSUME TypeOK, TableInv, NEW f \in Fds, NEW m \in Masks, setMask(f, m),
           UNCHANGED <<kind, owner>>
    PROVE  TableInv'
<1>1. EntryOK(f)
  BY DEF TableInv
<1>2. Others(f)
  BY DEF setMask, Ignored, table, Others, TypeOK
<1>3. EntryOK(f)'
  BY <1>1 DEF setMask, Ignored, table, EntryOK, CanRemove, TypeOK
<1>4. SelectCovers' /\ LastRegistered'
  <2>1. \A g \in Fds : clients'[g].event = clients[g].event
    BY DEF setMask, Ignored, table, TypeOK
  <2>2. m_max_fd' = m_max_fd /\ m_max_fd \in Fds \cup {-1}
    BY DEF setMask, Ignored, table, TypeOK
  <2>3. QED
    BY <2>1, <2>2 DEF SelectCovers, LastRegistered, TableInv
<1>5. QED
  BY <1>2, <1>3, <1>4, OneEntry

(* procConnect() opens a descriptor: the entry stays.                      *)
LEMMA OpenStep ==
    ASSUME TypeOK, TableInv, NEW f \in Fds, NEW c \in Clients,
           owner[f] = Nobody, owner' = [owner EXCEPT ![f] = c],
           UNCHANGED <<kind, table, history>>
    PROVE  TableInv'
<1>1. EntryOK(f)
  BY DEF TableInv
<1>2. Others(f)
  BY DEF table, history, Others, TypeOK
<1>3. EntryOK(f)'
  BY <1>1, Params DEF table, history, EntryOK, TypeOK
<1>4. SelectCovers' /\ LastRegistered'
  BY DEF table, SelectCovers, LastRegistered, TableInv
<1>5. QED
  BY <1>2, <1>3, <1>4, OneEntry

LEMMA AbandonStep == ASSUME TypeOK, TableInv, Abandon PROVE TableInv'
<1>1. PICK f \in Fds : f = cur
  BY DEF Abandon, TypeOK
<1>2. /\ owner' = [owner EXCEPT ![f] = Nobody]
      /\ watched' = watched \ {f} /\ left' = left \cup {f}
      /\ interest' = IF Epoll THEN [interest EXCEPT ![f] = {}] ELSE interest
      /\ UNCHANGED <<kind, clients, m_max_fd, failed, bare>>
  BY <1>1 DEF Abandon
<1>3. EntryOK(f)
  BY DEF TableInv
<1>4. Others(f)
  BY <1>2 DEF Others, TypeOK
<1>5. EntryOK(f)'
  BY <1>2, <1>3, Params DEF EntryOK, TypeOK
<1>6. SelectCovers' /\ LastRegistered'
  BY <1>2 DEF SelectCovers, LastRegistered, TableInv
<1>7. QED
  BY <1>2, <1>4, <1>5, <1>6, OneEntry

LEMMA HandoverStep ==
    ASSUME TypeOK, TableInv, NEW d \in Clients, Handover(d) PROVE TableInv'
<1>1. PICK f \in Fds : f = cur
  BY DEF Handover, TypeOK
<1>2. /\ owner' = [owner EXCEPT ![f] = d] /\ d # Nobody
      /\ left' = left \ {f} /\ bare' = bare \ {f}
      /\ kind' = kind /\ m_max_fd' = m_max_fd
      /\ clients[f].event # Nobody
      /\ CanRemove(f)
  BY <1>1, Params DEF Handover
<1>3. PICK m \in Masks, ok \in {TRUE, ~(Epoll /\ AddMayFail)} :
        /\ clients' = [clients EXCEPT ![f] = [event |-> d, mask |-> m]]
        /\ interest' = [interest EXCEPT ![f] = IF ok THEN m ELSE {}]
        /\ watched' = IF ok THEN watched ELSE watched \ {f}
        /\ failed' = IF ok THEN failed \ {f} ELSE failed \cup {f}
  BY <1>1 DEF Handover
<1>4. EntryOK(f)
  BY DEF TableInv
<1>5. Others(f)
  BY <1>2, <1>3 DEF Others, TypeOK
<1>6. EntryOK(f)'
  <2>1. CASE ok
    BY <1>2, <1>3, <1>4, <2>1 DEF EntryOK, CanRemove, InRange, TypeOK
  <2>2. CASE ~ok
    BY <1>2, <1>3, <1>4, <2>2 DEF EntryOK, CanRemove, TypeOK
  <2>3. QED
    BY <2>1, <2>2
<1>7. SelectCovers'
  BY <1>2, <1>3 DEF SelectCovers, TableInv, TypeOK
<1>8. LastRegistered'
  BY <1>2, <1>3 DEF LastRegistered, TableInv, TypeOK
<1>9. QED
  BY <1>2, <1>5, <1>6, <1>7, <1>8, OneEntry

(* The steps of dispatch() and of the network leave the table alone.       *)
LEMMA TableKept ==
    ASSUME TableInv, UNCHANGED <<kind, table, owner, failed, left, bare>>
    PROVE  TableInv'
<1>1. ASSUME NEW f \in Fds PROVE EntryOK(f)'
  BY DEF TableInv, EntryOK, table
<1>2. SelectCovers' /\ LastRegistered'
  BY DEF TableInv, SelectCovers, LastRegistered, table
<1>3. QED
  BY <1>1, <1>2 DEF TableInv

LEMMA TableStep == TypeOK /\ TableInv /\ [Next]_vars => TableInv'
<1> SUFFICES ASSUME TypeOK, TableInv, [Next]_vars PROVE TableInv'
  OBVIOUS
<1>1. ASSUME NEW c \in Clients, Open(c) PROVE TableInv'
  BY <1>1, AddStep DEF Open, Opens
<1>2. ASSUME NEW c \in Clients, ConnectAtOnce(c) PROVE TableInv'
  BY <1>2, OpenStep DEF ConnectAtOnce, Opens
<1>3. ASSUME NEW c \in Clients, AddAgain(c) PROVE TableInv'
  <2>1. PICK f \in Fds, m \in Masks :
            owner[f] = c /\ clients[f].event # c /\ add(f, c, m)
    BY <1>3 DEF AddAgain, Owns
  <2>2. owner' = [owner EXCEPT ![f] = c] /\ kind' = kind
    BY <1>3, <2>1 DEF AddAgain, TypeOK
  <2>3. QED
    BY <2>1, <2>2, AddStep
<1>4. ASSUME NEW c \in Clients, Mask(c) PROVE TableInv'
  <2>1. PICK f \in Fds, n \in Masks : setMask(f, n)
    BY <1>4, MaskSet DEF Mask
  <2>2. QED
    BY <1>4, <2>1, MaskStep DEF Mask
<1>5. ASSUME NEW c \in Clients, Close(c) PROVE TableInv'
  BY <1>5, RemoveStep DEF Close
<1>6. ASSUME NEW c \in Clients, Handover(c) PROVE TableInv'
  BY <1>6, HandoverStep
<1>7. CASE Abandon
  BY <1>7, AbandonStep
<1>8. CASE ReturnDel
  <2>1. cur \in Fds
    BY <1>8 DEF ReturnDel, TypeOK
  <2>2. QED
    BY <1>8, <2>1, RemoveStep DEF ReturnDel
<1>9. CASE UNCHANGED <<kind, table, owner, failed, left, bare>>
  BY <1>9, TableKept
<1>10. QED
  BY <1>1, <1>2, <1>3, <1>4, <1>5, <1>6, <1>7, <1>8, <1>9
     DEF Next, ClientSteps, Dispatch, Wait, Stop, Return, Deliver, Skip, Network,
         vars, history

LEMMA TableInvariant == Spec => [](TypeOK /\ TableInv)
<1>1. Init => TableInv
  <2> SUFFICES ASSUME Init PROVE TableInv
    OBVIOUS
  <2>1. \A f \in Fds : Empty(f) /\ f \notin watched /\ interest[f] = {}
    BY DEF Init, NoEntry
  <2>2. m_max_fd = -1
    BY DEF Init
  <2>3. QED
    BY <2>1, <2>2 DEF TableInv, EntryOK, SelectCovers, LastRegistered
<1>2. QED
  BY <1>1, TypeCorrect, TypeStep, TableStep, PTL DEF Spec

(* What epoll watches is open and its entry names the owner and the mask,  *)
(* however the descriptors are closed, reused and handed over.             *)
THEOREM KernelCorrect == Spec => []KernelKnowsOwner
<1>1. TypeOK /\ TableInv => KernelKnowsOwner
  BY DEF TypeOK, TableInv, EntryOK, KernelKnowsOwner
<1>2. QED
  BY <1>1, TableInvariant, PTL

(* No registered descriptor lies beyond the m_max_fd that select() is      *)
(* given.                                                                  *)
THEOREM CoversCorrect == Spec => []SelectCovers
  BY TableInvariant, PTL DEF TableInv

-----------------------------------------------------------------------------
(* The batch.  An entry of it that has no client was removed in this       *)
(* dispatch or was never added.                                            *)
BatchInv == ~Epoll => \A f \in batch : Empty(f) => f \in gone \cup bare

LEMMA BatchStep == TypeOK /\ TableInv /\ BatchInv /\ [Next]_vars => BatchInv'
<1> SUFFICES ASSUME TypeOK, TableInv, BatchInv, [Next]_vars PROVE BatchInv'
  OBVIOUS
<1>1. ASSUME NEW f \in Fds, NEW c \in Clients, NEW m \in Masks, add(f, c, m),
             UNCHANGED <<kind, batch, gone>>
      PROVE  BatchInv'
  BY <1>1, Params
     DEF add, Registered, AddFailed, Ignored, table, BatchInv, TypeOK
<1>2. ASSUME NEW f \in Fds, remove(f), UNCHANGED <<kind, batch>> PROVE BatchInv'
  BY <1>2 DEF remove, Removed, Reset, Ignored, table, BatchInv, TypeOK
<1>3. ASSUME NEW f \in Fds, NEW m \in Masks, setMask(f, m), UNCHANGED <<kind, batch, gone>>
      PROVE  BatchInv'
  BY <1>3 DEF setMask, Ignored, table, BatchInv, TypeOK
<1>4. ASSUME NEW c \in Clients, Open(c) \/ AddAgain(c) PROVE BatchInv'
  BY <1>1, <1>4 DEF Open, AddAgain, loop
<1>5. ASSUME NEW c \in Clients, Mask(c) PROVE BatchInv'
  BY <1>3, <1>5, MaskSet DEF Mask, loop
<1>6. ASSUME NEW c \in Clients, Close(c) PROVE BatchInv'
  BY <1>2, <1>6 DEF Close, loop
<1>7. ASSUME NEW c \in Clients, Handover(c) PROVE BatchInv'
  BY <1>7, Params DEF Handover, loop, BatchInv, TypeOK
<1>8. CASE ReturnDel
  BY <1>2, <1>8 DEF ReturnDel, TypeOK
<1>9. CASE Wait
  BY <1>9 DEF Wait, Ready, Askable, table, BatchInv, TableInv, EntryOK
<1>10. CASE batch' \subseteq batch /\ UNCHANGED <<kind, clients, gone, bare>>
  BY <1>10 DEF BatchInv
<1>11. QED
  BY <1>4, <1>5, <1>6, <1>7, <1>8, <1>9, <1>10
     DEF Next, ClientSteps, ConnectAtOnce, Abandon, Dispatch, Stop, Return,
         Deliver, Skip, Network, vars, table, loop, history

(* Only the owner of a descriptor is called for it, whatever the callbacks *)
(* before it in the batch have closed and reused, but for a failed add()   *)
(* and a close without remove(); a null pointer is called by select alone, *)
(* and only for an entry that was removed in the same dispatch or that was *)
(* never added.                                                            *)
THEOREM OwnerCalled == Spec => CallsOwner
<1> DEFINE Step ==
        /\ calling' \notin {Nobody, calling} =>
               owner[cur'] = calling' \/ cur' \in failed \cup left
        /\ down' # down => ~Epoll /\ \E f \in batch \ batch' : f \in gone \cup bare
<1>1. Init => BatchInv
  BY DEF Init, BatchInv
<1>2. TypeOK /\ TableInv /\ BatchInv /\ [Next]_vars => [Step]_vars
  <2> SUFFICES ASSUME TypeOK, TableInv, BatchInv, [Next]_vars PROVE Step \/ UNCHANGED vars
    OBVIOUS
  <2>1. ASSUME NEW f \in Fds, Deliver(f) PROVE Step
    BY <2>1 DEF Deliver, TableInv, EntryOK
  <2>2. ASSUME NEW f \in Fds, Skip(f) PROVE Step
    <3>1. f \in batch \ batch' /\ Empty(f) /\ calling' = calling
      BY <2>2 DEF Skip, InTurn, TypeOK
    <3>2. ~Epoll => f \in gone \cup bare
      BY <3>1 DEF BatchInv
    <3>3. Epoll => down = FALSE /\ down' = FALSE
      BY <2>2 DEF Skip, TypeOK
    <3>4. QED
      BY <3>1, <3>2, <3>3
  <2>3. CASE calling' \in {Nobody, calling} /\ down' = down
    BY <2>3
  <2>4. QED
    BY <2>1, <2>2, <2>3
       DEF Next, ClientSteps, Open, ConnectAtOnce, AddAgain, Mask, Close, Handover,
           Abandon, Dispatch, Wait, Stop, Return, ReturnDel, Network, loop
<1>3. QED
  BY <1>1, <1>2, TableInvariant, BatchStep, PTL DEF Spec, CallsOwner

-----------------------------------------------------------------------------
(* IoBuffer: the positions stay in the block, no write passes its end, and *)
(* the buffer implements ByteQueue.  Every helper keeps a buffer Good and  *)
(* its Content as it is; the operations then add to the content or take    *)
(* from it.                                                                *)

Buffers == [mem : [Offsets -> Byte \cup {Junk}], posRead : 0..MaxSize,
            posWrite : 0..MaxSize, size : 1..MaxSize]

Good(b) ==
    /\ b \in Buffers
    /\ b.posRead <= b.posWrite
    /\ b.posRead < b.posWrite => b.posWrite <= b.size
    /\ \A i \in Offsets : b.posRead <= i /\ i < b.posWrite => b.mem[i] \in Byte

\* b may be written to
Roomy(b) == b.posWrite <= b.size

Same(b, c) == Content(c) = Content(b)

\* The invariant of the module, in the form the lemmas use.
LEMMA GoodIsInBlock == Good(buf) <=> BufferTypeOK /\ InBlock
<1>. USE IoBufferAssumption DEF Offsets
<1>1. ASSUME buf \in Buffers, buf.posRead <= buf.posWrite,
             buf.posRead < buf.posWrite => buf.posWrite <= buf.size
      PROVE  (\A i \in Offsets : buf.posRead <= i /\ i < buf.posWrite => buf.mem[i] \in Byte)
             <=> (\A i \in 1..Readable(buf) : Content(buf)[i] \in Byte)
  <2>1. Readable(buf) \in Nat
    BY <1>1 DEF Buffers, Readable
  <2>2. \A i \in 1..Readable(buf) : Content(buf)[i] = buf.mem[buf.posRead + i - 1]
    BY <2>1 DEF Content
  <2>3. ASSUME \A i \in 1..Readable(buf) : Content(buf)[i] \in Byte,
               NEW i \in Offsets, buf.posRead <= i, i < buf.posWrite
        PROVE  buf.mem[i] \in Byte
    <3>1. i - buf.posRead + 1 \in 1..Readable(buf)
      BY <1>1, <2>3 DEF Buffers, Readable
    <3>2. buf.posRead + (i - buf.posRead + 1) - 1 = i
      BY <1>1, <2>3 DEF Buffers
    <3>. QED BY <2>2, <2>3, <3>1, <3>2
  <2>4. ASSUME \A i \in Offsets : buf.posRead <= i /\ i < buf.posWrite => buf.mem[i] \in Byte,
               NEW i \in 1..Readable(buf)
        PROVE  Content(buf)[i] \in Byte
    <3>1. /\ buf.posRead + i - 1 \in Offsets
          /\ buf.posRead <= buf.posRead + i - 1 /\ buf.posRead + i - 1 < buf.posWrite
      BY <1>1, <2>4 DEF Buffers, Readable
    <3>. QED BY <2>2, <2>4, <3>1
  <2>. QED BY <2>3, <2>4
<1>. QED BY <1>1 DEF Good, BufferTypeOK, InBlock, Buffers

\* A buffer with other positions, another memory, another size is a buffer.
LEMMA MovedIsBuffer ==
    ASSUME NEW b \in Buffers, NEW m \in [Offsets -> Byte \cup {Junk}],
           NEW r \in 0..MaxSize, NEW w \in 0..MaxSize
    PROVE  [b EXCEPT !.mem = m, !.posRead = r, !.posWrite = w] \in Buffers
BY DEF Buffers

LEMMA ResizedIsBuffer ==
    ASSUME NEW b \in Buffers, NEW s \in 1..MaxSize, NEW r \in 0..MaxSize,
           NEW w \in 0..MaxSize
    PROVE  /\ [b EXCEPT !.size = s] \in Buffers
           /\ [b EXCEPT !.size = s, !.posRead = r, !.posWrite = w] \in Buffers
BY DEF Buffers

\* Moving the readable bytes down keeps them.
LEMMA FlushKeeps ==
    ASSUME NEW b, Good(b)
    PROVE  /\ Good(Flush(b)) /\ Same(b, Flush(b))
           /\ Flush(b).posRead = 0 /\ Flush(b).size = b.size
           /\ Flush(b).posWrite = Readable(b)
           /\ Flush(b).posWrite <= b.posWrite
<1>. USE IoBufferAssumption DEF Offsets, Good, Buffers
<1>1. CASE b.posRead = 0
  BY <1>1 DEF Flush, Same, Readable
<1>2. CASE b.posRead # 0
  <2>. DEFINE f == [b EXCEPT !.mem = MovedDown(b), !.posRead = 0, !.posWrite = Readable(b)]
  <2>1. Flush(b) = f
    BY <1>2 DEF Flush
  <2>2. /\ f.posRead = 0 /\ f.posWrite = Readable(b) /\ f.size = b.size
        /\ f.mem = MovedDown(b) /\ Readable(b) \in 0..MaxSize
        /\ Readable(b) <= b.posWrite
    BY DEF Readable
  <2>3. MovedDown(b) \in [Offsets -> Byte \cup {Junk}]
    BY DEF MovedDown, Readable
  <2>4. \A i \in Offsets : i < Readable(b) => MovedDown(b)[i] = b.mem[b.posRead + i]
                                              /\ b.mem[b.posRead + i] \in Byte
    BY DEF MovedDown, Readable
  <2>5. f \in Buffers
    <3>1. b \in Buffers /\ 0 \in 0..MaxSize
      OBVIOUS
    <3>. QED BY ONLY <2>2, <2>3, <3>1, MovedIsBuffer
  <2>6. Good(f)
    <3>1. f.posRead < f.posWrite => f.posWrite <= f.size
      BY <2>2 DEF Readable
    <3>2. f.posRead <= f.posWrite
      BY <2>2
    <3>3. \A i \in Offsets : f.posRead <= i /\ i < f.posWrite => f.mem[i] \in Byte
      BY <2>2, <2>4
    <3>. HIDE DEF f
    <3>. QED BY ONLY <2>5, <3>1, <3>2, <3>3 DEF Good
  <2>7. Content(f) = Content(b)
    <3>1. Readable(f) = Readable(b)
      BY <2>2 DEF Readable
    <3>2. \A i \in 1..Readable(b) : f.mem[f.posRead + i - 1] = b.mem[b.posRead + i - 1]
      <4>. SUFFICES ASSUME NEW i \in 1..Readable(b)
                    PROVE  f.mem[i - 1] = b.mem[b.posRead + i - 1]
        BY <2>2
      <4>1. i - 1 \in Offsets /\ i - 1 < Readable(b) /\ b.posRead + (i - 1) = b.posRead + i - 1
        BY <2>2
      <4>. QED BY <2>2, <2>4, <4>1
    <3>. QED BY <3>1, <3>2 DEF Content
  <2>. QED BY <2>1, <2>2, <2>6, <2>7 DEF Same
<1>. QED BY <1>1, <1>2

LEMMA HalfBelow == \A n \in Nat \ {0} : n \div 2 \in Nat /\ n \div 2 < n
  BY SMT

\* After the automatic flush there is no position past the end.
LEMMA AutoFlushOpens ==
    ASSUME NEW b, Good(b)
    PROVE  /\ Good(AutoFlush(b)) /\ Same(b, AutoFlush(b)) /\ Roomy(AutoFlush(b))
           /\ AutoFlush(b).size = b.size
<1>0. /\ b.size \in Nat \ {0} /\ b.posRead \in Nat /\ b.posWrite \in Nat
      /\ b.posRead <= b.posWrite
  BY IoBufferAssumption DEF Good, Buffers
<1>1. CASE IsFlush(b)
  <2>1. AutoFlush(b) = Flush(b)
    BY <1>1 DEF AutoFlush
  <2>2. Flush(b).posWrite <= Flush(b).size
    BY FlushKeeps, <1>0 DEF Good, Readable
  <2>. QED BY <2>1, <2>2, FlushKeeps DEF Roomy
<1>2. CASE ~IsFlush(b)
  <2>1. AutoFlush(b) = b
    BY <1>2 DEF AutoFlush
  <2>2. b.posRead < b.size
    BY <1>0, <1>2, HalfBelow DEF IsFlush
  <2>3. b.posWrite <= b.size
    BY <1>0, <2>2 DEF Good
  <2>. QED BY <2>1, <2>3 DEF Same, Roomy
<1>. QED BY <1>1, <1>2

\* Reallocation keeps what is readable when it fits, wherever the block goes.
LEMMA ResizedKeeps ==
    ASSUME NEW b, Good(b), NEW size \in Nat \ {0}, size >= Readable(b),
           NEW c \in Resized(b, size)
    PROVE  Good(c) /\ Same(b, c) /\ (Roomy(b) /\ size >= b.size => Roomy(c))
<1>. USE IoBufferAssumption
<1>. DEFINE p == Compacted(b)
<1>1. /\ Good(p) /\ Same(b, p) /\ p.size = b.size /\ p.posWrite <= b.posWrite
      /\ Readable(p) = Readable(b)
      /\ Readable(p) > 0 => p.posRead = 0
  <2>1. CASE Readable(b) > 0
    BY <2>1, FlushKeeps DEF Compacted, Good, Buffers, Readable
  <2>2. CASE ~(Readable(b) > 0)
    BY <2>2 DEF Compacted, Good, Buffers, Same
  <2>. QED BY <2>1, <2>2
<1>. HIDE DEF p
<1>2. p \in Buffers /\ Readable(p) \in Nat
  BY <1>1 DEF Good, Buffers, Readable
<1>3. CASE size > MaxSize
  <2>1. c = p
    BY <1>3 DEF Resized, p
  <2>. QED BY <1>1, <1>2, <2>1 DEF Roomy, Buffers, Good
<1>4. CASE ~(size > MaxSize)
  <2>0. size \in 1..MaxSize
    BY <1>4
  <2>1. CASE c = [p EXCEPT !.size = size]
    <3>1. c.mem = p.mem /\ c.posRead = p.posRead /\ c.posWrite = p.posWrite /\ c.size = size
          /\ c \in Buffers
      BY <1>2, <2>0, <2>1 DEF Buffers
    <3>2. c.posRead < c.posWrite => c.posWrite <= c.size
      BY <1>1, <1>2, <3>1 DEF Readable, Buffers
    <3>3. Good(c)
      BY <1>1, <3>1, <3>2 DEF Good
    <3>4. Same(b, c)
      BY <1>1, <3>1 DEF Same, Content, Readable
    <3>. QED BY <1>1, <1>2, <3>1, <3>3, <3>4 DEF Roomy, Good, Buffers
  <2>2. CASE c = NewBlock(p, size)
    <3>1. c.mem = p.mem /\ c.posRead = 0 /\ c.posWrite = Readable(p) /\ c.size = size
          /\ c \in Buffers
      <4>1. Readable(p) \in 0..MaxSize /\ 0 \in 0..MaxSize
        BY <1>1, <1>2 DEF Good, Buffers, Readable
      <4>2. c = [p EXCEPT !.size = size, !.posRead = 0, !.posWrite = Readable(p)]
        BY <2>2 DEF NewBlock
      <4>3. c \in Buffers
        BY <1>2, <2>0, <4>1, <4>2, ResizedIsBuffer
      <4>. QED BY <1>2, <4>2, <4>3 DEF Buffers
    <3>2. Good(c)
      <4>1. c.posRead <= c.posWrite
        BY <1>2, <3>1
      <4>2. c.posRead < c.posWrite => c.posWrite <= c.size
        BY <1>1, <3>1
      <4>3. \A i \in Offsets : c.posRead <= i /\ i < c.posWrite => c.mem[i] \in Byte
        <5>. SUFFICES ASSUME NEW i \in Offsets, i < Readable(p) PROVE p.mem[i] \in Byte
          BY <3>1
        <5>1. p.posRead <= i /\ i < p.posWrite
          BY <1>1, <1>2 DEF Readable, Buffers, Offsets
        <5>. QED BY <1>1, <5>1 DEF Good
      <4>. QED BY <3>1, <4>1, <4>2, <4>3 DEF Good
    <3>3. Same(b, c)
      <4>1. CASE Readable(p) > 0
        BY <1>1, <1>2, <3>1, <4>1 DEF Same, Content, Readable, Buffers
      <4>2. CASE Readable(p) = 0
        <5>1. Readable(c) = 0
          BY <3>1, <4>2 DEF Readable
        <5>2. 1..0 = {}
          OBVIOUS
        <5>. QED BY <1>1, <4>2, <5>1, <5>2 DEF Same, Content
      <4>. QED BY <1>2, <4>1, <4>2
    <3>. QED BY <1>1, <3>1, <3>2, <3>3 DEF Roomy
  <2>. QED BY <1>4, <2>1, <2>2 DEF Resized, p
<1>. QED BY <1>3, <1>4

\* The room that grabWrite() asks for is more than there was.
LEMMA RoomGrows ==
    ASSUME NEW b, Good(b), Roomy(b), NEW blen \in Nat, ~(Writeable(b) >= blen)
    PROVE  Room(b, blen) \in Nat \ {0} /\ Room(b, blen) >= b.size
<1>1. b.size \in Nat \ {0} /\ Writeable(b) \in Nat
  BY IoBufferAssumption DEF Good, Buffers, Roomy, Writeable
<1>. DEFINE d == blen - Writeable(b)
            q == d \div Delta
<1>2. d \in Nat
  BY <1>1
<1>. HIDE DEF d
<1>3. q \in Nat
  BY <1>2, IoBufferAssumption
<1>. HIDE DEF q
<1>4. (q + 1) * Delta \in Nat
  BY <1>3, IoBufferAssumption
<1>. QED BY <1>1, <1>4 DEF Room, q, d

LEMMA GrabWriteKeeps ==
    ASSUME NEW b, Good(b), NEW blen \in Nat, NEW c \in GrabWrite(b, blen)
    PROVE  Good(c) /\ Same(b, c) /\ Roomy(c)
<1>. DEFINE a == AutoFlush(b)
<1>1. Good(a) /\ Same(b, a) /\ Roomy(a)
  BY AutoFlushOpens
<1>. HIDE DEF a
<1>2. CASE Writeable(a) >= blen
  BY <1>1, <1>2 DEF GrabWrite, a
<1>3. CASE ~(Writeable(a) >= blen)
  <2>1. c \in Resized(a, Room(a, blen))
    BY <1>3 DEF GrabWrite, a
  <2>2. Room(a, blen) \in Nat \ {0} /\ Room(a, blen) >= a.size
    BY <1>1, <1>3, RoomGrows
  <2>3. Room(a, blen) >= Readable(a)
    BY <1>1, <2>2, IoBufferAssumption DEF Good, Buffers, Roomy, Readable
  <2>. QED BY <1>1, <2>1, <2>2, <2>3, ResizedKeeps DEF Same
<1>. QED BY <1>2, <1>3

\* What the queue may do to its content.
Extends(b, c) ==
    /\ Content(c) \in Seq(Byte)
    /\ Len(Content(c)) >= Len(Content(b))
    /\ SubSeq(Content(c), 1, Len(Content(b))) = Content(b)

LEMMA ContentIsSeq ==
    ASSUME NEW b, Good(b)
    PROVE  /\ Content(b) \in Seq(Byte) /\ Len(Content(b)) = Readable(b)
           /\ Readable(b) \in Nat
           /\ \A i \in 1..Readable(b) : Content(b)[i] = b.mem[b.posRead + i - 1]
<1>1. Readable(b) \in Nat
  BY IoBufferAssumption DEF Good, Buffers, Readable
<1>2. \A i \in 1..Readable(b) : b.mem[b.posRead + i - 1] \in Byte
  <2>. SUFFICES ASSUME NEW i \in 1..Readable(b) PROVE b.mem[b.posRead + i - 1] \in Byte
    OBVIOUS
  <2>1. /\ b.posRead + i - 1 \in Offsets /\ b.posRead <= b.posRead + i - 1
        /\ b.posRead + i - 1 < b.posWrite
    BY <1>1, IoBufferAssumption DEF Good, Buffers, Readable, Offsets
  <2>. QED BY <2>1 DEF Good
<1>. QED BY <1>1, <1>2 DEF Content

LEMMA SameExtends ==
    ASSUME NEW b, Good(b), NEW c, Good(c), Same(b, c)
    PROVE  Extends(b, c)
<1>. DEFINE q == Content(b)
<1>1. Content(c) = q /\ q \in Seq(Byte)
  BY ContentIsSeq DEF Same
<1>. HIDE DEF q
<1>2. SubSeq(q, 1, Len(q)) = q
  BY <1>1
<1>. QED BY <1>1, <1>2 DEF Extends, q

LEMMA StoredExtends ==
    ASSUME NEW b, Good(b), Roomy(b), NEW s \in Seq(Byte), Len(s) <= b.size - b.posWrite
    PROVE  Good(Stored(b, s)) /\ Roomy(Stored(b, s)) /\ Extends(b, Stored(b, s))
<1>. USE IoBufferAssumption
<1>. DEFINE c == Stored(b, s)
            mem == [i \in Offsets |-> IF i >= b.posWrite /\ i < b.posWrite + Len(s)
                                      THEN s[i - b.posWrite + 1] ELSE b.mem[i]]
<1>1. /\ b \in Buffers /\ b.posRead <= b.posWrite /\ b.posWrite <= b.size /\ Len(s) \in Nat
      /\ b.posRead \in Nat /\ b.posWrite \in Nat /\ b.size \in 1..MaxSize
  BY DEF Good, Buffers, Roomy
<1>2. mem \in [Offsets -> Byte \cup {Junk}]
  BY <1>1 DEF Offsets, Buffers
<1>3. /\ c.mem = mem /\ c.posRead = b.posRead /\ c.posWrite = b.posWrite + Len(s)
      /\ c.size = b.size /\ c \in Buffers
  <2>1. b.posWrite + Len(s) \in 0..MaxSize
    BY <1>1
  <2>2. c = [b EXCEPT !.mem = mem, !.posWrite = b.posWrite + Len(s)]
    BY DEF Stored
  <2>. HIDE DEF mem
  <2>3. b \in Buffers
    BY <1>1
  <2>. HIDE DEF c
  <2>. QED BY ONLY <1>2, <2>1, <2>2, <2>3 DEF Buffers
<1>. HIDE DEF c
<1>4. \A i \in Offsets : c.posRead <= i /\ i < c.posWrite => c.mem[i] \in Byte
  BY <1>1, <1>3 DEF Offsets, Good
<1>5. Good(c) /\ Roomy(c)
  BY <1>1, <1>3, <1>4 DEF Good, Roomy
<1>6. Extends(b, c)
  <2>1. /\ Content(c) \in Seq(Byte) /\ Len(Content(c)) = Readable(c)
        /\ \A i \in 1..Readable(c) : Content(c)[i] = c.mem[c.posRead + i - 1]
    BY <1>5, ContentIsSeq
  <2>2. /\ Content(b) \in Seq(Byte) /\ Len(Content(b)) = Readable(b) /\ Readable(b) \in Nat
        /\ \A i \in 1..Readable(b) : Content(b)[i] = b.mem[b.posRead + i - 1]
    BY ContentIsSeq
  <2>3. Readable(c) = Readable(b) + Len(s)
    BY <1>1, <1>3 DEF Readable
  <2>4. \A i \in 1..Readable(b) : Content(c)[i] = Content(b)[i]
    <3>. SUFFICES ASSUME NEW i \in 1..Readable(b) PROVE Content(c)[i] = Content(b)[i]
      OBVIOUS
    <3>1. b.posRead + i - 1 \in Offsets /\ b.posRead + i - 1 < b.posWrite
      BY <1>1, <2>2 DEF Readable, Offsets
    <3>2. c.mem[b.posRead + i - 1] = b.mem[b.posRead + i - 1]
      BY <1>1, <1>3, <3>1
    <3>3. i \in 1..Readable(c)
      BY <1>1, <2>2, <2>3
    <3>. QED BY <1>3, <2>1, <2>2, <3>2, <3>3
  <2>5. SubSeq(Content(c), 1, Len(Content(b))) = Content(b)
    <3>. DEFINE x == Content(c)
                y == Content(b)
    <3>1. x \in Seq(Byte) /\ y \in Seq(Byte) /\ Len(y) <= Len(x)
          /\ \A i \in 1..Len(y) : x[i] = y[i]
      BY <1>1, <2>1, <2>2, <2>3, <2>4
    <3>. HIDE DEF x, y
    <3>2. SubSeq(x, 1, Len(y)) = y
      BY <3>1
    <3>. QED BY <3>2 DEF x, y
  <2>. QED BY <1>1, <2>1, <2>2, <2>3, <2>5 DEF Extends
<1>. QED BY <1>5, <1>6 DEF c

LEMMA TakenReads ==
    ASSUME NEW b, Good(b), NEW n \in 0..Readable(b)
    PROVE  /\ Good(Taken(b, n))
           /\ Content(Taken(b, n)) = SubSeq(Content(b), n + 1, Len(Content(b)))
           /\ Taken(b, n).posWrite = b.posWrite
           /\ Taken(b, n).size = b.size
           /\ Taken(b, n).posRead = b.posRead + n
<1>. USE IoBufferAssumption
<1>. DEFINE c == Taken(b, n)
            mem == [i \in Offsets |-> IF i < b.posRead + n THEN Junk ELSE b.mem[i]]
<1>1. /\ b \in Buffers /\ b.posRead <= b.posWrite /\ b.posRead \in Nat
      /\ b.posWrite \in 0..MaxSize /\ n \in Nat /\ b.posRead + n <= b.posWrite
  BY DEF Good, Buffers, Readable
<1>2. mem \in [Offsets -> Byte \cup {Junk}]
  BY <1>1 DEF Buffers
<1>3. /\ c.mem = mem /\ c.posRead = b.posRead + n /\ c.posWrite = b.posWrite
      /\ c.size = b.size /\ c \in Buffers
  <2>1. b.posRead + n \in 0..MaxSize
    BY <1>1
  <2>2. c = [b EXCEPT !.mem = mem, !.posRead = b.posRead + n]
    BY DEF Taken
  <2>. HIDE DEF mem
  <2>3. b \in Buffers
    BY <1>1
  <2>. HIDE DEF c
  <2>. QED BY ONLY <1>2, <2>1, <2>2, <2>3 DEF Buffers
<1>. HIDE DEF c, mem
<1>4. Good(c)
  <2>1. c.posRead < c.posWrite => c.posWrite <= c.size
    BY <1>1, <1>3 DEF Good
  <2>2. \A i \in Offsets : c.posRead <= i /\ i < c.posWrite => c.mem[i] \in Byte
    BY <1>1, <1>3 DEF Good, Offsets, mem
  <2>. QED BY <1>1, <1>3, <2>1, <2>2 DEF Good
<1>5. Content(c) = SubSeq(Content(b), n + 1, Len(Content(b)))
  <2>1. /\ Content(c) \in Seq(Byte) /\ Len(Content(c)) = Readable(c) /\ Readable(c) \in Nat
        /\ \A i \in 1..Readable(c) : Content(c)[i] = c.mem[c.posRead + i - 1]
    BY <1>4, ContentIsSeq
  <2>2. /\ Content(b) \in Seq(Byte) /\ Len(Content(b)) = Readable(b) /\ Readable(b) \in Nat
        /\ \A i \in 1..Readable(b) : Content(b)[i] = b.mem[b.posRead + i - 1]
    BY ContentIsSeq
  <2>3. Readable(c) = Readable(b) - n
    BY <1>1, <1>3 DEF Readable
  <2>4. \A i \in 1..Readable(c) : Content(c)[i] = Content(b)[i + n]
    <3>. SUFFICES ASSUME NEW i \in 1..Readable(c) PROVE Content(c)[i] = Content(b)[i + n]
      OBVIOUS
    <3>0. i \in Nat /\ i >= 1 /\ i <= Readable(b) - n /\ Readable(b) = b.posWrite - b.posRead
      BY <1>1, <2>1, <2>2, <2>3 DEF Readable
    <3>1. /\ i + n \in 1..Readable(b)
          /\ c.posRead + i - 1 = b.posRead + (i + n) - 1
          /\ b.posRead + (i + n) - 1 \in Offsets
          /\ ~(b.posRead + (i + n) - 1 < b.posRead + n)
      <4>1. n \in Nat /\ b.posRead \in Nat /\ b.posWrite \in Nat /\ b.posWrite <= MaxSize
            /\ c.posRead = b.posRead + n
        BY <1>1, <1>3
      <4>. QED BY <3>0, <4>1 DEF Offsets
    <3>2. c.mem[b.posRead + (i + n) - 1] = b.mem[b.posRead + (i + n) - 1]
      <4>1. c.mem[b.posRead + (i + n) - 1] = mem[b.posRead + (i + n) - 1]
        BY <1>3
      <4>. QED BY <3>1, <4>1 DEF mem
    <3>3. Content(b)[i + n] = b.mem[b.posRead + (i + n) - 1]
      BY <2>2, <3>1
    <3>4. Content(c)[i] = c.mem[b.posRead + (i + n) - 1]
      BY <2>1, <3>1
    <3>. QED BY <3>2, <3>3, <3>4
  <2>. DEFINE x == Content(c)
              y == Content(b)
  <2>5. /\ x \in Seq(Byte) /\ y \in Seq(Byte) /\ n \in 0..Len(y)
        /\ Len(x) = Len(y) - n /\ \A i \in 1..Len(x) : x[i] = y[i + n]
    BY <1>1, <2>1, <2>2, <2>3, <2>4
  <2>. HIDE DEF x, y
  <2>6. x = SubSeq(y, n + 1, Len(y))
    <3>1. SubSeq(y, n + 1, Len(y)) \in Seq(Byte) /\ Len(SubSeq(y, n + 1, Len(y))) = Len(x)
      BY <2>5
    <3>2. \A i \in 1..Len(x) : x[i] = SubSeq(y, n + 1, Len(y))[i]
      BY <2>5, <3>1
    <3>. QED BY <2>5, <3>1, <3>2
  <2>. QED BY <2>6 DEF x, y
<1>. QED BY <1>3, <1>4, <1>5 DEF c
-----------------------------------------------------------------------------
(* One step of the buffer: it stays good, the content changes as that of a  *)
(* queue, and what is written is in the block.                              *)

QueueStep(b, c) ==
    \/ Extends(b, c)
    \/ \E n \in 0..Len(Content(b)) : Content(c) = SubSeq(Content(b), n + 1, Len(Content(b)))
    \/ Content(c) = <<>>

Step(b, c) ==
    /\ Good(c)
    /\ QueueStep(b, c)
    /\ Readable(c) > Readable(b) => c.posWrite <= c.size

LEMMA PiecesAreSeqs ==
    ASSUME NEW m \in Nat, NEW s \in Pieces(m)
    PROVE  s \in Seq(Byte) /\ Len(s) \in Nat
<1>1. PICK k \in 0..m : s \in [1..k -> Byte]
  BY DEF Pieces
<1>. QED BY <1>1

\* An operation that leaves the content alone.
LEMMA SameSteps ==
    ASSUME NEW b, Good(b), NEW c, Good(c), Same(b, c)
    PROVE  Step(b, c)
<1>1. Extends(b, c)
  BY SameExtends
<1>2. Readable(c) = Readable(b) /\ Readable(b) \in Nat
  BY ContentIsSeq DEF Same
<1>. QED BY <1>1, <1>2 DEF Step, QueueStep

\* An operation that makes room and then stores.
LEMMA StoredSteps ==
    ASSUME NEW b, Good(b), NEW a, Good(a), Same(b, a), Roomy(a),
           NEW s \in Seq(Byte), Len(s) <= a.size - a.posWrite
    PROVE  Step(b, Stored(a, s))
<1>1. Good(Stored(a, s)) /\ Roomy(Stored(a, s)) /\ Extends(a, Stored(a, s))
  BY StoredExtends
<1>2. Extends(b, Stored(a, s))
  BY <1>1 DEF Extends, Same
<1>. QED BY <1>1, <1>2 DEF Step, QueueStep, Roomy

LEMMA WriteToBufferSteps ==
    ASSUME Good(buf), WriteToBuffer
    PROVE  Step(buf, buf')
<1>1. PICK s \in Pieces(MaxWrite) : \E b \in GrabWrite(buf, Len(s)) :
          buf' = Stored(b, SubSeq(s, 1, Least(Len(s), Writeable(b))))
  BY DEF WriteToBuffer
<1>2. s \in Seq(Byte) /\ Len(s) \in Nat
  BY IoBufferAssumption, PiecesAreSeqs
<1>3. PICK b \in GrabWrite(buf, Len(s)) :
          buf' = Stored(b, SubSeq(s, 1, Least(Len(s), Writeable(b))))
  BY <1>1
<1>4. Good(b) /\ Same(buf, b) /\ Roomy(b)
  BY <1>2, GrabWriteKeeps
<1>. DEFINE room == b.size - b.posWrite
            n == Least(Len(s), Writeable(b))
<1>5. Writeable(b) = room /\ room \in Nat
  BY <1>4, IoBufferAssumption DEF Good, Buffers, Roomy, Writeable
<1>6. n \in Nat /\ n <= Len(s) /\ n <= room
  BY <1>2, <1>5 DEF Least
<1>. HIDE DEF n
<1>7. SubSeq(s, 1, n) \in Seq(Byte) /\ Len(SubSeq(s, 1, n)) = n
  BY <1>2, <1>6
<1>8. Step(buf, Stored(b, SubSeq(s, 1, n)))
  BY <1>4, <1>6, <1>7, StoredSteps
<1>. QED BY <1>3, <1>8 DEF n

LEMMA WritePacketSteps ==
    ASSUME Good(buf), WritePacket
    PROVE  Step(buf, buf')
<1>1. PICK s \in Pieces(MaxWrite) : \E b \in GrabWrite(buf, Len(s) + 1) :
          buf' = IF Writeable(b) >= Len(s) + 1 THEN Stored(b, s) ELSE b
  BY DEF WritePacket
<1>2. s \in Seq(Byte) /\ Len(s) \in Nat
  BY IoBufferAssumption, PiecesAreSeqs
<1>3. PICK b \in GrabWrite(buf, Len(s) + 1) :
          buf' = IF Writeable(b) >= Len(s) + 1 THEN Stored(b, s) ELSE b
  BY <1>1
<1>4. Good(b) /\ Same(buf, b) /\ Roomy(b)
  BY <1>2, GrabWriteKeeps
<1>5. CASE Writeable(b) >= Len(s) + 1
  <2>1. Len(s) <= b.size - b.posWrite
    BY <1>2, <1>4, <1>5, IoBufferAssumption DEF Good, Buffers, Roomy, Writeable
  <2>2. Step(buf, Stored(b, s))
    BY <1>2, <1>4, <2>1, StoredSteps
  <2>. QED BY <1>3, <1>5, <2>2
<1>6. CASE ~(Writeable(b) >= Len(s) + 1)
  BY <1>3, <1>4, <1>6, SameSteps
<1>. QED BY <1>5, <1>6

LEMMA ReadFromFileSteps ==
    ASSUME Good(buf), ReadFromFile
    PROVE  Step(buf, buf')
<1>1. PICK b \in ReadBlock(buf) : \E s \in Pieces(MaxWrite) :
          Len(s) <= Writeable(b) /\ buf' = Stored(b, s)
  BY DEF ReadFromFile
<1>2. PICK s \in Pieces(MaxWrite) : Len(s) <= Writeable(b) /\ buf' = Stored(b, s)
  BY <1>1
<1>3. s \in Seq(Byte)
  BY IoBufferAssumption, PiecesAreSeqs
<1>. DEFINE a == AutoFlush(buf)
<1>4. Good(a) /\ Same(buf, a) /\ Roomy(a)
  BY AutoFlushOpens
<1>5. b \in ReadBlock(buf) /\ (Writeable(a) # 0 => b = a)
      /\ (Writeable(a) = 0 => b \in Resized(a, a.size + Delta))
  BY DEF ReadBlock, Increase
<1>. HIDE DEF a
<1>6. Good(b) /\ Same(buf, b) /\ Roomy(b)
  <2>1. CASE Writeable(a) # 0
    BY <1>4, <1>5, <2>1
  <2>2. CASE Writeable(a) = 0
    <3>1. a.size + Delta \in Nat \ {0} /\ a.size + Delta >= Readable(a)
          /\ a.size + Delta >= a.size
      BY <1>4, IoBufferAssumption DEF Good, Buffers, Roomy, Readable
    <3>. QED BY <1>4, <1>5, <2>2, <3>1, ResizedKeeps DEF Same
  <2>. QED BY <2>1, <2>2
<1>7. Len(s) <= b.size - b.posWrite
  BY <1>2, <1>6 DEF Roomy, Writeable
<1>. QED BY <1>2, <1>3, <1>6, <1>7, StoredSteps

LEMMA TakenSteps ==
    ASSUME Good(buf), NEW n \in 0..Readable(buf), buf' = Taken(buf, n)
    PROVE  Step(buf, buf')
<1>2. /\ Good(buf')
      /\ Content(buf') = SubSeq(Content(buf), n + 1, Len(Content(buf)))
      /\ buf'.posWrite = buf.posWrite /\ buf'.posRead = buf.posRead + n
  BY TakenReads
<1>3. Len(Content(buf)) = Readable(buf) /\ Readable(buf) \in Nat
  BY ContentIsSeq
<1>4. ~(Readable(buf') > Readable(buf))
  BY <1>2, <1>3, IoBufferAssumption DEF Readable, Good, Buffers
<1>5. QueueStep(buf, buf')
  BY <1>2, <1>3 DEF QueueStep
<1>. QED BY <1>2, <1>4, <1>5 DEF Step

LEMMA ClearSteps ==
    ASSUME Good(buf), Clear
    PROVE  Step(buf, buf')
<1>. DEFINE t == Taken(buf, Readable(buf))
<1>1. Readable(buf) \in Nat
  BY ContentIsSeq
<1>2. Good(t)
  BY <1>1, TakenReads
<1>3. buf' = [t EXCEPT !.posRead = 0, !.posWrite = 0]
  BY DEF Clear
<1>. HIDE DEF t
<1>4. t \in Buffers /\ 0 \in 0..MaxSize
  BY <1>2, IoBufferAssumption DEF Good
<1>5. buf' \in Buffers /\ buf'.posRead = 0 /\ buf'.posWrite = 0
  BY ONLY <1>3, <1>4 DEF Buffers
<1>6. Readable(buf') = 0
  BY <1>5 DEF Readable
<1>7. Good(buf')
  BY <1>5, IoBufferAssumption DEF Good, Offsets
<1>8. Content(buf') = <<>>
  BY <1>6, <1>7, ContentIsSeq
<1>. QED BY <1>1, <1>6, <1>7, <1>8 DEF Step, QueueStep

LEMMA NextSteps ==
    ASSUME Good(buf), BufferNext
    PROVE  Step(buf, buf')
<1>1. CASE WriteToBuffer
  BY <1>1, WriteToBufferSteps
<1>2. CASE WritePacket
  BY <1>2, WritePacketSteps
<1>3. CASE ReadFromFile
  BY <1>3, ReadFromFileSteps
<1>4. CASE Take
  BY <1>4, TakenSteps DEF Take
<1>5. CASE Clear
  BY <1>5, ClearSteps
<1>6. CASE CallFlush
  BY <1>6, FlushKeeps, SameSteps DEF CallFlush
<1>7. CASE Resize
  <2>1. PICK size \in 1..MaxSize : size >= Readable(buf) /\ buf' \in Resized(buf, size)
    BY <1>7 DEF Resize
  <2>2. size \in Nat \ {0}
    BY IoBufferAssumption
  <2>. QED BY <2>1, <2>2, ResizedKeeps, SameSteps
<1>. QED BY <1>1, <1>2, <1>3, <1>4, <1>5, <1>6, <1>7 DEF BufferNext

-----------------------------------------------------------------------------
(* The line functions.  A search obeys one turn of the loop after the      *)
(* other; it goes up in the text, so there is one although it is defined   *)
(* by itself.  It then takes at most two turns before it has passed the    *)
(* only bare LF that a text has.                                           *)

(* A search that goes up and is over at n: there is a function for it.     *)
GoesUp(n, done, nxt) ==
    \A w \in Nat \X Int : w \notin done =>
        w[1] < n /\ nxt[w] \in Nat \X Int /\ w[1] < nxt[w][1]

IsSearch(s, done, ans, nxt) ==
    /\ s = [w \in Nat \X Int |-> s[w]]
    /\ \A w \in Nat \X Int : s[w] = IF w \in done THEN ans[w] ELSE s[nxt[w]]

LEMMA SearchExists ==
    ASSUME NEW n \in Nat, NEW done, NEW ans, NEW nxt, GoesUp(n, done, nxt)
    PROVE  \E s : IsSearch(s, done, ans, nxt)
<1> USE DEF GoesUp
<1> DEFINE Asked(s, w) == IF w \in done THEN ans[w] ELSE s[nxt[w]]
           From(s, k) == \A w \in Nat \X Int : k <= w[1] => s[w] = Asked(s, w)
           bad == {k \in 0..n : \A s : ~From(s, k)}
<1>0. bad \subseteq 0..n /\ \A k \in 0..n : k \notin bad <=> \E s : From(s, k)
  BY Zenon
<1> HIDE DEF bad
<1>1. bad = {}
  <2>1. SUFFICES ASSUME bad # {} PROVE FALSE
    OBVIOUS
  <2>2. PICK k \in bad : \A l \in bad : l <= k
    BY <1>0, <2>1, GreatestNat
  <2>3. n \notin bad
    <3>1. From([w \in Nat \X Int |-> ans[w]], n)
      <4> SUFFICES ASSUME NEW w \in Nat \X Int, n <= w[1]
                   PROVE  ans[w] = Asked([x \in Nat \X Int |-> ans[x]], w)
        BY Zenon
      <4>1. w \in done
        OBVIOUS
      <4>2. QED
        BY <4>1
    <3>2. n \in 0..n
      OBVIOUS
    <3>3. QED
      BY <1>0, <3>1, <3>2, Zenon
  <2>4. k + 1 \in 0..n /\ k + 1 \notin bad /\ k \in 0..n /\ k \in Nat
    <3>1. k \in 0..n /\ k # n
      BY <1>0, <2>2, <2>3
    <3>2. k + 1 \in 0..n /\ k < k + 1
      BY <3>1
    <3>3. k + 1 \notin bad
      BY <2>2, <3>1, <3>2
    <3>4. QED
      BY <3>1, <3>2, <3>3
  <2>5. PICK s : From(s, k + 1)
    BY <1>0, <2>4, Zenon
  <2> DEFINE t == [w \in Nat \X Int |-> IF w[1] = k THEN Asked(s, w) ELSE s[w]]
  <2>6. \A w \in Nat \X Int : k < w[1] => t[w] = s[w]
    OBVIOUS
  <2>7. \A w \in Nat \X Int : w[1] = k => t[w] = Asked(s, w)
    OBVIOUS
  <2> HIDE DEF t
  <2>8. ASSUME NEW w \in Nat \X Int, k <= w[1] PROVE t[w] = Asked(t, w)
    <3>1. w \notin done => t[nxt[w]] = s[nxt[w]]
      BY <2>4, <2>6, <2>8
    <3>2. Asked(t, w) = Asked(s, w)
      BY <3>1
    <3>3. CASE w[1] = k
      BY <2>7, <3>2, <3>3
    <3>4. CASE w[1] # k
      <4>1. k < w[1] /\ k + 1 <= w[1]
        <5>1. w[1] \in Nat /\ k \in Nat
          BY <2>4
        <5>2. QED
          BY <5>1, <2>8, <3>4
      <4>2. t[w] = s[w] /\ s[w] = Asked(s, w)
        BY <2>5, <2>6, <4>1
      <4>3. QED
        BY <3>2, <4>2
    <3>5. QED
      BY <3>3, <3>4
  <2>9. From(t, k)
    BY <2>8
  <2>10. QED
    BY <1>0, <2>2, <2>4, <2>9, Zenon
<1>2. PICK s : From(s, 0)
  <2>1. 0 \in 0..n
    OBVIOUS
  <2>2. QED
    BY <1>0, <1>1, <2>1, Zenon
<1> DEFINE t == [w \in Nat \X Int |-> s[w]]
<1>3. \A w \in Nat \X Int : t[w] = Asked(t, w)
  <2> SUFFICES ASSUME NEW w \in Nat \X Int PROVE t[w] = Asked(t, w)
    OBVIOUS
  <2>1. w[1] >= 0 /\ t[w] = s[w] /\ (w \notin done => t[nxt[w]] = s[nxt[w]])
    OBVIOUS
  <2>2. s[w] = Asked(s, w)
    BY <1>2, <2>1
  <2>3. QED
    BY <2>1, <2>2
<1>4. t = [w \in Nat \X Int |-> t[w]]
  OBVIOUS
<1> HIDE DEF t
<1>5. QED
  BY <1>3, <1>4, Zenon DEF IsSearch

LEMMA HitsType ==
    ASSUME NEW X, NEW text \in Seq(X), NEW p \in Nat, NEW r \in Int
    PROVE  /\ Hits(text, p, r) \subseteq p..Len(text) - 1
           /\ Hits(text, p, r) # {} =>
                  /\ Min(Hits(text, p, r)) \in Hits(text, p, r)
                  /\ \A i \in Hits(text, p, r) : Min(Hits(text, p, r)) <= i
<1>1. Hits(text, p, r) \subseteq p..Len(text) - 1
  BY DEF Hits
<1>2. Hits(text, p, r) \subseteq Nat
  BY <1>1
<1> DEFINE H == Hits(text, p, r)
<1> HIDE DEF H
<1>3. ASSUME H # {}, H \subseteq Nat PROVE Min(H) \in H /\ \A i \in H : Min(H) <= i
  <2>1. \E x \in H : \A y \in H : x <= y
    BY <1>3, LeastNat
  <2>2. QED
    BY <2>1 DEF Min
<1>4. QED
  BY <1>1, <1>2, <1>3 DEF H

(* The searches of getLine() and peekLine() are over: what LineEnd and     *)
(* LineEndIn take is a function that obeys one turn after the other.       *)
Obeys(s, text) == \A p \in Nat, r \in Int : s[<<p, r>>] = LineFrom(s, text, p, r)

LEMMA LineSearch ==
    ASSUME NEW X, NEW text \in Seq(X)
    PROVE  \E s : Obeys(s, text) /\ LineEnd(text) = s[<<0, Len(text)>>]
<1> DEFINE H(w) == Hits(text, w[1], w[2])
           at(w) == IF Min(H(w)) = 0 THEN 1 ELSE Min(H(w))
           over(w) == \/ H(w) = {}
                      \/ Min(H(w)) = 0 /\ at(w) = Len(text)
                      \/ Terminated(text, at(w))
           done == {w \in Nat \X Int : over(w)}
           ans == [w \in Nat \X Int |-> LineFrom(<<>>, text, w[1], w[2])]
           rest(w) == (IF Min(H(w)) = 0 THEN w[2] - 1 ELSE w[2]) - (Min(H(w)) + 1)
           nxt == [w \in Nat \X Int |-> <<at(w) + 1, rest(w)>>]
           Eq(s) == s = [w \in Nat \X Int |-> LineFrom(s, text, w[1], w[2])]
<1>1. ASSUME NEW w \in Nat \X Int, w \notin done
      PROVE  w[1] < Len(text) /\ nxt[w] \in Nat \X Int /\ w[1] < nxt[w][1]
  <2> DEFINE g == Min(H(w))
  <2>1. H(w) # {}
    BY <1>1
  <2>2. g \in w[1]..Len(text) - 1 /\ w[1] \in Nat /\ w[2] \in Int /\ Len(text) \in Nat
    BY <2>1, HitsType
  <2>3. nxt[w] = <<(IF g = 0 THEN 1 ELSE g) + 1,
                   (IF g = 0 THEN w[2] - 1 ELSE w[2]) - (g + 1)>>
    OBVIOUS
  <2> HIDE DEF g, nxt
  <2>4. QED
    BY <2>2, <2>3
<1>2. PICK s : IsSearch(s, done, ans, nxt)
  <2>1. Len(text) \in Nat
    OBVIOUS
  <2>2. GoesUp(Len(text), done, nxt)
    BY <1>1, Zenon DEF GoesUp
  <2> HIDE DEF done, ans, nxt
  <2>3. QED
    BY <2>1, <2>2, SearchExists, Zenon
<1>3. ASSUME NEW p \in Nat, NEW r \in Int PROVE s[<<p, r>>] = LineFrom(s, text, p, r)
  <2> DEFINE w == <<p, r>>
  <2>1. w \in Nat \X Int /\ s[w] = IF w \in done THEN ans[w] ELSE s[nxt[w]]
    BY <1>2 DEF IsSearch
  <2>2. CASE over(w)
    <3>1. s[w] = LineFrom(<<>>, text, p, r)
      BY <2>1, <2>2
    <3>2. QED
      BY <2>2, <3>1 DEF LineFrom
  <2>3. CASE ~over(w)
    <3>1. s[w] = s[<<at(w) + 1, rest(w)>>]
      BY <2>1, <2>3
    <3>2. QED
      BY <2>3, <3>1 DEF LineFrom
  <2>4. QED
    BY <2>2, <2>3
<1>4. Eq(s)
  <2> HIDE DEF done, ans, nxt
  <2>1. \A w \in Nat \X Int : s[w] = LineFrom(s, text, w[1], w[2])
    <3> SUFFICES ASSUME NEW w \in Nat \X Int PROVE s[w] = LineFrom(s, text, w[1], w[2])
      OBVIOUS
    <3>1. PICK p \in Nat, r \in Int : w = <<p, r>>
      OBVIOUS
    <3>2. QED
      BY <1>3, <3>1
  <2>2. s = [w \in Nat \X Int |-> s[w]]
    BY <1>2 DEF IsSearch
  <2>3. QED
    BY <2>1, <2>2
<1>5. \E x : Eq(x)
  BY <1>4
<1> DEFINE c == CHOOSE x : Eq(x)
<1>6. Eq(c)
  BY <1>5
<1>7. LineEnd(text) = c[<<0, Len(text)>>]
  BY DEF LineEnd
<1> HIDE DEF c
<1>8. Obeys(c, text)
  BY <1>6 DEF Obeys
<1>9. QED
  BY <1>7, <1>8

ObeysIn(s, text, blen) ==
    \A p \in Nat, r \in Int : s[<<p, r>>] = LineFromIn(s, text, blen, p, r)

LEMMA LineSearchIn ==
    ASSUME NEW X, NEW text \in Seq(X), NEW blen \in Nat
    PROVE  \E s : ObeysIn(s, text, blen) /\ LineEndIn(text, blen) = s[<<0, Len(text)>>]
<1> DEFINE H(w) == Hits(text, w[1], w[2])
           gap(w) == Min(H(w)) - 1
           over(w) == \/ H(w) = {} \/ gap(w) < 0 \/ gap(w) > blen
                      \/ Terminated(text, gap(w) + 1)
           done == {w \in Nat \X Int : over(w)}
           ans == [w \in Nat \X Int |-> LineFromIn(<<>>, text, blen, w[1], w[2])]
           nxt == [w \in Nat \X Int |-> <<gap(w) + 2, w[2] - (gap(w) + 2)>>]
           Eq(s) == s = [w \in Nat \X Int |-> LineFromIn(s, text, blen, w[1], w[2])]
<1>1. ASSUME NEW w \in Nat \X Int, w \notin done
      PROVE  w[1] < Len(text) /\ nxt[w] \in Nat \X Int /\ w[1] < nxt[w][1]
  <2> DEFINE g == Min(H(w))
  <2>1. H(w) # {}
    BY <1>1
  <2>2. g \in w[1]..Len(text) - 1 /\ w[1] \in Nat /\ w[2] \in Int /\ Len(text) \in Nat
    BY <2>1, HitsType
  <2>3. nxt[w] = <<(g - 1) + 2, w[2] - ((g - 1) + 2)>>
    OBVIOUS
  <2> HIDE DEF g, nxt
  <2>4. QED
    BY <2>2, <2>3
<1>2. PICK s : IsSearch(s, done, ans, nxt)
  <2>1. Len(text) \in Nat
    OBVIOUS
  <2>2. GoesUp(Len(text), done, nxt)
    BY <1>1, Zenon DEF GoesUp
  <2> HIDE DEF done, ans, nxt
  <2>3. QED
    BY <2>1, <2>2, SearchExists, Zenon
<1>3. ASSUME NEW p \in Nat, NEW r \in Int
      PROVE  s[<<p, r>>] = LineFromIn(s, text, blen, p, r)
  <2> DEFINE w == <<p, r>>
  <2>1. w \in Nat \X Int /\ s[w] = IF w \in done THEN ans[w] ELSE s[nxt[w]]
    BY <1>2 DEF IsSearch
  <2>2. CASE over(w)
    <3>1. s[w] = LineFromIn(<<>>, text, blen, p, r)
      BY <2>1, <2>2
    <3>2. QED
      BY <2>2, <3>1 DEF LineFromIn
  <2>3. CASE ~over(w)
    <3>1. s[w] = s[<<gap(w) + 2, r - (gap(w) + 2)>>]
      BY <2>1, <2>3
    <3>2. QED
      BY <2>3, <3>1 DEF LineFromIn
  <2>4. QED
    BY <2>2, <2>3
<1>4. Eq(s)
  <2> HIDE DEF done, ans, nxt
  <2>1. \A w \in Nat \X Int : s[w] = LineFromIn(s, text, blen, w[1], w[2])
    <3> SUFFICES ASSUME NEW w \in Nat \X Int
                 PROVE  s[w] = LineFromIn(s, text, blen, w[1], w[2])
      OBVIOUS
    <3>1. PICK p \in Nat, r \in Int : w = <<p, r>>
      OBVIOUS
    <3>2. QED
      BY <1>3, <3>1
  <2>2. s = [w \in Nat \X Int |-> s[w]]
    BY <1>2 DEF IsSearch
  <2>3. QED
    BY <2>1, <2>2
<1>5. \E x : Eq(x)
  BY <1>4
<1> DEFINE c == CHOOSE x : Eq(x)
<1>6. Eq(c)
  BY <1>5
<1>7. LineEndIn(text, blen) = c[<<0, Len(text)>>]
  BY DEF LineEndIn
<1> HIDE DEF c
<1>8. ObeysIn(c, text, blen)
  BY <1>6 DEF ObeysIn
<1>9. QED
  BY <1>7, <1>8

(* The line that getLine() takes from the buffer lies in it.               *)
LEMMA LineFits ==
    ASSUME NEW X, NEW text \in Seq(X), CR # LF
    PROVE  LineEnd(text) >= 0 => LineEnd(text) \in Nat /\ LineEnd(text) + 2 <= Len(text)
<1> DEFINE InText(x) == x \in {NoLine, Overrun} \/ (x \in Nat /\ x + 2 <= Len(text))
<1>1. PICK s : Obeys(s, text) /\ LineEnd(text) = s[<<0, Len(text)>>]
  BY LineSearch
<1>2. Len(text) \in Nat
  OBVIOUS
<1>3. ASSUME NEW p \in Nat, NEW r \in Int
      PROVE  \/ InText(s[<<p, r>>])
             \/ \E q \in p + 1..Len(text), t \in Int : s[<<p, r>>] = s[<<q, t>>]
  <2> DEFINE H == Hits(text, p, r)
             g == Min(H)
  <2>1. s[<<p, r>>] = LineFrom(s, text, p, r)
    BY <1>1 DEF Obeys
  <2>2. CASE H = {}
    BY <2>1, <2>2 DEF LineFrom
  <2>3. CASE H # {}
    <3>1. g \in p..Len(text) - 1 /\ g \in H
      BY <2>3, HitsType
    <3>2. text[g + 1] = LF
      BY <3>1 DEF Hits
    <3>3. CASE g = 0
      <4>1. ~Terminated(text, 1)
        BY <3>2, <3>3 DEF Terminated
      <4>2. \/ s[<<p, r>>] = NoLine
            \/ 1 # Len(text) /\ s[<<p, r>>] = s[<<1 + 1, (r - 1) - (g + 1)>>]
        BY <2>1, <2>3, <3>3, <4>1 DEF LineFrom
      <4> HIDE DEF g, H
      <4>3. p = 0 /\ 1 <= Len(text)
        BY <1>2, <3>1, <3>3
      <4>4. (r - 1) - (g + 1) \in Int
        BY <3>3
      <4>5. 1 # Len(text) => 1 + 1 \in p + 1..Len(text)
        BY <1>2, <4>3
      <4>6. InText(NoLine)
        OBVIOUS
      <4>7. QED
        BY <4>2, <4>4, <4>5, <4>6
    <3>4. CASE g # 0
      <4>1. \/ s[<<p, r>>] = g - 1
            \/ s[<<p, r>>] = s[<<g + 1, r - (g + 1)>>]
        BY <2>1, <2>3, <3>4 DEF LineFrom
      <4> HIDE DEF g, H
      <4>2. g + 1 \in p + 1..Len(text) /\ r - (g + 1) \in Int /\ g - 1 \in Nat
            /\ (g - 1) + 2 <= Len(text)
        BY <1>2, <3>1, <3>4
      <4>3. QED
        BY <4>1, <4>2
    <3>5. QED
      BY <3>3, <3>4
  <2>4. QED
    BY <2>2, <2>3
<1> HIDE DEF InText
<1> DEFINE bad == {p \in 0..Len(text) : \E r \in Int : ~InText(s[<<p, r>>])}
<1>4. bad = {}
  <2>1. SUFFICES ASSUME bad # {} PROVE FALSE
    OBVIOUS
  <2>2. PICK p \in bad : \A q \in bad : q <= p
    BY <1>2, <2>1, GreatestNat
  <2>3. PICK r \in Int : p \in 0..Len(text) /\ ~InText(s[<<p, r>>])
    OBVIOUS
  <2>4. PICK q \in p + 1..Len(text), t \in Int : s[<<p, r>>] = s[<<q, t>>]
    <3>1. p \in Nat
      BY <2>3
    <3>2. QED
      BY <1>3, <2>3, <3>1, Zenon
  <2>5. q \in 0..Len(text) /\ ~(q <= p)
    BY <1>2, <2>3
  <2>6. q \in bad
    BY <2>3, <2>4, <2>5
  <2>7. QED
    BY <2>2, <2>5, <2>6
<1>5. InText(LineEnd(text))
  <2>1. 0 \in 0..Len(text) /\ Len(text) \in Int
    BY <1>2
  <2>2. QED
    BY <1>1, <1>4, <2>1
<1>6. QED
  BY <1>5 DEF InText, NoLine, Overrun

(* The first LF at p or behind, when no line ended before p: it ends the   *)
(* first line, or is bare.                                                 *)
CRAt(text, g) == g > 0 /\ text[g] = CR

LEMMA LineMin ==
    ASSUME NEW X, NEW text \in Seq(X), CRLFs(text) # {}
    PROVE  Min(CRLFs(text)) \in CRLFs(text) /\ \A i \in CRLFs(text) : Min(CRLFs(text)) <= i
<1>1. CRLFs(text) \subseteq Nat
  BY DEF CRLFs
<1>2. \E x \in CRLFs(text) : \A y \in CRLFs(text) : x <= y
  BY <1>1, LeastNat
<1>3. QED
  BY <1>2 DEF Min

LEMMA NextLF ==
    ASSUME NEW X, NEW text \in Seq(X), CR # LF, NEW p \in 0..Len(text),
           \A i \in CRLFs(text) : i + 1 > p,
           NEW H, H = Hits(text, p, Len(text) - p)
    PROVE  /\ H = {} => CRLFs(text) = {}
           /\ H # {} =>
                  /\ Min(H) \in p..Len(text) - 1 /\ text[Min(H) + 1] = LF
                  /\ CRAt(text, Min(H)) =>
                         FirstLine(text) = Min(H) - 1 /\ \A b \in BareLFs(text) : b <= p
                  /\ ~CRAt(text, Min(H)) =>
                         Min(H) + 1 \in BareLFs(text) /\ \A i \in CRLFs(text) : i > Min(H) + 1
<1>1. p \in Nat /\ Len(text) \in Nat /\ Len(text) - p \in Nat
  OBVIOUS
<1>2. \A i \in Nat : i \in H <=> p <= i /\ i < Len(text) /\ text[i + 1] = LF
  BY <1>1 DEF Hits
<1>3. \A i \in CRLFs(text) :
          i \in Nat /\ i >= 1 /\ i < Len(text) /\ text[i] = CR /\ text[i + 1] = LF /\ i >= p
  BY <1>1 DEF CRLFs
<1>4. CRLFs(text) \subseteq H
  BY <1>2, <1>3
<1>5. SUFFICES ASSUME H # {}
               PROVE  /\ Min(H) \in p..Len(text) - 1 /\ text[Min(H) + 1] = LF
                      /\ CRAt(text, Min(H)) =>
                           FirstLine(text) = Min(H) - 1 /\ \A b \in BareLFs(text) : b <= p
                      /\ ~CRAt(text, Min(H)) =>
                           Min(H) + 1 \in BareLFs(text) /\ \A i \in CRLFs(text) : i > Min(H) + 1
  BY <1>4
<1>6. PICK g : g = Min(H)
  OBVIOUS
<1>7. /\ g \in p..Len(text) - 1 /\ g \in Nat /\ g \in H
      /\ \A i \in H : g <= i
  BY <1>1, <1>5, <1>6, HitsType
<1>8. text[g + 1] = LF /\ g < Len(text) /\ p <= g
  BY <1>1, <1>2, <1>7
<1>9. \A b \in BareLFs(text) :
          /\ b \in 1..Len(text) /\ text[b] = LF /\ (b = 1 \/ text[b - 1] # CR)
          /\ CRLFs(text) # {} => b < Min(CRLFs(text))
  BY DEF BareLFs
<1>10. ASSUME CRAt(text, g)
       PROVE  FirstLine(text) = g - 1 /\ \A b \in BareLFs(text) : b <= p
  <2>1. g \in CRLFs(text)
    BY <1>1, <1>7, <1>8, <1>10 DEF CRAt, CRLFs
  <2>2. Min(CRLFs(text)) = g
    <3>1. PICK m : m = Min(CRLFs(text))
      OBVIOUS
    <3>2. m \in CRLFs(text) /\ m <= g
      BY <2>1, <3>1, LineMin
    <3>3. m \in Nat /\ g <= m
      BY <1>3, <1>4, <1>7, <3>2
    <3>4. QED
      BY <1>7, <3>1, <3>2, <3>3
  <2>3. FirstLine(text) = g - 1
    BY <2>1, <2>2 DEF FirstLine
  <2>4. ASSUME NEW b \in BareLFs(text), ~(b <= p) PROVE FALSE
    <3>1. b \in Nat /\ b >= 1 /\ b <= Len(text) /\ text[b] = LF /\ b < g
      BY <1>1, <1>9, <2>1, <2>2
    <3>2. b - 1 \in Nat /\ p <= b - 1 /\ b - 1 < Len(text) /\ (b - 1) + 1 = b
      BY <1>1, <2>4, <3>1
    <3>3. b - 1 \in H
      BY <1>2, <3>1, <3>2
    <3>4. QED
      BY <1>7, <3>1, <3>3
  <2>5. QED
    BY <2>3, <2>4
<1>11. ASSUME ~CRAt(text, g)
       PROVE  g + 1 \in BareLFs(text) /\ \A i \in CRLFs(text) : i > g + 1
  <2>1. ASSUME NEW i \in CRLFs(text) PROVE i > g + 1
    <3>1. i \in Nat /\ i >= 1 /\ text[i] = CR /\ g <= i
      BY <1>3, <1>4, <1>7
    <3>2. i # g
      BY <1>11, <3>1 DEF CRAt
    <3>3. i # g + 1
      BY <1>8, <3>1
    <3>4. QED
      BY <1>7, <3>1, <3>2, <3>3
  <2>2. CRLFs(text) # {} => g + 1 < Min(CRLFs(text))
    BY <1>3, <1>7, <2>1, LineMin
  <2>3. g + 1 \in 1..Len(text) /\ (g + 1 = 1 \/ text[g] # CR) /\ (g + 1) - 1 = g
    BY <1>1, <1>7, <1>8, <1>11 DEF CRAt
  <2>4. QED
    BY <1>8, <2>1, <2>2, <2>3 DEF BareLFs
<1>12. QED
  BY <1>6, <1>7, <1>8, <1>10, <1>11

LEMMA OneBare ==
    ASSUME NEW X, NEW text \in Seq(X), Cardinality(BareLFs(text)) <= 1,
           NEW x \in BareLFs(text), NEW y \in BareLFs(text)
    PROVE  x = y
<1>1. IsFiniteSet(1..Len(text))
  BY FS_Interval
<1>2. IsFiniteSet(BareLFs(text))
  BY <1>1, FS_Subset DEF BareLFs
<1>3. SUFFICES ASSUME x # y PROVE FALSE
  OBVIOUS
<1>4. IsFiniteSet({x}) /\ Cardinality({x}) = 1
  BY FS_Singleton
<1>5. Cardinality({x} \cup {y}) = 2
  <2>1. y \notin {x}
    BY <1>3
  <2>2. Cardinality({x} \cup {y}) = Cardinality({x}) + 1
    BY <1>4, <2>1, FS_AddElement
  <2>3. Cardinality({x} \cup {y}) = 1 + 1
    BY <1>4, <2>2, Zenon
  <2>4. QED
    BY <2>3
<1>6. Cardinality({x} \cup {y}) <= Cardinality(BareLFs(text)) /\ Cardinality(BareLFs(text)) \in Nat
  BY <1>2, FS_Subset, FS_CardinalityType
<1> DEFINE card == Cardinality(BareLFs(text))
<1>7. 2 <= card /\ card <= 1 /\ card \in Nat
  BY <1>5, <1>6, Zenon
<1> HIDE DEF card
<1>8. QED
  BY <1>7

(* What a search finds at p, when every bare LF has been passed.           *)
LEMMA RestFound ==
    ASSUME NEW X, NEW text \in Seq(X), CR # LF, NEW p \in 1..Len(text),
           \A i \in CRLFs(text) : i + 1 > p, \A b \in BareLFs(text) : b <= p
    PROVE  /\ \A s : Obeys(s, text) => s[<<p, Len(text) - p>>] = FirstLine(text)
           /\ \A s : \A blen \in Nat : ObeysIn(s, text, blen) =>
                  s[<<p, Len(text) - p>>] =
                      IF FirstLine(text) <= blen THEN FirstLine(text) ELSE NoLine
<1>1. PICK H : H = Hits(text, p, Len(text) - p)
  OBVIOUS
<1>2. /\ p \in 0..Len(text) /\ p \in Nat /\ Len(text) - p \in Int /\ ~(Len(text) - p < 0)
      /\ ~(p + (Len(text) - p) > Len(text)) /\ p >= 1
  OBVIOUS
<1>3. CASE H = {}
  <2>1. FirstLine(text) = NoLine
    BY <1>1, <1>2, <1>3, NextLF DEF FirstLine
  <2>2. ASSUME NEW s, Obeys(s, text) PROVE s[<<p, Len(text) - p>>] = NoLine
    BY <1>1, <1>2, <1>3, <2>2 DEF Obeys, LineFrom
  <2>3. ASSUME NEW s, NEW blen \in Nat, ObeysIn(s, text, blen)
        PROVE  s[<<p, Len(text) - p>>] = NoLine
    BY <1>1, <1>2, <1>3, <2>3 DEF ObeysIn, LineFromIn
  <2>4. QED
    BY <2>1, <2>2, <2>3
<1>4. CASE H # {}
  <2>1. PICK g : g = Min(H)
    OBVIOUS
  <2>2. /\ g \in p..Len(text) - 1
        /\ CRAt(text, g) => FirstLine(text) = g - 1
        /\ ~CRAt(text, g) => g + 1 \in BareLFs(text)
    BY <1>1, <1>2, <1>4, <2>1, NextLF
  <2>3. g \in Nat /\ g >= p /\ g > 0 /\ ~(g = 0)
    BY <1>2, <2>2
  <2>4. CRAt(text, g) /\ FirstLine(text) = g - 1
    BY <1>2, <2>2, <2>3
  <2>5. Terminated(text, g) /\ (g - 1) + 1 = g /\ g - 1 >= 0
    BY <2>3, <2>4 DEF Terminated, CRAt
  <2>6. ASSUME NEW s, Obeys(s, text) PROVE s[<<p, Len(text) - p>>] = g - 1
    <3>1. s[<<p, Len(text) - p>>] = LineFrom(s, text, p, Len(text) - p)
      BY <1>2, <2>6 DEF Obeys
    <3>2. QED
      BY <1>1, <1>4, <2>1, <2>3, <2>5, <3>1 DEF LineFrom
  <2>7. ASSUME NEW s, NEW blen \in Nat, ObeysIn(s, text, blen)
        PROVE  s[<<p, Len(text) - p>>] = IF g - 1 <= blen THEN g - 1 ELSE NoLine
    <3>1. s[<<p, Len(text) - p>>] = LineFromIn(s, text, blen, p, Len(text) - p)
      BY <1>2, <2>7 DEF ObeysIn
    <3>2. QED
      BY <1>1, <1>4, <2>1, <2>3, <2>5, <3>1 DEF LineFromIn
  <2>8. QED
    BY <2>4, <2>6, <2>7
<1>5. QED
  BY <1>3, <1>4

LEMMA LineFound ==
    ASSUME NEW X, NEW text \in Seq(X), CR # LF, Cardinality(BareLFs(text)) <= 1
    PROVE  LineEnd(text) = FirstLine(text)
<1>1. PICK s : Obeys(s, text) /\ LineEnd(text) = s[<<0, Len(text)>>]
  BY LineSearch
<1>2. PICK H : H = Hits(text, 0, Len(text) - 0)
  OBVIOUS
<1>3. /\ 0 \in 0..Len(text) /\ Len(text) - 0 = Len(text) /\ Len(text) \in Nat
      /\ \A i \in CRLFs(text) : i \in Nat /\ i >= 1 /\ i < Len(text) /\ text[i] = CR /\ i + 1 > 0
  BY DEF CRLFs
<1>4. LineEnd(text) = LineFrom(s, text, 0, Len(text)) /\ H = Hits(text, 0, Len(text))
  BY <1>1, <1>2, <1>3 DEF Obeys
<1>5. CASE H = {}
  <2>1. FirstLine(text) = NoLine
    BY <1>2, <1>3, <1>5, NextLF DEF FirstLine
  <2>2. QED
    BY <1>3, <1>4, <1>5, <2>1 DEF LineFrom
<1>6. CASE H # {}
  <2>1. PICK g : g = Min(H)
    OBVIOUS
  <2>2. /\ g \in 0..Len(text) - 1 /\ text[g + 1] = LF
        /\ CRAt(text, g) => FirstLine(text) = g - 1
        /\ ~CRAt(text, g) => g + 1 \in BareLFs(text) /\ \A i \in CRLFs(text) : i > g + 1
    BY <1>2, <1>3, <1>6, <2>1, NextLF
  <2>3. CASE CRAt(text, g)
    <3>1. g # 0 /\ Terminated(text, g)
      BY <2>2, <2>3 DEF CRAt, Terminated
    <3>2. LineEnd(text) = g - 1
      BY <1>4, <1>6, <2>1, <3>1 DEF LineFrom
    <3>3. QED
      BY <2>2, <2>3, <3>2
  <2>4. CASE ~CRAt(text, g)
    <3>1. \A b \in BareLFs(text) : b = g + 1
      BY <2>2, <2>4, OneBare
    <3>2. CASE g = 0
      <4>1. ~Terminated(text, 1)
        BY <2>2, <3>2 DEF Terminated
      <4>2. CASE Len(text) = 1
        <5>1. CRLFs(text) = {}
          BY <1>3, <4>2
        <5>2. LineEnd(text) = NoLine
          BY <1>4, <1>6, <2>1, <3>2, <4>2 DEF LineFrom
        <5>3. QED
          BY <5>1, <5>2 DEF FirstLine
      <4>3. CASE Len(text) # 1
        <5>1. LineEnd(text) = s[<<1 + 1, (Len(text) - 1) - (0 + 1)>>]
          BY <1>4, <1>6, <2>1, <3>2, <4>1, <4>3 DEF LineFrom
        <5>2. 1 + 1 = 2 /\ (Len(text) - 1) - (0 + 1) = Len(text) - 2 /\ 2 \in 1..Len(text)
          BY <1>3, <2>2, <3>2, <4>3
        <5>3. (\A i \in CRLFs(text) : i + 1 > 2) /\ \A b \in BareLFs(text) : b <= 2
          BY <1>3, <2>2, <2>4, <3>1, <3>2
        <5>4. QED
          BY <1>1, <5>1, <5>2, <5>3, RestFound
      <4>4. QED
        BY <4>2, <4>3
    <3>3. CASE g # 0
      <4>1. ~Terminated(text, g)
        BY <2>2, <2>4, <3>3 DEF Terminated, CRAt
      <4>2. LineEnd(text) = s[<<g + 1, Len(text) - (g + 1)>>]
        BY <1>4, <1>6, <2>1, <3>3, <4>1 DEF LineFrom
      <4>3. /\ g + 1 \in 1..Len(text) /\ \A i \in CRLFs(text) : i + 1 > g + 1
            /\ \A b \in BareLFs(text) : b <= g + 1
        BY <1>3, <2>2, <2>4, <3>1
      <4>4. QED
        BY <1>1, <4>2, <4>3, RestFound
    <3>4. QED
      BY <3>2, <3>3
  <2>5. QED
    BY <2>3, <2>4
<1>7. QED
  BY <1>5, <1>6

LEMMA LineInFound ==
    ASSUME NEW X, NEW text \in Seq(X), CR # LF, Cardinality(BareLFs(text)) <= 1,
           1 \notin BareLFs(text), NEW blen \in Nat
    PROVE  LineEndIn(text, blen) =
               IF FirstLine(text) <= blen /\ \A i \in BareLFs(text) : i - 2 <= blen
               THEN FirstLine(text) ELSE NoLine
<1>1. PICK s : ObeysIn(s, text, blen) /\ LineEndIn(text, blen) = s[<<0, Len(text)>>]
  BY LineSearchIn
<1>2. PICK H : H = Hits(text, 0, Len(text) - 0)
  OBVIOUS
<1>3. 0 \in 0..Len(text) /\ Len(text) - 0 = Len(text) /\ Len(text) \in Nat
      /\ \A i \in CRLFs(text) : i + 1 > 0
  BY DEF CRLFs
<1>4. /\ LineEndIn(text, blen) = LineFromIn(s, text, blen, 0, Len(text))
      /\ H = Hits(text, 0, Len(text))
  BY <1>1, <1>2, <1>3 DEF ObeysIn
<1>5. CASE H = {}
  <2>1. FirstLine(text) = NoLine
    BY <1>2, <1>3, <1>5, NextLF DEF FirstLine
  <2>2. LineEndIn(text, blen) = NoLine
    BY <1>3, <1>4, <1>5 DEF LineFromIn
  <2>3. QED
    BY <2>1, <2>2
<1>6. CASE H # {}
  <2>1. PICK g : g = Min(H)
    OBVIOUS
  <2>2. /\ g \in 0..Len(text) - 1 /\ text[g + 1] = LF
        /\ CRAt(text, g) => FirstLine(text) = g - 1 /\ \A b \in BareLFs(text) : b <= 0
        /\ ~CRAt(text, g) => g + 1 \in BareLFs(text) /\ \A i \in CRLFs(text) : i > g + 1
    BY <1>2, <1>3, <1>6, <2>1, NextLF
  <2>3. g \in Nat /\ g > 0 /\ ~(g - 1 < 0) /\ (g - 1) + 1 = g /\ (g - 1) + 2 = g + 1
    BY <1>3, <2>2 DEF CRAt
  <2>4. CASE CRAt(text, g)
    <3>1. \A b \in BareLFs(text) : FALSE
      BY <2>2, <2>4 DEF BareLFs
    <3>2. Terminated(text, g)
      BY <2>4 DEF Terminated, CRAt
    <3>3. LineEndIn(text, blen) = IF g - 1 > blen THEN NoLine ELSE g - 1
      BY <1>4, <1>6, <2>1, <2>3, <3>2 DEF LineFromIn
    <3>4. QED
      BY <2>2, <2>3, <2>4, <3>1, <3>3
  <2>5. CASE ~CRAt(text, g)
    <3>1. \A b \in BareLFs(text) : b = g + 1
      BY <2>2, <2>5, OneBare
    <3>2. (\A i \in BareLFs(text) : i - 2 <= blen) <=> g - 1 <= blen
      <4>1. (g + 1) - 2 = g - 1
        BY <2>3
      <4>2. QED
        BY <2>2, <2>5, <3>1, <4>1
    <3>3. ~Terminated(text, g)
      BY <2>3, <2>5 DEF Terminated, CRAt
    <3>4. LineEndIn(text, blen) = IF g - 1 > blen THEN NoLine
                                  ELSE s[<<g + 1, Len(text) - (g + 1)>>]
      BY <1>4, <1>6, <2>1, <2>3, <3>3 DEF LineFromIn
    <3>5. /\ g + 1 \in 1..Len(text) /\ \A i \in CRLFs(text) : i + 1 > g + 1
          /\ \A b \in BareLFs(text) : b <= g + 1
      <4>1. \A i \in CRLFs(text) : i \in Nat
        BY DEF CRLFs
      <4>2. QED
        BY <1>3, <2>2, <2>3, <2>5, <3>1, <4>1
    <3>6. s[<<g + 1, Len(text) - (g + 1)>>] =
              IF FirstLine(text) <= blen THEN FirstLine(text) ELSE NoLine
      BY <1>1, <3>5, RestFound
    <3>7. QED
      BY <2>3, <3>2, <3>4, <3>6
  <2>6. QED
    BY <2>4, <2>5
<1>7. QED
  BY <1>5, <1>6

LEMMA GetLineSteps ==
    ASSUME Good(buf), GetLine
    PROVE  Step(buf, buf')
<1> DEFINE n == LineEnd(Content(buf)) + 2
<1>1. Content(buf) \in Seq(Byte) /\ Len(Content(buf)) = Readable(buf) /\ Readable(buf) \in Nat
  BY ContentIsSeq
<1>2. n \in 0..Readable(buf) /\ buf' = Taken(buf, n)
  BY <1>1, LineFits, IoBufferLinesAssumption DEF GetLine
<1> HIDE DEF n
<1>3. QED
  BY <1>1, <1>2, TakenSteps

-----------------------------------------------------------------------------
LEMMA LinesSteps ==
    ASSUME Good(buf), LinesNext
    PROVE  Step(buf, buf')
BY NextSteps, GetLineSteps DEF LinesNext

LEMMA InitGood == BufferInit => Good(buf)
<1>. SUFFICES ASSUME BufferInit PROVE Good(buf)
  OBVIOUS
<1>1. buf \in Buffers /\ buf.posRead = 0 /\ buf.posWrite = 0
  BY IoBufferAssumption DEF BufferInit, Buffers
<1>. QED BY <1>1 DEF Good, Offsets

LEMMA GoodIsInvariant == LinesSpec => []Good(buf)
<1>1. BufferInit => Good(buf)
  BY InitGood
<1>2. Good(buf) /\ [LinesNext]_buf => Good(buf)'
  <2>1. ASSUME Good(buf), LinesNext PROVE Good(buf)'
    BY <2>1, LinesSteps DEF Step
  <2>2. ASSUME Good(buf), UNCHANGED buf PROVE Good(buf)'
    BY <2>2 DEF Good, Buffers, Offsets
  <2>. QED BY <2>1, <2>2
<1>. QED BY <1>1, <1>2, PTL DEF LinesSpec

-----------------------------------------------------------------------------
\* The block and its positions have their types, whatever operations are called.
THEOREM BufferTypeCorrect == LinesSpec => []BufferTypeOK
<1>1. Good(buf) => BufferTypeOK
  BY GoodIsInBlock
<1>. QED BY <1>1, GoodIsInvariant, PTL

\* What is readable was written and lies in the block, also after flush(),
\* increase() and decrease() have moved it.
THEOREM StaysInBlock == LinesSpec => []InBlock
<1>1. Good(buf) => InBlock
  BY GoodIsInBlock
<1>. QED BY <1>1, GoodIsInvariant, PTL

\* No operation writes past the end of the block.
THEOREM WritesStay == LinesSpec => WritesInBlock
<1>1. Good(buf) /\ [LinesNext]_buf
      => [buf'.posWrite - buf'.posRead > Readable(buf) => buf'.posWrite <= buf'.size]_buf
  BY LinesSteps DEF Step, Readable
<1>. QED BY <1>1, GoodIsInvariant, PTL DEF LinesSpec, WritesInBlock

\* The buffer implements the queue of bytes: the operations add behind the
\* content, take from its front, or clear it.
THEOREM Refines == LinesSpec => IsByteQueue
<1>1. BufferInit => Queue!Init
  <2>. SUFFICES ASSUME BufferInit PROVE Content(buf) = <<>>
    BY DEF Queue!Init
  <2>1. buf.posRead = 0 /\ buf.posWrite = 0
    BY DEF BufferInit
  <2>2. Good(buf) /\ Readable(buf) = 0
    BY <2>1, InitGood DEF Readable
  <2>. QED BY <2>2, ContentIsSeq
<1>2. Good(buf) /\ [LinesNext]_buf => [Queue!Next]_(Content(buf))
  <2>1. ASSUME Good(buf), LinesNext PROVE Queue!Next
    <3>1. QueueStep(buf, buf')
      BY <2>1, LinesSteps DEF Step
    <3>2. CASE Extends(buf, buf')
      BY <3>2 DEF Extends, Queue!Next, Queue!Write
    <3>3. CASE \E n \in 0..Len(Content(buf)) :
                 Content(buf') = SubSeq(Content(buf), n + 1, Len(Content(buf)))
      BY <3>3 DEF Queue!Next, Queue!Read
    <3>4. CASE Content(buf') = <<>>
      BY <3>4 DEF Queue!Next, Queue!Clear
    <3>. QED BY <3>1, <3>2, <3>3, <3>4 DEF QueueStep
  <2>2. ASSUME UNCHANGED buf PROVE UNCHANGED Content(buf)
    BY <2>2 DEF Content, Readable
  <2>. QED BY <2>1, <2>2
<1>. QED BY <1>1, <1>2, GoodIsInvariant, PTL DEF LinesSpec, IsByteQueue, Queue!Spec

\* getLine() and peekLine() find the first line that CR LF ends, and none when there
\* is none, in a text with at most one bare LF before it, whatever the text.
THEOREM LinesFound == LinesSpec => []FindsLine
<1>1. Good(buf) => FindsLine
  <2> DEFINE text == Content(buf)
  <2>1. SUFFICES ASSUME Good(buf), Cardinality(BareLFs(text)) <= 1
                 PROVE  /\ LineEnd(text) = FirstLine(text)
                        /\ \A blen \in 0..Len(text) :
                            1 \notin BareLFs(text) =>
                                LineEndIn(text, blen) =
                                    IF FirstLine(text) <= blen
                                       /\ \A i \in BareLFs(text) : i - 2 <= blen
                                    THEN FirstLine(text) ELSE NoLine
    BY DEF FindsLine
  <2>2. text \in Seq(Byte)
    BY <2>1, ContentIsSeq
  <2> HIDE DEF text
  <2>3. CR # LF
    BY IoBufferLinesAssumption
  <2>4. LineEnd(text) = FirstLine(text)
    BY <2>1, <2>2, <2>3, LineFound
  <2>5. ASSUME NEW blen \in 0..Len(text), 1 \notin BareLFs(text)
        PROVE  LineEndIn(text, blen) =
                   IF FirstLine(text) <= blen /\ \A i \in BareLFs(text) : i - 2 <= blen
                   THEN FirstLine(text) ELSE NoLine
    <3>1. blen \in Nat
      OBVIOUS
    <3>2. QED
      BY <2>1, <2>2, <2>3, <2>5, <3>1, LineInFound
  <2>6. QED
    BY <2>4, <2>5
<1>. QED BY <1>1, GoodIsInvariant, PTL
-----------------------------------------------------------------------------
(* HttpChannel: the invariant that the two properties of the reader rest    *)
(* on.  It says, for each state of the reader, what of the text between the *)
(* last packet and Used was taken for what.                                 *)

\* What is in the buffer and on its way is the end of what was sent.
Stream ==
    /\ Len(wire) + Readable(buf) <= Len(sent)
    /\ \A i \in 1..Readable(buf) : Text[i] = sent[Used + i]
    /\ \A i \in 1..Len(wire) : wire[i] = sent[Come + i]

\* Which states go together, whatever the text is.
Control ==
    /\ pc = "read" => conn = "up"
    /\ st \in {"done", "error"} => pc = "read"
    /\ conn = "connecting" => IsClient
    /\ conn = "connecting" \/ (conn = "up" /\ pc = "poll" /\ st = "start") =>
           st = "start" /\ pc = "poll" /\ told = <<>> /\ sent = wire /\ Readable(buf) = 0
    /\ IsClient /\ conn # "freed" => inst # "delete" /\ (told # <<>> => inst # "normal")

\* What the packet is before there is a body, and how much of it.
Filled ==
    /\ st = "first" => pk = Cleared /\ dest = Unknown
    /\ st = "header" => pk.body = <<>>
    /\ st = "body" /\ dest # Unknown => Len(pk.body) < dest

Base == HttpTypeOK /\ Good(buf) /\ Stream /\ Control /\ Filled

NextBegin == Begin(Len(told))

\* in the state HEADER: behind p there is a head that goes on behind h
Heading(s, p, h, n, m) ==
    \E e \in p + 1..h :
        /\ GoodHead(s, p, e, h) /\ NoEmptyLine(s, e, h) /\ s[h] = "nl"
        /\ LengthIs(s, e, h, n) /\ m.first = s[p + 1] /\ HeadersAre(s, e, h, m.headers)

\* in the state BODY: the head is read, and of the body what ends at q
Filling(s, p, q, n, m) ==
    \E e, h \in p + 1..q :
        /\ HeadIs(s, p, e, h, n) /\ PacketIs(s, p, e, h, q, m)
        /\ IF n = Unknown THEN UntilClose(s[p + 1]) ELSE n <= MaxBody

Reading ==
    ~long /\ conn = "up" =>
        /\ st \in {"start", "first"} => Used = NextBegin
        /\ st = "header" => Heading(sent, NextBegin, Used, dest, pk)
        /\ st = "body" => Filling(sent, NextBegin, Used, dest, pk)
        /\ st = "done" => MessageIs(sent, NextBegin, Used, pk)
        /\ st = "error" => IsBad(sent, NextBegin, Come)

\* What the reader waits for has not come.
Waiting ==
    ~long /\ conn = "up" /\ pc = "poll" =>
        /\ st \in {"first", "header"} => \A i \in 1..Readable(buf) : Text[i] # "nl"
        /\ st = "body" => Readable(buf) = 0

\* What was handed on before are the messages up to what was read.
RecordedAt(i) ==
    LET m == told[i].packet IN
    \/ MessageIs(sent, Begin(i - 1), told[i].end, m) /\ told[i].end <= Used
    \/ /\ i = Len(told) /\ conn = "freed"
       /\ m = Error \/ (closed /\ LastMessageIs(sent, Begin(i - 1), Len(sent), m))
Recorded == ~long => \A i \in DOMAIN told : RecordedAt(i)

HttpInv == Base /\ Reading /\ Waiting /\ Recorded

(* The constants of the texts.                                             *)
LEMMA LengthsAre ==
    /\ Lengths = {"len0", "len2", "len3"} /\ BodyLengths = {-1, 0, 2, 3}
    /\ \A x \in Lengths : LengthOf[x] \in {0, 2, 3}
    /\ Symbol = {"nl", "get", "post", "resp", "hdr", "x", "len0", "len2", "len3"}
    /\ Unknown = -1
<1>1. Lengths = {"len0", "len2", "len3"}
  BY DEF Lengths, LengthOf
<1>2. LengthOf["len0"] = 0 /\ LengthOf["len2"] = 2 /\ LengthOf["len3"] = 3
  BY DEF LengthOf
<1>. QED BY <1>1, <1>2 DEF BodyLengths, Symbol, Unknown

LEMMA PacketsAre == Cleared \in Packet /\ Error \in Packet
<1>1. <<>> \in Seq(Seq(Symbol)) /\ <<>> \in Seq(Symbol)
  OBVIOUS
<1>2. Cleared = [first |-> "", headers |-> <<>>, body |-> <<>>]
  BY DEF Cleared
<1>3. Cleared \in Packet
  BY <1>1, <1>2, Zenon DEF Packet
<1>. QED BY <1>3 DEF Error, Packet

LEMMA PacketFields ==
    ASSUME NEW m \in Packet
    PROVE  m.headers \in Seq(Seq(Symbol)) /\ m.body \in Seq(Symbol)
BY DEF Packet

LEMMA PacketChanged ==
    ASSUME NEW m \in Packet, NEW x
    PROVE  /\ [m EXCEPT !.headers = x].first = m.first /\ [m EXCEPT !.headers = x].headers = x
           /\ [m EXCEPT !.body = x].first = m.first /\ [m EXCEPT !.body = x].body = x
           /\ [m EXCEPT !.body = x].headers = m.headers
BY DEF Packet

(* The buffer and the text, in numbers.                                     *)
LEMMA Numbers ==
    ASSUME HttpTypeOK, Good(buf), Stream
    PROVE  /\ Come \in Nat /\ Used \in Nat /\ Readable(buf) \in Nat
           /\ Come = Used + Readable(buf) /\ Come <= Len(sent)
           /\ Text \in Seq(Symbol) /\ Len(Text) = Readable(buf)
           /\ wire \in Seq(Symbol) /\ sent \in Seq(Symbol)
           /\ Len(wire) = Len(sent) - Come
<1>1. Text \in Seq(Symbol) /\ Len(Text) = Readable(buf) /\ Readable(buf) \in Nat
  BY ContentIsSeq, HttpChannelAssumption DEF HttpTypeOK, Text
<1>2. wire \in Seq(Symbol) /\ sent \in Seq(Symbol) /\ Len(wire) \in Nat /\ Len(sent) \in Nat
  BY DEF HttpTypeOK
<1>. QED BY <1>1, <1>2 DEF Stream, Come, Used

(* The end of the first line in a text.                                     *)
LEMMA EolIs ==
    ASSUME NEW text \in Seq(Symbol)
    PROVE  /\ Eol(text) \in 0..Len(text)
           /\ Eol(text) = 0 => \A i \in 1..Len(text) : text[i] # "nl"
           /\ Eol(text) > 0 => /\ text[Eol(text)] = "nl"
                               /\ \A i \in 1..Eol(text) - 1 : text[i] # "nl"
<1> DEFINE ends == {i \in DOMAIN text : text[i] = "nl"}
<1>1. DOMAIN text = 1..Len(text) /\ Len(text) \in Nat /\ ends \subseteq Nat
  OBVIOUS
<1>2. CASE ends = {}
  <2>1. Eol(text) = 0
    BY <1>2 DEF Eol
  <2>. QED BY <1>1, <1>2, <2>1
<1>3. CASE ends # {}
  <2>1. Eol(text) = Min(ends)
    BY <1>3 DEF Eol
  <2>2. \E x \in ends : \A y \in ends : x <= y
    BY <1>1, <1>3, LeastNat
  <2>3. Min(ends) \in ends /\ \A y \in ends : Min(ends) <= y
    BY <2>2 DEF Min
  <2> DEFINE m == Min(ends)
  <2>4. m \in 1..Len(text) /\ text[m] = "nl"
    BY <1>1, <2>3
  <2>5. \A i \in ends : m <= i
    BY <2>3
  <2> HIDE DEF m
  <2>6. \A i \in 1..m - 1 : text[i] # "nl"
    <3> SUFFICES ASSUME NEW i \in 1..m - 1, text[i] = "nl" PROVE FALSE
      OBVIOUS
    <3>1. i \in DOMAIN text /\ ~(m <= i)
      BY <1>1, <2>4
    <3>. QED BY <2>5, <3>1
  <2>7. Eol(text) = m
    BY <2>1 DEF m
  <2>. QED BY <1>1, <2>4, <2>6, <2>7
<1>. QED BY <1>2, <1>3

(* Reading from the buffer leaves the rest of the text, receiving adds to   *)
(* its end.                                                                 *)
LEMMA BufferTakes ==
    ASSUME NEW b, Good(b), NEW n \in 0..Readable(b)
    PROVE  /\ Good(Taken(b, n)) /\ Readable(Taken(b, n)) = Readable(b) - n
           /\ \A i \in 1..Readable(b) - n : Content(Taken(b, n))[i] = Content(b)[n + i]
<1> DEFINE c == Taken(b, n)
           x == Content(b)
           y == Content(c)
<1>1. /\ Good(c) /\ y = SubSeq(x, n + 1, Len(x))
      /\ c.posWrite = b.posWrite /\ c.posRead = b.posRead + n
  BY TakenReads
<1>2. x \in Seq(Byte) /\ Len(x) = Readable(b) /\ Readable(b) \in Nat
  BY ContentIsSeq
<1>3. Readable(c) = Readable(b) - n
  BY <1>1, <1>2 DEF Readable, Good, Buffers
<1> HIDE DEF x, y, c
<1>4. \A i \in 1..Len(x) - n : SubSeq(x, n + 1, Len(x))[i] = x[n + i]
  BY <1>2
<1>. QED BY <1>1, <1>2, <1>3, <1>4 DEF c, x, y

LEMMA BufferStores ==
    ASSUME NEW b, Good(b), Roomy(b), NEW s \in Seq(Byte), Len(s) <= Writeable(b)
    PROVE  /\ Good(Stored(b, s)) /\ Readable(Stored(b, s)) = Readable(b) + Len(s)
           /\ \A i \in 1..Readable(b) : Content(Stored(b, s))[i] = Content(b)[i]
           /\ \A i \in 1..Len(s) : Content(Stored(b, s))[Readable(b) + i] = s[i]
<1> USE IoBufferAssumption
<1> DEFINE c == Stored(b, s)
           mem == [i \in Offsets |-> IF i >= b.posWrite /\ i < b.posWrite + Len(s)
                                     THEN s[i - b.posWrite + 1] ELSE b.mem[i]]
<1>1. /\ b \in Buffers /\ b.posRead <= b.posWrite /\ b.posWrite <= b.size /\ Len(s) \in Nat
      /\ b.posRead \in Nat /\ b.posWrite \in Nat /\ b.size \in 1..MaxSize
      /\ Len(s) <= b.size - b.posWrite
  BY DEF Good, Buffers, Roomy, Writeable
<1>2. Good(c) /\ Extends(b, c)
  BY <1>1, StoredExtends
<1>3. /\ c.mem = mem /\ c.posRead = b.posRead /\ c.posWrite = b.posWrite + Len(s)
  BY <1>1 DEF Buffers, Stored
<1> HIDE DEF c, mem
<1>4. Readable(b) \in Nat /\ Readable(c) = Readable(b) + Len(s)
  BY <1>1, <1>3 DEF Readable
<1>5. /\ Content(c) \in Seq(Byte) /\ Len(Content(c)) = Readable(c)
      /\ \A i \in 1..Readable(c) : Content(c)[i] = c.mem[c.posRead + i - 1]
  BY <1>2, ContentIsSeq
<1>6. /\ Content(b) \in Seq(Byte) /\ Len(Content(b)) = Readable(b)
  BY ContentIsSeq
<1>7. \A i \in 1..Readable(b) : Content(c)[i] = Content(b)[i]
  <2> DEFINE x == Content(c)
             y == Content(b)
  <2>1. x \in Seq(Byte) /\ y \in Seq(Byte) /\ Len(y) <= Len(x) /\ SubSeq(x, 1, Len(y)) = y
    BY <1>1, <1>2, <1>4, <1>5, <1>6 DEF Extends
  <2> HIDE DEF x, y
  <2>2. \A i \in 1..Len(y) : x[i] = y[i]
    <3>1. \A i \in 1..Len(y) : SubSeq(x, 1, Len(y))[i] = x[i]
      BY <2>1
    <3>. QED BY <2>1, <3>1
  <2>. QED BY <1>6, <2>2 DEF x, y
<1>8. \A i \in 1..Len(s) : Content(c)[Readable(b) + i] = s[i]
  <2> SUFFICES ASSUME NEW i \in 1..Len(s) PROVE Content(c)[Readable(b) + i] = s[i]
    OBVIOUS
  <2> DEFINE o == b.posWrite + i - 1
  <2>1. /\ Readable(b) + i \in 1..Readable(c) /\ c.posRead + (Readable(b) + i) - 1 = o
        /\ o \in Offsets /\ o >= b.posWrite /\ o < b.posWrite + Len(s) /\ o - b.posWrite + 1 = i
    <3>1. i \in Nat /\ 1 <= i /\ i <= Len(s) /\ b.posWrite + Len(s) <= MaxSize /\ MaxSize \in Nat
      BY <1>1
    <3>2. Readable(b) = b.posWrite - b.posRead
      BY DEF Readable
    <3> DEFINE r == b.posRead
               w == b.posWrite
               n == Len(s)
    <3>3. /\ r \in Nat /\ w \in Nat /\ n \in Nat /\ r <= w /\ c.posRead = r
          /\ Readable(b) = w - r /\ Readable(c) = w - r + n /\ w + n <= MaxSize /\ o = w + i - 1
          /\ i <= n
      BY <1>1, <1>3, <1>4, <3>1, <3>2
    <3> HIDE DEF r, w, n, o
    <3>4. /\ Readable(b) + i \in 1..Readable(c) /\ c.posRead + (Readable(b) + i) - 1 = o
          /\ o \in 0..MaxSize - 1 /\ o >= w /\ o < w + n /\ o - w + 1 = i
      BY ONLY <3>1, <3>3
    <3>. QED BY <3>4 DEF r, w, n, Offsets
  <2>2. Content(c)[Readable(b) + i] = c.mem[o]
    BY <1>5, <2>1
  <2> HIDE DEF o
  <2>3. mem[o] = s[i]
    BY <2>1 DEF mem
  <2>. QED BY <1>3, <2>2, <2>3
<1>. QED BY <1>2, <1>4, <1>7, <1>8 DEF c

LEMMA ReadBlockKeeps ==
    ASSUME NEW a, Good(a), NEW b \in ReadBlock(a)
    PROVE  Good(b) /\ Roomy(b) /\ Content(b) = Content(a) /\ Readable(b) = Readable(a)
<1> DEFINE f == AutoFlush(a)
<1>1. Good(f) /\ Same(a, f) /\ Roomy(f)
  BY AutoFlushOpens
<1>2. (Writeable(f) # 0 => b = f) /\ (Writeable(f) = 0 => b \in Resized(f, f.size + Delta))
  BY DEF ReadBlock, Increase
<1> HIDE DEF f
<1>3. Good(b) /\ Same(a, b) /\ Roomy(b)
  <2>1. CASE Writeable(f) # 0
    BY <1>1, <1>2, <2>1
  <2>2. CASE Writeable(f) = 0
    <3>1. f.size + Delta \in Nat \ {0} /\ f.size + Delta >= Readable(f)
          /\ f.size + Delta >= f.size
      BY <1>1, IoBufferAssumption DEF Good, Buffers, Roomy, Readable
    <3>. QED BY <1>1, <1>2, <2>2, <3>1, ResizedKeeps DEF Same
  <2>. QED BY <2>1, <2>2
<1>4. Readable(b) = Len(Content(b)) /\ Readable(a) = Len(Content(a))
  BY <1>3, ContentIsSeq
<1>. QED BY <1>3, <1>4 DEF Same

(* One text behind another.                                                *)
LEMMA Joined ==
    ASSUME NEW s \in Seq(Symbol), NEW t \in Seq(Symbol)
    PROVE  /\ s \o t \in Seq(Symbol) /\ Len(s \o t) = Len(s) + Len(t)
           /\ Len(s) \in Nat /\ Len(t) \in Nat
           /\ \A i \in 1..Len(s) : (s \o t)[i] = s[i]
           /\ \A i \in 1..Len(t) : (s \o t)[Len(s) + i] = t[i]
<1>1. /\ s \o t \in Seq(Symbol) /\ Len(s \o t) = Len(s) + Len(t)
      /\ Len(s) \in Nat /\ Len(t) \in Nat
  OBVIOUS
<1>2. \A i \in 1..Len(s) : (s \o t)[i] = s[i]
  OBVIOUS
<1>3. \A i \in 1..Len(t) : (s \o t)[Len(s) + i] = t[i]
  OBVIOUS
<1>. QED BY <1>1, <1>2, <1>3

LEMMA CutOff ==
    ASSUME NEW s \in Seq(Symbol), NEW k \in 0..Len(s)
    PROVE  /\ SubSeq(s, k + 1, Len(s)) \in Seq(Symbol)
           /\ Len(SubSeq(s, k + 1, Len(s))) = Len(s) - k
           /\ \A i \in 1..Len(s) - k : SubSeq(s, k + 1, Len(s))[i] = s[k + i]
<1> DEFINE t == SubSeq(s, k + 1, Len(s))
<1>1. t \in Seq(Symbol) /\ Len(t) = Len(s) - k
  OBVIOUS
<1>2. \A i \in 1..Len(s) - k : t[i] = s[k + i]
  OBVIOUS
<1>. QED BY <1>1, <1>2

-----------------------------------------------------------------------------
(* A step keeps the types, the text and the states together.                *)

(* What is handed on is a packet.                                           *)
LEMMA ToldType ==
    ASSUME HttpTypeOK, Good(buf), Stream, NEW m \in Packet, Told(m)
    PROVE  /\ told' \in Seq([packet : Packet, end : Nat]) /\ Len(told') = Len(told) + 1
           /\ \A i \in 1..Len(told) : told'[i] = told[i]
           /\ told'[Len(told) + 1] = [packet |-> m, end |-> Used]
<1>1. Used \in Nat /\ told \in Seq([packet : Packet, end : Nat])
  BY Numbers DEF HttpTypeOK
<1> DEFINE r == [packet |-> m, end |-> Used]
<1>2. r \in [packet : Packet, end : Nat] /\ told' = Append(told, r)
  BY <1>1 DEF Told
<1> HIDE DEF r
<1>3. /\ told' \in Seq([packet : Packet, end : Nat]) /\ Len(told') = Len(told) + 1
      /\ \A i \in 1..Len(told) : told'[i] = told[i]
      /\ told'[Len(told) + 1] = r
  BY <1>1, <1>2
<1>. QED BY <1>3 DEF r

LEMMA StillText ==
    ASSUME Base, UNCHANGED <<buf, wire, sent>>
    PROVE  /\ Good(buf') /\ Stream' /\ Used' = Used /\ Come' = Come
           /\ Readable(buf') = Readable(buf) /\ Text' = Text
<1>1. buf' = buf /\ wire' = wire /\ sent' = sent
  OBVIOUS
<1>. QED BY <1>1, Zenon DEF Base, Stream, Text, Used, Come

(* n symbols of the buffer are read.                                        *)
LEMMA TakenText ==
    ASSUME Base, NEW n \in 0..Readable(buf), buf' = Taken(buf, n), UNCHANGED <<wire, sent>>
    PROVE  /\ Good(buf') /\ Stream' /\ Used' = Used + n /\ Come' = Come
           /\ Readable(buf') = Readable(buf) - n
<1>1. /\ Good(buf) /\ HttpTypeOK /\ Stream /\ wire' = wire /\ sent' = sent
  BY DEF Base
<1>2. /\ Good(buf') /\ Readable(buf') = Readable(buf) - n
      /\ \A i \in 1..Readable(buf) - n : Content(buf')[i] = Content(buf)[n + i]
  BY <1>1, BufferTakes
<1>3. /\ Come \in Nat /\ Used \in Nat /\ Readable(buf) \in Nat /\ Come = Used + Readable(buf)
      /\ Come <= Len(sent) /\ Len(wire) = Len(sent) - Come
      /\ Len(sent) \in Nat /\ Len(wire) \in Nat
  BY <1>1, Numbers
<1>4. Come' = Come /\ Used' = Used + n
  BY <1>1, <1>2, <1>3 DEF Come, Used
<1>5. \A i \in 1..Readable(buf') : Text'[i] = sent'[Used' + i]
  <2> SUFFICES ASSUME NEW i \in 1..Readable(buf) - n PROVE Text'[i] = sent[Used + n + i]
    BY <1>1, <1>2, <1>4
  <2>1. Text'[i] = Text[n + i]
    BY <1>2 DEF Text
  <2>2. n + i \in 1..Readable(buf) /\ Used + (n + i) = Used + n + i
    BY <1>3
  <2>3. Text[n + i] = sent[Used + (n + i)]
    BY <1>1, <2>2 DEF Stream
  <2>. QED BY <2>1, <2>2, <2>3
<1> DEFINE w == Len(wire)
           l == Len(sent)
           r == Readable(buf)
<1>8. /\ w \in Nat /\ l \in Nat /\ r \in Nat /\ n \in 0..r /\ w = l - Come /\ Come = Used + r
      /\ Come \in Nat /\ Used \in Nat
  BY <1>3
<1>9. Len(wire') = w /\ Len(sent') = l /\ Readable(buf') = r - n
  BY <1>1, <1>2
<1> HIDE DEF w, l, r
<1>10. w + (r - n) <= l
  BY ONLY <1>8
<1>6. Len(wire') + Readable(buf') <= Len(sent')
  BY <1>9, <1>10
<1>7. \A i \in 1..Len(wire') : wire'[i] = sent'[Come' + i]
  BY <1>1, <1>4 DEF Stream
<1>. QED BY <1>2, <1>4, <1>5, <1>6, <1>7 DEF Stream

(* A line is read: it ends at an "nl", the first of the text.               *)
LEMMA LineText ==
    ASSUME Base, Eol(Text) > 0
    PROVE  /\ Eol(Text) \in 1..Readable(buf)
           /\ sent[Used + Eol(Text)] = "nl"
           /\ \A i \in 1..Eol(Text) - 1 : sent[Used + i] # "nl"
           /\ Line \in Seq(Symbol) /\ Len(Line) = Eol(Text) - 1
           /\ \A i \in 1..Eol(Text) - 1 : Line[i] = sent[Used + i]
<1>1. /\ Text \in Seq(Symbol) /\ Len(Text) = Readable(buf) /\ Readable(buf) \in Nat
      /\ \A i \in 1..Readable(buf) : Text[i] = sent[Used + i]
  BY Numbers DEF Base, Stream
<1> DEFINE n == Eol(Text)
<1>2. /\ n \in 1..Readable(buf) /\ Text[n] = "nl" /\ \A i \in 1..n - 1 : Text[i] # "nl"
  BY <1>1, EolIs
<1>3. Line = SubSeq(Text, 1, n - 1)
  BY DEF Line
<1> HIDE DEF n
<1>4. /\ Line \in Seq(Symbol) /\ Len(Line) = n - 1 /\ \A i \in 1..n - 1 : Line[i] = Text[i]
  BY <1>1, <1>2, <1>3
<1>5. \A i \in 1..n : i \in 1..Readable(buf)
  BY <1>1, <1>2
<1>6. \A i \in 1..n - 1 : i \in 1..n
  BY <1>2
<1>7. n \in 1..n
  BY <1>2
<1>. QED BY <1>1, <1>2, <1>4, <1>5, <1>6, <1>7 DEF n

(* What the body still misses is there or is more.                          *)
LEMMA MissingIs ==
    ASSUME Base, st = "body"
    PROVE  /\ Missing \in 0..Readable(buf)
           /\ dest = Unknown => Missing = Readable(buf)
           /\ dest # Unknown => /\ Missing <= dest - Len(pk.body)
                                /\ Missing # Readable(buf) => Missing = dest - Len(pk.body)
<1>1. /\ Len(Text) = Readable(buf) /\ Readable(buf) \in Nat
  BY Numbers DEF Base
<1>2. dest \in {-1, 0, 2, 3} /\ Unknown = -1 /\ pk \in Packet
  BY LengthsAre DEF Base, HttpTypeOK
<1>3. pk.body \in Seq(Symbol)
  BY <1>2 DEF Packet
<1>4. dest # Unknown => Len(pk.body) < dest
  BY DEF Base, Filled
<1> DEFINE n == Len(pk.body)
<1>5. n \in Nat
  BY <1>3
<1>. QED BY <1>1, <1>2, <1>4, <1>5 DEF Missing, Least

(* Steps that leave the text and what was handed on as they are: the clock, *)
(* the caller, the end of the writing.                                      *)
LEMMA QuietBase ==
    ASSUME Base,
           TimePasses \/ AppCancels \/ Connected \/ Write \/ TimedOut \/ GoesOn \/ NoEvent
    PROVE  Base'
<1>1. UNCHANGED <<buf, wire, sent, told, texts, st, dest, pk, closed, long, role>>
  BY DEF TimePasses, AppCancels, Connected, Write, TimedOut, GoesOn, NoEvent, reader, peer
<1>2. Good(buf') /\ Stream' /\ Readable(buf') = Readable(buf)
  BY <1>1, StillText
<1>3. /\ conn' \in {"connecting", "up", "freed"} /\ inst' \in {"normal", "expired", "delete"}
      /\ out' \in BOOLEAN /\ pc' = pc /\ late' \in BOOLEAN
      /\ call' \in {"none", "cancelled", "wait", "check", "answered", "timeout", "undefined"}
  BY Zenon DEF Base, HttpTypeOK, TimePasses, AppCancels, Connected, Write, TimedOut, GoesOn,
     NoEvent, InEvent, EndOfEvent, CancelQuery, Expired, AfterWrite
<1>4. HttpTypeOK'
  BY <1>1, <1>3 DEF Base, HttpTypeOK
<1>5. Filled'
  BY <1>1 DEF Base, Filled
<1>6. /\ pc' = "read" => conn' = "up"
      /\ conn' = "connecting" => conn = "connecting"
      /\ conn' # "freed" => conn # "freed"
      /\ conn' = "up" /\ conn = "connecting" => pc = "poll"
      /\ conn' # "freed" => inst' \in {inst, Expired(inst)}
  BY DEF Base, Control, HttpTypeOK, TimePasses, AppCancels, Connected, Write, TimedOut, GoesOn,
     NoEvent, InEvent, EndOfEvent, CancelQuery, Expired, AfterWrite
<1>7. Control'
  <2> USE DEF Base, Control, IsClient
  <2>1. conn' = "connecting" \/ (conn' = "up" /\ pc' = "poll" /\ st' = "start") =>
            /\ st' = "start" /\ pc' = "poll" /\ told' = <<>> /\ sent' = wire'
            /\ Readable(buf') = 0
    <3>1. conn \in {"connecting", "up", "freed"}
      BY DEF HttpTypeOK
    <3>. QED BY <1>1, <1>2, <1>3, <1>6, <3>1
  <2>2. IsClient' /\ conn' # "freed" => inst' # "delete" /\ (told' # <<>> => inst' # "normal")
    BY <1>1, <1>6 DEF Expired
  <2>3. /\ st' \in {"done", "error"} => pc' = "read"
        /\ conn' = "connecting" => IsClient'
    BY <1>1, <1>3, <1>6
  <2>. QED BY ONLY <1>6, <2>1, <2>2, <2>3 DEF Control
<1>. QED BY <1>2, <1>4, <1>5, <1>7 DEF Base

(* The channel ends by an error or by the close of the peer.                *)
LEMMA EndBase ==
    ASSUME Base, ConnectFails \/ ReadClose \/ Breaks \/ BadPacket
    PROVE  Base'
<1>1. UNCHANGED <<buf, wire, sent, texts, dest, pk, closed, long, role, late, out>>
  BY DEF ConnectFails, ReadClose, Breaks, BadPacket, Pass, peer
<1>2. Good(buf') /\ Stream' /\ Readable(buf') = Readable(buf)
  BY <1>1, StillText
<1>3. /\ conn' = "freed" /\ inst' = "delete" /\ pc' = "poll" /\ st' \in {"start", st}
      /\ call' \in {"none", "cancelled", "wait", "check", "answered", "timeout", "undefined"}
      /\ st \in {"done", "error"} => st' = "start"
  BY DEF Base, HttpTypeOK, Control, ConnectFails, ReadClose, Breaks, BadPacket, InEvent,
     EndOfEvent, Pass
<1>4. \E m \in Packet : Told(m)
  <2>1. ToldOfClose \in Packet
    BY PacketsAre DEF Base, HttpTypeOK, ToldOfClose
  <2>. QED BY <2>1, PacketsAre DEF ConnectFails, ReadClose, Breaks, BadPacket
<1>5. told' \in Seq([packet : Packet, end : Nat])
  BY <1>4, ToldType DEF Base
<1>6. HttpTypeOK'
  BY <1>1, <1>3, <1>5 DEF Base, HttpTypeOK
<1>7. Filled'
  BY <1>1, <1>3 DEF Base, Filled
<1>8. Control'
  <2>1. role \in {"server", "job", "sync"} \/ TRUE
    OBVIOUS
  <2>. QED BY <1>1, <1>3 DEF Base, Control
<1>. QED BY <1>2, <1>6, <1>7, <1>8 DEF Base

(* The peer sends, closes, and what it sent is received.                    *)
LEMMA PeerSendsText ==
    ASSUME Base, PeerSends
    PROVE  /\ Good(buf') /\ Stream' /\ Used' = Used /\ Come' = Come /\ Len(sent) <= Len(sent')
           /\ \A i \in 1..Come : sent'[i] = sent[i]
           /\ sent' \in Seq(Symbol) /\ wire' \in Seq(Symbol)
<1>1. PICK text \in Texts : wire' = wire \o text /\ sent' = sent \o text
  BY DEF PeerSends
<1>2. text \in Seq(Symbol)
  BY HttpChannelAssumption DEF Texts
<1>3. buf' = buf /\ wire \in {<<>>, sent}
  BY DEF PeerSends, reader
<1>4. /\ HttpTypeOK /\ Good(buf) /\ Stream /\ Come \in Nat /\ Used \in Nat /\ Readable(buf) \in Nat
      /\ Come = Used + Readable(buf) /\ Come <= Len(sent)
      /\ wire \in Seq(Symbol) /\ sent \in Seq(Symbol) /\ Len(wire) = Len(sent) - Come
  BY Numbers DEF Base
<1>5. /\ Len(wire') = Len(wire) + Len(text) /\ Len(sent') = Len(sent) + Len(text)
      /\ \A i \in 1..Len(sent) : sent'[i] = sent[i]
      /\ \A i \in 1..Len(text) : sent'[Len(sent) + i] = text[i]
      /\ \A i \in 1..Len(wire) : wire'[i] = wire[i]
      /\ \A i \in 1..Len(text) : wire'[Len(wire) + i] = text[i]
      /\ sent' \in Seq(Symbol) /\ wire' \in Seq(Symbol)
      /\ Len(wire) \in Nat /\ Len(sent) \in Nat /\ Len(text) \in Nat
  <2>1. wire \in Seq(Symbol) /\ sent \in Seq(Symbol)
    BY <1>4
  <2>2. /\ Len(wire') = Len(wire) + Len(text) /\ wire' \in Seq(Symbol)
        /\ \A i \in 1..Len(wire) : wire'[i] = wire[i]
        /\ \A i \in 1..Len(text) : wire'[Len(wire) + i] = text[i]
        /\ Len(wire) \in Nat /\ Len(text) \in Nat
    BY <1>1, <1>2, <2>1, Joined
  <2>3. /\ Len(sent') = Len(sent) + Len(text) /\ sent' \in Seq(Symbol)
        /\ \A i \in 1..Len(sent) : sent'[i] = sent[i]
        /\ \A i \in 1..Len(text) : sent'[Len(sent) + i] = text[i]
        /\ Len(sent) \in Nat
    BY <1>1, <1>2, <2>1, Joined
  <2>. QED BY <2>2, <2>3
<1>6. Come' = Come /\ Used' = Used
  BY <1>2, <1>3, <1>4, <1>5 DEF Come, Used
<1>7. Len(wire') + Readable(buf') <= Len(sent')
  <2> DEFINE w == Len(wire)
             l == Len(sent)
             n == Len(text)
             r == Readable(buf)
  <2>1. /\ w \in Nat /\ l \in Nat /\ n \in Nat /\ r \in Nat /\ w = l - Come
        /\ Come \in Nat /\ Used \in Nat /\ Come = Used + r
    BY <1>4, <1>5
  <2>2. Len(wire') = w + n /\ Len(sent') = l + n /\ Readable(buf') = r
    BY <1>3, <1>5
  <2> HIDE DEF w, l, n, r
  <2>3. w + n + r <= l + n
    BY ONLY <2>1
  <2>. QED BY <2>2, <2>3
<1>8. \A i \in 1..Readable(buf') : Text'[i] = sent'[Used' + i]
  <2> SUFFICES ASSUME NEW i \in 1..Readable(buf) PROVE Text'[i] = sent'[Used + i]
    BY <1>3, <1>6
  <2>1. Text' = Text
    BY <1>3 DEF Text
  <2>2. Used + i \in 1..Len(sent)
    BY <1>4
  <2>. QED BY <1>4, <1>5, <2>1, <2>2 DEF Stream
<1>9. \A i \in 1..Len(wire') : wire'[i] = sent'[Come' + i]
  <2> SUFFICES ASSUME NEW i \in 1..Len(wire') PROVE wire'[i] = sent'[Come + i]
    BY <1>6
  <2>1. CASE i <= Len(wire)
    <3>1. i \in 1..Len(wire) /\ Come + i \in 1..Len(sent)
      BY <1>4, <2>1
    <3>. QED BY <1>4, <1>5, <3>1 DEF Stream
  <2>2. CASE i > Len(wire)
    <3> DEFINE n == Len(text)
               w == Len(wire)
               j == i - w
    <3>0. /\ n \in Nat /\ w \in Nat /\ Len(sent) \in Nat /\ Come \in Nat /\ w = Len(sent) - Come
          /\ i \in 1..w + n /\ i > w
      BY <1>4, <1>5, <2>2
    <3> HIDE DEF n, w
    <3>1. j \in 1..n /\ w + j = i /\ Len(sent) + j = Come + i
      BY ONLY <3>0
    <3> USE DEF n, w
    <3> HIDE DEF j
    <3>2. wire'[Len(wire) + j] = text[j] /\ sent'[Len(sent) + j] = text[j]
      BY <1>5, <3>1
    <3>. QED BY <3>1, <3>2
  <2>. QED BY <1>4, <2>1, <2>2
<1>10. \A i \in 1..Come : sent'[i] = sent[i]
  BY <1>4, <1>5
<1>11. Len(sent) <= Len(sent')
  BY <1>2, <1>4, <1>5
<1>. QED BY <1>3, <1>4, <1>5, <1>6, <1>7, <1>8, <1>9, <1>10, <1>11 DEF Stream

LEMMA PeerClosesText ==
    ASSUME Base, PeerCloses
    PROVE  /\ Good(buf') /\ Stream' /\ Used' = Used /\ Come' = Come
           /\ \A i \in 1..Come : sent'[i] = sent[i]
           /\ sent' \in Seq(Symbol) /\ wire' \in Seq(Symbol)
<1>1. CASE UNCHANGED <<wire, sent>>
  <2>1. UNCHANGED <<buf, wire, sent>>
    BY <1>1 DEF PeerCloses, reader
  <2>2. HttpTypeOK'
    BY <2>1 DEF Base, HttpTypeOK, PeerCloses, reader
  <2>. QED BY <1>1, <2>1, <2>2, StillText DEF HttpTypeOK
<1>2. CASE wire' = <<>> /\ sent' = SubSeq(sent, 1, Come)
  <2>1. buf' = buf
    BY DEF PeerCloses, reader
  <2>2. /\ HttpTypeOK /\ Good(buf) /\ Stream /\ Come \in Nat /\ Used \in Nat
        /\ Readable(buf) \in Nat /\ Come = Used + Readable(buf) /\ Come <= Len(sent)
        /\ sent \in Seq(Symbol)
    BY Numbers DEF Base
  <2>3. /\ Len(wire') = 0 /\ wire' \in Seq(Symbol) /\ Len(sent') = Come /\ sent' \in Seq(Symbol)
        /\ \A i \in 1..Come : sent'[i] = sent[i]
    BY <1>2, <2>2
  <2>4. Come' = Come /\ Used' = Used
    BY <2>1, <2>2, <2>3 DEF Come, Used
  <2>5. \A i \in 1..Readable(buf') : Text'[i] = sent'[Used' + i]
    <3> SUFFICES ASSUME NEW i \in 1..Readable(buf) PROVE Text'[i] = sent'[Used + i]
      BY <2>1, <2>4
    <3>1. Text' = Text /\ Used + i \in 1..Come
      BY <2>1, <2>2 DEF Text
    <3>. QED BY <2>2, <2>3, <3>1 DEF Stream
  <2>. QED BY <2>1, <2>2, <2>3, <2>4, <2>5 DEF Stream
<1>. QED BY <1>1, <1>2 DEF PeerCloses

LEMMA PeerBase ==
    ASSUME Base, PeerSends \/ PeerCloses
    PROVE  Base'
<1>1. UNCHANGED <<conn, inst, out, pc, call, told, st, dest, pk, buf, long, late, role>>
  BY DEF PeerSends, PeerCloses, reader
<1>2. /\ Good(buf') /\ Stream' /\ sent' \in Seq(Symbol) /\ wire' \in Seq(Symbol)
  BY PeerSendsText, PeerClosesText
<1>3. texts' \in Nat /\ closed' \in BOOLEAN
  <2>1. texts \in Nat /\ closed \in BOOLEAN
    BY DEF Base, HttpTypeOK
  <2>2. texts' \in {texts, texts + 1}
    BY DEF PeerSends, PeerCloses
  <2>3. closed' = closed \/ closed' = TRUE
    BY DEF PeerSends, PeerCloses
  <2>4. texts' \in Nat
    BY <2>1, <2>2
  <2>. QED BY <2>1, <2>3, <2>4, Zenon
<1>4. HttpTypeOK'
  BY <1>1, <1>2, <1>3 DEF Base, HttpTypeOK
<1>5. Filled'
  BY <1>1 DEF Base, Filled
<1>6. sent = wire => sent' = wire'
  <2>1. CASE PeerSends
    BY <2>1 DEF PeerSends
  <2>2. CASE UNCHANGED <<wire, sent>>
    BY <2>2
  <2>3. CASE wire' = <<>> /\ sent' = SubSeq(sent, 1, Come)
    <3> SUFFICES ASSUME sent = wire PROVE sent' = <<>>
      BY <2>3
    <3>1. Come = 0 /\ sent \in Seq(Symbol)
      BY DEF Come, Base, HttpTypeOK
    <3>2. SubSeq(sent, 1, 0) = <<>>
      BY <3>1
    <3>. QED BY <2>3, <3>1, <3>2
  <2>. QED BY <2>1, <2>2, <2>3 DEF PeerCloses
<1>7. conn = "up"
  BY DEF PeerSends, PeerCloses
<1>8. Control'
  BY <1>1, <1>6, <1>7 DEF Base, Control, IsClient
<1>. QED BY <1>2, <1>4, <1>5, <1>8 DEF Base

LEMMA EventReadText ==
    ASSUME Base, EventRead
    PROVE  /\ Good(buf') /\ Stream' /\ Used' = Used /\ Come <= Come'
           /\ wire' \in Seq(Symbol)
<1>1. /\ sent' = sent /\ HttpTypeOK /\ Good(buf) /\ Stream
  BY DEF EventRead, Base
<1>2. PICK b \in ReadBlock(buf) : \E k \in 1..Len(wire) :
          /\ k <= Writeable(b)
          /\ buf' = Stored(b, SubSeq(wire, 1, k))
          /\ wire' = SubSeq(wire, k + 1, Len(wire))
  BY DEF EventRead
<1>3. PICK k \in 1..Len(wire) :
          /\ k <= Writeable(b)
          /\ buf' = Stored(b, SubSeq(wire, 1, k))
          /\ wire' = SubSeq(wire, k + 1, Len(wire))
  BY <1>2
<1>4. /\ Come \in Nat /\ Used \in Nat /\ Readable(buf) \in Nat /\ Come = Used + Readable(buf)
      /\ Come <= Len(sent) /\ wire \in Seq(Symbol) /\ sent \in Seq(Symbol)
      /\ Len(wire) = Len(sent) - Come /\ Len(sent) \in Nat /\ Len(wire) \in Nat
  <2>1. wire \in Seq(Symbol) /\ sent \in Seq(Symbol)
    BY <1>1, Numbers
  <2>2. Len(sent) \in Nat /\ Len(wire) \in Nat
    BY <2>1
  <2>. QED BY <1>1, <2>1, <2>2, Numbers
<1> DEFINE s == SubSeq(wire, 1, k)
<1>5. s \in Seq(Symbol) /\ Len(s) = k /\ \A i \in 1..k : s[i] = wire[i]
  BY <1>4
<1>6. /\ wire' \in Seq(Symbol) /\ Len(wire') = Len(wire) - k
      /\ \A i \in 1..Len(wire) - k : wire'[i] = wire[k + i]
  <2>1. k \in 0..Len(wire)
    BY <1>4
  <2>. QED BY <1>3, <1>4, <2>1, CutOff
<1>7. /\ Good(b) /\ Roomy(b) /\ Content(b) = Content(buf) /\ Readable(b) = Readable(buf)
  BY <1>1, ReadBlockKeeps
<1> HIDE DEF s
<1>8. /\ Good(buf') /\ Readable(buf') = Readable(buf) + k
      /\ \A i \in 1..Readable(buf) : Content(buf')[i] = Content(buf)[i]
      /\ \A i \in 1..k : Content(buf')[Readable(buf) + i] = s[i]
  <2>1. buf' = Stored(b, s) /\ s \in Seq(Byte)
    BY <1>3, <1>5, HttpChannelAssumption DEF s
  <2>. QED BY <1>3, <1>5, <1>7, <2>1, BufferStores
<1> DEFINE w == Len(wire)
           l == Len(sent)
           r == Readable(buf)
<1>14. /\ w \in Nat /\ l \in Nat /\ r \in Nat /\ k \in 1..w /\ w = l - Come /\ Come = Used + r
       /\ Come \in Nat /\ Used \in Nat
  BY <1>4
<1>15. /\ Len(wire') = w - k /\ Len(sent') = l /\ Readable(buf') = r + k
       /\ Come' = Len(sent') - Len(wire') /\ Used' = Come' - Readable(buf')
  BY <1>1, <1>6, <1>8 DEF Come, Used
<1> HIDE DEF w, l, r
<1>9. Come' = Come + k /\ Used' = Used
  BY ONLY <1>14, <1>15
<1>10. Len(wire') + Readable(buf') <= Len(sent')
  <2>1. (w - k) + (r + k) <= l
    BY ONLY <1>14
  <2>. QED BY <1>15, <2>1
<1>11. \A i \in 1..Readable(buf') : Text'[i] = sent'[Used' + i]
  <2> SUFFICES ASSUME NEW i \in 1..Readable(buf') PROVE Content(buf')[i] = sent[Used + i]
    BY <1>1, <1>9 DEF Text
  <2>1. CASE i <= Readable(buf)
    <3>1. i \in 1..Readable(buf)
      BY <1>14, <1>15, <2>1 DEF r
    <3>. QED BY <1>1, <1>8, <3>1 DEF Stream, Text
  <2>2. CASE i > Readable(buf)
    <3> DEFINE j == i - Readable(buf)
    <3>1. j \in 1..k /\ Readable(buf) + j = i /\ Come + j = Used + i
      <4>1. i \in 1..r + k /\ i > r
        BY <1>15, <2>2 DEF r
      <4>2. j = i - r
        BY DEF r
      <4> HIDE DEF j
      <4>3. j \in 1..k /\ r + j = i /\ Come + j = Used + i
        BY ONLY <1>14, <4>1, <4>2
      <4>. QED BY <4>3 DEF r
    <3> HIDE DEF j
    <3>2. j \in 1..Len(wire)
      BY <1>4, <3>1
    <3>3. Content(buf')[Readable(buf) + j] = s[j] /\ s[j] = wire[j] /\ wire[j] = sent[Come + j]
      BY <1>1, <1>5, <1>8, <3>1, <3>2 DEF Stream
    <3>. QED BY <3>1, <3>3
  <2>3. i <= Readable(buf) \/ i > Readable(buf)
    <3>1. i \in 1..r + k
      BY <1>15
    <3>2. i <= r \/ i > r
      BY ONLY <1>14, <3>1
    <3>. QED BY <3>2 DEF r
  <2>. QED BY <2>1, <2>2, <2>3
<1>12. \A i \in 1..Len(wire') : wire'[i] = sent'[Come' + i]
  <2> SUFFICES ASSUME NEW i \in 1..Len(wire) - k PROVE wire'[i] = sent[Come + k + i]
    BY <1>1, <1>6, <1>9
  <2>1. k + i \in 1..Len(wire) /\ Come + (k + i) = Come + k + i
    <3>1. i \in 1..w - k
      BY DEF w
    <3>2. k + i \in 1..w /\ Come + (k + i) = Come + k + i
      BY ONLY <1>14, <3>1
    <3>. QED BY <3>2 DEF w
  <2>2. wire[k + i] = sent[Come + (k + i)]
    BY <1>1, <2>1 DEF Stream
  <2>. QED BY <1>6, <2>1, <2>2
<1>13. Come <= Come'
  BY <1>4, <1>9
<1>. QED BY <1>6, <1>8, <1>9, <1>10, <1>11, <1>12, <1>13 DEF Stream

LEMMA EventReadBase ==
    ASSUME Base, EventRead
    PROVE  Base'
<1>1. UNCHANGED <<conn, inst, out, st, dest, pk, long, closed, sent, texts, told, late, role>>
  BY DEF EventRead
<1>2. Good(buf') /\ Stream' /\ wire' \in Seq(Symbol)
  BY EventReadText
<1>3. pc' = "read" /\ pc = "poll" /\ conn = "up" /\ st \notin {"done", "error"}
  BY DEF EventRead, InEvent, Base, Control
<1>4. call' \in {"none", "cancelled", "wait", "check", "answered", "timeout", "undefined"}
  BY DEF EventRead, InEvent, Base, HttpTypeOK
<1>5. HttpTypeOK'
  BY <1>1, <1>2, <1>3, <1>4 DEF Base, HttpTypeOK
<1>6. Filled'
  BY <1>1 DEF Base, Filled
<1>7. Control'
  BY <1>1, <1>3 DEF Base, Control, IsClient
<1>. QED BY <1>2, <1>5, <1>6, <1>7 DEF Base

(* The passes of the reader's loop but the last, BadPacket, which ends it.  *)
LEMMA PassBase ==
    ASSUME Base, ReadData, ~BadPacket
    PROVE  Base'
<1>0. /\ HttpTypeOK /\ Good(buf) /\ Stream /\ Control /\ Filled /\ pc = "read" /\ conn = "up"
      /\ Readable(buf) \in Nat /\ Len(Text) = Readable(buf) /\ Text \in Seq(Symbol)
  <2>1. pc = "read"
    BY DEF ReadData, BadPacket, Start, FirstLineWaits, FirstLineTooLong, ReadFirstLine,
       HeaderWaits, Header, HeaderEnds, Body, Done, Waits, Pass
  <2>. QED BY <2>1, Numbers DEF Base, Control
<1>1. UNCHANGED <<wire, sent, closed, texts, out, call, late, role>>
  BY DEF ReadData, BadPacket, Start, FirstLineWaits, FirstLineTooLong, ReadFirstLine,
     HeaderWaits, Header, HeaderEnds, Body, Done, Waits, Pass, peer
<1>2. \E n \in 0..Readable(buf) : buf' = Taken(buf, n) \/ buf' = buf
  <2>1. 0 \in 0..Readable(buf) /\ Eol(Text) \in 0..Readable(buf)
    BY <1>0, EolIs
  <2>2. ASSUME HeaderEnds PROVE buf' = buf \/ (buf' = Taken(buf, 1) /\ 1 \in 0..Readable(buf))
    BY <1>0, <2>1, <2>2 DEF HeaderEnds
  <2>3. ASSUME Body PROVE buf' = Taken(buf, Missing) /\ Missing \in 0..Readable(buf)
    BY <2>3, MissingIs DEF Body
  <2>. QED BY <2>1, <2>2, <2>3 DEF ReadData, BadPacket, Start, FirstLineWaits, FirstLineTooLong,
           ReadFirstLine, HeaderWaits, Header, Done
<1>3. Good(buf') /\ Stream'
  BY <1>1, <1>2, StillText, TakenText
<1>4. /\ pc' = "read" => conn' = "up"
      /\ st' \in {"done", "error"} => pc' = "read"
      /\ pc' \in {"poll", "read"} /\ conn' \in {"up", "freed"}
      /\ conn' = "up" /\ pc' = "poll" => st' # "start"
  BY <1>0 DEF ReadData, BadPacket, Start, FirstLineWaits, FirstLineTooLong, ReadFirstLine,
     HeaderWaits, Header, HeaderEnds, AfterHeader, Body, Done, Waits, Pass, Goes, EndOfEvent
<1>5. CASE Done
  <2>1. st' = "start" /\ UNCHANGED <<conn, pc, dest, pk, long>> /\ Told(pk) /\ inst' \in AfterPacket(inst)
    BY <1>5 DEF Done, Pass
  <2>2. told' \in Seq([packet : Packet, end : Nat]) /\ inst' \in {"normal", "expired", "delete"}
        /\ (IsClient => inst' = Expired(inst))
    BY <1>0, <2>1, ToldType DEF HttpTypeOK, AfterPacket, Expired
  <2>3. HttpTypeOK'
    BY <1>0, <1>1, <2>1, <2>2 DEF HttpTypeOK
  <2>4. Filled'
    BY <2>1 DEF Filled
  <2>5. Control'
    BY <1>0, <1>1, <1>4, <2>1, <2>2 DEF Control, IsClient, Expired
  <2>. QED BY <1>3, <2>3, <2>4, <2>5 DEF Base
<1>6. CASE ~Done
  <2>1. told' = told /\ inst' = inst
    BY <1>6 DEF ReadData, BadPacket, Start, FirstLineWaits, FirstLineTooLong, ReadFirstLine,
     HeaderWaits, Header, HeaderEnds, Body, Waits, Pass, Goes, EndOfEvent
  <2>2. Control'
    BY <1>0, <1>1, <1>4, <2>1 DEF Control, IsClient
  <2>3. /\ st' \in {"start", "first", "header", "body", "done", "error"} /\ long' \in BOOLEAN
        /\ dest' \in BodyLengths /\ pk' \in Packet /\ Filled'
    <3>0. long \in BOOLEAN /\ dest \in BodyLengths /\ pk \in Packet /\ 0 \in BodyLengths
          /\ Unknown \in BodyLengths
      BY <1>0, LengthsAre DEF HttpTypeOK
    <3>1. CASE Start
      BY <3>0, <3>1, PacketsAre DEF Start, Pass, Filled
    <3>2. CASE FirstLineWaits \/ FirstLineTooLong \/ HeaderWaits
      BY <1>0, <3>0, <3>2 DEF FirstLineWaits, FirstLineTooLong, HeaderWaits, Waits, Pass, Filled
    <3>3. CASE ReadFirstLine
      <4>1. st = "first" /\ dest' = dest /\ long' = long /\ st' \in {"header", "error"}
            /\ (pk' = pk \/ pk' = [pk EXCEPT !.first = Head(Line)])
            /\ (IsFirstLine(Line) => Head(Line) \in FirstWords) /\ (~IsFirstLine(Line) => pk' = pk)
        BY <3>3 DEF ReadFirstLine, Pass, IsFirstLine
      <4>2. FirstWords \subseteq Symbol
        BY DEF FirstWords, Symbol
      <4>3. pk.body = <<>>
        <5>1. Cleared.body = <<>>
          BY DEF Cleared
        <5>. QED BY <1>0, <4>1, <5>1 DEF Filled
      <4>4. pk' \in Packet /\ pk'.body = pk.body
        <5>1. CASE pk' = pk
          BY <3>0, <5>1
        <5>2. CASE pk' = [pk EXCEPT !.first = Head(Line)] /\ Head(Line) \in Symbol
          BY <3>0, <5>2 DEF Packet
        <5>. QED BY <4>1, <4>2, <5>1, <5>2
      <4>. QED BY <3>0, <4>1, <4>3, <4>4 DEF Filled
    <3>4. CASE Header
      <4>1. st = "header" /\ long' = long /\ st' \in {"header", "error"} /\ pk.body = <<>>
            /\ dest' \in {dest, LengthOf[Head(Line)]} /\ (dest' # dest => IsLength(Line))
            /\ (pk' = pk \/ pk' = [pk EXCEPT !.headers = Append(@, Line)]) /\ Eol(Text) > 1
        BY <1>0, <3>4 DEF Header, Pass, Filled
      <4>2. dest' \in BodyLengths
        BY <3>0, <4>1 DEF IsLength, BodyLengths
      <4>3. Line \in Seq(Symbol)
        BY <1>0, EolIs, <4>1, LineText DEF Base
      <4>4. pk' \in Packet /\ pk'.body = pk.body
        <5>0. pk.headers \in Seq(Seq(Symbol))
          BY <3>0 DEF Packet
        <5>1. Append(pk.headers, Line) \in Seq(Seq(Symbol))
          BY <4>3, <5>0
        <5>. QED BY <3>0, <4>1, <5>1 DEF Packet
      <4>. QED BY <3>0, <4>1, <4>2, <4>4 DEF Filled
    <3>5. CASE HeaderEnds
      <4>1. st = "header" /\ pk' = pk /\ dest' \in {dest, 0} /\ long' \in BOOLEAN /\ st' = AfterHeader
            /\ (HasBody => dest' = dest) /\ pk.body = <<>>
        BY <1>0, <3>0, <3>5 DEF HeaderEnds, Pass, Filled
      <4>2. st' = "body" => dest # 0 /\ HasBody
        BY <4>1 DEF AfterHeader
      <4>3. Len(pk.body) = 0 /\ dest \in {-1, 0, 2, 3} /\ Unknown = -1
        BY <3>0, <4>1, LengthsAre
      <4>. QED BY <3>0, <4>1, <4>2, <4>3 DEF Filled, AfterHeader
    <3>6. CASE Body
      <4>1. st = "body" /\ dest' = dest /\ long' = long /\ st' \in {"done", "body"}
            /\ pk' = [pk EXCEPT !.body = @ \o SubSeq(Text, 1, Missing)]
            /\ (st' = "body" => Len(pk'.body) # dest)
        BY <3>6 DEF Body, Pass
      <4>2. Missing \in 0..Readable(buf) /\ (dest # Unknown => Missing <= dest - Len(pk.body))
        BY <4>1, MissingIs
      <4>3. pk.body \in Seq(Symbol)
        BY <3>0 DEF Packet
      <4> DEFINE t == SubSeq(Text, 1, Missing)
      <4>4. t \in Seq(Symbol) /\ Len(t) = Missing
        BY <1>0, <4>2
      <4>5. pk' = [pk EXCEPT !.body = pk.body \o t]
        BY <4>1
      <4> HIDE DEF t
      <4>6. pk.body \o t \in Seq(Symbol) /\ Len(pk.body \o t) = Len(pk.body) + Missing
        BY <4>3, <4>4, Joined
      <4>7. pk' \in Packet /\ pk'.body = pk.body \o t
        BY <3>0, <4>5, <4>6 DEF Packet
      <4>8. dest # Unknown /\ st' = "body" => Len(pk'.body) < dest
        <5>1. dest \in Int /\ Len(pk.body) \in Nat /\ Missing \in Int
          BY <1>0, <3>0, <4>2, <4>3, LengthsAre
        <5> DEFINE l == Len(pk'.body)
                   k == Len(pk.body)
        <5>2. l = k + Missing
          BY <4>6, <4>7
        <5>3. st' = "body" => l # dest
          BY <4>1
        <5>4. dest # Unknown => Missing <= dest - k
          BY <4>2
        <5> HIDE DEF l, k
        <5>5. dest # Unknown /\ st' = "body" => l < dest
          BY <5>1, <5>2, <5>3, <5>4 DEF k
        <5>. QED BY <5>5 DEF l
      <4>9. Filled'
        <5>1. st' \notin {"first", "header"} /\ dest' = dest
          BY <4>1
        <5>. QED BY <4>8, <5>1 DEF Filled
      <4>. QED BY <3>0, <4>1, <4>7, <4>9
    <3>. QED BY <1>6, <3>1, <3>2, <3>3, <3>4, <3>5, <3>6 DEF ReadData
  <2>4. HttpTypeOK'
    BY <1>0, <1>1, <1>4, <2>1, <2>3 DEF HttpTypeOK
  <2>. QED BY <1>3, <2>2, <2>3, <2>4 DEF Base
<1>. QED BY <1>5, <1>6

LEMMA BaseInit == HttpInit => Base
<1> SUFFICES ASSUME HttpInit PROVE Base
  OBVIOUS
<1>1. Good(buf) /\ Readable(buf) = 0
  BY InitGood DEF HttpInit, BufferInit, Readable
<1>2. sent = <<>> /\ wire = <<>> /\ Len(sent) = 0 /\ Len(wire) = 0 /\ told = <<>>
  BY DEF HttpInit
<1>3. Stream
  BY <1>1, <1>2 DEF Stream
<1>4. /\ <<>> \in Seq([packet : Packet, end : Nat]) /\ <<>> \in Seq(Symbol)
      /\ 0 \in BodyLengths /\ role \in {"server", "job", "sync"}
  BY LengthsAre, HttpChannelAssumption DEF HttpInit
<1>5. out \in BOOLEAN /\ long \in BOOLEAN /\ late \in BOOLEAN /\ closed \in BOOLEAN
  BY Zenon DEF HttpInit, IsClient
<1>6. HttpTypeOK
  BY <1>4, <1>5, PacketsAre DEF HttpInit, HttpTypeOK
<1>7. Control /\ Filled
  BY <1>1, <1>2 DEF HttpInit, Control, Filled, IsClient
<1>. QED BY <1>1, <1>3, <1>6, <1>7 DEF Base

LEMMA BaseStep == Base /\ [HttpNext]_httpVars => Base'
<1> SUFFICES ASSUME Base, [HttpNext]_httpVars PROVE Base'
  OBVIOUS
<1>1. CASE PeerSends \/ PeerCloses
  BY <1>1, PeerBase
<1>2. CASE TimePasses \/ AppCancels \/ Connected \/ Write \/ TimedOut \/ GoesOn \/ NoEvent
  BY <1>2, QuietBase
<1>3. CASE ConnectFails \/ ReadClose \/ Breaks \/ BadPacket
  BY <1>3, EndBase
<1>4. CASE EventRead
  BY <1>4, EventReadBase
<1>5. CASE ReadData
  BY <1>3, <1>5, PassBase
<1>6. CASE UNCHANGED httpVars
  <2>1. UNCHANGED <<role, conn, inst, out, pc, st, dest, pk, buf, wire, closed, call,
                    late, sent, texts, told, long>>
    BY <1>6 DEF httpVars
  <2>2. Good(buf') /\ Stream' /\ Readable(buf') = Readable(buf)
    BY <2>1, StillText
  <2>3. HttpTypeOK' /\ Control' /\ Filled'
    BY <2>1, <2>2 DEF Base, HttpTypeOK, Control, Filled, IsClient
  <2>. QED BY <2>2, <2>3 DEF Base
<1>. QED BY <1>1, <1>2, <1>3, <1>4, <1>5, <1>6, Zenon DEF HttpNext, Turn, Stopped

LEMMA BaseInvariant == HttpSpec => []Base
<1>. QED BY BaseInit, BaseStep, PTL DEF HttpSpec

(* Every value is of its type, and what is in the buffer and on its way is  *)
(* the end of what the peer sent: nothing is lost, doubled or moved between *)
(* the connection and the reader, for any texts, blocks and limits.         *)
THEOREM HttpTypeCorrect == HttpSpec => [](HttpTypeOK /\ BufferTypeOK /\ InBlock /\ Stream)
<1>1. Base => HttpTypeOK /\ BufferTypeOK /\ InBlock /\ Stream
  BY GoodIsInBlock DEF Base
<1>. QED BY <1>1, BaseInvariant, PTL
-----------------------------------------------------------------------------
(* What was found in a text stays when more of it comes: the definitions    *)
(* look at no symbol behind their last position.                            *)

Agree(s, t, n) == \A i \in 1..n : s[i] = t[i]

LEMMA LinesStay ==
    ASSUME NEW s, NEW t, NEW n \in Nat, Agree(s, t, n), NEW e \in 1..n, NEW h \in e..n
    PROVE  /\ Begins(t, e, h) = Begins(s, e, h)
           /\ LengthLines(t, e, h) = LengthLines(s, e, h)
           /\ OtherLines(t, e, h) = OtherLines(s, e, h)
           /\ Begins(s, e, h) \subseteq e + 1..h
<1>1. \A i \in e + 1..h : i \in 1..n /\ i - 1 \in 1..n
  OBVIOUS
<1>2. \A i \in e + 1..h : s[i] = t[i] /\ s[i - 1] = t[i - 1]
  BY <1>1 DEF Agree
<1>3. Begins(t, e, h) = Begins(s, e, h) /\ Begins(s, e, h) \subseteq e + 1..h
  BY <1>2 DEF Begins
<1>4. \A i \in Begins(s, e, h) : s[i] = t[i]
  BY <1>2, <1>3
<1>5. LengthLines(t, e, h) = LengthLines(s, e, h)
  BY <1>3, <1>4 DEF LengthLines
<1>. QED BY <1>3, <1>5 DEF OtherLines

LEMMA HeadStays ==
    ASSUME NEW s, NEW t, NEW n \in Nat, Agree(s, t, n), NEW p \in Nat,
           NEW e \in p + 1..n, NEW h \in e..n
    PROVE  /\ FirstLineEnds(s, p, e) => FirstLineEnds(t, p, e)
           /\ NoEmptyLine(s, e, h) => NoEmptyLine(t, e, h)
           /\ HeadEnds(s, e, h) => HeadEnds(t, e, h)
           /\ GoodHead(s, p, e, h) => GoodHead(t, p, e, h)
           /\ \A l : LengthIs(s, e, h, l) => LengthIs(t, e, h, l)
           /\ s[p + 1] = t[p + 1] /\ s[h] = t[h]
<1>1. p + 1 \in 1..n /\ e \in 1..n /\ h \in 1..n
  OBVIOUS
<1>2. s[p + 1] = t[p + 1] /\ s[h] = t[h] /\ s[e] = t[e]
  BY <1>1 DEF Agree
<1>3. FirstLineEnds(s, p, e) => FirstLineEnds(t, p, e)
  <2>1. \A i \in p + 1..e - 1 : i \in 1..n
    OBVIOUS
  <2>. QED BY <1>2, <2>1 DEF Agree, FirstLineEnds
<1>4. \A i \in e + 1..h : IsEmptyLine(s, i) <=> IsEmptyLine(t, i)
  <2>1. \A i \in e + 1..h : i \in 1..n /\ i - 1 \in 1..n
    OBVIOUS
  <2>. QED BY <2>1 DEF Agree, IsEmptyLine
<1>5. NoEmptyLine(s, e, h) => NoEmptyLine(t, e, h)
  BY <1>4 DEF NoEmptyLine
<1>6. HeadEnds(s, e, h) => HeadEnds(t, e, h)
  <2>1. (\A i \in e + 1..h - 1 : i \in e + 1..h) /\ (e < h => h \in e + 1..h)
    OBVIOUS
  <2>. QED BY <1>4, <2>1 DEF HeadEnds, NoEmptyLine
<1>7. /\ Begins(t, e, h) = Begins(s, e, h) /\ LengthLines(t, e, h) = LengthLines(s, e, h)
      /\ Begins(s, e, h) \subseteq e + 1..h
  BY <1>1, LinesStay
<1>8. \A i \in Begins(s, e, h) : LineParted(s, i, h) => LineParted(t, i, h)
  <2> SUFFICES ASSUME NEW i \in e + 1..h, LineParted(s, i, h) PROVE LineParted(t, i, h)
    BY <1>7
  <2>1. PICK j \in i..h : s[j] \in Colons /\ \A k \in i..j : s[k] # "nl"
    BY DEF LineParted
  <2>2. j \in 1..n /\ \A k \in i..j : k \in 1..n
    OBVIOUS
  <2>3. t[j] \in Colons /\ \A k \in i..j : t[k] # "nl"
    BY <2>1, <2>2 DEF Agree
  <2>. QED BY <2>3 DEF LineParted
<1>9. GoodHead(s, p, e, h) => GoodHead(t, p, e, h)
  BY <1>2, <1>3, <1>7, <1>8 DEF GoodHead
<1>10. \A i \in LengthLines(s, e, h) : s[i] = t[i]
  <2>1. \A i \in LengthLines(s, e, h) : i \in 1..n
    BY <1>7 DEF LengthLines
  <2>. QED BY <2>1 DEF Agree
<1>11. \A l : LengthIs(s, e, h, l) => LengthIs(t, e, h, l)
  BY <1>7, <1>10 DEF LengthIs
<1>. QED BY <1>2, <1>3, <1>5, <1>6, <1>9, <1>11

LEMMA LineStays ==
    ASSUME NEW s, NEW t, NEW n \in Nat, Agree(s, t, n), NEW h \in 1..n, NEW g \in h..n,
           NEW i \in 1..h, NEW line \in Seq(Symbol), LineIs(s, i, h, line)
    PROVE  LineIs(t, i, g, line)
<1>1. /\ Len(line) \in Nat /\ DOMAIN line = 1..Len(line) /\ i + Len(line) <= h
  BY DEF LineIs
<1>2. i + Len(line) \in 1..n /\ i + Len(line) <= g
  BY <1>1
<1>3. \A j \in 1..Len(line) : i + j - 1 \in 1..n
  BY <1>1
<1>4. s[i + Len(line)] = t[i + Len(line)] /\ \A j \in 1..Len(line) : s[i + j - 1] = t[i + j - 1]
  BY <1>2, <1>3 DEF Agree
<1>. QED BY <1>1, <1>2, <1>4 DEF LineIs

LEMMA HeadersStay ==
    ASSUME NEW s, NEW t, NEW n \in Nat, Agree(s, t, n), NEW e \in 1..n, NEW h \in e..n,
           NEW g \in h..n, OtherLines(t, e, g) = OtherLines(s, e, h),
           NEW headers \in Seq(Seq(Symbol)), HeadersAre(s, e, h, headers)
    PROVE  HeadersAre(t, e, g, headers)
<1>1. PICK at \in [DOMAIN headers -> OtherLines(s, e, h)] :
        /\ \A i, j \in DOMAIN headers : i < j => at[i] < at[j]
        /\ \A i \in OtherLines(s, e, h) : \E j \in DOMAIN headers : at[j] = i
        /\ \A i \in DOMAIN headers : LineIs(s, at[i], h, headers[i])
  BY DEF HeadersAre
<1>2. OtherLines(s, e, h) \subseteq 1..h
  BY LinesStay DEF OtherLines
<1>3. \A i \in DOMAIN headers : LineIs(t, at[i], g, headers[i])
  <2> SUFFICES ASSUME NEW i \in DOMAIN headers PROVE LineIs(t, at[i], g, headers[i])
    OBVIOUS
  <2>1. at[i] \in 1..h /\ headers[i] \in Seq(Symbol) /\ LineIs(s, at[i], h, headers[i]) /\ h \in 1..n
    BY <1>1, <1>2
  <2>. QED BY <2>1, LineStays
<1>. QED BY <1>1, <1>3 DEF HeadersAre

LEMMA PacketStays ==
    ASSUME NEW s, NEW t, NEW n \in Nat, Agree(s, t, n), NEW p \in Nat,
           NEW e \in p + 1..n, NEW h \in e..n, NEW q \in h..n,
           NEW m \in Packet, PacketIs(s, p, e, h, q, m)
    PROVE  PacketIs(t, p, e, h, q, m)
<1>1. e \in 1..n /\ h \in h..n /\ m.headers \in Seq(Seq(Symbol)) /\ m.body \in Seq(Symbol)
  BY PacketFields
<1>2. OtherLines(t, e, h) = OtherLines(s, e, h)
  BY <1>1, LinesStay
<1>3. HeadersAre(t, e, h, m.headers)
  BY <1>1, <1>2, HeadersStay DEF PacketIs
<1>4. s[p + 1] = t[p + 1]
  BY HeadStays
<1>5. BodyIs(t, h, q, m.body)
  <2> DEFINE b == m.body
  <2>1. Len(b) = q - h /\ Len(b) \in Nat /\ DOMAIN b = 1..Len(b) /\ \A i \in DOMAIN b : b[i] = s[h + i]
    BY <1>1 DEF PacketIs, BodyIs
  <2>2. \A i \in 1..Len(b) : h + i \in 1..n
    BY <2>1
  <2>3. \A i \in DOMAIN b : b[i] = t[h + i]
    BY <2>1, <2>2 DEF Agree
  <2>. QED BY <2>1, <2>3 DEF BodyIs
<1>. QED BY <1>3, <1>4, <1>5 DEF PacketIs

LEMMA MessageStays ==
    ASSUME NEW s, NEW t, NEW n \in Nat, Agree(s, t, n), NEW p \in Nat, NEW q \in 0..n,
           NEW m \in Packet, MessageIs(s, p, q, m)
    PROVE  MessageIs(t, p, q, m)
<1>1. PICK e, h \in p + 1..q, l \in BodyLengths :
          HeadIs(s, p, e, h, l) /\ BodyEnds(s, p, h, l, q) /\ PacketIs(s, p, e, h, q, m)
  BY DEF MessageIs
<1>2. e \in p + 1..n /\ h \in e..n /\ q \in h..n
  BY <1>1 DEF HeadIs, HeadEnds
<1>3. HeadIs(t, p, e, h, l) /\ s[p + 1] = t[p + 1]
  BY <1>1, <1>2, HeadStays DEF HeadIs
<1>4. PacketIs(t, p, e, h, q, m)
  BY <1>1, <1>2, PacketStays
<1>5. BodyEnds(t, p, h, l, q)
  BY <1>1, <1>3 DEF BodyEnds
<1>. QED BY <1>3, <1>4, <1>5 DEF MessageIs

LEMMA HeadingStays ==
    ASSUME NEW s, NEW t, NEW n \in Nat, Agree(s, t, n), NEW p \in Nat, NEW h \in 0..n,
           NEW l, NEW m \in Packet, Heading(s, p, h, l, m)
    PROVE  Heading(t, p, h, l, m)
<1>1. PICK e \in p + 1..h :
        /\ GoodHead(s, p, e, h) /\ NoEmptyLine(s, e, h) /\ s[h] = "nl"
        /\ LengthIs(s, e, h, l) /\ m.first = s[p + 1] /\ HeadersAre(s, e, h, m.headers)
  BY DEF Heading
<1>2. e \in p + 1..n /\ h \in e..n /\ e \in 1..n /\ h \in h..n
  OBVIOUS
<1>3. /\ GoodHead(t, p, e, h) /\ NoEmptyLine(t, e, h) /\ t[h] = "nl"
      /\ LengthIs(t, e, h, l) /\ m.first = t[p + 1]
  BY <1>1, <1>2, HeadStays
<1>4. OtherLines(t, e, h) = OtherLines(s, e, h) /\ m.headers \in Seq(Seq(Symbol))
  BY <1>2, LinesStay, PacketFields
<1>5. HeadersAre(t, e, h, m.headers)
  BY <1>1, <1>2, <1>4, HeadersStay
<1>. QED BY <1>3, <1>5 DEF Heading

LEMMA FillingStays ==
    ASSUME NEW s, NEW t, NEW n \in Nat, Agree(s, t, n), NEW p \in Nat, NEW q \in 0..n,
           NEW l, NEW m \in Packet, Filling(s, p, q, l, m)
    PROVE  Filling(t, p, q, l, m)
<1>1. PICK e, h \in p + 1..q :
        /\ HeadIs(s, p, e, h, l) /\ PacketIs(s, p, e, h, q, m)
        /\ IF l = Unknown THEN UntilClose(s[p + 1]) ELSE l <= MaxBody
  BY DEF Filling
<1>2. e \in p + 1..n /\ h \in e..n /\ q \in h..n
  BY <1>1 DEF HeadIs, HeadEnds
<1>3. HeadIs(t, p, e, h, l) /\ s[p + 1] = t[p + 1]
  BY <1>1, <1>2, HeadStays DEF HeadIs
<1>4. PacketIs(t, p, e, h, q, m)
  BY <1>1, <1>2, PacketStays
<1>. QED BY <1>1, <1>3, <1>4 DEF Filling

-----------------------------------------------------------------------------
(* The reader takes one line more: n symbols behind h, the last of them     *)
(* its end.                                                                 *)

LEMMA FirstLineRead ==
    ASSUME NEW s, NEW p \in Nat, NEW n \in Nat \ {0}, n > 1, s[p + n] = "nl",
           \A i \in 1..n - 1 : s[p + i] # "nl", s[p + 1] \in FirstWords,
           NEW m, m.first = s[p + 1], m.headers = <<>>
    PROVE  Heading(s, p, p + n, Unknown, m)
<1> DEFINE e == p + n
<1>1. e \in p + 1..e /\ p + 1 < e /\ e <= e /\ s[e] = "nl"
  OBVIOUS
<1>2. FirstLineEnds(s, p, e)
  <2>1. ASSUME NEW i \in p + 1..e - 1 PROVE s[i] # "nl"
    <3>1. i - p \in 1..n - 1 /\ p + (i - p) = i
      OBVIOUS
    <3>. QED BY <3>1
  <2>. QED BY <1>1, <2>1 DEF FirstLineEnds
<1> HIDE DEF e
<1>3. Begins(s, e, e) = {} /\ NoEmptyLine(s, e, e)
  <2>1. e + 1..e = {}
    BY <1>1 DEF e
  <2>. QED BY <2>1 DEF Begins, NoEmptyLine
<1>4. LengthLines(s, e, e) = {} /\ OtherLines(s, e, e) = {}
  BY <1>3 DEF LengthLines, OtherLines
<1>5. GoodHead(s, p, e, e)
  BY <1>1, <1>2, <1>3 DEF GoodHead
<1>6. LengthIs(s, e, e, Unknown)
  BY <1>4 DEF LengthIs
<1>7. HeadersAre(s, e, e, m.headers)
  <2>1. DOMAIN m.headers = {}
    OBVIOUS
  <2>2. [x \in {} |-> x] \in [DOMAIN m.headers -> OtherLines(s, e, e)]
    BY <2>1
  <2>. QED BY <1>4, <2>1, <2>2 DEF HeadersAre
<1>. QED BY <1>1, <1>3, <1>5, <1>6, <1>7 DEF Heading, e

LEMMA FirstLineBad ==
    ASSUME NEW s, NEW p \in Nat, NEW n \in Nat \ {0}, s[p + n] = "nl",
           \A i \in 1..n - 1 : s[p + i] # "nl", n = 1 \/ s[p + 1] \notin FirstWords,
           NEW q \in Nat, p + n <= q
    PROVE  IsBad(s, p, q)
<1> DEFINE e == p + n
<1>1. FirstLineEnds(s, p, e)
  <2>1. ASSUME NEW i \in p + 1..e - 1 PROVE s[i] # "nl"
    <3>1. i - p \in 1..n - 1 /\ p + (i - p) = i
      OBVIOUS
    <3>. QED BY <3>1
  <2>. QED BY <2>1 DEF FirstLineEnds
<1>2. e \in p + 1..q /\ (e = p + 1 \/ s[p + 1] \notin FirstWords)
  OBVIOUS
<1> HIDE DEF e
<1>. QED BY <1>1, <1>2 DEF IsBad

(* A line that is not empty is the only one that is new.                    *)
LEMMA LineBegins ==
    ASSUME NEW s, NEW e \in Nat, NEW h \in Nat, e <= h, s[h] = "nl", NEW n \in Nat, n > 1,
           s[h + n] = "nl", \A i \in 1..n - 1 : s[h + i] # "nl"
    PROVE  /\ Begins(s, e, h + n) = Begins(s, e, h) \cup {h + 1}
           /\ \A i \in h + 1..h + n : ~IsEmptyLine(s, i)
           /\ Begins(s, e, h) \subseteq e + 1..h
<1>1. s[h + 1] # "nl" /\ h + 1 - 1 = h
  OBVIOUS
<1>2. \A i \in h + 1..h + n : i # h + 1 => s[i - 1] # "nl"
  <2> SUFFICES ASSUME NEW i \in h + 1..h + n, i # h + 1 PROVE s[i - 1] # "nl"
    OBVIOUS
  <2>1. i - 1 - h \in 1..n - 1 /\ h + (i - 1 - h) = i - 1
    OBVIOUS
  <2>. QED BY <2>1
<1>3. \A i \in h + 1..h + n : ~IsEmptyLine(s, i)
  BY <1>1, <1>2 DEF IsEmptyLine
<1>4. \A i \in e + 1..h + n : i \in e + 1..h \/ i = h + 1 \/ (i \in h + 1..h + n /\ i # h + 1)
  OBVIOUS
<1>5. h + 1 \in e + 1..h + n /\ e + 1..h \subseteq e + 1..h + n
  OBVIOUS
<1>6. \A i : i \in Begins(s, e, h + n) <=> i \in Begins(s, e, h) \/ i = h + 1
  BY <1>1, <1>2, <1>4, <1>5 DEF Begins
<1>7. Begins(s, e, h) \subseteq e + 1..h
  BY DEF Begins
<1>. QED BY <1>3, <1>6, <1>7

(* The line as the reader sees it, and its place in the text.               *)
LineAt(s, h, n, line) ==
    /\ s[h] = "nl" /\ s[h + n] = "nl" /\ \A i \in 1..n - 1 : s[h + i] # "nl"
    /\ Len(line) = n - 1 /\ \A i \in 1..n - 1 : line[i] = s[h + i]

LEMMA LineRead ==
    ASSUME NEW s, NEW h \in Nat \ {0}, NEW n \in Nat, n > 1, NEW line \in Seq(Symbol), LineAt(s, h, n, line)
    PROVE  /\ LineParted(s, h + 1, h + n) <=> HasColon(line)
           /\ s[h + 1] \in Lengths <=> IsLength(line)
           /\ Head(line) = s[h + 1]
           /\ LineIs(s, h + 1, h + n, line)
<1>1. /\ DOMAIN line = 1..n - 1 /\ Len(line) = n - 1 /\ Head(line) = line[1] /\ 1 \in 1..n - 1
      /\ \A i \in 1..n - 1 : line[i] = s[h + i] /\ line[i] # "nl"
      /\ s[h + n] = "nl"
  BY DEF LineAt
<1>2. Head(line) = s[h + 1]
  BY <1>1
<1>3. s[h + 1] \in Lengths <=> IsLength(line)
  BY <1>2 DEF IsLength
<1>4. ASSUME HasColon(line) PROVE LineParted(s, h + 1, h + n)
  <2>1. PICK i \in 1..n - 1 : line[i] \in Colons
    BY <1>1, <1>4 DEF HasColon
  <2>2. h + i \in h + 1..h + n /\ s[h + i] \in Colons
    BY <1>1, <2>1
  <2>3. ASSUME NEW k \in h + 1..h + i PROVE s[k] # "nl"
    <3>1. k - h \in 1..n - 1 /\ h + (k - h) = k
      OBVIOUS
    <3>2. s[h + (k - h)] # "nl"
      BY <1>1, <3>1
    <3>. QED BY <3>1, <3>2
  <2>. QED BY <2>2, <2>3 DEF LineParted
<1>5. ASSUME LineParted(s, h + 1, h + n) PROVE HasColon(line)
  <2>1. PICK j \in h + 1..h + n : s[j] \in Colons
    BY <1>5 DEF LineParted
  <2>2. "nl" \notin Colons
    BY LengthsAre DEF Colons
  <2>3. j # h + n
    BY <1>1, <2>1, <2>2
  <2>4. j - h \in 1..n - 1 /\ h + (j - h) = j
    BY <2>3
  <2>5. line[j - h] \in Colons
    BY <1>1, <2>1, <2>4
  <2>. QED BY <1>1, <2>4, <2>5 DEF HasColon
<1>6. LineIs(s, h + 1, h + n, line)
  <2>1. h + 1 + Len(line) = h + n /\ \A j \in 1..n - 1 : h + 1 + j - 1 = h + j
    BY <1>1
  <2>. QED BY <1>1, <2>1 DEF LineIs
<1>. QED BY <1>2, <1>3, <1>4, <1>5, <1>6

(* The headers with one more behind them.                                   *)
LEMMA HeadersGrow ==
    ASSUME NEW s, NEW e \in Nat \ {0}, NEW h \in Nat, e <= h, NEW n \in Nat \ {0},
           OtherLines(s, e, h) \subseteq e + 1..h,
           OtherLines(s, e, h + n) = OtherLines(s, e, h) \cup {h + 1},
           NEW headers \in Seq(Seq(Symbol)), HeadersAre(s, e, h, headers),
           NEW line \in Seq(Symbol), LineIs(s, h + 1, h + n, line)
    PROVE  HeadersAre(s, e, h + n, Append(headers, line))
<1>1. PICK at \in [DOMAIN headers -> OtherLines(s, e, h)] :
        /\ \A i, j \in DOMAIN headers : i < j => at[i] < at[j]
        /\ \A i \in OtherLines(s, e, h) : \E j \in DOMAIN headers : at[j] = i
        /\ \A i \in DOMAIN headers : LineIs(s, at[i], h, headers[i])
  BY DEF HeadersAre
<1> DEFINE c == Len(headers)
           hs == Append(headers, line)
           D == 1..c + 1
           to == [i \in D |-> IF i = c + 1 THEN h + 1 ELSE at[i]]
<1>2. c \in Nat /\ DOMAIN headers = 1..c
  OBVIOUS
<1>3. /\ DOMAIN hs = D /\ hs[c + 1] = line /\ \A i \in 1..c : hs[i] = headers[i]
  OBVIOUS
<1>4. \A i \in 1..c : at[i] \in OtherLines(s, e, h) /\ at[i] \in e + 1..h
  BY <1>1, <1>2
<1>11. \A i \in 1..c : headers[i] \in Seq(Symbol)
  <2>1. headers \in [1..c -> Seq(Symbol)]
    OBVIOUS
  <2>. QED BY <2>1
<1>5. /\ \A i \in 1..c : to[i] = at[i] /\ i \in D
      /\ to[c + 1] = h + 1 /\ c + 1 \in D
      /\ \A i \in D : i \in 1..c \/ i = c + 1
  BY <1>2
<1>6. to \in [D -> OtherLines(s, e, h + n)]
  BY <1>4, <1>5
<1> HIDE DEF hs, to, c, D
<1>7. \A i, j \in D : i < j => to[i] < to[j]
  <2> SUFFICES ASSUME NEW i \in D, NEW j \in D, i < j PROVE to[i] < to[j]
    OBVIOUS
  <2>1. i \in 1..c
    BY <1>2, <1>5 DEF D
  <2>2. CASE j \in 1..c
    BY <1>1, <1>2, <1>5, <2>1, <2>2
  <2>3. CASE j = c + 1
    <3>1. at[i] \in e + 1..h /\ to[i] = at[i] /\ to[j] = h + 1
      BY <1>4, <1>5, <2>1, <2>3
    <3>. QED BY <3>1
  <2>. QED BY <1>5, <2>2, <2>3
<1>8. \A i \in OtherLines(s, e, h + n) : \E j \in D : to[j] = i
  <2> SUFFICES ASSUME NEW i \in OtherLines(s, e, h + n) PROVE \E j \in D : to[j] = i
    OBVIOUS
  <2>1. CASE i = h + 1
    BY <1>5, <2>1
  <2>2. CASE i \in OtherLines(s, e, h)
    <3>1. PICK j \in 1..c : at[j] = i
      BY <1>1, <1>2, <2>2
    <3>. QED BY <1>5, <3>1
  <2>. QED BY <2>1, <2>2
<1>9. \A i \in D : LineIs(s, to[i], h + n, hs[i])
  <2> SUFFICES ASSUME NEW i \in D PROVE LineIs(s, to[i], h + n, hs[i])
    OBVIOUS
  <2>1. CASE i = c + 1
    BY <1>3, <1>5, <2>1
  <2>2. CASE i \in 1..c
    <3>4. LineIs(s, at[i], h, headers[i])
      BY <1>1, <1>2, <2>2
    <3>5. at[i] \in e + 1..h /\ headers[i] \in Seq(Symbol)
      BY <1>4, <1>11, <2>2
    <3>1. LineIs(s, at[i], h, headers[i]) /\ at[i] \in 1..h /\ headers[i] \in Seq(Symbol)
      BY <3>4, <3>5
    <3>2. Agree(s, s, h + n) /\ h + n \in Nat /\ h \in 1..h + n /\ h + n \in h..h + n
      BY DEF Agree
    <3>3. LineIs(s, at[i], h + n, headers[i])
      BY <3>1, <3>2, LineStays
    <3>. QED BY <1>3, <1>5, <2>2, <3>3
  <2>. QED BY <1>5, <2>1, <2>2
<1>10. HeadersAre(s, e, h + n, hs)
  BY <1>3, <1>6, <1>7, <1>8, <1>9 DEF HeadersAre
<1>. QED BY <1>10 DEF hs

LEMMA HeaderRead ==
    ASSUME NEW s, NEW p \in Nat, NEW h \in Nat, NEW l, NEW m \in Packet, Heading(s, p, h, l, m),
           NEW n \in Nat, n > 1, NEW line \in Seq(Symbol), LineAt(s, h, n, line), HasColon(line),
           NEW k, NEW r, r.first = m.first,
           IsLength(line) => k = LengthOf[Head(line)] /\ r.headers = m.headers,
           ~IsLength(line) => k = l /\ r.headers = Append(m.headers, line)
    PROVE  Heading(s, p, h + n, k, r)
<1>1. PICK e \in p + 1..h :
        /\ GoodHead(s, p, e, h) /\ NoEmptyLine(s, e, h) /\ s[h] = "nl"
        /\ LengthIs(s, e, h, l) /\ m.first = s[p + 1] /\ HeadersAre(s, e, h, m.headers)
  BY DEF Heading
<1> DEFINE g == h + n
<1>2. e \in Nat \ {0} /\ h \in Nat \ {0} /\ e <= h /\ g \in Nat /\ h < g /\ e \in p + 1..g
      /\ h + 1 \in h + 1..g
  OBVIOUS
<1>3. /\ LineParted(s, h + 1, g) /\ (s[h + 1] \in Lengths <=> IsLength(line))
      /\ Head(line) = s[h + 1] /\ LineIs(s, h + 1, g, line)
  BY <1>2, LineRead
<1>4. /\ Begins(s, e, g) = Begins(s, e, h) \cup {h + 1}
      /\ \A i \in h + 1..g : ~IsEmptyLine(s, i)
      /\ Begins(s, e, h) \subseteq e + 1..h
  BY <1>2, LineBegins DEF LineAt
<1>5. s[g] = "nl"
  BY DEF LineAt
<1> HIDE DEF g
<1>6. NoEmptyLine(s, e, g)
  <2>1. \A i \in e + 1..g : i \in e + 1..h \/ i \in h + 1..g
    BY <1>2
  <2>. QED BY <1>1, <1>4, <2>1 DEF NoEmptyLine
<1>7. GoodHead(s, p, e, g)
  <2>1. \A i \in Begins(s, e, h) : LineParted(s, i, g)
    <3> SUFFICES ASSUME NEW i \in Begins(s, e, h) PROVE LineParted(s, i, g)
      OBVIOUS
    <3>1. PICK j \in i..h : s[j] \in Colons /\ \A x \in i..j : s[x] # "nl"
      BY <1>1 DEF GoodHead, LineParted
    <3>2. j \in i..g
      BY <1>2, <1>4
    <3>. QED BY <3>1, <3>2 DEF LineParted
  <2>2. e <= g
    BY <1>2
  <2>. QED BY <1>1, <1>3, <1>4, <2>1, <2>2 DEF GoodHead
<1>8. CASE IsLength(line)
  <2>1. LengthLines(s, e, g) = LengthLines(s, e, h) \cup {h + 1}
    BY <1>3, <1>4, <1>8 DEF LengthLines
  <2>2. OtherLines(s, e, g) = OtherLines(s, e, h)
    <3>1. h + 1 \notin Begins(s, e, h)
      BY <1>4
    <3>. QED BY <1>4, <2>1, <3>1 DEF OtherLines
  <2>3. LengthIs(s, e, g, k)
    <3>1. \A j \in LengthLines(s, e, g) : j <= h + 1
      BY <1>2, <1>4, <2>1 DEF LengthLines
    <3>. QED BY <1>3, <1>8, <2>1, <3>1 DEF LengthIs
  <2>4. HeadersAre(s, e, g, r.headers)
    <3>1. Agree(s, s, g) /\ e \in 1..g /\ h \in e..g /\ g \in h..g /\ m.headers \in Seq(Seq(Symbol))
      BY <1>2, PacketFields DEF Agree
    <3>. QED BY <1>1, <1>2, <1>8, <2>2, <3>1, HeadersStay
  <2>. QED BY <1>1, <1>2, <1>5, <1>6, <1>7, <2>3, <2>4 DEF Heading, g
<1>9. CASE ~IsLength(line)
  <2>1. LengthLines(s, e, g) = LengthLines(s, e, h)
    BY <1>3, <1>4, <1>9 DEF LengthLines
  <2>2. OtherLines(s, e, g) = OtherLines(s, e, h) \cup {h + 1}
    <3>1. h + 1 \notin LengthLines(s, e, h)
      BY <1>4 DEF LengthLines
    <3>. QED BY <1>4, <2>1, <3>1 DEF OtherLines
  <2>3. LengthIs(s, e, g, k)
    BY <1>1, <1>9, <2>1 DEF LengthIs
  <2>4. HeadersAre(s, e, g, r.headers)
    <3>1. OtherLines(s, e, h) \subseteq e + 1..h /\ m.headers \in Seq(Seq(Symbol)) /\ n \in Nat \ {0}
      BY <1>4, PacketFields DEF OtherLines
    <3>2. LineIs(s, h + 1, h + n, line) /\ OtherLines(s, e, h + n) = OtherLines(s, e, h) \cup {h + 1}
      BY <1>3, <2>2 DEF g
    <3>3. HeadersAre(s, e, h, m.headers)
      BY <1>1
    <3>4. HeadersAre(s, e, h + n, Append(m.headers, line))
      BY <1>2, <3>1, <3>2, <3>3, HeadersGrow
    <3>. QED BY <1>9, <3>4 DEF g
  <2>. QED BY <1>1, <1>2, <1>5, <1>6, <1>7, <2>3, <2>4 DEF Heading, g
<1>. QED BY <1>8, <1>9

LEMMA HeaderBad ==
    ASSUME NEW s, NEW p \in Nat, NEW h \in Nat, NEW l, NEW m, Heading(s, p, h, l, m),
           NEW n \in Nat, n > 1, NEW line \in Seq(Symbol), LineAt(s, h, n, line), ~HasColon(line),
           NEW q \in Nat, h + n <= q
    PROVE  IsBad(s, p, q)
<1>1. PICK e \in p + 1..h : GoodHead(s, p, e, h) /\ NoEmptyLine(s, e, h) /\ s[h] = "nl"
  BY DEF Heading
<1> DEFINE g == h + n
<1>2. /\ e \in Nat \ {0} /\ h \in Nat \ {0} /\ e <= h /\ g \in e + 1..q /\ e \in p + 1..q
      /\ h + 1 < g /\ h + 1 \in e + 1..q
  OBVIOUS
<1>3. ~LineParted(s, h + 1, g)
  BY <1>2, LineRead
<1>9. \A i \in h + 1..g : ~IsEmptyLine(s, i)
  BY <1>1, <1>2, LineBegins DEF LineAt
<1>10. s[h + 1] # "nl"
  <2>1. 1 \in 1..n - 1
    OBVIOUS
  <2>. QED BY <2>1 DEF LineAt
<1>4. (\A i \in h + 1..g : ~IsEmptyLine(s, i)) /\ s[h + 1] # "nl"
  BY <1>9, <1>10
<1>5. s[g] = "nl"
  BY DEF LineAt
<1> HIDE DEF g
<1>6. NoEmptyLine(s, e, g)
  <2>1. \A i \in e + 1..g : i \in e + 1..h \/ i \in h + 1..g
    BY <1>2
  <2>. QED BY <1>1, <1>4, <2>1 DEF NoEmptyLine
<1>7. h + 1 \in Begins(s, e, q)
  <2>1. h + 1 - 1 = h
    OBVIOUS
  <2>. QED BY <1>1, <1>2, <1>4, <2>1 DEF Begins
<1>8. FirstLineEnds(s, p, e)
  BY <1>1 DEF GoodHead
<1>. QED BY <1>2, <1>3, <1>5, <1>6, <1>7, <1>8 DEF IsBad


-----------------------------------------------------------------------------
(* The empty line ends the head, and the body follows.                      *)

LEMMA HeadRead ==
    ASSUME NEW s, NEW p \in Nat, NEW h \in Nat, NEW l \in BodyLengths, NEW m \in Packet,
           Heading(s, p, h, l, m), s[h + 1] = "nl", m.body = <<>>
    PROVE  /\ l = 0 \/ (l = Unknown /\ ~UntilClose(m.first)) => MessageIs(s, p, h + 1, m)
           /\ (IF l = Unknown THEN UntilClose(m.first) ELSE l <= MaxBody) =>
                  Filling(s, p, h + 1, l, m)
           /\ \A q \in Nat : l > MaxBody /\ h + 1 <= q => IsBad(s, p, q)
<1>1. PICK e \in p + 1..h :
        /\ GoodHead(s, p, e, h) /\ NoEmptyLine(s, e, h) /\ s[h] = "nl"
        /\ LengthIs(s, e, h, l) /\ m.first = s[p + 1] /\ HeadersAre(s, e, h, m.headers)
  BY DEF Heading
<1> DEFINE g == h + 1
<1>2. /\ e \in Nat \ {0} /\ h \in Nat \ {0} /\ e <= h /\ g \in Nat /\ e < g /\ e \in p + 1..g
      /\ g \in p + 1..g /\ g - 1 = h /\ h <= g /\ g \in g..g /\ h \in e..g /\ e \in 1..g
      /\ g \in h..g /\ s[g] = "nl" /\ e <= g
  OBVIOUS
<1>3. Begins(s, e, g) = Begins(s, e, h) /\ Begins(s, e, h) \subseteq e + 1..h
  <2>1. \A i \in e + 1..g : i \in e + 1..h \/ i = g
    BY <1>2
  <2>2. e + 1..h \subseteq e + 1..g
    BY <1>2
  <2>. QED BY <1>2, <2>1, <2>2 DEF Begins
<1> HIDE DEF g
<1>4. LengthLines(s, e, g) = LengthLines(s, e, h) /\ OtherLines(s, e, g) = OtherLines(s, e, h)
  BY <1>3 DEF LengthLines, OtherLines
<1>5. HeadEnds(s, e, g)
  BY <1>1, <1>2 DEF HeadEnds, IsEmptyLine
<1>6. GoodHead(s, p, e, g)
  <2>1. \A i \in Begins(s, e, h) : LineParted(s, i, g)
    <3> SUFFICES ASSUME NEW i \in Begins(s, e, h) PROVE LineParted(s, i, g)
      OBVIOUS
    <3>1. PICK j \in i..h : s[j] \in Colons /\ \A x \in i..j : s[x] # "nl"
      BY <1>1 DEF GoodHead, LineParted
    <3>2. j \in i..g
      BY <1>2, <1>3
    <3>. QED BY <3>1, <3>2 DEF LineParted
  <2>. QED BY <1>1, <1>2, <1>3, <2>1 DEF GoodHead
<1>7. LengthIs(s, e, g, l)
  BY <1>1, <1>4 DEF LengthIs
<1>8. HeadIs(s, p, e, g, l)
  BY <1>5, <1>6, <1>7 DEF HeadIs
<1>9. HeadersAre(s, e, g, m.headers)
  <2>1. Agree(s, s, g) /\ m.headers \in Seq(Seq(Symbol))
    BY PacketFields DEF Agree
  <2>. QED BY <1>1, <1>2, <1>4, <2>1, HeadersStay
<1>10. BodyIs(s, g, g, m.body)
  <2>1. Len(m.body) = 0 /\ DOMAIN m.body = {} /\ g - g = 0
    BY <1>2
  <2>. QED BY <2>1 DEF BodyIs
<1>11. PacketIs(s, p, e, g, g, m)
  BY <1>1, <1>9, <1>10 DEF PacketIs
<1>12. ASSUME l = 0 \/ (l = Unknown /\ ~UntilClose(m.first)) PROVE MessageIs(s, p, g, m)
  <2>1. 0 <= MaxBody /\ g = g + 0 /\ 0 # Unknown
    BY <1>2, LengthsAre, HttpChannelAssumption
  <2>2. BodyEnds(s, p, g, l, g)
    BY <1>1, <1>12, <2>1 DEF BodyEnds
  <2>. QED BY <1>2, <1>8, <1>11, <2>2 DEF MessageIs
<1>13. ASSUME IF l = Unknown THEN UntilClose(m.first) ELSE l <= MaxBody
       PROVE  Filling(s, p, g, l, m)
  BY <1>1, <1>2, <1>8, <1>11, <1>13 DEF Filling
<1>14. ASSUME NEW q \in Nat, l > MaxBody, g <= q PROVE IsBad(s, p, q)
  <2>1. FirstLineEnds(s, p, e) /\ e \in p + 1..q /\ g \in e + 1..q
    BY <1>1, <1>2, <1>14 DEF GoodHead
  <2>. QED BY <1>5, <1>7, <1>14, <2>1 DEF IsBad
<1>. QED BY <1>12, <1>13, <1>14 DEF g

LEMMA BodyRead ==
    ASSUME NEW s, NEW p \in Nat, NEW q \in Nat, NEW k \in Nat, NEW l \in BodyLengths,
           NEW m \in Packet, Filling(s, p, q, l, m),
           NEW t \in Seq(Symbol), Len(t) = k, \A i \in 1..k : t[i] = s[q + i],
           NEW r, r.first = m.first, r.headers = m.headers, r.body = m.body \o t
    PROVE  /\ Filling(s, p, q + k, l, r)
           /\ Len(r.body) = l => MessageIs(s, p, q + k, r)
<1>1. PICK e, h \in p + 1..q :
        /\ HeadIs(s, p, e, h, l) /\ PacketIs(s, p, e, h, q, m)
        /\ IF l = Unknown THEN UntilClose(s[p + 1]) ELSE l <= MaxBody
  BY DEF Filling
<1> DEFINE b == m.body
           n == Len(b)
           g == q + k
<1>2. b \in Seq(Symbol) /\ n \in Nat /\ DOMAIN b = 1..n
  BY PacketFields
<1>3. n = q - h /\ \A i \in 1..n : b[i] = s[h + i]
  BY <1>1, <1>2 DEF PacketIs, BodyIs
<1>4. /\ b \o t \in Seq(Symbol) /\ Len(b \o t) = n + k
      /\ \A i \in 1..n : (b \o t)[i] = b[i]
      /\ \A i \in 1..k : (b \o t)[n + i] = t[i]
  BY <1>2, Joined
<1>5. /\ p \in Nat /\ h \in Nat /\ q \in Nat /\ g \in Nat /\ g = q + k
      /\ e \in p + 1..g /\ h \in p + 1..g
  OBVIOUS
<1> DEFINE c == b \o t
<1>6. r.body = c
  OBVIOUS
<1> HIDE DEF b, n, g, c
<1>7. DOMAIN c = 1..n + k /\ Len(c) = n + k
  BY <1>4 DEF c
<1>8. Len(c) = g - h
  BY <1>2, <1>3, <1>5, <1>7
<1>9. ASSUME NEW i \in 1..n + k PROVE c[i] = s[h + i]
  <2>1. CASE i \in 1..n
    BY <1>3, <1>4, <2>1 DEF c
  <2>2. CASE i \notin 1..n
    <3>1. i - n \in 1..k /\ n + (i - n) = i /\ q + (i - n) = h + i
      BY <1>2, <1>3, <1>5, <2>2
    <3> DEFINE j == i - n
    <3> HIDE DEF j
    <3>2. j \in 1..k /\ n + j = i /\ q + j = h + i
      BY <3>1 DEF j
    <3>3. c[n + j] = t[j] /\ t[j] = s[q + j]
      BY <1>4, <3>2 DEF c
    <3>. QED BY <3>2, <3>3
  <2>. QED BY <2>1, <2>2
<1>10. BodyIs(s, h, g, r.body)
  BY <1>6, <1>7, <1>8, <1>9 DEF BodyIs
<1>11. PacketIs(s, p, e, h, g, r)
  BY <1>1, <1>10 DEF PacketIs
<1>12. Filling(s, p, g, l, r)
  BY <1>1, <1>5, <1>11 DEF Filling
<1>13. ASSUME Len(r.body) = l PROVE MessageIs(s, p, g, r)
  <2>1. l = g - h /\ l \in Nat
    BY <1>2, <1>6, <1>7, <1>8, <1>13
  <2>2. l # Unknown /\ g = h + l
    BY <1>5, <2>1, LengthsAre
  <2>3. BodyEnds(s, p, h, l, g)
    BY <1>1, <2>2 DEF BodyEnds
  <2>. QED BY <1>1, <1>5, <1>11, <2>3 DEF MessageIs
<1>. QED BY <1>12, <1>13 DEF g

-----------------------------------------------------------------------------
(* A step keeps what is said of the text: first what was handed on.         *)

LEMMA ToldFields ==
    ASSUME HttpTypeOK
    PROVE  /\ DOMAIN told = 1..Len(told) /\ Len(told) \in Nat
           /\ \A i \in 1..Len(told) : told[i].packet \in Packet /\ told[i].end \in Nat
           /\ \A i \in 0..Len(told) : Begin(i) \in Nat
           /\ NextBegin \in Nat
<1>1. told \in Seq([packet : Packet, end : Nat])
  BY DEF HttpTypeOK
<1>2. /\ DOMAIN told = 1..Len(told) /\ Len(told) \in Nat
      /\ \A i \in 1..Len(told) : told[i] \in [packet : Packet, end : Nat]
  <2> DEFINE S == [packet : Packet, end : Nat]
  <2>1. told \in Seq(S)
    BY <1>1
  <2> HIDE DEF S
  <2>2. /\ DOMAIN told = 1..Len(told) /\ Len(told) \in Nat
        /\ \A i \in 1..Len(told) : told[i] \in S
    BY <2>1
  <2>. QED BY <2>2 DEF S
<1>3. \A i \in 1..Len(told) : told[i].packet \in Packet /\ told[i].end \in Nat
  BY <1>2
<1>4. \A i \in 0..Len(told) : i = 0 \/ i \in 1..Len(told)
  BY <1>2
<1>5. \A i \in 0..Len(told) : Begin(i) \in Nat
  BY <1>3, <1>4 DEF Begin
<1>6. Len(told) \in 0..Len(told)
  BY <1>2
<1>. QED BY <1>2, <1>3, <1>5, <1>6 DEF NextBegin

(* The words that a first line begins with depend on the role alone.        *)
LEMMA RoleStays ==
    ASSUME role' = role
    PROVE  /\ \A p, q, m : MessageIs(sent, p, q, m)' <=> MessageIs(sent', p, q, m)
           /\ \A p, q, m : LastMessageIs(sent, p, q, m)' <=> LastMessageIs(sent', p, q, m)
           /\ \A p, q : IsMessage(sent, p, q)' <=> IsMessage(sent', p, q)
           /\ \A p, q : IsBad(sent, p, q)' <=> IsBad(sent', p, q)
           /\ \A p, q, n, m : Heading(sent, p, q, n, m)' <=> Heading(sent', p, q, n, m)
           /\ \A p, q, n, m : Filling(sent, p, q, n, m)' <=> Filling(sent', p, q, n, m)
<1> USE DEF GoodHead, FirstWords, IsClient, BodyEnds, UntilClose, HeadIs
<1>1. \A p, q, m : MessageIs(sent, p, q, m)' <=> MessageIs(sent', p, q, m)
  BY DEF MessageIs
<1>2. \A p, q, m : LastMessageIs(sent, p, q, m)' <=> LastMessageIs(sent', p, q, m)
  BY DEF LastMessageIs
<1>3. \A p, q : IsMessage(sent, p, q)' <=> IsMessage(sent', p, q)
  BY DEF IsMessage
<1>4. \A p, q : IsBad(sent, p, q)' <=> IsBad(sent', p, q)
  BY DEF IsBad
<1>5. \A p, q, n, m : Heading(sent, p, q, n, m)' <=> Heading(sent', p, q, n, m)
  BY DEF Heading
<1>6. \A p, q, n, m : Filling(sent, p, q, n, m)' <=> Filling(sent', p, q, n, m)
  BY DEF Filling
<1>. QED BY <1>1, <1>2, <1>3, <1>4, <1>5, <1>6

LEMMA RecordedStays ==
    ASSUME Base, Recorded, told' = told, role' = role, long' = long \/ long', Used' \in Nat, Used <= Used',
           \/ sent' = sent /\ (conn = "freed" => conn' = "freed") /\ (closed => closed')
           \/ conn # "freed" /\ Agree(sent, sent', Come)
    PROVE  Recorded'
<1> SUFFICES ASSUME ~long', NEW i \in DOMAIN told PROVE RecordedAt(i)'
  BY DEF Recorded
<1> DEFINE m == told[i].packet
           q == told[i].end
           p == Begin(i - 1)
<1>1. HttpTypeOK /\ ~long
  BY DEF Base
<1>2. m \in Packet /\ q \in Nat /\ p \in Nat
  <2>1. i \in 1..Len(told) /\ i - 1 \in 0..Len(told)
    BY <1>1, ToldFields
  <2>. QED BY <1>1, <2>1, ToldFields
<1>3. \/ MessageIs(sent, p, q, m) /\ q <= Used
      \/ /\ i = Len(told) /\ conn = "freed"
         /\ m = Error \/ (closed /\ LastMessageIs(sent, p, Len(sent), m))
  BY <1>1 DEF Recorded, RecordedAt
<1>4. Used \in Nat /\ Come \in Nat /\ Used <= Come
  BY Numbers DEF Base
<1> HIDE DEF m, q, p
<1>5. MessageIs(sent, p, q, m) /\ q <= Used => MessageIs(sent', p, q, m) /\ q <= Used'
  <2> SUFFICES ASSUME MessageIs(sent, p, q, m), q <= Used PROVE MessageIs(sent', p, q, m) /\ q <= Used'
    OBVIOUS
  <2>1. q <= Used' /\ q \in 0..Come
    BY <1>2, <1>4
  <2>2. CASE Agree(sent, sent', Come)
    BY <1>2, <1>4, <2>1, <2>2, MessageStays
  <2>3. CASE sent' = sent
    BY <2>1, <2>3
  <2>. QED BY <2>1, <2>2, <2>3
<1>6. \/ MessageIs(sent', p, q, m) /\ q <= Used'
      \/ /\ i = Len(told) /\ conn' = "freed"
         /\ m = Error \/ (closed' /\ LastMessageIs(sent', p, Len(sent'), m))
  BY <1>3, <1>5
<1>7. Begin(i - 1)' = p
  BY DEF Begin, p
<1>. QED BY <1>6, <1>7, RoleStays DEF m, q, RecordedAt

LEMMA RecordedGrows ==
    ASSUME Base, Recorded, NEW r \in Packet, Told(r), UNCHANGED <<sent, closed, long, role>>,
           Used' = Used, conn # "freed",
           ~long => \/ MessageIs(sent, NextBegin, Used, r)
                    \/ /\ conn' = "freed"
                       /\ r = Error \/ (closed /\ LastMessageIs(sent, NextBegin, Len(sent), r))
    PROVE  Recorded' /\ NextBegin' = Used
<1>1. HttpTypeOK /\ Good(buf) /\ Stream
  BY DEF Base
<1> DEFINE c == Len(told)
<1>2. /\ told' \in Seq([packet : Packet, end : Nat]) /\ Len(told') = c + 1
      /\ \A i \in 1..c : told'[i] = told[i]
      /\ told'[c + 1] = [packet |-> r, end |-> Used]
  BY <1>1, ToldType
<1>3. DOMAIN told' = 1..c + 1 /\ DOMAIN told = 1..c /\ c \in Nat /\ Used \in Nat
  BY <1>1, <1>2, Numbers, ToldFields
<1>4. told'[c + 1].packet = r /\ told'[c + 1].end = Used
  BY <1>2
<1>5. NextBegin' = Used
  BY <1>2, <1>3, <1>4 DEF NextBegin, Begin
<1>6. \A i \in 0..c : Begin(i)' = Begin(i)
  BY <1>2, <1>3 DEF Begin
<1> HIDE DEF c
<1>7. ASSUME ~long', NEW i \in DOMAIN told' PROVE RecordedAt(i)'
  <2>1. CASE i \in 1..c
    <3>1. i \in DOMAIN told /\ told'[i] = told[i] /\ i - 1 \in 0..c
      BY <1>2, <1>3, <2>1 DEF c
    <3>2. MessageIs(sent, Begin(i - 1), told[i].end, told[i].packet) /\ told[i].end <= Used
      BY <1>7, <3>1 DEF Recorded, RecordedAt
    <3>3. Begin(i - 1)' = Begin(i - 1)
      BY <1>6, <3>1
    <3>. QED BY <3>1, <3>2, <3>3, RoleStays DEF RecordedAt
  <2>2. CASE i = c + 1
    <3>1. c + 1 - 1 = c /\ c \in 0..c
      BY <1>3
    <3>2. Begin(i - 1)' = NextBegin
      BY <1>6, <2>2, <3>1 DEF NextBegin, c
    <3>3. Used <= Used
      BY <1>3
    <3>. QED BY <1>2, <1>4, <1>7, <2>2, <3>2, <3>3, RoleStays DEF RecordedAt
  <2>3. i \in 1..c \/ i = c + 1
    BY <1>3
  <2>. QED BY <2>1, <2>2, <2>3
<1>8. Recorded'
  BY <1>7 DEF Recorded
<1>. QED BY <1>5, <1>8

(* Then what is being read.                                                 *)
LEMMA ReadingStays ==
    ASSUME Base, Reading, UNCHANGED <<st, dest, pk, told, role, long>>, Used' = Used,
           conn' = "up" => conn = "up",
           (sent' = sent /\ Come' = Come) \/ (pc = "poll" /\ Agree(sent, sent', Come))
    PROVE  Reading'
<1> SUFFICES ASSUME ~long, conn = "up" PROVE Reading'
  BY DEF Reading
<1>1. /\ HttpTypeOK /\ pk \in Packet /\ NextBegin \in Nat /\ NextBegin' = NextBegin
      /\ Used \in Nat /\ Come \in Nat /\ Used \in 0..Come
  <2>1. HttpTypeOK /\ Used \in Nat /\ Come \in Nat /\ Come = Used + Readable(buf)
        /\ Readable(buf) \in Nat
    BY Numbers DEF Base
  <2>2. NextBegin' = NextBegin
    BY DEF NextBegin, Begin
  <2>3. pk \in Packet /\ NextBegin \in Nat
    BY <2>1, ToldFields DEF HttpTypeOK
  <2>. QED BY <2>1, <2>2, <2>3
<1> DEFINE p == NextBegin
<1>2. /\ st \in {"start", "first"} => Used = p
      /\ st = "header" => Heading(sent, p, Used, dest, pk)
      /\ st = "body" => Filling(sent, p, Used, dest, pk)
      /\ st = "done" => MessageIs(sent, p, Used, pk)
      /\ st = "error" => IsBad(sent, p, Come)
  BY DEF Reading
<1>3. pc = "poll" => st # "error"
  BY DEF Base, Control
<1> HIDE DEF p
<1>4. p \in Nat
  BY <1>1 DEF p
<1>5. /\ Heading(sent, p, Used, dest, pk) => Heading(sent', p, Used, dest, pk)
      /\ Filling(sent, p, Used, dest, pk) => Filling(sent', p, Used, dest, pk)
      /\ MessageIs(sent, p, Used, pk) => MessageIs(sent', p, Used, pk)
  <2>1. CASE sent' = sent
    BY <2>1
  <2>2. CASE Agree(sent, sent', Come)
    BY <1>1, <1>4, <2>2, HeadingStays, FillingStays, MessageStays
  <2>. QED BY <2>1, <2>2
<1>6. st = "error" => IsBad(sent', p, Come')
  BY <1>2, <1>3
<1>7. /\ st' \in {"start", "first"} => Used' = p
      /\ st' = "header" => Heading(sent', p, Used', dest', pk')
      /\ st' = "body" => Filling(sent', p, Used', dest', pk')
      /\ st' = "done" => MessageIs(sent', p, Used', pk')
      /\ st' = "error" => IsBad(sent', p, Come')
  BY <1>2, <1>5, <1>6
<1>. QED BY <1>1, <1>7, RoleStays DEF Reading, p

LEMMA QuietInv ==
    ASSUME HttpInv,
           TimePasses \/ AppCancels \/ Connected \/ Write \/ TimedOut \/ GoesOn \/ NoEvent
    PROVE  HttpInv'
<1>1. UNCHANGED <<buf, wire, sent, told, st, dest, pk, closed, long, role>>
  BY DEF TimePasses, AppCancels, Connected, Write, TimedOut, GoesOn, NoEvent, reader, peer
<1>2. Base' /\ Base
  BY QuietBase DEF HttpInv
<1>3. Used' = Used /\ Come' = Come /\ Readable(buf') = Readable(buf) /\ Text' = Text
  BY <1>1, <1>2, StillText
<1>4. Used \in Nat /\ Used <= Used'
  BY <1>2, <1>3, Numbers DEF Base
<1>5. /\ pc' = pc /\ (conn = "freed" => conn' = "freed")
      /\ conn' = "up" => conn = "up" \/ conn = "connecting"
  BY <1>2 DEF Base, HttpTypeOK, TimePasses, AppCancels, Connected, Write, TimedOut, GoesOn, NoEvent,
     InEvent, EndOfEvent, CancelQuery
<1>6. Recorded'
  BY <1>1, <1>2, <1>3, <1>4, <1>5, RecordedStays DEF HttpInv
<1>7. CASE conn = "connecting"
  <2>1. st = "start" /\ told = <<>> /\ sent = wire /\ Readable(buf) = 0
    BY <1>2, <1>7 DEF Base, Control
  <2>2. Used' = 0 /\ NextBegin' = 0
    <3>1. Len(sent) \in Nat
      BY <1>2 DEF Base, HttpTypeOK
    <3>2. Used = 0
      BY <2>1, <3>1 DEF Used, Come
    <3>3. Len(told') = 0
      BY <1>1, <2>1
    <3>. QED BY <1>3, <3>2, <3>3 DEF NextBegin, Begin
  <2>3. st' = "start"
    BY <1>1, <2>1
  <2>. QED BY <1>2, <1>6, <2>2, <2>3 DEF HttpInv, Reading, Waiting
<1>8. CASE conn # "connecting"
  <2>1. Reading'
    BY <1>1, <1>2, <1>3, <1>5, <1>8, ReadingStays DEF HttpInv
  <2>2. Waiting'
    BY <1>1, <1>3, <1>5, <1>8 DEF HttpInv, Waiting
  <2>. QED BY <1>2, <1>6, <2>1, <2>2 DEF HttpInv
<1>. QED BY <1>7, <1>8

LEMMA PeerInv ==
    ASSUME HttpInv, PeerSends \/ PeerCloses
    PROVE  HttpInv'
<1>1. UNCHANGED <<conn, pc, told, st, dest, pk, buf, long, role>> /\ conn = "up" /\ pc = "poll"
  BY DEF PeerSends, PeerCloses, reader
<1>2. Base' /\ Base
  BY PeerBase DEF HttpInv
<1>3. Used' = Used /\ Agree(sent, sent', Come)
  BY <1>2, PeerSendsText, PeerClosesText DEF Agree
<1>4. Used \in Nat /\ Used <= Used' /\ Text' = Text
  BY <1>1, <1>2, <1>3, Numbers DEF Base, Text
<1>5. Recorded'
  BY <1>1, <1>2, <1>3, <1>4, RecordedStays DEF HttpInv
<1>6. Reading'
  BY <1>1, <1>2, <1>3, ReadingStays DEF HttpInv
<1>7. Waiting'
  BY <1>1, <1>4 DEF HttpInv, Waiting
<1>. QED BY <1>2, <1>5, <1>6, <1>7 DEF HttpInv

LEMMA EventReadInv ==
    ASSUME HttpInv, EventRead
    PROVE  HttpInv'
<1>1. /\ UNCHANGED <<conn, told, st, dest, pk, long, role, sent>> /\ conn = "up" /\ pc = "poll"
      /\ pc' = "read"
  BY DEF EventRead, InEvent
<1>2. Base' /\ Base
  BY EventReadBase DEF HttpInv
<1>3. Used' = Used /\ Agree(sent, sent', Come)
  BY <1>1, <1>2, EventReadText DEF Agree
<1>4. Used \in Nat /\ Used <= Used'
  BY <1>2, <1>3, Numbers DEF Base
<1>5. Recorded'
  BY <1>1, <1>2, <1>3, <1>4, RecordedStays DEF HttpInv
<1>6. Reading'
  BY <1>1, <1>2, <1>3, ReadingStays DEF HttpInv
<1>7. Waiting'
  BY <1>1 DEF Waiting
<1>. QED BY <1>2, <1>5, <1>6, <1>7 DEF HttpInv

(* The channel ends: an error is the last thing told of, or the packet that *)
(* the close of the peer ends, with all the text behind its head.           *)
LEMMA ClosedText ==
    ASSUME HttpInv, ReadClose, ~long, ToldOfClose # Error
    PROVE  LastMessageIs(sent, NextBegin, Len(sent), ToldOfClose)
<1>1. /\ conn = "up" /\ pc = "poll" /\ wire = <<>> /\ st = "body" /\ dest = Unknown
      /\ ToldOfClose = pk
  BY DEF ReadClose, InEvent, ToldOfClose
<1>2. Filling(sent, NextBegin, Used, Unknown, pk) /\ Readable(buf) = 0
  BY <1>1 DEF HttpInv, Reading, Waiting
<1>3. Used = Len(sent) /\ Len(wire) = 0
  BY <1>1, <1>2, Numbers DEF HttpInv, Base
<1>4. Filling(sent, NextBegin, Len(sent), Unknown, pk)
  BY <1>2, <1>3
<1>. QED BY <1>1, <1>4 DEF Filling, LastMessageIs

LEMMA EndInv ==
    ASSUME HttpInv, ConnectFails \/ ReadClose \/ Breaks \/ BadPacket
    PROVE  HttpInv'
<1>1. UNCHANGED <<buf, wire, sent, closed, long, role>> /\ conn' = "freed"
  BY DEF ConnectFails, ReadClose, Breaks, BadPacket, Pass, peer, EndOfEvent
<1>2. Base' /\ Base /\ Recorded
  BY EndBase DEF HttpInv
<1>3. Used' = Used
  BY <1>1, <1>2, StillText
<1>4. conn # "freed"
  BY <1>2 DEF Base, Control, ConnectFails, ReadClose, Breaks, BadPacket, Pass
<1>5. Recorded'
  <2>1. CASE ReadClose
    <3>1. Told(ToldOfClose) /\ closed /\ ToldOfClose \in Packet
      BY <1>2, <2>1, PacketsAre DEF ReadClose, ToldOfClose, Base, HttpTypeOK
    <3>2. ~long => ToldOfClose = Error \/ LastMessageIs(sent, NextBegin, Len(sent), ToldOfClose)
      BY <2>1, ClosedText
    <3>. QED BY <1>1, <1>2, <1>3, <1>4, <3>1, <3>2, RecordedGrows
  <2>2. CASE ConnectFails \/ Breaks \/ BadPacket
    <3>1. Told(Error) /\ Error \in Packet
      BY <2>2, PacketsAre DEF ConnectFails, Breaks, BadPacket
    <3>. QED BY <1>1, <1>2, <1>3, <1>4, <3>1, RecordedGrows
  <2>. QED BY <2>1, <2>2
<1>6. Reading' /\ Waiting'
  BY <1>1 DEF Reading, Waiting
<1>. QED BY <1>2, <1>5, <1>6 DEF HttpInv

-----------------------------------------------------------------------------
(* The passes of the reader's loop.                                         *)

LEMMA PassIs ==
    ASSUME HttpInv, ReadData, ~BadPacket
    PROVE  /\ Base /\ Base' /\ pc = "read" /\ conn = "up" /\ UNCHANGED <<wire, sent, closed, role>>
           /\ ~Done => told' = told /\ NextBegin' = NextBegin
           /\ (long => long') /\ Come' = Come /\ Used \in Nat /\ Come \in Nat
           /\ Used' \in Nat /\ Used <= Used' /\ Recorded
<1>1. /\ pc = "read" /\ UNCHANGED <<wire, sent, closed, role>> /\ (~Done => told' = told)
      /\ (long => long')
  <2>1. pc = "read" /\ UNCHANGED <<wire, sent, closed, role>>
    BY DEF ReadData, BadPacket, Start, FirstLineWaits, FirstLineTooLong, ReadFirstLine,
       HeaderWaits, Header, HeaderEnds, Body, Done, Waits, Pass, peer
  <2>2. ~Done => told' = told
    BY DEF ReadData, BadPacket, Start, FirstLineWaits, FirstLineTooLong, ReadFirstLine,
       HeaderWaits, Header, HeaderEnds, Body
  <2>3. long' = long \/ FirstLineTooLong \/ HeaderEnds
    BY DEF ReadData, BadPacket, Start, FirstLineWaits, ReadFirstLine, HeaderWaits, Header, Body,
       Done
  <2>4. long => long'
    BY <2>3, Zenon DEF FirstLineTooLong, HeaderEnds
  <2>. QED BY <2>1, <2>2, <2>4
<1>2. Base /\ Base' /\ conn = "up" /\ Recorded
  BY <1>1, PassBase DEF HttpInv, Base, Control
<1>3. Come' = Come
  BY <1>1 DEF Come
<1>4. /\ Used \in Nat /\ Come \in Nat /\ Readable(buf) \in Nat
      /\ Text \in Seq(Symbol) /\ Len(Text) = Readable(buf)
  BY <1>2, Numbers DEF Base
<1>5. \E n \in 0..Readable(buf) : buf' = Taken(buf, n) \/ buf' = buf
  <2>1. 0 \in 0..Readable(buf) /\ Eol(Text) \in 0..Readable(buf)
    BY <1>4, EolIs
  <2>2. ASSUME HeaderEnds PROVE buf' = buf \/ (buf' = Taken(buf, 1) /\ 1 \in 0..Readable(buf))
    BY <1>4, <2>1, <2>2 DEF HeaderEnds
  <2>3. ASSUME Body PROVE buf' = Taken(buf, Missing) /\ Missing \in 0..Readable(buf)
    BY <1>2, <2>3, MissingIs DEF Body
  <2>. QED BY <2>1, <2>2, <2>3 DEF ReadData, BadPacket, Start, FirstLineWaits, FirstLineTooLong,
           ReadFirstLine, HeaderWaits, Header, Done
<1>6. Used <= Used' /\ Used' \in Nat
  BY <1>1, <1>2, <1>4, <1>5, StillText, TakenText
<1>7. ~Done => NextBegin' = NextBegin
  BY <1>1 DEF NextBegin, Begin
<1>. QED BY <1>1, <1>2, <1>3, <1>4, <1>6, <1>7

(* With nothing read, or a line missing.                                    *)
LEMMA WaitInv ==
    ASSUME HttpInv, Start \/ FirstLineWaits \/ HeaderWaits \/ FirstLineTooLong, ~BadPacket, ~Done
    PROVE  Reading' /\ Waiting'
<1>1. /\ Base /\ UNCHANGED <<wire, sent, role, told, buf>> /\ NextBegin' = NextBegin
      /\ conn = "up" /\ pc = "read"
  BY PassIs DEF ReadData, Start, FirstLineWaits, HeaderWaits, FirstLineTooLong
<1>2. Used' = Used /\ Come' = Come /\ Readable(buf') = Readable(buf) /\ Text' = Text
  BY <1>1, StillText
<1>3. CASE FirstLineTooLong
  BY <1>3 DEF FirstLineTooLong, Reading, Waiting
<1>4. CASE Start
  BY <1>1, <1>2, <1>4 DEF Start, Pass, Goes, HttpInv, Reading, Waiting
<1>5. CASE FirstLineWaits \/ HeaderWaits
  <2>1. UNCHANGED <<st, dest, pk, told, role, long>> /\ Eol(Text) = 0 /\ st \in {"first", "header"}
    BY <1>5 DEF FirstLineWaits, HeaderWaits, Waits, Pass
  <2>2. Reading'
    BY <1>1, <1>2, <2>1, ReadingStays DEF HttpInv
  <2>3. \A i \in 1..Readable(buf) : Text[i] # "nl"
    <3>1. Text \in Seq(Symbol) /\ Len(Text) = Readable(buf)
      BY <1>1, Numbers DEF Base
    <3>. QED BY <2>1, <3>1, EolIs
  <2>4. Waiting'
    BY <1>2, <2>1, <2>3 DEF Waiting
  <2>. QED BY <2>2, <2>4
<1>. QED BY <1>3, <1>4, <1>5

LEMMA FirstLineInv ==
    ASSUME HttpInv, ReadFirstLine, ~BadPacket, ~Done
    PROVE  Reading' /\ Waiting'
<1>1. /\ Base /\ Recorded /\ UNCHANGED <<wire, sent, role, told, long, dest>> /\ NextBegin' = NextBegin
      /\ conn = "up" /\ pc = "read" /\ pc' = "read" /\ conn' = "up" /\ Come \in Nat
      /\ Used \in Nat /\ Come' = Come /\ st = "first"
  BY PassIs DEF ReadData, ReadFirstLine, Goes
<1> DEFINE n == Eol(Text)
           p == NextBegin
<1>2. /\ n \in 1..Readable(buf) /\ sent[Used + n] = "nl"
      /\ \A i \in 1..n - 1 : sent[Used + i] # "nl"
      /\ Line \in Seq(Symbol) /\ Len(Line) = n - 1
      /\ \A i \in 1..n - 1 : Line[i] = sent[Used + i]
  BY <1>1, LineText DEF ReadFirstLine
<1>3. Readable(buf) \in Nat /\ Come = Used + Readable(buf) /\ p \in Nat
  BY <1>1, Numbers, ToldFields DEF Base
<1>4. buf' = Taken(buf, n) /\ n \in 0..Readable(buf)
  BY <1>2, <1>3 DEF ReadFirstLine
<1>5. Used' = Used + n
  BY <1>1, <1>4, TakenText
<1> SUFFICES ASSUME ~long PROVE Reading'
  BY <1>1 DEF Reading, Waiting
<1>6. Used = p /\ pk = Cleared /\ dest = Unknown
  BY <1>1 DEF HttpInv, Reading, Base, Filled
<1>7. pk.headers = <<>>
  BY <1>6 DEF Cleared
<1>8. Line # <<>> => n > 1 /\ Head(Line) = sent[p + 1]
  <2> SUFFICES ASSUME Line # <<>> PROVE n > 1 /\ Head(Line) = sent[p + 1]
    OBVIOUS
  <2>1. Len(Line) # 0 /\ Head(Line) = Line[1]
    BY <1>2
  <2>2. n > 1 /\ 1 \in 1..n - 1
    BY <1>2, <2>1
  <2>. QED BY <1>2, <1>6, <2>1, <2>2
<1>9. CASE IsFirstLine(Line)
  <2>1. st' = "header" /\ pk' = [pk EXCEPT !.first = Head(Line)]
    BY <1>9 DEF ReadFirstLine, Pass
  <2>2. pk \in Packet
    BY <1>1 DEF Base, HttpTypeOK
  <2>3. pk'.first = Head(Line) /\ pk'.headers = <<>>
    BY <1>7, <2>1, <2>2 DEF Packet
  <2>4. n > 1 /\ Head(Line) = sent[p + 1] /\ sent[p + 1] \in FirstWords
    BY <1>8, <1>9 DEF IsFirstLine
  <2>5. n \in Nat \ {0} /\ sent[p + n] = "nl" /\ \A i \in 1..n - 1 : sent[p + i] # "nl"
    BY <1>2, <1>6
  <2> HIDE DEF n, p
  <2>6. Heading(sent, p, p + n, Unknown, pk')
    BY <1>3, <2>3, <2>4, <2>5, FirstLineRead
  <2>. QED BY <1>1, <1>5, <1>6, <2>1, <2>6, RoleStays DEF Reading, p
<1>10. CASE ~IsFirstLine(Line)
  <2>1. st' = "error"
    BY <1>10 DEF ReadFirstLine, Pass
  <2>2. n = 1 \/ sent[p + 1] \notin FirstWords
    <3>1. Line = <<>> => n = 1
      BY <1>2
    <3>. QED BY <1>8, <1>10, <3>1 DEF IsFirstLine
  <2>3. /\ n \in Nat \ {0} /\ sent[p + n] = "nl" /\ \A i \in 1..n - 1 : sent[p + i] # "nl"
        /\ p + n <= Come
    BY <1>2, <1>3, <1>6
  <2> HIDE DEF n, p
  <2>4. IsBad(sent, p, Come)
    BY <1>1, <1>3, <2>2, <2>3, FirstLineBad
  <2>. QED BY <1>1, <2>1, <2>4, RoleStays DEF Reading, p
<1>. QED BY <1>9, <1>10

LEMMA HeaderInv ==
    ASSUME HttpInv, Header, ~BadPacket, ~Done
    PROVE  Reading' /\ Waiting'
<1>1. /\ Base /\ UNCHANGED <<wire, sent, role, told, long>> /\ NextBegin' = NextBegin
      /\ conn = "up" /\ pc = "read" /\ pc' = "read" /\ conn' = "up" /\ Come \in Nat
      /\ Used \in Nat /\ Come' = Come /\ st = "header"
  BY PassIs DEF ReadData, Header, Goes
<1> DEFINE n == Eol(Text)
           p == NextBegin
           h == Used
<1>2. /\ n \in 1..Readable(buf) /\ n > 1 /\ sent[h + n] = "nl"
      /\ \A i \in 1..n - 1 : sent[h + i] # "nl"
      /\ Line \in Seq(Symbol) /\ Len(Line) = n - 1
      /\ \A i \in 1..n - 1 : Line[i] = sent[h + i]
  BY <1>1, LineText, EolIs, Numbers DEF Header, Base
<1>3. Readable(buf) \in Nat /\ Come = h + Readable(buf) /\ p \in Nat /\ h \in Nat
  BY <1>1, Numbers, ToldFields DEF Base
<1>4. buf' = Taken(buf, n) /\ n \in 0..Readable(buf)
  BY <1>2, <1>3 DEF Header
<1>5. Used' = h + n
  BY <1>1, <1>4, TakenText
<1> SUFFICES ASSUME ~long PROVE Reading'
  BY <1>1 DEF Reading, Waiting
<1>6. Heading(sent, p, h, dest, pk) /\ pk \in Packet
  BY <1>1 DEF HttpInv, Reading, Base, HttpTypeOK
<1>7. n \in Nat /\ n > 1 /\ h + n <= Come
  BY <1>2, <1>3
<1> HIDE DEF n, p, h
<1>8. LineAt(sent, h, n, Line)
  <2>1. sent[h] = "nl"
    BY <1>6 DEF Heading
  <2>. QED BY <1>2, <2>1 DEF LineAt
<1>9. CASE HasColon(Line)
  <2>1. /\ st' = "header"
        /\ dest' = (IF IsLength(Line) THEN LengthOf[Head(Line)] ELSE dest)
        /\ pk' = (IF IsLength(Line) THEN pk ELSE [pk EXCEPT !.headers = Append(@, Line)])
    BY <1>9 DEF Header, Pass
  <2>5. /\ IsLength(Line) => pk' = pk
        /\ ~IsLength(Line) => pk' = [pk EXCEPT !.headers = Append(pk.headers, Line)]
    BY <2>1
  <2> DEFINE hs == Append(pk.headers, Line)
             c == [pk EXCEPT !.headers = hs]
  <2>6. c.first = pk.first /\ c.headers = hs
    BY <1>6, PacketChanged
  <2>7. ~IsLength(Line) => pk' = c
    BY <2>5
  <2> HIDE DEF c
  <2>2. pk'.first = pk.first
    BY <2>5, <2>6, <2>7
  <2>3. /\ IsLength(Line) => dest' = LengthOf[Head(Line)] /\ pk'.headers = pk.headers
        /\ ~IsLength(Line) => dest' = dest /\ pk'.headers = Append(pk.headers, Line)
    BY <2>1, <2>5, <2>6, <2>7
  <2> DEFINE l == dest'
             r == pk'
  <2>8. /\ r.first = pk.first
        /\ IsLength(Line) => l = LengthOf[Head(Line)] /\ r.headers = pk.headers
        /\ ~IsLength(Line) => l = dest /\ r.headers = Append(pk.headers, Line)
    BY <2>2, <2>3
  <2>9. Line \in Seq(Symbol)
    BY <1>2
  <2> HIDE DEF l, r
  <2>10. Heading(sent, p, h + n, l, r)
    BY <1>3, <1>6, <1>7, <1>8, <1>9, <2>8, <2>9, HeaderRead
  <2>4. Heading(sent, p, h + n, dest', pk')
    BY <2>10 DEF l, r
  <2>. QED BY <1>1, <1>5, <2>1, <2>4, RoleStays DEF Reading, p
<1>10. CASE ~HasColon(Line)
  <2>1. st' = "error"
    BY <1>10 DEF Header, Pass
  <2>2. IsBad(sent, p, Come)
    BY <1>1, <1>2, <1>3, <1>6, <1>7, <1>8, <1>10, HeaderBad
  <2>. QED BY <1>1, <2>1, <2>2, RoleStays DEF Reading, p
<1>. QED BY <1>9, <1>10

LEMMA HeaderEndsInv ==
    ASSUME HttpInv, HeaderEnds, ~BadPacket, ~Done
    PROVE  Reading' /\ Waiting'
<1>1. /\ Base /\ UNCHANGED <<wire, sent, role, told, pk>> /\ NextBegin' = NextBegin
      /\ conn = "up" /\ pc = "read" /\ pc' = "read" /\ conn' = "up" /\ Come \in Nat
      /\ Used \in Nat /\ Come' = Come /\ st = "header" /\ st' = AfterHeader
      /\ dest' = (IF HasBody THEN dest ELSE 0)
      /\ long' = (long \/ ~Fits(Text))
  BY PassIs DEF ReadData, HeaderEnds, Goes, Pass
<1> SUFFICES ASSUME ~long, Fits(Text) PROVE Reading'
  BY <1>1 DEF Reading, Waiting
<1> DEFINE p == NextBegin
           h == Used
<1>2. Eol(Text) = 1 /\ buf' = Taken(buf, 1)
  BY DEF HeaderEnds
<1>3. Readable(buf) \in Nat /\ Come = h + Readable(buf) /\ p \in Nat /\ h \in Nat
  BY <1>1, Numbers, ToldFields DEF Base
<1>4. 1 \in 1..Readable(buf) /\ sent[h + 1] = "nl"
  BY <1>1, <1>2, LineText
<1>5. Used' = h + 1 /\ h + 1 <= Come
  <2>1. 1 \in 0..Readable(buf)
    BY <1>3, <1>4
  <2>. QED BY <1>1, <1>2, <1>3, <2>1, TakenText
<1>6. Heading(sent, p, h, dest, pk) /\ pk \in Packet /\ dest \in BodyLengths /\ pk.body = <<>>
  BY <1>1 DEF HttpInv, Reading, Base, HttpTypeOK, Filled
<1> HIDE DEF p, h
<1>7. /\ dest = 0 \/ (dest = Unknown /\ ~UntilClose(pk.first)) => MessageIs(sent, p, h + 1, pk)
      /\ (IF dest = Unknown THEN UntilClose(pk.first) ELSE dest <= MaxBody) =>
             Filling(sent, p, h + 1, dest, pk)
      /\ \A q \in Nat : dest > MaxBody /\ h + 1 <= q => IsBad(sent, p, q)
  BY <1>3, <1>4, <1>6, HeadRead
<1>8. CASE ~HasBody \/ dest = 0
  <2>1. st' = "done" /\ MessageIs(sent, p, h + 1, pk)
    BY <1>1, <1>7, <1>8 DEF AfterHeader, HasBody
  <2>. QED BY <1>1, <1>5, <2>1, RoleStays DEF Reading, p
<1>9. CASE HasBody /\ dest # 0 /\ dest > MaxBody
  <2>1. st' = "error" /\ IsBad(sent, p, Come)
    BY <1>1, <1>5, <1>7, <1>9 DEF AfterHeader
  <2>. QED BY <1>1, <2>1, RoleStays DEF Reading, p
<1>10. CASE HasBody /\ dest # 0 /\ ~(dest > MaxBody)
  <2>1. dest <= MaxBody
    BY <1>6, <1>10, LengthsAre, HttpChannelAssumption
  <2>2. st' = "body" /\ dest' = dest /\ Filling(sent, p, h + 1, dest, pk)
    BY <1>1, <1>7, <1>10, <2>1 DEF AfterHeader, HasBody
  <2>. QED BY <1>1, <1>5, <2>2, RoleStays DEF Reading, p
<1>. QED BY <1>8, <1>9, <1>10

LEMMA BodyInv ==
    ASSUME HttpInv, Body, ~BadPacket, ~Done
    PROVE  Reading' /\ Waiting'
<1>1. /\ Base /\ UNCHANGED <<wire, sent, role, told, dest, long>> /\ NextBegin' = NextBegin
      /\ conn = "up" /\ pc = "read" /\ Come \in Nat
      /\ Used \in Nat /\ Come' = Come /\ st = "body" /\ buf' = Taken(buf, Missing)
      /\ pk' = [pk EXCEPT !.body = @ \o SubSeq(Text, 1, Missing)]
  BY PassIs DEF ReadData, Body, Pass
<1> SUFFICES ASSUME ~long, conn' = "up" PROVE Reading' /\ Waiting'
  BY <1>1 DEF Reading, Waiting
<1> DEFINE p == NextBegin
           q == Used
           k == Missing
           t == SubSeq(Text, 1, k)
<1>2. /\ Readable(buf) \in Nat /\ p \in Nat /\ q \in Nat /\ Text \in Seq(Symbol)
      /\ Len(Text) = Readable(buf) /\ \A i \in 1..Readable(buf) : Text[i] = sent[q + i]
  BY <1>1, Numbers, ToldFields DEF Base, Stream
<1>3. /\ k \in 0..Readable(buf)
      /\ dest = Unknown => k = Readable(buf)
      /\ dest # Unknown => /\ k <= dest - Len(pk.body)
                           /\ k # Readable(buf) => k = dest - Len(pk.body)
  BY <1>1, MissingIs
<1>4. Used' = q + k /\ Readable(buf') = Readable(buf) - k
  BY <1>1, <1>3, TakenText
<1>5. Filling(sent, p, q, dest, pk) /\ pk \in Packet /\ dest \in BodyLengths
  BY <1>1 DEF HttpInv, Reading, Base, HttpTypeOK
<1> HIDE DEF k
<1>6. t \in Seq(Symbol) /\ Len(t) = k /\ \A i \in 1..k : t[i] = Text[i]
  BY <1>2, <1>3
<1>7. k \in Nat /\ \A i \in 1..k : t[i] = sent[q + i]
  <2>1. k \in Nat /\ \A i \in 1..k : i \in 1..Readable(buf)
    BY <1>2, <1>3
  <2>. QED BY <1>2, <1>6, <2>1
<1>8. pk' = [pk EXCEPT !.body = pk.body \o t]
  BY <1>1 DEF k
<1> HIDE DEF t, p, q
<1>9. pk'.first = pk.first /\ pk'.headers = pk.headers /\ pk'.body = pk.body \o t
  <2> DEFINE b == pk.body \o t
             c == [pk EXCEPT !.body = b]
  <2>1. c.first = pk.first /\ c.headers = pk.headers /\ c.body = b
    BY <1>5, PacketChanged
  <2>2. pk' = c
    BY <1>8
  <2> HIDE DEF c
  <2>. QED BY <2>1, <2>2
<1>10. /\ Filling(sent, p, q + k, dest, pk')
       /\ Len(pk'.body) = dest => MessageIs(sent, p, q + k, pk')
  BY <1>2, <1>5, <1>6, <1>7, <1>9, BodyRead
<1>11. CASE Len(pk'.body) = dest
  <2>1. st' = "done" /\ pc' = "read"
    BY <1>1, <1>11 DEF Body, Pass, Goes
  <2>. QED BY <1>1, <1>4, <1>10, <1>11, <2>1, RoleStays DEF Reading, Waiting, p
<1>12. CASE Len(pk'.body) # dest
  <2>1. st' = "body"
    BY <1>12 DEF Body, Pass
  <2>2. Reading'
    BY <1>1, <1>4, <1>10, <2>1, RoleStays DEF Reading, p
  <2>3. Len(pk'.body) = Len(pk.body) + k /\ Len(pk.body) \in Nat
    BY <1>5, <1>6, <1>9, PacketFields, Joined
  <2> DEFINE l == Len(pk.body)
             g == Len(pk'.body)
  <2>4. /\ l \in Nat /\ g = l + k /\ g # dest /\ dest \in {-1, 0, 2, 3}
        /\ dest = Unknown => k = Readable(buf)
        /\ dest # Unknown /\ k # Readable(buf) => k = dest - l
    BY <1>3, <1>5, <1>12, <2>3, LengthsAre
  <2> HIDE DEF l, g
  <2>5. k = Readable(buf)
    BY <1>7, <2>4
  <2>6. Readable(buf') = 0
    BY <1>2, <1>4, <2>5
  <2>7. Waiting'
    BY <2>1, <2>6 DEF Waiting
  <2>. QED BY <2>2, <2>7
<1>. QED BY <1>11, <1>12

LEMMA DoneInv ==
    ASSUME HttpInv, Done, ~BadPacket
    PROVE  HttpInv'
<1>1. /\ Base /\ Base' /\ Recorded /\ UNCHANGED <<wire, sent, closed, role, buf, conn, pc, long>>
      /\ conn = "up" /\ pc = "read" /\ Told(pk) /\ st = "done" /\ st' = "start"
  BY PassIs DEF ReadData, Done, Pass
<1>2. pk \in Packet /\ Used' = Used /\ (~long => MessageIs(sent, NextBegin, Used, pk))
  BY <1>1, StillText DEF HttpInv, Reading, Base, HttpTypeOK
<1>3. Recorded' /\ NextBegin' = Used
  BY <1>1, <1>2, RecordedGrows
<1>4. Reading' /\ Waiting'
  BY <1>1, <1>2, <1>3 DEF Reading, Waiting
<1>. QED BY <1>1, <1>3, <1>4 DEF HttpInv

LEMMA PassInv ==
    ASSUME HttpInv, ReadData, ~BadPacket
    PROVE  HttpInv'
<1>1. CASE Done
  BY <1>1, DoneInv
<1>2. CASE ~Done
  <2>1. Reading' /\ Waiting'
    BY <1>2, WaitInv, FirstLineInv, HeaderInv, HeaderEndsInv, BodyInv DEF ReadData
  <2>2. /\ Base /\ Base' /\ Recorded /\ told' = told /\ role' = role /\ (long => long')
        /\ Used' \in Nat /\ Used <= Used' /\ sent' = sent /\ conn = "up" /\ closed' = closed
    BY <1>2, PassIs
  <2>3. Recorded'
    BY <2>2, RecordedStays DEF Base, HttpTypeOK
  <2>. QED BY <2>1, <2>2, <2>3 DEF HttpInv
<1>. QED BY <1>1, <1>2

LEMMA HttpInvInit == HttpInit => HttpInv
<1> SUFFICES ASSUME HttpInit PROVE HttpInv
  OBVIOUS
<1>1. Base /\ Readable(buf) = 0
  BY BaseInit, InitGood DEF HttpInit, BufferInit, Readable
<1>2. Used = 0 /\ NextBegin = 0 /\ DOMAIN told = {}
  <2>1. Len(told) = 0 /\ Len(sent) = 0 /\ Len(wire) = 0 /\ told = <<>>
    BY DEF HttpInit
  <2>. QED BY <1>1, <2>1 DEF Used, Come, NextBegin, Begin
<1>3. st = "start"
  BY DEF HttpInit
<1>. QED BY <1>1, <1>2, <1>3 DEF HttpInv, Reading, Waiting, Recorded

LEMMA HttpInvStep == HttpInv /\ [HttpNext]_httpVars => HttpInv'
<1> SUFFICES ASSUME HttpInv, [HttpNext]_httpVars PROVE HttpInv'
  OBVIOUS
<1>1. CASE PeerSends \/ PeerCloses
  BY <1>1, PeerInv
<1>2. CASE TimePasses \/ AppCancels \/ Connected \/ Write \/ TimedOut \/ GoesOn \/ NoEvent
  BY <1>2, QuietInv
<1>3. CASE ConnectFails \/ ReadClose \/ Breaks \/ BadPacket
  BY <1>3, EndInv
<1>4. CASE EventRead
  BY <1>4, EventReadInv
<1>5. CASE ReadData
  BY <1>3, <1>5, PassInv
<1>6. CASE UNCHANGED httpVars
  <2>1. UNCHANGED <<role, conn, inst, out, pc, st, dest, pk, buf, wire, closed, call,
                    late, sent, texts, told, long>>
    BY <1>6 DEF httpVars
  <2>2. Base /\ Base'
    BY BaseStep, <1>6 DEF HttpInv
  <2>3. Used' = Used /\ Come' = Come /\ Readable(buf') = Readable(buf) /\ Text' = Text
    BY <2>1, <2>2, StillText
  <2>4. Used \in Nat /\ Used <= Used'
    BY <2>2, <2>3, Numbers DEF Base
  <2>5. Recorded'
    BY <2>1, <2>2, <2>3, <2>4, RecordedStays DEF HttpInv
  <2>6. Reading'
    BY <2>1, <2>2, <2>3, ReadingStays DEF HttpInv
  <2>7. Waiting'
    BY <2>1, <2>3 DEF HttpInv, Waiting
  <2>. QED BY <2>2, <2>5, <2>6, <2>7 DEF HttpInv
<1>. QED BY <1>1, <1>2, <1>3, <1>4, <1>5, <1>6, Zenon DEF HttpNext, Turn, Stopped

LEMMA HttpInvariant == HttpSpec => []HttpInv
<1>. QED BY HttpInvInit, HttpInvStep, PTL DEF HttpSpec

-----------------------------------------------------------------------------
(* A text is read in one way only.                                          *)

LEMMA OneFirstLine ==
    ASSUME NEW s, NEW p \in Nat, NEW e \in Nat, NEW f \in Nat, p < e, p < f,
           FirstLineEnds(s, p, e), FirstLineEnds(s, p, f)
    PROVE  e = f
<1>1. e < f => e \in p + 1..f - 1
  OBVIOUS
<1>2. f < e => f \in p + 1..e - 1
  OBVIOUS
<1>3. ~(e < f) /\ ~(f < e)
  BY <1>1, <1>2 DEF FirstLineEnds
<1>. QED BY <1>3

LEMMA OneHead ==
    ASSUME NEW s, NEW e \in Nat, NEW h \in Nat, NEW g \in Nat, HeadEnds(s, e, h), HeadEnds(s, e, g)
    PROVE  h = g
<1>1. e < h /\ e < g /\ IsEmptyLine(s, h) /\ IsEmptyLine(s, g)
  BY DEF HeadEnds
<1>2. h < g => h \in e + 1..g - 1
  BY <1>1
<1>3. g < h => g \in e + 1..h - 1
  BY <1>1
<1>4. ~(h < g) /\ ~(g < h)
  BY <1>1, <1>2, <1>3 DEF HeadEnds, NoEmptyLine
<1>. QED BY <1>4

LEMMA OneLength ==
    ASSUME NEW s, NEW e \in Nat, NEW h \in Nat, NEW n, NEW l, LengthIs(s, e, h, n), LengthIs(s, e, h, l)
    PROVE  n = l
<1>1. \A i \in LengthLines(s, e, h) : i \in Nat
  BY DEF LengthLines, Begins
<1>2. CASE LengthLines(s, e, h) = {}
  BY <1>2 DEF LengthIs
<1>3. CASE LengthLines(s, e, h) # {}
  <2>1. PICK i \in LengthLines(s, e, h) :
            n = LengthOf[s[i]] /\ \A j \in LengthLines(s, e, h) : j <= i
    BY <1>3 DEF LengthIs
  <2>2. PICK k \in LengthLines(s, e, h) :
            l = LengthOf[s[k]] /\ \A j \in LengthLines(s, e, h) : j <= k
    BY <1>3 DEF LengthIs
  <2>3. i <= k /\ k <= i /\ i \in Nat /\ k \in Nat
    BY <1>1, <2>1, <2>2
  <2>4. i = k
    BY <2>3
  <2>. QED BY <2>1, <2>2, <2>4
<1>. QED BY <1>2, <1>3

LEMMA PartedBefore ==
    ASSUME NEW s, NEW i \in Nat, NEW h \in Nat, NEW g \in Nat, i < h, h <= g, s[h] = "nl",
           LineParted(s, i, g)
    PROVE  LineParted(s, i, h)
<1>1. PICK j \in i..g : s[j] \in Colons /\ \A k \in i..j : s[k] # "nl"
  BY DEF LineParted
<1>2. h \notin i..j
  BY <1>1
<1>3. j \in i..h
  BY <1>2
<1>. QED BY <1>1, <1>3 DEF LineParted

(* While the reader waits there is no message before it, and nothing that   *)
(* cannot become one.                                                       *)
Pending(s, p, q) == ~IsBad(s, p, q) /\ \A r \in p + 1..q : ~IsMessage(s, p, r)

LEMMA PendingFirst ==
    ASSUME NEW s, NEW p \in Nat, NEW q \in Nat, \A i \in p + 1..q : s[i] # "nl"
    PROVE  Pending(s, p, q)
<1>1. \A e \in p + 1..q : ~FirstLineEnds(s, p, e)
  BY DEF FirstLineEnds
<1>2. ~IsBad(s, p, q)
  BY <1>1 DEF IsBad
<1>3. ASSUME NEW r \in p + 1..q, IsMessage(s, p, r) PROVE FALSE
  <2>1. PICK e \in p + 1..r : FirstLineEnds(s, p, e)
    BY <1>3 DEF IsMessage, HeadIs, GoodHead
  <2>2. e \in p + 1..q
    OBVIOUS
  <2>. QED BY <1>1, <2>1, <2>2
<1>. QED BY <1>2, <1>3 DEF Pending

LEMMA PendingHeader ==
    ASSUME NEW s, NEW p \in Nat, NEW g \in Nat, NEW l, NEW m, Heading(s, p, g, l, m),
           NEW q \in Nat, g <= q, \A i \in g + 1..q : s[i] # "nl"
    PROVE  Pending(s, p, q)
<1>1. PICK f \in p + 1..g : GoodHead(s, p, f, g) /\ NoEmptyLine(s, f, g)
  BY DEF Heading
<1>2. f \in Nat /\ p + 1 < f /\ f <= g /\ p < f /\ FirstLineEnds(s, p, f) /\ s[p + 1] \in FirstWords
  BY <1>1 DEF GoodHead
<1>3. \A e \in p + 1..q : FirstLineEnds(s, p, e) => e = f
  <2>1. \A e \in p + 1..q : e \in Nat /\ p < e
    OBVIOUS
  <2>. QED BY <1>2, <2>1, OneFirstLine
<1>4. \A h \in f + 1..q : ~IsEmptyLine(s, h)
  <2>1. \A h \in f + 1..q : h \in f + 1..g \/ h \in g + 1..q
    BY <1>2
  <2>. QED BY <1>1, <2>1 DEF NoEmptyLine, IsEmptyLine
<1>5. \A h \in f + 1..q : ~HeadEnds(s, f, h)
  BY <1>4 DEF HeadEnds
<1>6. ASSUME NEW h \in f + 1..q, NEW i \in Begins(s, f, q), s[h] = "nl", i < h
      PROVE  LineParted(s, i, h)
  <2>1. i \in f + 1..q /\ s[i - 1] = "nl" /\ s[i] # "nl"
    BY DEF Begins
  <2>2. h \in Nat /\ h <= g
    <3>1. h \notin g + 1..q
      BY <1>6
    <3>. QED BY <1>2, <3>1
  <2>3. i \in Nat /\ i \in f + 1..g
    BY <1>2, <1>6, <2>1, <2>2
  <2>4. LineParted(s, i, g)
    BY <1>1, <2>1, <2>3 DEF GoodHead, Begins
  <2>. QED BY <1>6, <2>2, <2>3, <2>4, PartedBefore
<1>7. ~IsBad(s, p, q)
  <2> SUFFICES ASSUME IsBad(s, p, q) PROVE FALSE
    OBVIOUS
  <2>1. f # p + 1
    BY <1>2
  <2>. QED BY <1>2, <1>3, <1>5, <1>6, <2>1 DEF IsBad
<1>8. ASSUME NEW r \in p + 1..q, IsMessage(s, p, r) PROVE FALSE
  <2>1. PICK e \in p + 1..r, h \in p + 1..r : FirstLineEnds(s, p, e) /\ HeadEnds(s, e, h) /\ e < h
    BY <1>8 DEF IsMessage, HeadIs, GoodHead, HeadEnds
  <2>2. e \in p + 1..q /\ h \in e + 1..q
    BY <2>1
  <2>. QED BY <1>3, <1>5, <2>1, <2>2
<1>. QED BY <1>7, <1>8 DEF Pending

LEMMA PendingBody ==
    ASSUME NEW s, NEW p \in Nat, NEW q \in Nat, NEW l \in BodyLengths, NEW m,
           Filling(s, p, q, l, m), l # Unknown => Len(m.body) < l
    PROVE  Pending(s, p, q)
<1>1. PICK f, g \in p + 1..q :
        /\ HeadIs(s, p, f, g, l) /\ PacketIs(s, p, f, g, q, m)
        /\ IF l = Unknown THEN UntilClose(s[p + 1]) ELSE l <= MaxBody
  BY DEF Filling
<1>2. /\ f \in Nat /\ p + 1 < f /\ p < f /\ FirstLineEnds(s, p, f) /\ s[p + 1] \in FirstWords
      /\ g \in Nat /\ f < g /\ HeadEnds(s, f, g) /\ LengthIs(s, f, g, l) /\ IsEmptyLine(s, g)
      /\ \A i \in Begins(s, f, g) : LineParted(s, i, g)
      /\ Len(m.body) = q - g
  BY <1>1 DEF HeadIs, GoodHead, HeadEnds, PacketIs, BodyIs
<1>3. \A e \in p + 1..q : FirstLineEnds(s, p, e) => e = f
  <2>1. \A e \in p + 1..q : e \in Nat /\ p < e
    OBVIOUS
  <2>. QED BY <1>2, <2>1, OneFirstLine
<1>4. \A h \in p + 1..q : HeadEnds(s, f, h) => h = g
  <2>1. \A h \in p + 1..q : h \in Nat
    OBVIOUS
  <2>. QED BY <1>2, <2>1, OneHead
<1>5. \A n : LengthIs(s, f, g, n) => n = l
  BY <1>2, OneLength
<1>6. ASSUME NEW h \in f + 1..q, NEW i \in Begins(s, f, q), NoEmptyLine(s, f, h), s[h] = "nl", i < h
      PROVE  LineParted(s, i, h)
  <2>1. i \in f + 1..q /\ s[i - 1] = "nl" /\ s[i] # "nl"
    BY DEF Begins
  <2>2. h \in Nat /\ h <= g
    <3>1. g \notin f + 1..h
      BY <1>2, <1>6 DEF NoEmptyLine
    <3>. QED BY <1>2, <3>1
  <2>3. i \in Nat /\ i \in f + 1..g
    BY <1>2, <1>6, <2>1, <2>2
  <2>4. LineParted(s, i, g)
    BY <1>2, <2>1, <2>3 DEF Begins
  <2>. QED BY <1>2, <1>6, <2>2, <2>3, <2>4, PartedBefore
<1>7. l \in {-1, 0, 2, 3} /\ Unknown = -1 /\ MaxBody \in Nat
  BY LengthsAre, HttpChannelAssumption
<1>8. ~(l > MaxBody)
  BY <1>1, <1>7
<1>9. ~IsBad(s, p, q)
  <2> SUFFICES ASSUME IsBad(s, p, q) PROVE FALSE
    OBVIOUS
  <2>1. f # p + 1 /\ \A h \in f + 1..q : h \in p + 1..q
    BY <1>2
  <2>. QED BY <1>2, <1>3, <1>4, <1>5, <1>6, <1>8, <2>1 DEF IsBad
<1>10. ASSUME NEW r \in p + 1..q, IsMessage(s, p, r) PROVE FALSE
  <2>1. PICK e, h \in p + 1..r, n \in BodyLengths : HeadIs(s, p, e, h, n) /\ BodyEnds(s, p, h, n, r)
    BY <1>10 DEF IsMessage
  <2>2. e \in p + 1..q /\ h \in p + 1..q
    OBVIOUS
  <2>3. FirstLineEnds(s, p, e) /\ HeadEnds(s, e, h) /\ LengthIs(s, e, h, n)
    BY <2>1 DEF HeadIs, GoodHead
  <2>4. e = f /\ h = g /\ n = l
    BY <1>3, <1>4, <1>5, <2>2, <2>3
  <2>5. l # Unknown /\ r = g + l
    BY <1>1, <2>1, <2>4 DEF BodyEnds
  <2> DEFINE b == Len(m.body)
  <2>6. b = q - g /\ b < l
    BY <1>2, <2>5
  <2> HIDE DEF b
  <2>7. q < r
    BY <1>2, <1>7, <2>5, <2>6
  <2>. QED BY <2>7
<1>. QED BY <1>9, <1>10 DEF Pending

LEMMA NothingPending ==
    ASSUME HttpInv, ~long, pc = "poll", conn = "up"
    PROVE  Pending(sent, NextBegin, Come)
<1>1. /\ HttpTypeOK /\ Used \in Nat /\ Come \in Nat /\ Come = Used + Readable(buf)
      /\ Readable(buf) \in Nat /\ NextBegin \in Nat /\ dest \in BodyLengths
      /\ sent \in Seq(Symbol) /\ Control /\ Stream
  BY Numbers, ToldFields DEF HttpInv, Base, HttpTypeOK
<1>2. st \in {"start", "first", "header", "body"}
  BY <1>1 DEF HttpTypeOK, Control
<1> DEFINE p == NextBegin
           q == Come
<1>3. CASE st = "start"
  <2>1. told = <<>> /\ sent = wire
    BY <1>1, <1>3 DEF Control
  <2>2. Come = 0
    BY <1>1, <2>1 DEF Come
  <2>3. \A i \in p + 1..q : sent[i] # "nl"
    BY <1>1, <2>2
  <2>. QED BY <1>1, <2>3, PendingFirst
<1>4. ASSUME st \in {"first", "header"} PROVE \A i \in Used + 1..q : sent[i] # "nl"
  <2> SUFFICES ASSUME NEW i \in Used + 1..q PROVE sent[i] # "nl"
    OBVIOUS
  <2>1. i - Used \in 1..Readable(buf) /\ Used + (i - Used) = i
    BY <1>1
  <2>2. Text[i - Used] # "nl" /\ Text[i - Used] = sent[Used + (i - Used)]
    BY <1>1, <1>4, <2>1 DEF HttpInv, Waiting, Stream
  <2>. QED BY <2>1, <2>2
<1>5. CASE st = "first"
  <2>1. Used = p
    BY <1>5 DEF HttpInv, Reading
  <2>. QED BY <1>1, <1>4, <1>5, <2>1, PendingFirst
<1>6. CASE st = "header"
  <2>1. Heading(sent, p, Used, dest, pk) /\ Used <= q
    BY <1>1, <1>6 DEF HttpInv, Reading
  <2> HIDE DEF p, q
  <2>2. p \in Nat /\ q \in Nat
    BY <1>1 DEF p, q
  <2>3. Pending(sent, p, q)
    BY <1>1, <1>4, <1>6, <2>1, <2>2, PendingHeader
  <2>. QED BY <2>3 DEF p, q
<1>7. CASE st = "body"
  <2>1. Filling(sent, p, Used, dest, pk) /\ Readable(buf) = 0
    BY <1>7 DEF HttpInv, Reading, Waiting
  <2>2. Used = q /\ (dest # Unknown => Len(pk.body) < dest)
    BY <1>1, <1>7, <2>1 DEF HttpInv, Base, Filled
  <2>. QED BY <1>1, <2>1, <2>2, PendingBody
<1>. QED BY <1>2, <1>3, <1>5, <1>6, <1>7

LEMMA ReadRight == HttpInv => ReadsWhatWasSent
<1> SUFFICES ASSUME HttpInv, ~long PROVE ReadsWhatWasSent
  BY DEF ReadsWhatWasSent
<1>1. \A i \in DOMAIN told :
          LET m == told[i].packet IN
          \/ MessageIs(sent, Begin(i - 1), told[i].end, m)
          \/ /\ i = Len(told) /\ conn = "freed"
             /\ m = Error \/ (closed /\ LastMessageIs(sent, Begin(i - 1), Len(sent), m))
  BY DEF HttpInv, Recorded, RecordedAt
<1>2. st = "error" => IsBad(sent, NextBegin, Come)
  BY DEF HttpInv, Reading, Base, Control
<1>3. pc = "poll" /\ conn = "up" /\ inst = "normal" => Pending(sent, NextBegin, Come)
  BY NothingPending
<1>. QED BY <1>1, <1>2, <1>3 DEF ReadsWhatWasSent, NextBegin, Pending

(* However the bytes of a connection come in, what is handed on is what was *)
(* sent, whatever the texts, the buffer's size and the limits are.          *)
THEOREM MessagesRead == HttpSpec => []ReadsWhatWasSent
<1>. QED BY HttpInvariant, ReadRight, PTL

-----------------------------------------------------------------------------
(* A query is answered.  The job's channel does not go, nor expire, before  *)
(* something was told or the application cancelled; and what a client hands *)
(* on after that it has read before.                                        *)

AnsweredInv ==
    role = "job" =>
        /\ call \in {"none", "cancelled"}
        /\ conn = "freed" \/ inst = "expired" => told # <<>> \/ call = "cancelled"

LEMMA SomethingTold ==
    ASSUME Base, NEW m \in Packet, Told(m)
    PROVE  told' # <<>>
<1>1. Len(told') = Len(told) + 1 /\ Len(told) \in Nat
  BY ToldType, ToldFields DEF Base
<1>2. told' = <<>> => Len(told') = 0
  OBVIOUS
<1>. QED BY <1>1, <1>2

LEMMA EndsTelling ==
    ASSUME Base, ConnectFails \/ ReadClose \/ Breaks \/ BadPacket \/ Done
    PROVE  told' # <<>>
<1>1. ToldOfClose \in Packet /\ Error \in Packet /\ pk \in Packet
  BY PacketsAre DEF Base, HttpTypeOK, ToldOfClose
<1>. QED BY <1>1, SomethingTold DEF ConnectFails, ReadClose, Breaks, BadPacket, Done

LEMMA AnsweredStep ==
    ASSUME Base, AnsweredInv, [HttpNext]_httpVars
    PROVE  AnsweredInv'
<1>0. /\ HttpTypeOK
      /\ IsClient /\ conn # "freed" => inst # "delete"
  BY DEF Base, Control
<1>1. role' = role
  BY DEF HttpNext, Turn, Stopped, PeerSends, PeerCloses, TimePasses, AppCancels, Connected,
     ConnectFails, ReadClose, Breaks, Write, EventRead, ReadData, Start, FirstLineWaits,
     FirstLineTooLong, ReadFirstLine, HeaderWaits, Header, HeaderEnds, Body, Done, BadPacket,
     Waits, Pass, TimedOut, GoesOn, NoEvent, httpVars
<1> SUFFICES ASSUME role = "job"
             PROVE  /\ call' \in {"none", "cancelled"}
                    /\ conn' = "freed" \/ inst' = "expired" => told' # <<>> \/ call' = "cancelled"
  BY <1>1 DEF AnsweredInv
<1>2. /\ call \in {"none", "cancelled"} /\ IsClient
      /\ conn = "freed" \/ inst = "expired" => told # <<>> \/ call = "cancelled"
  BY DEF AnsweredInv, IsClient
<1>3. CASE ConnectFails \/ ReadClose \/ Breaks \/ BadPacket \/ Done
  <2>1. call' = call
    BY <1>2, <1>3 DEF ConnectFails, ReadClose, Breaks, BadPacket, Done, InEvent, Pass
  <2>. QED BY <1>2, <1>3, <2>1, EndsTelling
<1>4. CASE AppCancels
  BY <1>4 DEF AppCancels
<1>5. CASE TimedOut \/ GoesOn \/ NoEvent
  BY <1>2, <1>5 DEF TimedOut, GoesOn, NoEvent
<1>6. CASE Write
  <2>1. call' = call /\ told' = told /\ conn # "freed"
    BY <1>2, <1>6 DEF Write, InEvent
  <2>2. conn' = "freed" \/ inst' = "expired" => inst = "expired"
    BY <1>0, <1>2, <1>6, <2>1 DEF Write, EndOfEvent, AfterWrite
  <2>. QED BY <1>2, <2>1, <2>2
<1>7. CASE UNCHANGED <<call, told, inst>> /\ (conn' = "freed" => conn = "freed")
  BY <1>2, <1>7
<1>8. CASE PeerSends \/ PeerCloses \/ TimePasses \/ EventRead \/ Stopped \/ UNCHANGED httpVars
  <2>1. UNCHANGED <<call, told, inst, conn>>
    BY <1>2, <1>8 DEF PeerSends, PeerCloses, TimePasses, EventRead, InEvent, Stopped, httpVars
  <2>. QED BY <1>7, <2>1
<1>9. CASE Connected
  <2>1. UNCHANGED <<call, told, inst>> /\ conn' = "up"
    BY <1>2, <1>9 DEF Connected, InEvent
  <2>. QED BY <1>7, <2>1
<1>10. CASE ReadData /\ ~BadPacket /\ ~Done
  <2>1. UNCHANGED <<call, told>> /\ conn # "freed"
    BY <1>10 DEF Base, Control, ReadData, Start, FirstLineWaits, FirstLineTooLong, ReadFirstLine,
       HeaderWaits, Header, HeaderEnds, Body, Waits, Pass
  <2>2. inst' = inst /\ (conn' = conn \/ EndOfEvent(inst))
    BY <1>10 DEF ReadData, Start, FirstLineWaits, FirstLineTooLong, ReadFirstLine, HeaderWaits,
       Header, HeaderEnds, Body, Waits, Goes, EndOfEvent
  <2>3. conn' = "freed" => conn = "freed"
    BY <1>0, <1>2, <2>1, <2>2 DEF EndOfEvent
  <2>. QED BY <1>7, <2>1, <2>2, <2>3
<1>. QED BY <1>3, <1>4, <1>5, <1>6, <1>8, <1>9, <1>10 DEF HttpNext, Turn

LEMMA CameStep ==
    ASSUME Base, HttpNext
    PROVE  OnlyWhatCameWithIt
<1> SUFFICES ASSUME IsClient, told # <<>>
             PROVE  /\ Come' = Come
                    /\ told' # told => pc = "read" \/ (out /\ conn' = "freed")
  BY DEF OnlyWhatCameWithIt
<1>1. conn # "freed" => inst \notin {"normal", "delete"} /\ conn # "connecting"
  BY DEF Base, Control
<1>2. inst # "normal" \/ conn = "freed"
  BY <1>1
<1>3. CASE UNCHANGED <<wire, sent, told>>
  BY <1>3 DEF Come
<1>4. CASE PeerSends \/ EventRead \/ ReadClose \/ ConnectFails \/ Connected
  BY <1>1, <1>4 DEF PeerSends, EventRead, ReadClose, ConnectFails, Connected
<1>5. CASE PeerCloses
  <2>1. told' = told
    BY <1>5 DEF PeerCloses
  <2>. QED BY <1>5, <2>1, PeerClosesText
<1>6. CASE TimePasses \/ AppCancels \/ Write \/ TimedOut \/ GoesOn \/ NoEvent \/ Stopped
  <2>1. UNCHANGED <<wire, sent, told>>
    BY <1>6 DEF TimePasses, AppCancels, Write, TimedOut, GoesOn, NoEvent, Stopped, httpVars, peer
  <2>. QED BY <1>3, <2>1
<1>7. CASE Breaks
  <2>1. conn = "up" /\ (inst = "expired" => out) /\ UNCHANGED <<wire, sent>>
    BY <1>7 DEF Breaks, peer
  <2>2. inst = "expired"
    BY <1>1, <2>1 DEF Base, HttpTypeOK
  <2>3. conn' = "freed"
    BY <1>7 DEF Breaks, EndOfEvent
  <2>. QED BY <2>1, <2>2, <2>3 DEF Come
<1>8. CASE ReadData
  <2>1. pc = "read" /\ UNCHANGED <<wire, sent>>
    BY <1>8 DEF ReadData, BadPacket, Start, FirstLineWaits, FirstLineTooLong, ReadFirstLine,
       HeaderWaits, Header, HeaderEnds, Body, Done, Waits, Pass, peer
  <2>. QED BY <2>1 DEF Come
<1>. QED BY <1>4, <1>5, <1>6, <1>7, <1>8 DEF HttpNext, Turn

(* For any texts and limits: a job whose channel has gone was told of a     *)
(* packet or an error unless the query was cancelled, and after its first   *)
(* packet or error a client reads nothing: what it still hands on came with *)
(* that, or is the error of a connection that broke before the query was    *)
(* all written.                                                             *)
THEOREM QueryAnswered == HttpSpec => AnsweredOnce
<1>1. HttpInit => AnsweredInv
  BY DEF HttpInit, AnsweredInv
<1>2. Base /\ AnsweredInv /\ [HttpNext]_httpVars => AnsweredInv'
  BY AnsweredStep
<1>3. AnsweredInv => IsAnswered
  BY DEF AnsweredInv, IsAnswered
<1>4. Base /\ [HttpNext]_httpVars => [OnlyWhatCameWithIt]_httpVars
  BY CameStep
<1>. QED BY <1>1, <1>2, <1>3, <1>4, BaseInvariant, PTL DEF HttpSpec, AnsweredOnce
===============================================================================
