--------------------------- MODULE JobManagerProofs ---------------------------
(***************************************************************************)
(* Proofs about JobManager for any width of the keys, any number of jobs   *)
(* and reservations, and whatever the order of the table.                  *)
(***************************************************************************)
EXTENDS JobManager, TLAPS

USE JobManagerAssumption DEF Keys, Ids, None, NoKey

LEMMA DestroyType ==
    ASSUME TypeOK, NEW dead, Destroy(dead)
    PROVE  /\ jobs' \in [Keys -> Ids \cup {None}]
           /\ key' \in [Ids -> Keys \cup {NoKey}]
  BY DEF TypeOK, Destroy

LEMMA AdvanceType ==
    ASSUME NEW left \in SUBSET Ids, Advance(left)
    PROVE  ib' \in left \cup {None} /\ rest' \subseteq left /\ ib' \notin rest'
  BY DEF Advance

LEMMA EntryType ==
    ASSUME NEW S, NEW s \in Seq(S), NEW n \in Nat \ {0}, n <= Len(s)
    PROVE  s[n] \in S
  OBVIOUS

LEMMA HeadTail ==
    ASSUME NEW S, NEW s \in Seq(S), s # <<>>
    PROVE  /\ Head(s) \in S /\ Tail(s) \in Seq(S)
           /\ \A n \in 1..Len(Tail(s)) : n + 1 \in 1..Len(s) /\ Tail(s)[n] = s[n + 1]
  OBVIOUS

LEMMA Appended ==
    ASSUME NEW S, NEW s \in Seq(S), NEW x \in S, NEW n \in 1..Len(Append(s, x))
    PROVE  \/ n \in 1..Len(s) /\ Append(s, x)[n] = s[n]
           \/ Append(s, x)[n] = x
<1>1. CASE n = Len(s) + 1
  BY <1>1
<1>2. CASE n # Len(s) + 1
  BY <1>2
<1>3. QED
  BY <1>1, <1>2

LEMMA TypeStep == TypeOK /\ [Next]_vars => TypeOK'
<1> SUFFICES ASSUME TypeOK, [Next]_vars PROVE TypeOK'
  OBVIOUS
<1>1. CASE Create
  <2>1. PICK k \in Keys : /\ jobs' = [jobs EXCEPT ![k] = created + 1]
                          /\ key' = [key EXCEPT ![created + 1] = k]
                          /\ lastKey' = k
    BY <1>1 DEF Create
  <2>2. created + 1 \in Ids /\ created' \in 0..MaxJobs
    BY <1>1 DEF Create, TypeOK
  <2>3. rest' \subseteq Ids
    BY <1>1, <2>2 DEF Create, TypeOK, Live
  <2>4. QED
    BY <1>1, <2>1, <2>2, <2>3 DEF Create, TypeOK, pass
<1>2. CASE SetRelease
  BY <1>2 DEF SetRelease, TypeOK, Live, walk, pass
<1>3. CASE Reserve
  <2>1. PICK i \in Ids : i \in Live /\ reserve' = Reserved(i)
    BY <1>3 DEF Reserve, Live
  <2>2. [key |-> key[i], job |-> i] \in [key : Keys, job : Ids]
    BY <2>1 DEF Live, TypeOK
  <2>3. reserve' \in Seq([key : Keys, job : Ids])
    BY <2>1, <2>2 DEF Reserved, TypeOK
  <2>4. QED
    BY <1>3, <2>3 DEF Reserve, TypeOK, table, walk, pass
<1>4. CASE Dispatch
  BY <1>4 DEF Dispatch, Call, TypeOK, table, walk, pass
<1>5. CASE Return
  <2>1. /\ jobs' \in [Keys -> Ids \cup {None}]
        /\ key' \in [Ids -> Keys \cup {NoKey}]
    BY <1>5, DestroyType DEF Return, TypeOK
  <2>2. rest' \subseteq Ids
    BY <1>5 DEF Return, TypeOK
  <2>3. QED
    BY <1>5, <2>1, <2>2 DEF Return, NextOf, TypeOK, pass
<1>6. CASE PassBegin
  <2>1. /\ jobs' \in [Keys -> Ids \cup {None}]
        /\ key' \in [Ids -> Keys \cup {NoKey}]
    BY <1>6, DestroyType DEF PassBegin, DispatchKill
  <2>2. Killed \subseteq Ids
    BY DEF Killed, TypeOK
  <2>3. QED
    BY <1>6, <2>1, <2>2 DEF PassBegin, DispatchKill, TypeOK
<1>7. CASE DeliverReserve
  <2>1. /\ reserve \in Seq([key : Keys, job : Ids]) /\ reserve # <<>>
        /\ reserve' = Tail(reserve)
    BY <1>7 DEF DeliverReserve, TypeOK
  <2>2. Head(reserve) \in [key : Keys, job : Ids]
        /\ reserve' \in Seq([key : Keys, job : Ids])
    BY <2>1, HeadTail
  <2>3. jobs[Head(reserve).key] \in Ids \cup {None}
    BY <2>2 DEF TypeOK
  <2>4. /\ pc' \in {"reserve", "call"} /\ caller' \in {caller, "reserve"}
        /\ cur' \in {cur, jobs[Head(reserve).key]}
        /\ UNCHANGED <<table, walk, pass, overdue>>
    BY <1>7 DEF DeliverReserve, Call
  <2>5. cur' \in Ids \cup {None}
    <3>1. cur \in Ids \cup {None}
      BY DEF TypeOK
    <3>2. QED
      BY <2>3, <2>4, <3>1, Zenon
  <2>6. caller' \in {"idle", "reserve", "walk"}
    BY <2>4 DEF TypeOK
  <2>7. QED
    BY <2>2, <2>4, <2>5, <2>6 DEF TypeOK, table, walk, pass
<1>8. CASE ClearReserve
  <2>1. ib' \in Ids \cup {None} /\ rest' \subseteq Ids
    BY <1>8, AdvanceType DEF ClearReserve, Live
  <2>2. reserve' \in Seq([key : Keys, job : Ids])
    BY <1>8 DEF ClearReserve
  <2>3. QED
    BY <1>8, <2>1, <2>2 DEF ClearReserve, TypeOK, table, pass
<1>9. CASE Timeout
  <2>1. ib' \in Ids \cup {None} /\ rest' \subseteq Ids
    BY <1>9, AdvanceType DEF Timeout, IsLate, TypeOK
  <2>2. ib \in Ids /\ timedout' = [timedout EXCEPT ![ib] = timedout[ib] + 1]
    BY <1>9 DEF Timeout, IsLate, TypeOK
  <2>3. timedout' \in [Ids -> Nat]
    BY <2>2 DEF TypeOK
  <2>4. QED
    BY <1>9, <2>1, <2>2, <2>3 DEF Timeout, IsLate, Call, TypeOK, table, pass
<1>10. CASE NotLate
  <2>1. ib' \in Ids \cup {None} /\ rest' \subseteq Ids
    BY <1>10, AdvanceType DEF NotLate, IsLate, TypeOK
  <2>2. QED
    BY <1>10, <2>1 DEF NotLate, IsLate, TypeOK, table, pass
<1>11. CASE PassEnd
  BY <1>11 DEF PassEnd, TypeOK, table, walk
<1>12. CASE Age
  BY <1>12 DEF Age, TypeOK, Live, table, walk, pass
<1>13. CASE UNCHANGED vars
  BY <1>13 DEF vars, TypeOK, table, walk, pass
<1>14. QED
  BY <1>1, <1>2, <1>3, <1>4, <1>5, <1>6, <1>7, <1>8, <1>9, <1>10,
     <1>11, <1>12, <1>13 DEF Next, CheckTimeout

(* The variables of the job manager keep their types.                      *)
THEOREM TypeCorrect == Spec => []TypeOK
<1>1. Init => TypeOK
  BY DEF Init, TypeOK
<1>2. QED
  BY <1>1, TypeStep, PTL DEF Spec

-----------------------------------------------------------------------------
(* The table.  Beside being exact it must be known to hold only jobs that  *)
(* were created, so that a new job's number is nowhere in it.              *)
Numbered == \A i \in Ids : i > created => key[i] = NoKey
TableInv == TableIsExact /\ Numbered

LEMMA DestroyTable ==
    ASSUME TypeOK, TableInv, NEW dead, Destroy(dead), UNCHANGED created
    PROVE  TableInv'
<1>1. TableIsExact'
  BY DEF TypeOK, TableInv, TableIsExact, Destroy
<1>2. Numbered'
  BY DEF TypeOK, TableInv, Numbered, Destroy
<1>3. QED
  BY <1>1, <1>2 DEF TableInv

LEMMA TableStep == TypeOK /\ TableInv /\ [Next]_vars => TableInv'
<1> SUFFICES ASSUME TypeOK, TableInv, [Next]_vars PROVE TableInv'
  OBVIOUS
<1>1. CASE Create
  <2>1. PICK k \in Keys : /\ GetKey(k)
                          /\ jobs' = [jobs EXCEPT ![k] = created + 1]
                          /\ key' = [key EXCEPT ![created + 1] = k]
    BY <1>1 DEF Create
  <2>2. k # 0 /\ jobs[k] = None
    BY <2>1 DEF GetKey, Free
  <2>3. created + 1 \in Ids /\ created' = created + 1 /\ created \in Nat
    BY <1>1 DEF Create, TypeOK
  <2>4. key[created + 1] = NoKey
    BY <2>3 DEF TableInv, Numbered
  <2>5. /\ jobs \in [Keys -> Ids \cup {None}]
        /\ key \in [Ids -> Keys \cup {NoKey}]
        /\ 0 \in Keys
    BY DEF TypeOK
  <2>6. /\ \A c \in Keys : jobs'[c] = IF c = k THEN created + 1 ELSE jobs[c]
        /\ \A i \in Ids : key'[i] = IF i = created + 1 THEN k ELSE key[i]
    BY <2>1, <2>3, <2>5
  <2>7. jobs'[0] = None
    BY <2>2, <2>5, <2>6 DEF TableInv, TableIsExact
  <2>8. ASSUME NEW c \in Keys, NEW i \in Ids
         PROVE  jobs'[c] = i <=> key'[i] = c
    <3>1. jobs[c] = i <=> key[i] = c
      BY DEF TableInv, TableIsExact
    <3>2. jobs[k] # i /\ key[created + 1] # c
      BY <2>2, <2>4
    <3>3. QED
      BY <2>6, <3>1, <3>2
  <2>9. TableIsExact'
    BY <2>7, <2>8 DEF TableIsExact
  <2>10. Numbered'
    BY <2>1, <2>3 DEF TypeOK, TableInv, Numbered
  <2>11. QED
    BY <2>9, <2>10 DEF TableInv
<1>2. CASE Return
  <2>1. CASE Destroy({cur})
    BY <1>2, <2>1, DestroyTable DEF Return
  <2>2. CASE UNCHANGED <<jobs, key>>
    BY <1>2, <2>2 DEF Return, TableInv, TableIsExact, Numbered
  <2>3. QED
    BY <1>2, <2>1, <2>2 DEF Return
<1>3. CASE PassBegin
  BY <1>3, DestroyTable DEF PassBegin, DispatchKill
<1>4. CASE UNCHANGED <<jobs, key, created>>
  BY <1>4 DEF TableInv, TableIsExact, Numbered
<1>5. QED
  BY <1>1, <1>2, <1>3, <1>4
     DEF Next, CheckTimeout, SetRelease, Reserve, Dispatch, DeliverReserve,
         ClearReserve, Timeout, NotLate, PassEnd, Age, vars, table

LEMMA TableInvariant == Spec => [](TypeOK /\ TableInv)
<1>1. Init => TypeOK /\ TableInv
  BY DEF Init, TypeOK, TableInv, TableIsExact, Numbered
<1>2. QED
  BY <1>1, TypeStep, TableStep, PTL DEF Spec

(* m_jobs finds each job under its own key, whatever the width of the key  *)
(* and however often it wraps, and nobody gets the key 0.                  *)
THEOREM TableCorrect == Spec => []TableIsExact
  BY TableInvariant, PTL DEF TableInv

-----------------------------------------------------------------------------
(* The keys.  Until the counter has been all round, the jobs have the keys *)
(* that follow each other, 0 left out: the key of each job, also of one    *)
(* that is gone, can be counted back from the last one.                    *)
KeyFrom(last, n, i) ==
    IF last - (n - i) >= 1 THEN last - (n - i) ELSE last - (n - i) + W - 1

KeyOf(i) == KeyFrom(lastKey, created, i)

(* What has to be kept of them until then.                                 *)
LastGiven == created > 0 => lastKey # 0
JobsMeant == \A i \in Live : key[i] = KeyOf(i)
KillsMeant == \A k \in kills : \E i \in released : k = KeyOf(i)
ReserveMeant ==
    \A n \in 1..Len(reserve) :
        reserve[n].job \in 1..created /\ reserve[n].key = KeyOf(reserve[n].job)

Meant ==
    /\ released \subseteq 1..created
    /\ LastGiven
    /\ JobsMeant
    /\ KillsMeant
    /\ ReserveMeant

MeantInv == created < W => Meant

LEMMA LiveCreated == TypeOK /\ TableInv => Live \subseteq 1..created
  BY DEF TypeOK, TableInv, Numbered, Live

(* The steps that getKey() needs to the next key, 0 left out.              *)
LEMMA StepsOn ==
    ASSUME TypeOK, NEW k \in Keys
    PROVE  Steps(k) = IF k > lastKey THEN k - lastKey - 1 ELSE k - lastKey - 1 + W
<1>1. \A m \in 0..W - 1 : m % W = m /\ (m - W) % W = m
  OBVIOUS
<1>2. lastKey \in Keys /\ W \in Nat \ {0, 1}
  BY DEF TypeOK
<1>3. QED
  BY <1>1, <1>2 DEF Steps

Following == IF lastKey = W - 1 THEN 1 ELSE lastKey + 1

LEMMA KeysApart ==
    ASSUME TypeOK, created < W, lastKey # 0,
           NEW i \in 1..created, NEW j \in 1..created, KeyOf(i) = KeyOf(j)
    PROVE  i = j
<1>1. lastKey \in 1..W - 1 /\ created \in Nat /\ W \in Nat
  BY DEF TypeOK
<1>2. QED
  BY <1>1 DEF KeyOf, KeyFrom

(* As long as it has not been all round, the counter meets no used key.    *)
LEMMA NextKey ==
    ASSUME TypeOK, TableInv, Meant, created + 1 < W, NEW k \in Keys, GetKey(k)
    PROVE  k = Following
<1>1. /\ lastKey \in 0..W - 1 /\ created \in Nat /\ W \in Nat \ {0, 1}
      /\ Following \in Keys /\ Following # 0
  BY DEF TypeOK, Following
<1>2. jobs[Following] = None
  <2>1. SUFFICES ASSUME jobs[Following] # None PROVE FALSE
    OBVIOUS
  <2>2. PICK j \in Ids : jobs[Following] = j
    BY <1>1, <2>1 DEF TypeOK
  <2>3. key[j] = Following
    BY <1>1, <2>2 DEF TableInv, TableIsExact
  <2>4. j \in Live /\ j \in 1..created
    BY <1>1, <2>3 DEF Live, TableInv, Numbered
  <2>5. lastKey # 0 /\ KeyOf(j) = Following
    BY <1>1, <2>3, <2>4 DEF Meant, LastGiven, JobsMeant
  <2>6. QED
    BY <1>1, <2>4, <2>5 DEF KeyOf, KeyFrom, Following
<1>3. Steps(k) <= Steps(Following) /\ k # 0
  BY <1>1, <1>2 DEF GetKey, Free
<1>4. QED
  BY <1>1, <1>3, StepsOn DEF Following

(* With the next key given, those before are counted back as they were.    *)
LEMMA KeysKept ==
    ASSUME TypeOK, LastGiven, created + 1 < W
    PROVE  /\ \A i \in 1..created : KeyFrom(Following, created + 1, i) = KeyOf(i)
           /\ KeyFrom(Following, created + 1, created + 1) = Following
<1>1. /\ lastKey \in 0..W - 1 /\ created \in Nat /\ W \in Nat \ {0, 1}
      /\ created > 0 => lastKey # 0
  BY DEF TypeOK, LastGiven
<1>2. Following \in 1..W - 1
  BY <1>1 DEF Following
<1>3. ASSUME NEW i \in 1..created
      PROVE  KeyFrom(Following, created + 1, i) = KeyOf(i)
  <2>1. CASE lastKey = W - 1
    BY <1>1, <2>1 DEF KeyOf, KeyFrom, Following
  <2>2. CASE lastKey # W - 1
    BY <1>1, <2>2 DEF KeyOf, KeyFrom, Following
  <2>3. QED
    BY <2>1, <2>2
<1>4. QED
  BY <1>1, <1>2, <1>3 DEF KeyFrom

LEMMA MeantCreate ==
    ASSUME TypeOK, TableInv, Meant, Create, created' < W
    PROVE  Meant'
<1>1. PICK k \in Keys : /\ GetKey(k)
                        /\ key' = [key EXCEPT ![created + 1] = k]
                        /\ lastKey' = k
  BY DEF Create
<1>2. /\ created \in Nat /\ created + 1 < W /\ created' = created + 1
      /\ created + 1 \in Ids
      /\ kills' = kills /\ released' = released /\ reserve' = reserve
  BY DEF Create, TypeOK
<1>3. k = Following /\ k # 0
  BY <1>1, <1>2, NextKey DEF GetKey, Free
<1>4. /\ \A i \in 1..created : KeyFrom(lastKey', created', i) = KeyOf(i)
      /\ KeyFrom(lastKey', created', created + 1) = k
  BY <1>1, <1>2, <1>3, KeysKept DEF Meant
<1>5. released' \subseteq 1..created'
  BY <1>2 DEF Meant
<1>6. LastGiven'
  BY <1>1, <1>3 DEF LastGiven
<1>7. ASSUME NEW i \in Live' PROVE key'[i] = KeyFrom(lastKey', created', i)
  <2>1. CASE i = created + 1
    BY <1>1, <1>2, <1>4, <2>1 DEF TypeOK
  <2>2. CASE i # created + 1
    <3>1. i \in Live /\ key'[i] = key[i]
      BY <1>1, <1>7, <2>2 DEF Live, TypeOK
    <3>2. i \in 1..created
      BY <3>1, LiveCreated
    <3>3. QED
      BY <1>4, <3>1, <3>2 DEF Meant, JobsMeant
  <2>3. QED
    BY <2>1, <2>2
<1>8. ASSUME NEW c \in kills' PROVE \E i \in released' : c = KeyFrom(lastKey', created', i)
  <2>1. PICK i \in released : c = KeyOf(i)
    BY <1>2, <1>8 DEF Meant, KillsMeant
  <2>2. i \in released' /\ i \in 1..created
    BY <1>2, <2>1 DEF Meant
  <2>3. QED
    BY <1>4, <2>1, <2>2
<1>9. ASSUME NEW n \in 1..Len(reserve')
      PROVE  /\ reserve'[n].job \in 1..created'
             /\ reserve'[n].key = KeyFrom(lastKey', created', reserve'[n].job)
  <2>1. reserve[n].job \in 1..created /\ reserve[n].key = KeyOf(reserve[n].job)
    BY <1>2, <1>9 DEF Meant, ReserveMeant
  <2>2. QED
    BY <1>2, <1>4, <2>1
<1>10. JobsMeant' /\ KillsMeant' /\ ReserveMeant'
  BY <1>7, <1>8, <1>9 DEF JobsMeant, KillsMeant, ReserveMeant, KeyOf
<1>11. QED
  BY <1>5, <1>6, <1>10 DEF Meant

(* No other step changes the key a job is counted back to.                 *)
LEMMA MeantKept ==
    ASSUME TypeOK, TableInv, Meant, UNCHANGED <<created, lastKey>>,
           \A i \in Ids : key'[i] \in {key[i], NoKey},
           released' \subseteq 1..created, released \subseteq released',
           \A c \in kills' : c \in kills \/ \E i \in released' \cap Live : c = key[i],
           \A n \in 1..Len(reserve') :
                \/ n \in 1..Len(reserve) /\ reserve'[n] = reserve[n]
                \/ \E i \in Live : reserve'[n] = [key |-> key[i], job |-> i]
    PROVE  Meant'
<1>1. \A i : KeyFrom(lastKey', created', i) = KeyOf(i)
  BY DEF KeyOf
<1>2. \A i \in Live : i \in 1..created /\ key[i] = KeyOf(i)
  BY LiveCreated DEF Meant, JobsMeant
<1>3. ASSUME NEW i \in Live' PROVE key'[i] = KeyFrom(lastKey', created', i)
  <2>1. i \in Live /\ key'[i] = key[i]
    BY <1>3 DEF Live
  <2>2. QED
    BY <1>1, <1>2, <2>1
<1>4. ASSUME NEW c \in kills' PROVE \E i \in released' : c = KeyFrom(lastKey', created', i)
  <2>1. CASE c \in kills
    BY <1>1, <2>1 DEF Meant, KillsMeant
  <2>2. CASE \E i \in released' \cap Live : c = key[i]
    BY <1>1, <1>2, <2>2
  <2>3. QED
    BY <1>4, <2>1, <2>2
<1>5. ASSUME NEW n \in 1..Len(reserve')
      PROVE  /\ reserve'[n].job \in 1..created'
             /\ reserve'[n].key = KeyFrom(lastKey', created', reserve'[n].job)
  <2>1. CASE n \in 1..Len(reserve) /\ reserve'[n] = reserve[n]
    BY <1>1, <2>1 DEF Meant, ReserveMeant
  <2>2. CASE \E i \in Live : reserve'[n] = [key |-> key[i], job |-> i]
    BY <1>1, <1>2, <2>2
  <2>3. QED
    BY <1>5, <2>1, <2>2
<1>6. JobsMeant' /\ KillsMeant' /\ ReserveMeant'
  BY <1>3, <1>4, <1>5 DEF JobsMeant, KillsMeant, ReserveMeant, KeyOf
<1>7. QED
  BY <1>6 DEF Meant, LastGiven

LEMMA MeantStep == TypeOK /\ TableInv /\ MeantInv /\ [Next]_vars => MeantInv'
<1> SUFFICES ASSUME TypeOK, TableInv, MeantInv, [Next]_vars, created' < W
             PROVE  Meant'
  BY DEF MeantInv
<1> created' \in {created, created + 1} /\ created \in Nat
  BY DEF Next, CheckTimeout, Create, SetRelease, Reserve, Dispatch, Return,
         PassBegin, DeliverReserve, ClearReserve, Timeout, NotLate,
         PassEnd, Age, vars, table, TypeOK
<1> Meant
  BY DEF MeantInv
<1>1. CASE Create
  BY <1>1, MeantCreate
<1>2. CASE SetRelease
  <2>1. PICK i \in Live : kills' = kills \cup {key[i]} /\ released' = released \cup {i}
    BY <1>2 DEF SetRelease
  <2>2. i \in 1..created
    BY <2>1, LiveCreated
  <2>3. released' \subseteq 1..created
    BY <2>1, <2>2 DEF Meant
  <2>4. UNCHANGED <<created, lastKey, key, reserve>>
    BY <1>2 DEF SetRelease
  <2>5. QED
    BY <2>1, <2>3, <2>4, MeantKept
<1>3. CASE Reserve
  <2>1. PICK i \in Live : reserve' = Append(reserve, [key |-> key[i], job |-> i])
    BY <1>3 DEF Reserve, Reserved
  <2>2. UNCHANGED <<created, lastKey, key, kills, released>>
    BY <1>3 DEF Reserve, table
  <2>3. ASSUME NEW n \in 1..Len(reserve')
        PROVE  \/ n \in 1..Len(reserve) /\ reserve'[n] = reserve[n]
               \/ reserve'[n] = [key |-> key[i], job |-> i]
    <3>1. [key |-> key[i], job |-> i] \in [key : Keys, job : Ids]
      BY DEF Live, TypeOK
    <3>2. reserve \in Seq([key : Keys, job : Ids])
      BY DEF TypeOK
    <3>3. \A x \in [key : Keys, job : Ids] : \A m \in 1..Len(Append(reserve, x)) :
              \/ m \in 1..Len(reserve) /\ Append(reserve, x)[m] = reserve[m]
              \/ Append(reserve, x)[m] = x
      BY <3>2, Appended
    <3>4. PICK x : x = [key |-> key[i], job |-> i]
      OBVIOUS
    <3>5. reserve' = Append(reserve, x) /\ x \in [key : Keys, job : Ids]
      BY <2>1, <3>1, <3>4, Zenon
    <3>6. n \in 1..Len(Append(reserve, x))
      BY <2>3, <3>5, Zenon
    <3>7. \/ n \in 1..Len(reserve) /\ Append(reserve, x)[n] = reserve[n]
          \/ Append(reserve, x)[n] = x
      BY <3>3, <3>5, <3>6, Zenon
    <3>8. QED
      BY <3>4, <3>5, <3>7, Zenon
  <2>4. QED
    BY <2>1, <2>2, <2>3, MeantKept DEF Meant
<1>4. CASE Return
  BY <1>4, MeantKept DEF Return, Destroy, Meant
<1>5. CASE PassBegin
  BY <1>5, MeantKept DEF PassBegin, DispatchKill, Destroy, Meant
<1>6. CASE ClearReserve
  BY <1>6, MeantKept DEF ClearReserve, table, Meant
<1>7. CASE DeliverReserve
  <2>1. /\ reserve \in Seq([key : Keys, job : Ids]) /\ reserve # <<>>
        /\ reserve' = Tail(reserve)
        /\ UNCHANGED <<created, lastKey, key, kills, released>>
    BY <1>7 DEF DeliverReserve, TypeOK, table
  <2>2. \A n \in 1..Len(reserve') : n + 1 \in 1..Len(reserve) /\ reserve'[n] = reserve[n + 1]
    BY <2>1, HeadTail, Zenon
  <2>3. ASSUME NEW n \in 1..Len(reserve')
        PROVE  /\ reserve'[n].job \in 1..created'
               /\ reserve'[n].key = KeyFrom(lastKey', created', reserve'[n].job)
    BY <2>1, <2>2 DEF Meant, ReserveMeant, KeyOf
  <2>4. ReserveMeant'
    BY <2>3 DEF ReserveMeant, KeyOf
  <2>5. QED
    BY <2>1, <2>4 DEF Meant, LastGiven, JobsMeant, KillsMeant, KeyOf, Live
<1>8. CASE UNCHANGED <<key, created, lastKey, kills, released, reserve>>
  BY <1>8, MeantKept DEF Meant
<1>9. QED
  BY <1>1, <1>2, <1>3, <1>4, <1>5, <1>6, <1>7, <1>8
     DEF Next, CheckTimeout, Dispatch, Timeout,
         NotLate, PassEnd, Age, vars, table

(* A key that waits to be used in m_kills or m_reserve means the job it    *)
(* was taken for, or none, until the counter has been all round: for every *)
(* width of the keys.                                                      *)
THEOREM KeysCorrect == Spec => []KeysStayMeant
<1>1. Init => MeantInv
  BY DEF Init, MeantInv, Meant, LastGiven, JobsMeant, KillsMeant, ReserveMeant, Live
<1>2. TypeOK /\ TableInv /\ MeantInv => KeysStayMeant
  <2> SUFFICES ASSUME TypeOK, TableInv, MeantInv, created < W PROVE KeysStayMeant
    BY DEF KeysStayMeant
  <2> Meant
    BY DEF MeantInv
  <2>1. ASSUME NEW c \in Keys, jobs[c] # None
        PROVE  jobs[c] \in 1..created /\ c = KeyOf(jobs[c]) /\ lastKey # 0
    <3>1. jobs[c] \in Ids /\ key[jobs[c]] = c
      BY <2>1 DEF TypeOK, TableInv, TableIsExact
    <3>2. jobs[c] \in Live /\ jobs[c] \in 1..created
      BY <2>1, <3>1 DEF Live, TableInv, Numbered, TypeOK
    <3>3. QED
      BY <3>1, <3>2 DEF Meant, LastGiven, JobsMeant, TypeOK
  <2>2. ASSUME NEW c \in kills, jobs[c] # None PROVE jobs[c] \in released
    <3>1. PICK i \in released : c = KeyOf(i)
      BY DEF Meant, KillsMeant
    <3>2. i \in 1..created /\ c \in Keys
      BY DEF Meant, TypeOK
    <3>3. i = jobs[c]
      BY <2>1, <2>2, <3>1, <3>2, KeysApart
    <3>4. QED
      BY <3>3
  <2>3. ASSUME NEW n \in 1..Len(reserve)
        PROVE  jobs[reserve[n].key] \in {None, reserve[n].job}
    <3>1. n \in 1..Len(reserve) /\ n \in Nat \ {0} /\ n <= Len(reserve)
      BY DEF TypeOK
    <3>2. reserve[n] \in [key : Keys, job : Ids]
      BY <3>1, EntryType DEF TypeOK
    <3>3. reserve[n].job \in 1..created /\ reserve[n].key = KeyOf(reserve[n].job)
      BY <3>1 DEF Meant, ReserveMeant
    <3>4. QED
      BY <2>1, <3>2, <3>3, KeysApart
  <2>4. QED
    BY <2>2, <2>3 DEF KeysStayMeant
<1>3. QED
  BY <1>1, <1>2, TableInvariant, MeantStep, PTL DEF Spec

-----------------------------------------------------------------------------
(* The iterator.  A callback can destroy only its own job, and the walk    *)
(* has left that one by then.                                              *)
InWalk == pc = "walk" \/ (pc = "call" /\ caller = "walk")

IterInv ==
    /\ ib # None => ib \in Live
    /\ rest \subseteq Live /\ ib \notin rest
    /\ ib = None => rest = {}
    /\ pc = "call" => cur \in Live
    /\ pc = "call" /\ caller = "walk" => cur # ib
    /\ ~InWalk => ib = None

LEMMA AdvanceIter ==
    ASSUME NEW left \in SUBSET Live, Advance(left)
    PROVE  /\ ib' # None => ib' \in left
           /\ rest' \subseteq left /\ ib' \notin rest'
           /\ ib' = None => rest' = {}
           /\ ib' = None => left = {}
           /\ \A i \in left : i = ib' \/ i \in rest'
  BY DEF Advance, Live

LEMMA IterStep ==
    TypeOK /\ TableInv /\ IterInv /\ [Next]_vars => IterInv'
<1> SUFFICES ASSUME TypeOK, TableInv, IterInv, [Next]_vars PROVE IterInv'
  OBVIOUS
<1> USE DEF IterInv, InWalk
<1>1. CASE Create
  <2>1. PICK k \in Keys : key' = [key EXCEPT ![created + 1] = k]
    BY <1>1 DEF Create
  <2>2. created + 1 \in Ids /\ created \in Nat /\ k # NoKey
    BY <1>1 DEF Create, TypeOK
  <2>3. created + 1 \notin Live
    BY <2>2 DEF TableInv, Numbered, Live
  <2>4. Live' = Live \cup {created + 1}
    BY <2>1, <2>2 DEF Live, TypeOK
  <2>5. rest' \subseteq Live' /\ ib \notin rest' /\ (ib = None => rest' = rest)
    BY <1>1, <2>3, <2>4 DEF Create
  <2>6. UNCHANGED <<pc, caller, cur, ib>>
    BY <1>1 DEF Create
  <2>7. QED
    BY <2>4, <2>5, <2>6
<1>2. CASE Return
  <2>1. \/ UNCHANGED <<key, rest>>
        \/ Live' = Live \ {cur} /\ rest' = rest \ {cur}
    <3>1. CASE UNCHANGED <<key, rest>>
      BY <3>1
    <3>2. CASE Destroy({cur}) /\ rest' = rest \ {cur}
      <4>1. key' = [i \in Ids |-> IF i \in {cur} THEN NoKey ELSE key[i]]
        BY <3>2 DEF Destroy
      <4>2. QED
        BY <3>2, <4>1 DEF Live
    <3>3. QED
      BY <1>2, <3>1, <3>2 DEF Return
  <2>2. pc = "call" /\ pc' = caller /\ ib' = ib /\ caller \in {"idle", "reserve", "walk"}
    BY <1>2 DEF Return, NextOf, TypeOK
  <2>3. ib # None => ib # cur
    BY <2>2
  <2>4. pc' # "call" /\ (pc' = "walk" <=> InWalk)
    BY <2>2
  <2>5. QED
    BY <2>1, <2>2, <2>3, <2>4 DEF Live
<1>3. CASE PassBegin
  BY <1>3 DEF PassBegin
<1>4. CASE Dispatch
  <2>1. PICK k \in Keys : jobs[k] # None /\ cur' = jobs[k]
    BY <1>4 DEF Dispatch, Call
  <2>2. cur' \in Live
    BY <2>1 DEF TypeOK, TableInv, TableIsExact, Live
  <2>3. pc = "idle" /\ caller' = "idle" /\ pc' = "call" /\ UNCHANGED <<key, ib, rest>>
    BY <1>4 DEF Dispatch, Call, table, walk
  <2>4. QED
    BY <2>2, <2>3 DEF Live
<1>5. CASE DeliverReserve
  <2>1. CASE UNCHANGED <<pc, caller, cur>>
    BY <1>5, <2>1 DEF DeliverReserve, table, walk, Live
  <2>2. CASE /\ jobs[Head(reserve).key] # None
             /\ Call(jobs[Head(reserve).key], "reserve")
    <3>1. Head(reserve).key \in Keys
      <4>1. reserve \in Seq([key : Keys, job : Ids]) /\ reserve # <<>>
        BY <1>5 DEF DeliverReserve, TypeOK
      <4>2. Head(reserve) \in [key : Keys, job : Ids]
        BY <4>1, HeadTail
      <4>3. QED
        BY <4>2
    <3>2. \A k \in Keys : jobs[k] # None => jobs[k] \in Live
      BY DEF TypeOK, TableInv, TableIsExact, Live
    <3>3. cur' \in Live
      BY <2>2, <3>1, <3>2 DEF Call
    <3>4. pc = "reserve" /\ caller' = "reserve" /\ pc' = "call"
          /\ UNCHANGED <<key, ib, rest>>
      BY <1>5, <2>2 DEF DeliverReserve, Call, table, walk
    <3>5. QED
      BY <3>3, <3>4 DEF Live
  <2>3. QED
    BY <1>5, <2>1, <2>2 DEF DeliverReserve
<1>6. CASE ClearReserve
  BY <1>6, AdvanceIter DEF ClearReserve, table, Live
<1>7. CASE Timeout
  <2>1. ib \in Live /\ ib # None /\ cur' = ib /\ pc' = "call" /\ caller' = "walk"
    BY <1>7 DEF Timeout, IsLate, Call, TypeOK
  <2>2. Advance(rest) /\ UNCHANGED key
    BY <1>7 DEF Timeout, IsLate, table
  <2>3. /\ ib' # None => ib' \in rest
        /\ rest' \subseteq rest /\ ib' \notin rest'
        /\ ib' = None => rest' = {}
    BY <2>2, AdvanceIter
  <2>4. QED
    BY <2>1, <2>2, <2>3 DEF Live
<1>8. CASE NotLate
  BY <1>8, AdvanceIter DEF NotLate, IsLate, table, Live
<1>9. CASE PassEnd
  BY <1>9 DEF PassEnd, table, walk, Live
<1>10. CASE UNCHANGED <<key, pc, caller, cur, ib, rest>>
  BY <1>10 DEF Live
<1>11. QED
  BY <1>1, <1>2, <1>3, <1>4, <1>5, <1>6, <1>7, <1>8, <1>9, <1>10
     DEF Next, CheckTimeout, SetRelease, Reserve, Age, vars, table, walk

LEMMA IterInvariant == Spec => []IterInv
<1>1. Init => IterInv
  BY DEF Init, IterInv, InWalk
<1>2. QED
  BY <1>1, TableInvariant, IterStep, PTL DEF Spec

(* checkTimeout() never uses the iterator of a job that is gone.           *)
THEOREM IteratorIsGood == Spec => []NoStaleIterator
<1>1. IterInv => NoStaleIterator
  BY DEF IterInv, NoStaleIterator
<1>2. QED
  BY <1>1, IterInvariant, PTL

-----------------------------------------------------------------------------
(* The released.  As long as a job that was released is there, its key is  *)
(* in m_kills; so when dispatchKill() is over all that were released are   *)
(* gone, and numbers are not given again.                                  *)
KillsHaveThem == \A i \in released : i <= created /\ (i \in Live => key[i] \in kills)
DoomedAreGone == \A i \in doomed : i <= created /\ key[i] = NoKey
DoomInv == KillsHaveThem /\ DoomedAreGone

LEMMA DoomStep ==
    TypeOK /\ TableInv /\ DoomInv /\ [Next]_vars => DoomInv'
<1> SUFFICES ASSUME TypeOK, TableInv, DoomInv, [Next]_vars PROVE DoomInv'
  OBVIOUS
<1> USE DEF DoomInv, KillsHaveThem, DoomedAreGone
<1>1. CASE Create
  <2>1. PICK k \in Keys : key' = [key EXCEPT ![created + 1] = k]
    BY <1>1 DEF Create
  <2>2. /\ UNCHANGED <<doomed, released, kills>>
        /\ created' = created + 1 /\ created \in Nat
    BY <1>1 DEF Create, TypeOK, pass
  <2>3. \A i \in Ids : i <= created => key'[i] = key[i]
    BY <2>1, <2>2 DEF TypeOK
  <2>4. \A i \in Ids : i <= created => i <= created'
    BY <2>2
  <2>5. doomed \subseteq Ids /\ released \subseteq Ids
    BY DEF TypeOK
  <2>6. QED
    BY <2>2, <2>3, <2>4, <2>5 DEF Live
<1>2. CASE SetRelease
  <2>1. PICK i \in Live : kills' = kills \cup {key[i]} /\ released' = released \cup {i}
    BY <1>2 DEF SetRelease
  <2>2. i <= created
    BY <2>1, LiveCreated DEF TypeOK
  <2>3. UNCHANGED <<key, created, doomed>>
    BY <1>2 DEF SetRelease, pass
  <2>4. QED
    BY <2>1, <2>2, <2>3 DEF Live
<1>3. CASE Return
  <2>1. \A i \in Ids : key'[i] \in {key[i], NoKey}
    BY <1>3 DEF Return, Destroy
  <2>2. UNCHANGED <<doomed, released, kills, created>>
    BY <1>3 DEF Return, pass
  <2>3. QED
    BY <2>1, <2>2 DEF TypeOK, Live
<1>4. CASE PassBegin
  <2>1. key' = [i \in Ids |-> IF i \in Killed THEN NoKey ELSE key[i]]
    BY <1>4 DEF PassBegin, DispatchKill, Destroy
  <2>2. ASSUME NEW i \in released PROVE i <= created /\ key'[i] = NoKey
    <3>1. i \in Ids /\ i <= created
      BY DEF TypeOK
    <3>2. CASE i \in Live
      <4>1. key[i] \in kills /\ key[i] \in Keys /\ i # None
        BY <3>1, <3>2 DEF TypeOK, Live
      <4>2. jobs[key[i]] = i
        BY <3>1, <4>1 DEF TableInv, TableIsExact
      <4>3. i \in Killed
        BY <4>1, <4>2 DEF Killed
      <4>4. QED
        BY <2>1, <3>1, <4>3
    <3>3. CASE i \notin Live
      BY <2>1, <3>1, <3>3 DEF Live
    <3>4. QED
      BY <3>2, <3>3
  <2>3. doomed' = released /\ UNCHANGED <<created, released>>
    BY <1>4 DEF PassBegin
  <2>4. QED
    BY <2>2, <2>3 DEF Live
<1>5. CASE PassEnd
  <2>1. doomed' = {} /\ UNCHANGED <<key, kills, released, created>>
    BY <1>5 DEF PassEnd, table
  <2>2. QED
    BY <2>1 DEF Live
<1>6. CASE UNCHANGED <<key, kills, released, created, doomed>>
  BY <1>6 DEF Live
<1>7. QED
  BY <1>1, <1>2, <1>3, <1>4, <1>5, <1>6
     DEF Next, CheckTimeout, Reserve, Dispatch, DeliverReserve, ClearReserve,
         Timeout, NotLate, Age, vars, table, pass

(* A job that was released before checkTimeout(), in whatever way, is not  *)
(* called by it for a packet, an error or a timeout.                       *)
THEOREM DoomedCorrect == Spec => []DoomedGetNothing
<1>1. Init => DoomInv
  BY DEF Init, DoomInv, KillsHaveThem, DoomedAreGone
<1>2. IterInv /\ DoomInv => DoomedGetNothing
  BY DEF IterInv, DoomInv, DoomedAreGone, DoomedGetNothing, Live
<1>3. QED
  BY <1>1, <1>2, DoomStep, TableInvariant, IterInvariant, PTL DEF Spec

-----------------------------------------------------------------------------
(* One eventTimeout() per late job and pass, as long as no insertion moves *)
(* jobs across the iterator: what was called is not ahead of it, and   *)
(* what is late and was not called still is.                               *)
Ahead == {i \in Ids : i = ib \/ i \in rest}

OnceInv ==
    /\ \A i \in late \cup overdue : i <= created
    /\ \A i \in Ids : timedout[i] > 0 => i <= created
    /\ Delivering => \A i \in Ids : timedout[i] = 0
    /\ \A i \in Ids \ moved : timedout[i] <= 1 /\ (timedout[i] > 0 => i \notin Ahead)
    /\ InWalk => \A i \in late \ moved : i \in Live => timedout[i] = 1 \/ i \in Ahead

Known == TypeOK /\ TableInv /\ IterInv

LEMMA OnceAdvance ==
    ASSUME Known, OnceInv, NEW c, c \in {"walk", "call"}, pc = "walk",
           Advance(rest), UNCHANGED <<key, created, late, overdue, moved>>,
           pc' = c, c = "call" => caller' = "walk",
           \/ timedout' = timedout /\ ib \notin late
           \/ timedout' = [timedout EXCEPT ![ib] = timedout[ib] + 1] /\ ib \in late
    PROVE  OnceInv'
<1>1. /\ ib' # None => ib' \in rest
      /\ rest' \subseteq rest
      /\ \A i \in rest : i = ib' \/ i \in rest'
      /\ rest \subseteq Ids /\ ib \notin rest
  BY AdvanceIter DEF Known, IterInv, TypeOK, Live
<1>2. \A i \in Ids : i \in Ahead' <=> i \in rest
  <2>1. None \notin Ids
    OBVIOUS
  <2>2. QED
    BY <1>1, <2>1 DEF Ahead
<1>3. \A i \in Ids : i \in Ahead <=> i = ib \/ i \in rest
  BY DEF Ahead
<1>4. InWalk /\ ~Delivering' /\ Live' = Live
  BY DEF InWalk, Delivering, Live
<1>5. timedout \in [Ids -> Nat] /\ late \subseteq Ids
  BY DEF Known, TypeOK
<1>6. CASE timedout' = timedout /\ ib \notin late
  BY <1>1, <1>2, <1>3, <1>4, <1>5, <1>6 DEF OnceInv
<1>7. CASE timedout' = [timedout EXCEPT ![ib] = timedout[ib] + 1] /\ ib \in late
  <2>1. ib \in Ids /\ (ib \in moved \/ timedout[ib] = 0) /\ ib <= created
    BY <1>3, <1>5, <1>7 DEF OnceInv
  <2>2. /\ ib \in moved \/ timedout'[ib] = 1
        /\ timedout'[ib] \in Nat
        /\ \A i \in Ids : i # ib => timedout'[i] = timedout[i]
    BY <1>5, <1>7, <2>1
  <2>3. QED
    BY <1>1, <1>2, <1>3, <1>4, <1>5, <2>1, <2>2 DEF OnceInv
<1>8. QED
  BY <1>6, <1>7

LEMMA OnceStep ==
    Known /\ OnceInv /\ [Next]_vars => OnceInv'
<1> SUFFICES ASSUME Known, OnceInv, [Next]_vars PROVE OnceInv'
  OBVIOUS
<1>1. CASE Create
  <2>1. PICK k \in Keys : key' = [key EXCEPT ![created + 1] = k]
    BY <1>1 DEF Create
  <2>2. /\ created + 1 \in Ids /\ created \in Nat /\ created' = created + 1
        /\ UNCHANGED <<pc, caller, ib, timedout, late, overdue>>
        /\ late \subseteq Ids /\ timedout \in [Ids -> Nat]
        /\ overdue \subseteq Ids
    BY <1>1 DEF Create, Known, TypeOK, pass
  <2>3. moved' = moved \cup (((rest \ rest') \cup (rest' \ rest)) \ {created + 1})
    BY <1>1 DEF Create
  <2>4. \A i \in Ids \ moved' : i \in Ahead => i \in Ahead' \/ i = created + 1
    BY <2>2, <2>3 DEF Ahead
  <2>5. \A i \in Ids \ moved' : i \in Ahead' => i \in Ahead \/ i = created + 1
    BY <2>2, <2>3 DEF Ahead
  <2>6. \A i \in Ids : i # created + 1 => (i \in Live' <=> i \in Live)
    BY <2>1, <2>2 DEF Live, Known, TypeOK
  <2>7. \A i \in Ids : timedout[i] > 0 => i # created + 1
    BY <2>2 DEF OnceInv
  <2>8. \A i \in late : i # created + 1
    BY <2>2 DEF OnceInv
  <2>9. (InWalk' <=> InWalk) /\ (Delivering' <=> Delivering)
    BY <2>2 DEF InWalk, Delivering
  <2>10. moved \subseteq moved'
    BY <2>3
  <2>11. QED
    BY <2>2, <2>4, <2>5, <2>6, <2>7, <2>8, <2>9, <2>10 DEF OnceInv
<1>2. CASE Return
  <2>1. /\ rest' \subseteq rest /\ ib' = ib /\ rest \subseteq Ids
        /\ UNCHANGED <<timedout, moved, late, overdue, created>>
        /\ pc = "call" /\ pc' = caller /\ caller' = "idle"
        /\ caller \in {"idle", "reserve", "walk"}
    BY <1>2 DEF Return, NextOf, pass, Known, TypeOK
  <2>2. \/ UNCHANGED <<key, rest>>
        \/ Live' = Live \ {cur} /\ rest' = rest \ {cur}
    <3>1. CASE UNCHANGED <<key, rest>>
      BY <3>1
    <3>2. CASE Destroy({cur}) /\ rest' = rest \ {cur}
      <4>1. key' = [i \in Ids |-> IF i \in {cur} THEN NoKey ELSE key[i]]
        BY <3>2 DEF Destroy
      <4>2. QED
        BY <3>2, <4>1 DEF Live
    <3>3. QED
      BY <1>2, <3>1, <3>2 DEF Return
  <2>3. \A i \in Live' : i \in Live /\ (i \in Ahead => i \in Ahead')
    BY <2>1, <2>2 DEF Live, Ahead
  <2>4. \A i \in Ids : i \in Ahead' => i \in Ahead
    BY <2>1 DEF Ahead
  <2>5. (InWalk' => InWalk) /\ (Delivering' => Delivering)
    BY <2>1 DEF InWalk, Delivering
  <2>6. QED
    BY <2>1, <2>3, <2>4, <2>5 DEF OnceInv, Known, TypeOK
<1>3. CASE PassBegin
  <2>1. /\ timedout' = [i \in Ids |-> 0] /\ late' = overdue /\ pc' = "reserve"
        /\ UNCHANGED <<overdue, created>>
    BY <1>3 DEF PassBegin
  <2>2. \A i \in Ids : timedout'[i] = 0
    BY <2>1
  <2>3. ~InWalk'
    BY <2>1 DEF InWalk
  <2>4. QED
    BY <2>1, <2>2, <2>3 DEF OnceInv
<1>4. CASE Dispatch
  <2>1. ~InWalk' /\ ~Delivering'
    BY <1>4 DEF Dispatch, Call, InWalk, Delivering
  <2>2. UNCHANGED <<timedout, moved, ib, rest, late, overdue, created>>
    BY <1>4 DEF Dispatch, walk, pass, table
  <2>3. QED
    BY <2>1, <2>2 DEF OnceInv, Ahead
<1>5. CASE DeliverReserve
  <2>1. /\ Delivering /\ ~InWalk'
        /\ UNCHANGED <<timedout, moved, ib, rest, late, overdue, created>>
    BY <1>5 DEF DeliverReserve, Call, walk, pass, table, InWalk,
                Delivering
  <2>2. QED
    BY <2>1 DEF OnceInv, Ahead
<1>6. CASE ClearReserve
  <2>1. /\ Delivering /\ ~Delivering'
        /\ UNCHANGED <<timedout, moved, key, late, overdue, created>>
    BY <1>6 DEF ClearReserve, pass, table, Delivering
  <2>2. \A i \in Live : i = ib' \/ i \in rest'
    BY <1>6, AdvanceIter DEF ClearReserve
  <2>3. \A i \in Live' : i \in Ahead'
    BY <2>1, <2>2 DEF Live, Ahead
  <2>4. QED
    BY <2>1, <2>3 DEF OnceInv
<1>7. CASE Timeout
  <2>1. timedout' = [timedout EXCEPT ![ib] = timedout[ib] + 1]
    BY <1>7 DEF Timeout, IsLate
  <2>2. QED
    BY <1>7, <2>1, OnceAdvance DEF Timeout, IsLate, Call, table, pass
<1>8. CASE NotLate
  BY <1>8, OnceAdvance DEF NotLate, IsLate, table, pass
<1>9. CASE PassEnd
  <2>1. ~InWalk' /\ ~Delivering' /\ late' = {}
        /\ UNCHANGED <<timedout, moved, ib, rest, overdue, created>>
    BY <1>9 DEF PassEnd, InWalk, Delivering, walk, table
  <2>2. QED
    BY <2>1 DEF OnceInv, Ahead
<1>10. CASE Age
  <2>1. PICK i \in Live : overdue' = overdue \cup {i}
    BY <1>10 DEF Age
  <2>2. i <= created
    BY <2>1 DEF Known, TypeOK, TableInv, Numbered, Live
  <2>3. UNCHANGED <<timedout, moved, key, late, created, pc, caller, ib, rest>>
    BY <1>10 DEF Age, table, walk, pass
  <2>4. QED
    BY <2>1, <2>2, <2>3 DEF OnceInv, Ahead, InWalk, Delivering, Live
<1>11. CASE UNCHANGED <<timedout, moved, key, late, overdue, created, pc,
                        caller, ib, rest>>
  BY <1>11 DEF OnceInv, Ahead, InWalk, Delivering, Live
<1>12. QED
  BY <1>1, <1>2, <1>3, <1>4, <1>5, <1>6, <1>7, <1>8, <1>9, <1>10, <1>11
     DEF Next, CheckTimeout, SetRelease, Reserve, vars, table, walk, pass

(* For any number of jobs and any order of m_jobs, with jobs created and   *)
(* destroyed in the callbacks: a pass calls every late job that is there   *)
(* once, but for those that a rehash put to the iterator's other side.     *)
THEOREM OnceCorrect == Spec => []LateAreServedOnce
<1>1. Init => OnceInv
  BY DEF Init, OnceInv, InWalk, Delivering
<1>2. Known /\ OnceInv => LateAreServedOnce
  BY DEF Known, OnceInv, IterInv, InWalk, LateAreServedOnce, Ahead, TypeOK
<1>3. Known /\ OnceInv /\ [Next]_vars => OnceInv'
  BY OnceStep
<1>4. TypeOK /\ TableInv /\ IterInv => Known
  BY DEF Known
<1>5. QED
  BY <1>1, <1>2, <1>3, <1>4, TableInvariant, IterInvariant, PTL DEF Spec

=============================================================================
