--------------------------------- MODULE Pool ---------------------------------
(* MultiChannelPool (pw_multichannel_if.cpp): the kept channels of a service *)
(* by group and host, handed out in turns; SimpleChPoolTemplate               *)
(* (pw_simplechpool_tpl.h): channels of any kind.  A channel is a number,    *)
(* its address.  A host that has channels keeps the next one, a group the    *)
(* next host; a number that is not among them is an iterator that is no      *)
(* longer valid.                                                             *)
EXTENDS Integers, Sequences, SequencesExt, FiniteSetsExt

CONSTANTS Groups, Hosts, Dups   \* conf: count, the hosts of a group, count.dup

None == 0

\* the channels that s_create() makes, in its order, group by group
Channels == 1 .. Groups * Hosts * Dups
GroupOf(ch) == ((ch - 1) \div (Hosts * Dups)) + 1
HostOf(ch) == (((ch - 1) \div Dups) % Hosts) + 1

\* mutant: the turn stays where it is
After_Stays(S, x) == x

\* ++next, and begin() behind the last one
After(S, x) == LET more == {y \in S : y > x} IN IF more = {} THEN Min(S) ELSE Min(more)

-----------------------------------------------------------------------------
(* The pool: cont, next of every host; next host of every group; the         *)
(* channels that are connected; and what the last call gave                  *)

\* chhost_type::add(), chgroup_type::add() and add(): the first is the next
addToHost(host, ch) ==
    [cont |-> host.cont \cup {ch}, next |-> IF host.cont = {} THEN ch ELSE host.next]
add(pool, ch) ==
    LET g == GroupOf(ch) h == HostOf(ch) IN
    [pool EXCEPT !.host[g][h] = addToHost(@, ch),
                 !.next[g] = IF \A x \in 1 .. Hosts : pool.host[g][x].cont = {}
                             THEN h ELSE @]

\* s_create(), whose factory makes n channels: with fewer than it needs there
\* is no pool
Nothing == [host |-> [g \in 1 .. Groups |-> [h \in 1 .. Hosts |->
                        [cont |-> {}, next |-> None]]],
            next |-> [g \in 1 .. Groups |-> None], up |-> {}, got |-> None,
            defined |-> TRUE]
s_create == FoldLeft(add, Nothing, [i \in Channels |-> i])

\* chhost_type::getNext(): at most once around, to the first that is connected
RECURSIVE Around(_, _, _)
Around(host, up, n) ==
    CASE n = 0 -> [host |-> host, got |-> None]
      [] n > 0 /\ host.next \in up ->
            [host |-> [host EXCEPT !.next = After(host.cont, @)], got |-> host.next]
      [] OTHER -> Around([host EXCEPT !.next = After(host.cont, @)], up, n - 1)
HostNext(host, up) == Around(host, up, Cardinality(host.cont))

\* what follows an iterator that is not valid any more is not defined
Valid(host) == host.cont = {} \/ host.next \in host.cont

TakeOfHost(pool, g, h) ==
    LET r == HostNext(pool.host[g][h], pool.up) IN
    IF ~Valid(pool.host[g][h]) THEN [pool EXCEPT !.defined = FALSE]
    ELSE [pool EXCEPT !.host[g][h] = r.host, !.got = r.got]

\* chgroup_type::getNext(): every host once, the first of them twice
RECURSIVE TakeOfGroup(_, _, _)
TakeOfGroup(pool, g, n) ==
    LET r == TakeOfHost(pool, g, pool.next[g])
        on == [r EXCEPT !.next[g] = After(1 .. Hosts, @)]
    IN CASE ~r.defined -> r
         [] r.defined /\ r.got # None -> on
         [] r.defined /\ r.got = None /\ n = 0 -> r
         [] OTHER -> TakeOfGroup(on, g, n - 1)
getChannel(pool, g) == TakeOfGroup([pool EXCEPT !.got = None], g, Hosts)

\* getChannel(void): m_pool_next is the end, where it was set before there were
\* groups
getAnyChannel(pool) == [pool EXCEPT !.defined = FALSE]

\* broadcastFull(), broadcastPerGroup() and broadcastPerHost(): the channels
\* that are written to; the first writes to those that are not connected too
broadcastFull(pool) ==
    UNION {pool.host[g][h].cont : g \in 1 .. Groups, h \in 1 .. Hosts}
broadcastPerGroup(pool) ==
    FoldLeft(LAMBDA r, g : LET p == getChannel(r.pool, g)
                           IN [pool |-> p, out |-> r.out \cup ({p.got} \ {None})],
             [pool |-> pool, out |-> {}], [g \in 1 .. Groups |-> g])
broadcastPerHost(pool) ==
    FoldLeft(LAMBDA r, ch : LET p == TakeOfHost([r.pool EXCEPT !.got = None],
                                                GroupOf(ch), HostOf(ch))
                            IN [pool |-> p, out |-> r.out \cup ({p.got} \ {None})],
             [pool |-> pool, out |-> {}],
             [i \in 1 .. Groups * Hosts |-> (i - 1) * Dups + 1])

\* remove(): the turn goes on, to whatever is next, and the channel goes
remove(pool, ch) ==
    LET g == GroupOf(ch) h == HostOf(ch)
        r == TakeOfHost(pool, g, h)
    IN IF ch \notin pool.host[g][h].cont THEN pool
       ELSE [r EXCEPT !.host[g][h].cont = @ \ {ch}, !.got = None]

\* s_release(): the destructor calls the channels that it has just deleted
s_release(pool) == [pool EXCEPT !.defined = (broadcastFull(pool) = {})]

-----------------------------------------------------------------------------
(* SimpleChPoolTemplate                                                      *)

simpleEmpty == [m_pool |-> {}, m_index |-> 0, got |-> None]
simpleAdd(pool, ch) == [pool EXCEPT !.m_pool = @ \cup {ch}]
simpleRemove(pool, ch) == [pool EXCEPT !.m_pool = @ \ {ch}]
\* initialize() and initializeWithFactory(): of a pool that is empty only
simpleInitialize(pool, new) ==
    IF pool.m_pool = {} THEN [pool EXCEPT !.m_pool = new] ELSE pool
simpleGet(pool) ==
    LET ahead == {x \in pool.m_pool : x >= pool.m_index}
        ch == Min(IF ahead = {} THEN pool.m_pool ELSE ahead)
    IN IF pool.m_pool = {} THEN [pool EXCEPT !.got = None]
       ELSE [pool EXCEPT !.got = ch, !.m_index = ch + 1]
\* the move constructor: what is left is empty
simpleMove(pool) == <<pool, simpleEmpty>>

-----------------------------------------------------------------------------
(* calls: <<name, channel>> in the order they are made                       *)

Call(pool, c) ==
    CASE ~pool.defined -> pool
      [] c[1] = "up" -> [pool EXCEPT !.up = @ \cup {c[2]}]
      [] c[1] = "down" -> [pool EXCEPT !.up = @ \ {c[2]}]
      [] c[1] = "get" -> getChannel(pool, GroupOf(c[2]))
      [] c[1] = "group" -> broadcastPerGroup(pool).pool
      [] c[1] = "host" -> broadcastPerHost(pool).pool
      [] c[1] = "remove" -> remove(pool, c[2])
PoolAfter(calls) == FoldLeft(Call, s_create, calls)

SimpleCall(pool, c) ==
    CASE c[1] = "up" -> simpleAdd(pool, c[2])
      [] c[1] \in {"down", "remove"} -> simpleRemove(pool, c[2])
      [] c[1] \in {"get", "host"} -> simpleGet(pool)
      [] c[1] = "group" -> simpleInitialize(simpleMove(pool)[1], Channels)

Taken(Get(_), pool, n) ==
    FoldLeft(LAMBDA r, i : LET p == Get(r.pool) IN [pool |-> p, out |-> r.out \cup {p.got}],
             [pool |-> pool, out |-> {}], [i \in 1 .. n |-> i]).out

\* Whatever was connected, lost, removed and asked for before: a group gives
\* none only when it has none that is connected, and when nothing changes all
\* of them are given in turns, as are those of a simple pool; one broadcast
\* writes to one channel for each group, or host, that has one.  Only the end
\* of an iterator in remove() may end this.
EveryChannelHasItsTurn(calls) ==
    LET pool == PoolAfter(calls)
        simple == FoldLeft(SimpleCall, simpleEmpty, calls)
        up(g) == {ch \in broadcastFull(pool) \cap pool.up : GroupOf(ch) = g}
        valid == \A g \in 1 .. Groups, h \in 1 .. Hosts : Valid(pool.host[g][h])
        Group1(p) == getChannel(p, 1)
    IN /\ Taken(simpleGet, simple, Cardinality(simple.m_pool)) = simple.m_pool
       /\ (\A i \in DOMAIN calls : calls[i][1] # "remove") => pool.defined /\ valid
       /\ pool.defined /\ valid =>
            /\ Taken(Group1, pool, Hosts * Dups) \ {None} = up(1)
            /\ up(1) # {} => None \notin Taken(Group1, pool, Hosts * Dups)
            /\ \A g \in 1 .. Groups :
                 Cardinality(up(g) \cap broadcastPerGroup(pool).out) =
                     IF up(g) = {} THEN 0 ELSE 1
            /\ \A h \in Channels :
                 LET own == {ch \in up(GroupOf(h)) : HostOf(ch) = HostOf(h)}
                 IN Cardinality(own \cap broadcastPerHost(pool).out) =
                      IF own = {} THEN 0 ELSE 1
=============================================================================
