# PW library: specifications, model checking and proofs

The PW library (`src/pw/`) is a C++11 framework for network daemons: one
event loop per process, optionally a parent process that keeps a set of
children alive, channels that turn a byte stream into packets, jobs
(transactions) that wait for packets with a timeout, and a set of helpers
(encodings, tokenizers, addresses, wrappers of OpenSSL and zlib).

This directory models the parts of it that keep state over time, and the pure
algorithms that have a reference definition. TLC checks each model on small
instances; TLAPS proves the properties that matter most for every value of the
constants.

## 1. Inventory

A daemon is an `InstanceInterface`. `start()` reads the options and the
configuration, forks the children if the instance is of type MULTI, and runs
the loop

    while run:  reap children -> reload? -> poller.dispatch -> job timeouts -> timers -> eventEndTurn

so that everything below runs on one thread, by callbacks out of this loop. The
only code for several threads is the concurrent queue, a lock table for
OpenSSL, and the reservations of the job manager.

| component | state it keeps | operations | talks to | what is hard |
|---|---|---|---|---|
| instance (`pw_instance_if`) | table of children (pid, descriptor pair), flags set by signals, poller, job manager, listeners | `start`, `fork`, `_checkChild`, `signalToChild`, `eventExit` | all of them; the kernel: `fork`, `waitpid`, signals | signals merge and arrive between any two statements; children die and are forked again while the table is walked; descriptor numbers are reused |
| timer (`pw_timer`) | map of clients to timers, two iterators of the walk in progress | `add`, `remove`, `clear`, `check` | instance (called once per turn), every client | callbacks change the map under the walk; the walk starts again |
| jobs (`pw_jobmanager`) | map of keys to jobs, set of keys to kill, list of reserved packets | construction and destruction, `setRelease`, `dispatchPacket/Error`, `reservePacket/Error`, `checkTimeout` | channels deliver packets; the loop calls `checkTimeout` | callbacks create and end jobs under the walk; keys wrap; another thread reserves |
| queue (`pw_concurrentqueue_if`) | list, limit, mutex, condition variable | `pop`, `popTimed`, `popTry`, `push`, `push_front`, `clear`, `setMaxSize` | threads of the application | lost wakeups; timeouts that race with notifications |
| poller (`pw_iopoller*`) | clients by descriptor, epoll set | `add`, `remove`, `setMask`, `dispatch` | channels, listeners | a batch of events outlives the clients and descriptors it names |
| channel (`pw_channel_if`) | state of the connection, state of the instance, two buffers, TLS object | `connect`, `accept`, `write`, `setRelease`, `setExpired`, `eventIo` | poller, buffers, ssl, jobs | asynchronous connect and handshake, closing with output pending, callbacks that delete or recycle the channel |
| buffer (`pw_iobuffer`) | storage and two positions | `grabRead/moveRead`, `grabWrite/moveWrite`, `flush`, `increase`, `peekLine` | channel | positions after compaction, growth and shrinking |
| message channel (`pw_msgchannel`, `pw_msgpacket`) | receive state, partial header and body, time of last read | `eventReadData`, `eventTimer` | channel, timer | reading across boundaries; the channel disconnects in the middle of the read loop |
| multi-channel pool (`pw_multichannel_if`) | channels per host and name, round-robin position, flag connected | `add`, `remove`, `getChannel`, `reconnect`, `disconnect` | message channel, timer | reconnection timers, late answers, state kept over a reconnect |
| listener (`pw_listener_if`) | listening sockets; parent: round-robin index | `open`, `eventIo`, `getPipeFD`; child: reads passed descriptors | poller, instance's pairs | descriptors passed between processes, dead children |
| http (`pw_httpchannel`, `pw_httppacket`) | receive state, partial packet, the query and its time | `eventReadData`, `s_query`, `cancelQuery`; first lines, headers, forms | channel, jobs | incremental parsing, bodies that end with the connection, a timeout that races with the answer |
| redis, apns (`pw_redis*`, `pw_apns*`) | stack of values that are not complete | `parse`, `write` | channel | nested replies in pieces |
| pools (`MultiChannelPool`, `pw_simplechpool*`) | channels by group and host, whose turn it is | `getChannel`, `broadcast`, `add`, `remove` | channels, application | round robin over channels that come and go |
| tables (`pw_iprange`, `pw_region`, `pw_strfltr`, `pw_ini`, `pw_key`) | sorted ranges, indexes, rules, sections, an array of characters | reading, writing, insertion, lookup | application | overlaps, refusals that must take back what was done, what was there before |
| algorithms (`pw_encode`, `pw_tokenizer`, `pw_string`, `pw_uri`, `pw_compress`, the blobs, hosts and urls of `pw_common`) | a position, a stream of zlib, or none | functions | everybody | boundaries; several forms of one function |
| wrappers (`pw_ssl`, `pw_crypto`, `pw_digest`, `pw_socket`, `pw_sockaddr`, `pw_date`, `pw_sysinfo`, `pw_module`, `pw_log`) | handles | thin calls of other libraries | everybody | mostly outside of this code |

What makes each of them correct, in short: a walk over a container survives its
callbacks and misses nothing (timer, jobs, poller); a table says what is really
there (children, jobs, descriptors); what is accepted is delivered once, in
order, and whole (queue, channels, packets); what is due, broken, released or
dead is dealt with in the end (timer, jobs, supervisor, multi-channel); a
conversion and its inverse cancel, and an incremental parser gives the same
result however the bytes are cut (packets, encodings).

## 2. Plan

The modules are written one component at a time, the ones with the most control
and the most interleaving first, because that is where a test reaches least.

| step | module | of | composes / refines | state |
|---|---|---|---|---|
| 1 | `Timer`, `TimerProofs` | `pw_timer` | — | done |
| 2 | `Supervisor`, `SupervisorProofs` | `pw_instance_if` | kernel as part of the module | done |
| 3 | `JobManager`, `JobManagerProofs` | `pw_jobmanager` | — | done |
| 4 | `BoundedQueue`, `ConcurrentQueue`, `ConcurrentQueueProofs` | `pw_concurrentqueue_if` | `ConcurrentQueue` implements `BoundedQueue` | done |
| 5 | `MultiChannel`, `MultiChannelProofs` | `pw_multichannel_if`, the reader of `pw_msgchannel`, the client half of `pw_channel_if` | three classes of one object in one module | done; the pool is `Pool` |
| 6 | `Channel`, `ChannelProofs` | `pw_channel_if`, and of the poller what one descriptor sees | kernel, poller and application as parts of the module | done but for the blocking reads |
| 7 | `IoPoller`, `IoProofs` | `pw_iopoller_epoll`, `pw_iopoller_select` | the kernel and the clients as parts of the module | done |
| 8 | `ByteQueue`, `IoBuffer`, `IoBufferLines`, `IoProofs` | `pw_iobuffer` | `IoBuffer` implements `ByteQueue` | done |
| 9 | `Listener`, `ListenerProofs` | `pw_listener_if`, with the pairs of `pw_instance_if` | parent, children and the parent's descriptors in one module | done but for opening and closing |
| 10 | `HttpChannel`, `IoProofs` | `pw_httpchannel` | extends `IoBuffer`, whose `buf` is its read buffer | done |
| 11 | the text modules: `Codec`, `Tokenizer`, `Strings`, `Uri`, `HttpText`, `Redis`, `MsgPacket`, `Common`, `Compress`, `Ini`, `StrFltr`, `IpRange`, `Region`, `Key`, `Pool` | `pw_encode`, `pw_tokenizer`, `pw_string`, `pw_uri`, `pw_httppacket`, `pw_redispacket`, `pw_msgpacket` and `pw_apnspacket`, `pw_common`, `pw_compress`, `pw_ini`, `pw_strfltr`, `pw_iprange`, `pw_region`, `pw_key`, the pools | `Ini` uses `Strings` and `Codec`, `Key` and `Uri` use `Tokenizer`; `MCTexts` instantiates them all | done, for TLC only |

Abstract specifications: the bounded queue (`BoundedQueue`) and the byte queue of
a channel's buffers (`ByteQueue`), both implemented and proved so. "Packets arrive
whole and in order" is `ReadsWhatWasSent` of `HttpChannel`, against a definition
of the messages of a text by positions.

Every safety property that the runs check is proved, but those of `texts`, which are
about recursive definitions, and the one of `supervisor_reap`, which does not hold.
Properties that the documents promise and that do not hold of the code are stated in
the modules too, next to the ones that do; section 6 lists them.

## 3. The modules and the code

Each module has the constants of its instance at the top, one action per
stretch of code that runs without a callback, a lock operation or a signal in
between, the specification, and then the properties. `MC<module>` is what TLC is
given; the instances differ only in their `.cfg`. Definitions with a suffix
(`AutoFlush_Never`) are mutants: the definition after them, changed the way a slip
in the code would change it. No specification uses them; they are there to show
that the properties notice.

**Timer** — `Timer::check()` step by step: `CheckBegin`, `NextClient`, `Fire` or
`NotDue`, `Restart` or `NextEvent`, `ClientDone`, `CheckEnd`. The map of maps is
the set `reg` of pairs <<client, id>> ordered by rank; iterators are keys. While
`pc = "callback"` the application may call `Add`, `Remove`, `Clear` or create and
destroy `Event` objects. `dangling` remembers which iterators point to erased
nodes, which in C++ is undefined behaviour to use. `Tick` moves the clock.

**Supervisor** — the parent of a MULTI daemon: `InitChild` is one turn of the
loop of `eventInitChild()`, `LoopTop` the test of `m_flag`, `ReapNothing`,
`ReapChild`, `ReapStranger` the turns of the loop of `_checkChild()` with its
`break`, `Report` a call of `eventExitChild()`, `EventExit` the end. The kernel is
part of the module: processes and zombies, a SIGCHLD that merges with the one
that is pending, `waitpid()`, and a table of descriptors that gives out the
lowest free numbers, since it is the reuse of numbers and process ids that makes
a stale slot wrong. Signals arrive between any two steps.

**JobManager** — `m_jobs` maps keys modulo `W` to jobs, `lastKey` is the counter.
`PassBegin` is the part of `checkTimeout()` up to `dispatchReserve()`,
`DeliverReserve` one turn of its loop, which also sees what its callbacks append;
`reserve` is what of `m_reserve` the loop has not looked at. `ClearReserve` is the end
of that loop, the `clear()` and the `begin()` of the walk, `Timeout` and `NotLate` one
turn of the walk. An `unordered_map` has no order that the code could rely on, so
`Advance` takes any of the jobs that are left. A job that is inserted in the walk may
rehash the table, after which any job may lie on either side of the iterator, which
stays good; `moved` remembers those that changed side. In `pc = "call"` the
application creates jobs, releases them and reserves.

**ConcurrentQueue** — every thread has its program counter; `Lock`, `Front`,
`PopFront`, `Wait`, `WakeUp`, `Relock`, `TimeOut`, `Push`, `NotifyOne`, ... are
the steps between lock, wait and notification. The mutex and the condition
variable are what the C++ standard allows: `notify_one()` picks any waiter, a
wait may end spuriously, `wait_until()` may report a timeout although it was
notified. **BoundedQueue** is the promise: a list on which each operation is
atomic. `Queue == INSTANCE BoundedQueue` maps the variables by their names;
`PopFront`, `Push`, `Clear` and `SetMaxSize` are the steps that take effect, all
others stutter.

**MultiChannel** — one `MultiChannelInterface` through any number of connections.
`Clear` is `clearInstance()`, `Reconnect` is `reconnect()` with `procConnect()`,
`EventConnect` and `Deliver` include what the application answers, `SetConnected`
and `SetDisconnected` are the functions of these names. `WaitMore`,
`BadHeader`, `HeaderOnly`, `HeaderOfBody`, `BodyPart` and `Body` are turns of the loop of
`MsgChannel::eventReadData()`; `loop` keeps every other handler out while it runs,
as the single thread does. The bytes of a connection are cut into cells: the first half
of a header, the half with the end of the line, the cells of a body, and a line that
is no header. The reader takes counts of them, whatever they are, as the code takes
`m_dest_bodylen - m_recv_bodylen` bytes: with a header kept from an older connection a
body can end in the middle of a packet, and what is taken for a line or a header
after that is open. `part` says what the header in `m_recv` is of, `began` in which state
of the reader the connection began, and `last` whether the last packet was whole.

**Channel** — one `ChannelInterface`, from either side, with or without SSL and a
handshake of its own (`Kinds`). `eventIo()` is split by its tests: `EventDeleted`,
`EventConnecting`, `ReadExpired`, `EventRead`, `EventWrite`, `EventError`; each is
atomic up to the callback it makes, where `at` becomes "callback" or "wrote" and
the application may write, expire, release, close or connect again, and
`CallbackReturns` and `WroteReturns` are the rest of the handler. `Ssl`, `BeginEx`
and `HandshakeEx` are the functions of the handshakes with every answer OpenSSL
and the application's procedures may give. `Release` is `releaseInstance()`, and
also what is left of `eventError()` inside `eventIo()`. `Wait` is `epoll_wait()`:
what it has returned (`got`) is delivered later, and other clients' callbacks and
timers may act on the channel in between. Data are counted in units.
Nothing of that is switched off: the application writes or expires before the
connection is made, and an event of a closed descriptor may be delivered to the next
connection of the same number. `Immediate` is an asynchronous `connect()` that succeeds
at once. `SetMaskAnew` is the `setMask()` of the places where a connection or handshake
goes on, which do not look at the output or the instance; `lost` remembers the
POLLOUT that was overwritten there until somebody asks for it again. Not
allowed is to close a channel inside of its `eventWriteData()`, where the code
would go on to call `setMask(-1, ...)`.

**IoPoller** — `m_clients` over epoll or over the two sets of `select()` (`kind`). The
clients open descriptors, of which the kernel hands out the lowest, register, set
masks, remove, close, hand a descriptor over to another client, and may close one
without `remove()` (`Abandon`) or have an `add()` fail. `Wait` is
`epoll_wait()` or `select()`, whose batch `Deliver` and `Skip` take apart; in between
`calling` may do all of the above, also to the descriptors of the batch. A null
pointer that `select` calls sets `down`. `bare`, `gone`, `failed` and `left` are history:
entries that have a mask and were never added, that were removed in this dispatch,
whose `add()` failed, and that were left open by their client.

**IoBuffer** — the block `mem`, its size and two positions, as offsets. `GrabWrite`
with `AutoFlush`, `Increase` and `Compacted` are the private steps, and
`WriteToBuffer`, `WritePacket`, `ReadFromFile`, `Take`, `Clear`, `CallFlush`, `Resize`
the operations; `realloc()` may move, stay or fail. Unread positions hold `Junk`.
**ByteQueue** is the promise: bytes that are written at the end and read at the
front. **IoBufferLines** adds `getLine()`, which takes a line out, and `peekLine()`, which only looks.

**Listener** — `ParentListener::eventIo()` is split at `sendmsg()`, which may block:
`Accept`, `Send`, `Close`. `Receive` is the child's listener, `SslEvent` its
`SslDummyChannel`, `AcceptHere` a listener of the parent's own. `Die`, `Reap` and
`ForkAgain` are what the supervisor does to a slot; it keeps the numbers of its closed
pair. The parent's descriptor table is part of the module, and TLC is given the
module itself: its constants are sets and numbers.

**HttpChannel** — server's and client's channel and the query. `ReadFirstLine`, `Header`,
`AfterHeader`, `Body`, `Done` are turns of the loop of `eventReadData()`, in between
`pc = "read"`; `EventRead`, `ReadClose`, `Breaks`, `Write`, `Connected`, `ConnectFails` what the
poller brings; `TimedOut` and `GoesOn` are the loop of `_s_querySync()`, `AppCancels` the
job's `cancelQuery()`. When the time is over the code calls `cancelQuery()` and, at
ERROR_PROC, deletes the channel: one that is connected is only expired by the first and
ends there; one that is not, or that has gone by itself, is deleted twice or used after
it was, and `call` is "undefined". In a
query that is waited for an error is handed to nobody: it returns true and the error 0. The buffer is `IoBuffer`'s. A line is recognised by one symbol.
`told` has for each packet also how much of the text was read when it was handed on,
so that it can be compared with the text between two ends. What a message is, is said
without the reader and without recursion, by positions: its first line ends at the
first end of a line (`FirstLineEnds`), its head at the first empty line (`HeadEnds`), the
last length in the head counts (`LengthIs`), the other lines in order are the headers
(`HeadersAre`), and the body is as long as the length says (`BodyEnds`, `BodyIs`). `IsBad` is a
text that cannot become a message, whatever comes.

**The text modules** — functions without a state of their own, with the names of the
code. Where the code has several forms of one function, each is a definition and a
property says that they agree. What is shared: a text is a sequence (of bytes,
characters or words, as the functions tell them apart); an outcome is a record with
`ok`; what the code leaves undefined is a set of outcomes, or a flag.
`Codec` has the two kinds of source, a blob and a stream, which notice their end
differently. `Tokenizer` gives positions. `IpRange` has maps ordered so that overlapping
ranges are equal, as the code's comparison has it, and the uninitialised bounds
of an address that is none. `Redis` is the stack of the reader, `MsgPacket` also has the
packets of APNS. `Compress` has a small zlib: a packed text is a head, cells of one
or two letters, and a tail; `inflate()` answers Z_BUF_ERROR as zlib documents it.
`Pool` marks an iterator to an erased element as no longer valid.

## 4. Runs

| run | shows |
|---|---|
| `timer` | every iterator `check()` uses is valid whatever the callbacks do (`NoStaleIterator`); a pass leaves no due entry behind and calls none twice (`PassIsExact`) and ends (`PassEnds`) |
| `supervisor` | the table of children is exact although process ids are reused (`TableIsExact`); each reaped process is reported once (`EveryReapIsReported`); a daemon that is told to stop takes all its children with it (`EveryoneLeaves`) |
| `supervisor_reap` | finding: two deaths under one SIGCHLD leave a zombie (`DeadAreReaped`) |
| `jobmanager` | keys wrap and the table stays exact (`TableIsExact`); a waiting key does not come to mean another job before the counter has gone round (`KeysStayMeant`); a job that was released before the pass gets nothing in it, because its key is still in `m_kills` and still leads to it (`DoomedGetNothing`); a late job is told once per pass, but for those that a rehash has moved (`LateAreServedOnce`); no reservation is dropped, also none that is made while they are delivered, released jobs go and overdue jobs are told, unless the callbacks reserve for ever (`AllAreServed`) |
| `queue` | the queue implements `BoundedQueue` (`ActsAtomically`); there is always a notification or a thread awake for each element somebody waits for, but for those that went away with a `popTimed()` (`NoLostWakeup`) |
| `multichannel` | a channel that is down has a timer or a connect that brings it up (`NeverStranded`), and comes back (`ComesBack`); while it says it is connected there is a connection whose hello was checked and no timer is left that would cut it (`ConnectedIsReal`); on a connection that began with an empty reader each packet is whole and the reader stays in step with the peer, however the bytes are cut (`StaysInStep`) |
| `channel` | the poller is asked for all that a channel waits for, but for the POLLOUT that is lost as its connection is made (`IsArmed`: output, going, input); an expired channel is destroyed with its output gone, or broken, also when it is given events of an older connection (`ExpiredIsFlushed`); what is to go goes, unless it expired in a handshake or its POLLOUT was lost (`GoingGoes`) |
| `poller` | what epoll watches is open and leads to its owner (`KernelKnowsOwner`); `select()` is asked about every registered descriptor (`SelectCovers`); no client is called for a descriptor that is not its own, and the two ways to a null pointer are the only ones (`CallsOwner`); nobody ready starves (`ReadyIsServed`) |
| `buffer` | no write passes the end of the block (`WritesInBlock`), the buffer implements `ByteQueue` (`IsByteQueue`), and the line functions find the first line, or run on behind the text in the case the property names (`FindsLine`) |
| `listener` | an accepted connection is in one place (`OneHolder`); numbers of descriptors mean what the code takes them for, as long as no slot was left empty (`NumbersMeant`); a connection is offered or closed in the end, unless its child is dead, the parent hangs in `sendmsg()`, or its peer does not end the TLS handshake, for which the code has no limit of time (`Settles`) |
| `http` | the packets that are handed on are the messages of the text, however it was cut (`ReadsWhatWasSent`); a query with a job is told of a packet or an error before its channel is gone, unless it is cancelled, and after the first only of what came in with it (`AnsweredOnce`); a call ends (`QueryEnds`: with an answer, by its time, or undefined) |
| `texts` | codecs and their inverses (`CodecsInvert`); all forms of cutting agree (`WordsAgree`); of lines that contradict each other the right one counts, and a file that is written and read again has the same sections, items and rules (`SettingsAgree`); indexes find what a walk would (`LookupsAgree`); where a message ends does not depend on how it arrives (`RepliesInPieces`); texts that are written again are the same (`TextsReadBack`) |

What a property of `texts` leaves out is said in its comment.
`TypeOK` is the type invariant of each module; it is the first conjunct of every
inductive invariant, and no run checks it by itself where a theorem covers it. A
conjunct of a property of `texts` is an operator of the text module that it is about,
with its own comment there.

### Bounds, and why they are enough

- `timer`: two clients with two ids. An entry can then be before, at and after
  the one that is called, with the same client and with another one, and a
  client can lose its only entry or one of two. The clock has steps of 500 ms up
  to 1500, so an entry with cycle 0 becomes due twice and one with 500 once, and
  an entry that was added in a callback can be due in the next pass only.
- `supervisor`: two children, two process ids and four descriptors with three
  forks: ids and descriptors must be reused. `MaxForks` bounds the history, the
  code has no such bound.
- `jobmanager`: `W = 5` leaves four usable keys for five jobs, and the counter begins at 3:
  it wraps over 0 at once and over living jobs with the last job. `MaxActs = 6` bounds in
  sum the jobs created, released and overdue and the reservations that wait. That is
  two late jobs, one between them and one that is created in a callback, which is
  what it takes for a rehash to skip a late job; or a wrap over four jobs; or two
  reservations, so that a callback of the loop reserves again. `checkTimeout()` is not
  bounded by it.
- `queue`: three threads, one of which may be between the other two at each
  step, four operations, two items, limits 0 (none) and 1, where `push` is refused.
- `channel`: all eight kinds; two units of output and of room let a write be short,
  whole, and refused by the kernel.
- `multichannel`: three cells under way, headers of two and bodies of up to two: the
  buffer may end in a header, between header and body, in a body, or hold the end of a
  packet and the beginning of the next; the number of connections is not bounded.
- `poller`: two descriptors and two clients, enough for one to be closed and
  reused by the other inside a batch of both; epoll with batches of one and of
  two events, select with and without room for both descriptors. Only POLLIN: the
  mask matters as empty or not.
- `buffer`: a block of two bytes that may grow to six in steps of two, writes of up
  to three: a write fits, needs the flush, needs to grow, or does not fit. Three
  letters, of which two are CR and LF.
- `listener`: two connections, two children and three forks after the first: a
  pair is full (`PairRoom` is 1), a child dies with a message in its pair, and a
  number is taken by another slot or by a connection.
- `http`: lines of up to four symbols (which is also the buffer's first size),
  bodies of up to two; two texts for a server and a job, one for a query that is
  waited for. The texts are all combinations of good and bad heads with every
  body, so that a second message follows a first one of any kind, in any pieces.
- `texts`: all texts up to a length, over symbols that the functions tell apart:
  strings, codecs, pools, replies of Redis and first lines up to 4; tokens,
  forms, uris, paths and packed streams up to 5; lists up to 6; the seven words of a
  header; rules, ranges, regions, keys, settings and items up to 3, where each
  symbol is a line of a file or a call. Four bytes are an escape with its
  longest operand, or base64's group; three lines are enough for two that
  contradict each other and one between. Addresses have two octets of four
  values, keys two characters, bodies two bytes, a pool two groups of two
  hosts with two channels, and the buffers of zlib one to three bytes.
  There are 152 772 texts. The properties name what is read once and used often by
  a quantifier over a set of one element, since TLC's coverage statistics expand a
  `LET` at each of its uses.

No run uses symmetry: the clients of the timer and the slots are ordered, and most
other instances check liveness.

Deadlock is checked for `jobmanager`, `multichannel`, `poller`, `buffer` and `http` (where
`Stopped` names the state that ends). It is not for `timer` (its clock ends at
`MaxClock`), `supervisor` (the daemon ends), `channel` (it is destroyed), `queue`
(threads that wait with nothing left to do, `MaxOps`), `listener` (all connections are
settled) and `texts` (a text is as long as it may be).

### Fairness

- `Timer`: `WF(Check)` — the main loop calls `Timer::check()` in every turn and
  callbacks return. The clock is not fair: nothing is assumed of it.
- `Supervisor`: `WF(Loop)` — `poll()` has a timeout, so the loop goes round;
  `WF(ChildSignal)` and `WF(Orphaned)` — the kernel delivers signals and cleans up;
  `WF(ChildExits(p))` — a child that was told to stop leaves its own loop. A crash,
  a signal of the operator and whatever callbacks do are never forced.
- `JobManager`: `WF(CheckTimeout)` and `WF(Return)`; `SF(PassBegin)` because packets
  may be dispatched between two turns, each time disabling and enabling it again,
  but `poll()` hands out finitely many events before `checkTimeout()` is called.
- `ConcurrentQueue`: `WF(Run(t))` for each thread that has begun an operation.
  Nobody has to begin one, spurious wakeups and the passing of a limit are not
  fair, and the lock is only weakly fair.
- `MultiChannel`: timers fire, the kernel ends each connect, the read loop goes
  on (`WF`); `SF(ReadFails)`, since `eventRead()` of what is still there may come
  first any finite number of times. The peer and the application do what they like.

- `IoPoller`: `WF(Return)` and `WF(Stop)` — callbacks return; `WF` of the delivery of
  each descriptor of a batch and `SF` of a `Wait` that returns a ready one — the main
  loop calls `dispatch()` again and again, and the kernel's list of ready
  descriptors is a queue.
- `Listener`: `WF` of accepting, sending, closing and receiving, and of what a
  `SslDummyChannel` does with a handshake that is over — the pollers serve what is
  ready. The handshake itself is the peer's and is not fair: nothing in the code ends
  one that stays open. Neither are deaths and reaping.
- `HttpChannel`: `WF(Turn)` — the poller and the loop of the reader go on; `WF(TimePasses)`
  — the time of a query runs out. The peer may stop at any point.
- `Channel`: `WF(Loop)` — the loop waits, delivers and its callbacks return;
  `WF(ConnectEnds)` — the kernel ends each connect, if only by its timeout. That
  the peer reads is not assumed of the specification: `GoingGoes` has it as its
  premise.

## 5. Proofs

The theorems hold for every value of the constants that the named assumptions
admit (`TimerAssumption`, ...: the types of the constants, and at least one child).
They are safety properties, proved from an inductive invariant that is stronger
than the property, one step per action.

- **TimerProofs**. `IteratorInv`: as long as `m_inv_itrs` is not set, the iterators
  are end or point to entries and the current one is in the map; once it is set
  nothing is said, and `check()` looks them up again before it uses them:
  `IteratorsAreGood`. `PassInv`: of the entries that the walk has passed none is
  due at its `now`, and what it has called has been stamped with it. `Passed` has
  to say where the walk stands in each of its states, the restart included.
  `NothingIsMissed` and `CalledOnce` need that the clock does not go back
  (`ClockSteps \subseteq Nat`), which they assume; the code reads `gettimeofday()`.
- **SupervisorProofs**. `TableInv`: a pid is in a slot exactly if the process is
  not reaped and was forked for it; the slots that wait on the list of the reaped
  are empty and on it once; the slots that `eventInitChild()` has not reached are
  empty. Without the second part `eventExitChild()` could fork over a living child.
  From it: `TableCorrect`, and `ExitReachesAll`, since the slots then hold every
  child. `ReportsCorrect` counts.
- **JobManagerProofs**. `TableInv` relates `m_jobs`, the keys of the objects and
  the number of those created: `TableCorrect`, for each width of the key.
  `DoomInv`: a job that was released and lives has its key in `m_kills`, so that
  `dispatchKill()` destroys it before the first callback: `DoomedCorrect`.
  `IterInv`: the iterator and what is ahead of it are alive, and the job in the
  callback is not the saved one, so that its end harms nothing: `IteratorIsGood`
  holds even if the table is rehashed. `OnceInv`: what was called is not ahead,
  what is late, alive and not called is, unless it was moved by a rehash:
  `OnceCorrect`. `MeantInv`:
  until the counter has been all round, the key of each job can be counted back
  from the last one (`KeyFrom`), that of a job that is gone too, so that what waits
  in `m_kills` or `m_reserve` still has its job's key, and no other job has it:
  `KeysCorrect`.
- **ConcurrentQueueProofs**. `LockInv`: whoever is between taking and releasing
  the lock owns it, and what a pop has read is still the front. `Linearizable`:
  `Spec => ActsAtomically`, each step of the queue is a step of `BoundedQueue` or
  a stutter. `NothingSleeps` proves the counting of `NoLostWakeup` with the
  cardinalities of the sets of threads; `NothingWasted` that without `popTimed()`
  no wakeup is lost.
- **MultiChannelProofs**. `Inv` adds three parts to the properties. `LinkInv`: the cells
  that are under way follow one another as the peer sends them and end with the
  last one it sent. `ReaderInv`: the reader waits for a header, or for a part of a body.
  `SocketInv`: before a connection is established nothing is there, and a header is
  not of it. What a turn of the loop takes off the front is the end of a packet if the
  reader was in step (`TakenFacts`, `AfterLast`, `LineIsHeader`). The other lemmas go by what
  the handlers share: `Cleared` (after `clearInstance()`), `Connected`, `DeliverInv`,
  `ReconnectInv`, `BreakInv`. Theorems: `AlwaysRetried`, `ConnectedCorrect`,
  `StepCorrect`, for any number of connections and packets of any size.
- **ChannelProofs**. No theorem assumes anything of the application. `ShapeInv`: which
  states go together. `SocketInv`: an error that is to be delivered to a connected channel
  is its own, though other events of an older connection may be delivered to it; so
  an expired channel ends broken or flushed (`FlushCorrect`). `MaskInv`: in each state
  the mask has what the channel waits for, or `lost` has it: `InputCorrect`, `OutputCorrect`,
  `GoingCorrect`, together `ArmedCorrect`. The lemmas go by what
  handlers share: `ReleaseStep`, `ConnectedStep`, `GoesOnStep`, `BackStep`
  and `MaskStep`.
- **IoProofs**, of the poller. `EntryOK(f)` says what each entry is to the kernel and to
  the owner of the descriptor, in all the ways an entry can be wrong that the code
  admits (`failed`, `left`, `bare`); with `SelectCovers` and `LastRegistered` (`m_max_fd`
  is the last entry that is in use, so that `remove()` finds the next one below) it is
  `TableInv`: `KernelCorrect`, `CoversCorrect`. `BatchInv` relates the batch that is being
  delivered to the table: `OwnerCalled`. That a null pointer is only reached through
  `gone` and `bare` is not inductive without `bare`: the mask of an entry that was never
  added may be set long before. The least element of a set of numbers, which `Min`,
  `Max` and the kernel's lowest descriptor need, comes from the well-foundedness of <.
- **IoProofs**, of the buffer. `Good(buf)`: positions in order, every readable byte was written
  (is no `Junk`), and the end of what is readable lies in the block. It does not say
  that `posWrite` does when nothing is readable: `decrease()` leaves the positions of an
  empty buffer behind the new end, and it is the flush before the next write
  that makes it `Roomy` again. Each private step keeps `Good` and the content; `Step` and
  `QueueStep` join the operations. `WritesStay`: no operation writes past the end;
  `Refines`: `LinesSpec => IsByteQueue`. The theorems are about `LinesSpec`, of which the
  steps of `IoBuffer` are a part.
- **IoProofs**, of the lines. A search for lines is a function defined by itself, and
  nothing is known of it before it is shown that there is one: `SearchExists` takes
  the greatest place in the text behind which there is none, and finds one there.
  `NextLF`: the first LF behind what was passed ends the first line or is bare;
  `RestFound`: with the only bare LF passed the next LF ends the line, and the count
  of what is left is still right. `LineFits`, that a line lies in the text whatever the
  count has become, is what keeps the buffer `Good` in `GetLine`. `LinesFound`.
- **IoProofs**, of the reader of messages. `HttpInv` has four parts. `Base`: what is in the
  buffer and on its way is the end of what was sent (`Stream`, from what the buffer's
  lemmas say of `Taken` and `Stored`), and which states go together (`Control`, `Filled`).
  `Reading` says for each state of the reader what the text between the last packet
  and what is read is: behind `NextBegin` there is nothing, a head that goes on (`Heading`), a
  head and some of the body (`Filling`), a message, or something bad. `Waiting`: when the
  reader waits there is no end of a line in the buffer, or nothing at all. `Recorded`: what
  was handed on before. Three kinds of lemma carry it: what was found in a text
  stays when more comes (`HeadStays` to `FillingStays`); a line, an empty line or a piece of the
  body makes more of it (`FirstLineRead`, `HeaderRead`, `HeadRead`, `BodyRead`, and `...Bad`); and a
  text is read in one way only (`OneFirstLine`, `OneHead`, `OneLength`), from which a reader that
  waits has no message before it (`NothingPending`). `MessagesRead`, for all texts, sizes
  of the block and limits; nothing is said of a connection with a line that is too
  long. `QueryAnswered` has two parts. `AnsweredInv`: a job's channel that was
  not cancelled goes only as it tells of something or after it has (`EndsTelling`,
  `SomethingTold`), so that its query is never left without an answer. `CameStep`: once
  something was told nothing more is read from the connection, and what is told
  after it comes out of the same turn of the loop or is the error the channel ends with.
- **ListenerProofs**. `FdsInv`: a number of the parent leads to an end of a pair only if it is
  the one that the pair's slot has for it, to a connection only if it is the
  connection's, and the parent has no connection open but those it keeps and the one
  it is passing on. `CarryInv`: a connection that is in a pair is in it once, in no other,
  and in nobody's hands. `NumbersMeant` is a conjunct of the invariant itself, since a
  number that was closed while somebody else had it would break `FdsInv`.
  `LowestIsFree` counts: the numbers in use are at most two for each slot and one for
  each connection, so the table of that size and one more has a free one, and the
  numbers that are handed out are new. `NumbersCorrect`, `HolderCorrect`.

Only model-checked: all liveness properties (`PassEnds`, `EveryoneLeaves`, `AllAreServed`,
`ComesBack`, `GoingGoes`, `ReadyIsServed`, `Settles`, `QueryEnds`) — the prover has neither
fairness nor ENABLED; and the properties of `texts`: what a recursive definition
computes for each input needs induction over data. `FindsLine` and `ReadsWhatWasSent` are
proved although they are about texts: the search of the first stops after two turns
at most in the case it speaks of, and the reader of the second is a loop of actions,
so that the induction is that of the invariant.

## 6. Findings

`supervisor_reap`: `_checkChild()` stops after the first child it knows; README.md:307 of
the repository promises that all dead processes are found.

What follows are further places where the documents say one thing and the code does
another. Each is a definition of its module, beside the property that does hold and
says what it leaves out; TLC refutes it in the instance of its module when its name is
put in the place of the properties of the `.cfg`. None of them is among the runs.

| definition | of | what the documents say | what the code does |
|---|---|---|---|
| `LateAreServed` | `JobManager` | `checkTimeout()` deals with the jobs whose time is out (`pw_jobmanager.h:121`) | an insertion in `eventTimeout()` rehashes `m_jobs` under the saved iterator (`pw_jobmanager.cpp:169`): a late job is skipped in this pass, or called twice |
| `PacketsAreWhole` | `MultiChannel` | `eventReadPacket()` is called for one whole packet (`pw_channel_if.h:266`) | `clearInstance()` leaves the reader of `MsgChannel` as it is (`pw_channel_if.cpp:534`): an old body is filled from the next connection (`pw_msgchannel.cpp:187`) |
| `SuccIsUp` | `Channel` | `isConnSuccess()` says whether it is connected (`pw_channel_if.h:214`) | an event of a closed descriptor goes to the new connection of that number (`pw_iopoller_epoll.cpp:156`), whose `SO_ERROR` is 0 |
| `ExpiredGoes` | `Channel` | EXPIRED is soon deleted, at the OUT event (`pw_channel_if.h:74`) | the mask is set to POLLIN when the connection is made (`pw_channel_if.cpp:716`), and the channel stays until its peer sends something |
| `ExpiredReadsNothing` | `HttpChannel` | the same line | the loop of `eventReadData()` goes on behind a response (`pw_httpchannel.cpp:371`): a second packet or error for one query |
| `NotUsedAfterCancel` | `HttpChannel` | the instance must not be used after `cancelQuery()` (`pw_httpchannel.h:151`) | `_s_querySync()` deletes it again at ERROR_PROC, also one that has gone by itself (`pw_httpchannel.cpp:510`) |
| `EscapesComeBack` | `MCTexts` | encoding and decoding of strings is supported (`README.md:144`) | a NUL before an octal digit comes back as another byte (`pw_encode.cpp:1231`) |
| `UrlsComeBack` | `MCTexts` | URL encode/decode (`pw_encode.h:42`) | `decodeURL()` from a blob to a stream encodes (`pw_encode.cpp:715`) |
| `CopiesAreInBounds` | `MCTexts` | `len` is the size of the output buffer (`pw_tokenizer.h:67`) | the length less one is compared (`pw_tokenizer_tpl.h:85`): a token longer by one is copied |
| `PointersAreSet` | `MCTexts` | `outptr` is the start of the token (`pw_tokenizer.h:190`) | `getNextZ2()` does not set it behind delimiters (`pw_tokenizer_tpl.h:614`) |
| `IniComesBack` | `MCTexts` | INI files are read and written (`README.md:137`) | `write()` ends lines by CR LF and `read()` leaves the CR in the value (`pw_ini.cpp:142`) |
| `FilterComesBack` | `MCTexts` | `writeToStream()` writes the filter (`pw_strfltr.h:93`) | the digests are left out (`pw_strfltr.cpp:286`) |
| `RegionsAreFound` | `MCTexts` | a dictionary by country (`README.md:166`) | a refused row erases the earlier region's code from the index (`pw_region.cpp:63`); the built-in table has two such rows: "West Bank" after "Norfolk Island", "Kosovo" after "Gaza Strip" |

Seen while modelling. The models have the code as it is; where a property
would fail because of it, the property names the case, so that it holds of
everything else.

*Loops, processes and threads*

- `_closePair()` leaves the numbers in `fd[2]`, and the next `fork()` of the slot
  closes them again, when they may be those of another slot or of a connection
  (`gap` in `Listener`; `NumbersMeant` holds without it). `pw_instance_if.h:72` says
  that they are a pair of descriptors.
- `popTimed()` believes the timeout without a look at the queue; the notification
  is lost to the others (`NoLostWakeup` counts these).
- The kill and reserve lists of the job manager are guarded by statements that
  declare a local variable instead of locking.
- A parent waits in `sendmsg()` for a child that does not read (`Hung`), and a
  connection in the pair of a dead child is never answered (`Unread`).
- `select`: a client removed earlier in the same dispatch, or whose mask is set
  without `add()`, leads to a call through a null pointer (`down`); an abandoned descriptor
  stops the poller (`Stalled`). Under epoll an `add()` that fails has already
  replaced the client of that number (`failed`).
- The log's `swap()` locks two mutexes and never unlocks them, and `_reopen()` logs
  while it holds its lock, which takes the library's lock first.
- The objects that `Compress::s_compress()` shares have no lock.

*Channels*

- `~MultiChannelPool()` expires channels in any state,
  also those that `s_release()` has just deleted.
- `handshakeEx()` tests the state of the SSL handshake, so that a handshake of the
  application that takes more than one event is never continued; `acceptSsl()` and
  `handshakeSsl()` go on with `connectEx()` on the accepting side too; `procConnect()`
  calls `setMask()` for a descriptor it has not added to the poller when the connect
  succeeds at once, and leaves it open when a handshake then fails; an event with
  POLLIN and POLLOUT is handled as input only.
- `getLine()` of the buffer counts down from the first byte at every LF: after a
  second LF without a CR the count wraps and `memchr()` runs on behind the text.
- Http: a head of more than
  MAX_HEADER_LINE_SIZE sets ERROR, which is overwritten; a POST without a length
  that ends with the connection is lost; `_s_querySync()` returns true for a query
  whose channel ended by an error.

*Texts and tables*

- Codecs: `\u` reads hexadecimal digits as decimal ones; a blob and a stream differ on an escape that
  the end cuts.
- Tokenizer: `getNext2(char*)` writes no
  NUL when nothing was skipped; `getLine()` of a string returns false with the last line.
- Strings: `toUpper(char*)` lowers; `trim()` of an empty text leaves its output as it
  was; `sliceUTF8()` may read behind a cut character.
- Compress: `update()` takes Z_BUF_ERROR, which `inflate()` answers when a part was used
  up as the chunk became full, for an error: a good stream is refused (`Fills`).
- Ini: a last line without LF is dropped (by `IpRange` too).
- IpRange: masks are right for whole octets only (the bytes are swapped twice); a lookup of
  what is no address compares uninitialised bounds; `writeAsJson()` leaves out the
  name that `readAsJson()` wants.
- Region: an empty telephone code is written but not read.
- Uri: a slash that begins the path of an URI without a host is lost, and a path set
  again grows by a slash. Http text: TRACE is written but not read.
- Redis: `*0` is never complete and the next value fails; an error throws away
  values that are not yet fetched; `+` with an empty text is an error.
- MsgPacket: the copy has no chunk; a chunk whose index is 0 of several is written but not
  read. Apns: the size of an item is cut to 16 bits. Common: a moved-to blob leaks.
- Pool: `getChannel()` without a name follows an iterator that is never set (`defined`);
  `remove()` may leave the turn at the erased element.

Hazards that were looked at and have no property, as their checking would need
parts that are not modelled: entries of a destroyed `Event` (`pw_timer.cpp:45`) and a
clock that is set back (`:79`); `kill(-1)` between death and fork
(`pw_instance_if.cpp:851`), a second `fork()` that fails at the start (`:367`); the
reservations of another thread (`pw_jobmanager.cpp:71`), callbacks that destroy other
jobs (`:111`, `:172`); `m_connected` after `disconnect()`
(`pw_multichannel_if.cpp:704`); `POLLIN` with `POLLOUT` (`pw_channel_if.cpp:646`); the
descriptors that `open()` of a listener leaves when `bind()` fails
(`pw_listener_if.cpp:270`).

## 7. What is not modelled, and why

- *Wrappers of other libraries and pure I/O*: sockets, addresses, ssl, crypto, digest,
  date, module, sysinfo. Where a model depends on what they answer, each answer is
  a choice (a connect that fails, a peer that closes). The log formats and writes;
  its state is files and locks of the C library.
- *Left out of a modelled component*: options, configuration and logging of the
  instance, and the child's clean-up after `fork()`; the data race on `m_reserve`
  (the model of the job manager has one thread); callbacks that destroy other objects
  than their own; the time of the last read and the ping period (a ping may time
  out at any moment); the numbers of descriptors in `MultiChannel` and `Channel`;
  `getLineSync()` and `getDataSync()`, which block, and the overflow notice of a channel;
  what `isConnected()` means between `disconnect()` and the next connection; children
  that share the descriptors of their parent's table; opening and closing of the
  listening socket; the channels of Redis and APNS, which hand what was read to their
  packets; `compress()` of an HTTP body and the setters of single headers; the random
  keys; `addBase()` and `removeBase()` of an URI but for their outcome; the formats of
  sqlite and JSON but for the rows they hold.
- *External*: zlib, uriparser, the matcher of regular expressions, digests and the C
  library's numbers, as far as a text module needs their answers.
- `decrease()` of the buffer does not look whether what it holds still fits: `Resize` assumes
  of its callers that it does.
- *No theorem* about the findings: they are counterexamples.
