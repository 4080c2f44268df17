# TLA+ specifications of the VZenith TCP SDK

The repository is the client SDK of VZenith's licence-plate cameras: a C library
(`src/src/vzsdk`) on top of an event library derived from Google's libjingle
(`src/src/event`, `src/src/base`). An application opens devices, sends them JSON
requests, waits for the answers and receives pushed results. This directory holds
TLA+ models of the SDK's core, the TLC configurations that check them, and proofs
checked by TLAPS. Paths below are relative to the repository's `src/`.

## 1. The system

Three kinds of threads meet through message queues (`doc/design.md`):

    user threads              queue_thread              async_thread
    VzLPRTcp_* calls  --->    QueueLayer         --->   SessionManager
    Task::WaitTaskDone <---   tasks_, push task  <---   async_sessions_ -> Session -> socket

| component | state | operations | talks to |
|---|---|---|---|
| `base/timeutils` | a 32-bit millisecond clock that wraps | TimeAfter, TimeDiff, TimeIsLater, ... | everyone |
| `event/messagequeue` | `msgq_`, `dmsgq_`, `fStop_`, the peeked message, `crit_` | Post, PostDelayed, Dispose, Get, Peek, Clear, Quit, Restart | every thread; the wake-up pipe |
| `event/physicalsocketserver` | dispatchers, enabled events, the signaler's pipe | Wait (select), WakeUp, connect/send/recv | the queue that sleeps in it, the sessions |
| `event/thread` | `sendlist_`, the loop | Run, Send, ReceiveSends, Clear, Stop | its queue, other threads |
| `MessageQueueManager` | the list of active queues, a lock | Add, Remove, Clear | every queue, every handler's destructor |
| `base/bytebuffer` | an array and the range in use | WriteBytes, Consume, Resize | the session |
| `vzsdk/session` | `read_buffer_`, `write_buffer_`, `ms_start_`, the socket | Start, AsyncWrite, read/write/connect/close events, heartbeat timer | SessionManager by signals |
| `vzsdk/sessionmanager` | `async_sessions_`, session ids | connect, disconnect, request, reconnect | QueueLayer by posts |
| `vzsdk/queuelayer` | `tasks_`, the push task | route requests down and answers up | both halves |
| `vzsdk/task` | a task's id, session, command, deadline | PostTask, WaitTaskDone, HandleMessage | user thread and QueueLayer |
| `vzsdk/vzconnectdev`, `vzmodulebase`, `vzlprtcpsdk` | handle, session id | Open, Close, requests | task |
| `vzsdk/vzsdkpushmanager`, push handles | `push_handles_`, callbacks under `crit_` | push dispatch on a thread of its own | the queue thread, user callbacks |
| `vzsdk/vztcpdevicemanage`, `vzsdkservice` | handle -> service | create, find, destroy | the modules of a device |
| recognition, GPIO, serial, white list, maintenance | mostly none | build a request, run a task, read the answer | vzmodulebase |
| `commandanalysis`, JSON, logging, strings, addresses | none | data conversion | |

What is hard here: a wake-up between an unlock and a `select()`; clocks that wrap;
a handler destroyed while messages name it; calls that time out while their answer is
on its way; answers that carry no request id; sessions that are closed twice, removed
late, or replaced under the same id; a reconnect message that is never cancelled; partial
sends and arbitrarily cut reads; sockets that one thread destroys while another waits for
them in `select()`; calls that wait for a thread which waits for a lock that the caller
holds; wake-ups consumed by a nested wait. `PROJECT.json` lists these hazards with the line where
each bites and the properties that watch over it.

What makes each part correct:
* **queue**: no lost wake-up, posts in order, delays neither early nor slept over by more than
  the way from the clock to `select()`, nothing queued for a dead handler, Quit ends the loop;
* **threads**: every Send completes, whatever is nested or destroyed meanwhile; no wake-up is
  lost to a nested Send; the two kinds of locks form no cycle;
* **select loop**: events are true of the socket they are given to, a closed socket is
  quiet, data is received, a wake-up ends Wait, and Wait does not fail;
* **session**: both byte streams are FIFO channels of whole packets, queued requests leave,
  a silent device is noticed and a live one is kept;
* **half-sync/half-async core**: no task that a call waits for is leaked, devices keep their own
  sessions, a call gets its own answer, a dropped connection comes back, a closed one does not;
* **push side**: nothing blocks for ever, each result is reported once and in order and lost in
  known ways only, a device that reconnects is asked for its results again.

## 2. The modules

| module | models | proofs | runs |
|---|---|---|---|
| `TimeUtils` | the timestamp functions, in both implementations of `timeutils.cpp` | (in `HeartbeatProofs`) | (in `heartbeat`) |
| `MessageQueue` | `messagequeue.cpp`, `~MessageHandler`, the wake-up pipe | `MessageQueueProofs` | `queue` |
| `Threads` | `thread.cpp`: loops, Send, Stop; `MessageQueueManager` | `ThreadsProofs` | `threads` |
| `SocketServer` | `PhysicalSocketServer` on POSIX, the sockets of a device's sessions | `SocketServerProofs` | `sockets`, `sockets_stale` |
| `Selection` | erasing from a list while stepping through it, used by four modules | `SelectionProofs` | (in those) |
| `ByteBuffer` | `bytebuffer.cpp` | (in `PacketStreamProofs`) | (in `stream`) |
| `PacketChannel` | abstract: a FIFO of packets | | (used as a property) |
| `PacketStream` | a session's framing, buffers and writes; uses `ByteBuffer` | `PacketStreamProofs` | `stream` |
| `Heartbeat` | a session's heartbeat timer; uses `TimeUtils` | `HeartbeatProofs` | `heartbeat` |
| `Hsha` | user threads, tasks, QueueLayer, SessionManager, the life of sessions | `HshaProofs` | `hsha_*` |
| `PushManager` | push thread and handles, device manager, recognition, API calls and their locks | `PushManagerProofs` | `push` |

`MC*` modules only add the symmetry sets, loads and values that a `.cfg` cannot express.
In each module, operators called "Mutant of X" are plausible bugs in X. They are in no
specification; replacing X by its mutant makes TLC find the property that
`PROJECT.json` names, which shows that the property depends on that line of the code.

### TimeUtils
`HALF` is 2^31 in the code; everything is stated for any `HALF`. A stamp is a number
below `2*HALF`. The operators are written for both branches of the `#if` in
`timeutils.cpp`: plain modular arithmetic, and the one based on `TimeIsBetween`.
The properties are stated in `Heartbeat`, whose timer is the code's use of them:
`ElapsedMeasured` says that the functions measure the time that passed since a heartbeat,
across the wrap, and `ImplementationsAgree` that the two branches give the same results,
except that `TimeIsLaterOrEqual` differs for stamps exactly half a round apart.

### MessageQueue
One action per stretch of code between two points where another thread can act: taking
`crit_`, an unlocked access to `fStop_` (Post, Quit, Get all make one), a write to or
a read of the pipe. A client is "enter"ing (after the test of `fStop_`, before the lock),
"signal"ling (holding the lock), quitting or clearing. The owner goes through Get: scan
delayed messages on the clock value read *before* the lock, pop, test `fStop_`,
`select()`, drain the pipe, read the clock, again. `dmsgq_` is a set: `std::priority_queue`
is read only through its top, which `IsTop` defines by `operator<`. A destructor of a
handler runs `MessageQueueManager::Clear`, which visits a queue only if it is `active_`.
C++ object lifetime is an assumption (`Unnamed`): nobody destroys a handler that a
running Post names. History variables: `got` (what Get returned), `alive`, and `read` in
`get` (the true time of its last look at the clock).

### Threads
Each thread has a stack of calls (`stack`), the innermost first: ProcessMessages, OnMessage,
Send, Post, ReceiveSends, Clear; a step works on the innermost one. A handler, or a thread
that has no loop (`Foreign`, for which Send makes an AutoThread), may Send, Post or destroy
a handler at any moment, so calls nest as deeply as the bounds allow. `crit_` of a queue and
the manager's lock are variables only where they are held over more than one step: in
EnsureActive (queue, then manager), in the manager's Clear (manager, then each queue) and
between `*ready = true` and WakeUp in ReceiveSends. A byte in a thread's pipe is
`fSignaled_`; a wait inside a Send consumes it as one in Get does. `owner` is the thread that
runs `~Thread`: Quit, Join, Clear(NULL), Remove. Object lifetime is an assumption again:
nobody destroys a handler that is named by a call under way (`Unnamed`), or a thread that a
call still has to touch (`Untouched`). Delays, Peek and timeouts are in `MessageQueue`.

### SocketServer
The async thread is somewhere in Wait (`pc`): filling the sets under the lock, entering
`select()`, blocked in it, dispatching under the lock, calling OnEvent; or out of Wait,
where its handlers open, write to and close sockets. The queue thread acts at any moment
that the lock allows: it removes a session whose close was signalled, and with it destroys
the socket (`QueueRemoveSession`, `QueueRemove`, `QueueClose`), and it runs the first
reconnect (`FirstReconnect` to `QueueConnect`). Descriptors are numbers that are given out
again, the lowest free one first; `polled` holds the open files that a blocked `select()`
refers to, since closing a descriptor does not take the file away from it, and what select()
says about such a descriptor is left open. `net` and `data` are the kernel's view of a
connection. All sockets belong to one device, whose sessions follow one another; `life`
says how far each is. OnReadEvent receives until recv() fails; every recv() but one that fails
with the reset asks for READ again, so READ stays off only if the reset comes first, which a
reset that discards what had arrived allows. `raced` remembers that the queue thread tore down a socket that was
still enabled, which happens after a heartbeat timeout only. Wait "failed" when select()
meets a closed descriptor (EBADF) or an event reaches a socket whose destructor has begun
(`shared_from_this()` throws): either ends the async thread.

### ByteBuffer
A buffer is a record of the bytes in use, `start_` and `size_`. Resize moves the bytes to the
front, of a larger array if they do not fit. `PacketStream` keeps both its buffers in it.

### PacketStream and PacketChannel
Both directions of one session on the async thread, cell by cell. The four bytes of the
size field are one cell, so a header has five. Inbound, `recv()` returns any prefix of
what arrived; `ProcessPacketProtocol` is one action per round of its loop, and
`ProcessInput`'s Consume ends it. Outbound, `send()` takes what fits into the kernel's
buffer; `DE_WRITE` is asked for again only when *nothing* fits
(`event/physicalsocketserver.cpp:293`), so after a partial send the rest waits for the
next write, at the latest the next heartbeat. The device and the kernel are the
environment; the device follows the protocol. `PacketChannel` is the promise:
packets are handled whole, in order, once. `InboundChannel` and `OutboundChannel` are
its specification under the mapping (sent, handled) and (written, received).

### Heartbeat
Time is discrete; the async thread gets its timer message at most `MaxLate` late.
`ms_start_ = 0` means "no heartbeat yet" in the code, but `Time()` *is* 0 once per
49.7 days: a heartbeat arriving at that moment is forgotten and the measurement starts
again at the next timer. That is why the bound on the silence is `5*Period + 2*MaxLate`
and not four periods; it is reached in the model.

### Hsha
A handler is one action, because every handler runs to its end on its thread; queues
are sequences, which `MessageQueue`'s `PostOrder` and `NoLostWakeup` justify. Timers and
deadlines may fire at any moment. Tasks have the ids of `Task::unequal_task_id_`, from 3
on (the push task takes 2); sessions have the ids of the SessionManager, from 2 on. Both
share one message id space, as in the code: a reconnected session posts its events under
its *session* id. `user[u]` is the application thread u with one device: calling
(`StartTask`), waiting (`WaitGet`, `WaitTimeout`), removing its task (`Return`), and for
an Open reading the session's state (`Opened`). The queue thread's actions dispatch on
the head of `queueQ`; the async thread's on `asyncQ`, on socket events, and on the
delayed reconnect messages (`reconnects`), which post themselves again for ever. A
session has the socket's state, `bound` (still hooked to its socket), `beating` (its timer
runs) and `sent` (requests the device has not answered). `req` in a message names the
request that an answer belongs to; the code has no such field, only the property reads it.

A `Scenario` bounds a behaviour: which calls are made, how connect() may end, whether
waits time out and heartbeats expire, how many tasks and drops there are.

Tasks here are those of SyncProcessTask: posted, waited for and removed. Not in `Hsha`: the
task of a resubscription, which is posted and nothing else (`vzrecognition.cpp:230`),
ReqRecordTask, which takes an ivs_result for its answer, pushes that nobody asked for and the
push task, all of which are in `PushManager`; `Stop` of the layers; torn accesses to
`async_sessions_`, which three threads use without a lock.

### PushManager
An API call is a sequence of steps that is left to do (`Program`): find the service, take
a lock, post a task, wait for its answer, add a handle. It is made by a thread of the
application or by the push thread, in a callback or in the slot of the resume handle. Three
kinds of locks are held over waits: `crit_` of the push manager (while `event` is being
handled), `crit_section_` of the device manager (during a close) and the lock of a module
(during a request). The queue thread delivers answers, and blocks on `crit_` when it has a
result for the push thread, or an answer that no task wants. WaitTaskDone on the push thread
takes whatever is first in that thread's queue: results and connection events it was not
made for are lost (`swallowed`). ProcessPushEvent goes through `push_handles_` and breaks at the
first handle that returns true (`index` = `Broken`). CloseService disconnects three times: in Stop, in
`~VzsdkService` and in `~VzConnectDev`.

What the queue thread gets is offered to `tasks_` first. An answer goes to its task; an
ivs_result, that is a plate result or the answer to a get_record, goes to any ReqRecordTask of
its session (`ReqRecordTaskHandleResponse`), and only if there is none to the push task. So a
plate may end as the answer to a get_record (`taken`), and the record, coming too late, be
reported to the callback. A closed session is removed with the news that its connection is
lost, whichever session has its id by then; a device that has no session gets one from the
reconnect timer, after VzLPRTcp_Close too (`Reconnect`). A `Load` bounds a behaviour: the calls that
the application and its callbacks make, how many stimuli and plates there are.

Devices are open, and their callbacks and resume timers set, at the beginning; an answer is
queued when its request goes out, so that its delay is its time in the queue; ids of tasks are
compared for equality only and are used again once nothing mentions them.

## 3. The runs

| run | instance | shows |
|---|---|---|
| `queue` | 2 clients, 3 posts, delays {1, 2}, waits {forever, 2}, 1 handler, times 1..2 | `NoLostWakeup`, `DelayCovered`, `NeverEarly`, `PostOrder`, `DestroyedUnreachable`, `DelayedOrder` |
| `threads` | 2 threads and a foreign one; loads: 3 nested sends and a post; a send, a post, a handler destroyed and a thread destroyed; the same with two handlers | `SenderWaits`, `NoOneOversleeps`, `NoLockCycle`, `ClearedEverywhere`; `SendsComplete`, `LoopsSettle` under fairness |
| `stream` | in: 3 packets of 5 or 10 cells, payloads that look like packets, reads of 1 to 7; out: 2 requests, a send buffer of 6, heartbeats in between; buffers of 8 | `InboundChannel`, `OutboundChannel`, `NoPacketLeft`, `BuffersFit`; `RequestsFlushed` under fairness |
| `heartbeat` | `HALF` = 32, period 3, lateness 2, any starting time | `HeartbeatInv`, `SilenceBounded`, `NoEarlyClose`, `ElapsedMeasured`, `ImplementationsAgree` |
| `hsha_tasks` | 2 users; 3 tasks of all kinds, 2 drops, all outcomes of connect(); or 6 requests, 1 drop and no timeouts | `TaskAccounted`, `HandlesDistinct`, `AnswerIsOwn` |
| `hsha_live` | 2 users, 2 tasks, 2 drops, timeouts | `TasksDrain`, `Reconnects` under fairness |
| `sockets` | 2 sockets one after the other, connect() pending or failing | `ClosedIsQuiet`, `EventsTrue`, `FailsOnlyByRace`; `Served`, `WakeUpReturns` under fairness |
| `push` | 1 device with its user thread and the push thread, stimuli out of calls by the user or in a callback, lost connections and resume timers; loads: 2 stimuli and 2 plates without a close; 1 stimulus and 2 plates; 2 stimuli and no plates | `ReportedOnce`, `PlatesKept`; `Settles`, `Resubscribed` under fairness |
| `hsha_late`, `hsha_close`, `hsha_stuck`, `sockets_stale` | 1 user, 1 socket | disagreements, section 5 |

**Bounds.** `MaxPosts` = 3 suffices for a message before and one after a disposal, a
peeked or a cleared one. Two clients are enough for the races: each concerns the owner
and a poster or a quitter. Times span one delay before and after it is due; with two delays a
message is posted that is due before the one whose time Get is about to sleep for. Three sends let
a thread serve a send inside a Send that it makes while it serves another, and close a
circle of two threads; with a foreign sender there are three parties. A read of the stream
may end anywhere in a header or a payload and may span packets; the send buffer holds one
packet and a part of the next, so that sends are cut everywhere; a buffer of 8 cells is moved
and enlarged several times. Three tasks in `hsha_tasks` are an Open each for two users and
one more call, or an Open, a call and a Close by one; a drop is a refused, failed, closed
or expired connection, and two allow a reconnected session to be dropped again, or an
Open to fail and another to lose its session. Six requests are two Opens and two requests
of each user. Two sockets let the second get the descriptor of the first while a bit, a
poll or an event of the first is on its way. In `push` two stimuli are a call by the user
and one in a callback, or a call while the connection is lost or the resume timer fires; two
plates may meet a get_record each way round, taken or after a late record. A close
disconnects three times, and the reconnect timer may bring the session back after each, so the
loads with a close have one stimulus, or two and no plates (the locks do not depend on
plates). With one
device the user's thread, the push thread and the queue thread already hold and want all
three kinds of locks in all orders that the code has.

The types of `PacketStream` and `Hsha` are conjuncts of `BuffersFit` and `TaskAccounted`; the
other modules have a `TypeOK` of their own in their run (`Heartbeat`: within `HeartbeatInv`).

**Deadlock** is checked by TLC in `queue`, `heartbeat` and `sockets`. It is not in `stream`, where
nothing happens after the connection is closed, nor in `threads`, `push` and the `Hsha` runs,
where the system is quiet once the bounded calls have been made: there `SendsComplete`,
`LoopsSettle`, `Settles` and `TasksDrain` say that the end is not a state in which somebody waits.

**Fairness.** *Threads*: a thread goes on with what it is in, handlers return, and who began to
destroy a thread continues; new calls are never fair. *Stream*: the async thread keeps
calling Get as `Thread::ProcessMessages` does (`event/thread.cpp:487`), so readable data is
read, a writable socket is noticed and the heartbeat timer fires while connected
(`session.cpp:49`); the device keeps reading. Closing is never fair. *Sockets*: the loop of
the async thread goes on; select() is not interrupted for ever and, with a timeout, not
ready for ever; the queue thread finishes a close() it began; the heartbeat timer
of a connection that is dead, on which nothing arrives any more, expires. *Hsha*: every thread
takes its next message; deadlines pass (Wait returns by its timeout); reconnect timers
fire; a pending connection attempt is settled by TCP. Nothing is assumed about answers,
drops or the user's next call. *Push*: callers go on with their calls, which includes that a
deadline passes; queue thread and push thread run; a lost connection comes back
(`hsha_live`). Locks are given to somebody who waits, not to anybody in particular.

**What the conditions on properties mean.** `AnswerIsOwn` holds only on sessions on
which no call has timed out (`owed`) and no push request shares a command
with an awaited one (`vzserialdev.cpp:79` and `:90` do): answers are matched by session
and command, so a late answer to a call that timed out is the next call's answer.
`Reconnects` in `hsha_live` takes connect() to be asynchronous, as it is for a
non-blocking TCP socket whose network is up; `hsha_stuck` drops that. `HandlesDistinct`
rests on the lock in `VzLPRTcp_Open`; its mutant drops the lock. `EventsTrue` and
`FailsOnlyByRace` except the case `raced`: the code does fail there (section 5). `Served` covers
sessions whose connect() was asynchronous; after a connect() that returns 0 at once no
connect event comes and the heartbeat timer never starts, so that such a session does not
notice a reset. `DelayCovered` does not say that `select()` ends when a message is due: the timeout
was computed from an earlier look at the clock and counts from `select()`, so the message may
wait for as long as the way between the two took, and no longer. `TaskAccounted` and
`TasksDrain` are about tasks that SyncProcessTask runs. `Resubscribed` excepts an ONLINE event
that a request on the push thread swallowed; `PlatesKept` excepts results that such a request
swallowed and those that a get_record under way, on any thread, took for its answer (section 5).
`ReportedOnce` is about plate results; records that came too late for their request may be
reported between them.

## 4. The proofs

Each is for every value of the constants within the named ASSUMEs: any number of clients,
threads, handlers, sockets, devices, packets and calls, any buffer size and word size. Each
invariant was checked by TLC in its inductive form before it was proved.

* **`MessageQueueProofs`**
  * `TypeCorrect`: `TypeOK` for any clients, handlers, delays and word size.
  * `NoLostWakeupHolds`: not inductive by itself. `WakeInv` extends the claim backwards
    from `select()` to the moment at which the owner has seen an empty list and left
    `crit_`: from then on, whoever makes the list non-empty is itself on its way to the pipe,
    and a Quit that came too late for the test of `fStop_` is too. Draining the pipe is
    harmless because the owner looks at the list after it.
  * `DestroyedUnreachableHolds`: `CritInv` (who holds `crit_`, from where each thread is),
    `ActiveInv` (a queue that holds anything was made active, so Clear visits it) and
    `HandlerInv` (what is queued, peeked or about to be posted names a live handler, or one
    being cleared by the holder of `crit_`).
  * `PostOrderHolds`: `OrderInv` is the order of what was returned, kept and queued, read as one
    list; `NumberInv` and `PendingInv` say that a client's next post has a higher number
    than all of its posts on that list.
  * `NeverEarlyHolds`, `DelayedOrderHolds`, `DelayCoveredHolds` have a hypothesis on the run,
    because the code compares 32-bit stamps and is wrong otherwise. `Prompt`: a clock reading
    is used before it is half a round old, delays included; `Attended`: no message is overdue
    by half a round (24 days in the code); `OneRound`: the delayed messages are due within the
    same round of the clock, since `operator<` compares trigger times as plain numbers (section
    5). Their invariants tie each stamp to the true time it stands for (`StampInv`), Get's reading
    to the time at which it was made (`ReadInv`), and the wait that Get has computed, counted
    from that time, to the earliest of the delayed messages (`CoverInv`). `DelayCovered` adds what
    passed until `select()`.
* **`HeartbeatProofs`** `HeartbeatInvariant`, `SilenceIsBounded`, `NeverClosedEarly`:
  `HeartbeatInv` relates the code's measure of silence (`Since`), the true one and the time
  left on the timer (`Left`): `Since + Left <= 4*Period`, and the true silence exceeds `Since` by
  at most one late period, the time for which a heartbeat at clock value 0 is
  forgotten. It needs `5*Period + 2*MaxLate + 1 < HALF`: 2 s against 24 days.
  `ElapsedIsMeasured` and `ImplementationsDoAgree` follow from the invariant that the clock
  is the stamp of the last heartbeat moved on by the true silence, wrapped, and from
  arithmetic modulo `2*HALF`.
* **`PacketStreamProofs`**
  * `BuffersFitHolds`, from lemmas on ByteBuffer's operators; `NoPacketLeftHolds`.
  * `InboundRefined`, `OutboundRefined`: a session implements `PacketChannel` in both directions.
    `InboundInv`: what was sent is what was handled followed by some packets, and the bytes not
    yet parsed, in the read buffer and in the kernel, are exactly the encodings of those.
    `OutboundInv` is the same for what is written, where heartbeats are packets but no requests.
    "Are the encodings of" (`Joins`) is stated by a function that gives the bytes left after each
    packet, since induction over sequences is not available.
* **`ThreadsProofs`** `TypeCorrectThreads`, `NoLockCycleHolds`, `ClearedEverywhereHolds`,
  `SenderWaitsHolds`, `NoOneOversleepsHolds`. The invariant has seven parts: which calls nest in
  which (`Typed`); who holds a lock follows from what it is in, and a queue that is being added
  is not yet known to the manager (`Locks`), which is why the two orders of locking do not
  meet; a queue that holds anything is known (`Queues`); a queue names a destroyed handler only
  while the manager's Clear is still on its way to it (`Clears`); exactly one call is in send n,
  which is offered, queued, being served, or ready (`Sends`); conversely, a Send that has queued its
  message is in one of the last three states until it returns, and no thread is in one send
  twice, so that the flag a returning Send takes with it is its own (`Kept`: no sender is
  forgotten when a handler or a thread is destroyed); whoever has a reason to get up has
  a byte in its pipe or somebody about to write one (`Wakes`). `Wakes` needs that a nested
  Send that swallowed a wake-up passes it on when it returns (`has_sends_`, and the WakeUp at the
  end of Send). A step changes the top of one stack: `Moved` says so once per action.
* **`SocketServerProofs`** `TypeCorrectSockets`, `ClosedIsQuietHolds`, `EventsTrueHolds`,
  `FailsOnlyByRaceHolds`. `Quiet`: a socket that was closed, or for which OnEvent runs, has no bit
  in the sets. `Safe`, as long as nothing `raced`: every bit belongs to an open socket that is
  started and not closed, is polled during `select()`, and a bit for writing says the truth; a
  connecting socket is never marked for reading alone; only started sockets ask for events. So a
  descriptor that is handed out again has no bit left, and `select()` never meets a closed one.
  That `socket()` finds a free number is the pigeonhole principle.
* **`PushManagerProofs`** `TypeCorrectPush`, `PlatesKeptHolds`, `ReportedOnceHolds`. `Typed` says what
  can be left of a call (a tail of a `Program`), hence who can hold which lock, and that the push
  thread is in a call only while it handles an event. `Lines` follows the plate
  results of a device: along queue thread, push thread, current event and callback their numbers
  decrease, late records left aside, and each is on this way, swallowed or taken; so that a handle called twice for one event, or a handle added twice, would be
  seen; the break after the first handle that took the event is what excludes it.
* **`HshaProofs`** `TasksAccounted`, `HandlesDistinctHolds`, `AnswerIsOwnHolds`, for any number of
  users and any scenarios. The invariant has three layers, each resting on the one before.
  * `IInv`: the types; `Order`: tasks pass through both queues in the order of their ids, above
    the session ids given out so far; `Accounted`: `TaskAccounted` extended to the tasks that
    have yet to reach `tasks_`, whose removal, if nobody waits for them, is behind them in the queue.
    `Findable` is the converse: a task that a user waits for is in `tasks_` or its request is still
    queued. It needs that only the owner posts the removal of a task, once it waits no longer.
  * `HInv`: a connect task takes any message with its id, and a reconnected session posts under
    its session id, so the two id spaces must not meet. `Serial`: of two connect tasks, or two
    tasks of one user, the second is not handed to the async half before the first is removed;
    here the lock of VzLPRTcp_Open and the order of the queue are used. Hence a connect task in
    `tasks_` is the last one, and every session id is below its id (`Ahead`). The rest says whose a
    session id is: handles, messages in `*msg` and in user queues, and sessions about to be named to
    a connect task, are claims, and no session has two claimants (`OneClaim`).
  * `AInv` follows a request out and back: queued, posted, with a session, come back, delivered,
    in one of these places only (`Once`), and those behind have the lower ids (`Earlier`). A
    request for which nobody waits is owed by its session (`Owed`). A task in `tasks_` is the latest of
    its session (`Latest`), so the answer it takes is to itself or to an earlier request; if the
    session owes nothing, the request is one that is waited for, by the same user (`OneClaim`)
    and hence for this task. Other events of a session never look like an answer (`NotMine`).
* **`SelectionProofs`** (lemmas): what `Selected` leaves of a list, and in which order. It is a
  recursive function; its facts are proved by the least position at which they would fail,
  because the library's induction rules take an operator as a parameter.

Only model-checked: all liveness (fairness and ENABLED are out of the prover's reach), that is
`SendsComplete`, `LoopsSettle`, `RequestsFlushed`, `TasksDrain`, `Reconnects`, `Served`,
`WakeUpReturns`, `Settles` and `Resubscribed`. Every invariant and every action property that a
passing run checks is also proved. The three layers of the invariant of `Hsha` were checked by TLC on all
states of two users with four tasks and timeouts, with a lost connection or with pushes and
closes, before they were proved.

## 5. Disagreements between the code and its documents

Checked by a run that finds the violation:
* **`hsha_late`** (`task.cpp:121`). A task that timed out stays in `tasks_` until the queue
  thread removes it. Its answer, arriving in between, is posted to the user thread, where
  the next call's WaitTaskDone gets it: the code calls this an "Unhandle Error" and asserts
  that it does not happen. The message is kept in `*msg` and is returned if the deadline
  passes then.
* **`hsha_close`** (`sessionmanager.cpp:255`). The reconnect message posts itself again for
  ever and nothing cancels it. After a successful VzLPRTcp_Close the session is gone, which
  to OnReconnectMessage means that it must be made again.
* **`hsha_stuck`** (`sessionmanager.cpp:257`). A reconnect whose connect() fails at once leaves
  a session that is CS_CLOSED and will have no event, hence no removal. Every later
  reconnect is refused by AddSession: the device stays unconnected for good.
* **`sockets_stale`** (`physicalsocketserver.cpp:1288`). The sets of descriptors are zeroed
  before the loop only, because select() is said to zero what is not signalled. EINTR leaves
  the sets as they were, and the bit of a dispatcher that the queue thread removes between
  select() and the dispatch is cleared by nobody: the next select() is asked about a
  descriptor that may be closed, and then fails, or belongs to somebody else by then.

Seen while modelling, stated here and not by a run:
* `session.cpp:222`: a session that missed its heartbeats is destroyed by the queue thread with
  its socket still enabled. If that happens between the filling of the sets and `select()`,
  Wait fails with EBADF and the async thread, with all connections, ends; `FailsOnlyByRace`
  shows that this is the only way.
* `task.cpp:121` on the push thread: a request that a callback makes takes the queued results
  and connection events of the push thread. A lost ONLINE event means that the device is not
  asked for its results again.
* `task.cpp:308`: while a get_record is under way (VzLPRTcp_LoadRecordById), any ivs_result of
  its session is its answer. A live plate result is then returned as the record and
  reported to nobody, and the record, which finds no task, is reported as a plate.
* `vzrecognition.cpp:230`: the task of a resubscription is never removed from `tasks_`;
  `vzsdkpushhandle.cpp:232`: the loss of a connection switches every resume handle off, and
  nothing switches one on again; its `recognition_` (`:294`) is never set.
* `vzsdkservice.cpp:88` hands the connection callback to parameters passed by value, so that
  a device opened after VzLPRTcp_SetCommonNotifyCallBack gets none.
* `vzconnectdev.cpp:59`: a connect that times out returns 0, which is not
  SESSION_ID_INVALUE, so the service is registered under the handle 0.
* `messagequeue.cpp:252` tests `fStop_` after leaving `crit_`: a thread that posts and then
  quits between the look at the list and that test leaves a ready message behind,
  although `messagequeue.h:212` promises that ready posts are delivered first.
* `messagequeue.h:190` orders trigger times as plain integers: across the wrap of the counter
  (49.7 days) the priority queue is not sorted by time, and a due message waits behind a
  later one. `DelayedOrder` fails there and holds away from the wrap.
* `queuelayer.cpp:231` posts the first reconnect message to the queue thread, so a session may
  be created and started there, although `doc/design.md` and the assertion at
  `session.cpp:57` want the async thread.
* `vzlprtcpsdk.cpp:107`: VzLPRTcp_Open called in a callback takes its lock on the push thread,
  while another thread may hold it; `vztcpdevicemanage.cpp:131` inserts into the map of
  services without the lock that its readers hold.
* `sessionmanager.cpp:262` asserts that AddSession succeeds; it does not while the closed
  session still waits for its removal by the queue thread.

## 6. Not modelled, and the plan

Not modelled for good: command encoding, the JSON library, logging, strings, files and
addresses (data without control); GPIO, serial, white list and maintenance (a request and its
answer); Windows-only code; undefined behaviour of unlocked `std::map` accesses; SignalThread,
the stream classes and FifoBuffer, which nothing in `vzsdk` reaches; `third_part`, which is
most of the repository's lines (a copy of Boost).

Left to model: `Stop` of the layers and VzLPRTcp_Cleanup with messages still queued; name
resolution in `Connect`; in `PushManager`, the time in which a reconnected session is connecting
(it is in `Hsha`). The loop of the resume handle over missed records is left out: it calls
GetRecord through a pointer that is never set (`vzsdkpushhandle.cpp:294`).
