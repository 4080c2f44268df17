---------------------------- MODULE SocketServer ----------------------------
(***************************************************************************)
(* PhysicalSocketServer on POSIX: the select() loop of the async thread,   *)
(* the wake-up pipe and the sockets of the sessions (physicalsocketserver, *)
(* session, sessionmanager).  The async thread opens and closes sockets    *)
(* between two calls of Wait; the queue thread destroys the sessions that  *)
(* were closed and starts the first reconnect, at any moment.              *)
(* Descriptors are numbers that socket() hands out again after close().    *)
(***************************************************************************)
EXTENDS Integers, Sequences, FiniteSets, Functions, Selection

CONSTANTS
    MaxSockets,       \* bound: sockets that are opened, one after the other
    Connects          \* the outcomes of connect(): "EINPROGRESS", "0", "error"

ASSUME SocketsAssumption ==
    MaxSockets \in Nat /\ Connects \subseteq {"EINPROGRESS", "0", "error"}

VARIABLES
    dispatchers_,     \* the signaler, then sockets, in the order of Add
    fd,               \* per socket: its descriptor
    life,             \* per socket: what became of it and of its session, see Life
    state_,           \* per socket
    enabled_events_,  \* per socket
    beating,          \* per socket: its session waits for the next heartbeat
    net,              \* per socket: its connection, as the kernel sees it
    data,             \* per socket: bytes wait to be received
    fSignaled_,       \* a byte is in the wake-up pipe
    fWait_,
    pc,               \* where the async thread is in Wait
    fdsRead, fdsWrite,
    polled,           \* sockets whose files select() looks at
    finite,           \* this Wait has a timeout
    current,          \* the dispatcher that OnEvent is called for
    ff,               \* and the events it is called with
    reconnecting,     \* a reconnect message is among the delayed ones
    raced             \* history: the queue thread has destroyed a socket whose
                      \* session missed its heartbeats

sockets == <<fd, life, state_, enabled_events_, beating, net, data>>
wait == <<fWait_, pc, fdsRead, fdsWrite, polled, finite, current, ff>>
vars == <<dispatchers_, sockets, fSignaled_, wait, reconnecting, raced>>

Signaler == 0         \* signal_wakeup_, the first dispatcher
SignalFd == 0
NoFd == -1            \* INVALID_SOCKET
Fds == 1 .. MaxSockets
Sockets == 1 .. MaxSockets   \* the SocketDispatchers of one device, in order

(* fresh: not created; made: socket() was called; added: Add as well;      *)
(* live: started; unbound: the session missed its heartbeats and dropped   *)
(* its hold on the socket; closing: the close event was signalled; dying:  *)
(* the destructor waits for crit_; removed; closed.                        *)
Life == {"fresh", "made", "added", "live", "unbound", "closing", "dying", "removed", "closed"}
InServer == {"added", "live", "unbound", "closing", "dying"}
Open == {s \in Sockets : life[s] \notin {"fresh", "closed"}}

Init ==
    /\ dispatchers_ = <<Signaler>>
    /\ fd = [s \in Sockets |-> NoFd] /\ life = [s \in Sockets |-> "fresh"]
    /\ state_ = [s \in Sockets |-> "CS_CLOSED"]
    /\ enabled_events_ = [s \in Sockets |-> {}] /\ beating = [s \in Sockets |-> FALSE]
    /\ net = [s \in Sockets |-> "none"] /\ data = [s \in Sockets |-> FALSE]
    /\ fSignaled_ = FALSE /\ fWait_ = FALSE /\ pc = "out"
    /\ fdsRead = {} /\ fdsWrite = {} /\ polled = {} /\ finite = FALSE
    /\ current = Signaler /\ ff = {} /\ reconnecting = FALSE /\ raced = FALSE

(* The dispatch loop holds crit_; every other use of it is one step.       *)
Unlocked == pc \notin {"dispatch", "event"}
-----------------------------------------------------------------------------
(* Opening and closing sockets.                                            *)

FreeFd == CHOOSE n \in Fds : /\ \A s \in Open : fd[s] # n
                             /\ \A m \in 1 .. n - 1 : \E s \in Open : fd[s] = m

(* DoConnect: connect() has outcome r.                                     *)
ConnState(r) == CASE r = "EINPROGRESS" -> "CS_CONNECTING"
                  [] r = "0"           -> "CS_CONNECTED"
                  [] r = "error"       -> "CS_CLOSED"

DoConnect(s, r) ==
    /\ state_' = [state_ EXCEPT ![s] = ConnState(r)]
    /\ enabled_events_' = [enabled_events_ EXCEPT ![s] =
                             CASE r = "EINPROGRESS" -> {"CONNECT", "READ", "WRITE"}
                               [] r = "0"           -> {"READ", "WRITE"}
                               [] r = "error"       -> {}]
    /\ net' = [net EXCEPT ![s] = CASE r = "EINPROGRESS" -> "dialing"
                                   [] r = "0"           -> "up"
                                   [] r = "error"       -> "none"]
    /\ life' = [life EXCEPT ![s] = "live"]

(* A new session is made when async_sessions_ has none for the device; the *)
(* pointer to a session that AddSession refuses is gone at once.           *)
MayStart(s) ==
    /\ life[s] = "fresh"
    /\ \A t \in 1 .. s - 1 : life[t] \in {"dying", "removed", "closed"}

(* Session::Start on the async thread, for a connect or reconnect message. *)
Start(s, r) ==
    /\ pc = "out" /\ MayStart(s)
    /\ fd' = [fd EXCEPT ![s] = FreeFd]
    /\ dispatchers_' = Append(dispatchers_, s)
    /\ DoConnect(s, r)
    /\ UNCHANGED <<beating, data, fSignaled_, wait, reconnecting, raced>>

(* Mutant of RemoveDispatcher: the dispatcher stays in the list.           *)
RemoveNothing(s) == UNCHANGED dispatchers_

RemoveDispatcher(s) == dispatchers_' = Selected(dispatchers_, Range(dispatchers_) \ {s})

ClosePhysical(s) ==
    /\ fd' = [fd EXCEPT ![s] = NoFd]
    /\ life' = [life EXCEPT ![s] = "closed"]
    /\ state_' = [state_ EXCEPT ![s] = "CS_CLOSED"]
    /\ enabled_events_' = [enabled_events_ EXCEPT ![s] = {}]
    /\ beating' = [beating EXCEPT ![s] = FALSE]
    /\ net' = [net EXCEPT ![s] = "none"] /\ data' = [data EXCEPT ![s] = FALSE]

(* OnDisconnectMessage: Session::Stop, or else the destructor, closes the  *)
(* socket on the async thread.                                             *)
Stop(s) ==
    /\ pc = "out" /\ life[s] \in {"live", "unbound", "closing"}
    /\ RemoveDispatcher(s) /\ ClosePhysical(s)
    /\ UNCHANGED <<fSignaled_, wait, reconnecting, raced>>

(* The heartbeat timer of the session finds the device silent for too      *)
(* long.  OnCloseEvent unhooks the session unless the socket is closed;    *)
(* the socket itself stays as it is.                                       *)
HeartbeatTimeout(s) ==
    /\ pc = "out" /\ beating[s] /\ life[s] \in {"live", "closing"}
    /\ beating' = [beating EXCEPT ![s] = FALSE]
    /\ life' = [life EXCEPT ![s] = IF state_[s] = "CS_CLOSED" THEN @ ELSE "unbound"]
    /\ UNCHANGED <<dispatchers_, fd, state_, enabled_events_, net, data, fSignaled_, wait,
                   reconnecting, raced>>

(* AsyncWrite meets a full send buffer: Send asks for a write event.       *)
SendBlocks(s) ==
    /\ pc = "out" /\ life[s] = "live" /\ state_[s] = "CS_CONNECTED" /\ net[s] = "up"
    /\ enabled_events_' = [enabled_events_ EXCEPT ![s] = @ \cup {"WRITE"}]
    /\ UNCHANGED <<dispatchers_, fd, life, state_, beating, net, data, fSignaled_, wait,
                   reconnecting, raced>>

(* WakeUp, called by Post and Quit on any thread.                          *)
WakeUp ==
    /\ fSignaled_' = TRUE
    /\ UNCHANGED <<dispatchers_, sockets, wait, reconnecting, raced>>

(* The queue thread, which does one thing at a time.                       *)
QueueIdle == \A s \in Sockets : life[s] \notin {"made", "added", "dying", "removed"}

(* OnReconnectMessage on the queue thread: first PostDelayed ...           *)
FirstReconnect ==
    /\ ~reconnecting /\ QueueIdle
    /\ reconnecting' = TRUE /\ fSignaled_' = TRUE
    /\ UNCHANGED <<dispatchers_, sockets, wait, raced>>

(* ... then, without a session, Start: socket(), Add and connect().        *)
QueueSocket(s) ==
    /\ reconnecting /\ QueueIdle /\ MayStart(s)
    /\ life' = [life EXCEPT ![s] = "made"]
    /\ fd' = [fd EXCEPT ![s] = FreeFd]
    /\ UNCHANGED <<dispatchers_, state_, enabled_events_, beating, net, data, fSignaled_,
                   wait, reconnecting, raced>>

QueueAdd(s) ==
    /\ life[s] = "made" /\ Unlocked
    /\ life' = [life EXCEPT ![s] = "added"]
    /\ dispatchers_' = Append(dispatchers_, s)
    /\ UNCHANGED <<fd, state_, enabled_events_, beating, net, data, fSignaled_, wait,
                   reconnecting, raced>>

QueueConnect(s, r) ==
    /\ life[s] = "added"
    /\ DoConnect(s, r)
    /\ UNCHANGED <<dispatchers_, fd, beating, data, fSignaled_, wait, reconnecting, raced>>

(* REQ_REMOVE_SESSION_EVENT: the map drops the session, and with it the    *)
(* last pointer to the socket, whose destructor calls Remove and close().  *)
QueueRemoveSession(s) ==
    /\ QueueIdle /\ life[s] \in {"unbound", "closing"}
    /\ life' = [life EXCEPT ![s] = "dying"]
    /\ beating' = [beating EXCEPT ![s] = FALSE]
    /\ raced' = (raced \/ life[s] = "unbound")
    /\ UNCHANGED <<dispatchers_, fd, state_, enabled_events_, net, data, fSignaled_, wait,
                   reconnecting>>

QueueRemove(s) ==
    /\ life[s] = "dying" /\ Unlocked
    /\ life' = [life EXCEPT ![s] = "removed"]
    /\ RemoveDispatcher(s)
    /\ UNCHANGED <<fd, state_, enabled_events_, beating, net, data, fSignaled_, wait,
                   reconnecting, raced>>

QueueClose(s) ==
    /\ life[s] = "removed"
    /\ ClosePhysical(s)
    /\ polled' = polled \ {s}
    /\ UNCHANGED <<dispatchers_, fSignaled_, fWait_, pc, fdsRead, fdsWrite, finite, current, ff,
                   reconnecting, raced>>
-----------------------------------------------------------------------------
(* The network.                                                            *)
Net(s, from, to) ==
    /\ net[s] \in from
    /\ net' = [net EXCEPT ![s] = to]
    /\ UNCHANGED <<dispatchers_, fd, life, state_, enabled_events_, beating, fSignaled_, wait,
                   reconnecting, raced>>

Accepted(s) == Net(s, {"dialing"}, "up") /\ UNCHANGED data
Refused(s) == Net(s, {"dialing"}, "refused") /\ UNCHANGED data
PeerCloses(s) == Net(s, {"up"}, "eof") /\ UNCHANGED data

(* A reset may discard what arrived before it.                             *)
PeerResets(s) ==
    /\ Net(s, {"up", "eof"}, "reset")
    /\ data' \in {data, [data EXCEPT ![s] = FALSE]}

Arrives(s) ==
    /\ net[s] = "up" /\ ~data[s] /\ life[s] # "closed"
    /\ data' = [data EXCEPT ![s] = TRUE]
    /\ UNCHANGED <<dispatchers_, fd, life, state_, enabled_events_, beating, net, fSignaled_,
                   wait, reconnecting, raced>>

(* What select() finds; a pending error makes a socket ready for both, and *)
(* getsockopt(SO_ERROR) or recv() takes the error away.                    *)
Readable(s) == data[s] \/ net[s] \in {"none", "refused", "eof", "reset"}
Writable(s) == net[s] \in {"up", "refused", "eof", "reset"}
Error(s) == net[s] \in {"refused", "reset"}
Reaped(s) == CASE net[s] = "refused" -> "none"
               [] net[s] = "reset"   -> "eof"
               [] OTHER              -> net[s]
-----------------------------------------------------------------------------
(* PhysicalSocketServer::Wait.                                             *)
Goto(l) == pc' = l

(* The locals of Wait are gone when it returns; fWait_ will be set again.  *)
Leave == fdsRead' = {} /\ fdsWrite' = {} /\ finite' = FALSE /\ fWait_' = FALSE
Stay == UNCHANGED <<fdsRead, fdsWrite, finite, fWait_>>

(* Get calls Wait with the time that is left until the next delayed        *)
(* message, or for ever.                                                   *)
WaitEnter ==
    /\ pc = "out" /\ Goto("fill")
    /\ fdsRead' = {} /\ fdsWrite' = {} /\ fWait_' = TRUE
    /\ finite' = (reconnecting \/ \E s \in Sockets : beating[s])
    /\ UNCHANGED <<dispatchers_, sockets, fSignaled_, polled, current, ff, reconnecting, raced>>

InList == Sockets \cap Range(dispatchers_)
ReadFds == {SignalFd} \cup {fd[s] : s \in {d \in InList : "READ" \in enabled_events_[d]}}
WriteFds == {fd[s] : s \in {d \in InList : enabled_events_[d] \cap {"WRITE", "CONNECT"} # {}}}

FillSets ==
    /\ pc = "fill" /\ Goto("select")
    /\ fdsRead' = fdsRead \cup ReadFds
    /\ fdsWrite' = fdsWrite \cup WriteFds
    /\ UNCHANGED <<dispatchers_, sockets, fSignaled_, fWait_, polled, finite, current, ff,
                   reconnecting, raced>>

(* select() takes the files behind the descriptors, or fails with EBADF:   *)
(* then Wait returns false and ProcessMessages of the thread ends.         *)
SelectEnter ==
    /\ pc = "select"
    /\ polled' = {s \in Open : fd[s] \in fdsRead \cup fdsWrite}
    /\ Goto(IF (fdsRead \cup fdsWrite) \subseteq {SignalFd} \cup {fd[s] : s \in Open}
            THEN "blocked" ELSE "failed")
    /\ UNCHANGED <<dispatchers_, sockets, fSignaled_, fWait_, fdsRead, fdsWrite, finite,
                   current, ff, reconnecting, raced>>

ReadReady == {fd[s] : s \in {q \in polled : fd[q] \in fdsRead /\ Readable(q)}}
             \cup (IF fSignaled_ THEN {SignalFd} ELSE {})
WriteReady == {fd[s] : s \in {q \in polled : fd[q] \in fdsWrite /\ Writable(q)}}

(* Descriptors that were closed while select() looks at them: what it says *)
(* of these is not specified.                                              *)
Gone == (fdsRead \cup fdsWrite) \ ({SignalFd} \cup {fd[s] : s \in polled})

SelectReturn ==
    /\ pc = "blocked" /\ Goto("ready")
    /\ \E some \in SUBSET Gone :
         /\ ReadReady \cup WriteReady \cup some # {}
         /\ fdsRead' = ReadReady \cup (fdsRead \cap some)
         /\ fdsWrite' = WriteReady \cup (fdsWrite \cap some)
    /\ polled' = {}
    /\ UNCHANGED <<dispatchers_, sockets, fSignaled_, fWait_, finite, current, ff,
                   reconnecting, raced>>

SelectTimeout ==
    /\ pc = "blocked" /\ finite /\ ReadReady \cup WriteReady = {}
    /\ Goto("out") /\ Leave
    /\ polled' = {}
    /\ UNCHANGED <<dispatchers_, sockets, fSignaled_, current, ff, reconnecting, raced>>

(* Mutant of SelectInterrupted: EINTR is an error like any other.          *)
InterruptFails ==
    /\ pc = "blocked" /\ Goto("failed") /\ polled' = {}
    /\ UNCHANGED <<dispatchers_, sockets, fSignaled_, fWait_, fdsRead, fdsWrite, finite,
                   current, ff, reconnecting, raced>>

(* EINTR leaves the sets as they were, and the loop goes on.               *)
SelectInterrupted ==
    /\ pc = "blocked"
    /\ Goto("fill")
    /\ polled' = {}
    /\ UNCHANGED <<dispatchers_, sockets, fSignaled_, fWait_, fdsRead, fdsWrite, finite,
                   current, ff, reconnecting, raced>>

LockDispatchers ==
    /\ pc = "ready" /\ Goto("dispatch")
    /\ UNCHANGED <<dispatchers_, sockets, fSignaled_, fWait_, fdsRead, fdsWrite, polled,
                   finite, current, ff, reconnecting, raced>>

GetDescriptor(d) == IF d = Signaler THEN SignalFd ELSE fd[d]

(* The first dispatcher that has a bit set: those before it were passed    *)
(* over, or had their bits cleared.                                        *)
Marked(d) == GetDescriptor(d) \in fdsRead \cup fdsWrite
NextMarked == CHOOSE d \in Range(dispatchers_) :
                \E i \in DOMAIN dispatchers_ :
                    /\ dispatchers_[i] = d /\ Marked(d)
                    /\ \A j \in 1 .. i - 1 : ~Marked(dispatchers_[j])

IsDescriptorClosed(s) == ~data[s] /\ net[s] = "eof"

(* Mutant of EventsOf: the reaped error is not looked at for a connect.    *)
EventsIgnoreError(s) ==
    LET errcode == Error(s) IN
    (IF fd[s] \notin fdsRead THEN {}
     ELSE IF errcode \/ IsDescriptorClosed(s) THEN {"CLOSE"} ELSE {"READ"})
    \cup (IF fd[s] \notin fdsWrite THEN {}
          ELSE IF "CONNECT" \in enabled_events_[s] THEN {"CONNECT"} ELSE {"WRITE"})

(* The events that the sets and the reaped error stand for.                *)
EventsOf(s) ==
    LET errcode == Error(s) IN
    (IF fd[s] \notin fdsRead THEN {}
     ELSE IF errcode \/ IsDescriptorClosed(s) THEN {"CLOSE"} ELSE {"READ"})
    \cup (IF fd[s] \notin fdsWrite THEN {}
          ELSE IF "CONNECT" \notin enabled_events_[s] THEN {"WRITE"}
          ELSE IF errcode THEN {"CLOSE"} ELSE {"CONNECT"})

ClearBits(d) ==
    /\ fdsRead' = fdsRead \ {GetDescriptor(d)}
    /\ fdsWrite' = fdsWrite \ {GetDescriptor(d)}

(* The wake-up pipe: OnPreEvent empties it, OnEvent ends the loop.         *)
ExamineSignaler ==
    /\ pc = "dispatch" /\ Marked(Signaler) /\ Goto("event")
    /\ current' = Signaler /\ ff' = {"READ"} /\ ClearBits(Signaler)
    /\ fSignaled_' = FALSE
    /\ UNCHANGED <<dispatchers_, sockets, fWait_, polled, finite, reconnecting, raced>>

(* A socket: getsockopt, recv(MSG_PEEK) and OnPreEvent.                    *)
ExamineSocket ==
    /\ pc = "dispatch" /\ ~Marked(Signaler)
    /\ \E d \in Range(dispatchers_) : Marked(d)
    /\ Goto("event")
    /\ LET s == NextMarked IN
       /\ current' = s /\ ff' = EventsOf(s) /\ ClearBits(s)
       /\ net' = [net EXCEPT ![s] = Reaped(s)]
       /\ state_' = [state_ EXCEPT ![s] = IF "CLOSE" \in EventsOf(s) THEN "CS_CLOSED"
                                          ELSE IF "CONNECT" \in EventsOf(s) THEN "CS_CONNECTED"
                                          ELSE @]
    /\ UNCHANGED <<dispatchers_, fd, life, enabled_events_, beating, data, fSignaled_, fWait_,
                   polled, finite, reconnecting, raced>>

(* Mutant of OnEventSignaler: the loop is not told to end.                 *)
SignalerIgnored ==
    /\ pc = "event" /\ current = Signaler /\ Goto("dispatch")
    /\ ff' = {}
    /\ UNCHANGED <<dispatchers_, sockets, fSignaled_, fWait_, fdsRead, fdsWrite, polled,
                   finite, current, reconnecting, raced>>

OnEventSignaler ==
    /\ pc = "event" /\ current = Signaler /\ Goto("dispatch")
    /\ fWait_' = FALSE /\ ff' = {}
    /\ UNCHANGED <<dispatchers_, sockets, fSignaled_, fdsRead, fdsWrite, polled, finite,
                   current, reconnecting, raced>>

(* Mutant of EventsLeft: a closed socket keeps its events.                 *)
EventsLeftOnClose(s, bound) ==
    (enabled_events_[s] \ ff) \cup
    (IF "READ" \in ff /\ bound /\ (net[s] # "reset" \/ data[s]) THEN {"READ"} ELSE {})

(* Mutant of EventsLeft: Recv asks for READ again at the end of the stream *)
(* only.                                                                   *)
EventsLeftUnarmed(s, bound) ==
    IF "CLOSE" \in ff THEN {}
    ELSE (enabled_events_[s] \ ff) \cup
         (IF "READ" \in ff /\ bound /\ net[s] = "eof" THEN {"READ"} ELSE {})

(* OnEvent turns off what it signals; OnReadEvent receives until recv()    *)
(* fails; a recv() asks for READ again unless it fails with a reset, and   *)
(* so does one that received data before the reset showed.  A socket       *)
(* nobody listens to is not received from.                                 *)
EventsLeft(s, bound) ==
    IF "CLOSE" \in ff THEN {}
    ELSE (enabled_events_[s] \ ff) \cup
         (IF "READ" \in ff /\ bound /\ (net[s] # "reset" \/ data[s]) THEN {"READ"} ELSE {})

(* OnConnectEvent posts the first heartbeat timer, which wakes the thread. *)
OnEventSocket(s) ==
    /\ pc = "event" /\ current = s /\ life[s] # "dying" /\ Goto("dispatch")
    /\ LET bound == life[s] \in {"live", "closing"}
           reads == "READ" \in ff /\ bound
       IN  /\ enabled_events_' = [enabled_events_ EXCEPT ![s] = EventsLeft(s, bound)]
           /\ data' = [data EXCEPT ![s] = @ /\ ~reads]
           /\ net' = [net EXCEPT ![s] = IF reads THEN Reaped(s) ELSE @]
           /\ beating' = [beating EXCEPT ![s] = @ \/ ("CONNECT" \in ff /\ bound)]
           /\ fSignaled_' = (fSignaled_ \/ ("CONNECT" \in ff /\ bound))
           /\ life' = [life EXCEPT ![s] = IF "CLOSE" \in ff /\ bound THEN "closing" ELSE @]
    /\ ff' = {} /\ current' = Signaler
    /\ UNCHANGED <<dispatchers_, fd, state_, fWait_, fdsRead, fdsWrite, polled,
                   finite, reconnecting, raced>>

(* shared_from_this() of a socket whose destructor has begun throws.       *)
OnEventDying(s) ==
    /\ pc = "event" /\ current = s /\ life[s] = "dying" /\ Goto("failed")
    /\ UNCHANGED <<dispatchers_, sockets, fSignaled_, fWait_, fdsRead, fdsWrite, polled,
                   finite, current, ff, reconnecting, raced>>

EndRound ==
    /\ pc = "dispatch" /\ \A d \in Range(dispatchers_) : ~Marked(d)
    /\ IF fWait_ THEN Goto("fill") /\ Stay ELSE Goto("out") /\ Leave
    /\ UNCHANGED <<dispatchers_, sockets, fSignaled_, polled, current, ff, reconnecting, raced>>
-----------------------------------------------------------------------------
Loop == \/ WaitEnter \/ FillSets \/ SelectEnter \/ LockDispatchers
        \/ ExamineSignaler \/ ExamineSocket \/ OnEventSignaler
        \/ \E s \in Sockets : OnEventSocket(s) \/ OnEventDying(s)
        \/ EndRound

AsyncHandlers == \E s \in Sockets :
    \/ \E r \in Connects : Start(s, r)
    \/ Stop(s) \/ HeartbeatTimeout(s) \/ SendBlocks(s)

QueueThread ==
    \/ FirstReconnect
    \/ \E s \in Sockets :
         \/ QueueSocket(s) \/ QueueAdd(s) \/ \E r \in Connects : QueueConnect(s, r)
         \/ QueueRemoveSession(s) \/ QueueRemove(s) \/ QueueClose(s)

Network == \E s \in Sockets :
    Accepted(s) \/ Refused(s) \/ PeerCloses(s) \/ PeerResets(s) \/ Arrives(s)

Next == Loop \/ SelectReturn \/ SelectTimeout \/ SelectInterrupted
        \/ AsyncHandlers \/ QueueThread \/ WakeUp \/ Network

Spec == Init /\ [][Next]_vars

(* The async thread keeps running, and so does close() on the queue        *)
(* thread; signals do not interrupt select() for ever, and sockets are not *)
(* ready at every call of it; the heartbeat timer of a dead connection,    *)
(* which hears nothing any more, expires.                                  *)
Fairness ==
    /\ WF_vars(Loop) /\ SF_vars(SelectReturn) /\ SF_vars(SelectTimeout)
    /\ WF_vars(\E s \in Sockets : QueueClose(s))
    /\ \A s \in Sockets : SF_vars(net[s] # "up" /\ HeartbeatTimeout(s))

FairSpec == Spec /\ Fairness
-----------------------------------------------------------------------------
Event == {"CONNECT", "READ", "WRITE", "CLOSE"}

(* Types; the server's list names every socket that is in it once, and no  *)
(* two open sockets share a descriptor.                                    *)
TypeOK ==
    /\ Head(dispatchers_) = Signaler /\ IsInjective(dispatchers_)
    /\ Range(Tail(dispatchers_)) = {s \in Sockets : life[s] \in InServer}
    /\ fd \in [Sockets -> {NoFd} \cup Fds] /\ life \in [Sockets -> Life]
    /\ \A s, t \in Open : fd[s] = fd[t] => s = t
    /\ state_ \in [Sockets -> {"CS_CLOSED", "CS_CONNECTING", "CS_CONNECTED"}]
    /\ enabled_events_ \in [Sockets -> SUBSET Event]
    /\ beating \in [Sockets -> BOOLEAN] /\ data \in [Sockets -> BOOLEAN]
    /\ net \in [Sockets -> {"none", "dialing", "refused", "up", "eof", "reset"}]
    /\ {fSignaled_, fWait_, finite, reconnecting, raced} \subseteq BOOLEAN
    /\ pc \in {"out", "fill", "select", "blocked", "ready", "dispatch", "event", "failed"}
    /\ fdsRead \cup fdsWrite \subseteq {SignalFd} \cup Fds /\ polled \subseteq Sockets
    /\ current \in Sockets \cup {Signaler} /\ ff \subseteq Event

Handling(s) == pc = "event" /\ current = s

(* What OnEvent is called with is true of the socket's own connection,     *)
(* whatever descriptor numbers were used again meanwhile: CONNECT only     *)
(* after the peer accepted, READ only once connected, CLOSE only when the  *)
(* peer is gone; unless the queue thread destroyed a socket that had       *)
(* missed its heartbeats and was still waited for.                         *)
EventsTrue ==
    \A s \in Sockets : Handling(s) /\ ~raced =>
        /\ "CONNECT" \in ff => net[s] \in {"up", "eof", "reset"}
        /\ "READ" \in ff => state_[s] = "CS_CONNECTED"
        /\ "CLOSE" \in ff => net[s] \in {"none", "eof", "reset"}

(* A socket that signalled its close event never signals again: a second   *)
(* one would post a second removal, which may hit the session's successor. *)
ClosedIsQuiet == \A s \in Sockets : Handling(s) => life[s] # "closing"

(* Wait fails, which ends the async thread and with it all connections,    *)
(* only when the queue thread tears down a socket whose heartbeats timed   *)
(* out; sockets closed by their peers come and go without harm.            *)
FailsOnlyByRace == pc = "failed" => raced

(* Data for a connected session is received, and a connection that died is *)
(* given up, even when the reset is seen by recv() first, which turns off  *)
(* READ without a close event: then the heartbeat timer does it.           *)
Unserved(s) ==
    /\ life[s] = "live" /\ pc # "failed"
    /\ \/ data[s] /\ state_[s] = "CS_CONNECTED" /\ net[s] = "up"
       \/ beating[s] /\ net[s] \in {"eof", "reset"}
Served == []<>(\A s \in Sockets : ~Unserved(s))

(* A wake-up ends the call of Wait, whatever the sockets do.               *)
WakeUpReturns == fSignaled_ ~> pc \in {"out", "failed"}

(* Wait, "Zero all fd_sets. Don't need to do this inside the loop since    *)
(* select() zeros the descriptors not signaled": after the dispatchers     *)
(* were asked, the sets hold what they ask for and nothing else.           *)
SetsAsRequested ==
    [][pc = "fill" /\ pc' = "select" => fdsRead' = ReadFds /\ fdsWrite' = WriteFds]_vars
=============================================================================
