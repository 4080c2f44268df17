------------------------------ MODULE Threads ------------------------------
(***************************************************************************)
(* event/thread: threads that run a message loop and call one another with *)
(* Send, which waits until the other thread has run the handler and serves *)
(* the calls of others meanwhile; the MessageQueueManager, through which   *)
(* the destructor of a handler reaches every queue; Stop and ~Thread.      *)
(* What a thread is doing is a stack of calls, the innermost one first.    *)
(* Delayed messages, Peek and timeouts are in module MessageQueue.         *)
(***************************************************************************)
EXTENDS Integers, Sequences, FiniteSets, Selection

CONSTANTS
    Threads,          \* threads that run ProcessMessages
    Foreign,          \* other threads: Send gives them an AutoThread
    Handlers,         \* MessageHandler objects
    None,             \* no thread
    Loads             \* what may happen, one of which a behaviour runs under

(* Bounds on the calls, the handlers there are and those that the program  *)
(* may destroy, and the threads that their owners may destroy.             *)
Load == [sends : Nat, posts : Nat, handlers : SUBSET Handlers, clears : SUBSET Handlers,
         doomed : SUBSET Threads]

ASSUME ThreadsAssumption ==
    /\ Threads \cap Foreign = {} /\ None \notin Threads \cup Foreign
    /\ Loads \subseteq Load /\ Loads # {}

VARIABLES
    load,             \* the load of this behaviour
    fStop_, active_, msgq_, crit_, sendlist_, has_sends_,  \* of each thread
    fSignaled_,       \* a byte is in the pipe of the thread's socket server
    manager_crit_, message_queues_,   \* of the MessageQueueManager
    stack,            \* the calls that each thread is in
    ready,            \* sends in progress whose local flag ready is set
    owner,            \* how far the owner of each thread is in ~Thread
    alive,            \* handlers whose destructor has not run
    sends, posts      \* calls so far

queues == <<fStop_, active_, msgq_, crit_, sendlist_, has_sends_>>
manager == <<manager_crit_, message_queues_>>
counts == <<load, sends, posts>>
vars == <<queues, fSignaled_, manager, stack, ready, owner, alive, counts>>

All == Threads \cup Foreign

(* The calls on a stack; n names a Send or a Post.                         *)
Loop(at) == [call |-> "ProcessMessages", at |-> at]
OnMessage(h) == [call |-> "OnMessage", at |-> "body", h |-> h]
Send(n, to, h) == [call |-> "Send", at |-> "enter", n |-> n, to |-> to, h |-> h,
                   waited |-> FALSE]
Post(n, to, h) == [call |-> "Post", at |-> "enter", n |-> n, to |-> to, h |-> h]
ReceiveSends == [call |-> "ReceiveSends", at |-> "check", n |-> 0, from |-> None]
Clear(h) == [call |-> "Clear", at |-> "next", h |-> h, todo |-> message_queues_]

In(x, call, at) == stack[x] # <<>> /\ Head(stack[x]).call = call /\ Head(stack[x]).at = at

(* What x does next with its innermost call: go on, call, or return.       *)
Goes(x, f) == stack' = [stack EXCEPT ![x] = <<f>> \o Tail(@)]
Calls(x, f, g) == stack' = [stack EXCEPT ![x] = <<g, f>> \o Tail(@)]
Returns(x) == stack' = [stack EXCEPT ![x] = Tail(@)]

WakeUp(x) == fSignaled_' = [fSignaled_ EXCEPT ![x] = TRUE]

Init ==
    /\ load \in Loads
    /\ fStop_ = [t \in Threads |-> FALSE] /\ active_ = [t \in Threads |-> FALSE]
    /\ msgq_ = [t \in Threads |-> <<>>] /\ crit_ = [t \in Threads |-> None]
    /\ sendlist_ = [t \in Threads |-> <<>>] /\ has_sends_ = [t \in All |-> FALSE]
    /\ fSignaled_ = [t \in All |-> FALSE]
    /\ manager_crit_ = None /\ message_queues_ = <<>>
    /\ stack = [t \in All |-> IF t \in Threads THEN <<Loop("get")>> ELSE <<>>]
    /\ ready = {} /\ owner = [t \in Threads |-> "runs"] /\ alive = load.handlers
    /\ sends = 0 /\ posts = 0
-----------------------------------------------------------------------------
(* Calls that a handler, or a foreign thread, may make at any moment.      *)
MayCall(x) == In(x, "OnMessage", "body") \/ (x \in Foreign /\ stack[x] = <<>>)

Enters(x, f) == stack' = [stack EXCEPT ![x] = <<f>> \o @]

(* Send to a thread that has not stopped: at once if it is the caller's    *)
(* own, else through a new AutoThread when the caller has no Thread.       *)
SendCall(x, to, h) ==
    /\ MayCall(x) /\ sends < load.sends /\ ~fStop_[to]
    /\ sends' = sends + 1
    /\ Enters(x, IF to = x THEN OnMessage(h) ELSE Send(sends + 1, to, h))
    /\ fSignaled_' = IF x \in Foreign THEN [fSignaled_ EXCEPT ![x] = FALSE] ELSE fSignaled_
    /\ UNCHANGED <<queues, manager, ready, owner, alive, load, posts>>

PostCall(x, to, h) ==
    /\ MayCall(x) /\ posts < load.posts /\ ~fStop_[to]
    /\ posts' = posts + 1
    /\ Enters(x, Post(posts + 1, to, h))
    /\ UNCHANGED <<queues, fSignaled_, manager, ready, owner, alive, load, sends>>

(* ~MessageHandler: MessageQueueManager::Clear holds its lock throughout.  *)
(* The program must not destroy a handler that runs or is about to be      *)
(* named in a message.                                                     *)
Unnamed(h) ==
    \A x \in All : \A i \in DOMAIN stack[x] :
        ~(stack[x][i].call \in {"OnMessage", "Send", "Post"}
          /\ stack[x][i].at \in {"body", "enter", "add"} /\ stack[x][i].h = h)

ClearCall(x, h) ==
    /\ MayCall(x) /\ h \in load.clears /\ Unnamed(h) /\ manager_crit_ = None
    /\ alive' = alive \ {h}
    /\ manager_crit_' = x
    /\ Enters(x, Clear(h))
    /\ UNCHANGED <<queues, fSignaled_, message_queues_, ready, owner, counts>>

OnMessageReturns(x) ==
    /\ In(x, "OnMessage", "body")
    /\ Returns(x)
    /\ UNCHANGED <<queues, fSignaled_, manager, ready, owner, alive, counts>>
-----------------------------------------------------------------------------
(* Send and Post.                                                          *)
Entering(x) == /\ In(x, "Send", "enter") \/ In(x, "Post", "enter")
               /\ crit_[Head(stack[x]).to] = None

(* What both do under crit_ once the queue is active: Send will wake the   *)
(* other thread after it has left crit_, Post does so before.              *)
Deliver(x) ==
    LET f == Head(stack[x]) IN
    \/ /\ f.call = "Send"
       /\ sendlist_' = [sendlist_ EXCEPT ![f.to] = Append(@, [n |-> f.n, from |-> x, h |-> f.h])]
       /\ has_sends_' = [has_sends_ EXCEPT ![f.to] = TRUE]
       /\ Goes(x, [f EXCEPT !.at = "wake"])
       /\ UNCHANGED <<msgq_, fSignaled_>>
    \/ /\ f.call = "Post"
       /\ msgq_' = [msgq_ EXCEPT ![f.to] = Append(@, [n |-> f.n, h |-> f.h])]
       /\ WakeUp(f.to)
       /\ Returns(x)
       /\ UNCHANGED <<sendlist_, has_sends_>>

(* Mutant of EnterActive: EnsureActive always calls the manager.           *)
EnterAdds(x) ==
    /\ Entering(x) /\ active_[Head(stack[x]).to]
    /\ crit_' = [crit_ EXCEPT ![Head(stack[x]).to] = x]
    /\ Goes(x, [Head(stack[x]) EXCEPT !.at = "add"])
    /\ UNCHANGED <<fStop_, active_, msgq_, sendlist_, has_sends_, fSignaled_, manager, ready,
                   owner, alive, counts>>

EnterActive(x) ==
    /\ Entering(x) /\ active_[Head(stack[x]).to]
    /\ Deliver(x)
    /\ UNCHANGED <<fStop_, active_, crit_, manager, ready, owner, alive, counts>>

(* EnsureActive of a queue that was never used: with crit_ held ...        *)
EnsureActive(x) ==
    /\ Entering(x) /\ ~active_[Head(stack[x]).to]
    /\ active_' = [active_ EXCEPT ![Head(stack[x]).to] = TRUE]
    /\ crit_' = [crit_ EXCEPT ![Head(stack[x]).to] = x]
    /\ Goes(x, [Head(stack[x]) EXCEPT !.at = "add"])
    /\ UNCHANGED <<fStop_, msgq_, sendlist_, has_sends_, fSignaled_, manager, ready, owner,
                   alive, counts>>

(* Mutant of Add: the manager is not told of the queue.                    *)
AddNothing(x) ==
    /\ In(x, "Send", "add") \/ In(x, "Post", "add")
    /\ crit_' = [crit_ EXCEPT ![Head(stack[x]).to] = None]
    /\ Deliver(x)
    /\ UNCHANGED <<fStop_, active_, manager, ready, owner, alive, counts>>

(* ... it waits for the lock of the manager and adds the queue.            *)
Add(x) ==
    /\ In(x, "Send", "add") \/ In(x, "Post", "add")
    /\ manager_crit_ = None
    /\ message_queues_' = Append(message_queues_, Head(stack[x]).to)
    /\ crit_' = [crit_ EXCEPT ![Head(stack[x]).to] = None]
    /\ Deliver(x)
    /\ UNCHANGED <<fStop_, active_, manager_crit_, ready, owner, alive, counts>>

SendWakes(x) ==
    /\ In(x, "Send", "wake")
    /\ WakeUp(Head(stack[x]).to)
    /\ Goes(x, [Head(stack[x]) EXCEPT !.at = "test"])
    /\ UNCHANGED <<queues, manager, ready, owner, alive, counts>>

(* while (!ready): serve the sends of others, then sleep.                  *)
SendTests(x) ==
    /\ In(x, "Send", "test") /\ Head(stack[x]).n \notin ready
    /\ Calls(x, [Head(stack[x]) EXCEPT !.at = "wait"], ReceiveSends)
    /\ UNCHANGED <<queues, fSignaled_, manager, ready, owner, alive, counts>>

SendWaits(x) ==
    /\ In(x, "Send", "wait") /\ fSignaled_[x]
    /\ fSignaled_' = [fSignaled_ EXCEPT ![x] = FALSE]
    /\ Goes(x, [Head(stack[x]) EXCEPT !.at = "test", !.waited = TRUE])
    /\ UNCHANGED <<queues, manager, ready, owner, alive, counts>>

(* Mutant of SendReturns: a wake-up that Send consumed is not given back.  *)
SendKeepsWakeUp(x) ==
    /\ In(x, "Send", "test") /\ Head(stack[x]).n \in ready
    /\ ready' = ready \ {Head(stack[x]).n}
    /\ Returns(x)
    /\ UNCHANGED <<queues, fSignaled_, manager, owner, alive, counts>>

SendReturns(x) ==
    /\ In(x, "Send", "test") /\ Head(stack[x]).n \in ready
    /\ IF Head(stack[x]).waited THEN WakeUp(x) ELSE UNCHANGED fSignaled_
    /\ ready' = ready \ {Head(stack[x]).n}
    /\ Returns(x)
    /\ UNCHANGED <<queues, manager, owner, alive, counts>>
-----------------------------------------------------------------------------
(* ReceiveSends.                                                           *)
ReceiveChecks(x) ==
    /\ In(x, "ReceiveSends", "check")
    /\ IF has_sends_[x] THEN Goes(x, [Head(stack[x]) EXCEPT !.at = "next"]) ELSE Returns(x)
    /\ UNCHANGED <<queues, fSignaled_, manager, ready, owner, alive, counts>>

(* Mutant of NextSend: crit_ is not left after the last one.               *)
NextSendKeepsCrit(x) ==
    IF sendlist_[x] = <<>>
    THEN /\ has_sends_' = [has_sends_ EXCEPT ![x] = FALSE]
         /\ Returns(x)
         /\ UNCHANGED <<sendlist_, crit_>>
    ELSE LET smsg == Head(sendlist_[x]) IN
         /\ crit_' = [crit_ EXCEPT ![x] = None]
         /\ sendlist_' = [sendlist_ EXCEPT ![x] = Tail(@)]
         /\ Calls(x, [Head(stack[x]) EXCEPT !.at = "reply", !.n = smsg.n, !.from = smsg.from],
                  OnMessage(smsg.h))
         /\ UNCHANGED has_sends_

(* With crit_ held: take the next send, leave crit_ and run its handler;   *)
(* after the last one, leave crit_ and return.                             *)
NextSend(x) ==
    /\ crit_' = [crit_ EXCEPT ![x] = None]
    /\ IF sendlist_[x] = <<>>
       THEN /\ has_sends_' = [has_sends_ EXCEPT ![x] = FALSE]
            /\ Returns(x)
            /\ UNCHANGED sendlist_
       ELSE LET smsg == Head(sendlist_[x]) IN
            /\ sendlist_' = [sendlist_ EXCEPT ![x] = Tail(@)]
            /\ Calls(x, [Head(stack[x]) EXCEPT !.at = "reply", !.n = smsg.n, !.from = smsg.from],
                     OnMessage(smsg.h))
            /\ UNCHANGED has_sends_

(* Mutant of ReceiveEnters: the sender is told before the handler runs.    *)
ReceiveEarly(x) ==
    /\ In(x, "ReceiveSends", "next") /\ crit_[x] = None
    /\ ready' = IF sendlist_[x] = <<>> THEN ready ELSE ready \cup {Head(sendlist_[x]).n}
    /\ NextSend(x)
    /\ UNCHANGED <<fStop_, active_, msgq_, fSignaled_, manager, owner, alive, counts>>

ReceiveEnters(x) ==
    /\ In(x, "ReceiveSends", "next") /\ crit_[x] = None
    /\ NextSend(x)
    /\ UNCHANGED <<fStop_, active_, msgq_, fSignaled_, manager, ready, owner, alive, counts>>

(* The handler has returned: tell the sender, ...                          *)
ReceiveReplies(x) ==
    /\ In(x, "ReceiveSends", "reply") /\ crit_[x] = None
    /\ crit_' = [crit_ EXCEPT ![x] = x]
    /\ ready' = ready \cup {Head(stack[x]).n}
    /\ Goes(x, [Head(stack[x]) EXCEPT !.at = "signal"])
    /\ UNCHANGED <<fStop_, active_, msgq_, sendlist_, has_sends_, fSignaled_, manager, owner,
                   alive, counts>>

(* ... wake it, and look for the next one without leaving crit_.           *)
ReceiveSignals(x) ==
    /\ In(x, "ReceiveSends", "signal")
    /\ WakeUp(Head(stack[x]).from)
    /\ NextSend(x)
    /\ UNCHANGED <<fStop_, active_, msgq_, manager, ready, owner, alive, counts>>
-----------------------------------------------------------------------------
(* Thread::Clear of the handlers hs, with crit_ of the queue q held: the   *)
(* senders of what is removed are told and woken.                          *)
Keep(s, hs) == Selected(s, {s[i] : i \in {j \in DOMAIN s : s[j].h \notin hs}})

Removed(q, hs) == {sendlist_[q][i] : i \in {j \in DOMAIN sendlist_[q] : sendlist_[q][j].h \in hs}}

(* Mutant of ClearOne: the senders are not told.                           *)
ClearUntold(q, hs) ==
    /\ msgq_' = [msgq_ EXCEPT ![q] = Keep(@, hs)]
    /\ sendlist_' = [sendlist_ EXCEPT ![q] = Keep(@, hs)]
    /\ fSignaled_' = [x \in All |-> fSignaled_[x] \/ \E smsg \in Removed(q, hs) : smsg.from = x]
    /\ UNCHANGED ready

ClearOne(q, hs) ==
    /\ msgq_' = [msgq_ EXCEPT ![q] = Keep(@, hs)]
    /\ sendlist_' = [sendlist_ EXCEPT ![q] = Keep(@, hs)]
    /\ ready' = ready \cup {smsg.n : smsg \in Removed(q, hs)}
    /\ fSignaled_' = [x \in All |-> fSignaled_[x] \/ \E smsg \in Removed(q, hs) : smsg.from = x]

ClearNext(x) ==
    /\ In(x, "Clear", "next")
    /\ LET f == Head(stack[x]) IN
       \/ /\ f.todo = <<>>
          /\ manager_crit_' = None
          /\ Returns(x)
          /\ UNCHANGED <<queues, fSignaled_, ready>>
       \/ /\ f.todo # <<>> /\ crit_[Head(f.todo)] = None
          /\ ClearOne(Head(f.todo), {f.h})
          /\ Goes(x, [f EXCEPT !.todo = Tail(@)])
          /\ UNCHANGED <<fStop_, active_, crit_, has_sends_, manager_crit_>>
    /\ UNCHANGED <<message_queues_, owner, alive, counts>>
-----------------------------------------------------------------------------
(* ProcessMessages and Get.                                                *)
(* ReceiveSends begins with a look at has_sends_.                          *)
GetReceives(x) ==
    /\ In(x, "ProcessMessages", "get")
    /\ IF has_sends_[x] THEN Calls(x, Loop("pop"), [ReceiveSends EXCEPT !.at = "next"])
                        ELSE Goes(x, Loop("pop"))
    /\ UNCHANGED <<queues, fSignaled_, manager, ready, owner, alive, counts>>

GetPops(x) ==
    /\ In(x, "ProcessMessages", "pop") /\ crit_[x] = None
    /\ IF msgq_[x] = <<>>
       THEN Goes(x, Loop("stop")) /\ UNCHANGED msgq_
       ELSE /\ msgq_' = [msgq_ EXCEPT ![x] = Tail(@)]
            /\ Calls(x, Loop("get"), OnMessage(Head(msgq_[x]).h))
    /\ UNCHANGED <<fStop_, active_, crit_, sendlist_, has_sends_, fSignaled_, manager, ready,
                   owner, alive, counts>>

GetStops(x) ==
    /\ In(x, "ProcessMessages", "stop")
    /\ IF fStop_[x] THEN Returns(x) ELSE Goes(x, Loop("wait"))
    /\ UNCHANGED <<queues, fSignaled_, manager, ready, owner, alive, counts>>

GetWaits(x) ==
    /\ In(x, "ProcessMessages", "wait") /\ fSignaled_[x]
    /\ fSignaled_' = [fSignaled_ EXCEPT ![x] = FALSE]
    /\ Goes(x, Loop("get"))
    /\ UNCHANGED <<queues, manager, ready, owner, alive, counts>>
-----------------------------------------------------------------------------
(* The owner of thread t destroys it: Quit, Join, Clear(NULL), Remove.     *)
QuitSets(t) ==
    /\ owner[t] = "runs" /\ t \in load.doomed
    /\ fStop_' = [fStop_ EXCEPT ![t] = TRUE]
    /\ owner' = [owner EXCEPT ![t] = "quits"]
    /\ UNCHANGED <<active_, msgq_, crit_, sendlist_, has_sends_, fSignaled_, manager, stack,
                   ready, alive, counts>>

(* Mutant of QuitWakes: Quit does not wake the thread.                     *)
QuitSilently(t) ==
    /\ owner[t] = "quits"
    /\ owner' = [owner EXCEPT ![t] = "joins"]
    /\ UNCHANGED <<queues, fSignaled_, manager, stack, ready, alive, counts>>

QuitWakes(t) ==
    /\ owner[t] = "quits"
    /\ WakeUp(t)
    /\ owner' = [owner EXCEPT ![t] = "joins"]
    /\ UNCHANGED <<queues, manager, stack, ready, alive, counts>>

(* The program must not destroy a thread that some call still has to       *)
(* touch.                                                                  *)
Untouched(t) ==
    \A x \in All : \A i \in DOMAIN stack[x] :
        ~(stack[x][i].call \in {"Send", "Post"} /\ stack[x][i].at \in {"enter", "add", "wake"}
          /\ stack[x][i].to = t)

Joins(t) ==
    /\ owner[t] = "joins" /\ stack[t] = <<>> /\ Untouched(t) /\ crit_[t] = None
    /\ IF active_[t] THEN ClearOne(t, Handlers)
                     ELSE UNCHANGED <<msgq_, sendlist_, ready, fSignaled_>>
    /\ owner' = [owner EXCEPT ![t] = IF active_[t] THEN "removes" ELSE "gone"]
    /\ UNCHANGED <<fStop_, active_, crit_, has_sends_, manager, stack, alive, counts>>

Removes(t) ==
    /\ owner[t] = "removes" /\ manager_crit_ = None
    /\ message_queues_' = Selected(message_queues_, Threads \ {t})
    /\ owner' = [owner EXCEPT ![t] = "gone"]
    /\ UNCHANGED <<queues, fSignaled_, manager_crit_, stack, ready, alive, counts>>
-----------------------------------------------------------------------------
Call(x) == \E h \in alive : \/ \E to \in Threads : SendCall(x, to, h) \/ PostCall(x, to, h)
                            \/ ClearCall(x, h)

Step(x) == \/ OnMessageReturns(x) \/ EnterActive(x) \/ EnsureActive(x) \/ Add(x)
           \/ SendWakes(x) \/ SendTests(x) \/ SendWaits(x) \/ SendReturns(x)
           \/ ReceiveChecks(x) \/ ReceiveEnters(x) \/ ReceiveReplies(x) \/ ReceiveSignals(x)
           \/ ClearNext(x) \/ GetReceives(x) \/ GetPops(x) \/ GetStops(x) \/ GetWaits(x)

Destroy(t) == QuitWakes(t) \/ Joins(t) \/ Removes(t)

Next == \/ \E x \in All : Call(x) \/ Step(x)
        \/ \E t \in Threads : QuitSets(t) \/ Destroy(t)

Spec == Init /\ [][Next]_vars

(* Threads keep running, handlers return, and who began to destroy a       *)
(* thread goes on with it.                                                 *)
Fairness == /\ \A x \in All : WF_vars(Step(x))
            /\ \A t \in Threads : WF_vars(Destroy(t))

FairSpec == Spec /\ Fairness
-----------------------------------------------------------------------------
SendIds == 1 .. load.sends
PostIds == 1 .. load.posts

Frame ==
    [call : {"ProcessMessages"}, at : {"get", "pop", "stop", "wait"}]
    \cup [call : {"OnMessage"}, at : {"body"}, h : Handlers]
    \cup [call : {"Send"}, at : {"enter", "add", "wake", "test", "wait"}, n : SendIds,
          to : Threads, h : Handlers, waited : BOOLEAN]
    \cup [call : {"Post"}, at : {"enter", "add"}, n : PostIds, to : Threads, h : Handlers]
    \cup [call : {"ReceiveSends"}, at : {"check", "next", "reply", "signal"},
          n : {0} \cup SendIds, from : All \cup {None}]
    \cup [call : {"Clear"}, at : {"next"}, h : Handlers, todo : Seq(Threads)]

TypeOK ==
    /\ fStop_ \in [Threads -> BOOLEAN] /\ active_ \in [Threads -> BOOLEAN]
    /\ msgq_ \in [Threads -> Seq([n : PostIds, h : Handlers])]
    /\ crit_ \in [Threads -> All \cup {None}] /\ manager_crit_ \in All \cup {None}
    /\ \A t \in Threads, x \in All : crit_[t] = x =>
         \/ In(x, "Send", "add") \/ In(x, "Post", "add")
         \/ x = t /\ In(t, "ReceiveSends", "signal")
    /\ sendlist_ \in [Threads -> Seq([n : SendIds, from : All, h : Handlers])]
    /\ has_sends_ \in [All -> BOOLEAN] /\ fSignaled_ \in [All -> BOOLEAN]
    /\ message_queues_ \in Seq(Threads)
    /\ \A x \in All : \A i \in DOMAIN stack[x] : stack[x][i] \in Frame
    /\ ready \subseteq SendIds
    /\ owner \in [Threads -> {"runs", "quits", "joins", "removes", "gone"}]
    /\ load \in Loads /\ alive \subseteq Handlers
    /\ sends \in 0 .. load.sends /\ posts \in 0 .. load.posts

Frames(x) == {stack[x][i] : i \in DOMAIN stack[x]}
InSend(x, n) == \E f \in Frames(x) : f.call = "Send" /\ f.n = n

(* *smsg.ready is a local of the Send that queued smsg.  Whatever is       *)
(* nested in what, a send that is queued or whose handler runs still has   *)
(* its sender inside that Send, not yet told to go on: the flag that will  *)
(* be set exists, and no handler runs twice.  And no sender is forgotten:  *)
(* a Send that has got past its queueing is queued, its handler runs, or   *)
(* it has been told, although queues are cleared and threads destroyed.    *)
SenderWaits ==
    /\ \A t \in Threads :
        /\ \A i \in DOMAIN sendlist_[t] :
             /\ InSend(sendlist_[t][i].from, sendlist_[t][i].n)
             /\ sendlist_[t][i].n \notin ready
        /\ \A f \in Frames(t) : f.call = "ReceiveSends" /\ f.at = "reply" =>
             InSend(f.from, f.n) /\ f.n \notin ready
    /\ \A x \in All : \A f \in Frames(x) :
        f.call = "Send" /\ f.at \notin {"enter", "add"} /\ f.n \notin ready =>
          \/ \E i \in DOMAIN sendlist_[f.to] : sendlist_[f.to][i].n = f.n
          \/ \E g \in Frames(f.to) : g.call = "ReceiveSends" /\ g.at = "reply" /\ g.n = f.n

(* Nobody sleeps over what it has to do: a thread that waits, in Get or in *)
(* Send, has a byte in its pipe, or a thread about to write one, whenever  *)
(* its Send is ready, a send or a message is queued for it, or it should   *)
(* stop; although a Send nested in it consumed wake-ups meant for others.  *)
AboutToWake(t) ==
    \/ fSignaled_[t]
    \/ \E x \in All : \E f \in Frames(x) : \/ f.call = "Send" /\ f.at = "wake" /\ f.to = t
                                           \/ f.call = "ReceiveSends" /\ f.at = "signal" /\ f.from = t
    \/ t \in Threads /\ owner[t] = "quits"

NoOneOversleeps ==
    /\ \A x \in All : In(x, "Send", "wait") /\ Head(stack[x]).n \in ready => AboutToWake(x)
    /\ \A t \in Threads :
         /\ In(t, "Send", "wait") /\ sendlist_[t] # <<>> => AboutToWake(t)
         /\ In(t, "ProcessMessages", "wait")
              /\ (sendlist_[t] # <<>> \/ msgq_[t] # <<>> \/ fStop_[t]) => AboutToWake(t)

(* EnsureActive takes the manager's lock while it holds the queue's, and   *)
(* the manager's Clear takes them in the other order; they never wait for  *)
(* each other, as a queue is not yet known to the manager then.            *)
NoLockCycle ==
    \A x, y \in All : \A q \in Threads :
        ~(/\ stack[y] # <<>> /\ Head(stack[y]).at = "add" /\ crit_[q] = y /\ Head(stack[y]).to = q
          /\ In(x, "Clear", "next") /\ Head(stack[x]).todo # <<>> /\ Head(Head(stack[x]).todo) = q)

(* Once its destructor has been through the manager's queues, no queue     *)
(* names a handler.                                                        *)
ClearedEverywhere ==
    \A h \in Handlers \ alive : \A t \in Threads :
        \/ \E x \in All : \E f \in Frames(x) : f.call = "Clear" /\ f.h = h
        \/ /\ \A i \in DOMAIN sendlist_[t] : sendlist_[t][i].h # h
           /\ \A i \in DOMAIN msgq_[t] : msgq_[t][i].h # h

(* Every Send completes, although its receiver exits or its handler is     *)
(* destroyed, and when threads send to each other in a circle: there are  *)
(* only so many, and in the end none is in progress.                   *)
SendsComplete == <>[](\A x \in All : \A f \in Frames(x) : f.call # "Send")

(* A posted message leaves the queue, handled or cleared, even when the    *)
(* wake-up for it came while its thread was waiting in a Send; and a       *)
(* thread that was told to quit ends, whatever it was waiting for.         *)
LoopsSettle == <>[](\A t \in Threads : msgq_[t] = <<>> /\ (fStop_[t] => stack[t] = <<>>))
=============================================================================
