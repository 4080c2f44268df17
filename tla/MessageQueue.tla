---------------------------- MODULE MessageQueue ----------------------------
(***************************************************************************)
(* event/messagequeue and the wake-up pipe of event/physicalsocketserver:  *)
(* client threads post, quit and clear while one thread sits in Get or     *)
(* Peek.  Every action is one stretch of code between two points where     *)
(* another thread can interfere: an access to fStop_ or to the pipe, or    *)
(* taking crit_.                                                           *)
(***************************************************************************)
EXTENDS TimeUtils, Sequences, FiniteSets

CONSTANTS
    Clients,      \* threads that post to the queue
    Handlers,     \* MessageHandler objects
    Consumer,     \* the thread that owns the queue
    None,         \* no thread, no handler (NULL)
    Waits,        \* the cmsWait arguments of Get; Forever is kForever
    Delays,       \* the cmsDelay arguments of PostDelayed
    MaxPosts,     \* bound: posts of all clients together
    StartTime,    \* value of the millisecond counter at the start
    MaxTime       \* bound: last tick of the counter

Forever == -1     \* kForever

ASSUME ThreadsAssumption == /\ Consumer \notin Clients
                            /\ None \notin Clients \cup {Consumer}
                            /\ None \notin Handlers \cup uint32
ASSUME TimesAssumption == /\ Waits \subseteq (Nat \cup {Forever})
                          /\ Delays \subseteq 0 .. HALF - 1
                          /\ StartTime \in Nat \ {0} /\ MaxTime \in Nat
                          /\ MaxPosts \in Nat

VARIABLES
    fStop_, fPeekKeep_, msgPeek_, active_,
    msgq_,            \* ready messages, oldest first
    dmsgq_,           \* the priority queue: a set, read only through Top
    dmsgq_next_num_,
    crit_,            \* the thread that holds the critical section, or None
    fSignaled_,       \* a byte is in the pipe of signal_wakeup_
    now,              \* milliseconds since an epoch, not wrapped
    pc, arg,          \* where each client is, and the locals of its call
    posts,            \* posts begun so far
    cpc, get,         \* where the consumer is, and the locals of Get
    got,              \* history: messages that Get returned, in order
    alive             \* history: handlers whose destructor has not run

queueVars == <<fPeekKeep_, msgPeek_, active_, msgq_, dmsgq_, dmsgq_next_num_>>
clientVars == <<pc, arg, posts>>
historyVars == <<got, alive>>
vars == <<fStop_, queueVars, crit_, fSignaled_, now, clientVars, cpc, get,
          historyVars>>

(* A Message: src and n only name it; due is 0 for an immediate post and   *)
(* else the true time of delivery, known to the code as msTrigger_, wrapped. *)
Message == [phandler : Handlers \cup {None}, message_id : {"user", "MQID_DISPOSE"},
            src : Clients, n : 1 .. MaxPosts, due : Nat]

DelayedMessage == [msTrigger_ : uint32, num_ : Nat, msg_ : Message]

NoMessage == [phandler |-> None, message_id |-> "none"]

NoArg == <<>>         \* the locals of a client outside any call

(* The locals of Get.  read is history: the true time that msCurrent shows. *)
NoGet == [cmsWait |-> 0, msStart |-> 0, msCurrent |-> 0, read |-> 0, peeking |-> FALSE,
          cmsDelayNext |-> Forever, cmsNext |-> Forever, entered |-> 0,
          pmsg |-> NoMessage]

Time == now % (2 * HALF)

(* Mutant of Before: messages of the same time leave in LIFO order.        *)
BeforeLifo(a, b) == \/ a.msTrigger_ < b.msTrigger_
                    \/ a.msTrigger_ = b.msTrigger_ /\ a.num_ > b.num_

(* DelayedMessage::operator<, as "a leaves the priority queue before b".   *)
Before(a, b) == \/ a.msTrigger_ < b.msTrigger_
                \/ a.msTrigger_ = b.msTrigger_ /\ a.num_ < b.num_

IsTop(d) == d \in dmsgq_ /\ \A e \in dmsgq_ \ {d} : Before(d, e)

Init ==
    /\ fStop_ = FALSE /\ fPeekKeep_ = FALSE /\ msgPeek_ = NoMessage
    /\ active_ = FALSE /\ msgq_ = <<>> /\ dmsgq_ = {} /\ dmsgq_next_num_ = 0
    /\ crit_ = None /\ fSignaled_ = FALSE /\ now = StartTime
    /\ pc = [p \in Clients |-> "idle"]
    /\ arg = [p \in Clients |-> NoArg] /\ posts = 0
    /\ cpc = "out"
    /\ get = NoGet
    /\ got = <<>> /\ alive = Handlers
-----------------------------------------------------------------------------
(* Client threads.                                                         *)

(* Post, PostDelayed and Dispose up to the unlocked test of fStop_: a      *)
(* stopped queue returns at once, which changes nothing.                   *)
PostCall(p, h, id, delay) ==
    /\ pc[p] = "idle" /\ posts < MaxPosts
    /\ ~fStop_
    /\ posts' = posts + 1
    /\ arg' = [arg EXCEPT ![p] =
                 [trigger |-> IF delay = None THEN None ELSE TimeAfter(Time, delay),
                  msg |-> [phandler |-> h, message_id |-> id, src |-> p, n |-> posts + 1,
                           due |-> IF delay = None THEN 0 ELSE now + delay]]]
    /\ pc' = [pc EXCEPT ![p] = "enter"]
    /\ UNCHANGED <<fStop_, queueVars, crit_, fSignaled_, now, cpc, get, historyVars>>

(* Mutant of PostPush: the message goes to the front of the list.          *)
PostPushFront(p) ==
    /\ pc[p] = "enter" /\ arg[p].trigger = None /\ crit_ = None
    /\ crit_' = p
    /\ active_' = TRUE
    /\ msgq_' = <<arg[p].msg>> \o msgq_
    /\ arg' = [arg EXCEPT ![p] = NoArg]
    /\ pc' = [pc EXCEPT ![p] = "signal"]
    /\ UNCHANGED <<fStop_, fPeekKeep_, msgPeek_, dmsgq_, dmsgq_next_num_, fSignaled_,
                   now, posts, cpc, get, historyVars>>

(* Post: under crit_, EnsureActive and append.                             *)
PostPush(p) ==
    /\ pc[p] = "enter" /\ arg[p].trigger = None /\ crit_ = None
    /\ crit_' = p
    /\ active_' = TRUE
    /\ msgq_' = Append(msgq_, arg[p].msg)
    /\ arg' = [arg EXCEPT ![p] = NoArg]
    /\ pc' = [pc EXCEPT ![p] = "signal"]
    /\ UNCHANGED <<fStop_, fPeekKeep_, msgPeek_, dmsgq_, dmsgq_next_num_, fSignaled_,
                   now, posts, cpc, get, historyVars>>

(* DoDelayPost: under crit_, EnsureActive and push to the priority queue.  *)
DelayPush(p) ==
    /\ pc[p] = "enter" /\ arg[p].trigger # None /\ crit_ = None
    /\ crit_' = p
    /\ active_' = TRUE
    /\ dmsgq_' = dmsgq_ \cup {[msTrigger_ |-> arg[p].trigger,
                               num_ |-> dmsgq_next_num_, msg_ |-> arg[p].msg]}
    /\ dmsgq_next_num_' = dmsgq_next_num_ + 1
    /\ arg' = [arg EXCEPT ![p] = NoArg]
    /\ pc' = [pc EXCEPT ![p] = "signal"]
    /\ UNCHANGED <<fStop_, fPeekKeep_, msgPeek_, msgq_, fSignaled_, now, posts, cpc,
                   get, historyVars>>

(* ss_->WakeUp(), EventDispatcher::Signal, and the end of the CritScope.   *)
PostSignal(p) ==
    /\ pc[p] = "signal"
    /\ fSignaled_' = TRUE
    /\ crit_' = None
    /\ pc' = [pc EXCEPT ![p] = "idle"]
    /\ UNCHANGED <<fStop_, queueVars, now, arg, posts, cpc, get, historyVars>>

(* Quit, first half: no lock is taken.                                     *)
QuitSet(p) ==
    /\ pc[p] = "idle"
    /\ fStop_' = TRUE
    /\ pc' = [pc EXCEPT ![p] = "quitsignal"]
    /\ UNCHANGED <<queueVars, crit_, fSignaled_, now, arg, posts, cpc, get, historyVars>>

(* Quit, second half: WakeUp.                                              *)
QuitSignal(p) ==
    /\ pc[p] = "quitsignal"
    /\ fSignaled_' = TRUE
    /\ pc' = [pc EXCEPT ![p] = "idle"]
    /\ UNCHANGED <<fStop_, queueVars, crit_, now, arg, posts, cpc, get, historyVars>>

(* The destructor of handler h.  C++ object lifetime obliges the program   *)
(* not to destroy a handler that some thread still names.                  *)
Unnamed(h) == /\ \A p \in Clients : pc[p] = "enter" => arg[p].msg.phandler # h
              /\ cpc = "keep" => get.pmsg.phandler # h

Match(m, h) == m.phandler = h

(* MessageQueueManager::Clear only visits queues that became active.       *)
DestroyInactive(p, h) ==
    /\ pc[p] = "idle" /\ h \in alive /\ Unnamed(h) /\ ~active_
    /\ alive' = alive \ {h}
    /\ UNCHANGED <<fStop_, queueVars, crit_, fSignaled_, now, clientVars, cpc, get,
                   got>>

(* Mutant of ClearEnter: the message kept by Peek is forgotten.            *)
ClearKeepsPeeked(p, h) ==
    /\ pc[p] = "idle" /\ h \in alive /\ Unnamed(h) /\ active_ /\ crit_ = None
    /\ crit_' = p
    /\ alive' = alive \ {h}
    /\ dmsgq_' = {d \in dmsgq_ : ~Match(d.msg_, h)}
    /\ arg' = [arg EXCEPT ![p] = [clear |-> h]]
    /\ pc' = [pc EXCEPT ![p] = "clear"]
    /\ UNCHANGED <<fStop_, fPeekKeep_, msgPeek_, active_, msgq_, dmsgq_next_num_,
                   fSignaled_, now, posts, cpc, get, got>>

(* Clear: the peeked message and the priority queue, under crit_ ...       *)
ClearEnter(p, h) ==
    /\ pc[p] = "idle" /\ h \in alive /\ Unnamed(h) /\ active_ /\ crit_ = None
    /\ crit_' = p
    /\ alive' = alive \ {h}
    /\ fPeekKeep_' = (fPeekKeep_ /\ ~Match(msgPeek_, h))
    /\ dmsgq_' = {d \in dmsgq_ : ~Match(d.msg_, h)}
    /\ arg' = [arg EXCEPT ![p] = [clear |-> h]]
    /\ pc' = [pc EXCEPT ![p] = "clear"]
    /\ UNCHANGED <<fStop_, msgPeek_, active_, msgq_, dmsgq_next_num_, fSignaled_, now,
                   posts, cpc, get, got>>

(* ... then one round of the loop that erases from the list ...            *)
ClearErase(p) ==
    /\ pc[p] = "clear"
    /\ \E i \in DOMAIN msgq_ :
         /\ Match(msgq_[i], arg[p].clear)
         /\ msgq_' = SubSeq(msgq_, 1, i - 1) \o SubSeq(msgq_, i + 1, Len(msgq_))
    /\ UNCHANGED <<fStop_, fPeekKeep_, msgPeek_, active_, dmsgq_, dmsgq_next_num_,
                   crit_, fSignaled_, now, clientVars, cpc, get, historyVars>>

(* ... until no message of the handler is left.                            *)
ClearLeave(p) ==
    /\ pc[p] = "clear"
    /\ \A i \in DOMAIN msgq_ : ~Match(msgq_[i], arg[p].clear)
    /\ crit_' = None
    /\ pc' = [pc EXCEPT ![p] = "idle"]
    /\ arg' = [arg EXCEPT ![p] = NoArg]
    /\ UNCHANGED <<fStop_, queueVars, fSignaled_, now, posts, cpc, get, historyVars>>
-----------------------------------------------------------------------------
(* The consumer.                                                           *)

(* Get and Peek when a peeked message is kept: Get returns it and forgets  *)
(* it (Peek returns it and changes nothing).                               *)
GetPeeked ==
    /\ cpc = "out" /\ fPeekKeep_
    /\ fPeekKeep_' = FALSE
    /\ got' = Append(got, msgPeek_)
    /\ UNCHANGED <<fStop_, msgPeek_, active_, msgq_, dmsgq_, dmsgq_next_num_, crit_,
                   fSignaled_, now, clientVars, cpc, get, alive>>

GetCall(wait, peeking) ==
    /\ cpc = "out" /\ ~fPeekKeep_
    /\ get' = [NoGet EXCEPT !.cmsWait = wait, !.peeking = peeking,
                            !.msStart = Time, !.msCurrent = Time, !.read = now]
    /\ cpc' = "scan"
    /\ UNCHANGED <<fStop_, queueVars, crit_, fSignaled_, now, clientVars, historyVars>>

(* Enter crit_ on the first pass of the inner loop.                        *)
ScanEnter ==
    /\ cpc = "scan" /\ crit_ = None
    /\ crit_' = Consumer
    /\ cpc' = "move"
    /\ UNCHANGED <<fStop_, queueVars, fSignaled_, now, clientVars, get, historyVars>>

(* Mutant of ScanMove: a message moves one millisecond early.              *)
ScanMoveEarly ==
    /\ cpc = "move"
    /\ \E d \in dmsgq_ :
         /\ IsTop(d) /\ TimeDiff(d.msTrigger_, get.msCurrent) <= 1
         /\ msgq_' = Append(msgq_, d.msg_)
         /\ dmsgq_' = dmsgq_ \ {d}
    /\ UNCHANGED <<fStop_, fPeekKeep_, msgPeek_, active_, dmsgq_next_num_, crit_,
                   fSignaled_, now, clientVars, cpc, get, historyVars>>

(* A delayed message has been triggered: move it to the ready list.        *)
ScanMove ==
    /\ cpc = "move"
    /\ \E d \in dmsgq_ :
         /\ IsTop(d) /\ ~TimeIsLater(get.msCurrent, d.msTrigger_)
         /\ msgq_' = Append(msgq_, d.msg_)
         /\ dmsgq_' = dmsgq_ \ {d}
    /\ UNCHANGED <<fStop_, fPeekKeep_, msgPeek_, active_, dmsgq_next_num_, crit_,
                   fSignaled_, now, clientVars, cpc, get, historyVars>>

(* Mutant of ScanDone: the arguments of TimeDiff are swapped.              *)
ScanDoneSwapped ==
    /\ cpc = "move"
    /\ \/ dmsgq_ = {} /\ UNCHANGED get
       \/ \E d \in dmsgq_ :
            /\ IsTop(d) /\ TimeIsLater(get.msCurrent, d.msTrigger_)
            /\ get' = [get EXCEPT !.cmsDelayNext = TimeDiff(get.msCurrent, d.msTrigger_)]
    /\ cpc' = "pop"
    /\ UNCHANGED <<fStop_, queueVars, crit_, fSignaled_, now, clientVars, historyVars>>

(* None is left, or the top one is still to come.                          *)
ScanDone ==
    /\ cpc = "move"
    /\ \/ dmsgq_ = {} /\ UNCHANGED get
       \/ \E d \in dmsgq_ :
            /\ IsTop(d) /\ TimeIsLater(get.msCurrent, d.msTrigger_)
            /\ get' = [get EXCEPT !.cmsDelayNext = TimeDiff(d.msTrigger_, get.msCurrent)]
    /\ cpc' = "pop"
    /\ UNCHANGED <<fStop_, queueVars, crit_, fSignaled_, now, clientVars, historyVars>>

PopEmpty ==
    /\ cpc = "pop" /\ msgq_ = <<>>
    /\ crit_' = None
    /\ cpc' = "stopcheck"
    /\ UNCHANGED <<fStop_, queueVars, fSignaled_, now, clientVars, get, historyVars>>

(* Take the oldest message and leave crit_: Get returns it to its caller,  *)
(* Peek goes on to keep it, a disposal is dropped and the loop goes on.    *)
Pop ==
    /\ cpc = "pop" /\ msgq_ # <<>>
    /\ msgq_' = Tail(msgq_)
    /\ crit_' = None
    /\ LET m == Head(msgq_) IN
       IF m.message_id = "MQID_DISPOSE"
       THEN cpc' = "again" /\ UNCHANGED <<get, got>>
       ELSE IF get.peeking
       THEN /\ cpc' = "keep"
            /\ get' = [get EXCEPT !.pmsg = m]
            /\ UNCHANGED got
       ELSE cpc' = "out" /\ got' = Append(got, m) /\ get' = NoGet
    /\ UNCHANGED <<fStop_, fPeekKeep_, msgPeek_, active_, dmsgq_, dmsgq_next_num_,
                   fSignaled_, now, clientVars, alive>>

(* The next pass of the inner loop, which skips the delayed messages.      *)
PassEnter ==
    /\ cpc = "again" /\ crit_ = None
    /\ crit_' = Consumer
    /\ cpc' = "pop"
    /\ UNCHANGED <<fStop_, queueVars, fSignaled_, now, clientVars, get, historyVars>>

(* Peek stores what Get returned; it takes no lock.                        *)
PeekKeep ==
    /\ cpc = "keep"
    /\ msgPeek_' = get.pmsg
    /\ fPeekKeep_' = TRUE
    /\ get' = NoGet
    /\ cpc' = "out"
    /\ UNCHANGED <<fStop_, active_, msgq_, dmsgq_, dmsgq_next_num_, crit_, fSignaled_,
                   now, clientVars, historyVars>>

(* Mutant of CmsNext: an asked wait hides the delayed messages.            *)
CmsNextAsked(g) ==
    LET left == g.cmsWait - TimeDiff(g.msCurrent, g.msStart)
    IN  IF g.cmsWait = Forever THEN g.cmsDelayNext ELSE IF left > 0 THEN left ELSE 0

(* Which is shorter, the delay wait or the asked wait?                     *)
CmsNext(g) ==
    LET cmsElapsed == TimeDiff(g.msCurrent, g.msStart)
        asked == IF g.cmsWait - cmsElapsed > 0 THEN g.cmsWait - cmsElapsed ELSE 0
    IN  IF g.cmsWait = Forever THEN g.cmsDelayNext
        ELSE IF g.cmsDelayNext # Forever /\ g.cmsDelayNext < asked
             THEN g.cmsDelayNext ELSE asked

(* The unlocked test of fStop_ after the queue was seen empty.             *)
StopSeen ==
    /\ cpc = "stopcheck" /\ fStop_
    /\ cpc' = "stopped"
    /\ get' = NoGet
    /\ UNCHANGED <<fStop_, queueVars, crit_, fSignaled_, now, clientVars, historyVars>>

(* Mutant of WaitEnter: Wait drains the pipe before it sleeps.             *)
WaitDrains ==
    /\ cpc = "stopcheck" /\ ~fStop_
    /\ fSignaled_' = FALSE
    /\ get' = [get EXCEPT !.cmsNext = CmsNext(get), !.entered = now]
    /\ cpc' = "select"
    /\ UNCHANGED <<fStop_, queueVars, crit_, now, clientVars, historyVars>>

WaitEnter ==
    /\ cpc = "stopcheck" /\ ~fStop_
    /\ get' = [get EXCEPT !.cmsNext = CmsNext(get), !.entered = now]
    /\ cpc' = "select"
    /\ UNCHANGED <<fStop_, queueVars, crit_, fSignaled_, now, clientVars, historyVars>>

(* select() finds the pipe readable ...                                    *)
SelectReady ==
    /\ cpc = "select" /\ fSignaled_
    /\ cpc' = "preevent"
    /\ UNCHANGED <<fStop_, queueVars, crit_, fSignaled_, now, clientVars, get,
                   historyVars>>

(* ... OnPreEvent drains it; Signaler::OnEvent ends Wait's loop.           *)
PreEvent ==
    /\ cpc = "preevent"
    /\ fSignaled_' = FALSE
    /\ cpc' = "elapsed"
    /\ UNCHANGED <<fStop_, queueVars, crit_, now, clientVars, get, historyVars>>

SelectTimeout ==
    /\ cpc = "select" /\ ~fSignaled_
    /\ get.cmsNext # Forever /\ now >= get.entered + get.cmsNext
    /\ cpc' = "elapsed"
    /\ UNCHANGED <<fStop_, queueVars, crit_, fSignaled_, now, clientVars, get,
                   historyVars>>

(* select() fails: Wait, and with it Get, returns false.                   *)
SelectError ==
    /\ cpc = "select"
    /\ cpc' = "out"
    /\ get' = NoGet
    /\ UNCHANGED <<fStop_, queueVars, crit_, fSignaled_, now, clientVars, historyVars>>

(* After Wait: read the clock and give up if the asked wait has passed.    *)
Elapsed ==
    /\ cpc = "elapsed"
    /\ IF get.cmsWait # Forever /\ TimeDiff(Time, get.msStart) >= get.cmsWait
       THEN cpc' = "out" /\ get' = NoGet
       ELSE /\ cpc' = "scan"
            /\ get' = [get EXCEPT !.msCurrent = Time, !.read = now, !.entered = 0,
                                  !.cmsDelayNext = Forever, !.cmsNext = Forever]
    /\ UNCHANGED <<fStop_, queueVars, crit_, fSignaled_, now, clientVars, historyVars>>

(* Restart of a queue whose thread has left the message loop.              *)
Restart ==
    /\ cpc = "stopped"
    /\ fStop_' = FALSE
    /\ cpc' = "out"
    /\ UNCHANGED <<queueVars, crit_, fSignaled_, now, clientVars, get, got, alive>>

Tick ==
    /\ now < MaxTime
    /\ now' = now + 1
    /\ UNCHANGED <<fStop_, queueVars, crit_, fSignaled_, clientVars, cpc, get,
                   historyVars>>
-----------------------------------------------------------------------------
ClientStep(p) == PostPush(p) \/ DelayPush(p) \/ PostSignal(p) \/ QuitSignal(p)
                 \/ ClearErase(p) \/ ClearLeave(p)

ClientCall(p) ==
    \/ \E h \in alive, delay \in Delays \cup {None} : PostCall(p, h, "user", delay)
    \/ PostCall(p, None, "MQID_DISPOSE", None)
    \/ QuitSet(p)
    \/ \E h \in alive : DestroyInactive(p, h) \/ ClearEnter(p, h)

GetStep == ScanEnter \/ ScanMove \/ ScanDone \/ PopEmpty \/ Pop \/ PassEnter \/ PeekKeep
           \/ StopSeen \/ WaitEnter \/ SelectReady \/ PreEvent \/ SelectTimeout \/ Elapsed

Get == GetPeeked \/ \E wait \in Waits : GetCall(wait, FALSE)

Next ==
    \/ \E p \in Clients : ClientStep(p) \/ ClientCall(p)
    \/ GetStep
    \/ Get
    \/ \E wait \in Waits : GetCall(wait, TRUE)
    \/ SelectError
    \/ Restart
    \/ Tick

Spec == Init /\ [][Next]_vars
-----------------------------------------------------------------------------
PostArg == [trigger : uint32 \cup {None}, msg : Message]
ClearArg == [clear : Handlers]

GetLocals == [cmsWait : Nat \cup {Forever}, msStart : uint32, msCurrent : uint32,
              read : Nat, peeking : BOOLEAN, cmsDelayNext : {Forever} \cup 1 .. HALF - 1,
              cmsNext : Nat \cup {Forever}, entered : Nat,
              pmsg : Message \cup {NoMessage}]

TypeOK ==
    /\ fStop_ \in BOOLEAN /\ active_ \in BOOLEAN /\ fSignaled_ \in BOOLEAN
    /\ fPeekKeep_ \in BOOLEAN /\ msgPeek_ \in Message \cup {NoMessage}
    /\ fPeekKeep_ => msgPeek_ \in Message
    /\ msgq_ \in Seq(Message) /\ dmsgq_ \subseteq DelayedMessage
    /\ dmsgq_next_num_ \in Nat /\ now \in Nat /\ posts \in 0 .. MaxPosts
    /\ crit_ \in Clients \cup {Consumer, None}
    /\ pc \in [Clients -> {"idle", "enter", "signal", "quitsignal", "clear"}]
    /\ arg \in [Clients -> {NoArg} \cup PostArg \cup ClearArg]
    /\ \A p \in Clients : /\ pc[p] = "enter" => arg[p] \in PostArg
                          /\ pc[p] = "clear" => arg[p] \in ClearArg
    /\ cpc \in {"out", "scan", "move", "pop", "again", "keep", "stopcheck", "stopped",
                "select", "preevent", "elapsed"}
    /\ get \in GetLocals /\ (cpc = "keep" => get.pmsg \in Message)
    /\ got \in Seq(Message) /\ alive \subseteq Handlers

(* A byte is in the pipe or a thread is on its way to write one.           *)
WakeUpPending == fSignaled_ \/ \E p \in Clients : pc[p] \in {"signal", "quitsignal"}

(* No lost wake-up: the consumer never sleeps in select() over a ready     *)
(* message, or over a Quit, with nobody about to wake it, however Post,    *)
(* Quit and Clear interleave with Get between its unlock and its select(). *)
NoLostWakeup ==
    cpc = "select" /\ (msgq_ # <<>> \/ fStop_) => WakeUpPending

(* Get sleeps past the true time of a delayed message by no more than the  *)
(* time that went by between its last look at the clock and select(): the  *)
(* timeout is computed from that look (messagequeue.cpp:217, 256-264) and  *)
(* starts to count in select().  A message posted since, due before those  *)
(* that the timeout was computed from, wakes it.                           *)
WakeAt == get.entered + get.cmsNext
Lag == get.entered - get.read

DelayCovered ==
    cpc = "select" /\ ~WakeUpPending =>
        \A d \in dmsgq_ : get.cmsNext # Forever /\ WakeAt <= d.msg_.due + Lag

(* Get never returns a delayed message before its trigger time, although   *)
(* it decides on a clock reading taken before it took crit_.               *)
NeverEarly == \A i \in DOMAIN got : got[i].due <= now

(* Two immediate posts of a thread reach Get in the order of the calls,    *)
(* whatever is cleared, peeked or disposed of in between: what was already *)
(* returned precedes what is kept by Peek, which precedes the ready list.  *)
InOrder == got \o (IF cpc = "keep" THEN <<get.pmsg>> ELSE <<>>)
               \o (IF fPeekKeep_ THEN <<msgPeek_>> ELSE <<>>) \o msgq_

PostOrder ==
    \A i, j \in DOMAIN InOrder :
        i < j /\ InOrder[i].src = InOrder[j].src
              /\ InOrder[i].due = 0 /\ InOrder[j].due = 0
        => InOrder[i].n < InOrder[j].n

(* A handler whose destructor has run is named by no message of the queue: *)
(* ~MessageHandler relies on the manager knowing every queue that was ever *)
(* posted to.                                                              *)
DestroyedUnreachable ==
    \A h \in Handlers \ alive :
        \/ \E p \in Clients : pc[p] = "clear" /\ arg[p].clear = h
        \/ /\ \A i \in DOMAIN msgq_ : msgq_[i].phandler # h
           /\ \A d \in dmsgq_ : d.msg_.phandler # h
           /\ fPeekKeep_ => msgPeek_.phandler # h

(* messagequeue.h: "DelayedMessage goes into a priority queue, sorted by   *)
(* trigger time.  Messages with the same trigger time are processed in     *)
(* num_ (FIFO) order."                                                     *)
DelayedOrder ==
    [][cpc = "move" => \A d \in dmsgq_ \ dmsgq_', e \in dmsgq_' :
          \/ d.msg_.due < e.msg_.due
          \/ d.msg_.due = e.msg_.due /\ d.num_ < e.num_]_vars
=============================================================================
