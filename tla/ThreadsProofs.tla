--------------------------- MODULE ThreadsProofs ---------------------------
(***************************************************************************)
(* The invariants of module Threads, for any number of threads, foreign    *)
(* threads, handlers and calls.  The inductive invariant has seven parts:  *)
(*   Typed    types, and which calls may be nested in which;               *)
(*   Locks    who holds crit_ and the manager's lock follows from what it  *)
(*            is in;                                                       *)
(*   Queues   a queue that holds something is known to the manager;        *)
(*   Clears   a queue names a destroyed handler only while Clear is on its *)
(*            way to it;                                                   *)
(*   Sends    one thread is in send n, which is offered, queued, answered  *)
(*            or ready, one at a time;                                     *)
(*   Kept     a Send that has queued its message is queued, answered or    *)
(*            ready until it returns, and no thread is in a send twice;    *)
(*   Wakes    whoever has something to do, or a Send that it is in that is *)
(*            ready, will be woken.                                        *)
(* A step changes one stack, by one or two calls at its top: Moved says so *)
(* once for every action, and the lemmas on each part start from it.       *)
(***************************************************************************)
EXTENDS Threads, SelectionProofs

(* A call that has called another one, which it waits for.                 *)
Resting(f) == \/ f.call = "ProcessMessages" /\ f.at \in {"pop", "get"}
              \/ f.call = "Send" /\ f.at = "wait"
              \/ f.call = "ReceiveSends" /\ f.at = "reply"
              \/ f.call = "OnMessage"

(* ... and that called is ReceiveSends.                                    *)
Serving(f) == \/ f.call = "ProcessMessages" /\ f.at = "pop"
              \/ f.call = "Send" /\ f.at = "wait"

(* ReceiveSends that runs, or has run, the handler of a send knows whose.  *)
Told(f) == f.call = "ReceiveSends" /\ f.at \in {"reply", "signal"} => f.n # 0 /\ f.from # None

(* Which calls there may be on a stack, and in which order.                *)
Shape ==
    \A x \in All : \A i \in DOMAIN stack[x] :
        /\ i > 1 => Resting(stack[x][i])
        /\ i > 1 /\ Serving(stack[x][i]) => stack[x][i - 1].call = "ReceiveSends"
        /\ stack[x][i].call = "ProcessMessages" => i = Len(stack[x])
        /\ x \in Foreign => /\ stack[x][i].call \in {"Send", "Post", "Clear", "ReceiveSends"}
                            /\ stack[x][i].call = "ReceiveSends" => stack[x][i].at = "check"
        /\ Told(stack[x][i])

(* x is in EnsureActive for the queue of t, with its crit_ held.           *)
Adding(x, t) == /\ In(x, "Send", "add") \/ In(x, "Post", "add")
                /\ Head(stack[x]).to = t

(* The manager knows the queue of t.                                       *)
Known(t) == \E i \in DOMAIN message_queues_ : message_queues_[i] = t

(* Who holds which lock follows from what it is in, and what the manager   *)
(* knows is active and not being added.                                    *)
Locks ==
    /\ \A t \in Threads, x \in All :
         crit_[t] = x <=> Adding(x, t) \/ (x = t /\ In(t, "ReceiveSends", "signal"))
    /\ \A x \in All : manager_crit_ = x <=> In(x, "Clear", "next")
    /\ \A x \in All : In(x, "Clear", "next") =>
         \A i \in DOMAIN Head(stack[x]).todo : Known(Head(stack[x]).todo[i])
    /\ \A t \in Threads : Known(t) => active_[t] /\ \A x \in All : ~Adding(x, t)
    /\ \A t \in Threads, x \in All : Adding(x, t) => active_[t]

(* A message or a send of handler h is in the queue of t.                  *)
Names(t, h) == \/ \E i \in DOMAIN sendlist_[t] : sendlist_[t][i].h = h
               \/ \E i \in DOMAIN msgq_[t] : msgq_[t][i].h = h

(* A call that is about to name its handler in a queue.                    *)
Entry(f) == f.call \in {"Send", "Post"} /\ f.at \in {"enter", "add"}

(* Queues that hold something are known to the manager ... *)
Queues ==
    \A t \in Threads :
        /\ owner[t] # "runs" => fStop_[t]
        /\ owner[t] \in {"removes", "gone"} => Untouched(t)
        /\ active_[t] => Known(t) \/ (\E x \in All : Adding(x, t)) \/ owner[t] = "gone"
        /\ msgq_[t] # <<>> \/ sendlist_[t] # <<>> =>
             Known(t) /\ owner[t] \notin {"removes", "gone"}

(* ... and the destructor of a handler that some queue names is on its way *)
(* to it.                                                                  *)
Clears ==
    /\ \A x \in All : \A i \in DOMAIN stack[x] : Entry(stack[x][i]) => stack[x][i].h \in alive
    /\ \A h \in Handlers \ alive : \A t \in Threads : Names(t, h) =>
         \E x \in All : /\ In(x, "Clear", "next") /\ Head(stack[x]).h = h
                        /\ \E i \in DOMAIN Head(stack[x]).todo : Head(stack[x]).todo[i] = t

(* A send is offered by its sender until it is queued, listed until it is   *)
(* taken or cleared, and answered while its handler runs.                  *)
IsSend(f, n) == f.call = "Send" /\ f.n = n

(* x is in send n and has not queued it yet.                               *)
Offering(x, n) == (In(x, "Send", "enter") \/ In(x, "Send", "add")) /\ Head(stack[x]).n = n

(* Send n is in some sendlist_.                                            *)
Queued(n) == \E t \in Threads : \E i \in DOMAIN sendlist_[t] : sendlist_[t][i].n = n

(* f is the ReceiveSends in which the handler of send n runs.              *)
Answering(f, n) == f.call = "ReceiveSends" /\ f.at = "reply" /\ f.n = n

(* The handler of send n runs somewhere.                                   *)
Answered(n) == \E t \in All : \E i \in DOMAIN stack[t] : Answering(stack[t][i], n)

(* Everything that is true of send n: one thread is in it, and it is        *)
(* offered, listed or answered once, in one of these ways only, and not    *)
(* ready then.                                                             *)
OneSender(n) ==
    /\ \A x, y \in All : InSend(x, n) /\ InSend(y, n) => x = y
    /\ (\E x \in All : InSend(x, n)) \/ n \in ready => n <= sends

(* What is being offered is not yet ready, queued or answered.             *)
Offered(n) == \A x \in All : Offering(x, n) => n \notin ready /\ ~Queued(n) /\ ~Answered(n)

(* What is queued has its sender waiting, and is neither ready nor         *)
(* answered.                                                               *)
Listed(n) == \A t \in Threads : \A i \in DOMAIN sendlist_[t] : sendlist_[t][i].n = n =>
                InSend(sendlist_[t][i].from, n) /\ n \notin ready /\ ~Answered(n)

(* A send is in one place of one list.                                     *)
ListedOnce(n) ==
    \A t, u \in Threads : \A i \in DOMAIN sendlist_[t], j \in DOMAIN sendlist_[u] :
        sendlist_[t][i].n = n /\ sendlist_[u][j].n = n => t = u /\ i = j

(* What is being answered has its sender waiting, and is not ready.        *)
Owed(n) == \A x \in All : \A i \in DOMAIN stack[x] : Answering(stack[x][i], n) =>
              InSend(stack[x][i].from, n) /\ n \notin ready

(* A send is answered by one call only.                                    *)
AnsweredOnce(n) ==
    \A x, y \in All : \A i \in DOMAIN stack[x], j \in DOMAIN stack[y] :
        Answering(stack[x][i], n) /\ Answering(stack[y][j], n) => x = y /\ i = j

(* All of this about send n, ...                                           *)
SendOk(n) == OneSender(n) /\ Offered(n) /\ Listed(n) /\ ListedOnce(n) /\ Owed(n) /\ AnsweredOnce(n)

(* ... and about every send.                                               *)
Sends == \A n : SendOk(n)

(* Nobody sends to a thread that has no message loop.                      *)
ForeignQuiet == \A x \in Foreign : ~has_sends_[x]

(* What the two lists of a thread hold. *)
PostMsg == [n : PostIds, h : Handlers]

(* What a sendlist_ holds.                                                 *)
SendMsg == [n : SendIds, from : All, h : Handlers]

(* TypeOK but for who holds crit_, with the stacks as sequences.           *)
TypeInv ==
    /\ fStop_ \in [Threads -> BOOLEAN] /\ active_ \in [Threads -> BOOLEAN]
    /\ msgq_ \in [Threads -> Seq(PostMsg)]
    /\ crit_ \in [Threads -> All \cup {None}] /\ manager_crit_ \in All \cup {None}
    /\ sendlist_ \in [Threads -> Seq(SendMsg)]
    /\ has_sends_ \in [All -> BOOLEAN] /\ fSignaled_ \in [All -> BOOLEAN]
    /\ message_queues_ \in Seq(Threads)
    /\ stack \in [All -> Seq(Frame)]
    /\ ready \subseteq SendIds
    /\ owner \in [Threads -> {"runs", "quits", "joins", "removes", "gone"}]
    /\ load \in Loads /\ alive \subseteq Handlers
    /\ sends \in 0 .. load.sends /\ posts \in 0 .. load.posts
-----------------------------------------------------------------------------
(* The six kinds of calls, ...                                             *)
LoopFrame == [call : {"ProcessMessages"}, at : {"get", "pop", "stop", "wait"}]

(* ... a handler, ...                                                      *)
MessageFrame == [call : {"OnMessage"}, at : {"body"}, h : Handlers]

(* ... Send, ...                                                           *)
SendFrame == [call : {"Send"}, at : {"enter", "add", "wake", "test", "wait"}, n : SendIds,
              to : Threads, h : Handlers, waited : BOOLEAN]

(* ... Post, ...                                                           *)
PostFrame == [call : {"Post"}, at : {"enter", "add"}, n : PostIds, to : Threads, h : Handlers]

(* ... ReceiveSends, ...                                                   *)
ReceiveFrame == [call : {"ReceiveSends"}, at : {"check", "next", "reply", "signal"},
                 n : {0} \cup SendIds, from : All \cup {None}]

(* ... and Clear.                                                          *)
ClearFrame == [call : {"Clear"}, at : {"next"}, h : Handlers, todo : Seq(Threads)]

(* The kind of a call tells which of its fields there are.                 *)
LEMMA FrameKinds ==
    /\ Frame = LoopFrame \cup MessageFrame \cup SendFrame \cup PostFrame \cup ReceiveFrame
                \cup ClearFrame
    /\ \A f \in Frame :
         /\ f.call = "ProcessMessages" => f \in LoopFrame
         /\ f.call = "OnMessage" => f \in MessageFrame
         /\ f.call = "Send" => f \in SendFrame
         /\ f.call = "Post" => f \in PostFrame
         /\ f.call = "ReceiveSends" => f \in ReceiveFrame
         /\ f.call = "Clear" => f \in ClearFrame
<1>1. Frame = LoopFrame \cup MessageFrame \cup SendFrame \cup PostFrame \cup ReceiveFrame
                \cup ClearFrame
  BY Zenon DEF Frame, LoopFrame, MessageFrame, SendFrame, PostFrame, ReceiveFrame, ClearFrame
<1>2. /\ \A f \in LoopFrame : f.call = "ProcessMessages"
      /\ \A f \in MessageFrame : f.call = "OnMessage"
      /\ \A f \in SendFrame : f.call = "Send"
      /\ \A f \in PostFrame : f.call = "Post"
      /\ \A f \in ReceiveFrame : f.call = "ReceiveSends"
      /\ \A f \in ClearFrame : f.call = "Clear"
  BY DEF LoopFrame, MessageFrame, SendFrame, PostFrame, ReceiveFrame, ClearFrame
<1> QED
  BY <1>1, <1>2

(* The calls that are made are calls.                                      *)
LEMMA NewFrames ==
    ASSUME NEW h \in Handlers, NEW to \in Threads
    PROVE  /\ OnMessage(h) \in MessageFrame
           /\ \A n \in SendIds : Send(n, to, h) \in SendFrame
           /\ \A n \in PostIds : Post(n, to, h) \in PostFrame
           /\ message_queues_ \in Seq(Threads) => Clear(h) \in ClearFrame
  BY DEF OnMessage, Send, Post, Clear, MessageFrame, SendFrame, PostFrame, ClearFrame

(* So is the ReceiveSends that Get and Send call.                          *)
LEMMA NewReceive ==
    /\ ReceiveSends \in ReceiveFrame /\ ReceiveSends.at = "check"
    /\ [ReceiveSends EXCEPT !.at = "next"] \in ReceiveFrame
    /\ [ReceiveSends EXCEPT !.at = "next"].at = "next"
  BY DEF ReceiveSends, ReceiveFrame

(* So is a place in Get.                                                   *)
LEMMA LoopFrames ==
    \A a \in {"get", "pop", "stop", "wait"} : Loop(a) \in LoopFrame /\ Loop(a).at = a
  BY DEF Loop, LoopFrame

(* A Send that goes on keeps its fields.                                   *)
LEMMA SendAt ==
    ASSUME NEW f \in SendFrame, NEW a \in {"enter", "add", "wake", "test", "wait"}
    PROVE  LET g == [f EXCEPT !.at = a] IN
           /\ g \in SendFrame /\ g.call = "Send" /\ g.at = a /\ g.n = f.n /\ g.to = f.to
           /\ g.h = f.h /\ g.waited = f.waited
  BY DEF SendFrame

(* A Send that has waited keeps its other fields.                          *)
LEMMA SendWaited ==
    ASSUME NEW f \in SendFrame
    PROVE  LET g == [f EXCEPT !.at = "test", !.waited = TRUE] IN
           /\ g \in SendFrame /\ g.call = "Send" /\ g.at = "test" /\ g.n = f.n /\ g.to = f.to
           /\ g.h = f.h /\ g.waited
  BY DEF SendFrame

(* A Post that goes on keeps its fields.                                   *)
LEMMA PostAt ==
    ASSUME NEW f \in PostFrame
    PROVE  LET g == [f EXCEPT !.at = "add"] IN
           /\ g \in PostFrame /\ g.call = "Post" /\ g.at = "add" /\ g.n = f.n /\ g.to = f.to
           /\ g.h = f.h
  BY DEF PostFrame

(* A ReceiveSends that goes on keeps its fields, or takes those of a send. *)
LEMMA ReceiveAt ==
    ASSUME NEW f \in ReceiveFrame, NEW a \in {"check", "next", "reply", "signal"}
    PROVE  LET g == [f EXCEPT !.at = a] IN
           /\ g \in ReceiveFrame /\ g.call = "ReceiveSends" /\ g.at = a /\ g.n = f.n
           /\ g.from = f.from
  BY DEF ReceiveFrame

(* Clear goes on with the rest of the queues.                              *)
LEMMA ClearRest ==
    ASSUME NEW f \in ClearFrame, f.todo # <<>>
    PROVE  LET g == [f EXCEPT !.todo = Tail(@)] IN
           /\ g \in ClearFrame /\ g.call = "Clear" /\ g.at = "next" /\ g.h = f.h
           /\ g.todo = Tail(f.todo)
  BY DEF ClearFrame
-----------------------------------------------------------------------------
(* The stack of x has k new calls on top, and below them what was there    *)
(* from position k + 1 + d on.                                             *)
Moved(x, k, d) ==
    /\ stack' \in [All -> Seq(Frame)]
    /\ \A y \in All : y # x => stack'[y] = stack[y]
    /\ Len(stack'[x]) = Len(stack[x]) - d
    /\ \A i \in 1 .. k : i \in DOMAIN stack'[x]
    /\ \A i \in DOMAIN stack'[x] : i > k =>
         i + d \in DOMAIN stack[x] /\ stack'[x][i] = stack[x][i + d]
    /\ \A j \in DOMAIN stack[x] : j > k + d =>
         j - d \in DOMAIN stack'[x] /\ stack'[x][j - d] = stack[x][j]

(* The positions of a sequence, and its first element.                     *)
LEMMA SeqFacts ==
    ASSUME NEW S, NEW s \in Seq(S)
    PROVE  /\ DOMAIN s = 1 .. Len(s) /\ Len(s) \in Nat
           /\ \A i \in DOMAIN s : s[i] \in S /\ i \in Nat /\ i >= 1
           /\ s # <<>> => Head(s) = s[1] /\ 1 \in DOMAIN s /\ Len(s) >= 1
           /\ s = <<>> => DOMAIN s = {}
  OBVIOUS

(* A call that goes on replaces the innermost one.                         *)
LEMMA GoesMoves ==
    ASSUME stack \in [All -> Seq(Frame)], NEW x \in All, stack[x] # <<>>, NEW f \in Frame,
           Goes(x, f)
    PROVE  Moved(x, 1, 0) /\ stack'[x][1] = f
<1> DEFINE r == <<f>> \o Tail(stack[x])
<1>0. stack[x] \in Seq(Frame) /\ Len(stack[x]) \in Nat /\ Len(stack[x]) >= 1
      /\ DOMAIN stack[x] = 1 .. Len(stack[x])
  OBVIOUS
<1>1. /\ r \in Seq(Frame) /\ Len(r) = Len(stack[x]) /\ DOMAIN r = 1 .. Len(stack[x]) /\ r[1] = f
      /\ \A i \in DOMAIN r : i > 1 => r[i] = stack[x][i]
  BY <1>0
<1>2. /\ stack'[x] = r /\ \A y \in All : y # x => stack'[y] = stack[y]
      /\ stack' \in [All -> Seq(Frame)]
  BY <1>1 DEF Goes
<1> HIDE DEF r
<1>3. \A i \in 1 .. 1 : i \in DOMAIN r
  BY <1>0, <1>1
<1>4. /\ \A i \in DOMAIN r : i > 1 => i + 0 \in DOMAIN stack[x] /\ r[i] = stack[x][i + 0]
      /\ \A j \in DOMAIN stack[x] : j > 1 + 0 => j - 0 \in DOMAIN r /\ r[j - 0] = stack[x][j]
      /\ Len(r) = Len(stack[x]) - 0
  BY <1>0, <1>1
<1> QED
  BY <1>1, <1>2, <1>3, <1>4 DEF Moved

(* A call that calls another puts it on top of itself.                     *)
LEMMA CallsMoves ==
    ASSUME stack \in [All -> Seq(Frame)], NEW x \in All, stack[x] # <<>>, NEW f \in Frame,
           NEW g \in Frame, Calls(x, f, g)
    PROVE  Moved(x, 2, -1) /\ stack'[x][1] = g /\ stack'[x][2] = f
<1> DEFINE r == <<g, f>> \o Tail(stack[x])
<1>0. stack[x] \in Seq(Frame) /\ Len(stack[x]) \in Nat /\ Len(stack[x]) >= 1
      /\ DOMAIN stack[x] = 1 .. Len(stack[x])
  OBVIOUS
<1>1. /\ r \in Seq(Frame) /\ Len(r) = Len(stack[x]) + 1 /\ DOMAIN r = 1 .. Len(stack[x]) + 1
      /\ r[1] = g /\ r[2] = f
      /\ \A i \in DOMAIN r : i > 2 => r[i] = stack[x][i - 1]
  BY <1>0
<1>2. /\ stack'[x] = r /\ \A y \in All : y # x => stack'[y] = stack[y]
      /\ stack' \in [All -> Seq(Frame)]
  BY <1>1 DEF Calls
<1> HIDE DEF r
<1>3. \A i \in 1 .. 2 : i \in DOMAIN r
  BY <1>0, <1>1
<1>4. \A i \in DOMAIN r : i > 2 => i + (-1) \in DOMAIN stack[x] /\ r[i] = stack[x][i + (-1)]
  <2> SUFFICES ASSUME NEW i \in DOMAIN r, i > 2
               PROVE  i + (-1) \in DOMAIN stack[x] /\ r[i] = stack[x][i + (-1)]
    OBVIOUS
  <2>1. i + (-1) = i - 1 /\ i - 1 \in DOMAIN stack[x]
    BY <1>0, <1>1
  <2> QED
    BY <2>1, <1>1
<1>5. \A j \in DOMAIN stack[x] : j > 2 + (-1) =>
         j - (-1) \in DOMAIN r /\ r[j - (-1)] = stack[x][j]
  <2> SUFFICES ASSUME NEW j \in DOMAIN stack[x], j > 2 + (-1)
               PROVE  j - (-1) \in DOMAIN r /\ r[j - (-1)] = stack[x][j]
    OBVIOUS
  <2>1. j - (-1) = j + 1 /\ j + 1 \in DOMAIN r /\ j + 1 > 2 /\ (j + 1) - 1 = j
    BY <1>0, <1>1
  <2>2. r[j + 1] = stack[x][(j + 1) - 1]
    BY <2>1, <1>1
  <2> QED
    BY <2>1, <2>2
<1>6. Len(r) = Len(stack[x]) - (-1)
  BY <1>0, <1>1
<1> QED
  BY <1>1, <1>2, <1>3, <1>4, <1>5, <1>6 DEF Moved

(* A call that returns uncovers the one below.                             *)
LEMMA ReturnsMoves ==
    ASSUME stack \in [All -> Seq(Frame)], NEW x \in All, stack[x] # <<>>, Returns(x)
    PROVE  Moved(x, 0, 1)
<1> DEFINE r == Tail(stack[x])
<1>0. stack[x] \in Seq(Frame) /\ Len(stack[x]) \in Nat /\ Len(stack[x]) >= 1
      /\ DOMAIN stack[x] = 1 .. Len(stack[x])
  OBVIOUS
<1>1. /\ r \in Seq(Frame) /\ Len(r) = Len(stack[x]) - 1 /\ DOMAIN r = 1 .. Len(stack[x]) - 1
      /\ \A i \in DOMAIN r : r[i] = stack[x][i + 1]
  BY <1>0
<1>2. /\ stack'[x] = r /\ \A y \in All : y # x => stack'[y] = stack[y]
      /\ stack' \in [All -> Seq(Frame)]
  BY <1>1 DEF Returns
<1> HIDE DEF r
<1>3. \A i \in 1 .. 0 : i \in DOMAIN r
  OBVIOUS
<1>4. \A i \in DOMAIN r : i > 0 => i + 1 \in DOMAIN stack[x] /\ r[i] = stack[x][i + 1]
  BY <1>0, <1>1
<1>5. \A j \in DOMAIN stack[x] : j > 0 + 1 => j - 1 \in DOMAIN r /\ r[j - 1] = stack[x][j]
  <2> SUFFICES ASSUME NEW j \in DOMAIN stack[x], j > 0 + 1
               PROVE  j - 1 \in DOMAIN r /\ r[j - 1] = stack[x][j]
    OBVIOUS
  <2>1. j - 1 \in DOMAIN r /\ (j - 1) + 1 = j
    BY <1>0, <1>1
  <2> QED
    BY <2>1, <1>1
<1> QED
  BY <1>1, <1>2, <1>3, <1>4, <1>5 DEF Moved

(* A call that is made goes on top of the others.                          *)
LEMMA EntersMoves ==
    ASSUME stack \in [All -> Seq(Frame)], NEW x \in All, NEW f \in Frame, Enters(x, f)
    PROVE  Moved(x, 1, -1) /\ stack'[x][1] = f
<1> DEFINE r == <<f>> \o stack[x]
<1>0. stack[x] \in Seq(Frame) /\ Len(stack[x]) \in Nat /\ DOMAIN stack[x] = 1 .. Len(stack[x])
  OBVIOUS
<1>1. /\ r \in Seq(Frame) /\ Len(r) = Len(stack[x]) + 1 /\ DOMAIN r = 1 .. Len(stack[x]) + 1
      /\ r[1] = f
      /\ \A i \in DOMAIN r : i > 1 => r[i] = stack[x][i - 1]
  BY <1>0
<1>2. /\ stack'[x] = r /\ \A y \in All : y # x => stack'[y] = stack[y]
      /\ stack' \in [All -> Seq(Frame)]
  BY <1>1 DEF Enters
<1> HIDE DEF r
<1>3. \A i \in 1 .. 1 : i \in DOMAIN r
  BY <1>0, <1>1
<1>4. \A i \in DOMAIN r : i > 1 => i + (-1) \in DOMAIN stack[x] /\ r[i] = stack[x][i + (-1)]
  <2> SUFFICES ASSUME NEW i \in DOMAIN r, i > 1
               PROVE  i + (-1) \in DOMAIN stack[x] /\ r[i] = stack[x][i + (-1)]
    OBVIOUS
  <2>1. i + (-1) = i - 1 /\ i - 1 \in DOMAIN stack[x]
    BY <1>0, <1>1
  <2> QED
    BY <2>1, <1>1
<1>5. \A j \in DOMAIN stack[x] : j > 1 + (-1) =>
         j - (-1) \in DOMAIN r /\ r[j - (-1)] = stack[x][j]
  <2> SUFFICES ASSUME NEW j \in DOMAIN stack[x], j > 1 + (-1)
               PROVE  j - (-1) \in DOMAIN r /\ r[j - (-1)] = stack[x][j]
    OBVIOUS
  <2>1. j - (-1) = j + 1 /\ j + 1 \in DOMAIN r /\ j + 1 > 1 /\ (j + 1) - 1 = j
    BY <1>0, <1>1
  <2>2. r[j + 1] = stack[x][(j + 1) - 1]
    BY <2>1, <1>1
  <2> QED
    BY <2>1, <2>2
<1>6. Len(r) = Len(stack[x]) - (-1)
  BY <1>0, <1>1
<1> QED
  BY <1>1, <1>2, <1>3, <1>4, <1>5, <1>6 DEF Moved

-----------------------------------------------------------------------------
(* In speaks of the first position of a stack, ...                         *)
LEMMA InTop ==
    ASSUME stack \in [All -> Seq(Frame)], NEW x \in All, NEW c, NEW a
    PROVE  /\ In(x, c, a) <=> 1 \in DOMAIN stack[x] /\ stack[x][1].call = c /\ stack[x][1].at = a
           /\ 1 \in DOMAIN stack[x] <=> stack[x] # <<>>
           /\ 1 \in DOMAIN stack[x] => Head(stack[x]) = stack[x][1] /\ stack[x][1] \in Frame
<1>1. stack[x] \in Seq(Frame)
  OBVIOUS
<1> QED
  BY <1>1, SeqFacts DEF In

(* ... after a step as well.                                               *)
LEMMA InTopNext ==
    ASSUME stack' \in [All -> Seq(Frame')], NEW x \in All, NEW c, NEW a
    PROVE  /\ In(x, c, a)' <=> 1 \in DOMAIN stack'[x] /\ stack'[x][1].call = c /\ stack'[x][1].at = a
           /\ 1 \in DOMAIN stack'[x] <=> stack'[x] # <<>>
           /\ 1 \in DOMAIN stack'[x] => Head(stack'[x]) = stack'[x][1] /\ stack'[x][1] \in Frame'
<1>1. stack'[x] \in Seq(Frame')
  OBVIOUS
<1> QED
  BY <1>1, SeqFacts DEF In
-----------------------------------------------------------------------------
(* The positions of a stack, ...                                           *)
LEMMA Positions ==
    ASSUME stack \in [All -> Seq(Frame)], NEW x \in All
    PROVE  /\ DOMAIN stack[x] = 1 .. Len(stack[x]) /\ Len(stack[x]) \in Nat
           /\ \A i \in DOMAIN stack[x] : i \in Nat /\ i >= 1 /\ i <= Len(stack[x])
                                         /\ stack[x][i] \in Frame
<1>1. stack[x] \in Seq(Frame)
  OBVIOUS
<1> QED
  BY <1>1, SeqFacts

(* ... and after a step.                                                   *)
LEMMA PositionsNext ==
    ASSUME NEW x \in All, NEW k, NEW d, Moved(x, k, d)
    PROVE  /\ DOMAIN stack'[x] = 1 .. Len(stack'[x]) /\ Len(stack'[x]) \in Nat
           /\ \A i \in DOMAIN stack'[x] : i \in Nat /\ i >= 1 /\ i <= Len(stack'[x])
                                         /\ stack'[x][i] \in Frame
<1>1. stack'[x] \in Seq(Frame)
  BY DEF Moved
<1> QED
  BY <1>1, SeqFacts

(* Shape of one call on the stack s of x. *)
ShapeAt(x, s, i) ==
    /\ i > 1 => Resting(s[i])
    /\ i > 1 /\ Serving(s[i]) => s[i - 1].call = "ReceiveSends"
    /\ s[i].call = "ProcessMessages" => i = Len(s)
    /\ x \in Foreign => /\ s[i].call \in {"Send", "Post", "Clear", "ReceiveSends"}
                        /\ s[i].call = "ReceiveSends" => s[i].at = "check"
    /\ Told(s[i])

(* Shape, position by position.                                            *)
LEMMA ShapeIs == Shape <=> \A x \in All : \A i \in DOMAIN stack[x] : ShapeAt(x, stack[x], i)
  BY DEF Shape, ShapeAt

(* The stacks of the others keep their shape.                              *)
LEMMA ShapeOther ==
    ASSUME Shape, NEW x \in All, NEW k, NEW d, Moved(x, k, d),
           \A i \in DOMAIN stack'[x] : ShapeAt(x, stack'[x], i)
    PROVE  Shape'
<1>1. \A y \in All : y # x => stack'[y] = stack[y]
  BY DEF Moved
<1>2. \A y \in All : \A i \in DOMAIN stack[y] : ShapeAt(y, stack[y], i)
  BY ShapeIs
<1>3. \A y \in All : \A i \in DOMAIN stack'[y] : ShapeAt(y, stack'[y], i)
  BY <1>1, <1>2
<1> QED
  BY <1>3 DEF Shape, ShapeAt

(* A return keeps the shape of a stack.                                    *)
LEMMA ShapeReturns ==
    ASSUME stack \in [All -> Seq(Frame)], Shape, NEW x \in All, Moved(x, 0, 1)
    PROVE  Shape'
<1> SUFFICES ASSUME NEW i \in DOMAIN stack'[x] PROVE ShapeAt(x, stack'[x], i)
  BY ShapeOther
<1>0. i \in Nat /\ i >= 1 /\ i <= Len(stack'[x]) /\ Len(stack[x]) \in Nat /\ Len(stack'[x]) \in Nat
      /\ DOMAIN stack'[x] = 1 .. Len(stack'[x])
  BY Positions, PositionsNext
<1>1. i + 1 \in DOMAIN stack[x] /\ stack'[x][i] = stack[x][i + 1]
  <2>1. i > 0
    BY <1>0
  <2>2. \A j \in DOMAIN stack'[x] : j > 0 =>
          j + 1 \in DOMAIN stack[x] /\ stack'[x][j] = stack[x][j + 1]
    BY DEF Moved
  <2> QED
    BY <2>1, <2>2
<1>2. ShapeAt(x, stack[x], i + 1)
  BY <1>1, ShapeIs
<1>3. i > 1 => stack'[x][i - 1] = stack[x][(i + 1) - 1]
  <2> SUFFICES ASSUME i > 1 PROVE stack'[x][i - 1] = stack[x][(i + 1) - 1]
    OBVIOUS
  <2>1. i - 1 \in DOMAIN stack'[x] /\ i - 1 > 0 /\ (i - 1) + 1 = i /\ (i + 1) - 1 = i
    BY <1>0
  <2>2. stack'[x][i - 1] = stack[x][(i - 1) + 1]
    BY <2>1 DEF Moved
  <2> QED
    BY <2>1, <2>2
<1>4. Len(stack'[x]) = Len(stack[x]) - 1
  BY DEF Moved
<1>5. i + 1 > 1 /\ (i + 1 = Len(stack[x]) => i = Len(stack'[x]))
  BY <1>0, <1>4
<1> QED
  BY <1>1, <1>2, <1>3, <1>5 DEF ShapeAt

(* So does a call that goes on without waiting for another.                *)
LEMMA ShapeGoes ==
    ASSUME stack \in [All -> Seq(Frame)], Shape, NEW x \in All, Moved(x, 1, 0),
           1 \in DOMAIN stack[x], stack'[x][1].call = stack[x][1].call,
           x \in Foreign /\ stack'[x][1].call = "ReceiveSends" => stack'[x][1].at = "check",
           Told(stack'[x][1])
    PROVE  Shape'
<1> SUFFICES ASSUME NEW i \in DOMAIN stack'[x] PROVE ShapeAt(x, stack'[x], i)
  BY ShapeOther
<1>0. i \in Nat /\ i >= 1 /\ i <= Len(stack'[x]) /\ Len(stack[x]) \in Nat /\ Len(stack'[x]) \in Nat
      /\ DOMAIN stack'[x] = 1 .. Len(stack'[x]) /\ DOMAIN stack[x] = 1 .. Len(stack[x])
  BY Positions, PositionsNext
<1>1. Len(stack'[x]) = Len(stack[x])
  BY <1>0 DEF Moved
<1>2. ShapeAt(x, stack[x], i)
  BY <1>0, <1>1, ShapeIs
<1>3. \A j \in DOMAIN stack'[x] : j > 1 => stack'[x][j] = stack[x][j]
  BY <1>0, <1>1 DEF Moved
<1>4. CASE i = 1
  BY <1>0, <1>1, <1>2, <1>4 DEF ShapeAt
<1>5. CASE i > 1
  <2>1. stack'[x][i] = stack[x][i] /\ i - 1 \in DOMAIN stack'[x]
    BY <1>0, <1>3, <1>5
  <2>2. stack'[x][i - 1].call = stack[x][i - 1].call
    <3>1. CASE i - 1 = 1
      BY <3>1
    <3>2. CASE i - 1 > 1
      BY <2>1, <3>2, <1>3
    <3> QED
      BY <3>1, <3>2, <1>0, <1>5
  <2> QED
    BY <2>1, <2>2, <1>1, <1>2 DEF ShapeAt
<1> QED
  BY <1>0, <1>4, <1>5

(* So does a call of what its caller waits for.                            *)
LEMMA ShapeCalls ==
    ASSUME stack \in [All -> Seq(Frame)], Shape, NEW x \in All, Moved(x, 2, -1),
           1 \in DOMAIN stack[x], stack'[x][2].call = stack[x][1].call,
           Resting(stack'[x][2]), stack'[x][1].call # "ProcessMessages",
           Serving(stack'[x][2]) => stack'[x][1].call = "ReceiveSends",
           x \in Foreign =>
             /\ stack'[x][1].call = "ReceiveSends" /\ stack'[x][1].at = "check"
             /\ stack'[x][2].call = "Send",
           Told(stack'[x][1]), Told(stack'[x][2])
    PROVE  Shape'
<1> SUFFICES ASSUME NEW i \in DOMAIN stack'[x] PROVE ShapeAt(x, stack'[x], i)
  BY ShapeOther
<1>0. i \in Nat /\ i >= 1 /\ i <= Len(stack'[x]) /\ Len(stack[x]) \in Nat /\ Len(stack'[x]) \in Nat
      /\ DOMAIN stack'[x] = 1 .. Len(stack'[x]) /\ DOMAIN stack[x] = 1 .. Len(stack[x])
  BY Positions, PositionsNext
<1>1. Len(stack'[x]) = Len(stack[x]) + 1
  BY <1>0 DEF Moved
<1>2. \A j \in DOMAIN stack'[x] : j > 2 => j - 1 \in DOMAIN stack[x] /\ stack'[x][j] = stack[x][j - 1]
  <2> SUFFICES ASSUME NEW j \in DOMAIN stack'[x], j > 2
               PROVE  j - 1 \in DOMAIN stack[x] /\ stack'[x][j] = stack[x][j - 1]
    OBVIOUS
  <2>1. j - 1 = j + (-1)
    BY <1>0
  <2> QED
    BY <2>1 DEF Moved
<1>3. CASE i = 1
  BY <1>0, <1>3 DEF ShapeAt
<1>4. CASE i = 2
  <2>1. ShapeAt(x, stack[x], 1)
    BY ShapeIs
  <2>2. stack[x][1].call = "ProcessMessages" => 2 = Len(stack'[x])
    BY <2>1, <1>0, <1>1 DEF ShapeAt
  <2>3. x \in Foreign => stack'[x][2].call \in {"Send", "Post", "Clear", "ReceiveSends"} /\ stack'[x][2].call # "ReceiveSends"
    OBVIOUS
  <2>4. ShapeAt(x, stack'[x], 2)
    BY <2>2, <2>3 DEF ShapeAt
  <2> QED
    BY <2>4, <1>4
<1>5. CASE i > 2
  <2>1. ShapeAt(x, stack[x], i - 1) /\ stack'[x][i] = stack[x][i - 1] /\ i - 1 > 1 /\ i > 1
    <3>1. i - 1 > 1 /\ i > 1
      BY ONLY <1>0, <1>5
    <3>2. PICK j : j = i - 1 /\ j \in DOMAIN stack[x] /\ stack'[x][i] = stack[x][j]
      BY ONLY <1>2, <1>5, i \in DOMAIN stack'[x]
    <3>3. ShapeAt(x, stack[x], j)
      BY <3>2, ShapeIs
    <3> QED
      BY ONLY <3>1, <3>2, <3>3
  <2>2. stack'[x][i - 1].call = stack[x][(i - 1) - 1].call
    <3>1. CASE i - 1 = 2
      <4>1. (i - 1) - 1 = 1
        BY <3>1
      <4> QED
        BY <3>1, <4>1
    <3>2. CASE i - 1 > 2
      <4>1. i - 1 \in DOMAIN stack'[x]
        BY <1>0, <3>2
      <4> QED
        BY <4>1, <3>2, <1>2
    <3> QED
      BY <3>1, <3>2, <1>0, <1>5
  <2>3. i - 1 = Len(stack[x]) => i = Len(stack'[x])
    BY <1>0, <1>1
  <2> QED
    BY <2>1, <2>2, <2>3 DEF ShapeAt
<1> QED
  BY <1>0, <1>3, <1>4, <1>5

(* So does a call that a handler or a foreign thread makes.                *)
LEMMA ShapeEnters ==
    ASSUME stack \in [All -> Seq(Frame)], Shape, NEW x \in All, Moved(x, 1, -1),
           1 \in DOMAIN stack[x] => stack[x][1].call = "OnMessage",
           stack'[x][1].call \in {"OnMessage", "Send", "Post", "Clear"},
           x \in Foreign => stack'[x][1].call # "OnMessage"
    PROVE  Shape'
<1> SUFFICES ASSUME NEW i \in DOMAIN stack'[x] PROVE ShapeAt(x, stack'[x], i)
  BY ShapeOther
<1>0. i \in Nat /\ i >= 1 /\ i <= Len(stack'[x]) /\ Len(stack[x]) \in Nat /\ Len(stack'[x]) \in Nat
      /\ DOMAIN stack'[x] = 1 .. Len(stack'[x]) /\ DOMAIN stack[x] = 1 .. Len(stack[x])
  BY Positions, PositionsNext
<1>1. Len(stack'[x]) = Len(stack[x]) + 1
  BY <1>0 DEF Moved
<1>2. \A j \in DOMAIN stack'[x] : j > 1 => j - 1 \in DOMAIN stack[x] /\ stack'[x][j] = stack[x][j - 1]
  <2> SUFFICES ASSUME NEW j \in DOMAIN stack'[x], j > 1
               PROVE  j - 1 \in DOMAIN stack[x] /\ stack'[x][j] = stack[x][j - 1]
    OBVIOUS
  <2>1. j - 1 = j + (-1)
    BY <1>0
  <2> QED
    BY <2>1 DEF Moved
<1>3. CASE i = 1
  BY <1>0, <1>3 DEF ShapeAt, Told
<1>4. CASE i = 2
  <2>0. stack'[x][2] = stack[x][1] /\ 1 \in DOMAIN stack[x]
    BY <1>2, <1>4
  <2>1. ShapeAt(x, stack[x], 1)
    BY <2>0, ShapeIs
  <2>2. stack'[x][2].call = "OnMessage" /\ x \notin Foreign
    BY <2>0, <2>1 DEF ShapeAt
  <2>4. ShapeAt(x, stack'[x], 2)
    BY <2>2 DEF ShapeAt, Resting, Serving, Told
  <2> QED
    BY <2>4, <1>4
<1>5. CASE i > 2
  <2>0. i > 1 /\ i - 1 > 1
    BY <1>0, <1>5
  <2>1. ShapeAt(x, stack[x], i - 1) /\ stack'[x][i] = stack[x][i - 1] /\ i - 1 > 1 /\ i > 1
    BY <2>0, <1>2, ShapeIs
  <2>2. stack'[x][i - 1] = stack[x][(i - 1) - 1]
    <3>1. i - 1 \in DOMAIN stack'[x] /\ i - 1 > 1
      BY <1>0, <1>5
    <3> QED
      BY <3>1, <1>2
  <2>3. i - 1 = Len(stack[x]) => i = Len(stack'[x])
    BY <1>0, <1>1
  <2> QED
    BY <2>1, <2>2, <2>3 DEF ShapeAt
<1> QED
  BY <1>0, <1>3, <1>4, <1>5

-----------------------------------------------------------------------------
(* The part of the invariant that every other part needs.                  *)
Typed == TypeInv /\ Shape /\ ForeignQuiet

(* f is a call of that name, at that place.                                *)
Is(f, call, at) == f.call = call /\ f.at = at

(* The bounds are numbers, the handlers are handlers.                      *)
LEMMA LoadTypes ==
    ASSUME TypeInv
    PROVE  load.sends \in Nat /\ load.posts \in Nat /\ load.handlers \subseteq Handlers
  BY ThreadsAssumption DEF TypeInv, Load

(* The innermost call of x. *)
LEMMA TopTypes ==
    ASSUME Typed, NEW x \in All, NEW c, NEW a, In(x, c, a)
    PROVE  /\ 1 \in DOMAIN stack[x] /\ stack[x] # <<>> /\ Head(stack[x]) = stack[x][1]
           /\ stack[x][1] \in Frame /\ Is(stack[x][1], c, a)
           /\ c \in {"ProcessMessages", "OnMessage"} => x \in Threads
           /\ c = "ReceiveSends" /\ a # "check" => x \in Threads
           /\ c = "ProcessMessages" => Len(stack[x]) = 1
           /\ Told(stack[x][1])
<1>1. stack \in [All -> Seq(Frame)]
  BY DEF Typed, TypeInv
<1>2. /\ 1 \in DOMAIN stack[x] /\ stack[x] # <<>> /\ Head(stack[x]) = stack[x][1]
      /\ stack[x][1] \in Frame /\ Is(stack[x][1], c, a)
  BY <1>1, InTop DEF Is
<1>3. ShapeAt(x, stack[x], 1)
  BY <1>2, ShapeIs DEF Typed
<1> QED
  BY <1>2, <1>3 DEF ShapeAt, Is, All

(* Who may make a call is in a handler, or is foreign and in nothing.      *)
LEMMA MayCallTop ==
    ASSUME Typed, NEW x \in All, MayCall(x)
    PROVE  /\ 1 \in DOMAIN stack[x] => stack[x][1].call = "OnMessage" /\ stack[x][1].at = "body"
           /\ x \in Foreign => stack[x] = <<>>
<1>1. stack \in [All -> Seq(Frame)]
  BY DEF Typed, TypeInv
<1>2. CASE In(x, "OnMessage", "body")
  <2>1. x \in Threads /\ Is(stack[x][1], "OnMessage", "body")
    BY <1>2, TopTypes
  <2> QED
    BY <2>1, ThreadsAssumption DEF Is
<1>3. CASE x \in Foreign /\ stack[x] = <<>>
  BY <1>3
<1> QED
  BY <1>2, <1>3 DEF MayCall

(* What SendCall does to the stack.                                        *)
LEMMA SendCallMoves ==
    ASSUME Typed, NEW x \in All, NEW to \in Threads, NEW h \in Handlers, SendCall(x, to, h)
    PROVE  /\ Moved(x, 1, -1) /\ sends + 1 \in SendIds
           /\ to = x => Is(stack'[x][1], "OnMessage", "body")
           /\ to # x => /\ Is(stack'[x][1], "Send", "enter") /\ stack'[x][1].n = sends + 1
                        /\ stack'[x][1].to = to /\ stack'[x][1].h = h
                        /\ stack'[x][1].waited = FALSE
<1> DEFINE f == IF to = x THEN OnMessage(h) ELSE Send(sends + 1, to, h)
<1>1. stack \in [All -> Seq(Frame)] /\ TypeInv
  BY DEF Typed, TypeInv
<1>2. sends + 1 \in SendIds
  <2>1. sends \in 0 .. load.sends /\ sends < load.sends /\ load.sends \in Nat
    BY <1>1, LoadTypes DEF TypeInv, SendCall
  <2> QED
    BY <2>1 DEF SendIds
<1>3. f \in Frame
  BY <1>2, NewFrames, FrameKinds
<1>4. Enters(x, f)
  BY DEF SendCall
<1>5. Moved(x, 1, -1) /\ stack'[x][1] = f
  <2> HIDE DEF f
  <2> QED
    BY <1>1, <1>3, <1>4, EntersMoves
<1> QED
  BY <1>2, <1>5 DEF OnMessage, Send, Is

(* What PostCall does to the stack.                                        *)
LEMMA PostCallMoves ==
    ASSUME Typed, NEW x \in All, NEW to \in Threads, NEW h \in Handlers, PostCall(x, to, h)
    PROVE  /\ Moved(x, 1, -1) /\ posts + 1 \in PostIds
           /\ Is(stack'[x][1], "Post", "enter")
           /\ stack'[x][1].to = to /\ stack'[x][1].h = h
<1> DEFINE f == Post(posts + 1, to, h)
<1>1. stack \in [All -> Seq(Frame)] /\ TypeInv
  BY DEF Typed, TypeInv
<1>2. posts + 1 \in PostIds
  <2>1. posts \in 0 .. load.posts /\ posts < load.posts /\ load.posts \in Nat
    BY <1>1, LoadTypes DEF TypeInv, PostCall
  <2> QED
    BY <2>1 DEF PostIds
<1>3. f \in Frame
  BY <1>2, NewFrames, FrameKinds
<1>4. Enters(x, f)
  BY DEF PostCall
<1>5. Moved(x, 1, -1) /\ stack'[x][1] = f
  <2> HIDE DEF f
  <2> QED
    BY <1>1, <1>3, <1>4, EntersMoves
<1> QED
  BY <1>2, <1>5 DEF Post, Is

(* What ClearCall does to the stack.                                       *)
LEMMA ClearCallMoves ==
    ASSUME Typed, NEW x \in All, NEW h \in Handlers, ClearCall(x, h)
    PROVE  /\ Moved(x, 1, -1)
           /\ Is(stack'[x][1], "Clear", "next")
           /\ stack'[x][1].h = h /\ stack'[x][1].todo = message_queues_
<1> DEFINE f == Clear(h)
<1>1. stack \in [All -> Seq(Frame)] /\ message_queues_ \in Seq(Threads)
  BY DEF Typed, TypeInv
<1>3. f \in Frame
  <2>1. CASE Threads # {}
    BY <2>1, <1>1, NewFrames, FrameKinds
  <2>2. CASE Threads = {}
    BY <1>1, FrameKinds DEF Clear, ClearFrame
  <2> QED
    BY <2>1, <2>2
<1>4. Enters(x, f)
  BY DEF ClearCall
<1>5. Moved(x, 1, -1) /\ stack'[x][1] = f
  <2> HIDE DEF f
  <2> QED
    BY <1>1, <1>3, <1>4, EntersMoves
<1> QED
  BY <1>5 DEF Clear, Is

(* What OnMessageReturns does to the stack.                                *)
LEMMA OnMessageReturnsMoves ==
    ASSUME Typed, NEW x \in All, OnMessageReturns(x)
    PROVE  Moved(x, 0, 1) /\ Is(stack[x][1], "OnMessage", "body") /\ 1 \in DOMAIN stack[x]
           /\ x \in Threads
<1>1. stack \in [All -> Seq(Frame)] /\ TypeInv
  BY DEF Typed, TypeInv
<1>2. In(x, "OnMessage", "body") /\ Returns(x)
  BY DEF OnMessageReturns
<1> QED
  BY <1>1, <1>2, TopTypes, ReturnsMoves

(* What Deliver does to the stack.                                         *)
LEMMA DeliverMoves ==
    ASSUME Typed, NEW x \in All, NEW a, In(x, "Send", a) \/ In(x, "Post", a), Deliver(x)
    PROVE  /\ stack[x][1].call = "Send" =>
                /\ stack[x][1] \in SendFrame
                /\ Moved(x, 1, 0) /\ Is(stack'[x][1], "Send", "wake")
                /\ stack'[x][1].n = stack[x][1].n /\ stack'[x][1].to = stack[x][1].to
                /\ stack'[x][1].h = stack[x][1].h /\ stack'[x][1].waited = stack[x][1].waited
           /\ stack[x][1].call = "Post" => stack[x][1] \in PostFrame /\ Moved(x, 0, 1)
<1>1. stack \in [All -> Seq(Frame)] /\ TypeInv
  BY DEF Typed, TypeInv
<1>2. /\ 1 \in DOMAIN stack[x] /\ stack[x] # <<>> /\ Head(stack[x]) = stack[x][1]
      /\ stack[x][1] \in Frame
  BY TopTypes
<1>3. CASE stack[x][1].call = "Send"
  <2> DEFINE g == [stack[x][1] EXCEPT !.at = "wake"]
  <2>1. stack[x][1] \in SendFrame
    BY <1>2, <1>3, FrameKinds
  <2>2. /\ g \in SendFrame /\ g.call = "Send" /\ g.at = "wake" /\ g.n = stack[x][1].n
        /\ g.to = stack[x][1].to /\ g.h = stack[x][1].h /\ g.waited = stack[x][1].waited
    BY <2>1, SendAt
  <2>3. Goes(x, g)
    BY <1>2, <1>3, Zenon DEF Deliver
  <2> HIDE DEF g
  <2>4. Moved(x, 1, 0) /\ stack'[x][1] = g
    BY <2>2, <2>3, <1>1, <1>2, GoesMoves, FrameKinds
  <2> QED
    BY <1>3, <2>1, <2>2, <2>4 DEF Is
<1>4. CASE stack[x][1].call = "Post"
  <2>1. stack[x][1] \in PostFrame
    BY <1>2, <1>4, FrameKinds
  <2>2. Returns(x)
    BY <1>2, <1>4, Zenon DEF Deliver
  <2> QED
    BY <1>4, <2>1, <2>2, <1>1, <1>2, ReturnsMoves
<1> QED
  BY <1>3, <1>4

(* What EnsureActive does to the stack.                                    *)
LEMMA EnsureActiveMoves ==
    ASSUME Typed, NEW x \in All, EnsureActive(x)
    PROVE  /\ 1 \in DOMAIN stack[x] /\ stack[x][1].to \in Threads
           /\ Head(stack[x]) = stack[x][1]
           /\ Is(stack[x][1], "Send", "enter") \/ Is(stack[x][1], "Post", "enter")
           /\ Moved(x, 1, 0) /\ Is(stack'[x][1], stack[x][1].call, "add")
           /\ stack'[x][1].n = stack[x][1].n /\ stack'[x][1].to = stack[x][1].to
           /\ stack'[x][1].h = stack[x][1].h
           /\ stack[x][1].call = "Send" => stack'[x][1].waited = stack[x][1].waited
<1>1. stack \in [All -> Seq(Frame)] /\ TypeInv
  BY DEF Typed, TypeInv
<1>2. /\ 1 \in DOMAIN stack[x] /\ stack[x] # <<>> /\ Head(stack[x]) = stack[x][1]
      /\ stack[x][1] \in Frame
      /\ Is(stack[x][1], "Send", "enter") \/ Is(stack[x][1], "Post", "enter")
  BY TopTypes DEF EnsureActive, Entering
<1> DEFINE g == [stack[x][1] EXCEPT !.at = "add"]
<1>3. Goes(x, g)
  BY <1>2 DEF EnsureActive
<1>4. CASE Is(stack[x][1], "Send", "enter")
  <2>1. stack[x][1] \in SendFrame
    BY <1>2, <1>4, FrameKinds DEF Is
  <2>2. /\ g \in SendFrame /\ g.call = "Send" /\ g.at = "add" /\ g.n = stack[x][1].n
        /\ g.to = stack[x][1].to /\ g.h = stack[x][1].h /\ g.waited = stack[x][1].waited
    BY <2>1, SendAt
  <2>3. stack[x][1].to \in Threads
    BY <2>1 DEF SendFrame
  <2> HIDE DEF g
  <2>4. Moved(x, 1, 0) /\ stack'[x][1] = g
    BY <2>2, <1>3, <1>1, <1>2, GoesMoves, FrameKinds
  <2> QED
    BY <1>2, <1>4, <2>2, <2>3, <2>4 DEF Is
<1>5. CASE Is(stack[x][1], "Post", "enter")
  <2>1. stack[x][1] \in PostFrame
    BY <1>2, <1>5, FrameKinds DEF Is
  <2>2. /\ g \in PostFrame /\ g.call = "Post" /\ g.at = "add" /\ g.n = stack[x][1].n
        /\ g.to = stack[x][1].to /\ g.h = stack[x][1].h
    BY <2>1, PostAt
  <2>3. stack[x][1].to \in Threads
    BY <2>1 DEF PostFrame
  <2> HIDE DEF g
  <2>4. Moved(x, 1, 0) /\ stack'[x][1] = g
    BY <2>2, <1>3, <1>1, <1>2, GoesMoves, FrameKinds
  <2> QED
    BY <1>2, <1>5, <2>2, <2>3, <2>4 DEF Is
<1> QED
  BY <1>2, <1>4, <1>5

(* What SendWakes does to the stack.                                       *)
LEMMA SendWakesMoves ==
    ASSUME Typed, NEW x \in All, SendWakes(x)
    PROVE  /\ 1 \in DOMAIN stack[x] /\ stack[x][1] \in SendFrame /\ Is(stack[x][1], "Send", "wake")
           /\ Head(stack[x]) = stack[x][1]
           /\ Moved(x, 1, 0) /\ Is(stack'[x][1], "Send", "test")
           /\ stack'[x][1].n = stack[x][1].n /\ stack'[x][1].to = stack[x][1].to
           /\ stack'[x][1].h = stack[x][1].h /\ stack'[x][1].waited = stack[x][1].waited
<1>1. stack \in [All -> Seq(Frame)] /\ TypeInv
  BY DEF Typed, TypeInv
<1>2. /\ 1 \in DOMAIN stack[x] /\ stack[x] # <<>> /\ Head(stack[x]) = stack[x][1]
      /\ stack[x][1] \in Frame /\ Is(stack[x][1], "Send", "wake")
  BY TopTypes DEF SendWakes
<1> DEFINE g == [stack[x][1] EXCEPT !.at = "test"]
<1>3. Goes(x, g)
  BY <1>2 DEF SendWakes
<1>4. stack[x][1] \in SendFrame
  BY <1>2, FrameKinds DEF Is
<1>5. /\ g \in SendFrame /\ g.call = "Send" /\ g.at = "test" /\ g.n = stack[x][1].n
      /\ g.to = stack[x][1].to /\ g.h = stack[x][1].h /\ g.waited = stack[x][1].waited
  BY <1>4, SendAt
<1> HIDE DEF g
<1>6. Moved(x, 1, 0) /\ stack'[x][1] = g
  BY <1>5, <1>3, <1>1, <1>2, GoesMoves, FrameKinds
<1> QED
  BY <1>2, <1>4, <1>5, <1>6 DEF Is

(* What SendTests does to the stack.                                       *)
LEMMA SendTestsMoves ==
    ASSUME Typed, NEW x \in All, SendTests(x)
    PROVE  /\ 1 \in DOMAIN stack[x] /\ stack[x][1] \in SendFrame /\ Is(stack[x][1], "Send", "test")
           /\ stack[x][1].n \notin ready
           /\ Moved(x, 2, -1) /\ Is(stack'[x][1], "ReceiveSends", "check")
           /\ Is(stack'[x][2], "Send", "wait")
           /\ stack'[x][2].n = stack[x][1].n /\ stack'[x][2].to = stack[x][1].to
           /\ stack'[x][2].h = stack[x][1].h /\ stack'[x][2].waited = stack[x][1].waited
<1>1. stack \in [All -> Seq(Frame)] /\ TypeInv
  BY DEF Typed, TypeInv
<1>2. /\ 1 \in DOMAIN stack[x] /\ stack[x] # <<>> /\ Head(stack[x]) = stack[x][1]
      /\ stack[x][1] \in Frame /\ Is(stack[x][1], "Send", "test")
  BY TopTypes DEF SendTests
<1> DEFINE g == [stack[x][1] EXCEPT !.at = "wait"]
<1>3. Calls(x, g, ReceiveSends) /\ stack[x][1].n \notin ready
  BY <1>2 DEF SendTests
<1>4. stack[x][1] \in SendFrame
  BY <1>2, FrameKinds DEF Is
<1>5. /\ g \in SendFrame /\ g.call = "Send" /\ g.at = "wait" /\ g.n = stack[x][1].n
      /\ g.to = stack[x][1].to /\ g.h = stack[x][1].h /\ g.waited = stack[x][1].waited
  BY <1>4, SendAt
<1>6. ReceiveSends \in Frame /\ Is(ReceiveSends, "ReceiveSends", "check")
  BY NewReceive, FrameKinds DEF Is, ReceiveFrame
<1> HIDE DEF g
<1>7. Moved(x, 2, -1) /\ stack'[x][1] = ReceiveSends /\ stack'[x][2] = g
  BY <1>5, <1>6, <1>3, <1>1, <1>2, CallsMoves, FrameKinds
<1> QED
  BY <1>2, <1>3, <1>4, <1>5, <1>6, <1>7 DEF Is

(* What SendWaits does to the stack.                                       *)
LEMMA SendWaitsMoves ==
    ASSUME Typed, NEW x \in All, SendWaits(x)
    PROVE  /\ 1 \in DOMAIN stack[x] /\ stack[x][1] \in SendFrame /\ Is(stack[x][1], "Send", "wait")
           /\ Moved(x, 1, 0) /\ Is(stack'[x][1], "Send", "test")
           /\ stack'[x][1].n = stack[x][1].n /\ stack'[x][1].to = stack[x][1].to
           /\ stack'[x][1].h = stack[x][1].h /\ stack'[x][1].waited
<1>1. stack \in [All -> Seq(Frame)] /\ TypeInv
  BY DEF Typed, TypeInv
<1>2. /\ 1 \in DOMAIN stack[x] /\ stack[x] # <<>> /\ Head(stack[x]) = stack[x][1]
      /\ stack[x][1] \in Frame /\ Is(stack[x][1], "Send", "wait")
  BY TopTypes DEF SendWaits
<1> DEFINE g == [stack[x][1] EXCEPT !.at = "test", !.waited = TRUE]
<1>3. Goes(x, g)
  BY <1>2 DEF SendWaits
<1>4. stack[x][1] \in SendFrame
  BY <1>2, FrameKinds DEF Is
<1>5. /\ g \in SendFrame /\ g.call = "Send" /\ g.at = "test" /\ g.n = stack[x][1].n
      /\ g.to = stack[x][1].to /\ g.h = stack[x][1].h /\ g.waited
  BY <1>4, SendWaited
<1> HIDE DEF g
<1>6. Moved(x, 1, 0) /\ stack'[x][1] = g
  BY <1>5, <1>3, <1>1, <1>2, GoesMoves, FrameKinds
<1> QED
  BY <1>2, <1>4, <1>5, <1>6 DEF Is

(* What SendReturns does to the stack.                                     *)
LEMMA SendReturnsMoves ==
    ASSUME Typed, NEW x \in All, SendReturns(x)
    PROVE  /\ 1 \in DOMAIN stack[x] /\ stack[x][1] \in SendFrame /\ Is(stack[x][1], "Send", "test")
           /\ Head(stack[x]) = stack[x][1] /\ Moved(x, 0, 1)
<1>1. stack \in [All -> Seq(Frame)] /\ TypeInv
  BY DEF Typed, TypeInv
<1>2. /\ 1 \in DOMAIN stack[x] /\ stack[x] # <<>> /\ Head(stack[x]) = stack[x][1]
      /\ stack[x][1] \in Frame /\ Is(stack[x][1], "Send", "test")
  BY TopTypes DEF SendReturns
<1>3. Returns(x)
  BY DEF SendReturns
<1> QED
  BY <1>1, <1>2, <1>3, ReturnsMoves, FrameKinds DEF Is

(* What ReceiveChecks does to the stack.                                   *)
LEMMA ReceiveChecksMoves ==
    ASSUME Typed, NEW x \in All, ReceiveChecks(x)
    PROVE  /\ 1 \in DOMAIN stack[x] /\ Is(stack[x][1], "ReceiveSends", "check")
           /\ has_sends_[x] => /\ x \in Threads /\ Moved(x, 1, 0)
                               /\ Is(stack'[x][1], "ReceiveSends", "next")
           /\ ~has_sends_[x] => Moved(x, 0, 1)
<1>1. stack \in [All -> Seq(Frame)] /\ ForeignQuiet
  BY DEF Typed, TypeInv
<1>2. /\ 1 \in DOMAIN stack[x] /\ stack[x] # <<>> /\ Head(stack[x]) = stack[x][1]
      /\ stack[x][1] \in Frame /\ Is(stack[x][1], "ReceiveSends", "check")
  BY TopTypes DEF ReceiveChecks
<1> DEFINE g == [stack[x][1] EXCEPT !.at = "next"]
<1>3. IF has_sends_[x] THEN Goes(x, g) ELSE Returns(x)
  BY <1>2 DEF ReceiveChecks
<1>4. stack[x][1] \in ReceiveFrame
  BY <1>2, FrameKinds DEF Is
<1>5. g \in ReceiveFrame /\ g.call = "ReceiveSends" /\ g.at = "next"
  BY <1>4, ReceiveAt
<1>6. has_sends_[x] => x \in Threads
  BY <1>1 DEF ForeignQuiet, All
<1> HIDE DEF g
<1>7. has_sends_[x] => Moved(x, 1, 0) /\ stack'[x][1] = g
  BY <1>5, <1>3, <1>1, <1>2, GoesMoves, FrameKinds
<1>8. ~has_sends_[x] => Moved(x, 0, 1)
  BY <1>1, <1>2, <1>3, ReturnsMoves
<1> QED
  BY <1>2, <1>5, <1>6, <1>7, <1>8 DEF Is

(* What NextSend does to the stack.                                        *)
LEMMA NextSendMoves ==
    ASSUME Typed, NEW x \in All, NEW a \in {"next", "signal"}, In(x, "ReceiveSends", a), NextSend(x)
    PROVE  /\ 1 \in DOMAIN stack[x] /\ Is(stack[x][1], "ReceiveSends", a) /\ x \in Threads
           /\ Head(stack[x]) = stack[x][1] /\ stack[x][1] \in ReceiveFrame
           /\ sendlist_[x] = <<>> => Moved(x, 0, 1)
           /\ sendlist_[x] # <<>> =>
                /\ Moved(x, 2, -1) /\ Is(stack'[x][1], "OnMessage", "body")
                /\ Is(stack'[x][2], "ReceiveSends", "reply")
                /\ 1 \in DOMAIN sendlist_[x] /\ Head(sendlist_[x]) = sendlist_[x][1]
                /\ stack'[x][2].n = sendlist_[x][1].n
                /\ stack'[x][2].from = sendlist_[x][1].from
<1>1. /\ stack \in [All -> Seq(Frame)]
      /\ sendlist_ \in [Threads -> Seq(SendMsg)]
  BY DEF Typed, TypeInv
<1>2. /\ 1 \in DOMAIN stack[x] /\ stack[x] # <<>> /\ Head(stack[x]) = stack[x][1]
      /\ stack[x][1] \in Frame /\ Is(stack[x][1], "ReceiveSends", a) /\ x \in Threads
  BY TopTypes
<1>3. stack[x][1] \in ReceiveFrame
  BY <1>2, FrameKinds DEF Is
<1>4. CASE sendlist_[x] = <<>>
  <2>1. Returns(x)
    BY <1>4 DEF NextSend
  <2> QED
    BY <2>1, <1>1, <1>2, <1>3, <1>4, ReturnsMoves
<1>5. CASE sendlist_[x] # <<>>
  <2> DEFINE m == sendlist_[x][1]
             g == [stack[x][1] EXCEPT !.at = "reply", !.n = m.n, !.from = m.from]
  <2>1. sendlist_[x] \in Seq(SendMsg)
    BY <1>1, <1>2
  <2>2. /\ 1 \in DOMAIN sendlist_[x] /\ Head(sendlist_[x]) = m
        /\ m \in SendMsg
    BY <2>1, <1>5, SeqFacts
  <2>3. m.n \in SendIds /\ m.from \in All /\ m.h \in Handlers
    BY <2>2 DEF SendMsg
  <2>4. Calls(x, g, OnMessage(m.h))
    BY <2>2, <1>2, <1>5 DEF NextSend
  <2>5. g \in ReceiveFrame /\ g.call = "ReceiveSends" /\ g.at = "reply" /\ g.n = m.n
        /\ g.from = m.from
    <3> HIDE DEF m
    <3> QED
      BY <2>3, <1>3 DEF ReceiveFrame
  <2>6. OnMessage(m.h) \in Frame /\ Is(OnMessage(m.h), "OnMessage", "body")
    BY <2>3, <1>2, NewFrames, FrameKinds DEF OnMessage, Is
  <2> HIDE DEF g, m
  <2>7. Moved(x, 2, -1) /\ stack'[x][1] = OnMessage(m.h) /\ stack'[x][2] = g
    BY <2>4, <2>5, <2>6, <1>1, <1>2, CallsMoves, FrameKinds
  <2> QED
    BY <2>2, <2>5, <2>6, <2>7, <1>2, <1>3, <1>5 DEF Is, m
<1> QED
  BY <1>4, <1>5

(* What ReceiveReplies does to the stack.                                  *)
LEMMA ReceiveRepliesMoves ==
    ASSUME Typed, NEW x \in All, ReceiveReplies(x)
    PROVE  /\ 1 \in DOMAIN stack[x] /\ Is(stack[x][1], "ReceiveSends", "reply") /\ x \in Threads
           /\ Head(stack[x]) = stack[x][1] /\ stack[x][1] \in ReceiveFrame
           /\ Moved(x, 1, 0) /\ Is(stack'[x][1], "ReceiveSends", "signal")
           /\ stack'[x][1].n = stack[x][1].n /\ stack'[x][1].from = stack[x][1].from
           /\ stack[x][1].n \in SendIds /\ stack[x][1].from \in All /\ Told(stack'[x][1])
<1>1. stack \in [All -> Seq(Frame)]
  BY DEF Typed, TypeInv
<1>2. /\ 1 \in DOMAIN stack[x] /\ stack[x] # <<>> /\ Head(stack[x]) = stack[x][1]
      /\ stack[x][1] \in Frame /\ Is(stack[x][1], "ReceiveSends", "reply") /\ x \in Threads
  BY TopTypes DEF ReceiveReplies
<1> DEFINE g == [stack[x][1] EXCEPT !.at = "signal"]
<1>3. Goes(x, g)
  BY <1>2 DEF ReceiveReplies
<1>4. stack[x][1] \in ReceiveFrame
  BY <1>2, FrameKinds DEF Is
<1>5. g \in ReceiveFrame /\ g.call = "ReceiveSends" /\ g.at = "signal" /\ g.n = stack[x][1].n
      /\ g.from = stack[x][1].from
  BY <1>4, ReceiveAt
<1> HIDE DEF g
<1>7. Moved(x, 1, 0) /\ stack'[x][1] = g
  BY <1>5, <1>3, <1>1, <1>2, GoesMoves, FrameKinds
<1>8. stack[x][1].n # 0 /\ stack[x][1].from # None
  BY <1>2, TopTypes DEF ReceiveReplies, Told, Is
<1>9. stack[x][1].n \in SendIds /\ stack[x][1].from \in All
  BY <1>4, <1>8 DEF ReceiveFrame
<1> QED
  BY <1>2, <1>4, <1>5, <1>7, <1>8, <1>9 DEF Is, Told

(* What ClearNext does to the stack.                                       *)
LEMMA ClearNextMoves ==
    ASSUME Typed, NEW x \in All, ClearNext(x)
    PROVE  /\ 1 \in DOMAIN stack[x] /\ Is(stack[x][1], "Clear", "next")
           /\ Head(stack[x]) = stack[x][1] /\ stack[x][1] \in ClearFrame
           /\ stack[x][1].todo \in Seq(Threads) /\ stack[x][1].h \in Handlers
           /\ stack[x][1].todo = <<>> => Moved(x, 0, 1)
           /\ stack[x][1].todo # <<>> =>
                /\ Moved(x, 1, 0) /\ Is(stack'[x][1], "Clear", "next")
                /\ stack'[x][1].h = stack[x][1].h /\ stack'[x][1].todo = Tail(stack[x][1].todo)
<1>1. stack \in [All -> Seq(Frame)]
  BY DEF Typed, TypeInv
<1>2. /\ 1 \in DOMAIN stack[x] /\ stack[x] # <<>> /\ Head(stack[x]) = stack[x][1]
      /\ stack[x][1] \in Frame /\ Is(stack[x][1], "Clear", "next")
  BY TopTypes DEF ClearNext
<1> DEFINE g == [stack[x][1] EXCEPT !.todo = Tail(@)]
<1>3. stack[x][1].todo = <<>> => Returns(x)
  BY <1>2 DEF ClearNext
<1>4. stack[x][1].todo # <<>> => Goes(x, g)
  BY <1>2 DEF ClearNext
<1>5. stack[x][1] \in ClearFrame
  BY <1>2, FrameKinds DEF Is
<1>6. stack[x][1].todo \in Seq(Threads) /\ stack[x][1].h \in Handlers
  BY <1>5 DEF ClearFrame
<1>7. stack[x][1].todo # <<>> =>
        /\ g \in ClearFrame /\ g.call = "Clear" /\ g.at = "next" /\ g.h = stack[x][1].h
        /\ g.todo = Tail(stack[x][1].todo)
  BY <1>5, ClearRest
<1> HIDE DEF g
<1>8. stack[x][1].todo # <<>> => Moved(x, 1, 0) /\ stack'[x][1] = g
  BY <1>7, <1>4, <1>1, <1>2, GoesMoves, FrameKinds
<1>9. stack[x][1].todo = <<>> => Moved(x, 0, 1)
  BY <1>1, <1>2, <1>3, ReturnsMoves
<1> QED
  BY <1>2, <1>5, <1>6, <1>7, <1>8, <1>9 DEF Is

(* What GetReceives does to the stack.                                     *)
LEMMA GetReceivesMoves ==
    ASSUME Typed, NEW x \in All, GetReceives(x)
    PROVE  /\ 1 \in DOMAIN stack[x] /\ Is(stack[x][1], "ProcessMessages", "get") /\ x \in Threads
           /\ Len(stack[x]) = 1
           /\ has_sends_[x] => /\ Moved(x, 2, -1) /\ Is(stack'[x][1], "ReceiveSends", "next")
                               /\ Is(stack'[x][2], "ProcessMessages", "pop")
           /\ ~has_sends_[x] => Moved(x, 1, 0) /\ Is(stack'[x][1], "ProcessMessages", "pop")
<1>1. stack \in [All -> Seq(Frame)]
  BY DEF Typed, TypeInv
<1>2. /\ 1 \in DOMAIN stack[x] /\ stack[x] # <<>> /\ Head(stack[x]) = stack[x][1]
      /\ stack[x][1] \in Frame /\ Is(stack[x][1], "ProcessMessages", "get") /\ x \in Threads
      /\ Len(stack[x]) = 1
  BY TopTypes DEF GetReceives
<1> DEFINE g == [ReceiveSends EXCEPT !.at = "next"]
<1>3. IF has_sends_[x] THEN Calls(x, Loop("pop"), g) ELSE Goes(x, Loop("pop"))
  BY DEF GetReceives
<1>4. g \in Frame /\ Is(g, "ReceiveSends", "next")
  BY NewReceive, FrameKinds DEF Is, ReceiveFrame
<1>5. Loop("pop") \in Frame /\ Is(Loop("pop"), "ProcessMessages", "pop")
  BY LoopFrames, FrameKinds DEF Is, Loop
<1> HIDE DEF g
<1>6. has_sends_[x] => Moved(x, 2, -1) /\ stack'[x][1] = g /\ stack'[x][2] = Loop("pop")
  BY <1>1, <1>2, <1>3, <1>4, <1>5, CallsMoves
<1>7. ~has_sends_[x] => Moved(x, 1, 0) /\ stack'[x][1] = Loop("pop")
  BY <1>1, <1>2, <1>3, <1>5, GoesMoves
<1> QED
  BY <1>2, <1>4, <1>5, <1>6, <1>7

(* What GetPops does to the stack.                                         *)
LEMMA GetPopsMoves ==
    ASSUME Typed, NEW x \in All, GetPops(x)
    PROVE  /\ 1 \in DOMAIN stack[x] /\ Is(stack[x][1], "ProcessMessages", "pop") /\ x \in Threads
           /\ Len(stack[x]) = 1
           /\ msgq_[x] = <<>> => Moved(x, 1, 0) /\ Is(stack'[x][1], "ProcessMessages", "stop")
           /\ msgq_[x] # <<>> => /\ Moved(x, 2, -1) /\ Is(stack'[x][1], "OnMessage", "body")
                                 /\ Is(stack'[x][2], "ProcessMessages", "get")
<1>1. /\ stack \in [All -> Seq(Frame)]
      /\ msgq_ \in [Threads -> Seq(PostMsg)]
  BY DEF Typed, TypeInv
<1>2. /\ 1 \in DOMAIN stack[x] /\ stack[x] # <<>> /\ Head(stack[x]) = stack[x][1]
      /\ stack[x][1] \in Frame /\ Is(stack[x][1], "ProcessMessages", "pop") /\ x \in Threads
      /\ Len(stack[x]) = 1
  BY TopTypes DEF GetPops
<1>3. CASE msgq_[x] = <<>>
  <2>1. Goes(x, Loop("stop"))
    BY <1>3 DEF GetPops
  <2>2. Loop("stop") \in Frame /\ Is(Loop("stop"), "ProcessMessages", "stop")
    BY LoopFrames, FrameKinds DEF Is, Loop
  <2>3. Moved(x, 1, 0) /\ stack'[x][1] = Loop("stop")
    BY <1>1, <1>2, <2>1, <2>2, GoesMoves
  <2> QED
    BY <1>2, <1>3, <2>2, <2>3
<1>4. CASE msgq_[x] # <<>>
  <2> DEFINE m == Head(msgq_[x])
  <2>0. msgq_[x] \in Seq(PostMsg)
    BY <1>1, <1>2
  <2>1. m.h \in Handlers
    <3>1. m \in PostMsg
      BY <2>0, <1>4
    <3> QED
      BY <3>1 DEF PostMsg
  <2>2. Calls(x, Loop("get"), OnMessage(m.h))
    BY <1>4 DEF GetPops
  <2>3. Loop("get") \in Frame /\ Is(Loop("get"), "ProcessMessages", "get")
    BY LoopFrames, FrameKinds DEF Is, Loop
  <2> HIDE DEF m
  <2>4. OnMessage(m.h) \in Frame /\ Is(OnMessage(m.h), "OnMessage", "body")
    BY <2>1, <1>2, NewFrames, FrameKinds DEF OnMessage, Is
  <2>5. Moved(x, 2, -1) /\ stack'[x][1] = OnMessage(m.h) /\ stack'[x][2] = Loop("get")
    BY <1>1, <1>2, <2>2, <2>3, <2>4, CallsMoves
  <2> QED
    BY <1>2, <1>4, <2>3, <2>4, <2>5
<1> QED
  BY <1>3, <1>4

(* What GetStops does to the stack.                                        *)
LEMMA GetStopsMoves ==
    ASSUME Typed, NEW x \in All, GetStops(x)
    PROVE  /\ 1 \in DOMAIN stack[x] /\ Is(stack[x][1], "ProcessMessages", "stop") /\ x \in Threads
           /\ Len(stack[x]) = 1
           /\ fStop_[x] => Moved(x, 0, 1)
           /\ ~fStop_[x] => Moved(x, 1, 0) /\ Is(stack'[x][1], "ProcessMessages", "wait")
<1>1. stack \in [All -> Seq(Frame)]
  BY DEF Typed, TypeInv
<1>2. /\ 1 \in DOMAIN stack[x] /\ stack[x] # <<>> /\ Head(stack[x]) = stack[x][1]
      /\ stack[x][1] \in Frame /\ Is(stack[x][1], "ProcessMessages", "stop") /\ x \in Threads
      /\ Len(stack[x]) = 1
  BY TopTypes DEF GetStops
<1>3. IF fStop_[x] THEN Returns(x) ELSE Goes(x, Loop("wait"))
  BY DEF GetStops
<1>4. Loop("wait") \in Frame /\ Is(Loop("wait"), "ProcessMessages", "wait")
  BY LoopFrames, FrameKinds DEF Is, Loop
<1>5. fStop_[x] => Moved(x, 0, 1)
  BY <1>1, <1>2, <1>3, ReturnsMoves
<1>6. ~fStop_[x] => Moved(x, 1, 0) /\ stack'[x][1] = Loop("wait")
  BY <1>1, <1>2, <1>3, <1>4, GoesMoves
<1> QED
  BY <1>2, <1>4, <1>5, <1>6

(* What GetWaits does to the stack.                                        *)
LEMMA GetWaitsMoves ==
    ASSUME Typed, NEW x \in All, GetWaits(x)
    PROVE  /\ 1 \in DOMAIN stack[x] /\ Is(stack[x][1], "ProcessMessages", "wait") /\ x \in Threads
           /\ Len(stack[x]) = 1
           /\ Moved(x, 1, 0) /\ Is(stack'[x][1], "ProcessMessages", "get")
<1>1. stack \in [All -> Seq(Frame)]
  BY DEF Typed, TypeInv
<1>2. /\ 1 \in DOMAIN stack[x] /\ stack[x] # <<>> /\ Head(stack[x]) = stack[x][1]
      /\ stack[x][1] \in Frame /\ Is(stack[x][1], "ProcessMessages", "wait") /\ x \in Threads
      /\ Len(stack[x]) = 1
  BY TopTypes DEF GetWaits
<1>3. Goes(x, Loop("get"))
  BY DEF GetWaits
<1>4. Loop("get") \in Frame /\ Is(Loop("get"), "ProcessMessages", "get")
  BY LoopFrames, FrameKinds DEF Is, Loop
<1>6. Moved(x, 1, 0) /\ stack'[x][1] = Loop("get")
  BY <1>1, <1>2, <1>3, <1>4, GoesMoves
<1> QED
  BY <1>2, <1>4, <1>6

-----------------------------------------------------------------------------
(* Typed looks only at what has a type.                                    *)
LEMMA SameTypes ==
    ASSUME load' = load
    PROVE  /\ SendIds' = SendIds /\ PostIds' = PostIds /\ Frame' = Frame
           /\ SendMsg' = SendMsg /\ PostMsg' = PostMsg
<1>1. SendIds' = SendIds /\ PostIds' = PostIds
  BY DEF SendIds, PostIds
<1>2. Frame' = Frame
  BY <1>1, Zenon DEF Frame
<1>3. SendMsg' = SendMsg /\ PostMsg' = PostMsg
  BY <1>1, Zenon DEF SendMsg, PostMsg
<1> QED
  BY <1>1, <1>2, <1>3

(* A stack that has moved is a stack.                                      *)
LEMMA MovedType == ASSUME NEW x, NEW k, NEW d, Moved(x, k, d) PROVE stack' \in [All -> Seq(Frame)]
  BY DEF Moved

(* What Keep leaves of a list. *)
LEMMA KeepElements ==
    ASSUME NEW S, NEW s \in Seq(S), NEW hs
    PROVE  /\ Keep(s, hs) \in Seq(S)
           /\ \A i \in DOMAIN Keep(s, hs) :
                 /\ Keep(s, hs)[i].h \notin hs
                 /\ \E j \in DOMAIN s : s[j] = Keep(s, hs)[i]
           /\ \A j \in DOMAIN s : s[j].h \notin hs =>
                 \E i \in DOMAIN Keep(s, hs) : Keep(s, hs)[i] = s[j]
<1> DEFINE keep == {s[i] : i \in {j \in DOMAIN s : s[j].h \notin hs}}
<1>1. \A m \in keep : m.h \notin hs
  OBVIOUS
<1>2. \A j \in DOMAIN s : s[j].h \notin hs => s[j] \in keep
  OBVIOUS
<1>3. Keep(s, hs) = Selected(s, keep)
  BY DEF Keep
<1> HIDE DEF keep
<1> QED
  BY <1>1, <1>2, <1>3, SelectedElements

(* What Clear leaves is typed.                                             *)
LEMMA ClearOneTypes ==
    ASSUME TypeInv, NEW q \in Threads, NEW hs, ClearOne(q, hs)
    PROVE  /\ msgq_' \in [Threads -> Seq(PostMsg)] /\ sendlist_' \in [Threads -> Seq(SendMsg)]
           /\ ready' \subseteq SendIds /\ fSignaled_' \in [All -> BOOLEAN]
<1>1. msgq_[q] \in Seq(PostMsg) /\ sendlist_[q] \in Seq(SendMsg)
  BY DEF TypeInv
<1>2. Keep(msgq_[q], hs) \in Seq(PostMsg) /\ Keep(sendlist_[q], hs) \in Seq(SendMsg)
  BY <1>1, KeepElements
<1>3. msgq_' \in [Threads -> Seq(PostMsg)] /\ sendlist_' \in [Threads -> Seq(SendMsg)]
  BY <1>2 DEF TypeInv, ClearOne
<1>4. Removed(q, hs) \subseteq SendMsg
  BY <1>1, SeqFacts DEF Removed
<1>5. ready' \subseteq SendIds
  <2>1. \A m \in SendMsg : m.n \in SendIds
    BY DEF SendMsg
  <2>2. ready' = ready \cup {m.n : m \in Removed(q, hs)} /\ ready \subseteq SendIds
    BY DEF ClearOne, TypeInv
  <2> QED
    BY <1>4, <2>1, <2>2
<1>6. fSignaled_' \in [All -> BOOLEAN]
  BY Zenon DEF ClearOne
<1> QED
  BY <1>3, <1>5, <1>6

(* What a delivered send or post leaves is typed.                          *)
LEMMA DeliverTypes ==
    ASSUME Typed, NEW x \in All, NEW a, In(x, "Send", a) \/ In(x, "Post", a), Deliver(x)
    PROVE  /\ msgq_' \in [Threads -> Seq(PostMsg)] /\ sendlist_' \in [Threads -> Seq(SendMsg)]
           /\ has_sends_' \in [All -> BOOLEAN] /\ fSignaled_' \in [All -> BOOLEAN]
           /\ stack[x][1].to \in Threads /\ Head(stack[x]) = stack[x][1]
           /\ ForeignQuiet' /\ stack' \in [All -> Seq(Frame)] /\ Shape'
<1>0. TypeInv /\ Shape /\ ForeignQuiet /\ stack \in [All -> Seq(Frame)]
  BY DEF Typed, TypeInv
<1>1. /\ 1 \in DOMAIN stack[x] /\ Head(stack[x]) = stack[x][1]
      /\ stack[x][1].call \in {"Send", "Post"}
  BY TopTypes DEF Is
<1> DEFINE f == stack[x][1]
<1>2. CASE f.call = "Send"
  <2>1. f \in SendFrame /\ Moved(x, 1, 0) /\ stack'[x][1].call = "Send"
    BY <1>2, DeliverMoves DEF Is
  <2>2. f.to \in Threads /\ f.n \in SendIds /\ f.h \in Handlers
    BY <2>1 DEF SendFrame
  <2>3. [n |-> f.n, from |-> x, h |-> f.h] \in SendMsg
    BY <2>2 DEF SendMsg
  <2>4. /\ sendlist_' = [sendlist_ EXCEPT ![f.to] = Append(@, [n |-> f.n, from |-> x, h |-> f.h])]
        /\ has_sends_' = [has_sends_ EXCEPT ![f.to] = TRUE]
        /\ UNCHANGED <<msgq_, fSignaled_>>
    BY <1>1, <1>2, Zenon DEF Deliver
  <2>5. Shape'
    BY <2>1, <1>0, <1>1, <1>2, ShapeGoes DEF Told
  <2>6. stack' \in [All -> Seq(Frame)]
    BY <2>1, MovedType
  <2> HIDE DEF f
  <2>7. sendlist_' \in [Threads -> Seq(SendMsg)]
    <3> DEFINE m == [n |-> f.n, from |-> x, h |-> f.h]
    <3>1. m \in SendMsg /\ sendlist_' = [sendlist_ EXCEPT ![f.to] = Append(@, m)]
      BY <2>3, <2>4
    <3> HIDE DEF m
    <3>2. sendlist_[f.to] \in Seq(SendMsg) /\ sendlist_ \in [Threads -> Seq(SendMsg)]
      BY <2>2, <1>0 DEF TypeInv
    <3>3. Append(sendlist_[f.to], m) \in Seq(SendMsg)
      BY <3>1, <3>2
    <3> QED
      BY <3>1, <3>2, <3>3
  <2>8. has_sends_' \in [All -> BOOLEAN] /\ ForeignQuiet'
    BY <2>2, <2>4, <1>0, ThreadsAssumption DEF TypeInv, ForeignQuiet, All
  <2> QED
    BY <2>2, <2>4, <2>5, <2>6, <2>7, <2>8, <1>0, <1>1 DEF TypeInv, f
<1>3. CASE f.call = "Post"
  <2>1. f \in PostFrame /\ Moved(x, 0, 1)
    BY <1>3, DeliverMoves
  <2>2. f.to \in Threads /\ f.n \in PostIds /\ f.h \in Handlers
    BY <2>1 DEF PostFrame
  <2>3. [n |-> f.n, h |-> f.h] \in PostMsg
    BY <2>2 DEF PostMsg
  <2>4. /\ msgq_' = [msgq_ EXCEPT ![f.to] = Append(@, [n |-> f.n, h |-> f.h])]
        /\ fSignaled_' = [fSignaled_ EXCEPT ![f.to] = TRUE]
        /\ UNCHANGED <<sendlist_, has_sends_>>
    BY <1>1, <1>3, Zenon DEF Deliver, WakeUp
  <2>5. Shape'
    BY <2>1, <1>0, ShapeReturns
  <2>6. stack' \in [All -> Seq(Frame)]
    BY <2>1, MovedType
  <2> HIDE DEF f
  <2>7. msgq_' \in [Threads -> Seq(PostMsg)]
    <3> DEFINE m == [n |-> f.n, h |-> f.h]
    <3>1. m \in PostMsg /\ msgq_' = [msgq_ EXCEPT ![f.to] = Append(@, m)]
      BY <2>3, <2>4
    <3> HIDE DEF m
    <3>2. msgq_[f.to] \in Seq(PostMsg) /\ msgq_ \in [Threads -> Seq(PostMsg)]
      BY <2>2, <1>0 DEF TypeInv
    <3>3. Append(msgq_[f.to], m) \in Seq(PostMsg)
      BY <3>1, <3>2
    <3> QED
      BY <3>1, <3>2, <3>3
  <2>8. fSignaled_' \in [All -> BOOLEAN] /\ ForeignQuiet'
    BY <2>4, <1>0 DEF TypeInv, ForeignQuiet
  <2> QED
    BY <2>2, <2>4, <2>5, <2>6, <2>7, <2>8, <1>0, <1>1 DEF TypeInv, f
<1> QED
  BY <1>1, <1>2, <1>3

(* What NextSend leaves is typed.                                          *)
LEMMA NextSendTypes ==
    ASSUME Typed, NEW x \in All, NEW a \in {"next", "signal"}, In(x, "ReceiveSends", a), NextSend(x)
    PROVE  /\ sendlist_' \in [Threads -> Seq(SendMsg)] /\ has_sends_' \in [All -> BOOLEAN]
           /\ crit_' \in [Threads -> All \cup {None}]
           /\ ForeignQuiet' /\ stack' \in [All -> Seq(Frame)] /\ Shape'
<1>0. TypeInv /\ Shape /\ ForeignQuiet /\ stack \in [All -> Seq(Frame)]
  BY DEF Typed, TypeInv
<1>1. crit_' \in [Threads -> All \cup {None}]
  BY <1>0 DEF TypeInv, NextSend
<1>2. x \in Threads /\ 1 \in DOMAIN stack[x] /\ stack[x][1].call = "ReceiveSends"
  BY NextSendMoves DEF Is
<1>3. CASE sendlist_[x] = <<>>
  <2>1. Moved(x, 0, 1)
    BY <1>3, NextSendMoves
  <2>2. has_sends_' = [has_sends_ EXCEPT ![x] = FALSE] /\ sendlist_' = sendlist_
    BY <1>3 DEF NextSend
  <2>3. Shape'
    BY <2>1, <1>0, ShapeReturns
  <2>4. stack' \in [All -> Seq(Frame)]
    BY <2>1, MovedType
  <2> QED
    BY <2>2, <2>3, <2>4, <1>0, <1>1, <1>2, ThreadsAssumption DEF TypeInv, ForeignQuiet, All
<1>4. CASE sendlist_[x] # <<>>
  <2>1. /\ Moved(x, 2, -1) /\ Is(stack'[x][1], "OnMessage", "body")
        /\ Is(stack'[x][2], "ReceiveSends", "reply")
    BY <1>4, NextSendMoves
  <2>2. has_sends_' = has_sends_ /\ sendlist_' = [sendlist_ EXCEPT ![x] = Tail(@)]
    BY <1>4 DEF NextSend
  <2>3. Shape'
    <3>1. Resting(stack'[x][2]) /\ ~Serving(stack'[x][2]) /\ Told(stack'[x][1])
      BY <2>1 DEF Is, Resting, Serving, Told
    <3>2. Told(stack'[x][2])
      <4>1. sendlist_[x] \in Seq(SendMsg) /\ 1 \in DOMAIN sendlist_[x]
        BY <1>0, <1>2, <1>4, NextSendMoves DEF TypeInv
      <4>2. sendlist_[x][1] \in SendMsg
        BY <4>1, SeqFacts
      <4>3. sendlist_[x][1].n \in SendIds /\ sendlist_[x][1].from \in All
        BY <4>2 DEF SendMsg
      <4>4. sendlist_[x][1].n # 0 /\ sendlist_[x][1].from # None
        BY <4>3, <1>0, LoadTypes, ThreadsAssumption DEF SendIds, All
      <4> QED
        BY <4>4, <1>4, NextSendMoves DEF Told
    <3> QED
      BY <2>1, <3>1, <3>2, <1>0, <1>2, ShapeCalls, ThreadsAssumption DEF Is
  <2>4. stack' \in [All -> Seq(Frame)]
    BY <2>1, MovedType
  <2>5. sendlist_' \in [Threads -> Seq(SendMsg)]
    <3>1. sendlist_[x] \in Seq(SendMsg)
      BY <1>0, <1>2 DEF TypeInv
    <3>2. Tail(sendlist_[x]) \in Seq(SendMsg)
      BY <3>1, <1>4
    <3> QED
      BY <3>2, <2>2, <1>0 DEF TypeInv
  <2> QED
    BY <2>2, <2>3, <2>4, <2>5, <1>0, <1>1 DEF TypeInv, ForeignQuiet
<1> QED
  BY <1>3, <1>4

(* Every step keeps types and shape.                                       *)
LEMMA TypedStep ==
    ASSUME Typed, [Next]_vars
    PROVE  Typed'
<1>1. ASSUME NEW x \in All, NEW h \in alive, NEW to \in Threads, SendCall(x, to, h) PROVE Typed'
  <2>0. Typed /\ TypeInv /\ Shape /\ ForeignQuiet /\ stack \in [All -> Seq(Frame)]
        /\ load' = load
    BY <1>1 DEF Typed, TypeInv, SendCall, counts
  <2>a. h \in Handlers /\ MayCall(x)
    BY <1>1, <2>0 DEF TypeInv, SendCall
  <2>b. Moved(x, 1, -1) /\ stack'[x][1].call \in {"OnMessage", "Send"} /\ sends + 1 \in SendIds
        /\ (x \in Foreign => stack'[x][1].call # "OnMessage")
    <3>1. x \in Foreign => to # x
      BY ThreadsAssumption
    <3>2. /\ Moved(x, 1, -1) /\ sends + 1 \in SendIds
          /\ to = x => stack'[x][1].call = "OnMessage"
          /\ to # x => stack'[x][1].call = "Send"
      BY <1>1, <2>0, <2>a, SendCallMoves DEF Is
    <3> QED
      BY <3>1, <3>2
  <2>1. Shape'
    BY <2>0, <2>a, <2>b, MayCallTop, ShapeEnters
  <2>2. stack' \in [All -> Seq(Frame)]
    BY <2>b, MovedType
  <2>c. sends' \in 0 .. load'.sends
    <3>1. sends + 1 \in 1 .. load.sends /\ sends' = sends + 1 /\ load' = load /\ load.sends \in Nat
      BY <1>1, <2>0, <2>b, LoadTypes DEF SendCall, SendIds
    <3> QED
      BY <3>1
  <2>t. TypeInv'
    BY <1>1, <2>c, <2>0, <2>2, SameTypes DEF TypeInv, SendCall, queues, manager, counts
  <2>f. ForeignQuiet'
    BY <1>1, <2>0 DEF ForeignQuiet, SendCall, queues
  <2> QED
    BY <2>1, <2>t, <2>f DEF Typed
<1>2. ASSUME NEW x \in All, NEW h \in alive, NEW to \in Threads, PostCall(x, to, h) PROVE Typed'
  <2>0. Typed /\ TypeInv /\ Shape /\ ForeignQuiet /\ stack \in [All -> Seq(Frame)]
        /\ load' = load
    BY <1>2 DEF Typed, TypeInv, PostCall, counts
  <2>a. h \in Handlers /\ MayCall(x)
    BY <1>2, <2>0 DEF TypeInv, PostCall
  <2>b. Moved(x, 1, -1) /\ stack'[x][1].call \in {"Post"} /\ posts + 1 \in PostIds
    BY <1>2, <2>0, <2>a, PostCallMoves, ThreadsAssumption DEF Is
  <2>1. Shape'
    BY <2>0, <2>a, <2>b, MayCallTop, ShapeEnters
  <2>2. stack' \in [All -> Seq(Frame)]
    BY <2>b, MovedType
  <2>c. posts' \in 0 .. load'.posts
    <3>1. posts + 1 \in 1 .. load.posts /\ posts' = posts + 1 /\ load' = load /\ load.posts \in Nat
      BY <1>2, <2>0, <2>b, LoadTypes DEF PostCall, PostIds
    <3> QED
      BY <3>1
  <2>t. TypeInv'
    BY <1>2, <2>c, <2>0, <2>2, SameTypes DEF TypeInv, PostCall, queues, manager, counts
  <2>f. ForeignQuiet'
    BY <1>2, <2>0 DEF ForeignQuiet, PostCall, queues
  <2> QED
    BY <2>1, <2>t, <2>f DEF Typed
<1>3. ASSUME NEW x \in All, NEW h \in alive, ClearCall(x, h) PROVE Typed'
  <2>0. Typed /\ TypeInv /\ Shape /\ ForeignQuiet /\ stack \in [All -> Seq(Frame)]
        /\ load' = load
    BY <1>3 DEF Typed, TypeInv, ClearCall, counts
  <2>a. h \in Handlers /\ MayCall(x)
    BY <1>3, <2>0 DEF TypeInv, ClearCall
  <2>b. Moved(x, 1, -1) /\ stack'[x][1].call \in {"Clear"}
    BY <1>3, <2>0, <2>a, ClearCallMoves, ThreadsAssumption DEF Is
  <2>1. Shape'
    BY <2>0, <2>a, <2>b, MayCallTop, ShapeEnters
  <2>2. stack' \in [All -> Seq(Frame)]
    BY <2>b, MovedType
  <2>t. TypeInv'
    BY <1>3, <2>0, <2>2, SameTypes DEF TypeInv, ClearCall, queues, manager, counts
  <2>f. ForeignQuiet'
    BY <1>3, <2>0 DEF ForeignQuiet, ClearCall, queues
  <2> QED
    BY <2>1, <2>t, <2>f DEF Typed
<1>4. ASSUME NEW x \in All, OnMessageReturns(x) PROVE Typed'
  <2>0. Typed /\ TypeInv /\ Shape /\ ForeignQuiet /\ stack \in [All -> Seq(Frame)]
        /\ load' = load
    BY <1>4 DEF Typed, TypeInv, OnMessageReturns, counts
  <2>b. Moved(x, 0, 1)
    BY <1>4, OnMessageReturnsMoves, <2>0
  <2>1. Shape'
    BY <2>0, <2>b, ShapeReturns
  <2>2. stack' \in [All -> Seq(Frame)]
    BY <2>b, MovedType
  <2>t. TypeInv'
    BY <1>4, <2>0, <2>2, SameTypes DEF TypeInv, OnMessageReturns, queues, manager, counts
  <2>f. ForeignQuiet'
    BY <1>4, <2>0 DEF ForeignQuiet, OnMessageReturns, queues
  <2> QED
    BY <2>1, <2>t, <2>f DEF Typed
<1>5. ASSUME NEW x \in All, EnterActive(x) PROVE Typed'
  <2>0. Typed /\ TypeInv /\ Shape /\ ForeignQuiet /\ stack \in [All -> Seq(Frame)]
        /\ load' = load
    BY <1>5 DEF Typed, TypeInv, EnterActive, counts
  <2>a. (In(x, "Send", "enter") \/ In(x, "Post", "enter")) /\ Deliver(x)
    BY <1>5 DEF EnterActive, Entering
  <2>1. Shape' /\ ForeignQuiet' /\ stack' \in [All -> Seq(Frame)]
    BY <2>0, <2>a, DeliverTypes
  <2>2. /\ msgq_' \in [Threads -> Seq(PostMsg)] /\ sendlist_' \in [Threads -> Seq(SendMsg)]
        /\ has_sends_' \in [All -> BOOLEAN] /\ fSignaled_' \in [All -> BOOLEAN]
        /\ stack[x][1].to \in Threads /\ Head(stack[x]) = stack[x][1]
    BY <2>0, <2>a, DeliverTypes
  <2>t. TypeInv'
    BY <1>5, <2>0, <2>1, <2>2, SameTypes DEF TypeInv, EnterActive, manager, counts
  <2> QED
    BY <2>1, <2>t DEF Typed
<1>6. ASSUME NEW x \in All, EnsureActive(x) PROVE Typed'
  <2>0. Typed /\ TypeInv /\ Shape /\ ForeignQuiet /\ stack \in [All -> Seq(Frame)]
        /\ load' = load
    BY <1>6 DEF Typed, TypeInv, EnsureActive, counts
  <2>b. Moved(x, 1, 0) /\ stack'[x][1].call = stack[x][1].call /\ 1 \in DOMAIN stack[x]
        /\ stack[x][1].call # "ReceiveSends"
    BY <1>6, EnsureActiveMoves, <2>0 DEF Is
  <2>1. Shape'
    BY <2>0, <2>b, ShapeGoes DEF Told
  <2>2. stack' \in [All -> Seq(Frame)]
    BY <2>b, MovedType
  <2>3. active_' \in [Threads -> BOOLEAN] /\ crit_' \in [Threads -> All \cup {None}]
    BY <1>6, <2>0 DEF EnsureActive, TypeInv
  <2>t. TypeInv'
    BY <1>6, <2>3, <2>0, <2>2, SameTypes DEF TypeInv, EnsureActive, queues, manager, counts
  <2>f. ForeignQuiet'
    BY <1>6, <2>0 DEF ForeignQuiet, EnsureActive, queues
  <2> QED
    BY <2>1, <2>t, <2>f DEF Typed
<1>7. ASSUME NEW x \in All, Add(x) PROVE Typed'
  <2>0. Typed /\ TypeInv /\ Shape /\ ForeignQuiet /\ stack \in [All -> Seq(Frame)]
        /\ load' = load
    BY <1>7 DEF Typed, TypeInv, Add, counts
  <2>a. (In(x, "Send", "add") \/ In(x, "Post", "add")) /\ Deliver(x)
    BY <1>7 DEF Add, Entering
  <2>1. Shape' /\ ForeignQuiet' /\ stack' \in [All -> Seq(Frame)]
    BY <2>0, <2>a, DeliverTypes
  <2>2. /\ msgq_' \in [Threads -> Seq(PostMsg)] /\ sendlist_' \in [Threads -> Seq(SendMsg)]
        /\ has_sends_' \in [All -> BOOLEAN] /\ fSignaled_' \in [All -> BOOLEAN]
        /\ stack[x][1].to \in Threads /\ Head(stack[x]) = stack[x][1]
    BY <2>0, <2>a, DeliverTypes
  <2>3. message_queues_' \in Seq(Threads) /\ crit_' \in [Threads -> All \cup {None}]
    BY <1>7, <2>0, <2>2 DEF Add, TypeInv
  <2>t. TypeInv'
    BY <1>7, <2>0, <2>1, <2>2, <2>3, SameTypes DEF TypeInv, Add, manager, counts
  <2> QED
    BY <2>1, <2>t DEF Typed
<1>8. ASSUME NEW x \in All, SendWakes(x) PROVE Typed'
  <2>0. Typed /\ TypeInv /\ Shape /\ ForeignQuiet /\ stack \in [All -> Seq(Frame)]
        /\ load' = load
    BY <1>8 DEF Typed, TypeInv, SendWakes, counts
  <2>b. Moved(x, 1, 0) /\ stack'[x][1].call = stack[x][1].call /\ 1 \in DOMAIN stack[x]
        /\ stack[x][1].call # "ReceiveSends"
    BY <1>8, SendWakesMoves, <2>0 DEF Is
  <2>1. Shape'
    BY <2>0, <2>b, ShapeGoes DEF Told
  <2>2. stack' \in [All -> Seq(Frame)]
    BY <2>b, MovedType
  <2>3. fSignaled_' \in [All -> BOOLEAN]
    BY <1>8, <2>0 DEF SendWakes, TypeInv, WakeUp
  <2>t. TypeInv'
    BY <1>8, <2>3, <2>0, <2>2, SameTypes DEF TypeInv, SendWakes, queues, manager, counts
  <2>f. ForeignQuiet'
    BY <1>8, <2>0 DEF ForeignQuiet, SendWakes, queues
  <2> QED
    BY <2>1, <2>t, <2>f DEF Typed
<1>9. ASSUME NEW x \in All, SendTests(x) PROVE Typed'
  <2>0. Typed /\ TypeInv /\ Shape /\ ForeignQuiet /\ stack \in [All -> Seq(Frame)]
        /\ load' = load
    BY <1>9 DEF Typed, TypeInv, SendTests, counts
  <2>b. /\ Moved(x, 2, -1) /\ stack'[x][2].call = stack[x][1].call /\ 1 \in DOMAIN stack[x]
        /\ Is(stack'[x][1], "ReceiveSends", "check") /\ Is(stack'[x][2], "Send", "wait")
    BY <1>9, SendTestsMoves, <2>0 DEF Is
  <2>1. Shape'
    BY <2>0, <2>b, ShapeCalls DEF Is, Resting, Told
  <2>2. stack' \in [All -> Seq(Frame)]
    BY <2>b, MovedType
  <2>t. TypeInv'
    BY <1>9, <2>0, <2>2, SameTypes DEF TypeInv, SendTests, queues, manager, counts
  <2>f. ForeignQuiet'
    BY <1>9, <2>0 DEF ForeignQuiet, SendTests, queues
  <2> QED
    BY <2>1, <2>t, <2>f DEF Typed
<1>10. ASSUME NEW x \in All, SendWaits(x) PROVE Typed'
  <2>0. Typed /\ TypeInv /\ Shape /\ ForeignQuiet /\ stack \in [All -> Seq(Frame)]
        /\ load' = load
    BY <1>10 DEF Typed, TypeInv, SendWaits, counts
  <2>b. Moved(x, 1, 0) /\ stack'[x][1].call = stack[x][1].call /\ 1 \in DOMAIN stack[x]
        /\ stack[x][1].call # "ReceiveSends"
    BY <1>10, SendWaitsMoves, <2>0 DEF Is
  <2>1. Shape'
    BY <2>0, <2>b, ShapeGoes DEF Told
  <2>2. stack' \in [All -> Seq(Frame)]
    BY <2>b, MovedType
  <2>3. fSignaled_' \in [All -> BOOLEAN]
    BY <1>10, <2>0 DEF SendWaits, TypeInv, WakeUp
  <2>t. TypeInv'
    BY <1>10, <2>3, <2>0, <2>2, SameTypes DEF TypeInv, SendWaits, queues, manager, counts
  <2>f. ForeignQuiet'
    BY <1>10, <2>0 DEF ForeignQuiet, SendWaits, queues
  <2> QED
    BY <2>1, <2>t, <2>f DEF Typed
<1>11. ASSUME NEW x \in All, SendReturns(x) PROVE Typed'
  <2>0. Typed /\ TypeInv /\ Shape /\ ForeignQuiet /\ stack \in [All -> Seq(Frame)]
        /\ load' = load
    BY <1>11 DEF Typed, TypeInv, SendReturns, counts
  <2>b. Moved(x, 0, 1)
    BY <1>11, SendReturnsMoves, <2>0
  <2>1. Shape'
    BY <2>0, <2>b, ShapeReturns
  <2>2. stack' \in [All -> Seq(Frame)]
    BY <2>b, MovedType
  <2>3. fSignaled_' \in [All -> BOOLEAN] /\ ready' \subseteq SendIds
    BY <1>11, <2>0 DEF SendReturns, TypeInv, WakeUp
  <2>t. TypeInv'
    BY <1>11, <2>3, <2>0, <2>2, SameTypes DEF TypeInv, SendReturns, queues, manager, counts
  <2>f. ForeignQuiet'
    BY <1>11, <2>0 DEF ForeignQuiet, SendReturns, queues
  <2> QED
    BY <2>1, <2>t, <2>f DEF Typed
<1>12. ASSUME NEW x \in All, ReceiveChecks(x) PROVE Typed'
  <2>0. Typed /\ TypeInv /\ Shape /\ ForeignQuiet /\ stack \in [All -> Seq(Frame)]
        /\ load' = load
    BY <1>12 DEF Typed, TypeInv, ReceiveChecks, counts
  <2>1. Shape' /\ stack' \in [All -> Seq(Frame)]
    <3>1. CASE ~has_sends_[x]
      <4>1. Moved(x, 0, 1)
        BY <3>1, <1>12, <2>0, ReceiveChecksMoves
      <4> QED
        BY <4>1, <2>0, ShapeReturns, MovedType
    <3>2. CASE has_sends_[x]
      <4>1. Moved(x, 1, 0) /\ stack'[x][1].call = stack[x][1].call /\ 1 \in DOMAIN stack[x] /\ x \in Threads
            /\ Told(stack'[x][1])
        BY <3>2, <1>12, <2>0, ReceiveChecksMoves DEF Is, Told
      <4> QED
        BY <4>1, <2>0, ShapeGoes, MovedType, ThreadsAssumption
    <3> QED
      BY <3>1, <3>2
  <2>2. stack' \in [All -> Seq(Frame)]
    BY <2>1
  <2>t. TypeInv'
    BY <1>12, <2>0, <2>2, SameTypes DEF TypeInv, ReceiveChecks, queues, manager, counts
  <2>f. ForeignQuiet'
    BY <1>12, <2>0 DEF ForeignQuiet, ReceiveChecks, queues
  <2> QED
    BY <2>1, <2>t, <2>f DEF Typed
<1>13. ASSUME NEW x \in All, ReceiveEnters(x) PROVE Typed'
  <2>0. Typed /\ TypeInv /\ Shape /\ ForeignQuiet /\ stack \in [All -> Seq(Frame)]
        /\ load' = load
    BY <1>13 DEF Typed, TypeInv, ReceiveEnters, counts
  <2>a. In(x, "ReceiveSends", "next") /\ NextSend(x)
    BY <1>13 DEF ReceiveEnters
  <2>1. Shape' /\ ForeignQuiet' /\ stack' \in [All -> Seq(Frame)]
    BY <2>0, <2>a, NextSendTypes
  <2>2. /\ sendlist_' \in [Threads -> Seq(SendMsg)] /\ has_sends_' \in [All -> BOOLEAN]
        /\ crit_' \in [Threads -> All \cup {None}]
    BY <2>0, <2>a, NextSendTypes
  <2>t. TypeInv'
    BY <1>13, <2>0, <2>1, <2>2, SameTypes DEF TypeInv, ReceiveEnters, manager, counts
  <2> QED
    BY <2>1, <2>t DEF Typed
<1>14. ASSUME NEW x \in All, ReceiveReplies(x) PROVE Typed'
  <2>0. Typed /\ TypeInv /\ Shape /\ ForeignQuiet /\ stack \in [All -> Seq(Frame)]
        /\ load' = load
    BY <1>14 DEF Typed, TypeInv, ReceiveReplies, counts
  <2>b. Moved(x, 1, 0) /\ stack'[x][1].call = stack[x][1].call /\ 1 \in DOMAIN stack[x] /\ x \in Threads
        /\ Told(stack'[x][1])
    BY <1>14, ReceiveRepliesMoves, <2>0 DEF Is
  <2>1. Shape'
    BY <2>0, <2>b, ShapeGoes, ThreadsAssumption DEF Told
  <2>2. stack' \in [All -> Seq(Frame)]
    BY <2>b, MovedType
  <2>3. ready' \subseteq SendIds /\ crit_' \in [Threads -> All \cup {None}]
    <3>1. x \in Threads /\ stack[x][1].n \in SendIds /\ Head(stack[x]) = stack[x][1]
      BY <1>14, <2>0, ReceiveRepliesMoves
    <3> QED
      BY <1>14, <3>1, <2>0 DEF ReceiveReplies, TypeInv
  <2>t. TypeInv'
    BY <1>14, <2>3, <2>0, <2>2, SameTypes DEF TypeInv, ReceiveReplies, queues, manager, counts
  <2>f. ForeignQuiet'
    BY <1>14, <2>0 DEF ForeignQuiet, ReceiveReplies, queues
  <2> QED
    BY <2>1, <2>t, <2>f DEF Typed
<1>15. ASSUME NEW x \in All, ReceiveSignals(x) PROVE Typed'
  <2>0. Typed /\ TypeInv /\ Shape /\ ForeignQuiet /\ stack \in [All -> Seq(Frame)]
        /\ load' = load
    BY <1>15 DEF Typed, TypeInv, ReceiveSignals, counts
  <2>a. In(x, "ReceiveSends", "signal") /\ NextSend(x)
    BY <1>15 DEF ReceiveSignals
  <2>1. Shape' /\ ForeignQuiet' /\ stack' \in [All -> Seq(Frame)]
    BY <2>0, <2>a, NextSendTypes
  <2>2. /\ sendlist_' \in [Threads -> Seq(SendMsg)] /\ has_sends_' \in [All -> BOOLEAN]
        /\ crit_' \in [Threads -> All \cup {None}]
    BY <2>0, <2>a, NextSendTypes
  <2>3. fSignaled_' \in [All -> BOOLEAN]
    BY <1>15, <2>0 DEF ReceiveSignals, TypeInv, WakeUp
  <2>t. TypeInv'
    BY <1>15, <2>0, <2>1, <2>2, <2>3, SameTypes DEF TypeInv, ReceiveSignals, manager, counts
  <2> QED
    BY <2>1, <2>t DEF Typed
<1>16. ASSUME NEW x \in All, ClearNext(x) PROVE Typed'
  <2>0. Typed /\ TypeInv /\ Shape /\ ForeignQuiet /\ stack \in [All -> Seq(Frame)]
        /\ load' = load
    BY <1>16 DEF Typed, TypeInv, ClearNext, counts
  <2>1. Shape' /\ stack' \in [All -> Seq(Frame)]
    <3>1. CASE stack[x][1].todo = <<>>
      <4>1. Moved(x, 0, 1)
        BY <3>1, <1>16, <2>0, ClearNextMoves
      <4> QED
        BY <4>1, <2>0, ShapeReturns, MovedType
    <3>2. CASE stack[x][1].todo # <<>>
      <4>1. Moved(x, 1, 0) /\ stack'[x][1].call = stack[x][1].call /\ 1 \in DOMAIN stack[x]
          /\ stack[x][1].call # "ReceiveSends"
            /\ Told(stack'[x][1])
        BY <3>2, <1>16, <2>0, ClearNextMoves DEF Is, Told
      <4> QED
        BY <4>1, <2>0, ShapeGoes, MovedType, ThreadsAssumption
    <3> QED
      BY <3>1, <3>2
  <2>2. stack' \in [All -> Seq(Frame)]
    BY <2>1
  <2>3. /\ msgq_' \in [Threads -> Seq(PostMsg)] /\ sendlist_' \in [Threads -> Seq(SendMsg)]
        /\ ready' \subseteq SendIds /\ fSignaled_' \in [All -> BOOLEAN]
        /\ manager_crit_' \in All \cup {None}
        /\ UNCHANGED <<fStop_, active_, crit_, has_sends_>>
    <3>0. Head(stack[x]) = stack[x][1] /\ stack[x][1].todo \in Seq(Threads)
      BY <1>16, <2>0, ClearNextMoves
    <3>1. CASE stack[x][1].todo = <<>>
      BY <3>0, <3>1, <1>16, <2>0 DEF ClearNext, TypeInv, queues
    <3>2. CASE stack[x][1].todo # <<>>
      <4>1. Head(stack[x][1].todo) \in Threads
        BY <3>0, <3>2
      <4>2. ClearOne(Head(stack[x][1].todo), {stack[x][1].h})
        BY <3>0, <3>2, <1>16 DEF ClearNext
      <4>3. UNCHANGED <<fStop_, active_, crit_, has_sends_, manager_crit_>>
        BY <3>0, <3>2, <1>16 DEF ClearNext
      <4> QED
        BY <4>1, <4>2, <4>3, <2>0, ClearOneTypes DEF TypeInv
    <3> QED
      BY <3>1, <3>2
  <2>t. TypeInv'
    BY <1>16, <2>0, <2>2, <2>3, SameTypes DEF TypeInv, ClearNext, counts
  <2>f. ForeignQuiet'
    BY <2>0, <2>3 DEF ForeignQuiet
  <2> QED
    BY <2>1, <2>t, <2>f DEF Typed
<1>17. ASSUME NEW x \in All, GetReceives(x) PROVE Typed'
  <2>0. Typed /\ TypeInv /\ Shape /\ ForeignQuiet /\ stack \in [All -> Seq(Frame)]
        /\ load' = load
    BY <1>17 DEF Typed, TypeInv, GetReceives, counts
  <2>1. Shape' /\ stack' \in [All -> Seq(Frame)]
    <3>0. 1 \in DOMAIN stack[x] /\ stack[x][1].call = "ProcessMessages" /\ x \in Threads
      BY <1>17, <2>0, GetReceivesMoves DEF Is
    <3>1. CASE ~has_sends_[x]
      <4>1. Moved(x, 1, 0) /\ stack'[x][1].call = stack[x][1].call /\ Told(stack'[x][1])
        BY <3>1, <1>17, <2>0, GetReceivesMoves DEF Is, Told
      <4> QED
        BY <3>0, <4>1, <2>0, ShapeGoes, MovedType, ThreadsAssumption
    <3>2. CASE has_sends_[x]
      <4>1. /\ Moved(x, 2, -1) /\ stack'[x][2].call = stack[x][1].call
            /\ stack'[x][1].call # "ProcessMessages" /\ Resting(stack'[x][2])
            /\ (Serving(stack'[x][2]) => stack'[x][1].call = "ReceiveSends")
            /\ Told(stack'[x][1]) /\ Told(stack'[x][2])
        BY <3>2, <1>17, <2>0, GetReceivesMoves DEF Is, Resting, Serving, Told
      <4> QED
        BY <3>0, <4>1, <2>0, ShapeCalls, MovedType, ThreadsAssumption
    <3> QED
      BY <3>1, <3>2
  <2>2. stack' \in [All -> Seq(Frame)]
    BY <2>1
  <2>t. TypeInv'
    BY <1>17, <2>0, <2>2, SameTypes DEF TypeInv, GetReceives, queues, manager, counts
  <2>f. ForeignQuiet'
    BY <1>17, <2>0 DEF ForeignQuiet, GetReceives, queues
  <2> QED
    BY <2>1, <2>t, <2>f DEF Typed
<1>18. ASSUME NEW x \in All, GetPops(x) PROVE Typed'
  <2>0. Typed /\ TypeInv /\ Shape /\ ForeignQuiet /\ stack \in [All -> Seq(Frame)]
        /\ load' = load
    BY <1>18 DEF Typed, TypeInv, GetPops, counts
  <2>1. Shape' /\ stack' \in [All -> Seq(Frame)]
    <3>0. 1 \in DOMAIN stack[x] /\ stack[x][1].call = "ProcessMessages" /\ x \in Threads
      BY <1>18, <2>0, GetPopsMoves DEF Is
    <3>1. CASE msgq_[x] = <<>>
      <4>1. Moved(x, 1, 0) /\ stack'[x][1].call = stack[x][1].call /\ Told(stack'[x][1])
        BY <3>1, <1>18, <2>0, GetPopsMoves DEF Is, Told
      <4> QED
        BY <3>0, <4>1, <2>0, ShapeGoes, MovedType, ThreadsAssumption
    <3>2. CASE msgq_[x] # <<>>
      <4>1. /\ Moved(x, 2, -1) /\ stack'[x][2].call = stack[x][1].call
            /\ stack'[x][1].call # "ProcessMessages" /\ Resting(stack'[x][2])
            /\ (Serving(stack'[x][2]) => stack'[x][1].call = "ReceiveSends")
            /\ Told(stack'[x][1]) /\ Told(stack'[x][2])
        BY <3>2, <1>18, <2>0, GetPopsMoves DEF Is, Resting, Serving, Told
      <4> QED
        BY <3>0, <4>1, <2>0, ShapeCalls, MovedType, ThreadsAssumption
    <3> QED
      BY <3>1, <3>2
  <2>2. stack' \in [All -> Seq(Frame)]
    BY <2>1
  <2>3. msgq_' \in [Threads -> Seq(PostMsg)]
    <3>1. x \in Threads
      BY <1>18, <2>0, GetPopsMoves
    <3>2. msgq_[x] \in Seq(PostMsg)
      BY <3>1, <2>0 DEF TypeInv
    <3>3. msgq_[x] # <<>> => Tail(msgq_[x]) \in Seq(PostMsg)
      BY <3>2
    <3> QED
      BY <3>3, <1>18, <2>0 DEF GetPops, TypeInv
  <2>t. TypeInv'
    BY <1>18, <2>3, <2>0, <2>2, SameTypes DEF TypeInv, GetPops, queues, manager, counts
  <2>f. ForeignQuiet'
    BY <1>18, <2>0 DEF ForeignQuiet, GetPops, queues
  <2> QED
    BY <2>1, <2>t, <2>f DEF Typed
<1>19. ASSUME NEW x \in All, GetStops(x) PROVE Typed'
  <2>0. Typed /\ TypeInv /\ Shape /\ ForeignQuiet /\ stack \in [All -> Seq(Frame)]
        /\ load' = load
    BY <1>19 DEF Typed, TypeInv, GetStops, counts
  <2>1. Shape' /\ stack' \in [All -> Seq(Frame)]
    <3>1. CASE fStop_[x]
      <4>1. Moved(x, 0, 1)
        BY <3>1, <1>19, <2>0, GetStopsMoves
      <4> QED
        BY <4>1, <2>0, ShapeReturns, MovedType
    <3>2. CASE ~fStop_[x]
      <4>1. Moved(x, 1, 0) /\ stack'[x][1].call = stack[x][1].call /\ 1 \in DOMAIN stack[x]
          /\ stack[x][1].call # "ReceiveSends"
            /\ Told(stack'[x][1])
        BY <3>2, <1>19, <2>0, GetStopsMoves DEF Is, Told
      <4> QED
        BY <4>1, <2>0, ShapeGoes, MovedType, ThreadsAssumption
    <3> QED
      BY <3>1, <3>2
  <2>2. stack' \in [All -> Seq(Frame)]
    BY <2>1
  <2>t. TypeInv'
    BY <1>19, <2>0, <2>2, SameTypes DEF TypeInv, GetStops, queues, manager, counts
  <2>f. ForeignQuiet'
    BY <1>19, <2>0 DEF ForeignQuiet, GetStops, queues
  <2> QED
    BY <2>1, <2>t, <2>f DEF Typed
<1>20. ASSUME NEW x \in All, GetWaits(x) PROVE Typed'
  <2>0. Typed /\ TypeInv /\ Shape /\ ForeignQuiet /\ stack \in [All -> Seq(Frame)]
        /\ load' = load
    BY <1>20 DEF Typed, TypeInv, GetWaits, counts
  <2>b. Moved(x, 1, 0) /\ stack'[x][1].call = stack[x][1].call /\ 1 \in DOMAIN stack[x]
        /\ stack[x][1].call # "ReceiveSends"
    BY <1>20, GetWaitsMoves, <2>0 DEF Is
  <2>1. Shape'
    BY <2>0, <2>b, ShapeGoes DEF Told
  <2>2. stack' \in [All -> Seq(Frame)]
    BY <2>b, MovedType
  <2>3. fSignaled_' \in [All -> BOOLEAN]
    BY <1>20, <2>0 DEF GetWaits, TypeInv, WakeUp
  <2>t. TypeInv'
    BY <1>20, <2>3, <2>0, <2>2, SameTypes DEF TypeInv, GetWaits, queues, manager, counts
  <2>f. ForeignQuiet'
    BY <1>20, <2>0 DEF ForeignQuiet, GetWaits, queues
  <2> QED
    BY <2>1, <2>t, <2>f DEF Typed
<1>21. ASSUME NEW t \in Threads, QuitSets(t) PROVE Typed'
  <2>0. Typed /\ TypeInv /\ Shape /\ ForeignQuiet /\ stack \in [All -> Seq(Frame)]
        /\ load' = load
    BY <1>21 DEF Typed, TypeInv, QuitSets, counts
  <2>2. stack' = stack
    BY <1>21 DEF QuitSets
  <2>1. Shape'
    BY <2>0, <2>2 DEF Shape
  <2>t. TypeInv'
    BY <1>21, <2>0, <2>2, SameTypes DEF TypeInv, QuitSets, queues, manager, counts
  <2>f. ForeignQuiet'
    BY <1>21, <2>0 DEF ForeignQuiet, QuitSets, queues
  <2> QED
    BY <2>1, <2>t, <2>f DEF Typed
<1>22. ASSUME NEW t \in Threads, QuitWakes(t) PROVE Typed'
  <2>0. Typed /\ TypeInv /\ Shape /\ ForeignQuiet /\ stack \in [All -> Seq(Frame)]
        /\ load' = load
    BY <1>22 DEF Typed, TypeInv, QuitWakes, counts
  <2>2. stack' = stack
    BY <1>22 DEF QuitWakes
  <2>1. Shape'
    BY <2>0, <2>2 DEF Shape
  <2>3. fSignaled_' \in [All -> BOOLEAN]
    BY <1>22, <2>0 DEF QuitWakes, TypeInv, WakeUp
  <2>t. TypeInv'
    BY <1>22, <2>3, <2>0, <2>2, SameTypes DEF TypeInv, QuitWakes, queues, manager, counts
  <2>f. ForeignQuiet'
    BY <1>22, <2>0 DEF ForeignQuiet, QuitWakes, queues
  <2> QED
    BY <2>1, <2>t, <2>f DEF Typed
<1>23. ASSUME NEW t \in Threads, Joins(t) PROVE Typed'
  <2>0. Typed /\ TypeInv /\ Shape /\ ForeignQuiet /\ stack \in [All -> Seq(Frame)]
        /\ load' = load
    BY <1>23 DEF Typed, TypeInv, Joins, counts
  <2>2. stack' = stack
    BY <1>23 DEF Joins
  <2>1. Shape'
    BY <2>0, <2>2 DEF Shape
  <2>3. /\ msgq_' \in [Threads -> Seq(PostMsg)] /\ sendlist_' \in [Threads -> Seq(SendMsg)]
        /\ ready' \subseteq SendIds /\ fSignaled_' \in [All -> BOOLEAN]
    BY <1>23, <2>0, ClearOneTypes DEF Joins, TypeInv
  <2>t. TypeInv'
    BY <1>23, <2>3, <2>0, <2>2, SameTypes DEF TypeInv, Joins, queues, manager, counts
  <2>f. ForeignQuiet'
    BY <1>23, <2>0 DEF ForeignQuiet, Joins, queues
  <2> QED
    BY <2>1, <2>t, <2>f DEF Typed
<1>24. ASSUME NEW t \in Threads, Removes(t) PROVE Typed'
  <2>0. Typed /\ TypeInv /\ Shape /\ ForeignQuiet /\ stack \in [All -> Seq(Frame)]
        /\ load' = load
    BY <1>24 DEF Typed, TypeInv, Removes, counts
  <2>2. stack' = stack
    BY <1>24 DEF Removes
  <2>1. Shape'
    BY <2>0, <2>2 DEF Shape
  <2>3. message_queues_' \in Seq(Threads)
    BY <1>24, <2>0, SelectedElements DEF Removes, TypeInv
  <2>t. TypeInv'
    BY <1>24, <2>3, <2>0, <2>2, SameTypes DEF TypeInv, Removes, queues, manager, counts
  <2>f. ForeignQuiet'
    BY <1>24, <2>0 DEF ForeignQuiet, Removes, queues
  <2> QED
    BY <2>1, <2>t, <2>f DEF Typed
<1>25. CASE UNCHANGED vars
  <2>1. TypeInv'
    BY <1>25, SameTypes DEF Typed, TypeInv, vars, queues, manager, counts
  <2>2. Shape' /\ ForeignQuiet'
    BY <1>25 DEF Typed, Shape, ForeignQuiet, vars, queues
  <2> QED
    BY <2>1, <2>2 DEF Typed
<1> QED
  BY <1>1, <1>2, <1>3, <1>4, <1>5, <1>6, <1>7, <1>8, <1>9, <1>10, <1>11, <1>12, <1>13,
     <1>14, <1>15, <1>16, <1>17, <1>18, <1>19, <1>20, <1>21, <1>22, <1>23, <1>24,
     <1>25
     DEF Next, Call, Step, Destroy

(* They hold at first: every thread is at the beginning of Get.            *)
LEMMA TypedInit == Init => Typed
<1> SUFFICES ASSUME Init PROVE Typed
  OBVIOUS
<1>0. load \in Loads /\ load.sends \in Nat /\ load.posts \in Nat /\ load.handlers \subseteq Handlers
  BY ThreadsAssumption DEF Init, Load
<1>1. Loop("get") \in Frame /\ Loop("get").call = "ProcessMessages"
  BY LoopFrames, FrameKinds DEF Loop
<1>2. \A x \in All : stack[x] = IF x \in Threads THEN <<Loop("get")>> ELSE <<>>
  BY DEF Init
<1>3. stack \in [All -> Seq(Frame)]
  <2>1. <<Loop("get")>> \in Seq(Frame) /\ <<>> \in Seq(Frame)
    BY <1>1
  <2>2. DOMAIN stack = All /\ stack = [x \in All |-> stack[x]]
    BY DEF Init
  <2>3. \A x \in All : stack[x] \in Seq(Frame)
    BY <2>1, <1>2
  <2> HIDE DEF Frame
  <2> QED
    BY <2>2, <2>3
<1>4. TypeInv
  BY <1>0, <1>3 DEF Init, TypeInv, SendIds, PostIds
<1>5. Shape
  <2>1. ASSUME NEW x \in All, NEW i \in DOMAIN stack[x] PROVE ShapeAt(x, stack[x], i)
    <3>1. x \in Threads /\ stack[x] = <<Loop("get")>>
      BY <2>1, <1>2
    <3>2. i = 1 /\ Len(stack[x]) = 1 /\ stack[x][i] = Loop("get")
      BY <2>1, <3>1
    <3> QED
      BY <3>1, <3>2, <1>1, ThreadsAssumption DEF ShapeAt, Told
  <2> QED
    BY <2>1, ShapeIs
<1>6. ForeignQuiet
  BY DEF Init, ForeignQuiet, All
<1> QED
  BY <1>4, <1>5, <1>6 DEF Typed

(* What is held while f is the innermost call. *)
Holder(f) == \/ f.call \in {"Send", "Post"} /\ f.at = "add"
             \/ f.call = "ReceiveSends" /\ f.at = "signal"
             \/ f.call = "Clear" /\ f.at = "next"

(* x is in a call that holds a lock.                                       *)
Holds(x) == \/ In(x, "Send", "add") \/ In(x, "Post", "add")
            \/ In(x, "ReceiveSends", "signal") \/ In(x, "Clear", "next")

(* That is a matter of its innermost call, ...                             *)
LEMMA HoldsTop ==
    ASSUME Typed, NEW x \in All, ~(1 \in DOMAIN stack[x] /\ Holder(stack[x][1]))
    PROVE  ~Holds(x)
<1>1. stack \in [All -> Seq(Frame)]
  BY DEF Typed, TypeInv
<1> QED
  BY <1>1, InTop DEF Holds, Holder

(* ... after a step as well.                                               *)
LEMMA HoldsNext ==
    ASSUME NEW x \in All, NEW k, NEW d, Moved(x, k, d),
           ~(1 \in DOMAIN stack'[x] /\ Holder(stack'[x][1]))
    PROVE  ~Holds(x)'
<1>1. stack'[x] \in Seq(Frame)
  BY DEF Moved
<1>2. stack'[x] # <<>> => 1 \in DOMAIN stack'[x] /\ Head(stack'[x]) = stack'[x][1]
  BY <1>1, SeqFacts
<1> QED
  BY <1>2 DEF Holds, Holder, In

(* The call that is innermost once another one has returned. *)
LEMMA ReturnedTop ==
    ASSUME Typed, NEW x \in All, Moved(x, 0, 1)
    PROVE  /\ ~Holds(x)'
           /\ 1 \in DOMAIN stack'[x] => 2 \in DOMAIN stack[x] /\ stack'[x][1] = stack[x][2]
                                        /\ ShapeAt(x, stack[x], 2) /\ Resting(stack'[x][1])
<1>1. 1 \in DOMAIN stack'[x] => 2 \in DOMAIN stack[x] /\ stack'[x][1] = stack[x][2]
  <2>1. \A i \in DOMAIN stack'[x] : i > 0 =>
          i + 1 \in DOMAIN stack[x] /\ stack'[x][i] = stack[x][i + 1]
    BY DEF Moved
  <2>2. 1 > 0 /\ 1 + 1 = 2
    OBVIOUS
  <2> QED
    BY <2>1, <2>2
<1>2. 2 \in DOMAIN stack[x] => ShapeAt(x, stack[x], 2)
  BY ShapeIs DEF Typed
<1>3. 1 \in DOMAIN stack'[x] => Resting(stack'[x][1])
  BY <1>1, <1>2 DEF ShapeAt
<1> QED
  BY <1>1, <1>2, <1>3, HoldsNext DEF Resting, Holder

(* Whatever x does, others are in the calls they were in. *)
LEMMA OthersSame ==
    ASSUME NEW x \in All, NEW k, NEW d, Moved(x, k, d), NEW y \in All, y # x
    PROVE  /\ stack'[y] = stack[y]
           /\ \A c, a : In(y, c, a)' <=> In(y, c, a)
           /\ \A t : Adding(y, t)' <=> Adding(y, t)
  BY DEF Moved, In, Adding

(* A step of who holds no lock before or after it keeps Locks.             *)
LEMMA LocksQuiet ==
    ASSUME Locks, NEW x \in All, NEW k, NEW d, Moved(x, k, d), ~Holds(x), ~Holds(x)',
           UNCHANGED <<active_, crit_, manager_crit_, message_queues_>>
    PROVE  Locks'
<1>1. \A y \in All : \A t : Adding(y, t)' <=> Adding(y, t)
  BY OthersSame DEF Adding, Holds
<1>2. \A y \in All : /\ In(y, "ReceiveSends", "signal")' <=> In(y, "ReceiveSends", "signal")
                     /\ In(y, "Clear", "next")' <=> In(y, "Clear", "next")
  BY OthersSame DEF Holds
<1>3. \A y \in All : In(y, "Clear", "next") => stack'[y] = stack[y]
  BY OthersSame DEF Holds
<1>4. \A t : Known(t)' <=> Known(t)
  BY DEF Known
<1>5. \A t \in Threads, y \in All :
        (crit_[t] = y)' <=> (Adding(y, t)' \/ (y = t /\ In(t, "ReceiveSends", "signal")'))
  BY <1>1, <1>2 DEF Locks, All
<1>6. \A y \in All : (manager_crit_ = y)' <=> In(y, "Clear", "next")'
  BY <1>2 DEF Locks
<1>7. \A y \in All : In(y, "Clear", "next")' =>
         \A i \in DOMAIN Head(stack'[y]).todo : Known(Head(stack[y]).todo[i])'
  BY <1>2, <1>3, <1>4 DEF Locks, Known
<1>8. \A t \in Threads : Known(t)' => active_'[t] /\ \A y \in All : ~Adding(y, t)'
  BY <1>1, <1>4 DEF Locks
<1>9. \A t \in Threads, y \in All : Adding(y, t)' => active_'[t]
  BY <1>1 DEF Locks
<1> QED
  BY <1>5, <1>6, <1>7, <1>8, <1>9 DEF Locks

(* What the innermost call is after a step that adds one.                  *)
LEMMA TopNext ==
    ASSUME NEW x \in All, NEW k \in {1, 2}, NEW d, Moved(x, k, d)
    PROVE  /\ 1 \in DOMAIN stack'[x] /\ Head(stack'[x]) = stack'[x][1]
           /\ \A c, a : In(x, c, a)' <=> Is(stack'[x][1], c, a)
<1>1. stack'[x] \in Seq(Frame) /\ 1 \in DOMAIN stack'[x]
  BY DEF Moved
<1>2. stack'[x] # <<>> /\ Head(stack'[x]) = stack'[x][1]
  BY <1>1, SeqFacts
<1> QED
  BY <1>1, <1>2 DEF In, Is

(* Every step keeps Locks: who takes or leaves a lock enters or leaves the *)
(* call that goes with it.                                                 *)
LEMMA LocksStep ==
    ASSUME Typed, Locks, [Next]_vars
    PROVE  Locks'
<1>1. ASSUME NEW x \in All, NEW h \in alive, NEW to \in Threads, SendCall(x, to, h) PROVE Locks'
  <2>0. Typed /\ Locks /\ h \in Handlers
    BY <1>1 DEF Typed, TypeInv
  <2>1. Moved(x, 1, -1) /\ ~Holder(stack'[x][1])
    BY <1>1, <2>0, SendCallMoves DEF Is, Holder
  <2>2. ~Holds(x)
    BY <1>1, <2>0, MayCallTop, HoldsTop DEF SendCall, Holder
  <2>3. ~Holds(x)'
    BY <2>1, HoldsNext
  <2>u. UNCHANGED <<active_, crit_, manager_crit_, message_queues_>>
    BY <1>1 DEF SendCall, queues, manager
  <2> QED
    BY <2>0, <2>1, <2>2, <2>3, <2>u, LocksQuiet
<1>2. ASSUME NEW x \in All, NEW h \in alive, NEW to \in Threads, PostCall(x, to, h) PROVE Locks'
  <2>0. Typed /\ Locks /\ h \in Handlers
    BY <1>2 DEF Typed, TypeInv
  <2>1. Moved(x, 1, -1) /\ ~Holder(stack'[x][1])
    BY <1>2, <2>0, PostCallMoves DEF Is, Holder
  <2>2. ~Holds(x)
    BY <1>2, <2>0, MayCallTop, HoldsTop DEF PostCall, Holder
  <2>3. ~Holds(x)'
    BY <2>1, HoldsNext
  <2>u. UNCHANGED <<active_, crit_, manager_crit_, message_queues_>>
    BY <1>2 DEF PostCall, queues, manager
  <2> QED
    BY <2>0, <2>1, <2>2, <2>3, <2>u, LocksQuiet
<1>3. ASSUME NEW x \in All, NEW h \in alive, ClearCall(x, h) PROVE Locks'
  <2>0. Typed /\ Locks /\ h \in Handlers
    BY <1>3 DEF Typed, TypeInv
  <2>1. /\ Moved(x, 1, -1) /\ Is(stack'[x][1], "Clear", "next")
        /\ stack'[x][1].todo = message_queues_
    BY <1>3, <2>0, ClearCallMoves
  <2>2. ~Holds(x)
    BY <1>3, <2>0, MayCallTop, HoldsTop DEF ClearCall, Holder
  <2>3. manager_crit_ = None /\ manager_crit_' = x /\ UNCHANGED <<active_, crit_, message_queues_>>
    BY <1>3 DEF ClearCall, queues
  <2>4. /\ In(x, "Clear", "next")' /\ Head(stack'[x]) = stack'[x][1]
        /\ ~In(x, "ReceiveSends", "signal")' /\ \A t : ~Adding(x, t)'
    BY <2>1, TopNext DEF Is, Adding
  <2>5. \A y \in All, t \in Threads : Adding(y, t)' <=> Adding(y, t)
    BY <2>1, <2>2, <2>4, OthersSame DEF Adding, Holds
  <2>6. \A y \in All : In(y, "ReceiveSends", "signal")' <=> In(y, "ReceiveSends", "signal")
    BY <2>1, <2>2, <2>4, OthersSame DEF Holds
  <2>7. \A y \in All : y # x => ~In(y, "Clear", "next") /\ ~In(y, "Clear", "next")'
    BY <2>1, <2>3, OthersSame, ThreadsAssumption DEF Locks, All
  <2>8. \A t : Known(t)' <=> Known(t)
    BY <2>3 DEF Known
  <2>p. \A t \in Threads, y \in All :
          (crit_[t] = y)' <=> (Adding(y, t)' \/ (y = t /\ In(t, "ReceiveSends", "signal")'))
    BY <2>3, <2>5, <2>6 DEF Locks, All
  <2>q. \A y \in All : (manager_crit_ = y)' <=> In(y, "Clear", "next")'
    BY <2>3, <2>4, <2>7
  <2>r. \A y \in All : In(y, "Clear", "next")' =>
          \A i \in DOMAIN Head(stack'[y]).todo : Known(Head(stack[y]).todo[i])'
    BY <2>1, <2>3, <2>4, <2>7 DEF Known
  <2>s. \A t \in Threads : Known(t)' => active_'[t] /\ \A y \in All : ~Adding(y, t)'
    BY <2>3, <2>5, <2>8 DEF Locks
  <2>v. \A t \in Threads, y \in All : Adding(y, t)' => active_'[t]
    BY <2>3, <2>5 DEF Locks
  <2> QED
    BY <2>p, <2>q, <2>r, <2>s, <2>v DEF Locks
<1>4. ASSUME NEW x \in All, OnMessageReturns(x) PROVE Locks'
  <2>1. Moved(x, 0, 1) /\ ~Holder(stack[x][1])
    BY <1>4, OnMessageReturnsMoves DEF Is, Holder
  <2>2. ~Holds(x) /\ ~Holds(x)'
    BY <2>1, HoldsTop, ReturnedTop
  <2>u. UNCHANGED <<active_, crit_, manager_crit_, message_queues_>>
    BY <1>4 DEF OnMessageReturns, queues, manager
  <2> QED
    BY <2>1, <2>2, <2>u, LocksQuiet
<1>5. ASSUME NEW x \in All, EnterActive(x) PROVE Locks'
  <2>0. (In(x, "Send", "enter") \/ In(x, "Post", "enter")) /\ Deliver(x)
    BY <1>5 DEF EnterActive, Entering
  <2>1. ~Holds(x) /\ (stack[x][1].call = "Send" \/ stack[x][1].call = "Post")
    BY <2>0, TopTypes, HoldsTop DEF Is, Holder
  <2>u. UNCHANGED <<active_, crit_, manager_crit_, message_queues_>>
    BY <1>5 DEF EnterActive, queues, manager
  <2>2. CASE stack[x][1].call = "Send"
    <3>1. Moved(x, 1, 0) /\ ~Holder(stack'[x][1])
      BY <2>0, <2>2, DeliverMoves DEF Is, Holder
    <3> QED
      BY <3>1, <2>1, <2>u, HoldsNext, LocksQuiet
  <2>3. CASE stack[x][1].call = "Post"
    <3>1. Moved(x, 0, 1)
      BY <2>0, <2>3, DeliverMoves
    <3> QED
      BY <3>1, <2>1, <2>u, ReturnedTop, LocksQuiet
  <2> QED
    BY <2>1, <2>2, <2>3
<1>6. ASSUME NEW x \in All, EnsureActive(x) PROVE Locks'
  <2>q0. PICK q \in Threads : q = stack[x][1].to
    BY <1>6, EnsureActiveMoves
  <2>1. /\ Moved(x, 1, 0) /\ q \in Threads /\ Head(stack[x]) = stack[x][1]
        /\ Is(stack[x][1], "Send", "enter") \/ Is(stack[x][1], "Post", "enter")
        /\ Is(stack'[x][1], stack[x][1].call, "add") /\ stack'[x][1].to = q
    BY <1>6, <2>q0, EnsureActiveMoves
  <2>2. ~Holds(x)
    BY <2>1, HoldsTop DEF Is, Holder
  <2>3. /\ ~active_[q] /\ crit_[q] = None /\ active_' = [active_ EXCEPT ![q] = TRUE]
        /\ crit_' = [crit_ EXCEPT ![q] = x] /\ UNCHANGED <<manager_crit_, message_queues_>>
        /\ active_ \in [Threads -> BOOLEAN] /\ crit_ \in [Threads -> All \cup {None}]
    BY <1>6, <2>q0, <2>1 DEF EnsureActive, Entering, manager, Typed, TypeInv
  <2>4. /\ Adding(x, q)' /\ ~In(x, "ReceiveSends", "signal")' /\ ~In(x, "Clear", "next")'
        /\ \A t : t # q => ~Adding(x, t)'
    BY <2>1, TopNext, Zenon DEF Is, Adding
  <2>5. \A y \in All, t \in Threads : (y # x \/ t # q) => (Adding(y, t)' <=> Adding(y, t))
    BY <2>1, <2>2, <2>4, OthersSame DEF Adding, Holds
  <2>6. \A y \in All : /\ In(y, "ReceiveSends", "signal")' <=> In(y, "ReceiveSends", "signal")
                       /\ In(y, "Clear", "next")' <=> In(y, "Clear", "next")
                       /\ In(y, "Clear", "next") => stack'[y] = stack[y]
    BY <2>1, <2>2, <2>4, OthersSame DEF Holds
  <2>7. /\ \A y \in All : ~Adding(y, q)
        /\ ~In(q, "ReceiveSends", "signal")
    BY <2>1, <2>3, ThreadsAssumption DEF Locks, All
  <2>8. \A t : Known(t)' <=> Known(t)
    BY <2>3 DEF Known
  <2>9. ~Known(q)
    BY <2>1, <2>3 DEF Locks
  <2>p. \A t \in Threads, y \in All :
          (crit_[t] = y)' <=> (Adding(y, t)' \/ (y = t /\ In(t, "ReceiveSends", "signal")'))
    <3> TAKE t \in Threads, y \in All
    <3>1. CASE t = q
      BY <3>1, <2>1, <2>3, <2>4, <2>5, <2>6, <2>7 DEF All
    <3>2. CASE t # q
      BY <3>2, <2>3, <2>5, <2>6 DEF Locks, All
    <3> QED
      BY <3>1, <3>2
  <2>q. \A y \in All : (manager_crit_ = y)' <=> In(y, "Clear", "next")'
    BY <2>3, <2>6 DEF Locks
  <2>r. \A y \in All : In(y, "Clear", "next")' =>
          \A i \in DOMAIN Head(stack'[y]).todo : Known(Head(stack[y]).todo[i])'
    BY <2>3, <2>6 DEF Locks, Known
  <2>s. \A t \in Threads : Known(t)' => active_'[t] /\ \A y \in All : ~Adding(y, t)'
    BY <2>3, <2>5, <2>8, <2>9 DEF Locks
  <2>v. \A t \in Threads, y \in All : Adding(y, t)' => active_'[t]
    BY <2>3, <2>5, <2>7 DEF Locks
  <2> QED
    BY <2>p, <2>q, <2>r, <2>s, <2>v DEF Locks
<1>7. ASSUME NEW x \in All, Add(x) PROVE Locks'
  <2>0. (In(x, "Send", "add") \/ In(x, "Post", "add")) /\ Deliver(x)
    BY <1>7 DEF Add
  <2>q0. PICK q \in Threads : q = stack[x][1].to
    BY <2>0, DeliverTypes
  <2>1. /\ 1 \in DOMAIN stack[x] /\ Head(stack[x]) = stack[x][1] /\ q \in Threads
        /\ stack[x][1].call = "Send" \/ stack[x][1].call = "Post"
        /\ stack[x][1].at = "add"
    BY <2>0, TopTypes, DeliverTypes DEF Is
  <2>2. \E k, d : Moved(x, k, d)
    BY <2>0, <2>1, DeliverMoves
  <2>3. ~Holds(x)'
    <3>1. CASE stack[x][1].call = "Send"
      <4>1. Moved(x, 1, 0) /\ ~Holder(stack'[x][1])
        BY <2>0, <3>1, DeliverMoves DEF Is, Holder
      <4> QED
        BY <4>1, HoldsNext
    <3>2. CASE stack[x][1].call = "Post"
      <4>1. Moved(x, 0, 1)
        BY <2>0, <3>2, DeliverMoves
      <4> QED
        BY <4>1, ReturnedTop
    <3> QED
      BY <2>1, <3>1, <3>2
  <2>4. /\ manager_crit_ = None /\ message_queues_' = Append(message_queues_, q)
        /\ crit_' = [crit_ EXCEPT ![q] = None] /\ UNCHANGED <<active_, manager_crit_>>
        /\ message_queues_ \in Seq(Threads) /\ crit_ \in [Threads -> All \cup {None}]
    BY <1>7, <2>q0, <2>1 DEF Add, Typed, TypeInv
  <2>5. Adding(x, q) /\ ~In(x, "ReceiveSends", "signal") /\ \A t : t # q => ~Adding(x, t)
    BY <2>0, <2>q0, <2>1 DEF Adding, In
  <2>6. \A y \in All : \A t : Adding(y, t)' <=> Adding(y, t) /\ y # x
    BY <2>2, <2>3, OthersSame DEF Adding, Holds
  <2>7. \A y \in All : /\ In(y, "ReceiveSends", "signal")' <=> In(y, "ReceiveSends", "signal")
                       /\ ~In(y, "Clear", "next") /\ ~In(y, "Clear", "next")'
    <3>1. \A y \in All : ~In(y, "Clear", "next")
      BY <2>4, ThreadsAssumption DEF Locks, All
    <3> QED
      BY <3>1, <2>2, <2>3, <2>5, OthersSame DEF Holds
  <2>8. crit_[q] = x /\ active_[q]
    BY <2>1, <2>5 DEF Locks
  <2>9. (\A y \in All : ~Adding(y, q)') /\ ~In(q, "ReceiveSends", "signal")
    BY <2>1, <2>5, <2>6, <2>8 DEF Locks, All
  <2>10. \A t : Known(t)' => Known(t) \/ t = q
    <3>1. \A i \in DOMAIN message_queues_' :
            message_queues_'[i] = q \/ (i \in DOMAIN message_queues_ /\ message_queues_'[i] = message_queues_[i])
      BY <2>4, <2>1
    <3> QED
      BY <3>1 DEF Known
  <2>p. \A t \in Threads, y \in All :
          (crit_[t] = y)' <=> (Adding(y, t)' \/ (y = t /\ In(t, "ReceiveSends", "signal")'))
    <3> TAKE t \in Threads, y \in All
    <3>1. CASE t = q
      BY <3>1, <2>4, <2>7, <2>9, ThreadsAssumption DEF All
    <3>2. CASE t # q
      BY <3>2, <2>4, <2>5, <2>6, <2>7 DEF Locks, All
    <3> QED
      BY <3>1, <3>2
  <2>q. \A y \in All : (manager_crit_ = y)' <=> In(y, "Clear", "next")'
    BY <2>4, <2>7, ThreadsAssumption DEF All
  <2>r. \A y \in All : In(y, "Clear", "next")' =>
          \A i \in DOMAIN Head(stack'[y]).todo : Known(Head(stack[y]).todo[i])'
    BY <2>7
  <2>s. \A t \in Threads : Known(t)' => active_'[t] /\ \A y \in All : ~Adding(y, t)'
    BY <2>4, <2>6, <2>8, <2>9, <2>10 DEF Locks
  <2>v. \A t \in Threads, y \in All : Adding(y, t)' => active_'[t]
    BY <2>4, <2>6 DEF Locks
  <2> QED
    BY <2>p, <2>q, <2>r, <2>s, <2>v DEF Locks
<1>8. ASSUME NEW x \in All, SendWakes(x) PROVE Locks'
  <2>1. Moved(x, 1, 0) /\ ~Holder(stack[x][1]) /\ ~Holder(stack'[x][1])
    BY <1>8, SendWakesMoves DEF Is, Holder
  <2>2. ~Holds(x) /\ ~Holds(x)'
    BY <2>1, HoldsTop, HoldsNext
  <2>u. UNCHANGED <<active_, crit_, manager_crit_, message_queues_>>
    BY <1>8 DEF SendWakes, queues, manager
  <2> QED
    BY <2>1, <2>2, <2>u, LocksQuiet
<1>9. ASSUME NEW x \in All, SendTests(x) PROVE Locks'
  <2>1. Moved(x, 2, -1) /\ ~Holder(stack[x][1]) /\ ~Holder(stack'[x][1])
    BY <1>9, SendTestsMoves DEF Is, Holder
  <2>2. ~Holds(x) /\ ~Holds(x)'
    BY <2>1, HoldsTop, HoldsNext
  <2>u. UNCHANGED <<active_, crit_, manager_crit_, message_queues_>>
    BY <1>9 DEF SendTests, queues, manager
  <2> QED
    BY <2>1, <2>2, <2>u, LocksQuiet
<1>10. ASSUME NEW x \in All, SendWaits(x) PROVE Locks'
  <2>1. Moved(x, 1, 0) /\ ~Holder(stack[x][1]) /\ ~Holder(stack'[x][1])
    BY <1>10, SendWaitsMoves DEF Is, Holder
  <2>2. ~Holds(x) /\ ~Holds(x)'
    BY <2>1, HoldsTop, HoldsNext
  <2>u. UNCHANGED <<active_, crit_, manager_crit_, message_queues_>>
    BY <1>10 DEF SendWaits, queues, manager
  <2> QED
    BY <2>1, <2>2, <2>u, LocksQuiet
<1>11. ASSUME NEW x \in All, SendReturns(x) PROVE Locks'
  <2>1. Moved(x, 0, 1) /\ ~Holder(stack[x][1])
    BY <1>11, SendReturnsMoves DEF Is, Holder
  <2>2. ~Holds(x) /\ ~Holds(x)'
    BY <2>1, HoldsTop, ReturnedTop
  <2>u. UNCHANGED <<active_, crit_, manager_crit_, message_queues_>>
    BY <1>11 DEF SendReturns, queues, manager
  <2> QED
    BY <2>1, <2>2, <2>u, LocksQuiet
<1>12. ASSUME NEW x \in All, ReceiveChecks(x) PROVE Locks'
  <2>1. ~Holds(x)
    BY <1>12, ReceiveChecksMoves, HoldsTop DEF Is, Holder
  <2>u. UNCHANGED <<active_, crit_, manager_crit_, message_queues_>>
    BY <1>12 DEF ReceiveChecks, queues, manager
  <2>2. CASE ~has_sends_[x]
    <3>1. Moved(x, 0, 1)
      BY <1>12, <2>2, ReceiveChecksMoves
    <3> QED
      BY <3>1, <2>1, <2>u, ReturnedTop, LocksQuiet
  <2>3. CASE has_sends_[x]
    <3>1. Moved(x, 1, 0) /\ ~Holder(stack'[x][1])
      BY <1>12, <2>3, ReceiveChecksMoves DEF Is, Holder
    <3> QED
      BY <3>1, <2>1, <2>u, HoldsNext, LocksQuiet
  <2> QED
    BY <2>2, <2>3
<1>13. ASSUME NEW x \in All, ReceiveEnters(x) PROVE Locks'
  <2>0. In(x, "ReceiveSends", "next") /\ NextSend(x) /\ crit_[x] = None
    BY <1>13 DEF ReceiveEnters
  <2>1. ~Holds(x)
    BY <2>0, TopTypes, HoldsTop DEF Is, Holder
  <2>u. UNCHANGED <<active_, crit_, manager_crit_, message_queues_>>
    BY <2>0, <1>13 DEF ReceiveEnters, NextSend, manager, Typed, TypeInv
  <2>2. CASE sendlist_[x] = <<>>
    <3>1. Moved(x, 0, 1)
      BY <2>0, <2>2, NextSendMoves
    <3> QED
      BY <3>1, <2>1, <2>u, ReturnedTop, LocksQuiet
  <2>3. CASE sendlist_[x] # <<>>
    <3>1. Moved(x, 2, -1) /\ ~Holder(stack'[x][1])
      BY <2>0, <2>3, NextSendMoves DEF Is, Holder
    <3> QED
      BY <3>1, <2>1, <2>u, HoldsNext, LocksQuiet
  <2> QED
    BY <2>2, <2>3
<1>14. ASSUME NEW x \in All, ReceiveReplies(x) PROVE Locks'
  <2>1. /\ Moved(x, 1, 0) /\ Is(stack'[x][1], "ReceiveSends", "signal") /\ x \in Threads
        /\ Is(stack[x][1], "ReceiveSends", "reply")
    BY <1>14, ReceiveRepliesMoves
  <2>2. ~Holds(x)
    BY <2>1, HoldsTop DEF Is, Holder
  <2>3. /\ crit_[x] = None /\ crit_' = [crit_ EXCEPT ![x] = x]
        /\ UNCHANGED <<active_, manager_crit_, message_queues_>>
        /\ crit_ \in [Threads -> All \cup {None}]
    BY <1>14 DEF ReceiveReplies, manager, Typed, TypeInv
  <2>4. In(x, "ReceiveSends", "signal")' /\ ~In(x, "Clear", "next")' /\ \A t : ~Adding(x, t)'
    BY <2>1, TopNext DEF Is, Adding
  <2>m. \E k, d : Moved(x, k, d)
    BY <2>1
  <2>5. \A y \in All : ~Adding(y, x)
    BY <2>1, <2>3, ThreadsAssumption DEF Locks, All
  <2>6. \A y \in All : \A t : Adding(y, t)' <=> Adding(y, t)
    BY <2>1, <2>2, <2>4, OthersSame DEF Adding, Holds
  <2>7. \A y \in All : /\ In(y, "ReceiveSends", "signal")' <=> (In(y, "ReceiveSends", "signal") \/ y = x)
                       /\ In(y, "Clear", "next")' <=> In(y, "Clear", "next")
                       /\ In(y, "Clear", "next") => stack'[y] = stack[y]
    BY <2>1, <2>2, <2>4, OthersSame DEF Holds
  <2>10. \A t : Known(t)' <=> Known(t)
    BY <2>3 DEF Known
  <2>p. \A t \in Threads, y \in All :
          (crit_[t] = y)' <=> (Adding(y, t)' \/ (y = t /\ In(t, "ReceiveSends", "signal")'))
    <3> TAKE t \in Threads, y \in All
    <3>1. CASE t = x
      BY <3>1, <2>1, <2>3, <2>5, <2>6, <2>7, ThreadsAssumption DEF All
    <3>2. CASE t # x
      BY <3>2, <2>1, <2>3, <2>6, <2>7 DEF Locks, All
    <3> QED
      BY <3>1, <3>2
  <2>q. \A y \in All : (manager_crit_ = y)' <=> In(y, "Clear", "next")'
    BY <2>3, <2>7 DEF Locks
  <2>r. \A y \in All : In(y, "Clear", "next")' =>
          \A i \in DOMAIN Head(stack'[y]).todo : Known(Head(stack[y]).todo[i])'
    BY <2>3, <2>7 DEF Locks, Known
  <2>s. \A t \in Threads : Known(t)' => active_'[t] /\ \A y \in All : ~Adding(y, t)'
    BY <2>3, <2>6, <2>10 DEF Locks
  <2>v. \A t \in Threads, y \in All : Adding(y, t)' => active_'[t]
    BY <2>3, <2>6 DEF Locks
  <2> QED
    BY <2>p, <2>q, <2>r, <2>s, <2>v DEF Locks
<1>15. ASSUME NEW x \in All, ReceiveSignals(x) PROVE Locks'
  <2>0. In(x, "ReceiveSends", "signal") /\ NextSend(x)
    BY <1>15 DEF ReceiveSignals
  <2>1. x \in Threads /\ Is(stack[x][1], "ReceiveSends", "signal")
    BY <2>0, NextSendMoves
  <2>m. \E k, d : Moved(x, k, d)
    BY <2>0, NextSendMoves
  <2>2. ~Holds(x)'
    <3>1. CASE sendlist_[x] = <<>>
      <4>1. Moved(x, 0, 1)
        BY <2>0, <3>1, NextSendMoves
      <4> QED
        BY <4>1, ReturnedTop
    <3>2. CASE sendlist_[x] # <<>>
      <4>1. Moved(x, 2, -1) /\ ~Holder(stack'[x][1])
        BY <2>0, <3>2, NextSendMoves DEF Is, Holder
      <4> QED
        BY <4>1, HoldsNext
    <3> QED
      BY <3>1, <3>2
  <2>3. /\ crit_' = [crit_ EXCEPT ![x] = None]
        /\ UNCHANGED <<active_, manager_crit_, message_queues_>>
        /\ crit_ \in [Threads -> All \cup {None}]
    BY <1>15 DEF ReceiveSignals, NextSend, manager, Typed, TypeInv
  <2>4. crit_[x] = x
    BY <2>0, <2>1 DEF Locks
  <2>8. \A t : ~Adding(x, t)
    BY <2>0 DEF Adding, In
  <2>5. \A y \in All : ~Adding(y, x)
    BY <2>1, <2>4, <2>8 DEF Locks
  <2>6. \A y \in All : \A t : Adding(y, t)' <=> Adding(y, t)
    BY <2>m, <2>2, <2>8, OthersSame DEF Adding, Holds
  <2>9. ~In(x, "Clear", "next")
    BY <2>0 DEF In
  <2>7. \A y \in All : /\ In(y, "ReceiveSends", "signal")' <=> (In(y, "ReceiveSends", "signal") /\ y # x)
                       /\ In(y, "Clear", "next")' <=> In(y, "Clear", "next")
                       /\ In(y, "Clear", "next") => stack'[y] = stack[y]
    BY <2>m, <2>2, <2>9, OthersSame DEF Holds
  <2>10. \A t : Known(t)' <=> Known(t)
    BY <2>3 DEF Known
  <2>p. \A t \in Threads, y \in All :
          (crit_[t] = y)' <=> (Adding(y, t)' \/ (y = t /\ In(t, "ReceiveSends", "signal")'))
    <3> TAKE t \in Threads, y \in All
    <3>1. CASE t = x
      BY <3>1, <2>1, <2>3, <2>5, <2>6, <2>7, ThreadsAssumption DEF All
    <3>2. CASE t # x
      BY <3>2, <2>1, <2>3, <2>6, <2>7 DEF Locks, All
    <3> QED
      BY <3>1, <3>2
  <2>q. \A y \in All : (manager_crit_ = y)' <=> In(y, "Clear", "next")'
    BY <2>3, <2>7 DEF Locks
  <2>r. \A y \in All : In(y, "Clear", "next")' =>
          \A i \in DOMAIN Head(stack'[y]).todo : Known(Head(stack[y]).todo[i])'
    BY <2>3, <2>7 DEF Locks, Known
  <2>s. \A t \in Threads : Known(t)' => active_'[t] /\ \A y \in All : ~Adding(y, t)'
    BY <2>3, <2>6, <2>10 DEF Locks
  <2>v. \A t \in Threads, y \in All : Adding(y, t)' => active_'[t]
    BY <2>3, <2>6 DEF Locks
  <2> QED
    BY <2>p, <2>q, <2>r, <2>s, <2>v DEF Locks
<1>16. ASSUME NEW x \in All, ClearNext(x) PROVE Locks'
  <2>0. /\ In(x, "Clear", "next") /\ Head(stack[x]) = stack[x][1]
        /\ UNCHANGED <<active_, crit_, message_queues_>>
        /\ stack[x][1].todo = <<>> => manager_crit_' = None
        /\ stack[x][1].todo # <<>> => manager_crit_' = manager_crit_
        /\ stack[x][1].todo \in Seq(Threads)
    BY <1>16, ClearNextMoves DEF ClearNext, queues
  <2>1. manager_crit_ = x
    BY <2>0 DEF Locks
  <2>2. \A y \in All : y # x => ~In(y, "Clear", "next")
    BY <2>1 DEF Locks
  <2>m. \E k, d : Moved(x, k, d)
    BY <1>16, ClearNextMoves
  <2>3. /\ ~In(x, "ReceiveSends", "signal")' /\ \A t : ~Adding(x, t)'
        /\ In(x, "Clear", "next")' <=> stack[x][1].todo # <<>>
        /\ stack[x][1].todo # <<>> => Head(stack'[x]).todo = Tail(stack[x][1].todo)
    <3>1. CASE stack[x][1].todo = <<>>
      <4>1. Moved(x, 0, 1)
        BY <1>16, <3>1, ClearNextMoves
      <4> QED
        BY <3>1, <4>1, ReturnedTop DEF Holds, Adding
    <3>2. CASE stack[x][1].todo # <<>>
      <4>1. /\ Moved(x, 1, 0) /\ Is(stack'[x][1], "Clear", "next")
            /\ stack'[x][1].todo = Tail(stack[x][1].todo)
        BY <1>16, <3>2, ClearNextMoves
      <4> QED
        BY <3>2, <4>1, TopNext DEF Is, Adding
    <3> QED
      BY <3>1, <3>2
  <2>4. ~In(x, "ReceiveSends", "signal") /\ \A t : ~Adding(x, t)
    BY <2>0 DEF In, Adding
  <2>5. \A y \in All : /\ \A t : Adding(y, t)' <=> Adding(y, t)
                       /\ In(y, "ReceiveSends", "signal")' <=> In(y, "ReceiveSends", "signal")
                       /\ y # x => ~In(y, "Clear", "next")'
    BY <2>m, <2>2, <2>3, <2>4, OthersSame
  <2>6. \A t : Known(t)' <=> Known(t)
    BY <2>0 DEF Known
  <2>7. stack[x][1].todo # <<>> =>
          \A i \in DOMAIN Tail(stack[x][1].todo) : Known(Tail(stack[x][1].todo)[i])
    <3> DEFINE s == stack[x][1].todo
    <3>1. s \in Seq(Threads) /\ \A i \in DOMAIN s : Known(s[i])
      BY <2>0 DEF Locks
    <3> HIDE DEF s
    <3>2. s # <<>> => \A i \in DOMAIN Tail(s) : i + 1 \in DOMAIN s /\ Tail(s)[i] = s[i + 1]
      BY <3>1
    <3> QED
      BY <3>1, <3>2 DEF s
  <2>p. \A t \in Threads, y \in All :
          (crit_[t] = y)' <=> (Adding(y, t)' \/ (y = t /\ In(t, "ReceiveSends", "signal")'))
    BY <2>0, <2>5 DEF Locks, All
  <2>q. \A y \in All : (manager_crit_ = y)' <=> In(y, "Clear", "next")'
    BY <2>0, <2>1, <2>3, <2>5, ThreadsAssumption DEF All
  <2>r. \A y \in All : In(y, "Clear", "next")' =>
          \A i \in DOMAIN Head(stack'[y]).todo : Known(Head(stack[y]).todo[i])'
    <3> SUFFICES ASSUME NEW y \in All, In(y, "Clear", "next")'
                 PROVE  \A i \in DOMAIN Head(stack'[y]).todo : Known(Head(stack[y]).todo[i])'
      OBVIOUS
    <3>1. y = x /\ Head(stack'[x]).todo = Tail(stack[x][1].todo) /\ stack[x][1].todo # <<>>
      BY <2>3, <2>5
    <3>2. \A i \in DOMAIN Head(stack'[x]).todo : Known(Head(stack'[x]).todo[i])
      BY <3>1, <2>7
    <3> QED
      BY <3>1, <3>2, <2>0 DEF Known
  <2>s. \A t \in Threads : Known(t)' => active_'[t] /\ \A y \in All : ~Adding(y, t)'
    BY <2>0, <2>5, <2>6 DEF Locks
  <2>v. \A t \in Threads, y \in All : Adding(y, t)' => active_'[t]
    BY <2>0, <2>5 DEF Locks
  <2> QED
    BY <2>p, <2>q, <2>r, <2>s, <2>v DEF Locks
<1>17. ASSUME NEW x \in All, GetReceives(x) PROVE Locks'
  <2>1. ~Holds(x)
    BY <1>17, GetReceivesMoves, HoldsTop DEF Is, Holder
  <2>u. UNCHANGED <<active_, crit_, manager_crit_, message_queues_>>
    BY <1>17 DEF GetReceives, queues, manager
  <2>2. CASE ~has_sends_[x]
    <3>1. Moved(x, 1, 0) /\ ~Holder(stack'[x][1])
      BY <1>17, <2>2, GetReceivesMoves DEF Is, Holder
    <3> QED
      BY <3>1, <2>1, <2>u, HoldsNext, LocksQuiet
  <2>3. CASE has_sends_[x]
    <3>1. Moved(x, 2, -1) /\ ~Holder(stack'[x][1])
      BY <1>17, <2>3, GetReceivesMoves DEF Is, Holder
    <3> QED
      BY <3>1, <2>1, <2>u, HoldsNext, LocksQuiet
  <2> QED
    BY <2>2, <2>3
<1>18. ASSUME NEW x \in All, GetPops(x) PROVE Locks'
  <2>1. ~Holds(x)
    BY <1>18, GetPopsMoves, HoldsTop DEF Is, Holder
  <2>u. UNCHANGED <<active_, crit_, manager_crit_, message_queues_>>
    BY <1>18 DEF GetPops, queues, manager
  <2>2. CASE msgq_[x] = <<>>
    <3>1. Moved(x, 1, 0) /\ ~Holder(stack'[x][1])
      BY <1>18, <2>2, GetPopsMoves DEF Is, Holder
    <3> QED
      BY <3>1, <2>1, <2>u, HoldsNext, LocksQuiet
  <2>3. CASE msgq_[x] # <<>>
    <3>1. Moved(x, 2, -1) /\ ~Holder(stack'[x][1])
      BY <1>18, <2>3, GetPopsMoves DEF Is, Holder
    <3> QED
      BY <3>1, <2>1, <2>u, HoldsNext, LocksQuiet
  <2> QED
    BY <2>2, <2>3
<1>19. ASSUME NEW x \in All, GetStops(x) PROVE Locks'
  <2>1. ~Holds(x)
    BY <1>19, GetStopsMoves, HoldsTop DEF Is, Holder
  <2>u. UNCHANGED <<active_, crit_, manager_crit_, message_queues_>>
    BY <1>19 DEF GetStops, queues, manager
  <2>2. CASE fStop_[x]
    <3>1. Moved(x, 0, 1)
      BY <1>19, <2>2, GetStopsMoves
    <3> QED
      BY <3>1, <2>1, <2>u, ReturnedTop, LocksQuiet
  <2>3. CASE ~fStop_[x]
    <3>1. Moved(x, 1, 0) /\ ~Holder(stack'[x][1])
      BY <1>19, <2>3, GetStopsMoves DEF Is, Holder
    <3> QED
      BY <3>1, <2>1, <2>u, HoldsNext, LocksQuiet
  <2> QED
    BY <2>2, <2>3
<1>20. ASSUME NEW x \in All, GetWaits(x) PROVE Locks'
  <2>1. Moved(x, 1, 0) /\ ~Holder(stack[x][1]) /\ ~Holder(stack'[x][1])
    BY <1>20, GetWaitsMoves DEF Is, Holder
  <2>2. ~Holds(x) /\ ~Holds(x)'
    BY <2>1, HoldsTop, HoldsNext
  <2>u. UNCHANGED <<active_, crit_, manager_crit_, message_queues_>>
    BY <1>20 DEF GetWaits, queues, manager
  <2> QED
    BY <2>1, <2>2, <2>u, LocksQuiet
<1>21. ASSUME NEW t \in Threads, QuitSets(t) PROVE Locks'
  <2>1. UNCHANGED <<active_, crit_, manager_crit_, message_queues_, stack>>
    BY <1>21 DEF QuitSets, queues, manager
  <2> QED
    BY <2>1 DEF Locks, Known, Adding, In
<1>22. ASSUME NEW t \in Threads, QuitWakes(t) PROVE Locks'
  <2>1. UNCHANGED <<active_, crit_, manager_crit_, message_queues_, stack>>
    BY <1>22 DEF QuitWakes, queues, manager
  <2> QED
    BY <2>1 DEF Locks, Known, Adding, In
<1>23. ASSUME NEW t \in Threads, Joins(t) PROVE Locks'
  <2>1. UNCHANGED <<active_, crit_, manager_crit_, message_queues_, stack>>
    BY <1>23 DEF Joins, queues, manager
  <2> QED
    BY <2>1 DEF Locks, Known, Adding, In
<1>24. ASSUME NEW t \in Threads, Removes(t) PROVE Locks'
  <2>1. UNCHANGED <<active_, crit_, manager_crit_, stack>> /\ manager_crit_ = None
    BY <1>24 DEF Removes, queues
  <2>2. \A u : Known(u)' => Known(u)
    <3>1. message_queues_ \in Seq(Threads) /\ message_queues_' = Selected(message_queues_, Threads \ {t})
      BY <1>24 DEF Removes, Typed, TypeInv
    <3> QED
      BY <3>1, SelectedElements DEF Known
  <2>3. \A x \in All : ~In(x, "Clear", "next")
    BY <2>1, ThreadsAssumption DEF Locks, All
  <2>4. /\ \A u \in Threads, x \in All :
             (crit_[u] = x)' <=> (Adding(x, u)' \/ (x = u /\ In(u, "ReceiveSends", "signal")'))
        /\ \A x \in All : (manager_crit_ = x)' <=> In(x, "Clear", "next")'
    BY <2>1 DEF Locks, Adding, In
  <2>5. \A x \in All : ~In(x, "Clear", "next")'
    BY <2>1, <2>3 DEF In
  <2>6. \A u \in Threads : Known(u)' => active_'[u] /\ \A x \in All : ~Adding(x, u)'
    BY <2>1, <2>2 DEF Locks, Adding, In
  <2>7. \A u \in Threads, x \in All : Adding(x, u)' => active_'[u]
    BY <2>1 DEF Locks, Adding, In
  <2> QED
    BY <2>4, <2>5, <2>6, <2>7 DEF Locks
<1>25. CASE UNCHANGED vars
  BY <1>25 DEF vars, queues, manager, Locks, Known, Adding, In
<1> QED
  BY <1>1, <1>2, <1>3, <1>4, <1>5, <1>6, <1>7, <1>8, <1>9, <1>10, <1>11, <1>12, <1>13,
     <1>14, <1>15, <1>16, <1>17, <1>18, <1>19, <1>20, <1>21, <1>22, <1>23, <1>24,
     <1>25
     DEF Next, Call, Step, Destroy

(* At first nobody holds a lock.                                           *)
LEMMA LocksInit == Init => Locks
<1> SUFFICES ASSUME Init PROVE Locks
  OBVIOUS
<1>1. \A x \in All : stack[x] = IF x \in Threads THEN <<Loop("get")>> ELSE <<>>
  BY DEF Init
<1>2. \A x \in All : /\ ~In(x, "Send", "add") /\ ~In(x, "Post", "add") /\ ~In(x, "Clear", "next")
                     /\ ~In(x, "ReceiveSends", "signal")
  BY <1>1 DEF In, Loop
<1>3. \A t \in Threads : crit_[t] = None /\ ~Known(t)
  BY DEF Init, Known
<1>4. manager_crit_ = None
  BY DEF Init
<1> QED
  BY <1>2, <1>3, <1>4, ThreadsAssumption DEF Locks, Adding, All

(* The manager's lock and the locks of the queues are never waited for in  *)
(* a circle. *)
THEOREM NoLockCycleHolds == Spec => []NoLockCycle
<1>1. Init => Typed /\ Locks
  BY TypedInit, LocksInit
<1>2. Typed /\ Locks /\ [Next]_vars => Typed' /\ Locks'
  BY TypedStep, LocksStep
<1>3. Typed /\ Locks => NoLockCycle
  <2> SUFFICES ASSUME Typed, Locks, NEW x \in All, NEW y \in All, NEW q \in Threads,
                      stack[y] # <<>>, Head(stack[y]).at = "add", crit_[q] = y,
                      Head(stack[y]).to = q, In(x, "Clear", "next"),
                      Head(stack[x]).todo # <<>>, Head(Head(stack[x]).todo) = q
               PROVE  FALSE
    BY DEF NoLockCycle
  <2>1. Adding(y, q)
    BY DEF Locks, In, Adding
  <2>2. Head(stack[x]) = stack[x][1] /\ stack[x][1] \in ClearFrame
    BY TopTypes, FrameKinds DEF Is
  <2>3. Head(stack[x]).todo \in Seq(Threads)
    BY <2>2 DEF ClearFrame
  <2>4. 1 \in DOMAIN Head(stack[x]).todo /\ Head(stack[x]).todo[1] = q
    BY <2>3, SeqFacts
  <2>5. Known(q)
    BY <2>4 DEF Locks
  <2> QED
    BY <2>1, <2>5 DEF Locks
<1> QED
  BY <1>1, <1>2, <1>3, PTL DEF Spec

(* Every variable has the values that the code gives it. *)
THEOREM TypeCorrectThreads == Spec => []TypeOK
<1>1. Init => Typed /\ Locks
  BY TypedInit, LocksInit
<1>2. Typed /\ Locks /\ [Next]_vars => Typed' /\ Locks'
  BY TypedStep, LocksStep
<1>3. Typed /\ Locks => TypeOK
  <2> SUFFICES ASSUME Typed, Locks PROVE TypeOK
    OBVIOUS
  <2>1. \A t \in Threads, x \in All : crit_[t] = x =>
          \/ In(x, "Send", "add") \/ In(x, "Post", "add")
          \/ x = t /\ In(t, "ReceiveSends", "signal")
    BY DEF Locks, Adding
  <2>2. TypeInv
    BY DEF Typed
  <2>3. \A x \in All : \A i \in DOMAIN stack[x] : stack[x][i] \in Frame
    BY <2>2, Positions DEF TypeInv
  <2> QED
    BY <2>1, <2>2, <2>3 DEF TypeOK, TypeInv, SendMsg, PostMsg
<1> QED
  BY <1>1, <1>2, <1>3, PTL DEF Spec
-----------------------------------------------------------------------------
(* A call that still has to touch the queue of t.                          *)
Touching(f, t) == f.call \in {"Send", "Post"} /\ f.at \in {"enter", "add", "wake"} /\ f.to = t

(* Untouched, position by position.                                        *)
LEMMA UntouchedIs ==
    /\ \A t : Untouched(t) <=> \A x \in All : \A i \in DOMAIN stack[x] : ~Touching(stack[x][i], t)
    /\ \A t : Untouched(t)' <=> \A x \in All : \A i \in DOMAIN stack'[x] : ~Touching(stack'[x][i], t)
  BY DEF Untouched, Touching

(* The calls of x, now and then. *)
LEMMA FramesAfter ==
    ASSUME NEW x \in All, NEW k \in 0 .. 2, NEW d, Moved(x, k, d), NEW y \in All,
           NEW i \in DOMAIN stack'[y]
    PROVE  \/ y = x /\ i \in 1 .. k
           \/ \E j \in DOMAIN stack[y] : stack'[y][i] = stack[y][j]
<1>1. CASE y # x
  BY <1>1 DEF Moved
<1>2. CASE y = x
  <2>1. i \in Nat /\ i >= 1
    BY <1>2, PositionsNext
  <2>2. i > k => \E j \in DOMAIN stack[y] : stack'[y][i] = stack[y][j]
    BY <1>2 DEF Moved
  <2> QED
    BY <1>2, <2>1, <2>2
<1> QED
  BY <1>1, <1>2

(* Lists that lost messages, or nothing. *)
Shrinks == \A t \in Threads : /\ msgq_'[t] # <<>> => msgq_[t] # <<>>
                              /\ sendlist_'[t] # <<>> => sendlist_[t] # <<>>
                              /\ \A h : Names(t, h)' => Names(t, h)

(* Nobody enters or leaves EnsureActive or Clear.                          *)
SameHolders == /\ \A y \in All : \A t : Adding(y, t)' <=> Adding(y, t)
               /\ \A y \in All : In(y, "Clear", "next")' <=> In(y, "Clear", "next")
               /\ \A y \in All : In(y, "Clear", "next") => stack'[y] = stack[y]

(* So it is when x is in neither, before and after.                        *)
LEMMA SameHoldersQuiet ==
    ASSUME NEW x \in All, NEW k, NEW d, Moved(x, k, d), ~Holds(x), ~Holds(x)'
    PROVE  SameHolders
  BY OthersSame DEF SameHolders, Adding, Holds

(* What keeps the queues and the destructors in step when only the lists   *)
(* shrink and calls are made that are about living handlers and threads.   *)
LEMMA QueuesTouch ==
    ASSUME Typed, Queues, NEW x \in All, NEW k \in 0 .. 2, NEW d, Moved(x, k, d),
           UNCHANGED owner,
           \A i \in 1 .. k : \A t \in Threads :
             Touching(stack'[x][i], t) => owner[t] \notin {"removes", "gone"}
    PROVE  \A t \in Threads : owner'[t] \in {"removes", "gone"} => Untouched(t)'
<1> SUFFICES ASSUME NEW t \in Threads, owner[t] \in {"removes", "gone"},
                    NEW y \in All, NEW i \in DOMAIN stack'[y], Touching(stack'[y][i], t)
             PROVE  FALSE
  BY UntouchedIs
<1>1. ~(y = x /\ i \in 1 .. k)
  OBVIOUS
<1>2. PICK j \in DOMAIN stack[y] : stack'[y][i] = stack[y][j]
  BY <1>1, FramesAfter
<1> QED
  BY <1>2, UntouchedIs DEF Queues

(* Queues is kept when the lists shrink and no call of x is new to a       *)
(* thread.                                                                 *)
LEMMA QueuesQuiet ==
    ASSUME Typed, Queues, NEW x \in All, NEW k \in 0 .. 2, NEW d, Moved(x, k, d),
           UNCHANGED <<fStop_, active_, message_queues_, owner>>, Shrinks,
           \A y \in All : \A t : Adding(y, t)' <=> Adding(y, t),
           \A i \in 1 .. k : \A t \in Threads :
             Touching(stack'[x][i], t) => owner[t] \notin {"removes", "gone"}
    PROVE  Queues'
<1>1. \A t \in Threads : owner'[t] \in {"removes", "gone"} => Untouched(t)'
  BY QueuesTouch
<1>2. \A t : Known(t)' <=> Known(t)
  BY DEF Known
<1>3. \A t \in Threads : owner'[t] # "runs" => fStop_'[t]
  BY DEF Queues
<1>4. \A t \in Threads :
        active_'[t] => Known(t)' \/ (\E y \in All : Adding(y, t)') \/ owner'[t] = "gone"
  BY <1>2 DEF Queues
<1>5. \A t \in Threads : msgq_'[t] # <<>> \/ sendlist_'[t] # <<>> =>
             Known(t)' /\ owner'[t] \notin {"removes", "gone"}
  BY <1>2 DEF Queues, Shrinks
<1> QED
  BY <1>1, <1>3, <1>4, <1>5 DEF Queues

(* The calls that are about to name a handler name living ones.            *)
LEMMA EntriesAlive ==
    ASSUME Typed, Clears, NEW x \in All, NEW k \in 0 .. 2, NEW d, Moved(x, k, d), UNCHANGED alive,
           \A i \in 1 .. k : Entry(stack'[x][i]) => stack'[x][i].h \in alive
    PROVE  \A y \in All : \A i \in DOMAIN stack'[y] : Entry(stack'[y][i]) => stack'[y][i].h \in alive'
<1> SUFFICES ASSUME NEW y \in All, NEW i \in DOMAIN stack'[y], Entry(stack'[y][i])
             PROVE  stack'[y][i].h \in alive
  OBVIOUS
<1>1. CASE y = x /\ i \in 1 .. k
  BY <1>1
<1>2. CASE \E j \in DOMAIN stack[y] : stack'[y][i] = stack[y][j]
  BY <1>2 DEF Clears
<1> QED
  BY <1>1, <1>2, FramesAfter

(* Clears is kept when the lists shrink and nobody enters or leaves Clear. *)
LEMMA ClearsQuiet ==
    ASSUME Typed, Clears, NEW x \in All, NEW k \in 0 .. 2, NEW d, Moved(x, k, d),
           UNCHANGED alive, Shrinks, SameHolders,
           \A i \in 1 .. k : Entry(stack'[x][i]) => stack'[x][i].h \in alive
    PROVE  Clears'
<1>1. \A y \in All : \A i \in DOMAIN stack'[y] : Entry(stack'[y][i]) => stack'[y][i].h \in alive'
  BY EntriesAlive
<1>2. ASSUME NEW h \in Handlers \ alive', NEW t \in Threads, Names(t, h)'
      PROVE  \E y \in All : /\ In(y, "Clear", "next")' /\ Head(stack'[y]).h = h
                            /\ \E i \in DOMAIN Head(stack'[y]).todo : Head(stack'[y]).todo[i] = t
  <2>1. Names(t, h) /\ h \in Handlers \ alive
    BY <1>2 DEF Shrinks
  <2>2. PICK y \in All : /\ In(y, "Clear", "next") /\ Head(stack[y]).h = h
                         /\ \E i \in DOMAIN Head(stack[y]).todo : Head(stack[y]).todo[i] = t
    BY <2>1 DEF Clears
  <2>3. stack'[y] = stack[y] /\ In(y, "Clear", "next")'
    BY <2>2 DEF SameHolders
  <2> QED
    BY <2>2, <2>3
<1> QED
  BY <1>1, <1>2 DEF Clears

(* A call that touches no thread and names no handler any more.            *)
Plain(f) == ~(f.call \in {"Send", "Post"} /\ f.at \in {"enter", "add", "wake"})

(* x moves on, and all its new calls are plain.                            *)
Plainly(x) == \E k \in 0 .. 2, d \in {-1, 0, 1} :
                 Moved(x, k, d) /\ \A i \in 1 .. k : Plain(stack'[x][i])

(* A return adds no call that touches a queue.                             *)
LEMMA PlainReturns == ASSUME NEW x \in All, Moved(x, 0, 1) PROVE Plainly(x)
<1>1. 0 \in 0 .. 2 /\ 1 \in {-1, 0, 1} /\ \A i \in 1 .. 0 : Plain(stack'[x][i])
  OBVIOUS
<1> QED
  BY <1>1 DEF Plainly

(* Nor does a plain call that goes on, ...                                 *)
LEMMA PlainGoes ==
    ASSUME NEW x \in All, NEW d \in {-1, 0, 1}, Moved(x, 1, d), Plain(stack'[x][1])
    PROVE  Plainly(x)
<1>1. 1 \in 0 .. 2 /\ \A i \in 1 .. 1 : i = 1
  OBVIOUS
<1> QED
  BY <1>1 DEF Plainly

(* ... or that calls another plain one.                                    *)
LEMMA PlainCalls ==
    ASSUME NEW x \in All, Moved(x, 2, -1), Plain(stack'[x][1]), Plain(stack'[x][2])
    PROVE  Plainly(x)
<1>1. 2 \in 0 .. 2 /\ -1 \in {-1, 0, 1} /\ \A i \in 1 .. 2 : i = 1 \/ i = 2
  OBVIOUS
<1> QED
  BY <1>1 DEF Plainly

(* Queues and Clears are kept by plain steps under which the lists shrink. *)
LEMMA ListsQuiet ==
    ASSUME Typed, Queues, Clears, NEW x \in All, Plainly(x),
           UNCHANGED <<fStop_, active_, message_queues_, owner, alive>>, Shrinks, SameHolders
    PROVE  Queues' /\ Clears'
<1>1. PICK k \in 0 .. 2, d \in {-1, 0, 1} :
        Moved(x, k, d) /\ \A i \in 1 .. k : Plain(stack'[x][i])
  BY DEF Plainly
<1>2. /\ \A i \in 1 .. k : \A t \in Threads :
            Touching(stack'[x][i], t) => owner[t] \notin {"removes", "gone"}
      /\ \A i \in 1 .. k : Entry(stack'[x][i]) => stack'[x][i].h \in alive
  BY <1>1 DEF Plain, Touching, Entry
<1>3. Queues'
  BY <1>1, <1>2, QueuesQuiet DEF SameHolders
<1>4. Clears'
  BY <1>1, <1>2, ClearsQuiet
<1> QED
  BY <1>3, <1>4

(* The rest of a list is a list of what was in it.                         *)
LEMMA ShrinksList ==
    ASSUME NEW S, NEW s \in Seq(S), s # <<>>
    PROVE  /\ Tail(s) \in Seq(S) /\ Len(Tail(s)) = Len(s) - 1
           /\ \A i \in DOMAIN Tail(s) : i + 1 \in DOMAIN s /\ Tail(s)[i] = s[i + 1]
  OBVIOUS

(* The lists shrink when they remain as they are, ...                      *)
LEMMA ShrinksSame == ASSUME UNCHANGED <<msgq_, sendlist_>> PROVE Shrinks
  BY DEF Shrinks, Names

(* ... when Get takes a message, ...                                       *)
LEMMA ShrinksPost ==
    ASSUME Typed, NEW x \in Threads, msgq_[x] # <<>>, msgq_' = [msgq_ EXCEPT ![x] = Tail(@)],
           UNCHANGED sendlist_
    PROVE  Shrinks
<1>1. msgq_ \in [Threads -> Seq(PostMsg)] /\ msgq_[x] \in Seq(PostMsg)
  BY DEF Typed, TypeInv
<1>2. \A i \in DOMAIN msgq_'[x] : \E j \in DOMAIN msgq_[x] : msgq_'[x][i] = msgq_[x][j]
  BY <1>1, ShrinksList
<1>3. \A t \in Threads : t # x => msgq_'[t] = msgq_[t]
  BY <1>1
<1> QED
  BY <1>2, <1>3 DEF Shrinks, Names

(* ... when ReceiveSends takes a send, ...                                 *)
LEMMA ShrinksSend ==
    ASSUME Typed, NEW x \in Threads, sendlist_[x] # <<>>,
           sendlist_' = [sendlist_ EXCEPT ![x] = Tail(@)], UNCHANGED msgq_
    PROVE  Shrinks
<1>1. sendlist_ \in [Threads -> Seq(SendMsg)] /\ sendlist_[x] \in Seq(SendMsg)
  BY DEF Typed, TypeInv
<1>2. \A i \in DOMAIN sendlist_'[x] : \E j \in DOMAIN sendlist_[x] : sendlist_'[x][i] = sendlist_[x][j]
  BY <1>1, ShrinksList
<1>3. \A t \in Threads : t # x => sendlist_'[t] = sendlist_[t]
  BY <1>1
<1> QED
  BY <1>2, <1>3 DEF Shrinks, Names

(* ... and under Clear, which leaves nothing of its handlers.              *)
LEMMA ShrinksClear ==
    ASSUME Typed, NEW q \in Threads, NEW hs, ClearOne(q, hs)
    PROVE  /\ Shrinks
           /\ \A h \in hs : ~Names(q, h)'
           /\ \A t \in Threads : t # q => sendlist_'[t] = sendlist_[t] /\ msgq_'[t] = msgq_[t]
<1>1. /\ sendlist_ \in [Threads -> Seq(SendMsg)] /\ sendlist_[q] \in Seq(SendMsg)
      /\ msgq_ \in [Threads -> Seq(PostMsg)] /\ msgq_[q] \in Seq(PostMsg)
  BY DEF Typed, TypeInv
<1>2. /\ sendlist_'[q] = Keep(sendlist_[q], hs) /\ msgq_'[q] = Keep(msgq_[q], hs)
      /\ \A t \in Threads : t # q => sendlist_'[t] = sendlist_[t] /\ msgq_'[t] = msgq_[t]
  BY <1>1 DEF ClearOne
<1>3. /\ \A i \in DOMAIN sendlist_'[q] : /\ sendlist_'[q][i].h \notin hs
                                       /\ \E j \in DOMAIN sendlist_[q] : sendlist_'[q][i] = sendlist_[q][j]
      /\ sendlist_'[q] \in Seq(SendMsg)
  BY <1>1, <1>2, KeepElements
<1>4. /\ \A i \in DOMAIN msgq_'[q] : /\ msgq_'[q][i].h \notin hs
                                   /\ \E j \in DOMAIN msgq_[q] : msgq_'[q][i] = msgq_[q][j]
      /\ msgq_'[q] \in Seq(PostMsg)
  BY <1>1, <1>2, KeepElements
<1>5. /\ sendlist_'[q] # <<>> => sendlist_[q] # <<>>
      /\ msgq_'[q] # <<>> => msgq_[q] # <<>>
  <2>1. ASSUME NEW S, NEW s \in Seq(S), NEW k \in Seq(S), k # <<>>,
               \A i \in DOMAIN k : \E j \in DOMAIN s : k[i] = s[j]
        PROVE  s # <<>>
    <3>1. 1 \in DOMAIN k
      BY <2>1, SeqFacts
    <3>2. PICK j : j \in DOMAIN s
      BY <2>1, <3>1
    <3> QED
      BY <3>2, SeqFacts
  <2>2. sendlist_'[q] # <<>> => sendlist_[q] # <<>>
    BY ONLY <1>1, <1>3, <2>1
  <2>3. msgq_'[q] # <<>> => msgq_[q] # <<>>
    BY ONLY <1>1, <1>4, <2>1
  <2> QED
    BY ONLY <2>2, <2>3
<1>6. \A h \in hs : ~Names(q, h)'
  BY <1>3, <1>4 DEF Names
<1>7. \A h : Names(q, h)' => Names(q, h)
  BY <1>3, <1>4 DEF Names
<1> QED
  BY <1>2, <1>5, <1>6, <1>7 DEF Shrinks, Names

(* Who holds no lock before and after a step is in neither call.           *)
LEMMA SameHoldersPlain ==
    ASSUME NEW x \in All, Plainly(x), ~Holds(x), ~Holds(x)'
    PROVE  SameHolders
  BY SameHoldersQuiet DEF Plainly

(* Who calls and what it holds when it is not inside a lock.               *)
LEMMA PlainHolds ==
    ASSUME Typed, NEW x \in All
    PROVE  /\ Moved(x, 0, 1) => Plainly(x) /\ ~Holds(x)'
           /\ \A d \in {-1, 0, 1} :
                Moved(x, 1, d) /\ Plain(stack'[x][1]) /\ ~Holder(stack'[x][1]) =>
                  Plainly(x) /\ ~Holds(x)'
           /\ Moved(x, 2, -1) /\ Plain(stack'[x][1]) /\ Plain(stack'[x][2])
                /\ ~Holder(stack'[x][1]) => Plainly(x) /\ ~Holds(x)'
  BY PlainReturns, PlainGoes, PlainCalls, ReturnedTop, HoldsNext

(* Clears is kept by a step of the owner of a thread.                      *)
LEMMA ClearsStays ==
    ASSUME Clears, UNCHANGED <<stack, alive>>, Shrinks
    PROVE  Clears'
<1>1. /\ \A y \in All : In(y, "Clear", "next")' <=> In(y, "Clear", "next")
      /\ stack' = stack /\ alive' = alive
  BY DEF In
<1>2. \A t \in Threads : \A h : Names(t, h)' => Names(t, h)
  BY DEF Shrinks
<1> QED
  BY <1>1, <1>2 DEF Clears

(* The list of one thread grows by one message.                            *)
LEMMA DeliverLists ==
    ASSUME Typed, NEW x \in All, NEW a, In(x, "Send", a) \/ In(x, "Post", a), Deliver(x),
           NEW q \in Threads, q = stack[x][1].to
    PROVE  /\ \A t \in Threads : t # q => msgq_'[t] = msgq_[t] /\ sendlist_'[t] = sendlist_[t]
           /\ \A h : Names(q, h)' => Names(q, h) \/ h = stack[x][1].h
<1>1. /\ sendlist_ \in [Threads -> Seq(SendMsg)] /\ sendlist_[q] \in Seq(SendMsg)
      /\ msgq_ \in [Threads -> Seq(PostMsg)] /\ msgq_[q] \in Seq(PostMsg)
  BY DEF Typed, TypeInv
<1>2. /\ Head(stack[x]) = stack[x][1] /\ stack[x][1] \in Frame
      /\ stack[x][1].call = "Send" \/ stack[x][1].call = "Post"
  BY TopTypes DEF Is
<1>3. CASE stack[x][1].call = "Send"
  <2> DEFINE m == [n |-> stack[x][1].n, from |-> x, h |-> stack[x][1].h]
  <2>1. sendlist_' = [sendlist_ EXCEPT ![q] = Append(@, m)] /\ UNCHANGED msgq_
    BY <1>2, <1>3, Zenon DEF Deliver
  <2>2. m \in SendMsg /\ m.h = stack[x][1].h
    BY <1>2, <1>3, FrameKinds DEF SendFrame, SendMsg
  <2> HIDE DEF m
  <2> DEFINE l == Append(sendlist_[q], m)
  <2>3. \A i \in DOMAIN l : l[i] = m \/ (i \in DOMAIN sendlist_[q] /\ l[i] = sendlist_[q][i])
    BY <1>1, <2>2
  <2>4. sendlist_' = [sendlist_ EXCEPT ![q] = l]
    BY ONLY <2>1
  <2> HIDE DEF l
  <2>5. sendlist_'[q] = l /\ msgq_' = msgq_ /\ \A t \in Threads : t # q => sendlist_'[t] = sendlist_[t]
    BY ONLY <1>1, <2>1, <2>4
  <2>6. ASSUME NEW h, Names(q, h)' PROVE Names(q, h) \/ h = stack[x][1].h
    <3>1. \/ \E i \in DOMAIN msgq_[q] : msgq_[q][i].h = h
          \/ \E i \in DOMAIN l : l[i].h = h
      BY ONLY <2>5, <2>6 DEF Names
    <3>2. \A i \in DOMAIN l : l[i].h = h =>
             h = stack[x][1].h \/ \E j \in DOMAIN sendlist_[q] : sendlist_[q][j].h = h
      BY ONLY <2>2, <2>3
    <3> QED
      BY ONLY <3>1, <3>2 DEF Names
  <2> QED
    BY ONLY <2>5, <2>6
<1>4. CASE stack[x][1].call = "Post"
  <2> DEFINE m == [n |-> stack[x][1].n, h |-> stack[x][1].h]
  <2>1. msgq_' = [msgq_ EXCEPT ![q] = Append(@, m)] /\ UNCHANGED sendlist_
    BY <1>2, <1>4, Zenon DEF Deliver
  <2>2. m \in PostMsg /\ m.h = stack[x][1].h
    BY <1>2, <1>4, FrameKinds DEF PostFrame, PostMsg
  <2> HIDE DEF m
  <2> DEFINE l == Append(msgq_[q], m)
  <2>3. \A i \in DOMAIN l : l[i] = m \/ (i \in DOMAIN msgq_[q] /\ l[i] = msgq_[q][i])
    BY <1>1, <2>2
  <2>4. msgq_' = [msgq_ EXCEPT ![q] = l]
    BY ONLY <2>1
  <2> HIDE DEF l
  <2>5. msgq_'[q] = l /\ sendlist_' = sendlist_ /\ \A t \in Threads : t # q => msgq_'[t] = msgq_[t]
    BY ONLY <1>1, <2>1, <2>4
  <2>6. ASSUME NEW h, Names(q, h)' PROVE Names(q, h) \/ h = stack[x][1].h
    <3>1. \/ \E i \in DOMAIN sendlist_[q] : sendlist_[q][i].h = h
          \/ \E i \in DOMAIN l : l[i].h = h
      BY ONLY <2>5, <2>6 DEF Names
    <3>2. \A i \in DOMAIN l : l[i].h = h =>
             h = stack[x][1].h \/ \E j \in DOMAIN msgq_[q] : msgq_[q][j].h = h
      BY ONLY <2>2, <2>3
    <3> QED
      BY ONLY <3>1, <3>2 DEF Names
  <2> QED
    BY ONLY <2>5, <2>6
<1> QED
  BY <1>2, <1>3, <1>4

(* What the delivery of a message to q, which the manager knows, does.     *)
LEMMA QueuesDeliver ==
    ASSUME Typed, Queues, Clears, NEW x \in All, NEW a \in {"enter", "add"},
           In(x, "Send", a) \/ In(x, "Post", a),
           Deliver(x), NEW q \in Threads, q = stack[x][1].to,
           UNCHANGED <<fStop_, active_, owner, alive>>, Known(q)',
           \A t : Known(t) => Known(t)',
           \A t \in Threads : t # q => \A y \in All : Adding(y, t)' <=> Adding(y, t)
    PROVE  /\ Queues'
           /\ \A y \in All : \A i \in DOMAIN stack'[y] : Entry(stack'[y][i]) => stack'[y][i].h \in alive'
           /\ \A h \in Handlers \ alive' : \A t \in Threads : Names(t, h)' => Names(t, h)
<1>1. /\ 1 \in DOMAIN stack[x]
      /\ Is(stack[x][1], "Send", a) \/ Is(stack[x][1], "Post", a)
  BY TopTypes
<1>2. Touching(stack[x][1], q) /\ Entry(stack[x][1])
  BY <1>1 DEF Touching, Entry, Is
<1>3. owner[q] \notin {"removes", "gone"} /\ stack[x][1].h \in alive
  BY <1>1, <1>2, UntouchedIs DEF Queues, Clears
<1>4. PICK k \in 0 .. 2, d \in {0, 1} :
        /\ Moved(x, k, d)
        /\ \A i \in 1 .. k : ~Entry(stack'[x][i]) /\ \A t : Touching(stack'[x][i], t) => t = q
  <2>1. CASE stack[x][1].call = "Send"
    <3>1. Moved(x, 1, 0) /\ Is(stack'[x][1], "Send", "wake") /\ stack'[x][1].to = q
      BY <2>1, DeliverMoves
    <3>2. 1 \in 0 .. 2 /\ \A i \in 1 .. 1 : i = 1
      OBVIOUS
    <3>3. \A i \in 1 .. 1 : ~Entry(stack'[x][i]) /\ \A t : Touching(stack'[x][i], t) => t = q
      BY <3>1, <3>2 DEF Is, Entry, Touching
    <3> QED
      BY <3>1, <3>2, <3>3
  <2>2. CASE stack[x][1].call = "Post"
    <3>1. Moved(x, 0, 1)
      BY <2>2, DeliverMoves
    <3>2. 0 \in 0 .. 2 /\ \A i \in 1 .. 0 : FALSE
      OBVIOUS
    <3>3. \A i \in 1 .. 0 : ~Entry(stack'[x][i]) /\ \A t : Touching(stack'[x][i], t) => t = q
      BY <3>2
    <3> QED
      BY <3>1, <3>2, <3>3
  <2> QED
    BY <1>1, <2>1, <2>2 DEF Is
<1>5. \A t \in Threads : owner'[t] \in {"removes", "gone"} => Untouched(t)'
  BY <1>3, <1>4, QueuesTouch
<1>6. \A y \in All : \A i \in DOMAIN stack'[y] : Entry(stack'[y][i]) => stack'[y][i].h \in alive'
  BY <1>4, EntriesAlive
<1>7. /\ \A t \in Threads : t # q => msgq_'[t] = msgq_[t] /\ sendlist_'[t] = sendlist_[t]
      /\ \A h : Names(q, h)' => Names(q, h) \/ h = stack[x][1].h
  BY DeliverLists
<1>8. \A h \in Handlers \ alive' : \A t \in Threads : Names(t, h)' => Names(t, h)
  <2>1. \A h : \A t \in Threads : t # q => (Names(t, h)' => Names(t, h))
    BY ONLY <1>7 DEF Names
  <2>2. stack[x][1].h \in alive'
    BY <1>3
  <2> QED
    BY ONLY <1>7, <2>1, <2>2
<1>9. \A t \in Threads : owner'[t] # "runs" => fStop_'[t]
  BY DEF Queues
<1>10. \A t \in Threads :
        active_'[t] => Known(t)' \/ (\E y \in All : Adding(y, t)') \/ owner'[t] = "gone"
  BY DEF Queues
<1>11. \A t \in Threads : msgq_'[t] # <<>> \/ sendlist_'[t] # <<>> =>
             Known(t)' /\ owner'[t] \notin {"removes", "gone"}
  BY <1>3, <1>7 DEF Queues
<1>12. Queues'
  BY <1>5, <1>9, <1>10, <1>11 DEF Queues
<1> QED
  BY <1>6, <1>8, <1>12

(* Every step keeps Queues and Clears: what a Send or Post adds is in a    *)
(* queue that the manager knows, for a handler that is alive.              *)
LEMMA ListsStep ==
    ASSUME Typed, Locks, Queues, Clears, [Next]_vars
    PROVE  Queues' /\ Clears'
<1>1. ASSUME NEW x \in All, NEW h \in alive, NEW to \in Threads, SendCall(x, to, h) PROVE Queues' /\ Clears'
  <2>0. Typed /\ h \in Handlers /\ ~fStop_[to] /\ owner[to] = "runs"
    BY <1>1 DEF Typed, TypeInv, SendCall, Queues
  <2>1. /\ Moved(x, 1, -1) /\ ~Holder(stack'[x][1])
        /\ \A t : Touching(stack'[x][1], t) => t = to
        /\ Entry(stack'[x][1]) => stack'[x][1].h = h
    BY <1>1, <2>0, SendCallMoves DEF Is, Holder, Touching, Entry
  <2>2. ~Holds(x) /\ ~Holds(x)'
    BY <1>1, <2>0, <2>1, MayCallTop, HoldsTop, HoldsNext DEF SendCall, Holder
  <2>3. SameHolders
    BY <2>1, <2>2, SameHoldersQuiet
  <2>4. /\ \A i \in 1 .. 1 : \A t \in Threads :
              Touching(stack'[x][i], t) => owner[t] \notin {"removes", "gone"}
        /\ \A i \in 1 .. 1 : Entry(stack'[x][i]) => stack'[x][i].h \in alive
    <3>1. \A i \in 1 .. 1 : i = 1
      OBVIOUS
    <3> QED
      BY <3>1, <2>0, <2>1
  <2>5. 1 \in 0 .. 2 /\ Shrinks
    BY <1>1, ShrinksSame DEF SendCall, queues
  <2>u. UNCHANGED <<fStop_, active_, message_queues_, owner, alive>>
    BY <1>1 DEF SendCall, queues, manager
  <2>6. Queues'
    BY <2>0, <2>1, <2>3, <2>4, <2>5, <2>u, QueuesQuiet DEF SameHolders
  <2>7. Clears'
    BY <2>0, <2>1, <2>3, <2>4, <2>5, <2>u, ClearsQuiet
  <2> QED
    BY <2>6, <2>7
<1>2. ASSUME NEW x \in All, NEW h \in alive, NEW to \in Threads, PostCall(x, to, h) PROVE Queues' /\ Clears'
  <2>0. Typed /\ h \in Handlers /\ ~fStop_[to] /\ owner[to] = "runs"
    BY <1>2 DEF Typed, TypeInv, PostCall, Queues
  <2>1. /\ Moved(x, 1, -1) /\ ~Holder(stack'[x][1])
        /\ \A t : Touching(stack'[x][1], t) => t = to
        /\ Entry(stack'[x][1]) => stack'[x][1].h = h
    BY <1>2, <2>0, PostCallMoves DEF Is, Holder, Touching, Entry
  <2>2. ~Holds(x) /\ ~Holds(x)'
    BY <1>2, <2>0, <2>1, MayCallTop, HoldsTop, HoldsNext DEF PostCall, Holder
  <2>3. SameHolders
    BY <2>1, <2>2, SameHoldersQuiet
  <2>4. /\ \A i \in 1 .. 1 : \A t \in Threads :
              Touching(stack'[x][i], t) => owner[t] \notin {"removes", "gone"}
        /\ \A i \in 1 .. 1 : Entry(stack'[x][i]) => stack'[x][i].h \in alive
    <3>1. \A i \in 1 .. 1 : i = 1
      OBVIOUS
    <3> QED
      BY <3>1, <2>0, <2>1
  <2>5. 1 \in 0 .. 2 /\ Shrinks
    BY <1>2, ShrinksSame DEF PostCall, queues
  <2>u. UNCHANGED <<fStop_, active_, message_queues_, owner, alive>>
    BY <1>2 DEF PostCall, queues, manager
  <2>6. Queues'
    BY <2>0, <2>1, <2>3, <2>4, <2>5, <2>u, QueuesQuiet DEF SameHolders
  <2>7. Clears'
    BY <2>0, <2>1, <2>3, <2>4, <2>5, <2>u, ClearsQuiet
  <2> QED
    BY <2>6, <2>7
<1>3. ASSUME NEW x \in All, NEW h \in alive, ClearCall(x, h) PROVE Queues' /\ Clears'
  <2>0. Typed /\ h \in Handlers /\ manager_crit_ = None /\ Unnamed(h)
        /\ alive' = alive \ {h} /\ UNCHANGED <<fStop_, active_, msgq_, sendlist_, message_queues_, owner>>
    BY <1>3 DEF Typed, TypeInv, ClearCall, queues
  <2>1. /\ Moved(x, 1, -1) /\ Is(stack'[x][1], "Clear", "next")
        /\ stack'[x][1].h = h /\ stack'[x][1].todo = message_queues_
    BY <1>3, <2>0, ClearCallMoves
  <2>2. ~Holds(x)
    BY <1>3, <2>0, MayCallTop, HoldsTop DEF ClearCall, Holder
  <2>3. In(x, "Clear", "next")' /\ Head(stack'[x]) = stack'[x][1] /\ \A t : ~Adding(x, t)'
    BY <2>1, TopNext DEF Is, Adding
  <2>4. \A y \in All : \A t : Adding(y, t)' <=> Adding(y, t)
    BY <2>1, <2>2, <2>3, OthersSame DEF Adding, Holds
  <2>5. 1 \in 0 .. 2 /\ (\A i \in 1 .. 1 : i = 1) /\ Shrinks /\ Plain(stack'[x][1])
    BY <2>0, <2>1, ShrinksSame DEF Plain, Is
  <2>6. Queues'
    <3>1. \A i \in 1 .. 1 : \A t \in Threads :
              Touching(stack'[x][i], t) => owner[t] \notin {"removes", "gone"}
      BY <2>5 DEF Plain, Touching
    <3> QED
      BY <3>1, <2>0, <2>1, <2>4, <2>5, QueuesQuiet
  <2>7. \A y \in All : \A i \in DOMAIN stack'[y] : Entry(stack'[y][i]) => stack'[y][i].h \in alive'
    <3> SUFFICES ASSUME NEW y \in All, NEW i \in DOMAIN stack'[y], Entry(stack'[y][i])
                 PROVE  stack'[y][i].h \in alive'
      OBVIOUS
    <3>1. CASE y = x /\ i \in 1 .. 1
      BY <3>1, <2>1, <2>5 DEF Entry, Is
    <3>2. CASE \E j \in DOMAIN stack[y] : stack'[y][i] = stack[y][j]
      <4>1. PICK j \in DOMAIN stack[y] : stack'[y][i] = stack[y][j]
        BY <3>2
      <4>2. stack[y][j].h \in alive /\ stack[y][j].h # h
        BY <4>1, <2>0 DEF Clears, Unnamed, Entry
      <4> QED
        BY <4>1, <4>2, <2>0
    <3> QED
      BY <3>1, <3>2, <2>1, <2>5, FramesAfter
  <2>8. \A y \in All : ~In(y, "Clear", "next")
    BY <2>0, ThreadsAssumption DEF Locks, All
  <2>9. ASSUME NEW hh \in Handlers \ alive', NEW t \in Threads, Names(t, hh)'
        PROVE  \E y \in All : /\ In(y, "Clear", "next")' /\ Head(stack'[y]).h = hh
                            /\ \E i \in DOMAIN Head(stack'[y]).todo : Head(stack'[y]).todo[i] = t
    <3>1. Names(t, hh) /\ (hh = h \/ hh \in Handlers \ alive)
      BY <2>9, <2>0 DEF Names
    <3>2. hh = h
      BY <3>1, <2>8 DEF Clears
    <3>3. msgq_[t] # <<>> \/ sendlist_[t] # <<>>
      BY <3>1 DEF Names
    <3>4. Known(t)
      BY <3>3 DEF Queues
    <3> QED
      BY <3>2, <3>4, <2>1, <2>3 DEF Known
  <2>10. Clears'
    BY <2>7, <2>9 DEF Clears
  <2> QED
    BY <2>6, <2>10
<1>4. ASSUME NEW x \in All, OnMessageReturns(x) PROVE Queues' /\ Clears'
  <2>1. ~Holds(x) /\ Plainly(x) /\ ~Holds(x)'
    BY <1>4, OnMessageReturnsMoves, HoldsTop, PlainHolds DEF Is, Holder, Plain
  <2>2. SameHolders /\ Shrinks
    BY <1>4, <2>1, SameHoldersPlain, ShrinksSame DEF OnMessageReturns, queues
  <2>u. UNCHANGED <<fStop_, active_, message_queues_, owner, alive>>
    BY <1>4 DEF OnMessageReturns, queues, manager
  <2> QED
    BY <2>1, <2>2, <2>u, ListsQuiet
<1>5. ASSUME NEW x \in All, EnterActive(x) PROVE Queues' /\ Clears'
  <2>0. (In(x, "Send", "enter") \/ In(x, "Post", "enter")) /\ Deliver(x)
        /\ UNCHANGED <<fStop_, active_, owner, alive>>
    BY <1>5 DEF EnterActive, Entering
  <2>1. PICK q \in Threads : q = stack[x][1].to
    BY <2>0, DeliverTypes
  <2>2. /\ 1 \in DOMAIN stack[x] /\ Head(stack[x]) = stack[x][1]
        /\ Is(stack[x][1], "Send", "enter") \/ Is(stack[x][1], "Post", "enter")
    BY <2>0, TopTypes
  <2>m. (\E k, d : Moved(x, k, d)) /\ ~Holds(x)'
    <3>1. CASE stack[x][1].call = "Send"
      BY <2>0, <3>1, DeliverMoves, HoldsNext DEF Is, Holder
    <3>2. CASE stack[x][1].call = "Post"
      BY <2>0, <3>2, DeliverMoves, ReturnedTop
    <3> QED
      BY <3>1, <3>2, <2>2 DEF Is
  <2>3. crit_[q] = None /\ active_[q] /\ UNCHANGED message_queues_
    BY <1>5, <2>1, <2>2 DEF EnterActive, Entering, manager
  <2>4. \A y \in All : ~Adding(y, q)
    BY <2>3, ThreadsAssumption DEF Locks, All
  <2>5. owner[q] # "gone"
    <3>1. Touching(stack[x][1], q)
      BY <2>1, <2>2 DEF Touching, Is
    <3> QED
      BY <3>1, <2>2, UntouchedIs DEF Queues
  <2>6. Known(q)' /\ \A t : Known(t)' <=> Known(t)
    <3>1. Known(q)
      BY <2>3, <2>4, <2>5 DEF Queues
    <3> QED
      BY <3>1, <2>3 DEF Known
  <2>7. ~Holds(x)
    BY <2>2, HoldsTop DEF Is, Holder
  <2>8. SameHolders
    BY <2>m, <2>7, SameHoldersQuiet
  <2>9. /\ Queues'
        /\ \A y \in All : \A i \in DOMAIN stack'[y] : Entry(stack'[y][i]) => stack'[y][i].h \in alive'
        /\ \A hh \in Handlers \ alive' : \A t \in Threads : Names(t, hh)' => Names(t, hh)
    BY <2>0, <2>1, <2>6, <2>8, QueuesDeliver DEF SameHolders
  <2>10. Clears'
    <3>1. ASSUME NEW hh \in Handlers \ alive', NEW t \in Threads, Names(t, hh)'
          PROVE  \E y \in All : /\ In(y, "Clear", "next")' /\ Head(stack'[y]).h = hh
                              /\ \E i \in DOMAIN Head(stack'[y]).todo : Head(stack'[y]).todo[i] = t
      <4>1. Names(t, hh) /\ hh \in Handlers \ alive
        BY <3>1, <2>9, <2>0
      <4>2. PICK y \in All : /\ In(y, "Clear", "next") /\ Head(stack[y]).h = hh
                             /\ \E i \in DOMAIN Head(stack[y]).todo : Head(stack[y]).todo[i] = t
        BY <4>1 DEF Clears
      <4>3. stack'[y] = stack[y] /\ In(y, "Clear", "next")'
        BY <4>2, <2>8 DEF SameHolders
      <4> QED
        BY <4>2, <4>3
    <3> QED
      BY <3>1, <2>9 DEF Clears
  <2> QED
    BY <2>9, <2>10
<1>6. ASSUME NEW x \in All, EnsureActive(x) PROVE Queues' /\ Clears'
  <2>1. PICK q \in Threads : q = stack[x][1].to
    BY <1>6, EnsureActiveMoves
  <2>2. /\ Moved(x, 1, 0) /\ 1 \in DOMAIN stack[x] /\ Head(stack[x]) = stack[x][1]
        /\ Is(stack[x][1], "Send", "enter") \/ Is(stack[x][1], "Post", "enter")
        /\ Is(stack'[x][1], stack[x][1].call, "add") /\ stack'[x][1].to = q
        /\ stack'[x][1].h = stack[x][1].h
    BY <1>6, <2>1, EnsureActiveMoves
  <2>3. /\ active_' = [active_ EXCEPT ![q] = TRUE] /\ active_ \in [Threads -> BOOLEAN]
        /\ UNCHANGED <<fStop_, msgq_, sendlist_, message_queues_, owner, alive>>
    BY <1>6, <2>1, <2>2 DEF EnsureActive, manager, Typed, TypeInv
  <2>4. Adding(x, q)' /\ ~In(x, "Clear", "next")'
    BY <2>2, TopNext, Zenon DEF Is, Adding
  <2>5. ~Holds(x)
    BY <2>2, HoldsTop DEF Is, Holder
  <2>6. \A y \in All : \A t : Adding(y, t) => Adding(y, t)'
    BY <2>2, <2>5, OthersSame DEF Adding, Holds
  <2>7. Touching(stack[x][1], q) /\ Entry(stack[x][1])
    BY <2>1, <2>2 DEF Touching, Entry, Is
  <2>8. owner[q] \notin {"removes", "gone"} /\ stack[x][1].h \in alive
    BY <2>2, <2>7, UntouchedIs DEF Queues, Clears
  <2>9. 1 \in 0 .. 2 /\ (\A i \in 1 .. 1 : i = 1) /\ \A t : Touching(stack'[x][1], t) => t = q
    BY <2>2 DEF Touching
  <2>10. /\ \A t \in Threads : owner'[t] \in {"removes", "gone"} => Untouched(t)'
         /\ \A y \in All : \A i \in DOMAIN stack'[y] : Entry(stack'[y][i]) => stack'[y][i].h \in alive'
    BY <2>2, <2>3, <2>8, <2>9, QueuesTouch, EntriesAlive
  <2>11. \A t : /\ Known(t)' <=> Known(t)
                /\ \A h : Names(t, h)' <=> Names(t, h)
    BY <2>3 DEF Known, Names
  <2>12. \A t \in Threads :
          active_'[t] => Known(t)' \/ (\E y \in All : Adding(y, t)') \/ owner'[t] = "gone"
    BY <2>3, <2>4, <2>6, <2>11 DEF Queues
  <2>13. Queues'
    BY <2>3, <2>10, <2>11, <2>12 DEF Queues
  <2>14. \A y \in All : In(y, "Clear", "next") => In(y, "Clear", "next")' /\ stack'[y] = stack[y]
    BY <2>2, <2>5, OthersSame DEF Holds
  <2>15. \A hh \in Handlers \ alive' : \A t \in Threads : Names(t, hh)' =>
           \E y \in All : /\ In(y, "Clear", "next")' /\ Head(stack'[y]).h = hh
                          /\ \E i \in DOMAIN Head(stack'[y]).todo : Head(stack'[y]).todo[i] = t
    <3> TAKE hh \in Handlers \ alive'
    <3> TAKE t \in Threads
    <3> HAVE Names(t, hh)'
    <3>1. PICK y \in All : /\ In(y, "Clear", "next") /\ Head(stack[y]).h = hh
                           /\ \E i \in DOMAIN Head(stack[y]).todo : Head(stack[y]).todo[i] = t
      BY <2>3, <2>11 DEF Clears
    <3> QED
      BY <3>1, <2>14
  <2>16. Clears'
    BY <2>10, <2>15 DEF Clears
  <2> QED
    BY <2>13, <2>16
<1>7. ASSUME NEW x \in All, Add(x) PROVE Queues' /\ Clears'
  <2>0. (In(x, "Send", "add") \/ In(x, "Post", "add")) /\ Deliver(x)
        /\ UNCHANGED <<fStop_, active_, owner, alive>>
    BY <1>7 DEF Add, Entering
  <2>1. PICK q \in Threads : q = stack[x][1].to
    BY <2>0, DeliverTypes
  <2>2. /\ 1 \in DOMAIN stack[x] /\ Head(stack[x]) = stack[x][1]
        /\ Is(stack[x][1], "Send", "add") \/ Is(stack[x][1], "Post", "add")
    BY <2>0, TopTypes
  <2>m. (\E k, d : Moved(x, k, d)) /\ ~Holds(x)'
    <3>1. CASE stack[x][1].call = "Send"
      BY <2>0, <3>1, DeliverMoves, HoldsNext DEF Is, Holder
    <3>2. CASE stack[x][1].call = "Post"
      BY <2>0, <3>2, DeliverMoves, ReturnedTop
    <3> QED
      BY <3>1, <3>2, <2>2 DEF Is
  <2>3. /\ manager_crit_ = None /\ message_queues_' = Append(message_queues_, q)
        /\ message_queues_ \in Seq(Threads)
    BY <1>7, <2>1, <2>2 DEF Add, Typed, TypeInv
  <2>4. Known(q)' /\ \A t : Known(t) => Known(t)'
    <3>1. Len(message_queues_) \in Nat /\ Len(message_queues_) + 1 \in DOMAIN message_queues_'
          /\ message_queues_'[Len(message_queues_) + 1] = q
      BY <2>3
    <3>2. \A i \in DOMAIN message_queues_ : i \in DOMAIN message_queues_' /\ message_queues_'[i] = message_queues_[i]
      BY <2>3
    <3> QED
      BY <3>1, <3>2 DEF Known
  <2>5. \A t \in Threads : t # q => \A y \in All : Adding(y, t)' <=> Adding(y, t)
    <3>1. \A t : t # q => ~Adding(x, t)
      BY <2>1, <2>2 DEF Adding
    <3> QED
      BY <3>1, <2>m, OthersSame DEF Adding, Holds
  <2>6. \A y \in All : ~In(y, "Clear", "next")
    BY <2>3, ThreadsAssumption DEF Locks, All
  <2>9. /\ Queues'
        /\ \A y \in All : \A i \in DOMAIN stack'[y] : Entry(stack'[y][i]) => stack'[y][i].h \in alive'
        /\ \A hh \in Handlers \ alive' : \A t \in Threads : Names(t, hh)' => Names(t, hh)
    BY <2>0, <2>1, <2>4, <2>5, QueuesDeliver
  <2>10. \A hh \in Handlers \ alive' : \A t \in Threads : ~Names(t, hh)'
    BY <2>0, <2>6, <2>9 DEF Clears
  <2> QED
    BY <2>9, <2>10 DEF Clears
<1>8. ASSUME NEW x \in All, SendWakes(x) PROVE Queues' /\ Clears'
  <2>1. ~Holds(x) /\ Plainly(x) /\ ~Holds(x)'
    BY <1>8, SendWakesMoves, HoldsTop, PlainHolds DEF Is, Holder, Plain
  <2>2. SameHolders /\ Shrinks
    BY <1>8, <2>1, SameHoldersPlain, ShrinksSame DEF SendWakes, queues
  <2>u. UNCHANGED <<fStop_, active_, message_queues_, owner, alive>>
    BY <1>8 DEF SendWakes, queues, manager
  <2> QED
    BY <2>1, <2>2, <2>u, ListsQuiet
<1>9. ASSUME NEW x \in All, SendTests(x) PROVE Queues' /\ Clears'
  <2>1. ~Holds(x) /\ Plainly(x) /\ ~Holds(x)'
    BY <1>9, SendTestsMoves, HoldsTop, PlainHolds DEF Is, Holder, Plain
  <2>2. SameHolders /\ Shrinks
    BY <1>9, <2>1, SameHoldersPlain, ShrinksSame DEF SendTests, queues
  <2>u. UNCHANGED <<fStop_, active_, message_queues_, owner, alive>>
    BY <1>9 DEF SendTests, queues, manager
  <2> QED
    BY <2>1, <2>2, <2>u, ListsQuiet
<1>10. ASSUME NEW x \in All, SendWaits(x) PROVE Queues' /\ Clears'
  <2>1. ~Holds(x) /\ Plainly(x) /\ ~Holds(x)'
    BY <1>10, SendWaitsMoves, HoldsTop, PlainHolds DEF Is, Holder, Plain
  <2>2. SameHolders /\ Shrinks
    BY <1>10, <2>1, SameHoldersPlain, ShrinksSame DEF SendWaits, queues
  <2>u. UNCHANGED <<fStop_, active_, message_queues_, owner, alive>>
    BY <1>10 DEF SendWaits, queues, manager
  <2> QED
    BY <2>1, <2>2, <2>u, ListsQuiet
<1>11. ASSUME NEW x \in All, SendReturns(x) PROVE Queues' /\ Clears'
  <2>1. ~Holds(x) /\ Plainly(x) /\ ~Holds(x)'
    BY <1>11, SendReturnsMoves, HoldsTop, PlainHolds DEF Is, Holder, Plain
  <2>2. SameHolders /\ Shrinks
    BY <1>11, <2>1, SameHoldersPlain, ShrinksSame DEF SendReturns, queues
  <2>u. UNCHANGED <<fStop_, active_, message_queues_, owner, alive>>
    BY <1>11 DEF SendReturns, queues, manager
  <2> QED
    BY <2>1, <2>2, <2>u, ListsQuiet
<1>12. ASSUME NEW x \in All, ReceiveChecks(x) PROVE Queues' /\ Clears'
  <2>1. ~Holds(x) /\ Plainly(x) /\ ~Holds(x)'
    BY <1>12, ReceiveChecksMoves, HoldsTop, PlainHolds DEF Is, Holder, Plain
  <2>2. SameHolders /\ Shrinks
    BY <1>12, <2>1, SameHoldersPlain, ShrinksSame DEF ReceiveChecks, queues
  <2>u. UNCHANGED <<fStop_, active_, message_queues_, owner, alive>>
    BY <1>12 DEF ReceiveChecks, queues, manager
  <2> QED
    BY <2>1, <2>2, <2>u, ListsQuiet
<1>13. ASSUME NEW x \in All, ReceiveEnters(x) PROVE Queues' /\ Clears'
  <2>0. In(x, "ReceiveSends", "next") /\ NextSend(x)
    BY <1>13 DEF ReceiveEnters
  <2>1. Plainly(x) /\ ~Holds(x)' /\ x \in Threads
    BY <2>0, NextSendMoves, PlainHolds DEF Is, Holder, Plain
  <2>2. Shrinks
    <3>1. CASE sendlist_[x] = <<>>
      BY <1>13, <2>0, <3>1, ShrinksSame DEF ReceiveEnters, NextSend
    <3>2. CASE sendlist_[x] # <<>>
      BY <1>13, <2>0, <3>2, <2>1, ShrinksSend DEF ReceiveEnters, NextSend
    <3> QED
      BY <3>1, <3>2
  <2>3. ~In(x, "Clear", "next") /\ ~Holds(x)' /\ \A t : ~Adding(x, t)
    BY <2>0, <2>1 DEF Adding, In
  <2>4. SameHolders
    BY <2>1, <2>3, OthersSame DEF SameHolders, Adding, Holds, Plainly
  <2>u. UNCHANGED <<fStop_, active_, message_queues_, owner, alive>>
    BY <1>13 DEF ReceiveEnters, queues, manager
  <2> QED
    BY <2>1, <2>2, <2>4, <2>u, ListsQuiet
<1>14. ASSUME NEW x \in All, ReceiveReplies(x) PROVE Queues' /\ Clears'
  <2>1. /\ Moved(x, 1, 0) /\ Is(stack'[x][1], "ReceiveSends", "signal")
        /\ Is(stack[x][1], "ReceiveSends", "reply")
    BY <1>14, ReceiveRepliesMoves
  <2>2. Plainly(x) /\ ~Holds(x)
    BY <2>1, HoldsTop, PlainGoes DEF Is, Holder, Plain
  <2>3. ~In(x, "Clear", "next")' /\ \A t : ~Adding(x, t)'
    BY <2>1, TopNext DEF Is, Adding
  <2>4. SameHolders /\ Shrinks
    BY <1>14, <2>1, <2>2, <2>3, OthersSame, ShrinksSame DEF SameHolders, Adding, Holds, ReceiveReplies
  <2>u. UNCHANGED <<fStop_, active_, message_queues_, owner, alive>>
    BY <1>14 DEF ReceiveReplies, queues, manager
  <2> QED
    BY <2>2, <2>4, <2>u, ListsQuiet
<1>15. ASSUME NEW x \in All, ReceiveSignals(x) PROVE Queues' /\ Clears'
  <2>0. In(x, "ReceiveSends", "signal") /\ NextSend(x)
    BY <1>15 DEF ReceiveSignals
  <2>1. Plainly(x) /\ ~Holds(x)' /\ x \in Threads
    BY <2>0, NextSendMoves, PlainHolds DEF Is, Holder, Plain
  <2>2. Shrinks
    <3>1. CASE sendlist_[x] = <<>>
      BY <1>15, <2>0, <3>1, ShrinksSame DEF ReceiveSignals, NextSend
    <3>2. CASE sendlist_[x] # <<>>
      BY <1>15, <2>0, <3>2, <2>1, ShrinksSend DEF ReceiveSignals, NextSend
    <3> QED
      BY <3>1, <3>2
  <2>3. ~In(x, "Clear", "next") /\ ~Holds(x)' /\ \A t : ~Adding(x, t)
    BY <2>0, <2>1 DEF Adding, In
  <2>4. SameHolders
    BY <2>1, <2>3, OthersSame DEF SameHolders, Adding, Holds, Plainly
  <2>u. UNCHANGED <<fStop_, active_, message_queues_, owner, alive>>
    BY <1>15 DEF ReceiveSignals, queues, manager
  <2> QED
    BY <2>1, <2>2, <2>4, <2>u, ListsQuiet
<1>16. ASSUME NEW x \in All, ClearNext(x) PROVE Queues' /\ Clears'
  <2>1. /\ Is(stack[x][1], "Clear", "next") /\ Head(stack[x]) = stack[x][1]
        /\ stack[x][1].todo \in Seq(Threads) /\ 1 \in DOMAIN stack[x]
    BY <1>16, ClearNextMoves
  <2>2. /\ In(x, "Clear", "next") /\ manager_crit_ = x
        /\ \A y \in All : In(y, "Clear", "next") => y = x
    BY <1>16 DEF ClearNext, Locks
  <2>3. \A t : ~Adding(x, t)
    BY <2>2 DEF Adding, In
  <2>u. UNCHANGED <<message_queues_, owner, alive>>
    BY <1>16 DEF ClearNext
  <2>4. \A hh \in Handlers \ alive : \A t \in Threads : Names(t, hh) =>
          stack[x][1].h = hh /\ \E i \in DOMAIN stack[x][1].todo : stack[x][1].todo[i] = t
    BY <2>1, <2>2 DEF Clears
  <2>5. CASE stack[x][1].todo = <<>>
    <3>1. Moved(x, 0, 1) /\ UNCHANGED <<fStop_, active_, msgq_, sendlist_>>
      BY <1>16, <2>1, <2>5, ClearNextMoves DEF ClearNext, queues
    <3>2. ~Holds(x)' /\ Shrinks
      BY <3>1, ReturnedTop, ShrinksSame
    <3>3. \A y \in All : \A t : Adding(y, t)' <=> Adding(y, t)
      BY <3>1, <3>2, <2>3, OthersSame DEF Adding, Holds
    <3>4. 0 \in 0 .. 2 /\ \A i \in 1 .. 0 : FALSE
      OBVIOUS
    <3>5. Queues'
      BY <3>1, <3>2, <3>3, <3>4, <2>u, QueuesQuiet
    <3>6. \A y \in All : \A i \in DOMAIN stack'[y] : Entry(stack'[y][i]) => stack'[y][i].h \in alive'
      BY <3>1, <3>4, <2>u, EntriesAlive
    <3>7. \A hh \in Handlers \ alive' : \A t \in Threads : ~Names(t, hh)'
      BY <2>4, <2>5, <2>u, <3>1 DEF Names
    <3> QED
      BY <3>5, <3>6, <3>7 DEF Clears
  <2>6. CASE stack[x][1].todo # <<>>
    <3>0. PICK q \in Threads : q = Head(stack[x][1].todo)
      BY <2>1, <2>6
    <3>1. /\ Moved(x, 1, 0) /\ Is(stack'[x][1], "Clear", "next")
          /\ stack'[x][1].h = stack[x][1].h /\ stack'[x][1].todo = Tail(stack[x][1].todo)
          /\ UNCHANGED <<fStop_, active_>> /\ ClearOne(q, {stack[x][1].h})
      BY <1>16, <2>1, <2>6, <3>0, ClearNextMoves DEF ClearNext
    <3>2. Shrinks /\ ~Names(q, stack[x][1].h)'
      BY <3>1, ShrinksClear
    <3>3. In(x, "Clear", "next")' /\ Head(stack'[x]) = stack'[x][1] /\ \A t : ~Adding(x, t)'
      BY <3>1, TopNext DEF Is, Adding
    <3>4. \A y \in All : \A t : Adding(y, t)' <=> Adding(y, t)
      BY <3>1, <3>3, <2>3, OthersSame DEF Adding
    <3>5. 1 \in 0 .. 2 /\ (\A i \in 1 .. 1 : i = 1) /\ Plain(stack'[x][1])
      BY <3>1 DEF Plain, Is
    <3>6. /\ \A i \in 1 .. 1 : \A t \in Threads :
                Touching(stack'[x][i], t) => owner[t] \notin {"removes", "gone"}
          /\ \A i \in 1 .. 1 : Entry(stack'[x][i]) => stack'[x][i].h \in alive
      BY <3>5 DEF Plain, Touching, Entry
    <3>7. Queues'
      BY <3>1, <3>2, <3>4, <3>5, <3>6, <2>u, QueuesQuiet
    <3>8. \A y \in All : \A i \in DOMAIN stack'[y] : Entry(stack'[y][i]) => stack'[y][i].h \in alive'
      BY <3>1, <3>5, <3>6, <2>u, EntriesAlive
    <3>9. ASSUME NEW hh \in Handlers \ alive', NEW t \in Threads, Names(t, hh)'
          PROVE  \E y \in All : /\ In(y, "Clear", "next")' /\ Head(stack'[y]).h = hh
                              /\ \E i \in DOMAIN Head(stack'[y]).todo : Head(stack'[y]).todo[i] = t
      <4>1. Names(t, hh) /\ hh \in Handlers \ alive
        BY <3>9, <3>2, <2>u DEF Shrinks
      <4>2. stack[x][1].h = hh /\ t # q
        <5>1. stack[x][1].h = hh
          BY <4>1, <2>4
        <5>2. stack'[x][1].h = hh /\ ~Names(q, stack[x][1].h)'
          BY <5>1, <3>1, <3>2
        <5> QED
          BY <5>1, <5>2, <3>9 DEF Names
      <4>3. PICK i \in DOMAIN stack[x][1].todo : stack[x][1].todo[i] = t
        BY <4>1, <2>4
      <4>4. i - 1 \in DOMAIN Tail(stack[x][1].todo) /\ Tail(stack[x][1].todo)[i - 1] = t
        <5> DEFINE s == stack[x][1].todo
        <5>1. s \in Seq(Threads) /\ s # <<>> /\ s[i] = t /\ i \in DOMAIN s /\ Head(s) # t
          BY <4>2, <4>3, <3>0, <2>1, <2>6
        <5> HIDE DEF s
        <5>2. i \in 1 .. Len(s) /\ Len(s) \in Nat /\ i # 1
          BY <5>1, SeqFacts
        <5>3. i - 1 \in 1 .. Len(s) - 1 /\ (i - 1) + 1 = i
          BY <5>2
        <5>4. i - 1 \in DOMAIN Tail(s) /\ Tail(s)[i - 1] = s[(i - 1) + 1]
          BY <5>1, <5>3
        <5>5. i - 1 \in DOMAIN Tail(s) /\ Tail(s)[i - 1] = t
          BY <5>1, <5>3, <5>4
        <5> QED
          BY <5>5 DEF s
      <4> QED
        BY <4>2, <4>4, <3>1, <3>3
    <3> QED
      BY <3>7, <3>8, <3>9 DEF Clears
  <2> QED
    BY <2>5, <2>6
<1>17. ASSUME NEW x \in All, GetReceives(x) PROVE Queues' /\ Clears'
  <2>1. ~Holds(x) /\ Plainly(x) /\ ~Holds(x)'
    BY <1>17, GetReceivesMoves, HoldsTop, PlainHolds DEF Is, Holder, Plain
  <2>2. SameHolders /\ Shrinks
    BY <1>17, <2>1, SameHoldersPlain, ShrinksSame DEF GetReceives, queues
  <2>u. UNCHANGED <<fStop_, active_, message_queues_, owner, alive>>
    BY <1>17 DEF GetReceives, queues, manager
  <2> QED
    BY <2>1, <2>2, <2>u, ListsQuiet
<1>18. ASSUME NEW x \in All, GetPops(x) PROVE Queues' /\ Clears'
  <2>1. ~Holds(x) /\ Plainly(x) /\ ~Holds(x)' /\ x \in Threads
    BY <1>18, GetPopsMoves, HoldsTop, PlainHolds DEF Is, Holder, Plain
  <2>2. Shrinks
    <3>1. CASE msgq_[x] = <<>>
      BY <1>18, <3>1, ShrinksSame DEF GetPops
    <3>2. CASE msgq_[x] # <<>>
      BY <1>18, <3>2, <2>1, ShrinksPost DEF GetPops
    <3> QED
      BY <3>1, <3>2
  <2>3. SameHolders
    BY <2>1, SameHoldersPlain
  <2>u. UNCHANGED <<fStop_, active_, message_queues_, owner, alive>>
    BY <1>18 DEF GetPops, queues, manager
  <2> QED
    BY <2>1, <2>2, <2>3, <2>u, ListsQuiet
<1>19. ASSUME NEW x \in All, GetStops(x) PROVE Queues' /\ Clears'
  <2>1. ~Holds(x) /\ Plainly(x) /\ ~Holds(x)'
    BY <1>19, GetStopsMoves, HoldsTop, PlainHolds DEF Is, Holder, Plain
  <2>2. SameHolders /\ Shrinks
    BY <1>19, <2>1, SameHoldersPlain, ShrinksSame DEF GetStops, queues
  <2>u. UNCHANGED <<fStop_, active_, message_queues_, owner, alive>>
    BY <1>19 DEF GetStops, queues, manager
  <2> QED
    BY <2>1, <2>2, <2>u, ListsQuiet
<1>20. ASSUME NEW x \in All, GetWaits(x) PROVE Queues' /\ Clears'
  <2>1. ~Holds(x) /\ Plainly(x) /\ ~Holds(x)'
    BY <1>20, GetWaitsMoves, HoldsTop, PlainHolds DEF Is, Holder, Plain
  <2>2. SameHolders /\ Shrinks
    BY <1>20, <2>1, SameHoldersPlain, ShrinksSame DEF GetWaits, queues
  <2>u. UNCHANGED <<fStop_, active_, message_queues_, owner, alive>>
    BY <1>20 DEF GetWaits, queues, manager
  <2> QED
    BY <2>1, <2>2, <2>u, ListsQuiet
<1>21. ASSUME NEW t \in Threads, QuitSets(t) PROVE Queues' /\ Clears'
  <2>1. /\ UNCHANGED <<active_, msgq_, sendlist_, message_queues_, stack, alive>>
        /\ Shrinks /\ owner \in [Threads -> {"runs", "quits", "joins", "removes", "gone"}]
        /\ fStop_ \in [Threads -> BOOLEAN]
    BY <1>21, ShrinksSame DEF QuitSets, queues, manager, Typed, TypeInv
  <2>2. /\ \A u \in Threads : u # t => owner'[u] = owner[u] /\ fStop_'[u] = fStop_[u]
        /\ owner[t] \in {"runs", "quits"} /\ owner'[t] \in {"quits", "joins"}
        /\ fStop_'[t]
    BY <1>21, <2>1 DEF QuitSets, queues, Queues
  <2>3. \A u : /\ Known(u)' <=> Known(u)
               /\ Untouched(u)' <=> Untouched(u)
               /\ \A y \in All : Adding(y, u)' <=> Adding(y, u)
    BY <2>1 DEF Known, Untouched, Adding, In
  <2>4. Queues'
    BY <2>1, <2>2, <2>3 DEF Queues
  <2> QED
    BY <2>1, <2>4, ClearsStays
<1>22. ASSUME NEW t \in Threads, QuitWakes(t) PROVE Queues' /\ Clears'
  <2>1. /\ UNCHANGED <<active_, msgq_, sendlist_, message_queues_, stack, alive>>
        /\ Shrinks /\ owner \in [Threads -> {"runs", "quits", "joins", "removes", "gone"}]
        /\ fStop_ \in [Threads -> BOOLEAN]
    BY <1>22, ShrinksSame DEF QuitWakes, queues, manager, Typed, TypeInv
  <2>2. /\ \A u \in Threads : u # t => owner'[u] = owner[u] /\ fStop_'[u] = fStop_[u]
        /\ owner[t] \in {"runs", "quits"} /\ owner'[t] \in {"quits", "joins"}
        /\ fStop_'[t]
    BY <1>22, <2>1 DEF QuitWakes, queues, Queues
  <2>3. \A u : /\ Known(u)' <=> Known(u)
               /\ Untouched(u)' <=> Untouched(u)
               /\ \A y \in All : Adding(y, u)' <=> Adding(y, u)
    BY <2>1 DEF Known, Untouched, Adding, In
  <2>4. Queues'
    BY <2>1, <2>2, <2>3 DEF Queues
  <2> QED
    BY <2>1, <2>4, ClearsStays
<1>23. ASSUME NEW t \in Threads, Joins(t) PROVE Queues' /\ Clears'
  <2>1. /\ UNCHANGED <<fStop_, active_, message_queues_, stack, alive>> /\ Untouched(t)
        /\ owner \in [Threads -> {"runs", "quits", "joins", "removes", "gone"}]
        /\ owner[t] = "joins" /\ owner'[t] \in {"removes", "gone"}
        /\ \A u \in Threads : u # t => owner'[u] = owner[u]
        /\ active_[t] => owner'[t] = "removes"
    BY <1>23 DEF Joins, manager, Typed, TypeInv
  <2>2. Shrinks /\ msgq_'[t] = <<>> /\ sendlist_'[t] = <<>>
    <3>1. CASE active_[t]
      <4>1. ClearOne(t, Handlers)
        BY <1>23, <3>1 DEF Joins
      <4>2. Shrinks /\ \A h \in Handlers : ~Names(t, h)'
        BY <4>1, ShrinksClear
      <4>3. TypeInv
        BY DEF Typed
      <4>4. msgq_'[t] \in Seq(PostMsg) /\ sendlist_'[t] \in Seq(SendMsg)
        BY <4>1, <4>3, ClearOneTypes
      <4>5. /\ msgq_'[t] # <<>> => 1 \in DOMAIN msgq_'[t] /\ msgq_'[t][1] \in PostMsg
            /\ sendlist_'[t] # <<>> => 1 \in DOMAIN sendlist_'[t] /\ sendlist_'[t][1] \in SendMsg
        BY <4>4, SeqFacts
      <4>6. (\A m \in PostMsg : m.h \in Handlers) /\ \A m \in SendMsg : m.h \in Handlers
        BY DEF PostMsg, SendMsg
      <4> QED
        BY <4>2, <4>5, <4>6 DEF Names
    <3>2. CASE ~active_[t]
      <4>1. UNCHANGED <<msgq_, sendlist_>>
        BY <1>23, <3>2 DEF Joins
      <4>2. ~Known(t)
        BY <3>2 DEF Locks
      <4> QED
        BY <4>1, <4>2, ShrinksSame DEF Queues
    <3> QED
      BY <3>1, <3>2
  <2>3. \A u : /\ Known(u)' <=> Known(u)
               /\ Untouched(u)' <=> Untouched(u)
               /\ \A y \in All : Adding(y, u)' <=> Adding(y, u)
    BY <2>1 DEF Known, Untouched, Adding, In
  <2>4. \A u \in Threads : owner'[u] # "runs" => fStop_'[u]
    BY <2>1 DEF Queues
  <2>5. \A u \in Threads : owner'[u] \in {"removes", "gone"} => Untouched(u)'
    BY <2>1, <2>3 DEF Queues
  <2>6. \A u \in Threads :
          active_'[u] => Known(u)' \/ (\E y \in All : Adding(y, u)') \/ owner'[u] = "gone"
    BY <2>1, <2>3 DEF Queues
  <2>7. \A u \in Threads : msgq_'[u] # <<>> \/ sendlist_'[u] # <<>> =>
             Known(u)' /\ owner'[u] \notin {"removes", "gone"}
    BY <2>1, <2>2, <2>3 DEF Queues, Shrinks
  <2>8. Queues'
    BY <2>4, <2>5, <2>6, <2>7 DEF Queues
  <2> QED
    BY <2>1, <2>2, <2>8, ClearsStays
<1>24. ASSUME NEW t \in Threads, Removes(t) PROVE Queues' /\ Clears'
  <2>1. /\ UNCHANGED <<fStop_, active_, msgq_, sendlist_, stack, alive>>
        /\ owner \in [Threads -> {"runs", "quits", "joins", "removes", "gone"}]
        /\ owner[t] = "removes" /\ owner'[t] = "gone"
        /\ \A u \in Threads : u # t => owner'[u] = owner[u]
        /\ message_queues_ \in Seq(Threads) /\ message_queues_' = Selected(message_queues_, Threads \ {t})
    BY <1>24 DEF Removes, queues, Typed, TypeInv
  <2>2. \A u \in Threads : u # t => (Known(u) => Known(u)')
    BY <2>1, SelectedElements DEF Known
  <2>3. \A u : /\ Untouched(u)' <=> Untouched(u)
               /\ \A y \in All : Adding(y, u)' <=> Adding(y, u)
    BY <2>1 DEF Untouched, Adding, In
  <2>4. Shrinks
    BY <2>1, ShrinksSame
  <2>5. msgq_[t] = <<>> /\ sendlist_[t] = <<>>
    BY <2>1 DEF Queues
  <2>6. Queues'
    BY <2>1, <2>2, <2>3, <2>5 DEF Queues
  <2> QED
    BY <2>1, <2>4, <2>6, ClearsStays
<1>25. CASE UNCHANGED vars
  <2>1. Queues'
    BY <1>25 DEF vars, queues, manager, Queues, Known, Untouched, Adding, In
  <2>2. Shrinks
    BY <1>25, ShrinksSame DEF vars, queues
  <2> QED
    BY <1>25, <2>1, <2>2, ClearsStays DEF vars
<1> QED
  BY <1>1, <1>2, <1>3, <1>4, <1>5, <1>6, <1>7, <1>8, <1>9, <1>10, <1>11, <1>12, <1>13,
     <1>14, <1>15, <1>16, <1>17, <1>18, <1>19, <1>20, <1>21, <1>22, <1>23, <1>24,
     <1>25
     DEF Next, Call, Step, Destroy

(* At first there are no messages and nobody has been destroyed.           *)
LEMMA ListsInit == Init => Queues /\ Clears
<1> SUFFICES ASSUME Init PROVE Queues /\ Clears
  OBVIOUS
<1>1. \A x \in All : stack[x] = IF x \in Threads THEN <<Loop("get")>> ELSE <<>>
  BY DEF Init
<1>2. \A x \in All : \A i \in DOMAIN stack[x] : stack[x][i].call = "ProcessMessages"
  BY <1>1 DEF Loop
<1>3. \A t \in Threads : /\ msgq_[t] = <<>> /\ sendlist_[t] = <<>> /\ ~active_[t] /\ owner[t] = "runs"
  BY DEF Init
<1>4. \A t \in Threads : \A h : ~Names(t, h)
  BY <1>3 DEF Names
<1>5. Queues
  BY <1>3 DEF Queues
<1>6. Clears
  BY <1>2, <1>4 DEF Clears, Entry
<1> QED
  BY <1>5, <1>6

(* Once the destructor of a handler has been through the queues that the   *)
(* manager knows, no list of any thread names it: a queue that holds a     *)
(* message is known to the manager, and no call that could still name the  *)
(* handler is left.                                                        *)
THEOREM ClearedEverywhereHolds == Spec => []ClearedEverywhere
<1>1. Init => Typed /\ Locks /\ Queues /\ Clears
  BY TypedInit, LocksInit, ListsInit
<1>2. Typed /\ Locks /\ Queues /\ Clears /\ [Next]_vars => Typed' /\ Locks' /\ Queues' /\ Clears'
  BY TypedStep, LocksStep, ListsStep
<1>3. Typed /\ Clears => ClearedEverywhere
  <2> SUFFICES ASSUME Typed, Clears, NEW h \in Handlers \ alive, NEW t \in Threads, Names(t, h)
               PROVE  \E x \in All : \E f \in Frames(x) : f.call = "Clear" /\ f.h = h
    BY DEF ClearedEverywhere, Names
  <2>1. PICK x \in All : In(x, "Clear", "next") /\ Head(stack[x]).h = h
    BY DEF Clears
  <2>2. 1 \in DOMAIN stack[x] /\ Head(stack[x]) = stack[x][1] /\ Is(stack[x][1], "Clear", "next")
    BY <2>1, TopTypes
  <2> QED
    BY <2>1, <2>2 DEF Frames, Is
<1> QED
  BY <1>1, <1>2, <1>3, PTL DEF Spec

-----------------------------------------------------------------------------
(* InSend, position by position.                                           *)
LEMMA InSendIs ==
    /\ \A x, n : InSend(x, n) <=> \E i \in DOMAIN stack[x] : IsSend(stack[x][i], n)
    /\ \A x, n : InSend(x, n)' <=> \E i \in DOMAIN stack'[x] : IsSend(stack'[x][i], n)
  BY DEF InSend, Frames, IsSend

(* Which sends a thread is in after a step.                                *)
LEMMA InSendMoved ==
    ASSUME Typed, NEW x \in All, NEW k \in 0 .. 2, NEW d \in {-1, 0, 1}, Moved(x, k, d), NEW n
    PROVE  /\ \A y \in All : y # x => (InSend(y, n)' <=> InSend(y, n))
           /\ InSend(x, n)' <=> \/ \E i \in 1 .. k : IsSend(stack'[x][i], n)
                                \/ \E j \in DOMAIN stack[x] : j > k + d /\ IsSend(stack[x][j], n)
<1>1. \A y \in All : y # x => (InSend(y, n)' <=> InSend(y, n))
  BY InSendIs DEF Moved
<1>2. ASSUME InSend(x, n)'
      PROVE  \/ \E i \in 1 .. k : IsSend(stack'[x][i], n)
             \/ \E j \in DOMAIN stack[x] : j > k + d /\ IsSend(stack[x][j], n)
  <2>1. PICK i \in DOMAIN stack'[x] : IsSend(stack'[x][i], n)
    BY <1>2, InSendIs
  <2>2. i \in Nat /\ i >= 1
    BY PositionsNext
  <2>3. CASE i > k
    <3>1. i + d \in DOMAIN stack[x] /\ stack'[x][i] = stack[x][i + d] /\ i + d > k + d
      BY <2>2, <2>3 DEF Moved
    <3> QED
      BY <3>1, <2>1
  <2>4. CASE i \in 1 .. k
    BY <2>4, <2>1
  <2> QED
    BY <2>2, <2>3, <2>4
<1>3. ASSUME \E i \in 1 .. k : IsSend(stack'[x][i], n)
      PROVE  InSend(x, n)'
  BY <1>3, InSendIs DEF Moved
<1>4. ASSUME NEW j \in DOMAIN stack[x], j > k + d, IsSend(stack[x][j], n)
      PROVE  InSend(x, n)'
  <2>1. j - d \in DOMAIN stack'[x] /\ stack'[x][j - d] = stack[x][j]
    BY <1>4 DEF Moved
  <2> QED
    BY <2>1, <1>4, InSendIs
<1> QED
  BY <1>1, <1>2, <1>3, <1>4

(* The sends in progress are the same.                                     *)
SameSends == \A y \in All : \A n : InSend(y, n)' <=> InSend(y, n)

(* Nobody enters or leaves a Send when a call of another kind is made, ... *)
LEMMA SameSendsEnters ==
    ASSUME Typed, NEW x \in All, Moved(x, 1, -1), stack'[x][1].call # "Send"
    PROVE  SameSends
<1> SUFFICES ASSUME NEW y \in All, NEW n PROVE InSend(y, n)' <=> InSend(y, n)
  BY DEF SameSends
<1>1. 1 \in 0 .. 2 /\ -1 \in {-1, 0, 1} /\ (\A i \in 1 .. 1 : i = 1) /\ 1 + (-1) = 0
  OBVIOUS
<1>2. \A j \in DOMAIN stack[x] : j > 0
  BY Positions DEF Typed, TypeInv
<1>3. InSend(x, n)' <=> \/ \E i \in 1 .. 1 : IsSend(stack'[x][i], n)
                        \/ \E j \in DOMAIN stack[x] : j > 1 + (-1) /\ IsSend(stack[x][j], n)
  BY <1>1, InSendMoved
<1>4. InSend(x, n)' <=> InSend(x, n)
  BY <1>1, <1>2, <1>3, InSendIs DEF IsSend
<1> QED
  BY <1>1, <1>4, InSendMoved

(* ... when a call goes on, ...                                            *)
LEMMA SameSendsGoes ==
    ASSUME Typed, NEW x \in All, Moved(x, 1, 0), 1 \in DOMAIN stack[x],
           \A n : IsSend(stack'[x][1], n) <=> IsSend(stack[x][1], n)
    PROVE  SameSends
<1> SUFFICES ASSUME NEW y \in All, NEW n PROVE InSend(y, n)' <=> InSend(y, n)
  BY DEF SameSends
<1>1. 1 \in 0 .. 2 /\ 0 \in {-1, 0, 1} /\ (\A i \in 1 .. 1 : i = 1) /\ 1 + 0 = 1 /\ 1 \in 1 .. 1
  OBVIOUS
<1>2. \A j \in DOMAIN stack[x] : j > 1 \/ j = 1
  BY Positions DEF Typed, TypeInv
<1>3. InSend(x, n)' <=> \/ \E i \in 1 .. 1 : IsSend(stack'[x][i], n)
                        \/ \E j \in DOMAIN stack[x] : j > 1 + 0 /\ IsSend(stack[x][j], n)
  BY <1>1, InSendMoved
<1>4. InSend(x, n)' <=> InSend(x, n)
  BY <1>1, <1>2, <1>3, InSendIs
<1> QED
  BY <1>1, <1>4, InSendMoved

(* ... or calls one of another kind.                                       *)
LEMMA SameSendsCalls ==
    ASSUME Typed, NEW x \in All, Moved(x, 2, -1), 1 \in DOMAIN stack[x], stack'[x][1].call # "Send",
           \A n : IsSend(stack'[x][2], n) <=> IsSend(stack[x][1], n)
    PROVE  SameSends
<1> SUFFICES ASSUME NEW y \in All, NEW n PROVE InSend(y, n)' <=> InSend(y, n)
  BY DEF SameSends
<1>1. 2 \in 0 .. 2 /\ -1 \in {-1, 0, 1} /\ (\A i \in 1 .. 2 : i = 1 \/ i = 2) /\ 2 + (-1) = 1
      /\ 2 \in 1 .. 2
  OBVIOUS
<1>2. \A j \in DOMAIN stack[x] : j > 1 \/ j = 1
  BY Positions DEF Typed, TypeInv
<1>3. InSend(x, n)' <=> \/ \E i \in 1 .. 2 : IsSend(stack'[x][i], n)
                        \/ \E j \in DOMAIN stack[x] : j > 2 + (-1) /\ IsSend(stack[x][j], n)
  BY <1>1, InSendMoved
<1>4. InSend(x, n)' <=> InSend(x, n)
  BY <1>1, <1>2, <1>3, InSendIs DEF IsSend
<1> QED
  BY <1>1, <1>4, InSendMoved

(* A call that returns ends at most its own send.                          *)
LEMMA SendsReturn ==
    ASSUME Typed, NEW x \in All, Moved(x, 0, 1), 1 \in DOMAIN stack[x]
    PROVE  /\ \A y \in All : \A n : InSend(y, n)' => InSend(y, n)
           /\ \A y \in All : \A n : InSend(y, n) /\ ~IsSend(stack[x][1], n) => InSend(y, n)'
           /\ stack[x][1].call # "Send" => SameSends
<1>1. ASSUME NEW y \in All, NEW n
      PROVE  (InSend(y, n)' => InSend(y, n)) /\ (InSend(y, n) /\ ~IsSend(stack[x][1], n) => InSend(y, n)')
  <2>1. 0 \in 0 .. 2 /\ 1 \in {-1, 0, 1} /\ (\A i \in 1 .. 0 : FALSE) /\ 0 + 1 = 1
    OBVIOUS
  <2>2. \A j \in DOMAIN stack[x] : j > 1 \/ j = 1
    BY Positions DEF Typed, TypeInv
  <2>3. InSend(x, n)' <=> \/ \E i \in 1 .. 0 : IsSend(stack'[x][i], n)
                          \/ \E j \in DOMAIN stack[x] : j > 0 + 1 /\ IsSend(stack[x][j], n)
    BY <2>1, InSendMoved
  <2>4. (InSend(x, n)' => InSend(x, n)) /\ (InSend(x, n) /\ ~IsSend(stack[x][1], n) => InSend(x, n)')
    BY <2>1, <2>2, <2>3, InSendIs
  <2> QED
    BY <2>1, <2>4, InSendMoved
<1> QED
  BY <1>1 DEF SameSends, IsSend

(* Where a handler runs for a send, ReceiveSends knows the sender.         *)
LEMMA AnswerFrom ==
    ASSUME Typed, NEW x \in All, NEW i \in DOMAIN stack[x], NEW n, Answering(stack[x][i], n)
    PROVE  stack[x][i].from \in All /\ n \in SendIds
<1>1. stack[x][i] \in Frame /\ Told(stack[x][i])
  BY Positions DEF Typed, TypeInv, Shape
<1>2. stack[x][i] \in ReceiveFrame
  BY <1>1, FrameKinds DEF Answering
<1> QED
  BY <1>1, <1>2 DEF Told, Answering, ReceiveFrame

(* What is known after a step, of the senders that n is owed to then.      *)
Owing(n) == \A y \in All : \A i \in DOMAIN stack'[y] : Answering(stack'[y][i], n) =>
               \E z \in All : z = stack'[y][i].from /\ InSend(z, n) /\ n \notin ready

(* Where send n is answered after a step that does not begin to answer it. *)
LEMMA AnswersBefore ==
    ASSUME Typed, NEW x \in All, NEW k \in 0 .. 2, NEW d \in {-1, 0, 1}, Moved(x, k, d), NEW n,
           \A i \in 1 .. k : ~Answering(stack'[x][i], n), SendOk(n)
    PROVE  /\ Answered(n)' => Answered(n)
           /\ Owing(n) /\ AnsweredOnce(n)'
           /\ 1 \in DOMAIN stack[x] /\ Answering(stack[x][1], n) /\ k + d >= 1 => ~Answered(n)'
<1> DEFINE was(y, i) == IF y = x THEN i + d ELSE i
<1>1. ASSUME NEW y \in All, NEW i \in DOMAIN stack'[y], Answering(stack'[y][i], n)
      PROVE  /\ was(y, i) \in DOMAIN stack[y] /\ stack'[y][i] = stack[y][was(y, i)]
             /\ i \in Nat
             /\ y = x => was(y, i) > k + d
  <2>1. CASE y # x
    BY <2>1, Positions DEF Moved, Typed, TypeInv
  <2>2. CASE y = x
    <3>1. i \in Nat /\ i >= 1 /\ i \notin 1 .. k
      BY <1>1, <2>2, PositionsNext
    <3>2. i > k
      BY <3>1
    <3>3. i + d > k + d
      BY <3>1, <3>2
    <3> QED
      BY <2>2, <3>1, <3>2, <3>3 DEF Moved
  <2> QED
    BY <2>1, <2>2
<1>2. Answered(n)' => Answered(n)
  <2> SUFFICES ASSUME NEW y \in All, NEW i \in DOMAIN stack'[y], Answering(stack'[y][i], n)
               PROVE  Answered(n)
    BY DEF Answered
  <2> HIDE DEF was
  <2> QED
    BY <1>1 DEF Answered
<1>3. Owing(n)
  <2> HIDE DEF was
  <2> SUFFICES ASSUME NEW y \in All, NEW i \in DOMAIN stack'[y], Answering(stack'[y][i], n)
               PROVE  \E z \in All : z = stack'[y][i].from /\ InSend(z, n) /\ n \notin ready
    BY DEF Owing
  <2>1. was(y, i) \in DOMAIN stack[y] /\ stack'[y][i] = stack[y][was(y, i)]
    BY <1>1
  <2>2. stack'[y][i].from \in All
    BY <2>1, AnswerFrom
  <2> QED
    BY <2>1, <2>2 DEF SendOk, Owed
<1>4. ASSUME NEW y \in All, NEW z \in All, NEW i \in DOMAIN stack'[y], NEW j \in DOMAIN stack'[z],
             Answering(stack'[y][i], n), Answering(stack'[z][j], n)
      PROVE  y = z /\ i = j
  <2>1. y = z /\ was(y, i) = was(z, j) /\ i \in Nat /\ j \in Nat
    <3> HIDE DEF was
    <3>1. /\ was(y, i) \in DOMAIN stack[y] /\ stack'[y][i] = stack[y][was(y, i)] /\ i \in Nat
          /\ was(z, j) \in DOMAIN stack[z] /\ stack'[z][j] = stack[z][was(z, j)] /\ j \in Nat
      BY <1>1, <1>4
    <3> QED
      BY <3>1, <1>4 DEF SendOk, AnsweredOnce
  <2> QED
    BY <2>1
<1>5. ASSUME 1 \in DOMAIN stack[x], Answering(stack[x][1], n), k + d >= 1, Answered(n)'
      PROVE  FALSE
  <2>1. PICK y \in All : \E i \in DOMAIN stack'[y] : Answering(stack'[y][i], n)
    BY <1>5 DEF Answered
  <2>2. PICK i \in DOMAIN stack'[y] : Answering(stack'[y][i], n)
    BY <2>1
  <2>3. y = x /\ was(y, i) = 1 /\ was(y, i) > k + d
    <3> HIDE DEF was
    <3>1. was(y, i) \in DOMAIN stack[y] /\ Answering(stack[y][was(y, i)], n)
      BY <1>1, <2>2
    <3>2. y = x /\ was(y, i) = 1
      BY <3>1, <1>5 DEF SendOk, AnsweredOnce
    <3> QED
      BY <3>2, <1>1, <2>2
  <2> HIDE DEF was
  <2> QED
    BY <2>3, <1>5
<1> QED
  BY <1>2, <1>3, <1>4, <1>5 DEF AnsweredOnce

(* The list of each thread has lost entries, or none.                      *)
Fewer ==
    \A t \in Threads :
        /\ \A i \in DOMAIN sendlist_'[t] : \E a \in DOMAIN sendlist_[t] : sendlist_[t][a] = sendlist_'[t][i]
        /\ \A i, j \in DOMAIN sendlist_'[t] : i # j =>
             \E a, b \in DOMAIN sendlist_[t] : /\ a # b /\ sendlist_[t][a] = sendlist_'[t][i]
                                               /\ sendlist_[t][b] = sendlist_'[t][j]

(* What is queued after such a step was queued before.                     *)
LEMMA FewerLists ==
    ASSUME NEW n, SendOk(n), Fewer
    PROVE  (Queued(n)' => Queued(n)) /\ ListedOnce(n)'
<1>1. Queued(n)' => Queued(n)
  BY DEF Fewer, Queued
<1>2. ASSUME NEW t \in Threads, NEW u \in Threads, NEW i \in DOMAIN sendlist_'[t],
             NEW j \in DOMAIN sendlist_'[u], sendlist_'[t][i].n = n, sendlist_'[u][j].n = n
      PROVE  t = u /\ i = j
  <2>1. PICK a \in DOMAIN sendlist_[t], b \in DOMAIN sendlist_[u] :
          sendlist_[t][a] = sendlist_'[t][i] /\ sendlist_[u][b] = sendlist_'[u][j]
    BY DEF Fewer
  <2>2. t = u
    BY <2>1, <1>2 DEF SendOk, ListedOnce
  <2>3. ASSUME i # j PROVE FALSE
    <3>1. PICK c, e \in DOMAIN sendlist_[t] :
            c # e /\ sendlist_[t][c] = sendlist_'[t][i] /\ sendlist_[t][e] = sendlist_'[t][j]
      BY <2>2, <2>3 DEF Fewer
    <3> QED
      BY <3>1, <2>2, <1>2 DEF SendOk, ListedOnce
  <2> QED
    BY <2>2, <2>3
<1> QED
  BY <1>1, <1>2 DEF ListedOnce

(* What a sendlist_ holds names a send and a thread.                       *)
LEMMA EntryTypes ==
    ASSUME Typed, NEW t \in Threads, NEW i \in DOMAIN sendlist_[t]
    PROVE  sendlist_[t][i] \in SendMsg /\ sendlist_[t][i].from \in All /\ sendlist_[t][i].n \in SendIds
<1>1. sendlist_[t] \in Seq(SendMsg)
  BY DEF Typed, TypeInv
<1>2. sendlist_[t][i] \in SendMsg
  BY <1>1, SeqFacts
<1> QED
  BY <1>2 DEF SendMsg

(* The sends that threads are in have numbers.                             *)
LEMMA InSendTypes ==
    ASSUME Typed, NEW x \in All, NEW n, InSend(x, n)
    PROVE  n \in SendIds /\ n \in Nat /\ n >= 1
<1>1. PICK i \in DOMAIN stack[x] : IsSend(stack[x][i], n)
  BY InSendIs
<1>2. stack[x][i] \in Frame
  BY Positions DEF Typed, TypeInv
<1>3. stack[x][i] \in SendFrame
  BY <1>1, <1>2, FrameKinds DEF IsSend
<1>4. stack[x][i].n \in SendIds
  BY <1>3 DEF SendFrame
<1>5. n \in SendIds
  BY <1>1, <1>4 DEF IsSend
<1>6. load.sends \in Nat
  BY LoadTypes DEF Typed
<1> QED
  BY <1>5, <1>6 DEF SendIds

(* A number that nobody had yet is above all others.                       *)
LEMMA NumbersGrow ==
    ASSUME Typed, NEW n, SendOk(n), sends' \in {sends, sends + 1},
           (\E x \in All : InSend(x, n)) \/ n \in ready
    PROVE  n <= sends'
<1>1. sends \in Nat /\ load.sends \in Nat
  BY LoadTypes DEF Typed, TypeInv
<1>2. n \in Nat
  <2>1. n \in ready => n \in SendIds
    BY DEF Typed, TypeInv
  <2>2. n \in SendIds => n \in Nat
    BY <1>1 DEF SendIds
  <2> QED
    BY <2>1, <2>2, InSendTypes
<1>3. n <= sends
  BY DEF SendOk, OneSender
<1> QED
  BY <1>1, <1>2, <1>3

(* Send n is in nobody's hands once the step is done.                      *)
LEMMA SendIdle ==
    ASSUME Typed, NEW n, SendOk(n), \A x \in All : InSend(x, n)' => InSend(x, n),
           sends' \in {sends, sends + 1},
           (\E x \in All : InSend(x, n)) \/ n \in ready, ~Queued(n)', ~Answered(n)',
           \A x \in All : ~Offering(x, n)'
    PROVE  SendOk(n)'
<1>1. OneSender(n)'
  BY NumbersGrow DEF SendOk, OneSender
<1>2. Offered(n)' /\ Listed(n)' /\ ListedOnce(n)'
  BY DEF Offered, Listed, ListedOnce, Queued
<1>3. Owed(n)' /\ AnsweredOnce(n)'
  BY DEF Owed, AnsweredOnce, Answered, Answering
<1> QED
  BY <1>1, <1>2, <1>3 DEF SendOk

(* Who offers a send is in it.                                             *)
LEMMA OfferingIn ==
    ASSUME Typed, NEW x \in All, NEW n, Offering(x, n)
    PROVE  /\ InSend(x, n) /\ 1 \in DOMAIN stack[x] /\ Head(stack[x]) = stack[x][1]
           /\ IsSend(stack[x][1], n) /\ n \in SendIds
<1>1. /\ 1 \in DOMAIN stack[x] /\ Head(stack[x]) = stack[x][1] /\ stack[x][1] \in Frame
      /\ stack[x][1].call = "Send"
  BY TopTypes DEF Offering, Is
<1>2. IsSend(stack[x][1], n)
  BY <1>1 DEF Offering, IsSend
<1>3. stack[x][1] \in SendFrame
  BY <1>1, FrameKinds
<1>4. n \in SendIds
  BY <1>2, <1>3 DEF SendFrame, IsSend
<1> QED
  BY <1>1, <1>2, <1>4, InSendIs

(* The others offer what they offered.                                     *)
LEMMA OfferingSame ==
    ASSUME NEW x \in All, NEW k, NEW d, Moved(x, k, d), NEW y \in All, y # x, NEW n
    PROVE  Offering(y, n)' <=> Offering(y, n)
  BY OthersSame DEF Offering

(* Who is owed an answer is still there.                                   *)
LEMMA OwedStep ==
    ASSUME NEW n, Owing(n), \A z \in All : InSend(z, n) => InSend(z, n)', n \notin ready => n \notin ready'
    PROVE  Owed(n)'
<1> SUFFICES ASSUME NEW y \in All, NEW i \in DOMAIN stack'[y], Answering(stack'[y][i], n)
             PROVE  InSend(stack[y][i].from, n)' /\ n \notin ready'
  BY DEF Owed
<1>1. PICK z \in All : z = stack'[y][i].from /\ InSend(z, n) /\ n \notin ready
  BY DEF Owing
<1>2. InSend(z, n)' /\ n \notin ready'
  BY <1>1
<1> QED
  BY <1>1, <1>2

(* What is queued remains queued as it was, when no send ends or becomes   *)
(* ready.                                                                  *)
LEMMA ListedStep ==
    ASSUME Typed, NEW n, SendOk(n), Fewer, \A z \in All : InSend(z, n) => InSend(z, n)',
           n \notin ready => n \notin ready', Answered(n)' => Answered(n)
    PROVE  Listed(n)'
<1> SUFFICES ASSUME NEW t \in Threads, NEW i \in DOMAIN sendlist_'[t], sendlist_'[t][i].n = n
             PROVE  InSend(sendlist_[t][i].from, n)' /\ n \notin ready' /\ ~Answered(n)'
  BY DEF Listed
<1>1. PICK a \in DOMAIN sendlist_[t] : sendlist_[t][a] = sendlist_'[t][i]
  BY DEF Fewer
<1>2. PICK z : z = sendlist_'[t][i].from
  OBVIOUS
<1>3. InSend(z, n) /\ n \notin ready /\ ~Answered(n) /\ z \in All
  BY <1>1, <1>2, EntryTypes DEF SendOk, Listed
<1>4. InSend(z, n)' /\ n \notin ready' /\ ~Answered(n)'
  BY <1>3
<1> QED
  BY <1>2, <1>4

(* A step that does nothing about send n.                                  *)
LEMMA SendQuiet ==
    ASSUME Typed, NEW n, SendOk(n), NEW x \in All, NEW k \in 0 .. 2, NEW d \in {-1, 0, 1},
           Moved(x, k, d), \A y \in All : InSend(y, n)' <=> InSend(y, n),
           \A i \in 1 .. k : ~Answering(stack'[x][i], n), Offering(x, n)' => Offering(x, n),
           n \in ready' <=> n \in ready, Fewer, sends' \in {sends, sends + 1}
    PROVE  SendOk(n)'
<1>1. OneSender(n)'
  BY NumbersGrow DEF SendOk, OneSender
<1>2. (Answered(n)' => Answered(n)) /\ Owing(n) /\ AnsweredOnce(n)'
  BY AnswersBefore
<1>3. Owed(n)'
  BY <1>2, OwedStep
<1>4. (Queued(n)' => Queued(n)) /\ ListedOnce(n)' /\ Listed(n)'
  BY <1>2, FewerLists, ListedStep
<1>5. \A y \in All : Offering(y, n)' => Offering(y, n)
  BY OfferingSame
<1>6. Offered(n)'
  BY <1>2, <1>4, <1>5 DEF SendOk, Offered
<1> QED
  BY <1>1, <1>2, <1>3, <1>4, <1>6 DEF SendOk

(* Steps that do nothing about any send.                                   *)
Unrelated(x) == \E k \in 0 .. 2, d \in {-1, 0, 1} :
                   /\ Moved(x, k, d)
                   /\ \A i \in 1 .. k : \A n : ~Answering(stack'[x][i], n)
                   /\ \A n : ~Offering(x, n)'

(* A return adds no answer and no offer.                                   *)
LEMMA UnrelatedReturns == ASSUME Typed, NEW x \in All, Moved(x, 0, 1) PROVE Unrelated(x)
<1>1. (\A i \in 1 .. 0 : FALSE) /\ 0 \in 0 .. 2 /\ 1 \in {-1, 0, 1}
  OBVIOUS
<1>2. 1 \in DOMAIN stack'[x] => Resting(stack'[x][1])
  BY ReturnedTop
<1>3. stack'[x] \in Seq(Frame)
  BY DEF Moved
<1>4. stack'[x] # <<>> => 1 \in DOMAIN stack'[x] /\ Head(stack'[x]) = stack'[x][1]
  BY <1>3, SeqFacts
<1>5. \A n : ~Offering(x, n)'
  BY <1>2, <1>4 DEF Offering, In, Resting
<1> QED
  BY <1>1, <1>5 DEF Unrelated

(* Nor does a call of another kind that goes on, ...                       *)
LEMMA UnrelatedGoes ==
    ASSUME NEW x \in All, NEW d \in {-1, 0, 1}, Moved(x, 1, d),
           ~Is(stack'[x][1], "ReceiveSends", "reply"),
           ~Is(stack'[x][1], "Send", "enter"), ~Is(stack'[x][1], "Send", "add")
    PROVE  Unrelated(x)
<1>1. (\A i \in 1 .. 1 : i = 1) /\ 1 \in {1, 2} /\ 1 \in 0 .. 2
  OBVIOUS
<1>2. \A n : ~Offering(x, n)'
  BY <1>1, TopNext DEF Offering
<1>3. \A i \in 1 .. 1 : \A n : ~Answering(stack'[x][i], n)
  BY <1>1 DEF Answering, Is
<1> QED
  BY <1>1, <1>2, <1>3 DEF Unrelated

(* ... or calls another.                                                   *)
LEMMA UnrelatedCalls ==
    ASSUME NEW x \in All, Moved(x, 2, -1), ~Is(stack'[x][1], "ReceiveSends", "reply"),
           ~Is(stack'[x][2], "ReceiveSends", "reply"),
           ~Is(stack'[x][1], "Send", "enter"), ~Is(stack'[x][1], "Send", "add")
    PROVE  Unrelated(x)
<1>1. (\A i \in 1 .. 2 : i = 1 \/ i = 2) /\ 2 \in {1, 2} /\ 2 \in 0 .. 2 /\ -1 \in {-1, 0, 1}
  OBVIOUS
<1>2. \A n : ~Offering(x, n)'
  BY <1>1, TopNext DEF Offering
<1>3. \A i \in 1 .. 2 : \A n : ~Answering(stack'[x][i], n)
  BY <1>1 DEF Answering, Is
<1> QED
  BY <1>1, <1>2, <1>3 DEF Unrelated

(* Steps that have to do with no send keep Sends.                          *)
LEMMA SendsQuiet ==
    ASSUME Typed, Sends, NEW x \in All, Unrelated(x), SameSends, UNCHANGED <<ready, sendlist_>>,
           sends' \in {sends, sends + 1}
    PROVE  Sends'
<1>1. PICK k \in 0 .. 2, d \in {-1, 0, 1} :
        /\ Moved(x, k, d)
        /\ \A i \in 1 .. k : \A n : ~Answering(stack'[x][i], n)
        /\ \A n : ~Offering(x, n)'
  BY DEF Unrelated
<1>2. Fewer
  BY DEF Fewer
<1>3. ASSUME NEW n PROVE SendOk(n)'
  <2>1. SendOk(n)
    BY DEF Sends
  <2>2. (\A y \in All : InSend(y, n)' <=> InSend(y, n)) /\ (n \in ready' <=> n \in ready)
    BY DEF SameSends
  <2> QED
    BY <1>1, <1>2, <2>1, <2>2, SendQuiet
<1> QED
  BY <1>3 DEF Sends

(* A stack that remains as it is.                                          *)
LEMMA StaysMoves == ASSUME Typed, NEW x \in All, UNCHANGED stack PROVE Moved(x, 0, 0)
<1>1. stack \in [All -> Seq(Frame)]
  BY DEF Typed, TypeInv
<1>2. DOMAIN stack[x] = 1 .. Len(stack[x]) /\ Len(stack[x]) \in Nat
  BY <1>1, Positions
<1>3. /\ \A i \in DOMAIN stack[x] : i + 0 = i /\ i - 0 = i
      /\ Len(stack[x]) - 0 = Len(stack[x]) /\ \A i \in 1 .. 0 : FALSE
  BY <1>2
<1> QED
  BY <1>1, <1>3 DEF Moved

(* The list is shorter by one when ReceiveSends takes a send.              *)
LEMMA FewerTail ==
    ASSUME Typed, NEW x \in Threads, sendlist_[x] # <<>>, sendlist_' = [sendlist_ EXCEPT ![x] = Tail(@)]
    PROVE  Fewer /\ \A i \in DOMAIN sendlist_'[x] : i + 1 \in DOMAIN sendlist_[x] /\ i + 1 # 1
                                                   /\ sendlist_'[x][i] = sendlist_[x][i + 1]
<1>1. sendlist_ \in [Threads -> Seq(SendMsg)] /\ sendlist_[x] \in Seq(SendMsg)
  BY DEF Typed, TypeInv
<1>2. /\ sendlist_'[x] = Tail(sendlist_[x])
      /\ \A t \in Threads : t # x => sendlist_'[t] = sendlist_[t]
  BY <1>1
<1>3. \A i \in DOMAIN sendlist_'[x] : /\ i + 1 \in DOMAIN sendlist_[x] /\ i + 1 # 1
                                     /\ sendlist_'[x][i] = sendlist_[x][i + 1]
  BY <1>1, <1>2
<1>4. \A i, j \in DOMAIN sendlist_'[x] : i # j => i + 1 # j + 1
  <2>1. sendlist_'[x] \in Seq(SendMsg)
    BY <1>1, <1>2
  <2> QED
    BY <2>1
<1>5. Fewer
  <2> SUFFICES ASSUME NEW t \in Threads
               PROVE  /\ \A i \in DOMAIN sendlist_'[t] : \E a \in DOMAIN sendlist_[t] : sendlist_[t][a] = sendlist_'[t][i]
                      /\ \A i, j \in DOMAIN sendlist_'[t] : i # j =>
                           \E a, b \in DOMAIN sendlist_[t] : /\ a # b /\ sendlist_[t][a] = sendlist_'[t][i]
                                                             /\ sendlist_[t][b] = sendlist_'[t][j]
    BY DEF Fewer
  <2>1. CASE t # x
    BY <2>1, <1>2
  <2>2. CASE t = x
    BY <2>2, <1>3, <1>4
  <2> QED
    BY <2>1, <2>2
<1> QED
  BY <1>3, <1>5

(* Clear only removes.                                                     *)
LEMMA FewerClear ==
    ASSUME Typed, NEW q \in Threads, NEW hs, ClearOne(q, hs)
    PROVE  /\ Fewer
           /\ \A t \in Threads : t # q => sendlist_'[t] = sendlist_[t]
           /\ \A i \in DOMAIN sendlist_'[q] : sendlist_'[q][i].h \notin hs
<1>1. sendlist_ \in [Threads -> Seq(SendMsg)] /\ sendlist_[q] \in Seq(SendMsg)
  BY DEF Typed, TypeInv
<1>2. /\ sendlist_'[q] = Keep(sendlist_[q], hs)
      /\ \A t \in Threads : t # q => sendlist_'[t] = sendlist_[t]
  BY <1>1 DEF ClearOne
<1>3. \A i \in DOMAIN sendlist_'[q] : /\ sendlist_'[q][i].h \notin hs
                                     /\ \E j \in DOMAIN sendlist_[q] : sendlist_[q][j] = sendlist_'[q][i]
  BY <1>1, <1>2, KeepElements
<1>4. \A i, j \in DOMAIN sendlist_'[q] : i # j =>
        \E a, b \in DOMAIN sendlist_[q] : /\ a # b /\ sendlist_[q][a] = sendlist_'[q][i]
                                          /\ sendlist_[q][b] = sendlist_'[q][j]
  <2> DEFINE keep == {sendlist_[q][i] : i \in {j \in DOMAIN sendlist_[q] : sendlist_[q][j].h \notin hs}}
  <2>1. sendlist_'[q] = Selected(sendlist_[q], keep)
    BY <1>2 DEF Keep
  <2> HIDE DEF keep
  <2> QED
    BY <2>1, <1>1, SelectedDistinct
<1>5. Fewer
  <2> SUFFICES ASSUME NEW t \in Threads
               PROVE  /\ \A i \in DOMAIN sendlist_'[t] : \E a \in DOMAIN sendlist_[t] : sendlist_[t][a] = sendlist_'[t][i]
                      /\ \A i, j \in DOMAIN sendlist_'[t] : i # j =>
                           \E a, b \in DOMAIN sendlist_[t] : /\ a # b /\ sendlist_[t][a] = sendlist_'[t][i]
                                                             /\ sendlist_[t][b] = sendlist_'[t][j]
    BY DEF Fewer
  <2>1. CASE t # q
    BY <2>1, <1>2
  <2>2. CASE t = q
    BY <2>2, <1>3, <1>4
  <2> QED
    BY <2>1, <2>2
<1> QED
  BY <1>2, <1>3, <1>5

(* The sends that are cleared are told, and nobody has them then.          *)
LEMMA ClearSends ==
    ASSUME Typed, Sends, NEW x \in All, NEW k \in 0 .. 2, NEW d \in {-1, 0, 1}, Moved(x, k, d),
           SameSends, \A i \in 1 .. k : \A n : ~Answering(stack'[x][i], n), \A n : ~Offering(x, n)',
           sends' = sends, NEW q \in Threads, NEW hs, ClearOne(q, hs)
    PROVE  Sends'
<1> SUFFICES ASSUME NEW n PROVE SendOk(n)'
  BY DEF Sends
<1>0. SendOk(n) /\ sends' \in {sends, sends + 1}
  BY DEF Sends
<1>1. /\ Fewer /\ \A t \in Threads : t # q => sendlist_'[t] = sendlist_[t]
      /\ \A i \in DOMAIN sendlist_'[q] : sendlist_'[q][i].h \notin hs
  BY FewerClear
<1>2. \A y \in All : InSend(y, n)' <=> InSend(y, n)
  BY DEF SameSends
<1>3. ready' = ready \cup {smsg.n : smsg \in Removed(q, hs)}
  BY DEF ClearOne
<1>4. CASE \A smsg \in Removed(q, hs) : smsg.n # n
  <2>1. n \in ready' <=> n \in ready
    BY <1>3, <1>4
  <2> QED
    BY <2>1, <1>0, <1>1, <1>2, SendQuiet
<1>5. CASE \E smsg \in Removed(q, hs) : smsg.n = n
  <2>1. PICK a \in DOMAIN sendlist_[q] : sendlist_[q][a].h \in hs /\ sendlist_[q][a].n = n
    BY <1>5 DEF Removed
  <2>2. Queued(n)
    BY <2>1 DEF Queued
  <2>3. \A y \in All : ~Offering(y, n)'
    <3>1. \A y \in All : ~Offering(y, n)
      BY <1>0, <2>2 DEF SendOk, Offered
    <3> QED
      BY <3>1, OfferingSame
  <2>4. ~Answered(n)'
    <3>1. ~Answered(n)
      BY <1>0, <2>1 DEF SendOk, Listed
    <3>2. \A i \in 1 .. k : ~Answering(stack'[x][i], n)
      OBVIOUS
    <3> QED
      BY <3>1, <3>2, <1>0, AnswersBefore
  <2>5. ~Queued(n)'
    <3> SUFFICES ASSUME NEW t \in Threads, NEW i \in DOMAIN sendlist_'[t], sendlist_'[t][i].n = n
                 PROVE  FALSE
      BY DEF Queued
    <3>1. PICK b \in DOMAIN sendlist_[t] : sendlist_[t][b] = sendlist_'[t][i]
      BY <1>1 DEF Fewer
    <3>2. t = q /\ b = a
      BY <3>1, <2>1, <1>0 DEF SendOk, ListedOnce
    <3> QED
      BY <3>1, <3>2, <2>1, <1>1
  <2>6. \E y \in All : InSend(y, n)
    BY <2>1, <1>0, EntryTypes DEF SendOk, Listed
  <2> QED
    BY <2>3, <2>4, <2>5, <2>6, <1>0, <1>2, SendIdle
<1> QED
  BY <1>4, <1>5

(* What is delivered to a list was offered, by this thread only.           *)
LEMMA DeliverSends ==
    ASSUME Typed, Sends, NEW x \in All, NEW a \in {"enter", "add"}, In(x, "Send", a), Deliver(x),
           UNCHANGED <<ready, sends>>
    PROVE  Sends'
<1>1. /\ 1 \in DOMAIN stack[x] /\ Head(stack[x]) = stack[x][1] /\ stack[x][1] \in SendFrame
      /\ Is(stack[x][1], "Send", a)
  BY TopTypes, FrameKinds DEF Is
<1>2. /\ Moved(x, 1, 0) /\ Is(stack'[x][1], "Send", "wake") /\ stack'[x][1].n = stack[x][1].n
  BY <1>1, DeliverMoves DEF Is
<1>3. PICK q \in Threads, n0 \in SendIds, h \in Handlers :
        q = stack[x][1].to /\ n0 = stack[x][1].n /\ h = stack[x][1].h
  BY <1>1 DEF SendFrame
<1>4. sendlist_' = [sendlist_ EXCEPT ![q] = Append(@, [n |-> n0, from |-> x, h |-> h])]
  BY <1>1, <1>3, Zenon DEF Deliver, Is
<1>5. SameSends
  BY <1>1, <1>2, SameSendsGoes DEF Is, IsSend
<1>6. /\ \A i \in 1 .. 1 : \A n : ~Answering(stack'[x][i], n)
      /\ \A n : ~Offering(x, n)'
      /\ 1 \in 0 .. 2 /\ 0 \in {-1, 0, 1} /\ sends' \in {sends, sends + 1}
  <2>1. (\A i \in 1 .. 1 : i = 1) /\ 1 \in {1, 2}
    OBVIOUS
  <2>2. \A n : ~Offering(x, n)'
    BY <1>2, <2>1, TopNext DEF Offering, Is
  <2> QED
    BY <1>2, <2>1, <2>2 DEF Answering, Is
<1>7. Offering(x, n0) /\ InSend(x, n0)
  BY <1>1, <1>3, OfferingIn DEF Offering
<1>8. /\ sendlist_'[q] \in Seq(SendMsg) /\ DOMAIN sendlist_'[q] = 1 .. Len(sendlist_[q]) + 1
      /\ Len(sendlist_[q]) \in Nat /\ DOMAIN sendlist_[q] = 1 .. Len(sendlist_[q])
      /\ sendlist_'[q][Len(sendlist_[q]) + 1] = [n |-> n0, from |-> x, h |-> h]
      /\ \A i \in DOMAIN sendlist_[q] : sendlist_'[q][i] = sendlist_[q][i]
      /\ \A t \in Threads : t # q => sendlist_'[t] = sendlist_[t]
  <2> DEFINE m == [n |-> n0, from |-> x, h |-> h]
  <2>1. m \in SendMsg
    BY DEF SendMsg
  <2>2. sendlist_ \in [Threads -> Seq(SendMsg)] /\ sendlist_[q] \in Seq(SendMsg)
    BY DEF Typed, TypeInv
  <2>3. sendlist_' = [sendlist_ EXCEPT ![q] = Append(@, m)]
    BY <1>4
  <2> HIDE DEF m
  <2>4. /\ sendlist_'[q] = Append(sendlist_[q], m)
        /\ \A t \in Threads : t # q => sendlist_'[t] = sendlist_[t]
    BY <2>2, <2>3
  <2>5. /\ sendlist_'[q] \in Seq(SendMsg) /\ DOMAIN sendlist_'[q] = 1 .. Len(sendlist_[q]) + 1
        /\ Len(sendlist_[q]) \in Nat /\ DOMAIN sendlist_[q] = 1 .. Len(sendlist_[q])
        /\ sendlist_'[q][Len(sendlist_[q]) + 1] = m
        /\ \A i \in DOMAIN sendlist_[q] : sendlist_'[q][i] = sendlist_[q][i]
    BY <2>1, <2>2, <2>4
  <2> QED
    BY <2>4, <2>5 DEF m
<1>9. \A t \in Threads : \A i \in DOMAIN sendlist_'[t] :
        \/ i \in DOMAIN sendlist_[t] /\ sendlist_'[t][i] = sendlist_[t][i]
        \/ /\ t = q /\ i = Len(sendlist_[q]) + 1 /\ sendlist_'[t][i].n = n0
           /\ sendlist_'[t][i].from = x
  <2> SUFFICES ASSUME NEW t \in Threads, NEW i \in DOMAIN sendlist_'[t]
               PROVE  \/ i \in DOMAIN sendlist_[t] /\ sendlist_'[t][i] = sendlist_[t][i]
                      \/ /\ t = q /\ i = Len(sendlist_[q]) + 1 /\ sendlist_'[t][i].n = n0
                         /\ sendlist_'[t][i].from = x
    OBVIOUS
  <2>1. CASE t # q
    BY <2>1, <1>8
  <2>2. CASE t = q
    <3>1. i \in DOMAIN sendlist_[q] \/ i = Len(sendlist_[q]) + 1
      BY <2>2, <1>8
    <3> QED
      BY <3>1, <2>2, <1>8
  <2> QED
    BY <2>1, <2>2
<1> SUFFICES ASSUME NEW n PROVE SendOk(n)'
  BY DEF Sends
<1>10. SendOk(n)
  BY DEF Sends
<1>11. /\ (Answered(n)' => Answered(n)) /\ Owing(n) /\ AnsweredOnce(n)'
       /\ \A y \in All : InSend(y, n)' <=> InSend(y, n)
  BY <1>2, <1>5, <1>6, <1>10, AnswersBefore DEF SameSends
<1>12. OneSender(n)'
  BY <1>6, <1>10, <1>11, NumbersGrow DEF SendOk, OneSender
<1>13. Owed(n)'
  BY <1>11, OwedStep
<1>14. CASE n # n0
  <2>1. Queued(n)' => Queued(n)
    BY <1>9, <1>14 DEF Queued
  <2>2. ListedOnce(n)'
    <3> SUFFICES ASSUME NEW t \in Threads, NEW u \in Threads, NEW i \in DOMAIN sendlist_'[t],
                        NEW j \in DOMAIN sendlist_'[u], sendlist_'[t][i].n = n, sendlist_'[u][j].n = n
                 PROVE  t = u /\ i = j
      BY DEF ListedOnce
    <3>1. /\ i \in DOMAIN sendlist_[t] /\ sendlist_[t][i].n = n
          /\ j \in DOMAIN sendlist_[u] /\ sendlist_[u][j].n = n
      BY <1>9, <1>14
    <3> QED
      BY <3>1, <1>10 DEF SendOk, ListedOnce
  <2>3. Listed(n)'
    <3> SUFFICES ASSUME NEW t \in Threads, NEW i \in DOMAIN sendlist_'[t], sendlist_'[t][i].n = n
                 PROVE  InSend(sendlist_[t][i].from, n)' /\ n \notin ready' /\ ~Answered(n)'
      BY DEF Listed
    <3>1. i \in DOMAIN sendlist_[t] /\ sendlist_'[t][i] = sendlist_[t][i]
      BY <1>9, <1>14
    <3>2. PICK z : z = sendlist_'[t][i].from
      OBVIOUS
    <3>3. InSend(z, n) /\ n \notin ready /\ ~Answered(n) /\ z \in All
      BY <3>1, <3>2, <1>10, EntryTypes DEF SendOk, Listed
    <3>4. InSend(z, n)' /\ n \notin ready' /\ ~Answered(n)'
      BY <3>3, <1>11
    <3> QED
      BY <3>2, <3>4
  <2>4. Offered(n)'
    <3>1. \A y \in All : Offering(y, n)' => Offering(y, n)
      BY <1>2, <1>6, OfferingSame
    <3> QED
      BY <3>1, <2>1, <1>10, <1>11 DEF SendOk, Offered
  <2> QED
    BY <2>2, <2>3, <2>4, <1>11, <1>12, <1>13 DEF SendOk
<1>15. CASE n = n0
  <2>1. n \notin ready /\ ~Queued(n) /\ ~Answered(n)
    BY <1>7, <1>10, <1>15 DEF SendOk, Offered
  <2>2. \A t \in Threads : \A i \in DOMAIN sendlist_'[t] : sendlist_'[t][i].n = n =>
          t = q /\ i = Len(sendlist_[q]) + 1 /\ sendlist_'[t][i].from = x
    BY <2>1, <1>9 DEF Queued
  <2>3. ListedOnce(n)'
    BY <2>2 DEF ListedOnce
  <2>4. Listed(n)'
    <3>1. InSend(x, n)'
      BY <1>7, <1>11, <1>15
    <3> QED
      BY <3>1, <2>1, <2>2, <1>11 DEF Listed
  <2>5. \A y \in All : ~Offering(y, n)'
    <3> SUFFICES ASSUME NEW y \in All, Offering(y, n)' PROVE FALSE
      OBVIOUS
    <3>1. y # x /\ Offering(y, n)
      BY <1>2, <1>6, OfferingSame
    <3>2. InSend(y, n)
      BY <3>1, OfferingIn
    <3> QED
      BY <3>1, <3>2, <1>7, <1>10, <1>15 DEF SendOk, OneSender
  <2>6. Offered(n)'
    BY <2>5 DEF Offered
  <2> QED
    BY <2>3, <2>4, <2>6, <1>11, <1>12, <1>13 DEF SendOk
<1> QED
  BY <1>14, <1>15

(* The send that is taken from the list is the one that is answered.       *)
LEMMA NextSends ==
    ASSUME Typed, Sends, NEW x \in All, NEW a \in {"next", "signal"}, In(x, "ReceiveSends", a),
           NextSend(x), UNCHANGED <<ready, sends>>
    PROVE  Sends'
<1>1. /\ 1 \in DOMAIN stack[x] /\ Is(stack[x][1], "ReceiveSends", a) /\ x \in Threads
      /\ \A n : ~IsSend(stack[x][1], n) /\ ~Answering(stack[x][1], n)
  BY NextSendMoves DEF Is, IsSend, Answering
<1>2. CASE sendlist_[x] = <<>>
  <2>1. Moved(x, 0, 1) /\ UNCHANGED sendlist_
    BY <1>2, NextSendMoves DEF NextSend
  <2>2. SameSends
    BY <2>1, <1>1, SendsReturn DEF Is
  <2> QED
    BY <2>1, <2>2, UnrelatedReturns, SendsQuiet
<1>3. CASE sendlist_[x] # <<>>
  <2>1. /\ Moved(x, 2, -1) /\ Is(stack'[x][1], "OnMessage", "body")
        /\ Is(stack'[x][2], "ReceiveSends", "reply")
        /\ 1 \in DOMAIN sendlist_[x] /\ stack'[x][2].n = sendlist_[x][1].n
        /\ stack'[x][2].from = sendlist_[x][1].from
        /\ sendlist_' = [sendlist_ EXCEPT ![x] = Tail(@)]
    BY <1>3, NextSendMoves DEF NextSend
  <2>2. PICK n0, z : n0 = sendlist_[x][1].n /\ z = sendlist_[x][1].from
    OBVIOUS
  <2>3. SameSends
    BY <2>1, <1>1, SameSendsCalls DEF Is, IsSend
  <2>4. /\ Fewer /\ \A i \in DOMAIN sendlist_'[x] : i + 1 \in DOMAIN sendlist_[x] /\ i + 1 # 1
                                                   /\ sendlist_'[x][i] = sendlist_[x][i + 1]
    BY <2>1, <1>1, <1>3, FewerTail
  <2>5. /\ \A i \in 1 .. 2 : i = 1 \/ i = 2
        /\ 2 \in {1, 2} /\ 2 \in 0 .. 2 /\ -1 \in {-1, 0, 1} /\ sends' \in {sends, sends + 1}
    OBVIOUS
  <2>6. \A n : ~Offering(x, n)'
    BY <2>1, <2>5, TopNext DEF Offering, Is
  <2>7. \A n : n # n0 => \A i \in 1 .. 2 : ~Answering(stack'[x][i], n)
    BY <2>1, <2>2, <2>5 DEF Answering, Is
  <2>8. SendOk(n0) /\ Queued(n0)
    BY <2>1, <2>2, <1>1 DEF Sends, Queued
  <2>9. InSend(z, n0) /\ n0 \notin ready /\ ~Answered(n0) /\ z \in All
    BY <2>1, <2>2, <2>8, <1>1, EntryTypes DEF SendOk, Listed
  <2> SUFFICES ASSUME NEW n PROVE SendOk(n)'
    BY DEF Sends
  <2>10. CASE n # n0
    <3>1. SendOk(n) /\ (n \in ready' <=> n \in ready) /\ \A y \in All : InSend(y, n)' <=> InSend(y, n)
      BY <2>3 DEF Sends, SameSends
    <3>2. \A i \in 1 .. 2 : ~Answering(stack'[x][i], n)
      BY <2>7, <2>10
    <3> QED
      BY <3>1, <3>2, <2>1, <2>4, <2>5, <2>6, SendQuiet
  <2>11. CASE n = n0
    <3>1. \A y \in All : InSend(y, n)' <=> InSend(y, n)
      BY <2>3 DEF SameSends
    <3>2. OneSender(n)'
      BY <3>1, <2>5, <2>8, <2>11, NumbersGrow DEF SendOk, OneSender
    <3>3. ~Queued(n)'
      <4> SUFFICES ASSUME NEW t \in Threads, NEW i \in DOMAIN sendlist_'[t], sendlist_'[t][i].n = n
                   PROVE  FALSE
        BY DEF Queued
      <4>1. CASE t = x
        <5>1. i + 1 \in DOMAIN sendlist_[x] /\ i + 1 # 1 /\ sendlist_[x][i + 1].n = n
          BY <4>1, <2>4
        <5> QED
          BY <5>1, <2>1, <2>2, <2>8, <2>11, <1>1 DEF SendOk, ListedOnce
      <4>2. CASE t # x
        <5>1. PICK b \in DOMAIN sendlist_[t] : sendlist_[t][b] = sendlist_'[t][i]
          BY <2>4 DEF Fewer
        <5> QED
          BY <5>1, <4>2, <2>1, <2>2, <2>8, <2>11, <1>1 DEF SendOk, ListedOnce
      <4> QED
        BY <4>1, <4>2
    <3>4. ListedOnce(n)' /\ Listed(n)'
      BY <3>3 DEF ListedOnce, Listed, Queued
    <3>5. Offered(n)'
      <4>1. \A y \in All : ~Offering(y, n)'
        BY <2>1, <2>6, <2>8, <2>11, OfferingSame DEF SendOk, Offered
      <4> QED
        BY <4>1 DEF Offered
    <3>6. \A y \in All : \A i \in DOMAIN stack'[y] : Answering(stack'[y][i], n) => y = x /\ i = 2
      <4> SUFFICES ASSUME NEW y \in All, NEW i \in DOMAIN stack'[y], Answering(stack'[y][i], n),
                          ~(y = x /\ i = 2)
                   PROVE  FALSE
        OBVIOUS
      <4>1. ~(y = x /\ i = 1)
        BY <2>1 DEF Is, Answering
      <4>2. ~(y = x /\ i \in 1 .. 2)
        BY <4>1, <2>5
      <4>3. PICK j \in DOMAIN stack[y] : stack'[y][i] = stack[y][j]
        BY <4>2, <2>1, <2>5, FramesAfter
      <4> QED
        BY <4>3, <2>9, <2>11 DEF Answered
    <3>7. AnsweredOnce(n)'
      BY <3>6 DEF AnsweredOnce
    <3>8. Owed(n)'
      <4>1. InSend(z, n)' /\ n \notin ready' /\ z = stack'[x][2].from
        BY <3>1, <2>1, <2>2, <2>9, <2>11
      <4> QED
        BY <4>1, <3>6 DEF Owed
    <3> QED
      BY <3>2, <3>4, <3>5, <3>7, <3>8 DEF SendOk
  <2> QED
    BY <2>10, <2>11
<1> QED
  BY <1>2, <1>3

(* The flag ready of a send is set when it is no longer answered.          *)
LEMMA ReceiveRepliesSends ==
    ASSUME Typed, Sends, NEW x \in All, ReceiveReplies(x)
    PROVE  Sends'
<1>1. /\ 1 \in DOMAIN stack[x] /\ Is(stack[x][1], "ReceiveSends", "reply")
      /\ Moved(x, 1, 0) /\ Is(stack'[x][1], "ReceiveSends", "signal")
      /\ Head(stack[x]) = stack[x][1]
  BY ReceiveRepliesMoves
<1>2. PICK n0 : n0 = stack[x][1].n
  OBVIOUS
<1>3. ready' = ready \cup {n0} /\ UNCHANGED <<sendlist_, sends>> /\ sends' \in {sends, sends + 1}
  BY <1>1, <1>2 DEF ReceiveReplies, counts
<1>4. Fewer /\ SameSends
  BY <1>1, <1>3, SameSendsGoes DEF Fewer, Is, IsSend
<1>5. /\ \A i \in 1 .. 1 : i = 1
      /\ 1 \in {1, 2} /\ 1 \in 0 .. 2 /\ 0 \in {-1, 0, 1} /\ 1 + 0 >= 1
  OBVIOUS
<1>6. \A n : ~Offering(x, n)'
  BY <1>1, <1>5, TopNext DEF Offering, Is
<1>7. \A n : \A i \in 1 .. 1 : ~Answering(stack'[x][i], n)
  BY <1>1, <1>5 DEF Answering, Is
<1> SUFFICES ASSUME NEW n PROVE SendOk(n)'
  BY DEF Sends
<1>8. SendOk(n) /\ \A y \in All : InSend(y, n)' <=> InSend(y, n)
  BY <1>4 DEF Sends, SameSends
<1>9. CASE n # n0
  <2>1. n \in ready' <=> n \in ready
    BY <1>3, <1>9
  <2> QED
    BY <2>1, <1>1, <1>3, <1>4, <1>5, <1>6, <1>7, <1>8, SendQuiet
<1>10. CASE n = n0
  <2>1. Answering(stack[x][1], n)
    BY <1>1, <1>2, <1>10 DEF Answering, Is
  <2>2. ~Answered(n)'
    BY <2>1, <1>1, <1>5, <1>7, <1>8, AnswersBefore
  <2>3. Answered(n) /\ \E y \in All : InSend(y, n)
    BY <2>1, <1>1, <1>8, AnswerFrom DEF SendOk, Owed, Answered
  <2>4. ~Queued(n)'
    <3>1. ~Queued(n)
      BY <2>3, <1>8 DEF SendOk, Listed, Queued
    <3> QED
      BY <3>1, <1>3 DEF Queued
  <2>5. \A y \in All : ~Offering(y, n)'
    BY <2>3, <1>1, <1>6, <1>8, OfferingSame DEF SendOk, Offered
  <2> QED
    BY <2>2, <2>3, <2>4, <2>5, <1>3, <1>8, SendIdle
<1> QED
  BY <1>9, <1>10

(* A Send returns once its flag is set, when nobody names it any more.     *)
LEMMA SendReturnsSends ==
    ASSUME Typed, Sends, NEW x \in All, SendReturns(x)
    PROVE  Sends'
<1>1. /\ 1 \in DOMAIN stack[x] /\ Is(stack[x][1], "Send", "test") /\ Moved(x, 0, 1)
      /\ Head(stack[x]) = stack[x][1]
  BY SendReturnsMoves
<1>2. PICK n0 : n0 = stack[x][1].n
  OBVIOUS
<1>3. /\ n0 \in ready /\ ready' = ready \ {n0} /\ UNCHANGED <<sendlist_, sends>>
      /\ sends' \in {sends, sends + 1}
  BY <1>1, <1>2 DEF SendReturns, counts, queues
<1>4. /\ Fewer /\ \A y \in All : \A n : InSend(y, n)' => InSend(y, n)
      /\ \A y \in All : \A n : InSend(y, n) /\ n # n0 => InSend(y, n)'
  BY <1>1, <1>2, <1>3, SendsReturn DEF Fewer, IsSend
<1>5. (\A i \in 1 .. 0 : FALSE) /\ 0 \in 0 .. 2 /\ 1 \in {-1, 0, 1}
  OBVIOUS
<1>6. \A n : ~Offering(x, n)'
  BY <1>1, UnrelatedReturns DEF Unrelated
<1> SUFFICES ASSUME NEW n PROVE SendOk(n)'
  BY DEF Sends
<1>7. SendOk(n)
  BY DEF Sends
<1>8. CASE n # n0
  <2>1. (n \in ready' <=> n \in ready) /\ \A y \in All : InSend(y, n)' <=> InSend(y, n)
    BY <1>3, <1>4, <1>8
  <2>2. \A i \in 1 .. 0 : ~Answering(stack'[x][i], n)
    BY <1>5
  <2> QED
    BY <2>1, <2>2, <1>1, <1>3, <1>4, <1>5, <1>6, <1>7, SendQuiet
<1>9. CASE n = n0
  <2>1. ~Answered(n)'
    <3>1. ~Answered(n)
      BY <1>3, <1>7, <1>9 DEF SendOk, Owed, Answered
    <3> QED
      BY <3>1, <1>1, <1>5, <1>7, AnswersBefore
  <2>2. ~Queued(n)'
    <3>1. ~Queued(n)
      BY <1>3, <1>7, <1>9 DEF SendOk, Listed, Queued
    <3> QED
      BY <3>1, <1>3 DEF Queued
  <2>3. \A y \in All : ~Offering(y, n)'
    BY <1>1, <1>3, <1>6, <1>7, <1>9, OfferingSame DEF SendOk, Offered
  <2> QED
    BY <2>1, <2>2, <2>3, <1>3, <1>4, <1>7, <1>9, SendIdle
<1> QED
  BY <1>8, <1>9

(* A new Send has a number of its own.                                     *)
LEMMA SendCallSends ==
    ASSUME Typed, Sends, NEW x \in All, NEW to \in Threads, NEW h \in Handlers, SendCall(x, to, h)
    PROVE  Sends'
<1>1. /\ Moved(x, 1, -1) /\ sends + 1 \in SendIds
      /\ to = x => Is(stack'[x][1], "OnMessage", "body")
      /\ to # x => Is(stack'[x][1], "Send", "enter") /\ stack'[x][1].n = sends + 1
  <2>1. /\ Moved(x, 1, -1) /\ sends + 1 \in SendIds
        /\ to = x => Is(stack'[x][1], "OnMessage", "body")
        /\ to # x => /\ Is(stack'[x][1], "Send", "enter") /\ stack'[x][1].n = sends + 1
                     /\ stack'[x][1].to = to /\ stack'[x][1].h = h
                     /\ stack'[x][1].waited = FALSE
    BY SendCallMoves, Zenon
  <2> QED
    BY ONLY <2>1, Zenon
<1>2. sends' = sends + 1 /\ sends' \in {sends, sends + 1} /\ UNCHANGED <<ready, sendlist_>>
      /\ sends \in Nat
  BY LoadTypes DEF SendCall, queues, Typed, TypeInv
<1>3. CASE to = x
  <2>1. SameSends
    BY <1>1, <1>3, SameSendsEnters DEF Is
  <2>2. Unrelated(x)
    BY <1>1, <1>3, UnrelatedGoes DEF Is
  <2> QED
    BY <2>1, <2>2, <1>2, SendsQuiet
<1>4. CASE to # x
  <2>1. PICK n0 : n0 = sends + 1
    OBVIOUS
  <2>2. /\ \A i \in 1 .. 1 : i = 1
        /\ 1 \in {1, 2} /\ 1 \in 0 .. 2 /\ -1 \in {-1, 0, 1} /\ 1 + (-1) = 0
    OBVIOUS
  <2>3. \A n : \A i \in 1 .. 1 : ~Answering(stack'[x][i], n)
    BY <1>1, <1>4, <2>2 DEF Answering, Is
  <2>4. \A n : Offering(x, n)' => n = n0
    BY <1>1, <1>4, <2>1, <2>2, TopNext DEF Offering, Is
  <2>5. ASSUME NEW n, n # n0
        PROVE  \A y \in All : InSend(y, n)' <=> InSend(y, n)
    <3>1. \A y \in All : y # x => (InSend(y, n)' <=> InSend(y, n))
      BY <1>1, <2>2, InSendMoved
    <3>2. InSend(x, n)' <=> \/ \E i \in 1 .. 1 : IsSend(stack'[x][i], n)
                            \/ \E j \in DOMAIN stack[x] : j > 1 + (-1) /\ IsSend(stack[x][j], n)
      BY <1>1, <2>2, InSendMoved
    <3>3. \A j \in DOMAIN stack[x] : j > 0
      BY Positions DEF Typed, TypeInv
    <3>4. \A i \in 1 .. 1 : ~IsSend(stack'[x][i], n)
      BY <2>1, <2>2, <2>5, <1>1, <1>4 DEF IsSend
    <3>5. InSend(x, n)' <=> InSend(x, n)
      BY <2>2, <3>2, <3>3, <3>4, InSendIs
    <3> QED
      BY <3>1, <3>5
  <2>6. Fewer
    BY <1>2 DEF Fewer
  <2>7. /\ n0 \notin ready /\ \A y \in All : ~InSend(y, n0)
    <3>1. OneSender(n0)
      BY DEF Sends, SendOk
    <3>2. ~(n0 <= sends)
      BY ONLY <2>1, <1>2
    <3> QED
      BY ONLY <3>1, <3>2 DEF OneSender
  <2> SUFFICES ASSUME NEW n PROVE SendOk(n)'
    BY DEF Sends
  <2>8. SendOk(n)
    BY DEF Sends
  <2>9. CASE n # n0
    <3>1. Offering(x, n)' => Offering(x, n)
      BY <2>4, <2>9
    <3>2. n \in ready' <=> n \in ready
      BY <1>2
    <3>3. \A y \in All : InSend(y, n)' <=> InSend(y, n)
      BY <2>5, <2>9
    <3>4. \A i \in 1 .. 1 : ~Answering(stack'[x][i], n)
      BY <2>3
    <3> QED
      BY <3>1, <3>2, <3>3, <3>4, <2>2, <2>6, <2>8, <1>1, <1>2, SendQuiet
  <2>10. CASE n = n0
    <3>1. \A y \in All : InSend(y, n)' => y = x
      BY <2>7, <2>10, <1>1, <2>2, InSendMoved
    <3>2. OneSender(n)'
      BY <3>1, <2>1, <2>10, <1>2 DEF OneSender
    <3>3. ~Queued(n)'
      <4>1. ~Queued(n)
        BY <2>7, <2>8, <2>10, EntryTypes DEF SendOk, Listed, Queued
      <4> QED
        BY <4>1, <1>2 DEF Queued
    <3>4. ~Answered(n)'
      <4>1. ~Answered(n)
        BY <2>7, <2>8, <2>10, AnswerFrom DEF SendOk, Owed, Answered
      <4>2. \A i \in 1 .. 1 : ~Answering(stack'[x][i], n)
        BY <2>3
      <4> QED
        BY <4>1, <4>2, <1>1, <2>2, <2>8, AnswersBefore
    <3>5. n \notin ready'
      BY <2>7, <2>10, <1>2
    <3>6. Offered(n)' /\ Listed(n)' /\ ListedOnce(n)'
      BY <3>3, <3>4, <3>5 DEF Offered, Listed, ListedOnce, Queued
    <3>7. Owed(n)' /\ AnsweredOnce(n)'
      BY <3>4 DEF Owed, AnsweredOnce, Answered, Answering
    <3> QED
      BY <3>2, <3>6, <3>7 DEF SendOk
  <2> QED
    BY <2>9, <2>10
<1> QED
  BY <1>3, <1>4

(* Sends looks at the stacks, the lists and ready only.                    *)
LEMMA SendsStay == ASSUME Sends, UNCHANGED <<stack, ready, sends, sendlist_>> PROVE Sends'
<1>1. /\ \A x, n : InSend(x, n)' <=> InSend(x, n)
      /\ \A x, n : Offering(x, n)' <=> Offering(x, n)
      /\ \A n : (Queued(n)' <=> Queued(n)) /\ (Answered(n)' <=> Answered(n))
  BY DEF InSend, Frames, Offering, In, Queued, Answered
<1> SUFFICES ASSUME NEW n PROVE SendOk(n)'
  BY DEF Sends
<1>2. SendOk(n)
  BY DEF Sends
<1>3. OneSender(n)' /\ Offered(n)'
  BY <1>1, <1>2 DEF SendOk, OneSender, Offered
<1>4. Listed(n)'
  BY <1>2 DEF SendOk, Listed, InSend, Frames, Answered, Answering
<1>5. Owed(n)'
  BY <1>2 DEF SendOk, Owed, InSend, Frames, Answering
<1>6. ListedOnce(n)' /\ AnsweredOnce(n)'
  BY <1>2 DEF SendOk, ListedOnce, AnsweredOnce, Answering
<1> QED
  BY <1>3, <1>4, <1>5, <1>6 DEF SendOk

(* Every step keeps Sends.                                                 *)
LEMMA SendsStep ==
    ASSUME Typed, Sends, [Next]_vars
    PROVE  Sends'
<1>1. ASSUME NEW x \in All, NEW h \in alive, NEW to \in Threads, SendCall(x, to, h) PROVE Sends'
  <2>1. h \in Handlers
    BY <1>1 DEF Typed, TypeInv
  <2> QED
    BY <1>1, <2>1, SendCallSends
<1>2. ASSUME NEW x \in All, NEW h \in alive, NEW to \in Threads, PostCall(x, to, h) PROVE Sends'
  <2>0. Typed /\ h \in Handlers
    BY <1>2 DEF Typed, TypeInv
  <2>1. SameSends
    BY <1>2, <2>0, PostCallMoves, SameSendsEnters DEF Is
  <2>2. Unrelated(x)
    BY <1>2, <2>0, PostCallMoves, UnrelatedGoes DEF Is
  <2>u. UNCHANGED <<ready, sendlist_, sends>> /\ sends' \in {sends, sends + 1}
    BY <1>2 DEF PostCall, queues, counts
  <2> QED
    BY <2>1, <2>2, <2>u, SendsQuiet
<1>3. ASSUME NEW x \in All, NEW h \in alive, ClearCall(x, h) PROVE Sends'
  <2>0. Typed /\ h \in Handlers
    BY <1>3 DEF Typed, TypeInv
  <2>1. SameSends
    BY <1>3, <2>0, ClearCallMoves, SameSendsEnters DEF Is
  <2>2. Unrelated(x)
    BY <1>3, <2>0, ClearCallMoves, UnrelatedGoes DEF Is
  <2>u. UNCHANGED <<ready, sendlist_, sends>> /\ sends' \in {sends, sends + 1}
    BY <1>3 DEF ClearCall, queues, counts
  <2> QED
    BY <2>1, <2>2, <2>u, SendsQuiet
<1>4. ASSUME NEW x \in All, OnMessageReturns(x) PROVE Sends'
  <2>1. SameSends
    BY <1>4, OnMessageReturnsMoves, SendsReturn DEF Is
  <2>2. Unrelated(x)
    BY <1>4, OnMessageReturnsMoves, UnrelatedReturns
  <2>u. UNCHANGED <<ready, sendlist_, sends>> /\ sends' \in {sends, sends + 1}
    BY <1>4 DEF OnMessageReturns, queues, counts
  <2> QED
    BY <2>1, <2>2, <2>u, SendsQuiet
<1>5. ASSUME NEW x \in All, EnterActive(x) PROVE Sends'
  <2>1. (In(x, "Send", "enter") \/ In(x, "Post", "enter")) /\ Deliver(x) /\ UNCHANGED <<ready, sends>>
    BY <1>5 DEF EnterActive, Entering, counts
  <2>2. CASE In(x, "Send", "enter")
    BY <2>1, <2>2, DeliverSends
  <2>3. CASE In(x, "Post", "enter")
    <3>1. /\ 1 \in DOMAIN stack[x] /\ stack[x][1].call = "Post" /\ Head(stack[x]) = stack[x][1]
      BY <2>3, TopTypes DEF Is
    <3>2. Moved(x, 0, 1) /\ UNCHANGED sendlist_ /\ sends' \in {sends, sends + 1}
      BY <3>1, <2>1, <2>3, DeliverMoves, Zenon DEF Deliver
    <3>3. SameSends
      BY <3>1, <3>2, SendsReturn
    <3> QED
      BY <3>2, <3>3, <2>1, UnrelatedReturns, SendsQuiet
  <2> QED
    BY <2>1, <2>2, <2>3
<1>6. ASSUME NEW x \in All, EnsureActive(x) PROVE Sends'
  <2>1. /\ 1 \in DOMAIN stack[x] /\ Moved(x, 1, 0) /\ Head(stack[x]) = stack[x][1]
        /\ Is(stack[x][1], "Send", "enter") \/ Is(stack[x][1], "Post", "enter")
        /\ Is(stack'[x][1], stack[x][1].call, "add") /\ stack'[x][1].n = stack[x][1].n
    BY <1>6, EnsureActiveMoves
  <2>2. SameSends
    BY <2>1, SameSendsGoes DEF Is, IsSend
  <2>u. UNCHANGED <<ready, sendlist_, sends>> /\ sends' \in {sends, sends + 1}
    BY <1>6 DEF EnsureActive, queues, counts
  <2>3. Fewer
    BY <2>u DEF Fewer
  <2>4. (\A i \in 1 .. 1 : i = 1) /\ 1 \in {1, 2} /\ 1 \in 0 .. 2 /\ 0 \in {-1, 0, 1}
    OBVIOUS
  <2>5. \A n : \A i \in 1 .. 1 : ~Answering(stack'[x][i], n)
    BY <2>1, <2>4 DEF Answering, Is
  <2>6. \A n : Offering(x, n)' => Offering(x, n)
    <3>1. \A n : Offering(x, n)' => stack[x][1].call = "Send" /\ stack[x][1].n = n
      BY <2>1, <2>4, TopNext DEF Offering, Is
    <3>2. stack[x][1].call = "Send" => In(x, "Send", "enter")
      BY <2>1, InTop DEF Is, Typed, TypeInv
    <3> QED
      BY <3>1, <3>2, <2>1 DEF Offering
  <2>7. ASSUME NEW n PROVE SendOk(n)'
    <3>1. SendOk(n) /\ (n \in ready' <=> n \in ready) /\ \A y \in All : InSend(y, n)' <=> InSend(y, n)
      BY <2>2, <2>u DEF Sends, SameSends
    <3>2. (\A i \in 1 .. 1 : ~Answering(stack'[x][i], n)) /\ (Offering(x, n)' => Offering(x, n))
      BY <2>5, <2>6
    <3> QED
      BY <3>1, <3>2, <2>1, <2>3, <2>4, <2>u, SendQuiet
  <2> QED
    BY <2>7 DEF Sends
<1>7. ASSUME NEW x \in All, Add(x) PROVE Sends'
  <2>1. (In(x, "Send", "add") \/ In(x, "Post", "add")) /\ Deliver(x) /\ UNCHANGED <<ready, sends>>
    BY <1>7 DEF Add, Entering, counts
  <2>2. CASE In(x, "Send", "add")
    BY <2>1, <2>2, DeliverSends
  <2>3. CASE In(x, "Post", "add")
    <3>1. /\ 1 \in DOMAIN stack[x] /\ stack[x][1].call = "Post" /\ Head(stack[x]) = stack[x][1]
      BY <2>3, TopTypes DEF Is
    <3>2. Moved(x, 0, 1) /\ UNCHANGED sendlist_ /\ sends' \in {sends, sends + 1}
      BY <3>1, <2>1, <2>3, DeliverMoves, Zenon DEF Deliver
    <3>3. SameSends
      BY <3>1, <3>2, SendsReturn
    <3> QED
      BY <3>2, <3>3, <2>1, UnrelatedReturns, SendsQuiet
  <2> QED
    BY <2>1, <2>2, <2>3
<1>8. ASSUME NEW x \in All, SendWakes(x) PROVE Sends'
  <2>1. SameSends
    BY <1>8, SendWakesMoves, SameSendsGoes DEF Is, IsSend
  <2>2. Unrelated(x)
    BY <1>8, SendWakesMoves, UnrelatedGoes DEF Is
  <2>u. UNCHANGED <<ready, sendlist_, sends>> /\ sends' \in {sends, sends + 1}
    BY <1>8 DEF SendWakes, queues, counts
  <2> QED
    BY <2>1, <2>2, <2>u, SendsQuiet
<1>9. ASSUME NEW x \in All, SendTests(x) PROVE Sends'
  <2>1. SameSends
    BY <1>9, SendTestsMoves, SameSendsCalls DEF Is, IsSend
  <2>2. Unrelated(x)
    BY <1>9, SendTestsMoves, UnrelatedCalls DEF Is
  <2>u. UNCHANGED <<ready, sendlist_, sends>> /\ sends' \in {sends, sends + 1}
    BY <1>9 DEF SendTests, queues, counts
  <2> QED
    BY <2>1, <2>2, <2>u, SendsQuiet
<1>10. ASSUME NEW x \in All, SendWaits(x) PROVE Sends'
  <2>1. SameSends
    BY <1>10, SendWaitsMoves, SameSendsGoes DEF Is, IsSend
  <2>2. Unrelated(x)
    BY <1>10, SendWaitsMoves, UnrelatedGoes DEF Is
  <2>u. UNCHANGED <<ready, sendlist_, sends>> /\ sends' \in {sends, sends + 1}
    BY <1>10 DEF SendWaits, queues, counts
  <2> QED
    BY <2>1, <2>2, <2>u, SendsQuiet
<1>11. ASSUME NEW x \in All, SendReturns(x) PROVE Sends'
  BY <1>11, SendReturnsSends
<1>12. ASSUME NEW x \in All, ReceiveChecks(x) PROVE Sends'
  <2>1. SameSends /\ Unrelated(x)
    <3>1. CASE ~has_sends_[x]
      BY <1>12, <3>1, ReceiveChecksMoves, SendsReturn, UnrelatedReturns DEF Is, IsSend
    <3>2. CASE has_sends_[x]
      BY <1>12, <3>2, ReceiveChecksMoves, SameSendsGoes, UnrelatedGoes DEF Is, IsSend
    <3> QED
      BY <3>1, <3>2
  <2>u. UNCHANGED <<ready, sendlist_, sends>> /\ sends' \in {sends, sends + 1}
    BY <1>12 DEF ReceiveChecks, queues, counts
  <2> QED
    BY <2>1, <2>u, SendsQuiet
<1>13. ASSUME NEW x \in All, ReceiveEnters(x) PROVE Sends'
  <2>1. In(x, "ReceiveSends", "next") /\ NextSend(x) /\ UNCHANGED <<ready, sends>>
    BY <1>13 DEF ReceiveEnters, counts
  <2> QED
    BY <2>1, NextSends
<1>14. ASSUME NEW x \in All, ReceiveReplies(x) PROVE Sends'
  BY <1>14, ReceiveRepliesSends
<1>15. ASSUME NEW x \in All, ReceiveSignals(x) PROVE Sends'
  <2>1. In(x, "ReceiveSends", "signal") /\ NextSend(x) /\ UNCHANGED <<ready, sends>>
    BY <1>15 DEF ReceiveSignals, counts
  <2> QED
    BY <2>1, NextSends
<1>16. ASSUME NEW x \in All, ClearNext(x) PROVE Sends'
  <2>1. /\ 1 \in DOMAIN stack[x] /\ Is(stack[x][1], "Clear", "next") /\ Head(stack[x]) = stack[x][1]
        /\ stack[x][1].todo \in Seq(Threads)
    BY <1>16, ClearNextMoves
  <2>2. sends' = sends /\ sends' \in {sends, sends + 1}
    BY <1>16 DEF ClearNext, counts
  <2>3. CASE stack[x][1].todo = <<>>
    <3>1. Moved(x, 0, 1) /\ UNCHANGED <<ready, sendlist_>>
      BY <1>16, <2>1, <2>3, ClearNextMoves DEF ClearNext, queues
    <3>2. SameSends
      BY <3>1, <2>1, SendsReturn DEF Is
    <3> QED
      BY <3>1, <3>2, <2>2, UnrelatedReturns, SendsQuiet
  <2>4. CASE stack[x][1].todo # <<>>
    <3>1. PICK q \in Threads : q = Head(stack[x][1].todo)
      BY <2>1, <2>4
    <3>2. /\ Moved(x, 1, 0) /\ Is(stack'[x][1], "Clear", "next") /\ ClearOne(q, {stack[x][1].h})
      BY <1>16, <2>1, <2>4, <3>1, ClearNextMoves DEF ClearNext
    <3>3. SameSends
      BY <3>2, <2>1, SameSendsGoes DEF Is, IsSend
    <3>4. (\A i \in 1 .. 1 : i = 1) /\ 1 \in {1, 2} /\ 1 \in 0 .. 2 /\ 0 \in {-1, 0, 1}
      OBVIOUS
    <3>5. \A i \in 1 .. 1 : \A n : ~Answering(stack'[x][i], n)
      BY <3>2, <3>4 DEF Answering, Is
    <3>6. \A n : ~Offering(x, n)'
      BY <3>2, <3>4, TopNext DEF Offering, Is
    <3> QED
      BY <3>2, <3>3, <3>4, <3>5, <3>6, <2>2, ClearSends
  <2> QED
    BY <2>3, <2>4
<1>17. ASSUME NEW x \in All, GetReceives(x) PROVE Sends'
  <2>1. SameSends /\ Unrelated(x)
    <3>1. CASE ~has_sends_[x]
      BY <1>17, <3>1, GetReceivesMoves, SameSendsGoes, UnrelatedGoes DEF Is, IsSend
    <3>2. CASE has_sends_[x]
      BY <1>17, <3>2, GetReceivesMoves, SameSendsCalls, UnrelatedCalls DEF Is, IsSend
    <3> QED
      BY <3>1, <3>2
  <2>u. UNCHANGED <<ready, sendlist_, sends>> /\ sends' \in {sends, sends + 1}
    BY <1>17 DEF GetReceives, queues, counts
  <2> QED
    BY <2>1, <2>u, SendsQuiet
<1>18. ASSUME NEW x \in All, GetPops(x) PROVE Sends'
  <2>1. SameSends /\ Unrelated(x)
    <3>1. CASE msgq_[x] = <<>>
      BY <1>18, <3>1, GetPopsMoves, SameSendsGoes, UnrelatedGoes DEF Is, IsSend
    <3>2. CASE msgq_[x] # <<>>
      BY <1>18, <3>2, GetPopsMoves, SameSendsCalls, UnrelatedCalls DEF Is, IsSend
    <3> QED
      BY <3>1, <3>2
  <2>u. UNCHANGED <<ready, sendlist_, sends>> /\ sends' \in {sends, sends + 1}
    BY <1>18 DEF GetPops, queues, counts
  <2> QED
    BY <2>1, <2>u, SendsQuiet
<1>19. ASSUME NEW x \in All, GetStops(x) PROVE Sends'
  <2>1. SameSends /\ Unrelated(x)
    <3>1. CASE fStop_[x]
      BY <1>19, <3>1, GetStopsMoves, SendsReturn, UnrelatedReturns DEF Is, IsSend
    <3>2. CASE ~fStop_[x]
      BY <1>19, <3>2, GetStopsMoves, SameSendsGoes, UnrelatedGoes DEF Is, IsSend
    <3> QED
      BY <3>1, <3>2
  <2>u. UNCHANGED <<ready, sendlist_, sends>> /\ sends' \in {sends, sends + 1}
    BY <1>19 DEF GetStops, queues, counts
  <2> QED
    BY <2>1, <2>u, SendsQuiet
<1>20. ASSUME NEW x \in All, GetWaits(x) PROVE Sends'
  <2>1. SameSends
    BY <1>20, GetWaitsMoves, SameSendsGoes DEF Is, IsSend
  <2>2. Unrelated(x)
    BY <1>20, GetWaitsMoves, UnrelatedGoes DEF Is
  <2>u. UNCHANGED <<ready, sendlist_, sends>> /\ sends' \in {sends, sends + 1}
    BY <1>20 DEF GetWaits, queues, counts
  <2> QED
    BY <2>1, <2>2, <2>u, SendsQuiet
<1>21. ASSUME NEW t \in Threads, QuitSets(t) PROVE Sends'
  <2>1. UNCHANGED <<stack, ready, sends, sendlist_>>
    BY <1>21 DEF QuitSets, queues, counts
  <2> QED
    BY <2>1, SendsStay
<1>22. ASSUME NEW t \in Threads, QuitWakes(t) PROVE Sends'
  <2>1. UNCHANGED <<stack, ready, sends, sendlist_>>
    BY <1>22 DEF QuitWakes, queues, counts
  <2> QED
    BY <2>1, SendsStay
<1>23. ASSUME NEW t \in Threads, Joins(t) PROVE Sends'
  <2>1. UNCHANGED <<stack, sends>> /\ t \in All /\ stack[t] = <<>>
    BY <1>23 DEF Joins, counts, All
  <2>2. CASE active_[t]
    <3>1. ClearOne(t, Handlers)
      BY <1>23, <2>2 DEF Joins
    <3>2. Moved(t, 0, 0) /\ (\A i \in 1 .. 0 : FALSE) /\ 0 \in 0 .. 2 /\ 0 \in {-1, 0, 1}
      BY <2>1, StaysMoves
    <3>3. SameSends
      BY <2>1, InSendIs DEF SameSends
    <3>4. \A n : ~Offering(t, n)'
      BY <2>1 DEF Offering, In
    <3>5. \A i \in 1 .. 0 : \A n : ~Answering(stack'[t][i], n)
      BY <3>2
    <3> QED
      BY <3>1, <3>2, <3>3, <3>4, <3>5, <2>1, ClearSends
  <2>3. CASE ~active_[t]
    <3>1. UNCHANGED <<stack, ready, sends, sendlist_>>
      BY <1>23, <2>3 DEF Joins, counts
    <3> QED
      BY <3>1, SendsStay
  <2> QED
    BY <2>2, <2>3
<1>24. ASSUME NEW t \in Threads, Removes(t) PROVE Sends'
  <2>1. UNCHANGED <<stack, ready, sends, sendlist_>>
    BY <1>24 DEF Removes, queues, counts
  <2> QED
    BY <2>1, SendsStay
<1>25. CASE UNCHANGED vars
  BY <1>25, SendsStay DEF vars, queues, counts
<1> QED
  BY <1>1, <1>2, <1>3, <1>4, <1>5, <1>6, <1>7, <1>8, <1>9, <1>10, <1>11, <1>12, <1>13,
     <1>14, <1>15, <1>16, <1>17, <1>18, <1>19, <1>20, <1>21, <1>22, <1>23, <1>24,
     <1>25
     DEF Next, Call, Step, Destroy

(* At first nobody is in a Send.                                           *)
LEMMA SendsInit == Init => Sends
<1> SUFFICES ASSUME Init, NEW n PROVE SendOk(n)
  BY DEF Sends
<1>1. \A x \in All : stack[x] = IF x \in Threads THEN <<Loop("get")>> ELSE <<>>
  BY DEF Init
<1>2. \A x \in All : \A i \in DOMAIN stack[x] : stack[x][i].call = "ProcessMessages"
  BY <1>1 DEF Loop
<1>3. \A x \in All : ~InSend(x, n) /\ ~Offering(x, n)
  <2>1. \A x \in All : ~InSend(x, n)
    BY <1>2, InSendIs DEF IsSend
  <2>2. \A x \in All : ~Offering(x, n)
    BY <1>1 DEF Offering, In, Loop
  <2> QED
    BY <2>1, <2>2
<1>4. ready = {} /\ \A t \in Threads : sendlist_[t] = <<>>
  BY DEF Init
<1>5. OneSender(n) /\ Offered(n) /\ Listed(n) /\ ListedOnce(n)
  BY <1>3, <1>4 DEF OneSender, Offered, Listed, ListedOnce
<1>6. Owed(n) /\ AnsweredOnce(n)
  BY <1>2 DEF Owed, AnsweredOnce, Answering
<1> QED
  BY <1>5, <1>6 DEF SendOk

-----------------------------------------------------------------------------
(* A Send that has got past its queueing, ...                              *)
Waiting(f) == f.call = "Send" /\ f.at \in {"wake", "test", "wait"}

(* ... of number n, to that thread.                                        *)
WaitsFor(f, n, to) == Waiting(f) /\ f.n = n /\ f.to = to

(* Send n has been told, is queued, or its handler runs.                   *)
Pending(n, to) == \/ n \in ready
                  \/ \E a \in DOMAIN sendlist_[to] : sendlist_[to][a].n = n
                  \/ \E i \in DOMAIN stack[to] : Answering(stack[to][i], n)

(* A thread is in send n once: what is set for it is for that call.        *)
Once(n) == \A x \in All : \A i, j \in DOMAIN stack[x] :
              IsSend(stack[x][i], n) /\ IsSend(stack[x][j], n) => i = j

(* No sender is forgotten.                                                 *)
Remembers == \A x \in All : \A i \in DOMAIN stack[x] : \A n, to :
                WaitsFor(stack[x][i], n, to) => Pending(n, to)

(* The inductive invariant.                                                *)
Kept == (\A n : Once(n)) /\ Remembers

(* f is a Send that x had not begun, ...                                   *)
Fresh(x, f) == ~Waiting(f) /\ ~InSend(x, f.n)

(* ... or the innermost one that goes on; it has waited before, or has     *)
(* been queued by this step.                                               *)
Resumed(x, f) ==
    /\ 1 \in DOMAIN stack[x] /\ IsSend(stack[x][1], f.n) /\ stack[x][1].to = f.to
    /\ Waiting(f) => \/ Waiting(stack[x][1])
                     \/ \E a \in DOMAIN sendlist_'[f.to] : sendlist_'[f.to][a].n = f.n

(* The sends of x are those it was in, but for one that it begins or ends. *)
Carries(x) ==
    \E k \in 0 .. 2, d \in {-1, 0, 1} :
        /\ Moved(x, k, d) /\ k + d \in {0, 1}
        /\ \A i \in 1 .. k : stack'[x][i].call = "Send" =>
             i = k /\ (Fresh(x, stack'[x][i]) \/ (k + d = 1 /\ Resumed(x, stack'[x][i])))

(* So it is when a call returns, or no stack changes, ...                  *)
LEMMA CarriesReturns ==
    ASSUME NEW x \in All, Moved(x, 0, 1) \/ Moved(x, 0, 0)
    PROVE  Carries(x)
<1>1. /\ (\A i \in 1 .. 0 : FALSE) /\ 0 \in 0 .. 2 /\ 1 \in {-1, 0, 1} /\ 0 \in {-1, 0, 1}
      /\ 0 + 1 \in {0, 1} /\ 0 + 0 \in {0, 1}
  OBVIOUS
<1> QED
  BY <1>1 DEF Carries

(* ... when a call is made, ...                                            *)
LEMMA CarriesEnters ==
    ASSUME NEW x \in All, Moved(x, 1, -1), stack'[x][1].call # "Send" \/ Fresh(x, stack'[x][1])
    PROVE  Carries(x)
<1>1. /\ (\A i \in 1 .. 1 : i = 1) /\ 1 \in 0 .. 2 /\ -1 \in {-1, 0, 1} /\ 1 + (-1) \in {0, 1}
  OBVIOUS
<1>2. \A i \in 1 .. 1 : stack'[x][i].call = "Send" => i = 1 /\ Fresh(x, stack'[x][i])
  BY <1>1
<1> QED
  BY <1>1, <1>2 DEF Carries

(* ... when one goes on, ...                                               *)
LEMMA CarriesGoes ==
    ASSUME NEW x \in All, Moved(x, 1, 0), stack'[x][1].call # "Send" \/ Resumed(x, stack'[x][1])
    PROVE  Carries(x)
<1>1. /\ (\A i \in 1 .. 1 : i = 1) /\ 1 \in 0 .. 2 /\ 0 \in {-1, 0, 1} /\ 1 + 0 \in {0, 1}
      /\ 1 + 0 = 1
  OBVIOUS
<1>2. \A i \in 1 .. 1 : stack'[x][i].call = "Send" => i = 1 /\ Resumed(x, stack'[x][i])
  BY <1>1
<1> QED
  BY <1>1, <1>2 DEF Carries

(* ... or calls another.                                                   *)
LEMMA CarriesCalls ==
    ASSUME NEW x \in All, Moved(x, 2, -1), stack'[x][1].call # "Send",
           stack'[x][2].call # "Send" \/ Resumed(x, stack'[x][2])
    PROVE  Carries(x)
<1>1. /\ (\A i \in 1 .. 2 : i = 1 \/ i = 2) /\ 2 \in 0 .. 2 /\ -1 \in {-1, 0, 1}
      /\ 2 + (-1) \in {0, 1} /\ 2 + (-1) = 1
  OBVIOUS
<1>2. \A i \in 1 .. 2 : stack'[x][i].call = "Send" => i = 2 /\ Resumed(x, stack'[x][i])
  BY <1>1
<1> QED
  BY <1>1, <1>2 DEF Carries

(* Then nobody is in the same send twice.                                  *)
LEMMA OnceStep ==
    ASSUME Typed, NEW x \in All, Carries(x), NEW n, Once(n)
    PROVE  Once(n)'
<1>1. PICK k \in 0 .. 2, d \in {-1, 0, 1} :
        /\ Moved(x, k, d) /\ k + d \in {0, 1}
        /\ \A i \in 1 .. k : stack'[x][i].call = "Send" =>
             i = k /\ (Fresh(x, stack'[x][i]) \/ (k + d = 1 /\ Resumed(x, stack'[x][i])))
  BY DEF Carries
<1> SUFFICES ASSUME NEW y \in All, NEW i \in DOMAIN stack'[y], NEW j \in DOMAIN stack'[y],
                    IsSend(stack'[y][i], n), IsSend(stack'[y][j], n)
             PROVE  i = j
  BY DEF Once
<1>2. CASE y # x
  BY <1>1, <1>2 DEF Moved, Once
<1>3. CASE y = x
  <2>1. i \in Nat /\ i >= 1 /\ j \in Nat /\ j >= 1 /\ k \in Nat
    BY <1>1, <1>3, PositionsNext
  <2>2. \A b \in DOMAIN stack'[x] : b > k => b + d \in DOMAIN stack[x] /\ stack'[x][b] = stack[x][b + d]
    BY <1>1 DEF Moved
  <2>3. ASSUME NEW a \in 1 .. k, NEW b \in DOMAIN stack'[x], b > k, IsSend(stack'[x][a], n),
               IsSend(stack'[x][b], n)
        PROVE  FALSE
    <3>1. b + d \in DOMAIN stack[x] /\ IsSend(stack[x][b + d], n)
      BY <2>2, <2>3
    <3>2. InSend(x, n)
      BY <3>1, InSendIs
    <3>3. stack'[x][a].call = "Send" /\ stack'[x][a].n = n
      BY <2>3 DEF IsSend
    <3>4. ~Fresh(x, stack'[x][a])
      BY <3>2, <3>3 DEF Fresh
    <3>5. k + d = 1 /\ 1 \in DOMAIN stack[x] /\ IsSend(stack[x][1], n)
      BY <3>3, <3>4, <1>1 DEF Resumed
    <3>6. b + d = 1
      BY <3>1, <3>5 DEF Once
    <3>7. b \in Nat
      BY <1>1, PositionsNext
    <3> QED
      BY <3>5, <3>6, <3>7, <2>3
  <2>4. CASE i > k /\ j > k
    <3>1. i + d = j + d
      BY <2>2, <2>4, <1>3 DEF Once
    <3> QED
      BY <3>1, <2>1
  <2>5. CASE i \in 1 .. k /\ j \in 1 .. k
    BY <2>5, <1>1, <1>3 DEF IsSend
  <2>6. CASE i \in 1 .. k /\ j > k
    BY <2>3, <2>6, <1>3
  <2>7. CASE j \in 1 .. k /\ i > k
    BY <2>3, <2>7, <1>3
  <2>8. (i > k \/ i \in 1 .. k) /\ (j > k \/ j \in 1 .. k)
    BY <2>1
  <2> QED
    BY <2>4, <2>5, <2>6, <2>7, <2>8
<1> QED
  BY <1>2, <1>3

(* Where a Send that waits was before.                                     *)
LEMMA WaitsBefore ==
    ASSUME Typed, NEW x \in All, Carries(x), NEW y \in All, NEW i \in DOMAIN stack'[y], NEW n, NEW to,
           WaitsFor(stack'[y][i], n, to)
    PROVE  \/ \E j \in DOMAIN stack[y] : WaitsFor(stack[y][j], n, to)
           \/ \E a \in DOMAIN sendlist_'[to] : sendlist_'[to][a].n = n
<1>1. PICK k \in 0 .. 2, d \in {-1, 0, 1} :
        /\ Moved(x, k, d) /\ k + d \in {0, 1}
        /\ \A b \in 1 .. k : stack'[x][b].call = "Send" =>
             b = k /\ (Fresh(x, stack'[x][b]) \/ (k + d = 1 /\ Resumed(x, stack'[x][b])))
  BY DEF Carries
<1>2. CASE y = x /\ i \in 1 .. k
  <2>1. /\ stack'[x][i].call = "Send" /\ Waiting(stack'[x][i])
        /\ stack'[x][i].n = n /\ stack'[x][i].to = to
    BY <1>2 DEF WaitsFor, Waiting
  <2>2. Resumed(x, stack'[x][i])
    BY <2>1, <1>1, <1>2 DEF Fresh
  <2> QED
    BY <2>1, <2>2, <1>2 DEF Resumed, WaitsFor, IsSend
<1>3. CASE \E j \in DOMAIN stack[y] : stack'[y][i] = stack[y][j]
  BY <1>3
<1> QED
  BY <1>1, <1>2, <1>3, FramesAfter

(* Who waits in a Send waits for a thread.                                 *)
LEMMA WaitsTypes ==
    ASSUME Typed, NEW y \in All, NEW j \in DOMAIN stack[y], NEW n, NEW to, WaitsFor(stack[y][j], n, to)
    PROVE  to \in Threads /\ to \in All
<1>1. stack[y][j] \in Frame /\ stack[y][j].call = "Send" /\ stack[y][j].to = to
  BY Positions DEF Typed, TypeInv, WaitsFor, Waiting
<1>2. stack[y][j] \in SendFrame
  BY <1>1, FrameKinds
<1>3. stack[y][j].to \in Threads
  BY <1>2 DEF SendFrame
<1> QED
  BY <1>1, <1>3 DEF All

(* No sender is forgotten when what is pending, and waited for, remains so.*)
LEMMA RemembersStep ==
    ASSUME Typed, Kept, NEW x \in All, Carries(x),
           \A n : \A to \in Threads : Pending(n, to) /\ (\E y \in All : InSend(y, n)') => Pending(n, to)'
    PROVE  Kept'
<1>1. ASSUME NEW n PROVE Once(n)'
  BY OnceStep DEF Kept
<1>2. ASSUME NEW y \in All, NEW i \in DOMAIN stack'[y], NEW n, NEW to, WaitsFor(stack'[y][i], n, to)
      PROVE  Pending(n, to)'
  <2>1. InSend(y, n)'
    BY <1>2, InSendIs DEF WaitsFor, Waiting, IsSend
  <2>2. CASE \E j \in DOMAIN stack[y] : WaitsFor(stack[y][j], n, to)
    <3>1. Pending(n, to) /\ to \in Threads
      BY <2>2, WaitsTypes DEF Kept, Remembers
    <3> QED
      BY <3>1, <2>1
  <2>3. CASE \E a \in DOMAIN sendlist_'[to] : sendlist_'[to][a].n = n
    BY <2>3 DEF Pending
  <2> QED
    BY <1>2, <2>2, <2>3, WaitsBefore
<1> QED
  BY <1>1, <1>2 DEF Kept, Remembers

(* What is pending remains so, if it does where this step touches it.      *)
LEMMA PendingStep ==
    ASSUME Typed, NEW x \in All, Carries(x), NEW n, NEW to \in Threads, Pending(n, to),
           n \in ready => n \in ready',
           \A a \in DOMAIN sendlist_[to] : sendlist_[to][a].n = n => Pending(n, to)',
           1 \in DOMAIN stack[x] /\ Answering(stack[x][1], n) => Pending(n, to)'
    PROVE  Pending(n, to)'
<1>1. PICK k \in 0 .. 2, d \in {-1, 0, 1} : Moved(x, k, d) /\ k + d \in {0, 1}
  BY DEF Carries
<1>2. CASE n \in ready
  BY <1>2 DEF Pending
<1>3. CASE \E a \in DOMAIN sendlist_[to] : sendlist_[to][a].n = n
  BY <1>3
<1>4. ASSUME NEW i \in DOMAIN stack[to], Answering(stack[to][i], n) PROVE Pending(n, to)'
  <2>1. to \in All
    BY DEF All
  <2>2. CASE to # x
    BY <1>1, <1>4, <2>1, <2>2 DEF Moved, Pending
  <2>3. CASE to = x
    <3>1. i \in Nat /\ i >= 1
      BY <2>1, Positions DEF Typed, TypeInv
    <3>2. CASE i = 1
      BY <3>2, <2>3, <1>4
    <3>3. CASE i > 1
      <4>1. i > k + d
        BY <3>1, <3>3, <1>1
      <4>2. i - d \in DOMAIN stack'[x] /\ stack'[x][i - d] = stack[x][i]
        BY <4>1, <1>1, <2>3 DEF Moved
      <4> QED
        BY <4>2, <1>4, <2>3 DEF Pending
    <3> QED
      BY <3>1, <3>2, <3>3
  <2> QED
    BY <2>2, <2>3
<1> QED
  BY <1>2, <1>3, <1>4 DEF Pending

(* Nothing is taken from a list.                                           *)
Grows == \A t \in Threads : \A a \in DOMAIN sendlist_[t] :
            \E b \in DOMAIN sendlist_'[t] : sendlist_'[t][b] = sendlist_[t][a]

(* Steps that take nothing from a list and answer no send.                 *)
LEMMA KeptQuiet ==
    ASSUME Typed, Kept, NEW x \in All, Carries(x), ready' = ready, Grows,
           1 \in DOMAIN stack[x] => ~Is(stack[x][1], "ReceiveSends", "reply")
    PROVE  Kept'
<1>1. ASSUME NEW n, NEW to \in Threads, Pending(n, to)
      PROVE  Pending(n, to)'
  <2>1. \A a \in DOMAIN sendlist_[to] : sendlist_[to][a].n = n => Pending(n, to)'
    BY DEF Grows, Pending
  <2>2. 1 \in DOMAIN stack[x] => ~Answering(stack[x][1], n)
    BY DEF Answering, Is
  <2> QED
    BY <1>1, <2>1, <2>2, PendingStep
<1> QED
  BY <1>1, RemembersStep

(* A new Send has a number that nobody has.                                *)
LEMMA SendCallKept ==
    ASSUME Typed, Sends, Kept, NEW x \in All, NEW to \in Threads, NEW h \in Handlers,
           SendCall(x, to, h)
    PROVE  Kept'
<1>1. /\ Moved(x, 1, -1)
      /\ to = x => Is(stack'[x][1], "OnMessage", "body")
      /\ to # x => Is(stack'[x][1], "Send", "enter") /\ stack'[x][1].n = sends + 1
  <2>1. /\ Moved(x, 1, -1) /\ sends + 1 \in SendIds
        /\ to = x => Is(stack'[x][1], "OnMessage", "body")
        /\ to # x => /\ Is(stack'[x][1], "Send", "enter") /\ stack'[x][1].n = sends + 1
                     /\ stack'[x][1].to = to /\ stack'[x][1].h = h
                     /\ stack'[x][1].waited = FALSE
    BY SendCallMoves, Zenon
  <2> QED
    BY ONLY <2>1, Zenon
<1>2. /\ MayCall(x) /\ UNCHANGED <<ready, sendlist_>> /\ sends \in Nat
  BY LoadTypes DEF SendCall, queues, Typed, TypeInv
<1>3. PICK n0 : n0 = sends + 1
  OBVIOUS
<1>4. ~InSend(x, n0)
  <2>1. OneSender(n0)
    BY DEF Sends, SendOk
  <2>2. ~(n0 <= sends)
    BY ONLY <1>2, <1>3
  <2> QED
    BY <2>1, <2>2 DEF OneSender
<1>5. Carries(x)
  <2>1. CASE to = x
    BY <2>1, <1>1, CarriesEnters DEF Is
  <2>2. CASE to # x
    <3>1. Fresh(x, stack'[x][1])
      BY <2>2, <1>1, <1>3, <1>4 DEF Fresh, Waiting, Is
    <3> QED
      BY <3>1, <1>1, CarriesEnters
  <2> QED
    BY <2>1, <2>2
<1>6. 1 \in DOMAIN stack[x] => ~Is(stack[x][1], "ReceiveSends", "reply")
  BY <1>2, MayCallTop DEF Is
<1>7. ready' = ready /\ Grows
  BY <1>2 DEF Grows
<1> QED
  BY <1>5, <1>6, <1>7, KeptQuiet

(* What a Send delivers is in the list.                                    *)
LEMMA DeliverKept ==
    ASSUME Typed, Kept, NEW x \in All, NEW a \in {"enter", "add"}, In(x, "Send", a), Deliver(x),
           UNCHANGED ready
    PROVE  Kept'
<1>1. /\ 1 \in DOMAIN stack[x] /\ Head(stack[x]) = stack[x][1] /\ stack[x][1] \in SendFrame
      /\ Is(stack[x][1], "Send", a)
  BY TopTypes, FrameKinds DEF Is
<1>2. /\ Moved(x, 1, 0) /\ Is(stack'[x][1], "Send", "wake") /\ stack'[x][1].n = stack[x][1].n
      /\ stack'[x][1].to = stack[x][1].to
  BY <1>1, DeliverMoves DEF Is
<1>3. PICK q \in Threads, n0 \in SendIds, h \in Handlers :
        q = stack[x][1].to /\ n0 = stack[x][1].n /\ h = stack[x][1].h
  BY <1>1 DEF SendFrame
<1>4. sendlist_' = [sendlist_ EXCEPT ![q] = Append(@, [n |-> n0, from |-> x, h |-> h])]
  BY <1>1, <1>3, Zenon DEF Deliver, Is
<1>5. /\ Grows /\ \E b \in DOMAIN sendlist_'[q] : sendlist_'[q][b].n = n0
  <2> DEFINE m == [n |-> n0, from |-> x, h |-> h]
  <2>1. m \in SendMsg /\ m.n = n0
    BY DEF SendMsg
  <2>2. sendlist_ \in [Threads -> Seq(SendMsg)] /\ sendlist_[q] \in Seq(SendMsg)
    BY DEF Typed, TypeInv
  <2>3. sendlist_' = [sendlist_ EXCEPT ![q] = Append(@, m)]
    BY <1>4
  <2> HIDE DEF m
  <2>4. /\ sendlist_'[q] = Append(sendlist_[q], m)
        /\ \A t \in Threads : t # q => sendlist_'[t] = sendlist_[t]
    BY <2>2, <2>3
  <2>5. /\ Len(sendlist_[q]) + 1 \in DOMAIN sendlist_'[q]
        /\ sendlist_'[q][Len(sendlist_[q]) + 1] = m
        /\ \A i \in DOMAIN sendlist_[q] : i \in DOMAIN sendlist_'[q] /\ sendlist_'[q][i] = sendlist_[q][i]
    BY <2>1, <2>2, <2>4
  <2>6. Grows
    BY <2>4, <2>5 DEF Grows
  <2> QED
    BY <2>1, <2>5, <2>6
<1>6. Resumed(x, stack'[x][1])
  BY <1>1, <1>2, <1>3, <1>5 DEF Resumed, IsSend, Is
<1>7. Carries(x)
  BY <1>2, <1>6, CarriesGoes
<1>8. ~Is(stack[x][1], "ReceiveSends", "reply") /\ ready' = ready
  BY <1>1 DEF Is
<1> QED
  BY <1>5, <1>7, <1>8, KeptQuiet

(* A Post changes no send.                                                 *)
LEMMA PostKept ==
    ASSUME Typed, Kept, NEW x \in All, NEW a \in {"enter", "add"}, In(x, "Post", a), Deliver(x),
           UNCHANGED ready
    PROVE  Kept'
<1>1. /\ 1 \in DOMAIN stack[x] /\ stack[x][1].call = "Post" /\ Head(stack[x]) = stack[x][1]
  BY TopTypes DEF Is
<1>2. Moved(x, 0, 1) /\ UNCHANGED sendlist_
  BY <1>1, DeliverMoves, Zenon DEF Deliver
<1>3. Carries(x) /\ Grows /\ ready' = ready /\ ~Is(stack[x][1], "ReceiveSends", "reply")
  BY <1>1, <1>2, CarriesReturns DEF Grows, Is
<1> QED
  BY <1>3, KeptQuiet

(* A send that is taken from the list is answered.                         *)
LEMMA NextSendKept ==
    ASSUME Typed, Kept, NEW x \in All, NEW a \in {"next", "signal"}, In(x, "ReceiveSends", a),
           NextSend(x), UNCHANGED ready
    PROVE  Kept'
<1>1. /\ 1 \in DOMAIN stack[x] /\ Is(stack[x][1], "ReceiveSends", a) /\ x \in Threads
  BY NextSendMoves
<1>2. ~Is(stack[x][1], "ReceiveSends", "reply") /\ ready' = ready
  BY <1>1 DEF Is
<1>3. CASE sendlist_[x] = <<>>
  <2>1. Moved(x, 0, 1) /\ UNCHANGED sendlist_
    BY <1>3, NextSendMoves DEF NextSend
  <2>2. Carries(x) /\ Grows
    BY <2>1, CarriesReturns DEF Grows
  <2> QED
    BY <2>2, <1>2, KeptQuiet
<1>4. CASE sendlist_[x] # <<>>
  <2>1. /\ Moved(x, 2, -1) /\ Is(stack'[x][1], "OnMessage", "body")
        /\ Is(stack'[x][2], "ReceiveSends", "reply")
        /\ 1 \in DOMAIN sendlist_[x] /\ stack'[x][2].n = sendlist_[x][1].n
        /\ sendlist_' = [sendlist_ EXCEPT ![x] = Tail(@)]
    BY <1>4, NextSendMoves DEF NextSend
  <2>2. Carries(x)
    BY <2>1, CarriesCalls DEF Is
  <2>3. 2 \in DOMAIN stack'[x]
    <3>1. 2 \in 1 .. 2
      OBVIOUS
    <3> QED
      BY <3>1, <2>1 DEF Moved
  <2>4. /\ \A t \in Threads : t # x => sendlist_'[t] = sendlist_[t]
        /\ \A i \in DOMAIN sendlist_[x] : i # 1 => i - 1 \in DOMAIN sendlist_'[x]
                                                 /\ sendlist_'[x][i - 1] = sendlist_[x][i]
    <3>1. sendlist_ \in [Threads -> Seq(SendMsg)] /\ sendlist_[x] \in Seq(SendMsg)
      BY <1>1 DEF Typed, TypeInv
    <3>2. /\ sendlist_'[x] = Tail(sendlist_[x])
          /\ \A t \in Threads : t # x => sendlist_'[t] = sendlist_[t]
      BY <3>1, <2>1, <1>1
    <3>3. \A i \in DOMAIN sendlist_[x] : i # 1 => i - 1 \in DOMAIN sendlist_'[x]
                                                 /\ sendlist_'[x][i - 1] = sendlist_[x][i]
      BY <3>1, <3>2, <1>4
    <3> QED
      BY <3>2, <3>3
  <2>5. ASSUME NEW n, NEW to \in Threads, Pending(n, to) PROVE Pending(n, to)'
    <3>1. ASSUME NEW i \in DOMAIN sendlist_[to], sendlist_[to][i].n = n PROVE Pending(n, to)'
      <4>1. CASE to # x
        BY <4>1, <3>1, <2>4 DEF Pending
      <4>2. CASE to = x /\ i # 1
        BY <4>2, <3>1, <2>4 DEF Pending
      <4>3. CASE to = x /\ i = 1
        <5>1. Answering(stack'[x][2], n)
          BY <4>3, <3>1, <2>1 DEF Answering, Is
        <5> QED
          BY <5>1, <4>3, <2>3 DEF Pending
      <4> QED
        BY <4>1, <4>2, <4>3
    <3>2. ~Answering(stack[x][1], n)
      BY <1>2 DEF Answering, Is
    <3> QED
      BY <3>1, <3>2, <2>2, <2>5, <1>2, PendingStep
  <2> QED
    BY <2>2, <2>5, RemembersStep
<1> QED
  BY <1>3, <1>4

(* What is cleared is told.                                                *)
LEMMA ClearKept ==
    ASSUME Typed, Kept, NEW x \in All, Carries(x),
           1 \in DOMAIN stack[x] => ~Is(stack[x][1], "ReceiveSends", "reply"),
           NEW q \in Threads, NEW hs, ClearOne(q, hs)
    PROVE  Kept'
<1>1. /\ ready' = ready \cup {smsg.n : smsg \in Removed(q, hs)}
      /\ sendlist_' = [sendlist_ EXCEPT ![q] = Keep(@, hs)]
  BY DEF ClearOne
<1>2. sendlist_ \in [Threads -> Seq(SendMsg)] /\ sendlist_[q] \in Seq(SendMsg)
  BY DEF Typed, TypeInv
<1>3. /\ sendlist_'[q] = Keep(sendlist_[q], hs)
      /\ \A t \in Threads : t # q => sendlist_'[t] = sendlist_[t]
  BY <1>1, <1>2
<1>4. \A j \in DOMAIN sendlist_[q] : sendlist_[q][j].h \notin hs =>
        \E i \in DOMAIN sendlist_'[q] : sendlist_'[q][i] = sendlist_[q][j]
  BY <1>2, <1>3, KeepElements
<1>5. \A j \in DOMAIN sendlist_[q] : sendlist_[q][j].h \in hs => sendlist_[q][j].n \in ready'
  <2>1. \A j \in DOMAIN sendlist_[q] : sendlist_[q][j].h \in hs => sendlist_[q][j] \in Removed(q, hs)
    BY DEF Removed
  <2> QED
    BY <2>1, <1>1
<1>6. ASSUME NEW n, NEW to \in Threads, Pending(n, to) PROVE Pending(n, to)'
  <2>1. n \in ready => n \in ready'
    BY <1>1
  <2>2. ASSUME NEW j \in DOMAIN sendlist_[to], sendlist_[to][j].n = n PROVE Pending(n, to)'
    <3>1. CASE to # q
      BY <3>1, <2>2, <1>3 DEF Pending
    <3>2. CASE to = q /\ sendlist_[q][j].h \in hs
      BY <3>2, <2>2, <1>5 DEF Pending
    <3>3. CASE to = q /\ sendlist_[q][j].h \notin hs
      BY <3>3, <2>2, <1>4 DEF Pending
    <3> QED
      BY <3>1, <3>2, <3>3
  <2>3. 1 \in DOMAIN stack[x] => ~Answering(stack[x][1], n)
    BY DEF Answering, Is
  <2> QED
    BY <2>1, <2>2, <2>3, <1>6, PendingStep
<1> QED
  BY <1>6, RemembersStep

(* The sender whose handler has run is told.                               *)
LEMMA ReceiveRepliesKept ==
    ASSUME Typed, Kept, NEW x \in All, ReceiveReplies(x)
    PROVE  Kept'
<1>1. /\ Moved(x, 1, 0) /\ Is(stack'[x][1], "ReceiveSends", "signal")
      /\ Head(stack[x]) = stack[x][1]
  BY ReceiveRepliesMoves
<1>2. ready' = ready \cup {stack[x][1].n} /\ UNCHANGED sendlist_
  BY <1>1 DEF ReceiveReplies
<1>3. Carries(x)
  BY <1>1, CarriesGoes DEF Is
<1>4. ASSUME NEW n, NEW to \in Threads, Pending(n, to) PROVE Pending(n, to)'
  <2>1. \A a \in DOMAIN sendlist_[to] : sendlist_[to][a].n = n => Pending(n, to)'
    BY <1>2 DEF Pending
  <2>2. Answering(stack[x][1], n) => Pending(n, to)'
    BY <1>2 DEF Pending, Answering
  <2>3. n \in ready => n \in ready'
    BY <1>2
  <2> QED
    BY <2>1, <2>2, <2>3, <1>3, <1>4, PendingStep
<1> QED
  BY <1>3, <1>4, RemembersStep

(* A Send that returns takes its flag with it: nobody else waits for it.   *)
LEMMA SendReturnsKept ==
    ASSUME Typed, Sends, Kept, NEW x \in All, SendReturns(x)
    PROVE  Kept'
<1>1. /\ 1 \in DOMAIN stack[x] /\ Is(stack[x][1], "Send", "test") /\ Moved(x, 0, 1)
      /\ Head(stack[x]) = stack[x][1]
  BY SendReturnsMoves
<1>2. PICK n0 : n0 = stack[x][1].n
  OBVIOUS
<1>3. ready' = ready \ {n0} /\ UNCHANGED sendlist_
  BY <1>1, <1>2 DEF SendReturns, queues
<1>4. Carries(x)
  BY <1>1, CarriesReturns
<1>5. IsSend(stack[x][1], n0) /\ InSend(x, n0)
  BY <1>1, <1>2, InSendIs DEF IsSend, Is
<1>6. ASSUME NEW y \in All, InSend(y, n0)' PROVE FALSE
  <2>1. InSend(y, n0)
    BY <1>1, <1>6, SendsReturn
  <2>2. OneSender(n0) /\ Once(n0)
    BY DEF Sends, SendOk, Kept
  <2>3. y = x
    BY <2>1, <2>2, <1>5 DEF OneSender
  <2>4. (\A i \in 1 .. 0 : FALSE) /\ 0 \in 0 .. 2 /\ 1 \in {-1, 0, 1} /\ 0 + 1 = 1 /\ ~(1 > 1)
    OBVIOUS
  <2>5. PICK j \in DOMAIN stack[x] : j > 0 + 1 /\ IsSend(stack[x][j], n0)
    BY <2>3, <2>4, <1>1, <1>6, InSendMoved
  <2>6. j = 1
    BY <2>2, <2>5, <1>1, <1>5 DEF Once
  <2> QED
    BY <2>4, <2>5, <2>6
<1>7. ASSUME NEW n, NEW to \in Threads, Pending(n, to), \E y \in All : InSend(y, n)'
      PROVE  Pending(n, to)'
  <2>1. n # n0
    BY <1>6, <1>7
  <2>2. n \in ready => n \in ready'
    BY <2>1, <1>3
  <2>3. \A a \in DOMAIN sendlist_[to] : sendlist_[to][a].n = n => Pending(n, to)'
    BY <1>3 DEF Pending
  <2>4. ~Answering(stack[x][1], n)
    BY <1>1 DEF Answering, Is
  <2> QED
    BY <2>2, <2>3, <2>4, <1>4, <1>7, PendingStep
<1> QED
  BY <1>4, <1>7, RemembersStep

(* Steps that move no stack, take nothing from a list and answer no send.  *)
LEMMA KeptStays == ASSUME Kept, UNCHANGED <<stack, ready, sendlist_>> PROVE Kept'
<1>1. \A n, to : Pending(n, to)' <=> Pending(n, to)
  BY DEF Pending
<1>2. \A n : Once(n)' <=> Once(n)
  BY DEF Once
<1> QED
  BY <1>1, <1>2 DEF Kept, Remembers

(* Every step keeps what Kept says.                                        *)
LEMMA KeptStep ==
    ASSUME Typed, Sends, Kept, [Next]_vars
    PROVE  Kept'
<1>1. ASSUME NEW x \in All, NEW h \in alive, NEW to \in Threads, SendCall(x, to, h) PROVE Kept'
  <2>1. h \in Handlers
    BY <1>1 DEF Typed, TypeInv
  <2> QED
    BY <1>1, <2>1, SendCallKept
<1>2. ASSUME NEW x \in All, NEW h \in alive, NEW to \in Threads, PostCall(x, to, h) PROVE Kept'
  <2>1. Typed /\ h \in Handlers /\ MayCall(x) /\ ready' = ready /\ UNCHANGED sendlist_
    BY <1>2 DEF Typed, TypeInv, PostCall, queues
  <2>2. Carries(x)
    BY <1>2, <2>1, PostCallMoves, CarriesEnters DEF Is
  <2>3. 1 \in DOMAIN stack[x] => ~Is(stack[x][1], "ReceiveSends", "reply")
    BY <2>1, MayCallTop DEF Is
  <2>4. Grows
    BY <2>1 DEF Grows
  <2> QED
    BY <2>1, <2>2, <2>3, <2>4, KeptQuiet
<1>3. ASSUME NEW x \in All, NEW h \in alive, ClearCall(x, h) PROVE Kept'
  <2>1. Typed /\ h \in Handlers /\ MayCall(x) /\ ready' = ready /\ UNCHANGED sendlist_
    BY <1>3 DEF Typed, TypeInv, ClearCall, queues
  <2>2. Carries(x)
    BY <1>3, <2>1, ClearCallMoves, CarriesEnters DEF Is
  <2>3. 1 \in DOMAIN stack[x] => ~Is(stack[x][1], "ReceiveSends", "reply")
    BY <2>1, MayCallTop DEF Is
  <2>4. Grows
    BY <2>1 DEF Grows
  <2> QED
    BY <2>1, <2>2, <2>3, <2>4, KeptQuiet
<1>4. ASSUME NEW x \in All, OnMessageReturns(x) PROVE Kept'
  <2>1. ready' = ready /\ Grows
    BY <1>4 DEF OnMessageReturns, queues, Grows
  <2>2. 1 \in DOMAIN stack[x] => ~Is(stack[x][1], "ReceiveSends", "reply")
    BY <1>4, OnMessageReturnsMoves DEF Is
  <2>3. Carries(x)
    BY <1>4, OnMessageReturnsMoves, CarriesReturns
  <2> QED
    BY <2>1, <2>2, <2>3, KeptQuiet
<1>5. ASSUME NEW x \in All, EnterActive(x) PROVE Kept'
  <2>1. (In(x, "Send", "enter") \/ In(x, "Post", "enter")) /\ Deliver(x) /\ UNCHANGED ready
    BY <1>5 DEF EnterActive, Entering
  <2> QED
    BY <2>1, DeliverKept, PostKept
<1>6. ASSUME NEW x \in All, EnsureActive(x) PROVE Kept'
  <2>1. ready' = ready /\ Grows
    BY <1>6 DEF EnsureActive, Grows
  <2>2. /\ 1 \in DOMAIN stack[x] /\ Moved(x, 1, 0)
        /\ Is(stack[x][1], "Send", "enter") \/ Is(stack[x][1], "Post", "enter")
        /\ Is(stack'[x][1], stack[x][1].call, "add") /\ stack'[x][1].n = stack[x][1].n
        /\ stack'[x][1].to = stack[x][1].to
    BY <1>6, EnsureActiveMoves
  <2>3. ~Is(stack[x][1], "ReceiveSends", "reply")
    BY <2>2 DEF Is
  <2>4. stack'[x][1].call # "Send" \/ Resumed(x, stack'[x][1])
    BY <2>2 DEF Resumed, Waiting, IsSend, Is
  <2>5. Carries(x)
    BY <2>2, <2>4, CarriesGoes
  <2> QED
    BY <2>1, <2>3, <2>5, KeptQuiet
<1>7. ASSUME NEW x \in All, Add(x) PROVE Kept'
  <2>1. (In(x, "Send", "add") \/ In(x, "Post", "add")) /\ Deliver(x) /\ UNCHANGED ready
    BY <1>7 DEF Add, Entering
  <2> QED
    BY <2>1, DeliverKept, PostKept
<1>8. ASSUME NEW x \in All, SendWakes(x) PROVE Kept'
  <2>1. ready' = ready /\ Grows
    BY <1>8 DEF SendWakes, queues, Grows
  <2>2. 1 \in DOMAIN stack[x] => ~Is(stack[x][1], "ReceiveSends", "reply")
    BY <1>8, SendWakesMoves DEF Is
  <2>3. Carries(x)
    <3>1. Resumed(x, stack'[x][1])
      BY <1>8, SendWakesMoves DEF Resumed, Waiting, IsSend, Is
    <3> QED
      BY <3>1, <1>8, SendWakesMoves, CarriesGoes DEF Is
  <2> QED
    BY <2>1, <2>2, <2>3, KeptQuiet
<1>9. ASSUME NEW x \in All, SendTests(x) PROVE Kept'
  <2>1. ready' = ready /\ Grows
    BY <1>9 DEF SendTests, queues, Grows
  <2>2. 1 \in DOMAIN stack[x] => ~Is(stack[x][1], "ReceiveSends", "reply")
    BY <1>9, SendTestsMoves DEF Is
  <2>3. Carries(x)
    <3>1. Resumed(x, stack'[x][2])
      BY <1>9, SendTestsMoves DEF Resumed, Waiting, IsSend, Is
    <3> QED
      BY <3>1, <1>9, SendTestsMoves, CarriesCalls DEF Is
  <2> QED
    BY <2>1, <2>2, <2>3, KeptQuiet
<1>10. ASSUME NEW x \in All, SendWaits(x) PROVE Kept'
  <2>1. ready' = ready /\ Grows
    BY <1>10 DEF SendWaits, queues, Grows
  <2>2. 1 \in DOMAIN stack[x] => ~Is(stack[x][1], "ReceiveSends", "reply")
    BY <1>10, SendWaitsMoves DEF Is
  <2>3. Carries(x)
    <3>1. Resumed(x, stack'[x][1])
      BY <1>10, SendWaitsMoves DEF Resumed, Waiting, IsSend, Is
    <3> QED
      BY <3>1, <1>10, SendWaitsMoves, CarriesGoes DEF Is
  <2> QED
    BY <2>1, <2>2, <2>3, KeptQuiet
<1>11. ASSUME NEW x \in All, SendReturns(x) PROVE Kept'
  BY <1>11, SendReturnsKept
<1>12. ASSUME NEW x \in All, ReceiveChecks(x) PROVE Kept'
  <2>1. ready' = ready /\ Grows
    BY <1>12 DEF ReceiveChecks, queues, Grows
  <2>2. 1 \in DOMAIN stack[x] => ~Is(stack[x][1], "ReceiveSends", "reply")
    BY <1>12, ReceiveChecksMoves DEF Is
  <2>3. Carries(x)
    <3>1. CASE ~has_sends_[x]
      BY <1>12, <3>1, ReceiveChecksMoves, CarriesReturns DEF Is
    <3>2. CASE has_sends_[x]
      BY <1>12, <3>2, ReceiveChecksMoves, CarriesGoes DEF Is
    <3> QED
      BY <3>1, <3>2
  <2> QED
    BY <2>1, <2>2, <2>3, KeptQuiet
<1>13. ASSUME NEW x \in All, ReceiveEnters(x) PROVE Kept'
  <2>1. In(x, "ReceiveSends", "next") /\ NextSend(x) /\ UNCHANGED ready
    BY <1>13 DEF ReceiveEnters
  <2> QED
    BY <2>1, NextSendKept
<1>14. ASSUME NEW x \in All, ReceiveReplies(x) PROVE Kept'
  BY <1>14, ReceiveRepliesKept
<1>15. ASSUME NEW x \in All, ReceiveSignals(x) PROVE Kept'
  <2>1. In(x, "ReceiveSends", "signal") /\ NextSend(x) /\ UNCHANGED ready
    BY <1>15 DEF ReceiveSignals
  <2> QED
    BY <2>1, NextSendKept
<1>16. ASSUME NEW x \in All, ClearNext(x) PROVE Kept'
  <2>1. /\ 1 \in DOMAIN stack[x] /\ Is(stack[x][1], "Clear", "next") /\ Head(stack[x]) = stack[x][1]
        /\ stack[x][1].todo \in Seq(Threads)
    BY <1>16, ClearNextMoves
  <2>2. ~Is(stack[x][1], "ReceiveSends", "reply")
    BY <2>1 DEF Is
  <2>3. CASE stack[x][1].todo = <<>>
    <3>1. Moved(x, 0, 1) /\ ready' = ready /\ UNCHANGED sendlist_
      BY <1>16, <2>1, <2>3, ClearNextMoves DEF ClearNext, queues
    <3>2. Carries(x) /\ Grows
      BY <3>1, CarriesReturns DEF Grows
    <3> QED
      BY <3>1, <3>2, <2>2, KeptQuiet
  <2>4. CASE stack[x][1].todo # <<>>
    <3>1. PICK q \in Threads : q = Head(stack[x][1].todo)
      BY <2>1, <2>4
    <3>2. /\ Moved(x, 1, 0) /\ Is(stack'[x][1], "Clear", "next") /\ ClearOne(q, {stack[x][1].h})
      BY <1>16, <2>1, <2>4, <3>1, ClearNextMoves DEF ClearNext
    <3>3. Carries(x)
      BY <3>2, CarriesGoes DEF Is
    <3> QED
      BY <3>2, <3>3, <2>2, ClearKept
  <2> QED
    BY <2>3, <2>4
<1>17. ASSUME NEW x \in All, GetReceives(x) PROVE Kept'
  <2>1. ready' = ready /\ Grows
    BY <1>17 DEF GetReceives, queues, Grows
  <2>2. 1 \in DOMAIN stack[x] => ~Is(stack[x][1], "ReceiveSends", "reply")
    BY <1>17, GetReceivesMoves DEF Is
  <2>3. Carries(x)
    <3>1. CASE ~has_sends_[x]
      BY <1>17, <3>1, GetReceivesMoves, CarriesGoes DEF Is
    <3>2. CASE has_sends_[x]
      BY <1>17, <3>2, GetReceivesMoves, CarriesCalls DEF Is
    <3> QED
      BY <3>1, <3>2
  <2> QED
    BY <2>1, <2>2, <2>3, KeptQuiet
<1>18. ASSUME NEW x \in All, GetPops(x) PROVE Kept'
  <2>1. ready' = ready /\ Grows
    BY <1>18 DEF GetPops, queues, Grows
  <2>2. 1 \in DOMAIN stack[x] => ~Is(stack[x][1], "ReceiveSends", "reply")
    BY <1>18, GetPopsMoves DEF Is
  <2>3. Carries(x)
    <3>1. CASE msgq_[x] = <<>>
      BY <1>18, <3>1, GetPopsMoves, CarriesGoes DEF Is
    <3>2. CASE msgq_[x] # <<>>
      BY <1>18, <3>2, GetPopsMoves, CarriesCalls DEF Is
    <3> QED
      BY <3>1, <3>2
  <2> QED
    BY <2>1, <2>2, <2>3, KeptQuiet
<1>19. ASSUME NEW x \in All, GetStops(x) PROVE Kept'
  <2>1. ready' = ready /\ Grows
    BY <1>19 DEF GetStops, queues, Grows
  <2>2. 1 \in DOMAIN stack[x] => ~Is(stack[x][1], "ReceiveSends", "reply")
    BY <1>19, GetStopsMoves DEF Is
  <2>3. Carries(x)
    <3>1. CASE fStop_[x]
      BY <1>19, <3>1, GetStopsMoves, CarriesReturns DEF Is
    <3>2. CASE ~fStop_[x]
      BY <1>19, <3>2, GetStopsMoves, CarriesGoes DEF Is
    <3> QED
      BY <3>1, <3>2
  <2> QED
    BY <2>1, <2>2, <2>3, KeptQuiet
<1>20. ASSUME NEW x \in All, GetWaits(x) PROVE Kept'
  <2>1. ready' = ready /\ Grows
    BY <1>20 DEF GetWaits, queues, Grows
  <2>2. 1 \in DOMAIN stack[x] => ~Is(stack[x][1], "ReceiveSends", "reply")
    BY <1>20, GetWaitsMoves DEF Is
  <2>3. Carries(x)
    BY <1>20, GetWaitsMoves, CarriesGoes DEF Is
  <2> QED
    BY <2>1, <2>2, <2>3, KeptQuiet
<1>21. ASSUME NEW t \in Threads, QuitSets(t) PROVE Kept'
  <2>1. UNCHANGED <<stack, ready, sendlist_>>
    BY <1>21 DEF QuitSets, queues
  <2> QED
    BY <2>1, KeptStays
<1>22. ASSUME NEW t \in Threads, QuitWakes(t) PROVE Kept'
  <2>1. UNCHANGED <<stack, ready, sendlist_>>
    BY <1>22 DEF QuitWakes, queues
  <2> QED
    BY <2>1, KeptStays
<1>23. ASSUME NEW t \in Threads, Joins(t) PROVE Kept'
  <2>1. UNCHANGED stack /\ t \in All /\ stack[t] = <<>>
    BY <1>23 DEF Joins, All
  <2>2. CASE active_[t]
    <3>1. ClearOne(t, Handlers)
      BY <1>23, <2>2 DEF Joins
    <3>2. Moved(t, 0, 0) /\ 1 \notin DOMAIN stack[t]
      BY <2>1, StaysMoves
    <3>3. Carries(t)
      BY <3>2, <2>1, CarriesReturns
    <3> QED
      BY <3>1, <3>2, <3>3, <2>1, ClearKept
  <2>3. CASE ~active_[t]
    <3>1. UNCHANGED <<stack, ready, sendlist_>>
      BY <1>23, <2>3 DEF Joins
    <3> QED
      BY <3>1, KeptStays
  <2> QED
    BY <2>2, <2>3
<1>24. ASSUME NEW t \in Threads, Removes(t) PROVE Kept'
  <2>1. UNCHANGED <<stack, ready, sendlist_>>
    BY <1>24 DEF Removes, queues
  <2> QED
    BY <2>1, KeptStays
<1>25. CASE UNCHANGED vars
  BY <1>25, KeptStays DEF vars, queues
<1> QED
  BY <1>1, <1>2, <1>3, <1>4, <1>5, <1>6, <1>7, <1>8, <1>9, <1>10, <1>11, <1>12, <1>13,
     <1>14, <1>15, <1>16, <1>17, <1>18, <1>19, <1>20, <1>21, <1>22, <1>23, <1>24,
     <1>25
     DEF Next, Call, Step, Destroy

(* At first nobody is in a Send.                                           *)
LEMMA KeptInit == Init => Kept
<1> SUFFICES ASSUME Init PROVE Kept
  OBVIOUS
<1>1. \A x \in All : stack[x] = IF x \in Threads THEN <<Loop("get")>> ELSE <<>>
  BY DEF Init
<1>2. \A x \in All : \A i \in DOMAIN stack[x] : stack[x][i].call = "ProcessMessages"
  BY <1>1 DEF Loop
<1> QED
  BY <1>2 DEF Kept, Once, Remembers, IsSend, WaitsFor, Waiting

(* The flag ready that will be set for a send exists, as its sender is     *)
(* still inside that Send, and has not been set: whatever calls are nested *)
(* in one another, and whichever of them are cleared.  And no sender is    *)
(* forgotten: until it is told, its send is queued or its handler runs.    *)
THEOREM SenderWaitsHolds == Spec => []SenderWaits
<1>1. Init => Typed /\ Sends /\ Kept
  BY TypedInit, SendsInit, KeptInit
<1>2. Typed /\ Sends /\ Kept /\ [Next]_vars => Typed' /\ Sends' /\ Kept'
  BY TypedStep, SendsStep, KeptStep
<1>3. Typed /\ Sends /\ Kept => SenderWaits
  <2> SUFFICES ASSUME Typed, Sends, Kept PROVE SenderWaits
    OBVIOUS
  <2>1. ASSUME NEW t \in Threads, NEW i \in DOMAIN sendlist_[t]
        PROVE  InSend(sendlist_[t][i].from, sendlist_[t][i].n) /\ sendlist_[t][i].n \notin ready
    <3>1. PICK n : n = sendlist_[t][i].n
      OBVIOUS
    <3>2. Listed(n)
      BY DEF Sends, SendOk
    <3> QED
      BY <3>1, <3>2 DEF Listed
  <2>2. ASSUME NEW t \in Threads, NEW f \in Frames(t), f.call = "ReceiveSends", f.at = "reply"
        PROVE  InSend(f.from, f.n) /\ f.n \notin ready
    <3>1. PICK i \in DOMAIN stack[t] : f = stack[t][i]
      BY DEF Frames
    <3>2. Answering(stack[t][i], f.n) /\ Owed(f.n) /\ t \in All
      BY <2>2, <3>1 DEF Answering, Sends, SendOk, All
    <3> QED
      BY <3>1, <3>2 DEF Owed
  <2>3. ASSUME NEW x \in All, NEW f \in Frames(x), f.call = "Send", f.at \notin {"enter", "add"},
               f.n \notin ready
        PROVE  \/ \E i \in DOMAIN sendlist_[f.to] : sendlist_[f.to][i].n = f.n
               \/ \E g \in Frames(f.to) : g.call = "ReceiveSends" /\ g.at = "reply" /\ g.n = f.n
    <3>1. PICK i \in DOMAIN stack[x] : f = stack[x][i]
      BY <2>3 DEF Frames
    <3>2. f \in Frame
      BY <3>1, Positions DEF Typed, TypeInv
    <3>3. f \in SendFrame
      BY <3>2, <2>3, FrameKinds
    <3>4. f.at \in {"wake", "test", "wait"}
      BY <3>3, <2>3 DEF SendFrame
    <3>5. Pending(f.n, f.to)
      BY <3>1, <3>4, <2>3 DEF Kept, Remembers, WaitsFor, Waiting
    <3> QED
      BY <3>5, <2>3 DEF Pending, Answering, Frames
  <2> QED
    BY <2>1, <2>2, <2>3 DEF SenderWaits
<1> QED
  BY <1>1, <1>2, <1>3, PTL DEF Spec
-----------------------------------------------------------------------------
(* A call that is about to wake t.                                         *)
Waker(f, t) == \/ Is(f, "Send", "wake") /\ f.to = t
               \/ Is(f, "ReceiveSends", "signal") /\ f.from = t

(* A Send that has consumed a wake-up, and gives one back when it returns. *)
Waited(f) == f.call = "Send" /\ f.waited = TRUE

(* A Send whose flag ready is set while it waits, or while ReceiveSends    *)
(* runs in it, will be woken, or a Send above it gives back a wake-up.     *)
Alert(x) ==
    \A i \in DOMAIN stack[x] : Is(stack[x][i], "Send", "wait") /\ stack[x][i].n \in ready =>
        AboutToWake(x) \/ \E j \in 1 .. i - 1 : Waited(stack[x][j])

(* t has looked for what it has to do, or is about to sleep, and something *)
(* has come since.                                                         *)
Idle(t) ==
    \/ /\ sendlist_[t] # <<>>
       /\ \/ In(t, "Send", "wait") \/ In(t, "ProcessMessages", "pop")
          \/ In(t, "ProcessMessages", "stop") \/ In(t, "ProcessMessages", "wait")
    \/ /\ msgq_[t] # <<>>
       /\ In(t, "ProcessMessages", "stop") \/ In(t, "ProcessMessages", "wait")
    \/ fStop_[t] /\ In(t, "ProcessMessages", "wait")

(* The inductive invariant.                                                *)
Wakes == /\ \A t \in Threads : sendlist_[t] # <<>> => has_sends_[t]
         /\ \A x \in All : Alert(x)
         /\ \A t \in Threads : Idle(t) => AboutToWake(t)

(* AboutToWake, position by position.                                      *)
LEMMA AboutIs ==
    /\ \A t : AboutToWake(t) <=>
         \/ fSignaled_[t] \/ (t \in Threads /\ owner[t] = "quits")
         \/ \E y \in All : \E i \in DOMAIN stack[y] : Waker(stack[y][i], t)
    /\ \A t : AboutToWake(t)' <=>
         \/ fSignaled_'[t] \/ (t \in Threads /\ owner'[t] = "quits")
         \/ \E y \in All : \E i \in DOMAIN stack'[y] : Waker(stack'[y][i], t)
  BY DEF AboutToWake, Frames, Waker, Is

(* Who is about to be woken remains so, if no call that was to wake it is  *)
(* removed.                                                                *)
LEMMA SteadyMoves ==
    ASSUME Typed, NEW x \in All, NEW k \in 0 .. 2, NEW d \in {-1, 0, 1}, Moved(x, k, d),
           NEW t, AboutToWake(t),
           \A j \in DOMAIN stack[x] : j <= k + d => ~Waker(stack[x][j], t),
           fSignaled_[t] => fSignaled_'[t],
           t \in Threads /\ owner[t] = "quits" => owner'[t] = "quits"
    PROVE  AboutToWake(t)'
<1>1. CASE fSignaled_[t] \/ (t \in Threads /\ owner[t] = "quits")
  BY <1>1, AboutIs
<1>2. CASE \E y \in All : \E i \in DOMAIN stack[y] : Waker(stack[y][i], t)
  <2>1. PICK y \in All : \E i \in DOMAIN stack[y] : Waker(stack[y][i], t)
    BY <1>2
  <2>2. PICK i \in DOMAIN stack[y] : Waker(stack[y][i], t)
    BY <2>1
  <2>3. CASE y # x
    BY <2>2, <2>3, AboutIs DEF Moved
  <2>4. CASE y = x
    <3>1. i > k + d
      <4>1. i \in Nat
        BY <2>4, Positions DEF Typed, TypeInv
      <4> QED
        BY <4>1, <2>2, <2>4
    <3>2. i - d \in DOMAIN stack'[x] /\ stack'[x][i - d] = stack[x][i]
      BY <3>1, <2>4 DEF Moved
    <3> QED
      BY <3>2, <2>2, <2>4, AboutIs
  <2> QED
    BY <2>3, <2>4
<1> QED
  BY <1>1, <1>2, AboutIs

(* The sender of a send that becomes ready is about to be woken.           *)
Rouses == \A y \in All : \A n \in ready' : n \in ready \/ (InSend(y, n)' => AboutToWake(y)')

(* Among the calls that x has added is a Send that has consumed a wake-up. *)
NewCover(x, k) == \E i \in 1 .. k : Waited(stack'[x][i])

(* The calls that a step of x removes are missed by none that they cover,  *)
(* and those that it adds are not asleep.                                  *)
Covering(x, k, d) ==
    /\ \A j \in DOMAIN stack[x] : j <= k + d /\ Waited(stack[x][j]) =>
         AboutToWake(x)' \/ NewCover(x, k)
    /\ \A i \in 1 .. k : ~(Is(stack'[x][i], "Send", "wait") /\ stack'[x][i].n \in ready')

(* x may do without a wake-up: one of its calls gives it back, or it has   *)
(* no other.                                                               *)
Leaves(x, k) == (NewCover(x, k) \/ Len(stack'[x]) <= k) /\ ~Idle(x)'

(* A thread that does nothing remains alert.                               *)
LEMMA AlertOther ==
    ASSUME NEW x \in All, NEW k, NEW d, Moved(x, k, d), NEW y \in All, y # x, Alert(y),
           AboutToWake(y) => AboutToWake(y)', Rouses
    PROVE  Alert(y)'
<1>1. stack'[y] = stack[y]
  BY DEF Moved
<1> SUFFICES ASSUME NEW i \in DOMAIN stack'[y], Is(stack'[y][i], "Send", "wait"),
                    stack'[y][i].n \in ready'
             PROVE  AboutToWake(y)' \/ \E j \in 1 .. i - 1 : Waited(stack'[y][j])
  BY DEF Alert
<1>2. PICK n : n = stack[y][i].n
  OBVIOUS
<1>3. InSend(y, n)'
  BY <1>1, <1>2, InSendIs DEF IsSend, Is
<1>4. n \in ready \/ AboutToWake(y)'
  BY <1>1, <1>2, <1>3 DEF Rouses
<1> QED
  BY <1>1, <1>2, <1>4 DEF Alert

(* So does the one that does the step.                                     *)
LEMMA AlertMoved ==
    ASSUME Typed, NEW x \in All, NEW k \in 0 .. 2, NEW d \in {-1, 0, 1}, Moved(x, k, d), Alert(x),
           AboutToWake(x) => AboutToWake(x)' \/ NewCover(x, k) \/ Len(stack'[x]) <= k,
           Rouses, Covering(x, k, d)
    PROVE  Alert(x)'
<1> SUFFICES ASSUME NEW i \in DOMAIN stack'[x], Is(stack'[x][i], "Send", "wait"),
                    stack'[x][i].n \in ready', ~AboutToWake(x)'
             PROVE  \E j \in 1 .. i - 1 : Waited(stack'[x][j])
  BY DEF Alert
<1>1. /\ DOMAIN stack'[x] = 1 .. Len(stack'[x]) /\ Len(stack'[x]) \in Nat
      /\ i \in Nat /\ i >= 1 /\ i <= Len(stack'[x])
  BY PositionsNext
<1>2. i > k
  BY <1>1 DEF Covering
<1>3. CASE NewCover(x, k)
  <2>1. PICK j \in 1 .. k : Waited(stack'[x][j])
    BY <1>3 DEF NewCover
  <2>2. j \in 1 .. i - 1
    BY <1>1, <1>2
  <2> QED
    BY <2>1, <2>2
<1>4. CASE ~NewCover(x, k)
  <2>1. PICK j : j = i + d
    OBVIOUS
  <2>2. j \in DOMAIN stack[x] /\ stack'[x][i] = stack[x][j] /\ j \in Int
    <3>1. i + d \in DOMAIN stack[x] /\ stack'[x][i] = stack[x][i + d]
      BY <1>2 DEF Moved
    <3>2. j \in Int
      BY <2>1, <1>1
    <3> QED
      BY <3>1, <3>2, <2>1
  <2>3. PICK n : n = stack[x][j].n
    OBVIOUS
  <2>4. InSend(x, n)'
    BY <2>2, <2>3, InSendIs DEF IsSend, Is
  <2>5. n \in ready
    BY <2>2, <2>3, <2>4 DEF Rouses
  <2>6. ~AboutToWake(x)
    BY <1>1, <1>2, <1>4
  <2>7. PICK m \in 1 .. j - 1 : Waited(stack[x][m])
    BY <2>2, <2>3, <2>5, <2>6 DEF Alert
  <2>8. m \in DOMAIN stack[x]
    BY <2>2, <2>7, Positions DEF Typed, TypeInv
  <2>9. m > k + d
    BY <2>7, <2>8, <1>4 DEF Covering
  <2>10. m - d \in DOMAIN stack'[x] /\ stack'[x][m - d] = stack[x][m]
    BY <2>8, <2>9 DEF Moved
  <2>11. m - d \in 1 .. i - 1
    BY <2>10, <2>7, <2>1, <1>1
  <2> QED
    BY <2>10, <2>11, <2>7
<1> QED
  BY <1>3, <1>4

(* Who becomes idle is about to be woken.                                  *)
Lulls == \A t \in Threads : Idle(t)' => Idle(t) \/ AboutToWake(t)'

(* What a step has to do.                                                  *)
LEMMA WakesFrom ==
    ASSUME Typed, Wakes, NEW x \in All, NEW k \in 0 .. 2, NEW d \in {-1, 0, 1}, Moved(x, k, d),
           \A t \in Threads : sendlist_'[t] # <<>> => has_sends_'[t],
           \A y \in All : AboutToWake(y) => AboutToWake(y)' \/ (y = x /\ Leaves(x, k)),
           Rouses, Covering(x, k, d), Lulls
    PROVE  Wakes'
<1>1. ASSUME NEW y \in All PROVE Alert(y)'
  <2>1. Alert(y)
    BY DEF Wakes
  <2>2. CASE y # x
    BY <2>1, <2>2, AlertOther
  <2>3. CASE y = x
    <3>1. Alert(x) /\ (AboutToWake(x) => AboutToWake(x)' \/ NewCover(x, k) \/ Len(stack'[x]) <= k)
      BY <2>1, <2>3 DEF Leaves
    <3> QED
      BY <3>1, <2>3, AlertMoved
  <2> QED
    BY <2>2, <2>3
<1>2. ASSUME NEW t \in Threads, Idle(t)' PROVE AboutToWake(t)'
  <2>1. t \in All /\ (Idle(t) => AboutToWake(t))
    BY DEF Wakes, All
  <2>2. Idle(t) \/ AboutToWake(t)'
    BY <1>2 DEF Lulls
  <2>3. ~(t = x /\ Leaves(x, k))
    BY <1>2 DEF Leaves
  <2> QED
    BY <2>1, <2>2, <2>3
<1> QED
  BY <1>1, <1>2 DEF Wakes

(* Who does nothing does not become idle while the lists shrink.           *)
LEMMA LullsMoved ==
    ASSUME NEW x \in All, NEW k, NEW d, Moved(x, k, d), Shrinks, fStop_' = fStop_,
           x \in Threads => (Idle(x)' => Idle(x) \/ AboutToWake(x)')
    PROVE  Lulls
<1> SUFFICES ASSUME NEW t \in Threads, t # x, Idle(t)' PROVE Idle(t)
  BY DEF Lulls
<1>1. \A c, a : In(t, c, a)' <=> In(t, c, a)
  BY OthersSame DEF All
<1>2. (msgq_'[t] # <<>> => msgq_[t] # <<>>) /\ (sendlist_'[t] # <<>> => sendlist_[t] # <<>>)
  BY DEF Shrinks
<1> QED
  BY <1>1, <1>2 DEF Idle

(* A thread is not idle when it has made a call, or gone on with one that  *)
(* is neither Get nor a Send that waits, or returned to one but from       *)
(* ReceiveSends.                                                           *)
LEMMA BusyTop ==
    ASSUME NEW x \in All, NEW k \in {1, 2}, NEW d, Moved(x, k, d),
           stack'[x][1].call # "ProcessMessages" \/ stack'[x][1].at = "get",
           ~Is(stack'[x][1], "Send", "wait")
    PROVE  ~Idle(x)'
<1>1. \A c, a : In(x, c, a)' <=> Is(stack'[x][1], c, a)
  BY TopNext
<1> QED
  BY <1>1 DEF Idle, Is

(* Nobody is idle on return from another call, or with no send queued.     *)
LEMMA BusyReturns ==
    ASSUME Typed, NEW x \in All, Moved(x, 0, 1), 1 \in DOMAIN stack[x],
           stack[x][1].call # "ReceiveSends" \/ sendlist_'[x] = <<>>
    PROVE  ~Idle(x)'
<1>1. 1 \in DOMAIN stack'[x] => 2 \in DOMAIN stack[x] /\ stack'[x][1] = stack[x][2]
                                /\ ShapeAt(x, stack[x], 2) /\ Resting(stack'[x][1])
  BY ReturnedTop
<1>2. \A c, a : In(x, c, a)' => 1 \in DOMAIN stack'[x] /\ Is(stack'[x][1], c, a)
  <2>1. stack'[x] \in Seq(Frame)
    BY DEF Moved
  <2> QED
    BY <2>1, SeqFacts DEF In, Is
<1>3. ~In(x, "ProcessMessages", "stop")' /\ ~In(x, "ProcessMessages", "wait")'
  BY <1>1, <1>2 DEF Resting, Is
<1>4. In(x, "Send", "wait")' \/ In(x, "ProcessMessages", "pop")' => stack[x][1].call = "ReceiveSends"
  <2>1. In(x, "Send", "wait")' \/ In(x, "ProcessMessages", "pop")' => Serving(stack[x][2])
    BY <1>1, <1>2 DEF Serving, Is
  <2>2. ASSUME Serving(stack[x][2]), ShapeAt(x, stack[x], 2) PROVE stack[x][2 - 1].call = "ReceiveSends"
    BY <2>2 DEF ShapeAt
  <2>3. 2 - 1 = 1
    OBVIOUS
  <2> QED
    BY <2>1, <2>2, <2>3, <1>1, <1>2
<1> QED
  BY <1>3, <1>4 DEF Idle

(* The steps that remove or replace at most the innermost call.            *)
LEMMA TopOnly ==
    ASSUME Typed, NEW x \in All, NEW k \in 0 .. 2, NEW d \in {-1, 0, 1}, k + d <= 1,
           NEW j \in DOMAIN stack[x], j <= k + d
    PROVE  j = 1 /\ k + d = 1
<1>1. j \in Nat /\ j >= 1
  BY Positions DEF Typed, TypeInv
<1> QED
  BY <1>1

(* Who is about to be woken remains so, ...                                *)
LEMMA SteadyTop ==
    ASSUME Typed, NEW x \in All, NEW k \in 0 .. 2, NEW d \in {-1, 0, 1}, k + d <= 1, Moved(x, k, d),
           NEW y, AboutToWake(y), k + d = 1 => ~Waker(stack[x][1], y),
           fSignaled_[y] => fSignaled_'[y], owner' = owner
    PROVE  AboutToWake(y)'
<1>1. ASSUME NEW j \in DOMAIN stack[x], j <= k + d PROVE ~Waker(stack[x][j], y)
  <2>1. j = 1 /\ k + d = 1
    BY <1>1, TopOnly
  <2> QED
    BY <2>1
<1> QED
  BY <1>1, SteadyMoves

(* ... and what is covered remains so, when only the innermost call is     *)
(* replaced.                                                               *)
LEMMA CoveringTop ==
    ASSUME Typed, NEW x \in All, NEW k \in 0 .. 2, NEW d \in {-1, 0, 1}, k + d <= 1,
           k + d = 1 /\ Waited(stack[x][1]) => AboutToWake(x)' \/ NewCover(x, k),
           \A i \in 1 .. k : ~(Is(stack'[x][i], "Send", "wait") /\ stack'[x][i].n \in ready')
    PROVE  Covering(x, k, d)
<1>1. ASSUME NEW j \in DOMAIN stack[x], j <= k + d, Waited(stack[x][j])
      PROVE  AboutToWake(x)' \/ NewCover(x, k)
  <2>1. j = 1 /\ k + d = 1
    BY <1>1, TopOnly
  <2> QED
    BY <2>1, <1>1
<1> QED
  BY <1>1 DEF Covering

(* No send becomes ready.                                                  *)
LEMMA RousesSame == ASSUME ready' \subseteq ready PROVE Rouses
  BY DEF Rouses

(* WakeUp writes a byte and removes none.                                  *)
LEMMA WakeUpIs ==
    ASSUME Typed, NEW z \in All, WakeUp(z)
    PROVE  fSignaled_'[z] /\ \A y \in All : fSignaled_[y] => fSignaled_'[y]
<1>1. fSignaled_ \in [All -> BOOLEAN]
  BY DEF Typed, TypeInv
<1> QED
  BY <1>1 DEF WakeUp

(* A step that takes no wake-up away.                                      *)
Calm == /\ \A t \in Threads : sendlist_'[t] # <<>> => has_sends_'[t]
        /\ Rouses /\ Lulls /\ owner' = owner
        /\ \A y \in All : fSignaled_[y] => fSignaled_'[y]

(* So are the steps under which the lists shrink.                          *)
LEMMA CalmShrinks ==
    ASSUME Wakes, NEW x \in All, NEW k, NEW d, Moved(x, k, d), Shrinks,
           UNCHANGED <<has_sends_, fStop_, owner>>, Rouses,
           x \in Threads => (Idle(x)' => Idle(x) \/ AboutToWake(x)'),
           \A y \in All : fSignaled_[y] => fSignaled_'[y]
    PROVE  Calm
<1>1. \A t \in Threads : sendlist_'[t] # <<>> => has_sends_'[t]
  BY DEF Shrinks, Wakes
<1>2. Lulls
  BY LullsMoved
<1> QED
  BY <1>1, <1>2 DEF Calm

(* Who x was about to wake is woken.                                       *)
Woken(x) == \A y \in All : Waker(stack[x][1], y) => fSignaled_'[y]

(* Under such a step who is about to be woken remains so, ...              *)
LEMMA SteadyCalm ==
    ASSUME Typed, NEW x \in All, NEW k \in 0 .. 2, NEW d \in {-1, 0, 1}, k + d <= 1, Moved(x, k, d),
           Calm, k + d = 1 => Woken(x)
    PROVE  \A y \in All : AboutToWake(y) => AboutToWake(y)'
<1> SUFFICES ASSUME NEW y \in All, AboutToWake(y) PROVE AboutToWake(y)'
  OBVIOUS
<1>1. (fSignaled_[y] => fSignaled_'[y]) /\ owner' = owner
  BY DEF Calm
<1>2. CASE fSignaled_'[y]
  BY <1>2, AboutIs
<1>3. CASE ~fSignaled_'[y]
  <2>1. k + d = 1 => ~Waker(stack[x][1], y)
    BY <1>3 DEF Woken
  <2> QED
    BY <2>1, <1>1, SteadyTop
<1> QED
  BY <1>2, <1>3

(* ... and Wakes is kept,                                                  *)
LEMMA WakesCalm ==
    ASSUME Typed, Wakes, NEW x \in All, NEW k \in 0 .. 2, NEW d \in {-1, 0, 1}, k + d <= 1,
           Moved(x, k, d), Calm, k + d = 1 => Woken(x), Covering(x, k, d)
    PROVE  Wakes'
<1>1. \A y \in All : AboutToWake(y) => AboutToWake(y)'
  BY SteadyCalm
<1>2. /\ \A t \in Threads : sendlist_'[t] # <<>> => has_sends_'[t]
      /\ Rouses /\ Lulls
  BY DEF Calm
<1>3. \A y \in All : AboutToWake(y) => AboutToWake(y)' \/ (y = x /\ Leaves(x, k))
  BY <1>1
<1> QED
  BY <1>2, <1>3, WakesFrom

(* ... by a call that is made, ...                                         *)
LEMMA WakesEnters ==
    ASSUME Typed, Wakes, NEW x \in All, Moved(x, 1, -1), Calm, ~Is(stack'[x][1], "Send", "wait")
    PROVE  Wakes'
<1>1. /\ 1 \in 0 .. 2 /\ -1 \in {-1, 0, 1} /\ 1 + (-1) <= 1 /\ 1 + (-1) # 1
      /\ \A i \in 1 .. 1 : i = 1
  OBVIOUS
<1>2. \A i \in 1 .. 1 : ~(Is(stack'[x][i], "Send", "wait") /\ stack'[x][i].n \in ready')
  BY <1>1
<1>3. Covering(x, 1, -1)
  BY <1>1, <1>2, CoveringTop
<1> QED
  BY <1>1, <1>3, WakesCalm

(* ... one that goes on, ...                                               *)
LEMMA WakesGoes ==
    ASSUME Typed, Wakes, NEW x \in All, Moved(x, 1, 0), Calm, Woken(x),
           Waited(stack[x][1]) => Waited(stack'[x][1]), ~Is(stack'[x][1], "Send", "wait")
    PROVE  Wakes'
<1>1. /\ 1 \in 0 .. 2 /\ 0 \in {-1, 0, 1} /\ 1 + 0 <= 1 /\ 1 \in 1 .. 1
      /\ \A i \in 1 .. 1 : i = 1
  OBVIOUS
<1>2. \A i \in 1 .. 1 : ~(Is(stack'[x][i], "Send", "wait") /\ stack'[x][i].n \in ready')
  BY <1>1
<1>3. Waited(stack[x][1]) => NewCover(x, 1)
  BY <1>1 DEF NewCover
<1>4. Covering(x, 1, 0)
  BY <1>1, <1>2, <1>3, CoveringTop
<1> QED
  BY <1>1, <1>4, WakesCalm

(* ... one that calls another, ...                                         *)
LEMMA WakesCalls ==
    ASSUME Typed, Wakes, NEW x \in All, Moved(x, 2, -1), Calm, Woken(x),
           Waited(stack[x][1]) => Waited(stack'[x][2]), ~Is(stack'[x][1], "Send", "wait"),
           Is(stack'[x][2], "Send", "wait") => stack'[x][2].n \notin ready'
    PROVE  Wakes'
<1>1. /\ 2 \in 0 .. 2 /\ -1 \in {-1, 0, 1} /\ 2 + (-1) <= 1 /\ 2 \in 1 .. 2
      /\ \A i \in 1 .. 2 : i = 1 \/ i = 2
  OBVIOUS
<1>2. \A i \in 1 .. 2 : ~(Is(stack'[x][i], "Send", "wait") /\ stack'[x][i].n \in ready')
  BY <1>1
<1>3. Waited(stack[x][1]) => NewCover(x, 2)
  BY <1>1 DEF NewCover
<1>4. Covering(x, 2, -1)
  BY <1>1, <1>2, <1>3, CoveringTop
<1> QED
  BY <1>1, <1>4, WakesCalm

(* ... and one that returns.                                               *)
LEMMA WakesReturns ==
    ASSUME Typed, Wakes, NEW x \in All, Moved(x, 0, 1), Calm, Woken(x),
           Waited(stack[x][1]) => fSignaled_'[x]
    PROVE  Wakes'
<1>1. 0 \in 0 .. 2 /\ 1 \in {-1, 0, 1} /\ 0 + 1 <= 1 /\ \A i \in 1 .. 0 : FALSE
  OBVIOUS
<1>2. Waited(stack[x][1]) => AboutToWake(x)'
  BY AboutIs
<1>3. Covering(x, 0, 1)
  <2>1. \A i \in 1 .. 0 : ~(Is(stack'[x][i], "Send", "wait") /\ stack'[x][i].n \in ready')
    BY <1>1
  <2> QED
    BY <1>1, <1>2, <2>1, CoveringTop
<1> QED
  BY <1>1, <1>3, WakesCalm

(* A foreign thread's Send begins with a new AutoThread, whose pipe is     *)
(* empty: nobody waits in it yet.                                          *)
LEMMA SendCallWakes ==
    ASSUME Typed, Wakes, NEW x \in All, NEW to \in Threads, NEW h \in Handlers, SendCall(x, to, h)
    PROVE  Wakes'
<1>1. /\ Moved(x, 1, -1) /\ ~Is(stack'[x][1], "Send", "wait")
      /\ stack'[x][1].call # "ProcessMessages"
  BY SendCallMoves DEF Is
<1>2. UNCHANGED <<msgq_, sendlist_, has_sends_, fStop_, owner, ready>>
  BY DEF SendCall, queues
<1>3. ~Idle(x)'
  BY <1>1, BusyTop
<1>4. Shrinks /\ Rouses
  BY <1>2, ShrinksSame, RousesSame
<1>5. CASE x \notin Foreign
  <2>1. \A y \in All : fSignaled_[y] => fSignaled_'[y]
    BY <1>5 DEF SendCall
  <2>2. Calm
    BY <2>1, <1>1, <1>2, <1>3, <1>4, CalmShrinks
  <2> QED
    BY <2>2, <1>1, WakesEnters
<1>6. CASE x \in Foreign
  <2>1. stack[x] = <<>> /\ stack[x] \in Seq(Frame)
    BY <1>6, MayCallTop DEF SendCall, Typed, TypeInv
  <2>2. Len(stack'[x]) <= 1
    <3>1. Len(stack'[x]) = Len(stack[x]) - (-1)
      BY <1>1 DEF Moved
    <3>2. Len(stack[x]) = 0
      BY <2>1
    <3> QED
      BY <3>1, <3>2
  <2>3. fSignaled_ \in [All -> BOOLEAN]
    BY DEF Typed, TypeInv
  <2>4. \A y \in All : y # x => (fSignaled_[y] => fSignaled_'[y])
    BY <1>6, <2>3 DEF SendCall
  <2>5. /\ 1 \in 0 .. 2 /\ -1 \in {-1, 0, 1} /\ 1 + (-1) <= 1 /\ 1 + (-1) # 1
        /\ \A i \in 1 .. 1 : i = 1
    OBVIOUS
  <2>6. ASSUME NEW y \in All, AboutToWake(y) PROVE AboutToWake(y)' \/ (y = x /\ Leaves(x, 1))
    <3>1. CASE y = x
      BY <3>1, <2>2, <1>3 DEF Leaves
    <3>2. CASE y # x
      <4>1. (fSignaled_[y] => fSignaled_'[y]) /\ owner' = owner
        BY <3>2, <2>4, <1>2
      <4> QED
        BY <4>1, <2>5, <2>6, <1>1, SteadyTop
    <3> QED
      BY <3>1, <3>2
  <2>7. Covering(x, 1, -1)
    <3>1. \A i \in 1 .. 1 : ~(Is(stack'[x][i], "Send", "wait") /\ stack'[x][i].n \in ready')
      BY <2>5, <1>1
    <3> QED
      BY <2>5, <3>1, CoveringTop
  <2>8. Lulls
    BY <1>1, <1>2, <1>3, <1>4, LullsMoved
  <2>9. \A t \in Threads : sendlist_'[t] # <<>> => has_sends_'[t]
    BY <1>2 DEF Wakes
  <2> QED
    BY <2>5, <2>6, <2>7, <2>8, <2>9, <1>1, <1>4, WakesFrom
<1> QED
  BY <1>5, <1>6

(* The wait of Send is over: the wake-up may have been for a call below,   *)
(* and waited remembers it.                                                *)
LEMMA SendWaitsWakes ==
    ASSUME Typed, Wakes, NEW x \in All, SendWaits(x)
    PROVE  Wakes'
<1>1. /\ Moved(x, 1, 0) /\ Is(stack'[x][1], "Send", "test") /\ stack'[x][1].waited
      /\ Is(stack[x][1], "Send", "wait") /\ 1 \in DOMAIN stack[x]
  BY SendWaitsMoves
<1>2. UNCHANGED <<msgq_, sendlist_, has_sends_, fStop_, owner, ready>>
  BY DEF SendWaits, queues
<1>3. ~Idle(x)'
  BY <1>1, BusyTop DEF Is
<1>4. Shrinks /\ Rouses
  BY <1>2, ShrinksSame, RousesSame
<1>5. /\ 1 \in 0 .. 2 /\ 0 \in {-1, 0, 1} /\ 1 + 0 <= 1 /\ 1 \in 1 .. 1
      /\ \A i \in 1 .. 1 : i = 1
  OBVIOUS
<1>6. NewCover(x, 1)
  <2>1. Waited(stack'[x][1])
    BY <1>1, SendWaitsMoves DEF Waited, Is
  <2> QED
    BY <2>1, <1>5 DEF NewCover
<1>7. Covering(x, 1, 0)
  <2>1. \A i \in 1 .. 1 : ~(Is(stack'[x][i], "Send", "wait") /\ stack'[x][i].n \in ready')
    BY <1>1, <1>5 DEF Is
  <2> QED
    BY <2>1, <1>5, <1>6, CoveringTop
<1>8. ASSUME NEW y \in All, AboutToWake(y) PROVE AboutToWake(y)' \/ (y = x /\ Leaves(x, 1))
  <2>1. CASE y = x
    BY <2>1, <1>3, <1>6 DEF Leaves
  <2>2. CASE y # x
    <3>1. fSignaled_ \in [All -> BOOLEAN]
      BY DEF Typed, TypeInv
    <3>2. (fSignaled_[y] => fSignaled_'[y]) /\ owner' = owner
      BY <3>1, <2>2, <1>2 DEF SendWaits
    <3>3. ~Waker(stack[x][1], y)
      BY <1>1 DEF Waker, Is
    <3> QED
      BY <3>2, <3>3, <1>5, <1>8, <1>1, SteadyTop
  <2> QED
    BY <2>1, <2>2
<1>9. Lulls
  BY <1>1, <1>2, <1>3, <1>4, LullsMoved
<1>10. \A t \in Threads : sendlist_'[t] # <<>> => has_sends_'[t]
  BY <1>2 DEF Wakes
<1> QED
  BY <1>1, <1>4, <1>5, <1>7, <1>8, <1>9, <1>10, WakesFrom

(* Get that has been woken begins again, with all of its checks.           *)
LEMMA GetWaitsWakes ==
    ASSUME Typed, Wakes, NEW x \in All, GetWaits(x)
    PROVE  Wakes'
<1>1. /\ Moved(x, 1, 0) /\ Is(stack'[x][1], "ProcessMessages", "get")
      /\ Is(stack[x][1], "ProcessMessages", "wait") /\ Len(stack[x]) = 1
  BY GetWaitsMoves
<1>2. UNCHANGED <<msgq_, sendlist_, has_sends_, fStop_, owner, ready>>
  BY DEF GetWaits, queues
<1>3. ~Idle(x)'
  BY <1>1, BusyTop DEF Is
<1>4. Shrinks /\ Rouses
  BY <1>2, ShrinksSame, RousesSame
<1>5. /\ 1 \in 0 .. 2 /\ 0 \in {-1, 0, 1} /\ 1 + 0 <= 1 /\ 1 \in 1 .. 1
      /\ \A i \in 1 .. 1 : i = 1
  OBVIOUS
<1>6. Len(stack'[x]) <= 1
  BY <1>1 DEF Moved
<1>7. Covering(x, 1, 0)
  <2>1. \A i \in 1 .. 1 : ~(Is(stack'[x][i], "Send", "wait") /\ stack'[x][i].n \in ready')
    BY <1>1, <1>5 DEF Is
  <2>2. ~Waited(stack[x][1])
    BY <1>1 DEF Waited, Is
  <2> QED
    BY <2>1, <2>2, <1>5, CoveringTop
<1>8. ASSUME NEW y \in All, AboutToWake(y) PROVE AboutToWake(y)' \/ (y = x /\ Leaves(x, 1))
  <2>1. CASE y = x
    BY <2>1, <1>3, <1>6 DEF Leaves
  <2>2. CASE y # x
    <3>1. fSignaled_ \in [All -> BOOLEAN]
      BY DEF Typed, TypeInv
    <3>2. (fSignaled_[y] => fSignaled_'[y]) /\ owner' = owner
      BY <3>1, <2>2, <1>2 DEF GetWaits
    <3>3. ~Waker(stack[x][1], y)
      BY <1>1 DEF Waker, Is
    <3> QED
      BY <3>2, <3>3, <1>5, <1>8, <1>1, SteadyTop
  <2> QED
    BY <2>1, <2>2
<1>9. Lulls
  BY <1>1, <1>2, <1>3, <1>4, LullsMoved
<1>10. \A t \in Threads : sendlist_'[t] # <<>> => has_sends_'[t]
  BY <1>2 DEF Wakes
<1> QED
  BY <1>1, <1>4, <1>5, <1>7, <1>8, <1>9, <1>10, WakesFrom

(* A Send that has consumed a wake-up gives one back.                      *)
LEMMA SendReturnsWakes ==
    ASSUME Typed, Wakes, NEW x \in All, SendReturns(x)
    PROVE  Wakes'
<1>1. /\ Moved(x, 0, 1) /\ Is(stack[x][1], "Send", "test") /\ 1 \in DOMAIN stack[x]
      /\ Head(stack[x]) = stack[x][1] /\ stack[x][1] \in SendFrame
  BY SendReturnsMoves
<1>2. UNCHANGED <<msgq_, sendlist_, has_sends_, fStop_, owner>> /\ ready' \subseteq ready
  BY DEF SendReturns, queues
<1>3. ~Idle(x)'
  BY <1>1, BusyReturns DEF Is
<1>4. Shrinks /\ Rouses
  BY <1>2, ShrinksSame, RousesSame
<1>5. IF stack[x][1].waited THEN WakeUp(x) ELSE UNCHANGED fSignaled_
  BY <1>1 DEF SendReturns
<1>6. (\A y \in All : fSignaled_[y] => fSignaled_'[y]) /\ (Waited(stack[x][1]) => fSignaled_'[x])
  BY <1>5, WakeUpIs DEF Waited
<1>7. Woken(x)
  BY <1>1 DEF Woken, Waker, Is
<1>8. Calm
  BY <1>1, <1>2, <1>3, <1>4, <1>6, CalmShrinks
<1> QED
  BY <1>1, <1>6, <1>7, <1>8, WakesReturns

(* Clear wakes the senders of what it removes.                             *)
LEMMA ClearRouses ==
    ASSUME Typed, Sends, SameSends, NEW q \in Threads, NEW hs, ClearOne(q, hs)
    PROVE  Rouses /\ \A y \in All : fSignaled_[y] => fSignaled_'[y]
<1>1. \A y \in All : fSignaled_'[y] = (fSignaled_[y] \/ \E smsg \in Removed(q, hs) : smsg.from = y)
  BY DEF ClearOne
<1>2. ASSUME NEW y \in All, NEW n \in ready', n \notin ready, InSend(y, n)' PROVE AboutToWake(y)'
  <2>1. PICK smsg \in Removed(q, hs) : n = smsg.n
    BY <1>2 DEF ClearOne
  <2>2. PICK i \in DOMAIN sendlist_[q] : smsg = sendlist_[q][i]
    BY DEF Removed
  <2>3. Listed(n) /\ OneSender(n)
    BY DEF Sends, SendOk
  <2>4. InSend(smsg.from, n) /\ InSend(y, n)
    BY <2>1, <2>2, <2>3, <1>2 DEF Listed, SameSends
  <2>5. smsg.from \in All
    <3>1. sendlist_[q] \in Seq(SendMsg)
      BY DEF Typed, TypeInv
    <3>2. smsg \in SendMsg
      BY <3>1, <2>2, SeqFacts
    <3> QED
      BY <3>2 DEF SendMsg
  <2>6. smsg.from = y
    BY <2>3, <2>4, <2>5 DEF OneSender
  <2>7. fSignaled_'[y]
    BY <2>6, <1>1
  <2> QED
    BY <2>7, AboutIs
<1> QED
  BY <1>1, <1>2 DEF Rouses

(* The sender of a send that becomes ready is about to be signalled.       *)
LEMMA RepliesWakes ==
    ASSUME Typed, Sends, Wakes, NEW x \in All, ReceiveReplies(x)
    PROVE  Wakes'
<1>1. /\ Moved(x, 1, 0) /\ Is(stack'[x][1], "ReceiveSends", "signal")
      /\ Is(stack[x][1], "ReceiveSends", "reply") /\ 1 \in DOMAIN stack[x]
      /\ stack'[x][1].from = stack[x][1].from /\ stack[x][1].from \in All
      /\ Head(stack[x]) = stack[x][1]
  BY ReceiveRepliesMoves
<1>2. /\ UNCHANGED <<msgq_, sendlist_, has_sends_, fStop_, owner, fSignaled_>>
      /\ ready' = ready \cup {stack[x][1].n}
  BY <1>1 DEF ReceiveReplies
<1>3. ~Idle(x)'
  BY <1>1, BusyTop DEF Is
<1>4. Shrinks
  BY <1>2, ShrinksSame
<1>5. SameSends
  BY <1>1, SameSendsGoes DEF Is, IsSend
<1>6. PICK z \in All, n \in {stack[x][1].n} : z = stack[x][1].from /\ n = stack[x][1].n
  BY <1>1
<1>7. Rouses
  <2>1. AboutToWake(z)'
    <3>1. 1 \in DOMAIN stack'[x]
      BY <1>1, <1>5, TopNext
    <3>2. Waker(stack'[x][1], z)
      BY <1>1, <1>6 DEF Waker
    <3> QED
      BY <3>1, <3>2, AboutIs
  <2>2. Owed(n) /\ OneSender(n)
    BY DEF Sends, SendOk
  <2>3. InSend(z, n)
    BY <1>1, <1>6, <2>2 DEF Owed, Answering, Is
  <2>4. \A y \in All : InSend(y, n)' => y = z
    BY <2>2, <2>3, <1>5 DEF SameSends, OneSender
  <2>5. ASSUME NEW y \in All, NEW m \in ready', m \notin ready, InSend(y, m)' PROVE AboutToWake(y)'
    <3>1. m = n
      BY <2>5, <1>2, <1>6
    <3>2. y = z
      BY <3>1, <2>5, <2>4
    <3> QED
      BY <3>2, <2>1
  <2> QED
    BY <2>5 DEF Rouses
<1>8. Calm
  BY <1>1, <1>2, <1>3, <1>4, <1>7, CalmShrinks
<1>9. Woken(x) /\ ~Waited(stack[x][1]) /\ ~Is(stack'[x][1], "Send", "wait")
  BY <1>1 DEF Woken, Waker, Waited, Is
<1> QED
  BY <1>1, <1>8, <1>9, WakesGoes

(* Who gets a send or a message is woken, or about to be.                  *)
LEMMA DeliverWakes ==
    ASSUME Typed, Wakes, NEW x \in All, NEW a \in {"enter", "add"},
           In(x, "Send", a) \/ In(x, "Post", a), Deliver(x), UNCHANGED <<fStop_, ready, owner>>
    PROVE  Wakes'
<1>1. /\ 1 \in DOMAIN stack[x] /\ Head(stack[x]) = stack[x][1]
      /\ Is(stack[x][1], "Send", a) \/ Is(stack[x][1], "Post", a)
  BY TopTypes
<1>2. Woken(x)
  BY <1>1 DEF Woken, Waker, Is
<1>3. /\ sendlist_ \in [Threads -> Seq(SendMsg)] /\ msgq_ \in [Threads -> Seq(PostMsg)]
      /\ has_sends_ \in [All -> BOOLEAN] /\ fSignaled_ \in [All -> BOOLEAN]
  BY DEF Typed, TypeInv
<1>4. Rouses
  BY RousesSame
<1>5. CASE stack[x][1].call = "Send"
  <2>1. /\ Moved(x, 1, 0) /\ Is(stack'[x][1], "Send", "wake")
        /\ stack'[x][1].to = stack[x][1].to /\ stack'[x][1].waited = stack[x][1].waited
        /\ stack[x][1] \in SendFrame
    BY <1>5, DeliverMoves
  <2>2. PICK q \in Threads : q = stack[x][1].to
    BY <2>1 DEF SendFrame
  <2>3. /\ UNCHANGED <<msgq_, fSignaled_>>
        /\ has_sends_' = [has_sends_ EXCEPT ![q] = TRUE]
        /\ \A t \in Threads : t # q => sendlist_'[t] = sendlist_[t]
    BY <1>1, <1>3, <1>5, <2>2, Zenon DEF Deliver
  <2>4. \A t \in Threads : sendlist_'[t] # <<>> => has_sends_'[t]
    <3>1. \A t \in Threads : t # q => has_sends_'[t] = has_sends_[t]
      BY <2>3, <1>3 DEF All
    <3>2. has_sends_'[q]
      BY <2>3, <1>3 DEF All
    <3> QED
      BY <3>1, <3>2, <2>3 DEF Wakes
  <2>5. AboutToWake(q)'
    <3>1. 1 \in DOMAIN stack'[x] /\ Waker(stack'[x][1], q)
      BY <2>1, <2>2, TopNext DEF Waker
    <3> QED
      BY <3>1, AboutIs
  <2>6. ~Idle(x)'
    BY <2>1, BusyTop DEF Is
  <2>7. Lulls
    <3> SUFFICES ASSUME NEW t \in Threads, t # q, t # x, Idle(t)' PROVE Idle(t)
      BY <2>5, <2>6 DEF Lulls
    <3>1. \A c, b : In(t, c, b)' <=> In(t, c, b)
      BY <2>1, OthersSame DEF All
    <3> QED
      BY <3>1, <2>3 DEF Idle
  <2>8. Calm
    BY <1>4, <2>3, <2>4, <2>7 DEF Calm
  <2>9. (Waited(stack[x][1]) => Waited(stack'[x][1])) /\ ~Is(stack'[x][1], "Send", "wait")
    BY <2>1 DEF Waited, Is
  <2> QED
    BY <1>2, <2>1, <2>8, <2>9, WakesGoes
<1>6. CASE stack[x][1].call = "Post"
  <2>1. Moved(x, 0, 1) /\ stack[x][1] \in PostFrame
    BY <1>6, DeliverMoves
  <2>2. PICK q \in Threads : q = stack[x][1].to
    BY <2>1 DEF PostFrame
  <2>3. /\ UNCHANGED <<sendlist_, has_sends_>> /\ WakeUp(q)
        /\ \A t \in Threads : t # q => msgq_'[t] = msgq_[t]
    BY <1>1, <1>3, <1>6, <2>2, Zenon DEF Deliver
  <2>4. fSignaled_'[q] /\ \A y \in All : fSignaled_[y] => fSignaled_'[y]
    BY <2>3, WakeUpIs DEF All
  <2>5. AboutToWake(q)'
    BY <2>4, AboutIs
  <2>6. ~Idle(x)'
    BY <2>1, <1>1, <1>6, BusyReturns
  <2>7. Lulls
    <3> SUFFICES ASSUME NEW t \in Threads, t # q, t # x, Idle(t)' PROVE Idle(t)
      BY <2>5, <2>6 DEF Lulls
    <3>1. \A c, b : In(t, c, b)' <=> In(t, c, b)
      BY <2>1, OthersSame DEF All
    <3> QED
      BY <3>1, <2>3 DEF Idle
  <2>8. \A t \in Threads : sendlist_'[t] # <<>> => has_sends_'[t]
    BY <2>3 DEF Wakes
  <2>9. Calm /\ ~Waited(stack[x][1])
    BY <1>4, <1>6, <2>4, <2>7, <2>8 DEF Calm, Waited
  <2> QED
    BY <1>2, <2>1, <2>9, WakesReturns
<1> QED
  BY <1>1, <1>5, <1>6 DEF Is

(* has_sends_ is reset under crit_, when the list is empty.                *)
LEMMA NextSendWakes ==
    ASSUME Typed, Wakes, NEW x \in All, NEW a \in {"next", "signal"}, In(x, "ReceiveSends", a),
           NextSend(x), UNCHANGED <<msgq_, fStop_, ready, owner>>,
           \A y \in All : fSignaled_[y] => fSignaled_'[y],
           a = "signal" => fSignaled_'[Head(stack[x]).from]
    PROVE  Wakes'
<1>1. /\ 1 \in DOMAIN stack[x] /\ Is(stack[x][1], "ReceiveSends", a) /\ x \in Threads
      /\ Head(stack[x]) = stack[x][1]
  BY NextSendMoves
<1>2. Woken(x) /\ ~Waited(stack[x][1])
  BY <1>1 DEF Woken, Waker, Is, Waited
<1>3. Rouses
  BY RousesSame
<1>4. /\ sendlist_ \in [Threads -> Seq(SendMsg)] /\ has_sends_ \in [All -> BOOLEAN]
  BY DEF Typed, TypeInv
<1>5. CASE sendlist_[x] = <<>>
  <2>1. Moved(x, 0, 1)
    BY <1>5, NextSendMoves
  <2>2. UNCHANGED sendlist_ /\ has_sends_' = [has_sends_ EXCEPT ![x] = FALSE]
    BY <1>5 DEF NextSend
  <2>3. \A t \in Threads : sendlist_'[t] # <<>> => has_sends_'[t]
    <3>1. \A t \in Threads : t # x => has_sends_'[t] = has_sends_[t]
      BY <2>2, <1>4 DEF All
    <3> QED
      BY <3>1, <2>2, <1>5 DEF Wakes
  <2>4. ~Idle(x)'
    BY <2>1, <2>2, <1>1, <1>5, BusyReturns
  <2>5. Lulls
    BY <2>1, <2>2, <2>4, ShrinksSame, LullsMoved
  <2>6. Calm
    BY <1>3, <2>3, <2>5 DEF Calm
  <2> QED
    BY <1>2, <2>1, <2>6, WakesReturns
<1>6. CASE sendlist_[x] # <<>>
  <2>1. /\ Moved(x, 2, -1) /\ Is(stack'[x][1], "OnMessage", "body")
        /\ Is(stack'[x][2], "ReceiveSends", "reply")
    BY <1>6, NextSendMoves
  <2>2. UNCHANGED has_sends_ /\ sendlist_' = [sendlist_ EXCEPT ![x] = Tail(@)]
    BY <1>6 DEF NextSend
  <2>3. Shrinks
    BY <1>1, <1>6, <2>2, ShrinksSend
  <2>4. ~Idle(x)'
    BY <2>1, BusyTop DEF Is
  <2>5. Calm
    BY <1>3, <2>1, <2>2, <2>3, <2>4, CalmShrinks
  <2>6. ~Is(stack'[x][1], "Send", "wait") /\ ~Is(stack'[x][2], "Send", "wait")
    BY <2>1 DEF Is
  <2> QED
    BY <1>2, <2>1, <2>5, <2>6, WakesCalls
<1> QED
  BY <1>5, <1>6

(* Clear of one queue, and its return.                                     *)
LEMMA ClearNextWakes ==
    ASSUME Typed, Sends, Wakes, NEW x \in All, ClearNext(x)
    PROVE  Wakes'
<1>1. /\ 1 \in DOMAIN stack[x] /\ Is(stack[x][1], "Clear", "next") /\ Head(stack[x]) = stack[x][1]
      /\ stack[x][1].todo \in Seq(Threads)
  BY ClearNextMoves
<1>2. Woken(x) /\ ~Waited(stack[x][1])
  BY <1>1 DEF Woken, Waker, Is, Waited
<1>3. CASE stack[x][1].todo = <<>>
  <2>1. /\ Moved(x, 0, 1)
        /\ UNCHANGED <<ready, sendlist_, msgq_, has_sends_, fStop_, owner, fSignaled_>>
    BY <1>1, <1>3, ClearNextMoves DEF ClearNext, queues
  <2>2. ~Idle(x)'
    BY <2>1, <1>1, BusyReturns DEF Is
  <2>3. Calm
    BY <2>1, <2>2, ShrinksSame, RousesSame, CalmShrinks
  <2> QED
    BY <1>2, <2>1, <2>3, WakesReturns
<1>4. CASE stack[x][1].todo # <<>>
  <2>1. PICK q \in Threads : q = Head(stack[x][1].todo)
    BY <1>1, <1>4
  <2>2. /\ Moved(x, 1, 0) /\ Is(stack'[x][1], "Clear", "next") /\ ClearOne(q, {stack[x][1].h})
        /\ UNCHANGED <<has_sends_, fStop_, owner>>
    BY <1>1, <1>4, <2>1, ClearNextMoves DEF ClearNext
  <2>3. SameSends
    BY <2>2, <1>1, SameSendsGoes DEF Is, IsSend
  <2>4. Rouses /\ \A y \in All : fSignaled_[y] => fSignaled_'[y]
    BY <2>2, <2>3, ClearRouses
  <2>5. Shrinks
    BY <2>2, ShrinksClear
  <2>6. ~Idle(x)' /\ ~Is(stack'[x][1], "Send", "wait")
    BY <2>2, BusyTop DEF Is
  <2>7. Calm
    BY <2>2, <2>4, <2>5, <2>6, CalmShrinks
  <2> QED
    BY <1>2, <2>2, <2>6, <2>7, WakesGoes
<1> QED
  BY <1>3, <1>4

(* The steps of the owner of a thread move no stack.                       *)
LEMMA WakesOwner ==
    ASSUME Typed, Wakes, NEW t \in Threads, UNCHANGED <<stack, has_sends_>>, Shrinks, Rouses,
           \A y \in All : fSignaled_[y] => fSignaled_'[y],
           owner[t] = "quits" => fSignaled_'[t],
           \A u \in Threads : u # t => owner'[u] = owner[u],
           fStop_' = fStop_ \/ (fStop_' = [fStop_ EXCEPT ![t] = TRUE] /\ owner'[t] = "quits")
    PROVE  Wakes'
<1>1. t \in All /\ Moved(t, 0, 0)
  BY StaysMoves DEF All
<1>2. 0 \in 0 .. 2 /\ 0 \in {-1, 0, 1} /\ 0 + 0 <= 1 /\ 0 + 0 # 1 /\ \A i \in 1 .. 0 : FALSE
  OBVIOUS
<1>3. \A y \in All : AboutToWake(y) => AboutToWake(y)'
  BY AboutIs
<1>4. Covering(t, 0, 0)
  <2>1. \A i \in 1 .. 0 : ~(Is(stack'[t][i], "Send", "wait") /\ stack'[t][i].n \in ready')
    BY <1>2
  <2> QED
    BY <1>1, <1>2, <2>1, CoveringTop
<1>5. \A u \in Threads : sendlist_'[u] # <<>> => has_sends_'[u]
  BY DEF Shrinks, Wakes
<1>6. Lulls
  <2> SUFFICES ASSUME NEW u \in Threads, Idle(u)' PROVE Idle(u) \/ AboutToWake(u)'
    BY DEF Lulls
  <2>1. \A c, a : In(u, c, a)' <=> In(u, c, a)
    BY DEF In
  <2>2. (msgq_'[u] # <<>> => msgq_[u] # <<>>) /\ (sendlist_'[u] # <<>> => sendlist_[u] # <<>>)
    BY DEF Shrinks
  <2>3. CASE fStop_'[u] => fStop_[u]
    BY <2>1, <2>2, <2>3 DEF Idle
  <2>4. CASE ~(fStop_'[u] => fStop_[u])
    <3>1. u = t /\ owner'[t] = "quits"
      BY <2>4 DEF Typed, TypeInv
    <3> QED
      BY <3>1, AboutIs
  <2> QED
    BY <2>3, <2>4
<1>7. \A y \in All : AboutToWake(y) => AboutToWake(y)' \/ (y = t /\ Leaves(t, 0))
  BY <1>3
<1> QED
  BY <1>1, <1>2, <1>4, <1>5, <1>6, <1>7, WakesFrom

(* Every step keeps Wakes.                                                 *)
LEMMA WakesStep ==
    ASSUME Typed, Sends, Wakes, [Next]_vars
    PROVE  Wakes'
<1>1. ASSUME NEW x \in All, NEW h \in alive, NEW to \in Threads, SendCall(x, to, h) PROVE Wakes'
  <2>1. h \in Handlers
    BY <1>1 DEF Typed, TypeInv
  <2> QED
    BY <1>1, <2>1, SendCallWakes
<1>2. ASSUME NEW x \in All, NEW h \in alive, NEW to \in Threads, PostCall(x, to, h) PROVE Wakes'
  <2>0. h \in Handlers
    BY <1>2 DEF Typed, TypeInv
  <2>1. Moved(x, 1, -1) /\ ~Is(stack'[x][1], "Send", "wait") /\ stack'[x][1].call # "ProcessMessages"
    BY <1>2, <2>0, PostCallMoves DEF Is
  <2>u. UNCHANGED <<has_sends_, fStop_, owner, ready, fSignaled_, msgq_, sendlist_>>
    BY <1>2 DEF PostCall, queues
  <2>2. ~Idle(x)'
    BY <2>1, BusyTop
  <2>3. Calm
    BY <2>1, <2>2, <2>u, ShrinksSame, RousesSame, CalmShrinks
  <2> QED
    BY <2>1, <2>3, WakesEnters
<1>3. ASSUME NEW x \in All, NEW h \in alive, ClearCall(x, h) PROVE Wakes'
  <2>0. h \in Handlers
    BY <1>3 DEF Typed, TypeInv
  <2>1. Moved(x, 1, -1) /\ ~Is(stack'[x][1], "Send", "wait") /\ stack'[x][1].call # "ProcessMessages"
    BY <1>3, <2>0, ClearCallMoves DEF Is
  <2>u. UNCHANGED <<has_sends_, fStop_, owner, ready, fSignaled_, msgq_, sendlist_>>
    BY <1>3 DEF ClearCall, queues
  <2>2. ~Idle(x)'
    BY <2>1, BusyTop
  <2>3. Calm
    BY <2>1, <2>2, <2>u, ShrinksSame, RousesSame, CalmShrinks
  <2> QED
    BY <2>1, <2>3, WakesEnters
<1>4. ASSUME NEW x \in All, OnMessageReturns(x) PROVE Wakes'
  <2>1. Moved(x, 0, 1) /\ 1 \in DOMAIN stack[x] /\ Is(stack[x][1], "OnMessage", "body")
    BY <1>4, OnMessageReturnsMoves
  <2>u. UNCHANGED <<has_sends_, fStop_, owner, ready, fSignaled_, msgq_, sendlist_>>
    BY <1>4 DEF OnMessageReturns, queues
  <2>2. ~Idle(x)' /\ Woken(x) /\ ~Waited(stack[x][1])
    BY <2>1, BusyReturns DEF Is, Woken, Waker, Waited
  <2>3. Calm
    BY <2>1, <2>2, <2>u, ShrinksSame, RousesSame, CalmShrinks
  <2> QED
    BY <2>1, <2>2, <2>3, WakesReturns
<1>5. ASSUME NEW x \in All, EnterActive(x) PROVE Wakes'
  <2>1. (In(x, "Send", "enter") \/ In(x, "Post", "enter")) /\ Deliver(x) /\ UNCHANGED <<fStop_, ready, owner>>
    BY <1>5 DEF EnterActive, Entering
  <2> QED
    BY <2>1, DeliverWakes
<1>6. ASSUME NEW x \in All, EnsureActive(x) PROVE Wakes'
  <2>1. /\ Moved(x, 1, 0) /\ Is(stack'[x][1], stack[x][1].call, "add")
        /\ Is(stack[x][1], "Send", "enter") \/ Is(stack[x][1], "Post", "enter")
        /\ stack[x][1].call = "Send" => stack'[x][1].waited = stack[x][1].waited
    BY <1>6, EnsureActiveMoves
  <2>u. UNCHANGED <<has_sends_, fStop_, owner, ready, fSignaled_, msgq_, sendlist_>>
    BY <1>6 DEF EnsureActive, queues
  <2>2. ~Idle(x)'
    BY <2>1, BusyTop DEF Is
  <2>3. Woken(x) /\ (Waited(stack[x][1]) => Waited(stack'[x][1])) /\ ~Is(stack'[x][1], "Send", "wait")
    BY <2>1 DEF Is, Woken, Waker, Waited
  <2>4. Calm
    BY <2>1, <2>2, <2>u, ShrinksSame, RousesSame, CalmShrinks
  <2> QED
    BY <2>1, <2>3, <2>4, WakesGoes
<1>7. ASSUME NEW x \in All, Add(x) PROVE Wakes'
  <2>1. (In(x, "Send", "add") \/ In(x, "Post", "add")) /\ Deliver(x) /\ UNCHANGED <<fStop_, ready, owner>>
    BY <1>7 DEF Add, Entering
  <2> QED
    BY <2>1, DeliverWakes
<1>8. ASSUME NEW x \in All, SendWakes(x) PROVE Wakes'
  <2>1. /\ Moved(x, 1, 0) /\ Is(stack[x][1], "Send", "wake") /\ Is(stack'[x][1], "Send", "test")
        /\ stack'[x][1].waited = stack[x][1].waited /\ stack[x][1] \in SendFrame
        /\ Head(stack[x]) = stack[x][1]
    BY <1>8, SendWakesMoves
  <2>u. UNCHANGED <<has_sends_, fStop_, owner, ready, msgq_, sendlist_>>
    BY <1>8 DEF SendWakes, queues
  <2>2. PICK z \in All : z = stack[x][1].to
    BY <2>1 DEF SendFrame, All
  <2>3. WakeUp(z)
    BY <1>8, <2>1, <2>2 DEF SendWakes
  <2>4. fSignaled_'[z] /\ \A y \in All : fSignaled_[y] => fSignaled_'[y]
    BY <2>3, WakeUpIs
  <2>5. ~Idle(x)'
    BY <2>1, BusyTop DEF Is
  <2>6. Woken(x) /\ (Waited(stack[x][1]) => Waited(stack'[x][1])) /\ ~Is(stack'[x][1], "Send", "wait")
    BY <2>1, <2>2, <2>4 DEF Is, Woken, Waker, Waited
  <2>7. Calm
    BY <2>1, <2>4, <2>5, <2>u, ShrinksSame, RousesSame, CalmShrinks
  <2> QED
    BY <2>1, <2>6, <2>7, WakesGoes
<1>9. ASSUME NEW x \in All, SendTests(x) PROVE Wakes'
  <2>1. /\ Moved(x, 2, -1) /\ Is(stack[x][1], "Send", "test") /\ Is(stack'[x][1], "ReceiveSends", "check")
        /\ stack'[x][2].call = "Send" /\ stack'[x][2].waited = stack[x][1].waited
        /\ stack'[x][2].n = stack[x][1].n /\ stack[x][1].n \notin ready
    BY <1>9, SendTestsMoves DEF Is
  <2>u. UNCHANGED <<has_sends_, fStop_, owner, ready, fSignaled_, msgq_, sendlist_>>
    BY <1>9 DEF SendTests, queues
  <2>2. ~Idle(x)'
    BY <2>1, BusyTop DEF Is
  <2>3. /\ Woken(x) /\ (Waited(stack[x][1]) => Waited(stack'[x][2])) /\ ~Is(stack'[x][1], "Send", "wait")
        /\ stack'[x][2].n \notin ready'
    BY <2>1, <2>u DEF Is, Woken, Waker, Waited
  <2>4. Calm
    BY <2>1, <2>2, <2>u, ShrinksSame, RousesSame, CalmShrinks
  <2> QED
    BY <2>1, <2>3, <2>4, WakesCalls
<1>10. ASSUME NEW x \in All, SendWaits(x) PROVE Wakes'
  BY <1>10, SendWaitsWakes
<1>11. ASSUME NEW x \in All, SendReturns(x) PROVE Wakes'
  BY <1>11, SendReturnsWakes
<1>12. ASSUME NEW x \in All, ReceiveChecks(x) PROVE Wakes'
  <2>1. 1 \in DOMAIN stack[x] /\ Is(stack[x][1], "ReceiveSends", "check")
    BY <1>12, ReceiveChecksMoves
  <2>u. UNCHANGED <<has_sends_, fStop_, owner, ready, fSignaled_, msgq_, sendlist_>>
    BY <1>12 DEF ReceiveChecks, queues
  <2>2. Woken(x) /\ ~Waited(stack[x][1])
    BY <2>1 DEF Is, Woken, Waker, Waited
  <2>3. CASE has_sends_[x]
    <3>1. Moved(x, 1, 0) /\ Is(stack'[x][1], "ReceiveSends", "next")
      BY <1>12, <2>3, ReceiveChecksMoves
    <3>2. ~Idle(x)' /\ ~Is(stack'[x][1], "Send", "wait")
      BY <3>1, BusyTop DEF Is
    <3>3. Calm
      BY <3>1, <3>2, <2>u, ShrinksSame, RousesSame, CalmShrinks
    <3> QED
      BY <2>2, <3>1, <3>2, <3>3, WakesGoes
  <2>4. CASE ~has_sends_[x]
    <3>1. Moved(x, 0, 1)
      BY <1>12, <2>4, ReceiveChecksMoves
    <3>2. x \in Threads => sendlist_'[x] = <<>>
      BY <2>4, <2>u DEF Wakes
    <3>3. x \in Threads => ~Idle(x)'
      BY <3>1, <3>2, <2>1, BusyReturns
    <3>4. Calm
      BY <3>1, <3>3, <2>u, ShrinksSame, RousesSame, CalmShrinks
    <3> QED
      BY <2>2, <3>1, <3>4, WakesReturns
  <2> QED
    BY <2>3, <2>4
<1>13. ASSUME NEW x \in All, ReceiveEnters(x) PROVE Wakes'
  <2>1. /\ In(x, "ReceiveSends", "next") /\ NextSend(x)
        /\ UNCHANGED <<msgq_, fStop_, ready, owner, fSignaled_>>
    BY <1>13 DEF ReceiveEnters
  <2> QED
    BY <2>1, NextSendWakes
<1>14. ASSUME NEW x \in All, ReceiveReplies(x) PROVE Wakes'
  BY <1>14, RepliesWakes
<1>15. ASSUME NEW x \in All, ReceiveSignals(x) PROVE Wakes'
  <2>1. /\ In(x, "ReceiveSends", "signal") /\ NextSend(x) /\ WakeUp(Head(stack[x]).from)
        /\ UNCHANGED <<msgq_, fStop_, ready, owner>>
    BY <1>15 DEF ReceiveSignals
  <2>2. /\ Head(stack[x]) = stack[x][1] /\ Told(stack[x][1]) /\ Is(stack[x][1], "ReceiveSends", "signal")
        /\ stack[x][1] \in ReceiveFrame
    BY <2>1, NextSendMoves, TopTypes
  <2>3. PICK z \in All : z = Head(stack[x]).from
    BY <2>2 DEF Told, Is, ReceiveFrame
  <2>4. fSignaled_'[z] /\ \A y \in All : fSignaled_[y] => fSignaled_'[y]
    BY <2>1, <2>3, WakeUpIs
  <2> QED
    BY <2>1, <2>3, <2>4, NextSendWakes
<1>16. ASSUME NEW x \in All, ClearNext(x) PROVE Wakes'
  BY <1>16, ClearNextWakes
<1>17. ASSUME NEW x \in All, GetReceives(x) PROVE Wakes'
  <2>1. Is(stack[x][1], "ProcessMessages", "get") /\ x \in Threads
    BY <1>17, GetReceivesMoves
  <2>u. UNCHANGED <<has_sends_, fStop_, owner, ready, fSignaled_, msgq_, sendlist_>>
    BY <1>17 DEF GetReceives, queues
  <2>2. Woken(x) /\ ~Waited(stack[x][1])
    BY <2>1 DEF Is, Woken, Waker, Waited
  <2>3. CASE has_sends_[x]
    <3>1. /\ Moved(x, 2, -1) /\ Is(stack'[x][1], "ReceiveSends", "next")
          /\ Is(stack'[x][2], "ProcessMessages", "pop")
      BY <1>17, <2>3, GetReceivesMoves
    <3>2. ~Idle(x)' /\ ~Is(stack'[x][1], "Send", "wait") /\ ~Is(stack'[x][2], "Send", "wait")
      BY <3>1, BusyTop DEF Is
    <3>3. Calm
      BY <3>1, <3>2, <2>u, ShrinksSame, RousesSame, CalmShrinks
    <3> QED
      BY <2>2, <3>1, <3>2, <3>3, WakesCalls
  <2>4. CASE ~has_sends_[x]
    <3>1. Moved(x, 1, 0) /\ Is(stack'[x][1], "ProcessMessages", "pop")
      BY <1>17, <2>4, GetReceivesMoves
    <3>2. sendlist_'[x] = <<>>
      BY <2>1, <2>4, <2>u DEF Wakes
    <3>3. ~Idle(x)' /\ ~Is(stack'[x][1], "Send", "wait")
      <4>1. \A q, b : In(x, q, b)' <=> Is(stack'[x][1], q, b)
        BY <3>1, TopNext
      <4> QED
        BY <4>1, <3>1, <3>2 DEF Idle, Is
    <3>4. Calm
      BY <3>1, <3>3, <2>u, ShrinksSame, RousesSame, CalmShrinks
    <3> QED
      BY <2>2, <3>1, <3>3, <3>4, WakesGoes
  <2> QED
    BY <2>3, <2>4
<1>18. ASSUME NEW x \in All, GetPops(x) PROVE Wakes'
  <2>1. /\ Is(stack[x][1], "ProcessMessages", "pop") /\ x \in Threads
        /\ In(x, "ProcessMessages", "pop")
    BY <1>18, GetPopsMoves DEF GetPops
  <2>u. UNCHANGED <<has_sends_, fStop_, owner, ready, fSignaled_, sendlist_>>
    BY <1>18 DEF GetPops, queues
  <2>2. Woken(x) /\ ~Waited(stack[x][1])
    BY <2>1 DEF Is, Woken, Waker, Waited
  <2>3. CASE msgq_[x] # <<>>
    <3>1. /\ Moved(x, 2, -1) /\ Is(stack'[x][1], "OnMessage", "body")
          /\ Is(stack'[x][2], "ProcessMessages", "get")
      BY <1>18, <2>3, GetPopsMoves
    <3>2. ~Idle(x)' /\ ~Is(stack'[x][1], "Send", "wait") /\ ~Is(stack'[x][2], "Send", "wait")
      BY <3>1, BusyTop DEF Is
    <3>3. Shrinks
      <4>1. msgq_' = [msgq_ EXCEPT ![x] = Tail(@)]
        BY <1>18, <2>3 DEF GetPops
      <4> QED
        BY <4>1, <2>1, <2>3, <2>u, ShrinksPost
    <3>4. Calm
      BY <3>1, <3>2, <3>3, <2>u, RousesSame, CalmShrinks
    <3> QED
      BY <2>2, <3>1, <3>2, <3>4, WakesCalls
  <2>4. CASE msgq_[x] = <<>>
    <3>1. Moved(x, 1, 0) /\ Is(stack'[x][1], "ProcessMessages", "stop")
      BY <1>18, <2>4, GetPopsMoves
    <3>2. msgq_' = msgq_
      BY <1>18, <2>4 DEF GetPops
    <3>3. (Idle(x)' => Idle(x)) /\ ~Is(stack'[x][1], "Send", "wait")
      <4>1. \A q, b : In(x, q, b)' <=> Is(stack'[x][1], q, b)
        BY <3>1, TopNext
      <4>2. Idle(x)' => sendlist_[x] # <<>>
        BY <4>1, <3>1, <3>2, <2>4, <2>u DEF Idle, Is
      <4> QED
        BY <4>2, <3>1, <2>1 DEF Idle, Is
    <3>4. Calm
      BY <3>1, <3>2, <3>3, <2>u, ShrinksSame, RousesSame, CalmShrinks
    <3> QED
      BY <2>2, <3>1, <3>3, <3>4, WakesGoes
  <2> QED
    BY <2>3, <2>4
<1>19. ASSUME NEW x \in All, GetStops(x) PROVE Wakes'
  <2>1. /\ Is(stack[x][1], "ProcessMessages", "stop") /\ x \in Threads /\ 1 \in DOMAIN stack[x]
        /\ In(x, "ProcessMessages", "stop")
    BY <1>19, GetStopsMoves DEF GetStops
  <2>u. UNCHANGED <<has_sends_, fStop_, owner, ready, fSignaled_, msgq_, sendlist_>>
    BY <1>19 DEF GetStops, queues
  <2>2. Woken(x) /\ ~Waited(stack[x][1])
    BY <2>1 DEF Is, Woken, Waker, Waited
  <2>3. CASE fStop_[x]
    <3>1. Moved(x, 0, 1)
      BY <1>19, <2>3, GetStopsMoves
    <3>2. ~Idle(x)'
      BY <3>1, <2>1, BusyReturns DEF Is
    <3>3. Calm
      BY <3>1, <3>2, <2>u, ShrinksSame, RousesSame, CalmShrinks
    <3> QED
      BY <2>2, <3>1, <3>3, WakesReturns
  <2>4. CASE ~fStop_[x]
    <3>1. Moved(x, 1, 0) /\ Is(stack'[x][1], "ProcessMessages", "wait")
      BY <1>19, <2>4, GetStopsMoves
    <3>2. (Idle(x)' => Idle(x)) /\ ~Is(stack'[x][1], "Send", "wait")
      <4>1. \A q, b : In(x, q, b)' <=> Is(stack'[x][1], q, b)
        BY <3>1, TopNext
      <4>2. Idle(x)' => sendlist_[x] # <<>> \/ msgq_[x] # <<>>
        BY <4>1, <3>1, <2>4, <2>u DEF Idle, Is
      <4> QED
        BY <4>2, <3>1, <2>1 DEF Idle, Is
    <3>3. Calm
      BY <3>1, <3>2, <2>u, ShrinksSame, RousesSame, CalmShrinks
    <3> QED
      BY <2>2, <3>1, <3>2, <3>3, WakesGoes
  <2> QED
    BY <2>3, <2>4
<1>20. ASSUME NEW x \in All, GetWaits(x) PROVE Wakes'
  BY <1>20, GetWaitsWakes
<1>21. ASSUME NEW t \in Threads, QuitSets(t) PROVE Wakes'
  <2>o. owner \in [Threads -> {"runs", "quits", "joins", "removes", "gone"}]
    BY DEF Typed, TypeInv
  <2>1. /\ UNCHANGED <<stack, has_sends_, msgq_, sendlist_, ready, fSignaled_>> /\ owner[t] = "runs"
        /\ fStop_' = [fStop_ EXCEPT ![t] = TRUE] /\ owner' = [owner EXCEPT ![t] = "quits"]
    BY <1>21 DEF QuitSets
  <2>2. owner'[t] = "quits" /\ \A u \in Threads : u # t => owner'[u] = owner[u]
    BY <2>1, <2>o
  <2> QED
    BY <2>1, <2>2, ShrinksSame, RousesSame, WakesOwner
<1>22. ASSUME NEW t \in Threads, QuitWakes(t) PROVE Wakes'
  <2>o. owner \in [Threads -> {"runs", "quits", "joins", "removes", "gone"}]
    BY DEF Typed, TypeInv
  <2>1. /\ UNCHANGED <<stack, has_sends_, msgq_, sendlist_, ready, fStop_>>
        /\ WakeUp(t) /\ owner' = [owner EXCEPT ![t] = "joins"]
    BY <1>22 DEF QuitWakes, queues
  <2>2. \A u \in Threads : u # t => owner'[u] = owner[u]
    BY <2>1, <2>o
  <2>3. fSignaled_'[t] /\ \A y \in All : fSignaled_[y] => fSignaled_'[y]
    BY <2>1, WakeUpIs DEF All
  <2> QED
    BY <2>1, <2>2, <2>3, ShrinksSame, RousesSame, WakesOwner
<1>23. ASSUME NEW t \in Threads, Joins(t) PROVE Wakes'
  <2>o. owner \in [Threads -> {"runs", "quits", "joins", "removes", "gone"}]
    BY DEF Typed, TypeInv
  <2>1. /\ UNCHANGED <<stack, has_sends_, fStop_>> /\ owner[t] = "joins"
        /\ owner' = [owner EXCEPT ![t] = IF active_[t] THEN "removes" ELSE "gone"]
    BY <1>23 DEF Joins
  <2>2. \A u \in Threads : u # t => owner'[u] = owner[u]
    BY <2>1, <2>o
  <2>3. CASE active_[t]
    <3>1. ClearOne(t, Handlers) /\ SameSends
      BY <1>23, <2>1, <2>3, InSendIs DEF Joins, SameSends
    <3>2. Rouses /\ Shrinks /\ \A y \in All : fSignaled_[y] => fSignaled_'[y]
      BY <3>1, ClearRouses, ShrinksClear
    <3> QED
      BY <3>2, <2>1, <2>2, WakesOwner
  <2>4. CASE ~active_[t]
    <3>1. UNCHANGED <<msgq_, sendlist_, ready, fSignaled_>>
      BY <1>23, <2>4 DEF Joins
    <3> QED
      BY <3>1, <2>1, <2>2, ShrinksSame, RousesSame, WakesOwner
  <2> QED
    BY <2>3, <2>4
<1>24. ASSUME NEW t \in Threads, Removes(t) PROVE Wakes'
  <2>o. owner \in [Threads -> {"runs", "quits", "joins", "removes", "gone"}]
    BY DEF Typed, TypeInv
  <2>1. /\ UNCHANGED <<stack, has_sends_, msgq_, sendlist_, ready, fStop_, fSignaled_>>
        /\ owner[t] = "removes" /\ owner' = [owner EXCEPT ![t] = "gone"]
    BY <1>24 DEF Removes, queues
  <2>2. \A u \in Threads : u # t => owner'[u] = owner[u]
    BY <2>1, <2>o
  <2> QED
    BY <2>1, <2>2, ShrinksSame, RousesSame, WakesOwner
<1>25. CASE UNCHANGED vars
  <2>1. UNCHANGED <<stack, fSignaled_, owner, ready, msgq_, sendlist_, has_sends_, fStop_>>
    BY <1>25 DEF vars, queues
  <2>2. \A y : AboutToWake(y)' <=> AboutToWake(y)
    BY <2>1, AboutIs
  <2>3. \A y : (Alert(y) => Alert(y)') /\ (Idle(y)' => Idle(y))
    BY <2>1, <2>2 DEF Alert, Idle, In
  <2> QED
    BY <2>1, <2>2, <2>3 DEF Wakes
<1> QED
  BY <1>1, <1>2, <1>3, <1>4, <1>5, <1>6, <1>7, <1>8, <1>9, <1>10, <1>11, <1>12, <1>13,
     <1>14, <1>15, <1>16, <1>17, <1>18, <1>19, <1>20, <1>21, <1>22, <1>23, <1>24,
     <1>25
     DEF Next, Call, Step, Destroy

(* At first nobody has anything to do.                                     *)
LEMMA WakesInit == Init => Wakes
<1> SUFFICES ASSUME Init PROVE Wakes
  OBVIOUS
<1>1. \A x \in All : stack[x] = IF x \in Threads THEN <<Loop("get")>> ELSE <<>>
  BY DEF Init
<1>2. \A t \in Threads : sendlist_[t] = <<>> /\ ready = {}
  BY DEF Init
<1>3. \A x \in All : Alert(x)
  BY DEF Init, Alert
<1>4. \A t \in Threads : ~Idle(t)
  <2> SUFFICES ASSUME NEW t \in Threads PROVE ~Idle(t)
    OBVIOUS
  <2>1. t \in All /\ stack[t] = <<Loop("get")>>
    BY <1>1 DEF All
  <2>2. Head(stack[t]).call = "ProcessMessages" /\ Head(stack[t]).at = "get"
    BY <2>1 DEF Loop
  <2> QED
    BY <2>2 DEF Idle, In
<1> QED
  BY <1>2, <1>3, <1>4 DEF Wakes

(* No thread sleeps over what it has to do, in Get or in a Send that       *)
(* waits, although a Send nested in another consumes the wake-ups of both  *)
(* and ReceiveSends leaves crit_ while a handler runs.                     *)
THEOREM NoOneOversleepsHolds == Spec => []NoOneOversleeps
<1>1. Init => Typed /\ Sends /\ Wakes
  BY TypedInit, SendsInit, WakesInit
<1>2. Typed /\ Sends /\ Wakes /\ [Next]_vars => Typed' /\ Sends' /\ Wakes'
  BY TypedStep, SendsStep, WakesStep
<1>3. Typed /\ Wakes => NoOneOversleeps
  <2> SUFFICES ASSUME Typed, Wakes PROVE NoOneOversleeps
    OBVIOUS
  <2>1. ASSUME NEW x \in All, In(x, "Send", "wait"), Head(stack[x]).n \in ready PROVE AboutToWake(x)
    <3>1. 1 \in DOMAIN stack[x] /\ Head(stack[x]) = stack[x][1] /\ Is(stack[x][1], "Send", "wait")
      BY <2>1, TopTypes
    <3>2. Alert(x) /\ \A j \in 1 .. 1 - 1 : FALSE
      BY DEF Wakes
    <3> QED
      BY <3>1, <3>2, <2>1 DEF Alert
  <2>2. \A t \in Threads : Idle(t) => AboutToWake(t)
    BY DEF Wakes
  <2> QED
    BY <2>1, <2>2 DEF NoOneOversleeps, Idle
<1> QED
  BY <1>1, <1>2, <1>3, PTL DEF Spec
=============================================================================
