----------------------------- MODULE HshaProofs -----------------------------
(***************************************************************************)
(* The safety properties of module Hsha, for any number of users, any      *)
(* scenarios and any bounds.  The inductive invariant has three layers,    *)
(* one for each property:                                                  *)
(*  - IInv: the types, the order of ids in the queues, and that every task *)
(*    is waited for or has its removal behind it, with Findable: what is   *)
(*    waited for is kept or on its way (TaskAccounted);                    *)
(*  - HInv: two tasks of one user, and two connect tasks, are never in the *)
(*    async half together, because the lock of VzLPRTcp_Open and the FIFO  *)
(*    queue put the removal of the one before the other.  Session ids stay *)
(*    below the ids of connect tasks, so that what a reconnected session   *)
(*    posts under its own id never reaches one (HandlesDistinct);          *)
(*  - AInv: where a request may be, on its way out and back, and who waits *)
(*    for it; an answer that reaches a task is to the task's own request,  *)
(*    or to an earlier one that its session still owed (AnswerIsOwn).      *)
(***************************************************************************)
EXTENDS Hsha, SelectionProofs

(* Messages: requests of tasks, removals of tasks, and everything else:    *)
(* news of sessions, and answers.                                          *)
ReqType == {"REQ_CONNECT_SERVER", "REQ_SEND_REQUESTION", "REQ_DISCONNECT_SERVER"}
Req(m) == m.type \in ReqType
Removes(m, t) == m.type = "REQ_REMOVE_TASK_EVENT" /\ m.task = t
News(m) == m.type \notin ReqType \cup {"REQ_REMOVE_TASK_EVENT"}

(* A user thread is in WaitTaskDone for t, or about to return from it.     *)
Waited(t) == user[t.owner].task = t /\ user[t.owner].pc \in {"wait", "done"}

(* Tasks and messages with ids up to top.                                  *)
GoodTask(top) ==
    {t \in Task : t.id <= top /\ (t.type = "REQ_SEND_REQUESTION" => t.cmd \in Cmds)}

GoodMsg(top) ==
    {m \in Message :
        /\ Req(m) \/ m.type = "REQ_REMOVE_TASK_EVENT" => m.task \in GoodTask(top)
        /\ Req(m) => /\ m.type = m.task.type /\ m.id = m.task.id
                     /\ m.sid = m.task.sid /\ m.cmd = m.task.cmd
        /\ m.type = "RES_RECONNECT_EVENT" => m.sid # NULL_SESSION_ID}

(* Only requests reach the async thread.                                   *)
AsyncMsg(top) == {m \in GoodMsg(top) : Req(m)}

(* A user thread, and what its place in the call implies.                  *)
UserState == [pc : {"idle", "wait", "done", "opened"}, msg : Message \cup {None},
              task : Task \cup {NoTask}, closed : BOOLEAN,
              handle : {NULL_SESSION_ID} \cup SessionIds]

GoodUser(u, top) ==
    {x \in UserState :
        /\ (x.pc = "idle") = (x.task = NoTask)
        /\ x.pc # "idle" => x.task \in GoodTask(top) /\ x.task.owner = u
        /\ x.pc = "opened" => x.msg # None /\ x.task.type = "REQ_CONNECT_SERVER"}

(* The types; a session id is given out for at most every task, and ids    *)
(* are below the counter of tasks.                                         *)
Typed ==
    /\ scenario \in Scenarios /\ drops \in 0 .. scenario.drops
    /\ unequal_task_id_ \in FirstTask .. FirstTask + scenario.tasks
    /\ unequal_session_id_ \in 1 .. unequal_task_id_ - 1
    /\ queueQ \in Seq(GoodMsg(unequal_task_id_))
    /\ asyncQ \in Seq(AsyncMsg(unequal_task_id_))
    /\ tasks_ \subseteq GoodTask(unequal_task_id_)
    /\ user \in [Users -> UserState] /\ userQ \in [Users -> Seq(Message)]
    /\ \A u \in Users : user[u] \in GoodUser(u, unequal_task_id_)
    /\ async_sessions_ \subseteq Session /\ reconnects \subseteq SessionIds
    /\ unhandled \in BOOLEAN /\ owed \subseteq {NULL_SESSION_ID} \cup SessionIds

(* Tasks pass through the queues in the order of their ids, and the        *)
(* session ids given out so far leave room below them.                     *)
Order ==
    /\ \A i, j \in DOMAIN queueQ :
          i < j /\ Req(queueQ[i]) /\ Req(queueQ[j]) => queueQ[i].id < queueQ[j].id
    /\ \A i, j \in DOMAIN asyncQ : i < j => asyncQ[i].id < asyncQ[j].id
    /\ \A i \in DOMAIN asyncQ, j \in DOMAIN queueQ :
          Req(queueQ[j]) => asyncQ[i].id < queueQ[j].id
    /\ \A i \in DOMAIN asyncQ : unequal_session_id_ + 1 < asyncQ[i].id
    /\ \A i \in DOMAIN queueQ : Req(queueQ[i]) => unequal_session_id_ + 1 < queueQ[i].id

(* A task that QueueLayer keeps, or that is still to reach it, is waited   *)
(* for, or its removal comes behind it.                                    *)
Accounted ==
    /\ \A t \in tasks_ : Waited(t) \/ \E j \in DOMAIN queueQ : Removes(queueQ[j], t)
    /\ \A i \in DOMAIN queueQ : Req(queueQ[i]) =>
          \/ Waited(queueQ[i].task)
          \/ \E j \in DOMAIN queueQ : i < j /\ Removes(queueQ[j], queueQ[i].task)

(* The first layer of the inductive invariant.                             *)
IInv == Typed /\ Order /\ Accounted
-----------------------------------------------------------------------------
(* What the bounds of a scenario say of the ids.                           *)
LEMMA Ids ==
    /\ TaskIds \subseteq Nat /\ SessionIds \subseteq Nat
    /\ \A k \in TaskIds : k > FirstTask
    /\ \A k \in SessionIds : k > 1
    /\ \A c \in Scenarios : \A k \in Nat :
         /\ k > FirstTask /\ k <= FirstTask + c.tasks => k \in TaskIds
         /\ k > 1 /\ k <= c.tasks + 1 => k \in SessionIds
    /\ \A c \in Scenarios : c.tasks \in Nat /\ c.drops \in Nat
<1>1. \A c \in Scenarios : c.tasks \in Nat /\ c.drops \in Nat
  BY ScenarioAssumption DEF Scenario
<1>2. \A k \in TaskIds : k \in Nat /\ k > FirstTask
  <2> SUFFICES ASSUME NEW k \in TaskIds PROVE k \in Nat /\ k > FirstTask
    OBVIOUS
  <2>1. PICK c \in Scenarios : k \in FirstTask + 1 .. FirstTask + c.tasks
    BY DEF TaskIds
  <2> QED
    BY <1>1, <2>1 DEF FirstTask
<1>3. \A k \in SessionIds : k \in Nat /\ k > 1
  <2> SUFFICES ASSUME NEW k \in SessionIds PROVE k \in Nat /\ k > 1
    OBVIOUS
  <2>1. PICK c \in Scenarios : k \in 2 .. c.tasks + 1
    BY DEF SessionIds
  <2> QED
    BY <1>1, <2>1
<1>4. \A c \in Scenarios : \A k \in Nat :
         /\ k > FirstTask /\ k <= FirstTask + c.tasks => k \in TaskIds
         /\ k > 1 /\ k <= c.tasks + 1 => k \in SessionIds
  <2> SUFFICES ASSUME NEW c \in Scenarios, NEW k \in Nat
               PROVE  /\ k > FirstTask /\ k <= FirstTask + c.tasks => k \in TaskIds
                      /\ k > 1 /\ k <= c.tasks + 1 => k \in SessionIds
    OBVIOUS
  <2>1. /\ k > FirstTask /\ k <= FirstTask + c.tasks => k \in FirstTask + 1 .. FirstTask + c.tasks
        /\ k > 1 /\ k <= c.tasks + 1 => k \in 2 .. c.tasks + 1
    BY <1>1 DEF FirstTask
  <2> QED
    BY <2>1 DEF TaskIds, SessionIds
<1> QED
  BY <1>1, <1>2, <1>3, <1>4

(* Task ids are above 2 and session ids above 1: 0 is neither.             *)
LEMMA IdNumbers ==
    /\ \A k \in TaskIds : k \in Nat /\ k > 2
    /\ \A k \in SessionIds : k \in Nat /\ k > 1
    /\ NULL_SESSION_ID \notin SessionIds
  BY Ids DEF FirstTask, NULL_SESSION_ID

(* The two counters are numbers, the session ids below the task ids.       *)
LEMMA Counters ==
    ASSUME Typed
    PROVE  /\ unequal_task_id_ \in Nat /\ unequal_session_id_ \in Nat
           /\ unequal_task_id_ >= FirstTask /\ unequal_session_id_ >= 1
           /\ unequal_session_id_ < unequal_task_id_
<1>1. PICK k, l, n : k = unequal_task_id_ /\ l = unequal_session_id_ /\ n = scenario.tasks
  OBVIOUS
<1>2. scenario \in Scenarios /\ k \in FirstTask .. FirstTask + n /\ l \in 1 .. k - 1
  BY <1>1 DEF Typed
<1>3. n \in Nat
  BY <1>1, <1>2, Ids
<1>4. k \in Nat /\ l \in Nat /\ k >= FirstTask /\ l >= 1 /\ l < k
  BY ONLY <1>2, <1>3 DEF FirstTask
<1> QED
  BY ONLY <1>1, <1>4

(* The types that TypeOK states follow from the stronger ones.             *)
LEMMA TypedIsTypeOK ==
    ASSUME Typed PROVE TypeOK
<1> USE DEF Typed
<1>1. unequal_task_id_ \in {FirstTask} \cup TaskIds
  BY Ids DEF FirstTask
<1>2. unequal_session_id_ \in {1} \cup SessionIds
  BY Ids DEF FirstTask
<1>3. user \in [Users -> UserState]
      /\ \A u \in Users : (user[u].pc = "idle") = (user[u].task = NoTask)
  BY DEF GoodUser
<1>4. GoodMsg(unequal_task_id_) \subseteq Message /\ AsyncMsg(unequal_task_id_) \subseteq Message
  BY DEF GoodMsg, AsyncMsg
<1>5. queueQ \in Seq(Message) /\ asyncQ \in Seq(Message)
  <2> HIDE DEF Typed
  <2>1. queueQ \in Seq(GoodMsg(unequal_task_id_)) /\ asyncQ \in Seq(AsyncMsg(unequal_task_id_))
    BY DEF Typed
  <2> QED
    BY <1>4, <2>1
<1>6. tasks_ \subseteq Task
  BY DEF GoodTask
<1> QED
  BY <1>1, <1>2, <1>3, <1>5, <1>6 DEF TypeOK, UserState

(* With a larger top, more is good.                                        *)
LEMMA Grows ==
    ASSUME NEW a \in Int, NEW b \in Int, a <= b
    PROVE  /\ GoodTask(a) \subseteq GoodTask(b) /\ GoodMsg(a) \subseteq GoodMsg(b)
           /\ AsyncMsg(a) \subseteq AsyncMsg(b)
           /\ \A u : GoodUser(u, a) \subseteq GoodUser(u, b)
<1>1. GoodTask(a) \subseteq GoodTask(b)
  <2> SUFFICES ASSUME NEW t \in GoodTask(a) PROVE t \in GoodTask(b)
    OBVIOUS
  <2>1. t.id \in TaskIds
    BY DEF GoodTask, Task
  <2>2. t.id \in Nat
    BY <2>1, IdNumbers
  <2> QED
    BY <2>2 DEF GoodTask
<1>2. GoodMsg(a) \subseteq GoodMsg(b)
  BY <1>1 DEF GoodMsg
<1>3. AsyncMsg(a) \subseteq AsyncMsg(b)
  BY <1>2 DEF AsyncMsg
<1>4. \A u : GoodUser(u, a) \subseteq GoodUser(u, b)
  BY <1>1 DEF GoodUser
<1> QED
  BY <1>1, <1>2, <1>3, <1>4

(* A sequence over a set is one over a larger set.                         *)
LEMMA GrowsSeq ==
    ASSUME NEW S, NEW T, S \subseteq T, NEW q \in Seq(S)
    PROVE  q \in Seq(T)
  OBVIOUS

(* Head and Tail of a sequence that is not empty.                          *)
LEMMA HeadTail ==
    ASSUME NEW S, NEW q \in Seq(S), q # <<>>
    PROVE  Head(q) \in S /\ Head(q) = q[1] /\ 1 \in DOMAIN q /\ Tail(q) \in Seq(S)
  OBVIOUS

(* The types of a message's fields.                                        *)
LEMMA MessageFields ==
    ASSUME NEW m \in Message
    PROVE  /\ m.id \in Nat /\ m.sid \in {NULL_SESSION_ID} \cup SessionIds
           /\ m.cmd \in Cmds \cup {None} /\ m.req \in {0} \cup TaskIds /\ m.type \in StanzaType
  BY DEF Message

(* The types of a task's fields.                                           *)
LEMMA TaskFields ==
    ASSUME NEW top, NEW t \in GoodTask(top)
    PROVE  /\ t \in Task /\ t.id \in TaskIds /\ t.owner \in Users
           /\ t.sid \in {NULL_SESSION_ID} \cup SessionIds /\ t.type \in ReqType
           /\ t.push \in BOOLEAN /\ t.cmd \in Cmds \cup {None} /\ t # NoTask /\ t.id <= top
           /\ (t.type = "REQ_SEND_REQUESTION" => t.cmd \in Cmds)
<1>1. t \in Task /\ t.id <= top /\ (t.type = "REQ_SEND_REQUESTION" => t.cmd \in Cmds)
  BY DEF GoodTask
<1>2. /\ t.id \in TaskIds /\ t.owner \in Users
      /\ t.sid \in {NULL_SESSION_ID} \cup SessionIds /\ t.type \in ReqType
      /\ t.push \in BOOLEAN /\ t.cmd \in Cmds \cup {None}
  BY <1>1 DEF Task, ReqType
<1>3. t # NoTask
  BY <1>2 DEF NoTask, ReqType
<1> QED
  BY <1>1, <1>2, <1>3

(* The messages that are posted.                                           *)
LEMMA StanzaGood ==
    ASSUME NEW top, NEW type \in StanzaType, NEW id \in Nat,
           NEW sid \in {NULL_SESSION_ID} \cup SessionIds,
           type \notin ReqType \cup {"REQ_REMOVE_TASK_EVENT"},
           type = "RES_RECONNECT_EVENT" => sid # NULL_SESSION_ID
    PROVE  /\ Stanza(type, id, sid) \in GoodMsg(top) /\ News(Stanza(type, id, sid))
           /\ Stanza(type, id, sid).type = type /\ Stanza(type, id, sid).id = id
           /\ Stanza(type, id, sid).sid = sid
<1> DEFINE m == Stanza(type, id, sid)
<1>1. m \in Message /\ m.type = type /\ m.id = id /\ m.sid = sid
  BY DEF Stanza, Message
<1> HIDE DEF m
<1>2. m \in GoodMsg(top) /\ News(m)
  BY <1>1 DEF GoodMsg, News, Req
<1> QED
  BY <1>1, <1>2 DEF m

(* A stanza made from a task carries what the task holds.                  *)
LEMMA TaskStanzaGood ==
    ASSUME NEW top, NEW t \in GoodTask(top), NEW type \in {t.type, "REQ_REMOVE_TASK_EVENT"}
    PROVE  /\ TaskStanza(type, t) \in GoodMsg(top)
           /\ TaskStanza(type, t).type = type /\ TaskStanza(type, t).task = t
           /\ TaskStanza(type, t).id = t.id /\ TaskStanza(type, t).sid = t.sid
           /\ TaskStanza(type, t).cmd = t.cmd
<1> DEFINE m == TaskStanza(type, t)
<1>0. /\ t \in Task /\ t.id \in TaskIds /\ t.sid \in {NULL_SESSION_ID} \cup SessionIds
      /\ t.type \in ReqType /\ t.cmd \in Cmds \cup {None}
  BY TaskFields
<1>1. type \in StanzaType /\ t.id \in Nat
  BY <1>0, IdNumbers DEF StanzaType, ReqType
<1>2. m \in Message /\ m.type = type /\ m.id = t.id /\ m.sid = t.sid /\ m.cmd = t.cmd /\ m.task = t
  BY <1>0, <1>1 DEF TaskStanza, Stanza, Message
<1> HIDE DEF m
<1>3. m \in GoodMsg(top)
  <2>1. type \in ReqType => type = t.type
    BY DEF ReqType
  <2>2. type # "RES_RECONNECT_EVENT"
    BY <1>0 DEF ReqType
  <2> QED
    BY <1>0, <1>2, <2>1, <2>2 DEF GoodMsg, Req
<1> QED
  BY <1>2, <1>3 DEF m

(* The message that the queue thread gets next.                            *)
LEMMA HeadOfQueue ==
    ASSUME Typed, queueQ # <<>>
    PROVE  /\ Head(queueQ) \in GoodMsg(unequal_task_id_) /\ Head(queueQ) = queueQ[1]
           /\ 1 \in DOMAIN queueQ /\ Tail(queueQ) \in Seq(GoodMsg(unequal_task_id_))
           /\ Head(queueQ) \in Message
<1>1. queueQ \in Seq(GoodMsg(unequal_task_id_))
  BY DEF Typed
<1>2. GoodMsg(unequal_task_id_) \subseteq Message
  BY DEF GoodMsg
<1> QED
  BY <1>1, <1>2, HeadTail

(* The message that the async thread gets next is a task's.                *)
LEMMA HeadOfAsync ==
    ASSUME Typed, asyncQ # <<>>
    PROVE  /\ Head(asyncQ) \in GoodMsg(unequal_task_id_) /\ Req(Head(asyncQ))
           /\ Head(asyncQ) = asyncQ[1] /\ 1 \in DOMAIN asyncQ
           /\ Tail(asyncQ) \in Seq(AsyncMsg(unequal_task_id_))
           /\ Head(asyncQ) \in Message /\ Head(asyncQ).task \in GoodTask(unequal_task_id_)
           /\ Head(asyncQ).type = Head(asyncQ).task.type
           /\ Head(asyncQ).id = Head(asyncQ).task.id /\ Head(asyncQ).id \in TaskIds
           /\ Head(asyncQ).sid = Head(asyncQ).task.sid /\ Head(asyncQ).cmd = Head(asyncQ).task.cmd
<1>1. asyncQ \in Seq(AsyncMsg(unequal_task_id_))
  BY DEF Typed
<1>2. /\ Head(asyncQ) \in AsyncMsg(unequal_task_id_) /\ Head(asyncQ) = asyncQ[1]
      /\ 1 \in DOMAIN asyncQ /\ Tail(asyncQ) \in Seq(AsyncMsg(unequal_task_id_))
  BY <1>1, HeadTail
<1>3. /\ Head(asyncQ) \in GoodMsg(unequal_task_id_) /\ Req(Head(asyncQ))
      /\ Head(asyncQ) \in Message /\ Head(asyncQ).task \in GoodTask(unequal_task_id_)
      /\ Head(asyncQ).type = Head(asyncQ).task.type
      /\ Head(asyncQ).id = Head(asyncQ).task.id
      /\ Head(asyncQ).sid = Head(asyncQ).task.sid /\ Head(asyncQ).cmd = Head(asyncQ).task.cmd
  BY <1>2 DEF AsyncMsg, GoodMsg
<1>4. Head(asyncQ).task.id \in TaskIds
  BY <1>3, TaskFields
<1> QED
  BY <1>2, <1>3, <1>4

(* The types of a session's fields.                                        *)
LEMMA SessionFields ==
    ASSUME Typed, NEW s \in async_sessions_
    PROVE  /\ s \in Session /\ s.sid \in SessionIds /\ s.sid \in {NULL_SESSION_ID} \cup SessionIds
           /\ s.connect_id \in Nat /\ s.connect_id \in TaskIds \cup SessionIds
           /\ s.sent \subseteq [req : TaskIds, cmd : Cmds]
           /\ s.bound \in BOOLEAN /\ s.beating \in BOOLEAN
           /\ s.state \in {"CS_CONNECTING", "CS_CONNECTED", "CS_CLOSED"}
<1>1. s \in Session
  BY DEF Typed
<1> QED
  BY <1>1, IdNumbers DEF Session
-----------------------------------------------------------------------------
(* Every action keeps the types.                                           *)
LEMMA StartTyped ==
    ASSUME Typed, NEW u \in Users, NEW type \in ReqType,
           NEW sid \in {NULL_SESSION_ID} \cup SessionIds, NEW cmd \in Cmds \cup {None},
           NEW push \in BOOLEAN, type = "REQ_SEND_REQUESTION" => cmd \in Cmds,
           StartTask(u, type, sid, cmd, push)
    PROVE  /\ Typed'
           /\ \E t \in GoodTask(unequal_task_id_ + 1) :
                /\ t.id = unequal_task_id_ + 1 /\ t.owner = u /\ t.type = type /\ t.sid = sid
                /\ t.push = push /\ user'[u].task = t /\ user'[u].pc = "wait"
                /\ user'[u].msg = None /\ user'[u].handle = user[u].handle
                /\ queueQ' = Append(queueQ, TaskStanza(type, t))
                /\ \A v \in Users : v # u => user'[v] = user[v]
<1> DEFINE t == [id |-> unequal_task_id_ + 1, type |-> type, owner |-> u, sid |-> sid,
                 cmd |-> cmd, push |-> push]
           top == unequal_task_id_ + 1
<1>1. /\ unequal_task_id_ \in Nat /\ unequal_task_id_ >= FirstTask /\ scenario \in Scenarios
      /\ unequal_task_id_ < FirstTask + scenario.tasks /\ scenario.tasks \in Nat
  BY Ids DEF StartTask, Typed, FirstTask
<1>2. top \in TaskIds
  BY <1>1, Ids DEF FirstTask
<1>3. t \in Task
  BY <1>2 DEF Task, ReqType
<1>4. /\ t.id = top /\ t.owner = u /\ t.type = type /\ t.sid = sid /\ t.push = push /\ t.cmd = cmd
      /\ unequal_task_id_' = t.id
      /\ user' = [user EXCEPT ![u].pc = "wait", ![u].task = t, ![u].msg = None]
      /\ queueQ' = Append(queueQ, TaskStanza(type, t))
  BY DEF StartTask
<1> HIDE DEF t
<1>5. t \in GoodTask(top)
  BY <1>1, <1>3, <1>4 DEF GoodTask
<1>6. /\ GoodTask(unequal_task_id_) \subseteq GoodTask(top)
      /\ GoodMsg(unequal_task_id_) \subseteq GoodMsg(top)
      /\ AsyncMsg(unequal_task_id_) \subseteq AsyncMsg(top)
      /\ \A v : GoodUser(v, unequal_task_id_) \subseteq GoodUser(v, top)
  <2>1. unequal_task_id_ \in Int /\ top \in Int /\ unequal_task_id_ <= top
    BY <1>1
  <2> HIDE DEF top
  <2> QED
    BY <2>1, Grows
<1>7. unequal_task_id_' = top
  BY <1>4
<1>8. /\ user[u] \in UserState
      /\ user' = [user EXCEPT ![u] = [user[u] EXCEPT !.pc = "wait", !.task = t, !.msg = None]]
  BY <1>4 DEF Typed
<1>9. [user[u] EXCEPT !.pc = "wait", !.task = t, !.msg = None] \in GoodUser(u, top)
  <2>1. [user[u] EXCEPT !.pc = "wait", !.task = t, !.msg = None] \in UserState
    BY <1>3, <1>8 DEF UserState
  <2>2. t # NoTask
    BY <1>5, TaskFields
  <2> QED
    BY <1>4, <1>5, <1>8, <2>1, <2>2 DEF GoodUser, UserState
<1>10. user' \in [Users -> UserState] /\ \A v \in Users : user'[v] \in GoodUser(v, top)
  BY <1>6, <1>8, <1>9 DEF Typed, GoodUser
<1>11. queueQ' \in Seq(GoodMsg(top))
  <2>1. queueQ \in Seq(GoodMsg(top))
    BY <1>6, GrowsSeq DEF Typed
  <2>2. TaskStanza(type, t) \in GoodMsg(top)
    BY <1>4, <1>5, TaskStanzaGood
  <2> QED
    BY <1>4, <2>1, <2>2
<1>12. asyncQ' \in Seq(AsyncMsg(top))
  BY <1>6, GrowsSeq DEF Typed, StartTask
<1>13. tasks_' \subseteq GoodTask(top)
  BY <1>6 DEF Typed, StartTask
<1>14. owed' \subseteq {NULL_SESSION_ID} \cup SessionIds
  BY DEF Typed, StartTask
<1>15. /\ unequal_task_id_' \in FirstTask .. FirstTask + scenario.tasks
       /\ unequal_session_id_' \in 1 .. unequal_task_id_' - 1
  <2>1. PICK k, l, n : k = unequal_task_id_ /\ l = unequal_session_id_ /\ n = scenario.tasks
    OBVIOUS
  <2>2. /\ k \in Nat /\ k >= FirstTask /\ k < FirstTask + n /\ n \in Nat
        /\ l \in Nat /\ l >= 1 /\ l < k
    BY <1>1, <2>1, Counters
  <2>3. k + 1 \in FirstTask .. FirstTask + n /\ l \in 1 .. (k + 1) - 1
    BY ONLY <2>2 DEF FirstTask
  <2>4. unequal_task_id_' = k + 1 /\ unequal_session_id_' = l
    BY <1>7, <2>1 DEF StartTask
  <2> QED
    BY ONLY <2>1, <2>3, <2>4
<1>16. /\ scenario' = scenario /\ drops' = drops /\ userQ' = userQ
       /\ async_sessions_' = async_sessions_ /\ reconnects' = reconnects /\ unhandled' = unhandled
  BY DEF StartTask
<1>17. Typed'
  <2> HIDE DEF top
  <2> QED
    BY <1>7, <1>10, <1>11, <1>12, <1>13, <1>14, <1>15, <1>16 DEF Typed
<1>18. /\ user'[u].task = t /\ user'[u].pc = "wait" /\ user'[u].msg = None
       /\ user'[u].handle = user[u].handle /\ \A v \in Users : v # u => user'[v] = user[v]
  BY <1>8 DEF Typed, UserState
<1> QED
  BY <1>4, <1>5, <1>17, <1>18

(* WaitTaskDone gets a message.                                            *)
LEMMA WaitGetTyped ==
    ASSUME Typed, NEW u \in Users, WaitGet(u)
    PROVE  /\ Typed' /\ Head(userQ[u]) = userQ[u][1] /\ 1 \in DOMAIN userQ[u]
           /\ user'[u].task = user[u].task /\ user'[u].msg = userQ[u][1]
           /\ user'[u].pc = (IF userQ[u][1].id = user[u].task.id THEN "done" ELSE "wait")
           /\ user'[u].handle = user[u].handle
           /\ \A v \in Users : v # u => user'[v] = user[v]
<1> DEFINE m == Head(userQ[u])
           x == [user[u] EXCEPT !.msg = m,
                                !.pc = IF m.id = user[u].task.id THEN "done" ELSE "wait"]
<1>1. user[u].pc = "wait" /\ userQ[u] \in Seq(Message) /\ userQ[u] # <<>>
  BY DEF WaitGet, Typed
<1>2. m \in Message /\ Tail(userQ[u]) \in Seq(Message) /\ m = userQ[u][1] /\ 1 \in DOMAIN userQ[u]
  BY <1>1, HeadTail
<1>3. user[u] \in UserState /\ user[u] \in GoodUser(u, unequal_task_id_)
  BY DEF Typed
<1>4. user' = [user EXCEPT ![u] = x]
  BY <1>3 DEF WaitGet, Typed
<1>5. x \in UserState /\ x.task = user[u].task /\ x.msg = m /\ x.handle = user[u].handle
      /\ x.pc = (IF m.id = user[u].task.id THEN "done" ELSE "wait")
  BY <1>2, <1>3 DEF UserState
<1> HIDE DEF x
<1>6. x \in GoodUser(u, unequal_task_id_)
  BY <1>1, <1>3, <1>5 DEF GoodUser
<1>7. user' \in [Users -> UserState] /\ \A v \in Users : user'[v] \in GoodUser(v, unequal_task_id_)
  BY <1>4, <1>5, <1>6 DEF Typed
<1>8. userQ' \in [Users -> Seq(Message)] /\ unhandled' \in BOOLEAN
  BY <1>2 DEF WaitGet, Typed
<1>9. Typed'
  BY <1>7, <1>8 DEF WaitGet, Typed
<1> QED
  BY <1>2, <1>4, <1>5, <1>9 DEF Typed

(* WaitTaskDone gives up.                                                  *)
LEMMA WaitTimeoutTyped ==
    ASSUME Typed, NEW u \in Users, WaitTimeout(u)
    PROVE  /\ Typed' /\ user'[u].task = user[u].task /\ user'[u].msg = user[u].msg
           /\ user'[u].pc = "done" /\ user'[u].handle = user[u].handle
           /\ \A v \in Users : v # u => user'[v] = user[v]
<1> DEFINE x == [user[u] EXCEPT !.pc = "done"]
<1>1. user[u].pc = "wait"
  BY DEF WaitTimeout
<1>2. user[u] \in UserState /\ user[u] \in GoodUser(u, unequal_task_id_)
  BY DEF Typed
<1>3. user' = [user EXCEPT ![u] = x]
  BY <1>2 DEF WaitTimeout, Typed
<1>4. x \in UserState /\ x.task = user[u].task /\ x.msg = user[u].msg
      /\ x.handle = user[u].handle /\ x.pc = "done"
  BY <1>2 DEF UserState
<1> HIDE DEF x
<1>5. x \in GoodUser(u, unequal_task_id_) /\ user[u].task \in GoodTask(unequal_task_id_)
  BY <1>1, <1>2, <1>4 DEF GoodUser
<1>6. user' \in [Users -> UserState] /\ \A v \in Users : user'[v] \in GoodUser(v, unequal_task_id_)
  BY <1>3, <1>4, <1>5 DEF Typed
<1>7. owed' \subseteq {NULL_SESSION_ID} \cup SessionIds
  <2>1. user[u].task.sid \in {NULL_SESSION_ID} \cup SessionIds
    BY <1>5, TaskFields
  <2> QED
    BY <2>1 DEF WaitTimeout, Typed
<1>8. Typed'
  BY <1>6, <1>7 DEF WaitTimeout, Typed
<1> QED
  BY <1>3, <1>4, <1>8 DEF Typed

(* AsyncRemoveTask, and the end of the API call.                           *)
LEMMA ReturnTyped ==
    ASSUME Typed, NEW u \in Users, Return(u)
    PROVE  /\ Typed' /\ user[u].task \in GoodTask(unequal_task_id_) /\ user[u].task.owner = u
           /\ queueQ' = Append(queueQ, TaskStanza("REQ_REMOVE_TASK_EVENT", user[u].task))
           /\ user'[u].handle = user[u].handle
           /\ \/ /\ user'[u].pc = "idle" /\ user'[u].msg = None
              \/ /\ user'[u].pc = "opened" /\ user'[u].msg = user[u].msg
                 /\ user'[u].task = user[u].task /\ user[u].task.type = "REQ_CONNECT_SERVER"
           /\ \A v \in Users : v # u => user'[v] = user[v]
<1> DEFINE y == [user[u] EXCEPT !.pc = "opened"]
           z == [user[u] EXCEPT !.pc = "idle", !.msg = None, !.task = NoTask,
                   !.closed = @ \/ /\ user[u].msg # None
                                   /\ user[u].msg.type = "RES_DISCONNECTED_EVENT_SUCCEED"]
           opens == user[u].task.type = "REQ_CONNECT_SERVER" /\ user[u].msg # None
<1>1. user[u].pc = "done"
  BY DEF Return
<1>2. user[u] \in UserState /\ user[u] \in GoodUser(u, unequal_task_id_)
  BY DEF Typed
<1>3. user' = [user EXCEPT ![u] = IF opens THEN y ELSE z]
  BY <1>2 DEF Return, Typed
<1>4. /\ y \in UserState /\ y.task = user[u].task /\ y.msg = user[u].msg /\ y.pc = "opened"
      /\ y.handle = user[u].handle
  BY <1>2 DEF UserState
<1>5. z \in UserState /\ z.task = NoTask /\ z.msg = None /\ z.pc = "idle"
      /\ z.handle = user[u].handle
  BY <1>2 DEF UserState
<1> HIDE DEF y, z
<1>6. user[u].task \in GoodTask(unequal_task_id_) /\ user[u].task.owner = u /\ user[u].task # NoTask
  BY <1>1, <1>2, TaskFields DEF GoodUser
<1>7. z \in GoodUser(u, unequal_task_id_)
  BY <1>5 DEF GoodUser
<1>8. opens => y \in GoodUser(u, unequal_task_id_)
  BY <1>4, <1>6 DEF GoodUser
<1>9. user' \in [Users -> UserState] /\ \A v \in Users : user'[v] \in GoodUser(v, unequal_task_id_)
  BY <1>3, <1>4, <1>5, <1>7, <1>8 DEF Typed
<1>10. queueQ' = Append(queueQ, TaskStanza("REQ_REMOVE_TASK_EVENT", user[u].task))
  BY DEF Return
<1>11. queueQ' \in Seq(GoodMsg(unequal_task_id_))
  <2>1. TaskStanza("REQ_REMOVE_TASK_EVENT", user[u].task) \in GoodMsg(unequal_task_id_)
    BY <1>6, TaskStanzaGood
  <2> QED
    BY <1>10, <2>1 DEF Typed
<1>12. Typed'
  BY <1>9, <1>11 DEF Return, Typed, history
<1>13. user'[u] = IF opens THEN y ELSE z
  BY <1>3 DEF Typed
<1>14. \A v \in Users : v # u => user'[v] = user[v]
  BY <1>3 DEF Typed
<1> QED
  BY <1>4, <1>5, <1>6, <1>10, <1>12, <1>13, <1>14

(* The end of ConnectServer.                                               *)
LEMMA OpenedTyped ==
    ASSUME Typed, NEW u \in Users, Opened(u)
    PROVE  /\ Typed' /\ user[u].msg \in Message
           /\ user'[u].pc = "idle" /\ user'[u].msg = None
           /\ user'[u].handle \in {NULL_SESSION_ID, user[u].msg.sid}
           /\ queueQ' = queueQ
              \/ /\ queueQ' = Append(queueQ, Stanza("RES_RECONNECT_EVENT", 0, user[u].msg.sid))
                 /\ user[u].msg.sid \in SessionIds
                 /\ \E s \in async_sessions_ : s.sid = user[u].msg.sid
           /\ \A v \in Users : v # u => user'[v] = user[v]
<1> DEFINE sid == user[u].msg.sid
           x == [user[u] EXCEPT !.pc = "idle", !.msg = None, !.task = NoTask,
                   !.handle = IF Connected(sid) THEN sid ELSE NULL_SESSION_ID]
<1>1. user[u].pc = "opened"
  BY DEF Opened
<1>2. user[u] \in UserState /\ user[u] \in GoodUser(u, unequal_task_id_)
  BY DEF Typed
<1>3. user[u].msg \in Message
  BY <1>1, <1>2 DEF UserState, GoodUser
<1>4. user' = [user EXCEPT ![u] = x]
  BY <1>2 DEF Opened, Typed
<1>5. Connected(sid) => sid \in SessionIds /\ \E s \in async_sessions_ : s.sid = sid
  BY SessionFields DEF Connected, FindSession
<1>6. /\ x \in UserState /\ x.task = NoTask /\ x.msg = None /\ x.pc = "idle"
      /\ x.handle = IF Connected(sid) THEN sid ELSE NULL_SESSION_ID
  BY <1>2, <1>5 DEF UserState
<1> HIDE DEF x
<1>7. x \in GoodUser(u, unequal_task_id_)
  BY <1>6 DEF GoodUser
<1>8. user' \in [Users -> UserState] /\ \A v \in Users : user'[v] \in GoodUser(v, unequal_task_id_)
  BY <1>4, <1>6, <1>7 DEF Typed
<1>9. queueQ' = IF Connected(sid) THEN Append(queueQ, Stanza("RES_RECONNECT_EVENT", 0, sid)) ELSE queueQ
  BY DEF Opened
<1>10. queueQ' \in Seq(GoodMsg(unequal_task_id_))
  <2>1. ASSUME Connected(sid) PROVE Stanza("RES_RECONNECT_EVENT", 0, sid) \in GoodMsg(unequal_task_id_)
    <3>1. sid \in SessionIds /\ sid # NULL_SESSION_ID
      BY <1>5, <2>1, IdNumbers
    <3>2. "RES_RECONNECT_EVENT" \in StanzaType /\ 0 \in Nat
          /\ "RES_RECONNECT_EVENT" \notin ReqType \cup {"REQ_REMOVE_TASK_EVENT"}
      BY DEF StanzaType, ReqType
    <3> QED
      BY <3>1, <3>2, StanzaGood
  <2> QED
    BY <1>9, <2>1 DEF Typed
<1>11. Typed'
  BY <1>8, <1>10 DEF Opened, Typed, history
<1>12. user'[u] = x /\ \A v \in Users : v # u => user'[v] = user[v]
  BY <1>4 DEF Typed
<1> QED
  BY <1>3, <1>5, <1>6, <1>9, <1>11, <1>12

(* Dial counts a refused connection within its bound.                      *)
LEMMA DialTyped ==
    ASSUME Typed, NEW r, Dial(r)
    PROVE  drops' \in 0 .. scenario.drops
<1>1. scenario.drops \in Nat
  BY Ids DEF Typed
<1> QED
  BY <1>1 DEF Typed, Dial

(* A new session is one, with nothing sent.                                *)
LEMMA NewTyped ==
    ASSUME Typed, NEW sid \in SessionIds, NEW id \in TaskIds \cup SessionIds,
           NEW r \in scenario.connects
    PROVE  /\ NewSession(sid, id, r) \in Session /\ NewSession(sid, id, r).sid = sid
           /\ NewSession(sid, id, r).connect_id = id /\ NewSession(sid, id, r).sent = {}
<1>1. r \in {"EINPROGRESS", "0", "error"}
  BY ScenarioAssumption DEF Typed, Scenario
<1>2. ConnState(r) \in {"CS_CONNECTING", "CS_CONNECTED", "CS_CLOSED"}
  BY <1>1 DEF ConnState
<1> QED
  BY <1>2 DEF NewSession, Session

(* What happens to the queues of the queue thread and the async thread.    *)
(* d messages go at the front, and messages of new come at the end.        *)
Moved(q, p, d, new) ==
    /\ \A i \in DOMAIN p : \/ i + d \in DOMAIN q /\ p[i] = q[i + d]
                           \/ i + d > Len(q) /\ p[i] \in new
    /\ \A i \in DOMAIN q : i > d => i - d \in DOMAIN p /\ p[i - d] = q[i]

(* A queue that stays as it is.                                            *)
LEMMA MovedNot ==
    ASSUME NEW S, NEW q \in Seq(S)
    PROVE  Moved(q, q, 0, {})
<1>1. DOMAIN q = 1 .. Len(q) /\ Len(q) \in Nat
  OBVIOUS
<1> QED
  BY <1>1 DEF Moved

(* A message is posted.                                                    *)
LEMMA MovedAppend ==
    ASSUME NEW S, NEW q \in Seq(S), NEW m \in S
    PROVE  Append(q, m) \in Seq(S) /\ Moved(q, Append(q, m), 0, {m})
<1> DEFINE p == Append(q, m)
<1>1. DOMAIN q = 1 .. Len(q) /\ Len(q) \in Nat
  OBVIOUS
<1>2. p \in Seq(S) /\ DOMAIN p = 1 .. Len(q) + 1
  OBVIOUS
<1>3. p[Len(q) + 1] = m /\ \A i \in 1 .. Len(q) : p[i] = q[i]
  BY <1>1
<1> HIDE DEF p
<1>4. \A i \in DOMAIN p : i + 0 = i /\ (i \in 1 .. Len(q) \/ i = Len(q) + 1)
  BY <1>1, <1>2
<1>5. \A i \in DOMAIN p : (i + 0 \in DOMAIN q /\ p[i] = q[i + 0]) \/ (i + 0 > Len(q) /\ p[i] \in {m})
  BY <1>1, <1>3, <1>4
<1>6. \A i \in DOMAIN q : i - 0 = i /\ i \in DOMAIN p
  BY <1>1, <1>2
<1>7. \A i \in DOMAIN q : i > 0 => i - 0 \in DOMAIN p /\ p[i - 0] = q[i]
  BY <1>1, <1>3, <1>6
<1> QED
  BY <1>2, <1>5, <1>7 DEF Moved, p

(* A message is got.                                                       *)
LEMMA MovedTail ==
    ASSUME NEW S, NEW q \in Seq(S), q # <<>>
    PROVE  Tail(q) \in Seq(S) /\ Moved(q, Tail(q), 1, {})
<1> DEFINE p == Tail(q)
<1>1. DOMAIN q = 1 .. Len(q) /\ Len(q) \in Nat /\ Len(q) > 0
  OBVIOUS
<1>2. p \in Seq(S) /\ Len(p) = Len(q) - 1 /\ DOMAIN p = 1 .. Len(p)
  BY <1>1
<1>3. \A i \in 1 .. Len(q) - 1 : p[i] = q[i + 1]
  BY <1>1
<1> HIDE DEF p
<1>4. \A i \in DOMAIN p : i + 1 \in DOMAIN q /\ p[i] = q[i + 1]
  BY <1>1, <1>2, <1>3
<1>5. \A i \in DOMAIN q : i > 1 => i - 1 \in DOMAIN p /\ i - 1 + 1 = i
  BY <1>1, <1>2
<1>6. \A i \in DOMAIN q : i > 1 => i - 1 \in DOMAIN p /\ p[i - 1] = q[i]
  BY <1>4, <1>5
<1> QED
  BY <1>2, <1>4, <1>6 DEF Moved, p

(* A message is got and another one is posted.                             *)
LEMMA MovedBoth ==
    ASSUME NEW S, NEW q \in Seq(S), q # <<>>, NEW m \in S
    PROVE  Append(Tail(q), m) \in Seq(S) /\ Moved(q, Append(Tail(q), m), 1, {m})
<1> DEFINE p == Tail(q)
           w == Append(p, m)
<1>1. p \in Seq(S) /\ Moved(q, p, 1, {}) /\ Len(p) = Len(q) - 1 /\ Len(q) \in Nat
  BY MovedTail
<1> HIDE DEF p
<1>2. w \in Seq(S) /\ Moved(p, w, 0, {m}) /\ DOMAIN w = 1 .. Len(w) /\ DOMAIN p = 1 .. Len(p)
      /\ DOMAIN q = 1 .. Len(q) /\ Len(w) \in Nat /\ Len(p) \in Nat
  BY <1>1, MovedAppend
<1> HIDE DEF w
<1>3. \A i \in DOMAIN w : (i + 1 \in DOMAIN q /\ w[i] = q[i + 1]) \/ (i + 1 > Len(q) /\ w[i] \in {m})
  <2> TAKE i \in DOMAIN w
  <2>1. i \in Int /\ i + 0 = i
    BY <1>2
  <2>2. (i \in DOMAIN p /\ w[i] = p[i]) \/ (i > Len(p) /\ w[i] \in {m})
    BY <1>2, <2>1 DEF Moved
  <2>3. ASSUME i \in DOMAIN p, w[i] = p[i] PROVE i + 1 \in DOMAIN q /\ w[i] = q[i + 1]
    BY <1>1, <2>3 DEF Moved
  <2>4. ASSUME i > Len(p) PROVE i + 1 > Len(q)
    BY <1>1, <1>2, <2>1, <2>4
  <2> QED
    BY <2>2, <2>3, <2>4
<1>4. \A i \in DOMAIN q : i > 1 => i - 1 \in DOMAIN w /\ w[i - 1] = q[i]
  <2> SUFFICES ASSUME NEW i \in DOMAIN q, i > 1 PROVE i - 1 \in DOMAIN w /\ w[i - 1] = q[i]
    OBVIOUS
  <2>1. i - 1 \in DOMAIN p /\ p[i - 1] = q[i]
    BY <1>1 DEF Moved
  <2>2. i - 1 > 0 /\ i - 1 - 0 = i - 1
    BY <1>2
  <2> QED
    BY <1>2, <2>1, <2>2 DEF Moved
<1> QED
  BY <1>2, <1>3, <1>4 DEF Moved, p, w

(* Two messages are posted.                                                *)
LEMMA MovedTwo ==
    ASSUME NEW S, NEW q \in Seq(S), NEW a \in S, NEW b \in S
    PROVE  (q \o <<a, b>>) \in Seq(S) /\ Moved(q, q \o <<a, b>>, 0, {a, b})
<1> DEFINE p == q \o <<a, b>>
<1>1. DOMAIN q = 1 .. Len(q) /\ Len(q) \in Nat
  OBVIOUS
<1>2. p \in Seq(S) /\ DOMAIN p = 1 .. Len(q) + 2
  OBVIOUS
<1>3. \A i \in 1 .. Len(q) : p[i] = q[i]
  BY <1>1
<1>4. p[Len(q) + 1] = a /\ p[Len(q) + 2] = b
  BY <1>1
<1> HIDE DEF p
<1>5. \A i \in DOMAIN p : i + 0 = i /\ (i \in 1 .. Len(q) \/ i = Len(q) + 1 \/ i = Len(q) + 2)
  BY <1>1, <1>2
<1>6. \A i \in DOMAIN p : (i + 0 \in DOMAIN q /\ p[i] = q[i + 0]) \/ (i + 0 > Len(q) /\ p[i] \in {a, b})
  BY <1>1, <1>3, <1>4, <1>5
<1>7. \A i \in DOMAIN q : i - 0 = i /\ i \in DOMAIN p
  BY <1>1, <1>2
<1>8. \A i \in DOMAIN q : i > 0 => i - 0 \in DOMAIN p /\ p[i - 0] = q[i]
  BY <1>1, <1>3, <1>7
<1> QED
  BY <1>2, <1>6, <1>8 DEF Moved, p

(* A session is made for the connect task at the head of asyncQ.           *)
LEMMA OnConnectTyped ==
    ASSUME Typed, Order, NEW r \in scenario.connects, OnConnectMessage(r)
    PROVE  /\ Typed' /\ asyncQ # <<>> /\ Moved(asyncQ, asyncQ', 1, {})
           /\ Head(asyncQ) = asyncQ[1] /\ Head(asyncQ).type = "REQ_CONNECT_SERVER"
           /\ unequal_session_id_ + 1 \in SessionIds
           /\ async_sessions_' = async_sessions_ \cup
                 {NewSession(unequal_session_id_ + 1, Head(asyncQ).id, r)}
<1>1. asyncQ # <<>> /\ Dial(r)
  BY DEF OnConnectMessage
<1>2. /\ Head(asyncQ) = asyncQ[1] /\ 1 \in DOMAIN asyncQ /\ Head(asyncQ).id \in TaskIds
      /\ Head(asyncQ).task \in GoodTask(unequal_task_id_)
      /\ Head(asyncQ).id = Head(asyncQ).task.id /\ Req(Head(asyncQ))
  BY <1>1, HeadOfAsync
<1>3. Head(asyncQ).id <= unequal_task_id_ /\ Head(asyncQ).id \in Nat
  BY <1>2, TaskFields, IdNumbers
<1>4. unequal_session_id_ + 1 < Head(asyncQ).id
  BY <1>2 DEF Order
<1>5. /\ unequal_task_id_ \in FirstTask .. FirstTask + scenario.tasks /\ scenario.tasks \in Nat
      /\ unequal_session_id_ \in 1 .. unequal_task_id_ - 1 /\ scenario \in Scenarios
  BY Ids DEF Typed
<1>6. unequal_session_id_ + 1 \in 1 .. unequal_task_id_ - 1
  BY <1>3, <1>4, <1>5 DEF FirstTask
<1>7. unequal_session_id_ + 1 \in SessionIds
  BY <1>5, <1>6, Ids DEF FirstTask
<1>8. NewSession(unequal_session_id_ + 1, Head(asyncQ).id, r) \in Session
  BY <1>2, <1>7, NewTyped
<1>9. drops' \in 0 .. scenario.drops
  BY <1>1, DialTyped
<1>10. asyncQ' = Tail(asyncQ) /\ asyncQ' \in Seq(AsyncMsg(unequal_task_id_)) /\ Moved(asyncQ, asyncQ', 1, {})
  <2>1. asyncQ \in Seq(AsyncMsg(unequal_task_id_)) /\ asyncQ' = Tail(asyncQ)
    BY DEF Typed, OnConnectMessage
  <2> QED
    BY <1>1, <2>1, MovedTail
<1>11. async_sessions_' \subseteq Session
  BY <1>8 DEF Typed, OnConnectMessage
<1>12. Typed'
  BY <1>6, <1>9, <1>10, <1>11 DEF Typed, OnConnectMessage, history
<1> QED
  BY <1>1, <1>2, <1>7, <1>10, <1>12 DEF OnConnectMessage

(* Sessions are removed for a disconnect task, which is told so.           *)
LEMMA OnDisconnectTyped ==
    ASSUME Typed, OnDisconnectMessage
    PROVE  /\ Typed' /\ asyncQ # <<>> /\ Moved(asyncQ, asyncQ', 1, {})
           /\ Head(asyncQ) = asyncQ[1] /\ Head(asyncQ).type = "REQ_DISCONNECT_SERVER"
           /\ async_sessions_' \subseteq async_sessions_
           /\ \E m \in GoodMsg(unequal_task_id_) :
                /\ Moved(queueQ, queueQ', 0, {m}) /\ News(m) /\ m.id = Head(asyncQ).id
                /\ m.type \notin {"RES_STANZA_EVENT", "RES_RECONNECT_EVENT"}
                /\ m.sid = Head(asyncQ).sid
<1> DEFINE h == Head(asyncQ)
           type == IF FindSession(h.sid) # {} THEN "RES_DISCONNECTED_EVENT_SUCCEED"
                                              ELSE "RES_DISCONNECTED_EVENT_FAILURE"
           m == Stanza(type, h.id, h.sid)
<1>1. asyncQ # <<>> /\ h.type = "REQ_DISCONNECT_SERVER"
  BY DEF OnDisconnectMessage
<1>2. h = asyncQ[1] /\ h \in Message
  BY <1>1, HeadOfAsync
<1>3. queueQ' = Append(queueQ, m)
  BY DEF OnDisconnectMessage
<1>4. /\ m \in GoodMsg(unequal_task_id_) /\ News(m) /\ m.id = h.id /\ m.sid = h.sid
      /\ m.type \notin {"RES_STANZA_EVENT", "RES_RECONNECT_EVENT"}
  <2>1. h.id \in Nat /\ h.sid \in {NULL_SESSION_ID} \cup SessionIds
    BY <1>2, MessageFields
  <2>2. /\ type \in StanzaType /\ type \notin ReqType \cup {"REQ_REMOVE_TASK_EVENT"}
        /\ type \notin {"RES_STANZA_EVENT", "RES_RECONNECT_EVENT"}
    BY DEF StanzaType, ReqType
  <2> HIDE DEF type, h
  <2> QED
    BY <2>1, <2>2, StanzaGood
<1> HIDE DEF m
<1>5. queueQ' \in Seq(GoodMsg(unequal_task_id_)) /\ Moved(queueQ, queueQ', 0, {m})
  BY <1>3, <1>4, MovedAppend DEF Typed
<1>6. asyncQ' \in Seq(AsyncMsg(unequal_task_id_)) /\ Moved(asyncQ, asyncQ', 1, {})
  <2>1. asyncQ \in Seq(AsyncMsg(unequal_task_id_)) /\ asyncQ' = Tail(asyncQ)
    BY DEF Typed, OnDisconnectMessage
  <2> QED
    BY <1>1, <2>1, MovedTail
<1>7. async_sessions_' \subseteq async_sessions_
  BY DEF OnDisconnectMessage, RemoveSession
<1>8. Typed'
  BY <1>5, <1>6, <1>7 DEF Typed, OnDisconnectMessage, history
<1> QED
  BY <1>1, <1>2, <1>4, <1>5, <1>6, <1>7, <1>8

(* A request is kept by its session, or its task is told that there is     *)
(* none.                                                                   *)
LEMMA OnRequestTyped ==
    ASSUME Typed, OnRequestMessage
    PROVE  /\ Typed' /\ asyncQ # <<>> /\ Moved(asyncQ, asyncQ', 1, {})
           /\ Head(asyncQ) = asyncQ[1] /\ Head(asyncQ).type = "REQ_SEND_REQUESTION"
           /\ \A s \in async_sessions_' : \E o \in async_sessions_ :
                /\ s.sid = o.sid /\ s.connect_id = o.connect_id
                /\ \/ s = o /\ o.sid # Head(asyncQ).sid
                   \/ /\ o.sid = Head(asyncQ).sid
                      /\ s = [o EXCEPT !.sent = @ \cup {[req |-> Head(asyncQ).id, cmd |-> Head(asyncQ).cmd]}]
                      /\ s.sent = o.sent \cup {[req |-> Head(asyncQ).id, cmd |-> Head(asyncQ).cmd]}
           /\ \/ queueQ' = queueQ
              \/ \E m \in GoodMsg(unequal_task_id_) :
                /\ Moved(queueQ, queueQ', 0, {m}) /\ News(m) /\ m.id = Head(asyncQ).id
                /\ m.type \notin {"RES_STANZA_EVENT", "RES_RECONNECT_EVENT"}
                /\ m.sid = Head(asyncQ).sid
                /\ m.type # "RES_SESSION_NOT_FOUND" => Head(asyncQ).task.push
<1> DEFINE h == Head(asyncQ)
           found == FindSession(h.sid)
           More(s) == [s EXCEPT !.sent = @ \cup {[req |-> h.id, cmd |-> h.cmd]}]
           m1 == Stanza("RES_SESSION_NOT_FOUND", h.id, h.sid)
           m2 == Stanza("RES_PUSH_SUCCEED", h.id, h.sid)
<1>1. asyncQ # <<>> /\ h.type = "REQ_SEND_REQUESTION"
  BY DEF OnRequestMessage
<1>2. /\ h = asyncQ[1] /\ h \in Message /\ h.id \in TaskIds /\ h.type = h.task.type
      /\ h.cmd = h.task.cmd /\ h.task \in GoodTask(unequal_task_id_)
  BY <1>1, HeadOfAsync
<1>3. h.id \in TaskIds /\ h.cmd \in Cmds
  BY <1>1, <1>2, TaskFields
<1>4. \A s \in Session : /\ More(s) \in Session /\ More(s).sid = s.sid /\ More(s).connect_id = s.connect_id
                        /\ More(s).sent = s.sent \cup {[req |-> h.id, cmd |-> h.cmd]}
  <2> HIDE DEF h
  <2> QED
    BY <1>3 DEF Session
<1>5. async_sessions_' = (async_sessions_ \ found) \cup {More(s) : s \in found}
  BY DEF OnRequestMessage
<1>6. async_sessions_ \subseteq Session /\ found = {s \in async_sessions_ : s.sid = h.sid}
  BY DEF Typed, FindSession
<1>7. async_sessions_' \subseteq Session
  <2> HIDE DEF found, More, h
  <2> QED
    BY <1>4, <1>5, <1>6
<1>8. \A s \in async_sessions_' : \E o \in async_sessions_ :
        /\ s.sid = o.sid /\ s.connect_id = o.connect_id
        /\ \/ s = o /\ o.sid # h.sid
           \/ o.sid = h.sid /\ s = More(o) /\ s.sent = o.sent \cup {[req |-> h.id, cmd |-> h.cmd]}
  <2> HIDE DEF found, More, h
  <2> QED
    BY <1>4, <1>5, <1>6
<1>9. /\ m1 \in GoodMsg(unequal_task_id_) /\ News(m1) /\ m1.id = h.id /\ m1.sid = h.sid
      /\ m1.type = "RES_SESSION_NOT_FOUND"
      /\ m2 \in GoodMsg(unequal_task_id_) /\ News(m2) /\ m2.id = h.id /\ m2.sid = h.sid
      /\ m2.type = "RES_PUSH_SUCCEED"
  <2>1. h.id \in Nat /\ h.sid \in {NULL_SESSION_ID} \cup SessionIds
    BY <1>2, MessageFields
  <2>2. /\ {"RES_SESSION_NOT_FOUND", "RES_PUSH_SUCCEED"} \subseteq StanzaType
        /\ "RES_SESSION_NOT_FOUND" \notin ReqType \cup {"REQ_REMOVE_TASK_EVENT"}
        /\ "RES_PUSH_SUCCEED" \notin ReqType \cup {"REQ_REMOVE_TASK_EVENT"}
    BY DEF StanzaType, ReqType
  <2> HIDE DEF h
  <2> QED
    BY <2>1, <2>2, StanzaGood
<1>10. \/ queueQ' = queueQ \/ queueQ' = Append(queueQ, m1)
       \/ queueQ' = Append(queueQ, m2) /\ h.task.push
  BY DEF OnRequestMessage
<1> HIDE DEF m1, m2
<1>11. queueQ \in Seq(GoodMsg(unequal_task_id_))
  BY DEF Typed
<1>12. /\ Append(queueQ, m1) \in Seq(GoodMsg(unequal_task_id_)) /\ Moved(queueQ, Append(queueQ, m1), 0, {m1})
       /\ Append(queueQ, m2) \in Seq(GoodMsg(unequal_task_id_)) /\ Moved(queueQ, Append(queueQ, m2), 0, {m2})
  BY <1>9, <1>11, MovedAppend
<1>13. queueQ' \in Seq(GoodMsg(unequal_task_id_))
  BY <1>10, <1>11, <1>12
<1>14. \/ queueQ' = queueQ
       \/ \E m \in GoodMsg(unequal_task_id_) :
                /\ Moved(queueQ, queueQ', 0, {m}) /\ News(m) /\ m.id = h.id
                /\ m.type \notin {"RES_STANZA_EVENT", "RES_RECONNECT_EVENT"}
                /\ m.sid = h.sid
                /\ m.type # "RES_SESSION_NOT_FOUND" => h.task.push
  <2>1. CASE queueQ' = queueQ
    BY <2>1
  <2>2. CASE queueQ' = Append(queueQ, m1)
    BY <1>9, <1>12, <2>2
  <2>3. CASE queueQ' = Append(queueQ, m2) /\ h.task.push
    BY <1>9, <1>12, <2>3
  <2> QED
    BY <1>10, <2>1, <2>2, <2>3
<1>15. asyncQ' \in Seq(AsyncMsg(unequal_task_id_)) /\ Moved(asyncQ, asyncQ', 1, {})
  <2>1. asyncQ \in Seq(AsyncMsg(unequal_task_id_)) /\ asyncQ' = Tail(asyncQ)
    BY DEF Typed, OnRequestMessage
  <2> QED
    BY <1>1, <2>1, MovedTail
<1>16. Typed'
  BY <1>7, <1>13, <1>15 DEF Typed, OnRequestMessage, history
<1> QED
  BY <1>1, <1>2, <1>8, <1>14, <1>15, <1>16

(* Both ways into OnReconnectMessage.                                      *)
LEMMA ReconnectTyped ==
    ASSUME Typed, NEW sid \in SessionIds, NEW r \in scenario.connects, OnReconnectMessage(sid, r)
    PROVE  /\ drops' \in 0 .. scenario.drops /\ reconnects' = reconnects \cup {sid}
           /\ async_sessions_' \subseteq Session
           /\ \/ async_sessions_' = async_sessions_
              \/ \E s \in Session :
                   /\ s.sid = sid /\ s.connect_id = sid /\ s.sent = {}
                   /\ async_sessions_' = async_sessions_ \cup {s}
                   /\ \A o \in async_sessions_ : o.sid # sid
<1>1. reconnects' = reconnects \cup {sid}
  BY DEF OnReconnectMessage
<1>2. drops' \in 0 .. scenario.drops
  BY DialTyped DEF OnReconnectMessage, Typed
<1>3. /\ NewSession(sid, sid, r) \in Session /\ NewSession(sid, sid, r).sid = sid
      /\ NewSession(sid, sid, r).connect_id = sid /\ NewSession(sid, sid, r).sent = {}
  BY NewTyped
<1>4. \/ async_sessions_' = async_sessions_
      \/ async_sessions_' = async_sessions_ \cup {NewSession(sid, sid, r)} /\ FindSession(sid) = {}
  BY DEF OnReconnectMessage
<1>5. FindSession(sid) = {} => \A o \in async_sessions_ : o.sid # sid
  BY DEF FindSession
<1>6. async_sessions_' \subseteq Session
  BY <1>3, <1>4 DEF Typed
<1> QED
  BY <1>1, <1>2, <1>3, <1>4, <1>5, <1>6

(* The delayed message comes back.                                         *)
LEMMA ReconnectTimerTyped ==
    ASSUME Typed, NEW sid \in reconnects, NEW r \in scenario.connects, ReconnectTimer(sid, r)
    PROVE  Typed' /\ sid \in SessionIds
<1>1. sid \in SessionIds /\ OnReconnectMessage(sid, r)
  BY DEF ReconnectTimer, Typed
<1>2. /\ drops' \in 0 .. scenario.drops /\ reconnects' = reconnects \cup {sid}
      /\ async_sessions_' \subseteq Session
  BY <1>1, ReconnectTyped
<1> QED
  BY <1>1, <1>2 DEF ReconnectTimer, Typed, history

(* A socket event changes one session and posts news about it.             *)
LEMMA UpdateTyped ==
    ASSUME Typed, NEW s \in async_sessions_, NEW t \in Session, Update(s, t)
    PROVE  async_sessions_' \subseteq Session /\ async_sessions_' = (async_sessions_ \ {s}) \cup {t}
  BY DEF Typed, Update

(* A session is connected, and its task is told so.                        *)
LEMMA OnConnectEventTyped ==
    ASSUME Typed, NEW s \in async_sessions_, OnConnectEvent(s)
    PROVE  /\ Typed'
           /\ \E t \in Session :
                /\ t.sid = s.sid /\ t.connect_id = s.connect_id /\ t.sent = s.sent
                /\ async_sessions_' = (async_sessions_ \ {s}) \cup {t}
           /\ \E m \in GoodMsg(unequal_task_id_) :
                /\ Moved(queueQ, queueQ', 0, {m}) /\ News(m)
                /\ m.type \notin {"RES_STANZA_EVENT", "RES_RECONNECT_EVENT"}
                /\ m.id = s.connect_id /\ m.sid = s.sid
<1> DEFINE t == [s EXCEPT !.state = "CS_CONNECTED", !.beating = TRUE]
           m == Stanza("RES_CONNECTED_EVENT", s.connect_id, s.sid)
<1>1. /\ s \in Session /\ s.connect_id \in Nat /\ s.sid \in {NULL_SESSION_ID} \cup SessionIds
  BY SessionFields
<1>2. t \in Session /\ t.sid = s.sid /\ t.connect_id = s.connect_id /\ t.sent = s.sent
  BY <1>1 DEF Session
<1>3. queueQ' = Append(queueQ, m) /\ Update(s, t)
  BY DEF OnConnectEvent
<1> HIDE DEF t
<1>4. /\ m \in GoodMsg(unequal_task_id_) /\ News(m) /\ m.type = "RES_CONNECTED_EVENT"
      /\ m.id = s.connect_id /\ m.sid = s.sid
  <2>1. "RES_CONNECTED_EVENT" \in StanzaType
        /\ "RES_CONNECTED_EVENT" \notin ReqType \cup {"REQ_REMOVE_TASK_EVENT"}
    BY DEF StanzaType, ReqType
  <2> QED
    BY <1>1, <2>1, StanzaGood
<1> HIDE DEF m
<1>5. queueQ' \in Seq(GoodMsg(unequal_task_id_)) /\ Moved(queueQ, queueQ', 0, {m})
  BY <1>3, <1>4, MovedAppend DEF Typed
<1>6. async_sessions_' \subseteq Session /\ async_sessions_' = (async_sessions_ \ {s}) \cup {t}
  BY <1>2, <1>3, UpdateTyped
<1>7. Typed'
  BY <1>5, <1>6 DEF Typed, OnConnectEvent, history
<1> QED
  BY <1>2, <1>4, <1>5, <1>6, <1>7

(* The two messages of OnSessionCloseEvent.                                *)
LEMMA ClosePosted ==
    ASSUME Typed, NEW s \in async_sessions_, queueQ' = queueQ \o ClosePosts(s)
    PROVE  /\ queueQ' \in Seq(GoodMsg(unequal_task_id_))
           /\ \E a, b \in GoodMsg(unequal_task_id_) :
                /\ Moved(queueQ, queueQ', 0, {a, b})
                /\ \A m \in {a, b} : /\ News(m) /\ m.id = s.connect_id /\ m.sid = s.sid
                                     /\ m.type \notin {"RES_STANZA_EVENT", "RES_RECONNECT_EVENT"}
<1> DEFINE a == Stanza("REQ_REMOVE_SESSION_EVENT", s.connect_id, s.sid)
           b == Stanza("RES_DISCONNECTED_EVENT_FAILURE", s.connect_id, s.sid)
<1>1. s.connect_id \in Nat /\ s.sid \in {NULL_SESSION_ID} \cup SessionIds
  BY SessionFields
<1>2. /\ a \in GoodMsg(unequal_task_id_) /\ News(a) /\ a.id = s.connect_id /\ a.sid = s.sid
      /\ a.type = "REQ_REMOVE_SESSION_EVENT"
  <2>1. "REQ_REMOVE_SESSION_EVENT" \in StanzaType
        /\ "REQ_REMOVE_SESSION_EVENT" \notin ReqType \cup {"REQ_REMOVE_TASK_EVENT"}
    BY DEF StanzaType, ReqType
  <2> QED
    BY <1>1, <2>1, StanzaGood
<1>3. /\ b \in GoodMsg(unequal_task_id_) /\ News(b) /\ b.id = s.connect_id /\ b.sid = s.sid
      /\ b.type = "RES_DISCONNECTED_EVENT_FAILURE"
  <2>1. PICK type : type = "RES_DISCONNECTED_EVENT_FAILURE"
    OBVIOUS
  <2>2. /\ type \in StanzaType /\ type \notin ReqType \cup {"REQ_REMOVE_TASK_EVENT"}
        /\ type # "RES_RECONNECT_EVENT"
    BY ONLY <2>1 DEF StanzaType, ReqType
  <2>3. b = Stanza(type, s.connect_id, s.sid)
    BY ONLY <2>1 DEF b
  <2> QED
    BY ONLY <1>1, <2>1, <2>2, <2>3, StanzaGood
<1>4. queueQ' = queueQ \o <<a, b>>
  BY DEF ClosePosts
<1> HIDE DEF a, b
<1>5. queueQ' \in Seq(GoodMsg(unequal_task_id_)) /\ Moved(queueQ, queueQ', 0, {a, b})
  <2>1. queueQ \in Seq(GoodMsg(unequal_task_id_))
    BY DEF Typed
  <2> QED
    BY ONLY <1>2, <1>3, <1>4, <2>1, MovedTwo, Zenon
<1> QED
  BY <1>2, <1>3, <1>5

(* A session is closed by its socket or its heartbeat.                     *)
LEMMA OnCloseEventTyped ==
    ASSUME Typed, NEW s \in async_sessions_, OnCloseEvent(s) \/ HeartbeatTimeout(s)
    PROVE  /\ Typed' /\ queueQ' = queueQ \o ClosePosts(s)
           /\ \E t \in Session :
                /\ t.sid = s.sid /\ t.connect_id = s.connect_id /\ t.sent = s.sent
                /\ async_sessions_' = (async_sessions_ \ {s}) \cup {t}
<1>1. PICK t \in Session : /\ t.sid = s.sid /\ t.connect_id = s.connect_id /\ t.sent = s.sent
                          /\ Update(s, t)
  <2>1. s \in Session
    BY SessionFields
  <2>2. CASE OnCloseEvent(s)
    <3>1. Update(s, [s EXCEPT !.state = "CS_CLOSED"])
      BY <2>2 DEF OnCloseEvent
    <3> QED
      BY <2>1, <3>1 DEF Session
  <2>3. CASE HeartbeatTimeout(s)
    <3>1. Update(s, [s EXCEPT !.beating = FALSE, !.bound = (s.state = "CS_CLOSED")])
      BY <2>3 DEF HeartbeatTimeout
    <3> QED
      BY <2>1, <3>1 DEF Session
  <2> QED
    BY <2>2, <2>3
<1>2. async_sessions_' \subseteq Session /\ async_sessions_' = (async_sessions_ \ {s}) \cup {t}
  BY <1>1, UpdateTyped
<1>3. queueQ' = queueQ \o ClosePosts(s) /\ drops' = drops + 1 /\ drops < scenario.drops
  BY DEF OnCloseEvent, HeartbeatTimeout
<1>4. queueQ' \in Seq(GoodMsg(unequal_task_id_))
  BY <1>3, ClosePosted
<1>5. drops' \in 0 .. scenario.drops
  BY <1>3, Ids DEF Typed
<1>6. UNCHANGED <<unequal_task_id_, unequal_session_id_, user, userQ, asyncQ, tasks_,
                  reconnects, history>>
  BY DEF OnCloseEvent, HeartbeatTimeout
<1>7. Typed'
  BY <1>2, <1>4, <1>5, <1>6 DEF Typed, history
<1> QED
  BY <1>1, <1>2, <1>3, <1>7

(* A request is answered.                                                  *)
LEMMA OnSessionPacketTyped ==
    ASSUME Typed, NEW s \in async_sessions_, NEW r \in s.sent, OnSessionPacketEvent(s, r)
    PROVE  /\ Typed'
           /\ \E t \in Session :
                /\ t.sid = s.sid /\ t.connect_id = s.connect_id /\ t.sent = s.sent \ {r}
                /\ async_sessions_' = (async_sessions_ \ {s}) \cup {t}
           /\ \E m \in GoodMsg(unequal_task_id_) :
                /\ Moved(queueQ, queueQ', 0, {m}) /\ News(m) /\ m.type = "RES_STANZA_EVENT"
                /\ m.id = 0 /\ m.sid = s.sid /\ m.req = r.req
<1> DEFINE t == [s EXCEPT !.sent = @ \ {r}]
           m == [Stanza("RES_STANZA_EVENT", 0, s.sid) EXCEPT !.cmd = r.cmd, !.req = r.req]
<1>1. /\ s \in Session /\ s.sid \in {NULL_SESSION_ID} \cup SessionIds
      /\ r \in [req : TaskIds, cmd : Cmds]
  BY SessionFields
<1>2. t \in Session /\ t.sid = s.sid /\ t.connect_id = s.connect_id /\ t.sent = s.sent \ {r}
  BY <1>1 DEF Session
<1>3. queueQ' = Append(queueQ, m) /\ Update(s, t)
  BY DEF OnSessionPacketEvent
<1> HIDE DEF t
<1>4. /\ m \in Message /\ m.type = "RES_STANZA_EVENT" /\ m.id = 0 /\ m.sid = s.sid /\ m.req = r.req
  BY <1>1 DEF Stanza, Message, StanzaType
<1> HIDE DEF m
<1>5. m \in GoodMsg(unequal_task_id_) /\ News(m)
  BY <1>4 DEF GoodMsg, News, Req, ReqType
<1>6. queueQ' \in Seq(GoodMsg(unequal_task_id_)) /\ Moved(queueQ, queueQ', 0, {m})
  BY <1>3, <1>5, MovedAppend DEF Typed
<1>7. async_sessions_' \subseteq Session /\ async_sessions_' = (async_sessions_ \ {s}) \cup {t}
  BY <1>2, <1>3, UpdateTyped
<1>8. Typed'
  BY <1>6, <1>7 DEF Typed, OnSessionPacketEvent, history
<1> QED
  BY <1>2, <1>4, <1>5, <1>6, <1>7, <1>8

(* A task enters tasks_ and goes on to the async thread.                   *)
LEMMA TranslateTyped ==
    ASSUME Typed, OnTranslateToAsyncLayer
    PROVE  /\ Typed' /\ 1 \in DOMAIN queueQ /\ Req(queueQ[1]) /\ Moved(queueQ, queueQ', 1, {})
           /\ Moved(asyncQ, asyncQ', 0, {queueQ[1]})
           /\ queueQ[1].task \in GoodTask(unequal_task_id_) /\ queueQ[1] \in Message
           /\ queueQ[1].id = queueQ[1].task.id /\ queueQ[1].type = queueQ[1].task.type
           /\ queueQ[1].sid = queueQ[1].task.sid
           /\ tasks_' = tasks_ \cup {queueQ[1].task}
<1>1. queueQ # <<>> /\ Req(Head(queueQ))
  BY DEF OnTranslateToAsyncLayer, QueueGets, Req, ReqType
<1>2. /\ Head(queueQ) \in GoodMsg(unequal_task_id_) /\ Head(queueQ) = queueQ[1]
      /\ 1 \in DOMAIN queueQ /\ queueQ[1] \in Message
  BY <1>1, HeadOfQueue
<1>3. /\ queueQ' \in Seq(GoodMsg(unequal_task_id_)) /\ Moved(queueQ, queueQ', 1, {})
  <2>1. queueQ' = Tail(queueQ) /\ queueQ \in Seq(GoodMsg(unequal_task_id_))
    BY DEF OnTranslateToAsyncLayer, Typed
  <2> QED
    BY <1>1, <2>1, MovedTail
<1>4. Head(queueQ) \in AsyncMsg(unequal_task_id_)
  BY <1>1, <1>2 DEF AsyncMsg
<1>5. asyncQ' \in Seq(AsyncMsg(unequal_task_id_)) /\ Moved(asyncQ, asyncQ', 0, {Head(queueQ)})
  <2>1. asyncQ' = Append(asyncQ, Head(queueQ)) /\ asyncQ \in Seq(AsyncMsg(unequal_task_id_))
    BY DEF OnTranslateToAsyncLayer, Typed
  <2> QED
    BY <1>4, <2>1, MovedAppend
<1>6. /\ queueQ[1].task \in GoodTask(unequal_task_id_) /\ queueQ[1].id = queueQ[1].task.id
      /\ queueQ[1].type = queueQ[1].task.type /\ queueQ[1].sid = queueQ[1].task.sid
  BY <1>1, <1>2 DEF GoodMsg
<1>7. tasks_' = tasks_ \cup {queueQ[1].task}
  BY <1>2 DEF OnTranslateToAsyncLayer
<1>8. Typed'
  BY <1>3, <1>5, <1>6, <1>7 DEF Typed, OnTranslateToAsyncLayer, history
<1> QED
  BY <1>1, <1>2, <1>3, <1>5, <1>6, <1>7, <1>8

(* A task leaves tasks_, and its messages leave its thread's queue.        *)
LEMMA OnRemoveTyped ==
    ASSUME Typed, OnRemoveTaskMessage
    PROVE  /\ Typed' /\ 1 \in DOMAIN queueQ /\ queueQ[1].type = "REQ_REMOVE_TASK_EVENT"
           /\ Moved(queueQ, queueQ', 1, {}) /\ tasks_' = tasks_ \ {queueQ[1].task}
           /\ \A v \in Users :
                /\ \A i \in DOMAIN userQ'[v] : \E j \in DOMAIN userQ[v] : userQ'[v][i] = userQ[v][j]
                /\ \A i, j \in DOMAIN userQ'[v] : i # j =>
                     \E a, b \in DOMAIN userQ[v] :
                        a # b /\ userQ'[v][i] = userQ[v][a] /\ userQ'[v][j] = userQ[v][b]
<1> DEFINE t == queueQ[1].task
           q == userQ[t.owner]
           keep == {q[i] : i \in {j \in DOMAIN q : q[j].id # t.id}}
<1>1. queueQ # <<>> /\ Head(queueQ).type = "REQ_REMOVE_TASK_EVENT"
  BY DEF OnRemoveTaskMessage, QueueGets
<1>2. /\ Head(queueQ) \in GoodMsg(unequal_task_id_) /\ Head(queueQ) = queueQ[1]
      /\ 1 \in DOMAIN queueQ
  BY <1>1, HeadOfQueue
<1>3. /\ queueQ' \in Seq(GoodMsg(unequal_task_id_)) /\ Moved(queueQ, queueQ', 1, {})
  <2>1. queueQ' = Tail(queueQ) /\ queueQ \in Seq(GoodMsg(unequal_task_id_))
    BY DEF OnRemoveTaskMessage, Typed
  <2> QED
    BY <1>1, <2>1, MovedTail
<1>4. t \in GoodTask(unequal_task_id_)
  BY <1>1, <1>2 DEF GoodMsg
<1>5. t.owner \in Users
  BY <1>4, TaskFields
<1>6. q \in Seq(Message)
  BY <1>5 DEF Typed
<1>7. tasks_' = tasks_ \ {t} /\ userQ' = [userQ EXCEPT ![t.owner] = Selected(q, keep)]
  BY <1>2 DEF OnRemoveTaskMessage
<1> HIDE DEF keep
<1>8. /\ Selected(q, keep) \in Seq(Message)
      /\ \A i \in DOMAIN Selected(q, keep) : \E j \in DOMAIN q : Selected(q, keep)[i] = q[j]
  <2> HIDE DEF q
  <2>1. Selected(q, keep) \in Seq(Message)
    BY <1>6, SelectedElements
  <2>2. \A i \in DOMAIN Selected(q, keep) : \E j \in DOMAIN q : q[j] = Selected(q, keep)[i]
    BY <1>6, SelectedElements
  <2> QED
    BY <2>1, <2>2
<1>9. \A i, j \in DOMAIN Selected(q, keep) : i # j =>
         \E a, b \in DOMAIN q : a # b /\ Selected(q, keep)[i] = q[a] /\ Selected(q, keep)[j] = q[b]
  <2> HIDE DEF q
  <2> SUFFICES ASSUME NEW i \in DOMAIN Selected(q, keep), NEW j \in DOMAIN Selected(q, keep), i # j
               PROVE  \E a, b \in DOMAIN q : a # b /\ Selected(q, keep)[i] = q[a] /\ Selected(q, keep)[j] = q[b]
    OBVIOUS
  <2>1. \E a, b \in DOMAIN q : /\ a # b /\ (i < j => a < b)
                              /\ q[a] = Selected(q, keep)[i] /\ q[b] = Selected(q, keep)[j]
    BY <1>6, SelectedDistinct
  <2> QED
    BY <2>1
<1>10. userQ' \in [Users -> Seq(Message)]
  BY <1>7, <1>8 DEF Typed
<1>11. \A v \in Users : userQ'[v] = IF v = t.owner THEN Selected(q, keep) ELSE userQ[v]
  BY <1>7 DEF Typed
<1>12. \A v \in Users :
          /\ \A i \in DOMAIN userQ'[v] : \E j \in DOMAIN userQ[v] : userQ'[v][i] = userQ[v][j]
          /\ \A i, j \in DOMAIN userQ'[v] : i # j =>
                     \E a, b \in DOMAIN userQ[v] :
                        a # b /\ userQ'[v][i] = userQ[v][a] /\ userQ'[v][j] = userQ[v][b]
  <2> TAKE v \in Users
  <2>1. CASE v = t.owner
    <3>1. userQ'[v] = Selected(q, keep) /\ userQ[v] = q
      BY <1>11, <2>1
    <3> HIDE DEF q
    <3> QED
      BY <1>8, <1>9, <3>1
  <2>2. CASE v # t.owner
    <3>1. userQ'[v] = userQ[v]
      BY <1>11, <2>2
    <3> QED
      BY <3>1
  <2> QED
    BY <2>1, <2>2
<1>13. Typed'
  BY <1>3, <1>7, <1>10, Zenon DEF Typed, OnRemoveTaskMessage, history
<1> QED
  BY <1>1, <1>2, <1>3, <1>7, <1>12, <1>13

(* Messages that the queue thread handles alone.                           *)
LEMMA QueueRemoveTyped ==
    ASSUME Typed, QueueRemoveSession \/ DropMessage
    PROVE  /\ Typed' /\ 1 \in DOMAIN queueQ /\ News(queueQ[1]) /\ Moved(queueQ, queueQ', 1, {})
           /\ async_sessions_' \subseteq async_sessions_
<1>1. queueQ # <<>> /\ News(Head(queueQ))
  BY DEF QueueRemoveSession, DropMessage, QueueGets, News, ReqType
<1>2. Head(queueQ) = queueQ[1] /\ 1 \in DOMAIN queueQ
  BY <1>1, HeadOfQueue
<1>3. /\ queueQ' \in Seq(GoodMsg(unequal_task_id_)) /\ Moved(queueQ, queueQ', 1, {})
  <2>1. queueQ' = Tail(queueQ) /\ queueQ \in Seq(GoodMsg(unequal_task_id_))
    BY DEF QueueRemoveSession, DropMessage, Typed
  <2> QED
    BY <1>1, <2>1, MovedTail
<1>4. async_sessions_' \subseteq async_sessions_
  BY DEF QueueRemoveSession, DropMessage, RemoveSession
<1>5. UNCHANGED <<unequal_task_id_, unequal_session_id_, user, userQ, asyncQ, tasks_,
                  reconnects, drops, history>>
  BY DEF QueueRemoveSession, DropMessage
<1>6. Typed'
  BY <1>3, <1>4, <1>5 DEF Typed, history
<1> QED
  BY <1>1, <1>2, <1>3, <1>4, <1>6

(* A response goes to the first task that takes it, if any does.           *)
LEMMA ToSyncTyped ==
    ASSUME Typed, OntranslateToSyncLayer
    PROVE  /\ Typed' /\ 1 \in DOMAIN queueQ /\ News(queueQ[1]) /\ Moved(queueQ, queueQ', 1, {})
           /\ queueQ[1] \in Message /\ queueQ[1].type # "RES_SESSION_NOT_FOUND"
           /\ \/ userQ' = userQ
              \/ \E t \in tasks_, m \in Message :
                   /\ HandleMessage(t, queueQ[1])
                   /\ m.id = t.id /\ m.sid = queueQ[1].sid /\ m.type = queueQ[1].type
                   /\ m.req = queueQ[1].req
                   /\ userQ' = [userQ EXCEPT ![t.owner] = Append(userQ[t.owner], m)]
<1> DEFINE h == queueQ[1]
<1>1. /\ queueQ # <<>> /\ News(Head(queueQ)) /\ Head(queueQ).type # "RES_SESSION_NOT_FOUND"
  BY Zenon DEF OntranslateToSyncLayer, QueueGets, News, ReqType
<1>2. Head(queueQ) = h /\ 1 \in DOMAIN queueQ /\ h \in Message
  BY <1>1, HeadOfQueue
<1>3. /\ queueQ' \in Seq(GoodMsg(unequal_task_id_)) /\ Moved(queueQ, queueQ', 1, {})
  <2>1. queueQ' = Tail(queueQ) /\ queueQ \in Seq(GoodMsg(unequal_task_id_))
    BY Zenon DEF OntranslateToSyncLayer, Typed
  <2> QED
    BY <1>1, <2>1, MovedTail
<1>4. \/ userQ' = userQ
      \/ \E t \in tasks_, m \in Message :
                   /\ HandleMessage(t, h)
                   /\ m.id = t.id /\ m.sid = h.sid /\ m.type = h.type
                   /\ m.req = h.req
                   /\ userQ' = [userQ EXCEPT ![t.owner] = Append(userQ[t.owner], m)]
  <2>1. \/ userQ' = userQ
        \/ \E t \in tasks_ :
             /\ HandleMessage(t, h)
             /\ userQ' = [userQ EXCEPT ![t.owner] =
                            Append(@, [h EXCEPT !.phandler = "task", !.id = t.id])]
    BY <1>2, Zenon DEF OntranslateToSyncLayer
  <2> SUFFICES ASSUME NEW t \in tasks_, HandleMessage(t, h),
                      userQ' = [userQ EXCEPT ![t.owner] =
                            Append(@, [h EXCEPT !.phandler = "task", !.id = t.id])]
               PROVE  \E m \in Message :
                   /\ m.id = t.id /\ m.sid = h.sid /\ m.type = h.type
                   /\ m.req = h.req
                   /\ userQ' = [userQ EXCEPT ![t.owner] = Append(userQ[t.owner], m)]
    BY <2>1, Zenon
  <2> DEFINE m == [h EXCEPT !.phandler = "task", !.id = t.id]
  <2>2. t \in GoodTask(unequal_task_id_)
    BY DEF Typed
  <2>3. t.id \in Nat /\ t.owner \in Users
    BY <2>2, TaskFields, IdNumbers
  <2>4. m \in Message /\ m.id = t.id /\ m.sid = h.sid /\ m.type = h.type /\ m.req = h.req
    BY <1>2, <2>3 DEF Message
  <2>5. userQ' = [userQ EXCEPT ![t.owner] = Append(userQ[t.owner], m)]
    OBVIOUS
  <2> HIDE DEF m
  <2> QED
    BY <2>4, <2>5
<1>5. userQ' \in [Users -> Seq(Message)]
  <2>1. \A t \in tasks_, m \in Message :
           [userQ EXCEPT ![t.owner] = Append(userQ[t.owner], m)] \in [Users -> Seq(Message)]
    <3> TAKE t \in tasks_, m \in Message
    <3>1. t \in GoodTask(unequal_task_id_)
      BY DEF Typed
    <3>2. t.owner \in Users
      BY <3>1, TaskFields
    <3>3. Append(userQ[t.owner], m) \in Seq(Message)
      BY <3>2 DEF Typed
    <3> QED
      BY <3>3 DEF Typed
  <2>2. userQ' = userQ \/ \E t \in tasks_, m \in Message :
           userQ' = [userQ EXCEPT ![t.owner] = Append(userQ[t.owner], m)]
    BY <1>4
  <2>3. CASE userQ' = userQ
    BY <2>3 DEF Typed
  <2> QED
    BY <2>1, <2>2, <2>3
<1>6. Typed'
  BY <1>3, <1>5, Zenon DEF Typed, OntranslateToSyncLayer, history
<1> QED
  BY <1>1, <1>2, <1>3, <1>4, <1>6

(* QueueLayer passes the reconnect message on.                             *)
LEMMA ReConnectTyped ==
    ASSUME Typed, ReConnect
    PROVE  /\ Typed' /\ 1 \in DOMAIN queueQ /\ News(queueQ[1])
           /\ \E m \in GoodMsg(unequal_task_id_) :
                /\ Moved(queueQ, queueQ', 1, {m}) /\ News(m) /\ m.type = "RES_RECONNECT_EVENT"
                /\ m.id = queueQ[1].id /\ m.sid = queueQ[1].sid
<1> DEFINE m == [queueQ[1] EXCEPT !.phandler = "session_manager"]
<1>1. queueQ # <<>> /\ Head(queueQ).type = "RES_RECONNECT_EVENT"
  BY DEF ReConnect, QueueGets
<1>2. Head(queueQ) = queueQ[1] /\ 1 \in DOMAIN queueQ /\ queueQ[1] \in GoodMsg(unequal_task_id_)
  BY <1>1, HeadOfQueue
<1>3. queueQ[1] \in Message /\ queueQ[1].sid # NULL_SESSION_ID /\ queueQ[1].type = "RES_RECONNECT_EVENT"
  BY <1>1, <1>2 DEF GoodMsg
<1>4. /\ m \in Message /\ m.id = queueQ[1].id /\ m.sid = queueQ[1].sid
      /\ m.type = "RES_RECONNECT_EVENT"
  BY <1>3 DEF Message
<1>5. queueQ' = Append(Tail(queueQ), m)
  BY <1>2 DEF ReConnect
<1> HIDE DEF m
<1>6. m \in GoodMsg(unequal_task_id_) /\ News(m) /\ News(queueQ[1])
  BY <1>3, <1>4 DEF GoodMsg, News, Req, ReqType
<1>7. queueQ' \in Seq(GoodMsg(unequal_task_id_)) /\ Moved(queueQ, queueQ', 1, {m})
  BY <1>1, <1>5, <1>6, MovedBoth DEF Typed
<1>8. Typed'
  BY <1>7 DEF Typed, ReConnect, history
<1> QED
  BY <1>2, <1>4, <1>6, <1>7, <1>8

(* The SessionManager gets the reconnect message on the queue thread.      *)
LEMMA FirstReconnectTyped ==
    ASSUME Typed, NEW r \in scenario.connects, FirstReconnect(r)
    PROVE  /\ Typed' /\ 1 \in DOMAIN queueQ /\ News(queueQ[1]) /\ Moved(queueQ, queueQ', 1, {})
           /\ queueQ[1].sid \in SessionIds /\ OnReconnectMessage(queueQ[1].sid, r)
<1>1. queueQ # <<>> /\ Head(queueQ).type = "RES_RECONNECT_EVENT"
  BY DEF FirstReconnect, QueueGets
<1>2. Head(queueQ) = queueQ[1] /\ 1 \in DOMAIN queueQ /\ queueQ[1] \in GoodMsg(unequal_task_id_)
  BY <1>1, HeadOfQueue
<1>3. queueQ[1] \in Message /\ queueQ[1].sid # NULL_SESSION_ID /\ News(queueQ[1])
  BY <1>1, <1>2 DEF GoodMsg, News, ReqType
<1>4. queueQ[1].sid \in SessionIds
  BY <1>3, MessageFields
<1>5. /\ queueQ' \in Seq(GoodMsg(unequal_task_id_)) /\ Moved(queueQ, queueQ', 1, {})
  <2>1. queueQ' = Tail(queueQ) /\ queueQ \in Seq(GoodMsg(unequal_task_id_))
    BY DEF FirstReconnect, Typed
  <2> QED
    BY <1>1, <2>1, MovedTail
<1>6. OnReconnectMessage(queueQ[1].sid, r)
  BY <1>2 DEF FirstReconnect
<1>7. /\ drops' \in 0 .. scenario.drops /\ reconnects' = reconnects \cup {queueQ[1].sid}
      /\ async_sessions_' \subseteq Session
  BY <1>4, <1>6, ReconnectTyped
<1>8. Typed'
  BY <1>4, <1>5, <1>7 DEF Typed, FirstReconnect, history
<1> QED
  BY <1>2, <1>3, <1>4, <1>5, <1>6, <1>8
-----------------------------------------------------------------------------
(* Messages and ids of the two queues, as numbers.                         *)
LEMMA QueueFacts ==
    ASSUME Typed
    PROVE  /\ DOMAIN queueQ \subseteq Nat /\ DOMAIN asyncQ \subseteq Nat
           /\ DOMAIN queueQ = 1 .. Len(queueQ) /\ DOMAIN asyncQ = 1 .. Len(asyncQ)
           /\ Len(queueQ) \in Nat /\ Len(asyncQ) \in Nat
           /\ \A i \in DOMAIN queueQ : queueQ[i] \in GoodMsg(unequal_task_id_)
           /\ \A i \in DOMAIN asyncQ : asyncQ[i] \in AsyncMsg(unequal_task_id_)
<1>1. queueQ \in Seq(GoodMsg(unequal_task_id_)) /\ asyncQ \in Seq(AsyncMsg(unequal_task_id_))
  BY DEF Typed
<1> QED
  BY <1>1

(* The same in the next state.                                             *)
LEMMA QueueFactsNext ==
    ASSUME Typed'
    PROVE  /\ DOMAIN queueQ' \subseteq Nat /\ DOMAIN asyncQ' \subseteq Nat
           /\ DOMAIN queueQ' = 1 .. Len(queueQ') /\ DOMAIN asyncQ' = 1 .. Len(asyncQ')
           /\ Len(queueQ') \in Nat /\ Len(asyncQ') \in Nat
           /\ \A i \in DOMAIN queueQ' : queueQ'[i] \in GoodMsg(unequal_task_id_')
           /\ \A i \in DOMAIN asyncQ' : asyncQ'[i] \in AsyncMsg(unequal_task_id_')
<1>1. queueQ' \in Seq(GoodMsg(unequal_task_id_')) /\ asyncQ' \in Seq(AsyncMsg(unequal_task_id_'))
  BY DEF Typed
<1> QED
  BY <1>1

(* What a message of queueQ is.                                            *)
LEMMA GoodMsgFields ==
    ASSUME NEW top, NEW m \in GoodMsg(top)
    PROVE  /\ m \in Message /\ m.id \in Nat
           /\ Req(m) => /\ m.task \in GoodTask(top) /\ m.id = m.task.id /\ m.type = m.task.type
                        /\ m.sid = m.task.sid /\ m.id \in TaskIds /\ m.id <= top
           /\ m.type = "REQ_REMOVE_TASK_EVENT" => m.task \in GoodTask(top)
<1>1. /\ m \in Message
      /\ Req(m) => /\ m.task \in GoodTask(top) /\ m.id = m.task.id /\ m.type = m.task.type
                   /\ m.sid = m.task.sid
      /\ m.type = "REQ_REMOVE_TASK_EVENT" => m.task \in GoodTask(top)
  BY DEF GoodMsg
<1>2. m.id \in Nat
  BY <1>1, MessageFields
<1>3. Req(m) => m.task.id \in TaskIds /\ m.task.id <= top
  BY <1>1, TaskFields
<1> QED
  BY <1>1, <1>2, <1>3

(* What a message of asyncQ is.                                            *)
LEMMA AsyncMsgFields ==
    ASSUME NEW top, NEW m \in AsyncMsg(top)
    PROVE  /\ m \in Message /\ Req(m) /\ m.id \in Nat
           /\ m.task \in GoodTask(top) /\ m.id = m.task.id /\ m.type = m.task.type
           /\ m.sid = m.task.sid /\ m.id \in TaskIds /\ m.id <= top
<1>1. m \in GoodMsg(top) /\ Req(m)
  BY DEF AsyncMsg
<1> QED
  BY <1>1, GoodMsgFields

(* Order and Accounted survive a step that moves only news.                *)
LEMMA QuietOrder ==
    ASSUME Typed, Typed', Order, NEW d \in {0, 1}, NEW new, Moved(queueQ, queueQ', d, new),
           \A m \in new : News(m), NEW e \in {0, 1}, Moved(asyncQ, asyncQ', e, {}),
           unequal_session_id_' = unequal_session_id_
    PROVE  Order'
<1>1. \A i \in DOMAIN queueQ' : Req(queueQ'[i]) => i + d \in DOMAIN queueQ /\ queueQ'[i] = queueQ[i + d]
  BY DEF Moved, News, Req
<1>2. \A i \in DOMAIN asyncQ' : i + e \in DOMAIN asyncQ /\ asyncQ'[i] = asyncQ[i + e]
  BY DEF Moved
<1>3. DOMAIN queueQ' \subseteq Nat /\ DOMAIN asyncQ' \subseteq Nat
  BY QueueFactsNext
<1>4. \A i, j \in DOMAIN queueQ' : i < j => i + d < j + d
  BY <1>3
<1>5. \A i, j \in DOMAIN asyncQ' : i < j => i + e < j + e
  BY <1>3
<1>6. \A i, j \in DOMAIN queueQ' :
          i < j /\ Req(queueQ'[i]) /\ Req(queueQ'[j]) => queueQ'[i].id < queueQ'[j].id
  BY <1>1, <1>4 DEF Order
<1>7. \A i, j \in DOMAIN asyncQ' : i < j => asyncQ'[i].id < asyncQ'[j].id
  BY <1>2, <1>5 DEF Order
<1>8. \A i \in DOMAIN asyncQ', j \in DOMAIN queueQ' :
          Req(queueQ'[j]) => asyncQ'[i].id < queueQ'[j].id
  BY <1>1, <1>2 DEF Order
<1>9. \A i \in DOMAIN asyncQ' : unequal_session_id_ + 1 < asyncQ'[i].id
  BY <1>2 DEF Order
<1>10. \A i \in DOMAIN queueQ' : Req(queueQ'[i]) => unequal_session_id_ + 1 < queueQ'[i].id
  BY <1>1 DEF Order
<1> QED
  BY <1>6, <1>7, <1>8, <1>9, <1>10 DEF Order, Req

(* The same for the tasks that are accounted for.                          *)
LEMMA QuietAccounted ==
    ASSUME Typed, Typed', Accounted, NEW d \in {0, 1}, NEW new, Moved(queueQ, queueQ', d, new),
           \A m \in new : News(m), d = 1 => News(queueQ[1]),
           tasks_' = tasks_, \A t \in Task : Waited(t) => Waited(t)'
    PROVE  Accounted'
<1>0. DOMAIN queueQ \subseteq Nat /\ DOMAIN queueQ' \subseteq Nat /\ DOMAIN queueQ = 1 .. Len(queueQ)
      /\ Len(queueQ) \in Nat
  BY QueueFacts, QueueFactsNext
<1>1. \A i \in DOMAIN queueQ' : Req(queueQ'[i]) => i + d \in DOMAIN queueQ /\ queueQ'[i] = queueQ[i + d]
  BY DEF Moved, News, Req
<1>2. \A t : \A j \in DOMAIN queueQ : Removes(queueQ[j], t) =>
          j - d \in DOMAIN queueQ' /\ Removes(queueQ'[j - d], t)
  <2> SUFFICES ASSUME NEW t, NEW j \in DOMAIN queueQ, Removes(queueQ[j], t)
               PROVE  j - d \in DOMAIN queueQ' /\ Removes(queueQ'[j - d], t)
    OBVIOUS
  <2>1. j > d
    <3>1. d = 1 => j # 1
      BY DEF News, Removes
    <3> QED
      BY <1>0, <3>1
  <2> QED
    BY <2>1 DEF Moved
<1>3. \A t \in tasks_ : Waited(t)' \/ \E j \in DOMAIN queueQ' : Removes(queueQ'[j], t)
  <2> TAKE t \in tasks_
  <2>1. t \in Task
    BY DEF Typed, GoodTask
  <2>2. Waited(t) \/ \E j \in DOMAIN queueQ : Removes(queueQ[j], t)
    BY DEF Accounted
  <2> QED
    BY <1>2, <2>1, <2>2
<1>4. \A i \in DOMAIN queueQ' : \A t : Req(queueQ'[i]) /\ t = queueQ'[i].task =>
          Waited(t)' \/ \E j \in DOMAIN queueQ' : i < j /\ Removes(queueQ'[j], t)
  <2> SUFFICES ASSUME NEW i \in DOMAIN queueQ', NEW t, Req(queueQ'[i]), t = queueQ'[i].task
               PROVE  Waited(t)' \/ \E j \in DOMAIN queueQ' : i < j /\ Removes(queueQ'[j], t)
    OBVIOUS
  <2>1. i + d \in DOMAIN queueQ /\ queueQ'[i] = queueQ[i + d]
    BY <1>1
  <2>2. t \in Task
    <3>1. queueQ[i + d] \in GoodMsg(unequal_task_id_)
      BY <2>1, QueueFacts
    <3> QED
      BY <2>1, <3>1 DEF GoodMsg, GoodTask
  <2>3. Waited(t) \/ \E j \in DOMAIN queueQ : i + d < j /\ Removes(queueQ[j], t)
    BY <2>1 DEF Accounted
  <2>4. ASSUME NEW j \in DOMAIN queueQ, i + d < j, Removes(queueQ[j], t)
        PROVE  \E k \in DOMAIN queueQ' : i < k /\ Removes(queueQ'[k], t)
    <3>1. j - d \in DOMAIN queueQ' /\ Removes(queueQ'[j - d], t)
      BY <1>2, <2>4
    <3>2. i < j - d
      BY <1>0, <2>4
    <3> QED
      BY <3>1, <3>2
  <2> QED
    BY <2>2, <2>3, <2>4
<1> QED
  BY <1>3, <1>4 DEF Accounted, Req, Removes, Waited

(* Who is waited for when a user thread goes a step that ends no wait.     *)
LEMMA StillWaited ==
    ASSUME Typed, NEW u \in Users, \A v \in Users : v # u => user'[v] = user[v],
           \/ user[u].pc \notin {"wait", "done"}
           \/ user'[u].task = user[u].task /\ user'[u].pc \in {"wait", "done"}
    PROVE  \A t \in Task : Waited(t) => Waited(t)'
<1> SUFFICES ASSUME NEW t \in Task, Waited(t) PROVE Waited(t)'
  OBVIOUS
<1>1. t.owner \in Users
  BY DEF Task
<1>2. CASE t.owner = u
  BY <1>2 DEF Waited
<1>3. CASE t.owner # u
  BY <1>1, <1>3 DEF Waited
<1> QED
  BY <1>2, <1>3

(* A new task has the highest id and is waited for.                        *)
LEMMA StartKeeps ==
    ASSUME Typed, Typed', Order, Accounted, NEW u \in Users, user[u].pc = "idle",
           NEW t \in GoodTask(unequal_task_id_ + 1), t.id = unequal_task_id_ + 1, t.owner = u,
           queueQ' = Append(queueQ, TaskStanza(t.type, t)),
           user'[u].task = t, user'[u].pc = "wait", \A v \in Users : v # u => user'[v] = user[v],
           unequal_task_id_' = unequal_task_id_ + 1,
           UNCHANGED <<unequal_session_id_, asyncQ, tasks_>>
    PROVE  Order' /\ Accounted'
<1> DEFINE M == TaskStanza(t.type, t)
           n == Len(queueQ)
<1>1. M.type = t.type /\ M.task = t /\ M.id = t.id
  BY TaskStanzaGood
<1>2. t.type \in ReqType
  BY TaskFields
<1>3. Req(M)
  BY <1>1, <1>2 DEF Req
<1>4. queueQ \in Seq(GoodMsg(unequal_task_id_)) /\ queueQ' = Append(queueQ, M)
  BY DEF Typed
<1> HIDE DEF M
<1>5. /\ n \in Nat /\ DOMAIN queueQ = 1 .. n /\ DOMAIN queueQ' = 1 .. n + 1
      /\ queueQ'[n + 1] = M /\ \A i \in 1 .. n : queueQ'[i] = queueQ[i]
  BY <1>4
<1> HIDE DEF n
<1>6. \A i \in DOMAIN queueQ' : i \in DOMAIN queueQ \/ i = n + 1
  BY <1>5
<1>7. \A i \in DOMAIN queueQ : Req(queueQ[i]) => queueQ[i].id \in Nat /\ queueQ[i].id < t.id
  <2> SUFFICES ASSUME NEW i \in DOMAIN queueQ, Req(queueQ[i])
               PROVE  queueQ[i].id \in Nat /\ queueQ[i].id < t.id
    OBVIOUS
  <2>1. queueQ[i] \in GoodMsg(unequal_task_id_) /\ unequal_task_id_ \in Int
    BY QueueFacts DEF Typed
  <2>2. queueQ[i].id \in Nat /\ queueQ[i].id <= unequal_task_id_
    BY <2>1, GoodMsgFields
  <2> QED
    BY <2>1, <2>2
<1>8. \A i \in DOMAIN asyncQ : asyncQ[i].id < t.id
  <2> TAKE i \in DOMAIN asyncQ
  <2>1. asyncQ[i] \in AsyncMsg(unequal_task_id_) /\ unequal_task_id_ \in Int
    BY Counters, QueueFacts
  <2>2. asyncQ[i].id \in Nat /\ asyncQ[i].id <= unequal_task_id_
    BY <2>1, AsyncMsgFields
  <2> QED
    BY <2>1, <2>2
<1>9. unequal_session_id_ + 1 < t.id
  <2>1. PICK k, l : k = unequal_task_id_ /\ l = unequal_session_id_
    OBVIOUS
  <2>2. k \in Nat /\ l \in Nat /\ l < k /\ t.id = k + 1
    BY <2>1, Counters
  <2>3. l + 1 < t.id
    BY ONLY <2>2
  <2> QED
    BY ONLY <2>1, <2>3
<1>10. Order'
  <2>1. \A i, j \in DOMAIN queueQ' :
          i < j /\ Req(queueQ'[i]) /\ Req(queueQ'[j]) => queueQ'[i].id < queueQ'[j].id
    <3> SUFFICES ASSUME NEW i \in DOMAIN queueQ', NEW j \in DOMAIN queueQ', i < j,
                        Req(queueQ'[i]), Req(queueQ'[j])
                 PROVE  queueQ'[i].id < queueQ'[j].id
      OBVIOUS
    <3>1. i \in DOMAIN queueQ
      BY <1>5
    <3>2. CASE j = n + 1
      BY <1>1, <1>5, <1>7, <3>1, <3>2
    <3>3. CASE j \in DOMAIN queueQ
      BY <1>5, <3>1, <3>3 DEF Order
    <3> QED
      BY <1>6, <3>2, <3>3
  <2>2. \A i \in DOMAIN asyncQ, j \in DOMAIN queueQ' :
          Req(queueQ'[j]) => asyncQ[i].id < queueQ'[j].id
    BY <1>1, <1>5, <1>6, <1>8 DEF Order
  <2>3. \A i \in DOMAIN queueQ' : Req(queueQ'[i]) => unequal_session_id_ + 1 < queueQ'[i].id
    BY <1>1, <1>5, <1>6, <1>9 DEF Order
  <2> QED
    BY <2>1, <2>2, <2>3 DEF Order, Req
<1>11. \A x \in Task : Waited(x) => Waited(x)'
  BY StillWaited
<1>12. Waited(t)'
  BY DEF Waited
<1>13. \A x \in tasks_ : Waited(x)' \/ \E j \in DOMAIN queueQ' : Removes(queueQ'[j], x)
  <2> TAKE x \in tasks_
  <2>1. x \in Task
    BY DEF Typed, GoodTask
  <2>2. Waited(x) \/ \E j \in DOMAIN queueQ : Removes(queueQ[j], x)
    BY DEF Accounted
  <2> QED
    BY <1>5, <1>11, <2>1, <2>2
<1>14. \A i \in DOMAIN queueQ' : \A x : Req(queueQ'[i]) /\ x = queueQ'[i].task =>
          Waited(x)' \/ \E j \in DOMAIN queueQ' : i < j /\ Removes(queueQ'[j], x)
  <2> SUFFICES ASSUME NEW i \in DOMAIN queueQ', NEW x, Req(queueQ'[i]), x = queueQ'[i].task
               PROVE  Waited(x)' \/ \E j \in DOMAIN queueQ' : i < j /\ Removes(queueQ'[j], x)
    OBVIOUS
  <2>1. CASE i = n + 1
    <3>1. x = t
      BY <1>1, <1>5, <2>1
    <3> QED
      BY <1>12, <3>1
  <2>2. CASE i \in DOMAIN queueQ
    <3>1. queueQ'[i] = queueQ[i] /\ queueQ[i] \in GoodMsg(unequal_task_id_)
      BY <1>5, <2>2, QueueFacts
    <3>2. x \in Task
      BY <3>1 DEF GoodMsg, GoodTask
    <3>3. Waited(x) \/ \E j \in DOMAIN queueQ : i < j /\ Removes(queueQ[j], x)
      BY <2>2, <3>1 DEF Accounted
    <3> QED
      BY <1>5, <1>11, <3>2, <3>3
  <2> QED
    BY <1>6, <2>1, <2>2
<1>15. Accounted'
  BY <1>13, <1>14 DEF Accounted, Req, Removes, Waited
<1> QED
  BY <1>10, <1>15

(* The task that is no longer waited for has its removal posted, after its *)
(* request.                                                                *)
LEMMA ReturnKeeps ==
    ASSUME Typed, Typed', Order, Accounted, NEW u \in Users, Return(u)
    PROVE  Order' /\ Accounted'
<1> DEFINE n == Len(queueQ)
<1>1. PICK t : t = user[u].task
  OBVIOUS
<1>2. /\ t \in GoodTask(unequal_task_id_) /\ t.owner = u
      /\ queueQ' = Append(queueQ, TaskStanza("REQ_REMOVE_TASK_EVENT", t))
      /\ \A v \in Users : v # u => user'[v] = user[v]
  BY <1>1, ReturnTyped
<1>3. PICK M : M = TaskStanza("REQ_REMOVE_TASK_EVENT", t)
  OBVIOUS
<1>4. M.type = "REQ_REMOVE_TASK_EVENT" /\ M.task = t
  BY <1>2, <1>3, TaskStanzaGood
<1>5. Removes(M, t) /\ ~Req(M)
  BY <1>4 DEF Removes, Req, ReqType
<1>6. queueQ \in Seq(GoodMsg(unequal_task_id_)) /\ queueQ' = Append(queueQ, M)
  BY <1>2, <1>3 DEF Typed
<1>7. /\ n \in Nat /\ DOMAIN queueQ = 1 .. n /\ DOMAIN queueQ' = 1 .. n + 1
      /\ queueQ'[n + 1] = M /\ \A i \in 1 .. n : queueQ'[i] = queueQ[i]
  BY <1>6
<1> HIDE DEF n
<1>8. \A i \in DOMAIN queueQ' : Req(queueQ'[i]) => i \in DOMAIN queueQ /\ queueQ'[i] = queueQ[i]
  <2> SUFFICES ASSUME NEW i \in DOMAIN queueQ', Req(queueQ'[i])
               PROVE  i \in DOMAIN queueQ /\ queueQ'[i] = queueQ[i]
    OBVIOUS
  <2>1. i # n + 1
    BY <1>5, <1>7
  <2> QED
    BY <1>7, <2>1
<1>9. unequal_session_id_' = unequal_session_id_ /\ asyncQ' = asyncQ /\ tasks_' = tasks_
  BY DEF Return
<1>10. Order'
  BY <1>8, <1>9 DEF Order, Req
<1>11. \A x \in Task : Waited(x) => x = t \/ Waited(x)'
  <2> SUFFICES ASSUME NEW x \in Task, Waited(x), x # t PROVE Waited(x)'
    OBVIOUS
  <2>1. x.owner \in Users
    BY DEF Task
  <2>2. x.owner # u
    BY <1>1 DEF Waited
  <2> QED
    BY <1>2, <2>1, <2>2 DEF Waited
<1>12. \A x \in tasks_ : Waited(x)' \/ \E j \in DOMAIN queueQ' : Removes(queueQ'[j], x)
  <2> TAKE x \in tasks_
  <2>1. x \in Task
    BY DEF Typed, GoodTask
  <2>2. Waited(x) \/ \E j \in DOMAIN queueQ : Removes(queueQ[j], x)
    BY DEF Accounted
  <2>3. n + 1 \in DOMAIN queueQ' /\ Removes(queueQ'[n + 1], t)
    BY <1>5, <1>7
  <2> QED
    BY <1>7, <1>11, <2>1, <2>2, <2>3
<1>13. \A i \in DOMAIN queueQ' : \A x : Req(queueQ'[i]) /\ x = queueQ'[i].task =>
          Waited(x)' \/ \E j \in DOMAIN queueQ' : i < j /\ Removes(queueQ'[j], x)
  <2> SUFFICES ASSUME NEW i \in DOMAIN queueQ', NEW x, Req(queueQ'[i]), x = queueQ'[i].task
               PROVE  Waited(x)' \/ \E j \in DOMAIN queueQ' : i < j /\ Removes(queueQ'[j], x)
    OBVIOUS
  <2>1. i \in DOMAIN queueQ /\ queueQ'[i] = queueQ[i] /\ queueQ[i] \in GoodMsg(unequal_task_id_)
    BY <1>8, QueueFacts
  <2>2. x \in Task
    BY <2>1 DEF GoodMsg, GoodTask
  <2>3. Waited(x) \/ \E j \in DOMAIN queueQ : i < j /\ Removes(queueQ[j], x)
    BY <2>1 DEF Accounted
  <2>4. n + 1 \in DOMAIN queueQ' /\ Removes(queueQ'[n + 1], t) /\ i < n + 1
    BY <1>5, <1>7, <2>1
  <2> QED
    BY <1>7, <1>11, <2>2, <2>3, <2>4
<1>14. Accounted'
  BY <1>9, <1>12, <1>13 DEF Accounted, Req, Removes, Waited
<1> QED
  BY <1>10, <1>14

(* A new session id stays below the ids of the tasks that have yet to be   *)
(* handled: each of them follows the one that is.                          *)
LEMMA OnConnectOrder ==
    ASSUME Typed, Order, Moved(asyncQ, asyncQ', 1, {}), 1 \in DOMAIN asyncQ, queueQ' = queueQ,
           unequal_session_id_' = unequal_session_id_ + 1, Typed'
    PROVE  Order'
<1>1. \A i \in DOMAIN asyncQ' : i + 1 \in DOMAIN asyncQ /\ asyncQ'[i] = asyncQ[i + 1]
  BY DEF Moved
<1>2. DOMAIN asyncQ' \subseteq Nat /\ DOMAIN asyncQ' = 1 .. Len(asyncQ') /\ Len(asyncQ') \in Nat
  BY QueueFactsNext
<1>3. \A i \in DOMAIN asyncQ' : 1 < i + 1
  BY <1>2
<1>4. asyncQ[1].id \in Nat /\ unequal_session_id_ \in Nat /\ unequal_session_id_ + 1 < asyncQ[1].id
  <2>1. asyncQ[1] \in AsyncMsg(unequal_task_id_)
    BY QueueFacts
  <2>2. asyncQ[1].id \in Nat
    BY <2>1, AsyncMsgFields
  <2> QED
    BY <2>2 DEF Typed, Order, FirstTask
<1>5. \A i \in DOMAIN asyncQ' : asyncQ'[i].id \in Nat /\ asyncQ[1].id < asyncQ'[i].id
  <2> TAKE i \in DOMAIN asyncQ'
  <2>1. asyncQ'[i] = asyncQ[i + 1] /\ i + 1 \in DOMAIN asyncQ /\ 1 < i + 1
    BY <1>1, <1>3
  <2>2. asyncQ[i + 1] \in AsyncMsg(unequal_task_id_)
    BY <2>1, QueueFacts
  <2>3. asyncQ[i + 1].id \in Nat
    BY <2>2, AsyncMsgFields
  <2> QED
    BY <2>1, <2>3 DEF Order
<1>6. \A i \in DOMAIN asyncQ' : unequal_session_id_' + 1 < asyncQ'[i].id
  BY <1>4, <1>5
<1>7. \A i \in DOMAIN queueQ : Req(queueQ[i]) => unequal_session_id_' + 1 < queueQ[i].id
  <2> SUFFICES ASSUME NEW i \in DOMAIN queueQ, Req(queueQ[i])
               PROVE  unequal_session_id_' + 1 < queueQ[i].id
    OBVIOUS
  <2>1. queueQ[i] \in GoodMsg(unequal_task_id_)
    BY QueueFacts
  <2>2. queueQ[i].id \in Nat
    BY <2>1, GoodMsgFields
  <2>3. asyncQ[1].id < queueQ[i].id
    BY DEF Order
  <2> QED
    BY <1>4, <2>2, <2>3
<1>8. \A i, j \in DOMAIN asyncQ' : i < j => asyncQ'[i].id < asyncQ'[j].id
  <2>1. \A i, j \in DOMAIN asyncQ' : i < j => i + 1 < j + 1
    BY <1>2
  <2> QED
    BY <1>1, <2>1 DEF Order
<1>9. \A i \in DOMAIN asyncQ', j \in DOMAIN queueQ : Req(queueQ[j]) => asyncQ'[i].id < queueQ[j].id
  BY <1>1 DEF Order
<1>10. \A i, j \in DOMAIN queueQ' :
          i < j /\ Req(queueQ'[i]) /\ Req(queueQ'[j]) => queueQ'[i].id < queueQ'[j].id
  BY DEF Order
<1> QED
  BY <1>6, <1>7, <1>8, <1>9, <1>10 DEF Order, Req

(* The request that moves on was first, and the task that enters tasks_ is *)
(* waited for or has its removal behind it.                                *)
LEMMA TranslateKeeps ==
    ASSUME Typed, Typed', Order, Accounted, OnTranslateToAsyncLayer
    PROVE  Order' /\ Accounted'
<1>1. PICK h, t : h = queueQ[1] /\ t = h.task
  OBVIOUS
<1>2. /\ 1 \in DOMAIN queueQ /\ Req(h) /\ Moved(queueQ, queueQ', 1, {})
      /\ Moved(asyncQ, asyncQ', 0, {h}) /\ t \in GoodTask(unequal_task_id_)
      /\ tasks_' = tasks_ \cup {t}
  BY <1>1, TranslateTyped
<1>3. user' = user /\ unequal_session_id_' = unequal_session_id_
  BY DEF OnTranslateToAsyncLayer
<1>4. /\ DOMAIN queueQ \subseteq Nat /\ DOMAIN queueQ = 1 .. Len(queueQ) /\ Len(queueQ) \in Nat
      /\ DOMAIN queueQ' \subseteq Nat /\ DOMAIN asyncQ' \subseteq Nat /\ DOMAIN asyncQ \subseteq Nat
      /\ DOMAIN queueQ' = 1 .. Len(queueQ') /\ Len(queueQ') \in Nat
      /\ DOMAIN asyncQ = 1 .. Len(asyncQ) /\ Len(asyncQ) \in Nat
  BY QueueFacts, QueueFactsNext
<1>5. \A i \in DOMAIN queueQ' : i + 1 \in DOMAIN queueQ /\ queueQ'[i] = queueQ[i + 1] /\ 1 < i + 1
  BY <1>2, <1>4 DEF Moved
<1>6. \A i \in DOMAIN asyncQ' : \/ i \in DOMAIN asyncQ /\ asyncQ'[i] = asyncQ[i]
                                \/ i > Len(asyncQ) /\ asyncQ'[i] = h
  <2> TAKE i \in DOMAIN asyncQ'
  <2>1. i + 0 = i
    BY <1>4
  <2> QED
    BY <1>2, <2>1 DEF Moved
<1>7. \A i, j \in DOMAIN asyncQ' : i < j => asyncQ'[i].id < asyncQ'[j].id
  <2> SUFFICES ASSUME NEW i \in DOMAIN asyncQ', NEW j \in DOMAIN asyncQ', i < j
               PROVE  asyncQ'[i].id < asyncQ'[j].id
    OBVIOUS
  <2>1. CASE i \in DOMAIN asyncQ /\ asyncQ'[i] = asyncQ[i] /\ j \in DOMAIN asyncQ /\ asyncQ'[j] = asyncQ[j]
    BY <2>1 DEF Order
  <2>2. CASE i \in DOMAIN asyncQ /\ asyncQ'[i] = asyncQ[i] /\ asyncQ'[j] = h
    BY <1>1, <1>2, <2>2 DEF Order
  <2>3. CASE i > Len(asyncQ)
    <3>1. DOMAIN asyncQ' = 1 .. Len(asyncQ')
      BY QueueFactsNext
    <3>2. asyncQ' = Append(asyncQ, Head(queueQ)) /\ asyncQ \in Seq(AsyncMsg(unequal_task_id_))
      BY DEF OnTranslateToAsyncLayer, Typed
    <3>3. DOMAIN asyncQ' = 1 .. Len(asyncQ) + 1
      BY <3>2
    <3> QED
      BY <1>4, <2>3, <3>3
  <2> QED
    BY <1>6, <2>1, <2>2, <2>3
<1>8. \A i \in DOMAIN asyncQ', j \in DOMAIN queueQ' : Req(queueQ'[j]) => asyncQ'[i].id < queueQ'[j].id
  <2> SUFFICES ASSUME NEW i \in DOMAIN asyncQ', NEW j \in DOMAIN queueQ', Req(queueQ'[j])
               PROVE  asyncQ'[i].id < queueQ'[j].id
    OBVIOUS
  <2>1. j + 1 \in DOMAIN queueQ /\ queueQ'[j] = queueQ[j + 1] /\ 1 < j + 1
    BY <1>5
  <2>2. CASE i \in DOMAIN asyncQ /\ asyncQ'[i] = asyncQ[i]
    BY <2>1, <2>2 DEF Order
  <2>3. CASE asyncQ'[i] = h
    BY <1>1, <1>2, <2>1, <2>3 DEF Order
  <2> QED
    BY <1>6, <2>2, <2>3
<1>9. \A i \in DOMAIN asyncQ' : unequal_session_id_ + 1 < asyncQ'[i].id
  BY <1>1, <1>2, <1>6 DEF Order
<1>10. \A i \in DOMAIN queueQ' : Req(queueQ'[i]) => unequal_session_id_ + 1 < queueQ'[i].id
  BY <1>5 DEF Order
<1>11. \A i, j \in DOMAIN queueQ' :
          i < j /\ Req(queueQ'[i]) /\ Req(queueQ'[j]) => queueQ'[i].id < queueQ'[j].id
  <2>1. \A i, j \in DOMAIN queueQ' : i < j => i + 1 < j + 1
    BY <1>4
  <2> QED
    BY <1>5, <2>1 DEF Order
<1>12. Order'
  BY <1>3, <1>7, <1>8, <1>9, <1>10, <1>11 DEF Order, Req
<1>13. \A x : \A j \in DOMAIN queueQ : Removes(queueQ[j], x) =>
          j > 1 /\ j - 1 \in DOMAIN queueQ' /\ Removes(queueQ'[j - 1], x)
  <2> SUFFICES ASSUME NEW x, NEW j \in DOMAIN queueQ, Removes(queueQ[j], x)
               PROVE  j > 1 /\ j - 1 \in DOMAIN queueQ' /\ Removes(queueQ'[j - 1], x)
    OBVIOUS
  <2>1. j # 1
    BY <1>1, <1>2 DEF Removes, Req, ReqType
  <2>2. j > 1
    BY <1>4, <2>1
  <2> QED
    BY <1>2, <2>2 DEF Moved
<1>14. \A x \in tasks_' : Waited(x)' \/ \E j \in DOMAIN queueQ' : Removes(queueQ'[j], x)
  <2> TAKE x \in tasks_'
  <2>1. Waited(x) \/ \E j \in DOMAIN queueQ : Removes(queueQ[j], x)
    BY <1>1, <1>2 DEF Accounted
  <2>2. Waited(x) => Waited(x)'
    BY <1>3 DEF Waited
  <2> QED
    BY <1>13, <2>1, <2>2
<1>15. \A i \in DOMAIN queueQ' : \A x : Req(queueQ'[i]) /\ x = queueQ'[i].task =>
          Waited(x)' \/ \E j \in DOMAIN queueQ' : i < j /\ Removes(queueQ'[j], x)
  <2> SUFFICES ASSUME NEW i \in DOMAIN queueQ', NEW x, Req(queueQ'[i]), x = queueQ'[i].task
               PROVE  Waited(x)' \/ \E j \in DOMAIN queueQ' : i < j /\ Removes(queueQ'[j], x)
    OBVIOUS
  <2>1. i + 1 \in DOMAIN queueQ /\ queueQ'[i] = queueQ[i + 1]
    BY <1>5
  <2>2. Waited(x) \/ \E j \in DOMAIN queueQ : i + 1 < j /\ Removes(queueQ[j], x)
    BY <2>1 DEF Accounted
  <2>3. Waited(x) => Waited(x)'
    BY <1>3 DEF Waited
  <2>4. ASSUME NEW j \in DOMAIN queueQ, i + 1 < j, Removes(queueQ[j], x)
        PROVE  \E k \in DOMAIN queueQ' : i < k /\ Removes(queueQ'[k], x)
    <3>1. j - 1 \in DOMAIN queueQ' /\ Removes(queueQ'[j - 1], x)
      BY <1>13, <2>4
    <3>2. i < j - 1
      BY <1>4, <2>4
    <3> QED
      BY <3>1, <3>2
  <2> QED
    BY <2>2, <2>3, <2>4
<1>16. Accounted'
  BY <1>14, <1>15 DEF Accounted, Req, Removes, Waited
<1> QED
  BY <1>12, <1>16

(* The removal that is gone was that of a task that is gone too; no        *)
(* request of the same task is behind it.                                  *)
LEMMA OnRemoveKeeps ==
    ASSUME Typed, Typed', Order, Accounted, OnRemoveTaskMessage
    PROVE  Order' /\ Accounted'
<1>1. PICK t : t = queueQ[1].task
  OBVIOUS
<1>2. /\ 1 \in DOMAIN queueQ /\ queueQ[1].type = "REQ_REMOVE_TASK_EVENT"
      /\ Moved(queueQ, queueQ', 1, {}) /\ tasks_' = tasks_ \ {t}
  BY <1>1, OnRemoveTyped
<1>3. user' = user /\ unequal_session_id_' = unequal_session_id_ /\ asyncQ' = asyncQ
  BY DEF OnRemoveTaskMessage
<1>4. Order'
  <2>1. Moved(asyncQ, asyncQ', 0, {})
    BY <1>3, MovedNot DEF Typed
  <2> QED
    BY <1>2, <1>3, <2>1, QuietOrder
<1>5. /\ DOMAIN queueQ \subseteq Nat /\ DOMAIN queueQ = 1 .. Len(queueQ) /\ Len(queueQ) \in Nat
      /\ DOMAIN queueQ' \subseteq Nat /\ DOMAIN queueQ' = 1 .. Len(queueQ') /\ Len(queueQ') \in Nat
  BY QueueFacts, QueueFactsNext
<1>6. \A i \in DOMAIN queueQ' : i + 1 \in DOMAIN queueQ /\ queueQ'[i] = queueQ[i + 1] /\ 1 < i + 1
  BY <1>2, <1>5 DEF Moved
<1>7. \A x : \A j \in DOMAIN queueQ : Removes(queueQ[j], x) /\ j > 1 =>
          j - 1 \in DOMAIN queueQ' /\ Removes(queueQ'[j - 1], x)
  BY <1>2 DEF Moved
<1>8. \A x \in tasks_' : Waited(x)' \/ \E j \in DOMAIN queueQ' : Removes(queueQ'[j], x)
  <2> TAKE x \in tasks_'
  <2>1. x \in tasks_ /\ x # t
    BY <1>2
  <2>2. Waited(x) \/ \E j \in DOMAIN queueQ : Removes(queueQ[j], x)
    BY <2>1 DEF Accounted
  <2>3. Waited(x) => Waited(x)'
    BY <1>3 DEF Waited
  <2>4. \A j \in DOMAIN queueQ : Removes(queueQ[j], x) => j > 1
    <3> SUFFICES ASSUME NEW j \in DOMAIN queueQ, Removes(queueQ[j], x) PROVE j > 1
      OBVIOUS
    <3>1. j # 1
      BY <1>1, <2>1 DEF Removes
    <3> QED
      BY <1>5, <3>1
  <2> QED
    BY <1>7, <2>2, <2>3, <2>4
<1>9. \A i \in DOMAIN queueQ' : \A x : Req(queueQ'[i]) /\ x = queueQ'[i].task =>
          Waited(x)' \/ \E j \in DOMAIN queueQ' : i < j /\ Removes(queueQ'[j], x)
  <2> SUFFICES ASSUME NEW i \in DOMAIN queueQ', NEW x, Req(queueQ'[i]), x = queueQ'[i].task
               PROVE  Waited(x)' \/ \E j \in DOMAIN queueQ' : i < j /\ Removes(queueQ'[j], x)
    OBVIOUS
  <2>1. i + 1 \in DOMAIN queueQ /\ queueQ'[i] = queueQ[i + 1]
    BY <1>6
  <2>2. Waited(x) \/ \E j \in DOMAIN queueQ : i + 1 < j /\ Removes(queueQ[j], x)
    BY <2>1 DEF Accounted
  <2>3. Waited(x) => Waited(x)'
    BY <1>3 DEF Waited
  <2>4. ASSUME NEW j \in DOMAIN queueQ, i + 1 < j, Removes(queueQ[j], x)
        PROVE  \E k \in DOMAIN queueQ' : i < k /\ Removes(queueQ'[k], x)
    <3>1. j > 1 /\ i < j - 1
      BY <1>5, <2>4
    <3>2. j - 1 \in DOMAIN queueQ' /\ Removes(queueQ'[j - 1], x)
      BY <1>7, <2>4, <3>1
    <3> QED
      BY <3>1, <3>2
  <2> QED
    BY <2>2, <2>3, <2>4
<1>10. Accounted'
  BY <1>8, <1>9 DEF Accounted, Req, Removes, Waited
<1> QED
  BY <1>4, <1>10

(* A step in which only news moves.                                        *)
LEMMA QuietKeeps ==
    ASSUME Typed, Typed', Order, Accounted, NEW d \in {0, 1}, NEW new,
           Moved(queueQ, queueQ', d, new), \A m \in new : News(m), d = 1 => News(queueQ[1]),
           NEW e \in {0, 1}, Moved(asyncQ, asyncQ', e, {}),
           unequal_session_id_' = unequal_session_id_, tasks_' = tasks_,
           \A t \in Task : Waited(t) => Waited(t)'
    PROVE  IInv'
<1>1. Order'
  BY QuietOrder
<1>2. Accounted'
  BY QuietAccounted
<1> QED
  BY <1>1, <1>2 DEF IInv

(* The queues in a step that leaves them alone.                            *)
LEMMA NotMoved ==
    ASSUME Typed
    PROVE  Moved(queueQ, queueQ, 0, {}) /\ Moved(asyncQ, asyncQ, 0, {})
  BY MovedNot DEF Typed

(* Who waits, in a step that leaves the users alone.                       *)
LEMMA SameWaits ==
    ASSUME user' = user PROVE \A t \in Task : Waited(t) => Waited(t)'
  BY DEF Waited

(* What an API call does.                                                  *)
Starts(u, t) ==
    /\ t \in GoodTask(unequal_task_id_ + 1) /\ t.id = unequal_task_id_ + 1 /\ t.owner = u
    /\ user[u].pc = "idle" /\ user'[u].task = t /\ user'[u].pc = "wait"
    /\ user'[u].msg = None /\ user'[u].handle = user[u].handle
    /\ \A v \in Users : v # u => user'[v] = user[v]
    /\ queueQ' = Append(queueQ, TaskStanza(t.type, t))
    /\ unequal_task_id_' = unequal_task_id_ + 1
    /\ t.push => t.sid \in owed'
    /\ owed \subseteq owed'
    /\ IF t.type = "REQ_CONNECT_SERVER"
       THEN /\ t.sid = NULL_SESSION_ID /\ user[u].handle = NULL_SESSION_ID
            /\ \A v \in Users : user[v].pc # "idle" => user[v].task.type # "REQ_CONNECT_SERVER"
       ELSE t.sid = user[u].handle /\ t.sid # NULL_SESSION_ID
    /\ UNCHANGED <<scenario, unequal_session_id_, userQ, asyncQ, tasks_, async_sessions_,
                   reconnects, drops, unhandled>>

(* Every API call starts a task so.                                        *)
LEMMA CallStarts ==
    ASSUME Typed, NEW u \in Users, UserCall(u)
    PROVE  Typed' /\ \E t : Starts(u, t)
<1>1. PICK type \in ReqType, sid \in {NULL_SESSION_ID} \cup SessionIds, cmd \in Cmds \cup {None},
           push \in BOOLEAN :
        /\ StartTask(u, type, sid, cmd, push)
        /\ type = "REQ_SEND_REQUESTION" => cmd \in Cmds
        /\ IF type = "REQ_CONNECT_SERVER"
           THEN /\ sid = NULL_SESSION_ID /\ user[u].handle = NULL_SESSION_ID
                /\ \A v \in Users : user[v].pc # "idle" => user[v].task.type # "REQ_CONNECT_SERVER"
           ELSE sid = user[u].handle /\ sid # NULL_SESSION_ID
  <2>0. user[u].handle \in {NULL_SESSION_ID} \cup SessionIds
    BY DEF Typed, UserState
  <2>1. CASE ConnectServer(u)
    BY <2>1 DEF ConnectServer, ReqType
  <2>2. CASE DisconnectServer(u)
    BY <2>0, <2>2 DEF DisconnectServer, ReqType
  <2>3. ASSUME NEW cmd \in Cmds, SyncProcessReqTask(u, cmd)
        PROVE  \E type \in ReqType, sid \in {NULL_SESSION_ID} \cup SessionIds,
                  push \in BOOLEAN :
                 /\ StartTask(u, type, sid, cmd, push)
                 /\ type = "REQ_SEND_REQUESTION"
                 /\ sid = user[u].handle /\ sid # NULL_SESSION_ID
    BY <2>0, <2>3 DEF SyncProcessReqTask, ReqType
  <2>4. ASSUME NEW cmd \in Cmds, PostReqTask(u, cmd)
        PROVE  \E type \in ReqType, sid \in {NULL_SESSION_ID} \cup SessionIds,
                  push \in BOOLEAN :
                 /\ StartTask(u, type, sid, cmd, push)
                 /\ type = "REQ_SEND_REQUESTION"
                 /\ sid = user[u].handle /\ sid # NULL_SESSION_ID
    <3>1. Connected(user[u].handle)
      BY <2>4 DEF PostReqTask
    <3>2. PICK s \in async_sessions_ : s.sid = user[u].handle
      BY <3>1 DEF Connected, FindSession
    <3>3. user[u].handle \in SessionIds
      BY <3>2, SessionFields
    <3>4. user[u].handle # NULL_SESSION_ID
      BY <3>3, IdNumbers
    <3> QED
      BY <2>0, <2>4, <3>4 DEF PostReqTask, ReqType
  <2>5. CASE \E cmd \in Cmds : SyncProcessReqTask(u, cmd) \/ PostReqTask(u, cmd)
    <3>1. PICK cmd \in Cmds : SyncProcessReqTask(u, cmd) \/ PostReqTask(u, cmd)
      BY <2>5
    <3>2. PICK type \in ReqType, sid \in {NULL_SESSION_ID} \cup SessionIds, push \in BOOLEAN :
                 /\ StartTask(u, type, sid, cmd, push)
                 /\ type = "REQ_SEND_REQUESTION"
                 /\ sid = user[u].handle /\ sid # NULL_SESSION_ID
      BY <2>3, <2>4, <3>1
    <3> QED
      BY <3>1, <3>2
  <2> QED
    BY <2>1, <2>2, <2>5 DEF UserCall
<1>2. Typed'
  BY <1>1, StartTyped
<1>3. PICK t \in GoodTask(unequal_task_id_ + 1) :
        /\ t.id = unequal_task_id_ + 1 /\ t.owner = u /\ t.type = type /\ t.sid = sid
        /\ t.push = push /\ user'[u].task = t /\ user'[u].pc = "wait"
        /\ user'[u].msg = None /\ user'[u].handle = user[u].handle
        /\ queueQ' = Append(queueQ, TaskStanza(type, t))
        /\ \A v \in Users : v # u => user'[v] = user[v]
  BY <1>1, StartTyped
<1>4. /\ user[u].pc = "idle" /\ unequal_task_id_' = unequal_task_id_ + 1
      /\ owed' = IF push THEN owed \cup {sid} ELSE owed
      /\ UNCHANGED <<scenario, unequal_session_id_, userQ, asyncQ, tasks_, async_sessions_,
                     reconnects, drops, unhandled>>
  BY <1>1 DEF StartTask
<1>5. (t.push => t.sid \in owed') /\ owed \subseteq owed'
  BY <1>3, <1>4
<1>6. Starts(u, t)
  BY <1>1, <1>3, <1>4, <1>5 DEF Starts
<1> QED
  BY <1>2, <1>6

(* The first layer holds initially.                                        *)
LEMMA InitIInv ==
    ASSUME Init PROVE IInv
<1> USE DEF Init
<1>1. scenario \in Scenarios /\ scenario.drops \in Nat /\ scenario.tasks \in Nat
  BY Ids
<1>2. \A u \in Users : user[u] \in UserState /\ user[u] \in GoodUser(u, unequal_task_id_)
  <2> TAKE u \in Users
  <2>1. user[u] = [pc |-> "idle", task |-> NoTask, msg |-> None,
                   handle |-> NULL_SESSION_ID, closed |-> FALSE]
    OBVIOUS
  <2>2. user[u] \in UserState
    BY <2>1 DEF UserState
  <2> QED
    BY <2>1, <2>2 DEF GoodUser
<1>3. user \in [Users -> UserState]
  BY <1>2
<1>4. Typed
  <2>1. /\ unequal_task_id_ \in FirstTask .. FirstTask + scenario.tasks
        /\ unequal_session_id_ \in 1 .. unequal_task_id_ - 1 /\ drops \in 0 .. scenario.drops
    BY <1>1 DEF FirstTask
  <2>2. userQ \in [Users -> Seq(Message)]
    OBVIOUS
  <2>3. queueQ \in Seq(GoodMsg(unequal_task_id_)) /\ asyncQ \in Seq(AsyncMsg(unequal_task_id_))
    OBVIOUS
  <2> QED
    BY <1>1, <1>2, <1>3, <2>1, <2>2, <2>3 DEF Typed
<1>5. Order /\ Accounted
  BY DEF Order, Accounted
<1> QED
  BY <1>4, <1>5 DEF IInv

(* Every step keeps the first layer.                                       *)
LEMMA NextIInv ==
    ASSUME IInv, [Next]_vars PROVE IInv'
<1> USE DEF IInv
<1>1. ASSUME NEW u \in Users, UserCall(u) PROVE IInv'
  <2>1. PICK t : Starts(u, t)
    BY <1>1, CallStarts
  <2>2. Typed'
    BY <1>1, CallStarts
  <2>3. Order' /\ Accounted'
    BY <2>1, <2>2, StartKeeps DEF Starts
  <2> QED
    BY <2>2, <2>3
<1>2. ASSUME NEW u \in Users, WaitGet(u) PROVE IInv'
  <2>1. /\ Typed' /\ user'[u].task = user[u].task /\ user'[u].pc \in {"wait", "done"}
        /\ \A v \in Users : v # u => user'[v] = user[v]
    BY <1>2, WaitGetTyped
  <2>2. \A t \in Task : Waited(t) => Waited(t)'
    BY <2>1, StillWaited
  <2>3. UNCHANGED <<queueQ, asyncQ, unequal_session_id_, tasks_>>
    BY <1>2 DEF WaitGet
  <2> QED
    BY <2>1, <2>2, <2>3, NotMoved, QuietKeeps
<1>3. ASSUME NEW u \in Users, WaitTimeout(u) PROVE IInv'
  <2>1. /\ Typed' /\ user'[u].task = user[u].task /\ user'[u].pc \in {"wait", "done"}
        /\ \A v \in Users : v # u => user'[v] = user[v]
    BY <1>3, WaitTimeoutTyped
  <2>2. \A t \in Task : Waited(t) => Waited(t)'
    BY <2>1, StillWaited
  <2>3. UNCHANGED <<queueQ, asyncQ, unequal_session_id_, tasks_>>
    BY <1>3 DEF WaitTimeout
  <2> QED
    BY <2>1, <2>2, <2>3, NotMoved, QuietKeeps
<1>4. ASSUME NEW u \in Users, Return(u) PROVE IInv'
  <2>1. Typed'
    BY <1>4, ReturnTyped
  <2> QED
    BY <1>4, <2>1, ReturnKeeps
<1>5. ASSUME NEW u \in Users, Opened(u) PROVE IInv'
  <2>1. /\ Typed' /\ \A v \in Users : v # u => user'[v] = user[v]
    BY <1>5, OpenedTyped
  <2>2. \A t \in Task : Waited(t) => Waited(t)'
    BY <1>5, <2>1, StillWaited DEF Opened
  <2>3. UNCHANGED <<asyncQ, unequal_session_id_, tasks_>>
    BY <1>5 DEF Opened
  <2>4. PICK m : m = Stanza("RES_RECONNECT_EVENT", 0, user[u].msg.sid)
    OBVIOUS
  <2>5. queueQ' = queueQ \/ (queueQ' = Append(queueQ, m) /\ user[u].msg.sid \in SessionIds)
    BY <1>5, <2>4, OpenedTyped
  <2>6. CASE queueQ' = queueQ
    BY <2>1, <2>2, <2>3, <2>6, NotMoved, QuietKeeps
  <2>7. CASE queueQ' = Append(queueQ, m) /\ user[u].msg.sid \in SessionIds
    <3>1. "RES_RECONNECT_EVENT" \in StanzaType /\ 0 \in Nat
          /\ "RES_RECONNECT_EVENT" \notin ReqType \cup {"REQ_REMOVE_TASK_EVENT"}
      BY DEF StanzaType, ReqType
    <3>2. user[u].msg.sid # NULL_SESSION_ID
      BY <2>7, IdNumbers
    <3>3. m \in GoodMsg(unequal_task_id_) /\ News(m)
      BY <2>4, <2>7, <3>1, <3>2, StanzaGood
    <3>4. Moved(queueQ, queueQ', 0, {m})
      BY <2>7, <3>3, MovedAppend DEF Typed
    <3> QED
      BY <2>1, <2>2, <2>3, <3>3, <3>4, NotMoved, QuietKeeps
  <2> QED
    BY <2>5, <2>6, <2>7
<1>6. ASSUME NEW r \in scenario.connects, OnConnectMessage(r) PROVE IInv'
  <2>1. /\ Typed' /\ asyncQ # <<>> /\ Moved(asyncQ, asyncQ', 1, {})
    BY <1>6, OnConnectTyped
  <2>2. 1 \in DOMAIN asyncQ
    BY <2>1, HeadOfAsync
  <2>3. queueQ' = queueQ /\ unequal_session_id_' = unequal_session_id_ + 1 /\ tasks_' = tasks_
        /\ user' = user
    BY <1>6 DEF OnConnectMessage
  <2>4. Order'
    BY <2>1, <2>2, <2>3, OnConnectOrder
  <2>5. Accounted'
    BY <2>1, <2>3, NotMoved, SameWaits, QuietAccounted
  <2> QED
    BY <2>1, <2>4, <2>5
<1>7. ASSUME OnDisconnectMessage PROVE IInv'
  <2>1. Typed' /\ Moved(asyncQ, asyncQ', 1, {})
    BY <1>7, OnDisconnectTyped
  <2>2. PICK m : Moved(queueQ, queueQ', 0, {m}) /\ News(m)
    BY <1>7, OnDisconnectTyped
  <2>3. UNCHANGED <<unequal_session_id_, tasks_, user>>
    BY <1>7 DEF OnDisconnectMessage
  <2> QED
    BY <2>1, <2>2, <2>3, SameWaits, QuietKeeps
<1>8. ASSUME OnRequestMessage PROVE IInv'
  <2>1. Typed' /\ Moved(asyncQ, asyncQ', 1, {})
    BY <1>8, OnRequestTyped
  <2>2. queueQ' = queueQ \/ \E m : Moved(queueQ, queueQ', 0, {m}) /\ News(m)
    BY <1>8, OnRequestTyped
  <2>3. UNCHANGED <<unequal_session_id_, tasks_, user>>
    BY <1>8 DEF OnRequestMessage
  <2>4. PICK new : Moved(queueQ, queueQ', 0, new) /\ \A m \in new : News(m)
    <3>1. CASE queueQ' = queueQ
      BY <3>1, NotMoved
    <3>2. CASE \E m : Moved(queueQ, queueQ', 0, {m}) /\ News(m)
      BY <3>2
    <3> QED
      BY <2>2, <3>1, <3>2
  <2> QED
    BY <2>1, <2>3, <2>4, SameWaits, QuietKeeps
<1>9. ASSUME NEW sid \in reconnects, NEW r \in scenario.connects, ReconnectTimer(sid, r)
      PROVE  IInv'
  <2>1. Typed'
    BY <1>9, ReconnectTimerTyped
  <2>2. UNCHANGED <<unequal_session_id_, tasks_, user, queueQ, asyncQ>>
    BY <1>9 DEF ReconnectTimer
  <2> QED
    BY <2>1, <2>2, NotMoved, SameWaits, QuietKeeps
<1>10. ASSUME NEW s \in async_sessions_, OnConnectEvent(s) PROVE IInv'
  <2>1. Typed'
    BY <1>10, OnConnectEventTyped
  <2>2. PICK m : Moved(queueQ, queueQ', 0, {m}) /\ News(m)
    BY <1>10, OnConnectEventTyped
  <2>3. UNCHANGED <<unequal_session_id_, tasks_, user, asyncQ>>
    BY <1>10 DEF OnConnectEvent
  <2> QED
    BY <2>1, <2>2, <2>3, NotMoved, SameWaits, QuietKeeps
<1>11. ASSUME NEW s \in async_sessions_, OnCloseEvent(s) \/ HeartbeatTimeout(s) PROVE IInv'
  <2>1. Typed' /\ queueQ' = queueQ \o ClosePosts(s)
    BY <1>11, OnCloseEventTyped
  <2>2. PICK a, b \in GoodMsg(unequal_task_id_) :
           Moved(queueQ, queueQ', 0, {a, b}) /\ \A m \in {a, b} : News(m)
    <3>1. \E a, b \in GoodMsg(unequal_task_id_) :
                /\ Moved(queueQ, queueQ', 0, {a, b})
                /\ \A m \in {a, b} : /\ News(m) /\ m.id = s.connect_id /\ m.sid = s.sid
                                     /\ m.type \notin {"RES_STANZA_EVENT", "RES_RECONNECT_EVENT"}
      BY <2>1, ClosePosted
    <3> QED
      BY <3>1
  <2>3. UNCHANGED <<unequal_session_id_, tasks_, user, asyncQ>>
    BY <1>11 DEF OnCloseEvent, HeartbeatTimeout
  <2> QED
    BY <2>1, <2>2, <2>3, NotMoved, SameWaits, QuietKeeps
<1>12. ASSUME NEW s \in async_sessions_, NEW r \in s.sent, OnSessionPacketEvent(s, r) PROVE IInv'
  <2>1. Typed'
    BY <1>12, OnSessionPacketTyped
  <2>2. PICK m : Moved(queueQ, queueQ', 0, {m}) /\ News(m)
    BY <1>12, OnSessionPacketTyped
  <2>3. UNCHANGED <<unequal_session_id_, tasks_, user, asyncQ>>
    BY <1>12 DEF OnSessionPacketEvent
  <2> QED
    BY <2>1, <2>2, <2>3, NotMoved, SameWaits, QuietKeeps
<1>13. ASSUME OnTranslateToAsyncLayer PROVE IInv'
  BY <1>13, TranslateTyped, TranslateKeeps
<1>14. ASSUME OnRemoveTaskMessage PROVE IInv'
  BY <1>14, OnRemoveTyped, OnRemoveKeeps
<1>15. ASSUME QueueRemoveSession \/ DropMessage PROVE IInv'
  <2>1. Typed' /\ News(queueQ[1]) /\ Moved(queueQ, queueQ', 1, {})
    BY <1>15, QueueRemoveTyped
  <2>2. UNCHANGED <<unequal_session_id_, tasks_, user, asyncQ>>
    BY <1>15 DEF QueueRemoveSession, DropMessage
  <2> QED
    BY <2>1, <2>2, NotMoved, SameWaits, QuietKeeps
<1>16. ASSUME OntranslateToSyncLayer PROVE IInv'
  <2>1. Typed' /\ News(queueQ[1]) /\ Moved(queueQ, queueQ', 1, {})
    BY <1>16, ToSyncTyped
  <2>2. UNCHANGED <<unequal_session_id_, tasks_, user, asyncQ>>
    BY <1>16, Zenon DEF OntranslateToSyncLayer
  <2> QED
    BY <2>1, <2>2, NotMoved, SameWaits, QuietKeeps
<1>17. ASSUME ReConnect PROVE IInv'
  <2>1. Typed' /\ News(queueQ[1])
    BY <1>17, ReConnectTyped
  <2>2. PICK m : Moved(queueQ, queueQ', 1, {m}) /\ News(m)
    BY <1>17, ReConnectTyped
  <2>3. UNCHANGED <<unequal_session_id_, tasks_, user, asyncQ>>
    BY <1>17 DEF ReConnect
  <2> QED
    BY <2>1, <2>2, <2>3, NotMoved, SameWaits, QuietKeeps
<1>18. ASSUME NEW r \in scenario.connects, FirstReconnect(r) PROVE IInv'
  <2>1. Typed' /\ News(queueQ[1]) /\ Moved(queueQ, queueQ', 1, {})
    BY <1>18, FirstReconnectTyped
  <2>2. UNCHANGED <<unequal_session_id_, tasks_, user, asyncQ>>
    BY <1>18 DEF FirstReconnect
  <2> QED
    BY <2>1, <2>2, NotMoved, SameWaits, QuietKeeps
<1>19. CASE UNCHANGED vars
  BY <1>19 DEF vars, Typed, Order, Accounted, Waited, Req, Removes
<1> QED
  BY <1>1, <1>2, <1>3, <1>4, <1>5, <1>6, <1>7, <1>8, <1>9, <1>10, <1>11, <1>12, <1>13, <1>14,
     <1>15, <1>16, <1>17, <1>18, <1>19
     DEF Next, UserStep, QueueThread, AsyncThread, Device

-----------------------------------------------------------------------------
(* The tasks that are waited for.                                          *)

(* A task is kept, or its request is on the way.                           *)
Found(t) == t \in tasks_ \/ \E i \in DOMAIN queueQ : Req(queueQ[i]) /\ queueQ[i].task = t

(* A task that is waited for is found, and its removal is not yet posted.  *)
Findable ==
    \A t \in Task : Waited(t) => Found(t) /\ \A j \in DOMAIN queueQ : ~Removes(queueQ[j], t)

(* What becomes of a task that was waited for when the queue moves.        *)
LEMMA FindMoved ==
    ASSUME Typed, Findable, NEW d \in {0, 1}, NEW new, Moved(queueQ, queueQ', d, new),
           NEW t \in Task, Waited(t), \A m \in new : ~Removes(m, t), t \in tasks_ => t \in tasks_',
           d = 1 /\ Req(queueQ[1]) /\ queueQ[1].task = t => t \in tasks_'
    PROVE  Found(t)' /\ \A j \in DOMAIN queueQ' : ~Removes(queueQ'[j], t)
<1>1. Found(t) /\ \A j \in DOMAIN queueQ : ~Removes(queueQ[j], t)
  BY DEF Findable
<1>2. \A j \in DOMAIN queueQ' : queueQ'[j] \in new \/ \E i \in DOMAIN queueQ : queueQ'[j] = queueQ[i]
  <2> TAKE j \in DOMAIN queueQ'
  <2>1. PICK k : k = j + d
    OBVIOUS
  <2>2. (k \in DOMAIN queueQ /\ queueQ'[j] = queueQ[k]) \/ queueQ'[j] \in new
    BY <2>1 DEF Moved
  <2> QED
    BY ONLY <2>2
<1>3. \A j \in DOMAIN queueQ' : ~Removes(queueQ'[j], t)
  BY <1>1, <1>2
<1>4. CASE t \in tasks_
  BY <1>3, <1>4 DEF Found
<1>5. ASSUME NEW i \in DOMAIN queueQ, Req(queueQ[i]), queueQ[i].task = t PROVE Found(t)'
  <2>1. DOMAIN queueQ = 1 .. Len(queueQ) /\ Len(queueQ) \in Nat
    BY QueueFacts
  <2>2. CASE i > d
    <3>1. i - d \in DOMAIN queueQ' /\ queueQ'[i - d] = queueQ[i]
      BY <2>2 DEF Moved
    <3>2. \E k \in DOMAIN queueQ' : queueQ'[k] = queueQ[i]
      BY <3>1
    <3> QED
      BY <1>5, <3>2 DEF Found, Req
  <2>3. CASE ~(i > d)
    <3>1. d = 1 /\ i = 1
      BY <2>1, <2>3
    <3>2. t \in tasks_'
      BY <1>5, <3>1
    <3> QED
      BY <3>2 DEF Found
  <2> QED
    BY <2>2, <2>3
<1> QED
  BY <1>1, <1>3, <1>4, <1>5 DEF Found

(* A step that posts and takes no requests and no removals.                *)
LEMMA QuietFindable ==
    ASSUME Typed, Findable, NEW d \in {0, 1}, NEW new, Moved(queueQ, queueQ', d, new),
           \A m \in new : News(m), d = 1 => News(queueQ[1]), tasks_' = tasks_,
           \A t \in Task : Waited(t)' => Waited(t)
    PROVE  Findable'
<1> SUFFICES ASSUME NEW t \in Task, Waited(t)'
             PROVE  Found(t)' /\ \A j \in DOMAIN queueQ' : ~Removes(queueQ'[j], t)
  BY DEF Findable, Removes
<1>1. Waited(t)
  OBVIOUS
<1>2. \A m \in new : ~Removes(m, t)
  BY DEF News, Removes
<1>3. d = 1 => ~Req(queueQ[1])
  BY DEF News, Req
<1> QED
  BY <1>1, <1>2, <1>3, FindMoved

(* Who waits after a step of one user thread waited before it.             *)
LEMMA WaitedBefore ==
    ASSUME NEW u \in Users, \A v \in Users : v # u => user'[v] = user[v],
           \/ user'[u].pc \notin {"wait", "done"}
           \/ user'[u].task = user[u].task /\ user[u].pc \in {"wait", "done"}
    PROVE  \A t \in Task : Waited(t)' => Waited(t)
<1> SUFFICES ASSUME NEW t \in Task, Waited(t)' PROVE Waited(t)
  OBVIOUS
<1>1. t.owner \in Users
  BY DEF Task
<1>2. CASE t.owner = u
  BY <1>2 DEF Waited
<1>3. CASE t.owner # u
  BY <1>1, <1>3 DEF Waited
<1> QED
  BY <1>2, <1>3

(* The same when no user thread moves.                                     *)
LEMMA SameWaitsBefore ==
    ASSUME user' = user PROVE \A t \in Task : Waited(t)' => Waited(t)
  BY DEF Waited

(* A new task is found in the queue, and nobody has posted its removal.    *)
LEMMA StartFindable ==
    ASSUME Typed, Findable, NEW u \in Users, NEW t, Starts(u, t)
    PROVE  Findable'
<1>1. PICK M, top : M = TaskStanza(t.type, t) /\ top = unequal_task_id_ + 1
  OBVIOUS
<1>2. /\ t \in GoodTask(top) /\ t.id = top /\ t.owner = u /\ user'[u].task = t
      /\ \A v \in Users : v # u => user'[v] = user[v]
      /\ queueQ' = Append(queueQ, M) /\ tasks_' = tasks_
  BY <1>1 DEF Starts
<1>3. M.type = t.type /\ M.task = t /\ t.type \in ReqType
  BY <1>1, <1>2, TaskStanzaGood, TaskFields
<1>4. Req(M) /\ \A x : ~Removes(M, x)
  BY <1>3 DEF Req, Removes, ReqType
<1>5. Moved(queueQ, queueQ', 0, {M})
  <2>1. PICK S : S = GoodMsg(unequal_task_id_) \cup {M}
    OBVIOUS
  <2>2. queueQ \in Seq(S) /\ M \in S
    BY <2>1, GrowsSeq DEF Typed
  <2> QED
    BY ONLY <1>2, <2>2, MovedAppend
<1> SUFFICES ASSUME NEW x \in Task, Waited(x)'
             PROVE  Found(x)' /\ \A j \in DOMAIN queueQ' : ~Removes(queueQ'[j], x)
  BY DEF Findable, Removes
<1>6. x.owner \in Users
  BY DEF Task
<1>7. CASE x.owner # u
  <2>1. Waited(x)
    BY <1>2, <1>6, <1>7 DEF Waited
  <2>2. /\ \A m \in {M} : ~Removes(m, x)
        /\ x \in tasks_ => x \in tasks_'
    BY <1>2, <1>4
  <2> QED
    BY <1>5, <2>1, <2>2, FindMoved
<1>8. CASE x.owner = u
  <2>1. x = t
    BY <1>2, <1>8 DEF Waited
  <2>2. /\ DOMAIN queueQ = 1 .. Len(queueQ) /\ Len(queueQ) \in Nat
        /\ queueQ \in Seq(GoodMsg(unequal_task_id_))
        /\ \A i \in DOMAIN queueQ : queueQ[i] \in GoodMsg(unequal_task_id_)
    BY QueueFacts DEF Typed
  <2>3. Len(queueQ) + 1 \in DOMAIN queueQ' /\ queueQ'[Len(queueQ) + 1] = M
    BY <1>2, <2>2
  <2>4. Found(x)'
    BY <1>3, <1>4, <2>1, <2>3 DEF Found, Req
  <2>5. \A i \in DOMAIN queueQ : ~Removes(queueQ[i], x)
    <3> SUFFICES ASSUME NEW i \in DOMAIN queueQ, Removes(queueQ[i], x) PROVE FALSE
      OBVIOUS
    <3>1. queueQ[i].task \in GoodTask(unequal_task_id_) /\ queueQ[i].task = t
      BY <2>1, <2>2, GoodMsgFields DEF Removes
    <3>2. t.id <= unequal_task_id_
      BY <3>1, TaskFields
    <3>3. PICK k : k = unequal_task_id_
      OBVIOUS
    <3>4. k \in Nat /\ t.id <= k /\ t.id = k + 1
      BY <1>1, <1>2, <3>2, <3>3, Counters
    <3> QED
      BY ONLY <3>4
  <2>6. \A j \in DOMAIN queueQ' : queueQ'[j] = M \/ \E i \in DOMAIN queueQ : queueQ'[j] = queueQ[i]
    BY <1>5 DEF Moved
  <2>7. \A j \in DOMAIN queueQ' : ~Removes(queueQ'[j], x)
    BY <1>4, <2>5, <2>6
  <2> QED
    BY <2>4, <2>7
<1> QED
  BY <1>7, <1>8

(* The removal is posted by the thread that no longer waits.               *)
LEMMA ReturnFindable ==
    ASSUME Typed, Findable, NEW u \in Users, Return(u)
    PROVE  Findable'
<1>1. PICK r, M : r = user[u].task /\ M = TaskStanza("REQ_REMOVE_TASK_EVENT", r)
  OBVIOUS
<1>2. /\ r \in GoodTask(unequal_task_id_) /\ r.owner = u /\ queueQ' = Append(queueQ, M)
      /\ user'[u].pc \in {"idle", "opened"} /\ \A v \in Users : v # u => user'[v] = user[v]
  BY <1>1, ReturnTyped
<1>3. M \in GoodMsg(unequal_task_id_) /\ M.task = r
  BY <1>1, <1>2, TaskStanzaGood
<1>4. queueQ \in Seq(GoodMsg(unequal_task_id_))
  BY DEF Typed
<1>5. Moved(queueQ, queueQ', 0, {M})
  BY ONLY <1>2, <1>3, <1>4, MovedAppend
<1>6. tasks_' = tasks_
  BY DEF Return
<1> SUFFICES ASSUME NEW t \in Task, Waited(t)'
             PROVE  Found(t)' /\ \A j \in DOMAIN queueQ' : ~Removes(queueQ'[j], t)
  BY DEF Findable, Removes
<1>7. t.owner # u
  BY <1>2 DEF Waited
<1>8. Waited(t)
  BY <1>2, WaitedBefore
<1>9. \A m \in {M} : ~Removes(m, t)
  BY <1>2, <1>3, <1>7 DEF Removes
<1> QED
  BY <1>5, <1>6, <1>8, <1>9, FindMoved

(* A request that is passed on leaves its task with QueueLayer.            *)
LEMMA TranslateFindable ==
    ASSUME Typed, Findable, OnTranslateToAsyncLayer
    PROVE  Findable'
<1>1. /\ Moved(queueQ, queueQ', 1, {}) /\ tasks_' = tasks_ \cup {queueQ[1].task}
      /\ user' = user
  BY TranslateTyped DEF OnTranslateToAsyncLayer
<1> SUFFICES ASSUME NEW t \in Task, Waited(t)'
             PROVE  Found(t)' /\ \A j \in DOMAIN queueQ' : ~Removes(queueQ'[j], t)
  BY DEF Findable, Removes
<1>2. Waited(t)
  BY <1>1, SameWaitsBefore
<1> QED
  BY <1>1, <1>2, FindMoved

(* A task that is removed is not waited for.                               *)
LEMMA OnRemoveFindable ==
    ASSUME Typed, Findable, OnRemoveTaskMessage
    PROVE  Findable'
<1>1. /\ 1 \in DOMAIN queueQ /\ queueQ[1].type = "REQ_REMOVE_TASK_EVENT"
      /\ Moved(queueQ, queueQ', 1, {}) /\ tasks_' = tasks_ \ {queueQ[1].task}
  BY OnRemoveTyped
<1>2. user' = user
  BY DEF OnRemoveTaskMessage
<1>3. ~Req(queueQ[1]) /\ Removes(queueQ[1], queueQ[1].task)
  BY <1>1 DEF Req, ReqType, Removes
<1> SUFFICES ASSUME NEW t \in Task, Waited(t)'
             PROVE  Found(t)' /\ \A j \in DOMAIN queueQ' : ~Removes(queueQ'[j], t)
  BY DEF Findable, Removes
<1>4. Waited(t)
  BY <1>2, SameWaitsBefore
<1>5. t # queueQ[1].task
  BY <1>1, <1>3, <1>4 DEF Findable
<1> QED
  BY <1>1, <1>3, <1>4, <1>5, FindMoved

(* Every step keeps what is waited for findable.                           *)
LEMMA NextFindable ==
    ASSUME Typed, Findable, [Next]_vars PROVE Findable'
<1>1. ASSUME NEW u \in Users, UserCall(u) PROVE Findable'
  <2>1. PICK t : Starts(u, t)
    BY <1>1, CallStarts
  <2> QED
    BY <2>1, StartFindable
<1>2. ASSUME NEW u \in Users, WaitGet(u) \/ WaitTimeout(u) PROVE Findable'
  <2>1. user'[u].task = user[u].task /\ \A v \in Users : v # u => user'[v] = user[v]
    BY <1>2, WaitGetTyped, WaitTimeoutTyped
  <2>2. user[u].pc = "wait" /\ UNCHANGED <<queueQ, tasks_>>
    BY <1>2 DEF WaitGet, WaitTimeout
  <2>3. \A t \in Task : Waited(t)' => Waited(t)
    BY <2>1, <2>2, WaitedBefore
  <2> QED
    BY <2>2, <2>3, NotMoved, QuietFindable
<1>3. ASSUME NEW u \in Users, Return(u) PROVE Findable'
  BY <1>3, ReturnFindable
<1>4. ASSUME NEW u \in Users, Opened(u) PROVE Findable'
  <2>1. user'[u].pc = "idle" /\ \A v \in Users : v # u => user'[v] = user[v]
    BY <1>4, OpenedTyped
  <2>2. \A t \in Task : Waited(t)' => Waited(t)
    BY <2>1, WaitedBefore
  <2>3. tasks_' = tasks_
    BY <1>4 DEF Opened
  <2>4. PICK m : m = Stanza("RES_RECONNECT_EVENT", 0, user[u].msg.sid)
    OBVIOUS
  <2>5. queueQ' = queueQ \/ (queueQ' = Append(queueQ, m) /\ user[u].msg.sid \in SessionIds)
    BY <1>4, <2>4, OpenedTyped
  <2>6. CASE queueQ' = queueQ
    BY <2>2, <2>3, <2>6, NotMoved, QuietFindable
  <2>7. CASE queueQ' = Append(queueQ, m) /\ user[u].msg.sid \in SessionIds
    <3>1. "RES_RECONNECT_EVENT" \in StanzaType /\ 0 \in Nat
          /\ "RES_RECONNECT_EVENT" \notin ReqType \cup {"REQ_REMOVE_TASK_EVENT"}
      BY DEF StanzaType, ReqType
    <3>2. user[u].msg.sid # NULL_SESSION_ID
      BY <2>7, IdNumbers
    <3>3. m \in GoodMsg(unequal_task_id_) /\ News(m)
      BY <2>4, <2>7, <3>1, <3>2, StanzaGood
    <3>4. Moved(queueQ, queueQ', 0, {m})
      BY <2>7, <3>3, MovedAppend DEF Typed
    <3> QED
      BY <2>2, <2>3, <3>3, <3>4, QuietFindable
  <2> QED
    BY <2>5, <2>6, <2>7
<1>5. ASSUME NEW r \in scenario.connects, OnConnectMessage(r) PROVE Findable'
  <2>1. UNCHANGED <<queueQ, tasks_, user>>
    BY <1>5 DEF OnConnectMessage
  <2> QED
    BY <2>1, NotMoved, SameWaitsBefore, QuietFindable
<1>6. ASSUME OnDisconnectMessage PROVE Findable'
  <2>1. PICK m : Moved(queueQ, queueQ', 0, {m}) /\ News(m)
    BY <1>6, OnDisconnectTyped
  <2>2. UNCHANGED <<tasks_, user>>
    BY <1>6 DEF OnDisconnectMessage
  <2> QED
    BY <2>1, <2>2, SameWaitsBefore, QuietFindable
<1>7. ASSUME OnRequestMessage PROVE Findable'
  <2>1. queueQ' = queueQ \/ \E m : Moved(queueQ, queueQ', 0, {m}) /\ News(m)
    BY <1>7, OnRequestTyped
  <2>2. UNCHANGED <<tasks_, user>>
    BY <1>7 DEF OnRequestMessage
  <2>3. CASE queueQ' = queueQ
    BY <2>2, <2>3, NotMoved, SameWaitsBefore, QuietFindable
  <2>4. CASE \E m : Moved(queueQ, queueQ', 0, {m}) /\ News(m)
    <3>1. PICK m : Moved(queueQ, queueQ', 0, {m}) /\ News(m)
      BY <2>4
    <3> QED
      BY <2>2, <3>1, SameWaitsBefore, QuietFindable
  <2> QED
    BY <2>1, <2>3, <2>4
<1>8. ASSUME NEW sid \in reconnects, NEW r \in scenario.connects, ReconnectTimer(sid, r)
      PROVE  Findable'
  <2>1. UNCHANGED <<queueQ, tasks_, user>>
    BY <1>8 DEF ReconnectTimer
  <2> QED
    BY <2>1, NotMoved, SameWaitsBefore, QuietFindable
<1>9. ASSUME NEW s \in async_sessions_, OnConnectEvent(s) PROVE Findable'
  <2>1. PICK m : Moved(queueQ, queueQ', 0, {m}) /\ News(m)
    BY <1>9, OnConnectEventTyped
  <2>2. UNCHANGED <<tasks_, user>>
    BY <1>9 DEF OnConnectEvent
  <2> QED
    BY <2>1, <2>2, SameWaitsBefore, QuietFindable
<1>10. ASSUME NEW s \in async_sessions_, OnCloseEvent(s) \/ HeartbeatTimeout(s) PROVE Findable'
  <2>1. queueQ' = queueQ \o ClosePosts(s)
    BY <1>10, OnCloseEventTyped
  <2>2. \E a, b \in GoodMsg(unequal_task_id_) :
           /\ Moved(queueQ, queueQ', 0, {a, b})
           /\ \A m \in {a, b} : /\ News(m) /\ m.id = s.connect_id /\ m.sid = s.sid
                                /\ m.type \notin {"RES_STANZA_EVENT", "RES_RECONNECT_EVENT"}
    BY <2>1, ClosePosted
  <2>3. PICK new : Moved(queueQ, queueQ', 0, new) /\ \A m \in new : News(m)
    BY <2>2
  <2>4. UNCHANGED <<tasks_, user>>
    BY <1>10 DEF OnCloseEvent, HeartbeatTimeout
  <2> QED
    BY <2>3, <2>4, SameWaitsBefore, QuietFindable
<1>11. ASSUME NEW s \in async_sessions_, NEW r \in s.sent, OnSessionPacketEvent(s, r)
       PROVE  Findable'
  <2>1. PICK m : Moved(queueQ, queueQ', 0, {m}) /\ News(m)
    BY <1>11, OnSessionPacketTyped
  <2>2. UNCHANGED <<tasks_, user>>
    BY <1>11 DEF OnSessionPacketEvent
  <2> QED
    BY <2>1, <2>2, SameWaitsBefore, QuietFindable
<1>12. ASSUME OnTranslateToAsyncLayer PROVE Findable'
  BY <1>12, TranslateFindable
<1>13. ASSUME OnRemoveTaskMessage PROVE Findable'
  BY <1>13, OnRemoveFindable
<1>14. ASSUME QueueRemoveSession \/ DropMessage PROVE Findable'
  <2>1. News(queueQ[1]) /\ Moved(queueQ, queueQ', 1, {})
    BY <1>14, QueueRemoveTyped
  <2>2. UNCHANGED <<tasks_, user>>
    BY <1>14 DEF QueueRemoveSession, DropMessage
  <2> QED
    BY <2>1, <2>2, SameWaitsBefore, QuietFindable
<1>15. ASSUME OntranslateToSyncLayer PROVE Findable'
  <2>1. News(queueQ[1]) /\ Moved(queueQ, queueQ', 1, {})
    BY <1>15, ToSyncTyped
  <2>2. UNCHANGED <<tasks_, user>>
    BY <1>15, Zenon DEF OntranslateToSyncLayer
  <2> QED
    BY <2>1, <2>2, SameWaitsBefore, QuietFindable
<1>16. ASSUME ReConnect PROVE Findable'
  <2>1. News(queueQ[1])
    BY <1>16, ReConnectTyped
  <2>2. PICK m : Moved(queueQ, queueQ', 1, {m}) /\ News(m)
    BY <1>16, ReConnectTyped
  <2>3. UNCHANGED <<tasks_, user>>
    BY <1>16 DEF ReConnect
  <2> QED
    BY <2>1, <2>2, <2>3, SameWaitsBefore, QuietFindable
<1>17. ASSUME NEW r \in scenario.connects, FirstReconnect(r) PROVE Findable'
  <2>1. News(queueQ[1]) /\ Moved(queueQ, queueQ', 1, {})
    BY <1>17, FirstReconnectTyped
  <2>2. UNCHANGED <<tasks_, user>>
    BY <1>17 DEF FirstReconnect
  <2> QED
    BY <2>1, <2>2, SameWaitsBefore, QuietFindable
<1>18. CASE UNCHANGED vars
  <2>1. UNCHANGED <<queueQ, tasks_, user>>
    BY <1>18 DEF vars
  <2> QED
    BY <2>1, NotMoved, SameWaitsBefore, QuietFindable
<1> QED
  BY <1>1, <1>2, <1>3, <1>4, <1>5, <1>6, <1>7, <1>8, <1>9, <1>10, <1>11, <1>12, <1>13, <1>14,
     <1>15, <1>16, <1>17, <1>18
     DEF Next, UserStep, QueueThread, AsyncThread, Device

(* The tasks that SyncProcessTask runs are accounted for, whatever the     *)
(* order of timeouts, late answers and removals: what is kept is waited    *)
(* for or about to be removed, and what is waited for is kept or about to  *)
(* come.                                                                   *)
THEOREM TasksAccounted == Spec => []TaskAccounted
<1>1. Init => IInv /\ Findable
  <2> SUFFICES ASSUME Init PROVE IInv /\ Findable
    OBVIOUS
  <2>1. \A t \in Task : t.owner \in Users /\ ~Waited(t)
    BY DEF Task, Waited, Init
  <2> QED
    BY <2>1, InitIInv DEF Findable
<1>2. IInv /\ Findable /\ [Next]_vars => IInv' /\ Findable'
  <2> SUFFICES ASSUME IInv, Findable, [Next]_vars PROVE IInv' /\ Findable'
    OBVIOUS
  <2>1. Typed
    BY DEF IInv
  <2> QED
    BY <2>1, NextIInv, NextFindable
<1>3. IInv /\ Findable => TaskAccounted
  <2> SUFFICES ASSUME IInv, Findable PROVE TaskAccounted
    OBVIOUS
  <2>1. TypeOK /\ Typed
    BY TypedIsTypeOK DEF IInv
  <2>2. \A t \in tasks_ : Waited(t) \/ \E j \in DOMAIN queueQ : Removes(queueQ[j], t)
    BY DEF IInv, Accounted
  <2>3. ASSUME NEW u \in Users, user[u].pc \in {"wait", "done"}
        PROVE  \/ user[u].task \in tasks_
               \/ \E i \in DOMAIN queueQ : /\ queueQ[i].type = user[u].task.type
                                           /\ queueQ[i].task = user[u].task
    <3>1. PICK t : t = user[u].task
      OBVIOUS
    <3>2. user[u] \in GoodUser(u, unequal_task_id_)
      BY <2>1 DEF Typed
    <3>3. t \in GoodTask(unequal_task_id_) /\ t.owner = u
      BY <2>3, <3>1, <3>2 DEF GoodUser
    <3>4. t \in Task /\ Waited(t)
      BY <2>3, <3>1, <3>3, TaskFields DEF Waited
    <3>5. t \in tasks_ \/ \E i \in DOMAIN queueQ : Req(queueQ[i]) /\ queueQ[i].task = t
      BY <3>4 DEF Findable, Found
    <3>6. \A i \in DOMAIN queueQ : Req(queueQ[i]) => queueQ[i].type = queueQ[i].task.type
      BY <2>1, QueueFacts, GoodMsgFields
    <3> QED
      BY <3>1, <3>5, <3>6
  <2> QED
    BY <2>1, <2>2, <2>3 DEF TaskAccounted, Waited, Removes
<1> QED
  BY <1>1, <1>2, <1>3, PTL DEF Spec
-----------------------------------------------------------------------------
(* The second layer: handles.                                             *)

(* Two tasks that may not be in the async half at the same time.           *)
Conflict(t, r) == t.owner = r.owner \/ (t.type = "REQ_CONNECT_SERVER" /\ r.type = "REQ_CONNECT_SERVER")

(* Between two conflicting tasks there is the removal of the first.        *)
Serial ==
    /\ \A t \in tasks_ : \A j \in DOMAIN queueQ :
          Req(queueQ[j]) /\ Conflict(t, queueQ[j].task) =>
             \E i \in DOMAIN queueQ : i < j /\ Removes(queueQ[i], t)
    /\ \A i, j \in DOMAIN queueQ :
          i < j /\ Req(queueQ[i]) /\ Req(queueQ[j]) /\ Conflict(queueQ[i].task, queueQ[j].task) =>
             \E k \in DOMAIN queueQ : i < k /\ k < j /\ Removes(queueQ[k], queueQ[i].task)

(* The tasks that are anywhere.                                            *)
Live == tasks_ \cup {asyncQ[i].task : i \in DOMAIN asyncQ}
        \cup {queueQ[i].task : i \in {j \in DOMAIN queueQ : Req(queueQ[j])}}
        \cup {user[u].task : u \in {v \in Users : user[v].pc # "idle"}}

(* Ids name tasks.                                                         *)
Unique == \A t, r \in Live : t.id = r.id => t = r

(* The session ids given out are below the id of a connect task in tasks_, *)
(* and no later connect task is in asyncQ.                                 *)
Ahead ==
    \A t \in tasks_ : t.type = "REQ_CONNECT_SERVER" =>
        /\ unequal_session_id_ < t.id
        /\ \A i \in DOMAIN asyncQ : asyncQ[i].type = "REQ_CONNECT_SERVER" => asyncQ[i].id <= t.id

(* A task of a session is its holder's, and its id is above the session's. *)
Holder ==
    /\ \A t \in Live :
        IF t.type = "REQ_CONNECT_SERVER" THEN t.sid = NULL_SESSION_ID
        ELSE t.sid # NULL_SESSION_ID /\ t.sid = user[t.owner].handle /\ t.sid < t.id
    /\ \A u \in Users : user[u].pc # "idle" /\ user[u].task.type = "REQ_CONNECT_SERVER" =>
          user[u].handle = NULL_SESSION_ID

(* Every session id that is used was given out.                            *)
Bounded ==
    /\ \A s \in async_sessions_ : s.sid <= unequal_session_id_
    /\ \A i \in DOMAIN queueQ : queueQ[i].sid <= unequal_session_id_
    /\ \A u \in Users :
         /\ user[u].handle <= unequal_session_id_
         /\ user[u].msg # None => user[u].msg.sid <= unequal_session_id_
         /\ \A i \in DOMAIN userQ[u] : userQ[u][i].sid <= unequal_session_id_
    /\ \A sid \in reconnects : sid <= unequal_session_id_

(* An event carries the id of a task that QueueLayer has passed on, or a   *)
(* session id.                                                             *)
OldId(id) ==
    /\ id <= unequal_task_id_
    /\ \A j \in DOMAIN queueQ : Req(queueQ[j]) => id < queueQ[j].id

Past ==
    /\ \A s \in async_sessions_ : OldId(s.connect_id)
    /\ \A i \in DOMAIN queueQ : News(queueQ[i]) => OldId(queueQ[i].id)

(* An event under that id names the session, or a session of that id will. *)
Named(id, sid) ==
    \/ \E s \in async_sessions_ : s.connect_id = id /\ s.sid = sid
    \/ \E i \in DOMAIN queueQ : News(queueQ[i]) /\ queueQ[i].id = id /\ queueQ[i].sid = sid

(* Session sid is u's: its handle, in a message to it, or about to be      *)
(* named to its connect task.  No session is two users'.                   *)
Claims(u, sid) ==
    \/ user[u].handle = sid
    \/ user[u].msg # None /\ user[u].msg.sid = sid
    \/ \E i \in DOMAIN userQ[u] : userQ[u][i].sid = sid
    \/ \E t \in tasks_ : t.type = "REQ_CONNECT_SERVER" /\ t.owner = u /\ Named(t.id, sid)

OneClaim == \A sid \in SessionIds : \A u, v \in Users : Claims(u, sid) /\ Claims(v, sid) => u = v

OneSession == \A s, t \in async_sessions_ : s.sid = t.sid => s = t

(* The second layer of the inductive invariant.                            *)
HInv == Serial /\ Unique /\ Ahead /\ Holder /\ Bounded /\ Past /\ OneClaim /\ OneSession

(* Serial: no task of a user, and no connect task at all, is handed to the *)
(* async half before the removal of the one before it.                     *)
LEMMA QuietSerial ==
    ASSUME Typed, Typed', Serial, NEW d \in {0, 1}, NEW new, Moved(queueQ, queueQ', d, new),
           \A m \in new : ~Req(m), d = 1 => News(queueQ[1]), tasks_' = tasks_
    PROVE  Serial'
<1>0. DOMAIN queueQ \subseteq Nat /\ DOMAIN queueQ' \subseteq Nat /\ DOMAIN queueQ = 1 .. Len(queueQ)
      /\ Len(queueQ) \in Nat
  BY QueueFacts, QueueFactsNext
<1>1. \A i \in DOMAIN queueQ' : Req(queueQ'[i]) => i + d \in DOMAIN queueQ /\ queueQ'[i] = queueQ[i + d]
  BY DEF Moved
<1>2. \A t : \A j \in DOMAIN queueQ : Removes(queueQ[j], t) =>
          j - d \in DOMAIN queueQ' /\ Removes(queueQ'[j - d], t)
  <2> SUFFICES ASSUME NEW t, NEW j \in DOMAIN queueQ, Removes(queueQ[j], t)
               PROVE  j - d \in DOMAIN queueQ' /\ Removes(queueQ'[j - d], t)
    OBVIOUS
  <2>1. j > d
    <3>1. d = 1 => j # 1
      BY DEF News, Removes
    <3> QED
      BY <1>0, <3>1
  <2> QED
    BY <2>1 DEF Moved
<1>3. \A t \in tasks_ : \A j \in DOMAIN queueQ' :
          Req(queueQ'[j]) /\ Conflict(t, queueQ'[j].task) =>
             \E i \in DOMAIN queueQ' : i < j /\ Removes(queueQ'[i], t)
  <2> SUFFICES ASSUME NEW t \in tasks_, NEW j \in DOMAIN queueQ', Req(queueQ'[j]),
                      Conflict(t, queueQ'[j].task)
               PROVE  \E i \in DOMAIN queueQ' : i < j /\ Removes(queueQ'[i], t)
    OBVIOUS
  <2>1. j + d \in DOMAIN queueQ /\ queueQ'[j] = queueQ[j + d]
    BY <1>1
  <2>2. PICK i \in DOMAIN queueQ : i < j + d /\ Removes(queueQ[i], t)
    BY <2>1 DEF Serial
  <2>3. i - d \in DOMAIN queueQ' /\ Removes(queueQ'[i - d], t)
    BY <1>2, <2>2
  <2>4. i - d < j
    BY <1>0, <2>2
  <2> QED
    BY <2>3, <2>4
<1>4. \A i, j \in DOMAIN queueQ' :
          i < j /\ Req(queueQ'[i]) /\ Req(queueQ'[j]) /\ Conflict(queueQ'[i].task, queueQ'[j].task) =>
             \E k \in DOMAIN queueQ' : i < k /\ k < j /\ Removes(queueQ'[k], queueQ'[i].task)
  <2> SUFFICES ASSUME NEW i \in DOMAIN queueQ', NEW j \in DOMAIN queueQ', i < j, Req(queueQ'[i]),
                      Req(queueQ'[j]), Conflict(queueQ'[i].task, queueQ'[j].task)
               PROVE  \E k \in DOMAIN queueQ' : i < k /\ k < j /\ Removes(queueQ'[k], queueQ'[i].task)
    OBVIOUS
  <2>1. /\ i + d \in DOMAIN queueQ /\ queueQ'[i] = queueQ[i + d]
        /\ j + d \in DOMAIN queueQ /\ queueQ'[j] = queueQ[j + d] /\ i + d < j + d
    BY <1>0, <1>1
  <2>2. PICK k \in DOMAIN queueQ : i + d < k /\ k < j + d /\ Removes(queueQ[k], queueQ[i + d].task)
    BY <2>1 DEF Serial
  <2>3. k - d \in DOMAIN queueQ' /\ Removes(queueQ'[k - d], queueQ[i + d].task)
    BY <1>2, <2>2
  <2>4. i < k - d /\ k - d < j
    BY <1>0, <2>2
  <2> QED
    BY <2>1, <2>3, <2>4
<1> QED
  BY <1>3, <1>4 DEF Serial, Req, Removes, Conflict

(* A new task comes behind the removal of its user's task before; the lock *)
(* of VzLPRTcp_Open puts a connect task behind the removal of every other. *)
LEMMA StartSerial ==
    ASSUME Typed, Typed', Accounted, Serial, NEW u \in Users, NEW t, Starts(u, t)
    PROVE  Serial'
<1> USE DEF Starts
<1> DEFINE M == TaskStanza(t.type, t)
           n == Len(queueQ)
<1>1. M.type = t.type /\ M.task = t
  BY TaskStanzaGood
<1>4. queueQ \in Seq(GoodMsg(unequal_task_id_)) /\ queueQ' = Append(queueQ, M)
  BY DEF Typed
<1> HIDE DEF M
<1>5. /\ n \in Nat /\ DOMAIN queueQ = 1 .. n /\ DOMAIN queueQ' = 1 .. n + 1
      /\ queueQ'[n + 1] = M /\ \A i \in 1 .. n : queueQ'[i] = queueQ[i]
  BY <1>4
<1> HIDE DEF n
<1>6. \A i \in DOMAIN queueQ' : i \in DOMAIN queueQ \/ i = n + 1
  BY <1>5
<1>7. \A x : x.owner \in Users /\ Waited(x) => ~Conflict(x, t)
  <2> SUFFICES ASSUME NEW x, x.owner \in Users, Waited(x), Conflict(x, t) PROVE FALSE
    OBVIOUS
  <2>1. x.owner # u
    BY DEF Waited
  <2>2. x.type = "REQ_CONNECT_SERVER" /\ t.type = "REQ_CONNECT_SERVER"
    BY <2>1 DEF Conflict
  <2>3. user[x.owner].pc # "idle" /\ user[x.owner].task.type = "REQ_CONNECT_SERVER"
    BY <2>2 DEF Waited
  <2> QED
    BY <2>2, <2>3
<1> HIDE DEF Starts
<1>8. \A x \in tasks_ : \A j \in DOMAIN queueQ' :
          Req(queueQ'[j]) /\ Conflict(x, queueQ'[j].task) =>
             \E i \in DOMAIN queueQ' : i < j /\ Removes(queueQ'[i], x)
  <2> SUFFICES ASSUME NEW x \in tasks_, NEW j \in DOMAIN queueQ', Req(queueQ'[j]),
                      Conflict(x, queueQ'[j].task)
               PROVE  \E i \in DOMAIN queueQ' : i < j /\ Removes(queueQ'[i], x)
    OBVIOUS
  <2>1. CASE j \in DOMAIN queueQ
    <3>1. queueQ'[j] = queueQ[j]
      BY <1>5, <2>1
    <3>2. PICK i \in DOMAIN queueQ : i < j /\ Removes(queueQ[i], x)
      BY <2>1, <3>1 DEF Serial
    <3> QED
      BY <1>5, <3>2
  <2>2. CASE j = n + 1
    <3>1. Conflict(x, t)
      BY <1>1, <1>5, <2>2
    <3>2. x.owner \in Users
      BY TaskFields DEF Typed
    <3>3. PICK i \in DOMAIN queueQ : Removes(queueQ[i], x)
      BY <1>7, <3>1, <3>2 DEF Accounted
    <3> QED
      BY <1>5, <2>2, <3>3
  <2> QED
    BY <1>6, <2>1, <2>2
<1>9. \A i, j \in DOMAIN queueQ' :
          i < j /\ Req(queueQ'[i]) /\ Req(queueQ'[j]) /\ Conflict(queueQ'[i].task, queueQ'[j].task) =>
             \E k \in DOMAIN queueQ' : i < k /\ k < j /\ Removes(queueQ'[k], queueQ'[i].task)
  <2> SUFFICES ASSUME NEW i \in DOMAIN queueQ', NEW j \in DOMAIN queueQ', i < j, Req(queueQ'[i]),
                      Req(queueQ'[j]), Conflict(queueQ'[i].task, queueQ'[j].task)
               PROVE  \E k \in DOMAIN queueQ' : i < k /\ k < j /\ Removes(queueQ'[k], queueQ'[i].task)
    OBVIOUS
  <2>0. i \in DOMAIN queueQ /\ queueQ'[i] = queueQ[i]
    BY <1>5
  <2>1. CASE j \in DOMAIN queueQ
    <3>1. queueQ'[j] = queueQ[j]
      BY <1>5, <2>1
    <3>2. PICK k \in DOMAIN queueQ : i < k /\ k < j /\ Removes(queueQ[k], queueQ[i].task)
      BY <2>0, <2>1, <3>1 DEF Serial
    <3> QED
      BY <1>5, <2>0, <3>2
  <2>2. CASE j = n + 1
    <3>1. PICK x : x = queueQ[i].task
      OBVIOUS
    <3>2. Conflict(x, t)
      BY <1>1, <1>5, <2>0, <2>2, <3>1
    <3>3. queueQ[i] \in GoodMsg(unequal_task_id_) /\ Req(queueQ[i])
      BY <2>0, QueueFacts
    <3>4. x \in GoodTask(unequal_task_id_)
      BY <3>1, <3>3, GoodMsgFields
    <3>5. x.owner \in Users
      BY <3>4, TaskFields
    <3>6. PICK k \in DOMAIN queueQ : i < k /\ Removes(queueQ[k], x)
      BY <1>7, <2>0, <3>1, <3>2, <3>3, <3>5 DEF Accounted
    <3> QED
      BY <1>5, <2>0, <2>2, <3>1, <3>6
  <2> QED
    BY <1>6, <2>1, <2>2
<1>10. tasks_' = tasks_
  BY DEF Starts
<1> QED
  BY <1>8, <1>9, <1>10 DEF Serial, Req, Removes, Conflict

(* The task that enters tasks_ conflicts with none that is there.          *)
LEMMA TranslateSerial ==
    ASSUME Typed, Typed', Serial, OnTranslateToAsyncLayer
    PROVE  /\ Serial'
           /\ \A x \in tasks_ : ~Conflict(x, queueQ[1].task)
<1>1. PICK h, t : h = queueQ[1] /\ t = h.task
  OBVIOUS
<1>2. /\ 1 \in DOMAIN queueQ /\ Req(h) /\ Moved(queueQ, queueQ', 1, {})
      /\ tasks_' = tasks_ \cup {t}
  BY <1>1, TranslateTyped
<1>4. /\ DOMAIN queueQ \subseteq Nat /\ DOMAIN queueQ = 1 .. Len(queueQ) /\ Len(queueQ) \in Nat
      /\ DOMAIN queueQ' \subseteq Nat /\ DOMAIN queueQ' = 1 .. Len(queueQ') /\ Len(queueQ') \in Nat
  BY QueueFacts, QueueFactsNext
<1>5. \A i \in DOMAIN queueQ' : i + 1 \in DOMAIN queueQ /\ queueQ'[i] = queueQ[i + 1] /\ 1 < i + 1
  BY <1>2, <1>4 DEF Moved
<1>6. \A x : \A j \in DOMAIN queueQ : Removes(queueQ[j], x) =>
          j > 1 /\ j - 1 \in DOMAIN queueQ' /\ Removes(queueQ'[j - 1], x)
  <2> SUFFICES ASSUME NEW x, NEW j \in DOMAIN queueQ, Removes(queueQ[j], x)
               PROVE  j > 1 /\ j - 1 \in DOMAIN queueQ' /\ Removes(queueQ'[j - 1], x)
    OBVIOUS
  <2>1. j # 1
    BY <1>1, <1>2 DEF Removes, Req, ReqType
  <2>2. j > 1
    BY <1>4, <2>1
  <2> QED
    BY <1>2, <2>2 DEF Moved
<1>7. \A x \in tasks_ : ~Conflict(x, t)
  <2> SUFFICES ASSUME NEW x \in tasks_, Conflict(x, t) PROVE FALSE
    OBVIOUS
  <2>1. PICK i \in DOMAIN queueQ : i < 1 /\ Removes(queueQ[i], x)
    BY <1>1, <1>2 DEF Serial
  <2> QED
    BY <1>4, <2>1
<1>8. \A x \in tasks_' : \A j \in DOMAIN queueQ' :
          Req(queueQ'[j]) /\ Conflict(x, queueQ'[j].task) =>
             \E i \in DOMAIN queueQ' : i < j /\ Removes(queueQ'[i], x)
  <2> SUFFICES ASSUME NEW x \in tasks_', NEW j \in DOMAIN queueQ', Req(queueQ'[j]),
                      Conflict(x, queueQ'[j].task)
               PROVE  \E i \in DOMAIN queueQ' : i < j /\ Removes(queueQ'[i], x)
    OBVIOUS
  <2>1. j + 1 \in DOMAIN queueQ /\ queueQ'[j] = queueQ[j + 1] /\ 1 < j + 1
    BY <1>5
  <2>2. PICK i \in DOMAIN queueQ : i < j + 1 /\ Removes(queueQ[i], x)
    <3>1. CASE x \in tasks_
      BY <2>1, <3>1 DEF Serial
    <3>2. CASE x = t
      <4>1. \E k \in DOMAIN queueQ : 1 < k /\ k < j + 1 /\ Removes(queueQ[k], queueQ[1].task)
        BY <1>1, <1>2, <2>1, <3>2 DEF Serial
      <4> QED
        BY <1>1, <3>2, <4>1
    <3> QED
      BY <1>2, <3>1, <3>2
  <2>3. i > 1 /\ i - 1 \in DOMAIN queueQ' /\ Removes(queueQ'[i - 1], x)
    BY <1>6, <2>2
  <2>4. i - 1 < j
    BY <1>4, <2>2
  <2> QED
    BY <2>3, <2>4
<1>9. \A i, j \in DOMAIN queueQ' :
          i < j /\ Req(queueQ'[i]) /\ Req(queueQ'[j]) /\ Conflict(queueQ'[i].task, queueQ'[j].task) =>
             \E k \in DOMAIN queueQ' : i < k /\ k < j /\ Removes(queueQ'[k], queueQ'[i].task)
  <2> SUFFICES ASSUME NEW i \in DOMAIN queueQ', NEW j \in DOMAIN queueQ', i < j, Req(queueQ'[i]),
                      Req(queueQ'[j]), Conflict(queueQ'[i].task, queueQ'[j].task)
               PROVE  \E k \in DOMAIN queueQ' : i < k /\ k < j /\ Removes(queueQ'[k], queueQ'[i].task)
    OBVIOUS
  <2>1. /\ i + 1 \in DOMAIN queueQ /\ queueQ'[i] = queueQ[i + 1]
        /\ j + 1 \in DOMAIN queueQ /\ queueQ'[j] = queueQ[j + 1] /\ i + 1 < j + 1
    BY <1>4, <1>5
  <2>2. PICK k \in DOMAIN queueQ : i + 1 < k /\ k < j + 1 /\ Removes(queueQ[k], queueQ[i + 1].task)
    BY <2>1 DEF Serial
  <2>3. k - 1 \in DOMAIN queueQ' /\ Removes(queueQ'[k - 1], queueQ[i + 1].task)
    BY <1>6, <2>2
  <2>4. i < k - 1 /\ k - 1 < j
    BY <1>4, <2>2
  <2> QED
    BY <2>1, <2>3, <2>4
<1> QED
  BY <1>1, <1>7, <1>8, <1>9 DEF Serial, Req, Removes, Conflict

(* The removal that is gone separated only its task, which is gone too,    *)
(* from others.                                                            *)
LEMMA OnRemoveSerial ==
    ASSUME Typed, Typed', Serial, OnRemoveTaskMessage
    PROVE  Serial'
<1>1. PICK t : t = queueQ[1].task
  OBVIOUS
<1>2. /\ 1 \in DOMAIN queueQ /\ queueQ[1].type = "REQ_REMOVE_TASK_EVENT"
      /\ Moved(queueQ, queueQ', 1, {}) /\ tasks_' = tasks_ \ {t}
  BY <1>1, OnRemoveTyped
<1>4. /\ DOMAIN queueQ \subseteq Nat /\ DOMAIN queueQ = 1 .. Len(queueQ) /\ Len(queueQ) \in Nat
      /\ DOMAIN queueQ' \subseteq Nat /\ DOMAIN queueQ' = 1 .. Len(queueQ') /\ Len(queueQ') \in Nat
  BY QueueFacts, QueueFactsNext
<1>5. \A i \in DOMAIN queueQ' : i + 1 \in DOMAIN queueQ /\ queueQ'[i] = queueQ[i + 1] /\ 1 < i + 1
  BY <1>2, <1>4 DEF Moved
<1>6. \A x : \A j \in DOMAIN queueQ : Removes(queueQ[j], x) /\ j > 1 =>
          j - 1 \in DOMAIN queueQ' /\ Removes(queueQ'[j - 1], x)
  BY <1>2 DEF Moved
<1>8. \A x \in tasks_' : \A j \in DOMAIN queueQ' :
          Req(queueQ'[j]) /\ Conflict(x, queueQ'[j].task) =>
             \E i \in DOMAIN queueQ' : i < j /\ Removes(queueQ'[i], x)
  <2> SUFFICES ASSUME NEW x \in tasks_', NEW j \in DOMAIN queueQ', Req(queueQ'[j]),
                      Conflict(x, queueQ'[j].task)
               PROVE  \E i \in DOMAIN queueQ' : i < j /\ Removes(queueQ'[i], x)
    OBVIOUS
  <2>1. j + 1 \in DOMAIN queueQ /\ queueQ'[j] = queueQ[j + 1] /\ x \in tasks_ /\ x # t
    BY <1>2, <1>5
  <2>2. PICK i \in DOMAIN queueQ : i < j + 1 /\ Removes(queueQ[i], x)
    BY <2>1 DEF Serial
  <2>3. i # 1
    BY <1>1, <2>1, <2>2 DEF Removes
  <2>4. i > 1 /\ i - 1 < j
    BY <1>4, <2>2, <2>3
  <2>5. i - 1 \in DOMAIN queueQ' /\ Removes(queueQ'[i - 1], x)
    BY <1>6, <2>2, <2>4
  <2> QED
    BY <2>4, <2>5
<1>9. \A i, j \in DOMAIN queueQ' :
          i < j /\ Req(queueQ'[i]) /\ Req(queueQ'[j]) /\ Conflict(queueQ'[i].task, queueQ'[j].task) =>
             \E k \in DOMAIN queueQ' : i < k /\ k < j /\ Removes(queueQ'[k], queueQ'[i].task)
  <2> SUFFICES ASSUME NEW i \in DOMAIN queueQ', NEW j \in DOMAIN queueQ', i < j, Req(queueQ'[i]),
                      Req(queueQ'[j]), Conflict(queueQ'[i].task, queueQ'[j].task)
               PROVE  \E k \in DOMAIN queueQ' : i < k /\ k < j /\ Removes(queueQ'[k], queueQ'[i].task)
    OBVIOUS
  <2>1. /\ i + 1 \in DOMAIN queueQ /\ queueQ'[i] = queueQ[i + 1]
        /\ j + 1 \in DOMAIN queueQ /\ queueQ'[j] = queueQ[j + 1] /\ i + 1 < j + 1
    BY <1>4, <1>5
  <2>2. PICK k \in DOMAIN queueQ : i + 1 < k /\ k < j + 1 /\ Removes(queueQ[k], queueQ[i + 1].task)
    BY <2>1 DEF Serial
  <2>4. k > 1 /\ i < k - 1 /\ k - 1 < j
    BY <1>4, <2>2
  <2>3. k - 1 \in DOMAIN queueQ' /\ Removes(queueQ'[k - 1], queueQ[i + 1].task)
    BY <1>6, <2>2, <2>4
  <2> QED
    BY <2>1, <2>3, <2>4
<1> QED
  BY <1>8, <1>9 DEF Serial, Req, Removes, Conflict

(* The tasks that are alive: created, and not yet gone from everywhere.    *)
LEMMA LiveSmaller ==
    ASSUME \A i \in DOMAIN queueQ' : Req(queueQ'[i]) =>
               \E j \in DOMAIN queueQ : Req(queueQ[j]) /\ queueQ'[i] = queueQ[j],
           \A i \in DOMAIN asyncQ' : asyncQ'[i].task \in Live, tasks_' \subseteq Live,
           \A u \in Users : user'[u].pc # "idle" => user'[u].task \in Live
    PROVE  Live' \subseteq Live
<1> SUFFICES ASSUME NEW t \in Live' PROVE t \in Live
  OBVIOUS
<1>1. CASE t \in tasks_'
  BY <1>1
<1>2. CASE \E i \in DOMAIN asyncQ' : t = asyncQ'[i].task
  BY <1>2
<1>3. CASE \E i \in DOMAIN queueQ' : Req(queueQ'[i]) /\ t = queueQ'[i].task
  BY <1>3 DEF Live
<1>4. CASE \E u \in Users : user'[u].pc # "idle" /\ t = user'[u].task
  BY <1>4
<1> QED
  BY <1>1, <1>2, <1>3, <1>4 DEF Live, Req

(* Where a task may be.                                                    *)
LEMMA InLive ==
    /\ tasks_ \subseteq Live
    /\ \A i \in DOMAIN asyncQ : asyncQ[i].task \in Live
    /\ \A i \in DOMAIN queueQ : Req(queueQ[i]) => queueQ[i].task \in Live
    /\ \A u \in Users : user[u].pc # "idle" => user[u].task \in Live
  BY DEF Live

(* Tasks that are anywhere are well formed.                                *)
LEMMA LiveGood ==
    ASSUME Typed
    PROVE  Live \subseteq GoodTask(unequal_task_id_)
<1>1. tasks_ \subseteq GoodTask(unequal_task_id_)
  BY DEF Typed
<1>2. \A i \in DOMAIN asyncQ : asyncQ[i].task \in GoodTask(unequal_task_id_)
  BY QueueFacts, AsyncMsgFields
<1>3. \A i \in DOMAIN queueQ : Req(queueQ[i]) => queueQ[i].task \in GoodTask(unequal_task_id_)
  BY QueueFacts, GoodMsgFields
<1>4. \A u \in Users : user[u].pc # "idle" => user[u].task \in GoodTask(unequal_task_id_)
  BY DEF Typed, GoodUser
<1> QED
  BY <1>1, <1>2, <1>3, <1>4 DEF Live

(* A step that starts no task and hands none over makes none.              *)
LEMMA LiveQuiet ==
    ASSUME NEW d, NEW new, Moved(queueQ, queueQ', d, new), \A m \in new : ~Req(m),
           NEW e, Moved(asyncQ, asyncQ', e, {}), tasks_' \subseteq tasks_,
           \A u \in Users : user'[u].pc # "idle" =>
               user[u].pc # "idle" /\ user'[u].task = user[u].task
    PROVE  Live' \subseteq Live
<1>1. \A i \in DOMAIN queueQ' : Req(queueQ'[i]) =>
               \E j \in DOMAIN queueQ : Req(queueQ[j]) /\ queueQ'[i] = queueQ[j]
  BY DEF Moved
<1>2. \A i \in DOMAIN asyncQ' : asyncQ'[i].task \in Live
  BY InLive DEF Moved
<1>3. tasks_' \subseteq Live
  BY InLive
<1>4. \A u \in Users : user'[u].pc # "idle" => user'[u].task \in Live
  BY InLive
<1> QED
  BY <1>1, <1>2, <1>3, <1>4, LiveSmaller

(* Ids stay unique while no task is made.                                  *)
LEMMA UniqueKeeps ==
    ASSUME Unique, Live' \subseteq Live PROVE Unique'
  BY DEF Unique

(* Tasks stay their holders' while no handle changes under them.           *)
LEMMA HolderKeeps ==
    ASSUME Typed, Holder, Live' \subseteq Live,
           \A u \in Users : user'[u].pc # "idle" =>
               user[u].pc # "idle" /\ user'[u].task = user[u].task,
           \A u \in Users : \/ user'[u].handle = user[u].handle
                            \/ /\ user[u].pc # "idle" /\ user'[u].pc = "idle"
                               /\ user[u].task.type = "REQ_CONNECT_SERVER"
    PROVE  Holder'
<1>1. \A t \in Live' :
        IF t.type = "REQ_CONNECT_SERVER" THEN t.sid = NULL_SESSION_ID
        ELSE t.sid # NULL_SESSION_ID /\ t.sid = user'[t.owner].handle /\ t.sid < t.id
  <2> TAKE t \in Live'
  <2>1. t \in Live /\ t \in GoodTask(unequal_task_id_)
    BY LiveGood
  <2>2. t.owner \in Users
    BY <2>1, TaskFields
  <2>3. CASE t.type = "REQ_CONNECT_SERVER"
    BY <2>1, <2>3 DEF Holder
  <2>4. CASE t.type # "REQ_CONNECT_SERVER"
    <3>1. t.sid # NULL_SESSION_ID /\ t.sid = user[t.owner].handle /\ t.sid < t.id
      BY <2>1, <2>4 DEF Holder
    <3>2. user'[t.owner].handle = user[t.owner].handle
      BY <2>2, <3>1 DEF Holder
    <3> QED
      BY <2>4, <3>1, <3>2
  <2> QED
    BY <2>3, <2>4
<1>2. \A u \in Users : user'[u].pc # "idle" /\ user'[u].task.type = "REQ_CONNECT_SERVER" =>
          user'[u].handle = NULL_SESSION_ID
  BY DEF Holder
<1> QED
  BY <1>1, <1>2 DEF Holder

(* Connect tasks stay ahead while nothing is connected.                    *)
LEMMA AheadKeeps ==
    ASSUME Ahead, tasks_' \subseteq tasks_, NEW e, Moved(asyncQ, asyncQ', e, {}),
           unequal_session_id_' = unequal_session_id_
    PROVE  Ahead'
<1>1. \A i \in DOMAIN asyncQ' : \E j \in DOMAIN asyncQ : asyncQ'[i] = asyncQ[j]
  BY DEF Moved
<1> QED
  BY <1>1 DEF Ahead

(* A session id that is the user's own, or none.                           *)
Mine(u, sid) == sid = NULL_SESSION_ID \/ (Claims(u, sid) /\ sid <= unequal_session_id_)

(* In the next state users have only what was their own.                   *)
Hold ==
    \A u \in Users :
        /\ Mine(u, user'[u].handle)
        /\ user'[u].msg # None => Mine(u, user'[u].msg.sid)
        /\ \A i \in DOMAIN userQ'[u] : Mine(u, userQ'[u][i].sid)

(* What a user has is its own.                                             *)
LEMMA OwnIsMine ==
    ASSUME Bounded, NEW u \in Users
    PROVE  /\ Mine(u, user[u].handle)
           /\ user[u].msg # None => Mine(u, user[u].msg.sid)
           /\ \A i \in DOMAIN userQ[u] : Mine(u, userQ[u][i].sid)
  BY DEF Bounded, Mine, Claims

(* A step in which users keep their own uses no session id that was not    *)
(* given out.                                                              *)
LEMMA BoundedKeeps ==
    ASSUME Typed, Bounded, unequal_session_id_' = unequal_session_id_,
           \A s \in async_sessions_' : \/ \E o \in async_sessions_ : s.sid = o.sid
                                       \/ s.sid <= unequal_session_id_,
           NEW d, NEW new, Moved(queueQ, queueQ', d, new),
           \A m \in new : m.sid <= unequal_session_id_, Hold,
           \A sid \in reconnects' : sid <= unequal_session_id_
    PROVE  Bounded'
<1>1. \A s \in async_sessions_' : s.sid <= unequal_session_id_
  BY DEF Bounded
<1>2. \A i \in DOMAIN queueQ' : queueQ'[i].sid <= unequal_session_id_
  BY DEF Bounded, Moved
<1>3. NULL_SESSION_ID <= unequal_session_id_
  BY DEF Typed, NULL_SESSION_ID, FirstTask
<1>4. \A u \in Users :
         /\ user'[u].handle <= unequal_session_id_
         /\ user'[u].msg # None => user'[u].msg.sid <= unequal_session_id_
         /\ \A i \in DOMAIN userQ'[u] : userQ'[u][i].sid <= unequal_session_id_
  BY <1>3 DEF Hold, Mine
<1> QED
  BY <1>1, <1>2, <1>4 DEF Bounded

(* A session id is below the ids of the requests in queueQ.                *)
LEMMA SidOld ==
    ASSUME Typed, Order, NEW sid \in Nat, sid <= unequal_session_id_
    PROVE  OldId(sid)
<1>1. unequal_session_id_ \in Nat /\ unequal_task_id_ \in Nat /\ unequal_session_id_ < unequal_task_id_
  BY DEF Typed, FirstTask
<1>2. \A j \in DOMAIN queueQ : Req(queueQ[j]) => sid < queueQ[j].id
  <2> SUFFICES ASSUME NEW j \in DOMAIN queueQ, Req(queueQ[j]) PROVE sid < queueQ[j].id
    OBVIOUS
  <2>1. queueQ[j].id \in Nat
    BY QueueFacts, GoodMsgFields
  <2>2. unequal_session_id_ + 1 < queueQ[j].id
    BY DEF Order
  <2> QED
    BY <1>1, <2>1, <2>2
<1> QED
  BY <1>1, <1>2 DEF OldId

(* Ids of events stay behind those of the requests in queueQ.              *)
LEMMA PastKeeps ==
    ASSUME Past, unequal_task_id_' = unequal_task_id_,
           NEW d, NEW new, Moved(queueQ, queueQ', d, new),
           \A m \in new : ~Req(m) /\ (News(m) => OldId(m.id)),
           \A s \in async_sessions_' : \/ \E o \in async_sessions_ : s.connect_id = o.connect_id
                                       \/ OldId(s.connect_id)
    PROVE  Past'
<1>1. \A id : OldId(id) => OldId(id)'
  BY DEF OldId, Moved, Req
<1>2. \A s \in async_sessions_' : OldId(s.connect_id)
  BY DEF Past
<1>3. \A i \in DOMAIN queueQ' : News(queueQ'[i]) => OldId(queueQ'[i].id)
  BY DEF Past, Moved
<1>4. \A i \in DOMAIN queueQ' : News(queueQ'[i]) => \A id : id = queueQ'[i].id => OldId(id)'
  BY <1>1, <1>3
<1> QED
  BY <1>1, <1>2, <1>4 DEF Past, OldId, News, Req

(* News that no connect task can take for another session's.               *)
Fresh(id, sid) ==
    \A t \in tasks_ : t.type = "REQ_CONNECT_SERVER" /\ t.id = id => Named(id, sid)

(* A step names no session to a connect task in tasks_, unless the message *)
(* it posts does.                                                          *)
LEMMA NamedKeeps ==
    ASSUME Typed, Ahead, NEW d, NEW new, Moved(queueQ, queueQ', d, new),
           \A m \in new : News(m) => Fresh(m.id, m.sid),
           \A s \in async_sessions_' :
               \/ \E o \in async_sessions_ : s.sid = o.sid /\ s.connect_id = o.connect_id
               \/ s.connect_id = s.sid /\ s.sid <= unequal_session_id_,
           NEW t \in tasks_, t.type = "REQ_CONNECT_SERVER", NEW sid, Named(t.id, sid)'
    PROVE  Named(t.id, sid)
<1>0. unequal_session_id_ < t.id /\ t.id \in Nat /\ unequal_session_id_ \in Nat
  <2>1. t.id \in Nat
    BY TaskFields, IdNumbers DEF Typed
  <2> QED
    BY <2>1 DEF Ahead, Typed, FirstTask
<1>1. CASE \E s \in async_sessions_' : s.connect_id = t.id /\ s.sid = sid
  <2>1. PICK s \in async_sessions_' : s.connect_id = t.id /\ s.sid = sid
    BY <1>1
  <2>2. ~(s.connect_id = s.sid /\ s.sid <= unequal_session_id_)
    BY <1>0, <2>1
  <2> QED
    BY <2>1, <2>2 DEF Named
<1>2. CASE \E i \in DOMAIN queueQ' : News(queueQ'[i]) /\ queueQ'[i].id = t.id /\ queueQ'[i].sid = sid
  <2>1. PICK i \in DOMAIN queueQ' : News(queueQ'[i]) /\ queueQ'[i].id = t.id /\ queueQ'[i].sid = sid
    BY <1>2
  <2>2. CASE i + d \in DOMAIN queueQ /\ queueQ'[i] = queueQ[i + d]
    BY <2>1, <2>2 DEF Named
  <2>3. CASE queueQ'[i] \in new
    BY <2>1, <2>3 DEF Fresh
  <2> QED
    BY <2>2, <2>3 DEF Moved
<1> QED
  BY <1>1, <1>2 DEF Named, News

(* Users that keep their own come to claim nothing of another's.           *)
LEMMA ClaimKeeps ==
    ASSUME OneClaim, Hold, tasks_' \subseteq tasks_,
           \A t \in tasks_ : t.type = "REQ_CONNECT_SERVER" =>
               \A sid : Named(t.id, sid)' => Named(t.id, sid)
    PROVE  OneClaim'
<1>1. \A sid \in SessionIds : \A u \in Users : Claims(u, sid)' => Claims(u, sid)
  <2> SUFFICES ASSUME NEW sid \in SessionIds, NEW u \in Users, Claims(u, sid)' PROVE Claims(u, sid)
    OBVIOUS
  <2>0. Mine(u, sid) => Claims(u, sid)
    BY IdNumbers DEF Mine
  <2>1. CASE user'[u].handle = sid
    BY <2>0, <2>1 DEF Hold
  <2>2. CASE user'[u].msg # None /\ user'[u].msg.sid = sid
    BY <2>0, <2>2 DEF Hold
  <2>3. CASE \E i \in DOMAIN userQ'[u] : userQ'[u][i].sid = sid
    BY <2>0, <2>3 DEF Hold
  <2>4. ASSUME NEW t \in tasks_', t.type = "REQ_CONNECT_SERVER", t.owner = u, Named(t.id, sid)'
        PROVE  Claims(u, sid)
    BY <2>4 DEF Claims
  <2> QED
    BY <2>1, <2>2, <2>3, <2>4 DEF Claims
<1> QED
  BY <1>1 DEF OneClaim

(* A step in which no task comes or goes and no new session id is used.    *)
LEMMA HQuiet ==
    ASSUME IInv, IInv', HInv, NEW d \in {0, 1}, NEW new, Moved(queueQ, queueQ', d, new),
           \A m \in new : /\ ~Req(m) /\ m.sid <= unequal_session_id_
                          /\ News(m) => OldId(m.id) /\ Fresh(m.id, m.sid),
           d = 1 => News(queueQ[1]), NEW e \in {0, 1}, Moved(asyncQ, asyncQ', e, {}),
           unequal_session_id_' = unequal_session_id_, unequal_task_id_' = unequal_task_id_,
           tasks_' = tasks_,
           \A s \in async_sessions_' :
               \/ \E o \in async_sessions_ : s.sid = o.sid /\ s.connect_id = o.connect_id
               \/ s.connect_id = s.sid /\ s.sid <= unequal_session_id_,
           OneSession',
           \A u \in Users : user'[u].pc # "idle" =>
               user[u].pc # "idle" /\ user'[u].task = user[u].task,
           \A u \in Users : \/ user'[u].handle = user[u].handle
                            \/ /\ user[u].pc # "idle" /\ user'[u].pc = "idle"
                               /\ user[u].task.type = "REQ_CONNECT_SERVER",
           Hold, \A sid \in reconnects' : sid <= unequal_session_id_
    PROVE  HInv'
<1>1. /\ Typed /\ Typed' /\ Order /\ Serial /\ Unique /\ Ahead /\ Holder /\ Bounded /\ Past
      /\ OneClaim /\ OneSession
  BY DEF IInv, HInv
<1>2. Serial'
  BY <1>1, QuietSerial
<1>3. Live' \subseteq Live
  BY <1>1, LiveQuiet
<1>4. Unique'
  BY <1>1, <1>3, UniqueKeeps
<1>5. Holder'
  BY <1>1, <1>3, HolderKeeps
<1>6. Ahead'
  BY <1>1, AheadKeeps
<1>7. Bounded'
  BY <1>1, BoundedKeeps
<1>8. Past'
  <2>1. \A s \in async_sessions_' : s.sid \in Nat
    BY IdNumbers, <1>1 DEF Typed, Session
  <2>2. \A s \in async_sessions_' : \/ \E o \in async_sessions_ : s.connect_id = o.connect_id
                                    \/ OldId(s.connect_id)
    BY <1>1, <2>1, SidOld
  <2> QED
    BY <1>1, <2>2, PastKeeps
<1>9. \A t \in tasks_ : t.type = "REQ_CONNECT_SERVER" =>
               \A sid : Named(t.id, sid)' => Named(t.id, sid)
  BY <1>1, NamedKeeps
<1>10. OneClaim'
  BY <1>1, <1>9, ClaimKeeps
<1> QED
  BY <1>2, <1>4, <1>5, <1>6, <1>7, <1>8, <1>10 DEF HInv

(* Users whose handles stay and who get no new message keep their own.     *)
LEMMA HoldSame ==
    ASSUME Bounded, \A u \in Users : /\ user'[u].handle = user[u].handle
                                     /\ user'[u].msg = user[u].msg \/ user'[u].msg = None,
           \A u \in Users : \A i \in DOMAIN userQ'[u] :
               \E j \in DOMAIN userQ[u] : userQ'[u][i] = userQ[u][j]
    PROVE  Hold
  BY OwnIsMine DEF Hold

(* The session id of a task was given out.                                 *)
LEMMA LiveSid ==
    ASSUME Typed, Holder, Bounded, NEW t \in Live
    PROVE  t.sid <= unequal_session_id_
<1>1. t.owner \in Users
  BY LiveGood, TaskFields
<1>2. NULL_SESSION_ID <= unequal_session_id_
  BY DEF Typed, NULL_SESSION_ID, FirstTask
<1> QED
  BY <1>1, <1>2 DEF Holder, Bounded

(* What a new task adds to the queue and to the tasks.                     *)
LEMMA StartMoves ==
    ASSUME Typed, NEW u \in Users, NEW t, Starts(u, t), NEW M, M = TaskStanza(t.type, t)
    PROVE  /\ M.type = t.type /\ M.task = t /\ M.id = t.id /\ M.sid = t.sid /\ Req(M) /\ ~News(M)
           /\ queueQ' = Append(queueQ, M) /\ Moved(queueQ, queueQ', 0, {M})
           /\ Live' \subseteq Live \cup {t}
<1>1. /\ M.type = t.type /\ M.task = t /\ M.id = t.id /\ M.sid = t.sid
      /\ M \in GoodMsg(unequal_task_id_ + 1) /\ t.type \in ReqType
  BY TaskStanzaGood, TaskFields DEF Starts
<1>2. Req(M) /\ ~News(M)
  BY <1>1 DEF Req, News
<1>3. queueQ' = Append(queueQ, M) /\ Moved(queueQ, queueQ', 0, {M})
  <2>1. queueQ' = Append(queueQ, M) /\ queueQ \in Seq(GoodMsg(unequal_task_id_))
    BY DEF Starts, Typed
  <2>2. GoodMsg(unequal_task_id_) \subseteq GoodMsg(unequal_task_id_ + 1)
    <3>1. unequal_task_id_ \in Int /\ unequal_task_id_ + 1 \in Int
          /\ unequal_task_id_ <= unequal_task_id_ + 1
      BY DEF Typed
    <3> QED
      BY <3>1, Grows
  <2>3. queueQ \in Seq(GoodMsg(unequal_task_id_ + 1))
    BY <2>1, <2>2, GrowsSeq
  <2> QED
    BY <1>1, <2>1, <2>3, MovedAppend
<1>4. Live' \subseteq Live \cup {t}
  <2> SUFFICES ASSUME NEW x \in Live' PROVE x \in Live \cup {t}
    OBVIOUS
  <2>0. asyncQ' = asyncQ /\ tasks_' = tasks_ /\ user'[u].task = t
        /\ \A v \in Users : v # u => user'[v] = user[v]
    BY DEF Starts
  <2>1. CASE x \in tasks_'
    BY <2>0, <2>1, InLive
  <2>2. CASE \E i \in DOMAIN asyncQ' : x = asyncQ'[i].task
    BY <2>0, <2>2, InLive
  <2>3. CASE \E i \in DOMAIN queueQ' : Req(queueQ'[i]) /\ x = queueQ'[i].task
    BY <1>1, <1>3, <2>3, InLive DEF Moved
  <2>4. CASE \E v \in Users : user'[v].pc # "idle" /\ x = user'[v].task
    BY <2>0, <2>4, InLive
  <2> QED
    BY <2>1, <2>2, <2>3, <2>4 DEF Live, Req
<1> QED
  BY <1>1, <1>2, <1>3, <1>4

(* An API call.                                                            *)
LEMMA StartHInv ==
    ASSUME IInv, IInv', HInv, NEW u \in Users, NEW t, Starts(u, t)
    PROVE  HInv'
<1>1. /\ Typed /\ Typed' /\ Order /\ Accounted /\ Serial /\ Unique /\ Ahead /\ Holder /\ Bounded
      /\ Past /\ OneClaim /\ OneSession
  BY DEF IInv, HInv
<1>2. Serial'
  BY <1>1, StartSerial
<1>3. PICK M : M = TaskStanza(t.type, t)
  OBVIOUS
<1>4. M.type = t.type /\ M.task = t /\ M.id = t.id /\ M.sid = t.sid
  BY <1>1, <1>3, StartMoves
<1>5. Req(M) /\ ~News(M)
  BY <1>1, <1>3, StartMoves
<1>6. queueQ' = Append(queueQ, M) /\ Moved(queueQ, queueQ', 0, {M})
  BY <1>1, <1>3, StartMoves
<1>7. Live' \subseteq Live \cup {t}
  BY <1>1, <1>3, StartMoves
<1>8. \A x \in Live : x.id # t.id
  <2> TAKE x \in Live
  <2>1. x.id \in Nat /\ x.id <= unequal_task_id_
    BY <1>1, LiveGood, TaskFields, IdNumbers
  <2> QED
    BY <1>1, <2>1 DEF Starts, Typed
<1>9. Unique'
  BY <1>1, <1>7, <1>8 DEF Unique
<1>10. user[u].handle \in Nat /\ user[u].handle <= unequal_session_id_ /\ unequal_session_id_ < t.id
       /\ unequal_session_id_ \in Nat /\ t.id \in Nat
  <2>1. user[u].handle \in {NULL_SESSION_ID} \cup SessionIds
    BY <1>1 DEF Typed, UserState
  <2>2. user[u].handle \in Nat
    BY <2>1, IdNumbers DEF NULL_SESSION_ID
  <2> QED
    BY <1>1, <2>2 DEF Starts, Typed, Bounded, FirstTask
<1>11. \A v \in Users : user'[v].handle = user[v].handle
  BY DEF Starts
<1>12. Holder'
  <2>1. \A x \in Live' :
          IF x.type = "REQ_CONNECT_SERVER" THEN x.sid = NULL_SESSION_ID
          ELSE x.sid # NULL_SESSION_ID /\ x.sid = user'[x.owner].handle /\ x.sid < x.id
    <3> TAKE x \in Live'
    <3>1. CASE x \in Live
      <4>1. x.owner \in Users
        BY <1>1, <3>1, LiveGood, TaskFields
      <4> QED
        BY <1>1, <1>11, <3>1, <4>1 DEF Holder
    <3>2. CASE x = t
      BY <1>10, <1>11, <3>2 DEF Starts
    <3> QED
      BY <1>7, <3>1, <3>2
  <2>2. \A v \in Users : user'[v].pc # "idle" /\ user'[v].task.type = "REQ_CONNECT_SERVER" =>
          user'[v].handle = NULL_SESSION_ID
    BY <1>1, <1>11 DEF Starts, Holder
  <2> QED
    BY <2>1, <2>2 DEF Holder
<1>13. UNCHANGED <<unequal_session_id_, userQ, asyncQ, tasks_, async_sessions_, reconnects>>
  BY DEF Starts
<1>14. Ahead'
  BY <1>1, <1>13 DEF Ahead
<1>15. Hold
  <2>1. \A v \in Users : user'[v].msg = user[v].msg \/ user'[v].msg = None
    BY DEF Starts
  <2>2. userQ' = userQ
    BY <1>13
  <2> QED
    BY <1>1, <1>11, <2>1, <2>2, HoldSame
<1>16. M.sid <= unequal_session_id_
  BY <1>4, <1>10, <1>1 DEF Starts, Typed, NULL_SESSION_ID
<1>17. Bounded'
  <2>1. unequal_session_id_' = unequal_session_id_ /\ async_sessions_' = async_sessions_
        /\ \A sid \in reconnects' : sid <= unequal_session_id_
    BY <1>1, <1>13 DEF Bounded
  <2> QED
    BY <1>1, <1>6, <1>15, <1>16, <2>1, BoundedKeeps
<1>18. Past'
  <2>1. \A id : id \in Nat /\ OldId(id) => OldId(id)'
    <3> SUFFICES ASSUME NEW id \in Nat, OldId(id) PROVE OldId(id)'
      OBVIOUS
    <3>1. id <= unequal_task_id_ /\ unequal_task_id_ \in Nat /\ unequal_task_id_' = unequal_task_id_ + 1
          /\ t.id = unequal_task_id_ + 1
      BY <1>1 DEF OldId, Starts, Typed, FirstTask
    <3>2. id <= unequal_task_id_' /\ id < M.id
      BY <1>4, <3>1
    <3>3. \A j \in DOMAIN queueQ' : Req(queueQ'[j]) => id < queueQ'[j].id
      BY <1>6, <3>2 DEF Moved, OldId
    <3> QED
      BY <3>2, <3>3 DEF OldId, Req
  <2>2. \A s \in async_sessions_' : s.connect_id \in Nat /\ OldId(s.connect_id)
    BY <1>1, <1>13, SessionFields DEF Past
  <2>3. \A i \in DOMAIN queueQ' : News(queueQ'[i]) =>
           queueQ'[i].id \in Nat /\ OldId(queueQ'[i].id)
    <3> SUFFICES ASSUME NEW i \in DOMAIN queueQ', News(queueQ'[i])
                 PROVE  queueQ'[i].id \in Nat /\ OldId(queueQ'[i].id)
      OBVIOUS
    <3>1. PICK j \in DOMAIN queueQ : queueQ'[i] = queueQ[j]
      BY <1>5, <1>6 DEF Moved
    <3> QED
      BY <1>1, <3>1, QueueFacts, GoodMsgFields DEF Past
  <2>4. \A i \in DOMAIN queueQ' : News(queueQ'[i]) => \A id : id = queueQ'[i].id => OldId(id)'
    BY <2>1, <2>3
  <2> QED
    BY <2>1, <2>2, <2>4 DEF Past, OldId, News, Req
<1>19. OneClaim'
  <2>1. \A x \in tasks_ : x.type = "REQ_CONNECT_SERVER" =>
               \A sid : Named(x.id, sid)' => Named(x.id, sid)
    BY <1>1, <1>5, <1>6, <1>13, NamedKeeps
  <2>2. tasks_' \subseteq tasks_
    BY <1>13
  <2> QED
    BY <1>1, <1>15, <2>1, <2>2, ClaimKeeps
<1>20. OneSession'
  BY <1>1, <1>13 DEF OneSession
<1> QED
  BY <1>2, <1>9, <1>12, <1>14, <1>17, <1>18, <1>19, <1>20 DEF HInv

(* The handles, in a step that leaves the users alone.                     *)
LEMMA SameUsers ==
    ASSUME user' = user
    PROVE  /\ \A u \in Users : user'[u].pc # "idle" =>
                 user[u].pc # "idle" /\ user'[u].task = user[u].task
           /\ \A u \in Users : user'[u].handle = user[u].handle
  OBVIOUS

(* Users that a step leaves alone keep their own.                          *)
LEMMA HoldSame2 ==
    ASSUME Bounded, user' = user, userQ' = userQ PROVE Hold
<1>1. \A u \in Users : /\ user'[u].handle = user[u].handle /\ user'[u].msg = user[u].msg
  OBVIOUS
<1>2. \A u \in Users : \A i \in DOMAIN userQ'[u] :
               \E j \in DOMAIN userQ[u] : userQ'[u][i] = userQ[u][j]
  OBVIOUS
<1> QED
  BY <1>1, <1>2, HoldSame

(* The id of the request at the head of asyncQ is behind those in queueQ.  *)
LEMMA HeadOld ==
    ASSUME Typed, Order, 1 \in DOMAIN asyncQ
    PROVE  OldId(asyncQ[1].id)
<1>1. asyncQ[1].id <= unequal_task_id_
  BY QueueFacts, AsyncMsgFields
<1> QED
  BY <1>1 DEF OldId, Order

(* A new session: its id is claimed by nobody, and from now on by the      *)
(* owner of the connect task alone.                                        *)
LEMMA OnConnectHInv ==
    ASSUME IInv, IInv', HInv, NEW r \in scenario.connects, OnConnectMessage(r)
    PROVE  HInv'
<1>1. /\ Typed /\ Typed' /\ Order /\ Serial /\ Unique /\ Ahead /\ Holder /\ Bounded
      /\ Past /\ OneClaim /\ OneSession
  BY DEF IInv, HInv
<1>2. PICK h, t, n, s : /\ h = asyncQ[1] /\ t = h.task /\ n = unequal_session_id_ + 1
                        /\ s = NewSession(n, h.id, r)
  OBVIOUS
<1>3. /\ asyncQ # <<>> /\ Moved(asyncQ, asyncQ', 1, {}) /\ h.type = "REQ_CONNECT_SERVER"
      /\ n \in SessionIds /\ async_sessions_' = async_sessions_ \cup {s}
  BY <1>1, <1>2, OnConnectTyped
<1>4. /\ 1 \in DOMAIN asyncQ /\ h.id = t.id /\ h.id \in TaskIds /\ t \in GoodTask(unequal_task_id_)
      /\ t.type = "REQ_CONNECT_SERVER"
  BY <1>1, <1>2, <1>3, HeadOfAsync
<1>5. s.sid = n /\ s.connect_id = h.id
  BY <1>1, <1>2, <1>3, <1>4, NewTyped
<1>6. unequal_session_id_' = n /\ UNCHANGED <<unequal_task_id_, user, userQ, queueQ, tasks_, reconnects>>
  BY <1>2 DEF OnConnectMessage
<1>7. Moved(queueQ, queueQ', 0, {})
  BY <1>1, <1>6, NotMoved
<1>8. Serial'
  BY <1>1, <1>6, <1>7, QuietSerial
<1>9. Live' \subseteq Live
  BY <1>3, <1>6, <1>7, LiveQuiet
<1>10. Unique' /\ Holder'
  BY <1>1, <1>6, <1>9, UniqueKeeps, HolderKeeps, SameUsers
<1>11. Ahead'
  <2>1. \A i \in DOMAIN asyncQ' : \E j \in DOMAIN asyncQ : asyncQ'[i] = asyncQ[j]
    BY <1>3 DEF Moved
  <2>2. \A x \in tasks_ : x.type = "REQ_CONNECT_SERVER" => n < x.id
    <3> SUFFICES ASSUME NEW x \in tasks_, x.type = "REQ_CONNECT_SERVER" PROVE n < x.id
      OBVIOUS
    <3>1. h.id <= x.id
      BY <1>1, <1>2, <1>3, <1>4 DEF Ahead
    <3>2. n < h.id
      BY <1>1, <1>2, <1>4 DEF Order
    <3>3. x.id \in Nat /\ h.id \in Nat /\ n \in Nat
      BY <1>1, <1>3, <1>4, TaskFields, IdNumbers DEF Typed
    <3> QED
      BY <3>1, <3>2, <3>3
  <2> QED
    BY <1>1, <1>6, <2>1, <2>2 DEF Ahead
<1>12. unequal_session_id_ \in Nat /\ n \in Nat /\ unequal_session_id_ < n
  BY <1>1, <1>2, Counters
<1>13. /\ \A sid \in SessionIds : sid \in Nat
       /\ \A sid \in {NULL_SESSION_ID} \cup SessionIds : sid \in Nat
       /\ \A sid \in Nat : sid <= unequal_session_id_ => sid <= n /\ sid # n
  BY <1>12, IdNumbers DEF NULL_SESSION_ID
<1>14. \A x \in async_sessions_ : x.sid <= n /\ x.sid # n
  BY <1>1, <1>13, SessionFields DEF Bounded
<1>15. \A i \in DOMAIN queueQ : queueQ[i].sid <= n /\ queueQ[i].sid # n
  <2> TAKE i \in DOMAIN queueQ
  <2>1. queueQ[i].sid \in {NULL_SESSION_ID} \cup SessionIds
    BY <1>1, QueueFacts, GoodMsgFields, MessageFields
  <2> QED
    BY <1>1, <1>13, <2>1 DEF Bounded
<1>16. \A u \in Users :
         /\ user[u].handle <= n /\ user[u].handle # n
         /\ user[u].msg # None => user[u].msg.sid <= n /\ user[u].msg.sid # n
         /\ \A i \in DOMAIN userQ[u] : userQ[u][i].sid <= n /\ userQ[u][i].sid # n
  <2> TAKE u \in Users
  <2>1. user[u].handle \in {NULL_SESSION_ID} \cup SessionIds /\ user[u].msg \in Message \cup {None}
    BY <1>1 DEF Typed, UserState
  <2>2. user[u].msg # None => user[u].msg.sid \in {NULL_SESSION_ID} \cup SessionIds
    BY <2>1, MessageFields
  <2>3. \A i \in DOMAIN userQ[u] : userQ[u][i].sid \in {NULL_SESSION_ID} \cup SessionIds
    <3>1. userQ[u] \in Seq(Message)
      BY <1>1 DEF Typed
    <3>2. \A i \in DOMAIN userQ[u] : userQ[u][i] \in Message
      BY <3>1
    <3> QED
      BY <3>2, MessageFields
  <2> QED
    BY <1>1, <1>13, <2>1, <2>2, <2>3 DEF Bounded
<1>17. \A sid \in reconnects : sid <= n
  BY <1>1, <1>13 DEF Bounded, Typed
<1>18. Bounded'
  <2>1. n <= n
    BY <1>12
  <2> QED
    BY <1>3, <1>5, <1>6, <1>14, <1>15, <1>16, <1>17, <2>1 DEF Bounded
<1>19. Past'
  <2>1. OldId(s.connect_id)
    BY <1>1, <1>2, <1>4, <1>5, HeadOld
  <2> QED
    BY <1>1, <1>3, <1>6, <1>7, <2>1, PastKeeps
<1>20. \A x \in tasks_ : x.type = "REQ_CONNECT_SERVER" =>
          \A sid : Named(x.id, sid)' => Named(x.id, sid) \/ (sid = n /\ x = t)
  <2> SUFFICES ASSUME NEW x \in tasks_, x.type = "REQ_CONNECT_SERVER", NEW sid, Named(x.id, sid)'
               PROVE  Named(x.id, sid) \/ (sid = n /\ x = t)
    OBVIOUS
  <2>1. CASE \E o \in async_sessions_' : o.connect_id = x.id /\ o.sid = sid
    <3>1. PICK o \in async_sessions_' : o.connect_id = x.id /\ o.sid = sid
      BY <2>1
    <3>2. CASE o \in async_sessions_
      BY <3>1, <3>2 DEF Named
    <3>3. CASE o = s
      <4>1. sid = n /\ x.id = t.id
        BY <1>4, <1>5, <3>1, <3>3
      <4>2. x \in Live /\ t \in Live
        BY <1>2, <1>4, InLive
      <4> QED
        BY <1>1, <4>1, <4>2 DEF Unique
    <3> QED
      BY <1>3, <3>2, <3>3
  <2>2. CASE \E i \in DOMAIN queueQ' : News(queueQ'[i]) /\ queueQ'[i].id = x.id /\ queueQ'[i].sid = sid
    BY <1>6, <2>2 DEF Named
  <2> QED
    BY <2>1, <2>2 DEF Named, News
<1>21. \A sid : \A x \in tasks_ : Named(x.id, sid) => sid # n
  BY <1>14, <1>15 DEF Named
<1>22. \A sid \in SessionIds : \A u \in Users : Claims(u, sid)' =>
          IF sid = n THEN u = t.owner ELSE Claims(u, sid)
  <2> SUFFICES ASSUME NEW sid \in SessionIds, NEW u \in Users, Claims(u, sid)'
               PROVE  IF sid = n THEN u = t.owner ELSE Claims(u, sid)
    OBVIOUS
  <2>1. CASE user'[u].handle = sid
    BY <1>6, <1>16, <2>1 DEF Claims
  <2>2. CASE user'[u].msg # None /\ user'[u].msg.sid = sid
    BY <1>6, <1>16, <2>2 DEF Claims
  <2>3. CASE \E i \in DOMAIN userQ'[u] : userQ'[u][i].sid = sid
    BY <1>6, <1>16, <2>3 DEF Claims
  <2>4. ASSUME NEW x \in tasks_, x.type = "REQ_CONNECT_SERVER", x.owner = u, Named(x.id, sid)'
        PROVE  IF sid = n THEN u = t.owner ELSE Claims(u, sid)
    <3>1. CASE sid = n
      BY <1>20, <1>21, <2>4, <3>1
    <3>2. CASE sid # n
      BY <1>20, <2>4, <3>2 DEF Claims
    <3> QED
      BY <3>1, <3>2
  <2> QED
    BY <1>6, <2>1, <2>2, <2>3, <2>4 DEF Claims
<1>23. OneClaim'
  BY <1>1, <1>22 DEF OneClaim
<1>24. OneSession'
  BY <1>1, <1>3, <1>5, <1>14 DEF OneSession
<1> QED
  BY <1>8, <1>10, <1>11, <1>18, <1>19, <1>23, <1>24 DEF HInv

(* A task enters tasks_: nothing has been named to it yet.                 *)
LEMMA TranslateHInv ==
    ASSUME IInv, IInv', HInv, OnTranslateToAsyncLayer
    PROVE  HInv'
<1>1. /\ Typed /\ Typed' /\ Order /\ Serial /\ Unique /\ Ahead /\ Holder /\ Bounded
      /\ Past /\ OneClaim /\ OneSession
  BY DEF IInv, HInv
<1>2. PICK h, t : h = queueQ[1] /\ t = h.task
  OBVIOUS
<1>3. /\ 1 \in DOMAIN queueQ /\ Req(h) /\ Moved(queueQ, queueQ', 1, {})
      /\ Moved(asyncQ, asyncQ', 0, {h}) /\ tasks_' = tasks_ \cup {t}
      /\ h.id = t.id /\ h.type = t.type /\ t \in GoodTask(unequal_task_id_)
  BY <1>1, <1>2, TranslateTyped
<1>4. Serial' /\ \A x \in tasks_ : ~Conflict(x, t)
  BY <1>1, <1>2, TranslateSerial
<1>5. UNCHANGED <<unequal_task_id_, unequal_session_id_, user, userQ, async_sessions_, reconnects>>
  BY DEF OnTranslateToAsyncLayer
<1>6. t \in Live
  BY <1>2, <1>3, InLive
<1>7. Live' \subseteq Live
  <2>1. \A i \in DOMAIN queueQ' : Req(queueQ'[i]) =>
               \E j \in DOMAIN queueQ : Req(queueQ[j]) /\ queueQ'[i] = queueQ[j]
    BY <1>3 DEF Moved
  <2>2. \A i \in DOMAIN asyncQ' : asyncQ'[i].task \in Live
    BY <1>2, <1>3, <1>6, InLive DEF Moved
  <2>3. tasks_' \subseteq Live
    BY <1>3, <1>6, InLive
  <2>4. \A u \in Users : user'[u].pc # "idle" => user'[u].task \in Live
    BY <1>5, InLive
  <2> QED
    BY <2>1, <2>2, <2>3, <2>4, LiveSmaller
<1>8. Unique' /\ Holder'
  BY <1>1, <1>5, <1>7, UniqueKeeps, HolderKeeps, SameUsers
<1>9. Ahead'
  <2>1. \A i \in DOMAIN asyncQ' : asyncQ'[i] = h \/ \E j \in DOMAIN asyncQ : asyncQ'[i] = asyncQ[j]
    BY <1>3 DEF Moved
  <2>2. \A x \in tasks_ : x.type = "REQ_CONNECT_SERVER" =>
          /\ unequal_session_id_ < x.id
          /\ \A i \in DOMAIN asyncQ' : asyncQ'[i].type = "REQ_CONNECT_SERVER" => asyncQ'[i].id <= x.id
    BY <1>1, <1>3, <1>4, <2>1 DEF Ahead, Conflict
  <2>3. unequal_session_id_ < t.id
    <3>1. t.id \in Nat /\ unequal_session_id_ \in Nat /\ unequal_session_id_ + 1 < t.id
      <4>1. t.id \in TaskIds
        BY <1>3, TaskFields
      <4>2. t.id \in Nat /\ unequal_session_id_ \in Nat
        BY <1>1, <4>1, Counters, IdNumbers
      <4>3. unequal_session_id_ + 1 < t.id
        BY <1>1, <1>2, <1>3 DEF Order
      <4> QED
        BY <4>2, <4>3
    <3> QED
      BY ONLY <3>1
  <2>4. \A i \in DOMAIN asyncQ' : asyncQ'[i].id <= t.id
    <3> TAKE i \in DOMAIN asyncQ'
    <3>0. t.id \in Nat
      BY <1>3, TaskFields, IdNumbers
    <3>1. CASE asyncQ'[i] = h
      BY <1>3, <3>0, <3>1
    <3>2. ASSUME NEW j \in DOMAIN asyncQ, asyncQ'[i] = asyncQ[j] PROVE asyncQ'[i].id <= t.id
      <4>1. asyncQ[j].id < t.id /\ asyncQ[j].id \in Nat
        BY <1>1, <1>2, <1>3, QueueFacts, AsyncMsgFields DEF Order
      <4> QED
        BY <3>0, <3>2, <4>1
    <3> QED
      BY <2>1, <3>1, <3>2
  <2> QED
    BY <1>3, <1>5, <2>2, <2>3, <2>4 DEF Ahead
<1>10. Hold
  BY <1>1, <1>5, HoldSame2
<1>11. Bounded'
  <2>1. \A sid \in reconnects' : sid <= unequal_session_id_
    BY <1>1, <1>5 DEF Bounded
  <2> QED
    BY <1>1, <1>3, <1>5, <1>10, <2>1, BoundedKeeps
<1>12. Past'
  BY <1>1, <1>3, <1>5, PastKeeps
<1>13. \A x : \A sid : Named(x, sid)' => Named(x, sid)
  BY <1>3, <1>5 DEF Named, Moved, News
<1>14. \A sid : ~Named(t.id, sid)
  <2> SUFFICES ASSUME NEW sid, Named(t.id, sid) PROVE FALSE
    OBVIOUS
  <2>1. OldId(t.id)
    BY <1>1 DEF Named, Past
  <2>2. t.id < t.id /\ t.id \in Nat
    BY <1>2, <1>3, <2>1, TaskFields, IdNumbers DEF OldId
  <2> QED
    BY <2>2
<1>15. \A sid \in SessionIds : \A u \in Users : Claims(u, sid)' => Claims(u, sid)
  <2> SUFFICES ASSUME NEW sid \in SessionIds, NEW u \in Users, Claims(u, sid)' PROVE Claims(u, sid)
    OBVIOUS
  <2>1. CASE \/ user[u].handle = sid
             \/ user[u].msg # None /\ user[u].msg.sid = sid
             \/ \E i \in DOMAIN userQ[u] : userQ[u][i].sid = sid
    BY <2>1 DEF Claims
  <2>2. ASSUME NEW x \in tasks_', x.type = "REQ_CONNECT_SERVER", x.owner = u, Named(x.id, sid)'
        PROVE  Claims(u, sid)
    <3>1. Named(x.id, sid)
      BY <1>13, <2>2
    <3>2. x \in tasks_
      BY <1>3, <1>14, <2>2, <3>1
    <3> QED
      BY <2>2, <3>1, <3>2 DEF Claims
  <2> QED
    BY <1>5, <2>1, <2>2 DEF Claims
<1>16. OneClaim'
  BY <1>1, <1>15 DEF OneClaim
<1>17. OneSession'
  BY <1>1, <1>5 DEF OneSession
<1> QED
  BY <1>4, <1>8, <1>9, <1>11, <1>12, <1>16, <1>17 DEF HInv

(* A task is removed.                                                      *)
LEMMA OnRemoveHInv ==
    ASSUME IInv, IInv', HInv, OnRemoveTaskMessage
    PROVE  HInv'
<1>1. /\ Typed /\ Typed' /\ Order /\ Serial /\ Unique /\ Ahead /\ Holder /\ Bounded
      /\ Past /\ OneClaim /\ OneSession
  BY DEF IInv, HInv
<1>2. Moved(queueQ, queueQ', 1, {}) /\ tasks_' \subseteq tasks_
  BY <1>1, OnRemoveTyped
<1>3. \A u \in Users : \A i \in DOMAIN userQ'[u] :
               \E j \in DOMAIN userQ[u] : userQ'[u][i] = userQ[u][j]
  BY <1>1, OnRemoveTyped
<1>4. UNCHANGED <<unequal_task_id_, unequal_session_id_, user, asyncQ, async_sessions_, reconnects>>
  BY DEF OnRemoveTaskMessage
<1>5. Serial'
  BY <1>1, OnRemoveSerial
<1>6. Moved(asyncQ, asyncQ', 0, {})
  BY <1>1, <1>4, NotMoved
<1>7. Live' \subseteq Live
  BY <1>2, <1>4, <1>6, LiveQuiet
<1>8. Unique' /\ Holder'
  BY <1>1, <1>4, <1>7, UniqueKeeps, HolderKeeps, SameUsers
<1>9. Ahead'
  BY <1>1, <1>2, <1>4, <1>6, AheadKeeps
<1>10. Hold
  BY <1>1, <1>3, <1>4, HoldSame
<1>11. Bounded'
  <2>1. \A sid \in reconnects' : sid <= unequal_session_id_
    BY <1>1, <1>4 DEF Bounded
  <2> QED
    BY <1>1, <1>2, <1>4, <1>10, <2>1, BoundedKeeps
<1>12. Past'
  BY <1>1, <1>2, <1>4, PastKeeps
<1>13. \A t \in tasks_ : t.type = "REQ_CONNECT_SERVER" =>
               \A sid : Named(t.id, sid)' => Named(t.id, sid)
  BY <1>1, <1>2, <1>4, NamedKeeps
<1>14. OneClaim'
  BY <1>1, <1>2, <1>10, <1>13, ClaimKeeps
<1>15. OneSession'
  BY <1>1, <1>4 DEF OneSession
<1> QED
  BY <1>5, <1>8, <1>9, <1>11, <1>12, <1>14, <1>15 DEF HInv

(* The steps of the queue thread and of the async thread that leave the    *)
(* user threads alone.                                                     *)
LEMMA AsyncHInv ==
    ASSUME IInv, IInv', HInv, NEW d \in {0, 1}, NEW new, Moved(queueQ, queueQ', d, new),
           \A m \in new : /\ ~Req(m) /\ m.sid <= unequal_session_id_
                          /\ News(m) => OldId(m.id) /\ Fresh(m.id, m.sid),
           d = 1 => News(queueQ[1]), NEW e \in {0, 1}, Moved(asyncQ, asyncQ', e, {}),
           UNCHANGED <<unequal_session_id_, unequal_task_id_, tasks_, user, userQ>>,
           \A s \in async_sessions_' :
               \/ \E o \in async_sessions_ : s.sid = o.sid /\ s.connect_id = o.connect_id
               \/ s.connect_id = s.sid /\ s.sid <= unequal_session_id_,
           OneSession', \A sid \in reconnects' : sid <= unequal_session_id_
    PROVE  HInv'
<1>1. user' = user /\ userQ' = userQ /\ Bounded
  BY DEF HInv
<1>2. Hold
  BY <1>1, HoldSame2
<1>3. unequal_session_id_' = unequal_session_id_ /\ unequal_task_id_' = unequal_task_id_
      /\ tasks_' = tasks_
  OBVIOUS
<1>4. /\ \A u \in Users : user'[u].pc # "idle" =>
                 user[u].pc # "idle" /\ user'[u].task = user[u].task
      /\ \A u \in Users : \/ user'[u].handle = user[u].handle
                          \/ /\ user[u].pc # "idle" /\ user'[u].pc = "idle"
                             /\ user[u].task.type = "REQ_CONNECT_SERVER"
  BY <1>1, SameUsers
<1> QED
  BY <1>2, <1>3, <1>4, HQuiet

(* A step of one user that keeps its task and its handle.                  *)
LEMMA UserHInv ==
    ASSUME IInv, IInv', HInv, NEW new, Moved(queueQ, queueQ', 0, new),
           \A m \in new : /\ ~Req(m) /\ m.sid <= unequal_session_id_
                          /\ News(m) => OldId(m.id) /\ Fresh(m.id, m.sid),
           UNCHANGED <<unequal_session_id_, unequal_task_id_, tasks_, asyncQ, async_sessions_,
                       reconnects>>,
           \A u \in Users : user'[u].pc # "idle" =>
               user[u].pc # "idle" /\ user'[u].task = user[u].task,
           \A u \in Users : \/ user'[u].handle = user[u].handle
                            \/ /\ user[u].pc # "idle" /\ user'[u].pc = "idle"
                               /\ user[u].task.type = "REQ_CONNECT_SERVER",
           Hold
    PROVE  HInv'
<1>1. Moved(asyncQ, asyncQ', 0, {})
  BY NotMoved DEF IInv
<1>2. OneSession'
  BY DEF OneSession, HInv
<1>3. \A s \in async_sessions_' :
               \/ \E o \in async_sessions_ : s.sid = o.sid /\ s.connect_id = o.connect_id
               \/ s.connect_id = s.sid /\ s.sid <= unequal_session_id_
  OBVIOUS
<1>4. \A sid \in reconnects' : sid <= unequal_session_id_
  BY DEF Bounded, HInv
<1>5. unequal_session_id_' = unequal_session_id_ /\ unequal_task_id_' = unequal_task_id_
      /\ tasks_' = tasks_
  OBVIOUS
<1>6. PICK d, e : d = 0 /\ e = 0
  OBVIOUS
<1> QED
  BY <1>1, <1>2, <1>3, <1>4, <1>5, <1>6, HQuiet

(* WaitTaskDone leaves no message in a queue that was not there before.    *)
LEMMA WaitQueues ==
    ASSUME Typed, NEW u \in Users, WaitGet(u) \/ WaitTimeout(u)
    PROVE  \A v \in Users : \A i \in DOMAIN userQ'[v] :
               \E j \in DOMAIN userQ[v] : userQ'[v][i] = userQ[v][j]
<1>1. CASE WaitTimeout(u)
  BY <1>1 DEF WaitTimeout
<1>2. CASE WaitGet(u)
  <2>1. userQ[u] \in Seq(Message) /\ userQ[u] # <<>> /\ userQ' = [userQ EXCEPT ![u] = Tail(@)]
        /\ userQ \in [Users -> Seq(Message)]
    BY <1>2 DEF WaitGet, Typed
  <2>2. userQ'[u] = Tail(userQ[u]) /\ \A v \in Users : v # u => userQ'[v] = userQ[v]
    BY <2>1
  <2>3. Moved(userQ[u], userQ'[u], 1, {})
    BY <2>1, <2>2, MovedTail
  <2> QED
    BY <2>2, <2>3 DEF Moved
<1> QED
  BY <1>1, <1>2

(* A user gets a message or gives up.                                      *)
LEMMA WaitHInv ==
    ASSUME IInv, IInv', HInv, NEW u \in Users, WaitGet(u) \/ WaitTimeout(u)
    PROVE  HInv'
<1>1. Typed /\ Bounded
  BY DEF IInv, HInv
<1>2. /\ user'[u].task = user[u].task /\ user'[u].handle = user[u].handle /\ user[u].pc # "idle"
      /\ \A v \in Users : v # u => user'[v] = user[v]
  BY <1>1, WaitGetTyped, WaitTimeoutTyped DEF WaitGet, WaitTimeout
<1>3. \/ user'[u].msg = user[u].msg
      \/ 1 \in DOMAIN userQ[u] /\ user'[u].msg = userQ[u][1]
  BY <1>1, WaitGetTyped, WaitTimeoutTyped
<1>4. \A v \in Users : \A i \in DOMAIN userQ'[v] :
               \E j \in DOMAIN userQ[v] : userQ'[v][i] = userQ[v][j]
  BY <1>1, WaitQueues
<1>5. Hold
  <2>1. \A v \in Users : Mine(v, user'[v].handle)
    BY <1>1, <1>2, OwnIsMine
  <2>2. \A v \in Users : user'[v].msg # None => Mine(v, user'[v].msg.sid)
    <3> TAKE v \in Users
    <3>1. CASE v = u
      BY <1>1, <1>3, <3>1, OwnIsMine
    <3>2. CASE v # u
      BY <1>1, <1>2, <3>2, OwnIsMine
    <3> QED
      BY <3>1, <3>2
  <2>3. \A v \in Users : \A i \in DOMAIN userQ'[v] : Mine(v, userQ'[v][i].sid)
    BY <1>1, <1>4, OwnIsMine
  <2> QED
    BY <2>1, <2>2, <2>3 DEF Hold
<1>6. UNCHANGED <<unequal_session_id_, unequal_task_id_, tasks_, asyncQ, async_sessions_,
                  reconnects, queueQ>>
  BY DEF WaitGet, WaitTimeout
<1>7. Moved(queueQ, queueQ', 0, {})
  BY <1>1, <1>6, NotMoved
<1> QED
  BY <1>2, <1>5, <1>6, <1>7, UserHInv

(* A user posts the removal of its task.                                   *)
LEMMA ReturnHInv ==
    ASSUME IInv, IInv', HInv, NEW u \in Users, Return(u)
    PROVE  HInv'
<1>1. Typed /\ Bounded /\ Holder
  BY DEF IInv, HInv
<1>2. PICK t, M : t = user[u].task /\ M = TaskStanza("REQ_REMOVE_TASK_EVENT", t)
  OBVIOUS
<1>3. /\ t \in GoodTask(unequal_task_id_) /\ queueQ' = Append(queueQ, M)
      /\ user'[u].handle = user[u].handle
      /\ \/ user'[u].pc = "idle" /\ user'[u].msg = None
         \/ user'[u].msg = user[u].msg /\ user'[u].task = user[u].task
      /\ \A v \in Users : v # u => user'[v] = user[v]
  BY <1>1, <1>2, ReturnTyped
<1>4. M \in GoodMsg(unequal_task_id_) /\ M.type = "REQ_REMOVE_TASK_EVENT" /\ M.sid = t.sid
  BY <1>2, <1>3, TaskStanzaGood
<1>5. Moved(queueQ, queueQ', 0, {M})
  BY <1>1, <1>3, <1>4, MovedAppend DEF Typed
<1>6. user[u].pc = "done" /\ userQ' = userQ
      /\ UNCHANGED <<unequal_session_id_, unequal_task_id_, tasks_, asyncQ, async_sessions_, reconnects>>
  BY DEF Return
<1>7. t \in Live
  BY <1>2, <1>6, InLive
<1>8. M.sid <= unequal_session_id_
  BY <1>1, <1>4, <1>7, LiveSid
<1>9. \A m \in {M} : /\ ~Req(m) /\ m.sid <= unequal_session_id_
                     /\ News(m) => OldId(m.id) /\ Fresh(m.id, m.sid)
  BY <1>4, <1>8 DEF Req, ReqType, News
<1>10. Hold
  <2>1. \A v \in Users : /\ user'[v].handle = user[v].handle
                         /\ user'[v].msg = user[v].msg \/ user'[v].msg = None
    BY <1>3
  <2>2. \A v \in Users : \A i \in DOMAIN userQ'[v] :
               \E j \in DOMAIN userQ[v] : userQ'[v][i] = userQ[v][j]
    BY <1>6
  <2> QED
    BY <1>1, <2>1, <2>2, HoldSame
<1>11. \A v \in Users : user'[v].pc # "idle" =>
               user[v].pc # "idle" /\ user'[v].task = user[v].task
  BY <1>3, <1>6
<1>12. \A v \in Users : user'[v].handle = user[v].handle
  BY <1>3
<1> QED
  BY <1>5, <1>6, <1>9, <1>10, <1>11, <1>12, UserHInv

(* News with message id 0: the id of no task.                              *)
LEMMA ZeroIsNews ==
    ASSUME Typed, Order, NEW sid
    PROVE  OldId(0) /\ Fresh(0, sid)
<1>1. 0 <= unequal_session_id_
  BY DEF Typed, FirstTask
<1>2. OldId(0)
  BY <1>1, SidOld
<1>3. \A t \in tasks_ : t.id # 0
  BY TaskFields, IdNumbers DEF Typed
<1> QED
  BY <1>2, <1>3 DEF Fresh

(* ConnectServer returns the session it was told of as the handle.         *)
LEMMA OpenedHInv ==
    ASSUME IInv, IInv', HInv, NEW u \in Users, Opened(u)
    PROVE  HInv'
<1>1. Typed /\ Order /\ Bounded
  BY DEF IInv, HInv
<1>2. PICK sid, M : sid = user[u].msg.sid /\ M = Stanza("RES_RECONNECT_EVENT", 0, sid)
  OBVIOUS
<1>3. /\ user'[u].pc = "idle" /\ user'[u].msg = None /\ user'[u].handle \in {NULL_SESSION_ID, sid}
      /\ queueQ' = queueQ \/ (queueQ' = Append(queueQ, M) /\ sid \in SessionIds)
      /\ \A v \in Users : v # u => user'[v] = user[v]
  BY <1>1, <1>2, OpenedTyped
<1>4. /\ user[u].pc = "opened" /\ userQ' = userQ
      /\ UNCHANGED <<unequal_session_id_, unequal_task_id_, tasks_, asyncQ, async_sessions_, reconnects>>
  BY DEF Opened
<1>5. user[u].msg # None /\ user[u].task.type = "REQ_CONNECT_SERVER"
  BY <1>1, <1>4 DEF Typed, GoodUser
<1>6. Mine(u, sid) /\ sid <= unequal_session_id_
  BY <1>1, <1>2, <1>5, OwnIsMine DEF Bounded
<1>7. Hold
  <2>1. \A v \in Users : Mine(v, user'[v].handle)
    <3>1. Mine(u, user'[u].handle)
      BY <1>3, <1>6 DEF Mine
    <3>2. \A v \in Users : v # u => Mine(v, user'[v].handle)
      BY <1>1, <1>3, OwnIsMine
    <3> QED
      BY <3>1, <3>2
  <2>2. \A v \in Users : user'[v].msg # None => Mine(v, user'[v].msg.sid)
    BY <1>1, <1>3, OwnIsMine
  <2>3. \A v \in Users : \A i \in DOMAIN userQ'[v] : Mine(v, userQ'[v][i].sid)
    BY <1>1, <1>4, OwnIsMine
  <2> QED
    BY <2>1, <2>2, <2>3 DEF Hold
<1>8. \A v \in Users : user'[v].pc # "idle" =>
               user[v].pc # "idle" /\ user'[v].task = user[v].task
  BY <1>3
<1>9. \A v \in Users : \/ user'[v].handle = user[v].handle
                       \/ /\ user[v].pc # "idle" /\ user'[v].pc = "idle"
                          /\ user[v].task.type = "REQ_CONNECT_SERVER"
  BY <1>3, <1>4, <1>5
<1>10. CASE queueQ' = queueQ
  <2>1. Moved(queueQ, queueQ', 0, {})
    BY <1>1, <1>10, NotMoved
  <2> QED
    BY <1>4, <1>7, <1>8, <1>9, <2>1, UserHInv
<1>11. CASE queueQ' = Append(queueQ, M) /\ sid \in SessionIds
  <2>1. "RES_RECONNECT_EVENT" \in StanzaType /\ 0 \in Nat
        /\ "RES_RECONNECT_EVENT" \notin ReqType \cup {"REQ_REMOVE_TASK_EVENT"}
    BY DEF StanzaType, ReqType
  <2>2. sid # NULL_SESSION_ID /\ sid \in {NULL_SESSION_ID} \cup SessionIds
    BY <1>11, IdNumbers
  <2>3. M \in GoodMsg(unequal_task_id_) /\ News(M) /\ M.id = 0 /\ M.sid = sid
    <3>1. PICK k, type : k = 0 /\ type = "RES_RECONNECT_EVENT"
      OBVIOUS
    <3>2. M = Stanza(type, k, sid) /\ type \in StanzaType /\ k \in Nat
          /\ type \notin ReqType \cup {"REQ_REMOVE_TASK_EVENT"}
      BY <1>2, <2>1, <3>1
    <3> QED
      BY <2>2, <3>1, <3>2, StanzaGood
  <2>4. Moved(queueQ, queueQ', 0, {M})
    BY <1>1, <1>11, <2>3, MovedAppend DEF Typed
  <2>5. ~Req(M)
    BY <2>3 DEF Req, News
  <2>6. OldId(M.id) /\ Fresh(M.id, M.sid)
    BY <1>1, <2>3, ZeroIsNews
  <2>7. \A m \in {M} : /\ ~Req(m) /\ m.sid <= unequal_session_id_
                       /\ News(m) => OldId(m.id) /\ Fresh(m.id, m.sid)
    BY <1>6, <2>3, <2>5, <2>6
  <2> QED
    BY <1>4, <1>7, <1>8, <1>9, <2>4, <2>7, UserHInv
<1> QED
  BY <1>3, <1>10, <1>11

(* The answer to a request or to a disconnect: the id is the task's own.   *)
LEMMA HeadIsNews ==
    ASSUME IInv, HInv, asyncQ # <<>>, asyncQ[1].type # "REQ_CONNECT_SERVER",
           NEW m, News(m), m.id = asyncQ[1].id, m.sid = asyncQ[1].sid
    PROVE  ~Req(m) /\ m.sid <= unequal_session_id_ /\ OldId(m.id) /\ Fresh(m.id, m.sid)
<1>1. Typed /\ Order /\ Bounded /\ Holder /\ Unique
  BY DEF IInv, HInv
<1>2. PICK t : t = asyncQ[1].task
  OBVIOUS
<1>3. 1 \in DOMAIN asyncQ /\ asyncQ[1].type = t.type /\ asyncQ[1].id = t.id /\ asyncQ[1].sid = t.sid
  BY <1>1, <1>2, HeadOfAsync
<1>4. t \in Live
  BY <1>2, <1>3, InLive
<1>5. m.sid <= unequal_session_id_
  BY <1>1, <1>3, <1>4, LiveSid
<1>6. OldId(m.id)
  BY <1>1, <1>3, HeadOld
<1>7. Fresh(m.id, m.sid)
  <2>1. \A x \in tasks_ : x.id = t.id => x = t
    BY <1>1, <1>4, InLive DEF Unique
  <2> QED
    BY <1>3, <2>1 DEF Fresh
<1> QED
  BY <1>5, <1>6, <1>7 DEF News, Req

(* A disconnect task is handled.                                           *)
LEMMA OnDisconnectHInv ==
    ASSUME IInv, IInv', HInv, OnDisconnectMessage
    PROVE  HInv'
<1>1. Typed /\ Bounded /\ OneSession
  BY DEF IInv, HInv
<1>2. /\ asyncQ # <<>> /\ asyncQ[1].type # "REQ_CONNECT_SERVER" /\ Moved(asyncQ, asyncQ', 1, {})
      /\ async_sessions_' \subseteq async_sessions_
  BY <1>1, OnDisconnectTyped
<1>3. PICK m : /\ Moved(queueQ, queueQ', 0, {m}) /\ News(m) /\ m.id = asyncQ[1].id
               /\ m.sid = asyncQ[1].sid
  BY <1>1, OnDisconnectTyped
<1>4. \A x \in {m} : /\ ~Req(x) /\ x.sid <= unequal_session_id_
                     /\ News(x) => OldId(x.id) /\ Fresh(x.id, x.sid)
  BY <1>2, <1>3, HeadIsNews
<1>5. UNCHANGED <<unequal_session_id_, unequal_task_id_, tasks_, user, userQ, reconnects>>
  BY DEF OnDisconnectMessage
<1>6. OneSession'
  BY <1>1, <1>2 DEF OneSession
<1>7. \A sid \in reconnects' : sid <= unequal_session_id_
  BY <1>1, <1>5 DEF Bounded
<1>8. PICK d, e : d = 0 /\ e = 1
  OBVIOUS
<1> QED
  BY <1>2, <1>3, <1>4, <1>5, <1>6, <1>7, <1>8, AsyncHInv

(* A request is handled.                                                   *)
LEMMA OnRequestHInv ==
    ASSUME IInv, IInv', HInv, OnRequestMessage
    PROVE  HInv'
<1>1. Typed /\ Bounded /\ OneSession
  BY DEF IInv, HInv
<1>2. /\ asyncQ # <<>> /\ asyncQ[1].type # "REQ_CONNECT_SERVER" /\ Moved(asyncQ, asyncQ', 1, {})
  BY <1>1, OnRequestTyped
<1>3. PICK new : /\ Moved(queueQ, queueQ', 0, new)
                 /\ \A m \in new : News(m) /\ m.id = asyncQ[1].id /\ m.sid = asyncQ[1].sid
  <2>1. \/ queueQ' = queueQ
        \/ \E m : /\ Moved(queueQ, queueQ', 0, {m}) /\ News(m) /\ m.id = asyncQ[1].id
                  /\ m.sid = asyncQ[1].sid
    BY <1>1, OnRequestTyped
  <2>2. CASE queueQ' = queueQ
    BY <1>1, <2>2, NotMoved
  <2>3. CASE \E m : /\ Moved(queueQ, queueQ', 0, {m}) /\ News(m) /\ m.id = asyncQ[1].id
                    /\ m.sid = asyncQ[1].sid
    <3>1. PICK m : /\ Moved(queueQ, queueQ', 0, {m}) /\ News(m) /\ m.id = asyncQ[1].id
                   /\ m.sid = asyncQ[1].sid
      BY <2>3
    <3>2. PICK new : new = {m}
      OBVIOUS
    <3> QED
      BY <3>1, <3>2
  <2> QED
    BY <2>1, <2>2, <2>3
<1>4. \A x \in new : /\ ~Req(x) /\ x.sid <= unequal_session_id_
                     /\ News(x) => OldId(x.id) /\ Fresh(x.id, x.sid)
  BY <1>2, <1>3, HeadIsNews
<1>5. UNCHANGED <<unequal_session_id_, unequal_task_id_, tasks_, user, userQ, reconnects>>
  BY DEF OnRequestMessage
<1>6. PICK n, x : n = asyncQ[1].sid /\ x = [req |-> asyncQ[1].id, cmd |-> asyncQ[1].cmd]
  OBVIOUS
<1>9. \A s \in async_sessions_' : \E o \in async_sessions_ :
          /\ s.sid = o.sid /\ s.connect_id = o.connect_id
          /\ (s = o /\ o.sid # n) \/ (o.sid = n /\ s = [o EXCEPT !.sent = @ \cup {x}])
  BY <1>1, <1>6, OnRequestTyped
<1>10. OneSession'
  <2> SUFFICES ASSUME NEW s \in async_sessions_', NEW t \in async_sessions_', s.sid = t.sid
               PROVE  s = t
    BY DEF OneSession
  <2>1. PICK o \in async_sessions_ :
          /\ s.sid = o.sid
          /\ (s = o /\ o.sid # n) \/ (o.sid = n /\ s = [o EXCEPT !.sent = @ \cup {x}])
    BY <1>9
  <2>2. PICK p \in async_sessions_ :
          /\ t.sid = p.sid
          /\ (t = p /\ p.sid # n) \/ (p.sid = n /\ t = [p EXCEPT !.sent = @ \cup {x}])
    BY <1>9
  <2>3. o = p
    BY <1>1, <2>1, <2>2 DEF OneSession
  <2> QED
    BY <2>1, <2>2, <2>3
<1>11. \A s \in async_sessions_' : \E o \in async_sessions_ : s.sid = o.sid /\ s.connect_id = o.connect_id
  BY <1>9
<1>7. \A sid \in reconnects' : sid <= unequal_session_id_
  BY <1>1, <1>5 DEF Bounded
<1>8. PICK d, e : d = 0 /\ e = 1
  OBVIOUS
<1> QED
  BY <1>2, <1>3, <1>4, <1>5, <1>7, <1>8, <1>10, <1>11, AsyncHInv

(* A session is dialled again under its old id: its events carry that id,  *)
(* which is below every connect task's.                                    *)
LEMMA ReconnectHInv ==
    ASSUME IInv, IInv', HInv, NEW sid \in SessionIds, NEW r \in scenario.connects,
           OnReconnectMessage(sid, r), sid <= unequal_session_id_,
           NEW d \in {0, 1}, Moved(queueQ, queueQ', d, {}), d = 1 => News(queueQ[1]),
           UNCHANGED <<unequal_task_id_, unequal_session_id_, user, userQ, asyncQ, tasks_>>
    PROVE  HInv'
<1>1. Typed /\ Bounded /\ OneSession
  BY DEF IInv, HInv
<1>2. /\ reconnects' = reconnects \cup {sid}
      /\ \/ async_sessions_' = async_sessions_
         \/ \E s \in Session :
              /\ s.sid = sid /\ s.connect_id = sid /\ s.sent = {}
              /\ async_sessions_' = async_sessions_ \cup {s}
              /\ \A o \in async_sessions_ : o.sid # sid
  BY <1>1, ReconnectTyped
<1>3. OneSession'
  BY <1>1, <1>2 DEF OneSession
<1>4. \A s \in async_sessions_' :
               \/ \E o \in async_sessions_ : s.sid = o.sid /\ s.connect_id = o.connect_id
               \/ s.connect_id = s.sid /\ s.sid <= unequal_session_id_
  BY <1>2
<1>5. \A k \in reconnects' : k <= unequal_session_id_
  BY <1>1, <1>2 DEF Bounded
<1>6. PICK e : e = 0
  OBVIOUS
<1>7. Moved(asyncQ, asyncQ', e, {})
  BY <1>1, <1>6, NotMoved
<1> QED
  BY <1>3, <1>4, <1>5, <1>6, <1>7, AsyncHInv

(* An event of a session's socket names the session to the task it has     *)
(* always named it to.                                                     *)
LEMMA DeviceHInv ==
    ASSUME IInv, IInv', HInv, NEW s \in async_sessions_, NEW t, t.sid = s.sid,
           t.connect_id = s.connect_id, async_sessions_' = (async_sessions_ \ {s}) \cup {t},
           NEW new, Moved(queueQ, queueQ', 0, new),
           \A m \in new : News(m) /\ m.id \in {0, s.connect_id} /\ m.sid = s.sid,
           UNCHANGED <<unequal_task_id_, unequal_session_id_, user, userQ, asyncQ, tasks_, reconnects>>
    PROVE  HInv'
<1>1. Typed /\ Order /\ Bounded /\ Past /\ OneSession
  BY DEF IInv, HInv
<1>2. OldId(s.connect_id) /\ Named(s.connect_id, s.sid) /\ s.sid <= unequal_session_id_
  BY <1>1 DEF Past, Named, Bounded
<1>3. \A m \in new : /\ ~Req(m) /\ m.sid <= unequal_session_id_
                     /\ News(m) => OldId(m.id) /\ Fresh(m.id, m.sid)
  <2> SUFFICES ASSUME NEW m \in new
               PROVE  ~Req(m) /\ m.sid <= unequal_session_id_ /\ OldId(m.id) /\ Fresh(m.id, m.sid)
    OBVIOUS
  <2>1. ~Req(m) /\ m.sid <= unequal_session_id_
    BY <1>2 DEF News, Req
  <2>2. CASE m.id = 0
    BY <1>1, <2>1, <2>2, ZeroIsNews
  <2>3. CASE m.id = s.connect_id
    BY <1>2, <2>1, <2>3 DEF Fresh
  <2> QED
    BY <2>2, <2>3
<1>4. OneSession'
  BY <1>1 DEF OneSession
<1>5. \A x \in async_sessions_' :
               \E o \in async_sessions_ : x.sid = o.sid /\ x.connect_id = o.connect_id
  OBVIOUS
<1>6. \A k \in reconnects' : k <= unequal_session_id_
  BY <1>1 DEF Bounded
<1>7. PICK d, e : d = 0 /\ e = 0
  OBVIOUS
<1>8. Moved(asyncQ, asyncQ', e, {})
  BY <1>1, <1>7, NotMoved
<1> QED
  BY <1>3, <1>4, <1>5, <1>6, <1>7, <1>8, AsyncHInv

(* QueueRemoveSession, DropMessage and ReConnect.                          *)
LEMMA QueueHInv ==
    ASSUME IInv, IInv', HInv, News(queueQ[1]), NEW new, Moved(queueQ, queueQ', 1, new), 1 \in DOMAIN queueQ,
           \A m \in new : News(m) /\ m.id = queueQ[1].id /\ m.sid = queueQ[1].sid,
           async_sessions_' \subseteq async_sessions_,
           UNCHANGED <<unequal_task_id_, unequal_session_id_, user, userQ, asyncQ, tasks_, reconnects>>
    PROVE  HInv'
<1>1. Typed /\ Order /\ Bounded /\ Past /\ OneSession
  BY DEF IInv, HInv
<1>2. /\ OldId(queueQ[1].id) /\ Named(queueQ[1].id, queueQ[1].sid)
      /\ queueQ[1].sid <= unequal_session_id_
  BY <1>1 DEF Past, Named, Bounded
<1>3. \A m \in new : /\ ~Req(m) /\ m.sid <= unequal_session_id_
                     /\ News(m) => OldId(m.id) /\ Fresh(m.id, m.sid)
  BY <1>2 DEF News, Req, Fresh
<1>4. OneSession'
  BY <1>1 DEF OneSession
<1>5. \A x \in async_sessions_' :
               \E o \in async_sessions_ : x.sid = o.sid /\ x.connect_id = o.connect_id
  OBVIOUS
<1>6. \A k \in reconnects' : k <= unequal_session_id_
  BY <1>1 DEF Bounded
<1>7. PICK d, e : d = 1 /\ e = 0
  OBVIOUS
<1>8. Moved(asyncQ, asyncQ', e, {})
  BY <1>1, <1>7, NotMoved
<1> QED
  BY <1>3, <1>4, <1>5, <1>6, <1>7, <1>8, AsyncHInv

(* A message is handed to the user whose session it is about: a ConnectTask *)
(* takes only news of the session it asked for, the others only news of    *)
(* the session their user holds.                                           *)
LEMMA ToSyncHInv ==
    ASSUME IInv, IInv', HInv, OntranslateToSyncLayer
    PROVE  HInv'
<1>1. Typed /\ Order /\ Bounded /\ Past /\ OneSession /\ Holder
  BY DEF IInv, HInv
<1>2. 1 \in DOMAIN queueQ /\ News(queueQ[1]) /\ Moved(queueQ, queueQ', 1, {})
  BY <1>1, ToSyncTyped
<1>3. UNCHANGED <<unequal_task_id_, unequal_session_id_, user, asyncQ, tasks_, async_sessions_, reconnects>>
  BY Zenon DEF OntranslateToSyncLayer
<1>4. \A v \in Users : \A i \in DOMAIN userQ'[v] : Mine(v, userQ'[v][i].sid)
  <2>1. CASE userQ' = userQ
    BY <1>1, <2>1, OwnIsMine
  <2>2. CASE \E t \in tasks_, m \in Message :
                   /\ HandleMessage(t, queueQ[1])
                   /\ m.id = t.id /\ m.sid = queueQ[1].sid /\ m.type = queueQ[1].type
                   /\ m.req = queueQ[1].req
                   /\ userQ' = [userQ EXCEPT ![t.owner] = Append(userQ[t.owner], m)]
    <3>1. PICK t \in tasks_, m \in Message :
                   /\ HandleMessage(t, queueQ[1]) /\ m.sid = queueQ[1].sid
                   /\ userQ' = [userQ EXCEPT ![t.owner] = Append(userQ[t.owner], m)]
      BY <2>2
    <3>2. t.owner \in Users /\ t.type \in ReqType
      BY <1>1, TaskFields DEF Typed
    <3>3. userQ[t.owner] \in Seq(Message) /\ userQ \in [Users -> Seq(Message)]
      BY <1>1, <3>2 DEF Typed
    <3>4. userQ'[t.owner] = Append(userQ[t.owner], m)
          /\ \A v \in Users : v # t.owner => userQ'[v] = userQ[v]
      BY <3>1, <3>2, <3>3
    <3>5. \A i \in DOMAIN userQ'[t.owner] :
             \/ userQ'[t.owner][i] = m
             \/ i \in DOMAIN userQ[t.owner] /\ userQ'[t.owner][i] = userQ[t.owner][i]
      BY <3>3, <3>4
    <3>6. Mine(t.owner, m.sid)
      <4>0. m.sid <= unequal_session_id_
        BY <1>1, <1>2, <3>1 DEF Bounded
      <4>1. CASE t.type = "REQ_CONNECT_SERVER"
        <5>1. queueQ[1].id = t.id
          BY <3>1, <4>1 DEF HandleMessage
        <5>2. Named(t.id, m.sid)
          BY <1>2, <3>1, <5>1 DEF Named
        <5> QED
          BY <4>0, <4>1, <5>2 DEF Mine, Claims
      <4>2. CASE t.type # "REQ_CONNECT_SERVER"
        <5>1. m.sid = t.sid
          BY <3>1, <4>2 DEF HandleMessage
        <5>2. t.sid = user[t.owner].handle
          BY <1>1, <4>2, InLive DEF Holder
        <5> QED
          BY <4>0, <5>1, <5>2 DEF Mine, Claims
      <4> QED
        BY <4>1, <4>2
    <3> QED
      BY <1>1, <3>4, <3>5, <3>6, OwnIsMine
  <2> QED
    BY <1>1, <2>1, <2>2, ToSyncTyped
<1>5. Hold
  BY <1>1, <1>3, <1>4, OwnIsMine DEF Hold
<1>6. \A k \in reconnects' : k <= unequal_session_id_
  BY <1>1, <1>3 DEF Bounded
<1>7. PICK d, e : d = 1 /\ e = 0
  OBVIOUS
<1>8. Moved(asyncQ, asyncQ', e, {})
  BY <1>1, <1>3, <1>7, NotMoved
<1>9. OneSession'
  BY <1>1, <1>3 DEF OneSession
<1>10. /\ \A u \in Users : user'[u].pc # "idle" =>
                 user[u].pc # "idle" /\ user'[u].task = user[u].task
       /\ \A u \in Users : \/ user'[u].handle = user[u].handle
                           \/ /\ user[u].pc # "idle" /\ user'[u].pc = "idle"
                              /\ user[u].task.type = "REQ_CONNECT_SERVER"
  BY <1>3, SameUsers
<1>11. \A x \in async_sessions_' :
               \E o \in async_sessions_ : x.sid = o.sid /\ x.connect_id = o.connect_id
  BY <1>3
<1>12. unequal_session_id_' = unequal_session_id_ /\ unequal_task_id_' = unequal_task_id_
       /\ tasks_' = tasks_
  BY <1>3
<1> QED
  BY <1>2, <1>5, <1>6, <1>7, <1>8, <1>9, <1>10, <1>11, <1>12, HQuiet

(* The second layer holds initially.                                       *)
LEMMA InitHInv ==
    ASSUME Init PROVE HInv
<1>1. /\ DOMAIN queueQ = {} /\ DOMAIN asyncQ = {} /\ tasks_ = {} /\ async_sessions_ = {}
      /\ reconnects = {} /\ unequal_session_id_ = 1
      /\ \A u \in Users : /\ user[u].pc = "idle" /\ user[u].msg = None
                          /\ user[u].handle = NULL_SESSION_ID /\ DOMAIN userQ[u] = {}
  BY DEF Init
<1>2. Live = {}
  BY <1>1 DEF Live
<1>3. Serial /\ Unique /\ Ahead /\ Holder /\ Past /\ OneSession
  BY <1>1, <1>2 DEF Serial, Unique, Ahead, Holder, Past, OneSession
<1>4. Bounded
  BY <1>1 DEF Bounded, NULL_SESSION_ID
<1>5. OneClaim
  BY <1>1, IdNumbers DEF OneClaim, Claims
<1> QED
  BY <1>3, <1>4, <1>5 DEF HInv

(* Every step keeps the second layer.                                      *)
LEMMA NextHInv ==
    ASSUME IInv, IInv', HInv, [Next]_vars PROVE HInv'
<1>0. Typed /\ Bounded
  BY DEF IInv, HInv
<1>1. ASSUME NEW u \in Users, UserCall(u) PROVE HInv'
  BY <1>0, <1>1, CallStarts, StartHInv
<1>2. ASSUME NEW u \in Users, WaitGet(u) \/ WaitTimeout(u) PROVE HInv'
  BY <1>2, WaitHInv
<1>4. ASSUME NEW u \in Users, Return(u) PROVE HInv'
  BY <1>4, ReturnHInv
<1>5. ASSUME NEW u \in Users, Opened(u) PROVE HInv'
  BY <1>5, OpenedHInv
<1>6. ASSUME NEW r \in scenario.connects, OnConnectMessage(r) PROVE HInv'
  BY <1>6, OnConnectHInv
<1>7. ASSUME OnDisconnectMessage PROVE HInv'
  BY <1>7, OnDisconnectHInv
<1>8. ASSUME OnRequestMessage PROVE HInv'
  BY <1>8, OnRequestHInv
<1>9. ASSUME NEW sid \in reconnects, NEW r \in scenario.connects, ReconnectTimer(sid, r)
      PROVE  HInv'
  <2>1. sid \in SessionIds /\ sid <= unequal_session_id_
    BY <1>0, <1>9, ReconnectTimerTyped DEF Bounded
  <2>2. /\ OnReconnectMessage(sid, r) /\ queueQ' = queueQ
        /\ UNCHANGED <<unequal_task_id_, unequal_session_id_, user, userQ, asyncQ, tasks_>>
    BY <1>9 DEF ReconnectTimer
  <2>3. PICK d : d = 0
    OBVIOUS
  <2>4. Moved(queueQ, queueQ', d, {})
    BY <1>0, <2>2, <2>3, NotMoved
  <2> QED
    BY <2>1, <2>2, <2>3, <2>4, ReconnectHInv
<1>10. ASSUME NEW s \in async_sessions_, OnConnectEvent(s) PROVE HInv'
  <2>1. PICK t \in Session : /\ t.sid = s.sid /\ t.connect_id = s.connect_id
                             /\ async_sessions_' = (async_sessions_ \ {s}) \cup {t}
    BY <1>0, <1>10, OnConnectEventTyped
  <2>2. PICK m : Moved(queueQ, queueQ', 0, {m}) /\ News(m) /\ m.id = s.connect_id /\ m.sid = s.sid
    BY <1>0, <1>10, OnConnectEventTyped
  <2>3. UNCHANGED <<unequal_task_id_, unequal_session_id_, user, userQ, asyncQ, tasks_, reconnects>>
    BY <1>10 DEF OnConnectEvent
  <2>4. \A x \in {m} : News(x) /\ x.id \in {0, s.connect_id} /\ x.sid = s.sid
    BY <2>2
  <2> QED
    BY <2>1, <2>2, <2>3, <2>4, DeviceHInv
<1>11. ASSUME NEW s \in async_sessions_, OnCloseEvent(s) \/ HeartbeatTimeout(s) PROVE HInv'
  <2>1. /\ queueQ' = queueQ \o ClosePosts(s)
        /\ \E t \in Session : /\ t.sid = s.sid /\ t.connect_id = s.connect_id
                              /\ async_sessions_' = (async_sessions_ \ {s}) \cup {t}
    BY <1>0, <1>11, OnCloseEventTyped
  <2>2. PICK a, b \in GoodMsg(unequal_task_id_) :
                /\ Moved(queueQ, queueQ', 0, {a, b})
                /\ \A m \in {a, b} : /\ News(m) /\ m.id = s.connect_id /\ m.sid = s.sid
                                     /\ m.type \notin {"RES_STANZA_EVENT", "RES_RECONNECT_EVENT"}
    BY <1>0, <2>1, ClosePosted
  <2>3. UNCHANGED <<unequal_task_id_, unequal_session_id_, user, userQ, asyncQ, tasks_, reconnects>>
    BY <1>11 DEF OnCloseEvent, HeartbeatTimeout
  <2>4. \A x \in {a, b} : News(x) /\ x.id \in {0, s.connect_id} /\ x.sid = s.sid
    BY <2>2
  <2> QED
    BY <2>1, <2>2, <2>3, <2>4, DeviceHInv
<1>12. ASSUME NEW s \in async_sessions_, NEW r \in s.sent, OnSessionPacketEvent(s, r) PROVE HInv'
  <2>1. PICK t \in Session : /\ t.sid = s.sid /\ t.connect_id = s.connect_id
                             /\ async_sessions_' = (async_sessions_ \ {s}) \cup {t}
    BY <1>0, <1>12, OnSessionPacketTyped
  <2>2. PICK m : Moved(queueQ, queueQ', 0, {m}) /\ News(m) /\ m.id = 0 /\ m.sid = s.sid
    BY <1>0, <1>12, OnSessionPacketTyped
  <2>3. UNCHANGED <<unequal_task_id_, unequal_session_id_, user, userQ, asyncQ, tasks_, reconnects>>
    BY <1>12 DEF OnSessionPacketEvent
  <2>4. \A x \in {m} : News(x) /\ x.id \in {0, s.connect_id} /\ x.sid = s.sid
    BY <2>2
  <2> QED
    BY <2>1, <2>2, <2>3, <2>4, DeviceHInv
<1>13. ASSUME OnTranslateToAsyncLayer PROVE HInv'
  BY <1>13, TranslateHInv
<1>14. ASSUME OnRemoveTaskMessage PROVE HInv'
  BY <1>14, OnRemoveHInv
<1>15. ASSUME QueueRemoveSession \/ DropMessage PROVE HInv'
  <2>1. /\ 1 \in DOMAIN queueQ /\ News(queueQ[1]) /\ Moved(queueQ, queueQ', 1, {})
        /\ async_sessions_' \subseteq async_sessions_
    BY <1>0, <1>15, QueueRemoveTyped
  <2>2. UNCHANGED <<unequal_task_id_, unequal_session_id_, user, userQ, asyncQ, tasks_, reconnects>>
    BY <1>15 DEF QueueRemoveSession, DropMessage
  <2> QED
    BY <2>1, <2>2, QueueHInv
<1>16. ASSUME OntranslateToSyncLayer PROVE HInv'
  BY <1>16, ToSyncHInv
<1>17. ASSUME ReConnect PROVE HInv'
  <2>1. 1 \in DOMAIN queueQ /\ News(queueQ[1])
    BY <1>0, <1>17, ReConnectTyped
  <2>2. PICK m : /\ Moved(queueQ, queueQ', 1, {m}) /\ News(m) /\ m.id = queueQ[1].id
                 /\ m.sid = queueQ[1].sid
    BY <1>0, <1>17, ReConnectTyped
  <2>3. UNCHANGED <<unequal_task_id_, unequal_session_id_, user, userQ, asyncQ, tasks_,
                    async_sessions_, reconnects>>
    BY <1>17 DEF ReConnect
  <2>4. \A x \in {m} : News(x) /\ x.id = queueQ[1].id /\ x.sid = queueQ[1].sid
    BY <2>2
  <2> QED
    BY <2>1, <2>2, <2>3, <2>4, QueueHInv
<1>18. ASSUME NEW r \in scenario.connects, FirstReconnect(r) PROVE HInv'
  <2>1. PICK sid : sid = queueQ[1].sid
    OBVIOUS
  <2>2. /\ 1 \in DOMAIN queueQ /\ News(queueQ[1]) /\ Moved(queueQ, queueQ', 1, {})
        /\ sid \in SessionIds /\ OnReconnectMessage(sid, r)
    BY <1>0, <1>18, <2>1, FirstReconnectTyped
  <2>3. UNCHANGED <<unequal_task_id_, unequal_session_id_, user, userQ, asyncQ, tasks_>>
    BY <1>18 DEF FirstReconnect
  <2>4. sid <= unequal_session_id_
    BY <1>0, <2>1, <2>2 DEF Bounded
  <2>5. PICK d : d = 1
    OBVIOUS
  <2> QED
    BY <2>2, <2>3, <2>4, <2>5, ReconnectHInv
<1>19. CASE UNCHANGED vars
  <2>1. UNCHANGED <<unequal_task_id_, unequal_session_id_, user, userQ, queueQ, asyncQ, tasks_,
                    async_sessions_, reconnects>>
    BY <1>19 DEF vars
  <2> QED
    BY <2>1 DEF HInv, Serial, Unique, Live, Ahead, Holder, Bounded, Past, OldId, OneClaim, Claims,
                Named, OneSession, Req, Removes, News, Conflict
<1> QED
  BY <1>1, <1>2, <1>4, <1>5, <1>6, <1>7, <1>8, <1>9, <1>10, <1>11, <1>12, <1>13, <1>14,
     <1>15, <1>16, <1>17, <1>18, <1>19
     DEF Next, UserStep, QueueThread, AsyncThread, Device

(* Two open devices never share a session id, nor do two sessions, although *)
(* the events of a reconnected session carry an id that may be a task's:    *)
(* the lock of VzLPRTcp_Open keeps at most one connect task in the async    *)
(* half, and the session ids stay below its id.                             *)
THEOREM HandlesDistinctHolds == Spec => []HandlesDistinct
<1>1. Init => IInv /\ HInv
  BY InitIInv, InitHInv
<1>2. IInv /\ HInv /\ [Next]_vars => IInv' /\ HInv'
  BY NextIInv, NextHInv
<1>3. IInv /\ HInv => HandlesDistinct
  <2> SUFFICES ASSUME IInv, HInv PROVE HandlesDistinct
    OBVIOUS
  <2>1. \A u, v \in Users : u # v /\ user[u].handle # NULL_SESSION_ID
                            => user[u].handle # user[v].handle
    <3> SUFFICES ASSUME NEW u \in Users, NEW v \in Users, user[u].handle # NULL_SESSION_ID,
                        user[u].handle = user[v].handle
                 PROVE  u = v
      OBVIOUS
    <3>1. user[u].handle \in SessionIds
      BY DEF IInv, Typed, UserState
    <3>2. Claims(u, user[u].handle) /\ Claims(v, user[u].handle)
      BY DEF Claims
    <3> QED
      BY <3>1, <3>2 DEF HInv, OneClaim
  <2> QED
    BY <2>1 DEF HandlesDistinct, HInv, OneSession
<1> QED
  BY <1>1, <1>2, <1>3, PTL DEF Spec
-----------------------------------------------------------------------------
(* The third layer: requests and their answers.                            *)

(* Answers, and the tasks that wait for one.                               *)
Answer(m) == m.type = "RES_STANZA_EVENT"
Asks(t) == t.type = "REQ_SEND_REQUESTION" /\ ~t.push

(* Requests by where they are, each with its task's id and its session: in *)
(* queueQ, in asyncQ, with a session, and answered in queueQ.              *)
Sends(q) == {i \in DOMAIN q : q[i].type = "REQ_SEND_REQUESTION"}
Asked == {[req |-> queueQ[i].id, sid |-> queueQ[i].sid] : i \in Sends(queueQ)}
Posted == {[req |-> asyncQ[i].id, sid |-> asyncQ[i].sid] : i \in Sends(asyncQ)}
Sent == UNION {{[req |-> x.req, sid |-> s.sid] : x \in s.sent} : s \in async_sessions_}
Come == {[req |-> queueQ[i].req, sid |-> queueQ[i].sid] :
             i \in {j \in DOMAIN queueQ : Answer(queueQ[j])}}
Out == Posted \cup Sent \cup Come

(* The task of request p is waited for.                                    *)
Waits(p) == \E u \in Users : /\ user[u].pc = "wait" /\ user[u].task.id = p.req
                             /\ user[u].task.sid = p.sid /\ Asks(user[u].task)

(* A request that nobody waits for is owed by its session.                 *)
Owed == \A p \in Asked \cup Out : p.sid \in owed \/ Waits(p)

(* A task in tasks_ is the latest of its session: no later request of it   *)
(* is out.                                                                 *)
Latest == \A t \in tasks_ : t.type = "REQ_SEND_REQUESTION" =>
              \A p \in Out : p.sid = t.sid => p.req <= t.id

(* Request r has left both queues.                                         *)
Passed(r) ==
    /\ r <= unequal_task_id_
    /\ \A i \in DOMAIN asyncQ : r < asyncQ[i].id
    /\ \A i \in DOMAIN queueQ : Req(queueQ[i]) => r < queueQ[i].id

(* What was sent, answered or delivered has left the queues; answers are   *)
(* posted with message id 0.                                               *)
Earlier ==
    /\ \A p \in Sent \cup Come : Passed(p.req)
    /\ \A u \in Users : \A i \in DOMAIN userQ[u] : Answer(userQ[u][i]) => Passed(userQ[u][i].req)
    /\ \A i \in DOMAIN queueQ : Answer(queueQ[i]) => queueQ[i].id = 0

(* The answer to request r is in a user's queue.                           *)
Delivers(r) == \E u \in Users : \E i \in DOMAIN userQ[u] : Answer(userQ[u][i]) /\ userQ[u][i].req = r

(* A request is in one place: with one session, or answered by one         *)
(* message.                                                                *)
Once ==
    /\ \A s, t \in async_sessions_ : \A x \in s.sent, y \in t.sent : x.req = y.req => s = t /\ x = y
    /\ \A s \in async_sessions_ : \A x \in s.sent :
          /\ \A i \in DOMAIN queueQ : Answer(queueQ[i]) => queueQ[i].req # x.req
          /\ ~Delivers(x.req)
    /\ \A i, j \in DOMAIN queueQ :
          Answer(queueQ[i]) /\ Answer(queueQ[j]) /\ queueQ[i].req = queueQ[j].req => i = j
    /\ \A i \in DOMAIN queueQ : Answer(queueQ[i]) => ~Delivers(queueQ[i].req)

(* What a message in the queue of u says of u: it is for u's task or an    *)
(* earlier one, and an answer answers that task, or an earlier request of  *)
(* a session that owes.                                                    *)
Delivery(u, m) ==
    /\ m.id <= unequal_task_id_
    /\ Answer(m) => m.req <= m.id /\ (m.sid \in owed \/ m.req = m.id)
    /\ user[u].pc # "idle" =>
         /\ m.id <= user[u].task.id
         /\ m.id = user[u].task.id =>
              /\ Answer(m) <=> Asks(user[u].task)
              /\ Asks(user[u].task) => m.sid = user[u].task.sid

Delivered == \A u \in Users : \A i \in DOMAIN userQ[u] : Delivery(u, userQ[u][i])

(* No task that waits for an answer has that id and session.               *)
Stranger(id, sid) == \A t \in tasks_ : Asks(t) => ~(t.id = id /\ t.sid = sid)

(* A session's events are strangers to the requests: only an answer ends   *)
(* the wait of one.                                                        *)
NotMine ==
    /\ \A s \in async_sessions_ : Stranger(s.connect_id, s.sid)
    /\ \A i \in DOMAIN queueQ : News(queueQ[i]) /\ queueQ[i].type # "RES_SESSION_NOT_FOUND" =>
           Stranger(queueQ[i].id, queueQ[i].sid)

(* The task a user waits for is its latest.                                *)
Current == \A t \in Live : user[t.owner].pc # "idle" => t.id <= user[t.owner].task.id

(* The answer in *msg is to the task or to an earlier one, whether or not  *)
(* it ended the wait.                                                      *)
Held == \A u \in Users :
            user[u].pc \in {"wait", "done"} /\ user[u].msg # None /\ Answer(user[u].msg) =>
               user[u].msg.req <= user[u].task.id

(* The third layer of the inductive invariant.                             *)
AInv == Owed /\ Latest /\ Earlier /\ Once /\ Delivered /\ NotMine /\ Current /\ Held /\ AnswerIsOwn

(* What a step does to the requests that are on their way.                 *)
LEMMA AskedMoves ==
    ASSUME NEW d, NEW new, Moved(queueQ, queueQ', d, new), \A m \in new : ~Req(m)
    PROVE  Asked' \subseteq Asked
<1> SUFFICES ASSUME NEW i \in DOMAIN queueQ', queueQ'[i].type = "REQ_SEND_REQUESTION"
             PROVE  [req |-> queueQ'[i].id, sid |-> queueQ'[i].sid] \in Asked
  BY DEF Asked, Sends
<1>1. i + d \in DOMAIN queueQ /\ queueQ'[i] = queueQ[i + d]
  BY DEF Moved, Req, ReqType
<1> QED
  BY <1>1 DEF Asked, Sends

(* Requests in asyncQ after a step that posts none.                        *)
LEMMA PostedMoves ==
    ASSUME NEW e, Moved(asyncQ, asyncQ', e, {})
    PROVE  Posted' \subseteq Posted
<1> SUFFICES ASSUME NEW i \in DOMAIN asyncQ', asyncQ'[i].type = "REQ_SEND_REQUESTION"
             PROVE  [req |-> asyncQ'[i].id, sid |-> asyncQ'[i].sid] \in Posted
  BY DEF Posted, Sends
<1>1. i + e \in DOMAIN asyncQ /\ asyncQ'[i] = asyncQ[i + e]
  BY DEF Moved
<1> QED
  BY <1>1 DEF Posted, Sends

(* Answers in queueQ after a step that posts none.                         *)
LEMMA ComeMoves ==
    ASSUME NEW d, NEW new, Moved(queueQ, queueQ', d, new), \A m \in new : ~Answer(m)
    PROVE  Come' \subseteq Come
<1> SUFFICES ASSUME NEW i \in DOMAIN queueQ', Answer(queueQ'[i])
             PROVE  [req |-> queueQ'[i].req, sid |-> queueQ'[i].sid] \in Come
  BY DEF Come, Answer
<1>1. i + d \in DOMAIN queueQ /\ queueQ'[i] = queueQ[i + d]
  BY DEF Moved
<1> QED
  BY <1>1 DEF Come

(* Requests of the sessions after a step that sends none.                  *)
LEMMA SentMoves ==
    ASSUME \A s \in async_sessions_' : s.sent = {} \/ \E o \in async_sessions_ : s.sid = o.sid /\ s.sent = o.sent
    PROVE  Sent' \subseteq Sent
<1> SUFFICES ASSUME NEW p \in Sent' PROVE p \in Sent
  OBVIOUS
<1>3. PICK s \in async_sessions_' : p \in {[req |-> x.req, sid |-> s.sid] : x \in s.sent}
  BY DEF Sent
<1>4. PICK x \in s.sent : p = [req |-> x.req, sid |-> s.sid]
  BY <1>3
<1>1. PICK o \in async_sessions_ : s.sid = o.sid /\ s.sent = o.sent
  BY <1>4
<1>2. p \in {[req |-> y.req, sid |-> o.sid] : y \in o.sent}
  BY <1>1, <1>4
<1> QED
  BY <1>2 DEF Sent

(* Where a request or an answer that is on its way is counted.             *)
LEMMA InSets ==
    /\ \A i \in DOMAIN queueQ : queueQ[i].type = "REQ_SEND_REQUESTION" =>
          [req |-> queueQ[i].id, sid |-> queueQ[i].sid] \in Asked
    /\ \A i \in DOMAIN asyncQ : asyncQ[i].type = "REQ_SEND_REQUESTION" =>
          [req |-> asyncQ[i].id, sid |-> asyncQ[i].sid] \in Posted
    /\ \A i \in DOMAIN queueQ : Answer(queueQ[i]) =>
          [req |-> queueQ[i].req, sid |-> queueQ[i].sid] \in Come
    /\ \A s \in async_sessions_ : \A x \in s.sent : [req |-> x.req, sid |-> s.sid] \in Sent
<1>1. \A s \in async_sessions_ : \A x \in s.sent : [req |-> x.req, sid |-> s.sid] \in Sent
  <2> TAKE s \in async_sessions_
  <2> TAKE x \in s.sent
  <2>1. [req |-> x.req, sid |-> s.sid] \in {[req |-> y.req, sid |-> s.sid] : y \in s.sent}
    OBVIOUS
  <2> QED
    BY <2>1 DEF Sent
<1> QED
  BY <1>1 DEF Asked, Posted, Come, Sends

(* A step that starts no task and ends no wait.                            *)
Steady ==
    \A u \in Users :
        \/ user'[u] = user[u]
        \/ /\ user[u].pc \in {"done", "opened"} /\ user'[u].pc \in {"idle", "opened"}
           /\ user'[u].pc = "opened" => user'[u].task = user[u].task

(* Owed, when no request is added: whoever stops waiting for a request     *)
(* leaves its answer owed, or the request is gone.                         *)
LEMMA OwedKeeps ==
    ASSUME Owed, Asked' \cup Out' \subseteq Asked \cup Out, owed \subseteq owed',
           \A u \in Users : user[u].pc = "wait" =>
              \/ user'[u].pc = "wait" /\ user'[u].task = user[u].task
              \/ user[u].task.sid \in owed'
              \/ ~ Asks(user[u].task)
              \/ [req |-> user[u].task.id, sid |-> user[u].task.sid] \notin Asked' \cup Out'
    PROVE  Owed'
<1> SUFFICES ASSUME NEW p \in Asked' \cup Out' PROVE p.sid \in owed' \/ Waits(p)'
  BY DEF Owed
<1>0. p = [req |-> p.req, sid |-> p.sid]
  BY DEF Asked, Out, Posted, Sent, Come
<1>1. CASE p.sid \in owed
  BY <1>1
<1>2. CASE Waits(p)
  <2>1. PICK u \in Users : /\ user[u].pc = "wait" /\ user[u].task.id = p.req
                           /\ user[u].task.sid = p.sid /\ Asks(user[u].task)
    BY <1>2 DEF Waits
  <2>2. CASE user'[u].pc = "wait" /\ user'[u].task = user[u].task
    <3>1. user'[u].task.id = p.req /\ user'[u].task.sid = p.sid /\ Asks(user'[u].task)
      BY <2>1, <2>2
    <3> QED
      BY <2>2, <3>1 DEF Waits, Asks
  <2>3. CASE user[u].task.sid \in owed'
    BY <2>1, <2>3
  <2> QED
    BY <1>0, <2>1, <2>2, <2>3
<1> QED
  BY <1>1, <1>2 DEF Owed

(* Latest, when no request goes out and no task comes in.                  *)
LEMMA LatestKeeps ==
    ASSUME Latest, tasks_' \subseteq tasks_, Out' \subseteq Out PROVE Latest'
  BY DEF Latest

(* Passed, when no request is posted.                                      *)
LEMMA PassedKeeps ==
    ASSUME NEW d, NEW new, Moved(queueQ, queueQ', d, new), \A m \in new : ~Req(m),
           NEW e, Moved(asyncQ, asyncQ', e, {}), unequal_task_id_' = unequal_task_id_,
           NEW r, Passed(r)
    PROVE  Passed(r)'
<1>1. \A i \in DOMAIN asyncQ' : r < asyncQ'[i].id
  BY DEF Moved, Passed
<1>2. \A i \in DOMAIN queueQ' : Req(queueQ'[i]) => r < queueQ'[i].id
  BY DEF Moved, Passed
<1> QED
  BY <1>1, <1>2 DEF Passed, Req

(* Earlier in the next state, part by part.                                *)
LEMMA EarlierKeeps ==
    ASSUME \A p \in Sent' \cup Come' : \A r : r = p.req => Passed(r)',
           \A u \in Users : \A i \in DOMAIN userQ'[u] : Answer(userQ'[u][i]) =>
              \A r : r = userQ'[u][i].req => Passed(r)',
           \A i \in DOMAIN queueQ' : Answer(queueQ'[i]) => queueQ'[i].id = 0
    PROVE  Earlier'
<1>1. \A p \in Sent' \cup Come' : Passed(p.req)'
  BY DEF Passed
<1>2. \A u \in Users : \A i \in DOMAIN userQ'[u] : Answer(userQ'[u][i]) =>
         /\ userQ'[u][i].req <= unequal_task_id_'
         /\ \A j \in DOMAIN asyncQ' : userQ'[u][i].req < asyncQ'[j].id
         /\ \A j \in DOMAIN queueQ' : Req(queueQ'[j]) => userQ'[u][i].req < queueQ'[j].id
  BY DEF Passed, Req
<1> QED
  BY <1>1, <1>2 DEF Earlier, Passed, Answer, Req

(* Once in the next state, part by part.                                   *)
LEMMA OnceIs ==
    ASSUME \A s, t \in async_sessions_' : \A x \in s.sent, y \in t.sent : x.req = y.req => s = t /\ x = y,
           \A s \in async_sessions_' : \A x \in s.sent :
              \A i \in DOMAIN queueQ' : Answer(queueQ'[i]) => queueQ'[i].req # x.req,
           \A s \in async_sessions_' : \A x \in s.sent : \A r : r = x.req => ~Delivers(r)',
           \A i, j \in DOMAIN queueQ' :
              Answer(queueQ'[i]) /\ Answer(queueQ'[j]) /\ queueQ'[i].req = queueQ'[j].req => i = j,
           \A i \in DOMAIN queueQ' : Answer(queueQ'[i]) => \A r : r = queueQ'[i].req => ~Delivers(r)'
    PROVE  Once'
<1>1. \A s \in async_sessions_' : \A x \in s.sent : ~Delivers(x.req)'
  OBVIOUS
<1>2. \A i \in DOMAIN queueQ' : Answer(queueQ'[i]) => \A u \in Users : \A k \in DOMAIN userQ'[u] :
         ~(Answer(userQ'[u][k]) /\ userQ'[u][k].req = queueQ'[i].req)
  BY DEF Delivers, Answer
<1> QED
  BY <1>1, <1>2 DEF Once, Answer, Delivers

(* Once, when no answer is added.                                          *)
LEMMA OnceKeeps ==
    ASSUME Once, OneSession', NEW d \in {0, 1}, NEW new, Moved(queueQ, queueQ', d, new),
           DOMAIN queueQ' \subseteq Nat,
           \A m \in new : ~Answer(m),
           \A s \in async_sessions_' : s.sent = {} \/ \E o \in async_sessions_ : s.sid = o.sid /\ s.sent = o.sent,
           \A u \in Users : \A i \in DOMAIN userQ'[u] :
               \E j \in DOMAIN userQ[u] : userQ'[u][i] = userQ[u][j]
    PROVE  Once'
<1>1. \A i \in DOMAIN queueQ' : Answer(queueQ'[i]) => i + d \in DOMAIN queueQ /\ queueQ'[i] = queueQ[i + d]
  BY DEF Moved
<1>2. \A r : Delivers(r)' => Delivers(r)
  BY DEF Delivers, Answer
<1>3. \A s, t \in async_sessions_' : \A x \in s.sent, y \in t.sent : x.req = y.req => s = t /\ x = y
  <2> SUFFICES ASSUME NEW s \in async_sessions_', NEW t \in async_sessions_', NEW x \in s.sent,
                      NEW y \in t.sent, x.req = y.req
               PROVE  s = t /\ x = y
    OBVIOUS
  <2>1. PICK o \in async_sessions_ : s.sid = o.sid /\ s.sent = o.sent
    OBVIOUS
  <2>2. PICK p \in async_sessions_ : t.sid = p.sid /\ t.sent = p.sent
    OBVIOUS
  <2>3. o = p /\ x = y
    BY <2>1, <2>2 DEF Once
  <2> QED
    BY <2>1, <2>2, <2>3 DEF OneSession
<1>4. \A s \in async_sessions_' : \A x \in s.sent :
          /\ \A i \in DOMAIN queueQ' : Answer(queueQ'[i]) => queueQ'[i].req # x.req
          /\ \A r : r = x.req => ~Delivers(r)'
  <2> SUFFICES ASSUME NEW s \in async_sessions_', NEW x \in s.sent
               PROVE  /\ \A i \in DOMAIN queueQ' : Answer(queueQ'[i]) => queueQ'[i].req # x.req
                      /\ \A r : r = x.req => ~Delivers(r)'
    OBVIOUS
  <2>1. PICK o \in async_sessions_ : s.sid = o.sid /\ s.sent = o.sent
    OBVIOUS
  <2>2. /\ \A i \in DOMAIN queueQ : Answer(queueQ[i]) => queueQ[i].req # x.req
        /\ ~Delivers(x.req)
    BY <2>1 DEF Once
  <2> QED
    BY <1>1, <1>2, <2>2
<1>5. \A i, j \in DOMAIN queueQ' :
          Answer(queueQ'[i]) /\ Answer(queueQ'[j]) /\ queueQ'[i].req = queueQ'[j].req => i = j
  <2> SUFFICES ASSUME NEW i \in DOMAIN queueQ', NEW j \in DOMAIN queueQ', Answer(queueQ'[i]),
                      Answer(queueQ'[j]), queueQ'[i].req = queueQ'[j].req
               PROVE  i = j
    OBVIOUS
  <2>1. i + d = j + d
    BY <1>1 DEF Once
  <2> QED
    BY <2>1
<1>6. \A i \in DOMAIN queueQ' : Answer(queueQ'[i]) => \A r : r = queueQ'[i].req => ~Delivers(r)'
  BY <1>1, <1>2 DEF Once
<1> QED
  BY <1>3, <1>4, <1>5, <1>6, OnceIs

(* Delivered in the next state, message by message.                        *)
LEMMA DeliveredIs ==
    ASSUME \A u \in Users : \A i \in DOMAIN userQ'[u] : \A m : m = userQ'[u][i] => Delivery(u, m)'
    PROVE  Delivered'
  BY DEF Delivered, Delivery, Answer, Asks

(* Delivery, when the user starts no task.                                 *)
LEMMA DeliveryKeeps ==
    ASSUME NEW u \in Users, NEW m, Delivery(u, m), owed \subseteq owed',
           unequal_task_id_' = unequal_task_id_,
           user'[u].pc # "idle" => user[u].pc # "idle" /\ user'[u].task = user[u].task
    PROVE  Delivery(u, m)'
  BY DEF Delivery, Answer, Asks

(* Delivered, when no message is added and no task started.                *)
LEMMA DeliveredKeeps ==
    ASSUME Delivered, owed \subseteq owed', unequal_task_id_' = unequal_task_id_,
           \A u \in Users : user'[u].pc # "idle" =>
               user[u].pc # "idle" /\ user'[u].task = user[u].task,
           \A u \in Users : \A i \in DOMAIN userQ'[u] :
               \E j \in DOMAIN userQ[u] : userQ'[u][i] = userQ[u][j]
    PROVE  Delivered'
<1>1. \A u \in Users : \A i \in DOMAIN userQ'[u] : \A m : m = userQ'[u][i] => Delivery(u, m)
  BY DEF Delivered
<1>2. \A u \in Users : \A m : Delivery(u, m) => Delivery(u, m)'
  BY DeliveryKeeps
<1>3. \A u \in Users : \A i \in DOMAIN userQ'[u] : \A m : m = userQ'[u][i] => Delivery(u, m)'
  BY <1>1, <1>2
<1> QED
  BY <1>3, DeliveredIs

(* NotMine, when no task comes in and the new events are strangers to      *)
(* those there are.                                                        *)
LEMMA NotMineKeeps ==
    ASSUME NotMine, tasks_' \subseteq tasks_, NEW d, NEW new, Moved(queueQ, queueQ', d, new),
           \A m \in new : News(m) /\ m.type # "RES_SESSION_NOT_FOUND" => Stranger(m.id, m.sid),
           \A s \in async_sessions_' : Stranger(s.connect_id, s.sid)
    PROVE  NotMine'
<1>1. \A s \in async_sessions_' : \A t \in tasks_' : Asks(t) => ~(t.id = s.connect_id /\ t.sid = s.sid)
  BY DEF Stranger
<1>2. \A i \in DOMAIN queueQ' : News(queueQ'[i]) /\ queueQ'[i].type # "RES_SESSION_NOT_FOUND" =>
         Stranger(queueQ'[i].id, queueQ'[i].sid)
  BY DEF NotMine, Moved
<1>3. \A i \in DOMAIN queueQ' : News(queueQ'[i]) /\ queueQ'[i].type # "RES_SESSION_NOT_FOUND" =>
         \A t \in tasks_' : Asks(t) => ~(t.id = queueQ'[i].id /\ t.sid = queueQ'[i].sid)
  BY <1>2 DEF Stranger
<1> QED
  BY <1>1, <1>3 DEF NotMine, Stranger, News, Asks

(* Current, when no task is made.                                          *)
LEMMA CurrentKeeps ==
    ASSUME Typed, Current, Live' \subseteq Live,
           \A u \in Users : user'[u].pc # "idle" =>
               user[u].pc # "idle" /\ user'[u].task = user[u].task
    PROVE  Current'
<1>1. \A t \in Live' : t \in Live /\ t.owner \in Users
  BY LiveGood, TaskFields
<1> QED
  BY <1>1 DEF Current

(* What a steady step leaves to a user.                                    *)
LEMMA SteadyFacts ==
    ASSUME Steady
    PROVE  /\ \A u \in Users : user'[u].pc # "idle" =>
                 user[u].pc # "idle" /\ user'[u].task = user[u].task
           /\ \A u \in Users : user[u].pc = "wait" => user'[u] = user[u]
           /\ \A u \in Users : user'[u].pc \in {"wait", "done"} => user'[u] = user[u]
<1> SUFFICES ASSUME NEW u \in Users
             PROVE  /\ user'[u].pc # "idle" => user[u].pc # "idle" /\ user'[u].task = user[u].task
                    /\ user[u].pc = "wait" => user'[u] = user[u]
                    /\ user'[u].pc \in {"wait", "done"} => user'[u] = user[u]
  OBVIOUS
<1> QED
  BY DEF Steady

(* Held, and the property itself, when no wait ends.                       *)
LEMMA HeldKeeps ==
    ASSUME Held, AnswerIsOwn, Steady, owed \subseteq owed' PROVE Held' /\ AnswerIsOwn'
<1>1. \A u \in Users : user'[u].pc \in {"wait", "done"} => user'[u] = user[u]
  BY SteadyFacts
<1>2. Held'
  BY <1>1 DEF Held, Answer
<1>3. AnswerIsOwn'
  BY <1>1 DEF AnswerIsOwn
<1> QED
  BY <1>2, <1>3

(* A step that starts no task, hands over no task and ends no wait.        *)
LEMMA AQuiet ==
    ASSUME IInv, AInv, Steady, owed \subseteq owed', unequal_task_id_' = unequal_task_id_,
           NEW d \in {0, 1}, NEW new, Moved(queueQ, queueQ', d, new), \A m \in new : ~Req(m),
           NEW e \in {0, 1}, Moved(asyncQ, asyncQ', e, {}), tasks_' \subseteq tasks_,
           Out' \subseteq Out, Earlier', Once', Delivered', NotMine'
    PROVE  AInv'
<1>1. Typed /\ Owed /\ Latest /\ Current /\ Held /\ AnswerIsOwn
  BY DEF IInv, AInv
<1>2. Asked' \subseteq Asked
  BY AskedMoves
<1>3. /\ \A u \in Users : user'[u].pc # "idle" =>
                 user[u].pc # "idle" /\ user'[u].task = user[u].task
      /\ \A u \in Users : user[u].pc = "wait" => user'[u] = user[u]
  BY SteadyFacts
<1>4. Owed'
  <2>1. Asked' \cup Out' \subseteq Asked \cup Out
    BY <1>2
  <2>2. \A u \in Users : user[u].pc = "wait" => user'[u].pc = "wait" /\ user'[u].task = user[u].task
    BY <1>3
  <2> QED
    BY <1>1, <2>1, <2>2, OwedKeeps
<1>5. Latest'
  BY <1>1, LatestKeeps
<1>6. Live' \subseteq Live
  BY <1>3, LiveQuiet
<1>7. Current'
  BY <1>1, <1>3, <1>6, CurrentKeeps
<1>8. Held' /\ AnswerIsOwn'
  BY <1>1, HeldKeeps
<1> QED
  BY <1>4, <1>5, <1>7, <1>8 DEF AInv

(* Earlier, when no request is posted.                                     *)
LEMMA EarlierQuiet ==
    ASSUME Earlier, NEW d \in {0, 1}, NEW new, Moved(queueQ, queueQ', d, new),
           \A m \in new : ~Req(m) /\ (Answer(m) => m.id = 0),
           NEW e \in {0, 1}, Moved(asyncQ, asyncQ', e, {}), unequal_task_id_' = unequal_task_id_,
           \A p \in Sent' \cup Come' : p \in Sent \cup Come \/ \A r : r = p.req => Passed(r)',
           \A u \in Users : \A i \in DOMAIN userQ'[u] :
               \/ \E j \in DOMAIN userQ[u] : userQ'[u][i] = userQ[u][j]
               \/ Answer(userQ'[u][i]) => Passed(userQ'[u][i].req)
    PROVE  Earlier'
<1>1. \A r : Passed(r) => Passed(r)'
  BY PassedKeeps
<1>2. \A p \in Sent' \cup Come' : \A r : r = p.req => Passed(r)'
  BY <1>1 DEF Earlier
<1>3. \A u \in Users : \A i \in DOMAIN userQ'[u] : Answer(userQ'[u][i]) => Passed(userQ'[u][i].req)
  BY DEF Earlier
<1>4. \A i \in DOMAIN queueQ' : Answer(queueQ'[i]) => queueQ'[i].id = 0
  BY DEF Earlier, Moved
<1>5. \A u \in Users : \A i \in DOMAIN userQ'[u] : Answer(userQ'[u][i]) =>
              \A r : r = userQ'[u][i].req => Passed(r)'
  BY <1>1, <1>3
<1> QED
  BY <1>2, <1>4, <1>5, EarlierKeeps

(* ... and that moves no request and delivers no message either.           *)
LEMMA ASilent ==
    ASSUME IInv, IInv', HInv, HInv', AInv, Steady, owed \subseteq owed',
           unequal_task_id_' = unequal_task_id_,
           NEW d \in {0, 1}, NEW new, Moved(queueQ, queueQ', d, new),
           \A m \in new : /\ ~Req(m) /\ ~Answer(m)
                          /\ News(m) /\ m.type # "RES_SESSION_NOT_FOUND" => Stranger(m.id, m.sid),
           NEW e \in {0, 1}, Moved(asyncQ, asyncQ', e, {}), tasks_' \subseteq tasks_,
           \A u \in Users : \A i \in DOMAIN userQ'[u] :
               \E j \in DOMAIN userQ[u] : userQ'[u][i] = userQ[u][j],
           \A s \in async_sessions_' :
               /\ s.sent = {} \/ \E o \in async_sessions_ : s.sid = o.sid /\ s.sent = o.sent
               /\ Stranger(s.connect_id, s.sid)
    PROVE  AInv'
<1>1. Typed /\ Typed' /\ OneSession' /\ Once /\ NotMine /\ Earlier /\ Delivered
  BY DEF IInv, HInv, AInv
<1>2. Come' \subseteq Come
  BY ComeMoves
<1>3. Sent' \subseteq Sent
  BY SentMoves
<1>4. DOMAIN queueQ' \subseteq Nat
  BY <1>1, QueueFactsNext
<1>5. Once'
  BY <1>1, <1>4, OnceKeeps
<1>6. NotMine'
  BY <1>1, NotMineKeeps
<1>7. Out' \subseteq Out
  BY <1>2, <1>3, PostedMoves DEF Out
<1>8. Earlier'
  BY <1>1, <1>2, <1>3, EarlierQuiet
<1>9. Delivered'
  BY <1>1, SteadyFacts, DeliveredKeeps
<1> QED
  BY <1>5, <1>6, <1>7, <1>8, <1>9, AQuiet

(* No task has the id 0 that answers and reconnects carry.                 *)
LEMMA ZeroStranger ==
    ASSUME Typed, NEW sid PROVE Stranger(0, sid)
<1>1. \A t \in tasks_ : t.id # 0
  BY TaskFields, IdNumbers DEF Typed
<1> QED
  BY <1>1 DEF Stranger

(* The users' queues, in a step that leaves them alone.                    *)
LEMMA SameQueues ==
    ASSUME userQ' = userQ
    PROVE  \A u \in Users : \A i \in DOMAIN userQ'[u] :
               \E j \in DOMAIN userQ[u] : userQ'[u][i] = userQ[u][j]
  OBVIOUS

(* A user posts the removal of its task.                                   *)
LEMMA ReturnAInv ==
    ASSUME IInv, IInv', HInv, HInv', AInv, NEW u \in Users, Return(u) PROVE AInv'
<1>1. Typed /\ NotMine
  BY DEF IInv, AInv
<1>2. PICK t, M : t = user[u].task /\ M = TaskStanza("REQ_REMOVE_TASK_EVENT", t)
  OBVIOUS
<1>3. /\ t \in GoodTask(unequal_task_id_) /\ queueQ' = Append(queueQ, M)
      /\ \/ user'[u].pc = "idle"
         \/ user'[u].pc = "opened" /\ user'[u].task = user[u].task
      /\ \A v \in Users : v # u => user'[v] = user[v]
  BY <1>1, <1>2, ReturnTyped
<1>4. M \in GoodMsg(unequal_task_id_) /\ M.type = "REQ_REMOVE_TASK_EVENT"
  BY <1>2, <1>3, TaskStanzaGood
<1>5. Moved(queueQ, queueQ', 0, {M})
  BY <1>1, <1>3, <1>4, MovedAppend DEF Typed
<1>6. user[u].pc = "done" /\ userQ' = userQ /\ owed' = owed
      /\ UNCHANGED <<unequal_task_id_, tasks_, asyncQ, async_sessions_>>
  BY DEF Return, history
<1>7. Steady
  BY <1>3, <1>6 DEF Steady
<1>8. \A m \in {M} : /\ ~Req(m) /\ ~Answer(m) /\ ~News(m)
  BY <1>4 DEF Req, ReqType, News, Answer
<1>9. \A s \in async_sessions_' :
         /\ \E o \in async_sessions_ : s.sid = o.sid /\ s.sent = o.sent
         /\ Stranger(s.connect_id, s.sid)
  BY <1>1, <1>6 DEF NotMine
<1>10. PICK d, e : d = 0 /\ e = 0
  OBVIOUS
<1>11. Moved(asyncQ, asyncQ', e, {})
  BY <1>1, <1>6, <1>10, NotMoved
<1> QED
  BY <1>5, <1>6, <1>7, <1>8, <1>9, <1>10, <1>11, SameQueues, ASilent

(* ConnectServer returns.                                                  *)
LEMMA OpenedAInv ==
    ASSUME IInv, IInv', HInv, HInv', AInv, NEW u \in Users, Opened(u) PROVE AInv'
<1>1. Typed /\ NotMine
  BY DEF IInv, AInv
<1>2. PICK sid, M : sid = user[u].msg.sid /\ M = Stanza("RES_RECONNECT_EVENT", 0, sid)
  OBVIOUS
<1>3. /\ user'[u].pc = "idle"
      /\ queueQ' = queueQ \/ (queueQ' = Append(queueQ, M) /\ sid \in SessionIds)
      /\ \A v \in Users : v # u => user'[v] = user[v]
  BY <1>1, <1>2, OpenedTyped
<1>4. /\ user[u].pc = "opened" /\ userQ' = userQ /\ owed' = owed
      /\ UNCHANGED <<unequal_task_id_, tasks_, asyncQ, async_sessions_>>
  BY DEF Opened, history
<1>5. Steady
  BY <1>3, <1>4 DEF Steady
<1>6. \A s \in async_sessions_' :
         /\ \E o \in async_sessions_ : s.sid = o.sid /\ s.sent = o.sent
         /\ Stranger(s.connect_id, s.sid)
  BY <1>1, <1>4 DEF NotMine
<1>7. PICK d, e : d = 0 /\ e = 0
  OBVIOUS
<1>8. Moved(asyncQ, asyncQ', e, {})
  BY <1>1, <1>4, <1>7, NotMoved
<1>9. CASE queueQ' = queueQ
  <2>1. Moved(queueQ, queueQ', 0, {})
    BY <1>1, <1>9, NotMoved
  <2> QED
    BY <1>4, <1>5, <1>6, <1>7, <1>8, <2>1, SameQueues, ASilent
<1>10. CASE queueQ' = Append(queueQ, M) /\ sid \in SessionIds
  <2>1. PICK k, type : k = 0 /\ type = "RES_RECONNECT_EVENT"
    OBVIOUS
  <2>2. M = Stanza(type, k, sid) /\ type \in StanzaType /\ k \in Nat
        /\ type \notin ReqType \cup {"REQ_REMOVE_TASK_EVENT"}
    BY <1>2, <2>1 DEF StanzaType, ReqType
  <2>3. sid # NULL_SESSION_ID /\ sid \in {NULL_SESSION_ID} \cup SessionIds
    BY <1>10, IdNumbers
  <2>4. M \in GoodMsg(unequal_task_id_) /\ News(M) /\ M.id = 0 /\ M.type = type
    BY <2>1, <2>2, <2>3, StanzaGood
  <2>5. Moved(queueQ, queueQ', 0, {M})
    BY <1>1, <1>10, <2>4, MovedAppend DEF Typed
  <2>6. \A m \in {M} : ~Req(m) /\ ~Answer(m) /\ Stranger(m.id, m.sid)
    BY <1>1, <2>1, <2>4, ZeroStranger DEF Req, News, Answer
  <2> QED
    BY <1>4, <1>5, <1>6, <1>7, <1>8, <2>5, <2>6, SameQueues, ASilent
<1> QED
  BY <1>3, <1>9, <1>10

(* The steps of the queue thread, the async thread and the devices.        *)
LEMMA AsyncAInv ==
    ASSUME IInv, IInv', HInv, HInv', AInv, NEW d \in {0, 1}, NEW new, Moved(queueQ, queueQ', d, new),
           \A m \in new : /\ ~Req(m) /\ ~Answer(m)
                          /\ News(m) /\ m.type # "RES_SESSION_NOT_FOUND" => Stranger(m.id, m.sid),
           NEW e \in {0, 1}, Moved(asyncQ, asyncQ', e, {}),
           UNCHANGED <<unequal_task_id_, tasks_, user, userQ, owed>>,
           \A s \in async_sessions_' :
               \/ \E o \in async_sessions_ : s.sid = o.sid /\ s.connect_id = o.connect_id /\ s.sent = o.sent
               \/ s.sent = {} /\ Stranger(s.connect_id, s.sid)
    PROVE  AInv'
<1>1. NotMine
  BY DEF AInv
<1>2. Steady
  BY DEF Steady
<1>3. userQ' = userQ /\ owed \subseteq owed' /\ unequal_task_id_' = unequal_task_id_
      /\ tasks_' \subseteq tasks_
  OBVIOUS
<1>4. \A s \in async_sessions_' :
               /\ s.sent = {} \/ \E o \in async_sessions_ : s.sid = o.sid /\ s.sent = o.sent
               /\ Stranger(s.connect_id, s.sid)
  BY <1>1 DEF NotMine
<1> QED
  BY <1>2, <1>3, <1>4, SameQueues, ASilent

(* The task at the head of the async thread's queue asks for no answer.    *)
LEMMA HeadStranger ==
    ASSUME IInv, HInv, asyncQ # <<>>, asyncQ[1].type # "REQ_SEND_REQUESTION", NEW sid
    PROVE  Stranger(asyncQ[1].id, sid)
<1>1. Typed /\ Unique
  BY DEF IInv, HInv
<1>2. PICK t : t = asyncQ[1].task
  OBVIOUS
<1>3. 1 \in DOMAIN asyncQ /\ asyncQ[1].type = t.type /\ asyncQ[1].id = t.id
  BY <1>1, <1>2, HeadOfAsync
<1>4. \A x \in tasks_ : x.id = t.id => x = t
  BY <1>1, <1>2, <1>3, InLive DEF Unique
<1> QED
  BY <1>3, <1>4 DEF Stranger, Asks

(* A new session, with the id of a connect task.                           *)
LEMMA OnConnectAInv ==
    ASSUME IInv, IInv', HInv, HInv', AInv, NEW r \in scenario.connects, OnConnectMessage(r)
    PROVE  AInv'
<1>1. Typed /\ Order
  BY DEF IInv
<1>2. PICK n, s : n = unequal_session_id_ + 1 /\ s = NewSession(n, asyncQ[1].id, r)
  OBVIOUS
<1>3. /\ asyncQ # <<>> /\ Moved(asyncQ, asyncQ', 1, {}) /\ asyncQ[1].type = "REQ_CONNECT_SERVER"
      /\ n \in SessionIds /\ async_sessions_' = async_sessions_ \cup {s}
  BY <1>1, <1>2, OnConnectTyped
<1>4. asyncQ[1].id \in TaskIds \cup SessionIds
  BY <1>1, <1>3, HeadOfAsync
<1>5. s.connect_id = asyncQ[1].id /\ s.sent = {}
  BY <1>1, <1>2, <1>3, <1>4, NewTyped
<1>6. Stranger(s.connect_id, s.sid)
  BY <1>3, <1>5, HeadStranger
<1>7. queueQ' = queueQ /\ UNCHANGED <<unequal_task_id_, tasks_, user, userQ, owed>>
  BY DEF OnConnectMessage, history
<1>8. PICK d, e : d = 0 /\ e = 1
  OBVIOUS
<1>9. Moved(queueQ, queueQ', d, {})
  BY <1>1, <1>7, <1>8, NotMoved
<1>10. \A x \in async_sessions_' :
               \/ \E o \in async_sessions_ : x.sid = o.sid /\ x.connect_id = o.connect_id /\ x.sent = o.sent
               \/ x.sent = {} /\ Stranger(x.connect_id, x.sid)
  BY <1>3, <1>5, <1>6
<1> QED
  BY <1>3, <1>7, <1>8, <1>9, <1>10, AsyncAInv

(* A disconnect task is handled.                                           *)
LEMMA OnDisconnectAInv ==
    ASSUME IInv, IInv', HInv, HInv', AInv, OnDisconnectMessage PROVE AInv'
<1>1. Typed
  BY DEF IInv
<1>2. /\ asyncQ # <<>> /\ asyncQ[1].type # "REQ_SEND_REQUESTION" /\ Moved(asyncQ, asyncQ', 1, {})
      /\ async_sessions_' \subseteq async_sessions_
  BY <1>1, OnDisconnectTyped
<1>3. PICK m : /\ Moved(queueQ, queueQ', 0, {m}) /\ News(m) /\ m.id = asyncQ[1].id
               /\ m.type \notin {"RES_STANZA_EVENT", "RES_RECONNECT_EVENT"}
  BY <1>1, OnDisconnectTyped
<1>4. \A x \in {m} : ~Req(x) /\ ~Answer(x) /\ Stranger(x.id, x.sid)
  BY <1>2, <1>3, HeadStranger DEF News, Req, Answer
<1>5. UNCHANGED <<unequal_task_id_, tasks_, user, userQ, owed>>
  BY DEF OnDisconnectMessage, history
<1>6. PICK d, e : d = 0 /\ e = 1
  OBVIOUS
<1> QED
  BY <1>2, <1>3, <1>4, <1>5, <1>6, AsyncAInv

(* A session is dialled again: a request of its holder has a later id than *)
(* the session's, under which it posts its events.                         *)
LEMMA ReconnectAInv ==
    ASSUME IInv, IInv', HInv, HInv', AInv, NEW sid \in SessionIds, NEW r \in scenario.connects,
           OnReconnectMessage(sid, r), NEW d \in {0, 1}, Moved(queueQ, queueQ', d, {}),
           UNCHANGED <<unequal_task_id_, user, userQ, asyncQ, tasks_, owed>>
    PROVE  AInv'
<1>1. Typed /\ Holder
  BY DEF IInv, HInv
<1>2. \/ async_sessions_' = async_sessions_
      \/ \E s \in Session :
              /\ s.sid = sid /\ s.connect_id = sid /\ s.sent = {}
              /\ async_sessions_' = async_sessions_ \cup {s}
              /\ \A o \in async_sessions_ : o.sid # sid
  BY <1>1, ReconnectTyped
<1>3. Stranger(sid, sid)
  <2> SUFFICES ASSUME NEW t \in tasks_, Asks(t), t.id = sid, t.sid = sid PROVE FALSE
    BY DEF Stranger
  <2>1. t.sid < t.id
    BY <1>1, InLive DEF Holder, Asks
  <2> QED
    BY <2>1, IdNumbers
<1>4. \A s \in async_sessions_' :
               \/ \E o \in async_sessions_ : s.sid = o.sid /\ s.connect_id = o.connect_id /\ s.sent = o.sent
               \/ s.sent = {} /\ Stranger(s.connect_id, s.sid)
  BY <1>2, <1>3
<1>5. PICK e : e = 0
  OBVIOUS
<1>6. Moved(asyncQ, asyncQ', e, {})
  BY <1>1, <1>5, NotMoved
<1> QED
  BY <1>4, <1>5, <1>6, AsyncAInv

(* Events of a session's socket other than a packet.                       *)
LEMMA DeviceAInv ==
    ASSUME IInv, IInv', HInv, HInv', AInv, NEW s \in async_sessions_, NEW t, t.sid = s.sid,
           t.connect_id = s.connect_id, t.sent = s.sent,
           async_sessions_' = (async_sessions_ \ {s}) \cup {t},
           NEW new, Moved(queueQ, queueQ', 0, new),
           \A m \in new : News(m) /\ m.id = s.connect_id /\ m.sid = s.sid /\ m.type # "RES_STANZA_EVENT",
           UNCHANGED <<unequal_task_id_, user, userQ, asyncQ, tasks_, owed>>
    PROVE  AInv'
<1>1. Typed /\ NotMine
  BY DEF IInv, AInv
<1>2. \A m \in new : ~Req(m) /\ ~Answer(m) /\ Stranger(m.id, m.sid)
  BY <1>1 DEF NotMine, News, Req, Answer
<1>3. PICK d, e : d = 0 /\ e = 0
  OBVIOUS
<1>4. Moved(asyncQ, asyncQ', e, {})
  BY <1>1, <1>3, NotMoved
<1>5. \A x \in async_sessions_' :
         \E o \in async_sessions_ : x.sid = o.sid /\ x.connect_id = o.connect_id /\ x.sent = o.sent
  OBVIOUS
<1> QED
  BY <1>2, <1>3, <1>4, <1>5, AsyncAInv

(* QueueRemoveSession, DropMessage and ReConnect.                          *)
LEMMA QueueAInv ==
    ASSUME IInv, IInv', HInv, HInv', AInv, NEW new, Moved(queueQ, queueQ', 1, new), 1 \in DOMAIN queueQ,
           \A m \in new : /\ News(m) /\ m.type = "RES_RECONNECT_EVENT" /\ queueQ[1].type = m.type
                          /\ m.id = queueQ[1].id /\ m.sid = queueQ[1].sid,
           async_sessions_' \subseteq async_sessions_,
           UNCHANGED <<unequal_task_id_, user, userQ, asyncQ, tasks_, owed>>
    PROVE  AInv'
<1>1. Typed /\ NotMine
  BY DEF IInv, AInv
<1>2. \A m \in new : ~Req(m) /\ ~Answer(m) /\ Stranger(m.id, m.sid)
  BY <1>1 DEF NotMine, News, Req, ReqType, Answer
<1>3. PICK d, e : d = 1 /\ e = 0
  OBVIOUS
<1>4. Moved(asyncQ, asyncQ', e, {})
  BY <1>1, <1>3, NotMoved
<1>5. \A x \in async_sessions_' :
         \E o \in async_sessions_ : x.sid = o.sid /\ x.connect_id = o.connect_id /\ x.sent = o.sent
  OBVIOUS
<1> QED
  BY <1>2, <1>3, <1>4, <1>5, AsyncAInv

(* A task is removed.                                                      *)
LEMMA OnRemoveAInv ==
    ASSUME IInv, IInv', HInv, HInv', AInv, OnRemoveTaskMessage PROVE AInv'
<1>1. Typed /\ NotMine
  BY DEF IInv, AInv
<1>2. Moved(queueQ, queueQ', 1, {}) /\ tasks_' \subseteq tasks_
  BY <1>1, OnRemoveTyped
<1>3. \A u \in Users : \A i \in DOMAIN userQ'[u] :
               \E j \in DOMAIN userQ[u] : userQ'[u][i] = userQ[u][j]
  BY <1>1, OnRemoveTyped
<1>4. UNCHANGED <<unequal_task_id_, user, asyncQ, async_sessions_, owed>>
  BY DEF OnRemoveTaskMessage, history
<1>5. PICK d, e : d = 1 /\ e = 0
  OBVIOUS
<1>6. Moved(asyncQ, asyncQ', e, {})
  BY <1>1, <1>4, <1>5, NotMoved
<1>7. Steady /\ owed \subseteq owed'
  BY <1>4 DEF Steady
<1>8. \A s \in async_sessions_' :
         /\ \E o \in async_sessions_ : s.sid = o.sid /\ s.sent = o.sent
         /\ Stranger(s.connect_id, s.sid)
  BY <1>1, <1>4 DEF NotMine
<1> QED
  BY <1>2, <1>3, <1>4, <1>5, <1>6, <1>7, <1>8, ASilent

(* A packet arrives: a request that was sent is answered, once.            *)
LEMMA PacketAInv ==
    ASSUME IInv, IInv', HInv, HInv', AInv, NEW s \in async_sessions_, NEW r \in s.sent,
           OnSessionPacketEvent(s, r)
    PROVE  AInv'
<1>1. Typed /\ Typed' /\ OneSession /\ OneSession' /\ Once /\ NotMine /\ Earlier /\ Delivered
  BY DEF IInv, HInv, AInv
<1>2. PICK t \in Session :
         /\ t.sid = s.sid /\ t.connect_id = s.connect_id /\ t.sent = s.sent \ {r}
         /\ async_sessions_' = (async_sessions_ \ {s}) \cup {t}
  BY <1>1, OnSessionPacketTyped
<1>3. PICK m \in GoodMsg(unequal_task_id_) :
         /\ Moved(queueQ, queueQ', 0, {m}) /\ News(m) /\ m.type = "RES_STANZA_EVENT"
         /\ m.id = 0 /\ m.sid = s.sid /\ m.req = r.req
  BY <1>1, OnSessionPacketTyped
<1>4. UNCHANGED <<unequal_task_id_, user, userQ, asyncQ, tasks_, owed>>
  BY DEF OnSessionPacketEvent, history
<1>5. PICK d, e : d = 0 /\ e = 0
  OBVIOUS
<1>6. Moved(asyncQ, asyncQ', e, {})
  BY <1>1, <1>4, <1>5, NotMoved
<1>7. ~Req(m) /\ Answer(m)
  BY <1>3 DEF News, Req, Answer
<1>8. Sent' \cup Come' \subseteq Sent \cup Come
  <2>1. Sent' \subseteq Sent
    <3> SUFFICES ASSUME NEW p \in Sent' PROVE p \in Sent
      OBVIOUS
    <3>1. PICK o \in async_sessions_' : p \in {[req |-> x.req, sid |-> o.sid] : x \in o.sent}
      BY DEF Sent
    <3>2. PICK x \in o.sent : p = [req |-> x.req, sid |-> o.sid]
      BY <3>1
    <3>3. CASE o \in async_sessions_
      BY <3>2, <3>3, InSets
    <3>4. CASE o = t
      <4>1. x \in s.sent /\ p = [req |-> x.req, sid |-> s.sid]
        BY <1>2, <3>2, <3>4
      <4> QED
        BY <4>1, InSets
    <3> QED
      BY <1>2, <3>3, <3>4
  <2>2. Come' \subseteq Come \cup {[req |-> r.req, sid |-> s.sid]}
    <3> SUFFICES ASSUME NEW i \in DOMAIN queueQ', Answer(queueQ'[i])
                 PROVE  [req |-> queueQ'[i].req, sid |-> queueQ'[i].sid]
                           \in Come \cup {[req |-> r.req, sid |-> s.sid]}
      BY DEF Come, Answer
    <3>1. CASE queueQ'[i] = m
      BY <1>3, <3>1
    <3>2. CASE i + 0 \in DOMAIN queueQ /\ queueQ'[i] = queueQ[i + 0]
      BY <3>2, InSets
    <3> QED
      BY <1>3, <3>1, <3>2 DEF Moved
  <2>3. [req |-> r.req, sid |-> s.sid] \in Sent
    BY InSets
  <2> QED
    BY <2>1, <2>2, <2>3
<1>9. Out' \subseteq Out
  BY <1>6, <1>8, PostedMoves DEF Out
<1>10. Earlier'
  <2>1. \A u \in Users : \A i \in DOMAIN userQ'[u] :
               \E j \in DOMAIN userQ[u] : userQ'[u][i] = userQ[u][j]
    BY <1>4, SameQueues
  <2>2. \A x \in {m} : ~Req(x) /\ (Answer(x) => x.id = 0)
    BY <1>3, <1>7
  <2> QED
    BY <1>1, <1>3, <1>4, <1>5, <1>6, <1>8, <2>1, <2>2, EarlierQuiet
<1>11. Delivered'
  BY <1>1, <1>4 DEF Delivered, Delivery, Answer, Asks
<1>12. NotMine'
  <2>1. \A x \in {m} : Stranger(x.id, x.sid)
    BY <1>1, <1>3, ZeroStranger
  <2>2. \A x \in async_sessions_' : Stranger(x.connect_id, x.sid)
    BY <1>1, <1>2 DEF NotMine
  <2> QED
    BY <1>1, <1>3, <1>4, <2>1, <2>2, NotMineKeeps
<1>13. \A o \in async_sessions_' : \A x \in o.sent :
          /\ \E a \in async_sessions_ : a.sid = o.sid /\ x \in a.sent
          /\ x.req # r.req
  <2> SUFFICES ASSUME NEW o \in async_sessions_', NEW x \in o.sent
               PROVE  /\ \E a \in async_sessions_ : a.sid = o.sid /\ x \in a.sent
                      /\ x.req # r.req
    OBVIOUS
  <2>1. CASE o = t
    BY <1>1, <1>2, <2>1 DEF Once
  <2>2. CASE o \in async_sessions_ /\ o # s
    BY <1>1, <2>2 DEF Once
  <2> QED
    BY <1>2, <2>1, <2>2
<1>14. \A i \in DOMAIN queueQ' : Answer(queueQ'[i]) =>
          \/ i \in DOMAIN queueQ /\ queueQ'[i] = queueQ[i] /\ queueQ[i].req # r.req
          \/ i = Len(queueQ) + 1 /\ queueQ'[i] = m
  <2> SUFFICES ASSUME NEW i \in DOMAIN queueQ', Answer(queueQ'[i])
               PROVE  \/ i \in DOMAIN queueQ /\ queueQ'[i] = queueQ[i] /\ queueQ[i].req # r.req
                      \/ i = Len(queueQ) + 1 /\ queueQ'[i] = m
    OBVIOUS
  <2>1. /\ DOMAIN queueQ' \subseteq Nat /\ Len(queueQ) \in Nat /\ i + 0 = i
    BY <1>1, QueueFacts, QueueFactsNext
  <2>2. CASE i \in DOMAIN queueQ /\ queueQ'[i] = queueQ[i]
    BY <1>1, <2>2 DEF Once
  <2>3. CASE i > Len(queueQ) /\ queueQ'[i] = m
    <3>1. DOMAIN queueQ' = 1 .. Len(queueQ) + 1
      BY <1>1 DEF OnSessionPacketEvent, Typed
    <3> QED
      BY <2>1, <2>3, <3>1
  <2> QED
    BY <1>3, <2>1, <2>2, <2>3 DEF Moved
<1>15. ~Delivers(r.req)
  BY <1>1 DEF Once
<1>16. Once'
  <2>0. \A k : Delivers(k)' <=> Delivers(k)
    BY <1>4 DEF Delivers, Answer
  <2>1. \A o, p \in async_sessions_' : \A x \in o.sent, y \in p.sent : x.req = y.req => o = p /\ x = y
    <3> SUFFICES ASSUME NEW o \in async_sessions_', NEW p \in async_sessions_', NEW x \in o.sent,
                        NEW y \in p.sent, x.req = y.req
                 PROVE  o = p /\ x = y
      OBVIOUS
    <3>1. PICK a \in async_sessions_ : a.sid = o.sid /\ x \in a.sent
      BY <1>13
    <3>2. PICK b \in async_sessions_ : b.sid = p.sid /\ y \in b.sent
      BY <1>13
    <3>3. a = b /\ x = y
      BY <1>1, <3>1, <3>2 DEF Once
    <3> QED
      BY <1>1, <3>1, <3>2, <3>3 DEF OneSession
  <2>2. \A o \in async_sessions_' : \A x \in o.sent :
          \A i \in DOMAIN queueQ' : Answer(queueQ'[i]) => queueQ'[i].req # x.req
    <3> SUFFICES ASSUME NEW o \in async_sessions_', NEW x \in o.sent, NEW i \in DOMAIN queueQ',
                        Answer(queueQ'[i])
                 PROVE  queueQ'[i].req # x.req
      OBVIOUS
    <3>1. x.req # r.req /\ \E a \in async_sessions_ : x \in a.sent
      BY <1>13
    <3> QED
      BY <1>1, <1>3, <1>14, <3>1 DEF Once
  <2>3. \A o \in async_sessions_' : \A x \in o.sent : \A k : k = x.req => ~Delivers(k)'
    BY <1>1, <1>13, <2>0 DEF Once
  <2>4. \A i, j \in DOMAIN queueQ' :
          Answer(queueQ'[i]) /\ Answer(queueQ'[j]) /\ queueQ'[i].req = queueQ'[j].req => i = j
    BY <1>1, <1>3, <1>14 DEF Once
  <2>5. \A i \in DOMAIN queueQ' : Answer(queueQ'[i]) => \A k : k = queueQ'[i].req => ~Delivers(k)'
    BY <1>1, <1>3, <1>14, <1>15, <2>0 DEF Once
  <2> QED
    BY <2>1, <2>2, <2>3, <2>4, <2>5, OnceIs
<1>17. Steady
  BY <1>4 DEF Steady
<1>18. \A x \in {m} : ~Req(x)
  BY <1>7
<1> QED
  BY <1>3, <1>4, <1>5, <1>6, <1>9, <1>10, <1>11, <1>12, <1>16, <1>17, <1>18, AQuiet

(* A request reaches its session: it is the latest one anywhere behind the *)
(* queues.                                                                 *)
LEMMA OnRequestAInv ==
    ASSUME IInv, IInv', HInv, HInv', AInv, OnRequestMessage PROVE AInv'
<1>1. /\ Typed /\ Typed' /\ Order /\ Unique /\ OneSession /\ OneSession' /\ Once /\ NotMine
      /\ Earlier /\ Delivered
  BY DEF IInv, HInv, AInv
<1>2. PICK h, t, y, p : /\ h = asyncQ[1] /\ t = h.task /\ y = [req |-> h.id, cmd |-> h.cmd]
                        /\ p = [req |-> h.id, sid |-> h.sid]
  OBVIOUS
<1>3. asyncQ # <<>> /\ Moved(asyncQ, asyncQ', 1, {}) /\ h.type = "REQ_SEND_REQUESTION"
  BY <1>1, <1>2, OnRequestTyped
<1>4. 1 \in DOMAIN asyncQ /\ h.id = t.id /\ h.id \in TaskIds /\ h.id \in Nat
  BY <1>1, <1>2, <1>3, HeadOfAsync, IdNumbers
<1>5. \A s \in async_sessions_' : \E o \in async_sessions_ :
         /\ s.sid = o.sid /\ s.connect_id = o.connect_id
         /\ s.sent = o.sent \/ (o.sid = h.sid /\ s.sent = o.sent \cup {y})
  <2>1. \A s \in async_sessions_' : \E o \in async_sessions_ :
                /\ s.sid = o.sid /\ s.connect_id = o.connect_id
                /\ \/ s = o /\ o.sid # h.sid
                   \/ o.sid = h.sid /\ s.sent = o.sent \cup {y}
    BY <1>1, <1>2, OnRequestTyped
  <2> QED
    BY <2>1
<1>6. UNCHANGED <<unequal_task_id_, user, userQ, tasks_, owed>>
  BY DEF OnRequestMessage, history
<1>7. PICK new : /\ Moved(queueQ, queueQ', 0, new)
                 /\ \A m \in new : /\ ~Req(m) /\ ~Answer(m)
                                   /\ m.type # "RES_SESSION_NOT_FOUND" => Stranger(m.id, m.sid)
  <2>1. \/ queueQ' = queueQ
        \/ \E m \in GoodMsg(unequal_task_id_) :
                /\ Moved(queueQ, queueQ', 0, {m}) /\ News(m) /\ m.id = h.id
                /\ m.type \notin {"RES_STANZA_EVENT", "RES_RECONNECT_EVENT"}
                /\ m.sid = h.sid
                /\ m.type # "RES_SESSION_NOT_FOUND" => t.push
    BY <1>1, <1>2, OnRequestTyped
  <2>2. CASE queueQ' = queueQ
    BY <1>1, <2>2, NotMoved
  <2>3. ASSUME NEW m \in GoodMsg(unequal_task_id_), Moved(queueQ, queueQ', 0, {m}), News(m),
               m.id = h.id, m.type # "RES_STANZA_EVENT", m.type # "RES_SESSION_NOT_FOUND" => t.push
        PROVE  \E new : /\ Moved(queueQ, queueQ', 0, new)
                 /\ \A x \in new : /\ ~Req(x) /\ ~Answer(x)
                                   /\ x.type # "RES_SESSION_NOT_FOUND" => Stranger(x.id, x.sid)
    <3>1. \A x \in tasks_ : x.id = t.id => x = t
      BY <1>1, <1>2, <1>4, InLive DEF Unique
    <3>2. t.push => Stranger(m.id, m.sid)
      BY <1>4, <2>3, <3>1 DEF Stranger, Asks
    <3>3. ~Req(m) /\ ~Answer(m)
      BY <2>3 DEF News, Req, Answer
    <3>4. PICK new : new = {m}
      OBVIOUS
    <3>5. \A x \in new : /\ ~Req(x) /\ ~Answer(x)
                         /\ x.type # "RES_SESSION_NOT_FOUND" => Stranger(x.id, x.sid)
      BY <2>3, <3>2, <3>3, <3>4
    <3> QED
      BY <2>3, <3>4, <3>5
  <2> QED
    BY <2>1, <2>2, <2>3
<1>8. p \in Posted
  BY <1>2, <1>3, <1>4, InSets
<1>9. Come' \subseteq Come
  BY <1>7, ComeMoves
<1>10. Sent' \subseteq Sent \cup {p}
  <2> SUFFICES ASSUME NEW q \in Sent' PROVE q \in Sent \cup {p}
    OBVIOUS
  <2>1. PICK s \in async_sessions_' : q \in {[req |-> x.req, sid |-> s.sid] : x \in s.sent}
    BY DEF Sent
  <2>2. PICK x \in s.sent : q = [req |-> x.req, sid |-> s.sid]
    BY <2>1
  <2>3. PICK o \in async_sessions_ :
         /\ s.sid = o.sid
         /\ s.sent = o.sent \/ (o.sid = h.sid /\ s.sent = o.sent \cup {y})
    BY <1>5
  <2>4. CASE x \in o.sent
    BY <2>2, <2>3, <2>4, InSets
  <2>5. CASE x = y /\ o.sid = h.sid
    BY <1>2, <2>2, <2>3, <2>5
  <2> QED
    BY <2>3, <2>4, <2>5
<1>11. Out' \subseteq Out
  BY <1>3, <1>8, <1>9, <1>10, PostedMoves DEF Out
<1>12. Passed(h.id)'
  <2>1. h.id <= unequal_task_id_
    BY <1>1, <1>2, <1>4, QueueFacts, AsyncMsgFields
  <2>2. \A i \in DOMAIN asyncQ' : h.id < asyncQ'[i].id
    <3> TAKE i \in DOMAIN asyncQ'
    <3>1. i \in Nat /\ i # 0
      BY <1>1, QueueFactsNext
    <3>2. i + 1 \in DOMAIN asyncQ /\ asyncQ'[i] = asyncQ[i + 1] /\ 1 < i + 1
      BY <1>3, <3>1 DEF Moved
    <3> QED
      BY <1>1, <1>2, <1>4, <3>2 DEF Order
  <2>3. \A i \in DOMAIN queueQ' : Req(queueQ'[i]) => h.id < queueQ'[i].id
    BY <1>1, <1>2, <1>4, <1>7 DEF Moved, Order
  <2> QED
    BY <1>6, <2>1, <2>2, <2>3 DEF Passed, Req
<1>13. PICK d, e : d = 0 /\ e = 1
  OBVIOUS
<1>14. \A u \in Users : \A i \in DOMAIN userQ'[u] :
               \E j \in DOMAIN userQ[u] : userQ'[u][i] = userQ[u][j]
  BY <1>6, SameQueues
<1>15. Earlier'
  <2>1. \A q \in Sent' \cup Come' : q \in Sent \cup Come \/ \A r : r = q.req => Passed(r)'
    <3> SUFFICES ASSUME NEW q \in Sent' \cup Come', q \notin Sent \cup Come, NEW r, r = q.req
                 PROVE  Passed(r)'
      OBVIOUS
    <3>1. r = h.id
      BY <1>2, <1>9, <1>10
    <3> QED
      BY <1>12, <3>1
  <2> QED
    BY <1>1, <1>3, <1>6, <1>7, <1>13, <1>14, <2>1, EarlierQuiet
<1>16. Delivered'
  BY <1>1, <1>6 DEF Delivered, Delivery, Answer, Asks
<1>17. NotMine'
  <2>1. \A s \in async_sessions_' : Stranger(s.connect_id, s.sid)
    BY <1>1, <1>5 DEF NotMine
  <2> QED
    BY <1>1, <1>6, <1>7, <2>1, NotMineKeeps
<1>18. \A r : r \in Nat /\ Passed(r) => r # h.id
  BY <1>2, <1>4 DEF Passed
<1>19. /\ \A s \in async_sessions_ : \A x \in s.sent : x.req # h.id
       /\ \A i \in DOMAIN queueQ : Answer(queueQ[i]) => queueQ[i].req # h.id
       /\ ~Delivers(h.id)
  <2>1. \A s \in async_sessions_ : \A x \in s.sent : x.req # h.id
    <3> SUFFICES ASSUME NEW s \in async_sessions_, NEW x \in s.sent PROVE x.req # h.id
      OBVIOUS
    <3>1. x.req \in Nat
      BY <1>1, SessionFields, IdNumbers
    <3>2. [req |-> x.req, sid |-> s.sid] \in Sent
      BY InSets
    <3>3. Passed(x.req)
      BY <1>1, <3>2 DEF Earlier
    <3> QED
      BY <1>18, <3>1, <3>3
  <2>2. \A i \in DOMAIN queueQ : Answer(queueQ[i]) => queueQ[i].req # h.id
    <3> SUFFICES ASSUME NEW i \in DOMAIN queueQ, Answer(queueQ[i]) PROVE queueQ[i].req # h.id
      OBVIOUS
    <3>1. queueQ[i].req \in Nat
      BY <1>1, QueueFacts, GoodMsgFields, MessageFields, IdNumbers
    <3>2. [req |-> queueQ[i].req, sid |-> queueQ[i].sid] \in Come
      BY InSets
    <3>3. Passed(queueQ[i].req)
      BY <1>1, <3>2 DEF Earlier
    <3> QED
      BY <1>18, <3>1, <3>3
  <2>3. ~Delivers(h.id)
    <3> SUFFICES ASSUME NEW u \in Users, NEW i \in DOMAIN userQ[u], Answer(userQ[u][i]),
                        userQ[u][i].req = h.id
                 PROVE  FALSE
      BY DEF Delivers
    <3>1. Passed(userQ[u][i].req)
      BY <1>1 DEF Earlier
    <3> QED
      BY <1>4, <1>18, <3>1
  <2> QED
    BY <2>1, <2>2, <2>3
<1>20. \A s \in async_sessions_' : \A x \in s.sent :
          \/ x = y /\ s.sid = h.sid
          \/ x.req # h.id /\ \E o \in async_sessions_ : o.sid = s.sid /\ x \in o.sent
  <2> SUFFICES ASSUME NEW s \in async_sessions_', NEW x \in s.sent
               PROVE  \/ x = y /\ s.sid = h.sid
                      \/ x.req # h.id /\ \E o \in async_sessions_ : o.sid = s.sid /\ x \in o.sent
    OBVIOUS
  <2>1. PICK o \in async_sessions_ :
         /\ s.sid = o.sid
         /\ s.sent = o.sent \/ (o.sid = h.sid /\ s.sent = o.sent \cup {y})
    BY <1>5
  <2> QED
    BY <1>19, <2>1
<1>21. \A i \in DOMAIN queueQ' : Answer(queueQ'[i]) => i \in DOMAIN queueQ /\ queueQ'[i] = queueQ[i]
  <2>1. \A i \in DOMAIN queueQ' : i + 0 = i
    BY <1>1, QueueFactsNext
  <2> QED
    BY <1>7, <2>1 DEF Moved
<1>22. \A r : Delivers(r)' <=> Delivers(r)
  BY <1>6 DEF Delivers, Answer
<1>23. Once'
  <2>1. \A s, o \in async_sessions_' : \A x \in s.sent, z \in o.sent : x.req = z.req => s = o /\ x = z
    <3> SUFFICES ASSUME NEW s \in async_sessions_', NEW o \in async_sessions_', NEW x \in s.sent,
                        NEW z \in o.sent, x.req = z.req
                 PROVE  s.sid = o.sid /\ x = z
      BY <1>1 DEF OneSession
    <3>1. y.req = h.id
      BY <1>2
    <3>2. CASE x = y /\ s.sid = h.sid
      BY <1>20, <3>1, <3>2
    <3>3. CASE x.req # h.id /\ \E a \in async_sessions_ : a.sid = s.sid /\ x \in a.sent
      <4>1. PICK a \in async_sessions_ : a.sid = s.sid /\ x \in a.sent
        BY <3>3
      <4>2. PICK b \in async_sessions_ : b.sid = o.sid /\ z \in b.sent
        BY <1>20, <3>1, <3>3
      <4> QED
        BY <1>1, <4>1, <4>2 DEF Once
    <3> QED
      BY <1>20, <3>2, <3>3
  <2>2. \A s \in async_sessions_' : \A x \in s.sent :
          \A i \in DOMAIN queueQ' : Answer(queueQ'[i]) => queueQ'[i].req # x.req
    BY <1>1, <1>2, <1>19, <1>20, <1>21 DEF Once
  <2>3. \A s \in async_sessions_' : \A x \in s.sent : \A r : r = x.req => ~Delivers(r)'
    BY <1>1, <1>2, <1>19, <1>20, <1>22 DEF Once
  <2>4. \A i, j \in DOMAIN queueQ' :
          Answer(queueQ'[i]) /\ Answer(queueQ'[j]) /\ queueQ'[i].req = queueQ'[j].req => i = j
    BY <1>1, <1>21 DEF Once
  <2>5. \A i \in DOMAIN queueQ' : Answer(queueQ'[i]) => \A r : r = queueQ'[i].req => ~Delivers(r)'
    BY <1>1, <1>21, <1>22 DEF Once
  <2> QED
    BY <2>1, <2>2, <2>3, <2>4, <2>5, OnceIs
<1>24. Steady
  BY <1>6 DEF Steady
<1> QED
  BY <1>3, <1>6, <1>7, <1>11, <1>13, <1>15, <1>16, <1>17, <1>23, <1>24, AQuiet

(* Tasks of the same session are of the same user.                         *)
LEMMA SameHandle ==
    ASSUME IInv, HInv, NEW t \in Live, NEW r \in Live, t.type # "REQ_CONNECT_SERVER",
           r.type # "REQ_CONNECT_SERVER", t.sid = r.sid
    PROVE  t.owner = r.owner
<1>1. Typed /\ Holder /\ OneClaim
  BY DEF IInv, HInv
<1>2. t.owner \in Users /\ r.owner \in Users /\ t.sid \in {NULL_SESSION_ID} \cup SessionIds
  BY <1>1, LiveGood, TaskFields
<1>3. t.sid # NULL_SESSION_ID /\ t.sid = user[t.owner].handle /\ t.sid = user[r.owner].handle
  BY <1>1 DEF Holder
<1>4. Claims(t.owner, t.sid) /\ Claims(r.owner, t.sid)
  BY <1>3 DEF Claims
<1> QED
  BY <1>1, <1>2, <1>3, <1>4 DEF OneClaim

(* The users' queues after a message was delivered.                        *)
LEMMA AppendUserQ ==
    ASSUME Typed, NEW u \in Users, NEW m \in Message,
           userQ' = [userQ EXCEPT ![u] = Append(userQ[u], m)]
    PROVE  \A v \in Users : \A i \in DOMAIN userQ'[v] :
               \/ \E j \in DOMAIN userQ[v] : userQ'[v][i] = userQ[v][j]
               \/ v = u /\ userQ'[v][i] = m
<1>1. userQ[u] \in Seq(Message) /\ userQ \in [Users -> Seq(Message)]
  BY DEF Typed
<1>2. userQ'[u] = Append(userQ[u], m) /\ \A v \in Users : v # u => userQ'[v] = userQ[v]
  BY <1>1
<1>3. \A i \in DOMAIN userQ'[u] :
             \/ userQ'[u][i] = m
             \/ i \in DOMAIN userQ[u] /\ userQ'[u][i] = userQ[u][i]
  BY <1>1, <1>2
<1> QED
  BY <1>2, <1>3

(* A task takes a message: the answer to itself, or one that its session   *)
(* still owed to an earlier request.                                       *)
LEMMA TakesOwn ==
    ASSUME IInv, HInv, AInv, 1 \in DOMAIN queueQ, News(queueQ[1]),
           queueQ[1].type # "RES_SESSION_NOT_FOUND",
           NEW t \in tasks_, HandleMessage(t, queueQ[1]), NEW m \in Message, m.id = t.id,
           m.sid = queueQ[1].sid, m.type = queueQ[1].type, m.req = queueQ[1].req
    PROVE  Delivery(t.owner, m)
<1>1. Typed /\ Unique /\ Holder /\ Owed /\ Latest /\ Earlier /\ NotMine /\ Current
  BY DEF IInv, HInv, AInv
<1>2. PICK u, h : u = t.owner /\ h = queueQ[1]
  OBVIOUS
<1>3. t \in GoodTask(unequal_task_id_) /\ t \in Live
  BY <1>1, InLive DEF Typed
<1>4. u \in Users /\ t.id \in Nat /\ t.id > 2 /\ t.id <= unequal_task_id_
  BY <1>2, <1>3, TaskFields, IdNumbers
<1>5. Answer(m) => Asks(t) /\ m.sid = t.sid
  <2> SUFFICES ASSUME Answer(h) PROVE Asks(t) /\ h.sid = t.sid
    BY <1>2 DEF Answer
  <2>1. h.id = 0
    BY <1>1, <1>2 DEF Earlier
  <2> QED
    BY <1>2, <1>4, <2>1 DEF HandleMessage, Asks
<1>6. Asks(t) => Answer(m) /\ m.sid = t.sid
  <2> SUFFICES ASSUME Asks(t) PROVE Answer(h) /\ h.sid = t.sid
    BY <1>2 DEF Answer
  <2>1. Stranger(h.id, h.sid)
    BY <1>1, <1>2 DEF NotMine
  <2>2. ~(h.id = t.id /\ h.sid = t.sid)
    BY <2>1 DEF Stranger
  <2> QED
    BY <1>2, <2>2 DEF HandleMessage, Asks, Answer
<1>7. user[u].pc # "idle" => t.id <= user[u].task.id
  BY <1>1, <1>2, <1>3 DEF Current
<1>8. ASSUME Answer(m) PROVE m.req <= m.id /\ (m.sid \in owed \/ m.req = m.id)
  <2>1. PICK p : p = [req |-> h.req, sid |-> h.sid]
    OBVIOUS
  <2>2. Asks(t) /\ p.sid = t.sid /\ p.req = m.req /\ p.sid = m.sid /\ Answer(h)
    BY <1>2, <1>5, <1>8, <2>1 DEF Answer
  <2>3. p \in Out
    BY <1>2, <2>1, <2>2, InSets DEF Out
  <2>4. m.req <= t.id
    BY <1>1, <2>2, <2>3 DEF Latest, Asks
  <2>5. ASSUME Waits(p) PROVE m.req = t.id
    <3>1. PICK v \in Users : /\ user[v].pc = "wait" /\ user[v].task.id = p.req
                             /\ user[v].task.sid = p.sid /\ Asks(user[v].task)
      BY <2>5 DEF Waits
    <3>2. user[v].task \in Live /\ user[v].task.owner = v
      BY <1>1, <3>1, InLive DEF Typed, GoodUser
    <3>3. t.owner = v
      <4>1. PICK r : r = user[v].task
        OBVIOUS
      <4>2. r \in Live /\ r.type # "REQ_CONNECT_SERVER" /\ t.type # "REQ_CONNECT_SERVER" /\ t.sid = r.sid
        BY <2>2, <3>1, <3>2, <4>1 DEF Asks
      <4>3. t.owner = r.owner
        BY <1>3, <4>2, SameHandle
      <4> QED
        BY <3>2, <4>1, <4>3
    <3>4. t.id <= m.req
      BY <1>2, <1>7, <2>2, <3>1, <3>3
    <3>5. m.req \in Nat
      BY MessageFields, IdNumbers
    <3> QED
      BY <1>4, <2>4, <3>4, <3>5
  <2>6. m.sid \in owed \/ Waits(p)
    BY <1>1, <2>2, <2>3 DEF Owed
  <2> QED
    BY <2>4, <2>5, <2>6
<1>9. user[u].pc # "idle" /\ m.id = user[u].task.id => user[u].task = t
  BY <1>1, <1>3, <1>4, InLive DEF Unique
<1> QED
  BY <1>2, <1>4, <1>5, <1>6, <1>7, <1>8, <1>9 DEF Delivery

(* A response is delivered.                                                *)
LEMMA ToSyncAInv ==
    ASSUME IInv, IInv', HInv, HInv', AInv, OntranslateToSyncLayer PROVE AInv'
<1>1. /\ Typed /\ Typed' /\ Order /\ Unique /\ OneSession /\ OneSession' /\ Once /\ NotMine
      /\ Earlier /\ Delivered
  BY DEF IInv, HInv, AInv
<1>2. /\ 1 \in DOMAIN queueQ /\ News(queueQ[1]) /\ Moved(queueQ, queueQ', 1, {})
      /\ queueQ[1].type # "RES_SESSION_NOT_FOUND"
  BY <1>1, ToSyncTyped
<1>3. UNCHANGED <<unequal_task_id_, user, asyncQ, tasks_, async_sessions_, owed>>
  BY Zenon DEF OntranslateToSyncLayer, history
<1>4. CASE userQ' = userQ
  <2>1. \A s \in async_sessions_' :
               \E o \in async_sessions_ : s.sid = o.sid /\ s.connect_id = o.connect_id /\ s.sent = o.sent
    BY <1>3
  <2>2. PICK d, e : d = 1 /\ e = 0
    OBVIOUS
  <2>3. Moved(asyncQ, asyncQ', e, {})
    BY <1>1, <1>3, <2>2, NotMoved
  <2> QED
    BY <1>2, <1>3, <1>4, <2>1, <2>2, <2>3, AsyncAInv
<1>5. ASSUME NEW t \in tasks_, NEW m \in Message, HandleMessage(t, queueQ[1]), m.id = t.id,
             m.sid = queueQ[1].sid, m.type = queueQ[1].type, m.req = queueQ[1].req,
             userQ' = [userQ EXCEPT ![t.owner] = Append(userQ[t.owner], m)]
      PROVE  AInv'
  <2>1. t.owner \in Users
    BY <1>1, TaskFields DEF Typed
  <2>2. \A v \in Users : \A i \in DOMAIN userQ'[v] :
               \/ \E j \in DOMAIN userQ[v] : userQ'[v][i] = userQ[v][j]
               \/ v = t.owner /\ userQ'[v][i] = m
    BY <1>1, <1>5, <2>1, AppendUserQ
  <2>3. Delivery(t.owner, m)
    BY <1>2, <1>5, TakesOwn
  <2>4. Delivered'
    <3>1. \A u \in Users : \A i \in DOMAIN userQ'[u] : \A x : x = userQ'[u][i] => Delivery(u, x)
      BY <1>1, <2>2, <2>3 DEF Delivered
    <3>2. \A u \in Users : \A x : Delivery(u, x) => Delivery(u, x)'
      BY <1>3, DeliveryKeeps
    <3>3. \A u \in Users : \A i \in DOMAIN userQ'[u] : \A x : x = userQ'[u][i] => Delivery(u, x)'
      BY <3>1, <3>2
    <3> QED
      BY <3>3, DeliveredIs
  <2>5. Answer(m) <=> Answer(queueQ[1])
    BY <1>5 DEF Answer
  <2>6. Answer(m) => Passed(m.req)
    <3>1. Answer(m) => [req |-> m.req, sid |-> m.sid] \in Come
      BY <1>2, <1>5, <2>5, InSets
    <3> QED
      BY <1>1, <3>1 DEF Earlier
  <2>7. PICK d, e : d = 1 /\ e = 0
    OBVIOUS
  <2>8. Moved(asyncQ, asyncQ', e, {})
    BY <1>1, <1>3, <2>7, NotMoved
  <2>9. Come' \subseteq Come /\ Sent' = Sent
    BY <1>2, <1>3, ComeMoves DEF Sent
  <2>10. Out' \subseteq Out
    BY <2>8, <2>9, PostedMoves DEF Out
  <2>11. Earlier'
    <3>1. \A v \in Users : \A i \in DOMAIN userQ'[v] :
               \/ \E j \in DOMAIN userQ[v] : userQ'[v][i] = userQ[v][j]
               \/ Answer(userQ'[v][i]) => Passed(userQ'[v][i].req)
      BY <2>2, <2>6
    <3>2. \A p \in Sent' \cup Come' : p \in Sent \cup Come
      BY <2>9
    <3> QED
      BY <1>1, <1>2, <1>3, <2>7, <2>8, <3>1, <3>2, EarlierQuiet
  <2>12. NotMine'
    <3>1. \A s \in async_sessions_' : Stranger(s.connect_id, s.sid)
      BY <1>1, <1>3 DEF NotMine
    <3> QED
      BY <1>1, <1>2, <1>3, <3>1, NotMineKeeps
  <2>13. \A r : Delivers(r)' => Delivers(r) \/ (Answer(queueQ[1]) /\ r = queueQ[1].req)
    <3> SUFFICES ASSUME NEW r, NEW v \in Users, NEW i \in DOMAIN userQ'[v], Answer(userQ'[v][i]),
                        userQ'[v][i].req = r
                 PROVE  Delivers(r) \/ (Answer(queueQ[1]) /\ r = queueQ[1].req)
      BY DEF Delivers, Answer
    <3>1. CASE \E j \in DOMAIN userQ[v] : userQ'[v][i] = userQ[v][j]
      BY <3>1 DEF Delivers
    <3>2. CASE userQ'[v][i] = m
      BY <1>5, <2>5, <3>2
    <3> QED
      BY <2>2, <3>1, <3>2
  <2>14. \A i \in DOMAIN queueQ' : i + 1 \in DOMAIN queueQ /\ queueQ'[i] = queueQ[i + 1] /\ i + 1 # 1
    <3>1. \A i \in DOMAIN queueQ' : i \in Nat /\ i # 0
      BY <1>1, QueueFactsNext
    <3> QED
      BY <1>2, <3>1 DEF Moved
  <2>15. Once'
    <3>1. \A s, o \in async_sessions_' : \A x \in s.sent, z \in o.sent : x.req = z.req => s = o /\ x = z
      BY <1>1, <1>3 DEF Once
    <3>2. \A s \in async_sessions_' : \A x \in s.sent :
            \A i \in DOMAIN queueQ' : Answer(queueQ'[i]) => queueQ'[i].req # x.req
      BY <1>1, <1>3, <2>14 DEF Once
    <3>3. \A s \in async_sessions_' : \A x \in s.sent : \A r : r = x.req => ~Delivers(r)'
      BY <1>1, <1>2, <1>3, <2>13 DEF Once
    <3>4. \A i, j \in DOMAIN queueQ' :
            Answer(queueQ'[i]) /\ Answer(queueQ'[j]) /\ queueQ'[i].req = queueQ'[j].req => i = j
      <4> SUFFICES ASSUME NEW i \in DOMAIN queueQ', NEW j \in DOMAIN queueQ', Answer(queueQ'[i]),
                          Answer(queueQ'[j]), queueQ'[i].req = queueQ'[j].req
                   PROVE  i = j
        OBVIOUS
      <4>1. i + 1 = j + 1
        BY <1>1, <2>14 DEF Once
      <4>2. i \in Nat /\ j \in Nat
        BY <1>1, QueueFactsNext
      <4> QED
        BY <4>1, <4>2
    <3>5. \A i \in DOMAIN queueQ' : Answer(queueQ'[i]) => \A r : r = queueQ'[i].req => ~Delivers(r)'
      BY <1>1, <1>2, <2>13, <2>14 DEF Once
    <3> QED
      BY <3>1, <3>2, <3>3, <3>4, <3>5, OnceIs
  <2>16. Steady
    BY <1>3 DEF Steady
  <2> QED
    BY <1>2, <1>3, <2>4, <2>7, <2>8, <2>10, <2>11, <2>12, <2>15, <2>16, AQuiet
<1> QED
  BY <1>1, <1>4, <1>5, ToSyncTyped

(* A wait ends: the answer that was taken is the one to the task, unless   *)
(* the session owes an earlier one.                                        *)
LEMMA WaitAInv ==
    ASSUME IInv, IInv', HInv, HInv', AInv, NEW u \in Users, WaitGet(u) \/ WaitTimeout(u)
    PROVE  AInv'
<1>1. /\ Typed /\ Typed' /\ OneSession' /\ Owed /\ Latest /\ Earlier /\ Once /\ Delivered
      /\ NotMine /\ Current /\ Held /\ AnswerIsOwn
  BY DEF IInv, HInv, AInv
<1>2. /\ user'[u].task = user[u].task /\ user[u].pc = "wait"
      /\ \A v \in Users : v # u => user'[v] = user[v]
  BY <1>1, WaitGetTyped, WaitTimeoutTyped DEF WaitGet, WaitTimeout
<1>3. UNCHANGED <<unequal_task_id_, queueQ, asyncQ, tasks_, async_sessions_>> /\ owed \subseteq owed'
  BY DEF WaitGet, WaitTimeout
<1>4. \A v \in Users : \A i \in DOMAIN userQ'[v] :
               \E j \in DOMAIN userQ[v] : userQ'[v][i] = userQ[v][j]
  BY <1>1, WaitQueues
<1>5. \A v \in Users : user'[v].pc # "idle" => user[v].pc # "idle" /\ user'[v].task = user[v].task
  BY <1>2
<1>6. PICK d, e : d = 0 /\ e = 0
  OBVIOUS
<1>7. Moved(queueQ, queueQ', d, {}) /\ Moved(asyncQ, asyncQ', e, {})
  BY <1>1, <1>3, <1>6, NotMoved
<1>8. Asked' = Asked /\ Out' = Out /\ Sent' = Sent /\ Come' = Come
  BY <1>3 DEF Asked, Out, Posted, Sent, Come, Sends, Answer
<1>9. Latest'
  BY <1>1, <1>3, <1>8, LatestKeeps
<1>10. Earlier'
  BY <1>1, <1>3, <1>4, <1>6, <1>7, <1>8, EarlierQuiet
<1>11. Once'
  <2>1. \A s \in async_sessions_' : \E o \in async_sessions_ : s.sid = o.sid /\ s.sent = o.sent
    BY <1>3
  <2>2. DOMAIN queueQ' \subseteq Nat
    BY <1>1, QueueFactsNext
  <2> QED
    BY <1>1, <1>4, <1>6, <1>7, <2>1, <2>2, OnceKeeps
<1>12. Delivered'
  BY <1>1, <1>3, <1>4, <1>5, DeliveredKeeps
<1>13. NotMine'
  <2>1. \A s \in async_sessions_' : Stranger(s.connect_id, s.sid)
    BY <1>1, <1>3 DEF NotMine
  <2> QED
    BY <1>1, <1>3, <1>7, <2>1, NotMineKeeps
<1>14. Current'
  <2>1. Live' \subseteq Live
    BY <1>3, <1>5, <1>7, LiveQuiet
  <2> QED
    BY <1>1, <1>5, <2>1, CurrentKeeps
<1>15. user[u].task \in GoodTask(unequal_task_id_) /\ user[u].task.id \in Nat
  <2>1. user[u].task \in GoodTask(unequal_task_id_)
    BY <1>1, <1>2 DEF Typed, GoodUser
  <2> QED
    BY <2>1, TaskFields, IdNumbers
<1>16. ASSUME \/ user[u].task.sid \in owed'
              \/ user'[u].pc = "wait"
              \/ ~ Asks(user[u].task)
              \/ [req |-> user[u].task.id, sid |-> user[u].task.sid] \notin Asked \cup Out
       PROVE  Owed'
  <2>1. \A v \in Users : user[v].pc = "wait" =>
              \/ user'[v].pc = "wait" /\ user'[v].task = user[v].task
              \/ user[v].task.sid \in owed'
              \/ ~ Asks(user[v].task)
              \/ [req |-> user[v].task.id, sid |-> user[v].task.sid] \notin Asked' \cup Out'
    <3> SUFFICES ASSUME NEW v \in Users, user[v].pc = "wait"
                 PROVE  \/ user'[v].pc = "wait" /\ user'[v].task = user[v].task
                        \/ user[v].task.sid \in owed'
                        \/ ~ Asks(user[v].task)
                        \/ [req |-> user[v].task.id, sid |-> user[v].task.sid] \notin Asked' \cup Out'
      OBVIOUS
    <3>1. CASE v = u
      BY <1>2, <1>8, <1>16, <3>1
    <3>2. CASE v # u
      BY <1>2, <3>2
    <3> QED
      BY <3>1, <3>2
  <2>2. Asked' \cup Out' \subseteq Asked \cup Out
    BY <1>8
  <2> QED
    BY <1>1, <1>3, <2>1, <2>2, OwedKeeps
<1>17. ASSUME user'[u].msg # None /\ Answer(user'[u].msg) =>
                 /\ user'[u].msg.req <= user[u].task.id
                 /\ user'[u].pc = "done" =>
                      \/ user'[u].msg.req = user[u].task.id
                      \/ user[u].task.sid \in owed'
       PROVE  Held' /\ AnswerIsOwn'
  <2>1. user'[u].msg # None => user'[u].msg.req \in Nat
    <3>1. user'[u].msg # None => user'[u].msg \in Message
      BY <1>1 DEF Typed, UserState
    <3> QED
      BY <3>1, MessageFields, IdNumbers
  <2>2. Held'
    BY <1>1, <1>2, <1>17 DEF Held, Answer
  <2>3. \A v \in Users :
          user'[v].pc = "done" /\ user'[v].msg # None /\ user'[v].msg.type = "RES_STANZA_EVENT"
          => \/ user'[v].msg.req = user'[v].task.id
             \/ user'[v].task.sid \in owed' /\ user'[v].msg.req < user'[v].task.id
    <3> TAKE v \in Users
    <3>1. CASE v = u
      BY <1>2, <1>15, <1>17, <2>1, <3>1 DEF Answer
    <3>2. CASE v # u
      BY <1>1, <1>2, <1>3, <3>2 DEF AnswerIsOwn
    <3> QED
      BY <3>1, <3>2
  <2> QED
    BY <2>2, <2>3 DEF AnswerIsOwn
<1>18. CASE WaitTimeout(u)
  <2>1. user[u].task.sid \in owed' /\ user'[u].msg = user[u].msg /\ user'[u].pc = "done"
    BY <1>1, <1>18, WaitTimeoutTyped DEF WaitTimeout
  <2>2. Owed'
    BY <1>16, <2>1
  <2>3. Held' /\ AnswerIsOwn'
    <3>1. user'[u].msg # None /\ Answer(user'[u].msg) => user'[u].msg.req <= user[u].task.id
      BY <1>1, <1>2, <2>1 DEF Held
    <3> QED
      BY <1>17, <2>1, <3>1
  <2> QED
    BY <1>9, <1>10, <1>11, <1>12, <1>13, <1>14, <2>2, <2>3 DEF AInv
<1>19. CASE WaitGet(u)
  <2>1. PICK m : m = userQ[u][1]
    OBVIOUS
  <2>2. /\ 1 \in DOMAIN userQ[u] /\ user'[u].msg = m
        /\ user'[u].pc = (IF m.id = user[u].task.id THEN "done" ELSE "wait")
    BY <1>1, <1>19, <2>1, WaitGetTyped
  <2>3. m \in Message /\ m.id \in Nat /\ m.req \in Nat
    <3>1. userQ[u] \in Seq(Message)
      BY <1>1 DEF Typed
    <3>2. m \in Message
      BY <2>1, <2>2, <3>1
    <3>3. m.id \in Nat /\ m.req \in Nat
      BY <3>2, MessageFields, IdNumbers
    <3> QED
      BY <3>2, <3>3
  <2>4. Delivery(u, m)
    BY <1>1, <2>1, <2>2 DEF Delivered
  <2>5. /\ Answer(m) => m.req <= m.id /\ (m.sid \in owed \/ m.req = m.id)
        /\ m.id <= user[u].task.id
        /\ m.id = user[u].task.id =>
              /\ Answer(m) <=> Asks(user[u].task)
              /\ Asks(user[u].task) => m.sid = user[u].task.sid
    BY <1>2, <2>4 DEF Delivery
  <2>6. Held' /\ AnswerIsOwn'
    <3>1. Answer(m) => m.req <= user[u].task.id
      BY <1>15, <2>3, <2>5
    <3>2. Answer(m) /\ m.id = user[u].task.id => m.req = user[u].task.id \/ user[u].task.sid \in owed'
      BY <1>3, <2>5
    <3> QED
      BY <1>17, <2>2, <2>3, <3>1, <3>2
  <2>7. ASSUME m.id = user[u].task.id, Asks(user[u].task), m.sid \notin owed
        PROVE  [req |-> user[u].task.id, sid |-> user[u].task.sid] \notin Asked \cup Out
    <3>1. Answer(m) /\ m.req = user[u].task.id
      BY <2>5, <2>7
    <3>2. Passed(m.req) /\ Delivers(m.req)
      BY <1>1, <2>1, <2>2, <3>1 DEF Earlier, Delivers
    <3>3. \A p \in Asked \cup Posted : p.req # m.req
      BY <2>3, <3>2 DEF Asked, Posted, Sends, Passed, Req, ReqType
    <3>4. \A p \in Come : p.req # m.req
      BY <1>1, <3>2 DEF Come, Once
    <3>5. \A p \in Sent : p.req # m.req
      <4> SUFFICES ASSUME NEW p \in Sent PROVE p.req # m.req
        OBVIOUS
      <4>1. PICK s \in async_sessions_ : p \in {[req |-> x.req, sid |-> s.sid] : x \in s.sent}
        BY DEF Sent
      <4>2. PICK x \in s.sent : p = [req |-> x.req, sid |-> s.sid]
        BY <4>1
      <4> QED
        BY <1>1, <3>2, <4>2 DEF Once
    <3> QED
      BY <3>1, <3>3, <3>4, <3>5 DEF Out
  <2>8. Owed'
    BY <1>3, <1>16, <2>2, <2>5, <2>7
  <2> QED
    BY <1>9, <1>10, <1>11, <1>12, <1>13, <1>14, <2>6, <2>8 DEF AInv
<1> QED
  BY <1>18, <1>19

(* The ids of requests on their way are numbers.                           *)
LEMMA OutNumbers ==
    ASSUME Typed PROVE \A p \in Asked \cup Out : p.req \in Nat
<1>1. \A p \in Asked \cup Posted : p.req \in Nat
  BY QueueFacts, GoodMsgFields, AsyncMsgFields DEF Asked, Posted, Sends
<1>2. \A p \in Come : p.req \in Nat
  BY QueueFacts, GoodMsgFields, MessageFields, IdNumbers DEF Come
<1>3. \A p \in Sent : p.req \in Nat
  <2> SUFFICES ASSUME NEW p \in Sent PROVE p.req \in Nat
    OBVIOUS
  <2>1. PICK s \in async_sessions_ : p \in {[req |-> x.req, sid |-> s.sid] : x \in s.sent}
    BY DEF Sent
  <2>2. PICK x \in s.sent : p = [req |-> x.req, sid |-> s.sid]
    BY <2>1
  <2> QED
    BY <2>2, SessionFields, IdNumbers
<1> QED
  BY <1>1, <1>2, <1>3 DEF Out

(* A task enters tasks_: it is later than every request that is out, and   *)
(* no other task of its session is there.                                  *)
LEMMA TranslateAInv ==
    ASSUME IInv, IInv', HInv, HInv', AInv, OnTranslateToAsyncLayer PROVE AInv'
<1>1. /\ Typed /\ Typed' /\ Order /\ Serial /\ Past /\ OneSession' /\ Owed /\ Latest /\ Earlier /\ Once
      /\ Delivered /\ NotMine /\ Current /\ Held /\ AnswerIsOwn
  BY DEF IInv, HInv, AInv
<1>2. PICK h, t, p : h = queueQ[1] /\ t = h.task /\ p = [req |-> h.id, sid |-> h.sid]
  OBVIOUS
<1>3. /\ 1 \in DOMAIN queueQ /\ Req(h) /\ Moved(queueQ, queueQ', 1, {})
      /\ Moved(asyncQ, asyncQ', 0, {h}) /\ tasks_' = tasks_ \cup {t}
      /\ h.id = t.id /\ h.type = t.type /\ h.sid = t.sid /\ t \in GoodTask(unequal_task_id_)
  BY <1>1, <1>2, TranslateTyped
<1>4. \A x \in tasks_ : ~Conflict(x, t)
  BY <1>1, <1>2, TranslateSerial
<1>5. UNCHANGED <<unequal_task_id_, user, userQ, async_sessions_, owed>>
  BY DEF OnTranslateToAsyncLayer, history
<1>6. t \in Live /\ t.id \in Nat
  BY <1>2, <1>3, InLive, TaskFields, IdNumbers
<1>7. Live' \subseteq Live
  <2>1. \A i \in DOMAIN queueQ' : Req(queueQ'[i]) =>
               \E j \in DOMAIN queueQ : Req(queueQ[j]) /\ queueQ'[i] = queueQ[j]
    BY <1>3 DEF Moved
  <2>2. \A i \in DOMAIN asyncQ' : asyncQ'[i].task \in Live
    BY <1>2, <1>3, <1>6, InLive DEF Moved
  <2>3. tasks_' \subseteq Live
    BY <1>3, <1>6, InLive
  <2>4. \A u \in Users : user'[u].pc # "idle" => user'[u].task \in Live
    BY <1>5, InLive
  <2> QED
    BY <2>1, <2>2, <2>3, <2>4, LiveSmaller
<1>8. Asked' \subseteq Asked /\ Come' \subseteq Come /\ Sent' = Sent
  BY <1>3, <1>5, AskedMoves, ComeMoves DEF Sent
<1>9. \A q \in Posted' : q \in Posted \/ (q = p /\ h.type = "REQ_SEND_REQUESTION")
  <2> SUFFICES ASSUME NEW i \in DOMAIN asyncQ', asyncQ'[i].type = "REQ_SEND_REQUESTION",
                      NEW q, q = [req |-> asyncQ'[i].id, sid |-> asyncQ'[i].sid]
               PROVE  q \in Posted \/ (q = p /\ h.type = "REQ_SEND_REQUESTION")
    BY DEF Posted, Sends
  <2>1. CASE asyncQ'[i] = h
    BY <1>2, <2>1
  <2>2. ASSUME NEW j \in DOMAIN asyncQ, asyncQ'[i] = asyncQ[j] PROVE q \in Posted
    BY <2>2, InSets
  <2> QED
    BY <1>3, <2>1, <2>2 DEF Moved
<1>10. \A q \in Out' : q \in Out \/ (q = p /\ h.type = "REQ_SEND_REQUESTION")
  BY <1>8, <1>9 DEF Out
<1>11. h.type = "REQ_SEND_REQUESTION" => p \in Asked
  BY <1>2, <1>3, InSets
<1>12. Owed'
  <2>1. Asked' \cup Out' \subseteq Asked \cup Out
    BY <1>8, <1>10, <1>11
  <2>2. \A u \in Users : user[u].pc = "wait" => user'[u].pc = "wait" /\ user'[u].task = user[u].task
    BY <1>5
  <2> QED
    BY <1>1, <1>5, <2>1, <2>2, OwedKeeps
<1>13. \A q \in Out : q.req <= t.id
  <2> SUFFICES ASSUME NEW q \in Out PROVE q.req < t.id
    BY <1>1, <1>6, OutNumbers
  <2>1. CASE q \in Posted
    BY <1>1, <1>2, <1>3, <2>1 DEF Posted, Sends, Order
  <2>2. CASE q \in Sent \cup Come
    BY <1>1, <1>2, <1>3, <2>2 DEF Earlier, Passed
  <2> QED
    BY <2>1, <2>2 DEF Out
<1>14. Latest'
  <2> SUFFICES ASSUME NEW x \in tasks_', x.type = "REQ_SEND_REQUESTION", NEW q \in Out', q.sid = x.sid
               PROVE  q.req <= x.id
    BY DEF Latest
  <2>1. CASE x = t
    BY <1>2, <1>3, <1>6, <1>10, <1>13, <2>1
  <2>2. CASE x \in tasks_ /\ q \in Out
    BY <1>1, <2>2 DEF Latest
  <2>3. CASE x \in tasks_ /\ q = p /\ h.type = "REQ_SEND_REQUESTION"
    <3>1. x \in Live /\ x.sid = t.sid /\ t.type = "REQ_SEND_REQUESTION"
      BY <1>2, <1>3, <2>3, InLive
    <3>2. x.owner = t.owner
      BY <1>6, <3>1, SameHandle
    <3> QED
      BY <1>4, <2>3, <3>2 DEF Conflict
  <2> QED
    BY <1>3, <1>10, <2>1, <2>2, <2>3
<1>15. Earlier'
  <2>1. \A r : Passed(r) => Passed(r)'
    <3> SUFFICES ASSUME NEW r, Passed(r) PROVE Passed(r)'
      OBVIOUS
    <3>1. r < h.id
      BY <1>2, <1>3 DEF Passed
    <3>2. \A i \in DOMAIN asyncQ' : r < asyncQ'[i].id
      BY <1>3, <3>1 DEF Passed, Moved
    <3>3. \A i \in DOMAIN queueQ' : Req(queueQ'[i]) => r < queueQ'[i].id
      BY <1>3 DEF Passed, Moved
    <3> QED
      BY <1>5, <3>2, <3>3 DEF Passed, Req
  <2>2. \A q \in Sent' \cup Come' : \A r : r = q.req => Passed(r)'
    BY <1>1, <1>8, <2>1 DEF Earlier
  <2>3. \A u \in Users : \A i \in DOMAIN userQ'[u] : Answer(userQ'[u][i]) =>
              \A r : r = userQ'[u][i].req => Passed(r)'
    BY <1>1, <1>5, <2>1 DEF Earlier
  <2>4. \A i \in DOMAIN queueQ' : Answer(queueQ'[i]) => queueQ'[i].id = 0
    BY <1>1, <1>3 DEF Earlier, Moved
  <2> QED
    BY <2>2, <2>3, <2>4, EarlierKeeps
<1>16. \A u \in Users : \A i \in DOMAIN userQ'[u] :
               \E j \in DOMAIN userQ[u] : userQ'[u][i] = userQ[u][j]
  BY <1>5, SameQueues
<1>17. Once'
  <2>1. \A s \in async_sessions_' : \E o \in async_sessions_ : s.sid = o.sid /\ s.sent = o.sent
    BY <1>5
  <2>2. PICK d : d = 1
    OBVIOUS
  <2>3. DOMAIN queueQ' \subseteq Nat
    BY <1>1, QueueFactsNext
  <2> QED
    BY <1>1, <1>3, <1>16, <2>1, <2>2, <2>3, OnceKeeps
<1>18. Steady
  BY <1>5 DEF Steady
<1>19. Delivered' /\ Current' /\ Held' /\ AnswerIsOwn'
  BY <1>1, <1>5, <1>7, <1>16, <1>18, SteadyFacts, DeliveredKeeps, CurrentKeeps, HeldKeeps
<1>20. NotMine'
  <2>1. \A k \in Nat : OldId(k) => k # t.id
    BY <1>2, <1>3 DEF OldId
  <2>2. \A s \in async_sessions_' : \A x \in tasks_' :
           Asks(x) => ~(x.id = s.connect_id /\ x.sid = s.sid)
    <3> TAKE s \in async_sessions_'
    <3>1. Stranger(s.connect_id, s.sid) /\ OldId(s.connect_id) /\ s.connect_id \in Nat
      BY <1>1, <1>5, SessionFields DEF NotMine, Past
    <3> QED
      BY <1>3, <2>1, <3>1 DEF Stranger
  <2>3. \A i \in DOMAIN queueQ' : News(queueQ'[i]) /\ queueQ'[i].type # "RES_SESSION_NOT_FOUND" =>
           \A x \in tasks_' : Asks(x) => ~(x.id = queueQ'[i].id /\ x.sid = queueQ'[i].sid)
    <3> SUFFICES ASSUME NEW i \in DOMAIN queueQ', News(queueQ'[i]),
                        queueQ'[i].type # "RES_SESSION_NOT_FOUND", NEW x \in tasks_', Asks(x)
                 PROVE  ~(x.id = queueQ'[i].id /\ x.sid = queueQ'[i].sid)
      OBVIOUS
    <3>1. PICK j \in DOMAIN queueQ : queueQ'[i] = queueQ[j]
      BY <1>3 DEF Moved
    <3>2. Stranger(queueQ[j].id, queueQ[j].sid) /\ OldId(queueQ[j].id) /\ queueQ[j].id \in Nat
      BY <1>1, <3>1, QueueFacts, GoodMsgFields DEF NotMine, Past
    <3> QED
      BY <1>3, <2>1, <3>1, <3>2 DEF Stranger
  <2> QED
    BY <2>2, <2>3 DEF NotMine, Stranger, News, Asks
<1> QED
  BY <1>12, <1>14, <1>15, <1>17, <1>19, <1>20 DEF AInv

(* A new task: its id is later than everything that was ever answered.     *)
LEMMA StartAInv ==
    ASSUME IInv, IInv', HInv, HInv', AInv, NEW u \in Users, NEW t, Starts(u, t) PROVE AInv'
<1>1. /\ Typed /\ Typed' /\ OneSession' /\ Owed /\ Latest /\ Earlier /\ Once /\ Delivered /\ NotMine
      /\ Current /\ Held /\ AnswerIsOwn
  BY DEF IInv, HInv, AInv
<1>2. PICK M, p, new : /\ M = TaskStanza(t.type, t) /\ p = [req |-> t.id, sid |-> t.sid] /\ new = {M}
  OBVIOUS
<1>3. /\ M.type = t.type /\ M.id = t.id /\ M.sid = t.sid /\ Req(M) /\ ~News(M)
      /\ Moved(queueQ, queueQ', 0, new) /\ Live' \subseteq Live \cup {t}
  BY <1>1, <1>2, StartMoves
<1>4. ~Answer(M)
  BY <1>3 DEF Req, ReqType, Answer
<1>5. /\ user[u].pc = "idle" /\ user'[u].task = t /\ user'[u].pc = "wait" /\ user'[u].msg = None
      /\ \A v \in Users : v # u => user'[v] = user[v]
      /\ t.owner = u
      /\ t.push => t.sid \in owed'
  BY DEF Starts
<1>6. /\ unequal_task_id_ \in Nat /\ unequal_task_id_' = unequal_task_id_ + 1
      /\ t.id = unequal_task_id_ + 1
  BY <1>1 DEF Starts, Typed, FirstTask
<1>7. UNCHANGED <<userQ, asyncQ, tasks_, async_sessions_>> /\ owed \subseteq owed'
  BY DEF Starts
<1>8. Come' \subseteq Come
  BY <1>2, <1>3, <1>4, ComeMoves
<1>9. Sent' = Sent /\ Posted' = Posted
  BY <1>7 DEF Sent, Posted, Sends
<1>10. Out' \subseteq Out
  BY <1>8, <1>9 DEF Out
<1>11. \A q \in Asked' : q \in Asked \/ (q = p /\ t.type = "REQ_SEND_REQUESTION")
  <2> SUFFICES ASSUME NEW i \in DOMAIN queueQ', queueQ'[i].type = "REQ_SEND_REQUESTION",
                      NEW q, q = [req |-> queueQ'[i].id, sid |-> queueQ'[i].sid]
               PROVE  q \in Asked \/ (q = p /\ t.type = "REQ_SEND_REQUESTION")
    BY DEF Asked, Sends
  <2>1. CASE queueQ'[i] = M
    BY <1>2, <1>3, <2>1
  <2>2. ASSUME NEW j \in DOMAIN queueQ, queueQ'[i] = queueQ[j] PROVE q \in Asked
    BY <2>2, InSets
  <2> QED
    BY <1>2, <1>3, <2>1, <2>2 DEF Moved
<1>12. Owed'
  <2> SUFFICES ASSUME NEW q \in Asked' \cup Out' PROVE q.sid \in owed' \/ Waits(q)'
    BY DEF Owed
  <2>1. CASE q \in Asked \cup Out /\ q.sid \in owed
    BY <1>7, <2>1
  <2>2. CASE Waits(q)
    <3>1. PICK v \in Users : /\ user[v].pc = "wait" /\ user[v].task.id = q.req
                             /\ user[v].task.sid = q.sid /\ Asks(user[v].task)
      BY <2>2 DEF Waits
    <3>2. user'[v] = user[v]
      BY <1>5, <3>1
    <3> QED
      BY <3>1, <3>2 DEF Waits, Asks
  <2>3. CASE q = p /\ t.type = "REQ_SEND_REQUESTION"
    <3>1. CASE t.push
      BY <1>2, <1>5, <2>3, <3>1
    <3>2. CASE ~t.push
      <4>1. user'[u].pc = "wait" /\ user'[u].task.id = q.req /\ user'[u].task.sid = q.sid
            /\ Asks(user'[u].task)
        BY <1>2, <1>5, <2>3, <3>2 DEF Asks
      <4> QED
        BY <4>1 DEF Waits, Asks
    <3> QED
      BY <3>1, <3>2
  <2> QED
    BY <1>1, <1>10, <1>11, <2>1, <2>2, <2>3 DEF Owed
<1>13. Latest'
  BY <1>1, <1>7, <1>10, LatestKeeps
<1>14. \A v \in Users : \A i \in DOMAIN userQ[v] : userQ[v][i].req \in Nat /\ userQ[v][i].id \in Nat
  <2> TAKE v \in Users
  <2> TAKE i \in DOMAIN userQ[v]
  <2>1. userQ[v] \in Seq(Message)
    BY <1>1 DEF Typed
  <2>2. userQ[v][i] \in Message
    BY <2>1
  <2> QED
    BY <2>2, MessageFields, IdNumbers
<1>15. Earlier'
  <2>1. \A r \in Nat : Passed(r) => Passed(r)'
    <3> SUFFICES ASSUME NEW r \in Nat, Passed(r) PROVE Passed(r)'
      OBVIOUS
    <3>1. r <= unequal_task_id_' /\ r < M.id
      BY <1>3, <1>6 DEF Passed
    <3>2. \A i \in DOMAIN asyncQ' : r < asyncQ'[i].id
      BY <1>7 DEF Passed
    <3>3. \A i \in DOMAIN queueQ' : Req(queueQ'[i]) => r < queueQ'[i].id
      BY <1>2, <1>3, <3>1 DEF Passed, Moved
    <3> QED
      BY <3>1, <3>2, <3>3 DEF Passed, Req
  <2>2. \A q \in Sent' \cup Come' : q.req \in Nat /\ Passed(q.req)
    BY <1>1, <1>8, <1>9, OutNumbers DEF Earlier, Out
  <2>3. \A q \in Sent' \cup Come' : \A r : r = q.req => Passed(r)'
    BY <2>1, <2>2
  <2>4. \A v \in Users : \A i \in DOMAIN userQ'[v] : Answer(userQ'[v][i]) =>
              \A r : r = userQ'[v][i].req => Passed(r)'
    BY <1>1, <1>7, <1>14, <2>1 DEF Earlier
  <2>5. \A i \in DOMAIN queueQ' : Answer(queueQ'[i]) => queueQ'[i].id = 0
    BY <1>1, <1>2, <1>3, <1>4 DEF Earlier, Moved
  <2> QED
    BY <2>3, <2>4, <2>5, EarlierKeeps
<1>16. Once'
  <2>1. \A s \in async_sessions_' : \E o \in async_sessions_ : s.sid = o.sid /\ s.sent = o.sent
    BY <1>7
  <2>2. PICK d : d = 0
    OBVIOUS
  <2>3. DOMAIN queueQ' \subseteq Nat
    BY <1>1, QueueFactsNext
  <2> QED
    BY <1>1, <1>2, <1>3, <1>4, <1>7, <2>1, <2>2, <2>3, SameQueues, OnceKeeps
<1>17. Delivered'
  <2> SUFFICES ASSUME NEW v \in Users, NEW i \in DOMAIN userQ'[v], NEW m, m = userQ'[v][i]
               PROVE  Delivery(v, m)'
    BY DeliveredIs
  <2>1. m.id \in Nat /\ Delivery(v, m)
    BY <1>1, <1>7, <1>14 DEF Delivered
  <2>2. m.id <= unequal_task_id_' /\ m.id < t.id
    BY <1>6, <2>1 DEF Delivery
  <2>3. Answer(m) => m.req <= m.id /\ (m.sid \in owed' \/ m.req = m.id)
    BY <1>7, <2>1 DEF Delivery
  <2>4. CASE v = u
    <3>1. m.id <= t.id /\ m.id # t.id
      BY <1>6, <2>1, <2>2
    <3> QED
      BY <1>5, <2>2, <2>3, <2>4, <3>1 DEF Delivery, Answer
  <2>5. CASE v # u
    <3>1. user'[v] = user[v]
      BY <1>5, <2>5
    <3> QED
      BY <2>1, <2>2, <2>3, <3>1 DEF Delivery, Answer, Asks
  <2> QED
    BY <2>4, <2>5
<1>18. NotMine'
  <2>1. \A s \in async_sessions_' : Stranger(s.connect_id, s.sid)
    BY <1>1, <1>7 DEF NotMine
  <2>2. \A m \in new : ~News(m)
    BY <1>2, <1>3
  <2> QED
    BY <1>1, <1>3, <1>7, <2>1, <2>2, NotMineKeeps
<1>19. Current'
  <2> SUFFICES ASSUME NEW x \in Live', user'[x.owner].pc # "idle" PROVE x.id <= user'[x.owner].task.id
    BY DEF Current
  <2>1. CASE x = t
    BY <1>5, <1>6, <2>1
  <2>2. CASE x \in Live
    <3>1. x.owner \in Users /\ x.id \in Nat /\ x.id <= unequal_task_id_
      BY <1>1, <2>2, LiveGood, TaskFields, IdNumbers
    <3>2. CASE x.owner = u
      BY <1>5, <1>6, <3>1, <3>2
    <3>3. CASE x.owner # u
      BY <1>1, <1>5, <2>2, <3>1, <3>3 DEF Current
    <3> QED
      BY <3>2, <3>3
  <2> QED
    BY <1>3, <2>1, <2>2
<1>20. Held'
  BY <1>1, <1>5 DEF Held, Answer
<1>21. AnswerIsOwn'
  BY <1>1, <1>5, <1>7 DEF AnswerIsOwn
<1> QED
  BY <1>12, <1>13, <1>15, <1>16, <1>17, <1>18, <1>19, <1>20, <1>21 DEF AInv

(* The third layer holds initially.                                        *)
LEMMA InitAInv ==
    ASSUME Init PROVE AInv
<1>1. /\ queueQ = <<>> /\ asyncQ = <<>> /\ tasks_ = {} /\ async_sessions_ = {}
      /\ \A u \in Users : userQ[u] = <<>> /\ user[u].pc = "idle"
  BY DEF Init
<1>2. Asked = {} /\ Out = {} /\ Sent = {} /\ Come = {}
  BY <1>1 DEF Asked, Out, Posted, Sent, Come, Sends
<1>3. Live = {}
  BY <1>1 DEF Live
<1>4. Owed /\ Latest /\ Current /\ Held /\ AnswerIsOwn
  BY <1>1, <1>2, <1>3 DEF Owed, Latest, Current, Held, AnswerIsOwn
<1>5. Earlier /\ Once /\ Delivered /\ NotMine
  BY <1>1, <1>2 DEF Earlier, Once, Delivered, NotMine
<1> QED
  BY <1>4, <1>5 DEF AInv

(* Every step keeps the third layer.                                       *)
LEMMA NextAInv ==
    ASSUME IInv, IInv', HInv, HInv', AInv, [Next]_vars PROVE AInv'
<1>0. Typed
  BY DEF IInv
<1>1. ASSUME NEW u \in Users, UserCall(u) PROVE AInv'
  BY <1>0, <1>1, CallStarts, StartAInv
<1>2. ASSUME NEW u \in Users, WaitGet(u) \/ WaitTimeout(u) PROVE AInv'
  BY <1>2, WaitAInv
<1>4. ASSUME NEW u \in Users, Return(u) PROVE AInv'
  BY <1>4, ReturnAInv
<1>5. ASSUME NEW u \in Users, Opened(u) PROVE AInv'
  BY <1>5, OpenedAInv
<1>6. ASSUME NEW r \in scenario.connects, OnConnectMessage(r) PROVE AInv'
  BY <1>6, OnConnectAInv
<1>7. ASSUME OnDisconnectMessage PROVE AInv'
  BY <1>7, OnDisconnectAInv
<1>8. ASSUME OnRequestMessage PROVE AInv'
  BY <1>8, OnRequestAInv
<1>9. ASSUME NEW sid \in reconnects, NEW r \in scenario.connects, ReconnectTimer(sid, r)
      PROVE  AInv'
  <2>1. sid \in SessionIds
    BY <1>0, <1>9, ReconnectTimerTyped
  <2>2. /\ OnReconnectMessage(sid, r) /\ queueQ' = queueQ
        /\ UNCHANGED <<unequal_task_id_, user, userQ, asyncQ, tasks_, owed>>
    BY <1>9 DEF ReconnectTimer, history
  <2>3. PICK d : d = 0
    OBVIOUS
  <2>4. Moved(queueQ, queueQ', d, {})
    BY <1>0, <2>2, <2>3, NotMoved
  <2> QED
    BY <2>1, <2>2, <2>3, <2>4, ReconnectAInv
<1>10. ASSUME NEW s \in async_sessions_, OnConnectEvent(s) PROVE AInv'
  <2>1. PICK t \in Session : /\ t.sid = s.sid /\ t.connect_id = s.connect_id /\ t.sent = s.sent
                             /\ async_sessions_' = (async_sessions_ \ {s}) \cup {t}
    BY <1>0, <1>10, OnConnectEventTyped
  <2>2. PICK m : /\ Moved(queueQ, queueQ', 0, {m}) /\ News(m) /\ m.id = s.connect_id
                 /\ m.sid = s.sid /\ m.type # "RES_STANZA_EVENT"
    BY <1>0, <1>10, OnConnectEventTyped
  <2>3. UNCHANGED <<unequal_task_id_, user, userQ, asyncQ, tasks_, owed>>
    BY <1>10 DEF OnConnectEvent, history
  <2>4. \A x \in {m} : News(x) /\ x.id = s.connect_id /\ x.sid = s.sid /\ x.type # "RES_STANZA_EVENT"
    BY <2>2
  <2> QED
    BY <2>1, <2>2, <2>3, <2>4, DeviceAInv
<1>11. ASSUME NEW s \in async_sessions_, OnCloseEvent(s) \/ HeartbeatTimeout(s) PROVE AInv'
  <2>1. /\ queueQ' = queueQ \o ClosePosts(s)
        /\ \E t \in Session : /\ t.sid = s.sid /\ t.connect_id = s.connect_id /\ t.sent = s.sent
                              /\ async_sessions_' = (async_sessions_ \ {s}) \cup {t}
    BY <1>0, <1>11, OnCloseEventTyped
  <2>2. PICK a, b \in GoodMsg(unequal_task_id_) :
                /\ Moved(queueQ, queueQ', 0, {a, b})
                /\ \A m \in {a, b} : /\ News(m) /\ m.id = s.connect_id /\ m.sid = s.sid
                                     /\ m.type \notin {"RES_STANZA_EVENT", "RES_RECONNECT_EVENT"}
    BY <1>0, <2>1, ClosePosted
  <2>3. UNCHANGED <<unequal_task_id_, user, userQ, asyncQ, tasks_, owed>>
    BY <1>11 DEF OnCloseEvent, HeartbeatTimeout, history
  <2>4. \A x \in {a, b} : News(x) /\ x.id = s.connect_id /\ x.sid = s.sid
                          /\ x.type # "RES_STANZA_EVENT"
    BY <2>2
  <2> QED
    BY <2>1, <2>2, <2>3, <2>4, DeviceAInv
<1>12. ASSUME NEW s \in async_sessions_, NEW r \in s.sent, OnSessionPacketEvent(s, r) PROVE AInv'
  BY <1>12, PacketAInv
<1>13. ASSUME OnTranslateToAsyncLayer PROVE AInv'
  BY <1>13, TranslateAInv
<1>14. ASSUME OnRemoveTaskMessage PROVE AInv'
  BY <1>14, OnRemoveAInv
<1>15. ASSUME QueueRemoveSession \/ DropMessage PROVE AInv'
  <2>1. /\ 1 \in DOMAIN queueQ /\ Moved(queueQ, queueQ', 1, {})
        /\ async_sessions_' \subseteq async_sessions_
    BY <1>0, <1>15, QueueRemoveTyped
  <2>2. UNCHANGED <<unequal_task_id_, user, userQ, asyncQ, tasks_, owed>>
    BY <1>15 DEF QueueRemoveSession, DropMessage, history
  <2> QED
    BY <2>1, <2>2, QueueAInv
<1>16. ASSUME OntranslateToSyncLayer PROVE AInv'
  BY <1>16, ToSyncAInv
<1>17. ASSUME ReConnect PROVE AInv'
  <2>1. 1 \in DOMAIN queueQ /\ queueQ[1].type = "RES_RECONNECT_EVENT"
    BY <1>0, <1>17, ReConnectTyped, HeadOfQueue DEF ReConnect, QueueGets
  <2>2. PICK m : /\ Moved(queueQ, queueQ', 1, {m}) /\ News(m) /\ m.id = queueQ[1].id
                 /\ m.sid = queueQ[1].sid /\ m.type = "RES_RECONNECT_EVENT"
    BY <1>0, <1>17, ReConnectTyped
  <2>3. UNCHANGED <<unequal_task_id_, user, userQ, asyncQ, tasks_, async_sessions_, owed>>
    BY <1>17 DEF ReConnect, history
  <2>4. \A x \in {m} : /\ News(x) /\ x.type = "RES_RECONNECT_EVENT" /\ queueQ[1].type = x.type
                       /\ x.id = queueQ[1].id /\ x.sid = queueQ[1].sid
    BY <2>1, <2>2
  <2> QED
    BY <2>1, <2>2, <2>3, <2>4, QueueAInv
<1>18. ASSUME NEW r \in scenario.connects, FirstReconnect(r) PROVE AInv'
  <2>1. PICK sid : sid = queueQ[1].sid
    OBVIOUS
  <2>2. /\ 1 \in DOMAIN queueQ /\ Moved(queueQ, queueQ', 1, {})
        /\ sid \in SessionIds /\ OnReconnectMessage(sid, r)
    BY <1>0, <1>18, <2>1, FirstReconnectTyped
  <2>3. UNCHANGED <<unequal_task_id_, user, userQ, asyncQ, tasks_, owed>>
    BY <1>18 DEF FirstReconnect, history
  <2>4. PICK d : d = 1
    OBVIOUS
  <2> QED
    BY <2>2, <2>3, <2>4, ReconnectAInv
<1>19. CASE UNCHANGED vars
  <2>1. UNCHANGED <<unequal_task_id_, user, userQ, queueQ, asyncQ, tasks_, async_sessions_, owed>>
    BY <1>19 DEF vars
  <2>2. PICK d, e : d = 0 /\ e = 0
    OBVIOUS
  <2>3. Moved(queueQ, queueQ', d, {}) /\ Moved(asyncQ, asyncQ', e, {})
    BY <1>0, <2>1, <2>2, NotMoved
  <2>4. \A s \in async_sessions_' :
          \E o \in async_sessions_ : s.sid = o.sid /\ s.connect_id = o.connect_id /\ s.sent = o.sent
    BY <2>1
  <2> QED
    BY <2>1, <2>2, <2>3, <2>4, AsyncAInv
<1> QED
  BY <1>1, <1>2, <1>4, <1>5, <1>6, <1>7, <1>8, <1>9, <1>10, <1>11, <1>12, <1>13, <1>14,
     <1>15, <1>16, <1>17, <1>18, <1>19
     DEF Next, UserStep, QueueThread, AsyncThread, Device

(* A request that is answered got the answer to itself, although ReqTask   *)
(* matches answers by session and command only; or its session still owed  *)
(* the answer to an earlier request that nobody waited for any more.       *)
THEOREM AnswerIsOwnHolds == Spec => []AnswerIsOwn
<1>1. Init => IInv /\ HInv /\ AInv
  BY InitIInv, InitHInv, InitAInv
<1>2. IInv /\ HInv /\ AInv /\ [Next]_vars => IInv' /\ HInv' /\ AInv'
  BY NextIInv, NextHInv, NextAInv
<1>3. AInv => AnswerIsOwn
  BY DEF AInv
<1> QED
  BY <1>1, <1>2, <1>3, PTL DEF Spec
=============================================================================
