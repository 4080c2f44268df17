-------------------------------- MODULE Hsha --------------------------------
(***************************************************************************)
(* The half-sync/half-async core of vzsdk: user threads run tasks and wait *)
(* for their answers (task), the queue thread keeps the tasks in progress  *)
(* and routes messages between the two halves (queuelayer), the async      *)
(* thread owns the sessions (sessionmanager, session).  The threads meet   *)
(* only through message queues, which module MessageQueue shows to be      *)
(* FIFO and never to sleep over a message; a handler is one action.        *)
(* A delayed message or a timeout may happen at any moment.                *)
(***************************************************************************)
EXTENDS Integers, Sequences, FiniteSets, Selection

CONSTANTS
    Users,            \* threads of the application, one device each
    Cmds,             \* values of "cmd" in requests
    None,             \* NULL
    Scenarios         \* what may happen, and bounds, one of which a behaviour
                      \* runs under: see Scenario

Scenario == [ops : SUBSET {"connect", "request", "push", "close"},  \* what users do
             connects : SUBSET {"EINPROGRESS", "0", "error"},  \* outcomes of connect()
             timeouts : BOOLEAN,  \* whether a wait for an answer may time out
             expiry : BOOLEAN,    \* whether a session may miss its heartbeats
             tasks : Nat,         \* bound: tasks created
             drops : Nat]         \* bound: connections refused, closed or timed out

ASSUME ScenarioAssumption ==
    /\ Scenarios \subseteq Scenario /\ Scenarios # {}
    /\ None \notin Users /\ None \notin Cmds

VARIABLES
    scenario,         \* the scenario of this behaviour
    unequal_task_id_, unequal_session_id_,
    user,             \* per user thread: where it is in its API call
    userQ,            \* per user thread: its message queue
    queueQ,           \* message queue of the queue thread
    asyncQ,           \* message queue of the async thread
    tasks_,           \* QueueLayer: tasks in progress
    async_sessions_,  \* SessionManager: session id -> session
    reconnects,       \* delayed reconnect messages of the async thread
    drops,            \* connections refused, closed or timed out so far
    unhandled,        \* history: WaitTaskDone met the answer to another task
    owed              \* history: sessions with a request that nobody waits for

vars == <<scenario, unequal_task_id_, unequal_session_id_, user, userQ, queueQ, asyncQ, tasks_,
          async_sessions_, reconnects, drops, unhandled, owed>>

history == <<scenario, unhandled, owed>>

FirstTask == 2        \* the PushManagerTask takes the first id
NULL_SESSION_ID == 0
TaskIds == UNION {FirstTask + 1 .. FirstTask + c.tasks : c \in Scenarios}
SessionIds == UNION {2 .. c.tasks + 1 : c \in Scenarios}

(* A message: phandler is the handler it is posted to (a task is named by  *)
(* the id); req names the task whose request a response answers, which the *)
(* code does not know: it has only sid and cmd to go by.                   *)
Stanza(type, id, sid) == [phandler |-> "queue_layer", type |-> type, id |-> id,
                          sid |-> sid, cmd |-> None, req |-> 0, task |-> None]
TaskStanza(type, t) == [Stanza(type, t.id, t.sid) EXCEPT !.cmd = t.cmd, !.task = t]

NoTask == [id |-> 0, type |-> "none", owner |-> None, sid |-> NULL_SESSION_ID,
           cmd |-> None, push |-> FALSE]

Init ==
    /\ scenario \in Scenarios
    /\ unequal_task_id_ = FirstTask /\ unequal_session_id_ = 1
    /\ user = [u \in Users |-> [pc |-> "idle", task |-> NoTask, msg |-> None,
                                handle |-> NULL_SESSION_ID, closed |-> FALSE]]
    /\ userQ = [u \in Users |-> <<>>]
    /\ queueQ = <<>> /\ asyncQ = <<>>
    /\ tasks_ = {} /\ async_sessions_ = {} /\ reconnects = {} /\ drops = 0
    /\ unhandled = FALSE /\ owed = {}

FindSession(sid) == {s \in async_sessions_ : s.sid = sid}

Connected(sid) == \E s \in FindSession(sid) : s.state = "CS_CONNECTED"
-----------------------------------------------------------------------------
(* User threads: SyncProcessTask, inlined in the API calls.                *)

(* PostTask of a new task, and the start of WaitTaskDone.  The one         *)
(* PostTask without a wait, at vzrecognition.cpp:230, is in PushManager.   *)
StartTask(u, type, sid, cmd, push) ==
    LET t == [id |-> unequal_task_id_ + 1, type |-> type, owner |-> u, sid |-> sid,
              cmd |-> cmd, push |-> push]
    IN  /\ user[u].pc = "idle" /\ unequal_task_id_ < FirstTask + scenario.tasks
        /\ unequal_task_id_' = t.id
        /\ user' = [user EXCEPT ![u].pc = "wait", ![u].task = t, ![u].msg = None]
        /\ queueQ' = Append(queueQ, TaskStanza(type, t))
        /\ owed' = IF push THEN owed \cup {sid} ELSE owed
        /\ UNCHANGED <<scenario, unequal_session_id_, userQ, asyncQ, tasks_,
                       async_sessions_, reconnects, drops, unhandled>>

(* Mutant of ConnectServer: VzLPRTcp_Open takes no lock.                   *)
ConnectServerUnlocked(u) ==
    /\ "connect" \in scenario.ops /\ user[u].handle = NULL_SESSION_ID
    /\ StartTask(u, "REQ_CONNECT_SERVER", NULL_SESSION_ID, None, FALSE)

(* VzLPRTcp_Open calls ConnectServer with the global scoped_lock held.     *)
ConnectServer(u) ==
    /\ "connect" \in scenario.ops /\ user[u].handle = NULL_SESSION_ID
    /\ \A v \in Users : user[v].pc # "idle" => user[v].task.type # "REQ_CONNECT_SERVER"
    /\ StartTask(u, "REQ_CONNECT_SERVER", NULL_SESSION_ID, None, FALSE)

SyncProcessReqTask(u, cmd) ==
    /\ "request" \in scenario.ops /\ user[u].handle # NULL_SESSION_ID /\ ~user[u].closed
    /\ StartTask(u, "REQ_SEND_REQUESTION", user[u].handle, cmd, FALSE)

PostReqTask(u, cmd) ==
    /\ "push" \in scenario.ops /\ Connected(user[u].handle) /\ ~user[u].closed
    /\ StartTask(u, "REQ_SEND_REQUESTION", user[u].handle, cmd, TRUE)

DisconnectServer(u) ==
    /\ "close" \in scenario.ops /\ user[u].handle # NULL_SESSION_ID
    /\ StartTask(u, "REQ_DISCONNECT_SERVER", user[u].handle, None, FALSE)

(* WaitTaskDone gets a message: the answer to its task, or the answer to   *)
(* another one, which stays in *msg and fails ASSERT(false).               *)
WaitGet(u) ==
    /\ user[u].pc = "wait" /\ userQ[u] # <<>>
    /\ LET m == Head(userQ[u]) IN
       /\ user' = [user EXCEPT ![u].msg = m,
                               ![u].pc = IF m.id = user[u].task.id THEN "done" ELSE "wait"]
       /\ unhandled' = (unhandled \/ m.id # user[u].task.id)
    /\ userQ' = [userQ EXCEPT ![u] = Tail(@)]
    /\ UNCHANGED <<scenario, unequal_task_id_, unequal_session_id_, queueQ, asyncQ, tasks_,
                   async_sessions_, reconnects, drops, owed>>

(* The deadline passes: WaitTaskDone returns whatever *msg holds.          *)
WaitTimeout(u) ==
    /\ scenario.timeouts /\ user[u].pc = "wait"
    /\ userQ[u] = <<>> \/ user[u].msg # None
    /\ user' = [user EXCEPT ![u].pc = "done"]
    /\ owed' = owed \cup {user[u].task.sid}
    /\ UNCHANGED <<scenario, unequal_task_id_, unequal_session_id_, userQ, queueQ, asyncQ,
                   tasks_, async_sessions_, reconnects, drops, unhandled>>

(* Mutant of Return: a task that timed out is not removed.                 *)
ReturnNoRemove(u) ==
    /\ user[u].pc = "done"
    /\ queueQ' = IF user[u].msg = None THEN queueQ
                 ELSE Append(queueQ, TaskStanza("REQ_REMOVE_TASK_EVENT", user[u].task))
    /\ user' = [user EXCEPT ![u].msg = None, ![u].task = NoTask, ![u].pc = "idle"]
    /\ UNCHANGED <<unequal_task_id_, unequal_session_id_, userQ, asyncQ, tasks_,
                   async_sessions_, reconnects, drops, history>>

(* AsyncRemoveTask, and what the API call makes of the message.            *)
Return(u) ==
    /\ user[u].pc = "done"
    /\ queueQ' = Append(queueQ, TaskStanza("REQ_REMOVE_TASK_EVENT", user[u].task))
    /\ LET msg == user[u].msg IN
       IF user[u].task.type = "REQ_CONNECT_SERVER" /\ msg # None
       THEN user' = [user EXCEPT ![u].pc = "opened"]
       ELSE user' = [user EXCEPT ![u].pc = "idle", ![u].msg = None, ![u].task = NoTask,
                                 ![u].closed = @ \/ /\ msg # None
                                                    /\ msg.type = "RES_DISCONNECTED_EVENT_SUCCEED"]
    /\ UNCHANGED <<unequal_task_id_, unequal_session_id_, userQ, asyncQ, tasks_,
                   async_sessions_, reconnects, drops, history>>

(* The end of ConnectServer: GetConnState, then ReConnectServer if the     *)
(* session is connected.                                                   *)
Opened(u) ==
    /\ user[u].pc = "opened"
    /\ LET sid == user[u].msg.sid IN
       /\ user' = [user EXCEPT ![u].pc = "idle", ![u].msg = None, ![u].task = NoTask,
                     ![u].handle = IF Connected(sid) THEN sid ELSE NULL_SESSION_ID]
       /\ queueQ' = IF Connected(sid)
                    THEN Append(queueQ, Stanza("RES_RECONNECT_EVENT", 0, sid)) ELSE queueQ
    /\ UNCHANGED <<unequal_task_id_, unequal_session_id_, userQ, asyncQ, tasks_,
                   async_sessions_, reconnects, drops, history>>
-----------------------------------------------------------------------------
(* The async half: sessions.                                               *)

(* Session::Start: connect() has outcome r.  When it fails at once the     *)
(* socket stays CS_CLOSED and no event will ever be signalled for it.      *)
ConnState(r) == CASE r = "EINPROGRESS" -> "CS_CONNECTING"
                  [] r = "0"           -> "CS_CONNECTED"
                  [] r = "error"       -> "CS_CLOSED"

Dial(r) == IF r = "error" THEN drops < scenario.drops /\ drops' = drops + 1
                          ELSE UNCHANGED drops

(* A new Session on which Start was called with outcome r of connect().    *)
NewSession(sid, connect_id, r) ==
    [sid |-> sid, connect_id |-> connect_id, state |-> ConnState(r), bound |-> TRUE,
     beating |-> FALSE, sent |-> {}]

RemoveSession(sid) == async_sessions_' = async_sessions_ \ FindSession(sid)

OnConnectMessage(r) ==
    /\ asyncQ # <<>> /\ Head(asyncQ).type = "REQ_CONNECT_SERVER"
    /\ Dial(r)
    /\ unequal_session_id_' = unequal_session_id_ + 1
    /\ async_sessions_' = async_sessions_ \cup
                          {NewSession(unequal_session_id_ + 1, Head(asyncQ).id, r)}
    /\ asyncQ' = Tail(asyncQ)
    /\ UNCHANGED <<unequal_task_id_, user, userQ, queueQ, tasks_, reconnects, history>>

OnDisconnectMessage ==
    /\ asyncQ # <<>> /\ Head(asyncQ).type = "REQ_DISCONNECT_SERVER"
    /\ LET m == Head(asyncQ) IN
       /\ RemoveSession(m.sid)
       /\ queueQ' = Append(queueQ,
            Stanza(IF FindSession(m.sid) # {} THEN "RES_DISCONNECTED_EVENT_SUCCEED"
                                              ELSE "RES_DISCONNECTED_EVENT_FAILURE",
                   m.id, m.sid))
    /\ asyncQ' = Tail(asyncQ)
    /\ UNCHANGED <<unequal_task_id_, unequal_session_id_, user, userQ, tasks_, reconnects,
                   drops, history>>

(* AsyncWrite keeps the request until the socket can send it.              *)
OnRequestMessage ==
    /\ asyncQ # <<>> /\ Head(asyncQ).type = "REQ_SEND_REQUESTION"
    /\ LET m == Head(asyncQ)
           found == FindSession(m.sid)
       IN  /\ async_sessions_' = (async_sessions_ \ found) \cup
                {[s EXCEPT !.sent = @ \cup {[req |-> m.id, cmd |-> m.cmd]}] : s \in found}
           /\ queueQ' = IF found = {}
                        THEN Append(queueQ, Stanza("RES_SESSION_NOT_FOUND", m.id, m.sid))
                        ELSE IF m.task.push
                        THEN Append(queueQ, Stanza("RES_PUSH_SUCCEED", m.id, m.sid))
                        ELSE queueQ
    /\ asyncQ' = Tail(asyncQ)
    /\ UNCHANGED <<unequal_task_id_, unequal_session_id_, user, userQ, tasks_, reconnects,
                   drops, history>>

(* Mutant of OnReconnectMessage: the early return comes before PostDelayed. *)
OnReconnectStops(sid, r) ==
    IF \E s \in FindSession(sid) : s.state # "CS_CLOSED"
    THEN /\ reconnects' = reconnects \ {sid}
         /\ UNCHANGED <<async_sessions_, drops>>
    ELSE /\ Dial(r)
         /\ reconnects' = reconnects \cup {sid}
         /\ async_sessions_' = (async_sessions_ \ FindSession(sid))
                               \cup {NewSession(sid, sid, r)}

(* OnReconnectMessage: post the message again with a delay, to the async   *)
(* thread, and start a new session under the old id unless one is there    *)
(* that is not closed.  A session that AddSession refuses fails            *)
(* ASSERT(add_res), is started and dies with its pointer.                  *)
OnReconnectMessage(sid, r) ==
    /\ reconnects' = reconnects \cup {sid}
    /\ IF \E s \in FindSession(sid) : s.state # "CS_CLOSED"
       THEN UNCHANGED <<async_sessions_, drops>>
       ELSE /\ Dial(r)
            /\ async_sessions_' = IF FindSession(sid) = {}
                                  THEN async_sessions_ \cup {NewSession(sid, sid, r)}
                                  ELSE async_sessions_

ReconnectTimer(sid, r) ==
    /\ sid \in reconnects
    /\ OnReconnectMessage(sid, r)
    /\ UNCHANGED <<unequal_task_id_, unequal_session_id_, user, userQ, queueQ, asyncQ,
                   tasks_, history>>

(* Socket events of session s, and the answers of its device.              *)
Update(s, t) == async_sessions_' = (async_sessions_ \ {s}) \cup {t}

OnConnectEvent(s) ==
    /\ s.state = "CS_CONNECTING" /\ s.bound
    /\ Update(s, [s EXCEPT !.state = "CS_CONNECTED", !.beating = TRUE])
    /\ queueQ' = Append(queueQ, Stanza("RES_CONNECTED_EVENT", s.connect_id, s.sid))
    /\ UNCHANGED <<unequal_task_id_, unequal_session_id_, user, userQ, asyncQ, tasks_,
                   reconnects, drops, history>>

(* OnSessionCloseEvent: first the removal, then the news.                  *)
ClosePosts(s) == <<Stanza("REQ_REMOVE_SESSION_EVENT", s.connect_id, s.sid),
                   Stanza("RES_DISCONNECTED_EVENT_FAILURE", s.connect_id, s.sid)>>

OnCloseEvent(s) ==
    /\ s.state # "CS_CLOSED" /\ s.bound /\ drops < scenario.drops
    /\ drops' = drops + 1
    /\ Update(s, [s EXCEPT !.state = "CS_CLOSED"])
    /\ queueQ' = queueQ \o ClosePosts(s)
    /\ UNCHANGED <<unequal_task_id_, unequal_session_id_, user, userQ, asyncQ, tasks_,
                   reconnects, history>>

(* The heartbeat timer finds that the device has been silent for too long: *)
(* OnCloseEvent with the socket still connected unhooks the session from   *)
(* its socket; the timer is not armed again.                               *)
HeartbeatTimeout(s) ==
    /\ scenario.expiry /\ s.beating /\ drops < scenario.drops
    /\ drops' = drops + 1
    /\ Update(s, [s EXCEPT !.beating = FALSE, !.bound = (s.state = "CS_CLOSED")])
    /\ queueQ' = queueQ \o ClosePosts(s)
    /\ UNCHANGED <<unequal_task_id_, unequal_session_id_, user, userQ, asyncQ, tasks_,
                   reconnects, history>>

(* A packet arrives: OnSessionPacketEvent posts it with message id 0.      *)
OnSessionPacketEvent(s, r) ==
    /\ s.state = "CS_CONNECTED" /\ s.bound /\ r \in s.sent
    /\ Update(s, [s EXCEPT !.sent = @ \ {r}])
    /\ queueQ' = Append(queueQ, [Stanza("RES_STANZA_EVENT", 0, s.sid)
                                   EXCEPT !.cmd = r.cmd, !.req = r.req])
    /\ UNCHANGED <<unequal_task_id_, unequal_session_id_, user, userQ, asyncQ, tasks_,
                   reconnects, drops, history>>
-----------------------------------------------------------------------------
(* The queue thread.                                                       *)
QueueGets(types) == queueQ # <<>> /\ Head(queueQ).type \in types

OnTranslateToAsyncLayer ==
    /\ QueueGets({"REQ_CONNECT_SERVER", "REQ_SEND_REQUESTION", "REQ_DISCONNECT_SERVER"})
    /\ tasks_' = tasks_ \cup {Head(queueQ).task}
    /\ asyncQ' = Append(asyncQ, Head(queueQ))
    /\ queueQ' = Tail(queueQ)
    /\ UNCHANGED <<unequal_task_id_, unequal_session_id_, user, userQ, async_sessions_,
                   reconnects, drops, history>>

(* The last reference to the task goes with the stanza: ~MessageHandler    *)
(* clears what was posted to the user thread on its behalf.                *)
OnRemoveTaskMessage ==
    /\ QueueGets({"REQ_REMOVE_TASK_EVENT"})
    /\ LET t == Head(queueQ).task IN
       /\ tasks_' = tasks_ \ {t}
       /\ userQ' = [userQ EXCEPT ![t.owner] =
                       Selected(@, {@[i] : i \in {j \in DOMAIN @ : @[j].id # t.id}})]
    /\ queueQ' = Tail(queueQ)
    /\ UNCHANGED <<unequal_task_id_, unequal_session_id_, user, asyncQ, async_sessions_,
                   reconnects, drops, history>>

(* QueueLayer::RemoveSession calls the SessionManager from this thread.    *)
QueueRemoveSession ==
    /\ QueueGets({"REQ_REMOVE_SESSION_EVENT"})
    /\ RemoveSession(Head(queueQ).sid)
    /\ queueQ' = Tail(queueQ)
    /\ UNCHANGED <<unequal_task_id_, unequal_session_id_, user, userQ, asyncQ, tasks_,
                   reconnects, drops, history>>

(* Mutant of HandleMessage: a response is matched by its command only.     *)
HandleAnySession(t, m) ==
    \/ t.type \in {"REQ_CONNECT_SERVER", "REQ_DISCONNECT_SERVER"} /\ m.id = t.id
    \/ t.type = "REQ_SEND_REQUESTION" /\ m.id = t.id /\ m.sid = t.sid
    \/ /\ t.type = "REQ_SEND_REQUESTION" /\ ~t.push /\ m.id = 0
       /\ m.type = "RES_STANZA_EVENT" /\ m.cmd = t.cmd

(* Task, DisconnectTask, ReqTask and ReqPushTask ::HandleMessage;          *)
(* ReqRecordTask, whose answer is an ivs_result, is in PushManager.        *)
HandleMessage(t, m) ==
    \/ t.type = "REQ_CONNECT_SERVER" /\ m.id = t.id
    \/ /\ t.type = "REQ_DISCONNECT_SERVER" /\ m.id = t.id /\ m.sid = t.sid
       /\ m.type \in {"RES_DISCONNECTED_EVENT_SUCCEED", "RES_DISCONNECTED_EVENT_FAILURE"}
    \/ t.type = "REQ_SEND_REQUESTION" /\ m.id = t.id /\ m.sid = t.sid
    \/ /\ t.type = "REQ_SEND_REQUESTION" /\ ~t.push /\ m.id = 0 /\ m.sid = t.sid
       /\ m.type = "RES_STANZA_EVENT" /\ m.cmd = t.cmd

(* Tasks are asked in the order of their ids; what none of them takes goes *)
(* to the push task, which is not part of this module.                     *)
OntranslateToSyncLayer ==
    /\ QueueGets({"RES_DISCONNECTED_EVENT_SUCCEED", "RES_DISCONNECTED_EVENT_FAILURE",
                  "RES_CONNECTED_EVENT", "RES_STANZA_EVENT", "RES_PUSH_SUCCEED"})
    /\ LET m == Head(queueQ)
           takers == {t \in tasks_ : HandleMessage(t, m)}
       IN  \/ takers = {} /\ UNCHANGED userQ
           \/ \E t \in takers :
                /\ \A o \in takers : t.id <= o.id
                /\ userQ' = [userQ EXCEPT ![t.owner] =
                               Append(@, [m EXCEPT !.phandler = "task", !.id = t.id])]
    /\ queueQ' = Tail(queueQ)
    /\ UNCHANGED <<unequal_task_id_, unequal_session_id_, user, asyncQ, tasks_,
                   async_sessions_, reconnects, drops, history>>

(* OnResMessage has no case for RES_SESSION_NOT_FOUND.                     *)
DropMessage ==
    /\ QueueGets({"RES_SESSION_NOT_FOUND"})
    /\ queueQ' = Tail(queueQ)
    /\ UNCHANGED <<unequal_task_id_, unequal_session_id_, user, userQ, asyncQ, tasks_,
                   async_sessions_, reconnects, drops, history>>

(* ReConnect posts to the queue thread again, for the SessionManager.      *)
ReConnect ==
    /\ QueueGets({"RES_RECONNECT_EVENT"}) /\ Head(queueQ).phandler = "queue_layer"
    /\ queueQ' = Append(Tail(queueQ), [Head(queueQ) EXCEPT !.phandler = "session_manager"])
    /\ UNCHANGED <<unequal_task_id_, unequal_session_id_, user, userQ, asyncQ, tasks_,
                   async_sessions_, reconnects, drops, history>>

FirstReconnect(r) ==
    /\ QueueGets({"RES_RECONNECT_EVENT"}) /\ Head(queueQ).phandler = "session_manager"
    /\ OnReconnectMessage(Head(queueQ).sid, r)
    /\ queueQ' = Tail(queueQ)
    /\ UNCHANGED <<unequal_task_id_, unequal_session_id_, user, userQ, asyncQ, tasks_,
                   history>>
-----------------------------------------------------------------------------
UserCall(u) == ConnectServer(u) \/ DisconnectServer(u)
               \/ \E cmd \in Cmds : SyncProcessReqTask(u, cmd) \/ PostReqTask(u, cmd)

UserStep(u) == WaitGet(u) \/ WaitTimeout(u) \/ Return(u) \/ Opened(u)

QueueThread == \/ OnTranslateToAsyncLayer \/ OnRemoveTaskMessage \/ QueueRemoveSession
               \/ OntranslateToSyncLayer \/ DropMessage \/ ReConnect
               \/ \E r \in scenario.connects : FirstReconnect(r)

AsyncThread == \/ \E r \in scenario.connects : OnConnectMessage(r)
               \/ OnDisconnectMessage \/ OnRequestMessage

Device == \E s \in async_sessions_ :
              \/ OnConnectEvent(s) \/ OnCloseEvent(s) \/ HeartbeatTimeout(s)
              \/ \E r \in s.sent : OnSessionPacketEvent(s, r)

Next == \/ \E u \in Users : UserCall(u) \/ UserStep(u)
        \/ QueueThread
        \/ AsyncThread
        \/ \E sid \in reconnects, r \in scenario.connects : ReconnectTimer(sid, r)
        \/ Device

Spec == Init /\ [][Next]_vars

(* Threads keep running and clocks keep going: deadlines pass, the queue   *)
(* and the async thread get their messages, reconnect timers fire, and a   *)
(* connection attempt is settled by the network.                           *)
Fairness ==
    /\ \A u \in Users : WF_vars(UserStep(u))
    /\ WF_vars(QueueThread) /\ WF_vars(AsyncThread)
    /\ \A sid \in SessionIds :
         /\ WF_vars(\E r \in scenario.connects : ReconnectTimer(sid, r))
         /\ WF_vars(\E s \in FindSession(sid) : OnConnectEvent(s))

FairSpec == Spec /\ Fairness
-----------------------------------------------------------------------------
Task == [id : TaskIds, owner : Users, sid : {NULL_SESSION_ID} \cup SessionIds,
         type : {"REQ_CONNECT_SERVER", "REQ_SEND_REQUESTION", "REQ_DISCONNECT_SERVER"},
         cmd : Cmds \cup {None}, push : BOOLEAN]

StanzaType == {"REQ_CONNECT_SERVER", "REQ_SEND_REQUESTION", "REQ_DISCONNECT_SERVER",
               "REQ_REMOVE_TASK_EVENT", "REQ_REMOVE_SESSION_EVENT",
               "RES_DISCONNECTED_EVENT_SUCCEED", "RES_DISCONNECTED_EVENT_FAILURE",
               "RES_CONNECTED_EVENT", "RES_STANZA_EVENT", "RES_PUSH_SUCCEED",
               "RES_SESSION_NOT_FOUND", "RES_RECONNECT_EVENT"}

Message == [phandler : {"queue_layer", "session_manager", "task"}, type : StanzaType,
            id : Nat, sid : {NULL_SESSION_ID} \cup SessionIds, cmd : Cmds \cup {None},
            req : {0} \cup TaskIds, task : Task \cup {None}]

Session == [sid : SessionIds, connect_id : TaskIds \cup SessionIds, bound : BOOLEAN,
            state : {"CS_CONNECTING", "CS_CONNECTED", "CS_CLOSED"}, beating : BOOLEAN,
            sent : SUBSET [req : TaskIds, cmd : Cmds]]

TypeOK ==
    /\ unequal_task_id_ \in {FirstTask} \cup TaskIds
    /\ unequal_session_id_ \in {1} \cup SessionIds
    /\ user \in [Users -> [pc : {"idle", "wait", "done", "opened"}, msg : Message \cup {None},
                           task : Task \cup {NoTask}, closed : BOOLEAN,
                           handle : {NULL_SESSION_ID} \cup SessionIds]]
    /\ \A u \in Users : (user[u].pc = "idle") = (user[u].task = NoTask)
    /\ userQ \in [Users -> Seq(Message)] /\ queueQ \in Seq(Message) /\ asyncQ \in Seq(Message)
    /\ tasks_ \subseteq Task /\ reconnects \subseteq SessionIds /\ drops \in 0 .. scenario.drops
    /\ async_sessions_ \subseteq Session
    /\ scenario \in Scenarios /\ unhandled \in BOOLEAN
    /\ owed \subseteq {NULL_SESSION_ID} \cup SessionIds

(* Every task run by SyncProcessTask that QueueLayer keeps is still being  *)
(* waited for, or its removal is on the way: no order of timeouts, late    *)
(* answers and removals leaves one in tasks_ for good, where it would take *)
(* answers away from the tasks that are waiting.  And every task that a    *)
(* user thread waits for is kept, or its request is on the way: an answer  *)
(* that comes in time finds it.  The task of a resubscription, which       *)
(* vzrecognition.cpp:230 posts without a wait or a removal, is not one of  *)
(* these and stays in tasks_.  It rests on the types, stated with it.      *)
TaskAccounted ==
    /\ TypeOK
    /\ \A t \in tasks_ :
        \/ user[t.owner].task = t /\ user[t.owner].pc \in {"wait", "done"}
        \/ \E i \in DOMAIN queueQ : /\ queueQ[i].type = "REQ_REMOVE_TASK_EVENT"
                                    /\ queueQ[i].task = t
    /\ \A u \in Users : user[u].pc \in {"wait", "done"} =>
        \/ user[u].task \in tasks_
        \/ \E i \in DOMAIN queueQ : /\ queueQ[i].type = user[u].task.type
                                    /\ queueQ[i].task = user[u].task

(* Two open devices never share a session id, nor do two sessions.  A      *)
(* reconnected session posts its events under its session id, in the id    *)
(* space of tasks, and a ConnectTask takes any message that has its id:    *)
(* only the lock that VzLPRTcp_Open holds keeps them apart.                *)
HandlesDistinct ==
    /\ \A u, v \in Users : u # v /\ user[u].handle # NULL_SESSION_ID
                           => user[u].handle # user[v].handle
    /\ \A s, t \in async_sessions_ : s.sid = t.sid => s = t

(* A request that is answered got the answer to itself, although answers   *)
(* carry no request id and are matched by session and command; unless the  *)
(* session still owes the answer to an earlier request, one that timed out *)
(* or that nobody waited for, which then takes its place.                  *)
AnswerIsOwn ==
    \A u \in Users :
        user[u].pc = "done" /\ user[u].msg # None /\ user[u].msg.type = "RES_STANZA_EVENT"
        => \/ user[u].msg.req = user[u].task.id
           \/ user[u].task.sid \in owed /\ user[u].msg.req < user[u].task.id

(* A task run by SyncProcessTask leaves tasks_ again: its deadline passes  *)
(* even if its answer or its session is lost.  (That of a resubscription,  *)
(* vzrecognition.cpp:230, has no deadline and never leaves.)               *)
TasksDrain == \A id \in TaskIds : (\E t \in tasks_ : t.id = id) ~> (\A t \in tasks_ : t.id # id)

(* vzlprtcpsdk.h, VzLPRTcp_IsConnected: the status can be polled for "a    *)
(* broken connection, and whether the connection has been restored".  An   *)
(* open device that stays reachable is connected again.                    *)
Reconnects ==
    \A u \in Users : \A sid \in SessionIds :
        user[u].handle = sid ~> Connected(sid)

(* task.cpp, WaitTaskDone: a message for any other task is an "Unhandle    *)
(* Error", ASSERT(false).                                                  *)
OnlyOwnMessage == ~unhandled

(* vzlprtcpsdk.h: VzLPRTcp_Close closes the device; 0 means success.       *)
ClosedStaysClosed == \A u \in Users : user[u].closed => ~Connected(user[u].handle)
=============================================================================
