----------------------------- MODULE PushManager -----------------------------
(***************************************************************************)
(* The push side of vzsdk: what no task takes goes to PushManagerTask,     *)
(* whose thread calls the push handles, and through them the application,  *)
(* with its lock crit_ held (vzsdkpushmanager, vzsdkpushhandle); and the   *)
(* API calls of the application as far as they take locks, wait for        *)
(* answers or change the push handles (vztcpdevicemanage, vzmodulebase,    *)
(* vzrecognition, vzconnectdev).  An API call may be made by a thread of   *)
(* the application or, from a callback, by the push thread.  All devices   *)
(* are open and their plate callbacks set at the beginning.  The sessions  *)
(* and the devices are reduced to the events and the answers they send: an *)
(* answer is queued when the request goes out, the time it takes is the    *)
(* time it is in the queue, and it reaches the task it is meant for (see   *)
(* Hsha for when not); only the answer to get_record, which is an          *)
(* ivs_result as a plate result is, goes where any ivs_result goes.        *)
(***************************************************************************)
EXTENDS Integers, Sequences, FiniteSets, SequencesExt, Selection

CONSTANTS
    Devices,          \* open devices; each has a thread of the application
    None,             \* NULL
    Loads             \* what may happen, one of which a behaviour runs under

Ops == {"request", "record", "subscribe", "resume", "close"}

Push == "push"        \* the push thread
Callers == Devices \cup {Push}
IvsResults == {"plate", "record"}
EventTypes == IvsResults \cup {"online", "offline", "resume"}

(* Bounds: the API calls that the threads of the application make, those   *)
(* that a callback makes on the push thread, how many calls, losses of the *)
(* connection and resume timers there are, and plate results per device.   *)
Load == [user : SUBSET Ops, callback : SUBSET Ops, stimuli : Nat, plates : Nat]

ASSUME PushAssumption ==
    /\ Loads \subseteq Load
    /\ IsFiniteSet(Devices) /\ Push \notin Devices
    /\ None \notin Callers /\ None \notin [type : EventTypes, dev : Devices, n : Nat]

VARIABLES
    push_handles_,    \* PushManagerTask: <<key, device>> in the order they were added
    event,            \* what ProcessPushEvent is at, or None; crit_ is held meanwhile
    index,            \* and how many of push_handles_ it has been through, or Broken
    call,             \* per caller: what is left of its API call, see Program
    services,         \* VzTcpDeviceManage: devices in vzsdk_service_map_
    crit_section_,    \* VzTcpDeviceManage: who holds its lock
    module_crit,      \* VZModuleBase: who holds the lock of a device's recognition
    tasks_,           \* QueueLayer: tasks in progress
    queueQ,           \* message queue of the queue thread
    inbox,            \* per caller: its message queue
    delayed,          \* resume messages that the queue thread has delayed
    sessions,         \* SessionManager: devices it has a session for
    online,           \* those that are connected; the others are CS_CLOSED
    subscribed,       \* devices that send plate results
    plates,           \* plate results sent, per device
    load,             \* what may still happen
    reported,         \* history: results given to the callback of a device
    swallowed,        \* history: events that a WaitTaskDone on the push thread got
    taken             \* history: plate results that answered a get_record

manager == <<push_handles_, event, index>>
callers == <<call, services, crit_section_, module_crit>>
layer == <<tasks_, queueQ, inbox>>
devices == <<sessions, online, subscribed, plates, delayed>>
history == <<reported, swallowed, taken>>
vars == <<manager, callers, layer, devices, load, history>>

(* A message: a task on its way out, its answer or its removal, a plate    *)
(* result, a record, a change of the connection, or a resume event.        *)
Msg(type, dev, n) == [type |-> type, dev |-> dev, n |-> n]
Event(type, d) == Msg(type, d, 0)
IsFor(m, t) == m.type = "answer" /\ m.n = t
NoCall == [todo |-> <<>>, dev |-> None, task |-> None]

(* The id of a new task: one that no task and no message has.              *)
UsedIds(c) ==
    {t.id : t \in {u \in tasks_ : u.owner = c}}
    \cup {m.n.id : m \in {x \in Range(queueQ) : x.type \in {"ask", "answer", "forget"}
                                               /\ x.n.owner = c}}
    \cup {m.n.id : m \in {x \in Range(inbox[c]) : x.type = "answer"}}
FreshId(c) == CHOOSE i \in 1 .. Cardinality(UsedIds(c)) + 1 :
                 i \notin UsedIds(c) /\ \A j \in 1 .. i - 1 : j \in UsedIds(c)
Task(c, d, kind) == [owner |-> c, id |-> FreshId(c), dev |-> d, kind |-> kind]

Init ==
    /\ push_handles_ = SetToSeq({"conn", "ivs", "resume"} \X Devices)
    /\ event = None /\ index = 0
    /\ call = [c \in Callers |-> NoCall]
    /\ services = Devices /\ crit_section_ = None
    /\ module_crit = [d \in Devices |-> None]
    /\ tasks_ = {}
    /\ queueQ = <<>> /\ inbox = [c \in Callers |-> <<>>]
    /\ delayed = Devices
    /\ sessions = Devices /\ online = Devices /\ subscribed = Devices
    /\ plates = [d \in Devices |-> 0] /\ load \in Loads
    /\ reported = [d \in Devices |-> <<>>] /\ swallowed = {} /\ taken = {}
-----------------------------------------------------------------------------
(* API calls.  What is left of a call is a sequence of steps: service is   *)
(* GetService; lock and hold take the lock of the module or of the device  *)
(* manager and post a task, ask posts another; wait is WaitTaskDone with   *)
(* what follows it; the rest are named for what they add a handle for.     *)
(* CloseService disconnects in Stop, ~VzsdkService and ~VzConnectDev.      *)
Program(op) ==
    CASE op = "request"   -> <<"service", "lock", "wait">>
      [] op = "record"    -> <<"service", "record", "wait">>
      [] op = "subscribe" -> <<"service", "callback", "receive", "wait">>
      [] op = "resume"    -> <<"service", "lock", "wait", "resume">>
      [] op = "close"     -> <<"service", "hold", "wait", "ask", "wait", "ask", "wait">>
      [] op = "maxrecord" -> <<"lock", "wait", "later">>

Idle(c) == call[c].todo = <<>>
At(c, step) == ~Idle(c) /\ Head(call[c].todo) = step
Rest(c) == Tail(call[c].todo)
Advance(c) == call' = [call EXCEPT ![c].todo = Rest(c)]
StartCall(c, op, d) ==
    call' = [call EXCEPT ![c] = [todo |-> Program(op), dev |-> d, task |-> None]]

Stimulus == load.stimuli > 0 /\ load' = [load EXCEPT !.stimuli = @ - 1]

(* A thread of the application calls the API for its device.               *)
UserCall(d, op) ==
    /\ Idle(d) /\ op \in load.user /\ d \in services
    /\ Stimulus
    /\ StartCall(d, op, d)
    /\ UNCHANGED <<manager, services, crit_section_, module_crit, layer, devices, history>>

(* GetService: a call for a device that was closed ends here.              *)
GetService(c) ==
    /\ At(c, "service") /\ crit_section_ = None
    /\ IF call[c].dev \in services THEN Advance(c)
       ELSE call' = [call EXCEPT ![c] = NoCall]
    /\ UNCHANGED <<manager, services, crit_section_, module_crit, layer, devices, load,
                   history>>

(* PostTask of SyncProcessTask.                                            *)
PostTask(c, kind) ==
    LET t == Task(c, call[c].dev, kind) IN
    /\ queueQ' = Append(queueQ, Msg("ask", t.dev, t))
    /\ call' = [call EXCEPT ![c].todo = Rest(c), ![c].task = t]

(* CloseService.                                                           *)
CloseService(c) ==
    /\ At(c, "hold") /\ crit_section_ = None
    /\ IF call[c].dev \in services
       THEN crit_section_' = c /\ PostTask(c, "disconnect")
       ELSE call' = [call EXCEPT ![c] = NoCall] /\ UNCHANGED <<crit_section_, queueQ>>
    /\ UNCHANGED <<manager, services, module_crit, tasks_, inbox, devices, load, history>>

(* SyncProcessReqTask.                                                     *)
SyncProcessReqTask(c) ==
    /\ At(c, "lock") /\ module_crit[call[c].dev] = None
    /\ module_crit' = [module_crit EXCEPT ![call[c].dev] = c]
    /\ PostTask(c, "request")
    /\ UNCHANGED <<manager, services, crit_section_, tasks_, inbox, devices, load, history>>

(* GetRecord, which takes no lock.                                         *)
GetRecord(c) ==
    /\ At(c, "record")
    /\ PostTask(c, "record")
    /\ UNCHANGED <<manager, services, crit_section_, module_crit, tasks_, inbox, devices,
                   load, history>>

(* The next DisconnectServer of CloseService.                              *)
Disconnect(c) ==
    /\ At(c, "ask")
    /\ PostTask(c, "disconnect")
    /\ UNCHANGED <<manager, services, crit_section_, module_crit, tasks_, inbox, devices,
                   load, history>>

(* AddPushHandle, under crit_, which the push thread holds already.        *)
AddPushHandle(c, key) ==
    /\ event = None \/ c = Push
    /\ push_handles_' = Append(push_handles_, <<key, call[c].dev>>)
    /\ UNCHANGED <<event, index>>

SetReciveIvsResultCallback(c) ==
    /\ At(c, "callback") /\ AddPushHandle(c, "ivs") /\ Advance(c)
    /\ UNCHANGED <<services, crit_section_, module_crit, layer, devices, load, history>>

ReciveIvsResult(c) ==
    /\ At(c, "receive") /\ AddPushHandle(c, "ivs") /\ PostTask(c, "subscribe")
    /\ UNCHANGED <<services, crit_section_, module_crit, tasks_, inbox, devices, load, history>>

(* ResumeRecord once it knows the last record.                             *)
ResumeRecord(c) ==
    /\ At(c, "resume") /\ AddPushHandle(c, "resume") /\ Advance(c)
    /\ delayed' = delayed \cup {call[c].dev}
    /\ UNCHANGED <<services, crit_section_, module_crit, layer, sessions, online, subscribed,
                   plates, load, history>>

PostResumeReq(c) ==
    /\ At(c, "later") /\ Advance(c)
    /\ delayed' = delayed \cup {call[c].dev}
    /\ UNCHANGED <<manager, services, crit_section_, module_crit, layer, sessions,
                   online, subscribed, plates, load, history>>

(* WaitTaskDone gets a message that is not for it: lost.                   *)
Unhandled(c) ==
    /\ At(c, "wait") /\ inbox[c] # <<>>
    /\ LET m == Head(inbox[c]) IN
       /\ ~IsFor(m, call[c].task)
       /\ swallowed' = IF m.type = "answer" THEN swallowed ELSE swallowed \cup {m}
    /\ inbox' = [inbox EXCEPT ![c] = Tail(@)]
    /\ UNCHANGED <<reported, taken>>

Swallow(c) ==
    /\ Unhandled(c)
    /\ UNCHANGED <<manager, callers, tasks_, queueQ, devices, load>>

(* Mutant of Unlock: the lock of the module is kept.                       *)
UnlockNot(c) == UNCHANGED module_crit

(* The CritScope of SyncProcessReqTask ends.                               *)
Unlock(c) == module_crit' = [d \in Devices |-> IF module_crit[d] = c THEN None ELSE module_crit[d]]

(* SyncProcessTask is done with waiting: the task is removed, and what the *)
(* call has locked is unlocked, by CloseService after the last disconnect. *)
TaskDone(c) ==
    /\ queueQ' = Append(queueQ, Msg("forget", c, call[c].task))
    /\ Advance(c) /\ Unlock(c)
    /\ IF crit_section_ = c /\ Rest(c) = <<>>
       THEN crit_section_' = None /\ services' = services \ {call[c].dev}
       ELSE UNCHANGED <<crit_section_, services>>
    /\ UNCHANGED <<manager, tasks_, devices, load>>

WaitGet(c) ==
    /\ At(c, "wait") /\ inbox[c] # <<>> /\ IsFor(Head(inbox[c]), call[c].task)
    /\ inbox' = [inbox EXCEPT ![c] = Tail(@)]
    /\ TaskDone(c)
    /\ UNCHANGED history

(* Mutant of WaitTimeout: the wait for an answer has no deadline.          *)
WaitForEver(c) == FALSE /\ UNCHANGED vars

(* The deadline passes: Get finds nothing, or a message for somebody else. *)
WaitTimeout(c) ==
    /\ \/ At(c, "wait") /\ inbox[c] = <<>> /\ UNCHANGED <<inbox, history>>
       \/ Unhandled(c)
    /\ TaskDone(c)

CallStep(c) ==
    \/ GetService(c) \/ CloseService(c) \/ SyncProcessReqTask(c) \/ GetRecord(c)
    \/ Disconnect(c)
    \/ SetReciveIvsResultCallback(c) \/ ReciveIvsResult(c) \/ ResumeRecord(c)
    \/ PostResumeReq(c)
    \/ Swallow(c) \/ WaitGet(c) \/ WaitTimeout(c)
-----------------------------------------------------------------------------
(* The queue thread.                                                       *)
QueueGets(types) == queueQ # <<>> /\ Head(queueQ).type \in types /\ queueQ' = Tail(queueQ)

Keys == {push_handles_[i][1] : i \in DOMAIN push_handles_}
Deliver(c, m) == inbox' = [inbox EXCEPT ![c] = Append(@, m)]

(* OnRequestMessage and OnDisconnectMessage: a disconnect is answered, a   *)
(* subscription if there is a session (RES_PUSH_SUCCEED), and the rest by  *)
(* the device if it is connected, a get_record by an ivs_result.           *)
Answered(t) ==
    \/ t.kind = "disconnect"
    \/ t.kind = "subscribe" /\ t.dev \in sessions
    \/ t.kind \in {"request", "record"} /\ t.dev \in online
AnswerTo(t) == IF t.kind = "record" THEN Event("record", t.dev) ELSE Msg("answer", t.dev, t)

(* OnTranslateToAsyncLayer, and what the async half makes of the task: a   *)
(* disconnect removes the session.                                         *)
OnTranslateToAsyncLayer ==
    /\ queueQ # <<>> /\ Head(queueQ).type = "ask"
    /\ LET t == Head(queueQ).n
           off == IF t.kind = "disconnect" THEN {t.dev} ELSE {}
           on == IF t.kind = "subscribe" THEN {t.dev} \cap online ELSE {}
       IN  /\ tasks_' = tasks_ \cup {t}
           /\ queueQ' = Tail(queueQ) \o IF Answered(t) THEN <<AnswerTo(t)>> ELSE <<>>
           /\ sessions' = sessions \ off /\ online' = online \ off
           /\ subscribed' = (subscribed \ off) \cup on
    /\ UNCHANGED <<manager, callers, inbox, plates, delayed, load, history>>

(* Mutant of ClearedOf: all messages of the thread go with the task.       *)
ClearedOfAll(s, t) == <<>>

(* ~MessageHandler: the messages of the task go with it.                   *)
ClearedOf(s, t) == Selected(s, {m \in Range(s) : ~IsFor(m, t)})

OnRemoveTaskMessage ==
    /\ QueueGets({"forget"})
    /\ LET t == Head(queueQ).n IN
       /\ tasks_' = tasks_ \ {t}
       /\ inbox' = [inbox EXCEPT ![t.owner] = ClearedOf(@, t)]
    /\ UNCHANGED <<manager, callers, devices, load, history>>

(* OntranslateToSyncLayer: an answer goes to its task.  The answer to a    *)
(* request whose task is gone is looked up by HandleResponse, which waits  *)
(* for crit_, and dropped.                                                 *)
OntranslateToSyncLayer ==
    /\ QueueGets({"answer"})
    /\ LET m == Head(queueQ) IN
       IF m.n \in tasks_ THEN Deliver(m.n.owner, m)
       ELSE (m.n.kind = "request" => event = None) /\ UNCHANGED inbox
    /\ UNCHANGED <<manager, callers, tasks_, devices, load, history>>

(* An ivs_result is offered to tasks_ first: a ReqRecordTask takes any of  *)
(* its session for its answer, be it the record or a plate result.         *)
RecordTasks(d) == {t \in tasks_ : t.kind = "record" /\ t.dev = d}

ReqRecordTaskHandleResponse ==
    /\ QueueGets(IvsResults)
    /\ LET m == Head(queueQ) IN
       /\ \E t \in RecordTasks(m.dev) : Deliver(t.owner, Msg("answer", m.dev, t))
       /\ taken' = IF m.type = "plate" THEN taken \cup {m} ELSE taken
    /\ UNCHANGED <<manager, callers, tasks_, devices, load, reported, swallowed>>

(* HandleResponse of the push task for an ivs_result that no task took, a  *)
(* record that comes too late for its task included.                       *)
HandleResponse ==
    /\ QueueGets(IvsResults) /\ RecordTasks(Head(queueQ).dev) = {} /\ event = None
    /\ IF "ivs" \in Keys
       THEN Deliver(Push, Head(queueQ))
       ELSE UNCHANGED inbox
    /\ UNCHANGED <<manager, callers, tasks_, devices, load, history>>

(* HandleChangeConn, and HandleMessage for a resume event: no lock.  With  *)
(* the news that a connection is lost comes REQ_REMOVE_SESSION_EVENT,      *)
(* which removes whichever session has that id by now.                     *)
HandleChangeConn ==
    /\ QueueGets({"online", "offline", "resume"})
    /\ Deliver(Push, Head(queueQ))
    /\ LET gone == IF Head(queueQ).type = "offline" THEN {Head(queueQ).dev} ELSE {} IN
       /\ sessions' = sessions \ gone /\ online' = online \ gone
       /\ subscribed' = subscribed \ gone
    /\ UNCHANGED <<manager, callers, tasks_, plates, delayed, load, history>>

QueueThread ==
    \/ OnTranslateToAsyncLayer \/ OnRemoveTaskMessage \/ OntranslateToSyncLayer
    \/ ReqRecordTaskHandleResponse \/ HandleResponse \/ HandleChangeConn
-----------------------------------------------------------------------------
(* The push thread: ProcessPushEvent.  A message for a task that is over,  *)
(* or was never waited for, is ignored.                                    *)
PushGet ==
    /\ event = None /\ inbox[Push] # <<>>
    /\ event' = IF Head(inbox[Push]).type = "answer" THEN None ELSE Head(inbox[Push])
    /\ inbox' = [inbox EXCEPT ![Push] = Tail(@)]
    /\ UNCHANGED <<push_handles_, index, callers, tasks_, queueQ, devices, load, history>>

(* Whether HandleMessageData of handle h finds the event to be its own.    *)
Handles(h) ==
    \/ event.type \in IvsResults /\ h = <<"ivs", event.dev>>
    \/ event.type \in {"online", "offline"} /\ h = <<"conn", event.dev>>
    \/ event.type = "resume" /\ h = <<"resume", event.dev>>

(* The loop was left by its break: handles that a callback adds while it   *)
(* returns are not looked at.                                              *)
Broken == -1
Matching == IF index = Broken THEN {}
            ELSE {i \in index + 1 .. Len(push_handles_) : Handles(push_handles_[i])}
NextHandle == CHOOSE i \in Matching : \A j \in Matching : i <= j

InEvent(types) == event # None /\ event.type \in types /\ Idle(Push) /\ Matching # {}

(* The application's callback returns, or makes an API call first.         *)
Callback ==
    \/ UNCHANGED <<call, load>>
    \/ /\ Stimulus
       /\ \E op \in Ops, d \in Devices : op \in load.callback /\ StartCall(Push, op, d)

(* Mutant of AfterIvs: HandleMessageData returns false.                    *)
AfterIvsGoesOn == index' = NextHandle

AfterIvs == index' = Broken

(* IvsPushHandle: the callback, and true, which ends the loop.  It cannot  *)
(* tell a late record from a plate result.                                 *)
PushPlate ==
    /\ InEvent(IvsResults)
    /\ reported' = [reported EXCEPT ![event.dev] = Append(@, event)]
    /\ AfterIvs /\ Callback
    /\ UNCHANGED <<push_handles_, event, services, crit_section_, module_crit, layer,
                   devices, swallowed, taken>>

(* Mutant of Resubscribe: the device is not asked again.                   *)
ResubscribeNot(d) == UNCHANGED <<push_handles_, queueQ>>

(* SlotRecvChangeConnStatus of the recognition, which goes with the        *)
(* service: the handle is added again, and a task posted that nobody waits *)
(* for.                                                                    *)
Resubscribe(d) ==
    IF event.type = "online" /\ d \in services
    THEN /\ push_handles_' = Append(push_handles_, <<"ivs", d>>)
         /\ queueQ' = Append(queueQ, Msg("ask", d, Task(Push, d, "subscribe")))
    ELSE UNCHANGED <<push_handles_, queueQ>>

(* ChangeConnPushHandle: the slots, the callback, and false.               *)
PushConn ==
    /\ InEvent({"online", "offline"})
    /\ index' = NextHandle
    /\ Resubscribe(event.dev) /\ Callback
    /\ UNCHANGED <<event, services, crit_section_, module_crit, tasks_, inbox, devices, history>>

(* ResumePushHandle: the slot asks for the last record, while the service  *)
(* is there; then PostResumeReq.                                           *)
PushResume ==
    /\ InEvent({"resume"})
    /\ index' = Broken
    /\ IF event.dev \in services
       THEN StartCall(Push, "maxrecord", event.dev) /\ UNCHANGED delayed
       ELSE UNCHANGED call /\ delayed' = delayed \cup {event.dev}
    /\ UNCHANGED <<push_handles_, event, services, crit_section_, module_crit, layer,
                   sessions, online, subscribed, plates, load, history>>

PushEnd ==
    /\ event # None /\ Idle(Push) /\ Matching = {}
    /\ event' = None /\ index' = 0
    /\ UNCHANGED <<push_handles_, callers, layer, devices, load, history>>

PushThread == PushGet \/ PushPlate \/ PushConn \/ PushResume \/ PushEnd
-----------------------------------------------------------------------------
(* Devices, connections and timers.                                        *)
Tell(m) == queueQ' = Append(queueQ, m) /\ UNCHANGED <<manager, callers, tasks_, inbox, history>>

SendPlate(d) ==
    /\ d \in online \cap subscribed /\ plates[d] < load.plates
    /\ plates' = [plates EXCEPT ![d] = @ + 1]
    /\ Tell(Msg("plate", d, plates[d] + 1))
    /\ UNCHANGED <<sessions, online, subscribed, delayed, load>>

LoseConnection(d) ==
    /\ d \in online /\ Stimulus
    /\ online' = online \ {d} /\ subscribed' = subscribed \ {d}
    /\ Tell(Event("offline", d))
    /\ UNCHANGED <<sessions, plates, delayed>>

(* The reconnect timer of the async thread, which goes on after a close: a *)
(* device that has no session gets one, here counted from the time that it *)
(* is connected.                                                           *)
Reconnect(d) ==
    /\ d \notin sessions
    /\ sessions' = sessions \cup {d} /\ online' = online \cup {d}
    /\ Tell(Event("online", d))
    /\ UNCHANGED <<subscribed, plates, delayed, load>>

ResumeTimer(d) ==
    /\ d \in delayed /\ Stimulus
    /\ delayed' = delayed \ {d}
    /\ Tell(Event("resume", d))
    /\ UNCHANGED <<sessions, online, subscribed, plates>>

Network == \E d \in Devices : SendPlate(d) \/ LoseConnection(d) \/ Reconnect(d) \/ ResumeTimer(d)

Next == \/ \E d \in Devices, op \in Ops : UserCall(d, op)
        \/ \E c \in Callers : CallStep(c)
        \/ QueueThread \/ PushThread \/ Network

Spec == Init /\ [][Next]_vars

(* Every thread keeps running: locks that are free are given away,         *)
(* deadlines pass.  Lost connections come back.                            *)
Fairness ==
    /\ \A d \in Devices : WF_vars(CallStep(d))
    /\ WF_vars(QueueThread) /\ WF_vars(PushThread \/ CallStep(Push))
    /\ WF_vars(\E d \in Devices : Reconnect(d))

FairSpec == Spec /\ Fairness
-----------------------------------------------------------------------------
(* The plate results that a callback gets are in the order they were sent  *)
(* and each of them once, although the handle is added twice by            *)
(* SetReciveIvsResultCallback and again by every reconnect.  Records that  *)
(* came too late for their request may be among them.                      *)
ReportedOnce ==
    \A d \in Devices : \A i, j \in DOMAIN reported[d] :
        i < j /\ reported[d][i].type = "plate" /\ reported[d][j].type = "plate"
        => reported[d][i].n < reported[d][j].n

(* A result that a device has sent is waiting, is being handled, or was    *)
(* reported, but for two ways to lose it: a request made on the push       *)
(* thread itself, by a callback or by the resume handle, swallows it, or a *)
(* get_record under way, by whichever thread, takes it for its answer.     *)
PlatesKept ==
    \A d \in Devices : \A n \in 1 .. plates[d] :
        LET p == Msg("plate", d, n) IN
        \/ p \in Range(queueQ) \cup Range(inbox[Push]) \cup Range(reported[d])
        \/ event = p
        \/ p \in swallowed \cup taken

(* Everybody gets through: however the locks of the push manager, of the   *)
(* device manager and of the modules, the queue thread that waits for one  *)
(* of them and the calls that wait for the queue thread get in each        *)
(* other's way, all calls return and all messages are handled.             *)
Quiet ==
    /\ \A c \in Callers : Idle(c) /\ inbox[c] = <<>>
    /\ queueQ = <<>> /\ event = None
Settles == <>[]Quiet

(* A device whose results the application asked for sends them again after *)
(* its connection was lost, unless the news of the connection fell to a    *)
(* request on the push thread.                                             *)
Resubscribed ==
    <>[](\A d \in services : d \in subscribed \/ Event("online", d) \in swallowed)

(* Who holds which lock follows from what is left of his call.             *)
TypeOK ==
    /\ \A i \in DOMAIN push_handles_ : push_handles_[i] \in {"conn", "ivs", "resume"} \X Devices
    /\ index \in {Broken} \cup 0 .. Len(push_handles_) /\ (event = None => Idle(Push))
    /\ \A c \in Callers :
        /\ call[c].dev \in Devices \cup {None}
        /\ (\E d \in Devices : module_crit[d] = c) =>
              ~Idle(c) /\ module_crit[call[c].dev] = c /\ At(c, "wait")
    /\ crit_section_ # None => At(crit_section_, "wait") \/ At(crit_section_, "ask")
    /\ \A t \in tasks_ : t.owner \in Callers /\ t.dev \in Devices
    /\ subscribed \subseteq online /\ online \subseteq sessions /\ sessions \subseteq Devices
    /\ services \subseteq Devices /\ delayed \subseteq Devices
=============================================================================
