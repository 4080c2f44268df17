----------------------------- MODULE Heartbeat -----------------------------
(***************************************************************************)
(* The heartbeat timer of a connected Session (vzsdk/session): every       *)
(* DEFAULT_HEADBEAT_TIMEOUT the session writes a heartbeat and looks how   *)
(* long ago the device's last one came, on the wrapping millisecond clock. *)
(***************************************************************************)
EXTENDS TimeUtils

CONSTANTS
    Period,           \* DEFAULT_HEADBEAT_TIMEOUT
    MaxLate           \* bound: how late the async thread gets its timer

ASSUME HeartbeatAssumption ==
    /\ Period \in Nat \ {0} /\ MaxLate \in Nat
    /\ 5 * Period + 2 * MaxLate + 1 < HALF

VARIABLES
    now,              \* Time()
    ms_start_,        \* time of the last heartbeat; 0 is "none yet"
    timers,           \* delayed messages of the session in the queue
    due,              \* trigger time of the delayed message
    state,            \* "connecting", "connected", or "closed" by the timer
    silence           \* history: true time since the last heartbeat, or
                      \* since the connection was made

vars == <<now, ms_start_, timers, due, state, silence>>

Init == /\ now \in uint32 /\ ms_start_ = 0 /\ timers = 0 /\ due = 0
        /\ state = "connecting" /\ silence = 0

(* Mutant of Expired: one period too few.                                  *)
ExpiredEarly == TimeDiff(now, ms_start_) > Period * 2

(* The test of AsyncWaitNextHeadrtbeatEvent.                               *)
Expired == TimeDiff(now, ms_start_) > Period * 3

(* Mutant of AsyncWaitNextHeadrtbeatEvent: every round restarts the clock. *)
RestartingWait ==
    /\ ms_start_' = now
    /\ timers' = 1 /\ due' = TimeAfter(now, Period) /\ state' = "connected"

AsyncWaitNextHeadrtbeatEvent ==
    LET timeout == ms_start_ # 0 /\ Expired
    IN  /\ ms_start_' = IF ms_start_ = 0 THEN now ELSE ms_start_
        /\ state' = IF timeout THEN "closed" ELSE "connected"
        /\ timers' = IF timeout THEN 0 ELSE 1
        /\ due' = IF timeout THEN 0 ELSE TimeAfter(now, Period)

OnConnectEvent ==
    /\ state = "connecting"
    /\ AsyncWaitNextHeadrtbeatEvent
    /\ silence' = 0
    /\ UNCHANGED now

(* The timer message: Session::OnMessage writes a heartbeat and looks.     *)
OnMessage ==
    /\ timers > 0 /\ ~TimeIsLater(now, due)
    /\ AsyncWaitNextHeadrtbeatEvent
    /\ UNCHANGED <<now, silence>>

(* OnHandleInputPacket of PACKET_TYPE_HEARTBEAT.                           *)
OnHeartbeatPacket ==
    /\ state = "connected"
    /\ ms_start_' = now
    /\ silence' = 0
    /\ UNCHANGED <<now, timers, due, state>>

Tick ==
    /\ timers > 0 => TimeDiff(now, due) < MaxLate
    /\ now' = TimeAfter(now, 1)
    /\ silence' = IF state = "connected" THEN silence + 1 ELSE silence
    /\ UNCHANGED <<ms_start_, timers, due, state>>

Next == OnConnectEvent \/ OnMessage \/ OnHeartbeatPacket \/ Tick

Spec == Init /\ [][Next]_vars
-----------------------------------------------------------------------------
TypeOK == /\ now \in uint32 /\ ms_start_ \in uint32 /\ due \in uint32
          /\ timers \in Nat /\ silence \in Nat
          /\ state \in {"connecting", "connected", "closed"}

(* Why SilenceBounded holds: the code's measure of the silence (Since) is  *)
(* short of the true one by one late period at most, and with the time     *)
(* left on the timer (Left) it makes at most four periods; a heartbeat     *)
(* that came at time 0 is forgotten for no longer than the timer takes.    *)
Since == TimeDiff(now, ms_start_)
Left == TimeDiff(due, now)

HeartbeatInv ==
    /\ TypeOK
    /\ state = "connecting" => ms_start_ = 0
    /\ timers = IF state = "connected" THEN 1 ELSE 0
    /\ state = "connected" =>
         /\ -MaxLate <= Left /\ Left <= Period
         /\ 0 <= Since /\ Since <= silence /\ silence <= Since + Period + MaxLate
         /\ Since + Left <= 4 * Period
         /\ ms_start_ = 0 => silence = Since /\ Since + Left <= Period

(* A silent device is noticed: a session is never kept for longer than     *)
(* five periods and twice the lateness of the timer without a heartbeat,   *)
(* even when a heartbeat came at a time that wrapped around to 0, which    *)
(* the code takes for "none yet".                                          *)
SilenceBounded == state = "connected" => silence <= 5 * Period + 2 * MaxLate

(* The timer closes a session only after more than three periods without a *)
(* heartbeat, wherever the clock wraps.                                    *)
NoEarlyClose == [][state = "connected" /\ state' = "closed" => silence > 3 * Period]_vars

(* The stamp that was taken so many milliseconds ago.                      *)
Stamp(elapsed) == Wrap(now - elapsed)

(* For half a round of the clock, TimeDiff is the time that really passed  *)
(* since a stamp was taken, and the comparisons order the stamp and the    *)
(* clock as they came, wherever the clock wrapped in between.              *)
ElapsedMeasured == \A elapsed \in 0 .. HALF - 1 :
    LET stamp == Stamp(elapsed) IN
    /\ TimeDiff(now, stamp) = elapsed /\ TimeDiff(stamp, now) = -elapsed
    /\ TimeIsLaterOrEqual(stamp, now)
    /\ TimeIsLater(stamp, now) = (elapsed > 0) /\ ~TimeIsLater(now, stamp)
    /\ TimeMax(stamp, now) = now /\ TimeMin(now, stamp) = stamp

(* The two implementations that EFFICIENT_IMPLEMENTATION chooses between   *)
(* agree on every pair of stamps, except that TimeIsLaterOrEqual differs   *)
(* when they are exactly half a round apart.                               *)
ImplementationsAgree == \A elapsed \in uint32 :
    LET stamp == Stamp(elapsed) IN
    /\ TimeDiff(now, stamp) = BetweenDiff(now, stamp)
    /\ TimeIsLater(stamp, now) = BetweenIsLater(stamp, now)
    /\ elapsed # HALF =>
         TimeIsLaterOrEqual(stamp, now) = BetweenIsLaterOrEqual(stamp, now)
=============================================================================
