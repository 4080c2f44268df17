-------------------------- MODULE HeartbeatProofs --------------------------
(***************************************************************************)
(* For every clock, period and lateness of the timer: a silent device is   *)
(* noticed in time, no session is closed early, and timestamps measure     *)
(* time up to half a round of the clock, in both implementations.          *)
(***************************************************************************)
EXTENDS Heartbeat, TLAPS

(* The invariant holds when the session has just been made.                *)
LEMMA HeartbeatInit == Init => HeartbeatInv
BY HALFAssumption, HeartbeatAssumption
   DEF Init, HeartbeatInv, TypeOK, uint32, LAST

(* A round of AsyncWaitNextHeadrtbeatEvent sets the timer anew.            *)
LEMMA WaitStep ==
    ASSUME HeartbeatInv, now' = now, AsyncWaitNextHeadrtbeatEvent,
           \/ state = "connecting" /\ silence' = 0
           \/ state = "connected" /\ Left <= 0 /\ silence' = silence
    PROVE  HeartbeatInv'
<1> USE HALFAssumption, HeartbeatAssumption
<1> USE DEF HeartbeatInv, TypeOK, uint32, LAST, Since, Left, TimeDiff, TimeAfter,
            Signed, Wrap
<1>1. CASE ms_start_ # 0 /\ Expired
  BY <1>1 DEF AsyncWaitNextHeadrtbeatEvent, Expired
<1>2. CASE ms_start_ # 0 /\ ~Expired
  BY <1>2 DEF AsyncWaitNextHeadrtbeatEvent, Expired
<1>3. CASE ms_start_ = 0
  BY <1>3 DEF AsyncWaitNextHeadrtbeatEvent
<1> QED
  BY <1>1, <1>2, <1>3

(* Every step keeps it.                                                    *)
LEMMA HeartbeatStep == HeartbeatInv /\ [Next]_vars => HeartbeatInv'
<1> SUFFICES ASSUME HeartbeatInv, [Next]_vars PROVE HeartbeatInv'
  OBVIOUS
<1> USE HALFAssumption, HeartbeatAssumption
<1>1. CASE OnConnectEvent
  BY <1>1, WaitStep DEF OnConnectEvent
<1>2. CASE OnMessage
  <2>1. state = "connected" /\ Left <= 0
    BY <1>2 DEF OnMessage, HeartbeatInv, TypeOK, Left, TimeDiff, TimeIsLater, Signed,
                Wrap, uint32, LAST
  <2> QED
    BY <1>2, <2>1, WaitStep DEF OnMessage
<1>3. CASE OnHeartbeatPacket
  BY <1>3 DEF OnHeartbeatPacket, HeartbeatInv, TypeOK, Since, Left, TimeDiff, Signed,
              Wrap, uint32, LAST
<1>4. CASE Tick
  BY <1>4 DEF Tick, HeartbeatInv, TypeOK, Since, Left, TimeDiff, TimeAfter, Signed,
              Wrap, uint32, LAST
<1>5. CASE UNCHANGED vars
  BY <1>5 DEF vars, HeartbeatInv, TypeOK, Since, Left
<1> QED
  BY <1>1, <1>2, <1>3, <1>4, <1>5 DEF Next

(* The bookkeeping of AsyncWaitNextHeadrtbeatEvent, for all parameters.    *)
THEOREM HeartbeatInvariant == Spec => []HeartbeatInv
BY HeartbeatInit, HeartbeatStep, PTL DEF Spec

(* A session that hears no heartbeat is closed within five periods and     *)
(* twice the lateness of its timer.                                        *)
THEOREM SilenceIsBounded == Spec => []SilenceBounded
<1>1. HeartbeatInv => SilenceBounded
  BY HALFAssumption, HeartbeatAssumption
     DEF HeartbeatInv, SilenceBounded, TypeOK, Since, Left, TimeDiff, Signed, Wrap,
         uint32, LAST
<1> QED
  BY <1>1, HeartbeatInvariant, PTL

(* The heartbeat timer closes no session before three periods of silence.  *)
THEOREM NeverClosedEarly == Spec => NoEarlyClose
<1>1. HeartbeatInv /\ [Next]_vars
      => [state = "connected" /\ state' = "closed" => silence > 3 * Period]_vars
  <2> SUFFICES ASSUME HeartbeatInv, Next, state = "connected", state' = "closed"
               PROVE  silence > 3 * Period
    BY DEF vars
  <2>1. Expired
    BY DEF Next, OnConnectEvent, OnMessage, OnHeartbeatPacket, Tick,
           AsyncWaitNextHeadrtbeatEvent
  <2> QED
    BY <2>1, HALFAssumption, HeartbeatAssumption
       DEF HeartbeatInv, TypeOK, Expired, Since, TimeDiff, Signed, Wrap, uint32, LAST
<1> QED
  BY <1>1, HeartbeatInvariant, PTL DEF Spec, NoEarlyClose

(* TimeDiff and the comparisons of base/timeutils measure the time that    *)
(* passed since a stamp was taken, for half a round of the clock.          *)
THEOREM ElapsedIsMeasured == Spec => []ElapsedMeasured
<1>1. HeartbeatInv => ElapsedMeasured
  <2> SUFFICES ASSUME now \in uint32, NEW elapsed \in 0 .. HALF - 1
               PROVE  LET stamp == Stamp(elapsed) IN
                      /\ TimeDiff(now, stamp) = elapsed /\ TimeDiff(stamp, now) = -elapsed
                      /\ TimeIsLaterOrEqual(stamp, now)
                      /\ TimeIsLater(stamp, now) = (elapsed > 0) /\ ~TimeIsLater(now, stamp)
                      /\ TimeMax(stamp, now) = now /\ TimeMin(now, stamp) = stamp
    BY DEF HeartbeatInv, TypeOK, ElapsedMeasured
  <2> QED
    BY HALFAssumption
    DEF Stamp, TimeDiff, TimeIsLater, TimeIsLaterOrEqual, TimeMax, TimeMin, Signed,
        Wrap, uint32, LAST
<1> QED
  BY <1>1, HeartbeatInvariant, PTL

(* Choosing the other EFFICIENT_IMPLEMENTATION changes no result, except   *)
(* TimeIsLaterOrEqual of stamps half a round apart.                        *)
THEOREM ImplementationsDoAgree == Spec => []ImplementationsAgree
<1>1. HeartbeatInv => ImplementationsAgree
  <2> SUFFICES ASSUME now \in uint32, NEW elapsed \in uint32
               PROVE  LET stamp == Stamp(elapsed) IN
                      /\ TimeDiff(now, stamp) = BetweenDiff(now, stamp)
                      /\ TimeIsLater(stamp, now) = BetweenIsLater(stamp, now)
                      /\ elapsed # HALF => TimeIsLaterOrEqual(stamp, now)
                                          = BetweenIsLaterOrEqual(stamp, now)
    BY DEF HeartbeatInv, TypeOK, ImplementationsAgree
  <2> DEFINE stamp == Stamp(elapsed)
  <2> USE HALFAssumption DEF Stamp, Wrap, Signed, uint32, LAST
  <2>1. TimeDiff(now, stamp) = BetweenDiff(now, stamp)
    BY DEF TimeDiff, BetweenDiff, TimeIsBetween
  <2>2. TimeIsLater(stamp, now) = BetweenIsLater(stamp, now)
    BY DEF TimeIsLater, BetweenIsLater, TimeIsBetween
  <2>3. ASSUME elapsed # HALF
        PROVE  TimeIsLaterOrEqual(stamp, now) = BetweenIsLaterOrEqual(stamp, now)
    BY <2>3 DEF TimeIsLaterOrEqual, BetweenIsLaterOrEqual, TimeIsBetween
  <2> QED
    BY <2>1, <2>2, <2>3
<1> QED
  BY <1>1, HeartbeatInvariant, PTL
=============================================================================
