------------------------- MODULE MessageQueueProofs -------------------------
(***************************************************************************)
(* Proofs about MessageQueue, for every set of threads and handlers, every *)
(* word length and every bound.                                            *)
(***************************************************************************)
EXTENDS MessageQueue, SequenceTheorems, TLAPS

(* What the timestamp arithmetic returns.                                  *)
LEMMA TimeInRange ==
    ASSUME now \in Nat PROVE Time \in uint32
BY HALFAssumption DEF Time, uint32, LAST

(* The sum of a timestamp and a delay is a timestamp.                      *)
LEMMA TimeAfterInRange ==
    ASSUME NEW t \in uint32, NEW d \in 0 .. HALF - 1 PROVE TimeAfter(t, d) \in uint32
BY HALFAssumption DEF TimeAfter, Wrap, uint32, LAST

(* TimeIsLater and TimeDiff agree: what is later differs by less than half *)
(* a round.                                                                *)
LEMMA LaterIsPositive ==
    ASSUME NEW a \in uint32, NEW b \in uint32, TimeIsLater(a, b)
    PROVE  TimeDiff(b, a) \in 1 .. HALF - 1
BY HALFAssumption DEF TimeIsLater, TimeDiff, Signed, Wrap, uint32, LAST

(* The difference of two timestamps fits an int32.                         *)
LEMMA DiffIsInt ==
    ASSUME NEW a \in uint32, NEW b \in uint32 PROVE TimeDiff(a, b) \in int32
BY HALFAssumption DEF TimeDiff, Signed, Wrap, uint32, int32, LAST

(* The time that Get sleeps is a duration, or kForever.                    *)
LEMMA CmsNextInRange ==
    ASSUME NEW g \in GetLocals PROVE CmsNext(g) \in Nat \cup {Forever}
BY DiffIsInt, HALFAssumption DEF CmsNext, GetLocals, Forever, int32

(* The locals of Get before it has looked at the clock.                    *)
LEMMA NoGetType == NoGet \in GetLocals
BY HALFAssumption DEF NoGet, GetLocals, Forever, uint32, LAST

(* Multiples of a positive number, from their factor.                      *)
LEMMA Multiples ==
    ASSUME NEW m \in Nat \ {0}, NEW k \in Int
    PROVE  /\ k >= 1 => m * k >= m
           /\ k >= 2 => m * k >= 2 * m
           /\ k <= -1 => m * k <= -m
           /\ m * k \in Int
<1>1. k >= 1 => m * k >= m
  <2> SUFFICES ASSUME k >= 1 PROVE m * k >= m OBVIOUS
  <2>1. m * (k - 1) >= 0 /\ m * k = m * (k - 1) + m OBVIOUS
  <2> QED BY <2>1
<1>2. k >= 2 => m * k >= 2 * m
  <2> SUFFICES ASSUME k >= 2 PROVE m * k >= 2 * m OBVIOUS
  <2>1. m * (k - 2) >= 0 /\ m * k = m * (k - 2) + 2 * m OBVIOUS
  <2> QED BY <2>1
<1>3. k <= -1 => m * k <= -m
  <2> SUFFICES ASSUME k <= -1 PROVE m * k <= -m OBVIOUS
  <2>1. m * (-1 - k) >= 0 /\ m * k = -m - m * (-1 - k) OBVIOUS
  <2> QED BY <2>1
<1> QED BY <1>1, <1>2, <1>3

(* A number is a multiple and a rest in one way only.                      *)
LEMMA RestIsUnique ==
    ASSUME NEW m \in Nat \ {0}, NEW q \in Int, NEW p \in Int,
           NEW r \in 0 .. m - 1, NEW s \in 0 .. m - 1, m * q + r = m * p + s
    PROVE  r = s
<1> DEFINE k == q - p
<1>1. k \in Int /\ m * q \in Int /\ m * p \in Int
  OBVIOUS
<1>2. m * k = m * q - m * p
  OBVIOUS
<1>3. m * k = s - r
  BY <1>1, <1>2
<1> HIDE DEF k
<1>4. k = 0
  BY <1>1, <1>3, Multiples
<1>5. m * k = 0
  BY <1>4
<1> QED BY <1>3, <1>5

(* The rest of a division.                                                 *)
LEMMA Rest ==
    ASSUME NEW m \in Nat \ {0}, NEW q \in Int, NEW r \in 0 .. m - 1,
           NEW t \in Int, t = m * q + r
    PROVE  t % m = r
<1>1. t % m \in 0 .. m - 1 /\ t = m * (t \div m) + (t % m) /\ t \div m \in Int
  OBVIOUS
<1> DEFINE p == t \div m
           s == t % m
<1>2. p \in Int /\ s \in 0 .. m - 1 /\ m * q + r = m * p + s
  BY <1>1
<1> HIDE DEF p, s
<1>3. r = s
  BY <1>2, RestIsUnique
<1> QED BY <1>3 DEF s

(* The same, the multiple and the rest named.                              *)
LEMMA Division ==
    ASSUME NEW m \in Nat \ {0}, NEW t \in Int
    PROVE  /\ t % m \in 0 .. m - 1
           /\ \E q \in Int : t = m * q + (t % m)
<1>1. t % m \in 0 .. m - 1 /\ t = m * (t \div m) + (t % m) /\ t \div m \in Int
  OBVIOUS
<1> QED BY <1>1

(* One more round.                                                         *)
LEMMA NextMultiple ==
    ASSUME NEW m \in Nat \ {0}, NEW q \in Int
    PROVE  m * q \in Int /\ m * (q + 1) = m * q + m
  OBVIOUS

(* Adding less than a round to a number passes at most one multiple.       *)
LEMMA LaterRest ==
    ASSUME NEW m \in Nat \ {0}, NEW t \in Int, NEW d \in 0 .. m - 1,
           NEW r \in 0 .. m - 1, t % m = r
    PROVE  (t + d) % m = IF r + d <= m - 1 THEN r + d ELSE r + d - m
<1>1. PICK q \in Int : t = m * q + r
  BY ONLY Division, t % m = r, m \in Nat \ {0}, t \in Int
<1>2. PICK u \in Int : u = t + d
  OBVIOUS
<1>3. PICK k \in Int : k = q + 1
  OBVIOUS
<1>4. PICK a \in Int : a = m * q
  BY ONLY NextMultiple, m \in Nat \ {0}, q \in Int
<1>5. PICK b \in Int : b = m * k /\ b = a + m
  BY ONLY NextMultiple, m \in Nat \ {0}, q \in Int, a \in Int, <1>3, <1>4
<1>6. CASE r + d <= m - 1
  <2>1. PICK x \in 0 .. m - 1 : x = r + d
    BY <1>6
  <2>2. u = a + x
    BY <1>1, <1>2, <1>4, <2>1
  <2>3. u = m * q + x
    BY ONLY <1>4, <2>2
  <2>4. u % m = x
    BY ONLY <2>3, Rest, m \in Nat \ {0}, q \in Int, u \in Int, x \in 0 .. m - 1
  <2> QED BY ONLY <1>2, <1>6, <2>1, <2>4
<1>7. CASE ~(r + d <= m - 1)
  <2>1. PICK x \in 0 .. m - 1 : x = r + d - m
    BY <1>7
  <2>2. u = b + x
    BY <1>1, <1>2, <1>4, <1>5, <2>1
  <2>3. u = m * k + x
    BY ONLY <1>5, <2>2
  <2>4. u % m = x
    BY ONLY <2>3, Rest, m \in Nat \ {0}, k \in Int, u \in Int, x \in 0 .. m - 1
  <2> QED BY ONLY <1>2, <1>7, <2>1, <2>4
<1> QED BY ONLY <1>6, <1>7

(* A later moment, on the wrapped clock.                                   *)
LEMMA Later ==
    ASSUME NEW t \in Nat, NEW d \in 0 .. 2 * HALF - 1
    PROVE  (t + d) % (2 * HALF) = Wrap((t % (2 * HALF)) + d)
<1>1. PICK m \in Nat \ {0} : m = 2 * HALF
  BY HALFAssumption
<1>2. t \in Int /\ d \in 0 .. m - 1
  BY <1>1
<1>3. PICK r \in 0 .. m - 1 : t % m = r
  BY ONLY Division, <1>2, m \in Nat \ {0}
<1>4. (t + d) % m = IF r + d <= m - 1 THEN r + d ELSE r + d - m
  BY ONLY LaterRest, <1>2, <1>3, m \in Nat \ {0}, r \in 0 .. m - 1
<1>5. Wrap(r + d) = IF r + d <= m - 1 THEN r + d ELSE r + d - m
  BY <1>1, <1>2, HALFAssumption DEF Wrap, LAST
<1>6. (t + d) % m = Wrap((t % m) + d)
  BY ONLY <1>3, <1>4, <1>5
<1> QED BY ONLY <1>1, <1>6

(* Erasing position i of a list: what is left comes from the list.         *)
LEMMA EraseAt ==
    ASSUME NEW S, NEW s \in Seq(S), NEW i \in 1 .. Len(s)
    PROVE  LET t == SubSeq(s, 1, i - 1) \o SubSeq(s, i + 1, Len(s))
           IN  /\ t \in Seq(S) /\ Len(t) = Len(s) - 1
               /\ \A j \in 1 .. Len(t) : t[j] = IF j < i THEN s[j] ELSE s[j + 1]
<1> DEFINE a == SubSeq(s, 1, i - 1)
           b == SubSeq(s, i + 1, Len(s))
<1>1. a \in Seq(S) /\ Len(a) = i - 1 /\ \A j \in 1 .. i - 1 : a[j] = s[j]
  OBVIOUS
<1>2. b \in Seq(S) /\ Len(b) = Len(s) - i /\ \A j \in 1 .. Len(s) - i : b[j] = s[i + j]
  OBVIOUS
<1> HIDE DEF a, b
<1>3. /\ a \o b \in Seq(S) /\ Len(a \o b) = Len(a) + Len(b)
      /\ \A j \in 1 .. Len(a) + Len(b) :
            (a \o b)[j] = IF j <= Len(a) THEN a[j] ELSE b[j - Len(a)]
  BY <1>1, <1>2, ConcatProperties
<1>4. ASSUME NEW j \in 1 .. Len(s) - 1 PROVE (a \o b)[j] = IF j < i THEN s[j] ELSE s[j + 1]
  <2>1. CASE j < i
    BY <1>1, <1>2, <1>3, <2>1
  <2>2. CASE ~(j < i)
    <3>1. PICK c, n, k : c = a \o b /\ n = Len(s) /\ k = j - (i - 1)
      OBVIOUS
    <3>2. /\ Len(a) = i - 1 /\ Len(b) = n - i /\ n \in Nat /\ i \in 1 .. n /\ j \in 1 .. n - 1
          /\ \A l \in 1 .. Len(a) + Len(b) : c[l] = IF l <= Len(a) THEN a[l] ELSE b[l - Len(a)]
      BY <1>1, <1>2, <1>3, <3>1
    <3>3. j \in 1 .. Len(a) + Len(b) /\ ~(j <= Len(a)) /\ j - Len(a) = k
      BY ONLY <2>2, <3>1, <3>2
    <3>4. c[j] = b[k]
      BY ONLY <3>2, <3>3
    <3>5. k \in 1 .. Len(s) - i /\ i + k = j + 1
      BY <2>2, <3>1
    <3>6. b[k] = s[j + 1]
      BY <1>2, <3>5
    <3> QED BY <2>2, <3>1, <3>4, <3>6
  <2> QED BY <2>1, <2>2
<1>5. Len(a \o b) = Len(s) - 1
  BY <1>1, <1>2, <1>3
<1> QED BY <1>3, <1>4, <1>5 DEF a, b

(* TimeDiff of two wrapped moments less than half a round apart.           *)
LEMMA DiffMeasures ==
    ASSUME NEW s \in Nat, NEW t \in Nat, t - s \in 1 - HALF .. HALF - 1
    PROVE  TimeDiff(t % (2 * HALF), s % (2 * HALF)) = t - s
<1> DEFINE m == 2 * HALF
<1>1. s % m \in 0 .. m - 1 /\ t % m \in 0 .. m - 1 BY HALFAssumption
<1>2. CASE s <= t
  <2>1. t % m = Wrap((s % m) + (t - s))
    <3>1. t - s \in 0 .. 2 * HALF - 1 /\ s + (t - s) = t BY <1>2, HALFAssumption
    <3> QED BY <3>1, Later
  <2> QED BY <1>1, <1>2, <2>1, HALFAssumption DEF Wrap, LAST, TimeDiff, Signed
<1>3. CASE t < s
  <2>1. s % m = Wrap((t % m) + (s - t))
    <3>1. s - t \in 0 .. 2 * HALF - 1 /\ t + (s - t) = s BY <1>3, HALFAssumption
    <3> QED BY <3>1, Later
  <2> QED BY <1>1, <1>3, <2>1, HALFAssumption DEF Wrap, LAST, TimeDiff, Signed
<1> QED BY <1>2, <1>3

(* Every variable keeps its type: in particular the locals of a call are   *)
(* those of that call, and a timeout passed to select() is kForever or is  *)
(* not negative.                                                           *)
THEOREM TypeCorrect == Spec => []TypeOK
<1> USE DEF queueVars, clientVars, historyVars
<1>1. Init => TypeOK
  <2> SUFFICES ASSUME Init PROVE TypeOK
    OBVIOUS
  <2>1. /\ pc \in [Clients -> {"idle", "enter", "signal", "quitsignal", "clear"}]
        /\ arg \in [Clients -> {NoArg} \cup PostArg \cup ClearArg]
        /\ \A p \in Clients : pc[p] = "idle"
    BY DEF Init
  <2>2. get \in GetLocals
    BY NoGetType DEF Init
  <2>3. now \in Nat /\ posts \in 0 .. MaxPosts /\ dmsgq_next_num_ \in Nat
    BY TimesAssumption DEF Init
  <2>4. msgq_ \in Seq(Message) /\ got \in Seq(Message)
    BY DEF Init
  <2> QED BY <2>1, <2>2, <2>3, <2>4 DEF Init, TypeOK
<1>2. TypeOK /\ [Next]_vars => TypeOK'
  <2> SUFFICES ASSUME TypeOK, [Next]_vars PROVE TypeOK'
    OBVIOUS
  <2> USE DEF TypeOK
  <2>1. ASSUME NEW p \in Clients, NEW h \in alive \cup {None},
               NEW id \in {"user", "MQID_DISPOSE"}, NEW delay \in Delays \cup {None},
               PostCall(p, h, id, delay)
        PROVE  TypeOK'
    <3>1. delay # None => TimeAfter(Time, delay) \in uint32 /\ now + delay \in Nat
      BY TimeInRange, TimeAfterInRange, TimesAssumption, HALFAssumption
    <3>2. arg'[p] \in PostArg
      BY <2>1, <3>1, TimesAssumption DEF PostCall, PostArg, Message
    <3>3. posts' \in 0 .. MaxPosts
      BY <2>1, TimesAssumption DEF PostCall
    <3> QED BY <2>1, <3>2, <3>3 DEF PostCall
  <2>2. ASSUME NEW p \in Clients, PostPush(p) PROVE TypeOK'
    BY <2>2 DEF PostPush, PostArg
  <2>3. ASSUME NEW p \in Clients, DelayPush(p) PROVE TypeOK'
    BY <2>3 DEF DelayPush, PostArg, DelayedMessage
  <2>4. ASSUME NEW p \in Clients, PostSignal(p) \/ QuitSignal(p) PROVE TypeOK'
    <3>1. CASE PostSignal(p) BY <3>1 DEF PostSignal
    <3>2. CASE QuitSignal(p) BY <3>2 DEF QuitSignal
    <3> QED BY <2>4, <3>1, <3>2
  <2>5. ASSUME NEW p \in Clients, QuitSet(p) PROVE TypeOK'
    BY <2>5 DEF QuitSet
  <2>6. ASSUME NEW p \in Clients, NEW h \in alive, DestroyInactive(p, h) PROVE TypeOK'
    BY <2>6 DEF DestroyInactive
  <2>7. ASSUME NEW p \in Clients, NEW h \in alive, ClearEnter(p, h) PROVE TypeOK'
    BY <2>7 DEF ClearEnter, ClearArg
  <2>8. ASSUME NEW p \in Clients, ClearErase(p) PROVE TypeOK'
    <3>1. PICK i \in DOMAIN msgq_ :
            msgq_' = SubSeq(msgq_, 1, i - 1) \o SubSeq(msgq_, i + 1, Len(msgq_))
      BY <2>8 DEF ClearErase
    <3>2. msgq_ \in Seq(Message) /\ i \in 1 .. Len(msgq_)
      OBVIOUS
    <3>3. msgq_' \in Seq(Message)
      BY ONLY <3>1, <3>2, EraseAt
    <3>4. UNCHANGED <<fStop_, fPeekKeep_, msgPeek_, active_, dmsgq_, dmsgq_next_num_, crit_,
                      fSignaled_, now, posts, pc, arg, cpc, get, got, alive>>
      BY <2>8 DEF ClearErase
    <3> QED BY <3>3, <3>4
  <2>9. ASSUME NEW p \in Clients, ClearLeave(p) PROVE TypeOK'
    BY <2>9 DEF ClearLeave
  <2>10. CASE GetPeeked
    <3>1. got' \in Seq(Message)
      BY <2>10 DEF GetPeeked
    <3> QED BY <2>10, <3>1 DEF GetPeeked
  <2>11. ASSUME NEW wait \in Waits, NEW peeking \in BOOLEAN, GetCall(wait, peeking)
         PROVE  TypeOK'
    <3>1. get' \in GetLocals
      BY <2>11, NoGetType, TimeInRange, TimesAssumption DEF GetCall, GetLocals
    <3> QED BY <2>11, <3>1 DEF GetCall
  <2>12. CASE ScanEnter \/ PassEnter \/ PopEmpty \/ StopSeen \/ SelectReady \/ PreEvent
              \/ SelectTimeout \/ SelectError \/ Restart \/ Tick
    <3>1. CASE ScanEnter BY <3>1 DEF ScanEnter
    <3>2. CASE PassEnter BY <3>2 DEF PassEnter
    <3>3. CASE PopEmpty BY <3>3 DEF PopEmpty
    <3>4. CASE StopSeen BY <3>4, NoGetType DEF StopSeen
    <3>5. CASE SelectReady BY <3>5 DEF SelectReady
    <3>6. CASE PreEvent BY <3>6 DEF PreEvent
    <3>7. CASE SelectTimeout BY <3>7 DEF SelectTimeout
    <3>8. CASE SelectError BY <3>8, NoGetType DEF SelectError
    <3>9. CASE Restart BY <3>9 DEF Restart
    <3>10. CASE Tick BY <3>10 DEF Tick
    <3> QED BY <2>12, <3>1, <3>2, <3>3, <3>4, <3>5, <3>6, <3>7, <3>8, <3>9, <3>10
  <2>13. CASE ScanMove
    BY <2>13 DEF ScanMove, DelayedMessage
  <2>14. CASE ScanDone
    <3>1. get' \in GetLocals
      <4>1. CASE UNCHANGED get
        BY <4>1
      <4>2. CASE ~UNCHANGED get
        <5>1. PICK d \in dmsgq_ :
                /\ TimeIsLater(get.msCurrent, d.msTrigger_)
                /\ get' = [get EXCEPT !.cmsDelayNext = TimeDiff(d.msTrigger_, get.msCurrent)]
          BY <2>14, <4>2 DEF ScanDone
        <5>2. d.msTrigger_ \in uint32 /\ get.msCurrent \in uint32 /\ get \in GetLocals
          BY DEF DelayedMessage, GetLocals
        <5>3. PICK n : n = TimeDiff(d.msTrigger_, get.msCurrent)
          OBVIOUS
        <5>4. n \in 1 .. HALF - 1
          BY ONLY <5>1, <5>2, <5>3, LaterIsPositive
        <5> QED
          BY ONLY <5>1, <5>2, <5>3, <5>4 DEF GetLocals
      <4> QED BY <4>1, <4>2
    <3> QED BY <2>14, <3>1 DEF ScanDone
  <2>15. CASE Pop
    <3>1. msgq_ # <<>> /\ Head(msgq_) \in Message /\ Tail(msgq_) \in Seq(Message)
      BY <2>15 DEF Pop
    <3> DEFINE m == Head(msgq_)
    <3>2. CASE m.message_id = "MQID_DISPOSE"
      BY <2>15, <3>1, <3>2 DEF Pop
    <3>3. CASE m.message_id # "MQID_DISPOSE" /\ get.peeking
      <4>1. cpc' = "keep" /\ get' = [get EXCEPT !.pmsg = m] /\ got' = got
        BY <2>15, <3>3, Zenon DEF Pop
      <4>2. get' \in GetLocals /\ get'.pmsg = m
        BY <3>1, <4>1 DEF GetLocals
      <4> QED BY <2>15, <3>1, <4>1, <4>2 DEF Pop
    <3>4. CASE m.message_id # "MQID_DISPOSE" /\ ~get.peeking
      <4>1. cpc' = "out" /\ got' = Append(got, m) /\ get' = NoGet
        BY <2>15, <3>4, Zenon DEF Pop
      <4> QED BY <2>15, <3>1, <4>1, NoGetType DEF Pop
    <3> QED BY <3>2, <3>3, <3>4
  <2>16. CASE PeekKeep
    BY <2>16, NoGetType DEF PeekKeep
  <2>17. CASE WaitEnter
    <3>1. get' \in GetLocals
      BY <2>17, CmsNextInRange DEF WaitEnter, GetLocals
    <3> QED BY <2>17, <3>1 DEF WaitEnter
  <2>18. CASE Elapsed
    <3> DEFINE again == [get EXCEPT !.msCurrent = Time, !.read = now, !.entered = 0,
                                    !.cmsDelayNext = Forever, !.cmsNext = Forever]
    <3>1. again \in GetLocals
      BY TimeInRange DEF GetLocals
    <3>2. \/ cpc' = "out" /\ get' = NoGet
          \/ cpc' = "scan" /\ get' = again
      BY <2>18, Zenon DEF Elapsed
    <3> QED BY <2>18, <3>1, <3>2, NoGetType DEF Elapsed
  <2>19. CASE UNCHANGED vars
    BY <2>19 DEF vars
  <2> QED
    BY <2>1, <2>2, <2>3, <2>4, <2>5, <2>6, <2>7, <2>8, <2>9, <2>10, <2>11, <2>12, <2>13,
       <2>14, <2>15, <2>16, <2>17, <2>18, <2>19
    DEF Next, ClientStep, ClientCall, GetStep, Get
<1> QED BY <1>1, <1>2, PTL DEF Spec
-----------------------------------------------------------------------------
(***************************************************************************)
(* No lost wake-up.  NoLostWakeup speaks of select() only; it is inductive *)
(* once the window between the unlock that saw the queue empty and the     *)
(* select() is included, in which Post may run but fStop_ is still to be   *)
(* tested.                                                                 *)
(***************************************************************************)
WakeInv == /\ cpc \in {"stopcheck", "select"} /\ msgq_ # <<>> => WakeUpPending
           /\ cpc = "select" /\ fStop_ => WakeUpPending

(* A step that leaves the consumer about to sleep either makes no message  *)
(* ready and no stop request, or is the first half of a wake-up.           *)
LEMMA WakeStep == ASSUME TypeOK, WakeInv, [Next]_vars PROVE WakeInv'
<1> USE DEF TypeOK, WakeInv, WakeUpPending, queueVars, clientVars, historyVars
<1>1. ASSUME NEW p \in Clients, ClientCall(p) PROVE WakeInv'
  BY <1>1 DEF ClientCall, PostCall, QuitSet, DestroyInactive, ClearEnter
<1>2. ASSUME NEW p \in Clients, PostPush(p) \/ DelayPush(p) PROVE WakeInv'
  BY <1>2 DEF PostPush, DelayPush
<1>3. ASSUME NEW p \in Clients, PostSignal(p) \/ QuitSignal(p) PROVE WakeInv'
  BY <1>3 DEF PostSignal, QuitSignal
<1>4. ASSUME NEW p \in Clients, ClearErase(p) \/ ClearLeave(p) PROVE WakeInv'
  BY <1>4 DEF ClearErase, ClearLeave
<1>5. CASE GetStep
  BY <1>5 DEF GetStep, ScanEnter, ScanMove, ScanDone, PopEmpty, Pop, PassEnter, PeekKeep,
      StopSeen, WaitEnter, SelectReady, PreEvent, SelectTimeout, Elapsed
<1>6. CASE Get \/ (\E wait \in Waits : GetCall(wait, TRUE)) \/ SelectError \/ Restart \/ Tick
  <2>1. CASE Tick BY <2>1 DEF Tick
  <2>2. cpc' \in {"out", "scan"} \/ Tick
    BY <1>6 DEF Get, GetPeeked, GetCall, SelectError, Restart
  <2> QED BY <2>1, <2>2
<1>7. CASE UNCHANGED vars
  BY <1>7 DEF vars
<1> QED BY <1>1, <1>2, <1>3, <1>4, <1>5, <1>6, <1>7 DEF Next, ClientStep

(* The consumer never sleeps over a ready message or a stop request with   *)
(* nobody about to wake it.                                                *)
THEOREM NoLostWakeupHolds == Spec => []NoLostWakeup
<1>1. Init => WakeInv
  BY DEF Init, WakeInv
<1>2. TypeOK /\ WakeInv /\ [Next]_vars => WakeInv'
  BY WakeStep
<1>3. WakeInv => NoLostWakeup
  BY DEF WakeInv, NoLostWakeup
<1> QED BY <1>1, <1>2, <1>3, TypeCorrect, PTL DEF Spec
-----------------------------------------------------------------------------
(***************************************************************************)
(* Destroyed handlers.  The invariant also says who holds crit_ when, that *)
(* a queue that holds a message is known to the manager, and that messages *)
(* on their way in (a client past the test of fStop_) or on their way out  *)
(* (Peek between Get and its own assignment) name live handlers.           *)
(***************************************************************************)
LiveOrNone(h) == h \in alive \cup {None}

CritInv == /\ \A p \in Clients : pc[p] \in {"signal", "clear"} => crit_ = p
           /\ cpc \in {"move", "pop"} => crit_ = Consumer

ActiveInv == msgq_ # <<>> \/ dmsgq_ # {} \/ fPeekKeep_ \/ cpc = "keep" => active_

HandlerInv ==
    /\ \A p \in Clients : pc[p] = "enter" => LiveOrNone(arg[p].msg.phandler)
    /\ cpc = "keep" => LiveOrNone(get.pmsg.phandler)
    /\ fPeekKeep_ => LiveOrNone(msgPeek_.phandler)
    /\ \A d \in dmsgq_ : LiveOrNone(d.msg_.phandler)
    /\ \A i \in DOMAIN msgq_ :
         \/ LiveOrNone(msgq_[i].phandler)
         \/ \E p \in Clients : pc[p] = "clear" /\ arg[p].clear = msgq_[i].phandler

(* At most one thread is inside crit_.                                     *)
LEMMA CritStep == ASSUME TypeOK, CritInv, [Next]_vars PROVE CritInv'
<1> USE ThreadsAssumption DEF TypeOK, CritInv, queueVars, clientVars, historyVars
<1>1. ASSUME NEW p \in Clients, ClientCall(p) PROVE CritInv'
  BY <1>1 DEF ClientCall, PostCall, QuitSet, DestroyInactive, ClearEnter
<1>2. ASSUME NEW p \in Clients, ClientStep(p) PROVE CritInv'
  BY <1>2 DEF ClientStep, PostPush, DelayPush, PostSignal, QuitSignal, ClearErase, ClearLeave
<1>3. CASE GetStep
  BY <1>3 DEF GetStep, ScanEnter, ScanMove, ScanDone, PopEmpty, Pop, PassEnter, PeekKeep,
      StopSeen, WaitEnter, SelectReady, PreEvent, SelectTimeout, Elapsed
<1>4. CASE Get \/ (\E wait \in Waits : GetCall(wait, TRUE)) \/ SelectError \/ Restart \/ Tick
  BY <1>4 DEF Get, GetPeeked, GetCall, SelectError, Restart, Tick
<1>5. CASE UNCHANGED vars
  BY <1>5 DEF vars
<1> QED BY <1>1, <1>2, <1>3, <1>4, <1>5 DEF Next

(* A queue that holds a message has registered with the manager.           *)
LEMMA ActiveStep == ASSUME TypeOK, ActiveInv, [Next]_vars PROVE ActiveInv'
<1> USE DEF TypeOK, ActiveInv, queueVars, clientVars, historyVars
<1>1. ASSUME NEW p \in Clients, ClientCall(p) PROVE ActiveInv'
  BY <1>1 DEF ClientCall, PostCall, QuitSet, DestroyInactive, ClearEnter
<1>2. ASSUME NEW p \in Clients, ClientStep(p) PROVE ActiveInv'
  BY <1>2 DEF ClientStep, PostPush, DelayPush, PostSignal, QuitSignal, ClearErase, ClearLeave
<1>3. CASE GetStep
  BY <1>3 DEF GetStep, ScanEnter, ScanMove, ScanDone, PopEmpty, Pop, PassEnter, PeekKeep,
      StopSeen, WaitEnter, SelectReady, PreEvent, SelectTimeout, Elapsed
<1>4. CASE Get \/ (\E wait \in Waits : GetCall(wait, TRUE)) \/ SelectError \/ Restart \/ Tick
  BY <1>4 DEF Get, GetPeeked, GetCall, SelectError, Restart, Tick
<1>5. CASE UNCHANGED vars
  BY <1>5 DEF vars
<1> QED BY <1>1, <1>2, <1>3, <1>4, <1>5 DEF Next

(* One step of the invariant about handlers, action by action.             *)
LEMMA HandlerStep ==
    ASSUME TypeOK, CritInv, ActiveInv, HandlerInv, [Next]_vars PROVE HandlerInv'
<1> USE ThreadsAssumption DEF TypeOK, HandlerInv, LiveOrNone, queueVars, clientVars,
        historyVars
<1>1. ASSUME NEW p \in Clients, NEW h \in alive \cup {None}, NEW id, NEW delay,
             PostCall(p, h, id, delay)
      PROVE  HandlerInv'
  BY <1>1 DEF PostCall
<1>2. ASSUME NEW p \in Clients, QuitSet(p) PROVE HandlerInv'
  BY <1>2 DEF QuitSet
<1>3. ASSUME NEW p \in Clients, NEW h \in alive, DestroyInactive(p, h) PROVE HandlerInv'
  BY <1>3 DEF DestroyInactive, Unnamed, ActiveInv
<1>4. ASSUME NEW p \in Clients, NEW h \in alive, ClearEnter(p, h) PROVE HandlerInv'
  <2>1. \A i \in DOMAIN msgq_ : LiveOrNone(msgq_[i].phandler)
    BY <1>4 DEF ClearEnter, CritInv
  <2>2. pc'[p] = "clear" /\ arg'[p].clear = h
    BY <1>4 DEF ClearEnter
  <2> QED BY <1>4, <2>1, <2>2 DEF ClearEnter, Unnamed, Match
<1>5. ASSUME NEW p \in Clients, PostPush(p) PROVE HandlerInv'
  <2>1. arg[p].msg \in Message /\ LiveOrNone(arg[p].msg.phandler)
    BY <1>5 DEF PostPush, PostArg
  <2>2. \A i \in DOMAIN msgq_' : msgq_'[i] = arg[p].msg \/ (i \in DOMAIN msgq_ /\ msgq_'[i] = msgq_[i])
    BY <1>5, <2>1 DEF PostPush
  <2>3. \A q \in Clients : pc[q] # "clear"
    BY <1>5 DEF PostPush, CritInv
  <2> QED BY <1>5, <2>1, <2>2, <2>3 DEF PostPush
<1>6. ASSUME NEW p \in Clients, DelayPush(p) PROVE HandlerInv'
  <2>1. \A d \in dmsgq_' : d \in dmsgq_ \/ d.msg_ = arg[p].msg
    BY <1>6 DEF DelayPush
  <2> QED BY <1>6, <2>1 DEF DelayPush
<1>7. ASSUME NEW p \in Clients, PostSignal(p) \/ QuitSignal(p) PROVE HandlerInv'
  <2>1. CASE PostSignal(p) BY <2>1 DEF PostSignal
  <2>2. CASE QuitSignal(p) BY <2>2 DEF QuitSignal
  <2> QED BY <1>7, <2>1, <2>2
<1>8. ASSUME NEW p \in Clients, ClearErase(p) PROVE HandlerInv'
  <2>1. PICK i \in DOMAIN msgq_ :
          msgq_' = SubSeq(msgq_, 1, i - 1) \o SubSeq(msgq_, i + 1, Len(msgq_))
    BY <1>8 DEF ClearErase
  <2>2. \A j \in DOMAIN msgq_' : \E k \in DOMAIN msgq_ : msgq_'[j] = msgq_[k]
    <3> DEFINE t == SubSeq(msgq_, 1, i - 1) \o SubSeq(msgq_, i + 1, Len(msgq_))
    <3>1. /\ t \in Seq(Message) /\ Len(t) = Len(msgq_) - 1
          /\ \A j \in 1 .. Len(t) : t[j] = IF j < i THEN msgq_[j] ELSE msgq_[j + 1]
      <4>1. i \in 1 .. Len(msgq_) /\ msgq_ \in Seq(Message) OBVIOUS
      <4> HIDE DEF TypeOK, HandlerInv
      <4> QED BY <4>1, EraseAt
    <3> HIDE DEF t
    <3>2. ASSUME NEW j \in 1 .. Len(t) PROVE \E k \in DOMAIN msgq_ : t[j] = msgq_[k]
      <4>1. CASE j < i
        <5>1. j \in DOMAIN msgq_ /\ t[j] = msgq_[j] BY <3>1, <4>1
        <5> QED BY <5>1
      <4>2. CASE ~(j < i)
        <5>1. j + 1 \in DOMAIN msgq_ /\ t[j] = msgq_[j + 1] BY <3>1, <4>2
        <5> QED BY <5>1
      <4> QED BY <4>1, <4>2
    <3>3. msgq_' = t /\ DOMAIN t = 1 .. Len(t)
      BY <2>1, <3>1 DEF t
    <3> QED BY <3>2, <3>3
  <2>3. UNCHANGED <<fPeekKeep_, msgPeek_, dmsgq_, pc, arg, cpc, get, alive>>
    BY <1>8 DEF ClearErase
  <2>4. \A j \in DOMAIN msgq_' :
          \/ LiveOrNone(msgq_'[j].phandler)
          \/ \E q \in Clients : pc[q] = "clear" /\ arg[q].clear = msgq_'[j].phandler
    BY <2>2
  <2> QED BY <2>3, <2>4
<1>9. ASSUME NEW p \in Clients, ClearLeave(p) PROVE HandlerInv'
  <2>1. \A q \in Clients : q # p => pc[q] # "clear"
    BY <1>9 DEF ClearLeave, CritInv
  <2>2. \A i \in DOMAIN msgq_ : LiveOrNone(msgq_[i].phandler)
    BY <1>9, <2>1 DEF ClearLeave, Match
  <2> QED BY <1>9, <2>1, <2>2 DEF ClearLeave
<1>10. CASE ScanMove
  <2>1. PICK d \in dmsgq_ : msgq_' = Append(msgq_, d.msg_) /\ dmsgq_' = dmsgq_ \ {d}
    BY <1>10 DEF ScanMove
  <2>2. \A i \in DOMAIN msgq_' : msgq_'[i] = d.msg_ \/ (i \in DOMAIN msgq_ /\ msgq_'[i] = msgq_[i])
    BY <2>1 DEF DelayedMessage
  <2> QED BY <1>10, <2>1, <2>2 DEF ScanMove
<1>11. CASE Pop
  <2>1. \A q \in Clients : pc[q] # "clear"
    BY <1>11 DEF Pop, CritInv
  <2>2. \A i \in DOMAIN msgq_' : i + 1 \in DOMAIN msgq_ /\ msgq_'[i] = msgq_[i + 1]
    BY <1>11 DEF Pop
  <2>3. LiveOrNone(Head(msgq_).phandler)
    BY <1>11, <2>1 DEF Pop
  <2>4. cpc' = "keep" => get' = [get EXCEPT !.pmsg = Head(msgq_)]
    BY <1>11, Zenon DEF Pop
  <2>5. cpc' = "keep" => get'.pmsg = Head(msgq_)
    BY <2>4 DEF GetLocals
  <2> QED BY <1>11, <2>1, <2>2, <2>3, <2>5 DEF Pop
<1>12. CASE ScanEnter \/ ScanDone \/ PassEnter \/ PopEmpty \/ StopSeen \/ WaitEnter
            \/ SelectReady \/ PreEvent \/ SelectTimeout \/ Elapsed
  <2>1. cpc' # "keep" /\ UNCHANGED <<fPeekKeep_, msgPeek_, msgq_, dmsgq_, pc, arg, alive>>
    BY <1>12 DEF ScanEnter, ScanDone, PassEnter, PopEmpty, StopSeen, WaitEnter, SelectReady,
         PreEvent, SelectTimeout, Elapsed
  <2> QED BY <2>1
<1>13. CASE PeekKeep
  BY <1>13 DEF PeekKeep
<1>14. CASE Get \/ (\E wait \in Waits : GetCall(wait, TRUE)) \/ SelectError \/ Restart \/ Tick
  <2>1. /\ cpc' # "keep" \/ (cpc' = cpc /\ get' = get)
        /\ fPeekKeep_' => fPeekKeep_
        /\ UNCHANGED <<msgPeek_, msgq_, dmsgq_, pc, arg, alive>>
    <3>1. CASE GetPeeked BY <3>1 DEF GetPeeked
    <3>2. CASE \E wait \in Waits, peeking \in BOOLEAN : GetCall(wait, peeking)
      BY <3>2 DEF GetCall
    <3>3. CASE SelectError \/ Restart BY <3>3 DEF SelectError, Restart
    <3>4. CASE Tick BY <3>4 DEF Tick
    <3> QED BY <1>14, <3>1, <3>2, <3>3, <3>4 DEF Get
  <2> QED BY <2>1
<1>15. CASE UNCHANGED vars
  BY <1>15 DEF vars
<1> QED
  BY <1>1, <1>2, <1>3, <1>4, <1>5, <1>6, <1>7, <1>8, <1>9, <1>10, <1>11, <1>12, <1>13, <1>14,
     <1>15
  DEF Next, ClientStep, ClientCall, GetStep

(* Once the destructor of a handler has returned, no queue holds a message *)
(* for it, so that Dispatch never calls a destroyed object.                *)
THEOREM DestroyedUnreachableHolds == Spec => []DestroyedUnreachable
<1>1. Init => CritInv /\ ActiveInv /\ HandlerInv
  BY DEF Init, CritInv, ActiveInv, HandlerInv, LiveOrNone
<1>2. TypeOK /\ CritInv /\ ActiveInv /\ HandlerInv /\ [Next]_vars
        => CritInv' /\ ActiveInv' /\ HandlerInv'
  BY CritStep, ActiveStep, HandlerStep
<1>3. TypeOK /\ HandlerInv => DestroyedUnreachable
  BY ThreadsAssumption DEF TypeOK, HandlerInv, DestroyedUnreachable, LiveOrNone
<1> QED BY <1>1, <1>2, <1>3, TypeCorrect, PTL DEF Spec
-----------------------------------------------------------------------------
(***************************************************************************)
(* The order of posts.  What was returned, what Peek holds and what is     *)
(* ready are in order, each and one after the other; a post that is past   *)
(* the test of fStop_ comes after all of them, since a thread makes one    *)
(* call at a time and the numbers grow.                                    *)
(***************************************************************************)
Precedes(m, k) == m.src = k.src /\ m.due = 0 /\ k.due = 0 => m.n < k.n

InSequence(s) == \A i, j \in DOMAIN s : i < j => Precedes(s[i], s[j])

AllPrecede(s, k) == \A i \in DOMAIN s : Precedes(s[i], k)

Held == (IF cpc = "keep" THEN {get.pmsg} ELSE {}) \cup (IF fPeekKeep_ THEN {msgPeek_} ELSE {})

OrderInv ==
    /\ cpc # "out" => ~fPeekKeep_
    /\ InSequence(got) /\ InSequence(msgq_)
    /\ \A j \in DOMAIN msgq_ : AllPrecede(got, msgq_[j])
    /\ \A m \in Held : AllPrecede(got, m) /\ \A j \in DOMAIN msgq_ : Precedes(m, msgq_[j])

NumberInv ==
    /\ now > 0
    /\ \A i \in DOMAIN got : got[i].n <= posts
    /\ \A i \in DOMAIN msgq_ : msgq_[i].n <= posts
    /\ \A m \in Held : m.n <= posts
    /\ \A d \in dmsgq_ : d.msg_.n <= posts /\ d.msg_.due > 0

PendingInv ==
    \A p \in Clients : pc[p] = "enter" =>
        /\ arg[p].msg.src = p /\ arg[p].msg.n <= posts
        /\ arg[p].trigger # None => arg[p].msg.due > 0
        /\ AllPrecede(got, arg[p].msg) /\ AllPrecede(msgq_, arg[p].msg)
        /\ \A m \in Held : Precedes(m, arg[p].msg)

(* Lists in order: one message more, the first one gone, one erased.       *)
LEMMA OrderedAppend ==
    ASSUME NEW s \in Seq(Message), NEW m \in Message
    PROVE  /\ InSequence(s) /\ AllPrecede(s, m) => InSequence(Append(s, m))
           /\ \A k \in Message : AllPrecede(s, k) /\ Precedes(m, k)
                                 => AllPrecede(Append(s, m), k)
           /\ \A i \in DOMAIN Append(s, m) :
                 Append(s, m)[i] = m \/ (i \in DOMAIN s /\ Append(s, m)[i] = s[i])
<1> DEFINE t == Append(s, m)
<1>1. /\ t \in Seq(Message) /\ Len(t) = Len(s) + 1 /\ t[Len(s) + 1] = m
      /\ \A i \in 1 .. Len(s) : t[i] = s[i]
  OBVIOUS
<1>2. DOMAIN t = 1 .. Len(s) + 1 /\ DOMAIN s = 1 .. Len(s) /\ Len(s) \in Nat
  BY <1>1
<1> HIDE DEF t
<1>3. \A i \in DOMAIN t : (i = Len(s) + 1 /\ t[i] = m) \/ (i \in DOMAIN s /\ t[i] = s[i])
  BY <1>1, <1>2
<1>4. ASSUME InSequence(s), AllPrecede(s, m) PROVE InSequence(t)
  <2> SUFFICES ASSUME NEW i \in DOMAIN t, NEW j \in DOMAIN t, i < j
               PROVE  Precedes(t[i], t[j])
    BY DEF InSequence
  <2>1. i \in DOMAIN s /\ t[i] = s[i]
    BY <1>2, <1>3
  <2>2. CASE j \in DOMAIN s /\ t[j] = s[j]
    BY <1>4, <2>1, <2>2 DEF InSequence
  <2>3. CASE t[j] = m
    BY <1>4, <2>1, <2>3 DEF AllPrecede
  <2> QED BY <1>3, <2>2, <2>3
<1>5. ASSUME NEW k \in Message, AllPrecede(s, k), Precedes(m, k) PROVE AllPrecede(t, k)
  BY <1>3, <1>5 DEF AllPrecede
<1> QED BY <1>3, <1>4, <1>5 DEF t

(* The rest of a list is in the order of the list.                         *)
LEMMA OrderedTail ==
    ASSUME NEW s \in Seq(Message), s # <<>>, InSequence(s)
    PROVE  /\ InSequence(Tail(s))
           /\ \A j \in DOMAIN Tail(s) : /\ Precedes(Head(s), Tail(s)[j])
                                        /\ j + 1 \in DOMAIN s /\ Tail(s)[j] = s[j + 1]
           /\ 1 \in DOMAIN s /\ Head(s) = s[1]
<1> DEFINE t == Tail(s)
<1>1. /\ t \in Seq(Message) /\ Len(t) = Len(s) - 1 /\ DOMAIN t = 1 .. Len(t)
      /\ \A j \in 1 .. Len(t) : t[j] = s[j + 1]
      /\ DOMAIN s = 1 .. Len(s) /\ Len(s) \in Nat /\ Len(s) >= 1 /\ Head(s) = s[1]
  OBVIOUS
<1> HIDE DEF t
<1>2. \A j \in DOMAIN t : j \in Nat /\ j >= 1 /\ j + 1 \in DOMAIN s /\ t[j] = s[j + 1]
  BY <1>1
<1>3. 1 \in DOMAIN s
  BY <1>1
<1>4. ASSUME NEW i \in DOMAIN t, NEW j \in DOMAIN t, i < j PROVE Precedes(t[i], t[j])
  <2>1. i + 1 < j + 1
    BY <1>2, <1>4
  <2> QED BY <1>2, <2>1 DEF InSequence
<1>5. ASSUME NEW j \in DOMAIN t PROVE Precedes(Head(s), t[j])
  <2>1. 1 < j + 1
    BY <1>2
  <2> QED BY <1>1, <1>2, <1>3, <2>1 DEF InSequence
<1> QED BY <1>1, <1>2, <1>3, <1>4, <1>5 DEF InSequence, t

(* So is what Clear leaves of it when it erases one message.               *)
LEMMA OrderedErase ==
    ASSUME NEW s \in Seq(Message), NEW i \in DOMAIN s
    PROVE  LET t == SubSeq(s, 1, i - 1) \o SubSeq(s, i + 1, Len(s))
           IN  /\ InSequence(s) => InSequence(t)
               /\ \A j \in DOMAIN t : \E k \in DOMAIN s : t[j] = s[k]
<1> DEFINE t == SubSeq(s, 1, i - 1) \o SubSeq(s, i + 1, Len(s))
           from(j) == IF j < i THEN j ELSE j + 1
<1>1. DOMAIN s = 1 .. Len(s) /\ i \in 1 .. Len(s) /\ Len(s) \in Nat
  OBVIOUS
<1>2. /\ t \in Seq(Message) /\ Len(t) = Len(s) - 1
      /\ \A j \in 1 .. Len(t) : t[j] = IF j < i THEN s[j] ELSE s[j + 1]
  BY <1>1, EraseAt
<1> HIDE DEF t
<1>3. DOMAIN t = 1 .. Len(t)
  BY <1>2
<1>4. ASSUME NEW j \in DOMAIN t
      PROVE  j \in Nat /\ from(j) \in DOMAIN s /\ from(j) \in Nat /\ t[j] = s[from(j)]
  <2>1. j \in 1 .. Len(s) - 1 /\ t[j] = IF j < i THEN s[j] ELSE s[j + 1]
    BY <1>1, <1>2, <1>3
  <2>2. CASE j < i
    BY <1>1, <2>1, <2>2
  <2>3. CASE ~(j < i)
    BY <1>1, <2>1, <2>3
  <2> QED BY <2>2, <2>3
<1>5. ASSUME NEW j \in DOMAIN t, NEW k \in DOMAIN t, j < k PROVE from(j) < from(k)
  BY <1>1, <1>4, <1>5
<1> HIDE DEF from
<1>6. ASSUME InSequence(s) PROVE InSequence(t)
  BY <1>4, <1>5, <1>6 DEF InSequence
<1> QED BY <1>4, <1>6 DEF t

(* A step that adds no message and no post in progress.                    *)
LEMMA OrderQuiet ==
    ASSUME OrderInv, NumberInv, PendingInv, TypeOK,
           UNCHANGED <<got, msgq_, posts, arg>>, dmsgq_' \subseteq dmsgq_,
           Held' \subseteq Held, now' \in Nat, now' >= now, cpc' # "out" => ~fPeekKeep_',
           \A p \in Clients : pc'[p] = "enter" => pc[p] = "enter"
    PROVE  OrderInv' /\ NumberInv' /\ PendingInv'
<1> USE DEF InSequence, AllPrecede, Precedes
<1>1. OrderInv' BY DEF OrderInv
<1>2. NumberInv' BY DEF NumberInv, TypeOK
<1>3. PendingInv' BY DEF PendingInv
<1> QED BY <1>1, <1>2, <1>3

(* One step keeps the posts of every thread in order.                      *)
LEMMA OrderStep ==
    ASSUME TypeOK, OrderInv, NumberInv, PendingInv, [Next]_vars
    PROVE  OrderInv' /\ NumberInv' /\ PendingInv'
<1> USE DEF queueVars, clientVars, historyVars
<1>t. /\ msgq_ \in Seq(Message) /\ got \in Seq(Message) /\ now \in Nat /\ posts \in Nat
      /\ \A p \in Clients : pc[p] = "enter" => arg[p].msg \in Message
      /\ \A d \in dmsgq_ : d.msg_ \in Message
      /\ Held \subseteq Message
      /\ \A i \in DOMAIN msgq_ : msgq_[i] \in Message
      /\ \A i \in DOMAIN got : got[i] \in Message
  BY DEF TypeOK, Held, PostArg, DelayedMessage
<1>1. ASSUME NEW p \in Clients, NEW h, NEW id, NEW delay \in Delays \cup {None},
             PostCall(p, h, id, delay)
      PROVE  OrderInv' /\ NumberInv' /\ PendingInv'
  <2>1. UNCHANGED <<got, msgq_, dmsgq_, fPeekKeep_, cpc, get, msgPeek_, now>> /\ posts' = posts + 1
    BY <1>1 DEF PostCall
  <2>2. Held' = Held
    BY <2>1 DEF Held
  <2>3. OrderInv'
    BY <2>1, <2>2 DEF OrderInv, InSequence, AllPrecede
  <2>4. NumberInv'
    BY <2>1, <2>2, <1>t DEF NumberInv, Message
  <2>5. /\ arg'[p].msg.src = p /\ arg'[p].msg.n = posts + 1
        /\ arg'[p].trigger # None => arg'[p].msg.due > 0
    BY <1>1, <1>t, TimesAssumption DEF PostCall, NumberInv, TypeOK
  <2>6. \A q \in Clients \ {p} : pc'[q] = pc[q] /\ arg'[q] = arg[q]
    BY <1>1 DEF PostCall, TypeOK
  <2>7. \A m \in Message : m.n <= posts => Precedes(m, arg'[p].msg)
    BY <2>5, <1>t DEF Precedes, Message
  <2>8. /\ AllPrecede(got', arg'[p].msg) /\ AllPrecede(msgq_', arg'[p].msg)
        /\ \A m \in Held' : Precedes(m, arg'[p].msg)
    BY <2>1, <2>2, <2>7, <1>t DEF AllPrecede, NumberInv
  <2>9. \A m \in Message : m.n <= posts => m.n <= posts'
    BY <2>1, <1>t DEF Message
  <2>10. ASSUME NEW q \in Clients, q # p, pc'[q] = "enter"
         PROVE  /\ arg'[q].msg.src = q /\ arg'[q].msg.n <= posts'
                /\ arg'[q].trigger # None => arg'[q].msg.due > 0
                /\ AllPrecede(got', arg'[q].msg) /\ AllPrecede(msgq_', arg'[q].msg)
                /\ \A m \in Held' : Precedes(m, arg'[q].msg)
    BY <2>1, <2>2, <2>6, <2>9, <2>10, <1>t DEF PendingInv
  <2>11. arg'[p].msg.n <= posts'
    BY <2>1, <2>5, <1>t
  <2>12. PendingInv'
    BY <2>5, <2>8, <2>10, <2>11 DEF PendingInv
  <2> QED BY <2>3, <2>4, <2>12
<1>2. ASSUME NEW p \in Clients, PostPush(p) PROVE OrderInv' /\ NumberInv' /\ PendingInv'
  <2> DEFINE m == arg[p].msg
  <2>1. /\ UNCHANGED <<got, dmsgq_, fPeekKeep_, cpc, get, msgPeek_, now, posts>>
        /\ msgq_' = Append(msgq_, m) /\ pc[p] = "enter" /\ m \in Message
        /\ pc'[p] = "signal"
        /\ \A q \in Clients \ {p} : pc'[q] = pc[q] /\ arg'[q] = arg[q]
    BY <1>2, <1>t DEF PostPush, TypeOK
  <2>2. Held' = Held
    BY <2>1 DEF Held
  <2>3. /\ AllPrecede(got, m) /\ AllPrecede(msgq_, m) /\ m.src = p /\ m.n <= posts
        /\ \A k \in Held : Precedes(k, m)
    BY <2>1 DEF PendingInv
  <2> HIDE DEF m
  <2>4. /\ InSequence(msgq_')
        /\ \A k \in Message : AllPrecede(msgq_, k) /\ Precedes(m, k) => AllPrecede(msgq_', k)
        /\ \A i \in DOMAIN msgq_' : msgq_'[i] = m \/ (i \in DOMAIN msgq_ /\ msgq_'[i] = msgq_[i])
    BY <2>1, <2>3, <1>t, OrderedAppend DEF OrderInv
  <2>5. OrderInv'
    <3>1. (cpc # "out" => ~fPeekKeep_)' /\ InSequence(got')
      BY <2>1 DEF OrderInv
    <3>2. \A j \in DOMAIN msgq_' : AllPrecede(got', msgq_'[j])
      BY <2>1, <2>3, <2>4 DEF OrderInv
    <3>3. \A k \in Held' : AllPrecede(got', k) /\ \A j \in DOMAIN msgq_' : Precedes(k, msgq_'[j])
      BY <2>1, <2>2, <2>3, <2>4 DEF OrderInv
    <3> QED BY <2>4, <3>1, <3>2, <3>3 DEF OrderInv
  <2>6. NumberInv'
    BY <2>1, <2>2, <2>3, <2>4 DEF NumberInv
  <2>7. ASSUME NEW q \in Clients, pc'[q] = "enter"
        PROVE  /\ arg'[q].msg.src = q /\ arg'[q].msg.n <= posts'
               /\ arg'[q].trigger # None => arg'[q].msg.due > 0
               /\ AllPrecede(got', arg'[q].msg) /\ AllPrecede(msgq_', arg'[q].msg)
               /\ \A k \in Held' : Precedes(k, arg'[q].msg)
    <3>1. q # p /\ pc[q] = "enter" /\ arg'[q] = arg[q] /\ arg[q].msg \in Message
      BY <2>1, <2>7, <1>t
    <3>2. Precedes(m, arg[q].msg)
      BY <2>3, <3>1 DEF PendingInv, Precedes
    <3> QED BY <2>1, <2>2, <2>4, <3>1, <3>2 DEF PendingInv
  <2> QED BY <2>5, <2>6, <2>7 DEF PendingInv
<1>3. ASSUME NEW p \in Clients, DelayPush(p) PROVE OrderInv' /\ NumberInv' /\ PendingInv'
  <2>1. /\ UNCHANGED <<got, msgq_, fPeekKeep_, cpc, get, msgPeek_, now, posts>>
        /\ \A d \in dmsgq_' : d \in dmsgq_ \/ d.msg_ = arg[p].msg
        /\ pc[p] = "enter" /\ arg[p].trigger # None /\ pc'[p] = "signal"
        /\ \A q \in Clients \ {p} : pc'[q] = pc[q] /\ arg'[q] = arg[q]
    BY <1>3, <1>t DEF DelayPush, TypeOK
  <2>2. Held' = Held
    BY <2>1 DEF Held
  <2>3. OrderInv'
    BY <2>1, <2>2 DEF OrderInv, InSequence, AllPrecede
  <2>4. NumberInv'
    BY <2>1, <2>2 DEF NumberInv, PendingInv
  <2>5. PendingInv'
    BY <2>1, <2>2 DEF PendingInv, AllPrecede
  <2> QED BY <2>3, <2>4, <2>5
<1>4. ASSUME NEW p \in Clients,
             PostSignal(p) \/ QuitSignal(p) \/ QuitSet(p)
             \/ \E h \in alive : DestroyInactive(p, h)
      PROVE  OrderInv' /\ NumberInv' /\ PendingInv'
  <2>1. /\ UNCHANGED <<got, msgq_, dmsgq_, fPeekKeep_, cpc, get, msgPeek_, now, posts, arg>>
        /\ \A q \in Clients : pc'[q] = "enter" => pc[q] = "enter"
    BY <1>4 DEF PostSignal, QuitSignal, QuitSet, DestroyInactive, TypeOK
  <2>2. Held' = Held /\ now' >= now /\ (cpc' # "out" => ~fPeekKeep_')
    BY <2>1, <1>t DEF Held, OrderInv
  <2> QED BY <2>1, <2>2, <1>t, OrderQuiet
<1>5. ASSUME NEW p \in Clients, NEW h \in alive, ClearEnter(p, h)
      PROVE  OrderInv' /\ NumberInv' /\ PendingInv'
  <2>1. /\ UNCHANGED <<got, msgq_, cpc, get, msgPeek_, now, posts>>
        /\ fPeekKeep_' => fPeekKeep_
        /\ dmsgq_' \subseteq dmsgq_ /\ pc[p] = "idle" /\ pc'[p] = "clear"
        /\ \A q \in Clients \ {p} : pc'[q] = pc[q] /\ arg'[q] = arg[q]
    BY <1>5 DEF ClearEnter, TypeOK
  <2>2. Held' \subseteq Held
    BY <2>1 DEF Held
  <2>3. OrderInv'
    BY <2>1, <2>2 DEF OrderInv, InSequence, AllPrecede
  <2>4. NumberInv'
    BY <2>1, <2>2 DEF NumberInv
  <2>5. PendingInv'
    BY <2>1, <2>2 DEF PendingInv, AllPrecede
  <2> QED BY <2>3, <2>4, <2>5
<1>6. ASSUME NEW p \in Clients, ClearErase(p) PROVE OrderInv' /\ NumberInv' /\ PendingInv'
  <2>1. PICK i \in DOMAIN msgq_ :
          msgq_' = SubSeq(msgq_, 1, i - 1) \o SubSeq(msgq_, i + 1, Len(msgq_))
    BY <1>6 DEF ClearErase
  <2>2. InSequence(msgq_') /\ \A j \in DOMAIN msgq_' : \E k \in DOMAIN msgq_ : msgq_'[j] = msgq_[k]
    BY <2>1, <1>t, OrderedErase DEF OrderInv
  <2>3. UNCHANGED <<got, dmsgq_, fPeekKeep_, cpc, get, msgPeek_, now, posts, arg, pc>>
    BY <1>6 DEF ClearErase
  <2>4. Held' = Held
    BY <2>3 DEF Held
  <2>5. OrderInv'
    BY <2>2, <2>3, <2>4 DEF OrderInv, AllPrecede
  <2>6. NumberInv'
    BY <2>2, <2>3, <2>4 DEF NumberInv
  <2>7. PendingInv'
    BY <2>2, <2>3, <2>4 DEF PendingInv, AllPrecede
  <2> QED BY <2>5, <2>6, <2>7
<1>7. ASSUME NEW p \in Clients, ClearLeave(p) PROVE OrderInv' /\ NumberInv' /\ PendingInv'
  <2>1. /\ UNCHANGED <<got, msgq_, dmsgq_, fPeekKeep_, cpc, get, msgPeek_, now, posts>>
        /\ pc'[p] = "idle"
        /\ \A q \in Clients \ {p} : pc'[q] = pc[q] /\ arg'[q] = arg[q]
    BY <1>7 DEF ClearLeave, TypeOK
  <2>2. Held' = Held
    BY <2>1 DEF Held
  <2>3. OrderInv'
    BY <2>1, <2>2 DEF OrderInv, InSequence, AllPrecede
  <2>4. NumberInv'
    BY <2>1, <2>2 DEF NumberInv
  <2>5. PendingInv'
    BY <2>1, <2>2 DEF PendingInv, AllPrecede
  <2> QED BY <2>3, <2>4, <2>5
<1>8. CASE ScanMove
  <2>1. PICK d \in dmsgq_ : msgq_' = Append(msgq_, d.msg_) /\ dmsgq_' = dmsgq_ \ {d}
    BY <1>8 DEF ScanMove
  <2> DEFINE m == d.msg_
  <2>2. UNCHANGED <<got, fPeekKeep_, cpc, get, msgPeek_, now, posts, arg, pc>>
    BY <1>8 DEF ScanMove
  <2>3. Held' = Held
    BY <2>2 DEF Held
  <2>4. m.due > 0 /\ m.n <= posts /\ m \in Message /\ msgq_' = Append(msgq_, m)
    BY <2>1, <1>t DEF NumberInv
  <2> HIDE DEF m
  <2>5. \A k \in Message : Precedes(k, m) /\ Precedes(m, k)
    BY <2>4 DEF Precedes, Message
  <2>6. AllPrecede(msgq_, m) /\ AllPrecede(got, m)
    BY <2>5, <1>t DEF AllPrecede
  <2>7. /\ InSequence(msgq_')
        /\ \A k \in Message : AllPrecede(msgq_, k) /\ Precedes(m, k) => AllPrecede(msgq_', k)
        /\ \A i \in DOMAIN msgq_' : msgq_'[i] = m \/ (i \in DOMAIN msgq_ /\ msgq_'[i] = msgq_[i])
    BY <2>4, <2>6, <1>t, OrderedAppend DEF OrderInv
  <2>8. OrderInv'
    <3>1. (cpc # "out" => ~fPeekKeep_)' /\ InSequence(got')
      BY <2>2 DEF OrderInv
    <3>2. \A j \in DOMAIN msgq_' : AllPrecede(got', msgq_'[j])
      BY <2>2, <2>6, <2>7 DEF OrderInv
    <3>3. \A k \in Held' : AllPrecede(got', k) /\ \A j \in DOMAIN msgq_' : Precedes(k, msgq_'[j])
      BY <2>2, <2>3, <2>5, <2>7, <1>t DEF OrderInv
    <3> QED BY <2>7, <3>1, <3>2, <3>3 DEF OrderInv
  <2>9. NumberInv'
    BY <2>1, <2>2, <2>3, <2>4, <2>7 DEF NumberInv
  <2>10. PendingInv'
    <3> SUFFICES ASSUME NEW q \in Clients, pc[q] = "enter"
                 PROVE  AllPrecede(msgq_', arg[q].msg)
      BY <2>2, <2>3 DEF PendingInv
    <3> QED BY <2>5, <2>7, <1>t DEF PendingInv
  <2> QED BY <2>8, <2>9, <2>10
<1>9. CASE Pop
  <2> DEFINE m == Head(msgq_)
             t == Tail(msgq_)
  <2>1. /\ cpc = "pop" /\ msgq_ # <<>> /\ msgq_' = t
        /\ UNCHANGED <<fPeekKeep_, msgPeek_, dmsgq_, now, pc, arg, posts>>
    BY <1>9 DEF Pop
  <2>2. \/ cpc' = "again" /\ get' = get /\ got' = got
        \/ cpc' = "keep" /\ get' = [get EXCEPT !.pmsg = m] /\ got' = got
        \/ cpc' = "out" /\ got' = Append(got, m)
    BY <1>9, Zenon DEF Pop
  <2>3. ~fPeekKeep_ /\ Held = {}
    BY <2>1 DEF OrderInv, Held
  <2>4. /\ InSequence(t)
        /\ \A j \in DOMAIN t : /\ Precedes(m, t[j])
                               /\ j + 1 \in DOMAIN msgq_ /\ t[j] = msgq_[j + 1]
        /\ 1 \in DOMAIN msgq_ /\ m = msgq_[1]
    BY <2>1, <1>t, OrderedTail DEF OrderInv
  <2>5. /\ m \in Message /\ AllPrecede(got, m) /\ m.n <= posts
        /\ \A q \in Clients : pc[q] = "enter" => Precedes(m, arg[q].msg)
    BY <2>4, <1>t DEF OrderInv, NumberInv, PendingInv, AllPrecede
  <2>6. \A j \in DOMAIN t : AllPrecede(got, t[j]) /\ t[j].n <= posts /\ t[j] \in Message
    BY <2>4, <1>t DEF OrderInv, NumberInv
  <2>7. \A q \in Clients : pc[q] = "enter" => AllPrecede(t, arg[q].msg)
    BY <2>4 DEF PendingInv, AllPrecede
  <2> HIDE DEF m, t
  <2>8. /\ Held' \subseteq {m} /\ (Held' # {} => got' = got)
        /\ got' = got \/ got' = Append(got, m)
        /\ cpc' # "out" => ~fPeekKeep_'
    BY <2>1, <2>2, <2>3 DEF Held, TypeOK, GetLocals
  <2>9. CASE got' = got
    <3>1. OrderInv'
      BY <2>1, <2>4, <2>5, <2>6, <2>8, <2>9 DEF OrderInv
    <3>2. NumberInv'
      BY <2>1, <2>5, <2>6, <2>8, <2>9 DEF NumberInv
    <3>3. PendingInv'
      BY <2>1, <2>5, <2>7, <2>8, <2>9 DEF PendingInv
    <3> QED BY <3>1, <3>2, <3>3
  <2>10. CASE got' = Append(got, m) /\ Held' = {}
    <3>1. /\ InSequence(got')
          /\ \A k \in Message : AllPrecede(got, k) /\ Precedes(m, k) => AllPrecede(got', k)
          /\ \A i \in DOMAIN got' : got'[i] = m \/ (i \in DOMAIN got /\ got'[i] = got[i])
      BY <2>5, <2>10, <1>t, OrderedAppend DEF OrderInv
    <3>2. \A j \in DOMAIN t : AllPrecede(got', t[j])
      BY <2>4, <2>6, <3>1
    <3>3. OrderInv'
      BY <2>1, <2>4, <2>8, <2>10, <3>1, <3>2 DEF OrderInv
    <3>4. NumberInv'
      BY <2>1, <2>5, <2>6, <2>10, <3>1 DEF NumberInv
    <3>5. PendingInv'
      BY <2>1, <2>5, <2>7, <2>10, <3>1, <1>t DEF PendingInv
    <3> QED BY <3>3, <3>4, <3>5
  <2> QED BY <2>8, <2>9, <2>10
<1>10. CASE GetPeeked
  <2> DEFINE m == msgPeek_
  <2>1. /\ cpc = "out" /\ fPeekKeep_ /\ ~fPeekKeep_' /\ got' = Append(got, m)
        /\ UNCHANGED <<msgq_, dmsgq_, cpc, get, now, pc, arg, posts>>
    BY <1>10 DEF GetPeeked
  <2>2. Held' = {} /\ m \in Held /\ m \in Message
    BY <2>1, <1>t DEF Held
  <2> HIDE DEF m
  <2>3. /\ InSequence(got')
        /\ \A k \in Message : AllPrecede(got, k) /\ Precedes(m, k) => AllPrecede(got', k)
        /\ \A i \in DOMAIN got' : got'[i] = m \/ (i \in DOMAIN got /\ got'[i] = got[i])
    BY <2>1, <2>2, <1>t, OrderedAppend DEF OrderInv
  <2>4. OrderInv'
    <3>1. \A j \in DOMAIN msgq_ : AllPrecede(got', msgq_[j])
      BY <2>2, <2>3, <1>t DEF OrderInv
    <3> QED BY <2>1, <2>2, <2>3, <3>1 DEF OrderInv
  <2>5. NumberInv'
    BY <2>1, <2>2, <2>3 DEF NumberInv
  <2>6. PendingInv'
    BY <2>1, <2>2, <2>3, <1>t DEF PendingInv
  <2> QED BY <2>4, <2>5, <2>6
<1>11. CASE PeekKeep
  <2>1. /\ cpc = "keep" /\ cpc' = "out" /\ msgPeek_' = get.pmsg
        /\ UNCHANGED <<got, msgq_, dmsgq_, now, pc, arg, posts>>
    BY <1>11 DEF PeekKeep
  <2>2. Held' \subseteq Held
    BY <2>1 DEF Held
  <2> QED BY <2>1, <2>2, <1>t, OrderQuiet
<1>12. CASE \/ ScanEnter \/ ScanDone \/ PopEmpty \/ PassEnter \/ StopSeen \/ WaitEnter
            \/ SelectReady \/ PreEvent \/ SelectTimeout \/ Elapsed \/ SelectError
            \/ Restart \/ Tick \/ \E wait \in Waits, peeking \in BOOLEAN : GetCall(wait, peeking)
  <2>1. /\ UNCHANGED <<got, msgq_, dmsgq_, fPeekKeep_, msgPeek_, posts, arg, pc>>
        /\ now' = now \/ now' = now + 1
    BY <1>12 DEF ScanEnter, ScanDone, PopEmpty, PassEnter, StopSeen, WaitEnter, SelectReady,
         PreEvent, SelectTimeout, Elapsed, SelectError, Restart, Tick, GetCall
  <2>2. /\ cpc' # "keep" \/ (cpc' = cpc /\ get' = get)
        /\ cpc' # "out" => ~fPeekKeep_
    BY <1>12 DEF ScanEnter, ScanDone, PopEmpty, PassEnter, StopSeen, WaitEnter, SelectReady,
         PreEvent, SelectTimeout, Elapsed, SelectError, Restart, Tick, GetCall, OrderInv
  <2>3. Held' \subseteq Held
    BY <2>1, <2>2 DEF Held
  <2>4. now' \in Nat /\ now' >= now
    BY <2>1, <1>t
  <2> QED BY <2>1, <2>2, <2>3, <2>4, OrderQuiet
<1>13. CASE UNCHANGED vars
  <2>1. UNCHANGED <<got, msgq_, dmsgq_, fPeekKeep_, msgPeek_, posts, arg, pc, cpc, get, now>>
    BY <1>13 DEF vars
  <2>2. Held' = Held
    BY <2>1 DEF Held
  <2> QED BY <2>1, <2>2, <1>t, OrderQuiet DEF OrderInv
<1>14. ASSUME NEW p \in Clients, ClientStep(p) \/ ClientCall(p)
       PROVE  OrderInv' /\ NumberInv' /\ PendingInv'
  BY <1>1, <1>2, <1>3, <1>4, <1>5, <1>6, <1>7, <1>14 DEF ClientStep, ClientCall
<1>15. CASE GetStep \/ Get \/ (\E wait \in Waits : GetCall(wait, TRUE)) \/ SelectError
            \/ Restart \/ Tick
  BY <1>8, <1>9, <1>10, <1>11, <1>12, <1>15 DEF GetStep, Get
<1> QED BY <1>13, <1>14, <1>15 DEF Next

(* Two lists in order, one after the other.                                *)
LEMMA OrderedConcat ==
    ASSUME NEW s \in Seq(Message), NEW t \in Seq(Message), InSequence(s), InSequence(t),
           \A j \in DOMAIN t : AllPrecede(s, t[j])
    PROVE  /\ InSequence(s \o t) /\ s \o t \in Seq(Message)
           /\ \A k \in Message : AllPrecede(s, k) /\ AllPrecede(t, k) => AllPrecede(s \o t, k)
<1> DEFINE c == s \o t
<1>1. /\ c \in Seq(Message) /\ Len(c) = Len(s) + Len(t)
      /\ \A i \in 1 .. Len(s) + Len(t) : c[i] = IF i <= Len(s) THEN s[i] ELSE t[i - Len(s)]
  BY ConcatProperties
<1>2. /\ DOMAIN c = 1 .. Len(s) + Len(t) /\ DOMAIN s = 1 .. Len(s) /\ DOMAIN t = 1 .. Len(t)
      /\ Len(s) \in Nat /\ Len(t) \in Nat
  BY <1>1
<1> HIDE DEF c
<1>3. ASSUME NEW i \in DOMAIN c
      PROVE  \/ i \in DOMAIN s /\ c[i] = s[i]
             \/ i > Len(s) /\ i - Len(s) \in DOMAIN t /\ c[i] = t[i - Len(s)]
  BY <1>1, <1>2
<1>4. ASSUME NEW i \in DOMAIN c, NEW j \in DOMAIN c, i < j PROVE Precedes(c[i], c[j])
  <2>1. CASE i \in DOMAIN s /\ c[i] = s[i]
    <3>1. CASE j \in DOMAIN s /\ c[j] = s[j]
      BY <1>4, <2>1, <3>1 DEF InSequence
    <3>2. CASE j - Len(s) \in DOMAIN t /\ c[j] = t[j - Len(s)]
      BY <2>1, <3>2 DEF AllPrecede
    <3> QED BY <1>3, <3>1, <3>2
  <2>2. CASE i > Len(s) /\ i - Len(s) \in DOMAIN t /\ c[i] = t[i - Len(s)]
    <3>1. j - Len(s) \in DOMAIN t /\ c[j] = t[j - Len(s)] /\ i - Len(s) < j - Len(s)
      BY <1>2, <1>3, <1>4, <2>2
    <3> QED BY <2>2, <3>1 DEF InSequence
  <2> QED BY <1>3, <2>1, <2>2
<1>5. ASSUME NEW k \in Message, AllPrecede(s, k), AllPrecede(t, k) PROVE AllPrecede(c, k)
  BY <1>3, <1>5 DEF AllPrecede
<1> QED BY <1>1, <1>4, <1>5 DEF InSequence, c

(* The parts in order make the whole in order.                             *)
LEMMA OrderWhole == ASSUME TypeOK, OrderInv PROVE PostOrder
<1> DEFINE k == IF cpc = "keep" THEN <<get.pmsg>> ELSE <<>>
           e == IF fPeekKeep_ THEN <<msgPeek_>> ELSE <<>>
<1>1. /\ got \in Seq(Message) /\ msgq_ \in Seq(Message) /\ k \in Seq(Message)
      /\ e \in Seq(Message) /\ (k = <<>> \/ e = <<>>)
      /\ \A i \in DOMAIN msgq_ : msgq_[i] \in Message
  BY DEF TypeOK, OrderInv
<1>2. /\ InSequence(k) /\ InSequence(e)
      /\ \A i \in DOMAIN k : k[i] \in Held /\ k[i] \in Message
      /\ \A i \in DOMAIN e : e[i] \in Held /\ e[i] \in Message
  BY DEF Held, TypeOK, InSequence
<1> HIDE DEF k, e
<1>3. /\ \A i \in DOMAIN k : AllPrecede(got, k[i])
      /\ \A i \in DOMAIN e : AllPrecede(got, e[i]) /\ AllPrecede(k, e[i])
  BY <1>1, <1>2 DEF OrderInv, AllPrecede
<1>4. /\ InSequence(got \o k) /\ got \o k \in Seq(Message)
      /\ \A m \in Message : AllPrecede(got, m) /\ AllPrecede(k, m) => AllPrecede(got \o k, m)
  BY <1>1, <1>2, <1>3, OrderedConcat DEF OrderInv
<1>5. /\ InSequence((got \o k) \o e) /\ (got \o k) \o e \in Seq(Message)
      /\ \A m \in Message : AllPrecede(got \o k, m) /\ AllPrecede(e, m)
                            => AllPrecede((got \o k) \o e, m)
  <2> DEFINE g == got \o k
  <2>1. /\ g \in Seq(Message) /\ InSequence(g) /\ e \in Seq(Message) /\ InSequence(e)
        /\ \A i \in DOMAIN e : AllPrecede(g, e[i])
    BY <1>1, <1>2, <1>3, <1>4
  <2> HIDE DEF g
  <2>2. /\ InSequence(g \o e) /\ g \o e \in Seq(Message)
        /\ \A m \in Message : AllPrecede(g, m) /\ AllPrecede(e, m) => AllPrecede(g \o e, m)
    BY ONLY <2>1, OrderedConcat
  <2> QED BY <2>2 DEF g
<1>6. \A j \in DOMAIN msgq_ : AllPrecede((got \o k) \o e, msgq_[j])
  <2>1. \A j \in DOMAIN msgq_ : AllPrecede(got, msgq_[j]) /\ AllPrecede(k, msgq_[j])
                                /\ AllPrecede(e, msgq_[j])
    BY <1>2 DEF OrderInv, AllPrecede
  <2> QED BY <2>1, <1>1, <1>4, <1>5
<1>7. InSequence(((got \o k) \o e) \o msgq_)
  BY <1>1, <1>5, <1>6, OrderedConcat DEF OrderInv
<1>8. InSequence(InOrder)
  BY <1>7, Zenon DEF InOrder, k, e
<1> HIDE DEF InOrder
<1> QED BY <1>8 DEF PostOrder, InSequence, Precedes

(* The immediate posts of a thread reach Get in the order of its calls,    *)
(* whatever is peeked, cleared or disposed of in between.                  *)
THEOREM PostOrderHolds == Spec => []PostOrder
<1>1. Init => OrderInv /\ NumberInv /\ PendingInv
  BY TimesAssumption DEF Init, OrderInv, NumberInv, PendingInv, Held, InSequence
<1>2. /\ TypeOK /\ OrderInv /\ NumberInv /\ PendingInv /\ [Next]_vars
      => OrderInv' /\ NumberInv' /\ PendingInv'
  BY OrderStep
<1>3. TypeOK /\ OrderInv => PostOrder
  BY OrderWhole
<1> QED BY <1>1, <1>2, <1>3, TypeCorrect, PTL DEF Spec
-----------------------------------------------------------------------------
(***************************************************************************)
(* Delayed messages.  The code keeps the wrapped time of delivery, and Get *)
(* compares it with a reading of the clock that may be old when it is      *)
(* used.  Timestamps can be compared over less than half a round of the    *)
(* clock, 24 days; what the theorems below suppose is that the owner of    *)
(* the queue does not stall for so long, and, where the priority queue is  *)
(* concerned, that its messages are due within one round of the clock,     *)
(* because the queue compares trigger times as plain numbers.              *)
(***************************************************************************)

(* Get uses the clock it read before it is out of date.                    *)
Prompt ==
    cpc \in {"scan", "move"} => \A delay \in Delays : now - get.read + delay < HALF

(* No delayed message is overdue for half a round of the clock.            *)
Attended == \A d \in dmsgq_ : now - d.msg_.due < HALF

(* The delayed messages are due within the same round of the clock.        *)
OneRound ==
    \E round \in Nat : \A d \in dmsgq_ :
        d.msg_.due \in 2 * HALF * round .. 2 * HALF * round + LAST

(* What a post promised, and what the queue knows of it at a time t.       *)
Stamped(due, trigger, t) ==
    trigger = due % (2 * HALF) /\ \E delay \in Delays : due <= t + delay

StampInv ==
    /\ \A d \in dmsgq_ : Stamped(d.msg_.due, d.msTrigger_, now)
    /\ \A p \in Clients : pc[p] = "enter" =>
         IF arg[p].trigger = None THEN arg[p].msg.due = 0
                                  ELSE Stamped(arg[p].msg.due, arg[p].trigger, now)

(* What Get knows of the time that it read.                                *)
ReadInv == get.msCurrent = get.read % (2 * HALF) /\ get.read <= now

DueInv ==
    /\ \A i \in DOMAIN got : got[i].due <= now
    /\ \A i \in DOMAIN msgq_ : msgq_[i].due <= now
    /\ \A m \in Held : m.due <= now

(* Time passes, and what was stamped remains so.                           *)
LEMMA StampedLater ==
    ASSUME NEW t \in Nat, NEW u \in Nat, u >= t, NEW due \in Nat, NEW trigger,
           Stamped(due, trigger, t)
    PROVE  Stamped(due, trigger, u)
<1>1. PICK delay \in Delays : due <= t + delay
  BY DEF Stamped
<1>2. delay \in Nat /\ due <= u + delay
  BY <1>1, TimesAssumption, HALFAssumption
<1> QED BY <1>2 DEF Stamped

(* TimeAfter stamps a message with its time of delivery, wrapped.          *)
LEMMA StampedNow ==
    ASSUME now \in Nat, NEW delay \in Delays
    PROVE  Stamped(now + delay, TimeAfter(Time, delay), now)
<1>1. delay \in 0 .. 2 * HALF - 1
  BY TimesAssumption, HALFAssumption
<1>2. (now + delay) % (2 * HALF) = TimeAfter(Time, delay)
  BY <1>1, Later DEF TimeAfter, Time
<1>3. now + delay <= now + delay
  BY <1>1
<1> QED BY <1>2, <1>3 DEF Stamped

(* Time never goes back.                                                   *)
LEMMA TimePasses == ASSUME TypeOK, [Next]_vars PROVE now' \in Nat /\ now' >= now
<1> USE DEF queueVars, clientVars, historyVars
<1>1. now' = now \/ now' = now + 1
  BY Zenon DEF Next, ClientStep, ClientCall, GetStep, Get, vars, PostCall, PostPush,
     DelayPush, PostSignal, QuitSet, QuitSignal, DestroyInactive, ClearEnter, ClearErase,
     ClearLeave, GetPeeked, GetCall, ScanEnter, ScanMove, ScanDone, PopEmpty, Pop, PassEnter,
     PeekKeep, StopSeen, WaitEnter, SelectReady, PreEvent, SelectTimeout, SelectError,
     Elapsed, Restart, Tick
<1>2. now \in Nat
  BY DEF TypeOK
<1> QED BY ONLY <1>1, <1>2

(* The stamps in the priority queue are those of its messages.             *)
LEMMA StampStep == ASSUME TypeOK, StampInv, [Next]_vars PROVE StampInv'
<1> USE DEF queueVars, clientVars, historyVars
<1>1. /\ now \in Nat /\ now' \in Nat /\ now' >= now
      /\ \A d \in dmsgq_ : d.msg_.due \in Nat
      /\ \A p \in Clients : pc[p] = "enter" => arg[p].msg.due \in Nat
  BY TimePasses DEF TypeOK, PostArg, DelayedMessage, Message
<1>2. \A d \in dmsgq_ : Stamped(d.msg_.due, d.msTrigger_, now')
  BY <1>1, StampedLater DEF StampInv
<1>3. \A p \in Clients : pc[p] = "enter" =>
         IF arg[p].trigger = None THEN arg[p].msg.due = 0
                                  ELSE Stamped(arg[p].msg.due, arg[p].trigger, now')
  BY <1>1, StampedLater DEF StampInv
<1>4. CASE /\ dmsgq_' \subseteq dmsgq_
           /\ \A p \in Clients : pc'[p] = "enter" => pc[p] = "enter" /\ arg'[p] = arg[p]
  BY <1>2, <1>3, <1>4 DEF StampInv
<1>5. ASSUME NEW p \in Clients, NEW h, NEW id, NEW delay \in Delays \cup {None},
             PostCall(p, h, id, delay)
      PROVE  StampInv'
  <2>1. /\ now' = now /\ dmsgq_' = dmsgq_
        /\ \A q \in Clients \ {p} : pc'[q] = pc[q] /\ arg'[q] = arg[q]
        /\ arg'[p].trigger = IF delay = None THEN None ELSE TimeAfter(Time, delay)
        /\ arg'[p].msg.due = IF delay = None THEN 0 ELSE now + delay
    BY <1>5 DEF PostCall, TypeOK
  <2>2. delay # None => Stamped(now + delay, TimeAfter(Time, delay), now)
    BY <1>1, StampedNow
  <2>3. IF arg'[p].trigger = None THEN arg'[p].msg.due = 0
                                  ELSE Stamped(arg'[p].msg.due, arg'[p].trigger, now)
    <3>1. CASE delay = None
      BY <2>1, <3>1
    <3>2. CASE delay # None
      <4>1. Time \in uint32 /\ delay \in 0 .. HALF - 1
        BY <1>1, <3>2, TimeInRange, TimesAssumption
      <4>2. TimeAfter(Time, delay) # None
        BY <4>1, TimeAfterInRange, ThreadsAssumption
      <4> QED BY <2>1, <2>2, <3>2, <4>2
    <3> QED BY <3>1, <3>2
  <2> QED BY <1>2, <1>3, <2>1, <2>3 DEF StampInv
<1>6. ASSUME NEW p \in Clients, DelayPush(p) PROVE StampInv'
  <2>1. /\ now' = now /\ pc[p] = "enter" /\ arg[p].trigger # None
        /\ dmsgq_' = dmsgq_ \cup {[msTrigger_ |-> arg[p].trigger,
                                   num_ |-> dmsgq_next_num_, msg_ |-> arg[p].msg]}
        /\ \A q \in Clients : pc'[q] = "enter" => pc[q] = "enter" /\ arg'[q] = arg[q]
    BY <1>6 DEF DelayPush, TypeOK
  <2>2. Stamped(arg[p].msg.due, arg[p].trigger, now)
    BY <2>1 DEF StampInv
  <2> QED BY <1>2, <1>3, <2>1, <2>2 DEF StampInv
<1>7. ASSUME NEW p \in Clients,
             \/ PostPush(p) \/ PostSignal(p) \/ QuitSignal(p) \/ ClearErase(p) \/ ClearLeave(p)
             \/ QuitSet(p) \/ \E h \in alive : DestroyInactive(p, h) \/ ClearEnter(p, h)
      PROVE  StampInv'
  BY <1>4, <1>7 DEF PostPush, PostSignal, QuitSignal, ClearErase, ClearLeave, QuitSet,
       DestroyInactive, ClearEnter, TypeOK
<1>8. CASE GetStep \/ Get \/ (\E wait \in Waits : GetCall(wait, TRUE)) \/ SelectError
           \/ Restart \/ Tick \/ UNCHANGED vars
  <2>1. dmsgq_' \subseteq dmsgq_ /\ UNCHANGED <<pc, arg>>
    BY <1>8 DEF GetStep, Get, vars, GetPeeked, GetCall, ScanEnter, ScanMove, ScanDone, PopEmpty,
         Pop, PassEnter, PeekKeep, StopSeen, WaitEnter, SelectReady, PreEvent, SelectTimeout,
         SelectError, Elapsed, Restart, Tick
  <2> QED BY <1>4, <2>1
<1> QED BY <1>5, <1>6, <1>7, <1>8 DEF Next, ClientStep, ClientCall

(* The clock of Get is the one it read.                                    *)
LEMMA ReadStep == ASSUME TypeOK, ReadInv, [Next]_vars PROVE ReadInv'
<1> USE DEF queueVars, clientVars, historyVars
<1>1. now \in Nat /\ get.read \in Nat /\ now' \in Nat /\ now' >= now
  BY TimePasses DEF TypeOK, GetLocals
<1>2. CASE get'.msCurrent = get.msCurrent /\ get'.read = get.read
  BY <1>1, <1>2 DEF ReadInv
<1>3. CASE get' = NoGet
  <2>1. get'.msCurrent = 0 /\ get'.read = 0
    BY <1>3 DEF NoGet
  <2>2. 0 % (2 * HALF) = 0
    BY HALFAssumption, 0 = (2 * HALF) * 0 + 0, Rest
  <2> QED BY <1>1, <2>1, <2>2 DEF ReadInv
<1>4. CASE get'.msCurrent = Time /\ get'.read = now /\ now' = now
  BY <1>1, <1>4 DEF ReadInv, Time
<1>5. ASSUME NEW wait, NEW peeking, GetCall(wait, peeking) PROVE ReadInv'
  BY <1>4, <1>5 DEF GetCall, NoGet
<1>6. CASE Elapsed
  BY <1>3, <1>4, <1>6 DEF Elapsed, TypeOK, GetLocals
<1>7. CASE ScanDone \/ Pop \/ WaitEnter
  BY <1>2, <1>3, <1>7 DEF ScanDone, Pop, WaitEnter, TypeOK, GetLocals
<1>8. CASE PeekKeep \/ StopSeen \/ SelectError
  BY <1>3, <1>8 DEF PeekKeep, StopSeen, SelectError
<1>9. CASE \/ ScanEnter \/ ScanMove \/ PopEmpty \/ PassEnter \/ SelectReady \/ PreEvent
           \/ SelectTimeout \/ GetPeeked \/ Restart \/ Tick \/ UNCHANGED vars
  BY <1>2, <1>9 DEF ScanEnter, ScanMove, PopEmpty, PassEnter, SelectReady, PreEvent,
     SelectTimeout, GetPeeked, Restart, Tick, vars
<1>10. ASSUME NEW p \in Clients, ClientStep(p) \/ ClientCall(p) PROVE ReadInv'
  BY <1>2, <1>10 DEF ClientStep, ClientCall, PostCall, PostPush, DelayPush, PostSignal, QuitSet,
     QuitSignal, DestroyInactive, ClearEnter, ClearErase, ClearLeave
<1> QED BY <1>5, <1>6, <1>7, <1>8, <1>9, <1>10 DEF Next, GetStep, Get

(* What Get compares when the clock it read is not out of date: a message  *)
(* that it finds due is due.                                               *)
LEMMA FoundDueIsDue ==
    ASSUME TypeOK, StampInv, ReadInv, Prompt, cpc = "move", NEW d \in dmsgq_,
           ~TimeIsLater(get.msCurrent, d.msTrigger_)
    PROVE  d.msg_.due <= now
<1> SUFFICES ASSUME d.msg_.due > now PROVE FALSE
  BY DEF TypeOK, DelayedMessage, Message
<1> DEFINE due == d.msg_.due
<1>1. PICK read \in 0 .. now : /\ get.msCurrent = read % (2 * HALF) /\ read = get.read
                               /\ \A delay \in Delays : now - read + delay < HALF
  BY DEF Prompt, ReadInv, TypeOK, GetLocals
<1>2. d.msTrigger_ = due % (2 * HALF) /\ \E delay \in Delays : due <= now + delay
  BY DEF StampInv, Stamped
<1>3. PICK delay \in Delays : due <= now + delay
  BY <1>2
<1>4. now \in Nat /\ read \in Nat /\ due \in Nat /\ delay \in Nat
  <2>1. now \in Nat /\ due \in Nat
    BY DEF TypeOK, DelayedMessage, Message
  <2>2. read \in Nat
    BY <2>1
  <2>3. delay \in Nat
    BY TimesAssumption
  <2> QED BY <2>1, <2>2, <2>3
<1>5. due - read \in 1 .. HALF - 1
  BY <1>1, <1>3, <1>4, HALFAssumption
<1> HIDE DEF due
<1>6. TimeDiff(due % (2 * HALF), read % (2 * HALF)) = due - read
  <2>1. due - read \in 1 - HALF .. HALF - 1
    BY <1>5, HALFAssumption
  <2> QED BY <2>1, <1>4, DiffMeasures
<1>7. TimeIsLater(read % (2 * HALF), due % (2 * HALF))
  <2> DEFINE a == read % (2 * HALF)
             b == due % (2 * HALF)
  <2>1. TimeDiff(b, a) > 0 /\ TimeDiff(b, a) < HALF
    BY <1>5, <1>6, HALFAssumption
  <2> HIDE DEF a, b
  <2>2. TimeIsLater(a, b)
    BY <2>1 DEF TimeIsLater, TimeDiff
  <2> QED BY <2>2 DEF a, b
<1> QED BY <1>1, <1>2, <1>7

(* One step makes no message ready before it is due.                       *)
LEMMA DueStep ==
    ASSUME TypeOK, OrderInv, StampInv, ReadInv, DueInv, Prompt, [Next]_vars PROVE DueInv'
<1> USE DEF queueVars, clientVars, historyVars
<1>1. /\ msgq_ \in Seq(Message) /\ got \in Seq(Message) /\ now \in Nat
      /\ now' \in Nat /\ now' >= now
      /\ \A i \in DOMAIN msgq_ : msgq_[i] \in Message
      /\ \A i \in DOMAIN got : got[i] \in Message
      /\ Held \subseteq Message
  BY TimePasses DEF TypeOK, Held
<1>2. \A m \in Message : m.due <= now => m.due <= now'
  BY <1>1 DEF Message
<1>3. ASSUME \A i \in DOMAIN got' : (\E j \in DOMAIN got : got'[i] = got[j])
                                  \/ (\E j \in DOMAIN msgq_ : got'[i] = msgq_[j])
                                  \/ got'[i] \in Held,
             \A i \in DOMAIN msgq_' : (\E j \in DOMAIN msgq_ : msgq_'[i] = msgq_[j])
                                    \/ (msgq_'[i] \in Message /\ msgq_'[i].due <= now),
             \A m \in Held' : m \in Held \/ (\E j \in DOMAIN msgq_ : m = msgq_[j])
      PROVE  DueInv'
  BY <1>1, <1>2, <1>3 DEF DueInv
<1>4. CASE /\ UNCHANGED <<got, msgq_>> /\ Held' \subseteq Held
  BY <1>3, <1>4
<1>5. ASSUME NEW p \in Clients, PostPush(p) PROVE DueInv'
  <2> DEFINE m == arg[p].msg
  <2>1. /\ UNCHANGED <<got, fPeekKeep_, msgPeek_, cpc, get>> /\ msgq_' = Append(msgq_, m)
        /\ m \in Message /\ m.due <= now
    BY <1>1, <1>5 DEF PostPush, StampInv, TypeOK, PostArg
  <2> HIDE DEF m
  <2>2. \A i \in DOMAIN msgq_' : msgq_'[i] = m \/ (i \in DOMAIN msgq_ /\ msgq_'[i] = msgq_[i])
    BY <1>1, <2>1, OrderedAppend
  <2>3. Held' = Held
    BY <2>1 DEF Held
  <2> QED BY <1>3, <2>1, <2>2, <2>3
<1>6. ASSUME NEW p \in Clients, ClearErase(p) PROVE DueInv'
  <2>1. PICK i \in DOMAIN msgq_ :
          msgq_' = SubSeq(msgq_, 1, i - 1) \o SubSeq(msgq_, i + 1, Len(msgq_))
    BY <1>6 DEF ClearErase
  <2>2. \A j \in DOMAIN msgq_' : \E k \in DOMAIN msgq_ : msgq_'[j] = msgq_[k]
    BY <2>1, <1>1, OrderedErase
  <2>3. UNCHANGED <<got, fPeekKeep_, msgPeek_, cpc, get>>
    BY <1>6 DEF ClearErase
  <2>4. Held' = Held
    BY <2>3 DEF Held
  <2> QED BY <1>3, <2>2, <2>3, <2>4
<1>7. ASSUME NEW p \in Clients,
             \/ DelayPush(p) \/ PostSignal(p) \/ QuitSignal(p) \/ ClearLeave(p)
             \/ ClientCall(p)
      PROVE  DueInv'
  <2>1. UNCHANGED <<got, msgq_, msgPeek_, cpc, get>> /\ (fPeekKeep_' => fPeekKeep_)
    BY <1>7 DEF DelayPush, PostSignal, QuitSignal, ClearLeave, ClientCall, PostCall, QuitSet,
         DestroyInactive, ClearEnter, TypeOK
  <2>2. Held' \subseteq Held
    BY <2>1 DEF Held
  <2> QED BY <1>4, <2>1, <2>2
<1>8. CASE ScanMove
  <2>1. PICK d \in dmsgq_ : /\ ~TimeIsLater(get.msCurrent, d.msTrigger_)
                            /\ msgq_' = Append(msgq_, d.msg_)
    BY <1>8 DEF ScanMove
  <2>2. cpc = "move" /\ UNCHANGED <<got, fPeekKeep_, msgPeek_, cpc, get>>
    BY <1>8 DEF ScanMove
  <2>3. d.msg_.due <= now
    BY <2>1, <2>2, FoundDueIsDue
  <2>4. d.msg_ \in Message
    BY DEF TypeOK, DelayedMessage
  <2>5. \A i \in DOMAIN msgq_' : msgq_'[i] = d.msg_ \/ (i \in DOMAIN msgq_ /\ msgq_'[i] = msgq_[i])
    BY <1>1, <2>1, <2>4, OrderedAppend
  <2>6. Held' = Held
    BY <2>2 DEF Held
  <2> QED BY <1>3, <2>2, <2>3, <2>4, <2>5, <2>6
<1>9. CASE Pop
  <2> DEFINE m == Head(msgq_)
  <2>1. /\ cpc = "pop" /\ msgq_ # <<>> /\ msgq_' = Tail(msgq_)
        /\ UNCHANGED <<fPeekKeep_, msgPeek_>>
    BY <1>9 DEF Pop
  <2>2. \/ cpc' = "again" /\ get' = get /\ got' = got
        \/ cpc' = "keep" /\ get' = [get EXCEPT !.pmsg = m] /\ got' = got
        \/ cpc' = "out" /\ got' = Append(got, m)
    BY <1>9, Zenon DEF Pop
  <2>3. /\ \A j \in DOMAIN msgq_' : j + 1 \in DOMAIN msgq_ /\ msgq_'[j] = msgq_[j + 1]
        /\ 1 \in DOMAIN msgq_ /\ m = msgq_[1] /\ m \in Message
    BY <1>1, <2>1, OrderedTail DEF OrderInv
  <2> HIDE DEF m
  <2>4. Held' \subseteq {m}
    BY <2>1, <2>2 DEF Held, TypeOK, GetLocals, OrderInv
  <2>5. \A i \in DOMAIN got' : got'[i] = m \/ (i \in DOMAIN got /\ got'[i] = got[i])
    <3>1. \A i \in DOMAIN Append(got, m) :
            Append(got, m)[i] = m \/ (i \in DOMAIN got /\ Append(got, m)[i] = got[i])
      BY <1>1, <2>3, OrderedAppend
    <3> QED BY <2>2, <3>1
  <2> QED BY <1>3, <2>3, <2>4, <2>5
<1>10. CASE GetPeeked
  <2>1. /\ fPeekKeep_ /\ ~fPeekKeep_' /\ got' = Append(got, msgPeek_)
        /\ cpc = "out" /\ UNCHANGED <<msgq_, cpc, get>>
    BY <1>10 DEF GetPeeked
  <2>2. Held' \subseteq Held /\ msgPeek_ \in Held
    BY <2>1 DEF Held
  <2>3. \A i \in DOMAIN got' : got'[i] = msgPeek_ \/ (i \in DOMAIN got /\ got'[i] = got[i])
    BY <1>1, <2>1, <2>2, OrderedAppend
  <2> QED BY <1>3, <2>1, <2>2, <2>3
<1>11. CASE PeekKeep
  <2>1. /\ cpc = "keep" /\ cpc' = "out" /\ msgPeek_' = get.pmsg /\ UNCHANGED <<got, msgq_>>
    BY <1>11 DEF PeekKeep
  <2>2. Held' \subseteq Held
    BY <2>1 DEF Held
  <2> QED BY <1>4, <2>1, <2>2
<1>12. CASE \/ ScanEnter \/ ScanDone \/ PopEmpty \/ PassEnter \/ StopSeen \/ WaitEnter
            \/ SelectReady \/ PreEvent \/ SelectTimeout \/ Elapsed \/ SelectError
            \/ Restart \/ Tick \/ \E wait \in Waits, peeking \in BOOLEAN : GetCall(wait, peeking)
  <2>1. /\ UNCHANGED <<got, msgq_, fPeekKeep_, msgPeek_>>
        /\ cpc' # "keep" \/ (cpc' = cpc /\ get' = get)
    BY <1>12 DEF ScanEnter, ScanDone, PopEmpty, PassEnter, StopSeen, WaitEnter, SelectReady,
         PreEvent, SelectTimeout, Elapsed, SelectError, Restart, Tick, GetCall
  <2>2. Held' \subseteq Held
    BY <2>1 DEF Held
  <2> QED BY <1>4, <2>1, <2>2
<1>13. CASE UNCHANGED vars
  <2>1. UNCHANGED <<got, msgq_, fPeekKeep_, msgPeek_, cpc, get>>
    BY <1>13 DEF vars
  <2>2. Held' \subseteq Held
    BY <2>1 DEF Held
  <2> QED BY <1>4, <2>1, <2>2
<1>14. ASSUME NEW p \in Clients, ClientStep(p) \/ ClientCall(p) PROVE DueInv'
  BY <1>5, <1>6, <1>7, <1>14 DEF ClientStep
<1>15. CASE GetStep \/ Get \/ (\E wait \in Waits : GetCall(wait, TRUE)) \/ SelectError
            \/ Restart \/ Tick
  BY <1>8, <1>9, <1>10, <1>11, <1>12, <1>15 DEF GetStep, Get
<1> QED BY <1>13, <1>14, <1>15 DEF Next

(* At the start nothing is queued.                                         *)
LEMMA StampInit == Init => StampInv /\ ReadInv /\ DueInv
<1>1. Init => StampInv /\ DueInv
  BY DEF Init, StampInv, DueInv, Held
<1>2. 0 % (2 * HALF) = 0
  BY HALFAssumption, 0 = (2 * HALF) * 0 + 0, Rest
<1>3. Init => ReadInv
  BY <1>2, TimesAssumption DEF Init, ReadInv, NoGet
<1> QED BY <1>1, <1>3

(* Get never returns a delayed message before its time, although it takes  *)
(* the decision on a clock reading from before it got crit_, provided the  *)
(* reading is used within half a round of the clock.                       *)
THEOREM NeverEarlyHolds == Spec /\ []Prompt => []NeverEarly
<1>1. Init => OrderInv /\ NumberInv /\ PendingInv
  BY TimesAssumption DEF Init, OrderInv, NumberInv, PendingInv, Held, InSequence
<1>2. TypeOK /\ OrderInv /\ NumberInv /\ PendingInv /\ [Next]_vars
      => OrderInv' /\ NumberInv' /\ PendingInv'
  BY OrderStep
<1>3. TypeOK /\ StampInv /\ ReadInv /\ [Next]_vars => StampInv' /\ ReadInv'
  BY StampStep, ReadStep
<1>4. TypeOK /\ OrderInv /\ StampInv /\ ReadInv /\ DueInv /\ Prompt /\ [Next]_vars => DueInv'
  BY DueStep
<1>5. DueInv => NeverEarly
  BY DEF DueInv, NeverEarly
<1> QED BY <1>1, <1>2, <1>3, <1>4, <1>5, StampInit, TypeCorrect, PTL DEF Spec

(* Within one round of the clock stamps are as far apart as times.         *)
LEMMA SameDistance ==
    ASSUME TypeOK, StampInv, OneRound, NEW d \in dmsgq_, NEW e \in dmsgq_
    PROVE  d.msTrigger_ - e.msTrigger_ = d.msg_.due - e.msg_.due
<1> DEFINE m == 2 * HALF
<1>1. PICK round \in Nat : \A f \in dmsgq_ : f.msg_.due \in m * round .. m * round + LAST
  BY DEF OneRound
<1>2. m \in Nat \ {0} /\ m * round \in Int /\ LAST = m - 1
  BY HALFAssumption DEF LAST
<1>3. ASSUME NEW f \in dmsgq_ PROVE f.msTrigger_ = f.msg_.due - m * round /\ f.msg_.due \in Int
  <2> DEFINE t == f.msg_.due
             r == t - m * round
  <2>1. t \in Nat /\ t \in m * round .. m * round + LAST
    BY <1>1 DEF TypeOK, DelayedMessage, Message
  <2>2. r \in 0 .. m - 1 /\ t = m * round + r
    BY <1>2, <2>1
  <2>3. f.msTrigger_ = t % m
    BY DEF StampInv, Stamped
  <2> HIDE DEF t, m, r
  <2>4. t % m = r
    BY <1>2, <2>1, <2>2, Rest
  <2> QED BY <2>1, <2>3, <2>4 DEF t, m, r
<1> HIDE DEF m
<1> QED BY <1>2, <1>3

(* messagequeue.h promises that delayed messages leave in the order of     *)
(* their times, and of their posts where the times are equal; so they do   *)
(* while they are due within one round of the clock.                       *)
THEOREM DelayedOrderHolds == Spec /\ []OneRound => DelayedOrder
<1> DEFINE Sorted == cpc = "move" => \A d \in dmsgq_ \ dmsgq_', e \in dmsgq_' :
                        \/ d.msg_.due < e.msg_.due
                        \/ d.msg_.due = e.msg_.due /\ d.num_ < e.num_
<1>1. Init => CritInv /\ StampInv
  BY StampInit DEF Init, CritInv
<1>2. TypeOK /\ CritInv /\ StampInv /\ [Next]_vars => CritInv' /\ StampInv'
  BY CritStep, StampStep
<1>3. TypeOK /\ CritInv /\ StampInv /\ OneRound /\ [Next]_vars => [Sorted]_vars
  <2> USE DEF queueVars, clientVars, historyVars
  <2> SUFFICES ASSUME TypeOK, CritInv, StampInv, OneRound, Next, cpc = "move",
                      NEW d \in dmsgq_ \ dmsgq_', NEW e \in dmsgq_'
               PROVE  \/ d.msg_.due < e.msg_.due
                      \/ d.msg_.due = e.msg_.due /\ d.num_ < e.num_
    OBVIOUS
  <2>1. crit_ # None
    BY ThreadsAssumption DEF CritInv
  <2>2. ScanMove
    BY <2>1 DEF Next, ClientStep, ClientCall, GetStep, Get, PostCall, PostPush, DelayPush,
       PostSignal, QuitSet, QuitSignal, DestroyInactive, ClearEnter, ClearErase, ClearLeave,
       GetPeeked, GetCall, ScanEnter, ScanDone, PopEmpty, Pop, PassEnter, PeekKeep,
       StopSeen, WaitEnter, SelectReady, PreEvent, SelectTimeout, SelectError, Elapsed,
       Restart, Tick
  <2>3. e \in dmsgq_ /\ IsTop(d) /\ e # d
    BY <2>2 DEF ScanMove
  <2>4. Before(d, e)
    BY <2>3 DEF IsTop
  <2>5. d.msTrigger_ - e.msTrigger_ = d.msg_.due - e.msg_.due
    BY <2>3, SameDistance
  <2>6. d.msTrigger_ \in Int /\ e.msTrigger_ \in Int /\ d.msg_.due \in Int /\ e.msg_.due \in Int
    BY <2>3 DEF TypeOK, DelayedMessage, Message, uint32
  <2> QED BY <2>4, <2>5, <2>6 DEF Before
<1> QED BY <1>1, <1>2, <1>3, TypeCorrect, PTL DEF Spec, DelayedOrder

(***************************************************************************)
(* The timeout of select().  It is computed from the message at the top    *)
(* while crit_ is held; from then on either nothing was added, or who      *)
(* added it is on its way to the pipe or has been there.                   *)
(***************************************************************************)
CoverInv ==
    /\ cpc \in {"pop", "again", "stopcheck"} /\ ~WakeUpPending =>
         \A d \in dmsgq_ : /\ get.cmsDelayNext # Forever
                           /\ get.read + get.cmsDelayNext <= d.msg_.due
    /\ cpc = "select" /\ ~WakeUpPending =>
         \A d \in dmsgq_ : get.cmsNext # Forever /\ get.read + get.cmsNext <= d.msg_.due

(* The message at the top of the priority queue is the next one to come.   *)
LEMMA TopIsNext ==
    ASSUME TypeOK, StampInv, ReadInv, Prompt, Attended, OneRound, cpc = "move",
           NEW d \in dmsgq_, IsTop(d), NEW e \in dmsgq_
    PROVE  get.read + TimeDiff(d.msTrigger_, get.msCurrent) <= e.msg_.due
<1>1. PICK read \in 0 .. now : /\ get.msCurrent = read % (2 * HALF) /\ read = get.read
                               /\ \A delay \in Delays : now - read + delay < HALF
  BY DEF Prompt, ReadInv, TypeOK, GetLocals
<1>2. now \in Nat /\ read \in Nat
  BY DEF TypeOK
<1>3. ASSUME NEW f \in dmsgq_
      PROVE  TimeDiff(f.msTrigger_, get.msCurrent) = f.msg_.due - read
  <2> DEFINE t == f.msg_.due
  <2>1. t \in Nat /\ now - t < HALF
    BY DEF TypeOK, DelayedMessage, Message, Attended
  <2>2. f.msTrigger_ = t % (2 * HALF) /\ \E delay \in Delays : t <= now + delay
    BY DEF StampInv, Stamped
  <2>3. PICK delay \in Delays : t <= now + delay
    BY <2>2
  <2>4. delay \in Nat /\ now - read + delay < HALF
    BY <1>1, TimesAssumption
  <2> HIDE DEF t
  <2>5. t - read \in 1 - HALF .. HALF - 1
    BY <1>2, <2>1, <2>3, <2>4, HALFAssumption
  <2>6. TimeDiff(t % (2 * HALF), read % (2 * HALF)) = t - read
    BY <1>2, <2>1, <2>5, DiffMeasures
  <2> QED BY <1>1, <2>2, <2>6 DEF t
<1>4. /\ d.msTrigger_ \in Int /\ e.msTrigger_ \in Int /\ d.msg_.due \in Int /\ e.msg_.due \in Int
      /\ d.msTrigger_ <= e.msTrigger_
  <2>1. d = e \/ Before(d, e)
    BY DEF IsTop
  <2> QED BY <2>1 DEF TypeOK, DelayedMessage, Message, uint32, Before
<1>5. d.msg_.due <= e.msg_.due
  BY <1>4, SameDistance
<1>6. read + (d.msg_.due - read) <= e.msg_.due
  BY <1>2, <1>4, <1>5
<1> QED BY <1>1, <1>3, <1>6

(* The shorter of the two waits does not outlast the delayed messages.     *)
LEMMA CmsNextCovers ==
    ASSUME NEW g \in GetLocals, g.cmsDelayNext # Forever
    PROVE  CmsNext(g) # Forever /\ CmsNext(g) <= g.cmsDelayNext
<1>1. TimeDiff(g.msCurrent, g.msStart) \in Int
  BY DiffIsInt, HALFAssumption DEF GetLocals, int32
<1>2. g.cmsWait \in Int /\ g.cmsDelayNext \in Nat
  BY HALFAssumption DEF GetLocals, Forever
<1> QED BY <1>1, <1>2 DEF CmsNext, Forever

(* One step keeps the delayed messages covered.                            *)
LEMMA CoverStep ==
    ASSUME TypeOK, StampInv, ReadInv, CoverInv, Prompt, Attended, OneRound, [Next]_vars
    PROVE  CoverInv'
<1> USE DEF queueVars, clientVars, historyVars, WakeUpPending
<1>1. ASSUME NEW p \in Clients, DelayPush(p) \/ PostSignal(p) \/ QuitSignal(p) \/ PostPush(p)
      PROVE  CoverInv'
  <2>1. WakeUpPending'
    BY <1>1 DEF DelayPush, PostSignal, QuitSignal, PostPush, TypeOK
  <2> QED BY <2>1 DEF CoverInv
<1>2. CASE /\ UNCHANGED <<cpc, get>> /\ dmsgq_' \subseteq dmsgq_
           /\ WakeUpPending => WakeUpPending'
  BY <1>2 DEF CoverInv
<1>3. ASSUME NEW p \in Clients, ClientCall(p) \/ ClearErase(p) \/ ClearLeave(p) PROVE CoverInv'
  <2>1. UNCHANGED <<cpc, get, fSignaled_>> /\ dmsgq_' \subseteq dmsgq_
    BY <1>3 DEF ClientCall, PostCall, QuitSet, DestroyInactive, ClearEnter, ClearErase, ClearLeave
  <2>2. \A q \in Clients : pc[q] \in {"signal", "quitsignal"} => pc'[q] = pc[q]
    BY <1>3 DEF ClientCall, PostCall, QuitSet, DestroyInactive, ClearEnter, ClearErase,
         ClearLeave, TypeOK
  <2> QED BY <1>2, <2>1, <2>2
<1>4. CASE ScanDone
  <2>1. cpc = "move" /\ cpc' = "pop" /\ UNCHANGED <<dmsgq_, pc, fSignaled_>>
    BY <1>4 DEF ScanDone
  <2>2. CASE dmsgq_ = {}
    BY <2>1, <2>2 DEF CoverInv
  <2>3. CASE dmsgq_ # {}
    <3>1. PICK d \in dmsgq_ :
             /\ IsTop(d) /\ TimeIsLater(get.msCurrent, d.msTrigger_)
             /\ get' = [get EXCEPT !.cmsDelayNext = TimeDiff(d.msTrigger_, get.msCurrent)]
      BY <1>4, <2>3 DEF ScanDone
    <3>2. get'.cmsDelayNext = TimeDiff(d.msTrigger_, get.msCurrent)
          /\ get'.read = get.read
      BY <3>1 DEF TypeOK, GetLocals
    <3>3. get'.cmsDelayNext # Forever
      <4>1. TimeDiff(d.msTrigger_, get.msCurrent) \in 1 .. HALF - 1
        BY <3>1, LaterIsPositive DEF TypeOK, GetLocals, DelayedMessage
      <4> QED BY <3>2, <4>1 DEF Forever
    <3>4. \A e \in dmsgq_ :
             get.read + TimeDiff(d.msTrigger_, get.msCurrent) <= e.msg_.due
      BY <2>1, <3>1, TopIsNext
    <3> QED BY <2>1, <3>2, <3>3, <3>4 DEF CoverInv
  <2> QED BY <2>2, <2>3
<1>5. CASE WaitEnter
  <2>1. /\ cpc = "stopcheck" /\ cpc' = "select" /\ UNCHANGED <<dmsgq_, pc, fSignaled_>>
        /\ get'.cmsNext = CmsNext(get) /\ get'.read = get.read
    BY <1>5 DEF WaitEnter, TypeOK, GetLocals
  <2>2. SUFFICES ASSUME ~WakeUpPending, NEW d \in dmsgq_
                 PROVE  /\ CmsNext(get) # Forever
                        /\ get.read + CmsNext(get) <= d.msg_.due
    BY <2>1 DEF CoverInv
  <2>3. /\ get.cmsDelayNext # Forever
        /\ get.read + get.cmsDelayNext <= d.msg_.due
    BY <2>1, <2>2 DEF CoverInv
  <2>4. CmsNext(get) # Forever /\ CmsNext(get) <= get.cmsDelayNext
    BY <2>3, CmsNextCovers DEF TypeOK
  <2>5. d.msg_.due \in Int /\ get.read \in Int
    BY DEF TypeOK, GetLocals, DelayedMessage, Message
  <2>6. CmsNext(get) \in Int /\ get.cmsDelayNext \in Int
    BY CmsNextInRange, HALFAssumption DEF TypeOK, GetLocals, Forever
  <2> QED BY <2>3, <2>4, <2>5, <2>6
<1>6. CASE Pop
  <2>1. cpc' \in {"out", "keep"} \/ (cpc = "pop" /\ cpc' = "again" /\ get' = get)
    BY <1>6, Zenon DEF Pop
  <2>2. UNCHANGED <<dmsgq_, pc, fSignaled_>>
    BY <1>6 DEF Pop
  <2> QED BY <2>1, <2>2 DEF CoverInv
<1>7. CASE PopEmpty \/ PassEnter
  BY <1>7 DEF PopEmpty, PassEnter, CoverInv
<1>8. CASE \/ ScanEnter \/ ScanMove \/ PeekKeep \/ StopSeen \/ SelectReady \/ PreEvent
           \/ SelectTimeout \/ Elapsed \/ SelectError \/ Restart \/ GetPeeked
           \/ \E wait \in Waits, peeking \in BOOLEAN : GetCall(wait, peeking)
  <2>1. cpc' \notin {"pop", "again", "stopcheck", "select"}
    BY <1>8 DEF ScanEnter, ScanMove, PeekKeep, StopSeen, SelectReady, PreEvent, SelectTimeout,
         Elapsed, SelectError, Restart, GetPeeked, GetCall
  <2> QED BY <2>1 DEF CoverInv
<1>9. CASE Tick \/ UNCHANGED vars
  BY <1>2, <1>9 DEF Tick, vars
<1> QED BY <1>1, <1>3, <1>4, <1>5, <1>6, <1>7, <1>8, <1>9 DEF Next, ClientStep, GetStep, Get

(* select() lets no delayed message wait longer than the time for which    *)
(* the owner was on its way from its look at the clock to select(), unless *)
(* a wake-up is coming.  Supposed: the owner uses the clock it read, and   *)
(* looks after its messages, within half a round of the clock, and the     *)
(* delayed messages are due within one round.                              *)
THEOREM DelayCoveredHolds == Spec /\ [](Prompt /\ Attended /\ OneRound) => []DelayCovered
<1>1. Init => StampInv /\ ReadInv /\ CoverInv
  BY StampInit DEF Init, CoverInv
<1>2. TypeOK /\ StampInv /\ ReadInv /\ [Next]_vars => StampInv' /\ ReadInv'
  BY StampStep, ReadStep
<1>3. /\ TypeOK /\ StampInv /\ ReadInv /\ CoverInv /\ (Prompt /\ Attended /\ OneRound)
      /\ [Next]_vars
      => CoverInv'
  BY CoverStep
<1>4. TypeOK /\ CoverInv => DelayCovered
  <2> SUFFICES ASSUME TypeOK, CoverInv, cpc = "select", ~WakeUpPending, NEW d \in dmsgq_
               PROVE  get.cmsNext # Forever /\ WakeAt <= d.msg_.due + Lag
    BY DEF DelayCovered
  <2>1. get.cmsNext # Forever /\ get.read + get.cmsNext <= d.msg_.due
    BY DEF CoverInv
  <2>2. d.msg_.due \in Int /\ get.read \in Int /\ get.cmsNext \in Int /\ get.entered \in Int
    BY DEF TypeOK, GetLocals, DelayedMessage, Message, Forever
  <2> QED BY <2>1, <2>2 DEF WakeAt, Lag
<1> QED BY <1>1, <1>2, <1>3, <1>4, TypeCorrect, PTL DEF Spec
=============================================================================
