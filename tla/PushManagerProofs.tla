------------------------- MODULE PushManagerProofs -------------------------
(***************************************************************************)
(* The invariants of module PushManager, for any finite number of devices, *)
(* any calls of the application and any bounds.  The inductive invariant   *)
(* has two parts.  Typed gives the types, what is left of every call (one  *)
(* of the tails of the programs) and from that who can hold which lock;    *)
(* Lines follows the plate results: each device numbers its results, and   *)
(* along the way queue thread, push thread, event, callback the numbers    *)
(* decrease, so that what is appended to one station is above all that has *)
(* passed it.                                                              *)
(***************************************************************************)
EXTENDS PushManager, SelectionProofs, SequenceTheorems, FiniteSetTheorems, FunctionTheorems

(* What CloseService has left to do once it holds crit_section_.           *)
Closing == {<<"wait", "ask", "wait", "ask", "wait">>, <<"ask", "wait", "ask", "wait">>,
            <<"wait", "ask", "wait">>, <<"ask", "wait">>, <<"wait">>}
(* What a request has left to do while it holds the lock of the module.    *)
Locking == {<<"wait">>, <<"wait", "resume">>, <<"wait", "later">>}
(* What is left of a call that holds neither.                              *)
Starting == {<<"service", "lock", "wait">>, <<"lock", "wait">>,
             <<"service", "record", "wait">>, <<"record", "wait">>,
             <<"service", "callback", "receive", "wait">>, <<"callback", "receive", "wait">>,
             <<"receive", "wait">>,
             <<"service", "lock", "wait", "resume">>, <<"lock", "wait", "resume">>, <<"resume">>,
             <<"service", "hold", "wait", "ask", "wait", "ask", "wait">>,
             <<"hold", "wait", "ask", "wait", "ask", "wait">>,
             <<"lock", "wait", "later">>, <<"later">>}
Todos == Starting \cup Closing \cup Locking


(* One step of a call leaves another of the sequences above, or nothing.   *)
Posts == {"lock", "record", "hold", "ask", "receive"}
Stepped(s) ==
    LET r == Tail(s) IN
    /\ s # <<>> /\ r \in Todos \cup {<<>>}
    /\ Head(s) = "lock" => r \in Locking
    /\ Head(s) \in {"hold", "ask"} => r \in Closing
    /\ (r # <<>> /\ Head(r) = "wait") => Head(s) \in Posts
    /\ s \in Closing => Head(s) \in {"wait", "ask"} /\ (r = <<>> \/ r \in Closing)
    /\ s \in Locking => Head(s) = "wait"
    /\ Head(s) \in Posts => r # <<>>

(* The first steps of the sequences above.                                 *)
LEMMA Heads ==
    /\ \A s \in Starting : s # <<>> /\ Head(s) \notin {"wait", "ask"}
    /\ \A s \in Closing : s # <<>> /\ Head(s) \in {"wait", "ask"}
    /\ \A s \in Locking : s # <<>> /\ Head(s) = "wait"
  BY DEF Starting, Closing, Locking

(* A call that holds no lock goes on to one of the sequences.              *)
LEMMA SteppedStarting == \A s \in Starting : Stepped(s)
<1> SUFFICES ASSUME NEW s \in Starting PROVE Stepped(s)
  OBVIOUS
<1>1. CASE s = <<"service", "lock", "wait">>
  <2>1. s # <<>> /\ Head(s) = "service" /\ Tail(s) = <<"lock", "wait">>
    BY <1>1
  <2>2. /\ <<"lock", "wait">> \in Starting
        /\ <<"lock", "wait">> # <<>> /\ Head(<<"lock", "wait">>) = "lock"
    BY DEF Starting
  <2> QED
    BY <2>1, <2>2, Heads DEF Stepped, Todos, Posts
<1>2. CASE s = <<"lock", "wait">>
  <2>1. s # <<>> /\ Head(s) = "lock" /\ Tail(s) = <<"wait">>
    BY <1>2
  <2>2. /\ <<"wait">> \in Closing /\ <<"wait">> \in Locking
        /\ <<"wait">> # <<>> /\ Head(<<"wait">>) = "wait"
    BY DEF Closing, Locking
  <2> QED
    BY <2>1, <2>2, Heads DEF Stepped, Todos, Posts
<1>3. CASE s = <<"service", "callback", "receive", "wait">>
  <2>1. s # <<>> /\ Head(s) = "service" /\ Tail(s) = <<"callback", "receive", "wait">>
    BY <1>3
  <2>2. /\ <<"callback", "receive", "wait">> \in Starting
        /\ <<"callback", "receive", "wait">> # <<>>
        /\ Head(<<"callback", "receive", "wait">>) = "callback"
    BY DEF Starting
  <2> QED
    BY <2>1, <2>2, Heads DEF Stepped, Todos, Posts
<1>4. CASE s = <<"callback", "receive", "wait">>
  <2>1. s # <<>> /\ Head(s) = "callback" /\ Tail(s) = <<"receive", "wait">>
    BY <1>4
  <2>2. /\ <<"receive", "wait">> \in Starting
        /\ <<"receive", "wait">> # <<>> /\ Head(<<"receive", "wait">>) = "receive"
    BY DEF Starting
  <2> QED
    BY <2>1, <2>2, Heads DEF Stepped, Todos, Posts
<1>5. CASE s = <<"receive", "wait">>
  <2>1. s # <<>> /\ Head(s) = "receive" /\ Tail(s) = <<"wait">>
    BY <1>5
  <2>2. /\ <<"wait">> \in Closing /\ <<"wait">> \in Locking
        /\ <<"wait">> # <<>> /\ Head(<<"wait">>) = "wait"
    BY DEF Closing, Locking
  <2> QED
    BY <2>1, <2>2, Heads DEF Stepped, Todos, Posts
<1>6. CASE s = <<"service", "lock", "wait", "resume">>
  <2>1. s # <<>> /\ Head(s) = "service" /\ Tail(s) = <<"lock", "wait", "resume">>
    BY <1>6
  <2>2. /\ <<"lock", "wait", "resume">> \in Starting
        /\ <<"lock", "wait", "resume">> # <<>> /\ Head(<<"lock", "wait", "resume">>) = "lock"
    BY DEF Starting
  <2> QED
    BY <2>1, <2>2, Heads DEF Stepped, Todos, Posts
<1>7. CASE s = <<"lock", "wait", "resume">>
  <2>1. s # <<>> /\ Head(s) = "lock" /\ Tail(s) = <<"wait", "resume">>
    BY <1>7
  <2>2. /\ <<"wait", "resume">> \in Locking
        /\ <<"wait", "resume">> # <<>> /\ Head(<<"wait", "resume">>) = "wait"
    BY DEF Locking
  <2> QED
    BY <2>1, <2>2, Heads DEF Stepped, Todos, Posts
<1>8. CASE s = <<"resume">>
  <2>1. s # <<>> /\ Head(s) = "resume" /\ Tail(s) = <<>>
    BY <1>8
  <2> QED
    BY <2>1, Heads DEF Stepped, Todos, Posts
<1>9. CASE s = <<"service", "hold", "wait", "ask", "wait", "ask", "wait">>
  <2>1. s # <<>> /\ Head(s) = "service" /\ Tail(s) = <<"hold", "wait", "ask", "wait", "ask", "wait">>
    BY <1>9
  <2>2. /\ <<"hold", "wait", "ask", "wait", "ask", "wait">> \in Starting
        /\ <<"hold", "wait", "ask", "wait", "ask", "wait">> # <<>>
        /\ Head(<<"hold", "wait", "ask", "wait", "ask", "wait">>) = "hold"
    BY DEF Starting
  <2> QED
    BY <2>1, <2>2, Heads DEF Stepped, Todos, Posts
<1>10. CASE s = <<"hold", "wait", "ask", "wait", "ask", "wait">>
  <2>1. s # <<>> /\ Head(s) = "hold" /\ Tail(s) = <<"wait", "ask", "wait", "ask", "wait">>
    BY <1>10
  <2>2. /\ <<"wait", "ask", "wait", "ask", "wait">> \in Closing
        /\ <<"wait", "ask", "wait", "ask", "wait">> # <<>>
        /\ Head(<<"wait", "ask", "wait", "ask", "wait">>) = "wait"
    BY DEF Closing
  <2> QED
    BY <2>1, <2>2, Heads DEF Stepped, Todos, Posts
<1>11. CASE s = <<"lock", "wait", "later">>
  <2>1. s # <<>> /\ Head(s) = "lock" /\ Tail(s) = <<"wait", "later">>
    BY <1>11
  <2>2. /\ <<"wait", "later">> \in Locking
        /\ <<"wait", "later">> # <<>> /\ Head(<<"wait", "later">>) = "wait"
    BY DEF Locking
  <2> QED
    BY <2>1, <2>2, Heads DEF Stepped, Todos, Posts
<1>12. CASE s = <<"later">>
  <2>1. s # <<>> /\ Head(s) = "later" /\ Tail(s) = <<>>
    BY <1>12
  <2> QED
    BY <2>1, Heads DEF Stepped, Todos, Posts
<1>13. CASE s = <<"service", "record", "wait">>
  <2>1. s # <<>> /\ Head(s) = "service" /\ Tail(s) = <<"record", "wait">>
    BY <1>13
  <2>2. /\ <<"record", "wait">> \in Starting
        /\ <<"record", "wait">> # <<>> /\ Head(<<"record", "wait">>) = "record"
    BY DEF Starting
  <2> QED
    BY <2>1, <2>2, Heads DEF Stepped, Todos, Posts
<1>14. CASE s = <<"record", "wait">>
  <2>1. s # <<>> /\ Head(s) = "record" /\ Tail(s) = <<"wait">>
    BY <1>14
  <2>2. /\ <<"wait">> \in Closing /\ <<"wait">> \in Locking
        /\ <<"wait">> # <<>> /\ Head(<<"wait">>) = "wait"
    BY DEF Closing, Locking
  <2> QED
    BY <2>1, <2>2, Heads DEF Stepped, Todos, Posts
<1> QED
  BY <1>1, <1>2, <1>3, <1>4, <1>5, <1>6, <1>7, <1>8, <1>9, <1>10, <1>11, <1>12, <1>13, <1>14
     DEF Starting

(* CloseService goes on closing until it is through.                       *)
LEMMA SteppedClosing == \A s \in Closing : Stepped(s)
<1> SUFFICES ASSUME NEW s \in Closing PROVE Stepped(s)
  OBVIOUS
<1>1. CASE s = <<"wait", "ask", "wait", "ask", "wait">>
  <2>1. s # <<>> /\ Head(s) = "wait" /\ Tail(s) = <<"ask", "wait", "ask", "wait">>
    BY <1>1
  <2>2. /\ <<"ask", "wait", "ask", "wait">> \in Closing
        /\ <<"ask", "wait", "ask", "wait">> # <<>>
        /\ Head(<<"ask", "wait", "ask", "wait">>) = "ask"
    BY DEF Closing
  <2> QED
    BY <2>1, <2>2, Heads DEF Stepped, Todos, Posts
<1>2. CASE s = <<"ask", "wait", "ask", "wait">>
  <2>1. s # <<>> /\ Head(s) = "ask" /\ Tail(s) = <<"wait", "ask", "wait">>
    BY <1>2
  <2>2. /\ <<"wait", "ask", "wait">> \in Closing
        /\ <<"wait", "ask", "wait">> # <<>> /\ Head(<<"wait", "ask", "wait">>) = "wait"
    BY DEF Closing
  <2> QED
    BY <2>1, <2>2, Heads DEF Stepped, Todos, Posts
<1>3. CASE s = <<"wait", "ask", "wait">>
  <2>1. s # <<>> /\ Head(s) = "wait" /\ Tail(s) = <<"ask", "wait">>
    BY <1>3
  <2>2. /\ <<"ask", "wait">> \in Closing
        /\ <<"ask", "wait">> # <<>> /\ Head(<<"ask", "wait">>) = "ask"
    BY DEF Closing
  <2> QED
    BY <2>1, <2>2, Heads DEF Stepped, Todos, Posts
<1>4. CASE s = <<"ask", "wait">>
  <2>1. s # <<>> /\ Head(s) = "ask" /\ Tail(s) = <<"wait">>
    BY <1>4
  <2>2. /\ <<"wait">> \in Closing /\ <<"wait">> \in Locking
        /\ <<"wait">> # <<>> /\ Head(<<"wait">>) = "wait"
    BY DEF Closing, Locking
  <2> QED
    BY <2>1, <2>2, Heads DEF Stepped, Todos, Posts
<1>5. CASE s = <<"wait">>
  <2>1. s # <<>> /\ Head(s) = "wait" /\ Tail(s) = <<>>
    BY <1>5
  <2> QED
    BY <2>1, Heads DEF Stepped, Todos, Posts
<1> QED
  BY <1>1, <1>2, <1>3, <1>4, <1>5 DEF Closing

(* A call that holds the lock of a module waits for its answer.            *)
LEMMA SteppedLocking == \A s \in Locking : Stepped(s)
<1> SUFFICES ASSUME NEW s \in Locking PROVE Stepped(s)
  OBVIOUS
<1>1. CASE s = <<"wait">>
  <2>1. s # <<>> /\ Head(s) = "wait" /\ Tail(s) = <<>>
    BY <1>1
  <2> QED
    BY <2>1, Heads DEF Stepped, Todos, Posts
<1>2. CASE s = <<"wait", "resume">>
  <2>1. s # <<>> /\ Head(s) = "wait" /\ Tail(s) = <<"resume">>
    BY <1>2
  <2>2. <<"resume">> \in Starting /\ <<"resume">> # <<>> /\ Head(<<"resume">>) = "resume"
    BY DEF Starting
  <2>3. s \notin Closing
    BY <1>2 DEF Closing
  <2> QED
    BY <2>1, <2>2, <2>3, Heads DEF Stepped, Todos, Posts
<1>3. CASE s = <<"wait", "later">>
  <2>1. s # <<>> /\ Head(s) = "wait" /\ Tail(s) = <<"later">>
    BY <1>3
  <2>2. <<"later">> \in Starting /\ <<"later">> # <<>> /\ Head(<<"later">>) = "later"
    BY DEF Starting
  <2>3. s \notin Closing
    BY <1>3 DEF Closing
  <2> QED
    BY <2>1, <2>2, <2>3, Heads DEF Stepped, Todos, Posts
<1> QED
  BY <1>1, <1>2, <1>3 DEF Locking

(* What holds of what is left of every call.                               *)
LEMMA AllStepped == \A s \in Todos : Stepped(s)
  BY SteppedStarting, SteppedClosing, SteppedLocking DEF Todos

(* Every API call begins without a lock.                                   *)
LEMMA ProgramTodo ==
    /\ \A op \in Ops : Program(op) \in Starting
    /\ Program("maxrecord") \in Starting
    /\ \A s \in Starting : s # <<>> /\ Head(s) \notin {"wait", "ask"}
                           /\ s \notin Closing /\ s \notin Locking
<1>1. \A op \in Ops : Program(op) \in Starting
  BY DEF Ops, Program, Starting
<1>2. Program("maxrecord") \in Starting
  BY DEF Program, Starting
<1>3. \A s \in Starting : s # <<>> /\ Head(s) \notin {"wait", "ask"}
  BY DEF Starting
<1>4. \A s \in Closing \cup Locking : Head(s) \in {"wait", "ask"}
  BY DEF Closing, Locking
<1> QED
  BY <1>1, <1>2, <1>3, <1>4

-----------------------------------------------------------------------------
(* Sequences and the sets of their elements.                               *)
LEMMA RangeOf ==
    ASSUME NEW S, NEW s \in Seq(S)
    PROVE  /\ Range(s) \subseteq S
           /\ \A m \in S : /\ Append(s, m) \in Seq(S)
                           /\ Range(Append(s, m)) = Range(s) \cup {m}
                           /\ s \o <<m>> = Append(s, m)
           /\ s \o <<>> = s
           /\ s # <<>> => /\ Head(s) \in S /\ Tail(s) \in Seq(S)
                          /\ Range(s) = Range(Tail(s)) \cup {Head(s)}
<1>1. Range(s) \subseteq S
  BY LenProperties DEF Range
<1>2. ASSUME NEW m \in S PROVE /\ Append(s, m) \in Seq(S)
                               /\ Range(Append(s, m)) = Range(s) \cup {m}
                               /\ s \o <<m>> = Append(s, m)
  <2>1. Append(s, m) \in Seq(S) /\ s \o <<m>> = Append(s, m)
    BY AppendProperties, AppendIsConcat
  <2>2. /\ DOMAIN Append(s, m) = 1 .. Len(s) + 1 /\ DOMAIN s = 1 .. Len(s) /\ Len(s) \in Nat
        /\ \A i \in 1 .. Len(s) : Append(s, m)[i] = s[i]
        /\ Append(s, m)[Len(s) + 1] = m
    BY AppendProperties, LenProperties
  <2>3. DOMAIN Append(s, m) = DOMAIN s \cup {Len(s) + 1}
    BY <2>2
  <2>4. Range(Append(s, m)) = Range(s) \cup {m}
    BY <2>2, <2>3 DEF Range
  <2> QED
    BY <2>1, <2>4
<1>3. ASSUME s # <<>>
      PROVE  /\ Head(s) \in S /\ Tail(s) \in Seq(S)
             /\ Range(s) = Range(Tail(s)) \cup {Head(s)}
  <2>1. /\ Head(s) \in S /\ Tail(s) \in Seq(S) /\ Len(Tail(s)) = Len(s) - 1
        /\ \A i \in 1 .. Len(Tail(s)) : Tail(s)[i] = s[i + 1]
    BY <1>3, HeadTailProperties
  <2>2. DOMAIN s = 1 .. Len(s) /\ Len(s) \in Nat /\ DOMAIN Tail(s) = 1 .. Len(Tail(s))
    BY <2>1, LenProperties
  <2>3. Head(s) = s[1] /\ Len(s) # 0
    BY <1>3, EmptySeq
  <2>4. ASSUME NEW x \in Range(s) PROVE x \in Range(Tail(s)) \cup {Head(s)}
    <3>1. PICK i \in 1 .. Len(s) : x = s[i]
      BY <2>2 DEF Range
    <3>2. CASE i = 1
      BY <2>3, <3>1, <3>2
    <3>3. CASE i # 1
      <4>1. i - 1 \in DOMAIN Tail(s) /\ Tail(s)[i - 1] = s[i]
        BY <2>1, <2>2, <3>3
      <4> QED
        BY <3>1, <4>1 DEF Range
    <3> QED
      BY <3>2, <3>3
  <2>5. ASSUME NEW x \in Range(Tail(s)) PROVE x \in Range(s)
    <3>1. PICK i \in DOMAIN Tail(s) : x = Tail(s)[i]
      BY DEF Range
    <3>2. i + 1 \in DOMAIN s /\ s[i + 1] = x
      BY <2>1, <2>2, <3>1
    <3> QED
      BY <3>2 DEF Range
  <2>6. Head(s) \in Range(s)
    BY <2>2, <2>3 DEF Range
  <2> QED
    BY <2>1, <2>4, <2>5, <2>6
<1>4. s \o <<>> = s
  BY ConcatEmptySeq
<1> QED
  BY <1>1, <1>2, <1>3, <1>4

(* What ClearedOf leaves.                                                  *)
LEMMA RangeSelected ==
    ASSUME NEW S, NEW s \in Seq(S), NEW keep
    PROVE  Selected(s, keep) \in Seq(S) /\ Range(Selected(s, keep)) = Range(s) \cap keep
<1>1. Selected(s, keep) \in Seq(S)
  BY SelectedElements
<1>2. Range(Selected(s, keep)) \subseteq Range(s) \cap keep
  BY SelectedElements DEF Range
<1>3. Range(s) \cap keep \subseteq Range(Selected(s, keep))
  BY SelectedElements DEF Range
<1> QED
  BY <1>1, <1>2, <1>3

(* The elements of a sequence are finitely many.                           *)
LEMMA RangeFinite ==
    ASSUME NEW S, NEW s \in Seq(S)
    PROVE  IsFiniteSet(Range(s))
<1>1. Len(s) \in Nat /\ s \in [1 .. Len(s) -> S]
  BY LenProperties
<1>2. s \in Surjection(1 .. Len(s), Range(s))
  BY <1>1, Fun_RangeProperties
<1>3. IsFiniteSet(1 .. Len(s))
  BY <1>1, FS_Interval
<1> QED
  BY <1>2, <1>3, FS_Surjection

(* SetToSeq of a finite set: a sequence of exactly its elements.           *)
LEMMA SetToSeqOf ==
    ASSUME NEW S, IsFiniteSet(S)
    PROVE  SetToSeq(S) \in Seq(S) /\ Range(SetToSeq(S)) = S
<1> DEFINE n == Cardinality(S)
           f == SetToSeq(S)
<1>1. n \in Nat /\ \E g : g \in Bijection(1 .. n, S)
  BY FS_CardinalityType DEF ExistsBijection
<1>2. PICK g : g \in Bijection(1 .. n, S)
  BY <1>1
<1>3. g \in [1 .. n -> S] /\ IsInjective(g)
  <2>1. g \in [1 .. n -> S] /\ \A a, b \in 1 .. n : g[a] = g[b] => a = b
    <3> HIDE DEF n
    <3> QED
      BY <1>2, Fun_BijectionProperties
  <2>2. DOMAIN g = 1 .. n
    BY <2>1
  <2> QED
    BY <2>1, <2>2 DEF IsInjective
<1>4. f \in [1 .. n -> S] /\ IsInjective(f)
  BY <1>3 DEF SetToSeq
<1>5. f \in Injection(1 .. n, S)
  BY <1>4, Fun_IsInj DEF IsInjective
<1>6. IsFiniteSet(1 .. n) /\ Cardinality(1 .. n) = n
  BY <1>1, FS_Interval
<1>7. f \in Surjection(1 .. n, S)
  BY <1>5, <1>6, FS_Injection
<1>8. Range(f) = S
  BY <1>7, Fun_SurjectionProperties
<1>9. f \in Seq(S)
  <2> HIDE DEF f, n
  <2> QED
    BY <1>1, <1>4
<1> QED
  BY <1>8, <1>9

-----------------------------------------------------------------------------
(* Tasks and messages.                                                     *)
Kinds == {"request", "record", "subscribe", "disconnect"}
Tasks == [owner : Callers, id : Nat, dev : Devices, kind : Kinds]
Events == [type : EventTypes, dev : Devices, n : Nat]
Answers == [type : {"answer"}, dev : Devices, n : Tasks]
Orders == [type : {"ask"}, dev : Devices, n : Tasks]
          \cup [type : {"forget"}, dev : Callers, n : Tasks]
Handed == Events \cup Answers
Messages == Handed \cup Orders

(* The values of a function on a finite set are finitely many.             *)
LEMMA ImageFinite ==
    ASSUME NEW S, IsFiniteSet(S), NEW f, DOMAIN f = S, f = [x \in S |-> f[x]]
    PROVE  IsFiniteSet({f[x] : x \in S})
<1> DEFINE T == {f[x] : x \in S}
<1>1. f \in [S -> T]
  <2>1. \A x \in S : f[x] \in T
    OBVIOUS
  <2> HIDE DEF T
  <2> QED
    BY <2>1
<1>2. \A t \in T : \E x \in S : f[x] = t
  OBVIOUS
<1>3. f \in Surjection(S, T)
  <2> HIDE DEF T
  <2> QED
    BY <1>1, <1>2, Fun_IsSurj
<1> QED
  <2> HIDE DEF T
  <2>1. IsFiniteSet(T)
    BY <1>3, FS_Surjection
  <2> QED
    BY <2>1 DEF T

(* A finite set leaves a number out, and FreshId finds the first.          *)
LEMMA FirstLeftOut ==
    ASSUME NEW U, IsFiniteSet(U)
    PROVE  LET i == CHOOSE i \in 1 .. Cardinality(U) + 1 :
                        i \notin U /\ \A j \in 1 .. i - 1 : j \in U
           IN  i \in Nat /\ i \notin U
<1> DEFINE n == Cardinality(U)
           Out == {k \in 1 .. n + 1 : k \notin U}
<1>1. n \in Nat
  BY FS_CardinalityType
<1>2. Out # {}
  <2>1. SUFFICES ASSUME Out = {} PROVE FALSE
    OBVIOUS
  <2>2. 1 .. n + 1 \subseteq U
    BY <2>1
  <2>3. Cardinality(1 .. n + 1) = n + 1
    <3>1. PICK a, b \in Int : a = 1 /\ b = n + 1
      <4> HIDE DEF n
      <4> QED
        BY <1>1
    <3>2. Cardinality(a .. b) = IF a > b THEN 0 ELSE b - a + 1
      BY FS_Interval
    <3> HIDE DEF n
    <3>3. Cardinality(a .. b) = n + 1
      BY <1>1, <3>1, <3>2
    <3> QED
      BY <3>1, <3>3, Zenon
  <2>4. Cardinality(1 .. n + 1) <= n
    BY <2>2, FS_Subset
  <2> HIDE DEF n
  <2> QED
    BY <1>1, <2>3, <2>4
<1>3. PICK i \in Out : \A m \in Out : i <= m
  <2>1. Out \subseteq Nat
    <3> HIDE DEF n
    <3> QED
      BY <1>1
  <2> HIDE DEF Out
  <2> QED
    BY <1>2, <2>1, Smallest
<1>4. \A j \in 1 .. i - 1 : j \in U
  <2> SUFFICES ASSUME NEW j \in 1 .. i - 1, j \notin U PROVE FALSE
    OBVIOUS
  <2> HIDE DEF n
  <2>1. j \in Out /\ j < i
    BY <1>1
  <2> QED
    BY <1>1, <1>3, <2>1
<1>5. \E k \in 1 .. n + 1 : k \notin U /\ \A j \in 1 .. k - 1 : j \in U
  BY <1>4
<1> DEFINE P(k) == k \notin U /\ \A j \in 1 .. k - 1 : j \in U
           w == CHOOSE k \in 1 .. n + 1 : P(k)
<1>6. w \in 1 .. n + 1 /\ P(w)
  <2> HIDE DEF P
  <2>1. \E k \in 1 .. n + 1 : P(k)
    BY <1>5 DEF P
  <2> QED
    BY <2>1
<1>7. w \in Nat /\ w \notin U
  <2>1. w \in 1 .. n + 1 /\ w \notin U
    BY <1>6
  <2> HIDE DEF w, n
  <2> QED
    BY <1>1, <2>1
<1> QED
  BY <1>7

(* The id of a new task is a number that no task and no message has.       *)
LEMMA FreshIds ==
    ASSUME tasks_ \subseteq Tasks, IsFiniteSet(tasks_), queueQ \in Seq(Messages),
           inbox \in [Callers -> Seq(Handed)], NEW c \in Callers
    PROVE  FreshId(c) \in Nat /\ FreshId(c) \notin UsedIds(c)
<1> DEFINE A == {u \in tasks_ : u.owner = c}
           B == {x \in Range(queueQ) : x.type \in {"ask", "answer", "forget"} /\ x.n.owner = c}
           C == {x \in Range(inbox[c]) : x.type = "answer"}
<1>1. IsFiniteSet(A) /\ IsFiniteSet(B) /\ IsFiniteSet(C)
  <2>1. IsFiniteSet(Range(queueQ)) /\ IsFiniteSet(Range(inbox[c]))
    BY RangeFinite
  <2>2. A \in SUBSET tasks_ /\ B \in SUBSET Range(queueQ) /\ C \in SUBSET Range(inbox[c])
    OBVIOUS
  <2> HIDE DEF A, B, C
  <2> QED
    BY <2>1, <2>2, FS_Subset
<1>2. IsFiniteSet({t.id : t \in A})
  <2> DEFINE f == [t \in A |-> t.id]
  <2> HIDE DEF A
  <2>1. IsFiniteSet({f[t] : t \in A})
    <3>1. DOMAIN f = A /\ f = [x \in A |-> f[x]]
      OBVIOUS
    <3> HIDE DEF f
    <3> QED
      BY <1>1, <3>1, ImageFinite
  <2>2. {f[t] : t \in A} = {t.id : t \in A}
    OBVIOUS
  <2> QED
    BY <2>1, <2>2
<1>3. IsFiniteSet({m.n.id : m \in B})
  <2> DEFINE f == [m \in B |-> m.n.id]
  <2> HIDE DEF B
  <2>1. IsFiniteSet({f[m] : m \in B})
    <3>1. DOMAIN f = B /\ f = [x \in B |-> f[x]]
      OBVIOUS
    <3> HIDE DEF f
    <3> QED
      BY <1>1, <3>1, ImageFinite
  <2>2. {f[m] : m \in B} = {m.n.id : m \in B}
    OBVIOUS
  <2> QED
    BY <2>1, <2>2
<1>4. IsFiniteSet({m.n.id : m \in C})
  <2> DEFINE f == [m \in C |-> m.n.id]
  <2> HIDE DEF C
  <2>1. IsFiniteSet({f[m] : m \in C})
    <3>1. DOMAIN f = C /\ f = [x \in C |-> f[x]]
      OBVIOUS
    <3> HIDE DEF f
    <3> QED
      BY <1>1, <3>1, ImageFinite
  <2>2. {f[m] : m \in C} = {m.n.id : m \in C}
    OBVIOUS
  <2> QED
    BY <2>1, <2>2
<1>5. UsedIds(c) = {t.id : t \in A} \cup {m.n.id : m \in B} \cup {m.n.id : m \in C}
  BY DEF UsedIds
<1>6. IsFiniteSet(UsedIds(c))
  <2> DEFINE X == {t.id : t \in A}
             Y == {m.n.id : m \in B}
             Z == {m.n.id : m \in C}
  <2>1. IsFiniteSet(X) /\ IsFiniteSet(Y) /\ IsFiniteSet(Z) /\ UsedIds(c) = (X \cup Y) \cup Z
    BY <1>2, <1>3, <1>4, <1>5
  <2> HIDE DEF X, Y, Z
  <2>2. IsFiniteSet(X \cup Y)
    BY <2>1, FS_Union
  <2>3. IsFiniteSet((X \cup Y) \cup Z)
    BY <2>1, <2>2, FS_Union
  <2> QED
    BY <2>1, <2>3
<1> QED
  BY <1>6, FirstLeftOut DEF FreshId

-----------------------------------------------------------------------------
(* The types, by the groups of variables.                                  *)
Calls == [todo : Todos \cup {<<>>}, dev : Devices \cup {None}, task : Tasks \cup {None}]
CallOK(k) ==
    /\ k \in Calls
    /\ k.todo # <<>> => k.dev \in Devices
    /\ (k.todo # <<>> /\ Head(k.todo) = "wait") => k.task \in Tasks
HandleSet == {"conn", "ivs", "resume"} \X Devices
ResultsOf(d) == [type : IvsResults, dev : {d}, n : Nat]

ManagerTyped ==
    /\ push_handles_ \in Seq(HandleSet)
    /\ \A d \in Devices : <<"ivs", d>> \in Range(push_handles_)
    /\ event \in Events \cup {None}
    /\ index \in {Broken} \cup 0 .. Len(push_handles_)
CallsTyped == call \in [Callers -> Calls] /\ \A c \in Callers : CallOK(call[c])
HoldersTyped ==
    /\ services \subseteq Devices /\ crit_section_ \in Callers \cup {None}
    /\ module_crit \in [Devices -> Callers \cup {None}]
LayerTyped ==
    /\ tasks_ \subseteq Tasks /\ IsFiniteSet(tasks_)
    /\ queueQ \in Seq(Messages) /\ inbox \in [Callers -> Seq(Handed)]
DevicesTyped ==
    /\ subscribed \subseteq online /\ online \subseteq sessions /\ sessions \subseteq Devices
    /\ delayed \subseteq Devices /\ plates \in [Devices -> Nat]
HistoryTyped ==
    /\ reported \in [Devices -> Seq(Events)] /\ swallowed \subseteq Events
    /\ \A d \in Devices : reported[d] \in Seq(ResultsOf(d))
(* The push thread makes calls only while it handles an event.             *)
Turn == event = None => Idle(Push) /\ index = 0
(* Who holds a lock is at the steps of his call that hold it.              *)
Locks ==
    /\ \A c \in Callers : crit_section_ = c => call[c].todo \in Closing
    /\ \A d \in Devices, c \in Callers :
          module_crit[d] = c => call[c].todo \in Locking /\ call[c].dev = d

Typed == /\ ManagerTyped /\ CallsTyped /\ HoldersTyped /\ LayerTyped /\ DevicesTyped
         /\ HistoryTyped /\ Turn /\ Locks

(* A part none of whose variables changes.                                 *)
LEMMA Untouched ==
    /\ (ManagerTyped /\ UNCHANGED manager) => ManagerTyped'
    /\ (CallsTyped /\ UNCHANGED call) => CallsTyped'
    /\ (HoldersTyped /\ UNCHANGED <<services, crit_section_, module_crit>>) => HoldersTyped'
    /\ (LayerTyped /\ UNCHANGED layer) => LayerTyped'
    /\ (DevicesTyped /\ UNCHANGED devices) => DevicesTyped'
    /\ (HistoryTyped /\ UNCHANGED history) => HistoryTyped'
    /\ (Turn /\ UNCHANGED <<event, index, call>>) => Turn'
    /\ (Locks /\ UNCHANGED <<call, crit_section_, module_crit>>) => Locks'
<1>1. (ManagerTyped /\ UNCHANGED manager) => ManagerTyped'
  BY DEF ManagerTyped, manager
<1>2. (CallsTyped /\ UNCHANGED call) => CallsTyped'
  BY DEF CallsTyped
<1>3. (HoldersTyped /\ UNCHANGED <<services, crit_section_, module_crit>>) => HoldersTyped'
  BY DEF HoldersTyped
<1>4. (LayerTyped /\ UNCHANGED layer) => LayerTyped'
  BY DEF LayerTyped, layer
<1>5. (DevicesTyped /\ UNCHANGED devices) => DevicesTyped'
  BY DEF DevicesTyped, devices
<1>6. (HistoryTyped /\ UNCHANGED history) => HistoryTyped'
  BY DEF HistoryTyped, history
<1>7. (Turn /\ UNCHANGED <<event, index, call>>) => Turn'
  BY DEF Turn, Idle
<1>8. (Locks /\ UNCHANGED <<call, crit_section_, module_crit>>) => Locks'
  BY DEF Locks
<1> QED
  BY <1>1, <1>2, <1>3, <1>4, <1>5, <1>6, <1>7, <1>8

(* A call that changes leaves the others alone.                            *)
Moved(c, k) == \A o \in Callers : call'[o] = IF o = c THEN k ELSE call[o]

(* One call changes; all calls are as they should be.                      *)
LEMMA CallMoves ==
    ASSUME CallsTyped, NEW c \in Callers, NEW k, CallOK(k), call' = [call EXCEPT ![c] = k]
    PROVE  CallsTyped' /\ Moved(c, k)
<1>1. call \in [Callers -> Calls] /\ k \in Calls /\ \A o \in Callers : CallOK(call[o])
  BY DEF CallsTyped, CallOK
<1>2. call' \in [Callers -> Calls] /\ Moved(c, k)
  BY <1>1 DEF Moved
<1>3. \A o \in Callers : CallOK(call'[o])
  BY <1>1, <1>2 DEF Moved
<1> QED
  BY <1>2, <1>3 DEF CallsTyped

(* Facts about a call that is at a step.                                   *)
LEMMA AtStep ==
    ASSUME CallsTyped, NEW c \in Callers, ~Idle(c)
    PROVE  /\ Stepped(call[c].todo) /\ call[c].dev \in Devices
           /\ Head(call[c].todo) = "wait" => call[c].task \in Tasks
           /\ CallOK(call[c]) /\ call[c].todo # <<>> /\ call[c].todo \in Todos
<1>1. CallOK(call[c]) /\ call[c].todo # <<>>
  BY DEF CallsTyped, Idle
<1>2. call[c].todo \in Todos
  BY <1>1 DEF CallOK, Calls
<1> QED
  BY <1>1, <1>2, AllStepped DEF CallOK

(* A step that posts no task.                                              *)
LEMMA Advances ==
    ASSUME CallsTyped, NEW c \in Callers, ~Idle(c), Advance(c), Head(call[c].todo) \notin Posts
    PROVE  CallsTyped' /\ Moved(c, [call[c] EXCEPT !.todo = Rest(c)])
<1> DEFINE k == [call[c] EXCEPT !.todo = Rest(c)]
<1>1. Stepped(call[c].todo) /\ CallOK(call[c]) /\ call[c].dev \in Devices
  BY AtStep
<1>2. /\ Tail(call[c].todo) \in Todos \cup {<<>>}
      /\ Tail(call[c].todo) # <<>> => Head(Tail(call[c].todo)) # "wait"
  BY <1>1 DEF Stepped
<1>3. CallOK(k)
  <2>1. call[c] \in Calls
    BY <1>1 DEF CallOK
  <2>2. k \in Calls /\ k.todo = Tail(call[c].todo) /\ k.dev = call[c].dev
    BY <1>2, <2>1 DEF Calls, Rest
  <2> QED
    BY <1>1, <1>2, <2>2 DEF CallOK
<1>4. call' = [call EXCEPT ![c] = k]
  BY DEF Advance, CallsTyped
<1> QED
  <2> HIDE DEF k
  <2>1. CallsTyped' /\ Moved(c, k)
    BY <1>3, <1>4, CallMoves
  <2> QED
    BY <2>1 DEF k

(* A new task, and its message.                                            *)
LEMMA NewTask ==
    ASSUME LayerTyped, NEW c \in Callers, NEW d \in Devices, NEW kind \in Kinds
    PROVE  /\ Task(c, d, kind) \in Tasks
           /\ Msg("ask", d, Task(c, d, kind)) \in Messages
<1>1. FreshId(c) \in Nat
  BY FreshIds DEF LayerTyped
<1>2. Task(c, d, kind) \in Tasks
  BY <1>1 DEF Task, Tasks
<1> QED
  BY <1>2 DEF Messages, Orders, Msg

(* PostTask: the task waits in the queue, its call goes on to the wait.    *)
LEMMA Posted ==
    ASSUME LayerTyped, CallsTyped, NEW c \in Callers, ~Idle(c), NEW kind \in Kinds,
           PostTask(c, kind), Head(call[c].todo) \in Posts
    PROVE  /\ CallsTyped' /\ queueQ' \in Seq(Messages)
           /\ \E t \in Tasks :
                 /\ Moved(c, [call[c] EXCEPT !.todo = Rest(c), !.task = t])
                 /\ queueQ' = Append(queueQ, Msg("ask", call[c].dev, t))
<1> DEFINE t == Task(c, call[c].dev, kind)
           k == [call[c] EXCEPT !.todo = Rest(c), !.task = t]
<1>1. Stepped(call[c].todo) /\ CallOK(call[c]) /\ call[c].dev \in Devices
  BY AtStep
<1>2. t \in Tasks /\ Msg("ask", call[c].dev, t) \in Messages
  BY <1>1, NewTask
<1>3. t.dev = call[c].dev
  BY DEF Task
<1>4. CallOK(k)
  <2> HIDE DEF t
  <2>1. call[c] \in Calls /\ Tail(call[c].todo) \in Todos \cup {<<>>}
    BY <1>1 DEF CallOK, Stepped
  <2>2. k \in Calls /\ k.dev = call[c].dev /\ k.task = t
    BY <1>2, <2>1 DEF Calls, Rest
  <2> QED
    BY <1>1, <1>2, <2>2 DEF CallOK
<1>5. call' = [call EXCEPT ![c] = k] /\ queueQ' = Append(queueQ, Msg("ask", call[c].dev, t))
  <2>1. call' = [call EXCEPT ![c].todo = Rest(c), ![c].task = t]
    BY DEF PostTask
  <2>2. queueQ' = Append(queueQ, Msg("ask", t.dev, t))
    BY DEF PostTask
  <2> HIDE DEF t
  <2>3. call' = [call EXCEPT ![c] = k]
    BY <2>1 DEF CallsTyped
  <2> QED
    BY <1>3, <2>2, <2>3
<1>6. queueQ' \in Seq(Messages)
  <2> HIDE DEF t
  <2> QED
    BY <1>2, <1>5, AppendProperties DEF LayerTyped
<1> QED
  <2> HIDE DEF t
  <2>1. CallsTyped' /\ Moved(c, k)
    <3> HIDE DEF k
    <3> QED
      BY <1>4, <1>5, CallMoves
  <2> QED
    BY <1>2, <1>5, <1>6, <2>1

(* A call that has not come to its first wait holds no lock.               *)
LEMMA NoLocks ==
    ASSUME CallsTyped, Locks, NEW c \in Callers,
           Idle(c) \/ Head(call[c].todo) \notin {"wait", "ask"}
    PROVE  crit_section_ # c /\ \A d \in Devices : module_crit[d] # c
<1>1. call[c].todo \notin Closing /\ call[c].todo \notin Locking
  BY Heads DEF Idle
<1> QED
  BY <1>1 DEF Locks

(* A call that holds no lock moves on; the locks stay where they are.      *)
LEMMA LocksStay ==
    ASSUME Locks, NEW c \in Callers, NEW k, Moved(c, k), UNCHANGED <<crit_section_, module_crit>>,
           crit_section_ # c, \A d \in Devices : module_crit[d] # c
    PROVE  Locks'
  BY DEF Locks, Moved

(* StartCall leaves the other calls alone.                                 *)
LEMMA Starts ==
    ASSUME CallsTyped, NEW c \in Callers, NEW d \in Devices, NEW op \in Ops \cup {"maxrecord"},
           StartCall(c, op, d)
    PROVE  CallsTyped' /\ \E k : Moved(c, k)
<1> DEFINE k == [todo |-> Program(op), dev |-> d, task |-> None]
<1>1. Program(op) \in Starting
  BY ProgramTodo
<1>2. Program(op) \in Todos /\ Head(Program(op)) # "wait"
  BY <1>1, Heads DEF Todos
<1>3. CallOK(k)
  BY <1>2 DEF CallOK, Calls
<1>4. call' = [call EXCEPT ![c] = k]
  BY DEF StartCall
<1> QED
  <2> HIDE DEF k
  <2> QED
    BY <1>3, <1>4, CallMoves

(* UserCall keeps Typed.                                                   *)
LEMMA UserCallTyped ==
    ASSUME Typed, NEW d \in Devices, NEW op \in Ops, UserCall(d, op)
    PROVE  Typed'
<1> USE DEF Typed
<1>1. d \in Callers /\ d # Push
  BY PushAssumption DEF Callers
<1>2. Idle(d) /\ StartCall(d, op, d)
  BY DEF UserCall
<1>3. PICK k : CallsTyped' /\ Moved(d, k)
  BY <1>1, <1>2, Starts
<1>4. /\ UNCHANGED manager /\ UNCHANGED <<services, crit_section_, module_crit>>
      /\ UNCHANGED layer /\ UNCHANGED devices /\ UNCHANGED history
  BY DEF UserCall
<1>5. Locks'
  BY <1>1, <1>2, <1>3, <1>4, NoLocks, LocksStay
<1>6. Turn'
  <2>1. call'[Push] = call[Push] /\ UNCHANGED <<event, index>>
    BY <1>1, <1>3, <1>4 DEF Moved, Callers, manager
  <2> QED
    BY <2>1 DEF Turn, Idle
<1> QED
  BY <1>3, <1>4, <1>5, <1>6, Untouched

(* A step of a call changes Turn only for an event that goes on.           *)
LEMMA TurnStays ==
    ASSUME Turn, NEW c \in Callers, ~Idle(c), NEW k, Moved(c, k), UNCHANGED <<event, index>>
    PROVE  Turn'
<1>1. Push \in Callers
  BY DEF Callers
<1>2. CASE c = Push
  BY <1>1, <1>2 DEF Turn, Idle
<1>3. CASE c # Push
  BY <1>1, <1>3 DEF Turn, Idle, Moved
<1> QED
  BY <1>2, <1>3

(* A caller without a call.                                                *)
LEMMA NoCallOK == CallOK(NoCall)
  BY DEF CallOK, NoCall, Calls

(* GetService keeps Typed.                                                 *)
LEMMA GetServiceTyped ==
    ASSUME Typed, NEW c \in Callers, GetService(c)
    PROVE  Typed'
<1> USE DEF Typed
<1>1. ~Idle(c) /\ Head(call[c].todo) = "service"
  BY DEF GetService, At
<1>2. PICK k : CallsTyped' /\ Moved(c, k)
  <2>1. CASE Advance(c)
    BY <1>1, <2>1, Advances DEF Posts
  <2>2. CASE call' = [call EXCEPT ![c] = NoCall]
    BY <2>2, NoCallOK, CallMoves
  <2> QED
    BY <2>1, <2>2 DEF GetService
<1>3. /\ UNCHANGED manager /\ UNCHANGED <<services, crit_section_, module_crit>>
      /\ UNCHANGED layer /\ UNCHANGED devices /\ UNCHANGED history /\ UNCHANGED <<event, index>>
  BY DEF GetService, manager
<1>4. Locks'
  BY <1>1, <1>2, <1>3, NoLocks, LocksStay
<1>5. Turn'
  BY <1>1, <1>2, <1>3, TurnStays
<1> QED
  BY <1>2, <1>3, <1>4, <1>5, Untouched

(* CloseService keeps Typed: it takes crit_section_ and begins to close.   *)
LEMMA CloseServiceTyped ==
    ASSUME Typed, NEW c \in Callers, CloseService(c)
    PROVE  Typed'
<1> USE DEF Typed
<1>1. ~Idle(c) /\ Head(call[c].todo) = "hold" /\ crit_section_ = None
  BY DEF CloseService, At
<1>2. /\ UNCHANGED manager /\ UNCHANGED <<services, module_crit>>
      /\ UNCHANGED <<tasks_, inbox>>
      /\ UNCHANGED devices /\ UNCHANGED history /\ UNCHANGED <<event, index>>
  BY DEF CloseService, manager
<1>3. crit_section_ # c /\ \A d \in Devices : module_crit[d] # c
  BY <1>1, NoLocks
<1>4. CASE crit_section_' = c /\ PostTask(c, "disconnect")
  <2>1. /\ CallsTyped' /\ queueQ' \in Seq(Messages)
        /\ \E t : Moved(c, [call[c] EXCEPT !.todo = Rest(c), !.task = t])
    BY <1>1, <1>4, Posted, Zenon DEF Posts, Kinds
  <2>2. PICK t : Moved(c, [call[c] EXCEPT !.todo = Rest(c), !.task = t])
    BY <2>1
  <2>3. LayerTyped' /\ HoldersTyped'
    BY <1>2, <1>4, <2>1 DEF LayerTyped, HoldersTyped
  <2>4. Locks'
    <3>1. Rest(c) \in Closing
      BY <1>1, AtStep DEF Rest, Stepped
    <3>2. call'[c].todo = Rest(c)
      BY <2>2, AtStep, <1>1 DEF Moved, CallOK, Calls
    <3>3. \A o \in Callers \ {c} : call'[o] = call[o]
      BY <2>2 DEF Moved
    <3>4. \A o \in Callers : crit_section_' = o => call'[o].todo \in Closing
      BY <1>4, <3>1, <3>2
    <3>5. \A d \in Devices, o \in Callers :
             module_crit'[d] = o => call'[o].todo \in Locking /\ call'[o].dev = d
      BY <1>2, <1>3, <3>3 DEF Locks
    <3> QED
      BY <3>4, <3>5 DEF Locks
  <2>5. Turn'
    BY <1>1, <1>2, <2>2, TurnStays
  <2> QED
    BY <1>2, <2>1, <2>3, <2>4, <2>5, Untouched
<1>5. CASE call' = [call EXCEPT ![c] = NoCall] /\ UNCHANGED <<crit_section_, queueQ>>
  <2>1. CallsTyped' /\ Moved(c, NoCall)
    BY <1>5, NoCallOK, CallMoves
  <2>2. /\ UNCHANGED layer /\ UNCHANGED <<services, crit_section_, module_crit>>
        /\ UNCHANGED <<crit_section_, module_crit>>
    BY <1>2, <1>5 DEF layer
  <2>3. Locks'
    BY <1>3, <2>1, <2>2, LocksStay
  <2>4. Turn'
    BY <1>1, <1>2, <2>1, TurnStays
  <2> QED
    BY <1>2, <2>1, <2>2, <2>3, <2>4, Untouched
<1> QED
  BY <1>4, <1>5 DEF CloseService

(* SyncProcessReqTask keeps Typed: it takes the lock of the module.        *)
LEMMA SyncProcessReqTaskTyped ==
    ASSUME Typed, NEW c \in Callers, SyncProcessReqTask(c)
    PROVE  Typed'
<1> USE DEF Typed
<1>1. ~Idle(c) /\ Head(call[c].todo) = "lock"
  BY DEF SyncProcessReqTask, At
<1>2. /\ UNCHANGED manager /\ UNCHANGED <<services, crit_section_>>
      /\ UNCHANGED <<tasks_, inbox>>
      /\ UNCHANGED devices /\ UNCHANGED history /\ UNCHANGED <<event, index>>
  BY DEF SyncProcessReqTask, manager
<1>3. crit_section_ # c /\ \A d \in Devices : module_crit[d] # c
  BY <1>1, NoLocks
<1>4. PostTask(c, "request") /\ module_crit' = [module_crit EXCEPT ![call[c].dev] = c]
  BY DEF SyncProcessReqTask
<1>5. /\ CallsTyped' /\ queueQ' \in Seq(Messages)
      /\ \E t : Moved(c, [call[c] EXCEPT !.todo = Rest(c), !.task = t])
  BY <1>1, <1>4, Posted, Zenon DEF Posts, Kinds
<1>6. PICK t : Moved(c, [call[c] EXCEPT !.todo = Rest(c), !.task = t])
  BY <1>5
<1>7. LayerTyped' /\ HoldersTyped'
  BY <1>2, <1>4, <1>5 DEF LayerTyped, HoldersTyped
<1>8. Locks'
  <2>1. Rest(c) \in Locking
    BY <1>1, AtStep DEF Rest, Stepped
  <2>2. call'[c].todo = Rest(c) /\ call'[c].dev = call[c].dev
    BY <1>1, <1>6, AtStep DEF Moved, CallOK, Calls
  <2>3. \A o \in Callers \ {c} : call'[o] = call[o]
    BY <1>6 DEF Moved
  <2>4. \A o \in Callers : crit_section_' = o => call'[o].todo \in Closing
    BY <1>2, <1>3, <2>3 DEF Locks
  <2>5. ASSUME NEW d \in Devices, NEW o \in Callers, module_crit'[d] = o
        PROVE  call'[o].todo \in Locking /\ call'[o].dev = d
    <3>1. CASE d = call[c].dev
      <4>1. o = c
        BY <1>4, <2>5, <3>1 DEF HoldersTyped
      <4> QED
        BY <2>1, <2>2, <3>1, <4>1
    <3>2. CASE d # call[c].dev
      <4>1. module_crit[d] = o
        BY <1>4, <2>5, <3>2 DEF HoldersTyped
      <4> QED
        BY <1>3, <2>3, <4>1 DEF Locks
    <3> QED
      BY <3>1, <3>2
  <2> QED
    BY <2>4, <2>5 DEF Locks
<1>9. Turn'
  BY <1>1, <1>2, <1>6, TurnStays
<1> QED
  BY <1>2, <1>5, <1>7, <1>8, <1>9, Untouched

(* GetRecord keeps Typed: it holds no lock.                                *)
LEMMA GetRecordTyped ==
    ASSUME Typed, NEW c \in Callers, GetRecord(c)
    PROVE  Typed'
<1> USE DEF Typed
<1>1. ~Idle(c) /\ Head(call[c].todo) = "record"
  BY DEF GetRecord, At
<1>2. /\ UNCHANGED manager /\ UNCHANGED <<services, crit_section_, module_crit>>
      /\ UNCHANGED <<tasks_, inbox>> /\ UNCHANGED <<crit_section_, module_crit>>
      /\ UNCHANGED devices /\ UNCHANGED history /\ UNCHANGED <<event, index>>
  BY DEF GetRecord, manager
<1>3. CallsTyped' /\ queueQ' \in Seq(Messages) /\ \E k : Moved(c, k)
  BY <1>1, Posted, Zenon DEF Posts, Kinds, GetRecord
<1>4. PICK k : Moved(c, k)
  BY <1>3
<1>5. LayerTyped'
  BY <1>2, <1>3 DEF LayerTyped
<1>6. Locks'
  BY <1>1, <1>2, <1>4, NoLocks, LocksStay
<1>7. Turn'
  BY <1>1, <1>2, <1>4, TurnStays
<1> QED
  BY <1>2, <1>3, <1>5, <1>6, <1>7, Untouched

(* The other disconnects of CloseService keep Typed.                       *)
LEMMA DisconnectTyped ==
    ASSUME Typed, NEW c \in Callers, Disconnect(c)
    PROVE  Typed'
<1> USE DEF Typed
<1>1. ~Idle(c) /\ Head(call[c].todo) = "ask"
  BY DEF Disconnect, At
<1>2. /\ UNCHANGED manager /\ UNCHANGED <<services, crit_section_, module_crit>>
      /\ UNCHANGED <<tasks_, inbox>>
      /\ UNCHANGED devices /\ UNCHANGED history /\ UNCHANGED <<event, index>>
  BY DEF Disconnect, manager
<1>3. /\ CallsTyped' /\ queueQ' \in Seq(Messages)
      /\ \E t : Moved(c, [call[c] EXCEPT !.todo = Rest(c), !.task = t])
  BY <1>1, Posted, Zenon DEF Posts, Kinds, Disconnect
<1>4. PICK t : Moved(c, [call[c] EXCEPT !.todo = Rest(c), !.task = t])
  BY <1>3
<1>5. LayerTyped'
  BY <1>2, <1>3 DEF LayerTyped
<1>6. Locks'
  <2>1. Rest(c) \in Closing /\ call[c].todo \notin Locking
    BY <1>1, AtStep, Heads DEF Rest, Stepped
  <2>2. call'[c].todo = Rest(c)
    BY <1>1, <1>4, AtStep DEF Moved, CallOK, Calls
  <2>3. \A o \in Callers \ {c} : call'[o] = call[o]
    BY <1>4 DEF Moved
  <2> QED
    BY <1>2, <2>1, <2>2, <2>3 DEF Locks
<1>7. Turn'
  BY <1>1, <1>2, <1>4, TurnStays
<1> QED
  BY <1>2, <1>3, <1>5, <1>6, <1>7, Untouched

(* A handle is added at the end.                                           *)
LEMMA HandleAdded ==
    ASSUME ManagerTyped, NEW h \in HandleSet, push_handles_' = Append(push_handles_, h),
           UNCHANGED event, index' \in {Broken} \cup 0 .. Len(push_handles_)
    PROVE  ManagerTyped'
<1>1. push_handles_ \in Seq(HandleSet) /\ Len(push_handles_) \in Nat
  BY DEF ManagerTyped
<1>2. /\ push_handles_' \in Seq(HandleSet)
      /\ Range(push_handles_') = Range(push_handles_) \cup {h}
      /\ Len(push_handles_') = Len(push_handles_) + 1
  BY <1>1, RangeOf, AppendProperties
<1>3. index' \in {Broken} \cup 0 .. Len(push_handles_')
  BY <1>1, <1>2
<1> QED
  BY <1>2, <1>3 DEF ManagerTyped

(* AddPushHandle keeps the types of the push manager.                      *)
LEMMA AddsHandle ==
    ASSUME ManagerTyped, CallsTyped, NEW c \in Callers, ~Idle(c),
           NEW key \in {"conn", "ivs", "resume"}, AddPushHandle(c, key)
    PROVE  ManagerTyped' /\ UNCHANGED <<event, index>>
<1>1. UNCHANGED <<event, index>> /\ push_handles_' = Append(push_handles_, <<key, call[c].dev>>)
  BY DEF AddPushHandle
<1>2. <<key, call[c].dev>> \in HandleSet
  BY AtStep DEF HandleSet
<1>3. index' \in {Broken} \cup 0 .. Len(push_handles_)
  BY <1>1 DEF ManagerTyped
<1> QED
  BY <1>1, <1>2, <1>3, HandleAdded

(* SetReciveIvsResultCallback keeps Typed.                                 *)
LEMMA SetReciveIvsResultCallbackTyped ==
    ASSUME Typed, NEW c \in Callers, SetReciveIvsResultCallback(c)
    PROVE  Typed'
<1> USE DEF Typed
<1>1. ~Idle(c) /\ Head(call[c].todo) = "callback"
  BY DEF SetReciveIvsResultCallback, At
<1>2. /\ UNCHANGED <<services, crit_section_, module_crit>>
      /\ UNCHANGED layer /\ UNCHANGED devices /\ UNCHANGED history
      /\ UNCHANGED <<crit_section_, module_crit>>
  BY DEF SetReciveIvsResultCallback
<1>3. ManagerTyped' /\ UNCHANGED <<event, index>>
  BY <1>1, AddsHandle DEF SetReciveIvsResultCallback
<1>4. PICK k : CallsTyped' /\ Moved(c, k)
  BY <1>1, Advances DEF SetReciveIvsResultCallback, Posts
<1>5. Locks'
  BY <1>1, <1>2, <1>4, NoLocks, LocksStay
<1>6. Turn'
  BY <1>1, <1>3, <1>4, TurnStays
<1> QED
  BY <1>2, <1>3, <1>4, <1>5, <1>6, Untouched

(* ReciveIvsResult keeps Typed.                                            *)
LEMMA ReciveIvsResultTyped ==
    ASSUME Typed, NEW c \in Callers, ReciveIvsResult(c)
    PROVE  Typed'
<1> USE DEF Typed
<1>1. ~Idle(c) /\ Head(call[c].todo) = "receive"
  BY DEF ReciveIvsResult, At
<1>2. /\ UNCHANGED <<services, crit_section_, module_crit>>
      /\ UNCHANGED <<tasks_, inbox>> /\ UNCHANGED devices /\ UNCHANGED history
      /\ UNCHANGED <<crit_section_, module_crit>>
  BY DEF ReciveIvsResult
<1>3. ManagerTyped' /\ UNCHANGED <<event, index>>
  BY <1>1, AddsHandle DEF ReciveIvsResult
<1>4. CallsTyped' /\ queueQ' \in Seq(Messages) /\ \E k : Moved(c, k)
  BY <1>1, Posted, Zenon DEF ReciveIvsResult, Posts, Kinds
<1>5. PICK k : Moved(c, k)
  BY <1>4
<1>6. Locks'
  BY <1>1, <1>2, <1>5, NoLocks, LocksStay
<1>7. Turn'
  BY <1>1, <1>3, <1>5, TurnStays
<1>8. LayerTyped'
  BY <1>2, <1>4 DEF LayerTyped
<1> QED
  BY <1>2, <1>3, <1>4, <1>6, <1>7, <1>8, Untouched

(* ResumeRecord and PostResumeReq keep Typed.                              *)
LEMMA ResumeTyped ==
    ASSUME Typed, NEW c \in Callers, ResumeRecord(c) \/ PostResumeReq(c)
    PROVE  Typed'
<1> USE DEF Typed
<1>1. ~Idle(c) /\ Head(call[c].todo) \in {"resume", "later"}
  BY DEF ResumeRecord, PostResumeReq, At
<1>2. /\ UNCHANGED <<services, crit_section_, module_crit>>
      /\ UNCHANGED layer /\ UNCHANGED history /\ UNCHANGED <<crit_section_, module_crit>>
      /\ UNCHANGED <<sessions, online, subscribed, plates>>
      /\ delayed' = delayed \cup {call[c].dev} /\ Advance(c)
  BY DEF ResumeRecord, PostResumeReq
<1>3. ManagerTyped' /\ UNCHANGED <<event, index>>
  <2>1. CASE ResumeRecord(c)
    BY <1>1, <2>1, AddsHandle DEF ResumeRecord
  <2>2. CASE PostResumeReq(c)
    <3>1. UNCHANGED manager
      BY <2>2 DEF PostResumeReq
    <3> QED
      BY <3>1, Untouched DEF manager
  <2> QED
    BY <2>1, <2>2
<1>4. PICK k : CallsTyped' /\ Moved(c, k)
  BY <1>1, <1>2, Advances DEF Posts
<1>5. Locks'
  BY <1>1, <1>2, <1>4, NoLocks, LocksStay
<1>6. Turn'
  BY <1>1, <1>3, <1>4, TurnStays
<1>7. DevicesTyped'
  BY <1>1, <1>2, AtStep DEF DevicesTyped
<1> QED
  BY <1>2, <1>3, <1>4, <1>5, <1>6, <1>7, Untouched

(* What WaitTaskDone takes from the message queue of its thread.           *)
LEMMA TakenTyped ==
    ASSUME LayerTyped, NEW c \in Callers, inbox[c] # <<>>,
           inbox' = [inbox EXCEPT ![c] = Tail(@)]
    PROVE  inbox' \in [Callers -> Seq(Handed)] /\ Head(inbox[c]) \in Handed
<1>1. inbox \in [Callers -> Seq(Handed)]
  BY DEF LayerTyped
<1>2. Tail(inbox[c]) \in Seq(Handed) /\ Head(inbox[c]) \in Handed
  BY <1>1, RangeOf
<1> QED
  BY <1>1, <1>2

(* A message that WaitTaskDone does not wait for.                          *)
LEMMA UnhandledTyped ==
    ASSUME LayerTyped, HistoryTyped, NEW c \in Callers, Unhandled(c)
    PROVE  inbox' \in [Callers -> Seq(Handed)] /\ HistoryTyped'
<1>1. inbox' \in [Callers -> Seq(Handed)] /\ Head(inbox[c]) \in Handed
  BY TakenTyped DEF Unhandled
<1>2. Head(inbox[c]).type # "answer" => Head(inbox[c]) \in Events
  BY <1>1 DEF Handed, Answers
<1>3. /\ UNCHANGED reported
      /\ swallowed' = IF Head(inbox[c]).type = "answer" THEN swallowed
                      ELSE swallowed \cup {Head(inbox[c])}
  BY DEF Unhandled
<1> QED
  BY <1>1, <1>2, <1>3 DEF HistoryTyped

(* Swallow keeps Typed.                                                    *)
LEMMA SwallowTyped ==
    ASSUME Typed, NEW c \in Callers, Swallow(c)
    PROVE  Typed'
<1> USE DEF Typed
<1>1. inbox' \in [Callers -> Seq(Handed)] /\ HistoryTyped'
  BY UnhandledTyped DEF Swallow
<1>2. /\ UNCHANGED manager /\ UNCHANGED devices /\ UNCHANGED <<tasks_, queueQ>>
      /\ UNCHANGED <<services, crit_section_, module_crit>> /\ UNCHANGED call
      /\ UNCHANGED <<call, crit_section_, module_crit>> /\ UNCHANGED <<event, index, call>>
  BY DEF Swallow, callers, manager
<1>3. LayerTyped'
  BY <1>1, <1>2 DEF LayerTyped
<1> QED
  BY <1>1, <1>2, <1>3, Untouched

(* TaskDone keeps Typed: it gives up the lock it came with.                *)
LEMMA TaskDoneTyped ==
    ASSUME Typed, NEW c \in Callers, At(c, "wait"), TaskDone(c),
           inbox' \in [Callers -> Seq(Handed)], HistoryTyped'
    PROVE  Typed'
<1> USE DEF Typed
<1>1. ~Idle(c) /\ Head(call[c].todo) = "wait"
  BY DEF At
<1>2. call[c].task \in Tasks /\ Stepped(call[c].todo) /\ CallOK(call[c])
  BY <1>1, AtStep
<1>3. /\ UNCHANGED manager /\ UNCHANGED tasks_ /\ UNCHANGED devices
      /\ queueQ' = Append(queueQ, Msg("forget", c, call[c].task)) /\ Advance(c)
      /\ module_crit' = [d \in Devices |-> IF module_crit[d] = c THEN None ELSE module_crit[d]]
      /\ UNCHANGED <<event, index>>
  BY DEF TaskDone, Unlock, manager
<1>4. LayerTyped'
  <2>1. Msg("forget", c, call[c].task) \in Messages
    BY <1>2 DEF Messages, Orders, Msg
  <2>2. queueQ' \in Seq(Messages)
    BY <1>3, <2>1, RangeOf DEF LayerTyped
  <2> QED
    BY <1>3, <2>2 DEF LayerTyped
<1>5. CallsTyped' /\ Moved(c, [call[c] EXCEPT !.todo = Rest(c)])
  BY <1>1, <1>3, Advances DEF Posts
<1>6. \/ crit_section_ = c /\ Rest(c) = <<>> /\ crit_section_' = None /\ services' \subseteq services
      \/ ~(crit_section_ = c /\ Rest(c) = <<>>) /\ UNCHANGED <<crit_section_, services>>
  BY DEF TaskDone
<1>7. HoldersTyped'
  <2>1. module_crit' \in [Devices -> Callers \cup {None}]
    BY <1>3 DEF HoldersTyped
  <2> QED
    BY <1>6, <2>1 DEF HoldersTyped
<1>8. Locks'
  <2>1. call'[c].todo = Rest(c) /\ \A o \in Callers \ {c} : call'[o] = call[o]
    BY <1>2, <1>5 DEF Moved, CallOK, Calls
  <2>2. ASSUME NEW o \in Callers, crit_section_' = o PROVE call'[o].todo \in Closing
    <3>1. crit_section_ = o /\ ~(crit_section_ = c /\ Rest(c) = <<>>)
      BY <1>6, <2>2, PushAssumption
    <3>2. call[o].todo \in Closing
      BY <3>1 DEF Locks
    <3>3. CASE o = c
      BY <1>2, <2>1, <3>1, <3>2, <3>3 DEF Stepped, Rest
    <3>4. CASE o # c
      BY <2>1, <3>2, <3>4
    <3> QED
      BY <3>3, <3>4
  <2>3. ASSUME NEW d \in Devices, NEW o \in Callers, module_crit'[d] = o
        PROVE  call'[o].todo \in Locking /\ call'[o].dev = d
    <3>1. module_crit[d] = o /\ o # c
      BY <1>3, <2>3, PushAssumption
    <3> QED
      BY <2>1, <3>1 DEF Locks
  <2> QED
    BY <2>2, <2>3 DEF Locks
<1>9. Turn'
  BY <1>1, <1>3, <1>5, TurnStays
<1> QED
  BY <1>3, <1>4, <1>5, <1>7, <1>8, <1>9, Untouched

(* The two ends of WaitTaskDone keep Typed.                                *)
LEMMA WaitTyped ==
    ASSUME Typed, NEW c \in Callers, WaitGet(c) \/ WaitTimeout(c)
    PROVE  Typed'
<1> USE DEF Typed
<1>1. At(c, "wait") /\ TaskDone(c)
  BY DEF WaitGet, WaitTimeout, Unhandled
<1>2. inbox' \in [Callers -> Seq(Handed)] /\ HistoryTyped'
  <2>1. CASE WaitGet(c)
    BY <2>1, TakenTyped, Untouched DEF WaitGet
  <2>2. CASE UNCHANGED <<inbox, history>>
    BY <2>2, Untouched DEF LayerTyped
  <2>3. CASE Unhandled(c)
    BY <2>3, UnhandledTyped
  <2> QED
    BY <2>1, <2>2, <2>3 DEF WaitTimeout
<1> QED
  BY <1>1, <1>2, TaskDoneTyped

(* Every step of a call keeps Typed.                                       *)
LEMMA CallStepTyped ==
    ASSUME Typed, NEW c \in Callers, CallStep(c)
    PROVE  Typed'
  BY GetServiceTyped, CloseServiceTyped, SyncProcessReqTaskTyped, GetRecordTyped,
     DisconnectTyped,
     SetReciveIvsResultCallbackTyped, ReciveIvsResultTyped, ResumeTyped, SwallowTyped, WaitTyped
     DEF CallStep

(* What the queue thread takes.                                            *)
LEMMA HeadOfQueue ==
    ASSUME LayerTyped, queueQ # <<>>
    PROVE  /\ Head(queueQ) \in Messages /\ Tail(queueQ) \in Seq(Messages)
           /\ Range(queueQ) = Range(Tail(queueQ)) \cup {Head(queueQ)}
           /\ Head(queueQ).type \in {"ask", "answer", "forget"} => Head(queueQ).n \in Tasks
           /\ Head(queueQ).type = "answer" => Head(queueQ) \in Handed
           /\ Head(queueQ).type \in EventTypes => Head(queueQ) \in Handed
<1>1. /\ Head(queueQ) \in Messages /\ Tail(queueQ) \in Seq(Messages)
      /\ Range(queueQ) = Range(Tail(queueQ)) \cup {Head(queueQ)}
  BY RangeOf DEF LayerTyped
<1>2. \A m \in Messages : /\ m.type \in {"ask", "answer", "forget"} => m.n \in Tasks
                          /\ m.type = "answer" => m \in Handed
                          /\ m.type \in EventTypes => m \in Handed
  BY DEF Messages, Handed, Events, Answers, Orders, EventTypes, IvsResults
<1> QED
  BY <1>1, <1>2

(* A message for the queue of a thread.                                    *)
LEMMA Delivered ==
    ASSUME LayerTyped, NEW c \in Callers, NEW m \in Handed, Deliver(c, m)
    PROVE  inbox' \in [Callers -> Seq(Handed)]
<1>1. inbox \in [Callers -> Seq(Handed)] /\ inbox' = [inbox EXCEPT ![c] = Append(inbox[c], m)]
  BY DEF LayerTyped, Deliver
<1>2. Append(inbox[c], m) \in Seq(Handed)
  BY <1>1, RangeOf
<1> QED
  BY <1>1, <1>2

(* Every step of the queue thread keeps Typed.                             *)
LEMMA QueueThreadTyped ==
    ASSUME Typed, QueueThread
    PROVE  Typed'
<1> USE DEF Typed
<1>1. /\ UNCHANGED manager /\ UNCHANGED <<reported, swallowed>>
      /\ UNCHANGED <<services, crit_section_, module_crit>> /\ UNCHANGED call
      /\ UNCHANGED <<call, crit_section_, module_crit>> /\ UNCHANGED <<event, index, call>>
  <2>1. UNCHANGED manager /\ UNCHANGED <<reported, swallowed>> /\ UNCHANGED callers
    BY DEF QueueThread, OnTranslateToAsyncLayer, OnRemoveTaskMessage, OntranslateToSyncLayer,
           ReqRecordTaskHandleResponse, HandleResponse, HandleChangeConn, history
  <2> QED
    BY <2>1 DEF manager, callers
<1>2. Push \in Callers
  BY DEF Callers
<1>3. ASSUME OnTranslateToAsyncLayer PROVE LayerTyped' /\ DevicesTyped'
  <2> DEFINE t == Head(queueQ).n
             off == IF t.kind = "disconnect" THEN {t.dev} ELSE {}
             on == IF t.kind = "subscribe" THEN {t.dev} \cap online ELSE {}
             m == AnswerTo(t)
  <2>1. queueQ # <<>> /\ Head(queueQ).type = "ask"
    BY <1>3 DEF OnTranslateToAsyncLayer
  <2>2. /\ tasks_' = tasks_ \cup {t}
        /\ queueQ' = Tail(queueQ) \o (IF Answered(t) THEN <<m>> ELSE <<>>)
        /\ sessions' = sessions \ off /\ online' = online \ off
        /\ subscribed' = (subscribed \ off) \cup on
        /\ UNCHANGED inbox /\ UNCHANGED plates /\ UNCHANGED delayed
    BY <1>3 DEF OnTranslateToAsyncLayer
  <2>3. t \in Tasks /\ Tail(queueQ) \in Seq(Messages)
    BY <2>1, HeadOfQueue
  <2> HIDE DEF t
  <2>4. m \in Messages
    <3>1. t.dev \in Devices
      BY <2>3 DEF Tasks
    <3> QED
      BY <2>3, <3>1 DEF AnswerTo, Event, Messages, Handed, Answers, Events, EventTypes,
                        IvsResults, Msg
  <2>5. queueQ' \in Seq(Messages)
    <3> HIDE DEF m
    <3>1. Tail(queueQ) \o <<m>> \in Seq(Messages) /\ Tail(queueQ) \o <<>> \in Seq(Messages)
      BY <2>3, <2>4, RangeOf
    <3> QED
      BY <2>2, <3>1
  <2>6. IsFiniteSet(tasks_')
    BY <2>2, FS_AddElement DEF LayerTyped
  <2>7. LayerTyped'
    BY <2>2, <2>3, <2>5, <2>6 DEF LayerTyped
  <2>8. DevicesTyped'
    <3>1. on \subseteq online /\ (off # {} => on = {})
      OBVIOUS
    <3> HIDE DEF on, off
    <3> QED
      BY <2>2, <3>1 DEF DevicesTyped
  <2> QED
    BY <2>7, <2>8
<1>4. ASSUME OnRemoveTaskMessage PROVE LayerTyped' /\ UNCHANGED devices
  <2> DEFINE t == Head(queueQ).n
  <2>1. /\ queueQ # <<>> /\ Head(queueQ).type = "forget" /\ queueQ' = Tail(queueQ)
        /\ tasks_' = tasks_ \ {t}
        /\ inbox' = [inbox EXCEPT ![t.owner] = ClearedOf(inbox[t.owner], t)]
        /\ UNCHANGED devices
    BY <1>4 DEF OnRemoveTaskMessage, QueueGets
  <2>2. t \in Tasks /\ Tail(queueQ) \in Seq(Messages)
    BY <2>1, HeadOfQueue
  <2> HIDE DEF t
  <2>3. t.owner \in Callers /\ inbox \in [Callers -> Seq(Handed)]
    BY <2>2 DEF Tasks, LayerTyped
  <2>4. ClearedOf(inbox[t.owner], t) \in Seq(Handed)
    BY <2>3, RangeSelected DEF ClearedOf
  <2>5. inbox' \in [Callers -> Seq(Handed)]
    BY <2>1, <2>3, <2>4
  <2>6. IsFiniteSet(tasks_')
    BY <2>1, FS_RemoveElement DEF LayerTyped
  <2> QED
    BY <2>1, <2>2, <2>5, <2>6 DEF LayerTyped
<1>5. ASSUME OntranslateToSyncLayer \/ HandleResponse \/ HandleChangeConn
             \/ ReqRecordTaskHandleResponse
      PROVE  LayerTyped'
  <2>1. /\ queueQ # <<>> /\ queueQ' = Tail(queueQ) /\ UNCHANGED tasks_
        /\ Head(queueQ).type \in {"answer"} \cup EventTypes
    BY <1>5 DEF OntranslateToSyncLayer, HandleResponse, HandleChangeConn,
                ReqRecordTaskHandleResponse, QueueGets, EventTypes
  <2>2. Head(queueQ) \in Handed /\ Tail(queueQ) \in Seq(Messages)
        /\ (Head(queueQ).type = "answer" => Head(queueQ).n \in Tasks)
    BY <2>1, HeadOfQueue
  <2>3. inbox' \in [Callers -> Seq(Handed)]
    <3>1. CASE OntranslateToSyncLayer
      <4>1. Head(queueQ).type = "answer"
        BY <3>1 DEF OntranslateToSyncLayer, QueueGets
      <4>2. Head(queueQ).n.owner \in Callers
        BY <2>2, <4>1 DEF Tasks
      <4>3. Deliver(Head(queueQ).n.owner, Head(queueQ)) \/ UNCHANGED inbox
        BY <3>1 DEF OntranslateToSyncLayer
      <4> QED
        BY <2>2, <4>2, <4>3, Delivered DEF LayerTyped
    <3>2. CASE HandleResponse \/ HandleChangeConn
      <4>1. Deliver(Push, Head(queueQ)) \/ UNCHANGED inbox
        BY <3>2 DEF HandleResponse, HandleChangeConn
      <4> QED
        BY <1>2, <2>2, <4>1, Delivered DEF LayerTyped
    <3>3. CASE ReqRecordTaskHandleResponse
      <4>1. PICK t \in RecordTasks(Head(queueQ).dev) :
               Deliver(t.owner, Msg("answer", Head(queueQ).dev, t))
        BY <3>3 DEF ReqRecordTaskHandleResponse
      <4>2. t \in Tasks /\ t.dev = Head(queueQ).dev
        BY <4>1 DEF RecordTasks, LayerTyped
      <4>3. t.owner \in Callers /\ Msg("answer", Head(queueQ).dev, t) \in Handed
        BY <4>2 DEF Tasks, Handed, Answers, Msg
      <4> QED
        BY <4>1, <4>3, Delivered
    <3> QED
      BY <1>5, <3>1, <3>2, <3>3
  <2> QED
    BY <2>1, <2>2, <2>3 DEF LayerTyped
<1>6. ASSUME OntranslateToSyncLayer \/ HandleResponse \/ ReqRecordTaskHandleResponse
      PROVE  UNCHANGED devices
  BY <1>6 DEF OntranslateToSyncLayer, HandleResponse, ReqRecordTaskHandleResponse
<1>7. ASSUME HandleChangeConn PROVE DevicesTyped'
  <2>1. PICK gone : /\ sessions' = sessions \ gone /\ online' = online \ gone
                    /\ subscribed' = subscribed \ gone /\ UNCHANGED <<plates, delayed>>
    BY <1>7, Zenon DEF HandleChangeConn
  <2> QED
    BY <2>1 DEF DevicesTyped
<1>8. LayerTyped' /\ DevicesTyped'
  BY <1>3, <1>4, <1>5, <1>6, <1>7, Untouched DEF QueueThread
<1>9. HistoryTyped'
  BY <1>1 DEF HistoryTyped
<1> QED
  BY <1>1, <1>8, <1>9, Untouched

(* What ProcessPushEvent is at.                                            *)
LEMMA EventIs ==
    ASSUME ManagerTyped, event # None
    PROVE  event \in Events /\ event.dev \in Devices /\ event.type \in EventTypes
  BY DEF ManagerTyped, Events

(* The next handle that an event is for.                                   *)
LEMMA NextIs ==
    ASSUME ManagerTyped, Matching # {}
    PROVE  /\ index # Broken /\ index \in Nat
           /\ NextHandle \in index + 1 .. Len(push_handles_)
           /\ Handles(push_handles_[NextHandle])
<1>1. index # Broken
  BY DEF Matching
<1>2. index \in 0 .. Len(push_handles_) /\ Len(push_handles_) \in Nat
  BY <1>1 DEF ManagerTyped
<1>3. Matching = {i \in index + 1 .. Len(push_handles_) : Handles(push_handles_[i])}
  BY <1>1 DEF Matching
<1>4. Matching \subseteq Nat
  BY <1>2, <1>3
<1>5. \E i \in Matching : \A j \in Matching : i <= j
  BY <1>4, Smallest
<1>6. NextHandle \in Matching
  BY <1>5 DEF NextHandle
<1> QED
  BY <1>1, <1>2, <1>3, <1>6

(* A callback may begin a call, for the push thread has none.              *)
LEMMA CallbackTyped ==
    ASSUME CallsTyped, Locks, Idle(Push), UNCHANGED <<crit_section_, module_crit>>,
           Callback \/ UNCHANGED call \/ \E d \in Devices : StartCall(Push, "maxrecord", d)
    PROVE  CallsTyped' /\ Locks'
<1>1. Push \in Callers
  BY DEF Callers
<1>2. CASE UNCHANGED call
  BY <1>2, Untouched
<1>3. ASSUME NEW op \in Ops \cup {"maxrecord"}, NEW d \in Devices, StartCall(Push, op, d)
      PROVE  CallsTyped' /\ Locks'
  <2>1. PICK k : CallsTyped' /\ Moved(Push, k)
    BY <1>1, <1>3, Starts
  <2> QED
    BY <1>1, <2>1, NoLocks, LocksStay
<1> QED
  BY <1>2, <1>3, PushAssumption DEF Callback

(* PushGet keeps Typed.                                                    *)
LEMMA PushGetTyped ==
    ASSUME Typed, PushGet
    PROVE  Typed'
<1> USE DEF Typed
<1>1. /\ event = None /\ inbox[Push] # <<>>
      /\ event' = IF Head(inbox[Push]).type = "answer" THEN None ELSE Head(inbox[Push])
      /\ inbox' = [inbox EXCEPT ![Push] = Tail(inbox[Push])]
      /\ UNCHANGED <<push_handles_, index, tasks_, queueQ>> /\ UNCHANGED devices
      /\ UNCHANGED history /\ UNCHANGED call /\ UNCHANGED <<services, crit_section_, module_crit>>
      /\ UNCHANGED <<call, crit_section_, module_crit>>
  BY DEF PushGet, callers
<1>2. Push \in Callers
  BY DEF Callers
<1>3. inbox' \in [Callers -> Seq(Handed)] /\ Head(inbox[Push]) \in Handed
  BY <1>1, <1>2, TakenTyped
<1>4. event' \in Events \cup {None}
  BY <1>1, <1>3 DEF Handed, Answers
<1>5. ManagerTyped'
  BY <1>1, <1>4 DEF ManagerTyped
<1>6. LayerTyped'
  BY <1>1, <1>3 DEF LayerTyped
<1>7. Turn'
  BY <1>1 DEF Turn, Idle
<1> QED
  BY <1>1, <1>5, <1>6, <1>7, Untouched

(* PushPlate keeps Typed.                                                  *)
LEMMA PushPlateTyped ==
    ASSUME Typed, PushPlate
    PROVE  Typed'
<1> USE DEF Typed
<1>1. /\ event # None /\ event.type \in IvsResults /\ Idle(Push) /\ Callback /\ index' = Broken
      /\ reported' = [reported EXCEPT ![event.dev] = Append(reported[event.dev], event)]
      /\ UNCHANGED <<push_handles_, event>> /\ UNCHANGED <<services, crit_section_, module_crit>>
      /\ UNCHANGED layer /\ UNCHANGED devices /\ UNCHANGED swallowed
      /\ UNCHANGED <<crit_section_, module_crit>>
  BY DEF PushPlate, InEvent, AfterIvs
<1>2. CallsTyped' /\ Locks'
  BY <1>1, CallbackTyped
<1>3. ManagerTyped'
  BY <1>1 DEF ManagerTyped
<1>4. Turn'
  BY <1>1 DEF Turn
<1>5. HistoryTyped'
  <2>1. event \in Events /\ event.dev \in Devices
    BY <1>1, EventIs
  <2>2. event \in ResultsOf(event.dev)
    BY <1>1, <2>1 DEF Events, ResultsOf
  <2>3. reported[event.dev] \in Seq(ResultsOf(event.dev)) /\ reported[event.dev] \in Seq(Events)
    BY <2>1 DEF HistoryTyped
  <2>4. /\ Append(reported[event.dev], event) \in Seq(ResultsOf(event.dev))
        /\ Append(reported[event.dev], event) \in Seq(Events)
    BY <2>1, <2>2, <2>3, RangeOf
  <2>5. reported' \in [Devices -> Seq(Events)]
    BY <1>1, <2>1, <2>4 DEF HistoryTyped
  <2>6. \A d \in Devices : reported'[d] \in Seq(ResultsOf(d))
    <3> SUFFICES ASSUME NEW d \in Devices PROVE reported'[d] \in Seq(ResultsOf(d))
      OBVIOUS
    <3>1. CASE d = event.dev
      BY <1>1, <2>1, <2>4, <3>1 DEF HistoryTyped
    <3>2. CASE d # event.dev
      BY <1>1, <2>1, <3>2 DEF HistoryTyped
    <3> QED
      BY <3>1, <3>2
  <2> QED
    BY <1>1, <2>5, <2>6 DEF HistoryTyped
<1> QED
  BY <1>1, <1>2, <1>3, <1>4, <1>5, Untouched

(* PushConn keeps Typed.                                                   *)
LEMMA PushConnTyped ==
    ASSUME Typed, PushConn
    PROVE  Typed'
<1> USE DEF Typed
<1>1. /\ event # None /\ Idle(Push) /\ Matching # {} /\ index' = NextHandle
      /\ Resubscribe(event.dev) /\ Callback
      /\ UNCHANGED event /\ UNCHANGED <<services, crit_section_, module_crit>>
      /\ UNCHANGED <<tasks_, inbox>> /\ UNCHANGED devices /\ UNCHANGED history
      /\ UNCHANGED <<crit_section_, module_crit>>
  BY DEF PushConn, InEvent
<1>2. CallsTyped' /\ Locks'
  BY <1>1, CallbackTyped
<1>3. event.dev \in Devices /\ Push \in Callers
  BY <1>1, EventIs DEF Callers
<1>4. index' \in 0 .. Len(push_handles_)
  <2>1. NextHandle \in index + 1 .. Len(push_handles_) /\ index \in Nat
    BY <1>1, NextIs
  <2>2. Len(push_handles_) \in Nat
    BY DEF ManagerTyped
  <2> QED
    BY <1>1, <2>1, <2>2
<1>5. \/ UNCHANGED <<push_handles_, queueQ>>
      \/ /\ push_handles_' = Append(push_handles_, <<"ivs", event.dev>>)
         /\ queueQ' = Append(queueQ, Msg("ask", event.dev, Task(Push, event.dev, "subscribe")))
  BY <1>1 DEF Resubscribe
<1>6. ManagerTyped'
  <2>1. CASE UNCHANGED push_handles_
    BY <1>1, <1>4, <2>1 DEF ManagerTyped
  <2>2. CASE push_handles_' = Append(push_handles_, <<"ivs", event.dev>>)
    <3>1. <<"ivs", event.dev>> \in HandleSet
      BY <1>3 DEF HandleSet
    <3> QED
      BY <1>1, <1>4, <2>2, <3>1, HandleAdded
  <2> QED
    BY <1>5, <2>1, <2>2
<1>7. LayerTyped'
  <2>1. Msg("ask", event.dev, Task(Push, event.dev, "subscribe")) \in Messages
    BY <1>3, NewTask DEF Kinds
  <2>2. queueQ' \in Seq(Messages)
    <3>1. PICK m : m = Msg("ask", event.dev, Task(Push, event.dev, "subscribe"))
      OBVIOUS
    <3>2. queueQ \in Seq(Messages)
      BY DEF LayerTyped
    <3>3. queueQ' = queueQ \/ queueQ' = Append(queueQ, m)
      BY <1>5, <3>1
    <3>4. m \in Messages
      BY <2>1, <3>1
    <3> QED
      BY ONLY <3>2, <3>3, <3>4, RangeOf
  <2> QED
    BY <1>1, <2>2 DEF LayerTyped
<1>8. Turn'
  BY <1>1 DEF Turn
<1> QED
  BY <1>1, <1>2, <1>6, <1>7, <1>8, Untouched

(* PushResume keeps Typed.                                                 *)
LEMMA PushResumeTyped ==
    ASSUME Typed, PushResume
    PROVE  Typed'
<1> USE DEF Typed
<1>1. /\ event # None /\ Idle(Push) /\ index' = Broken
      /\ UNCHANGED <<push_handles_, event>> /\ UNCHANGED <<services, crit_section_, module_crit>>
      /\ UNCHANGED layer /\ UNCHANGED history /\ UNCHANGED <<crit_section_, module_crit>>
      /\ UNCHANGED <<sessions, online, subscribed, plates>>
      /\ \/ StartCall(Push, "maxrecord", event.dev) /\ UNCHANGED delayed
         \/ UNCHANGED call /\ delayed' = delayed \cup {event.dev}
  BY DEF PushResume, InEvent
<1>2. event.dev \in Devices
  BY <1>1, EventIs
<1>3. CallsTyped' /\ Locks'
  BY <1>1, <1>2, CallbackTyped
<1>4. ManagerTyped' /\ Turn'
  BY <1>1 DEF ManagerTyped, Turn
<1>5. DevicesTyped'
  BY <1>1, <1>2 DEF DevicesTyped
<1> QED
  BY <1>1, <1>3, <1>4, <1>5, Untouched

(* PushEnd keeps Typed.                                                    *)
LEMMA PushEndTyped ==
    ASSUME Typed, PushEnd
    PROVE  Typed'
<1> USE DEF Typed
<1>1. /\ Idle(Push) /\ event' = None /\ index' = 0 /\ UNCHANGED push_handles_
      /\ UNCHANGED call /\ UNCHANGED <<services, crit_section_, module_crit>>
      /\ UNCHANGED <<call, crit_section_, module_crit>>
      /\ UNCHANGED layer /\ UNCHANGED devices /\ UNCHANGED history
  BY DEF PushEnd, callers
<1>2. ManagerTyped' /\ Turn'
  <2>1. Len(push_handles_) \in Nat
    BY DEF ManagerTyped
  <2> QED
    BY <1>1, <2>1 DEF ManagerTyped, Turn, Idle
<1> QED
  BY <1>1, <1>2, Untouched

(* Devices, connections and timers keep Typed.                             *)
LEMMA NetworkTyped ==
    ASSUME Typed, Network
    PROVE  Typed'
<1> USE DEF Typed
<1>1. PICK d \in Devices : SendPlate(d) \/ LoseConnection(d) \/ Reconnect(d) \/ ResumeTimer(d)
  BY DEF Network
<1>2. PICK m \in Events : Tell(m)
  <2>1. plates[d] + 1 \in Nat
    BY DEF DevicesTyped
  <2>2. \A e \in {"online", "offline", "resume"} : Event(e, d) \in Events
    BY DEF Event, Msg, Events, EventTypes, IvsResults
  <2>3. Msg("plate", d, plates[d] + 1) \in Events
    BY <2>1 DEF Msg, Events, EventTypes, IvsResults
  <2> QED
    BY <1>1, <2>2, <2>3 DEF SendPlate, LoseConnection, Reconnect, ResumeTimer
<1>3. /\ queueQ' = Append(queueQ, m) /\ UNCHANGED manager /\ UNCHANGED history
      /\ UNCHANGED <<tasks_, inbox>> /\ UNCHANGED <<services, crit_section_, module_crit>>
      /\ UNCHANGED call /\ UNCHANGED <<call, crit_section_, module_crit>>
      /\ UNCHANGED <<event, index, call>>
  BY <1>2 DEF Tell, callers, manager
<1>4. LayerTyped'
  <2>1. m \in Messages
    BY DEF Messages, Handed
  <2>2. queueQ' \in Seq(Messages)
    BY <1>3, <2>1, RangeOf DEF LayerTyped
  <2> QED
    BY <1>3, <2>2 DEF LayerTyped
<1>5. DevicesTyped'
  BY <1>1 DEF DevicesTyped, SendPlate, LoseConnection, Reconnect, ResumeTimer
<1> QED
  BY <1>3, <1>4, <1>5, Untouched

(* Typed holds at the beginning.                                           *)
LEMMA InitTyped == Init => Typed
<1> SUFFICES ASSUME Init PROVE Typed
  OBVIOUS
<1> DEFINE H == {"conn", "ivs", "resume"} \X Devices
<1>1. IsFiniteSet(H)
  <2>1. IsFiniteSet({"conn", "ivs", "resume"})
    <3>1. IsFiniteSet({"conn"})
      BY FS_Singleton
    <3>2. IsFiniteSet({"conn"} \cup {"ivs"})
      BY <3>1, FS_AddElement
    <3>3. IsFiniteSet(({"conn"} \cup {"ivs"}) \cup {"resume"})
      BY <3>2, FS_AddElement
    <3>4. ({"conn"} \cup {"ivs"}) \cup {"resume"} = {"conn", "ivs", "resume"}
      OBVIOUS
    <3> QED
      BY <3>3, <3>4
  <2> QED
    BY <2>1, FS_Product, PushAssumption
<1>2. push_handles_ \in Seq(HandleSet) /\ Range(push_handles_) = HandleSet
  <2>1. push_handles_ = SetToSeq(H) /\ H = HandleSet
    BY DEF Init, HandleSet
  <2> HIDE DEF H
  <2> QED
    BY <1>1, <2>1, SetToSeqOf
<1>3. ManagerTyped
  <2>1. Len(push_handles_) \in Nat
    BY <1>2
  <2>2. \A d \in Devices : <<"ivs", d>> \in HandleSet
    BY DEF HandleSet
  <2>3. event = None /\ index = 0
    BY DEF Init
  <2>4. index \in {Broken} \cup 0 .. Len(push_handles_)
    BY <2>1, <2>3
  <2> QED
    BY <1>2, <2>2, <2>3, <2>4 DEF ManagerTyped
<1>4. CallsTyped
  BY NoCallOK DEF CallsTyped, Init, CallOK
<1>5. HoldersTyped
  BY DEF HoldersTyped, Init
<1>6. LayerTyped
  <2>1. IsFiniteSet({})
    BY FS_EmptySet
  <2> QED
    BY <2>1 DEF LayerTyped, Init
<1>7. DevicesTyped
  BY DEF DevicesTyped, Init
<1>8. HistoryTyped
  BY DEF HistoryTyped, Init
<1>9. Turn
  BY DEF Turn, Init, Idle, NoCall, Callers
<1>10. Locks
  BY PushAssumption DEF Locks, Init
<1> QED
  BY <1>3, <1>4, <1>5, <1>6, <1>7, <1>8, <1>9, <1>10 DEF Typed

(* Every step keeps Typed.                                                 *)
LEMMA NextTyped == Typed /\ [Next]_vars => Typed'
<1> SUFFICES ASSUME Typed, [Next]_vars PROVE Typed'
  OBVIOUS
<1>1. CASE \E d \in Devices, op \in Ops : UserCall(d, op)
  BY <1>1, UserCallTyped
<1>2. CASE \E c \in Callers : CallStep(c)
  BY <1>2, CallStepTyped
<1>3. CASE QueueThread
  BY <1>3, QueueThreadTyped
<1>4. CASE PushThread
  BY <1>4, PushGetTyped, PushPlateTyped, PushConnTyped, PushResumeTyped, PushEndTyped
     DEF PushThread
<1>5. CASE Network
  BY <1>5, NetworkTyped
<1>6. CASE UNCHANGED vars
  <2>1. /\ UNCHANGED manager /\ UNCHANGED callers /\ UNCHANGED layer /\ UNCHANGED devices
        /\ UNCHANGED history
    BY <1>6 DEF vars
  <2>2. /\ UNCHANGED <<services, crit_section_, module_crit>> /\ UNCHANGED call
        /\ UNCHANGED <<call, crit_section_, module_crit>> /\ UNCHANGED <<event, index, call>>
    BY <2>1 DEF callers, manager
  <2> QED
    BY <2>1, <2>2, Untouched DEF Typed
<1> QED
  BY <1>1, <1>2, <1>3, <1>4, <1>5, <1>6 DEF Next

(* Typed is an invariant.                                                  *)
LEMMA TypedHolds == Spec => []Typed
  BY InitTyped, NextTyped, PTL DEF Spec

(* Who holds crit_section_ or the lock of a module is at a step of his     *)
(* call that gives it back: TypeOK, with the types of the push manager.    *)
THEOREM TypeCorrectPush == Spec => []TypeOK
<1>1. Typed => TypeOK
  <2> SUFFICES ASSUME Typed PROVE TypeOK
    OBVIOUS
  <2> USE DEF Typed
  <2>1. \A i \in DOMAIN push_handles_ : push_handles_[i] \in {"conn", "ivs", "resume"} \X Devices
    BY DEF ManagerTyped, HandleSet
  <2>2. index \in {Broken} \cup 0 .. Len(push_handles_) /\ (event = None => Idle(Push))
    BY DEF ManagerTyped, Turn
  <2>3. ASSUME NEW c \in Callers
        PROVE  /\ call[c].dev \in Devices \cup {None}
               /\ (\E d \in Devices : module_crit[d] = c) =>
                     ~Idle(c) /\ module_crit[call[c].dev] = c /\ At(c, "wait")
    <3>1. call[c].dev \in Devices \cup {None}
      BY DEF CallsTyped, Calls
    <3>2. ASSUME NEW d \in Devices, module_crit[d] = c
          PROVE  ~Idle(c) /\ module_crit[call[c].dev] = c /\ At(c, "wait")
      BY <3>2, Heads DEF Locks, Idle, At
    <3> QED
      BY <3>1, <3>2
  <2>4. crit_section_ # None => At(crit_section_, "wait") \/ At(crit_section_, "ask")
    BY Heads DEF Locks, HoldersTyped, At, Idle
  <2>5. \A t \in tasks_ : t.owner \in Callers /\ t.dev \in Devices
    BY DEF LayerTyped, Tasks
  <2> QED
    BY <2>1, <2>2, <2>3, <2>4, <2>5 DEF TypeOK, DevicesTyped, HoldersTyped
<1> QED
  BY <1>1, TypedHolds, PTL

-----------------------------------------------------------------------------
(* The way of a plate result, from its device to the callback: the queue   *)
(* of the queue thread, that of the push thread, the event, the history.   *)
Lt(a, b) == (a.type = "plate" /\ b.type = "plate" /\ a.dev = b.dev) => a.n < b.n
Before(A, B) == \A a \in A, b \in B : Lt(a, b)
Ordered(s) == \A i, j \in DOMAIN s : i < j => Lt(s[i], s[j])
Pl(s) == {m \in Range(s) : m.type = "plate"}
NotPlate(e) == e = None \/ e.type # "plate"
Current == IF NotPlate(event) \/ index = Broken THEN {} ELSE {event}
Reported == UNION {Pl(reported[d]) : d \in Devices}

InOrder ==
    /\ Ordered(queueQ) /\ Ordered(inbox[Push]) /\ \A d \in Devices : Ordered(reported[d])
    /\ Before(Pl(inbox[Push]), Pl(queueQ))
    /\ Before(Current, Pl(inbox[Push]) \cup Pl(queueQ))
    /\ Before(Reported, Current \cup Pl(inbox[Push]) \cup Pl(queueQ))
    /\ \A m \in Reported \cup Current \cup Pl(inbox[Push]) \cup Pl(queueQ) : m.n <= plates[m.dev]
EventKept ==
    ~NotPlate(event) => \/ index = 0
                        \/ index = Broken /\ event \in Range(reported[event.dev])
Lines == InOrder /\ EventKept /\ PlatesKept

(* The first of an ordered queue is below the others.                      *)
LEMMA OrderedTail ==
    ASSUME NEW S, NEW s \in Seq(S), s # <<>>, Ordered(s)
    PROVE  Ordered(Tail(s)) /\ Before({Head(s)}, Range(Tail(s)))
<1>1. /\ Tail(s) \in Seq(S) /\ Len(Tail(s)) = Len(s) - 1 /\ Len(s) \in Nat
      /\ \A i \in 1 .. Len(Tail(s)) : Tail(s)[i] = s[i + 1]
  BY HeadTailProperties
<1>2. DOMAIN s = 1 .. Len(s) /\ DOMAIN Tail(s) = 1 .. Len(s) - 1
  BY <1>1, LenProperties
<1>3. Head(s) = s[1] /\ Len(s) # 0
  BY EmptySeq
<1>4. ASSUME NEW i \in DOMAIN Tail(s)
      PROVE  i + 1 \in DOMAIN s /\ 1 < i + 1 /\ 1 \in DOMAIN s /\ i \in Int /\ Tail(s)[i] = s[i + 1]
  BY <1>1, <1>2
<1>5. ASSUME NEW i \in DOMAIN Tail(s), NEW j \in DOMAIN Tail(s), i < j
      PROVE  Lt(Tail(s)[i], Tail(s)[j])
  <2>1. i + 1 < j + 1
    BY <1>2, <1>5
  <2> QED
    BY <1>4, <2>1 DEF Ordered
<1>6. ASSUME NEW b \in Range(Tail(s)) PROVE Lt(Head(s), b)
  <2>1. PICK i \in DOMAIN Tail(s) : b = Tail(s)[i]
    BY DEF Range
  <2> QED
    BY <1>3, <1>4, <2>1 DEF Ordered
<1> QED
  BY <1>5, <1>6 DEF Ordered, Before

(* A message above all others may be appended.                             *)
LEMMA OrderedAppend ==
    ASSUME NEW S, NEW s \in Seq(S), NEW m \in S, Ordered(s), Before(Range(s), {m})
    PROVE  Ordered(Append(s, m))
<1>1. /\ Len(s) \in Nat /\ DOMAIN s = 1 .. Len(s) /\ DOMAIN Append(s, m) = 1 .. Len(s) + 1
      /\ \A i \in 1 .. Len(s) : Append(s, m)[i] = s[i]
      /\ Append(s, m)[Len(s) + 1] = m
  BY AppendProperties, LenProperties
<1>2. SUFFICES ASSUME NEW i \in DOMAIN Append(s, m), NEW j \in DOMAIN Append(s, m), i < j
               PROVE  Lt(Append(s, m)[i], Append(s, m)[j])
  BY DEF Ordered
<1>3. i \in DOMAIN s /\ Append(s, m)[i] = s[i]
  BY <1>1, <1>2
<1>4. CASE j \in DOMAIN s
  BY <1>1, <1>2, <1>3, <1>4 DEF Ordered
<1>5. CASE j \notin DOMAIN s
  <2>1. j = Len(s) + 1
    BY <1>1, <1>5
  <2>2. s[i] \in Range(s)
    BY <1>3 DEF Range
  <2> QED
    BY <1>1, <1>3, <2>1, <2>2 DEF Before
<1> QED
  BY <1>4, <1>5

(* What is no plate result may be added anywhere.                          *)
LEMMA AppendOther ==
    ASSUME NEW S, NEW s \in Seq(S), NEW m \in S, m.type # "plate"
    PROVE  /\ Ordered(s) => Ordered(Append(s, m))
           /\ Pl(Append(s, m)) = Pl(s)
<1>1. Before(Range(s), {m})
  BY DEF Before, Lt
<1>2. Range(Append(s, m)) = Range(s) \cup {m}
  BY RangeOf
<1>3. Ordered(s) => Ordered(Append(s, m))
  BY <1>1, OrderedAppend
<1> QED
  BY <1>2, <1>3 DEF Pl

(* The first message goes, the order of the others stays.                  *)
LEMMA TailOther ==
    ASSUME NEW S, NEW s \in Seq(S), s # <<>>
    PROVE  /\ Ordered(s) => Ordered(Tail(s))
           /\ Pl(Tail(s)) \subseteq Pl(s)
           /\ Pl(s) \subseteq Pl(Tail(s)) \cup {Head(s)}
           /\ Head(s).type # "plate" => Pl(Tail(s)) = Pl(s)
           /\ Head(s).type = "plate" => Head(s) \in Pl(s)
<1>1. Range(s) = Range(Tail(s)) \cup {Head(s)}
  BY RangeOf
<1>2. Ordered(s) => Ordered(Tail(s))
  BY OrderedTail
<1> QED
  BY <1>1, <1>2 DEF Pl

(* What is erased from a queue is no plate result.                         *)
LEMMA SelectedOther ==
    ASSUME NEW S, NEW s \in Seq(S), NEW keep, \A m \in Range(s) : m.type = "plate" => m \in keep
    PROVE  /\ Ordered(s) => Ordered(Selected(s, keep))
           /\ Pl(Selected(s, keep)) = Pl(s)
<1>1. Range(Selected(s, keep)) = Range(s) \cap keep
  BY RangeSelected
<1>2. ASSUME Ordered(s), NEW i \in DOMAIN Selected(s, keep), NEW j \in DOMAIN Selected(s, keep),
             i < j
      PROVE  Lt(Selected(s, keep)[i], Selected(s, keep)[j])
  <2>1. i # j
    <3>1. DOMAIN Selected(s, keep) \subseteq Int
      BY RangeSelected, LenProperties
    <3> QED
      BY <1>2, <3>1
  <2>2. PICK a, b \in DOMAIN s : /\ (i < j => a < b)
                                 /\ s[a] = Selected(s, keep)[i] /\ s[b] = Selected(s, keep)[j]
    BY <2>1, SelectedDistinct
  <2>3. a < b
    BY <1>2, <2>2
  <2>4. Lt(s[a], s[b])
    BY <1>2, <2>3 DEF Ordered
  <2> QED
    BY <2>2, <2>4
<1>3. Ordered(s) => Ordered(Selected(s, keep))
  BY <1>2 DEF Ordered
<1> QED
  BY <1>1, <1>3 DEF Pl

(* Steps that move no plate result but to where it is lost.                *)
QueueSame ==
    /\ Ordered(queueQ) => Ordered(queueQ')
    /\ Pl(queueQ') \subseteq Pl(queueQ)
    /\ Pl(queueQ) \subseteq Pl(queueQ') \cup taken'
    /\ taken \subseteq taken'
InboxSame ==
    /\ Ordered(inbox[Push]) => Ordered(inbox'[Push])
    /\ Pl(inbox'[Push]) \subseteq Pl(inbox[Push])
    /\ Pl(inbox[Push]) \subseteq Pl(inbox'[Push]) \cup swallowed'
    /\ swallowed \subseteq swallowed'
EventSame == UNCHANGED <<event, index>> \/ (NotPlate(event) /\ NotPlate(event'))
ReportedSame ==
    \A d \in Devices : /\ Ordered(reported[d]) => Ordered(reported'[d])
                       /\ Pl(reported'[d]) = Pl(reported[d])
Ordinary == QueueSame /\ InboxSame /\ EventSame /\ ReportedSame /\ UNCHANGED plates

(* An ordinary step keeps the lines.                                       *)
LEMMA OrdinaryKeeps ==
    ASSUME Typed, Lines, Ordinary
    PROVE  Lines'
<1>1. /\ QueueSame /\ InboxSame /\ ReportedSame /\ plates' = plates
      /\ InOrder /\ EventKept /\ PlatesKept
  BY DEF Ordinary, Lines
<1>2. Current' = Current
  <2>1. CASE UNCHANGED <<event, index>>
    BY <2>1 DEF Current, NotPlate
  <2>2. CASE NotPlate(event) /\ NotPlate(event')
    BY <2>2 DEF Current, NotPlate
  <2> QED
    BY <2>1, <2>2 DEF Ordinary, EventSame
<1>3. Reported' = Reported
  <2>1. \A d \in Devices : Pl(reported[d])' = Pl(reported[d])
    BY <1>1 DEF ReportedSame, Pl
  <2> QED
    BY <2>1 DEF Reported
<1>4. InOrder'
  <2>1. Ordered(queueQ)' /\ Ordered(inbox[Push])' /\ \A d \in Devices : Ordered(reported[d])'
    BY <1>1 DEF InOrder, QueueSame, InboxSame, ReportedSame, Ordered
  <2>2. Pl(queueQ)' \subseteq Pl(queueQ) /\ Pl(inbox[Push])' \subseteq Pl(inbox[Push])
    BY <1>1 DEF QueueSame, InboxSame, Pl
  <2>3. Before(Pl(inbox[Push])', Pl(queueQ)')
    BY <1>1, <2>2 DEF InOrder, Before
  <2>4. Before(Current', Pl(inbox[Push])' \cup Pl(queueQ)')
    BY <1>1, <1>2, <2>2 DEF InOrder, Before
  <2>5. Before(Reported', Current' \cup Pl(inbox[Push])' \cup Pl(queueQ)')
    BY <1>1, <1>2, <1>3, <2>2 DEF InOrder, Before
  <2>6. \A m \in Reported' \cup Current' \cup Pl(inbox[Push])' \cup Pl(queueQ)' :
            m.n <= plates'[m.dev]
    BY <1>1, <1>2, <1>3, <2>2 DEF InOrder
  <2> QED
    BY <2>1, <2>3, <2>4, <2>5, <2>6 DEF InOrder, Before
<1>5. EventKept'
  <2> SUFFICES ASSUME ~NotPlate(event)'
               PROVE  \/ index' = 0
                      \/ index' = Broken /\ event' \in Range(reported'[event'.dev])
    BY DEF EventKept
  <2>1. UNCHANGED <<event, index>> /\ ~NotPlate(event)
    BY DEF Ordinary, EventSame, NotPlate
  <2>2. event \in Events /\ event.dev \in Devices /\ event.type = "plate"
    BY <2>1, EventIs DEF NotPlate, Typed
  <2>3. event \in Range(reported[event.dev]) => event \in Range(reported'[event.dev])
    BY <1>1, <2>2 DEF ReportedSame, Pl
  <2> QED
    BY <1>1, <2>1, <2>3 DEF EventKept
<1>6. PlatesKept'
  <2> SUFFICES ASSUME NEW d \in Devices, NEW n \in 1 .. plates[d], NEW p, p = Msg("plate", d, n)
               PROVE  \/ p \in Range(queueQ') \cup Range(inbox'[Push]) \cup Range(reported'[d])
                      \/ event' = p
                      \/ p \in swallowed' \cup taken'
    BY <1>1 DEF PlatesKept
  <2>1. p.type = "plate"
    BY DEF Msg
  <2>2. \/ p \in Range(queueQ) \cup Range(inbox[Push]) \cup Range(reported[d])
        \/ event = p
        \/ p \in swallowed \cup taken
    BY <1>1 DEF PlatesKept
  <2>3. CASE p \in Range(queueQ)
    BY <1>1, <2>1, <2>3 DEF QueueSame, Pl
  <2>4. CASE p \in Range(inbox[Push])
    BY <1>1, <2>1, <2>4 DEF InboxSame, Pl
  <2>5. CASE event = p /\ p # None
    BY <2>1, <2>5 DEF Ordinary, EventSame, NotPlate
  <2>6. p # None
    <3>1. n \in Nat
      BY DEF Typed, DevicesTyped
    <3>2. p \in [type : EventTypes, dev : Devices, n : Nat]
      BY <3>1 DEF Msg, EventTypes, IvsResults
    <3> QED
      BY <3>2, PushAssumption
  <2>7. CASE p \in Range(reported[d])
    BY <1>1, <2>1, <2>7 DEF ReportedSame, Pl
  <2> QED
    BY <1>1, <2>2, <2>3, <2>4, <2>5, <2>6, <2>7 DEF InboxSame, QueueSame
<1> QED
  BY <1>4, <1>5, <1>6 DEF Lines

(* How the parts of an ordinary step come about.                           *)
LEMMA Sames ==
    ASSUME LayerTyped
    PROVE  /\ UNCHANGED <<queueQ, taken>> => QueueSame
           /\ \A m \in Messages : (m.type # "plate" /\ queueQ' = Append(queueQ, m)
                                   /\ UNCHANGED taken) => QueueSame
           /\ UNCHANGED <<inbox, swallowed>> => InboxSame
           /\ UNCHANGED <<event, index>> => EventSame
           /\ UNCHANGED reported => ReportedSame
<1>1. UNCHANGED <<queueQ, taken>> => QueueSame
  BY DEF QueueSame
<1>2. ASSUME NEW m \in Messages, m.type # "plate", queueQ' = Append(queueQ, m), UNCHANGED taken
      PROVE  QueueSame
  BY <1>2, AppendOther DEF QueueSame, LayerTyped
<1>3. UNCHANGED <<inbox, swallowed>> => InboxSame
  BY DEF InboxSame
<1>4. UNCHANGED <<event, index>> => EventSame
  BY DEF EventSame
<1>5. UNCHANGED reported => ReportedSame
  BY DEF ReportedSame
<1> QED
  BY <1>1, <1>2, <1>3, <1>4, <1>5

(* What WaitTaskDone drops on the push thread is in swallowed.             *)
LEMMA UnhandledSame ==
    ASSUME LayerTyped, NEW c \in Callers, Unhandled(c)
    PROVE  InboxSame /\ UNCHANGED <<reported, taken>>
<1>1. /\ inbox \in [Callers -> Seq(Handed)] /\ Push \in Callers
      /\ inbox[c] # <<>> /\ inbox' = [inbox EXCEPT ![c] = Tail(inbox[c])]
      /\ swallowed' = IF Head(inbox[c]).type = "answer" THEN swallowed
                      ELSE swallowed \cup {Head(inbox[c])}
      /\ UNCHANGED <<reported, taken>>
  BY DEF LayerTyped, Unhandled, Callers
<1>2. CASE c = Push
  <2>1. inbox'[Push] = Tail(inbox[Push])
    BY <1>1, <1>2
  <2>2. /\ Ordered(inbox[Push]) => Ordered(Tail(inbox[Push]))
        /\ Pl(Tail(inbox[Push])) \subseteq Pl(inbox[Push])
        /\ Pl(inbox[Push]) \subseteq Pl(Tail(inbox[Push])) \cup {Head(inbox[Push])}
        /\ Head(inbox[Push]).type # "plate" => Pl(Tail(inbox[Push])) = Pl(inbox[Push])
    BY <1>1, <1>2, TailOther
  <2> QED
    BY <1>1, <1>2, <2>1, <2>2 DEF InboxSame
<1>3. CASE c # Push
  <2>1. inbox'[Push] = inbox[Push]
    BY <1>1, <1>3
  <2> QED
    BY <1>1, <2>1 DEF InboxSame
<1> QED
  BY <1>2, <1>3

(* WaitTaskDone and the queue thread take answers and leave the rest.      *)
LEMMA AnswerTaken ==
    ASSUME LayerTyped, NEW c \in Callers, inbox[c] # <<>>, Head(inbox[c]).type = "answer",
           inbox' = [inbox EXCEPT ![c] = Tail(@)], UNCHANGED swallowed
    PROVE  InboxSame
<1>1. inbox \in [Callers -> Seq(Handed)] /\ Push \in Callers
  BY DEF LayerTyped, Callers
<1>2. CASE c = Push
  <2>1. inbox'[Push] = Tail(inbox[Push])
    BY <1>1, <1>2
  <2>2. /\ Ordered(inbox[Push]) => Ordered(Tail(inbox[Push]))
        /\ Pl(Tail(inbox[Push])) = Pl(inbox[Push])
    BY <1>1, <1>2, TailOther
  <2> QED
    BY <2>1, <2>2 DEF InboxSame
<1>3. CASE c # Push
  BY <1>1, <1>3 DEF InboxSame
<1> QED
  BY <1>2, <1>3

(* A message that is no plate result is delivered.                         *)
LEMMA OtherDelivered ==
    ASSUME LayerTyped, NEW c \in Callers, NEW m \in Handed, m.type # "plate", Deliver(c, m),
           UNCHANGED swallowed
    PROVE  InboxSame
<1>1. /\ inbox \in [Callers -> Seq(Handed)] /\ Push \in Callers
      /\ inbox' = [inbox EXCEPT ![c] = Append(inbox[c], m)]
  BY DEF LayerTyped, Callers, Deliver
<1>2. CASE c = Push
  <2>1. inbox'[Push] = Append(inbox[Push], m)
    BY <1>1, <1>2
  <2>2. /\ Ordered(inbox[Push]) => Ordered(Append(inbox[Push], m))
        /\ Pl(Append(inbox[Push], m)) = Pl(inbox[Push])
    BY <1>1, AppendOther
  <2> QED
    BY <2>1, <2>2 DEF InboxSame
<1>3. CASE c # Push
  BY <1>1, <1>3 DEF InboxSame
<1> QED
  BY <1>2, <1>3

(* Every step of a call keeps the lines.                                   *)
LEMMA CallStepLines ==
    ASSUME Typed, Lines, NEW c \in Callers, CallStep(c)
    PROVE  Lines'
<1> USE DEF Typed
<1>1. SUFFICES Ordinary
  BY OrdinaryKeeps
<1>2. UNCHANGED plates /\ UNCHANGED <<event, index>>
  BY DEF CallStep, GetService, CloseService, SyncProcessReqTask, GetRecord, Disconnect,
         SetReciveIvsResultCallback, ReciveIvsResult, AddPushHandle, ResumeRecord, PostResumeReq,
         Swallow, WaitGet, WaitTimeout, TaskDone, manager, devices
<1>3. EventSame
  BY <1>2, Sames
<1>4. ASSUME GetService(c) \/ SetReciveIvsResultCallback(c) \/ ResumeRecord(c) \/ PostResumeReq(c)
      PROVE  QueueSame /\ InboxSame /\ UNCHANGED <<reported, taken>>
  <2>1. UNCHANGED <<queueQ, taken>> /\ UNCHANGED <<inbox, swallowed>> /\ UNCHANGED <<reported, taken>>
    BY <1>4 DEF GetService, SetReciveIvsResultCallback, ResumeRecord, PostResumeReq, layer, history
  <2> QED
    BY <2>1, Sames
<1>5. ASSUME CloseService(c) \/ SyncProcessReqTask(c) \/ GetRecord(c) \/ Disconnect(c)
             \/ ReciveIvsResult(c)
      PROVE  QueueSame /\ InboxSame /\ UNCHANGED <<reported, taken>>
  <2>1. UNCHANGED <<inbox, swallowed>> /\ UNCHANGED <<reported, taken>>
    BY <1>5 DEF CloseService, SyncProcessReqTask, GetRecord, Disconnect, ReciveIvsResult, history
  <2>2. ~Idle(c) /\ Head(call[c].todo) \in Posts
    BY <1>5 DEF CloseService, SyncProcessReqTask, GetRecord, Disconnect, ReciveIvsResult, At, Posts
  <2>3. UNCHANGED queueQ \/ \E kind \in Kinds : PostTask(c, kind)
    BY <1>5 DEF CloseService, SyncProcessReqTask, GetRecord, Disconnect, ReciveIvsResult, Kinds
  <2>4. ASSUME NEW kind \in Kinds, PostTask(c, kind) PROVE QueueSame
    <3>1. PICK t \in Tasks : queueQ' = Append(queueQ, Msg("ask", call[c].dev, t))
      BY <2>2, <2>4, Posted
    <3>2. call[c].dev \in Devices
      BY <2>2, AtStep
    <3>3. /\ Msg("ask", call[c].dev, t) \in Messages
          /\ Msg("ask", call[c].dev, t).type # "plate"
      BY <3>2 DEF Messages, Orders, Msg
    <3> QED
      BY <2>1, <3>1, <3>3, Sames
  <2> QED
    BY <2>1, <2>3, <2>4, Sames
<1>6. ASSUME Swallow(c) PROVE QueueSame /\ InboxSame /\ UNCHANGED <<reported, taken>>
  BY <1>6, UnhandledSame, Sames DEF Swallow
<1>7. ASSUME WaitGet(c) \/ WaitTimeout(c) PROVE QueueSame /\ InboxSame /\ UNCHANGED <<reported, taken>>
  <2>1. At(c, "wait") /\ queueQ' = Append(queueQ, Msg("forget", c, call[c].task))
    BY <1>7 DEF WaitGet, WaitTimeout, Unhandled, TaskDone
  <2>2. call[c].task \in Tasks
    BY <2>1, AtStep DEF At
  <2>3. Msg("forget", c, call[c].task) \in Messages /\ Msg("forget", c, call[c].task).type # "plate"
    BY <2>2 DEF Messages, Orders, Msg
  <2>4. InboxSame /\ UNCHANGED <<reported, taken>>
    <3>1. CASE WaitGet(c)
      <4>1. UNCHANGED <<reported, taken>> /\ UNCHANGED swallowed /\ Head(inbox[c]).type = "answer"
        BY <3>1 DEF WaitGet, history, IsFor
      <4> QED
        BY <3>1, <4>1, AnswerTaken DEF WaitGet
    <3>2. CASE UNCHANGED <<inbox, history>>
      BY <3>2, Sames DEF history
    <3>3. CASE Unhandled(c)
      BY <3>3, UnhandledSame
    <3> QED
      BY <1>7, <3>1, <3>2, <3>3 DEF WaitTimeout
  <2>5. QueueSame
    BY <2>1, <2>3, <2>4, Sames
  <2> QED
    BY <2>4, <2>5
<1>8. QueueSame /\ InboxSame /\ UNCHANGED <<reported, taken>>
  BY <1>4, <1>5, <1>6, <1>7 DEF CallStep
<1> QED
  BY <1>2, <1>3, <1>8, Sames DEF Ordinary

(* A plate result goes from the queue thread to the push thread.           *)
LEMMA HandleResponseLines ==
    ASSUME Typed, Lines, HandleResponse, Head(queueQ).type = "plate"
    PROVE  Lines'
<1> USE DEF Typed
<1> DEFINE m == Head(queueQ)
           q == inbox[Push]
<1>1. /\ queueQ # <<>> /\ m.type = "plate" /\ queueQ' = Tail(queueQ) /\ event = None
      /\ UNCHANGED <<event, index>> /\ UNCHANGED plates
      /\ UNCHANGED <<reported, swallowed, taken>>
  BY DEF HandleResponse, QueueGets, manager, devices, history
<1>2. "ivs" \in Keys
  <2>1. PICK i \in DOMAIN queueQ : m = queueQ[i]
    <3>1. m \in Range(queueQ)
      BY <1>1, HeadOfQueue
    <3> QED
      BY <3>1 DEF Range
  <2>2. m.dev \in Devices
    <3>1. m \in Messages
      BY <1>1, HeadOfQueue
    <3> QED
      BY <1>1, <3>1 DEF Messages, Handed, Events, Answers, Orders
  <2>3. <<"ivs", m.dev>> \in Range(push_handles_)
    BY <2>2 DEF ManagerTyped
  <2>4. PICK j \in DOMAIN push_handles_ : push_handles_[j] = <<"ivs", m.dev>>
    BY <2>3 DEF Range
  <2>5. push_handles_[j][1] = "ivs"
    BY <2>4
  <2> QED
    BY <2>5 DEF Keys
<1>3. /\ q \in Seq(Handed) /\ Push \in Callers /\ m \in Handed /\ queueQ \in Seq(Messages)
      /\ inbox \in [Callers -> Seq(Handed)]
  BY <1>1, HeadOfQueue DEF LayerTyped, Callers, EventTypes, IvsResults
<1>4. inbox'[Push] = Append(q, m)
  BY <1>2, <1>3 DEF HandleResponse, Deliver
<1>5. /\ Ordered(queueQ) /\ Ordered(q) /\ Before(Pl(q), Pl(queueQ))
      /\ Before(Current, Pl(q) \cup Pl(queueQ))
      /\ Before(Reported, Current \cup Pl(q) \cup Pl(queueQ))
      /\ \A x \in Reported \cup Current \cup Pl(q) \cup Pl(queueQ) : x.n <= plates[x.dev]
      /\ \A d \in Devices : Ordered(reported[d])
  BY DEF Lines, InOrder
<1>6. /\ m \in Pl(queueQ) /\ Pl(Tail(queueQ)) \subseteq Pl(queueQ)
      /\ Ordered(Tail(queueQ)) /\ Before({m}, Range(Tail(queueQ)))
      /\ Pl(queueQ) \subseteq Pl(Tail(queueQ)) \cup {m}
  BY <1>1, <1>3, <1>5, TailOther, OrderedTail
<1>7. Range(Append(q, m)) = Range(q) \cup {m} /\ Pl(Append(q, m)) = Pl(q) \cup {m}
  BY <1>1, <1>3, RangeOf DEF Pl
<1>8. Ordered(Append(q, m))
  <2>1. Before(Range(q), {m})
    BY <1>5, <1>6 DEF Before, Pl, Lt
  <2> HIDE DEF q, m
  <2> QED
    BY <1>3, <1>5, <2>1, OrderedAppend
<1>9. Current' = Current /\ Reported' = Reported
  BY <1>1 DEF Current, Reported, NotPlate
<1> HIDE DEF m, q
<1>10. InOrder'
  <2>1. Pl(queueQ)' = Pl(Tail(queueQ)) /\ Pl(inbox[Push])' = Pl(q) \cup {m}
    BY <1>1, <1>4, <1>7 DEF Pl
  <2>2. Ordered(queueQ)' /\ Ordered(inbox[Push])' /\ \A d \in Devices : Ordered(reported[d])'
    BY <1>1, <1>4, <1>5, <1>6, <1>8 DEF Ordered
  <2>3. Before(Pl(q) \cup {m}, Pl(Tail(queueQ)))
    BY <1>5, <1>6 DEF Before, Pl
  <2>4. Before(Current, (Pl(q) \cup {m}) \cup Pl(Tail(queueQ)))
    BY <1>5, <1>6 DEF Before
  <2>5. Before(Reported, Current \cup (Pl(q) \cup {m}) \cup Pl(Tail(queueQ)))
    BY <1>5, <1>6 DEF Before
  <2>6. \A x \in Reported \cup Current \cup (Pl(q) \cup {m}) \cup Pl(Tail(queueQ)) :
            x.n <= plates[x.dev]
    BY <1>5, <1>6
  <2> QED
    BY <1>1, <1>9, <2>1, <2>2, <2>3, <2>4, <2>5, <2>6 DEF InOrder, Before
<1>11. EventKept'
  BY <1>1 DEF EventKept, NotPlate
<1>12. PlatesKept'
  <2>1. Range(queueQ) = Range(queueQ') \cup {m}
    BY <1>1, HeadOfQueue DEF m
  <2>2. Range(inbox'[Push]) = Range(inbox[Push]) \cup {m}
    BY <1>4, <1>7 DEF q
  <2> QED
    BY <1>1, <2>1, <2>2 DEF PlatesKept, Lines
<1> QED
  BY <1>10, <1>11, <1>12 DEF Lines

(* Every step of the queue thread keeps the lines.                         *)
LEMMA QueueThreadLines ==
    ASSUME Typed, Lines, QueueThread
    PROVE  Lines'
<1> USE DEF Typed
<1>0. queueQ \in Seq(Messages) /\ Push \in Callers /\ inbox \in [Callers -> Seq(Handed)]
  BY DEF LayerTyped, Callers
<1> DEFINE Moving == HandleResponse /\ Head(queueQ).type = "plate"
<1>1. CASE Moving
  BY <1>1, HandleResponseLines
<1>2. ASSUME ~Moving PROVE QueueSame /\ InboxSame
  <2>1. /\ UNCHANGED swallowed
        /\ ~ReqRecordTaskHandleResponse => UNCHANGED taken
    BY DEF QueueThread, OnTranslateToAsyncLayer, OnRemoveTaskMessage, OntranslateToSyncLayer,
           ReqRecordTaskHandleResponse, HandleResponse, HandleChangeConn, history
  <2>2. ASSUME OnTranslateToAsyncLayer PROVE QueueSame /\ InboxSame
    <3> DEFINE t == Head(queueQ).n
               m == AnswerTo(t)
    <3>1. /\ queueQ # <<>> /\ Head(queueQ).type = "ask" /\ UNCHANGED inbox /\ UNCHANGED taken
          /\ queueQ' = Tail(queueQ) \o (IF Answered(t) THEN <<m>> ELSE <<>>)
      BY <2>2 DEF OnTranslateToAsyncLayer, history
    <3>2. t \in Tasks /\ Tail(queueQ) \in Seq(Messages)
      BY <3>1, HeadOfQueue
    <3>3. (Ordered(queueQ) => Ordered(Tail(queueQ))) /\ Pl(Tail(queueQ)) = Pl(queueQ)
      BY <1>0, <3>1, TailOther
    <3> HIDE DEF t
    <3>4. m \in Messages /\ m.type # "plate"
      <4>1. t.dev \in Devices
        BY <3>2 DEF Tasks
      <4> QED
        BY <3>2, <4>1 DEF AnswerTo, Event, Messages, Handed, Answers, Events, EventTypes,
                          IvsResults, Msg
    <3> HIDE DEF m
    <3>5. queueQ' = Append(Tail(queueQ), m) \/ queueQ' = Tail(queueQ)
      BY <3>1, <3>2, <3>4, RangeOf
    <3>6. /\ Ordered(Tail(queueQ)) => Ordered(Append(Tail(queueQ), m))
          /\ Pl(Append(Tail(queueQ), m)) = Pl(Tail(queueQ))
      BY <3>2, <3>4, AppendOther
    <3>7. QueueSame
      BY <3>1, <3>3, <3>5, <3>6 DEF QueueSame
    <3> QED
      BY <2>1, <3>1, <3>7, Sames
  <2>3. ASSUME OnRemoveTaskMessage PROVE QueueSame /\ InboxSame
    <3> DEFINE t == Head(queueQ).n
    <3>1. /\ queueQ # <<>> /\ Head(queueQ).type = "forget" /\ queueQ' = Tail(queueQ)
          /\ inbox' = [inbox EXCEPT ![t.owner] = ClearedOf(inbox[t.owner], t)]
          /\ UNCHANGED taken
      BY <2>3 DEF OnRemoveTaskMessage, QueueGets, history
    <3>2. QueueSame
      BY <1>0, <3>1, TailOther DEF QueueSame
    <3>3. t \in Tasks
      BY <3>1, HeadOfQueue
    <3> HIDE DEF t
    <3>4. t.owner \in Callers
      BY <3>3 DEF Tasks
    <3>5. CASE t.owner = Push
      <4> DEFINE q == inbox[Push]
                 keep == {x \in Range(q) : ~IsFor(x, t)}
      <4>1. inbox'[Push] = Selected(q, keep) /\ q \in Seq(Handed)
        BY <1>0, <3>1, <3>4, <3>5 DEF ClearedOf
      <4>2. \A x \in Range(q) : x.type = "plate" => x \in keep
        BY DEF IsFor
      <4> HIDE DEF q, keep
      <4>3. (Ordered(q) => Ordered(Selected(q, keep))) /\ Pl(Selected(q, keep)) = Pl(q)
        BY <4>1, <4>2, SelectedOther
      <4> QED
        BY <2>1, <3>2, <4>1, <4>3 DEF InboxSame, q
    <3>6. CASE t.owner # Push
      BY <1>0, <2>1, <3>1, <3>2, <3>4, <3>6 DEF InboxSame
    <3> QED
      BY <3>5, <3>6
  <2>4. ASSUME OntranslateToSyncLayer \/ HandleChangeConn \/ HandleResponse
        PROVE  QueueSame /\ InboxSame
    <3>1. /\ queueQ # <<>> /\ queueQ' = Tail(queueQ) /\ UNCHANGED taken
          /\ Head(queueQ).type \in {"answer", "record", "online", "offline", "resume"}
      BY <1>2, <2>4 DEF OntranslateToSyncLayer, HandleChangeConn, HandleResponse, QueueGets,
                        IvsResults, history
    <3>2. QueueSame
      BY <1>0, <3>1, TailOther DEF QueueSame
    <3>3. Head(queueQ) \in Handed /\ (Head(queueQ).type = "answer" => Head(queueQ).n \in Tasks)
      BY <3>1, HeadOfQueue DEF EventTypes, IvsResults
    <3>4. UNCHANGED inbox \/ \E c \in Callers : Deliver(c, Head(queueQ))
      <4>1. CASE OntranslateToSyncLayer
        <5>1. Head(queueQ).n.owner \in Callers
          BY <3>3, <4>1 DEF OntranslateToSyncLayer, QueueGets, Tasks
        <5> QED
          BY <4>1, <5>1 DEF OntranslateToSyncLayer
      <4>2. CASE HandleChangeConn \/ HandleResponse
        BY <1>0, <4>2 DEF HandleChangeConn, HandleResponse
      <4> QED
        BY <2>4, <4>1, <4>2
    <3> QED
      BY <2>1, <3>1, <3>2, <3>3, <3>4, OtherDelivered, Sames
  <2>5. ASSUME ReqRecordTaskHandleResponse PROVE QueueSame /\ InboxSame
    <3> DEFINE m == Head(queueQ)
    <3>1. /\ queueQ # <<>> /\ queueQ' = Tail(queueQ)
          /\ taken' = IF m.type = "plate" THEN taken \cup {m} ELSE taken
          /\ \E t \in RecordTasks(m.dev) : Deliver(t.owner, Msg("answer", m.dev, t))
      BY <2>5 DEF ReqRecordTaskHandleResponse, QueueGets
    <3>2. QueueSame
      BY <1>0, <3>1, TailOther DEF QueueSame
    <3>3. PICK t \in RecordTasks(m.dev) : Deliver(t.owner, Msg("answer", m.dev, t))
      BY <3>1
    <3>4. t \in Tasks /\ t.dev = m.dev
      BY <3>3 DEF RecordTasks, LayerTyped
    <3>5. /\ t.owner \in Callers /\ Msg("answer", m.dev, t) \in Handed
          /\ Msg("answer", m.dev, t).type # "plate"
      BY <3>4 DEF Tasks, Handed, Answers, Msg
    <3>6. InboxSame
      BY <2>1, <3>3, <3>5, OtherDelivered
    <3> QED
      BY <3>2, <3>6
  <2> QED
    BY <2>2, <2>3, <2>4, <2>5 DEF QueueThread
<1>3. ASSUME ~Moving PROVE Ordinary
  <2>1. UNCHANGED <<event, index>> /\ UNCHANGED plates /\ UNCHANGED reported
    BY DEF QueueThread, OnTranslateToAsyncLayer, OnRemoveTaskMessage, OntranslateToSyncLayer,
           ReqRecordTaskHandleResponse, HandleResponse, HandleChangeConn, history, manager,
           devices
  <2> QED
    BY <1>2, <1>3, <2>1, Sames DEF Ordinary
<1> QED
  BY <1>1, <1>3, OrdinaryKeeps

(* The push thread takes a message.                                        *)
LEMMA PushGetLines ==
    ASSUME Typed, Lines, PushGet
    PROVE  Lines'
<1> USE DEF Typed
<1> DEFINE q == inbox[Push]
           m == Head(q)
<1>1. /\ event = None /\ q # <<>>
      /\ event' = IF m.type = "answer" THEN None ELSE m
      /\ inbox' = [inbox EXCEPT ![Push] = Tail(q)]
      /\ UNCHANGED index /\ UNCHANGED <<queueQ, taken>> /\ UNCHANGED plates
      /\ UNCHANGED reported /\ UNCHANGED swallowed
  BY DEF PushGet, devices, history
<1>2. /\ inbox \in [Callers -> Seq(Handed)] /\ Push \in Callers /\ q \in Seq(Handed) /\ m \in Handed
      /\ Range(q) = Range(Tail(q)) \cup {m}
  BY <1>1, RangeOf DEF LayerTyped, Callers
<1>3. inbox'[Push] = Tail(q)
  BY <1>1, <1>2
<1>4. CASE m.type # "plate"
  <2>1. (Ordered(q) => Ordered(Tail(q))) /\ Pl(Tail(q)) = Pl(q)
    BY <1>1, <1>2, <1>4, TailOther
  <2>2. InboxSame
    BY <1>1, <1>3, <2>1 DEF InboxSame
  <2>3. EventSame
    BY <1>1, <1>4 DEF EventSame, NotPlate
  <2> QED
    BY <1>1, <2>2, <2>3, Sames, OrdinaryKeeps DEF Ordinary
<1>5. CASE m.type = "plate"
  <2>1. /\ Ordered(queueQ) /\ Ordered(q) /\ Before(Pl(q), Pl(queueQ))
        /\ Before(Reported, Current \cup Pl(q) \cup Pl(queueQ))
        /\ \A x \in Reported \cup Current \cup Pl(q) \cup Pl(queueQ) : x.n <= plates[x.dev]
        /\ \A d \in Devices : Ordered(reported[d])
    BY DEF Lines, InOrder
  <2>2. /\ m \in Pl(q) /\ Pl(Tail(q)) \subseteq Pl(q) /\ Ordered(Tail(q))
        /\ Before({m}, Range(Tail(q)))
    BY <1>1, <1>2, <1>5, <2>1, TailOther, OrderedTail
  <2>3. event' = m /\ index' = 0 /\ m # None /\ ~NotPlate(event)'
    <3>1. m \in Events
      BY <1>2, <1>5 DEF Handed, Answers
    <3>2. m # None
      BY <3>1, PushAssumption DEF Events
    <3> QED
      BY <1>1, <1>5, <3>2 DEF Turn, NotPlate
  <2>4. Current' = {m}
    BY <2>3 DEF Current, Broken
  <2>5. Reported' = Reported
    BY <1>1 DEF Reported
  <2> HIDE DEF q, m
  <2>6. Pl(queueQ)' = Pl(queueQ) /\ Pl(inbox[Push])' = Pl(Tail(q))
    BY <1>1, <1>3 DEF Pl
  <2>7. Ordered(queueQ)' /\ Ordered(inbox[Push])' /\ \A d \in Devices : Ordered(reported[d])'
    BY <1>1, <1>3, <2>1, <2>2 DEF Ordered
  <2>8. Before(Pl(Tail(q)), Pl(queueQ))
    BY <2>1, <2>2 DEF Before
  <2>9. Before({m}, Pl(Tail(q)) \cup Pl(queueQ))
    BY <2>1, <2>2 DEF Before, Pl
  <2>10. Before(Reported, {m} \cup Pl(Tail(q)) \cup Pl(queueQ))
    BY <2>1, <2>2 DEF Before
  <2>11. \A x \in Reported \cup {m} \cup Pl(Tail(q)) \cup Pl(queueQ) : x.n <= plates[x.dev]
    BY <2>1, <2>2
  <2>12. InOrder'
    BY <1>1, <2>4, <2>5, <2>6, <2>7, <2>8, <2>9, <2>10, <2>11 DEF InOrder, Before
  <2>13. EventKept'
    BY <2>3 DEF EventKept
  <2>14. PlatesKept'
    <3>1. \A d \in Devices : \A n \in 1 .. plates[d] : Msg("plate", d, n) # None
      <4> SUFFICES ASSUME NEW d \in Devices, NEW n \in 1 .. plates[d]
                   PROVE  Msg("plate", d, n) # None
        OBVIOUS
      <4>1. n \in Nat
        BY DEF DevicesTyped
      <4>2. Msg("plate", d, n) \in [type : EventTypes, dev : Devices, n : Nat]
        BY <4>1 DEF Msg, EventTypes, IvsResults
      <4> QED
        BY <4>2, PushAssumption
    <3>2. Range(inbox[Push]) = Range(inbox'[Push]) \cup {m}
      BY <1>2, <1>3 DEF q
    <3>3. event' = m
      BY <2>3
    <3> QED
      BY <1>1, <3>1, <3>2, <3>3 DEF PlatesKept, Lines
  <2> QED
    BY <2>12, <2>13, <2>14 DEF Lines
<1> QED
  BY <1>4, <1>5

(* A plate result is reported.                                             *)
LEMMA PushPlateLines ==
    ASSUME Typed, Lines, PushPlate, event.type = "plate"
    PROVE  Lines'
<1> USE DEF Typed
<1>1. /\ event # None /\ event.type = "plate" /\ index' = Broken /\ Matching # {}
      /\ reported' = [reported EXCEPT ![event.dev] = Append(reported[event.dev], event)]
      /\ UNCHANGED event /\ UNCHANGED <<queueQ, inbox>> /\ UNCHANGED plates
      /\ UNCHANGED <<swallowed, taken>>
  BY DEF PushPlate, InEvent, AfterIvs, layer, devices
<1>2. event \in Events /\ event.dev \in Devices /\ index # Broken /\ ~NotPlate(event)
  BY <1>1, EventIs, NextIs DEF NotPlate
<1>3. Current = {event} /\ Current' = {}
  BY <1>1, <1>2 DEF Current, NotPlate
<1>4. /\ reported \in [Devices -> Seq(Events)]
      /\ \A d \in Devices : reported'[d] = IF d = event.dev THEN Append(reported[d], event)
                                           ELSE reported[d]
  BY <1>1, <1>2 DEF HistoryTyped
<1>5. \A d \in Devices : Range(reported'[d]) = IF d = event.dev THEN Range(reported[d]) \cup {event}
                                               ELSE Range(reported[d])
  <2>1. \A d \in Devices : Range(Append(reported[d], event)) = Range(reported[d]) \cup {event}
    BY <1>2, <1>4, RangeOf
  <2> QED
    BY <1>4, <2>1
<1>6. Reported' = Reported \cup {event}
  <2>1. \A d \in Devices : Pl(reported[d])' = IF d = event.dev THEN Pl(reported[d]) \cup {event}
                                              ELSE Pl(reported[d])
    <3> SUFFICES ASSUME NEW d \in Devices
                 PROVE  Pl(reported[d])' = IF d = event.dev THEN Pl(reported[d]) \cup {event}
                                           ELSE Pl(reported[d])
      OBVIOUS
    <3>1. Pl(reported[d])' = {x \in Range(reported'[d]) : x.type = "plate"}
      BY DEF Pl
    <3>2. Range(reported'[d]) = IF d = event.dev THEN Range(reported[d]) \cup {event}
                                ELSE Range(reported[d])
      BY <1>5
    <3>3. CASE d = event.dev
      BY <1>1, <3>1, <3>2, <3>3 DEF Pl
    <3>4. CASE d # event.dev
      BY <3>1, <3>2, <3>4 DEF Pl
    <3> QED
      BY <3>3, <3>4
  <2> QED
    BY <1>2, <2>1 DEF Reported
<1>7. /\ Ordered(queueQ) /\ Ordered(inbox[Push]) /\ Before(Pl(inbox[Push]), Pl(queueQ))
      /\ Before({event}, Pl(inbox[Push]) \cup Pl(queueQ))
      /\ Before(Reported, {event} \cup Pl(inbox[Push]) \cup Pl(queueQ))
      /\ \A x \in Reported \cup {event} \cup Pl(inbox[Push]) \cup Pl(queueQ) : x.n <= plates[x.dev]
      /\ \A d \in Devices : Ordered(reported[d])
  BY <1>3 DEF Lines, InOrder
<1>8. \A d \in Devices : Ordered(reported'[d])
  <2> SUFFICES ASSUME NEW d \in Devices PROVE Ordered(reported'[d])
    OBVIOUS
  <2>1. CASE d = event.dev
    <3>1. Before(Range(reported[d]), {event})
      BY <1>7 DEF Before, Reported, Pl, Lt
    <3>2. Ordered(Append(reported[d], event))
      BY <1>2, <1>4, <1>7, <3>1, OrderedAppend
    <3> QED
      BY <1>4, <2>1, <3>2
  <2>2. CASE d # event.dev
    BY <1>4, <1>7, <2>2
  <2> QED
    BY <2>1, <2>2
<1>9. InOrder'
  <2>1. Pl(queueQ)' = Pl(queueQ) /\ Pl(inbox[Push])' = Pl(inbox[Push])
    BY <1>1 DEF Pl
  <2>2. Ordered(queueQ)' /\ Ordered(inbox[Push])' /\ \A d \in Devices : Ordered(reported[d])'
    BY <1>1, <1>7, <1>8 DEF Ordered
  <2>3. Before(Reported \cup {event}, {} \cup Pl(inbox[Push]) \cup Pl(queueQ))
    BY <1>7 DEF Before
  <2>4. Before({}, Pl(inbox[Push]) \cup Pl(queueQ))
    BY DEF Before
  <2>5. \A x \in (Reported \cup {event}) \cup {} \cup Pl(inbox[Push]) \cup Pl(queueQ) :
           x.n <= plates[x.dev]
    BY <1>7
  <2> QED
    BY <1>1, <1>3, <1>6, <1>7, <2>1, <2>2, <2>3, <2>4, <2>5 DEF InOrder, Before
<1>10. EventKept'
  <2>1. event \in Range(reported'[event.dev])
    BY <1>2, <1>5
  <2> QED
    BY <1>1, <2>1 DEF EventKept
<1>11. PlatesKept'
  <2> SUFFICES ASSUME NEW d \in Devices, NEW n \in 1 .. plates[d], NEW p, p = Msg("plate", d, n)
               PROVE  \/ p \in Range(queueQ) \cup Range(inbox[Push]) \cup Range(reported'[d])
                      \/ event = p
                      \/ p \in swallowed \cup taken
    BY <1>1 DEF PlatesKept
  <2>1. \/ p \in Range(queueQ) \cup Range(inbox[Push]) \cup Range(reported[d])
        \/ event = p
        \/ p \in swallowed \cup taken
    BY DEF PlatesKept, Lines
  <2>2. Range(reported[d]) \subseteq Range(reported'[d])
    BY <1>5
  <2> QED
    BY <2>1, <2>2
<1> QED
  BY <1>9, <1>10, <1>11 DEF Lines

(* A late record is reported: among the plate results nothing changes.     *)
LEMMA PushRecordLines ==
    ASSUME Typed, Lines, PushPlate, event.type # "plate"
    PROVE  Lines'
<1> USE DEF Typed
<1>1. /\ event # None /\ UNCHANGED event /\ UNCHANGED <<queueQ, taken>> /\ UNCHANGED plates
      /\ UNCHANGED <<inbox, swallowed>>
      /\ reported' = [reported EXCEPT ![event.dev] = Append(reported[event.dev], event)]
  BY DEF PushPlate, InEvent, layer, devices
<1>2. event \in Events /\ event.dev \in Devices /\ reported \in [Devices -> Seq(Events)]
  BY <1>1, EventIs DEF HistoryTyped
<1>3. ReportedSame
  <2> SUFFICES ASSUME NEW d \in Devices
               PROVE  /\ Ordered(reported[d]) => Ordered(reported'[d])
                      /\ Pl(reported'[d]) = Pl(reported[d])
    BY DEF ReportedSame
  <2>1. reported'[d] = reported[d] \/ reported'[d] = Append(reported[d], event)
    BY <1>1, <1>2
  <2>2. /\ Ordered(reported[d]) => Ordered(Append(reported[d], event))
        /\ Pl(Append(reported[d], event)) = Pl(reported[d])
    BY <1>2, AppendOther
  <2> QED
    BY <2>1, <2>2
<1>4. EventSame
  BY <1>1 DEF EventSame, NotPlate
<1> QED
  BY <1>1, <1>3, <1>4, Sames, OrdinaryKeeps DEF Ordinary

(* Every step of the push thread keeps the lines.                          *)
LEMMA PushThreadLines ==
    ASSUME Typed, Lines, PushThread
    PROVE  Lines'
<1> USE DEF Typed
<1>1. CASE PushGet
  BY <1>1, PushGetLines
<1>2. CASE PushPlate
  BY <1>2, PushPlateLines, PushRecordLines
<1>3. CASE PushConn
  <2>1. /\ event # None /\ event.type # "plate" /\ UNCHANGED event /\ UNCHANGED plates
        /\ UNCHANGED <<inbox, swallowed>> /\ UNCHANGED reported /\ UNCHANGED taken
        /\ \/ UNCHANGED queueQ
           \/ queueQ' = Append(queueQ, Msg("ask", event.dev, Task(Push, event.dev, "subscribe")))
    BY <1>3 DEF PushConn, InEvent, Resubscribe, devices, history
  <2>2. event.dev \in Devices /\ Push \in Callers
    BY <2>1, EventIs DEF Callers
  <2>3. /\ Msg("ask", event.dev, Task(Push, event.dev, "subscribe")) \in Messages
        /\ Msg("ask", event.dev, Task(Push, event.dev, "subscribe")).type # "plate"
    BY <2>2, NewTask DEF Kinds, Msg
  <2>4. QueueSame /\ InboxSame
    BY <2>1, <2>3, Sames
  <2>5. EventSame
    BY <2>1 DEF EventSame, NotPlate
  <2> QED
    BY <2>1, <2>4, <2>5, Sames, OrdinaryKeeps DEF Ordinary
<1>4. CASE PushResume
  <2>1. /\ event # None /\ event.type # "plate" /\ UNCHANGED event /\ UNCHANGED plates
        /\ UNCHANGED <<inbox, swallowed>> /\ UNCHANGED reported /\ UNCHANGED <<queueQ, taken>>
    BY <1>4 DEF PushResume, InEvent, layer, history
  <2>2. EventSame
    BY <2>1 DEF EventSame, NotPlate
  <2> QED
    BY <2>1, <2>2, Sames, OrdinaryKeeps DEF Ordinary
<1>5. CASE PushEnd
  <2>1. /\ event # None /\ Matching = {} /\ event' = None /\ UNCHANGED plates
        /\ UNCHANGED <<inbox, swallowed>> /\ UNCHANGED reported /\ UNCHANGED <<queueQ, taken>>
    BY <1>5 DEF PushEnd, layer, devices, history
  <2>2. CASE NotPlate(event)
    <3>1. EventSame
      BY <2>1, <2>2 DEF EventSame, NotPlate
    <3> QED
      BY <2>1, <3>1, Sames, OrdinaryKeeps DEF Ordinary
  <2>3. CASE ~NotPlate(event)
    <3>1. event \in Events /\ event.dev \in Devices /\ event.type = "plate"
      BY <2>1, <2>3, EventIs DEF NotPlate
    <3>2. index = Broken /\ event \in Range(reported[event.dev])
      <4> SUFFICES ASSUME index = 0 PROVE FALSE
        BY <2>3 DEF Lines, EventKept
      <4>1. <<"ivs", event.dev>> \in Range(push_handles_)
        BY <3>1 DEF ManagerTyped
      <4>2. PICK i \in DOMAIN push_handles_ : push_handles_[i] = <<"ivs", event.dev>>
        BY <4>1 DEF Range
      <4>3. i \in index + 1 .. Len(push_handles_)
        BY DEF ManagerTyped
      <4>4. Handles(push_handles_[i])
        BY <3>1, <4>2 DEF Handles, IvsResults
      <4>5. i \in Matching
        BY <4>3, <4>4 DEF Matching, Broken
      <4> QED
        BY <2>1, <4>5
    <3>3. Current = {} /\ Current' = {} /\ Reported' = Reported
      BY <2>1, <3>2 DEF Current, NotPlate, Reported
    <3>4. InOrder'
      BY <2>1, <3>3 DEF Lines, InOrder, Before, Ordered, Pl
    <3>5. EventKept'
      BY <2>1 DEF EventKept, NotPlate
    <3>6. PlatesKept'
      <4> SUFFICES ASSUME NEW d \in Devices, NEW n \in 1 .. plates[d], event = Msg("plate", d, n)
                   PROVE  event \in Range(reported[d])
        BY <2>1 DEF PlatesKept, Lines
      <4> QED
        BY <3>2 DEF Msg
    <3> QED
      BY <3>4, <3>5, <3>6 DEF Lines
  <2> QED
    BY <2>2, <2>3
<1> QED
  BY <1>1, <1>2, <1>3, <1>4, <1>5 DEF PushThread

(* A device sends a plate result: its number is the largest so far.        *)
LEMMA SendPlateLines ==
    ASSUME Typed, Lines, NEW d \in Devices, SendPlate(d)
    PROVE  Lines'
<1> USE DEF Typed
<1> DEFINE m == Msg("plate", d, plates[d] + 1)
<1>1. /\ queueQ' = Append(queueQ, m) /\ plates' = [plates EXCEPT ![d] = plates[d] + 1]
      /\ UNCHANGED <<event, index>> /\ UNCHANGED inbox
      /\ UNCHANGED <<reported, swallowed, taken>>
  BY DEF SendPlate, Tell, manager, history
<1>2. /\ plates \in [Devices -> Nat] /\ plates[d] \in Nat
      /\ \A o \in Devices : plates'[o] = IF o = d THEN plates[d] + 1 ELSE plates[o]
  BY <1>1 DEF DevicesTyped
<1>3. m.type = "plate" /\ m.dev = d /\ m.n = plates[d] + 1 /\ m \in Messages /\ m \in Events
  BY <1>2 DEF Msg, Messages, Handed, Events, EventTypes, IvsResults
<1> HIDE DEF m
<1>4. /\ Ordered(queueQ) /\ Ordered(inbox[Push]) /\ Before(Pl(inbox[Push]), Pl(queueQ))
      /\ Before(Current, Pl(inbox[Push]) \cup Pl(queueQ))
      /\ Before(Reported, Current \cup Pl(inbox[Push]) \cup Pl(queueQ))
      /\ \A x \in Reported \cup Current \cup Pl(inbox[Push]) \cup Pl(queueQ) : x.n <= plates[x.dev]
      /\ \A o \in Devices : Ordered(reported[o])
  BY DEF Lines, InOrder
<1> DEFINE All == Reported \cup Current \cup Pl(inbox[Push]) \cup Pl(queueQ)
<1>5. \A x \in All : x \in Events /\ x.type = "plate"
  <2>1. \A x \in Reported : x \in Events /\ x.type = "plate"
    <3> SUFFICES ASSUME NEW o \in Devices, NEW x \in Pl(reported[o])
                 PROVE  x \in Events /\ x.type = "plate"
      BY DEF Reported
    <3> QED
      BY RangeOf DEF HistoryTyped, Pl
  <2>2. \A x \in Current : x \in Events /\ x.type = "plate"
    BY EventIs DEF Current, NotPlate
  <2>3. \A x \in Messages : x.type = "plate" => x \in Events
    BY DEF Messages, Handed, Answers, Orders
  <2>4. \A x \in Pl(inbox[Push]) \cup Pl(queueQ) : x \in Messages /\ x.type = "plate"
    <3>1. Range(queueQ) \subseteq Messages
      BY RangeOf DEF LayerTyped
    <3>2. Range(inbox[Push]) \subseteq Handed
      <4>1. inbox[Push] \in Seq(Handed)
        BY DEF LayerTyped, Callers
      <4> QED
        BY <4>1, RangeOf
    <3> QED
      BY <3>1, <3>2 DEF Pl, Messages
  <2> QED
    BY <2>1, <2>2, <2>3, <2>4
<1>6. \A x \in All : x.n \in Nat /\ x.dev \in Devices /\ x.n <= plates[x.dev]
  BY <1>4, <1>5 DEF Events
<1>7. \A x \in All : Lt(x, m)
  <2> SUFFICES ASSUME NEW x \in All, x.dev = d PROVE x.n < m.n
    BY <1>3 DEF Lt
  <2>1. x.n \in Nat /\ x.n <= plates[d]
    BY <1>6
  <2> HIDE DEF All
  <2> QED
    BY <1>2, <1>3, <2>1
<1>8. Ordered(Append(queueQ, m)) /\ Pl(Append(queueQ, m)) = Pl(queueQ) \cup {m}
      /\ Range(Append(queueQ, m)) = Range(queueQ) \cup {m}
  <2>1. queueQ \in Seq(Messages)
    BY DEF LayerTyped
  <2>2. Range(Append(queueQ, m)) = Range(queueQ) \cup {m}
    BY <1>3, <2>1, RangeOf
  <2>3. Before(Range(queueQ), {m})
    BY <1>7 DEF Before, Pl, Lt
  <2>4. Ordered(Append(queueQ, m))
    BY <1>3, <1>4, <2>1, <2>3, OrderedAppend
  <2> QED
    BY <1>3, <2>2, <2>4 DEF Pl
<1>9. Current' = Current /\ Reported' = Reported
  BY <1>1 DEF Current, Reported, NotPlate
<1>10. InOrder'
  <2>1. Pl(queueQ)' = Pl(queueQ) \cup {m} /\ Pl(inbox[Push])' = Pl(inbox[Push])
    BY <1>1, <1>8 DEF Pl
  <2>2. Ordered(queueQ)' /\ Ordered(inbox[Push])' /\ \A o \in Devices : Ordered(reported[o])'
    BY <1>1, <1>4, <1>8 DEF Ordered
  <2>3. Before(Pl(inbox[Push]), Pl(queueQ) \cup {m})
    BY <1>4, <1>7 DEF Before
  <2>4. Before(Current, Pl(inbox[Push]) \cup (Pl(queueQ) \cup {m}))
    BY <1>4, <1>7 DEF Before
  <2>5. Before(Reported, Current \cup Pl(inbox[Push]) \cup (Pl(queueQ) \cup {m}))
    BY <1>4, <1>7 DEF Before
  <2>6. \A x \in Reported \cup Current \cup Pl(inbox[Push]) \cup (Pl(queueQ) \cup {m}) :
           x.n <= plates'[x.dev]
    <3>1. ASSUME NEW x \in All PROVE x.n <= plates'[x.dev]
      <4>1. x.n \in Nat /\ x.dev \in Devices /\ x.n <= plates[x.dev] /\ plates[x.dev] \in Nat
        BY <1>2, <1>6
      <4> HIDE DEF All
      <4>2. plates'[x.dev] = plates[x.dev] \/ plates'[x.dev] = plates[x.dev] + 1
        BY <1>2, <4>1
      <4> QED
        BY <4>1, <4>2
    <3>2. m.n <= plates'[m.dev]
      BY <1>2, <1>3
    <3> QED
      BY <3>1, <3>2
  <2> QED
    BY <1>9, <2>1, <2>2, <2>3, <2>4, <2>5, <2>6 DEF InOrder, Before
<1>11. EventKept'
  BY <1>1 DEF EventKept, NotPlate, Lines
<1>12. PlatesKept'
  <2> SUFFICES ASSUME NEW o \in Devices, NEW n \in 1 .. plates'[o]
               PROVE  LET p == Msg("plate", o, n) IN
                      \/ p \in Range(queueQ') \cup Range(inbox'[Push]) \cup Range(reported'[o])
                      \/ event' = p
                      \/ p \in swallowed' \cup taken'
    BY DEF PlatesKept
  <2>1. CASE n \in 1 .. plates[o]
    BY <1>1, <1>8, <2>1 DEF PlatesKept, Lines
  <2>2. CASE n \notin 1 .. plates[o]
    <3>1. o = d /\ n = plates[d] + 1
      BY <1>2, <2>2
    <3>2. Msg("plate", o, n) = m
      BY <3>1 DEF m
    <3> QED
      BY <1>1, <1>8, <3>2
  <2> QED
    BY <2>1, <2>2
<1> QED
  BY <1>10, <1>11, <1>12 DEF Lines

(* The network keeps the lines.                                            *)
LEMMA NetworkLines ==
    ASSUME Typed, Lines, Network
    PROVE  Lines'
<1> USE DEF Typed
<1>1. PICK d \in Devices : SendPlate(d) \/ LoseConnection(d) \/ Reconnect(d) \/ ResumeTimer(d)
  BY DEF Network
<1>2. CASE SendPlate(d)
  BY <1>2, SendPlateLines
<1>3. CASE LoseConnection(d) \/ Reconnect(d) \/ ResumeTimer(d)
  <2>1. PICK e \in {"online", "offline", "resume"} : Tell(Event(e, d)) /\ UNCHANGED plates
    BY <1>3 DEF LoseConnection, Reconnect, ResumeTimer
  <2>2. Event(e, d) \in Messages /\ Event(e, d).type # "plate"
    BY DEF Messages, Handed, Events, EventTypes, IvsResults, Event, Msg
  <2>3. /\ queueQ' = Append(queueQ, Event(e, d)) /\ UNCHANGED <<event, index>>
        /\ UNCHANGED <<inbox, swallowed>> /\ UNCHANGED reported /\ UNCHANGED taken
    BY <2>1 DEF Tell, manager, history
  <2> QED
    BY <2>1, <2>2, <2>3, Sames, OrdinaryKeeps DEF Ordinary
<1> QED
  BY <1>1, <1>2, <1>3

(* There are no results at the beginning.                                  *)
LEMMA InitLines == Init => Lines
<1> SUFFICES ASSUME Init PROVE Lines
  OBVIOUS
<1>1. /\ queueQ = <<>> /\ inbox[Push] = <<>> /\ event = None /\ \A d \in Devices : reported[d] = <<>>
      /\ \A d \in Devices : plates[d] = 0
  BY DEF Init, Callers
<1>2. Range(<<>>) = {} /\ Ordered(<<>>) /\ Pl(<<>>) = {}
  BY DEF Range, Ordered, Pl
<1>3. Current = {} /\ Reported = {}
  BY <1>1, <1>2 DEF Current, NotPlate, Reported
<1>4. InOrder
  BY <1>1, <1>2, <1>3 DEF InOrder, Before
<1>5. EventKept /\ PlatesKept
  BY <1>1 DEF EventKept, NotPlate, PlatesKept
<1> QED
  BY <1>4, <1>5 DEF Lines

(* Every step keeps the lines.                                             *)
LEMMA NextLines == Typed /\ Lines /\ [Next]_vars => Lines'
<1> SUFFICES ASSUME Typed, Lines, [Next]_vars PROVE Lines'
  OBVIOUS
<1>1. CASE \E d \in Devices, op \in Ops : UserCall(d, op)
  <2>1. /\ UNCHANGED <<event, index>> /\ UNCHANGED <<queueQ, taken>> /\ UNCHANGED <<inbox, swallowed>>
        /\ UNCHANGED reported /\ UNCHANGED plates
    BY <1>1 DEF UserCall, manager, layer, devices, history
  <2> QED
    BY <2>1, Sames, OrdinaryKeeps DEF Ordinary, Typed
<1>2. CASE \E c \in Callers : CallStep(c)
  BY <1>2, CallStepLines
<1>3. CASE QueueThread
  BY <1>3, QueueThreadLines
<1>4. CASE PushThread
  BY <1>4, PushThreadLines
<1>5. CASE Network
  BY <1>5, NetworkLines
<1>6. CASE UNCHANGED vars
  <2>1. /\ UNCHANGED <<event, index>> /\ UNCHANGED <<queueQ, taken>> /\ UNCHANGED <<inbox, swallowed>>
        /\ UNCHANGED reported /\ UNCHANGED plates
    BY <1>6 DEF vars, manager, layer, devices, history
  <2> QED
    BY <2>1, Sames, OrdinaryKeeps DEF Ordinary, Typed
<1> QED
  BY <1>1, <1>2, <1>3, <1>4, <1>5, <1>6 DEF Next

(* Both parts are invariants.                                              *)
LEMMA LinesHold == Spec => [](Typed /\ Lines)
<1>1. Init => Typed /\ Lines
  BY InitTyped, InitLines
<1>2. (Typed /\ Lines) /\ [Next]_vars => (Typed /\ Lines)'
  BY NextTyped, NextLines
<1> QED
  BY <1>1, <1>2, PTL DEF Spec

(* No result is lost on its way but to a request made on the push thread   *)
(* itself or to a get_record under way on any thread: PlatesKept.          *)
THEOREM PlatesKeptHolds == Spec => []PlatesKept
<1>1. Lines => PlatesKept
  BY DEF Lines
<1> QED
  BY <1>1, LinesHold, PTL

(* A plate callback gets the results in the order they were sent and each  *)
(* of them once, however often its handle was added and whatever late      *)
(* records come between them: ReportedOnce.                                *)
THEOREM ReportedOnceHolds == Spec => []ReportedOnce
<1>1. Typed /\ Lines => ReportedOnce
  <2> SUFFICES ASSUME Typed, Lines, NEW d \in Devices,
                      NEW i \in DOMAIN reported[d], NEW j \in DOMAIN reported[d], i < j,
                      reported[d][i].type = "plate", reported[d][j].type = "plate"
               PROVE  reported[d][i].n < reported[d][j].n
    BY DEF ReportedOnce
  <2>1. reported[d] \in Seq(ResultsOf(d)) /\ Ordered(reported[d])
    BY DEF Typed, HistoryTyped, Lines, InOrder
  <2>2. reported[d][i] \in ResultsOf(d) /\ reported[d][j] \in ResultsOf(d)
    BY <2>1, LenProperties, ElementOfSeq
  <2>3. Lt(reported[d][i], reported[d][j])
    BY <2>1 DEF Ordered
  <2> QED
    BY <2>2, <2>3 DEF Lt, ResultsOf
<1> QED
  BY <1>1, LinesHold, PTL
=============================================================================
