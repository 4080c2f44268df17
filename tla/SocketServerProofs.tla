------------------------- MODULE SocketServerProofs -------------------------
(***************************************************************************)
(* The safety properties of module SocketServer, for any number of sockets *)
(* and any outcomes of connect().  The inductive invariant says whose the  *)
(* bits in the sets of select() are.  While no socket was torn down by the *)
(* queue thread while it was waited for (raced), a bit belongs to an open, *)
(* started socket that asked for it, so that a descriptor that is closed   *)
(* and handed out again has no bit left (Safe).  That a closed socket is   *)
(* quiet needs less and holds in any case (Quiet).                         *)
(***************************************************************************)
EXTENDS SocketServer, SelectionProofs, FiniteSetTheorems, FunctionTheorems

Points == {"out", "fill", "select", "blocked", "ready", "dispatch", "event", "failed"}
States == {"CS_CLOSED", "CS_CONNECTING", "CS_CONNECTED"}
Nets == {"none", "dialing", "refused", "up", "eof", "reset"}
Bits == fdsRead \cup fdsWrite

(* The types, but for the list of dispatchers.                             *)
Types ==
    /\ fd \in [Sockets -> {NoFd} \cup Fds] /\ life \in [Sockets -> Life]
    /\ state_ \in [Sockets -> States]
    /\ enabled_events_ \in [Sockets -> SUBSET Event]
    /\ beating \in [Sockets -> BOOLEAN] /\ data \in [Sockets -> BOOLEAN]
    /\ net \in [Sockets -> Nets]
    /\ fSignaled_ \in BOOLEAN /\ fWait_ \in BOOLEAN /\ finite \in BOOLEAN
    /\ reconnecting \in BOOLEAN /\ raced \in BOOLEAN
    /\ pc \in Points
    /\ fdsRead \subseteq {SignalFd} \cup Fds /\ fdsWrite \subseteq {SignalFd} \cup Fds
    /\ polled \subseteq Sockets
    /\ current \in Sockets \cup {Signaler} /\ ff \subseteq Event

(* The list of the server: the signaler first, then each socket that was   *)
(* added and not removed, once.                                            *)
Listed == {s \in Sockets : life[s] \in InServer}
ListOf(l, S) ==
    /\ l \in Seq(Sockets \cup {Signaler}) /\ l # <<>> /\ l[1] = Signaler
    /\ \A i, j \in DOMAIN l : l[i] = l[j] => i = j
    /\ \A s \in Sockets : s \in S <=> \E i \in DOMAIN l : l[i] = s
List == ListOf(dispatchers_, Listed)

(* Every open socket has a descriptor of its own.                          *)
Closed == {"fresh", "closed"}
Descriptors ==
    /\ \A s \in Sockets : life[s] \in Closed <=> fd[s] = NoFd
    /\ \A s, t \in Sockets : fd[s] = fd[t] => s = t \/ fd[s] = NoFd

(* The sets are empty outside Wait; a blocked select() looks at open files.*)
Sets ==
    /\ pc = "out" => Bits = {}
    /\ pc = "blocked" => \A s \in polled : fd[s] # NoFd

(* A socket that signalled its close event, or for which OnEvent runs, is  *)
(* asked for nothing and has no bit left in the sets.                      *)
Quiet(s) ==
    /\ life[s] = "closing" => enabled_events_[s] = {} /\ fd[s] \notin Bits
    /\ Handling(s) => life[s] \in InServer \ {"closing"} /\ fd[s] \notin Bits

Bound == {"live", "unbound"}
Connected == {"up", "eof", "reset"}

(* A bit in the sets belongs to a started socket that is not closed; it    *)
(* is among the polled ones during select() and writable when it says so.  *)
Marks(s) ==
    /\ fd[s] \in Bits => life[s] \in Bound /\ state_[s] # "CS_CLOSED"
    /\ pc = "blocked" /\ fd[s] \in Bits => s \in polled
    /\ pc \in {"ready", "dispatch", "event"} /\ fd[s] \in fdsWrite => Writable(s)

(* A socket that is connecting waits for that, and is never ready for      *)
(* reading only.                                                           *)
Dialing(s) ==
    state_[s] = "CS_CONNECTING" =>
        /\ "CONNECT" \in enabled_events_[s] /\ net[s] # "none" /\ ~Handling(s)
        /\ fd[s] \in fdsRead => fd[s] \in fdsWrite

(* Only sockets that are started and not closed ask for events.            *)
Asking(s) ==
    enabled_events_[s] # {} =>
        life[s] \in Bound /\ (state_[s] # "CS_CLOSED" \/ Handling(s))

(* There is data on connections only, and no connection before connect().  *)
Flow(s) ==
    /\ data[s] => net[s] \in Connected
    /\ life[s] \in {"fresh", "made", "added"} => net[s] = "none"

(* What OnEvent is called with.                                            *)
Told(s) ==
    Handling(s) =>
        /\ life[s] \in Bound
        /\ "CONNECT" \in ff => net[s] \in Connected
        /\ "READ" \in ff => state_[s] = "CS_CONNECTED"
        /\ "CLOSE" \in ff <=> state_[s] = "CS_CLOSED"
        /\ "CLOSE" \in ff => net[s] \in {"none", "eof", "reset"}

Honest(s) == Marks(s) /\ Dialing(s) /\ Asking(s) /\ Flow(s) /\ Told(s)
Owned == \A n \in Bits : n = SignalFd \/ \E s \in Sockets : fd[s] = n

Safe == (\A s \in Sockets : Honest(s)) /\ Owned /\ pc # "failed"
IInv == /\ Types /\ List /\ Descriptors /\ Sets
        /\ \A s \in Sockets : Quiet(s)
        /\ raced \/ Safe
-----------------------------------------------------------------------------
(* The numbers of descriptors and dispatchers do not clash.                *)
LEMMA Numbers ==
    /\ MaxSockets \in Nat /\ Sockets \subseteq Nat /\ Fds \subseteq Nat
    /\ Signaler \notin Sockets /\ SignalFd \notin Fds
    /\ NoFd \notin {SignalFd} \cup Fds
  BY SocketsAssumption DEF Sockets, Fds, Signaler, SignalFd, NoFd

(* socket() finds a descriptor that no open socket has, for as long as     *)
(* there is a socket that is not open.                                     *)
LEMMA FreeFds ==
    ASSUME Types, Descriptors, NEW s \in Sockets, life[s] \in Closed
    PROVE  FreeFd \in Fds /\ \A t \in Sockets : fd[t] # FreeFd
<1> DEFINE Used == {fd[t] : t \in Open}
           Out == {n \in Fds : n \notin Used}
<1>1. s \notin Open /\ Open \subseteq Sockets
  BY DEF Open, Closed
<1>2. IsFiniteSet(Sockets) /\ Cardinality(Sockets) = MaxSockets
  <2>1. PICK a, b \in Int : a = 1 /\ b = MaxSockets
    BY Numbers
  <2>2. IsFiniteSet(a .. b) /\ Cardinality(a .. b) = IF a > b THEN 0 ELSE b - a + 1
    BY FS_Interval
  <2>3. Cardinality(a .. b) = b
    BY <2>1, <2>2, Numbers
  <2> QED
    BY <2>1, <2>2, <2>3, Zenon DEF Sockets
<1>3. IsFiniteSet(Open) /\ Cardinality(Open) < MaxSockets
  <2>1. IsFiniteSet(Open) /\ Cardinality(Open) <= Cardinality(Sockets)
    BY <1>1, <1>2, FS_Subset
  <2>2. Cardinality(Open) # Cardinality(Sockets)
    BY <1>1, <1>2, FS_Subset
  <2>3. Cardinality(Open) \in Nat
    BY <2>1, FS_CardinalityType
  <2> QED
    BY <1>2, <2>1, <2>2, <2>3, Numbers
<1>4. IsFiniteSet(Used) /\ Cardinality(Used) <= Cardinality(Open)
  <2> DEFINE f == [t \in Open |-> fd[t]]
  <2>1. f \in Surjection(Open, Used)
    <3>1. f \in [Open -> Used] /\ \A u \in Used : \E t \in Open : f[t] = u
      OBVIOUS
    <3> HIDE DEF f, Used
    <3> QED
      BY <3>1, Fun_IsSurj
  <2> HIDE DEF f, Used
  <2> QED
    BY <1>3, <2>1, FS_Surjection
<1>5. Out # {}
  <2>1. SUFFICES ASSUME Fds \subseteq Used PROVE FALSE
    OBVIOUS
  <2> HIDE DEF Used
  <2>2. Cardinality(Fds) <= Cardinality(Used)
    BY <1>4, <2>1, FS_Subset
  <2>3. Fds = Sockets
    BY DEF Fds, Sockets
  <2>4. Cardinality(Used) \in Nat /\ Cardinality(Open) \in Nat
    BY <1>3, <1>4, FS_CardinalityType
  <2> QED
    BY <1>2, <1>3, <1>4, <2>2, <2>3, <2>4, Numbers
<1>6. PICK n \in Out : \A m \in Out : n <= m
  <2>1. Out \subseteq Nat
    BY Numbers
  <2> HIDE DEF Out
  <2> QED
    BY <1>5, <2>1, Smallest
<1>7. \A m \in 1 .. n - 1 : m \in Used
  <2> SUFFICES ASSUME NEW m \in 1 .. n - 1, m \notin Used PROVE FALSE
    OBVIOUS
  <2> HIDE DEF Used
  <2>1. n \in Nat /\ n <= MaxSockets
    BY Numbers DEF Fds
  <2>2. m \in Out /\ m < n
    BY <2>1, Numbers DEF Fds
  <2> QED
    BY <1>6, <2>1, <2>2
<1> DEFINE P(k) == /\ \A t \in Open : fd[t] # k
                   /\ \A m \in 1 .. k - 1 : \E t \in Open : fd[t] = m
<1>8. n \in Fds /\ P(n)
  BY <1>7
<1>9. FreeFd \in Fds /\ P(FreeFd)
  <2>1. FreeFd = CHOOSE k \in Fds : P(k)
    BY DEF FreeFd
  <2> HIDE DEF P
  <2> QED
    BY <1>8, <2>1
<1>10. \A t \in Sockets : fd[t] # FreeFd
  <2> TAKE t \in Sockets
  <2>1. CASE t \in Open
    BY <1>9, <2>1
  <2>2. CASE t \notin Open
    <3>1. fd[t] = NoFd
      BY <2>2 DEF Open, Descriptors, Closed
    <3> QED
      BY <1>9, <3>1, Numbers
  <2> QED
    BY <2>1, <2>2
<1> QED
  BY <1>9, <1>10

(* Add puts a socket at the end of the list.                               *)
LEMMA ListAppend ==
    ASSUME NEW l, NEW S, ListOf(l, S), NEW s \in Sockets \ S
    PROVE  ListOf(Append(l, s), S \cup {s})
<1> DEFINE k == Append(l, s)
<1>1. l \in Seq(Sockets \cup {Signaler}) /\ Len(l) \in Nat /\ DOMAIN l = 1 .. Len(l) /\ Len(l) > 0
  BY DEF ListOf
<1>2. /\ k \in Seq(Sockets \cup {Signaler}) /\ DOMAIN k = 1 .. Len(l) + 1 /\ k # <<>>
      /\ k[Len(l) + 1] = s /\ \A i \in DOMAIN l : k[i] = l[i]
  BY <1>1
<1> HIDE DEF k
<1>3. \A i \in DOMAIN k : i \in DOMAIN l \/ i = Len(l) + 1
  BY <1>1, <1>2
<1>4. \A i \in DOMAIN l : i \in DOMAIN k /\ l[i] # s /\ i # Len(l) + 1
  BY <1>1, <1>2 DEF ListOf
<1>5. k[1] = Signaler
  BY <1>1, <1>2 DEF ListOf
<1>6. \A i, j \in DOMAIN k : k[i] = k[j] => i = j
  BY <1>2, <1>3, <1>4 DEF ListOf
<1>7. \A t \in Sockets : t \in S \cup {s} <=> \E i \in DOMAIN k : k[i] = t
  <2> TAKE t \in Sockets
  <2>1. Len(l) + 1 \in DOMAIN k
    BY <1>1, <1>2
  <2>2. CASE t = s
    BY <1>2, <2>1, <2>2
  <2>3. CASE t # s
    <3>1. t \in S <=> \E i \in DOMAIN l : l[i] = t
      BY DEF ListOf
    <3> QED
      BY <1>2, <1>3, <1>4, <2>3, <3>1
  <2> QED
    BY <2>2, <2>3
<1> QED
  BY <1>2, <1>5, <1>6, <1>7 DEF ListOf, k

(* Remove takes one socket out of it.                                      *)
LEMMA ListRemove ==
    ASSUME NEW l, NEW S, ListOf(l, S), NEW s \in Sockets
    PROVE  ListOf(Selected(l, Range(l) \ {s}), S \ {s})
<1> DEFINE keep == Range(l) \ {s}
           k == Selected(l, keep)
           U == Sockets \cup {Signaler}
<1>1. l \in Seq(U) /\ Len(l) \in Nat /\ DOMAIN l = 1 .. Len(l) /\ Len(l) > 0
  BY DEF ListOf
<1>2. /\ k \in Seq(U)
      /\ \A i \in DOMAIN k : k[i] \in keep /\ \E j \in DOMAIN l : l[j] = k[i]
      /\ \A j \in DOMAIN l : l[j] \in keep => \E i \in DOMAIN k : k[i] = l[j]
  <2>0. l \in Seq(U)
    BY <1>1
  <2> HIDE DEF keep, U
  <2>1. k \in Seq(U)
    BY <2>0, SelectedElements
  <2>2. \A i \in DOMAIN k : k[i] \in keep /\ \E j \in DOMAIN l : l[j] = k[i]
    BY <2>0, SelectedElements
  <2>3. \A j \in DOMAIN l : l[j] \in keep => \E i \in DOMAIN k : k[i] = l[j]
    BY <2>0, SelectedElements
  <2> QED
    BY <2>1, <2>2, <2>3
<1>3. \A i, j \in DOMAIN k : i # j =>
        \E a, b \in DOMAIN l : a # b /\ (i < j => a < b) /\ l[a] = k[i] /\ l[b] = k[j]
  <2> HIDE DEF keep, U
  <2> QED
    BY <1>1, SelectedDistinct
<1>4. \A j \in DOMAIN l : l[j] \in keep <=> l[j] # s
  BY DEF Range
<1>5. \A x \in keep : x # s
  OBVIOUS
<1> HIDE DEF keep, k
<1>6. \A i, j \in DOMAIN k : k[i] = k[j] => i = j
  BY <1>3 DEF ListOf
<1>7. Len(k) \in Nat /\ DOMAIN k = 1 .. Len(k)
  BY <1>2
<1>8. PICK i \in DOMAIN k : k[i] = Signaler
  <2>1. 1 \in DOMAIN l /\ l[1] = Signaler /\ Signaler # s
    BY <1>1, Numbers DEF ListOf
  <2> QED
    BY <1>2, <1>4, <2>1
<1>9. k # <<>> /\ 1 \in DOMAIN k
  BY <1>7, <1>8
<1>10. k[1] = Signaler
  <2>1. CASE i = 1
    BY <1>8, <2>1
  <2>2. CASE i # 1
    <3>1. 1 < i
      BY <1>7, <2>2
    <3>2. PICK a, b \in DOMAIN l : a < b /\ l[b] = Signaler
      BY <1>3, <1>8, <1>9, <2>2, <3>1
    <3>3. 1 \in DOMAIN l /\ l[1] = Signaler
      BY <1>1 DEF ListOf
    <3>4. b = 1
      BY <3>2, <3>3 DEF ListOf
    <3> QED
      BY <1>1, <3>2, <3>4
  <2> QED
    BY <2>1, <2>2
<1>11. \A t \in Sockets : t \in S \ {s} <=> \E j \in DOMAIN k : k[j] = t
  <2> TAKE t \in Sockets
  <2>1. t \in S <=> \E j \in DOMAIN l : l[j] = t
    BY DEF ListOf
  <2>2. ASSUME t \in S \ {s} PROVE \E j \in DOMAIN k : k[j] = t
    BY <1>2, <1>4, <2>1, <2>2
  <2>3. ASSUME NEW j \in DOMAIN k, k[j] = t PROVE t \in S \ {s}
    BY <1>2, <1>5, <2>1, <2>3
  <2> QED
    BY <2>2, <2>3
<1> QED
  BY <1>2, <1>6, <1>9, <1>10, <1>11 DEF ListOf, k, keep

(* The dispatch loop stops at a dispatcher that has a bit.                 *)
LEMMA NextIsMarked ==
    ASSUME List, ~Marked(Signaler), \E d \in Range(dispatchers_) : Marked(d)
    PROVE  NextMarked \in Listed /\ Marked(NextMarked)
<1> DEFINE At == {i \in DOMAIN dispatchers_ : Marked(dispatchers_[i])}
<1>1. DOMAIN dispatchers_ = 1 .. Len(dispatchers_) /\ Len(dispatchers_) \in Nat
  BY DEF List, ListOf
<1>2. PICK i \in At : \A j \in At : i <= j
  <2>1. At \subseteq Nat /\ At # {}
    BY <1>1 DEF Range
  <2> HIDE DEF At
  <2> QED
    BY <2>1, Smallest
<1>3. \A j \in 1 .. i - 1 : ~Marked(dispatchers_[j])
  <2> SUFFICES ASSUME NEW j \in 1 .. i - 1, Marked(dispatchers_[j]) PROVE FALSE
    OBVIOUS
  <2>1. j \in DOMAIN dispatchers_ /\ j < i
    BY <1>1
  <2> QED
    BY <1>1, <1>2, <2>1
<1> DEFINE P(d) == \E n \in DOMAIN dispatchers_ :
                      /\ dispatchers_[n] = d /\ Marked(d)
                      /\ \A j \in 1 .. n - 1 : ~Marked(dispatchers_[j])
<1>4. dispatchers_[i] \in Range(dispatchers_) /\ P(dispatchers_[i])
  BY <1>3 DEF Range
<1>5. NextMarked \in Range(dispatchers_) /\ P(NextMarked)
  <2>1. NextMarked = CHOOSE d \in Range(dispatchers_) : P(d)
    BY DEF NextMarked
  <2> HIDE DEF P
  <2> QED
    BY <1>4, <2>1
<1>6. PICK n \in DOMAIN dispatchers_ : dispatchers_[n] = NextMarked
  BY <1>5
<1>7. Marked(NextMarked) /\ NextMarked # Signaler
  BY <1>5
<1>8. NextMarked \in Sockets
  <2>1. dispatchers_[n] \in Sockets \cup {Signaler}
    BY <1>1 DEF List, ListOf
  <2> QED
    BY <1>6, <1>7, <2>1
<1> QED
  BY <1>6, <1>7, <1>8 DEF List, ListOf
-----------------------------------------------------------------------------
(* A step of one socket, or of none: what the others are does not change.  *)
Same(t) ==
    /\ fd'[t] = fd[t] /\ life'[t] = life[t] /\ state_'[t] = state_[t]
    /\ enabled_events_'[t] = enabled_events_[t] /\ net'[t] = net[t] /\ data'[t] = data[t]
    /\ t \in polled' <=> t \in polled
StillWait == UNCHANGED <<pc, fdsRead, fdsWrite, current, ff>>

(* What holds of a socket goes on to hold when nothing of it changes.      *)
LEMMA SameKeeps ==
    ASSUME NEW t \in Sockets, Same(t), StillWait
    PROVE  (Quiet(t) => Quiet(t)') /\ (Honest(t) => Honest(t)')
<1>1. (Handling(t)' <=> Handling(t)) /\ (Writable(t)' <=> Writable(t)) /\ Bits' = Bits
  BY DEF Handling, Writable, Bits, Same, StillWait
<1>2. Quiet(t) => Quiet(t)'
  BY <1>1 DEF Quiet, Same, StillWait
<1>3. Marks(t) => Marks(t)'
  BY <1>1 DEF Marks, Same, StillWait
<1>4. Dialing(t) => Dialing(t)'
  BY <1>1 DEF Dialing, Same, StillWait
<1>5. Asking(t) => Asking(t)'
  BY <1>1 DEF Asking, Same, StillWait
<1>6. Flow(t) => Flow(t)'
  BY <1>1 DEF Flow, Same, StillWait
<1>7. Told(t) => Told(t)'
  BY <1>1 DEF Told, Same, StillWait
<1> QED
  BY <1>2, <1>3, <1>4, <1>5, <1>6, <1>7 DEF Honest

(* A step of socket s has to keep what is said of s itself.                *)
LEMMA SocketStep ==
    ASSUME IInv, NEW s \in Sockets, \A t \in Sockets \ {s} : Same(t), StillWait,
           Types', List', Descriptors', raced => raced',
           s \in polled' => fd'[s] # NoFd \/ pc # "blocked",
           fd'[s] = fd[s] \/ fd[s] \notin Bits \/ raced',
           Quiet(s)', raced' \/ Honest(s)'
    PROVE  IInv'
<1>1. \A t \in Sockets : Quiet(t)'
  BY SameKeeps DEF IInv
<1>2. Sets'
  <2>1. pc' = pc /\ Bits' = Bits
    BY DEF StillWait, Bits
  <2>2. ASSUME pc = "blocked", NEW q \in polled' PROVE fd'[q] # NoFd
    <3>1. q \in Sockets
      BY DEF Types
    <3>2. CASE q = s
      BY <2>2, <3>2
    <3>3. CASE q # s
      BY <2>2, <3>1, <3>3 DEF Same, IInv, Sets
    <3> QED
      BY <3>2, <3>3
  <2> QED
    BY <2>1, <2>2 DEF Sets, IInv
<1>3. CASE ~raced'
  <2>1. Safe
    BY <1>3 DEF IInv
  <2>2. \A t \in Sockets : Honest(t)'
    BY <1>3, <2>1, SameKeeps DEF Safe
  <2>3. Owned'
    <3> SUFFICES ASSUME NEW n \in Bits', n # SignalFd
                 PROVE  \E t \in Sockets : fd'[t] = n
      BY DEF Owned
    <3>1. n \in Bits
      BY DEF Bits, StillWait
    <3>2. PICK t \in Sockets : fd[t] = n
      BY <2>1, <3>1 DEF Safe, Owned
    <3>3. fd'[t] = fd[t]
      BY <1>3, <3>1, <3>2 DEF Same
    <3> QED
      BY <3>2, <3>3
  <2>4. pc' # "failed"
    BY <2>1 DEF Safe, StillWait
  <2> QED
    BY <1>1, <1>2, <2>2, <2>3, <2>4 DEF IInv, Safe
<1> QED
  BY <1>1, <1>2, <1>3 DEF IInv

(* A step that changes nothing of any socket.                              *)
LEMMA NoSocketStep ==
    ASSUME IInv, UNCHANGED <<fd, life, state_, enabled_events_, net, data, polled, dispatchers_>>,
           StillWait, Types', raced => raced'
    PROVE  IInv'
<1>1. \A t \in Sockets : Same(t)
  BY DEF Same
<1>2. List' /\ Descriptors' /\ Sets'
  BY DEF IInv, List, Listed, Descriptors, Sets, Bits, StillWait
<1>3. \A t \in Sockets : Quiet(t)' /\ (Honest(t) => Honest(t)')
  BY <1>1, SameKeeps DEF IInv
<1>4. (Owned => Owned') /\ (pc # "failed" => pc' # "failed")
  BY DEF Owned, Bits, StillWait
<1> QED
  BY <1>2, <1>3, <1>4 DEF IInv, Safe

(* When no socket comes into the list or leaves it.                        *)
LEMMA ListSame ==
    ASSUME List, UNCHANGED dispatchers_,
           \A t \in Sockets : life'[t] \in InServer <=> life[t] \in InServer
    PROVE  List'
<1>1. Listed' = Listed
  BY DEF Listed
<1> QED
  BY <1>1 DEF List

(* When no socket is opened or closed.                                     *)
LEMMA DescriptorsSame ==
    ASSUME Descriptors, UNCHANGED fd,
           \A t \in Sockets : life'[t] \in Closed <=> life[t] \in Closed
    PROVE  Descriptors'
  BY DEF Descriptors

(* When socket s gets the free descriptor.                                 *)
LEMMA DescriptorsOpen ==
    ASSUME Types, Descriptors, NEW s \in Sockets, life[s] \in Closed,
           fd' = [fd EXCEPT ![s] = FreeFd], life'[s] \notin Closed,
           \A t \in Sockets \ {s} : life'[t] = life[t]
    PROVE  /\ Descriptors' /\ fd'[s] \in Fds /\ fd[s] = NoFd
           /\ \A t \in Sockets \ {s} : fd'[t] = fd[t]
<1>1. FreeFd \in Fds /\ \A t \in Sockets : fd[t] # FreeFd
  BY FreeFds
<1>2. fd'[s] = FreeFd /\ \A t \in Sockets \ {s} : fd'[t] = fd[t]
  BY DEF Types
<1>3. FreeFd # NoFd /\ fd[s] = NoFd
  BY <1>1, Numbers DEF Descriptors
<1>4. \A t \in Sockets : life'[t] \in Closed <=> fd'[t] = NoFd
  BY <1>2, <1>3 DEF Descriptors
<1>5. \A t, u \in Sockets : fd'[t] = fd'[u] => t = u \/ fd'[t] = NoFd
  BY <1>1, <1>2 DEF Descriptors
<1> QED
  BY <1>1, <1>2, <1>3, <1>4, <1>5 DEF Descriptors

(* When it is closed.                                                      *)
LEMMA DescriptorsClose ==
    ASSUME Types, Descriptors, NEW s \in Sockets, ClosePhysical(s)
    PROVE  Descriptors'
<1>1. fd'[s] = NoFd /\ life'[s] \in Closed
  BY DEF ClosePhysical, Types, Closed
<1>2. \A t \in Sockets \ {s} : fd'[t] = fd[t] /\ life'[t] = life[t]
  BY DEF ClosePhysical, Types
<1> QED
  BY <1>1, <1>2 DEF Descriptors
-----------------------------------------------------------------------------
(* What connect() leaves behind.                                           *)
LEMMA ConnectKeeps ==
    ASSUME Types, NEW s \in Sockets, NEW r \in Connects, DoConnect(s, r)
    PROVE  /\ state_' \in [Sockets -> States] /\ enabled_events_' \in [Sockets -> SUBSET Event]
           /\ net' \in [Sockets -> Nets] /\ life' \in [Sockets -> Life]
           /\ \A t \in Sockets \ {s} : /\ state_'[t] = state_[t] /\ net'[t] = net[t]
                                       /\ enabled_events_'[t] = enabled_events_[t]
                                       /\ life'[t] = life[t]
           /\ life'[s] = "live"
           /\ state_'[s] = "CS_CONNECTING" =>
                 "CONNECT" \in enabled_events_'[s] /\ net'[s] = "dialing"
           /\ state_'[s] = "CS_CLOSED" => enabled_events_'[s] = {}
<1>1. CASE r = "EINPROGRESS"
  <2>1. /\ state_' = [state_ EXCEPT ![s] = "CS_CONNECTING"]
        /\ enabled_events_' = [enabled_events_ EXCEPT ![s] = {"CONNECT", "READ", "WRITE"}]
        /\ net' = [net EXCEPT ![s] = "dialing"]
        /\ life' = [life EXCEPT ![s] = "live"]
    BY <1>1 DEF DoConnect, ConnState
  <2> QED
    BY <2>1 DEF Types, States, Nets, Life, Event
<1>2. CASE r = "0"
  <2>1. /\ state_' = [state_ EXCEPT ![s] = "CS_CONNECTED"]
        /\ enabled_events_' = [enabled_events_ EXCEPT ![s] = {"READ", "WRITE"}]
        /\ net' = [net EXCEPT ![s] = "up"]
        /\ life' = [life EXCEPT ![s] = "live"]
    BY <1>2 DEF DoConnect, ConnState
  <2> QED
    BY <2>1 DEF Types, States, Nets, Life, Event
<1>3. CASE r = "error"
  <2>1. /\ state_' = [state_ EXCEPT ![s] = "CS_CLOSED"]
        /\ enabled_events_' = [enabled_events_ EXCEPT ![s] = {}]
        /\ net' = [net EXCEPT ![s] = "none"]
        /\ life' = [life EXCEPT ![s] = "live"]
    BY <1>3 DEF DoConnect, ConnState
  <2> QED
    BY <2>1 DEF Types, States, Nets, Life, Event
<1> QED
  BY <1>1, <1>2, <1>3, SocketsAssumption

(* A socket that was just started: connect() was called, and it has no     *)
(* bits in the sets.                                                       *)
LEMMA StartedIsHonest ==
    ASSUME Types, NEW s \in Sockets, NEW r \in Connects, DoConnect(s, r), StillWait, UNCHANGED data,
           fd'[s] \notin Bits, net[s] = "none", Flow(s), ~Handling(s)
    PROVE  Honest(s)'
<1>1. ~Handling(s)' /\ fd'[s] \notin Bits' /\ fd'[s] \notin fdsRead' /\ fd'[s] \notin fdsWrite'
  BY DEF Handling, StillWait, Bits
<1>2. Marks(s)' /\ Told(s)'
  BY <1>1 DEF Marks, Told
<1>3. Dialing(s)' /\ Asking(s)'
  BY <1>1, ConnectKeeps DEF Dialing, Asking, Bound
<1>4. Flow(s)'
  <2>1. ~data'[s]
    BY DEF Flow, Connected
  <2>2. life'[s] = "live"
    BY ConnectKeeps
  <2> QED
    BY <2>1, <2>2 DEF Flow
<1> QED
  BY <1>2, <1>3, <1>4 DEF Honest

(* Session::Start on the async thread.                                     *)
LEMMA StartKeeps ==
    ASSUME IInv, NEW s \in Sockets, NEW r \in Connects, Start(s, r)
    PROVE  IInv'
<1>1. Types /\ List /\ Descriptors /\ life[s] = "fresh" /\ StillWait /\ pc = "out" /\ raced' = raced
  BY DEF IInv, Start, MayStart, StillWait, wait
<1>2. /\ DoConnect(s, r) /\ fd' = [fd EXCEPT ![s] = FreeFd]
      /\ UNCHANGED <<beating, data, polled, fSignaled_, fWait_, finite, reconnecting>>
      /\ dispatchers_' = Append(dispatchers_, s)
  BY DEF Start, wait
<1>3. life[s] \in Closed /\ life'[s] \notin Closed /\ s \notin Listed
  BY <1>1, <1>2, ConnectKeeps DEF Closed, Listed, InServer
<1>4. /\ Descriptors' /\ fd'[s] \in Fds /\ fd[s] = NoFd
      /\ \A t \in Sockets \ {s} : fd'[t] = fd[t]
  <2>1. \A t \in Sockets \ {s} : life'[t] = life[t]
    BY <1>1, <1>2, ConnectKeeps
  <2> QED
    BY <1>1, <1>2, <1>3, <2>1, DescriptorsOpen
<1>5. Types'
  <2>1. fd' \in [Sockets -> {NoFd} \cup Fds]
    BY <1>1, <1>2, <1>3, FreeFds DEF Types
  <2>2. /\ state_' \in [Sockets -> States] /\ enabled_events_' \in [Sockets -> SUBSET Event]
        /\ net' \in [Sockets -> Nets] /\ life' \in [Sockets -> Life]
    BY <1>1, <1>2, ConnectKeeps
  <2> QED
    BY <1>1, <1>2, <2>1, <2>2 DEF Types, StillWait
<1>6. List'
  <2>1. Listed' = Listed \cup {s}
    BY <1>1, <1>2, ConnectKeeps DEF Listed, InServer
  <2>2. ListOf(dispatchers_', Listed \cup {s})
    BY <1>1, <1>2, <1>3, ListAppend DEF List
  <2> QED
    BY <2>1, <2>2 DEF List
<1>7. \A t \in Sockets \ {s} : Same(t)
  BY <1>1, <1>2, <1>4, ConnectKeeps DEF Same
<1>8. Bits = {} /\ ~Handling(s)
  BY <1>1 DEF IInv, Sets, Handling
<1>9. Quiet(s)'
  <2>1. life'[s] = "live" /\ ~Handling(s)'
    BY <1>1, <1>2, ConnectKeeps DEF Handling, StillWait
  <2> QED
    BY <2>1 DEF Quiet
<1>10. raced' \/ Honest(s)'
  <2>1. raced \/ (Flow(s) /\ net[s] = "none")
    BY <1>1 DEF IInv, Safe, Honest, Flow
  <2> QED
    BY <1>1, <1>2, <1>8, <2>1, StartedIsHonest
<1> QED
  BY <1>1, <1>4, <1>5, <1>6, <1>7, <1>8, <1>9, <1>10, SocketStep

(* connect() on the queue thread.                                          *)
LEMMA QueueConnectKeeps ==
    ASSUME IInv, NEW s \in Sockets, NEW r \in Connects, QueueConnect(s, r)
    PROVE  IInv'
<1>1. Types /\ List /\ Descriptors /\ life[s] = "added" /\ StillWait /\ raced' = raced
  BY DEF IInv, QueueConnect, StillWait, wait
<1>2. /\ DoConnect(s, r)
      /\ UNCHANGED <<beating, data, fd, polled, fSignaled_, fWait_, finite, reconnecting, dispatchers_>>
  BY DEF QueueConnect, wait
<1>3. \A t \in Sockets : /\ life'[t] \in InServer <=> life[t] \in InServer
                         /\ life'[t] \in Closed <=> life[t] \in Closed
  BY <1>1, <1>2, ConnectKeeps DEF Closed, InServer
<1>4. List' /\ Descriptors'
  BY <1>1, <1>2, <1>3, ListSame, DescriptorsSame
<1>5. Types'
  <2>1. /\ state_' \in [Sockets -> States] /\ enabled_events_' \in [Sockets -> SUBSET Event]
        /\ net' \in [Sockets -> Nets] /\ life' \in [Sockets -> Life]
    BY <1>1, <1>2, ConnectKeeps
  <2> QED
    BY <1>1, <1>2, <2>1 DEF Types, StillWait
<1>6. \A t \in Sockets \ {s} : Same(t)
  BY <1>1, <1>2, ConnectKeeps DEF Same
<1>7. Quiet(s)'
  <2>1. life'[s] = "live" /\ (Handling(s)' <=> Handling(s)) /\ Bits' = Bits /\ fd'[s] = fd[s]
    BY <1>1, <1>2, ConnectKeeps DEF Handling, StillWait, Bits
  <2> QED
    BY <1>1, <2>1 DEF Quiet, IInv, InServer
<1>8. raced' \/ Honest(s)'
  <2>1. raced \/ Honest(s)
    BY DEF IInv, Safe
  <2>2. raced \/ (Flow(s) /\ net[s] = "none" /\ ~Handling(s) /\ fd'[s] \notin Bits)
    BY <1>1, <1>2, <2>1 DEF Honest, Flow, Marks, Told, Bound
  <2> QED
    BY <1>1, <1>2, <2>2, StartedIsHonest
<1>9. s \in polled' => fd'[s] # NoFd \/ pc # "blocked"
  BY <1>1, <1>2 DEF IInv, Sets
<1> QED
  BY <1>1, <1>2, <1>4, <1>5, <1>6, <1>7, <1>8, <1>9, SocketStep

(* Closing a socket that has no bits and that OnEvent does not run for.    *)
LEMMA CloseKeeps ==
    ASSUME IInv, NEW s \in Sockets, ClosePhysical(s), StillWait, List',
           UNCHANGED <<fSignaled_, fWait_, finite, reconnecting, raced>>,
           polled' \subseteq polled, \A t \in Sockets \ {s} : t \in polled' <=> t \in polled,
           s \in polled' => pc # "blocked",
           ~Handling(s), raced \/ fd[s] \notin Bits
    PROVE  IInv'
<1>1. Types /\ Descriptors
  BY DEF IInv
<1>2. Descriptors'
  BY <1>1, DescriptorsClose
<1>3. Types'
  <2>1. /\ fd' \in [Sockets -> {NoFd} \cup Fds] /\ life' \in [Sockets -> Life]
        /\ state_' \in [Sockets -> States] /\ enabled_events_' \in [Sockets -> SUBSET Event]
    BY <1>1 DEF Types, ClosePhysical, Life, States
  <2>2. /\ net' \in [Sockets -> Nets] /\ beating' \in [Sockets -> BOOLEAN]
        /\ data' \in [Sockets -> BOOLEAN]
    BY <1>1 DEF Types, ClosePhysical, Nets
  <2> QED
    BY <1>1, <2>1, <2>2 DEF Types, StillWait
<1>4. \A t \in Sockets \ {s} : Same(t)
  BY <1>1 DEF Same, ClosePhysical, Types
<1>5. /\ life'[s] = "closed" /\ enabled_events_'[s] = {} /\ state_'[s] = "CS_CLOSED"
      /\ net'[s] = "none" /\ data'[s] = FALSE /\ fd'[s] = NoFd
  BY <1>1 DEF ClosePhysical, Types
<1>6. ~Handling(s)'
  BY DEF Handling, StillWait
<1>7. Quiet(s)'
  BY <1>5, <1>6 DEF Quiet
<1>8. Honest(s)'
  <2>1. fd'[s] \notin Bits' /\ fd'[s] \notin fdsWrite'
    BY <1>3, <1>5, Numbers DEF Types, Bits
  <2> QED
    BY <1>5, <1>6, <2>1 DEF Honest, Marks, Dialing, Asking, Flow, Told
<1> QED
  BY <1>2, <1>3, <1>4, <1>5, <1>7, <1>8, SocketStep

(* OnDisconnectMessage on the async thread.                                *)
LEMMA StopKeeps ==
    ASSUME IInv, NEW s \in Sockets, Stop(s)
    PROVE  IInv'
<1>1. /\ Types /\ List /\ StillWait /\ ClosePhysical(s) /\ pc = "out"
      /\ UNCHANGED <<fSignaled_, fWait_, finite, reconnecting, raced, polled>>
      /\ dispatchers_' = Selected(dispatchers_, Range(dispatchers_) \ {s})
  BY DEF IInv, Stop, StillWait, wait, RemoveDispatcher
<1>2. List'
  <2>1. Listed' = Listed \ {s}
    BY <1>1 DEF Listed, ClosePhysical, Types, InServer
  <2>2. ListOf(dispatchers_', Listed \ {s})
    BY <1>1, ListRemove DEF List
  <2> QED
    BY <2>1, <2>2 DEF List
<1>3. ~Handling(s) /\ fd[s] \notin Bits
  BY <1>1 DEF IInv, Sets, Handling
<1> QED
  BY <1>1, <1>2, <1>3, CloseKeeps

(* close() on the queue thread, after Remove.                              *)
LEMMA QueueCloseKeeps ==
    ASSUME IInv, NEW s \in Sockets, QueueClose(s)
    PROVE  IInv'
<1>1. /\ Types /\ List /\ StillWait /\ ClosePhysical(s) /\ life[s] = "removed"
      /\ UNCHANGED <<fSignaled_, fWait_, finite, reconnecting, raced, dispatchers_>>
      /\ polled' = polled \ {s}
  BY DEF IInv, QueueClose, StillWait
<1>2. List'
  <2>1. \A t \in Sockets : life'[t] \in InServer <=> life[t] \in InServer
    BY <1>1 DEF ClosePhysical, Types, InServer
  <2> QED
    BY <1>1, <2>1, ListSame
<1>3. ~Handling(s)
  BY <1>1 DEF IInv, Quiet, InServer
<1>4. raced \/ fd[s] \notin Bits
  BY <1>1 DEF IInv, Safe, Honest, Marks, Bound
<1> QED
  BY <1>1, <1>2, <1>3, <1>4, CloseKeeps

(* The heartbeat timer unhooks the session.                                *)
LEMMA HeartbeatTimeoutKeeps ==
    ASSUME IInv, NEW s \in Sockets, HeartbeatTimeout(s)
    PROVE  IInv'
<1>1. /\ Types /\ List /\ Descriptors /\ StillWait /\ pc = "out" /\ life[s] \in {"live", "closing"}
      /\ UNCHANGED <<fSignaled_, fWait_, finite, reconnecting, raced, dispatchers_, polled, fd,
                     state_, enabled_events_, net, data>>
      /\ beating' = [beating EXCEPT ![s] = FALSE]
      /\ life' = [life EXCEPT ![s] = IF state_[s] = "CS_CLOSED" THEN @ ELSE "unbound"]
  BY DEF IInv, HeartbeatTimeout, StillWait, wait
<1>2. Types'
  BY <1>1 DEF Types, StillWait, Life
<1>3. /\ life'[s] = life[s] \/ (life'[s] = "unbound" /\ state_[s] # "CS_CLOSED")
      /\ \A t \in Sockets \ {s} : life'[t] = life[t]
  BY <1>1 DEF Types
<1>4. \A t \in Sockets : /\ life'[t] \in InServer <=> life[t] \in InServer
                         /\ life'[t] \in Closed <=> life[t] \in Closed
  BY <1>1, <1>3 DEF Closed, InServer
<1>5. List' /\ Descriptors'
  BY <1>1, <1>4, ListSame, DescriptorsSame
<1>6. \A t \in Sockets \ {s} : Same(t)
  BY <1>1, <1>3 DEF Same
<1>7. Bits = {} /\ Bits' = {} /\ ~Handling(s)' /\ pc' = "out" /\ fdsRead' = {} /\ fdsWrite' = {}
  BY <1>1 DEF IInv, Sets, Handling, Bits, StillWait
<1>8. Quiet(s)'
  BY <1>1, <1>3, <1>7 DEF Quiet, IInv
<1>9. raced' \/ Honest(s)'
  <2>1. raced \/ Honest(s)
    BY DEF IInv, Safe
  <2>2. Marks(s)' /\ Told(s)'
    BY <1>7 DEF Marks, Told
  <2>3. Dialing(s) => Dialing(s)'
    BY <1>1, <1>7 DEF Dialing
  <2>4. Asking(s) /\ ~Handling(s) => Asking(s)'
    BY <1>1, <1>3 DEF Asking, Bound
  <2>5. Flow(s) => Flow(s)'
    BY <1>1, <1>3 DEF Flow
  <2> QED
    BY <1>1, <2>1, <2>2, <2>3, <2>4, <2>5 DEF Honest, Handling
<1> QED
  BY <1>1, <1>2, <1>5, <1>6, <1>8, <1>9, SocketStep

(* Send asks for a write event.                                            *)
LEMMA SendBlocksKeeps ==
    ASSUME IInv, NEW s \in Sockets, SendBlocks(s)
    PROVE  IInv'
<1>1. /\ Types /\ List /\ Descriptors /\ StillWait /\ pc = "out" /\ life[s] = "live"
      /\ state_[s] = "CS_CONNECTED"
      /\ UNCHANGED <<fSignaled_, fWait_, finite, reconnecting, raced, dispatchers_, polled, fd,
                     state_, life, beating, net, data>>
      /\ enabled_events_' = [enabled_events_ EXCEPT ![s] = @ \cup {"WRITE"}]
  BY DEF IInv, SendBlocks, StillWait, wait
<1>2. Types'
  BY <1>1 DEF Types, StillWait, Event
<1>3. \A t \in Sockets \ {s} : enabled_events_'[t] = enabled_events_[t]
  BY <1>1 DEF Types
<1>4. List' /\ Descriptors'
  BY <1>1, ListSame, DescriptorsSame
<1>5. \A t \in Sockets \ {s} : Same(t)
  BY <1>1, <1>3 DEF Same
<1>6. ~Handling(s)' /\ Bits' = Bits /\ Bits = {}
  BY <1>1 DEF IInv, Sets, Handling, Bits, StillWait
<1>7. Quiet(s)'
  BY <1>1, <1>6 DEF Quiet
<1>8. raced' \/ Honest(s)'
  <2>1. raced \/ Honest(s)
    BY DEF IInv, Safe
  <2>2. Marks(s)' /\ Told(s)' /\ Dialing(s)' /\ Asking(s)'
    BY <1>1, <1>6 DEF Marks, Told, Dialing, Asking, Bound, Bits
  <2>3. Flow(s) => Flow(s)'
    BY <1>1 DEF Flow
  <2> QED
    BY <1>1, <2>1, <2>2, <2>3 DEF Honest
<1> QED
  BY <1>1, <1>2, <1>4, <1>5, <1>7, <1>8, SocketStep

(* socket() on the queue thread: the number it returns is in the sets only *)
(* if a socket was closed while select() waited for it.                    *)
LEMMA QueueSocketKeeps ==
    ASSUME IInv, NEW s \in Sockets, QueueSocket(s)
    PROVE  IInv'
<1>1. /\ Types /\ List /\ Descriptors /\ StillWait /\ life[s] = "fresh"
      /\ UNCHANGED <<fSignaled_, fWait_, finite, reconnecting, raced, dispatchers_, polled,
                     state_, enabled_events_, beating, net, data>>
      /\ fd' = [fd EXCEPT ![s] = FreeFd] /\ life' = [life EXCEPT ![s] = "made"]
  BY DEF IInv, QueueSocket, MayStart, StillWait, wait
<1>2. life'[s] = "made" /\ \A t \in Sockets \ {s} : life'[t] = life[t]
  BY <1>1 DEF Types
<1>3. FreeFd \in Fds /\ \A t \in Sockets : fd[t] # FreeFd
  BY <1>1, FreeFds DEF Closed
<1>4. /\ Descriptors' /\ fd'[s] \in Fds /\ fd[s] = NoFd
      /\ \A t \in Sockets \ {s} : fd'[t] = fd[t]
  BY <1>1, <1>2, DescriptorsOpen DEF Closed
<1>5. Types'
  BY <1>1, <1>3 DEF Types, StillWait, Life
<1>6. List'
  BY <1>1, <1>2, ListSame DEF InServer
<1>7. \A t \in Sockets \ {s} : Same(t)
  BY <1>1, <1>2, <1>4 DEF Same
<1>8. fd[s] \notin Bits
  BY <1>1, <1>4, Numbers DEF Types, Bits
<1>9. ~Handling(s) /\ ~Handling(s)'
  BY <1>1 DEF IInv, Quiet, InServer, Handling, StillWait
<1>10. Quiet(s)'
  BY <1>2, <1>9 DEF Quiet
<1>11. raced' \/ Honest(s)'
  <2>1. CASE ~raced
    <3>1. Honest(s) /\ Owned
      BY <2>1 DEF IInv, Safe
    <3>2. fd'[s] = FreeFd /\ FreeFd # SignalFd
      BY <1>1, <1>3, Numbers DEF Types
    <3>3. fd'[s] \notin Bits'
      BY <1>1, <1>3, <3>1, <3>2 DEF Owned, Bits, StillWait
    <3>4. Marks(s)' /\ Told(s)'
      BY <1>9, <3>3 DEF Marks, Told, Bits
    <3>5. enabled_events_'[s] = {} /\ Asking(s)'
      BY <1>1, <3>1 DEF Honest, Asking, Bound
    <3>6. Dialing(s)'
      BY <1>1, <1>9, <3>1, <3>3 DEF Honest, Dialing, Bits
    <3>7. Flow(s)'
      BY <1>1, <3>1 DEF Honest, Flow
    <3> QED
      BY <3>4, <3>5, <3>6, <3>7 DEF Honest
  <2> QED
    BY <1>1, <2>1 DEF Types
<1>12. fd'[s] # NoFd
  BY <1>4, Numbers
<1> QED
  BY <1>1, <1>4, <1>5, <1>6, <1>7, <1>8, <1>10, <1>11, <1>12, SocketStep

(* The life of a socket goes on from one stage to another, neither of them *)
(* one in which the server may wait for it or the socket is started.       *)
LEMMA StageKeeps ==
    ASSUME NEW s \in Sockets, StillWait, UNCHANGED <<fd, state_, enabled_events_, net, data, polled>>,
           life[s] \notin Bound, life'[s] \notin Bound,
           life'[s] \in {"fresh", "made", "added"} => life[s] \in {"fresh", "made", "added"},
           Honest(s)
    PROVE  Honest(s)'
<1>1. Bits' = Bits /\ (Handling(s)' <=> Handling(s)) /\ (Writable(s)' <=> Writable(s))
  BY DEF Bits, Handling, Writable, StillWait
<1>2. ~Handling(s) /\ fd[s] \notin Bits /\ enabled_events_[s] = {}
  BY DEF Honest, Told, Marks, Asking
<1>3. Marks(s)' /\ Told(s)' /\ Asking(s)'
  BY <1>1, <1>2 DEF Marks, Told, Asking, Bits
<1>4. Dialing(s)' /\ Flow(s)'
  BY <1>1 DEF Honest, Dialing, Flow, StillWait
<1> QED
  BY <1>3, <1>4 DEF Honest

(* Add on the queue thread.                                                *)
LEMMA QueueAddKeeps ==
    ASSUME IInv, NEW s \in Sockets, QueueAdd(s)
    PROVE  IInv'
<1>1. /\ Types /\ List /\ Descriptors /\ StillWait /\ life[s] = "made"
      /\ UNCHANGED <<fSignaled_, fWait_, finite, reconnecting, raced, polled, fd,
                     state_, enabled_events_, beating, net, data>>
      /\ life' = [life EXCEPT ![s] = "added"] /\ dispatchers_' = Append(dispatchers_, s)
  BY DEF IInv, QueueAdd, StillWait, wait
<1>2. life'[s] = "added" /\ \A t \in Sockets \ {s} : life'[t] = life[t]
  BY <1>1 DEF Types
<1>3. Types'
  BY <1>1 DEF Types, StillWait, Life
<1>4. Descriptors'
  BY <1>1, <1>2, DescriptorsSame DEF Closed
<1>5. List'
  <2>1. Listed' = Listed \cup {s} /\ s \notin Listed
    BY <1>1, <1>2 DEF Listed, InServer
  <2>2. ListOf(dispatchers_', Listed \cup {s})
    BY <1>1, <2>1, ListAppend DEF List
  <2> QED
    BY <2>1, <2>2 DEF List
<1>6. \A t \in Sockets \ {s} : Same(t)
  BY <1>1, <1>2 DEF Same
<1>7. Quiet(s)'
  <2>1. ~Handling(s)'
    BY <1>1 DEF IInv, Quiet, InServer, Handling, StillWait
  <2> QED
    BY <1>2, <2>1 DEF Quiet
<1>8. raced' \/ Honest(s)'
  <2>1. raced \/ Honest(s)
    BY DEF IInv, Safe
  <2> QED
    BY <1>1, <1>2, <2>1, StageKeeps DEF Bound
<1>9. s \in polled' => fd'[s] # NoFd \/ pc # "blocked"
  BY <1>1 DEF IInv, Sets
<1> QED
  BY <1>1, <1>3, <1>4, <1>5, <1>6, <1>7, <1>8, <1>9, SocketStep

(* The queue thread drops a session; from here on the socket is dying, and *)
(* if it was not closed before, this is the race.                          *)
LEMMA QueueRemoveSessionKeeps ==
    ASSUME IInv, NEW s \in Sockets, QueueRemoveSession(s)
    PROVE  IInv'
<1>1. /\ Types /\ List /\ Descriptors /\ StillWait /\ life[s] \in {"unbound", "closing"}
      /\ UNCHANGED <<fSignaled_, fWait_, finite, reconnecting, polled, fd, dispatchers_,
                     state_, enabled_events_, net, data>>
      /\ life' = [life EXCEPT ![s] = "dying"] /\ beating' = [beating EXCEPT ![s] = FALSE]
      /\ raced' = (raced \/ life[s] = "unbound")
  BY DEF IInv, QueueRemoveSession, StillWait, wait
<1>2. life'[s] = "dying" /\ \A t \in Sockets \ {s} : life'[t] = life[t]
  BY <1>1 DEF Types
<1>3. Types'
  <2>1. life' \in [Sockets -> Life] /\ beating' \in [Sockets -> BOOLEAN] /\ raced' \in BOOLEAN
    BY <1>1 DEF Types, Life
  <2> QED
    BY <1>1, <2>1 DEF Types, StillWait
<1>4. Descriptors'
  BY <1>1, <1>2, DescriptorsSame DEF Closed
<1>5. List'
  BY <1>1, <1>2, ListSame DEF InServer
<1>6. \A t \in Sockets \ {s} : Same(t)
  BY <1>1, <1>2 DEF Same
<1>7. Quiet(s)'
  <2>1. (Handling(s)' <=> Handling(s)) /\ Bits' = Bits /\ fd'[s] = fd[s]
    BY <1>1 DEF Handling, StillWait, Bits
  <2> QED
    BY <1>2, <2>1 DEF Quiet, IInv, InServer
<1>8. raced' \/ Honest(s)'
  <2>1. CASE life[s] = "unbound"
    BY <1>1, <2>1
  <2>2. CASE life[s] = "closing"
    <3>1. raced \/ Honest(s)
      BY DEF IInv, Safe
    <3> QED
      BY <1>1, <1>2, <2>2, <3>1, StageKeeps DEF Bound
  <2> QED
    BY <1>1, <2>1, <2>2
<1>9. s \in polled' => fd'[s] # NoFd \/ pc # "blocked"
  BY <1>1 DEF IInv, Sets
<1>10. raced => raced'
  BY <1>1
<1> QED
  BY <1>1, <1>3, <1>4, <1>5, <1>6, <1>7, <1>8, <1>9, <1>10, SocketStep

(* Remove on the queue thread.                                             *)
LEMMA QueueRemoveKeeps ==
    ASSUME IInv, NEW s \in Sockets, QueueRemove(s)
    PROVE  IInv'
<1>1. /\ Types /\ List /\ Descriptors /\ StillWait /\ life[s] = "dying" /\ pc # "event"
      /\ UNCHANGED <<fSignaled_, fWait_, finite, reconnecting, raced, polled, fd,
                     state_, enabled_events_, beating, net, data>>
      /\ life' = [life EXCEPT ![s] = "removed"]
      /\ dispatchers_' = Selected(dispatchers_, Range(dispatchers_) \ {s})
  BY DEF IInv, QueueRemove, StillWait, wait, RemoveDispatcher, Unlocked
<1>2. life'[s] = "removed" /\ \A t \in Sockets \ {s} : life'[t] = life[t]
  BY <1>1 DEF Types
<1>3. Types'
  BY <1>1 DEF Types, StillWait, Life
<1>4. Descriptors'
  BY <1>1, <1>2, DescriptorsSame DEF Closed
<1>5. List'
  <2>1. Listed' = Listed \ {s}
    BY <1>1, <1>2 DEF Listed, InServer
  <2>2. ListOf(dispatchers_', Listed \ {s})
    BY <1>1, ListRemove DEF List
  <2> QED
    BY <2>1, <2>2 DEF List
<1>6. \A t \in Sockets \ {s} : Same(t)
  BY <1>1, <1>2 DEF Same
<1>7. Quiet(s)'
  <2>1. ~Handling(s)'
    BY <1>1 DEF Handling, StillWait
  <2> QED
    BY <1>2, <2>1 DEF Quiet
<1>8. raced' \/ Honest(s)'
  <2>1. raced \/ Honest(s)
    BY DEF IInv, Safe
  <2> QED
    BY <1>1, <1>2, <2>1, StageKeeps DEF Bound
<1>9. s \in polled' => fd'[s] # NoFd \/ pc # "blocked"
  BY <1>1 DEF IInv, Sets
<1> QED
  BY <1>1, <1>3, <1>4, <1>5, <1>6, <1>7, <1>8, <1>9, SocketStep

(* The network: a connection attempt is settled, the peer closes or resets.*)
LEMMA NetKeeps ==
    ASSUME IInv, NEW s \in Sockets, NEW from, NEW to, Net(s, from, to),
           \/ from = {"dialing"} /\ to \in {"up", "refused"}
           \/ from = {"up"} /\ to = "eof"
           \/ from = {"up", "eof"} /\ to = "reset",
           data' \in {data, [data EXCEPT ![s] = FALSE]}
    PROVE  IInv'
<1>1. /\ Types /\ List /\ Descriptors /\ StillWait /\ net[s] \in from
      /\ UNCHANGED <<fSignaled_, fWait_, finite, reconnecting, raced, dispatchers_, polled, fd,
                     state_, life, beating, enabled_events_>>
      /\ net' = [net EXCEPT ![s] = to]
      /\ data' \in {data, [data EXCEPT ![s] = FALSE]}
  BY DEF IInv, Net, StillWait, wait
<1>2. /\ net'[s] = to /\ data'[s] \in {data[s], FALSE}
      /\ \A t \in Sockets \ {s} : net'[t] = net[t] /\ data'[t] = data[t]
  BY <1>1 DEF Types
<1>3. Types'
  BY <1>1 DEF Types, StillWait, Nets
<1>4. List' /\ Descriptors'
  BY <1>1, ListSame, DescriptorsSame
<1>5. \A t \in Sockets \ {s} : Same(t)
  BY <1>1, <1>2 DEF Same
<1>6. Bits' = Bits /\ (Handling(s)' <=> Handling(s)) /\ (Writable(s) => Writable(s)')
  BY <1>1, <1>2 DEF Bits, Handling, Writable, StillWait
<1>7. Quiet(s)'
  BY <1>1, <1>6 DEF Quiet, IInv
<1>8. raced' \/ Honest(s)'
  <2>1. CASE ~raced
    <3>1. Honest(s)
      BY <2>1 DEF IInv, Safe
    <3>2. Marks(s)'
      BY <1>1, <1>6, <3>1 DEF Honest, Marks, StillWait
    <3>3. Dialing(s)' /\ Asking(s)'
      BY <1>1, <1>2, <1>6, <3>1 DEF Honest, Dialing, Asking, StillWait
    <3>4. Flow(s)'
      BY <1>1, <1>2, <3>1 DEF Honest, Flow, Connected
    <3>5. Told(s)'
      BY <1>1, <1>2, <1>6, <3>1 DEF Honest, Told, StillWait, Connected
    <3> QED
      BY <3>2, <3>3, <3>4, <3>5 DEF Honest
  <2> QED
    BY <1>1, <2>1 DEF Types
<1>9. s \in polled' => fd'[s] # NoFd \/ pc # "blocked"
  BY <1>1 DEF IInv, Sets
<1> QED
  BY <1>1, <1>3, <1>4, <1>5, <1>7, <1>8, <1>9, SocketStep

(* Data arrives.                                                           *)
LEMMA ArrivesKeeps ==
    ASSUME IInv, NEW s \in Sockets, Arrives(s)
    PROVE  IInv'
<1>1. /\ Types /\ List /\ Descriptors /\ StillWait /\ net[s] = "up"
      /\ UNCHANGED <<fSignaled_, fWait_, finite, reconnecting, raced, dispatchers_, polled, fd,
                     state_, life, beating, enabled_events_, net>>
      /\ data' = [data EXCEPT ![s] = TRUE]
  BY DEF IInv, Arrives, StillWait, wait
<1>2. \A t \in Sockets \ {s} : data'[t] = data[t]
  BY <1>1 DEF Types
<1>3. Types'
  BY <1>1 DEF Types, StillWait
<1>4. List' /\ Descriptors'
  BY <1>1, ListSame, DescriptorsSame
<1>5. \A t \in Sockets \ {s} : Same(t)
  BY <1>1, <1>2 DEF Same
<1>6. Bits' = Bits /\ (Handling(s)' <=> Handling(s)) /\ (Writable(s)' <=> Writable(s))
  BY <1>1 DEF Bits, Handling, Writable, StillWait
<1>7. Quiet(s)'
  BY <1>1, <1>6 DEF Quiet, IInv
<1>8. raced' \/ Honest(s)'
  <2>1. CASE ~raced
    <3>1. Honest(s)
      BY <2>1 DEF IInv, Safe
    <3>2. Marks(s)' /\ Dialing(s)' /\ Asking(s)' /\ Told(s)'
      BY <1>1, <1>6, <3>1 DEF Honest, Marks, Dialing, Asking, Told, StillWait
    <3>3. Flow(s)'
      BY <1>1, <3>1 DEF Honest, Flow, Connected
    <3> QED
      BY <3>2, <3>3 DEF Honest
  <2> QED
    BY <1>1, <2>1 DEF Types
<1>9. s \in polled' => fd'[s] # NoFd \/ pc # "blocked"
  BY <1>1 DEF IInv, Sets
<1> QED
  BY <1>1, <1>3, <1>4, <1>5, <1>7, <1>8, <1>9, SocketStep

(* A wake-up, and the first reconnect message.                             *)
LEMMA WakeUpKeeps ==
    ASSUME IInv, WakeUp \/ FirstReconnect
    PROVE  IInv'
<1>1. /\ UNCHANGED <<fd, life, state_, enabled_events_, beating, net, data, polled, dispatchers_,
                     raced, fWait_, finite>>
      /\ StillWait /\ fSignaled_' = TRUE /\ (reconnecting' = TRUE \/ reconnecting' = reconnecting)
  BY DEF WakeUp, FirstReconnect, StillWait, wait, sockets
<1>2. Types'
  BY <1>1 DEF IInv, Types, StillWait
<1> QED
  BY <1>1, <1>2, NoSocketStep
-----------------------------------------------------------------------------
(* A step of Wait outside the events of sockets: the sockets stay as they  *)
(* are, and what is left to show is about the sets.                        *)
LEMMA LoopStep ==
    ASSUME IInv, UNCHANGED <<dispatchers_, sockets, raced>>, Types', Sets',
           \A t \in Sockets : ~Handling(t) /\ ~Handling(t)',
           \A t \in Sockets : life[t] = "closing" => fd[t] \notin Bits',
           \/ raced
           \/ /\ \A t \in Sockets :
                   /\ Marks(t)'
                   /\ (state_[t] = "CS_CONNECTING" /\ fd[t] \in fdsRead') => fd[t] \in fdsWrite'
              /\ Owned' /\ pc' # "failed"
    PROVE  IInv'
<1>0. UNCHANGED <<fd, life, state_, enabled_events_, net, data>>
  BY DEF sockets
<1>1. List' /\ Descriptors'
  BY <1>0, ListSame, DescriptorsSame DEF IInv
<1>2. \A t \in Sockets : Quiet(t)'
  BY <1>0 DEF IInv, Quiet
<1>3. CASE ~raced
  <2>1. Safe
    BY <1>3 DEF IInv
  <2>2. ASSUME NEW t \in Sockets PROVE Honest(t)'
    <3>1. Marks(t) /\ Dialing(t) /\ Asking(t) /\ Flow(t)
      BY <2>1 DEF Safe, Honest
    <3>2. Marks(t)' /\ Told(t)'
      BY <1>3 DEF Told
    <3>3. Dialing(t)'
      BY <1>0, <1>3, <3>1 DEF Dialing
    <3>4. Asking(t)'
      BY <1>0, <3>1 DEF Asking
    <3>5. Flow(t)'
      BY <1>0, <3>1 DEF Flow
    <3> QED
      BY <3>2, <3>3, <3>4, <3>5 DEF Honest
  <2> QED
    BY <1>1, <1>2, <1>3, <2>2 DEF IInv, Safe
<1> QED
  BY <1>1, <1>2, <1>3 DEF IInv

(* When the sets stay as they are, or are emptied.                         *)
LEMMA LoopSameSets ==
    ASSUME IInv, UNCHANGED <<dispatchers_, sockets, raced>>, Types',
           \A t \in Sockets : ~Handling(t) /\ ~Handling(t)',
           UNCHANGED <<fdsRead, fdsWrite>> \/ (fdsRead' = {} /\ fdsWrite' = {}),
           pc' = "out" => fdsRead' = {} /\ fdsWrite' = {},
           pc' \notin {"blocked", "failed"},
           pc' \in {"ready", "dispatch", "event"} => pc \in {"ready", "dispatch", "event"}
    PROVE  IInv'
<1>0. UNCHANGED <<fd, life, state_, enabled_events_, net, data>>
  BY DEF sockets
<1>1. Bits' \subseteq Bits
  BY DEF Bits
<1>2. Sets'
  BY DEF Sets, Bits
<1>3. \A t \in Sockets : life[t] = "closing" => fd[t] \notin Bits'
  BY <1>1 DEF IInv, Quiet
<1>4. CASE ~raced
  <2>1. Safe
    BY <1>4 DEF IInv
  <2>2. Owned'
    BY <1>0, <1>1, <2>1 DEF Safe, Owned
  <2>3. ASSUME NEW t \in Sockets PROVE Marks(t)'
    <3>1. Marks(t) /\ (Writable(t)' <=> Writable(t))
      BY <1>0, <2>1 DEF Safe, Honest, Writable
    <3> QED
      BY <1>0, <1>1, <3>1 DEF Marks
  <2>4. \A t \in Sockets :
          (state_[t] = "CS_CONNECTING" /\ fd[t] \in fdsRead') => fd[t] \in fdsWrite'
    BY <2>1 DEF Safe, Honest, Dialing
  <2> QED
    BY <1>2, <1>3, <1>4, <2>2, <2>3, <2>4, LoopStep
<1> QED
  BY <1>2, <1>3, <1>4, LoopStep

(* Wait begins, is interrupted or times out, goes on to dispatch, or ends  *)
(* a round.                                                                *)
LEMMA WaitKeeps ==
    ASSUME IInv, WaitEnter \/ SelectInterrupted \/ SelectTimeout \/ LockDispatchers \/ EndRound
    PROVE  IInv'
<1>1. UNCHANGED <<dispatchers_, sockets, raced>>
  BY DEF WaitEnter, SelectInterrupted, SelectTimeout, LockDispatchers, EndRound
<1>2. Types'
  <2>0. Types
    BY DEF IInv
  <2>1. CASE WaitEnter
    BY <2>0, <2>1 DEF WaitEnter, Types, sockets, Goto, Points
  <2>2. CASE SelectInterrupted
    BY <2>0, <2>2 DEF SelectInterrupted, Types, sockets, Goto, Points
  <2>3. CASE SelectTimeout
    BY <2>0, <2>3 DEF SelectTimeout, Types, sockets, Goto, Points, Leave
  <2>4. CASE LockDispatchers
    BY <2>0, <2>4 DEF LockDispatchers, Types, sockets, Goto, Points
  <2>5. CASE EndRound
    <3>1. /\ pc' \in Points /\ fWait_' \in BOOLEAN /\ finite' \in BOOLEAN
          /\ fdsRead' \subseteq {SignalFd} \cup Fds /\ fdsWrite' \subseteq {SignalFd} \cup Fds
      BY <2>0, <2>5 DEF EndRound, Types, Goto, Points, Leave, Stay
    <3> QED
      BY <2>0, <2>5, <3>1 DEF EndRound, Types, sockets
  <2> QED
    BY <2>1, <2>2, <2>3, <2>4, <2>5
<1>3. /\ pc # "event" /\ pc' \notin {"event", "blocked", "failed"}
      /\ UNCHANGED <<fdsRead, fdsWrite>> \/ (fdsRead' = {} /\ fdsWrite' = {})
      /\ pc' = "out" => fdsRead' = {} /\ fdsWrite' = {}
      /\ pc' \in {"ready", "dispatch"} => pc \in {"ready", "dispatch"}
  BY DEF WaitEnter, SelectInterrupted, SelectTimeout, LockDispatchers, EndRound, Goto, Leave, Stay
<1>4. \A t \in Sockets : ~Handling(t) /\ ~Handling(t)'
  BY <1>3 DEF Handling
<1> QED
  BY <1>1, <1>2, <1>3, <1>4, LoopSameSets

(* The sets are filled from what the sockets in the list ask for.          *)
LEMMA FillSetsKeeps ==
    ASSUME IInv, FillSets
    PROVE  IInv'
<1>1. /\ UNCHANGED <<dispatchers_, sockets, raced, fSignaled_, fWait_, polled, finite, current, ff,
                     reconnecting>>
      /\ pc = "fill" /\ pc' = "select"
      /\ fdsRead' = fdsRead \cup ReadFds /\ fdsWrite' = fdsWrite \cup WriteFds
  BY DEF FillSets, Goto
<1>2. UNCHANGED <<fd, life, state_, enabled_events_, net, data, beating>>
  BY <1>1 DEF sockets
<1>3. Types /\ List /\ Descriptors
  BY DEF IInv
<1>4. InList \subseteq Listed
  BY <1>3 DEF InList, List, ListOf, Range
<1>5. \A s \in InList : s \in Sockets /\ fd[s] \in Fds
  BY <1>3, <1>4 DEF Listed, Descriptors, Closed, InServer, Types
<1>6. ReadFds \subseteq {SignalFd} \cup Fds /\ WriteFds \subseteq {SignalFd} \cup Fds
  BY <1>5 DEF ReadFds, WriteFds
<1>7. Types'
  BY <1>1, <1>2, <1>3, <1>6 DEF Types, Points
<1>8. \A t \in Sockets : ~Handling(t) /\ ~Handling(t)'
  BY <1>1 DEF Handling
<1>9. \A t \in Sockets :
        /\ fd[t] \in ReadFds <=> t \in InList /\ "READ" \in enabled_events_[t]
        /\ fd[t] \in WriteFds <=> t \in InList /\ enabled_events_[t] \cap {"WRITE", "CONNECT"} # {}
  <2> TAKE t \in Sockets
  <2>1. fd[t] # SignalFd
    BY <1>3, Numbers DEF Types
  <2>2. \A s \in InList : fd[s] = fd[t] => s = t
    BY <1>3, <1>5, Numbers DEF Descriptors
  <2> QED
    BY <2>1, <2>2 DEF ReadFds, WriteFds
<1>10. \A t \in Sockets : fd[t] \in Bits' => fd[t] \in Bits \/ (t \in InList /\ enabled_events_[t] # {})
  BY <1>1, <1>9 DEF Bits
<1>11. Sets'
  BY <1>1 DEF Sets
<1>12. \A t \in Sockets : life[t] = "closing" => fd[t] \notin Bits'
  BY <1>10 DEF IInv, Quiet
<1>13. CASE ~raced
  <2>1. Safe
    BY <1>13 DEF IInv
  <2>2. ASSUME NEW t \in Sockets
        PROVE  /\ Marks(t)'
               /\ (state_[t] = "CS_CONNECTING" /\ fd[t] \in fdsRead') => fd[t] \in fdsWrite'
    <3>1. Marks(t) /\ Dialing(t) /\ Asking(t)
      BY <2>1 DEF Safe, Honest
    <3>2. Marks(t)'
      BY <1>1, <1>2, <1>8, <1>10, <3>1 DEF Marks, Asking
    <3>3. ASSUME state_[t] = "CS_CONNECTING", fd[t] \in fdsRead' PROVE fd[t] \in fdsWrite'
      <4>1. CASE fd[t] \in fdsRead
        BY <1>1, <3>1, <3>3, <4>1 DEF Dialing
      <4>2. CASE fd[t] \in ReadFds
        <5>1. t \in InList /\ "CONNECT" \in enabled_events_[t]
          BY <1>9, <3>1, <3>3, <4>2 DEF Dialing
        <5> QED
          BY <1>1, <1>9, <5>1
      <4> QED
        BY <1>1, <3>3, <4>1, <4>2
    <3> QED
      BY <3>2, <3>3
  <2>3. Owned'
    <3> SUFFICES ASSUME NEW n \in Bits', n # SignalFd PROVE \E s \in Sockets : fd'[s] = n
      BY DEF Owned
    <3>1. CASE n \in Bits
      BY <1>2, <2>1, <3>1 DEF Safe, Owned
    <3>2. CASE n \in ReadFds \cup WriteFds
      BY <1>2, <1>5, <3>2 DEF ReadFds, WriteFds
    <3> QED
      BY <1>1, <3>1, <3>2 DEF Bits
  <2> QED
    BY <1>1, <1>7, <1>8, <1>11, <1>12, <1>13, <2>2, <2>3, LoopStep
<1> QED
  BY <1>1, <1>7, <1>8, <1>11, <1>12, <1>13, LoopStep

(* select() begins: it fails only after the race.                          *)
LEMMA SelectEnterKeeps ==
    ASSUME IInv, SelectEnter
    PROVE  IInv'
<1>1. /\ UNCHANGED <<dispatchers_, sockets, raced, fSignaled_, fWait_, fdsRead, fdsWrite, finite,
                     current, ff, reconnecting>>
      /\ pc = "select" /\ pc' \in {"blocked", "failed"}
      /\ polled' = {s \in Open : fd[s] \in Bits}
      /\ Bits \subseteq {SignalFd} \cup {fd[s] : s \in Open} => pc' = "blocked"
  BY DEF SelectEnter, Goto, Bits
<1>2. UNCHANGED <<fd, life, state_, enabled_events_, net, data, beating>> /\ Bits' = Bits
  BY <1>1 DEF sockets, Bits
<1>3. Types /\ Descriptors
  BY DEF IInv
<1>4. \A s \in Sockets : s \in Open <=> fd[s] # NoFd
  BY <1>3 DEF Open, Descriptors, Closed
<1>5. Types'
  BY <1>1, <1>2, <1>3 DEF Types, Points, Open
<1>6. \A t \in Sockets : ~Handling(t) /\ ~Handling(t)'
  BY <1>1 DEF Handling
<1>7. Sets'
  BY <1>1, <1>2, <1>4 DEF Sets, Open
<1>8. \A t \in Sockets : life[t] = "closing" => fd[t] \notin Bits'
  BY <1>2 DEF IInv, Quiet
<1>9. CASE ~raced
  <2>1. Safe
    BY <1>9 DEF IInv
  <2>2. \A s \in Sockets : fd[s] \in Bits => s \in Open
    BY <2>1 DEF Safe, Honest, Marks, Bound, Open
  <2>3. pc' = "blocked"
    BY <1>1, <2>1, <2>2 DEF Safe, Owned
  <2>4. ASSUME NEW t \in Sockets
        PROVE  /\ Marks(t)'
               /\ (state_[t] = "CS_CONNECTING" /\ fd[t] \in fdsRead') => fd[t] \in fdsWrite'
    <3>1. Marks(t) /\ Dialing(t)
      BY <2>1 DEF Safe, Honest
    <3>2. Marks(t)'
      BY <1>1, <1>2, <2>2, <2>3, <3>1 DEF Marks
    <3> QED
      BY <1>1, <3>1, <3>2 DEF Dialing
  <2>5. Owned'
    BY <1>2, <2>1 DEF Safe, Owned
  <2> QED
    BY <1>1, <1>5, <1>6, <1>7, <1>8, <1>9, <2>3, <2>4, <2>5, LoopStep
<1> QED
  BY <1>1, <1>5, <1>6, <1>7, <1>8, <1>9, LoopStep

(* select() returns.  A socket that is waited for is among the polled      *)
(* ones, so that nothing is left open about it.                            *)
LEMMA SelectReturnKeeps ==
    ASSUME IInv, SelectReturn
    PROVE  IInv'
<1>1. PICK some \in SUBSET Gone : /\ fdsRead' = ReadReady \cup (fdsRead \cap some)
                                  /\ fdsWrite' = WriteReady \cup (fdsWrite \cap some)
  BY DEF SelectReturn
<1>2. /\ UNCHANGED <<dispatchers_, sockets, raced, fSignaled_, fWait_, finite, current, ff,
                     reconnecting>>
      /\ pc = "blocked" /\ pc' = "ready" /\ polled' = {}
  BY DEF SelectReturn, Goto
<1>3. UNCHANGED <<fd, life, state_, enabled_events_, net, data, beating>>
  BY <1>2 DEF sockets
<1>4. Types /\ Descriptors /\ Sets
  BY DEF IInv
<1>5. ReadReady \subseteq fdsRead \cup {SignalFd} /\ WriteReady \subseteq fdsWrite
  BY DEF ReadReady, WriteReady
<1>6. fdsRead' \subseteq fdsRead \cup {SignalFd} /\ fdsWrite' \subseteq fdsWrite
  BY <1>1, <1>5
<1>7. Types'
  BY <1>2, <1>3, <1>4, <1>6 DEF Types, Points
<1>8. \A t \in Sockets : ~Handling(t) /\ ~Handling(t)'
  BY <1>2 DEF Handling
<1>9. Sets'
  BY <1>2 DEF Sets
<1>10. \A t \in Sockets : fd[t] # SignalFd
  BY <1>4, Numbers DEF Types
<1>11. \A t \in Sockets : fd[t] \in Bits' => fd[t] \in Bits
  BY <1>6, <1>10 DEF Bits
<1>12. \A t \in Sockets : life[t] = "closing" => fd[t] \notin Bits'
  BY <1>11 DEF IInv, Quiet
<1>13. \A q \in polled : \A t \in Sockets : fd[q] = fd[t] => q = t
  BY <1>2, <1>4 DEF Sets, Descriptors, Types
<1>14. CASE ~raced
  <2>1. Safe
    BY <1>14 DEF IInv
  <2>2. ASSUME NEW t \in Sockets
        PROVE  /\ Marks(t)'
               /\ (state_[t] = "CS_CONNECTING" /\ fd[t] \in fdsRead') => fd[t] \in fdsWrite'
    <3>1. Marks(t) /\ Dialing(t) /\ Flow(t)
      BY <2>1 DEF Safe, Honest
    <3>2. fd[t] \in Bits' => t \in polled /\ fd[t] \notin some
      <4>1. fd[t] \in Bits' => t \in polled
        BY <1>2, <1>11, <3>1 DEF Marks
      <4>2. t \in polled => fd[t] \notin Gone
        BY DEF Gone
      <4> QED
        BY <4>1, <4>2
    <3>3. fd[t] \in fdsWrite' => Writable(t)
      <4> HAVE fd[t] \in fdsWrite'
      <4>1. fd[t] \in WriteReady
        BY <1>1, <3>2 DEF Bits
      <4>2. PICK q \in polled : fd[q] = fd[t] /\ Writable(q)
        BY <4>1 DEF WriteReady
      <4> QED
        BY <1>13, <4>2
    <3>4. Marks(t)'
      <4>1. Writable(t)' <=> Writable(t)
        BY <1>3 DEF Writable
      <4> QED
        BY <1>2, <1>3, <1>11, <3>1, <3>3, <4>1 DEF Marks
    <3>5. ASSUME state_[t] = "CS_CONNECTING", fd[t] \in fdsRead' PROVE fd[t] \in fdsWrite'
      <4>1. fd[t] \in ReadReady /\ t \in polled
        BY <1>1, <3>2, <3>5 DEF Bits
      <4>2. PICK q \in polled : fd[q] = fd[t] /\ fd[q] \in fdsRead /\ Readable(q)
        BY <1>10, <4>1 DEF ReadReady
      <4>3. Readable(t) /\ fd[t] \in fdsWrite
        BY <1>13, <3>1, <3>5, <4>2 DEF Dialing
      <4>4. Writable(t)
        <5>1. CASE data[t]
          BY <3>1, <5>1 DEF Flow, Connected, Writable
        <5>2. CASE net[t] \in {"none", "refused", "eof", "reset"}
          BY <3>1, <3>5, <5>2 DEF Dialing, Writable
        <5> QED
          BY <4>3, <5>1, <5>2 DEF Readable
      <4>5. fd[t] \in WriteReady
        BY <4>1, <4>3, <4>4 DEF WriteReady
      <4> QED
        BY <1>1, <4>5
    <3> QED
      BY <3>4, <3>5
  <2>3. Owned'
    BY <1>3, <1>6, <2>1 DEF Safe, Owned, Bits
  <2> QED
    BY <1>2, <1>7, <1>8, <1>9, <1>12, <1>14, <2>2, <2>3, LoopStep
<1> QED
  BY <1>2, <1>7, <1>8, <1>9, <1>12, <1>14, LoopStep

(* The signaler is dispatched: no socket is concerned.                     *)
LEMMA SignalerKeeps ==
    ASSUME IInv, ExamineSignaler \/ OnEventSignaler
    PROVE  IInv'
<1>1. UNCHANGED <<dispatchers_, sockets, raced>>
  BY DEF ExamineSignaler, OnEventSignaler
<1>2. UNCHANGED <<fd, life, state_, enabled_events_, net, data, beating>>
  BY <1>1 DEF sockets
<1>3. Types
  BY DEF IInv
<1>4. /\ fdsRead' \subseteq fdsRead /\ fdsWrite' \subseteq fdsWrite
      /\ fdsRead \subseteq fdsRead' \cup {SignalFd} /\ fdsWrite \subseteq fdsWrite' \cup {SignalFd}
      /\ pc \in {"dispatch", "event"} /\ pc' \in {"dispatch", "event"}
      /\ pc = "event" => current = Signaler
      /\ pc' = "event" => current' = Signaler
  BY DEF ExamineSignaler, OnEventSignaler, Goto, ClearBits, GetDescriptor
<1>5. Types'
  <2>1. CASE ExamineSignaler
    <3>1. current' = Signaler /\ ff' \subseteq Event /\ fSignaled_' = FALSE /\ pc' \in Points
      BY <2>1 DEF ExamineSignaler, Event, Goto, Points
    <3> QED
      BY <1>2, <1>3, <1>4, <2>1, <3>1 DEF ExamineSignaler, Types
  <2>2. CASE OnEventSignaler
    BY <1>2, <1>3, <2>2 DEF OnEventSignaler, Types, Points, Goto
  <2> QED
    BY <2>1, <2>2
<1>6. \A t \in Sockets : ~Handling(t) /\ ~Handling(t)'
  BY <1>4, Numbers DEF Handling
<1>7. Sets'
  BY <1>4 DEF Sets
<1>8. \A t \in Sockets : fd[t] # SignalFd
  BY <1>3, Numbers DEF Types
<1>9. \A t \in Sockets : /\ fd[t] \in fdsRead' <=> fd[t] \in fdsRead
                         /\ fd[t] \in fdsWrite' <=> fd[t] \in fdsWrite
  BY <1>4, <1>8
<1>10. \A t \in Sockets : life[t] = "closing" => fd[t] \notin Bits'
  BY <1>9 DEF IInv, Quiet, Bits
<1>11. CASE ~raced
  <2>1. Safe
    BY <1>11 DEF IInv
  <2>2. ASSUME NEW t \in Sockets
        PROVE  /\ Marks(t)'
               /\ (state_[t] = "CS_CONNECTING" /\ fd[t] \in fdsRead') => fd[t] \in fdsWrite'
    <3>1. Marks(t) /\ Dialing(t) /\ (Writable(t)' <=> Writable(t))
      BY <1>2, <2>1 DEF Safe, Honest, Writable
    <3> QED
      BY <1>2, <1>4, <1>9, <3>1 DEF Marks, Dialing, Bits
  <2>3. Owned'
    BY <1>2, <1>4, <2>1 DEF Safe, Owned, Bits
  <2>4. pc' # "failed"
    BY <1>4
  <2> QED
    BY <1>1, <1>5, <1>6, <1>7, <1>10, <1>11, <2>2, <2>3, <2>4, LoopStep
<1> QED
  BY <1>1, <1>5, <1>6, <1>7, <1>10, <1>11, LoopStep

(* What the events of a marked socket say of it, before and after the      *)
(* error is reaped.                                                        *)
LEMMA EventsSay ==
    ASSUME Types, NEW s \in Sockets, Marks(s), Dialing(s), pc = "dispatch", fd[s] \in Bits
    PROVE  /\ "CONNECT" \in EventsOf(s) => Reaped(s) \in Connected
           /\ "CLOSE" \in EventsOf(s) => Reaped(s) \in {"none", "eof", "reset"}
           /\ "READ" \in EventsOf(s) => "CLOSE" \notin EventsOf(s)
           /\ (state_[s] = "CS_CONNECTING") =>
                 "CONNECT" \in EventsOf(s) \/ "CLOSE" \in EventsOf(s)
<1>1. fd[s] \in fdsWrite => Writable(s)
  BY DEF Marks
<1>2. state_[s] = "CS_CONNECTING" => "CONNECT" \in enabled_events_[s] /\ fd[s] \in fdsWrite
  BY DEF Dialing, Bits
<1>3. /\ "CONNECT" \in EventsOf(s) <=>
            (fd[s] \in fdsWrite /\ "CONNECT" \in enabled_events_[s] /\ ~Error(s))
      /\ "READ" \in EventsOf(s) <=> (fd[s] \in fdsRead /\ ~Error(s) /\ ~IsDescriptorClosed(s))
      /\ "CLOSE" \in EventsOf(s) <=>
            \/ fd[s] \in fdsRead /\ (Error(s) \/ IsDescriptorClosed(s))
            \/ fd[s] \in fdsWrite /\ "CONNECT" \in enabled_events_[s] /\ Error(s)
  BY DEF EventsOf
<1>4. /\ Error(s) => Reaped(s) \in {"none", "eof"}
      /\ IsDescriptorClosed(s) => net[s] = "eof" /\ Reaped(s) = "eof"
      /\ ~Error(s) => Reaped(s) = net[s]
  BY DEF Error, Reaped, IsDescriptorClosed
<1> QED
  BY <1>1, <1>2, <1>3, <1>4 DEF Writable, Error, Connected

(* A marked socket is examined.                                            *)
LEMMA ExamineSocketKeeps ==
    ASSUME IInv, ExamineSocket
    PROVE  IInv'
<1>1. Types /\ List /\ Descriptors
  BY DEF IInv
<1>2. PICK s \in Listed : s = NextMarked /\ Marked(s)
  BY <1>1, NextIsMarked DEF ExamineSocket
<1>3. /\ pc = "dispatch" /\ pc' = "event" /\ current' = s /\ ff' = EventsOf(s)
      /\ fdsRead' = fdsRead \ {GetDescriptor(s)} /\ fdsWrite' = fdsWrite \ {GetDescriptor(s)}
      /\ net' = [net EXCEPT ![s] = Reaped(s)]
      /\ state_' = [state_ EXCEPT ![s] = IF "CLOSE" \in EventsOf(s) THEN "CS_CLOSED"
                                         ELSE IF "CONNECT" \in EventsOf(s) THEN "CS_CONNECTED"
                                         ELSE @]
      /\ UNCHANGED <<dispatchers_, fd, life, enabled_events_, beating, data, fSignaled_, fWait_,
                     polled, finite, reconnecting, raced>>
  BY <1>2 DEF ExamineSocket, Goto, ClearBits
<1>4. s \in Sockets /\ life[s] \in InServer /\ s # Signaler /\ fd[s] \in Bits
  BY <1>2, Numbers DEF Listed, Marked, GetDescriptor, Bits
<1>5. fdsRead' = fdsRead \ {fd[s]} /\ fdsWrite' = fdsWrite \ {fd[s]} /\ Bits' = Bits \ {fd[s]}
  BY <1>3, <1>4 DEF GetDescriptor, Bits
<1>6. /\ net'[s] = Reaped(s)
      /\ state_'[s] = IF "CLOSE" \in EventsOf(s) THEN "CS_CLOSED"
                      ELSE IF "CONNECT" \in EventsOf(s) THEN "CS_CONNECTED" ELSE state_[s]
      /\ \A t \in Sockets \ {s} : net'[t] = net[t] /\ state_'[t] = state_[t]
  BY <1>3, <1>1, <1>4 DEF Types
<1>7. Types'
  <2>1. Reaped(s) \in Nets
    BY <1>1, <1>4 DEF Reaped, Types, Nets
  <2>2. EventsOf(s) \subseteq Event
    BY DEF EventsOf, Event
  <2>3. net' \in [Sockets -> Nets] /\ state_' \in [Sockets -> States]
    BY <1>3, <1>1, <1>4, <2>1 DEF Types, States
  <2> QED
    BY <1>3, <1>1, <1>4, <1>5, <2>2, <2>3 DEF Types, Points
<1>8. List' /\ Descriptors'
  BY <1>3, <1>1, ListSame, DescriptorsSame
<1>9. Sets'
  BY <1>3 DEF Sets
<1>10. \A t \in Sockets : ~Handling(t) /\ (Handling(t)' <=> t = s)
  BY <1>3 DEF Handling
<1>11. \A t \in Sockets : Quiet(t)'
  <2> TAKE t \in Sockets
  <2>1. Quiet(t) /\ Quiet(s)
    BY <1>4 DEF IInv
  <2>2. life[s] # "closing"
    BY <1>4, <2>1 DEF Quiet
  <2> QED
    BY <1>3, <1>4, <1>5, <1>10, <2>1, <2>2 DEF Quiet
<1>12. CASE ~raced
  <2>1. Safe
    BY <1>12 DEF IInv
  <2>2. \A t \in Sockets \ {s} : fd[t] \in Bits => fd[t] # fd[s]
    BY <1>1, <1>4, Numbers DEF Descriptors, Types, Bits
  <2>3. ASSUME NEW t \in Sockets \ {s} PROVE Honest(t)'
    <3>1. Marks(t) /\ Dialing(t) /\ Asking(t) /\ Flow(t)
      BY <2>1 DEF Safe, Honest
    <3>2. Writable(t)' <=> Writable(t)
      BY <1>6 DEF Writable
    <3>3. Marks(t)'
      BY <1>3, <1>5, <1>6, <3>1, <3>2 DEF Marks
    <3>4. Dialing(t)'
      BY <1>3, <1>5, <1>6, <1>10, <2>2, <3>1 DEF Dialing, Bits
    <3>5. Asking(t)'
      BY <1>3, <1>6, <1>10, <3>1 DEF Asking
    <3>6. Flow(t)'
      BY <1>3, <1>6, <3>1 DEF Flow
    <3>7. Told(t)'
      BY <1>10 DEF Told
    <3> QED
      BY <3>3, <3>4, <3>5, <3>6, <3>7 DEF Honest
  <2>4. Honest(s)'
    <3>1. Marks(s) /\ Dialing(s) /\ Asking(s) /\ Flow(s)
      BY <1>4, <2>1 DEF Safe, Honest
    <3>2. /\ "CONNECT" \in EventsOf(s) => Reaped(s) \in Connected
          /\ "CLOSE" \in EventsOf(s) => Reaped(s) \in {"none", "eof", "reset"}
          /\ "READ" \in EventsOf(s) => "CLOSE" \notin EventsOf(s)
          /\ (state_[s] = "CS_CONNECTING") =>
                "CONNECT" \in EventsOf(s) \/ "CLOSE" \in EventsOf(s)
      BY <1>3, <1>1, <1>4, <3>1, EventsSay
    <3>3. life[s] \in Bound /\ state_[s] # "CS_CLOSED"
      BY <1>4, <3>1 DEF Marks
    <3>4. Marks(s)'
      <4>1. fd'[s] \notin Bits' /\ fd'[s] \notin fdsWrite'
        BY <1>3, <1>5
      <4> QED
        BY <4>1 DEF Marks
    <3>5. state_'[s] # "CS_CONNECTING"
      BY <1>6, <3>2
    <3>6. Dialing(s)'
      BY <3>5 DEF Dialing
    <3>7. Asking(s)'
      BY <1>3, <1>4, <1>10, <3>3 DEF Asking
    <3>8. Flow(s)'
      <4>1. net[s] \in Connected => Reaped(s) \in Connected
        BY DEF Connected, Reaped
      <4>2. life[s] \notin {"fresh", "made", "added"}
        BY <3>3 DEF Bound
      <4> QED
        BY <1>3, <1>6, <3>1, <4>1, <4>2 DEF Flow
    <3>9. Told(s)'
      <4>1. state_[s] = "CS_CONNECTING" \/ state_[s] = "CS_CONNECTED"
        BY <1>1, <1>4, <3>3 DEF Types, States
      <4>2. "READ" \in EventsOf(s) => state_'[s] = "CS_CONNECTED"
        BY <1>6, <3>2, <4>1
      <4>3. "CLOSE" \in EventsOf(s) <=> state_'[s] = "CS_CLOSED"
        BY <1>6, <3>3
      <4> QED
        BY <1>3, <1>6, <3>2, <3>3, <4>2, <4>3 DEF Told
    <3> QED
      BY <3>4, <3>6, <3>7, <3>8, <3>9 DEF Honest
  <2>5. Owned'
    BY <1>3, <1>5, <2>1 DEF Safe, Owned
  <2>6. pc' # "failed"
    BY <1>3
  <2> QED
    BY <1>7, <1>8, <1>9, <1>11, <2>3, <2>4, <2>5, <2>6 DEF IInv, Safe
<1> QED
  BY <1>3, <1>7, <1>8, <1>9, <1>11, <1>12 DEF IInv

(* OnEvent of a socket, with what its session does in it.                  *)
LEMMA OnEventSocketKeeps ==
    ASSUME IInv, NEW s \in Sockets, OnEventSocket(s)
    PROVE  IInv'
<1> DEFINE bound == life[s] \in {"live", "closing"}
           reads == "READ" \in ff /\ bound
<1>1. /\ pc = "event" /\ pc' = "dispatch" /\ current = s /\ current' = Signaler /\ ff' = {}
      /\ enabled_events_' = [enabled_events_ EXCEPT ![s] = EventsLeft(s, bound)]
      /\ data' = [data EXCEPT ![s] = @ /\ ~reads]
      /\ net' = [net EXCEPT ![s] = IF reads THEN Reaped(s) ELSE @]
      /\ beating' = [beating EXCEPT ![s] = @ \/ ("CONNECT" \in ff /\ bound)]
      /\ fSignaled_' = (fSignaled_ \/ ("CONNECT" \in ff /\ bound))
      /\ life' = [life EXCEPT ![s] = IF "CLOSE" \in ff /\ bound THEN "closing" ELSE @]
      /\ UNCHANGED <<dispatchers_, fd, state_, fWait_, fdsRead, fdsWrite, polled,
                     finite, reconnecting, raced>>
  BY DEF OnEventSocket, Goto
<1>2. Types /\ List /\ Descriptors /\ Handling(s) /\ Quiet(s)
  BY <1>1 DEF IInv, Handling
<1>3. life[s] \in InServer \ {"closing"} /\ fd[s] \notin Bits
  BY <1>2 DEF Quiet
<1>4. EventsLeft(s, bound) \subseteq Event /\ ("CLOSE" \in ff => EventsLeft(s, bound) = {})
  BY <1>2 DEF EventsLeft, Types, Event
<1>5. /\ enabled_events_'[s] = EventsLeft(s, bound)
      /\ \A t \in Sockets \ {s} : enabled_events_'[t] = enabled_events_[t]
      /\ enabled_events_' \in [Sockets -> SUBSET Event]
  <2> HIDE DEF bound
  <2> QED
    BY <1>1, <1>2, <1>4 DEF Types
<1>6. /\ data'[s] = (data[s] /\ ~reads)
      /\ \A t \in Sockets \ {s} : data'[t] = data[t]
      /\ data' \in [Sockets -> BOOLEAN]
  <2> HIDE DEF reads
  <2> QED
    BY <1>1, <1>2 DEF Types
<1>7. /\ net'[s] = IF reads THEN Reaped(s) ELSE net[s]
      /\ \A t \in Sockets \ {s} : net'[t] = net[t]
      /\ net' \in [Sockets -> Nets]
  <2>1. Reaped(s) \in Nets
    BY <1>2 DEF Reaped, Types, Nets
  <2> HIDE DEF reads
  <2> QED
    BY <1>1, <1>2, <2>1 DEF Types
<1>8. beating' \in [Sockets -> BOOLEAN] /\ fSignaled_' \in BOOLEAN
  <2> HIDE DEF bound
  <2> QED
    BY <1>1, <1>2 DEF Types
<1>9. /\ life'[s] = IF "CLOSE" \in ff /\ bound THEN "closing" ELSE life[s]
      /\ \A t \in Sockets \ {s} : life'[t] = life[t]
      /\ life' \in [Sockets -> Life]
  <2> HIDE DEF bound
  <2> QED
    BY <1>1, <1>2 DEF Types, Life
<1>10. Types'
  BY <1>1, <1>2, <1>5, <1>6, <1>7, <1>8, <1>9 DEF Types, Points
<1>11. List' /\ Descriptors'
  <2>1. \A t \in Sockets : /\ life'[t] \in InServer <=> life[t] \in InServer
                           /\ life'[t] \in Closed <=> life[t] \in Closed
    BY <1>3, <1>9 DEF InServer, Closed
  <2> QED
    BY <1>1, <1>2, <2>1, ListSame, DescriptorsSame
<1>12. Sets'
  BY <1>1 DEF Sets
<1>13. /\ \A t \in Sockets : ~Handling(t)' /\ (Handling(t) <=> t = s)
       /\ Bits' = Bits
  BY <1>1 DEF Handling, Bits
<1>14. \A t \in Sockets : Quiet(t)'
  <2> TAKE t \in Sockets
  <2>1. CASE t = s
    BY <1>1, <1>3, <1>4, <1>5, <1>9, <1>13, <2>1 DEF Quiet
  <2>2. CASE t # s
    <3>1. Quiet(t)
      BY DEF IInv
    <3> QED
      BY <1>1, <1>5, <1>9, <1>13, <2>2, <3>1 DEF Quiet
  <2> QED
    BY <2>1, <2>2
<1>15. CASE ~raced
  <2>1. Safe
    BY <1>15 DEF IInv
  <2>2. ASSUME NEW t \in Sockets \ {s} PROVE Honest(t)'
    <3>1. Marks(t) /\ Dialing(t) /\ Asking(t) /\ Flow(t)
      BY <2>1 DEF Safe, Honest
    <3>2. Writable(t)' <=> Writable(t)
      BY <1>7 DEF Writable
    <3>3. Marks(t)'
      BY <1>1, <1>9, <1>13, <3>1, <3>2 DEF Marks
    <3>4. Dialing(t)'
      BY <1>1, <1>5, <1>7, <1>13, <3>1 DEF Dialing
    <3>5. Asking(t)'
      BY <1>1, <1>5, <1>9, <1>13, <3>1 DEF Asking
    <3>6. Flow(t)'
      BY <1>6, <1>7, <1>9, <3>1 DEF Flow
    <3>7. Told(t)'
      BY <1>13 DEF Told
    <3> QED
      BY <3>3, <3>4, <3>5, <3>6, <3>7 DEF Honest
  <2>3. Honest(s)'
    <3>1. Marks(s) /\ Dialing(s) /\ Asking(s) /\ Flow(s) /\ Told(s)
      BY <2>1 DEF Safe, Honest
    <3>2. /\ life[s] \in Bound /\ state_[s] # "CS_CONNECTING"
          /\ "CLOSE" \in ff <=> state_[s] = "CS_CLOSED"
      BY <1>2, <3>1 DEF Told, Dialing
    <3>3. Marks(s)'
      <4>1. fd'[s] \notin Bits' /\ fd'[s] \notin fdsWrite'
        BY <1>1, <1>3, <1>13 DEF Bits
      <4> QED
        BY <4>1 DEF Marks
    <3>4. Dialing(s)' /\ Told(s)'
      BY <1>1, <1>13, <3>2 DEF Dialing, Told
    <3>5. Asking(s)'
      <4>1. CASE "CLOSE" \in ff
        BY <1>4, <1>5, <4>1 DEF Asking
      <4>2. CASE "CLOSE" \notin ff
        BY <1>1, <1>9, <3>2, <4>2 DEF Asking
      <4> QED
        BY <4>1, <4>2
    <3>6. Flow(s)'
      <4>1. life'[s] \notin {"fresh", "made", "added"}
        BY <1>9, <3>2 DEF Bound
      <4>2. data'[s] => net'[s] \in Connected
        <5>1. CASE reads
          BY <1>6, <5>1
        <5>2. CASE ~reads
          <6>1. net'[s] = net[s] /\ data'[s] = data[s]
            <7>1. data[s] \in BOOLEAN
              BY <1>2 DEF Types
            <7> QED
              BY <1>6, <1>7, <5>2, <7>1
          <6> QED
            BY <3>1, <6>1 DEF Flow
        <5> QED
          BY <5>1, <5>2
      <4> QED
        BY <4>1, <4>2 DEF Flow
    <3> QED
      BY <3>3, <3>4, <3>5, <3>6 DEF Honest
  <2>4. Owned'
    BY <1>1, <1>13, <2>1 DEF Safe, Owned
  <2>5. pc' # "failed"
    BY <1>1
  <2> QED
    BY <1>10, <1>11, <1>12, <1>14, <2>2, <2>3, <2>4, <2>5 DEF IInv, Safe
<1> QED
  BY <1>1, <1>10, <1>11, <1>12, <1>14, <1>15 DEF IInv

(* OnEvent reaches a socket whose destructor has begun: after the race     *)
(* only.                                                                   *)
LEMMA OnEventDyingKeeps ==
    ASSUME IInv, NEW s \in Sockets, OnEventDying(s)
    PROVE  IInv'
<1>1. /\ UNCHANGED <<dispatchers_, sockets, fSignaled_, fWait_, fdsRead, fdsWrite, polled,
                     finite, current, ff, reconnecting, raced>>
      /\ Handling(s) /\ life[s] = "dying" /\ pc' = "failed"
  BY DEF OnEventDying, Goto, Handling
<1>2. UNCHANGED <<fd, life, state_, enabled_events_, net, data, beating>> /\ Bits' = Bits
  BY <1>1 DEF sockets, Bits
<1>3. raced
  BY <1>1 DEF IInv, Safe, Honest, Told, Bound
<1>4. Types'
  BY <1>1, <1>2 DEF IInv, Types, Points
<1>5. List' /\ Descriptors' /\ Sets'
  BY <1>1, <1>2, ListSame, DescriptorsSame DEF IInv, Sets
<1>6. \A t \in Sockets : ~Handling(t)'
  BY <1>1 DEF Handling
<1>7. \A t \in Sockets : Quiet(t)'
  BY <1>2, <1>6 DEF IInv, Quiet
<1> QED
  BY <1>1, <1>3, <1>4, <1>5, <1>7 DEF IInv
-----------------------------------------------------------------------------
(* It holds at the beginning.                                              *)
LEMMA Initially == Init => IInv
<1> SUFFICES ASSUME Init PROVE IInv
  OBVIOUS
<1>1. Types
  BY DEF Init, Types, Life, States, Nets, Points, Event
<1>2. \A s \in Sockets : /\ fd[s] = NoFd /\ life[s] = "fresh" /\ state_[s] = "CS_CLOSED"
                         /\ enabled_events_[s] = {} /\ net[s] = "none" /\ data[s] = FALSE
  BY DEF Init
<1>3. Bits = {} /\ pc = "out"
  BY DEF Init, Bits
<1>4. List
  <2>1. Listed = {}
    BY <1>2 DEF Listed, InServer
  <2>2. DOMAIN dispatchers_ = {1} /\ dispatchers_[1] = Signaler /\ dispatchers_ # <<>>
    BY DEF Init
  <2>3. dispatchers_ \in Seq(Sockets \cup {Signaler})
    BY DEF Init
  <2> QED
    BY <2>1, <2>2, <2>3, Numbers DEF List, ListOf
<1>5. Descriptors /\ Sets
  BY <1>2, <1>3 DEF Descriptors, Sets, Closed
<1>6. \A s \in Sockets : ~Handling(s)
  BY <1>3 DEF Handling
<1>7. \A s \in Sockets : Quiet(s)
  BY <1>2, <1>6 DEF Quiet
<1>8. \A s \in Sockets : Honest(s)
  BY <1>2, <1>3, <1>6 DEF Honest, Marks, Dialing, Asking, Flow, Told, Bits
<1>9. Owned
  BY <1>3 DEF Owned
<1> QED
  BY <1>1, <1>3, <1>4, <1>5, <1>7, <1>8, <1>9 DEF IInv, Safe

(* Every step keeps it.                                                    *)
LEMMA EveryStep == IInv /\ [Next]_vars => IInv'
<1> SUFFICES ASSUME IInv, [Next]_vars PROVE IInv'
  OBVIOUS
<1>1. CASE Loop
  <2>1. CASE WaitEnter \/ LockDispatchers \/ EndRound
    BY <2>1, WaitKeeps
  <2>2. CASE FillSets
    BY <2>2, FillSetsKeeps
  <2>3. CASE SelectEnter
    BY <2>3, SelectEnterKeeps
  <2>4. CASE ExamineSignaler \/ OnEventSignaler
    BY <2>4, SignalerKeeps
  <2>5. CASE ExamineSocket
    BY <2>5, ExamineSocketKeeps
  <2>6. ASSUME NEW s \in Sockets, OnEventSocket(s) PROVE IInv'
    BY <2>6, OnEventSocketKeeps
  <2>7. ASSUME NEW s \in Sockets, OnEventDying(s) PROVE IInv'
    BY <2>7, OnEventDyingKeeps
  <2> QED
    BY <1>1, <2>1, <2>2, <2>3, <2>4, <2>5, <2>6, <2>7 DEF Loop
<1>2. CASE SelectReturn
  BY <1>2, SelectReturnKeeps
<1>3. CASE SelectTimeout \/ SelectInterrupted
  BY <1>3, WaitKeeps
<1>4. CASE AsyncHandlers
  <2>1. PICK s \in Sockets : \/ \E r \in Connects : Start(s, r)
                             \/ Stop(s) \/ HeartbeatTimeout(s) \/ SendBlocks(s)
    BY <1>4 DEF AsyncHandlers
  <2> QED
    BY <2>1, StartKeeps, StopKeeps, HeartbeatTimeoutKeeps, SendBlocksKeeps
<1>5. CASE QueueThread
  <2>1. CASE FirstReconnect
    BY <2>1, WakeUpKeeps
  <2>2. ASSUME NEW s \in Sockets,
               \/ QueueSocket(s) \/ QueueAdd(s) \/ \E r \in Connects : QueueConnect(s, r)
               \/ QueueRemoveSession(s) \/ QueueRemove(s) \/ QueueClose(s)
        PROVE  IInv'
    BY <2>2, QueueSocketKeeps, QueueAddKeeps, QueueConnectKeeps, QueueRemoveSessionKeeps,
       QueueRemoveKeeps, QueueCloseKeeps
  <2> QED
    BY <1>5, <2>1, <2>2 DEF QueueThread
<1>6. CASE WakeUp
  BY <1>6, WakeUpKeeps
<1>7. CASE Network
  <2>1. PICK s \in Sockets :
          Accepted(s) \/ Refused(s) \/ PeerCloses(s) \/ PeerResets(s) \/ Arrives(s)
    BY <1>7 DEF Network
  <2>2. CASE Accepted(s) \/ Refused(s)
    BY <2>2, NetKeeps DEF Accepted, Refused
  <2>3. CASE PeerCloses(s)
    BY <2>3, NetKeeps DEF PeerCloses
  <2>4. CASE PeerResets(s)
    BY <2>4, NetKeeps DEF PeerResets
  <2>5. CASE Arrives(s)
    BY <2>5, ArrivesKeeps
  <2> QED
    BY <2>1, <2>2, <2>3, <2>4, <2>5
<1>8. CASE UNCHANGED vars
  <2>1. /\ UNCHANGED <<fd, life, state_, enabled_events_, beating, net, data, polled, dispatchers_,
                       raced, fWait_, finite, fSignaled_, reconnecting>>
        /\ StillWait
    BY <1>8 DEF vars, sockets, wait, StillWait
  <2>2. Types'
    BY <2>1 DEF IInv, Types, StillWait
  <2> QED
    BY <2>1, <2>2, NoSocketStep
<1> QED
  BY <1>1, <1>2, <1>3, <1>4, <1>5, <1>6, <1>7, <1>8 DEF Next

(* So it is an invariant.                                                  *)
LEMMA Invariance == Spec => []IInv
  BY Initially, EveryStep, PTL DEF Spec

(* However sessions are opened, closed and removed by the two threads, the *)
(* server's list names exactly the sockets that were added and not removed,*)
(* each once, and no two open sockets share a descriptor.                  *)
THEOREM TypeCorrectSockets == Spec => []TypeOK
<1>1. IInv => TypeOK
  <2> SUFFICES ASSUME IInv PROVE TypeOK
    OBVIOUS
  <2>0. Types /\ List /\ Descriptors
    BY DEF IInv
  <2>1. /\ dispatchers_ \in Seq(Sockets \cup {Signaler}) /\ dispatchers_ # <<>>
        /\ Len(dispatchers_) \in Nat /\ DOMAIN dispatchers_ = 1 .. Len(dispatchers_)
        /\ dispatchers_[1] = Signaler
        /\ \A i, j \in DOMAIN dispatchers_ : dispatchers_[i] = dispatchers_[j] => i = j
        /\ \A s \in Sockets : s \in Listed <=> \E i \in DOMAIN dispatchers_ : dispatchers_[i] = s
    BY <2>0 DEF List, ListOf
  <2>2. Head(dispatchers_) = Signaler /\ IsInjective(dispatchers_)
    BY <2>1 DEF IsInjective
  <2>3. Range(Tail(dispatchers_)) = Listed
    <3> DEFINE tl == Tail(dispatchers_)
    <3>1. /\ DOMAIN tl = 1 .. Len(dispatchers_) - 1
          /\ \A i \in DOMAIN tl : tl[i] = dispatchers_[i + 1]
      BY <2>1
    <3> HIDE DEF tl
    <3>2. ASSUME NEW i \in DOMAIN tl PROVE tl[i] \in Listed
      <4>1. i + 1 \in DOMAIN dispatchers_ /\ i + 1 # 1 /\ 1 \in DOMAIN dispatchers_
        BY <2>1, <3>1
      <4>2. dispatchers_[i + 1] \in Sockets
        <5>1. dispatchers_[i + 1] \in Sockets \cup {Signaler}
          BY <2>1, <4>1
        <5> QED
          BY <2>1, <4>1, <5>1
      <4> QED
        BY <2>1, <3>1, <4>1, <4>2
    <3>3. ASSUME NEW s \in Listed PROVE \E i \in DOMAIN tl : tl[i] = s
      <4>1. s \in Sockets /\ s # Signaler
        BY Numbers DEF Listed
      <4>2. PICK j \in DOMAIN dispatchers_ : dispatchers_[j] = s
        BY <2>1, <4>1
      <4>3. j # 1
        BY <2>1, <4>1, <4>2
      <4>4. j - 1 \in DOMAIN tl /\ (j - 1) + 1 = j
        BY <2>1, <3>1, <4>3
      <4> QED
        BY <3>1, <4>2, <4>4
    <3>4. Range(tl) = Listed
      BY <3>2, <3>3 DEF Range
    <3> QED
      BY <3>4 DEF tl
  <2>4. \A s, t \in Open : fd[s] = fd[t] => s = t
    BY <2>0 DEF Descriptors, Open, Closed
  <2>5. {fSignaled_, fWait_, finite, reconnecting, raced} \subseteq BOOLEAN
    BY <2>0 DEF Types
  <2>6. fdsRead \cup fdsWrite \subseteq {SignalFd} \cup Fds /\ polled \subseteq Sockets
    BY <2>0 DEF Types
  <2>7. state_ \in [Sockets -> {"CS_CLOSED", "CS_CONNECTING", "CS_CONNECTED"}]
    BY <2>0 DEF Types, States
  <2>8. /\ fd \in [Sockets -> {NoFd} \cup Fds] /\ life \in [Sockets -> Life]
        /\ enabled_events_ \in [Sockets -> SUBSET Event]
        /\ beating \in [Sockets -> BOOLEAN] /\ data \in [Sockets -> BOOLEAN]
        /\ net \in [Sockets -> {"none", "dialing", "refused", "up", "eof", "reset"}]
        /\ pc \in {"out", "fill", "select", "blocked", "ready", "dispatch", "event", "failed"}
        /\ current \in Sockets \cup {Signaler} /\ ff \subseteq Event
    BY <2>0 DEF Types, Nets, Points
  <2> QED
    BY <2>2, <2>3, <2>4, <2>5, <2>6, <2>7, <2>8 DEF TypeOK, Listed
<1> QED
  BY <1>1, Invariance, PTL

(* A socket that signalled its close event never gets another event, not   *)
(* even after the race: its bits were cleared before, and it asks for none.*)
THEOREM ClosedIsQuietHolds == Spec => []ClosedIsQuiet
<1>1. IInv => ClosedIsQuiet
  BY DEF IInv, Quiet, ClosedIsQuiet
<1> QED
  BY <1>1, Invariance, PTL

(* For any number of sessions, and however descriptors are used again, the *)
(* events given to a socket are true of its own connection, unless the     *)
(* queue thread destroyed a socket that was still waited for.              *)
THEOREM EventsTrueHolds == Spec => []EventsTrue
<1>1. IInv => EventsTrue
  BY DEF IInv, Safe, Honest, Told, EventsTrue, Connected
<1> QED
  BY <1>1, Invariance, PTL

(* Wait fails, by EBADF or by an event for a dying socket, only when the   *)
(* queue thread tore down a socket whose heartbeats had timed out.         *)
THEOREM FailsOnlyByRaceHolds == Spec => []FailsOnlyByRace
<1>1. IInv => FailsOnlyByRace
  BY DEF IInv, Safe, FailsOnlyByRace
<1> QED
  BY <1>1, Invariance, PTL
=============================================================================
