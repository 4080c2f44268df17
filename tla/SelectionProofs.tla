-------------------------- MODULE SelectionProofs --------------------------
(***************************************************************************)
(* What Selected returns, for lists of every length.  The library's        *)
(* induction rules take an operator as a parameter; here a statement about *)
(* every prefix of a list is proved from its least counterexample instead. *)
(***************************************************************************)
EXTENDS Selection, TLAPS, WellFoundedInduction

(* A set of naturals that is not empty has a smallest element.             *)
LEMMA Smallest ==
    ASSUME NEW S, S \subseteq Nat, S # {}
    PROVE  \E n \in S : \A m \in S : n <= m
<1>1. PICK n \in S : \A m \in S : <<m, n>> \notin OpToRel(<, Nat)
  <2>1. IsWellFoundedOn(OpToRel(<, Nat), Nat)
    BY NatLessThanWellFounded
  <2> QED
    BY <2>1, WFMin
<1>2. \A m \in S : ~(m < n)
  BY <1>1, S \subseteq Nat DEF OpToRel
<1> QED
  BY <1>2, S \subseteq Nat

(* f is the function upTo of Selected, as far as n.                        *)
Follows(f, s, keep, n) ==
    f = [i \in 0 .. n |->
            IF i = 0 THEN <<>>
            ELSE IF s[i] \in keep THEN Append(f[i - 1], s[i]) ELSE f[i - 1]]

(* There is such a function: Selected is defined for every list.           *)
LEMMA UpToExists ==
    ASSUME NEW S, NEW s \in Seq(S), NEW keep, NEW n \in 0 .. Len(s)
    PROVE  \E f : Follows(f, s, keep, n)
<1> DEFINE Bad == {m \in 0 .. Len(s) : ~ \E f : Follows(f, s, keep, m)}
<1> SUFFICES ASSUME Bad # {} PROVE FALSE
  OBVIOUS
<1>0. Len(s) \in Nat
  OBVIOUS
<1>1. PICK m \in Bad : \A k \in Bad : m <= k
  <2>1. Bad \subseteq Nat
    BY <1>0
  <2> HIDE DEF Bad
  <2> QED
    BY <2>1, Smallest
<1>2. m \in 0 .. Len(s)
  OBVIOUS
<1>3. CASE m = 0
  <2> DEFINE f == [i \in 0 .. 0 |-> <<>>]
  <2>1. f = [i \in 0 .. 0 |->
            IF i = 0 THEN <<>>
            ELSE IF s[i] \in keep THEN Append(f[i - 1], s[i]) ELSE f[i - 1]]
    OBVIOUS
  <2>2. Follows(f, s, keep, 0)
    BY <2>1 DEF Follows
  <2> QED
    BY <2>2, <1>3
<1>4. CASE m # 0
  <2>1. m - 1 \in 0 .. Len(s) /\ m - 1 \notin Bad
    <3>1. m - 1 \in 0 .. Len(s) /\ ~(m <= m - 1)
      BY <1>0, <1>2, <1>4
    <3> HIDE DEF Bad
    <3> QED
      BY <3>1, <1>1
  <2>2. PICK f : Follows(f, s, keep, m - 1)
    BY <2>1
  <2> DEFINE g == [i \in 0 .. m |->
            IF i = m THEN IF s[m] \in keep THEN Append(f[m - 1], s[m]) ELSE f[m - 1]
            ELSE f[i]]
  <2>3. ASSUME NEW i \in 0 .. m
        PROVE  g[i] = IF i = 0 THEN <<>>
            ELSE IF s[i] \in keep THEN Append(g[i - 1], s[i]) ELSE g[i - 1]
    <3>1. CASE i = m
      <4>1. m - 1 \in 0 .. m /\ m - 1 # m
        BY <1>2, <1>0, <1>4
      <4>2. g[m - 1] = f[m - 1]
        BY <4>1
      <4>3. g[m] = IF s[m] \in keep THEN Append(f[m - 1], s[m]) ELSE f[m - 1]
        OBVIOUS
      <4> HIDE DEF g
      <4> QED
        BY <4>2, <4>3, <3>1, <1>4
    <3>2. CASE i # m
      <4>1. i \in 0 .. m - 1 /\ m \in Nat /\ i \in Nat
        BY <1>2, <1>0, <3>2
      <4>2. f[i] = IF i = 0 THEN <<>>
            ELSE IF s[i] \in keep THEN Append(f[i - 1], s[i]) ELSE f[i - 1]
        BY <2>2, <4>1, Zenon DEF Follows
      <4>3. g[i] = f[i]
        BY <3>2
      <4>4. i # 0 => g[i - 1] = f[i - 1]
        <5>1. i # 0 => i - 1 \in 0 .. m /\ i - 1 # m
          BY <4>1
        <5> QED
          BY <5>1
      <4> HIDE DEF g
      <4> QED
        BY <4>2, <4>3, <4>4, Zenon
    <3> QED
      BY <3>1, <3>2
  <2>4. g = [i \in 0 .. m |->
            IF i = 0 THEN <<>>
            ELSE IF s[i] \in keep THEN Append(g[i - 1], s[i]) ELSE g[i - 1]]
    <3>1. g = [i \in 0 .. m |-> g[i]]
      OBVIOUS
    <3> HIDE DEF g
    <3> QED
      BY <3>1, <2>3, Zenon
  <2>5. Follows(g, s, keep, m)
    BY <2>4 DEF Follows
  <2> QED
    BY <2>5
<1> QED
  BY <1>3, <1>4

(* k is what s has in keep among its first n: e says where each of k's     *)
(* elements was, in order, and none is left out.                           *)
Places(e, s, keep, n, k) ==
    /\ e \in [1 .. Len(k) -> 1 .. n]
    /\ \A i \in 1 .. Len(k) : k[i] = s[e[i]] /\ s[e[i]] \in keep
    /\ \A i, j \in 1 .. Len(k) : i < j => e[i] < e[j]
    /\ \A m \in 1 .. n : s[m] \in keep => \E i \in 1 .. Len(k) : e[i] = m

(* An element that is not kept adds nothing, ...                           *)
LEMMA PlacesSame ==
    ASSUME NEW S, NEW s \in Seq(S), NEW keep, NEW n \in 1 .. Len(s), NEW k \in Seq(S), NEW e,
           Places(e, s, keep, n - 1, k), s[n] \notin keep
    PROVE  Places(e, s, keep, n, k)
<1>0. Len(k) \in Nat /\ Len(s) \in Nat /\ n \in Nat
  OBVIOUS
<1>1. e \in [1 .. Len(k) -> 1 .. n]
  BY <1>0 DEF Places
<1>2. \A m \in 1 .. n : m \in 1 .. n - 1 \/ m = n
  BY <1>0
<1>3. \A m \in 1 .. n : s[m] \in keep => \E i \in 1 .. Len(k) : e[i] = m
  BY <1>2 DEF Places
<1> QED
  BY <1>1, <1>3 DEF Places

(* ... and one that is kept adds its own place.                            *)
LEMMA PlacesMore ==
    ASSUME NEW S, NEW s \in Seq(S), NEW keep, NEW n \in 1 .. Len(s), NEW k \in Seq(S), NEW e,
           Places(e, s, keep, n - 1, k), s[n] \in keep
    PROVE  \E d : Places(d, s, keep, n, Append(k, s[n]))
<1> DEFINE l == Append(k, s[n])
           d == [i \in 1 .. Len(k) + 1 |-> IF i = Len(k) + 1 THEN n ELSE e[i]]
<1>0. Len(k) \in Nat /\ Len(s) \in Nat /\ n \in Nat /\ n >= 1
  OBVIOUS
<1>1. Len(l) = Len(k) + 1
  OBVIOUS
<1>2. \A i \in 1 .. Len(k) + 1 : i # Len(k) + 1 =>
        i \in 1 .. Len(k) /\ l[i] = k[i] /\ d[i] = e[i] /\ e[i] \in 1 .. n - 1
  <2> TAKE i \in 1 .. Len(k) + 1
  <2> HAVE i # Len(k) + 1
  <2>1. i \in 1 .. Len(k)
    BY <1>0
  <2>2. l[i] = k[i]
    BY <2>1
  <2> QED
    BY <2>1, <2>2 DEF Places
<1>3. l[Len(k) + 1] = s[n] /\ d[Len(k) + 1] = n
  BY <1>0
<1>4. DOMAIN d = 1 .. Len(k) + 1 /\ \A i \in 1 .. Len(k) + 1 : d[i] \in 1 .. n
  BY <1>0, <1>2, <1>3
<1>5. d \in [1 .. Len(l) -> 1 .. n]
  BY <1>1, <1>4
<1> HIDE DEF d, l
<1>6. \A i \in 1 .. Len(l) : l[i] = s[d[i]] /\ s[d[i]] \in keep
  BY <1>1, <1>2, <1>3 DEF Places
<1>7. \A i, j \in 1 .. Len(l) : i < j => d[i] < d[j]
  <2> TAKE i, j \in 1 .. Len(l)
  <2> HAVE i < j
  <2>1. i # Len(k) + 1
    BY <1>0, <1>1
  <2>2. CASE j = Len(k) + 1
    <3>1. e[i] \in 1 .. n - 1 /\ d[i] = e[i] /\ d[j] = n
      BY <2>1, <2>2, <1>1, <1>2, <1>3
    <3> QED
      BY <3>1, <1>0
  <2>3. CASE j # Len(k) + 1
    BY <2>1, <2>3, <1>1, <1>2 DEF Places
  <2> QED
    BY <2>2, <2>3
<1>8. ASSUME NEW m \in 1 .. n, s[m] \in keep PROVE \E i \in 1 .. Len(l) : d[i] = m
  <2>1. CASE m = n
    <3>1. Len(k) + 1 \in 1 .. Len(l)
      BY <1>0, <1>1
    <3> QED
      BY <3>1, <2>1, <1>3
  <2>2. CASE m # n
    <3>1. m \in 1 .. n - 1
      BY <1>0, <2>2
    <3>2. PICK i \in 1 .. Len(k) : e[i] = m
      BY <3>1, <1>8 DEF Places
    <3>3. i \in 1 .. Len(l) /\ i # Len(k) + 1
      BY <1>0, <1>1
    <3> QED
      BY <3>2, <3>3, <1>1, <1>2
  <2> QED
    BY <2>1, <2>2
<1>9. Places(d, s, keep, n, l)
  BY <1>5, <1>6, <1>7, <1>8 DEF Places
<1> QED
  BY <1>9 DEF l

(* Selected(s, keep) has the elements of s that are in keep, each as often *)
(* as s has it and in the order of s.                                      *)
LEMMA SelectedPlaces ==
    ASSUME NEW S, NEW s \in Seq(S), NEW keep
    PROVE  /\ Selected(s, keep) \in Seq(S)
           /\ \E e : Places(e, s, keep, Len(s), Selected(s, keep))
<1> DEFINE f == CHOOSE f : Follows(f, s, keep, Len(s))
           Good(n) == f[n] \in Seq(S) /\ \E e : Places(e, s, keep, n, f[n])
           Bad == {n \in 0 .. Len(s) : ~Good(n)}
<1>0. Len(s) \in Nat
  OBVIOUS
<1>1. Follows(f, s, keep, Len(s))
  <2>1. \E g : Follows(g, s, keep, Len(s))
    <3>1. Len(s) \in 0 .. Len(s)
      BY <1>0
    <3> QED
      BY <3>1, UpToExists
  <2> QED
    BY <2>1
<1>2. Selected(s, keep) = f[Len(s)]
  BY Zenon DEF Selected, Follows
<1>3. \A i \in 0 .. Len(s) : f[i] = IF i = 0 THEN <<>>
            ELSE IF s[i] \in keep THEN Append(f[i - 1], s[i]) ELSE f[i - 1]
  BY <1>1, Zenon DEF Follows
<1> HIDE DEF f
<1>4. ASSUME Bad # {} PROVE FALSE
  <2>1. PICK n \in Bad : \A m \in Bad : n <= m
    <3>1. Bad \subseteq Nat
      BY <1>0
    <3> HIDE DEF Bad
    <3> QED
      BY <3>1, <1>4, Smallest
  <2>2. n \in 0 .. Len(s) /\ ~Good(n)
    OBVIOUS
  <2>3. CASE n = 0
    <3>1. f[0] = <<>>
      BY <1>0, <1>3
    <3>2. f[0] \in Seq(S)
      BY <3>1
    <3>3. Places([i \in {} |-> 0], s, keep, 0, <<>>)
      <4>1. 1 .. Len(<<>>) = {} /\ 1 .. 0 = {}
        OBVIOUS
      <4> QED
        BY <4>1 DEF Places
    <3> QED
      BY <3>1, <3>2, <3>3, <2>2, <2>3
  <2>4. CASE n # 0
    <3>1. n - 1 \in 0 .. Len(s) /\ ~(n <= n - 1) /\ n \in 1 .. Len(s)
      BY <1>0, <2>2, <2>4
    <3>2. Good(n - 1)
      <4>1. n - 1 \notin Bad
        <5> HIDE DEF Bad
        <5> QED
          BY <3>1, <2>1
      <4> QED
        BY <3>1, <4>1
    <3>3. PICK e : Places(e, s, keep, n - 1, f[n - 1])
      BY <3>2
    <3>4. f[n] = IF s[n] \in keep THEN Append(f[n - 1], s[n]) ELSE f[n - 1]
      BY <3>1, <2>4, <1>3
    <3>5. s[n] \in S
      BY <3>1
    <3>6. CASE s[n] \in keep
      <4>1. \E d : Places(d, s, keep, n, Append(f[n - 1], s[n]))
        BY <3>1, <3>2, <3>3, <3>6, PlacesMore
      <4> QED
        BY <4>1, <3>2, <3>4, <3>5, <3>6, <2>2
    <3>7. CASE s[n] \notin keep
      <4>1. Places(e, s, keep, n, f[n - 1])
        BY <3>1, <3>2, <3>3, <3>7, PlacesSame
      <4> QED
        BY <4>1, <3>2, <3>4, <3>7, <2>2
    <3> QED
      BY <3>6, <3>7
  <2> QED
    BY <2>3, <2>4
<1>5. Good(Len(s))
  <2>1. Len(s) \in 0 .. Len(s)
    BY <1>0
  <2> QED
    BY <2>1, <1>4
<1> QED
  BY <1>2, <1>5

(* What is selected is in the list and to be kept, and nothing is lost.    *)
LEMMA SelectedElements ==
    ASSUME NEW S, NEW s \in Seq(S), NEW keep
    PROVE  /\ Selected(s, keep) \in Seq(S)
           /\ \A i \in DOMAIN Selected(s, keep) :
                 /\ Selected(s, keep)[i] \in keep
                 /\ \E j \in DOMAIN s : s[j] = Selected(s, keep)[i]
           /\ \A j \in DOMAIN s : s[j] \in keep =>
                 \E i \in DOMAIN Selected(s, keep) : Selected(s, keep)[i] = s[j]
<1> DEFINE k == Selected(s, keep)
<1>1. k \in Seq(S)
  BY SelectedPlaces
<1>2. PICK e : Places(e, s, keep, Len(s), k)
  BY SelectedPlaces
<1> HIDE DEF k
<1>3. DOMAIN s = 1 .. Len(s) /\ DOMAIN k = 1 .. Len(k)
  BY <1>1
<1>4. /\ e \in [1 .. Len(k) -> 1 .. Len(s)]
      /\ \A i \in 1 .. Len(k) : k[i] = s[e[i]] /\ s[e[i]] \in keep
      /\ \A m \in 1 .. Len(s) : s[m] \in keep => \E i \in 1 .. Len(k) : e[i] = m
  BY <1>2 DEF Places
<1>5. \A i \in DOMAIN k : k[i] \in keep /\ \E j \in DOMAIN s : s[j] = k[i]
  BY ONLY <1>3, <1>4
<1>6. \A j \in DOMAIN s : s[j] \in keep => \E i \in DOMAIN k : k[i] = s[j]
  <2> SUFFICES ASSUME NEW j \in DOMAIN s, s[j] \in keep
               PROVE  \E i \in DOMAIN k : k[i] = s[j]
    OBVIOUS
  <2>1. PICK i \in 1 .. Len(k) : e[i] = j
    BY <1>3, <1>4
  <2>2. k[i] = s[j] /\ i \in DOMAIN k
    BY <1>3, <1>4, <2>1
  <2> QED
    BY <2>2
<1> QED
  BY ONLY <1>1, <1>5, <1>6 DEF k

(* Two places of what is selected come from two places of the list, in the *)
(* same order.                                                             *)
LEMMA SelectedDistinct ==
    ASSUME NEW S, NEW s \in Seq(S), NEW keep, NEW i \in DOMAIN Selected(s, keep),
           NEW j \in DOMAIN Selected(s, keep), i # j
    PROVE  \E a, b \in DOMAIN s : /\ a # b /\ (i < j => a < b)
                                 /\ s[a] = Selected(s, keep)[i]
                                 /\ s[b] = Selected(s, keep)[j]
<1> DEFINE k == Selected(s, keep)
<1>1. k \in Seq(S)
  BY SelectedPlaces
<1>2. PICK e : Places(e, s, keep, Len(s), k)
  BY SelectedPlaces
<1>3. i \in DOMAIN k /\ j \in DOMAIN k
  OBVIOUS
<1> HIDE DEF k
<1>4. DOMAIN s = 1 .. Len(s) /\ DOMAIN k = 1 .. Len(k) /\ Len(k) \in Nat /\ Len(s) \in Nat
  BY <1>1
<1>5. e[i] \in DOMAIN s /\ e[j] \in DOMAIN s /\ k[i] = s[e[i]] /\ k[j] = s[e[j]]
  BY <1>2, <1>3, <1>4 DEF Places
<1>6. (i < j => e[i] < e[j]) /\ (j < i => e[j] < e[i])
  BY <1>2, <1>3, <1>4 DEF Places
<1>7. e[i] # e[j]
  BY <1>3, <1>4, <1>5, <1>6
<1> QED
  BY <1>5, <1>6, <1>7 DEF k
=============================================================================
