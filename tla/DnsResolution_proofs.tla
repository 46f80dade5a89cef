-------------------------- MODULE DnsResolution_proofs --------------------------
(* Lemmas about the sequence operators of DnsResolution, for sequences of any   *)
(* length: what Keep() and Dedup() leave, and of what type a lookup and the     *)
(* merge of two are.  A fold is unfolded from its definition: FoldLeft is       *)
(* MapThenFoldSet over the set of indices, whose recursive function exists by   *)
(* well-founded induction.                                                      *)
EXTENDS DnsResolution, Integers, FiniteSetTheorems, SequenceTheorems, WellFoundedInduction, TLAPS

(* Induction, with a set in the place of a predicate. *)

LEMMA WellFoundedMinimum ==
  ASSUME NEW R, IsWellFoundedOn(R, Nat), NEW T, T \subseteq Nat, T # {}
  PROVE  \E n \in T : \A m \in T : ~ (<<m, n>> \in R)
  BY WFMin, Zenon

(* Every set of numbers that is not empty has a least element. *)
LEMMA LeastElement ==
  ASSUME NEW T, T \subseteq Nat, T # {}
  PROVE  \E n \in T : \A m \in T : n <= m
<1>1. ASSUME NEW R, IsWellFoundedOn(R, Nat), \A m, n \in Nat : <<m, n>> \in R <=> m < n
      PROVE  \E n \in T : \A m \in T : n <= m
  <2>1. PICK n \in T : \A m \in T : ~ (<<m, n>> \in R)
    BY <1>1, WellFoundedMinimum
  <2>2. n \in Nat /\ \A m \in T : m \in Nat /\ ~(m < n)
    BY <1>1, <2>1
  <2> QED
    BY <2>2
<1> DEFINE R == OpToRel(<, Nat)
<1>2. IsWellFoundedOn(R, Nat)
  BY NatLessThanWellFounded
<1>3. \A m, n \in Nat : <<m, n>> \in R <=> m < n
  BY DEF OpToRel
<1> HIDE DEF R
<1> QED
  BY <1>1, <1>2, <1>3

(* A set of numbers with 0, and with n + 1 whenever it has n, is Nat. *)
LEMMA Induction ==
  ASSUME NEW T, 0 \in T, \A n \in Nat : n \in T => n + 1 \in T
  PROVE  Nat \subseteq T
<1> SUFFICES ASSUME Nat \ T # {} PROVE FALSE
  OBVIOUS
<1>1. PICK n \in Nat \ T : \A m \in Nat \ T : n <= m
  BY LeastElement
<1>2. n - 1 \in Nat /\ n - 1 \in T
  BY <1>1
<1> QED
  BY <1>1, <1>2

(* The same up to a bound. *)
LEMMA BoundedInduction ==
  ASSUME NEW n \in Nat, NEW T, 0 \in T, \A k \in 0..(n - 1) : k \in T => k + 1 \in T
  PROVE  n \in T
<1> DEFINE U == {k \in Nat : k <= n => k \in T}
<1>1. 0 \in U /\ \A k \in Nat : k \in U => k + 1 \in U
  OBVIOUS
<1>2. Nat \subseteq U
  <2> HIDE DEF U
  <2> QED
    BY <1>1, Induction
<1> QED
  BY <1>2

-----------------------------------------------------------------------------
(* Folds from the left.  FoldLeft() is defined by recursion over the subsets of *)
(* a sequence's domain, of which it takes the greatest element away.            *)

LEMMA MaxOfNext ==
  ASSUME NEW n \in Nat, NEW t \in SUBSET (1..(n + 1)), n + 1 \in t
  PROVE  Max(t) = n + 1
<1>1. \A x \in t : (\A y \in t : x >= y) <=> x = n + 1
  OBVIOUS
<1> QED
  BY <1>1 DEF Max

(* t is folded by the step g after all of its elements but the greatest. *)
Folds(f, base, g, t) ==
  IF t = {} THEN f[t] = base
            ELSE Max(t) \in t /\ f[t] = g[<<f[t \ {Max(t)}], Max(t)>>]

(* The recursive function that a fold over a set of indices chooses exists. *)
LEMMA FoldExists ==
  ASSUME NEW n \in Nat, NEW X, NEW base \in X, NEW g \in [X \X (1..n) -> X]
  PROVE  \E f \in [SUBSET (1..n) -> X] : \A t \in SUBSET (1..n) : Folds(f, base, g, t)
<1> DEFINE P(k) == \E f \in [SUBSET (1..k) -> X] : \A t \in SUBSET (1..k) : Folds(f, base, g, t)
           T == {k \in 0..n : P(k)}
<1>1. P(0)
  <2> DEFINE f == [t \in SUBSET (1..0) |-> base]
  <2>1. f \in [SUBSET (1..0) -> X] /\ \A t \in SUBSET (1..0) : Folds(f, base, g, t)
    BY DEF Folds
  <2> HIDE DEF f
  <2> QED
    BY <2>1
<1>2. ASSUME NEW k \in Nat, k + 1 <= n, P(k) PROVE P(k + 1)
  <2>1. PICK f \in [SUBSET (1..k) -> X] : \A t \in SUBSET (1..k) : Folds(f, base, g, t)
    BY <1>2
  <2> DEFINE h == [t \in SUBSET (1..(k + 1)) |->
                     IF k + 1 \in t THEN g[<<f[t \ {k + 1}], k + 1>>] ELSE f[t]]
  <2>2. \A t \in SUBSET (1..(k + 1)) : t \ {k + 1} \in SUBSET (1..k)
    OBVIOUS
  <2>3. h \in [SUBSET (1..(k + 1)) -> X]
    BY <1>2, <2>2
  <2>4. \A t \in SUBSET (1..k) : t \in SUBSET (1..(k + 1)) /\ h[t] = f[t]
    OBVIOUS
  <2>5. ASSUME NEW t \in SUBSET (1..(k + 1)), k + 1 \in t PROVE Folds(h, base, g, t)
    <3>1. Max(t) = k + 1
      BY <2>5, MaxOfNext
    <3>2. h[t \ {k + 1}] = f[t \ {k + 1}]
      BY <2>2, <2>4
    <3>3. h[t] = g[<<f[t \ {k + 1}], k + 1>>]
      BY <2>5
    <3> QED
      BY <2>5, <3>1, <3>2, <3>3 DEF Folds
  <2>6. ASSUME NEW t \in SUBSET (1..(k + 1)), k + 1 \notin t PROVE Folds(h, base, g, t)
    <3>1. t \in SUBSET (1..k)
      BY <2>6
    <3>2. t \ {Max(t)} \in SUBSET (1..k)
      BY <3>1
    <3> QED
      BY <2>1, <2>4, <3>1, <3>2 DEF Folds
  <2> HIDE DEF h
  <2> QED
    BY <2>3, <2>5, <2>6
<1> HIDE DEF P
<1>3. 0 \in T /\ \A k \in 0..(n - 1) : k \in T => k + 1 \in T
  BY <1>1, <1>2
<1>4. n \in T
  <2> HIDE DEF T
  <2> QED
    BY <1>3, BoundedInduction
<1> QED
  BY <1>4 DEF P

(* Recursion over subsets passes through the prefixes of the domain. *)
LEMMA NextPrefix ==
  ASSUME NEW n \in Nat, NEW k \in 0..(n - 1)
  PROVE  /\ 1..(k + 1) \in SUBSET (1..n) /\ 1..(k + 1) # {}
         /\ Max(1..(k + 1)) = k + 1 /\ (1..(k + 1)) \ {k + 1} = 1..k
<1>1. 1..(k + 1) \in SUBSET (1..n) /\ k + 1 \in 1..(k + 1) /\ (1..(k + 1)) \ {k + 1} = 1..k
  OBVIOUS
<1>2. Max(1..(k + 1)) = k + 1
  BY <1>1, MaxOfNext
<1> QED
  BY <1>1, <1>2

(* The elements of a sequence *)

LEMMA ToSetAppend ==
  ASSUME NEW S, NEW s \in Seq(S), NEW x \in S
  PROVE  ToSet(Append(s, x)) = ToSet(s) \cup {x}
<1>1. /\ DOMAIN s = 1..Len(s) /\ Len(s) \in Nat /\ DOMAIN Append(s, x) = 1..(Len(s) + 1)
      /\ Append(s, x)[Len(s) + 1] = x /\ \A i \in 1..Len(s) : Append(s, x)[i] = s[i]
  BY LenProperties, AppendProperties
<1> QED
  BY <1>1 DEF ToSet

LEMMA ToSetConcat ==
  ASSUME NEW S, NEW s \in Seq(S), NEW t \in Seq(S)
  PROVE  s \o t \in Seq(S) /\ ToSet(s \o t) = ToSet(s) \cup ToSet(t)
<1>1. /\ DOMAIN s = 1..Len(s) /\ DOMAIN t = 1..Len(t) /\ Len(s) \in Nat /\ Len(t) \in Nat
      /\ s \o t \in Seq(S) /\ DOMAIN (s \o t) = 1..(Len(s) + Len(t))
      /\ \A i \in 1..(Len(s) + Len(t)) : (s \o t)[i] = IF i <= Len(s) THEN s[i] ELSE t[i - Len(s)]
  BY LenProperties, ConcatProperties
<1>2. ASSUME NEW i \in 1..Len(t) PROVE Len(s) + i \in DOMAIN (s \o t) /\ (s \o t)[Len(s) + i] = t[i]
  BY <1>1
<1>3. ASSUME NEW i \in 1..Len(s) PROVE i \in DOMAIN (s \o t) /\ (s \o t)[i] = s[i]
  BY <1>1
<1>4. ASSUME NEW i \in DOMAIN (s \o t) PROVE (s \o t)[i] \in ToSet(s) \cup ToSet(t)
  <2>1. CASE i <= Len(s)
    BY <1>1, <2>1 DEF ToSet
  <2>2. CASE ~(i <= Len(s))
    <3>1. i - Len(s) \in 1..Len(t)
      BY <1>1, <2>2
    <3> QED
      BY <1>1, <2>2, <3>1 DEF ToSet
  <2> QED
    BY <2>1, <2>2
<1>5. ToSet(s \o t) \subseteq ToSet(s) \cup ToSet(t)
  BY <1>4 DEF ToSet
<1>6. ToSet(s) \subseteq ToSet(s \o t)
  BY <1>1, <1>3 DEF ToSet
<1>7. ToSet(t) \subseteq ToSet(s \o t)
  BY <1>1, <1>2 DEF ToSet
<1> QED
  BY <1>1, <1>5, <1>6, <1>7

LEMMA ToSetTail ==
  ASSUME NEW S, NEW s \in Seq(S), s # <<>>
  PROVE  Head(s) \in S /\ Tail(s) \in Seq(S) /\ ToSet(s) = {Head(s)} \cup ToSet(Tail(s))
<1>1. /\ DOMAIN s = 1..Len(s) /\ Len(s) \in Nat \ {0} /\ Head(s) = s[1] /\ s[1] \in S
      /\ Tail(s) \in Seq(S) /\ DOMAIN Tail(s) = 1..(Len(s) - 1)
      /\ \A i \in 1..(Len(s) - 1) : Tail(s)[i] = s[i + 1]
  BY LenProperties, EmptySeq, HeadTailProperties, ElementOfSeq
<1>2. \A i \in 2..Len(s) : i - 1 \in 1..(Len(s) - 1) /\ s[i] = Tail(s)[i - 1]
  BY <1>1
<1>3. \A i \in 1..(Len(s) - 1) : i + 1 \in 1..Len(s) /\ Tail(s)[i] = s[i + 1]
  BY <1>1
<1>4. ToSet(Tail(s)) \subseteq ToSet(s) /\ Head(s) \in ToSet(s)
  BY <1>1, <1>3 DEF ToSet
<1>5. ASSUME NEW i \in 1..Len(s) PROVE s[i] \in {Head(s)} \cup ToSet(Tail(s))
  <2>1. CASE i = 1
    BY <1>1, <2>1
  <2>2. CASE i # 1
    <3>1. i \in 2..Len(s)
      BY <1>1, <2>2
    <3>2. i - 1 \in DOMAIN Tail(s) /\ s[i] = Tail(s)[i - 1]
      BY <1>1, <1>2, <3>1
    <3> QED
      BY <3>2 DEF ToSet
  <2> QED
    BY <2>1, <2>2
<1>6. ToSet(s) \subseteq {Head(s)} \cup ToSet(Tail(s))
  BY <1>1, <1>5 DEF ToSet
<1> QED
  BY <1>1, <1>4, <1>6

LEMMA ToSetEmpty == ToSet(<<>>) = {} /\ \A S : <<>> \in Seq(S)
  BY EmptySeq DEF ToSet

LEMMA ToSetTyped ==
  ASSUME NEW S, NEW s \in Seq(S)
  PROVE  ToSet(s) \subseteq S /\ (s = <<>> <=> ToSet(s) = {})
  BY LenProperties, EmptySeq, ElementOfSeq DEF ToSet

-----------------------------------------------------------------------------
(* What is kept of s are its elements in T. *)
LEMMA KeepUnfolds ==
  ASSUME NEW S, NEW s \in Seq(S), NEW T
  PROVE  \E F : /\ Keep(s, T) = F[Len(s)] /\ F[0] = <<>>
                /\ \A k \in 0..(Len(s) - 1) :
                     F[k + 1] = IF s[k + 1] \in T THEN Append(F[k], s[k + 1]) ELSE F[k]
<1> DEFINE n == Len(s)
           X == Seq(S)
           Body(F) == [t \in SUBSET (1..n) |->
                         IF t = {} THEN <<>>
                         ELSE IF s[Max(t)] \in T THEN Append(F[t \ {Max(t)}], s[Max(t)])
                                                 ELSE F[t \ {Max(t)}]]
           g == [p \in X \X (1..n) |-> IF s[p[2]] \in T THEN Append(p[1], s[p[2]]) ELSE p[1]]
<1>1. n \in Nat /\ DOMAIN s = 1..n /\ \A i \in 1..n : s[i] \in S
  BY LenProperties, ElementOfSeq
<1>2. Keep(s, T) = (CHOOSE F : F = Body(F))[1..n]
  BY <1>1 DEF Keep, FoldLeft, MapThenFoldSet
<1>3. \E F : F = Body(F)
  <2>1. <<>> \in X
    BY EmptySeq
  <2>2. g \in [X \X (1..n) -> X]
    BY <1>1
  <2>3. PICK f \in [SUBSET (1..n) -> X] : \A t \in SUBSET (1..n) : Folds(f, <<>>, g, t)
    <3> HIDE DEF g, X, n
    <3> QED
      BY <1>1, <2>1, <2>2, FoldExists
  <2>4. ASSUME NEW t \in SUBSET (1..n) PROVE f[t] = Body(f)[t]
    <3>1. CASE t = {}
      BY <2>3, <3>1 DEF Folds
    <3>2. CASE t # {}
      <4>1. Max(t) \in t /\ f[t] = g[<<f[t \ {Max(t)}], Max(t)>>]
        BY <2>3, <3>2 DEF Folds
      <4>2. f[t \ {Max(t)}] \in X /\ Max(t) \in 1..n
        BY <2>3, <4>1
      <4> QED
        BY <3>2, <4>1, <4>2
    <3> QED
      BY <3>1, <3>2
  <2>5. f = Body(f)
    BY <2>3, <2>4
  <2> HIDE DEF Body
  <2> QED
    BY <2>5
<1>4. PICK F : F = Body(F) /\ Keep(s, T) = F[1..n]
  <2> HIDE DEF Body
  <2> QED
    BY <1>2, <1>3
<1>5. F[1..0] = <<>>
  <2>1. 1..0 = {} /\ {} \in SUBSET (1..n)
    OBVIOUS
  <2>2. Body(F)[{}] = <<>>
    BY <2>1
  <2> HIDE DEF Body
  <2> QED
    BY <1>4, <2>1, <2>2
<1>6. ASSUME NEW k \in 0..(n - 1)
      PROVE  F[1..(k + 1)] = IF s[k + 1] \in T THEN Append(F[1..k], s[k + 1]) ELSE F[1..k]
  <2>1. /\ 1..(k + 1) \in SUBSET (1..n) /\ 1..(k + 1) # {}
        /\ Max(1..(k + 1)) = k + 1 /\ (1..(k + 1)) \ {k + 1} = 1..k
    <3> HIDE DEF n
    <3> QED
      BY <1>1, NextPrefix
  <2>2. F[1..(k + 1)] = Body(F)[1..(k + 1)]
    BY <1>4
  <2> QED
    BY <2>1, <2>2
<1> DEFINE G == [k \in 0..n |-> F[1..k]]
<1>7. G[n] = F[1..n] /\ G[0] = F[1..0]
  BY <1>1
<1>8. ASSUME NEW k \in 0..(n - 1) PROVE G[k] = F[1..k] /\ G[k + 1] = F[1..(k + 1)]
  BY <1>1
<1> HIDE DEF G, Body
<1> QED
  BY <1>4, <1>5, <1>6, <1>7, <1>8

(* Keep(s, T) loses no element of s that lies in T and adds none. *)
LEMMA KeepProperties ==
  ASSUME NEW S, NEW s \in Seq(S), NEW T
  PROVE  Keep(s, T) \in Seq(S \cap T) /\ ToSet(Keep(s, T)) = ToSet(s) \cap T
<1> DEFINE n == Len(s)
<1>1. n \in Nat /\ DOMAIN s = 1..n /\ \A i \in 1..n : s[i] \in S
  BY LenProperties, ElementOfSeq
<1>2. PICK F : /\ Keep(s, T) = F[n] /\ F[0] = <<>>
               /\ \A k \in 0..(n - 1) :
                    F[k + 1] = IF s[k + 1] \in T THEN Append(F[k], s[k + 1]) ELSE F[k]
  BY KeepUnfolds
<1> HIDE DEF n
<1> DEFINE P(k) == /\ F[k] \in Seq(S \cap T)
                   /\ ToSet(F[k]) = {s[i] : i \in 1..k} \cap T
           U == {k \in 0..n : P(k)}
<1>3. P(0)
  BY <1>2, EmptySeq DEF ToSet
<1>4. ASSUME NEW k \in 0..(n - 1), P(k) PROVE P(k + 1)
  <2>1. {s[i] : i \in 1..(k + 1)} = {s[i] : i \in 1..k} \cup {s[k + 1]} /\ s[k + 1] \in S
    BY <1>1
  <2>2. CASE s[k + 1] \in T
    <3>1. F[k + 1] = Append(F[k], s[k + 1]) /\ s[k + 1] \in S \cap T
      BY <1>2, <2>1, <2>2
    <3>2. Append(F[k], s[k + 1]) \in Seq(S \cap T)
      BY <1>4, <3>1
    <3>3. ToSet(Append(F[k], s[k + 1])) = ToSet(F[k]) \cup {s[k + 1]}
      BY <1>4, <3>1, ToSetAppend
    <3> QED
      BY <1>4, <2>1, <2>2, <3>1, <3>2, <3>3
  <2>3. CASE s[k + 1] \notin T
    BY <1>2, <1>4, <2>1, <2>3
  <2> QED
    BY <2>2, <2>3
<1> HIDE DEF P
<1>5. 0 \in U /\ \A k \in 0..(n - 1) : k \in U => k + 1 \in U
  BY <1>1, <1>3, <1>4
<1>6. n \in U
  <2> HIDE DEF U
  <2> QED
    BY <1>1, <1>5, BoundedInduction
<1>7. ToSet(s) = {s[i] : i \in 1..n}
  BY <1>1 DEF ToSet
<1> QED
  BY <1>2, <1>6, <1>7 DEF P

(* Without duplicates s has the same elements. *)
LEMMA DedupUnfolds ==
  ASSUME NEW S, NEW s \in Seq(S)
  PROVE  \E F : /\ Dedup(s) = F[Len(s)] /\ F[0] = <<>>
                /\ \A k \in 0..(Len(s) - 1) :
                     F[k + 1] = IF Contains(F[k], s[k + 1]) THEN F[k]
                                     ELSE Append(F[k], s[k + 1])
<1> DEFINE n == Len(s)
           X == Seq(S)
           Body(F) == [t \in SUBSET (1..n) |->
                         IF t = {} THEN <<>>
                         ELSE IF Contains(F[t \ {Max(t)}], s[Max(t)]) THEN F[t \ {Max(t)}]
                              ELSE Append(F[t \ {Max(t)}], s[Max(t)])]
           g == [p \in X \X (1..n) |-> IF Contains(p[1], s[p[2]]) THEN p[1] ELSE Append(p[1], s[p[2]])]
<1>1. n \in Nat /\ DOMAIN s = 1..n /\ \A i \in 1..n : s[i] \in S
  BY LenProperties, ElementOfSeq
<1>2. Dedup(s) = (CHOOSE F : F = Body(F))[1..n]
  BY <1>1 DEF Dedup, FoldLeft, MapThenFoldSet
<1>3. \E F : F = Body(F)
  <2>1. <<>> \in X
    BY EmptySeq
  <2>2. g \in [X \X (1..n) -> X]
    BY <1>1
  <2>3. PICK f \in [SUBSET (1..n) -> X] : \A t \in SUBSET (1..n) : Folds(f, <<>>, g, t)
    <3> HIDE DEF g, X, n
    <3> QED
      BY <1>1, <2>1, <2>2, FoldExists
  <2>4. ASSUME NEW t \in SUBSET (1..n) PROVE f[t] = Body(f)[t]
    <3>1. CASE t = {}
      BY <2>3, <3>1 DEF Folds
    <3>2. CASE t # {}
      <4>1. Max(t) \in t /\ f[t] = g[<<f[t \ {Max(t)}], Max(t)>>]
        BY <2>3, <3>2 DEF Folds
      <4>2. f[t \ {Max(t)}] \in X /\ Max(t) \in 1..n
        BY <2>3, <4>1
      <4> QED
        BY <3>2, <4>1, <4>2
    <3> QED
      BY <3>1, <3>2
  <2>5. f = Body(f)
    BY <2>3, <2>4
  <2> HIDE DEF Body
  <2> QED
    BY <2>5
<1>4. PICK F : F = Body(F) /\ Dedup(s) = F[1..n]
  <2> HIDE DEF Body
  <2> QED
    BY <1>2, <1>3
<1>5. F[1..0] = <<>>
  <2>1. 1..0 = {} /\ {} \in SUBSET (1..n)
    OBVIOUS
  <2>2. Body(F)[{}] = <<>>
    BY <2>1
  <2> HIDE DEF Body
  <2> QED
    BY <1>4, <2>1, <2>2
<1>6. ASSUME NEW k \in 0..(n - 1)
      PROVE  F[1..(k + 1)] = IF Contains(F[1..k], s[k + 1]) THEN F[1..k]
                             ELSE Append(F[1..k], s[k + 1])
  <2>1. /\ 1..(k + 1) \in SUBSET (1..n) /\ 1..(k + 1) # {}
        /\ Max(1..(k + 1)) = k + 1 /\ (1..(k + 1)) \ {k + 1} = 1..k
    <3> HIDE DEF n
    <3> QED
      BY <1>1, NextPrefix
  <2>2. F[1..(k + 1)] = Body(F)[1..(k + 1)]
    BY <1>4
  <2> QED
    BY <2>1, <2>2
<1> DEFINE G == [k \in 0..n |-> F[1..k]]
<1>7. G[n] = F[1..n] /\ G[0] = F[1..0]
  BY <1>1
<1>8. ASSUME NEW k \in 0..(n - 1) PROVE G[k] = F[1..k] /\ G[k + 1] = F[1..(k + 1)]
  BY <1>1
<1> HIDE DEF G, Body
<1> QED
  BY <1>4, <1>5, <1>6, <1>7, <1>8

(* Dedup(s) has the elements of s. *)
LEMMA DedupProperties ==
  ASSUME NEW S, NEW s \in Seq(S)
  PROVE  Dedup(s) \in Seq(S) /\ ToSet(Dedup(s)) = ToSet(s)
<1> DEFINE n == Len(s)
<1>1. n \in Nat /\ DOMAIN s = 1..n /\ \A i \in 1..n : s[i] \in S
  BY LenProperties, ElementOfSeq
<1>2. PICK F : /\ Dedup(s) = F[n] /\ F[0] = <<>>
               /\ \A k \in 0..(n - 1) :
                    F[k + 1] = IF Contains(F[k], s[k + 1]) THEN F[k]
                                    ELSE Append(F[k], s[k + 1])
  BY DedupUnfolds
<1> HIDE DEF n
<1> DEFINE P(k) == F[k] \in Seq(S) /\ ToSet(F[k]) = {s[i] : i \in 1..k}
           U == {k \in 0..n : P(k)}
<1>3. P(0)
  BY <1>2, EmptySeq DEF ToSet
<1>4. ASSUME NEW k \in 0..(n - 1), P(k) PROVE P(k + 1)
  <2>1. {s[i] : i \in 1..(k + 1)} = {s[i] : i \in 1..k} \cup {s[k + 1]} /\ s[k + 1] \in S
    BY <1>1
  <2>2. CASE Contains(F[k], s[k + 1])
    <3>1. s[k + 1] \in ToSet(F[k])
      BY <1>4, <2>2, LenProperties DEF Contains, ToSet
    <3>2. F[k + 1] = F[k]
      BY <1>2, <2>2
    <3> QED
      BY <1>4, <2>1, <3>1, <3>2
  <2>3. CASE ~Contains(F[k], s[k + 1])
    <3>1. F[k + 1] = Append(F[k], s[k + 1])
      BY <1>2, <2>3
    <3>2. ToSet(Append(F[k], s[k + 1])) = ToSet(F[k]) \cup {s[k + 1]}
      BY <1>4, <2>1, ToSetAppend
    <3> QED
      BY <1>4, <2>1, <3>1, <3>2
  <2> QED
    BY <2>2, <2>3
<1> HIDE DEF P
<1>5. 0 \in U /\ \A k \in 0..(n - 1) : k \in U => k + 1 \in U
  BY <1>1, <1>3, <1>4
<1>6. n \in U
  <2> HIDE DEF U
  <2> QED
    BY <1>1, <1>5, BoundedInduction
<1>7. ToSet(s) = {s[i] : i \in 1..n}
  BY <1>1 DEF ToSet
<1> QED
  BY <1>2, <1>6, <1>7 DEF P

-----------------------------------------------------------------------------
(* What a lookup makes of an answer section *)

LEMMA MinOfNats ==
  ASSUME NEW T, T \subseteq Nat, T # {}
  PROVE  Min(T) \in T /\ \A x \in T : Min(T) <= x
<1>1. \E x \in T : \A y \in T : x <= y
  BY LeastElement
<1> QED
  BY <1>1 DEF Min

LEMMA MinOfTwo ==
  ASSUME NEW x \in Nat, NEW y \in Nat
  PROVE  Min({x, y}) = IF x <= y THEN x ELSE y
<1>1. Min({x, y}) \in {x, y} /\ Min({x, y}) <= x /\ Min({x, y}) <= y
  BY MinOfNats
<1> QED
  BY <1>1

LEMMA LeastIsMin ==
  ASSUME NEW T, T \subseteq Nat, NEW i \in T, \A j \in T : i <= j
  PROVE  Min(T) = i
<1>1. Min(T) \in T /\ Min(T) <= i /\ i <= Min(T) /\ Min(T) \in Nat /\ i \in Nat
  BY MinOfNats
<1> DEFINE m == Min(T)
<1> HIDE DEF m
<1>2. m = i
  BY <1>1 DEF m
<1> QED
  BY <1>2 DEF m

(* The sections that an answer may have: addresses where it names addresses. *)
SectionOf(A) == {section \in Seq(Record) : \A r \in ToSet(section) : r.type # "CNAME" => r.data \in A}

(* The results of lookups: addresses for addresses, and names. *)
ResultOf(A) == [a : Seq(A), aaaa : Seq(A), cname : Seq(Data), ttl : Nat]

(* The records of one type, and what they hold. *)
LEMMA OfTypeProperties ==
  ASSUME NEW A, NEW section \in SectionOf(A), NEW type \in {"A", "AAAA", "CNAME"}
  PROVE  /\ OfType(section, type) \in SectionOf(A)
         /\ DataOf(OfType(section, type)) \in Seq(Data)
         /\ type # "CNAME" => DataOf(OfType(section, type)) \in Seq(A)
<1> DEFINE T == {r \in ToSet(section) : r.type = type}
           kept == OfType(section, type)
<1>1. kept \in Seq(Record \cap T) /\ ToSet(kept) = ToSet(section) \cap T
  <2>1. section \in Seq(Record)
    BY DEF SectionOf
  <2> HIDE DEF T
  <2>2. Keep(section, T) \in Seq(Record \cap T) /\ ToSet(Keep(section, T)) = ToSet(section) \cap T
    BY <2>1, KeepProperties
  <2> QED
    BY <2>2 DEF OfType, T
<1> HIDE DEF kept
<1>2. kept \in Seq(Record) /\ Len(kept) \in Nat /\ DOMAIN kept = 1..Len(kept)
  BY <1>1, LenProperties
<1>3. \A i \in 1..Len(kept) : kept[i] \in Record /\ kept[i] \in T
  BY <1>1, ElementOfSeq
<1>4. kept \in SectionOf(A)
  BY <1>1, <1>2 DEF SectionOf
<1>5. \A i \in 1..Len(kept) : kept[i].data \in Data
  BY <1>3 DEF Record
<1>6. DataOf(kept) \in Seq(Data)
  BY <1>2, <1>5 DEF DataOf
<1>7. ASSUME type # "CNAME" PROVE \A i \in 1..Len(kept) : kept[i].data \in A
  BY <1>3, <1>7 DEF SectionOf
<1>8. type # "CNAME" => DataOf(kept) \in Seq(A)
  BY <1>2, <1>7 DEF DataOf
<1> QED
  BY <1>4, <1>6, <1>8 DEF kept

(* What either backend returns has an address wherever one is named. *)
LEMMA ResultProperties ==
  ASSUME NEW A, NEW section \in SectionOf(A), NEW ttl \in Nat
  PROVE  Result(section, ttl) \in ResultOf(A)
  BY OfTypeProperties DEF Result, ResultOf

(* resolve() of either backend: the address lists of its result hold            *)
(* addresses, the list of names names, and the ttl is that of a record or       *)
(* none.                                                                        *)
THEOREM ResolveProperties ==
  ASSUME NEW A, NEW section \in SectionOf(A), NEW type \in {"A", "AAAA"}
  PROVE  Resolve(section, type) \in ResultOf(A)
<1>1. \A i \in DOMAIN section : section[i].ttl \in Nat
  <2>1. section \in Seq(Record)
    BY DEF SectionOf
  <2>2. DOMAIN section = 1..Len(section) /\ \A i \in 1..Len(section) : section[i] \in Record
    BY <2>1, LenProperties, ElementOfSeq
  <2> QED
    BY <2>2 DEF Record
<1>2. Dig(section) \in ResultOf(A)
  <2> DEFINE ttls == {section[i].ttl : i \in DOMAIN section} \ {0}
  <2>1. ttls \subseteq Nat
    BY <1>1
  <2>2. (IF ttls = {} THEN 0 ELSE Min(ttls)) \in Nat
    <3> HIDE DEF ttls
    <3> QED
      BY <2>1, MinOfNats
  <2> QED
    BY <2>2, ResultProperties DEF Dig
<1>3. Dnspython(section, type) \in ResultOf(A)
  <2> DEFINE rrset == OfType(section, type)
  <2>1. rrset \in SectionOf(A)
    BY OfTypeProperties
  <2> HIDE DEF rrset
  <2>2. (IF rrset = <<>> THEN 0 ELSE Head(rrset).ttl) \in Nat
    <3>1. rrset \in Seq(Record)
      BY <2>1 DEF SectionOf
    <3>2. rrset # <<>> => Head(rrset) \in Record
      BY <3>1, ToSetTail
    <3> QED
      BY <3>2 DEF Record
  <2>3. Result(rrset, IF rrset = <<>> THEN 0 ELSE Head(rrset).ttl) \in ResultOf(A)
    BY <2>1, <2>2, ResultProperties
  <2> QED
    BY <2>3 DEF Dnspython, rrset
<1> QED
  BY <1>2, <1>3 DEF Resolve

(* resolve_dns_a_and_aaaa(): the merged result is one as well. *)
THEOREM MergeProperties ==
  ASSUME NEW A, NEW a \in ResultOf(A), NEW aaaa \in ResultOf(A)
  PROVE  MergeResults(a, aaaa) \in ResultOf(A)
<1>1. a.cname \o aaaa.cname \in Seq(Data)
  BY ConcatProperties DEF ResultOf
<1>2. Dedup(a.cname \o aaaa.cname) \in Seq(Data)
  BY <1>1, DedupProperties
<1> QED
  BY <1>2 DEF MergeResults, ResultOf
=============================================================================
