---------------------------- MODULE SequenceFacts ----------------------------
(***************************************************************************)
(* Facts about FlattenSeq, the operator that stands for loops which append *)
(* to a slice: what is in a flattened sequence, and at which place.  It is *)
(* defined by a recursive function; that it exists, and what it computes,  *)
(* is shown by induction over the length, which in turn rests on the       *)
(* well-founded order of the natural numbers.                              *)
(***************************************************************************)
EXTENDS SequencesExt, TLAPS, WellFoundedInduction

(* A nonempty set of natural numbers has a least element. *)
LEMMA LeastNumber ==
  ASSUME NEW T \in SUBSET Nat, T # {}
  PROVE  \E x \in T : \A y \in T : x <= y
  <1> DEFINE R == {ss \in Nat \X Nat : ss[1] < ss[2]}
  <1>1. IsWellFoundedOn(R, Nat)
    BY NatLessThanWellFounded DEF OpToRel
  <1>2. PICK x \in T : \A y \in T : ~(<<y, x>> \in R)
    <2> HIDE DEF R
    <2> QED
      BY <1>1, WFMin
  <1>3. ASSUME NEW y \in T, y < x PROVE FALSE
    <2> DEFINE p == <<y, x>>
    <2>1. p \in Nat \X Nat /\ p[1] < p[2]
      BY <1>3
    <2>2. p \in R
      BY <2>1
    <2> QED
      BY <1>2, <2>2
  <1>4. \A y \in T : x \in Nat /\ y \in Nat /\ ~(y < x)
    BY <1>3
  <1> QED
    BY <1>4

(* A nonempty set of natural numbers has a minimum. *)
LEMMA MinIsLeast ==
  ASSUME NEW T \in SUBSET Nat, T # {}
  PROVE  Min(T) \in T /\ \A y \in T : Min(T) <= y
  <1>1. \E x \in T : \A y \in T : x <= y
    BY LeastNumber
  <1> QED
    BY <1>1 DEF Min

(* A nonempty set of numbers up to n has a maximum. *)
LEMMA MaxIsGreatest ==
  ASSUME NEW n \in Nat, NEW T, T \subseteq 1 .. n, T # {}
  PROVE  Max(T) \in T /\ \A y \in T : Max(T) >= y
  <1> DEFINE D == {n - x : x \in T}
  <1>1. D \in SUBSET Nat /\ D # {}
    <2>1. ASSUME NEW x \in T PROVE n - x \in Nat
      <3>1. x \in 1 .. n
        OBVIOUS
      <3> QED
        BY <3>1
    <2>2. D \in SUBSET Nat
      BY <2>1
    <2> QED
      BY <2>2
  <1>2. PICK d \in D : \A e \in D : d <= e
    <2> HIDE DEF D
    <2> QED
      BY <1>1, LeastNumber
  <1>3. PICK x \in T : d = n - x
    OBVIOUS
  <1>4. ASSUME NEW y \in T PROVE x >= y
    <2>1. n - y \in D
      OBVIOUS
    <2>2. n - x <= n - y /\ x \in Nat /\ y \in Nat
      BY <1>2, <1>3, <2>1
    <2> QED
      BY <2>2
  <1>5. \E z \in T : \A y \in T : z >= y
    BY <1>4
  <1> QED
    BY <1>5 DEF Max

(* Induction over 1 .. n, for a set G of numbers. *)
LEMMA Induction ==
  ASSUME NEW n \in Nat, NEW G,
         n >= 1 => 1 \in G,
         \A m \in 2 .. n : m - 1 \in G => m \in G
  PROVE  1 .. n \subseteq G
  <1> DEFINE Bad == {m \in 1 .. n : m \notin G}
  <1> SUFFICES ASSUME Bad # {} PROVE FALSE
    OBVIOUS
  <1>1. Bad \in SUBSET Nat
    OBVIOUS
  <1>2. PICK m \in Bad : \A k \in Bad : m <= k
    <2> HIDE DEF Bad
    <2> QED
      BY <1>1, LeastNumber
  <1>3. m \in 2 .. n
    OBVIOUS
  <1>4. m - 1 \in 1 .. n /\ m - 1 \notin Bad
    BY <1>2, <1>3
  <1> QED
    BY <1>3, <1>4

(* The length and the elements of a concatenation. *)
LEMMA Concat ==
  ASSUME NEW S, NEW s \in Seq(S), NEW t \in Seq(S)
  PROVE  /\ s \o t \in Seq(S)
         /\ Len(s) \in Nat /\ Len(t) \in Nat
         /\ Len(s \o t) = Len(s) + Len(t)
         /\ DOMAIN (s \o t) = 1 .. (Len(s) + Len(t))
         /\ \A i \in 1 .. Len(s) : (s \o t)[i] = s[i]
         /\ \A i \in 1 .. Len(t) : (s \o t)[Len(s) + i] = t[i]
         /\ ToSet(s \o t) = ToSet(s) \cup ToSet(t)
  <1>1. /\ s \o t \in Seq(S)
        /\ Len(s) \in Nat /\ Len(t) \in Nat
        /\ Len(s \o t) = Len(s) + Len(t)
        /\ \A i \in 1 .. Len(s) : (s \o t)[i] = s[i]
        /\ \A i \in 1 .. Len(t) : (s \o t)[Len(s) + i] = t[i]
    OBVIOUS
  <1>2. DOMAIN s = 1 .. Len(s) /\ DOMAIN t = 1 .. Len(t) /\ DOMAIN (s \o t) = 1 .. Len(s) + Len(t)
    BY <1>1
  <1>3. ToSet(s \o t) = ToSet(s) \cup ToSet(t)
    <2>1. ASSUME NEW x \in ToSet(s \o t) PROVE x \in ToSet(s) \cup ToSet(t)
      <3>1. PICK i \in 1 .. Len(s) + Len(t) : x = (s \o t)[i]
        BY <1>2 DEF ToSet
      <3>2. CASE i <= Len(s)
        BY <1>1, <1>2, <3>1, <3>2 DEF ToSet
      <3>3. CASE i > Len(s)
        <4>1. i - Len(s) \in 1 .. Len(t) /\ i = Len(s) + (i - Len(s))
          BY <1>1, <3>1, <3>3
        <4>2. x = t[i - Len(s)]
          BY <1>1, <3>1, <4>1
        <4> QED
          BY <1>2, <4>1, <4>2 DEF ToSet
      <3> QED
        BY <1>1, <3>1, <3>2, <3>3
    <2>2. ASSUME NEW x \in ToSet(s) PROVE x \in ToSet(s \o t)
      <3>1. PICK i \in 1 .. Len(s) : x = s[i]
        BY <1>2 DEF ToSet
      <3>2. i \in 1 .. Len(s) + Len(t) /\ x = (s \o t)[i]
        BY <1>1, <3>1
      <3> QED
        BY <1>2, <3>2 DEF ToSet
    <2>3. ASSUME NEW x \in ToSet(t) PROVE x \in ToSet(s \o t)
      <3>1. PICK i \in 1 .. Len(t) : x = t[i]
        BY <1>2 DEF ToSet
      <3>2. Len(s) + i \in 1 .. Len(s) + Len(t) /\ x = (s \o t)[Len(s) + i]
        BY <1>1, <3>1
      <3> QED
        BY <1>2, <3>2 DEF ToSet
    <2> QED
      BY <2>1, <2>2, <2>3
  <1> QED
    BY <1>1, <1>2, <1>3

(* The concatenations of the first parts of a sequence of sequences. *)
Parts(ss, n, S) == n \in Nat /\ \A i \in 1 .. n : ss[i] \in Seq(S)

Concats(ss, n, S, f) ==
    /\ f \in [1 .. n -> Seq(S)]
    /\ f[1] = ss[1]
    /\ \A i \in 2 .. n : f[i] = f[i - 1] \o ss[i]

(* There is such a function, for every length. *)
LEMMA ConcatsExist ==
  ASSUME NEW S, NEW ss, NEW n \in Nat, n >= 1, Parts(ss, n, S)
  PROVE  \E f : Concats(ss, n, S, f)
  <1> DEFINE G == {m \in 1 .. n : \E f : Concats(ss, m, S, f)}
  <1>1. 1 \in G
    <2> DEFINE f == [i \in 1 .. 1 |-> ss[1]]
    <2>1. ss[1] \in Seq(S)
      BY DEF Parts
    <2>2. f \in [1 .. 1 -> Seq(S)] /\ f[1] = ss[1]
      BY <2>1
    <2>3. Concats(ss, 1, S, f)
      <3> HIDE DEF f
      <3> QED
        BY <2>2 DEF Concats
    <2> QED
      BY <2>3
  <1>2. ASSUME NEW m \in 2 .. n, m - 1 \in G PROVE m \in G
    <2>1. PICK g : Concats(ss, m - 1, S, g)
      BY <1>2
    <2>2. m - 1 \in 1 .. m - 1 /\ m \in 1 .. n /\ 1 \in 1 .. m - 1
      OBVIOUS
    <2>3. g[m - 1] \in Seq(S) /\ ss[m] \in Seq(S)
      BY <2>1, <2>2 DEF Concats, Parts
    <2> DEFINE c == g[m - 1] \o ss[m]
               f == [i \in 1 .. m |-> IF i = m THEN c ELSE g[i]]
    <2>4. c \in Seq(S)
      BY <2>3, Concat
    <2> HIDE DEF c
    <2>5. f \in [1 .. m -> Seq(S)]
      BY <2>1, <2>4 DEF Concats
    <2>6. f[m] = c /\ f[m - 1] = g[m - 1] /\ f[1] = ss[1]
      BY <2>1, <2>2 DEF Concats
    <2>7. ASSUME NEW i \in 2 .. m PROVE f[i] = f[i - 1] \o ss[i]
      <3>1. CASE i = m
        BY <2>6, <3>1 DEF c
      <3>2. CASE i # m
        <4>1. i \in 2 .. m - 1 /\ f[i] = g[i] /\ f[i - 1] = g[i - 1]
          BY <3>2
        <4> QED
          BY <2>1, <4>1 DEF Concats
      <3> QED
        BY <3>1, <3>2
    <2>8. Concats(ss, m, S, f)
      <3> HIDE DEF f
      <3> QED
        BY <2>5, <2>6, <2>7 DEF Concats
    <2> QED
      BY <2>2, <2>8
  <1>3. 1 .. n \subseteq G
    <2> HIDE DEF G
    <2> QED
      BY <1>1, <1>2, Induction
  <1> QED
    BY <1>3

(* FlattenSeq is the last of the concatenations. *)
LEMMA FlattenConcats ==
  ASSUME NEW S, NEW ss \in Seq(Seq(S)), ss # <<>>
  PROVE  \E f : Concats(ss, Len(ss), S, f) /\ FlattenSeq(ss) = f[Len(ss)]
  <1>1. PICK n \in Nat : n = Len(ss)
    OBVIOUS
  <1>2. n >= 1 /\ Parts(ss, n, S)
    BY <1>1 DEF Parts
  <1>3. PICK g : Concats(ss, n, S, g)
    BY <1>2, ConcatsExist
  <1> DEFINE Step(f) == f = [i \in 1 .. Len(ss) |-> IF i = 1 THEN ss[i] ELSE f[i - 1] \o ss[i]]
  <1>4. Step(g)
    <2>1. g = [i \in 1 .. n |-> g[i]]
      BY <1>3 DEF Concats
    <2>2. ASSUME NEW i \in 1 .. n PROVE g[i] = IF i = 1 THEN ss[i] ELSE g[i - 1] \o ss[i]
      <3>1. CASE i = 1
        BY <1>3, <3>1 DEF Concats
      <3>2. CASE i # 1
        <4>1. i \in 2 .. n
          BY <3>2
        <4>2. g[i] = g[i - 1] \o ss[i]
          BY <1>3, <4>1 DEF Concats
        <4> QED
          BY <3>2, <4>2
      <3> QED
        BY <3>1, <3>2
    <2> QED
      BY <1>1, <2>1, <2>2
  <1>5. PICK f : Step(f) /\ FlattenSeq(ss) = f[Len(ss)]
    <2>1. \E h : h = [i \in 1 .. Len(ss) |-> IF i = 1 THEN ss[i] ELSE h[i - 1] \o ss[i]]
      BY <1>4
    <2>2. Len(ss) # 0
      BY <1>1, <1>2
    <2> QED
      BY <2>1, <2>2, Zenon DEF FlattenSeq
  <1>6. \A i \in 1 .. n : f[i] = IF i = 1 THEN ss[i] ELSE f[i - 1] \o ss[i]
    BY <1>1, <1>5
  <1> HIDE DEF Step
  <1> DEFINE G == {m \in 1 .. n : f[m] = g[m]}
  <1>7. 1 \in G
    BY <1>2, <1>3, <1>6 DEF Concats
  <1>8. ASSUME NEW m \in 2 .. n, m - 1 \in G PROVE m \in G
    <2>1. m \in 1 .. n /\ m # 1 /\ f[m - 1] = g[m - 1]
      BY <1>8
    <2>2. f[m] = f[m - 1] \o ss[m]
      BY <1>6, <2>1
    <2>3. g[m] = g[m - 1] \o ss[m]
      BY <1>3 DEF Concats
    <2>4. f[m] = g[m]
      BY <2>1, <2>2, <2>3
    <2> QED
      BY <2>1, <2>4
  <1>9. 1 .. n \subseteq G
    <2> HIDE DEF G
    <2> QED
      BY <1>7, <1>8, Induction
  <1>10. f[n] = g[n]
    BY <1>2, <1>9
  <1> QED
    BY <1>1, <1>3, <1>5, <1>10

(* The elements of a flattened sequence are those of its parts. *)
LEMMA FlattenRange ==
  ASSUME NEW S, NEW ss \in Seq(Seq(S))
  PROVE  /\ FlattenSeq(ss) \in Seq(S)
         /\ ToSet(FlattenSeq(ss)) = UNION {ToSet(ss[i]) : i \in DOMAIN ss}
  <1>1. CASE ss = <<>>
    <2>1. FlattenSeq(ss) = <<>>
      BY <1>1 DEF FlattenSeq
    <2>2. DOMAIN ss = {} /\ ToSet(<<>>) = {} /\ <<>> \in Seq(S)
      BY <1>1 DEF ToSet
    <2> QED
      BY <2>1, <2>2
  <1>2. CASE ss # <<>>
    <2>1. PICK f : Concats(ss, Len(ss), S, f) /\ FlattenSeq(ss) = f[Len(ss)]
      BY <1>2, FlattenConcats
    <2>2. PICK n \in Nat : n = Len(ss)
      OBVIOUS
    <2>3. n >= 1 /\ Parts(ss, n, S) /\ DOMAIN ss = 1 .. n
      BY <1>2, <2>2 DEF Parts
    <2> DEFINE G == {m \in 1 .. n : ToSet(f[m]) = UNION {ToSet(ss[i]) : i \in 1 .. m}}
    <2>4. 1 \in G
      <3>1. 1 .. 1 = {1}
        OBVIOUS
      <3>2. UNION {ToSet(ss[i]) : i \in 1 .. 1} = ToSet(ss[1])
        BY <3>1
      <3> QED
        BY <2>1, <2>3, <3>2 DEF Concats
    <2>5. ASSUME NEW m \in 2 .. n, m - 1 \in G PROVE m \in G
      <3>1. ToSet(f[m - 1]) = UNION {ToSet(ss[i]) : i \in 1 .. m - 1}
        BY <2>5
      <3>2. f[m] = f[m - 1] \o ss[m]
        BY <2>1, <2>2 DEF Concats
      <3>3. f[m - 1] \in Seq(S) /\ ss[m] \in Seq(S)
        <4>1. m - 1 \in 1 .. n /\ m \in 1 .. n
          OBVIOUS
        <4> QED
          BY <2>1, <2>2, <2>3, <4>1 DEF Concats, Parts
      <3>4. ToSet(f[m]) = ToSet(f[m - 1]) \cup ToSet(ss[m])
        BY <3>2, <3>3, Concat
      <3>5. 1 .. m = (1 .. m - 1) \cup {m}
        OBVIOUS
      <3>6. UNION {ToSet(ss[i]) : i \in 1 .. m}
              = (UNION {ToSet(ss[i]) : i \in 1 .. m - 1}) \cup ToSet(ss[m])
        BY <3>5
      <3>7. ToSet(f[m]) = UNION {ToSet(ss[i]) : i \in 1 .. m}
        BY <3>1, <3>4, <3>6
      <3>8. m \in 1 .. n
        OBVIOUS
      <3> QED
        BY <3>7, <3>8
    <2>6. 1 .. n \subseteq G
      <3> HIDE DEF G
      <3> QED
        BY <2>4, <2>5, Induction
    <2>7. ToSet(f[n]) = UNION {ToSet(ss[i]) : i \in 1 .. n} /\ f[n] \in Seq(S)
      BY <2>1, <2>2, <2>3, <2>6 DEF Concats
    <2> QED
      BY <2>1, <2>2, <2>3, <2>7
  <1> QED
    BY <1>1, <1>2

(* Parts of one element each. *)
LEMMA FlattenSingles ==
  ASSUME NEW S, NEW ss \in Seq(Seq(S)), \A i \in DOMAIN ss : Len(ss[i]) = 1
  PROVE  /\ Len(FlattenSeq(ss)) = Len(ss)
         /\ \A i \in DOMAIN ss : FlattenSeq(ss)[i] = ss[i][1]
  <1>1. CASE ss = <<>>
    <2>1. FlattenSeq(ss) = <<>>
      BY <1>1 DEF FlattenSeq
    <2>2. DOMAIN ss = {} /\ Len(ss) = 0 /\ Len(<<>>) = 0
      BY <1>1
    <2> QED
      BY <2>1, <2>2
  <1>2. CASE ss # <<>>
    <2>1. PICK f : Concats(ss, Len(ss), S, f) /\ FlattenSeq(ss) = f[Len(ss)]
      BY <1>2, FlattenConcats
    <2>2. PICK n \in Nat : n = Len(ss)
      OBVIOUS
    <2>3. n >= 1 /\ Parts(ss, n, S) /\ DOMAIN ss = 1 .. n /\ \A i \in 1 .. n : Len(ss[i]) = 1
      BY <1>2, <2>2 DEF Parts
    <2> DEFINE G == {m \in 1 .. n : Len(f[m]) = m /\ \A i \in 1 .. m : f[m][i] = ss[i][1]}
    <2>4. 1 \in G
      <3>1. f[1] = ss[1] /\ Len(ss[1]) = 1 /\ 1 .. 1 = {1}
        BY <2>1, <2>3 DEF Concats
      <3> QED
        BY <2>3, <3>1
    <2>5. ASSUME NEW m \in 2 .. n, m - 1 \in G PROVE m \in G
      <3>1. Len(f[m - 1]) = m - 1 /\ \A i \in 1 .. m - 1 : f[m - 1][i] = ss[i][1]
        BY <2>5
      <3>2. f[m] = f[m - 1] \o ss[m]
        BY <2>1, <2>2 DEF Concats
      <3>3. f[m - 1] \in Seq(S) /\ ss[m] \in Seq(S) /\ Len(ss[m]) = 1
        <4>1. m - 1 \in 1 .. n /\ m \in 1 .. n
          OBVIOUS
        <4> QED
          BY <2>1, <2>2, <2>3, <4>1 DEF Concats, Parts
      <3>4. /\ Len(f[m]) = Len(f[m - 1]) + Len(ss[m])
            /\ \A i \in 1 .. Len(f[m - 1]) : f[m][i] = f[m - 1][i]
            /\ \A i \in 1 .. Len(ss[m]) : f[m][Len(f[m - 1]) + i] = ss[m][i]
        <4>1. PICK a \in Seq(S) : a = f[m - 1]
          BY <3>3
        <4>2. PICK b \in Seq(S) : b = ss[m]
          BY <3>3
        <4>3. /\ Len(a \o b) = Len(a) + Len(b)
              /\ \A i \in 1 .. Len(a) : (a \o b)[i] = a[i]
              /\ \A i \in 1 .. Len(b) : (a \o b)[Len(a) + i] = b[i]
          BY Concat
        <4> QED
          BY <3>2, <4>1, <4>2, <4>3
      <3>5. Len(f[m]) = m /\ f[m][m] = ss[m][1]
        BY <3>1, <3>3, <3>4
      <3>6. ASSUME NEW i \in 1 .. m PROVE f[m][i] = ss[i][1]
        <4>1. CASE i = m
          BY <3>5, <4>1
        <4>2. CASE i # m
          <5>1. i \in 1 .. m - 1
            BY <4>2
          <5> QED
            BY <3>1, <3>4, <5>1
        <4> QED
          BY <4>1, <4>2
      <3> QED
        BY <3>5, <3>6
    <2>6. 1 .. n \subseteq G
      <3> HIDE DEF G
      <3> QED
        BY <2>4, <2>5, Induction
    <2>7. Len(f[n]) = n /\ \A i \in 1 .. n : f[n][i] = ss[i][1]
      BY <2>3, <2>6
    <2> QED
      BY <2>1, <2>2, <2>3, <2>7
  <1> QED
    BY <1>1, <1>2

=============================================================================
