--------------------------- MODULE StructureProofs ---------------------------
(***************************************************************************)
(* Lemmas the proofs of several components cite: about the linked lists of *)
(* a file and the sequences they are seen as, and about the places of the  *)
(* nodes of a tree, the ranges of keys that are searched for below them.   *)
(***************************************************************************)
EXTENDS LinkedLists, SequencesExt, FiniteSetTheorems, SequenceTheorems, WellFoundedInduction, TLAPS

(* Induction on numbers: a non-empty set of them has a least element.      *)
LEMMA LeastNat ==
    ASSUME NEW S \in SUBSET Nat, S # {}
    PROVE  \E n \in S : \A m \in S : n <= m
<1> DEFINE R == {ss \in Nat \X Nat : ss[1] < ss[2]}
<1>1. IsWellFoundedOn(R, Nat)
  BY NatLessThanWellFounded DEF OpToRel
<1> HIDE DEF R
<1>2. PICK n \in S : \A m \in S : ~(<<m, n>> \in R)
  BY <1>1, WFMin
<1>3. \A m \in S : ~(m < n)
  BY <1>2 DEF R
<1> QED
  BY <1>3

(* A set of numbers that with every number has the next one, from 0 on.    *)
LEMMA AllNat ==
    ASSUME NEW S, NEW N \in Nat, 0 \in S, \A n \in 0 .. N - 1 : n \in S => n + 1 \in S
    PROVE  \A n \in 0 .. N : n \in S
<1>1. SUFFICES ASSUME {n \in 0 .. N : n \notin S} # {} PROVE FALSE
  OBVIOUS
<1>2. PICK n \in 0 .. N : /\ n \notin S
                          /\ \A m \in {i \in 0 .. N : i \notin S} : n <= m
  <2>1. {n \in 0 .. N : n \notin S} \in SUBSET Nat
    OBVIOUS
  <2> QED
    BY <1>1, <2>1, LeastNat
<1>3. n # 0
  BY <1>2
<1>4. n - 1 \in 0 .. N - 1 /\ n - 1 \in S
  BY <1>2, <1>3
<1> QED
  BY <1>2, <1>4

-----------------------------------------------------------------------------
(* The list that is there is the one that is met.  The recursive function  *)
(* exists, by induction on max, and what it meets from the k-th element of *)
(* s on is the rest of s, by induction on the length of this rest.         *)
LEMMA ListFromIs ==
    ASSUME NEW next, NEW first, NEW nil, NEW max \in Nat, NEW s,
           IsList(next, first, nil, s), nil \notin DOMAIN next, Len(s) <= max
    PROVE  ListFrom(next, first, nil, max) = s
<1> DEFINE From(at, m) == [b \in DOMAIN next \cup {nil} |->
                             IF m = 0 \/ b = nil THEN <<>> ELSE <<b>> \o at[m - 1][next[b]]]
           IsAt(at, n) == at = [m \in 0 .. n |-> From(at, m)]
           at == CHOOSE at : IsAt(at, max)
           Rest(n) == SubSeq(s, Len(s) - n + 1, Len(s))
           Start(n) == IF n = 0 THEN nil ELSE s[Len(s) - n + 1]
<1>1. /\ s \in Seq(DOMAIN next) /\ Len(s) \in Nat
      /\ \A k \in 1 .. Len(s) : s[k] \in DOMAIN next /\ s[k] # nil
      /\ s = <<>> <=> Len(s) = 0
  BY DEF IsList
<1>2. ASSUME NEW f, NEW g, NEW m, m = 0 \/ f[m - 1] = g[m - 1] PROVE From(f, m) = From(g, m)
  BY <1>2
<1>3. \E f : IsAt(f, max)
  <2> DEFINE Exists == {n \in 0 .. max : \E f : IsAt(f, n)}
  <2>1. 0 \in Exists
    <3> DEFINE f == [m \in 0 .. 0 |-> From(<<>>, 0)]
    <3>1. ASSUME NEW m \in 0 .. 0 PROVE From(<<>>, 0) = From(f, m)
      <4>1. m = 0
        OBVIOUS
      <4> HIDE DEF f
      <4>2. From(<<>>, 0) = From(f, 0)
        OBVIOUS
      <4> QED
        BY <4>1, <4>2
    <3> HIDE DEF From
    <3>2. f = [m \in 0 .. 0 |-> From(f, m)]
      BY <3>1
    <3> QED
      BY <3>2
  <2>2. ASSUME NEW n \in 0 .. max - 1, n \in Exists PROVE n + 1 \in Exists
    <3>1. PICK f : IsAt(f, n)
      BY <2>2
    <3> DEFINE g == [m \in 0 .. n + 1 |-> IF m <= n THEN f[m] ELSE From(f, n + 1)]
    <3>2. \A m \in 0 .. n : g[m] = f[m]
      OBVIOUS
    <3>3. g[n + 1] = From(f, n + 1)
      OBVIOUS
    <3>4. ASSUME NEW m \in 0 .. n + 1 PROVE g[m] = From(g, m)
      <4>1. m = 0 \/ f[m - 1] = g[m - 1]
        BY <3>2
      <4>2. From(f, m) = From(g, m)
        <5> HIDE DEF g, From
        <5> QED
          BY <4>1, <1>2
      <4>3. CASE m \in 0 .. n
        <5>1. f[m] = From(f, m)
          <6> HIDE DEF From
          <6> QED
            BY <3>1, <4>3
        <5> QED
          BY <3>2, <4>2, <4>3, <5>1
      <4>4. CASE m = n + 1
        BY <3>3, <4>2, <4>4
      <4> QED
        BY <4>3, <4>4
    <3>5. IsAt(g, n + 1)
      <4> HIDE DEF From
      <4>1. g = [m \in 0 .. n + 1 |-> g[m]]
        OBVIOUS
      <4> HIDE DEF g
      <4> QED
        BY <3>4, <4>1
    <3>6. n + 1 \in 0 .. max
      OBVIOUS
    <3> QED
      BY <3>5, <3>6
  <2> HIDE DEF Exists
  <2>3. \A n \in 0 .. max : n \in Exists
    BY <2>1, <2>2, AllNat
  <2>4. max \in Exists
    BY <2>3
  <2> QED
    BY <2>4 DEF Exists
<1>4. IsAt(at, max)
  BY <1>3
<1>5. ListFrom(next, first, nil, max) = at[max][first]
  BY DEF ListFrom
<1> HIDE DEF at
<1>6. ASSUME NEW m \in 0 .. max, NEW b \in DOMAIN next \cup {nil}
      PROVE  at[m][b] = IF m = 0 \/ b = nil THEN <<>> ELSE <<b>> \o at[m - 1][next[b]]
  <2>1. at[m] = From(at, m)
    <3> HIDE DEF From
    <3> QED
      BY <1>4
  <2> QED
    BY <2>1
<1> DEFINE Met == {n \in 0 .. Len(s) : \A m \in n .. max : at[m][Start(n)] = Rest(n)}
<1>7. \A n \in 0 .. Len(s) : n \in Met
  <2>1. 0 \in Met
    <3>1. ASSUME NEW m \in 0 .. max PROVE at[m][nil] = <<>>
      BY <1>6
    <3>2. Rest(0) = <<>>
      BY <1>1
    <3>3. Start(0) = nil /\ 0 \in 0 .. Len(s)
      BY <1>1
    <3> HIDE DEF Rest, Start
    <3> QED
      BY <3>1, <3>2, <3>3
  <2>2. ASSUME NEW n \in 0 .. Len(s) - 1, n \in Met PROVE n + 1 \in Met
    <3> DEFINE k == Len(s) - n
    <3>1. k \in 1 .. Len(s) /\ Len(s) - (n + 1) + 1 = k /\ n \in Nat /\ n + 1 # 0
      BY <1>1
    <3>2. Start(n + 1) = s[k] /\ s[k] \in DOMAIN next /\ s[k] # nil
      BY <1>1, <3>1
    <3>3. next[s[k]] = Start(n)
      <4>1. CASE n = 0
        BY <1>1, <3>1, <4>1 DEF IsList
      <4>2. CASE n # 0
        <5>1. k \in 1 .. Len(s) - 1 /\ Start(n) = s[k + 1]
          BY <1>1, <3>1, <4>2
        <5> QED
          BY <5>1 DEF IsList
      <4> QED
        BY <4>1, <4>2
    <3>4. Rest(n + 1) = <<s[k]>> \o Rest(n)
      BY <1>1, <3>1
    <3>5. ASSUME NEW m \in n + 1 .. max PROVE at[m][Start(n + 1)] = Rest(n + 1)
      <4>1. m \in 0 .. max /\ m # 0 /\ m - 1 \in n .. max
        BY <3>1, <1>1
      <4>2. at[m][s[k]] = <<s[k]>> \o at[m - 1][next[s[k]]]
        BY <1>6, <3>2, <4>1
      <4>3. at[m - 1][Start(n)] = Rest(n)
        BY <2>2, <4>1
      <4> HIDE DEF Rest, Start, k
      <4> QED
        BY <3>2, <3>3, <3>4, <4>2, <4>3
    <3>6. n + 1 \in 0 .. Len(s)
      BY <1>1
    <3> HIDE DEF Rest, Start
    <3> QED
      BY <3>5, <3>6
  <2> HIDE DEF Met
  <2> QED
    BY <1>1, <2>1, <2>2, AllNat
<1>8. at[max][Start(Len(s))] = Rest(Len(s))
  <2> HIDE DEF Rest, Start
  <2>1. max \in Len(s) .. max /\ Len(s) \in 0 .. Len(s)
    BY <1>1
  <2> QED
    BY <1>7, <2>1
<1>9. Rest(Len(s)) = s /\ Start(Len(s)) = first
  BY <1>1 DEF IsList
<1> QED
  BY <1>5, <1>8, <1>9

-----------------------------------------------------------------------------
(* What RemoveAt leaves.                                                   *)
LEMMA RemoveAtIs ==
    ASSUME NEW S, NEW s \in Seq(S), NEW k \in 1 .. Len(s)
    PROVE  /\ RemoveAt(s, k) \in Seq(S)
           /\ Len(RemoveAt(s, k)) = Len(s) - 1
           /\ \A i \in 1 .. k - 1 : RemoveAt(s, k)[i] = s[i]
           /\ \A i \in k .. Len(s) - 1 : RemoveAt(s, k)[i] = s[i + 1]
<1> DEFINE l == SubSeq(s, 1, k - 1)
           r == SubSeq(s, k + 1, Len(s))
<1>1. Len(s) \in Nat /\ k \in Int /\ 1 <= k /\ k <= Len(s)
  OBVIOUS
<1>2. l \in Seq(S) /\ Len(l) = k - 1 /\ \A i \in 1 .. k - 1 : l[i] = s[i]
  BY <1>1
<1>3. r \in Seq(S) /\ Len(r) = Len(s) - k /\ \A i \in 1 .. Len(s) - k : r[i] = s[i + k]
  BY <1>1
<1>4. RemoveAt(s, k) = l \o r
  BY DEF RemoveAt
<1> HIDE DEF l, r
<1>5. /\ l \o r \in Seq(S)
      /\ Len(l \o r) = Len(s) - 1
      /\ \A i \in 1 .. Len(s) - 1 : (l \o r)[i] = IF i < k THEN l[i] ELSE r[i - (k - 1)]
  <2>1. /\ l \o r \in Seq(S)
        /\ Len(l \o r) = Len(l) + Len(r)
        /\ \A i \in 1 .. Len(l) + Len(r) :
             (l \o r)[i] = IF i <= Len(l) THEN l[i] ELSE r[i - Len(l)]
    BY <1>2, <1>3, ConcatProperties
  <2> QED
    BY <1>1, <1>2, <1>3, <2>1
<1>6. ASSUME NEW i \in 1 .. Len(s) - 1, i >= k PROVE r[i - (k - 1)] = s[i + 1]
  <2>1. i - (k - 1) \in 1 .. Len(s) - k /\ (i - (k - 1)) + k = i + 1
    BY <1>1, <1>6
  <2> QED
    BY <1>3, <2>1
<1> QED
  BY <1>1, <1>2, <1>4, <1>5, <1>6

(* The elements of a sequence, and what is left of them.                   *)
LEMMA ToSetIs ==
    ASSUME NEW S, NEW s \in Seq(S)
    PROVE  /\ ToSet(s) \subseteq S
           /\ \A x : x \in ToSet(s) <=> \E k \in 1 .. Len(s) : s[k] = x
           /\ ToSet(s) = {} <=> s = <<>>
<1>1. DOMAIN s = 1 .. Len(s) /\ Len(s) \in Nat /\ \A k \in 1 .. Len(s) : s[k] \in S
  OBVIOUS
<1>2. s # <<>> => 1 \in 1 .. Len(s)
  OBVIOUS
<1>3. s = <<>> => Len(s) = 0
  OBVIOUS
<1>4. \A x : x \in ToSet(s) <=> \E k \in 1 .. Len(s) : s[k] = x
  BY <1>1 DEF ToSet
<1>5. ToSet(s) \subseteq S
  BY <1>1, <1>4
<1>6. CASE s = <<>>
  <2>1. ToSet(s) = {}
    BY <1>3, <1>4, <1>6
  <2> QED
    BY <1>4, <1>5, <1>6, <2>1
<1>7. CASE s # <<>>
  <2>1. s[1] \in ToSet(s)
    BY <1>2, <1>4, <1>7
  <2> QED
    BY <1>4, <1>5, <1>7, <2>1
<1> QED
  BY <1>6, <1>7

LEMMA ToSetOne ==
    ASSUME NEW S, NEW b \in S
    PROVE  <<b>> \in Seq(S) /\ ToSet(<<b>>) = {b} /\ IsInjective(<<b>>)
<1>1. <<b>> \in Seq(S) /\ DOMAIN <<b>> = {1} /\ <<b>>[1] = b
  OBVIOUS
<1> DEFINE t == <<b>>
<1> HIDE DEF t
<1>2. t \in Seq(S) /\ DOMAIN t = {1} /\ t[1] = b
  BY <1>1 DEF t
<1>3. ToSet(t) = {b} /\ IsInjective(t)
  BY <1>2 DEF ToSet, IsInjective
<1> QED
  BY <1>2, <1>3 DEF t

LEMMA ToSetPush ==
    ASSUME NEW S, NEW s \in Seq(S), NEW b \in S, b \notin ToSet(s), IsInjective(s)
    PROVE  /\ <<b>> \o s \in Seq(S)
           /\ ToSet(<<b>> \o s) = ToSet(s) \cup {b}
           /\ IsInjective(<<b>> \o s)
<1> DEFINE t == <<b>> \o s
<1>1. /\ t \in Seq(S) /\ Len(t) = Len(s) + 1 /\ t[1] = b /\ Len(s) \in Nat
      /\ \A k \in 2 .. Len(t) : t[k] = s[k - 1]
  OBVIOUS
<1> HIDE DEF t
<1>2. \A x : x \in ToSet(s) <=> \E k \in 1 .. Len(s) : s[k] = x
  BY ToSetIs
<1>3. \A x : x \in ToSet(t) <=> \E k \in 1 .. Len(t) : t[k] = x
  BY <1>1, ToSetIs
<1>4. ASSUME NEW x PROVE x \in ToSet(t) <=> x \in ToSet(s) \/ x = b
  <2>1. ASSUME NEW k \in 1 .. Len(s), s[k] = x PROVE x \in ToSet(t)
    <3>1. k + 1 \in 2 .. Len(t) /\ (k + 1) - 1 = k
      BY <1>1
    <3>2. t[k + 1] = x
      BY <1>1, <2>1, <3>1
    <3> QED
      BY <1>1, <1>3, <3>1, <3>2
  <2>2. b \in ToSet(t)
    BY <1>1, <1>3
  <2>3. ASSUME NEW k \in 1 .. Len(t), t[k] = x, x # b PROVE x \in ToSet(s)
    <3>1. k \in 2 .. Len(t) /\ k - 1 \in 1 .. Len(s)
      BY <1>1, <2>3
    <3>2. s[k - 1] = x
      BY <1>1, <2>3, <3>1
    <3> QED
      BY <1>2, <3>1, <3>2
  <2> QED
    BY <1>2, <1>3, <2>1, <2>2, <2>3
<1>5. ASSUME NEW i \in 1 .. Len(t), NEW j \in 1 .. Len(t), t[i] = t[j] PROVE i = j
  <2>1. ASSUME NEW k \in 2 .. Len(t)
        PROVE  k - 1 \in 1 .. Len(s) /\ t[k] = s[k - 1] /\ t[k] # b
    <3>1. k - 1 \in 1 .. Len(s) /\ t[k] = s[k - 1]
      BY <1>1
    <3> QED
      BY <1>2, <3>1
  <2>2. CASE i = 1 \/ j = 1
    BY <1>1, <1>5, <2>1, <2>2
  <2>3. CASE i # 1 /\ j # 1
    <3>1. i \in 2 .. Len(t) /\ j \in 2 .. Len(t)
      BY <1>1, <2>3
    <3>2. i - 1 = j - 1
      BY <1>5, <2>1, <3>1 DEF IsInjective
    <3> QED
      BY <3>2
  <2> QED
    BY <2>2, <2>3
<1>6. IsInjective(t)
  BY <1>1, <1>5 DEF IsInjective
<1> QED
  BY <1>1, <1>4, <1>6 DEF t

LEMMA ToSetAppend ==
    ASSUME NEW S, NEW s \in Seq(S), NEW b \in S, b \notin ToSet(s), IsInjective(s)
    PROVE  /\ Append(s, b) \in Seq(S)
           /\ ToSet(Append(s, b)) = ToSet(s) \cup {b}
           /\ IsInjective(Append(s, b))
<1> DEFINE t == Append(s, b)
<1>1. /\ t \in Seq(S) /\ Len(t) = Len(s) + 1 /\ t[Len(t)] = b /\ Len(s) \in Nat
      /\ \A k \in 1 .. Len(s) : t[k] = s[k]
  OBVIOUS
<1> HIDE DEF t
<1>2. \A x : x \in ToSet(s) <=> \E k \in 1 .. Len(s) : s[k] = x
  BY ToSetIs
<1>3. \A x : x \in ToSet(t) <=> \E k \in 1 .. Len(t) : t[k] = x
  BY <1>1, ToSetIs
<1>4. 1 .. Len(t) = (1 .. Len(s)) \cup {Len(t)}
  BY <1>1
<1>5. ToSet(t) = ToSet(s) \cup {b}
  BY <1>1, <1>2, <1>3, <1>4
<1>6. IsInjective(t)
  <2>1. ASSUME NEW i \in 1 .. Len(t), NEW j \in 1 .. Len(t), t[i] = t[j] PROVE i = j
    BY <1>1, <1>2, <1>4, <2>1 DEF IsInjective
  <2> QED
    BY <1>1, <2>1 DEF IsInjective
<1> QED
  BY <1>1, <1>5, <1>6 DEF t

LEMMA ToSetRemoveAt ==
    ASSUME NEW S, NEW s \in Seq(S), NEW k \in 1 .. Len(s), IsInjective(s)
    PROVE  /\ RemoveAt(s, k) \in Seq(S)
           /\ ToSet(RemoveAt(s, k)) = ToSet(s) \ {s[k]}
           /\ IsInjective(RemoveAt(s, k))
<1> DEFINE t == RemoveAt(s, k)
<1>1. /\ t \in Seq(S) /\ Len(t) = Len(s) - 1
      /\ \A i \in 1 .. k - 1 : t[i] = s[i]
      /\ \A i \in k .. Len(s) - 1 : t[i] = s[i + 1]
  BY RemoveAtIs
<1> HIDE DEF t
<1> DEFINE from(i) == IF i < k THEN i ELSE i + 1
<1>2. Len(s) \in Nat /\ k \in 1 .. Len(s)
  OBVIOUS
<1>3. ASSUME NEW i \in 1 .. Len(t) PROVE from(i) \in (1 .. Len(s)) \ {k} /\ t[i] = s[from(i)]
  BY <1>1, <1>2
<1>4. ASSUME NEW j \in (1 .. Len(s)) \ {k} PROVE \E i \in 1 .. Len(t) : from(i) = j
  <2>1. CASE j < k
    <3>1. j \in 1 .. Len(t) /\ from(j) = j
      BY <1>1, <1>2, <2>1
    <3> QED
      BY <3>1
  <2>2. CASE j > k
    <3>1. j - 1 \in 1 .. Len(t) /\ from(j - 1) = j
      BY <1>1, <1>2, <2>2
    <3> QED
      BY <3>1
  <2> QED
    BY <1>2, <2>1, <2>2
<1>5. \A i, j \in 1 .. Len(t) : from(i) = from(j) => i = j
  BY <1>1, <1>2
<1> HIDE DEF from
<1>6. \A x : x \in ToSet(s) <=> \E i \in 1 .. Len(s) : s[i] = x
  BY ToSetIs
<1>7. \A x : x \in ToSet(t) <=> \E i \in 1 .. Len(t) : t[i] = x
  BY <1>1, ToSetIs
<1>8. \A i, j \in 1 .. Len(s) : s[i] = s[j] => i = j
  BY DEF IsInjective
<1>9. ToSet(t) = ToSet(s) \ {s[k]}
  <2>1. ASSUME NEW x \in ToSet(t)
        PROVE  x \in ToSet(s) /\ x # s[k]
    <3>1. PICK i \in 1 .. Len(t) : t[i] = x
      BY <1>7, <2>1
    <3>2. from(i) \in 1 .. Len(s) /\ from(i) # k /\ x = s[from(i)]
      BY <1>3, <3>1
    <3> QED
      BY <1>2, <1>6, <1>8, <3>2
  <2>2. ASSUME NEW x \in ToSet(s), x # s[k]
        PROVE  x \in ToSet(t)
    <3>1. PICK j \in 1 .. Len(s) : s[j] = x
      BY <1>6, <2>2
    <3>2. j \in (1 .. Len(s)) \ {k}
      BY <2>2, <3>1
    <3>3. PICK i \in 1 .. Len(t) : from(i) = j
      BY <1>4, <3>2
    <3>4. t[i] = x
      BY <1>3, <3>1, <3>3
    <3> QED
      BY <1>7, <3>4
  <2> QED
    BY <2>1, <2>2
<1>10. IsInjective(t)
  <2>1. \A i, j \in 1 .. Len(t) : t[i] = t[j] => i = j
    BY <1>3, <1>5, <1>8
  <2> QED
    BY <1>1, <2>1 DEF IsInjective
<1> QED
  BY <1>1, <1>9, <1>10 DEF t

LEMMA TailIsRemoveAt ==
    ASSUME NEW S, NEW s \in Seq(S), s # <<>>
    PROVE  Tail(s) = RemoveAt(s, 1)
<1>1. 1 \in 1 .. Len(s)
  OBVIOUS
<1>2. /\ RemoveAt(s, 1) \in Seq(S) /\ Len(RemoveAt(s, 1)) = Len(s) - 1
      /\ \A i \in 1 .. Len(s) - 1 : RemoveAt(s, 1)[i] = s[i + 1]
  BY <1>1, RemoveAtIs
<1>3. /\ Tail(s) \in Seq(S) /\ Len(Tail(s)) = Len(s) - 1
      /\ \A i \in 1 .. Len(s) - 1 : Tail(s)[i] = s[i + 1]
  OBVIOUS
<1> QED
  BY <1>2, <1>3, SeqEqual

LEMMA ToSetTail ==
    ASSUME NEW S, NEW s \in Seq(S), s # <<>>, IsInjective(s)
    PROVE  /\ Tail(s) \in Seq(S)
           /\ s[1] \in ToSet(s)
           /\ ToSet(Tail(s)) = ToSet(s) \ {s[1]}
           /\ IsInjective(Tail(s))
<1>1. 1 \in 1 .. Len(s)
  OBVIOUS
<1>2. Tail(s) = RemoveAt(s, 1)
  BY TailIsRemoveAt
<1>3. s[1] \in ToSet(s)
  BY <1>1, ToSetIs
<1>4. /\ RemoveAt(s, 1) \in Seq(S)
      /\ ToSet(RemoveAt(s, 1)) = ToSet(s) \ {s[1]}
      /\ IsInjective(RemoveAt(s, 1))
  BY <1>1, ToSetRemoveAt
<1> QED
  BY <1>2, <1>3, <1>4

(* A list stays when none of its elements names another one.               *)
LEMMA ListStays ==
    ASSUME NEW next, NEW next2, NEW first, NEW nil, NEW s,
           IsList(next, first, nil, s),
           DOMAIN next2 = DOMAIN next,
           \A k \in 1 .. Len(s) : next2[s[k]] = next[s[k]]
    PROVE  IsList(next2, first, nil, s)
<1>1. Len(s) \in Nat /\ (s # <<>> => Len(s) \in 1 .. Len(s))
  BY DEF IsList
<1> QED
  BY <1>1 DEF IsList

(* An element is put before a list.                                        *)
LEMMA ListPush ==
    ASSUME NEW next, NEW next2, NEW first, NEW nil, NEW s, NEW b \in DOMAIN next,
           IsList(next, first, nil, s),
           DOMAIN next2 = DOMAIN next,
           next2[b] = first,
           \A k \in 1 .. Len(s) : next2[s[k]] = next[s[k]]
    PROVE  IsList(next2, b, nil, <<b>> \o s)
<1>1. /\ s \in Seq(DOMAIN next2) /\ Len(s) \in Nat
      /\ s # <<>> => Len(s) >= 1
  BY DEF IsList
<1> DEFINE t == <<b>> \o s
<1>2. /\ t \in Seq(DOMAIN next2) /\ Len(t) = Len(s) + 1 /\ t[1] = b /\ t # <<>>
      /\ \A k \in 2 .. Len(t) : t[k] = s[k - 1]
  BY <1>1
<1> HIDE DEF t
<1>3. next2[t[Len(t)]] = nil
  BY <1>1, <1>2 DEF IsList
<1>4. ASSUME NEW k \in 1 .. Len(t) - 1 PROVE next2[t[k]] = t[k + 1]
  <2>1. t[k + 1] = s[k]
    BY <1>1, <1>2
  <2>2. CASE k = 1
    BY <1>1, <1>2, <2>1, <2>2 DEF IsList
  <2>3. CASE k # 1
    <3>1. t[k] = s[k - 1] /\ k - 1 \in 1 .. Len(s) - 1 /\ (k - 1) + 1 = k
      BY <1>1, <1>2, <2>3
    <3>2. next[s[k - 1]] = s[k]
      BY <3>1 DEF IsList
    <3> QED
      BY <1>1, <2>1, <3>1, <3>2
  <2> QED
    BY <2>2, <2>3
<1>5. IsList(next2, b, nil, t)
  BY <1>2, <1>3, <1>4 DEF IsList
<1> QED
  BY <1>5 DEF t

(* The first element of a list is taken off.                               *)
LEMMA ListPop ==
    ASSUME NEW next, NEW next2, NEW first, NEW nil, NEW s,
           IsList(next, first, nil, s), s # <<>>,
           DOMAIN next2 = DOMAIN next,
           \A k \in 2 .. Len(s) : next2[s[k]] = next[s[k]]
    PROVE  IsList(next2, next[first], nil, Tail(s))
<1>1. s \in Seq(DOMAIN next2) /\ Len(s) \in Nat /\ Len(s) >= 1 /\ first = s[1]
  BY DEF IsList
<1>5. Len(s) = 1 \/ Len(s) > 1
  <2>1. Len(s) \in Nat
    BY <1>1
  <2>2. Len(s) # 0
    BY <1>1
  <2> QED
    BY <2>1, <2>2
<1> DEFINE t == Tail(s)
<1>2. /\ t \in Seq(DOMAIN next2) /\ Len(t) = Len(s) - 1
      /\ \A k \in 1 .. Len(s) - 1 : t[k] = s[k + 1]
  BY <1>1
<1>0. SUFFICES IsList(next2, next[first], nil, t)
  OBVIOUS
<1> HIDE DEF t
<1>3. CASE Len(s) = 1
  <2>1. next[first] = nil
    BY <1>1, <1>3 DEF IsList
  <2>2. t = <<>> /\ Len(t) = 0
    BY <1>2, <1>3
  <2> QED
    BY <1>2, <2>1, <2>2 DEF IsList
<1>4. CASE Len(s) > 1
  <2>1. t # <<>> /\ next[first] = t[1]
    <3>1. 1 \in 1 .. Len(s) - 1
      BY <1>1, <1>4
    <3>2. t[1] = s[2] /\ next[s[1]] = s[2]
      BY <1>2, <3>1 DEF IsList
    <3> QED
      BY <1>1, <1>2, <1>4, <3>2
  <2>2. next2[t[Len(t)]] = nil
    <3>1. t[Len(t)] = s[Len(s)] /\ Len(s) \in 2 .. Len(s)
      BY <1>1, <1>2, <1>4
    <3> QED
      BY <3>1 DEF IsList
  <2>3. ASSUME NEW k \in 1 .. Len(t) - 1 PROVE next2[t[k]] = t[k + 1]
    <3>1. k + 1 \in 2 .. Len(s) - 1
      BY <1>1, <1>2
    <3>2. next[s[k + 1]] = s[(k + 1) + 1] /\ next2[s[k + 1]] = next[s[k + 1]]
      BY <1>1, <3>1 DEF IsList
    <3> QED
      BY <1>1, <1>2, <3>1, <3>2
  <2> QED
    BY <1>2, <2>1, <2>2, <2>3 DEF IsList
<1> QED
  BY <1>3, <1>4, <1>5

(* An element is put behind the last one of a list.                        *)
LEMMA ListAppend ==
    ASSUME NEW next, NEW next2, NEW first, NEW nil, NEW s, NEW b \in DOMAIN next,
           IsList(next, first, nil, s), s # <<>>,
           DOMAIN next2 = DOMAIN next,
           next2[s[Len(s)]] = b, next2[b] = nil,
           \A k \in 1 .. Len(s) - 1 : next2[s[k]] = next[s[k]]
    PROVE  IsList(next2, first, nil, Append(s, b))
<1>1. s \in Seq(DOMAIN next2) /\ Len(s) \in Nat \ {0} /\ first = s[1]
  BY DEF IsList
<1> DEFINE t == Append(s, b)
<1>2. /\ t \in Seq(DOMAIN next2) /\ Len(t) = Len(s) + 1 /\ t # <<>>
      /\ t[Len(t)] = b
      /\ \A k \in 1 .. Len(s) : t[k] = s[k]
  BY <1>1
<1> HIDE DEF t
<1>3. ASSUME NEW k \in 1 .. Len(t) - 1 PROVE next2[t[k]] = t[k + 1]
  <2>1. CASE k = Len(s)
    BY <1>1, <1>2, <2>1
  <2>2. CASE k \in 1 .. Len(s) - 1
    BY <1>1, <1>2, <2>2 DEF IsList
  <2> QED
    BY <1>1, <1>2, <2>1, <2>2
<1>4. first = t[1]
  BY <1>1, <1>2
<1>5. IsList(next2, first, nil, t)
  BY <1>2, <1>3, <1>4 DEF IsList
<1> QED
  BY <1>5 DEF t

(* An element behind the first one is bypassed.                            *)
LEMMA ListBypass ==
    ASSUME NEW next, NEW next2, NEW first, NEW nil, NEW s, NEW k \in 2 .. Len(s),
           IsList(next, first, nil, s),
           DOMAIN next2 = DOMAIN next,
           next2[s[k - 1]] = next[s[k]],
           \A i \in (1 .. Len(s)) \ {k - 1, k} : next2[s[i]] = next[s[i]]
    PROVE  IsList(next2, first, nil, RemoveAt(s, k))
<1>1. s \in Seq(DOMAIN next2) /\ Len(s) \in Nat /\ first = s[1] /\ Len(s) >= 2
  BY DEF IsList
<1> DEFINE t == RemoveAt(s, k)
<1>2. /\ t \in Seq(DOMAIN next2) /\ Len(t) = Len(s) - 1
      /\ \A i \in 1 .. k - 1 : t[i] = s[i]
      /\ \A i \in k .. Len(s) - 1 : t[i] = s[i + 1]
  BY <1>1, RemoveAtIs
<1> HIDE DEF t
<1>3. t # <<>> /\ first = t[1]
  BY <1>1, <1>2
<1>4. ASSUME NEW i \in 1 .. Len(t) - 1 PROVE next2[t[i]] = t[i + 1]
  <2>1. CASE i < k - 1
    <3>1. /\ i \in 1 .. Len(s) - 1 /\ i \notin {k - 1, k}
          /\ i \in 1 .. k - 1 /\ i + 1 \in 1 .. k - 1
      BY <1>1, <1>2, <2>1
    <3> QED
      BY <1>2, <3>1 DEF IsList
  <2>2. CASE i = k - 1
    <3>1. t[i] = s[k - 1] /\ t[i + 1] = s[k + 1] /\ k \in 1 .. Len(s) - 1
      BY <1>1, <1>2, <2>2
    <3> QED
      BY <3>1 DEF IsList
  <2>3. CASE i > k - 1
    <3>1. /\ i \in 1 .. Len(s) - 1 /\ i + 1 \in 1 .. Len(s) - 1
          /\ i \in k .. Len(s) - 1 /\ i + 1 \in k .. Len(s) - 1
          /\ i + 1 \notin {k - 1, k}
      BY <1>1, <1>2, <2>3
    <3>2. t[i] = s[i + 1] /\ t[i + 1] = s[(i + 1) + 1]
      BY <1>2, <3>1
    <3> QED
      BY <3>1, <3>2 DEF IsList
  <2> QED
    BY <2>1, <2>2, <2>3
<1>5. next2[t[Len(t)]] = nil
  <2>1. CASE k = Len(s)
    <3>1. t[Len(t)] = s[k - 1]
      BY <1>1, <1>2, <2>1
    <3> QED
      BY <1>1, <2>1, <3>1 DEF IsList
  <2>2. CASE k < Len(s)
    <3>1. Len(t) \in k .. Len(s) - 1 /\ Len(t) + 1 = Len(s)
      BY <1>1, <1>2, <2>2
    <3>2. t[Len(t)] = s[Len(s)] /\ Len(s) \in (1 .. Len(s)) \ {k - 1, k}
      BY <1>1, <1>2, <2>2, <3>1
    <3> QED
      BY <1>1, <3>2 DEF IsList
  <2> QED
    BY <1>1, <2>1, <2>2
<1>6. IsList(next2, first, nil, t)
  BY <1>2, <1>3, <1>4, <1>5 DEF IsList
<1> QED
  BY <1>6 DEF t

(* A list that meets no element twice is no longer than there are elements. *)
LEMMA DistinctFits ==
    ASSUME NEW S, IsFiniteSet(S), NEW s \in Seq(S), IsInjective(s)
    PROVE  Len(s) <= Cardinality(S)
<1> DEFINE f == [k \in 1 .. Len(s) |-> s[k]]
<1>1. f \in Injection(1 .. Len(s), S)
  BY DEF Injection, IsInjective
<1>2. IsFiniteSet(1 .. Len(s)) /\ Cardinality(1 .. Len(s)) = Len(s)
  <2>1. 1 \in Int /\ Len(s) \in Int
    OBVIOUS
  <2>2. /\ IsFiniteSet(1 .. Len(s))
        /\ Cardinality(1 .. Len(s)) = IF 1 > Len(s) THEN 0 ELSE Len(s) - 1 + 1
    BY <2>1, FS_Interval, Zenon
  <2>3. Len(s) \in Nat
    OBVIOUS
  <2> QED
    BY <2>2, <2>3
<1> QED
  BY <1>1, <1>2, FS_Injection

-----------------------------------------------------------------------------
(* Trees                                                                   *)

(* The place of a node: its level, 0 for leaves, and the keys that are     *)
(* searched for below it, from lo to before hi.                            *)
Place == [lev : Nat, lo : Nat, hi : Nat]

(* The nodes of g are those in the tree; g gives their places.             *)
Covers(g, b, v, k) == g[b].lev = v /\ g[b].lo <= k /\ k < g[b].hi

(* On every level up to h, every key is in the range of exactly one node.  *)
Tiled(g, h, top) ==
    /\ h \in Nat /\ top \in Nat
    /\ \A b \in DOMAIN g : /\ g[b] \in Place
                           /\ g[b].lev <= h
                           /\ g[b].lo < g[b].hi /\ g[b].hi <= top + 1
    /\ \A v \in 0 .. h, k \in 0 .. top : \E b \in DOMAIN g : Covers(g, b, v, k)
    /\ \A b, c \in DOMAIN g, v \in 0 .. h, k \in 0 .. top :
         Covers(g, b, v, k) /\ Covers(g, c, v, k) => b = c

(* The rows of an inner node are the bounds between its children.          *)
InnerFits(str, g, at, row, child) ==
    /\ row \in Seq(DOMAIN str) /\ child \in Seq(DOMAIN g)
    /\ Len(child) = Len(row) + 1
    /\ \A i \in 1 .. Len(child) : g[child[i]].lev + 1 = at.lev
    /\ g[child[1]].lo = at.lo /\ g[child[Len(child)]].hi = at.hi
    /\ \A i \in 1 .. Len(row) : /\ g[child[i]].hi = str[row[i]]
                                /\ g[child[i + 1]].lo = str[row[i]]

(* The rows of a leaf are keys in order, within its range.                 *)
LeafFits(at, row, K) ==
    /\ K \subseteq Nat /\ row \in Seq(K)
    /\ \A i \in 1 .. Len(row) : at.lo <= row[i] /\ row[i] < at.hi
    /\ \A i, j \in 1 .. Len(row) : i < j => row[i] < row[j]

(* The rows of a node.                                                     *)
RowSet(t, b) == ToSet(t.node[b].row)

(* Every string is a row of one inner node, except those in E.             *)
Owned(t, g, E) ==
    /\ E \subseteq DOMAIN t.string
    /\ \A b \in DOMAIN g : g[b].lev # 0 => RowSet(t, b) \subseteq DOMAIN t.string \ E
    /\ \A b, c \in DOMAIN g : g[b].lev # 0 /\ g[c].lev # 0 /\ b # c
                                => RowSet(t, b) \cap RowSet(t, c) = {}
    /\ \A s \in DOMAIN t.string \ E : \E b \in DOMAIN g : g[b].lev # 0 /\ s \in RowSet(t, b)

(* The links of the free list and of the chain of leaves.                  *)
NextIn(t) == [b \in DOMAIN t.node |-> t.node[b].next]

(* The next leaf begins where a leaf ends.                                 *)
Chained(t, g, top, none) ==
    \A b \in DOMAIN g : g[b].lev = 0 =>
      LET c == t.node[b].next IN
        \/ c = none /\ g[b].hi = top + 1
        \/ c \in DOMAIN g /\ g[c].lev = 0 /\ g[c].lo = g[b].hi

(* The keys in the leaves.                                                 *)
KeysIn(t, g) == UNION {RowSet(t, b) : b \in {c \in DOMAIN g : g[c].lev = 0}}

(* What the operators on sequences return.                                 *)
LEMMA SubSeqIs ==
    ASSUME NEW S, NEW s \in Seq(S), NEW i \in 1 .. Len(s) + 1, NEW j \in 0 .. Len(s), i <= j + 1
    PROVE  /\ SubSeq(s, i, j) \in Seq(S)
           /\ Len(SubSeq(s, i, j)) = j - i + 1
           /\ \A k \in 1 .. j - i + 1 : SubSeq(s, i, j)[k] = s[i + k - 1]
           /\ \A x : x \in ToSet(SubSeq(s, i, j)) <=> \E k \in i .. j : s[k] = x
<1> DEFINE u == SubSeq(s, i, j)
<1>1. /\ u \in Seq(S) /\ Len(u) = j - i + 1
      /\ \A k \in 1 .. j - i + 1 : u[k] = s[i + k - 1]
  OBVIOUS
<1> HIDE DEF u
<1>2. \A x : x \in ToSet(u) <=> \E k \in 1 .. Len(u) : u[k] = x
  BY <1>1, ToSetIs
<1>3. ASSUME NEW x PROVE x \in ToSet(u) <=> \E k \in i .. j : s[k] = x
  <2>1. ASSUME NEW k \in 1 .. Len(u), u[k] = x PROVE \E m \in i .. j : s[m] = x
    <3>1. i + k - 1 \in i .. j /\ s[i + k - 1] = x
      BY <1>1, <2>1
    <3> QED
      BY <3>1
  <2>2. ASSUME NEW k \in i .. j, s[k] = x PROVE \E m \in 1 .. Len(u) : u[m] = x
    <3>1. k - i + 1 \in 1 .. Len(u) /\ i + (k - i + 1) - 1 = k
      BY <1>1
    <3>2. u[k - i + 1] = x
      BY <1>1, <2>2, <3>1
    <3> QED
      BY <3>1, <3>2
  <2> QED
    BY <1>2, <2>1, <2>2
<1> QED
  BY <1>1, <1>3 DEF u

(* The elements of a concatenation.                                        *)
LEMMA ConcatIs ==
    ASSUME NEW S, NEW s \in Seq(S), NEW t \in Seq(S)
    PROVE  /\ s \o t \in Seq(S)
           /\ Len(s \o t) = Len(s) + Len(t)
           /\ \A k \in 1 .. Len(s) : (s \o t)[k] = s[k]
           /\ \A k \in Len(s) + 1 .. Len(s) + Len(t) : (s \o t)[k] = t[k - Len(s)]
           /\ ToSet(s \o t) = ToSet(s) \cup ToSet(t)
<1> DEFINE u == s \o t
<1>1. /\ u \in Seq(S) /\ Len(u) = Len(s) + Len(t) /\ Len(s) \in Nat /\ Len(t) \in Nat
      /\ \A k \in 1 .. Len(s) : u[k] = s[k]
      /\ \A k \in Len(s) + 1 .. Len(s) + Len(t) : u[k] = t[k - Len(s)]
  OBVIOUS
<1> HIDE DEF u
<1>2. ASSUME NEW x PROVE x \in ToSet(u) <=> x \in ToSet(s) \cup ToSet(t)
  <2>1. /\ x \in ToSet(u) <=> \E k \in 1 .. Len(u) : u[k] = x
        /\ x \in ToSet(s) <=> \E k \in 1 .. Len(s) : s[k] = x
        /\ x \in ToSet(t) <=> \E k \in 1 .. Len(t) : t[k] = x
    BY <1>1, ToSetIs
  <2>2. ASSUME NEW k \in 1 .. Len(u), u[k] = x PROVE x \in ToSet(s) \cup ToSet(t)
    <3>1. CASE k <= Len(s)
      BY <1>1, <2>1, <2>2, <3>1
    <3>2. CASE k > Len(s)
      <4>1. k - Len(s) \in 1 .. Len(t) /\ t[k - Len(s)] = x
        BY <1>1, <2>2, <3>2
      <4> QED
        BY <2>1, <4>1
    <3> QED
      BY <1>1, <3>1, <3>2
  <2>3. ASSUME NEW k \in 1 .. Len(s), s[k] = x PROVE x \in ToSet(u)
    <3>1. k \in 1 .. Len(u) /\ u[k] = x
      BY <1>1, <2>3
    <3> QED
      BY <2>1, <3>1
  <2>4. ASSUME NEW k \in 1 .. Len(t), t[k] = x PROVE x \in ToSet(u)
    <3>1. Len(s) + k \in Len(s) + 1 .. Len(s) + Len(t) /\ (Len(s) + k) - Len(s) = k
      BY <1>1
    <3>2. Len(s) + k \in 1 .. Len(u) /\ u[Len(s) + k] = x
      BY <1>1, <2>4, <3>1
    <3> QED
      BY <2>1, <3>2
  <2> QED
    BY <2>1, <2>2, <2>3, <2>4
<1>3. ToSet(u) = ToSet(s) \cup ToSet(t)
  BY <1>2
<1> QED
  BY <1>1, <1>3 DEF u

(* The sequence of one element.                                            *)
LEMMA OneIs ==
    ASSUME NEW S, NEW x \in S
    PROVE  /\ <<x>> \in Seq(S) /\ Len(<<x>>) = 1 /\ <<x>>[1] = x
           /\ ToSet(<<x>>) = {x}
  BY ToSetOne

(* The elements of a sequence after an insertion.                          *)
LEMMA InsertAtIs ==
    ASSUME NEW S, NEW s \in Seq(S), NEW i \in 1 .. Len(s) + 1, NEW e \in S
    PROVE  /\ InsertAt(s, i, e) \in Seq(S)
           /\ Len(InsertAt(s, i, e)) = Len(s) + 1
           /\ \A k \in 1 .. i - 1 : InsertAt(s, i, e)[k] = s[k]
           /\ InsertAt(s, i, e)[i] = e
           /\ \A k \in i + 1 .. Len(s) + 1 : InsertAt(s, i, e)[k] = s[k - 1]
           /\ ToSet(InsertAt(s, i, e)) = ToSet(s) \cup {e}
<1> DEFINE l == SubSeq(s, 1, i - 1)
           r == SubSeq(s, i, Len(s))
           m == <<e>>
           lm == l \o m
           u == lm \o r
<1>0. Len(s) \in Nat /\ 1 \in 1 .. Len(s) + 1 /\ i - 1 \in 0 .. Len(s) /\ Len(s) \in 0 .. Len(s)
  OBVIOUS
<1>1. /\ l \in Seq(S) /\ Len(l) = i - 1 /\ \A k \in 1 .. i - 1 : l[k] = s[k]
      /\ \A x : x \in ToSet(l) <=> \E k \in 1 .. i - 1 : s[k] = x
  <2> DEFINE j == i - 1
  <2>1. j \in 0 .. Len(s) /\ 1 <= j + 1 /\ j - 1 + 1 = j /\ \A k \in 1 .. j : 1 + k - 1 = k
    OBVIOUS
  <2> HIDE DEF j
  <2>2. /\ SubSeq(s, 1, j) \in Seq(S) /\ Len(SubSeq(s, 1, j)) = j
        /\ \A k \in 1 .. j : SubSeq(s, 1, j)[k] = s[k]
        /\ \A x : x \in ToSet(SubSeq(s, 1, j)) <=> \E k \in 1 .. j : s[k] = x
    <3>1. /\ SubSeq(s, 1, j) \in Seq(S) /\ Len(SubSeq(s, 1, j)) = j - 1 + 1
          /\ \A k \in 1 .. j - 1 + 1 : SubSeq(s, 1, j)[k] = s[1 + k - 1]
          /\ \A x : x \in ToSet(SubSeq(s, 1, j)) <=> \E k \in 1 .. j : s[k] = x
      BY ONLY s \in Seq(S), <1>0, <2>1, SubSeqIs
    <3> DEFINE p == SubSeq(s, 1, j)
    <3> HIDE DEF p
    <3> QED
      BY ONLY <2>1, <3>1 DEF p
  <2> QED
    BY ONLY <2>2 DEF j, l
<1>2. /\ r \in Seq(S) /\ Len(r) = Len(s) - i + 1 /\ \A k \in 1 .. Len(s) - i + 1 : r[k] = s[i + k - 1]
      /\ \A x : x \in ToSet(r) <=> \E k \in i .. Len(s) : s[k] = x
  BY <1>0, SubSeqIs
<1>3. m \in Seq(S) /\ Len(m) = 1 /\ m[1] = e /\ ToSet(m) = {e}
  BY OneIs
<1>4. InsertAt(s, i, e) = u
  BY DEF InsertAt
<1> HIDE DEF l, r, m
<1>5. /\ lm \in Seq(S) /\ Len(lm) = i
      /\ \A k \in 1 .. i - 1 : lm[k] = s[k]
      /\ lm[i] = e
      /\ ToSet(lm) = ToSet(l) \cup {e}
  <2>0. l \in Seq(S) /\ m \in Seq(S)
    BY <1>1, <1>3
  <2>1. /\ lm \in Seq(S) /\ Len(lm) = Len(l) + Len(m)
        /\ \A k \in 1 .. Len(l) : lm[k] = l[k]
        /\ \A k \in Len(l) + 1 .. Len(l) + Len(m) : lm[k] = m[k - Len(l)]
        /\ ToSet(lm) = ToSet(l) \cup ToSet(m)
    BY <2>0, ConcatIs
  <2> HIDE DEF lm
  <2>2. i \in Len(l) + 1 .. Len(l) + Len(m) /\ i - Len(l) = 1
    BY <1>1, <1>3
  <2>3. lm[i] = e
    BY <1>3, <2>1, <2>2
  <2>4. Len(lm) = i /\ Len(l) = i - 1 /\ \A k \in 1 .. i - 1 : lm[k] = s[k]
    BY <1>1, <1>3, <2>1
  <2> QED
    BY <1>3, <2>1, <2>3, <2>4
<1> HIDE DEF lm
<1>6. /\ u \in Seq(S) /\ Len(u) = Len(lm) + Len(r)
      /\ \A k \in 1 .. Len(lm) : u[k] = lm[k]
      /\ \A k \in Len(lm) + 1 .. Len(lm) + Len(r) : u[k] = r[k - Len(lm)]
      /\ ToSet(u) = ToSet(lm) \cup ToSet(r)
  BY <1>5, <1>2, ConcatIs
<1> HIDE DEF u
<1>7. ASSUME NEW k \in i + 1 .. Len(s) + 1 PROVE u[k] = s[k - 1]
  <2>1. k \in Len(lm) + 1 .. Len(lm) + Len(r) /\ k - i \in 1 .. Len(s) - i + 1 /\ i + (k - i) - 1 = k - 1
    BY <1>0, <1>5, <1>2
  <2> QED
    BY <1>2, <1>5, <1>6, <2>1
<1>8. ToSet(u) = ToSet(s) \cup {e}
  <2>1. \A x : x \in ToSet(s) <=> \E k \in 1 .. Len(s) : s[k] = x
    BY ToSetIs
  <2>2. ASSUME NEW x PROVE x \in ToSet(s) <=> x \in ToSet(l) \/ x \in ToSet(r)
    <3>1. \A k \in 1 .. Len(s) : k \in 1 .. i - 1 \/ k \in i .. Len(s)
      OBVIOUS
    <3>2. 1 .. i - 1 \subseteq 1 .. Len(s) /\ i .. Len(s) \subseteq 1 .. Len(s)
      OBVIOUS
    <3> QED
      BY <2>1, <3>1, <3>2, <1>1, <1>2
  <2> QED
    BY <2>2, <1>6, <1>5
<1>9. Len(u) = Len(s) + 1 /\ u[i] = e /\ \A k \in 1 .. i - 1 : u[k] = s[k]
  BY <1>0, <1>2, <1>5, <1>6
<1> QED
  BY <1>4, <1>6, <1>7, <1>8, <1>9

(* find_index: the least row that is greater ends the count.               *)
LEMMA PrefixCount ==
    ASSUME NEW N \in Nat, NEW f, NEW k \in Int, \A i \in 1 .. N : f[i] \in Int,
           NEW c, c = Cardinality({i \in 1 .. N : \A j \in 1 .. i : f[j] <= k})
    PROVE  /\ c \in 0 .. N
           /\ \A i \in 1 .. c : f[i] <= k
           /\ c < N => k < f[c + 1]
<1> DEFINE C == {i \in 1 .. N : \A j \in 1 .. i : f[j] <= k}
           Out == {i \in 0 .. N : i = N \/ k < f[i + 1]}
<1>1. Out \in SUBSET Nat /\ Out # {}
  <2>1. N \in Out
    OBVIOUS
  <2> QED
    BY <2>1
<1>2. PICK m \in Out : \A i \in Out : m <= i
  <2> HIDE DEF Out
  <2> QED
    BY <1>1, LeastNat
<1>3. m \in 0 .. N /\ (m = N \/ k < f[m + 1])
  BY <1>2
<1>4. ASSUME NEW i \in 1 .. m PROVE f[i] <= k
  <2>1. i - 1 \in 0 .. N /\ i - 1 \notin Out /\ i \in 1 .. N
    <3>1. i - 1 \in 0 .. N /\ ~(m <= i - 1) /\ i \in 1 .. N
      BY <1>3
    <3> HIDE DEF Out
    <3> QED
      BY <1>2, <3>1
  <2>2. ~(k < f[(i - 1) + 1]) /\ (i - 1) + 1 = i
    BY <2>1
  <2> QED
    BY <2>1, <2>2
<1>5. C = 1 .. m
  <2>1. ASSUME NEW i \in C PROVE i \in 1 .. m
    <3>1. i \in 1 .. N /\ \A j \in 1 .. i : f[j] <= k
      OBVIOUS
    <3>2. SUFFICES ASSUME i > m PROVE FALSE
      BY <1>3, <3>1
    <3>3. m # N /\ m + 1 \in 1 .. i /\ m + 1 \in 1 .. N
      BY <1>3, <3>1, <3>2
    <3>4. f[m + 1] <= k /\ k < f[m + 1] /\ f[m + 1] \in Int
      BY <1>3, <3>1, <3>3
    <3> QED
      BY <3>4
  <2>2. ASSUME NEW i \in 1 .. m PROVE i \in C
    BY <1>3, <1>4
  <2> HIDE DEF C
  <2> QED
    BY <2>1, <2>2
<1>6. Cardinality(1 .. m) = m
  <2>1. 1 \in Int /\ m \in Int
    BY <1>3
  <2>2. Cardinality(1 .. m) = IF 1 > m THEN 0 ELSE (m - 1) + 1
    BY <2>1, FS_Interval, Zenon
  <2> QED
    BY <1>3, <2>2
<1> HIDE DEF C
<1>7. Cardinality(C) = m
  BY <1>5, <1>6
<1>8. c = m
  BY <1>7 DEF C
<1>9. m \in 0 .. N /\ (\A i \in 1 .. m : f[i] <= k) /\ (m < N => k < f[m + 1])
  BY <1>3, <1>4
<1> QED
  BY <1>8, <1>9

(* Every place has keys.                                                   *)
Ordered(g) == \A b \in DOMAIN g : g[b] \in Place /\ g[b].lo < g[b].hi

(* The children of an inner node divide its range from left to right.      *)
LEMMA FitsInside ==
    ASSUME NEW str, NEW g, NEW at \in Place, NEW row, NEW child,
           InnerFits(str, g, at, row, child), Ordered(g)
    PROVE  /\ \A i, j \in 1 .. Len(child) : i < j => g[child[i]].hi <= g[child[j]].lo
           /\ \A i \in 1 .. Len(child) : /\ child[i] \in DOMAIN g
                                         /\ g[child[i]] \in Place
                                         /\ g[child[i]].lo < g[child[i]].hi
                                         /\ at.lo <= g[child[i]].lo /\ g[child[i]].hi <= at.hi
<1> DEFINE lo(i) == g[child[i]].lo
           hi(i) == g[child[i]].hi
           N == Len(child)
<1>1. /\ N \in Nat /\ N >= 1 /\ Len(row) = N - 1
      /\ \A i \in 1 .. N : child[i] \in DOMAIN g /\ g[child[i]] \in Place
      /\ \A i \in 1 .. N : lo(i) \in Nat /\ hi(i) \in Nat /\ lo(i) < hi(i)
      /\ lo(1) = at.lo /\ hi(N) = at.hi
      /\ \A i \in 1 .. N - 1 : hi(i) = lo(i + 1)
  <2>1. /\ row \in Seq(DOMAIN str) /\ child \in Seq(DOMAIN g) /\ N = Len(row) + 1
        /\ lo(1) = at.lo /\ hi(N) = at.hi
        /\ \A i \in 1 .. Len(row) : hi(i) = lo(i + 1)
    BY DEF InnerFits
  <2>2. Len(row) \in Nat
    BY <2>1
  <2>3. \A i \in 1 .. N : child[i] \in DOMAIN g
    BY <2>1
  <2>4. \A i \in 1 .. N : g[child[i]] \in Place /\ lo(i) \in Nat /\ hi(i) \in Nat /\ lo(i) < hi(i)
    BY <2>3 DEF Ordered, Place
  <2> HIDE DEF N, lo, hi
  <2>5. N \in Nat /\ N >= 1 /\ Len(row) = N - 1
    BY <2>1, <2>2
  <2> QED
    BY <2>1, <2>3, <2>4, <2>5
<1> HIDE DEF N, lo, hi
<1>2. ASSUME NEW i \in 1 .. N, NEW j \in 1 .. N, i < j PROVE hi(i) <= lo(j)
  <2> DEFINE S == {d \in Nat : i + 1 + d <= N => hi(i) <= lo(i + 1 + d)}
             M == N - i - 1
  <2>1. 0 \in S
    BY <1>1
  <2>2. ASSUME NEW d \in 0 .. M - 1, d \in S PROVE d + 1 \in S
    <3> DEFINE e == i + 1 + d
    <3>1. e \in 1 .. N - 1 /\ e \in 1 .. N /\ e + 1 \in 1 .. N /\ i + 1 + (d + 1) = e + 1 /\ d + 1 \in Nat
      BY <1>1
    <3>2. hi(i) <= lo(e)
      BY <2>2, <3>1
    <3>3. lo(e) < hi(e) /\ hi(e) = lo(e + 1) /\ lo(e) \in Nat /\ hi(i) \in Nat /\ lo(e + 1) \in Nat
      BY <1>1, <3>1
    <3>4. hi(i) <= lo(e + 1)
      BY <3>2, <3>3
    <3> QED
      BY <3>1, <3>4
  <2>3. M \in Nat /\ j - i - 1 \in 0 .. M /\ i + 1 + (j - i - 1) = j /\ j <= N
    BY <1>1, <1>2
  <2>4. j - i - 1 \in S
    <3> HIDE DEF S, M
    <3>1. \A d \in 0 .. M : d \in S
      BY <2>1, <2>2, <2>3, AllNat
    <3> QED
      BY <2>3, <3>1
  <2> QED
    BY <2>3, <2>4
<1>3. ASSUME NEW i \in 1 .. N PROVE at.lo <= lo(i) /\ hi(i) <= at.hi
  <2>1. 1 \in 1 .. N /\ N \in 1 .. N /\ lo(1) < hi(1) /\ lo(N) < hi(N)
    BY <1>1
  <2>2. CASE i = 1 /\ i = N
    BY <1>1, <2>2
  <2>3. CASE i = 1 /\ i # N
    <3>1. hi(i) <= lo(N)
      BY <1>1, <1>2, <2>1, <2>3
    <3> QED
      BY <1>1, <2>1, <2>3, <3>1
  <2>4. CASE i # 1 /\ i = N
    <3>1. hi(1) <= lo(i)
      BY <1>1, <1>2, <2>1, <2>4
    <3> QED
      BY <1>1, <2>1, <2>4, <3>1
  <2>5. CASE i # 1 /\ i # N
    <3>1. hi(1) <= lo(i) /\ hi(i) <= lo(N)
      BY <1>1, <1>2, <2>1, <2>5
    <3> QED
      BY <1>1, <2>1, <2>5, <3>1
  <2> QED
    BY <2>2, <2>3, <2>4, <2>5
<1> QED
  BY <1>1, <1>2, <1>3 DEF N, lo, hi

(* No node is twice a child of one node.                                   *)
LEMMA FitsOnce ==
    ASSUME NEW str, NEW g, NEW at \in Place, NEW row, NEW child,
           InnerFits(str, g, at, row, child), Ordered(g),
           NEW i \in 1 .. Len(child), NEW j \in 1 .. Len(child), child[i] = child[j]
    PROVE  i = j
<1> DEFINE lo(m) == g[child[m]].lo
           hi(m) == g[child[m]].hi
<1>1. Len(child) \in Nat
  BY DEF InnerFits
<1>2. /\ \A a, b \in 1 .. Len(child) : a < b => hi(a) <= lo(b)
      /\ \A a \in 1 .. Len(child) : lo(a) \in Nat /\ hi(a) \in Nat /\ lo(a) < hi(a)
  BY FitsInside DEF Place
<1>3. lo(i) = lo(j) /\ hi(i) = hi(j)
  OBVIOUS
<1> HIDE DEF lo, hi
<1> QED
  BY <1>1, <1>2, <1>3

(* A node fits as long as its strings and its children stay.               *)
LEMMA InnerStays ==
    ASSUME NEW str, NEW g, NEW at, NEW row, NEW child, NEW str2, NEW g2,
           InnerFits(str, g, at, row, child),
           \A s \in ToSet(row) : s \in DOMAIN str2 /\ str2[s] = str[s],
           \A c \in ToSet(child) : c \in DOMAIN g2 /\ g2[c] = g[c]
    PROVE  InnerFits(str2, g2, at, row, child)
<1>1. row \in Seq(DOMAIN str) /\ child \in Seq(DOMAIN g) /\ Len(child) = Len(row) + 1
  BY DEF InnerFits
<1>2. /\ \A i \in 1 .. Len(row) : row[i] \in ToSet(row)
      /\ \A i \in 1 .. Len(child) : child[i] \in ToSet(child)
      /\ Len(row) \in Nat
  BY <1>1, ToSetIs
<1>3. /\ \A i \in 1 .. Len(row) : row[i] \in DOMAIN str2 /\ str2[row[i]] = str[row[i]]
      /\ \A i \in 1 .. Len(child) : child[i] \in DOMAIN g2 /\ g2[child[i]] = g[child[i]]
  BY <1>2
<1>4. row \in Seq(DOMAIN str2) /\ child \in Seq(DOMAIN g2)
  BY <1>1, <1>3
<1>5. 1 \in 1 .. Len(child) /\ Len(child) \in 1 .. Len(child)
      /\ \A i \in 1 .. Len(row) : i \in 1 .. Len(child) /\ i + 1 \in 1 .. Len(child)
  BY <1>1, <1>2
<1> QED
  BY <1>1, <1>3, <1>4, <1>5 DEF InnerFits

(* A single child needs no separator.                                      *)
LEMMA FitsOne ==
    ASSUME NEW str, NEW g, NEW c \in DOMAIN g
    PROVE  InnerFits(str, g, [lev |-> g[c].lev + 1, lo |-> g[c].lo, hi |-> g[c].hi], <<>>, <<c>>)
<1>1. <<c>> \in Seq(DOMAIN g) /\ Len(<<c>>) = 1 /\ <<c>>[1] = c
  BY OneIs
<1>2. <<>> \in Seq(DOMAIN str) /\ Len(<<>>) = 0
  OBVIOUS
<1> DEFINE e == <<c>>
           z == <<>>
<1> HIDE DEF e, z
<1>3. InnerFits(str, g, [lev |-> g[c].lev + 1, lo |-> g[c].lo, hi |-> g[c].hi], z, e)
  BY <1>1, <1>2 DEF InnerFits, e, z
<1> QED
  BY <1>3 DEF e, z

(* Children next to each other, with the separators between them.          *)
LEMMA FitsSub ==
    ASSUME NEW str, NEW g, NEW at, NEW row, NEW child,
           InnerFits(str, g, at, row, child),
           NEW i \in 1 .. Len(child), NEW j \in 1 .. Len(child), i <= j
    PROVE  InnerFits(str, g, [lev |-> at.lev, lo |-> g[child[i]].lo, hi |-> g[child[j]].hi],
                     SubSeq(row, i, j - 1), SubSeq(child, i, j))
<1>1. row \in Seq(DOMAIN str) /\ child \in Seq(DOMAIN g) /\ Len(child) = Len(row) + 1 /\ Len(row) \in Nat
  BY DEF InnerFits
<1> DEFINE m == j - 1
           u == SubSeq(row, i, m)
           v == SubSeq(child, i, j)
<1>2. i \in 1 .. Len(row) + 1 /\ m \in 0 .. Len(row) /\ i <= m + 1 /\ j \in 0 .. Len(child)
      /\ i <= j + 1 /\ i \in 1 .. Len(child) + 1 /\ m - i + 1 = j - i
  BY <1>1
<1> HIDE DEF m
<1>3. u \in Seq(DOMAIN str) /\ Len(u) = j - i /\ \A k \in 1 .. j - i : u[k] = row[i + k - 1]
  BY <1>1, <1>2, SubSeqIs
<1>4. v \in Seq(DOMAIN g) /\ Len(v) = j - i + 1 /\ \A k \in 1 .. j - i + 1 : v[k] = child[i + k - 1]
  BY <1>1, <1>2, SubSeqIs
<1> HIDE DEF u, v
<1>5. v[1] = child[i] /\ v[Len(v)] = child[j] /\ Len(v) = Len(u) + 1
  <2>1. 1 \in 1 .. j - i + 1 /\ i + 1 - 1 = i /\ j - i + 1 \in 1 .. j - i + 1 /\ i + (j - i + 1) - 1 = j
    OBVIOUS
  <2>2. v[j - i + 1] = child[j] /\ v[1] = child[i]
    BY <1>4, <2>1
  <2> QED
    BY <1>3, <1>4, <2>2
<1>6. ASSUME NEW k \in 1 .. Len(v) PROVE g[v[k]].lev + 1 = at.lev
  <2>1. i + k - 1 \in 1 .. Len(child) /\ v[k] = child[i + k - 1]
    BY <1>1, <1>4
  <2> QED
    BY <2>1 DEF InnerFits
<1>7. ASSUME NEW k \in 1 .. Len(u) PROVE g[v[k]].hi = str[u[k]] /\ g[v[k + 1]].lo = str[u[k]]
  <2> DEFINE e == i + k - 1
  <2>1. e \in 1 .. Len(row) /\ k \in 1 .. j - i + 1 /\ k + 1 \in 1 .. j - i + 1 /\ i + (k + 1) - 1 = e + 1
        /\ k \in 1 .. j - i
    BY <1>1, <1>3
  <2>2. u[k] = row[e] /\ v[k] = child[e]
    BY <1>3, <1>4, <2>1
  <2>3. v[k + 1] = child[i + (k + 1) - 1]
    BY <1>4, <2>1
  <2> HIDE DEF e
  <2> QED
    BY <2>1, <2>2, <2>3 DEF InnerFits
<1>8. InnerFits(str, g, [lev |-> at.lev, lo |-> g[child[i]].lo, hi |-> g[child[j]].hi], u, v)
  BY <1>3, <1>4, <1>5, <1>6, <1>7 DEF InnerFits
<1> QED
  BY <1>8 DEF u, v, m

(* Two inner nodes side by side, with a separator between them.            *)
LEMMA FitsJoin ==
    ASSUME NEW str, NEW g, NEW at, NEW row, NEW child, NEW at2, NEW row2, NEW child2,
           InnerFits(str, g, at, row, child), InnerFits(str, g, at2, row2, child2),
           at.lev = at2.lev, NEW s \in DOMAIN str, str[s] = at.hi, at.hi = at2.lo
    PROVE  InnerFits(str, g, [lev |-> at.lev, lo |-> at.lo, hi |-> at2.hi],
                     (row \o <<s>>) \o row2, child \o child2)
<1>1. /\ row \in Seq(DOMAIN str) /\ child \in Seq(DOMAIN g) /\ Len(child) = Len(row) + 1 /\ Len(row) \in Nat
      /\ row2 \in Seq(DOMAIN str) /\ child2 \in Seq(DOMAIN g) /\ Len(child2) = Len(row2) + 1 /\ Len(row2) \in Nat
  BY DEF InnerFits
<1> DEFINE m == <<s>>
           r == row \o m
           u == r \o row2
           v == child \o child2
           N == Len(row)
           M == Len(row2)
<1>2. m \in Seq(DOMAIN str) /\ Len(m) = 1 /\ m[1] = s
  BY OneIs
<1> HIDE DEF m
<1>3. r \in Seq(DOMAIN str) /\ Len(r) = N + 1 /\ (\A k \in 1 .. N : r[k] = row[k]) /\ r[N + 1] = s
  <2>1. /\ r \in Seq(DOMAIN str) /\ Len(r) = N + Len(m)
        /\ \A k \in 1 .. N : r[k] = row[k]
        /\ \A k \in N + 1 .. N + Len(m) : r[k] = m[k - N]
    <3> DEFINE D == DOMAIN str
    <3>1. row \in Seq(D) /\ m \in Seq(D)
      BY ONLY <1>1, <1>2
    <3> HIDE DEF D
    <3>2. /\ row \o m \in Seq(D) /\ Len(row \o m) = Len(row) + Len(m)
          /\ \A k \in 1 .. Len(row) : (row \o m)[k] = row[k]
          /\ \A k \in Len(row) + 1 .. Len(row) + Len(m) : (row \o m)[k] = m[k - Len(row)]
      BY ONLY <3>1, ConcatIs
    <3> QED
      BY ONLY <3>2 DEF D
  <2>2. N + 1 \in N + 1 .. N + Len(m) /\ (N + 1) - N = 1
    BY <1>1, <1>2
  <2> HIDE DEF r, N
  <2> QED
    BY <1>2, <2>1, <2>2
<1> HIDE DEF r
<1>4. /\ u \in Seq(DOMAIN str) /\ Len(u) = N + 1 + M
      /\ \A k \in 1 .. N + 1 : u[k] = r[k]
      /\ \A k \in N + 2 .. N + 1 + M : u[k] = row2[k - (N + 1)]
  <2>1. /\ u \in Seq(DOMAIN str) /\ Len(u) = Len(r) + M
        /\ \A k \in 1 .. Len(r) : u[k] = r[k]
        /\ \A k \in Len(r) + 1 .. Len(r) + M : u[k] = row2[k - Len(r)]
    <3> DEFINE D == DOMAIN str
    <3>1. r \in Seq(D) /\ row2 \in Seq(D)
      BY ONLY <1>1, <1>3
    <3> HIDE DEF D
    <3>2. /\ r \o row2 \in Seq(D) /\ Len(r \o row2) = Len(r) + Len(row2)
          /\ \A k \in 1 .. Len(r) : (r \o row2)[k] = r[k]
          /\ \A k \in Len(r) + 1 .. Len(r) + Len(row2) : (r \o row2)[k] = row2[k - Len(r)]
      BY ONLY <3>1, ConcatIs
    <3> QED
      BY ONLY <3>2 DEF D
  <2> HIDE DEF u, N, M
  <2> QED
    BY <1>1, <1>3, <2>1 DEF N, M
<1>5. /\ v \in Seq(DOMAIN g) /\ Len(v) = N + 1 + (M + 1)
      /\ \A k \in 1 .. N + 1 : v[k] = child[k]
      /\ \A k \in N + 2 .. N + 1 + (M + 1) : v[k] = child2[k - (N + 1)]
  <2>1. /\ v \in Seq(DOMAIN g) /\ Len(v) = Len(child) + Len(child2)
        /\ \A k \in 1 .. Len(child) : v[k] = child[k]
        /\ \A k \in Len(child) + 1 .. Len(child) + Len(child2) : v[k] = child2[k - Len(child)]
    <3> DEFINE D == DOMAIN g
    <3>1. child \in Seq(D) /\ child2 \in Seq(D)
      BY ONLY <1>1
    <3> HIDE DEF D
    <3>2. /\ child \o child2 \in Seq(D) /\ Len(child \o child2) = Len(child) + Len(child2)
          /\ \A k \in 1 .. Len(child) : (child \o child2)[k] = child[k]
          /\ \A k \in Len(child) + 1 .. Len(child) + Len(child2) : (child \o child2)[k] = child2[k - Len(child)]
      BY ONLY <3>1, ConcatIs
    <3> QED
      BY ONLY <3>2 DEF D
  <2> HIDE DEF v, N, M
  <2> QED
    BY <1>1, <2>1 DEF N, M
<1> HIDE DEF u, v
<1>6. N \in Nat /\ M \in Nat /\ Len(child) = N + 1 /\ Len(child2) = M + 1
  BY <1>1
<1>7. /\ \A k \in 1 .. N + 1 : g[child[k]].lev + 1 = at.lev
      /\ \A k \in 1 .. M + 1 : g[child2[k]].lev + 1 = at.lev
      /\ g[child[1]].lo = at.lo /\ g[child[N + 1]].hi = at.hi
      /\ g[child2[1]].lo = at2.lo /\ g[child2[M + 1]].hi = at2.hi
      /\ \A k \in 1 .. N : g[child[k]].hi = str[row[k]] /\ g[child[k + 1]].lo = str[row[k]]
      /\ \A k \in 1 .. M : g[child2[k]].hi = str[row2[k]] /\ g[child2[k + 1]].lo = str[row2[k]]
  BY <1>6 DEF InnerFits
<1> HIDE DEF N, M
<1>8. v[1] = child[1] /\ v[Len(v)] = child2[M + 1]
  <2>1. 1 \in 1 .. N + 1 /\ N + 1 + (M + 1) \in N + 2 .. N + 1 + (M + 1) /\ (N + 1 + (M + 1)) - (N + 1) = M + 1
    BY <1>6
  <2> QED
    BY <1>5, <2>1
<1>9. ASSUME NEW k \in 1 .. Len(v) PROVE g[v[k]].lev + 1 = at.lev
  <2>1. CASE k \in 1 .. N + 1
    BY <1>5, <1>7, <2>1
  <2>2. CASE k \notin 1 .. N + 1
    <3>1. k \in N + 2 .. N + 1 + (M + 1) /\ k - (N + 1) \in 1 .. M + 1
      BY <1>5, <1>6, <2>2
    <3> QED
      BY <1>5, <1>7, <3>1
  <2> QED
    BY <2>1, <2>2
<1>10. ASSUME NEW k \in 1 .. Len(u) PROVE g[v[k]].hi = str[u[k]] /\ g[v[k + 1]].lo = str[u[k]]
  <2>1. CASE k \in 1 .. N
    <3>1. k \in 1 .. N + 1 /\ k + 1 \in 1 .. N + 1
      BY <1>6, <2>1
    <3>2. u[k] = row[k] /\ v[k] = child[k] /\ v[k + 1] = child[k + 1]
      BY <1>3, <1>4, <1>5, <2>1, <3>1
    <3> QED
      BY <1>7, <2>1, <3>2
  <2>2. CASE k = N + 1
    <3>1. k \in 1 .. N + 1 /\ k + 1 \in N + 2 .. N + 1 + (M + 1) /\ (k + 1) - (N + 1) = 1
      BY <1>6, <2>2
    <3>2. u[k] = s /\ v[k] = child[N + 1] /\ v[k + 1] = child2[1]
      BY <1>3, <1>4, <1>5, <2>2, <3>1
    <3> QED
      BY <1>7, <3>2
  <2>3. CASE k \notin 1 .. N + 1
    <3> DEFINE e == k - (N + 1)
    <3>1. /\ k \in N + 2 .. N + 1 + M /\ e \in 1 .. M /\ (k + 1) - (N + 1) = e + 1
          /\ k \in N + 2 .. N + 1 + (M + 1) /\ k + 1 \in N + 2 .. N + 1 + (M + 1)
      BY <1>4, <1>6, <2>3
    <3>2. u[k] = row2[e] /\ v[k] = child2[e] /\ v[k + 1] = child2[e + 1]
      BY <1>4, <1>5, <3>1
    <3> HIDE DEF e
    <3> QED
      BY <1>7, <3>1, <3>2
  <2> QED
    BY <1>6, <2>1, <2>2, <2>3
<1>11. Len(v) = Len(u) + 1
  BY <1>4, <1>5, <1>6
<1>12. InnerFits(str, g, [lev |-> at.lev, lo |-> at.lo, hi |-> at2.hi], u, v)
  BY <1>4, <1>5, <1>7, <1>8, <1>9, <1>10, <1>11 DEF InnerFits
<1> QED
  BY <1>12 DEF u, v, r, m

(* Behind the i-th child comes a, with the string e as the bound.          *)
PutsAt(str, g, row, child, str2, g2, i, a, e) ==
    /\ i \in 1 .. Len(child) /\ a \in DOMAIN g2 /\ e \in DOMAIN str2
    /\ \A s \in ToSet(row) : s \in DOMAIN str2 /\ str2[s] = str[s]
    /\ \A c \in ToSet(child) : c \in DOMAIN g2 /\ (c # child[i] => g2[c] = g[c])
    /\ g2[child[i]] = [lev |-> g[child[i]].lev, lo |-> g[child[i]].lo, hi |-> str2[e]]
    /\ g2[a] = [lev |-> g[child[i]].lev, lo |-> str2[e], hi |-> g[child[i]].hi]

(* A child is split: the new node and its separator go behind it.          *)
LEMMA FitsPut ==
    ASSUME NEW str, NEW g, NEW at, at \in Place, NEW row, NEW child, NEW str2, NEW g2,
           InnerFits(str, g, at, row, child), Ordered(g),
           NEW i, NEW a, NEW e, PutsAt(str, g, row, child, str2, g2, i, a, e),
           NEW row2, row2 = InsertAt(row, i, e), NEW child2, child2 = InsertAt(child, i + 1, a)
    PROVE  InnerFits(str2, g2, at, row2, child2)
<1>0. /\ i \in 1 .. Len(child) /\ a \in DOMAIN g2 /\ e \in DOMAIN str2
      /\ \A s \in ToSet(row) : s \in DOMAIN str2 /\ str2[s] = str[s]
      /\ \A c \in ToSet(child) : c \in DOMAIN g2 /\ (c # child[i] => g2[c] = g[c])
      /\ g2[child[i]] = [lev |-> g[child[i]].lev, lo |-> g[child[i]].lo, hi |-> str2[e]]
      /\ g2[a] = [lev |-> g[child[i]].lev, lo |-> str2[e], hi |-> g[child[i]].hi]
  BY DEF PutsAt
<1> USE <1>0
<1> DEFINE N == Len(row)
           u == InsertAt(row, i, e)
           v == InsertAt(child, i + 1, a)
<1>1. /\ row \in Seq(DOMAIN str) /\ child \in Seq(DOMAIN g) /\ Len(child) = N + 1 /\ N \in Nat
      /\ \A k \in 1 .. N + 1 : g[child[k]].lev + 1 = at.lev
      /\ g[child[1]].lo = at.lo /\ g[child[N + 1]].hi = at.hi
      /\ \A k \in 1 .. N : g[child[k]].hi = str[row[k]] /\ g[child[k + 1]].lo = str[row[k]]
  BY DEF InnerFits
<1>2. /\ \A k \in 1 .. N : row[k] \in ToSet(row)
      /\ \A k \in 1 .. N + 1 : child[k] \in ToSet(child)
  BY <1>1, ToSetIs
<1>3. /\ row \in Seq(DOMAIN str2) /\ child \in Seq(DOMAIN g2)
      /\ \A k \in 1 .. N : str2[row[k]] = str[row[k]]
  <2>1. /\ \A k \in 1 .. N : row[k] \in DOMAIN str2 /\ str2[row[k]] = str[row[k]]
        /\ \A k \in 1 .. N + 1 : child[k] \in DOMAIN g2
    BY <1>2
  <2>2. row \in Seq(DOMAIN str) /\ child \in Seq(DOMAIN g) /\ N \in Nat /\ Len(row) = N /\ Len(child) = N + 1
    BY <1>1
  <2> HIDE DEF N
  <2>3. row \in Seq(DOMAIN str2)
    BY <2>1, <2>2
  <2>4. child \in Seq(DOMAIN g2)
    BY <2>1, <2>2
  <2> QED
    BY <2>1, <2>3, <2>4
<1>4. ASSUME NEW k \in 1 .. N + 1, k # i PROVE g2[child[k]] = g[child[k]]
  <2>1. child[k] # child[i]
    BY <1>1, <1>4, FitsOnce
  <2> QED
    BY <1>2, <2>1
<1>5. child[i] \in DOMAIN g /\ g[child[i]] \in Place
  BY <1>1 DEF Ordered
<1>6. /\ g2[child[i]].lev = g[child[i]].lev /\ g2[child[i]].lo = g[child[i]].lo /\ g2[child[i]].hi = str2[e]
      /\ g2[a].lev = g[child[i]].lev /\ g2[a].lo = str2[e] /\ g2[a].hi = g[child[i]].hi
  BY <1>5 DEF Place
<1>7. i \in 1 .. N + 1 /\ i + 1 \in 1 .. Len(child) + 1 /\ i \in Int /\ N \in Nat
  BY <1>1
<1>8. /\ u \in Seq(DOMAIN str2) /\ Len(u) = N + 1
      /\ \A k \in 1 .. i - 1 : u[k] = row[k]
      /\ u[i] = e
      /\ \A k \in i + 1 .. N + 1 : u[k] = row[k - 1]
  <2>1. row \in Seq(DOMAIN str2) /\ i \in 1 .. Len(row) + 1
    BY <1>3, <1>7
  <2> QED
    BY ONLY <2>1, InsertAtIs, e \in DOMAIN str2
<1>9. /\ v \in Seq(DOMAIN g2) /\ Len(v) = N + 2
      /\ \A k \in 1 .. i : v[k] = child[k]
      /\ v[i + 1] = a
      /\ \A k \in i + 2 .. N + 2 : v[k] = child[k - 1]
  <2> DEFINE j == i + 1
  <2>1. j \in 1 .. Len(child) + 1 /\ j - 1 = i /\ i + 2 = j + 1 /\ Len(child) + 1 = N + 2
    BY <1>1, <1>7
  <2> HIDE DEF j
  <2>2. /\ InsertAt(child, j, a) \in Seq(DOMAIN g2) /\ Len(InsertAt(child, j, a)) = Len(child) + 1
        /\ \A k \in 1 .. j - 1 : InsertAt(child, j, a)[k] = child[k]
        /\ InsertAt(child, j, a)[j] = a
        /\ \A k \in j + 1 .. Len(child) + 1 : InsertAt(child, j, a)[k] = child[k - 1]
    <3>1. child \in Seq(DOMAIN g2) /\ a \in DOMAIN g2
      BY <1>3
    <3>2. j \in 1 .. Len(child) + 1
      BY <2>1
    <3> QED
      BY ONLY <3>1, <3>2, InsertAtIs
  <2>3. v = InsertAt(child, j, a)
    BY DEF j
  <2> HIDE DEF v
  <2>4. /\ v \in Seq(DOMAIN g2) /\ Len(v) = N + 2
        /\ \A k \in 1 .. i : v[k] = child[k]
        /\ v[j] = a
        /\ \A k \in i + 2 .. N + 2 : v[k] = child[k - 1]
    BY <2>1, <2>2, <2>3
  <2> QED
    BY <2>4 DEF j
<1> HIDE DEF u, v, N
<1>10. g2[v[1]].lo = at.lo
  <2>1. v[1] = child[1]
    BY <1>7, <1>9
  <2>2. CASE i = 1
    BY <1>1, <1>6, <2>1, <2>2
  <2>3. CASE i # 1
    <3>1. 1 \in 1 .. N + 1
      BY <1>7
    <3>2. g2[child[1]] = g[child[1]]
      BY <1>4, <2>3, <3>1
    <3> QED
      BY <1>1, <2>1, <3>2
  <2> QED
    BY <2>2, <2>3
<1>11. g2[v[Len(v)]].hi = at.hi
  <2>1. CASE i = N + 1
    <3>1. v[Len(v)] = a
      BY <1>1, <1>9, <2>1
    <3> QED
      BY <1>1, <1>6, <2>1, <3>1
  <2>2. CASE i # N + 1
    <3>1. N + 2 \in i + 2 .. N + 2 /\ (N + 2) - 1 = N + 1 /\ N + 1 \in 1 .. N + 1
      BY <1>1, <1>7, <2>2
    <3>2. v[Len(v)] = child[N + 1]
      BY <1>9, <3>1
    <3>3. g2[child[N + 1]] = g[child[N + 1]]
      BY <1>4, <2>2, <3>1
    <3> QED
      BY <1>1, <3>2, <3>3
  <2> QED
    BY <2>1, <2>2
<1>12. ASSUME NEW k \in 1 .. Len(v) PROVE g2[v[k]].lev + 1 = at.lev
  <2>1. CASE k \in 1 .. i
    <3>1. k \in 1 .. N + 1
      BY <1>7, <2>1
    <3>2. v[k] = child[k] /\ g[child[k]].lev + 1 = at.lev
      BY <1>1, <1>9, <2>1, <3>1
    <3>3. g2[child[k]].lev = g[child[k]].lev
      <4>1. CASE k = i
        BY <1>6, <4>1
      <4>2. CASE k # i
        BY <1>4, <3>1, <4>2
      <4> QED
        BY <4>1, <4>2
    <3> QED
      BY <3>2, <3>3
  <2>2. CASE k = i + 1
    BY <1>1, <1>6, <1>7, <1>9, <2>2
  <2>3. CASE k \notin 1 .. i + 1
    <3>1. k \in i + 2 .. N + 2 /\ k - 1 \in 1 .. N + 1 /\ k - 1 # i
      BY <1>7, <1>9, <2>3
    <3> QED
      BY <1>1, <1>4, <1>9, <3>1
  <2> QED
    BY <1>7, <2>1, <2>2, <2>3
<1>13. ASSUME NEW k \in 1 .. Len(u) PROVE g2[v[k]].hi = str2[u[k]] /\ g2[v[k + 1]].lo = str2[u[k]]
  <2>1. CASE k \in 1 .. i - 1
    <3>1. k \in 1 .. N /\ k \in 1 .. i /\ k + 1 \in 1 .. i /\ k # i /\ k + 1 \in 1 .. N + 1 /\ k \in 1 .. N + 1
      BY <1>7, <2>1
    <3>2. u[k] = row[k] /\ v[k] = child[k] /\ v[k + 1] = child[k + 1]
      BY <1>8, <1>9, <2>1, <3>1
    <3>3. g2[child[k]] = g[child[k]] /\ g2[child[k + 1]].lo = g[child[k + 1]].lo
      BY <1>4, <1>6, <3>1
    <3> QED
      BY <1>1, <1>3, <3>1, <3>2, <3>3
  <2>2. CASE k = i
    <3>1. u[k] = e /\ v[k] = child[i] /\ v[k + 1] = a
      BY <1>7, <1>8, <1>9, <2>2
    <3> QED
      BY <1>6, <3>1
  <2>3. CASE k \notin 1 .. i
    <3> DEFINE j == k - 1
    <3>1. k \in i + 1 .. N + 1 /\ k + 1 \in i + 2 .. N + 2 /\ (k + 1) - 1 = k /\ j \in 1 .. N /\ j + 1 = k
      <4>1. N \in Nat /\ i \in Nat /\ 1 <= i /\ i <= N + 1 /\ k \in Nat /\ k <= N + 1 /\ k > i
        <5>1. k \in 1 .. N + 1
          BY <1>8
        <5> HIDE DEF N
        <5> QED
          BY ONLY <1>7, <2>3, <5>1
      <4> HIDE DEF N
      <4> QED
        BY ONLY <4>1 DEF j
    <3>2. u[k] = row[j] /\ v[k + 1] = child[k]
      <4>1. u[k] = row[k - 1]
        BY ONLY <1>8, <3>1
      <4>2. v[k + 1] = child[(k + 1) - 1]
        BY ONLY <1>9, <3>1
      <4> QED
        BY ONLY <3>1, <4>1, <4>2 DEF j
    <3>3. g2[child[k]] = g[child[k]]
      <4>1. k \in 1 .. N + 1 /\ k # i
        BY <1>7, <3>1
      <4> QED
        BY ONLY <1>4, <4>1
    <3>4. g2[v[k]].hi = g[child[j]].hi
      <4>1. CASE k = i + 1
        <5>1. v[k] = a /\ child[j] = child[i]
          BY <1>7, <1>9, <4>1
        <5> QED
          BY <1>6, <5>1
      <4>2. CASE k # i + 1
        <5>0. i \in Int /\ N \in Nat
          BY <1>7
        <5>1. k \in i + 2 .. N + 2 /\ j # i /\ j \in 1 .. N + 1
          <6> HIDE DEF v, u
          <6>1. k # i + 1 /\ k \in i + 1 .. N + 1 /\ j \in 1 .. N /\ j + 1 = k
            BY <3>1, <4>2
          <6> HIDE DEF j
          <6> QED
            BY <5>0, <6>1
        <5>2. v[k] = child[j]
          BY <1>9, <5>1
        <5> QED
          BY <1>4, <5>1, <5>2
      <4> QED
        BY <4>1, <4>2
    <3> HIDE DEF j
    <3> QED
      BY <1>1, <1>3, <3>1, <3>2, <3>3, <3>4
  <2> QED
    BY <1>7, <2>1, <2>2, <2>3
<1>14. Len(v) = Len(u) + 1
  BY <1>1, <1>8, <1>9
<1>15. InnerFits(str2, g2, at, u, v)
  BY <1>8, <1>9, <1>10, <1>11, <1>12, <1>13, <1>14 DEF InnerFits
<1> QED
  BY <1>15 DEF u, v

(* The i-th row goes, and the child behind it into the one before it.      *)
DropsAt(str, g, row, child, str2, g2, i) ==
    /\ i \in 1 .. Len(row)
    /\ \A k \in 1 .. Len(row) : k # i => row[k] \in DOMAIN str2 /\ str2[row[k]] = str[row[k]]
    /\ \A k \in 1 .. Len(child) : k # i /\ k # i + 1 => child[k] \in DOMAIN g2 /\ g2[child[k]] = g[child[k]]
    /\ child[i] \in DOMAIN g2
    /\ g2[child[i]] = [lev |-> g[child[i]].lev, lo |-> g[child[i]].lo, hi |-> g[child[i + 1]].hi]

(* Two children become one: the separator and the second are dropped.      *)
LEMMA FitsDrop ==
    ASSUME NEW str, NEW g, NEW at \in Place, NEW row, NEW child, NEW str2, NEW g2,
           InnerFits(str, g, at, row, child), Ordered(g),
           NEW i, DropsAt(str, g, row, child, str2, g2, i),
           NEW row2, row2 = RemoveAt(row, i), NEW child2, child2 = RemoveAt(child, i + 1)
    PROVE  InnerFits(str2, g2, at, row2, child2)
<1>0. /\ i \in 1 .. Len(row)
      /\ \A k \in 1 .. Len(row) : k # i => row[k] \in DOMAIN str2 /\ str2[row[k]] = str[row[k]]
      /\ \A k \in 1 .. Len(child) : k # i /\ k # i + 1 => child[k] \in DOMAIN g2 /\ g2[child[k]] = g[child[k]]
      /\ child[i] \in DOMAIN g2
      /\ g2[child[i]] = [lev |-> g[child[i]].lev, lo |-> g[child[i]].lo, hi |-> g[child[i + 1]].hi]
  BY DEF DropsAt
<1> USE <1>0
<1> DEFINE N == Len(row)
           u == RemoveAt(row, i)
           v == RemoveAt(child, i + 1)
<1>1. /\ row \in Seq(DOMAIN str) /\ child \in Seq(DOMAIN g) /\ Len(child) = N + 1 /\ N \in Nat
      /\ \A k \in 1 .. N + 1 : g[child[k]].lev + 1 = at.lev
      /\ g[child[1]].lo = at.lo /\ g[child[N + 1]].hi = at.hi
      /\ \A k \in 1 .. N : g[child[k]].hi = str[row[k]] /\ g[child[k + 1]].lo = str[row[k]]
  BY DEF InnerFits
<1>2. i \in 1 .. N /\ i + 1 \in 1 .. N + 1 /\ i \in Int /\ i \in 1 .. N + 1 /\ N \in Nat
  BY <1>1
<1>3. child[i] \in DOMAIN g /\ g[child[i]] \in Place
  BY <1>1, <1>2 DEF Ordered
<1>4. /\ g2[child[i]].lev = g[child[i]].lev /\ g2[child[i]].lo = g[child[i]].lo
      /\ g2[child[i]].hi = g[child[i + 1]].hi
  BY <1>3 DEF Place
<1>5. /\ u \in Seq(DOMAIN str) /\ Len(u) = N - 1
      /\ \A k \in 1 .. i - 1 : u[k] = row[k]
      /\ \A k \in i .. N - 1 : u[k] = row[k + 1]
  <2> DEFINE D == DOMAIN str
  <2>1. row \in Seq(D) /\ i \in 1 .. Len(row)
    BY ONLY <1>0, <1>1
  <2> HIDE DEF D
  <2>2. /\ u \in Seq(D) /\ Len(u) = N - 1
        /\ \A k \in 1 .. i - 1 : u[k] = row[k]
        /\ \A k \in i .. N - 1 : u[k] = row[k + 1]
    BY ONLY <2>1, RemoveAtIs
  <2> QED
    BY ONLY <2>2 DEF D
<1>6. /\ v \in Seq(DOMAIN g) /\ Len(v) = N
      /\ \A k \in 1 .. i : v[k] = child[k]
      /\ \A k \in i + 1 .. N : v[k] = child[k + 1]
  <2> DEFINE j == i + 1
  <2>1. j \in 1 .. Len(child) /\ j - 1 = i /\ Len(child) - 1 = N
    BY <1>1, <1>2
  <2> HIDE DEF j
  <2>2. /\ RemoveAt(child, j) \in Seq(DOMAIN g) /\ Len(RemoveAt(child, j)) = Len(child) - 1
        /\ \A k \in 1 .. j - 1 : RemoveAt(child, j)[k] = child[k]
        /\ \A k \in j .. Len(child) - 1 : RemoveAt(child, j)[k] = child[k + 1]
    <3>1. child \in Seq(DOMAIN g)
      BY <1>1
    <3>2. j \in 1 .. Len(child)
      BY <2>1
    <3> QED
      BY ONLY <3>1, <3>2, RemoveAtIs
  <2>3. v = RemoveAt(child, j)
    BY DEF j
  <2> HIDE DEF v
  <2>4. /\ v \in Seq(DOMAIN g) /\ Len(v) = N
        /\ \A k \in 1 .. i : v[k] = child[k]
        /\ \A k \in j .. N : v[k] = child[k + 1]
    BY <2>1, <2>2, <2>3
  <2> QED
    BY <2>4 DEF j
<1> HIDE DEF u, v, N
<1>7. u \in Seq(DOMAIN str2) /\ v \in Seq(DOMAIN g2)
  <2>1. ASSUME NEW k \in 1 .. N - 1 PROVE u[k] \in DOMAIN str2
    <3>1. CASE k \in 1 .. i - 1
      BY <1>2, <1>5, <3>1 DEF N
    <3>2. CASE k \notin 1 .. i - 1
      <4>1. k \in i .. N - 1 /\ k + 1 \in 1 .. N /\ k + 1 # i
        BY <1>2, <3>2
      <4> QED
        BY <1>5, <4>1 DEF N
    <3> QED
      BY <3>1, <3>2
  <2>2. ASSUME NEW k \in 1 .. N PROVE v[k] \in DOMAIN g2
    <3>1. CASE k \in 1 .. i
      <4>1. k \in 1 .. N + 1 /\ k # i + 1 /\ k \in 1 .. Len(child)
        BY <1>1, <1>2, <3>1
      <4> QED
        BY <1>6, <3>1, <4>1
    <3>2. CASE k \notin 1 .. i
      <4>1. k \in i + 1 .. N /\ k + 1 \in 1 .. Len(child) /\ k + 1 # i /\ k + 1 # i + 1
        BY <1>1, <1>2, <3>2
      <4> QED
        BY <1>6, <4>1
    <3> QED
      BY <3>1, <3>2
  <2> QED
    BY <1>5, <1>6, <2>1, <2>2
<1>8. /\ \A k \in 1 .. N : k # i => str2[row[k]] = str[row[k]]
      /\ \A k \in 1 .. N + 1 : k # i /\ k # i + 1 => g2[child[k]] = g[child[k]]
  BY <1>1 DEF N
<1>9. g2[v[1]].lo = at.lo
  <2>1. v[1] = child[1] /\ 1 \in 1 .. N + 1 /\ 1 # i + 1
    BY <1>1, <1>2, <1>6
  <2> QED
    BY <1>1, <1>4, <1>8, <2>1
<1>10. g2[v[Len(v)]].hi = at.hi
  <2>1. CASE i = N
    <3>1. v[Len(v)] = child[i]
      BY <1>1, <1>2, <1>6, <2>1
    <3> QED
      BY <1>1, <1>4, <2>1, <3>1
  <2>2. CASE i # N
    <3>1. N \in i + 1 .. N /\ N + 1 \in 1 .. N + 1 /\ N + 1 # i /\ N + 1 # i + 1
      BY <1>1, <1>2, <2>2
    <3>2. v[Len(v)] = child[N + 1]
      BY <1>6, <3>1
    <3> QED
      BY <1>1, <1>8, <3>1, <3>2
  <2> QED
    BY <2>1, <2>2
<1>11. ASSUME NEW k \in 1 .. Len(v) PROVE g2[v[k]].lev + 1 = at.lev
  <2>1. CASE k \in 1 .. i
    <3>1. k \in 1 .. N + 1 /\ k # i + 1
      BY <1>2, <2>1
    <3>2. v[k] = child[k] /\ g[child[k]].lev + 1 = at.lev
      BY <1>1, <1>6, <2>1, <3>1
    <3>3. g2[child[k]].lev = g[child[k]].lev
      <4>1. CASE k = i
        BY <1>4, <4>1
      <4>2. CASE k # i
        BY <1>8, <3>1, <4>2
      <4> QED
        BY <4>1, <4>2
    <3> QED
      BY <3>2, <3>3
  <2>2. CASE k \notin 1 .. i
    <3>1. k \in i + 1 .. N /\ k + 1 \in 1 .. N + 1 /\ k + 1 # i /\ k + 1 # i + 1
      BY <1>2, <1>6, <2>2
    <3> QED
      BY <1>1, <1>6, <1>8, <3>1
  <2> QED
    BY <2>1, <2>2
<1>12. ASSUME NEW k \in 1 .. Len(u) PROVE g2[v[k]].hi = str2[u[k]] /\ g2[v[k + 1]].lo = str2[u[k]]
  <2>1. CASE k \in 1 .. i - 1
    <3>1. /\ k \in 1 .. N /\ k \in 1 .. i /\ k + 1 \in 1 .. i /\ k # i /\ k + 1 # i + 1
          /\ k + 1 \in 1 .. N + 1 /\ k \in 1 .. N + 1 /\ k # i + 1
      BY <1>2, <2>1
    <3>2. u[k] = row[k] /\ v[k] = child[k] /\ v[k + 1] = child[k + 1]
      BY <1>5, <1>6, <2>1, <3>1
    <3>3. g2[child[k]] = g[child[k]] /\ g2[child[k + 1]].lo = g[child[k + 1]].lo
      BY <1>4, <1>8, <3>1
    <3> QED
      BY <1>1, <1>8, <3>1, <3>2, <3>3
  <2>2. CASE k \notin 1 .. i - 1
    <3> DEFINE j == k + 1
    <3>1. k \in i .. N - 1 /\ j \in i + 1 .. N /\ j \in 1 .. N /\ j # i /\ j + 1 \in 1 .. N + 1 /\ j + 1 # i /\ j + 1 # i + 1
      BY <1>2, <1>5, <2>2
    <3>2. u[k] = row[j] /\ v[j] = child[j + 1]
      BY <1>5, <1>6, <3>1
    <3>3. g2[child[j + 1]] = g[child[j + 1]]
      BY <1>8, <3>1
    <3>4. g2[v[k]].hi = g[child[j]].hi
      <4>1. CASE k = i
        <5>1. v[i] = child[i]
          BY <1>2, <1>6
        <5> QED
          BY <1>4, <4>1, <5>1
      <4>2. CASE k # i
        <5>1. k \in i + 1 .. N /\ j \in 1 .. N + 1 /\ j # i + 1
          BY <1>2, <3>1, <4>2
        <5>2. v[k] = child[j]
          BY <1>6, <5>1
        <5> QED
          BY <1>8, <3>1, <5>1, <5>2
      <4> QED
        BY <4>1, <4>2
    <3>5. g2[v[j]].lo = str2[u[k]] /\ g2[v[k]].hi = str2[u[k]]
      <4> HIDE DEF j
      <4> QED
        BY <1>1, <1>8, <3>1, <3>2, <3>3, <3>4
    <3> QED
      BY <3>5
  <2> QED
    BY <2>1, <2>2
<1>13. Len(v) = Len(u) + 1
  BY <1>1, <1>5, <1>6
<1>14. InnerFits(str2, g2, at, u, v)
  BY <1>7, <1>9, <1>10, <1>11, <1>12, <1>13 DEF InnerFits
<1> QED
  BY <1>14 DEF u, v

(* The string y takes the place of the i-th row.                           *)
ShiftsAt(str, g, row, child, str2, g2, i, y) ==
    /\ i \in 1 .. Len(row) /\ y \in DOMAIN str2
    /\ \A k \in 1 .. Len(row) : k # i => row[k] \in DOMAIN str2 /\ str2[row[k]] = str[row[k]]
    /\ \A k \in 1 .. Len(child) : k # i /\ k # i + 1 => child[k] \in DOMAIN g2 /\ g2[child[k]] = g[child[k]]
    /\ child[i] \in DOMAIN g2 /\ child[i + 1] \in DOMAIN g2
    /\ g2[child[i]] = [lev |-> g[child[i]].lev, lo |-> g[child[i]].lo, hi |-> str2[y]]
    /\ g2[child[i + 1]] = [lev |-> g[child[i + 1]].lev, lo |-> str2[y], hi |-> g[child[i + 1]].hi]

(* The bound between two children moves.                                   *)
LEMMA FitsShift ==
    ASSUME NEW str, NEW g, NEW at \in Place, NEW row, NEW child, NEW str2, NEW g2,
           InnerFits(str, g, at, row, child), Ordered(g),
           NEW i, NEW y, ShiftsAt(str, g, row, child, str2, g2, i, y),
           NEW row2, row2 = [row EXCEPT ![i] = y]
    PROVE  InnerFits(str2, g2, at, row2, child)
<1>0. /\ i \in 1 .. Len(row) /\ y \in DOMAIN str2
      /\ \A k \in 1 .. Len(row) : k # i => row[k] \in DOMAIN str2 /\ str2[row[k]] = str[row[k]]
      /\ \A k \in 1 .. Len(child) : k # i /\ k # i + 1 => child[k] \in DOMAIN g2 /\ g2[child[k]] = g[child[k]]
      /\ child[i] \in DOMAIN g2 /\ child[i + 1] \in DOMAIN g2
      /\ g2[child[i]] = [lev |-> g[child[i]].lev, lo |-> g[child[i]].lo, hi |-> str2[y]]
      /\ g2[child[i + 1]] = [lev |-> g[child[i + 1]].lev, lo |-> str2[y], hi |-> g[child[i + 1]].hi]
  BY DEF ShiftsAt
<1> USE <1>0
<1> DEFINE N == Len(row)
           u == [row EXCEPT ![i] = y]
<1>1. /\ row \in Seq(DOMAIN str) /\ child \in Seq(DOMAIN g) /\ Len(child) = N + 1 /\ N \in Nat
      /\ \A k \in 1 .. N + 1 : g[child[k]].lev + 1 = at.lev
      /\ g[child[1]].lo = at.lo /\ g[child[N + 1]].hi = at.hi
      /\ \A k \in 1 .. N : g[child[k]].hi = str[row[k]] /\ g[child[k + 1]].lo = str[row[k]]
  BY ONLY InnerFits(str, g, at, row, child) DEF InnerFits
<1>2. i \in 1 .. N /\ i + 1 \in 1 .. N + 1 /\ i \in Int /\ i \in 1 .. N + 1 /\ N \in Nat
  BY <1>1
<1>3. child[i] \in DOMAIN g /\ g[child[i]] \in Place /\ child[i + 1] \in DOMAIN g /\ g[child[i + 1]] \in Place
  BY <1>1, <1>2 DEF Ordered
<1>4. /\ g2[child[i]].lev = g[child[i]].lev /\ g2[child[i]].lo = g[child[i]].lo
      /\ g2[child[i]].hi = str2[y]
      /\ g2[child[i + 1]].lev = g[child[i + 1]].lev /\ g2[child[i + 1]].lo = str2[y]
      /\ g2[child[i + 1]].hi = g[child[i + 1]].hi
  BY <1>3 DEF Place
<1>5. u \in Seq(DOMAIN str2) /\ Len(u) = N /\ u[i] = y /\ \A k \in 1 .. N : k # i => u[k] = row[k]
  <2>1. /\ DOMAIN row = 1 .. N /\ u[i] = y /\ DOMAIN u = 1 .. N
        /\ \A k \in 1 .. N : k # i => u[k] = row[k] /\ u[k] \in DOMAIN str2
    BY <1>1
  <2>2. \A k \in 1 .. N : u[k] \in DOMAIN str2
    BY <2>1
  <2>3. u = [k \in 1 .. N |-> u[k]]
    BY <2>1
  <2>6. N \in Nat
    BY <1>1
  <2> HIDE DEF u, N
  <2>7. u \in [1 .. N -> DOMAIN str2]
    BY <2>2, <2>3
  <2>4. u \in Seq(DOMAIN str2)
    BY <2>6, <2>7
  <2>5. Len(u) = N
    BY <2>6, <2>1, <2>4
  <2> QED
    BY <2>1, <2>4, <2>5
<1>6. child \in Seq(DOMAIN g2)
  <2>1. \A k \in 1 .. Len(child) : child[k] \in DOMAIN g2
    OBVIOUS
  <2> QED
    BY <1>1, <2>1
<1> HIDE DEF u
<1>8. /\ \A k \in 1 .. N : k # i => str2[row[k]] = str[row[k]]
      /\ \A k \in 1 .. N + 1 : k # i /\ k # i + 1 => g2[child[k]] = g[child[k]]
  BY <1>1
<1> HIDE DEF N
<1>9. g2[child[1]].lo = at.lo /\ g2[child[N + 1]].hi = at.hi
  <2>1. 1 \in 1 .. N + 1 /\ N + 1 \in 1 .. N + 1 /\ N + 1 # i /\ 1 # i + 1
    BY <1>1, <1>2
  <2> QED
    BY <1>1, <1>4, <1>8, <2>1
<1>10. ASSUME NEW k \in 1 .. N + 1 PROVE g2[child[k]].lev + 1 = at.lev
  <2>1. CASE k = i
    BY <1>1, <1>4, <2>1
  <2>2. CASE k = i + 1
    BY <1>1, <1>4, <2>2
  <2>3. CASE k # i /\ k # i + 1
    BY <1>1, <1>8, <2>3
  <2> QED
    BY <2>1, <2>2, <2>3
<1>11. ASSUME NEW k \in 1 .. N PROVE g2[child[k]].hi = str2[u[k]] /\ g2[child[k + 1]].lo = str2[u[k]]
  <2>1. k \in 1 .. N + 1 /\ k + 1 \in 1 .. N + 1
    BY <1>1
  <2>2. CASE k = i
    BY <1>4, <1>5, <2>2
  <2>3. CASE k # i
    <3>1. u[k] = row[k] /\ str2[row[k]] = str[row[k]]
      BY <1>5, <1>8, <2>1, <2>3
    <3>2. g2[child[k]].hi = g[child[k]].hi
      BY <1>4, <1>8, <2>1, <2>3
    <3>3. g2[child[k + 1]].lo = g[child[k + 1]].lo
      <4>1. k + 1 # i + 1
        BY <2>3
      <4> QED
        BY <1>4, <1>8, <2>1, <4>1
    <3> QED
      <4>1. g[child[k]].hi = str[row[k]] /\ g[child[k + 1]].lo = str[row[k]]
        BY <1>1, <1>11
      <4> HIDE DEF u
      <4> QED
        BY ONLY <3>1, <3>2, <3>3, <4>1
  <2> QED
    BY <2>2, <2>3
<1> QED
  BY <1>1, <1>5, <1>6, <1>9, <1>10, <1>11 DEF InnerFits, u

(* Node b is split at m, a child is merged into the one before it, the     *)
(* bound between two moves to m.                                           *)
SplitPlace(g, b, a, m) ==
    [x \in DOMAIN g \cup {a} |-> IF x = a THEN [lev |-> g[b].lev, lo |-> m, hi |-> g[b].hi]
                                 ELSE IF x = b THEN [lev |-> g[b].lev, lo |-> g[b].lo, hi |-> m]
                                 ELSE g[x]]

(* The places after r is merged into l, its neighbour on the left.         *)
JoinPlaces(g, l, r) ==
    [x \in DOMAIN g \ {r} |-> IF x = l THEN [lev |-> g[l].lev, lo |-> g[l].lo, hi |-> g[r].hi]
                           ELSE g[x]]

(* The places after the bound between two neighbours moves to m.           *)
ShiftBound(g, l, r, m) == SplitPlace(JoinPlaces(g, l, r), l, r, m)

(* Two nodes of a level have no key in common.                             *)
LEMMA Apart ==
    ASSUME NEW g, NEW h, NEW top, Tiled(g, h, top), NEW b \in DOMAIN g, NEW c \in DOMAIN g,
           g[b].lev = g[c].lev, b # c
    PROVE  g[b].hi <= g[c].lo \/ g[c].hi <= g[b].lo
<1>1. /\ g[b] \in Place /\ g[c] \in Place /\ g[b].lev \in 0 .. h
      /\ g[b].lo < g[b].hi /\ g[b].hi <= top + 1 /\ g[c].lo < g[c].hi /\ g[c].hi <= top + 1
  BY DEF Tiled, Place
<1>2. /\ g[b].lo \in Nat /\ g[b].hi \in Nat /\ g[c].lo \in Nat /\ g[c].hi \in Nat /\ top \in Nat
  BY <1>1 DEF Place, Tiled
<1>3. ASSUME NEW k \in 0 .. top, Covers(g, b, g[b].lev, k), Covers(g, c, g[b].lev, k) PROVE FALSE
  BY <1>1, <1>3 DEF Tiled
<1>4. SUFFICES ASSUME g[c].lo < g[b].hi, g[b].lo < g[c].hi PROVE FALSE
  BY <1>2
<1>5. CASE g[b].lo <= g[c].lo
  <2>1. g[c].lo \in 0 .. top
    BY <1>1, <1>2
  <2>2. Covers(g, b, g[b].lev, g[c].lo) /\ Covers(g, c, g[b].lev, g[c].lo)
    BY <1>1, <1>2, <1>4, <1>5 DEF Covers
  <2> QED
    BY <1>3, <2>1, <2>2
<1>6. CASE ~(g[b].lo <= g[c].lo)
  <2>1. g[b].lo \in 0 .. top
    BY <1>1, <1>2
  <2>2. Covers(g, b, g[b].lev, g[b].lo) /\ Covers(g, c, g[b].lev, g[b].lo)
    BY <1>1, <1>2, <1>4, <1>6 DEF Covers
  <2> QED
    BY <1>3, <2>1, <2>2
<1> QED
  BY <1>5, <1>6

(* What the bounds of places are when they tile the keys.                  *)
LEMMA TiledIs ==
    ASSUME NEW g, NEW h, NEW top, Tiled(g, h, top)
    PROVE  /\ h \in Nat /\ top \in Nat /\ Ordered(g)
           /\ \A b \in DOMAIN g :
                /\ g[b] \in Place /\ g[b].lev \in 0 .. h
                /\ g[b].lev \in Nat /\ g[b].lo \in Nat /\ g[b].hi \in Nat
                /\ g[b].lo \in 0 .. top /\ g[b].lo < g[b].hi /\ g[b].hi <= top + 1
                /\ g[b] = [lev |-> g[b].lev, lo |-> g[b].lo, hi |-> g[b].hi]
<1>1. h \in Nat /\ top \in Nat /\ Ordered(g)
  BY DEF Tiled, Ordered
<1>2. ASSUME NEW b \in DOMAIN g
      PROVE  /\ g[b] \in Place /\ g[b].lev \in 0 .. h
             /\ g[b].lev \in Nat /\ g[b].lo \in Nat /\ g[b].hi \in Nat
             /\ g[b].lo \in 0 .. top /\ g[b].lo < g[b].hi /\ g[b].hi <= top + 1
             /\ g[b] = [lev |-> g[b].lev, lo |-> g[b].lo, hi |-> g[b].hi]
  <2>1. /\ g[b] \in Place /\ g[b].lev <= h /\ g[b].lo < g[b].hi /\ g[b].hi <= top + 1 /\ h \in Nat /\ top \in Nat
    BY DEF Tiled
  <2>2. g[b].lev \in Nat /\ g[b].lo \in Nat /\ g[b].hi \in Nat
    BY <2>1 DEF Place
  <2>3. g[b].lev \in 0 .. h /\ g[b].lo \in 0 .. top
    BY <2>1, <2>2
  <2>4. g[b] = [lev |-> g[b].lev, lo |-> g[b].lo, hi |-> g[b].hi]
    BY <2>1 DEF Place
  <2> QED
    BY <2>1, <2>2, <2>3, <2>4
<1> QED
  BY <1>1, <1>2

(* A node that covers a key of a level is the only one that does.          *)
LEMMA OnlyOne ==
    ASSUME NEW g, NEW h, NEW top, Tiled(g, h, top), NEW b \in DOMAIN g, NEW c \in DOMAIN g, NEW k \in Nat,
           g[b].lev = g[c].lev, g[b].lo <= k, k < g[b].hi, g[c].lo <= k, k < g[c].hi
    PROVE  b = c
<1>1. /\ g[b].lev \in 0 .. h /\ g[b].lo \in Nat /\ g[b].hi \in Nat /\ g[b].hi <= top + 1 /\ top \in Nat
  BY TiledIs
<1>2. k \in 0 .. top
  BY <1>1
<1> QED
  BY <1>1, <1>2 DEF Tiled, Covers

(* A split keeps every level tiled.                                        *)
LEMMA TileSplit ==
    ASSUME NEW g, NEW h, NEW top, Tiled(g, h, top), NEW b \in DOMAIN g, NEW a, a \notin DOMAIN g,
           NEW m \in Nat, g[b].lo < m, m < g[b].hi,
           NEW g2, g2 = SplitPlace(g, b, a, m)
    PROVE  Tiled(g2, h, top)
<1>1. /\ DOMAIN g2 = DOMAIN g \cup {a} /\ a # b
      /\ g2[a] = [lev |-> g[b].lev, lo |-> m, hi |-> g[b].hi]
      /\ g2[b] = [lev |-> g[b].lev, lo |-> g[b].lo, hi |-> m]
      /\ \A x \in DOMAIN g : x # b => g2[x] = g[x]
  BY Zenon DEF SplitPlace
<1>2. /\ h \in Nat
      /\ \A x \in DOMAIN g : /\ g[x] \in Place /\ g[x].lev <= h /\ g[x].lev \in Nat
                             /\ g[x].lo < g[x].hi /\ g[x].hi <= top + 1
                             /\ g[x].lo \in Nat /\ g[x].hi \in Nat
      /\ top \in Nat
  BY TiledIs
<1>3. ASSUME NEW x \in DOMAIN g2
      PROVE  g2[x] \in Place /\ g2[x].lev <= h /\ g2[x].lo < g2[x].hi /\ g2[x].hi <= top + 1
  <2>1. CASE x = a
    BY <1>1, <1>2, <2>1 DEF Place
  <2>2. CASE x = b
    BY <1>1, <1>2, <2>2 DEF Place
  <2>3. CASE x # a /\ x # b
    BY <1>1, <1>2, <2>3
  <2> QED
    BY <2>1, <2>2, <2>3
<1>4. ASSUME NEW v \in 0 .. h, NEW k \in 0 .. top PROVE \E x \in DOMAIN g2 : Covers(g2, x, v, k)
  <2>1. PICK x \in DOMAIN g : Covers(g, x, v, k)
    BY DEF Tiled
  <2>2. CASE x # b
    BY <1>1, <2>1, <2>2 DEF Covers
  <2>3. CASE x = b /\ k < m
    BY <1>1, <1>2, <2>1, <2>3 DEF Covers
  <2>4. CASE x = b /\ ~(k < m)
    BY <1>1, <1>2, <2>1, <2>4 DEF Covers
  <2> QED
    BY <2>2, <2>3, <2>4
<1>5. ASSUME NEW x \in DOMAIN g2, NEW y \in DOMAIN g2, NEW v \in 0 .. h, NEW k \in 0 .. top,
             Covers(g2, x, v, k), Covers(g2, y, v, k)
      PROVE  x = y
  <2>1. ASSUME NEW z \in DOMAIN g2, Covers(g2, z, v, k)
        PROVE  Covers(g, IF z = a THEN b ELSE z, v, k) /\ (IF z = a THEN b ELSE z) \in DOMAIN g
    <3>1. CASE z = a
      BY <1>1, <1>2, <2>1, <3>1 DEF Covers
    <3>2. CASE z = b
      BY <1>1, <1>2, <2>1, <3>2 DEF Covers
    <3>3. CASE z # a /\ z # b
      BY <1>1, <2>1, <3>3 DEF Covers
    <3> QED
      BY <3>1, <3>2, <3>3
  <2>2. (IF x = a THEN b ELSE x) = (IF y = a THEN b ELSE y)
    BY <1>5, <2>1, OnlyOne DEF Tiled
  <2>3. CASE x = a /\ y = b
    BY <1>1, <1>2, <1>5, <2>3 DEF Covers
  <2>4. CASE x = b /\ y = a
    BY <1>1, <1>2, <1>5, <2>4 DEF Covers
  <2> QED
    BY <2>2, <2>3, <2>4
<1> QED
  BY <1>2, <1>3, <1>4, <1>5 DEF Tiled

(* A merge of neighbours keeps every level tiled.                          *)
LEMMA TileJoin ==
    ASSUME NEW g, NEW h, NEW top, Tiled(g, h, top), NEW l \in DOMAIN g, NEW r \in DOMAIN g, l # r,
           g[l].lev = g[r].lev, g[l].hi = g[r].lo,
           NEW g2, g2 = JoinPlaces(g, l, r)
    PROVE  Tiled(g2, h, top)
<1>1. /\ DOMAIN g2 = DOMAIN g \ {r}
      /\ g2[l] = [lev |-> g[l].lev, lo |-> g[l].lo, hi |-> g[r].hi]
      /\ \A x \in DOMAIN g : x # l /\ x # r => g2[x] = g[x]
  BY Zenon DEF JoinPlaces
<1>2. /\ h \in Nat
      /\ \A x \in DOMAIN g : /\ g[x] \in Place /\ g[x].lev <= h /\ g[x].lev \in Nat
                             /\ g[x].lo < g[x].hi /\ g[x].hi <= top + 1
                             /\ g[x].lo \in Nat /\ g[x].hi \in Nat
      /\ top \in Nat
  BY TiledIs
<1>3. ASSUME NEW x \in DOMAIN g2
      PROVE  g2[x] \in Place /\ g2[x].lev <= h /\ g2[x].lo < g2[x].hi /\ g2[x].hi <= top + 1
  <2>1. CASE x = l
    <3>1. /\ g[l].lev \in Nat /\ g[l].lo \in Nat /\ g[r].hi \in Nat /\ g[l].lev <= h /\ g[r].hi <= top + 1
          /\ g[l].lo < g[l].hi /\ g[r].lo < g[r].hi /\ g[l].hi \in Nat
      BY <1>2
    <3> QED
      BY <1>1, <2>1, <3>1 DEF Place
  <2>2. CASE x # l
    BY <1>1, <1>2, <2>2
  <2> QED
    BY <2>1, <2>2
<1>4. ASSUME NEW v \in 0 .. h, NEW k \in 0 .. top PROVE \E x \in DOMAIN g2 : Covers(g2, x, v, k)
  <2>1. PICK x \in DOMAIN g : Covers(g, x, v, k)
    BY DEF Tiled
  <2>2. CASE x # l /\ x # r
    BY <1>1, <2>1, <2>2 DEF Covers
  <2>3. CASE x = l \/ x = r
    <3>1. /\ g[l].lo \in Nat /\ g[l].hi \in Nat /\ g[r].hi \in Nat
          /\ g[l].lo < g[l].hi /\ g[r].lo < g[r].hi
      BY <1>2
    <3>2. Covers(g2, l, v, k)
      BY <1>1, <2>1, <2>3, <3>1 DEF Covers
    <3> QED
      BY <1>1, <3>2
  <2> QED
    BY <2>2, <2>3
<1>5. ASSUME NEW x \in DOMAIN g2, NEW y \in DOMAIN g2, NEW v \in 0 .. h, NEW k \in 0 .. top,
             Covers(g2, x, v, k), Covers(g2, y, v, k)
      PROVE  x = y
  <2>1. ASSUME NEW z \in DOMAIN g2, Covers(g2, z, v, k)
        PROVE  Covers(g, z, v, k) \/ (z = l /\ Covers(g, r, v, k))
    <3>1. CASE z = l
      <4>1. g[l].hi \in Nat /\ g[r].hi \in Nat /\ g[l].lo \in Nat
        BY <1>2
      <4> QED
        BY <1>1, <2>1, <3>1, <4>1 DEF Covers
    <3>2. CASE z # l
      BY <1>1, <2>1, <3>2 DEF Covers
    <3> QED
      BY <3>1, <3>2
  <2>2. \A b, c \in DOMAIN g : Covers(g, b, v, k) /\ Covers(g, c, v, k) => b = c
    BY DEF Tiled
  <2>3. Covers(g, x, v, k) \/ (x = l /\ Covers(g, r, v, k))
    BY <1>5, <2>1
  <2>4. Covers(g, y, v, k) \/ (y = l /\ Covers(g, r, v, k))
    BY <1>5, <2>1
  <2>5. x \in DOMAIN g /\ y \in DOMAIN g /\ x # r /\ y # r
    BY <1>1
  <2> QED
    BY <2>2, <2>3, <2>4, <2>5
<1> QED
  BY <1>2, <1>3, <1>4, <1>5 DEF Tiled

(* Moving the bound between neighbours keeps every level tiled.            *)
LEMMA ShiftIs ==
    ASSUME NEW g, NEW h, NEW top, Tiled(g, h, top), NEW l \in DOMAIN g, NEW r \in DOMAIN g, l # r,
           g[l].lev = g[r].lev, g[l].hi = g[r].lo,
           NEW m \in Nat, g[l].lo < m, m < g[r].hi,
           NEW g2, g2 = ShiftBound(g, l, r, m)
    PROVE  /\ Tiled(g2, h, top) /\ DOMAIN g2 = DOMAIN g
           /\ g2[l] = [lev |-> g[l].lev, lo |-> g[l].lo, hi |-> m]
           /\ g2[r] = [lev |-> g[r].lev, lo |-> m, hi |-> g[r].hi]
           /\ \A x \in DOMAIN g : x # l /\ x # r => g2[x] = g[x]
<1> DEFINE j == JoinPlaces(g, l, r)
<1>1. /\ Tiled(j, h, top) /\ DOMAIN j = DOMAIN g \ {r}
      /\ j[l] = [lev |-> g[l].lev, lo |-> g[l].lo, hi |-> g[r].hi]
      /\ \A x \in DOMAIN g : x # l /\ x # r => j[x] = g[x]
  <2>1. Tiled(j, h, top)
    BY TileJoin
  <2> QED
    BY <2>1, Zenon DEF JoinPlaces
<1>2. g2 = SplitPlace(j, l, r, m)
  BY DEF ShiftBound
<1> HIDE DEF j
<1>3. l \in DOMAIN j /\ r \notin DOMAIN j /\ j[l].lo < m /\ m < j[l].hi
  BY <1>1
<1>4. /\ DOMAIN g2 = DOMAIN j \cup {r}
      /\ g2[r] = [lev |-> j[l].lev, lo |-> m, hi |-> j[l].hi]
      /\ g2[l] = [lev |-> j[l].lev, lo |-> j[l].lo, hi |-> m]
      /\ \A x \in DOMAIN j : x # l => g2[x] = j[x]
  BY <1>1, <1>2, <1>3, Zenon DEF SplitPlace
<1>5. Tiled(g2, h, top)
  BY <1>1, <1>2, <1>3, TileSplit
<1>6. /\ g2[l] = [lev |-> g[l].lev, lo |-> g[l].lo, hi |-> m]
      /\ g2[r] = [lev |-> g[r].lev, lo |-> m, hi |-> g[r].hi]
  BY <1>1, <1>4
<1> QED
  BY <1>1, <1>4, <1>5, <1>6

(* What a node gives to its sibling, as a piece of its rows or children.   *)
LEMMA EndsIs ==
    ASSUME NEW S, NEW s \in Seq(S), s # <<>>
    PROVE  /\ Len(s) \in Nat /\ Len(s) >= 1
           /\ Head(s) = s[1] /\ Tail(s) = SubSeq(s, 2, Len(s))
           /\ Last(s) = s[Len(s)] /\ Front(s) = SubSeq(s, 1, Len(s) - 1)
           /\ Head(s) \in S /\ Last(s) \in S
<1>1. Len(s) \in Nat
  OBVIOUS
<1>2. Len(s) # 0
  OBVIOUS
<1>3. Head(s) = s[1] /\ Last(s) = s[Len(s)] /\ Front(s) = SubSeq(s, 1, Len(s) - 1)
  BY DEF Last, Front
<1>4. Tail(s) = SubSeq(s, 2, Len(s))
  OBVIOUS
<1>5. 1 \in 1 .. Len(s) /\ Len(s) \in 1 .. Len(s)
  BY <1>1, <1>2
<1>6. s[1] \in S /\ s[Len(s)] \in S
  BY <1>5
<1> QED
  BY <1>1, <1>2, <1>3, <1>4, <1>6

(* An Append is a concatenation.                                           *)
LEMMA AppendIs ==
    ASSUME NEW S, NEW s \in Seq(S), NEW x \in S
    PROVE  Append(s, x) = s \o <<x>>
  OBVIOUS

(* The rows of a leaf split, joined, put and removed.                      *)
LEMMA LeafSub ==
    ASSUME NEW at \in Place, NEW row, NEW K, LeafFits(at, row, K), NEW at2,
           NEW i \in 1 .. Len(row) + 1, NEW j \in 0 .. Len(row), i <= j + 1,
           \A k \in i .. j : at2.lo <= row[k] /\ row[k] < at2.hi
    PROVE  LeafFits(at2, SubSeq(row, i, j), K)
<1> DEFINE u == SubSeq(row, i, j)
<1>1. row \in Seq(K) /\ Len(row) \in Nat /\ \A a, b \in 1 .. Len(row) : a < b => row[a] < row[b]
  <2>1. row \in Seq(K)
    BY DEF LeafFits
  <2> QED
    BY <2>1 DEF LeafFits
<1>2. /\ u \in Seq(K) /\ Len(u) = j - i + 1
      /\ \A k \in 1 .. j - i + 1 : u[k] = row[i + k - 1]
  <2>1. row \in Seq(K)
    BY <1>1
  <2> QED
    BY ONLY <2>1, SubSeqIs, i \in 1 .. Len(row) + 1, j \in 0 .. Len(row), i <= j + 1
<1>3. i \in Int /\ j \in Int /\ 1 <= i /\ j <= Len(row)
  BY <1>1
<1> HIDE DEF u
<1>4. ASSUME NEW k \in 1 .. Len(u)
      PROVE  i + k - 1 \in i .. j /\ i + k - 1 \in 1 .. Len(row) /\ u[k] = row[i + k - 1]
  BY <1>1, <1>2, <1>3
<1>5. ASSUME NEW a \in 1 .. Len(u), NEW b \in 1 .. Len(u), a < b PROVE u[a] < u[b]
  <2>1. i + a - 1 < i + b - 1
    BY <1>2, <1>3, <1>5
  <2> QED
    BY <1>1, <1>4, <2>1
<1> QED
  BY <1>2, <1>4, <1>5 DEF LeafFits, u

(* The rows of two leaves, one after the other, are in order.              *)
LEMMA LeafJoin ==
    ASSUME NEW at, NEW row, NEW K, LeafFits(at, row, K), NEW at2, NEW row2, LeafFits(at2, row2, K),
           at.lo \in Nat, at.hi \in Nat, at2.lo \in Nat, at2.hi \in Nat,
           at.hi <= at2.lo, at.lo <= at.hi, at2.lo <= at2.hi, NEW v
    PROVE  LeafFits([lev |-> v, lo |-> at.lo, hi |-> at2.hi], row \o row2, K)
<1> DEFINE u == row \o row2
           N == Len(row)
           M == Len(row2)
<1>1. /\ row \in Seq(K) /\ row2 \in Seq(K)
      /\ \A k \in 1 .. N : at.lo <= row[k] /\ row[k] < at.hi
      /\ \A k \in 1 .. M : at2.lo <= row2[k] /\ row2[k] < at2.hi
      /\ \A a, b \in 1 .. N : a < b => row[a] < row[b]
      /\ \A a, b \in 1 .. M : a < b => row2[a] < row2[b]
      /\ K \subseteq Nat
  BY DEF LeafFits
<1>2. /\ u \in Seq(K) /\ Len(u) = N + M
      /\ \A k \in 1 .. N : u[k] = row[k]
      /\ \A k \in N + 1 .. N + M : u[k] = row2[k - N]
  <2>1. row \in Seq(K) /\ row2 \in Seq(K)
    BY <1>1
  <2> QED
    BY ONLY <2>1, ConcatIs
<1>3. N \in Nat /\ M \in Nat
  BY <1>1
<1>4. \A k \in 1 .. N + M : u[k] \in Int
  <2>1. \A k \in 1 .. Len(u) : u[k] \in K
    BY ONLY <1>2
  <2>2. K \subseteq Nat
    BY ONLY <1>1
  <2>3. \A k \in 1 .. Len(u) : u[k] \in Nat
    BY ONLY <2>1, <2>2, Zenon
  <2>4. Len(u) = N + M
    BY ONLY <1>2
  <2> QED
    BY ONLY <2>3, <2>4
<1> HIDE DEF u, N, M
<1>5. ASSUME NEW k \in 1 .. N + M PROVE at.lo <= u[k] /\ u[k] < at2.hi
  <2>1. CASE k \in 1 .. N
    <3>1. at.lo <= u[k] /\ u[k] < at.hi
      BY <1>1, <1>2, <2>1
    <3> QED
      BY <1>4, <3>1
  <2>2. CASE k \notin 1 .. N
    <3>1. k \in N + 1 .. N + M /\ k - N \in 1 .. M
      BY <1>3, <2>2
    <3>2. at2.lo <= u[k] /\ u[k] < at2.hi
      BY <1>1, <1>2, <3>1
    <3> QED
      BY <1>4, <3>2
  <2> QED
    BY <2>1, <2>2
<1>6. ASSUME NEW a \in 1 .. N + M, NEW b \in 1 .. N + M, a < b PROVE u[a] < u[b]
  <2>1. CASE b \in 1 .. N
    <3>1. a \in 1 .. N
      BY <1>3, <1>6, <2>1
    <3> QED
      BY <1>1, <1>2, <1>6, <2>1, <3>1
  <2>2. CASE b \notin 1 .. N
    <3>1. b \in N + 1 .. N + M /\ b - N \in 1 .. M
      BY <1>3, <2>2
    <3>2. at2.lo <= u[b] /\ u[b] = row2[b - N]
      BY <1>1, <1>2, <3>1
    <3>3. CASE a \in 1 .. N
      <4>1. u[a] < at.hi
        BY <1>1, <1>2, <3>3
      <4> QED
        BY <1>4, <3>2, <4>1
    <3>4. CASE a \notin 1 .. N
      <4>1. a \in N + 1 .. N + M /\ a - N \in 1 .. M /\ a - N < b - N
        BY <1>3, <1>6, <3>1, <3>4
      <4>2. u[a] = row2[a - N]
        BY <1>2, <4>1
      <4> QED
        BY <1>1, <3>1, <3>2, <4>1, <4>2
    <3> QED
      BY <3>3, <3>4
  <2> QED
    BY <2>1, <2>2
<1> QED
  BY <1>2, <1>5, <1>6 DEF LeafFits, u

(* A single key within the range is in order.                              *)
LEMMA LeafOne ==
    ASSUME NEW K, K \subseteq Nat, NEW at, NEW x, x \in K, at.lo <= x, x < at.hi
    PROVE  LeafFits(at, <<x>>, K)
<1>1. <<x>> \in Seq(K) /\ Len(<<x>>) = 1 /\ <<x>>[1] = x
  OBVIOUS
<1>2. \A i \in 1 .. 1 : i = 1
  OBVIOUS
<1> QED
  BY <1>1, <1>2 DEF LeafFits

(* The rows of a leaf are different numbers.                               *)
LEMMA LeafDistinct ==
    ASSUME NEW at, NEW row, NEW K, LeafFits(at, row, K)
    PROVE  /\ K \subseteq Nat /\ row \in Seq(K) /\ Len(row) \in Nat /\ IsInjective(row)
           /\ \A i \in 1 .. Len(row) : row[i] \in K /\ row[i] \in Nat
<1>1. K \subseteq Nat /\ row \in Seq(K) /\ \A i, j \in 1 .. Len(row) : i < j => row[i] < row[j]
  BY DEF LeafFits
<1>2. Len(row) \in Nat /\ \A i \in 1 .. Len(row) : row[i] \in K /\ row[i] \in Nat
  <2>1. Len(row) \in Nat /\ \A i \in 1 .. Len(row) : row[i] \in K
    BY ONLY <1>1
  <2>2. K \subseteq Nat
    BY ONLY <1>1
  <2>3. \A i \in 1 .. Len(row) : row[i] \in Nat
    BY ONLY <2>1, <2>2, Zenon
  <2> QED
    BY ONLY <2>1, <2>3
<1>3. ASSUME NEW i \in 1 .. Len(row), NEW j \in 1 .. Len(row), row[i] = row[j] PROVE i = j
  <2>1. ~(i < j) /\ ~(j < i)
    BY <1>1, <1>2, <1>3
  <2> QED
    BY <1>2, <2>1
<1>4. DOMAIN row = 1 .. Len(row)
  BY <1>1
<1> QED
  BY <1>1, <1>2, <1>3, <1>4 DEF IsInjective

(* The rows up to the i-th are not greater than k, the others are.         *)
FoundRow(row, k, i) ==
    /\ i \in 0 .. Len(row)
    /\ \A j \in 1 .. i : row[j] <= k
    /\ \A j \in i + 1 .. Len(row) : k < row[j]
    /\ k \in ToSet(row) => i \in 1 .. Len(row) /\ row[i] = k

(* The rows and the children of an inner node, and their ranges.           *)
LEMMA InnerIs ==
    ASSUME NEW str, NEW g, NEW h, NEW top, Tiled(g, h, top), NEW at, at \in Place, NEW row, NEW child,
           InnerFits(str, g, at, row, child), at.lo < at.hi
    PROVE  /\ row \in Seq(DOMAIN str) /\ child \in Seq(DOMAIN g) /\ IsInjective(row)
           /\ Len(row) \in Nat /\ Len(child) = Len(row) + 1
           /\ \A i \in 1 .. Len(row) : row[i] \in ToSet(row)
           /\ \A i \in 1 .. Len(child) : child[i] \in ToSet(child)
           /\ \A c \in ToSet(child) :
                /\ c \in DOMAIN g /\ g[c].lev + 1 = at.lev
                /\ at.lo <= g[c].lo /\ g[c].lo < g[c].hi /\ g[c].hi <= at.hi
           /\ \A i \in 1 .. Len(row) : at.lo < str[row[i]] /\ str[row[i]] < at.hi
<1>1. /\ row \in Seq(DOMAIN str) /\ child \in Seq(DOMAIN g) /\ Len(child) = Len(row) + 1
      /\ \A i \in 1 .. Len(child) : g[child[i]].lev + 1 = at.lev
      /\ \A i \in 1 .. Len(row) : /\ g[child[i]].hi = str[row[i]]
                                  /\ g[child[i + 1]].lo = str[row[i]]
  BY DEF InnerFits
<1>2. Len(row) \in Nat
  BY <1>1
<1>3. Ordered(g)
  BY TiledIs
<1>4. /\ \A i, j \in 1 .. Len(child) : i < j => g[child[i]].hi <= g[child[j]].lo
      /\ \A i \in 1 .. Len(child) : /\ child[i] \in DOMAIN g
                                    /\ g[child[i]] \in Place
                                    /\ g[child[i]].lo < g[child[i]].hi
                                    /\ at.lo <= g[child[i]].lo /\ g[child[i]].hi <= at.hi
  BY <1>3, FitsInside
<1>5. \A i \in 1 .. Len(child) : g[child[i]].lo \in Nat /\ g[child[i]].hi \in Nat
  BY <1>4 DEF Place
<1>6. ASSUME NEW i \in 1 .. Len(row), NEW j \in 1 .. Len(row), row[i] = row[j], i < j PROVE FALSE
  <2>1. i \in 1 .. Len(child) /\ j \in 1 .. Len(child)
    BY <1>1, <1>2
  <2>2. g[child[i]].hi = g[child[j]].hi /\ g[child[i]].hi <= g[child[j]].lo
    BY <1>1, <1>4, <1>6, <2>1
  <2> QED
    BY <1>4, <1>5, <2>1, <2>2
<1>7. IsInjective(row)
  <2>1. DOMAIN row = 1 .. Len(row)
    BY <1>1
  <2>2. ASSUME NEW i \in 1 .. Len(row), NEW j \in 1 .. Len(row), row[i] = row[j] PROVE i = j
    <3>1. ~(i < j) /\ ~(j < i)
      BY <1>6, <2>2
    <3> QED
      BY <3>1
  <2> QED
    BY <2>1, <2>2 DEF IsInjective
<1>8. /\ \A i \in 1 .. Len(row) : row[i] \in ToSet(row)
      /\ \A i \in 1 .. Len(child) : child[i] \in ToSet(child)
  BY <1>1, ToSetIs
<1>9. ASSUME NEW c \in ToSet(child)
      PROVE  /\ c \in DOMAIN g /\ g[c].lev + 1 = at.lev
             /\ at.lo <= g[c].lo /\ g[c].lo < g[c].hi /\ g[c].hi <= at.hi
  <2>1. PICK i \in 1 .. Len(child) : child[i] = c
    BY <1>1, ToSetIs
  <2> QED
    BY <1>1, <1>4, <2>1
<1>10. ASSUME NEW i \in 1 .. Len(row) PROVE at.lo < str[row[i]] /\ str[row[i]] < at.hi
  <2> DEFINE c == child[i]
             d == child[i + 1]
  <2>1. i \in 1 .. Len(child) /\ i + 1 \in 1 .. Len(child)
    BY <1>1, <1>2
  <2>2. /\ at.lo <= g[c].lo /\ g[c].lo < g[c].hi /\ g[c].hi = str[row[i]]
        /\ g[d].lo = str[row[i]] /\ g[d].lo < g[d].hi /\ g[d].hi <= at.hi
        /\ g[c].lo \in Nat /\ g[c].hi \in Nat /\ g[d].lo \in Nat /\ g[d].hi \in Nat
    BY <1>1, <1>4, <1>5, <2>1
  <2>3. at.lo \in Nat /\ at.hi \in Nat
    BY DEF Place
  <2> HIDE DEF c, d
  <2> QED
    BY <2>2, <2>3
<1> QED
  BY <1>1, <1>2, <1>7, <1>8, <1>9, <1>10

(* A node is the child of one node only.                                   *)
LEMMA OneParent ==
    ASSUME NEW str, NEW g, NEW h, NEW top, Tiled(g, h, top), NEW p, p \in DOMAIN g, NEW q, q \in DOMAIN g,
           NEW row, NEW child, InnerFits(str, g, g[p], row, child),
           NEW row2, NEW child2, InnerFits(str, g, g[q], row2, child2),
           NEW c, c \in ToSet(child), c \in ToSet(child2)
    PROVE  p = q
<1>1. /\ g[p] \in Place /\ g[q] \in Place /\ g[p].lo < g[p].hi /\ g[q].lo < g[q].hi
      /\ g[p].lev \in Nat /\ g[p].lo \in Nat /\ g[p].hi \in Nat /\ g[q].lev \in Nat /\ g[q].lo \in Nat /\ g[q].hi \in Nat
  BY TiledIs
<1>2. /\ c \in DOMAIN g /\ g[c].lev + 1 = g[p].lev
      /\ g[p].lo <= g[c].lo /\ g[c].lo < g[c].hi /\ g[c].hi <= g[p].hi
  <2>1. InnerFits(str, g, g[p], row, child)
    OBVIOUS
  <2>2. g[p] \in Place /\ g[p].lo < g[p].hi
    BY <1>1
  <2>3. \A d \in ToSet(child) :
          /\ d \in DOMAIN g /\ g[d].lev + 1 = g[p].lev
          /\ g[p].lo <= g[d].lo /\ g[d].lo < g[d].hi /\ g[d].hi <= g[p].hi
    BY ONLY <2>1, <2>2, Tiled(g, h, top), InnerIs
  <2> QED
    BY <2>3
<1>3. /\ g[c].lev + 1 = g[q].lev
      /\ g[q].lo <= g[c].lo /\ g[c].lo < g[c].hi /\ g[c].hi <= g[q].hi
  <2>1. InnerFits(str, g, g[q], row2, child2)
    OBVIOUS
  <2>2. g[q] \in Place /\ g[q].lo < g[q].hi
    BY <1>1
  <2>3. \A d \in ToSet(child2) :
          /\ d \in DOMAIN g /\ g[d].lev + 1 = g[q].lev
          /\ g[q].lo <= g[d].lo /\ g[d].lo < g[d].hi /\ g[d].hi <= g[q].hi
    BY ONLY <2>1, <2>2, Tiled(g, h, top), InnerIs
  <2> QED
    BY <2>3
<1>4. g[c].lo \in Nat /\ g[c].hi \in Nat /\ g[c].lev \in Nat
  BY <1>2, TiledIs
<1> DEFINE k == g[c].lo
<1>5. k \in Nat /\ g[p].lev = g[q].lev /\ g[p].lo <= k /\ k < g[p].hi /\ g[q].lo <= k /\ k < g[q].hi
  BY <1>1, <1>2, <1>3, <1>4
<1> HIDE DEF k
<1> QED
  BY <1>5, OnlyOne

(* b is a node above the leaves.                                           *)
IsInner(g, b) == b \in DOMAIN g /\ g[b].lev # 0

(* The rows of the nodes of C and the strings E, together W, are replaced  *)
(* by those of C2 and E2, together W2.                                     *)
Exchange(t, g, E, v, g2, E2, C, C2, W, W2) ==
    /\ \A b : IsInner(g, b) /\ b \notin C <=> IsInner(g2, b) /\ b \notin C2
    /\ \A b : IsInner(g, b) /\ b \notin C => RowSet(v, b) = RowSet(t, b)
    /\ (\A b \in C : IsInner(g, b)) /\ (\A b \in C2 : IsInner(g2, b))
    /\ \A s : s \in W <=> s \in E \/ (\E c \in C : s \in RowSet(t, c))
    /\ DOMAIN v.string = (DOMAIN t.string \ W) \cup W2
    /\ (W2 \ W) \cap DOMAIN t.string = {}
    /\ E2 \subseteq W2 /\ \A b \in C2 : RowSet(v, b) \subseteq W2 \ E2
    /\ \A b, c \in C2 : b # c => RowSet(v, b) \cap RowSet(v, c) = {}
    /\ \A s \in W2 \ E2 : \E b \in C2 : s \in RowSet(v, b)

(* Such an exchange leaves every string with one owner.                    *)
LEMMA OwnedStep ==
    ASSUME NEW t, NEW g, NEW E, Owned(t, g, E), NEW v, NEW g2, NEW E2, NEW C, NEW C2, NEW W, NEW W2,
           Exchange(t, g, E, v, g2, E2, C, C2, W, W2)
    PROVE  /\ Owned(v, g2, E2)
           /\ \A b : IsInner(g, b) /\ b \notin C => RowSet(t, b) \subseteq DOMAIN t.string \ W
<1>0. /\ \A b : IsInner(g, b) /\ b \notin C <=> IsInner(g2, b) /\ b \notin C2
      /\ \A b : IsInner(g, b) /\ b \notin C => RowSet(v, b) = RowSet(t, b)
      /\ (\A b \in C : IsInner(g, b)) /\ (\A b \in C2 : IsInner(g2, b))
      /\ \A s : s \in W <=> s \in E \/ (\E c \in C : s \in RowSet(t, c))
      /\ DOMAIN v.string = (DOMAIN t.string \ W) \cup W2
      /\ (W2 \ W) \cap DOMAIN t.string = {}
      /\ E2 \subseteq W2 /\ \A b \in C2 : RowSet(v, b) \subseteq W2 \ E2
      /\ \A b, c \in C2 : b # c => RowSet(v, b) \cap RowSet(v, c) = {}
      /\ \A s \in W2 \ E2 : \E b \in C2 : s \in RowSet(v, b)
  BY DEF Exchange
<1>1. /\ E \subseteq DOMAIN t.string
      /\ \A b : IsInner(g, b) => RowSet(t, b) \subseteq DOMAIN t.string \ E
      /\ \A b, c : IsInner(g, b) /\ IsInner(g, c) /\ b # c => RowSet(t, b) \cap RowSet(t, c) = {}
      /\ \A s \in DOMAIN t.string \ E : \E b : IsInner(g, b) /\ s \in RowSet(t, b)
  BY DEF Owned, IsInner
<1>2. ASSUME NEW b, IsInner(g, b), b \notin C PROVE RowSet(t, b) \subseteq DOMAIN t.string \ W
  BY <1>0, <1>1, <1>2
<1>3. E2 \subseteq DOMAIN v.string
  BY <1>0
<1>4. ASSUME NEW b, IsInner(g2, b) PROVE RowSet(v, b) \subseteq DOMAIN v.string \ E2
  <2>1. CASE b \in C2
    BY <1>0, <2>1
  <2>2. CASE b \notin C2
    <3>1. RowSet(v, b) \subseteq DOMAIN t.string \ W
      BY <1>0, <1>2, <1>4, <2>2
    <3> QED
      BY <1>0, <3>1
  <2> QED
    BY <1>0, <2>1, <2>2
<1>5. ASSUME NEW b, NEW c, IsInner(g2, b), IsInner(g2, c), b # c, b \in C2 PROVE RowSet(v, b) \cap RowSet(v, c) = {}
  <2>1. CASE c \in C2
    BY <1>0, <1>5, <2>1
  <2>2. CASE c \notin C2
    <3>1. RowSet(v, c) \subseteq DOMAIN t.string \ W
      BY <1>0, <1>2, <1>5, <2>2
    <3> QED
      BY <1>0, <1>5, <3>1
  <2> QED
    BY <1>0, <2>1, <2>2
<1>6. ASSUME NEW b, NEW c, IsInner(g2, b), IsInner(g2, c), b # c PROVE RowSet(v, b) \cap RowSet(v, c) = {}
  <2>1. CASE b \in C2
    BY <1>0, <1>5, <1>6, <2>1
  <2>2. CASE c \in C2
    BY <1>0, <1>5, <1>6, <2>2
  <2>3. CASE b \notin C2 /\ c \notin C2
    BY <1>0, <1>1, <1>6, <2>3
  <2> QED
    BY <1>0, <2>1, <2>2, <2>3
<1>7. ASSUME NEW s \in DOMAIN v.string \ E2 PROVE \E b : IsInner(g2, b) /\ s \in RowSet(v, b)
  <2>1. CASE s \in W2
    BY <1>0, <1>7, <2>1
  <2>2. CASE s \notin W2
    <3>1. s \in DOMAIN t.string /\ s \notin W
      BY <1>0, <2>2
    <3>2. PICK b : IsInner(g, b) /\ s \in RowSet(t, b)
      BY <1>0, <1>1, <3>1
    <3>3. b \notin C
      BY <1>0, <3>1, <3>2
    <3> QED
      BY <1>0, <3>2, <3>3
  <2> QED
    BY <1>0, <2>1, <2>2
<1>8. Owned(v, g2, E2)
  <2>1. \A b \in DOMAIN g2 : g2[b].lev # 0 => RowSet(v, b) \subseteq DOMAIN v.string \ E2
    BY <1>4 DEF IsInner
  <2>2. \A b, c \in DOMAIN g2 : g2[b].lev # 0 /\ g2[c].lev # 0 /\ b # c
                                => RowSet(v, b) \cap RowSet(v, c) = {}
    BY <1>6 DEF IsInner
  <2>3. \A s \in DOMAIN v.string \ E2 : \E b \in DOMAIN g2 : g2[b].lev # 0 /\ s \in RowSet(v, b)
    BY <1>7 DEF IsInner
  <2> QED
    BY <1>3, <2>1, <2>2, <2>3 DEF Owned
<1> QED
  BY <1>2, <1>8

(* The chain depends on the leaves only.                                   *)
LEMMA ChainStays ==
    ASSUME NEW t, NEW g, NEW top, NEW none, Chained(t, g, top, none), NEW v, NEW g2,
           \A b \in DOMAIN g : g[b].lev = 0 => /\ b \in DOMAIN g2 /\ g2[b] = g[b]
                                               /\ v.node[b].next = t.node[b].next,
           \A b \in DOMAIN g2 : g2[b].lev = 0 => b \in DOMAIN g /\ g[b].lev = 0
    PROVE  Chained(v, g2, top, none)
<1> SUFFICES ASSUME NEW b \in DOMAIN g2, g2[b].lev = 0
             PROVE  LET c == v.node[b].next IN
                      \/ c = none /\ g2[b].hi = top + 1
                      \/ c \in DOMAIN g2 /\ g2[c].lev = 0 /\ g2[c].lo = g2[b].hi
  BY DEF Chained
<1> DEFINE c == t.node[b].next
<1>1. b \in DOMAIN g /\ g[b].lev = 0 /\ g2[b] = g[b] /\ v.node[b].next = c
  OBVIOUS
<1>2. (c = none /\ g[b].hi = top + 1) \/ (c \in DOMAIN g /\ g[c].lev = 0 /\ g[c].lo = g[b].hi)
  BY <1>1 DEF Chained
<1> HIDE DEF c
<1> QED
  BY <1>1, <1>2

(* A leaf that is split is linked to its new right half.                   *)
LEMMA ChainSplit ==
    ASSUME NEW t, NEW g, NEW h, NEW top, Tiled(g, h, top), NEW none, Chained(t, g, top, none), NEW b, b \in DOMAIN g, g[b].lev = 0,
           NEW a, a \notin DOMAIN g, NEW m, NEW g2, g2 = SplitPlace(g, b, a, m), NEW v,
           v.node[b].next = a, v.node[a].next = t.node[b].next,
           \A x \in DOMAIN g : x # b => v.node[x].next = t.node[x].next
    PROVE  Chained(v, g2, top, none)
<1>1. /\ DOMAIN g2 = DOMAIN g \cup {a} /\ a # b
      /\ g2[a] = [lev |-> g[b].lev, lo |-> m, hi |-> g[b].hi]
      /\ g2[b] = [lev |-> g[b].lev, lo |-> g[b].lo, hi |-> m]
      /\ \A x \in DOMAIN g : x # b => g2[x] = g[x]
  BY Zenon DEF SplitPlace
<1>2. \A x \in DOMAIN g : /\ g2[x].lev = g[x].lev /\ g2[x].lo = g[x].lo
                          /\ x # b => g2[x].hi = g[x].hi
  BY <1>1
<1>3. ASSUME NEW x \in DOMAIN g, g[x].lev = 0, NEW c, c = t.node[x].next
      PROVE  (c = none /\ g[x].hi = top + 1) \/ (c \in DOMAIN g2 /\ g2[c].lev = 0 /\ g2[c].lo = g[x].hi)
  <2>1. (c = none /\ g[x].hi = top + 1) \/ (c \in DOMAIN g /\ g[c].lev = 0 /\ g[c].lo = g[x].hi)
    BY <1>3 DEF Chained
  <2> QED
    BY <1>1, <1>2, <2>1
<1>4. ASSUME NEW x \in DOMAIN g2, g2[x].lev = 0, NEW c, c = v.node[x].next
      PROVE  (c = none /\ g2[x].hi = top + 1) \/ (c \in DOMAIN g2 /\ g2[c].lev = 0 /\ g2[c].lo = g2[x].hi)
  <2>1. CASE x = a
    BY <1>1, <1>3, <1>4, <2>1
  <2>2. CASE x = b
    BY <1>1, <1>4, <2>2
  <2>3. CASE x # a /\ x # b
    <3>1. x \in DOMAIN g /\ g[x].lev = 0 /\ c = t.node[x].next /\ g2[x].hi = g[x].hi
      BY <1>1, <1>2, <1>4, <2>3
    <3> QED
      BY <1>3, <3>1
  <2> QED
    BY <2>1, <2>2, <2>3
<1> QED
  BY <1>4 DEF Chained

(* Only one leaf ends where a leaf begins.                                 *)
LEMMA OneBefore ==
    ASSUME NEW g, NEW h, NEW top, Tiled(g, h, top), NEW b \in DOMAIN g, NEW c \in DOMAIN g,
           g[b].lev = g[c].lev, g[b].hi = g[c].hi
    PROVE  b = c
<1>1. /\ g[b].lo \in Nat /\ g[b].hi \in Nat /\ g[c].lo \in Nat /\ g[c].hi \in Nat
      /\ g[b].lo < g[b].hi /\ g[c].lo < g[c].hi
  BY TiledIs
<1> DEFINE k == g[b].hi - 1
<1>2. k \in Nat /\ g[b].lo <= k /\ k < g[b].hi /\ g[c].lo <= k /\ k < g[c].hi
  BY <1>1
<1> HIDE DEF k
<1> QED
  BY <1>2, OnlyOne

(* A leaf takes over the link of the neighbour merged into it.             *)
LEMMA ChainJoin ==
    ASSUME NEW t, NEW g, NEW h, NEW top, Tiled(g, h, top), NEW none, Chained(t, g, top, none),
           NEW l, l \in DOMAIN g, NEW r, r \in DOMAIN g, l # r, g[l].lev = 0, g[r].lev = 0, g[l].hi = g[r].lo,
           NEW g2, g2 = JoinPlaces(g, l, r), NEW v,
           v.node[l].next = t.node[r].next,
           \A x \in DOMAIN g : x # l /\ x # r => v.node[x].next = t.node[x].next
    PROVE  Chained(v, g2, top, none)
<1>1. /\ DOMAIN g2 = DOMAIN g \ {r}
      /\ g2[l] = [lev |-> g[l].lev, lo |-> g[l].lo, hi |-> g[r].hi]
      /\ \A x \in DOMAIN g : x # l /\ x # r => g2[x] = g[x]
  BY Zenon DEF JoinPlaces
<1>2. \A x \in DOMAIN g2 : g2[x].lev = g[x].lev /\ g2[x].lo = g[x].lo /\ (x # l => g2[x].hi = g[x].hi)
  BY <1>1
<1>3. ASSUME NEW x \in DOMAIN g, g[x].lev = 0, x # l, NEW c, c = t.node[x].next
      PROVE  (c = none /\ g[x].hi = top + 1) \/ (c \in DOMAIN g2 /\ g2[c].lev = 0 /\ g2[c].lo = g[x].hi)
  <2>1. (c = none /\ g[x].hi = top + 1) \/ (c \in DOMAIN g /\ g[c].lev = 0 /\ g[c].lo = g[x].hi)
    BY <1>3 DEF Chained
  <2>2. ASSUME c = r, g[c].lo = g[x].hi PROVE FALSE
    BY <1>3, <2>2, OneBefore
  <2> QED
    BY <1>1, <1>2, <2>1, <2>2
<1>4. ASSUME NEW x \in DOMAIN g2, g2[x].lev = 0, NEW c, c = v.node[x].next
      PROVE  (c = none /\ g2[x].hi = top + 1) \/ (c \in DOMAIN g2 /\ g2[c].lev = 0 /\ g2[c].lo = g2[x].hi)
  <2>2. CASE x = l
    BY <1>1, <1>3, <1>4, <2>2
  <2>3. CASE x # l
    <3>1. x \in DOMAIN g /\ g[x].lev = 0 /\ c = t.node[x].next /\ g2[x].hi = g[x].hi
      BY <1>1, <1>2, <1>4, <2>3
    <3> QED
      BY <1>3, <2>3, <3>1
  <2> QED
    BY <2>2, <2>3
<1> QED
  BY <1>4 DEF Chained

(* Moving the bound between neighbours keeps the chain.                    *)
LEMMA ChainShift ==
    ASSUME NEW t, NEW g, NEW h, NEW top, Tiled(g, h, top), NEW none, Chained(t, g, top, none),
           NEW l, l \in DOMAIN g, NEW r, r \in DOMAIN g, l # r, g[l].lev = g[r].lev, g[l].hi = g[r].lo,
           NEW m, m \in Nat, g[l].lo < m, m < g[r].hi,
           NEW g2, g2 = ShiftBound(g, l, r, m),
           NEW v, \A x \in DOMAIN g : v.node[x].next = t.node[x].next
    PROVE  Chained(v, g2, top, none)
<1>0. /\ DOMAIN g2 = DOMAIN g
      /\ g2[l] = [lev |-> g[l].lev, lo |-> g[l].lo, hi |-> m]
      /\ g2[r] = [lev |-> g[r].lev, lo |-> m, hi |-> g[r].hi]
      /\ \A x \in DOMAIN g : x # l /\ x # r => g2[x] = g[x]
  BY ShiftIs
<1>1. \A x \in DOMAIN g : /\ g2[x].lev = g[x].lev /\ (x # r => g2[x].lo = g[x].lo)
                          /\ x # l => g2[x].hi = g[x].hi
  BY <1>0
<1>2. ASSUME NEW x \in DOMAIN g, g[x].lev = 0, NEW c, c = t.node[x].next
      PROVE  (c = none /\ g2[x].hi = top + 1) \/ (c \in DOMAIN g2 /\ g2[c].lev = 0 /\ g2[c].lo = g2[x].hi)
  <2>1. (c = none /\ g[x].hi = top + 1) \/ (c \in DOMAIN g /\ g[c].lev = 0 /\ g[c].lo = g[x].hi)
    BY <1>2 DEF Chained
  <2>2. CASE c \in DOMAIN g /\ g[c].lev = 0 /\ g[c].lo = g[x].hi
    <3>1. x = l => c = r
      <4>1. SUFFICES ASSUME x = l PROVE c = r
        OBVIOUS
      <4>2. /\ g[c].lo \in Nat /\ g[c].hi \in Nat /\ g[c].lo < g[c].hi
            /\ g[r].lo \in Nat /\ g[r].hi \in Nat /\ g[r].lo < g[r].hi
        BY <2>2, TiledIs
      <4>3. g[c].lo = g[r].lo /\ g[c].lev = g[r].lev
        BY <1>2, <2>2, <4>1
      <4> QED
        BY <2>2, <4>2, <4>3, Apart
    <3>2. c = r => x = l
      BY <1>2, <2>2, OneBefore
    <3> QED
      BY ONLY <1>0, <1>1, <2>2, <3>1, <3>2, x \in DOMAIN g
  <2>3. CASE c = none /\ g[x].hi = top + 1
    <3>1. x # l
      <4>1. g[r].lo < g[r].hi /\ g[r].hi <= top + 1 /\ g[r].lo \in Nat /\ g[r].hi \in Nat
        BY TiledIs
      <4> QED
        BY <2>3, <4>1
    <3> QED
      BY <1>1, <2>3, <3>1
  <2> QED
    BY <2>1, <2>2, <2>3
<1> QED
  BY ONLY <1>0, <1>1, <1>2, Chained(t, g, top, none), \A x \in DOMAIN g : v.node[x].next = t.node[x].next DEF Chained

(* A node gets other rows; nothing else changes for the nodes of the tree. *)
WithRow(t, b, row) == [t EXCEPT !.node[b].row = row]

(* Only the rows of node b differ between t and v.                         *)
OnlyRow(t, g, v, b, row) ==
    /\ v.node[b].row = row /\ \A x \in DOMAIN g : x # b => v.node[x] = t.node[x]
    /\ v.root_node = t.root_node /\ v.string = t.string

(* An inner node with other rows and children.                             *)
WithInner(t, b, row, child) == [t EXCEPT !.node[b].row = row, !.node[b].child = child]

(* A new root above all nodes.                                             *)
Above(g, h, a, top) ==
    [b \in DOMAIN g \cup {a} |-> IF b = a THEN [lev |-> h + 1, lo |-> 0, hi |-> top + 1] ELSE g[b]]

(* A new root over the old one keeps every level tiled.                    *)
LEMMA TileAbove ==
    ASSUME NEW g, NEW h, NEW top, Tiled(g, h, top), NEW a, a \notin DOMAIN g, NEW g2, g2 = Above(g, h, a, top), NEW h2, h2 = h + 1
    PROVE  Tiled(g2, h2, top)
<1>1. /\ DOMAIN g2 = DOMAIN g \cup {a}
      /\ g2[a] = [lev |-> h + 1, lo |-> 0, hi |-> top + 1]
      /\ \A b \in DOMAIN g : b # a /\ g2[b] = g[b]
  BY Zenon DEF Above
<1>2. /\ h \in Nat /\ top \in Nat
      /\ \A b \in DOMAIN g : /\ g[b] \in Place /\ g[b].lev \in Nat /\ g[b].lev <= h
                             /\ g[b].lo < g[b].hi /\ g[b].hi <= top + 1
      /\ \A v \in 0 .. h, k \in 0 .. top : \E b \in DOMAIN g : Covers(g, b, v, k)
      /\ \A b, c \in DOMAIN g, v \in 0 .. h, k \in 0 .. top :
           Covers(g, b, v, k) /\ Covers(g, c, v, k) => b = c
  BY DEF Tiled, Place
<1>3. g2[a].lev = h + 1 /\ g2[a].lo = 0 /\ g2[a].hi = top + 1
  BY <1>1
<1>4. ASSUME NEW b \in DOMAIN g2
      PROVE  g2[b] \in Place /\ g2[b].lev <= h + 1 /\ g2[b].lo < g2[b].hi /\ g2[b].hi <= top + 1
  <2>1. CASE b = a
    BY <1>1, <1>2, <2>1 DEF Place
  <2>2. CASE b # a
    <3>1. b \in DOMAIN g /\ g2[b] = g[b]
      BY <1>1, <2>2
    <3> QED
      BY <1>2, <3>1
  <2> QED
    BY <2>1, <2>2
<1>5. ASSUME NEW v \in 0 .. h + 1, NEW k \in 0 .. top PROVE \E b \in DOMAIN g2 : Covers(g2, b, v, k)
  <2>1. CASE v = h + 1
    <3>1. Covers(g2, a, v, k)
      BY <1>2, <1>3, <2>1 DEF Covers
    <3> QED
      BY <1>1, <3>1
  <2>2. CASE v # h + 1
    <3>1. v \in 0 .. h
      BY <1>2, <2>2
    <3>2. PICK b \in DOMAIN g : Covers(g, b, v, k)
      BY <1>2, <3>1
    <3>3. Covers(g2, b, v, k)
      BY <1>1, <3>2 DEF Covers
    <3> QED
      BY <1>1, <3>3
  <2> QED
    BY <2>1, <2>2
<1>6. ASSUME NEW b \in DOMAIN g2, NEW c \in DOMAIN g2, NEW v \in 0 .. h + 1, NEW k \in 0 .. top,
             Covers(g2, b, v, k), Covers(g2, c, v, k)
      PROVE  b = c
  <2>1. CASE v = h + 1
    <3>1. ASSUME NEW y \in DOMAIN g2, Covers(g2, y, v, k) PROVE y = a
      <4>1. ASSUME y # a PROVE FALSE
        <5>1. y \in DOMAIN g /\ g2[y] = g[y]
          BY <1>1, <4>1
        <5> QED
          BY <1>2, <2>1, <3>1, <5>1 DEF Covers
      <4> QED
        BY <4>1
    <3> QED
      BY <1>6, <3>1
  <2>2. CASE v # h + 1
    <3>1. v \in 0 .. h
      BY <1>2, <2>2
    <3>2. ASSUME NEW y \in DOMAIN g2, Covers(g2, y, v, k) PROVE y \in DOMAIN g /\ Covers(g, y, v, k)
      <4>1. y # a
        BY <1>3, <2>2, <3>2 DEF Covers
      <4> QED
        BY <1>1, <3>2, <4>1 DEF Covers
    <3>3. b \in DOMAIN g /\ c \in DOMAIN g /\ Covers(g, b, v, k) /\ Covers(g, c, v, k)
      BY <1>6, <3>2
    <3> QED
      BY <1>2, <3>1, <3>3
  <2> QED
    BY <2>1, <2>2
<1>7. Tiled(g2, h + 1, top)
  <2>1. h + 1 \in Nat
    BY <1>2
  <2> QED
    BY <1>4, <1>5, <1>6, <2>1 DEF Tiled
<1> QED
  BY <1>7

(* The elements after one of them is replaced.                             *)
LEMMA ToSetSet ==
    ASSUME NEW s, NEW N \in Nat, DOMAIN s = 1 .. N, IsInjective(s), NEW j, j \in 1 .. N,
           NEW s2, DOMAIN s2 = 1 .. N, \A i \in 1 .. N : i # j => s2[i] = s[i]
    PROVE  ToSet(s2) = (ToSet(s) \ {s[j]}) \cup {s2[j]}
<1>1. \A a, b \in 1 .. N : s[a] = s[b] => a = b
  BY DEF IsInjective
<1>2. ToSet(s2) = {s2[i] : i \in 1 .. N} /\ ToSet(s) = {s[i] : i \in 1 .. N}
  BY DEF ToSet
<1> QED
  BY ONLY <1>1, <1>2, j \in 1 .. N, \A i \in 1 .. N : i # j => s2[i] = s[i]

(* Two leaves that share the range from lo to hi, m being the first row of *)
(* the right one.                                                          *)
Divided(lo, hi, left, right, m, K) ==
    /\ m = right[1] /\ m \in K /\ m \in Nat /\ lo < m /\ m < hi
    /\ LeafFits([lev |-> 0, lo |-> lo, hi |-> m], left, K)
    /\ LeafFits([lev |-> 0, lo |-> m, hi |-> hi], right, K)

(* Two sequences have together the elements of two others.                 *)
Together(a, b, c, d) == ToSet(a) \cup ToSet(b) = ToSet(c) \cup ToSet(d)

(* The first row of a leaf moves to the end of the leaf before it.         *)
LEMMA FirstMoves ==
    ASSUME NEW at, at \in Place, NEW row, NEW K, LeafFits(at, row, K), NEW at2, at2 \in Place, NEW row2, LeafFits(at2, row2, K),
           at.lo < at.hi, at2.lo < at2.hi, at.hi = at2.lo, Len(row2) >= 2,
           NEW left, left = Append(row, Head(row2)), NEW right, right = Tail(row2)
    PROVE  /\ Divided(at.lo, at2.hi, left, right, right[1], K)
           /\ Len(left) = Len(row) + 1 /\ Len(right) + 1 = Len(row2)
           /\ Together(left, right, row, row2)
<1> DEFINE m == right[1]
           N == Len(row2)
           x == row2[1]
           mid == [lev |-> 0, lo |-> at2.lo, hi |-> m]
<1>0. m = right[1]
  OBVIOUS
<1>1. /\ row \in Seq(K) /\ row2 \in Seq(K)
      /\ \A i \in 1 .. N : at2.lo <= row2[i] /\ row2[i] < at2.hi
      /\ \A i, j \in 1 .. N : i < j => row2[i] < row2[j]
      /\ K \subseteq Nat
  BY DEF LeafFits
<1>2. N \in Nat /\ N >= 2 /\ N = Len(row2)
  BY ONLY <1>1, Len(row2) >= 2
<1>3. row2 # <<>>
  BY ONLY <1>2
<1>4. Head(row2) = x /\ right = SubSeq(row2, 2, N)
  BY ONLY <1>1, <1>3, right = Tail(row2), EndsIs
<1>5. K \subseteq Nat /\ \A i \in 1 .. N : row2[i] \in K
  BY ONLY <1>1
<1>6. x \in K /\ x \in Nat /\ row2[2] \in K /\ row2[2] \in Nat
  <2>1. x \in K /\ row2[2] \in K
    BY ONLY <1>2, <1>5
  <2> QED
    BY ONLY <1>5, <2>1, Zenon
<1> HIDE DEF N, m
<1>7. /\ Len(right) = N - 1 /\ m = row2[2]
      /\ \A z : z \in ToSet(right) <=> \E k \in 2 .. N : row2[k] = z
  <2>1. 2 \in 1 .. N + 1 /\ N \in 0 .. N /\ 2 <= N + 1 /\ 1 \in 1 .. N - 2 + 1
    BY ONLY <1>2
  <2>2. /\ Len(SubSeq(row2, 2, N)) = N - 2 + 1
        /\ \A k \in 1 .. N - 2 + 1 : SubSeq(row2, 2, N)[k] = row2[2 + k - 1]
        /\ \A z : z \in ToSet(SubSeq(row2, 2, N)) <=> \E k \in 2 .. N : row2[k] = z
    BY ONLY <1>1, <1>2, <2>1, SubSeqIs
  <2>3. SubSeq(row2, 2, N)[1] = row2[2 + 1 - 1]
    BY ONLY <2>1, <2>2
  <2> QED
    BY ONLY <1>2, <1>4, <2>2, <2>3, <1>0
<1>8. at2.lo \in Nat /\ at2.hi \in Nat /\ at.lo \in Nat /\ at.hi \in Nat
  BY DEF Place
<1>9. 1 \in 1 .. N /\ 2 \in 1 .. N
  BY ONLY <1>2
<1>10. at2.lo <= x /\ x < m /\ m < at2.hi
  BY ONLY <1>1, <1>7, <1>9
<1>11. m \in K /\ m \in Nat /\ at.lo < m /\ m < at2.hi
  BY ONLY <1>6, <1>7, <1>8, <1>10, at.lo < at.hi, at.hi = at2.lo
<1>12. left = row \o <<x>>
  <2>1. x \in K
    BY ONLY <1>6
  <2> HIDE DEF x
  <2> QED
    BY ONLY <1>1, <1>4, <2>1, left = Append(row, Head(row2)), AppendIs
<1>13. mid.lo = at2.lo /\ mid.hi = m /\ mid = [lev |-> 0, lo |-> at2.lo, hi |-> m]
  OBVIOUS
<1> HIDE DEF mid, x
<1>14. LeafFits(mid, <<x>>, K)
  <2>1. K \subseteq Nat
    BY ONLY <1>5
  <2>2. x \in K /\ mid.lo <= x /\ x < mid.hi
    BY ONLY <1>6, <1>10, <1>13
  <2> QED
    BY ONLY <2>1, <2>2, LeafOne
<1>15. LeafFits([lev |-> 0, lo |-> at.lo, hi |-> m], left, K)
  <2>1. at.lo <= at.hi /\ mid.lo <= mid.hi /\ at.hi <= mid.lo /\ mid.lo \in Nat /\ mid.hi \in Nat
    BY ONLY <1>6, <1>8, <1>10, <1>11, <1>13, at.hi = at2.lo, at.lo < at.hi
  <2>2. LeafFits([lev |-> 0, lo |-> at.lo, hi |-> mid.hi], row \o <<x>>, K)
    BY ONLY <1>8, <1>14, <2>1, LeafFits(at, row, K), LeafJoin
  <2> QED
    BY ONLY <1>12, <1>13, <2>2
<1>16. LeafFits([lev |-> 0, lo |-> m, hi |-> at2.hi], right, K)
  <2> DEFINE at3 == [lev |-> 0, lo |-> m, hi |-> at2.hi]
  <2>1. 2 \in 1 .. Len(row2) + 1 /\ N \in 0 .. Len(row2) /\ 2 <= N + 1
    BY ONLY <1>2
  <2>2. \A k \in 2 .. N : at3.lo <= row2[k] /\ row2[k] < at3.hi
    <3>1. ASSUME NEW k \in 2 .. N PROVE m <= row2[k] /\ row2[k] < at2.hi
      <4>1. k \in 1 .. N /\ (k = 2 \/ 2 < k)
        BY ONLY <3>1, <1>2
      <4>2. row2[k] < at2.hi /\ (2 < k => row2[2] < row2[k]) /\ row2[k] \in Nat
        BY ONLY <1>1, <1>5, <1>9, <4>1
      <4> QED
        BY ONLY <1>7, <1>11, <4>1, <4>2
    <3> QED
      BY ONLY <3>1
  <2> HIDE DEF at3
  <2>3. LeafFits(at3, SubSeq(row2, 2, N), K)
    BY ONLY <2>1, <2>2, at2 \in Place, LeafFits(at2, row2, K), LeafSub
  <2> QED
    BY ONLY <1>4, <2>3 DEF at3
<1>17. Len(left) = Len(row) + 1 /\ ToSet(left) = ToSet(row) \cup {x}
  <2>1. <<x>> \in Seq(K) /\ Len(<<x>>) = 1 /\ ToSet(<<x>>) = {x}
    BY ONLY <1>6, OneIs
  <2>2. Len(row \o <<x>>) = Len(row) + Len(<<x>>) /\ ToSet(row \o <<x>>) = ToSet(row) \cup ToSet(<<x>>)
    <3> DEFINE o == <<x>>
    <3>1. o \in Seq(K)
      BY ONLY <2>1
    <3> HIDE DEF o
    <3>2. Len(row \o o) = Len(row) + Len(o) /\ ToSet(row \o o) = ToSet(row) \cup ToSet(o)
      BY ONLY <1>1, <3>1, ConcatIs
    <3> QED
      BY ONLY <3>2 DEF o
  <2> QED
    BY ONLY <1>12, <2>1, <2>2
<1>18. ToSet(row2) = {x} \cup ToSet(right)
  <2>1. \A z : z \in ToSet(row2) <=> \E k \in 1 .. N : row2[k] = z
    BY ONLY <1>1, <1>2 DEF ToSet
  <2>2. ASSUME NEW k \in 1 .. N PROVE k = 1 \/ k \in 2 .. N
    BY ONLY <1>2, <2>2
  <2>3. x = row2[1]
    BY DEF x
  <2>4. \A k \in 2 .. N : k \in 1 .. N
    BY ONLY <1>2
  <2> QED
    BY ONLY <1>7, <1>9, <2>1, <2>2, <2>3, <2>4
<1> QED
  BY ONLY <1>0, <1>2, <1>7, <1>11, <1>15, <1>16, <1>17, <1>18 DEF Divided, Together

(* The last row of a leaf moves to the front of the leaf behind it.        *)
LEMMA LastMoves ==
    ASSUME NEW at, at \in Place, NEW row, NEW K, LeafFits(at, row, K), NEW at2, at2 \in Place, NEW row2, LeafFits(at2, row2, K),
           at.lo < at.hi, at2.lo < at2.hi, at.hi = at2.lo, Len(row) >= 2,
           NEW left, left = Front(row), NEW right, right = <<Last(row)>> \o row2
    PROVE  /\ Divided(at.lo, at2.hi, left, right, right[1], K)
           /\ Len(left) + 1 = Len(row) /\ Len(right) = Len(row2) + 1
           /\ Together(left, right, row, row2)
<1> DEFINE m == right[1]
           N == Len(row)
           x == row[N]
           mid == [lev |-> 0, lo |-> x, hi |-> at.hi]
<1>0. m = right[1]
  OBVIOUS
<1>1. /\ row \in Seq(K) /\ row2 \in Seq(K)
      /\ \A i \in 1 .. N : at.lo <= row[i] /\ row[i] < at.hi
      /\ \A i, j \in 1 .. N : i < j => row[i] < row[j]
      /\ K \subseteq Nat
  BY DEF LeafFits
<1>2. N \in Nat /\ N >= 2 /\ N = Len(row)
  BY ONLY <1>1, Len(row) >= 2
<1>3. row # <<>>
  BY ONLY <1>2
<1>4. Last(row) = x /\ left = SubSeq(row, 1, N - 1)
  BY ONLY <1>1, <1>3, left = Front(row), EndsIs
<1>5. K \subseteq Nat /\ \A i \in 1 .. N : row[i] \in K
  BY ONLY <1>1
<1> HIDE DEF N, m
<1>9. N \in 1 .. N /\ N - 1 \in 1 .. N /\ N - 1 < N
  BY ONLY <1>2
<1>6. x \in K /\ x \in Nat /\ row[N - 1] \in K /\ row[N - 1] \in Nat
  <2>1. x \in K /\ row[N - 1] \in K
    BY ONLY <1>5, <1>9
  <2> QED
    BY ONLY <1>5, <2>1, Zenon
<1>7. /\ Len(left) = N - 1
      /\ \A z : z \in ToSet(left) <=> \E k \in 1 .. N - 1 : row[k] = z
  <2>1. 1 \in 1 .. N + 1 /\ N - 1 \in 0 .. N /\ 1 <= N - 1 + 1
    BY ONLY <1>2
  <2>2. /\ Len(SubSeq(row, 1, N - 1)) = N - 1 - 1 + 1
        /\ \A z : z \in ToSet(SubSeq(row, 1, N - 1)) <=> \E k \in 1 .. N - 1 : row[k] = z
    BY ONLY <1>1, <1>2, <2>1, SubSeqIs
  <2> QED
    BY ONLY <1>2, <1>4, <2>2
<1>8. at2.lo \in Nat /\ at2.hi \in Nat /\ at.lo \in Nat /\ at.hi \in Nat
  BY DEF Place
<1>10. at.lo <= row[N - 1] /\ row[N - 1] < x /\ x < at.hi
  BY ONLY <1>1, <1>9
<1> HIDE DEF x
<1>11. <<x>> \in Seq(K) /\ Len(<<x>>) = 1 /\ ToSet(<<x>>) = {x} /\ <<x>>[1] = x
  BY ONLY <1>6, OneIs
<1>12. /\ Len(right) = Len(row2) + 1 /\ ToSet(right) = {x} \cup ToSet(row2)
       /\ m = x /\ right = <<x>> \o row2
  <2>1. right = <<x>> \o row2
    BY ONLY <1>4, right = <<Last(row)>> \o row2
  <2>2. Len(row2) \in Nat
    BY ONLY <1>1
  <2>3. /\ Len(<<x>> \o row2) = Len(<<x>>) + Len(row2) /\ ToSet(<<x>> \o row2) = ToSet(<<x>>) \cup ToSet(row2)
        /\ \A k \in 1 .. Len(<<x>>) : (<<x>> \o row2)[k] = <<x>>[k]
    <3> DEFINE o == <<x>>
    <3>1. o \in Seq(K)
      BY ONLY <1>11
    <3> HIDE DEF o
    <3>2. /\ Len(o \o row2) = Len(o) + Len(row2) /\ ToSet(o \o row2) = ToSet(o) \cup ToSet(row2)
          /\ \A k \in 1 .. Len(o) : (o \o row2)[k] = o[k]
      BY ONLY <1>1, <3>1, ConcatIs
    <3> QED
      BY ONLY <3>2 DEF o
  <2>4. 1 \in 1 .. Len(<<x>>)
    BY ONLY <1>11
  <2>5. (<<x>> \o row2)[1] = x
    BY ONLY <2>3, <2>4, <1>11
  <2> QED
    BY ONLY <1>11, <2>1, <2>2, <2>3, <2>5, <1>0
<1>13. m \in K /\ m \in Nat /\ at.lo < m /\ m < at2.hi
  BY ONLY <1>6, <1>8, <1>10, <1>12, at2.lo < at2.hi, at.hi = at2.lo
<1>14. mid.lo = x /\ mid.hi = at.hi
  OBVIOUS
<1> HIDE DEF mid
<1>15. LeafFits(mid, <<x>>, K)
  <2>1. mid.lo <= x /\ x < mid.hi
    BY ONLY <1>6, <1>10, <1>14
  <2>2. K \subseteq Nat
    BY ONLY <1>5
  <2> QED
    BY ONLY <1>6, <2>1, <2>2, LeafOne
<1>16. LeafFits([lev |-> 0, lo |-> m, hi |-> at2.hi], right, K)
  <2>1. mid.lo <= mid.hi /\ at2.lo <= at2.hi /\ mid.hi <= at2.lo /\ mid.lo \in Nat /\ mid.hi \in Nat
    BY ONLY <1>6, <1>8, <1>10, <1>14, at.hi = at2.lo, at2.lo < at2.hi
  <2>2. LeafFits([lev |-> 0, lo |-> mid.lo, hi |-> at2.hi], <<x>> \o row2, K)
    BY ONLY <1>8, <1>15, <2>1, LeafFits(at2, row2, K), LeafJoin
  <2> QED
    BY ONLY <1>12, <1>14, <2>2
<1>17. LeafFits([lev |-> 0, lo |-> at.lo, hi |-> m], left, K)
  <2> DEFINE at3 == [lev |-> 0, lo |-> at.lo, hi |-> m]
             M == N - 1
  <2>1. 1 \in 1 .. Len(row) + 1 /\ M \in 0 .. Len(row) /\ 1 <= M + 1
    BY ONLY <1>2
  <2>2. \A k \in 1 .. M : at3.lo <= row[k] /\ row[k] < at3.hi
    <3>1. ASSUME NEW k \in 1 .. N - 1 PROVE at.lo <= row[k] /\ row[k] < m
      <4>1. k \in 1 .. N /\ k < N
        BY ONLY <3>1, <1>2
      <4> QED
        BY ONLY <1>1, <1>9, <1>12, <4>1 DEF x
    <3> QED
      BY ONLY <3>1
  <2>4. SubSeq(row, 1, M) = left
    BY ONLY <1>4
  <2> HIDE DEF at3, M
  <2>3. LeafFits(at3, SubSeq(row, 1, M), K)
    BY ONLY <2>1, <2>2, at \in Place, LeafFits(at, row, K), LeafSub
  <2> QED
    BY ONLY <2>3, <2>4 DEF at3
<1>18. ToSet(row) = ToSet(left) \cup {x}
  <2>1. \A z : z \in ToSet(row) <=> \E k \in 1 .. N : row[k] = z
    BY ONLY <1>1, <1>2 DEF ToSet
  <2>2. ASSUME NEW k \in 1 .. N PROVE k = N \/ k \in 1 .. N - 1
    BY ONLY <1>2, <2>2
  <2>3. x = row[N]
    BY DEF x
  <2>4. \A k \in 1 .. N - 1 : k \in 1 .. N
    BY ONLY <1>2
  <2> QED
    BY ONLY <1>7, <1>9, <2>1, <2>2, <2>3, <2>4
<1> QED
  BY ONLY <1>0, <1>2, <1>7, <1>12, <1>13, <1>16, <1>17, <1>18 DEF Divided, Together

(* The nodes from level w up keep their places.                            *)
Keeps(g, g2, w) ==
    /\ DOMAIN g2 \subseteq DOMAIN g
    /\ \A b \in DOMAIN g2 : g2[b].lev = g[b].lev
    /\ \A b \in DOMAIN g : g[b].lev >= w => b \in DOMAIN g2 /\ g2[b] = g[b]

(* Neither moving rows between two leaves nor merging them changes the     *)
(* keys of the tree.                                                       *)
LEMMA KeysMoved ==
    ASSUME NEW t, NEW g, NEW v, NEW g2, NEW l, l \in DOMAIN g, g[l].lev = 0, l \in DOMAIN g2, g2[l].lev = 0,
           NEW r, r \in DOMAIN g, g[r].lev = 0,
           \A b : b # l /\ b # r => (b \in DOMAIN g /\ g[b].lev = 0 <=> b \in DOMAIN g2 /\ g2[b].lev = 0),
           \A b \in DOMAIN g : g[b].lev = 0 /\ b # l /\ b # r => RowSet(v, b) = RowSet(t, b),
           r \in DOMAIN g2 => g2[r].lev = 0,
           RowSet(v, l) \cup (IF r \in DOMAIN g2 THEN RowSet(v, r) ELSE {}) = RowSet(t, l) \cup RowSet(t, r)
    PROVE  KeysIn(v, g2) = KeysIn(t, g)
<1>1. ASSUME NEW x \in KeysIn(v, g2) PROVE x \in KeysIn(t, g)
  <2>1. PICK b \in DOMAIN g2 : g2[b].lev = 0 /\ x \in RowSet(v, b)
    BY DEF KeysIn
  <2>2. CASE b # l /\ b # r
    <3>1. b \in DOMAIN g /\ g[b].lev = 0 /\ x \in RowSet(t, b)
      BY <2>1, <2>2
    <3> QED
      BY <3>1 DEF KeysIn
  <2>3. CASE b = l \/ b = r
    <3>1. x \in RowSet(t, l) \cup RowSet(t, r)
      BY <2>1, <2>3
    <3> QED
      BY <3>1 DEF KeysIn
  <2> QED
    BY <2>2, <2>3
<1>2. ASSUME NEW x \in KeysIn(t, g) PROVE x \in KeysIn(v, g2)
  <2>1. PICK b \in DOMAIN g : g[b].lev = 0 /\ x \in RowSet(t, b)
    BY DEF KeysIn
  <2>2. CASE b # l /\ b # r
    <3>1. b \in DOMAIN g2 /\ g2[b].lev = 0 /\ x \in RowSet(v, b)
      BY <2>1, <2>2
    <3> QED
      BY <3>1 DEF KeysIn
  <2>3. CASE b = l \/ b = r
    <3>1. x \in RowSet(v, l) \/ (r \in DOMAIN g2 /\ x \in RowSet(v, r))
      BY <2>1, <2>3
    <3> QED
      BY <3>1 DEF KeysIn
  <2> QED
    BY <2>2, <2>3
<1> QED
  BY <1>1, <1>2

(* No leaf is touched.                                                     *)
LEMMA KeysSame ==
    ASSUME NEW t, NEW g, NEW v, NEW g2,
           \A b : b \in DOMAIN g /\ g[b].lev = 0 <=> b \in DOMAIN g2 /\ g2[b].lev = 0,
           \A b \in DOMAIN g : g[b].lev = 0 => RowSet(v, b) = RowSet(t, b)
    PROVE  KeysIn(v, g2) = KeysIn(t, g)
  BY DEF KeysIn

(* The bound between two neighbours of a lower level moves.                *)
LEMMA ShiftKeeps ==
    ASSUME NEW g, NEW g2, DOMAIN g2 = DOMAIN g, NEW l, NEW r,
           g2[l].lev = g[l].lev, g2[r].lev = g[r].lev,
           \A b \in DOMAIN g : b # l /\ b # r => g2[b] = g[b],
           NEW w, ~(g[l].lev >= w), ~(g[r].lev >= w)
    PROVE  Keeps(g, g2, w)
  BY DEF Keeps

(* A merge keeps the places above the level of the two.                    *)
LEMMA JoinKeeps ==
    ASSUME NEW g, NEW g2, NEW l, NEW r, DOMAIN g2 = DOMAIN g \ {r},
           g2[l].lev = g[l].lev,
           \A b \in DOMAIN g : b # l /\ b # r => g2[b] = g[b],
           NEW w, ~(g[l].lev >= w), ~(g[r].lev >= w)
    PROVE  Keeps(g, g2, w)
  BY DEF Keeps

(* Two steps that keep the places above a level, one after the other.      *)
LEMMA KeepsOn ==
    ASSUME NEW g, NEW g2, NEW g3, NEW w \in Nat, Keeps(g, g2, w), NEW w2 \in Nat, Keeps(g2, g3, w2), w <= w2,
           \A b \in DOMAIN g : g[b].lev \in Nat
    PROVE  Keeps(g, g3, w2)
  BY DEF Keeps

(* New rows for two nodes.                                                 *)
TwoRows(t, l, rowl, r, rowr) == [[t EXCEPT !.node[l].row = rowl] EXCEPT !.node[r].row = rowr]

(* The merged node has the rows and children of both and, between them,    *)
(* the copy x of the separator.                                            *)
LEMMA InnersFit ==
    ASSUME NEW str, NEW g, NEW str2, NEW g2, NEW at, NEW row, NEW child, NEW at2, NEW row2, NEW child2,
           InnerFits(str, g, at, row, child), InnerFits(str, g, at2, row2, child2),
           \A s \in ToSet(row) \cup ToSet(row2) : s \in DOMAIN str2 /\ str2[s] = str[s],
           \A c \in ToSet(child) \cup ToSet(child2) : c \in DOMAIN g2 /\ g2[c] = g[c],
           at.lev = at2.lev, at.hi = at2.lo, NEW x, x \in DOMAIN str2, str2[x] = at.hi
    PROVE  InnerFits(str2, g2, [lev |-> at.lev, lo |-> at.lo, hi |-> at2.hi],
                     (row \o <<x>>) \o row2, child \o child2)
<1>1. \A s \in ToSet(row) : s \in DOMAIN str2 /\ str2[s] = str[s]
  OBVIOUS
<1>2. \A c \in ToSet(child) : c \in DOMAIN g2 /\ g2[c] = g[c]
  OBVIOUS
<1>3. \A s \in ToSet(row2) : s \in DOMAIN str2 /\ str2[s] = str[s]
  OBVIOUS
<1>4. \A c \in ToSet(child2) : c \in DOMAIN g2 /\ g2[c] = g[c]
  OBVIOUS
<1>5. InnerFits(str2, g2, at, row, child)
  BY ONLY InnerFits(str, g, at, row, child), <1>1, <1>2, InnerStays
<1>6. InnerFits(str2, g2, at2, row2, child2)
  BY ONLY InnerFits(str, g, at2, row2, child2), <1>3, <1>4, InnerStays
<1> QED
  BY ONLY <1>5, <1>6, at.lev = at2.lev, at.hi = at2.lo, x \in DOMAIN str2, str2[x] = at.hi, FitsJoin

(* Two inner nodes from lo to hi with y between them and the rows S.       *)
InnersDivided(str, g, lev, lo, hi, rowl, childl, rowr, childr, y, S) ==
    /\ y \in DOMAIN str
    /\ InnerFits(str, g, [lev |-> lev, lo |-> lo, hi |-> str[y]], rowl, childl)
    /\ InnerFits(str, g, [lev |-> lev, lo |-> str[y], hi |-> hi], rowr, childr)
    /\ (ToSet(rowl) \cup ToSet(rowr)) \cup {y} = S
    /\ ToSet(rowl) \cap ToSet(rowr) = {} /\ y \notin ToSet(rowl) /\ y \notin ToSet(rowr)

(* Concatenation with the empty sequence.                                  *)
LEMMA NoRows ==
    ASSUME NEW S, NEW s, s \in Seq(S)
    PROVE  s \o <<>> = s /\ <<>> \o s = s
<1>1. <<>> \in Seq(S) /\ Len(<<>>) = 0 /\ Len(s) \in Nat
  OBVIOUS
<1>2. s \o <<>> = s
  <2>1. s \o <<>> \in Seq(S) /\ Len(s \o <<>>) = Len(s) /\ \A k \in 1 .. Len(s) : (s \o <<>>)[k] = s[k]
    BY <1>1
  <2> QED
    BY <2>1, SeqEqual
<1>3. <<>> \o s = s
  <2>1. <<>> \o s \in Seq(S) /\ Len(<<>> \o s) = Len(s) /\ \A k \in 1 .. Len(s) : (<<>> \o s)[k] = s[k]
    BY <1>1
  <2> QED
    BY <2>1, SeqEqual
<1> QED
  BY <1>2, <1>3

(* The rows of two neighbours and the separator s are all different.       *)
Different(str, row, row2, s) ==
    /\ s \in DOMAIN str /\ IsInjective(row) /\ IsInjective(row2)
    /\ ToSet(row) \cap ToSet(row2) = {} /\ s \notin ToSet(row) /\ s \notin ToSet(row2)

(* The first row of the right one turns up and the separator down.         *)
LEMMA FirstTurns ==
    ASSUME NEW str, NEW g, NEW at, NEW row, NEW child, InnerFits(str, g, at, row, child),
           NEW at2, NEW row2, NEW child2, InnerFits(str, g, at2, row2, child2),
           at.lev = at2.lev, at.hi = at2.lo, NEW s, str[s] = at.hi, Different(str, row, row2, s), Len(row2) >= 1
    PROVE  /\ InnersDivided(str, g, at.lev, at.lo, at2.hi, Append(row, s), Append(child, Head(child2)),
                            Tail(row2), Tail(child2), Head(row2), (ToSet(row) \cup ToSet(row2)) \cup {s})
           /\ Len(Append(row, s)) = Len(row) + 1 /\ Len(Tail(row2)) + 1 = Len(row2)
<1> DEFINE D == DOMAIN str
           c == child2[1]
           y == row2[1]
           N == Len(row2)
           one == [lev |-> g[c].lev + 1, lo |-> g[c].lo, hi |-> g[c].hi]
<1>1. /\ row \in Seq(D) /\ child \in Seq(DOMAIN g) /\ row2 \in Seq(D) /\ child2 \in Seq(DOMAIN g)
      /\ Len(child2) = N + 1 /\ N \in Nat /\ N >= 1
      /\ g[child2[1]].lo = at2.lo /\ g[child2[1]].lev + 1 = at2.lev
      /\ g[child2[1]].hi = str[row2[1]] /\ g[child2[2]].lo = str[row2[1]]
      /\ g[child2[N + 1]].hi = at2.hi
  <2>1. /\ row \in Seq(D) /\ child \in Seq(DOMAIN g) /\ row2 \in Seq(D) /\ child2 \in Seq(DOMAIN g)
        /\ Len(child2) = N + 1 /\ g[child2[1]].lo = at2.lo /\ g[child2[Len(child2)]].hi = at2.hi
        /\ \A i \in 1 .. Len(child2) : g[child2[i]].lev + 1 = at2.lev
        /\ \A i \in 1 .. Len(row2) : g[child2[i]].hi = str[row2[i]] /\ g[child2[i + 1]].lo = str[row2[i]]
    BY DEF InnerFits
  <2>2. N \in Nat /\ N >= 1
    BY <2>1
  <2>3. 1 \in 1 .. Len(child2) /\ 1 \in 1 .. Len(row2) /\ 1 + 1 = 2
    BY ONLY <2>1, <2>2
  <2> QED
    BY ONLY <2>1, <2>2, <2>3
<1>2. s \in D /\ c \in DOMAIN g /\ y \in D /\ child2 # <<>> /\ row2 # <<>>
  BY <1>1 DEF Different
<1>3. Head(row2) = y /\ Tail(row2) = SubSeq(row2, 2, N) /\ Head(child2) = c /\ Tail(child2) = SubSeq(child2, 2, N + 1)
  BY ONLY <1>1, <1>2, EndsIs
<1>4. Append(row, s) = (row \o <<s>>) \o <<>> /\ Append(child, c) = child \o <<c>>
  <2>1. Append(row, s) = row \o <<s>> /\ Append(child, c) = child \o <<c>>
    BY ONLY <1>1, <1>2, AppendIs
  <2>2. row \o <<s>> \in Seq(D)
    BY ONLY <1>1, <1>2
  <2>3. (row \o <<s>>) \o <<>> = row \o <<s>>
    BY ONLY <2>2, NoRows
  <2> QED
    BY ONLY <2>1, <2>3
<1>5. InnerFits(str, g, [lev |-> at.lev, lo |-> at.lo, hi |-> str[y]], Append(row, s), Append(child, c))
  <2>1. InnerFits(str, g, one, <<>>, <<c>>)
    BY ONLY <1>2, FitsOne DEF one
  <2>2. one.lev = at.lev /\ one.lo = at.hi /\ one.hi = str[y]
    BY ONLY <1>1, at.lev = at2.lev, at.hi = at2.lo DEF one, c, y
  <2> HIDE DEF one
  <2>3. InnerFits(str, g, [lev |-> at.lev, lo |-> at.lo, hi |-> one.hi], (row \o <<s>>) \o <<>>, child \o <<c>>)
    <3> DEFINE none == <<>>
               single == <<c>>
    <3>1. InnerFits(str, g, one, none, single) /\ at.lev = one.lev /\ at.hi = one.lo /\ s \in DOMAIN str
      BY ONLY <1>2, <2>1, <2>2
    <3> HIDE DEF none, single
    <3>2. InnerFits(str, g, [lev |-> at.lev, lo |-> at.lo, hi |-> one.hi], (row \o <<s>>) \o none, child \o single)
      BY ONLY InnerFits(str, g, at, row, child), str[s] = at.hi, <3>1, FitsJoin
    <3> QED
      BY ONLY <3>2 DEF none, single
  <2> QED
    BY ONLY <1>4, <2>2, <2>3
<1>6. InnerFits(str, g, [lev |-> at.lev, lo |-> str[y], hi |-> at2.hi], Tail(row2), Tail(child2))
  <2> DEFINE i == 2
             k == N + 1
  <2>1. i \in 1 .. Len(child2) /\ k \in 1 .. Len(child2) /\ i <= k
    BY ONLY <1>1
  <2> HIDE DEF i, k
  <2>2. InnerFits(str, g, [lev |-> at2.lev, lo |-> g[child2[i]].lo, hi |-> g[child2[k]].hi],
                  SubSeq(row2, i, k - 1), SubSeq(child2, i, k))
    BY ONLY InnerFits(str, g, at2, row2, child2), <2>1, FitsSub
  <2>3. k - 1 = N /\ i = 2 /\ k = N + 1
    BY ONLY <1>1 DEF i, k
  <2> HIDE DEF N
  <2> QED
    BY ONLY <1>1, <1>3, <2>2, <2>3, at.lev = at2.lev DEF y
<1>7. ToSet(Append(row, s)) = ToSet(row) \cup {s} /\ Len(Append(row, s)) = Len(row) + 1
  <2>1. ToSet(<<s>>) = {s} /\ <<s>> \in Seq(D) /\ Len(<<s>>) = 1
    BY ONLY <1>2, OneIs
  <2> DEFINE o == <<s>>
  <2>2. o \in Seq(D) /\ ToSet(o) = {s} /\ Append(row, s) = row \o o
    BY ONLY <1>1, <1>2, <2>1, AppendIs
  <2> HIDE DEF o
  <2>3. ToSet(row \o o) = ToSet(row) \cup ToSet(o)
    BY ONLY <1>1, <2>2, ConcatIs
  <2> QED
    BY ONLY <1>1, <2>2, <2>3
<1>8. ToSet(Tail(row2)) = ToSet(row2) \ {y} /\ y \in ToSet(row2) /\ Len(Tail(row2)) + 1 = Len(row2)
  <2>1. row2 \in Seq(D) /\ row2 # <<>> /\ IsInjective(row2)
    BY ONLY <1>1, <1>2, Different(str, row, row2, s) DEF Different
  <2>2. ToSet(Tail(row2)) = ToSet(row2) \ {row2[1]} /\ row2[1] \in ToSet(row2)
    BY ONLY <2>1, ToSetTail
  <2>3. Len(Tail(row2)) = Len(row2) - 1
    BY ONLY <2>1
  <2> QED
    BY ONLY <1>1, <2>2, <2>3
<1>9. InnersDivided(str, g, at.lev, at.lo, at2.hi, Append(row, s), Append(child, c),
                    Tail(row2), Tail(child2), y, (ToSet(row) \cup ToSet(row2)) \cup {s})
  <2> HIDE DEF y, c
  <2> QED
    BY ONLY <1>2, <1>5, <1>6, <1>7, <1>8, Different(str, row, row2, s) DEF Different, InnersDivided
<1> QED
  BY ONLY <1>3, <1>7, <1>8, <1>9

(* The last row of the left one turns up and the separator down.           *)
LEMMA LastTurns ==
    ASSUME NEW str, NEW g, NEW at, NEW row, NEW child, InnerFits(str, g, at, row, child),
           NEW at2, NEW row2, NEW child2, InnerFits(str, g, at2, row2, child2),
           at.lev = at2.lev, at.hi = at2.lo, NEW s, str[s] = at.hi, Different(str, row, row2, s), Len(row) >= 1
    PROVE  /\ InnersDivided(str, g, at.lev, at.lo, at2.hi, Front(row), Front(child),
                            <<s>> \o row2, <<Last(child)>> \o child2, Last(row), (ToSet(row) \cup ToSet(row2)) \cup {s})
           /\ Len(Front(row)) + 1 = Len(row) /\ Len(<<s>> \o row2) = Len(row2) + 1
<1> DEFINE D == DOMAIN str
           N == Len(row)
           c == child[N + 1]
           y == row[N]
           one == [lev |-> g[c].lev + 1, lo |-> g[c].lo, hi |-> g[c].hi]
<1>1. /\ row \in Seq(D) /\ child \in Seq(DOMAIN g) /\ row2 \in Seq(D) /\ child2 \in Seq(DOMAIN g)
      /\ Len(child) = N + 1 /\ N \in Nat /\ N >= 1
      /\ g[child[1]].lo = at.lo /\ g[child[N + 1]].lev + 1 = at.lev
      /\ g[child[N]].hi = str[row[N]] /\ g[child[N + 1]].lo = str[row[N]]
      /\ g[child[N + 1]].hi = at.hi
  <2>1. /\ row \in Seq(D) /\ child \in Seq(DOMAIN g) /\ row2 \in Seq(D) /\ child2 \in Seq(DOMAIN g)
        /\ Len(child) = N + 1 /\ g[child[1]].lo = at.lo /\ g[child[Len(child)]].hi = at.hi
        /\ \A i \in 1 .. Len(child) : g[child[i]].lev + 1 = at.lev
        /\ \A i \in 1 .. Len(row) : g[child[i]].hi = str[row[i]] /\ g[child[i + 1]].lo = str[row[i]]
    BY DEF InnerFits
  <2>2. N \in Nat /\ N >= 1
    BY <2>1
  <2>3. N + 1 \in 1 .. Len(child) /\ N \in 1 .. Len(row)
    BY ONLY <2>1, <2>2
  <2> QED
    BY ONLY <2>1, <2>2, <2>3
<1>2. s \in D /\ c \in DOMAIN g /\ y \in D /\ child # <<>> /\ row # <<>>
  BY <1>1 DEF Different
<1>3. Last(row) = y /\ Front(row) = SubSeq(row, 1, N - 1) /\ Last(child) = c /\ Front(child) = SubSeq(child, 1, N)
  <2>1. Last(row) = y /\ Front(row) = SubSeq(row, 1, N - 1)
    BY ONLY <1>1, <1>2, EndsIs
  <2>2. Last(child) = child[Len(child)] /\ Front(child) = SubSeq(child, 1, Len(child) - 1)
    BY ONLY <1>1, <1>2, EndsIs
  <2>3. Len(child) - 1 = N
    BY ONLY <1>1
  <2> QED
    BY ONLY <1>1, <2>1, <2>2, <2>3
<1>4. <<s>> \o row2 = (<<>> \o <<s>>) \o row2
  <2>1. <<s>> \in Seq(D)
    BY ONLY <1>2
  <2>2. <<>> \o <<s>> = <<s>>
    BY ONLY <2>1, NoRows
  <2> QED
    BY ONLY <2>2
<1>5. InnerFits(str, g, [lev |-> at.lev, lo |-> str[y], hi |-> at2.hi], <<s>> \o row2, <<c>> \o child2)
  <2>1. InnerFits(str, g, one, <<>>, <<c>>)
    BY ONLY <1>2, FitsOne DEF one
  <2>2. one.lev = at.lev /\ one.hi = at2.lo /\ one.lo = str[y]
    BY ONLY <1>1, at.lev = at2.lev, at.hi = at2.lo DEF one, c, y
  <2> HIDE DEF one
  <2>3. InnerFits(str, g, [lev |-> one.lev, lo |-> one.lo, hi |-> at2.hi], (<<>> \o <<s>>) \o row2, <<c>> \o child2)
    <3> DEFINE none == <<>>
               single == <<c>>
    <3>1. InnerFits(str, g, one, none, single) /\ one.lev = at2.lev /\ one.hi = at2.lo /\ s \in DOMAIN str
          /\ str[s] = one.hi
      BY ONLY <1>2, <2>1, <2>2, at.lev = at2.lev, at.hi = at2.lo, str[s] = at.hi
    <3> HIDE DEF none, single
    <3>2. InnerFits(str, g, [lev |-> one.lev, lo |-> one.lo, hi |-> at2.hi], (none \o <<s>>) \o row2, single \o child2)
      BY ONLY InnerFits(str, g, at2, row2, child2), <3>1, FitsJoin
    <3> QED
      BY ONLY <3>2 DEF none, single
  <2> QED
    BY ONLY <1>4, <2>2, <2>3
<1>6. InnerFits(str, g, [lev |-> at.lev, lo |-> at.lo, hi |-> str[y]], Front(row), Front(child))
  <2> DEFINE i == 1
             k == N
  <2>1. i \in 1 .. Len(child) /\ k \in 1 .. Len(child) /\ i <= k
    BY ONLY <1>1
  <2> HIDE DEF i, k
  <2>2. InnerFits(str, g, [lev |-> at.lev, lo |-> g[child[i]].lo, hi |-> g[child[k]].hi],
                  SubSeq(row, i, k - 1), SubSeq(child, i, k))
    BY ONLY InnerFits(str, g, at, row, child), <2>1, FitsSub
  <2>3. i = 1 /\ k = N
    BY ONLY <1>1 DEF i, k
  <2> HIDE DEF N
  <2> QED
    BY ONLY <1>1, <1>3, <2>2, <2>3 DEF y
<1>7. ToSet(<<s>> \o row2) = ToSet(row2) \cup {s} /\ Len(<<s>> \o row2) = Len(row2) + 1
  <2> DEFINE o == <<s>>
  <2>1. o \in Seq(D) /\ ToSet(o) = {s} /\ Len(o) = 1
    BY ONLY <1>2, OneIs
  <2>2. row2 \in Seq(D)
    BY ONLY <1>1
  <2> HIDE DEF o, D
  <2>3. ToSet(o \o row2) = ToSet(o) \cup ToSet(row2)
    BY ONLY <2>1, <2>2, ConcatIs
  <2>4. Len(o \o row2) = Len(o) + Len(row2) /\ Len(row2) \in Nat
    <3>1. Len(o \o row2) = Len(o) + Len(row2)
      BY ONLY <2>1, <2>2, ConcatIs
    <3>2. Len(row2) \in Nat
      BY ONLY <2>2
    <3> QED
      BY ONLY <3>1, <3>2
  <2> QED
    BY ONLY <2>1, <2>3, <2>4 DEF o
<1>8. ToSet(Front(row)) = ToSet(row) \ {y} /\ y \in ToSet(row) /\ Len(Front(row)) + 1 = Len(row)
  <2>1. IsInjective(row)
    BY ONLY Different(str, row, row2, s) DEF Different
  <2> DEFINE i == 1
             k == N - 1
  <2>2. i \in 1 .. Len(row) + 1 /\ k \in 0 .. Len(row) /\ i <= k + 1 /\ k - i + 1 = N - 1
    BY ONLY <1>1
  <2> HIDE DEF i, k
  <2>3. /\ Len(SubSeq(row, i, k)) = k - i + 1
        /\ \A x : x \in ToSet(SubSeq(row, i, k)) <=> \E z \in i .. k : row[z] = x
    BY ONLY <1>1, <2>2, SubSeqIs
  <2>4. /\ Len(Front(row)) = N - 1
        /\ \A x : x \in ToSet(Front(row)) <=> \E z \in 1 .. N - 1 : row[z] = x
    BY ONLY <1>3, <2>2, <2>3 DEF i, k
  <2>5. \A x : x \in ToSet(row) <=> \E z \in 1 .. N : row[z] = x
    BY ONLY <1>1, ToSetIs
  <2>6. \A z \in 1 .. N - 1 : row[z] # row[N]
    BY ONLY <1>1, <2>1 DEF IsInjective
  <2>7. 1 .. N = (1 .. N - 1) \cup {N}
    BY ONLY <1>1
  <2>8. \A x : x \in ToSet(Front(row)) <=> x \in ToSet(row) /\ x # row[N]
    BY ONLY <2>4, <2>5, <2>6, <2>7
  <2>9. row[N] \in ToSet(row)
    BY ONLY <2>5, <2>7
  <2> QED
    BY ONLY <1>1, <2>4, <2>8, <2>9
<1>9. InnersDivided(str, g, at.lev, at.lo, at2.hi, Front(row), Front(child),
                    <<s>> \o row2, <<c>> \o child2, y, (ToSet(row) \cup ToSet(row2)) \cup {s})
  <2> HIDE DEF y, c
  <2> QED
    BY ONLY <1>2, <1>5, <1>6, <1>7, <1>8, Different(str, row, row2, s) DEF Different, InnersDivided
<1> QED
  BY ONLY <1>3, <1>7, <1>8, <1>9

(* What a rotation leaves to l and r, and sends up to p.                   *)
Shared(t, g, p, j, l, r, rowl, childl, rowr, childr, y) ==
    InnersDivided(t.string, g, g[l].lev, g[l].lo, g[r].hi, rowl, childl, rowr, childr, y,
                  (RowSet(t, l) \cup RowSet(t, r)) \cup {t.node[p].row[j]})

(* The children of a node with a range have places below it.               *)
LEMMA FitsBetween ==
    ASSUME NEW str, NEW g, NEW h, NEW top, Tiled(g, h, top), NEW at, at \in Place,
           NEW row, NEW child, InnerFits(str, g, at, row, child)
    PROVE  at.lo < at.hi /\ row \in Seq(DOMAIN str) /\ \A c \in ToSet(child) : c \in DOMAIN g /\ g[c].lev + 1 = at.lev
<1> DEFINE lev == at.lev
           lo == at.lo
           hi == at.hi
<1>1. /\ at \in Place /\ at.lev = lev /\ at.lo = lo /\ at.hi = hi /\ InnerFits(str, g, at, row, child)
      /\ lo \in Nat /\ hi \in Nat
  BY DEF Place
<1>2. Ordered(g)
  BY TiledIs
<1> HIDE DEF lo, hi, lev
<1>3. /\ child \in Seq(DOMAIN g) /\ Len(child) = Len(row) + 1 /\ row \in Seq(DOMAIN str)
      /\ \A i \in 1 .. Len(child) : g[child[i]].lev + 1 = lev
  BY ONLY <1>1 DEF InnerFits
<1>4. 1 \in 1 .. Len(child)
  BY ONLY <1>3
<1>5. g[child[1]] \in Place /\ g[child[1]].lo < g[child[1]].hi /\ at.lo <= g[child[1]].lo /\ g[child[1]].hi <= at.hi
  BY ONLY <1>1, <1>2, <1>4, FitsInside
<1>6. lo < hi
  <2>1. g[child[1]].lo \in Nat /\ g[child[1]].hi \in Nat
    BY ONLY <1>5 DEF Place
  <2> QED
    BY ONLY <1>1, <1>5, <2>1
<1>7. \A c \in ToSet(child) : c \in DOMAIN g /\ g[c].lev + 1 = lev
  BY ONLY <1>3, ToSetIs
<1> QED
  BY ONLY <1>1, <1>3, <1>6, <1>7

(* The fields a rotation assigns, in its order.                            *)
Assigned(t, a, rowa, childa, p, j, y, b, rowb, childb) ==
    [[[[[t EXCEPT !.node[a].row = rowa] EXCEPT !.node[a].child = childa] EXCEPT !.node[p].row[j] = y]
         EXCEPT !.node[b].row = rowb] EXCEPT !.node[b].child = childb]

(* c has the place of a child of p.                                        *)
Under(g, p, c) ==
    /\ p \in DOMAIN g /\ g[p].lev # 0 /\ c \in DOMAIN g /\ g[c].lev + 1 = g[p].lev
    /\ g[p].lo <= g[c].lo /\ g[c].hi <= g[p].hi

(* There are fewer levels than nodes below N.                              *)
LEMMA LevelsFit ==
    ASSUME NEW g, NEW h, NEW top, Tiled(g, h, top), NEW N, N \in Nat, DOMAIN g \subseteq 0 .. N - 1
    PROVE  h \in Nat /\ h < N
<1> DEFINE D == DOMAIN g
           f == [b \in D |-> g[b].lev]
<1>1. Tiled(g, h, top)
  OBVIOUS
<1>2. h \in Nat /\ \A b \in D : g[b].lev \in 0 .. h
  BY ONLY <1>1, TiledIs
<1>3. N \in Nat /\ D \subseteq 0 .. N - 1
  OBVIOUS
<1>4. \A v \in 0 .. h : \E b \in D : g[b].lev = v
  <2>1. 0 \in 0 .. top
    BY ONLY <1>1 DEF Tiled
  <2> QED
    BY ONLY <1>1, <2>1 DEF Tiled, Covers
<1> HIDE DEF D
<1>5. f \in Surjection(D, 0 .. h)
  <2>1. f \in [D -> 0 .. h]
    BY ONLY <1>2
  <2>2. \A v \in 0 .. h : \E b \in D : f[b] = v
    BY ONLY <1>4
  <2> QED
    BY ONLY <2>1, <2>2 DEF Surjection
<1> HIDE DEF f
<1>6. IsFiniteSet(D) /\ Cardinality(D) <= N /\ Cardinality(D) \in Nat
  <2>1. IsFiniteSet(0 .. N - 1) /\ Cardinality(0 .. N - 1) = N
    <3>1. 0 \in Int /\ N - 1 \in Int
      BY ONLY <1>3
    <3>2. /\ IsFiniteSet(0 .. N - 1)
          /\ Cardinality(0 .. N - 1) = IF 0 > N - 1 THEN 0 ELSE (N - 1) - 0 + 1
      BY ONLY <3>1, FS_Interval, Zenon
    <3> QED
      BY ONLY <1>3, <3>2
  <2>2. IsFiniteSet(D) /\ Cardinality(D) <= Cardinality(0 .. N - 1)
    BY ONLY <1>3, <2>1, FS_Subset
  <2>3. Cardinality(D) \in Nat
    BY ONLY <2>2, FS_CardinalityType
  <2> QED
    BY ONLY <2>1, <2>2, <2>3
<1>7. Cardinality(0 .. h) = h + 1
  <2>1. Cardinality(0 .. h) = IF 0 > h THEN 0 ELSE h - 0 + 1
    <3>1. 0 \in Int /\ h \in Int
      BY ONLY <1>2
    <3> QED
      BY ONLY <3>1, FS_Interval, Zenon
  <2> QED
    BY ONLY <1>2, <2>1
<1>8. Cardinality(0 .. h) <= Cardinality(D)
  BY ONLY <1>5, <1>6, FS_Surjection
<1>9. h < N
  BY ONLY <1>2, <1>3, <1>6, <1>7, <1>8
<1> QED
  BY ONLY <1>2, <1>9

(* The step down from b, in whose range k is.                              *)
Descends(g, b, c, k) == Under(g, b, c) /\ g[c].lo <= k /\ k < g[c].hi

(* The nodes above c are as they were.                                     *)
UpStays(t, g, c, u, g2) ==
    /\ DOMAIN g \subseteq DOMAIN g2
    /\ \A y \in DOMAIN g2 : y \notin DOMAIN g => g2[y].lev <= g[c].lev
    /\ \A y \in DOMAIN g : g2[y].lev = g[y].lev
    /\ \A y \in DOMAIN g : y # c /\ g[y].lev >= g[c].lev => g2[y] = g[y] /\ u.node[y] = t.node[y]
    /\ \A s \in DOMAIN t.string : s \in DOMAIN u.string /\ u.string[s] = t.string[s]
    /\ u.root_node = t.root_node

(* Only nodes up to the level of b changed, once those up to the level of  *)
(* its child c had and b after them.                                       *)
LEMMA UpStaysOn ==
    ASSUME NEW t, NEW g, NEW b, b \in DOMAIN g, NEW c, c \in DOMAIN g, g[c].lev \in Nat, g[b].lev \in Nat,
           g[c].lev < g[b].lev, \A y \in DOMAIN g : g[y].lev \in Nat,
           NEW u, NEW g2, \A y \in DOMAIN g2 : g2[y].lev \in Nat, UpStays(t, g, c, u, g2),
           NEW v, NEW g3, UpStays(u, g2, b, v, g3), g2[b] = g[b]
    PROVE  UpStays(t, g, b, v, g3)
<1>1. /\ DOMAIN g \subseteq DOMAIN g2
      /\ \A y \in DOMAIN g2 : y \notin DOMAIN g => g2[y].lev <= g[c].lev
      /\ \A y \in DOMAIN g : g2[y].lev = g[y].lev
      /\ \A y \in DOMAIN g : y # c /\ g[y].lev >= g[c].lev => g2[y] = g[y] /\ u.node[y] = t.node[y]
      /\ \A s \in DOMAIN t.string : s \in DOMAIN u.string /\ u.string[s] = t.string[s]
      /\ u.root_node = t.root_node
  BY ONLY UpStays(t, g, c, u, g2) DEF UpStays
<1>2. /\ DOMAIN g2 \subseteq DOMAIN g3
      /\ \A y \in DOMAIN g3 : y \notin DOMAIN g2 => g3[y].lev <= g2[b].lev
      /\ \A y \in DOMAIN g2 : g3[y].lev = g2[y].lev
      /\ \A y \in DOMAIN g2 : y # b /\ g2[y].lev >= g2[b].lev => g3[y] = g2[y] /\ v.node[y] = u.node[y]
      /\ \A s \in DOMAIN u.string : s \in DOMAIN v.string /\ v.string[s] = u.string[s]
      /\ v.root_node = u.root_node
  BY ONLY UpStays(u, g2, b, v, g3) DEF UpStays
<1>3. \A y \in DOMAIN g3 : y \notin DOMAIN g => g3[y].lev <= g[b].lev
  <2> SUFFICES ASSUME NEW y, y \in DOMAIN g3, y \notin DOMAIN g PROVE g3[y].lev <= g[b].lev
    OBVIOUS
  <2>1. CASE y \in DOMAIN g2
    <3>1. g3[y].lev = g2[y].lev /\ g2[y].lev \in Nat /\ g2[y].lev <= g[c].lev
      BY ONLY <1>1, <1>2, <2>1, y \notin DOMAIN g, \A z \in DOMAIN g2 : g2[z].lev \in Nat
    <3> QED
      BY ONLY <3>1, g[c].lev \in Nat, g[b].lev \in Nat, g[c].lev < g[b].lev
  <2>2. CASE y \notin DOMAIN g2
    BY ONLY <1>2, <2>2, y \in DOMAIN g3, g2[b] = g[b]
  <2> QED
    BY ONLY <2>1, <2>2
<1>4. \A y \in DOMAIN g : y # b /\ g[y].lev >= g[b].lev => g3[y] = g[y] /\ v.node[y] = t.node[y]
  <2> SUFFICES ASSUME NEW y, y \in DOMAIN g, y # b, g[y].lev >= g[b].lev
               PROVE  g3[y] = g[y] /\ v.node[y] = t.node[y]
    OBVIOUS
  <2>1. g[y].lev \in Nat
    BY ONLY y \in DOMAIN g, \A z \in DOMAIN g : g[z].lev \in Nat
  <2>2. g[y].lev >= g[c].lev /\ g[y].lev # g[c].lev
    BY ONLY <2>1, g[y].lev >= g[b].lev, g[c].lev \in Nat, g[b].lev \in Nat, g[c].lev < g[b].lev
  <2>3. g2[y] = g[y] /\ u.node[y] = t.node[y] /\ y \in DOMAIN g2
    BY ONLY <1>1, <2>2, y \in DOMAIN g
  <2>4. g3[y] = g2[y] /\ v.node[y] = u.node[y]
    BY ONLY <1>2, <2>3, y # b, g[y].lev >= g[b].lev, g2[b] = g[b]
  <2> QED
    BY ONLY <2>3, <2>4
<1>5. \A y \in DOMAIN g : g3[y].lev = g[y].lev
  BY ONLY <1>1, <1>2
<1> QED
  BY ONLY <1>1, <1>2, <1>3, <1>4, <1>5 DEF UpStays

(* The places without the root.                                            *)
BelowRoot(g, r) == [b \in DOMAIN g \ {r} |-> g[b]]

(* r is the only node of level h, and the places without it are g2.        *)
RootAlone(g, h, top, r, g2, h2) ==
    /\ h # 0 /\ r \in DOMAIN g /\ g[r].lev = h /\ g[r].lo = 0 /\ g[r].hi = top + 1
    /\ g2 = BelowRoot(g, r) /\ h2 = h - 1

(* g2 is g without the root r, a level lower.                              *)
RootIsCut(g, h, top, r, g2, h2) ==
    /\ Tiled(g2, h2, top) /\ h2 \in Nat /\ DOMAIN g2 = DOMAIN g \ {r}
    /\ \A b \in DOMAIN g : b # r => g2[b] = g[b] /\ g[b].lev < h
    /\ \A b \in DOMAIN g : g[b].lev < h => b # r

(* The root was the only node of its level.                                *)
LEMMA TileBelow ==
    ASSUME NEW g, NEW h, NEW top, Tiled(g, h, top), NEW r, NEW g2, NEW h2, RootAlone(g, h, top, r, g2, h2)
    PROVE  RootIsCut(g, h, top, r, g2, h2)
<1>0. h # 0 /\ r \in DOMAIN g /\ g2 = BelowRoot(g, r) /\ h2 = h - 1
  BY DEF RootAlone
<1>1. DOMAIN g2 = DOMAIN g \ {r} /\ \A b \in DOMAIN g2 : g2[b] = g[b]
  BY ONLY <1>0 DEF BelowRoot
<1>2. /\ h \in Nat /\ top \in Nat
      /\ \A b \in DOMAIN g : /\ g[b] \in Place /\ g[b].lev \in Nat /\ g[b].lo \in Nat /\ g[b].hi \in Nat
                             /\ g[b].lev <= h /\ g[b].lo < g[b].hi /\ g[b].hi <= top + 1
  <2>1. /\ h \in Nat /\ top \in Nat
        /\ \A b \in DOMAIN g : /\ g[b] \in Place /\ g[b].lev \in Nat /\ g[b].lo \in Nat /\ g[b].hi \in Nat
                               /\ g[b].lev \in 0 .. h /\ g[b].lo < g[b].hi /\ g[b].hi <= top + 1
    BY ONLY Tiled(g, h, top), TiledIs
  <2> QED
    BY ONLY <2>1
<1>3. h2 \in Nat /\ h2 + 1 = h /\ \A v \in 0 .. h2 : v \in 0 .. h /\ v # h
  BY ONLY <1>0, <1>2
<1>4. g[r].lev = h /\ g[r].lo = 0 /\ g[r].hi = top + 1
  BY DEF RootAlone
<1>5. ASSUME NEW b \in DOMAIN g, b # r PROVE g[b].lev # h
  <2>1. ASSUME g[b].lev = g[r].lev PROVE b = r
    <3> DEFINE k == g[b].lo
    <3>1. k \in Nat /\ g[b].lo <= k /\ k < g[b].hi /\ g[r].lo <= k /\ k < g[r].hi
      BY ONLY <1>2, <1>4, b \in DOMAIN g
    <3> HIDE DEF k
    <3> QED
      BY ONLY <1>0, <2>1, <3>1, b \in DOMAIN g, Tiled(g, h, top), OnlyOne
  <2> QED
    BY ONLY <1>4, <1>5, <2>1
<1>6. \A b \in DOMAIN g2 : /\ g2[b] \in Place /\ g2[b].lev <= h2
                           /\ g2[b].lo < g2[b].hi /\ g2[b].hi <= top + 1
  <2>1. ASSUME NEW b \in DOMAIN g2 PROVE g2[b].lev <= h2
    <3>1. g2[b].lev \in Nat /\ g2[b].lev <= h /\ g2[b].lev # h
      BY ONLY <1>1, <1>2, <1>5, b \in DOMAIN g2
    <3> QED
      BY ONLY <1>3, <3>1
  <2> QED
    BY ONLY <1>1, <1>2, <2>1
<1>7. ASSUME NEW v \in 0 .. h2, NEW k \in 0 .. top PROVE \E b \in DOMAIN g2 : Covers(g2, b, v, k)
  <2>1. v \in 0 .. h /\ v # h
    BY ONLY <1>3, v \in 0 .. h2
  <2>2. PICK b \in DOMAIN g : Covers(g, b, v, k)
    BY ONLY <2>1, Tiled(g, h, top), k \in 0 .. top DEF Tiled
  <2>3. b # r
    BY ONLY <1>4, <2>1, <2>2 DEF Covers
  <2> QED
    BY ONLY <1>1, <2>2, <2>3 DEF Covers
<1>8. ASSUME NEW b \in DOMAIN g2, NEW c \in DOMAIN g2, NEW v \in 0 .. h2, NEW k \in 0 .. top,
             Covers(g2, b, v, k), Covers(g2, c, v, k)
      PROVE  b = c
  <2>1. v \in 0 .. h
    BY ONLY <1>3, v \in 0 .. h2
  <2>2. b \in DOMAIN g /\ c \in DOMAIN g /\ Covers(g, b, v, k) /\ Covers(g, c, v, k)
    BY ONLY <1>1, <1>8 DEF Covers
  <2>3. \A x, y \in DOMAIN g, w \in 0 .. h, e \in 0 .. top : Covers(g, x, w, e) /\ Covers(g, y, w, e) => x = y
    BY ONLY Tiled(g, h, top) DEF Tiled
  <2> QED
    BY ONLY <2>1, <2>2, <2>3, k \in 0 .. top
<1>9. Tiled(g2, h2, top)
  BY ONLY <1>2, <1>3, <1>6, <1>7, <1>8 DEF Tiled
<1>10. \A b \in DOMAIN g : b # r => g[b].lev < h
  BY ONLY <1>2, <1>5
<1> QED
  BY ONLY <1>0, <1>1, <1>3, <1>4, <1>9, <1>10 DEF RootIsCut

(* d has these fields.                                                     *)
Fields(d, q, f, m, node, str) ==
    d = [root_node |-> q, free_node_head |-> f, length |-> m, node |-> node, string |-> str]

(* What Level does for one distance from the root.                         *)
LevelTurn(t, d, prev) ==
    IF d = 0 THEN {t.root_node} ELSE UNION {ToSet(t.node[b].child) : b \in prev}

(* f has the levels of the tree, each from the one above.                  *)
LevelBy(t, N, f) == f = [d \in 0 .. N |-> LevelTurn(t, d, f[d - 1])]

(* The recursive function of Level exists.                                        *)
LEMMA LevelRecurs ==
    ASSUME NEW t, NEW N, N \in Nat
    PROVE  \E f : LevelBy(t, N, f)
<1> DEFINE Loop(f, M) == f = [m \in 0 .. M |-> LevelTurn(t, m, f[m - 1])]
           Exists == {M \in 0 .. N : \E f : Loop(f, M)}
<1>1. 0 \in Exists
  <2> DEFINE g == [m \in 0 .. 0 |-> LevelTurn(t, 0, 0)]
  <2>1. \A x : LevelTurn(t, 0, x) = LevelTurn(t, 0, 0)
    BY DEF LevelTurn
  <2>2. \A m \in 0 .. 0 : g[m] = LevelTurn(t, m, g[m - 1])
    <3>1. g[0] = LevelTurn(t, 0, g[0 - 1])
      BY ONLY <2>1, 0 \in 0 .. 0
    <3> QED
      BY ONLY <3>1
  <2>3. g = [m \in 0 .. 0 |-> g[m]]
    OBVIOUS
  <2> HIDE DEF g
  <2>4. Loop(g, 0)
    BY ONLY <2>2, <2>3
  <2>5. \E f : Loop(f, 0)
    <3> HIDE DEF Loop
    <3> QED
      BY <2>4
  <2> HIDE DEF Loop
  <2> QED
    BY <2>5
<1>2. ASSUME NEW M \in 0 .. N - 1, M \in Exists PROVE M + 1 \in Exists
  <2>1. PICK g : Loop(g, M)
    BY <1>2
  <2> DEFINE h == [m \in 0 .. M + 1 |-> IF m <= M THEN g[m] ELSE LevelTurn(t, M + 1, g[M])]
  <2>2. M \in Nat /\ M + 1 \in 0 .. N
    OBVIOUS
  <2>3. \A m \in 0 .. M : h[m] = g[m]
    BY <2>2
  <2>4. \A m \in 0 .. M : g[m] = LevelTurn(t, m, g[m - 1])
    <3> HIDE DEF h
    <3> QED
      BY <2>1
  <2>5. ASSUME NEW x PROVE LevelTurn(t, 0, x) = LevelTurn(t, 0, 0)
    BY DEF LevelTurn
  <2>6. ASSUME NEW m \in 0 .. M + 1 PROVE h[m] = LevelTurn(t, m, h[m - 1])
    <3>1. CASE m = M + 1
      <4>1. h[m] = LevelTurn(t, M + 1, g[M]) /\ m - 1 = M /\ M \in 0 .. M
        BY <2>2, <3>1
      <4> QED
        BY ONLY <2>3, <3>1, <4>1
    <3>2. CASE m # M + 1 /\ m # 0
      <4>1. m \in 0 .. M /\ m - 1 \in 0 .. M
        BY <2>2, <3>2
      <4> HIDE DEF h
      <4> QED
        BY ONLY <2>3, <2>4, <4>1
    <3>3. CASE m # M + 1 /\ m = 0
      <4>1. 0 \in 0 .. M
        BY <2>2
      <4> HIDE DEF h
      <4> QED
        BY ONLY <2>3, <2>4, <2>5, <3>3, <4>1
    <3> QED
      BY <3>1, <3>2, <3>3
  <2>7. h = [m \in 0 .. M + 1 |-> h[m]]
    OBVIOUS
  <2> HIDE DEF h
  <2>8. Loop(h, M + 1)
    BY ONLY <2>6, <2>7
  <2>9. \E f : Loop(f, M + 1)
    <3> HIDE DEF Loop
    <3> QED
      BY <2>8
  <2> HIDE DEF Loop
  <2> QED
    BY <2>2, <2>9
<1>3. N \in Exists
  <2> HIDE DEF Exists
  <2>1. \A M \in 0 .. N : M \in Exists
    BY <1>1, <1>2, AllNat
  <2> QED
    BY <2>1
<1> QED
  BY <1>3 DEF LevelBy

(* A node of the tree that is no leaf, with its rows and children.         *)
Parent(t, g, b) ==
    /\ t.node[b].row \in Seq(DOMAIN t.string) /\ t.node[b].child \in Seq(DOMAIN g)
    /\ IsInjective(t.node[b].row) /\ Len(t.node[b].row) \in Nat
    /\ Len(t.node[b].child) = Len(t.node[b].row) + 1
    /\ \A i \in 1 .. Len(t.node[b].child) : t.node[b].child[i] \in ToSet(t.node[b].child)
    /\ \A c \in ToSet(t.node[b].child) : c \in DOMAIN g /\ g[c].lev + 1 = g[b].lev

(* The nodes d levels below the root.                                      *)
AtDepth(g, h, d) == {b \in DOMAIN g : g[b].lev + d = h}
=============================================================================
