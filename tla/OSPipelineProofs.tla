-------------------------- MODULE OSPipelineProofs --------------------------
(***************************************************************************)
(* Proofs about one OS measurement, for every target file, every number of *)
(* workers, every capacity and every number of failures.  PipelineInv is   *)
(* the inductive invariant: hosts are counted from the target file through *)
(* the channels, the scanners and the merger's map to the evidence file,   *)
(* against the hosts that the merger has completed.                        *)
(***************************************************************************)
EXTENDS OSPipeline, FiniteSetTheorems, FunctionTheorems, SequenceTheorems,
        WellFoundedInduction, TLAPS

-----------------------------------------------------------------------------
(* How often an address is in a sequence *)

Places(ip, seq) == {i \in DOMAIN seq : seq[i] = ip}

\* A count is a number of places.
LEMMA TimesType ==
    ASSUME NEW X, NEW seq \in Seq(X), NEW ip
    PROVE  Times(ip, seq) \in Nat /\ IsFiniteSet(Places(ip, seq))
           /\ Times(ip, seq) = Cardinality(Places(ip, seq))
<1>1. DOMAIN seq = 1 .. Len(seq) /\ Len(seq) \in Nat
  OBVIOUS
<1>2. IsFiniteSet(DOMAIN seq) /\ Places(ip, seq) \in SUBSET DOMAIN seq
  BY <1>1, FS_Interval DEF Places
<1> QED
  BY <1>2, FS_Subset, FS_CardinalityType DEF Times, Places

\* Nothing is in the empty sequence.
LEMMA TimesEmpty == \A ip : Times(ip, <<>>) = 0
BY FS_EmptySet DEF Times

\* It is in a sequence when it is counted.
LEMMA TimesPositive ==
    ASSUME NEW X, NEW seq \in Seq(X), NEW ip
    PROVE  Times(ip, seq) > 0 <=> \E i \in DOMAIN seq : seq[i] = ip
<1>1. Times(ip, seq) \in Nat /\ IsFiniteSet(Places(ip, seq))
      /\ Times(ip, seq) = Cardinality(Places(ip, seq))
  BY TimesType
<1>2. Times(ip, seq) = 0 <=> Places(ip, seq) = {}
  BY <1>1, FS_EmptySet
<1>3. Times(ip, seq) > 0 <=> Times(ip, seq) # 0
  BY <1>1
<1>4. Places(ip, seq) # {} <=> \E i \in DOMAIN seq : seq[i] = ip
  BY DEF Places
<1> QED
  BY <1>2, <1>3, <1>4

\* A sequence of one.
LEMMA TimesSingle ==
    ASSUME NEW ip, NEW x
    PROVE  Times(ip, <<x>>) = IF x = ip THEN 1 ELSE 0
<1>1. CASE x = ip
  <2>1. {i \in DOMAIN <<x>> : <<x>>[i] = ip} = {1}
    BY <1>1
  <2> QED
    BY <1>1, <2>1, FS_Singleton DEF Times
<1>2. CASE x # ip
  <2>1. {i \in DOMAIN <<x>> : <<x>>[i] = ip} = {}
    BY <1>2
  <2> QED
    BY <1>2, <2>1, FS_EmptySet DEF Times
<1> QED
  BY <1>1, <1>2

\* Two sequences one after the other have what both have.
LEMMA TimesConcat ==
    ASSUME NEW X, NEW s \in Seq(X), NEW t \in Seq(X), NEW ip
    PROVE  Times(ip, s \o t) = Times(ip, s) + Times(ip, t)
<1> DEFINE m == Len(s)
           n == Len(t)
           u == s \o t
           S == Places(ip, s)
           T == Places(ip, t)
           Moved == {i + m : i \in T}
<1>1. /\ m \in Nat /\ n \in Nat /\ DOMAIN s = 1 .. m /\ DOMAIN t = 1 .. n
      /\ u \in Seq(X) /\ Len(u) = m + n /\ DOMAIN u = 1 .. m + n
      /\ \A i \in 1 .. m : u[i] = s[i]
      /\ \A i \in 1 .. n : u[i + m] = t[i]
  <2>1. /\ m \in Nat /\ n \in Nat /\ DOMAIN s = 1 .. m /\ DOMAIN t = 1 .. n
        /\ u \in Seq(X) /\ Len(u) = m + n /\ DOMAIN u = 1 .. m + n
    OBVIOUS
  <2>2. \A i \in 1 .. m + n : u[i] = IF i <= m THEN s[i] ELSE t[i - m]
    BY ConcatProperties
  <2>3. \A i \in 1 .. m : i \in 1 .. m + n /\ i <= m
    BY <2>1
  <2>4. \A i \in 1 .. n : i + m \in 1 .. m + n /\ ~(i + m <= m) /\ i + m - m = i
    BY <2>1
  <2> HIDE DEF u, m, n
  <2>5. \A i \in 1 .. m + n : u[i] = IF i <= m THEN s[i] ELSE t[i - m]
    BY <2>2 DEF u, m, n
  <2>6. \A i \in 1 .. m : u[i] = s[i]
    BY <2>3, <2>5
  <2>7. ASSUME NEW i \in 1 .. n PROVE u[i + m] = t[i]
    <3> DEFINE k == i + m
    <3>1. k \in 1 .. m + n /\ ~(k <= m) /\ k - m = i
      BY <2>1
    <3> HIDE DEF k
    <3>2. u[k] = t[k - m]
      BY <2>5, <3>1
    <3> QED
      BY <3>1, <3>2 DEF k
  <2> QED
    BY <2>1, <2>6, <2>7
<1> HIDE DEF u, m, n
<1>2. S \subseteq 1 .. m /\ T \subseteq 1 .. n
  BY <1>1 DEF Places
<1>3. Places(ip, u) = S \cup Moved
  <2>1. ASSUME NEW i \in Places(ip, u) PROVE i \in S \cup Moved
    <3>1. i \in 1 .. m + n /\ u[i] = ip
      BY <1>1 DEF Places
    <3>2. CASE i \in 1 .. m
      BY <1>1, <3>1, <3>2 DEF Places
    <3>3. CASE i \notin 1 .. m
      <4>1. i - m \in 1 .. n /\ (i - m) + m = i
        BY <1>1, <3>1, <3>3
      <4>2. i - m \in T
        BY <1>1, <3>1, <4>1 DEF Places
      <4> QED
        BY <4>1, <4>2
    <3> QED
      BY <3>2, <3>3
  <2>2. ASSUME NEW i \in S PROVE i \in Places(ip, u)
    BY <1>1 DEF Places
  <2>3. ASSUME NEW i \in T PROVE i + m \in Places(ip, u)
    BY <1>1, <1>2 DEF Places
  <2> QED
    BY <2>1, <2>2, <2>3
<1>4. S \cap Moved = {}
  BY <1>1, <1>2
<1>5. IsFiniteSet(Moved) /\ Cardinality(Moved) = Cardinality(T) /\ IsFiniteSet(T) /\ IsFiniteSet(S)
  <2> DEFINE f == [i \in T |-> i + m]
  <2>1. f \in Bijection(T, Moved)
    <3>1. f \in [T -> Moved] /\ \A i, j \in T : i + m = j + m => i = j
      BY <1>1, <1>2
    <3>2. \A k \in Moved : \E i \in T : f[i] = k
      OBVIOUS
    <3> QED
      BY <3>1, <3>2 DEF Bijection, Injection, Surjection, IsInjective
  <2>2. ExistsBijection(T, Moved)
    BY <2>1 DEF ExistsBijection
  <2> QED
    BY <2>2, FS_Bijection, TimesType
<1>6. Cardinality(S \cup Moved) = Cardinality(S) + Cardinality(Moved)
  <2>1. Cardinality(S \cup Moved)
            = Cardinality(S) + Cardinality(Moved) - Cardinality(S \cap Moved)
    BY <1>5, FS_Union
  <2>2. Cardinality(S \cap Moved) = 0 /\ Cardinality(S) \in Nat /\ Cardinality(Moved) \in Nat
    BY <1>4, <1>5, FS_EmptySet, FS_CardinalityType
  <2> QED
    BY <2>1, <2>2
<1>7. Times(ip, u) = Cardinality(Places(ip, u)) /\ Times(ip, s) = Cardinality(S)
      /\ Times(ip, t) = Cardinality(T)
  BY DEF Times, Places
<1> QED
  BY <1>3, <1>5, <1>6, <1>7 DEF u

\* An element is added at the end.
LEMMA TimesAppend ==
    ASSUME NEW X, NEW s \in Seq(X), NEW x \in X, NEW ip
    PROVE  Times(ip, Append(s, x)) = Times(ip, s) + (IF x = ip THEN 1 ELSE 0)
<1>1. Append(s, x) = s \o <<x>> /\ <<x>> \in Seq(X)
  OBVIOUS
<1>2. Times(ip, s \o <<x>>) = Times(ip, s) + Times(ip, <<x>>)
  BY <1>1, TimesConcat
<1> QED
  BY <1>1, <1>2, TimesSingle

\* The head is taken away.
LEMMA TimesTail ==
    ASSUME NEW X, NEW s \in Seq(X), s # <<>>, NEW ip
    PROVE  Times(ip, s) = Times(ip, Tail(s)) + (IF Head(s) = ip THEN 1 ELSE 0)
<1>1. /\ Tail(s) \in Seq(X) /\ Head(s) \in X /\ <<Head(s)>> \in Seq(X)
      /\ s = <<Head(s)>> \o Tail(s)
  OBVIOUS
<1>2. Times(ip, s) = Times(ip, <<Head(s)>>) + Times(ip, Tail(s))
  BY <1>1, TimesConcat
<1>3. Times(ip, <<Head(s)>>) = IF Head(s) = ip THEN 1 ELSE 0
  BY TimesSingle
<1>4. Times(ip, Tail(s)) \in Nat /\ Times(ip, <<Head(s)>>) \in Nat
  BY <1>1, TimesType
<1> QED
  BY <1>2, <1>3, <1>4

\* An answer is taken from anywhere in a sequence.
LEMMA TimesRemoveAt ==
    ASSUME NEW X, NEW s \in Seq(X), NEW i \in DOMAIN s, NEW ip
    PROVE  /\ RemoveAt(s, i) \in Seq(X) /\ Len(RemoveAt(s, i)) = Len(s) - 1
           /\ s[i] \in X
           /\ Times(ip, s) = Times(ip, RemoveAt(s, i)) + (IF s[i] = ip THEN 1 ELSE 0)
<1> DEFINE a == SubSeq(s, 1, i - 1)
           b == SubSeq(s, i + 1, Len(s))
<1>1. Len(s) \in Nat /\ i \in 1 .. Len(s) /\ \A j \in 1 .. Len(s) : s[j] \in X
  BY LenProperties
<1>2. /\ a \in Seq(X) /\ Len(a) = i - 1 /\ \A j \in 1 .. i - 1 : a[j] = s[j]
  <2>1. /\ i - 1 \in Int /\ (1 <= i - 1 \/ i - 1 = 0) /\ (\A j \in 1 .. i - 1 : s[j] \in X)
        /\ (i - 1) - 1 + 1 = i - 1 /\ \A j \in 1 .. i - 1 : 1 + j - 1 = j
    BY <1>1
  <2>2. /\ a \in Seq(X) /\ Len(a) = (IF 1 <= i - 1 THEN (i - 1) - 1 + 1 ELSE 0)
        /\ \A j \in 1 .. (i - 1) - 1 + 1 : a[j] = s[1 + j - 1]
    BY <2>1, SubSeqProperties
  <2> HIDE DEF a
  <2>3. Len(a) = i - 1
    BY <2>1, <2>2
  <2>4. ASSUME NEW j \in 1 .. i - 1 PROVE a[j] = s[j]
    <3>1. j \in 1 .. (i - 1) - 1 + 1 /\ 1 + j - 1 = j
      BY <2>1
    <3>2. a[j] = s[1 + j - 1]
      BY <2>2, <3>1
    <3> QED
      BY <3>1, <3>2
  <2> QED
    BY <2>2, <2>3, <2>4
<1>3. /\ b \in Seq(X) /\ Len(b) = Len(s) - i /\ \A j \in 1 .. Len(s) - i : b[j] = s[i + j]
  <2>1. /\ i + 1 \in Int /\ \A j \in i + 1 .. Len(s) : s[j] \in X
        /\ (i + 1 <= Len(s) \/ Len(s) - i = 0) /\ Len(s) - (i + 1) + 1 = Len(s) - i
        /\ \A j \in 1 .. Len(s) - i : (i + 1) + j - 1 = i + j
    BY <1>1
  <2>2. /\ b \in Seq(X)
        /\ Len(b) = (IF i + 1 <= Len(s) THEN Len(s) - (i + 1) + 1 ELSE 0)
        /\ \A j \in 1 .. Len(s) - (i + 1) + 1 : b[j] = s[(i + 1) + j - 1]
    BY <2>1, <1>1, SubSeqProperties
  <2> HIDE DEF b
  <2> QED
    BY <1>1, <2>1, <2>2
<1> HIDE DEF a, b
<1>4. RemoveAt(s, i) = a \o b
  BY DEF RemoveAt, a, b
<1>5. s = (a \o <<s[i]>>) \o b
  <2> DEFINE h == a \o <<s[i]>>
             t == h \o b
  <2>0. <<s[i]>> \in Seq(X) /\ Len(<<s[i]>>) = 1 /\ <<s[i]>>[1] = s[i]
    BY <1>1
  <2>1. h \in Seq(X) /\ Len(h) = i
        /\ \A j \in 1 .. i : h[j] = IF j <= i - 1 THEN a[j] ELSE <<s[i]>>[j - (i - 1)]
    <3>1. Len(a) + 1 = i
      BY <1>1, <1>2
    <3> QED
      BY <1>2, <2>0, <3>1, ConcatProperties
  <2>2. \A j \in 1 .. i : h[j] = s[j]
    <3> SUFFICES ASSUME NEW j \in 1 .. i PROVE h[j] = s[j]
      OBVIOUS
    <3>1. CASE j <= i - 1
      <4>1. j \in 1 .. i - 1
        BY <1>1, <3>1
      <4> QED
        BY <2>1, <1>2, <3>1, <4>1
    <3>2. CASE ~(j <= i - 1)
      <4>1. j = i /\ j - (i - 1) = 1
        BY <1>1, <3>2
      <4> QED
        BY <2>1, <2>0, <3>2, <4>1
    <3> QED
      BY <3>1, <3>2
  <2> HIDE DEF h
  <2>3. /\ t \in Seq(X) /\ Len(t) = Len(s)
        /\ \A j \in 1 .. Len(s) : t[j] = IF j <= i THEN h[j] ELSE b[j - i]
    <3>1. Len(h) + Len(b) = Len(s)
      BY <1>1, <1>3, <2>1
    <3> QED
      BY <1>3, <2>1, <3>1, ConcatProperties
  <2> HIDE DEF t
  <2>4. \A j \in 1 .. Len(s) : t[j] = s[j]
    <3> SUFFICES ASSUME NEW j \in 1 .. Len(s) PROVE t[j] = s[j]
      OBVIOUS
    <3>1. CASE j <= i
      <4>1. j \in 1 .. i
        BY <1>1, <3>1
      <4> QED
        BY <2>2, <2>3, <3>1, <4>1
    <3>2. CASE ~(j <= i)
      <4>1. j - i \in 1 .. Len(s) - i /\ i + (j - i) = j
        BY <1>1, <3>2
      <4> QED
        BY <1>3, <2>3, <3>2, <4>1
    <3> QED
      BY <3>1, <3>2
  <2>5. t = s
    BY <2>3, <2>4, SeqEqual
  <2> QED
    BY <2>5 DEF t, h
<1>6. Times(ip, s) = (Times(ip, a) + Times(ip, <<s[i]>>)) + Times(ip, b)
  <2>1. <<s[i]>> \in Seq(X) /\ a \o <<s[i]>> \in Seq(X)
    BY <1>1, <1>2
  <2>2. Times(ip, (a \o <<s[i]>>) \o b) = Times(ip, a \o <<s[i]>>) + Times(ip, b)
    BY <1>3, <2>1, TimesConcat
  <2>3. Times(ip, a \o <<s[i]>>) = Times(ip, a) + Times(ip, <<s[i]>>)
    BY <1>2, <2>1, TimesConcat
  <2> QED
    BY <1>5, <2>2, <2>3
<1>7. Times(ip, a \o b) = Times(ip, a) + Times(ip, b)
  BY <1>2, <1>3, TimesConcat
<1>8. a \o b \in Seq(X) /\ Len(a \o b) = Len(s) - 1
  BY <1>1, <1>2, <1>3
<1>9. Times(ip, a) \in Nat /\ Times(ip, b) \in Nat
  BY <1>2, <1>3, TimesType
<1> QED
  BY <1>1, <1>4, <1>6, <1>7, <1>8, <1>9, TimesSingle

-----------------------------------------------------------------------------
(* Sequences of equal length *)

\* Sets of limited size fit into each other.
LEMMA Fits ==
    ASSUME NEW A, NEW B, IsFiniteSet(A), IsFiniteSet(B), Cardinality(A) <= Cardinality(B)
    PROVE  Injection(A, B) # {}
<1> DEFINE a == Cardinality(A)
           b == Cardinality(B)
<1>1. /\ a \in Nat /\ b \in Nat
      /\ ExistsBijection(1 .. a, A) /\ ExistsBijection(1 .. b, B)
  BY FS_CardinalityType
<1>2. ExistsInjection(A, 1 .. a) /\ ExistsInjection(1 .. b, B)
  BY <1>1, Fun_ExistsBijEquiv
<1>3. ExistsInjection(1 .. a, 1 .. b)
  BY <1>1, Fun_NatInjLeq
<1>4. ExistsInjection(A, 1 .. b)
  BY <1>2, <1>3, Fun_ExistsInjTransitive
<1>5. ExistsInjection(A, B)
  BY <1>2, <1>4, Fun_ExistsInjTransitive
<1> QED
  BY <1>5, Fun_ExistsInj

\* A sequence that has each value at most as often as another of its length has it as often.
LEMMA SameCount ==
    ASSUME NEW X, NEW Y, NEW c \in Seq(X), NEW r \in Seq(Y), Len(c) = Len(r),
           \A x \in X : Times(x, c) <= Times(x, r)
    PROVE  \A x \in X : Times(x, c) = Times(x, r)
<1> DEFINE n == Len(c)
           g == [x \in X |-> CHOOSE f : f \in Injection(Places(x, c), Places(x, r))]
           h == [i \in 1 .. n |-> g[c[i]][i]]
<1>1. /\ n \in Nat /\ DOMAIN c = 1 .. n /\ DOMAIN r = 1 .. n
      /\ \A i \in 1 .. n : c[i] \in X
  BY LenProperties
<1>2. \A x \in X : g[x] \in Injection(Places(x, c), Places(x, r))
  <2> SUFFICES ASSUME NEW x \in X
               PROVE  \E f : f \in Injection(Places(x, c), Places(x, r))
    OBVIOUS
  <2>1. /\ IsFiniteSet(Places(x, c)) /\ IsFiniteSet(Places(x, r))
        /\ Cardinality(Places(x, c)) = Times(x, c)
        /\ Cardinality(Places(x, r)) = Times(x, r)
    BY TimesType
  <2>2. Injection(Places(x, c), Places(x, r)) # {}
    BY <2>1, Fits
  <2> QED
    BY <2>2
<1> HIDE DEF n, g
<1>3. ASSUME NEW i \in 1 .. n PROVE h[i] \in 1 .. n /\ r[h[i]] = c[i]
  <2>1. i \in Places(c[i], c) /\ c[i] \in X
    BY <1>1 DEF Places
  <2>2. g[c[i]] \in [Places(c[i], c) -> Places(c[i], r)]
    BY <1>2, <2>1, Fun_InjectionProperties
  <2>3. g[c[i]][i] \in Places(c[i], r)
    BY <2>1, <2>2
  <2> QED
    BY <1>1, <2>3 DEF Places
<1>4. h \in Injection(1 .. n, 1 .. n)
  <2>1. h \in [1 .. n -> 1 .. n]
    BY <1>3
  <2>2. ASSUME NEW i \in 1 .. n, NEW j \in 1 .. n, h[i] = h[j] PROVE i = j
    <3>1. c[i] = c[j]
      BY <1>3, <2>2
    <3>2. i \in Places(c[i], c) /\ j \in Places(c[i], c) /\ c[i] \in X
      BY <1>1, <3>1 DEF Places
    <3>3. g[c[i]][i] = g[c[i]][j]
      BY <2>2, <3>1
    <3>4. g[c[i]] \in Injection(Places(c[i], c), Places(c[i], r))
      BY <1>2, <3>2
    <3> QED
      BY <3>2, <3>3, <3>4, Fun_InjectionProperties
  <2> HIDE DEF h
  <2> QED
    BY <2>1, <2>2, Fun_IsInj
<1> HIDE DEF h
<1>5. h \in Surjection(1 .. n, 1 .. n)
  <2>1. IsFiniteSet(1 .. n)
    BY <1>1, FS_Interval
  <2> QED
    BY <1>4, <2>1, FS_Injection
<1> SUFFICES ASSUME NEW x \in X PROVE Times(x, r) <= Times(x, c)
  <2>1. \A x \in X : Times(x, c) \in Nat /\ Times(x, r) \in Nat
    BY TimesType
  <2> QED
    BY <2>1
<1> DEFINE A == Places(x, c)
           B == Places(x, r)
           k == [i \in A |-> h[i]]
<1>6. A \subseteq 1 .. n /\ B \subseteq 1 .. n
  BY <1>1 DEF Places
<1>7. k \in [A -> B]
  <2> SUFFICES ASSUME NEW i \in A PROVE h[i] \in B
    OBVIOUS
  <2>1. i \in 1 .. n /\ c[i] = x
    BY <1>6 DEF Places
  <2> QED
    BY <1>1, <1>3, <2>1 DEF Places
<1>8. ASSUME NEW j \in B PROVE \E i \in A : k[i] = j
  <2>1. j \in 1 .. n /\ r[j] = x
    BY <1>6 DEF Places
  <2>0. \A t \in 1 .. n : \E s \in 1 .. n : h[s] = t
    BY <1>5 DEF Surjection
  <2>2. PICK i \in 1 .. n : h[i] = j
    BY <2>0, <2>1
  <2>3. c[i] = x
    BY <1>3, <2>1, <2>2
  <2>4. i \in A
    BY <1>1, <2>3 DEF Places
  <2> QED
    BY <2>2, <2>4
<1> HIDE DEF k
<1>9. k \in Surjection(A, B)
  BY <1>7, <1>8, Fun_IsSurj
<1>10. IsFiniteSet(A) /\ Cardinality(A) = Times(x, c) /\ Cardinality(B) = Times(x, r)
  BY TimesType
<1> QED
  BY <1>9, <1>10, FS_Surjection

\* What is in a sequence without repetitions is there once.
LEMMA TimesDistinct ==
    ASSUME NEW X, NEW seq \in Seq(X), NEW ip,
           \A i, j \in DOMAIN seq : seq[i] = seq[j] => i = j
    PROVE  Times(ip, seq) <= 1
<1>1. IsFiniteSet(Places(ip, seq)) /\ Times(ip, seq) = Cardinality(Places(ip, seq))
  BY TimesType
<1>2. CASE Places(ip, seq) = {}
  BY <1>1, <1>2, FS_EmptySet
<1>3. CASE Places(ip, seq) # {}
  <2>1. PICK i : i \in Places(ip, seq)
    BY <1>3
  <2>2. Places(ip, seq) = {i}
    BY <2>1 DEF Places
  <2>3. Cardinality({i}) = 1
    BY FS_Singleton
  <2> QED
    BY <1>1, <2>2, <2>3
<1> QED
  BY <1>2, <1>3

\* The sequence without elements.
LEMMA LenZero ==
    ASSUME NEW X, NEW seq \in Seq(X)
    PROVE  seq = <<>> <=> Len(seq) = 0
BY EmptySeq

\* What comes first in a sequence, one element more at a time.
LEMMA TimesPrefix ==
    ASSUME NEW X, NEW seq \in Seq(X), NEW ip, NEW n \in 0 .. Len(seq)
    PROVE  /\ SubSeq(seq, 1, n) \in Seq(X)
           /\ Times(ip, SubSeq(seq, 1, n)) \in Nat
           /\ Times(ip, SubSeq(seq, 1, n)) <= Times(ip, seq)
           /\ n < Len(seq) => Times(ip, SubSeq(seq, 1, n + 1)) =
                  Times(ip, SubSeq(seq, 1, n)) + (IF seq[n + 1] = ip THEN 1 ELSE 0)
<1>1. /\ Len(seq) \in Nat /\ DOMAIN seq = 1 .. Len(seq) /\ n \in Int /\ 1 \in Int
      /\ \A i \in 1 .. Len(seq) : seq[i] \in X
  BY LenProperties
<1>2. \A i \in 1 .. n : i \in 1 .. Len(seq)
  BY <1>1
<1>3. SubSeq(seq, 1, n) \in Seq(X)
  BY <1>1, <1>2, SubSeqProperties
<1>4. Times(ip, SubSeq(seq, 1, n)) \in Nat
  BY <1>3, TimesType
<1>5. Times(ip, SubSeq(seq, 1, n)) <= Times(ip, seq)
  <2> DEFINE u == SubSeq(seq, 1, n)
  <2>1. Len(u) = IF 1 <= n THEN n - 1 + 1 ELSE 0
    BY <1>1, <1>2, SubSeqProperties
  <2>2. \A i \in 1 .. n - 1 + 1 : u[i] = seq[1 + i - 1]
    BY <1>1, <1>2, SubSeqProperties
  <2>3. DOMAIN u = 1 .. n
    <3>1. DOMAIN u = 1 .. Len(u)
      BY <1>3, LenProperties
    <3> HIDE DEF u
    <3>2. Len(u) = n
      BY <1>1, <2>1
    <3> QED
      BY <3>1, <3>2
  <2> HIDE DEF u
  <2>4. ASSUME NEW i \in 1 .. n PROVE u[i] = seq[i]
    <3>1. i \in 1 .. n - 1 + 1 /\ 1 + i - 1 = i
      BY <1>1
    <3>2. u[i] = seq[1 + i - 1]
      BY <2>2, <3>1
    <3> QED
      BY <3>1, <3>2
  <2>5. Places(ip, u) \subseteq Places(ip, seq)
    BY <1>1, <1>2, <2>3, <2>4 DEF Places
  <2>6. IsFiniteSet(Places(ip, seq)) /\ Times(ip, seq) = Cardinality(Places(ip, seq))
    BY TimesType
  <2>7. Times(ip, u) = Cardinality(Places(ip, u))
    BY DEF Times, Places
  <2>8. Cardinality(Places(ip, u)) <= Cardinality(Places(ip, seq))
    BY <2>5, <2>6, FS_Subset
  <2> QED
    BY <2>6, <2>7, <2>8 DEF u
<1>6. ASSUME n < Len(seq)
      PROVE  Times(ip, SubSeq(seq, 1, n + 1)) =
                 Times(ip, SubSeq(seq, 1, n)) + (IF seq[n + 1] = ip THEN 1 ELSE 0)
  <2>1. 1 \in 1 .. Len(seq) /\ n + 1 \in 1 .. Len(seq) /\ (n + 1) - 1 = n
    BY <1>1, <1>6
  <2>2. SubSeq(seq, 1, n + 1) = SubSeq(seq, 1, (n + 1) - 1) \o << seq[n + 1] >>
    BY <2>1, SubSeqRecursiveSecond
  <2>3. << seq[n + 1] >> \in Seq(X)
    BY <1>1, <2>1
  <2>4. SubSeq(seq, 1, n + 1) = SubSeq(seq, 1, n) \o << seq[n + 1] >>
    BY <2>1, <2>2
  <2>5. Times(ip, SubSeq(seq, 1, n) \o << seq[n + 1] >>)
            = Times(ip, SubSeq(seq, 1, n)) + Times(ip, << seq[n + 1] >>)
    BY <1>3, <2>3, TimesConcat
  <2> QED
    BY <2>4, <2>5, TimesSingle
<1> QED
  BY <1>3, <1>4, <1>5, <1>6

-----------------------------------------------------------------------------
(* The inductive invariant *)

InputPlace == [zgrab |-> 1, dns |-> 2, snmp |-> 3]

\* How many rows a scanner's channel has been given.
FedRows(s) == IF feeder.to > InputPlace[s] THEN feeder.row ELSE feeder.row - 1
Fed(s, ip) == Times(ip, SubSeq(rows, 1, FedRows(s)))

One(condition) == IF condition THEN 1 ELSE 0

HeldBy(s, ip) == {w \in ProbeWorkers : w[1] = s /\ worker[w] = ip}
Held(s, ip) == Cardinality(HeldBy(s, ip))

\* What a scanner has of a host, from its channel to the merger's map.
Scanned(s, ip) == IF s = "zgrab" THEN Times(ip, work) + Times(ip, lines)
                  ELSE Held(s, ip) + Times(ip, out[s])
Load(s, ip) == Times(ip, in[s]) + Scanned(s, ip) + One(s \in pendings[ip])

\* Records that goroutines of the merger are about to send.
SendingOf(s, ip) == One(merging[s].at = "send" /\ merging[s].ip = ip)
Sending(ip) == SendingOf("zgrab", ip) + SendingOf("dns", ip) + SendingOf("snmp", ip)
SendsOne(s) == One(merging[s].at = "send")
Sends == SendsOne("zgrab") + SendsOne("dns") + SendsOne("snmp")

Recorded(ip) == Times(ip, writer.written) + Times(ip, writer.batch) + Times(ip, outRecords.queue)

FeedTypes ==
    /\ rows \in Inputs
    /\ feeder \in [row : 1 .. Len(rows) + 1, to : 1 .. 3,
                   end : {"running", "ok", "cancelled", "failed"}]
    /\ feeder.to > 1 => AtTarget

InTypes ==
    /\ in \in [Scanners -> Seq(IPs)]
    /\ \A s \in Scanners : Len(in[s]) <= InputCapacity

ZGrabTypes ==
    /\ zgrab \in {"none", "running", "ok", "failed", "killed"}
    /\ zgrabWriter \in {"writing", Exited}
    /\ work \in Seq(IPs) /\ lines \in Seq(IPs \cup {NoIP})

ProbeTypes ==
    /\ worker \in [ProbeWorkers -> IPs \cup {Idle, Exited}]
    /\ out \in [UDPScanners -> Seq(IPs)]
    /\ \A s \in UDPScanners : Len(out[s]) <= ResultCapacity

MergeTypes ==
    /\ merging \in [Scanners -> [at : {"range", "send", "done"}, ip : IPs \cup {NoIP}]]
    /\ \A s \in Scanners : merging[s].at = "send" => merging[s].ip \in IPs
    /\ pendings \in [IPs -> SUBSET Scanners]
    /\ totals \in [emitted : Nat, dropped : Nat]
    /\ coverage \in [without : Nat, resolved : Nat, ambiguous : Nat, unclassified : Nat]

RecordTypes ==
    /\ outRecords \in [queue : Seq(IPs), closed : BOOLEAN]
    /\ Len(outRecords.queue) <= OutCapacity
    /\ writer \in [batch : Seq(IPs), written : Seq(IPs), err : BOOLEAN, done : BOOLEAN]
    /\ Len(writer.batch) <= BatchSize
    /\ ~writer.err => Len(writer.batch) < BatchSize

FlagTypes ==
    /\ main \in {"start", "feed", "scanners", "writer", "report", "returned"}
    /\ ctxDone \in BOOLEAN
    /\ observed \in [count : Nat, buffer : Nat, err : BOOLEAN]
    /\ errors \in [scanner : BOOLEAN, zgrab : BOOLEAN, close : BOOLEAN]
    /\ result \in [status : {"running", "ok", "error"}, coverageFile : BOOLEAN]
    /\ faults \in Nat

TypeInv ==
    /\ FeedTypes /\ InTypes /\ ZGrabTypes /\ ProbeTypes /\ MergeTypes /\ RecordTypes
    /\ FlagTypes

\* Nothing is lost.
Clean == DistinctTargets /\ faults = 0 /\ ~ctxDone

\* In the order of their completion, the hosts the merger has completed.  A scanner was given
\* those and what it still has, and no other host.
LoadInv(completed) ==
    \A s \in Scanners, ip \in IPs :
        /\ Times(ip, completed) + Load(s, ip) <= Fed(s, ip)
        /\ Clean => Times(ip, completed) + Load(s, ip) = Fed(s, ip)

\* Each one with evidence has a record on its way, and is counted.
RecordInv(completed) ==
    /\ \A ip \in IPs :
           LET due == IF HasEvidence(ip) THEN Times(ip, completed) ELSE 0 IN
           /\ Recorded(ip) + Sending(ip) <= due
           /\ ~writer.err => Recorded(ip) + Sending(ip) = due
    /\ Len(completed) = totals.emitted + totals.dropped + Sends

HistoryInv == \E completed \in Seq(IPs) : LoadInv(completed) /\ RecordInv(completed)

CountInv ==
    /\ coverage.without = totals.dropped
    /\ coverage.resolved + coverage.ambiguous + coverage.unclassified = totals.emitted + Sends
    /\ ~writer.err => totals.emitted =
           Len(writer.written) + Len(writer.batch) + Len(outRecords.queue)

\* The stages end one after the other.
StageInv ==
    /\ main = "start" => zgrab = "none"
    /\ main = "returned" => zgrab # "running"
    /\ outRecords.closed => main \in {"writer", "report", "returned"}
    /\ main \in {"writer", "report"} \/ outRecords.closed =>
           (\A s \in Scanners : merging[s].at = "done") /\ zgrab # "running"
    /\ writer.done => outRecords.queue = <<>> /\ outRecords.closed
    /\ main = "report" => writer.done
    /\ main = "report" /\ ~errors.close => writer.batch = <<>>

\* The run returns without error only with everything accounted for.
EndInv == StageInv /\ (result.status = "ok" => main = "returned" /\ SuccessAccounts)

PipelineInv == TypeInv /\ HistoryInv /\ CountInv /\ EndInv

-----------------------------------------------------------------------------
(* What the invariant counts *)

\* resolveTags has three results.
LEMMA StatusKnown ==
    \A tags : ResolveTags(tags).status \in {"unclassified", "ambiguous", "resolved"}
BY DEF ResolveTags, Decision

\* The capacities are positive.
LEMMA Sizes ==
    /\ InputCapacity \in Nat \ {0} /\ ResultCapacity \in Nat \ {0} /\ OutCapacity \in Nat \ {0}
    /\ BatchSize \in Nat \ {0} /\ MaxFaults \in Nat
BY OSPipelineAssumption

\* The types are those of the specification.
LEMMA TypesOK == TypeInv => TypeOK
<1> SUFFICES ASSUME TypeInv PROVE TypeOK
  OBVIOUS
<1>1. \A s \in Scanners : in[s] \in Seq(IPs) /\ Len(in[s]) <= InputCapacity
  BY DEF TypeInv, InTypes
<1>2. \A s \in UDPScanners : out[s] \in Seq(IPs) /\ Len(out[s]) <= ResultCapacity
  BY DEF TypeInv, ProbeTypes
<1>3. /\ \A s \in Scanners : merging[s].at \in {"range", "send", "done"}
      /\ pendings \in [IPs -> SUBSET Scanners]
  BY DEF TypeInv, MergeTypes
<1>4. /\ outRecords.queue \in Seq(IPs) /\ Len(outRecords.queue) <= OutCapacity
      /\ writer.batch \in Seq(IPs) /\ Len(writer.batch) <= BatchSize
  BY DEF TypeInv, RecordTypes
<1>5. /\ main \in {"start", "feed", "scanners", "writer", "report", "returned"}
      /\ ctxDone \in BOOLEAN /\ result.status \in {"running", "ok", "error"}
  BY DEF TypeInv, FlagTypes
<1> QED
  BY <1>1, <1>2, <1>3, <1>4, <1>5 DEF TypeInv, FeedTypes, ZGrabTypes, ProbeTypes, TypeOK

\* The file, the place of the feeder in it and what scanners were given of it.
LEMMA RowsType ==
    ASSUME TypeInv
    PROVE  /\ rows \in Seq(IPs \cup {NoIP}) /\ Len(rows) \in Nat
           /\ feeder.row \in Nat /\ feeder.to \in 1 .. 3
           /\ \A s \in Scanners : FedRows(s) \in 0 .. Len(rows)
<1>1. rows \in Seq(IPs \cup {NoIP})
  BY OSPipelineAssumption DEF TypeInv, FeedTypes
<1>2. Len(rows) \in Nat
  BY <1>1, LenProperties
<1>3. feeder.row \in 1 .. Len(rows) + 1 /\ feeder.to \in 1 .. 3
  BY DEF TypeInv, FeedTypes
<1>4. feeder.to > 1 => feeder.row <= Len(rows)
  BY DEF TypeInv, FeedTypes, AtTarget
<1>5. ASSUME NEW s \in Scanners PROVE FedRows(s) \in 0 .. Len(rows)
  <2>1. InputPlace[s] \in 1 .. 3
    BY DEF InputPlace, Scanners
  <2>2. feeder.row \in Nat /\ feeder.row >= 1 /\ feeder.row <= Len(rows) + 1
    BY <1>2, <1>3
  <2>3. CASE feeder.to > InputPlace[s]
    <3>1. feeder.to > 1
      BY <1>3, <2>1, <2>3
    <3> QED
      BY <1>2, <1>4, <2>2, <2>3, <3>1 DEF FedRows
  <2>4. CASE ~(feeder.to > InputPlace[s])
    BY <1>2, <2>2, <2>4 DEF FedRows
  <2> QED
    BY <2>3, <2>4
<1> QED
  BY <1>1, <1>2, <1>3, <1>5

\* A host is held by finitely many workers.
LEMMA HeldType ==
    \A s, ip : IsFiniteSet(HeldBy(s, ip)) /\ Held(s, ip) \in Nat
<1> SUFFICES ASSUME NEW s, NEW ip
             PROVE  IsFiniteSet(HeldBy(s, ip)) /\ Held(s, ip) \in Nat
  OBVIOUS
<1>1. HeldBy(s, ip) \in SUBSET ProbeWorkers /\ IsFiniteSet(ProbeWorkers)
  BY OSPipelineAssumption DEF HeldBy
<1>2. IsFiniteSet(HeldBy(s, ip))
  BY <1>1, FS_Subset
<1> QED
  BY <1>2, FS_CardinalityType DEF Held

\* What a scanner has of a host is counted in numbers.
LEMMA ScannedType ==
    ASSUME TypeInv, NEW s \in Scanners, NEW ip \in IPs
    PROVE  /\ Times(ip, work) \in Nat /\ Times(ip, lines) \in Nat
           /\ s \in UDPScanners => Times(ip, out[s]) \in Nat
           /\ Times(ip, in[s]) \in Nat /\ Scanned(s, ip) \in Nat
           /\ One(s \in pendings[ip]) \in {0, 1}
           /\ Load(s, ip) \in Nat
<1>1. work \in Seq(IPs) /\ lines \in Seq(IPs \cup {NoIP}) /\ in[s] \in Seq(IPs)
  BY DEF TypeInv, ZGrabTypes, InTypes
<1>2. s \in UDPScanners => out[s] \in Seq(IPs)
  BY DEF TypeInv, ProbeTypes
<1>3. Times(ip, work) \in Nat /\ Times(ip, lines) \in Nat /\ Times(ip, in[s]) \in Nat
  BY <1>1, TimesType
<1>4. s \in UDPScanners => Times(ip, out[s]) \in Nat
  BY <1>2, TimesType
<1>5. s = "zgrab" \/ s \in UDPScanners
  BY DEF Scanners, UDPScanners
<1>6. Held(s, ip) \in Nat
  BY HeldType
<1>7. Scanned(s, ip) \in Nat
  BY <1>3, <1>4, <1>5, <1>6 DEF Scanned
<1>8. One(s \in pendings[ip]) \in {0, 1}
  BY DEF One
<1> QED
  BY <1>3, <1>4, <1>7, <1>8 DEF Load

\* A scanner is given no more of a host than the file has.
LEMMA FedType ==
    ASSUME TypeInv, NEW s \in Scanners, NEW ip
    PROVE  Fed(s, ip) \in Nat /\ Fed(s, ip) <= Times(ip, rows) /\ Times(ip, rows) \in Nat
<1>1. rows \in Seq(IPs \cup {NoIP}) /\ FedRows(s) \in 0 .. Len(rows)
  BY RowsType
<1>2. Times(ip, rows) \in Nat
  BY <1>1, TimesType
<1> QED
  BY <1>1, <1>2, TimesPrefix DEF Fed

\* Goroutines about to send are counted in numbers.
LEMMA SendTypes ==
    /\ \A s : SendsOne(s) \in {0, 1}
    /\ \A s, ip : SendingOf(s, ip) \in {0, 1}
    /\ Sends \in Nat /\ \A ip : Sending(ip) \in Nat
<1>1. /\ \A s : SendsOne(s) \in {0, 1}
      /\ \A s, ip : SendingOf(s, ip) \in {0, 1}
  BY DEF SendsOne, SendingOf, One
<1>2. Sends \in Nat
  BY <1>1 DEF Sends
<1>3. \A ip : Sending(ip) \in Nat
  BY <1>1 DEF Sending
<1> QED
  BY <1>1, <1>2, <1>3

\* Records are counted in numbers.
LEMMA RecordedType ==
    ASSUME TypeInv, NEW ip
    PROVE  /\ Times(ip, writer.written) \in Nat /\ Times(ip, writer.batch) \in Nat
           /\ Times(ip, outRecords.queue) \in Nat /\ Recorded(ip) \in Nat
<1>1. /\ writer.written \in Seq(IPs) /\ writer.batch \in Seq(IPs)
      /\ outRecords.queue \in Seq(IPs)
  BY DEF TypeInv, RecordTypes
<1>2. /\ Times(ip, writer.written) \in Nat /\ Times(ip, writer.batch) \in Nat
      /\ Times(ip, outRecords.queue) \in Nat
  BY <1>1, TimesType
<1> QED
  BY <1>2 DEF Recorded

\* The invariant holds at the start of runPipeline.
LEMMA InitInv == Init => PipelineInv
<1> SUFFICES ASSUME Init PROVE PipelineInv
  OBVIOUS
<1>0. rows \in Seq(IPs \cup {NoIP}) /\ Len(rows) \in Nat
  BY OSPipelineAssumption, LenProperties DEF Init
<1>1. TypeInv
  <2>1. <<>> \in Seq(IPs) /\ <<>> \in Seq(IPs \cup {NoIP}) /\ Len(<<>>) = 0
    OBVIOUS
  <2>2. FeedTypes
    BY <1>0 DEF Init, FeedTypes
  <2>3. InTypes
    BY <2>1, Sizes DEF Init, InTypes
  <2>4. ZGrabTypes
    BY <2>1 DEF Init, ZGrabTypes
  <2>5. ProbeTypes
    BY <2>1, Sizes DEF Init, ProbeTypes
  <2>6. MergeTypes
    BY DEF Init, MergeTypes, Ranging
  <2>7. RecordTypes
    BY <2>1, Sizes DEF Init, RecordTypes
  <2>8. FlagTypes
    BY DEF Init, FlagTypes
  <2> QED
    BY <2>2, <2>3, <2>4, <2>5, <2>6, <2>7, <2>8 DEF TypeInv
<1>2. \A ip : Sending(ip) = 0
  <2>1. \A s \in Scanners : \A ip : SendingOf(s, ip) = 0
    BY DEF Init, Ranging, SendingOf, One
  <2> QED
    BY <2>1 DEF Sending, Scanners
<1>3. Sends = 0
  <2>1. \A s \in Scanners : SendsOne(s) = 0
    BY DEF Init, Ranging, SendsOne, One
  <2> QED
    BY <2>1 DEF Sends, Scanners
<1>4. LoadInv(<<>>)
  <2> SUFFICES ASSUME NEW s \in Scanners, NEW ip \in IPs
               PROVE  Times(ip, <<>>) + Load(s, ip) = Fed(s, ip) /\ Fed(s, ip) \in Nat
    BY DEF LoadInv
  <2>1. FedRows(s) = 0
    BY DEF Init, FedRows, InputPlace, Scanners
  <2>2. SubSeq(rows, 1, 0) = <<>>
    BY SubSeqEmpty
  <2>3. Fed(s, ip) = 0
    BY <2>1, <2>2, TimesEmpty DEF Fed
  <2>4. HeldBy(s, ip) = {}
    BY OSPipelineAssumption DEF Init, HeldBy, Idle
  <2>5. Held(s, ip) = 0
    BY <2>4, FS_EmptySet DEF Held
  <2>6. s = "zgrab" \/ s \in UDPScanners
    BY DEF Scanners, UDPScanners
  <2>7. Scanned(s, ip) = 0
    BY <2>5, <2>6, TimesEmpty DEF Scanned, Init
  <2>8. One(s \in pendings[ip]) = 0
    BY DEF Init, One
  <2>9. Times(ip, in[s]) = 0
    BY TimesEmpty DEF Init
  <2> QED
    BY <2>3, <2>7, <2>8, <2>9, TimesEmpty DEF Load
<1>5. RecordInv(<<>>)
  <2>1. \A ip : Recorded(ip) = 0
    BY TimesEmpty DEF Init, Recorded
  <2>2. Len(<<>>) = totals.emitted + totals.dropped + Sends
    BY <1>3 DEF Init
  <2> QED
    BY <1>2, <2>1, <2>2, TimesEmpty DEF RecordInv
<1>6. HistoryInv
  <2>1. <<>> \in Seq(IPs)
    OBVIOUS
  <2> QED
    BY <1>4, <1>5, <2>1 DEF HistoryInv
<1>7. CountInv
  BY <1>3 DEF Init, CountInv
<1>8. EndInv
  BY DEF Init, EndInv, StageInv
<1> QED
  BY <1>1, <1>6, <1>7, <1>8 DEF PipelineInv

-----------------------------------------------------------------------------
(* Types *)

joinVars == <<merging, pendings, totals, coverage>>

\* A step that leaves the feeder alone keeps its types.
LEMMA KeptFeed == FeedTypes /\ UNCHANGED feedVars => FeedTypes'
BY DEF FeedTypes, feedVars, AtTarget

\* The same for the input channels,
LEMMA KeptIn == InTypes /\ UNCHANGED in => InTypes'
BY DEF InTypes

\* for zgrab2,
LEMMA KeptZGrab == ZGrabTypes /\ UNCHANGED zgrabVars => ZGrabTypes'
BY DEF ZGrabTypes, zgrabVars

\* for the workers,
LEMMA KeptProbe == ProbeTypes /\ UNCHANGED <<worker, out>> => ProbeTypes'
BY DEF ProbeTypes

\* for the merger,
LEMMA KeptMerge == MergeTypes /\ UNCHANGED joinVars => MergeTypes'
BY DEF MergeTypes, joinVars

\* and for the writer.
LEMMA KeptRecord == RecordTypes /\ UNCHANGED <<outRecords, writer>> => RecordTypes'
BY DEF RecordTypes

\* Failures are counted.
LEMMA FaultTypes == faults \in Nat /\ (Fault \/ NoFault) => faults' \in Nat
BY DEF Fault, NoFault

\* The types after the start, an interrupt and the return.
LEMMA StartTypes ==
    ASSUME TypeInv, StartUp \/ StartFails \/ Interrupt \/ Returned
    PROVE  TypeInv'
<1>1. CASE StartUp
  <2>1. FlagTypes'
    BY <1>1 DEF StartUp, TypeInv, FlagTypes, NoFault, mergeVars
  <2>2. ZGrabTypes'
    BY <1>1 DEF StartUp, TypeInv, ZGrabTypes
  <2> QED
    BY <1>1, <2>1, <2>2, KeptFeed, KeptIn, KeptProbe, KeptMerge, KeptRecord
    DEF StartUp, TypeInv, mergeVars, joinVars
<1>2. CASE StartFails
  <2>1. FlagTypes'
    <3>1. faults' \in Nat
      BY <1>2, FaultTypes DEF StartFails, TypeInv, FlagTypes
    <3> QED
      BY <1>2, <3>1 DEF StartFails, TypeInv, FlagTypes, mergeVars
  <2>2. ZGrabTypes'
    BY <1>2 DEF StartFails, TypeInv, ZGrabTypes
  <2> QED
    BY <1>2, <2>1, <2>2, KeptFeed, KeptIn, KeptProbe, KeptMerge, KeptRecord
    DEF StartFails, TypeInv, mergeVars, joinVars
<1>3. CASE Interrupt
  <2>1. FlagTypes'
    BY <1>3 DEF Interrupt, TypeInv, FlagTypes, NoFault, mergeVars
  <2> QED
    BY <1>3, <2>1, KeptFeed, KeptIn, KeptZGrab, KeptProbe, KeptMerge, KeptRecord
    DEF Interrupt, TypeInv, mergeVars, joinVars
<1>4. CASE Returned
  <2>1. FlagTypes'
    BY <1>4 DEF Returned, vars, TypeInv, FlagTypes, mergeVars
  <2> QED
    BY <1>4, <2>1, KeptFeed, KeptIn, KeptZGrab, KeptProbe, KeptMerge, KeptRecord
    DEF Returned, vars, TypeInv, mergeVars, joinVars
<1> QED
  BY <1>1, <1>2, <1>3, <1>4

\* What the feeder is about to send.
LEMMA TargetType ==
    ASSUME TypeInv, AtTarget
    PROVE  /\ rows[feeder.row] \in IPs /\ feeder.row \in 1 .. Len(rows)
           /\ feeder.to \in 1 .. 3 /\ FeedOrder[feeder.to] \in Scanners
<1>1. feeder.row \in 1 .. Len(rows) + 1 /\ feeder.to \in 1 .. 3
  BY DEF TypeInv, FeedTypes
<1>2. feeder.row \in 1 .. Len(rows)
  BY <1>1, RowsType DEF AtTarget
<1>3. rows[feeder.row] \in IPs \cup {NoIP}
  BY <1>2, RowsType, ElementOfSeq
<1>4. feeder.to = 1 \/ feeder.to = 2 \/ feeder.to = 3
  BY <1>1
<1> QED
  BY <1>1, <1>2, <1>3, <1>4 DEF AtTarget, FeedOrder, Scanners

\* The feeder moves on.
LEMMA FeederMoves ==
    ASSUME NEW A, NEW B, NEW C, NEW f \in [row : A, to : B, end : C], NEW r \in A, NEW t \in B
    PROVE  /\ [f EXCEPT !.row = r, !.to = t] \in [row : A, to : B, end : C]
           /\ [f EXCEPT !.row = r, !.to = t].to = t
           /\ [f EXCEPT !.to = t] \in [row : A, to : B, end : C]
           /\ [f EXCEPT !.to = t].row = f.row
OBVIOUS

\* The types after a step of feedTargets.
LEMMA FeederTypes ==
    ASSUME TypeInv, SkipEmptyRow \/ SendTarget \/ FeedEnds \/ FeedFails
    PROVE  TypeInv'
<1> DEFINE F == [row : 1 .. Len(rows) + 1, to : 1 .. 3,
                 end : {"running", "ok", "cancelled", "failed"}]
<1>0. rows \in Inputs /\ feeder \in F /\ Len(rows) \in Nat /\ (feeder.to > 1 => AtTarget)
  BY RowsType DEF TypeInv, FeedTypes
<1>1. Feeding
  BY DEF SkipEmptyRow, SendTarget, FeedEnds, FeedFails
<1>2. faults' \in Nat
  BY FaultTypes DEF SkipEmptyRow, SendTarget, FeedEnds, FeedFails, TypeInv, FlagTypes
<1>3. FlagTypes'
  BY <1>1, <1>2 DEF Feeding, TypeInv, FlagTypes, mergeVars
<1>4. ASSUME FeedTypes', InTypes' PROVE TypeInv'
  BY <1>1, <1>3, <1>4, KeptZGrab, KeptProbe, KeptMerge, KeptRecord
  DEF Feeding, TypeInv, mergeVars, joinVars
<1>5. CASE SkipEmptyRow
  <2>1. feeder' = [feeder EXCEPT !.row = @ + 1, !.to = 1] /\ feeder.row <= Len(rows)
    BY <1>5 DEF SkipEmptyRow, NextRow
  <2>2. feeder' \in F /\ feeder'.to = 1
    <3>1. feeder.row + 1 \in 1 .. Len(rows) + 1 /\ 1 \in 1 .. 3
      BY <1>0, <2>1
    <3>2. feeder' = [feeder EXCEPT !.row = feeder.row + 1, !.to = 1]
      BY <2>1
    <3> QED
      BY <1>0, <3>1, <3>2, FeederMoves
  <2>3. FeedTypes'
    BY <1>0, <1>1, <2>2 DEF FeedTypes, Feeding
  <2> QED
    BY <1>4, <1>5, <2>3, KeptIn DEF SkipEmptyRow, TypeInv
<1>6. CASE SendTarget
  <2>0. AtTarget /\ feeder.row \in 1 .. Len(rows) /\ rows[feeder.row] \in IPs
        /\ FeedOrder[feeder.to] \in Scanners
    BY <1>6, TargetType DEF SendTarget
  <2>1. feeder' = IF feeder.to = 3 THEN [feeder EXCEPT !.row = @ + 1, !.to = 1]
                  ELSE [feeder EXCEPT !.to = @ + 1]
    BY <1>6 DEF SendTarget, NextRow, FeedOrder
  <2>2. feeder' \in F /\ (feeder'.to > 1 => feeder'.row = feeder.row)
    <3>1. CASE feeder.to = 3
      <4>1. feeder' = [feeder EXCEPT !.row = @ + 1, !.to = 1]
        BY <2>1, <3>1
      <4>2. feeder.row + 1 \in 1 .. Len(rows) + 1 /\ 1 \in 1 .. 3
        BY <1>0, <2>0
      <4>3. feeder' = [feeder EXCEPT !.row = feeder.row + 1, !.to = 1]
        BY <4>1
      <4>4. feeder' \in F /\ feeder'.to = 1
        BY <1>0, <4>2, <4>3, FeederMoves
      <4> QED
        BY <4>4
    <3>2. CASE feeder.to # 3
      <4>1. feeder' = [feeder EXCEPT !.to = @ + 1]
        BY <2>1, <3>2
      <4>2. feeder.to + 1 \in 1 .. 3
        BY <1>0, <3>2
      <4>3. feeder' = [feeder EXCEPT !.to = feeder.to + 1]
        BY <4>1
      <4>4. feeder.row \in 1 .. Len(rows) + 1
        BY <1>0
      <4> QED
        BY <1>0, <4>2, <4>3, <4>4, FeederMoves
    <3> QED
      BY <3>1, <3>2
  <2>3. FeedTypes'
    BY <1>0, <1>1, <2>0, <2>2 DEF FeedTypes, Feeding, AtTarget
  <2>4. PICK s \in Scanners : HasRoom(s) /\ in' = [in EXCEPT ![s] = Append(@, rows[feeder.row])]
    BY <1>6, <2>0 DEF SendTarget
  <2>5. InTypes'
    <3>1. in \in [Scanners -> Seq(IPs)] /\ \A t \in Scanners : Len(in[t]) <= InputCapacity
      BY DEF TypeInv, InTypes
    <3>2. Append(in[s], rows[feeder.row]) \in Seq(IPs)
          /\ Len(Append(in[s], rows[feeder.row])) = Len(in[s]) + 1 /\ Len(in[s]) \in Nat
      BY <2>0, <3>1
    <3>3. Len(Append(in[s], rows[feeder.row])) <= InputCapacity
      BY <2>4, <3>2, Sizes DEF HasRoom
    <3> QED
      BY <2>4, <3>1, <3>2, <3>3 DEF InTypes
  <2> QED
    BY <1>4, <2>3, <2>5
<1>7. CASE FeedEnds \/ FeedFails
  <2>1. feeder' \in F /\ (feeder'.to > 1 => feeder.to > 1 /\ feeder'.row = feeder.row)
    BY <1>0, <1>7 DEF FeedEnds, FeedFails
  <2>2. FeedTypes'
    BY <1>0, <1>1, <2>1 DEF FeedTypes, Feeding, AtTarget
  <2> QED
    BY <1>4, <1>7, <2>2, KeptIn DEF FeedEnds, FeedFails, TypeInv
<1> QED
  BY <1>5, <1>6, <1>7

\* A target leaves the channel of its scanner.
LEMMA TakenIn ==
    ASSUME InTypes, NEW s \in Scanners, in[s] # <<>>, in' = [in EXCEPT ![s] = Tail(@)]
    PROVE  InTypes' /\ Head(in[s]) \in IPs
<1>1. in \in [Scanners -> Seq(IPs)] /\ \A t \in Scanners : Len(in[t]) <= InputCapacity
  BY DEF InTypes
<1>2. in[s] \in Seq(IPs)
  BY <1>1
<1>3. Head(in[s]) \in IPs /\ Tail(in[s]) \in Seq(IPs) /\ Len(Tail(in[s])) = Len(in[s]) - 1
      /\ Len(in[s]) \in Nat
  BY <1>2, HeadTailProperties, LenProperties
<1>4. Len(Tail(in[s])) <= InputCapacity
  BY <1>1, <1>3, Sizes
<1> QED
  BY <1>1, <1>3, <1>4 DEF InTypes

\* The types after a step around zgrab2.
LEMMA ZGrabStepTypes ==
    ASSUME TypeInv,
           WriteZGrabInput \/ CloseZGrabInput \/ ZGrabAnswers \/ ZGrabEnds \/ ZGrabDies
    PROVE  TypeInv'
<1>1. ZGrabbing
  BY DEF WriteZGrabInput, CloseZGrabInput, ZGrabAnswers, ZGrabEnds, ZGrabDies
<1>2. Fault \/ NoFault
  BY DEF WriteZGrabInput, CloseZGrabInput, ZGrabAnswers, ZGrabEnds, ZGrabDies
<1>3. faults' \in Nat
  BY <1>2, FaultTypes DEF TypeInv, FlagTypes
<1>4. UNCHANGED <<errors, ctxDone>> \/ ReportScannerError
  BY DEF WriteZGrabInput, CloseZGrabInput, ZGrabAnswers, ZGrabEnds, ZGrabDies
<1>5. FlagTypes'
  BY <1>1, <1>3, <1>4 DEF ZGrabbing, ReportScannerError, TypeInv, FlagTypes, mergeVars
<1>6. ASSUME InTypes', ZGrabTypes' PROVE TypeInv'
  BY <1>1, <1>5, <1>6, KeptFeed, KeptProbe, KeptMerge, KeptRecord
  DEF ZGrabbing, TypeInv, mergeVars, joinVars
<1>7. work \in Seq(IPs) /\ lines \in Seq(IPs \cup {NoIP}) /\ zgrabWriter \in {"writing", Exited}
      /\ zgrab \in {"none", "running", "ok", "failed", "killed"} /\ InTypes
  BY DEF TypeInv, ZGrabTypes
<1>8. CASE WriteZGrabInput
  <2>1. InTypes' /\ Head(in["zgrab"]) \in IPs
    BY <1>7, <1>8, TakenIn DEF WriteZGrabInput, Scanners
  <2>2. ZGrabTypes'
    <3>1. work' = work \/ work' = Append(work, Head(in["zgrab"]))
      BY <1>8 DEF WriteZGrabInput
    <3>2. work' \in Seq(IPs)
      BY <1>7, <2>1, <3>1
    <3>3. zgrab' = zgrab /\ lines' = lines /\ (zgrabWriter' = zgrabWriter \/ zgrabWriter' = Exited)
      BY <1>8 DEF WriteZGrabInput
    <3> QED
      BY <1>7, <3>2, <3>3 DEF ZGrabTypes
  <2> QED
    BY <1>6, <2>1, <2>2
<1>9. CASE ZGrabAnswers
  <2>1. PICK i \in DOMAIN work, parses \in BOOLEAN :
           /\ work' = RemoveAt(work, i)
           /\ lines' = Append(lines, IF parses THEN work[i] ELSE NoIP)
    BY <1>9 DEF ZGrabAnswers
  <2>2. work' \in Seq(IPs) /\ work[i] \in IPs
    BY <1>7, <2>1, TimesRemoveAt
  <2>3. lines' \in Seq(IPs \cup {NoIP})
    BY <1>7, <2>1, <2>2
  <2>4. ZGrabTypes'
    BY <1>7, <1>9, <2>2, <2>3 DEF ZGrabAnswers, ZGrabTypes
  <2> QED
    BY <1>6, <1>7, <1>9, <2>4, KeptIn DEF ZGrabAnswers
<1>10. CASE CloseZGrabInput \/ ZGrabEnds \/ ZGrabDies
  <2>1. ZGrabTypes'
    <3>1. /\ work' = work \/ work' = <<>>
          /\ lines' = lines /\ (zgrabWriter' = zgrabWriter \/ zgrabWriter' = Exited)
          /\ zgrab' = zgrab \/ zgrab' \in {"ok", "failed", "killed"}
      BY <1>10 DEF CloseZGrabInput, ZGrabEnds, ZGrabDies
    <3>2. <<>> \in Seq(IPs)
      OBVIOUS
    <3>3. work' = work \/ work' = <<>>
      BY <3>1
    <3>4. work' \in Seq(IPs)
      BY <1>7, <3>2, <3>3
    <3> QED
      BY <1>7, <3>1, <3>4 DEF ZGrabTypes
  <2> QED
    BY <1>6, <1>7, <1>10, <2>1, KeptIn DEF CloseZGrabInput, ZGrabEnds, ZGrabDies
<1> QED
  BY <1>8, <1>9, <1>10

\* The types after a step of a UDP worker.
LEMMA WorkerTypes ==
    ASSUME TypeInv, NEW w \in ProbeWorkers, TakeTarget(w) \/ EmitResult(w) \/ WorkerEnds(w)
    PROVE  TypeInv'
<1>0. w[1] \in UDPScanners /\ w[1] \in Scanners
  BY OSPipelineAssumption DEF UDPScanners, Scanners
<1>1. Probing
  BY DEF TakeTarget, EmitResult, WorkerEnds
<1>2. FlagTypes'
  BY <1>1 DEF Probing, NoFault, TypeInv, FlagTypes, mergeVars
<1>3. ASSUME InTypes', ProbeTypes' PROVE TypeInv'
  BY <1>1, <1>2, <1>3, KeptFeed, KeptZGrab, KeptMerge, KeptRecord
  DEF Probing, TypeInv, mergeVars, joinVars
<1>4. /\ worker \in [ProbeWorkers -> IPs \cup {Idle, Exited}]
      /\ out \in [UDPScanners -> Seq(IPs)]
      /\ \A s \in UDPScanners : Len(out[s]) <= ResultCapacity
      /\ InTypes
  BY DEF TypeInv, ProbeTypes
<1>5. CASE TakeTarget(w)
  <2>1. InTypes' /\ Head(in[w[1]]) \in IPs
    BY <1>0, <1>4, <1>5, TakenIn DEF TakeTarget
  <2>2. worker' \in [ProbeWorkers -> IPs \cup {Idle, Exited}]
    BY <1>4, <1>5, <2>1 DEF TakeTarget
  <2> QED
    BY <1>3, <1>4, <1>5, <2>1, <2>2 DEF TakeTarget, ProbeTypes
<1>6. CASE EmitResult(w)
  <2>1. worker' \in [ProbeWorkers -> IPs \cup {Idle, Exited}]
    BY <1>4, <1>6 DEF EmitResult
  <2>2. CASE UNCHANGED out
    BY <1>3, <1>4, <1>6, <2>1, <2>2, KeptIn DEF EmitResult, ProbeTypes
  <2>3. CASE /\ Len(out[w[1]]) < ResultCapacity
             /\ out' = [out EXCEPT ![w[1]] = WithResult(w)]
    <3>1. out[w[1]] \in Seq(IPs) /\ worker[w] \in IPs
      BY <1>0, <1>4, <1>6 DEF EmitResult, Busy
    <3>2. WithResult(w) \in Seq(IPs) /\ Len(WithResult(w)) = Len(out[w[1]]) + 1
          /\ Len(out[w[1]]) \in Nat
      BY <3>1 DEF WithResult
    <3>3. Len(WithResult(w)) <= ResultCapacity
      BY <2>3, <3>2, Sizes
    <3>4. ProbeTypes'
      BY <1>0, <1>4, <2>1, <2>3, <3>2, <3>3 DEF ProbeTypes
    <3> QED
      BY <1>3, <1>4, <1>6, <3>4, KeptIn DEF EmitResult
  <2> QED
    BY <1>6, <2>2, <2>3 DEF EmitResult
<1>7. CASE WorkerEnds(w)
  <2>1. worker' \in [ProbeWorkers -> IPs \cup {Idle, Exited}]
    BY <1>4, <1>7 DEF WorkerEnds
  <2> QED
    BY <1>3, <1>4, <1>7, <2>1, KeptIn DEF WorkerEnds, ProbeTypes
<1> QED
  BY <1>5, <1>6, <1>7

\* The cases of a record that the writer takes.
LEMMA AppendCases ==
    ASSUME TypeInv, AppendRecord
    PROVE  \E batch \in Seq(IPs) :
           /\ batch = Append(writer.batch, Head(outRecords.queue))
           /\ Len(batch) = Len(writer.batch) + 1 /\ Head(outRecords.queue) \in IPs
           /\ Tail(outRecords.queue) \in Seq(IPs) /\ outRecords.queue \in Seq(IPs)
           /\ outRecords.queue # <<>>
           /\ Len(outRecords.queue) \in Nat
           /\ Len(Tail(outRecords.queue)) = Len(outRecords.queue) - 1
           /\ outRecords' = [outRecords EXCEPT !.queue = Tail(@)]
           /\ \/ writer.err /\ UNCHANGED <<writer, ctxDone>> /\ NoFault
              \/ /\ ~writer.err /\ Len(batch) < BatchSize
                 /\ writer' = [writer EXCEPT !.batch = batch] /\ UNCHANGED ctxDone /\ NoFault
              \/ /\ ~writer.err
                 /\ writer' = [writer EXCEPT !.batch = <<>>, !.written = @ \o batch]
                 /\ UNCHANGED ctxDone /\ NoFault
              \/ /\ ~writer.err
                 /\ writer' = [writer EXCEPT !.batch = batch, !.err = TRUE]
                 /\ ctxDone' = TRUE /\ Fault
<1> DEFINE batch == Append(writer.batch, Head(outRecords.queue))
<1>1. outRecords.queue \in Seq(IPs) /\ writer.batch \in Seq(IPs)
  BY DEF TypeInv, RecordTypes
<1>2. outRecords.queue # <<>>
  BY DEF AppendRecord
<1>3. /\ Head(outRecords.queue) \in IPs /\ Tail(outRecords.queue) \in Seq(IPs)
      /\ Len(Tail(outRecords.queue)) = Len(outRecords.queue) - 1
      /\ Len(outRecords.queue) \in Nat
  BY <1>1, <1>2, HeadTailProperties, LenProperties
<1>4. batch \in Seq(IPs) /\ Len(batch) = Len(writer.batch) + 1
  BY <1>1, <1>3
<1>5. outRecords' = [outRecords EXCEPT !.queue = Tail(@)]
  BY DEF AppendRecord
<1>6. \/ writer.err /\ UNCHANGED <<writer, ctxDone>> /\ NoFault
      \/ /\ ~writer.err /\ Len(batch) < BatchSize
         /\ writer' = [writer EXCEPT !.batch = batch] /\ UNCHANGED ctxDone /\ NoFault
      \/ /\ ~writer.err
         /\ writer' = [writer EXCEPT !.batch = <<>>, !.written = @ \o batch]
         /\ UNCHANGED ctxDone /\ NoFault
      \/ /\ ~writer.err
         /\ writer' = [writer EXCEPT !.batch = batch, !.err = TRUE]
         /\ ctxDone' = TRUE /\ Fault
  BY DEF AppendRecord
<1> HIDE DEF batch
<1>7. batch = Append(writer.batch, Head(outRecords.queue))
  BY DEF batch
<1> QED
  BY <1>1, <1>2, <1>3, <1>4, <1>5, <1>6, <1>7

\* The types after a step of drainWriter.
LEMMA WriterTypes ==
    ASSUME TypeInv, AppendRecord \/ WriterEnds
    PROVE  TypeInv'
<1>1. Writing
  BY DEF AppendRecord, WriterEnds
<1>2. faults' \in Nat /\ ctxDone' \in BOOLEAN
  <2>1. CASE AppendRecord
    BY <2>1, AppendCases, FaultTypes DEF TypeInv, FlagTypes
  <2>2. CASE WriterEnds
    BY <2>2, FaultTypes DEF WriterEnds, TypeInv, FlagTypes
  <2> QED
    BY <2>1, <2>2
<1>3. FlagTypes'
  BY <1>1, <1>2 DEF Writing, TypeInv, FlagTypes, mergeVars
<1>4. ASSUME RecordTypes' PROVE TypeInv'
  BY <1>1, <1>3, <1>4, KeptFeed, KeptIn, KeptZGrab, KeptProbe, KeptMerge
  DEF Writing, TypeInv, mergeVars, joinVars
<1>5. RecordTypes /\ Len(<<>>) = 0 /\ <<>> \in Seq(IPs)
  BY DEF TypeInv
<1>6. CASE AppendRecord
  <2>1. PICK batch \in Seq(IPs) :
           /\ batch = Append(writer.batch, Head(outRecords.queue))
           /\ Len(batch) = Len(writer.batch) + 1
           /\ Tail(outRecords.queue) \in Seq(IPs) /\ Len(outRecords.queue) \in Nat
           /\ Len(Tail(outRecords.queue)) = Len(outRecords.queue) - 1
           /\ outRecords' = [outRecords EXCEPT !.queue = Tail(@)]
           /\ \/ writer.err /\ UNCHANGED writer
              \/ /\ ~writer.err /\ Len(batch) < BatchSize
                 /\ writer' = [writer EXCEPT !.batch = batch]
              \/ /\ ~writer.err
                 /\ writer' = [writer EXCEPT !.batch = <<>>, !.written = @ \o batch]
              \/ /\ ~writer.err
                 /\ writer' = [writer EXCEPT !.batch = batch, !.err = TRUE]
    BY <1>6, AppendCases
  <2>2. /\ outRecords' \in [queue : Seq(IPs), closed : BOOLEAN]
        /\ Len(outRecords'.queue) <= OutCapacity
    <3>1. outRecords \in [queue : Seq(IPs), closed : BOOLEAN] /\ Len(outRecords.queue) <= OutCapacity
      BY <1>5 DEF RecordTypes
    <3>2. outRecords' \in [queue : Seq(IPs), closed : BOOLEAN]
          /\ outRecords'.queue = Tail(outRecords.queue)
      BY <2>1, <3>1
    <3>3. Len(Tail(outRecords.queue)) <= OutCapacity
      BY <2>1, <3>1, Sizes
    <3> QED
      BY <3>2, <3>3
  <2>3. /\ writer \in [batch : Seq(IPs), written : Seq(IPs), err : BOOLEAN, done : BOOLEAN]
        /\ Len(writer.batch) <= BatchSize /\ (~writer.err => Len(writer.batch) < BatchSize)
        /\ Len(writer.batch) \in Nat /\ writer.written \o batch \in Seq(IPs)
    BY <1>5 DEF RecordTypes
  <2>4. ~writer.err => Len(batch) <= BatchSize
    BY <2>1, <2>3, Sizes
  <2>5. /\ writer' \in [batch : Seq(IPs), written : Seq(IPs), err : BOOLEAN, done : BOOLEAN]
        /\ Len(writer'.batch) <= BatchSize
        /\ ~writer'.err => Len(writer'.batch) < BatchSize
    <3>1. CASE UNCHANGED writer
      BY <2>3, <3>1
    <3>2. CASE ~writer.err /\ writer' = [writer EXCEPT !.batch = batch, !.err = TRUE]
      BY <2>3, <2>4, <3>2
    <3>3. CASE /\ ~writer.err /\ Len(batch) < BatchSize
               /\ writer' = [writer EXCEPT !.batch = batch]
      BY <2>3, <2>4, <3>3
    <3>4. CASE /\ ~writer.err
               /\ writer' = [writer EXCEPT !.batch = <<>>, !.written = @ \o batch]
      <4>1. writer' \in [batch : Seq(IPs), written : Seq(IPs), err : BOOLEAN, done : BOOLEAN]
            /\ writer'.batch = <<>>
        BY <1>5, <2>3, <3>4
      <4>2. 0 <= BatchSize /\ 0 < BatchSize
        BY Sizes
      <4> QED
        BY <1>5, <4>1, <4>2
    <3> QED
      BY <2>1, <3>1, <3>2, <3>3, <3>4
  <2> QED
    BY <1>4, <2>2, <2>5 DEF RecordTypes
<1>7. CASE WriterEnds
  BY <1>4, <1>5, <1>7 DEF WriterEnds, RecordTypes
<1> QED
  BY <1>6, <1>7

\* The types after a step of the end of runPipeline.
LEMMA EndTypes ==
    ASSUME TypeInv, WaitFeeder \/ WaitScanners \/ CloseFiles \/ Report
    PROVE  TypeInv'
<1>1. Ending
  BY DEF WaitFeeder, WaitScanners, CloseFiles, Report
<1>2. Fault \/ NoFault
  BY DEF WaitFeeder, WaitScanners, CloseFiles, Report
<1>3. faults' \in Nat
  BY <1>2, FaultTypes DEF TypeInv, FlagTypes
<1>4. ASSUME FlagTypes', RecordTypes' PROVE TypeInv'
  BY <1>1, <1>4, KeptFeed, KeptIn, KeptZGrab, KeptProbe, KeptMerge
  DEF Ending, TypeInv, joinVars
<1>5. RecordTypes /\ FlagTypes /\ Len(<<>>) = 0 /\ <<>> \in Seq(IPs)
  BY DEF TypeInv
<1>6. CASE WaitFeeder
  BY <1>1, <1>3, <1>4, <1>5, <1>6, KeptRecord DEF WaitFeeder, Ending, FlagTypes
<1>7. CASE WaitScanners
  <2>1. FlagTypes'
    BY <1>1, <1>3, <1>5, <1>7 DEF WaitScanners, Ending, FlagTypes
  <2>2. RecordTypes'
    BY <1>5, <1>7 DEF WaitScanners, RecordTypes
  <2> QED
    BY <1>4, <2>1, <2>2
<1>8. CASE CloseFiles
  <2>1. PICK closes \in BOOLEAN, observes \in BOOLEAN :
          /\ IF closes
             THEN writer' = [writer EXCEPT !.batch = <<>>, !.written = @ \o writer.batch]
             ELSE UNCHANGED writer
          /\ errors' = [errors EXCEPT !.close = ~closes]
          /\ observed' = [observed EXCEPT !.buffer = 0, !.err = @ \/ ~observes]
    BY <1>8 DEF CloseFiles
  <2>2. RecordTypes'
    <3>1. RecordTypes /\ outRecords' = outRecords
      BY <1>5, <1>8 DEF CloseFiles
    <3>2. CASE UNCHANGED writer
      BY <3>1, <3>2, KeptRecord
    <3>3. CASE writer' = [writer EXCEPT !.batch = <<>>, !.written = @ \o writer.batch]
      <4>0. /\ writer \in [batch : Seq(IPs), written : Seq(IPs), err : BOOLEAN, done : BOOLEAN]
            /\ writer.written \o writer.batch \in Seq(IPs)
        BY <1>5 DEF RecordTypes
      <4>1. writer' \in [batch : Seq(IPs), written : Seq(IPs), err : BOOLEAN, done : BOOLEAN]
            /\ writer'.batch = <<>>
        BY <1>5, <3>3, <4>0
      <4>2. 0 <= BatchSize /\ 0 < BatchSize
        BY Sizes
      <4> QED
        BY <1>5, <3>1, <4>1, <4>2 DEF RecordTypes
    <3> QED
      BY <2>1, <3>2, <3>3
  <2>3. /\ errors' \in [scanner : BOOLEAN, zgrab : BOOLEAN, close : BOOLEAN]
        /\ observed' \in [count : Nat, buffer : Nat, err : BOOLEAN]
    BY <1>5, <2>1 DEF FlagTypes
  <2>4. FlagTypes'
    BY <1>1, <1>3, <1>5, <1>8, <2>3 DEF CloseFiles, Ending, FlagTypes
  <2> QED
    BY <1>4, <2>2, <2>4
<1>9. CASE Report
  <2>1. result' \in [status : {"running", "ok", "error"}, coverageFile : BOOLEAN]
    <3>1. \/ result' = [result EXCEPT !.status = "error"]
          \/ result' = [status |-> "ok", coverageFile |-> TRUE]
      BY <1>9 DEF Report
    <3>2. result \in [status : {"running", "ok", "error"}, coverageFile : BOOLEAN]
      BY <1>5 DEF FlagTypes
    <3>3. [result EXCEPT !.status = "error"]
              \in [status : {"running", "ok", "error"}, coverageFile : BOOLEAN]
      BY <3>2
    <3>4. [status |-> "ok", coverageFile |-> TRUE]
              \in [status : {"running", "ok", "error"}, coverageFile : BOOLEAN]
      OBVIOUS
    <3> QED
      BY <3>1, <3>3, <3>4
  <2>2. FlagTypes'
    BY <1>1, <1>3, <1>5, <1>9, <2>1 DEF Report, Ending, FlagTypes
  <2> QED
    BY <1>4, <1>5, <1>9, <2>2, KeptRecord DEF Report
<1> QED
  BY <1>6, <1>7, <1>8, <1>9

-----------------------------------------------------------------------------
(* What a goroutine of the merger does with a result *)

\* The host waits for another scanner.
Joins(s, ip) ==
    /\ pendings' = [pendings EXCEPT ![ip] = pendings[ip] \cup {s}]
    /\ UNCHANGED <<merging, totals, coverage>>

\* It is complete and emitted, or dropped without evidence.
Completes(s, ip) ==
    /\ pendings[ip] \cup {s} = Scanners
    /\ pendings' = [pendings EXCEPT ![ip] = {}]
    /\ \/ /\ HasEvidence(ip)
          /\ merging' = [merging EXCEPT ![s] = [at |-> "send", ip |-> ip]]
          /\ totals' = totals
          /\ \E status \in {"unclassified", "ambiguous", "resolved"} :
                 coverage' = [coverage EXCEPT ![status] = @ + 1]
       \/ /\ ~HasEvidence(ip)
          /\ merging' = merging
          /\ totals' = [totals EXCEPT !.dropped = @ + 1]
          /\ coverage' = [coverage EXCEPT !["without"] = @ + 1]

ObservedType == observed \in [count : Nat, buffer : Nat, err : BOOLEAN]

\* An observation is counted, or has failed and cancels.
LEMMA ObserveEffect ==
    ASSUME ObservedType, Observe
    PROVE  /\ ObservedType'
           /\ Fault \/ NoFault
           /\ ctxDone' = ctxDone \/ ctxDone' = TRUE
<1>1. CASE observed.err
  BY <1>1 DEF Observe, ObservedType
<1>2. CASE ~observed.err
  <2> DEFINE buffer == observed.buffer + 1
  <2>1. \/ /\ observed' = [observed EXCEPT !.count = @ + 1,
                              !.buffer = IF buffer >= ObservationBatch THEN 0 ELSE buffer]
           /\ UNCHANGED ctxDone /\ NoFault
        \/ /\ buffer >= ObservationBatch
           /\ observed' = [count |-> observed.count + 1, buffer |-> 0, err |-> TRUE]
           /\ ctxDone' = TRUE /\ Fault
    BY <1>2 DEF Observe
  <2>2. observed.count + 1 \in Nat /\ buffer \in Nat /\ 0 \in Nat
    BY DEF ObservedType
  <2>3. (IF buffer >= ObservationBatch THEN 0 ELSE buffer) \in Nat
    BY <2>2
  <2> HIDE DEF buffer
  <2>4. ObservedType'
    <3>1. observed \in [count : Nat, buffer : Nat, err : BOOLEAN]
      BY DEF ObservedType
    <3>2. CASE observed' = [count |-> observed.count + 1, buffer |-> 0, err |-> TRUE]
      BY <2>2, <3>2 DEF ObservedType
    <3>3. ASSUME NEW b \in Nat, observed' = [observed EXCEPT !.count = @ + 1, !.buffer = b]
          PROVE  ObservedType'
      BY <2>2, <3>1, <3>3 DEF ObservedType
    <3> QED
      BY <2>1, <2>3, <3>2, <3>3
  <2> QED
    BY <2>1, <2>4
<1> QED
  BY <1>1, <1>2

\* integrate joins a result to the others of its host or completes the host.
LEMMA IntegrateEffect ==
    ASSUME TypeInv, NEW s \in Scanners, NEW ip \in IPs, Integrate(s, ip)
    PROVE  /\ Joins(s, ip) \/ Completes(s, ip)
           /\ ObservedType'
           /\ Fault \/ NoFault
           /\ ctxDone' = ctxDone \/ ctxDone' = TRUE
<1>0. ObservedType
  BY DEF ObservedType, TypeInv, FlagTypes
<1>1. CASE AllScanners(pendings[ip] \cup {s})
  <2>1. /\ pendings' = [pendings EXCEPT ![ip] = {}] /\ Emit(s, ip)
        /\ pendings[ip] \cup {s} = Scanners
    BY <1>1 DEF Integrate, AllScanners
  <2>2. RecordCoverage(ip) /\ Observe
    BY <2>1 DEF Emit
  <2>3. CASE HasEvidence(ip)
    <3>1. merging' = [merging EXCEPT ![s] = [at |-> "send", ip |-> ip]] /\ totals' = totals
      BY <2>1, <2>3 DEF Emit
    <3> DEFINE status == ResolveTags(ClassifyServices(ip)).status
    <3>2. coverage' = [coverage EXCEPT ![status] = @ + 1]
      BY <2>2, <2>3 DEF RecordCoverage
    <3>3. status \in {"unclassified", "ambiguous", "resolved"}
      BY StatusKnown
    <3> HIDE DEF status
    <3>4. Completes(s, ip)
      BY <2>1, <2>3, <3>1, <3>2, <3>3 DEF Completes
    <3> QED
      BY <1>0, <2>2, <3>4, ObserveEffect
  <2>4. CASE ~HasEvidence(ip)
    <3>1. merging' = merging /\ totals' = [totals EXCEPT !.dropped = @ + 1]
      BY <2>1, <2>4 DEF Emit
    <3>2. coverage' = [coverage EXCEPT !["without"] = @ + 1]
      BY <2>2, <2>4 DEF RecordCoverage
    <3>3. Completes(s, ip)
      BY <2>1, <2>4, <3>1, <3>2 DEF Completes
    <3> QED
      BY <1>0, <2>2, <3>3, ObserveEffect
  <2> QED
    BY <2>3, <2>4
<1>2. CASE ~AllScanners(pendings[ip] \cup {s})
  <2>1. /\ pendings' = [pendings EXCEPT ![ip] = pendings[ip] \cup {s}]
        /\ UNCHANGED <<ctxDone, merging, totals, coverage, observed>> /\ NoFault
    BY <1>2 DEF Integrate
  <2> QED
    BY <1>0, <2>1 DEF Joins, ObservedType
<1> QED
  BY <1>1, <1>2

\* What the steps of the merger are, by their effect on hosts.
Merges(s) ==
    \/ /\ s = "zgrab" /\ lines # <<>> /\ lines' = Tail(lines) /\ out' = out
       /\ \/ Head(lines) = NoIP /\ UNCHANGED joinVars
          \/ Head(lines) \in IPs /\ (Joins(s, Head(lines)) \/ Completes(s, Head(lines)))
    \/ /\ s \in UDPScanners /\ out[s] # <<>> /\ out' = [out EXCEPT ![s] = Tail(@)]
       /\ lines' = lines
       /\ Head(out[s]) \in IPs /\ (Joins(s, Head(out[s])) \/ Completes(s, Head(out[s])))

Integrates(s) == IF s = "zgrab" THEN IntegrateZGrab ELSE IntegrateUDP(s)

\* A goroutine of the merger takes a result and integrates it.
LEMMA IntegratesEffect ==
    ASSUME TypeInv, NEW s \in Scanners, Integrates(s)
    PROVE  /\ Merges(s) /\ merging[s].at = "range" /\ Merging
           /\ UNCHANGED <<outRecords, errors>>
           /\ ObservedType'
           /\ Fault \/ NoFault
           /\ ctxDone' = ctxDone \/ ctxDone' = TRUE
<1>0. ObservedType
  BY DEF ObservedType, TypeInv, FlagTypes
<1>1. CASE s = "zgrab"
  <2>1. /\ Integrating("zgrab") /\ lines # <<>> /\ lines' = Tail(lines) /\ UNCHANGED <<out, errors>>
        /\ IF Head(lines) = NoIP THEN UNCHANGED <<ctxDone, mergeVars>> /\ NoFault
           ELSE Integrate("zgrab", Head(lines))
    BY <1>1 DEF Integrates, IntegrateZGrab
  <2>2. CASE Head(lines) = NoIP
    BY <1>0, <1>1, <2>1, <2>2 DEF Merges, Integrating, joinVars, mergeVars, ObservedType
  <2>3. CASE Head(lines) # NoIP
    <3>1. lines \in Seq(IPs \cup {NoIP})
      BY DEF TypeInv, ZGrabTypes
    <3>2. Head(lines) \in IPs
      BY <2>1, <2>3, <3>1, HeadTailProperties
    <3>3. Integrate(s, Head(lines))
      BY <1>1, <2>1, <2>3
    <3> QED
      BY <1>1, <2>1, <3>2, <3>3, IntegrateEffect DEF Merges, Integrating
  <2> QED
    BY <2>2, <2>3
<1>2. CASE s # "zgrab"
  <2>1. /\ Integrating(s) /\ s \in UDPScanners /\ out[s] # <<>>
        /\ out' = [out EXCEPT ![s] = Tail(@)] /\ Integrate(s, Head(out[s]))
        /\ UNCHANGED <<lines, errors>>
    BY <1>2 DEF Integrates, IntegrateUDP
  <2>2. out[s] \in Seq(IPs)
    BY <2>1 DEF TypeInv, ProbeTypes
  <2>3. Head(out[s]) \in IPs
    BY <2>1, <2>2, HeadTailProperties
  <2> QED
    BY <2>1, <2>3, IntegrateEffect DEF Merges, Integrating
<1> QED
  BY <1>1, <1>2

\* The types after integrate.
LEMMA EmitTypes ==
    ASSUME MergeTypes, NEW s \in Scanners, NEW ip \in IPs, Joins(s, ip) \/ Completes(s, ip)
    PROVE  MergeTypes'
<1>0. /\ merging \in [Scanners -> [at : {"range", "send", "done"}, ip : IPs \cup {NoIP}]]
      /\ \A t \in Scanners : merging[t].at = "send" => merging[t].ip \in IPs
      /\ pendings \in [IPs -> SUBSET Scanners]
      /\ totals \in [emitted : Nat, dropped : Nat]
      /\ coverage \in [without : Nat, resolved : Nat, ambiguous : Nat, unclassified : Nat]
  BY DEF MergeTypes
<1>1. CASE Joins(s, ip)
  <2>1. pendings' \in [IPs -> SUBSET Scanners]
    BY <1>0, <1>1 DEF Joins
  <2> QED
    BY <1>0, <1>1, <2>1 DEF Joins, MergeTypes
<1>2. CASE Completes(s, ip)
  <2>1. pendings' \in [IPs -> SUBSET Scanners]
    BY <1>0, <1>2 DEF Completes
  <2>2. merging' = merging \/ merging' = [merging EXCEPT ![s] = [at |-> "send", ip |-> ip]]
    BY <1>2 DEF Completes
  <2>3. /\ merging' \in [Scanners -> [at : {"range", "send", "done"}, ip : IPs \cup {NoIP}]]
        /\ \A t \in Scanners : merging'[t].at = "send" => merging'[t].ip \in IPs
    <3>1. CASE merging' = merging
      BY <1>0, <3>1
    <3>2. CASE merging' = [merging EXCEPT ![s] = [at |-> "send", ip |-> ip]]
      <4>1. [at |-> "send", ip |-> ip] \in [at : {"range", "send", "done"}, ip : IPs \cup {NoIP}]
        OBVIOUS
      <4>2. \A t \in Scanners :
                merging'[t] = IF t = s THEN [at |-> "send", ip |-> ip] ELSE merging[t]
        BY <1>0, <3>2
      <4>3. merging' \in [Scanners -> [at : {"range", "send", "done"}, ip : IPs \cup {NoIP}]]
        BY <1>0, <3>2, <4>1
      <4> QED
        BY <1>0, <4>2, <4>3
    <3> QED
      BY <2>2, <3>1, <3>2
  <2>4. totals' = totals \/ totals' = [totals EXCEPT !.dropped = @ + 1]
    BY <1>2 DEF Completes
  <2>5. totals' \in [emitted : Nat, dropped : Nat]
    BY <1>0, <2>4
  <2>6. \/ coverage' = [coverage EXCEPT !["without"] = @ + 1]
        \/ coverage' = [coverage EXCEPT !["unclassified"] = @ + 1]
        \/ coverage' = [coverage EXCEPT !["ambiguous"] = @ + 1]
        \/ coverage' = [coverage EXCEPT !["resolved"] = @ + 1]
    BY <1>2 DEF Completes
  <2>7. coverage' \in [without : Nat, resolved : Nat, ambiguous : Nat, unclassified : Nat]
    BY <1>0, <2>6
  <2> QED
    BY <2>1, <2>3, <2>5, <2>7 DEF MergeTypes
<1> QED
  BY <1>1, <1>2

\* The types after a step of the merger.
LEMMA MergeStepTypes ==
    ASSUME TypeInv, NEW s \in Scanners,
           Integrates(s) \/ EndOfStream(s) \/ ParseFails \/ SendRecord(s)
    PROVE  TypeInv'
<1>1. CASE Integrates(s)
  <2>1. /\ Merges(s) /\ Merging /\ UNCHANGED <<outRecords, errors>> /\ ObservedType'
        /\ Fault \/ NoFault
        /\ ctxDone' = ctxDone \/ ctxDone' = TRUE
    BY <1>1, IntegratesEffect
  <2>2. faults' \in Nat
    BY <2>1, FaultTypes DEF TypeInv, FlagTypes
  <2>3. FlagTypes'
    BY <2>1, <2>2 DEF TypeInv, FlagTypes, Merging, ObservedType
  <2>4. MergeTypes'
    <3>1. CASE UNCHANGED joinVars
      BY <3>1, KeptMerge DEF TypeInv
    <3>2. CASE ~UNCHANGED joinVars
      BY <2>1, <3>2, EmitTypes DEF Merges, TypeInv
    <3> QED
      BY <3>1, <3>2
  <2>5. ZGrabTypes'
    <3>1. lines \in Seq(IPs \cup {NoIP}) /\ UNCHANGED <<zgrab, zgrabWriter, work>>
      BY <2>1 DEF TypeInv, ZGrabTypes, Merging
    <3>2. lines' = lines \/ (lines # <<>> /\ lines' = Tail(lines))
      BY <2>1 DEF Merges
    <3>3. lines' \in Seq(IPs \cup {NoIP})
      BY <3>1, <3>2, HeadTailProperties
    <3> QED
      BY <3>1, <3>3 DEF TypeInv, ZGrabTypes
  <2>6. ProbeTypes'
    <3>1. /\ worker' = worker /\ out \in [UDPScanners -> Seq(IPs)]
          /\ worker \in [ProbeWorkers -> IPs \cup {Idle, Exited}]
          /\ \A t \in UDPScanners : Len(out[t]) <= ResultCapacity
      BY <2>1 DEF TypeInv, ProbeTypes, Merging
    <3>2. CASE out' = out
      BY <3>1, <3>2 DEF ProbeTypes
    <3>3. CASE s \in UDPScanners /\ out[s] # <<>> /\ out' = [out EXCEPT ![s] = Tail(@)]
      <4>1. out[s] \in Seq(IPs)
        BY <3>1, <3>3
      <4>2. Tail(out[s]) \in Seq(IPs) /\ Len(Tail(out[s])) = Len(out[s]) - 1 /\ Len(out[s]) \in Nat
        BY <3>3, <4>1, HeadTailProperties, LenProperties
      <4>3. Len(Tail(out[s])) <= ResultCapacity
        BY <3>1, <3>3, <4>2, Sizes
      <4> QED
        BY <3>1, <3>3, <4>2, <4>3 DEF ProbeTypes
    <3> QED
      BY <2>1, <3>2, <3>3 DEF Merges
  <2> QED
    BY <2>1, <2>3, <2>4, <2>5, <2>6, KeptFeed, KeptIn, KeptRecord DEF TypeInv, Merging
<1>2. CASE EndOfStream(s) \/ ParseFails
  <2>1. PICK t \in Scanners : merging' = [merging EXCEPT ![t].at = "done"] /\ merging[t].at = "range"
    BY <1>2 DEF EndOfStream, ParseFails, Integrating, Scanners
  <2>2. /\ Merging /\ UNCHANGED <<lines, out, pendings, totals, coverage, observed, outRecords>>
        /\ Fault \/ NoFault
        /\ UNCHANGED <<errors, ctxDone>> \/ ReportScannerError
    BY <1>2 DEF EndOfStream, ParseFails, Integrating
  <2>3. faults' \in Nat
    BY <2>2, FaultTypes DEF TypeInv, FlagTypes
  <2>4. FlagTypes'
    BY <2>2, <2>3 DEF TypeInv, FlagTypes, Merging, ReportScannerError
  <2>5. MergeTypes'
    <3>1. merging \in [Scanners -> [at : {"range", "send", "done"}, ip : IPs \cup {NoIP}]]
          /\ \A u \in Scanners : merging[u].at = "send" => merging[u].ip \in IPs
      BY DEF TypeInv, MergeTypes
    <3>2. merging' \in [Scanners -> [at : {"range", "send", "done"}, ip : IPs \cup {NoIP}]]
      BY <2>1, <3>1
    <3>3. \A u \in Scanners : merging'[u].at = "send" => merging'[u].ip \in IPs
      BY <2>1, <3>1
    <3> QED
      BY <2>2, <3>2, <3>3 DEF TypeInv, MergeTypes
  <2> QED
    BY <2>2, <2>4, <2>5, KeptFeed, KeptIn, KeptZGrab, KeptProbe, KeptRecord
    DEF TypeInv, Merging, zgrabVars
<1>3. CASE SendRecord(s)
  <2>1. /\ Merging /\ NoFault /\ merging[s].at = "send" /\ Len(outRecords.queue) < OutCapacity
        /\ outRecords' = [outRecords EXCEPT !.queue = Append(@, merging[s].ip)]
        /\ totals' = [totals EXCEPT !.emitted = @ + 1]
        /\ merging' = [merging EXCEPT ![s] = Ranging]
        /\ UNCHANGED <<ctxDone, lines, out, pendings, coverage, observed, errors>>
    BY <1>3 DEF SendRecord
  <2>2. FlagTypes'
    BY <2>1 DEF TypeInv, FlagTypes, Merging, NoFault
  <2>3. MergeTypes'
    <3>1. /\ merging \in [Scanners -> [at : {"range", "send", "done"}, ip : IPs \cup {NoIP}]]
          /\ \A u \in Scanners : merging[u].at = "send" => merging[u].ip \in IPs
          /\ totals \in [emitted : Nat, dropped : Nat]
      BY DEF TypeInv, MergeTypes
    <3>2. merging' \in [Scanners -> [at : {"range", "send", "done"}, ip : IPs \cup {NoIP}]]
      BY <2>1, <3>1 DEF Ranging
    <3>3. \A u \in Scanners : merging'[u].at = "send" => merging'[u].ip \in IPs
      BY <2>1, <3>1 DEF Ranging
    <3>4. totals' \in [emitted : Nat, dropped : Nat]
      BY <2>1, <3>1
    <3> QED
      BY <2>1, <3>2, <3>3, <3>4 DEF TypeInv, MergeTypes
  <2>4. RecordTypes'
    <3>1. /\ outRecords \in [queue : Seq(IPs), closed : BOOLEAN] /\ merging[s].ip \in IPs
          /\ writer' = writer
      BY <2>1 DEF TypeInv, MergeTypes, RecordTypes, Merging
    <3>2. Append(outRecords.queue, merging[s].ip) \in Seq(IPs)
          /\ Len(Append(outRecords.queue, merging[s].ip)) = Len(outRecords.queue) + 1
          /\ Len(outRecords.queue) \in Nat
      BY <3>1
    <3>3. Len(Append(outRecords.queue, merging[s].ip)) <= OutCapacity
      BY <2>1, <3>2, Sizes
    <3>4. outRecords' \in [queue : Seq(IPs), closed : BOOLEAN]
          /\ outRecords'.queue = Append(outRecords.queue, merging[s].ip)
      BY <2>1, <3>1, <3>2
    <3> QED
      BY <3>1, <3>3, <3>4 DEF TypeInv, RecordTypes
  <2> QED
    BY <2>1, <2>2, <2>3, <2>4, KeptFeed, KeptIn, KeptZGrab, KeptProbe
    DEF TypeInv, Merging, zgrabVars
<1> QED
  BY <1>1, <1>2, <1>3

\* Every step of the program is one of these.
LEMMA StepKinds ==
    ASSUME Next
    PROVE  \/ StartUp \/ StartFails \/ Interrupt \/ Returned
           \/ SkipEmptyRow \/ SendTarget \/ FeedEnds \/ FeedFails
           \/ WriteZGrabInput \/ CloseZGrabInput \/ ZGrabAnswers \/ ZGrabEnds \/ ZGrabDies
           \/ \E w \in ProbeWorkers : TakeTarget(w) \/ EmitResult(w) \/ WorkerEnds(w)
           \/ \E s \in Scanners : Integrates(s) \/ EndOfStream(s) \/ ParseFails \/ SendRecord(s)
           \/ AppendRecord \/ WriterEnds
           \/ WaitFeeder \/ WaitScanners \/ CloseFiles \/ Report
<1>1. "zgrab" \in Scanners
  BY DEF Scanners
<1>2. ASSUME Progress
      PROVE  \/ StartUp \/ SkipEmptyRow \/ SendTarget \/ FeedEnds
             \/ WriteZGrabInput \/ CloseZGrabInput \/ ZGrabAnswers \/ ZGrabEnds
             \/ \E w \in ProbeWorkers : TakeTarget(w) \/ EmitResult(w) \/ WorkerEnds(w)
             \/ \E s \in Scanners : Integrates(s) \/ EndOfStream(s) \/ SendRecord(s)
             \/ AppendRecord \/ WriterEnds
             \/ WaitFeeder \/ WaitScanners \/ CloseFiles \/ Report
  BY <1>2 DEF Progress, FeederStep, ZGrabInputStep, ZGrabStep, WriterStep, MainStep, WorkerStep,
              MergeStep, Integrates
<1> QED
  BY <1>1, <1>2 DEF Next

\* Every step keeps the types.
LEMMA TypeStep ==
    ASSUME TypeInv, Next
    PROVE  TypeInv'
BY StepKinds, StartTypes, FeederTypes, ZGrabStepTypes, WorkerTypes, MergeStepTypes, WriterTypes,
   EndTypes

-----------------------------------------------------------------------------
(* Hosts on their way *)

\* A step takes as much from a scanner's share as it completes, and no more is fed than added.
Balanced(c, d) ==
    \A s \in Scanners, ip \in IPs :
        /\ Times(ip, d) + Load(s, ip)' + Fed(s, ip) <= Times(ip, c) + Load(s, ip) + Fed(s, ip)'
        /\ Clean' => Times(ip, d) + Load(s, ip)' + Fed(s, ip)
                         = Times(ip, c) + Load(s, ip) + Fed(s, ip)'

\* Shares are numbers,
LEMMA NumbersType ==
    TypeInv => \A s \in Scanners, ip \in IPs : Load(s, ip) \in Nat /\ Fed(s, ip) \in Nat
BY ScannedType, FedType

\* after the step too.
LEMMA NumbersNext ==
    TypeInv' => (\A s \in Scanners, ip \in IPs : Load(s, ip) \in Nat /\ Fed(s, ip) \in Nat)'
BY NumbersType, PTL

\* A balanced step keeps the share of every scanner within what it was given.
LEMMA BalancedKeeps ==
    ASSUME TypeInv, TypeInv', NEW c \in Seq(IPs), NEW d \in Seq(IPs),
           LoadInv(c), Balanced(c, d), Clean' => Clean
    PROVE  LoadInv(d)'
<1> SUFFICES ASSUME NEW s \in Scanners, NEW ip \in IPs
             PROVE  /\ Times(ip, d) + Load(s, ip)' <= Fed(s, ip)'
                    /\ Clean' => Times(ip, d) + Load(s, ip)' = Fed(s, ip)'
  BY DEF LoadInv, Times
<1>1. /\ Times(ip, c) + Load(s, ip) <= Fed(s, ip)
      /\ Clean => Times(ip, c) + Load(s, ip) = Fed(s, ip)
  BY DEF LoadInv
<1>2. /\ Times(ip, d) + Load(s, ip)' + Fed(s, ip) <= Times(ip, c) + Load(s, ip) + Fed(s, ip)'
      /\ Clean' => Times(ip, d) + Load(s, ip)' + Fed(s, ip)
                       = Times(ip, c) + Load(s, ip) + Fed(s, ip)'
  BY DEF Balanced
<1>3. Load(s, ip) \in Nat /\ Fed(s, ip) \in Nat
  BY ScannedType, FedType
<1>4. Load(s, ip)' \in Nat /\ Fed(s, ip)' \in Nat
  BY NumbersNext
<1>6. Times(ip, c) \in Nat /\ Times(ip, d) \in Nat
  BY TimesType
<1>7. Times(ip, d) + Load(s, ip)' <= Fed(s, ip)'
  BY <1>1, <1>2, <1>3, <1>4, <1>6
<1>8. ASSUME Clean' PROVE Times(ip, d) + Load(s, ip)' = Fed(s, ip)'
  <2>1. /\ Times(ip, c) + Load(s, ip) = Fed(s, ip)
        /\ Times(ip, d) + Load(s, ip)' + Fed(s, ip) = Times(ip, c) + Load(s, ip) + Fed(s, ip)'
    BY <1>1, <1>2, <1>8
  <2> QED
    BY <1>3, <1>4, <1>6, <2>1
<1> QED
  BY <1>7, <1>8

\* Shares that nobody touches.
LEMMA LoadFrame ==
    ASSUME UNCHANGED <<in, work, lines, worker, out, pendings>>
    PROVE  \A s, ip : Load(s, ip)' = Load(s, ip)
BY DEF Load, Scanned, Held, HeldBy, Times, One

\* A step that is not of the feeder feeds nothing.
LEMMA FedFrame ==
    ASSUME UNCHANGED feedVars
    PROVE  \A s, ip : Fed(s, ip)' = Fed(s, ip)
BY DEF feedVars, Fed, FedRows, Times

\* A step that touches neither is balanced.
LEMMA BalancedFrame ==
    ASSUME TypeInv, NEW c \in Seq(IPs),
           UNCHANGED <<in, work, lines, worker, out, pendings>>, UNCHANGED feedVars
    PROVE  Balanced(c, c)
<1> SUFFICES ASSUME NEW s \in Scanners, NEW ip \in IPs
             PROVE  /\ Times(ip, c) + Load(s, ip)' + Fed(s, ip)
                           <= Times(ip, c) + Load(s, ip) + Fed(s, ip)'
                    /\ Times(ip, c) + Load(s, ip)' + Fed(s, ip)
                           = Times(ip, c) + Load(s, ip) + Fed(s, ip)'
  BY DEF Balanced
<1>1. Load(s, ip)' = Load(s, ip) /\ Fed(s, ip)' = Fed(s, ip)
  BY LoadFrame, FedFrame
<1>2. Load(s, ip) \in Nat /\ Fed(s, ip) \in Nat /\ Times(ip, c) \in Nat
  BY ScannedType, FedType, TimesType
<1> QED
  BY <1>1, <1>2

\* What was lost before stays lost.
LEMMA CleanBefore ==
    ASSUME TypeInv, Next
    PROVE  Clean' => Clean
<1>0. faults \in Nat /\ ctxDone \in BOOLEAN
  BY DEF TypeInv, FlagTypes
<1> SUFFICES /\ rows' = rows
             /\ Fault \/ NoFault \/ faults' = faults
             /\ ctxDone' = ctxDone \/ ctxDone' = TRUE
  BY <1>0 DEF Clean, DistinctTargets, Fault, NoFault
<1>1. CASE StartUp \/ StartFails \/ Interrupt \/ Returned
  BY <1>1 DEF StartUp, StartFails, Interrupt, Returned, vars, feedVars
<1>2. CASE SkipEmptyRow \/ SendTarget \/ FeedEnds \/ FeedFails
  BY <1>2 DEF SkipEmptyRow, SendTarget, FeedEnds, FeedFails, Feeding
<1>3. CASE WriteZGrabInput \/ CloseZGrabInput \/ ZGrabAnswers \/ ZGrabEnds \/ ZGrabDies
  BY <1>3 DEF WriteZGrabInput, CloseZGrabInput, ZGrabAnswers, ZGrabEnds, ZGrabDies, ZGrabbing,
              feedVars, ReportScannerError
<1>4. CASE \E w \in ProbeWorkers : TakeTarget(w) \/ EmitResult(w) \/ WorkerEnds(w)
  BY <1>4 DEF TakeTarget, EmitResult, WorkerEnds, Probing, feedVars
<1>5. CASE \E s \in Scanners : Integrates(s) \/ EndOfStream(s) \/ ParseFails \/ SendRecord(s)
  <2>1. CASE \E s \in Scanners : Integrates(s)
    BY <2>1, IntegratesEffect DEF Merging, feedVars
  <2>2. CASE \E s \in Scanners : EndOfStream(s) \/ ParseFails \/ SendRecord(s)
    BY <2>2 DEF EndOfStream, ParseFails, SendRecord, Integrating, Merging, feedVars,
                ReportScannerError
  <2> QED
    BY <1>5, <2>1, <2>2
<1>6. CASE AppendRecord
  BY <1>6, AppendCases DEF AppendRecord, Writing, feedVars
<1>7. CASE WriterEnds
  BY <1>7 DEF WriterEnds, Writing, feedVars
<1>8. CASE WaitFeeder \/ WaitScanners \/ CloseFiles \/ Report
  BY <1>8 DEF WaitFeeder, WaitScanners, CloseFiles, Report, Ending, feedVars
<1> QED
  BY <1>1, <1>2, <1>3, <1>4, <1>5, <1>6, <1>7, <1>8, StepKinds

\* The rows given to a scanner, before and after a step of the feeder.
LEMMA FedNext ==
    ASSUME TypeInv, rows' = rows, NEW s \in Scanners, NEW ip,
           feeder.row \in 1 .. Len(rows)
    PROVE  /\ FedRows(s) = feeder.row - 1 /\ FedRows(s)' = feeder.row =>
                  Fed(s, ip)' = Fed(s, ip) + One(rows[feeder.row] = ip)
           /\ FedRows(s)' = FedRows(s) => Fed(s, ip)' = Fed(s, ip)
<1>1. ASSUME FedRows(s)' = FedRows(s) PROVE Fed(s, ip)' = Fed(s, ip)
  BY <1>1 DEF Fed, Times
<1>2. ASSUME FedRows(s) = feeder.row - 1, FedRows(s)' = feeder.row
      PROVE  Fed(s, ip)' = Fed(s, ip) + One(rows[feeder.row] = ip)
  <2> DEFINE n == feeder.row - 1
  <2>1. rows \in Seq(IPs \cup {NoIP}) /\ Len(rows) \in Nat
    BY RowsType
  <2>2. n \in 0 .. Len(rows) /\ n < Len(rows) /\ n + 1 = feeder.row
    BY <2>1
  <2>3. Fed(s, ip) = Times(ip, SubSeq(rows, 1, n))
    BY <1>2 DEF Fed
  <2>4. Fed(s, ip)' = Times(ip, SubSeq(rows, 1, feeder.row))
    BY <1>2 DEF Fed, Times
  <2> HIDE DEF n
  <2>5. Times(ip, SubSeq(rows, 1, n + 1)) =
            Times(ip, SubSeq(rows, 1, n)) + (IF rows[n + 1] = ip THEN 1 ELSE 0)
    BY <2>1, <2>2, TimesPrefix
  <2> QED
    BY <2>2, <2>3, <2>4, <2>5 DEF One
<1> QED
  BY <1>1, <1>2

\* The feeder adds to the share what it feeds.
LEMMA FeederBalance ==
    ASSUME TypeInv, NEW c \in Seq(IPs), SkipEmptyRow \/ SendTarget \/ FeedEnds \/ FeedFails
    PROVE  Balanced(c, c)
<1> SUFFICES ASSUME NEW s \in Scanners, NEW ip \in IPs
             PROVE  Load(s, ip)' + Fed(s, ip) = Load(s, ip) + Fed(s, ip)'
                    /\ Fed(s, ip)' \in Nat /\ Load(s, ip)' \in Nat
  <2>1. \A s \in Scanners, ip \in IPs :
            Load(s, ip) \in Nat /\ Fed(s, ip) \in Nat /\ Times(ip, c) \in Nat
    BY ScannedType, FedType, TimesType
  <2> SUFFICES ASSUME NEW s \in Scanners, NEW ip \in IPs
               PROVE  /\ Times(ip, c) + Load(s, ip)' + Fed(s, ip)
                             <= Times(ip, c) + Load(s, ip) + Fed(s, ip)'
                      /\ Times(ip, c) + Load(s, ip)' + Fed(s, ip)
                             = Times(ip, c) + Load(s, ip) + Fed(s, ip)'
    BY DEF Balanced
  <2>2. /\ Load(s, ip)' + Fed(s, ip) = Load(s, ip) + Fed(s, ip)'
        /\ Fed(s, ip)' \in Nat /\ Load(s, ip)' \in Nat
    OBVIOUS
  <2>3. Load(s, ip) \in Nat /\ Fed(s, ip) \in Nat /\ Times(ip, c) \in Nat
    BY <2>1
  <2> QED
    BY <2>2, <2>3
<1>1. /\ feeder.row \in 1 .. Len(rows) + 1 /\ feeder.to \in 1 .. 3
      /\ feeder.to > 1 => AtTarget
      /\ Len(rows) \in Nat
  BY RowsType DEF TypeInv, FeedTypes
<1>2. Load(s, ip) \in Nat /\ Fed(s, ip) \in Nat
  BY ScannedType, FedType
<1>3. rows' = rows /\ UNCHANGED <<work, lines, worker, out, pendings>>
  BY DEF SkipEmptyRow, SendTarget, FeedEnds, FeedFails, Feeding, zgrabVars, mergeVars
<1>4. Scanned(s, ip)' = Scanned(s, ip)
      /\ One(s \in pendings[ip])' = One(s \in pendings[ip])
  BY <1>3 DEF Scanned, Held, HeldBy, Times, One
<1>5. InputPlace[s] \in 1 .. 3
  BY DEF InputPlace, Scanners
<1>6. CASE SkipEmptyRow
  <2>1. /\ feeder.row <= Len(rows) /\ rows[feeder.row] = NoIP /\ in' = in
        /\ feeder' = [feeder EXCEPT !.row = @ + 1, !.to = 1]
    BY <1>6 DEF SkipEmptyRow, NextRow
  <2>2. feeder.to = 1 /\ feeder.row \in 1 .. Len(rows)
    BY <1>1, <2>1 DEF AtTarget
  <2>3. feeder'.to = 1 /\ feeder'.row = feeder.row + 1
    BY <2>1 DEF TypeInv, FeedTypes
  <2>4. FedRows(s) = feeder.row - 1 /\ FedRows(s)' = feeder.row
    BY <1>5, <2>2, <2>3 DEF FedRows, InputPlace
  <2>5. Fed(s, ip)' = Fed(s, ip) + One(rows[feeder.row] = ip)
    BY <1>3, <2>2, <2>4, FedNext
  <2>6. One(rows[feeder.row] = ip) = 0
    BY <2>1, OSPipelineAssumption DEF One
  <2>7. Load(s, ip)' = Load(s, ip)
    BY <1>3, <2>1, LoadFrame
  <2> QED
    BY <1>2, <2>5, <2>6, <2>7
<1>7. CASE SendTarget
  <2> DEFINE k == feeder.to
             target == FeedOrder[k]
             x == rows[feeder.row]
  <2>1. /\ x \in IPs /\ feeder.row \in 1 .. Len(rows) /\ k \in 1 .. 3 /\ target \in Scanners
    BY <1>7, TargetType DEF SendTarget
  <2>2. /\ in' = [in EXCEPT ![target] = Append(@, x)]
        /\ feeder' = IF k = 3 THEN [feeder EXCEPT !.row = @ + 1, !.to = 1]
                     ELSE [feeder EXCEPT !.to = @ + 1]
    BY <1>7 DEF SendTarget, NextRow, FeedOrder
  <2>3. target = s <=> InputPlace[s] = k
    <3>1. k = 1 \/ k = 2 \/ k = 3
      BY <2>1
    <3> QED
      BY <3>1 DEF FeedOrder, InputPlace, Scanners
  <2>4. /\ k = 3 => feeder'.to = 1 /\ feeder'.row = feeder.row + 1
        /\ k # 3 => feeder'.to = k + 1 /\ feeder'.row = feeder.row
    BY <2>2 DEF TypeInv, FeedTypes
  <2>5. feeder.to = k
    OBVIOUS
  <2> HIDE DEF k
  <2>6. InputPlace[s] = k => FedRows(s) = feeder.row - 1 /\ FedRows(s)' = feeder.row
    <3>1. ASSUME InputPlace[s] = k PROVE FedRows(s) = feeder.row - 1
      BY <1>1, <2>5, <3>1 DEF FedRows
    <3>2. ASSUME InputPlace[s] = k PROVE FedRows(s)' = feeder.row
      <4>1. FedRows(s)' = IF feeder'.to > InputPlace[s] THEN feeder'.row ELSE feeder'.row - 1
        BY DEF FedRows, InputPlace
      <4>2. CASE k = 3
        BY <1>1, <1>5, <2>4, <3>2, <4>1, <4>2
      <4>3. CASE k # 3
        BY <1>1, <1>5, <2>1, <2>4, <3>2, <4>1, <4>3
      <4> QED
        BY <4>2, <4>3
    <3> QED
      BY <3>1, <3>2
  <2>7. InputPlace[s] # k => FedRows(s)' = FedRows(s)
    <3> SUFFICES ASSUME InputPlace[s] # k PROVE FedRows(s)' = FedRows(s)
      OBVIOUS
    <3>1. FedRows(s)' = IF feeder'.to > InputPlace[s] THEN feeder'.row ELSE feeder'.row - 1
      BY DEF FedRows, InputPlace
    <3>2. FedRows(s) = IF k > InputPlace[s] THEN feeder.row ELSE feeder.row - 1
      BY <2>5 DEF FedRows
    <3>3. CASE k = 3
      BY <1>1, <1>5, <2>4, <3>1, <3>2, <3>3
    <3>4. CASE k # 3
      <4>1. k + 1 > InputPlace[s] <=> k > InputPlace[s]
        BY <1>5, <2>1
      <4> QED
        BY <2>4, <3>1, <3>2, <3>4, <4>1
    <3> QED
      BY <3>3, <3>4
  <2>8. /\ target = s => Fed(s, ip)' = Fed(s, ip) + One(x = ip)
        /\ target # s => Fed(s, ip)' = Fed(s, ip)
    BY <1>3, <2>1, <2>3, <2>6, <2>7, FedNext
  <2>9. in \in [Scanners -> Seq(IPs)]
    BY DEF TypeInv, InTypes
  <2> HIDE DEF target, x
  <2>10. /\ target = s => in'[s] = Append(in[s], x)
         /\ target # s => in'[s] = in[s]
    BY <2>1, <2>2, <2>9
  <2>11. /\ target = s => Times(ip, in[s])' = Times(ip, in[s]) + One(x = ip)
         /\ target # s => Times(ip, in[s])' = Times(ip, in[s])
    <3>1. Times(ip, in[s])' = Times(ip, in'[s])
      BY DEF Times
    <3>2. Times(ip, Append(in[s], x)) = Times(ip, in[s]) + (IF x = ip THEN 1 ELSE 0)
      BY <2>1, <2>9, TimesAppend
    <3> QED
      BY <2>10, <3>1, <3>2 DEF One
  <2>12. Load(s, ip)' = Times(ip, in[s])' + Scanned(s, ip)' + One(s \in pendings[ip])'
    BY DEF Load
  <2>13. Times(ip, in[s]) \in Nat /\ Scanned(s, ip) \in Nat /\ One(s \in pendings[ip]) \in {0, 1}
         /\ One(x = ip) \in {0, 1}
    BY ScannedType DEF One
  <2>14. Load(s, ip) = Times(ip, in[s]) + Scanned(s, ip) + One(s \in pendings[ip])
    BY DEF Load
  <2>15. CASE target = s
    <3>1. /\ Fed(s, ip)' = Fed(s, ip) + One(x = ip)
          /\ Times(ip, in[s])' = Times(ip, in[s]) + One(x = ip)
      BY <2>8, <2>11, <2>15
    <3>2. Load(s, ip)' = Load(s, ip) + One(x = ip)
      BY <1>4, <2>12, <2>13, <2>14, <3>1
    <3> QED
      BY <1>2, <2>13, <3>1, <3>2
  <2>16. CASE target # s
    <3>1. /\ Fed(s, ip)' = Fed(s, ip)
          /\ Times(ip, in[s])' = Times(ip, in[s])
      BY <2>8, <2>11, <2>16
    <3>2. Load(s, ip)' = Load(s, ip)
      BY <1>4, <2>12, <2>13, <2>14, <3>1
    <3> QED
      BY <1>2, <3>1, <3>2
  <2> QED
    BY <2>15, <2>16
<1>8. CASE FeedEnds \/ FeedFails
  <2>1. feeder'.row = feeder.row /\ feeder'.to = feeder.to /\ in' = in
    BY <1>8 DEF FeedEnds, FeedFails, TypeInv, FeedTypes
  <2>2. Fed(s, ip)' = Fed(s, ip)
    BY <1>3, <2>1 DEF Fed, FedRows, Times, InputPlace
  <2>3. Load(s, ip)' = Load(s, ip)
    BY <1>3, <2>1, LoadFrame
  <2> QED
    BY <1>2, <2>2, <2>3
<1> QED
  BY <1>6, <1>7, <1>8

\* So is a step that only loses hosts, when something has failed.
LEMMA BalancedLoads ==
    ASSUME TypeInv, UNCHANGED feedVars, NEW c \in Seq(IPs),
           \A s \in Scanners, ip \in IPs :
               /\ Load(s, ip)' \in Nat /\ Load(s, ip)' <= Load(s, ip)
               /\ Clean' => Load(s, ip)' = Load(s, ip)
    PROVE  Balanced(c, c)
<1> SUFFICES ASSUME NEW s \in Scanners, NEW ip \in IPs
             PROVE  /\ Times(ip, c) + Load(s, ip)' + Fed(s, ip)
                           <= Times(ip, c) + Load(s, ip) + Fed(s, ip)'
                    /\ Clean' => Times(ip, c) + Load(s, ip)' + Fed(s, ip)
                           = Times(ip, c) + Load(s, ip) + Fed(s, ip)'
  BY DEF Balanced
<1>1. Fed(s, ip)' = Fed(s, ip)
  BY FedFrame
<1>2. Load(s, ip) \in Nat /\ Fed(s, ip) \in Nat /\ Times(ip, c) \in Nat
  BY ScannedType, FedType, TimesType
<1>3. /\ Load(s, ip)' \in Nat /\ Load(s, ip)' <= Load(s, ip)
      /\ Clean' => Load(s, ip)' = Load(s, ip)
  OBVIOUS
<1> QED
  BY <1>1, <1>2, <1>3

\* A failure or a cancellation is not forgotten.
LEMMA NotClean ==
    ASSUME TypeInv, Fault \/ ctxDone' = TRUE
    PROVE  ~Clean'
BY DEF TypeInv, FlagTypes, Fault, Clean

\* The head of a sequence moves on.
LEMMA TimesHead ==
    ASSUME NEW X, NEW q \in Seq(X), q # <<>>, NEW ip
    PROVE  /\ Times(ip, q) = Times(ip, Tail(q)) + One(Head(q) = ip)
           /\ Times(ip, Tail(q)) \in Nat /\ One(Head(q) = ip) \in {0, 1}
<1>1. Tail(q) \in Seq(X)
  BY HeadTailProperties
<1> QED
  BY <1>1, TimesTail, TimesType DEF One

\* Hosts pass zgrab2, or are lost to a failure.
LEMMA ZGrabBalance ==
    ASSUME TypeInv, NEW c \in Seq(IPs),
           WriteZGrabInput \/ CloseZGrabInput \/ ZGrabAnswers \/ ZGrabEnds \/ ZGrabDies
    PROVE  Balanced(c, c)
<1>1. /\ UNCHANGED feedVars /\ UNCHANGED <<worker, out, pendings>>
  BY DEF WriteZGrabInput, CloseZGrabInput, ZGrabAnswers, ZGrabEnds, ZGrabDies, ZGrabbing, mergeVars
<1>2. \A s \in Scanners : s # "zgrab" => in'[s] = in[s]
  BY DEF WriteZGrabInput, CloseZGrabInput, ZGrabAnswers, ZGrabEnds, ZGrabDies, TypeInv, InTypes
<1> SUFFICES ASSUME NEW s \in Scanners, NEW ip \in IPs
             PROVE  /\ Load(s, ip)' \in Nat /\ Load(s, ip)' <= Load(s, ip)
                    /\ Clean' => Load(s, ip)' = Load(s, ip)
  BY <1>1, BalancedLoads
<1>3. CASE s # "zgrab"
  <2>1. Load(s, ip)' = Load(s, ip)
    BY <1>1, <1>2, <1>3 DEF Load, Scanned, Held, HeldBy, Times, One
  <2> QED
    BY <2>1, ScannedType
<1>4. CASE s = "zgrab"
  <2> DEFINE p == One(s \in pendings[ip])
  <2>1. /\ Load(s, ip) = Times(ip, in["zgrab"]) + (Times(ip, work) + Times(ip, lines)) + p
        /\ Times(ip, in["zgrab"]) \in Nat /\ Times(ip, work) \in Nat /\ Times(ip, lines) \in Nat
        /\ p \in {0, 1}
    BY <1>4, ScannedType DEF Load, Scanned
  <2>2. Load(s, ip)' = Times(ip, in'["zgrab"]) + (Times(ip, work') + Times(ip, lines')) + p
    BY <1>1, <1>4 DEF Load, Scanned, Times, One
  <2>3. in["zgrab"] \in Seq(IPs) /\ work \in Seq(IPs) /\ lines \in Seq(IPs \cup {NoIP})
    BY DEF TypeInv, InTypes, ZGrabTypes, Scanners
  <2>4. Times(ip, <<>>) = 0
    BY TimesEmpty
  <2> HIDE DEF p
  <2>5. CASE WriteZGrabInput
    <3> DEFINE h == Head(in["zgrab"])
    <3>1. in["zgrab"] # <<>> /\ in'["zgrab"] = Tail(in["zgrab"]) /\ lines' = lines
      BY <2>5 DEF WriteZGrabInput, TypeInv, InTypes, Scanners
    <3>2. /\ Times(ip, in["zgrab"]) = Times(ip, in'["zgrab"]) + One(h = ip)
          /\ Times(ip, in'["zgrab"]) \in Nat /\ One(h = ip) \in {0, 1} /\ h \in IPs
      <4>1. h \in IPs
        BY <2>3, <3>1, HeadTailProperties
      <4>2. /\ Times(ip, in["zgrab"]) = Times(ip, Tail(in["zgrab"])) + One(h = ip)
            /\ Times(ip, Tail(in["zgrab"])) \in Nat /\ One(h = ip) \in {0, 1}
        BY <2>3, <3>1, TimesHead
      <4> QED
        BY <3>1, <4>1, <4>2
    <3>3. work' = Append(work, h) \/ (work' = work /\ ctxDone' = TRUE)
      BY <2>5 DEF WriteZGrabInput, ReportScannerError
    <3> HIDE DEF h
    <3>4. CASE work' = Append(work, h)
      <4>1. Times(ip, work') = Times(ip, work) + One(h = ip)
        BY <2>3, <3>2, <3>4, TimesAppend DEF One
      <4> QED
        BY <2>1, <2>2, <3>1, <3>2, <4>1
    <3>5. CASE work' = work /\ ctxDone' = TRUE
      <4>1. ~Clean'
        BY <3>5, NotClean
      <4> QED
        BY <2>1, <2>2, <3>1, <3>2, <3>5, <4>1
    <3> QED
      BY <3>3, <3>4, <3>5
  <2>6. CASE CloseZGrabInput
    <3>1. in' = in /\ work' = work /\ lines' = lines
      BY <2>6 DEF CloseZGrabInput
    <3> QED
      BY <2>1, <2>2, <3>1
  <2>7. CASE ZGrabAnswers
    <3>1. in' = in
      BY <2>7 DEF ZGrabAnswers
    <3>2. PICK i \in DOMAIN work, parses \in BOOLEAN :
             /\ IF parses THEN NoFault ELSE Fault
             /\ work' = RemoveAt(work, i)
             /\ lines' = Append(lines, IF parses THEN work[i] ELSE NoIP)
      BY <2>7 DEF ZGrabAnswers
    <3>3. /\ RemoveAt(work, i) \in Seq(IPs) /\ work[i] \in IPs
          /\ Times(ip, work) = Times(ip, RemoveAt(work, i)) + (IF work[i] = ip THEN 1 ELSE 0)
      BY <2>3, TimesRemoveAt
    <3>4. /\ Times(ip, work') \in Nat /\ Times(ip, work) = Times(ip, work') + One(work[i] = ip)
          /\ One(work[i] = ip) \in {0, 1}
      BY <3>2, <3>3, TimesType DEF One
    <3>5. CASE parses
      <4>1. lines' = Append(lines, work[i]) /\ work[i] \in IPs \cup {NoIP}
        BY <3>2, <3>3, <3>5
      <4>2. Times(ip, lines') = Times(ip, lines) + One(work[i] = ip)
        BY <2>3, <4>1, TimesAppend DEF One
      <4> QED
        BY <2>1, <2>2, <3>1, <3>4, <4>2
    <3>6. CASE ~parses
      <4>1. lines' = Append(lines, NoIP) /\ Fault /\ NoIP # ip
        BY <3>2, <3>6, OSPipelineAssumption
      <4>2. Times(ip, lines') = Times(ip, lines) + 0
        BY <2>3, <4>1, TimesAppend
      <4>3. ~Clean'
        BY <4>1, NotClean
      <4> QED
        BY <2>1, <2>2, <3>1, <3>4, <4>2, <4>3
    <3> QED
      BY <3>5, <3>6
  <2>8. CASE ZGrabEnds
    <3>1. in' = in /\ lines' = lines /\ work' = <<>> /\ (work = <<>> \/ ctxDone' = TRUE)
      BY <2>8 DEF ZGrabEnds, TypeInv, FlagTypes
    <3>2. CASE work = <<>>
      BY <2>1, <2>2, <2>4, <3>1, <3>2
    <3>3. CASE ctxDone' = TRUE
      BY <2>1, <2>2, <2>4, <3>1, <3>3, NotClean
    <3> QED
      BY <3>1, <3>2, <3>3
  <2>9. CASE ZGrabDies
    <3>1. in' = in /\ lines' = lines /\ work' = <<>> /\ Fault
      BY <2>9 DEF ZGrabDies, ZGrabbing
    <3> QED
      BY <2>1, <2>2, <2>4, <3>1, NotClean
  <2> QED
    BY <2>5, <2>6, <2>7, <2>8, <2>9
<1> QED
  BY <1>3, <1>4

\* A worker takes a host, or lets go of it.
LEMMA HeldTaken ==
    ASSUME TypeInv, NEW w \in ProbeWorkers, NEW x, worker[w] \notin IPs,
           worker' = [worker EXCEPT ![w] = x], NEW s, NEW ip \in IPs
    PROVE  Held(s, ip)' = Held(s, ip) + One(s = w[1] /\ x = ip)
<1>1. worker \in [ProbeWorkers -> IPs \cup {Idle, Exited}]
  BY DEF TypeInv, ProbeTypes
<1>2. \A v \in ProbeWorkers : worker'[v] = IF v = w THEN x ELSE worker[v]
  BY <1>1
<1>3. Held(s, ip)' = Cardinality({v \in ProbeWorkers : v[1] = s /\ worker'[v] = ip})
  BY DEF Held, HeldBy
<1>4. w \notin HeldBy(s, ip) /\ IsFiniteSet(HeldBy(s, ip)) /\ Held(s, ip) \in Nat
  BY HeldType DEF HeldBy
<1>5. CASE s = w[1] /\ x = ip
  <2>1. {v \in ProbeWorkers : v[1] = s /\ worker'[v] = ip} = HeldBy(s, ip) \cup {w}
    BY <1>2, <1>5 DEF HeldBy
  <2>2. Cardinality(HeldBy(s, ip) \cup {w}) = Cardinality(HeldBy(s, ip)) + 1
    BY <1>4, FS_AddElement
  <2> QED
    BY <1>3, <1>5, <2>1, <2>2 DEF Held, One
<1>6. CASE ~(s = w[1] /\ x = ip)
  <2>1. {v \in ProbeWorkers : v[1] = s /\ worker'[v] = ip} = HeldBy(s, ip)
    BY <1>2, <1>6 DEF HeldBy
  <2> QED
    BY <1>3, <1>4, <1>6, <2>1 DEF Held, One
<1> QED
  BY <1>5, <1>6

\* And the worker lets go of it.
LEMMA HeldGiven ==
    ASSUME TypeInv, NEW w \in ProbeWorkers, NEW y, y \notin IPs,
           worker' = [worker EXCEPT ![w] = y], NEW s, NEW ip \in IPs
    PROVE  /\ Held(s, ip) = Held(s, ip)' + One(s = w[1] /\ worker[w] = ip)
           /\ Held(s, ip)' \in Nat
<1>1. worker \in [ProbeWorkers -> IPs \cup {Idle, Exited}]
  BY DEF TypeInv, ProbeTypes
<1>2. \A v \in ProbeWorkers : worker'[v] = IF v = w THEN y ELSE worker[v]
  BY <1>1
<1>3. Held(s, ip)' = Cardinality({v \in ProbeWorkers : v[1] = s /\ worker'[v] = ip})
  BY DEF Held, HeldBy
<1>4. IsFiniteSet(HeldBy(s, ip)) /\ Held(s, ip) \in Nat /\ Held(s, ip) = Cardinality(HeldBy(s, ip))
  BY HeldType DEF Held
<1>5. CASE s = w[1] /\ worker[w] = ip
  <2>1. {v \in ProbeWorkers : v[1] = s /\ worker'[v] = ip} = HeldBy(s, ip) \ {w}
    BY <1>2, <1>5 DEF HeldBy
  <2>2. w \in HeldBy(s, ip)
    BY <1>5 DEF HeldBy
  <2>3. Cardinality(HeldBy(s, ip) \ {w}) = Cardinality(HeldBy(s, ip)) - 1
    BY <1>4, <2>2, FS_RemoveElement
  <2>4. Held(s, ip) # 0
    BY <1>4, <2>2, FS_EmptySet
  <2>5. Held(s, ip)' = Held(s, ip) - 1
    BY <1>3, <1>4, <2>1, <2>3
  <2>6. One(s = w[1] /\ worker[w] = ip) = 1
    BY <1>5 DEF One
  <2> QED
    BY <1>4, <2>4, <2>5, <2>6
<1>6. CASE ~(s = w[1] /\ worker[w] = ip)
  <2>1. {v \in ProbeWorkers : v[1] = s /\ worker'[v] = ip} = HeldBy(s, ip)
    BY <1>2, <1>6 DEF HeldBy
  <2>2. Held(s, ip)' = Held(s, ip)
    BY <1>3, <1>4, <2>1
  <2>3. One(s = w[1] /\ worker[w] = ip) = 0
    BY <1>6 DEF One
  <2> QED
    BY <1>4, <2>2, <2>3
<1> QED
  BY <1>5, <1>6

\* Hosts pass the workers, or are lost to a cancellation.
LEMMA WorkerBalance ==
    ASSUME TypeInv, NEW c \in Seq(IPs), NEW w \in ProbeWorkers,
           TakeTarget(w) \/ EmitResult(w) \/ WorkerEnds(w)
    PROVE  Balanced(c, c)
<1>0. w[1] \in UDPScanners /\ w[1] \in Scanners /\ w[1] # "zgrab"
  BY OSPipelineAssumption DEF UDPScanners, Scanners
<1>1. /\ UNCHANGED feedVars /\ UNCHANGED <<work, lines, pendings>>
      /\ ctxDone' = ctxDone /\ ctxDone \in BOOLEAN
  BY DEF TakeTarget, EmitResult, WorkerEnds, Probing, mergeVars, zgrabVars, TypeInv, FlagTypes
<1>2. Idle \notin IPs /\ Exited \notin IPs
  BY OSPipelineAssumption DEF Idle, Exited
<1> SUFFICES ASSUME NEW s \in Scanners, NEW ip \in IPs
             PROVE  /\ Load(s, ip)' \in Nat /\ Load(s, ip)' <= Load(s, ip)
                    /\ Clean' => Load(s, ip)' = Load(s, ip)
  BY <1>1, BalancedLoads
<1>3. CASE s = "zgrab"
  <2>1. in'[s] = in[s]
    BY <1>0, <1>3 DEF TakeTarget, EmitResult, WorkerEnds, TypeInv, InTypes
  <2>2. Load(s, ip)' = Load(s, ip)
    BY <1>1, <1>3, <2>1 DEF Load, Scanned, Times, One
  <2> QED
    BY <2>2, ScannedType
<1>4. CASE s # "zgrab"
  <2> DEFINE p == One(s \in pendings[ip])
  <2>1. /\ Load(s, ip) = Times(ip, in[s]) + (Held(s, ip) + Times(ip, out[s])) + p
        /\ Times(ip, in[s]) \in Nat /\ Held(s, ip) \in Nat /\ Times(ip, out[s]) \in Nat
        /\ p \in {0, 1} /\ s \in UDPScanners
    BY <1>4, ScannedType, HeldType DEF Load, Scanned, UDPScanners, Scanners
  <2>2. Load(s, ip)' = Times(ip, in'[s]) + (Held(s, ip)' + Times(ip, out'[s])) + p
    BY <1>1, <1>4 DEF Load, Scanned, Times, One
  <2>3. /\ in \in [Scanners -> Seq(IPs)] /\ out \in [UDPScanners -> Seq(IPs)]
        /\ in[s] \in Seq(IPs) /\ out[s] \in Seq(IPs)
    BY <2>1 DEF TypeInv, InTypes, ProbeTypes
  <2> HIDE DEF p
  <2>4. CASE TakeTarget(w)
    <3> DEFINE h == Head(in[w[1]])
               x == IF ctxDone THEN Exited ELSE h
    <3>1. /\ worker[w] = Idle /\ in[w[1]] # <<>> /\ out' = out
          /\ in' = [in EXCEPT ![w[1]] = Tail(@)]
          /\ worker' = [worker EXCEPT ![w] = x]
      BY <2>4 DEF TakeTarget
    <3> HIDE DEF h, x
    <3>2. Held(s, ip)' = Held(s, ip) + One(s = w[1] /\ x = ip)
      <4>1. worker[w] \notin IPs
        BY <1>2, <3>1
      <4>2. worker' = [worker EXCEPT ![w] = x]
        BY <3>1
      <4> QED
        BY <4>1, <4>2, HeldTaken, ZenonT(60)
    <3>3. CASE s = w[1]
      <4>1. /\ Times(ip, in[s]) = Times(ip, in'[s]) + One(h = ip)
            /\ Times(ip, in'[s]) \in Nat /\ One(h = ip) \in {0, 1}
        BY <2>3, <3>1, <3>3, TimesHead DEF h
      <4>2. CASE ctxDone
        <5>1. One(s = w[1] /\ x = ip) = 0
          BY <1>2, <4>2 DEF x, One
        <5>2. ~Clean'
          BY <1>1, <4>2, NotClean
        <5> QED
          BY <2>1, <2>2, <3>1, <3>2, <4>1, <5>1, <5>2
      <4>3. CASE ~ctxDone
        <5>1. One(s = w[1] /\ x = ip) = One(h = ip)
          BY <3>3, <4>3 DEF x, One
        <5> QED
          BY <2>1, <2>2, <3>1, <3>2, <4>1, <5>1
      <4> QED
        BY <4>2, <4>3
    <3>4. CASE s # w[1]
      <4>1. in'[s] = in[s] /\ One(s = w[1] /\ x = ip) = 0
        BY <2>3, <3>1, <3>4 DEF One
      <4> QED
        BY <2>1, <2>2, <3>1, <3>2, <4>1
    <3> QED
      BY <3>3, <3>4
  <2>5. CASE EmitResult(w)
    <3>1. /\ worker[w] \in IPs /\ in' = in
          /\ \/ /\ out' = [out EXCEPT ![w[1]] = Append(out[w[1]], worker[w])]
                /\ worker' = [worker EXCEPT ![w] = Idle]
             \/ ctxDone /\ out' = out /\ worker' = [worker EXCEPT ![w] = Exited]
      BY <2>5 DEF EmitResult, Busy, WithResult
    <3>2. /\ Held(s, ip) = Held(s, ip)' + One(s = w[1] /\ worker[w] = ip)
          /\ Held(s, ip)' \in Nat /\ One(s = w[1] /\ worker[w] = ip) \in {0, 1}
      BY <1>2, <3>1, HeldGiven DEF One
    <3>3. CASE ctxDone /\ out' = out
      BY <1>1, <2>1, <2>2, <3>1, <3>2, <3>3, NotClean
    <3>4. CASE out' = [out EXCEPT ![w[1]] = Append(out[w[1]], worker[w])]
      <4>1. Times(ip, out'[s]) = Times(ip, out[s]) + One(s = w[1] /\ worker[w] = ip)
        <5>1. CASE s = w[1]
          <6>1. out'[s] = Append(out[s], worker[w])
            BY <2>1, <2>3, <3>4, <5>1
          <6>2. Times(ip, Append(out[s], worker[w]))
                    = Times(ip, out[s]) + (IF worker[w] = ip THEN 1 ELSE 0)
            BY <2>3, <3>1, TimesAppend
          <6> QED
            BY <5>1, <6>1, <6>2 DEF One
        <5>2. CASE s # w[1]
          <6>1. out'[s] = out[s]
            BY <2>1, <2>3, <3>4, <5>2
          <6> QED
            BY <2>1, <5>2, <6>1 DEF One
        <5> QED
          BY <5>1, <5>2
      <4> QED
        BY <2>1, <2>2, <3>1, <3>2, <4>1
    <3> QED
      BY <3>1, <3>3, <3>4
  <2>6. CASE WorkerEnds(w)
    <3>1. /\ worker[w] = Idle /\ in' = in /\ out' = out
          /\ worker' = [worker EXCEPT ![w] = Exited]
      BY <2>6 DEF WorkerEnds
    <3>2. Held(s, ip)' = Held(s, ip) + One(s = w[1] /\ Exited = ip)
      <4>1. worker[w] \notin IPs
        BY <1>2, <3>1
      <4>2. worker' = [worker EXCEPT ![w] = Exited]
        BY <3>1
      <4> QED
        BY <4>1, <4>2, HeldTaken, ZenonT(60)
    <3>3. One(s = w[1] /\ Exited = ip) = 0
      BY <1>2 DEF One
    <3> QED
      BY <2>1, <2>2, <3>1, <3>2, <3>3
  <2> QED
    BY <2>4, <2>5, <2>6
<1> QED
  BY <1>3, <1>4

\* A result leaves the channel or the output of its scanner.
LEMMA ScannedTaken ==
    ASSUME TypeInv, NEW s \in Scanners, NEW x,
           UNCHANGED <<work, worker>>,
           \/ s = "zgrab" /\ lines # <<>> /\ lines' = Tail(lines) /\ out' = out /\ x = Head(lines)
           \/ /\ s \in UDPScanners /\ out[s] # <<>> /\ out' = [out EXCEPT ![s] = Tail(@)]
              /\ lines' = lines /\ x = Head(out[s])
    PROVE  \A t \in Scanners, ip \in IPs :
               /\ Scanned(t, ip) = Scanned(t, ip)' + One(t = s /\ ip = x)
               /\ Scanned(t, ip)' \in Nat
<1> SUFFICES ASSUME NEW t \in Scanners, NEW ip \in IPs
             PROVE  /\ Scanned(t, ip) = Scanned(t, ip)' + One(t = s /\ ip = x)
                    /\ Scanned(t, ip)' \in Nat
  OBVIOUS
<1>1. /\ Times(ip, work) \in Nat /\ Times(ip, lines) \in Nat
      /\ t \in UDPScanners => Times(ip, out[t]) \in Nat
      /\ Held(t, ip) \in Nat
  BY ScannedType, HeldType
<1>2. Held(t, ip)' = Held(t, ip) /\ Times(ip, work)' = Times(ip, work)
  BY DEF Held, HeldBy, Times
<1>3. /\ lines \in Seq(IPs \cup {NoIP}) /\ out \in [UDPScanners -> Seq(IPs)]
      /\ UDPScanners = {"dns", "snmp"} /\ Scanners = {"zgrab", "dns", "snmp"}
  BY DEF TypeInv, ZGrabTypes, ProbeTypes, Scanners, UDPScanners
<1>4. CASE t = "zgrab"
  <2>1. Scanned(t, ip) = Times(ip, work) + Times(ip, lines)
    BY <1>4 DEF Scanned
  <2>2. Scanned(t, ip)' = Times(ip, work) + Times(ip, lines')
    BY <1>2, <1>4 DEF Scanned, Times
  <2>3. CASE s = "zgrab"
    <3>1. lines # <<>> /\ lines' = Tail(lines) /\ x = Head(lines)
      BY <1>3, <2>3
    <3>2. /\ Times(ip, lines) = Times(ip, Tail(lines)) + One(Head(lines) = ip)
          /\ Times(ip, Tail(lines)) \in Nat
      BY <1>3, <3>1, TimesHead
    <3>3. One(t = s /\ ip = x) = One(Head(lines) = ip) /\ One(Head(lines) = ip) \in {0, 1}
      BY <1>4, <2>3, <3>1 DEF One
    <3> QED
      BY <1>1, <2>1, <2>2, <3>1, <3>2, <3>3
  <2>4. CASE s # "zgrab"
    <3>1. lines' = lines /\ One(t = s /\ ip = x) = 0
      BY <1>4, <2>4 DEF One
    <3> QED
      BY <1>1, <2>1, <2>2, <3>1
  <2> QED
    BY <2>3, <2>4
<1>5. CASE t # "zgrab"
  <2>1. t \in UDPScanners /\ out[t] \in Seq(IPs)
    BY <1>3, <1>5
  <2>2. Scanned(t, ip) = Held(t, ip) + Times(ip, out[t])
    BY <1>5 DEF Scanned
  <2>3. Scanned(t, ip)' = Held(t, ip) + Times(ip, out'[t])
    BY <1>2, <1>5 DEF Scanned, Times
  <2>4. CASE t = s
    <3>1. out[t] # <<>> /\ out'[t] = Tail(out[t]) /\ x = Head(out[t])
      BY <1>3, <1>5, <2>1, <2>4
    <3>2. /\ Times(ip, out[t]) = Times(ip, Tail(out[t])) + One(Head(out[t]) = ip)
          /\ Times(ip, Tail(out[t])) \in Nat
      BY <2>1, <3>1, TimesHead
    <3>3. One(t = s /\ ip = x) = One(Head(out[t]) = ip) /\ One(Head(out[t]) = ip) \in {0, 1}
      BY <2>4, <3>1 DEF One
    <3> QED
      BY <1>1, <2>1, <2>2, <2>3, <3>1, <3>2, <3>3
  <2>5. CASE t # s
    <3>1. out'[t] = out[t] /\ One(t = s /\ ip = x) = 0
      BY <1>3, <2>1, <2>5 DEF One
    <3> QED
      BY <1>1, <2>1, <2>2, <2>3, <3>1
  <2> QED
    BY <2>4, <2>5
<1> QED
  BY <1>4, <1>5

\* The parts of a share.
LEMMA LoadParts ==
    \A s, ip : /\ Load(s, ip) = Times(ip, in[s]) + Scanned(s, ip) + One(s \in pendings[ip])
               /\ in' = in => Load(s, ip)' = Times(ip, in[s]) + Scanned(s, ip)'
                                                 + One(s \in pendings'[ip])
BY DEF Load, Times, One

\* A host that is missing another result stays in the scanner's share.
LEMMA JoinBalance ==
    ASSUME TypeInv, NEW c \in Seq(IPs), LoadInv(c), Clean' => Clean, in' = in,
           UNCHANGED feedVars,
           NEW s \in Scanners, NEW x \in IPs, Joins(s, x),
           \A t \in Scanners, ip \in IPs :
               /\ Scanned(t, ip) = Scanned(t, ip)' + One(t = s /\ ip = x)
               /\ Scanned(t, ip)' \in Nat
    PROVE  Balanced(c, c)
<1> SUFFICES ASSUME NEW t \in Scanners, NEW ip \in IPs
             PROVE  /\ Load(t, ip)' \in Nat /\ Load(t, ip)' <= Load(t, ip)
                    /\ Clean' => Load(t, ip)' = Load(t, ip)
  BY BalancedLoads
<1> DEFINE n == Times(ip, in[t])
<1>1. /\ Load(t, ip) = n + Scanned(t, ip) + One(t \in pendings[ip])
      /\ Load(t, ip)' = n + Scanned(t, ip)' + One(t \in pendings'[ip])
  BY LoadParts
<1>2. /\ n \in Nat /\ Scanned(t, ip)' \in Nat
      /\ Scanned(t, ip) = Scanned(t, ip)' + One(t = s /\ ip = x)
  BY ScannedType
<1>3. pendings' = [pendings EXCEPT ![x] = pendings[x] \cup {s}]
      /\ pendings \in [IPs -> SUBSET Scanners]
  BY DEF Joins, TypeInv, MergeTypes
<1> HIDE DEF n
<1>4. CASE ~(t = s /\ ip = x)
  <2>1. t \in pendings'[ip] <=> t \in pendings[ip]
    BY <1>3, <1>4
  <2>2. One(t \in pendings'[ip]) = One(t \in pendings[ip]) /\ One(t \in pendings[ip]) \in {0, 1}
        /\ One(t = s /\ ip = x) = 0
    BY <1>4, <2>1 DEF One
  <2> QED
    BY <1>1, <1>2, <2>2
<1>5. CASE t = s /\ ip = x
  <2>1. t \in pendings'[ip]
    BY <1>3, <1>5
  <2>2. One(t \in pendings'[ip]) = 1 /\ One(t = s /\ ip = x) = 1
        /\ One(t \in pendings[ip]) \in {0, 1}
    BY <1>5, <2>1 DEF One
  <2>3. Clean' => One(t \in pendings[ip]) = 0
    <3> SUFFICES ASSUME Clean PROVE One(t \in pendings[ip]) # 1
      BY <2>2
    <3>1. Times(ip, c) + Load(t, ip) <= Fed(t, ip)
      BY DEF LoadInv
    <3>2. rows \in Seq(IPs \cup {NoIP})
      BY RowsType
    <3>3. Times(ip, rows) <= 1
      BY <3>2, TimesDistinct DEF Clean, DistinctTargets
    <3>4. /\ Fed(t, ip) \in Nat /\ Fed(t, ip) <= Times(ip, rows) /\ Times(ip, rows) \in Nat
          /\ Times(ip, c) \in Nat
      BY FedType, TimesType
    <3> QED
      BY <1>1, <1>2, <2>2, <3>1, <3>3, <3>4
  <2> QED
    BY <1>1, <1>2, <2>2, <2>3
<1> QED
  BY <1>4, <1>5

\* One completion more for one host less.
LEMMA Exchange ==
    \A a, b, l, m, f \in Int : b = a + 1 /\ l >= m + 1 =>
        b + m + f <= a + l + f /\ (l = m + 1 => b + m + f = a + l + f)
OBVIOUS

\* A completed host leaves the share of each scanner.
LEMMA CompletionBalance ==
    ASSUME TypeInv, NEW c \in Seq(IPs), LoadInv(c), Clean' => Clean, in' = in,
           UNCHANGED feedVars,
           NEW s \in Scanners, NEW x \in IPs, Completes(s, x),
           \A t \in Scanners, ip \in IPs :
               /\ Scanned(t, ip) = Scanned(t, ip)' + One(t = s /\ ip = x)
               /\ Scanned(t, ip)' \in Nat
    PROVE  Balanced(c, Append(c, x))
<1> DEFINE d == Append(c, x)
<1> SUFFICES ASSUME NEW t \in Scanners, NEW ip \in IPs
             PROVE  /\ Times(ip, d) + Load(t, ip)' + Fed(t, ip)
                           <= Times(ip, c) + Load(t, ip) + Fed(t, ip)'
                    /\ Clean' => Times(ip, d) + Load(t, ip)' + Fed(t, ip)
                           = Times(ip, c) + Load(t, ip) + Fed(t, ip)'
  BY DEF Balanced
<1>0. /\ Times(ip, d) = Times(ip, c) + One(x = ip) /\ Times(ip, c) \in Nat
      /\ Fed(t, ip)' = Fed(t, ip) /\ Fed(t, ip) \in Nat
  BY TimesAppend, TimesType, FedFrame, FedType DEF One
<1> HIDE DEF d
<1> DEFINE n == Times(ip, in[t])
<1>1. /\ Load(t, ip) = n + Scanned(t, ip) + One(t \in pendings[ip])
      /\ Load(t, ip)' = n + Scanned(t, ip)' + One(t \in pendings'[ip])
  BY LoadParts
<1>2. /\ n \in Nat /\ Scanned(t, ip)' \in Nat
      /\ Scanned(t, ip) = Scanned(t, ip)' + One(t = s /\ ip = x)
  BY ScannedType
<1>3. /\ pendings' = [pendings EXCEPT ![x] = {}] /\ pendings[x] \cup {s} = Scanners
      /\ pendings \in [IPs -> SUBSET Scanners]
  BY DEF Completes, TypeInv, MergeTypes
<1> HIDE DEF n
<1>4. CASE ip # x
  <2>1. pendings'[ip] = pendings[ip]
    BY <1>3, <1>4
  <2>2. One(t \in pendings'[ip]) = One(t \in pendings[ip]) /\ One(t \in pendings[ip]) \in {0, 1}
        /\ One(t = s /\ ip = x) = 0 /\ One(x = ip) = 0
    BY <1>4, <2>1 DEF One
  <2> QED
    BY <1>0, <1>1, <1>2, <2>2
<1>5. CASE ip = x
  <2>1. /\ One(x = ip) = 1 /\ One(t \in pendings'[ip]) = 0
    BY <1>3, <1>5 DEF One
  <2>2. CASE t # s
    <3>1. t \in pendings[ip]
      BY <1>3, <1>5, <2>2
    <3>2. One(t \in pendings[ip]) = 1 /\ One(t = s /\ ip = x) = 0
      BY <2>2, <3>1 DEF One
    <3>3. Load(t, ip)' = n + Scanned(t, ip)' /\ Load(t, ip) = n + Scanned(t, ip)' + 1
      BY <1>1, <1>2, <2>1, <3>2
    <3>4. Load(t, ip)' \in Nat /\ Load(t, ip) = Load(t, ip)' + 1
      BY <1>2, <3>3
    <3>5. Times(ip, d) = Times(ip, c) + 1
      BY <1>0, <2>1
    <3>6. /\ Times(ip, d) \in Int /\ Times(ip, c) \in Int /\ Load(t, ip)' \in Int
          /\ Load(t, ip) \in Int /\ Fed(t, ip) \in Int /\ Load(t, ip) >= Load(t, ip)' + 1
      BY <1>0, <3>4, <3>5
    <3>7. Times(ip, d) + Load(t, ip)' + Fed(t, ip) = Times(ip, c) + Load(t, ip) + Fed(t, ip)
      BY <3>4, <3>5, <3>6, Exchange
    <3>8. Times(ip, d) + Load(t, ip)' + Fed(t, ip) \in Int
      BY <3>6
    <3> QED
      BY <1>0, <3>7, <3>8
  <2>3. CASE t = s
    <3>1. One(t = s /\ ip = x) = 1 /\ One(t \in pendings[ip]) \in {0, 1}
      BY <1>5, <2>3 DEF One
    <3>2. Clean' => One(t \in pendings[ip]) = 0
      <4> SUFFICES ASSUME Clean PROVE One(t \in pendings[ip]) # 1
        BY <3>1
      <4>1. Times(ip, c) + Load(t, ip) <= Fed(t, ip)
        BY DEF LoadInv
      <4>2. rows \in Seq(IPs \cup {NoIP})
        BY RowsType
      <4>3. Times(ip, rows) <= 1
        BY <4>2, TimesDistinct DEF Clean, DistinctTargets
      <4>4. /\ Fed(t, ip) \in Nat /\ Fed(t, ip) <= Times(ip, rows) /\ Times(ip, rows) \in Nat
            /\ Times(ip, c) \in Nat
        BY FedType, TimesType
      <4> QED
        BY <1>1, <1>2, <3>1, <4>1, <4>3, <4>4
    <3>3. Load(t, ip)' = n + Scanned(t, ip)'
          /\ Load(t, ip) = n + Scanned(t, ip)' + 1 + One(t \in pendings[ip])
      BY <1>1, <1>2, <2>1, <3>1
    <3>4. Load(t, ip)' \in Nat /\ Load(t, ip) = Load(t, ip)' + 1 + One(t \in pendings[ip])
      BY <1>2, <3>1, <3>3
    <3>5. Times(ip, d) = Times(ip, c) + 1
      BY <1>0, <2>1
    <3>6. Load(t, ip) >= Load(t, ip)' + 1
      BY <3>1, <3>4
    <3>7. Clean' => Load(t, ip) = Load(t, ip)' + 1
      BY <3>2, <3>4
    <3>8. Load(t, ip) \in Nat
      BY ScannedType
    <3>9. /\ Times(ip, d) \in Int /\ Times(ip, c) \in Int /\ Load(t, ip)' \in Int
          /\ Load(t, ip) \in Int /\ Fed(t, ip) \in Int
      BY <1>0, <3>4, <3>5, <3>8
    <3>10. Times(ip, d) + Load(t, ip)' + Fed(t, ip) <= Times(ip, c) + Load(t, ip) + Fed(t, ip)
      BY <3>5, <3>6, <3>9, Exchange
    <3>11. Clean' => Times(ip, d) + Load(t, ip)' + Fed(t, ip)
                         = Times(ip, c) + Load(t, ip) + Fed(t, ip)
      BY <3>5, <3>6, <3>7, <3>9, Exchange
    <3> QED
      BY <1>0, <3>10, <3>11
  <2> QED
    BY <2>2, <2>3
<1> QED
  BY <1>4, <1>5

\* What happens to the completed hosts when a goroutine of the merger takes a result.
LEMMA MergeBalance ==
    ASSUME TypeInv, NEW c \in Seq(IPs), LoadInv(c), Clean' => Clean,
           NEW s \in Scanners, Merging, Merges(s)
    PROVE  \/ Balanced(c, c) /\ UNCHANGED <<merging, totals, coverage>>
           \/ \E x \in IPs : Completes(s, x) /\ Balanced(c, Append(c, x))
<1>1. UNCHANGED <<in, work, worker>> /\ UNCHANGED feedVars
  BY DEF Merging
<1>2. CASE UNCHANGED joinVars /\ s = "zgrab" /\ lines # <<>> /\ lines' = Tail(lines)
           /\ out' = out /\ Head(lines) = NoIP
  <2>1. ASSUME NEW t \in Scanners, NEW ip \in IPs PROVE Load(t, ip)' = Load(t, ip)
    <3>1. /\ Scanned(t, ip) = Scanned(t, ip)' + One(t = s /\ ip = NoIP)
          /\ Scanned(t, ip)' \in Nat
      BY <1>1, <1>2, ScannedTaken
    <3>2. One(t = s /\ ip = NoIP) = 0
      BY OSPipelineAssumption DEF One
    <3>3. Scanned(t, ip)' = Scanned(t, ip)
      BY <3>1, <3>2
    <3>4. pendings' = pendings
      BY <1>2 DEF joinVars
    <3> QED
      BY <1>1, <3>3, <3>4, LoadParts
  <2>2. \A t \in Scanners, ip \in IPs : Load(t, ip) \in Nat
    BY ScannedType
  <2>3. \A t \in Scanners, ip \in IPs :
               /\ Load(t, ip)' \in Nat /\ Load(t, ip)' <= Load(t, ip)
               /\ Clean' => Load(t, ip)' = Load(t, ip)
    BY <2>1, <2>2
  <2>4. Balanced(c, c)
    BY <1>1, <2>3, BalancedLoads
  <2> QED
    BY <1>2, <2>4 DEF joinVars
<1>3. CASE /\ s = "zgrab" /\ lines # <<>> /\ lines' = Tail(lines) /\ out' = out
           /\ Head(lines) \in IPs /\ (Joins(s, Head(lines)) \/ Completes(s, Head(lines)))
  <2> DEFINE x == Head(lines)
  <2>1. \A t \in Scanners, ip \in IPs :
               /\ Scanned(t, ip) = Scanned(t, ip)' + One(t = s /\ ip = x)
               /\ Scanned(t, ip)' \in Nat
    BY <1>1, <1>3, ScannedTaken
  <2>2. x \in IPs /\ (Joins(s, x) \/ Completes(s, x))
    BY <1>3
  <2> HIDE DEF x
  <2>3. CASE Joins(s, x)
    BY <1>1, <2>1, <2>2, <2>3, JoinBalance DEF Joins
  <2>4. CASE Completes(s, x)
    BY <1>1, <2>1, <2>2, <2>4, CompletionBalance
  <2> QED
    BY <2>2, <2>3, <2>4
<1>4. CASE /\ s \in UDPScanners /\ out[s] # <<>> /\ out' = [out EXCEPT ![s] = Tail(@)]
           /\ lines' = lines
           /\ Head(out[s]) \in IPs /\ (Joins(s, Head(out[s])) \/ Completes(s, Head(out[s])))
  <2> DEFINE x == Head(out[s])
  <2>1. \A t \in Scanners, ip \in IPs :
               /\ Scanned(t, ip) = Scanned(t, ip)' + One(t = s /\ ip = x)
               /\ Scanned(t, ip)' \in Nat
    BY <1>1, <1>4, ScannedTaken
  <2>2. x \in IPs /\ (Joins(s, x) \/ Completes(s, x))
    BY <1>4
  <2> HIDE DEF x
  <2>3. CASE Joins(s, x)
    BY <1>1, <2>1, <2>2, <2>3, JoinBalance DEF Joins
  <2>4. CASE Completes(s, x)
    BY <1>1, <2>1, <2>2, <2>4, CompletionBalance
  <2> QED
    BY <2>2, <2>3, <2>4
<1> QED
  BY <1>2, <1>3, <1>4 DEF Merges

-----------------------------------------------------------------------------
(* Records on their way *)

\* When one goroutine of the merger moves, the others send what they sent.
LEMMA OneSender ==
    ASSUME NEW s \in Scanners, \A t \in Scanners \ {s} : merging'[t] = merging[t]
    PROVE  /\ Sends' + SendsOne(s) = Sends + SendsOne(s)'
           /\ \A ip : Sending(ip)' + SendingOf(s, ip) = Sending(ip) + SendingOf(s, ip)'
           /\ Sends' \in Nat /\ \A ip : Sending(ip)' \in Nat
           /\ SendsOne(s)' = One(merging'[s].at = "send")
           /\ \A ip : SendingOf(s, ip)' = One(merging'[s].at = "send" /\ merging'[s].ip = ip)
<1>1. \A t \in Scanners \ {s} : SendsOne(t)' = SendsOne(t)
  BY DEF SendsOne, One
<1>2. \A t \in Scanners \ {s} : \A ip : SendingOf(t, ip)' = SendingOf(t, ip)
  BY DEF SendingOf, One
<1>3. /\ \A t : SendsOne(t)' \in {0, 1} /\ SendsOne(t) \in {0, 1}
      /\ \A t, ip : SendingOf(t, ip)' \in {0, 1} /\ SendingOf(t, ip) \in {0, 1}
  BY DEF SendsOne, SendingOf, One
<1>4. s = "zgrab" \/ s = "dns" \/ s = "snmp"
  BY DEF Scanners
<1>5. /\ "zgrab" \in Scanners /\ "dns" \in Scanners /\ "snmp" \in Scanners
  BY DEF Scanners
<1>6. Sends' + SendsOne(s) = Sends + SendsOne(s)' /\ Sends' \in Nat
  <2>1. /\ Sends' = SendsOne("zgrab")' + SendsOne("dns")' + SendsOne("snmp")'
        /\ Sends = SendsOne("zgrab") + SendsOne("dns") + SendsOne("snmp")
    BY DEF Sends
  <2>2. CASE s = "zgrab"
    BY <1>1, <1>3, <1>5, <2>1, <2>2
  <2>3. CASE s = "dns"
    BY <1>1, <1>3, <1>5, <2>1, <2>3
  <2>4. CASE s = "snmp"
    BY <1>1, <1>3, <1>5, <2>1, <2>4
  <2> QED
    BY <1>4, <2>2, <2>3, <2>4
<1>7. ASSUME NEW ip
      PROVE  /\ Sending(ip)' + SendingOf(s, ip) = Sending(ip) + SendingOf(s, ip)'
             /\ Sending(ip)' \in Nat
  <2>1. /\ Sending(ip)' = SendingOf("zgrab", ip)' + SendingOf("dns", ip)' + SendingOf("snmp", ip)'
        /\ Sending(ip) = SendingOf("zgrab", ip) + SendingOf("dns", ip) + SendingOf("snmp", ip)
    BY DEF Sending
  <2>2. /\ \A t \in Scanners \ {s} : SendingOf(t, ip)' = SendingOf(t, ip)
        /\ \A t : SendingOf(t, ip)' \in {0, 1} /\ SendingOf(t, ip) \in {0, 1}
    BY <1>2, <1>3
  <2>3. CASE s = "zgrab"
    BY <1>5, <2>1, <2>2, <2>3
  <2>4. CASE s = "dns"
    BY <1>5, <2>1, <2>2, <2>4
  <2>5. CASE s = "snmp"
    BY <1>5, <2>1, <2>2, <2>5
  <2> QED
    BY <1>4, <2>3, <2>4, <2>5
<1>8. SendsOne(s)' = One(merging'[s].at = "send")
      /\ \A ip : SendingOf(s, ip)' = One(merging'[s].at = "send" /\ merging'[s].ip = ip)
  BY DEF SendsOne, SendingOf, One
<1> QED
  BY <1>6, <1>7, <1>8

\* A record leaves the channel, or moves on to the batch or the file.
LEMMA Shrinks ==
    \A a, b, c \in Nat, o \in {0, 1} :
        a + b + c <= a + b + (c + o) /\ a + b + c \in Nat
OBVIOUS

\* The same when it goes from the channel to the batch or on to the file.
LEMMA Moves ==
    \A a, b, c \in Nat, o \in {0, 1} :
        /\ a + (b + o) + c = a + b + (c + o)
        /\ (a + (b + o)) + 0 + c = a + b + (c + o)
OBVIOUS

\* One record more behind or before.
LEMMA OneMore ==
    \A a, b, c \in Nat :
        /\ (a + b + c) + 1 = a + b + (c + 1)
        /\ a + (b + 1) + (c - 1) = a + b + c
        /\ (a + (b + 1)) + 0 + (c - 1) = a + b + c
OBVIOUS

\* Nothing happens to a record.
RecordsKept ==
    /\ Sends' = Sends /\ \A ip : Sending(ip)' = Sending(ip)
    /\ totals' = totals /\ coverage' = coverage
    /\ outRecords'.queue = outRecords.queue
    /\ writer'.batch = writer.batch /\ writer'.written = writer.written
    /\ writer'.err = writer.err

\* A step that touches no record keeps what is known of records.
LEMMA RecordFrame ==
    ASSUME RecordsKept
    PROVE  /\ \A c : RecordInv(c) => RecordInv(c)'
           /\ CountInv => CountInv'
<1>1. \A ip : Recorded(ip)' = Recorded(ip)
  BY DEF RecordsKept, Recorded, Times
<1>2. \A c : RecordInv(c) => RecordInv(c)'
  BY <1>1 DEF RecordInv, RecordsKept, Times, HasEvidence
<1>3. CountInv => CountInv'
  BY DEF CountInv, RecordsKept
<1> QED
  BY <1>2, <1>3

\* Goroutines that do not move send what they sent.
LEMMA MergingFrame ==
    ASSUME merging' = merging
    PROVE  Sends' = Sends /\ \A ip : Sending(ip)' = Sending(ip)
BY DEF Sends, SendsOne, Sending, SendingOf, One

\* What is known of the counters.
LEMMA CountTypes ==
    ASSUME TypeInv
    PROVE  /\ totals.emitted \in Nat /\ totals.dropped \in Nat
           /\ coverage.without \in Nat /\ coverage.resolved \in Nat
           /\ coverage.ambiguous \in Nat /\ coverage.unclassified \in Nat
           /\ totals \in [emitted : Nat, dropped : Nat]
           /\ coverage \in [without : Nat, resolved : Nat, ambiguous : Nat, unclassified : Nat]
           /\ Len(writer.written) \in Nat /\ Len(writer.batch) \in Nat
           /\ Len(outRecords.queue) \in Nat
BY DEF TypeInv, MergeTypes, RecordTypes

\* A completed host is counted, and has a record to be sent when there is evidence.
LEMMA CompletionRecord ==
    ASSUME TypeInv, NEW c \in Seq(IPs), RecordInv(c), CountInv, NEW s \in Scanners,
           NEW x \in IPs, merging[s].at = "range", Completes(s, x), UNCHANGED <<outRecords, writer>>
    PROVE  RecordInv(Append(c, x))' /\ CountInv'
<1> DEFINE d == Append(c, x)
<1>1. /\ Len(d) = Len(c) + 1 /\ Len(c) \in Nat
      /\ \A ip \in IPs : Times(ip, d) = Times(ip, c) + One(x = ip) /\ Times(ip, c) \in Nat
  BY TimesAppend, TimesType DEF One
<1> HIDE DEF d
<1>2. /\ Len(c) = totals.emitted + totals.dropped + Sends
      /\ coverage.without = totals.dropped
      /\ coverage.resolved + coverage.ambiguous + coverage.unclassified = totals.emitted + Sends
      /\ ~writer.err => totals.emitted =
             Len(writer.written) + Len(writer.batch) + Len(outRecords.queue)
  BY DEF RecordInv, CountInv
<1>3. /\ totals.emitted \in Nat /\ totals.dropped \in Nat
      /\ coverage.without \in Nat /\ coverage.resolved \in Nat
      /\ coverage.ambiguous \in Nat /\ coverage.unclassified \in Nat
      /\ totals \in [emitted : Nat, dropped : Nat]
      /\ coverage \in [without : Nat, resolved : Nat, ambiguous : Nat, unclassified : Nat]
      /\ Sends \in Nat
  BY CountTypes, SendTypes
<1>4. /\ writer'.err = writer.err /\ writer'.written = writer.written
      /\ writer'.batch = writer.batch /\ outRecords'.queue = outRecords.queue
  OBVIOUS
<1>5. \A ip : Recorded(ip)' = Recorded(ip)
  BY <1>4 DEF Recorded, Times
<1>6. merging \in [Scanners -> [at : {"range", "send", "done"}, ip : IPs \cup {NoIP}]]
  BY DEF TypeInv, MergeTypes
<1>7. SendsOne(s) = 0 /\ \A ip : SendingOf(s, ip) = 0
  BY DEF SendsOne, SendingOf, One
<1>8. CASE HasEvidence(x)
  <2>1. /\ merging' = [merging EXCEPT ![s] = [at |-> "send", ip |-> x]] /\ totals' = totals
        /\ \E status \in {"unclassified", "ambiguous", "resolved"} :
               coverage' = [coverage EXCEPT ![status] = @ + 1]
    BY <1>8 DEF Completes
  <2>2. merging'[s] = [at |-> "send", ip |-> x] /\ \A t \in Scanners \ {s} : merging'[t] = merging[t]
    BY <1>6, <2>1
  <2>3. /\ Sends' = Sends + 1
        /\ \A ip : Sending(ip)' = Sending(ip) + One(x = ip)
    <3>1. /\ Sends' + SendsOne(s) = Sends + SendsOne(s)'
          /\ \A ip : Sending(ip)' + SendingOf(s, ip) = Sending(ip) + SendingOf(s, ip)'
          /\ Sends' \in Nat /\ \A ip : Sending(ip)' \in Nat
          /\ SendsOne(s)' = One(merging'[s].at = "send")
          /\ \A ip : SendingOf(s, ip)' = One(merging'[s].at = "send" /\ merging'[s].ip = ip)
      BY <2>2, OneSender
    <3>2. SendsOne(s)' = 1 /\ \A ip : SendingOf(s, ip)' = One(x = ip)
      BY <2>2, <3>1 DEF One
    <3>3. Sends' = Sends + 1
      BY <1>3, <1>7, <3>1, <3>2
    <3>4. ASSUME NEW ip PROVE Sending(ip)' = Sending(ip) + One(x = ip)
      <4>1. Sending(ip)' + 0 = Sending(ip) + One(x = ip) /\ Sending(ip)' \in Nat
        BY <1>7, <3>1, <3>2
      <4> QED
        BY <4>1
    <3> QED
      BY <3>3, <3>4
  <2>4. coverage'.without = coverage.without
        /\ coverage'.resolved + coverage'.ambiguous + coverage'.unclassified
               = coverage.resolved + coverage.ambiguous + coverage.unclassified + 1
    <3>1. CASE coverage' = [coverage EXCEPT !["unclassified"] = @ + 1]
      BY <1>3, <3>1
    <3>2. CASE coverage' = [coverage EXCEPT !["ambiguous"] = @ + 1]
      BY <1>3, <3>2
    <3>3. CASE coverage' = [coverage EXCEPT !["resolved"] = @ + 1]
      BY <1>3, <3>3
    <3> QED
      BY <2>1, <3>1, <3>2, <3>3
  <2>5. CountInv'
    <3>1. coverage'.without = totals'.dropped
      BY <1>2, <2>1, <2>4
    <3>2. coverage'.resolved + coverage'.ambiguous + coverage'.unclassified
              = totals'.emitted + Sends'
      <4>1. coverage'.resolved + coverage'.ambiguous + coverage'.unclassified
                = (totals.emitted + Sends) + 1
        BY <1>2, <2>4
      <4>2. (totals.emitted + Sends) + 1 = totals.emitted + (Sends + 1)
        BY <1>3
      <4> QED
        BY <2>1, <2>3, <4>1, <4>2
    <3>3. ~writer'.err => totals'.emitted =
              Len(writer'.written) + Len(writer'.batch) + Len(outRecords'.queue)
      BY <1>2, <1>4, <2>1
    <3> QED
      BY <3>1, <3>2, <3>3 DEF CountInv
  <2>6. Len(d) = totals'.emitted + totals'.dropped + Sends'
    <3>1. Len(d) = (totals.emitted + totals.dropped + Sends) + 1
      BY <1>1, <1>2
    <3>2. (totals.emitted + totals.dropped + Sends) + 1
              = totals.emitted + totals.dropped + (Sends + 1)
      BY <1>3
    <3> QED
      BY <2>1, <2>3, <3>1, <3>2
  <2>7. ASSUME NEW ip \in IPs
        PROVE  LET due == IF HasEvidence(ip) THEN Times(ip, d) ELSE 0 IN
               /\ Recorded(ip)' + Sending(ip)' <= due
               /\ ~writer'.err => Recorded(ip)' + Sending(ip)' = due
    <3>1. LET due == IF HasEvidence(ip) THEN Times(ip, c) ELSE 0 IN
               /\ Recorded(ip) + Sending(ip) <= due
               /\ ~writer.err => Recorded(ip) + Sending(ip) = due
      BY DEF RecordInv
    <3>2. Recorded(ip) \in Nat /\ Sending(ip) \in Nat /\ Recorded(ip)' = Recorded(ip)
          /\ Sending(ip)' = Sending(ip) + One(x = ip)
          /\ Times(ip, d) = Times(ip, c) + One(x = ip) /\ Times(ip, c) \in Nat
      BY <1>1, <1>5, <2>3, RecordedType, SendTypes
    <3>3. CASE x = ip
      <4>1. HasEvidence(ip) /\ One(x = ip) = 1
        BY <1>8, <3>3 DEF One
      <4> QED
        BY <1>4, <3>1, <3>2, <4>1
    <3>4. CASE x # ip
      <4>1. One(x = ip) = 0
        BY <3>4 DEF One
      <4> QED
        BY <1>4, <3>1, <3>2, <4>1
    <3> QED
      BY <3>3, <3>4
  <2>8. RecordInv(d)'
    BY <2>6, <2>7 DEF RecordInv, Times, HasEvidence
  <2> QED
    BY <2>5, <2>8 DEF d
<1>9. CASE ~HasEvidence(x)
  <2>1. /\ merging' = merging /\ totals' = [totals EXCEPT !.dropped = @ + 1]
        /\ coverage' = [coverage EXCEPT !["without"] = @ + 1]
    BY <1>9 DEF Completes
  <2>2. /\ Sends' = Sends /\ \A ip : Sending(ip)' = Sending(ip)
    BY <2>1, MergingFrame
  <2>3. /\ totals'.emitted = totals.emitted /\ totals'.dropped = totals.dropped + 1
        /\ coverage'.without = coverage.without + 1
        /\ coverage'.resolved = coverage.resolved /\ coverage'.ambiguous = coverage.ambiguous
        /\ coverage'.unclassified = coverage.unclassified
    BY <1>3, <2>1
  <2>4. CountInv'
    BY <1>2, <1>3, <1>4, <2>2, <2>3 DEF CountInv
  <2>5. Len(d) = totals'.emitted + totals'.dropped + Sends'
    BY <1>1, <1>2, <1>3, <2>2, <2>3
  <2>6. ASSUME NEW ip \in IPs
        PROVE  LET due == IF HasEvidence(ip) THEN Times(ip, d) ELSE 0 IN
               /\ Recorded(ip)' + Sending(ip)' <= due
               /\ ~writer'.err => Recorded(ip)' + Sending(ip)' = due
    <3>1. LET due == IF HasEvidence(ip) THEN Times(ip, c) ELSE 0 IN
               /\ Recorded(ip) + Sending(ip) <= due
               /\ ~writer.err => Recorded(ip) + Sending(ip) = due
      BY DEF RecordInv
    <3>2. HasEvidence(ip) => Times(ip, d) = Times(ip, c)
      <4>1. HasEvidence(ip) => One(x = ip) = 0
        BY <1>9 DEF One
      <4> QED
        BY <1>1, <4>1
    <3> QED
      BY <1>4, <1>5, <2>2, <3>1, <3>2
  <2>7. RecordInv(d)'
    BY <2>5, <2>6 DEF RecordInv, Times, HasEvidence
  <2> QED
    BY <2>4, <2>7 DEF d
<1> QED
  BY <1>8, <1>9

\* The record goes into the channel.
LEMMA SendRecordStep ==
    ASSUME TypeInv, NEW c \in Seq(IPs), RecordInv(c), CountInv, NEW s \in Scanners, SendRecord(s)
    PROVE  RecordInv(c)' /\ CountInv'
<1> DEFINE x == merging[s].ip
<1>1. /\ merging[s].at = "send" /\ outRecords' = [outRecords EXCEPT !.queue = Append(@, x)]
      /\ totals' = [totals EXCEPT !.emitted = @ + 1]
      /\ merging' = [merging EXCEPT ![s] = Ranging]
      /\ coverage' = coverage /\ writer' = writer
  BY DEF SendRecord, Merging
<1>2. /\ x \in IPs /\ outRecords \in [queue : Seq(IPs), closed : BOOLEAN]
      /\ merging \in [Scanners -> [at : {"range", "send", "done"}, ip : IPs \cup {NoIP}]]
  BY <1>1 DEF TypeInv, MergeTypes, RecordTypes
<1>3. /\ Len(c) = totals.emitted + totals.dropped + Sends
      /\ coverage.without = totals.dropped
      /\ coverage.resolved + coverage.ambiguous + coverage.unclassified = totals.emitted + Sends
      /\ ~writer.err => totals.emitted =
             Len(writer.written) + Len(writer.batch) + Len(outRecords.queue)
  BY DEF RecordInv, CountInv
<1>4. /\ totals.emitted \in Nat /\ totals.dropped \in Nat
      /\ totals \in [emitted : Nat, dropped : Nat]
      /\ Len(writer.written) \in Nat /\ Len(writer.batch) \in Nat
      /\ Len(outRecords.queue) \in Nat
      /\ Sends \in Nat
  BY CountTypes, SendTypes
<1>5. merging'[s] = Ranging /\ \A t \in Scanners \ {s} : merging'[t] = merging[t]
  BY <1>1, <1>2
<1>6. SendsOne(s) = 1 /\ \A ip : SendingOf(s, ip) = One(x = ip)
  BY <1>1 DEF SendsOne, SendingOf, One
<1> HIDE DEF x
<1>7. /\ Sends = Sends' + 1 /\ Sends' \in Nat
      /\ \A ip : Sending(ip) = Sending(ip)' + One(x = ip) /\ Sending(ip)' \in Nat
  <2>1. /\ Sends' + SendsOne(s) = Sends + SendsOne(s)'
        /\ \A ip : Sending(ip)' + SendingOf(s, ip) = Sending(ip) + SendingOf(s, ip)'
        /\ Sends' \in Nat /\ \A ip : Sending(ip)' \in Nat
        /\ SendsOne(s)' = One(merging'[s].at = "send")
        /\ \A ip : SendingOf(s, ip)' = One(merging'[s].at = "send" /\ merging'[s].ip = ip)
    BY <1>5, OneSender
  <2>2. SendsOne(s)' = 0 /\ \A ip : SendingOf(s, ip)' = 0
    BY <1>5, <2>1 DEF One, Ranging
  <2>3. Sends = Sends' + 1
    BY <1>4, <1>6, <2>1, <2>2
  <2>4. ASSUME NEW ip PROVE Sending(ip) = Sending(ip)' + One(x = ip)
    <3>1. Sending(ip)' + One(x = ip) = Sending(ip) + 0 /\ Sending(ip) \in Nat
      BY <1>6, <2>1, <2>2, SendTypes
    <3> QED
      BY <3>1
  <2> QED
    BY <2>1, <2>3, <2>4
<1>8. /\ totals'.emitted = totals.emitted + 1 /\ totals'.dropped = totals.dropped
      /\ outRecords'.queue = Append(outRecords.queue, x)
      /\ Len(outRecords'.queue) = Len(outRecords.queue) + 1
  BY <1>1, <1>2, <1>4
<1>9. CountInv'
  <2>1. totals'.emitted + Sends' = totals.emitted + Sends
    BY <1>4, <1>7, <1>8
  <2>2. ~writer.err => totals'.emitted =
             Len(writer.written) + Len(writer.batch) + Len(outRecords'.queue)
    <3>1. ~writer.err => totals'.emitted =
              (Len(writer.written) + Len(writer.batch) + Len(outRecords.queue)) + 1
      BY <1>3, <1>8
    <3>2. (Len(writer.written) + Len(writer.batch) + Len(outRecords.queue)) + 1
              = Len(writer.written) + Len(writer.batch) + (Len(outRecords.queue) + 1)
      BY <1>4, OneMore, ZenonT(60)
    <3> QED
      BY <1>8, <3>1, <3>2
  <2> QED
    BY <1>1, <1>3, <1>8, <2>1, <2>2 DEF CountInv
<1>10. Len(c) = totals'.emitted + totals'.dropped + Sends'
  BY <1>3, <1>4, <1>7, <1>8
<1>11. ASSUME NEW ip \in IPs
       PROVE  LET due == IF HasEvidence(ip) THEN Times(ip, c) ELSE 0 IN
              /\ Recorded(ip)' + Sending(ip)' <= due
              /\ ~writer'.err => Recorded(ip)' + Sending(ip)' = due
  <2>1. LET due == IF HasEvidence(ip) THEN Times(ip, c) ELSE 0 IN
              /\ Recorded(ip) + Sending(ip) <= due
              /\ ~writer.err => Recorded(ip) + Sending(ip) = due
    BY DEF RecordInv
  <2>2. Times(ip, outRecords'.queue) = Times(ip, outRecords.queue) + One(x = ip)
    BY <1>2, <1>8, TimesAppend DEF One
  <2>3. /\ Times(ip, writer.written) \in Nat /\ Times(ip, writer.batch) \in Nat
        /\ Times(ip, outRecords.queue) \in Nat /\ One(x = ip) \in {0, 1}
    BY RecordedType DEF One
  <2>4. Recorded(ip)' = Times(ip, writer.written) + Times(ip, writer.batch)
                            + Times(ip, outRecords'.queue)
    BY <1>1 DEF Recorded, Times
  <2>5. Recorded(ip) = Times(ip, writer.written) + Times(ip, writer.batch)
                            + Times(ip, outRecords.queue)
    BY DEF Recorded
  <2>6. Recorded(ip)' = Recorded(ip) + One(x = ip)
    BY <2>2, <2>3, <2>4, <2>5
  <2>7. Sending(ip) = Sending(ip)' + One(x = ip) /\ Sending(ip)' \in Nat /\ Recorded(ip) \in Nat
    BY <1>7, RecordedType
  <2>8. Recorded(ip)' + Sending(ip)' = Recorded(ip) + Sending(ip)
    BY <2>3, <2>6, <2>7
  <2> QED
    BY <1>1, <2>1, <2>8
<1>12. RecordInv(c)'
  BY <1>10, <1>11 DEF RecordInv, Times, HasEvidence
<1> QED
  BY <1>9, <1>12

\* The writer keeps the records of a host, or gives up.
LEMMA WriterKeeps ==
    ASSUME TypeInv, NEW c \in Seq(IPs), RecordInv(c), CountInv,
           UNCHANGED <<merging, totals, coverage>>,
           \A ip \in IPs : Recorded(ip)' <= Recorded(ip) /\ Recorded(ip)' \in Nat,
           writer.err => writer'.err,
           \/ writer'.err
           \/ /\ \A ip \in IPs : Recorded(ip)' = Recorded(ip)
              /\ Len(writer'.written) + Len(writer'.batch) + Len(outRecords'.queue)
                     = Len(writer.written) + Len(writer.batch) + Len(outRecords.queue)
    PROVE  RecordInv(c)' /\ CountInv'
<1>1. Sends' = Sends /\ \A ip : Sending(ip)' = Sending(ip)
  BY MergingFrame
<1>2. CountInv'
  BY <1>1 DEF CountInv
<1>3. Len(c) = totals'.emitted + totals'.dropped + Sends'
  BY <1>1 DEF RecordInv
<1>4. ASSUME NEW ip \in IPs
      PROVE  LET due == IF HasEvidence(ip) THEN Times(ip, c) ELSE 0 IN
             /\ Recorded(ip)' + Sending(ip)' <= due
             /\ ~writer'.err => Recorded(ip)' + Sending(ip)' = due
  <2> DEFINE due == IF HasEvidence(ip) THEN Times(ip, c) ELSE 0
  <2>1. /\ Recorded(ip) + Sending(ip) <= due
        /\ ~writer.err => Recorded(ip) + Sending(ip) = due
    BY DEF RecordInv
  <2>2. Recorded(ip) \in Nat /\ Sending(ip) \in Nat /\ due \in Nat
    BY RecordedType, SendTypes, TimesType
  <2> HIDE DEF due
  <2>3. Recorded(ip)' + Sending(ip)' <= due
    BY <1>1, <2>1, <2>2
  <2>4. ~writer'.err => Recorded(ip)' + Sending(ip)' = due
    BY <1>1, <2>1
  <2> QED
    BY <2>3, <2>4 DEF due
<1>5. RecordInv(c)'
  BY <1>3, <1>4 DEF RecordInv, Times, HasEvidence
<1> QED
  BY <1>2, <1>5

\* drainWriter takes a record from the channel.
LEMMA AppendStep ==
    ASSUME TypeInv, NEW c \in Seq(IPs), RecordInv(c), CountInv, AppendRecord
    PROVE  RecordInv(c)' /\ CountInv'
<1> DEFINE h == Head(outRecords.queue)
           q == Tail(outRecords.queue)
<1>1. PICK batch \in Seq(IPs) :
           /\ batch = Append(writer.batch, h)
           /\ Len(batch) = Len(writer.batch) + 1 /\ h \in IPs
           /\ q \in Seq(IPs) /\ outRecords.queue \in Seq(IPs) /\ outRecords.queue # <<>>
           /\ Len(q) = Len(outRecords.queue) - 1
           /\ outRecords' = [outRecords EXCEPT !.queue = q]
           /\ \/ writer.err /\ writer' = writer
              \/ ~writer.err /\ writer' = [writer EXCEPT !.batch = batch]
              \/ ~writer.err /\ writer' = [writer EXCEPT !.batch = <<>>, !.written = @ \o batch]
              \/ ~writer.err /\ writer' = [writer EXCEPT !.batch = batch, !.err = TRUE]
  BY AppendCases
<1> HIDE DEF h, q
<1>2. /\ writer \in [batch : Seq(IPs), written : Seq(IPs), err : BOOLEAN, done : BOOLEAN]
      /\ outRecords \in [queue : Seq(IPs), closed : BOOLEAN]
  BY DEF TypeInv, RecordTypes
<1>3. UNCHANGED <<merging, totals, coverage>>
  BY DEF AppendRecord, Writing, mergeVars
<1>4. outRecords'.queue = q
  BY <1>1, <1>2
<1>5. ASSUME NEW ip \in IPs
      PROVE  /\ Times(ip, outRecords.queue) = Times(ip, q) + One(h = ip)
             /\ Times(ip, batch) = Times(ip, writer.batch) + One(h = ip)
             /\ Times(ip, writer.written \o batch) = Times(ip, writer.written) + Times(ip, batch)
             /\ Times(ip, q) \in Nat /\ One(h = ip) \in {0, 1} /\ Times(ip, writer.batch) \in Nat
             /\ Times(ip, writer.written) \in Nat
             /\ Recorded(ip) = Times(ip, writer.written) + Times(ip, writer.batch)
                                   + Times(ip, outRecords.queue)
             /\ Recorded(ip)' = Times(ip, writer'.written) + Times(ip, writer'.batch) + Times(ip, q)
             /\ Recorded(ip) \in Nat
  <2>1. Times(ip, outRecords.queue) = Times(ip, q) + One(h = ip) /\ One(h = ip) \in {0, 1}
        /\ Times(ip, q) \in Nat
    BY <1>1, TimesHead DEF h, q
  <2>2. Times(ip, batch) = Times(ip, writer.batch) + One(h = ip)
    BY <1>1, <1>2, TimesAppend DEF One
  <2>3. Times(ip, writer.written \o batch) = Times(ip, writer.written) + Times(ip, batch)
    BY <1>2, TimesConcat
  <2>4. Times(ip, writer.batch) \in Nat /\ Times(ip, writer.written) \in Nat
    BY <1>2, TimesType
  <2>5. Recorded(ip)' = Times(ip, writer'.written) + Times(ip, writer'.batch) + Times(ip, q)
    BY <1>4 DEF Recorded, Times
  <2> QED
    BY <2>1, <2>2, <2>3, <2>4, <2>5, RecordedType DEF Recorded
<1>6. Len(writer.written) \in Nat /\ Len(writer.batch) \in Nat /\ Len(outRecords.queue) \in Nat
  BY CountTypes
<1>11. ASSUME writer'.written = writer.written, writer'.batch = batch, NEW ip \in IPs
       PROVE  Recorded(ip)' = Recorded(ip) /\ Recorded(ip) \in Nat
  <2>1. Recorded(ip)' = Times(ip, writer.written) + (Times(ip, writer.batch) + One(h = ip))
                            + Times(ip, q)
    BY <1>5, <1>11
  <2>2. Recorded(ip) = Times(ip, writer.written) + Times(ip, writer.batch)
                           + (Times(ip, q) + One(h = ip))
    BY <1>5
  <2>3. /\ Times(ip, q) \in Nat /\ One(h = ip) \in {0, 1} /\ Times(ip, writer.batch) \in Nat
        /\ Times(ip, writer.written) \in Nat /\ Recorded(ip) \in Nat
    BY <1>5
  <2>4. Times(ip, writer.written) + (Times(ip, writer.batch) + One(h = ip)) + Times(ip, q)
            = Times(ip, writer.written) + Times(ip, writer.batch) + (Times(ip, q) + One(h = ip))
    BY <2>3, Moves, ZenonT(60)
  <2> QED
    BY <2>1, <2>2, <2>3, <2>4
<1>7. CASE writer.err /\ writer' = writer
  <2>1. ASSUME NEW ip \in IPs PROVE Recorded(ip)' <= Recorded(ip) /\ Recorded(ip)' \in Nat
    <3>1. Recorded(ip)' = Times(ip, writer.written) + Times(ip, writer.batch) + Times(ip, q)
      BY <1>5, <1>7
    <3>2. Recorded(ip) = Times(ip, writer.written) + Times(ip, writer.batch)
                             + (Times(ip, q) + One(h = ip))
      BY <1>5
    <3>3. /\ Times(ip, q) \in Nat /\ One(h = ip) \in {0, 1} /\ Times(ip, writer.batch) \in Nat
          /\ Times(ip, writer.written) \in Nat
      BY <1>5
    <3> QED
      BY <3>1, <3>2, <3>3, Shrinks
  <2> QED
    BY <1>3, <1>7, <2>1, WriterKeeps
<1>8. CASE ~writer.err /\ writer' = [writer EXCEPT !.batch = batch]
  <2>1. writer'.batch = batch /\ writer'.written = writer.written
    BY <1>2, <1>8
  <2>2. \A ip \in IPs : Recorded(ip)' = Recorded(ip) /\ Recorded(ip) \in Nat
    BY <1>11, <2>1
  <2>3. Len(writer'.written) + Len(writer'.batch) + Len(outRecords'.queue)
            = Len(writer.written) + Len(writer.batch) + Len(outRecords.queue)
    <3>1. Len(writer.written) + (Len(writer.batch) + 1) + (Len(outRecords.queue) - 1)
              = Len(writer.written) + Len(writer.batch) + Len(outRecords.queue)
      BY <1>6, OneMore, ZenonT(60)
    <3> QED
      BY <1>1, <1>4, <2>1, <3>1
  <2>4. \A ip \in IPs : Recorded(ip)' <= Recorded(ip) /\ Recorded(ip)' \in Nat
    BY <2>2
  <2> QED
    BY <1>3, <1>8, <2>2, <2>3, <2>4, WriterKeeps
<1>9. CASE ~writer.err /\ writer' = [writer EXCEPT !.batch = <<>>, !.written = @ \o batch]
  <2>1. writer'.batch = <<>> /\ writer'.written = writer.written \o batch
    BY <1>2, <1>9
  <2>2. ASSUME NEW ip \in IPs PROVE Recorded(ip)' = Recorded(ip) /\ Recorded(ip) \in Nat
    <3>1. Recorded(ip)' = Times(ip, writer.written \o batch) + 0 + Times(ip, q)
      BY <1>5, <2>1, TimesEmpty
    <3>2. Times(ip, writer.written \o batch)
              = Times(ip, writer.written) + (Times(ip, writer.batch) + One(h = ip))
      BY <1>5
    <3>3. Recorded(ip) = Times(ip, writer.written) + Times(ip, writer.batch)
                             + (Times(ip, q) + One(h = ip))
      BY <1>5
    <3>4. /\ Times(ip, q) \in Nat /\ One(h = ip) \in {0, 1} /\ Times(ip, writer.batch) \in Nat
          /\ Times(ip, writer.written) \in Nat /\ Recorded(ip) \in Nat
      BY <1>5
    <3> QED
      BY <3>1, <3>2, <3>3, <3>4, Moves
  <2>3. Len(writer'.written) + Len(writer'.batch) + Len(outRecords'.queue)
            = Len(writer.written) + Len(writer.batch) + Len(outRecords.queue)
    <3>1. Len(writer.written \o batch) = Len(writer.written) + Len(batch) /\ Len(<<>>) = 0
      BY <1>2
    <3>2. (Len(writer.written) + (Len(writer.batch) + 1)) + 0 + (Len(outRecords.queue) - 1)
              = Len(writer.written) + Len(writer.batch) + Len(outRecords.queue)
      BY <1>6, OneMore, ZenonT(60)
    <3> QED
      BY <1>1, <1>4, <2>1, <3>1, <3>2
  <2>4. \A ip \in IPs : Recorded(ip)' <= Recorded(ip) /\ Recorded(ip)' \in Nat
    BY <2>2
  <2> QED
    BY <1>3, <1>9, <2>2, <2>3, <2>4, WriterKeeps
<1>10. CASE ~writer.err /\ writer' = [writer EXCEPT !.batch = batch, !.err = TRUE]
  <2>1. writer'.batch = batch /\ writer'.written = writer.written /\ writer'.err
    BY <1>2, <1>10
  <2>2. \A ip \in IPs : Recorded(ip)' = Recorded(ip) /\ Recorded(ip) \in Nat
    BY <1>11, <2>1
  <2>3. \A ip \in IPs : Recorded(ip)' <= Recorded(ip) /\ Recorded(ip)' \in Nat
    BY <2>2
  <2> QED
    BY <1>3, <2>1, <2>3, WriterKeeps
<1> QED
  BY <1>1, <1>7, <1>8, <1>9, <1>10

\* Writer.Close writes the rest.
LEMMA CloseStep ==
    ASSUME TypeInv, NEW c \in Seq(IPs), RecordInv(c), CountInv, CloseFiles
    PROVE  RecordInv(c)' /\ CountInv'
<1>1. /\ UNCHANGED <<merging, totals, coverage>> /\ outRecords' = outRecords
      /\ \/ writer' = writer
         \/ writer' = [writer EXCEPT !.batch = <<>>, !.written = @ \o writer.batch]
  BY DEF CloseFiles, Ending
<1>2. writer \in [batch : Seq(IPs), written : Seq(IPs), err : BOOLEAN, done : BOOLEAN]
  BY DEF TypeInv, RecordTypes
<1>3. CASE writer' = writer
  <2>1. RecordsKept
    BY <1>1, <1>3, MergingFrame DEF RecordsKept
  <2> QED
    BY <2>1, RecordFrame
<1>4. CASE writer' = [writer EXCEPT !.batch = <<>>, !.written = @ \o writer.batch]
  <2>1. writer'.batch = <<>> /\ writer'.written = writer.written \o writer.batch
        /\ writer'.err = writer.err
    BY <1>2, <1>4
  <2>2. ASSUME NEW ip \in IPs PROVE Recorded(ip)' = Recorded(ip) /\ Recorded(ip) \in Nat
    <3>1. Recorded(ip)' = Times(ip, writer'.written) + Times(ip, writer'.batch)
                              + Times(ip, outRecords.queue)
      BY <1>1 DEF Recorded, Times
    <3>2. Times(ip, writer.written \o writer.batch)
              = Times(ip, writer.written) + Times(ip, writer.batch)
      BY <1>2, TimesConcat
    <3>3. /\ Times(ip, writer.written) \in Nat /\ Times(ip, writer.batch) \in Nat
          /\ Times(ip, outRecords.queue) \in Nat /\ Recorded(ip) \in Nat
      BY RecordedType
    <3> QED
      BY <2>1, <3>1, <3>2, <3>3, TimesEmpty DEF Recorded
  <2>3. Len(writer'.written) + Len(writer'.batch) + Len(outRecords'.queue)
            = Len(writer.written) + Len(writer.batch) + Len(outRecords.queue)
    <3>1. Len(writer.written \o writer.batch) = Len(writer.written) + Len(writer.batch)
          /\ Len(<<>>) = 0
      BY <1>2
    <3>2. Len(writer.written) \in Nat /\ Len(writer.batch) \in Nat /\ Len(outRecords.queue) \in Nat
      BY CountTypes
    <3> QED
      BY <1>1, <2>1, <3>1, <3>2
  <2>4. \A ip \in IPs : Recorded(ip)' <= Recorded(ip) /\ Recorded(ip)' \in Nat
    BY <2>2
  <2> QED
    BY <1>1, <2>1, <2>2, <2>3, <2>4, WriterKeeps
<1> QED
  BY <1>1, <1>3, <1>4

-----------------------------------------------------------------------------
(* Every step keeps the history of completions *)

\* A goroutine of the merger that ends has no record in its hands.
LEMMA DoneMoves ==
    ASSUME TypeInv, NEW s \in Scanners, merging[s].at = "range",
           merging' = [merging EXCEPT ![s].at = "done"]
    PROVE  Sends' = Sends /\ \A ip : Sending(ip)' = Sending(ip)
<1>1. merging \in [Scanners -> [at : {"range", "send", "done"}, ip : IPs \cup {NoIP}]]
  BY DEF TypeInv, MergeTypes
<1>2. \A t \in Scanners \ {s} : merging'[t] = merging[t]
  BY <1>1
<1>3. merging'[s].at = "done"
  BY <1>1
<1>4. ASSUME NEW t \in Scanners
      PROVE  SendsOne(t)' = SendsOne(t) /\ \A ip : SendingOf(t, ip)' = SendingOf(t, ip)
  <2>1. CASE t = s
    <3>1. SendsOne(t) = 0 /\ \A ip : SendingOf(t, ip) = 0
      BY <2>1 DEF SendsOne, SendingOf, One
    <3>2. SendsOne(t)' = 0 /\ \A ip : SendingOf(t, ip)' = 0
      BY <1>3, <2>1 DEF SendsOne, SendingOf, One
    <3> QED
      BY <3>1, <3>2
  <2>2. CASE t # s
    BY <1>2, <2>2 DEF SendsOne, SendingOf, One
  <2> QED
    BY <2>1, <2>2
<1>5. "zgrab" \in Scanners /\ "dns" \in Scanners /\ "snmp" \in Scanners
  BY DEF Scanners
<1>6. Sends' = Sends
  BY <1>4, <1>5 DEF Sends
<1>7. \A ip : Sending(ip)' = Sending(ip)
  BY <1>4, <1>5 DEF Sending
<1> QED
  BY <1>6, <1>7

\* Steps of the feeder, of scanners and of the end, which leave the records alone.
LEMMA QuietRecords ==
    ASSUME TypeInv,
           \/ StartUp \/ StartFails \/ Interrupt \/ Returned
           \/ SkipEmptyRow \/ SendTarget \/ FeedEnds \/ FeedFails
           \/ WriteZGrabInput \/ CloseZGrabInput \/ ZGrabAnswers \/ ZGrabEnds \/ ZGrabDies
           \/ \E w \in ProbeWorkers : TakeTarget(w) \/ EmitResult(w) \/ WorkerEnds(w)
           \/ \E s \in Scanners : EndOfStream(s) \/ ParseFails
           \/ WriterEnds \/ WaitFeeder \/ WaitScanners \/ Report
    PROVE  RecordsKept
<1>1. CASE \/ StartUp \/ StartFails \/ Interrupt \/ Returned
           \/ SkipEmptyRow \/ SendTarget \/ FeedEnds \/ FeedFails
  <2>1. UNCHANGED <<merging, totals, coverage, outRecords, writer>>
    BY <1>1 DEF StartUp, StartFails, Interrupt, Returned, SkipEmptyRow, SendTarget, FeedEnds,
                FeedFails, Feeding, mergeVars, vars
  <2> QED
    BY <2>1, MergingFrame DEF RecordsKept
<1>2. CASE WriteZGrabInput \/ CloseZGrabInput \/ ZGrabAnswers \/ ZGrabEnds \/ ZGrabDies
  <2>1. UNCHANGED <<merging, totals, coverage, outRecords, writer>>
    BY <1>2 DEF WriteZGrabInput, CloseZGrabInput, ZGrabAnswers, ZGrabEnds, ZGrabDies, ZGrabbing,
                mergeVars
  <2> QED
    BY <2>1, MergingFrame DEF RecordsKept
<1>3. CASE \E w \in ProbeWorkers : TakeTarget(w) \/ EmitResult(w) \/ WorkerEnds(w)
  <2>1. UNCHANGED <<merging, totals, coverage, outRecords, writer>>
    BY <1>3 DEF TakeTarget, EmitResult, WorkerEnds, Probing, mergeVars
  <2> QED
    BY <2>1, MergingFrame DEF RecordsKept
<1>4. CASE \E s \in Scanners : EndOfStream(s) \/ ParseFails
  <2>1. PICK s \in Scanners :
            merging[s].at = "range" /\ merging' = [merging EXCEPT ![s].at = "done"]
    BY <1>4 DEF EndOfStream, ParseFails, Integrating, Scanners
  <2>2. UNCHANGED <<totals, coverage, outRecords, writer>>
    BY <1>4 DEF EndOfStream, ParseFails, Integrating, Merging
  <2> QED
    BY <2>1, <2>2, DoneMoves DEF RecordsKept
<1>5. CASE WriterEnds
  <2>1. UNCHANGED <<merging, totals, coverage, outRecords>>
        /\ writer' = [writer EXCEPT !.done = TRUE]
    BY <1>5 DEF WriterEnds, Writing, mergeVars
  <2>2. writer \in [batch : Seq(IPs), written : Seq(IPs), err : BOOLEAN, done : BOOLEAN]
    BY DEF TypeInv, RecordTypes
  <2>3. writer'.batch = writer.batch /\ writer'.written = writer.written
        /\ writer'.err = writer.err
    BY <2>1, <2>2
  <2> QED
    BY <2>1, <2>3, MergingFrame DEF RecordsKept
<1>6. CASE WaitFeeder \/ WaitScanners \/ Report
  <2>1. UNCHANGED <<merging, totals, coverage, writer>>
    BY <1>6 DEF WaitFeeder, WaitScanners, Report, Ending
  <2>2. outRecords' = outRecords \/ outRecords' = [outRecords EXCEPT !.closed = TRUE]
    BY <1>6 DEF WaitFeeder, WaitScanners, Report
  <2>3. outRecords \in [queue : Seq(IPs), closed : BOOLEAN]
    BY DEF TypeInv, RecordTypes
  <2>4. outRecords'.queue = outRecords.queue
    BY <2>2, <2>3
  <2> QED
    BY <2>1, <2>4, MergingFrame DEF RecordsKept
<1> QED
  BY <1>1, <1>2, <1>3, <1>4, <1>5, <1>6

\* Steps that move no host.
LEMMA QuietLoads ==
    ASSUME TypeInv, NEW c \in Seq(IPs),
           \/ StartUp \/ StartFails \/ Interrupt \/ Returned
           \/ \E s \in Scanners : EndOfStream(s) \/ ParseFails \/ SendRecord(s)
           \/ AppendRecord \/ WriterEnds
           \/ WaitFeeder \/ WaitScanners \/ CloseFiles \/ Report
    PROVE  Balanced(c, c)
<1>1. UNCHANGED <<in, work, lines, worker, out, pendings>> /\ UNCHANGED feedVars
  <2>1. CASE StartUp \/ StartFails \/ Interrupt \/ Returned
    BY <2>1 DEF StartUp, StartFails, Interrupt, Returned, feedVars, zgrabVars, mergeVars, vars
  <2>2. CASE \E s \in Scanners : EndOfStream(s) \/ ParseFails \/ SendRecord(s)
    BY <2>2 DEF EndOfStream, ParseFails, SendRecord, Integrating, Merging, feedVars
  <2>3. CASE AppendRecord \/ WriterEnds
    BY <2>3 DEF AppendRecord, WriterEnds, Writing, feedVars, zgrabVars, mergeVars
  <2>4. CASE WaitFeeder \/ WaitScanners \/ CloseFiles \/ Report
    BY <2>4 DEF WaitFeeder, WaitScanners, CloseFiles, Report, Ending, feedVars, zgrabVars
  <2> QED
    BY <2>1, <2>2, <2>3, <2>4
<1> QED
  BY <1>1, BalancedFrame

\* What a step does to the completed hosts.
LEMMA Completed ==
    ASSUME TypeInv, NEW c \in Seq(IPs), LoadInv(c), RecordInv(c), CountInv, Next
    PROVE  \E d \in Seq(IPs) : Balanced(c, d) /\ RecordInv(d)' /\ CountInv'
<1>0. Clean' => Clean
  BY CleanBefore
<1>1. CASE \/ StartUp \/ StartFails \/ Interrupt \/ Returned
           \/ WriterEnds \/ WaitFeeder \/ WaitScanners \/ Report
           \/ \E s \in Scanners : EndOfStream(s) \/ ParseFails
  <2>1. RecordsKept
    BY <1>1, QuietRecords
  <2>2. Balanced(c, c)
    BY <1>1, QuietLoads
  <2> QED
    BY <2>1, <2>2, RecordFrame
<1>2. CASE SkipEmptyRow \/ SendTarget \/ FeedEnds \/ FeedFails
  <2>1. RecordsKept
    BY <1>2, QuietRecords
  <2>2. Balanced(c, c)
    BY <1>2, FeederBalance
  <2> QED
    BY <2>1, <2>2, RecordFrame
<1>3. CASE WriteZGrabInput \/ CloseZGrabInput \/ ZGrabAnswers \/ ZGrabEnds \/ ZGrabDies
  <2>1. RecordsKept
    BY <1>3, QuietRecords
  <2>2. Balanced(c, c)
    BY <1>3, ZGrabBalance
  <2> QED
    BY <2>1, <2>2, RecordFrame
<1>4. CASE \E w \in ProbeWorkers : TakeTarget(w) \/ EmitResult(w) \/ WorkerEnds(w)
  <2>1. RecordsKept
    BY <1>4, QuietRecords
  <2>2. Balanced(c, c)
    BY <1>4, WorkerBalance
  <2> QED
    BY <2>1, <2>2, RecordFrame
<1>5. ASSUME NEW s \in Scanners, Integrates(s)
      PROVE  \E d \in Seq(IPs) : Balanced(c, d) /\ RecordInv(d)' /\ CountInv'
  <2>1. Merges(s) /\ merging[s].at = "range" /\ Merging /\ outRecords' = outRecords
    BY <1>5, IntegratesEffect
  <2>2. UNCHANGED <<outRecords, writer>>
    BY <2>1 DEF Merging
  <2>3. \/ Balanced(c, c) /\ UNCHANGED <<merging, totals, coverage>>
        \/ \E x \in IPs : Completes(s, x) /\ Balanced(c, Append(c, x))
    BY <1>0, <2>1, MergeBalance
  <2>4. CASE Balanced(c, c) /\ UNCHANGED <<merging, totals, coverage>>
    <3>1. RecordsKept
      BY <2>2, <2>4, MergingFrame DEF RecordsKept
    <3> QED
      BY <2>4, <3>1, RecordFrame
  <2>5. ASSUME NEW x \in IPs, Completes(s, x), Balanced(c, Append(c, x))
        PROVE  \E d \in Seq(IPs) : Balanced(c, d) /\ RecordInv(d)' /\ CountInv'
    <3>1. RecordInv(Append(c, x))' /\ CountInv'
      BY <2>1, <2>2, <2>5, CompletionRecord
    <3>2. Append(c, x) \in Seq(IPs)
      OBVIOUS
    <3> DEFINE d == Append(c, x)
    <3>3. d \in Seq(IPs) /\ Balanced(c, d) /\ RecordInv(d)' /\ CountInv'
      BY <2>5, <3>1, <3>2
    <3> HIDE DEF d
    <3> QED
      BY <3>3
  <2> QED
    BY <2>3, <2>4, <2>5
<1>6. CASE \E s \in Scanners : SendRecord(s)
  BY <1>6, QuietLoads, SendRecordStep
<1>7. CASE AppendRecord
  BY <1>7, QuietLoads, AppendStep
<1>8. CASE CloseFiles
  BY <1>8, QuietLoads, CloseStep
<1> QED
  BY <1>1, <1>2, <1>3, <1>4, <1>5, <1>6, <1>7, <1>8, StepKinds

\* No step completes more hosts than were fed, or loses a record on its way.
LEMMA HistoryStep ==
    ASSUME TypeInv, HistoryInv, CountInv, Next
    PROVE  HistoryInv' /\ CountInv'
<1>1. PICK c \in Seq(IPs) : LoadInv(c) /\ RecordInv(c)
  BY DEF HistoryInv
<1>2. PICK d \in Seq(IPs) : Balanced(c, d) /\ RecordInv(d)' /\ CountInv'
  BY <1>1, Completed
<1>3. TypeInv' /\ (Clean' => Clean)
  BY TypeStep, CleanBefore
<1>4. LoadInv(d)'
  BY <1>1, <1>2, <1>3, BalancedKeeps
<1>5. IPs' = IPs
  OBVIOUS
<1>6. HistoryInv'
  BY <1>2, <1>4 DEF HistoryInv
<1> QED
  BY <1>2, <1>6

-----------------------------------------------------------------------------
(* The end of the run *)

\* Nothing happens after the return.
LEMMA NothingAfter ==
    ASSUME Next, main = "returned"
    PROVE  UNCHANGED vars
<1>1. ~Running
  BY DEF Running
<1>2. ~(StartUp \/ StartFails \/ Interrupt)
  BY <1>1 DEF StartUp, StartFails, Interrupt
<1>3. ~(SkipEmptyRow \/ SendTarget \/ FeedEnds \/ FeedFails)
  BY <1>1 DEF SkipEmptyRow, SendTarget, FeedEnds, FeedFails, Feeding
<1>4. ~(WriteZGrabInput \/ CloseZGrabInput \/ ZGrabAnswers \/ ZGrabEnds \/ ZGrabDies)
  BY <1>1 DEF WriteZGrabInput, CloseZGrabInput, ZGrabAnswers, ZGrabEnds, ZGrabDies, ZGrabbing
<1>5. ~\E w \in ProbeWorkers : TakeTarget(w) \/ EmitResult(w) \/ WorkerEnds(w)
  BY <1>1 DEF TakeTarget, EmitResult, WorkerEnds, Probing
<1>6. ~\E s \in Scanners : Integrates(s) \/ EndOfStream(s) \/ ParseFails \/ SendRecord(s)
  BY <1>1 DEF Integrates, IntegrateZGrab, IntegrateUDP, EndOfStream, ParseFails, SendRecord,
              Integrating, Merging
<1>7. ~(AppendRecord \/ WriterEnds)
  BY <1>1 DEF AppendRecord, WriterEnds, Writing
<1>8. ~(WaitFeeder \/ WaitScanners \/ CloseFiles \/ Report)
  BY DEF WaitFeeder, WaitScanners, CloseFiles, Report
<1>9. Returned
  BY <1>2, <1>3, <1>4, <1>5, <1>6, <1>7, <1>8, StepKinds
<1> QED
  BY <1>9 DEF Returned

\* While a goroutine of the merger is at work, nothing behind it has ended.
LEMMA MergerOpen ==
    ASSUME StageInv, NEW s \in Scanners, merging[s].at # "done"
    PROVE  /\ main \notin {"writer", "report"} /\ ~outRecords.closed /\ ~writer.done
BY DEF StageInv

\* A step of the merger happens before the stages behind it end.
LEMMA StageMerge ==
    ASSUME TypeInv, StageInv, main # "returned", NEW s \in Scanners,
           Integrates(s) \/ EndOfStream(s) \/ ParseFails \/ SendRecord(s)
    PROVE  StageInv'
<1>1. outRecords \in [queue : Seq(IPs), closed : BOOLEAN]
  BY DEF TypeInv, RecordTypes
<1>2. /\ \E t \in Scanners : merging[t].at # "done"
      /\ outRecords'.closed = outRecords.closed
      /\ main' = main /\ zgrab' = zgrab /\ writer' = writer
  <2>1. CASE Integrates(s)
    <3>1. merging[s].at = "range" /\ outRecords' = outRecords /\ Merging
      BY <2>1, IntegratesEffect
    <3> QED
      BY <3>1 DEF Merging
  <2>2. CASE EndOfStream(s) \/ ParseFails
    BY <2>2 DEF EndOfStream, ParseFails, Integrating, Merging, Scanners
  <2>3. CASE SendRecord(s)
    BY <1>1, <2>3 DEF SendRecord, Merging
  <2> QED
    BY <2>1, <2>2, <2>3
<1>3. main \notin {"writer", "report"} /\ ~outRecords.closed /\ ~writer.done
  BY <1>2, MergerOpen
<1> QED
  BY <1>2, <1>3 DEF StageInv

\* The stages end in their order.
LEMMA StageStep ==
    ASSUME TypeInv, StageInv, main # "returned", Next
    PROVE  StageInv'
<1>1. /\ outRecords \in [queue : Seq(IPs), closed : BOOLEAN]
      /\ writer \in [batch : Seq(IPs), written : Seq(IPs), err : BOOLEAN, done : BOOLEAN]
      /\ errors \in [scanner : BOOLEAN, zgrab : BOOLEAN, close : BOOLEAN]
  BY DEF TypeInv, RecordTypes, FlagTypes
<1>2. CASE StartUp \/ StartFails
  <2>1. main = "start" /\ UNCHANGED <<outRecords, writer, errors>>
        /\ (main' = "feed" \/ (main' = "returned" /\ zgrab' # "running"))
    <3>1. CASE StartUp
      <4>1. main = "start" /\ main' = "feed"
        BY <3>1 DEF StartUp
      <4>2. UNCHANGED <<outRecords, writer, errors>>
        BY <3>1 DEF StartUp, mergeVars, feedVars
      <4> QED
        BY <4>1, <4>2
    <3>2. CASE StartFails
      <4>1. zgrab' \in {"none", "killed"}
        BY <3>2 DEF StartFails
      <4>2. zgrab' # "running"
        BY <4>1
      <4>3. main = "start" /\ main' = "returned"
        BY <3>2 DEF StartFails
      <4>4. UNCHANGED <<outRecords, writer, errors>>
        BY <3>2 DEF StartFails, mergeVars, feedVars
      <4> QED
        BY <4>2, <4>3, <4>4
    <3> QED
      BY <1>2, <3>1, <3>2
  <2>2. ~outRecords.closed /\ ~writer.done
    BY <2>1 DEF StageInv
  <2> QED
    BY <2>1, <2>2 DEF StageInv
<1>3. CASE \/ Interrupt \/ SkipEmptyRow \/ SendTarget \/ FeedEnds \/ FeedFails
           \/ CloseZGrabInput
           \/ \E w \in ProbeWorkers : TakeTarget(w) \/ EmitResult(w) \/ WorkerEnds(w)
  <2>1. UNCHANGED <<main, zgrab, merging, outRecords, writer, errors>>
    BY <1>3 DEF Interrupt, SkipEmptyRow, SendTarget, FeedEnds, FeedFails, Feeding,
                CloseZGrabInput, ZGrabbing, TakeTarget, EmitResult, WorkerEnds, Probing,
                zgrabVars, mergeVars
  <2> QED
    BY <2>1 DEF StageInv
<1>4. CASE Returned
  BY <1>4 DEF Returned
<1>5. CASE WriteZGrabInput \/ ZGrabAnswers \/ ZGrabEnds \/ ZGrabDies
  <2>1. UNCHANGED <<main, merging, outRecords, writer>> /\ main # "start"
    BY <1>5 DEF WriteZGrabInput, ZGrabAnswers, ZGrabEnds, ZGrabDies, ZGrabbing, Running,
                mergeVars
  <2>2. errors'.close = errors.close
    BY <1>1, <1>5 DEF WriteZGrabInput, ZGrabAnswers, ZGrabEnds, ZGrabDies, ReportScannerError
  <2>3. zgrab' = zgrab \/ zgrab' # "running"
    BY <1>5 DEF WriteZGrabInput, ZGrabAnswers, ZGrabEnds, ZGrabDies
  <2> QED
    BY <2>1, <2>2, <2>3 DEF StageInv
<1>6. CASE \E s \in Scanners : Integrates(s) \/ EndOfStream(s) \/ ParseFails \/ SendRecord(s)
  BY <1>6, StageMerge
<1>7. CASE AppendRecord
  <2>1. /\ UNCHANGED <<main, zgrab, merging, errors>> /\ outRecords.queue # <<>>
        /\ outRecords'.closed = outRecords.closed
    BY <1>1, <1>7 DEF AppendRecord, Writing, zgrabVars, mergeVars
  <2>2. writer'.done = writer.done
    <3>1. \/ writer' = writer
          \/ \E batch : \/ writer' = [writer EXCEPT !.batch = batch]
                        \/ writer' = [writer EXCEPT !.batch = <<>>, !.written = @ \o batch]
                        \/ writer' = [writer EXCEPT !.batch = batch, !.err = TRUE]
      BY <1>7 DEF AppendRecord
    <3> QED
      BY <1>1, <3>1
  <2>3. ~writer.done
    BY <2>1 DEF StageInv
  <2> QED
    BY <2>1, <2>2, <2>3 DEF StageInv
<1>8. CASE WriterEnds
  <2>1. /\ UNCHANGED <<main, zgrab, merging, errors, outRecords>>
        /\ outRecords.queue = <<>> /\ outRecords.closed
        /\ writer' = [writer EXCEPT !.done = TRUE]
    BY <1>8 DEF WriterEnds, Writing, zgrabVars, mergeVars
  <2>2. writer'.done /\ writer'.batch = writer.batch
    BY <1>1, <2>1
  <2> QED
    BY <2>1, <2>2 DEF StageInv
<1>9. CASE WaitFeeder
  <2>1. main = "feed" /\ main' = "scanners"
        /\ UNCHANGED <<zgrab, merging, errors, outRecords, writer>>
    BY <1>9 DEF WaitFeeder, Ending, zgrabVars
  <2> QED
    BY <2>1 DEF StageInv
<1>10. CASE WaitScanners
  <2>1. /\ main = "scanners" /\ main' = "writer" /\ UNCHANGED <<zgrab, merging, writer>>
        /\ zgrab # "running" /\ \A s \in Scanners : merging[s].at = "done"
    BY <1>10 DEF WaitScanners, ScannersDone, Ending, zgrabVars
  <2>2. ~writer.done
    BY <2>1 DEF StageInv
  <2> QED
    BY <2>1, <2>2 DEF StageInv
<1>11. CASE CloseFiles
  <2>1. /\ main = "writer" /\ main' = "report" /\ writer.done
        /\ UNCHANGED <<zgrab, merging, outRecords>>
    BY <1>11 DEF CloseFiles, Ending, zgrabVars
  <2>2. PICK closes \in BOOLEAN :
            /\ IF closes
               THEN writer' = [writer EXCEPT !.batch = <<>>, !.written = @ \o writer.batch]
               ELSE writer' = writer
            /\ errors' = [errors EXCEPT !.close = ~closes]
    BY <1>11 DEF CloseFiles
  <2>3. writer'.done = writer.done /\ (closes => writer'.batch = <<>>)
    BY <1>1, <2>2
  <2>4. errors'.close <=> ~closes
    BY <1>1, <2>2
  <2> QED
    BY <2>1, <2>3, <2>4 DEF StageInv
<1>12. CASE Report
  <2>1. /\ main = "report" /\ main' = "returned"
        /\ UNCHANGED <<zgrab, merging, errors, outRecords, writer>>
    BY <1>12 DEF Report, Ending, zgrabVars
  <2> QED
    BY <2>1 DEF StageInv
<1> QED
  BY <1>2, <1>3, <1>4, <1>5, <1>6, <1>7, <1>8, <1>9, <1>10, <1>11, <1>12, StepKinds

-----------------------------------------------------------------------------
(* What success means *)

\* When the run returns without error, everything the merger completed is in the file.
LEMMA ReportAccounts ==
    ASSUME TypeInv, HistoryInv, CountInv, StageInv, main = "report",
           ~(ObservationsIncomplete \/ StageFailed \/ TargetsMissing)
    PROVE  /\ \A ip \in IPs :
                  Times(ip, writer.written) = IF HasEvidence(ip) THEN Times(ip, rows) ELSE 0
           /\ coverage.resolved + coverage.ambiguous + coverage.unclassified
                  = Len(writer.written)
           /\ coverage.without + Len(writer.written) = Len(rows)
           /\ observed.count = Len(rows)
<1>1. /\ ~writer.err /\ ~errors.close /\ observed.count = Len(rows)
      /\ totals.emitted + totals.dropped = Len(rows)
  BY DEF ObservationsIncomplete, StageFailed, TargetsMissing
<1>2. /\ \A s \in Scanners : merging[s].at = "done"
      /\ outRecords.queue = <<>> /\ writer.batch = <<>>
  BY <1>1 DEF StageInv
<1>3. Sends = 0 /\ \A ip : Sending(ip) = 0
  <2>1. /\ \A s \in Scanners : SendsOne(s) = 0
        /\ \A s \in Scanners : \A ip : SendingOf(s, ip) = 0
    BY <1>2 DEF SendsOne, SendingOf, One
  <2> QED
    BY <2>1 DEF Sends, Sending, Scanners
<1>4. PICK c \in Seq(IPs) : LoadInv(c) /\ RecordInv(c)
  BY DEF HistoryInv
<1>5. /\ totals.emitted \in Nat /\ totals.dropped \in Nat /\ Len(writer.written) \in Nat
  BY CountTypes
<1>6. Len(c) = Len(rows)
  <2>1. Len(c) = totals.emitted + totals.dropped + 0
    BY <1>3, <1>4 DEF RecordInv
  <2> QED
    BY <1>1, <1>5, <2>1
<1>7. ASSUME NEW ip \in IPs PROVE Times(ip, c) <= Times(ip, rows)
  <2>1. "zgrab" \in Scanners
    BY DEF Scanners
  <2>2. Times(ip, c) + Load("zgrab", ip) <= Fed("zgrab", ip)
    BY <1>4, <2>1 DEF LoadInv
  <2>3. /\ Load("zgrab", ip) \in Nat /\ Fed("zgrab", ip) \in Nat /\ Times(ip, c) \in Nat
        /\ Fed("zgrab", ip) <= Times(ip, rows) /\ Times(ip, rows) \in Nat
    BY <2>1, ScannedType, FedType, TimesType
  <2> QED
    BY <2>2, <2>3
<1>8. \A ip \in IPs : Times(ip, c) = Times(ip, rows)
  BY <1>6, <1>7, RowsType, SameCount
<1>9. ASSUME NEW ip \in IPs
      PROVE  Times(ip, writer.written) = IF HasEvidence(ip) THEN Times(ip, rows) ELSE 0
  <2>1. Recorded(ip) + Sending(ip) = IF HasEvidence(ip) THEN Times(ip, c) ELSE 0
    BY <1>1, <1>4 DEF RecordInv
  <2>2. Recorded(ip) = Times(ip, writer.written) + 0 + 0
    BY <1>2, TimesEmpty DEF Recorded
  <2>3. Times(ip, writer.written) \in Nat
    BY RecordedType
  <2>4. Recorded(ip) + Sending(ip) = Times(ip, writer.written)
    BY <1>3, <2>2, <2>3
  <2> QED
    BY <1>8, <2>1, <2>4
<1>10. totals.emitted = Len(writer.written)
  <2>1. totals.emitted = Len(writer.written) + Len(writer.batch) + Len(outRecords.queue)
    BY <1>1 DEF CountInv
  <2>2. Len(writer.batch) = 0 /\ Len(outRecords.queue) = 0
    BY <1>2
  <2> QED
    BY <1>5, <2>1, <2>2
<1>11. coverage.resolved + coverage.ambiguous + coverage.unclassified = Len(writer.written)
  <2>1. coverage.resolved + coverage.ambiguous + coverage.unclassified = totals.emitted + 0
    BY <1>3 DEF CountInv
  <2> QED
    BY <1>5, <1>10, <2>1
<1>12. coverage.without + Len(writer.written) = Len(rows)
  <2>1. coverage.without = totals.dropped
    BY DEF CountInv
  <2> QED
    BY <1>1, <1>5, <1>10, <2>1
<1> QED
  BY <1>1, <1>9, <1>11, <1>12

\* Every step keeps what is known of the end.
LEMMA EndStep ==
    ASSUME PipelineInv, Next
    PROVE  EndInv'
<1>0. TypeInv /\ HistoryInv /\ CountInv /\ StageInv
      /\ (result.status = "ok" => main = "returned" /\ SuccessAccounts)
  BY DEF PipelineInv, EndInv
<1>1. CASE main = "returned"
  <2>1. UNCHANGED vars
    BY <1>1, NothingAfter
  <2>2. UNCHANGED <<main, rows, zgrab, merging, coverage, observed, outRecords, writer, errors,
                    result>>
    BY <2>1 DEF vars, feedVars, zgrabVars, mergeVars
  <2>3. StageInv'
    BY <1>0, <2>2 DEF StageInv
  <2>4. SuccessAccounts => SuccessAccounts'
    BY <2>2 DEF SuccessAccounts, Times, HasEvidence
  <2> QED
    BY <1>0, <2>2, <2>3, <2>4 DEF EndInv
<1>2. CASE main # "returned" /\ ~Report
  <2>1. StageInv'
    BY <1>0, <1>2, StageStep
  <2>2. result.status # "ok"
    BY <1>0, <1>2
  <2>3. result' = result \/ result' = [result EXCEPT !.status = "error"]
    <3>1. CASE \/ StartUp \/ StartFails \/ Interrupt \/ Returned
               \/ SkipEmptyRow \/ SendTarget \/ FeedEnds \/ FeedFails
      BY <3>1 DEF StartUp, StartFails, Interrupt, Returned, SkipEmptyRow, SendTarget, FeedEnds,
                  FeedFails, Feeding, vars
    <3>2. CASE WriteZGrabInput \/ CloseZGrabInput \/ ZGrabAnswers \/ ZGrabEnds \/ ZGrabDies
      BY <3>2 DEF WriteZGrabInput, CloseZGrabInput, ZGrabAnswers, ZGrabEnds, ZGrabDies, ZGrabbing
    <3>3. CASE \E w \in ProbeWorkers : TakeTarget(w) \/ EmitResult(w) \/ WorkerEnds(w)
      BY <3>3 DEF TakeTarget, EmitResult, WorkerEnds, Probing
    <3>4. CASE \E s \in Scanners : Integrates(s) \/ EndOfStream(s) \/ ParseFails \/ SendRecord(s)
      BY <3>4, <1>0, IntegratesEffect
      DEF EndOfStream, ParseFails, SendRecord, Integrating, Merging
    <3>5. CASE AppendRecord \/ WriterEnds \/ WaitFeeder \/ WaitScanners \/ CloseFiles
      BY <3>5 DEF AppendRecord, WriterEnds, WaitFeeder, WaitScanners, CloseFiles, Writing
    <3> QED
      BY <1>2, <3>1, <3>2, <3>3, <3>4, <3>5, StepKinds
  <2>4. result \in [status : {"running", "ok", "error"}, coverageFile : BOOLEAN]
    BY <1>0 DEF TypeInv, FlagTypes
  <2>5. result'.status # "ok"
    BY <2>2, <2>3, <2>4
  <2> QED
    BY <2>1, <2>5 DEF EndInv
<1>3. CASE Report
  <2>1. /\ main = "report" /\ main' = "returned"
        /\ UNCHANGED <<rows, coverage, observed, writer>>
    BY <1>3 DEF Report, Ending, feedVars
  <2>2. StageInv'
    BY <1>0, <1>3, <2>1, StageStep
  <2>3. ASSUME result'.status = "ok" PROVE SuccessAccounts'
    <3>1. result \in [status : {"running", "ok", "error"}, coverageFile : BOOLEAN]
      BY <1>0 DEF TypeInv, FlagTypes
    <3>2. result' # [result EXCEPT !.status = "error"]
      BY <2>3, <3>1
    <3>3. ~(ObservationsIncomplete \/ StageFailed \/ TargetsMissing)
      BY <1>3, <3>2 DEF Report
    <3>4. /\ \A ip \in IPs :
                 Times(ip, writer.written) = IF HasEvidence(ip) THEN Times(ip, rows) ELSE 0
          /\ coverage.resolved + coverage.ambiguous + coverage.unclassified
                 = Len(writer.written)
          /\ coverage.without + Len(writer.written) = Len(rows)
          /\ observed.count = Len(rows)
      BY <1>0, <2>1, <3>3, ReportAccounts
    <3> QED
      BY <2>1, <3>4 DEF SuccessAccounts, Times, HasEvidence
  <2> QED
    BY <2>1, <2>2, <2>3 DEF EndInv
<1> QED
  BY <1>1, <1>2, <1>3

\* Every step keeps the invariant.
LEMMA PipelineStep ==
    ASSUME PipelineInv, Next
    PROVE  PipelineInv'
<1>1. TypeInv /\ HistoryInv /\ CountInv
  BY DEF PipelineInv
<1>2. TypeInv'
  BY <1>1, TypeStep
<1>3. HistoryInv' /\ CountInv'
  BY <1>1, HistoryStep
<1>4. EndInv'
  BY EndStep
<1> QED
  BY <1>2, <1>3, <1>4 DEF PipelineInv

-----------------------------------------------------------------------------
(* What follows for hosts on their way *)

\* A host that is once in the file completes at most once.
LEMMA CompletedOnce ==
    ASSUME TypeInv, DistinctTargets, NEW c \in Seq(IPs), LoadInv(c), NEW ip \in IPs
    PROVE  /\ Times(ip, c) \in Nat /\ Times(ip, c) <= 1
           /\ \A s \in Scanners : /\ Times(ip, c) + Load(s, ip) <= Fed(s, ip)
                                  /\ Load(s, ip) \in Nat /\ Fed(s, ip) \in {0, 1}
<1>1. Times(ip, c) \in Nat
  BY TimesType
<1>2. Times(ip, rows) <= 1 /\ Times(ip, rows) \in Nat
  BY RowsType, TimesDistinct, TimesType DEF DistinctTargets
<1>3. ASSUME NEW s \in Scanners
      PROVE  /\ Times(ip, c) + Load(s, ip) <= Fed(s, ip)
             /\ Load(s, ip) \in Nat /\ Fed(s, ip) \in {0, 1}
  <2>1. Times(ip, c) + Load(s, ip) <= Fed(s, ip)
    BY DEF LoadInv
  <2>2. Load(s, ip) \in Nat
    BY ScannedType
  <2>3. Fed(s, ip) \in Nat /\ Fed(s, ip) <= Times(ip, rows)
    BY FedType
  <2>4. Fed(s, ip) \in {0, 1}
    BY <1>2, <2>3
  <2> QED
    BY <2>1, <2>2, <2>4
<1>4. Times(ip, c) <= 1
  <2>1. "zgrab" \in Scanners
    BY DEF Scanners
  <2>2. /\ Times(ip, c) + Load("zgrab", ip) <= Fed("zgrab", ip)
        /\ Load("zgrab", ip) \in Nat /\ Fed("zgrab", ip) \in {0, 1}
    BY <1>3, <2>1
  <2> QED
    BY <1>1, <2>2
<1> QED
  BY <1>1, <1>3, <1>4

\* So it gets one record at most.
LEMMA RecordedOnce ==
    ASSUME TypeInv, HistoryInv
    PROVE  OneRecordPerHost
<1> SUFFICES ASSUME DistinctTargets, NEW ip \in IPs PROVE Times(ip, Records) <= 1
  BY DEF OneRecordPerHost
<1>1. PICK c \in Seq(IPs) : LoadInv(c) /\ RecordInv(c)
  BY DEF HistoryInv
<1>2. Times(ip, c) \in Nat /\ Times(ip, c) <= 1
  BY <1>1, CompletedOnce
<1>3. Recorded(ip) + Sending(ip) <= IF HasEvidence(ip) THEN Times(ip, c) ELSE 0
  BY <1>1 DEF RecordInv
<1>4. Recorded(ip) \in Nat /\ Sending(ip) \in Nat
  BY RecordedType, SendTypes
<1>5. Recorded(ip) <= 1
  BY <1>2, <1>3, <1>4
<1>6. /\ writer.written \in Seq(IPs) /\ writer.batch \in Seq(IPs)
      /\ outRecords.queue \in Seq(IPs) /\ writer.written \o writer.batch \in Seq(IPs)
  BY DEF TypeInv, RecordTypes
<1>7. Times(ip, writer.written \o writer.batch)
          = Times(ip, writer.written) + Times(ip, writer.batch)
  BY <1>6, TimesConcat
<1>8. Times(ip, Records)
          = Times(ip, writer.written \o writer.batch) + Times(ip, outRecords.queue)
  BY <1>6, TimesConcat DEF Records
<1>9. Times(ip, Records) = Recorded(ip)
  BY <1>7, <1>8 DEF Recorded
<1> QED
  BY <1>5, <1>9

\* When one scanner was given a host and another was not, the feeder is at its row.
LEMMA BetweenScanners ==
    ASSUME TypeInv, NEW s1 \in Scanners, NEW s \in Scanners, NEW ip,
           Fed(s1, ip) = 1, Fed(s, ip) = 0
    PROVE  /\ feeder.row <= Len(rows) /\ rows[feeder.row] = ip
           /\ \E i \in feeder.to .. 3 : FeedOrder[i] = s
<1>1. /\ rows \in Seq(IPs \cup {NoIP}) /\ Len(rows) \in Nat
      /\ feeder.row \in Nat /\ feeder.to \in 1 .. 3
      /\ FedRows(s) \in 0 .. Len(rows) /\ FedRows(s1) \in 0 .. Len(rows)
  BY RowsType
<1>2. \A t \in {s, s1} : FedRows(t) = feeder.row \/ FedRows(t) = feeder.row - 1
  BY DEF FedRows
<1>3. FedRows(s) # FedRows(s1)
  BY DEF Fed
<1> DEFINE n == feeder.row - 1
<1>4. n + 1 = feeder.row
  BY <1>1
<1>5. n \in 0 .. Len(rows) /\ n < Len(rows)
  <2>1. \/ FedRows(s) = feeder.row - 1 /\ FedRows(s1) = feeder.row
        \/ FedRows(s1) = feeder.row - 1 /\ FedRows(s) = feeder.row
    BY <1>2, <1>3
  <2> QED
    BY <1>1, <2>1
<1> HIDE DEF n
<1>6. /\ Times(ip, SubSeq(rows, 1, n + 1))
             = Times(ip, SubSeq(rows, 1, n)) + (IF rows[n + 1] = ip THEN 1 ELSE 0)
      /\ Times(ip, SubSeq(rows, 1, n)) \in Nat
  BY <1>1, <1>5, TimesPrefix
<1>7. FedRows(s) = n /\ FedRows(s1) = n + 1
  <2>1. ASSUME FedRows(s1) = n, FedRows(s) = n + 1 PROVE FALSE
    <3>1. Times(ip, SubSeq(rows, 1, n)) = 1 /\ Times(ip, SubSeq(rows, 1, n + 1)) = 0
      BY <2>1 DEF Fed
    <3> QED
      BY <1>6, <3>1
  <2> QED
    BY <1>2, <1>3, <1>4, <2>1 DEF n
<1>8. rows[n + 1] = ip
  <2>1. Times(ip, SubSeq(rows, 1, n)) = 0 /\ Times(ip, SubSeq(rows, 1, n + 1)) = 1
    BY <1>7 DEF Fed
  <2> QED
    BY <1>6, <2>1
<1>9. ~(feeder.to > InputPlace[s])
  <2>1. FedRows(s) # feeder.row
    BY <1>1, <1>4, <1>7
  <2> QED
    BY <2>1 DEF FedRows
<1>10. InputPlace[s] \in 1 .. 3 /\ FeedOrder[InputPlace[s]] = s
  BY DEF InputPlace, FeedOrder, Scanners
<1>11. InputPlace[s] \in feeder.to .. 3
  BY <1>1, <1>9, <1>10
<1>12. feeder.row <= Len(rows)
  BY <1>1, <1>4, <1>5
<1> QED
  BY <1>4, <1>8, <1>10, <1>11, <1>12

\* What a scanner has of a host and not in the map is in a stage.
LEMMA ScannedSomewhere ==
    ASSUME TypeInv, NEW s \in Scanners, NEW ip \in IPs, Times(ip, in[s]) + Scanned(s, ip) > 0
    PROVE  OnItsWay(s, ip)
<1>1. /\ Times(ip, in[s]) \in Nat /\ Scanned(s, ip) \in Nat
      /\ s \in UDPScanners => Times(ip, out[s]) \in Nat
  BY ScannedType
<1>2. CASE Times(ip, in[s]) > 0
  BY <1>2 DEF OnItsWay
<1>3. CASE Scanned(s, ip) > 0
  <2>1. CASE s = "zgrab"
    BY <1>3, <2>1 DEF OnItsWay, Scanned
  <2>2. CASE s # "zgrab"
    <3>1. Held(s, ip) + Times(ip, out[s]) > 0
      BY <1>3, <2>2 DEF Scanned
    <3>2. s \in UDPScanners /\ Times(ip, out[s]) \in Nat /\ Held(s, ip) \in Nat
      BY <1>1, <2>2, HeldType DEF Scanners, UDPScanners
    <3>3. CASE Times(ip, out[s]) > 0
      BY <2>2, <3>3 DEF OnItsWay
    <3>4. CASE Held(s, ip) # 0
      <4>1. HeldBy(s, ip) # {}
        BY <3>4, FS_EmptySet DEF Held
      <4>2. \E w \in ProbeWorkers : w[1] = s /\ worker[w] = ip
        BY <4>1 DEF HeldBy
      <4> QED
        BY <2>2, <4>2 DEF OnItsWay
    <3> QED
      BY <3>1, <3>2, <3>3, <3>4
  <2> QED
    BY <2>1, <2>2
<1> QED
  BY <1>1, <1>2, <1>3

\* A host in the map is waited for with reason.
LEMMA PendingFollowed ==
    ASSUME TypeInv, HistoryInv
    PROVE  PendingOnlyInFlight
<1> SUFFICES ASSUME Clean, NEW ip \in IPs, pendings[ip] # {}, NEW s \in Scanners \ pendings[ip]
             PROVE  OnItsWay(s, ip)
  BY DEF PendingOnlyInFlight, Clean
<1>1. PICK c \in Seq(IPs) : LoadInv(c)
  BY DEF HistoryInv
<1>2. PICK s1 \in Scanners : s1 \in pendings[ip]
  BY DEF TypeInv, MergeTypes
<1>3. /\ Times(ip, c) \in Nat
      /\ \A t \in Scanners : Load(t, ip) \in Nat /\ Fed(t, ip) \in {0, 1}
  BY <1>1, CompletedOnce DEF Clean
<1>4. /\ Times(ip, c) + Load(s, ip) = Fed(s, ip)
      /\ Times(ip, c) + Load(s1, ip) = Fed(s1, ip)
  BY <1>1 DEF LoadInv
<1>5. Load(s1, ip) >= 1
  <2>1. Load(s1, ip) = Times(ip, in[s1]) + Scanned(s1, ip) + 1
    BY <1>2 DEF Load, One
  <2>2. Times(ip, in[s1]) \in Nat /\ Scanned(s1, ip) \in Nat
    BY ScannedType
  <2> QED
    BY <2>1, <2>2
<1>6. Times(ip, c) = 0 /\ Fed(s1, ip) = 1
  BY <1>3, <1>4, <1>5
<1>7. CASE Fed(s, ip) = 0
  BY <1>6, <1>7, BetweenScanners DEF OnItsWay
<1>8. CASE Fed(s, ip) = 1
  <2>1. Load(s, ip) = 1
    BY <1>3, <1>4, <1>6, <1>8
  <2>2. Load(s, ip) = Times(ip, in[s]) + Scanned(s, ip) + 0
    BY DEF Load, One
  <2>3. Times(ip, in[s]) \in Nat /\ Scanned(s, ip) \in Nat
    BY ScannedType
  <2>4. Times(ip, in[s]) + Scanned(s, ip) > 0
    BY <2>1, <2>2, <2>3
  <2> QED
    BY <2>4, ScannedSomewhere
<1> QED
  BY <1>3, <1>7, <1>8

\* The invariant implies what is claimed of the pipeline.
LEMMA InvSound == PipelineInv => PipelineSound /\ SuccessAccounts
<1> SUFFICES ASSUME PipelineInv PROVE PipelineSound /\ SuccessAccounts
  OBVIOUS
<1>1. TypeInv /\ HistoryInv /\ StageInv /\ (result.status = "ok" => SuccessAccounts)
  BY DEF PipelineInv, EndInv
<1>2. TypeOK /\ OneRecordPerHost /\ PendingOnlyInFlight
  BY <1>1, TypesOK, RecordedOnce, PendingFollowed
<1>3. OrderlyEnd
  BY <1>1 DEF StageInv, OrderlyEnd
<1>4. SuccessAccounts
  BY <1>1 DEF SuccessAccounts
<1> QED
  BY <1>2, <1>3, <1>4 DEF PipelineSound

\* What does not change keeps the invariant.
LEMMA PipelineStutters ==
    ASSUME PipelineInv, UNCHANGED vars
    PROVE  PipelineInv'
<1>0. TypeInv /\ HistoryInv /\ CountInv /\ StageInv
      /\ (result.status = "ok" => main = "returned" /\ SuccessAccounts)
  BY DEF PipelineInv, EndInv
<1>1. /\ UNCHANGED feedVars /\ UNCHANGED in /\ UNCHANGED zgrabVars /\ UNCHANGED <<worker, out>>
      /\ UNCHANGED joinVars /\ UNCHANGED <<outRecords, writer>>
      /\ UNCHANGED <<main, ctxDone, observed, errors, result, faults>>
  BY DEF vars, mergeVars, joinVars
<1>2. UNCHANGED <<work, lines, zgrab, pendings, merging, totals, coverage, rows>>
  BY <1>1 DEF zgrabVars, joinVars, feedVars
<1>3. FlagTypes'
  BY <1>0, <1>1 DEF TypeInv, FlagTypes
<1>4. TypeInv'
  BY <1>0, <1>1, <1>3, KeptFeed, KeptIn, KeptZGrab, KeptProbe, KeptMerge, KeptRecord DEF TypeInv
<1>5. RecordsKept
  BY <1>1, <1>2, MergingFrame DEF RecordsKept
<1>6. Clean' => Clean
  BY <1>1, <1>2 DEF Clean, DistinctTargets
<1>7. PICK c \in Seq(IPs) : LoadInv(c) /\ RecordInv(c)
  BY <1>0 DEF HistoryInv
<1>8. Balanced(c, c)
  BY <1>0, <1>1, <1>2, BalancedFrame
<1>9. LoadInv(c)' /\ RecordInv(c)' /\ CountInv'
  BY <1>0, <1>4, <1>5, <1>6, <1>7, <1>8, BalancedKeeps, RecordFrame
<1>10. HistoryInv' /\ CountInv'
  BY <1>9 DEF HistoryInv
<1>11. StageInv'
  BY <1>0, <1>1, <1>2 DEF StageInv
<1>12. SuccessAccounts => SuccessAccounts'
  BY <1>1, <1>2 DEF SuccessAccounts, Times, HasEvidence
<1> QED
  BY <1>0, <1>1, <1>4, <1>10, <1>11, <1>12 DEF PipelineInv, EndInv

-----------------------------------------------------------------------------
(* The decision over the tags of one host *)

\* Induction over the numbers that are in a set.
LEMMA Induction ==
    ASSUME NEW T, 0 \in T, \A n \in Nat : n \in T => n + 1 \in T
    PROVE Nat \subseteq T
<1> DEFINE Bad == Nat \ T
<1>1. SUFFICES ASSUME Bad # {} PROVE FALSE
  OBVIOUS
<1>2. PICK m \in Bad : \A y \in Bad : ~ (<<y, m>> \in OpToRel(<, Nat))
  BY <1>1, NatLessThanWellFounded, WFMin
<1>3. \A y \in Bad : ~(y < m)
  BY <1>2 DEF OpToRel
<1>4. m # 0 /\ m - 1 \in Nat /\ m - 1 \in T
  BY <1>3
<1> QED
  BY <1>4

\* One turn of the loop of isAncestor.
Parent(tag) == IF tag = NoTag THEN NoTag ELSE parentTag[tag]

\* f is the recursion of IsAncestor over the numbers up to n.
Chain(f, d, n) ==
    f = [i \in 0 .. n |-> IF i = 0 THEN d ELSE Parent(f[i - 1])]

LEMMA ChainExists == \A d : \A n \in Nat : \E f : Chain(f, d, n)
<1> SUFFICES ASSUME NEW d PROVE \A n \in Nat : \E f : Chain(f, d, n)
  OBVIOUS
<1> DEFINE T == {n \in Nat : \E f : Chain(f, d, n)}
<1>1. 0 \in T
  <2> DEFINE f == [i \in 0 .. 0 |-> d]
  <2>1. Chain(f, d, 0)
    BY DEF Chain
  <2> QED
    BY <2>1
<1>2. ASSUME NEW n \in Nat, n \in T PROVE n + 1 \in T
  <2>1. PICK g : Chain(g, d, n)
    BY <1>2
  <2>2. \A i \in 0 .. n : g[i] = IF i = 0 THEN d ELSE Parent(g[i - 1])
    BY <2>1 DEF Chain
  <2> DEFINE f == [i \in 0 .. n + 1 |-> IF i = n + 1 THEN Parent(g[n]) ELSE g[i]]
  <2>3. f[n + 1] = Parent(g[n]) /\ \A i \in 0 .. n : f[i] = g[i]
    OBVIOUS
  <2>4. f = [i \in 0 .. n + 1 |-> f[i]]
    OBVIOUS
  <2> HIDE DEF f
  <2>5. \A i \in 0 .. n + 1 : f[i] = IF i = 0 THEN d ELSE Parent(f[i - 1])
    <3> SUFFICES ASSUME NEW i \in 0 .. n + 1
                 PROVE f[i] = IF i = 0 THEN d ELSE Parent(f[i - 1])
      OBVIOUS
    <3>1. CASE i = n + 1
      <4>1. i # 0 /\ i - 1 = n /\ f[i - 1] = g[n]
        BY <2>3, <3>1
      <4> QED
        BY <2>3, <3>1, <4>1
    <3>2. CASE i \in 0 .. n
      <4>1. i # 0 => i - 1 \in 0 .. n
        BY <3>2
      <4>2. f[i] = g[i] /\ (i # 0 => f[i - 1] = g[i - 1])
        BY <2>3, <3>2, <4>1
      <4> QED
        BY <2>2, <3>2, <4>2
    <3>3. i = n + 1 \/ i \in 0 .. n
      OBVIOUS
    <3> QED
      BY <3>1, <3>2, <3>3
  <2>6. Chain(f, d, n + 1)
    BY <2>4, <2>5 DEF Chain
  <2> QED
    BY <2>6
<1>3. Nat \subseteq T
  <2> HIDE DEF T
  <2> QED
    BY <1>1, <1>2, Induction
<1> QED
  BY <1>3

LEMMA ChainsAgree ==
    ASSUME NEW d, NEW n \in Nat, NEW m \in Nat, NEW f, NEW g, Chain(f, d, n), Chain(g, d, m)
    PROVE  \A i \in Nat : i <= n /\ i <= m => f[i] = g[i]
<1> DEFINE T == {i \in Nat : i <= n /\ i <= m => f[i] = g[i]}
<1>c. /\ \A i \in 0 .. n : f[i] = IF i = 0 THEN d ELSE Parent(f[i - 1])
      /\ \A i \in 0 .. m : g[i] = IF i = 0 THEN d ELSE Parent(g[i - 1])
  BY DEF Chain
<1>1. 0 \in T
  BY <1>c
<1>2. ASSUME NEW i \in Nat, i \in T PROVE i + 1 \in T
  <2> SUFFICES ASSUME i + 1 <= n, i + 1 <= m PROVE f[i + 1] = g[i + 1]
    OBVIOUS
  <2>1. f[i] = g[i]
    BY <1>2
  <2>2. i + 1 \in 0 .. n /\ i + 1 \in 0 .. m /\ (i + 1) - 1 = i /\ i + 1 # 0
    OBVIOUS
  <2>3. f[i + 1] = Parent(f[(i + 1) - 1]) /\ g[i + 1] = Parent(g[(i + 1) - 1])
    BY <1>c, <2>2
  <2> QED
    BY <2>1, <2>2, <2>3
<1>3. Nat \subseteq T
  <2> HIDE DEF T
  <2> QED
    BY <1>1, <1>2, Induction
<1> QED
  BY <1>3

\* The tag that isAncestor has reached after n turns from d.
Walk(d, n) == (CHOOSE f : Chain(f, d, n))[n]

LEMMA WalkDef ==
    ASSUME NEW d
    PROVE  /\ Walk(d, 0) = d
           /\ \A n \in Nat : Walk(d, n + 1) = Parent(Walk(d, n))
           /\ \A n \in Nat : \A f : Chain(f, d, n) => \A i \in 0 .. n : f[i] = Walk(d, i)
<1> DEFINE F(n) == CHOOSE f : Chain(f, d, n)
<1>1. \A n \in Nat : Chain(F(n), d, n)
  BY ChainExists
<1>2. \A n : Walk(d, n) = F(n)[n]
  BY DEF Walk
<1> HIDE DEF F
<1>3. ASSUME NEW n \in Nat, NEW f, Chain(f, d, n), NEW i \in 0 .. n
      PROVE f[i] = Walk(d, i)
  <2>1. i \in Nat /\ i <= n /\ i <= i
    OBVIOUS
  <2>2. f[i] = F(i)[i]
    BY <1>1, <1>3, <2>1, ChainsAgree
  <2> QED
    BY <1>2, <2>2
<1>4. Walk(d, 0) = d
  <2>1. F(0)[0] = d
    BY <1>1 DEF Chain
  <2> QED
    BY <1>2, <2>1
<1>5. ASSUME NEW n \in Nat PROVE Walk(d, n + 1) = Parent(Walk(d, n))
  <2> DEFINE f == F(n + 1)
  <2>1. Chain(f, d, n + 1) /\ n + 1 \in Nat
    BY <1>1
  <2> HIDE DEF f
  <2>2. n + 1 \in 0 .. n + 1 /\ n \in 0 .. n + 1 /\ n + 1 # 0 /\ (n + 1) - 1 = n
    OBVIOUS
  <2>3. f[n + 1] = Walk(d, n + 1) /\ f[n] = Walk(d, n)
    BY <1>3, <2>1, <2>2
  <2>4. f[n + 1] = Parent(f[(n + 1) - 1])
    BY <2>1, <2>2 DEF Chain
  <2> QED
    BY <2>2, <2>3, <2>4
<1> QED
  BY <1>3, <1>4, <1>5

\* isAncestor takes as many turns as there are tags.
LEMMA AncestorWalk ==
    \A a, d : IsAncestor(a, d) <=> \E n \in 1 .. Cardinality(Tags) : Walk(d, n) = a
<1> SUFFICES ASSUME NEW a, NEW d
             PROVE IsAncestor(a, d) <=> \E n \in 1 .. Cardinality(Tags) : Walk(d, n) = a
  OBVIOUS
<1> DEFINE N == Cardinality(Tags)
           up == CHOOSE f : Chain(f, d, N)
<1>1. N \in Nat
  BY OSClassifierAssumption, FS_CardinalityType
<1>2. Chain(up, d, N)
  BY <1>1, ChainExists
<1>3. IsAncestor(a, d) <=> \E n \in 1 .. N : up[n] = a
  BY DEF IsAncestor, Chain, Parent
<1> HIDE DEF N, up
<1>4. \A n \in 1 .. N : up[n] = Walk(d, n)
  <2>1. \A n \in Nat : \A f : Chain(f, d, n) => \A i \in 0 .. n : f[i] = Walk(d, i)
    BY WalkDef
  <2>2. \A n \in 0 .. N : up[n] = Walk(d, n)
    BY <1>1, <1>2, <2>1
  <2> QED
    BY <1>1, <2>2
<1> QED
  BY <1>3, <1>4 DEF N

\* A walk goes on from where it is, as the one that starts there.
LEMMA WalkOn ==
    ASSUME NEW d, NEW m \in Nat, NEW k \in Nat
    PROVE  Walk(Walk(d, m), k) = Walk(d, m + k)
<1> DEFINE T == {i \in Nat : Walk(Walk(d, m), i) = Walk(d, m + i)}
<1>1. 0 \in T
  BY WalkDef
<1>2. ASSUME NEW i \in Nat, i \in T PROVE i + 1 \in T
  <2>1. Walk(Walk(d, m), i + 1) = Parent(Walk(Walk(d, m), i))
    BY WalkDef
  <2>2. m + i \in Nat /\ m + (i + 1) = (m + i) + 1
    OBVIOUS
  <2>3. Walk(d, (m + i) + 1) = Parent(Walk(d, m + i))
    BY <2>2, WalkDef
  <2> QED
    BY <1>2, <2>1, <2>2, <2>3
<1>3. Nat \subseteq T
  <2> HIDE DEF T
  <2> QED
    BY <1>1, <1>2, Induction
<1> QED
  BY <1>3

\* It stays among the tags until it has left the tree for good.
LEMMA WalkTags ==
    ASSUME NEW d \in Tags \cup {NoTag}
    PROVE  /\ \A n \in Nat : Walk(d, n) \in Tags \cup {NoTag}
           /\ d = NoTag => \A n \in Nat : Walk(d, n) = NoTag
<1> DEFINE T == {n \in Nat : Walk(d, n) \in Tags \cup {NoTag} /\ (d = NoTag => Walk(d, n) = NoTag)}
<1>1. 0 \in T
  BY WalkDef
<1>2. ASSUME NEW n \in Nat, n \in T PROVE n + 1 \in T
  <2>1. Walk(d, n + 1) = Parent(Walk(d, n))
    BY WalkDef
  <2> QED
    BY <1>2, <2>1, OSClassifierAssumption DEF Parent
<1>3. Nat \subseteq T
  <2> HIDE DEF T
  <2> QED
    BY <1>1, <1>2, Induction
<1> QED
  BY <1>3

\* A tag that is reached at all is reached within as many turns as there are tags, because
\* a longer walk meets some tag twice.
LEMMA AncestorReached ==
    ASSUME NEW d \in Tags, NEW a \in Tags, NEW k \in Nat \ {0}, Walk(d, k) = a
    PROVE  IsAncestor(a, d)
<1> DEFINE Reached == {n \in Nat : n # 0 /\ Walk(d, n) = a}
           N == Cardinality(Tags)
<1>0. NoTag \notin Tags /\ IsFiniteSet(Tags) /\ N \in Nat
  BY OSClassifierAssumption, FS_CardinalityType
<1>1. PICK n \in Reached : \A y \in Reached : ~ (<<y, n>> \in OpToRel(<, Nat))
  BY NatLessThanWellFounded, WFMin
<1>2. \A y \in Reached : ~(y < n)
  BY <1>1 DEF OpToRel
<1>3. n \in Nat \ {0} /\ Walk(d, n) = a
  OBVIOUS
<1>4. \A i \in 1 .. n : Walk(d, i) \in Tags
  <2> SUFFICES ASSUME NEW i \in 1 .. n PROVE Walk(d, i) \in Tags
    OBVIOUS
  <2>1. i \in Nat /\ n - i \in Nat /\ i + (n - i) = n
    BY <1>3
  <2>2. Walk(d, i) \in Tags \cup {NoTag}
    BY <2>1, WalkTags
  <2>3. Walk(Walk(d, i), n - i) = a
    BY <1>3, <2>1, WalkOn
  <2>4. Walk(d, i) = NoTag => Walk(Walk(d, i), n - i) = NoTag
    BY <2>1, <2>2, WalkTags
  <2> QED
    BY <1>0, <2>2, <2>3, <2>4
<1>5. ASSUME NEW i \in 1 .. n, NEW j \in 1 .. n, i < j, Walk(d, i) = Walk(d, j) PROVE FALSE
  <2>1. /\ i \in Nat /\ j \in Nat /\ n - j \in Nat /\ j + (n - j) = n
        /\ i + (n - j) \in Nat /\ i + (n - j) # 0 /\ i + (n - j) < n
    BY <1>3, <1>5
  <2>2. Walk(d, i + (n - j)) = Walk(d, n)
    <3>1. Walk(Walk(d, i), n - j) = Walk(d, i + (n - j))
      BY <2>1, WalkOn
    <3>2. Walk(Walk(d, j), n - j) = Walk(d, j + (n - j))
      BY <2>1, WalkOn
    <3> QED
      BY <1>5, <2>1, <3>1, <3>2
  <2>3. i + (n - j) \in Reached
    BY <1>3, <2>1, <2>2
  <2> QED
    BY <1>2, <2>1, <2>3
<1>6. n <= N
  <2> SUFFICES ASSUME N < n PROVE FALSE
    BY <1>0, <1>3
  <2> DEFINE S == 1 .. n
             f == [i \in S |-> Walk(d, i)]
  <2>1. IsFiniteSet(S) /\ Cardinality(S) = n
    BY <1>3, FS_Interval
  <2>2. f \in [S -> Tags]
    BY <1>4
  <2>3. \E x, y \in S : x # y /\ f[x] = f[y]
    <3> HIDE DEF S, f
    <3> QED
      BY <1>0, <2>1, <2>2, FS_PigeonHole
  <2>4. PICK x \in S, y \in S : x # y /\ Walk(d, x) = Walk(d, y)
    BY <2>3
  <2>5. x < y \/ y < x
    BY <2>4
  <2> QED
    BY <1>5, <2>4, <2>5
<1> QED
  BY <1>0, <1>3, <1>6, AncestorWalk

\* Ancestors of an ancestor are ancestors, and two ancestors of a tag are on one line.
LEMMA AncestorsOfOne ==
    ASSUME NEW a \in Tags, NEW b \in Tags, NEW c \in Tags
    PROVE  /\ IsAncestor(a, b) /\ IsAncestor(b, c) => IsAncestor(a, c)
           /\ IsAncestor(a, c) /\ IsAncestor(b, c) => Comparable(a, b)
<1>0. Cardinality(Tags) \in Nat
  BY OSClassifierAssumption, FS_CardinalityType
<1>1. ASSUME IsAncestor(a, b), IsAncestor(b, c) PROVE IsAncestor(a, c)
  <2>1. PICK m \in 1 .. Cardinality(Tags) : Walk(b, m) = a
    BY <1>1, AncestorWalk
  <2>2. PICK n \in 1 .. Cardinality(Tags) : Walk(c, n) = b
    BY <1>1, AncestorWalk
  <2>3. m \in Nat /\ n \in Nat /\ n + m \in Nat \ {0}
    BY <1>0
  <2>4. Walk(c, n + m) = a
    BY <2>1, <2>2, <2>3, WalkOn
  <2> QED
    BY <2>3, <2>4, AncestorReached
<1>2. ASSUME NEW x \in Tags, NEW y \in Tags, NEW m \in Nat, NEW n \in Nat, m < n,
             Walk(c, m) = x, Walk(c, n) = y
      PROVE  IsAncestor(y, x)
  <2>1. n - m \in Nat \ {0} /\ m + (n - m) = n
    BY <1>2
  <2>2. Walk(x, n - m) = y
    BY <1>2, <2>1, WalkOn
  <2> QED
    BY <2>1, <2>2, AncestorReached
<1>3. ASSUME IsAncestor(a, c), IsAncestor(b, c) PROVE Comparable(a, b)
  <2>1. PICK m \in 1 .. Cardinality(Tags) : Walk(c, m) = a
    BY <1>3, AncestorWalk
  <2>2. PICK n \in 1 .. Cardinality(Tags) : Walk(c, n) = b
    BY <1>3, AncestorWalk
  <2>3. m \in Nat /\ n \in Nat /\ (m = n \/ m < n \/ n < m)
    BY <1>0
  <2> QED
    BY <1>2, <2>1, <2>2, <2>3 DEF Comparable
<1> QED
  BY <1>1, <1>3

\* f is the recursion of Values over the first n services.
ValueTable(f, serviceTags, n) ==
    f = [i \in 0 .. n |-> IF i = 0 THEN <<>>
                          ELSE IF serviceTags[i] = NoTag THEN f[i - 1]
                          ELSE Append(f[i - 1], serviceTags[i])]

LEMMA ValueTableExists == \A serviceTags : \A n \in Nat : \E f : ValueTable(f, serviceTags, n)
<1> SUFFICES ASSUME NEW serviceTags PROVE \A n \in Nat : \E f : ValueTable(f, serviceTags, n)
  OBVIOUS
<1> DEFINE Turn(v, i) == IF serviceTags[i] = NoTag THEN v ELSE Append(v, serviceTags[i])
           T == {n \in Nat : \E f : ValueTable(f, serviceTags, n)}
<1>0. \A f, n : ValueTable(f, serviceTags, n) <=>
                    f = [i \in 0 .. n |-> IF i = 0 THEN <<>> ELSE Turn(f[i - 1], i)]
  BY DEF ValueTable
<1> HIDE DEF Turn
<1>1. 0 \in T
  <2> DEFINE f == [i \in 0 .. 0 |-> <<>>]
  <2>1. ValueTable(f, serviceTags, 0)
    BY DEF ValueTable
  <2> QED
    BY <2>1
<1>2. ASSUME NEW n \in Nat, n \in T PROVE n + 1 \in T
  <2>1. PICK g : ValueTable(g, serviceTags, n)
    BY <1>2
  <2>2. \A i \in 0 .. n : g[i] = IF i = 0 THEN <<>> ELSE Turn(g[i - 1], i)
    BY <1>0, <2>1
  <2> DEFINE f == [i \in 0 .. n + 1 |-> IF i = n + 1 THEN Turn(g[n], n + 1) ELSE g[i]]
  <2>3. f[n + 1] = Turn(g[n], n + 1) /\ \A i \in 0 .. n : f[i] = g[i]
    OBVIOUS
  <2>4. f = [i \in 0 .. n + 1 |-> f[i]]
    OBVIOUS
  <2> HIDE DEF f
  <2>5. \A i \in 0 .. n + 1 : f[i] = IF i = 0 THEN <<>> ELSE Turn(f[i - 1], i)
    <3> SUFFICES ASSUME NEW i \in 0 .. n + 1
                 PROVE f[i] = IF i = 0 THEN <<>> ELSE Turn(f[i - 1], i)
      OBVIOUS
    <3>1. CASE i = n + 1
      <4>1. i # 0 /\ i - 1 = n /\ f[i - 1] = g[n]
        BY <2>3, <3>1
      <4> QED
        BY <2>3, <3>1, <4>1
    <3>2. CASE i \in 0 .. n
      <4>1. i # 0 => i - 1 \in 0 .. n
        BY <3>2
      <4>2. f[i] = g[i] /\ (i # 0 => f[i - 1] = g[i - 1])
        BY <2>3, <3>2, <4>1
      <4> QED
        BY <2>2, <3>2, <4>2
    <3>3. i = n + 1 \/ i \in 0 .. n
      OBVIOUS
    <3> QED
      BY <3>1, <3>2, <3>3
  <2>6. ValueTable(f, serviceTags, n + 1)
    BY <1>0, <2>4, <2>5
  <2> QED
    BY <2>6
<1>3. Nat \subseteq T
  <2> HIDE DEF T
  <2> QED
    BY <1>1, <1>2, Induction
<1> QED
  BY <1>3

LEMMA RangeAppend ==
    ASSUME NEW S, NEW s \in Seq(S), NEW a \in S
    PROVE  Range(Append(s, a)) = Range(s) \cup {a}
<1>1. /\ Len(Append(s, a)) = Len(s) + 1 /\ Len(s) \in Nat
      /\ \A i \in 1 .. Len(s) : Append(s, a)[i] = s[i]
      /\ Append(s, a)[Len(s) + 1] = a
      /\ DOMAIN Append(s, a) = 1 .. Len(s) + 1 /\ DOMAIN s = 1 .. Len(s)
  BY AppendProperties
<1> QED
  BY <1>1 DEF Range

\* values keeps the tags that there are, and only those.
LEMMA ValuesKept ==
    ASSUME NEW serviceTags \in Seq(Tags \cup {NoTag})
    PROVE  /\ Values(serviceTags) \in Seq(Tags)
           /\ Range(Values(serviceTags)) = Range(serviceTags) \ {NoTag}
<1> DEFINE L == Len(serviceTags)
           table == CHOOSE f : ValueTable(f, serviceTags, L)
           Kept(i) == {serviceTags[j] : j \in 1 .. i} \ {NoTag}
           T == {i \in Nat : i <= L => table[i] \in Seq(Tags) /\ Range(table[i]) = Kept(i)}
<1>0. L \in Nat /\ \A i \in 1 .. L : serviceTags[i] \in Tags \cup {NoTag}
  OBVIOUS
<1>1. ValueTable(table, serviceTags, L)
  BY <1>0, ValueTableExists
<1>2. Values(serviceTags) = table[L]
  BY DEF Values, ValueTable
<1> HIDE DEF L, table
<1>3. \A i \in 0 .. L : table[i] = IF i = 0 THEN <<>>
                                 ELSE IF serviceTags[i] = NoTag THEN table[i - 1]
                                 ELSE Append(table[i - 1], serviceTags[i])
  BY <1>1 DEF ValueTable
<1>4. 0 \in T
  <2>0. 0 \in 0 .. L
    BY <1>0
  <2>1. table[0] = <<>>
    BY <1>3, <2>0
  <2>2. Kept(0) = {} /\ Range(<<>>) = {} /\ <<>> \in Seq(Tags)
    BY DEF Range
  <2> QED
    BY <2>1, <2>2
<1>5. ASSUME NEW i \in Nat, i \in T PROVE i + 1 \in T
  <2> SUFFICES ASSUME i + 1 <= L PROVE table[i + 1] \in Seq(Tags) /\ Range(table[i + 1]) = Kept(i + 1)
    OBVIOUS
  <2>1. table[i] \in Seq(Tags) /\ Range(table[i]) = Kept(i)
    BY <1>0, <1>5
  <2>2. i + 1 \in 0 .. L /\ i + 1 \in 1 .. L /\ i + 1 # 0 /\ (i + 1) - 1 = i
    BY <1>0
  <2>3. Kept(i + 1) = (Kept(i) \cup {serviceTags[i + 1]}) \ {NoTag}
    <3>1. 1 .. i + 1 = (1 .. i) \cup {i + 1}
      OBVIOUS
    <3> QED
      BY <3>1
  <2> HIDE DEF Kept
  <2>4. CASE serviceTags[i + 1] = NoTag
    <3>1. table[i + 1] = table[i]
      BY <1>3, <2>2, <2>4
    <3>2. NoTag \notin Range(table[i])
      BY <2>1 DEF Kept
    <3> QED
      BY <2>1, <2>3, <2>4, <3>1, <3>2
  <2>5. CASE serviceTags[i + 1] # NoTag
    <3>1. table[i + 1] = Append(table[i], serviceTags[i + 1])
      BY <1>3, <2>2, <2>5
    <3>2. serviceTags[i + 1] \in Tags
      BY <1>0, <2>2, <2>5
    <3>3. Range(Append(table[i], serviceTags[i + 1])) = Range(table[i]) \cup {serviceTags[i + 1]}
      BY <2>1, <3>2, RangeAppend
    <3>4. NoTag \notin Range(table[i])
      BY <2>1 DEF Kept
    <3> QED
      BY <2>1, <2>3, <2>5, <3>1, <3>2, <3>3, <3>4
  <2> QED
    BY <2>4, <2>5
<1>6. Nat \subseteq T
  <2> HIDE DEF T
  <2> QED
    BY <1>4, <1>5, Induction
<1>7. table[L] \in Seq(Tags) /\ Range(table[L]) = Kept(L)
  <2> HIDE DEF Kept
  <2>1. L \in T /\ L <= L
    BY <1>0, <1>6
  <2> QED
    BY <2>1
<1>8. Kept(L) = Range(serviceTags) \ {NoTag}
  <2>1. DOMAIN serviceTags = 1 .. L
    BY DEF L
  <2> QED
    BY <2>1 DEF Range
<1> QED
  BY <1>2, <1>7, <1>8

\* f is the recursion of Selected over the first n values.
SelectTable(f, values, n) ==
    f = [i \in 1 .. n |-> IF i = 1 THEN values[1] ELSE Select(f[i - 1], values[i])]

LEMMA SelectTableExists == \A values : \A n \in Nat : \E f : SelectTable(f, values, n)
<1> SUFFICES ASSUME NEW values PROVE \A n \in Nat : \E f : SelectTable(f, values, n)
  OBVIOUS
<1> DEFINE T == {n \in Nat : \E f : SelectTable(f, values, n)}
<1>1. 0 \in T
  <2> DEFINE f == [i \in 1 .. 0 |-> NoTag]
  <2>1. SelectTable(f, values, 0)
    <3>1. \A i \in 1 .. 0 : FALSE
      OBVIOUS
    <3> QED
      BY <3>1 DEF SelectTable
  <2> QED
    BY <2>1
<1>2. ASSUME NEW n \in Nat, n \in T PROVE n + 1 \in T
  <2>1. PICK g : SelectTable(g, values, n)
    BY <1>2
  <2>2. \A i \in 1 .. n : g[i] = IF i = 1 THEN values[1] ELSE Select(g[i - 1], values[i])
    BY <2>1 DEF SelectTable
  <2> DEFINE new == IF n + 1 = 1 THEN values[1] ELSE Select(g[n], values[n + 1])
             f == [i \in 1 .. n + 1 |-> IF i = n + 1 THEN new ELSE g[i]]
  <2>3. f[n + 1] = new /\ \A i \in 1 .. n : f[i] = g[i]
    OBVIOUS
  <2>4. f = [i \in 1 .. n + 1 |-> f[i]]
    OBVIOUS
  <2> HIDE DEF f
  <2>5. \A i \in 1 .. n + 1 : f[i] = IF i = 1 THEN values[1] ELSE Select(f[i - 1], values[i])
    <3> SUFFICES ASSUME NEW i \in 1 .. n + 1
                 PROVE f[i] = IF i = 1 THEN values[1] ELSE Select(f[i - 1], values[i])
      OBVIOUS
    <3>1. CASE i = n + 1
      <4>1. i # 1 => n \in 1 .. n /\ i - 1 = n
        BY <3>1
      <4>2. i # 1 => f[i - 1] = g[n]
        BY <2>3, <4>1
      <4> QED
        BY <2>3, <3>1, <4>2
    <3>2. CASE i \in 1 .. n
      <4>1. i # 1 => i - 1 \in 1 .. n
        BY <3>2
      <4>2. f[i] = g[i] /\ (i # 1 => f[i - 1] = g[i - 1])
        BY <2>3, <3>2, <4>1
      <4> QED
        BY <2>2, <3>2, <4>2
    <3>3. i = n + 1 \/ i \in 1 .. n
      OBVIOUS
    <3> QED
      BY <3>1, <3>2, <3>3
  <2>6. SelectTable(f, values, n + 1)
    BY <2>4, <2>5 DEF SelectTable
  <2> QED
    BY <2>6
<1>3. Nat \subseteq T
  <2> HIDE DEF T
  <2> QED
    BY <1>1, <1>2, Induction
<1> QED
  BY <1>3

\* What the loop of resolveTags knows after the first n values: two of them conflict, or the
\* one selected is below all the others.
Chosen(selected, values, n) ==
    \/ /\ selected = Conflict
       /\ \E i, j \in 1 .. n : ~Comparable(values[i], values[j])
    \/ /\ selected \in Tags
       /\ \E i \in 1 .. n : values[i] = selected
       /\ \A i \in 1 .. n : values[i] = selected \/ IsAncestor(values[i], selected)

LEMMA SelectKeeps ==
    ASSUME NEW values \in Seq(Tags), NEW n \in Nat, n + 1 \in 1 .. Len(values), n # 0,
           NEW selected, Chosen(selected, values, n)
    PROVE  Chosen(Select(selected, values[n + 1]), values, n + 1)
<1>0. /\ n \in 1 .. n /\ n + 1 \in 1 .. n + 1 /\ 1 .. n \subseteq 1 .. n + 1
      /\ \A i \in 1 .. n + 1 : i \in 1 .. n \/ i = n + 1
      /\ \A i \in 1 .. n + 1 : values[i] \in Tags
  <2>1. Len(values) \in Nat
    OBVIOUS
  <2> QED
    BY <2>1
<1>1. Conflict \notin Tags
  BY OSClassifierAssumption
<1> DEFINE c == values[n + 1]
<1>2. CASE selected = Conflict
  <2>1. Select(selected, c) = Conflict
    BY <1>2 DEF Select
  <2>2. \E i, j \in 1 .. n : ~Comparable(values[i], values[j])
    BY <1>1, <1>2 DEF Chosen
  <2> QED
    BY <1>0, <2>1, <2>2 DEF Chosen
<1>3. CASE selected # Conflict
  <2>0. /\ selected \in Tags /\ c \in Tags
        /\ \E i \in 1 .. n : values[i] = selected
        /\ \A i \in 1 .. n : values[i] = selected \/ IsAncestor(values[i], selected)
    BY <1>0, <1>3 DEF Chosen
  <2>1. CASE c = selected \/ IsAncestor(c, selected)
    <3>1. Select(selected, c) = selected
      BY <1>3, <2>1 DEF Select
    <3> QED
      BY <1>0, <2>0, <2>1, <3>1 DEF Chosen
  <2>2. CASE ~(c = selected \/ IsAncestor(c, selected)) /\ IsAncestor(selected, c)
    <3>1. Select(selected, c) = c
      BY <1>3, <2>2 DEF Select
    <3>2. \A i \in 1 .. n : IsAncestor(values[i], c)
      BY <1>0, <2>0, <2>2, AncestorsOfOne
    <3>3. \A i \in 1 .. n + 1 : values[i] = c \/ IsAncestor(values[i], c)
      BY <1>0, <3>2
    <3> QED
      BY <1>0, <2>0, <3>1, <3>3 DEF Chosen
  <2>3. CASE ~(c = selected \/ IsAncestor(c, selected)) /\ ~IsAncestor(selected, c)
    <3>1. Select(selected, c) = Conflict
      BY <1>3, <2>3 DEF Select
    <3>2. ~Comparable(c, selected)
      BY <2>3 DEF Comparable
    <3>3. \E i, j \in 1 .. n + 1 : ~Comparable(values[i], values[j])
      BY <1>0, <2>0, <3>2
    <3> QED
      BY <3>1, <3>3 DEF Chosen
  <2> QED
    BY <2>1, <2>2, <2>3
<1> QED
  BY <1>2, <1>3

LEMMA SelectedChosen ==
    ASSUME NEW values \in Seq(Tags), values # <<>>
    PROVE  Chosen(Selected(values), values, Len(values))
<1> DEFINE L == Len(values)
           f == CHOOSE f : SelectTable(f, values, L)
           T == {i \in Nat : i # 0 /\ i <= L => Chosen(f[i], values, i)}
<1>0. L \in Nat /\ L # 0 /\ values[1] \in Tags
  <2>1. Len(values) \in Nat /\ Len(values) # 0
    OBVIOUS
  <2> QED
    BY <2>1
<1>1. SelectTable(f, values, L)
  BY <1>0, SelectTableExists
<1>2. Selected(values) = f[L]
  BY DEF Selected, SelectTable
<1> HIDE DEF f
<1>3. \A i \in 1 .. L : f[i] = IF i = 1 THEN values[1] ELSE Select(f[i - 1], values[i])
  BY <1>1 DEF SelectTable
<1>4. 0 \in T
  OBVIOUS
<1>5. ASSUME NEW i \in Nat, i \in T PROVE i + 1 \in T
  <2> SUFFICES ASSUME i + 1 <= L PROVE Chosen(f[i + 1], values, i + 1)
    OBVIOUS
  <2>1. i + 1 \in 1 .. L /\ (i + 1) - 1 = i
    BY <1>0
  <2>2. CASE i = 0
    <3>1. f[i + 1] = values[1] /\ 1 .. i + 1 = {1}
      BY <1>3, <2>1, <2>2
    <3> QED
      BY <1>0, <3>1 DEF Chosen
  <2>3. CASE i # 0
    <3>1. Chosen(f[i], values, i)
      BY <1>0, <1>5, <2>3
    <3>2. f[i + 1] = Select(f[i], values[i + 1])
      BY <1>3, <2>1, <2>3
    <3> HIDE DEF L
    <3>3. Chosen(Select(f[i], values[i + 1]), values, i + 1)
      BY <2>1, <2>3, <3>1, SelectKeeps DEF L
    <3> QED
      BY <3>2, <3>3
  <2> QED
    BY <2>2, <2>3
<1>6. Nat \subseteq T
  <2> HIDE DEF T
  <2> QED
    BY <1>4, <1>5, Induction
<1>7. Chosen(f[L], values, L)
  BY <1>0, <1>6
<1> QED
  BY <1>2, <1>7

\* resolveTags finds the most specific tag, for every tree and every list of tags.
LEMMA ResolvesAll ==
    ASSUME NEW serviceTags \in Seq(Tags \cup {NoTag})
    PROVE  MostSpecific(serviceTags)
<1> DEFINE values == Values(serviceTags)
           found == Range(serviceTags) \ {NoTag}
           d == ResolveTags(serviceTags)
           L == Len(values)
<1>0. values \in Seq(Tags) /\ Range(values) = found
  BY ValuesKept
<1> HIDE DEF values, found
<1>1. L \in Nat /\ (values = <<>> <=> L = 0) /\ found = {values[i] : i \in 1 .. L} /\ found \subseteq Tags
  <2>1. L \in Nat /\ DOMAIN values = 1 .. L /\ (values = <<>> <=> L = 0)
    BY <1>0
  <2>2. \A i \in 1 .. L : values[i] \in Tags
    BY <1>0
  <2>3. Range(values) = {values[i] : i \in 1 .. L}
    BY <2>1 DEF Range
  <2> QED
    BY <1>0, <2>1, <2>2, <2>3
<1> HIDE DEF L
<1>2. d = IF values = <<>> THEN Decision("unclassified", NoTag, {})
          ELSE IF Selected(values) = Conflict THEN Decision("ambiguous", NoTag, found)
          ELSE Decision("resolved", Selected(values), {})
  BY <1>0 DEF ResolveTags, values
<1> HIDE DEF d
<1>3. /\ d.status = "unclassified" <=> found = {}
      /\ d.status = "ambiguous" <=> \E a, b \in found : ~Comparable(a, b)
      /\ d.status = "ambiguous" => d.conflicts = found
      /\ d.status = "resolved" =>
             d.tag \in found /\ \A a \in found : a = d.tag \/ IsAncestor(a, d.tag)
  <2>1. CASE values = <<>>
    <3>1. found = {} /\ d.status = "unclassified"
      BY <1>1, <1>2, <2>1 DEF Decision
    <3> QED
      BY <3>1
  <2>2. CASE values # <<>>
    <3>1. L # 0 /\ found # {}
      <4>1. L # 0 /\ 1 \in 1 .. L
        BY <1>1, <2>2
      <4> QED
        BY <1>1, <4>1
    <3>2. Chosen(Selected(values), values, L)
      BY <1>0, <2>2, SelectedChosen DEF L
    <3>3. CASE Selected(values) = Conflict
      <4>1. d.status = "ambiguous" /\ d.conflicts = found
        BY <1>2, <2>2, <3>3 DEF Decision
      <4>2. \E i, j \in 1 .. L : ~Comparable(values[i], values[j])
        BY <3>2, <3>3, OSClassifierAssumption DEF Chosen
      <4>3. \E a, b \in found : ~Comparable(a, b)
        BY <1>1, <4>2
      <4> QED
        BY <3>1, <4>1, <4>3
    <3>4. CASE Selected(values) # Conflict
      <4> DEFINE s == Selected(values)
      <4>1. d.status = "resolved" /\ d.tag = s
        BY <1>2, <2>2, <3>4 DEF Decision
      <4>2. /\ s \in Tags
            /\ \E i \in 1 .. L : values[i] = s
            /\ \A i \in 1 .. L : values[i] = s \/ IsAncestor(values[i], s)
        BY <3>2, <3>4 DEF Chosen
      <4> HIDE DEF s
      <4>3. s \in found /\ \A a \in found : a = s \/ IsAncestor(a, s)
        BY <1>1, <4>2
      <4>4. \A a, b \in found : Comparable(a, b)
        <5> SUFFICES ASSUME NEW a \in found, NEW b \in found PROVE Comparable(a, b)
          OBVIOUS
        <5>1. a \in Tags /\ b \in Tags
          BY <1>1
        <5>2. IsAncestor(a, s) /\ IsAncestor(b, s) => Comparable(a, b)
          BY <4>2, <5>1, AncestorsOfOne
        <5> QED
          BY <4>3, <5>2 DEF Comparable
      <4> QED
        BY <3>1, <4>1, <4>3, <4>4
    <3> QED
      BY <3>3, <3>4
  <2> QED
    BY <2>1, <2>2
<1> QED
  BY <1>3 DEF MostSpecific, found, d

-----------------------------------------------------------------------------
(* The theorems *)

\* Whatever is in the target file, whichever stage fails and whenever the run is interrupted,
\* there is an order in which the merger of os/pipeline.go has completed hosts such that every
\* host given to a scanner is completed, under way in a stage or lost to a failure, and every
\* completed one is counted and has its record on the way, while stages end in their order.
THEOREM PipelineInvariant == Spec => []PipelineInv
<1>1. Init => PipelineInv
  BY InitInv
<1>2. PipelineInv /\ [Next]_vars => PipelineInv'
  <2> SUFFICES ASSUME PipelineInv, [Next]_vars PROVE PipelineInv'
    OBVIOUS
  <2>1. CASE Next
    BY <2>1, PipelineStep
  <2>2. CASE UNCHANGED vars
    BY <2>2, PipelineStutters
  <2> QED
    BY <2>1, <2>2
<1> QED
  BY <1>1, <1>2, PTL DEF Spec

\* The channels between the stages keep within their buffers, no host gets a second record, a
\* host waits in the merger's map only for results that are under way, and no record is sent
\* after the writer's channel is closed.
THEOREM PipelineSoundTheorem == Spec => []PipelineSound
<1>1. PipelineInv => PipelineSound
  BY InvSound
<1> QED
  BY <1>1, PipelineInvariant, PTL

\* A run of runPipeline that returns without error has written exactly the targets with
\* evidence, each as often as the file has it, and its coverage adds up to the file.
THEOREM SuccessAccountsTheorem == Spec => []SuccessAccounts
<1>1. PipelineInv => SuccessAccounts
  BY InvSound
<1> QED
  BY <1>1, PipelineInvariant, PTL

\* Whatever the tree of tags and whichever services of a host have one, resolveTags of
\* os/classifier.go resolves the host exactly when any two of its tags are compatible, to the
\* tag below all the others.
THEOREM ResolvesMostSpecificTheorem == Spec => []ResolvesMostSpecific
<1>1. ASSUME NEW serviceTags \in [1 .. 4 -> Tags \cup {NoTag}] PROVE MostSpecific(serviceTags)
  <2>1. serviceTags \in Seq(Tags \cup {NoTag})
    BY SeqDef
  <2> QED
    BY <2>1, ResolvesAll
<1>2. ResolvesMostSpecific
  BY <1>1 DEF ResolvesMostSpecific
<1> QED
  BY <1>2, PTL
=============================================================================
