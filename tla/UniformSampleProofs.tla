------------------------- MODULE UniformSampleProofs -------------------------
(***************************************************************************)
(* Proofs about UniformSample for sources of every length, filtered or     *)
(* not, every minimum and every set of percentages, and any number of      *)
(* failed, killed and repeated runs.  IInv is the inductive invariant.     *)
(***************************************************************************)
EXTENDS UniformSample, FiniteSetTheorems, WellFoundedInduction, TLAPS

\* The rows selected so far all lie before the current row of the pass.
SelectedBehind == \A i \in DOMAIN selected : selected[i] < row

(***************************************************************************)
(* The counters of the second pass.  While rows are left the remainder of  *)
(* the sample fits into them; once they are used up both counters run into *)
(* the negative together, which keeps the pass from drawing and makes the  *)
(* accounting check refuse the result.                                     *)
(***************************************************************************)
CountersInv ==
    /\ remainingRows = total - processed
    /\ Len(selected) = Wanted - remainingWanted
    /\ \/ remainingRows >= 0 /\ remainingWanted \in 0 .. remainingRows
       \/ remainingRows < 0 /\ remainingWanted = remainingRows

PassInv ==
    /\ pc \in {"count", "plan"} => selected = <<>> /\ processed = 0
    /\ pc = "count" => total < row
    /\ pc = "plan" => row = 1
    /\ pc = "sample" => CountersInv /\ SelectedBehind
    /\ pc \in {"sample", "publish"} => InSourceOrder(selected)
    /\ pc = "publish" => Len(selected) = Wanted

(***************************************************************************)
(* The files.  No step before the metadata is written can leave metadata   *)
(* without a sample, or beside a sample it does not describe.              *)
(***************************************************************************)
FilesInv ==
    /\ metadata.exists =>
          /\ output.exists
          /\ InSourceOrder(output.rows)
          /\ Len(output.rows) = FixedBaseSampleSize(metadata.eligible, Minimum, metadata.percent)
    /\ pc \in {"count", "plan", "sample", "publish", "metadata"} => ~metadata.exists
    /\ pc = "metadata" => output.exists
    /\ outcome \in {"created", "reused"} =>
          pc = "exit" /\ metadata.exists /\ metadata.percent = percent

(***************************************************************************)
(* The probability of the draws.  What is left to be drawn is as uniform   *)
(* as the whole: the samples of the remainder are as many as the draws so  *)
(* far leave of all samples.                                               *)
(***************************************************************************)
Samples == choose(total, Wanted)

Remainders == choose(remainingRows, remainingWanted)

LikelihoodInv ==
    /\ pc \in {"count", "plan"} => likelihood = Certain
    /\ pc = "sample" /\ remainingRows >= 0 =>
          likelihood.num * Samples = likelihood.den * Remainders
    /\ pc = "publish" => likelihood.num * Samples = likelihood.den

IInv == TypeOK /\ PassInv /\ FilesInv /\ PublishedExact /\ LikelihoodInv /\ Uniform

-----------------------------------------------------------------------------
(* Facts about the operators *)

\* A sample is never larger than what it is taken from.
LEMMA SampleSizeBound ==
    ASSUME NEW rows \in Nat, NEW percentage \in 1 .. 100
    PROVE FixedBaseSampleSize(rows, Minimum, percentage) \in 0 .. rows
BY UniformSampleAssumption DEF FixedBaseSampleSize

\* The ways to take a row can be counted.
LEMMA TakingCounted == remainingRows \in Int => Cardinality(Taking) \in Int
<1> SUFFICES ASSUME remainingRows \in Int PROVE Cardinality(Taking) \in Int
  OBVIOUS
<1>1. IsFiniteSet(0 .. remainingRows - 1)
  BY FS_Interval
<1>2. Taking \subseteq 0 .. remainingRows - 1
  BY DEF Taking
<1>3. IsFiniteSet(Taking)
  BY <1>1, <1>2, FS_Subset
<1>4. Cardinality(Taking) \in Nat
  BY <1>3, FS_CardinalityType
<1> QED
  BY <1>4

\* Appending a later eligible row keeps a selection in source order.
LEMMA AppendInOrder ==
    ASSUME TypeOK, InSourceOrder(selected), SelectedBehind,
           row <= Len(source), source[row]
    PROVE /\ InSourceOrder(Append(selected, row))
          /\ \A i \in DOMAIN Append(selected, row) : Append(selected, row)[i] < row + 1
<1>1. /\ selected \in Seq(Nat) /\ row \in Nat /\ row \in DOMAIN source
      /\ DOMAIN source = 1 .. Len(source)
  BY DEF TypeOK
<1> DEFINE longer == Append(selected, row)
<1>2. /\ DOMAIN longer = 1 .. Len(selected) + 1
      /\ \A i \in 1 .. Len(selected) : longer[i] = selected[i]
      /\ longer[Len(selected) + 1] = row
  BY <1>1
<1>3. /\ DOMAIN selected = 1 .. Len(selected) /\ Len(selected) \in Nat
      /\ \A i \in DOMAIN selected : selected[i] \in Nat
  BY <1>1
<1> HIDE DEF longer
<1>4. \A i \in DOMAIN longer : longer[i] \in DOMAIN source /\ source[longer[i]]
  BY <1>1, <1>2, <1>3 DEF InSourceOrder
<1>5. \A i, j \in DOMAIN longer : i < j => longer[i] < longer[j]
  BY <1>1, <1>2, <1>3 DEF InSourceOrder, SelectedBehind
<1>6. \A i \in DOMAIN longer : longer[i] < row + 1
  BY <1>1, <1>2, <1>3 DEF SelectedBehind
<1> QED
  BY <1>4, <1>5, <1>6 DEF InSourceOrder, longer

\* An initial source is a sequence of flags.
LEMMA SourcesType == Sources \subseteq Seq(BOOLEAN)
<1> SUFFICES ASSUME NEW n \in 0 .. MaxRows,
                    NEW f \in [1 .. n -> IF Filtered THEN BOOLEAN ELSE {TRUE}]
             PROVE f \in Seq(BOOLEAN)
  BY DEF Sources
<1>1. n \in Nat
  BY UniformSampleAssumption
<1>2. f \in [1 .. n -> BOOLEAN]
  BY Zenon
<1> QED
  BY <1>1, <1>2

-----------------------------------------------------------------------------
(* Binomial coefficients *)

\* Induction over the numbers that are in a set.
LEMMA Induction ==
    ASSUME NEW T, 0 \in T, \A n \in Nat : n \in T => n + 1 \in T
    PROVE Nat \subseteq T
<1> DEFINE Bad == Nat \ T
<1>1. SUFFICES ASSUME Bad # {} PROVE FALSE
  OBVIOUS
<1>2. PICK m \in Bad : \A y \in Bad : ~ (<<y, m>> \in OpToRel(<, Nat))
  BY <1>1, NatLessThanWellFounded, WFMin
<1>3. \A y \in Bad : ~(y < m)
  BY <1>2 DEF OpToRel
<1>4. m # 0 /\ m - 1 \in Nat /\ m - 1 \in T
  BY <1>3
<1> QED
  BY <1>4

\* f is the recursion of factorial over the numbers up to n.
Factorials(f, n) ==
    /\ f \in [0 .. n -> Nat \ {0}]
    /\ f[0] = 1
    /\ \A i \in 1 .. n : f[i] = i * f[i - 1]

LEMMA FactorialsExist == \A n \in Nat : \E f : Factorials(f, n)
<1> DEFINE T == {n \in Nat : \E f : Factorials(f, n)}
<1>1. 0 \in T
  <2> DEFINE f == [i \in 0 .. 0 |-> 1]
  <2>1. f \in [0 .. 0 -> Nat \ {0}] /\ f[0] = 1 /\ 1 .. 0 = {}
    OBVIOUS
  <2> HIDE DEF f
  <2>2. Factorials(f, 0)
    BY <2>1 DEF Factorials
  <2> QED
    BY <2>2
<1>2. ASSUME NEW n \in Nat, n \in T PROVE n + 1 \in T
  <2>1. PICK g : Factorials(g, n)
    BY <1>2
  <2>2. /\ g \in [0 .. n -> Nat \ {0}] /\ g[0] = 1
        /\ \A i \in 1 .. n : g[i] = i * g[i - 1]
    BY <2>1 DEF Factorials
  <2> DEFINE e == (n + 1) * g[n]
             f == [i \in 0 .. n + 1 |-> IF i = n + 1 THEN e ELSE g[i]]
  <2>3. e \in Nat \ {0}
    <3>1. g[n] \in Nat \ {0}
      BY <2>2
    <3>2. \A x, y \in Nat \ {0} : x * y \in Nat \ {0}
      OBVIOUS
    <3> QED
      BY <3>1, <3>2
  <2>4. f[n + 1] = e /\ \A i \in 0 .. n : f[i] = g[i]
    OBVIOUS
  <2> HIDE DEF e
  <2>5. f \in [0 .. n + 1 -> Nat \ {0}]
    BY <2>2, <2>3
  <2> HIDE DEF f
  <2>6. \A i \in 1 .. n + 1 : f[i] = i * f[i - 1]
    <3> SUFFICES ASSUME NEW i \in 1 .. n + 1 PROVE f[i] = i * f[i - 1]
      OBVIOUS
    <3>1. CASE i = n + 1
      <4>1. i - 1 = n /\ i - 1 \in 0 .. n
        BY <3>1
      <4>2. f[i - 1] = g[n] /\ f[i] = (n + 1) * g[n]
        BY <2>4, <3>1, <4>1 DEF e
      <4> QED
        BY <3>1, <4>2
    <3>2. CASE i \in 1 .. n
      <4>1. i \in 0 .. n /\ i - 1 \in 0 .. n
        BY <3>2
      <4>2. f[i] = g[i] /\ f[i - 1] = g[i - 1] /\ g[i] = i * g[i - 1]
        BY <2>2, <2>4, <3>2, <4>1
      <4> QED
        BY <4>2
    <3> QED
      BY <3>1, <3>2
  <2>7. f[0] = 1
    BY <2>2, <2>4
  <2>8. Factorials(f, n + 1)
    BY <2>5, <2>6, <2>7 DEF Factorials
  <2> QED
    BY <2>8
<1>3. Nat \subseteq T
  <2> HIDE DEF T
  <2> QED
    BY <1>1, <1>2, Induction
<1> QED
  BY <1>3

LEMMA FactorialsAgree ==
    ASSUME NEW n \in Nat, NEW m \in Nat, NEW f, NEW g, Factorials(f, n), Factorials(g, m)
    PROVE  \A i \in Nat : i <= n /\ i <= m => f[i] = g[i]
<1> DEFINE T == {i \in Nat : i <= n /\ i <= m => f[i] = g[i]}
<1>1. 0 \in T
  BY DEF Factorials
<1>2. ASSUME NEW i \in Nat, i \in T PROVE i + 1 \in T
  <2> SUFFICES ASSUME i + 1 <= n, i + 1 <= m PROVE f[i + 1] = g[i + 1]
    OBVIOUS
  <2>1. f[i] = g[i]
    BY <1>2
  <2>2. i + 1 \in 1 .. n /\ i + 1 \in 1 .. m /\ (i + 1) - 1 = i
    OBVIOUS
  <2>3. f[i + 1] = (i + 1) * f[(i + 1) - 1] /\ g[i + 1] = (i + 1) * g[(i + 1) - 1]
    BY <2>2 DEF Factorials
  <2> QED
    BY <2>1, <2>2, <2>3
<1>3. Nat \subseteq T
  <2> HIDE DEF T
  <2> QED
    BY <1>1, <1>2, Induction
<1> QED
  BY <1>3

\* factorial is what its recursion says.
LEMMA FactorialDef ==
    /\ factorial[0] = 1
    /\ \A n \in Nat : factorial[n + 1] = (n + 1) * factorial[n]
    /\ \A n \in Nat : factorial[n] \in Nat \ {0}
<1> DEFINE F(n) == CHOOSE f : Factorials(f, n)
           G == [n \in Nat |-> F(n)[n]]
<1>1. \A n \in Nat : Factorials(F(n), n)
  BY FactorialsExist
<1>2. \A n \in Nat : G[n] = F(n)[n]
  OBVIOUS
<1>t. G = [n \in Nat |-> G[n]]
  OBVIOUS
<1> HIDE DEF F, G
<1>3. G[0] = 1
  BY <1>1, <1>2 DEF Factorials
<1>4. ASSUME NEW n \in Nat, n # 0 PROVE G[n] = n * G[n - 1]
  <2>1. n \in 1 .. n /\ n - 1 \in Nat /\ n - 1 <= n /\ n - 1 <= n - 1
    BY <1>4
  <2>2. F(n)[n] = n * F(n)[n - 1]
    BY <1>1, <2>1 DEF Factorials
  <2>3. F(n)[n - 1] = F(n - 1)[n - 1]
    BY <1>1, <2>1, FactorialsAgree
  <2> QED
    BY <1>2, <2>1, <2>2, <2>3
<1>5. G = [n \in Nat |-> IF n = 0 THEN 1 ELSE n * G[n - 1]]
  BY <1>3, <1>4, <1>t
<1>6. factorial = [n \in Nat |-> IF n = 0 THEN 1 ELSE n * factorial[n - 1]]
  BY <1>5 DEF factorial
<1>7. factorial[0] = 1
  BY <1>6
<1>8. \A n \in Nat : factorial[n + 1] = (n + 1) * factorial[n]
  <2> TAKE n \in Nat
  <2>1. n + 1 \in Nat /\ n + 1 # 0 /\ (n + 1) - 1 = n
    OBVIOUS
  <2>2. factorial[n + 1] = (n + 1) * factorial[(n + 1) - 1]
    BY <1>6, <2>1
  <2> QED
    BY <2>1, <2>2
<1> DEFINE T == {n \in Nat : factorial[n] \in Nat \ {0}}
<1>9. Nat \subseteq T
  <2>1. 0 \in T
    BY <1>7
  <2>2. ASSUME NEW n \in Nat, n \in T PROVE n + 1 \in T
    <3>1. \A x, y \in Nat \ {0} : x * y \in Nat \ {0}
      OBVIOUS
    <3>2. n + 1 \in Nat \ {0} /\ factorial[n] \in Nat \ {0}
      BY <2>2
    <3>3. (n + 1) * factorial[n] \in Nat \ {0}
      BY <3>1, <3>2
    <3> QED
      BY <1>8, <3>3
  <2> HIDE DEF T
  <2> QED
    BY <2>1, <2>2, Induction
<1> QED
  BY <1>7, <1>8, <1>9

\* Arithmetic of products.
LEMMA Products ==
    \A a, b, c, k \in Int : /\ k * (c * (a * b)) = c * ((k * a) * b)
                            /\ k * (c * (a * b)) = c * (a * (k * b))
                            /\ (a + b) * c = a * c + b * c
                            /\ a * b = b * a
                            /\ a * (b * c) = (a * b) * c
OBVIOUS

LEMMA Cancel ==
    ASSUME NEW w \in Nat \ {0}, NEW x \in Int, NEW y \in Int, w * x = w * y
    PROVE  x = y
<1>1. \A z \in Nat : z > 0 => w * z > 0
  OBVIOUS
<1>2. x > y => w * (x - y) > 0
  BY <1>1
<1>3. y > x => w * (y - x) > 0
  BY <1>1
<1>4. w * (x - y) = w * x - w * y /\ w * (y - x) = w * y - w * x
  OBVIOUS
<1>5. w * x \in Int /\ w * y \in Int
  OBVIOUS
<1> QED
  BY <1>2, <1>3, <1>4, <1>5

LEMMA DivExact ==
    ASSUME NEW c \in Nat, NEW w \in Nat \ {0}
    PROVE  (c * w) \div w = c
<1> DEFINE a == c * w
           q == a \div w
<1>1. a \in Nat /\ q \in Int /\ a = w * q + (a % w) /\ a % w \in 0 .. w - 1
  <2>1. a \in Nat
    OBVIOUS
  <2> HIDE DEF a
  <2> QED
    BY <2>1
<1>2. a = w * c
  OBVIOUS
<1> HIDE DEF a, q
<1>3. w * c - w * q \in 0 .. w - 1
  <2>1. w * q \in Int /\ w * c \in Int
    BY <1>1
  <2> QED
    BY <1>1, <1>2, <2>1
<1>4. w * (c - q) \in 0 .. w - 1
  <2>1. w * (c - q) = w * c - w * q
    BY <1>1
  <2> QED
    BY <1>3, <2>1
<1>5. \A z \in Int : z >= 1 => w * z >= w
  OBVIOUS
<1>6. \A z \in Int : z <= -1 => w * z < 0
  OBVIOUS
<1>7. c - q \in Int /\ ~(c - q >= 1) /\ ~(c - q <= -1)
  <2> DEFINE z == c - q
             y == w * z
  <2>1. z \in Int
    BY <1>1
  <2>2. y \in 0 .. w - 1 /\ (z >= 1 => y >= w) /\ (z <= -1 => y < 0)
    BY <1>4, <1>5, <1>6, <2>1
  <2> HIDE DEF y
  <2> QED
    BY <2>1, <2>2
<1>8. q = c
  BY <1>1, <1>7
<1> QED
  BY <1>8 DEF a, q

\* The product of the factorials of the two parts.
Parts(n, k) == factorial[k] * factorial[n - k]

LEMMA PartsType ==
    ASSUME NEW n \in Nat, NEW k \in 0 .. n
    PROVE  Parts(n, k) \in Nat \ {0}
<1>1. k \in Nat /\ n - k \in Nat
  OBVIOUS
<1>2. factorial[k] \in Nat \ {0} /\ factorial[n - k] \in Nat \ {0}
  BY <1>1, FactorialDef
<1>3. \A x, y \in Nat \ {0} : x * y \in Nat \ {0}
  OBVIOUS
<1> QED
  BY <1>2, <1>3 DEF Parts

\* The parts of the larger numbers.
LEMMA PartsGrow ==
    ASSUME NEW n \in Nat
    PROVE  /\ \A k \in 0 .. n : \A c \in Int :
                 (k + 1) * (c * Parts(n, k)) = c * Parts(n + 1, k + 1)
           /\ \A k \in 0 .. n : \A c \in Int :
                 (n + 1 - k) * (c * Parts(n, k)) = c * Parts(n + 1, k)
           /\ Parts(n, 0) = factorial[n] /\ Parts(n, n) = factorial[n]
<1>1. ASSUME NEW k \in 0 .. n, NEW c \in Int
      PROVE  (k + 1) * (c * Parts(n, k)) = c * Parts(n + 1, k + 1)
  <2>1. k \in Nat /\ n - k \in Nat /\ (n + 1) - (k + 1) = n - k
    OBVIOUS
  <2>2. factorial[k + 1] = (k + 1) * factorial[k]
    BY <2>1, FactorialDef
  <2>3. factorial[k] \in Int /\ factorial[n - k] \in Int /\ k + 1 \in Int
    BY <2>1, FactorialDef
  <2>4. (k + 1) * (c * (factorial[k] * factorial[n - k]))
          = c * (((k + 1) * factorial[k]) * factorial[n - k])
    BY <2>3, Products
  <2> QED
    BY <2>1, <2>2, <2>4 DEF Parts
<1>2. ASSUME NEW k \in 0 .. n, NEW c \in Int
      PROVE  (n + 1 - k) * (c * Parts(n, k)) = c * Parts(n + 1, k)
  <2>1. k \in Nat /\ n - k \in Nat /\ n + 1 - k = (n - k) + 1 /\ (n + 1) - k = (n - k) + 1
    OBVIOUS
  <2>2. factorial[(n - k) + 1] = ((n - k) + 1) * factorial[n - k]
    BY <2>1, FactorialDef
  <2>3. factorial[k] \in Int /\ factorial[n - k] \in Int /\ (n - k) + 1 \in Int
    BY <2>1, FactorialDef
  <2>4. ((n - k) + 1) * (c * (factorial[k] * factorial[n - k]))
          = c * (factorial[k] * (((n - k) + 1) * factorial[n - k]))
    BY <2>3, Products
  <2> QED
    BY <2>1, <2>2, <2>4 DEF Parts
<1>3. Parts(n, 0) = factorial[n] /\ Parts(n, n) = factorial[n]
  <2>1. factorial[0] = 1 /\ factorial[n] \in Int /\ n - 0 = n /\ n - n = 0
    BY FactorialDef
  <2> QED
    BY <2>1 DEF Parts
<1> QED
  BY <1>1, <1>2, <1>3

\* They divide the factorial of the whole, by the recursion of Pascal.
LEMMA PartsDivide ==
    \A n \in Nat : \A k \in 0 .. n : \E c \in Nat : factorial[n] = c * Parts(n, k)
<1> DEFINE T == {n \in Nat : \A k \in 0 .. n : \E c \in Nat : factorial[n] = c * Parts(n, k)}
<1>e. ASSUME NEW n \in Nat, NEW k \in {0, n} PROVE \E c \in Nat : factorial[n] = c * Parts(n, k)
  <2>1. factorial[n] \in Nat /\ Parts(n, k) = factorial[n]
    BY PartsGrow, FactorialDef
  <2>2. factorial[n] = 1 * Parts(n, k)
    BY <2>1
  <2> QED
    BY <2>2
<1>1. 0 \in T
  <2>1. \A k \in 0 .. 0 : k = 0
    OBVIOUS
  <2> QED
    BY <1>e, <2>1
<1>2. ASSUME NEW n \in Nat, n \in T PROVE n + 1 \in T
  <2> SUFFICES ASSUME NEW k \in 0 .. n + 1
               PROVE \E c \in Nat : factorial[n + 1] = c * Parts(n + 1, k)
    OBVIOUS
  <2>0. n + 1 \in Nat
    OBVIOUS
  <2>1. CASE k \in {0, n + 1}
    BY <1>e, <2>0, <2>1
  <2>2. CASE k \notin {0, n + 1}
    <3> DEFINE j == k - 1
    <3>1. j \in 0 .. n /\ k \in 0 .. n /\ j + 1 = k /\ n + 1 - k \in Int /\ k \in Int
      BY <2>2
    <3>2. PICK c \in Nat : factorial[n] = c * Parts(n, j)
      BY <1>2, <3>1
    <3>3. PICK d \in Nat : factorial[n] = d * Parts(n, k)
      BY <1>2, <3>1
    <3> HIDE DEF j
    <3>4. k * factorial[n] = c * Parts(n + 1, k)
      BY <3>1, <3>2, PartsGrow
    <3>5. (n + 1 - k) * factorial[n] = d * Parts(n + 1, k)
      BY <3>1, <3>3, PartsGrow
    <3>6. factorial[n] \in Int /\ Parts(n + 1, k) \in Int
      <4>1. factorial[n] \in Nat
        BY FactorialDef
      <4>2. Parts(n + 1, k) \in Nat \ {0}
        BY <2>0, PartsType
      <4> QED
        BY <4>1, <4>2
    <3>7. factorial[n + 1] = (n + 1) * factorial[n]
      BY FactorialDef
    <3>8. (k + (n + 1 - k)) * factorial[n] = k * factorial[n] + (n + 1 - k) * factorial[n]
      BY <3>1, <3>6, Products
    <3>9. (c + d) * Parts(n + 1, k) = c * Parts(n + 1, k) + d * Parts(n + 1, k)
      BY <3>6, Products
    <3>10. k + (n + 1 - k) = n + 1 /\ c + d \in Nat
      BY <3>1
    <3>11. factorial[n + 1] = (c + d) * Parts(n + 1, k)
      BY <3>4, <3>5, <3>7, <3>8, <3>9, <3>10
    <3> QED
      BY <3>10, <3>11
  <2> QED
    BY <2>1, <2>2
<1>3. Nat \subseteq T
  <2> HIDE DEF T
  <2> QED
    BY <1>1, <1>2, Induction
<1> QED
  BY <1>3

\* So the quotient is exact.
LEMMA ChooseExact ==
    ASSUME NEW n \in Nat, NEW k \in 0 .. n
    PROVE  choose(n, k) \in Nat /\ factorial[n] = choose(n, k) * Parts(n, k)
<1>1. PICK c \in Nat : factorial[n] = c * Parts(n, k)
  BY PartsDivide
<1>2. choose(n, k) = factorial[n] \div Parts(n, k)
  BY DEF choose, Parts
<1>3. choose(n, k) = c
  BY <1>1, <1>2, PartsType, DivExact
<1> QED
  BY <1>1, <1>3

\* The ends of a row of the triangle, and the step from one row to the next: the ways to
\* choose, with and without one of the things.
LEMMA ChooseSteps ==
    ASSUME NEW n \in Nat
    PROVE  /\ choose(n, n) = 1 /\ choose(n, 0) = 1
           /\ \A k \in 0 .. n : (n + 1) * choose(n, k) = (k + 1) * choose(n + 1, k + 1)
           /\ \A k \in 0 .. n : (n + 1) * choose(n, k) = (n + 1 - k) * choose(n + 1, k)
<1>f. factorial[n] \in Nat \ {0} /\ factorial[n + 1] = (n + 1) * factorial[n]
  BY FactorialDef
<1>1. choose(n, n) = 1 /\ choose(n, 0) = 1
  <2> DEFINE w == factorial[n]
  <2>1. 0 \in 0 .. n /\ n \in 0 .. n
    OBVIOUS
  <2>2. w = choose(n, n) * w /\ w = choose(n, 0) * w /\ choose(n, n) \in Int /\ choose(n, 0) \in Int
    BY <2>1, ChooseExact, PartsGrow
  <2>3. w \in Nat \ {0}
    BY <1>f
  <2> HIDE DEF w
  <2>4. \A c \in Int : w = c * w => c = 1
    <3> SUFFICES ASSUME NEW c \in Int, w = c * w PROVE c = 1
      OBVIOUS
    <3>1. w * c = w * 1
      BY <2>3
    <3> QED
      BY <2>3, <3>1, Cancel
  <2> QED
    BY <2>2, <2>4
\* Both sides times the parts are the factorial of n + 1.
<1>2. ASSUME NEW k \in 0 .. n, NEW j \in {k, k + 1}, NEW m \in Int,
             m * (choose(n, k) * Parts(n, k)) = choose(n, k) * Parts(n + 1, j)
      PROVE  (n + 1) * choose(n, k) = m * choose(n + 1, j)
  <2> DEFINE x == choose(n, k)
             y == choose(n + 1, j)
             w == Parts(n + 1, j)
  <2>1. n + 1 \in Nat /\ j \in 0 .. n + 1
    OBVIOUS
  <2>2. x \in Int /\ y \in Int /\ w \in Nat \ {0}
    BY <2>1, ChooseExact, PartsType
  <2>3. m * factorial[n] = x * w
    BY <1>2, ChooseExact
  <2>4. (n + 1) * factorial[n] = y * w
    BY <1>f, <2>1, ChooseExact
  <2> HIDE DEF x, y, w
  <2>5. \A f, p \in Int : m * f = x * w /\ p * f = y * w => w * (p * x) = w * (m * y)
    <3> SUFFICES ASSUME NEW f \in Int, NEW p \in Int, m * f = x * w, p * f = y * w
                 PROVE  w * (p * x) = w * (m * y)
      OBVIOUS
    <3>1. w * (p * x) = p * (x * w) /\ w * (m * y) = m * (y * w)
      BY <2>2
    <3>2. p * (m * f) = m * (p * f)
      OBVIOUS
    <3> QED
      BY <3>1, <3>2
  <2>6. w * ((n + 1) * x) = w * (m * y)
    BY <1>f, <2>3, <2>4, <2>5
  <2>7. (n + 1) * x \in Int /\ m * y \in Int
    BY <2>2
  <2>8. (n + 1) * x = m * y
    BY <2>2, <2>6, <2>7, Cancel
  <2> QED
    BY <2>8 DEF x, y
<1>3. ASSUME NEW k \in 0 .. n
      PROVE  /\ (n + 1) * choose(n, k) = (k + 1) * choose(n + 1, k + 1)
             /\ (n + 1) * choose(n, k) = (n + 1 - k) * choose(n + 1, k)
  <2>1. choose(n, k) \in Int /\ k + 1 \in Int /\ n + 1 - k \in Int
    BY ChooseExact
  <2>2. (k + 1) * (choose(n, k) * Parts(n, k)) = choose(n, k) * Parts(n + 1, k + 1)
    BY <2>1, PartsGrow
  <2>3. (n + 1 - k) * (choose(n, k) * Parts(n, k)) = choose(n, k) * Parts(n + 1, k)
    BY <2>1, PartsGrow
  <2> QED
    BY <1>2, <2>1, <2>2, <2>3
<1> QED
  BY <1>1, <1>3

-----------------------------------------------------------------------------
(* The inductive steps *)

\* Every step keeps every variable in its type.
LEMMA TypeStep == TypeOK /\ PassInv /\ [Next]_vars => TypeOK'
<1> SUFFICES ASSUME TypeOK, PassInv, [Next]_vars PROVE TypeOK'
  OBVIOUS
<1> USE UniformSampleAssumption
<1> USE DEF TypeOK, Exit, planVars, countVars, drawVars, fileVars, Points, Outcomes,
            Metadata
<1>w. Wanted \in 0 .. total
  <2>1. total \in Nat /\ percent \in 1 .. 100
    OBVIOUS
  <2> QED
    BY <2>1, SampleSizeBound DEF Wanted
<1>1. CASE Start
  BY <1>1 DEF Start, Certain, InitialTotal
<1>2. CASE ValidateExisting
  BY <1>2 DEF ValidateExisting
<1>3. CASE CountRow
  <2>1. row' \in 1 .. Len(source) + 1 /\ total' \in 0 .. Len(source)
    BY <1>3 DEF CountRow, PassInv
  <2> QED
    BY <1>3, <2>1 DEF CountRow
<1>4. CASE CountEnds
  BY <1>4 DEF CountEnds
<1>5. CASE Plan
  BY <1>5, <1>w DEF Plan
<1>6. CASE SampleRow
  <2>1. /\ Append(selected, row) \in Seq(Nat) /\ Cardinality(Taking) \in Int
        /\ row + 1 \in 1 .. Len(source) + 1 /\ row' = row + 1
    BY <1>6, TakingCounted DEF SampleRow
  <2>2. likelihood' \in [num : Int, den : Int]
    <3>1. \A ways \in Int : Times(likelihood, ways) \in [num : Int, den : Int]
      BY DEF Times
    <3>2. remainingRows - Cardinality(Taking) \in Int
      BY <2>1
    <3>3. \/ likelihood' = likelihood
          \/ likelihood' = Times(likelihood, Cardinality(Taking))
          \/ likelihood' = Times(likelihood, remainingRows - Cardinality(Taking))
      BY <1>6 DEF SampleRow
    <3> QED
      BY <2>1, <3>1, <3>2, <3>3
  <2>3. /\ selected' \in Seq(Nat) /\ processed' \in Nat
        /\ remainingRows' \in Int /\ remainingWanted' \in Int
    <3>1. TakeRow \/ LeaveRow \/ UNCHANGED drawVars
      BY <1>6 DEF SampleRow
    <3>2. CASE TakeRow
      BY <2>1, <3>2 DEF TakeRow
    <3>3. CASE LeaveRow
      BY <3>3 DEF LeaveRow
    <3>4. CASE UNCHANGED drawVars
      BY <3>4
    <3> QED
      BY <3>1, <3>2, <3>3, <3>4
  <2> QED
    BY <1>6, <2>1, <2>2, <2>3 DEF SampleRow
<1>7. CASE SampleEnds
  BY <1>7 DEF SampleEnds
<1>8. CASE Publish
  BY <1>8 DEF Publish
<1>9. CASE WriteMetadata
  BY <1>9, <1>w DEF WriteMetadata
<1>10. CASE MetadataFails
  <2>1. NoSample \in [exists : BOOLEAN, rows : Seq(Nat)]
    BY DEF NoSample
  <2> QED
    BY <1>10, <2>1 DEF MetadataFails
<1>11. CASE Fails
  BY <1>11 DEF Fails
<1>12. CASE Killed
  BY <1>12 DEF Killed
<1>13. CASE UNCHANGED vars
  BY <1>13 DEF vars, planVars
<1> QED
  BY <1>1, <1>2, <1>3, <1>4, <1>5, <1>6, <1>7, <1>8, <1>9, <1>10, <1>11, <1>12, <1>13
     DEF Next, Over

\* The counters of the pass keep in step with the rows read.
LEMMA PassStep == TypeOK /\ PassInv /\ [Next]_vars => PassInv'
<1> SUFFICES ASSUME TypeOK, PassInv, [Next]_vars PROVE PassInv'
  OBVIOUS
<1> USE DEF PassInv, Exit, planVars, countVars, drawVars, fileVars
<1>t. /\ total \in 0 .. Len(source) /\ percent \in 1 .. 100 /\ total \in Nat
      /\ row \in Nat /\ row <= Len(source) + 1 /\ Len(source) \in Nat
      /\ selected \in Seq(Nat) /\ processed \in Nat
      /\ remainingRows \in Int /\ remainingWanted \in Int
  BY UniformSampleAssumption DEF TypeOK
<1>w. Wanted \in 0 .. total
  BY <1>t, SampleSizeBound DEF Wanted
<1>e. InSourceOrder(<<>>)
  BY DEF InSourceOrder
<1>1. CASE Start
  <2>1. total' = InitialTotal /\ row' = 1 /\ selected' = <<>> /\ processed' = 0
    BY <1>1 DEF Start
  <2>2. pc' \in {"validate", "count", "plan"} /\ (pc' = "count" => Filtered)
    BY <1>1 DEF Start
  <2> QED
    BY <2>1, <2>2 DEF InitialTotal
<1>2. CASE ValidateExisting
  BY <1>2, <1>t DEF ValidateExisting
<1>3. CASE CountRow
  BY <1>3, <1>t DEF CountRow
<1>4. CASE CountEnds
  BY <1>4, <1>t DEF CountEnds
<1>5. CASE Plan
  <2>1. CASE pc' = "exit"
    BY <2>1
  <2>2. CASE pc' = "sample" /\ remainingRows' = total /\ remainingWanted' = Wanted
    <3>1. /\ UNCHANGED <<source, total, percent, row, processed, selected>>
          /\ selected = <<>> /\ processed = 0
      BY <1>5 DEF Plan
    <3>2. Wanted' = Wanted
      BY <3>1 DEF Wanted
    <3>3. CountersInv' /\ SelectedBehind'
      BY <1>t, <1>w, <2>2, <3>1, <3>2 DEF CountersInv, SelectedBehind
    <3>4. InSourceOrder(selected)'
      BY <3>1 DEF InSourceOrder
    <3> QED
      BY <2>2, <3>3, <3>4
  <2> QED
    BY <1>5, <2>1, <2>2 DEF Plan
<1>6. CASE SampleRow
  <2>0. /\ UNCHANGED <<source, total, percent, pc>> /\ pc = "sample"
        /\ row <= Len(source) /\ row' = row + 1
    BY <1>6 DEF SampleRow
  <2>1. Wanted' = Wanted
    BY <2>0 DEF Wanted
  <2>2. CASE source[row] /\ TakeRow /\ (Forced \/ Draws)
    <3>1. selected' = Append(selected, row) /\ Len(selected') = Len(selected) + 1
      BY <1>t, <2>2 DEF TakeRow
    <3>2. InSourceOrder(selected)' /\ SelectedBehind'
      BY <2>0, <2>2, <3>1, AppendInOrder DEF InSourceOrder, SelectedBehind
    <3>3. CountersInv'
      <4>1. /\ remainingRows' = remainingRows - 1 /\ processed' = processed + 1
            /\ remainingWanted' = remainingWanted - 1
        BY <2>2 DEF TakeRow
      <4>2. Len(selected) \in Nat /\ Wanted \in Int
        BY <1>t, <1>w
      <4>3. /\ remainingRows = total - processed
            /\ Len(selected) = Wanted - remainingWanted
            /\ \/ remainingRows >= 0 /\ remainingWanted \in 0 .. remainingRows
               \/ remainingRows < 0 /\ remainingWanted = remainingRows
        BY <2>0 DEF CountersInv
      <4>4. /\ remainingRows' = total' - processed'
            /\ Len(selected') = Wanted' - remainingWanted'
        BY <1>t, <2>0, <2>1, <3>1, <4>1, <4>2, <4>3
      <4>5. \/ remainingRows' >= 0 /\ remainingWanted' \in 0 .. remainingRows'
            \/ remainingRows' < 0 /\ remainingWanted' = remainingRows'
        BY <1>t, <2>2, <4>1, <4>3 DEF Forced, Draws
      <4> QED
        BY <4>4, <4>5 DEF CountersInv
    <3> QED
      BY <2>0, <3>2, <3>3
  <2>3. CASE LeaveRow /\ ~Forced
    <3>1. InSourceOrder(selected)' /\ SelectedBehind'
      BY <1>t, <2>0, <2>3 DEF LeaveRow, InSourceOrder, SelectedBehind
    <3>2. CountersInv'
      BY <1>t, <1>w, <2>0, <2>1, <2>3 DEF CountersInv, LeaveRow, Forced
    <3> QED
      BY <2>0, <3>1, <3>2
  <2>4. CASE UNCHANGED drawVars
    <3>1. InSourceOrder(selected)' /\ SelectedBehind' /\ CountersInv'
      BY <1>t, <2>0, <2>1, <2>4 DEF InSourceOrder, SelectedBehind, CountersInv
    <3> QED
      BY <2>0, <3>1
  <2> QED
    BY <1>6, <2>2, <2>3, <2>4 DEF SampleRow, Draws
<1>7. CASE SampleEnds
  <2>1. UNCHANGED <<source, total, percent, selected>> /\ pc = "sample"
    BY <1>7 DEF SampleEnds
  <2>2. Wanted' = Wanted /\ (InSourceOrder(selected)' <=> InSourceOrder(selected))
    BY <2>1 DEF Wanted, InSourceOrder
  <2>3. AccountsBalance => Len(selected) = Wanted
    BY <1>t, <1>w, <2>1 DEF AccountsBalance, CountersInv
  <2> QED
    BY <1>7, <2>1, <2>2, <2>3 DEF SampleEnds
<1>8. CASE Publish
  BY <1>8, <1>t DEF Publish
<1>9. CASE WriteMetadata
  BY <1>9, <1>t DEF WriteMetadata
<1>10. CASE MetadataFails
  BY <1>10, <1>t DEF MetadataFails
<1>11. CASE Fails
  BY <1>11, <1>t DEF Fails
<1>12. CASE Killed
  BY <1>12, <1>t DEF Killed
<1>13. CASE UNCHANGED vars
  BY <1>13 DEF vars, CountersInv, SelectedBehind, InSourceOrder, Wanted
<1> QED
  BY <1>1, <1>2, <1>3, <1>4, <1>5, <1>6, <1>7, <1>8, <1>9, <1>10, <1>11, <1>12, <1>13
     DEF Next, Over

\* The files describe each other after every step.
LEMMA FilesStep == TypeOK /\ PassInv /\ FilesInv /\ PublishedExact /\ [Next]_vars => FilesInv'
<1> SUFFICES ASSUME TypeOK, PassInv, FilesInv, PublishedExact, [Next]_vars PROVE FilesInv'
  OBVIOUS
<1> USE DEF FilesInv, Exit, planVars, countVars, drawVars, fileVars, InSourceOrder
<1>1. CASE Start
  BY <1>1 DEF Start
<1>2. CASE ValidateExisting
  BY <1>2 DEF ValidateExisting, ExistingMatches
<1>3. CASE CountRow
  BY <1>3 DEF CountRow
<1>4. CASE CountEnds
  BY <1>4 DEF CountEnds
<1>5. CASE Plan
  BY <1>5 DEF Plan
<1>6. CASE SampleRow
  BY <1>6 DEF SampleRow
<1>7. CASE SampleEnds
  BY <1>7 DEF SampleEnds
<1>8. CASE Publish
  BY <1>8 DEF Publish
<1>9. CASE WriteMetadata
  <2>1. /\ metadata'.exists /\ metadata'.percent = percent
        /\ metadata'.eligible = total
        /\ UNCHANGED <<output, percent, source>> /\ pc = "metadata"
        /\ pc' = "exit"
    BY <1>9 DEF WriteMetadata
  <2>2. Len(output.rows) = FixedBaseSampleSize(total, Minimum, percent)
    BY <2>1 DEF PublishedExact, Wanted
  <2> QED
    BY <2>1, <2>2 DEF PublishedExact
<1>10. CASE MetadataFails
  BY <1>10 DEF MetadataFails
<1>11. CASE Fails
  BY <1>11 DEF Fails
<1>12. CASE Killed
  BY <1>12 DEF Killed
<1>13. CASE UNCHANGED vars
  BY <1>13 DEF vars
<1> QED
  BY <1>1, <1>2, <1>3, <1>4, <1>5, <1>6, <1>7, <1>8, <1>9, <1>10, <1>11, <1>12, <1>13
     DEF Next, Over

\* What is published is exact.
LEMMA PublishedStep == TypeOK /\ PassInv /\ PublishedExact /\ [Next]_vars => PublishedExact'
<1> SUFFICES ASSUME TypeOK, PassInv, PublishedExact, [Next]_vars PROVE PublishedExact'
  OBVIOUS
<1> USE DEF PublishedExact, Exit, planVars, countVars, drawVars, fileVars
<1>1. CASE Start
  BY <1>1 DEF Start
<1>2. CASE ValidateExisting
  BY <1>2 DEF ValidateExisting
<1>3. CASE CountRow
  BY <1>3 DEF CountRow
<1>4. CASE CountEnds
  BY <1>4 DEF CountEnds
<1>5. CASE Plan
  BY <1>5 DEF Plan
<1>6. CASE SampleRow
  BY <1>6 DEF SampleRow
<1>7. CASE SampleEnds
  BY <1>7 DEF SampleEnds
<1>8. CASE Publish
  <2>1. /\ output'.rows = selected /\ UNCHANGED <<source, total, percent>>
        /\ InSourceOrder(selected) /\ Len(selected) = Wanted
    BY <1>8 DEF Publish, PassInv
  <2> QED
    BY <2>1 DEF InSourceOrder, Wanted
<1>9. CASE WriteMetadata
  BY <1>9 DEF WriteMetadata
<1>10. CASE MetadataFails
  BY <1>10 DEF MetadataFails
<1>11. CASE Fails
  BY <1>11 DEF Fails
<1>12. CASE Killed
  BY <1>12 DEF Killed
<1>13. CASE UNCHANGED vars
  BY <1>13 DEF vars, InSourceOrder, Wanted
<1> QED
  BY <1>1, <1>2, <1>3, <1>4, <1>5, <1>6, <1>7, <1>8, <1>9, <1>10, <1>11, <1>12, <1>13
     DEF Next, Over

\* A fraction times the number of draws that have the effect of this one.
LEMMA DrawKeeps ==
    ASSUME NEW num \in Int, NEW den \in Int, NEW all \in Int, NEW left \in Int, NEW next \in Int,
           NEW rows \in Int, NEW ways \in Int,
           num * all = den * left, rows * next = ways * left
    PROVE  (num * ways) * all = (den * rows) * next
<1>1. (num * ways) * all = ways * (num * all)
  OBVIOUS
<1>2. (den * rows) * next = den * (rows * next)
  OBVIOUS
<1>3. ways * (den * left) = den * (ways * left)
  OBVIOUS
<1> QED
  BY <1>1, <1>2, <1>3

\* The draws that take a row.
LEMMA TakingSize ==
    ASSUME remainingRows \in Int, remainingWanted \in 0 .. remainingRows
    PROVE  Cardinality(Taking) = remainingWanted
<1>1. Taking = 0 .. remainingWanted - 1
  BY DEF Taking
<1>2. Cardinality(0 .. remainingWanted - 1)
        = IF 0 > remainingWanted - 1 THEN 0 ELSE (remainingWanted - 1) - 0 + 1
  BY FS_Interval
<1> QED
  BY <1>1, <1>2

\* Every row of the second pass leaves the draws uniform.
LEMMA LikelihoodStep ==
    TypeOK /\ PassInv /\ LikelihoodInv /\ Uniform /\ [Next]_vars => LikelihoodInv' /\ Uniform'
<1> SUFFICES ASSUME TypeOK, PassInv, LikelihoodInv, Uniform, [Next]_vars
             PROVE LikelihoodInv' /\ Uniform'
  OBVIOUS
<1> USE DEF LikelihoodInv, Uniform, Exit, planVars, countVars, drawVars, fileVars
<1>t. /\ total \in Nat /\ percent \in 1 .. 100 /\ remainingRows \in Int /\ remainingWanted \in Int
      /\ likelihood \in [num : Int, den : Int]
  <2>1. Len(source) \in Nat
    BY DEF TypeOK
  <2> QED
    BY <2>1, UniformSampleAssumption DEF TypeOK
<1>w. Wanted \in 0 .. total /\ Samples \in Nat
  <2>1. Wanted \in 0 .. total
    BY <1>t, SampleSizeBound DEF Wanted
  <2> QED
    BY <1>t, <2>1, ChooseExact DEF Samples
<1>s. UNCHANGED <<total, percent>> => Samples' = Samples
  BY DEF Samples, Wanted
<1>1. CASE Start
  BY <1>1 DEF Start
<1>2. CASE ValidateExisting
  BY <1>2 DEF ValidateExisting
<1>3. CASE CountRow
  BY <1>3 DEF CountRow
<1>4. CASE CountEnds
  BY <1>4 DEF CountEnds
<1>5. CASE Plan
  <2>1. CASE pc' = "exit"
    BY <2>1
  <2>2. CASE pc' = "sample" /\ remainingRows' = total /\ remainingWanted' = Wanted
    <3>1. UNCHANGED <<total, percent, likelihood>> /\ likelihood = Certain
      BY <1>5 DEF Plan
    <3>2. Samples' = Samples /\ Remainders' = Samples
      BY <1>s, <2>2, <3>1 DEF Remainders, Samples
    <3>3. likelihood'.num = 1 /\ likelihood'.den = 1
      BY <3>1 DEF Certain
    <3> QED
      BY <1>w, <2>2, <3>2, <3>3
  <2> QED
    BY <1>5, <2>1, <2>2 DEF Plan
<1>6. CASE SampleRow
  <2>0. UNCHANGED <<total, percent, pc>> /\ pc = "sample" /\ Samples' = Samples
    BY <1>6, <1>s DEF SampleRow
  <2> SUFFICES ASSUME remainingRows' >= 0
               PROVE likelihood'.num * Samples = likelihood'.den * Remainders'
    BY <2>0
  <2> DEFINE R == remainingRows
             W == remainingWanted
  <2>1. CASE UNCHANGED drawVars
    <3>1. Remainders' = Remainders
      BY <2>1 DEF Remainders
    <3> QED
      BY <2>0, <2>1, <3>1
  <2>2. CASE ~UNCHANGED drawVars
    <3>1. /\ remainingRows' = R - 1
          /\ \/ Forced /\ TakeRow /\ UNCHANGED likelihood
             \/ ~Forced /\ ~Draws /\ LeaveRow /\ UNCHANGED likelihood
             \/ Draws /\ TakeRow /\ likelihood' = Times(likelihood, Cardinality(Taking))
             \/ Draws /\ LeaveRow /\ likelihood' = Times(likelihood, R - Cardinality(Taking))
      BY <1>6, <2>2 DEF SampleRow, TakeRow, LeaveRow
    <3>2. R - 1 \in Nat /\ R \in Nat /\ (R - 1) + 1 = R /\ W \in 0 .. R
      BY <1>t, <2>0, <3>1 DEF PassInv, CountersInv
    <3>3. /\ likelihood.num * Samples = likelihood.den * Remainders
          /\ Remainders \in Int /\ likelihood.num \in Int /\ likelihood.den \in Int
      BY <1>t, <2>0, <3>2, ChooseExact DEF Remainders
    <3>4. Cardinality(Taking) = W
      BY <1>t, <3>2, TakingSize
    <3>k. /\ choose(R, R) = 1 /\ choose(R, 0) = 1
          /\ choose(R - 1, R - 1) = 1 /\ choose(R - 1, 0) = 1
      BY <3>2, ChooseSteps
    <3>m. /\ \A k \in 0 .. R - 1 : R * choose(R - 1, k) = (k + 1) * choose(R, k + 1)
          /\ \A k \in 0 .. R - 1 : R * choose(R - 1, k) = (R - k) * choose(R, k)
      <4> DEFINE n == R - 1
      <4>1. n \in Nat /\ n + 1 = R
        BY <3>2
      <4>2. /\ \A k \in 0 .. n : (n + 1) * choose(n, k) = (k + 1) * choose(n + 1, k + 1)
            /\ \A k \in 0 .. n : (n + 1) * choose(n, k) = (n + 1 - k) * choose(n + 1, k)
        <5> HIDE DEF n
        <5> QED
          BY <4>1, ChooseSteps
      <4> QED
        BY <4>1, <4>2
    <3>5. CASE Forced /\ TakeRow /\ UNCHANGED likelihood
      <4>1. W = R /\ remainingWanted' = R - 1
        BY <3>5 DEF Forced, TakeRow
      <4>2. Remainders' = 1 /\ Remainders = 1
        BY <3>1, <3>k, <4>1 DEF Remainders
      <4> QED
        BY <3>3, <3>5, <4>2
    <3>6. CASE ~Forced /\ ~Draws /\ LeaveRow /\ UNCHANGED likelihood
      <4>1. W = 0 /\ remainingWanted' = 0
        BY <3>2, <3>6 DEF Draws, LeaveRow
      <4>2. Remainders' = 1 /\ Remainders = 1
        BY <3>1, <3>k, <4>1 DEF Remainders
      <4> QED
        BY <3>3, <3>6, <4>2
    <3>7. CASE Draws /\ TakeRow /\ likelihood' = Times(likelihood, Cardinality(Taking))
      <4>1. W - 1 \in 0 .. R - 1 /\ (W - 1) + 1 = W /\ remainingWanted' = W - 1
        BY <3>2, <3>7 DEF Draws, Forced, TakeRow
      <4>2. R * choose(R - 1, W - 1) = W * choose(R, W)
        BY <3>m, <4>1
      <4>3. Remainders' = choose(R - 1, W - 1) /\ Remainders' \in Int
        BY <3>1, <3>2, <4>1, ChooseExact DEF Remainders
      <4>4. R * Remainders' = W * Remainders
        BY <4>2, <4>3 DEF Remainders
      <4>5. (likelihood.num * W) * Samples = (likelihood.den * R) * Remainders'
        <5> DEFINE num == likelihood.num
                   den == likelihood.den
                   all == Samples
                   left == Remainders
                   next == Remainders'
                   rows == R
                   ways == W
        <5>1. /\ num \in Int /\ den \in Int /\ all \in Int /\ left \in Int /\ next \in Int
              /\ rows \in Int /\ ways \in Int
              /\ num * all = den * left /\ rows * next = ways * left
          BY <1>w, <3>2, <3>3, <4>3, <4>4
        <5> HIDE DEF num, den, all, left, next, rows, ways
        <5>2. (num * ways) * all = (den * rows) * next
          BY <5>1, DrawKeeps
        <5> QED
          BY <5>2 DEF num, den, all, left, next, rows, ways
      <4> QED
        BY <3>4, <3>7, <4>5 DEF Times
    <3>8. CASE Draws /\ LeaveRow /\ likelihood' = Times(likelihood, R - Cardinality(Taking))
      <4>1. W \in 0 .. R - 1 /\ remainingWanted' = W /\ R - W \in Int
        BY <3>2, <3>8 DEF Draws, Forced, LeaveRow
      <4>2. R * choose(R - 1, W) = (R - W) * choose(R, W)
        BY <3>m, <4>1
      <4>3. Remainders' = choose(R - 1, W) /\ Remainders' \in Int
        BY <3>1, <3>2, <4>1, ChooseExact DEF Remainders
      <4>4. R * Remainders' = (R - W) * Remainders
        BY <4>2, <4>3 DEF Remainders
      <4>5. (likelihood.num * (R - W)) * Samples = (likelihood.den * R) * Remainders'
        <5> DEFINE num == likelihood.num
                   den == likelihood.den
                   all == Samples
                   left == Remainders
                   next == Remainders'
                   rows == R
                   ways == R - W
        <5>1. /\ num \in Int /\ den \in Int /\ all \in Int /\ left \in Int /\ next \in Int
              /\ rows \in Int /\ ways \in Int
              /\ num * all = den * left /\ rows * next = ways * left
          BY <1>w, <3>2, <3>3, <4>1, <4>3, <4>4
        <5> HIDE DEF num, den, all, left, next, rows, ways
        <5>2. (num * ways) * all = (den * rows) * next
          BY <5>1, DrawKeeps
        <5> QED
          BY <5>2 DEF num, den, all, left, next, rows, ways
      <4> QED
        BY <3>4, <3>8, <4>5 DEF Times
    <3> QED
      BY <3>1, <3>5, <3>6, <3>7, <3>8
  <2> QED
    BY <2>1, <2>2
<1>7. CASE SampleEnds
  <2>1. UNCHANGED <<total, percent, likelihood>> /\ pc = "sample" /\ Samples' = Samples
    BY <1>7, <1>s DEF SampleEnds
  <2>2. CASE pc' = "exit"
    BY <2>2
  <2>3. CASE pc' = "publish" /\ AccountsBalance
    <3>1. Remainders = 1 /\ remainingRows >= 0
      <4>1. choose(0, 0) = 1
        BY ChooseSteps
      <4> QED
        BY <2>3, <4>1 DEF AccountsBalance, Remainders
    <3>2. likelihood.num * Samples = likelihood.den * 1 /\ likelihood.den \in Int
      BY <1>t, <2>1, <3>1
    <3> QED
      BY <2>1, <2>3, <3>2
  <2> QED
    BY <1>7, <2>2, <2>3 DEF SampleEnds
<1>8. CASE Publish
  <2>1. UNCHANGED <<total, percent, likelihood>> /\ pc = "publish" /\ Samples' = Samples
        /\ pc' = "metadata"
    BY <1>8, <1>s DEF Publish
  <2>2. Samples' = choose(total, Wanted)'
    BY DEF Samples
  <2> QED
    BY <2>1, <2>2
<1>9. CASE WriteMetadata
  BY <1>9 DEF WriteMetadata
<1>10. CASE MetadataFails
  BY <1>10 DEF MetadataFails
<1>11. CASE Fails
  BY <1>11 DEF Fails
<1>12. CASE Killed
  BY <1>12 DEF Killed
<1>13. CASE UNCHANGED vars
  <2>1. /\ UNCHANGED <<total, percent, likelihood, pc, remainingRows, remainingWanted>>
        /\ Samples' = Samples /\ Remainders' = Remainders /\ Wanted' = Wanted
    BY <1>13, <1>s DEF vars, Remainders, Wanted
  <2> QED
    BY <2>1
<1> QED
  BY <1>1, <1>2, <1>3, <1>4, <1>5, <1>6, <1>7, <1>8, <1>9, <1>10, <1>11, <1>12, <1>13
     DEF Next, Over

-----------------------------------------------------------------------------
(* The theorems *)

\* IInv is an invariant: it holds initially and every step keeps all its parts.
THEOREM InductiveInvariant == Spec => []IInv
<1>1. Init => IInv
  <2> SUFFICES ASSUME Init PROVE IInv
    OBVIOUS
  <2>1. source \in Seq(BOOLEAN) /\ Len(source) \in Nat
    BY SourcesType DEF Init
  <2>2. TypeOK
    BY <2>1, UniformSampleAssumption
       DEF Init, TypeOK, NoSample, NoMetadata, Metadata, Certain, Points, Outcomes
  <2> QED
    BY <2>2 DEF Init, IInv, PassInv, FilesInv, PublishedExact, NoMetadata, LikelihoodInv, Uniform
<1>2. IInv /\ [Next]_vars => IInv'
  BY TypeStep, PassStep, FilesStep, PublishedStep, LikelihoodStep DEF IInv
<1> QED
  BY <1>1, <1>2, PTL DEF Spec

\* The published sample has exactly the promised size and keeps the source order,
\* whatever the two passes of WriteUniformSample see.
THEOREM PublishedExactTheorem == Spec => []PublishedExact
<1>1. IInv => PublishedExact
  BY DEF IInv
<1> QED
  BY <1>1, InductiveInvariant, PTL

\* A run of sample-zmap that succeeds hands on an exact sample for its request,
\* after any history of failed and killed runs.
THEOREM UsableSampleTheorem == Spec => []UsableSample
<1>1. IInv => UsableSample
  BY DEF IInv, FilesInv, UsableSample
<1> QED
  BY <1>1, InductiveInvariant, PTL

\* Every sample of the published size is as likely as any other (the draws of
\* WriteUniformSample): the probability of the draws that led to it is one over the number
\* of samples of that size.
THEOREM UniformTheorem == Spec => []Uniform
<1>1. IInv => Uniform
  BY DEF IInv
<1> QED
  BY <1>1, InductiveInvariant, PTL

\* rng.Int63n is never called with an argument it panics on.
THEOREM DrawsFromRowsTheorem == Spec => []DrawsFromRows
<1>1. IInv => DrawsFromRows
  BY DEF IInv, PassInv, CountersInv, DrawsFromRows, Draws, Forced, TypeOK
<1> QED
  BY <1>1, InductiveInvariant, PTL

=============================================================================
