-------------------------- MODULE GeoCampaignProofs --------------------------
(***************************************************************************)
(* Proofs about GeoCampaign for all protocols, repeats, groups and files:  *)
(* what is published is backed by measurements, the controllers agree, the *)
(* OS job gets one sound verdict, and a recorded failure holds.            *)
(*                                                                         *)
(* The runs of the controllers are sequences built from the constants.     *)
(* The first half shows once and for all that each operation in them comes *)
(* after what it stands on (Leads, ProgramFacts); the second half that a   *)
(* controller at an operation has done those before it, and what the steps *)
(* of controllers and worker preserve because of that.                     *)
(***************************************************************************)
EXTENDS GeoCampaign, SequenceTheorems, WellFoundedInduction, TLAPS

-----------------------------------------------------------------------------
(* Sequences *)

\* Induction over the numbers that are in a set.
LEMMA Induction ==
    ASSUME NEW T, 0 \in T, \A n \in Nat : n \in T => n + 1 \in T
    PROVE Nat \subseteq T
<1> DEFINE Bad == Nat \ T
<1>1. SUFFICES ASSUME Bad # {} PROVE FALSE
  OBVIOUS
<1>2. PICK m \in Bad : \A y \in Bad : ~ (<<y, m>> \in OpToRel(<, Nat))
  BY <1>1, NatLessThanWellFounded, WFMin
<1>3. \A y \in Bad : ~(y < m)
  BY <1>2 DEF OpToRel
<1>4. m # 0 /\ m - 1 \in Nat /\ m - 1 \in T
  BY <1>3
<1> QED
  BY <1>4

\* The recursion of FlattenSeq over the first n sequences.
Flattening(seqs, n, f) ==
    f = [i \in 1 .. n |-> IF i = 1 THEN seqs[i] ELSE f[i - 1] \o seqs[i]]

\* It defines a function.
LEMMA FlatteningExists ==
    ASSUME NEW seqs, NEW n \in Nat
    PROVE \E f : Flattening(seqs, n, f)
<1> DEFINE T == {m \in Nat : \E f : Flattening(seqs, m, f)}
<1>1. 0 \in T
  <2>1. Flattening(seqs, 0, [i \in 1 .. 0 |-> {}])
    BY DEF Flattening
  <2> QED
    BY <2>1
<1>2. ASSUME NEW m \in Nat, m \in T PROVE m + 1 \in T
  <2>1. PICK g : Flattening(seqs, m, g)
    BY <1>2
  <2> DEFINE next == IF m = 0 THEN seqs[1] ELSE g[m] \o seqs[m + 1]
             f == [i \in 1 .. m + 1 |-> IF i = m + 1 THEN next ELSE g[i]]
  <2>2. \A i \in 1 .. m + 1 : f[i] = IF i = 1 THEN seqs[i] ELSE f[i - 1] \o seqs[i]
    <3> TAKE i \in 1 .. m + 1
    <3>1. CASE i = m + 1
      BY <3>1
    <3>2. CASE i # m + 1
      <4>1. i \in 1 .. m /\ f[i] = g[i] /\ (i # 1 => f[i - 1] = g[i - 1])
        BY <3>2
      <4>2. g[i] = IF i = 1 THEN seqs[i] ELSE g[i - 1] \o seqs[i]
        BY <2>1, <4>1 DEF Flattening
      <4> QED
        BY <4>1, <4>2
    <3> QED
      BY <3>1, <3>2
  <2>3. f = [i \in 1 .. m + 1 |-> f[i]]
    OBVIOUS
  <2> HIDE DEF f
  <2>4. Flattening(seqs, m + 1, f)
    BY <2>2, <2>3 DEF Flattening
  <2> QED
    BY <2>4
<1>3. Nat \subseteq T
  <2> HIDE DEF T
  <2> QED
    BY <1>1, <1>2, Induction
<1> QED
  BY <1>3

LEMMA FlattenSeqFact ==
    ASSUME NEW seqs, Len(seqs) \in Nat \ {0}
    PROVE \E f : Flattening(seqs, Len(seqs), f) /\ FlattenSeq(seqs) = f[Len(seqs)]
<1> DEFINE F == CHOOSE f : Flattening(seqs, Len(seqs), f)
<1>1. Flattening(seqs, Len(seqs), F)
  BY FlatteningExists
<1>2. FlattenSeq(seqs) = F[Len(seqs)]
  BY DEF FlattenSeq, Flattening
<1> QED
  BY <1>1, <1>2

-----------------------------------------------------------------------------
(* What the operations of a controller stand on *)

\* The words of which the names of measurements and objects are made.
Words ==
    Protocols \cup ToSet(Repeats) \cup ToSet(OrderedGroups)
        \cup {"zmap", "rt", "mass", "base", "connection-rt", "connection-fi", "base-sample",
              "connection-sample", "stream", "discovery", "manifest", "strategy", "flow-done",
              "done", "reference", "reference-comparison", "group", "groups-manifest",
              "groups-request", "site", "targets", "final"}

Ops == {"measure", "publish", "handoff", "sample", "protocols", "ready"} \X Seq(Words)

\* The first n operations of a program, and all of them.
First(s, n) == {s[j] : j \in 1 .. n}

Elements(s) == First(s, Len(s))

SweepMeasures(p) ==
    {Measure(<<p, n>>) : n \in {"zmap", "rt", "mass", "base"} \cup ToSet(Repeats)
        \cup IF p = "tcp" THEN {"connection-rt", "connection-fi"} ELSE {}}

ReferenceMeasures ==
    {Measure(<<"reference", p, s>>) : p \in Protocols, s \in ToSet(Scales)}

GroupMeasures ==
    {Measure(<<"group", g, s>>) : g \in ToSet(OrderedGroups), s \in ToSet(Scales)}

(***************************************************************************)
(* The operations there are, and those of the same program that each one   *)
(* has to follow: an object is published after the measurements it stands  *)
(* on, or after an object that stands on them.                             *)
(***************************************************************************)
Justified(c, op, before) ==
    \/ \E name \in Seq(Words) : op = Measure(name)
    \/ \E p \in Protocols, n \in {"base-sample", "connection-sample"} : op = Sample(<<p, n>>)
    \/ \E p \in Protocols, n \in {"rt", "mass"} :
          op = Handoff(<<p, n>>) /\ Measure(<<p, n>>) \in before
    \/ op = Handoff(<<"site", "targets">>)
    \/ op \in {Await("ready"), Await("protocols")}
    \/ \E p \in Protocols, n \in Words :
          /\ op = Publish(<<p, "stream", n>>)
          /\ Measure(<<p, n>>) \in before /\ Measure(<<p, "zmap">>) \in before
    \/ \E p \in Protocols :
          op = Publish(<<p, "discovery">>) /\ Measure(<<p, "zmap">>) \in before
    \/ /\ c = "site" /\ op = Publish(<<"site", "discovery">>)
       /\ \A p \in Protocols : Measure(<<p, "zmap">>) \in before
    \/ \E p \in Protocols :
          op = Publish(<<p, "manifest">>) /\ SweepMeasures(p) \subseteq before
    \/ \E p \in Protocols, n \in {"strategy", "flow-done", "done"} :
          op = Publish(<<p, n>>) /\ Publish(<<p, "manifest">>) \in before
    \/ \E p \in Protocols, s \in ToSet(Scales) :
          /\ op = Publish(<<"reference", p, s>>)
          /\ Measure(<<"reference", p, s>>) \in before
    \/ op = Publish(<<"site", "reference-comparison">>) /\ ReferenceMeasures \subseteq before
    \/ \E n \in {"groups-manifest", "groups-request"} :
          op = Publish(<<"site", n>>) /\ GroupMeasures \subseteq before
    \/ /\ op = Publish(<<"site", "final">>)
       /\ Await("ready") \in before /\ Publish(<<"site", "groups-request">>) \in before
       /\ IF c = "site" THEN \A p \in Protocols : Publish(<<p, "manifest">>) \in before
          ELSE /\ Await("protocols") \in before
               /\ Publish(<<"site", "reference-comparison">>) \in before

\* Each operation of s is justified by those in W and those before it, and after it those
\* in V have been done.
Leads(c, W, s, V) ==
    /\ s \in Seq(Ops)
    /\ \A i \in 1 .. Len(s) : Justified(c, s[i], W \cup First(s, i - 1))
    /\ V \subseteq W \cup Elements(s)

\* More may have been done before.
LEMMA JustifiedMonotonic ==
    ASSUME NEW c, NEW op, NEW W, NEW V, W \subseteq V, Justified(c, op, W)
    PROVE Justified(c, op, V)
BY DEF Justified

\* What any of the following rules starts from or ends with may be restated.
LEMMA LeadsWeaken ==
    ASSUME NEW c, NEW s, NEW W, NEW V, NEW W1, NEW V1, Leads(c, W, s, V),
           W \subseteq W1, V1 \subseteq V \cup W1
    PROVE Leads(c, W1, s, V1)
<1>1. \A i \in 1 .. Len(s) : Justified(c, s[i], W1 \cup First(s, i - 1))
  BY JustifiedMonotonic DEF Leads
<1> QED
  BY <1>1 DEF Leads

\* One program after the other.
LEMMA LeadsConcat ==
    ASSUME NEW c, NEW s, NEW t, NEW W, NEW V, NEW U,
           Leads(c, W, s, V), Leads(c, V, t, U)
    PROVE Leads(c, W, s \o t, U)
<1> DEFINE st == s \o t
<1>s. s \in Seq(Ops) /\ t \in Seq(Ops) /\ Len(s) \in Nat /\ Len(t) \in Nat
  BY DEF Leads
<1>1. /\ st \in Seq(Ops) /\ Len(st) = Len(s) + Len(t)
      /\ \A i \in 1 .. Len(s) : st[i] = s[i]
      /\ \A i \in 1 .. Len(t) : st[Len(s) + i] = t[i]
  BY <1>s, ConcatProperties
<1> HIDE DEF st
<1>2. \A n \in 0 .. Len(s) : First(st, n) = First(s, n)
  <2> TAKE n \in 0 .. Len(s)
  <2>1. \A j \in 1 .. n : st[j] = s[j]
    BY <1>s, <1>1
  <2> QED
    BY <2>1 DEF First
<1>3. \A n \in 0 .. Len(t) : First(st, Len(s) + n) = Elements(s) \cup First(t, n)
  <2> TAKE n \in 0 .. Len(t)
  <2>1. ASSUME NEW x \in First(st, Len(s) + n) PROVE x \in Elements(s) \cup First(t, n)
    <3>1. PICK j \in 1 .. Len(s) + n : x = st[j]
      BY <2>1 DEF First
    <3>2. CASE j \in 1 .. Len(s)
      BY <1>1, <3>1, <3>2 DEF Elements, First
    <3>3. CASE j \notin 1 .. Len(s)
      <4>1. j - Len(s) \in 1 .. n /\ j - Len(s) \in 1 .. Len(t) /\ j = Len(s) + (j - Len(s))
        BY <1>s, <3>3
      <4>2. x = t[j - Len(s)]
        BY <1>1, <3>1, <4>1
      <4> QED
        BY <4>1, <4>2 DEF First
    <3> QED
      BY <3>2, <3>3
  <2>2. ASSUME NEW x \in Elements(s) PROVE x \in First(st, Len(s) + n)
    <3>1. PICK j \in 1 .. Len(s) : x = s[j]
      BY <2>2 DEF Elements, First
    <3>2. x = st[j] /\ j \in 1 .. Len(s) + n
      BY <1>s, <1>1, <3>1
    <3> QED
      BY <3>2 DEF First
  <2>3. ASSUME NEW x \in First(t, n) PROVE x \in First(st, Len(s) + n)
    <3>1. PICK j \in 1 .. n : x = t[j]
      BY <2>3 DEF First
    <3>2. x = st[Len(s) + j] /\ Len(s) + j \in 1 .. Len(s) + n
      BY <1>s, <1>1, <3>1
    <3> QED
      BY <3>2 DEF First
  <2> QED
    BY <2>1, <2>2, <2>3
<1>4. V \subseteq W \cup Elements(s) /\ U \subseteq V \cup Elements(t)
  BY DEF Leads
<1>5. ASSUME NEW i \in 1 .. Len(st) PROVE Justified(c, st[i], W \cup First(st, i - 1))
  <2>1. CASE i \in 1 .. Len(s)
    <3>1. st[i] = s[i] /\ First(st, i - 1) = First(s, i - 1)
      BY <1>s, <1>1, <1>2, <2>1
    <3>2. Justified(c, s[i], W \cup First(s, i - 1))
      BY <2>1 DEF Leads
    <3> QED
      BY <3>1, <3>2
  <2>2. CASE i \notin 1 .. Len(s)
    <3> DEFINE j == i - Len(s)
    <3>1. j \in 1 .. Len(t) /\ j - 1 \in 0 .. Len(t) /\ i = Len(s) + j
          /\ i - 1 = Len(s) + (j - 1)
      BY <1>s, <1>1, <2>2
    <3> HIDE DEF j
    <3>2. st[i] = t[j] /\ First(st, i - 1) = Elements(s) \cup First(t, j - 1)
      BY <1>1, <1>3, <3>1
    <3>3. Justified(c, t[j], V \cup First(t, j - 1))
      BY <3>1 DEF Leads
    <3>4. V \cup First(t, j - 1) \subseteq W \cup First(st, i - 1)
      BY <1>4, <3>2
    <3> QED
      BY <3>2, <3>3, <3>4, JustifiedMonotonic
  <2> QED
    BY <2>1, <2>2
<1>6. U \subseteq W \cup Elements(st)
  <2>1. Elements(st) = Elements(s) \cup Elements(t)
    BY <1>s, <1>1, <1>3 DEF Elements
  <2> QED
    BY <1>4, <2>1
<1>7. Leads(c, W, st, U)
  BY <1>1, <1>5, <1>6 DEF Leads
<1> QED
  BY <1>7 DEF st

\* Operations none of which needs another of them.
LEMMA LeadsEach ==
    ASSUME NEW c, NEW s \in Seq(Ops), NEW W,
           \A i \in 1 .. Len(s) : Justified(c, s[i], W)
    PROVE Leads(c, W, s, W \cup Elements(s))
<1>1. ASSUME NEW i \in 1 .. Len(s) PROVE Justified(c, s[i], W \cup First(s, i - 1))
  <2>1. W \subseteq W \cup First(s, i - 1)
    OBVIOUS
  <2> QED
    BY <2>1, JustifiedMonotonic
<1> QED
  BY <1>1 DEF Leads

LEMMA LeadsNone == ASSUME NEW c, NEW W PROVE Leads(c, W, <<>>, W)
BY EmptySeq DEF Leads

LEMMA LeadsOne ==
    ASSUME NEW c, NEW op \in Ops, NEW W, Justified(c, op, W)
    PROVE Leads(c, W, <<op>>, W \cup {op})
<1>1. /\ <<op>> \in Seq(Ops) /\ Len(<<op>>) = 1 /\ <<op>>[1] = op
      /\ op \in Elements(<<op>>)
  BY DEF Elements, First
<1>2. Leads(c, W, <<op>>, W \cup Elements(<<op>>))
  <2>1. \A i \in 1 .. Len(<<op>>) : Justified(c, <<op>>[i], W)
    BY <1>1
  <2> QED
    BY <1>1, <2>1, LeadsEach
<1> QED
  BY <1>1, <1>2, LeadsWeaken

LEMMA LeadsTwo ==
    ASSUME NEW c, NEW a \in Ops, NEW b \in Ops, NEW W,
           Justified(c, a, W), Justified(c, b, W \cup {a})
    PROVE Leads(c, W, <<a, b>>, W \cup {a, b})
<1>1. /\ <<a, b>> \in Seq(Ops) /\ Len(<<a, b>>) = 2 /\ <<a, b>>[1] = a /\ <<a, b>>[2] = b
  OBVIOUS
<1>2. First(<<a, b>>, 1) = {a} /\ {a, b} \subseteq Elements(<<a, b>>)
  BY <1>1 DEF Elements, First
<1>3. ASSUME NEW i \in 1 .. Len(<<a, b>>)
      PROVE Justified(c, <<a, b>>[i], W \cup First(<<a, b>>, i - 1))
  <2>1. CASE i = 1
    <3>1. W \subseteq W \cup First(<<a, b>>, i - 1)
      OBVIOUS
    <3> QED
      BY <1>1, <2>1, <3>1, JustifiedMonotonic
  <2>2. CASE i = 2
    BY <1>1, <1>2, <2>2
  <2> QED
    BY <1>1, <2>1, <2>2
<1> QED
  BY <1>1, <1>2, <1>3 DEF Leads

\* What is in one of the first n of V.
Through(V, n) == UNION {V[i] : i \in 1 .. n}

\* Programs none of which needs another of them, flattened.
LEMMA LeadsFlatten ==
    ASSUME NEW c, NEW seqs, NEW N \in Nat, Len(seqs) = N, N = 0 => seqs = <<>>,
           NEW W, NEW V, \A i \in 1 .. N : Leads(c, W, seqs[i], V[i])
    PROVE Leads(c, W, FlattenSeq(seqs), W \cup Through(V, N))
<1>1. CASE N = 0
  <2>1. FlattenSeq(seqs) = <<>> /\ W \cup Through(V, N) = W
    BY <1>1 DEF FlattenSeq, Through
  <2>2. Leads(c, W, <<>>, W)
    BY LeadsNone
  <2> QED
    BY <2>1, <2>2
<1>2. CASE N # 0
  <2>1. PICK f : Flattening(seqs, N, f) /\ FlattenSeq(seqs) = f[N]
    BY <1>2, FlattenSeqFact
  <2> DEFINE Upto(n) == W \cup Through(V, n)
             T == {n \in Nat : n \in 1 .. N => Leads(c, W, f[n], Upto(n))}
  <2>2. 0 \in T
    OBVIOUS
  <2>3. ASSUME NEW n \in Nat, n \in T PROVE n + 1 \in T
    <3> SUFFICES ASSUME n + 1 \in 1 .. N
                 PROVE Leads(c, W, f[n + 1], Upto(n + 1))
      OBVIOUS
    <3>1. Leads(c, W, seqs[n + 1], V[n + 1])
      OBVIOUS
    <3>2. f[n + 1] = IF n = 0 THEN seqs[n + 1] ELSE f[n] \o seqs[n + 1]
      <4>1. n + 1 \in 1 .. N /\ (n + 1) - 1 = n /\ (n + 1 = 1 <=> n = 0)
        OBVIOUS
      <4> QED
        BY <2>1, <4>1 DEF Flattening
    <3>3. CASE n = 0
      <4>1. Upto(n + 1) \subseteq V[n + 1] \cup W
        BY <3>3 DEF Through
      <4> QED
        BY <3>1, <3>2, <3>3, <4>1, LeadsWeaken
    <3>4. CASE n # 0
      <4>1. Leads(c, W, f[n], Upto(n))
        BY <2>3, <3>4
      <4>2. W \subseteq Upto(n) /\ Upto(n + 1) \subseteq V[n + 1] \cup Upto(n)
        <5> ASSUME NEW x \in Upto(n + 1) PROVE x \in V[n + 1] \cup Upto(n)
          <6>1. CASE x \in W
            BY <6>1
          <6>2. CASE x \notin W
            <7>1. PICK i \in 1 .. n + 1 : x \in V[i]
              BY <6>2 DEF Through
            <7> QED
              BY <7>1 DEF Through
          <6> QED
            BY <6>1, <6>2
        <5> QED
          OBVIOUS
      <4> HIDE DEF Upto
      <4>3. Leads(c, Upto(n), seqs[n + 1], Upto(n + 1))
        BY <3>1, <4>2, LeadsWeaken
      <4>4. Leads(c, W, f[n] \o seqs[n + 1], Upto(n + 1))
        BY <4>1, <4>3, LeadsConcat
      <4> QED
        BY <3>2, <3>4, <4>4
    <3> QED
      BY <3>3, <3>4
  <2>4. Nat \subseteq T
    <3> HIDE DEF T
    <3> QED
      BY <2>2, <2>3, Induction
  <2>5. N \in Nat /\ N \in 1 .. N
    BY <1>2
  <2>6. N \in T
    <3> HIDE DEF T
    <3> QED
      BY <2>4, <2>5
  <2>7. Leads(c, W, f[N], Upto(N))
    BY <2>5, <2>6
  <2> QED
    BY <2>1, <2>7
<1> QED
  BY <1>1, <1>2

-----------------------------------------------------------------------------
(* The programs *)

\* The constants are sequences of words.
LEMMA Vocabulary ==
    /\ Protocols \subseteq Words /\ ToSet(Repeats) \subseteq Words
    /\ ToSet(OrderedGroups) \subseteq Words /\ ToSet(Scales) \subseteq Words
    /\ \A x \in Protocols : \E j \in 1 .. Len(ProtocolOrder) : x = ProtocolOrder[j]
    /\ \A x \in ToSet(Repeats) : \E j \in 1 .. Len(Repeats) : x = Repeats[j]
    /\ \A x \in ToSet(OrderedGroups) : \E j \in 1 .. Len(OrderedGroups) : x = OrderedGroups[j]
    /\ \A j \in 1 .. Len(ProtocolOrder) : ProtocolOrder[j] \in Protocols
    /\ \A j \in 1 .. Len(OrderedGroups) : OrderedGroups[j] \in ToSet(OrderedGroups)
    /\ \A j \in 1 .. Len(Repeats) : Repeats[j] \in ToSet(Repeats)
    /\ DOMAIN ProtocolOrder = 1 .. Len(ProtocolOrder) /\ Len(ProtocolOrder) \in Nat
    /\ DOMAIN Repeats = 1 .. Len(Repeats) /\ Len(Repeats) \in Nat
    /\ DOMAIN OrderedGroups = 1 .. Len(OrderedGroups) /\ Len(OrderedGroups) \in Nat
    /\ ToSet(Scales) = {"base", "mass"} /\ DOMAIN Scales = 1 .. 2 /\ Len(Scales) = 2
    /\ Scales[1] = "base" /\ Scales[2] = "mass"
<1>1. /\ ProtocolOrder \in Seq(Protocols) /\ Repeats \in Seq(ToSet(Repeats))
      /\ OrderedGroups \in Seq(ToSet(OrderedGroups))
  BY CampaignStoreAssumption DEF Protocols
<1>2. DOMAIN Scales = 1 .. 2 /\ Len(Scales) = 2 /\ Scales[1] = "base" /\ Scales[2] = "mass"
  BY DEF Scales
<1>3. ToSet(Scales) = {"base", "mass"}
  BY <1>2 DEF ToSet
<1>4. /\ DOMAIN ProtocolOrder = 1 .. Len(ProtocolOrder) /\ Len(ProtocolOrder) \in Nat
      /\ DOMAIN Repeats = 1 .. Len(Repeats) /\ Len(Repeats) \in Nat
      /\ DOMAIN OrderedGroups = 1 .. Len(OrderedGroups) /\ Len(OrderedGroups) \in Nat
  BY <1>1, LenProperties
<1>5. /\ \A x \in Protocols : \E j \in 1 .. Len(ProtocolOrder) : x = ProtocolOrder[j]
      /\ \A x \in ToSet(Repeats) : \E j \in 1 .. Len(Repeats) : x = Repeats[j]
      /\ \A x \in ToSet(OrderedGroups) : \E j \in 1 .. Len(OrderedGroups) : x = OrderedGroups[j]
  BY <1>4 DEF Protocols, ToSet
<1>6. /\ \A j \in 1 .. Len(ProtocolOrder) : ProtocolOrder[j] \in Protocols
      /\ \A j \in 1 .. Len(OrderedGroups) : OrderedGroups[j] \in ToSet(OrderedGroups)
      /\ \A j \in 1 .. Len(Repeats) : Repeats[j] \in ToSet(Repeats)
  BY <1>1, ElementOfSeq
<1>7. /\ Protocols \subseteq Words /\ ToSet(Repeats) \subseteq Words
      /\ ToSet(OrderedGroups) \subseteq Words /\ ToSet(Scales) \subseteq Words
  BY <1>3 DEF Words
<1> QED
  BY <1>2, <1>3, <1>4, <1>5, <1>6, <1>7

\* The operations are operations.
LEMMA OpsTypes ==
    /\ \A a, b \in Words :
          /\ <<a, b>> \in Seq(Words)
          /\ Measure(<<a, b>>) \in Ops /\ Publish(<<a, b>>) \in Ops
          /\ Handoff(<<a, b>>) \in Ops /\ Sample(<<a, b>>) \in Ops
    /\ \A a, b, c \in Words :
          /\ <<a, b, c>> \in Seq(Words)
          /\ Measure(<<a, b, c>>) \in Ops /\ Publish(<<a, b, c>>) \in Ops
    /\ Await("ready") \in Ops /\ Await("protocols") \in Ops
<1>1. \A name \in Seq(Words) : /\ Measure(name) \in Ops /\ Publish(name) \in Ops
                               /\ Handoff(name) \in Ops /\ Sample(name) \in Ops
  BY DEF Ops, Measure, Publish, Handoff, Sample
<1>2. <<>> \in Seq(Words)
  BY EmptySeq
<1>3. Await("ready") \in Ops /\ Await("protocols") \in Ops
  BY <1>2 DEF Ops, Await
<1>4. /\ \A a, b \in Words : <<a, b>> \in Seq(Words)
      /\ \A a, b, c \in Words : <<a, b, c>> \in Seq(Words)
  OBVIOUS
<1> QED
  BY <1>1, <1>3, <1>4

\* A measurement follows nothing.
LEMMA LeadsMeasure ==
    ASSUME NEW c, NEW name \in Seq(Words), NEW W
    PROVE /\ Justified(c, Measure(name), W)
          /\ Leads(c, W, <<Measure(name)>>, W \cup {Measure(name)})
<1>1. Measure(name) \in Ops
  BY DEF Ops, Measure
<1>2. Justified(c, Measure(name), W)
  BY DEF Justified
<1> QED
  BY <1>1, <1>2, LeadsOne

\* streamMeasurement tells of a measurement and of the targets it was of.
LEMMA LeadsStream ==
    ASSUME NEW c, NEW p \in Protocols, NEW n \in Words, NEW streaming \in BOOLEAN, NEW W,
           Measure(<<p, n>>) \in W, Measure(<<p, "zmap">>) \in W
    PROVE Leads(c, W, Stream(p, n, streaming), W)
<1>1. CASE streaming
  <2> DEFINE op == Publish(<<p, "stream", n>>)
  <2>1. op \in Ops
    BY OpsTypes, Vocabulary DEF Words
  <2>3. Justified(c, op, W)
    BY DEF Justified
  <2>2. Leads(c, W, <<op>>, W \cup {op})
    BY <2>1, <2>3, LeadsOne
  <2>4. Leads(c, W, <<op>>, W)
    BY <2>2, LeadsWeaken
  <2> QED
    BY <1>1, <2>4 DEF Stream
<1>2. CASE ~streaming
  BY <1>2, LeadsNone DEF Stream
<1> QED
  BY <1>1, <1>2

LEMMA LeadsIpid ==
    ASSUME NEW c, NEW p \in Protocols, NEW n \in Words, NEW streaming \in BOOLEAN, NEW W,
           Measure(<<p, "zmap">>) \in W
    PROVE Leads(c, W, Ipid(p, n, streaming), W \cup {Measure(<<p, n>>)})
<1> DEFINE V == W \cup {Measure(<<p, n>>)}
<1>1. <<p, n>> \in Seq(Words)
  BY Vocabulary, OpsTypes
<1>2. Leads(c, W, <<Measure(<<p, n>>)>>, V)
  BY <1>1, LeadsMeasure
<1>3. Leads(c, V, Stream(p, n, streaming), V)
  BY LeadsStream
<1> QED
  BY <1>2, <1>3, LeadsConcat DEF Ipid

\* A measurement with the hand-off of its result.
LEMMA LeadsHandedOff ==
    ASSUME NEW c, NEW p \in Protocols, NEW n \in {"rt", "mass"}, NEW W
    PROVE Leads(c, W, <<Measure(<<p, n>>), Handoff(<<p, n>>)>>, W \cup {Measure(<<p, n>>)})
<1> DEFINE a == Measure(<<p, n>>)
           b == Handoff(<<p, n>>)
<1>1. n \in Words /\ a \in Ops /\ b \in Ops /\ <<p, n>> \in Seq(Words)
  BY Vocabulary, OpsTypes DEF Words
<1>2. Justified(c, a, W)
  BY <1>1, LeadsMeasure
<1>3. Justified(c, b, W \cup {a})
  BY DEF Justified
<1>4. Leads(c, W, <<a, b>>, W \cup {a, b})
  BY <1>1, <1>2, <1>3, LeadsTwo
<1> QED
  BY <1>4, LeadsWeaken

LEMMA LeadsSample ==
    ASSUME NEW c, NEW p \in Protocols, NEW n \in {"base-sample", "connection-sample"}, NEW W
    PROVE Leads(c, W, <<Sample(<<p, n>>)>>, W)
<1>1. n \in Words /\ Sample(<<p, n>>) \in Ops
  BY Vocabulary, OpsTypes DEF Words
<1>2. Justified(c, Sample(<<p, n>>), W)
  BY DEF Justified
<1>3. Leads(c, W, <<Sample(<<p, n>>)>>, W \cup {Sample(<<p, n>>)})
  BY <1>1, <1>2, LeadsOne
<1> QED
  BY <1>3, LeadsWeaken

\* The repeats of the base measurement.
LEMMA LeadsRepeats ==
    ASSUME NEW c, NEW p \in Protocols, NEW streaming \in BOOLEAN, NEW W,
           Measure(<<p, "zmap">>) \in W
    PROVE Leads(c, W, FlattenSeq([i \in DOMAIN Repeats |-> Ipid(p, Repeats[i], streaming)]),
                W \cup {Measure(<<p, n>>) : n \in ToSet(Repeats)})
<1> DEFINE seqs == [i \in DOMAIN Repeats |-> Ipid(p, Repeats[i], streaming)]
           V == [i \in DOMAIN Repeats |-> W \cup {Measure(<<p, Repeats[i]>>)}]
<1>1. DOMAIN Repeats = 1 .. Len(Repeats) /\ Len(Repeats) \in Nat
  BY Vocabulary
<1>2. Len(seqs) = Len(Repeats) /\ (Len(Repeats) = 0 => seqs = <<>>)
  BY <1>1
<1>3. ASSUME NEW i \in 1 .. Len(Repeats) PROVE Leads(c, W, seqs[i], V[i])
  <2>1. Repeats[i] \in Words
    BY Vocabulary
  <2>2. Leads(c, W, Ipid(p, Repeats[i], streaming), W \cup {Measure(<<p, Repeats[i]>>)})
    BY <2>1, LeadsIpid
  <2> QED
    BY <1>1, <2>2
<1>4. {Measure(<<p, n>>) : n \in ToSet(Repeats)} \subseteq Through(V, Len(Repeats))
  <2> SUFFICES ASSUME NEW n \in ToSet(Repeats)
               PROVE \E i \in 1 .. Len(Repeats) : Measure(<<p, n>>) \in V[i]
    BY DEF Through
  <2>1. PICK i \in 1 .. Len(Repeats) : n = Repeats[i]
    BY Vocabulary
  <2>2. Measure(<<p, n>>) \in V[i]
    BY <1>1, <2>1
  <2> QED
    BY <2>2
<1> HIDE DEF seqs, V
<1>5. Leads(c, W, FlattenSeq(seqs), W \cup Through(V, Len(Repeats)))
  BY <1>1, <1>2, <1>3, LeadsFlatten
<1>6. Leads(c, W, FlattenSeq(seqs), W \cup {Measure(<<p, n>>) : n \in ToSet(Repeats)})
  BY <1>4, <1>5, LeadsWeaken
<1> QED
  BY <1>6 DEF seqs

\* What only TCP is measured for.
LEMMA LeadsConnections ==
    ASSUME NEW c, NEW p \in Protocols, NEW streaming \in BOOLEAN, NEW W,
           Measure(<<p, "zmap">>) \in W
    PROVE Leads(c, W,
                IF p = "tcp"
                THEN <<Sample(<<p, "connection-sample">>)>> \o Ipid(p, "connection-rt", streaming)
                       \o Ipid(p, "connection-fi", streaming)
                ELSE <<>>,
                W \cup IF p = "tcp" THEN {Measure(<<p, "connection-rt">>),
                                         Measure(<<p, "connection-fi">>)} ELSE {})
<1> DEFINE W1 == W \cup {Measure(<<p, "connection-rt">>)}
           W2 == W1 \cup {Measure(<<p, "connection-fi">>)}
<1>w. "connection-rt" \in Words /\ "connection-fi" \in Words
  BY DEF Words
<1>1. Leads(c, W, <<Sample(<<p, "connection-sample">>)>>, W)
  BY LeadsSample
<1>2. Leads(c, W, Ipid(p, "connection-rt", streaming), W1)
  BY <1>w, LeadsIpid
<1>3. Leads(c, W1, Ipid(p, "connection-fi", streaming), W2)
  BY <1>w, LeadsIpid
<1>4. Leads(c, W, <<Sample(<<p, "connection-sample">>)>> \o Ipid(p, "connection-rt", streaming)
                         \o Ipid(p, "connection-fi", streaming), W2)
  BY <1>1, <1>2, <1>3, LeadsConcat
<1>5. CASE p = "tcp"
  <2>1. W2 = W \cup {Measure(<<p, "connection-rt">>), Measure(<<p, "connection-fi">>)}
    OBVIOUS
  <2> QED
    BY <1>4, <1>5, <2>1
<1>6. CASE p # "tcp"
  <2>1. Leads(c, W, <<>>, W) /\ W \cup {} = W
    BY LeadsNone
  <2> QED
    BY <1>6, <2>1
<1> QED
  BY <1>5, <1>6

\* A manifest is published when all of its protocol is measured.
LEMMA LeadsSweep ==
    ASSUME NEW c, NEW p \in Protocols, NEW streaming \in BOOLEAN, NEW W,
           Measure(<<p, "zmap">>) \in W
    PROVE Leads(c, W, Sweep(p, streaming), W \cup {Publish(<<p, "manifest">>)})
<1> DEFINE W1 == W \cup {Measure(<<p, "rt">>)}
           W2 == W1 \cup {Measure(<<p, "mass">>)}
           W3 == W2 \cup {Measure(<<p, n>>) : n \in ToSet(Repeats)}
           W4 == W3 \cup {Measure(<<p, "base">>)}
           W5 == W4 \cup IF p = "tcp" THEN {Measure(<<p, "connection-rt">>),
                                            Measure(<<p, "connection-fi">>)} ELSE {}
           manifest == Publish(<<p, "manifest">>)
           strategy == Publish(<<p, "strategy">>)
<1>w. /\ "rt" \in Words /\ "mass" \in Words /\ "base" \in Words
      /\ manifest \in Ops /\ strategy \in Ops
  BY Vocabulary, OpsTypes DEF Words
<1>1. Leads(c, W, <<Measure(<<p, "rt">>), Handoff(<<p, "rt">>)>>, W1)
  BY LeadsHandedOff
<1>2. Leads(c, W1, Stream(p, "rt", streaming), W1)
  BY <1>w, LeadsStream
<1>3. Leads(c, W1, <<Measure(<<p, "mass">>), Handoff(<<p, "mass">>)>>, W2)
  BY LeadsHandedOff
<1>4. Leads(c, W2, Stream(p, "mass", streaming), W2)
  BY <1>w, LeadsStream
<1>5. Leads(c, W2, FlattenSeq([i \in DOMAIN Repeats |-> Ipid(p, Repeats[i], streaming)]), W3)
  BY LeadsRepeats
<1>6. Leads(c, W3, <<Sample(<<p, "base-sample">>)>>, W3)
  BY LeadsSample
<1>7. Leads(c, W3, Ipid(p, "base", streaming), W4)
  BY <1>w, LeadsIpid
<1>8. Leads(c, W4,
            IF p = "tcp"
            THEN <<Sample(<<p, "connection-sample">>)>> \o Ipid(p, "connection-rt", streaming)
                   \o Ipid(p, "connection-fi", streaming)
            ELSE <<>>, W5)
  BY LeadsConnections
<1>9. SweepMeasures(p) \subseteq W5
  BY DEF SweepMeasures
<1>10. Leads(c, W5, <<manifest, strategy>>, W \cup {manifest})
  <2>1. W \subseteq W5
    OBVIOUS
  <2> HIDE DEF W5, manifest, strategy
  <2>2. Justified(c, manifest, W5)
    BY <1>9 DEF Justified, manifest
  <2>3. Justified(c, strategy, W5 \cup {manifest})
    BY DEF Justified, manifest, strategy
  <2>4. Leads(c, W5, <<manifest, strategy>>, W5 \cup {manifest, strategy})
    BY <1>w, <2>2, <2>3, LeadsTwo
  <2> QED
    BY <2>1, <2>4, LeadsWeaken
<1> HIDE DEF W1, W2, W3, W4, W5
<1>11. Leads(c, W, <<Measure(<<p, "rt">>), Handoff(<<p, "rt">>)>>
                          \o Stream(p, "rt", streaming)
                          \o <<Measure(<<p, "mass">>), Handoff(<<p, "mass">>)>>
                          \o Stream(p, "mass", streaming), W2)
  BY <1>1, <1>2, <1>3, <1>4, LeadsConcat
<1> QED
  BY <1>5, <1>6, <1>7, <1>8, <1>10, <1>11, LeadsConcat DEF Sweep

\* The references on the UDP machine are measured before they are compared.
LEMMA LeadsReferences ==
    ASSUME NEW c, NEW W
    PROVE Leads(c, W, LocalReferences, W \cup {Publish(<<"site", "reference-comparison">>)})
<1> DEFINE name(i, j) == <<"reference", ProtocolOrder[j], Scales[i]>>
           inner(i) == [j \in DOMAIN ProtocolOrder |->
                          <<Measure(name(i, j)), Publish(name(i, j))>>]
           outer == [i \in DOMAIN Scales |-> FlattenSeq(inner(i))]
           V(i) == [j \in DOMAIN ProtocolOrder |-> W \cup {Measure(name(i, j))}]
           U == [i \in DOMAIN Scales |->
                   W \cup {Measure(<<"reference", p, Scales[i]>>) : p \in Protocols}]
<1>1. DOMAIN ProtocolOrder = 1 .. Len(ProtocolOrder) /\ Len(ProtocolOrder) \in Nat
      /\ DOMAIN Scales = 1 .. 2
  BY Vocabulary
<1>2. ASSUME NEW i \in 1 .. 2, NEW j \in 1 .. Len(ProtocolOrder)
      PROVE Leads(c, W, inner(i)[j], V(i)[j])
  <2> DEFINE a == Measure(name(i, j))
             b == Publish(name(i, j))
  <2>1. /\ ProtocolOrder[j] \in Protocols /\ Scales[i] \in ToSet(Scales)
        /\ ProtocolOrder[j] \in Words /\ Scales[i] \in Words /\ "reference" \in Words
    BY Vocabulary DEF Words
  <2>2. name(i, j) \in Seq(Words) /\ a \in Ops /\ b \in Ops
    BY <2>1, OpsTypes
  <2>3. Justified(c, a, W)
    BY <2>2, LeadsMeasure
  <2>4. Justified(c, b, W \cup {a})
    BY <2>1 DEF Justified
  <2>5. Leads(c, W, <<a, b>>, W \cup {a, b})
    BY <2>2, <2>3, <2>4, LeadsTwo
  <2>6. Leads(c, W, <<a, b>>, W \cup {a})
    BY <2>5, LeadsWeaken
  <2> QED
    BY <1>1, <2>6
<1>3. ASSUME NEW i \in 1 .. 2 PROVE Leads(c, W, outer[i], U[i])
  <2> DEFINE seqs == inner(i)
             Vi == V(i)
  <2>1. Len(seqs) = Len(ProtocolOrder) /\ (Len(ProtocolOrder) = 0 => seqs = <<>>)
    BY <1>1
  <2>2. \A j \in 1 .. Len(ProtocolOrder) : Leads(c, W, seqs[j], Vi[j])
    BY <1>2
  <2>3. U[i] \subseteq (W \cup Through(Vi, Len(ProtocolOrder))) \cup W
    <3> HIDE DEF Vi
    <3> SUFFICES ASSUME NEW p \in Protocols
                 PROVE Measure(<<"reference", p, Scales[i]>>) \in Through(Vi, Len(ProtocolOrder))
      <4>1. U[i] = W \cup {Measure(<<"reference", p, Scales[i]>>) : p \in Protocols}
        BY <1>1
      <4> QED
        BY <4>1
    <3>1. PICK j \in 1 .. Len(ProtocolOrder) : p = ProtocolOrder[j]
      BY Vocabulary
    <3>2. Measure(<<"reference", p, Scales[i]>>) \in Vi[j]
      BY <1>1, <3>1 DEF Vi
    <3> QED
      BY <3>2 DEF Through
  <2>4. outer[i] = FlattenSeq(seqs)
    BY <1>1
  <2> HIDE DEF seqs, Vi, outer, U
  <2>5. Leads(c, W, FlattenSeq(seqs), W \cup Through(Vi, Len(ProtocolOrder)))
    BY <1>1, <2>1, <2>2, LeadsFlatten
  <2> QED
    BY <2>3, <2>4, <2>5, LeadsWeaken
<1>4. Len(outer) = 2 /\ (2 = 0 => outer = <<>>) /\ 2 \in Nat
  BY <1>1
<1>5. ReferenceMeasures \subseteq W \cup Through(U, 2)
  <2> HIDE DEF U
  <2> SUFFICES ASSUME NEW x \in ReferenceMeasures PROVE \E i \in 1 .. 2 : x \in U[i]
    BY DEF Through
  <2>0. PICK p \in Protocols, s \in ToSet(Scales) : x = Measure(<<"reference", p, s>>)
    BY DEF ReferenceMeasures
  <2>1. PICK i \in 1 .. 2 : s = Scales[i]
    BY Vocabulary
  <2>2. Measure(<<"reference", p, s>>) \in U[i]
    BY <1>1, <2>1 DEF U
  <2> QED
    BY <2>0, <2>2
<1> DEFINE compared == Publish(<<"site", "reference-comparison">>)
           W1 == W \cup Through(U, 2)
<1>6. Leads(c, W, FlattenSeq(outer), W1)
  <2> HIDE DEF outer, U
  <2> QED
    BY <1>3, <1>4, LeadsFlatten
<1>7. Leads(c, W1, <<compared>>, W \cup {compared})
  <2>1. compared \in Ops
    BY OpsTypes DEF Words
  <2>2. W \subseteq W1
    OBVIOUS
  <2>3. Justified(c, compared, W1)
    BY <1>5 DEF Justified
  <2> HIDE DEF W1, compared
  <2>4. Leads(c, W1, <<compared>>, W1 \cup {compared})
    BY <2>1, <2>3, LeadsOne
  <2> QED
    BY <2>2, <2>4, LeadsWeaken
<1>8. LocalReferences = FlattenSeq(outer) \o <<compared>>
  BY DEF LocalReferences
<1> HIDE DEF outer, compared, W1
<1>9. Leads(c, W, FlattenSeq(outer) \o <<compared>>, W \cup {compared})
  BY <1>6, <1>7, LeadsConcat
<1> QED
  BY <1>8, <1>9 DEF compared

\* Every group is measured in both scales.
LEMMA LeadsGroups ==
    ASSUME NEW c, NEW W
    PROVE Leads(c, W, GroupMeasurements, W \cup GroupMeasures)
<1> DEFINE op(i, j) == Measure(<<"group", OrderedGroups[j], Scales[i]>>)
           inner(i) == [j \in DOMAIN OrderedGroups |-> op(i, j)]
           seqs == [i \in DOMAIN Scales |-> inner(i)]
           V == [i \in DOMAIN Scales |-> W \cup Elements(inner(i))]
<1>1. DOMAIN OrderedGroups = 1 .. Len(OrderedGroups) /\ Len(OrderedGroups) \in Nat
      /\ DOMAIN Scales = 1 .. 2
  BY Vocabulary
<1>2. ASSUME NEW i \in 1 .. 2, NEW j \in 1 .. Len(OrderedGroups)
      PROVE op(i, j) \in Ops /\ Justified(c, op(i, j), W)
  <2>1. OrderedGroups[j] \in Words /\ Scales[i] \in Words /\ "group" \in Words
    BY Vocabulary DEF Words
  <2>2. <<"group", OrderedGroups[j], Scales[i]>> \in Seq(Words) /\ op(i, j) \in Ops
    BY <2>1, OpsTypes
  <2> QED
    BY <2>2, LeadsMeasure
<1>3. ASSUME NEW i \in 1 .. 2
      PROVE /\ inner(i) \in Seq(Ops) /\ Len(inner(i)) = Len(OrderedGroups)
            /\ Leads(c, W, inner(i), V[i])
  <2>1. inner(i) \in [1 .. Len(OrderedGroups) -> Ops]
    BY <1>1, <1>2
  <2>2. inner(i) \in Seq(Ops) /\ Len(inner(i)) = Len(OrderedGroups)
    BY <1>1, <2>1
  <2>3. \A j \in 1 .. Len(inner(i)) : Justified(c, inner(i)[j], W)
    BY <1>1, <1>2, <2>2
  <2>4. Leads(c, W, inner(i), W \cup Elements(inner(i)))
    <3> HIDE DEF inner
    <3> QED
      BY <2>2, <2>3, LeadsEach
  <2> QED
    BY <1>1, <2>2, <2>4
<1>4. Len(seqs) = 2 /\ (2 = 0 => seqs = <<>>) /\ 2 \in Nat /\ \A i \in 1 .. 2 : seqs[i] = inner(i)
  BY <1>1
<1>5. GroupMeasures \subseteq Through(V, 2)
  <2> HIDE DEF V
  <2> SUFFICES ASSUME NEW x \in GroupMeasures PROVE \E i \in 1 .. 2 : x \in V[i]
    BY DEF Through
  <2>0. PICK g \in ToSet(OrderedGroups), s \in ToSet(Scales) : x = Measure(<<"group", g, s>>)
    BY DEF GroupMeasures
  <2>1. PICK i \in 1 .. 2, j \in 1 .. Len(OrderedGroups) : s = Scales[i] /\ g = OrderedGroups[j]
    BY Vocabulary
  <2>2. inner(i)[j] = Measure(<<"group", g, s>>)
    BY <1>1, <2>1
  <2>3. Measure(<<"group", g, s>>) \in Elements(inner(i))
    BY <1>3, <2>2 DEF Elements, First
  <2> QED
    BY <1>1, <2>0, <2>3 DEF V
<1>6. Leads(c, W, FlattenSeq(seqs), W \cup Through(V, 2))
  <2>1. \A i \in 1 .. 2 : Leads(c, W, seqs[i], V[i])
    BY <1>3, <1>4
  <2> HIDE DEF seqs, V
  <2> QED
    BY <1>4, <2>1, LeadsFlatten
<1>7. GroupMeasurements = FlattenSeq(seqs)
  BY DEF GroupMeasurements
<1> HIDE DEF seqs, V
<1> QED
  BY <1>5, <1>6, <1>7, LeadsWeaken

\* The interleaved measurements and the final request, after the manifests.
LEMMA LeadsInterprotocol ==
    ASSUME NEW c, NEW references \in BOOLEAN, references <=> c # "site", NEW W,
           IF c = "site" THEN \A p \in Protocols : Publish(<<p, "manifest">>) \in W
                         ELSE Await("protocols") \in W
    PROVE Leads(c, W, Interprotocol(references), W \cup {Publish(<<"site", "final">>)})
<1> DEFINE ready == Await("ready")
           targets == Handoff(<<"site", "targets">>)
           compared == Publish(<<"site", "reference-comparison">>)
           manifest == Publish(<<"site", "groups-manifest">>)
           asked == Publish(<<"site", "groups-request">>)
           final == Publish(<<"site", "final">>)
           W1 == W \cup {ready}
           W2 == W1 \cup IF c = "site" THEN {} ELSE {compared}
           W3 == W2 \cup GroupMeasures
           W4 == W3 \cup {asked}
<1>o. /\ ready \in Ops /\ targets \in Ops /\ manifest \in Ops /\ asked \in Ops
      /\ final \in Ops
  BY OpsTypes DEF Words
<1>1. Leads(c, W, <<ready, targets>>, W1)
  <2>1. Justified(c, ready, W) /\ Justified(c, targets, W \cup {ready})
    BY DEF Justified
  <2> HIDE DEF ready, targets
  <2>2. Leads(c, W, <<ready, targets>>, W \cup {ready, targets})
    BY <1>o, <2>1, LeadsTwo
  <2> QED
    BY <2>2, LeadsWeaken
<1>2. Leads(c, W1, IF references THEN LocalReferences ELSE <<>>, W2)
  <2>1. CASE c = "site"
    <3>1. W2 = W1
      BY <2>1
    <3> HIDE DEF W1, W2
    <3> QED
      BY <2>1, <3>1, LeadsNone
  <2>2. CASE c # "site"
    BY <2>2, LeadsReferences
  <2> QED
    BY <2>1, <2>2
<1>3. Leads(c, W2, GroupMeasurements, W3)
  BY LeadsGroups
<1>4. Leads(c, W3, <<manifest, asked>>, W4)
  <2>1. GroupMeasures \subseteq W3
    OBVIOUS
  <2> HIDE DEF W3
  <2>2. Justified(c, manifest, W3) /\ Justified(c, asked, W3 \cup {manifest})
    BY <2>1 DEF Justified
  <2> HIDE DEF manifest, asked
  <2>3. Leads(c, W3, <<manifest, asked>>, W3 \cup {manifest, asked})
    BY <1>o, <2>2, LeadsTwo
  <2> QED
    BY <2>3, LeadsWeaken
<1>5. Leads(c, W4, <<final>>, W \cup {final})
  <2>1. /\ ready \in W4 /\ asked \in W4 /\ W \subseteq W4
        /\ c = "site" => \A p \in Protocols : Publish(<<p, "manifest">>) \in W4
        /\ c # "site" => Await("protocols") \in W4 /\ compared \in W4
    OBVIOUS
  <2> HIDE DEF W4
  <2>2. Justified(c, final, W4)
    BY <2>1 DEF Justified
  <2> HIDE DEF final
  <2>3. Leads(c, W4, <<final>>, W4 \cup {final})
    BY <1>o, <2>2, LeadsOne
  <2> QED
    BY <2>1, <2>3, LeadsWeaken
<1> HIDE DEF W1, W2, W3, W4
<1> QED
  BY <1>1, <1>2, <1>3, <1>4, <1>5, LeadsConcat DEF Interprotocol, PublishGroups

\* runProtocol
LEMMA LeadsRunProtocol ==
    ASSUME NEW p \in Protocols
    PROVE Leads(p, {}, RunProtocol(p), {Publish(<<p, "done">>)})
<1> DEFINE zmap == Measure(<<p, "zmap">>)
           discovery == Publish(<<p, "discovery">>)
           manifest == Publish(<<p, "manifest">>)
           flow == Publish(<<p, "flow-done">>)
           last == Publish(<<p, "done">>)
           interprotocol == IF p = "udp" THEN <<Await("protocols")>> \o Interprotocol(TRUE)
                            ELSE <<>>
           W1 == {zmap}
           W2 == W1 \cup {manifest}
<1>o. /\ zmap \in Ops /\ discovery \in Ops /\ flow \in Ops /\ last \in Ops
      /\ <<p, "zmap">> \in Seq(Words) /\ Await("protocols") \in Ops
  BY Vocabulary, OpsTypes DEF Words
<1>1. Leads(p, {}, <<zmap, discovery>>, W1)
  <2>1. Justified(p, zmap, {}) /\ Justified(p, discovery, {zmap})
    BY <1>o DEF Justified
  <2>2. {} \cup {zmap} = {zmap}
    OBVIOUS
  <2> HIDE DEF zmap, discovery
  <2>3. Leads(p, {}, <<zmap, discovery>>, {} \cup {zmap, discovery})
    BY <1>o, <2>1, <2>2, LeadsTwo
  <2>4. {} \subseteq {} /\ W1 \subseteq ({} \cup {zmap, discovery}) \cup {}
    OBVIOUS
  <2> QED
    BY <2>3, <2>4, LeadsWeaken
<1>2. Leads(p, W1, Sweep(p, TRUE), W2)
  BY LeadsSweep
<1>3. Leads(p, W2, <<flow>>, W2)
  <2>1. Justified(p, flow, W2)
    BY DEF Justified
  <2>2. Leads(p, W2, <<flow>>, W2 \cup {flow})
    BY <1>o, <2>1, LeadsOne
  <2>3. W2 \subseteq W2 /\ W2 \subseteq (W2 \cup {flow}) \cup W2
    OBVIOUS
  <2> QED
    BY <2>2, <2>3, LeadsWeaken
<1>4. Leads(p, W2, interprotocol, W2)
  <2>1. CASE p = "udp"
    <3> DEFINE wait == Await("protocols")
               W3 == W2 \cup {wait}
               U == W3 \cup {Publish(<<"site", "final">>)}
    <3>1. Justified(p, wait, W2)
      BY DEF Justified
    <3>2. Leads(p, W2, <<wait>>, W3)
      BY <1>o, <3>1, LeadsOne
    <3>3. Leads(p, W3, Interprotocol(TRUE), U)
      <4>1. Await("protocols") \in W3 /\ p # "site" /\ TRUE \in BOOLEAN
        BY CampaignStoreAssumption DEF Protocols
      <4> HIDE DEF W3
      <4> QED
        BY <4>1, LeadsInterprotocol
    <3>4. W2 \subseteq U
      OBVIOUS
    <3> HIDE DEF W2, W3, U, wait
    <3>5. Leads(p, W2, <<wait>> \o Interprotocol(TRUE), U)
      BY <3>2, <3>3, LeadsConcat
    <3>6. Leads(p, W2, <<wait>> \o Interprotocol(TRUE), W2)
      BY <3>4, <3>5, LeadsWeaken
    <3> QED
      BY <2>1, <3>6 DEF wait
  <2>2. CASE p # "udp"
    BY <2>2, LeadsNone
  <2> QED
    BY <2>1, <2>2
<1>5. Leads(p, W2, <<last>>, {last})
  <2>1. Justified(p, last, W2)
    BY DEF Justified
  <2>2. Leads(p, W2, <<last>>, W2 \cup {last})
    BY <1>o, <2>1, LeadsOne
  <2>3. W2 \subseteq W2 /\ {last} \subseteq (W2 \cup {last}) \cup W2
    OBVIOUS
  <2> QED
    BY <2>2, <2>3, LeadsWeaken
<1> HIDE DEF W1, W2, interprotocol, last
<1>6. Leads(p, {}, <<zmap, discovery>> \o Sweep(p, TRUE) \o <<flow>> \o interprotocol
                         \o <<last>>, {last})
  BY <1>1, <1>2, <1>3, <1>4, <1>5, LeadsConcat
<1> QED
  BY <1>6 DEF RunProtocol, interprotocol, last

\* Run
LEMMA LeadsRunSite == Leads("site", {}, RunSite, {Publish(<<"site", "final">>)})
<1> DEFINE zmaps == [j \in DOMAIN ProtocolOrder |-> Measure(<<ProtocolOrder[j], "zmap">>)]
           discovery == Publish(<<"site", "discovery">>)
           sweeps == [j \in DOMAIN ProtocolOrder |-> Sweep(ProtocolOrder[j], FALSE)]
           W1 == {Measure(<<p, "zmap">>) : p \in Protocols}
           V == [j \in DOMAIN ProtocolOrder |->
                   W1 \cup {Publish(<<ProtocolOrder[j], "manifest">>)}]
           W2 == W1 \cup Through(V, Len(ProtocolOrder))
           final == Publish(<<"site", "final">>)
<1>1. DOMAIN ProtocolOrder = 1 .. Len(ProtocolOrder) /\ Len(ProtocolOrder) \in Nat
  BY Vocabulary
<1>2. Leads("site", {}, zmaps, W1)
  <2>1. ASSUME NEW j \in 1 .. Len(ProtocolOrder)
        PROVE zmaps[j] \in Ops /\ Justified("site", zmaps[j], {})
    <3>1. ProtocolOrder[j] \in Words /\ "zmap" \in Words
      BY Vocabulary DEF Words
    <3>2. /\ <<ProtocolOrder[j], "zmap">> \in Seq(Words)
          /\ Measure(<<ProtocolOrder[j], "zmap">>) \in Ops
      BY <3>1, OpsTypes
    <3>3. Justified("site", Measure(<<ProtocolOrder[j], "zmap">>), {})
      BY <3>2, LeadsMeasure
    <3> QED
      BY <1>1, <3>2, <3>3
  <2>2. zmaps \in Seq(Ops) /\ Len(zmaps) = Len(ProtocolOrder)
    <3>1. zmaps \in [1 .. Len(ProtocolOrder) -> Ops]
      BY <1>1, <2>1
    <3> QED
      BY <1>1, <3>1
  <2>3. {} \subseteq {} /\ W1 \subseteq ({} \cup Elements(zmaps)) \cup {}
    <3> SUFFICES ASSUME NEW p \in Protocols PROVE Measure(<<p, "zmap">>) \in Elements(zmaps)
      OBVIOUS
    <3>1. PICK j \in 1 .. Len(ProtocolOrder) : p = ProtocolOrder[j]
      BY Vocabulary
    <3>2. zmaps[j] = Measure(<<p, "zmap">>)
      BY <1>1, <3>1
    <3> QED
      BY <2>2, <3>2 DEF Elements, First
  <2> HIDE DEF zmaps, W1
  <2>4. Leads("site", {}, zmaps, {} \cup Elements(zmaps))
    BY <2>1, <2>2, LeadsEach
  <2> QED
    BY <2>3, <2>4, LeadsWeaken
<1>3. Leads("site", W1, <<discovery>>, W1)
  <2>1. discovery \in Ops
    BY OpsTypes DEF Words
  <2>2. \A p \in Protocols : Measure(<<p, "zmap">>) \in W1
    OBVIOUS
  <2> HIDE DEF W1
  <2>3. Justified("site", discovery, W1)
    BY <2>2 DEF Justified
  <2>4. Leads("site", W1, <<discovery>>, W1 \cup {discovery})
    BY <2>1, <2>3, LeadsOne
  <2> QED
    BY <2>4, LeadsWeaken
<1>4. Leads("site", W1, FlattenSeq(sweeps), W2)
  <2>1. ASSUME NEW j \in 1 .. Len(ProtocolOrder) PROVE Leads("site", W1, sweeps[j], V[j])
    <3>1. ProtocolOrder[j] \in Protocols
      BY Vocabulary
    <3>2. Measure(<<ProtocolOrder[j], "zmap">>) \in W1
      BY <3>1
    <3> HIDE DEF W1
    <3>3. Leads("site", W1, Sweep(ProtocolOrder[j], FALSE),
                W1 \cup {Publish(<<ProtocolOrder[j], "manifest">>)})
      BY <3>1, <3>2, LeadsSweep
    <3> j \in DOMAIN ProtocolOrder
      BY <1>1
    <3>4. sweeps[j] = Sweep(ProtocolOrder[j], FALSE)
      OBVIOUS
    <3>5. V[j] = W1 \cup {Publish(<<ProtocolOrder[j], "manifest">>)}
      OBVIOUS
    <3> HIDE DEF sweeps, V
    <3> QED
      BY <3>3, <3>4, <3>5
  <2>2. Len(sweeps) = Len(ProtocolOrder) /\ (Len(ProtocolOrder) = 0 => sweeps = <<>>)
    <3>1. DOMAIN sweeps = 1 .. Len(ProtocolOrder)
      BY <1>1
    <3> HIDE DEF sweeps
    <3>2. sweeps = [j \in 1 .. Len(ProtocolOrder) |-> sweeps[j]]
      BY <1>1 DEF sweeps
    <3> QED
      BY <1>1, <3>1, <3>2
  <2> HIDE DEF sweeps, V, W1
  <2> QED
    BY <1>1, <2>1, <2>2, LeadsFlatten
<1>5. \A p \in Protocols : Publish(<<p, "manifest">>) \in W2
  <2> TAKE p \in Protocols
  <2>1. PICK j \in 1 .. Len(ProtocolOrder) : p = ProtocolOrder[j]
    BY Vocabulary
  <2>2. Publish(<<p, "manifest">>) \in V[j]
    BY <1>1, <2>1
  <2> HIDE DEF V, W1
  <2> QED
    BY <2>2 DEF Through
<1> HIDE DEF W2, W1, V
<1>6. Leads("site", W2, Interprotocol(FALSE), {final})
  <2>1. FALSE \in BOOLEAN
    OBVIOUS
  <2>3. Leads("site", W2, Interprotocol(FALSE), W2 \cup {final})
    BY <1>5, <2>1, LeadsInterprotocol
  <2>4. W2 \subseteq W2 /\ {final} \subseteq (W2 \cup {final}) \cup W2
    OBVIOUS
  <2> HIDE DEF final
  <2> QED
    BY <2>3, <2>4, LeadsWeaken
<1> HIDE DEF zmaps, sweeps, final
<1>7. Leads("site", {}, zmaps \o <<discovery>> \o FlattenSeq(sweeps) \o Interprotocol(FALSE), {final})
  BY <1>2, <1>3, <1>4, <1>6, LeadsConcat
<1> QED
  BY <1>7 DEF RunSite, zmaps, sweeps, final

\* The program of every controller is a sequence of operations each of which follows those
\* that it needs.
LEMMA ProgramFacts ==
    ASSUME NEW c \in Names
    PROVE /\ Programs[c] \in Seq(Ops) /\ Len(Programs[c]) \in Nat \ {0}
          /\ \A i \in 1 .. Len(Programs[c]) :
                /\ Programs[c][i] \in Ops
                /\ Justified(c, Programs[c][i], First(Programs[c], i - 1))
<1>1. ASSUME NEW d, NEW s, NEW op, Leads(d, {}, s, {op})
      PROVE /\ s \in Seq(Ops) /\ Len(s) \in Nat \ {0}
            /\ \A i \in 1 .. Len(s) : s[i] \in Ops /\ Justified(d, s[i], First(s, i - 1))
  <2>1. s \in Seq(Ops) /\ Len(s) \in Nat
    BY <1>1 DEF Leads
  <2>2. Len(s) # 0
    <3>1. op \in Elements(s)
      BY <1>1 DEF Leads
    <3> QED
      BY <3>1 DEF Elements, First
  <2>3. ASSUME NEW i \in 1 .. Len(s)
        PROVE s[i] \in Ops /\ Justified(d, s[i], First(s, i - 1))
    <3>1. Justified(d, s[i], {} \cup First(s, i - 1))
      BY <1>1 DEF Leads
    <3>2. {} \cup First(s, i - 1) = First(s, i - 1)
      OBVIOUS
    <3>3. s[i] \in Ops
      BY <2>1, ElementOfSeq
    <3> QED
      BY <3>1, <3>2, <3>3
  <2> QED
    BY <2>1, <2>2, <2>3
<1>2. CASE c = "site"
  <2>1. Programs[c] = RunSite
    BY <1>2 DEF Programs
  <2>2. Leads(c, {}, RunSite, {Publish(<<"site", "final">>)})
    BY <1>2, LeadsRunSite
  <2> QED
    BY <1>1, <2>1, <2>2
<1>3. CASE c # "site"
  <2>1. Programs[c] = RunProtocol(c) /\ c \in Protocols
    BY <1>3 DEF Programs, Names
  <2>2. Leads(c, {}, RunProtocol(c), {Publish(<<c, "done">>)})
    BY <2>1, LeadsRunProtocol
  <2> QED
    BY <1>1, <2>1, <2>2
<1> QED
  BY <1>2, <1>3

-----------------------------------------------------------------------------
(* The parts of the inductive invariant *)

\* What TypeOK leaves open.
DataType ==
    /\ deployment \in Deployments
    /\ retrying \in [Names -> BOOLEAN] /\ skipOS \in [Names -> BOOLEAN]
    /\ seen \in 0 .. 2 /\ target \in {0, 1, 2, Truncated}
    /\ scanned \in [Scans -> {0, 1, 2, Truncated}]
    /\ attempt \in [Scans -> 0 .. MaxScans] /\ own \in 0 .. MaxScans
    /\ uploaded \in 0 .. Len(ScanFiles) /\ raw \in [DOMAIN ScanFiles -> 0 .. MaxScans]

(***************************************************************************)
(* A controller that is at an operation has the effects of all operations  *)
(* before it in the store, in the workspace or from the analysis.          *)
(***************************************************************************)
Settled(op) ==
    /\ op[1] = "measure" => op[2] \in measured
    /\ op[1] \in {"publish", "sample"} => Exists(op[2])
    /\ op[1] = "protocols" => AllFlowsDone
    /\ op[1] = "ready" => \A p \in Protocols : answers[<<p, "strategy">>] = "done"

Active(c) == phase[c] \in {"running", "polling"}

ProgressInv ==
    \A c \in Controllers : Active(c) =>
        /\ \A j \in 1 .. at[c] - 1 : Settled(Programs[c][j])
        /\ phase[c] = "polling" => Operation(c)[1] = "handoff"
        /\ ~Exists(<<c, "failed">>)

\* A completed flow has its manifest.
FlowInv == \A p \in Protocols : Exists(<<p, "flow-done">>) => Exists(<<p, "manifest">>)

\* A protocol that is no longer waited for is ready.
ReadyInv == \A p \in Protocols \ remaining : answers[<<p, "strategy">>] = "done"

\* A controller that has accepted the policy of the campaign shares it.
PolicyInv ==
    ~raced => \A c \in Controllers :
        phase[c] \in {"layout", "retry", "admit", "running", "polling"} => campaign = Own(c)

\* The controller of a site has seen that no machine has a protocol of its own.
LayoutInv ==
    \A c \in Controllers :
        c = "site" /\ phase[c] \in {"retry", "admit", "running", "polling"}
            => ~Exists(<<"parallel">>)

Working == worker \in {"pin", "stat", "evidence", "recheck", "plan", "complete", "output",
                       "launch", "scan", "upload"}

(***************************************************************************)
(* The worker works on a request that it has pinned, without a verdict,    *)
(* and plans no scan before the targets are those of the request.          *)
(***************************************************************************)
RequestInv ==
    /\ deployment # "os" => worker = "down" /\ done = NotDone
    /\ Working => done = NotDone /\ ~Exists(<<"os", "failed">>) /\ ~NotRequested /\ seen # 0
    /\ Working /\ ~At("pin") => seen = pinned
    /\ worker \in {"plan", "complete", "output", "launch", "scan", "upload"} \/ scan # 0
          => target = pinned /\ pinned # 0
    /\ worker \in {"complete", "output", "launch", "scan", "upload"} => scan # 0

(***************************************************************************)
(* The attempts: each directory that exists is of an attempt that was      *)
(* planned and scanned the pinned request, and only earlier ones are       *)
(* archived.                                                               *)
(***************************************************************************)
AttemptInv ==
    /\ \A a \in Scans : output[a] # "absent" => a <= scan /\ scanned[a] = pinned
    /\ \A a \in Scans : output[a] \in {"archived", "archivedClosed"} => a < scan
    /\ \A k \in Scans : process[k] # "none" => attempt[k] \in 1 .. scan
    /\ \A k \in Scans :
          process[k] = "ok" => output[attempt[k]] \in {"closed", "archivedClosed"}
    /\ NotRequested /\ deployment = "os" => \A k \in Scans : process[k] = "none"

\* A scan runs for the worker that waits for it, unless it has outlived its worker.
OrphanInv ==
    /\ At("scan") => own \in Scans /\ process[own] # "none" /\ attempt[own] = scan
    /\ \A k \in Scans :
          process[k] \in {"launched", "writing"} => orphaned \/ (At("scan") /\ own = k)
    /\ At("output") /\ output[scan] = "closed" => orphaned

\* What is uploaded is of the current attempt, which is closed.
UploadInv ==
    /\ worker \in {"retry", "poll"} \/ (Working /\ ~At("upload")) => uploaded = 0
    /\ At("upload") => output[scan] = "closed" /\ \A i \in 1 .. uploaded : raw[i] = scan

-----------------------------------------------------------------------------
(* What an object speaks for *)

\* The protocols have names of their own.
LEMMA ProtocolNames ==
    /\ \A p \in Protocols : p \notin {"site", "os", "reference", "request", "group"}
    /\ "udp" \in Protocols
BY CampaignStoreAssumption DEF Protocols

LEMMA BackingOfProtocol ==
    ASSUME NEW p \in Protocols
    PROVE /\ \A n : Backing(<<p, "stream", n>>) = {<<p, n>>, <<p, "zmap">>}
          /\ Backing(<<p, "discovery">>) = {<<p, "zmap">>}
          /\ \A k \in {"manifest", "strategy", "flow-done"} : Backing(<<p, k>>) = SweepNames(p)
          /\ \A k \in {"done", "base-sample", "connection-sample", "failed"} :
                Backing(<<p, k>>) = {}
<1>1. p \notin {"site", "os", "reference", "request", "group"}
  BY ProtocolNames
<1>2. \A n : Backing(<<p, "stream", n>>) = {<<p, n>>, <<p, "zmap">>}
  BY <1>1 DEF Backing
<1>3. Backing(<<p, "discovery">>) = {<<p, "zmap">>}
  BY <1>1 DEF Backing
<1>4. \A k \in {"manifest", "strategy", "flow-done"} : Backing(<<p, k>>) = SweepNames(p)
  BY <1>1 DEF Backing
<1>5. \A k \in {"done", "base-sample", "connection-sample", "failed"} : Backing(<<p, k>>) = {}
  BY <1>1 DEF Backing
<1> QED
  BY <1>2, <1>3, <1>4, <1>5

LEMMA BackingOfSite ==
    /\ Backing(<<"site", "discovery">>) = {<<p, "zmap">> : p \in Protocols}
    /\ Backing(<<"site", "reference-comparison">>) = ReferenceNames
    /\ \A k \in {"groups-manifest", "groups-request"} : Backing(<<"site", k>>) = GroupNames
    /\ Backing(<<"site", "final">>) = CampaignNames
    /\ Backing(<<"site", "failed">>) = {}
<1>1. Backing(<<"site", "discovery">>) = {<<p, "zmap">> : p \in Protocols}
  BY DEF Backing
<1>2. Backing(<<"site", "reference-comparison">>) = ReferenceNames
  BY DEF Backing
<1>3. \A k \in {"groups-manifest", "groups-request"} : Backing(<<"site", k>>) = GroupNames
  BY DEF Backing
<1>4. Backing(<<"site", "final">>) = CampaignNames
  BY DEF Backing
<1>5. Backing(<<"site", "failed">>) = {}
  BY DEF Backing
<1> QED
  BY <1>1, <1>2, <1>3, <1>4, <1>5

LEMMA BackingOfOthers ==
    /\ \A p \in Protocols : \A s : Backing(<<"reference", p, s>>) = {<<"reference", p, s>>}
    /\ \A p, n : n # "targets" => Backing(<<"request", p, n>>) = {<<p, n>>}
    /\ \A p : Backing(<<"request", p, "targets">>) = {}
    /\ \A k \in {"enrichment", "not-requested", "failed"} : Backing(<<"os", k>>) = {}
    /\ \A v : Backing(<<"os", "running", v>>) = {}
    /\ Backing(<<"parallel">>) = {} /\ Backing(<<"local-references">>) = {}
<1>1. \A p \in Protocols : \A s : Backing(<<"reference", p, s>>) = {<<"reference", p, s>>}
  BY DEF Backing
<1>2. ASSUME NEW p, NEW n PROVE
        Backing(<<"request", p, n>>) = IF n = "targets" THEN {} ELSE {<<p, n>>}
  <2> DEFINE name == <<"request", p, n>>
  <2>1. Len(name) = 3 /\ name[1] = "request" /\ name[2] = p /\ name[3] = n
    OBVIOUS
  <2> HIDE DEF name
  <2>2. Backing(name) = IF name[3] = "targets" THEN {} ELSE {<<name[2], name[3]>>}
    BY <2>1 DEF Backing
  <2> QED
    BY <2>1, <2>2 DEF name
<1>4. \A k \in {"enrichment", "not-requested", "failed"} : Backing(<<"os", k>>) = {}
  <2> TAKE k \in {"enrichment", "not-requested", "failed"}
  <2> DEFINE name == <<"os", k>>
  <2>1. Len(name) = 2 /\ name[1] = "os" /\ name[2] = k
    OBVIOUS
  <2> HIDE DEF name
  <2>2. Backing(name) = {}
    BY <2>1 DEF Backing
  <2> QED
    BY <2>2 DEF name
<1>5. ASSUME NEW v PROVE Backing(<<"os", "running", v>>) = {}
  <2> DEFINE name == <<"os", "running", v>>
  <2>1. Len(name) = 3 /\ name[1] = "os" /\ name[2] = "running"
    OBVIOUS
  <2> HIDE DEF name
  <2>2. Backing(name) = {}
    BY <2>1 DEF Backing
  <2> QED
    BY <2>2 DEF name
<1>6. ASSUME NEW s, Len(s) = 1 PROVE Backing(s) = {}
  BY <1>6 DEF Backing
<1>7. Backing(<<"parallel">>) = {} /\ Backing(<<"local-references">>) = {}
  BY <1>6
<1> QED
  BY <1>1, <1>2, <1>4, <1>5, <1>7

-----------------------------------------------------------------------------
(* What a controller publishes stands on what it has done *)

\* What is said of a final request by FinalComplete.
FinalParts ==
    /\ \A p \in Protocols :
          /\ Exists(<<p, "manifest">>) /\ answers[<<p, "strategy">>] = "done"
          /\ deployment = "parallel" => Exists(<<p, "flow-done">>)
    /\ deployment = "parallel" => Exists(<<"site", "reference-comparison">>)
    /\ Exists(<<"site", "groups-request">>)

\* An object that a step of c may add.
Fresh(c, name) ==
    /\ Backing(name) \subseteq measured
    /\ name = <<"parallel">> => c # "site" /\ ~Exists(<<"site", "discovery">>)
    /\ name = <<"site", "discovery">> => c = "site" /\ ~Exists(<<"parallel">>)
    /\ \A p \in Protocols : name = <<p, "flow-done">> => Exists(<<p, "manifest">>)
    /\ name = <<"site", "final">> => FinalParts
    /\ \A d \in Names : name = <<d, "failed">> => d = c /\ ~Active(d)
    /\ name = <<"os", "failed">> => c = "os"

LEMMA ControllerFacts ==
    ASSUME DataType, NEW c \in Controllers
    PROVE /\ c \in Names /\ (c = "site" \/ c \in Protocols)
          /\ deployment # "os"
          /\ deployment = "parallel" <=> c # "site"
          /\ deployment = "site" <=> c = "site"
<1>1. deployment \in {"parallel", "site", "os"} /\ \A p \in Protocols : p # "site"
  BY ProtocolNames DEF DataType, Deployments
<1> QED
  BY <1>1 DEF Controllers, Names

\* Names of different lengths or with different parts are different.
LEMMA NamesDiffer ==
    /\ \A a, b : <<a, b>> # <<"parallel">> /\ <<a, b>> # <<"local-references">>
    /\ \A a, b, c : <<a, b, c>> # <<"parallel">> /\ <<a, b, c>> # <<"local-references">>
    /\ \A a, b, c, d, e : <<a, b, c>> # <<d, e>>
    /\ \A a, b, c, d : (a # c \/ b # d) => <<a, b>> # <<c, d>>
    /\ <<"parallel">> # <<"local-references">>
<1>1. ASSUME NEW a, NEW b, NEW c, NEW d, <<a, b>> = <<c, d>> PROVE a = c /\ b = d
  BY <1>1
<1>2. ASSUME NEW a, NEW b, NEW c PROVE <<a, b>> # <<c>>
  <2>1. Len(<<a, b>>) = 2 /\ Len(<<c>>) = 1
    OBVIOUS
  <2> QED
    BY <2>1
<1>3. ASSUME NEW a, NEW b, NEW c, NEW d PROVE <<a, b, c>> # <<d>>
  <2>1. Len(<<a, b, c>>) = 3 /\ Len(<<d>>) = 1
    OBVIOUS
  <2> QED
    BY <2>1
<1>4. ASSUME NEW a, NEW b, NEW c, NEW d, NEW e PROVE <<a, b, c>> # <<d, e>>
  <2>1. Len(<<a, b, c>>) = 3 /\ Len(<<d, e>>) = 2
    OBVIOUS
  <2> QED
    BY <2>1
<1>5. <<"parallel">> # <<"local-references">>
  OBVIOUS
<1> QED
  BY <1>1, <1>2, <1>3, <1>4, <1>5

\* A controller at an operation has done what justifies it.
LEMMA OperationFacts ==
    ASSUME TypeOK, DataType, ProgressInv, NEW c \in Controllers, Active(c)
    PROVE /\ at[c] \in 1 .. Len(Programs[c]) /\ Operation(c) \in Ops
          /\ \E before :
                /\ Justified(c, Operation(c), before)
                /\ \A name : /\ Measure(name) \in before => name \in measured
                             /\ Publish(name) \in before => Exists(name)
                /\ Await("protocols") \in before => AllFlowsDone
                /\ Await("ready") \in before
                      => \A p \in Protocols : answers[<<p, "strategy">>] = "done"
<1> DEFINE before == First(Programs[c], at[c] - 1)
<1>1. c \in Names
  BY ControllerFacts
<1>2. at[c] \in 1 .. Len(Programs[c])
  BY <1>1 DEF TypeOK
<1>3. Operation(c) \in Ops /\ Justified(c, Operation(c), before)
  BY <1>1, <1>2, ProgramFacts DEF Operation
<1>4. \A op \in before : Settled(op)
  BY DEF ProgressInv, First
<1> HIDE DEF before
<1>5. ASSUME NEW name
      PROVE /\ Measure(name) \in before => name \in measured
            /\ Publish(name) \in before => Exists(name)
  <2>1. Measure(name)[1] = "measure" /\ Measure(name)[2] = name
    BY DEF Measure
  <2>2. Publish(name)[1] = "publish" /\ Publish(name)[2] = name
    BY DEF Publish
  <2> QED
    BY <1>4, <2>1, <2>2 DEF Settled
<1>6. /\ Await("protocols") \in before => AllFlowsDone
      /\ Await("ready") \in before
            => \A p \in Protocols : answers[<<p, "strategy">>] = "done"
  <2>1. Await("protocols")[1] = "protocols" /\ Await("ready")[1] = "ready"
    BY DEF Await
  <2> QED
    BY <1>4, <2>1 DEF Settled
<1> QED
  BY <1>2, <1>3, <1>5, <1>6

\* What a sequence of measurements is called, and what an object about it stands on.
LEMMA MeasuredSets ==
    ASSUME NEW before, \A name : Measure(name) \in before => name \in measured
    PROVE /\ \A p : SweepMeasures(p) \subseteq before => SweepNames(p) \subseteq measured
          /\ ReferenceMeasures \subseteq before => ReferenceNames \subseteq measured
          /\ GroupMeasures \subseteq before => GroupNames \subseteq measured
<1>1. ASSUME NEW p, SweepMeasures(p) \subseteq before, NEW name \in SweepNames(p)
      PROVE name \in measured
  BY <1>1 DEF SweepMeasures, SweepNames
<1>2. ASSUME ReferenceMeasures \subseteq before, NEW name \in ReferenceNames
      PROVE name \in measured
  BY <1>2 DEF ReferenceMeasures, ReferenceNames
<1>3. ASSUME GroupMeasures \subseteq before, NEW name \in GroupNames PROVE name \in measured
  BY <1>3 DEF GroupMeasures, GroupNames
<1> QED
  BY <1>1, <1>2, <1>3

\* Only <<d, "failed">> is like a failure, and only a final request like one.
LEMMA FreshFromBacking ==
    ASSUME NEW c, NEW name, Backing(name) \subseteq measured, Len(name) \in {2, 3},
           Len(name) = 2 => name[2] \notin {"failed", "flow-done", "final"},
           Len(name) = 2 /\ name[1] = "site" => name[2] # "discovery"
    PROVE Fresh(c, name)
<1>1. \A a, b : Len(<<a, b>>) = 2 /\ <<a, b>>[1] = a /\ <<a, b>>[2] = b
  OBVIOUS
<1>2. Len(<<"parallel">>) = 1
  OBVIOUS
<1>3. name # <<"parallel">>
  BY <1>2
<1>4. \A a : name # <<a, "failed">> /\ name # <<a, "flow-done">> /\ name # <<a, "final">>
  BY <1>1
<1>5. name # <<"site", "discovery">>
  BY <1>1
<1> QED
  BY <1>3, <1>4, <1>5 DEF Fresh

\* What operations are, taken apart.
LEMMA OperationParts ==
    /\ \A name : /\ Measure(name)[1] = "measure" /\ Measure(name)[2] = name
                 /\ Publish(name)[1] = "publish" /\ Publish(name)[2] = name
                 /\ Handoff(name)[1] = "handoff" /\ Handoff(name)[2] = name
                 /\ Sample(name)[1] = "sample" /\ Sample(name)[2] = name
    /\ \A what : Await(what)[1] = what
BY DEF Measure, Publish, Handoff, Sample, Await

\* An operation that publishes adds an object that is backed.
LEMMA PublicationFresh ==
    ASSUME TypeOK, DataType, ProgressInv, PublishedBacked, FlowInv, LayoutInv,
           NEW c \in Controllers, Active(c), Operation(c)[1] \in {"publish", "sample"}
    PROVE Fresh(c, Subject(c))
<1> DEFINE op == Operation(c)
           name == Subject(c)
<1>1. PICK before :
        /\ Justified(c, op, before)
        /\ \A n : /\ Measure(n) \in before => n \in measured
                  /\ Publish(n) \in before => Exists(n)
        /\ Await("protocols") \in before => AllFlowsDone
        /\ Await("ready") \in before
              => \A p \in Protocols : answers[<<p, "strategy">>] = "done"
  BY OperationFacts
<1>2. name = op[2] /\ op[1] \in {"publish", "sample"}
  BY DEF Subject
<1>3. /\ \A p : SweepMeasures(p) \subseteq before => SweepNames(p) \subseteq measured
      /\ ReferenceMeasures \subseteq before => ReferenceNames \subseteq measured
      /\ GroupMeasures \subseteq before => GroupNames \subseteq measured
  BY <1>1, MeasuredSets
<1>4. /\ \A p \in Protocols : p \notin {"site", "os", "reference", "request", "group"}
      /\ c \in Names
  BY ProtocolNames, ControllerFacts
<1>5. \A n : Exists(n) => Backing(n) \subseteq measured
  BY DEF PublishedBacked, Exists
<1>6. \A a, b : /\ Len(<<a, b>>) = 2 /\ <<a, b>>[1] = a /\ <<a, b>>[2] = b
  OBVIOUS
<1>7. \A a, b, d : Len(<<a, b, d>>) = 3
  OBVIOUS
<1> HIDE DEF op, name
<1>11. ASSUME NEW p \in Protocols, NEW n \in {"base-sample", "connection-sample"},
              op = Sample(<<p, n>>)
       PROVE Fresh(c, name)
  <2>1. name = <<p, n>> /\ Backing(<<p, n>>) = {}
    BY <1>2, <1>11, OperationParts, BackingOfProtocol
  <2> QED
    BY <1>6, <2>1, FreshFromBacking
<1>12. ASSUME NEW p \in Protocols, NEW n \in Words, op = Publish(<<p, "stream", n>>),
              Measure(<<p, n>>) \in before /\ Measure(<<p, "zmap">>) \in before
       PROVE Fresh(c, name)
  <2>1. name = <<p, "stream", n>> /\ Backing(<<p, "stream", n>>) = {<<p, n>>, <<p, "zmap">>}
    BY <1>2, <1>12, OperationParts, BackingOfProtocol
  <2>2. Backing(name) \subseteq measured
    BY <1>1, <1>12, <2>1
  <2> QED
    BY <1>7, <2>1, <2>2, FreshFromBacking
<1>13. ASSUME NEW p \in Protocols, op = Publish(<<p, "discovery">>),
              Measure(<<p, "zmap">>) \in before
       PROVE Fresh(c, name)
  <2>1. name = <<p, "discovery">> /\ Backing(<<p, "discovery">>) = {<<p, "zmap">>}
    BY <1>2, <1>13, OperationParts, BackingOfProtocol
  <2>2. Backing(name) \subseteq measured
    BY <1>1, <1>13, <2>1
  <2> QED
    BY <1>4, <1>6, <2>1, <2>2, FreshFromBacking
<1>14. ASSUME c = "site", op = Publish(<<"site", "discovery">>),
              \A p \in Protocols : Measure(<<p, "zmap">>) \in before
       PROVE Fresh(c, name)
  <2>1. /\ name = <<"site", "discovery">>
        /\ Backing(<<"site", "discovery">>) = {<<p, "zmap">> : p \in Protocols}
    BY <1>2, <1>14, OperationParts, BackingOfSite
  <2>2. Backing(name) \subseteq measured
    BY <1>1, <1>14, <2>1
  <2>3. ~Exists(<<"parallel">>)
    BY <1>14 DEF LayoutInv, Active
  <2>4. /\ name # <<"parallel">>
        /\ \A a : name # <<a, "failed">> /\ name # <<a, "flow-done">> /\ name # <<a, "final">>
    BY <2>1, NamesDiffer
  <2> QED
    BY <1>14, <2>2, <2>3, <2>4 DEF Fresh
<1>15. ASSUME NEW p \in Protocols, op = Publish(<<p, "manifest">>),
              SweepMeasures(p) \subseteq before
       PROVE Fresh(c, name)
  <2>1. name = <<p, "manifest">> /\ Backing(<<p, "manifest">>) = SweepNames(p)
    BY <1>2, <1>15, OperationParts, BackingOfProtocol
  <2>2. Backing(name) \subseteq measured
    BY <1>3, <1>15, <2>1
  <2> QED
    BY <1>6, <2>1, <2>2, FreshFromBacking
<1>16. ASSUME NEW p \in Protocols, NEW n \in {"strategy", "flow-done", "done"},
              op = Publish(<<p, n>>), Publish(<<p, "manifest">>) \in before
       PROVE Fresh(c, name)
  <2>1. name = <<p, n>> /\ Exists(<<p, "manifest">>)
    BY <1>1, <1>2, <1>16, OperationParts
  <2>2. Backing(<<p, "manifest">>) = SweepNames(p)
    BY BackingOfProtocol
  <2>3. SweepNames(p) \subseteq measured
    BY <1>5, <2>1, <2>2
  <2>4. Backing(<<p, n>>) = SweepNames(p) \/ Backing(<<p, n>>) = {}
    BY BackingOfProtocol
  <2>5. Backing(name) \subseteq measured
    BY <2>1, <2>3, <2>4
  <2>6. /\ name # <<"parallel">> /\ name # <<"site", "discovery">> /\ name # <<"site", "final">>
        /\ \A a : name # <<a, "failed">>
        /\ \A a : name = <<a, "flow-done">> => a = p
    BY <2>1, NamesDiffer
  <2> QED
    BY <2>1, <2>5, <2>6 DEF Fresh
<1>17. ASSUME NEW p \in Protocols, NEW s \in ToSet(Scales),
              op = Publish(<<"reference", p, s>>), Measure(<<"reference", p, s>>) \in before
       PROVE Fresh(c, name)
  <2>1. name = <<"reference", p, s>> /\ Backing(<<"reference", p, s>>) = {<<"reference", p, s>>}
    BY <1>2, <1>17, OperationParts, BackingOfOthers
  <2>2. Backing(name) \subseteq measured
    BY <1>1, <1>17, <2>1
  <2> QED
    BY <1>7, <2>1, <2>2, FreshFromBacking
<1>18. ASSUME op = Publish(<<"site", "reference-comparison">>), ReferenceMeasures \subseteq before
       PROVE Fresh(c, name)
  <2>1. /\ name = <<"site", "reference-comparison">>
        /\ Backing(<<"site", "reference-comparison">>) = ReferenceNames
    BY <1>2, <1>18, OperationParts, BackingOfSite
  <2>2. Backing(name) \subseteq measured
    BY <1>3, <1>18, <2>1
  <2> QED
    BY <1>6, <2>1, <2>2, FreshFromBacking
<1>19. ASSUME NEW n \in {"groups-manifest", "groups-request"}, op = Publish(<<"site", n>>),
              GroupMeasures \subseteq before
       PROVE Fresh(c, name)
  <2>1. name = <<"site", n>> /\ Backing(<<"site", n>>) = GroupNames
    BY <1>2, <1>19, OperationParts, BackingOfSite
  <2>2. Backing(name) \subseteq measured
    BY <1>3, <1>19, <2>1
  <2> QED
    BY <1>6, <2>1, <2>2, FreshFromBacking
<1>20. ASSUME op = Publish(<<"site", "final">>),
              Await("ready") \in before, Publish(<<"site", "groups-request">>) \in before,
              IF c = "site" THEN \A p \in Protocols : Publish(<<p, "manifest">>) \in before
              ELSE /\ Await("protocols") \in before
                   /\ Publish(<<"site", "reference-comparison">>) \in before
       PROVE Fresh(c, name)
  <2>1. name = <<"site", "final">>
    BY <1>2, <1>20, OperationParts
  <2>2. deployment = "parallel" <=> c # "site"
    BY ControllerFacts
  <2>3. FinalParts
    <3>1. CASE c = "site"
      BY <1>1, <1>20, <2>2, <3>1 DEF FinalParts
    <3>2. CASE c # "site"
      <4>1. \A p \in Protocols : Exists(<<p, "flow-done">>)
        BY <1>1, <1>20, <3>2 DEF AllFlowsDone, FlowDone
      <4>2. \A p \in Protocols : Exists(<<p, "manifest">>)
        BY <4>1 DEF FlowInv
      <4> QED
        BY <1>1, <1>20, <3>2, <4>1, <4>2 DEF FinalParts
    <3> QED
      BY <3>1, <3>2
  <2>4. \A p \in Protocols : SweepNames(p) \subseteq measured
    <3> TAKE p \in Protocols
    <3>1. Exists(<<p, "manifest">>) /\ Backing(<<p, "manifest">>) = SweepNames(p)
      BY <2>3, BackingOfProtocol DEF FinalParts
    <3> QED
      BY <1>5, <3>1
  <2>5. GroupNames \subseteq measured
    <3>1. Exists(<<"site", "groups-request">>) /\ Backing(<<"site", "groups-request">>) = GroupNames
      BY <2>3, BackingOfSite DEF FinalParts
    <3> QED
      BY <1>5, <3>1
  <2>6. deployment = "parallel" => ReferenceNames \subseteq measured
    <3>1. /\ deployment = "parallel" => Exists(<<"site", "reference-comparison">>)
          /\ Backing(<<"site", "reference-comparison">>) = ReferenceNames
      BY <2>3, BackingOfSite DEF FinalParts
    <3> QED
      BY <1>5, <3>1
  <2>7. Backing(name) \subseteq measured
    <3>1. Backing(name) = CampaignNames
      BY <2>1, BackingOfSite
    <3>2. ASSUME NEW x \in CampaignNames PROVE x \in measured
      <4>1. \/ x \in GroupNames
            \/ \E p \in Protocols : x \in SweepNames(p)
            \/ deployment = "parallel" /\ x \in ReferenceNames
        BY DEF CampaignNames
      <4> QED
        BY <2>4, <2>5, <2>6, <4>1
    <3> QED
      BY <3>1, <3>2
  <2>8. /\ name # <<"parallel">> /\ name # <<"site", "discovery">>
        /\ \A a : name # <<a, "failed">> /\ name # <<a, "flow-done">>
    BY <2>1, NamesDiffer
  <2> QED
    BY <2>3, <2>7, <2>8 DEF Fresh
<1>21. /\ \A n : op # Measure(n) /\ op # Handoff(n)
       /\ op # Await("ready") /\ op # Await("protocols")
  BY <1>2, OperationParts
<1>22. Fresh(c, name)
  BY <1>1, <1>11, <1>12, <1>13, <1>14, <1>15, <1>16, <1>17, <1>18, <1>19, <1>20, <1>21
     DEF Justified
<1> QED
  BY <1>22 DEF name

\* So does a hand-off.
LEMMA HandoffFresh ==
    ASSUME TypeOK, DataType, ProgressInv, NEW c \in Controllers, Active(c),
           Operation(c)[1] = "handoff"
    PROVE Fresh(c, Request(Subject(c)))
<1> DEFINE op == Operation(c)
           job == Subject(c)
<1>1. PICK before : Justified(c, op, before) /\ \A n : Measure(n) \in before => n \in measured
  BY OperationFacts
<1>2. job = op[2] /\ op[1] = "handoff"
  BY DEF Subject
<1>3. Request(job) = <<"request", job[1], job[2]>> /\ Len(Request(job)) = 3
  BY DEF Request
<1> HIDE DEF op, job
<1>4. CASE op = Handoff(<<"site", "targets">>)
  <2>1. job = <<"site", "targets">>
    BY <1>2, <1>4, OperationParts
  <2>2. Request(job) = <<"request", "site", "targets">>
    BY <1>3, <2>1
  <2>3. Backing(Request(job)) = {}
    BY <2>2, BackingOfOthers
  <2> QED
    BY <1>3, <2>3, FreshFromBacking DEF job
<1>5. ASSUME NEW p \in Protocols, NEW n \in {"rt", "mass"},
             op = Handoff(<<p, n>>), Measure(<<p, n>>) \in before
      PROVE Fresh(c, Request(job))
  <2>1. job = <<p, n>>
    BY <1>2, <1>5, OperationParts
  <2>2. Request(job) = <<"request", p, n>> /\ n # "targets"
    BY <1>3, <2>1
  <2>3. Backing(Request(job)) = {<<p, n>>}
    BY <2>2, BackingOfOthers
  <2> QED
    BY <1>1, <1>3, <1>5, <2>3, FreshFromBacking
<1>6. /\ \A n : op # Measure(n) /\ op # Publish(n) /\ op # Sample(n)
      /\ op # Await("ready") /\ op # Await("protocols")
  BY <1>2, OperationParts
<1>7. Fresh(c, Request(job))
  BY <1>1, <1>4, <1>5, <1>6 DEF Justified, job
<1> QED
  BY <1>7 DEF job

\* No operation publishes or needs a failure.
LEMMA NoFailurePublished ==
    ASSUME TypeOK, DataType, NEW c \in Controllers, NEW j \in 1 .. Len(Programs[c]), NEW d
    PROVE Programs[c][j][1] \in {"publish", "sample"} => Programs[c][j][2] # <<d, "failed">>
<1> DEFINE op == Programs[c][j]
<1>1. Justified(c, op, First(Programs[c], j - 1))
  BY ControllerFacts, ProgramFacts
<1> HIDE DEF op
<1>2. SUFFICES ASSUME op[1] \in {"publish", "sample"}, op[2] = <<d, "failed">> PROVE FALSE
  BY DEF op
<1>3. /\ \A n : op # Measure(n) /\ op # Handoff(n)
      /\ op # Await("ready") /\ op # Await("protocols")
  BY <1>2, OperationParts
<1>4. \A a, b : op = Publish(<<a, b>>) \/ op = Sample(<<a, b>>) => b = "failed"
  BY <1>2, OperationParts, NamesDiffer
<1>5. \A a, b, e : op # Publish(<<a, b, e>>)
  BY <1>2, OperationParts, NamesDiffer
<1> QED
  BY <1>1, <1>3, <1>4, <1>5 DEF Justified

-----------------------------------------------------------------------------
(* What every step of a controller or of the worker does to the store *)

\* A step of c adds only what is backed, and takes back at most the failure of c.
DataStep(c) ==
    /\ deployment' = deployment /\ measured \subseteq measured'
    /\ \A job \in Jobs : answers[job] = "done" => answers'[job] = "done"
    /\ \A name \in objects : name \in objects' \/ name = <<c, "failed">>
    /\ \A name \in objects' : name \in objects \/ Fresh(c, name)

LEMMA BackingPrimed ==
    ASSUME deployment' = deployment PROVE \A name : Backing(name)' = Backing(name)
<1>1. CampaignNames' = CampaignNames
  BY DEF CampaignNames
<1> QED
  BY <1>1 DEF Backing

\* What is in the store stays, but for failures.
LEMMA ObjectsStay ==
    ASSUME NEW c, DataStep(c), NEW a, NEW b, b # "failed"
    PROVE Exists(<<a, b>>) => Exists(<<a, b>>)'
<1>1. <<a, b>> # <<c, "failed">>
  BY NamesDiffer
<1> QED
  BY <1>1 DEF DataStep, Exists

LEMMA PublishedBackedStep ==
    ASSUME PublishedBacked, NEW c, DataStep(c)
    PROVE PublishedBacked'
<1> SUFFICES ASSUME NEW name \in objects' PROVE Backing(name)' \subseteq measured'
  BY DEF PublishedBacked
<1>1. Backing(name)' = Backing(name)
  BY BackingPrimed DEF DataStep
<1>2. Backing(name) \subseteq measured
  BY DEF PublishedBacked, DataStep, Fresh
<1> QED
  BY <1>1, <1>2 DEF DataStep

LEMMA FlowStep ==
    ASSUME FlowInv, NEW c, DataStep(c)
    PROVE FlowInv'
<1> SUFFICES ASSUME NEW p \in Protocols, Exists(<<p, "flow-done">>)'
             PROVE Exists(<<p, "manifest">>)'
  BY DEF FlowInv
<1>1. Exists(<<p, "manifest">>)
  BY DEF FlowInv, DataStep, Fresh, Exists
<1> QED
  BY <1>1, ObjectsStay

LEMMA FinalStep ==
    ASSUME FinalComplete, NEW c, DataStep(c)
    PROVE FinalComplete'
<1> SUFFICES ASSUME Exists(<<"site", "final">>)' PROVE FinalParts'
  BY DEF FinalComplete, FinalParts
<1>1. FinalParts
  <2>1. CASE Exists(<<"site", "final">>)
    BY <2>1 DEF FinalComplete, FinalParts
  <2>2. CASE ~Exists(<<"site", "final">>)
    BY <2>2 DEF DataStep, Fresh, Exists
  <2> QED
    BY <2>1, <2>2
<1>2. \A p \in Protocols : <<p, "strategy">> \in Jobs
  BY DEF Jobs
<1>3. deployment' = deployment
  BY DEF DataStep
<1>4. ASSUME NEW p \in Protocols
      PROVE /\ Exists(<<p, "manifest">>)' /\ answers'[<<p, "strategy">>] = "done"
            /\ deployment = "parallel" => Exists(<<p, "flow-done">>)'
  BY <1>1, <1>2, ObjectsStay DEF FinalParts, DataStep
<1>5. /\ deployment = "parallel" => Exists(<<"site", "reference-comparison">>)'
      /\ Exists(<<"site", "groups-request">>)'
  BY <1>1, ObjectsStay DEF FinalParts
<1> QED
  BY <1>3, <1>4, <1>5 DEF FinalParts

LEMMA OneLayoutStep ==
    ASSUME OneLayout, NEW c, DataStep(c)
    PROVE OneLayout'
BY DEF OneLayout, DataStep, Fresh, Exists

\* Settled operations stay settled, but for the publication of a failure.
LEMMA SettledStays ==
    ASSUME NEW c, DataStep(c), NEW op, Settled(op),
           op[1] \in {"publish", "sample"} => op[2] # <<c, "failed">>
    PROVE Settled(op)'
<1>1. op[1] = "measure" => op[2] \in measured'
  BY DEF Settled, DataStep
<1>2. op[1] \in {"publish", "sample"} => Exists(op[2])'
  BY DEF Settled, DataStep, Exists
<1>3. op[1] = "protocols" => AllFlowsDone'
  BY ObjectsStay DEF Settled, AllFlowsDone, FlowDone
<1>4. op[1] = "ready" => \A p \in Protocols : answers'[<<p, "strategy">>] = "done"
  <2>1. \A p \in Protocols : <<p, "strategy">> \in Jobs
    BY DEF Jobs
  <2> QED
    BY <2>1 DEF Settled, DataStep
<1> QED
  BY <1>1, <1>2, <1>3, <1>4 DEF Settled

(***************************************************************************)
(* Where a step takes its controller: nowhere else, to the next operation  *)
(* when the effect of this one has come, or to the first one if no failure *)
(* is recorded.                                                            *)
(***************************************************************************)
ControlStep(c) ==
    /\ \A d \in Names \ {c} : phase'[d] = phase[d] /\ at'[d] = at[d]
    /\ Active(c)' =>
          \/ /\ Active(c) /\ at'[c] = at[c]
             /\ phase'[c] = "polling" => phase[c] = "polling" \/ Operation(c)[1] = "handoff"
          \/ /\ Active(c) /\ at'[c] = at[c] + 1 /\ phase'[c] = "running"
             /\ \E op : op = Operation(c) /\ Settled(op)'
          \/ /\ at'[c] = 1 /\ phase'[c] = "running"
             /\ ~Exists(<<c, "failed">>) /\ objects' = objects

LEMMA ProgressStep ==
    ASSUME TypeOK, DataType, TypeOK', ProgressInv, NEW c \in Names, DataStep(c), ControlStep(c)
    PROVE ProgressInv'
<1>1. Controllers' = Controllers
  BY DEF DataStep, Controllers
<1> SUFFICES ASSUME NEW d \in Controllers, Active(d)'
             PROVE /\ \A j \in 1 .. at'[d] - 1 : Settled(Programs[d][j])'
                   /\ phase'[d] = "polling" => Operation(d)'[1] = "handoff"
                   /\ ~Exists(<<d, "failed">>)'
  BY <1>1 DEF ProgressInv
<1>2. d \in Names /\ at[d] \in 1 .. Len(Programs[d]) /\ at'[d] \in 1 .. Len(Programs[d])
      /\ Len(Programs[d]) \in Nat
  BY ControllerFacts, ProgramFacts DEF TypeOK
<1>3. Active(d) => /\ \A j \in 1 .. at[d] - 1 : Settled(Programs[d][j])
                   /\ phase[d] = "polling" => Operation(d)[1] = "handoff"
                   /\ ~Exists(<<d, "failed">>)
  BY DEF ProgressInv
<1>4. ASSUME NEW j \in 1 .. Len(Programs[d]), Settled(Programs[d][j])
      PROVE Settled(Programs[d][j])'
  <2> DEFINE op == Programs[d][j]
  <2>1. op[1] \in {"publish", "sample"} => op[2] # <<c, "failed">>
    BY NoFailurePublished
  <2>2. Settled(op)
    BY <1>4
  <2> HIDE DEF op
  <2>3. Settled(op)'
    BY <2>1, <2>2, SettledStays
  <2> QED
    BY <2>3 DEF op
<1>5. Active(d) => ~Exists(<<d, "failed">>)'
  BY <1>2, <1>3 DEF DataStep, Fresh, Exists
<1>6. Operation(d) = Programs[d][at[d]] /\ Operation(d)' = Programs[d][at'[d]]
  BY DEF Operation
<1>7. CASE d # c \/ (Active(c) /\ at'[c] = at[c]
                       /\ (phase'[c] = "polling"
                             => phase[c] = "polling" \/ Operation(c)[1] = "handoff"))
  <2>1. Active(d) /\ at'[d] = at[d]
    BY <1>2, <1>7 DEF ControlStep, Active
  <2>2. phase'[d] = "polling" => Operation(d)[1] = "handoff"
    BY <1>2, <1>3, <1>7, <2>1 DEF ControlStep
  <2>3. \A j \in 1 .. at'[d] - 1 : Settled(Programs[d][j])'
    BY <1>2, <1>3, <1>4, <2>1
  <2> QED
    BY <1>5, <1>6, <2>1, <2>2, <2>3
<1>8. CASE d = c /\ Active(c) /\ at'[c] = at[c] + 1 /\ phase'[c] = "running"
             /\ \E op : op = Operation(c) /\ Settled(op)'
  <2>1. PICK op : op = Programs[d][at[d]] /\ Settled(op)'
    BY <1>6, <1>8
  <2>2. ASSUME NEW j \in 1 .. at'[d] - 1 PROVE Settled(Programs[d][j])'
    <3>1. CASE j = at[d]
      BY <2>1, <3>1 DEF Settled
    <3>2. CASE j # at[d]
      BY <1>2, <1>3, <1>4, <1>8, <3>2
    <3> QED
      BY <3>1, <3>2
  <2> QED
    BY <1>5, <1>8, <2>2
<1>9. CASE d = c /\ at'[c] = 1 /\ phase'[c] = "running"
             /\ ~Exists(<<c, "failed">>) /\ objects' = objects
  BY <1>9 DEF Exists
<1> QED
  BY <1>7, <1>8, <1>9 DEF ControlStep

-----------------------------------------------------------------------------
(* What a step of a controller leaves of the other parts *)

Phases == {"down", "read", "put", "verify", "layout", "retry", "admit",
           "running", "polling", "failing", "refused", "finished"}

\* The types of what controllers change, and of what they do not.
ControllerTypes ==
    /\ deployment \in Deployments
    /\ phase \in [Names -> Phases]
    /\ at \in [Names -> Nat] /\ \A c \in Names : at[c] \in 1 .. Len(Programs[c])
    /\ answers \in [Jobs -> {"none", "done", "failed"}]
    /\ remaining \subseteq Protocols
    /\ campaign \in {"absent", "enabled", "disabled"}
    /\ faults \in 0 .. MaxFaults[deployment]
    /\ retrying \in [Names -> BOOLEAN] /\ skipOS \in [Names -> BOOLEAN]

WorkerTypes ==
    /\ worker \in {"down", "retry", "poll", "pin", "stat", "evidence", "recheck", "plan",
                   "complete", "output", "launch", "scan", "upload", "failing", "finished"}
    /\ scan \in 0 .. MaxScans /\ request \in 0 .. 2 /\ pinned \in 0 .. 2 /\ seen \in 0 .. 2
    /\ process \in [Scans -> {"none", "launched", "writing", "ok", "failed"}]
    /\ output \in [Scans -> {"absent", "partial", "closed", "archived", "archivedClosed"}]
    /\ done \in {NotDone} \cup (Scans \X (1 .. 2))
    /\ target \in {0, 1, 2, Truncated}
    /\ scanned \in [Scans -> {0, 1, 2, Truncated}]
    /\ attempt \in [Scans -> 0 .. MaxScans] /\ own \in 0 .. MaxScans
    /\ uploaded \in 0 .. Len(ScanFiles) /\ raw \in [DOMAIN ScanFiles -> 0 .. MaxScans]

Bound == {"layout", "retry", "admit", "running", "polling"}

\* Who gets to where the policy is accepted has seen its own one.
PolicyStep(c) ==
    /\ skipOS' = skipOS /\ (raced => raced')
    /\ \/ campaign' = campaign
       \/ campaign' = Own(c) /\ (~raced' => campaign \in {"absent", Own(c)})
    /\ \A d \in Names \ {c} : phase'[d] = phase[d]
    /\ phase'[c] \in Bound => phase[c] \in Bound \/ (campaign = Own(c) /\ campaign' = campaign)

\* Who gets past the layout has not seen the other one.
LayoutStep(c) ==
    c = "site" /\ phase'[c] \in {"retry", "admit", "running", "polling"}
        => phase[c] \in {"retry", "admit", "running", "polling"} \/ ~Exists(<<"parallel">>)

\* A protocol that is waited for no longer has answered.
ReadyStep ==
    \A p \in Protocols \ remaining' : p \notin remaining \/ answers[<<p, "strategy">>] = "done"

Step(c) ==
    /\ DataStep(c) /\ ControlStep(c) /\ PolicyStep(c) /\ LayoutStep(c) /\ ReadyStep
    /\ VerifiedTargets' /\ ControllerTypes'

LEMMA PolicyStepInv ==
    ASSUME ControllerTypes, PolicyInv, NEW c \in Names, DataStep(c), PolicyStep(c)
    PROVE PolicyInv'
<1>1. Controllers' = Controllers /\ Controllers \subseteq Names
  BY DEF DataStep, Controllers, Names
<1>2. \A d : Own(d)' = Own(d) /\ Own(d) \in {"enabled", "disabled"}
  BY DEF Own, PolicyStep
<1> SUFFICES ASSUME ~raced', NEW d \in Controllers, phase'[d] \in Bound
             PROVE campaign' = Own(d)
  BY <1>1, <1>2 DEF PolicyInv, Bound
<1>3. ~raced /\ (phase[d] \in Bound => campaign = Own(d))
  BY DEF PolicyStep, PolicyInv, Bound
<1>4. CASE phase[d] \in Bound
  BY <1>2, <1>3, <1>4 DEF PolicyStep
<1>5. CASE phase[d] \notin Bound
  BY <1>1, <1>5 DEF PolicyStep
<1> QED
  BY <1>4, <1>5

LEMMA LayoutStepInv ==
    ASSUME DataType, LayoutInv, NEW c \in Controllers, DataStep(c), ControlStep(c), LayoutStep(c)
    PROVE LayoutInv'
<1>1. Controllers' = Controllers
  BY DEF DataStep, Controllers
<1> SUFFICES ASSUME NEW d \in Controllers, d = "site",
                    phase'[d] \in {"retry", "admit", "running", "polling"}
             PROVE ~Exists(<<"parallel">>)'
  BY <1>1 DEF LayoutInv
<1>2. c = "site"
  BY ControllerFacts
<1>3. ~Exists(<<"parallel">>)
  BY <1>2 DEF LayoutStep, LayoutInv
<1> QED
  BY <1>2, <1>3 DEF DataStep, Fresh, Exists

LEMMA ReadyStepInv ==
    ASSUME ReadyInv, NEW c, DataStep(c), ReadyStep
    PROVE ReadyInv'
<1>1. \A p \in Protocols : <<p, "strategy">> \in Jobs
  BY DEF Jobs
<1> QED
  BY <1>1 DEF ReadyInv, ReadyStep, DataStep

-----------------------------------------------------------------------------
(* The steps of the controllers *)

LEMMA GotoFacts ==
    ASSUME ControllerTypes, NEW c \in Names, NEW point \in Phases, Goto(c, point)
    PROVE /\ phase'[c] = point /\ \A d \in Names \ {c} : phase'[d] = phase[d]
          /\ phase' \in [Names -> Phases]
BY DEF ControllerTypes, Goto

LEMMA AdvanceFacts ==
    ASSUME ControllerTypes, NEW c \in Names, Advance(c)
    PROVE /\ phase'[c] \in {"running", "finished"}
          /\ phase'[c] = "running" => at'[c] = at[c] + 1
          /\ \A d \in Names \ {c} : phase'[d] = phase[d] /\ at'[d] = at[d]
          /\ phase' \in [Names -> Phases]
          /\ at' \in [Names -> Nat] /\ \A d \in Names : at'[d] \in 1 .. Len(Programs[d])
<1>1. \A d \in Names : Len(Programs[d]) \in Nat /\ at[d] \in 1 .. Len(Programs[d]) /\ at[d] \in Nat
  BY ProgramFacts DEF ControllerTypes
<1>2. CASE at[c] < Len(Programs[c])
  <2>1. Goto(c, "running") /\ at' = [at EXCEPT ![c] = @ + 1] /\ "running" \in Phases
    BY <1>2 DEF Advance, Phases
  <2>2. /\ at'[c] = at[c] + 1 /\ (\A d \in Names \ {c} : at'[d] = at[d])
        /\ at' \in [Names -> Nat]
    BY <1>1, <2>1 DEF ControllerTypes
  <2>3. \A d \in Names : at'[d] \in 1 .. Len(Programs[d])
    BY <1>1, <1>2, <2>2
  <2> QED
    BY <2>1, <2>2, <2>3, GotoFacts
<1>3. CASE ~(at[c] < Len(Programs[c]))
  <2>1. Goto(c, "finished") /\ at' = at /\ "finished" \in Phases
    BY <1>3 DEF Advance, Phases
  <2> QED
    BY <2>1, GotoFacts DEF ControllerTypes
<1> QED
  BY <1>2, <1>3

LEMMA FaultFacts ==
    ASSUME ControllerTypes, deployment' = deployment, Fault \/ NoFault
    PROVE faults' \in 0 .. MaxFaults[deployment']
<1>1. MaxFaults[deployment] \in Nat
  BY CampaignStoreAssumption DEF ControllerTypes
<1> QED
  BY <1>1 DEF ControllerTypes, Fault, NoFault

\* Steps that leave the store alone, and steps that add to it.
LEMMA SameData ==
    ASSUME NEW c, UNCHANGED <<deployment, objects, measured, answers>>
    PROVE DataStep(c)
BY DEF DataStep

LEMMA MoreData ==
    ASSUME NEW c, NEW names, objects' = objects \cup names, \A n \in names : Fresh(c, n),
           measured \subseteq measured', UNCHANGED <<deployment, answers>>
    PROVE DataStep(c)
BY DEF DataStep

LEMMA OneMore ==
    ASSUME NEW c, NEW name, objects' = objects \cup {name}, Fresh(c, name),
           measured \subseteq measured', UNCHANGED <<deployment, answers>>
    PROVE DataStep(c)
BY DEF DataStep

\* Objects that stand on nothing.
LEMMA FreshOthers ==
    ASSUME NEW c
    PROVE /\ Fresh(c, <<"local-references">>) /\ Fresh(c, <<"os", "not-requested">>)
          /\ c # "site" /\ ~Exists(<<"site", "discovery">>) => Fresh(c, <<"parallel">>)
          /\ c \in Names /\ ~Active(c) => Fresh(c, <<c, "failed">>)
<1>1. Fresh(c, <<"local-references">>)
  BY BackingOfOthers, NamesDiffer DEF Fresh
<1>2. Fresh(c, <<"os", "not-requested">>)
  BY BackingOfOthers, NamesDiffer, ProtocolNames DEF Fresh
<1>3. ASSUME c # "site", ~Exists(<<"site", "discovery">>) PROVE Fresh(c, <<"parallel">>)
  BY <1>3, BackingOfOthers, NamesDiffer DEF Fresh
<1>4. ASSUME c \in Names, ~Active(c) PROVE Fresh(c, <<c, "failed">>)
  <2>1. Backing(<<c, "failed">>) = {} /\ c # "os"
    BY <1>4, BackingOfProtocol, BackingOfSite, ProtocolNames DEF Names
  <2>2. /\ <<c, "failed">> # <<"parallel">> /\ <<c, "failed">> # <<"os", "failed">>
        /\ \A a : <<c, "failed">> # <<a, "flow-done">> /\ <<c, "failed">> # <<a, "final">>
                    /\ <<c, "failed">> # <<a, "discovery">>
        /\ \A a : <<c, "failed">> = <<a, "failed">> => a = c
    BY <2>1, NamesDiffer
  <2> QED
    BY <1>4, <2>1, <2>2 DEF Fresh
<1> QED
  BY <1>1, <1>2, <1>3, <1>4

CampaignInv ==
    /\ TypeOK /\ DataType /\ ControllerTypes
    /\ PublishedSound /\ FlowInv /\ ReadyInv /\ ProgressInv
    /\ OneLayout /\ LayoutInv /\ PolicyInv

LEMMA InNames == ASSUME CampaignInv, NEW c \in Controllers PROVE c \in Names
BY ControllerFacts DEF CampaignInv

\* A controller that leaves the store alone and goes to none of its operations.
LEMMA MoveStep ==
    ASSUME CampaignInv, NEW c \in Controllers, NEW point \in Phases, Goto(c, point),
           point \notin {"running", "polling", "retry", "admit"},
           point = "layout" => campaign = Own(c),
           retrying' \in [Names -> BOOLEAN], Fault \/ NoFault,
           UNCHANGED <<deployment, objects, campaign, at, skipOS, measured, local, remaining,
                       answers, raced>>
    PROVE Step(c)
<1>1. c \in Names /\ ControllerTypes
  BY InNames DEF CampaignInv
<1>2. /\ phase'[c] = point /\ (\A d \in Names \ {c} : phase'[d] = phase[d])
      /\ phase' \in [Names -> Phases]
  BY <1>1, GotoFacts
<1>3. DataStep(c)
  BY SameData
<1>4. ControlStep(c)
  BY <1>2 DEF ControlStep, Active
<1>5. PolicyStep(c) /\ LayoutStep(c) /\ ReadyStep
  BY <1>2 DEF PolicyStep, LayoutStep, ReadyStep, Bound
<1>6. VerifiedTargets'
  BY DEF CampaignInv, PublishedSound, VerifiedTargets
<1>7. faults' \in 0 .. MaxFaults[deployment']
  BY <1>1, FaultFacts
<1>8. ControllerTypes'
  BY <1>1, <1>2, <1>7 DEF ControllerTypes
<1> QED
  BY <1>3, <1>4, <1>5, <1>6, <1>8 DEF Step

LEMMA ExitStep ==
    ASSUME CampaignInv, NEW c \in Controllers, Exit(c), Fault \/ NoFault,
           UNCHANGED <<deployment, objects, campaign, at, retrying, skipOS, measured, local,
                       remaining, answers, raced>>
    PROVE Step(c)
<1>1. Goto(c, "down") /\ "down" \in Phases /\ retrying' \in [Names -> BOOLEAN]
  BY DEF Exit, Phases, CampaignInv, ControllerTypes
<1> QED
  BY <1>1, MoveStep

LEMMA FailStep ==
    ASSUME CampaignInv, NEW c \in Controllers, Fail(c), Fault \/ NoFault,
           UNCHANGED <<deployment, objects, campaign, retrying, skipOS, measured, local,
                       remaining, answers, raced>>
    PROVE Step(c)
<1> DEFINE point == IF c = "site" THEN "down" ELSE "failing"
<1>1. /\ Goto(c, point) /\ at' = at /\ point \in Phases /\ retrying' \in [Names -> BOOLEAN]
      /\ point \notin {"running", "polling", "retry", "admit", "layout"}
  BY DEF Fail, Phases, CampaignInv, ControllerTypes
<1> HIDE DEF point
<1> QED
  BY <1>1, MoveStep

LEMMA StartStep ==
    ASSUME CampaignInv, NEW c \in Controllers, NEW retryFailed \in BOOLEAN, Start(c, retryFailed)
    PROVE Step(c)
<1>1. retrying' \in [Names -> BOOLEAN]
  BY InNames DEF Start, CampaignInv, ControllerTypes
<1>2. /\ Goto(c, "read") /\ "read" \in Phases /\ (Fault \/ NoFault)
      /\ UNCHANGED <<deployment, objects, campaign, at, skipOS, measured, local, remaining,
                     answers, raced>>
  BY DEF Start, Phases
<1> QED
  BY <1>1, <1>2, MoveStep

LEMMA PolicyActions ==
    ASSUME CampaignInv, NEW c \in Controllers, ReadPolicy(c) \/ VerifyPolicy(c)
    PROVE Step(c)
<1>1. /\ UNCHANGED <<deployment, objects, campaign, faults, at, retrying, skipOS, measured,
                     local, remaining, answers, raced>>
      /\ \/ Goto(c, "put")
         \/ Goto(c, "layout") /\ campaign = Own(c)
         \/ Exit(c)
  BY DEF ReadPolicy, VerifyPolicy, AcceptPolicy, storeVars
<1>2. NoFault /\ "put" \in Phases /\ "layout" \in Phases /\ retrying' \in [Names -> BOOLEAN]
  BY <1>1 DEF NoFault, Phases, CampaignInv, ControllerTypes
<1> QED
  BY <1>1, <1>2, ExitStep, MoveStep

LEMMA PutPolicyStep ==
    ASSUME CampaignInv, NEW c \in Controllers, PutPolicy(c)
    PROVE Step(c)
<1>1. c \in Names /\ ControllerTypes /\ Own(c) \in {"enabled", "disabled"}
  BY InNames DEF CampaignInv, Own
<1>2. /\ phase'[c] = "verify" /\ (\A d \in Names \ {c} : phase'[d] = phase[d])
      /\ phase' \in [Names -> Phases]
  BY <1>1, GotoFacts DEF PutPolicy, Phases
<1>3. DataStep(c)
  BY SameData DEF PutPolicy
<1>4. ControlStep(c)
  BY <1>2 DEF ControlStep, Active, PutPolicy
<1>5. PolicyStep(c) /\ LayoutStep(c) /\ ReadyStep
  BY <1>1, <1>2 DEF PolicyStep, LayoutStep, ReadyStep, Bound, PutPolicy
<1>6. VerifiedTargets'
  BY DEF CampaignInv, PublishedSound, VerifiedTargets, PutPolicy
<1>7. ControllerTypes'
  BY <1>1, <1>2 DEF ControllerTypes, PutPolicy
<1> QED
  BY <1>3, <1>4, <1>5, <1>6, <1>7 DEF Step

LEMMA LayoutAction ==
    ASSUME CampaignInv, NEW c \in Controllers, Layout(c)
    PROVE Step(c)
<1>1. c \in Names /\ ControllerTypes
  BY InNames DEF CampaignInv
<1>2. CASE OtherLayout(c)
  BY <1>2, ExitStep DEF Layout, NoFault
<1>3. CASE ~OtherLayout(c)
  <2> DEFINE names == (IF c = "site" THEN {} ELSE {<<"parallel">>, <<"local-references">>})
                          \cup (IF skipOS[c] THEN {<<"os", "not-requested">>} ELSE {})
             point == IF retrying[c] THEN "retry" ELSE "admit"
  <2>1. /\ phase[c] = "layout" /\ Immutable(names) /\ Goto(c, point)
        /\ UNCHANGED <<deployment, campaign, faults, at, retrying, skipOS, measured, local,
                       remaining, answers, raced>>
    BY <1>3 DEF Layout
  <2>2. \A n \in names : Fresh(c, n)
    BY <1>3, FreshOthers DEF OtherLayout
  <2>3. point \in Phases /\ point \in {"retry", "admit"}
    BY DEF Phases
  <2> HIDE DEF names, point
  <2>4. DataStep(c)
    BY <2>1, <2>2, MoreData DEF Immutable
  <2>5. /\ phase'[c] = point /\ (\A d \in Names \ {c} : phase'[d] = phase[d])
        /\ phase' \in [Names -> Phases]
    BY <1>1, <2>1, <2>3, GotoFacts
  <2>6. ControlStep(c)
    BY <2>1, <2>3, <2>5 DEF ControlStep, Active
  <2>7. PolicyStep(c) /\ LayoutStep(c) /\ ReadyStep
    BY <1>3, <2>1, <2>5 DEF PolicyStep, LayoutStep, ReadyStep, Bound, OtherLayout
  <2>8. VerifiedTargets'
    BY <2>1 DEF CampaignInv, PublishedSound, VerifiedTargets
  <2>9. ControllerTypes'
    BY <1>1, <2>1, <2>5 DEF ControllerTypes
  <2> QED
    BY <2>4, <2>6, <2>7, <2>8, <2>9 DEF Step
<1> QED
  BY <1>2, <1>3

LEMMA RetryStep ==
    ASSUME CampaignInv, NEW c \in Controllers, RetryProtocolFailure(c)
    PROVE Step(c)
<1>1. c \in Names /\ ControllerTypes
  BY InNames DEF CampaignInv
<1>2. CASE ~Retryable(c)
  BY <1>2, ExitStep DEF RetryProtocolFailure, NoFault
<1>3. CASE Retryable(c)
  <2>1. /\ phase[c] = "retry" /\ RetryScanFailure(c) /\ Goto(c, "admit")
        /\ UNCHANGED <<deployment, campaign, faults, at, retrying, skipOS, measured, local,
                       remaining, answers, raced>>
    BY <1>3 DEF RetryProtocolFailure
  <2>2. DataStep(c)
    BY <2>1 DEF DataStep, RetryScanFailure
  <2>3. /\ phase'[c] = "admit" /\ (\A d \in Names \ {c} : phase'[d] = phase[d])
        /\ phase' \in [Names -> Phases]
    BY <1>1, <2>1, GotoFacts DEF Phases
  <2>4. ControlStep(c)
    BY <2>1, <2>3 DEF ControlStep, Active
  <2>5. PolicyStep(c) /\ LayoutStep(c) /\ ReadyStep
    BY <2>1, <2>3 DEF PolicyStep, LayoutStep, ReadyStep, Bound
  <2>6. VerifiedTargets'
    BY <2>1 DEF CampaignInv, PublishedSound, VerifiedTargets
  <2>7. ControllerTypes'
    BY <1>1, <2>1, <2>3 DEF ControllerTypes
  <2> QED
    BY <2>2, <2>4, <2>5, <2>6, <2>7 DEF Step
<1> QED
  BY <1>2, <1>3

LEMMA AdmitStep ==
    ASSUME CampaignInv, NEW c \in Controllers, Admit(c)
    PROVE Step(c)
<1>1. c \in Names /\ ControllerTypes /\ Len(Programs[c]) \in Nat \ {0}
  BY InNames, ProgramFacts DEF CampaignInv
<1> DEFINE point == IF FailureRecorded(c) THEN "refused"
                    ELSE IF Completed(c) THEN "finished" ELSE "running"
<1>2. /\ phase[c] = "admit" /\ Goto(c, point) /\ at' = [at EXCEPT ![c] = 1]
      /\ remaining' = IF c \in {"udp", "site"} THEN Protocols ELSE remaining
      /\ UNCHANGED <<deployment, objects, campaign, faults, retrying, skipOS, measured, local,
                     answers, raced>>
  BY DEF Admit, storeVars
<1>3. /\ point \in Phases /\ point \in {"refused", "finished", "running"}
      /\ point = "running" => ~Exists(<<c, "failed">>)
  BY DEF Phases, FailureRecorded
<1> HIDE DEF point
<1>4. /\ phase'[c] = point /\ (\A d \in Names \ {c} : phase'[d] = phase[d])
      /\ phase' \in [Names -> Phases]
  BY <1>1, <1>2, <1>3, GotoFacts
<1>5. /\ at'[c] = 1 /\ (\A d \in Names \ {c} : at'[d] = at[d]) /\ at' \in [Names -> Nat]
      /\ \A d \in Names : at'[d] \in 1 .. Len(Programs[d])
  BY <1>1, <1>2 DEF ControllerTypes
<1>6. DataStep(c)
  BY <1>2, SameData
<1>7. ControlStep(c)
  BY <1>2, <1>3, <1>4, <1>5 DEF ControlStep, Active
<1>8. PolicyStep(c) /\ LayoutStep(c) /\ ReadyStep
  <2>1. remaining \subseteq remaining'
    BY <1>1, <1>2 DEF ControllerTypes
  <2> QED
    BY <1>2, <1>4, <2>1 DEF PolicyStep, LayoutStep, ReadyStep, Bound
<1>9. VerifiedTargets'
  BY <1>2 DEF CampaignInv, PublishedSound, VerifiedTargets
<1>10. ControllerTypes'
  BY <1>1, <1>2, <1>4, <1>5 DEF ControllerTypes
<1> QED
  BY <1>6, <1>7, <1>8, <1>9, <1>10 DEF Step

\* The effect of an operation is backed, and settles it.
LEMMA EffectFacts ==
    ASSUME CampaignInv, NEW c \in Controllers, Active(c), Effect(c),
           UNCHANGED <<deployment, answers>>
    PROVE /\ DataStep(c)
          /\ Operation(c)[1] \notin {"protocols", "ready"}
                => \E op : op = Operation(c) /\ Settled(op)'
<1> DEFINE op == Operation(c)
           name == Subject(c)
<1>1. /\ measured' = IF op[1] = "measure" THEN measured \cup {name} ELSE measured
      /\ op[1] \in {"publish", "sample"} => objects' = objects \cup {name}
      /\ op[1] = "handoff" => objects' = objects \cup {Request(name)}
      /\ op[1] \notin {"publish", "sample", "handoff"} => objects' = objects
  BY DEF Effect, Immutable
<1>2. measured \subseteq measured'
  BY <1>1
<1>3. DataStep(c)
  <2>1. CASE op[1] \in {"publish", "sample"}
    <3>1. Fresh(c, name)
      BY <2>1, PublicationFresh DEF CampaignInv, PublishedSound
    <3> HIDE DEF op, name
    <3> QED
      BY <1>1, <1>2, <2>1, <3>1, OneMore
  <2>2. CASE op[1] = "handoff"
    <3>1. Fresh(c, Request(name))
      BY <2>2, HandoffFresh DEF CampaignInv
    <3> HIDE DEF op, name
    <3> QED
      BY <1>1, <1>2, <2>2, <3>1, OneMore
  <2>3. CASE op[1] \notin {"publish", "sample", "handoff"}
    BY <1>1, <1>2, <2>3 DEF DataStep
  <2> QED
    BY <2>1, <2>2, <2>3
<1>4. name = op[2]
  BY DEF Subject
<1>5. ASSUME op[1] \notin {"protocols", "ready"} PROVE \E x : x = op /\ Settled(x)'
  <2>1. \A x : x = op => Settled(x)'
    <3> HIDE DEF op, name
    <3> QED
      BY <1>1, <1>4, <1>5 DEF Settled, Exists
  <2> QED
    BY <2>1
<1> QED
  BY <1>3, <1>5

\* A controller that goes on to the next operation.
LEMMA NextOperation ==
    ASSUME CampaignInv, NEW c \in Controllers, phase[c] \in {"running", "polling"},
           DataStep(c), \E op : op = Operation(c) /\ Settled(op)',
           Advance(c), Fault \/ NoFault, VerifiedTargets',
           remaining' = remaining, UNCHANGED <<campaign, retrying, skipOS, answers, raced>>
    PROVE Step(c)
<1>1. c \in Names /\ ControllerTypes /\ Active(c)
  BY InNames DEF CampaignInv, Active
<1>2. /\ phase'[c] \in {"running", "finished"}
      /\ phase'[c] = "running" => at'[c] = at[c] + 1
      /\ \A d \in Names \ {c} : phase'[d] = phase[d] /\ at'[d] = at[d]
      /\ phase' \in [Names -> Phases]
      /\ at' \in [Names -> Nat] /\ \A d \in Names : at'[d] \in 1 .. Len(Programs[d])
  BY <1>1, AdvanceFacts
<1>3. ControlStep(c)
  BY <1>1, <1>2 DEF ControlStep, Active
<1>4. PolicyStep(c) /\ LayoutStep(c) /\ ReadyStep
  BY <1>2 DEF PolicyStep, LayoutStep, ReadyStep, Bound
<1>5. deployment' = deployment
  BY DEF DataStep
<1>6. faults' \in 0 .. MaxFaults[deployment']
  BY <1>1, <1>5, FaultFacts
<1>7. ControllerTypes'
  BY <1>1, <1>2, <1>5, <1>6 DEF ControllerTypes
<1> QED
  BY <1>3, <1>4, <1>7 DEF Step

\* A controller that waits for the analysis, or goes on waiting.
LEMMA StayStep ==
    ASSUME CampaignInv, NEW c \in Controllers, phase[c] = "running", DataStep(c),
           \/ Goto(c, "polling") /\ Operation(c)[1] = "handoff"
           \/ phase' = phase,
           ReadyStep, remaining' \subseteq Protocols,
           UNCHANGED <<at, campaign, faults, retrying, skipOS, local, answers, raced>>
    PROVE Step(c)
<1>1. c \in Names /\ ControllerTypes /\ Active(c) /\ "polling" \in Phases
  BY InNames DEF CampaignInv, Active, Phases
<1>2. /\ \/ phase'[c] = "polling" /\ Operation(c)[1] = "handoff"
         \/ phase'[c] = "running"
      /\ \A d \in Names \ {c} : phase'[d] = phase[d]
      /\ phase' \in [Names -> Phases]
  BY <1>1, GotoFacts DEF ControllerTypes
<1>3. ControlStep(c)
  BY <1>1, <1>2 DEF ControlStep, Active
<1>4. PolicyStep(c) /\ LayoutStep(c)
  BY <1>2 DEF PolicyStep, LayoutStep, Bound
<1>5. VerifiedTargets'
  BY DEF CampaignInv, PublishedSound, VerifiedTargets
<1>6. ControllerTypes'
  BY <1>1, <1>2 DEF ControllerTypes, DataStep
<1> QED
  BY <1>3, <1>4, <1>5, <1>6 DEF Step

LEMMA PerformStep ==
    ASSUME CampaignInv, NEW c \in Controllers, Perform(c)
    PROVE Step(c)
<1>1. /\ phase[c] = "running" /\ Operation(c)[1] \in {"measure", "publish", "sample"}
      /\ Effect(c) /\ Advance(c)
      /\ UNCHANGED <<deployment, campaign, faults, retrying, skipOS, local, remaining, answers,
                     raced>>
  BY DEF Perform, Running
<1>2. DataStep(c) /\ \E op : op = Operation(c) /\ Settled(op)'
  BY <1>1, EffectFacts DEF Active
<1>3. VerifiedTargets' /\ NoFault
  BY <1>1 DEF CampaignInv, PublishedSound, VerifiedTargets, NoFault
<1> QED
  BY <1>1, <1>2, <1>3, NextOperation

LEMMA RequestHandoffStep ==
    ASSUME CampaignInv, NEW c \in Controllers, RequestHandoff(c)
    PROVE Step(c)
<1>1. /\ phase[c] = "running" /\ Operation(c)[1] = "handoff" /\ Effect(c) /\ Goto(c, "polling")
      /\ UNCHANGED <<deployment, campaign, faults, at, retrying, skipOS, local, remaining,
                     answers, raced>>
  BY DEF RequestHandoff, Running
<1>2. DataStep(c)
  BY <1>1, EffectFacts DEF Active
<1>3. ReadyStep /\ remaining' \subseteq Protocols
  BY <1>1 DEF ReadyStep, CampaignInv, ControllerTypes
<1> QED
  BY <1>1, <1>2, <1>3, StayStep

LEMMA PollFailedStep ==
    ASSUME CampaignInv, NEW c \in Controllers, PollFailed(c)
    PROVE Step(c)
BY FailStep DEF PollFailed, NoFault, storeVars

LEMMA PollDoneStep ==
    ASSUME CampaignInv, NEW c \in Controllers, NEW content \in {"whole", "truncated"},
           PollDone(c, content)
    PROVE Step(c)
<1>1. /\ phase[c] = "polling" /\ (Fault \/ NoFault)
      /\ UNCHANGED <<deployment, objects, campaign, retrying, skipOS, measured, remaining,
                     answers, raced>>
  BY DEF PollDone
<1>2. CASE VerifyFile(Subject(c), content)
  <2>1. /\ local' = {f \in local : f[1] # Subject(c)} \cup {<<Subject(c), content>>}
        /\ Advance(c)
    BY <1>2 DEF PollDone
  <2>2. DataStep(c)
    BY <1>1, SameData
  <2>3. VerifiedTargets'
    BY <1>2, <2>1 DEF CampaignInv, PublishedSound, VerifiedTargets, VerifyFile
  <2>4. Operation(c)[1] = "handoff"
    BY <1>1 DEF CampaignInv, ProgressInv, Active
  <2>5. \E op : op = Operation(c) /\ Settled(op)'
    <3>1. \A op : op = Operation(c) => Settled(op)'
      BY <2>4 DEF Settled
    <3> QED
      BY <3>1
  <2> QED
    BY <1>1, <2>1, <2>2, <2>3, <2>5, NextOperation
<1>3. CASE ~VerifyFile(Subject(c), content)
  BY <1>1, <1>3, FailStep DEF PollDone
<1> QED
  BY <1>2, <1>3

LEMMA WaitProtocolsStep ==
    ASSUME CampaignInv, NEW c \in Controllers, WaitProtocols(c)
    PROVE Step(c)
<1>1. /\ phase[c] = "running" /\ Operation(c)[1] = "protocols" /\ NoFault
      /\ UNCHANGED <<deployment, objects, campaign, faults, retrying, skipOS, measured, local,
                     remaining, answers, raced>>
  BY DEF WaitProtocols, Running, NoFault, storeVars
<1>2. CASE AllFlowsDone /\ Advance(c)
  <2>1. DataStep(c) /\ VerifiedTargets'
    BY <1>1, SameData DEF CampaignInv, PublishedSound, VerifiedTargets
  <2>2. AllFlowsDone'
    BY <1>1, <1>2 DEF AllFlowsDone, FlowDone, Exists
  <2>3. \E op : op = Operation(c) /\ Settled(op)'
    <3>1. \A op : op = Operation(c) => Settled(op)'
      BY <1>1, <2>2 DEF Settled
    <3> QED
      BY <3>1
  <2> QED
    BY <1>1, <1>2, <2>1, <2>3, NextOperation
<1>3. CASE Fail(c)
  BY <1>1, <1>3, FailStep
<1> QED
  BY <1>2, <1>3 DEF WaitProtocols

LEMMA WaitForReadinessStep ==
    ASSUME CampaignInv, NEW c \in Controllers, WaitForReadiness(c)
    PROVE Step(c)
<1>1. /\ phase[c] = "running" /\ Operation(c)[1] = "ready" /\ NoFault
      /\ UNCHANGED <<deployment, objects, campaign, faults, retrying, skipOS, measured, local,
                     answers, raced>>
  BY DEF WaitForReadiness, Running, NoFault, storeVars
<1>2. DataStep(c)
  BY <1>1, SameData
<1>3. CASE remaining = {} /\ Advance(c) /\ UNCHANGED remaining
  <2>1. VerifiedTargets'
    BY <1>1 DEF CampaignInv, PublishedSound, VerifiedTargets
  <2>2. \A p \in Protocols : answers'[<<p, "strategy">>] = "done"
    BY <1>1, <1>3 DEF CampaignInv, ReadyInv
  <2>3. \E op : op = Operation(c) /\ Settled(op)'
    <3>1. \A op : op = Operation(c) => Settled(op)'
      BY <1>1, <2>2 DEF Settled
    <3> QED
      BY <3>1
  <2> QED
    BY <1>1, <1>2, <1>3, <2>1, <2>3, NextOperation
<1>4. ASSUME NEW p \in remaining, answers[<<p, "strategy">>] = "done",
             remaining' = remaining \ {p}, UNCHANGED <<phase, at>>
      PROVE Step(c)
  <2>1. ReadyStep /\ remaining' \subseteq Protocols
    BY <1>4 DEF ReadyStep, CampaignInv, ControllerTypes
  <2> QED
    BY <1>1, <1>2, <1>4, <2>1, StayStep
<1>5. CASE Fail(c) /\ UNCHANGED remaining
  BY <1>1, <1>5, FailStep
<1> QED
  BY <1>3, <1>4, <1>5 DEF WaitForReadiness

LEMMA OperationFailsStep ==
    ASSUME CampaignInv, NEW c \in Controllers, OperationFails(c)
    PROVE Step(c)
<1>1. /\ Active(c) /\ Fault /\ Fail(c)
      /\ UNCHANGED <<deployment, campaign, retrying, skipOS, local, remaining, answers, raced>>
  BY DEF OperationFails, Active
<1>2. CASE UNCHANGED <<objects, measured>>
  BY <1>1, <1>2, FailStep
<1>3. CASE Effect(c)
  <2>1. DataStep(c)
    BY <1>1, <1>3, EffectFacts
  <2>2. c \in Names /\ ControllerTypes
    BY InNames DEF CampaignInv
  <2> DEFINE point == IF c = "site" THEN "down" ELSE "failing"
  <2>3. Goto(c, point) /\ at' = at /\ point \in Phases /\ point \in {"down", "failing"}
    BY <1>1 DEF Fail, Phases
  <2> HIDE DEF point
  <2>4. /\ phase'[c] = point /\ (\A d \in Names \ {c} : phase'[d] = phase[d])
        /\ phase' \in [Names -> Phases]
    BY <2>2, <2>3, GotoFacts
  <2>5. ControlStep(c) /\ PolicyStep(c) /\ LayoutStep(c) /\ ReadyStep
    BY <1>1, <2>3, <2>4 DEF ControlStep, Active, PolicyStep, LayoutStep, ReadyStep, Bound
  <2>6. VerifiedTargets'
    BY <1>1 DEF CampaignInv, PublishedSound, VerifiedTargets
  <2>7. faults' \in 0 .. MaxFaults[deployment']
    BY <1>1, <2>2, FaultFacts
  <2>8. ControllerTypes'
    BY <1>1, <2>2, <2>3, <2>4, <2>7 DEF ControllerTypes
  <2> QED
    BY <2>1, <2>5, <2>6, <2>8 DEF Step
<1> QED
  BY <1>2, <1>3 DEF OperationFails

LEMMA PublishFailureStep ==
    ASSUME CampaignInv, NEW c \in Controllers, PublishProtocolFailure(c)
    PROVE Step(c)
<1>1. /\ phase[c] = "failing" /\ Exit(c)
      /\ UNCHANGED <<deployment, campaign, at, retrying, skipOS, measured, local, remaining,
                     answers, raced>>
  BY DEF PublishProtocolFailure
<1>2. CASE UNCHANGED objects /\ Fault
  BY <1>1, <1>2, ExitStep
<1>3. CASE Immutable({<<c, "failed">>}) /\ NoFault
  <2>1. c \in Names /\ ControllerTypes /\ ~Active(c)
    BY <1>1, InNames DEF CampaignInv, Active
  <2>2. Fresh(c, <<c, "failed">>)
    BY <2>1, FreshOthers
  <2>3. DataStep(c)
    BY <1>1, <1>3, <2>2, OneMore DEF Immutable
  <2>4. /\ phase'[c] = "down" /\ (\A d \in Names \ {c} : phase'[d] = phase[d])
        /\ phase' \in [Names -> Phases]
    BY <1>1, <2>1, GotoFacts DEF Exit, Phases
  <2>5. ControlStep(c) /\ PolicyStep(c) /\ LayoutStep(c) /\ ReadyStep
    BY <1>1, <2>4 DEF ControlStep, Active, PolicyStep, LayoutStep, ReadyStep, Bound
  <2>6. VerifiedTargets'
    BY <1>1 DEF CampaignInv, PublishedSound, VerifiedTargets
  <2>7. faults' \in 0 .. MaxFaults[deployment']
    BY <1>1, <1>3, <2>1, FaultFacts
  <2>8. ControllerTypes'
    BY <1>1, <2>1, <2>4, <2>7 DEF ControllerTypes
  <2> QED
    BY <2>3, <2>5, <2>6, <2>8 DEF Step
<1> QED
  BY <1>2, <1>3 DEF PublishProtocolFailure

LEMMA InterruptStep ==
    ASSUME CampaignInv, NEW c \in Controllers, Interrupt(c)
    PROVE Step(c)
BY ExitStep DEF Interrupt

\* The analysis machine only answers.
LEMMA AnalysisStep ==
    ASSUME CampaignInv, NEW c \in Names, NEW job \in Jobs, Answer(job) \/ RetryAnalysis(job)
    PROVE /\ Step(c)
          /\ UNCHANGED <<deployment, objects, campaign, phase, at, retrying, skipOS, measured,
                         local, remaining, raced>>
<1>1. /\ UNCHANGED <<deployment, objects, campaign, phase, at, retrying, skipOS, measured,
                     local, remaining, raced>>
      /\ \E a \in {"none", "done", "failed"} : answers' = [answers EXCEPT ![job] = a]
      /\ answers[job] # "done" /\ (Fault \/ NoFault)
  BY DEF Answer, RetryAnalysis, storeVars, NoFault
<1>2. ControllerTypes
  BY DEF CampaignInv
<1>3. /\ answers' \in [Jobs -> {"none", "done", "failed"}]
      /\ \A j \in Jobs : answers[j] = "done" => answers'[j] = "done"
  BY <1>1, <1>2 DEF ControllerTypes
<1>4. DataStep(c)
  BY <1>1, <1>3 DEF DataStep
<1>5. ControlStep(c) /\ PolicyStep(c) /\ LayoutStep(c) /\ ReadyStep
  BY <1>1 DEF ControlStep, Active, PolicyStep, LayoutStep, ReadyStep, Bound
<1>6. VerifiedTargets'
  BY <1>1 DEF CampaignInv, PublishedSound, VerifiedTargets
<1>7. faults' \in 0 .. MaxFaults[deployment']
  BY <1>1, <1>2, FaultFacts
<1>8. ControllerTypes'
  BY <1>1, <1>2, <1>3, <1>7 DEF ControllerTypes
<1> QED
  BY <1>1, <1>4, <1>5, <1>6, <1>8 DEF Step

-----------------------------------------------------------------------------
(* The steps of the worker *)

WorkerInv ==
    /\ WorkerTypes
    /\ RequestInv /\ AttemptInv /\ OrphanInv /\ UploadInv
    /\ OSDoneDurable /\ OneVerdict /\ NoOSWithoutRequest /\ ClosedKept

LEMMA WorkerConstants ==
    /\ Scans = 1 .. MaxScans /\ MaxScans \in Nat \ {0} /\ 1 \in Scans
    /\ \A a \in Scans : a \in Nat /\ a # 0
    /\ Len(ScanFiles) \in Nat /\ DOMAIN ScanFiles = 1 .. Len(ScanFiles)
    /\ NotDone = <<0, 0>> /\ \A a \in Scans : \A v : <<a, v>> # NotDone
<1>1. Len(ScanFiles) \in Nat /\ DOMAIN ScanFiles = 1 .. Len(ScanFiles)
  BY SharedOSAssumption, LenProperties
<1>2. \A a \in Scans : \A v : <<a, v>> # NotDone
  BY SharedOSAssumption DEF NotDone, Scans
<1> QED
  BY <1>1, <1>2, SharedOSAssumption DEF Scans, NotDone

\* What the worker publishes is backed by nothing.
LEMMA WorkerObjects ==
    /\ Fresh("os", <<"os", "enrichment">>) /\ Fresh("os", <<"os", "not-requested">>)
    /\ Fresh("os", <<"os", "failed">>)
    /\ \A v : Fresh("os", <<"os", "running", v>>)
<1>1. \A k \in {"enrichment", "not-requested", "failed"} : Fresh("os", <<"os", k>>)
  <2> TAKE k \in {"enrichment", "not-requested", "failed"}
  <2>1. Backing(<<"os", k>>) = {}
    BY BackingOfOthers
  <2>2. "os" \notin Names
    BY ProtocolNames DEF Names
  <2>3. /\ <<"os", k>> # <<"parallel">> /\ <<"os", k>> # <<"site", "discovery">>
        /\ <<"os", k>> # <<"site", "final">> /\ \A a : <<"os", k>> # <<a, "flow-done">>
        /\ \A a \in Names : <<"os", k>> # <<a, "failed">>
    BY <2>2, NamesDiffer
  <2> QED
    BY <2>1, <2>3 DEF Fresh
<1>2. ASSUME NEW v PROVE Fresh("os", <<"os", "running", v>>)
  <2>1. Backing(<<"os", "running", v>>) = {} /\ Len(<<"os", "running", v>>) = 3
    BY BackingOfOthers
  <2> QED
    BY <2>1, FreshFromBacking
<1> QED
  BY <1>1, <1>2

\* A step that is not of the worker.
LEMMA WorkerRests ==
    ASSUME WorkerInv, deployment' = deployment, request' \in 0 .. 2,
           UNCHANGED <<late, worker, seen, retryIncomplete, localVars, processVars, uploaded,
                       remoteVars>>,
           Exists(<<"os", "failed">>)' => Exists(<<"os", "failed">>),
           deployment = "os" => campaign' = campaign
    PROVE WorkerInv'
<1>1. WorkerTypes'
  BY DEF WorkerInv, WorkerTypes, localVars, processVars, remoteVars
<1>2. RequestInv'
  BY DEF WorkerInv, RequestInv, localVars, remoteVars, Working, At, NotRequested
<1>3. AttemptInv'
  BY DEF WorkerInv, AttemptInv, localVars, processVars, NotRequested
<1>4. OrphanInv' /\ UploadInv'
  BY DEF WorkerInv, OrphanInv, UploadInv, localVars, processVars, remoteVars, Working, At
<1>5. OSDoneDurable' /\ OneVerdict' /\ ClosedKept'
  BY DEF WorkerInv, OSDoneDurable, OneVerdict, ClosedKept, localVars, processVars, remoteVars
<1>6. NoOSWithoutRequest'
  BY DEF WorkerInv, NoOSWithoutRequest, processVars, NotRequested
<1> QED
  BY <1>1, <1>2, <1>3, <1>4, <1>5, <1>6 DEF WorkerInv

LEMMA RequestActions ==
    ASSUME WorkerInv, RequestOSEnrichment \/ PublishScanRequest \/ ReplaceScanRequest
    PROVE WorkerInv'
<1>1. /\ UNCHANGED <<deployment, campaign, late, worker, seen, retryIncomplete, localVars,
                      processVars, uploaded, remoteVars>>
      /\ request' \in 0 .. 2
      /\ objects' = objects \/ objects' = objects \cup {<<"os", "enrichment">>}
  BY DEF RequestOSEnrichment, PublishScanRequest, ReplaceScanRequest, Immutable, WorkerInv,
         WorkerTypes
<1>2. Exists(<<"os", "failed">>)' => Exists(<<"os", "failed">>)
  BY <1>1, NamesDiffer DEF Exists
<1> QED
  BY <1>1, <1>2, WorkerRests

\* Where the worker handles a scan it has planned one, for the request it has pinned.
LEMMA ScanPlanned ==
    ASSUME WorkerInv, worker \in {"complete", "output", "launch", "scan", "upload"}
    PROVE /\ scan \in Scans /\ scan \in Nat /\ scan # 0
          /\ seen = pinned /\ pinned \in 1 .. 2 /\ target = pinned /\ done = NotDone
<1>1. /\ Working /\ ~At("pin")
      /\ worker \in {"plan", "complete", "output", "launch", "scan", "upload"}
  BY DEF Working, At
<1>2. scan # 0 /\ seen = pinned /\ target = pinned /\ pinned # 0 /\ done = NotDone
  BY <1>1 DEF WorkerInv, RequestInv
<1>3. scan \in 0 .. MaxScans /\ pinned \in 0 .. 2
  BY DEF WorkerInv, WorkerTypes
<1> QED
  BY <1>2, <1>3, WorkerConstants

\* The operator starts the worker.
LEMMA StartWorkerInv ==
    ASSUME WorkerInv, deployment = "os", NEW retry \in BOOLEAN, NEW incomplete \in BOOLEAN,
           StartWorker(retry, incomplete)
    PROVE WorkerInv'
<1>1. WorkerTypes'
  BY WorkerConstants DEF WorkerInv, WorkerTypes, StartWorker, At, Exists, localVars,
         processVars, remoteVars
<1>2. RequestInv'
  BY WorkerConstants DEF WorkerInv, WorkerTypes, RequestInv, Working, Exists, NotRequested, At,
         StartWorker, localVars, processVars, remoteVars
<1>3. OrphanInv'
  BY WorkerConstants DEF WorkerInv, WorkerTypes, OrphanInv, At, AttemptInv, NotRequested,
         RequestInv, Working, Exists, StartWorker, localVars, processVars, remoteVars
<1>4. UploadInv'
  BY WorkerConstants DEF WorkerInv, WorkerTypes, UploadInv, Working, At, AttemptInv,
         NotRequested, RequestInv, Exists, OrphanInv, StartWorker, localVars, processVars,
         remoteVars
<1>5. AttemptInv' /\ OSDoneDurable' /\ OneVerdict' /\ NoOSWithoutRequest' /\ ClosedKept'
  BY DEF WorkerInv, AttemptInv, NotRequested, OSDoneDurable, OneVerdict, Exists,
         NoOSWithoutRequest, ClosedKept, StartWorker, At, localVars, processVars, remoteVars
<1> QED
  BY <1>1, <1>2, <1>3, <1>4, <1>5 DEF WorkerInv

\* The failure is taken back.
LEMMA RetryOSFailureInv ==
    ASSUME WorkerInv, deployment = "os", RetryOSFailure
    PROVE WorkerInv'
<1>1. WorkerTypes'
  BY WorkerConstants DEF WorkerInv, WorkerTypes, RetryOSFailure, At, NotRequested, Exists,
         RetryScanFailure, Move, localVars, processVars, remoteVars
<1>2. RequestInv'
  BY WorkerConstants, NamesDiffer DEF WorkerInv, WorkerTypes, RequestInv, Working, Exists,
         NotRequested, At, RetryOSFailure, RetryScanFailure, Move, localVars, processVars,
         remoteVars
<1>3. OrphanInv'
  BY WorkerConstants DEF WorkerInv, WorkerTypes, OrphanInv, At, AttemptInv, NotRequested,
         RequestInv, Working, Exists, RetryOSFailure, RetryScanFailure, Move, localVars,
         processVars, remoteVars
<1>4. UploadInv'
  BY WorkerConstants DEF WorkerInv, WorkerTypes, UploadInv, Working, At, AttemptInv,
         NotRequested, RequestInv, Exists, OrphanInv, RetryOSFailure, RetryScanFailure, Move,
         localVars, processVars, remoteVars
<1>5. OneVerdict'
  BY WorkerConstants, NamesDiffer DEF WorkerInv, WorkerTypes, OneVerdict, Exists, RequestInv,
         Working, NotRequested, At, RetryOSFailure, RetryScanFailure, Move, localVars,
         processVars, remoteVars
<1>6. NoOSWithoutRequest'
  BY WorkerConstants, NamesDiffer DEF WorkerInv, WorkerTypes, NoOSWithoutRequest, NotRequested,
         Exists, RequestInv, Working, At, RetryOSFailure, RetryScanFailure, Move, localVars,
         processVars, remoteVars
<1>7. AttemptInv' /\ OSDoneDurable' /\ ClosedKept'
  BY DEF WorkerInv, AttemptInv, NotRequested, OSDoneDurable, ClosedKept, RetryOSFailure, At,
         Exists, RetryScanFailure, Move, localVars, processVars, remoteVars
<1> QED
  BY <1>1, <1>2, <1>3, <1>4, <1>5, <1>6, <1>7 DEF WorkerInv

\* The worker adopts a request, or finds that none is due.
LEMMA PollRequestInv ==
    ASSUME WorkerInv, deployment = "os", PollRequest
    PROVE WorkerInv'
<1>1. WorkerTypes'
  BY WorkerConstants DEF WorkerInv, WorkerTypes, PollRequest, At, OSDisabled, NotRequested,
         Immutable, Move, Verdict, Exists, Error, Due, Adopt, localVars, processVars, remoteVars
<1>2. RequestInv'
  BY WorkerConstants, NamesDiffer DEF WorkerInv, WorkerTypes, RequestInv, Working, Exists,
         NotRequested, At, PollRequest, OSDisabled, Immutable, Move, Verdict, Error, Due, Adopt,
         localVars, processVars, remoteVars
<1>3. OrphanInv'
  BY WorkerConstants DEF WorkerInv, WorkerTypes, OrphanInv, At, AttemptInv, NotRequested,
         RequestInv, Working, Exists, PollRequest, OSDisabled, Immutable, Move, Verdict, Error,
         Due, Adopt, localVars, processVars, remoteVars
<1>4. UploadInv'
  BY WorkerConstants DEF WorkerInv, WorkerTypes, UploadInv, Working, At, AttemptInv,
         NotRequested, RequestInv, Exists, OrphanInv, PollRequest, OSDisabled, Immutable, Move,
         Verdict, Error, Due, Adopt, localVars, processVars, remoteVars
<1>5. OneVerdict'
  BY WorkerConstants, NamesDiffer DEF WorkerInv, WorkerTypes, OneVerdict, Exists, RequestInv,
         Working, NotRequested, At, PollRequest, OSDisabled, Immutable, Move, Verdict, Error,
         Due, Adopt, localVars, processVars, remoteVars
<1>6. NoOSWithoutRequest'
  BY WorkerConstants, NamesDiffer DEF WorkerInv, WorkerTypes, NoOSWithoutRequest, NotRequested,
         Exists, RequestInv, Working, At, PollRequest, OSDisabled, Immutable, Move, Verdict,
         Error, Due, Adopt, localVars, processVars, remoteVars
<1>7. AttemptInv' /\ OSDoneDurable' /\ ClosedKept'
  BY DEF WorkerInv, AttemptInv, NotRequested, OSDoneDurable, ClosedKept, PollRequest, At,
         OSDisabled, Immutable, Move, Verdict, Exists, Error, Due, Adopt, localVars,
         processVars, remoteVars
<1> QED
  BY <1>1, <1>2, <1>3, <1>4, <1>5, <1>6, <1>7 DEF WorkerInv

LEMMA PollEnrichmentInv ==
    ASSUME WorkerInv, deployment = "os", PollEnrichment
    PROVE WorkerInv'
<1>1. WorkerTypes'
  BY WorkerConstants DEF WorkerInv, WorkerTypes, PollEnrichment, At, Exists, Verdict, Move,
         Error, Due, OtherStarted, Started, Immutable, Adopt, localVars, processVars, remoteVars
<1>2. RequestInv'
  BY WorkerConstants, NamesDiffer DEF WorkerInv, WorkerTypes, RequestInv, Working, Exists,
         NotRequested, At, PollEnrichment, Verdict, Move, Error, Due, OtherStarted, Started,
         Immutable, Adopt, localVars, processVars, remoteVars
<1>3. OrphanInv'
  BY WorkerConstants DEF WorkerInv, WorkerTypes, OrphanInv, At, AttemptInv, NotRequested,
         RequestInv, Working, Exists, PollEnrichment, Verdict, Move, Error, Due, OtherStarted,
         Started, Immutable, Adopt, localVars, processVars, remoteVars
<1>4. UploadInv'
  BY WorkerConstants DEF WorkerInv, WorkerTypes, UploadInv, Working, At, AttemptInv,
         NotRequested, RequestInv, Exists, OrphanInv, PollEnrichment, Verdict, Move, Error, Due,
         OtherStarted, Started, Immutable, Adopt, localVars, processVars, remoteVars
<1>5. OneVerdict'
  BY WorkerConstants, NamesDiffer DEF WorkerInv, WorkerTypes, OneVerdict, Exists, RequestInv,
         Working, NotRequested, At, PollEnrichment, Verdict, Move, Error, Due, OtherStarted,
         Started, Immutable, Adopt, localVars, processVars, remoteVars
<1>6. NoOSWithoutRequest'
  BY WorkerConstants, NamesDiffer DEF WorkerInv, WorkerTypes, NoOSWithoutRequest, NotRequested,
         Exists, RequestInv, Working, At, PollEnrichment, Verdict, Move, Error, Due,
         OtherStarted, Started, Immutable, Adopt, localVars, processVars, remoteVars
<1>7. AttemptInv' /\ OSDoneDurable' /\ ClosedKept'
  BY DEF WorkerInv, AttemptInv, NotRequested, OSDoneDurable, ClosedKept, PollEnrichment, At,
         Exists, Verdict, Move, Error, Due, OtherStarted, Started, Immutable, Adopt, localVars,
         processVars, remoteVars
<1> QED
  BY <1>1, <1>2, <1>3, <1>4, <1>5, <1>6, <1>7 DEF WorkerInv

\* The request is pinned.
LEMMA PinInv ==
    ASSUME WorkerInv, deployment = "os", Pin
    PROVE WorkerInv'
<1>1. WorkerTypes'
  BY WorkerConstants DEF WorkerInv, WorkerTypes, Pin, At, PinRequest, Move, Error, storeVars,
         processVars, remoteVars
<1>2. RequestInv'
  BY WorkerConstants DEF WorkerInv, WorkerTypes, RequestInv, Working, Exists, NotRequested, At,
         Pin, PinRequest, Move, Error, storeVars, processVars, remoteVars
<1>3. AttemptInv'
  BY WorkerConstants DEF WorkerInv, WorkerTypes, AttemptInv, NotRequested, RequestInv, Working,
         Exists, At, Pin, PinRequest, Move, Error, storeVars, processVars, remoteVars
<1>4. OrphanInv'
  BY WorkerConstants DEF WorkerInv, WorkerTypes, OrphanInv, At, AttemptInv, NotRequested,
         RequestInv, Working, Exists, Pin, PinRequest, Move, Error, storeVars, processVars,
         remoteVars
<1>5. UploadInv'
  BY WorkerConstants DEF WorkerInv, WorkerTypes, UploadInv, Working, At, AttemptInv,
         NotRequested, RequestInv, Exists, OrphanInv, Pin, PinRequest, Move, Error, storeVars,
         processVars, remoteVars
<1>6. OSDoneDurable'
  BY WorkerConstants DEF WorkerInv, WorkerTypes, OSDoneDurable, RequestInv, Working, Exists,
         NotRequested, At, AttemptInv, UploadInv, Pin, PinRequest, Move, Error, storeVars,
         processVars, remoteVars
<1>7. OneVerdict' /\ NoOSWithoutRequest' /\ ClosedKept'
  BY DEF WorkerInv, OneVerdict, Exists, NoOSWithoutRequest, NotRequested, ClosedKept, Pin, At,
         PinRequest, Move, Error, storeVars, processVars, remoteVars
<1> QED
  BY <1>1, <1>2, <1>3, <1>4, <1>5, <1>6, <1>7 DEF WorkerInv

\* The targets are fetched and checked.
LEMMA StatTargetInv ==
    ASSUME WorkerInv, deployment = "os", StatTarget
    PROVE WorkerInv'
<1>1. WorkerTypes'
  BY WorkerConstants DEF WorkerInv, WorkerTypes, StatTarget, At, GetFile, Move, processVars,
         remoteVars
<1>2. RequestInv'
  BY WorkerConstants DEF WorkerInv, WorkerTypes, RequestInv, Working, Exists, NotRequested, At,
         StatTarget, GetFile, Move, processVars, remoteVars
<1>3. OrphanInv'
  BY WorkerConstants DEF WorkerInv, WorkerTypes, OrphanInv, At, AttemptInv, NotRequested,
         RequestInv, Working, Exists, StatTarget, GetFile, Move, processVars, remoteVars
<1>4. UploadInv'
  BY WorkerConstants DEF WorkerInv, WorkerTypes, UploadInv, Working, At, AttemptInv,
         NotRequested, RequestInv, Exists, OrphanInv, StatTarget, GetFile, Move, processVars,
         remoteVars
<1>5. AttemptInv' /\ OSDoneDurable' /\ OneVerdict' /\ NoOSWithoutRequest' /\ ClosedKept'
  BY DEF WorkerInv, AttemptInv, NotRequested, OSDoneDurable, OneVerdict, Exists,
         NoOSWithoutRequest, ClosedKept, StatTarget, At, GetFile, Move, processVars, remoteVars
<1> QED
  BY <1>1, <1>2, <1>3, <1>4, <1>5 DEF WorkerInv

LEMMA CheckTargetInv ==
    ASSUME WorkerInv, deployment = "os", CheckTarget
    PROVE WorkerInv'
<1>1. WorkerTypes'
  BY WorkerConstants DEF WorkerInv, WorkerTypes, CheckTarget, At, Move, RefetchTarget, GetFile,
         Error, processVars, remoteVars
<1>2. RequestInv'
  BY WorkerConstants DEF WorkerInv, WorkerTypes, RequestInv, Working, Exists, NotRequested, At,
         CheckTarget, Move, RefetchTarget, GetFile, Error, processVars, remoteVars
<1>3. OrphanInv'
  BY WorkerConstants DEF WorkerInv, WorkerTypes, OrphanInv, At, AttemptInv, NotRequested,
         RequestInv, Working, Exists, CheckTarget, Move, RefetchTarget, GetFile, Error,
         processVars, remoteVars
<1>4. UploadInv'
  BY WorkerConstants DEF WorkerInv, WorkerTypes, UploadInv, Working, At, AttemptInv,
         NotRequested, RequestInv, Exists, OrphanInv, CheckTarget, Move, RefetchTarget, GetFile,
         Error, processVars, remoteVars
<1>5. AttemptInv' /\ OSDoneDurable' /\ OneVerdict' /\ NoOSWithoutRequest' /\ ClosedKept'
  BY DEF WorkerInv, AttemptInv, NotRequested, OSDoneDurable, OneVerdict, Exists,
         NoOSWithoutRequest, ClosedKept, CheckTarget, At, Move, RefetchTarget, GetFile, Error,
         processVars, remoteVars
<1> QED
  BY <1>1, <1>2, <1>3, <1>4, <1>5 DEF WorkerInv

\* A scan is planned when the targets are those of the request.
LEMMA PlanScanInv ==
    ASSUME WorkerInv, deployment = "os", PlanScan
    PROVE WorkerInv'
<1>1. WorkerTypes'
  BY WorkerConstants DEF WorkerInv, WorkerTypes, PlanScan, At, Move, storeVars, processVars,
         remoteVars
<1>2. RequestInv'
  BY WorkerConstants DEF WorkerInv, WorkerTypes, RequestInv, Working, Exists, NotRequested, At,
         PlanScan, Move, storeVars, processVars, remoteVars
<1>3. AttemptInv'
  BY WorkerConstants DEF WorkerInv, WorkerTypes, AttemptInv, NotRequested, RequestInv, Working,
         Exists, At, PlanScan, Move, storeVars, processVars, remoteVars
<1>4. OrphanInv'
  BY WorkerConstants DEF WorkerInv, WorkerTypes, OrphanInv, At, AttemptInv, NotRequested,
         RequestInv, Working, Exists, PlanScan, Move, storeVars, processVars, remoteVars
<1>5. UploadInv'
  BY WorkerConstants DEF WorkerInv, WorkerTypes, UploadInv, Working, At, AttemptInv,
         NotRequested, RequestInv, Exists, OrphanInv, PlanScan, Move, storeVars, processVars,
         remoteVars
<1>6. OSDoneDurable' /\ OneVerdict' /\ NoOSWithoutRequest' /\ ClosedKept'
  BY DEF WorkerInv, OSDoneDurable, OneVerdict, Exists, NoOSWithoutRequest, NotRequested,
         ClosedKept, PlanScan, At, Move, storeVars, processVars, remoteVars
<1> QED
  BY <1>1, <1>2, <1>3, <1>4, <1>5, <1>6 DEF WorkerInv

LEMMA StatCompleteInv ==
    ASSUME WorkerInv, deployment = "os", StatComplete
    PROVE WorkerInv'
<1>1. WorkerTypes'
  BY WorkerConstants DEF WorkerInv, WorkerTypes, StatComplete, At, Move, Adoptable, storeVars,
         localVars, processVars, remoteVars
<1>2. RequestInv'
  BY WorkerConstants DEF WorkerInv, WorkerTypes, RequestInv, Working, Exists, NotRequested, At,
         StatComplete, Move, Adoptable, storeVars, localVars, processVars, remoteVars
<1>3. OrphanInv'
  BY WorkerConstants DEF WorkerInv, WorkerTypes, OrphanInv, At, AttemptInv, NotRequested,
         RequestInv, Working, Exists, StatComplete, Move, Adoptable, storeVars, localVars,
         processVars, remoteVars
<1>4. UploadInv'
  BY WorkerConstants DEF WorkerInv, WorkerTypes, UploadInv, Working, At, AttemptInv,
         NotRequested, RequestInv, Exists, OrphanInv, StatComplete, Move, Adoptable, storeVars,
         localVars, processVars, remoteVars
<1>5. AttemptInv' /\ OSDoneDurable' /\ OneVerdict' /\ NoOSWithoutRequest' /\ ClosedKept'
  BY DEF WorkerInv, AttemptInv, NotRequested, OSDoneDurable, OneVerdict, Exists,
         NoOSWithoutRequest, ClosedKept, StatComplete, At, Move, Adoptable, storeVars,
         localVars, processVars, remoteVars
<1> QED
  BY <1>1, <1>2, <1>3, <1>4, <1>5 DEF WorkerInv

\* Only a directory without a completion is moved away.
LEMMA StatOutputInv ==
    ASSUME WorkerInv, deployment = "os", StatOutput
    PROVE WorkerInv'
<1> DEFINE moved == [output EXCEPT ![scan] = IF @ = "closed" THEN "archivedClosed"
                                            ELSE "archived"]
<1>01. scan \in Scans /\ scan \in Nat /\ worker = "output"
  BY ScanPlanned DEF StatOutput, At
<1>02. output \in [Scans -> {"absent", "partial", "closed", "archived", "archivedClosed"}]
  BY DEF WorkerInv, WorkerTypes
<1>03. /\ moved \in [Scans -> {"absent", "partial", "closed", "archived", "archivedClosed"}]
       /\ moved[scan] = IF output[scan] = "closed" THEN "archivedClosed" ELSE "archived"
       /\ \A a \in Scans \ {scan} : moved[a] = output[a]
  <2>1. /\ moved[scan] = IF output[scan] = "closed" THEN "archivedClosed" ELSE "archived"
        /\ \A a \in Scans \ {scan} : moved[a] = output[a]
    BY <1>01, <1>02
  <2>2. DOMAIN moved = Scans /\ moved = [a \in Scans |-> moved[a]]
    BY <1>02
  <2>3. \A a \in Scans :
            moved[a] \in {"absent", "partial", "closed", "archived", "archivedClosed"}
    BY <1>02, <2>1
  <2> QED
    BY <2>1, <2>2, <2>3
<1>04. \/ output' = output /\ scan' = scan
       \/ /\ output[scan] # "absent" /\ scan < MaxScans
          /\ output' = moved /\ scan' = scan + 1 /\ worker' = "launch"
  BY DEF StatOutput, Move
<1>05. worker' \in {"launch", "failing"}
  BY DEF StatOutput, Move, Error
<1> HIDE DEF moved
<1>1. WorkerTypes'
  <2>1. scan' \in 0 .. MaxScans
    BY <1>01, <1>04, WorkerConstants
  <2>2. output' \in [Scans -> {"absent", "partial", "closed", "archived", "archivedClosed"}]
    BY <1>02, <1>03, <1>04
  <2>3. UNCHANGED <<request, pinned, seen, process, done, target, scanned, attempt, own,
                    uploaded, raw>>
    BY DEF StatOutput, Move, Error, processVars, remoteVars
  <2> QED
    BY <1>05, <2>1, <2>2, <2>3 DEF WorkerInv, WorkerTypes
<1>2. RequestInv'
  BY WorkerConstants DEF WorkerInv, WorkerTypes, RequestInv, Working, Exists, NotRequested, At,
         StatOutput, Move, Error, storeVars, processVars, remoteVars
<1>3. AttemptInv'
  <2>1. UNCHANGED <<pinned, scanned, process, attempt, deployment, campaign, late>>
    BY DEF StatOutput, Move, Error, storeVars, processVars
  <2>2. AttemptInv /\ \A k \in Scans : process[k] # "none" => attempt[k] \in Scans
    BY WorkerConstants DEF WorkerInv, WorkerTypes, AttemptInv
  <2>3. CASE output' = output /\ scan' = scan
    BY <2>1, <2>2, <2>3 DEF AttemptInv, NotRequested
  <2>4. CASE output[scan] # "absent" /\ scan < MaxScans /\ output' = moved /\ scan' = scan + 1
    <3>1. ASSUME NEW a \in Scans, output'[a] # "absent"
          PROVE a < scan' /\ a <= scan' /\ scanned[a] = pinned
      <4>1. output[a] # "absent"
        BY <1>03, <2>4, <3>1
      <4> QED
        BY <1>01, <2>2, <2>4, <4>1, WorkerConstants DEF AttemptInv
    <3>2. ASSUME NEW k \in Scans, process[k] = "ok"
          PROVE output'[attempt[k]] \in {"closed", "archivedClosed"}
      <4>1. attempt[k] \in Scans /\ output[attempt[k]] \in {"closed", "archivedClosed"}
        BY <2>2, <3>2 DEF AttemptInv
      <4>2. output[scan] # "archivedClosed"
        BY <1>01, <2>2 DEF AttemptInv
      <4> QED
        BY <1>03, <2>4, <4>1, <4>2
    <3>3. \A k \in Scans : process[k] # "none" => attempt[k] \in 1 .. scan'
      BY <1>01, <2>2, <2>4 DEF AttemptInv
    <3>4. (NotRequested /\ deployment = "os")' => \A k \in Scans : process'[k] = "none"
      BY <2>1, <2>2 DEF AttemptInv, NotRequested
    <3> QED
      BY <2>1, <3>1, <3>2, <3>3, <3>4 DEF AttemptInv
  <2> QED
    BY <1>04, <2>3, <2>4
<1>4. OrphanInv'
  BY WorkerConstants DEF WorkerInv, WorkerTypes, OrphanInv, At, AttemptInv, NotRequested,
         RequestInv, Working, Exists, StatOutput, Move, Error, storeVars, processVars,
         remoteVars
<1>5. UploadInv'
  BY WorkerConstants DEF WorkerInv, WorkerTypes, UploadInv, Working, At, AttemptInv,
         NotRequested, RequestInv, Exists, OrphanInv, StatOutput, Move, Error, storeVars,
         processVars, remoteVars
<1>6. OSDoneDurable'
  BY WorkerConstants DEF WorkerInv, WorkerTypes, OSDoneDurable, RequestInv, Working, Exists,
         NotRequested, At, AttemptInv, UploadInv, StatOutput, Move, Error, storeVars,
         processVars, remoteVars
<1>7. ClosedKept'
  BY WorkerConstants DEF WorkerInv, WorkerTypes, ClosedKept, OrphanInv, At, StatOutput, Move,
         Error, storeVars, processVars, remoteVars
<1>8. OneVerdict' /\ NoOSWithoutRequest'
  BY DEF WorkerInv, OneVerdict, Exists, NoOSWithoutRequest, NotRequested, StatOutput, At, Move,
         Error, storeVars, processVars, remoteVars
<1> QED
  BY <1>1, <1>2, <1>3, <1>4, <1>5, <1>6, <1>7, <1>8 DEF WorkerInv

LEMMA LaunchInv ==
    ASSUME WorkerInv, deployment = "os", Launch
    PROVE WorkerInv'
<1>1. WorkerTypes'
  BY WorkerConstants DEF WorkerInv, WorkerTypes, Launch, At, Move, storeVars, localVars,
         remoteVars
<1>2. RequestInv'
  BY WorkerConstants DEF WorkerInv, WorkerTypes, RequestInv, Working, Exists, NotRequested, At,
         Launch, Move, storeVars, localVars, remoteVars
<1>3. AttemptInv'
  BY WorkerConstants DEF WorkerInv, WorkerTypes, AttemptInv, NotRequested, RequestInv, Working,
         Exists, At, Launch, Move, storeVars, localVars, remoteVars
<1>4. OrphanInv'
  BY WorkerConstants DEF WorkerInv, WorkerTypes, OrphanInv, At, AttemptInv, NotRequested,
         RequestInv, Working, Exists, Launch, Move, storeVars, localVars, remoteVars
<1>5. UploadInv'
  BY WorkerConstants DEF WorkerInv, WorkerTypes, UploadInv, Working, At, AttemptInv,
         NotRequested, RequestInv, Exists, OrphanInv, Launch, Move, storeVars, localVars,
         remoteVars
<1>6. NoOSWithoutRequest'
  BY WorkerConstants DEF WorkerInv, WorkerTypes, NoOSWithoutRequest, NotRequested, Exists,
         RequestInv, Working, At, Launch, Move, storeVars, localVars, remoteVars
<1>7. OSDoneDurable' /\ OneVerdict' /\ ClosedKept'
  BY DEF WorkerInv, OSDoneDurable, OneVerdict, Exists, ClosedKept, Launch, At, Move, storeVars,
         localVars, remoteVars
<1> QED
  BY <1>1, <1>2, <1>3, <1>4, <1>5, <1>6, <1>7 DEF WorkerInv

LEMMA ScanReturnsInv ==
    ASSUME WorkerInv, deployment = "os", ScanReturns
    PROVE WorkerInv'
<1>1. WorkerTypes'
  BY WorkerConstants DEF WorkerInv, WorkerTypes, ScanReturns, At, Move, Error, storeVars,
         localVars, processVars, remoteVars
<1>2. RequestInv'
  BY WorkerConstants DEF WorkerInv, WorkerTypes, RequestInv, Working, Exists, NotRequested, At,
         ScanReturns, Move, Error, storeVars, localVars, processVars, remoteVars
<1>3. OrphanInv'
  BY WorkerConstants DEF WorkerInv, WorkerTypes, OrphanInv, At, AttemptInv, NotRequested,
         RequestInv, Working, Exists, ScanReturns, Move, Error, storeVars, localVars,
         processVars, remoteVars
<1>4. UploadInv'
  BY WorkerConstants DEF WorkerInv, WorkerTypes, UploadInv, Working, At, AttemptInv,
         NotRequested, RequestInv, Exists, OrphanInv, ScanReturns, Move, Error, storeVars,
         localVars, processVars, remoteVars
<1>5. AttemptInv' /\ OSDoneDurable' /\ OneVerdict' /\ NoOSWithoutRequest' /\ ClosedKept'
  BY DEF WorkerInv, AttemptInv, NotRequested, OSDoneDurable, OneVerdict, Exists,
         NoOSWithoutRequest, ClosedKept, ScanReturns, At, Move, Error, storeVars, localVars,
         processVars, remoteVars
<1> QED
  BY <1>1, <1>2, <1>3, <1>4, <1>5 DEF WorkerInv

LEMMA PutFileInv ==
    ASSUME WorkerInv, deployment = "os", PutFile
    PROVE WorkerInv'
<1> DEFINE more == [raw EXCEPT ![uploaded + 1] = scan]
<1>01. /\ scan \in Scans /\ worker = "upload" /\ scan \in 0 .. MaxScans
       /\ uploaded \in Nat /\ uploaded + 1 \in DOMAIN ScanFiles /\ uploaded < Len(ScanFiles)
       /\ raw \in [DOMAIN ScanFiles -> 0 .. MaxScans]
       /\ uploaded \in 0 .. Len(ScanFiles)
  BY ScanPlanned, WorkerConstants DEF PutFile, At, WorkerInv, WorkerTypes
<1>02. /\ more \in [DOMAIN ScanFiles -> 0 .. MaxScans]
       /\ more[uploaded + 1] = scan /\ \A i \in 1 .. uploaded : more[i] = raw[i]
  <2>1. more \in [DOMAIN ScanFiles -> 0 .. MaxScans] /\ more[uploaded + 1] = scan
    BY <1>01
  <2>2. \A i \in 1 .. uploaded : i \in DOMAIN ScanFiles /\ i # uploaded + 1
    BY <1>01, WorkerConstants
  <2> QED
    BY <1>01, <2>1, <2>2
<1>03. \/ /\ raw' = more /\ uploaded' = uploaded + 1 /\ worker' = "upload"
          /\ output[scan] = "closed"
       \/ raw' = raw /\ uploaded' = uploaded /\ worker' = "failing"
  BY DEF PutFile, Move, Error
<1>04. UNCHANGED <<pinned, target, scan, output, scanned, process, attempt, own, request, seen,
                   done>>
  BY DEF PutFile, Move, Error, localVars, processVars
<1> HIDE DEF more
<1>1. WorkerTypes'
  <2>1. uploaded' \in 0 .. Len(ScanFiles)
    BY <1>01, <1>03, WorkerConstants
  <2>2. raw' \in [DOMAIN ScanFiles -> 0 .. MaxScans]
    BY <1>01, <1>02, <1>03
  <2> QED
    BY <1>03, <1>04, <2>1, <2>2 DEF WorkerInv, WorkerTypes
<1>2. RequestInv'
  BY WorkerConstants DEF WorkerInv, WorkerTypes, RequestInv, Working, Exists, NotRequested, At,
         PutFile, Move, Error, storeVars, localVars, processVars
<1>3. OrphanInv'
  BY WorkerConstants DEF WorkerInv, WorkerTypes, OrphanInv, At, AttemptInv, NotRequested,
         RequestInv, Working, Exists, PutFile, Move, Error, storeVars, localVars, processVars
<1>4. UploadInv'
  <2>1. CASE worker' = "failing"
    BY <2>1 DEF UploadInv, At, Working
  <2>2. CASE /\ raw' = more /\ uploaded' = uploaded + 1 /\ worker' = "upload"
             /\ output[scan] = "closed"
    <3>1. \A i \in 1 .. uploaded : raw[i] = scan
      BY <1>01 DEF WorkerInv, UploadInv, At
    <3>2. ASSUME NEW i \in 1 .. uploaded + 1 PROVE more[i] = scan
      BY <1>01, <1>02, <3>1
    <3> QED
      BY <1>04, <2>2, <3>2 DEF UploadInv, At, Working
  <2> QED
    BY <1>03, <2>1, <2>2
<1>5. OSDoneDurable'
  BY WorkerConstants DEF WorkerInv, WorkerTypes, OSDoneDurable, RequestInv, Working, Exists,
         NotRequested, At, AttemptInv, UploadInv, PutFile, Move, Error, storeVars, localVars,
         processVars
<1>6. AttemptInv' /\ OneVerdict' /\ NoOSWithoutRequest' /\ ClosedKept'
  BY DEF WorkerInv, AttemptInv, NotRequested, OneVerdict, Exists, NoOSWithoutRequest,
         ClosedKept, PutFile, At, Move, Error, storeVars, localVars, processVars
<1> QED
  BY <1>1, <1>2, <1>3, <1>4, <1>5, <1>6 DEF WorkerInv

LEMMA PublishDoneInv ==
    ASSUME WorkerInv, deployment = "os", PublishDone
    PROVE WorkerInv'
<1>1. WorkerTypes'
  <2>1. <<scan, seen>> \in Scans \X (1 .. 2)
    BY ScanPlanned DEF PublishDone, At
  <2>2. /\ worker' = "finished" /\ done' = <<scan, seen>>
        /\ UNCHANGED <<pinned, target, scan, output, scanned, process, attempt, own, request,
                       seen, uploaded, raw>>
    BY DEF PublishDone, Move, localVars, processVars
  <2> QED
    BY <2>1, <2>2 DEF WorkerInv, WorkerTypes
<1>2. RequestInv'
  BY WorkerConstants DEF WorkerInv, WorkerTypes, RequestInv, Working, Exists, NotRequested, At,
         PublishDone, FilesUploaded, Move, storeVars, localVars, processVars
<1>3. OrphanInv'
  BY WorkerConstants DEF WorkerInv, WorkerTypes, OrphanInv, At, AttemptInv, NotRequested,
         RequestInv, Working, Exists, PublishDone, FilesUploaded, Move, storeVars, localVars,
         processVars
<1>4. UploadInv'
  BY WorkerConstants DEF WorkerInv, WorkerTypes, UploadInv, Working, At, AttemptInv,
         NotRequested, RequestInv, Exists, OrphanInv, PublishDone, FilesUploaded, Move,
         storeVars, localVars, processVars
<1>5. OSDoneDurable'
  BY WorkerConstants DEF WorkerInv, WorkerTypes, OSDoneDurable, RequestInv, Working, Exists,
         NotRequested, At, AttemptInv, UploadInv, PublishDone, FilesUploaded, Move, storeVars,
         localVars, processVars
<1>6. OneVerdict'
  BY WorkerConstants DEF WorkerInv, WorkerTypes, OneVerdict, Exists, RequestInv, Working,
         NotRequested, At, PublishDone, FilesUploaded, Move, storeVars, localVars, processVars
<1>7. AttemptInv' /\ NoOSWithoutRequest' /\ ClosedKept'
  BY DEF WorkerInv, AttemptInv, NotRequested, NoOSWithoutRequest, Exists, ClosedKept,
         PublishDone, At, FilesUploaded, Move, storeVars, localVars, processVars
<1> QED
  BY <1>1, <1>2, <1>3, <1>4, <1>5, <1>6, <1>7 DEF WorkerInv

LEMMA WorkerFailsInv ==
    ASSUME WorkerInv, deployment = "os", WorkerFails
    PROVE WorkerInv'
<1>01. /\ worker' = "failing"
       /\ UNCHANGED <<pinned, target, scan, output, scanned, process, attempt, own, request,
                      seen, uploaded, raw>>
       /\ done' = done \/ (worker = "upload" /\ FilesUploaded /\ done' = <<scan, seen>>)
  BY DEF WorkerFails, Error, Move, At, localVars, processVars
<1>1. WorkerTypes'
  <2>1. worker = "upload" => <<scan, seen>> \in Scans \X (1 .. 2)
    BY ScanPlanned
  <2> QED
    BY <1>01, <2>1 DEF WorkerInv, WorkerTypes
<1>2. RequestInv'
  BY WorkerConstants DEF WorkerInv, WorkerTypes, RequestInv, Working, Exists, NotRequested, At,
         WorkerFails, FilesUploaded, Error, Move, localVars, processVars
<1>3. OrphanInv'
  BY WorkerConstants DEF WorkerInv, WorkerTypes, OrphanInv, At, AttemptInv, NotRequested,
         RequestInv, Working, Exists, WorkerFails, FilesUploaded, Error, Move, localVars,
         processVars
<1>4. UploadInv'
  BY WorkerConstants DEF WorkerInv, WorkerTypes, UploadInv, Working, At, AttemptInv,
         NotRequested, RequestInv, Exists, OrphanInv, WorkerFails, FilesUploaded, Error, Move,
         localVars, processVars
<1>5. OSDoneDurable'
  <2>1. CASE done' = done
    BY <1>01, <2>1 DEF WorkerInv, OSDoneDurable
  <2>2. CASE worker = "upload" /\ FilesUploaded /\ done' = <<scan, seen>>
    <3>1. /\ done'[1] = scan /\ done'[2] = seen /\ seen = pinned /\ scan \in Scans
          /\ output[scan] = "closed" /\ \A i \in DOMAIN ScanFiles : raw[i] = scan
      BY <2>2, ScanPlanned, WorkerConstants DEF WorkerInv, UploadInv, At, FilesUploaded
    <3>2. scanned[scan] = pinned
      BY <3>1 DEF WorkerInv, AttemptInv
    <3> QED
      BY <1>01, <3>1, <3>2 DEF OSDoneDurable
  <2> QED
    BY <1>01, <2>1, <2>2
<1>6. OneVerdict'
  BY WorkerConstants DEF WorkerInv, WorkerTypes, OneVerdict, Exists, RequestInv, Working,
         NotRequested, At, WorkerFails, FilesUploaded, Error, Move, localVars, processVars
<1>7. AttemptInv' /\ NoOSWithoutRequest' /\ ClosedKept'
  BY DEF WorkerInv, AttemptInv, NotRequested, NoOSWithoutRequest, Exists, ClosedKept,
         WorkerFails, At, FilesUploaded, Error, Move, localVars, processVars
<1> QED
  BY <1>1, <1>2, <1>3, <1>4, <1>5, <1>6, <1>7 DEF WorkerInv

LEMMA PublishOSFailureInv ==
    ASSUME WorkerInv, deployment = "os", PublishOSFailure
    PROVE WorkerInv'
<1>1. WorkerTypes'
  BY WorkerConstants DEF WorkerInv, WorkerTypes, PublishOSFailure, At, Immutable, FailureDue,
         NotRequested, Move, localVars, processVars, remoteVars
<1>2. RequestInv'
  BY WorkerConstants, NamesDiffer DEF WorkerInv, WorkerTypes, RequestInv, Working, Exists,
         NotRequested, At, PublishOSFailure, Immutable, FailureDue, Move, localVars,
         processVars, remoteVars
<1>3. OrphanInv'
  BY WorkerConstants DEF WorkerInv, WorkerTypes, OrphanInv, At, AttemptInv, NotRequested,
         RequestInv, Working, Exists, PublishOSFailure, Immutable, FailureDue, Move, localVars,
         processVars, remoteVars
<1>4. UploadInv'
  BY WorkerConstants DEF WorkerInv, WorkerTypes, UploadInv, Working, At, AttemptInv,
         NotRequested, RequestInv, Exists, OrphanInv, PublishOSFailure, Immutable, FailureDue,
         Move, localVars, processVars, remoteVars
<1>5. OneVerdict'
  BY WorkerConstants, NamesDiffer DEF WorkerInv, WorkerTypes, OneVerdict, Exists, RequestInv,
         Working, NotRequested, At, PublishOSFailure, Immutable, FailureDue, Move, localVars,
         processVars, remoteVars
<1>6. NoOSWithoutRequest'
  BY WorkerConstants, NamesDiffer DEF WorkerInv, WorkerTypes, NoOSWithoutRequest, NotRequested,
         Exists, RequestInv, Working, At, PublishOSFailure, Immutable, FailureDue, Move,
         localVars, processVars, remoteVars
<1>7. AttemptInv' /\ OSDoneDurable' /\ ClosedKept'
  BY DEF WorkerInv, AttemptInv, NotRequested, OSDoneDurable, ClosedKept, PublishOSFailure, At,
         Immutable, FailureDue, Move, localVars, processVars, remoteVars
<1> QED
  BY <1>1, <1>2, <1>3, <1>4, <1>5, <1>6, <1>7 DEF WorkerInv

LEMMA StopWorkerInv ==
    ASSUME WorkerInv, deployment = "os", StopWorker
    PROVE WorkerInv'
<1>1. WorkerTypes'
  BY WorkerConstants DEF WorkerInv, WorkerTypes, StopWorker, At, Move, localVars, remoteVars
<1>2. RequestInv'
  BY WorkerConstants DEF WorkerInv, WorkerTypes, RequestInv, Working, Exists, NotRequested, At,
         StopWorker, Move, localVars, remoteVars
<1>3. AttemptInv'
  BY WorkerConstants DEF WorkerInv, WorkerTypes, AttemptInv, NotRequested, RequestInv, Working,
         Exists, At, StopWorker, Move, localVars, remoteVars
<1>4. OrphanInv'
  <2>1. /\ worker' = "down" /\ UNCHANGED <<output, scan, attempt, own>>
        /\ process \in [Scans -> {"none", "launched", "writing", "ok", "failed"}]
    BY DEF StopWorker, Move, localVars, WorkerInv, WorkerTypes
  <2>2. ASSUME NEW k \in Scans, process'[k] \in {"launched", "writing"} PROVE orphaned'
    <3>1. process[k] \in {"launched", "writing"}
      BY <2>1, <2>2 DEF StopWorker
    <3>2. orphaned \/ (At("scan") /\ own = k)
      BY <3>1 DEF WorkerInv, OrphanInv
    <3>3. CASE orphaned
      BY <3>3 DEF StopWorker
    <3>4. CASE At("scan") /\ own = k
      BY <2>1, <2>2, <3>1, <3>4 DEF StopWorker
    <3> QED
      BY <3>2, <3>3, <3>4
  <2> QED
    BY <2>1, <2>2 DEF OrphanInv, At
<1>5. UploadInv'
  BY WorkerConstants DEF WorkerInv, WorkerTypes, UploadInv, Working, At, AttemptInv,
         NotRequested, RequestInv, Exists, OrphanInv, StopWorker, Move, localVars, remoteVars
<1>6. NoOSWithoutRequest'
  BY WorkerConstants DEF WorkerInv, WorkerTypes, NoOSWithoutRequest, NotRequested, Exists,
         RequestInv, Working, At, StopWorker, Move, localVars, remoteVars
<1>7. ClosedKept'
  <2>1. output' = output
    BY DEF StopWorker, localVars
  <2>2. ASSUME orphaned PROVE orphaned'
    <3>1. \/ orphaned' = orphaned
          \/ orphaned' = (orphaned \/ (At("scan") /\ process[own] \in {"launched", "writing"}))
      BY DEF StopWorker
    <3>2. (orphaned \/ (At("scan") /\ process[own] \in {"launched", "writing"})) = TRUE
      BY <2>2
    <3> QED
      BY <2>2, <3>1, <3>2
  <2> QED
    BY <2>1, <2>2 DEF WorkerInv, ClosedKept
<1>8. OSDoneDurable' /\ OneVerdict'
  BY DEF WorkerInv, OSDoneDurable, OneVerdict, Exists, StopWorker, At, Move, localVars,
         remoteVars
<1> QED
  BY <1>1, <1>2, <1>3, <1>4, <1>5, <1>6, <1>7, <1>8 DEF WorkerInv

LEMMA CreateOutputInv ==
    ASSUME WorkerInv, deployment = "os", NEW k \in Scans, CreateOutput(k)
    PROVE WorkerInv'
<1> DEFINE a == attempt[k]
<1>01. /\ process[k] = "launched" /\ a \in Scans /\ a <= scan
       /\ output \in [Scans -> {"absent", "partial", "closed", "archived", "archivedClosed"}]
       /\ process \in [Scans -> {"none", "launched", "writing", "ok", "failed"}]
       /\ scanned \in [Scans -> {0, 1, 2, Truncated}] /\ target \in {0, 1, 2, Truncated}
       /\ scan \in 0 .. MaxScans /\ scan # 0
  BY WorkerConstants DEF CreateOutput, WorkerInv, WorkerTypes, AttemptInv
<1>02. target = pinned
  BY <1>01 DEF WorkerInv, RequestInv
<1>03. \/ /\ output[a] = "absent"
          /\ output' = [output EXCEPT ![a] = "partial"]
          /\ scanned' = [scanned EXCEPT ![a] = target]
          /\ process' = [process EXCEPT ![k] = "writing"]
       \/ /\ process' = [process EXCEPT ![k] = "failed"]
          /\ output' = output /\ scanned' = scanned
  BY DEF CreateOutput
<1>04. UNCHANGED <<deployment, campaign, late, request, worker, seen, pinned, target, scan,
                   attempt, own, uploaded, raw, done>>
  BY DEF CreateOutput, storeVars, remoteVars
<1> HIDE DEF a
<1>05. /\ output' \in [Scans -> {"absent", "partial", "closed", "archived", "archivedClosed"}]
       /\ process' \in [Scans -> {"none", "launched", "writing", "ok", "failed"}]
       /\ scanned' \in [Scans -> {0, 1, 2, Truncated}]
       /\ \A b \in Scans : \/ output'[b] = output[b] /\ scanned'[b] = scanned[b]
                           \/ /\ b = a /\ output[b] = "absent" /\ output'[b] = "partial"
                              /\ scanned'[b] = target
       /\ \A j \in Scans : process'[j] = process[j]
                           \/ (j = k /\ process'[j] \in {"writing", "failed"})
  BY <1>01, <1>03
<1>1. WorkerTypes'
  BY <1>04, <1>05 DEF WorkerInv, WorkerTypes
<1>2. AttemptInv'
  <2>1. AttemptInv /\ \A j \in Scans : process[j] # "none" => attempt[j] \in Scans
    BY WorkerConstants DEF WorkerInv, WorkerTypes, AttemptInv
  <2>2. ASSUME NEW b \in Scans, output'[b] # "absent" PROVE b <= scan /\ scanned'[b] = pinned
    BY <1>01, <1>02, <1>05, <2>1, <2>2 DEF AttemptInv
  <2>3. ASSUME NEW b \in Scans, output'[b] \in {"archived", "archivedClosed"} PROVE b < scan
    BY <1>05, <2>1, <2>3 DEF AttemptInv
  <2>4. ASSUME NEW j \in Scans, process'[j] # "none" PROVE attempt[j] \in 1 .. scan
    BY <1>01, <1>05, <2>1, <2>4 DEF AttemptInv
  <2>5. ASSUME NEW j \in Scans, process'[j] = "ok"
        PROVE output'[attempt[j]] \in {"closed", "archivedClosed"}
    <3>1. process[j] = "ok" /\ attempt[j] \in Scans
      BY <1>05, <2>1, <2>5
    <3>2. output[attempt[j]] \in {"closed", "archivedClosed"}
      BY <2>1, <3>1 DEF AttemptInv
    <3> QED
      BY <1>05, <3>1, <3>2
  <2>6. ~(NotRequested /\ deployment = "os")
    BY <1>01, <2>1 DEF AttemptInv
  <2>7. ~(NotRequested /\ deployment = "os")'
    BY <1>04, <2>6 DEF NotRequested
  <2> QED
    BY <1>04, <2>2, <2>3, <2>4, <2>5, <2>7 DEF AttemptInv
<1>3. OrphanInv'
  BY WorkerConstants DEF WorkerInv, WorkerTypes, OrphanInv, At, AttemptInv, NotRequested,
         RequestInv, Working, Exists, CreateOutput, storeVars, remoteVars
<1>4. UploadInv'
  BY WorkerConstants DEF WorkerInv, WorkerTypes, UploadInv, Working, At, AttemptInv,
         NotRequested, RequestInv, Exists, OrphanInv, CreateOutput, storeVars, remoteVars
<1>5. OSDoneDurable'
  BY WorkerConstants DEF WorkerInv, WorkerTypes, OSDoneDurable, RequestInv, Working, Exists,
         NotRequested, At, AttemptInv, UploadInv, CreateOutput, storeVars, remoteVars
<1>6. NoOSWithoutRequest'
  BY WorkerConstants DEF WorkerInv, WorkerTypes, NoOSWithoutRequest, NotRequested, Exists,
         RequestInv, Working, At, CreateOutput, storeVars, remoteVars
<1>7. ClosedKept'
  BY WorkerConstants DEF WorkerInv, WorkerTypes, ClosedKept, OrphanInv, At, CreateOutput,
         storeVars, remoteVars
<1>8. RequestInv' /\ OneVerdict'
  BY DEF WorkerInv, RequestInv, Working, Exists, NotRequested, At, OneVerdict, CreateOutput,
         storeVars, remoteVars
<1> QED
  BY <1>1, <1>2, <1>3, <1>4, <1>5, <1>6, <1>7, <1>8 DEF WorkerInv

LEMMA EndScanInv ==
    ASSUME WorkerInv, deployment = "os", NEW k \in Scans, EndScan(k)
    PROVE WorkerInv'
<1> DEFINE a == attempt[k]
<1>01. /\ process[k] = "writing" /\ a \in Scans
       /\ output \in [Scans -> {"absent", "partial", "closed", "archived", "archivedClosed"}]
       /\ process \in [Scans -> {"none", "launched", "writing", "ok", "failed"}]
  BY WorkerConstants DEF EndScan, WorkerInv, WorkerTypes, AttemptInv
<1>02. \/ /\ output[a] = "partial" /\ output' = [output EXCEPT ![a] = "closed"]
          /\ process' = [process EXCEPT ![k] = "ok"]
       \/ process' = [process EXCEPT ![k] = "failed"] /\ output' = output
  BY DEF EndScan
<1>03. UNCHANGED <<deployment, campaign, late, pinned, scan, scanned, attempt>>
  BY DEF EndScan
<1> HIDE DEF a
<1>04. /\ \A b \in Scans : \/ output'[b] = output[b]
                           \/ b = a /\ output[b] = "partial" /\ output'[b] = "closed"
       /\ \A j \in Scans : \/ process'[j] = process[j]
                           \/ j = k /\ process'[j] = "failed"
                           \/ j = k /\ process'[j] = "ok" /\ output'[a] = "closed"
  BY <1>01, <1>02
<1>1. WorkerTypes'
  BY WorkerConstants DEF WorkerInv, WorkerTypes, EndScan, remoteVars
<1>2. AttemptInv'
  <2>1. AttemptInv /\ \A j \in Scans : process[j] # "none" => attempt[j] \in Scans
    BY WorkerConstants DEF WorkerInv, WorkerTypes, AttemptInv
  <2>2. ASSUME NEW b \in Scans, output'[b] # "absent" PROVE b <= scan /\ scanned[b] = pinned
    BY <1>04, <2>1, <2>2 DEF AttemptInv
  <2>3. ASSUME NEW b \in Scans, output'[b] \in {"archived", "archivedClosed"} PROVE b < scan
    BY <1>04, <2>1, <2>3 DEF AttemptInv
  <2>4. ASSUME NEW j \in Scans, process'[j] # "none" PROVE attempt[j] \in 1 .. scan
    BY <1>01, <1>04, <2>1, <2>4 DEF AttemptInv
  <2>5. ASSUME NEW j \in Scans, process'[j] = "ok"
        PROVE output'[attempt[j]] \in {"closed", "archivedClosed"}
    <3>1. CASE process[j] = "ok"
      <4>1. attempt[j] \in Scans /\ output[attempt[j]] \in {"closed", "archivedClosed"}
        BY <2>1, <3>1 DEF AttemptInv
      <4> QED
        BY <1>04, <4>1
    <3>2. CASE process[j] # "ok"
      BY <1>04, <2>5, <3>2 DEF a
    <3> QED
      BY <3>1, <3>2
  <2>6. ~(NotRequested /\ deployment = "os")
    BY <1>01, <2>1 DEF AttemptInv
  <2>7. ~(NotRequested /\ deployment = "os")'
    BY <1>03, <2>6 DEF NotRequested
  <2> QED
    BY <1>03, <2>2, <2>3, <2>4, <2>5, <2>7 DEF AttemptInv
<1>3. OrphanInv'
  BY WorkerConstants DEF WorkerInv, WorkerTypes, OrphanInv, At, AttemptInv, NotRequested,
         RequestInv, Working, Exists, EndScan, remoteVars
<1>4. UploadInv'
  BY WorkerConstants DEF WorkerInv, WorkerTypes, UploadInv, Working, At, AttemptInv,
         NotRequested, RequestInv, Exists, OrphanInv, EndScan, remoteVars
<1>5. OSDoneDurable'
  BY WorkerConstants DEF WorkerInv, WorkerTypes, OSDoneDurable, RequestInv, Working, Exists,
         NotRequested, At, AttemptInv, UploadInv, EndScan, remoteVars
<1>6. NoOSWithoutRequest'
  BY WorkerConstants DEF WorkerInv, WorkerTypes, NoOSWithoutRequest, NotRequested, Exists,
         RequestInv, Working, At, EndScan, remoteVars
<1>7. ClosedKept'
  BY WorkerConstants DEF WorkerInv, WorkerTypes, ClosedKept, OrphanInv, At, EndScan, remoteVars
<1>8. RequestInv' /\ OneVerdict'
  BY DEF WorkerInv, RequestInv, Working, Exists, NotRequested, At, OneVerdict, EndScan,
         remoteVars
<1> QED
  BY <1>1, <1>2, <1>3, <1>4, <1>5, <1>6, <1>7, <1>8 DEF WorkerInv

-----------------------------------------------------------------------------
(* All steps *)

\* The types of both parts are those of the campaign, before a step and after it.
LEMMA Types ==
    /\ ControllerTypes /\ WorkerTypes => TypeOK /\ DataType
    /\ ControllerTypes' /\ WorkerTypes' => TypeOK' /\ DataType'
<1>1. ControllerTypes /\ WorkerTypes => TypeOK
  BY DEF ControllerTypes, WorkerTypes, TypeOK, Phases
<1>2. ControllerTypes /\ WorkerTypes => DataType
  BY DEF ControllerTypes, WorkerTypes, DataType
<1>3. ControllerTypes' /\ WorkerTypes' => TypeOK'
  BY DEF ControllerTypes, WorkerTypes, TypeOK, Phases
<1>4. ControllerTypes' /\ WorkerTypes' => DataType'
  BY DEF ControllerTypes, WorkerTypes, DataType
<1> QED
  BY <1>1, <1>2, <1>3, <1>4

\* What a step of a controller or of the analysis preserves.
LEMMA CampaignStep ==
    ASSUME CampaignInv, WorkerTypes', NEW c \in Names, Step(c), LayoutInv'
    PROVE CampaignInv'
<1>1. DataStep(c) /\ ControlStep(c) /\ ControllerTypes'
  BY DEF Step
<1>2. TypeOK' /\ DataType'
  BY <1>1, Types
<1>3. PublishedBacked' /\ FinalComplete' /\ VerifiedTargets'
  BY <1>1, PublishedBackedStep, FinalStep DEF CampaignInv, PublishedSound, Step
<1>4. FlowInv' /\ OneLayout'
  BY <1>1, FlowStep, OneLayoutStep DEF CampaignInv
<1>5. ReadyInv'
  BY <1>1, ReadyStepInv DEF CampaignInv, Step
<1>6. ProgressInv'
  BY <1>1, <1>2, ProgressStep DEF CampaignInv
<1>7. PolicyInv'
  BY <1>1, PolicyStepInv DEF CampaignInv, Step
<1> QED
  BY <1>1, <1>2, <1>3, <1>4, <1>5, <1>6, <1>7 DEF CampaignInv, PublishedSound

\* Every action of a controller is such a step.
LEMMA ControllerAction ==
    ASSUME CampaignInv, NEW c \in Controllers,
           \/ \E retryFailed \in BOOLEAN : Start(c, retryFailed)
           \/ Proceed(c) \/ OperationFails(c) \/ Interrupt(c)
    PROVE Step(c)
<1>1. CASE \E retryFailed \in BOOLEAN : Start(c, retryFailed)
  BY <1>1, StartStep
<1>2. CASE Proceed(c)
  <2>1. CASE ReadPolicy(c) \/ PutPolicy(c) \/ VerifyPolicy(c) \/ Layout(c)
    BY <2>1, PolicyActions, PutPolicyStep, LayoutAction
  <2>2. CASE RetryProtocolFailure(c) \/ Admit(c)
    BY <2>2, RetryStep, AdmitStep
  <2>3. CASE Perform(c) \/ RequestHandoff(c) \/ PollFailed(c)
    BY <2>3, PerformStep, RequestHandoffStep, PollFailedStep
  <2>4. CASE \E content \in {"whole", "truncated"} : PollDone(c, content)
    BY <2>4, PollDoneStep
  <2>5. CASE WaitProtocols(c) \/ WaitForReadiness(c) \/ PublishProtocolFailure(c)
    BY <2>5, WaitProtocolsStep, WaitForReadinessStep, PublishFailureStep
  <2> QED
    BY <1>2, <2>1, <2>2, <2>3, <2>4, <2>5 DEF Proceed
<1>3. CASE OperationFails(c) \/ Interrupt(c)
  BY <1>3, OperationFailsStep, InterruptStep
<1> QED
  BY <1>1, <1>2, <1>3

\* The worker is at rest while controllers work.
LEMMA ControllersKeep ==
    ASSUME CampaignInv, WorkerInv, ControllerNext, UNCHANGED workerVars
    PROVE CampaignInv' /\ WorkerInv'
<1>1. /\ UNCHANGED <<late, worker, seen, retryIncomplete, localVars, processVars, uploaded,
                     remoteVars, request>>
      /\ WorkerTypes /\ request \in 0 .. 2
  BY DEF workerVars, localVars, processVars, remoteVars, WorkerInv, WorkerTypes
<1>2. WorkerTypes'
  BY <1>1 DEF WorkerTypes, localVars, processVars, remoteVars
<1>3. ASSUME NEW c \in Names, DataStep(c)
      PROVE Exists(<<"os", "failed">>)' => Exists(<<"os", "failed">>)
  <2>1. c # "os"
    BY ProtocolNames DEF Names
  <2> QED
    BY <1>3, <2>1 DEF DataStep, Fresh, Exists
<1>4. CASE \E c \in Controllers :
              \/ \E retryFailed \in BOOLEAN : Start(c, retryFailed)
              \/ Proceed(c) \/ OperationFails(c) \/ Interrupt(c)
  <2>1. PICK c \in Controllers : Step(c)
    BY <1>4, ControllerAction
  <2>2. c \in Names /\ deployment # "os"
    BY ControllerFacts DEF CampaignInv
  <2>3. DataStep(c) /\ ControlStep(c) /\ LayoutStep(c)
    BY <2>1 DEF Step
  <2>4. LayoutInv'
    BY <2>3, LayoutStepInv DEF CampaignInv
  <2>5. CampaignInv'
    BY <1>2, <2>1, <2>2, <2>4, CampaignStep
  <2>6. deployment' = deployment
    BY <2>3 DEF DataStep
  <2>7. WorkerInv'
    BY <1>1, <1>3, <2>2, <2>3, <2>6, WorkerRests
  <2> QED
    BY <2>5, <2>7
<1>5. CASE \E job \in Jobs : Answer(job) \/ RetryAnalysis(job)
  <2>1. PICK job \in Jobs : Answer(job) \/ RetryAnalysis(job)
    BY <1>5
  <2>2. "site" \in Names
    BY DEF Names
  <2>3. /\ Step("site")
        /\ UNCHANGED <<deployment, objects, campaign, phase>>
    BY <2>1, <2>2, AnalysisStep
  <2>4. LayoutInv'
    BY <2>3 DEF CampaignInv, LayoutInv, Controllers, Exists
  <2>5. CampaignInv'
    BY <1>2, <2>2, <2>3, <2>4, CampaignStep
  <2>6. Exists(<<"os", "failed">>)' => Exists(<<"os", "failed">>)
    BY <2>3 DEF Exists
  <2>7. WorkerInv'
    BY <1>1, <2>3, <2>6, WorkerRests
  <2> QED
    BY <2>5, <2>7
<1> QED
  BY <1>4, <1>5 DEF ControllerNext

\* What the worker and those who ask for its scan do to the store.
WorkerDataStep ==
    /\ DataStep("os") /\ deployment' = deployment /\ campaign' = campaign /\ (Fault \/ NoFault)

\* It leaves the store alone or adds one object.
LEMMA WorkerSameData ==
    ASSUME UNCHANGED <<deployment, objects, campaign>>, Fault \/ NoFault, UNCHANGED controllerVars
    PROVE WorkerDataStep
BY SameData DEF WorkerDataStep, controllerVars

LEMMA WorkerOneMore ==
    ASSUME UNCHANGED <<deployment, campaign>>, Fault \/ NoFault, UNCHANGED controllerVars,
           NEW name, Fresh("os", name), objects' = objects \cup {name}
    PROVE WorkerDataStep
<1>1. measured \subseteq measured' /\ UNCHANGED <<deployment, answers>>
  BY DEF controllerVars
<1>2. DataStep("os")
  BY <1>1, OneMore
<1> QED
  BY <1>2 DEF WorkerDataStep

\* Each of its actions is one of these, or takes its failure back.
LEMMA WorkerData ==
    ASSUME OSNext, UNCHANGED controllerVars
    PROVE WorkerDataStep
<1>1. CASE RequestOSEnrichment
  BY <1>1, WorkerObjects, WorkerOneMore DEF RequestOSEnrichment, Immutable, NoFault
<1>2. CASE PublishScanRequest \/ ReplaceScanRequest
  BY <1>2, WorkerSameData DEF PublishScanRequest, ReplaceScanRequest
<1>3. CASE \E retry, incomplete \in BOOLEAN : StartWorker(retry, incomplete)
  BY <1>3, WorkerSameData DEF StartWorker
<1>4. CASE RetryOSFailure
  <2>1. UNCHANGED <<deployment, campaign, faults>>
    BY <1>4 DEF RetryOSFailure
  <2>2. objects' = objects \/ objects' = objects \ {<<"os", "failed">>}
    BY <1>4 DEF RetryOSFailure, RetryScanFailure
  <2>3. DataStep("os")
    BY <2>1, <2>2 DEF DataStep, controllerVars
  <2> QED
    BY <2>1, <2>3 DEF WorkerDataStep, NoFault
<1>5. CASE PollRequest
  <2>1. UNCHANGED <<deployment, campaign>> /\ NoFault
    BY <1>5 DEF PollRequest, NoFault
  <2>2. objects' = objects \/ objects' = objects \cup {<<"os", "not-requested">>}
    BY <1>5 DEF PollRequest, Immutable
  <2> QED
    BY <2>1, <2>2, WorkerObjects, WorkerOneMore, WorkerSameData
<1>6. CASE PollEnrichment
  <2>1. UNCHANGED <<deployment, campaign>> /\ NoFault
    BY <1>6 DEF PollEnrichment, NoFault
  <2>2. objects' = objects \/ objects' = objects \cup {<<"os", "running", request>>}
    BY <1>6 DEF PollEnrichment, Immutable, Started
  <2> QED
    BY <2>1, <2>2, WorkerObjects, WorkerOneMore, WorkerSameData
<1>7. CASE Pin \/ PlanScan \/ StatComplete \/ StatOutput
  BY <1>7, WorkerSameData DEF Pin, PlanScan, StatComplete, StatOutput, storeVars, NoFault
<1>8. CASE Launch \/ ScanReturns \/ PutFile \/ PublishDone
  BY <1>8, WorkerSameData DEF Launch, ScanReturns, PutFile, PublishDone, storeVars, NoFault
<1>9. CASE StatTarget \/ CheckTarget
  BY <1>9, WorkerSameData DEF StatTarget, CheckTarget, GetFile, RefetchTarget, NoFault
<1>10. CASE PublishOSFailure
  <2>1. UNCHANGED <<deployment, campaign>> /\ (Fault \/ NoFault)
    BY <1>10 DEF PublishOSFailure
  <2>2. objects' = objects \/ objects' = objects \cup {<<"os", "failed">>}
    BY <1>10 DEF PublishOSFailure, Immutable
  <2> QED
    BY <2>1, <2>2, WorkerObjects, WorkerOneMore, WorkerSameData
<1>11. CASE WorkerFails \/ StopWorker
  BY <1>11, WorkerSameData DEF WorkerFails, StopWorker
<1>12. CASE \E k \in Scans : ScanProcess(k)
  BY <1>12, WorkerSameData DEF ScanProcess, CreateOutput, EndScan, storeVars, NoFault
<1> QED
  BY <1>1, <1>2, <1>3, <1>4, <1>5, <1>6, <1>7, <1>8, <1>9, <1>10, <1>11, <1>12
     DEF OSNext, Work

\* Every action preserves what is said of the worker.
LEMMA WorkerAction ==
    ASSUME WorkerInv, deployment = "os", OSNext
    PROVE WorkerInv'
<1>1. CASE RequestOSEnrichment \/ PublishScanRequest \/ ReplaceScanRequest
  BY <1>1, RequestActions
<1>2. CASE \E retry, incomplete \in BOOLEAN : StartWorker(retry, incomplete)
  BY <1>2, StartWorkerInv
<1>3. CASE Work
  <2>1. CASE RetryOSFailure \/ PollRequest \/ PollEnrichment \/ Pin \/ StatTarget
    BY <2>1, RetryOSFailureInv, PollRequestInv, PollEnrichmentInv, PinInv, StatTargetInv
  <2>2. CASE CheckTarget \/ PlanScan \/ StatComplete \/ StatOutput \/ Launch
    BY <2>2, CheckTargetInv, PlanScanInv, StatCompleteInv, StatOutputInv, LaunchInv
  <2>3. CASE ScanReturns \/ PutFile \/ PublishDone \/ PublishOSFailure
    BY <2>3, ScanReturnsInv, PutFileInv, PublishDoneInv, PublishOSFailureInv
  <2> QED
    BY <1>3, <2>1, <2>2, <2>3 DEF Work
<1>4. CASE WorkerFails \/ StopWorker
  BY <1>4, WorkerFailsInv, StopWorkerInv
<1>5. CASE \E k \in Scans : ScanProcess(k)
  BY <1>5, CreateOutputInv, EndScanInv DEF ScanProcess
<1> QED
  BY <1>1, <1>2, <1>3, <1>4, <1>5 DEF OSNext

\* No controller works on a campaign while its worker does.
LEMMA WorkerKeeps ==
    ASSUME CampaignInv, WorkerInv, deployment = "os", OSNext, UNCHANGED controllerVars
    PROVE CampaignInv' /\ WorkerInv'
<1>1. WorkerInv'
  BY WorkerAction
<1>2. DataStep("os") /\ deployment' = deployment /\ campaign' = campaign /\ (Fault \/ NoFault)
  BY WorkerData DEF WorkerDataStep
<1>3. UNCHANGED <<phase, at, retrying, skipOS, measured, local, remaining, answers, raced>>
  BY DEF controllerVars
<1>4. ControllerTypes'
  BY <1>2, <1>3, FaultFacts DEF CampaignInv, ControllerTypes
<1>5. TypeOK' /\ DataType'
  BY <1>1, <1>4, Types DEF WorkerInv
<1>6. PublishedBacked' /\ FinalComplete' /\ VerifiedTargets'
  BY <1>2, <1>3, PublishedBackedStep, FinalStep
     DEF CampaignInv, PublishedSound, VerifiedTargets
<1>7. FlowInv' /\ OneLayout'
  BY <1>2, FlowStep, OneLayoutStep DEF CampaignInv
<1>8. ReadyInv'
  BY <1>3 DEF CampaignInv, ReadyInv
<1>9. Controllers' = {}
  BY <1>2 DEF Controllers
<1>10. ProgressInv' /\ LayoutInv' /\ PolicyInv'
  BY <1>9 DEF ProgressInv, LayoutInv, PolicyInv
<1> QED
  BY <1>1, <1>4, <1>5, <1>6, <1>7, <1>8, <1>10 DEF CampaignInv, PublishedSound

-----------------------------------------------------------------------------
(* The inductive invariant *)

\* What holds of the controllers and the store, and what of the worker.
IInv == CampaignInv /\ WorkerInv

\* A campaign starts empty, or after one with the other layout.
LEMMA InitInvariant == Init => IInv
<1> SUFFICES ASSUME Init PROVE IInv
  OBVIOUS
<1>1. \A c \in Names : Len(Programs[c]) \in Nat \ {0}
  BY ProgramFacts
<1>2. /\ deployment \in Deployments /\ faults = 0 /\ MaxFaults[deployment] \in Nat
      /\ ControllerInit /\ OSInit
  BY CampaignStoreAssumption DEF Init
<1>3. \/ objects = {}
      \/ /\ deployment = "site" /\ objects = {<<"parallel">>}
      \/ /\ deployment = "parallel" /\ objects = {<<"site", "discovery">>}
  BY DEF Init, EarlierLayout, Deployments
<1>4. campaign \in {"absent", "enabled", "disabled"}
  BY DEF Init, EarlierLayout
<1>5. ControllerTypes
  <2>1. phase \in [Names -> Phases] /\ retrying \in [Names -> BOOLEAN]
        /\ skipOS \in [Names -> BOOLEAN] /\ answers \in [Jobs -> {"none", "done", "failed"}]
    BY <1>2 DEF ControllerInit, Phases
  <2>2. at \in [Names -> Nat] /\ \A c \in Names : at[c] \in 1 .. Len(Programs[c])
    BY <1>1, <1>2 DEF ControllerInit
  <2> QED
    BY <1>2, <1>4, <2>1, <2>2 DEF ControllerTypes, ControllerInit
<1>6. WorkerTypes
  BY <1>2, WorkerConstants DEF WorkerTypes, OSInit
<1>7. ASSUME NEW a, NEW b, b # "discovery" PROVE ~Exists(<<a, b>>)
  BY <1>3, <1>7, NamesDiffer DEF Exists
<1>8. PublishedSound
  <2>1. PublishedBacked
    <3> SUFFICES ASSUME NEW name \in objects PROVE Backing(name) \subseteq measured
      BY DEF PublishedBacked
    <3>1. CASE name = <<"parallel">>
      BY <3>1, BackingOfOthers
    <3>2. CASE name = <<"site", "discovery">>
      <4>1. Backing(name) = {<<p, "zmap">> : p \in Protocols}
        BY <3>2, BackingOfSite
      <4>2. measured = {<<p, "zmap">> : p \in Protocols}
        BY <1>2, <3>2 DEF ControllerInit, Exists
      <4> QED
        BY <4>1, <4>2
    <3> QED
      BY <1>3, <3>1, <3>2
  <2>2. FinalComplete
    BY <1>7 DEF FinalComplete
  <2>3. VerifiedTargets
    BY <1>2 DEF VerifiedTargets, ControllerInit
  <2> QED
    BY <2>1, <2>2, <2>3 DEF PublishedSound
<1>9. \A c \in Names : phase[c] = "down"
  BY <1>2 DEF ControllerInit
<1>10. FlowInv /\ ReadyInv /\ ProgressInv /\ LayoutInv /\ PolicyInv
  <2>1. FlowInv
    BY <1>7 DEF FlowInv
  <2>2. Protocols \ remaining = {}
    BY <1>2 DEF ControllerInit
  <2>3. \A c \in Controllers : phase[c] = "down"
    BY <1>2, <1>5, <1>9 DEF Controllers, Names
  <2> QED
    BY <2>1, <2>2, <2>3 DEF ReadyInv, ProgressInv, LayoutInv, PolicyInv, Active
<1>11. OneLayout
  BY <1>3, NamesDiffer DEF OneLayout, Exists
<1>12. RequestInv /\ AttemptInv /\ OrphanInv /\ UploadInv
  BY <1>2, WorkerConstants DEF OSInit, RequestInv, AttemptInv, OrphanInv, UploadInv, Working, At
<1>13. OSDoneDurable /\ OneVerdict /\ NoOSWithoutRequest /\ ClosedKept
  BY <1>2, <1>7, WorkerConstants
     DEF OSInit, OSDoneDurable, OneVerdict, NoOSWithoutRequest, ClosedKept
<1> QED
  BY <1>5, <1>6, <1>8, <1>10, <1>11, <1>12, <1>13, Types DEF IInv, CampaignInv, WorkerInv

\* Steps that change nothing.
LEMMA StutterInvariant == ASSUME IInv, UNCHANGED vars PROVE IInv'
<1>1. UNCHANGED <<storeVars, controllerVars>> /\ UNCHANGED workerVars
  BY DEF vars
<1>2. /\ UNCHANGED <<deployment, objects, campaign, faults>>
      /\ UNCHANGED <<phase, at, retrying, skipOS, measured, local, remaining, answers, raced>>
  BY <1>1 DEF storeVars, controllerVars
<1>3. CampaignInv /\ WorkerInv
  BY DEF IInv
<1>4. WorkerTypes'
  BY <1>1, <1>3 DEF workerVars, WorkerInv, WorkerTypes
<1>5. ControllerTypes'
  BY <1>2, <1>3 DEF CampaignInv, ControllerTypes
<1>6. WorkerInv'
  <2>1. /\ UNCHANGED <<late, worker, seen, retryIncomplete, localVars, processVars, uploaded,
                       remoteVars>>
        /\ request' \in 0 .. 2
    BY <1>1, <1>4 DEF workerVars, localVars, processVars, remoteVars, WorkerTypes
  <2>2. Exists(<<"os", "failed">>)' => Exists(<<"os", "failed">>)
    BY <1>2 DEF Exists
  <2> QED
    BY <1>2, <1>3, <2>1, <2>2, WorkerRests
<1>7. \A c : DataStep(c)
  BY <1>2, SameData
<1>8. PublishedBacked' /\ FinalComplete' /\ VerifiedTargets'
  BY <1>2, <1>3, <1>7, PublishedBackedStep, FinalStep
     DEF CampaignInv, PublishedSound, VerifiedTargets
<1>9. FlowInv' /\ OneLayout' /\ ReadyInv'
  BY <1>2, <1>3, <1>7, FlowStep, OneLayoutStep DEF CampaignInv, ReadyInv
<1>10. "site" \in Names /\ ControlStep("site") /\ PolicyStep("site")
  BY <1>2 DEF Names, ControlStep, Active, PolicyStep
<1>11. ProgressInv' /\ PolicyInv'
  BY <1>3, <1>4, <1>5, <1>7, <1>10, Types, ProgressStep, PolicyStepInv DEF CampaignInv
<1>12. LayoutInv'
  BY <1>2, <1>3 DEF CampaignInv, LayoutInv, Controllers, Exists
<1> QED
  BY <1>4, <1>5, <1>6, <1>8, <1>9, <1>11, <1>12, Types DEF IInv, CampaignInv, PublishedSound

\* A step is of a controller, of the analysis, or of the worker.
LEMMA StepInvariant == IInv /\ [Next]_vars => IInv'
<1> SUFFICES ASSUME IInv, [Next]_vars PROVE IInv'
  OBVIOUS
<1>1. CASE ControllerNext /\ UNCHANGED workerVars
  BY <1>1, ControllersKeep DEF IInv
<1>2. CASE deployment = "os" /\ OSNext /\ UNCHANGED controllerVars
  BY <1>2, WorkerKeeps DEF IInv
<1>3. CASE UNCHANGED vars
  BY <1>3, StutterInvariant
<1> QED
  BY <1>1, <1>2, <1>3 DEF Next

-----------------------------------------------------------------------------
(* The theorems *)

\* The invariant is inductive: a run of a controller is at an operation only with the
\* effects of all the operations before it (Run, runProtocol), and the worker at a point of
\* runOSScan only with a pinned request, a planned attempt and no verdict.
THEOREM InductiveInvariant == Spec => []IInv
BY InitInvariant, StepInvariant, PTL DEF Spec

\* Whatever the site has published stands on committed measurements, and its final request
\* on every part of the site, for any protocols, repeats and groups (publishJSON, Immutable).
THEOREM PublishedSoundTheorem == Spec => []PublishedSound
<1>1. IInv => PublishedSound
  BY DEF IInv, CampaignInv
<1> QED
  BY <1>1, InductiveInvariant, PTL

\* The controllers of a campaign agree on its layout and, but for two that put campaign.json
\* at once, on its OS policy (Prepare).
THEOREM CampaignAgreedTheorem == Spec => []CampaignAgreed
<1>1. IInv => CampaignAgreed
  <2> SUFFICES ASSUME IInv PROVE PolicyAgreed
    BY DEF IInv, CampaignInv, CampaignAgreed
  <2> SUFFICES ASSUME ~raced,
                      NEW c \in Controllers, phase[c] \in {"admit", "running", "polling"},
                      NEW d \in Controllers, phase[d] \in {"admit", "running", "polling"}
               PROVE skipOS[c] = skipOS[d]
    BY DEF PolicyAgreed
  <2>1. campaign = Own(c) /\ campaign = Own(d)
    BY DEF IInv, CampaignInv, PolicyInv
  <2>2. skipOS[c] \in BOOLEAN /\ skipOS[d] \in BOOLEAN
    BY ControllerFacts DEF IInv, CampaignInv, DataType
  <2>3. (skipOS[c] <=> Own(c) = "disabled") /\ (skipOS[d] <=> Own(d) = "disabled")
    BY DEF Own
  <2> QED
    BY <2>1, <2>2, <2>3
<1> QED
  BY <1>1, InductiveInvariant, PTL

\* The OS job gets one verdict, on a scan of the requested targets whose files are all in
\* the store, and no closed scan is thrown away (runOSScan, PublishOSFailure).
THEOREM OSVerdictSoundTheorem == Spec => []OSVerdictSound
<1>1. IInv => OSVerdictSound
  BY DEF IInv, WorkerInv, OSVerdictSound
<1> QED
  BY <1>1, InductiveInvariant, PTL

\* With a failure recorded a controller goes on to no further operation (runProtocol, whose
\* first lines refuse it).
THEOREM FailureHoldsTheorem == Spec => FailureHolds
<1> DEFINE Held ==
        \A c \in Controllers :
            Exists(<<c, "failed">>) /\ Exists(<<c, "failed">>)' =>
                at'[c] <= at[c] \/ phase[c] # "running"
<1>1. IInv => Held
  BY DEF IInv, CampaignInv, ProgressInv, Active
<1>2. IInv /\ [Next]_vars => [Held]_vars
  BY <1>1
<1> QED
  BY <1>2, InductiveInvariant, PTL DEF Spec, FailureHolds
==============================================================================
