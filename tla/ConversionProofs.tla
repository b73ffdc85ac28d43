-------------------------- MODULE ConversionProofs --------------------------
(***************************************************************************)
(* The conversions, for every input: every invariant of Conversions is a   *)
(* theorem of ConvSpec, whatever the bounds, for texts of any length.      *)
(*                                                                         *)
(* The induction over the data is over sets: SetInduction is the least     *)
(* member of what is left of Nat, and SeqInduction follows from it.  With  *)
(* them FlattenSeq and FoldLeft, which Conversions uses for every loop of  *)
(* the code, are shown to go one element at a time (FlattenAppend, and a   *)
(* ...Fold lemma for each step function); then each conversion is proved   *)
(* by an invariant of its loop, which is the lemma before its theorem.     *)
(***************************************************************************)
EXTENDS Conversions, SequenceTheorems, FiniteSetTheorems, WellFoundedInduction, TLAPS

-----------------------------------------------------------------------------
(* Induction, sequences, and FlattenSeq. *)

(* Induction over a set: what 0 and every successor are in holds all       *)
(* numbers.                                                                *)
LEMMA SetInduction ==
  ASSUME NEW S, 0 \in S, \A n \in Nat : n \in S => n + 1 \in S
  PROVE  Nat \subseteq S
<1> DEFINE T == Nat \ S
<1>1. SUFFICES ASSUME T # {} PROVE FALSE
  OBVIOUS
<1>2. PICK x \in T : \A y \in T : ~(<<y, x>> \in OpToRel(<, Nat))
  BY <1>1, NatLessThanWellFounded, WFMin, Zenon
<1>3. x \in Nat /\ x # 0
  OBVIOUS
<1>4. x - 1 \in Nat /\ (x - 1) + 1 = x /\ x - 1 < x
  BY <1>3
<1>5. x - 1 \in T
  BY <1>3, <1>4
<1>6. QED
  BY <1>2, <1>4, <1>5 DEF OpToRel

(* A function on 0 .. n that goes on from base by steps.                   *)
Runs(f, S, base, step, n) ==
  f \in [0 .. n -> S] /\ f[0] = base /\ \A k \in 1 .. n : f[k] = step[k][f[k - 1]]

(* A loop of n steps has a run, whatever its steps do.                     *)
LEMMA RunsExist ==
  ASSUME NEW S, NEW base \in S, NEW n \in Nat, NEW step \in [1 .. n -> [S -> S]]
  PROVE  \E f : Runs(f, S, base, step, n)
<1> DEFINE Q == {m \in Nat : m <= n => \E f : Runs(f, S, base, step, m)}
<1>1. 0 \in Q
  <2> DEFINE f == [k \in 0 .. 0 |-> base]
  <2>1. Runs(f, S, base, step, 0)
    BY DEF Runs
  <2>2. QED
    BY <2>1
<1>2. ASSUME NEW m \in Nat, m \in Q PROVE m + 1 \in Q
  <2>1. SUFFICES ASSUME m + 1 <= n PROVE \E f : Runs(f, S, base, step, m + 1)
    OBVIOUS
  <2>2. PICK f : Runs(f, S, base, step, m)
    BY <1>2, <2>1
  <2> DEFINE g == [k \in 0 .. m + 1 |-> IF k = m + 1 THEN step[m + 1][f[m]] ELSE f[k]]
  <2>3. f[m] \in S /\ step[m + 1][f[m]] \in S
    BY <2>1, <2>2 DEF Runs
  <2>4. g \in [0 .. m + 1 -> S] /\ g[0] = base
    BY <2>2, <2>3 DEF Runs
  <2>5. ASSUME NEW k \in 1 .. m + 1 PROVE g[k] = step[k][g[k - 1]]
    <3>1. CASE k = m + 1
      BY <3>1
    <3>2. CASE k # m + 1
      <4>1. k \in 1 .. m /\ k - 1 \in 0 .. m + 1 /\ k - 1 # m + 1
        BY <3>2
      <4>2. QED
        BY <2>2, <3>2, <4>1 DEF Runs
    <3>3. QED
      BY <3>1, <3>2
  <2> HIDE DEF g
  <2>6. Runs(g, S, base, step, m + 1)
    BY <2>4, <2>5 DEF Runs
  <2>7. QED
    BY <2>6
<1>3. Nat \subseteq Q
  BY <1>1, <1>2, SetInduction
<1>4. n \in Q
  BY <1>3
<1>5. QED
  BY <1>4

-----------------------------------------------------------------------------
(* Flattened sequences. *)

(* The prefixes of a sequence, flattened.                                  *)
Flattening(f, T, s) ==
  /\ f \in [0 .. Len(s) -> Seq(T)] /\ f[0] = <<>>
  /\ \A k \in 1 .. Len(s) : f[k] = f[k - 1] \o s[k]

(* What a sequence over T is, for provers that do not unfold Seq.          *)
LEMMA SeqFacts ==
  ASSUME NEW T, NEW s \in Seq(T)
  PROVE  Len(s) \in Nat /\ DOMAIN s = 1 .. Len(s) /\ s \in [1 .. Len(s) -> T]
         /\ \A k \in 1 .. Len(s) : s[k] \in T
BY LenProperties, ElementOfSeq

(* The pieces of a sequence can be joined one after another.               *)
LEMMA FlatteningExists ==
  ASSUME NEW T, NEW s \in Seq(Seq(T))
  PROVE  \E f : Flattening(f, T, s)
<1> DEFINE n == Len(s)
           step == [k \in 1 .. n |-> [t \in Seq(T) |-> t \o s[k]]]
<1>1. n \in Nat /\ \A k \in 1 .. n : s[k] \in Seq(T)
  BY SeqFacts
<1>2. <<>> \in Seq(T)
  BY EmptySeq
<1>3. step \in [1 .. n -> [Seq(T) -> Seq(T)]]
  BY <1>1, ConcatProperties
<1>4. PICK f : Runs(f, Seq(T), <<>>, step, n)
  <2> HIDE DEF n, step
  <2>1. QED
    BY <1>1, <1>2, <1>3, RunsExist
<1>5. ASSUME NEW k \in 1 .. n PROVE f[k] = f[k - 1] \o s[k]
  <2>1. f[k - 1] \in Seq(T)
    <3> HIDE DEF step, n
    <3>1. k - 1 \in 0 .. n
      BY <1>1
    <3>2. QED
      BY <1>4, <3>1 DEF Runs
  <2>2. f[k] = step[k][f[k - 1]]
    <3> HIDE DEF step
    <3>1. QED
      BY <1>4 DEF Runs
  <2>3. QED
    BY <2>1, <2>2
<1>6. QED
  BY <1>4, <1>5 DEF Runs, Flattening

(* FlattenSeq is where such a joining ends, and it has only one end.       *)
LEMMA FlatteningEnds ==
  ASSUME NEW T, NEW s \in Seq(Seq(T)), NEW f, Flattening(f, T, s)
  PROVE  FlattenSeq(s) = f[Len(s)]
<1>f. f[0] = <<>> /\ \A i \in 1 .. Len(s) : f[i] = f[i - 1] \o s[i]
  BY DEF Flattening
<1>n. Len(s) \in Nat /\ \A k \in 1 .. Len(s) : s[k] \in Seq(T)
  BY SeqFacts
<1> DEFINE n == Len(s)
           Flat(h) == [i \in 1 .. n |-> IF i = 1 THEN s[i] ELSE h[i - 1] \o s[i]]
           g == CHOOSE h : h = Flat(h)
<1>1. n \in Nat /\ \A k \in 1 .. n : s[k] \in Seq(T)
  BY SeqFacts
<1>2. CASE n = 0
  <2>1. s = <<>>
    BY <1>2, EmptySeq
  <2>2. QED
    BY <1>2, <2>1 DEF FlattenSeq, Flattening
<1>3. CASE n # 0
  <2> DEFINE h == [i \in 1 .. n |-> f[i]]
  <2>1. h = Flat(h)
    <3>1. ASSUME NEW i \in 1 .. n PROVE f[i] = IF i = 1 THEN s[i] ELSE h[i - 1] \o s[i]
      <4>1. CASE i = 1
        <5>1. f[i] = f[i - 1] \o s[i]
          BY <1>f, Zenon
        <5>2. i - 1 = 0 /\ s[i] \in Seq(T)
          BY <1>1, <4>1
        <5>3. QED
          BY <1>f, <4>1, <5>1, <5>2, ConcatEmptySeq
      <4>2. CASE i # 1
        <5>1. f[i] = f[i - 1] \o s[i]
          BY <1>f, Zenon
        <5>2. i - 1 \in 1 .. n
          BY <1>1, <4>2, SMTT(40)
        <5>3. QED
          BY <4>2, <5>1, <5>2
      <4>3. QED
        BY <4>1, <4>2
    <3>2. QED
      BY <3>1, Zenon
  <2>2. g = Flat(g)
    BY <2>1, Zenon
  <2>3. FlattenSeq(s) = g[n]
    BY <1>3 DEF FlattenSeq
  <2> HIDE DEF g
  <2>g. \A i \in 1 .. n : g[i] = IF i = 1 THEN s[i] ELSE g[i - 1] \o s[i]
    BY <2>2, Zenon
  <2>h. \A i \in 1 .. n : f[i] = IF i = 1 THEN s[i] ELSE f[i - 1] \o s[i]
    <3>1. ASSUME NEW i \in 1 .. n PROVE f[i] = IF i = 1 THEN s[i] ELSE h[i - 1] \o s[i]
      BY <2>1, Zenon
    <3>2. ASSUME NEW i \in 1 .. n, i # 1 PROVE i - 1 \in 1 .. n
      BY <1>1, <3>2
    <3>3. QED
      BY <3>1, <3>2
  <2> DEFINE Q == {m \in Nat : m + 1 \in 1 .. n => g[m + 1] = f[m + 1]}
  <2>4. 0 \in Q
    BY <2>g, <2>h
  <2>5. ASSUME NEW m \in Nat, m \in Q PROVE m + 1 \in Q
    <3>1. SUFFICES ASSUME m + 2 \in 1 .. n PROVE g[m + 2] = f[m + 2]
      BY SMT
    <3>2. m + 1 \in 1 .. n /\ m + 2 # 1 /\ (m + 2) - 1 = m + 1
      BY <1>1, <3>1
    <3>3. g[m + 1] = f[m + 1]
      BY <2>5, <3>2
    <3>4. QED
      BY <2>g, <2>h, <3>1, <3>2, <3>3
  <2>6. Nat \subseteq Q
    BY <2>4, <2>5, SetInduction
  <2>7. n - 1 \in Nat /\ (n - 1) + 1 = n
    BY <1>1, <1>3
  <2>8. n - 1 \in Q
    BY <2>6, <2>7
  <2>9. QED
    BY <1>1, <1>3, <2>3, <2>7, <2>8
<1>4. QED
  BY <1>2, <1>3

(* It passes through what FlattenSeq makes of every prefix.                *)
LEMMA FlattenPrefix ==
  ASSUME NEW T, NEW s \in Seq(Seq(T)), NEW f, Flattening(f, T, s), NEW m \in 0 .. Len(s)
  PROVE  FlattenSeq(SubSeq(s, 1, m)) = f[m]
<1> DEFINE u == SubSeq(s, 1, m)
           g == [k \in 0 .. m |-> f[k]]
<1>1. Len(s) \in Nat /\ m \in Nat
  BY SeqFacts
<1>2. /\ u \in Seq(Seq(T)) /\ Len(u) = m
      /\ \A k \in 1 .. m : u[k] = s[k]
  <2>1. \A k \in 1 .. m : s[k] \in Seq(T)
    BY <1>1, SeqFacts
  <2>2. QED
    BY <1>1, <2>1, SubSeqProperties
<1>3. /\ f \in [0 .. Len(s) -> Seq(T)] /\ f[0] = <<>>
      /\ \A k \in 1 .. Len(s) : f[k] = f[k - 1] \o s[k]
  BY DEF Flattening
<1>4. g \in [0 .. m -> Seq(T)] /\ g[0] = <<>>
  BY <1>1, <1>3
<1>5. ASSUME NEW k \in 1 .. m PROVE g[k] = g[k - 1] \o u[k]
  <2>1. k \in 1 .. Len(s) /\ k - 1 \in 0 .. m /\ k \in 0 .. m
    BY <1>1
  <2>2. f[k] = f[k - 1] \o s[k]
    BY <1>3, <2>1, Zenon
  <2>3. u[k] = s[k]
    BY <1>2
  <2> HIDE DEF u
  <2>4. QED
    BY <2>1, <2>2, <2>3, Zenon
<1> HIDE DEF u, g
<1>6. Flattening(g, T, u)
  BY <1>2, <1>4, <1>5 DEF Flattening
<1>7. FlattenSeq(u) = g[m]
  BY <1>2, <1>6, FlatteningEnds
<1>8. QED
  BY <1>1, <1>7 DEF u, g

(* Where the parts of a sequence are once it is flattened: the k-th ends   *)
(* at at[k].                                                               *)
Places(at, s) ==
  /\ at \in [0 .. Len(s) -> Nat] /\ at[0] = 0 /\ at[Len(s)] = Len(FlattenSeq(s))
  /\ \A k \in 0 .. Len(s) : at[k] <= at[Len(s)]
  /\ \A k \in 1 .. Len(s) : at[k] = at[k - 1] + Len(s[k])
  /\ \A k \in 1 .. Len(s) : \A j \in 1 .. Len(s[k]) : FlattenSeq(s)[at[k - 1] + j] = s[k][j]

(* A function on 1 .. n is a sequence.                                     *)
LEMMA MadeSeq ==
  ASSUME NEW S, NEW n \in Nat, NEW f \in [1 .. n -> S]
  PROVE  f \in Seq(S) /\ Len(f) = n
BY SeqDef, LenProperties

(* Every piece of a sequence has its place in what FlattenSeq makes of it. *)
LEMMA PlacesExist ==
  ASSUME NEW T, NEW s \in Seq(Seq(T))
  PROVE  /\ FlattenSeq(s) \in Seq(T)
         /\ \E at : /\ Places(at, s)
                    /\ \A m \in 0 .. Len(s) : at[m] = Len(FlattenSeq(SubSeq(s, 1, m)))
<1>1. PICK f : Flattening(f, T, s)
  BY FlatteningExists
<1> DEFINE n == Len(s)
           at == [k \in 0 .. n |-> Len(f[k])]
<1>2. n \in Nat /\ \A k \in 1 .. n : s[k] \in Seq(T)
  BY SeqFacts
<1>3. /\ f \in [0 .. n -> Seq(T)] /\ f[0] = <<>>
      /\ \A k \in 1 .. n : f[k] = f[k - 1] \o s[k]
  BY <1>1 DEF Flattening
<1>4. FlattenSeq(s) = f[n]
  BY <1>1, FlatteningEnds
<1>5. at \in [0 .. n -> Nat] /\ at[0] = 0
  BY <1>2, <1>3, LenProperties, EmptySeq
<1> HIDE DEF n
<1>6. ASSUME NEW k \in 1 .. n
      PROVE  /\ k - 1 \in 0 .. n /\ f[k - 1] \in Seq(T) /\ f[k] \in Seq(T) /\ s[k] \in Seq(T)
             /\ at[k - 1] = Len(f[k - 1]) /\ at[k - 1] \in Nat /\ Len(s[k]) \in Nat
             /\ at[k] = Len(f[k]) /\ at[k] \in Nat /\ at[k] = at[k - 1] + Len(s[k])
             /\ \A p \in 1 .. at[k] :
                  f[k][p] = IF p <= at[k - 1] THEN f[k - 1][p] ELSE s[k][p - at[k - 1]]
  <2>1. k - 1 \in 0 .. n /\ k \in 0 .. n
    BY <1>2
  <2>2. f[k] = f[k - 1] \o s[k]
    BY <1>3, Zenon
  <2>3. f[k - 1] \in Seq(T) /\ f[k] \in Seq(T) /\ s[k] \in Seq(T)
    BY <1>2, <1>3, <2>1
  <2>4. Len(f[k - 1]) \in Nat /\ Len(f[k]) \in Nat /\ Len(s[k]) \in Nat
    BY <2>3, LenProperties
  <2>5. at[k - 1] = Len(f[k - 1]) /\ at[k] = Len(f[k])
    BY <2>1
  <2> DEFINE a == f[k - 1]
             b == s[k]
  <2>6. /\ Len(a \o b) = Len(a) + Len(b)
        /\ \A p \in 1 .. Len(a) + Len(b) :
             (a \o b)[p] = IF p <= Len(a) THEN a[p] ELSE b[p - Len(a)]
    <3> HIDE DEF a, b
    <3>1. a \in Seq(T) /\ b \in Seq(T)
      BY <2>3 DEF a, b
    <3>2. QED
      BY <3>1, ConcatProperties
  <2>7. QED
    BY <2>1, <2>2, <2>3, <2>4, <2>5, <2>6
<1> HIDE DEF at
<1> DEFINE Q == {m \in Nat : m <= n =>
                   \A k \in 1 .. m : /\ at[k] <= at[m]
                                     /\ \A j \in 1 .. Len(s[k]) : f[m][at[k - 1] + j] = s[k][j]}
<1>7. 0 \in Q
  OBVIOUS
<1>8. ASSUME NEW m \in Nat, m \in Q PROVE m + 1 \in Q
  <2>1. SUFFICES ASSUME m + 1 <= n, NEW k \in 1 .. m + 1
                 PROVE  /\ at[k] <= at[m + 1]
                        /\ \A j \in 1 .. Len(s[k]) : f[m + 1][at[k - 1] + j] = s[k][j]
    OBVIOUS
  <2>2. m + 1 \in 1 .. n /\ (m + 1) - 1 = m /\ k \in 1 .. n /\ m <= n
    BY <1>2, <2>1
  <2>a. /\ at[m] \in Nat /\ at[m + 1] \in Nat /\ Len(s[m + 1]) \in Nat
        /\ at[m + 1] = at[m] + Len(s[m + 1])
        /\ \A p \in 1 .. at[m + 1] :
             f[m + 1][p] = IF p <= at[m] THEN f[m][p] ELSE s[m + 1][p - at[m]]
    BY <1>6, <2>2
  <2>b. at[m] \in Nat /\ at[m + 1] \in Nat /\ at[m] <= at[m + 1]
    BY <2>a
  <2>3. CASE k = m + 1
    <3>1. ASSUME NEW j \in 1 .. Len(s[m + 1]) PROVE f[m + 1][at[m] + j] = s[m + 1][j]
      <4>1. at[m] + j \in 1 .. at[m + 1] /\ ~(at[m] + j <= at[m]) /\ (at[m] + j) - at[m] = j
        BY <2>a, SMTT(40)
      <4>2. QED
        BY <2>a, <4>1
    <3>2. QED
      BY <2>2, <2>3, <2>a, <3>1, SMTT(40)
  <2>4. CASE k \in 1 .. m
    <3>1. /\ at[k] <= at[m]
          /\ \A j \in 1 .. Len(s[k]) : f[m][at[k - 1] + j] = s[k][j]
      BY <1>8, <2>2, <2>4
    <3>2. at[k - 1] \in Nat /\ at[k] \in Nat /\ at[k] = at[k - 1] + Len(s[k]) /\ Len(s[k]) \in Nat
      BY <1>6, <2>2
    <3>3. ASSUME NEW j \in 1 .. Len(s[k]) PROVE f[m + 1][at[k - 1] + j] = s[k][j]
      <4>1. at[k - 1] + j \in Nat /\ at[k - 1] + j >= 1 /\ at[k - 1] + j <= at[m]
        <5> DEFINE a == at[k - 1]
                   b == Len(s[k])
        <5>1. a \in Nat /\ b \in Nat /\ at[k] = a + b /\ at[k] <= at[m] /\ j \in 1 .. b
          BY <3>1, <3>2
        <5> HIDE DEF a, b
        <5>2. a + j \in Nat /\ a + j >= 1 /\ a + j <= at[m]
          BY <2>b, <5>1
        <5>3. QED
          BY <5>2 DEF a
      <4>2. at[k - 1] + j \in 1 .. at[m + 1]
        BY <2>b, <4>1
      <4>3. f[m + 1][at[k - 1] + j] = f[m][at[k - 1] + j]
        BY <2>a, <4>1, <4>2
      <4>4. QED
        BY <3>1, <4>3
    <3>4. at[k] <= at[m + 1]
      BY <2>a, <3>1, <3>2, SMTT(40)
    <3>5. QED
      BY <3>3, <3>4
  <2>5. QED
    BY <2>1, <2>3, <2>4
<1>9. n \in Q
  BY <1>2, <1>7, <1>8, SetInduction
<1>10. Places(at, s)
  <2>1. at[n] = Len(FlattenSeq(s))
    BY <1>2, <1>4 DEF at
  <2>2. ASSUME NEW k \in 0 .. n PROVE at[k] <= at[n]
    <3>1. CASE k = 0
      BY <1>2, <1>5, <3>1
    <3>2. CASE k # 0
      <4>1. k \in 1 .. n
        BY <1>2, <3>2
      <4>2. QED
        BY <1>9, <4>1
    <3>3. QED
      BY <3>1, <3>2
  <2>3. QED
    BY <1>2, <1>4, <1>5, <1>6, <1>9, <2>1, <2>2 DEF Places, n
<1>11. \A m \in 0 .. n : at[m] = Len(FlattenSeq(SubSeq(s, 1, m)))
  BY <1>1, FlattenPrefix DEF n, at
<1>12. FlattenSeq(s) \in Seq(T)
  BY <1>2, <1>3, <1>4
<1>13. QED
  BY <1>10, <1>11, <1>12 DEF n

(* Every place of a flattened sequence is in one of its parts.             *)
InPart(at, s, p) ==
  \E k \in 1 .. Len(s), j \in Nat :
    /\ at[k - 1] \in Nat /\ j \in 1 .. Len(s[k]) /\ p = at[k - 1] + j
    /\ FlattenSeq(s)[p] = s[k][j]

(* Those places leave nothing uncovered.                                   *)
LEMMA PlacesCover ==
  ASSUME NEW T, NEW s \in Seq(Seq(T)), NEW at, Places(at, s),
         NEW p \in 1 .. Len(FlattenSeq(s))
  PROVE  InPart(at, s, p)
<1> DEFINE n == Len(s)
           In(k) == at[k - 1] < p /\ p <= at[k]
           Q == {m \in Nat : m <= n /\ p <= at[m] => \E k \in 1 .. m : In(k)}
<1>1. n \in Nat /\ at \in [0 .. n -> Nat] /\ at[0] = 0 /\ p \in Nat /\ p >= 1 /\ p <= at[n]
  <2>1. FlattenSeq(s) \in Seq(T)
    BY PlacesExist
  <2>2. QED
    BY <2>1, SeqFacts DEF Places
<1>2. 0 \in Q
  BY <1>1
<1>3. ASSUME NEW m \in Nat, m \in Q PROVE m + 1 \in Q
  <2>1. SUFFICES ASSUME m + 1 <= n, p <= at[m + 1] PROVE \E k \in 1 .. m + 1 : In(k)
    OBVIOUS
  <2>a. m \in 0 .. n /\ m + 1 \in 1 .. m + 1 /\ (m + 1) - 1 = m
    BY <1>1, <2>1
  <2>2. m \in 0 .. n /\ at[m] \in Nat /\ m + 1 \in 1 .. m + 1 /\ (m + 1) - 1 = m
    BY <1>1, <2>a
  <2>3. CASE p <= at[m]
    BY <1>3, <2>1, <2>2, <2>3, SMT
  <2>4. CASE ~(p <= at[m])
    <3>1. In(m + 1)
      BY <1>1, <2>1, <2>2, <2>4
    <3>2. QED
      BY <2>2, <3>1
  <2>5. QED
    BY <2>3, <2>4
<1>4. n \in Q
  BY <1>1, <1>2, <1>3, SetInduction
<1>5. PICK k \in 1 .. n : In(k)
  BY <1>1, <1>4
<1>6. /\ at[k - 1] \in Nat /\ Len(s[k]) \in Nat /\ at[k] = at[k - 1] + Len(s[k])
  <2>1. k - 1 \in 0 .. n /\ s[k] \in Seq(T)
    BY <1>1, SeqFacts
  <2>2. QED
    BY <1>1, <2>1, SeqFacts DEF Places
<1>7. p - at[k - 1] \in 1 .. Len(s[k]) /\ p = at[k - 1] + (p - at[k - 1])
  BY <1>1, <1>5, <1>6, SMT
<1>8. FlattenSeq(s)[at[k - 1] + (p - at[k - 1])] = s[k][p - at[k - 1]]
  BY <1>7 DEF Places
<1>9. p - at[k - 1] \in Nat
  BY <1>7
<1>10. QED
  BY <1>6, <1>7, <1>8, <1>9 DEF InPart

(* Pieces of one element: a text of plain characters and its bytes.        *)
LEMMA FlattenOnes ==
  ASSUME NEW T, NEW s \in Seq(Seq(T)), \A k \in 1 .. Len(s) : Len(s[k]) = 1
  PROVE  /\ FlattenSeq(s) \in Seq(T) /\ Len(FlattenSeq(s)) = Len(s)
         /\ \A k \in 1 .. Len(s) : FlattenSeq(s)[k] = s[k][1]
         /\ \A m \in 0 .. Len(s) : Len(FlattenSeq(SubSeq(s, 1, m))) = m
<1>1. PICK at : /\ Places(at, s)
                /\ \A m \in 0 .. Len(s) : at[m] = Len(FlattenSeq(SubSeq(s, 1, m)))
  BY PlacesExist
<1> DEFINE n == Len(s)
           Q == {m \in Nat : m <= n => at[m] = m}
<1>2. n \in Nat
  BY SeqFacts
<1>3. 0 \in Q
  BY <1>1 DEF Places
<1>4. ASSUME NEW m \in Nat, m \in Q PROVE m + 1 \in Q
  <2>1. SUFFICES ASSUME m + 1 <= n PROVE at[m + 1] = m + 1
    OBVIOUS
  <2>2. m + 1 \in 1 .. n /\ m <= n /\ (m + 1) - 1 = m
    BY <1>2, <2>1
  <2>3. at[m + 1] = at[m] + 1
    BY <1>1, <2>2 DEF Places
  <2>4. QED
    BY <1>4, <2>2, <2>3
<1>5. \A m \in 0 .. n : at[m] = m
  <2>1. Nat \subseteq Q
    BY <1>3, <1>4, SetInduction
  <2>2. ASSUME NEW m \in 0 .. n PROVE m \in Q /\ m <= n
    BY <1>2, <2>1
  <2>3. QED
    BY <2>2
<1>6. ASSUME NEW k \in 1 .. n PROVE FlattenSeq(s)[k] = s[k][1]
  <2>a. Len(s[k]) = 1
    OBVIOUS
  <2>1. k - 1 \in 0 .. n /\ (k - 1) + 1 = k /\ 1 \in 1 .. Len(s[k])
    BY <1>2, <2>a
  <2>2. FlattenSeq(s)[at[k - 1] + 1] = s[k][1]
    BY <1>1, <2>1 DEF Places
  <2>3. QED
    BY <1>5, <2>1, <2>2
<1>7. Len(FlattenSeq(s)) = n
  BY <1>1, <1>2, <1>5 DEF Places
<1>8. QED
  BY <1>1, <1>5, <1>6, <1>7, PlacesExist

(* Pieces of two elements: the digits that hex_encode writes.              *)
LEMMA FlattenPairs ==
  ASSUME NEW T, NEW s \in Seq(Seq(T)), \A k \in 1 .. Len(s) : Len(s[k]) = 2
  PROVE  /\ FlattenSeq(s) \in Seq(T) /\ Len(FlattenSeq(s)) = 2 * Len(s)
         /\ \A k \in 1 .. Len(s) : /\ FlattenSeq(s)[2 * k - 1] = s[k][1]
                                   /\ FlattenSeq(s)[2 * k] = s[k][2]
<1>1. PICK at : Places(at, s)
  BY PlacesExist
<1> DEFINE n == Len(s)
           Q == {m \in Nat : m <= n => at[m] = 2 * m}
<1>2. n \in Nat
  BY SeqFacts
<1>3. 0 \in Q
  BY <1>1 DEF Places
<1>4. ASSUME NEW m \in Nat, m \in Q PROVE m + 1 \in Q
  <2>1. SUFFICES ASSUME m + 1 <= n PROVE at[m + 1] = 2 * (m + 1)
    OBVIOUS
  <2>2. m + 1 \in 1 .. n /\ m <= n /\ (m + 1) - 1 = m
    BY <1>2, <2>1
  <2>3. at[m + 1] = at[m] + 2
    BY <1>1, <2>2 DEF Places
  <2>4. QED
    BY <1>4, <2>2, <2>3
<1>5. \A m \in 0 .. n : at[m] = 2 * m
  <2>1. Nat \subseteq Q
    BY <1>3, <1>4, SetInduction
  <2>2. ASSUME NEW m \in 0 .. n PROVE m \in Q /\ m <= n
    BY <1>2, <2>1
  <2>3. QED
    BY <2>2
<1>6. ASSUME NEW k \in 1 .. n
      PROVE  FlattenSeq(s)[2 * k - 1] = s[k][1] /\ FlattenSeq(s)[2 * k] = s[k][2]
  <2>a. Len(s[k]) = 2
    OBVIOUS
  <2>1. k - 1 \in 0 .. n /\ 1 \in 1 .. Len(s[k]) /\ 2 \in 1 .. Len(s[k])
    BY <1>2, <2>a
  <2>2. at[k - 1] + 1 = 2 * k - 1 /\ at[k - 1] + 2 = 2 * k
    <3>1. at[k - 1] = 2 * (k - 1)
      BY <1>5, <2>1
    <3>2. QED
      BY <1>2, <3>1
  <2>3. FlattenSeq(s)[at[k - 1] + 1] = s[k][1] /\ FlattenSeq(s)[at[k - 1] + 2] = s[k][2]
    BY <1>1, <2>1 DEF Places
  <2>4. QED
    BY <2>2, <2>3
<1>7. Len(FlattenSeq(s)) = 2 * n
  <2>1. n \in 0 .. n
    BY <1>2
  <2>2. QED
    BY <1>1, <1>5, <2>1 DEF Places
<1>8. QED
  BY <1>6, <1>7, PlacesExist

(* One piece more is joined at the end: the step of every loop that        *)
(* writes.                                                                 *)
LEMMA FlattenAppend ==
  ASSUME NEW T, NEW s \in Seq(Seq(T)), NEW x \in Seq(T)
  PROVE  FlattenSeq(Append(s, x)) = FlattenSeq(s) \o x
<1> DEFINE u == Append(s, x)
           n == Len(s)
<1>1. n \in Nat /\ u \in Seq(Seq(T)) /\ Len(u) = n + 1 /\ u[n + 1] = x
      /\ SubSeq(u, 1, n) = s
  BY AppendProperties, SeqFacts
<1> HIDE DEF u, n
<1>2. PICK f : Flattening(f, T, u)
  BY <1>1, FlatteningExists
<1>3. FlattenSeq(u) = f[n + 1]
  BY <1>1, <1>2, FlatteningEnds
<1>4. FlattenSeq(s) = f[n]
  <2>1. n \in 0 .. Len(u)
    BY <1>1
  <2>2. FlattenSeq(SubSeq(u, 1, n)) = f[n]
    BY <1>1, <1>2, <2>1, FlattenPrefix
  <2>3. QED
    BY <1>1, <2>2
<1>5. f[n + 1] = f[(n + 1) - 1] \o u[n + 1]
  <2>1. n + 1 \in 1 .. Len(u)
    BY <1>1
  <2>2. QED
    BY <1>2, <2>1, Zenon DEF Flattening
<1>6. (n + 1) - 1 = n
  BY <1>1
<1>7. QED
  BY <1>1, <1>3, <1>4, <1>5, <1>6 DEF u
-----------------------------------------------------------------------------
(* Bundles. *)

Members == [name : STRING, value : [type : STRING, empty : BOOLEAN]]
Holders(members, f) == {k \in DOMAIN members : members[k].name = f}

(* The fields of a bundle are 17 different names.                          *)
LEMMA FieldFacts ==
  /\ Len(Fields) = 17 /\ DOMAIN Fields = 1 .. 17
  /\ \A i, j \in 1 .. 17 : Fields[i] = Fields[j] => i = j
  /\ {"hash", "merkle_root", "token"} \union Optional \subseteq ToSet(Fields)
  /\ ToSet(Fields) = {Fields[i] : i \in 1 .. 17}
<1>1. Len(Fields) = 17 /\ DOMAIN Fields = 1 .. 17
  BY DEF Fields
<1>2. \A i, j \in 1 .. 17 : Fields[i] = Fields[j] => i = j
  BY DEF Fields
<1>3. ToSet(Fields) = {Fields[i] : i \in 1 .. 17}
  BY <1>1 DEF ToSet
<1>4. /\ Fields[2] = "hash" /\ Fields[5] = "merkle_root" /\ Fields[6] = "token"
      /\ Fields[11] = "client_ref" /\ Fields[12] = "description"
      /\ Fields[13] = "merkle_algorithm" /\ Fields[15] = "tree_size"
  BY DEF Fields
<1>5. QED
  BY <1>1, <1>2, <1>3, <1>4 DEF Optional

(* What reading gives, when it gives a bundle.                             *)
LEMMA ReadBundle ==
  ASSUME NEW members \in Seq(Members), from_json(members) # None
  PROVE  /\ from_json(members) =
              [f \in ToSet(Fields) |->
                 IF Holders(members, f) = {} THEN Default(f)
                 ELSE members[Min(Holders(members, f))].value]
         /\ Holders(members, "hash") # {}
         /\ \A f \in ToSet(Fields) :
              /\ \A k \in Holders(members, f) :
                   /\ k = Min(Holders(members, f))
                   /\ \/ members[k].value.type = TypeOf(f)
                      \/ f \in Optional /\ members[k].value = Null
<1> DEFINE given(f) == Holders(members, f)
           Fits(f, v) == v.type = TypeOf(f) \/ (f \in Optional /\ v = Null)
           bad == {f \in ToSet(Fields) : \/ Cardinality(given(f)) > 1
                                        \/ \E k \in given(f) : ~Fits(f, members[k].value)}
<1>1. /\ bad = {} /\ given("hash") # {}
      /\ from_json(members) =
           [f \in ToSet(Fields) |->
              IF given(f) = {} THEN Default(f) ELSE members[Min(given(f))].value]
  BY Zenon DEF from_json, Holders
<1>2. ASSUME NEW f \in ToSet(Fields), NEW k \in given(f)
      PROVE  k = Min(given(f)) /\ Fits(f, members[k].value)
  <2>1. ~(Cardinality(given(f)) > 1) /\ Fits(f, members[k].value)
    BY <1>1
  <2>2. given(f) = {k}
    <3>1. SUFFICES ASSUME NEW j \in given(f), j # k PROVE FALSE
      BY Zenon
    <3>2. given(f) \subseteq 1 .. Len(members) /\ Len(members) \in Nat
      BY SeqFacts DEF Holders
    <3>3. IsFiniteSet(given(f))
      <4>1. IsFiniteSet(1 .. Len(members))
        BY <3>2, FS_Interval
      <4>2. QED
        BY <3>2, <4>1, FS_Subset
    <3>4. {j, k} \subseteq given(f) /\ Cardinality({j, k}) = 2
      <4>1. IsFiniteSet({j}) /\ Cardinality({j}) = 1
        BY FS_Singleton
      <4>2. Cardinality({j} \union {k}) = Cardinality({j}) + 1
        <5>1. k \notin {j}
          BY <3>1
        <5>2. QED
          BY <4>1, <5>1, FS_AddElement
      <4>3. {j} \union {k} = {j, k}
        OBVIOUS
      <4>4. {j, k} \subseteq given(f)
        BY <3>1
      <4>5. Cardinality({j, k}) = 1 + 1
        BY <4>1, <4>2, <4>3, Zenon
      <4>6. 1 + 1 = 2
        OBVIOUS
      <4>7. QED
        BY <4>4, <4>5, <4>6, Zenon
    <3>5. Cardinality({j, k}) <= Cardinality(given(f)) /\ Cardinality(given(f)) \in Nat
      BY <3>3, <3>4, FS_Subset, FS_CardinalityType
    <3>6. QED
      BY <2>1, <3>4, <3>5
  <2>3. k \in Nat
    BY SeqFacts DEF Holders
  <2>4. Min({k}) = k
    BY <2>3 DEF Min
  <2>5. QED
    BY <2>1, <2>2, <2>4
<1>3. QED
  BY <1>1, <1>2

(* What writing gives: one member for each field that is not skipped.      *)
LEMMA WrittenBundle ==
  ASSUME NEW p
  PROVE  /\ to_json(p) \in Seq({[name |-> f, value |-> p[f]] : f \in ToSet(Fields)})
         /\ \A f \in ToSet(Fields) :
              /\ SkipSerializing(p, f) => Holders(to_json(p), f) = {}
              /\ ~SkipSerializing(p, f) =>
                   \E k \in DOMAIN to_json(p) : /\ Holders(to_json(p), f) = {k}
                                                /\ to_json(p)[k] = [name |-> f, value |-> p[f]]
<1> DEFINE Member(f) == [name |-> f, value |-> p[f]]
           T == {Member(f) : f \in ToSet(Fields)}
           s == [i \in 1 .. 17 |->
                   IF SkipSerializing(p, Fields[i]) THEN <<>> ELSE <<Member(Fields[i])>>]
           w == FlattenSeq(s)
<1>1. w = to_json(p)
  BY FieldFacts DEF to_json
<1>2. s \in Seq(Seq(T)) /\ Len(s) = 17
  <2>1. ASSUME NEW i \in 1 .. 17 PROVE s[i] \in Seq(T)
    <3>1. Member(Fields[i]) \in T
      BY FieldFacts
    <3> HIDE DEF T, Member
    <3>2. <<>> \in Seq(T) /\ <<Member(Fields[i])>> \in Seq(T)
      BY <3>1
    <3>3. QED
      BY <3>2
  <2>2. QED
    <3> HIDE DEF T, Member
    <3>1. QED
      BY <2>1, IsASeq, LenProperties
<1>3. ASSUME NEW i \in 1 .. 17
      PROVE  s[i] = IF SkipSerializing(p, Fields[i]) THEN <<>> ELSE <<Member(Fields[i])>>
  OBVIOUS
<1> HIDE DEF s, T, Member
<1>4. PICK at : Places(at, s)
  BY <1>2, PlacesExist
<1>5. w \in Seq(T) /\ DOMAIN w = 1 .. Len(w) /\ Len(w) \in Nat
  BY <1>2, PlacesExist, SeqFacts
<1>6. ASSUME NEW i \in 1 .. 17
      PROVE  /\ SkipSerializing(p, Fields[i]) => Len(s[i]) = 0
             /\ ~SkipSerializing(p, Fields[i]) => Len(s[i]) = 1 /\ s[i][1] = Member(Fields[i])
  <2> DEFINE x == s[i]
             e == Member(Fields[i])
             skip == SkipSerializing(p, Fields[i])
  <2>1. (skip => x = <<>>) /\ (~skip => x = <<e>>)
    BY <1>3, Zenon
  <2> HIDE DEF x, e, skip
  <2>2. Len(<<>>) = 0 /\ Len(<<e>>) = 1 /\ <<e>>[1] = e
    OBVIOUS
  <2>3. (skip => Len(x) = 0) /\ (~skip => Len(x) = 1 /\ x[1] = e)
    BY <2>1, <2>2, Zenon
  <2>4. QED
    BY <2>3, Zenon DEF x, e, skip
<1>7. ASSUME NEW k \in 1 .. Len(w)
      PROVE  \E i \in 1 .. 17 : /\ ~SkipSerializing(p, Fields[i]) /\ w[k] = Member(Fields[i])
                                /\ k = at[i - 1] + 1
  <2>1. PICK i \in 1 .. Len(s), j \in Nat : /\ at[i - 1] \in Nat /\ j \in 1 .. Len(s[i])
                                            /\ k = at[i - 1] + j /\ w[k] = s[i][j]
    <3>1. k \in 1 .. Len(FlattenSeq(s))
      OBVIOUS
    <3>2. InPart(at, s, k)
      BY <1>2, <1>4, <3>1, PlacesCover
    <3>3. QED
      BY <3>2 DEF InPart
  <2>2. i \in 1 .. 17
    BY <1>2
  <2>3. ~SkipSerializing(p, Fields[i]) /\ Len(s[i]) = 1 /\ s[i][1] = Member(Fields[i])
    <3>1. j \in 1 .. Len(s[i]) /\ Len(s[i]) # 0
      BY <2>1
    <3>2. QED
      BY <1>6, <2>2, <3>1
  <2>4. j = 1
    BY <2>1, <2>3
  <2>5. QED
    BY <2>1, <2>2, <2>3, <2>4
<1>8. ASSUME NEW i \in 1 .. 17, ~SkipSerializing(p, Fields[i])
      PROVE  w[at[i - 1] + 1] = Member(Fields[i])
  <2>1. Len(s[i]) = 1 /\ s[i][1] = Member(Fields[i])
    BY <1>6, <1>8
  <2>2. \A j \in 1 .. Len(s[i]) : w[at[i - 1] + j] = s[i][j]
    BY <1>2, <1>4 DEF Places
  <2>3. QED
    BY <2>1, <2>2
<1>9. ASSUME NEW i \in 1 .. 17, ~SkipSerializing(p, Fields[i])
      PROVE  at[i - 1] + 1 \in 1 .. Len(w)
  <2>1. /\ at \in [0 .. Len(s) -> Nat] /\ at[Len(s)] = Len(w)
        /\ \A k \in 0 .. Len(s) : at[k] <= at[Len(s)]
        /\ \A k \in 1 .. Len(s) : at[k] = at[k - 1] + Len(s[k])
    BY <1>4 DEF Places
  <2>2. i - 1 \in 0 .. Len(s) /\ i \in 0 .. Len(s) /\ i \in 1 .. Len(s)
    BY <1>2
  <2>3. Len(s[i]) = 1
    BY <1>6, <1>9
  <2> HIDE DEF w
  <2>4. at[i - 1] \in Nat /\ at[i] = at[i - 1] + 1 /\ at[i] <= Len(w)
    BY <2>1, <2>2, <2>3
  <2>5. QED
    BY <1>5, <2>4
<1>10. ASSUME NEW f \in ToSet(Fields)
       PROVE  /\ SkipSerializing(p, f) => Holders(w, f) = {}
              /\ ~SkipSerializing(p, f) =>
                   \E k \in DOMAIN w : Holders(w, f) = {k} /\ w[k] = Member(f)
  <2>1. PICK i \in 1 .. 17 : f = Fields[i]
    BY FieldFacts
  <2>2. ASSUME NEW k \in Holders(w, f)
        PROVE  ~SkipSerializing(p, f) /\ k = at[i - 1] + 1
    <3>1. k \in 1 .. Len(w) /\ w[k].name = f
      BY <1>5 DEF Holders
    <3>2. PICK h \in 1 .. 17 : /\ ~SkipSerializing(p, Fields[h]) /\ w[k] = Member(Fields[h])
                               /\ k = at[h - 1] + 1
      BY <1>7, <3>1
    <3>3. Fields[h] = f
      BY <3>1, <3>2 DEF Member
    <3>4. h = i
      BY <2>1, <3>3, FieldFacts
    <3>5. QED
      BY <3>2, <3>3, <3>4
  <2>3. CASE SkipSerializing(p, f)
    BY <2>2, <2>3
  <2>4. CASE ~SkipSerializing(p, f)
    <3>1. at[i - 1] + 1 \in DOMAIN w /\ w[at[i - 1] + 1] = Member(f)
      BY <1>5, <1>8, <1>9, <2>1, <2>4
    <3>2. Holders(w, f) = {at[i - 1] + 1}
      BY <2>2, <3>1 DEF Holders, Member
    <3>3. QED
      BY <2>4, <3>1, <3>2, Zenon
  <2>5. QED
    BY <2>3, <2>4
<1>11. QED
  BY <1>1, <1>5, <1>10 DEF T, Member

(* A field that is not there gets a default of its type, or null.          *)
LEMMA FieldDefaults ==
  /\ \A f \in ToSet(Fields) : /\ TypeOf(f) # "null" /\ TypeOf(f) # Null.type
                              /\ f \in Optional => Default(f) = Null
                              /\ f \notin Optional => Default(f).type = TypeOf(f)
  /\ "hash" \notin Optional /\ \A p : ~SkipSerializing(p, "hash")
  /\ \A f \in {"merkle_root", "token"} : Default(f).empty /\ f \notin Optional
BY DEF TypeOf, Default, Optional, Null, SkipSerializing

Names(f, members) == \E k \in DOMAIN members : members[k].name = f /\ members[k].value # Null

(* A member with a value is named: it is the only one of that field.       *)
LEMMA ReadNames ==
  ASSUME NEW members \in Seq(Members), from_json(members) # None, NEW f \in ToSet(Fields)
  PROVE  LET p == from_json(members) IN
         /\ p[f].type = TypeOf(f) \/ (f \in Optional /\ p[f] = Null)
         /\ p[f] = Default(f) \/ Holders(members, f) # {}
         /\ f \in Optional => (Names(f, members) <=> p[f] # Null)
         /\ f \in {"merkle_root", "token"} /\ ~p[f].empty => Names(f, members)
<1> DEFINE p == from_json(members)
<1>1. p[f] = IF Holders(members, f) = {} THEN Default(f)
             ELSE members[Min(Holders(members, f))].value
  BY ReadBundle
<1>2. ASSUME NEW k \in Holders(members, f)
      PROVE  /\ k \in DOMAIN members /\ members[k].name = f
             /\ p[f] = members[k].value
             /\ members[k].value.type = TypeOf(f) \/ (f \in Optional /\ members[k].value = Null)
  <2>1. k = Min(Holders(members, f)) /\ Holders(members, f) # {}
    BY ReadBundle
  <2>2. QED
    BY <1>1, <2>1, ReadBundle DEF Holders
<1> HIDE DEF p
<1>3. CASE Holders(members, f) = {}
  <2>1. p[f] = Default(f)
    BY <1>1, <1>3
  <2>2. ~Names(f, members)
    BY <1>3 DEF Names, Holders
  <2>3. QED
    BY <2>1, <2>2, FieldDefaults DEF p
<1>4. CASE Holders(members, f) # {}
  <2>1. PICK k : k \in Holders(members, f)
    BY <1>4
  <2>2. Names(f, members) <=> p[f] # Null
    BY <1>2, <2>1 DEF Names, Holders
  <2>3. f \in {"merkle_root", "token"} /\ ~p[f].empty => p[f] # Null
    BY DEF Null
  <2>4. QED
    BY <1>2, <1>4, <2>1, <2>2, <2>3 DEF p
<1>5. QED
  BY <1>3, <1>4

(* What BundleRoundTrips says, for every sequence of members that is a     *)
(* bundle.                                                                 *)
LEMMA SavedIsRead ==
  ASSUME NEW members \in Seq(Members), from_json(members) # None
  PROVE  LET p == from_json(members)
             saved == to_json(p)
         IN  /\ from_json(saved) = p
             /\ \A k \in DOMAIN saved : saved[k].value # Null
             /\ \A f \in Optional : Names(f, saved) <=> Names(f, members)
             /\ ~is_pending(p) => Names("merkle_root", members) /\ Names("token", members)
<1> DEFINE p == from_json(members)
           saved == to_json(p)
<1>1. \A f \in ToSet(Fields) :
        /\ p[f].type = TypeOf(f) \/ (f \in Optional /\ p[f] = Null)
        /\ f \in Optional => (Names(f, members) <=> p[f] # Null)
  BY ReadNames
<1>2. p = [f \in ToSet(Fields) |-> p[f]]
  BY ReadBundle
<1> HIDE DEF p
<1>3. /\ saved \in Seq({[name |-> f, value |-> p[f]] : f \in ToSet(Fields)})
      /\ \A f \in ToSet(Fields) :
           /\ SkipSerializing(p, f) => Holders(saved, f) = {}
           /\ ~SkipSerializing(p, f) =>
                \E k \in DOMAIN saved : /\ Holders(saved, f) = {k}
                                        /\ saved[k] = [name |-> f, value |-> p[f]]
  BY WrittenBundle
<1> HIDE DEF saved
<1>4. ASSUME NEW k \in DOMAIN saved
      PROVE  \E f \in ToSet(Fields) : /\ ~SkipSerializing(p, f)
                                      /\ saved[k] = [name |-> f, value |-> p[f]]
  <2>1. PICK f \in ToSet(Fields) : saved[k] = [name |-> f, value |-> p[f]]
    BY <1>3, SeqFacts
  <2>2. k \in Holders(saved, f)
    BY <2>1 DEF Holders
  <2>3. QED
    BY <1>3, <2>1, <2>2
<1>5. \A f \in ToSet(Fields) : SkipSerializing(p, f) => p[f] = Default(f)
  BY DEF SkipSerializing
<1>6. ASSUME NEW f \in ToSet(Fields), ~SkipSerializing(p, f) PROVE p[f] # Null
  BY <1>1, <1>6, FieldDefaults DEF SkipSerializing
<1>7. from_json(saved) = p
  <2>1. ASSUME NEW f \in ToSet(Fields)
        PROVE  /\ ~(Cardinality(Holders(saved, f)) > 1)
               /\ \A k \in Holders(saved, f) :
                    \/ saved[k].value.type = TypeOf(f)
                    \/ f \in Optional /\ saved[k].value = Null
               /\ p[f] = IF Holders(saved, f) = {} THEN Default(f)
                         ELSE saved[Min(Holders(saved, f))].value
    <3>1. CASE SkipSerializing(p, f)
      <4>1. Holders(saved, f) = {} /\ p[f] = Default(f)
        BY <1>3, <1>5, <3>1
      <4>2. Cardinality({}) = 0
        BY FS_EmptySet
      <4>3. QED
        BY <4>1, <4>2
    <3>2. CASE ~SkipSerializing(p, f)
      <4>1. PICK k \in DOMAIN saved : /\ Holders(saved, f) = {k}
                                      /\ saved[k] = [name |-> f, value |-> p[f]]
        BY <1>3, <3>2
      <4>2. k \in Nat
        BY <1>3, SeqFacts
      <4>3. Min({k}) = k
        BY <4>2 DEF Min
      <4>4. Cardinality({k}) = 1
        BY FS_Singleton
      <4>5. saved[k].value = p[f]
        BY <4>1
      <4>6. QED
        BY <1>1, <4>1, <4>3, <4>4, <4>5
    <3>3. QED
      BY <3>1, <3>2
  <2>2. Holders(saved, "hash") # {}
    BY <1>3, FieldFacts, FieldDefaults
  <2>3. QED
    BY <1>2, <2>1, <2>2, ZenonT(40) DEF from_json, Holders
<1>8. \A k \in DOMAIN saved : saved[k].value # Null
  BY <1>4, <1>6
<1>9. ASSUME NEW f \in Optional PROVE Names(f, saved) <=> Names(f, members)
  <2>1. f \in ToSet(Fields)
    BY FieldFacts
  <2>2. Names(f, saved) <=> p[f] # Null
    <3>1. CASE SkipSerializing(p, f)
      BY <1>3, <1>5, <2>1, <3>1, FieldDefaults DEF Names, Holders
    <3>2. CASE ~SkipSerializing(p, f)
      <4>1. PICK k \in DOMAIN saved : saved[k] = [name |-> f, value |-> p[f]]
        BY <1>3, <2>1, <3>2
      <4>2. saved[k].name = f /\ saved[k].value = p[f] /\ p[f] # Null
        BY <1>6, <2>1, <3>2, <4>1
      <4>3. QED
        BY <4>2 DEF Names
    <3>3. QED
      BY <3>1, <3>2
  <2>3. QED
    BY <1>1, <2>1, <2>2
<1>10. ~is_pending(p) => Names("merkle_root", members) /\ Names("token", members)
  BY ReadNames, FieldFacts DEF p, is_pending
<1>11. QED
  BY <1>7, <1>8, <1>9, <1>10 DEF p, saved

(* What a serde_json::Value keeps of some members is members.              *)
LEMMA KeptMembers ==
  ASSUME NEW members \in Seq(Members)
  PROVE  into_json(members) \in Seq(Members)
<1> DEFINE Again(k) == \E j \in DOMAIN members : j > k /\ members[j].name = members[k].name
           kept == [k \in DOMAIN members |-> IF Again(k) THEN <<>> ELSE <<members[k]>>]
<1>1. Len(members) \in Nat /\ DOMAIN members = 1 .. Len(members)
      /\ \A k \in 1 .. Len(members) : members[k] \in Members
  BY SeqFacts
<1> HIDE DEF Again
<1>2. ASSUME NEW m \in Members PROVE <<>> \in Seq(Members) /\ <<m>> \in Seq(Members)
  OBVIOUS
<1>3. kept \in [1 .. Len(members) -> Seq(Members)]
  BY <1>1, <1>2, EmptySeq
<1>4. FlattenSeq(kept) \in Seq(Members)
  <2> HIDE DEF kept
  <2>1. kept \in Seq(Seq(Members))
    BY <1>1, <1>3, MadeSeq
  <2>2. QED
    BY <2>1, PlacesExist
<1>5. into_json(members) = FlattenSeq(kept)
  BY Zenon DEF into_json, kept, Again
<1>6. QED
  BY <1>4, <1>5
-----------------------------------------------------------------------------
(* Hex texts. *)

(* A character is a byte below 128, or two to four from 128 on.            *)
LEMMA CharFacts ==
  ASSUME NEW c \in Chars
  PROVE  /\ c \in Seq(0 .. 255) /\ Len(c) \in 1 .. 4
         /\ Len(c) = 1 => c[1] \in 0 .. 127 /\ c = <<c[1]>>
         /\ Len(c) # 1 => \A k \in 1 .. Len(c) : c[k] \in 128 .. 255
<1>1. c \in Seq(0 .. 255) /\ Len(c) \in Nat /\ DOMAIN c = 1 .. Len(c)
      /\ \A k \in 1 .. Len(c) : c[k] \in 0 .. 255
  BY SeqFacts, SMTT(40) DEF Chars
<1>2. \/ Len(c) = 1 /\ c[1] < 128
      \/ Len(c) \in 2 .. 4 /\ \A k \in DOMAIN c : c[k] >= 128
  BY DEF Chars
<1>3. CASE Len(c) = 1
  <2>a. c[1] \in 0 .. 255 /\ c[1] < 128
    BY <1>1, <1>2, <1>3
  <2> DEFINE b == c[1]
  <2>1. c[1] \in 0 .. 127
    <3>1. b \in 0 .. 255 /\ b < 128
      BY <2>a
    <3> HIDE DEF b
    <3>2. b \in 0 .. 127
      BY <3>1
    <3>3. QED
      BY <3>2 DEF b
  <2>2. c = <<c[1]>>
    BY <1>1, <1>3
  <2>3. QED
    BY <1>1, <1>3, <2>1, <2>2
<1>4. CASE Len(c) # 1
  <2>1. Len(c) \in 1 .. 4
    BY <1>1, <1>2, <1>4
  <2>2. ASSUME NEW k \in 1 .. Len(c) PROVE c[k] \in 128 .. 255
    <3> DEFINE b == c[k]
    <3>1. b \in 0 .. 255 /\ b >= 128
      BY <1>1, <1>2, <1>4
    <3> HIDE DEF b
    <3>2. b \in 128 .. 255
      BY <3>1
    <3>3. QED
      BY <3>2 DEF b
  <2>3. QED
    BY <1>1, <1>4, <2>1, <2>2
<1>5. QED
  BY <1>3, <1>4

(* The bytes of a text are bytes.                                          *)
LEMMA TextFacts ==
  ASSUME NEW t \in Seq(Chars)
  PROVE  /\ t \in Seq(Seq(0 .. 255)) /\ Len(t) \in Nat /\ DOMAIN t = 1 .. Len(t)
         /\ \A k \in 1 .. Len(t) : t[k] \in Chars
         /\ Bytes(t) \in Seq(0 .. 255) /\ Len(Bytes(t)) \in Nat
         /\ \A p \in 1 .. Len(Bytes(t)) : Bytes(t)[p] \in 0 .. 255
<1>1. Chars \subseteq Seq(0 .. 255)
  BY DEF Chars
<1>2. t \in Seq(Seq(0 .. 255))
  BY <1>1, SeqMonotonic
<1>3. Bytes(t) \in Seq(0 .. 255)
  BY <1>2, PlacesExist DEF Bytes
<1>4. QED
  BY <1>2, <1>3, SeqFacts

(* In a text of characters of one byte, characters and bytes agree.        *)
Plain(t) == \A k \in 1 .. Len(t) : Len(t[k]) = 1

(* In a text of plain characters, characters and bytes are the same        *)
(* places.                                                                 *)
LEMMA PlainBytes ==
  ASSUME NEW t \in Seq(Chars), Plain(t)
  PROVE  /\ Len(Bytes(t)) = Len(t) /\ \A k \in 1 .. Len(t) : Bytes(t)[k] = t[k][1]
         /\ Boundaries(t) = 0 .. Len(t)
<1>1. /\ Len(FlattenSeq(t)) = Len(t) /\ \A k \in 1 .. Len(t) : FlattenSeq(t)[k] = t[k][1]
      /\ \A m \in 0 .. Len(t) : Len(FlattenSeq(SubSeq(t, 1, m))) = m
  BY TextFacts, FlattenOnes DEF Plain
<1>2. QED
  BY <1>1 DEF Bytes, Boundaries

(* A text whose bytes are all below 128 is one of plain characters.        *)
LEMMA LowBytes ==
  ASSUME NEW t \in Seq(Chars), \A p \in 1 .. Len(Bytes(t)) : Bytes(t)[p] < 128
  PROVE  Plain(t)
<1>1. SUFFICES ASSUME NEW k \in 1 .. Len(t), Len(t[k]) # 1 PROVE FALSE
  BY DEF Plain
<1>2. PICK at : Places(at, t)
  BY TextFacts, PlacesExist
<1>a. t[k] \in Chars
  BY TextFacts
<1>b. Len(t[k]) \in 1 .. 4 /\ \A j \in 1 .. Len(t[k]) : t[k][j] \in 128 .. 255
  BY <1>1, <1>a, CharFacts
<1>c. Len(t[k]) \in Nat /\ 1 \in 1 .. Len(t[k])
  <2> DEFINE n == Len(t[k])
  <2>1. n \in 1 .. 4
    BY <1>b
  <2> HIDE DEF n
  <2>2. n \in Nat /\ 1 \in 1 .. n
    BY <2>1
  <2>3. QED
    BY <2>2 DEF n
<1>3. Len(t[k]) \in Nat /\ 1 \in 1 .. Len(t[k]) /\ t[k][1] \in 128 .. 255
  BY <1>b, <1>c
<1>4. Bytes(t)[at[k - 1] + 1] = t[k][1]
  BY <1>2, <1>3 DEF Places, Bytes
<1>5. at[k - 1] + 1 \in 1 .. Len(Bytes(t))
  <2>1. k - 1 \in 0 .. Len(t) /\ k \in 0 .. Len(t) /\ Len(Bytes(t)) \in Nat
    BY TextFacts
  <2>2. /\ at \in [0 .. Len(t) -> Nat] /\ at[k] = at[k - 1] + Len(t[k])
        /\ at[k] <= Len(Bytes(t))
    BY <1>2, <2>1 DEF Places, Bytes
  <2>3. at[k - 1] \in Nat
    BY <2>1, <2>2
  <2>4. Len(t[k]) >= 1
    BY <1>3
  <2>5. QED
    BY <1>3, <2>1, <2>2, <2>3, <2>4
<1>d. t[k][1] < 128
  BY <1>4, <1>5
<1>6. QED
  <2> DEFINE b == t[k][1]
  <2>1. b \in 128 .. 255 /\ b < 128
    BY <1>3, <1>d
  <2> HIDE DEF b
  <2>2. QED
    BY <2>1

-----------------------------------------------------------------------------

(* Which bytes are hex digits, and how hex_encode writes them.             *)
LEMMA DigitFacts ==
  ASSUME NEW b \in 0 .. 255
  PROVE  /\ DigitOf(b) # None => DigitOf(b) \in 0 .. 15 /\ b < 128 /\ b # 43
         /\ DigitOf(b) # None <=> b \in (48 .. 57) \union (65 .. 70) \union (97 .. 102)
         /\ DigitOf(b) # None => LowerDigit(DigitOf(b)) = IF b \in 65 .. 90 THEN b + 32 ELSE b
<1>1. None \notin Nat
  BY ConversionAssumption
<1>2. QED
  BY <1>1 DEF DigitOf, LowerDigit

(* A pair that is read as a number is two digits, or a plus sign and a     *)
(* digit.                                                                  *)
LEMMA RadixFacts ==
  ASSUME NEW a \in 0 .. 255, NEW b \in 0 .. 255
  PROVE  LET high == IF a = 43 THEN 48 ELSE a IN
         /\ from_str_radix(a, b) # None <=> DigitOf(high) # None /\ DigitOf(b) # None
         /\ from_str_radix(a, b) # None =>
              /\ from_str_radix(a, b) \in 0 .. 255 /\ a < 128 /\ b < 128
              /\ from_str_radix(a, b) \div 16 = DigitOf(high)
              /\ from_str_radix(a, b) % 16 = DigitOf(b)
<1>1. None \notin Nat
  BY ConversionAssumption
<1> DEFINE high == IF a = 43 THEN 48 ELSE a
           x == DigitOf(high)
           y == DigitOf(b)
<1>2. high \in 0 .. 255 /\ DigitOf(48) = 0
  BY DEF DigitOf
<1>3. /\ x # None => x \in 0 .. 15 /\ high < 128
      /\ y # None => y \in 0 .. 15 /\ b < 128
  BY <1>2, DigitFacts
<1>4. from_str_radix(a, b) = IF None \in {x, y} THEN None ELSE 16 * x + y
  BY <1>2 DEF from_str_radix
<1> HIDE DEF x, y
<1>5. x \in 0 .. 15 /\ y \in 0 .. 15 => /\ 16 * x + y \in 0 .. 255 /\ (16 * x + y) \div 16 = x
                                        /\ (16 * x + y) % 16 = y
  OBVIOUS
<1>6. QED
  BY <1>1, <1>3, <1>4, <1>5 DEF x, y

(* Min, of any set of numbers that is not empty.                           *)
LEMMA LeastOf ==
  ASSUME NEW S \in SUBSET Nat, S # {}
  PROVE  Min(S) \in S /\ \A y \in S : Min(S) <= y
<1>1. PICK x \in S : \A y \in S : ~(<<y, x>> \in OpToRel(<, Nat))
  BY NatLessThanWellFounded, WFMin, Zenon
<1>a. \A y \in S : ~(y < x)
  BY <1>1 DEF OpToRel
<1>2. \A y \in S : x <= y
  BY <1>a
<1>3. QED
  BY <1>2 DEF Min

(* A pair that is read as a number is of plain characters.                 *)
LEMMA RadixLow ==
  ASSUME NEW a \in 0 .. 255, NEW b \in 0 .. 255, from_str_radix(a, b) # None
  PROVE  from_str_radix(a, b) \in 0 .. 255 /\ from_str_radix(a, b) \in Nat /\ a < 128 /\ b < 128
<1> DEFINE r == from_str_radix(a, b)
<1>1. r \in 0 .. 255 /\ a < 128 /\ b < 128
  BY RadixFacts, ZenonT(40)
<1> HIDE DEF r
<1>2. r \in Nat
  BY <1>1
<1>3. QED
  BY <1>1, <1>2 DEF r

(* The first byte of a pair, when a plus sign is a zero; a hex digit; a    *)
(* byte in lower case.                                                     *)
High(a) == IF a = 43 THEN 48 ELSE a
HexByte(b) == b \in (48 .. 57) \union (65 .. 70) \union (97 .. 102)
LowerByte(b) == IF b \in 65 .. 90 THEN b + 32 ELSE b

(* DigitFacts in terms of HexByte, High and LowerByte.                     *)
LEMMA DigitBytes ==
  ASSUME NEW b \in 0 .. 255
  PROVE  /\ DigitOf(b) # None <=> HexByte(b)
         /\ HexByte(b) => b # 43 /\ b < 128
         /\ High(b) \in 0 .. 255 /\ (b # 43 => High(b) = b)
         /\ DigitOf(b) # None => LowerDigit(DigitOf(b)) = LowerByte(b)
BY DigitFacts DEF HexByte, High, LowerByte

(* RadixFacts in the same terms.                                           *)
LEMMA RadixDigits ==
  ASSUME NEW a \in 0 .. 255, NEW b \in 0 .. 255
  PROVE  /\ from_str_radix(a, b) # None <=> HexByte(High(a)) /\ HexByte(b)
         /\ from_str_radix(a, b) # None =>
              /\ from_str_radix(a, b) \div 16 = DigitOf(High(a))
              /\ from_str_radix(a, b) % 16 = DigitOf(b)
<1>1. High(a) \in 0 .. 255
  BY DigitBytes, SMTT(40)
<1>2. /\ DigitOf(High(a)) # None <=> HexByte(High(a))
      /\ DigitOf(b) # None <=> HexByte(b)
  BY <1>1, DigitBytes, SMTT(40)
<1>3. /\ from_str_radix(a, b) # None <=> DigitOf(High(a)) # None /\ DigitOf(b) # None
      /\ from_str_radix(a, b) # None =>
           /\ from_str_radix(a, b) \div 16 = DigitOf(High(a))
           /\ from_str_radix(a, b) % 16 = DigitOf(b)
  BY RadixFacts, ZenonT(40) DEF High
<1>4. QED
  BY <1>2, <1>3

(* A text that decodes: pairs of digits, where the first may be a plus.    *)
Decodes(t) ==
  /\ Plain(t) /\ Len(t) % 2 = 0
  /\ \A k \in 1 .. Len(t) \div 2 : from_str_radix(t[2 * k - 1][1], t[2 * k][1]) # None
Decoded(t) == [k \in 1 .. Len(t) \div 2 |-> from_str_radix(t[2 * k - 1][1], t[2 * k][1])]

(* The pairs of a sequence of even length hold each of its places.         *)
LEMMA PairPlaces ==
  ASSUME NEW n \in Nat, n % 2 = 0
  PROVE  /\ n = 2 * (n \div 2) /\ n \div 2 \in Nat
         /\ \A k \in 1 .. n \div 2 : 2 * k - 1 \in 1 .. n /\ 2 * k \in 1 .. n
         /\ \A p \in 1 .. n : \E k \in 1 .. n \div 2 : p = 2 * k - 1 \/ p = 2 * k
<1> DEFINE h == n \div 2
<1>1. h \in Nat /\ n = 2 * h
  OBVIOUS
<1> HIDE DEF h
<1>2. ASSUME NEW p \in 1 .. n PROVE \E k \in 1 .. h : p = 2 * k - 1 \/ p = 2 * k
  <2> DEFINE k == (p + 1) \div 2
  <2>1. k \in 1 .. h /\ (p = 2 * k - 1 \/ p = 2 * k)
    BY <1>1
  <2> HIDE DEF k
  <2>2. QED
    BY <2>1
<1>3. QED
  BY <1>1, <1>2 DEF h

(* The characters of a plain text.                                         *)
LEMMA PlainChars ==
  ASSUME NEW t \in Seq(Chars), Plain(t)
  PROVE  \A k \in 1 .. Len(t) : t[k] = <<t[k][1]>> /\ t[k][1] \in 0 .. 127 /\ Len(t[k]) = 1
BY TextFacts, CharFacts DEF Plain

(* hex_decode gives bytes exactly for an even text whose pairs are all     *)
(* digits.                                                                 *)
LEMMA HexFacts ==
  ASSUME NEW t \in Seq(Chars)
  PROVE  /\ hex_decode(t) \notin {None, Panics} => Decodes(t)
         /\ Decodes(t) => /\ hex_decode(t) = Decoded(t) /\ Decoded(t) \in Seq(0 .. 255)
                          /\ hex_decode(t) \notin {None, Panics}
         /\ Plain(t) => hex_decode(t) # Panics
<1> DEFINE s == Bytes(t)
           n == Len(s)
           pairs == 0 .. n \div 2 - 1
           Sliced(k) == {2 * k, 2 * k + 2} \subseteq Boundaries(t)
           Pair(k) == from_str_radix(s[2 * k + 1], s[2 * k + 2])
           bad == {k \in pairs : ~Sliced(k) \/ Pair(k) = None}
<1>0. hex_decode(t) = IF n % 2 # 0 THEN None
                      ELSE IF bad = {} THEN [k \in 1 .. n \div 2 |-> Pair(k - 1)]
                      ELSE IF Sliced(Min(bad)) THEN None ELSE Panics
  BY DEF hex_decode
<1>1. n \in Nat /\ \A p \in 1 .. n : s[p] \in 0 .. 255
  BY TextFacts
<1>2. n % 2 = 0 => \A k \in 1 .. n \div 2 : /\ k - 1 \in pairs /\ 2 * (k - 1) + 1 = 2 * k - 1
                                            /\ 2 * (k - 1) + 2 = 2 * k
                                            /\ 2 * k - 1 \in 1 .. n /\ 2 * k \in 1 .. n
  <2> HIDE DEF n
  <2>1. QED
    BY <1>1, PairPlaces
<1>3. ASSUME Plain(t)
      PROVE  /\ n = Len(t) /\ \A k \in pairs : Sliced(k)
             /\ \A p \in 1 .. n : s[p] = t[p][1]
  <2>1. n = Len(t) /\ (\A p \in 1 .. n : s[p] = t[p][1]) /\ Boundaries(t) = 0 .. n
    BY <1>3, PlainBytes
  <2>2. ASSUME NEW k \in pairs PROVE Sliced(k)
    <3> HIDE DEF s
    <3>1. 2 * k \in 0 .. n /\ 2 * k + 2 \in 0 .. n
      <4> HIDE DEF n
      <4>1. QED
        BY <1>1
    <3>2. QED
      BY <2>1, <3>1
  <2>3. QED
    BY <2>1, <2>2
<1>4. bad # {} => Min(bad) \in bad
  <2>1. pairs \subseteq Nat
    OBVIOUS
  <2>2. bad \in SUBSET Nat
    BY <2>1, Zenon
  <2> HIDE DEF bad
  <2>3. QED
    BY <2>2, LeastOf
<1>5. ASSUME hex_decode(t) \notin {None, Panics} PROVE Decodes(t)
  <2>1. n % 2 = 0 /\ bad = {}
    BY <1>0, <1>5
  <2>2. \A k \in pairs : Pair(k) # None
    BY <2>1
  <2>3. \A k \in 1 .. n \div 2 : from_str_radix(s[2 * k - 1], s[2 * k]) # None
    <3> HIDE DEF s, n
    <3>1. SUFFICES ASSUME NEW k \in 1 .. n \div 2
                   PROVE  from_str_radix(s[2 * k - 1], s[2 * k]) # None
      OBVIOUS
    <3>2. Pair(k - 1) # None
      BY <1>2, <2>1, <2>2
    <3>3. QED
      BY <1>2, <2>1, <3>2
  <2>4. ASSUME NEW p \in 1 .. n PROVE s[p] < 128
    <3>1. PICK k \in 1 .. n \div 2 : p = 2 * k - 1 \/ p = 2 * k
      <4> HIDE DEF n
      <4>1. QED
        BY <1>1, <2>1, PairPlaces
    <3>2. s[2 * k - 1] \in 0 .. 255 /\ s[2 * k] \in 0 .. 255
      BY <1>1, <1>2, <2>1
    <3>3. s[2 * k - 1] < 128 /\ s[2 * k] < 128
      BY <2>3, <3>2, RadixLow, ZenonT(40)
    <3>4. QED
      BY <3>1, <3>3
  <2>5. Plain(t)
    BY <2>4, LowBytes
  <2>6. n = Len(t) /\ \A p \in 1 .. n : s[p] = t[p][1]
    BY <1>3, <2>5
  <2> HIDE DEF s, n
  <2>7. QED
    BY <1>2, <2>1, <2>3, <2>5, <2>6 DEF Decodes
<1>6. ASSUME Decodes(t)
      PROVE  /\ hex_decode(t) = Decoded(t) /\ Decoded(t) \in Seq(0 .. 255)
             /\ hex_decode(t) \notin {None, Panics}
  <2>1. /\ Plain(t) /\ Len(t) % 2 = 0
        /\ \A k \in 1 .. Len(t) \div 2 : from_str_radix(t[2 * k - 1][1], t[2 * k][1]) # None
    BY <1>6 DEF Decodes
  <2>2. n = Len(t) /\ (\A p \in 1 .. n : s[p] = t[p][1]) /\ \A k \in pairs : Sliced(k)
    BY <1>3, <2>1
  <2> HIDE DEF s
  <2>3. \A k \in 1 .. n \div 2 : /\ Pair(k - 1) = from_str_radix(t[2 * k - 1][1], t[2 * k][1])
                                 /\ Pair(k - 1) # None /\ Pair(k - 1) \in 0 .. 255
    <3>1. SUFFICES ASSUME NEW k \in 1 .. n \div 2
                   PROVE  /\ Pair(k - 1) = from_str_radix(t[2 * k - 1][1], t[2 * k][1])
                          /\ Pair(k - 1) # None /\ Pair(k - 1) \in 0 .. 255
      OBVIOUS
    <3>2. /\ Pair(k - 1) = from_str_radix(s[2 * k - 1], s[2 * k])
          /\ s[2 * k - 1] = t[2 * k - 1][1] /\ s[2 * k] = t[2 * k][1]
          /\ s[2 * k - 1] \in 0 .. 255 /\ s[2 * k] \in 0 .. 255
      <4> HIDE DEF n
      <4>1. QED
        BY <1>1, <1>2, <2>1, <2>2
    <3>3. from_str_radix(s[2 * k - 1], s[2 * k]) # None
      BY <2>1, <2>2, <3>2, Zenon
    <3>4. from_str_radix(s[2 * k - 1], s[2 * k]) \in 0 .. 255
      BY <3>2, <3>3, RadixFacts, ZenonT(40)
    <3>5. QED
      BY <3>2, <3>3, <3>4
  <2>4. bad = {}
    <3>1. ASSUME NEW k \in pairs PROVE Sliced(k) /\ Pair(k) # None
      <4>1. k + 1 \in 1 .. n \div 2 /\ (k + 1) - 1 = k
        <5> HIDE DEF n
        <5>1. QED
          BY <1>1
      <4>2. QED
        BY <2>2, <2>3, <4>1
    <3>2. QED
      BY <3>1
  <2>5. hex_decode(t) = Decoded(t)
    <3>1. hex_decode(t) = [k \in 1 .. n \div 2 |-> Pair(k - 1)]
      BY <1>0, <2>1, <2>2, <2>4
    <3> HIDE DEF n
    <3>2. QED
      BY <2>2, <2>3, <3>1 DEF Decoded
  <2>6. Decoded(t) \in Seq(0 .. 255)
    <3>1. Decoded(t) \in [1 .. n \div 2 -> 0 .. 255]
      <4> HIDE DEF n
      <4>1. QED
        BY <2>2, <2>3 DEF Decoded
    <3>2. n \div 2 \in Nat
      <4> HIDE DEF n
      <4>1. QED
        BY <1>1
    <3>3. QED
      <4> HIDE DEF n
      <4>1. QED
        BY <3>1, <3>2, MadeSeq
  <2>7. Decoded(t) \in Seq(Nat)
    <3>1. 0 .. 255 \subseteq Nat
      OBVIOUS
    <3>2. QED
      BY <2>6, <3>1, SeqMonotonic
  <2>8. QED
    BY <2>5, <2>6, <2>7, ConversionAssumption
<1>7. ASSUME Plain(t) PROVE hex_decode(t) # Panics
  <2>1. \A k \in pairs : Sliced(k)
    BY <1>3, <1>7
  <2>2. CASE n % 2 # 0
    BY <1>0, <2>2, ConversionAssumption
  <2>3. CASE n % 2 = 0 /\ bad = {}
    <3>1. hex_decode(t) = [k \in 1 .. n \div 2 |-> Pair(k - 1)]
      BY <1>0, <2>3
    <3>2. \A k \in pairs : Pair(k) # None
      BY <2>3
    <3>3. ASSUME NEW k \in 1 .. n \div 2 PROVE Pair(k - 1) \in 0 .. 255
      <4>1. k - 1 \in pairs
        BY <1>2, <2>3
      <4>2. /\ Pair(k - 1) = from_str_radix(s[2 * k - 1], s[2 * k])
            /\ s[2 * k - 1] \in 0 .. 255 /\ s[2 * k] \in 0 .. 255
        <5> HIDE DEF s, n
        <5>1. QED
          BY <1>1, <1>2, <2>3, SMTT(40)
      <4>3. from_str_radix(s[2 * k - 1], s[2 * k]) \in 0 .. 255
        BY <3>2, <4>1, <4>2, RadixFacts, Zenon
      <4>4. QED
        BY <4>2, <4>3
    <3>4. n \div 2 \in Nat
      <4> HIDE DEF n
      <4>1. QED
        BY <1>1
    <3>5. hex_decode(t) \in [1 .. n \div 2 -> Nat]
      <4>1. ASSUME NEW k \in 1 .. n \div 2 PROVE Pair(k - 1) \in Nat
        <5>1. Pair(k - 1) \in 0 .. 255
          BY <3>3
        <5> DEFINE b == Pair(k - 1)
        <5>2. b \in 0 .. 255
          BY <5>1
        <5> HIDE DEF b
        <5>3. b \in Nat
          BY <5>2
        <5>4. QED
          BY <5>3 DEF b
      <4> HIDE DEF Pair, n
      <4>2. QED
        BY <3>1, <4>1
    <3>6. hex_decode(t) \in Seq(Nat)
      <4> HIDE DEF n
      <4>1. QED
        BY <3>4, <3>5, MadeSeq
    <3>7. QED
      BY <3>6, ConversionAssumption
  <2>4. CASE n % 2 = 0 /\ bad # {}
    <3>1. Min(bad) \in pairs
      BY <1>4, <2>4
    <3>2. Sliced(Min(bad))
      BY <2>1, <3>1
    <3>3. hex_decode(t) = None
      BY <1>0, <2>4, <3>2
    <3>4. QED
      BY <3>3, ConversionAssumption
  <2>5. QED
    BY <2>2, <2>3, <2>4
<1>8. QED
  BY <1>5, <1>6, <1>7

Zeros(t) == [k \in DOMAIN t |-> IF t[k] = <<43>> THEN <<48>> ELSE t[k]]
Digits(t) == \A k \in DOMAIN t : is_ascii_hexdigit(t[k])

(* to_ascii_lowercase, of one character.                                   *)
LEMMA LowerChar ==
  ASSUME NEW t \in Seq(Chars), NEW k \in 1 .. Len(t), NEW a \in 0 .. 255, t[k] = <<a>>
  PROVE  to_ascii_lowercase(Zeros(t))[k] = <<LowerByte(High(a))>>
<1> DEFINE z == Zeros(t)
<1>1. DOMAIN t = 1 .. Len(t)
  BY TextFacts
<1>2. DOMAIN z = 1 .. Len(t)
  BY <1>1 DEF Zeros
<1>3. z[k] = <<High(a)>>
  <2>1. t[k] = <<43>> <=> a = 43
    <3>1. <<a>>[1] = a /\ <<43>>[1] = 43
      OBVIOUS
    <3>2. QED
      BY <3>1
  <2>2. QED
    BY <1>1, <2>1 DEF Zeros, High
<1>4. to_ascii_lowercase(z)[k] = IF High(a) \in 65 .. 90 THEN <<High(a) + 32>> ELSE <<High(a)>>
  <2> DEFINE h == High(a)
  <2>1. Len(<<h>>) = 1 /\ <<h>>[1] = h /\ z[k] = <<h>>
    BY <1>3
  <2>2. to_ascii_lowercase(z)[k] =
          IF Len(z[k]) = 1 /\ z[k][1] \in 65 .. 90 THEN <<z[k][1] + 32>> ELSE z[k]
    <3> HIDE DEF z
    <3>1. QED
      BY <1>2 DEF to_ascii_lowercase
  <2> HIDE DEF z, h
  <2>3. to_ascii_lowercase(z)[k] = IF h \in 65 .. 90 THEN <<h + 32>> ELSE <<h>>
    BY <2>1, <2>2
  <2>4. QED
    BY <2>3 DEF h
<1> HIDE DEF z
<1>5. QED
  BY <1>4 DEF LowerByte, z

(* The hex of a sequence of bytes.                                         *)
LEMMA EncodeFacts ==
  ASSUME NEW bytes \in Seq(0 .. 255)
  PROVE  /\ DOMAIN hex_encode(bytes) = 1 .. 2 * Len(bytes)
         /\ \A k \in 1 .. Len(bytes) :
              /\ hex_encode(bytes)[2 * k - 1] = <<LowerDigit(bytes[k] \div 16)>>
              /\ hex_encode(bytes)[2 * k] = <<LowerDigit(bytes[k] % 16)>>
<1> DEFINE n == Len(bytes)
           pairs == [k \in 1 .. n |-> <<LowerDigit(bytes[k] \div 16), LowerDigit(bytes[k] % 16)>>]
           flat == FlattenSeq(pairs)
<1>1. n \in Nat /\ DOMAIN bytes = 1 .. n /\ \A k \in 1 .. n : bytes[k] \in 0 .. 255
  BY SeqFacts
<1>2. hex_encode(bytes) = Ascii(flat)
  BY <1>1 DEF hex_encode
<1>3. ASSUME NEW k \in 1 .. n PROVE pairs[k] \in Seq(Int) /\ Len(pairs[k]) = 2
  <2> DEFINE x == LowerDigit(bytes[k] \div 16)
             y == LowerDigit(bytes[k] % 16)
  <2>1. x \in Int /\ y \in Int
    <3> DEFINE c == bytes[k]
    <3>1. c \in 0 .. 255
      BY <1>1
    <3> HIDE DEF c
    <3>2. c \div 16 \in Nat /\ c % 16 \in Nat
      BY <3>1
    <3>3. \A d \in Nat : LowerDigit(d) \in Int
      BY DEF LowerDigit
    <3>4. QED
      BY <3>2, <3>3 DEF c
  <2>2. pairs[k] = <<x, y>>
    OBVIOUS
  <2> HIDE DEF x, y, pairs
  <2>3. QED
    BY <2>1, <2>2
<1>4. pairs \in Seq(Seq(Int)) /\ Len(pairs) = n
  <2>1. pairs \in [1 .. n -> Seq(Int)]
    BY <1>3
  <2> HIDE DEF pairs, n
  <2>2. QED
    BY <1>1, <2>1, MadeSeq
<1>5. /\ flat \in Seq(Int) /\ Len(flat) = 2 * n
      /\ \A k \in 1 .. n : flat[2 * k - 1] = pairs[k][1] /\ flat[2 * k] = pairs[k][2]
  <2> HIDE DEF pairs, n
  <2>1. QED
    BY <1>3, <1>4, FlattenPairs
<1>6. DOMAIN flat = 1 .. 2 * n
  <2> HIDE DEF flat, n
  <2>1. QED
    BY <1>5, SeqFacts
<1>7. DOMAIN Ascii(flat) = 1 .. 2 * n /\ \A p \in 1 .. 2 * n : Ascii(flat)[p] = <<flat[p]>>
  <2> HIDE DEF flat, n
  <2>1. QED
    BY <1>6 DEF Ascii
<1>8. ASSUME NEW k \in 1 .. n
      PROVE  /\ Ascii(flat)[2 * k - 1] = <<LowerDigit(bytes[k] \div 16)>>
             /\ Ascii(flat)[2 * k] = <<LowerDigit(bytes[k] % 16)>>
  <2>1. 2 * k - 1 \in 1 .. 2 * n /\ 2 * k \in 1 .. 2 * n
    <3> HIDE DEF n
    <3>1. QED
      BY <1>1
  <2>2. pairs[k][1] = LowerDigit(bytes[k] \div 16) /\ pairs[k][2] = LowerDigit(bytes[k] % 16)
    OBVIOUS
  <2> HIDE DEF flat, pairs
  <2>3. QED
    BY <1>5, <1>7, <2>1, <2>2, SMTT(40)
<1>9. QED
  BY <1>2, <1>7, <1>8

(* to_ascii_lowercase keeps a text as long as it is.                       *)
LEMMA LowerSeq ==
  ASSUME NEW t \in Seq(Chars)
  PROVE  /\ to_ascii_lowercase(t) \in Seq(Chars) /\ DOMAIN to_ascii_lowercase(t) = 1 .. Len(t)
         /\ DOMAIN Zeros(t) = 1 .. Len(t)
<1>1. DOMAIN t = 1 .. Len(t) /\ Len(t) \in Nat /\ \A k \in 1 .. Len(t) : t[k] \in Chars
  BY TextFacts
<1>2. ASSUME NEW c \in Chars, Len(c) = 1, c[1] \in 65 .. 90 PROVE <<c[1] + 32>> \in Chars
  <2> DEFINE b == c[1] + 32
  <2>1. b \in 0 .. 255 /\ b < 128
    <3> DEFINE d == c[1]
    <3>1. d \in 65 .. 90 /\ b = d + 32
      BY <1>2
    <3> HIDE DEF d, b
    <3>2. QED
      BY <3>1
  <2> HIDE DEF b
  <2>2. <<b>> \in Seq(0 .. 255) /\ Len(<<b>>) = 1 /\ <<b>>[1] = b
    BY <2>1
  <2>3. <<b>> \in Chars
    BY <2>1, <2>2 DEF Chars
  <2>4. QED
    BY <2>3 DEF b
<1>3. to_ascii_lowercase(t) \in [1 .. Len(t) -> Chars]
  BY <1>1, <1>2 DEF to_ascii_lowercase
<1>4. QED
  BY <1>1, <1>3, MadeSeq DEF Zeros

(* A text that decodes is the hex of its bytes, when a plus is a zero.     *)
LEMMA DecodedText ==
  ASSUME NEW t \in Seq(Chars), Decodes(t)
  PROVE  /\ to_ascii_lowercase(Zeros(t)) = hex_encode(Decoded(t))
         /\ Len(t) = 2 * Len(Decoded(t))
<1> DEFINE n == Len(t)
           h == n \div 2
           d == Decoded(t)
           low == to_ascii_lowercase(Zeros(t))
<1>1. /\ Plain(t) /\ n % 2 = 0 /\ n \in Nat
      /\ \A k \in 1 .. h : from_str_radix(t[2 * k - 1][1], t[2 * k][1]) # None
  BY TextFacts DEF Decodes
<1>2. /\ n = 2 * h /\ h \in Nat
      /\ \A k \in 1 .. h : 2 * k - 1 \in 1 .. n /\ 2 * k \in 1 .. n
      /\ \A p \in 1 .. n : \E k \in 1 .. h : p = 2 * k - 1 \/ p = 2 * k
  <2> HIDE DEF n
  <2>1. QED
    BY <1>1, PairPlaces
<1>3. d \in Seq(0 .. 255) /\ DOMAIN d = 1 .. h /\ Len(d) = h
  <2>1. d \in Seq(0 .. 255)
    BY HexFacts
  <2>2. DOMAIN d = 1 .. h
    BY DEF Decoded
  <2> HIDE DEF d, h
  <2>3. QED
    BY <1>2, <2>1, <2>2, LenProperties
<1>4. DOMAIN low = 1 .. n
  <2>1. DOMAIN Zeros(t) = 1 .. n
    BY LowerSeq
  <2>2. QED
    BY <2>1 DEF to_ascii_lowercase
<1>5. ASSUME NEW k \in 1 .. h
      PROVE  low[2 * k - 1] = hex_encode(d)[2 * k - 1] /\ low[2 * k] = hex_encode(d)[2 * k]
  <2> DEFINE i == 2 * k - 1
             j == 2 * k
             a == t[i][1]
             b == t[j][1]
  <2>1. i \in 1 .. n /\ j \in 1 .. n
    BY <1>2
  <2>2. d[k] = from_str_radix(a, b) /\ from_str_radix(a, b) # None
    BY <1>1 DEF Decoded
  <2>3. /\ t[i] = <<a>> /\ a \in 0 .. 127
        /\ t[j] = <<b>> /\ b \in 0 .. 127
    <3> HIDE DEF i, j
    <3>1. QED
      BY <1>1, <2>1, PlainChars
  <2>4. a \in 0 .. 255 /\ b \in 0 .. 255
    <3> HIDE DEF a, b
    <3>1. QED
      BY <2>3, SMTT(40)
  <2>5. /\ HexByte(High(a)) /\ HexByte(b)
        /\ d[k] \div 16 = DigitOf(High(a)) /\ d[k] % 16 = DigitOf(b)
    <3> HIDE DEF a, b, d
    <3>1. QED
      BY <2>2, <2>4, RadixDigits, ZenonT(40)
  <2>6. /\ High(b) = b /\ LowerDigit(DigitOf(b)) = LowerByte(b)
        /\ LowerDigit(DigitOf(High(a))) = LowerByte(High(a))
    <3> HIDE DEF a, b
    <3>1. QED
      BY <2>4, <2>5, DigitBytes, Zenon
  <2>7. low[i] = <<LowerByte(High(a))>> /\ low[j] = <<LowerByte(High(b))>>
    <3> HIDE DEF a, b, i, j
    <3>1. QED
      BY <2>1, <2>3, <2>4, LowerChar, ZenonT(40)
  <2>9. /\ hex_encode(d)[2 * k - 1] = <<LowerDigit(d[k] \div 16)>>
        /\ hex_encode(d)[2 * k] = <<LowerDigit(d[k] % 16)>>
    <3> HIDE DEF d, h
    <3>1. QED
      BY <1>3, EncodeFacts
  <2> HIDE DEF a, b, d, low
  <2>10. QED
    BY <2>5, <2>6, <2>7, <2>9
<1>6. DOMAIN hex_encode(d) = 1 .. n
  <2> HIDE DEF d, h, n
  <2>1. QED
    BY <1>2, <1>3, EncodeFacts
<1>7. \A p \in 1 .. n : low[p] = hex_encode(d)[p]
  <2> HIDE DEF low, d, h, n
  <2>1. QED
    BY <1>2, <1>5
<1>8. low = hex_encode(d)
  <2>1. low = [p \in 1 .. n |-> low[p]]
    <3>1. low = [p \in DOMAIN low |-> low[p]]
      BY DEF to_ascii_lowercase
    <3> HIDE DEF low, n
    <3>2. QED
      BY <1>4, <3>1
  <2>2. hex_encode(d) = [p \in 1 .. n |-> hex_encode(d)[p]]
    <3>1. hex_encode(d) = [p \in DOMAIN hex_encode(d) |-> hex_encode(d)[p]]
      BY DEF hex_encode, Ascii
    <3> HIDE DEF d, n
    <3>2. QED
      BY <1>6, <3>1
  <2> HIDE DEF low, d, n
  <2>3. QED
    BY <1>7, <2>1, <2>2
<1>9. QED
  BY <1>2, <1>3, <1>8

(* Hex digits decode; and what decodes is hex digits, or has a plus.       *)
LEMMA DigitsDecode ==
  ASSUME NEW t \in Seq(Chars)
  PROVE  /\ Digits(t) => Plain(t)
         /\ Digits(t) /\ Len(t) % 2 = 0 => Decodes(t)
         /\ Decodes(t) /\ (\A k \in DOMAIN t : t[k] # <<43>>) => Digits(t)
<1>1. Len(t) \in Nat /\ DOMAIN t = 1 .. Len(t) /\ \A k \in 1 .. Len(t) : t[k] \in Chars
  BY TextFacts
<1>2. Digits(t) => Plain(t)
  BY <1>1 DEF Digits, Plain, is_ascii_hexdigit
<1>3. ASSUME Digits(t), Len(t) % 2 = 0 PROVE Decodes(t)
  <2>1. ASSUME NEW k \in 1 .. Len(t) \div 2
        PROVE  from_str_radix(t[2 * k - 1][1], t[2 * k][1]) # None
    <3> DEFINE i == 2 * k - 1
               j == 2 * k
               a == t[i][1]
               b == t[j][1]
    <3>1. i \in 1 .. Len(t) /\ j \in 1 .. Len(t)
      BY <1>1, <1>3, PairPlaces
    <3>2. HexByte(a) /\ HexByte(b)
      <4> HIDE DEF i, j
      <4>1. QED
        BY <1>1, <1>3, <3>1 DEF Digits, is_ascii_hexdigit, HexByte
    <3> HIDE DEF a, b
    <3>3. a \in 0 .. 255 /\ b \in 0 .. 255
      BY <3>2 DEF HexByte
    <3>4. High(a) = a
      BY <3>2, <3>3, DigitBytes, Zenon
    <3>5. from_str_radix(a, b) # None
      BY <3>2, <3>3, <3>4, RadixDigits, Zenon
    <3>6. QED
      BY <3>5 DEF a, b
  <2>2. QED
    BY <1>2, <1>3, <2>1 DEF Decodes
<1>4. ASSUME Decodes(t), \A k \in DOMAIN t : t[k] # << 43 >> PROVE Digits(t)
  <2>0. /\ Plain(t) /\ Len(t) % 2 = 0
        /\ \A k \in 1 .. Len(t) \div 2 : from_str_radix(t[2 * k - 1][1], t[2 * k][1]) # None
    BY <1>4 DEF Decodes
  <2>1. ASSUME NEW p \in 1 .. Len(t)
        PROVE  Len(t[p]) = 1 /\ HexByte(t[p][1])
    <3>1. PICK k \in 1 .. Len(t) \div 2 : p = 2 * k - 1 \/ p = 2 * k
      BY <1>1, <2>0, PairPlaces
    <3> DEFINE i == 2 * k - 1
               j == 2 * k
               a == t[i][1]
               b == t[j][1]
    <3>2. i \in 1 .. Len(t) /\ j \in 1 .. Len(t)
      BY <1>1, <2>0, PairPlaces
    <3>3. /\ t[i] = <<a>> /\ a \in 0 .. 127 /\ Len(t[i]) = 1
          /\ t[j] = <<b>> /\ b \in 0 .. 127 /\ Len(t[j]) = 1
      <4> HIDE DEF i, j
      <4>1. QED
        BY <2>0, <3>2, PlainChars
    <3>4. from_str_radix(a, b) # None
      BY <2>0
    <3>5. t[i] # <<43>>
      BY <1>1, <1>4, <3>2
    <3> HIDE DEF a, b
    <3>6. a \in 0 .. 255 /\ b \in 0 .. 255 /\ a # 43
      BY <3>3, <3>5, SMTT(40)
    <3>7. High(a) = a
      BY <3>6, DigitBytes, Zenon
    <3>8. HexByte(a) /\ HexByte(b)
      BY <3>4, <3>6, <3>7, RadixDigits, Zenon
    <3>9. p = i \/ p = j
      BY <3>1
    <3> HIDE DEF i, j
    <3>10. CASE p = i
      BY <3>3, <3>8, <3>10 DEF a
    <3>11. CASE p = j
      BY <3>3, <3>8, <3>11 DEF b
    <3>12. QED
      BY <3>9, <3>10, <3>11
  <2>2. QED
    BY <1>1, <2>1 DEF Digits, is_ascii_hexdigit, HexByte
<1>5. QED
  BY <1>2, <1>3, <1>4

(* Max, of any set of numbers that is bounded and not empty.               *)
LEMMA GreatestOf ==
  ASSUME NEW n \in Nat, NEW S \in SUBSET (0 .. n), S # {}
  PROVE  Max(S) \in S /\ \A y \in S : y <= Max(S)
<1> DEFINE T == {n - x : x \in S}
<1>1. T \in SUBSET Nat /\ T # {}
  <2>1. ASSUME NEW x \in S PROVE n - x \in Nat
    <3>1. x \in 0 .. n
      OBVIOUS
    <3>2. QED
      BY <3>1
  <2>2. QED
    BY <2>1
<1>2. Min(T) \in T /\ \A y \in T : Min(T) <= y
  <2> HIDE DEF T
  <2>1. QED
    BY <1>1, LeastOf
<1>3. PICK x \in S : Min(T) = n - x
  BY <1>2
<1>4. \A y \in S : y <= x
  BY <1>2, <1>3
<1>5. QED
  BY <1>4 DEF Max

(* A plus sign is not trimmed.                                             *)
LEMMA PlusIsSolid == <<43>> \notin White
<1> DEFINE a == <<43>>
<1>1. /\ Len(<<194, 160>>) = 2 /\ Len(a) = 1 /\ a[1] = 43
      /\ <<9>>[1] = 9 /\ <<10>>[1] = 10 /\ <<13>>[1] = 13 /\ <<32>>[1] = 32
  OBVIOUS
<1>2. a # <<9>> /\ a # <<10>> /\ a # <<13>> /\ a # <<32>> /\ a # <<194, 160>>
  BY <1>1
<1>3. QED
  BY <1>2 DEF White

(* What trim leaves is in the text, and has all that is not white.         *)
LEMMA TrimFacts ==
  ASSUME NEW t \in Seq(Chars)
  PROVE  /\ trim(t) \in Seq(Chars)
         /\ \A k \in DOMAIN trim(t) : \E j \in DOMAIN t : trim(t)[k] = t[j]
         /\ \A j \in DOMAIN t : t[j] \notin White => \E k \in DOMAIN trim(t) : trim(t)[k] = t[j]
<1> DEFINE solid == {k \in DOMAIN t : t[k] \notin White}
           u == SubSeq(t, Min(solid), Max(solid))
<1>1. Len(t) \in Nat /\ DOMAIN t = 1 .. Len(t) /\ \A k \in 1 .. Len(t) : t[k] \in Chars
  BY TextFacts
<1>2. trim(t) = IF solid = {} THEN <<>> ELSE u
  BY DEF trim
<1>3. CASE solid = {}
  <2>1. <<>> \in Seq(Chars) /\ DOMAIN <<>> = {}
    BY EmptySeq
  <2>2. QED
    BY <1>2, <1>3, <2>1
<1>4. CASE solid # {}
  <2> DEFINE low == Min(solid)
             top == Max(solid)
  <2>1. solid \in SUBSET (0 .. Len(t)) /\ solid \in SUBSET Nat
    BY <1>1
  <2>2. low \in solid /\ top \in solid /\ \A y \in solid : low <= y /\ y <= top
    <3> HIDE DEF solid
    <3>1. QED
      BY <1>1, <1>4, <2>1, LeastOf, GreatestOf
  <2>3. low \in 1 .. Len(t) /\ top \in 1 .. Len(t) /\ low <= top
    BY <1>1, <2>2
  <2> HIDE DEF low, top
  <2>4. ASSUME NEW k \in low .. top PROVE t[k] \in Chars
    BY <1>1, <2>3
  <2>5. /\ u \in Seq(Chars) /\ Len(u) = top - low + 1
        /\ \A k \in 1 .. top - low + 1 : u[k] = t[low + k - 1]
    <3>1. u = SubSeq(t, low, top)
      BY DEF low, top
    <3>2. low \in Int /\ top \in Int
      BY <2>3
    <3> HIDE DEF u
    <3>3. QED
      BY <2>3, <2>4, <3>1, <3>2, SubSeqProperties
  <2>6. DOMAIN u = 1 .. top - low + 1
    <3> HIDE DEF u
    <3>1. QED
      BY <2>5, LenProperties
  <2>7. ASSUME NEW k \in DOMAIN u PROVE \E j \in DOMAIN t : u[k] = t[j]
    <3> HIDE DEF u
    <3>1. k \in 1 .. top - low + 1 /\ low + k - 1 \in 1 .. Len(t)
      BY <1>1, <2>3, <2>6
    <3>2. QED
      BY <1>1, <2>5, <3>1
  <2>8. ASSUME NEW j \in DOMAIN t, t[j] \notin White PROVE \E k \in DOMAIN u : u[k] = t[j]
    <3>1. j \in solid
      BY <2>8
    <3>2. low <= j /\ j <= top /\ j \in 1 .. Len(t)
      BY <1>1, <2>2, <3>1
    <3>3. j - low + 1 \in 1 .. top - low + 1 /\ low + (j - low + 1) - 1 = j
      BY <2>3, <3>2
    <3> HIDE DEF u
    <3>4. u[j - low + 1] = t[low + (j - low + 1) - 1]
      BY <2>5, <3>3
    <3>5. QED
      BY <2>6, <3>3, <3>4
  <2>9. trim(t) = u
    BY <1>2, <1>4
  <2> HIDE DEF u
  <2>10. QED
    BY <2>5, <2>7, <2>8, <2>9
<1>5. QED
  BY <1>3, <1>4

-----------------------------------------------------------------------------

(* What HexMeansBytes says, of any text.                                   *)
LEMMA MeansBytes ==
  ASSUME text \in Seq(Chars)
  PROVE  HexMeansBytes
<1> DEFINE t == text
           bytes == hex_decode(t)
<1>1. Len(t) \in Nat /\ DOMAIN t = 1 .. Len(t) /\ \A k \in 1 .. Len(t) : t[k] \in Chars
  BY TextFacts
<1>2. bytes \notin {None, Panics} => to_ascii_lowercase(Zeros(t)) = hex_encode(bytes)
  <2>1. SUFFICES ASSUME bytes \notin {None, Panics}
                 PROVE  to_ascii_lowercase(Zeros(t)) = hex_encode(bytes)
    OBVIOUS
  <2>2. Decodes(t)
    BY <2>1, HexFacts
  <2>3. bytes = Decoded(t)
    BY <2>2, HexFacts
  <2> HIDE DEF bytes
  <2>4. QED
    BY <2>2, <2>3, DecodedText
<1>3. bytes = Panics => \E k \in DOMAIN t : Len(t[k]) > 1
  <2>1. SUFFICES ASSUME bytes = Panics PROVE \E k \in DOMAIN t : Len(t[k]) > 1
    OBVIOUS
  <2>2. ~Plain(t)
    BY <2>1, HexFacts
  <2>3. PICK k \in 1 .. Len(t) : Len(t[k]) # 1
    BY <2>2 DEF Plain
  <2>4. Len(t[k]) \in 1 .. 4
    BY <1>1, CharFacts
  <2> DEFINE n == Len(t[k])
  <2>5. n \in 1 .. 4 /\ n # 1
    BY <2>3, <2>4
  <2> HIDE DEF n
  <2>6. n > 1
    BY <2>5
  <2>7. QED
    BY <1>1, <2>6 DEF n
<1>4. Len(t) % 2 = 0 /\ (\A k \in DOMAIN t : is_ascii_hexdigit(t[k])) => bytes \notin {None, Panics}
  <2>1. SUFFICES ASSUME Len(t) % 2 = 0, \A k \in DOMAIN t : is_ascii_hexdigit(t[k])
                 PROVE  bytes \notin {None, Panics}
    OBVIOUS
  <2>2. Digits(t)
    BY <2>1 DEF Digits
  <2>3. Decodes(t)
    BY <2>1, <2>2, DigitsDecode
  <2>4. QED
    BY <2>3, HexFacts
<1>5. QED
  BY <1>2, <1>3, <1>4, Zenon DEF HexMeansBytes, Zeros

(* Without a plus sign there is no zero to put in its place.               *)
LEMMA NoPlusZeros ==
  ASSUME NEW t \in Seq(Chars), \A k \in DOMAIN t : t[k] # << 43 >>
  PROVE  Zeros(t) = t
<1>1. DOMAIN t = 1 .. Len(t) /\ t \in [1 .. Len(t) -> Chars]
  BY SeqFacts
<1>2. QED
  BY <1>1 DEF Zeros

(* What NormalizedIsCanonical says, of any text.                           *)
LEMMA Canonical ==
  ASSUME text \in Seq(Chars)
  PROVE  NormalizedIsCanonical
<1> DEFINE t == trim(text)
           normal == normalize_sha256_hex(text)
           digest == hex_decode(t)
           plus == <<43>> \in ToSet(text)
           typed == digest \notin {None, Panics} /\ ~plus
<1>1. /\ t \in Seq(Chars) /\ Len(t) \in Nat /\ DOMAIN t = 1 .. Len(t)
  <2>1. t \in Seq(Chars)
    BY TrimFacts
  <2> HIDE DEF t
  <2>2. QED
    BY <2>1, TextFacts
<1>2. ~plus <=> \A k \in DOMAIN t : t[k] # <<43>>
  <2>1. plus <=> \E j \in DOMAIN text : text[j] = <<43>>
    BY DEF ToSet
  <2>2. /\ \A k \in DOMAIN t : \E j \in DOMAIN text : t[k] = text[j]
        /\ \A j \in DOMAIN text : text[j] \notin White => \E k \in DOMAIN t : t[k] = text[j]
    BY TrimFacts
  <2>3. <<43>> \notin White
    BY PlusIsSolid
  <2> DEFINE c == <<43>>
  <2> HIDE DEF c, t
  <2>4. (\E j \in DOMAIN text : text[j] = c) <=> (\E k \in DOMAIN t : t[k] = c)
    BY <2>2, <2>3 DEF c
  <2>5. QED
    BY <2>1, <2>4 DEF c
<1>3. normal = IF Len(Bytes(t)) # 2 * DigestSize THEN None
               ELSE IF ~Digits(t) THEN None ELSE to_ascii_lowercase(t)
  BY DEF normalize_sha256_hex, Digits
<1>n. to_ascii_lowercase(t) # None
  <2> HIDE DEF t
  <2>1. to_ascii_lowercase(t) \in Seq(Chars)
    BY <1>1, LowerSeq
  <2>2. QED
    BY <2>1, ConversionAssumption
<1>d. DigestSize \in Nat
  BY ConversionAssumption
<1> HIDE DEF t
<1>4. ASSUME normal = None PROVE ~(typed /\ Len(digest) = DigestSize)
  <2>1. SUFFICES ASSUME typed, Len(digest) = DigestSize PROVE FALSE
    OBVIOUS
  <2>2. Decodes(t) /\ digest = Decoded(t)
    <3>1. Decodes(t)
      BY <1>1, <2>1, HexFacts
    <3>2. QED
      BY <1>1, <3>1, HexFacts
  <2>3. Digits(t)
    BY <1>1, <1>2, <2>1, <2>2, DigitsDecode
  <2>4. Len(Bytes(t)) = Len(t)
    BY <1>1, <2>2, PlainBytes DEF Decodes
  <2>5. Len(t) = 2 * DigestSize
    <3>1. Len(t) = 2 * Len(Decoded(t))
      BY <1>1, <2>2, DecodedText, Zenon
    <3> HIDE DEF digest
    <3>2. QED
      BY <2>1, <2>2, <3>1, SMTT(40)
  <2> HIDE DEF normal
  <2>6. normal # None
    BY <1>3, <1>n, <2>3, <2>4, <2>5
  <2>7. QED
    BY <1>4, <2>6
<1>5. ASSUME normal # None PROVE typed /\ Len(digest) = DigestSize /\ normal = hex_encode(digest)
  <2>1. Len(Bytes(t)) = 2 * DigestSize /\ Digits(t) /\ normal = to_ascii_lowercase(t)
    BY <1>3, <1>5
  <2>2. Plain(t)
    BY <1>1, <2>1, DigitsDecode
  <2>3. Len(t) = 2 * DigestSize /\ Len(t) % 2 = 0
    <3>1. Len(t) = 2 * DigestSize
      BY <1>1, <2>1, <2>2, PlainBytes
    <3>2. QED
      BY <1>d, <3>1
  <2>4. Decodes(t)
    BY <1>1, <2>1, <2>3, DigitsDecode
  <2>5. digest = Decoded(t) /\ digest \notin {None, Panics} /\ Decoded(t) \in Seq(0 .. 255)
    BY <1>1, <2>4, HexFacts, SMTT(40)
  <2>6. Len(t) = 2 * Len(Decoded(t)) /\ to_ascii_lowercase(Zeros(t)) = hex_encode(Decoded(t))
    BY <1>1, <2>4, DecodedText, ZenonT(40)
  <2>7. \A k \in DOMAIN t : t[k] # <<43>>
    <3>1. SUFFICES ASSUME NEW k \in DOMAIN t, t[k] = << 43 >> PROVE FALSE
      OBVIOUS
    <3>2. is_ascii_hexdigit(t[k])
      BY <2>1 DEF Digits
    <3> DEFINE b == t[k][1]
    <3>3. HexByte(b) /\ b = 43
      BY <3>1, <3>2 DEF is_ascii_hexdigit, HexByte
    <3> HIDE DEF b
    <3>4. ~HexByte(43)
      BY DEF HexByte
    <3>5. QED
      BY <3>3, <3>4
  <2>8. Zeros(t) = t
    BY <1>1, <2>7, NoPlusZeros
  <2> HIDE DEF digest, normal
  <2>9. Len(digest) = DigestSize
    <3>1. Len(Decoded(t)) \in Nat
      BY <2>5, LenProperties
    <3> DEFINE n == Len(Decoded(t))
    <3>2. n \in Nat /\ 2 * n = 2 * DigestSize
      BY <2>3, <2>6, <3>1
    <3> HIDE DEF n
    <3>3. n = DigestSize
      BY <1>d, <3>2
    <3>4. QED
      BY <2>5, <3>3 DEF n
  <2>10. QED
    BY <1>2, <2>1, <2>5, <2>6, <2>7, <2>8, <2>9
<1>6. IF normal = None THEN ~(typed /\ Len(digest) = DigestSize)
      ELSE typed /\ Len(digest) = DigestSize /\ normal = hex_encode(digest)
  BY <1>4, <1>5
<1>7. QED
  BY <1>6, Zenon DEF NormalizedIsCanonical, t
-----------------------------------------------------------------------------
(* FoldLeft. *)

(* What steps leave of a base, when the values of a sequence are taken in  *)
(* turn.                                                                   *)
Steps(take, s) == [k \in 1 .. Len(s) |-> take[s[k]]]
Folded(S, base, take, s) == (CHOOSE f : Runs(f, S, base, Steps(take, s), Len(s)))[Len(s)]

(* Two loops that start alike and take the same n steps agree after them.  *)
LEMMA RunsAgree ==
  ASSUME NEW S, NEW base, NEW n \in Nat, NEW m \in Nat, n <= m, NEW step, NEW more,
         \A k \in 1 .. n : step[k] = more[k],
         NEW f, Runs(f, S, base, step, n), NEW g, Runs(g, S, base, more, m)
  PROVE  f[n] = g[n]
<1> DEFINE Q == {k \in Nat : k <= n => f[k] = g[k]}
<1>0. /\ f[0] = base /\ \A k \in 1 .. n : f[k] = step[k][f[k - 1]]
      /\ g[0] = base /\ \A k \in 1 .. m : g[k] = more[k][g[k - 1]]
  BY DEF Runs
<1>1. 0 \in Q
  BY <1>0
<1>2. ASSUME NEW k \in Nat, k \in Q PROVE k + 1 \in Q
  <2>1. SUFFICES ASSUME k + 1 <= n PROVE f[k + 1] = g[k + 1]
    OBVIOUS
  <2>2. k + 1 \in 1 .. n /\ k + 1 \in 1 .. m /\ (k + 1) - 1 = k /\ k <= n
    BY <2>1
  <2>3. f[k] = g[k]
    BY <1>2, <2>2
  <2>4. f[k + 1] = step[k + 1][f[k]] /\ g[k + 1] = more[k + 1][g[k]]
    BY <1>0, <2>2
  <2>5. QED
    BY <2>2, <2>3, <2>4
<1>3. n \in Q
  BY <1>1, <1>2, SetInduction
<1>4. QED
  BY <1>3

FoldRuns(S, base, take, s) ==
  \E f : Runs(f, S, base, Steps(take, s), Len(s)) /\ Folded(S, base, take, s) = f[Len(s)]

(* A fold over a sequence is a loop that takes a step for each element.    *)
LEMMA StepsRun ==
  ASSUME NEW S, NEW T, NEW base \in S, NEW take \in [T -> [S -> S]], NEW s \in Seq(T)
  PROVE  /\ Steps(take, s) \in [1 .. Len(s) -> [S -> S]]
         /\ FoldRuns(S, base, take, s)
<1>1. Len(s) \in Nat /\ \A k \in 1 .. Len(s) : s[k] \in T
  BY SeqFacts
<1>2. Steps(take, s) \in [1 .. Len(s) -> [S -> S]]
  BY <1>1 DEF Steps
<1>3. \E f : Runs(f, S, base, Steps(take, s), Len(s))
  BY <1>1, <1>2, RunsExist
<1>4. QED
  BY <1>2, <1>3, Zenon DEF Folded, FoldRuns

(* A fold starts from its base and takes one element at a time.            *)
LEMMA FoldedFacts ==
  ASSUME NEW S, NEW T, NEW base \in S, NEW take \in [T -> [S -> S]]
  PROVE  /\ Folded(S, base, take, <<>>) = base
         /\ \A s \in Seq(T) : Folded(S, base, take, s) \in S
         /\ \A s \in Seq(T) : \A x \in T :
              Folded(S, base, take, Append(s, x)) = take[x][Folded(S, base, take, s)]
<1>1. Folded(S, base, take, <<>>) = base
  <2>1. <<>> \in Seq(T) /\ Len(<<>>) = 0
    BY EmptySeq
  <2>a. FoldRuns(S, base, take, <<>>)
    BY <2>1, StepsRun
  <2>2. PICK f : Runs(f, S, base, Steps(take, <<>>), Len(<<>>))
                 /\ Folded(S, base, take, <<>>) = f[Len(<<>>)]
    BY <2>a DEF FoldRuns
  <2>3. QED
    BY <2>1, <2>2 DEF Runs
<1>2. ASSUME NEW s \in Seq(T) PROVE Folded(S, base, take, s) \in S
  <2>1. PICK f : Runs(f, S, base, Steps(take, s), Len(s)) /\ Folded(S, base, take, s) = f[Len(s)]
    <3>1. FoldRuns(S, base, take, s)
      BY StepsRun
    <3>2. QED
      BY <3>1 DEF FoldRuns
  <2>2. Len(s) \in 0 .. Len(s)
    BY SeqFacts
  <2>3. QED
    BY <2>1, <2>2 DEF Runs
<1>3. ASSUME NEW s \in Seq(T), NEW x \in T
      PROVE  Folded(S, base, take, Append(s, x)) = take[x][Folded(S, base, take, s)]
  <2> DEFINE u == Append(s, x)
             n == Len(s)
  <2>1. /\ u \in Seq(T) /\ n \in Nat /\ Len(u) = n + 1 /\ u[n + 1] = x
        /\ \A k \in 1 .. n : u[k] = s[k]
    BY AppendProperties, SeqFacts
  <2> HIDE DEF u
  <2>a. FoldRuns(S, base, take, s) /\ FoldRuns(S, base, take, u)
    BY <2>1, StepsRun
  <2>2. PICK f : Runs(f, S, base, Steps(take, s), n) /\ Folded(S, base, take, s) = f[n]
    BY <2>a DEF FoldRuns
  <2>3. PICK g : Runs(g, S, base, Steps(take, u), Len(u)) /\ Folded(S, base, take, u) = g[Len(u)]
    BY <2>a DEF FoldRuns
  <2>4. \A k \in 1 .. n : Steps(take, s)[k] = Steps(take, u)[k]
    BY <2>1 DEF Steps
  <2>5. Steps(take, u)[n + 1] = take[x]
    BY <2>1 DEF Steps
  <2> HIDE DEF n
  <2>6. f[n] = g[n]
    <3>1. n + 1 \in Nat /\ n <= n + 1
      BY <2>1
    <3>2. Runs(g, S, base, Steps(take, u), n + 1)
      BY <2>1, <2>3
    <3>3. QED
      BY <2>1, <2>2, <2>4, <3>1, <3>2, RunsAgree
  <2>7. g[n + 1] = Steps(take, u)[n + 1][g[n]]
    <3>1. n + 1 \in 1 .. n + 1 /\ (n + 1) - 1 = n
      BY <2>1
    <3>2. QED
      BY <2>1, <2>3, <3>1 DEF Runs
  <2>8. QED
    BY <2>1, <2>2, <2>3, <2>5, <2>6, <2>7 DEF u
<1>4. QED
  BY <1>1, <1>2, <1>3

-----------------------------------------------------------------------------
(* The folds of the community modules take the greatest place of a set of  *)
(* places at a time.                                                       *)

Foldable(S, T, base, take) == base \in S /\ take \in [T -> [S -> S]]

(* FoldedFacts of an opaque predicate, for provers that lose themselves in *)
(* it.                                                                     *)
LEMMA FoldableFacts ==
  ASSUME NEW S, NEW T, NEW base, NEW take, Foldable(S, T, base, take)
  PROVE  /\ Folded(S, base, take, <<>>) = base
         /\ \A s \in Seq(T) : Folded(S, base, take, s) \in S
         /\ \A s \in Seq(T) : \A x \in T :
              Folded(S, base, take, Append(s, x)) = take[x][Folded(S, base, take, s)]
<1>1. base \in S /\ take \in [T -> [S -> S]]
  BY DEF Foldable
<1>2. QED
  BY <1>1, FoldedFacts

(* The order in which FoldLeft takes a set of places.                      *)
LEMMA TopOf ==
  ASSUME NEW n \in Nat
  PROVE  /\ \A q \in SUBSET (1 .. n) : q # {} => Max(q) \in q /\ Max(q) \in 1 .. n
         /\ \A q \in SUBSET (1 .. n) : n \in q => Max(q) = n
         /\ \A q \in SUBSET (1 .. n + 1) : n + 1 \in q => Max(q) = n + 1
<1>1. ASSUME NEW m \in Nat, NEW q \in SUBSET (1 .. m), q # {}
      PROVE  Max(q) \in q /\ Max(q) \in 1 .. m /\ (m \in q => Max(q) = m)
  <2>1. q \in SUBSET (0 .. m)
    OBVIOUS
  <2>2. Max(q) \in q /\ \A y \in q : y <= Max(q)
    BY <1>1, <2>1, GreatestOf
  <2> DEFINE x == Max(q)
  <2>3. x \in q /\ x \in 1 .. m /\ \A y \in q : y <= x
    BY <2>2
  <2> HIDE DEF x
  <2>4. m \in q => x = m
    BY <2>3
  <2>5. QED
    BY <2>3, <2>4 DEF x
<1>2. n + 1 \in Nat
  OBVIOUS
<1>3. QED
  BY <1>1, <1>2

SetRuns(g, S, base, step, n) ==
  /\ g \in [SUBSET (1 .. n) -> S] /\ g[{}] = base
  /\ \A q \in SUBSET (1 .. n) : q # {} => g[q] = step[Max(q)][g[q \ {Max(q)}]]

(* A loop over the subsets of 1 .. n, as FoldLeft is defined.              *)
LEMMA SetRunsExist ==
  ASSUME NEW S, NEW base \in S, NEW n \in Nat, NEW step \in [1 .. n -> [S -> S]]
  PROVE  \E g : SetRuns(g, S, base, step, n)
<1> DEFINE Q == {m \in Nat : m <= n => \E g : SetRuns(g, S, base, step, m)}
<1>1. 0 \in Q
  <2> DEFINE g == [q \in SUBSET (1 .. 0) |-> base]
  <2>1. g \in [SUBSET (1 .. 0) -> S] /\ g[{}] = base
    OBVIOUS
  <2>2. \A q \in SUBSET (1 .. 0) : q = {}
    OBVIOUS
  <2> HIDE DEF g
  <2>3. SetRuns(g, S, base, step, 0)
    BY <2>1, <2>2 DEF SetRuns
  <2>4. QED
    BY <2>3
<1>2. ASSUME NEW m \in Nat, m \in Q PROVE m + 1 \in Q
  <2>1. SUFFICES ASSUME m + 1 <= n PROVE \E g : SetRuns(g, S, base, step, m + 1)
    OBVIOUS
  <2>2. PICK h : SetRuns(h, S, base, step, m)
    BY <1>2, <2>1
  <2>3. /\ h \in [SUBSET (1 .. m) -> S] /\ h[{}] = base
        /\ \A q \in SUBSET (1 .. m) : q # {} => h[q] = step[Max(q)][h[q \ {Max(q)}]]
    BY <2>2 DEF SetRuns
  <2> DEFINE g == [q \in SUBSET (1 .. m + 1) |->
                     IF m + 1 \in q THEN step[m + 1][h[q \ {m + 1}]] ELSE h[q]]
  <2>4. m + 1 \in 1 .. n /\ step[m + 1] \in [S -> S]
    BY <2>1
  <2>5. ASSUME NEW q \in SUBSET (1 .. m + 1)
        PROVE  /\ q \ {m + 1} \in SUBSET (1 .. m)
               /\ m + 1 \notin q => q \in SUBSET (1 .. m)
    OBVIOUS
  <2>6. g \in [SUBSET (1 .. m + 1) -> S]
    BY <2>3, <2>4, <2>5
  <2>7. g[{}] = base
    BY <2>3
  <2>8. ASSUME NEW q \in SUBSET (1 .. m + 1), q # {}
        PROVE  g[q] = step[Max(q)][g[q \ {Max(q)}]]
    <3>1. CASE m + 1 \in q
      <4>1. Max(q) = m + 1
        BY <3>1, TopOf
      <4>2. g[q] = step[m + 1][h[q \ {m + 1}]]
        BY <3>1
      <4>3. g[q \ {m + 1}] = h[q \ {m + 1}]
        BY <2>5
      <4> HIDE DEF g
      <4>4. QED
        BY <4>1, <4>2, <4>3
    <3>2. CASE m + 1 \notin q
      <4>1. q \in SUBSET (1 .. m)
        BY <2>5, <3>2
      <4>2. Max(q) \in 1 .. m
        BY <2>8, <4>1, TopOf
      <4>3. g[q] = h[q]
        BY <3>2
      <4>4. g[q \ {Max(q)}] = h[q \ {Max(q)}]
        BY <3>2
      <4>5. h[q] = step[Max(q)][h[q \ {Max(q)}]]
        BY <2>3, <2>8, <4>1
      <4> HIDE DEF g
      <4>6. QED
        BY <4>3, <4>4, <4>5
    <3>3. QED
      BY <3>1, <3>2
  <2> HIDE DEF g
  <2>9. SetRuns(g, S, base, step, m + 1)
    BY <2>6, <2>7, <2>8 DEF SetRuns
  <2>10. QED
    BY <2>9
<1>3. n \in Q
  BY <1>1, <1>2, SetInduction
<1>4. QED
  BY <1>3

(* A fold that goes through the sets of places is the steps in turn.       *)
SetFold(iter, S, base, take, s) ==
  /\ iter[{}] = base
  /\ \A q \in SUBSET (1 .. Len(s)) :
       q # {} /\ iter[q \ {Max(q)}] \in S => iter[q] = take[s[Max(q)]][iter[q \ {Max(q)}]]

(* Such a loop, with the steps of a fold.                                  *)
LEMMA SetFoldExists ==
  ASSUME NEW S, NEW T, NEW base \in S, NEW take \in [T -> [S -> S]], NEW s \in Seq(T)
  PROVE  \E g \in [SUBSET (1 .. Len(s)) -> S] : SetFold(g, S, base, take, s)
<1> DEFINE n == Len(s)
           step == Steps(take, s)
<1>1. n \in Nat /\ step \in [1 .. n -> [S -> S]]
  BY StepsRun, SeqFacts
<1>2. \A k \in 1 .. n : step[k] = take[s[k]]
  BY DEF Steps
<1> HIDE DEF n, step
<1>3. PICK g : SetRuns(g, S, base, step, n)
  BY <1>1, SetRunsExist
<1>4. \A q \in SUBSET (1 .. n) : q # {} => g[q] = take[s[Max(q)]][g[q \ {Max(q)}]]
  BY <1>1, <1>2, <1>3, TopOf DEF SetRuns
<1>5. QED
  BY <1>3, <1>4 DEF SetRuns, SetFold, n

(* It ends where the fold over the sequence ends.                          *)
LEMMA FoldedBySets ==
  ASSUME NEW S, NEW T, NEW base \in S, NEW take \in [T -> [S -> S]], NEW s \in Seq(T),
         NEW iter, SetFold(iter, S, base, take, s)
  PROVE  iter[DOMAIN s] = Folded(S, base, take, s)
<1> DEFINE n == Len(s)
<1>1. n \in Nat /\ DOMAIN s = 1 .. n
  BY SeqFacts
<1>2. PICK f : Runs(f, S, base, Steps(take, s), n) /\ Folded(S, base, take, s) = f[n]
  <2>1. FoldRuns(S, base, take, s)
    BY StepsRun
  <2>2. QED
    BY <2>1 DEF FoldRuns
<1>3. /\ f \in [0 .. n -> S] /\ f[0] = base
      /\ \A k \in 1 .. n : f[k] = take[s[k]][f[k - 1]]
  <2>1. \A k \in 1 .. n : Steps(take, s)[k] = take[s[k]]
    BY DEF Steps
  <2>2. QED
    BY <1>2, <2>1 DEF Runs
<1> DEFINE Q == {m \in Nat : m <= n => iter[1 .. m] = f[m]}
<1>4. 0 \in Q
  <2>1. 1 .. 0 = {}
    OBVIOUS
  <2>2. QED
    BY <1>3, <2>1 DEF SetFold
<1>5. ASSUME NEW m \in Nat, m \in Q PROVE m + 1 \in Q
  <2>1. SUFFICES ASSUME m + 1 <= n PROVE iter[1 .. m + 1] = f[m + 1]
    OBVIOUS
  <2>2. m \in 0 .. n /\ m + 1 \in 1 .. n /\ (m + 1) - 1 = m
    BY <1>1, <2>1
  <2>3. iter[1 .. m] = f[m] /\ f[m] \in S
    BY <1>3, <1>5, <2>2
  <2> DEFINE q == 1 .. m + 1
  <2>4. q \in SUBSET (1 .. n) /\ q # {} /\ q \in SUBSET (1 .. m + 1) /\ m + 1 \in q
    <3>1. m + 1 \in q
      OBVIOUS
    <3>2. \A x \in q : x \in 1 .. n
      BY <1>1, <2>1
    <3>3. q = 1 .. m + 1
      OBVIOUS
    <3> HIDE DEF q, n
    <3>4. QED
      BY <3>1, <3>2, <3>3
  <2>5. q \ {m + 1} = 1 .. m
    OBVIOUS
  <2> HIDE DEF q
  <2>6. Max(q) = m + 1
    BY <2>4, TopOf
  <2>7. iter[q] = take[s[m + 1]][iter[1 .. m]]
    <3>1. iter[q \ {Max(q)}] = iter[1 .. m]
      BY <2>5, <2>6
    <3>2. iter[q] = take[s[Max(q)]][iter[q \ {Max(q)}]]
      BY <2>3, <2>4, <3>1 DEF SetFold
    <3>3. QED
      BY <2>6, <3>1, <3>2
  <2>8. f[m + 1] = take[s[m + 1]][f[m]]
    BY <1>3, <2>2
  <2>9. QED
    BY <2>3, <2>7, <2>8 DEF q
<1>6. n \in Q
  BY <1>1, <1>4, <1>5, SetInduction
<1>7. QED
  BY <1>1, <1>2, <1>6
-----------------------------------------------------------------------------
(* Ids. *)

Reading == [id : Seq(Nat \union {None}), escape : Seq(0 .. 255)]
ReadTake == [b \in 0 .. 255 |-> [r \in Reading |-> ReadByte(r, b)]]
Unread == [id |-> <<>>, escape |-> <<>>]

(* The service goes on reading, whatever the byte.                         *)
LEMMA ReadingGoesOn ==
  ASSUME NEW r \in Reading, NEW b \in 0 .. 255
  PROVE  ReadByte(r, b) \in Reading
<1>1. r.id \in Seq(Nat \union {None}) /\ r.escape \in Seq(0 .. 255)
  BY DEF Reading
<1>2. CASE Len(r.escape) = 2
  <2> DEFINE x == from_str_radix(r.escape[2], b)
  <2>1. x \in Nat \union {None}
    <3>1. r.escape[2] \in 0 .. 255
      <4> DEFINE e == r.escape
      <4>1. e \in Seq(0 .. 255) /\ Len(e) = 2
        BY <1>1, <1>2
      <4> HIDE DEF e
      <4>2. e[2] \in 0 .. 255
        <5>1. 2 \in 1 .. Len(e)
          BY <4>1
        <5>2. QED
          BY <4>1, <5>1, SeqFacts, ZenonT(40)
      <4>3. QED
        BY <4>2 DEF e
    <3> DEFINE a == r.escape[2]
    <3> HIDE DEF a
    <3>2. from_str_radix(a, b) \in Nat \union {None}
      BY <3>1, RadixLow, Zenon DEF a
    <3>3. QED
      BY <3>2 DEF a
  <2>2. ReadByte(r, b) = [id |-> Append(r.id, x), escape |-> <<>>]
    BY <1>2 DEF ReadByte
  <2> HIDE DEF x
  <2>3. Append(r.id, x) \in Seq(Nat \union {None}) /\ <<>> \in Seq(0 .. 255)
    BY <1>1, <2>1, AppendProperties, EmptySeq
  <2>4. QED
    BY <2>2, <2>3 DEF Reading
<1>3. CASE Len(r.escape) # 2
  <2>1. b \in Nat \union {None}
    OBVIOUS
  <2>2. Append(r.id, b) \in Seq(Nat \union {None}) /\ Append(r.escape, b) \in Seq(0 .. 255)
    BY <1>1, <2>1, AppendProperties
  <2>3. ReadByte(r, b) \in {[r EXCEPT !.escape = Append(@, b)], [r EXCEPT !.id = Append(@, b)]}
    BY <1>3 DEF ReadByte
  <2>4. QED
    BY <1>1, <2>2, <2>3, ZenonT(40) DEF Reading
<1>4. QED
  BY <1>2, <1>3

(* Reading a path is a fold of ReadByte.                                   *)
LEMMA ReadFold ==
  ASSUME NEW s \in Seq(0 .. 255)
  PROVE  FoldLeft(ReadByte, Unread, s) = Folded(Reading, Unread, ReadTake, s)
<1> DEFINE F(g) == [q \in SUBSET (DOMAIN s) |->
                      IF q = {} THEN Unread
                      ELSE LET x == Max(q) IN ReadByte(g[q \ {x}], s[x])]
           iter == CHOOSE g : g = F(g)
           n == Len(s)
<1>1. n \in Nat /\ DOMAIN s = 1 .. n /\ \A k \in 1 .. n : s[k] \in 0 .. 255
  BY SeqFacts
<1>2. Unread \in Reading
  BY EmptySeq DEF Unread, Reading
<1>3. ReadTake \in [0 .. 255 -> [Reading -> Reading]]
  BY ReadingGoesOn DEF ReadTake
<1> HIDE DEF n
<1>4. \A q \in SUBSET (1 .. n) : q # {} =>
        \A r \in Reading : ReadTake[s[Max(q)]][r] = ReadByte(r, s[Max(q)])
  BY <1>1, TopOf, Zenon DEF ReadTake
<1>5. PICK g \in [SUBSET (1 .. n) -> Reading] : SetFold(g, Reading, Unread, ReadTake, s)
  BY <1>2, <1>3, SetFoldExists, ZenonT(40) DEF n
<1>6. g = F(g)
  BY <1>1, <1>4, <1>5 DEF SetFold, n
<1>7. iter = F(iter)
  BY <1>6, Zenon
<1>8. FoldLeft(ReadByte, Unread, s) = iter[DOMAIN s]
  BY DEF FoldLeft, MapThenFoldSet
<1> HIDE DEF iter
<1>9. SetFold(iter, Reading, Unread, ReadTake, s)
  <2>1. iter[{}] = Unread
    BY <1>7, Zenon
  <2>2. \A q \in SUBSET (1 .. n) : q # {} => iter[q] = ReadByte(iter[q \ {Max(q)}], s[Max(q)])
    BY <1>1, <1>7, Zenon
  <2>3. QED
    BY <1>4, <2>1, <2>2 DEF SetFold, n
<1>10. iter[DOMAIN s] = Folded(Reading, Unread, ReadTake, s)
  <2>1. \A it : SetFold(it, Reading, Unread, ReadTake, s) =>
                 it[DOMAIN s] = Folded(Reading, Unread, ReadTake, s)
    <3> DEFINE S == Reading
               T == 0 .. 255
               base == Unread
               take == ReadTake
    <3>1. base \in S /\ take \in [T -> [S -> S]] /\ s \in Seq(T)
      BY <1>2, <1>3
    <3> HIDE DEF S, T, base, take
    <3>2. \A it : SetFold(it, S, base, take, s) => it[DOMAIN s] = Folded(S, base, take, s)
      BY <3>1, FoldedBySets
    <3>3. QED
      BY <3>2 DEF S, base, take
  <2>2. QED
    BY <1>9, <2>1
<1>11. QED
  BY <1>8, <1>10

(* Induction over a set of sequences.                                      *)
LEMMA SeqInduction ==
  ASSUME NEW T, NEW P, <<>> \in P, \A s \in Seq(T) : \A x \in T : s \in P => Append(s, x) \in P
  PROVE  Seq(T) \subseteq P
<1>1. SUFFICES ASSUME NEW s \in Seq(T) PROVE s \in P
  OBVIOUS
<1> DEFINE n == Len(s)
           Q == {m \in Nat : m <= n => SubSeq(s, 1, m) \in P}
<1>2. n \in Nat /\ \A k \in 1 .. n : s[k] \in T
  BY SeqFacts
<1>3. 0 \in Q
  <2>1. SubSeq(s, 1, 0) = <<>>
    OBVIOUS
  <2>2. QED
    BY <2>1
<1>4. ASSUME NEW m \in Nat, m \in Q PROVE m + 1 \in Q
  <2>1. SUFFICES ASSUME m + 1 <= n PROVE SubSeq(s, 1, m + 1) \in P
    OBVIOUS
  <2>2. m + 1 \in 1 .. n /\ m <= n
    BY <1>2, <2>1
  <2>3. SubSeq(s, 1, m) \in Seq(T) /\ SubSeq(s, 1, m) \in P /\ s[m + 1] \in T
    <3>1. SubSeq(s, 1, m) \in P
      BY <1>4, <2>2
    <3>2. \A k \in 1 .. m : s[k] \in T
      BY <1>2, <2>2
    <3>3. SubSeq(s, 1, m) \in Seq(T)
      BY <1>2, <2>2, <3>2, SubSeqProperties
    <3>4. QED
      BY <1>2, <2>2, <3>1, <3>3
  <2>4. SubSeq(s, 1, m + 1) = Append(SubSeq(s, 1, m), s[m + 1])
    <3> HIDE DEF n
    <3>1. SubSeq(s, 1, m + 1) = [k \in 1 .. m + 1 |-> s[k]]
      BY <1>2, <2>2 DEF n
    <3>2. Append(SubSeq(s, 1, m), s[m + 1]) = [k \in 1 .. m + 1 |-> s[k]]
      BY <1>2, <2>2 DEF n
    <3>3. QED
      BY <3>1, <3>2
  <2>5. QED
    BY <2>3, <2>4
<1>5. n \in Q
  BY <1>2, <1>3, <1>4, SetInduction
<1>6. SubSeq(s, 1, n) = s
  OBVIOUS
<1>7. SubSeq(s, 1, n) \in P
  BY <1>2, <1>5
<1>8. QED
  BY <1>6, <1>7, Zenon

(* What the values of a sequence are written as, one after the other.      *)
Written(g, v) == FlattenSeq([i \in DOMAIN v |-> g[v[i]]])

(* Written is FlattenSeq of what is written for each element, step by      *)
(* step.                                                                   *)
LEMMA WrittenFacts ==
  ASSUME NEW T, NEW U, NEW g \in [T -> Seq(U)]
  PROVE  /\ Written(g, <<>>) = <<>>
         /\ \A v \in Seq(T) : Written(g, v) \in Seq(U)
         /\ \A v \in Seq(T) : \A x \in T : Written(g, Append(v, x)) = Written(g, v) \o g[x]
<1> DEFINE parts(v) == [i \in DOMAIN v |-> g[v[i]]]
<1>1. ASSUME NEW v \in Seq(T)
      PROVE  parts(v) \in Seq(Seq(U)) /\ Len(parts(v)) = Len(v)
  <2>1. Len(v) \in Nat /\ DOMAIN v = 1 .. Len(v) /\ \A i \in 1 .. Len(v) : v[i] \in T
    BY SeqFacts
  <2>2. parts(v) \in [1 .. Len(v) -> Seq(U)]
    BY <2>1
  <2> HIDE DEF parts
  <2>3. QED
    BY <2>1, <2>2, MadeSeq
<1>2. Written(g, <<>>) = <<>>
  <2>1. DOMAIN <<>> = {} /\ parts(<<>>) = <<>>
    OBVIOUS
  <2>2. FlattenSeq(<<>>) = <<>>
    BY DEF FlattenSeq
  <2>3. QED
    BY <2>1, <2>2 DEF Written
<1>3. ASSUME NEW v \in Seq(T) PROVE Written(g, v) \in Seq(U)
  <2>1. parts(v) \in Seq(Seq(U))
    BY <1>1
  <2>2. FlattenSeq(parts(v)) \in Seq(U)
    <3> HIDE DEF parts
    <3>1. QED
      BY <2>1, PlacesExist
  <2>3. QED
    BY <2>2 DEF Written
<1>4. ASSUME NEW v \in Seq(T), NEW x \in T PROVE Written(g, Append(v, x)) = Written(g, v) \o g[x]
  <2> DEFINE n == Len(v)
             u == Append(v, x)
  <2>1. /\ n \in Nat /\ DOMAIN v = 1 .. n /\ DOMAIN u = 1 .. n + 1
        /\ u[n + 1] = x /\ \A i \in 1 .. n : u[i] = v[i]
    <3>1. u \in Seq(T) /\ Len(u) = n + 1 /\ u[n + 1] = x /\ \A i \in 1 .. n : u[i] = v[i]
      BY AppendProperties
    <3> HIDE DEF u
    <3>2. QED
      BY <3>1, SeqFacts
  <2>2. parts(v) \in Seq(Seq(U)) /\ Len(parts(v)) = n /\ g[x] \in Seq(U)
    BY <1>1
  <2>3. parts(u) = Append(parts(v), g[x])
    <3> DEFINE w == parts(v)
    <3>1. Append(w, g[x]) = [i \in 1 .. n + 1 |-> IF i = n + 1 THEN g[x] ELSE w[i]]
      <4> HIDE DEF w, n
      <4>1. QED
        BY <2>1, <2>2 DEF w
    <3>2. \A i \in 1 .. n : w[i] = g[v[i]]
      BY <2>1
    <3>3. parts(u) = [i \in 1 .. n + 1 |-> g[u[i]]]
      BY <2>1
    <3>4. \A i \in 1 .. n + 1 : g[u[i]] = IF i = n + 1 THEN g[x] ELSE w[i]
      <4> HIDE DEF w, u, n
      <4>1. QED
        BY <2>1, <3>2
    <3> HIDE DEF w, u, n
    <3>5. QED
      BY <3>1, <3>3, <3>4 DEF w
  <2>4. FlattenSeq(Append(parts(v), g[x])) = FlattenSeq(parts(v)) \o g[x]
    <3> HIDE DEF parts
    <3>1. QED
      BY <2>2, FlattenAppend
  <2> HIDE DEF u
  <2>5. QED
    BY <2>3, <2>4 DEF Written, u
<1>5. QED
  BY <1>2, <1>3, <1>4

-----------------------------------------------------------------------------

(* A byte is its two hex digits.                                           *)
LEMMA ByteOfTwo ==
  ASSUME NEW b \in 0 .. 255
  PROVE  /\ b \div 16 \in 0 .. 15 /\ b % 16 \in 0 .. 15 /\ 16 * (b \div 16) + (b % 16) = b
OBVIOUS

(* The digits of an escape are unreserved, and read back.                  *)
LEMMA UpperDigitFacts ==
  ASSUME NEW d \in 0 .. 15
  PROVE  /\ UpperDigit(d) \in 0 .. 255 /\ UpperDigit(d) \in Unreserved \ {Percent}
         /\ UpperDigit(d) # 43 /\ DigitOf(UpperDigit(d)) = d
BY SMTT(40) DEF UpperDigit, DigitOf, Unreserved, Percent

(* An escape is a percent sign and two digits, and reads back as its byte. *)
LEMMA EscapeFacts ==
  ASSUME NEW b \in 0 .. 255
  PROVE  \E x, y \in 0 .. 255 : /\ Escape(b) = <<Percent, x, y>>
                                /\ {x, y} \subseteq Unreserved
                                /\ from_str_radix(x, y) = b
<1> DEFINE x == UpperDigit(b \div 16)
           y == UpperDigit(b % 16)
<1>1. b \div 16 \in 0 .. 15 /\ b % 16 \in 0 .. 15 /\ 16 * (b \div 16) + (b % 16) = b
  BY ByteOfTwo
<1>2. /\ x \in 0 .. 255 /\ x \in Unreserved /\ x # 43 /\ DigitOf(x) = b \div 16
      /\ y \in 0 .. 255 /\ y \in Unreserved /\ DigitOf(y) = b % 16
  BY <1>1, UpperDigitFacts
<1>3. Escape(b) = <<Percent, x, y>>
  BY DEF Escape
<1> HIDE DEF x, y
<1>4. from_str_radix(x, y) = b
  <2>1. b \div 16 # None /\ b % 16 # None
    <3>1. b \div 16 \in Nat /\ b % 16 \in Nat
      BY <1>1
    <3>2. QED
      BY <3>1, ConversionAssumption
  <2>2. QED
    BY <1>1, <1>2, <2>1 DEF from_str_radix
<1>5. QED
  BY <1>2, <1>3, <1>4, Zenon

IdBytes == Unreserved \union {Percent}

(* The bytes of a segment.                                                 *)
LEMMA IdByteFacts == IdBytes \subseteq 0 .. 255 /\ Percent \in 0 .. 255 /\ Percent \notin Unreserved
BY DEF IdBytes, Unreserved, Percent

(* A segment is bytes.                                                     *)
LEMMA IdSeqs == Seq(IdBytes) \subseteq Seq(0 .. 255)
<1> DEFINE T == 0 .. 255
<1>1. IdBytes \subseteq T
  BY IdByteFacts
<1> HIDE DEF T
<1>2. Seq(IdBytes) \subseteq Seq(T)
  BY <1>1, SeqMonotonic, SMTT(40)
<1>3. QED
  BY <1>2 DEF T

(* What the service has read of the bytes of a path.                       *)
ReadBytes(s) == FoldLeft(ReadByte, Unread, s)
Reads(s, w) ==
  s \in Seq(IdBytes) /\ w \in Seq(0 .. 255) /\ ReadBytes(s) = [id |-> w, escape |-> <<>>]

(* Reading goes one byte at a time.                                        *)
LEMMA ReadFacts ==
  /\ ReadBytes(<<>>) = Unread
  /\ \A s \in Seq(0 .. 255) : \A b \in 0 .. 255 :
       ReadBytes(Append(s, b)) = ReadByte(ReadBytes(s), b)
<1>1. Unread \in Reading
  BY EmptySeq DEF Unread, Reading
<1>2. ReadTake \in [0 .. 255 -> [Reading -> Reading]]
  BY ReadingGoesOn DEF ReadTake
<1> DEFINE T == 0 .. 255
           F(s) == Folded(Reading, Unread, ReadTake, s)
<1>3. /\ F(<<>>) = Unread
      /\ \A s \in Seq(T) : F(s) \in Reading
      /\ \A s \in Seq(T) : \A b \in T : F(Append(s, b)) = ReadTake[b][F(s)]
  <2>1. ReadTake \in [T -> [Reading -> Reading]]
    BY <1>2
  <2> HIDE DEF T
  <2>2. QED
    BY <1>1, <2>1, FoldedFacts
<1>4. /\ <<>> \in Seq(0 .. 255)
      /\ \A s \in Seq(0 .. 255) : \A b \in 0 .. 255 : Append(s, b) \in Seq(0 .. 255)
  BY EmptySeq, AppendProperties
<1>5. \A s \in Seq(0 .. 255) : ReadBytes(s) = F(s)
  BY ReadFold DEF ReadBytes
<1> HIDE DEF F
<1>6. ASSUME NEW s \in Seq(0 .. 255), NEW b \in 0 .. 255
      PROVE  ReadBytes(Append(s, b)) = ReadByte(ReadBytes(s), b)
  <2>1. F(Append(s, b)) = ReadTake[b][F(s)] /\ F(s) \in Reading
    BY <1>3
  <2>2. ReadTake[b][F(s)] = ReadByte(F(s), b)
    BY <2>1, Zenon DEF ReadTake
  <2>3. QED
    BY <1>4, <1>5, <2>1, <2>2
<1>7. QED
  BY <1>3, <1>4, <1>5, <1>6

(* An unreserved byte is read as itself.                                   *)
LEMMA ReadsPlain ==
  ASSUME NEW s, NEW w, Reads(s, w), NEW b \in Unreserved
  PROVE  Reads(Append(s, b), Append(w, b))
<1>1. b \in 0 .. 255 /\ b \in IdBytes /\ b # Percent
  BY IdByteFacts DEF IdBytes
<1>2. s \in Seq(IdBytes) /\ w \in Seq(0 .. 255) /\ ReadBytes(s) = [id |-> w, escape |-> <<>>]
  BY DEF Reads
<1>3. s \in Seq(0 .. 255)
  BY <1>2, IdSeqs
<1>4. ReadBytes(Append(s, b)) = ReadByte([id |-> w, escape |-> <<>>], b)
  BY <1>1, <1>2, <1>3, ReadFacts
<1>5. ReadByte([id |-> w, escape |-> <<>>], b) = [id |-> Append(w, b), escape |-> <<>>]
  BY <1>1, SMTT(40) DEF ReadByte
<1>6. Append(s, b) \in Seq(IdBytes) /\ Append(w, b) \in Seq(0 .. 255)
  BY <1>1, <1>2, AppendProperties
<1>7. QED
  BY <1>4, <1>5, <1>6 DEF Reads

(* The second byte of an escape.                                           *)
LEMMA SecondOf ==
  ASSUME NEW T, NEW s \in Seq(T), Len(s) = 1, NEW b \in T
  PROVE  Len(Append(s, b)) = 2 /\ Append(s, b)[2] = b
<1>1. Len(Append(s, b)) = Len(s) + 1 /\ Append(s, b)[Len(s) + 1] = b
  BY AppendProperties, ZenonT(40)
<1>2. Len(s) + 1 = 2
  OBVIOUS
<1>3. QED
  BY <1>1, <1>2, Zenon

(* A byte appended to another makes the pair of them.                      *)
LEMMA PairFacts ==
  ASSUME NEW T, NEW a \in T, NEW b \in T
  PROVE  Append(<<a>>, b) = <<a, b>> /\ <<a>> \o <<b>> = <<a, b>>
<1> DEFINE s == <<a>>
           p == Append(s, b)
           q == <<a, b>>
<1>1. s \in Seq(T) /\ q \in Seq(T) /\ Len(s) = 1 /\ s[1] = a /\ Len(q) = 2 /\ q[1] = a /\ q[2] = b
  OBVIOUS
<1>2. p = s \o <<b>>
  BY <1>1, AppendIsConcat
<1>3. p \in Seq(T) /\ Len(p) = 2 /\ p[1] = a /\ p[2] = b
  <2> HIDE DEF s
  <2>1. p \in Seq(T) /\ Len(p) = 2 /\ p[2] = b
    BY <1>1, AppendProperties, SecondOf
  <2>2. p[1] = s[1]
    BY <1>1, AppendProperties, SMT
  <2> HIDE DEF p
  <2>3. QED
    BY <1>1, <2>1, <2>2
<1>4. p = q
  <2> HIDE DEF p, q
  <2>1. \A i \in 1 .. Len(p) : p[i] = q[i]
    BY <1>1, <1>3
  <2>2. QED
    BY <1>1, <1>3, <2>1, SeqEqual
<1>5. QED
  BY <1>2, <1>4

(* A percent sign and two digits are read as the byte they are of.         *)
LEMMA ReadsTriple ==
  ASSUME NEW s, NEW w, Reads(s, w), NEW b \in 0 .. 255, NEW x \in 0 .. 255, NEW y \in 0 .. 255,
         {x, y} \subseteq Unreserved, from_str_radix(x, y) = b
  PROVE  Reads(s \o <<Percent, x, y>>, Append(w, b))
<1>1. {x, y} \subseteq Unreserved /\ from_str_radix(x, y) = b
  OBVIOUS
<1>2. s \in Seq(IdBytes) /\ w \in Seq(0 .. 255) /\ ReadBytes(s) = [id |-> w, escape |-> <<>>]
  BY DEF Reads
<1>3. s \in Seq(0 .. 255) /\ Percent \in 0 .. 255 /\ {Percent, x, y} \subseteq IdBytes
  BY <1>1, <1>2, IdByteFacts, IdSeqs, ZenonT(40) DEF IdBytes
<1> DEFINE s1 == Append(s, Percent)
           s2 == Append(s1, x)
           s3 == Append(s2, y)
<1>4. s1 \in Seq(0 .. 255) /\ s2 \in Seq(0 .. 255) /\ s3 \in Seq(IdBytes)
  BY <1>2, <1>3, AppendProperties
<1>5. s3 = s \o <<Percent, x, y>>
  BY <1>2, <1>3, SMTT(40)
<1>6. ReadBytes(s1) = [id |-> w, escape |-> <<Percent>>]
  <2>1. ReadBytes(s1) = ReadByte([id |-> w, escape |-> <<>>], Percent)
    BY <1>2, <1>3, ReadFacts
  <2>2. Append(<<>>, Percent) = <<Percent>> /\ Len(<<>>) = 0
    OBVIOUS
  <2>3. QED
    BY <2>1, <2>2 DEF ReadByte
<1>7. ReadBytes(s2) = [id |-> w, escape |-> Append(<<Percent>>, x)]
  <2>1. ReadBytes(s2) = ReadByte(ReadBytes(s1), x)
    <3> HIDE DEF s1
    <3>1. QED
      BY <1>4, ReadFacts
  <2>2. Len(<<Percent>>) = 1 /\ Len(<<>>) = 0
    OBVIOUS
  <2> HIDE DEF s1, s2
  <2>3. QED
    BY <1>6, <2>1, <2>2 DEF ReadByte
<1>8. ReadBytes(s3) = [id |-> Append(w, b), escape |-> <<>>]
  <2>1. ReadBytes(s3) = ReadByte(ReadBytes(s2), y)
    <3> HIDE DEF s2
    <3>1. QED
      BY <1>4, ReadFacts
  <2>2. Len(Append(<<Percent>>, x)) = 2 /\ Append(<<Percent>>, x)[2] = x
    <3> DEFINE T == 0 .. 255
               e == <<Percent>>
    <3>1. e \in Seq(T) /\ Len(e) = 1 /\ x \in T
      BY <1>3
    <3> HIDE DEF T, e
    <3>2. Len(Append(e, x)) = 2 /\ Append(e, x)[2] = x
      BY <3>1, SecondOf
    <3>3. QED
      BY <3>2 DEF e
  <2> HIDE DEF s2, s3
  <2>3. QED
    BY <1>1, <1>7, <2>1, <2>2 DEF ReadByte
<1>9. Append(w, b) \in Seq(0 .. 255)
  BY <1>2, AppendProperties
<1> HIDE DEF s3
<1>10. QED
  BY <1>1, <1>4, <1>5, <1>8, <1>9 DEF Reads

(* An escape is read as its byte.                                          *)
LEMMA ReadsEscape ==
  ASSUME NEW s, NEW w, Reads(s, w), NEW b \in 0 .. 255
  PROVE  Reads(s \o Escape(b), Append(w, b))
<1>1. PICK x \in 0 .. 255, y \in 0 .. 255 :
        Escape(b) = <<Percent, x, y>> /\ {x, y} \subseteq Unreserved /\ from_str_radix(x, y) = b
  BY EscapeFacts, ZenonT(40)
<1>2. Reads(s \o <<Percent, x, y>>, Append(w, b))
  BY <1>1, ReadsTriple
<1>3. QED
  BY <1>1, <1>2

EscapeOf == [b \in 0 .. 255 |-> Escape(b)]
Encoded(c) == IF Len(c) = 1 /\ c[1] \in Unreserved THEN c ELSE Written(EscapeOf, c)
EncodedOf == [c \in Chars |-> Encoded(c)]

(* Escapes are of bytes of a segment.                                      *)
LEMMA EscapeType == EscapeOf \in [0 .. 255 -> Seq(IdBytes)]
<1>1. ASSUME NEW b \in 0 .. 255 PROVE Escape(b) \in Seq(IdBytes)
  <2>1. PICK x \in 0 .. 255, y \in 0 .. 255 :
          /\ Escape(b) = <<Percent, x, y>>
          /\ {x, y} \subseteq Unreserved
          /\ from_str_radix(x, y) = b
    BY EscapeFacts, Zenon
  <2>2. Percent \in IdBytes /\ x \in IdBytes /\ y \in IdBytes
    BY <2>1 DEF IdBytes
  <2>3. <<Percent, x, y>> \in Seq(IdBytes)
    BY <2>2
  <2>4. QED
    BY <2>1, <2>3, SMTT(40)
<1>2. QED
  BY <1>1 DEF EscapeOf

(* The escapes of some bytes are read as those bytes.                      *)
LEMMA ReadsWritten ==
  ASSUME NEW s, NEW w, Reads(s, w), NEW c \in Seq(0 .. 255)
  PROVE  Written(EscapeOf, c) \in Seq(IdBytes) /\ Reads(s \o Written(EscapeOf, c), w \o c)
<1> DEFINE T == 0 .. 255
           E(v) == Written(EscapeOf, v)
           P == {v \in Seq(T) : Reads(s \o E(v), w \o v)}
<1>1. s \in Seq(IdBytes) /\ w \in Seq(T)
  BY DEF Reads
<1>2. /\ E(<<>>) = <<>>
      /\ \A v \in Seq(T) : E(v) \in Seq(IdBytes)
      /\ \A v \in Seq(T) : \A x \in T : E(Append(v, x)) = E(v) \o EscapeOf[x]
  <2>1. EscapeOf \in [T -> Seq(IdBytes)]
    BY EscapeType
  <2> HIDE DEF T
  <2>2. QED
    BY <2>1, WrittenFacts
<1> HIDE DEF E
<1>3. <<>> \in P
  <2>1. <<>> \in Seq(T) /\ s \o <<>> = s /\ w \o <<>> = w
    BY <1>1, EmptySeq, ConcatEmptySeq
  <2> HIDE DEF T
  <2>2. QED
    BY <1>2, <2>1
<1>4. ASSUME NEW v \in Seq(T), NEW x \in T, v \in P PROVE Append(v, x) \in P
  <2>1. Reads(s \o E(v), w \o v)
    BY <1>4
  <2>2. Reads((s \o E(v)) \o Escape(x), Append(w \o v, x))
    BY <2>1, ReadsEscape, SMTT(40)
  <2>3. EscapeOf[x] = Escape(x)
    BY DEF EscapeOf
  <2>4. E(v) \in Seq(IdBytes) /\ EscapeOf[x] \in Seq(IdBytes)
    BY <1>2, EscapeType, Zenon
  <2>5. (s \o E(v)) \o EscapeOf[x] = s \o (E(v) \o EscapeOf[x])
    <3> DEFINE e == E(v)
               f == EscapeOf[x]
               I == IdBytes
    <3>1. s \in Seq(I) /\ e \in Seq(I) /\ f \in Seq(I)
      BY <1>1, <2>4
    <3> HIDE DEF I, e, f
    <3>2. (s \o e) \o f = s \o (e \o f)
      BY <3>1, ConcatAssociative, SMTT(40)
    <3>3. QED
      BY <3>2 DEF e, f
  <2>6. Append(w \o v, x) = w \o Append(v, x)
    <3> HIDE DEF T
    <3>1. Append(w \o v, x) = (w \o v) \o <<x>> /\ Append(v, x) = v \o <<x>> /\ <<x>> \in Seq(T)
      <4>1. w \o v \in Seq(T)
        BY <1>1, ConcatProperties
      <4>2. QED
        BY <4>1, AppendIsConcat
    <3>2. (w \o v) \o <<x>> = w \o (v \o <<x>>)
      BY <1>1, <3>1, ConcatAssociative, SMTT(40)
    <3>3. QED
      BY <3>1, <3>2
  <2>7. E(Append(v, x)) = E(v) \o EscapeOf[x]
    BY <1>2, Zenon
  <2>8. Append(v, x) \in Seq(T)
    BY AppendProperties
  <2> HIDE DEF T
  <2>9. QED
    BY <2>2, <2>3, <2>5, <2>6, <2>7, <2>8
<1> HIDE DEF P, T
<1>5. Seq(T) \subseteq P
  BY <1>3, <1>4, SeqInduction
<1>6. c \in Seq(T)
  BY DEF T
<1>7. c \in P
  BY <1>5, <1>6
<1>8. QED
  BY <1>2, <1>6, <1>7 DEF P, E

(* What urlencode writes for a character is read as its bytes.             *)
LEMMA ReadsEncoded ==
  ASSUME NEW s, NEW w, Reads(s, w), NEW c \in Chars
  PROVE  Encoded(c) \in Seq(IdBytes) /\ Reads(s \o Encoded(c), w \o c)
<1>1. c \in Seq(0 .. 255) /\ (Len(c) = 1 => c = <<c[1]>>)
  BY CharFacts
<1>2. CASE Len(c) = 1 /\ c[1] \in Unreserved
  <2> DEFINE b == c[1]
  <2>1. c = <<b>> /\ b \in Unreserved /\ Encoded(c) = c
    BY <1>1, <1>2 DEF Encoded
  <2>2. b \in IdBytes /\ b \in 0 .. 255
    BY <2>1, IdByteFacts DEF IdBytes
  <2> HIDE DEF b
  <2>3. Reads(Append(s, b), Append(w, b))
    BY <2>1, ReadsPlain
  <2>4. Append(s, b) = s \o <<b>> /\ Append(w, b) = w \o <<b>>
    <3>1. s \in Seq(IdBytes) /\ w \in Seq(0 .. 255)
      BY DEF Reads
    <3>2. Append(s, b) = s \o <<b>>
      BY <2>2, <3>1, AppendIsConcat
    <3> DEFINE T == 0 .. 255
    <3>3. w \in Seq(T) /\ b \in T
      BY <2>2, <3>1
    <3> HIDE DEF T
    <3>4. Append(w, b) = w \o <<b>>
      BY <3>3, AppendIsConcat
    <3>5. QED
      BY <3>2, <3>4
  <2>5. <<b>> \in Seq(IdBytes)
    BY <2>2
  <2>6. QED
    BY <2>1, <2>3, <2>4, <2>5, Zenon
<1>3. CASE ~(Len(c) = 1 /\ c[1] \in Unreserved)
  <2>1. Encoded(c) = Written(EscapeOf, c)
    BY <1>3 DEF Encoded
  <2>2. QED
    BY <1>1, <2>1, ReadsWritten
<1>4. QED
  BY <1>2, <1>3

(* urlencode writes one character after another.                           *)
LEMMA UrlIsWritten ==
  ASSUME NEW t \in Seq(Chars)
  PROVE  urlencode(t) = Written(EncodedOf, t)
<1>1. ASSUME NEW k \in DOMAIN t
      PROVE  EncodedOf[t[k]] = IF Len(t[k]) = 1 /\ t[k][1] \in Unreserved THEN t[k]
                               ELSE FlattenSeq([i \in DOMAIN t[k] |-> Escape(t[k][i])])
  <2> DEFINE c == t[k]
  <2>1. c \in Chars
    BY SeqFacts
  <2>2. c \in Seq(0 .. 255)
    BY <2>1, CharFacts
  <2> HIDE DEF c
  <2>3. EncodedOf[c] = Encoded(c)
    BY <2>1 DEF EncodedOf
  <2>4. Written(EscapeOf, c) = FlattenSeq([i \in DOMAIN c |-> Escape(c[i])])
    <3>1. \A i \in DOMAIN c : c[i] \in 0 .. 255
      BY <2>2, SeqFacts, ZenonT(40)
    <3>2. \A i \in DOMAIN c : EscapeOf[c[i]] = Escape(c[i])
      BY <3>1 DEF EscapeOf
    <3>3. [i \in DOMAIN c |-> EscapeOf[c[i]]] = [i \in DOMAIN c |-> Escape(c[i])]
      BY <3>2, Zenon
    <3>4. QED
      BY <3>3, Zenon DEF Written
  <2>5. EncodedOf[c] = IF Len(c) = 1 /\ c[1] \in Unreserved THEN c
                       ELSE FlattenSeq([i \in DOMAIN c |-> Escape(c[i])])
    BY <2>3, <2>4 DEF Encoded
  <2>6. QED
    BY <2>5 DEF c
<1>2. [k \in DOMAIN t |-> EncodedOf[t[k]]] =
        [k \in DOMAIN t |-> IF Len(t[k]) = 1 /\ t[k][1] \in Unreserved THEN t[k]
                            ELSE FlattenSeq([i \in DOMAIN t[k] |-> Escape(t[k][i])])]
  BY <1>1, Zenon
<1>3. QED
  BY <1>2, Zenon DEF urlencode, Written

(* What urlencode writes is of bytes of a segment, and is read as the id.  *)
LEMMA IdIsRead ==
  ASSUME NEW t \in Seq(Chars)
  PROVE  Reads(urlencode(t), Bytes(t))
<1> DEFINE U(v) == Written(EncodedOf, v)
           P == {v \in Seq(Chars) : Reads(U(v), Bytes(v))}
<1>1. ReadBytes(<<>>) = Unread /\ <<>> \in Seq(IdBytes) /\ <<>> \in Seq(0 .. 255)
  BY ReadFacts, EmptySeq
<1>2. Reads(<<>>, <<>>)
  BY <1>1 DEF Reads, Unread
<1>3. EncodedOf \in [Chars -> Seq(IdBytes)]
  BY <1>2, ReadsEncoded DEF EncodedOf
<1>4. /\ U(<<>>) = <<>>
      /\ \A v \in Seq(Chars) : \A c \in Chars : U(Append(v, c)) = U(v) \o EncodedOf[c]
  BY <1>3, WrittenFacts
<1> HIDE DEF U
<1>5. <<>> \in P
  <2>1. Bytes(<<>>) = <<>> /\ <<>> \in Seq(Chars)
    BY EmptySeq DEF Bytes, FlattenSeq
  <2>2. QED
    BY <1>2, <1>4, <2>1
<1>6. ASSUME NEW v \in Seq(Chars), NEW c \in Chars, v \in P PROVE Append(v, c) \in P
  <2>1. Reads(U(v), Bytes(v))
    BY <1>6
  <2>2. Reads(U(v) \o Encoded(c), Bytes(v) \o c)
    BY <2>1, ReadsEncoded
  <2>3. U(Append(v, c)) = U(v) \o Encoded(c)
    BY <1>4 DEF EncodedOf
  <2>4. Bytes(Append(v, c)) = Bytes(v) \o c
    BY TextFacts, CharFacts, FlattenAppend DEF Bytes
  <2>5. Append(v, c) \in Seq(Chars)
    BY AppendProperties
  <2>6. QED
    BY <2>2, <2>3, <2>4, <2>5
<1> HIDE DEF P
<1>7. t \in P
  BY <1>5, <1>6, SeqInduction
<1>8. QED
  BY <1>7, UrlIsWritten DEF P, U

(* A dot, escaped or not, is read as a dot.                                *)
LEMMA ReadsDot ==
  ASSUME NEW s, NEW w, Reads(s, w), NEW d \in Dots
  PROVE  Reads(s \o d, Append(w, 46))
<1>1. 46 \in Unreserved /\ {50, 69, 101} \subseteq Unreserved
  BY DEF Unreserved
<1>u. {50, 69} \subseteq Unreserved /\ {50, 101} \subseteq Unreserved
  BY <1>1
<1>2. 46 \in 0 .. 255 /\ 50 \in 0 .. 255 /\ 69 \in 0 .. 255 /\ 101 \in 0 .. 255
  OBVIOUS
<1>3. from_str_radix(50, 69) = 46 /\ from_str_radix(50, 101) = 46
  <2>1. DigitOf(50) = 2 /\ DigitOf(69) = 14 /\ DigitOf(101) = 14
    BY DEF DigitOf
  <2>2. 2 # None /\ 14 # None
    BY ConversionAssumption
  <2>3. QED
    BY <2>1, <2>2 DEF from_str_radix
<1>4. CASE d = <<46>>
  <2>1. Reads(Append(s, 46), Append(w, 46))
    BY <1>1, ReadsPlain
  <2>2. s \in Seq(IdBytes) /\ 46 \in IdBytes
    BY <1>1 DEF Reads, IdBytes
  <2>3. Append(s, 46) = s \o <<46>>
    BY <2>2, AppendIsConcat
  <2>4. QED
    BY <1>4, <2>1, <2>3
<1>5. CASE d = <<Percent, 50, 69>>
  <2>1. Reads(s \o <<Percent, 50, 69>>, Append(w, 46))
    BY <1>u, <1>2, <1>3, ReadsTriple, ZenonT(40)
  <2>2. QED
    BY <1>5, <2>1
<1>6. CASE d = <<Percent, 50, 101>>
  <2>1. Reads(s \o <<Percent, 50, 101>>, Append(w, 46))
    BY <1>u, <1>2, <1>3, ReadsTriple, ZenonT(40)
  <2>2. QED
    BY <1>6, <2>1
<1>7. QED
  BY <1>4, <1>5, <1>6 DEF Dots

(* A segment of dots is read as one dot or two.                            *)
LEMMA ReadsDots ==
  ASSUME NEW s \in DotSegments
  PROVE  \E w \in {<< 46 >>, << 46, 46 >>} : Reads(s, w)
<1>1. Reads(<<>>, <<>>)
  BY ReadFacts, EmptySeq DEF Reads, Unread
<1>2. ASSUME NEW d \in Dots PROVE d \in Seq(0 .. 255) /\ Reads(d, << 46 >>)
  <2>1. Reads(<<>> \o d, Append(<<>>, 46))
    BY <1>1, ReadsDot
  <2>2. d \in Seq(Nat)
    <3>1. CASE d = <<46>>
      BY <3>1
    <3>2. CASE d = <<Percent, 50, 69>>
      BY <3>2 DEF Percent
    <3>3. CASE d = <<Percent, 50, 101>>
      BY <3>3 DEF Percent
    <3>4. QED
      BY <3>1, <3>2, <3>3 DEF Dots
  <2>3. <<>> \o d = d
    BY <2>2, ConcatEmptySeq
  <2>4. Append(<<>>, 46) = <<46>>
    OBVIOUS
  <2>5. Reads(d, <<46>>)
    BY <2>1, <2>3, <2>4
  <2>6. QED
    BY <2>5, IdSeqs DEF Reads
<1>3. ASSUME NEW d \in Dots, NEW e \in Dots PROVE Reads(d \o e, << 46, 46 >>)
  <2>1. Reads(d \o e, Append(<<46>>, 46))
    BY <1>2, ReadsDot
  <2>2. Append(<<46>>, 46) = <<46, 46>>
    BY PairFacts, 46 \in Nat, Zenon
  <2>3. QED
    BY <2>1, <2>2
<1> DEFINE Two == {d \o e : d \in Dots, e \in Dots}
<1>4. s \in Dots \/ s \in Two
  BY DEF DotSegments
<1>5. ASSUME s \in Two PROVE \E w \in {<< 46 >>, << 46, 46 >>} : Reads(s, w)
  <2>1. PICK d \in Dots, e \in Dots : s = d \o e
    BY <1>5
  <2>2. Reads(s, <<46, 46>>)
    BY <1>3, <2>1, Zenon
  <2>3. QED
    BY <2>2, Zenon
<1>6. ASSUME s \in Dots PROVE \E w \in {<< 46 >>, << 46, 46 >>} : Reads(s, w)
  BY <1>2, <1>6, Zenon
<1> HIDE DEF Two
<1>7. QED
  BY <1>4, <1>5, <1>6, Zenon

(* Dots are left as they are.                                              *)
LEMMA DotsAreKept ==
  ASSUME NEW t \in Seq(Chars), Bytes(t) \in {<< 46 >>, << 46, 46 >>}
  PROVE  urlencode(t) = Bytes(t)
<1>1. \A p \in 1 .. Len(Bytes(t)) : Bytes(t)[p] = 46
  <2>1. CASE Bytes(t) = <<46>>
    BY <2>1
  <2>2. CASE Bytes(t) = <<46, 46>>
    BY <2>2
  <2>3. QED
    BY <2>1, <2>2
<1>2. Plain(t)
  BY <1>1, LowBytes
<1>3. /\ Len(Bytes(t)) = Len(t) /\ DOMAIN t = 1 .. Len(t)
      /\ \A k \in 1 .. Len(t) : Len(t[k]) = 1 /\ t[k][1] = Bytes(t)[k]
  BY <1>2, PlainBytes, TextFacts DEF Plain
<1>4. \A k \in DOMAIN t : Len(t[k]) = 1 /\ t[k][1] \in Unreserved
  <2>1. 46 \in Unreserved
    BY DEF Unreserved
  <2>2. \A k \in DOMAIN t : Len(t[k]) = 1 /\ t[k][1] = 46
    BY <1>1, <1>3
  <2>3. QED
    BY <2>1, <2>2
<1>5. [k \in DOMAIN t |->
         IF Len(t[k]) = 1 /\ t[k][1] \in Unreserved THEN t[k]
         ELSE FlattenSeq([i \in DOMAIN t[k] |-> Escape(t[k][i])])] = [k \in DOMAIN t |-> t[k]]
  BY <1>4, Zenon
<1>6. t = [k \in DOMAIN t |-> t[k]]
  OBVIOUS
<1>7. urlencode(t) = FlattenSeq([k \in DOMAIN t |-> t[k]])
  BY <1>5, Zenon DEF urlencode
<1>8. QED
  BY <1>6, <1>7, Zenon DEF Bytes

(* What IdIsOneSegment says, of any id.                                    *)
LEMMA OneSegment ==
  ASSUME text \in Seq(Chars)
  PROVE  IdIsOneSegment
<1> DEFINE s == urlencode(text)
           w == Bytes(text)
<1>1. Reads(s, w)
  BY IdIsRead
<1>2. w \in {<<46>>, <<46, 46>>} => s = w
  BY DotsAreKept
<1> HIDE DEF s, w
<1>3. s \in Seq(IdBytes) /\ ReadBytes(s) = [id |-> w, escape |-> <<>>]
  BY <1>1 DEF Reads
<1>4. ToSet(s) \subseteq Unreserved \union {Percent}
  BY <1>3, SeqFacts DEF ToSet, IdBytes
<1>5. FoldLeft(ReadByte, [id |-> <<>>, escape |-> <<>>], s) = [id |-> w, escape |-> <<>>]
  BY <1>3, Zenon DEF ReadBytes, Unread
<1>6. s \in DotSegments => w \in {<<46>>, <<46, 46>>}
  <2>1. SUFFICES ASSUME s \in DotSegments PROVE w \in {<< 46 >>, << 46, 46 >>}
    OBVIOUS
  <2>2. PICK v \in {<<46>>, <<46, 46>>} : ReadBytes(s) = [id |-> v, escape |-> <<>>]
    BY <2>1, ReadsDots DEF Reads
  <2>3. QED
    BY <1>3, <2>2
<1>7. {<<46>>, <<46, 46>>} \subseteq DotSegments
  <2>1. <<46>> \o <<46>> = <<46, 46>>
    BY PairFacts, 46 \in Nat, Zenon
  <2>2. QED
    BY <2>1 DEF DotSegments, Dots
<1>8. IsSegment(s) <=> w \notin {<<46>>, <<46, 46>>}
  BY <1>2, <1>4, <1>6, <1>7, Zenon DEF IsSegment
<1>9. QED
  BY <1>5, <1>8, Zenon DEF IdIsOneSegment, s, w
-----------------------------------------------------------------------------
(* Base64. *)

Decoding == [acc : Nat, bits : {0, 2, 4, 6}, out : Seq(Nat), ended : BOOLEAN, failed : BOOLEAN]
Undecoded == [acc |-> 0, bits |-> 0, out |-> <<>>, ended |-> FALSE, failed |-> FALSE]
DecodeTake == [b \in 0 .. 255 |-> [d \in Decoding |-> DecodeByte(d, b)]]

(* The value of a base64 digit.                                            *)
LEMMA SextetFacts ==
  ASSUME NEW c \in 0 .. 255
  PROVE  /\ SextetOf(c) # None => SextetOf(c) \in 0 .. 63
         /\ c \in Skipped \union {Equals} => SextetOf(c) = None
         /\ Equals \notin Skipped
<1>1. None \notin Nat
  BY ConversionAssumption
<1>2. QED
  BY <1>1 DEF SextetOf, Skipped, Equals

(* An accumulator of 12 bits or more keeps its last 12.                    *)
LEMMA AccFacts ==
  ASSUME NEW a \in Nat
  PROVE  a % 2^AccWidth \in Nat /\ (a % 2^AccWidth) % 4096 = a % 4096
<1> DEFINE w == 2^AccWidth
           r == a % w
<1>1. w \in Nat \ {0} /\ w % 4096 = 0
  <2>1. 2^12 = 4096
    OBVIOUS
  <2>2. QED
    BY <2>1, WidthAssumption
<1> HIDE DEF w
<1>2. r \in Nat /\ a \div w \in Nat /\ a = w * (a \div w) + r
  BY <1>1
<1> DEFINE q == w \div 4096
           p == q * (a \div w)
<1>3. w = 4096 * q /\ q \in Nat
  BY <1>1
<1>4. p \in Nat /\ a = 4096 * p + r
  <2> DEFINE e == a \div w
  <2>1. e \in Nat /\ a = w * e + r
    BY <1>2
  <2> HIDE DEF q, r, e
  <2>2. a = (4096 * q) * e + r
    BY <1>3, <2>1
  <2>3. q * e \in Nat
    BY <1>3, <2>1
  <2>4. (4096 * q) * e = 4096 * (q * e)
    BY <1>3, <2>1
  <2>5. QED
    BY <2>2, <2>3, <2>4 DEF e
<1> HIDE DEF p, r
<1>5. r % 4096 = a % 4096
  BY <1>2, <1>4
<1>6. QED
  BY <1>2, <1>5 DEF r, w

(* Six more bits: what is in the accumulator, and what goes out.           *)
Low(acc) == acc % 4096
Octet(n) == n % 256
Fuller(d, acc) == [d EXCEPT !.acc = acc, !.bits = 6]
Out(d, acc, bits, byte) == [d EXCEPT !.acc = acc, !.bits = bits, !.out = Append(@, byte)]
TakenTo(d, x, acc) ==
  /\ acc \in Nat /\ Low(acc) = 64 * (d.acc % 64) + x
  /\ d.bits = 0 => Take(d, x) = Fuller(d, acc)
  /\ d.bits = 2 => Take(d, x) = Out(d, acc, 0, Octet(acc))
  /\ d.bits = 4 => Take(d, x) = Out(d, acc, 2, Octet(acc \div 4))
  /\ d.bits = 6 => Take(d, x) = Out(d, acc, 4, Octet(acc \div 16))

(* Take, by the bits left over before it, with the accumulator as it is    *)
(* after.                                                                  *)
LEMMA TakeFacts ==
  ASSUME NEW d \in Decoding, NEW x \in 0 .. 63
  PROVE  \E acc : TakenTo(d, x, acc)
<1> DEFINE a == d.acc * 64 + x
           acc == a % 2^AccWidth
           k == (d.bits + 6) - 8
           byte == Octet(acc \div 2^k)
<1>1. d.acc \in Nat /\ d.bits \in {0, 2, 4, 6}
  BY DEF Decoding
<1>2. a \in Nat /\ a % 4096 = 64 * (d.acc % 64) + x
  <2> DEFINE c == d.acc
  <2>1. c \in Nat
    BY <1>1
  <2> HIDE DEF c
  <2>2. c * 64 + x \in Nat /\ (c * 64 + x) % 4096 = 64 * (c % 64) + x
    BY <2>1, SMT
  <2>3. QED
    BY <2>2 DEF c
<1>3. acc \in Nat /\ acc % 4096 = a % 4096
  <2> HIDE DEF a
  <2>1. QED
    BY <1>2, AccFacts
<1>4. /\ d.bits + 6 >= 8 => Take(d, x) = Out(d, acc, k, byte)
      /\ ~(d.bits + 6 >= 8) => Take(d, x) = [d EXCEPT !.acc = acc, !.bits = d.bits + 6]
  BY Zenon DEF Take, Out, Octet
<1>5. 2^0 = 1 /\ 2^2 = 4 /\ 2^4 = 16
  OBVIOUS
<1>6. /\ d.bits = 2 => k = 0 /\ d.bits + 6 >= 8
      /\ d.bits = 4 => k = 2 /\ d.bits + 6 >= 8
      /\ d.bits = 6 => k = 4 /\ d.bits + 6 >= 8
      /\ d.bits = 0 => d.bits + 6 = 6 /\ ~(d.bits + 6 >= 8)
  BY <1>1
<1>7. /\ d.bits = 2 => byte = Octet(acc)
      /\ d.bits = 4 => byte = Octet(acc \div 4)
      /\ d.bits = 6 => byte = Octet(acc \div 16)
  <2>1. acc \div 1 = acc
    BY <1>3
  <2> HIDE DEF k, acc
  <2>2. QED
    BY <1>5, <1>6, <2>1
<1> HIDE DEF a, acc, k, byte
<1>8. d.bits = 0 => Take(d, x) = Fuller(d, acc)
  BY <1>4, <1>6, Zenon DEF Fuller
<1>9. d.bits = 2 => Take(d, x) = Out(d, acc, 0, Octet(acc))
  BY <1>4, <1>6, <1>7, Zenon
<1>10. d.bits = 4 => Take(d, x) = Out(d, acc, 2, Octet(acc \div 4))
  BY <1>4, <1>6, <1>7, Zenon
<1>11. d.bits = 6 => Take(d, x) = Out(d, acc, 4, Octet(acc \div 16))
  BY <1>4, <1>6, <1>7, Zenon
<1>12. TakenTo(d, x, acc)
  <2>1. Low(acc) = 64 * (d.acc % 64) + x
    BY <1>2, <1>3 DEF Low
  <2>2. acc \in Nat
    BY <1>3
  <2>3. QED
    BY <1>8, <1>9, <1>10, <1>11, <2>1, <2>2, Zenon DEF TakenTo
<1>13. QED
  BY <1>12, Zenon

(* decode_base64 goes on, whatever the byte.                               *)
LEMMA DecodingGoesOn ==
  ASSUME NEW d \in Decoding, NEW b \in 0 .. 255
  PROVE  DecodeByte(d, b) \in Decoding
<1>1. /\ d.acc \in Nat /\ d.bits \in {0, 2, 4, 6} /\ d.out \in Seq(Nat)
      /\ d.ended \in BOOLEAN /\ d.failed \in BOOLEAN
  BY DEF Decoding
<1>2. CASE d.ended \/ b \in Skipped
  BY <1>2 DEF DecodeByte
<1>3. CASE ~(d.ended \/ b \in Skipped) /\ b = Equals
  <2>1. DecodeByte(d, b) = [d EXCEPT !.ended = TRUE]
    BY <1>3 DEF DecodeByte
  <2>2. QED
    BY <1>1, <2>1 DEF Decoding
<1>4. CASE ~(d.ended \/ b \in Skipped) /\ b # Equals /\ SextetOf(b) = None
  <2>1. DecodeByte(d, b) = [d EXCEPT !.ended = TRUE, !.failed = TRUE]
    BY <1>4 DEF DecodeByte
  <2>2. QED
    BY <1>1, <2>1 DEF Decoding
<1>5. CASE ~(d.ended \/ b \in Skipped) /\ b # Equals /\ SextetOf(b) # None
  <2> DEFINE x == SextetOf(b)
  <2>1. DecodeByte(d, b) = Take(d, x)
    BY <1>5 DEF DecodeByte
  <2>2. x \in 0 .. 63
    BY <1>5, SextetFacts
  <2> HIDE DEF x
  <2>3. PICK acc : TakenTo(d, x, acc)
    BY <2>2, TakeFacts
  <2>4. acc \in Nat
    BY <2>3 DEF TakenTo
  <2>5. Octet(acc) \in Nat /\ Octet(acc \div 4) \in Nat /\ Octet(acc \div 16) \in Nat
    BY <2>4 DEF Octet
  <2>6. \A e \in Nat : \A k \in {0, 2, 4} : Out(d, acc, k, e) \in Decoding
    <3>1. ASSUME NEW e \in Nat, NEW k \in {0, 2, 4}
          PROVE  Out(d, acc, k, e) \in Decoding
      <4>1. Append(d.out, e) \in Seq(Nat)
        BY <1>1, AppendProperties
      <4>2. Out(d, acc, k, e) = [d EXCEPT !.acc = acc, !.bits = k, !.out = Append(d.out, e)]
        BY DEF Out
      <4>3. QED
        BY <1>1, <2>4, <4>1, <4>2 DEF Decoding
    <3>2. QED
      BY <3>1
  <2>7. Fuller(d, acc) \in Decoding
    BY <1>1, <2>4 DEF Fuller, Decoding
  <2>8. Take(d, x) \in Decoding
    BY <1>1, <2>3, <2>5, <2>6, <2>7, Zenon DEF TakenTo
  <2>9. QED
    BY <2>1, <2>8
<1>6. QED
  BY <1>2, <1>3, <1>4, <1>5

(* Decoding is a fold of DecodeByte.                                       *)
LEMMA DecodeFold ==
  ASSUME NEW s \in Seq(0 .. 255)
  PROVE  FoldLeft(DecodeByte, Undecoded, s) = Folded(Decoding, Undecoded, DecodeTake, s)
<1> DEFINE F(g) == [q \in SUBSET (DOMAIN s) |->
                      IF q = {} THEN Undecoded
                      ELSE LET x == Max(q) IN DecodeByte(g[q \ {x}], s[x])]
           iter == CHOOSE g : g = F(g)
           n == Len(s)
<1>1. n \in Nat /\ DOMAIN s = 1 .. n /\ \A k \in 1 .. n : s[k] \in 0 .. 255
  BY SeqFacts
<1>2. Undecoded \in Decoding
  BY EmptySeq DEF Undecoded, Decoding
<1>3. DecodeTake \in [0 .. 255 -> [Decoding -> Decoding]]
  BY DecodingGoesOn DEF DecodeTake
<1> HIDE DEF n
<1>4. \A q \in SUBSET (1 .. n) : q # {} =>
        \A r \in Decoding : DecodeTake[s[Max(q)]][r] = DecodeByte(r, s[Max(q)])
  BY <1>1, TopOf, Zenon DEF DecodeTake
<1>5. PICK g \in [SUBSET (1 .. n) -> Decoding] : SetFold(g, Decoding, Undecoded, DecodeTake, s)
  BY <1>2, <1>3, SetFoldExists DEF n
<1>6. g = F(g)
  BY <1>1, <1>4, <1>5 DEF SetFold, n
<1>7. iter = F(iter)
  BY <1>6, Zenon
<1>8. FoldLeft(DecodeByte, Undecoded, s) = iter[DOMAIN s]
  BY DEF FoldLeft, MapThenFoldSet
<1> HIDE DEF iter
<1>9. SetFold(iter, Decoding, Undecoded, DecodeTake, s)
  <2>1. iter[{}] = Undecoded
    BY <1>7, Zenon
  <2>2. \A q \in SUBSET (1 .. n) : q # {} => iter[q] = DecodeByte(iter[q \ {Max(q)}], s[Max(q)])
    BY <1>1, <1>7, Zenon
  <2>3. QED
    BY <1>4, <2>1, <2>2 DEF SetFold, n
<1>10. iter[DOMAIN s] = Folded(Decoding, Undecoded, DecodeTake, s)
  <2>1. \A it : SetFold(it, Decoding, Undecoded, DecodeTake, s) =>
                 it[DOMAIN s] = Folded(Decoding, Undecoded, DecodeTake, s)
    <3> DEFINE S == Decoding
               T == 0 .. 255
               base == Undecoded
               take == DecodeTake
    <3>1. base \in S /\ take \in [T -> [S -> S]] /\ s \in Seq(T)
      BY <1>2, <1>3
    <3> HIDE DEF S, T, base, take
    <3>2. \A it : SetFold(it, S, base, take, s) => it[DOMAIN s] = Folded(S, base, take, s)
      BY <3>1, FoldedBySets
    <3>3. QED
      BY <3>2 DEF S, base, take
  <2>2. QED
    BY <1>9, <2>1
<1>11. QED
  BY <1>8, <1>10

(* What decode_base64 has read of the bytes of a text.                     *)
DecodeBytes(s) == FoldLeft(DecodeByte, Undecoded, s)

(* Decoding goes one byte at a time.                                       *)
LEMMA DecodeFacts ==
  /\ DecodeBytes(<<>>) = Undecoded
  /\ \A s \in Seq(0 .. 255) : DecodeBytes(s) \in Decoding
  /\ \A s \in Seq(0 .. 255) : \A b \in 0 .. 255 :
       DecodeBytes(Append(s, b)) = DecodeByte(DecodeBytes(s), b)
<1>1. Undecoded \in Decoding
  BY EmptySeq DEF Undecoded, Decoding
<1>2. DecodeTake \in [0 .. 255 -> [Decoding -> Decoding]]
  BY DecodingGoesOn DEF DecodeTake
<1> DEFINE T == 0 .. 255
           F(s) == Folded(Decoding, Undecoded, DecodeTake, s)
<1>3. /\ F(<<>>) = Undecoded
      /\ \A s \in Seq(T) : F(s) \in Decoding
      /\ \A s \in Seq(T) : \A b \in T : F(Append(s, b)) = DecodeTake[b][F(s)]
  <2>1. DecodeTake \in [T -> [Decoding -> Decoding]]
    BY <1>2
  <2> HIDE DEF T
  <2>2. QED
    BY <1>1, <2>1, FoldedFacts
<1>4. /\ <<>> \in Seq(0 .. 255)
      /\ \A s \in Seq(0 .. 255) : \A b \in 0 .. 255 : Append(s, b) \in Seq(0 .. 255)
  BY EmptySeq, AppendProperties
<1>5. \A s \in Seq(0 .. 255) : DecodeBytes(s) = F(s)
  BY DecodeFold DEF DecodeBytes
<1> HIDE DEF F
<1>6. ASSUME NEW s \in Seq(0 .. 255), NEW b \in 0 .. 255
      PROVE  DecodeBytes(Append(s, b)) = DecodeByte(DecodeBytes(s), b)
  <2>1. F(Append(s, b)) = DecodeTake[b][F(s)] /\ F(s) \in Decoding
    BY <1>3
  <2>2. DecodeTake[b][F(s)] = DecodeByte(F(s), b)
    BY <2>1, Zenon DEF DecodeTake
  <2>3. QED
    BY <1>4, <1>5, <2>1, <2>2
<1>7. QED
  BY <1>3, <1>4, <1>5, <1>6, ZenonT(40)

(* The bytes that the digits stand for, as Base64Agrees names them.        *)
Place(k) == (4 * k) \div 3
OctetCount(n) == (6 * n) \div 8
BitsLeft(n) == (6 * n) % 8
OctetAt(v, k) == Octet((64 * v[Place(k) + 1] + v[Place(k) + 2]) \div 4^(2 - (k % 3)))
OctetsOf(v) == [k \in 1 .. OctetCount(Len(v)) |-> OctetAt(v, k - 1)]

(* Where the octets of n sextets are, and how many bits are left over.     *)
LEMMA PlaceFacts ==
  ASSUME NEW n \in Nat
  PROVE  /\ OctetCount(n) \in Nat /\ BitsLeft(n) \in {0, 2, 4, 6}
         /\ BitsLeft(n) = 0 => BitsLeft(n + 1) = 6 /\ OctetCount(n + 1) = OctetCount(n)
         /\ BitsLeft(n) # 0 => /\ n >= 1 /\ BitsLeft(n + 1) = BitsLeft(n) - 2
                               /\ OctetCount(n + 1) = OctetCount(n) + 1
                               /\ Place(OctetCount(n)) = n - 1
         /\ BitsLeft(n) = 2 => OctetCount(n) % 3 = 2
         /\ BitsLeft(n) = 4 => OctetCount(n) % 3 = 1
         /\ BitsLeft(n) = 6 => OctetCount(n) % 3 = 0
         /\ \A k \in 1 .. OctetCount(n) : /\ k - 1 \in Nat
                                          /\ Place(k - 1) + 1 \in 1 .. n
                                          /\ Place(k - 1) + 2 \in 1 .. n
<1>1. PICK q \in Nat, r \in 0 .. 3 : n = 4 * q + r
  <2>1. n \div 4 \in Nat /\ n % 4 \in 0 .. 3 /\ n = 4 * (n \div 4) + (n % 4)
    OBVIOUS
  <2>2. QED
    BY <2>1
<1>2. /\ r = 0 => OctetCount(n) = 3 * q /\ BitsLeft(n) = 0
      /\ r = 1 => OctetCount(n) = 3 * q /\ BitsLeft(n) = 6
      /\ r = 2 => OctetCount(n) = 3 * q + 1 /\ BitsLeft(n) = 4
      /\ r = 3 => OctetCount(n) = 3 * q + 2 /\ BitsLeft(n) = 2
  BY <1>1 DEF OctetCount, BitsLeft
<1>3. /\ r = 0 => OctetCount(n + 1) = 3 * q /\ BitsLeft(n + 1) = 6
      /\ r = 1 => OctetCount(n + 1) = 3 * q + 1 /\ BitsLeft(n + 1) = 4
      /\ r = 2 => OctetCount(n + 1) = 3 * q + 2 /\ BitsLeft(n + 1) = 2
      /\ r = 3 => OctetCount(n + 1) = 3 * q + 3 /\ BitsLeft(n + 1) = 0
  BY <1>1 DEF OctetCount, BitsLeft
<1>4. /\ r = 1 => Place(OctetCount(n)) = n - 1 /\ OctetCount(n) % 3 = 0
      /\ r = 2 => Place(OctetCount(n)) = n - 1 /\ OctetCount(n) % 3 = 1
      /\ r = 3 => Place(OctetCount(n)) = n - 1 /\ OctetCount(n) % 3 = 2
  BY <1>1, <1>2 DEF Place
<1>5. ASSUME NEW k \in 1 .. OctetCount(n)
      PROVE  k - 1 \in Nat /\ Place(k - 1) + 1 \in 1 .. n /\ Place(k - 1) + 2 \in 1 .. n
  <2>1. k \in Nat /\ k >= 1 /\ 8 * k <= 6 * n
    BY DEF OctetCount
  <2>2. Place(k - 1) \in Nat /\ 3 * Place(k - 1) <= 4 * (k - 1)
    BY <2>1 DEF Place
  <2>3. QED
    BY <2>1, <2>2
<1>6. OctetCount(n) \in Nat /\ BitsLeft(n) \in {0, 2, 4, 6}
  BY <1>1, <1>2
<1>7. BitsLeft(n) = 0 => BitsLeft(n + 1) = 6 /\ OctetCount(n + 1) = OctetCount(n)
  BY <1>1, <1>2, <1>3
<1>8. BitsLeft(n) # 0 => /\ n >= 1 /\ BitsLeft(n + 1) = BitsLeft(n) - 2
                         /\ OctetCount(n + 1) = OctetCount(n) + 1
                         /\ Place(OctetCount(n)) = n - 1
  BY <1>1, <1>2, <1>3, <1>4
<1>9. /\ BitsLeft(n) = 2 => OctetCount(n) % 3 = 2
      /\ BitsLeft(n) = 4 => OctetCount(n) % 3 = 1
      /\ BitsLeft(n) = 6 => OctetCount(n) % 3 = 0
  BY <1>1, <1>2, <1>4
<1>10. QED
  BY <1>5, <1>6, <1>7, <1>8, <1>9

(* The octet that goes out is in the last 12 bits of the accumulator.      *)
LEMMA LowOctets ==
  ASSUME NEW acc \in Nat, NEW y \in Nat, y < 4096, Low(acc) = y
  PROVE  /\ Octet(acc) = Octet(y) /\ Octet(acc \div 4) = Octet(y \div 4)
         /\ Octet(acc \div 16) = Octet(y \div 16)
<1>1. PICK e \in Nat : acc = 4096 * e + y
  <2>1. acc \div 4096 \in Nat /\ acc = 4096 * (acc \div 4096) + y
    BY SMT DEF Low
  <2>2. QED
    BY <2>1, SMT
<1>2. acc \div 4 = 1024 * e + (y \div 4) /\ acc \div 16 = 256 * e + (y \div 16)
  BY <1>1, SMT
<1>3. y \div 4 \in Nat /\ y \div 16 \in Nat
  OBVIOUS
<1>4. \A z \in Nat : (4096 * e + z) % 256 = z % 256 /\ (1024 * e + z) % 256 = z % 256
                     /\ (256 * e + z) % 256 = z % 256
  BY SMT
<1>5. QED
  BY <1>1, <1>2, <1>3, <1>4, SMT DEF Octet

(* One sextet more leaves the octets before as they are.                   *)
LEMMA OctetKept ==
  ASSUME NEW v \in Seq(Nat), NEW x \in Nat, NEW k \in 1 .. OctetCount(Len(v))
  PROVE  OctetAt(Append(v, x), k - 1) = OctetAt(v, k - 1)
<1> DEFINE n == Len(v)
           a == Place(k - 1) + 1
           b == Place(k - 1) + 2
<1>1. n \in Nat /\ \A i \in 1 .. n : Append(v, x)[i] = v[i]
  BY AppendProperties, LenProperties
<1> HIDE DEF n
<1>2. a \in 1 .. n /\ b \in 1 .. n
  BY <1>1, PlaceFacts DEF n
<1> HIDE DEF a, b
<1>3. Append(v, x)[a] = v[a] /\ Append(v, x)[b] = v[b]
  BY <1>1, <1>2
<1>4. QED
  BY <1>3, Zenon DEF OctetAt, a, b

(* One sextet more completes the octet of the last two sextets.            *)
LEMMA OctetAdded ==
  ASSUME NEW v \in Seq(0 .. 63), NEW x \in 0 .. 63, BitsLeft(Len(v)) # 0
  PROVE  LET y == 64 * v[Len(v)] + x
             new == OctetAt(Append(v, x), OctetCount(Len(v)))
         IN  /\ v[Len(v)] \in 0 .. 63
             /\ BitsLeft(Len(v)) = 2 => new = Octet(y)
             /\ BitsLeft(Len(v)) = 4 => new = Octet(y \div 4)
             /\ BitsLeft(Len(v)) = 6 => new = Octet(y \div 16)
<1> DEFINE n == Len(v)
           w == Append(v, x)
           c == OctetCount(n)
           y == 64 * v[n] + x
<1>1. n \in Nat /\ n >= 1 /\ Place(c) = n - 1
  BY LenProperties, PlaceFacts
<1>2. v[n] \in 0 .. 63
  <2> DEFINE T == 0 .. 63
  <2>1. v \in Seq(T) /\ n \in 1 .. Len(v)
    BY <1>1
  <2> HIDE DEF T, n
  <2>2. v[n] \in T
    BY <2>1, SeqFacts
  <2>3. QED
    BY <2>2 DEF T
<1>3. w[n] = v[n] /\ w[n + 1] = x
  BY <1>1, AppendProperties
<1>4. y \in Nat
  <2> DEFINE a == v[n]
  <2>1. a \in 0 .. 63
    BY <1>2
  <2> HIDE DEF a
  <2>2. 64 * a + x \in Nat
    BY <2>1
  <2>3. QED
    BY <2>2 DEF a
<1>5. /\ BitsLeft(n) = 2 => c % 3 = 2
      /\ BitsLeft(n) = 4 => c % 3 = 1
      /\ BitsLeft(n) = 6 => c % 3 = 0
  BY <1>1, PlaceFacts
<1>6. Place(c) + 1 = n /\ Place(c) + 2 = n + 1
  BY <1>1
<1>7. 64 * w[Place(c) + 1] + w[Place(c) + 2] = y
  BY <1>3, <1>6
<1> HIDE DEF y, c, n, w
<1>8. OctetAt(w, c) = Octet(y \div 4^(2 - (c % 3)))
  BY <1>7, Zenon DEF OctetAt
<1>9. /\ BitsLeft(n) = 2 => 4^(2 - (c % 3)) = 1
      /\ BitsLeft(n) = 4 => 4^(2 - (c % 3)) = 4
      /\ BitsLeft(n) = 6 => 4^(2 - (c % 3)) = 16
  <2>1. 2 - 0 = 2 /\ 2 - 1 = 1 /\ 2 - 2 = 0 /\ 4^0 = 1 /\ 4^1 = 4 /\ 4^2 = 16
    OBVIOUS
  <2>2. QED
    BY <1>5, <2>1
<1>10. y \div 1 = y
  BY <1>4
<1>11. /\ BitsLeft(n) = 2 => OctetAt(w, c) = Octet(y)
       /\ BitsLeft(n) = 4 => OctetAt(w, c) = Octet(y \div 4)
       /\ BitsLeft(n) = 6 => OctetAt(w, c) = Octet(y \div 16)
  BY <1>8, <1>9, <1>10
<1>12. QED
  BY <1>2, <1>11 DEF y, c, n, w

(* The octets of sextets are numbers.                                      *)
LEMMA OctetType ==
  ASSUME NEW v \in Seq(0 .. 63)
  PROVE  OctetsOf(v) \in Seq(Nat) /\ Len(OctetsOf(v)) = OctetCount(Len(v))
         /\ \A k \in 1 .. OctetCount(Len(v)) : OctetsOf(v)[k] = OctetAt(v, k - 1)
<1> DEFINE n == Len(v)
           m == OctetCount(n)
<1>1. n \in Nat /\ m \in Nat /\ \A i \in 1 .. n : v[i] \in 0 .. 63
  BY PlaceFacts, SeqFacts
<1>2. ASSUME NEW k \in 1 .. m PROVE OctetAt(v, k - 1) \in Nat
  <2> DEFINE j == Place(k - 1)
             a == v[j + 1]
             b == v[j + 2]
  <2>1. k - 1 \in Nat /\ j + 1 \in 1 .. n /\ j + 2 \in 1 .. n
    <3> HIDE DEF n
    <3>1. QED
      BY <1>1, PlaceFacts
  <2>2. a \in 0 .. 63 /\ b \in 0 .. 63
    BY <1>1, <2>1
  <2> HIDE DEF a, b
  <2>3. 64 * a + b \in Nat
    BY <2>2
  <2> DEFINE y == 64 * a + b
             e == (k - 1) % 3
  <2>4. e \in 0 .. 2
    BY <2>1
  <2> HIDE DEF y, e
  <2>5. 4^(2 - e) \in {1, 4, 16}
    <3>1. 2 - 0 = 2 /\ 2 - 1 = 1 /\ 2 - 2 = 0 /\ 4^0 = 1 /\ 4^1 = 4 /\ 4^2 = 16
      OBVIOUS
    <3>2. 4^(2 - 0) \in {1, 4, 16} /\ 4^(2 - 1) \in {1, 4, 16} /\ 4^(2 - 2) \in {1, 4, 16}
      BY <3>1
    <3>3. e = 0 \/ e = 1 \/ e = 2
      BY <2>4
    <3>4. QED
      BY <3>2, <3>3, Zenon
  <2> DEFINE f == 4^(2 - e)
  <2> HIDE DEF f
  <2>6. y \div f \in Nat
    <3>1. f = 1 \/ f = 4 \/ f = 16
      BY <2>5 DEF f
    <3>2. y \in Nat
      BY <2>3 DEF y
    <3>3. y \div 1 \in Nat /\ y \div 4 \in Nat /\ y \div 16 \in Nat
      BY <3>2
    <3>4. QED
      BY <3>1, <3>3
  <2>7. Octet(y \div f) \in Nat
    BY <2>6 DEF Octet
  <2>8. OctetAt(v, k - 1) = Octet(y \div f)
    BY Zenon DEF OctetAt, y, f, a, b, e, j
  <2>9. QED
    BY <2>7, <2>8
<1> DEFINE f == [k \in 1 .. m |-> OctetAt(v, k - 1)]
<1> HIDE DEF m
<1>3. f \in [1 .. m -> Nat]
  BY <1>2
<1> HIDE DEF f
<1>4. f \in Seq(Nat) /\ Len(f) = m
  BY <1>1, <1>3, MadeSeq
<1>5. OctetsOf(v) = f
  BY Zenon DEF OctetsOf, f, m
<1>6. \A k \in 1 .. m : f[k] = OctetAt(v, k - 1)
  BY DEF f
<1>7. QED
  BY <1>4, <1>5, <1>6, Zenon DEF m

(* One sextet more adds one octet, except the first of four.               *)
LEMMA OctetsGrow ==
  ASSUME NEW v \in Seq(0 .. 63), NEW x \in 0 .. 63
  PROVE  /\ BitsLeft(Len(v)) = 0 => OctetsOf(Append(v, x)) = OctetsOf(v)
         /\ BitsLeft(Len(v)) # 0 =>
              OctetsOf(Append(v, x)) =
                Append(OctetsOf(v), OctetAt(Append(v, x), OctetCount(Len(v))))
<1> DEFINE n == Len(v)
           w == Append(v, x)
           m == OctetCount(n)
           T == 0 .. 63
           p == OctetsOf(v)
           q == OctetsOf(w)
<1>1. n \in Nat /\ w \in Seq(T) /\ Len(w) = n + 1 /\ v \in Seq(Nat)
  <2>1. T \subseteq Nat
    OBVIOUS
  <2> HIDE DEF T
  <2>2. v \in Seq(T) /\ x \in T
    BY DEF T
  <2>3. QED
    BY <2>1, <2>2, AppendProperties, LenProperties, SeqMonotonic
<1>2. /\ p \in Seq(Nat) /\ Len(p) = m /\ \A k \in 1 .. m : p[k] = OctetAt(v, k - 1)
  BY OctetType
<1>3. /\ q \in Seq(Nat) /\ Len(q) = OctetCount(n + 1)
      /\ \A k \in 1 .. OctetCount(n + 1) : q[k] = OctetAt(w, k - 1)
  <2> HIDE DEF w, n
  <2>1. /\ q \in Seq(Nat) /\ Len(q) = OctetCount(Len(w))
        /\ \A k \in 1 .. OctetCount(Len(w)) : q[k] = OctetAt(w, k - 1)
    BY <1>1, OctetType
  <2>2. QED
    BY <1>1, <2>1, Zenon
<1>4. \A k \in 1 .. m : OctetAt(w, k - 1) = OctetAt(v, k - 1)
  BY <1>1, OctetKept
<1> HIDE DEF p, q, w, T
<1>5. m \in Nat
  BY <1>1, PlaceFacts
<1>6. CASE BitsLeft(n) = 0
  <2>1. OctetCount(n + 1) = m
    BY <1>1, <1>6, PlaceFacts
  <2> HIDE DEF m, n
  <2>2. Len(q) = Len(p) /\ \A k \in 1 .. Len(p) : q[k] = p[k]
    BY <1>2, <1>3, <1>4, <2>1
  <2>3. q = p
    BY <1>2, <1>3, <2>2, SeqEqual
  <2>4. QED
    BY <1>6, <2>3 DEF p, q, w, n
<1>7. CASE BitsLeft(n) # 0
  <2> DEFINE e == OctetAt(w, m)
             r == Append(p, e)
  <2>1. OctetCount(n + 1) = m + 1
    BY <1>1, <1>7, PlaceFacts
  <2> HIDE DEF m, n
  <2>2. q[m + 1] = e
    <3>1. m + 1 \in 1 .. m + 1 /\ (m + 1) - 1 = m
      BY <1>5
    <3>2. q[m + 1] = OctetAt(w, (m + 1) - 1)
      BY <1>3, <2>1, <3>1
    <3>3. QED
      BY <3>1, <3>2
  <2>3. e \in Nat
    <3>1. m + 1 \in 1 .. Len(q)
      BY <1>3, <1>5, <2>1
    <3>2. QED
      BY <1>3, <2>2, <3>1, SeqFacts
  <2> HIDE DEF e
  <2>4. /\ r \in Seq(Nat) /\ Len(r) = m + 1 /\ r[m + 1] = e
        /\ \A k \in 1 .. m : r[k] = p[k]
    BY <1>2, <2>3, AppendProperties
  <2> HIDE DEF r
  <2>5. Len(q) = Len(r) /\ \A k \in 1 .. Len(r) : q[k] = r[k]
    <3>1. \A k \in 1 .. m : q[k] = r[k]
      BY <1>2, <1>3, <1>4, <1>5, <2>1, <2>4
    <3>2. QED
      BY <1>3, <1>5, <2>1, <2>2, <2>4, <3>1
  <2>6. q = r
    BY <1>3, <2>4, <2>5, SeqEqual
  <2>7. QED
    BY <1>7, <2>6 DEF r, e, p, q, w, m, n
<1>8. QED
  BY <1>6, <1>7 DEF n

(* The digits before the first padding, as Base64Agrees names them.        *)
Pads(s) == {k \in DOMAIN s : s[k] = Equals}
Padded(s) == Pads(s) # {}
Before(s) == IF Pads(s) = {} THEN s ELSE SubSeq(s, 1, Min(Pads(s)) - 1)
SextetsOf == [b \in 0 .. 255 |-> IF b \in Skipped THEN <<>> ELSE <<SextetOf(b)>>]
Values(s) == Written(SextetsOf, Before(s))
Sextets == (0 .. 63) \union {None}

(* What is before the padding, with one byte more.                         *)
LEMMA BeforeFacts ==
  ASSUME NEW T, T \subseteq Nat, NEW s \in Seq(T), NEW b \in T
  PROVE  /\ Before(s) \in Seq(T) /\ (~Padded(s) => Before(s) = s)
         /\ Padded(Append(s, b)) <=> Padded(s) \/ b = Equals
         /\ Padded(Append(s, b)) => Before(Append(s, b)) = Before(s)
<1> DEFINE n == Len(s)
           w == Append(s, b)
<1>1. n \in Nat /\ DOMAIN s = 1 .. n /\ \A k \in 1 .. n : s[k] \in T
  BY SeqFacts
<1>2. /\ w \in Seq(T) /\ Len(w) = n + 1 /\ w[n + 1] = b
      /\ \A k \in 1 .. n : w[k] = s[k]
  BY AppendProperties
<1> HIDE DEF w, n
<1>3. DOMAIN w = 1 .. n + 1
  BY <1>2, SeqFacts
<1>4. Pads(w) = Pads(s) \union (IF b = Equals THEN {n + 1} ELSE {})
  BY <1>1, <1>2, <1>3 DEF Pads
<1>5. Pads(s) \subseteq 1 .. n
  BY <1>1 DEF Pads
<1>6. ASSUME Pads(s) # {} PROVE Min(Pads(s)) \in 1 .. n
  BY <1>1, <1>5, <1>6, LeastOf
<1>7. \A m \in 0 .. n : /\ SubSeq(w, 1, m) = SubSeq(s, 1, m)
                        /\ SubSeq(s, 1, m) \in Seq(T) /\ SubSeq(s, 1, n) = s
  <2>1. ASSUME NEW m \in 0 .. n
        PROVE  SubSeq(s, 1, m) \in Seq(T) /\ SubSeq(w, 1, m) = SubSeq(s, 1, m)
    <3>1. \A k \in 1 .. m : s[k] \in T /\ w[k] = s[k]
      BY <1>1, <1>2
    <3> DEFINE u == [k \in 1 .. m |-> s[k]]
    <3>2. /\ SubSeq(s, 1, m) = [k \in 1 .. m |-> s[(1 + k) - 1]]
          /\ SubSeq(w, 1, m) = [k \in 1 .. m |-> w[(1 + k) - 1]]
      BY <1>1 DEF SubSeq
    <3>3. SubSeq(s, 1, m) = u /\ SubSeq(w, 1, m) = u
      BY <1>1, <3>1, <3>2
    <3>4. u \in Seq(T)
      <4>1. m \in Nat /\ u \in [1 .. m -> T]
        BY <1>1, <3>1
      <4> HIDE DEF u
      <4>2. QED
        BY <4>1, MadeSeq
    <3>5. QED
      BY <3>3, <3>4
  <2>2. SubSeq(s, 1, n) = s
    BY SubSeqFull DEF n
  <2>3. QED
    BY <2>1, <2>2
<1>8. Before(s) \in Seq(T)
  BY <1>1, <1>6, <1>7 DEF Before
<1> DEFINE Goal == /\ Before(s) \in Seq(T) /\ (~Padded(s) => Before(s) = s)
                   /\ Padded(w) <=> Padded(s) \/ b = Equals
                   /\ Padded(w) => Before(w) = Before(s)
<1>9. ASSUME Pads(s) # {} PROVE Goal
  <2> DEFINE x == Min(Pads(s))
             y == Min(Pads(w))
  <2>1. x \in Pads(s) /\ (\A z \in Pads(s) : x <= z) /\ x \in 1 .. n
    BY <1>1, <1>5, <1>9, LeastOf
  <2>2. Pads(w) # {} /\ Pads(w) \in SUBSET Nat /\ Pads(s) \subseteq Pads(w)
    BY <1>1, <1>4, <1>5, <1>9
  <2>3. y \in Pads(w) /\ \A z \in Pads(w) : y <= z
    BY <2>2, LeastOf
  <2> HIDE DEF x, y
  <2>4. y = x
    BY <1>1, <1>4, <2>1, <2>2, <2>3
  <2>5. Before(w) = SubSeq(w, 1, x - 1) /\ Before(s) = SubSeq(s, 1, x - 1)
    BY <1>9, <2>2, <2>4 DEF Before, x, y
  <2>6. QED
    BY <1>1, <1>4, <1>7, <1>8, <1>9, <2>1, <2>2, <2>5 DEF Padded
<1>10. ASSUME Pads(s) = {}, b = Equals PROVE Goal
  <2>1. Pads(w) = {n + 1}
    BY <1>4, <1>10
  <2>2. Min(Pads(w)) = n + 1
    <3>1. Pads(w) \in SUBSET Nat /\ Pads(w) # {}
      BY <1>1, <2>1
    <3>2. Min(Pads(w)) \in Pads(w)
      BY <3>1, LeastOf
    <3>3. QED
      BY <2>1, <3>2
  <2>3. Before(w) = SubSeq(w, 1, n) /\ Before(s) = s
    <3>1. Pads(w) # {} /\ (n + 1) - 1 = n
      BY <1>1, <2>1
    <3>2. QED
      BY <1>10, <2>2, <3>1, Zenon DEF Before
  <2>4. QED
    BY <1>1, <1>7, <1>8, <1>10, <2>1, <2>3, SMT DEF Padded
<1>11. ASSUME Pads(s) = {}, b # Equals PROVE Goal
  BY <1>4, <1>8, <1>11 DEF Padded, Before
<1>12. QED
  BY <1>9, <1>10, <1>11, Zenon DEF w

(* What a byte adds to the sextets.                                        *)
LEMMA SextetsType == SextetsOf \in [0 .. 255 -> Seq(Sextets)]
<1>1. ASSUME NEW b \in 0 .. 255 PROVE SextetsOf[b] \in Seq(Sextets)
  <2>1. SextetOf(b) \in Sextets
    BY SextetFacts DEF Sextets
  <2> DEFINE S == Sextets
             x == SextetOf(b)
  <2> HIDE DEF S, x
  <2>2. <<>> \in Seq(S) /\ <<x>> \in Seq(S)
    BY <2>1 DEF S, x
  <2>3. SextetsOf[b] = <<>> \/ SextetsOf[b] = <<x>>
    BY DEF SextetsOf, x
  <2>4. QED
    BY <2>2, <2>3 DEF S
<1>2. QED
  BY <1>1 DEF SextetsOf

(* The sextets before the padding, with one byte more.                     *)
LEMMA ValuesFacts ==
  /\ Values(<<>>) = <<>> /\ ~Padded(<<>>)
  /\ \A s \in Seq(0 .. 255) : Values(s) \in Seq(Sextets)
  /\ \A s \in Seq(0 .. 255) : \A b \in 0 .. 255 :
       /\ Padded(Append(s, b)) <=> Padded(s) \/ b = Equals
       /\ Padded(s) => Values(Append(s, b)) = Values(s)
       /\ b \in Skipped \union {Equals} => Values(Append(s, b)) = Values(s)
       /\ ~Padded(s) /\ b \notin Skipped \union {Equals} =>
            Values(Append(s, b)) = Append(Values(s), SextetOf(b))
<1> DEFINE T == 0 .. 255
           W(v) == Written(SextetsOf, v)
<1>1. T \subseteq Nat /\ SextetsOf \in [T -> Seq(Sextets)]
  BY SextetsType
<1> HIDE DEF T
<1>2. /\ W(<<>>) = <<>>
      /\ \A v \in Seq(T) : W(v) \in Seq(Sextets)
      /\ \A v \in Seq(T) : \A x \in T : W(Append(v, x)) = W(v) \o SextetsOf[x]
  BY <1>1, WrittenFacts, ZenonT(40)
<1> HIDE DEF W
<1>3. Pads(<<>>) = {} /\ ~Padded(<<>>)
  BY DEF Pads, Padded
<1>4. Values(<<>>) = <<>>
  BY <1>2, <1>3, Zenon DEF Values, Before, W
<1>5. ASSUME NEW s \in Seq(T), NEW b \in T
      PROVE  /\ Before(s) \in Seq(T) /\ (~Padded(s) => Before(s) = s)
             /\ Padded(Append(s, b)) <=> Padded(s) \/ b = Equals
             /\ Padded(Append(s, b)) => Before(Append(s, b)) = Before(s)
             /\ Append(s, b) \in Seq(T)
  <2>1. T \subseteq Nat
    BY <1>1
  <2>2. Append(s, b) \in Seq(T)
    BY AppendProperties
  <2>3. QED
    BY <2>1, <2>2, BeforeFacts
<1>6. \A s : Values(s) = W(Before(s))
  BY Zenon DEF Values, W
<1>7. ASSUME NEW s \in Seq(T) PROVE Values(s) \in Seq(Sextets)
  <2>1. 0 \in T
    BY DEF T
  <2>2. QED
    BY <1>2, <1>5, <1>6, <2>1
<1>8. ASSUME NEW s \in Seq(T), NEW b \in T, ~Padded(s), b # Equals
      PROVE  Values(Append(s, b)) = Values(s) \o SextetsOf[b]
  <2>1. ~Padded(Append(s, b)) /\ Before(s) = s
    BY <1>5, <1>8
  <2>2. Before(Append(s, b)) = Append(s, b)
    BY <2>1 DEF Before, Padded
  <2>3. QED
    BY <1>2, <1>6, <2>1, <2>2
<1>9. ASSUME NEW s \in Seq(T), NEW b \in T, Padded(s) \/ b \in Skipped \union {Equals}
      PROVE  Values(Append(s, b)) = Values(s)
  <2>1. CASE Padded(s) \/ b = Equals
    BY <1>5, <1>6, <2>1
  <2>2. CASE ~Padded(s) /\ b # Equals
    <3>1. b \in Skipped
      BY <1>9, <2>2
    <3>2. SextetsOf[b] = <<>>
      BY <3>1 DEF SextetsOf, T
    <3>3. Values(s) \o <<>> = Values(s)
      BY <1>7, ConcatEmptySeq
    <3>4. QED
      BY <1>8, <2>2, <3>2, <3>3
  <2>3. QED
    BY <2>1, <2>2
<1>10. ASSUME NEW s \in Seq(T), NEW b \in T, ~Padded(s), b \notin Skipped \union {Equals}
       PROVE  Values(Append(s, b)) = Append(Values(s), SextetOf(b))
  <2> DEFINE v == Values(s)
             x == SextetOf(b)
  <2>1. SextetsOf[b] = <<x>>
    BY <1>10, SMTT(40) DEF SextetsOf, T
  <2>2. x \in Sextets /\ v \in Seq(Sextets)
    BY <1>7, SextetFacts DEF T, Sextets
  <2>3. Values(Append(s, b)) = v \o <<x>>
    BY <1>8, <1>10, <2>1
  <2> HIDE DEF v, x
  <2>4. Append(v, x) = v \o <<x>>
    BY <2>2, AppendIsConcat
  <2>5. QED
    BY <2>3, <2>4 DEF v, x
<1>11. ASSUME NEW s \in Seq(T), NEW b \in T
       PROVE  /\ Padded(s) => Values(Append(s, b)) = Values(s)
              /\ b \in Skipped \union {Equals} => Values(Append(s, b)) = Values(s)
  BY <1>9
<1>12. ASSUME NEW s \in Seq(T), NEW b \in T
       PROVE  ~Padded(s) /\ b \notin Skipped \union {Equals} =>
                Values(Append(s, b)) = Append(Values(s), SextetOf(b))
  BY <1>10
<1>13. ASSUME NEW s \in Seq(T), NEW b \in T
       PROVE  Padded(Append(s, b)) <=> Padded(s) \/ b = Equals
  BY <1>5
<1>14. QED
  BY <1>3, <1>4, <1>7, <1>11, <1>12, <1>13, ZenonT(40) DEF T

(* What has been decoded of the digits v, none of which is foreign.        *)
Holds(d, v) ==
  /\ v \in Seq(0 .. 63) /\ d.bits = BitsLeft(Len(v)) /\ d.out = OctetsOf(v)
  /\ BitsLeft(Len(v)) # 0 => d.acc % 64 = v[Len(v)]

(* The invariant of decode_base64 while it takes digits: out is the octets *)
(* of the sextets taken, and the accumulator ends in the bits left over.   *)
LEMMA HoldsTake ==
  ASSUME NEW d \in Decoding, NEW v, Holds(d, v), NEW x \in 0 .. 63
  PROVE  /\ Holds(Take(d, x), Append(v, x))
         /\ Take(d, x).ended = d.ended /\ Take(d, x).failed = d.failed
<1> DEFINE n == Len(v)
           w == Append(v, x)
           f == Take(d, x)
           p == d.acc % 64
<1>1. /\ d.acc \in Nat /\ d.bits \in {0, 2, 4, 6} /\ d.out \in Seq(Nat)
      /\ d = [acc |-> d.acc, bits |-> d.bits, out |-> d.out, ended |-> d.ended, failed |-> d.failed]
  BY DEF Decoding
<1>2. /\ v \in Seq(0 .. 63) /\ d.bits = BitsLeft(n) /\ d.out = OctetsOf(v)
      /\ BitsLeft(n) # 0 => p = v[n]
  BY DEF Holds
<1>3. n \in Nat /\ w \in Seq(0 .. 63) /\ Len(w) = n + 1 /\ w[n + 1] = x
  BY <1>2, AppendProperties, LenProperties
<1>4. p \in 0 .. 63
  <2> DEFINE a == d.acc
  <2>1. a \in Nat
    BY <1>1
  <2> HIDE DEF a
  <2>2. a % 64 \in 0 .. 63
    BY <2>1
  <2>3. QED
    BY <2>2 DEF a
<1>5. PICK acc : TakenTo(d, x, acc)
  BY TakeFacts
<1>6. acc \in Nat /\ Low(acc) = 64 * p + x
  BY <1>5 DEF TakenTo
<1> HIDE DEF n, w, p
<1>7. acc % 64 = x
  <2>1. /\ acc = 4096 * (acc \div 4096) + (acc % 4096)
        /\ acc \div 4096 \in Nat /\ acc % 4096 = 64 * p + x
    BY <1>4, <1>6, SMT DEF Low
  <2>2. QED
    BY <1>4, <2>1, SMT
<1>8. /\ Octet(acc) = Octet(64 * p + x) /\ Octet(acc \div 4) = Octet((64 * p + x) \div 4)
      /\ Octet(acc \div 16) = Octet((64 * p + x) \div 16)
  <2> DEFINE y == 64 * p + x
  <2>1. y \in Nat /\ y < 4096
    BY <1>4, SMT
  <2>2. Low(acc) = y
    BY <1>6
  <2> HIDE DEF y
  <2>3. /\ Octet(acc) = Octet(y) /\ Octet(acc \div 4) = Octet(y \div 4)
        /\ Octet(acc \div 16) = Octet(y \div 16)
    BY <1>6, <2>1, <2>2, LowOctets
  <2>4. QED
    BY <2>3 DEF y
<1>9. Len(w) = n + 1 /\ v \in Seq(0 .. 63)
  BY <1>2, <1>3
<1>10. /\ BitsLeft(n) = 0 => OctetsOf(w) = OctetsOf(v)
       /\ BitsLeft(n) # 0 => OctetsOf(w) = Append(OctetsOf(v), OctetAt(w, OctetCount(n)))
  BY <1>9, OctetsGrow DEF n, w
<1>11. CASE BitsLeft(n) = 0
  <2>1. BitsLeft(n + 1) = 6
    BY <1>3, <1>11, PlaceFacts
  <2>2. f = Fuller(d, acc)
    BY <1>2, <1>5, <1>11, Zenon DEF TakenTo
  <2> HIDE DEF f
  <2>3. /\ f.acc = acc /\ f.bits = 6 /\ f.out = d.out /\ f.ended = d.ended /\ f.failed = d.failed
    BY <1>1, <2>2 DEF Fuller
  <2>4. Holds(f, w)
    BY <1>2, <1>3, <1>7, <1>10, <1>11, <2>1, <2>3 DEF Holds
  <2>5. QED
    BY <2>3, <2>4 DEF f, w
<1>12. CASE BitsLeft(n) # 0
  <2> DEFINE k == BitsLeft(n) - 2
             b == OctetAt(w, OctetCount(n))
  <2>1. BitsLeft(n + 1) = k /\ BitsLeft(n) \in {2, 4, 6}
    BY <1>3, <1>12, PlaceFacts, SMTT(40)
  <2>2. /\ BitsLeft(n) = 2 => b = Octet(64 * p + x)
        /\ BitsLeft(n) = 4 => b = Octet((64 * p + x) \div 4)
        /\ BitsLeft(n) = 6 => b = Octet((64 * p + x) \div 16)
    BY <1>2, <1>9, <1>12, OctetAdded, ZenonT(40) DEF n, w
  <2>3. k \in {0, 2, 4} /\ (BitsLeft(n) = 2 => k = 0) /\ (BitsLeft(n) = 4 => k = 2)
        /\ (BitsLeft(n) = 6 => k = 4)
    BY <2>1
  <2> HIDE DEF b, k
  <2>4. f = Out(d, acc, k, b)
    <3>1. CASE BitsLeft(n) = 2
      BY <1>2, <1>5, <1>8, <2>2, <2>3, <3>1, Zenon DEF TakenTo
    <3>2. CASE BitsLeft(n) = 4
      BY <1>2, <1>5, <1>8, <2>2, <2>3, <3>2, Zenon DEF TakenTo
    <3>3. CASE BitsLeft(n) = 6
      BY <1>2, <1>5, <1>8, <2>2, <2>3, <3>3, Zenon DEF TakenTo
    <3>4. QED
      BY <2>1, <3>1, <3>2, <3>3
  <2> HIDE DEF f
  <2>5. /\ f.acc = acc /\ f.bits = k /\ f.out = Append(d.out, b)
        /\ f.ended = d.ended /\ f.failed = d.failed
    BY <1>1, <2>4 DEF Out
  <2>6. Holds(f, w)
    BY <1>2, <1>3, <1>7, <1>10, <1>12, <2>1, <2>5 DEF Holds, b
  <2>7. QED
    BY <2>5, <2>6 DEF f, w
<1>13. QED
  BY <1>11, <1>12

(* Whether a foreign byte is among the sextets, with one byte more.        *)
LEMMA NoneAmong ==
  ASSUME NEW v \in Seq(Sextets)
  PROVE  /\ None \notin ToSet(v) => v \in Seq(0 .. 63)
         /\ \A x \in Sextets : None \in ToSet(Append(v, x)) <=> None \in ToSet(v) \/ x = None
<1> DEFINE n == Len(v)
<1>1. /\ n \in Nat /\ DOMAIN v = 1 .. n /\ v \in [1 .. n -> Sextets]
      /\ \A k \in 1 .. n : v[k] \in Sextets
  BY SeqFacts
<1>2. ASSUME None \notin ToSet(v) PROVE v \in Seq(0 .. 63)
  <2> DEFINE T == 0 .. 63
  <2>1. \A k \in 1 .. n : v[k] \in T
    BY <1>1, <1>2 DEF ToSet, Sextets
  <2> HIDE DEF T, n
  <2>2. v \in [1 .. n -> T]
    BY <1>1, <2>1
  <2>3. QED
    BY <1>1, <2>2, MadeSeq DEF T
<1>3. ASSUME NEW x \in Sextets
      PROVE  None \in ToSet(Append(v, x)) <=> None \in ToSet(v) \/ x = None
  <2> DEFINE w == Append(v, x)
  <2>1. w \in Seq(Sextets) /\ Len(w) = n + 1 /\ w[n + 1] = x /\ \A k \in 1 .. n : w[k] = v[k]
    BY AppendProperties
  <2> HIDE DEF w, n
  <2>2. DOMAIN w = 1 .. n + 1
    BY <2>1, SeqFacts
  <2>3. QED
    BY <1>1, <2>1, <2>2 DEF ToSet, w
<1>4. QED
  BY <1>2, <1>3

(* What has been decoded, when v is read and p says that it is padded.     *)
Agrees(d, v, p) ==
  /\ d \in Decoding /\ v \in Seq(Sextets)
  /\ d.ended <=> p \/ None \in ToSet(v)
  /\ d.failed <=> None \in ToSet(v)
  /\ None \notin ToSet(v) => Holds(d, v)

(* The invariant of decode_base64, padding and foreign bytes included, is  *)
(* kept.                                                                   *)
LEMMA AgreesOn ==
  ASSUME NEW s \in Seq(0 .. 255), NEW b \in 0 .. 255,
         Agrees(DecodeBytes(s), Values(s), Padded(s))
  PROVE  Agrees(DecodeBytes(Append(s, b)), Values(Append(s, b)), Padded(Append(s, b)))
<1> DEFINE d == DecodeBytes(s)
           v == Values(s)
           p == Padded(s)
           d1 == DecodeBytes(Append(s, b))
           v1 == Values(Append(s, b))
           p1 == Padded(Append(s, b))
           x == SextetOf(b)
<1>1. d1 = DecodeByte(d, b)
  BY DecodeFacts
<1>2. /\ p1 <=> p \/ b = Equals
      /\ p => v1 = v
      /\ b \in Skipped \union {Equals} => v1 = v
      /\ ~p /\ b \notin Skipped \union {Equals} => v1 = Append(v, x)
  BY ValuesFacts
<1>3. /\ d \in Decoding /\ v \in Seq(Sextets)
      /\ d.ended <=> p \/ None \in ToSet(v)
      /\ d.failed <=> None \in ToSet(v)
      /\ None \notin ToSet(v) => Holds(d, v)
  BY DEF Agrees
<1>4. /\ x # None => x \in 0 .. 63
      /\ x \in Sextets /\ Equals \notin Skipped
  BY SextetFacts DEF Sextets
<1>5. d1 \in Decoding
  BY <1>1, <1>3, DecodingGoesOn
<1>6. p \in BOOLEAN /\ p1 \in BOOLEAN
  BY Zenon DEF Padded
<1> HIDE DEF d, v, p, d1, v1, p1, x
<1>7. CASE p \/ b \in Skipped
  <2>1. d1 = d
    BY <1>1, <1>3, <1>7 DEF DecodeByte
  <2>2. v1 = v
    BY <1>2, <1>7
  <2>3. p1 <=> p
    BY <1>2, <1>4, <1>7
  <2>4. Agrees(d1, v1, p1)
    BY <1>3, <2>1, <2>2, <2>3 DEF Agrees
  <2>5. QED
    BY <2>4 DEF d1, v1, p1
<1>8. CASE ~p /\ b = Equals
  <2>1. v1 = v /\ p1
    BY <1>2, <1>8
  <2>2. CASE d.ended
    <3>1. d1 = d
      BY <1>1, <2>2 DEF DecodeByte
    <3>2. Agrees(d1, v1, p1)
      BY <1>3, <1>6, <2>1, <2>2, <3>1 DEF Agrees
    <3>3. QED
      BY <3>2 DEF d1, v1, p1
  <2>3. CASE ~d.ended
    <3>1. d1 = [d EXCEPT !.ended = TRUE]
      BY <1>1, <1>4, <1>8, <2>3 DEF DecodeByte
    <3>2. /\ d1.acc = d.acc /\ d1.bits = d.bits /\ d1.out = d.out /\ d1.ended = TRUE
          /\ d1.failed = d.failed
      BY <1>3, <3>1 DEF Decoding
    <3>3. Holds(d, v) => Holds(d1, v)
      BY <3>2 DEF Holds
    <3>4. Agrees(d1, v1, p1)
      BY <1>3, <1>5, <1>6, <2>1, <3>2, <3>3 DEF Agrees
    <3>5. QED
      BY <3>4 DEF d1, v1, p1
  <2>4. QED
    BY <2>2, <2>3
<1>9. CASE ~p /\ b \notin Skipped /\ b # Equals
  <2>1. v1 = Append(v, x) /\ ~p1
    BY <1>2, <1>9
  <2>2. None \in ToSet(v1) <=> None \in ToSet(v) \/ x = None
    BY <1>3, <1>4, <2>1, NoneAmong
  <2>3. v1 \in Seq(Sextets)
    BY <1>3, <1>4, <2>1, AppendProperties
  <2>4. CASE None \in ToSet(v)
    <3>1. d1 = d
      BY <1>1, <1>3, <2>4 DEF DecodeByte
    <3>2. Agrees(d1, v1, p1)
      BY <1>3, <1>9, <2>1, <2>2, <2>3, <2>4, <3>1 DEF Agrees
    <3>3. QED
      BY <3>2 DEF d1, v1, p1
  <2>5. CASE None \notin ToSet(v) /\ x = None
    <3>1. d1 = [d EXCEPT !.ended = TRUE, !.failed = TRUE]
      BY <1>1, <1>3, <1>9, <2>5 DEF DecodeByte, x
    <3>2. d1.ended = TRUE /\ d1.failed = TRUE
      BY <1>3, <3>1 DEF Decoding
    <3>3. Agrees(d1, v1, p1)
      BY <1>5, <2>2, <2>3, <2>5, <3>2 DEF Agrees
    <3>4. QED
      BY <3>3 DEF d1, v1, p1
  <2>6. CASE None \notin ToSet(v) /\ x # None
    <3>1. d1 = Take(d, x)
      BY <1>1, <1>3, <1>9, <2>6 DEF DecodeByte, x
    <3>2. Holds(d1, v1) /\ d1.ended = d.ended /\ d1.failed = d.failed
      BY <1>3, <1>4, <2>1, <2>6, <3>1, HoldsTake
    <3>3. Agrees(d1, v1, p1)
      BY <1>3, <1>5, <1>9, <2>1, <2>2, <2>3, <2>6, <3>2 DEF Agrees
    <3>4. QED
      BY <3>3 DEF d1, v1, p1
  <2>7. QED
    BY <2>4, <2>5, <2>6
<1>10. QED
  BY <1>7, <1>8, <1>9

(* It holds after any bytes.                                               *)
LEMMA AllAgree ==
  ASSUME NEW s \in Seq(0 .. 255)
  PROVE  Agrees(DecodeBytes(s), Values(s), Padded(s))
<1> DEFINE T == 0 .. 255
           P == {w \in Seq(T) : Agrees(DecodeBytes(w), Values(w), Padded(w))}
<1>1. <<>> \in P
  <2>1. /\ DecodeBytes(<<>>) = Undecoded /\ Values(<<>>) = <<>> /\ Padded(<<>>) = FALSE
    BY DecodeFacts, ValuesFacts
  <2>2. Undecoded \in Decoding
    BY EmptySeq DEF Undecoded, Decoding
  <2>3. <<>> \in Seq(Sextets) /\ ToSet(<<>>) = {} /\ <<>> \in Seq(T) /\ <<>> \in Seq(0 .. 63)
        /\ Len(<<>>) = 0
    BY EmptySeq DEF ToSet
  <2>4. BitsLeft(0) = 0 /\ OctetCount(0) = 0
    BY DEF BitsLeft, OctetCount
  <2>5. OctetsOf(<<>>) = <<>>
    BY <2>3, <2>4, OctetType, EmptySeq
  <2>6. Holds(Undecoded, <<>>)
    BY <2>3, <2>4, <2>5 DEF Holds, Undecoded
  <2>7. Agrees(Undecoded, <<>>, FALSE)
    BY <2>2, <2>3, <2>6 DEF Agrees, Undecoded
  <2>8. QED
    BY <2>1, <2>3, <2>7
<1>2. ASSUME NEW w \in Seq(T), NEW b \in T, w \in P PROVE Append(w, b) \in P
  <2>1. Agrees(DecodeBytes(w), Values(w), Padded(w))
    BY <1>2
  <2>2. Agrees(DecodeBytes(Append(w, b)), Values(Append(w, b)), Padded(Append(w, b)))
    BY <2>1, AgreesOn
  <2>3. Append(w, b) \in Seq(T)
    BY AppendProperties
  <2>4. QED
    BY <2>2, <2>3
<1> HIDE DEF P, T
<1>3. Seq(T) \subseteq P
  BY <1>1, <1>2, SeqInduction
<1>4. QED
  BY <1>3 DEF P, T

(* decode_base64, as a function of the digits before the padding.          *)
LEMMA DecodedDigits ==
  ASSUME NEW t \in Seq(Chars)
  PROVE  LET v == Values(Bytes(t))
         IN  /\ v \in Seq(Sextets)
             /\ None \in ToSet(v) => decode_base64(t) = None
             /\ None \notin ToSet(v) => decode_base64(t) = OctetsOf(v) /\ decode_base64(t) # None
<1> DEFINE s == Bytes(t)
           v == Values(s)
           d == DecodeBytes(s)
<1>1. s \in Seq(0 .. 255)
  BY TextFacts
<1> HIDE DEF s
<1>2. Agrees(d, v, Padded(s))
  BY <1>1, AllAgree
<1>3. decode_base64(t) = IF d.failed THEN None ELSE d.out
  BY Zenon DEF decode_base64, DecodeBytes, Undecoded, s
<1> HIDE DEF d, v
<1>4. /\ d.out \in Seq(Nat) /\ v \in Seq(Sextets) /\ (d.failed <=> None \in ToSet(v))
      /\ None \notin ToSet(v) => d.out = OctetsOf(v)
  BY <1>2 DEF Agrees, Holds, Decoding
<1>5. None \notin Seq(Nat)
  BY ConversionAssumption
<1>6. QED
  BY <1>3, <1>4, <1>5 DEF s, v

(* What Base64Agrees says, of any text.                                    *)
LEMMA AgreesBase64 ==
  ASSUME text \in Seq(Chars)
  PROVE  Base64Agrees
<1> DEFINE s == Bytes(text)
           pads == {k \in DOMAIN s : s[k] = Equals}
           before == IF pads = {} THEN s ELSE SubSeq(s, 1, Min(pads) - 1)
           v == FlattenSeq([k \in DOMAIN before |->
                              IF before[k] \in Skipped THEN <<>> ELSE <<SextetOf(before[k])>>])
           Byte(k) ==
             LET j == (4 * k) \div 3
             IN  ((64 * v[j + 1] + v[j + 2]) \div 4^(2 - (k % 3))) % 256
           u == [k \in 1 .. (6 * Len(v)) \div 8 |-> Byte(k - 1)]
<1>1. before = Before(s) /\ s \in Seq(0 .. 255)
  BY TextFacts, Zenon DEF Before, Pads
<1>2. v = Values(s)
  <2> DEFINE q == Before(s)
             T == 0 .. 255
  <2>1. q \in Seq(T)
    <3>1. T \subseteq Nat /\ 0 \in T /\ s \in Seq(T)
      BY <1>1
    <3> HIDE DEF T, s
    <3>2. QED
      BY <3>1, BeforeFacts
  <2> HIDE DEF q
  <2>2. \A k \in DOMAIN q : q[k] \in T
    <3> HIDE DEF T
    <3>1. QED
      BY <2>1, SeqFacts
  <2>3. \A k \in DOMAIN q :
          SextetsOf[q[k]] = IF q[k] \in Skipped THEN <<>> ELSE <<SextetOf(q[k])>>
    BY <2>2 DEF SextetsOf
  <2>4. before = q
    BY <1>1 DEF q
  <2> HIDE DEF before
  <2>5. [k \in DOMAIN q |-> SextetsOf[q[k]]] =
          [k \in DOMAIN before |-> IF before[k] \in Skipped THEN <<>> ELSE <<SextetOf(before[k])>>]
    BY <2>3, <2>4, Zenon
  <2>6. Values(s) = FlattenSeq([k \in DOMAIN q |-> SextetsOf[q[k]]])
    BY Zenon DEF Values, Written, q
  <2>7. QED
    BY <2>5, <2>6, Zenon
<1> HIDE DEF v
<1>3. u = OctetsOf(v)
  BY Zenon DEF OctetsOf, OctetAt, OctetCount, Place, Octet
<1>4. /\ v \in Seq(Sextets)
      /\ None \in ToSet(v) => decode_base64(text) = None
      /\ None \notin ToSet(v) => decode_base64(text) = OctetsOf(v) /\ decode_base64(text) # None
  BY <1>2, DecodedDigits
<1> HIDE DEF u
<1>5. decode_base64(text) = IF None \in ToSet(v) THEN None ELSE u
  BY <1>3, <1>4
<1>6. decode_token(text) = None <=> text = <<>> \/ None \in ToSet(v)
  BY <1>4 DEF decode_token
<1>7. QED
  BY <1>5, <1>6, Zenon DEF Base64Agrees, u, v
-----------------------------------------------------------------------------
(* Decimal numbers. *)

(* The fold of Shifted.                                                    *)
Shifting == [digits : Seq(0 .. 9), carry : 0 .. 255]
ShiftStep(a, d) == [digits |-> Append(a.digits, (d * 256 + a.carry) % 10),
                    carry |-> (d * 256 + a.carry) \div 10]
ShiftTake == [d \in 0 .. 9 |-> [a \in Shifting |-> ShiftStep(a, d)]]
Unshifted(byte) == [digits |-> <<>>, carry |-> byte]

(* The carry of a shift stays a byte, and its digits are digits.           *)
LEMMA ShiftingGoesOn ==
  ASSUME NEW a \in Shifting, NEW d \in 0 .. 9
  PROVE  ShiftStep(a, d) \in Shifting
<1> DEFINE c == a.carry
           x == (d * 256 + c) % 10
           y == (d * 256 + c) \div 10
<1>1. a.digits \in Seq(0 .. 9) /\ c \in 0 .. 255
  BY DEF Shifting
<1> HIDE DEF c
<1>2. x \in 0 .. 9 /\ y \in 0 .. 255
  BY <1>1
<1> HIDE DEF x, y
<1>3. Append(a.digits, x) \in Seq(0 .. 9)
  BY <1>1, <1>2, AppendProperties
<1>4. ShiftStep(a, d) = [digits |-> Append(a.digits, x), carry |-> y]
  BY Zenon DEF ShiftStep, x, y, c
<1>5. QED
  BY <1>2, <1>3, <1>4 DEF Shifting

(* Shifted is a fold of ShiftStep.                                         *)
LEMMA ShiftFold ==
  ASSUME NEW byte \in 0 .. 255, NEW s \in Seq(0 .. 9)
  PROVE  FoldLeft(ShiftStep, Unshifted(byte), s) = Folded(Shifting, Unshifted(byte), ShiftTake, s)
<1> DEFINE F(g) == [q \in SUBSET (DOMAIN s) |->
                      IF q = {} THEN Unshifted(byte)
                      ELSE LET x == Max(q) IN ShiftStep(g[q \ {x}], s[x])]
           iter == CHOOSE g : g = F(g)
           n == Len(s)
<1>1. n \in Nat /\ DOMAIN s = 1 .. n /\ \A k \in 1 .. n : s[k] \in 0 .. 9
  BY SeqFacts
<1>2. Unshifted(byte) \in Shifting
  BY EmptySeq DEF Unshifted, Shifting
<1>3. ShiftTake \in [0 .. 9 -> [Shifting -> Shifting]]
  BY ShiftingGoesOn DEF ShiftTake
<1> HIDE DEF n
<1>4. \A q \in SUBSET (1 .. n) : q # {} =>
        \A r \in Shifting : ShiftTake[s[Max(q)]][r] = ShiftStep(r, s[Max(q)])
  BY <1>1, TopOf DEF ShiftTake
<1>5. PICK g \in [SUBSET (1 .. n) -> Shifting] : SetFold(g, Shifting, Unshifted(byte), ShiftTake, s)
  BY <1>2, <1>3, SetFoldExists DEF n
<1>6. g = F(g)
  BY <1>1, <1>4, <1>5 DEF SetFold, n
<1>7. iter = F(iter)
  BY <1>6, Zenon
<1>8. FoldLeft(ShiftStep, Unshifted(byte), s) = iter[DOMAIN s]
  BY DEF FoldLeft, MapThenFoldSet
<1> HIDE DEF iter
<1>9. SetFold(iter, Shifting, Unshifted(byte), ShiftTake, s)
  <2>1. iter[{}] = Unshifted(byte)
    BY <1>7, Zenon
  <2>2. \A q \in SUBSET (1 .. n) : q # {} => iter[q] = ShiftStep(iter[q \ {Max(q)}], s[Max(q)])
    BY <1>1, <1>7, Zenon
  <2>3. QED
    BY <1>4, <2>1, <2>2 DEF SetFold, n
<1>10. iter[DOMAIN s] = Folded(Shifting, Unshifted(byte), ShiftTake, s)
  <2>1. \A it : SetFold(it, Shifting, Unshifted(byte), ShiftTake, s) =>
                 it[DOMAIN s] = Folded(Shifting, Unshifted(byte), ShiftTake, s)
    <3> DEFINE S == Shifting
               T == 0 .. 9
               base == Unshifted(byte)
               take == ShiftTake
    <3>1. base \in S /\ take \in [T -> [S -> S]] /\ s \in Seq(T)
      BY <1>2, <1>3
    <3> HIDE DEF S, T, base, take
    <3>2. \A it : SetFold(it, S, base, take, s) => it[DOMAIN s] = Folded(S, base, take, s)
      BY <3>1, FoldedBySets
    <3>3. QED
      BY <3>2 DEF S, base, take
  <2>2. QED
    BY <1>9, <2>1
<1>11. QED
  BY <1>8, <1>10
(* Shifted takes one digit at a time.                                      *)
LEMMA ShiftedFacts ==
  ASSUME NEW byte \in 0 .. 255
  PROVE  /\ Shifted(<<>>, byte) = Unshifted(byte)
         /\ \A s \in Seq(0 .. 9) : Shifted(s, byte) \in Shifting
         /\ \A s \in Seq(0 .. 9) : \A d \in 0 .. 9 :
              Shifted(Append(s, d), byte) = ShiftStep(Shifted(s, byte), d)
<1>1. Unshifted(byte) \in Shifting
  BY EmptySeq DEF Unshifted, Shifting
<1>2. ShiftTake \in [0 .. 9 -> [Shifting -> Shifting]]
  BY ShiftingGoesOn DEF ShiftTake
<1> DEFINE T == 0 .. 9
           base == Unshifted(byte)
           F(s) == Folded(Shifting, base, ShiftTake, s)
<1>3. /\ F(<<>>) = base
      /\ \A s \in Seq(T) : F(s) \in Shifting
      /\ \A s \in Seq(T) : \A d \in T : F(Append(s, d)) = ShiftTake[d][F(s)]
  <2>1. ShiftTake \in [T -> [Shifting -> Shifting]] /\ base \in Shifting
    BY <1>1, <1>2
  <2> HIDE DEF T, base
  <2>2. QED
    BY <2>1, FoldedFacts
<1>4. <<>> \in Seq(0 .. 9) /\ \A s \in Seq(0 .. 9) : \A d \in 0 .. 9 : Append(s, d) \in Seq(0 .. 9)
  BY EmptySeq, AppendProperties
<1>5. \A s \in Seq(0 .. 9) : Shifted(s, byte) = F(s)
  <2>1. \A s : Shifted(s, byte) = FoldLeft(ShiftStep, Unshifted(byte), s)
    BY Zenon DEF Shifted, ShiftStep, Unshifted, FoldLeft, MapThenFoldSet
  <2>2. QED
    BY <2>1, ShiftFold, Zenon
<1> HIDE DEF F
<1>6. ASSUME NEW s \in Seq(0 .. 9), NEW d \in 0 .. 9
      PROVE  Shifted(Append(s, d), byte) = ShiftStep(Shifted(s, byte), d)
  <2>1. F(Append(s, d)) = ShiftTake[d][F(s)] /\ F(s) \in Shifting
    BY <1>3
  <2>2. ShiftTake[d][F(s)] = ShiftStep(F(s), d)
    BY <2>1 DEF ShiftTake
  <2>3. QED
    BY <1>4, <1>5, <2>1, <2>2
<1>7. QED
  BY <1>3, <1>4, <1>5, <1>6

(* The digits of a carry, written out.                                     *)
CarryOf(c) ==
  IF c = 0 THEN <<>>
  ELSE IF c < 10 THEN <<c>>
  ELSE IF c < 100 THEN <<c % 10, c \div 10>>
  ELSE <<c % 10, (c \div 10) % 10, c \div 100>>

(* How Append is recognized.                                               *)
LEMMA Appended ==
  ASSUME NEW S, NEW s \in Seq(S), NEW x \in S, NEW t \in Seq(S), Len(t) = Len(s) + 1,
         t[Len(s) + 1] = x, \A k \in 1 .. Len(s) : t[k] = s[k]
  PROVE  Append(s, x) = t
<1> DEFINE w == Append(s, x)
<1>1. /\ w \in Seq(S) /\ Len(w) = Len(s) + 1 /\ w[Len(s) + 1] = x
      /\ \A k \in 1 .. Len(s) : w[k] = s[k]
  BY AppendProperties
<1>2. Len(s) \in Nat
  BY LenProperties
<1> HIDE DEF w
<1>3. \A k \in 1 .. Len(w) : w[k] = t[k]
  BY <1>1, <1>2
<1>4. w = t
  BY <1>1, <1>3, SeqEqual
<1>5. QED
  BY <1>4 DEF w

(* Short sequences, joined.                                                *)
LEMMA Concats ==
  ASSUME NEW a, NEW b, NEW c
  PROVE  /\ <<a>> \o <<>> = <<a>> /\ <<a>> \o <<b>> = <<a, b>>
         /\ <<a>> \o <<b, c>> = <<a, b, c>>
<1> DEFINE S == {a, b, c}
<1>1. /\ <<a>> \in Seq(S) /\ <<b>> \in Seq(S) /\ <<c>> \in Seq(S) /\ <<a, b>> \in Seq(S)
      /\ b \in S /\ c \in S
  OBVIOUS
<1>2. /\ Append(<<a>>, b) = <<a, b>> /\ Append(<<a, b>>, c) = <<a, b, c>>
      /\ Append(<<b>>, c) = <<b, c>>
  <2>1. \A x, y \in S : Append(<<x>>, y) = <<x, y>>
    <3>1. ASSUME NEW x \in S, NEW y \in S PROVE Append(<<x>>, y) = <<x, y>>
      <4> DEFINE s == <<x>>
                 t == <<x, y>>
      <4> HIDE DEF S
      <4>1. /\ s \in Seq(S) /\ t \in Seq(S) /\ Len(s) = 1 /\ Len(t) = 2
            /\ s[1] = x /\ t[1] = x /\ t[2] = y
        OBVIOUS
      <4> HIDE DEF s, t
      <4>2. Len(t) = Len(s) + 1 /\ t[Len(s) + 1] = y /\ \A k \in 1 .. Len(s) : t[k] = s[k]
        BY <4>1
      <4>3. Append(s, y) = t
        BY <4>1, <4>2, Appended
      <4>4. QED
        BY <4>3 DEF s, t
    <3>2. QED
      BY <3>1
  <2>2. Append(<<a, b>>, c) = <<a, b, c>>
    <3> DEFINE s == <<a, b>>
               t == <<a, b, c>>
    <3>1. c \in S /\ t \in Seq(S)
      OBVIOUS
    <3> HIDE DEF S
    <3>2. /\ s \in Seq(S) /\ Len(s) = 2 /\ Len(t) = 3
          /\ s[1] = t[1] /\ s[2] = t[2] /\ t[3] = c
      BY <1>1
    <3> HIDE DEF s, t
    <3>3. t \in Seq(S)
      BY <3>1 DEF t
    <3>4. Len(t) = Len(s) + 1 /\ t[Len(s) + 1] = c /\ \A k \in 1 .. Len(s) : t[k] = s[k]
      BY <3>2
    <3>5. Append(s, c) = t
      BY <3>1, <3>2, <3>3, <3>4, Appended
    <3>6. QED
      BY <3>5 DEF s, t
  <2>3. QED
    BY <2>1, <2>2
<1> HIDE DEF S
<1>3. /\ Append(<<a>>, b) = <<a>> \o <<b>> /\ Append(<<a, b>>, c) = <<a, b>> \o <<c>>
      /\ Append(<<b>>, c) = <<b>> \o <<c>>
  BY <1>1, AppendIsConcat
<1>4. (<<a>> \o <<b>>) \o <<c>> = <<a>> \o (<<b>> \o <<c>>)
  BY <1>1, ConcatAssociative
<1>5. <<a>> \o <<>> = <<a>>
  BY <1>1, ConcatEmptySeq
<1>6. QED
  BY <1>2, <1>3, <1>4, <1>5, Zenon

(* The digits of a carry are its last one and those of the rest.           *)
LEMMA CarryStep ==
  ASSUME NEW c \in 1 .. 255
  PROVE  c \div 10 \in 0 .. 255 /\ CarryOf(c) = <<c % 10>> \o CarryOf(c \div 10)
<1> DEFINE q == c \div 10
<1>1. q \in 0 .. 25 /\ c = 10 * q + (c % 10)
  OBVIOUS
<1>2. CASE c < 10
  <2>1. q = 0 /\ c % 10 = c
    BY <1>2
  <2>2. CarryOf(c) = <<c>> /\ CarryOf(q) = <<>>
    BY <1>2, <2>1 DEF CarryOf
  <2>3. <<c>> \o <<>> = <<c>>
    BY Concats
  <2>4. QED
    BY <1>1, <2>1, <2>2, <2>3
<1>3. CASE 10 <= c /\ c < 100
  <2>1. q # 0 /\ q < 10
    BY <1>1, <1>3
  <2>2. CarryOf(c) = <<c % 10, q>>
    BY <1>3 DEF CarryOf
  <2> HIDE DEF q
  <2>3. CarryOf(q) = <<q>>
    BY <2>1 DEF CarryOf
  <2>4. <<c % 10>> \o <<q>> = <<c % 10, q>>
    BY Concats, Zenon
  <2>5. CarryOf(c) = <<c % 10>> \o CarryOf(q) /\ q \in 0 .. 255
    BY <1>1, <2>1, <2>2, <2>3, <2>4
  <2>6. QED
    BY <2>5 DEF q
<1>4. CASE 100 <= c
  <2>1. q # 0 /\ ~(q < 10) /\ q < 100 /\ q \div 10 = c \div 100
    BY <1>1, <1>4
  <2>2. CarryOf(c) = <<c % 10, q % 10, q \div 10>>
    BY <1>4, <2>1 DEF CarryOf
  <2> HIDE DEF q
  <2>3. CarryOf(q) = <<q % 10, q \div 10>>
    BY <2>1 DEF CarryOf
  <2>4. <<c % 10>> \o <<q % 10, q \div 10>> = <<c % 10, q % 10, q \div 10>>
    BY Concats, Zenon
  <2>5. CarryOf(c) = <<c % 10>> \o CarryOf(q) /\ q \in 0 .. 255
    BY <1>1, <2>1, <2>2, <2>3, <2>4
  <2>6. QED
    BY <2>5 DEF q
<1>5. QED
  BY <1>2, <1>3, <1>4

(* CarryDigits, which is recursive, is CarryOf, which is not.              *)
LEMMA CarryFacts ==
  ASSUME NEW c \in 0 .. 255
  PROVE  CarryDigits[c] = CarryOf(c)
<1> DEFINE F(g) == [carry \in 0 .. 255 |->
                      IF carry = 0 THEN <<>> ELSE <<carry % 10>> \o g[carry \div 10]]
           f == [carry \in 0 .. 255 |-> CarryOf(carry)]
           it == CHOOSE g : g = F(g)
<1>1. f = F(f)
  <2>1. ASSUME NEW k \in 0 .. 255
        PROVE  CarryOf(k) = IF k = 0 THEN <<>> ELSE <<k % 10>> \o f[k \div 10]
    <3>1. CASE k = 0
      BY <3>1 DEF CarryOf
    <3>2. CASE k # 0
      <4>1. k \in 1 .. 255
        BY <3>2
      <4>2. k \div 10 \in 0 .. 255 /\ CarryOf(k) = <<k % 10>> \o CarryOf(k \div 10)
        BY <4>1, CarryStep, Zenon
      <4> DEFINE q == k \div 10
      <4> HIDE DEF q
      <4>3. f[q] = CarryOf(q)
        BY <4>2 DEF q
      <4>4. QED
        BY <3>2, <4>2, <4>3, ZenonT(40) DEF q
    <3>3. QED
      BY <3>1, <3>2, Zenon
  <2>2. QED
    BY <2>1, ZenonT(40)
<1>2. it = F(it)
  BY <1>1, ZenonT(40)
<1>3. CarryDigits = it
  BY Zenon DEF CarryDigits
<1> HIDE DEF it
<1>4. \A k \in 1 .. 255 : it[k] = <<k % 10>> \o it[k \div 10]
  <2>1. ASSUME NEW k \in 1 .. 255 PROVE it[k] = <<k % 10>> \o it[k \div 10]
    <3>1. k \in 0 .. 255 /\ k # 0
      OBVIOUS
    <3>2. QED
      BY <1>2, <3>1, Zenon
  <2>2. QED
    BY <2>1, Zenon
<1>5. it[0] = <<>>
  <2>1. 0 \in 0 .. 255
    OBVIOUS
  <2>2. QED
    BY <1>2, <2>1, Zenon
<1>6. CarryOf(0) = <<>>
  BY DEF CarryOf
<1>7. ASSUME NEW k \in 1 .. 255, it[k \div 10] = CarryOf(k \div 10)
      PROVE  it[k] = CarryOf(k)
  BY <1>4, <1>7, CarryStep, Zenon
<1>8. \A k \in 0 .. 9 : it[k] = CarryOf(k)
  <2>1. ASSUME NEW k \in 1 .. 9 PROVE it[k] = CarryOf(k)
    <3>1. k \div 10 = 0 /\ k \in 1 .. 255
      OBVIOUS
    <3>2. QED
      BY <1>5, <1>6, <1>7, <3>1
  <2>2. \A k \in 0 .. 9 : k = 0 \/ k \in 1 .. 9
    OBVIOUS
  <2>3. QED
    BY <1>5, <1>6, <2>1, <2>2, Zenon
<1>9. \A k \in 0 .. 99 : it[k] = CarryOf(k)
  <2>1. ASSUME NEW k \in 1 .. 99 PROVE it[k] = CarryOf(k)
    <3>1. k \div 10 \in 0 .. 9 /\ k \in 1 .. 255
      OBVIOUS
    <3>2. QED
      BY <1>7, <1>8, <3>1
  <2>2. \A k \in 0 .. 99 : k = 0 \/ k \in 1 .. 99
    OBVIOUS
  <2>3. QED
    BY <1>5, <1>6, <2>1, <2>2, Zenon
<1>10. \A k \in 0 .. 255 : it[k] = CarryOf(k)
  <2>1. ASSUME NEW k \in 1 .. 255 PROVE it[k] = CarryOf(k)
    <3>1. k \div 10 \in 0 .. 99 /\ k \in 1 .. 255
      OBVIOUS
    <3>2. QED
      BY <1>7, <1>9, <3>1
  <2>2. \A k \in 0 .. 255 : k = 0 \/ k \in 1 .. 255
    OBVIOUS
  <2>3. QED
    BY <1>5, <1>6, <2>1, <2>2, Zenon
<1>11. QED
  BY <1>3, <1>10

(* A carry has one to three digits, and the highest is not 0.              *)
LEMMA CarryType ==
  ASSUME NEW c \in 0 .. 255
  PROVE  /\ CarryOf(c) \in Seq(0 .. 9)
         /\ c # 0 => Len(CarryOf(c)) \in 1 .. 3 /\ CarryOf(c)[Len(CarryOf(c))] # 0
<1> DEFINE T == 0 .. 9
           x == c % 10
           y == c \div 10
           z == (c \div 10) % 10
           u == c \div 100
<1>1. x \in T /\ z \in T /\ u \in T /\ (c < 10 => c \in T) /\ (c < 100 => y \in T)
  OBVIOUS
<1>2. (c >= 10 => y # 0) /\ (c >= 100 => u # 0)
  OBVIOUS
<1>3. CASE c = 0
  BY <1>3 DEF CarryOf
<1>4. CASE c # 0 /\ c < 10
  <2>1. CarryOf(c) = <<c>>
    BY <1>4 DEF CarryOf
  <2>2. <<c>> \in Seq(T) /\ Len(<<c>>) = 1 /\ <<c>>[1] = c
    BY <1>1, <1>4
  <2>3. QED
    BY <1>4, <2>1, <2>2
<1>5. CASE c # 0 /\ ~(c < 10) /\ c < 100
  <2>1. CarryOf(c) = <<x, y>>
    BY <1>5 DEF CarryOf
  <2> HIDE DEF x, y
  <2>2. <<x, y>> \in Seq(T) /\ Len(<<x, y>>) = 2 /\ <<x, y>>[2] = y
    BY <1>1, <1>5
  <2>3. QED
    BY <1>2, <1>5, <2>1, <2>2
<1>6. CASE c # 0 /\ ~(c < 10) /\ ~(c < 100)
  <2>1. CarryOf(c) = <<x, z, u>>
    BY <1>6 DEF CarryOf
  <2> HIDE DEF x, z, u
  <2>2. <<x, z, u>> \in Seq(T) /\ Len(<<x, z, u>>) = 3 /\ <<x, z, u>>[3] = u
    BY <1>1
  <2>3. QED
    BY <1>2, <1>6, <2>1, <2>2
<1>7. QED
  BY <1>3, <1>4, <1>5, <1>6

(* The fold of int_to_decimal.                                             *)
Digits10 == Seq(0 .. 9)
AddTake == [b \in 0 .. 255 |-> [s \in Digits10 |-> AddByte(s, b)]]

(* AddByte gives digits.                                                   *)
LEMMA AddedFacts ==
  ASSUME NEW s \in Digits10, NEW b \in 0 .. 255
  PROVE  LET r == Shifted(s, b)
         IN  /\ r.digits \in Digits10 /\ r.carry \in 0 .. 255
             /\ AddByte(s, b) = r.digits \o CarryOf(r.carry) /\ AddByte(s, b) \in Digits10
<1> DEFINE r == Shifted(s, b)
<1>1. r \in Shifting
  BY ShiftedFacts, Zenon DEF Digits10
<1>2. AddByte(s, b) = r.digits \o CarryDigits[r.carry]
  BY Zenon DEF AddByte
<1> HIDE DEF r
<1>3. r.digits \in Digits10 /\ r.carry \in 0 .. 255
  BY <1>1 DEF Shifting, Digits10
<1>4. CarryDigits[r.carry] = CarryOf(r.carry) /\ CarryOf(r.carry) \in Digits10
  BY <1>3, CarryFacts, CarryType DEF Digits10
<1>5. r.digits \o CarryOf(r.carry) \in Digits10
  <2> DEFINE T == 0 .. 9
             x == r.digits
             y == CarryOf(r.carry)
  <2>1. x \in Seq(T) /\ y \in Seq(T)
    BY <1>3, <1>4 DEF Digits10
  <2> HIDE DEF T, x, y
  <2>2. x \o y \in Seq(T)
    BY <2>1, ConcatProperties
  <2>3. QED
    BY <2>2 DEF T, x, y, Digits10
<1>6. QED
  BY <1>2, <1>3, <1>4, <1>5 DEF r

(* int_to_decimal is a fold of AddByte.                                    *)
LEMMA AddFold ==
  ASSUME NEW s \in Seq(0 .. 255)
  PROVE  FoldLeft(AddByte, <<0>>, s) = Folded(Digits10, <<0>>, AddTake, s)
<1> DEFINE F(g) == [q \in SUBSET (DOMAIN s) |->
                      IF q = {} THEN <<0>>
                      ELSE LET x == Max(q) IN AddByte(g[q \ {x}], s[x])]
           iter == CHOOSE g : g = F(g)
           n == Len(s)
<1>1. n \in Nat /\ DOMAIN s = 1 .. n /\ \A k \in 1 .. n : s[k] \in 0 .. 255
  BY SeqFacts
<1>2. <<0>> \in Digits10
  BY SMTT(40) DEF Digits10
<1>3. AddTake \in [0 .. 255 -> [Digits10 -> Digits10]]
  BY AddedFacts, Zenon DEF AddTake
<1> HIDE DEF n
<1>4. \A q \in SUBSET (1 .. n) : q # {} =>
        \A r \in Digits10 : AddTake[s[Max(q)]][r] = AddByte(r, s[Max(q)])
  BY <1>1, TopOf, Zenon DEF AddTake
<1>5. PICK g \in [SUBSET (1 .. n) -> Digits10] : SetFold(g, Digits10, <<0>>, AddTake, s)
  BY <1>2, <1>3, SetFoldExists, ZenonT(40) DEF n
<1>6. g = F(g)
  BY <1>1, <1>4, <1>5 DEF SetFold, n
<1>7. iter = F(iter)
  BY <1>6, Zenon
<1>8. FoldLeft(AddByte, <<0>>, s) = iter[DOMAIN s]
  BY DEF FoldLeft, MapThenFoldSet
<1> HIDE DEF iter
<1>9. SetFold(iter, Digits10, <<0>>, AddTake, s)
  <2>1. iter[{}] = <<0>>
    BY <1>7, Zenon
  <2>2. \A q \in SUBSET (1 .. n) : q # {} => iter[q] = AddByte(iter[q \ {Max(q)}], s[Max(q)])
    BY <1>1, <1>7, Zenon
  <2>3. QED
    BY <1>4, <2>1, <2>2 DEF SetFold, n
<1>10. iter[DOMAIN s] = Folded(Digits10, <<0>>, AddTake, s)
  <2>1. \A it : SetFold(it, Digits10, <<0>>, AddTake, s) =>
                 it[DOMAIN s] = Folded(Digits10, <<0>>, AddTake, s)
    <3> DEFINE S == Digits10
               T == 0 .. 255
               base == <<0>>
               take == AddTake
    <3>1. base \in S /\ take \in [T -> [S -> S]] /\ s \in Seq(T)
      BY <1>2, <1>3
    <3> HIDE DEF S, T, base, take
    <3>2. \A it : SetFold(it, S, base, take, s) => it[DOMAIN s] = Folded(S, base, take, s)
      BY <3>1, FoldedBySets
    <3>3. QED
      BY <3>2, SMTT(40) DEF S, base, take
  <2>2. QED
    BY <1>9, <2>1
<1>11. QED
  BY <1>8, <1>10
(* It takes one byte at a time.                                            *)
LEMMA DecimalFacts ==
  LET D(s) == FoldLeft(AddByte, <<0>>, s)
  IN  /\ D(<<>>) = <<0>>
      /\ \A s \in Seq(0 .. 255) : D(s) \in Digits10
      /\ \A s \in Seq(0 .. 255) : \A b \in 0 .. 255 : D(Append(s, b)) = AddByte(D(s), b)
<1>1. <<0>> \in Digits10
  BY SMTT(40) DEF Digits10
<1>2. AddTake \in [0 .. 255 -> [Digits10 -> Digits10]]
  BY AddedFacts, ZenonT(40) DEF AddTake
<1> DEFINE D(s) == FoldLeft(AddByte, <<0>>, s)
           T == 0 .. 255
           F(s) == Folded(Digits10, <<0>>, AddTake, s)
<1>3. /\ F(<<>>) = <<0>>
      /\ \A s \in Seq(T) : F(s) \in Digits10
      /\ \A s \in Seq(T) : \A b \in T : F(Append(s, b)) = AddTake[b][F(s)]
  <2>1. AddTake \in [T -> [Digits10 -> Digits10]]
    BY <1>2
  <2> DEFINE S == Digits10
             base == <<0>>
  <2>2. base \in S
    BY <1>1
  <2> HIDE DEF T, S, base
  <2>3. /\ Folded(S, base, AddTake, <<>>) = base
        /\ \A s \in Seq(T) : Folded(S, base, AddTake, s) \in S
        /\ \A s \in Seq(T) : \A b \in T :
             Folded(S, base, AddTake, Append(s, b)) = AddTake[b][Folded(S, base, AddTake, s)]
    BY <2>1, <2>2, FoldedFacts DEF S
  <2>4. QED
    BY <2>3, Zenon DEF S, base
<1>4. /\ <<>> \in Seq(0 .. 255)
      /\ \A s \in Seq(0 .. 255) : \A b \in 0 .. 255 : Append(s, b) \in Seq(0 .. 255)
  BY EmptySeq, AppendProperties
<1>5. \A s \in Seq(0 .. 255) : D(s) = F(s)
  BY AddFold
<1> HIDE DEF D, F
<1>6. ASSUME NEW s \in Seq(0 .. 255), NEW b \in 0 .. 255
      PROVE  D(Append(s, b)) = AddByte(D(s), b)
  <2>1. F(Append(s, b)) = AddTake[b][F(s)] /\ F(s) \in Digits10
    BY <1>3
  <2>2. AddTake[b][F(s)] = AddByte(F(s), b)
    BY <2>1, Zenon DEF AddTake
  <2>3. QED
    BY <1>4, <1>5, <2>1, <2>2
<1>7. /\ D(<<>>) = <<0>>
      /\ \A s \in Seq(0 .. 255) : D(s) \in Digits10
      /\ \A s \in Seq(0 .. 255) : \A b \in 0 .. 255 : D(Append(s, b)) = AddByte(D(s), b)
  BY <1>3, <1>4, <1>5, <1>6, ZenonT(40)
<1>8. QED
  BY <1>7, Zenon DEF D

(* The fold of Remainder.                                                  *)
Mod(r, d, base, m) == (r * base + d) % m
ModTake(base, m) == [d \in 0 .. 255 |-> [r \in Nat |-> Mod(r, d, base, m)]]

(* A step of Remainder stays a number.                                     *)
LEMMA ModType ==
  ASSUME NEW base \in Nat, NEW m \in Nat \ {0}, NEW r \in Nat, NEW d \in 0 .. 255
  PROVE  Mod(r, d, base, m) \in Nat
<1> DEFINE x == r * base
<1>1. x \in Nat
  OBVIOUS
<1> HIDE DEF x
<1>2. x + d \in Nat
  BY <1>1
<1> DEFINE y == x + d
<1> HIDE DEF y
<1>3. y % m \in Nat
  BY <1>2 DEF y
<1>4. QED
  BY <1>3, Zenon DEF Mod, x, y

(* Remainder is a fold of Mod.                                             *)
LEMMA ModFold ==
  ASSUME NEW radix \in Nat, NEW m \in Nat \ {0}, NEW s \in Seq(0 .. 255)
  PROVE  Remainder(s, radix, m) = Folded(Nat, 0, ModTake(radix, m), s)
<1> DEFINE F(g) == [q \in SUBSET (DOMAIN s) |->
                      IF q = {} THEN 0
                      ELSE LET x == Max(q) IN Mod(g[q \ {x}], s[x], radix, m)]
           iter == CHOOSE g : g = F(g)
           n == Len(s)
<1>1. n \in Nat /\ DOMAIN s = 1 .. n /\ \A k \in 1 .. n : s[k] \in 0 .. 255
  BY SeqFacts
<1>2. 0 \in Nat
  OBVIOUS
<1>3. ModTake(radix, m) \in [0 .. 255 -> [Nat -> Nat]]
  BY ModType DEF ModTake
<1> HIDE DEF n
<1>4. \A q \in SUBSET (1 .. n) : q # {} =>
        \A r \in Nat : ModTake(radix, m)[s[Max(q)]][r] = Mod(r, s[Max(q)], radix, m)
  BY <1>1, TopOf, Zenon DEF ModTake
<1>5. PICK g \in [SUBSET (1 .. n) -> Nat] : SetFold(g, Nat, 0, ModTake(radix, m), s)
  BY <1>2, <1>3, SetFoldExists, ZenonT(40) DEF n
<1>6. g = F(g)
  BY <1>1, <1>4, <1>5, ZenonT(40) DEF SetFold, n
<1>7. iter = F(iter)
  BY <1>6, Zenon
<1>8. Remainder(s, radix, m) = iter[DOMAIN s]
  BY Zenon DEF Remainder, FoldLeft, MapThenFoldSet, Mod
<1> HIDE DEF iter
<1>9. SetFold(iter, Nat, 0, ModTake(radix, m), s)
  <2>1. iter[{}] = 0
    BY <1>7, Zenon
  <2>2. \A q \in SUBSET (1 .. n) : q # {} => iter[q] = Mod(iter[q \ {Max(q)}], s[Max(q)], radix, m)
    BY <1>1, <1>7, Zenon
  <2>3. QED
    BY <1>4, <2>1, <2>2 DEF SetFold, n
<1>10. iter[DOMAIN s] = Folded(Nat, 0, ModTake(radix, m), s)
  <2>1. \A it : SetFold(it, Nat, 0, ModTake(radix, m), s) =>
                 it[DOMAIN s] = Folded(Nat, 0, ModTake(radix, m), s)
    <3> DEFINE S == Nat
               T == 0 .. 255
               base == 0
               take == ModTake(radix, m)
    <3>1. base \in S /\ take \in [T -> [S -> S]] /\ s \in Seq(T)
      BY <1>2, <1>3
    <3> HIDE DEF S, T, base, take
    <3>2. \A it : SetFold(it, S, base, take, s) => it[DOMAIN s] = Folded(S, base, take, s)
      BY <3>1, FoldedBySets
    <3>3. QED
      BY <3>2 DEF S, base, take
  <2>2. QED
    BY <1>9, <2>1
<1>11. QED
  BY <1>8, <1>10
(* Remainder takes one digit at a time.                                    *)
LEMMA ModFacts ==
  ASSUME NEW radix \in Nat, NEW m \in Nat \ {0}
  PROVE  /\ Remainder(<<>>, radix, m) = 0
         /\ \A s \in Seq(0 .. 255) : Remainder(s, radix, m) \in Nat
         /\ \A s \in Seq(0 .. 255) : \A d \in 0 .. 255 :
              Remainder(Append(s, d), radix, m) = Mod(Remainder(s, radix, m), d, radix, m)
<1> DEFINE T == 0 .. 255
           taken == ModTake(radix, m)
           F(s) == Folded(Nat, 0, taken, s)
           R(s) == Remainder(s, radix, m)
<1>1. taken \in [T -> [Nat -> Nat]]
  BY ModType DEF ModTake
<1>2. \A d \in T : \A r \in Nat : taken[d][r] = Mod(r, d, radix, m)
  BY Zenon DEF ModTake
<1> HIDE DEF taken, T
<1>3. /\ F(<<>>) = 0
      /\ \A s \in Seq(T) : F(s) \in Nat
      /\ \A s \in Seq(T) : \A d \in T : F(Append(s, d)) = taken[d][F(s)]
  <2> DEFINE S == Nat
             base == 0
  <2>1. base \in S
    OBVIOUS
  <2>0. Foldable(S, T, base, taken)
    BY <1>1, <2>1, Zenon DEF Foldable
  <2> HIDE DEF S, base
  <2>2. /\ Folded(S, base, taken, <<>>) = base
        /\ \A s \in Seq(T) : Folded(S, base, taken, s) \in S
        /\ \A s \in Seq(T) : \A d \in T :
             Folded(S, base, taken, Append(s, d)) = taken[d][Folded(S, base, taken, s)]
    BY <2>0, FoldableFacts
  <2>3. QED
    BY <2>2, Zenon DEF S, base
<1>4. <<>> \in Seq(T) /\ \A s \in Seq(T) : \A d \in T : Append(s, d) \in Seq(T)
  BY EmptySeq, AppendProperties
<1>5. \A s \in Seq(T) : R(s) = F(s)
  BY ModFold DEF T, taken
<1> HIDE DEF F, R
<1>6. ASSUME NEW s \in Seq(T), NEW d \in T
      PROVE  R(Append(s, d)) = Mod(R(s), d, radix, m)
  <2>1. F(Append(s, d)) = taken[d][F(s)] /\ F(s) \in Nat
    BY <1>3
  <2>2. taken[d][F(s)] = Mod(F(s), d, radix, m)
    BY <1>2, <2>1
  <2>3. QED
    BY <1>4, <1>5, <2>1, <2>2
<1>7. /\ R(<<>>) = 0 /\ \A s \in Seq(T) : R(s) \in Nat
      /\ \A s \in Seq(T) : \A d \in T : R(Append(s, d)) = Mod(R(s), d, radix, m)
  BY <1>3, <1>4, <1>5, <1>6
<1>8. QED
  BY <1>7, Zenon DEF R, T

(* The number of a sequence of digits: from the lowest one, with the       *)
(* weight of the next one; and from the highest one.                       *)
Weighed == [v : Nat, w : Nat]
Weigh(a, d) == [v |-> a.v + d * a.w, w |-> 10 * a.w]
WeighTake == [d \in 0 .. 9 |-> [a \in Weighed |-> Weigh(a, d)]]
Unweighed == [v |-> 0, w |-> 1]
Value(s) == Folded(Weighed, Unweighed, WeighTake, s)
HornerTake(radix) == [d \in 0 .. 255 |-> [r \in Nat |-> r * radix + d]]
Number(s, radix) == Folded(Nat, 0, HornerTake(radix), s)

(* Value takes one digit at a time: v of them so far, and the weight w of  *)
(* the next.                                                               *)
LEMMA ValueFacts ==
  /\ Value(<<>>) = Unweighed
  /\ \A s \in Seq(0 .. 9) : Value(s) \in Weighed
  /\ \A s \in Seq(0 .. 9) : \A d \in 0 .. 9 : Value(Append(s, d)) = Weigh(Value(s), d)
<1> DEFINE T == 0 .. 9
           V(s) == Folded(Weighed, Unweighed, WeighTake, s)
<1>1. Unweighed \in Weighed
  BY DEF Unweighed, Weighed
<1>2. ASSUME NEW d \in 0 .. 9, NEW a \in Weighed PROVE Weigh(a, d) \in Weighed
  <2> DEFINE x == a.v
             y == a.w
  <2>1. x \in Nat /\ y \in Nat
    BY DEF Weighed
  <2> HIDE DEF x, y
  <2>2. d * y \in Nat /\ 10 * y \in Nat
    BY <2>1
  <2>3. x + d * y \in Nat
    BY <2>1, <2>2
  <2>4. Weigh(a, d) = [v |-> x + d * y, w |-> 10 * y]
    BY Zenon DEF Weigh, x, y
  <2>5. QED
    BY <2>2, <2>3, <2>4 DEF Weighed
<1>3. Foldable(Weighed, T, Unweighed, WeighTake)
  BY <1>1, <1>2 DEF Foldable, WeighTake
<1> HIDE DEF T
<1>4. /\ V(<<>>) = Unweighed
      /\ \A s \in Seq(T) : V(s) \in Weighed
      /\ \A s \in Seq(T) : \A d \in T : V(Append(s, d)) = WeighTake[d][V(s)]
  BY <1>3, FoldableFacts
<1> HIDE DEF V
<1>5. ASSUME NEW s \in Seq(T), NEW d \in T PROVE V(Append(s, d)) = Weigh(V(s), d)
  <2>1. V(Append(s, d)) = WeighTake[d][V(s)] /\ V(s) \in Weighed
    BY <1>4
  <2>2. WeighTake[d][V(s)] = Weigh(V(s), d)
    BY <2>1 DEF WeighTake, T
  <2>3. QED
    BY <2>1, <2>2
<1>6. /\ V(<<>>) = Unweighed
      /\ \A s \in Seq(T) : V(s) \in Weighed
      /\ \A s \in Seq(T) : \A d \in T : V(Append(s, d)) = Weigh(V(s), d)
  BY <1>4, <1>5
<1>7. QED
  BY <1>6, Zenon DEF V, T, Value

(* Number takes one digit at a time.                                       *)
LEMMA NumberFacts ==
  ASSUME NEW radix \in Nat
  PROVE  /\ Number(<<>>, radix) = 0
         /\ \A s \in Seq(0 .. 255) : Number(s, radix) \in Nat
         /\ \A s \in Seq(0 .. 255) : \A d \in 0 .. 255 :
              Number(Append(s, d), radix) = Number(s, radix) * radix + d
<1> DEFINE T == 0 .. 255
           S == Nat
           base == 0
           taken == HornerTake(radix)
           V(s) == Folded(S, base, taken, s)
<1>1. \A d \in T : \A r \in Nat : taken[d][r] = r * radix + d
  BY Zenon DEF HornerTake
<1>2. Foldable(S, T, base, taken)
  <2>1. ASSUME NEW d \in T, NEW r \in Nat PROVE r * radix + d \in Nat
    <3>1. r * radix \in Nat
      OBVIOUS
    <3>2. QED
      BY <3>1
  <2>2. QED
    BY <2>1 DEF Foldable, HornerTake
<1> HIDE DEF S, T, base, taken
<1>3. /\ V(<<>>) = base
      /\ \A s \in Seq(T) : V(s) \in S
      /\ \A s \in Seq(T) : \A d \in T : V(Append(s, d)) = taken[d][V(s)]
  BY <1>2, FoldableFacts
<1> HIDE DEF V
<1>4. /\ V(<<>>) = 0
      /\ \A s \in Seq(T) : V(s) \in Nat
      /\ \A s \in Seq(T) : \A d \in T : V(Append(s, d)) = V(s) * radix + d
  BY <1>1, <1>3, Zenon DEF S, base
<1>5. QED
  BY <1>4, Zenon DEF V, T, S, base, taken, Number

(* A byte is shifted in: the number grows 256-fold, and by the byte.       *)
LEMMA ShiftArithmetic ==
  ASSUME NEW v \in Nat, NEW w \in Nat, NEW c \in 0 .. 255, NEW u \in Nat, NEW b \in Nat,
         NEW d \in 0 .. 9, v + c * w = 256 * u + b
  PROVE  (v + ((d * 256 + c) % 10) * w) + ((d * 256 + c) \div 10) * (10 * w)
           = 256 * (u + d * w) + b
<1> DEFINE a == d * 256 + c
           q == a \div 10
           r == a % 10
<1>1. a \in Nat /\ q \in Nat /\ r \in Nat /\ a = 10 * q + r
  OBVIOUS
<1>2. a * w = 256 * (d * w) + c * w
  <2>1. (d * 256 + c) * w = 256 * (d * w) + c * w
    OBVIOUS
  <2>2. QED
    BY <2>1
<1> HIDE DEF a, q, r
<1>3. q * (10 * w) = 10 * (q * w) /\ (10 * q + r) * w = 10 * (q * w) + r * w
  BY <1>1
<1>4. r * w + q * (10 * w) = a * w
  <2>1. r * w \in Nat /\ q * w \in Nat
    BY <1>1
  <2>2. a * w = 10 * (q * w) + r * w
    BY <1>1, <1>3
  <2>3. QED
    BY <1>3, <2>1, <2>2
<1>5. (v + r * w) + q * (10 * w) = 256 * (u + d * w) + b
  <2> DEFINE x == r * w
             y == q * (10 * w)
             z == d * w
             e == c * w
             f == a * w
  <2>1. x \in Nat /\ y \in Nat /\ z \in Nat /\ e \in Nat /\ f \in Nat
    BY <1>1
  <2>2. x + y = f /\ f = 256 * z + e /\ v + e = 256 * u + b
    BY <1>2, <1>4
  <2> HIDE DEF x, y, z, e, f
  <2>3. (v + x) + y = 256 * (u + z) + b
    BY <2>1, <2>2
  <2>4. QED
    BY <2>3 DEF x, y, z
<1>6. QED
  BY <1>5 DEF a, q, r

(* The fields of Weigh.                                                    *)
LEMMA WeighFields ==
  ASSUME NEW a, NEW d
  PROVE  Weigh(a, d).v = a.v + d * a.w /\ Weigh(a, d).w = 10 * a.w
BY DEF Weigh

Balanced(v, w, c, u, b) == v + c * w = 256 * u + b

(* A step of Shifted keeps the balance.                                    *)
LEMMA BalanceKept ==
  ASSUME NEW v \in Nat, NEW w \in Nat, NEW c \in 0 .. 255, NEW u \in Nat, NEW b \in Nat,
         NEW d \in 0 .. 9, NEW e, NEW f, e = (d * 256 + c) % 10, f = (d * 256 + c) \div 10,
         Balanced(v, w, c, u, b)
  PROVE  Balanced(v + e * w, 10 * w, f, u + d * w, b)
<1>1. (v + ((d * 256 + c) % 10) * w) + ((d * 256 + c) \div 10) * (10 * w) = 256 * (u + d * w) + b
  <2>1. v + c * w = 256 * u + b
    BY DEF Balanced
  <2>2. QED
    BY <2>1, ShiftArithmetic
<1>2. QED
  BY <1>1, SMTT(40) DEF Balanced

(* The invariant of Shifted: its digits and carry are 256 times the        *)
(* number, and the byte.                                                   *)
LEMMA ShiftedValue ==
  ASSUME NEW b \in 0 .. 255, NEW ds \in Seq(0 .. 9)
  PROVE  LET r == Shifted(ds, b)
         IN  /\ Value(r.digits).w = Value(ds).w /\ Len(r.digits) = Len(ds)
             /\ Value(r.digits).v + r.carry * Value(ds).w = 256 * Value(ds).v + b
<1> DEFINE Right(s) == /\ Value(Shifted(s, b).digits).w = Value(s).w
                       /\ Len(Shifted(s, b).digits) = Len(s)
                       /\ Value(Shifted(s, b).digits).v + Shifted(s, b).carry * Value(s).w
                            = 256 * Value(s).v + b
           T == 0 .. 9
           P == {s \in Seq(T) : Right(s)}
<1>1. <<>> \in P
  <2>1. Shifted(<<>>, b) = Unshifted(b) /\ Value(<<>>) = Unweighed
    BY ShiftedFacts, ValueFacts, Zenon
  <2>2. 0 + b * 1 = 256 * 0 + b
    OBVIOUS
  <2>3. Right(<<>>)
    BY <2>1, <2>2 DEF Unshifted, Unweighed
  <2>4. <<>> \in Seq(T)
    BY EmptySeq
  <2>5. QED
    BY <2>3, <2>4
<1>2. ASSUME NEW s \in Seq(T), NEW d \in T, s \in P PROVE Append(s, d) \in P
  <2> DEFINE r == Shifted(s, b)
             u == Append(s, d)
             c == r.carry
             e == (d * 256 + c) % 10
             f == (d * 256 + c) \div 10
             x == Value(s)
             y == Value(r.digits)
  <2>1. Right(s)
    BY <1>2
  <2>2. r \in Shifting
    BY ShiftedFacts, Zenon
  <2>3. r.digits \in Seq(0 .. 9) /\ c \in 0 .. 255
    BY <2>2 DEF Shifting
  <2>4. e \in 0 .. 9 /\ f \in Nat
    <3> HIDE DEF c
    <3>1. QED
      BY <2>3
  <2>5. Shifted(u, b) = [digits |-> Append(r.digits, e), carry |-> f]
    <3>1. Shifted(u, b) = ShiftStep(r, d)
      BY ShiftedFacts, Zenon
    <3>2. QED
      BY <3>1, Zenon DEF ShiftStep
  <2> DEFINE z == Value(u)
             g == Append(r.digits, e)
  <2>6. z = Weigh(x, d)
    BY ValueFacts
  <2>7. Value(g) = Weigh(y, e)
    <3> HIDE DEF e, r
    <3>1. QED
      BY <2>3, <2>4, ValueFacts
  <2>8. x \in Weighed /\ y \in Weighed
    <3> HIDE DEF r
    <3>1. QED
      BY <2>3, ValueFacts
  <2>9. x.v \in Nat /\ x.w \in Nat /\ y.v \in Nat /\ y.w \in Nat
    BY <2>8 DEF Weighed
  <2>10. y.w = x.w /\ Len(r.digits) = Len(s) /\ y.v + c * x.w = 256 * x.v + b
    BY <2>1
  <2>11. /\ z.v = x.v + d * x.w /\ z.w = 10 * x.w
         /\ Value(g).v = y.v + e * y.w /\ Value(g).w = 10 * y.w
    <3> HIDE DEF x, y, z, e, g
    <3>1. QED
      BY <2>6, <2>7, WeighFields, Zenon
  <2>12. Len(g) = Len(u)
    <3>1. Len(g) = Len(r.digits) + 1
      <4> DEFINE h == r.digits
      <4>1. h \in Seq(T) /\ e \in T
        BY <2>3, <2>4
      <4> HIDE DEF T, e, h
      <4>2. Len(Append(h, e)) = Len(h) + 1
        BY <4>1, AppendProperties
      <4>3. QED
        BY <4>2 DEF h
    <3>2. Len(u) = Len(s) + 1
      BY AppendProperties
    <3>3. QED
      BY <2>10, <3>1, <3>2
  <2>13. (y.v + e * x.w) + f * (10 * x.w) = 256 * (x.v + d * x.w) + b
    <3> DEFINE yv == y.v
               xv == x.v
               xw == x.w
    <3>1. yv \in Nat /\ xv \in Nat /\ xw \in Nat
      BY <2>9
    <3>2. c \in 0 .. 255 /\ b \in Nat /\ d \in 0 .. 9
      BY <2>3
    <3>3. yv + c * xw = 256 * xv + b
      BY <2>10
    <3>4. Balanced(yv, xw, c, xv, b)
      BY <3>3 DEF Balanced
    <3>5. e = (d * 256 + c) % 10 /\ f = (d * 256 + c) \div 10
      BY SMTT(40)
    <3> HIDE DEF yv, xv, xw, c, e, f
    <3>6. Balanced(yv + e * xw, 10 * xw, f, xv + d * xw, b)
      BY <3>1, <3>2, <3>4, <3>5, BalanceKept, ZenonT(40)
    <3>7. (yv + e * xw) + f * (10 * xw) = 256 * (xv + d * xw) + b
      BY <3>6 DEF Balanced
    <3>8. QED
      BY <3>7 DEF yv, xv, xw
  <2> DEFINE R == Shifted(u, b)
  <2>14. R.digits = g /\ R.carry = f
    BY <2>5
  <2> HIDE DEF R, g, f, e, x, y, z, u, c
  <2>15. /\ Value(R.digits).w = z.w /\ Len(R.digits) = Len(u)
         /\ Value(R.digits).v + R.carry * z.w = 256 * z.v + b
    BY <2>10, <2>11, <2>12, <2>13, <2>14, ZenonT(40)
  <2>16. Right(u)
    BY <2>15, Zenon DEF R, z
  <2>17. u \in Seq(T)
    BY AppendProperties DEF u
  <2>18. QED
    BY <2>16, <2>17 DEF u
<1> HIDE DEF P, T
<1>3. Seq(T) \subseteq P
  BY <1>1, <1>2, SeqInduction
<1>4. Right(ds)
  BY <1>3 DEF P, T
<1>5. QED
  BY <1>4, Zenon

(* The digits of a carry, on top of others.                                *)
LEMMA TopArithmetic ==
  ASSUME NEW c \in 0 .. 255, NEW v \in Nat, NEW w \in Nat
  PROVE  /\ v + 0 * w = v
         /\ c < 100 => (v + (c % 10) * w) + (c \div 10) * (10 * w) = v + c * w
         /\ ((v + (c % 10) * w) + ((c \div 10) % 10) * (10 * w)) + (c \div 100) * (10 * (10 * w))
              = v + c * w
<1> DEFINE x == c % 10
           y == (c \div 10) % 10
           z == c \div 100
           q == c \div 10
<1>1. x \in Nat /\ y \in Nat /\ z \in Nat /\ q \in Nat /\ c = 10 * q + x /\ q = 10 * z + y
  OBVIOUS
<1> HIDE DEF x, y, z, q
<1>2. c * w = 10 * (q * w) + x * w /\ q * w = 10 * (z * w) + y * w
  <2>1. (10 * q + x) * w = 10 * (q * w) + x * w /\ (10 * z + y) * w = 10 * (z * w) + y * w
    BY <1>1
  <2>2. QED
    BY <1>1, <2>1
<1>3. /\ q * (10 * w) = 10 * (q * w) /\ y * (10 * w) = 10 * (y * w)
      /\ z * (10 * (10 * w)) = 100 * (z * w) /\ 0 * w = 0
  BY <1>1
<1>4. x * w \in Nat /\ y * w \in Nat /\ z * w \in Nat /\ q * w \in Nat /\ c * w \in Nat
  BY <1>1
<1>5. (v + x * w) + q * (10 * w) = v + c * w
  BY <1>2, <1>3, <1>4
<1>6. ((v + x * w) + y * (10 * w)) + z * (10 * (10 * w)) = v + c * w
  <2> DEFINE xw == x * w
             yw == y * w
             zw == z * w
             qw == q * w
             cw == c * w
             k == y * (10 * w)
             l == z * (10 * (10 * w))
  <2>1. /\ xw \in Nat /\ yw \in Nat /\ zw \in Nat /\ qw \in Nat /\ cw \in Nat
        /\ cw = 10 * qw + xw /\ qw = 10 * zw + yw /\ k = 10 * yw /\ l = 100 * zw
    BY <1>2, <1>3, <1>4
  <2> HIDE DEF xw, yw, zw, qw, cw, k, l
  <2>2. ((v + xw) + k) + l = v + cw
    BY <2>1
  <2>3. QED
    BY <2>2 DEF xw, k, l, cw
<1>7. v + 0 * w = v
  BY <1>3
<1>8. QED
  BY <1>5, <1>6, <1>7 DEF x, y, z, q

(* One digit more, at the top.                                             *)
LEMMA WeighParts ==
  ASSUME NEW s \in Seq(0 .. 9), NEW d \in 0 .. 9
  PROVE  /\ Append(s, d) \in Seq(0 .. 9) /\ s \o <<d>> = Append(s, d)
         /\ Value(s).v \in Nat /\ Value(s).w \in Nat
         /\ Value(Append(s, d)).v = Value(s).v + d * Value(s).w
         /\ Value(Append(s, d)).w = 10 * Value(s).w
<1> DEFINE T == 0 .. 9
<1>1. Append(s, d) \in Seq(T) /\ s \o <<d>> = Append(s, d)
  <2>1. s \in Seq(T) /\ d \in T
    OBVIOUS
  <2> HIDE DEF T
  <2>2. QED
    BY <2>1, AppendProperties, AppendIsConcat
<1>2. Value(s) \in Weighed /\ Value(Append(s, d)) = Weigh(Value(s), d)
  BY ValueFacts
<1>3. Value(s).v \in Nat /\ Value(s).w \in Nat
  BY <1>2 DEF Weighed
<1>4. /\ Value(Append(s, d)).v = Value(s).v + d * Value(s).w
      /\ Value(Append(s, d)).w = 10 * Value(s).w
  BY <1>2, WeighFields, Zenon
<1>5. QED
  BY <1>1, <1>3, <1>4

(* Up to three digits more, one by one.                                    *)
LEMMA ConcatPairs ==
  ASSUME NEW S, NEW s \in Seq(S), NEW x \in S, NEW y \in S, NEW z \in S
  PROVE  /\ s \o <<>> = s /\ s \o <<x>> = Append(s, x)
         /\ s \o <<x, y>> = Append(Append(s, x), y)
         /\ s \o <<x, y, z>> = Append(Append(Append(s, x), y), z)
<1>1. /\ <<x>> \in Seq(S) /\ <<y>> \in Seq(S) /\ <<z>> \in Seq(S) /\ <<y, z>> \in Seq(S)
  OBVIOUS
<1> DEFINE a == Append(s, x)
           b == Append(a, y)
<1>2. a \in Seq(S) /\ b \in Seq(S)
  BY AppendProperties
<1>3. a = s \o <<x>>
  BY AppendIsConcat
<1> HIDE DEF a
<1>4. b = a \o <<y>>
  BY <1>2, AppendIsConcat
<1> HIDE DEF b
<1>5. Append(b, z) = b \o <<z>>
  BY <1>2, AppendIsConcat
<1>6. <<x>> \o <<y>> = <<x, y>> /\ <<x>> \o <<y, z>> = <<x, y, z>> /\ <<y>> \o <<z>> = <<y, z>>
  BY Concats, Zenon
<1>7. (s \o <<x>>) \o <<y>> = s \o (<<x>> \o <<y>>)
  BY <1>1, ConcatAssociative
<1>8. (s \o <<x>>) \o <<y, z>> = s \o (<<x>> \o <<y, z>>)
  BY <1>1, ConcatAssociative
<1>9. (a \o <<y>>) \o <<z>> = a \o (<<y>> \o <<z>>)
  BY <1>1, <1>2, ConcatAssociative
<1>10. s \o <<>> = s
  BY ConcatEmptySeq
<1>11. QED
  BY <1>3, <1>4, <1>5, <1>6, <1>7, <1>8, <1>9, <1>10, Zenon DEF a, b

(* The digits of a carry are worth the carry.                              *)
LEMMA CarryValue ==
  ASSUME NEW s \in Seq(0 .. 9), NEW c \in 0 .. 255
  PROVE  Value(s \o CarryOf(c)).v = Value(s).v + c * Value(s).w
<1> DEFINE T == 0 .. 9
           x == c % 10
           y == (c \div 10) % 10
           z == c \div 100
           q == c \div 10
           v == Value(s).v
           w == Value(s).w
<1>1. x \in T /\ y \in T /\ 0 \in T /\ (c < 10 => c \in T) /\ (c < 100 => q \in T) /\ z \in T
  OBVIOUS
<1>2. v \in Nat /\ w \in Nat
  BY <1>1, WeighParts
<1> HIDE DEF v, w
<1>3. /\ v + 0 * w = v
      /\ c < 100 => (v + x * w) + q * (10 * w) = v + c * w
      /\ ((v + x * w) + y * (10 * w)) + z * (10 * (10 * w)) = v + c * w
  BY <1>2, TopArithmetic
<1> HIDE DEF x, y, z, q
<1>4. CASE c = 0
  <2>1. s \o CarryOf(c) = s
    BY <1>1, <1>4, ConcatEmptySeq DEF CarryOf
  <2>2. v + 0 * w = v
    BY <1>3
  <2>3. QED
    BY <1>4, <2>1, <2>2 DEF v, w
<1>5. CASE c # 0 /\ c < 10
  <2>1. CarryOf(c) = <<c>>
    BY <1>5 DEF CarryOf
  <2>2. c \in 0 .. 9
    BY <1>5
  <2>3. s \o <<c>> = Append(s, c) /\ Value(Append(s, c)).v = Value(s).v + c * Value(s).w
    BY <2>2, WeighParts
  <2>4. QED
    BY <2>1, <2>3
<1>6. CASE c # 0 /\ ~(c < 10) /\ c < 100
  <2> DEFINE a == Append(s, x)
             b == Append(a, q)
  <2>1. CarryOf(c) = <<x, q>>
    BY <1>6 DEF CarryOf, x, q
  <2>2. x \in 0 .. 9 /\ q \in 0 .. 9
    BY <1>1, <1>6
  <2>3. /\ a \in Seq(0 .. 9)
        /\ Value(a).v = v + x * w /\ Value(a).w = 10 * w
    BY <2>2, WeighParts DEF v, w
  <2> HIDE DEF a
  <2>4. Value(b).v = Value(a).v + q * Value(a).w
    BY <2>2, <2>3, WeighParts
  <2>5. s \o <<x, q>> = b
    <3>1. s \in Seq(T) /\ x \in T /\ q \in T
      BY <2>2
    <3> HIDE DEF T
    <3>2. QED
      BY <3>1, ConcatPairs DEF a
  <2> HIDE DEF b
  <2>6. Value(s \o CarryOf(c)).v = (v + x * w) + q * (10 * w)
    BY <2>1, <2>3, <2>4, <2>5
  <2>7. QED
    BY <1>3, <1>6, <2>6 DEF v, w
<1>7. CASE c # 0 /\ ~(c < 10) /\ ~(c < 100)
  <2> DEFINE a == Append(s, x)
             b == Append(a, y)
             e == Append(b, z)
  <2>1. CarryOf(c) = <<x, y, z>>
    BY <1>7 DEF CarryOf, x, y, z
  <2>2. x \in 0 .. 9 /\ y \in 0 .. 9 /\ z \in 0 .. 9
    BY <1>1
  <2>3. /\ a \in Seq(0 .. 9)
        /\ Value(a).v = v + x * w /\ Value(a).w = 10 * w
    BY <2>2, WeighParts DEF v, w
  <2>5. s \o <<x, y, z>> = e
    <3>1. s \in Seq(T) /\ x \in T /\ y \in T /\ z \in T
      BY <2>2
    <3> HIDE DEF T
    <3>2. QED
      BY <3>1, ConcatPairs
  <2> HIDE DEF a
  <2>4. /\ b \in Seq(0 .. 9)
        /\ Value(b).v = Value(a).v + y * Value(a).w /\ Value(b).w = 10 * Value(a).w
    BY <2>2, <2>3, WeighParts
  <2> HIDE DEF b
  <2>6. Value(e).v = Value(b).v + z * Value(b).w
    BY <2>2, <2>4, WeighParts
  <2> HIDE DEF e
  <2>7. Value(s \o CarryOf(c)).v = ((v + x * w) + y * (10 * w)) + z * (10 * (10 * w))
    BY <2>1, <2>3, <2>4, <2>5, <2>6
  <2>8. QED
    BY <1>3, <2>7 DEF v, w
<1>8. QED
  BY <1>4, <1>5, <1>6, <1>7

(* AddByte multiplies by 256 and adds the byte.                            *)
LEMMA AddValue ==
  ASSUME NEW s \in Seq(0 .. 9), NEW b \in 0 .. 255
  PROVE  Value(AddByte(s, b)).v = 256 * Value(s).v + b
<1> DEFINE r == Shifted(s, b)
           ds == r.digits
           c == r.carry
<1>1. ds \in Seq(0 .. 9) /\ c \in 0 .. 255 /\ AddByte(s, b) = ds \o CarryOf(c)
  BY AddedFacts, ZenonT(40) DEF Digits10
<1>2. Value(ds).w = Value(s).w /\ Value(ds).v + c * Value(s).w = 256 * Value(s).v + b
  BY ShiftedValue, ZenonT(40)
<1> HIDE DEF ds, c
<1>3. Value(ds \o CarryOf(c)).v = Value(ds).v + c * Value(ds).w
  BY <1>1, CarryValue, Zenon
<1>4. QED
  BY <1>1, <1>2, <1>3

(* What int_to_decimal has of the bytes, before it turns the digits round. *)
Decimal(s) == FoldLeft(AddByte, <<0>>, s)
NoneLeads(ds) == Len(ds) >= 1 /\ (Len(ds) > 1 => ds[Len(ds)] # 0)

(* AddByte does not make a leading zero.                                   *)
LEMMA NoneLeadsOn ==
  ASSUME NEW s \in Seq(0 .. 9), NoneLeads(s), NEW b \in 0 .. 255
  PROVE  NoneLeads(AddByte(s, b))
<1> DEFINE T == 0 .. 9
           n == Len(s)
           r == Shifted(s, b)
           ds == r.digits
           c == r.carry
           u == CarryOf(c)
           w == AddByte(s, b)
<1>1. ds \in Seq(T) /\ c \in 0 .. 255 /\ w = ds \o u
  BY AddedFacts, ZenonT(40) DEF Digits10
<1>2. Len(ds) = n
  BY ShiftedValue, Zenon
<1>3. n \in Nat /\ n >= 1 /\ (n > 1 => s[n] # 0)
  BY LenProperties DEF NoneLeads
<1>4. u \in Seq(T) /\ (c # 0 => Len(u) \in 1 .. 3 /\ u[Len(u)] # 0)
  <2> HIDE DEF c
  <2>1. QED
    BY <1>1, CarryType
<1>5. CASE c = 0
  <2>1. n = 1
    <3>0. ~(n > 1) => n = 1
      <4> HIDE DEF n
      <4>1. QED
        BY <1>3
    <3>1. SUFFICES ASSUME n > 1 PROVE FALSE
      BY <3>0, Zenon
    <3> DEFINE front == SubSeq(s, 1, n - 1)
               top == s[n]
               e == Shifted(front, b)
    <3>2. s \in Seq(T) /\ s # <<>>
      BY <1>3, EmptySeq
    <3>3. front \in Seq(T) /\ top \in T /\ Append(front, top) = s
      <4> HIDE DEF T
      <4>1. n - 1 \in 0 .. n /\ n \in 1 .. n
        BY <1>3
      <4>2. top \in T
        BY <3>2, <4>1, SeqFacts
      <4>3. SubSeq(s, 1, n - 1) = [k \in 1 .. n - 1 |-> s[k]]
        <5>1. SubSeq(s, 1, n - 1) = [k \in 1 .. (1 + (n - 1)) - 1 |-> s[(1 + k) - 1]]
          BY <1>3 DEF SubSeq
        <5>2. (1 + (n - 1)) - 1 = n - 1 /\ \A k \in 1 .. n - 1 : (1 + k) - 1 = k
          BY <1>3
        <5>3. QED
          BY <5>1, <5>2
      <4> DEFINE g == [k \in 1 .. n - 1 |-> s[k]]
      <4>4. n - 1 \in Nat /\ g \in [1 .. n - 1 -> T] /\ \A k \in 1 .. n - 1 : g[k] = s[k]
        BY <1>3, <3>2, SeqFacts
      <4> HIDE DEF g
      <4>5. g \in Seq(T) /\ Len(g) = n - 1
        BY <4>4, MadeSeq
      <4>6. Len(s) = Len(g) + 1 /\ s[Len(g) + 1] = top /\ \A k \in 1 .. Len(g) : s[k] = g[k]
        BY <1>3, <4>4, <4>5
      <4> HIDE DEF top, n
      <4>7. Append(g, top) = s
        BY <3>2, <4>2, <4>5, <4>6, Appended
      <4>8. QED
        BY <4>2, <4>3, <4>5, <4>7 DEF g
    <3> HIDE DEF front, top
    <3>4. Shifted(s, b) = ShiftStep(e, top) /\ e \in Shifting
      BY <3>3, ShiftedFacts, Zenon
    <3> DEFINE f == e.carry
    <3>5. f \in 0 .. 255
      BY <3>4 DEF Shifting
    <3>6. c = (top * 256 + f) \div 10
      BY <3>4 DEF ShiftStep
    <3>7. top >= 1
      BY <1>3, <3>1, <3>3 DEF top
    <3> HIDE DEF f, c
    <3>8. QED
      BY <1>5, <3>3, <3>5, <3>6, <3>7
  <2>2. u = <<>>
    BY <1>5 DEF CarryOf
  <2>3. w = ds
    <3> HIDE DEF ds, T
    <3>1. QED
      BY <1>1, <2>2, ConcatEmptySeq
  <2> HIDE DEF w, ds, n
  <2>4. NoneLeads(w)
    <3>1. Len(w) = 1
      BY <1>2, <2>1, <2>3
    <3>2. QED
      BY <3>1 DEF NoneLeads
  <2>5. QED
    BY <2>4 DEF w
<1>6. CASE c # 0
  <2> DEFINE m == Len(u)
  <2> HIDE DEF ds, u, T, n
  <2>1. /\ Len(ds \o u) = Len(ds) + Len(u)
        /\ \A k \in 1 .. Len(ds) + Len(u) :
             (ds \o u)[k] = IF k <= Len(ds) THEN ds[k] ELSE u[k - Len(ds)]
    BY <1>1, <1>4, ConcatProperties
  <2>2. m \in 1 .. 3 /\ u[m] # 0
    BY <1>4, <1>6
  <2>3. (ds \o u)[n + m] = u[m]
    <3> HIDE DEF m
    <3>1. n + m \in 1 .. n + m /\ ~(n + m <= n) /\ (n + m) - n = m
      BY <1>3, <2>2
    <3>2. QED
      BY <1>2, <2>1, <3>1 DEF m
  <2> HIDE DEF w, m
  <2>4. Len(w) = n + m /\ w[Len(w)] # 0 /\ Len(w) >= 1
    BY <1>1, <1>2, <1>3, <2>1, <2>2, <2>3 DEF m
  <2>5. NoneLeads(w)
    BY <2>4 DEF NoneLeads
  <2>6. QED
    BY <2>5 DEF w
<1>7. QED
  BY <1>5, <1>6

(* The invariant of int_to_decimal: the digits, from the lowest, are the   *)
(* number read.                                                            *)
LEMMA DecimalValue ==
  ASSUME NEW s \in Seq(0 .. 255)
  PROVE  /\ Decimal(s) \in Seq(0 .. 9) /\ NoneLeads(Decimal(s))
         /\ Value(Decimal(s)).v = Number(s, 256)
<1> DEFINE T == 0 .. 255
           D(q) == Decimal(q)
           radix == 256
           Right(q) == D(q) \in Seq(0 .. 9) /\ NoneLeads(D(q)) /\ Value(D(q)).v = Number(q, radix)
           P == {q \in Seq(T) : Right(q)}
<1>1. /\ D(<<>>) = <<0>>
      /\ \A q \in Seq(T) : D(q) \in Seq(0 .. 9)
      /\ \A q \in Seq(T) : \A b \in T : D(Append(q, b)) = AddByte(D(q), b)
  BY DecimalFacts, Zenon DEF Decimal, Digits10
<1> HIDE DEF D
<1>r. radix \in Nat
  OBVIOUS
<1> HIDE DEF radix
<1>2. /\ Number(<<>>, radix) = 0
      /\ \A q \in Seq(T) : Number(q, radix) \in Nat
      /\ \A q \in Seq(T) : \A b \in T : Number(Append(q, b), radix) = Number(q, radix) * radix + b
  BY <1>r, NumberFacts
<1>3. <<>> \in P
  <2>1. <<0>> \in Seq(0 .. 9) /\ <<>> \in Seq(T) /\ <<>> \in Seq(0 .. 9) /\ Append(<<>>, 0) = <<0>>
    OBVIOUS
  <2>2. NoneLeads(<<0>>)
    BY DEF NoneLeads
  <2>3. Value(<<>>) = Unweighed /\ 0 \in 0 .. 9
    BY ValueFacts
  <2>4. Value(Append(<<>>, 0)).v = Value(<<>>).v + 0 * Value(<<>>).w
    BY <2>1, <2>3, WeighParts
  <2>5. Value(<<0>>).v = 0
    BY <2>1, <2>3, <2>4 DEF Unweighed
  <2>a. D(<<>>) = <<0>> /\ Number(<<>>, radix) = 0
    BY <1>1, <1>2
  <2>6. Right(<<>>)
    BY <2>a, <2>1, <2>2, <2>5, Zenon
  <2>7. QED
    BY <2>1, <2>6
<1>4. ASSUME NEW q \in Seq(T), NEW b \in T, q \in P PROVE Append(q, b) \in P
  <2>1. Right(q)
    BY <1>4
  <2>2. D(Append(q, b)) = AddByte(D(q), b)
    BY <1>1
  <2>3. /\ NoneLeads(AddByte(D(q), b))
        /\ Value(AddByte(D(q), b)).v = 256 * Value(D(q)).v + b
    BY <2>1, NoneLeadsOn, AddValue, ZenonT(40)
  <2>4. Number(Append(q, b), radix) = Number(q, radix) * radix + b /\ Number(q, radix) \in Nat
    BY <1>2, ZenonT(40)
  <2>5. Append(q, b) \in Seq(T)
    BY AppendProperties
  <2>6. D(Append(q, b)) \in Seq(0 .. 9)
    BY <1>1, <2>5
  <2>7. Value(D(Append(q, b))).v = Number(Append(q, b), radix)
    <3> DEFINE x == Number(q, radix)
    <3> HIDE DEF x
    <3>1. x \in Nat /\ x * 256 = 256 * x
      BY <2>4 DEF x
    <3>2. Number(Append(q, b), radix) = x * 256 + b
      BY <2>4 DEF x, radix
    <3>3. Value(D(Append(q, b))).v = 256 * x + b
      BY <2>1, <2>2, <2>3 DEF x
    <3>4. QED
      BY <3>1, <3>2, <3>3
  <2>8. Right(Append(q, b))
    BY <2>2, <2>3, <2>6, <2>7, Zenon
  <2>9. QED
    BY <2>5, <2>8
<1> HIDE DEF P, T
<1>5. Seq(T) \subseteq P
  BY <1>3, <1>4, SeqInduction
<1>6. Right(s)
  BY <1>5 DEF P, T
<1>7. QED
  BY <1>6 DEF D, radix

(* A digit below the others: the number grows tenfold, and by the digit.   *)
LEMMA ConsValue ==
  ASSUME NEW x \in 0 .. 9, NEW s \in Seq(0 .. 9)
  PROVE  Value(<<x>> \o s).v = x + 10 * Value(s).v
<1> DEFINE T == 0 .. 9
           Right(q) == /\ <<x>> \o q \in Seq(T)
                       /\ Value(<<x>> \o q).v = x + 10 * Value(q).v
                       /\ Value(<<x>> \o q).w = 10 * Value(q).w
           P == {q \in Seq(T) : Right(q)}
<1>1. <<x>> \in Seq(T) /\ <<>> \in Seq(T)
  OBVIOUS
<1>2. <<>> \in P
  <2>1. <<x>> \o <<>> = <<x>> /\ <<>> \o <<x>> = <<x>> /\ <<>> \o <<x>> = Append(<<>>, x)
    <3> DEFINE e == <<>>
               f == <<x>>
    <3>1. e \in Seq(T) /\ f \in Seq(T) /\ x \in T
      BY <1>1
    <3>2. e \o f = f
      <4> HIDE DEF T, f
      <4>1. QED
        BY <3>1, ConcatEmptySeq
    <3>3. f \o e = f
      <4> HIDE DEF T, f
      <4>1. QED
        BY <3>1, ConcatEmptySeq
    <3>4. e \o <<x>> = Append(e, x)
      BY WeighParts, EmptySeq
    <3>5. QED
      BY <3>2, <3>3, <3>4
  <2>2. Value(<<>>) = Unweighed
    BY ValueFacts
  <2>3. /\ Value(Append(<<>>, x)).v = Value(<<>>).v + x * Value(<<>>).w
        /\ Value(Append(<<>>, x)).w = 10 * Value(<<>>).w
    BY <1>1, WeighParts
  <2>4. Unweighed.v = 0 /\ Unweighed.w = 1
    BY DEF Unweighed
  <2>5. Value(<<x>>).v = x + 10 * 0 /\ Value(<<x>>).w = 10 * 1
    <3>1. Append(<<>>, x) = <<x>>
      BY <2>1
    <3>2. 0 + x * 1 = x + 10 * 0
      OBVIOUS
    <3>3. QED
      BY <2>2, <2>3, <2>4, <3>1, <3>2, Zenon
  <2>6. Right(<<>>)
    BY <1>1, <2>1, <2>2, <2>4, <2>5
  <2>7. QED
    BY <1>1, <2>6
<1>3. ASSUME NEW q \in Seq(T), NEW d \in T, q \in P PROVE Append(q, d) \in P
  <2> DEFINE u == <<x>> \o q
             a == Value(q).v
             b == Value(q).w
  <2>1. u \in Seq(T) /\ Value(u).v = x + 10 * a /\ Value(u).w = 10 * b
    BY <1>3
  <2>2. /\ Append(q, d) \in Seq(T) /\ a \in Nat /\ b \in Nat
        /\ Value(Append(q, d)).v = a + d * b /\ Value(Append(q, d)).w = 10 * b
    BY WeighParts
  <2>3. <<x>> \o Append(q, d) = Append(u, d)
    <3> DEFINE f == <<x>>
               g == <<d>>
    <3>1. f \in Seq(T) /\ g \in Seq(T)
      BY <1>1
    <3>2. Append(q, d) = q \o g /\ Append(u, d) = u \o g
      BY <2>1, WeighParts
    <3>3. (f \o q) \o g = f \o (q \o g)
      <4> HIDE DEF T, f, g
      <4>1. QED
        BY <3>1, ConcatAssociative, SMTT(40)
    <3>4. QED
      BY <3>2, <3>3, Zenon
  <2> HIDE DEF u
  <2>4. /\ Append(u, d) \in Seq(T)
        /\ Value(Append(u, d)).v = Value(u).v + d * Value(u).w
        /\ Value(Append(u, d)).w = 10 * Value(u).w
    BY <2>1, WeighParts
  <2> HIDE DEF a, b
  <2>5. (x + 10 * a) + d * (10 * b) = x + 10 * (a + d * b)
    <3>1. d * (10 * b) = 10 * (d * b) /\ d * b \in Nat
      BY <2>2
    <3>2. QED
      BY <2>2, <3>1
  <2>6. /\ Value(Append(u, d)).v = x + 10 * Value(Append(q, d)).v
        /\ Value(Append(u, d)).w = 10 * Value(Append(q, d)).w
    BY <2>1, <2>2, <2>4, <2>5
  <2>7. Right(Append(q, d))
    BY <2>3, <2>4, <2>6, Zenon
  <2>8. QED
    BY <2>2, <2>7
<1> HIDE DEF P, T
<1>4. Seq(T) \subseteq P
  BY <1>2, <1>3, SeqInduction
<1>5. Right(s)
  BY <1>4 DEF P, T
<1>6. QED
  BY <1>5, Zenon

(* Reverse.                                                                *)
LEMMA Reversed ==
  ASSUME NEW S, NEW s \in Seq(S)
  PROVE  /\ Reverse(s) \in Seq(S) /\ Len(Reverse(s)) = Len(s)
         /\ \A k \in 1 .. Len(s) : Reverse(s)[k] = s[(Len(s) - k) + 1]
<1> DEFINE n == Len(s)
           f == [k \in 1 .. n |-> s[(n - k) + 1]]
<1>1. n \in Nat /\ \A k \in 1 .. n : s[k] \in S
  BY SeqFacts
<1>2. Reverse(s) = f
  BY Zenon DEF Reverse
<1> HIDE DEF n
<1>3. \A k \in 1 .. n : (n - k) + 1 \in 1 .. n
  BY <1>1
<1>4. f \in [1 .. n -> S] /\ \A k \in 1 .. n : f[k] = s[(n - k) + 1]
  BY <1>1, <1>3
<1> HIDE DEF f
<1>5. f \in Seq(S) /\ Len(f) = n
  BY <1>1, <1>4, MadeSeq
<1>6. QED
  BY <1>2, <1>4, <1>5 DEF n

(* Reverse, twice.                                                         *)
LEMMA ReverseTwice ==
  ASSUME NEW S, NEW s \in Seq(S)
  PROVE  Reverse(Reverse(s)) = s
<1> DEFINE r == Reverse(s)
           t == Reverse(r)
           n == Len(s)
<1>1. n \in Nat
  BY LenProperties
<1>2. r \in Seq(S) /\ Len(r) = n /\ \A k \in 1 .. n : r[k] = s[(n - k) + 1]
  BY Reversed
<1> HIDE DEF r, n
<1>3. t \in Seq(S) /\ Len(t) = n /\ \A k \in 1 .. n : t[k] = r[(n - k) + 1]
  BY <1>2, Reversed
<1> HIDE DEF t
<1>4. ASSUME NEW k \in 1 .. n PROVE t[k] = s[k]
  <2>1. (n - k) + 1 \in 1 .. n /\ (n - ((n - k) + 1)) + 1 = k
    BY <1>1
  <2>2. t[k] = r[(n - k) + 1] /\ r[(n - k) + 1] = s[(n - ((n - k) + 1)) + 1]
    BY <1>2, <1>3, <2>1
  <2>3. QED
    BY <2>1, <2>2
<1>5. t = s
  BY <1>2, <1>3, <1>4, SeqEqual DEF n
<1>6. QED
  BY <1>5 DEF t, r

(* Reverse, of one element more.                                           *)
LEMMA ReverseAppend ==
  ASSUME NEW S, NEW s \in Seq(S), NEW x \in S
  PROVE  Reverse(Append(s, x)) = <<x>> \o Reverse(s)
<1> DEFINE r == Reverse(s)
           w == Append(s, x)
           t == Reverse(w)
           one == <<x>>
           u == one \o r
           n == Len(s)
<1>1. n \in Nat
  BY LenProperties
<1>2. r \in Seq(S) /\ Len(r) = n /\ \A k \in 1 .. n : r[k] = s[(n - k) + 1]
  BY Reversed
<1>3. w \in Seq(S) /\ Len(w) = n + 1 /\ w[n + 1] = x /\ \A k \in 1 .. n : w[k] = s[k]
  BY AppendProperties
<1>4. one \in Seq(S) /\ Len(one) = 1 /\ one[1] = x
  OBVIOUS
<1> HIDE DEF r, n, w, one
<1>5. t \in Seq(S) /\ Len(t) = n + 1 /\ \A k \in 1 .. n + 1 : t[k] = w[((n + 1) - k) + 1]
  BY <1>3, Reversed
<1>6. /\ u \in Seq(S) /\ Len(u) = 1 + n
      /\ \A k \in 1 .. 1 + n : u[k] = IF k <= 1 THEN one[k] ELSE r[k - 1]
  <2>1. /\ one \o r \in Seq(S) /\ Len(one \o r) = Len(one) + Len(r)
        /\ \A k \in 1 .. Len(one) + Len(r) :
             (one \o r)[k] = IF k <= Len(one) THEN one[k] ELSE r[k - Len(one)]
    <3>1. one \in Seq(S) /\ r \in Seq(S)
      BY <1>2, <1>4
    <3>2. QED
      BY <3>1, ConcatProperties
  <2>2. Len(one) = 1 /\ Len(r) = n
    BY <1>2, <1>4
  <2>3. QED
    BY <2>1, <2>2, Zenon
<1> HIDE DEF t, u
<1>7. ASSUME NEW k \in 1 .. n + 1 PROVE t[k] = u[k]
  <2>1. CASE k = 1
    <3>1. ((n + 1) - 1) + 1 = n + 1 /\ 1 \in 1 .. n + 1 /\ 1 \in 1 .. 1 + n /\ 1 <= 1
      BY <1>1
    <3>2. t[1] = w[n + 1] /\ u[1] = one[1]
      BY <1>5, <1>6, <3>1
    <3>3. QED
      BY <1>3, <1>4, <2>1, <3>2
  <2>2. CASE k # 1
    <3> DEFINE j == ((n + 1) - k) + 1
    <3>1. j \in 1 .. n /\ k - 1 \in 1 .. n /\ (n - (k - 1)) + 1 = j /\ k \in 1 .. 1 + n /\ ~(k <= 1)
      BY <1>1, <2>2
    <3>2. t[k] = w[j]
      BY <1>5
    <3>3. u[k] = r[k - 1]
      BY <1>6, <3>1
    <3>4. r[k - 1] = s[(n - (k - 1)) + 1]
      BY <1>2, <3>1
    <3> HIDE DEF j
    <3>5. w[j] = s[j]
      BY <1>3, <3>1
    <3>6. QED
      BY <3>1, <3>2, <3>3, <3>4, <3>5
  <2>3. QED
    BY <2>1, <2>2
<1>8. n + 1 = 1 + n
  BY <1>1
<1>9. t = u
  BY <1>5, <1>6, <1>7, <1>8, SeqEqual
<1>10. QED
  BY <1>9 DEF t, u, w, r, one

(* A multiple of m does not change a remainder by m.                       *)
LEMMA ModAdd ==
  ASSUME NEW m \in Nat \ {0}, NEW k \in Nat, NEW y \in Nat
  PROVE  (m * k + y) % m = y % m
<1> DEFINE q == y \div m
           r == y % m
           z == m * k + y
           p == z \div m
           t == z % m
<1>1. q \in Nat /\ r \in Nat /\ r < m /\ y = m * q + r
  OBVIOUS
<1>2. m * k \in Nat /\ z \in Nat
  OBVIOUS
<1> HIDE DEF z, q, r
<1>3. p \in Nat /\ t \in Nat /\ t < m /\ z = m * p + t
  BY <1>2
<1> HIDE DEF p, t
<1>4. m * p + t = m * (k + q) + r
  <2>1. m * (k + q) = m * k + m * q
    BY <1>1
  <2>2. m * k \in Nat /\ m * q \in Nat /\ m * p \in Nat
    BY <1>1, <1>3
  <2>3. QED
    BY <1>1, <1>3, <2>1, <2>2 DEF z
<1> DEFINE e == k + q
<1>5. e \in Nat
  BY <1>1
<1> HIDE DEF e
<1>6. p = e
  <2>1. m * p + t = m * e + r
    BY <1>4 DEF e
  <2>2. ASSUME p >= e + 1 PROVE FALSE
    <3>1. m * p >= m * (e + 1)
      BY <1>3, <1>5, <2>2
    <3>2. m * (e + 1) = m * e + m /\ m * e \in Nat /\ m * p \in Nat
      BY <1>3, <1>5
    <3> DEFINE mp == m * p
               me == m * e
    <3> HIDE DEF mp, me
    <3>3. mp >= me + m /\ mp \in Nat /\ me \in Nat /\ mp + t = me + r
      BY <2>1, <3>1, <3>2 DEF mp, me
    <3>4. QED
      BY <1>1, <1>3, <3>3
  <2>3. ASSUME e >= p + 1 PROVE FALSE
    <3>1. m * e >= m * (p + 1)
      BY <1>3, <1>5, <2>3
    <3>2. m * (p + 1) = m * p + m /\ m * e \in Nat /\ m * p \in Nat
      BY <1>3, <1>5
    <3> DEFINE mp == m * p
               me == m * e
    <3> HIDE DEF mp, me
    <3>3. me >= mp + m /\ mp \in Nat /\ me \in Nat /\ mp + t = me + r
      BY <2>1, <3>1, <3>2 DEF mp, me
    <3>4. QED
      BY <1>1, <1>3, <3>3
  <2>4. QED
    BY <1>3, <1>5, <2>2, <2>3
<1>7. t = r
  <2> DEFINE me == m * e
  <2>1. me \in Nat
    BY <1>5
  <2>2. me + t = me + r
    BY <1>4, <1>6 DEF e
  <2> HIDE DEF me
  <2>3. QED
    BY <1>1, <1>3, <2>1, <2>2
<1>8. QED
  BY <1>7 DEF t, r, z

(* A step of Remainder is one of Number.                                   *)
LEMMA ModStep ==
  ASSUME NEW m \in Nat \ {0}, NEW radix \in Nat, NEW h \in Nat, NEW d \in Nat
  PROVE  Mod(h % m, d, radix, m) = (h * radix + d) % m
<1> DEFINE q == h \div m
           r == h % m
           k == q * radix
           y == r * radix + d
<1>1. q \in Nat /\ r \in Nat /\ h = m * q + r
  OBVIOUS
<1> HIDE DEF q, r
<1>2. k \in Nat /\ r * radix \in Nat
  BY <1>1
<1>3. y \in Nat
  BY <1>2
<1>4. h * radix + d = m * k + y
  <2>1. (m * q + r) * radix = m * (q * radix) + r * radix
    BY <1>1
  <2> DEFINE a == m * (q * radix)
             b == r * radix
  <2>2. a \in Nat /\ b \in Nat
    BY <1>1
  <2>3. h * radix = a + b
    BY <1>1, <2>1
  <2> HIDE DEF a, b
  <2>4. h * radix + d = a + (b + d)
    BY <2>2, <2>3
  <2>5. QED
    BY <2>4 DEF a, b
<1> HIDE DEF k, y
<1>5. (m * k + y) % m = y % m
  BY <1>2, <1>3, ModAdd
<1>6. Mod(h % m, d, radix, m) = y % m
  BY DEF Mod, y, r
<1>7. QED
  BY <1>4, <1>5, <1>6

(* Remainder is the remainder of Number.                                   *)
LEMMA ModNumber ==
  ASSUME NEW radix \in Nat, NEW m \in Nat \ {0}, NEW s \in Seq(0 .. 255)
  PROVE  Remainder(s, radix, m) = Number(s, radix) % m
<1> DEFINE T == 0 .. 255
           R(q) == Remainder(q, radix, m)
           N(q) == Number(q, radix)
           P == {q \in Seq(T) : R(q) = N(q) % m}
<1>1. /\ R(<<>>) = 0
      /\ \A q \in Seq(T) : \A d \in T : R(Append(q, d)) = Mod(R(q), d, radix, m)
  BY ModFacts, ZenonT(40)
<1>2. /\ N(<<>>) = 0 /\ \A q \in Seq(T) : N(q) \in Nat
      /\ \A q \in Seq(T) : \A d \in T : N(Append(q, d)) = N(q) * radix + d
  BY NumberFacts, ZenonT(40)
<1> HIDE DEF R, N
<1>3. <<>> \in P
  <2>1. 0 % m = 0
    OBVIOUS
  <2>2. <<>> \in Seq(T)
    BY EmptySeq
  <2>3. R(<<>>) = N(<<>>) % m
    BY <1>1, <1>2, <2>1
  <2>4. QED
    BY <2>2, <2>3
<1>4. ASSUME NEW q \in Seq(T), NEW d \in T, q \in P PROVE Append(q, d) \in P
  <2>1. R(q) = N(q) % m
    BY <1>4
  <2>2. N(q) \in Nat /\ d \in Nat
    BY <1>2, SMTT(40)
  <2>3. Mod(N(q) % m, d, radix, m) = (N(q) * radix + d) % m
    BY <2>2, ModStep
  <2>4. R(Append(q, d)) = Mod(N(q) % m, d, radix, m)
    BY <1>1, <2>1, ZenonT(40)
  <2>5. N(Append(q, d)) = N(q) * radix + d
    BY <1>2
  <2>6. R(Append(q, d)) = N(Append(q, d)) % m
    BY <2>3, <2>4, <2>5
  <2>7. Append(q, d) \in Seq(T)
    BY AppendProperties
  <2>8. QED
    BY <2>6, <2>7
<1> HIDE DEF P, T
<1>5. Seq(T) \subseteq P
  BY <1>3, <1>4, SeqInduction
<1>6. QED
  BY <1>5 DEF P, T, R, N

(* A digit is small enough to be a byte.                                   *)
LEMMA DigitsAreBytes == Seq(0 .. 9) \subseteq Seq(0 .. 255)
<1> DEFINE S == 0 .. 9
           T == 0 .. 255
<1>1. S \subseteq T
  OBVIOUS
<1> HIDE DEF S, T
<1>2. Seq(S) \subseteq Seq(T)
  BY <1>1, SeqMonotonic
<1>3. QED
  BY <1>2 DEF S, T

(* Digits from the lowest are worth what they are worth from the highest.  *)
LEMMA ReverseValue ==
  ASSUME NEW s \in Seq(0 .. 9)
  PROVE  Value(Reverse(s)).v = Number(s, 10)
<1> DEFINE T == 0 .. 9
           P == {q \in Seq(T) : Value(Reverse(q)).v = Number(q, 10)}
<1>1. /\ Number(<<>>, 10) = 0
      /\ \A q \in Seq(T) : Number(q, 10) \in Nat
      /\ \A q \in Seq(T) : \A d \in T : Number(Append(q, d), 10) = Number(q, 10) * 10 + d
  <2>1. \A q \in Seq(T) : q \in Seq(0 .. 255)
    BY DigitsAreBytes
  <2>2. \A d \in T : d \in 0 .. 255
    OBVIOUS
  <2>3. 10 \in Nat
    OBVIOUS
  <2>4. QED
    BY <2>1, <2>2, <2>3, NumberFacts, ZenonT(40)
<1>2. <<>> \in P
  <2>1. <<>> \in Seq(T)
    BY EmptySeq
  <2>2. Reverse(<<>>) = <<>>
    <3>1. Reverse(<<>>) \in Seq(T) /\ Len(Reverse(<<>>)) = Len(<<>>)
      <4> HIDE DEF T
      <4>1. QED
        BY <2>1, Reversed
    <3>2. Len(<<>>) = 0
      OBVIOUS
    <3>3. QED
      BY <3>1, <3>2, EmptySeq
  <2>3. Value(<<>>).v = 0
    BY ValueFacts DEF Unweighed
  <2>4. QED
    BY <1>1, <2>1, <2>2, <2>3
<1>3. ASSUME NEW q \in Seq(T), NEW d \in T, q \in P PROVE Append(q, d) \in P
  <2> DEFINE r == Reverse(q)
  <2>1. Reverse(Append(q, d)) = <<d>> \o r /\ r \in Seq(T)
    <3> HIDE DEF T
    <3>1. QED
      BY ReverseAppend, Reversed
  <2>2. Value(r).v = Number(q, 10)
    BY <1>3
  <2> HIDE DEF r
  <2>3. Value(<<d>> \o r).v = d + 10 * Value(r).v
    BY <2>1, ConsValue
  <2>4. Number(Append(q, d), 10) = Number(q, 10) * 10 + d /\ Number(q, 10) \in Nat
    BY <1>1
  <2> DEFINE n == Number(q, 10)
  <2> HIDE DEF n
  <2>5. d + 10 * n = n * 10 + d
    BY <2>4 DEF n
  <2>6. Value(Reverse(Append(q, d))).v = Number(Append(q, d), 10)
    BY <2>1, <2>2, <2>3, <2>4, <2>5 DEF n
  <2>7. Append(q, d) \in Seq(T)
    BY AppendProperties
  <2>8. QED
    BY <2>6, <2>7
<1> HIDE DEF P, T
<1>4. Seq(T) \subseteq P
  BY <1>2, <1>3, SeqInduction
<1>5. QED
  BY <1>4 DEF P, T

(* int_to_decimal is exact, for a serial number of any length: its digits,  *)
(* without a leading zero, are those of the number that the bytes are.     *)
THEOREM SerialIsExact ==
  ASSUME NEW s \in Seq(0 .. 255)
  PROVE  /\ int_to_decimal(s) \in Seq(0 .. 9) /\ Len(int_to_decimal(s)) >= 1
         /\ Len(int_to_decimal(s)) > 1 => int_to_decimal(s)[1] # 0
         /\ Number(int_to_decimal(s), 10) = Number(s, 256)
<1> DEFINE ds == Decimal(s)
           digits == int_to_decimal(s)
           T == 0 .. 9
<1>1. digits = Reverse(ds)
  BY Zenon DEF int_to_decimal, Decimal
<1>2. ds \in Seq(T) /\ NoneLeads(ds) /\ Value(ds).v = Number(s, 256)
  BY DecimalValue
<1> HIDE DEF ds, digits
<1>3. /\ digits \in Seq(T) /\ Len(digits) = Len(ds) /\ Reverse(digits) = ds
      /\ \A k \in 1 .. Len(ds) : digits[k] = ds[(Len(ds) - k) + 1]
  <2> HIDE DEF T
  <2>1. QED
    BY <1>1, <1>2, Reversed, ReverseTwice
<1>4. Len(digits) >= 1 /\ (Len(digits) > 1 => digits[1] # 0)
  <2> DEFINE n == Len(ds)
  <2>1. n \in Nat /\ n >= 1 /\ (n > 1 => ds[n] # 0)
    BY <1>2, LenProperties DEF NoneLeads
  <2>2. digits[1] = ds[(n - 1) + 1] /\ Len(digits) = n
    BY <1>3, <2>1
  <2> HIDE DEF n
  <2>3. (n - 1) + 1 = n
    BY <2>1
  <2>4. QED
    BY <2>1, <2>2, <2>3
<1>5. Number(digits, 10) = Number(s, 256)
  <2>1. Value(Reverse(digits)).v = Number(digits, 10)
    BY <1>3, ReverseValue
  <2>2. QED
    BY <1>2, <1>3, <2>1
<1>6. QED
  BY <1>3, <1>4, <1>5 DEF digits

(* What DecimalAgrees says, of any bytes.                                  *)
LEMMA AgreesDecimal ==
  ASSUME Bytes(text) \in Seq(0 .. 255)
  PROVE  DecimalAgrees
<1> DEFINE bytes == Bytes(text)
           digits == int_to_decimal(bytes)
           T == 0 .. 9
<1>1. /\ digits \in Seq(T) /\ Len(digits) >= 1 /\ (Len(digits) > 1 => digits[1] # 0)
      /\ Number(digits, 10) = Number(bytes, 256)
  BY SerialIsExact
<1> HIDE DEF digits, bytes
<1>2. \A k \in DOMAIN digits : digits[k] \in 0 .. 9
  <2> HIDE DEF T
  <2>1. \A k \in DOMAIN digits : digits[k] \in T
    BY <1>1, SeqFacts
  <2>2. QED
    BY <2>1 DEF T
<1>3. ASSUME NEW m \in {2^22, 2^22 - 1, 2^22 - 3, 2^22 - 5}
      PROVE  Remainder(digits, 10, m) = Remainder(bytes, 256, m)
  <2>1. m \in Nat \ {0}
    BY SMT
  <2>2. digits \in Seq(0 .. 255) /\ bytes \in Seq(0 .. 255)
    BY <1>1, DigitsAreBytes DEF bytes
  <2> DEFINE a == 10
             b == 256
  <2>3. a \in Nat /\ b \in Nat
    OBVIOUS
  <2> HIDE DEF a, b
  <2>4. /\ Remainder(digits, a, m) = Number(digits, a) % m
        /\ Remainder(bytes, b, m) = Number(bytes, b) % m
    BY <2>1, <2>2, <2>3, ModNumber
  <2>5. Number(digits, a) = Number(bytes, b)
    BY <1>1 DEF a, b
  <2>6. Remainder(digits, a, m) = Remainder(bytes, b, m)
    BY <2>4, <2>5
  <2>7. QED
    BY <2>6 DEF a, b
<1>4. QED
  BY <1>1, <1>2, <1>3 DEF DecimalAgrees, digits, bytes

-----------------------------------------------------------------------------
(* Dates. *)

(* The first day of a year, counted from that of 1970.                     *)
FirstDay(y) == 365 * (y - 1970) + (y - 1) \div 4 - (y - 1) \div 100 + (y - 1) \div 400 - 477

(* FirstDay goes on by the days of the year.                               *)
LEMMA YearLength ==
  ASSUME NEW y \in Nat
  PROVE  FirstDay(y + 1) = FirstDay(y) + DaysBefore(y, 13)
<1>1. y \div 4 = (y - 1) \div 4 + IF y % 4 = 0 THEN 1 ELSE 0
  OBVIOUS
<1>2. y \div 100 = (y - 1) \div 100 + IF y % 100 = 0 THEN 1 ELSE 0
  OBVIOUS
<1>3. y \div 400 = (y - 1) \div 400 + IF y % 400 = 0 THEN 1 ELSE 0
  OBVIOUS
<1>4. y % 100 = 0 => y % 4 = 0
  OBVIOUS
<1>5. y % 400 = 0 => y % 100 = 0
  OBVIOUS
<1>6. DaysBefore(y, 13) = 365 + IF Leap(y) THEN 1 ELSE 0
  BY DEF DaysBefore
<1>7. QED
  BY <1>1, <1>2, <1>3, <1>4, <1>5, <1>6 DEF FirstDay, Leap

(* The day of an era of 400 years that begins in March: of the last day of *)
(* a year only if February had 29.                                         *)
DayOfEra(n, doy) == 365 * n + n \div 4 - n \div 100 + doy
EraYears == 0 .. 399
YearDays == 0 .. 365
InEra(doe) == doe \in Int /\ 0 <= doe /\ doe < 146097
LongYear(n) == n % 4 = 3 /\ (n % 100 # 99 \/ n = 399)

InCenturies(c, q, r, doy) == 36524 * c + 1461 * q + 365 * r + doy
YearsIn(c, q, r) == 100 * c + 4 * q + r

(* YearOfEra, of a day given by its century, four years, year and day.     *)
LEMMA DayInCenturies ==
  ASSUME NEW c \in 0 .. 3, NEW q \in 0 .. 24, NEW r \in 0 .. 3, NEW doy \in YearDays,
         doy = 365 => r = 3 /\ (q # 24 \/ c = 3),
         NEW doe, doe = InCenturies(c, q, r, doy)
  PROVE  InEra(doe) /\ YearOfEra(doe) = YearsIn(c, q, r)
<1>1. doe \in Int /\ doe = 36524 * c + 1461 * q + 365 * r + doy /\ doy \in 0 .. 365
  BY DEF InCenturies, YearDays
<1>2. 0 <= doe /\ doe < 146097
  BY <1>1
<1>3. doe \div 1460 = 25 * c + q + IF 24 * c + q + 365 * r + doy >= 1460 THEN 1 ELSE 0
  BY <1>1
<1>4. doe \div 146096 = IF doe = 146096 THEN 1 ELSE 0
  BY <1>1, <1>2
<1>5. doe \div 36524 = IF doe = 146096 THEN 4 ELSE c
  BY <1>1, <1>2
<1> DEFINE days == doe - doe \div 1460 + doe \div 36524 - doe \div 146096
<1>6. days \in Int
  BY <1>1
<1>7. 365 * (100 * c + 4 * q + r) <= days
  BY <1>1, <1>2, <1>3, <1>4, <1>5
<1>8. days <= 365 * (100 * c + 4 * q + r) + 364
  BY <1>1, <1>2, <1>3, <1>4, <1>5
<1> HIDE DEF days
<1>9. days \div 365 = 100 * c + 4 * q + r
  BY <1>6, <1>7, <1>8
<1>10. QED
  BY <1>1, <1>2, <1>9 DEF YearOfEra, days, InEra, YearsIn

(* YearOfEra, of any day of any year of an era.                            *)
LEMMA YearOfDay ==
  ASSUME NEW n \in EraYears, NEW doy \in YearDays, doy = 365 => LongYear(n)
  PROVE  InEra(DayOfEra(n, doy)) /\ YearOfEra(DayOfEra(n, doy)) = n
<1> DEFINE c == n \div 100
           q == (n % 100) \div 4
           r == n % 4
<1>1. c \in 0 .. 3 /\ q \in 0 .. 24 /\ r \in 0 .. 3 /\ n = YearsIn(c, q, r)
  BY DEF EraYears, YearsIn
<1>2. n \div 4 = 25 * c + q
  BY DEF EraYears
<1>3. DayOfEra(n, doy) = InCenturies(c, q, r, doy)
  BY <1>1, <1>2 DEF DayOfEra, InCenturies, YearsIn, YearDays
<1>4. doy = 365 => r = 3 /\ (q # 24 \/ c = 3)
  BY <1>1 DEF LongYear, EraYears
<1> HIDE DEF c, q, r
<1>5. QED
  BY <1>1, <1>3, <1>4, DayInCenturies

(* The era of a day.                                                       *)
LEMMA EraOfDay ==
  ASSUME NEW e \in Int, NEW doe, InEra(doe), NEW z \in Int, z = 146097 * e + doe
  PROVE  z \div 146097 = e /\ z % 146097 = doe
BY SMTT(30) DEF InEra

(* The date of every day, of any year.                                     *)
LEMMA DateOfDay ==
  ASSUME NEW y \in Nat, NEW m \in 1 .. 12, NEW d \in 1 .. DaysIn(y, m)
  PROVE  civil(FirstDay(y) + DaysBefore(y, m) + d - 1) = [year |-> y, month |-> m, day |-> d]
<1> DEFINE days == FirstDay(y) + DaysBefore(y, m) + d - 1
           start == IF m <= 2 THEN y - 1 ELSE y
           e == start \div 400
           n == start % 400
           mp == IF m <= 2 THEN m + 9 ELSE m - 3
           doy == (153 * mp + 2) \div 5 + d - 1
<1>1. start \in Int /\ e \in Int /\ n \in EraYears /\ start = 400 * e + n
  BY DEF EraYears
<1>2. /\ DaysIn(y, m) \in Int
      /\ m \in {1, 3, 5, 7, 8, 10, 12} => DaysIn(y, m) = 31
      /\ m \in {4, 6, 9, 11} => DaysIn(y, m) = 30
      /\ m = 2 => DaysIn(y, m) = IF Leap(y) THEN 29 ELSE 28
  BY DEF DaysIn, DaysBefore
<1>3. d \in Int /\ 1 <= d /\ d <= 31 /\ mp \in 0 .. 11
  BY <1>2
<1>4. doy \in YearDays /\ (doy = 365 => m = 2 /\ Leap(y))
  BY <1>2, <1>3 DEF YearDays
<1>5. (5 * doy + 2) \div 153 = mp
  BY <1>2, <1>3
<1>6. doy = 365 => LongYear(n)
  BY <1>1, <1>4 DEF Leap, LongYear, EraYears
<1>7. /\ days \in Int
      /\ days + 719468 = 365 * start + start \div 4 - start \div 100 + start \div 400 + doy
  <2>1. FirstDay(y + 1) = FirstDay(y) + 365 + IF Leap(y) THEN 1 ELSE 0
    <3>1. FirstDay(y + 1) = FirstDay(y) + DaysBefore(y, 13)
      BY YearLength
    <3>2. DaysBefore(y, 13) = 365 + IF Leap(y) THEN 1 ELSE 0
      BY DEF DaysBefore
    <3>3. FirstDay(y) \in Int
      BY DEF FirstDay
    <3>4. QED
      BY <3>1, <3>2, <3>3
  <2>2. FirstDay(y) \in Int /\ FirstDay(y + 1) \in Int
    BY DEF FirstDay
  <2>3. DaysBefore(y, m) \in Int
    BY DEF DaysBefore
  <2>4. days \in Int
    BY <1>3, <2>2, <2>3
  <2>5. CASE m <= 2
    <3>1. DaysBefore(y, m) = (153 * mp + 2) \div 5 - 306
      BY <2>5 DEF DaysBefore
    <3>2. FirstDay(y) + 719468 = 365 * start + start \div 4 - start \div 100 + start \div 400 + 306
      BY <2>5 DEF FirstDay
    <3>3. QED
      BY <1>1, <1>3, <2>2, <2>3, <2>4, <3>1, <3>2
  <2>6. CASE m > 2
    <3>1. DaysBefore(y, m) = (153 * mp + 2) \div 5 + 59 + IF Leap(y) THEN 1 ELSE 0
      BY <2>6 DEF DaysBefore
    <3>2. FirstDay(y + 1) + 719468 =
            365 * start + start \div 4 - start \div 100 + start \div 400 + 306
      BY <2>6 DEF FirstDay
    <3>3. QED
      BY <1>1, <1>3, <2>1, <2>2, <2>3, <2>4, <3>1, <3>2
  <2>7. QED
    BY <2>4, <2>5, <2>6
<1>8. days + 719468 = 146097 * e + DayOfEra(n, doy)
  BY <1>1, <1>7 DEF DayOfEra, EraYears, YearDays
<1> HIDE DEF days, start, e, n, mp, doy
<1>9. InEra(DayOfEra(n, doy)) /\ YearOfEra(DayOfEra(n, doy)) = n
  BY <1>1, <1>4, <1>6, YearOfDay
<1>10. (days + 719468) \div 146097 = e /\ (days + 719468) % 146097 = DayOfEra(n, doy)
  BY <1>1, <1>7, <1>8, <1>9, EraOfDay
<1>11. DayOfEra(n, doy) - (365 * n + n \div 4 - n \div 100) = doy
  BY <1>1, <1>4 DEF DayOfEra, EraYears, YearDays
<1>12. /\ m = IF mp < 10 THEN mp + 3 ELSE mp - 9
       /\ y = IF m <= 2 THEN n + e * 400 + 1 ELSE n + e * 400
       /\ d = doy - (153 * mp + 2) \div 5 + 1
  BY <1>1, <1>3 DEF mp, start, doy, EraYears
<1>13. QED
  BY <1>5, <1>9, <1>10, <1>11, <1>12 DEF civil, days

DayOf(secs) == secs \div 86400
LeftOf(secs) == secs % 86400
ClockOf(left) == <<left \div 3600, (left % 3600) \div 60, left % 60>>

(* The parts of format_unix_utc.                                           *)
LEMMA ClockParts ==
  ASSUME NEW secs \in Int
  PROVE  format_unix_utc(secs) = [date |-> civil(DayOf(secs)), clock |-> ClockOf(LeftOf(secs))]
BY SMT DEF format_unix_utc, DayOf, LeftOf, ClockOf

(* The clock, for every second of a day.                                   *)
LEMMA ClockOfSecond ==
  ASSUME NEW days \in Int, NEW h \in 0 .. 23, NEW i \in 0 .. 59, NEW s \in 0 .. 59
  PROVE  format_unix_utc(Second(days, h, i, s)) =
           [date |-> civil(days), clock |-> <<h, i, s>>]
<1> DEFINE left == 3600 * h + 60 * i + s
           secs == Second(days, h, i, s)
<1>1. secs \in Int /\ left \in Int /\ secs = 86400 * days + left
  BY SMT DEF Second
<1>2. 0 <= left /\ left < 86400
  BY SMT
<1>3. ClockOf(left) = <<h, i, s>>
  <2>1. left \div 3600 = h /\ left % 3600 = 60 * i + s
    BY SMT
  <2>2. (60 * i + s) \div 60 = i /\ left % 60 = s
    BY SMT
  <2>3. QED
    BY <2>1, <2>2, SMT DEF ClockOf
<1> HIDE DEF secs, left
<1>4. DayOf(secs) = days /\ LeftOf(secs) = left
  BY <1>1, <1>2, SMT DEF DayOf, LeftOf
<1>5. format_unix_utc(secs) = [date |-> civil(DayOf(secs)), clock |-> ClockOf(LeftOf(secs))]
  BY <1>1, ClockParts
<1>6. QED
  BY <1>3, <1>4, <1>5, Zenon DEF secs
-----------------------------------------------------------------------------
(* The inputs, and the theorems. *)

Octets == {c \in Seq(0 .. 255) : Len(c) = 1}

ConvInv ==
  /\ kind \in {"hex", "base64", "integer", "bundle", "year"}
  /\ kind \in {"hex", "base64"} => text \in Seq(Chars)
  /\ kind = "integer" => text \in Seq(Octets)
  /\ kind = "bundle" => text \in Seq(Members)
  /\ kind = "year" => year \in Nat \ {0} /\ newYear = FirstDay(year)

(* What the inputs are: a text of characters, a serial number of bytes,    *)
(* the members of a bundle, or a year and its first day.                   *)
LEMMA ConvInvHolds == ConvSpec => []ConvInv
<1>1. ConvInit => ConvInv
  <2>1. FirstDay(1970) = 0
    BY DEF FirstDay
  <2>2. \A S : <<>> \in Seq(S)
    BY EmptySeq
  <2>3. QED
    BY <2>1, <2>2 DEF ConvInit, ConvInv
<1>2. ASSUME ConvInv, [ConvNext]_convVars PROVE ConvInv'
  <2>1. CASE Extend
    <3>0. PICK c \in Alphabet[kind] : text' = Append(text, c)
      BY <2>1 DEF Extend
    <3>1. kind # "year" /\ UNCHANGED <<kind, year, newYear>>
      BY <2>1 DEF Extend
    <3>2. CASE kind \in {"hex", "base64"}
      <4>1. c \in Chars /\ text \in Seq(Chars)
        BY <1>2, <3>2, AlphabetAssumption DEF ConvInv
      <4>2. text' \in Seq(Chars)
        BY <3>0, <4>1, AppendProperties
      <4>3. QED
        BY <3>1, <3>2, <4>2 DEF ConvInv
    <3>3. CASE kind = "integer"
      <4>1. c \in Octets /\ text \in Seq(Octets)
        BY <1>2, <3>3, AlphabetAssumption DEF ConvInv, Octets
      <4>2. text' \in Seq(Octets)
        BY <3>0, <4>1, AppendProperties
      <4>3. QED
        BY <3>1, <3>3, <4>2 DEF ConvInv
    <3>4. CASE kind = "bundle"
      <4>1. c \in Members /\ text \in Seq(Members)
        BY <1>2, <3>4, AlphabetAssumption DEF ConvInv, Members
      <4>2. text' \in Seq(Members)
        BY <3>0, <4>1, AppendProperties
      <4>3. QED
        BY <3>1, <3>4, <4>2 DEF ConvInv
    <3>5. QED
      BY <1>2, <3>1, <3>2, <3>3, <3>4 DEF ConvInv
  <2>2. CASE NextYear
    <3>1. /\ kind = "year" /\ kind' = kind /\ year' = year + 1
          /\ newYear' = newYear + DaysBefore(year, 13)
      BY <2>2 DEF NextYear
    <3>2. year \in Nat \ {0} /\ newYear = FirstDay(year)
      BY <1>2, <3>1 DEF ConvInv
    <3>3. newYear' = FirstDay(year + 1)
      BY <3>1, <3>2, YearLength
    <3>4. year' \in Nat \ {0}
      BY <3>1, <3>2
    <3>5. QED
      BY <3>1, <3>3, <3>4 DEF ConvInv
  <2>3. CASE UNCHANGED convVars
    BY <1>2, <2>3 DEF ConvInv, convVars
  <2>4. QED
    BY <1>2, <2>1, <2>2, <2>3 DEF ConvNext
<1>3. QED
  BY <1>1, <1>2, PTL DEF ConvSpec

(* ui.rs: the time that verify prints is the one of the token, on every    *)
(* day of every year from 1970 on. The closed formula FirstDay is what     *)
(* makes the induction go: year and newYear go on together, and civil is   *)
(* its inverse.                                                            *)
THEOREM DatesAreRight == ConvSpec => []CalendarAgrees
<1>0. kind # "year" => CalendarAgrees
  BY DEF CalendarAgrees
<1>1. ConvInv => CalendarAgrees
  <2>0. SUFFICES ASSUME kind = "year", year \in Nat \ {0}, newYear = FirstDay(year)
                 PROVE  CalendarAgrees
    BY <1>0 DEF ConvInv
  <2>1. SUFFICES ASSUME NEW m \in 1 .. 12, NEW d \in 1 .. DaysIn(year, m)
                 PROVE  ShownAs(newYear + DaysBefore(year, m) + d - 1,
                                [year |-> year, month |-> m, day |-> d])
    BY DEF CalendarAgrees
  <2> DEFINE days == newYear + DaysBefore(year, m) + d - 1
             date == [year |-> year, month |-> m, day |-> d]
  <2>2. civil(days) = date
    BY <2>0, DateOfDay
  <2>3. days \in Int
    <3>1. d \in Int /\ newYear \in Int
      BY <2>0 DEF FirstDay, DaysIn
    <3>2. DaysBefore(year, m) \in Int
      BY <2>0 DEF DaysBefore
    <3>3. QED
      BY <3>1, <3>2
  <2> HIDE DEF days, date
  <2>4. ASSUME NEW h \in {0, 23}, NEW i \in {0, 59}, NEW s \in {0, 59}
        PROVE  format_unix_utc(Second(days, h, i, s)) = [date |-> date, clock |-> <<h, i, s>>]
    <3>1. h \in 0 .. 23 /\ i \in 0 .. 59 /\ s \in 0 .. 59
      BY SMTT(40)
    <3>2. format_unix_utc(Second(days, h, i, s)) = [date |-> civil(days), clock |-> <<h, i, s>>]
      BY <2>3, <3>1, ClockOfSecond, ZenonT(40)
    <3>3. QED
      BY <2>2, <3>2
  <2>5. ShownAs(days, date)
    BY <2>2, <2>4 DEF ShownAs
  <2>6. QED
    BY <2>5 DEF days, date
<1>2. QED
  BY <1>1, ConvInvHolds, PTL

(* proof.rs: a bundle that the service hands out and the client accepts is *)
(* written so that it is read as the same one, with the same optional      *)
(* members and no null, whatever its members.                              *)
THEOREM BundlesRoundTrip == ConvSpec => []BundleRoundTrips
<1>1. ConvInv => BundleRoundTrips
  <2>1. SUFFICES ASSUME text \in Seq(Members), from_json(into_json(text)) # None
                 PROVE  BundleRoundTrips
    BY DEF ConvInv, BundleRoundTrips
  <2>2. into_json(text) \in Seq(Members)
    BY <2>1, KeptMembers
  <2>3. QED
    BY <2>1, <2>2, SavedIsRead, Zenon DEF BundleRoundTrips, Names
<1>2. QED
  BY <1>1, ConvInvHolds, PTL

(* merkle.rs: two hex texts, of any length, are the same bytes exactly     *)
(* when they are the same text but for case and plus signs, and only a     *)
(* character of several bytes makes hex_decode panic.                      *)
THEOREM HexMeansItsBytes == ConvSpec => []HexMeansBytes
<1>1. ConvInv => HexMeansBytes
  <2>1. kind # "hex" => HexMeansBytes
    BY DEF HexMeansBytes
  <2>2. QED
    BY <2>1, MeansBytes DEF ConvInv
<1>2. QED
  BY <1>1, ConvInvHolds, PTL

(* hashing.rs: normalize_sha256_hex accepts the hex of a digest between    *)
(* white space, whatever its case, and nothing else, and gives what        *)
(* hex_encode gives.                                                       *)
THEOREM NormalizedHashIsCanonical == ConvSpec => []NormalizedIsCanonical
<1>1. ConvInv => NormalizedIsCanonical
  <2>1. kind # "hex" => NormalizedIsCanonical
    BY DEF NormalizedIsCanonical
  <2>2. QED
    BY <2>1, Canonical DEF ConvInv
<1>2. QED
  BY <1>1, ConvInvHolds, PTL

(* client.rs: an id of any characters is read back as it was, and it is    *)
(* one segment of the path exactly when it is neither "." nor "..", which  *)
(* the URL library resolves out of the path.                               *)
THEOREM IdIsASegmentUnlessDots == ConvSpec => []IdIsOneSegment
<1>1. ConvInv => IdIsOneSegment
  <2>1. kind \notin {"hex", "base64"} => IdIsOneSegment
    BY DEF IdIsOneSegment
  <2>2. kind \in {"hex", "base64"} /\ text \in Seq(Chars) => IdIsOneSegment
    BY OneSegment
  <2>3. QED
    BY <2>1, <2>2 DEF ConvInv
<1>2. QED
  BY <1>1, ConvInvHolds, PTL

(* verify.rs: decode_base64 gives the octets of its digits, however long   *)
(* the text and however narrow the accumulator (of 12 bits or more), and   *)
(* fails exactly on a foreign byte before the padding.                     *)
THEOREM Base64IsItsDigits == ConvSpec => []Base64Agrees
<1>1. ConvInv => Base64Agrees
  <2>1. kind # "base64" => Base64Agrees
    BY DEF Base64Agrees
  <2>2. QED
    BY <2>1, AgreesBase64 DEF ConvInv
<1>2. QED
  BY <1>1, ConvInvHolds, PTL

(* rfc3161.rs: the remainders that TLC compares, for a serial number of    *)
(* any length; they follow from SerialIsExact, which says more.            *)
THEOREM DecimalIsTheNumber == ConvSpec => []DecimalAgrees
<1>1. ConvInv => DecimalAgrees
  <2>1. kind # "integer" => DecimalAgrees
    BY DEF DecimalAgrees
  <2>2. ASSUME text \in Seq(Octets) PROVE Bytes(text) \in Seq(0 .. 255)
    <3> DEFINE T == 0 .. 255
    <3>1. Octets \subseteq Seq(T)
      BY DEF Octets
    <3> HIDE DEF T
    <3>2. text \in Seq(Seq(T))
      BY <2>2, <3>1, SeqMonotonic
    <3>3. FlattenSeq(text) \in Seq(T)
      BY <3>2, PlacesExist
    <3>4. QED
      BY <3>3 DEF Bytes, T
  <2>3. QED
    BY <2>1, <2>2, AgreesDecimal DEF ConvInv
<1>2. QED
  BY <1>1, ConvInvHolds, PTL
=============================================================================
