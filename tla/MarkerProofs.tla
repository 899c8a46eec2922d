----------------------------- MODULE MarkerProofs -----------------------------
(***************************************************************************)
(* A marker that is put into a memo is read back as it was, for every      *)
(* memo and every owner id.                                                *)
(*                                                                         *)
(* The library's induction theorems take a predicate as a parameter; here  *)
(* induction is on the least counterexample instead.                       *)
(***************************************************************************)
EXTENDS MarkerText, WellFoundedInduction, TLAPS

------------------------------------------------------------------------------
(***************************************************************************)
(* Induction.                                                              *)
(***************************************************************************)

Below == {ss \in Nat \X Nat : ss[1] < ss[2]}

LEMMA BelowIsWellFounded == IsWellFoundedOn(Below, Nat)
  BY NatLessThanWellFounded DEF Below, OpToRel

\* A set of numbers has a least one.
LEMMA Least ==
  ASSUME NEW T, T \subseteq Nat, T # {}
  PROVE  \E x \in T : \A y \in T : x <= y
<1>1. PICK x \in T : \A y \in T : ~(<<y, x>> \in Below)
  BY BelowIsWellFounded, WFMin
<1>2. ASSUME NEW y \in T
      PROVE  x <= y
  <2>1. x \in Nat /\ y \in Nat /\ ~(<<y, x>> \in Below)
    BY <1>1
  <2>2. ~(y < x)
    BY <2>1 DEF Below
  <2>. QED
    BY <2>1, <2>2
<1>. QED
  BY <1>2

\* Numbers that hold 0, and the successor of each up to n, hold all up to n.
LEMMA Climb ==
  ASSUME NEW n \in Nat, NEW Good, 0 \in Good,
         \A k \in 0..(n - 1) : k \in Good => k + 1 \in Good
  PROVE  0..n \subseteq Good
<1>. SUFFICES ASSUME {k \in 0..n : k \notin Good} # {} PROVE FALSE
  OBVIOUS
<1>. DEFINE T == {k \in 0..n : k \notin Good}
<1>0. T \subseteq Nat /\ T # {}
  OBVIOUS
<1>1. PICK x \in T : \A y \in T : x <= y
  BY <1>0, Least
<1>2. x \in 0..n /\ x # 0
  OBVIOUS
<1>3. x - 1 \in 0..(n - 1) /\ (x - 1) + 1 = x
  BY <1>2
<1>4. x - 1 \notin T
  BY <1>1, <1>3
<1>5. x - 1 \in Good
  BY <1>3, <1>4
<1>. QED
  BY <1>3, <1>5

------------------------------------------------------------------------------
(***************************************************************************)
(* FlattenSeq.                                                             *)
(***************************************************************************)

\* One sequence behind another.
LEMMA Concatenation ==
  ASSUME NEW S, NEW a \in Seq(S), NEW b \in Seq(S)
  PROVE  /\ a \o b \in Seq(S) /\ Len(a \o b) = Len(a) + Len(b)
         /\ \A j \in 1..Len(a) : (a \o b)[j] = a[j]
         /\ \A j \in 1..Len(b) : (a \o b)[Len(a) + j] = b[j]
  OBVIOUS

\* a \o b begins like a, and so with whatever a begins with.
LEMMA BeginsWith ==
  ASSUME NEW S, NEW a \in Seq(S), NEW b \in Seq(S), NEW c \in Seq(S),
         Len(c) <= Len(a), \A j \in 1..Len(c) : a[j] = c[j]
  PROVE  Len(c) <= Len(a \o b) /\ \A j \in 1..Len(c) : (a \o b)[j] = c[j]
  OBVIOUS

\* The first sequences of a list, one after another: f[k] is the first k of them.
Joins(f, seqs, n) ==
  /\ f[1] = seqs[1]
  /\ \A i \in 2..n : f[i] = f[i - 1] \o seqs[i]

\* There is such a function.
LEMMA JoinsExist ==
  ASSUME NEW S, NEW n \in Nat, n > 0, NEW seqs \in [1..n -> Seq(S)]
  PROVE  \E f \in [1..n -> Seq(S)] : Joins(f, seqs, n)
<1>. DEFINE Good == {k \in 0..n : k > 0 => \E f \in [1..k -> Seq(S)] : Joins(f, seqs, k)}
<1>1. 0 \in Good
  OBVIOUS
<1>2. ASSUME NEW k \in 0..(n - 1), k \in Good
      PROVE  k + 1 \in Good
  <2>1. CASE k = 0
    <3>. PICK f : f = [i \in 1..1 |-> seqs[1]]
      OBVIOUS
    <3>1. f \in [1..1 -> Seq(S)] /\ f[1] = seqs[1]
      OBVIOUS
    <3>2. Joins(f, seqs, 1)
      BY <3>1 DEF Joins
    <3>. QED
      BY <2>1, <3>1, <3>2
  <2>2. CASE k > 0
    <3>1. PICK g \in [1..k -> Seq(S)] : Joins(g, seqs, k)
      BY <1>2, <2>2
    <3>. PICK f : f = [i \in 1..(k + 1) |-> IF i <= k THEN g[i] ELSE g[k] \o seqs[k + 1]]
      OBVIOUS
    <3>2. g[k] \in Seq(S) /\ seqs[k + 1] \in Seq(S) /\ g[k] \o seqs[k + 1] \in Seq(S)
      BY <2>2
    <3>3. f \in [1..(k + 1) -> Seq(S)]
      BY <3>2
    <3>4. f[1] = seqs[1]
      BY <2>2, <3>1 DEF Joins
    <3>5. ASSUME NEW i \in 2..(k + 1)
          PROVE  f[i] = f[i - 1] \o seqs[i]
      <4>1. CASE i = k + 1
        <5>1. i \in 1..(k + 1) /\ k \in 1..(k + 1) /\ ~(i <= k) /\ k <= k /\ i - 1 = k
          BY <2>2, <4>1
        <5>2. f[i] = g[k] \o seqs[k + 1] /\ f[k] = g[k]
          BY <5>1
        <5>. QED
          BY <4>1, <5>1, <5>2
      <4>2. CASE i # k + 1
        <5>1. i \in 2..k /\ i \in 1..(k + 1) /\ i - 1 \in 1..(k + 1) /\ i <= k /\ i - 1 <= k
          BY <4>2
        <5>. QED
          BY <3>1, <5>1 DEF Joins
      <4>. QED
        BY <4>1, <4>2
    <3>6. Joins(f, seqs, k + 1)
      BY <3>4, <3>5 DEF Joins
    <3>7. k + 1 \in 0..n
      OBVIOUS
    <3>. QED
      BY <3>3, <3>6, <3>7
  <2>. QED
    BY <2>1, <2>2
<1>. HIDE DEF Good
<1>3. 0..n \subseteq Good
  BY <1>1, <1>2, Climb
<1>. QED
  BY <1>3 DEF Good

\* It gives FlattenSeq's result.
LEMMA FlattenJoins ==
  ASSUME NEW S, NEW n \in Nat, n > 0, NEW seqs \in [1..n -> Seq(S)]
  PROVE  \E f \in [1..n -> Seq(S)] : Joins(f, seqs, n) /\ FlattenSeq(seqs) = f[n]
<1>. DEFINE Rec(f) == f = [i \in 1..n |-> IF i = 1 THEN seqs[i] ELSE f[i - 1] \o seqs[i]]
<1>1. PICK f \in [1..n -> Seq(S)] : Joins(f, seqs, n)
  BY JoinsExist
<1>2. Rec(f)
  <2>1. ASSUME NEW i \in 1..n
        PROVE  f[i] = IF i = 1 THEN seqs[i] ELSE f[i - 1] \o seqs[i]
    <3>1. i = 1 \/ i \in 2..n
      OBVIOUS
    <3>2. CASE i = 1
      BY <1>1, <3>2 DEF Joins
    <3>3. CASE i \in 2..n
      <4>1. i # 1
        BY <3>3
      <4>. QED
        BY <1>1, <3>3, <4>1 DEF Joins
    <3>. QED
      BY <3>1, <3>2, <3>3
  <2>. QED
    BY <2>1
<1>3. seqs \in Seq(Seq(S)) /\ Len(seqs) = n
  OBVIOUS
<1>. DEFINE g == CHOOSE h : Rec(h)
<1>4. Rec(g)
  BY <1>2
<1>5. FlattenSeq(seqs) = g[n]
  BY <1>3 DEF FlattenSeq
<1>. HIDE DEF g
<1>6. /\ DOMAIN g = 1..n /\ g[1] = seqs[1]
      /\ \A i \in 2..n : g[i] = g[i - 1] \o seqs[i]
  <2>1. 1 \in 1..n
    OBVIOUS
  <2>2. DOMAIN g = 1..n /\ g[1] = seqs[1]
    BY <1>4, <2>1
  <2>3. ASSUME NEW i \in 2..n PROVE g[i] = g[i - 1] \o seqs[i]
    <3>1. i \in 1..n /\ i # 1
      OBVIOUS
    <3>. QED
      BY <1>4, <3>1
  <2>. QED
    BY <2>2, <2>3
<1>7. \A k \in 1..n : g[k] = f[k]
  <2>. DEFINE Good == {k \in 0..n : k > 0 => g[k] = f[k]}
  <2>1. 0 \in Good
    OBVIOUS
  <2>2. ASSUME NEW k \in 0..(n - 1), k \in Good
        PROVE  k + 1 \in Good
    <3>1. CASE k = 0
      BY <1>1, <1>6, <3>1 DEF Joins
    <3>2. CASE k # 0
      <4>1. k + 1 \in 2..n /\ (k + 1) - 1 = k /\ k + 1 \in 0..n /\ k > 0
        BY <3>2
      <4>2. g[k + 1] = g[k] \o seqs[k + 1] /\ f[k + 1] = f[k] \o seqs[k + 1]
        BY <1>1, <1>6, <4>1 DEF Joins
      <4>. QED
        BY <2>2, <4>1, <4>2
    <3>. QED
      BY <3>1, <3>2
  <2>. HIDE DEF Good
  <2>3. 0..n \subseteq Good
    BY <2>1, <2>2, Climb
  <2>. QED
    BY <2>3 DEF Good
<1>8. n \in 1..n
  OBVIOUS
<1>. QED
  BY <1>1, <1>5, <1>7, <1>8

\* Each of them is the beginning of the later ones.
LEMMA JoinsPrefix ==
  ASSUME NEW S, NEW n \in Nat, NEW seqs \in [1..n -> Seq(S)],
         NEW f \in [1..n -> Seq(S)], Joins(f, seqs, n),
         NEW k \in 1..n, NEW m \in k..n
  PROVE  Len(f[k]) <= Len(f[m]) /\ \A j \in 1..Len(f[k]) : f[m][j] = f[k][j]
<1>. DEFINE Begins(i) == Len(f[k]) <= Len(f[i]) /\ \A j \in 1..Len(f[k]) : f[i][j] = f[k][j]
            Good == {i \in 0..n : i >= k => Begins(i)}
<1>1. 0 \in Good
  OBVIOUS
<1>2. ASSUME NEW i \in 0..(n - 1), i \in Good
      PROVE  i + 1 \in Good
  <2>1. CASE i + 1 <= k
    <3>1. CASE i + 1 < k
      BY <3>1
    <3>2. CASE i + 1 = k
      BY <3>2
    <3>. QED
      BY <2>1, <3>1, <3>2
  <2>2. CASE i + 1 > k
    <3>1. i \in 1..n /\ i + 1 \in 2..n /\ (i + 1) - 1 = i /\ i >= k
      BY <2>2
    <3>2. f[i + 1] = f[i] \o seqs[i + 1]
      BY <3>1 DEF Joins
    <3>3. f[i] \in Seq(S) /\ seqs[i + 1] \in Seq(S) /\ f[k] \in Seq(S)
      BY <3>1
    <3>4. Begins(i)
      BY <1>2, <3>1
    <3>5. /\ Len(f[k]) <= Len(f[i] \o seqs[i + 1])
          /\ \A j \in 1..Len(f[k]) : (f[i] \o seqs[i + 1])[j] = f[k][j]
      <4>. HIDE DEF Good
      <4>. QED
        BY <3>3, <3>4, BeginsWith
    <3>9. Begins(i + 1)
      BY <3>2, <3>5
    <3>. QED
      BY <3>9
  <2>. QED
    BY <2>1, <2>2
<1>. HIDE DEF Good
<1>3. 0..n \subseteq Good
  BY <1>1, <1>2, Climb
<1>. QED
  BY <1>3 DEF Good

\* The parts of a list have their places in the whole: part k begins behind offset at[k - 1].
Offsets(at, seqs, n, whole) ==
  /\ at \in [0..n -> Nat] /\ at[0] = 0 /\ at[n] = Len(whole)
  /\ \A k \in 1..n : /\ at[k] = at[k - 1] + Len(seqs[k])
                     /\ \A j \in 1..Len(seqs[k]) : whole[at[k - 1] + j] = seqs[k][j]

\* FlattenSeq puts the parts one behind the other.
LEMMA FlattenOffsets ==
  ASSUME NEW S, NEW n \in Nat, NEW seqs \in [1..n -> Seq(S)]
  PROVE  /\ FlattenSeq(seqs) \in Seq(S)
         /\ \E at : Offsets(at, seqs, n, FlattenSeq(seqs))
<1>1. CASE n = 0
  <2>1. seqs = <<>> /\ Len(seqs) = 0
    BY <1>1
  <2>2. FlattenSeq(seqs) = <<>>
    BY <2>1 DEF FlattenSeq
  <2>. PICK at : at = [k \in 0..0 |-> 0]
    OBVIOUS
  <2>3. Offsets(at, seqs, n, FlattenSeq(seqs))
    BY <1>1, <2>2 DEF Offsets
  <2>. QED
    BY <2>2, <2>3
<1>2. CASE n > 0
  <2>1. PICK f \in [1..n -> Seq(S)] : Joins(f, seqs, n) /\ FlattenSeq(seqs) = f[n]
    BY <1>2, FlattenJoins
  <2>. PICK at : at = [k \in 0..n |-> IF k = 0 THEN 0 ELSE Len(f[k])]
    OBVIOUS
  <2>2. /\ at \in [0..n -> Nat] /\ at[0] = 0
        /\ \A k \in 1..n : at[k] = Len(f[k])
    <3>1. ASSUME NEW k \in 0..n PROVE at[k] \in Nat
      <4>1. CASE k = 0
        BY <4>1
      <4>2. CASE k # 0
        <5>1. k \in 1..n
          BY <4>2
        <5>2. f[k] \in Seq(S) /\ at[k] = Len(f[k])
          BY <5>1
        <5>. QED
          BY <5>2
      <4>. QED
        BY <4>1, <4>2
    <3>2. ASSUME NEW k \in 1..n PROVE at[k] = Len(f[k])
      OBVIOUS
    <3>. QED
      BY <3>1, <3>2
  <2>3. n \in 1..n /\ at[n] = Len(f[n]) /\ f[n] \in Seq(S)
    BY <1>2, <2>2
  <2>4. ASSUME NEW k \in 1..n
        PROVE  /\ at[k] = at[k - 1] + Len(seqs[k])
               /\ \A j \in 1..Len(seqs[k]) : f[n][at[k - 1] + j] = seqs[k][j]
    <3>. f[k] \in Seq(S) /\ seqs[k] \in Seq(S) /\ n \in k..n
      BY <2>3
    <3>1. Len(f[k]) <= Len(f[n]) /\ \A j \in 1..Len(f[k]) : f[n][j] = f[k][j]
      BY <2>1, JoinsPrefix
    <3>2. CASE k = 1
      <4>1. f[k] = seqs[k] /\ at[k - 1] = 0
        BY <2>1, <2>2, <3>2 DEF Joins
      <4>2. at[k] = Len(f[k]) /\ Len(seqs[k]) \in Nat
        BY <2>2
      <4>3. at[k] = at[k - 1] + Len(seqs[k])
        BY <4>1, <4>2
      <4>4. ASSUME NEW j \in 1..Len(seqs[k])
            PROVE  f[n][at[k - 1] + j] = seqs[k][j]
        <5>1. at[k - 1] + j = j
          <6>1. j \in Nat
            BY <4>2
          <6>2. 0 + j = j
            BY <6>1
          <6>. QED
            BY <4>1, <6>2
        <5>. QED
          BY <3>1, <4>1, <5>1
      <4>. QED
        BY <4>3, <4>4
    <3>3. CASE k # 1
      <4>1. k \in 2..n /\ k - 1 \in 1..n
        BY <3>3
      <4>2. f[k] = f[k - 1] \o seqs[k] /\ at[k - 1] = Len(f[k - 1]) /\ f[k - 1] \in Seq(S)
        BY <2>1, <2>2, <4>1 DEF Joins
      <4>3. at[k] = Len(f[k]) /\ Len(f[k]) = Len(f[k - 1]) + Len(seqs[k])
        <5>1. at[k] = Len(f[k])
          BY <2>2
        <5>. QED
          BY <4>2, <5>1, Concatenation
      <4>4. ASSUME NEW j \in 1..Len(seqs[k])
            PROVE  f[n][at[k - 1] + j] = seqs[k][j]
        <5>1. at[k - 1] + j \in 1..Len(f[k])
          BY <4>2, <4>3
        <5>2. f[k][at[k - 1] + j] = seqs[k][j]
          <6>1. (f[k - 1] \o seqs[k])[Len(f[k - 1]) + j] = seqs[k][j]
            BY <4>2, Concatenation
          <6>. QED
            BY <4>2, <6>1
        <5>. QED
          BY <3>1, <5>1, <5>2
      <4>. QED
        BY <4>2, <4>3, <4>4
    <3>. QED
      BY <3>2, <3>3
  <2>5. Offsets(at, seqs, n, FlattenSeq(seqs))
    <3>1. at[n] = Len(FlattenSeq(seqs))
      BY <2>1, <2>3
    <3>2. \A k \in 1..n : \A j \in 1..Len(seqs[k]) :
            FlattenSeq(seqs)[at[k - 1] + j] = seqs[k][j]
      BY <2>1, <2>4
    <3>3. \A k \in 1..n : at[k] = at[k - 1] + Len(seqs[k])
      BY <2>4
    <3>. QED
      BY <2>2, <3>1, <3>2, <3>3 DEF Offsets
  <2>. QED
    BY <2>1, <2>3, <2>5
<1>. QED
  BY <1>1, <1>2

------------------------------------------------------------------------------
(***************************************************************************)
(* ScanReaches.                                                            *)
(***************************************************************************)

\* The scan gets to position i, if at says where it has been before.
Reaches(at, value, i) ==
  \/ i = 1
  \/ i > 1 /\ at[i - 1] /\ value[i - 1] # Percent
  \/ i > 3 /\ at[i - 3] /\ value[i - 3] = Percent

\* It depends on the positions before only.
LEMMA ReachesIsLocal ==
  ASSUME NEW f, NEW g, NEW value, NEW i,
         i > 1 => f[i - 1] = g[i - 1], i > 3 => f[i - 3] = g[i - 3]
  PROVE  Reaches(f, value, i) = Reaches(g, value, i)
  BY DEF Reaches

LEMMA ReachesType ==
  ASSUME NEW f, NEW value, NEW i
  PROVE  Reaches(f, value, i) \in BOOLEAN
  BY DEF Reaches

\* There is such a scan.
LEMMA ScanExists ==
  ASSUME NEW value, NEW n \in Nat
  PROVE  \E f \in [1..n -> BOOLEAN] : \A i \in 1..n : f[i] = Reaches(f, value, i)
<1>. DEFINE Scan(f, k) == f \in [1..k -> BOOLEAN] /\ \A i \in 1..k : f[i] = Reaches(f, value, i)
            Good == {k \in 0..n : \E f : Scan(f, k)}
<1>1. 0 \in Good
  <2>. PICK f : f = [i \in 1..0 |-> TRUE]
    OBVIOUS
  <2>1. Scan(f, 0)
    OBVIOUS
  <2>2. 0 \in 0..n
    OBVIOUS
  <2>. QED
    BY <2>1, <2>2
<1>2. ASSUME NEW k \in 0..(n - 1), k \in Good
      PROVE  k + 1 \in Good
  <2>1. PICK g : Scan(g, k)
    BY <1>2
  <2>. PICK last : last = Reaches(g, value, k + 1)
    OBVIOUS
  <2>. PICK f : f = [i \in 1..(k + 1) |-> IF i <= k THEN g[i] ELSE last]
    OBVIOUS
  <2>2. last \in BOOLEAN
    BY ReachesType
  <2>3. \A i \in 1..k : f[i] = g[i] /\ g[i] \in BOOLEAN
    BY <2>1
  <2>4. f[k + 1] = last
    OBVIOUS
  <2>5. f \in [1..(k + 1) -> BOOLEAN]
    BY <2>2, <2>1
  <2>6. ASSUME NEW i \in 1..(k + 1)
        PROVE  f[i] = Reaches(f, value, i)
    <3>1. (i > 1 => i - 1 \in 1..k) /\ (i > 3 => i - 3 \in 1..k)
      OBVIOUS
    <3>2. Reaches(f, value, i) = Reaches(g, value, i)
      <4>1. (i > 1 => f[i - 1] = g[i - 1]) /\ (i > 3 => f[i - 3] = g[i - 3])
        BY <2>3, <3>1
      <4>. QED
        BY <4>1, ReachesIsLocal
    <3>3. CASE i = k + 1
      BY <2>4, <3>2, <3>3
    <3>4. CASE i # k + 1
      <4>1. i \in 1..k
        BY <3>4
      <4>. QED
        BY <2>1, <2>3, <3>2, <4>1
    <3>. QED
      BY <3>3, <3>4
  <2>7. Scan(f, k + 1)
    BY <2>5, <2>6
  <2>8. k + 1 \in 0..n
    OBVIOUS
  <2>. QED
    BY <2>7, <2>8
<1>. HIDE DEF Good
<1>3. 0..n \subseteq Good
  BY <1>1, <1>2, Climb
<1>4. PICK f : Scan(f, n)
  BY <1>3 DEF Good
<1>. QED
  BY <1>4

\* ScanReaches is one.
LEMMA ScanProperties ==
  ASSUME NEW S, NEW value \in Seq(S)
  PROVE  \A i \in 1..Len(value) : ScanReaches(value)[i] = Reaches(ScanReaches(value), value, i)
<1>. DEFINE n == Len(value)
            Rec(f) == f = [i \in 1..n |-> \/ i = 1
                                          \/ i > 1 /\ f[i - 1] /\ value[i - 1] # Percent
                                          \/ i > 3 /\ f[i - 3] /\ value[i - 3] = Percent]
            g == CHOOSE f : Rec(f)
<1>1. PICK f \in [1..n -> BOOLEAN] : \A i \in 1..n : f[i] = Reaches(f, value, i)
  <2>. HIDE DEF Rec, g
  <2>1. n \in Nat
    OBVIOUS
  <2>. HIDE DEF n
  <2>. QED
    BY <2>1, ScanExists
<1>2. Rec(f)
  BY <1>1 DEF Reaches
<1>3. Rec(g)
  BY <1>2
<1>4. ScanReaches(value) = g
  BY DEF ScanReaches
<1>. HIDE DEF g
<1>5. \A i \in 1..n : g[i] = Reaches(g, value, i)
  BY <1>3 DEF Reaches
<1>. QED
  BY <1>4, <1>5

\* The scan of value has come to the end of its first p bytes: it goes on right behind
\* them, and no escape reaches beyond.
Scanned(value, p) ==
  /\ p < Len(value) => ScanReaches(value)[p + 1]
  /\ \A j \in 1..p : ScanReaches(value)[j] /\ value[j] = Percent =>
       j + 2 <= p /\ HexValue(value[j + 1]) >= 0 /\ HexValue(value[j + 2]) >= 0

\* What Reaches says of positions behind the first.
LEMMA ReachesNext ==
  ASSUME NEW S, NEW value \in Seq(S), NEW i \in Nat, 1 < i, i <= Len(value)
  PROVE  ScanReaches(value)[i] <=>
           \/ ScanReaches(value)[i - 1] /\ value[i - 1] # Percent
           \/ i > 3 /\ ScanReaches(value)[i - 3] /\ value[i - 3] = Percent
<1>1. i \in 1..Len(value) /\ i # 1
  OBVIOUS
<1>2. ScanReaches(value)[i] = Reaches(ScanReaches(value), value, i)
  BY <1>1, ScanProperties
<1>. QED
  BY <1>1, <1>2 DEF Reaches

\* The scan goes over a plain byte.
LEMMA ScanPlain ==
  ASSUME NEW S, NEW value \in Seq(S), NEW p \in Nat, p + 1 <= Len(value),
         Scanned(value, p), value[p + 1] # Percent
  PROVE  Scanned(value, p + 1)
<1>. DEFINE scan == ScanReaches(value)
<1>0. Len(value) \in Nat
  OBVIOUS
<1>1. scan[p + 1]
  BY <1>0 DEF Scanned
<1>. HIDE DEF scan
<1>2. p + 1 < Len(value) => scan[(p + 1) + 1]
  <2>. SUFFICES ASSUME p + 1 < Len(value) PROVE scan[p + 2]
    BY <1>0
  <2>1. p + 2 \in Nat /\ 1 < p + 2 /\ p + 2 <= Len(value) /\ (p + 2) - 1 = p + 1
    BY <1>0
  <2>. QED
    BY <1>1, <2>1, ReachesNext DEF scan
<1>3. ASSUME NEW j \in 1..(p + 1), scan[j], value[j] = Percent
      PROVE  j + 2 <= p + 1 /\ HexValue(value[j + 1]) >= 0 /\ HexValue(value[j + 2]) >= 0
  <2>1. j # p + 1
    BY <1>3
  <2>2. j \in 1..p
    BY <2>1
  <2>3. j + 2 <= p /\ HexValue(value[j + 1]) >= 0 /\ HexValue(value[j + 2]) >= 0
    BY <1>3, <2>2 DEF Scanned, scan
  <2>. QED
    BY <2>2, <2>3
<1>. QED
  BY <1>2, <1>3 DEF Scanned, scan

\* The scan goes over an escape, and does not stop in the middle of it.
LEMMA ScanEscape ==
  ASSUME NEW S, NEW value \in Seq(S), NEW p \in Nat, p + 3 <= Len(value),
         Scanned(value, p), value[p + 1] = Percent,
         HexValue(value[p + 2]) >= 0, HexValue(value[p + 3]) >= 0
  PROVE  /\ Scanned(value, p + 3)
         /\ ScanReaches(value)[p + 1]
         /\ ~ScanReaches(value)[p + 2] /\ ~ScanReaches(value)[p + 3]
<1>. DEFINE scan == ScanReaches(value)
<1>0. Len(value) \in Nat
  OBVIOUS
<1>1. scan[p + 1]
  BY <1>0 DEF Scanned
<1>. HIDE DEF scan
<1>2. \A j \in 1..p : scan[j] /\ value[j] = Percent =>
        j + 2 <= p /\ HexValue(value[j + 1]) >= 0 /\ HexValue(value[j + 2]) >= 0
  BY DEF Scanned, scan
<1>3. ~scan[p + 2]
  <2>1. p + 2 \in Nat /\ 1 < p + 2 /\ p + 2 <= Len(value) /\ (p + 2) - 1 = p + 1
        /\ (p + 2) - 3 = p - 1 /\ (p + 2 > 3 => p - 1 \in 1..p /\ ~((p - 1) + 2 <= p))
    BY <1>0
  <2>2. ~(p + 2 > 3 /\ scan[p - 1] /\ value[p - 1] = Percent)
    BY <1>2, <2>1
  <2>. QED
    BY <2>1, <2>2, ReachesNext DEF scan
<1>4. ~scan[p + 3]
  <2>1. p + 3 \in Nat /\ 1 < p + 3 /\ p + 3 <= Len(value) /\ (p + 3) - 1 = p + 2
        /\ (p + 3) - 3 = p /\ (p + 3 > 3 => p \in 1..p /\ ~(p + 2 <= p))
    BY <1>0
  <2>2. ~(p + 3 > 3 /\ scan[p] /\ value[p] = Percent)
    BY <1>2, <2>1
  <2>. QED
    BY <1>3, <2>1, <2>2, ReachesNext DEF scan
<1>5. p + 3 < Len(value) => scan[(p + 3) + 1]
  <2>. SUFFICES ASSUME p + 3 < Len(value) PROVE scan[p + 4]
    BY <1>0
  <2>1. p + 4 \in Nat /\ 1 < p + 4 /\ p + 4 <= Len(value) /\ (p + 4) - 3 = p + 1 /\ p + 4 > 3
    BY <1>0
  <2>. QED
    BY <1>1, <2>1, ReachesNext DEF scan
<1>6. ASSUME NEW j \in 1..(p + 3), scan[j], value[j] = Percent
      PROVE  j + 2 <= p + 3 /\ HexValue(value[j + 1]) >= 0 /\ HexValue(value[j + 2]) >= 0
  <2>1. j # p + 2 /\ j # p + 3
    BY <1>3, <1>4, <1>6
  <2>2. CASE j = p + 1
    <3>1. j + 1 = p + 2 /\ j + 2 = p + 3
      BY <2>2
    <3>. QED
      BY <3>1
  <2>3. CASE j # p + 1
    <3>1. j \in 1..p
      BY <2>1, <2>3
    <3>2. j + 2 <= p /\ HexValue(value[j + 1]) >= 0 /\ HexValue(value[j + 2]) >= 0
      BY <1>2, <1>6, <3>1
    <3>. QED
      BY <3>1, <3>2
  <2>. QED
    BY <2>2, <2>3
<1>. QED
  BY <1>1, <1>3, <1>4, <1>5, <1>6 DEF Scanned, scan

------------------------------------------------------------------------------
(***************************************************************************)
(* Escapes.                                                                *)
(***************************************************************************)

\* What escapeMarkerValue makes of one byte.
Escaped(b) ==
  IF isMarkerValueSafe(b) THEN <<b>>
                          ELSE <<Percent, HexDigit(b \div 16), HexDigit(b % 16)>>

\* What markerPattern lets through.
Allowed == Bytes \ Separators

LEMMA Digits ==
  ASSUME NEW n \in 0..15
  PROVE  HexDigit(n) \in Allowed /\ HexValue(HexDigit(n)) = n
<1>1. CASE n < 10
  <2>1. HexDigit(n) = 48 + n /\ 48 + n \in 48..57
    BY <1>1 DEF HexDigit
  <2>. QED
    BY <2>1 DEF HexValue, Allowed, Separators, Bytes
<1>2. CASE ~(n < 10)
  <2>1. HexDigit(n) = 55 + n /\ 55 + n \in 65..70 /\ 55 + n \notin 48..57
    BY <1>2 DEF HexDigit
  <2>. QED
    BY <2>1 DEF HexValue, Allowed, Separators, Bytes
<1>. QED
  BY <1>1, <1>2

\* The two digits of a byte are read as this byte.
LEMMA EscapeOfByte ==
  ASSUME NEW b \in Bytes
  PROVE  /\ Escaped(b) \in Seq(Allowed)
         /\ isMarkerValueSafe(b) => Escaped(b) = <<b>> /\ b # Percent
         /\ ~isMarkerValueSafe(b) =>
              /\ Len(Escaped(b)) = 3 /\ Escaped(b)[1] = Percent
              /\ HexValue(Escaped(b)[2]) >= 0 /\ HexValue(Escaped(b)[3]) >= 0
              /\ 16 * HexValue(Escaped(b)[2]) + HexValue(Escaped(b)[3]) = b
<1>1. CASE isMarkerValueSafe(b)
  <2>1. Escaped(b) = <<b>>
    BY <1>1 DEF Escaped
  <2>2. b \in Allowed /\ b # Percent
    BY <1>1 DEF isMarkerValueSafe, Allowed, Separators, Bytes, Percent
  <2>. QED
    BY <1>1, <2>1, <2>2
<1>2. CASE ~isMarkerValueSafe(b)
  <2>. PICK hi, lo : hi = b \div 16 /\ lo = b % 16
    OBVIOUS
  <2>1. hi \in 0..15 /\ lo \in 0..15 /\ hi >= 0 /\ lo >= 0 /\ 16 * hi + lo = b
    BY DEF Bytes
  <2>2. Escaped(b) = <<Percent, HexDigit(hi), HexDigit(lo)>>
    BY <1>2 DEF Escaped
  <2>3. /\ HexDigit(hi) \in Allowed /\ HexValue(HexDigit(hi)) = hi
        /\ HexDigit(lo) \in Allowed /\ HexValue(HexDigit(lo)) = lo
    BY <2>1, Digits
  <2>4. Percent \in Allowed
    BY DEF Percent, Allowed, Separators, Bytes
  <2>. PICK dh, dl : dh = HexDigit(hi) /\ dl = HexDigit(lo)
    OBVIOUS
  <2>5. Escaped(b) = <<Percent, dh, dl>>
    BY <2>2
  <2>6. Escaped(b) \in Seq(Allowed) /\ Len(Escaped(b)) = 3
        /\ Escaped(b)[1] = Percent /\ Escaped(b)[2] = dh /\ Escaped(b)[3] = dl
    BY <2>3, <2>4, <2>5
  <2>7. HexValue(dh) = hi /\ HexValue(dl) = lo
    BY <2>3
  <2>8. HexValue(Escaped(b)[2]) = hi /\ HexValue(Escaped(b)[3]) = lo
    BY <2>6, <2>7
  <2>. QED
    BY <1>2, <2>1, <2>6, <2>8
<1>. QED
  BY <1>1, <1>2

\* value is x with its bytes escaped: byte k is behind offset at[k - 1].
Written(at, x, value) ==
  /\ at \in [0..Len(x) -> Nat] /\ at[0] = 0 /\ at[Len(x)] = Len(value)
  /\ \A k \in 1..Len(x) :
       \/ /\ at[k] = at[k - 1] + 1
          /\ value[at[k - 1] + 1] = x[k] /\ x[k] # Percent
       \/ /\ at[k] = at[k - 1] + 3
          /\ value[at[k - 1] + 1] = Percent
          /\ HexValue(value[at[k - 1] + 2]) >= 0 /\ HexValue(value[at[k - 1] + 3]) >= 0
          /\ 16 * HexValue(value[at[k - 1] + 2]) + HexValue(value[at[k - 1] + 3]) = x[k]

LEMMA EscapeLayout ==
  ASSUME NEW x \in Seq(Bytes)
  PROVE  /\ escapeMarkerValue(x) \in Seq(Allowed)
         /\ \E at : Written(at, x, escapeMarkerValue(x))
<1>. DEFINE n == Len(x)
            parts == [i \in 1..n |-> Escaped(x[i])]
<1>1. n \in Nat /\ DOMAIN x = 1..n
  OBVIOUS
<1>2. escapeMarkerValue(x) = FlattenSeq(parts)
  BY <1>1 DEF escapeMarkerValue, Escaped
<1>3. \A i \in 1..n : x[i] \in Bytes /\ parts[i] = Escaped(x[i])
  OBVIOUS
<1>4. parts \in [1..n -> Seq(Allowed)]
  BY <1>3, EscapeOfByte
<1>. HIDE DEF parts
<1>5. FlattenSeq(parts) \in Seq(Allowed) /\ \E at : Offsets(at, parts, n, FlattenSeq(parts))
  BY <1>1, <1>4, FlattenOffsets
<1>. PICK value : value = FlattenSeq(parts)
  OBVIOUS
<1>6. PICK at : Offsets(at, parts, n, value)
  BY <1>5
<1>7. ASSUME NEW k \in 1..n
      PROVE  \/ /\ at[k] = at[k - 1] + 1
                /\ value[at[k - 1] + 1] = x[k] /\ x[k] # Percent
             \/ /\ at[k] = at[k - 1] + 3
                /\ value[at[k - 1] + 1] = Percent
                /\ HexValue(value[at[k - 1] + 2]) >= 0 /\ HexValue(value[at[k - 1] + 3]) >= 0
                /\ 16 * HexValue(value[at[k - 1] + 2]) + HexValue(value[at[k - 1] + 3]) = x[k]
  <2>. PICK b, part : b = x[k] /\ part = Escaped(x[k])
    OBVIOUS
  <2>1. b \in Bytes /\ part = parts[k]
    BY <1>3
  <2>2. at[k] = at[k - 1] + Len(part) /\ \A j \in 1..Len(part) : value[at[k - 1] + j] = part[j]
    BY <1>6, <2>1 DEF Offsets
  <2>3. CASE isMarkerValueSafe(b)
    <3>1. Len(part) = 1 /\ part[1] = b /\ b # Percent /\ 1 \in 1..Len(part)
      <4>1. part = <<b>> /\ b # Percent
        BY <2>1, <2>3, EscapeOfByte
      <4>. QED
        BY <4>1
    <3>. QED
      BY <2>2, <3>1
  <2>4. CASE ~isMarkerValueSafe(b)
    <3>1. /\ Len(part) = 3 /\ part[1] = Percent
          /\ HexValue(part[2]) >= 0 /\ HexValue(part[3]) >= 0
          /\ 16 * HexValue(part[2]) + HexValue(part[3]) = b
      BY <2>1, <2>4, EscapeOfByte
    <3>2. 1 \in 1..Len(part) /\ 2 \in 1..Len(part) /\ 3 \in 1..Len(part)
      BY <3>1
    <3>. QED
      BY <2>2, <3>1, <3>2
  <2>. QED
    BY <2>3, <2>4
<1>8. Written(at, x, value)
  BY <1>6, <1>7 DEF Written, Offsets
<1>. QED
  BY <1>2, <1>5, <1>8

\* Byte k begins behind p and ends with q.
LEMMA WrittenByte ==
  ASSUME NEW at, NEW x, NEW value, Written(at, x, value), NEW k \in 1..Len(x),
         NEW p, p = at[k - 1]
  PROVE  \/ at[k] = p + 1 /\ value[p + 1] = x[k] /\ x[k] # Percent
         \/ /\ at[k] = p + 3 /\ value[p + 1] = Percent
            /\ HexValue(value[p + 2]) >= 0 /\ HexValue(value[p + 3]) >= 0
            /\ 16 * HexValue(value[p + 2]) + HexValue(value[p + 3]) = x[k]
<1>1. \A i \in 1..Len(x) :
         \/ /\ at[i] = at[i - 1] + 1
            /\ value[at[i - 1] + 1] = x[i] /\ x[i] # Percent
         \/ /\ at[i] = at[i - 1] + 3
            /\ value[at[i - 1] + 1] = Percent
            /\ HexValue(value[at[i - 1] + 2]) >= 0 /\ HexValue(value[at[i - 1] + 3]) >= 0
            /\ 16 * HexValue(value[at[i - 1] + 2]) + HexValue(value[at[i - 1] + 3]) = x[i]
  BY DEF Written
<1>. QED
  BY <1>1, Zenon

LEMMA WrittenWithin ==
  ASSUME NEW x \in Seq(Bytes), NEW S, NEW value \in Seq(S), NEW at, Written(at, x, value)
  PROVE  \A k \in 0..Len(x) : at[k] <= Len(value)
<1>. DEFINE n == Len(x)
            Good == {d \in 0..n : at[n - d] <= Len(value)}
<1>0. n \in Nat /\ Len(value) \in Nat /\ at[n] = Len(value) /\ at \in [0..n -> Nat]
  BY DEF Written
<1>. HIDE DEF n
<1>1. 0 \in Good
  BY <1>0
<1>2. ASSUME NEW d \in 0..(n - 1), d \in Good
      PROVE  d + 1 \in Good
  <2>1. n - d \in 1..n /\ (n - d) - 1 = n - (d + 1) /\ d + 1 \in 0..n
    BY <1>0
  <2>2. at[n - d] = at[n - (d + 1)] + 1 \/ at[n - d] = at[n - (d + 1)] + 3
    BY <2>1 DEF Written, n
  <2>3. n - d \in 0..n /\ n - (d + 1) \in 0..n
    BY <1>0
  <2>4. at[n - d] \in Nat /\ at[n - (d + 1)] \in Nat
    BY <1>0, <2>3
  <2>5. at[n - (d + 1)] <= Len(value)
    BY <1>0, <1>2, <2>2, <2>4
  <2>. QED
    BY <2>1, <2>5
<1>. HIDE DEF Good
<1>3. 0..n \subseteq Good
  BY <1>0, <1>1, <1>2, Climb
<1>4. ASSUME NEW k \in 0..n PROVE at[k] <= Len(value)
  <2>1. n - k \in 0..n /\ n - (n - k) = k
    BY <1>0
  <2>. QED
    BY <1>3, <2>1 DEF Good
<1>. QED
  BY <1>4 DEF n

\* unescapeMarkerValue's scan stops where escapeMarkerValue began a byte, nowhere else.
LEMMA WrittenScanned ==
  ASSUME NEW x \in Seq(Bytes), NEW S, NEW value \in Seq(S), NEW at, Written(at, x, value)
  PROVE  \A k \in 0..Len(x) : Scanned(value, at[k])
<1>. DEFINE n == Len(x)
            Good == {k \in 0..n : Scanned(value, at[k])}
<1>0. n \in Nat /\ Len(value) \in Nat /\ at[0] = 0 /\ at \in [0..n -> Nat]
      /\ \A k \in 0..n : at[k] <= Len(value)
  <2>1. n \in Nat /\ Len(value) \in Nat /\ at[0] = 0 /\ at \in [0..n -> Nat]
    BY DEF Written
  <2>2. \A k \in 0..n : at[k] <= Len(value)
    BY WrittenWithin
  <2>. QED
    BY <2>1, <2>2
<1>1. 0 \in Good
  <2>1. 0 \in 0..n
    BY <1>0
  <2>2. Scanned(value, 0)
    <3>1. 0 < Len(value) => ScanReaches(value)[0 + 1]
      <4>. SUFFICES ASSUME 0 < Len(value) PROVE ScanReaches(value)[1]
        OBVIOUS
      <4>1. 1 \in 1..Len(value)
        BY <1>0
      <4>2. ScanReaches(value)[1] = Reaches(ScanReaches(value), value, 1)
        BY <4>1, ScanProperties
      <4>. QED
        BY <4>2 DEF Reaches
    <3>. QED
      BY <3>1 DEF Scanned
  <2>. QED
    BY <1>0, <2>1, <2>2
<1>. HIDE DEF n
<1>2. ASSUME NEW k \in 0..(n - 1), k \in Good
      PROVE  k + 1 \in Good
  <2>1. k + 1 \in 1..n /\ (k + 1) - 1 = k /\ k + 1 \in 0..n /\ k \in 0..n
    BY <1>0
  <2>. PICK next : next = k + 1
    OBVIOUS
  <2>. PICK p, q : p = at[k] /\ q = at[next]
    OBVIOUS
  <2>2. p \in Nat /\ q \in Nat /\ q <= Len(value)
    BY <1>0, <2>1
  <2>3. Scanned(value, p)
    BY <1>2
  <2>4. \/ q = p + 1 /\ value[p + 1] # Percent
        \/ /\ q = p + 3 /\ value[p + 1] = Percent
           /\ HexValue(value[p + 2]) >= 0 /\ HexValue(value[p + 3]) >= 0
    <3>1. next \in 1..Len(x) /\ at[next - 1] = p
      BY <2>1 DEF n
    <3>. QED
      BY <3>1, WrittenByte
  <2>5. CASE q = p + 1 /\ value[p + 1] # Percent
    BY <2>1, <2>2, <2>3, <2>5, ScanPlain
  <2>6. CASE /\ q = p + 3 /\ value[p + 1] = Percent
             /\ HexValue(value[p + 2]) >= 0 /\ HexValue(value[p + 3]) >= 0
    BY <2>1, <2>2, <2>3, <2>6, ScanEscape
  <2>. QED
    BY <2>4, <2>5, <2>6
<1>. HIDE DEF Good
<1>3. 0..n \subseteq Good
  BY <1>0, <1>1, <1>2, Climb
<1>. QED
  BY <1>3 DEF Good, n

\* It finds no broken escape.
LEMMA WrittenUnescapable ==
  ASSUME NEW x \in Seq(Bytes), NEW S, NEW value \in Seq(S), NEW at, Written(at, x, value)
  PROVE  Unescapable(value)
<1>1. Len(x) \in 0..Len(x) /\ at[Len(x)] = Len(value) /\ DOMAIN value = 1..Len(value)
  BY DEF Written
<1>2. Scanned(value, Len(value))
  BY <1>1, WrittenScanned
<1>. QED
  BY <1>1, <1>2 DEF Scanned, Unescapable

\* What unescapeMarkerValue makes of position i.
Read(value, i) ==
  IF ~ScanReaches(value)[i] THEN <<>>
  ELSE IF value[i] # Percent THEN <<value[i]>>
  ELSE <<16 * HexValue(value[i + 1]) + HexValue(value[i + 2])>>

\* The part of byte k gives byte k.
LEMMA ReadPlain ==
  ASSUME NEW S, NEW value \in Seq(S), NEW p \in Nat, p + 1 <= Len(value),
         Scanned(value, p), value[p + 1] # Percent
  PROVE  Read(value, p + 1) = <<value[p + 1]>>
<1>1. p < Len(value)
  <2>1. Len(value) \in Nat
    OBVIOUS
  <2>. QED
    BY <2>1
<1>2. ScanReaches(value)[p + 1]
  BY <1>1 DEF Scanned
<1>. QED
  BY <1>2 DEF Read

LEMMA ReadEscape ==
  ASSUME NEW S, NEW value \in Seq(S), NEW p \in Nat, p + 3 <= Len(value),
         Scanned(value, p), value[p + 1] = Percent,
         HexValue(value[p + 2]) >= 0, HexValue(value[p + 3]) >= 0
  PROVE  /\ Read(value, p + 1) = <<16 * HexValue(value[p + 2]) + HexValue(value[p + 3])>>
         /\ Read(value, p + 2) = <<>> /\ Read(value, p + 3) = <<>>
<1>1. /\ ScanReaches(value)[p + 1]
      /\ ~ScanReaches(value)[p + 2] /\ ~ScanReaches(value)[p + 3]
  BY ScanEscape
<1>2. (p + 1) + 1 = p + 2 /\ (p + 1) + 2 = p + 3
  OBVIOUS
<1>. QED
  BY <1>1, <1>2 DEF Read

\* Every value is read back as it was escaped.
LEMMA WrittenIsRead ==
  ASSUME NEW x \in Seq(Bytes), NEW S, NEW value \in Seq(S), NEW at, Written(at, x, value)
  PROVE  unescapeMarkerValue(value) = x
<1>. DEFINE n == Len(x)
            N == Len(value)
            parts == [i \in 1..N |-> Read(value, i)]
            T == {value[i] : i \in 1..N}
                   \cup {16 * HexValue(value[i + 1]) + HexValue(value[i + 2]) : i \in 1..N}
<1>0. n \in Nat /\ N \in Nat /\ DOMAIN value = 1..N
      /\ at \in [0..n -> Nat] /\ at[0] = 0 /\ at[n] = N
  BY DEF Written
<1>1. \A k \in 0..n : at[k] <= N
  BY WrittenWithin
<1>2. \A k \in 0..n : Scanned(value, at[k])
  BY WrittenScanned
<1>3. unescapeMarkerValue(value) = FlattenSeq(parts)
  BY <1>0 DEF unescapeMarkerValue, Read
<1>4. parts \in [1..N -> Seq(T)]
  <2>1. ASSUME NEW i \in 1..N PROVE Read(value, i) \in Seq(T)
    <3>. PICK a, b : a = value[i] /\ b = 16 * HexValue(value[i + 1]) + HexValue(value[i + 2])
      OBVIOUS
    <3>1. a \in T /\ b \in T
      OBVIOUS
    <3>2. Read(value, i) \in {<<>>, <<a>>, <<b>>}
      BY DEF Read
    <3>. HIDE DEF T
    <3>3. <<>> \in Seq(T) /\ <<a>> \in Seq(T) /\ <<b>> \in Seq(T)
      BY <3>1
    <3>. QED
      BY <3>2, <3>3
  <2>. QED
    BY <2>1
<1>5. \A i \in 1..N : parts[i] = Read(value, i)
  OBVIOUS
<1>. HIDE DEF n, N, parts, T
<1>. PICK out : out = FlattenSeq(parts)
  OBVIOUS
<1>6. out \in Seq(T) /\ \E u : Offsets(u, parts, N, out)
  BY <1>0, <1>4, FlattenOffsets
<1>7. PICK u : Offsets(u, parts, N, out)
  BY <1>6
<1>8. u \in [0..N -> Nat] /\ u[0] = 0 /\ u[N] = Len(out)
  BY <1>7 DEF Offsets
\* One position further.
<1>9. ASSUME NEW p \in Nat, p + 1 <= N
      PROVE  /\ u[p + 1] = u[p] + Len(Read(value, p + 1))
             /\ \A j \in 1..Len(Read(value, p + 1)) : out[u[p] + j] = Read(value, p + 1)[j]
  <2>. PICK i : i = p + 1
    OBVIOUS
  <2>1. i \in 1..N /\ i - 1 = p
    BY <1>0, <1>9
  <2>2. /\ u[i] = u[i - 1] + Len(parts[i])
        /\ \A j \in 1..Len(parts[i]) : out[u[i - 1] + j] = parts[i][j]
    BY <1>7, <2>1 DEF Offsets
  <2>. QED
    BY <1>5, <2>1, <2>2
<1>10. ASSUME NEW p \in Nat, p + 1 <= N, NEW b, Read(value, p + 1) = <<b>>
       PROVE  u[p + 1] = u[p] + 1 /\ out[u[p] + 1] = b
  <2>1. Len(<<b>>) = 1 /\ <<b>>[1] = b /\ 1 \in 1..Len(<<b>>)
    OBVIOUS
  <2>. QED
    BY <1>9, <1>10, <2>1
<1>11. ASSUME NEW p \in Nat, p + 1 <= N, Read(value, p + 1) = <<>>
       PROVE  u[p + 1] = u[p]
  <2>1. u[p + 1] = u[p] + 0
    BY <1>9, <1>11
  <2>2. p \in 0..N
    BY <1>0, <1>11
  <2>. QED
    BY <1>8, <2>1, <2>2
<1>. DEFINE Good == {k \in 0..n : u[at[k]] = k /\ \A m \in 1..k : out[m] = x[m]}
<1>12. 0 \in Good
  BY <1>0, <1>8
<1>13. ASSUME NEW k \in 0..(n - 1), k \in Good
       PROVE  k + 1 \in Good
  <2>. PICK next : next = k + 1
    OBVIOUS
  <2>1. next \in 1..n /\ next - 1 = k /\ next \in 0..n /\ k \in 0..n
    BY <1>0
  <2>. PICK p, q : p = at[k] /\ q = at[next]
    OBVIOUS
  <2>2. p \in Nat /\ q \in Nat /\ q <= N
    BY <1>0, <1>1, <2>1
  <2>3. Scanned(value, p) /\ u[p] = k /\ \A m \in 1..k : out[m] = x[m]
    BY <1>2, <1>13, <2>1
  <2>4. \/ q = p + 1 /\ value[p + 1] = x[next] /\ x[next] # Percent
        \/ /\ q = p + 3 /\ value[p + 1] = Percent
           /\ HexValue(value[p + 2]) >= 0 /\ HexValue(value[p + 3]) >= 0
           /\ 16 * HexValue(value[p + 2]) + HexValue(value[p + 3]) = x[next]
    <3>1. next \in 1..Len(x) /\ p = at[next - 1]
      BY <2>1 DEF n
    <3>. QED
      BY <3>1, WrittenByte
  <2>5. u[q] = u[p] + 1 /\ out[u[p] + 1] = x[next]
    <3>1. CASE q = p + 1 /\ value[p + 1] = x[next] /\ x[next] # Percent
      <4>1. Read(value, p + 1) = <<x[next]>>
        BY <2>2, <2>3, <3>1, ReadPlain DEF N
      <4>. QED
        BY <1>10, <2>2, <3>1, <4>1
    <3>2. CASE /\ q = p + 3 /\ value[p + 1] = Percent
               /\ HexValue(value[p + 2]) >= 0 /\ HexValue(value[p + 3]) >= 0
               /\ 16 * HexValue(value[p + 2]) + HexValue(value[p + 3]) = x[next]
      <4>1. /\ Read(value, p + 1) = <<x[next]>>
            /\ Read(value, p + 2) = <<>> /\ Read(value, p + 3) = <<>>
        BY <2>2, <2>3, <3>2, ReadEscape DEF N
      <4>2. /\ p + 1 \in Nat /\ p + 2 \in Nat /\ p + 1 <= N /\ p + 2 <= N /\ p + 3 <= N
            /\ (p + 1) + 1 = p + 2 /\ (p + 2) + 1 = p + 3
        <5>1. q = p + 3
          BY <3>2
        <5>. QED
          BY <1>0, <2>2, <5>1
      <4>3. u[p + 1] = u[p] + 1 /\ out[u[p] + 1] = x[next]
        BY <1>10, <2>2, <4>1, <4>2
      <4>4. u[p + 2] = u[p + 1] /\ u[p + 3] = u[p + 2]
        BY <1>11, <4>1, <4>2
      <4>. QED
        BY <3>2, <4>3, <4>4
    <3>. QED
      BY <2>4, <3>1, <3>2
  <2>6. u[q] = next /\ out[next] = x[next]
    BY <2>3, <2>5
  <2>7. ASSUME NEW m \in 1..next PROVE out[m] = x[m]
    <3>1. m = next \/ m \in 1..k
      BY <2>1
    <3>. QED
      BY <2>3, <2>6, <3>1
  <2>. QED
    BY <2>1, <2>6, <2>7
<1>. HIDE DEF Good
<1>14. 0..n \subseteq Good
  BY <1>0, <1>12, <1>13, Climb
<1>15. n \in Good
  BY <1>0, <1>14
<1>16. Len(out) = n /\ \A m \in 1..n : out[m] = x[m]
  BY <1>0, <1>8, <1>15 DEF Good
<1>17. out = x
  BY <1>6, <1>16 DEF n
<1>. QED
  BY <1>3, <1>17

\* The round trip of an owner id: any bytes, commas, spaces and percent signs included,
\* come back from the marker, which the pattern recognises.
THEOREM EscapesAreUndone ==
  ASSUME NEW x \in Seq(Bytes), x # <<>>
  PROVE  /\ ValueMatches(escapeMarkerValue(x))
         /\ Unescapable(escapeMarkerValue(x))
         /\ unescapeMarkerValue(escapeMarkerValue(x)) = x
<1>. PICK value : value = escapeMarkerValue(x)
  OBVIOUS
<1>1. value \in Seq(Allowed) /\ \E at : Written(at, x, value)
  BY EscapeLayout
<1>2. PICK at : Written(at, x, value)
  BY <1>1
<1>3. Unescapable(value) /\ unescapeMarkerValue(value) = x
  BY <1>1, <1>2, WrittenUnescapable, WrittenIsRead
<1>4. value # <<>>
  <2>1. Len(x) \in Nat /\ Len(x) # 0
    OBVIOUS
  <2>2. at[1] <= Len(value)
    BY <1>1, <1>2, <2>1, WrittenWithin
  <2>3. at[1] = 0 + 1 \/ at[1] = 0 + 3
    <3>1. 1 \in 1..Len(x) /\ at[1 - 1] = 0
      BY <1>2, <2>1 DEF Written
    <3>. QED
      BY <1>2, <3>1, WrittenByte
  <2>. QED
    BY <2>2, <2>3
<1>5. \A i \in DOMAIN value : value[i] \notin Separators
  BY <1>1 DEF Allowed
<1>. QED
  BY <1>3, <1>4, <1>5 DEF ValueMatches

------------------------------------------------------------------------------
(***************************************************************************)
(* Lists that grow.                                                        *)
(***************************************************************************)

\* There is one way to join a list.
LEMMA JoinsAgree ==
  ASSUME NEW n \in Nat, NEW a, NEW f, NEW g, Joins(f, a, n), Joins(g, a, n)
  PROVE  \A k \in 1..n : f[k] = g[k]
<1>. DEFINE Good == {k \in 0..n : k > 0 => f[k] = g[k]}
<1>1. 0 \in Good
  OBVIOUS
<1>2. ASSUME NEW k \in 0..(n - 1), k \in Good
      PROVE  k + 1 \in Good
  <2>1. CASE k = 0
    BY <2>1 DEF Joins
  <2>2. CASE k # 0
    <3>1. k + 1 \in 2..n /\ (k + 1) - 1 = k /\ k + 1 \in 1..n /\ k + 1 \in 0..n /\ k > 0
      BY <2>2
    <3>2. f[k + 1] = f[k] \o a[k + 1] /\ g[k + 1] = g[k] \o a[k + 1]
      BY <3>1 DEF Joins
    <3>. QED
      BY <1>2, <3>1, <3>2
  <2>. QED
    BY <2>1, <2>2
<1>. HIDE DEF Good
<1>3. 0..n \subseteq Good
  BY <1>1, <1>2, Climb
<1>. QED
  BY <1>3 DEF Good

\* One more sequence is put at the end.
LEMMA FlattenAppend ==
  ASSUME NEW S, NEW n \in Nat, NEW seqs \in [1..n -> Seq(S)],
         NEW more \in [1..(n + 1) -> Seq(S)], \A i \in 1..n : more[i] = seqs[i]
  PROVE  FlattenSeq(more) = FlattenSeq(seqs) \o more[n + 1]
<1>0. n + 1 \in Nat /\ n + 1 > 0 /\ n + 1 \in 1..(n + 1)
  OBVIOUS
<1>. PICK q : q \in Seq(S) /\ q = more[n + 1]
  BY <1>0
<1>1. PICK f \in [1..(n + 1) -> Seq(S)] : Joins(f, more, n + 1) /\ FlattenSeq(more) = f[n + 1]
  BY <1>0, FlattenJoins
<1>2. CASE n = 0
  <2>1. seqs = <<>> /\ Len(seqs) = 0
    BY <1>2
  <2>2. FlattenSeq(seqs) = <<>>
    BY <2>1 DEF FlattenSeq
  <2>3. f[n + 1] = q
    BY <1>1, <1>2 DEF Joins
  <2>4. <<>> \o q = q
    OBVIOUS
  <2>. QED
    BY <1>1, <2>2, <2>3, <2>4
<1>3. CASE n > 0
  <2>1. PICK g \in [1..n -> Seq(S)] : Joins(g, seqs, n) /\ FlattenSeq(seqs) = g[n]
    BY <1>3, FlattenJoins
  <2>2. Joins(f, seqs, n)
    <3>1. 1 \in 1..n /\ f[1] = more[1]
      BY <1>1, <1>3 DEF Joins
    <3>2. ASSUME NEW i \in 2..n PROVE f[i] = f[i - 1] \o seqs[i]
      <4>1. i \in 2..(n + 1) /\ i \in 1..n
        OBVIOUS
      <4>2. f[i] = f[i - 1] \o more[i]
        BY <1>1, <4>1 DEF Joins
      <4>. QED
        BY <4>1, <4>2
    <3>. QED
      BY <3>1, <3>2 DEF Joins
  <2>3. n \in 1..n /\ n + 1 \in 2..(n + 1) /\ (n + 1) - 1 = n
    BY <1>3
  <2>4. f[n] = g[n]
    <3>. PICK u, v, list : u = f /\ v = g /\ list = seqs
      OBVIOUS
    <3>1. Joins(u, list, n) /\ Joins(v, list, n)
      BY <2>1, <2>2
    <3>2. \A k \in 1..n : u[k] = v[k]
      BY ONLY n \in Nat, <3>1, JoinsAgree
    <3>. QED
      BY <2>3, <3>2
  <2>5. f[n + 1] = f[n] \o q
    BY <1>1, <2>3 DEF Joins
  <2>. QED
    BY <1>1, <2>1, <2>4, <2>5
<1>. QED
  BY <1>2, <1>3

------------------------------------------------------------------------------
(***************************************************************************)
(* Markers in memos.                                                       *)
(***************************************************************************)

LEMMA MemoIsSequence ==
  ASSUME NEW memo, IsMemo(memo)
  PROVE  /\ memo \in Seq({memo[i] : i \in 1..Len(memo)}) /\ Len(memo) \in Nat
         /\ DOMAIN memo = 1..Len(memo)
         /\ \A i \in 1..Len(memo) : IsToken(memo[i])
<1>. DEFINE n == Len(memo)
            S == {memo[i] : i \in 1..n}
<1>1. n \in Nat /\ memo = [i \in 1..n |-> memo[i]]
  BY DEF IsMemo
<1>2. \A i \in 1..n : memo[i] \in S
  OBVIOUS
<1>3. \A i \in 1..n : IsToken(memo[i])
  BY DEF IsMemo, IsToken
<1>. HIDE DEF n, S
<1>4. DOMAIN memo = 1..n
  BY <1>1
<1>5. memo \in [1..n -> S]
  BY <1>1, <1>2
<1>6. memo \in Seq(S)
  BY <1>1, <1>5
<1>. QED
  BY <1>1, <1>3, <1>4, <1>6 DEF n, S

LEMMA SequenceIsMemo ==
  ASSUME NEW S, NEW memo \in Seq(S), \A t \in S : IsToken(t)
  PROVE  IsMemo(memo)
<1>1. Len(memo) \in Nat /\ memo = [i \in 1..Len(memo) |-> memo[i]]
  OBVIOUS
<1>2. \A i \in 1..Len(memo) : memo[i] \in S
  OBVIOUS
<1>. QED
  BY <1>1, <1>2 DEF IsMemo, IsToken

\* RemoveMarker leaves tokens that belonged to no match.
LEMMA RemovedAreMatched ==
  ASSUME NEW memo, IsMemo(memo)
  PROVE  RemoveMarker(memo) \in
           Seq({memo[i] : i \in {i \in 1..Len(memo) : ~Matched(memo, i)}})
<1>. DEFINE n == Len(memo)
            S == {memo[i] : i \in {i \in 1..n : ~Matched(memo, i)}}
            parts == [i \in 1..n |-> IF Matched(memo, i) THEN <<>> ELSE <<memo[i]>>]
<1>1. n \in Nat /\ DOMAIN memo = 1..n
  BY MemoIsSequence
<1>2. RemoveMarker(memo) = FlattenSeq(parts)
  BY <1>1 DEF RemoveMarker
<1>3. ASSUME NEW i \in 1..n
      PROVE  (IF Matched(memo, i) THEN <<>> ELSE <<memo[i]>>) \in Seq(S)
  <2>1. CASE Matched(memo, i)
    BY <2>1
  <2>2. CASE ~Matched(memo, i)
    <3>1. memo[i] \in S
      BY <2>2
    <3>. HIDE DEF S
    <3>2. <<memo[i]>> \in Seq(S)
      BY <3>1
    <3>. QED
      BY <2>2, <3>2
  <2>. QED
    BY <2>1, <2>2
<1>. HIDE DEF S
<1>4. parts \in [1..n -> Seq(S)]
  BY <1>3
<1>. HIDE DEF parts
<1>5. FlattenSeq(parts) \in Seq(S)
  BY <1>1, <1>4, FlattenOffsets
<1>. QED
  BY <1>2, <1>5 DEF S

LEMMA TokenFields ==
  ASSUME NEW kind, NEW resource, NEW owner, NEW hash, NEW t, t = Token(kind, resource, owner, hash)
  PROVE  /\ t.kind = kind /\ t.resource = resource /\ t.owner = owner /\ t.hash = hash
         /\ IsToken(t)
  BY DEF Token, IsToken

LEMMA NewLineToken == IsToken(NewLine) /\ NewLine.kind = "newline"
  BY DEF NewLine, Token, IsToken

\* A tail belongs to a match only together with its head.
LEMMA TailNeedsHead ==
  ASSUME NEW memo, NEW i \in 1..Len(memo), Len(memo) \in Nat, IsToken(memo[i]),
         Matched(memo, i), memo[i].kind = "tail"
  PROVE  i > 1 /\ memo[i - 1].kind = "head" /\ Matched(memo, i - 1)
<1>1. ValueMatches(memo[i].owner) /\ i > 1 /\ memo[i - 1] = [memo[i] EXCEPT !.kind = "head"]
  BY DEF Matched
<1>. PICK t, h : t = memo[i] /\ h = memo[i - 1]
  OBVIOUS
<1>2. t = Token("tail", t.resource, t.owner, t.hash) /\ h = [t EXCEPT !.kind = "head"]
  BY <1>1 DEF IsToken
<1>3. h = Token("head", t.resource, t.owner, t.hash)
  BY <1>2 DEF Token
<1>4. h.kind = "head" /\ h.owner = t.owner /\ t = [h EXCEPT !.kind = "tail"]
  BY <1>2, <1>3 DEF Token
<1>5. i - 1 < Len(memo) /\ (i - 1) + 1 = i
  OBVIOUS
<1>6. Matched(memo, i - 1)
  BY <1>1, <1>4, <1>5 DEF Matched
<1>. QED
  BY <1>1, <1>4, <1>6

\* ApplyMarker's memo: tokens that belonged to no match, perhaps a newline, the marker.
LEMMA AppliedLayout ==
  ASSUME NEW memo, IsMemo(memo), NEW marker, NEW new, new = ApplyMarker(memo, marker)
  PROVE  /\ IsMemo(new) /\ Len(new) > 0
         /\ new[Len(new)] = BuildMarker(marker)
         /\ \A j \in 1..(Len(new) - 1) :
              \/ new[j] = NewLine
              \/ \E i \in 1..Len(memo) : new[j] = memo[i] /\ ~Matched(memo, i)
<1>. DEFINE S == {memo[i] : i \in {i \in 1..Len(memo) : ~Matched(memo, i)}}
            T == S \cup {NewLine, BuildMarker(marker)}
<1>1. \A t \in T : IsToken(t)
  <2>1. IsToken(NewLine) /\ IsToken(BuildMarker(marker))
    <3>1. BuildMarker(marker)
            = Token("marker", marker.resource, escapeMarkerValue(marker.owner), marker.hash)
      BY DEF BuildMarker
    <3>. QED
      BY <3>1, NewLineToken, TokenFields
  <2>2. \A t \in S : IsToken(t)
    BY MemoIsSequence
  <2>. QED
    BY <2>1, <2>2
<1>. PICK base : base = RemoveMarker(memo)
  OBVIOUS
<1>. PICK gap : gap = IF base = <<>> \/ Last(base) = NewLine THEN <<>> ELSE <<NewLine>>
  OBVIOUS
<1>. PICK last : last = BuildMarker(marker)
  OBVIOUS
<1>2. new = (base \o gap) \o <<last>>
  BY DEF ApplyMarker
<1>3. base \in Seq(S)
  BY RemovedAreMatched
<1>4. gap \in {<<>>, <<NewLine>>}
  OBVIOUS
<1>5. NewLine \in T /\ last \in T /\ S \subseteq T
  OBVIOUS
<1>6. ASSUME NEW t \in S PROVE \E i \in 1..Len(memo) : t = memo[i] /\ ~Matched(memo, i)
  OBVIOUS
<1>. HIDE DEF S, T
<1>7. base \in Seq(T) /\ gap \in Seq(T) /\ <<last>> \in Seq(T)
  BY <1>3, <1>4, <1>5
<1>. PICK front : front = base \o gap
  OBVIOUS
<1>8. /\ front \in Seq(T) /\ Len(front) = Len(base) + Len(gap)
      /\ \A j \in 1..Len(base) : front[j] = base[j]
      /\ \A j \in 1..Len(gap) : front[Len(base) + j] = gap[j]
  BY <1>7, Concatenation
<1>9. /\ new \in Seq(T) /\ Len(new) = Len(front) + 1
      /\ \A j \in 1..Len(front) : new[j] = front[j]
      /\ new[Len(front) + 1] = last
  <2>1. Len(<<last>>) = 1 /\ <<last>>[1] = last /\ 1 \in 1..Len(<<last>>)
    OBVIOUS
  <2>2. /\ new \in Seq(T) /\ Len(new) = Len(front) + Len(<<last>>)
        /\ \A j \in 1..Len(front) : new[j] = front[j]
        /\ \A j \in 1..Len(<<last>>) : new[Len(front) + j] = <<last>>[j]
    BY <1>2, <1>7, <1>8, Concatenation
  <2>. QED
    BY <2>1, <2>2
<1>10. IsMemo(new)
  BY <1>1, <1>9, SequenceIsMemo
<1>11. Len(base) \in Nat /\ Len(front) \in Nat
  BY <1>7, <1>8
<1>12. ASSUME NEW j \in 1..Len(front)
       PROVE  front[j] = NewLine \/ front[j] \in S
  <2>1. CASE j \in 1..Len(base)
    BY <1>3, <1>8, <2>1
  <2>2. CASE j \notin 1..Len(base)
    <3>1. CASE gap = <<>>
      <4>1. Len(gap) = 0
        BY <3>1
      <4>. QED
        BY <1>8, <1>11, <2>2, <4>1
    <3>2. CASE gap = <<NewLine>>
      <4>1. Len(gap) = 1 /\ gap[1] = NewLine /\ 1 \in 1..Len(gap)
        BY <3>2
      <4>2. j = Len(base) + 1
        BY <1>8, <1>11, <2>2, <4>1
      <4>. QED
        BY <1>8, <4>1, <4>2
    <3>. QED
      BY <1>4, <3>1, <3>2
  <2>. QED
    BY <2>1, <2>2
<1>13. ASSUME NEW j \in 1..(Len(new) - 1)
       PROVE  \/ new[j] = NewLine
              \/ \E i \in 1..Len(memo) : new[j] = memo[i] /\ ~Matched(memo, i)
  <2>1. j \in 1..Len(front) /\ new[j] = front[j]
    BY <1>9, <1>11
  <2>. QED
    BY <1>6, <1>12, <2>1
<1>14. Len(new) > 0 /\ new[Len(new)] = last
  BY <1>9, <1>11
<1>. QED
  BY <1>10, <1>13, <1>14

\* In front of the new marker nothing matches, except a head and a tail that have come
\* together.
LEMMA OnlyJoinedMatch ==
  ASSUME NEW memo, IsMemo(memo), NEW marker, NEW new, new = ApplyMarker(memo, marker),
         NEW j \in 1..(Len(new) - 1), Matched(new, j)
  PROVE  \E i \in 1..Len(new) : new[i].kind = "head" /\ Matched(new, i)
<1>1. /\ IsMemo(new) /\ Len(new) > 0
      /\ \A k \in 1..(Len(new) - 1) :
           \/ new[k] = NewLine
           \/ \E i \in 1..Len(memo) : new[k] = memo[i] /\ ~Matched(memo, i)
  BY AppliedLayout
<1>2. Len(new) \in Nat /\ j \in 1..Len(new) /\ IsToken(new[j])
  <2>1. Len(new) \in Nat /\ \A i \in 1..Len(new) : IsToken(new[i])
    BY <1>1, MemoIsSequence
  <2>2. j \in 1..Len(new)
    BY <2>1
  <2>. QED
    BY <2>1, <2>2
<1>3. new[j].kind \in {"marker", "head", "tail"} /\ ValueMatches(new[j].owner)
  BY DEF Matched
<1>4. new[j].kind # "marker"
  <2>1. CASE new[j] = NewLine
    BY <2>1, NewLineToken
  <2>2. CASE \E i \in 1..Len(memo) : new[j] = memo[i] /\ ~Matched(memo, i)
    BY <1>3, <2>2 DEF Matched
  <2>. QED
    BY <1>1, <2>1, <2>2
<1>5. CASE new[j].kind = "head"
  BY <1>2, <1>5
<1>6. CASE new[j].kind = "tail"
  <2>1. j > 1 /\ new[j - 1].kind = "head" /\ Matched(new, j - 1)
    BY <1>2, <1>6, TailNeedsHead
  <2>2. j - 1 \in 1..Len(new)
    BY <1>2, <2>1
  <2>. QED
    BY <2>1, <2>2
<1>. QED
  BY <1>3, <1>4, <1>5, <1>6

\* The marker that ApplyMarker puts into a memo is the one ParseMarker finds there, whatever
\* people wrote into the memo, unless a head and a tail have come together.
THEOREM AppliedMarkerIsRead ==
  ASSUME NEW memo, IsMemo(memo), NEW resource, NEW owner \in Seq(Bytes), owner # <<>>, NEW hash,
         NEW new, new = ApplyMarker(memo, [resource |-> resource, owner |-> owner, hash |-> hash])
  PROVE  \/ ParseMarker(new) = {[resource |-> resource, owner |-> owner, hash |-> hash]}
         \/ \E i \in 1..Len(new) : new[i].kind = "head" /\ Matched(new, i)
<1>. SUFFICES ASSUME ~\E i \in 1..Len(new) : new[i].kind = "head" /\ Matched(new, i)
              PROVE  ParseMarker(new) = {[resource |-> resource, owner |-> owner, hash |-> hash]}
  OBVIOUS
<1>. PICK marker : marker = [resource |-> resource, owner |-> owner, hash |-> hash]
  OBVIOUS
<1>1. IsMemo(new) /\ Len(new) > 0 /\ new[Len(new)] = BuildMarker(marker)
  BY AppliedLayout
<1>2. \A j \in 1..(Len(new) - 1) : ~Matched(new, j)
  BY OnlyJoinedMatch
<1>. PICK n : n = Len(new)
  OBVIOUS
<1>3. n \in Nat /\ n > 0 /\ DOMAIN new = 1..n
  BY <1>1, MemoIsSequence
<1>4. /\ new[n].kind = "marker" /\ new[n].resource = resource
      /\ new[n].owner = escapeMarkerValue(owner) /\ new[n].hash = hash
  <2>1. new[n] = Token("marker", resource, escapeMarkerValue(owner), hash)
    BY <1>1 DEF BuildMarker
  <2>. QED
    BY <2>1, TokenFields
<1>5. /\ ValueMatches(new[n].owner) /\ Unescapable(new[n].owner)
      /\ unescapeMarkerValue(new[n].owner) = owner
  BY <1>4, EscapesAreUndone
<1>6. Matched(new, n)
  BY <1>4, <1>5 DEF Matched
<1>7. FirstMatch(new) = {n}
  <2>1. n \in FirstMatch(new)
    BY <1>2, <1>3, <1>5, <1>6 DEF FirstMatch
  <2>2. ASSUME NEW i \in FirstMatch(new) PROVE i = n
    <3>1. i \in 1..n /\ Matched(new, i)
      BY <1>3 DEF FirstMatch
    <3>2. i \in 1..(n - 1) \/ i = n
      BY <1>3, <3>1
    <3>. QED
      BY <1>2, <3>1, <3>2
  <2>. QED
    BY <2>1, <2>2
<1>8. ParseMarker(new) = {[resource |-> new[n].resource,
                           owner |-> unescapeMarkerValue(new[n].owner), hash |-> new[n].hash]}
  BY <1>7 DEF ParseMarker
<1>. QED
  BY <1>4, <1>5, <1>8

==============================================================================
