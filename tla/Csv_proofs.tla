------------------------------ MODULE Csv_proofs ------------------------------
(***************************************************************************)
(* What Csv writes, it reads: a theorem about any texts.                   *)
(***************************************************************************)
EXTENDS Csv, SequenceTheorems, WellFoundedInduction, TLAPS

(* A set of naturals has a least element: an induction over the naturals    *)
(* looks at the least number that a statement does not hold of.             *)
LEMMA Least ==
    ASSUME NEW P \in SUBSET Nat, P # {}
    PROVE  \E n \in P : \A m \in P : n <= m
<1> DEFINE R == OpToRel(<, Nat)
<1>1. IsWellFoundedOn(R, Nat)
  BY NatLessThanWellFounded
<1>2. \A m, n \in Nat : <<m, n>> \notin R => n <= m
  BY DEF OpToRel
<1> HIDE DEF R
<1>3. PICK n \in P : \A m \in P : <<m, n>> \notin R
  BY <1>1, WFMin
<1> QED
  BY <1>2, <1>3

LEMMA ByInduction ==
    ASSUME NEW P \in SUBSET Nat, 0 \in P, \A n \in P : n + 1 \in P
    PROVE  P = Nat
<1> SUFFICES ASSUME P # Nat PROVE FALSE
  OBVIOUS
<1>1. PICK Q \in SUBSET Nat : Q = Nat \ P
  OBVIOUS
<1>2. PICK n \in Q : \A m \in Q : n <= m
  BY <1>1, Least
<1>3. n \in Nat /\ n # 0 /\ n - 1 \in Nat /\ n - 1 \notin Q
  BY <1>1, <1>2
<1>4. n - 1 \in P /\ (n - 1) + 1 = n
  BY <1>1, <1>3
<1> QED
  BY <1>1, <1>2, <1>4

-----------------------------------------------------------------------------
(* Where the parts of a flattened sequence are in it.                       *)
Flattens(seqs, n, it) ==
    it = [i \in 1..n |-> IF i = 1 THEN seqs[i] ELSE it[i - 1] \o seqs[i]]

LEMMA FlattenIs ==
    ASSUME NEW seqs, Len(seqs) \in Nat \ {0}
    PROVE  FlattenSeq(seqs) = (CHOOSE it : Flattens(seqs, Len(seqs), it))[Len(seqs)]
  BY DEF FlattenSeq, Flattens

LEMMA FlattensExists ==
    ASSUME NEW seqs
    PROVE  \A n \in Nat : \E it : Flattens(seqs, n, it)
<1> DEFINE P == {n \in Nat : \E it : Flattens(seqs, n, it)}
<1>1. 0 \in P
  <2>1. Flattens(seqs, 0, [i \in 1..0 |-> 0])
    <3>1. 1..0 = {}
      OBVIOUS
    <3> QED
      BY <3>1 DEF Flattens
  <2> QED
    BY <2>1
<1>2. ASSUME NEW n \in P PROVE n + 1 \in P
  <2>1. PICK a : Flattens(seqs, n, a)
    OBVIOUS
  <2> DEFINE b == [i \in 1..n + 1 |-> IF i <= n THEN a[i] ELSE IF i = 1 THEN seqs[i] ELSE a[i - 1] \o seqs[i]]
  <2>2. n \in Nat /\ n + 1 \in Nat
    OBVIOUS
  <2>3. \A i \in 1..n : a[i] = IF i = 1 THEN seqs[i] ELSE a[i - 1] \o seqs[i]
    BY <2>1 DEF Flattens
  <2>4. \A i \in 1..n + 1 : b[i] = IF i = 1 THEN seqs[i] ELSE b[i - 1] \o seqs[i]
    <3> TAKE i \in 1..n + 1
    <3>1. i # 1 => i - 1 \in 1..n
      BY <2>2
    <3>2. i # 1 => b[i - 1] = a[i - 1]
      BY <2>2, <3>1
    <3>3. CASE i <= n
      <4>1. b[i] = a[i] /\ i \in 1..n
        BY <2>2, <3>3
      <4> QED
        BY <2>3, <3>2, <4>1
    <3>4. CASE ~(i <= n)
      BY <3>2, <3>4
    <3> QED
      BY <3>3, <3>4
  <2>5. b = [i \in 1..n + 1 |-> IF i = 1 THEN seqs[i] ELSE b[i - 1] \o seqs[i]]
    BY <2>4
  <2> HIDE DEF b
  <2>6. Flattens(seqs, n + 1, b)
    BY <2>5 DEF Flattens
  <2> QED
    BY <2>2, <2>6
<1> HIDE DEF P
<1>3. P \in SUBSET Nat => P = Nat
  BY <1>1, <1>2, ByInduction
<1> QED
  BY <1>3 DEF P

(* The parts of a text t end at the positions off.                          *)
Parts(seqs, off, t) ==
    /\ off \in [0..Len(seqs) -> Nat] /\ off[0] = 0 /\ off[Len(seqs)] = Len(t)
    /\ \A i \in 1..Len(seqs) :
         /\ off[i] = off[i - 1] + Len(seqs[i]) /\ off[i] <= Len(t)
         /\ \A j \in 1..Len(seqs[i]) : t[off[i - 1] + j] = seqs[i][j]

Placed(S, seqs, it, i) ==
    /\ it[i] \in Seq(S)
    /\ \A h \in 1..i : Len(it[h]) \in Nat /\ Len(it[h]) <= Len(it[i])
    /\ Len(it[1]) = Len(seqs[1])
    /\ \A h \in 2..i : Len(it[h]) = Len(it[h - 1]) + Len(seqs[h])
    /\ \A j \in 1..Len(seqs[1]) : it[i][j] = seqs[1][j]
    /\ \A h \in 2..i : \A j \in 1..Len(seqs[h]) : it[i][Len(it[h - 1]) + j] = seqs[h][j]

LEMMA PlacedStep ==
    ASSUME NEW S, NEW seqs \in Seq(Seq(S)), NEW it, NEW i \in 1..Len(seqs) - 1,
           Placed(S, seqs, it, i), it[i + 1] = it[i] \o seqs[i + 1]
    PROVE  Placed(S, seqs, it, i + 1)
<1>1. Len(seqs) \in Nat
  OBVIOUS
<1>2. PICK s, t \in Seq(S) : s = it[i] /\ t = seqs[i + 1]
  <2>1. seqs[i + 1] \in Seq(S)
    BY <1>1
  <2> QED
    BY <2>1 DEF Placed
<1>3. PICK u \in Seq(S) : u = s \o t
  <2>1. s \o t \in Seq(S)
    BY ConcatProperties
  <2> QED
    BY <2>1
<1>4. /\ Len(s) \in Nat /\ Len(t) \in Nat /\ Len(u) = Len(s) + Len(t)
      /\ \A j \in 1..Len(s) : u[j] = s[j]
      /\ \A j \in 1..Len(t) : u[Len(s) + j] = t[j]
  <2>1. /\ Len(s \o t) = Len(s) + Len(t) /\ Len(s) \in Nat /\ Len(t) \in Nat
        /\ \A j \in 1..Len(s) + Len(t) : (s \o t)[j] = IF j <= Len(s) THEN s[j] ELSE t[j - Len(s)]
    BY ConcatProperties
  <2>2. \A j \in 1..Len(s) : u[j] = s[j]
    BY <1>3, <2>1
  <2>3. ASSUME NEW j \in 1..Len(t) PROVE u[Len(s) + j] = t[j]
    <3>1. Len(s) + j \in 1..Len(s) + Len(t) /\ ~(Len(s) + j <= Len(s)) /\ (Len(s) + j) - Len(s) = j
      BY <2>1
    <3> QED
      BY <1>3, <2>1, <3>1
  <2> QED
    BY <1>3, <2>1, <2>2, <2>3
<1>5. it[i + 1] = u /\ i \in Nat
  BY <1>1, <1>2, <1>3
<1>6. \A h \in 1..i : Len(it[h]) \in Nat /\ Len(it[h]) <= Len(s)
  BY <1>2 DEF Placed
<1>7. \A h \in 1..i + 1 : Len(it[h]) \in Nat /\ Len(it[h]) <= Len(u)
  <2> TAKE h \in 1..i + 1
  <2>1. CASE h = i + 1
    BY <1>4, <1>5, <2>1
  <2>2. CASE h # i + 1
    <3>1. h \in 1..i
      BY <1>5, <2>2
    <3> QED
      BY <1>4, <1>6, <3>1
  <2> QED
    BY <2>1, <2>2
<1>8. \A h \in 2..i + 1 : Len(it[h]) = Len(it[h - 1]) + Len(seqs[h])
  <2> TAKE h \in 2..i + 1
  <2>1. CASE h = i + 1
    <3>1. h - 1 = i
      BY <1>5, <2>1
    <3> QED
      BY <1>2, <1>4, <1>5, <2>1, <3>1
  <2>2. CASE h # i + 1
    <3>1. h \in 2..i
      BY <1>5, <2>2
    <3> QED
      BY <3>1 DEF Placed
  <2> QED
    BY <2>1, <2>2
<1>9. \A j \in 1..Len(seqs[1]) : u[j] = seqs[1][j]
  <2> TAKE j \in 1..Len(seqs[1])
  <2>1. s[j] = seqs[1][j]
    BY <1>2 DEF Placed
  <2>2. Len(seqs[1]) \in Nat /\ Len(seqs[1]) <= Len(s)
    <3>1. 1 \in 1..i /\ Len(it[1]) = Len(seqs[1])
      BY <1>5 DEF Placed
    <3> QED
      BY <1>6, <3>1
  <2> QED
    BY <1>4, <2>1, <2>2
<1>10. \A h \in 2..i + 1 : \A j \in 1..Len(seqs[h]) : u[Len(it[h - 1]) + j] = seqs[h][j]
  <2> TAKE h \in 2..i + 1
  <2> TAKE j \in 1..Len(seqs[h])
  <2>1. CASE h = i + 1
    <3>1. h - 1 = i
      BY <1>5, <2>1
    <3> QED
      BY <1>2, <1>4, <2>1, <3>1
  <2>2. CASE h # i + 1
    <3>1. h \in 2..i /\ h - 1 \in 1..i /\ h \in 1..i
      BY <1>5, <2>2
    <3>2. s[Len(it[h - 1]) + j] = seqs[h][j] /\ Len(it[h]) = Len(it[h - 1]) + Len(seqs[h])
      BY <1>2, <3>1 DEF Placed
    <3>3. Len(it[h]) <= Len(s) /\ Len(it[h - 1]) \in Nat /\ Len(it[h]) \in Nat
      BY <1>6, <3>1
    <3>4. Len(seqs[h]) \in Nat
      <4>1. h \in 1..Len(seqs)
        BY <1>1, <3>1
      <4> QED
        BY <4>1
    <3>5. Len(it[h - 1]) + j \in 1..Len(s)
      <4>1. \A a, b, c, d, e \in Nat : c = a + b /\ c <= d /\ e \in 1..b => a + e \in 1..d
        OBVIOUS
      <4>2. j \in Nat
        BY <3>4
      <4> QED
        BY <1>4, <3>2, <3>3, <3>4, <4>1, <4>2
    <3> QED
      BY <1>4, <3>2, <3>5
  <2> QED
    BY <2>1, <2>2
<1> QED
  <2>1. Len(it[1]) = Len(seqs[1])
    BY DEF Placed
  <2> QED
    BY <1>5, <1>7, <1>8, <1>9, <1>10, <2>1 DEF Placed

LEMMA FlattenParts ==
    ASSUME NEW S, NEW seqs \in Seq(Seq(S))
    PROVE  FlattenSeq(seqs) \in Seq(S) /\ \E off : Parts(seqs, off, FlattenSeq(seqs))
<1>1. Len(seqs) \in Nat
  OBVIOUS
<1>2. CASE Len(seqs) = 0
  <2>1. seqs = << >> /\ FlattenSeq(seqs) = << >>
    BY <1>2 DEF FlattenSeq
  <2>2. Len(<< >>) = 0 /\ << >> \in Seq(S)
    BY EmptySeq
  <2>3. PICK off : off = [i \in 0..0 |-> 0]
    OBVIOUS
  <2>4. off \in [0..0 -> Nat] /\ off[0] = 0 /\ 1..0 = {}
    BY <2>3
  <2>5. Parts(seqs, off, FlattenSeq(seqs))
    BY <1>2, <2>1, <2>2, <2>4 DEF Parts
  <2> QED
    BY <2>1, <2>2, <2>5
<1>3. CASE Len(seqs) # 0
  <2>1. PICK n \in Nat \ {0} : n = Len(seqs)
    BY <1>1, <1>3
  <2>2. PICK it : Flattens(seqs, n, it) /\ FlattenSeq(seqs) = it[n]
    BY <2>1, FlattenIs, FlattensExists
  <2>3. \A i \in 1..n : it[i] = IF i = 1 THEN seqs[i] ELSE it[i - 1] \o seqs[i]
    BY <2>2 DEF Flattens
  <2> DEFINE P == {i \in Nat : i < n => Placed(S, seqs, it, i + 1)}
  <2>4. 0 \in P
    <3>1. it[1] = seqs[1] /\ seqs[1] \in Seq(S)
      BY <2>1, <2>3
    <3>2. Placed(S, seqs, it, 1)
      <4>1. 2..1 = {} /\ 1..1 = {1}
        OBVIOUS
      <4>2. Len(seqs[1]) \in Nat
        BY <3>1
      <4>3. Len(seqs[1]) <= Len(seqs[1])
        BY <4>2
      <4> QED
        BY <3>1, <4>1, <4>2, <4>3 DEF Placed
    <3> QED
      BY <3>2
  <2>5. ASSUME NEW i \in P PROVE i + 1 \in P
    <3> SUFFICES ASSUME i + 1 < n PROVE Placed(S, seqs, it, i + 1 + 1)
      OBVIOUS
    <3>1. i + 1 \in 1..Len(seqs) - 1 /\ Placed(S, seqs, it, i + 1)
      BY <2>1
    <3>2. it[i + 1 + 1] = it[i + 1] \o seqs[i + 1 + 1]
      <4>1. i + 1 + 1 \in 1..n /\ i + 1 + 1 # 1 /\ (i + 1 + 1) - 1 = i + 1
        BY <2>1
      <4> QED
        BY <2>3, <4>1
    <3> QED
      BY <3>1, <3>2, PlacedStep
  <2> HIDE DEF P
  <2>6. P \in SUBSET Nat => P = Nat
    BY <2>4, <2>5, ByInduction
  <2>7. Placed(S, seqs, it, n)
    <3>1. n - 1 \in Nat /\ n - 1 < n /\ (n - 1) + 1 = n
      BY <2>1
    <3> QED
      BY <2>6, <3>1 DEF P
  <2>8. PICK off : off = [i \in 0..n |-> IF i = 0 THEN 0 ELSE Len(it[i])]
    OBVIOUS
  <2>9. PICK t \in Seq(S) : t = FlattenSeq(seqs) /\ t = it[n]
    BY <2>2, <2>7 DEF Placed
  <2>10. \A i \in 1..n : Len(it[i]) \in Nat /\ Len(it[i]) <= Len(t)
    BY <2>1, <2>7, <2>9 DEF Placed
  <2>11. /\ off \in [0..n -> Nat] /\ off[0] = 0 /\ off[n] = Len(t)
         /\ \A i \in 1..n : off[i] = Len(it[i])
    <3>1. 0 \in 0..n /\ n \in 0..n /\ n # 0 /\ \A i \in 1..n : i \in 0..n /\ i # 0
      BY <2>1
    <3>2. \A i \in 0..n : i # 0 => i \in 1..n
      BY <2>1
    <3> QED
      BY <2>8, <2>9, <2>10, <3>1, <3>2
  <2>12. ASSUME NEW i \in 1..n
         PROVE  /\ off[i] = off[i - 1] + Len(seqs[i]) /\ off[i] <= Len(t)
                /\ \A j \in 1..Len(seqs[i]) : t[off[i - 1] + j] = seqs[i][j]
    <3>1. CASE i = 1
      <4>1. seqs[1] \in Seq(S) /\ Len(seqs[1]) \in Nat
        BY <2>1
      <4>2. off[i] = Len(seqs[1]) /\ i - 1 = 0 /\ off[i - 1] = 0 /\ off[i] <= Len(t)
        BY <2>7, <2>10, <2>11, <3>1 DEF Placed
      <4>3. \A j \in 1..Len(seqs[i]) : 0 + j = j
        BY <3>1, <4>1
      <4>4. \A j \in 1..Len(seqs[1]) : t[j] = seqs[1][j]
        BY <2>7, <2>9 DEF Placed
      <4> QED
        BY <3>1, <4>1, <4>2, <4>3, <4>4
    <3>2. CASE i # 1
      <4>1. i \in 2..n /\ i - 1 \in 1..n
        BY <2>1, <3>2
      <4> QED
        BY <2>7, <2>9, <2>10, <2>11, <4>1 DEF Placed
    <3> QED
      BY <3>1, <3>2
  <2>13. Parts(seqs, off, t)
    BY <2>1, <2>11, <2>12 DEF Parts
  <2> QED
    BY <2>9, <2>13
<1> QED
  BY <1>2, <1>3

-----------------------------------------------------------------------------
(* The states of the parser on a text: one after each character.            *)
Start == [rows |-> << >>, row |-> << >>, field |-> << >>, quoted |-> FALSE, skip |-> FALSE]
Step(text, p, i) == ParseCharacter(p, text[i], IF i < Len(text) THEN text[i + 1] ELSE "end")
Result(p) ==
    [rows |-> (IF p.field # << >> \/ p.row # << >> THEN EndRow(p) ELSE p).rows, unfinished |-> p.quoted]

Run(text, st) ==
    /\ st[0] = Start
    /\ \A n \in 1..Len(text) : st[n] = Step(text, st[n - 1], n)

Numbers(text) == [i \in DOMAIN text |-> i]
Folds(text, D, it) ==
    it = [s \in SUBSET D |-> IF s = {} THEN Start
                             ELSE Step(text, it[s \ {Max(s)}], Numbers(text)[Max(s)])]

LEMMA ParseIs ==
    \A text : parseCsv(text) =
        Result((CHOOSE it : Folds(text, DOMAIN Numbers(text), it))[DOMAIN Numbers(text)])
  BY DEF parseCsv, FoldLeft, MapThenFoldSet, Folds, Start, Step, Result, Numbers

LEMMA MaxIs ==
    ASSUME NEW s \in SUBSET Int, NEW m \in s, \A x \in s : x <= m
    PROVE  Max(s) = m
<1>1. \A y \in s : m >= y
  OBVIOUS
<1>2. \A x \in s : (\A y \in s : x >= y) => x = m
  <2> TAKE x \in s
  <2> HAVE \A y \in s : x >= y
  <2>1. x >= m /\ x <= m /\ x \in Int /\ m \in Int
    OBVIOUS
  <2> QED
    BY <2>1
<1>3. (CHOOSE x \in s : \A y \in s : x >= y) = m
  BY <1>1, <1>2
<1> QED
  BY <1>3 DEF Max

LEMMA FoldsExists ==
    ASSUME NEW text, DOMAIN text = 1..Len(text), Len(text) \in Nat
    PROVE  \A n \in Nat : n <= Len(text) => \E it : Folds(text, 1..n, it)
<1> DEFINE P == {n \in Nat : n <= Len(text) => \E it : Folds(text, 1..n, it)}
<1>1. 0 \in P
  <2>1. 1..0 = {} /\ SUBSET {} = {{}}
    OBVIOUS
  <2>2. Folds(text, 1..0, [s \in SUBSET (1..0) |-> Start])
    BY <2>1 DEF Folds
  <2> QED
    BY <2>2
<1>2. ASSUME NEW n \in P PROVE n + 1 \in P
  <2> SUFFICES ASSUME n + 1 <= Len(text) PROVE \E it : Folds(text, 1..n + 1, it)
    OBVIOUS
  <2>1. n \in Nat /\ n + 1 \in 1..Len(text) /\ n <= Len(text)
    OBVIOUS
  <2>2. PICK a : Folds(text, 1..n, a)
    BY <2>1
  <2>3. Numbers(text)[n + 1] = n + 1
    BY <2>1 DEF Numbers
  <2> DEFINE next(s) == Step(text, a[s \ {n + 1}], n + 1)
             b == [s \in SUBSET (1..n + 1) |-> IF n + 1 \in s THEN next(s) ELSE a[s]]
  <2>4. \A s \in SUBSET (1..n) : a[s] = IF s = {} THEN Start
                                         ELSE Step(text, a[s \ {Max(s)}], Numbers(text)[Max(s)])
    BY <2>2 DEF Folds
  <2>5. ASSUME NEW s \in SUBSET (1..n + 1)
        PROVE  b[s] = IF s = {} THEN Start ELSE Step(text, b[s \ {Max(s)}], Numbers(text)[Max(s)])
    <3>1. CASE n + 1 \in s
      <4>1. Max(s) = n + 1
        <5>1. s \in SUBSET Int /\ \A x \in s : x <= n + 1
          BY <2>1
        <5> QED
          BY <3>1, <5>1, MaxIs
      <4>2. b[s] = next(s)
        BY <3>1
      <4>3. s \ {n + 1} \in SUBSET (1..n + 1) /\ n + 1 \notin s \ {n + 1}
        OBVIOUS
      <4>4. b[s \ {n + 1}] = a[s \ {n + 1}]
        BY <4>3
      <4> QED
        BY <2>3, <3>1, <4>1, <4>2, <4>4
    <3>2. CASE n + 1 \notin s
      <4>1. s \in SUBSET (1..n)
        BY <2>1, <3>2
      <4>2. b[s] = a[s]
        BY <3>2
      <4>3. PICK r : r = s \ {Max(s)}
        OBVIOUS
      <4>4. r \in SUBSET (1..n + 1) /\ n + 1 \notin r
        BY <3>2, <4>3
      <4>5. b[r] = a[r]
        BY <4>4
      <4> HIDE DEF b
      <4> QED
        BY <2>4, <4>1, <4>2, <4>3, <4>5
    <3> QED
      BY <3>1, <3>2
  <2>6. b = [s \in SUBSET (1..n + 1) |-> IF s = {} THEN Start
                                         ELSE Step(text, b[s \ {Max(s)}], Numbers(text)[Max(s)])]
    BY <2>5
  <2> HIDE DEF b
  <2>7. Folds(text, 1..n + 1, b)
    BY <2>6 DEF Folds
  <2> QED
    BY <2>7
<1> HIDE DEF P
<1>3. P \in SUBSET Nat => P = Nat
  BY <1>1, <1>2, ByInduction
<1> QED
  BY <1>3 DEF P

LEMMA RunExists ==
    ASSUME NEW S, NEW text \in Seq(S)
    PROVE  \E st : Run(text, st) /\ parseCsv(text) = Result(st[Len(text)])
<1>1. PICK n \in Nat : n = Len(text) /\ DOMAIN text = 1..n
  BY LenProperties
<1>2. DOMAIN Numbers(text) = 1..n
  BY <1>1 DEF Numbers
<1>3. PICK it : Folds(text, 1..n, it) /\ parseCsv(text) = Result(it[1..n])
  <2>1. n <= Len(text) /\ Len(text) \in Nat /\ DOMAIN text = 1..Len(text)
    BY <1>1
  <2>2. \E it : Folds(text, 1..n, it)
    BY <2>1, FoldsExists
  <2> QED
    BY <1>2, <2>2, ParseIs
<1>4. PICK st : st = [i \in 0..n |-> it[1..i]]
  OBVIOUS
<1>5. st[0] = Start
  <2>1. 0 \in 0..n /\ 1..0 = {}
    BY <1>1
  <2> QED
    BY <1>3, <1>4, <2>1 DEF Folds
<1>6. ASSUME NEW i \in 1..n PROVE st[i] = Step(text, st[i - 1], i)
  <2>1. i \in 0..n /\ i - 1 \in 0..n /\ 1..i \in SUBSET (1..n) /\ 1..i # {}
    <3>1. i \in Nat /\ 1 <= i /\ i <= n
      BY <1>1
    <3>2. \A x \in 1..i : x \in 1..n
      BY <1>1, <3>1
    <3>3. i \in 1..i
      BY <3>1
    <3> QED
      BY <1>1, <3>1, <3>2, <3>3
  <2>2. Max(1..i) = i
    <3>1. 1..i \in SUBSET Int /\ i \in 1..i /\ \A x \in 1..i : x <= i
      BY <2>1
    <3> QED
      BY <3>1, MaxIs
  <2>3. (1..i) \ {i} = 1..i - 1
    BY <2>1
  <2>4. Numbers(text)[i] = i
    BY <1>1 DEF Numbers
  <2>5. it[1..i] = Step(text, it[1..i - 1], i)
    BY <1>3, <2>1, <2>2, <2>3, <2>4 DEF Folds
  <2> QED
    BY <1>4, <2>1, <2>5
<1>7. st[n] = it[1..n]
  BY <1>1, <1>4
<1> QED
  BY <1>1, <1>3, <1>5, <1>6, <1>7 DEF Run

-----------------------------------------------------------------------------
(* The parser between two characters: outside of quotes, inside, and inside *)
(* with the second of two quotes still to come.                             *)
State(R, W, F, q, k) == [rows |-> R, row |-> W, field |-> F, quoted |-> q, skip |-> k]
Out(R, W, F) == State(R, W, F, FALSE, FALSE)
In(R, W, F) == State(R, W, F, TRUE, FALSE)
Twice(R, W, F) == State(R, W, F, TRUE, TRUE)

(* Rows with a row more, unless it is blank.                                *)
WithRow(R, row) == IF \E i \in DOMAIN row : row[i] # << >> THEN Append(R, row) ELSE R

(* What each kind of character does.                                        *)
LEMMA Outside ==
    ASSUME NEW R, NEW W, NEW F, NEW c, NEW next
    PROVE  /\ c \notin Special =>
                  ParseCharacter(Out(R, W, F), c, next) = Out(R, W, Append(F, c))
           /\ c = "quote" /\ F = << >> =>
                  ParseCharacter(Out(R, W, F), c, next) = In(R, W, F)
           /\ c = "comma" =>
                  ParseCharacter(Out(R, W, F), c, next) = Out(R, Append(W, F), << >>)
           /\ c = "LF" =>
                  ParseCharacter(Out(R, W, F), c, next)
                      = Out(WithRow(R, Append(W, F)), << >>, << >>)
<1>1. ASSUME c \notin Special
      PROVE  ParseCharacter(Out(R, W, F), c, next) = Out(R, W, Append(F, c))
  BY <1>1 DEF Special, ParseCharacter, Out, In, Twice, State, Take
<1>2. ASSUME c = "quote", F = << >>
      PROVE  ParseCharacter(Out(R, W, F), c, next) = In(R, W, F)
  BY <1>2 DEF ParseCharacter, Out, In, Twice, State
<1>3. ASSUME c = "comma"
      PROVE  ParseCharacter(Out(R, W, F), c, next) = Out(R, Append(W, F), << >>)
  BY <1>3 DEF ParseCharacter, Out, In, Twice, State, EndField
<1>4. ASSUME c = "LF"
      PROVE  ParseCharacter(Out(R, W, F), c, next)
                 = Out(WithRow(R, Append(W, F)), << >>, << >>)
  BY <1>4 DEF ParseCharacter, Out, In, Twice, State, EndRow, WithRow
<1> QED
  BY <1>1, <1>2, <1>3, <1>4

LEMMA Inside ==
    ASSUME NEW R, NEW W, NEW F, NEW c, NEW next
    PROVE  /\ c # "quote" =>
                  ParseCharacter(In(R, W, F), c, next) = In(R, W, Append(F, c))
           /\ c = "quote" /\ next = "quote" =>
                  ParseCharacter(In(R, W, F), c, next) = Twice(R, W, Append(F, c))
           /\ c = "quote" /\ next # "quote" =>
                  ParseCharacter(In(R, W, F), c, next) = Out(R, W, F)
           /\ ParseCharacter(Twice(R, W, F), c, next) = In(R, W, F)
  BY DEF ParseCharacter, Out, In, Twice, State, Take

LEMMA Prefix ==
    ASSUME NEW S, NEW v \in Seq(S), NEW k \in 0..Len(v)
    PROVE  /\ SubSeq(v, 1, 0) = << >> /\ SubSeq(v, 1, Len(v)) = v
           /\ k < Len(v) => SubSeq(v, 1, k + 1) = Append(SubSeq(v, 1, k), v[k + 1])
<1>1. Len(v) \in Nat
  OBVIOUS
<1>2. SubSeq(v, 1, 0) = << >> /\ SubSeq(v, 1, Len(v)) = v
  BY SubSeqEmpty, SubSeqFull
<1>3. ASSUME k < Len(v) PROVE SubSeq(v, 1, k + 1) = Append(SubSeq(v, 1, k), v[k + 1])
  <2>1. k + 1 \in 1..Len(v) /\ k \in Nat
    BY <1>1, <1>3
  <2>2. PICK u, w : u = SubSeq(v, 1, k) /\ w = SubSeq(v, 1, k + 1)
    OBVIOUS
  <2>3. u \in Seq(S) /\ Len(u) = k /\ \A i \in 1..k : u[i] = v[i]
    BY <1>1, <2>1, <2>2
  <2>4. w \in Seq(S) /\ Len(w) = k + 1 /\ \A i \in 1..k + 1 : w[i] = v[i]
    BY <1>1, <2>1, <2>2
  <2>5. v[k + 1] \in S
    BY <2>1
  <2>6. /\ Append(u, v[k + 1]) \in Seq(S) /\ Len(Append(u, v[k + 1])) = k + 1
        /\ \A i \in 1..k + 1 : Append(u, v[k + 1])[i] = v[i]
    BY <2>1, <2>3, <2>5
  <2>7. w = Append(u, v[k + 1])
    BY <2>4, <2>6, SeqEqual
  <2> QED
    BY <2>2, <2>7
<1> QED
  BY <1>2, <1>3

(* The text has e right after its first a characters.                       *)
Has(text, a, e) ==
    /\ a \in Nat /\ Len(e) \in Nat /\ a + Len(e) <= Len(text)
    /\ \A j \in 1..Len(e) : text[a + j] = e[j]

LEMMA OneStep ==
    ASSUME NEW text, NEW st, Run(text, st), Len(text) \in Nat, NEW n \in Nat, n < Len(text)
    PROVE  st[n + 1] = ParseCharacter(st[n], text[n + 1], IF n + 1 < Len(text) THEN text[n + 2] ELSE "end")
<1>1. n + 1 \in 1..Len(text) /\ (n + 1) - 1 = n /\ (n + 1) + 1 = n + 2
  OBVIOUS
<1> QED
  BY <1>1 DEF Run, Step

PlainUpTo(st, a, v, R, W, k) == k <= Len(v) => st[a + k] = Out(R, W, SubSeq(v, 1, k))

(* A field without special characters is read as it is.                     *)
LEMMA PlainField ==
    ASSUME NEW S, NEW text \in Seq(S), NEW st, Run(text, st), NEW v \in Seq(S), NEW a, Has(text, a, v),
           \A i \in 1..Len(v) : v[i] \notin Special,
           NEW R, NEW W, st[a] = Out(R, W, << >>)
    PROVE  st[a + Len(v)] = Out(R, W, v)
<1>1. /\ a \in Nat /\ Len(v) \in Nat /\ Len(text) \in Nat /\ a + Len(v) <= Len(text)
      /\ \A j \in 1..Len(v) : text[a + j] = v[j]
  BY DEF Has
<1> DEFINE P == {k \in Nat : PlainUpTo(st, a, v, R, W, k)}
<1>2. 0 \in P
  <2>1. a + 0 = a /\ SubSeq(v, 1, 0) = << >>
    BY <1>1, Prefix
  <2> QED
    BY <2>1 DEF PlainUpTo
<1>3. ASSUME NEW k \in P PROVE k + 1 \in P
  <2> SUFFICES ASSUME k + 1 <= Len(v)
               PROVE  st[a + (k + 1)] = Out(R, W, SubSeq(v, 1, k + 1))
    BY DEF PlainUpTo
  <2>1. k \in Nat /\ k \in 0..Len(v) /\ k < Len(v) /\ k + 1 \in 1..Len(v)
    BY <1>1
  <2>2. PICK n \in Nat : n = a + k /\ n < Len(text) /\ a + (k + 1) = n + 1
    BY <1>1, <2>1
  <2>3. st[n] = Out(R, W, SubSeq(v, 1, k))
    BY <2>1, <2>2 DEF PlainUpTo
  <2>4. text[n + 1] = v[k + 1] /\ v[k + 1] \notin Special
    BY <1>1, <2>1, <2>2
  <2>5. st[n + 1] = Out(R, W, Append(SubSeq(v, 1, k), v[k + 1]))
    BY <1>1, <2>2, <2>3, <2>4, OneStep, Outside
  <2>6. SubSeq(v, 1, k + 1) = Append(SubSeq(v, 1, k), v[k + 1])
    BY <2>1, Prefix
  <2> QED
    BY <2>2, <2>5, <2>6
<1> HIDE DEF P
<1>4. P \in SUBSET Nat => P = Nat
  BY <1>2, <1>3, ByInduction
<1>5. SubSeq(v, 1, Len(v)) = v /\ Len(v) <= Len(v)
  BY <1>1, Prefix
<1> QED
  BY <1>1, <1>4, <1>5 DEF P, PlainUpTo

Doubled(v) == [i \in DOMAIN v |-> IF v[i] = "quote" THEN <<"quote", "quote">> ELSE <<v[i]>>]
QuotedUpTo(st, a, off, v, R, W, k) == k <= Len(v) => st[a + 1 + off[k]] = In(R, W, SubSeq(v, 1, k))

LEMMA DoubledIs ==
    ASSUME NEW S, "quote" \in S, NEW v \in Seq(S)
    PROVE  Doubled(v) \in Seq(Seq(S)) /\ Len(Doubled(v)) = Len(v)
<1>1. PICK n \in Nat : n = Len(v) /\ DOMAIN v = 1..n
  BY LenProperties
<1>2. \A i \in 1..n : v[i] \in S
  BY <1>1
<1>3. Doubled(v) = [i \in 1..n |-> IF v[i] = "quote" THEN <<"quote", "quote">> ELSE <<v[i]>>]
  BY <1>1 DEF Doubled
<1>4. Doubled(v) \in [1..n -> Seq(S)]
  BY <1>2, <1>3
<1>5. Doubled(v) \in Seq(Seq(S))
  BY <1>1, <1>4, SeqDef
<1>6. DOMAIN Doubled(v) = 1..n
  BY <1>3
<1>7. DOMAIN Doubled(v) = 1..Len(Doubled(v)) /\ Len(Doubled(v)) \in Nat
  BY <1>5, LenProperties
<1> QED
  BY <1>1, <1>5, <1>6, <1>7

(* A quoted field is read without its quotes, and every two as one.         *)
LEMMA Quoted ==
    ASSUME NEW S, "quote" \in S, NEW text \in Seq(S), NEW st, Run(text, st), NEW v \in Seq(S),
           NEW a \in Nat, NEW D \in Seq(S), NEW off, Parts(Doubled(v), off, D),
           Has(text, a + 1, D), a + 2 + Len(D) < Len(text),
           text[a + 1] = "quote", text[a + 2 + Len(D)] = "quote", text[a + 3 + Len(D)] # "quote",
           NEW R, NEW W, st[a] = Out(R, W, << >>)
    PROVE  st[a + 2 + Len(D)] = Out(R, W, v)
<1>1. /\ Len(v) \in Nat /\ Len(text) \in Nat /\ Len(D) \in Nat
      /\ \A j \in 1..Len(D) : text[a + 1 + j] = D[j]
  BY DEF Has
<1>2. Len(Doubled(v)) = Len(v) /\ DOMAIN v = 1..Len(v)
  BY DoubledIs
<1>3. /\ off \in [0..Len(v) -> Nat] /\ off[0] = 0 /\ off[Len(v)] = Len(D)
      /\ \A i \in 1..Len(v) :
           /\ off[i] = off[i - 1] + Len(Doubled(v)[i]) /\ off[i] <= Len(D)
           /\ \A j \in 1..Len(Doubled(v)[i]) : D[off[i - 1] + j] = Doubled(v)[i][j]
  BY <1>2 DEF Parts
<1> DEFINE P == {k \in Nat : QuotedUpTo(st, a, off, v, R, W, k)}
<1>4. 0 \in P
  <2>1. a < Len(text) /\ a + 1 + off[0] = a + 1
    BY <1>1, <1>3
  <2>2. st[a + 1] = In(R, W, << >>)
    BY <1>1, <2>1, OneStep, Outside
  <2>3. SubSeq(v, 1, 0) = << >>
    BY <1>1, Prefix
  <2> QED
    BY <2>1, <2>2, <2>3 DEF QuotedUpTo
<1>5. ASSUME NEW k \in P PROVE k + 1 \in P
  <2> SUFFICES ASSUME k + 1 <= Len(v)
               PROVE  st[a + 1 + off[k + 1]] = In(R, W, SubSeq(v, 1, k + 1))
    BY DEF QuotedUpTo
  <2>1. k \in Nat /\ k \in 0..Len(v) /\ k < Len(v) /\ k <= Len(v) /\ k + 1 \in 1..Len(v) /\ (k + 1) - 1 = k
    BY <1>1
  <2>2. PICK o \in Nat : o = off[k]
    BY <1>3, <2>1
  <2>3. PICK n \in Nat : n = a + 1 + o
    OBVIOUS
  <2>4. PICK F : F = SubSeq(v, 1, k)
    OBVIOUS
  <2>5. st[n] = In(R, W, F)
    BY <2>1, <2>2, <2>3, <2>4 DEF QuotedUpTo
  <2>6. SubSeq(v, 1, k + 1) = Append(F, v[k + 1])
    BY <2>1, <2>4, Prefix
  <2>7. PICK d : d = Doubled(v)[k + 1]
    OBVIOUS
  <2>8. d = IF v[k + 1] = "quote" THEN <<"quote", "quote">> ELSE <<v[k + 1]>>
    BY <1>2, <2>1, <2>7 DEF Doubled
  <2>9. off[k + 1] = o + Len(d) /\ off[k + 1] <= Len(D) /\ \A j \in 1..Len(d) : D[o + j] = d[j]
    BY <1>3, <2>1, <2>2, <2>7
  <2>10. CASE v[k + 1] # "quote"
    <3>1. d = <<v[k + 1]>> /\ Len(d) = 1 /\ d[1] = v[k + 1]
      BY <2>8, <2>10
    <3>2. off[k + 1] = o + 1 /\ o + 1 \in 1..Len(D) /\ D[o + 1] = v[k + 1]
      BY <1>1, <2>9, <3>1
    <3>3. n + 1 = a + 1 + off[k + 1] /\ n < Len(text) /\ n + 1 = a + 1 + (o + 1)
      BY <1>1, <2>3, <3>2
    <3>4. text[n + 1] = v[k + 1]
      BY <1>1, <3>2, <3>3
    <3>5. st[n + 1] = In(R, W, Append(F, v[k + 1]))
      BY <1>1, <2>5, <2>10, <3>3, <3>4, OneStep, Inside
    <3> QED
      BY <2>6, <3>3, <3>5
  <2>11. CASE v[k + 1] = "quote"
    <3>1. d = <<"quote", "quote">> /\ Len(d) = 2 /\ d[1] = "quote" /\ d[2] = "quote"
      BY <2>8, <2>11
    <3>2. /\ off[k + 1] = o + 2 /\ o + 1 \in 1..Len(D) /\ o + 2 \in 1..Len(D)
          /\ D[o + 1] = "quote" /\ D[o + 2] = "quote"
      BY <1>1, <2>9, <3>1
    <3>3. /\ n + 2 = a + 1 + off[k + 1] /\ n < Len(text) /\ n + 1 < Len(text) /\ n + 1 \in Nat
          /\ n + 1 = a + 1 + (o + 1) /\ n + 2 = a + 1 + (o + 2) /\ (n + 1) + 1 = n + 2
      BY <1>1, <2>3, <3>2
    <3>4. text[n + 1] = "quote" /\ text[n + 2] = "quote"
      BY <1>1, <3>2, <3>3
    <3>5. st[n + 1] = Twice(R, W, Append(F, "quote"))
      <4>1. st[n + 1] = ParseCharacter(st[n], text[n + 1], IF n + 1 < Len(text) THEN text[n + 2] ELSE "end")
        BY <1>1, <3>3, OneStep
      <4>2. st[n + 1] = ParseCharacter(In(R, W, F), "quote", "quote")
        BY <2>5, <3>3, <3>4, <4>1
      <4> QED
        BY <4>2, Inside
    <3>6. st[(n + 1) + 1] = In(R, W, Append(F, "quote"))
      <4>1. st[(n + 1) + 1] = ParseCharacter(st[n + 1], text[(n + 1) + 1],
                                             IF (n + 1) + 1 < Len(text) THEN text[(n + 1) + 2] ELSE "end")
        BY <1>1, <3>3, OneStep
      <4> QED
        BY <3>5, <4>1, Inside
    <3> QED
      BY <2>6, <2>11, <3>3, <3>6
  <2> QED
    BY <2>10, <2>11
<1> HIDE DEF P
<1>6. P \in SUBSET Nat => P = Nat
  BY <1>4, <1>5, ByInduction
<1>7. SubSeq(v, 1, Len(v)) = v /\ Len(v) <= Len(v)
  BY <1>1, Prefix
<1>8. PICK n \in Nat : n = a + 1 + Len(D)
  BY <1>1
<1>9. st[n] = In(R, W, v)
  <2>1. QuotedUpTo(st, a, off, v, R, W, Len(v))
    BY <1>1, <1>6 DEF P
  <2> QED
    BY <1>3, <1>7, <1>8, <2>1 DEF QuotedUpTo
<1>10. n + 1 = a + 2 + Len(D) /\ n + 2 = a + 3 + Len(D) /\ n + 1 < Len(text) /\ n < Len(text)
  BY <1>1, <1>8
<1> QED
  BY <1>1, <1>9, <1>10, OneStep, Inside

LEMMA Enclosed ==
    ASSUME NEW S, NEW q \in S, NEW D \in Seq(S), NEW e, e = <<q>> \o D \o <<q>>
    PROVE  /\ e \in Seq(S) /\ Len(e) = Len(D) + 2 /\ Len(D) \in Nat
           /\ e[1] = q /\ e[Len(D) + 2] = q /\ \A j \in 1..Len(D) : e[1 + j] = D[j]
<1>1. PICK s \in Seq(S) : s = <<q>>
  <2>1. <<q>> \in Seq(S)
    OBVIOUS
  <2> QED
    BY <2>1
<1>2. Len(s) = 1 /\ s[1] = q /\ Len(D) \in Nat
  BY <1>1
<1>3. PICK u \in Seq(S) : u = s \o D
  BY ConcatProperties
<1>4. /\ Len(u) = Len(s) + Len(D)
      /\ \A j \in 1..Len(s) + Len(D) : u[j] = IF j <= Len(s) THEN s[j] ELSE D[j - Len(s)]
  BY <1>3, ConcatProperties
<1>5. PICK m \in Nat : m = Len(D) /\ Len(u) = m + 1 /\ m + 1 \in Nat
  BY <1>2, <1>4
<1>6. u[1] = q
  <2>1. 1 \in 1..Len(s) + Len(D) /\ 1 <= Len(s)
    BY <1>2
  <2> QED
    BY <1>2, <1>4, <2>1
<1>7. ASSUME NEW j \in 1..m PROVE u[1 + j] = D[j]
  <2>1. 1 + j \in 1..Len(s) + Len(D) /\ ~(1 + j <= Len(s)) /\ (1 + j) - Len(s) = j
    BY <1>2, <1>5
  <2> QED
    BY <1>4, <2>1
<1>8. /\ e = u \o s /\ e \in Seq(S) /\ Len(e) = Len(u) + Len(s)
      /\ \A j \in 1..Len(u) + Len(s) : e[j] = IF j <= Len(u) THEN u[j] ELSE s[j - Len(u)]
  BY <1>1, <1>3, ConcatProperties
<1>9. \A j \in 1..m + 1 : e[j] = u[j]
  BY <1>2, <1>5, <1>8
<1>10. e[m + 2] = q
  <2>1. m + 2 \in 1..Len(u) + Len(s) /\ ~(m + 2 <= Len(u)) /\ (m + 2) - Len(u) = 1
    BY <1>2, <1>5
  <2> QED
    BY <1>2, <1>8, <2>1
<1>11. Len(e) = m + 2 /\ e[1] = q /\ \A j \in 1..m : e[1 + j] = D[j]
  <2>1. 1 \in 1..m + 1 /\ \A j \in 1..m : 1 + j \in 1..m + 1
    BY <1>5
  <2> QED
    BY <1>2, <1>5, <1>6, <1>7, <1>8, <1>9, <2>1
<1> QED
  BY <1>5, <1>8, <1>10, <1>11

LEMMA FieldIs ==
    ASSUME NEW S, Special \subseteq S, NEW v \in Seq(S)
    PROVE  /\ csvField(v) \in Seq(S)
           /\ \/ csvField(v) = v /\ \A i \in 1..Len(v) : v[i] \notin Special
              \/ csvField(v) = <<"quote">> \o FlattenSeq(Doubled(v)) \o <<"quote">>
<1>1. DOMAIN v = 1..Len(v) /\ Len(v) \in Nat
  OBVIOUS
<1>2. "quote" \in S
  BY DEF Special
<1>3. CASE ToSet(v) \cap Special = {}
  <2>1. \A i \in 1..Len(v) : v[i] \notin Special
    BY <1>1, <1>3 DEF ToSet
  <2> QED
    BY <1>3, <2>1 DEF csvField
<1>4. CASE ToSet(v) \cap Special # {}
  <2>1. csvField(v) = <<"quote">> \o FlattenSeq(Doubled(v)) \o <<"quote">>
    BY <1>4 DEF csvField, Doubled
  <2>2. FlattenSeq(Doubled(v)) \in Seq(S)
    BY <1>2, DoubledIs, FlattenParts
  <2>3. csvField(v) \in Seq(S)
    BY <1>2, <2>1, <2>2, Enclosed
  <2> QED
    BY <2>1, <2>3
<1> QED
  BY <1>3, <1>4

(* The text has e after its first a characters, and no quote after that.    *)
EndsAt(text, a, e) ==
    Has(text, a, e) /\ a + Len(e) < Len(text) /\ text[a + Len(e) + 1] # "quote"

(* A field is read as it was written, whatever its characters are, when no  *)
(* quote follows it.                                                        *)
LEMMA Field ==
    ASSUME NEW S, Special \subseteq S, NEW text \in Seq(S), NEW st, Run(text, st)
    PROVE  \A v \in Seq(S) : \A a \in Nat : \A R, W : \A e :
               /\ e = csvField(v) /\ EndsAt(text, a, e) /\ st[a] = Out(R, W, << >>)
               => st[a + Len(e)] = Out(R, W, v)
<1> TAKE v \in Seq(S)
<1> TAKE a \in Nat
<1> TAKE R, W
<1> TAKE e
<1> SUFFICES ASSUME e = csvField(v), EndsAt(text, a, e), st[a] = Out(R, W, << >>)
             PROVE  st[a + Len(e)] = Out(R, W, v)
  OBVIOUS
<1> USE DEF EndsAt
<1>1. CASE e = v /\ \A i \in 1..Len(v) : v[i] \notin Special
  BY <1>1, PlainField
<1>2. CASE e = <<"quote">> \o FlattenSeq(Doubled(v)) \o <<"quote">>
  <2>1. "quote" \in S
    BY DEF Special
  <2>2. PICK D \in Seq(S) : D = FlattenSeq(Doubled(v)) /\ \E off : Parts(Doubled(v), off, D)
    BY <2>1, DoubledIs, FlattenParts
  <2>3. PICK off : Parts(Doubled(v), off, D)
    BY <2>2
  <2>4. /\ Len(e) = Len(D) + 2 /\ Len(D) \in Nat
        /\ e[1] = "quote" /\ e[Len(D) + 2] = "quote" /\ \A j \in 1..Len(D) : e[1 + j] = D[j]
    BY <1>2, <2>1, <2>2, Enclosed
  <2>5. PICK m \in Nat : m = Len(D)
    BY <2>4
  <2>6. /\ \A j \in 1..m + 2 : text[a + j] = e[j]
        /\ Len(text) \in Nat /\ a + (m + 2) < Len(text) /\ text[a + (m + 2) + 1] # "quote"
    BY <2>4, <2>5 DEF Has
  <2>7. Has(text, a + 1, D)
    <3>1. \A j \in 1..m : 1 + j \in 1..m + 2 /\ a + (1 + j) = (a + 1) + j
      BY <2>5
    <3>2. \A j \in 1..m : text[(a + 1) + j] = D[j]
      BY <2>4, <2>5, <2>6, <3>1
    <3>3. a + 1 \in Nat /\ (a + 1) + m <= Len(text)
      BY <2>6
    <3> QED
      BY <2>5, <3>2, <3>3 DEF Has
  <2>8. text[a + 1] = "quote" /\ text[a + 2 + Len(D)] = "quote"
    <3>1. 1 \in 1..m + 2 /\ m + 2 \in 1..m + 2 /\ a + (m + 2) = a + 2 + m
      BY <2>5
    <3> QED
      BY <2>4, <2>5, <2>6, <3>1
  <2>9. /\ a + (m + 2) + 1 = a + 3 + Len(D) /\ a + Len(e) = a + 2 + Len(D)
        /\ a + 2 + Len(D) < Len(text)
    BY <2>4, <2>5, <2>6
  <2>10. text[a + 3 + Len(D)] # "quote"
    BY <2>6, <2>9
  <2>11. st[a + 2 + Len(D)] = Out(R, W, v)
    BY <2>1, <2>3, <2>7, <2>8, <2>9, <2>10, Quoted
  <2> QED
    BY <2>9, <2>11
<1> QED
  BY <1>1, <1>2, FieldIs

-----------------------------------------------------------------------------
(* The fields of a row, and the parts that they are in its text.            *)
Fields(row) == [i \in DOMAIN row |-> csvField(row[i])]
Cells(fields) == [i \in DOMAIN fields |-> IF i = 1 THEN fields[i] ELSE <<"comma">> \o fields[i]]

(* A sequence of n elements, given by what they are.                        *)
LEMMA SequenceOf ==
    ASSUME NEW S, NEW n \in Nat
    PROVE  \A f \in [1..n -> S] : f \in Seq(S) /\ Len(f) = n /\ DOMAIN f = 1..n
<1> TAKE f \in [1..n -> S]
<1>1. f \in Seq(S)
  BY SeqDef
<1>2. DOMAIN f = 1..n
  OBVIOUS
<1>3. DOMAIN f = 1..Len(f) /\ Len(f) \in Nat
  BY <1>1, LenProperties
<1> QED
  BY <1>1, <1>2, <1>3

LEMMA CellsAre ==
    ASSUME NEW S, Special \subseteq S, NEW row \in Seq(Seq(S))
    PROVE  /\ Fields(row) \in Seq(Seq(S)) /\ Len(Fields(row)) = Len(row)
           /\ \A i \in 1..Len(row) : Fields(row)[i] = csvField(row[i])
           /\ Cells(Fields(row)) \in Seq(Seq(S)) /\ Len(Cells(Fields(row))) = Len(row)
           /\ \A i \in 1..Len(row) : Cells(Fields(row))[i]
                  = IF i = 1 THEN csvField(row[i]) ELSE <<"comma">> \o csvField(row[i])
<1>1. PICK n \in Nat : n = Len(row) /\ DOMAIN row = 1..n
  BY LenProperties
<1>2. PICK f : f = Fields(row)
  OBVIOUS
<1>3. f = [i \in 1..n |-> csvField(row[i])]
  BY <1>1, <1>2 DEF Fields
<1>4. \A i \in 1..n : csvField(row[i]) \in Seq(S)
  <2> TAKE i \in 1..n
  <2>1. row[i] \in Seq(S)
    BY <1>1
  <2> QED
    BY <2>1, FieldIs
<1>5. f \in [1..n -> Seq(S)]
  BY <1>3, <1>4
<1>6. f \in Seq(Seq(S)) /\ Len(f) = n /\ DOMAIN f = 1..n
  BY <1>1, <1>5, SequenceOf
<1>7. PICK g : g = Cells(f)
  OBVIOUS
<1>8. g = [i \in 1..n |-> IF i = 1 THEN f[i] ELSE <<"comma">> \o f[i]]
  BY <1>6, <1>7 DEF Cells
<1>9. \A i \in 1..n : <<"comma">> \o f[i] \in Seq(S) /\ f[i] \in Seq(S)
  <2>1. "comma" \in S
    BY DEF Special
  <2>2. <<"comma">> \in Seq(S)
    BY <2>1
  <2> QED
    BY <1>5, <2>2, ConcatProperties
<1>10. g \in [1..n -> Seq(S)]
  BY <1>8, <1>9
<1>11. g \in Seq(Seq(S)) /\ Len(g) = n /\ DOMAIN g = 1..n
  BY <1>1, <1>10, SequenceOf
<1>12. \A i \in 1..n : f[i] = csvField(row[i])
  BY <1>3
<1>13. \A i \in 1..n : g[i] = IF i = 1 THEN csvField(row[i]) ELSE <<"comma">> \o csvField(row[i])
  BY <1>8, <1>12
<1> QED
  BY <1>1, <1>2, <1>6, <1>7, <1>11, <1>12, <1>13

(* One part of the text of a row: a comma, and a field.                     *)
LEMMA CommaAndField ==
    ASSUME NEW S, "comma" \in S, NEW q \in Seq(S)
    PROVE  /\ Len(<<"comma">> \o q) = Len(q) + 1 /\ Len(q) \in Nat
           /\ (<<"comma">> \o q)[1] = "comma"
           /\ \A j \in 1..Len(q) : (<<"comma">> \o q)[1 + j] = q[j]
<1>1. PICK s \in Seq(S) : s = <<"comma">>
  <2>1. <<"comma">> \in Seq(S)
    OBVIOUS
  <2> QED
    BY <2>1
<1>2. Len(s) = 1 /\ s[1] = "comma" /\ Len(q) \in Nat
  BY <1>1
<1>3. PICK u \in Seq(S) : u = s \o q
  BY ConcatProperties
<1>4. /\ Len(u) = Len(s) + Len(q)
      /\ \A j \in 1..Len(s) + Len(q) : u[j] = IF j <= Len(s) THEN s[j] ELSE q[j - Len(s)]
  BY <1>3, ConcatProperties
<1>5. u[1] = "comma"
  <2>1. 1 \in 1..Len(s) + Len(q) /\ 1 <= Len(s)
    BY <1>2
  <2> QED
    BY <1>2, <1>4, <2>1
<1>6. ASSUME NEW j \in 1..Len(q) PROVE u[1 + j] = q[j]
  <2>1. 1 + j \in 1..Len(s) + Len(q) /\ ~(1 + j <= Len(s)) /\ (1 + j) - Len(s) = j
    BY <1>2
  <2> QED
    BY <1>4, <2>1
<1>7. Len(u) = Len(q) + 1
  BY <1>2, <1>4
<1> QED
  BY <1>1, <1>2, <1>3, <1>5, <1>6, <1>7

Covers(text, a, B, l) ==
    Len(text) \in Nat /\ a + l < Len(text) /\ \A j \in 1..l : text[a + j] = B[j]
Cell(B, o, m, e) ==
    Len(e) = m /\ B[o + 1] = "comma" /\ \A j \in 1..m : B[o + (1 + j)] = e[j]

LEMMA CellAt ==
    ASSUME NEW text, NEW B, NEW e, NEW a \in Nat, NEW o \in Nat, NEW m \in Nat, NEW l \in Nat,
           Covers(text, a, B, l), Cell(B, o, m, e), o + (m + 1) <= l
    PROVE  text[a + o + 1] = "comma" /\ Has(text, a + o + 1, e)
<1>1. o + 1 \in 1..l /\ a + (o + 1) = a + o + 1 /\ a + o + 1 \in Nat
  OBVIOUS
<1>2. PICK t \in Nat : t = Len(text) /\ a + l < t
  BY DEF Covers
<1>3. a + o + 1 + m <= t
  BY <1>2
<1>4. ASSUME NEW j \in 1..m PROVE text[a + o + 1 + j] = e[j]
  <2>1. o + (1 + j) \in 1..l /\ a + (o + (1 + j)) = a + o + 1 + j
    OBVIOUS
  <2> QED
    BY <2>1 DEF Covers, Cell
<1>5. text[a + o + 1] = "comma"
  BY <1>1 DEF Covers, Cell
<1> QED
  BY <1>1, <1>2, <1>3, <1>4, <1>5 DEF Has, Cell

(* Where the fields of a row begin and end in a text, and what follows each.*)
CellAtPlace(text, a, row, off, i) ==
    /\ off[i] \in Nat /\ a + off[i] < Len(text)
    /\ text[a + off[i] + 1] = IF i = Len(row) THEN "LF" ELSE "comma"
    /\ LET start == IF i = 1 THEN a ELSE a + off[i - 1] + 1
           e == csvField(row[i])
       IN  Has(text, start, e) /\ start + Len(e) = a + off[i]

LEMMA CellPlaces ==
    ASSUME NEW S, Special \subseteq S, NEW text \in Seq(S), NEW row \in Seq(Seq(S)), Len(row) # 0,
           NEW a \in Nat, NEW B \in Seq(S), NEW off, Parts(Cells(Fields(row)), off, B),
           Has(text, a, B), a + Len(B) < Len(text), text[a + Len(B) + 1] = "LF"
    PROVE  off[Len(row)] = Len(B) /\ \A i \in 1..Len(row) : CellAtPlace(text, a, row, off, i)
<1>1. PICK n \in Nat \ {0} : n = Len(row) /\ DOMAIN row = 1..n
  <2>1. Len(row) \in Nat /\ DOMAIN row = 1..Len(row)
    BY LenProperties
  <2> QED
    BY <2>1
<1>2. PICK g : g = Cells(Fields(row))
  OBVIOUS
<1>3. /\ Len(g) = n
      /\ \A i \in 1..n : /\ g[i] = IF i = 1 THEN csvField(row[i]) ELSE <<"comma">> \o csvField(row[i])
                         /\ row[i] \in Seq(S) /\ csvField(row[i]) \in Seq(S)
  <2>1. \A i \in 1..n : row[i] \in Seq(S)
    BY <1>1
  <2> QED
    BY <1>1, <1>2, <2>1, CellsAre, FieldIs
<1>4. PICK l \in Nat : l = Len(B)
  OBVIOUS
<1>5. /\ off \in [0..n -> Nat] /\ off[0] = 0 /\ off[n] = l
      /\ \A i \in 1..n :
           /\ off[i] = off[i - 1] + Len(g[i]) /\ off[i] <= l
           /\ \A j \in 1..Len(g[i]) : B[off[i - 1] + j] = g[i][j]
  BY <1>2, <1>3, <1>4 DEF Parts
<1>6. Len(text) \in Nat /\ (\A j \in 1..l : text[a + j] = B[j]) /\ a + l < Len(text)
  BY <1>4 DEF Has
<1>7. ASSUME NEW i \in 1..n, i # 1
      PROVE  LET e == csvField(row[i])
                 start == a + off[i - 1] + 1
             IN  text[start] = "comma" /\ Has(text, start, e) /\ start + Len(e) = a + off[i]
  <2>1. PICK e \in Seq(S) : e = csvField(row[i]) /\ g[i] = <<"comma">> \o e
    BY <1>3, <1>7
  <2>2. PICK m \in Nat : m = Len(e)
    OBVIOUS
  <2>3. PICK o \in Nat : o = off[i - 1]
    <3>1. i - 1 \in 0..n
      BY <1>1, <1>7
    <3> QED
      BY <1>5, <3>1
  <2>4. Len(g[i]) = m + 1 /\ g[i][1] = "comma" /\ \A j \in 1..m : g[i][1 + j] = e[j]
    <3>1. "comma" \in S
      BY DEF Special
    <3> QED
      BY <2>1, <2>2, <3>1, CommaAndField
  <2>5. off[i] = o + (m + 1) /\ off[i] <= l /\ \A j \in 1..m + 1 : B[o + j] = g[i][j]
    BY <1>5, <2>3, <2>4
  <2>6. o + (m + 1) <= l
    BY <2>5
  <2>7. 1 \in 1..m + 1 /\ \A j \in 1..m : 1 + j \in 1..m + 1
    OBVIOUS
  <2>8. B[o + 1] = "comma" /\ \A j \in 1..m : B[o + (1 + j)] = e[j]
    BY <2>4, <2>5, <2>7
  <2>9. text[a + o + 1] = "comma" /\ Has(text, a + o + 1, e)
    <3>1. Covers(text, a, B, l)
      BY <1>6 DEF Covers
    <3>2. Cell(B, o, m, e)
      BY <2>2, <2>8 DEF Cell
    <3> QED
      BY <2>6, <3>1, <3>2, CellAt
  <2>10. a + o + 1 + m = a + (o + (m + 1))
    OBVIOUS
  <2> QED
    BY <2>1, <2>2, <2>3, <2>5, <2>9, <2>10
<1>8. Has(text, a, csvField(row[1])) /\ a + Len(csvField(row[1])) = a + off[1]
  <2>1. 1 \in 1..n /\ 1 - 1 = 0
    BY <1>1
  <2>2. PICK e \in Seq(S) : e = csvField(row[1]) /\ g[1] = e
    BY <1>3, <2>1
  <2>3. PICK m \in Nat : m = Len(e)
    OBVIOUS
  <2>4. off[1] = off[1 - 1] + m /\ off[1] <= l /\ \A j \in 1..m : B[off[1 - 1] + j] = e[j]
    BY <1>5, <2>1, <2>2, <2>3
  <2>5. off[1 - 1] = 0
    BY <1>5, <2>1
  <2>6. off[1] = m /\ m <= l /\ \A j \in 1..m : B[j] = e[j]
    BY <2>4, <2>5
  <2>7. \A j \in 1..m : j \in 1..l
    BY <2>6
  <2>8. \A j \in 1..m : text[a + j] = e[j]
    BY <1>6, <2>6, <2>7
  <2>9. Has(text, a, e)
    BY <1>6, <2>3, <2>6, <2>8 DEF Has
  <2> QED
    BY <2>2, <2>3, <2>6, <2>9
<1>9. ASSUME NEW i \in 1..n
      PROVE  /\ off[i] \in Nat /\ a + off[i] < Len(text)
             /\ text[a + off[i] + 1] = IF i = n THEN "LF" ELSE "comma"
  <2>1. i \in 0..n
    BY <1>1
  <2>2. PICK o \in Nat : o = off[i] /\ o <= l
    BY <1>5, <2>1
  <2>3. a + o < Len(text)
    BY <1>6, <2>2
  <2>4. CASE i = n
    BY <1>4, <1>5, <2>2, <2>3, <2>4
  <2>5. CASE i # n
    <3>1. i + 1 \in 1..n /\ i + 1 # 1 /\ (i + 1) - 1 = i
      BY <1>1, <2>5
    <3>2. text[a + off[(i + 1) - 1] + 1] = "comma"
      BY <1>7, <3>1
    <3> QED
      BY <2>2, <2>3, <2>5, <3>1, <3>2
  <2> QED
    BY <2>4, <2>5
<1>10. ASSUME NEW i \in 1..n PROVE CellAtPlace(text, a, row, off, i)
  <2>1. CASE i = 1
    BY <1>1, <1>8, <1>9, <2>1 DEF CellAtPlace
  <2>2. CASE i # 1
    BY <1>1, <1>7, <1>9, <2>2 DEF CellAtPlace
  <2> QED
    BY <2>1, <2>2
<1>11. off[n] = l
  BY <1>5
<1> QED
  BY <1>1, <1>4, <1>10, <1>11, Zenon

(* The character c is the one after the first x, of y.                      *)
NextIs(text, x, y, c) == y = x + 1 /\ x < Len(text) /\ text[y] = c
InTurn(row, k, i, j) == k \in Nat /\ i \in Nat /\ j \in Nat /\ i = k + 1 /\ j = i + 1 /\ i < Len(row)

(* What stays the same while a text is read.                                *)
Reading(S, text, st) == Special \subseteq S /\ text \in Seq(S) /\ Run(text, st)
IsField(S, v) == v \in Seq(S)
IsRow(S, row) == row \in Seq(Seq(S)) /\ Len(row) # 0

LEMMA AfterComma ==
    ASSUME NEW S, NEW text, NEW st, Reading(S, text, st)
    PROVE  \A v : \A x \in Nat : \A y \in Nat : \A R, W, F : \A e :
               /\ IsField(S, v) /\ e = csvField(v) /\ EndsAt(text, y, e)
               /\ st[x] = Out(R, W, F) /\ NextIs(text, x, y, "comma")
               => st[y + Len(e)] = Out(R, Append(W, F), v)
<1> TAKE v
<1> TAKE x \in Nat
<1> TAKE y \in Nat
<1> TAKE R, W, F
<1> TAKE e
<1> HAVE /\ IsField(S, v) /\ e = csvField(v) /\ EndsAt(text, y, e)
         /\ st[x] = Out(R, W, F) /\ NextIs(text, x, y, "comma")
<1> USE DEF IsField, Reading
<1>1. Len(text) \in Nat /\ y = x + 1 /\ x < Len(text) /\ text[y] = "comma"
  BY DEF NextIs
<1>2. st[y] = Out(R, Append(W, F), << >>)
  BY <1>1, OneStep, Outside
<1>3. PICK X : X = Append(W, F)
  OBVIOUS
<1>4. EndsAt(text, y, e) /\ st[y] = Out(R, X, << >>)
  BY <1>2, <1>3
<1>5. st[y + Len(e)] = Out(R, X, v)
  BY <1>4, Field
<1> QED
  BY <1>3, <1>5

LEMMA AtLineFeed ==
    ASSUME NEW S, NEW text, NEW st, Reading(S, text, st)
    PROVE  \A x \in Nat : \A y \in Nat : \A R, W, F :
               NextIs(text, x, y, "LF") /\ st[x] = Out(R, W, F)
               => st[y] = Out(WithRow(R, Append(W, F)), << >>, << >>)
<1> TAKE x \in Nat
<1> TAKE y \in Nat
<1> TAKE R, W, F
<1> HAVE NextIs(text, x, y, "LF") /\ st[x] = Out(R, W, F)
<1> USE DEF NextIs, Reading
<1>0. Len(text) \in Nat
  OBVIOUS
<1>1. st[x + 1] = ParseCharacter(st[x], text[x + 1], IF x + 1 < Len(text) THEN text[x + 2] ELSE "end")
  BY <1>0, OneStep
<1>2. PICK next : st[y] = ParseCharacter(Out(R, W, F), "LF", next)
  BY <1>1
<1> QED
  BY <1>2, Outside

CellsAtPlace(text, a, row, off) == \A i \in 1..Len(row) : CellAtPlace(text, a, row, off, i)

(* After the field i, which k fields are before.                            *)
After(st, a, off, row, R, k, i) == st[a + off[i]] = Out(R, SubSeq(row, 1, k), row[i])
RowUpTo(st, a, off, row, R, k) == k < Len(row) => After(st, a, off, row, R, k, k + 1)

LEMMA RowStarts ==
    ASSUME NEW S, NEW text, NEW st, Reading(S, text, st), NEW row, IsRow(S, row),
           NEW a \in Nat, NEW off,
           CellAtPlace(text, a, row, off, 1), NEW R, st[a] = Out(R, << >>, << >>)
    PROVE  st[a + off[1]] = Out(R, << >>, row[1])
<1> USE DEF Reading, IsRow
<1>1. PICK v \in Seq(S) : v = row[1]
  <2>1. Len(row) \in Nat /\ 1 \in 1..Len(row)
    OBVIOUS
  <2> QED
    BY <2>1
<1>2. PICK e : e = csvField(v)
  OBVIOUS
<1>3. EndsAt(text, a, e) /\ a + Len(e) = a + off[1]
  BY <1>1, <1>2 DEF CellAtPlace, EndsAt
<1>4. st[a + Len(e)] = Out(R, << >>, v)
  BY <1>2, <1>3, Field
<1> QED
  BY <1>1, <1>3, <1>4

LEMMA RowGoesOn ==
    ASSUME NEW S, NEW text, NEW st, Reading(S, text, st), NEW row, IsRow(S, row), NEW a \in Nat, NEW off, NEW R
    PROVE  \A k, i, j :
               /\ InTurn(row, k, i, j)
               /\ CellAtPlace(text, a, row, off, i) /\ CellAtPlace(text, a, row, off, j)
               /\ After(st, a, off, row, R, k, i)
               => After(st, a, off, row, R, i, j)
<1> TAKE k, i, j
<1> HAVE /\ InTurn(row, k, i, j)
         /\ CellAtPlace(text, a, row, off, i) /\ CellAtPlace(text, a, row, off, j)
         /\ After(st, a, off, row, R, k, i)
<1> USE DEF After
<1>1. PICK n \in Nat : n = Len(row)
  BY DEF IsRow
<1>2. i \in 1..n /\ j \in 1..n /\ i # n /\ j # 1 /\ j - 1 = i /\ k \in 0..n /\ k < n /\ i = k + 1
      /\ k \in Nat /\ i \in Nat /\ j \in Nat
  BY <1>1 DEF InTurn
<1>3. PICK v : v = row[j] /\ IsField(S, v)
  BY <1>1, <1>2 DEF IsRow, IsField
<1>4. PICK e : e = csvField(v)
  OBVIOUS
<1>5. /\ off[i] \in Nat /\ a + off[i] < Len(text) /\ text[a + off[i] + 1] = "comma"
      /\ Has(text, a + off[i] + 1, e) /\ a + off[i] + 1 + Len(e) = a + off[j]
      /\ a + off[j] < Len(text) /\ text[a + off[j] + 1] # "quote"
  BY <1>1, <1>2, <1>3, <1>4 DEF CellAtPlace
<1>6. PICK x \in Nat : x = a + off[i]
  BY <1>5
<1>7. PICK y \in Nat : y = x + 1
  OBVIOUS
<1>8. NextIs(text, x, y, "comma") /\ EndsAt(text, y, e) /\ y + Len(e) = a + off[j]
  BY <1>5, <1>6, <1>7 DEF EndsAt, NextIs
<1>9. PICK W, F : W = SubSeq(row, 1, k) /\ F = row[i]
  OBVIOUS
<1>10. st[x] = Out(R, W, F)
  BY <1>6, <1>9
<1>11. st[y + Len(e)] = Out(R, Append(W, F), v)
  BY <1>3, <1>4, <1>8, <1>10, AfterComma
<1>12. SubSeq(row, 1, i) = Append(W, F)
  BY <1>1, <1>2, <1>9, Prefix DEF IsRow
<1> QED
  BY <1>3, <1>8, <1>11, <1>12

(* A row is read as it was written, with the line feed after it.            *)
LEMMA Row ==
    ASSUME NEW S, NEW text, NEW st, Reading(S, text, st), NEW row, IsRow(S, row),
           NEW a \in Nat, NEW off, CellsAtPlace(text, a, row, off),
           NEW R, st[a] = Out(R, << >>, << >>)
    PROVE  st[a + off[Len(row)] + 1] = Out(WithRow(R, row), << >>, << >>)
<1>1. PICK n \in Nat : n = Len(row) /\ n # 0
  BY DEF IsRow
<1> DEFINE P == {k \in Nat : RowUpTo(st, a, off, row, R, k)}
<1>2. 0 \in P
  <2>1. 1 \in 1..Len(row) /\ 0 + 1 = 1
    BY <1>1
  <2>2. SubSeq(row, 1, 0) = << >>
    <3>1. 0 \in 0..Len(row)
      BY <1>1
    <3> QED
      BY <3>1, Prefix DEF IsRow
  <2>3. st[a + off[1]] = Out(R, << >>, row[1])
    <3>1. CellAtPlace(text, a, row, off, 1)
      BY <2>1 DEF CellsAtPlace
    <3> QED
      BY <3>1, RowStarts
  <2> QED
    BY <2>1, <2>2, <2>3 DEF RowUpTo, After
<1>3. ASSUME NEW k \in P PROVE k + 1 \in P
  <2>1. PICK i \in Nat, j \in Nat : i = k + 1 /\ j = i + 1 /\ k \in Nat
    OBVIOUS
  <2>2. ASSUME i < n PROVE After(st, a, off, row, R, i, j)
    <3>1. i \in 1..n /\ j \in 1..n /\ k < n
      BY <2>1, <2>2
    <3>2. After(st, a, off, row, R, k, i)
      BY <1>1, <2>1, <3>1 DEF RowUpTo
    <3>3. InTurn(row, k, i, j)
      BY <1>1, <2>1, <2>2 DEF InTurn
    <3>4. CellAtPlace(text, a, row, off, i) /\ CellAtPlace(text, a, row, off, j)
      BY <1>1, <3>1 DEF CellsAtPlace
    <3> HIDE DEF P
    <3> QED
      BY <3>2, <3>3, <3>4, RowGoesOn
  <2>3. RowUpTo(st, a, off, row, R, i)
    BY <1>1, <2>1, <2>2 DEF RowUpTo
  <2> QED
    BY <2>1, <2>3
<1> HIDE DEF P
<1>4. P \in SUBSET Nat => P = Nat
  BY <1>2, <1>3, ByInduction
<1>5. PICK k \in Nat : k + 1 = n /\ k < n
  <2>1. n - 1 \in Nat /\ (n - 1) + 1 = n /\ n - 1 < n
    BY <1>1
  <2> QED
    BY <2>1
<1>6. RowUpTo(st, a, off, row, R, k)
  BY <1>4 DEF P
<1>7. st[a + off[n]] = Out(R, SubSeq(row, 1, k), row[n])
  BY <1>1, <1>5, <1>6 DEF RowUpTo, After
<1>8. SubSeq(row, 1, n) = row /\ SubSeq(row, 1, n) = Append(SubSeq(row, 1, k), row[n])
  <2>1. k \in 0..Len(row)
    BY <1>1, <1>5
  <2> QED
    BY <1>1, <1>5, <2>1, Prefix DEF IsRow
<1>9. PICK W, F : W = SubSeq(row, 1, k) /\ F = row[n]
  OBVIOUS
<1>10. PICK x \in Nat, y \in Nat : x = a + off[n] /\ NextIs(text, x, y, "LF")
  <2>1. n \in 1..n
    BY <1>1
  <2>2. off[n] \in Nat /\ a + off[n] < Len(text) /\ text[a + off[n] + 1] = "LF"
    BY <1>1, <2>1 DEF CellsAtPlace, CellAtPlace
  <2>3. a + off[n] \in Nat /\ a + off[n] + 1 \in Nat
    BY <2>2
  <2> QED
    BY <2>2, <2>3 DEF NextIs
<1>11. Append(W, F) = row
  BY <1>8, <1>9
<1>12. st[x] = Out(R, W, F) /\ NextIs(text, x, y, "LF")
  BY <1>7, <1>9, <1>10
<1>13. st[y] = Out(WithRow(R, Append(W, F)), << >>, << >>)
  BY <1>12, AtLineFeed
<1>14. y = a + off[Len(row)] + 1
  BY <1>1, <1>10 DEF NextIs
<1> QED
  BY <1>11, <1>13, <1>14

-----------------------------------------------------------------------------
(* The lines of a text.                                                     *)
Line(row) == Append(Between(Fields(row)), "LF")
Lines(rows) == [n \in DOMAIN rows |-> Line(rows[n])]

LEMMA LineIs ==
    ASSUME NEW S, Special \subseteq S, NEW row \in Seq(Seq(S))
    PROVE  \E B \in Seq(S) : /\ Line(row) = Append(B, "LF") /\ Line(row) \in Seq(S)
                             /\ \E off : Parts(Cells(Fields(row)), off, B)
<1>1. PICK g \in Seq(Seq(S)) : g = Cells(Fields(row))
  BY CellsAre
<1>2. Between(Fields(row)) = FlattenSeq(g)
  BY <1>1 DEF Between, Cells
<1>3. PICK B \in Seq(S) : B = FlattenSeq(g) /\ \E off : Parts(g, off, B)
  BY FlattenParts
<1>4. "LF" \in S
  BY DEF Special
<1>5. Append(B, "LF") \in Seq(S)
  BY <1>4
<1> QED
  BY <1>1, <1>2, <1>3, <1>5 DEF Line

LEMMA LineRead ==
    ASSUME NEW S, NEW text, NEW st, Reading(S, text, st)
    PROVE  \A row, a, R :
               /\ IsRow(S, row) /\ Has(text, a, Line(row)) /\ st[a] = Out(R, << >>, << >>)
               => st[a + Len(Line(row))] = Out(WithRow(R, row), << >>, << >>)
<1> TAKE row, a, R
<1> HAVE IsRow(S, row) /\ Has(text, a, Line(row)) /\ st[a] = Out(R, << >>, << >>)
<1>1. Special \subseteq S /\ row \in Seq(Seq(S)) /\ Len(row) # 0 /\ text \in Seq(S) /\ a \in Nat
  BY DEF Reading, IsRow, Has
<1>2. PICK B \in Seq(S) : /\ Line(row) = Append(B, "LF")
                          /\ \E off : Parts(Cells(Fields(row)), off, B)
  BY <1>1, LineIs
<1>3. PICK off : Parts(Cells(Fields(row)), off, B)
  BY <1>2
<1>4. PICK l \in Nat : l = Len(B)
  OBVIOUS
<1>5. /\ Len(Line(row)) = l + 1 /\ Line(row)[l + 1] = "LF"
      /\ \A j \in 1..l : Line(row)[j] = B[j]
  <2>1. PICK c : c = "LF"
    OBVIOUS
  <2>2. Len(Append(B, c)) = l + 1 /\ Append(B, c)[l + 1] = c /\ \A j \in 1..l : Append(B, c)[j] = B[j]
    BY <1>4
  <2> QED
    BY <1>2, <2>1, <2>2
<1>6. /\ a + (l + 1) <= Len(text) /\ Len(text) \in Nat
      /\ \A j \in 1..l + 1 : text[a + j] = Line(row)[j]
  BY <1>1, <1>5 DEF Has
<1>7. Has(text, a, B)
  <2>1. \A j \in 1..l : j \in 1..l + 1
    OBVIOUS
  <2>2. \A j \in 1..l : text[a + j] = B[j]
    BY <1>5, <1>6, <2>1
  <2>3. a + l <= Len(text)
    BY <1>1, <1>6
  <2> QED
    BY <1>1, <1>4, <2>2, <2>3 DEF Has
<1>8. a + Len(B) < Len(text) /\ text[a + Len(B) + 1] = "LF"
  <2>1. l + 1 \in 1..l + 1 /\ a + (l + 1) = a + l + 1 /\ a + l < Len(text)
    BY <1>1, <1>6
  <2> QED
    BY <1>4, <1>5, <1>6, <2>1
<1>9. off[Len(row)] = Len(B) /\ CellsAtPlace(text, a, row, off)
  BY <1>1, <1>3, <1>7, <1>8, CellPlaces DEF CellsAtPlace
<1>10. st[a + off[Len(row)] + 1] = Out(WithRow(R, row), << >>, << >>)
  <2>1. a \in Nat /\ IsRow(S, row) /\ st[a] = Out(R, << >>, << >>) /\ CellsAtPlace(text, a, row, off)
    BY <1>1, <1>9
  <2> HIDE <1>1, <1>9
  <2> QED
    BY <2>1, Row
<1>11. a + l + 1 = a + (l + 1)
  BY <1>1
<1> QED
  BY <1>4, <1>5, <1>9, <1>10, <1>11

NotBlank(row) == \E i \in DOMAIN row : row[i] # << >>
TextUpTo(st, off, rows, k) == st[off[k]] = Out(SubSeq(rows, 1, k), << >>, << >>)
NextIn(rows, k, i) == k \in Nat /\ i = k + 1 /\ i <= Len(rows)
LineAt(text, off, rows, k, i) ==
    Has(text, off[k], Line(rows[i])) /\ off[i] = off[k] + Len(Line(rows[i]))

LEMMA LinesAre ==
    ASSUME NEW S, Special \subseteq S, NEW rows \in Seq(Seq(Seq(S)))
    PROVE  /\ Lines(rows) \in Seq(Seq(S)) /\ Len(Lines(rows)) = Len(rows)
           /\ \A i \in 1..Len(rows) : Lines(rows)[i] = Line(rows[i]) /\ Line(rows[i]) \in Seq(S)
<1>1. PICK n \in Nat : n = Len(rows) /\ DOMAIN rows = 1..n
  BY LenProperties
<1>2. \A i \in 1..n : Line(rows[i]) \in Seq(S)
  <2> TAKE i \in 1..n
  <2>1. rows[i] \in Seq(Seq(S))
    BY <1>1
  <2> QED
    BY <2>1, LineIs
<1>3. PICK f : f = Lines(rows)
  OBVIOUS
<1>4. f = [i \in 1..n |-> Line(rows[i])]
  BY <1>1, <1>3 DEF Lines
<1>5. f \in [1..n -> Seq(S)]
  BY <1>2, <1>4
<1>6. f \in Seq(Seq(S)) /\ Len(f) = n
  BY <1>5, SequenceOf
<1>7. \A i \in 1..n : f[i] = Line(rows[i])
  BY <1>4
<1> QED
  BY <1>1, <1>2, <1>3, <1>6, <1>7

LEMMA LinesAt ==
    ASSUME NEW S, Special \subseteq S, NEW rows \in Seq(Seq(Seq(S))), NEW text \in Seq(S), NEW off,
           Parts(Lines(rows), off, text)
    PROVE  \A k, i : NextIn(rows, k, i) => LineAt(text, off, rows, k, i)
<1> TAKE k, i
<1> HAVE NextIn(rows, k, i)
<1>1. PICK n \in Nat : n = Len(rows)
  OBVIOUS
<1>2. k \in 0..n /\ k \in Nat /\ i \in 1..n /\ i - 1 = k /\ i \in Nat
  BY <1>1 DEF NextIn
<1>3. PICK e : e = Line(rows[i]) /\ e = Lines(rows)[i] /\ e \in Seq(S) /\ Len(Lines(rows)) = n
  BY <1>1, <1>2, LinesAre
<1>4. PICK m \in Nat : m = Len(e)
  BY <1>3
<1>5. PICK o \in Nat : o = off[k]
  BY <1>2, <1>3 DEF Parts
<1>6. off[i] = o + m /\ off[i] <= Len(text) /\ \A j \in 1..m : text[o + j] = e[j]
  <2>1. /\ off[i] = off[i - 1] + Len(Lines(rows)[i]) /\ off[i] <= Len(text)
        /\ \A j \in 1..Len(Lines(rows)[i]) : text[off[i - 1] + j] = Lines(rows)[i][j]
    BY <1>2, <1>3 DEF Parts
  <2> QED
    BY <1>2, <1>3, <1>4, <1>5, <2>1
<1>7. Has(text, o, e)
  BY <1>4, <1>6 DEF Has
<1> QED
  BY <1>3, <1>4, <1>5, <1>6, <1>7 DEF LineAt

LEMMA TextGoesOn ==
    ASSUME NEW S, NEW text, NEW st, Reading(S, text, st), NEW rows \in Seq(Seq(Seq(S))), NEW off
    PROVE  \A k, i :
               /\ NextIn(rows, k, i) /\ NotBlank(rows[i])
               /\ LineAt(text, off, rows, k, i) /\ TextUpTo(st, off, rows, k)
               => TextUpTo(st, off, rows, i)
<1> TAKE k, i
<1> HAVE /\ NextIn(rows, k, i) /\ NotBlank(rows[i])
         /\ LineAt(text, off, rows, k, i) /\ TextUpTo(st, off, rows, k)
<1>1. PICK n \in Nat : n = Len(rows)
  OBVIOUS
<1>2. k \in 0..n /\ k < n /\ i \in 1..n /\ i = k + 1
  BY <1>1 DEF NextIn
<1>3. PICK row \in Seq(Seq(S)) : row = rows[i]
  BY <1>1, <1>2
<1>4. IsRow(S, row)
  <2>1. PICK j \in DOMAIN row : TRUE
    BY <1>3 DEF NotBlank
  <2>2. DOMAIN row = 1..Len(row) /\ Len(row) \in Nat
    OBVIOUS
  <2>3. Len(row) # 0
    BY <2>1, <2>2
  <2> QED
    BY <2>3 DEF IsRow
<1>5. PICK a, R : a = off[k] /\ R = SubSeq(rows, 1, k)
  OBVIOUS
<1>6. Has(text, a, Line(row)) /\ off[i] = a + Len(Line(row)) /\ st[a] = Out(R, << >>, << >>)
  BY <1>3, <1>5 DEF LineAt, TextUpTo
<1>7. st[a + Len(Line(row))] = Out(WithRow(R, row), << >>, << >>)
  BY <1>4, <1>6, LineRead
<1>8. WithRow(R, row) = Append(R, row)
  BY <1>3 DEF WithRow, NotBlank
<1>9. SubSeq(rows, 1, i) = Append(R, row)
  BY <1>1, <1>2, <1>3, <1>5, Prefix
<1> QED
  BY <1>6, <1>7, <1>8, <1>9 DEF TextUpTo

(* What parseCsv (render_html.js) reads of what csvText (query_wikidata.js) *)
(* writes is what was written: whatever the characters of the fields are,   *)
(* quotes, commas and line ends among them, as long as no row is blank.     *)
THEOREM ReadAsWritten ==
    ASSUME NEW Char, NEW rows \in Seq(Seq(Seq(Char))),
           \A n \in DOMAIN rows : \E i \in DOMAIN rows[n] : rows[n][i] # << >>
    PROVE  parseCsv(csvText(rows)) = [rows |-> rows, unfinished |-> FALSE]
<1>1. PICK S : S = Char \cup Special
  OBVIOUS
<1>2. Special \subseteq S /\ rows \in Seq(Seq(Seq(S)))
  <2>1. Special \subseteq S /\ Char \subseteq S
    BY <1>1
  <2>2. \A s \in Seq(Char) : s \in Seq(S)
    BY <2>1, SeqMonotonic
  <2>3. Seq(Char) \subseteq Seq(S)
    BY <2>2
  <2>4. \A s \in Seq(Seq(Char)) : s \in Seq(Seq(S))
    BY <2>3, SeqMonotonic
  <2>5. Seq(Seq(Char)) \subseteq Seq(Seq(S))
    BY <2>4
  <2>6. rows \in Seq(Seq(Seq(S)))
    BY <2>5, SeqMonotonic
  <2> QED
    BY <2>1, <2>6
<1>3. PICK n \in Nat : n = Len(rows) /\ DOMAIN rows = 1..n
  BY LenProperties
<1>4. PICK text \in Seq(S) : text = csvText(rows) /\ \E off : Parts(Lines(rows), off, text)
  <2>1. csvText(rows) = FlattenSeq(Lines(rows))
    BY DEF csvText, Lines, Line, Fields
  <2>2. Lines(rows) \in Seq(Seq(S)) 
    BY <1>2, LinesAre
  <2> QED
    BY <2>1, <2>2, FlattenParts
<1>5. PICK off : Parts(Lines(rows), off, text)
  BY <1>4
<1>6. PICK st : Run(text, st) /\ parseCsv(text) = Result(st[Len(text)])
  BY RunExists
<1>7. Reading(S, text, st)
  BY <1>2, <1>6 DEF Reading
<1>8. off[0] = 0 /\ off[n] = Len(text)
  BY <1>2, <1>3, <1>5, LinesAre DEF Parts
<1> DEFINE P == {k \in Nat : k <= n => TextUpTo(st, off, rows, k)}
<1>9. 0 \in P
  <2>1. st[off[0]] = Out(<< >>, << >>, << >>)
    BY <1>6, <1>8 DEF Run, Start, Out, State
  <2>2. SubSeq(rows, 1, 0) = << >>
    <3>1. 0 \in 0..Len(rows)
      BY <1>3
    <3> QED
      BY <1>2, <3>1, Prefix
  <2> QED
    BY <2>1, <2>2 DEF TextUpTo
<1>10. ASSUME NEW k \in P PROVE k + 1 \in P
  <2> SUFFICES ASSUME k + 1 <= n PROVE TextUpTo(st, off, rows, k + 1)
    OBVIOUS
  <2>1. PICK i : i = k + 1
    OBVIOUS
  <2>2. k \in Nat /\ i \in 1..n /\ k <= n
    BY <1>3, <2>1
  <2>3. NextIn(rows, k, i)
    BY <1>3, <2>1, <2>2 DEF NextIn
  <2>4. TextUpTo(st, off, rows, k)
    BY <2>2
  <2>5. NotBlank(rows[i])
    BY <1>3, <2>2 DEF NotBlank
  <2> HIDE DEF P
  <2>6. LineAt(text, off, rows, k, i)
    BY <1>2, <1>5, <2>3, LinesAt
  <2>7. TextUpTo(st, off, rows, i)
    BY <1>2, <1>7, <2>3, <2>4, <2>5, <2>6, TextGoesOn
  <2> QED
    BY <2>1, <2>7
<1> HIDE DEF P
<1>11. P \in SUBSET Nat => P = Nat
  BY <1>9, <1>10, ByInduction
<1>12. st[Len(text)] = Out(rows, << >>, << >>)
  <2>1. TextUpTo(st, off, rows, n)
    BY <1>3, <1>11 DEF P
  <2>2. SubSeq(rows, 1, n) = rows
    <3>1. 0 \in 0..Len(rows)
      BY <1>3
    <3> QED
      BY <1>2, <1>3, <3>1, Prefix
  <2> QED
    BY <1>8, <2>1, <2>2 DEF TextUpTo
<1>13. Result(Out(rows, << >>, << >>)) = [rows |-> rows, unfinished |-> FALSE]
  BY DEF Result, Out, State
<1> QED
  BY <1>4, <1>6, <1>12, <1>13
===============================================================================
