------------------------------ MODULE TableLemmas ------------------------------
(***************************************************************************)
(* Facts about the operators the models of the SQLite tables are made of:  *)
(* the bounds of a set of numbers, the first matching place of a sequence, *)
(* INSERT OR REPLACE on a table kept in the order of its rowids, and the   *)
(* folds over a log.                                                       *)
(***************************************************************************)
EXTENDS Integers, Sequences, SequencesExt, SequenceTheorems, WellFoundedInduction,
        TLAPS

(* Every set of natural numbers has a smallest one.                        *)
LEMMA Smallest ==
  ASSUME NEW T \in SUBSET Nat, T # {}
  PROVE  \E x \in T : \A y \in T : x <= y
<1> DEFINE Less == {ss \in Nat \X Nat : ss[1] < ss[2]}
<1>1. IsWellFoundedOn(Less, Nat)
  BY NatLessThanWellFounded DEF OpToRel
<1>2. \E x \in T : \A y \in T : ~(<<y, x>> \in Less)
  <2> HIDE DEF Less
  <2> QED
    BY <1>1, WFMin
<1>3. \A x, y \in Nat : y < x => <<y, x>> \in Less
  OBVIOUS
<1> HIDE DEF Less
<1>4. PICK x \in T : \A y \in T : ~(<<y, x>> \in Less)
  BY <1>2
<1>5. ASSUME NEW y \in T PROVE x <= y
  <2>1. x \in Nat /\ y \in Nat /\ ~(y < x)
    BY <1>3, <1>4
  <2> QED
    BY <2>1
<1> QED
  BY <1>4, <1>5

(* What SelectInSeq computes from the places that match.                   *)
LEMMA LowestPlace ==
  ASSUME NEW n \in Nat, NEW I \in SUBSET (1..n)
  PROVE  /\ ((IF I # {} THEN Min(I) ELSE 0) # 0) <=> (I # {})
         /\ I # {} => (IF I # {} THEN Min(I) ELSE 0) \in I
<1>1. CASE I = {}
  BY <1>1
<1>2. CASE I # {}
  <2>1. \E x \in I : \A y \in I : x <= y
    BY <1>2, Smallest
  <2>2. Min(I) \in I
    BY <2>1 DEF Min
  <2> QED
    BY <1>2, <2>2
<1> QED
  BY <1>1, <1>2

(* The largest of a bounded set.                                           *)
LEMMA Largest ==
  ASSUME NEW n \in Nat, NEW I \in SUBSET (0..n), I # {}
  PROVE  Max(I) \in I /\ \A y \in I : y <= Max(I)
<1> DEFINE T == {n - x : x \in I}
<1>1. \A x \in I : x \in Nat /\ n - x \in Nat /\ n - x \in T
  OBVIOUS
<1>2. PICK m \in T : \A y \in T : m <= y
  <2>1. T \in SUBSET Nat
    BY <1>1
  <2>2. T # {}
    BY <1>1
  <2> HIDE DEF T
  <2> QED
    BY <2>1, <2>2, Smallest
<1>3. PICK x \in I : m = n - x
  BY <1>2
<1>4. \A y \in I : x >= y
  <2> TAKE y \in I
  <2>1. m <= n - y /\ x \in Nat /\ y \in Nat
    BY <1>1, <1>2
  <2> QED
    BY <1>3, <2>1
<1>5. Max(I) \in I /\ \A y \in I : Max(I) >= y
  BY <1>4 DEF Max
<1>6. \A y \in I : y \in Nat
  BY <1>1
<1> QED
  BY <1>5, <1>6

-----------------------------------------------------------------------------
Rows(table) == {table[i] : i \in 1..Len(table)}

LEMMA RemoveAtPlaces ==
  ASSUME NEW S, NEW table \in Seq(S), NEW i \in 1..Len(table)
  PROVE  /\ RemoveAt(table, i) \in Seq(S)
         /\ Len(RemoveAt(table, i)) = Len(table) - 1
         /\ \A k \in 1..(Len(table) - 1) :
              RemoveAt(table, i)[k] = IF k < i THEN table[k] ELSE table[k + 1]
<1> DEFINE front == SubSeq(table, 1, i - 1)
           back == SubSeq(table, i + 1, Len(table))
<1>1. /\ front \in Seq(S) /\ Len(front) = i - 1
      /\ \A k \in 1..(i - 1) : front[k] = table[k]
  OBVIOUS
<1>2. /\ back \in Seq(S) /\ Len(back) = Len(table) - i
      /\ \A k \in 1..(Len(table) - i) : back[k] = table[i + k]
  OBVIOUS
<1> HIDE DEF front, back
<1>3. /\ front \o back \in Seq(S)
      /\ Len(front \o back) = Len(front) + Len(back)
      /\ \A k \in 1..(Len(front) + Len(back)) :
           (front \o back)[k] = IF k <= Len(front) THEN front[k] ELSE back[k - Len(front)]
  BY <1>1, <1>2, ConcatProperties
<1>5. Len(table) \in Nat
  BY LenProperties
<1>4. ASSUME NEW k \in 1..(Len(table) - 1)
      PROVE  (front \o back)[k] = IF k < i THEN table[k] ELSE table[k + 1]
  <2>0. k \in 1..(Len(front) + Len(back))
    BY <1>1, <1>2, <1>5
  <2>1. CASE k < i
    <3>1. k <= Len(front) /\ k \in 1..(i - 1)
      BY <1>1, <1>5, <2>1
    <3> QED
      BY <1>1, <1>3, <2>0, <2>1, <3>1
  <2>2. CASE ~(k < i)
    <3>1. ~(k <= Len(front)) /\ k - Len(front) \in 1..(Len(table) - i)
          /\ i + (k - Len(front)) = k + 1
      BY <1>1, <1>5, <2>2
    <3>2. back[k - Len(front)] = table[k + 1]
      BY <1>2, <3>1
    <3> QED
      BY <1>3, <2>0, <2>2, <3>1, <3>2
  <2> QED
    BY <2>1, <2>2
<1>6. RemoveAt(table, i) = front \o back
  BY DEF RemoveAt, front, back
<1>7. Len(front) + Len(back) = Len(table) - 1
  BY <1>1, <1>2, <1>5
<1> QED
  BY <1>3, <1>4, <1>6, <1>7

(* What INSERT OR REPLACE makes of a table; same holds the places of the   *)
(* rows with the key of the new one.  The new row comes last, no other row *)
(* is new, the rows of other keys stay, and two places never come from one.*)
HasReplaced(S, table, row, same, new) ==
  /\ new \in Seq(S)
  /\ Rows(new) \subseteq Rows(table) \cup {row}
  /\ row \in Rows(new)
  /\ \A k \in (1..Len(table)) \ same : table[k] \in Rows(new)
  /\ new[Len(new)] = row
  /\ \A i \in 1..(Len(new) - 1) : new[i] \in Rows(table)
  /\ \A i, k \in 1..(Len(new) - 1) : i # k =>
       \E a, b \in 1..Len(table) : a # b /\ new[i] = table[a] /\ new[k] = table[b]

LEMMA Replaced ==
  ASSUME NEW S, NEW table \in Seq(S), NEW row \in S, NEW same \in SUBSET (1..Len(table)),
         NEW out, same # {} => out \in same
  PROVE  HasReplaced(S, table, row, same,
                     Append(IF same = {} THEN table ELSE RemoveAt(table, out), row))
<1> DEFINE new == Append(IF same = {} THEN table ELSE RemoveAt(table, out), row)
<1> SUFFICES HasReplaced(S, table, row, same, new)
  OBVIOUS
<1>1. CASE same = {}
  <2>1. /\ new = Append(table, row) /\ Len(new) = Len(table) + 1 /\ new \in Seq(S)
        /\ new[Len(new)] = row /\ \A i \in 1..Len(table) : new[i] = table[i]
        /\ Len(table) \in Nat
    BY <1>1
  <2> HIDE DEF new
  <2>2. \A i \in 1..(Len(new) - 1) : i \in 1..Len(table) /\ new[i] = table[i]
    BY <2>1
  <2>3. \A i \in 1..Len(new) : i = Len(new) \/ i \in 1..Len(table)
    BY <2>1
  <2>4. \A i \in 1..Len(table) : i \in 1..Len(new)
    BY <2>1
  <2>5. Len(new) \in 1..Len(new)
    BY <2>1
  <2>6. Rows(new) \subseteq Rows(table) \cup {row} /\ row \in Rows(new)
    BY <2>1, <2>2, <2>3, <2>5 DEF Rows
  <2>7. \A k \in (1..Len(table)) \ same : table[k] \in Rows(new)
    BY <2>1, <2>4 DEF Rows
  <2>8. \A i \in 1..(Len(new) - 1) : new[i] \in Rows(table)
    BY <2>2 DEF Rows
  <2>9. ASSUME NEW i \in 1..(Len(new) - 1), NEW k \in 1..(Len(new) - 1), i # k
        PROVE  \E a, b \in 1..Len(table) : a # b /\ new[i] = table[a] /\ new[k] = table[b]
    BY <2>2, <2>9
  <2> QED
    BY <2>1, <2>6, <2>7, <2>8, <2>9 DEF HasReplaced
<1>2. CASE same # {}
  <2> DEFINE rest == RemoveAt(table, out)
  <2>0. out \in same
    BY <1>2
  <2>1. out \in same /\ out \in 1..Len(table) /\ Len(table) \in Nat
    BY <2>0, LenProperties
  <2>2. /\ rest \in Seq(S) /\ Len(rest) = Len(table) - 1
        /\ \A k \in 1..(Len(table) - 1) :
             rest[k] = IF k < out THEN table[k] ELSE table[k + 1]
    BY <2>1, RemoveAtPlaces
  <2>3. new = Append(rest, row)
    BY <1>2
  <2> HIDE DEF rest, new
  <2>4. /\ Len(new) = Len(table) /\ new[Len(new)] = row /\ new \in Seq(S)
        /\ \A k \in 1..(Len(table) - 1) : new[k] = rest[k]
    <3>1. /\ Append(rest, row) \in Seq(S) /\ Len(Append(rest, row)) = Len(rest) + 1
          /\ \A k \in 1..Len(rest) : Append(rest, row)[k] = rest[k]
          /\ Append(rest, row)[Len(rest) + 1] = row
      BY <2>2, AppendProperties
    <3>2. Len(rest) + 1 = Len(table)
      BY <2>1, <2>2
    <3> QED
      BY <2>2, <2>3, <3>1, <3>2
  <2> DEFINE From(k) == IF k < out THEN k ELSE k + 1
  <2>5. \A k \in 1..(Len(new) - 1) : From(k) \in 1..Len(table) /\ new[k] = table[From(k)]
    BY <2>1, <2>2, <2>4
  <2>6. \A i, k \in 1..(Len(new) - 1) : i # k => From(i) # From(k)
    BY <2>1, <2>4
  <2>7. \A k \in 1..Len(table) : k # out => \E i \in 1..(Len(new) - 1) : From(i) = k
    <3> SUFFICES ASSUME NEW k \in 1..Len(table), k # out
                 PROVE  \E i \in 1..(Len(new) - 1) : From(i) = k
      OBVIOUS
    <3>1. CASE k < out
      <4>1. k \in 1..(Len(new) - 1) /\ From(k) = k
        BY <2>1, <2>4, <3>1
      <4> QED
        BY <4>1
    <3>2. CASE k > out
      <4>1. k - 1 \in 1..(Len(new) - 1) /\ From(k - 1) = k
        BY <2>1, <2>4, <3>2
      <4> QED
        BY <4>1
    <3>3. k < out \/ k > out
      BY <2>1
    <3> QED
      BY <3>1, <3>2, <3>3
  <2> HIDE DEF From
  <2>8. \A i \in 1..Len(new) : i = Len(new) \/ i \in 1..(Len(new) - 1)
    BY <2>1, <2>4
  <2>9. (\A i \in 1..(Len(new) - 1) : i \in 1..Len(new)) /\ Len(new) \in 1..Len(new)
    BY <2>1, <2>4
  <2>10. ASSUME NEW i \in 1..Len(new) PROVE new[i] \in Rows(table) \cup {row}
    BY <2>4, <2>5, <2>8 DEF Rows
  <2>11. ASSUME NEW k \in (1..Len(table)) \ same PROVE table[k] \in Rows(new)
    <3>1. PICK i \in 1..(Len(new) - 1) : From(i) = k
      BY <2>1, <2>7
    <3>2. new[i] = table[k] /\ i \in 1..Len(new)
      BY <2>5, <2>9, <3>1
    <3> QED
      BY <3>2 DEF Rows
  <2>12. \A i \in 1..(Len(new) - 1) : new[i] \in Rows(table)
    BY <2>5 DEF Rows
  <2>13. ASSUME NEW i \in 1..(Len(new) - 1), NEW k \in 1..(Len(new) - 1), i # k
         PROVE  \E a, b \in 1..Len(table) : a # b /\ new[i] = table[a] /\ new[k] = table[b]
    <3>1. /\ From(i) \in 1..Len(table) /\ new[i] = table[From(i)]
          /\ From(k) \in 1..Len(table) /\ new[k] = table[From(k)]
          /\ From(i) # From(k)
      BY <2>5, <2>6, <2>13
    <3> QED
      BY <3>1
  <2>14. row \in Rows(new) /\ Rows(new) \subseteq Rows(table) \cup {row}
    BY <2>4, <2>9, <2>10 DEF Rows
  <2> QED
    BY <2>4, <2>11, <2>12, <2>13, <2>14 DEF HasReplaced
<1> QED
  BY <1>1, <1>2

-----------------------------------------------------------------------------
(* Folds.  FoldLeft takes the places of a sequence from the last one down: *)
(* on 1..i it does the step of place i to what it made of 1..(i - 1).      *)

LEMMA LastOfFirst ==
  ASSUME NEW i \in Nat \ {0}
  PROVE  Max(1..i) = i /\ (1..i) \ {i} = 1..(i - 1) /\ 1..i # {}
<1>1. 1..i \in SUBSET (0..i) /\ i \in 1..i
  OBVIOUS
<1>2. Max(1..i) \in 1..i /\ i <= Max(1..i)
  BY <1>1, Largest
<1> QED
  BY <1>2

(* Two ways of counting up that start alike and step alike are alike.      *)
StepsAlike(n, f, g) ==
  f[0] = g[0] /\ \A i \in 1..n : f[i - 1] = g[i - 1] => f[i] = g[i]

Alike(n, f, g) == \A i \in 0..n : f[i] = g[i]

LEMMA SameByStep ==
  ASSUME NEW n \in Nat, NEW f, NEW g, StepsAlike(n, f, g)
  PROVE  Alike(n, f, g)
<1> USE DEF StepsAlike, Alike
<1> DEFINE differ == {i \in 0..n : f[i] # g[i]}
<1> SUFFICES ASSUME differ # {} PROVE FALSE
  OBVIOUS
<1>1. differ \in SUBSET Nat
  OBVIOUS
<1>2. PICK i \in differ : \A k \in differ : i <= k
  <2> HIDE DEF differ
  <2> QED
    BY <1>1, Smallest
<1>3. i \in 1..n /\ i - 1 \in 0..n /\ ~(i <= i - 1)
  <2>1. i \in 0..n /\ i # 0
    OBVIOUS
  <2> QED
    BY <2>1
<1>4. f[i - 1] = g[i - 1]
  BY <1>2, <1>3
<1> QED
  BY <1>3, <1>4

(* The recursive function a fold is defined by exists.                     *)
Folding(n, F, s, c, h) ==
  \A t \in SUBSET (1..n) : h[t] = IF t = {} THEN c ELSE F[<<h[t \ {Max(t)}], s[Max(t)]>>]

LEMMA FoldExists ==
  ASSUME NEW n \in Nat, NEW X, NEW Y, NEW F \in [X \X Y -> X], NEW s \in [1..n -> Y],
         NEW c \in X
  PROVE  \E h \in [SUBSET (1..n) -> X] : Folding(n, F, s, c, h)
<1> DEFINE Exists(m) == \E h \in [SUBSET (1..m) -> X] : Folding(m, F, s, c, h)
           missing == {m \in 0..n : ~Exists(m)}
<1>1. Exists(0)
  <2> DEFINE h == [t \in SUBSET (1..0) |-> c]
  <2>1. h \in [SUBSET (1..0) -> X] /\ \A t \in SUBSET (1..0) : t = {} /\ h[t] = c
    OBVIOUS
  <2> HIDE DEF h
  <2> QED
    BY <2>1 DEF Folding
<1>2. ASSUME NEW m \in 1..n, Exists(m - 1) PROVE Exists(m)
  <2>1. PICK h \in [SUBSET (1..(m - 1)) -> X] : Folding(m - 1, F, s, c, h)
    BY <1>2
  <2>2. m \in Nat \ {0} /\ s[m] \in Y
    OBVIOUS
  <2>3. /\ \A t \in SUBSET (1..m) : t \ {m} \in SUBSET (1..(m - 1))
        /\ \A t \in SUBSET (1..m) : m \notin t => t \in SUBSET (1..(m - 1))
    BY <2>2
  <2> DEFINE g == [t \in SUBSET (1..m) |-> IF m \in t THEN F[<<h[t \ {m}], s[m]>>] ELSE h[t]]
  <2>4. g \in [SUBSET (1..m) -> X]
    <3> SUFFICES ASSUME NEW t \in SUBSET (1..m)
                 PROVE  (IF m \in t THEN F[<<h[t \ {m}], s[m]>>] ELSE h[t]) \in X
      OBVIOUS
    <3>1. h[t \ {m}] \in X
      BY <2>1, <2>3
    <3>2. <<h[t \ {m}], s[m]>> \in X \X Y
      BY <2>2, <3>1
    <3>3. m \notin t => h[t] \in X
      BY <2>1, <2>3
    <3> QED
      BY <3>2, <3>3
  <2>5. ASSUME NEW t \in SUBSET (1..m)
        PROVE  g[t] = IF t = {} THEN c ELSE F[<<g[t \ {Max(t)}], s[Max(t)]>>]
    <3>1. /\ g[t] = IF m \in t THEN F[<<h[t \ {m}], s[m]>>] ELSE h[t]
          /\ \A u \in SUBSET (1..m) : m \notin u => g[u] = h[u]
      OBVIOUS
    <3> HIDE DEF g
    <3>2. t # {} => Max(t) \in t /\ \A y \in t : y <= Max(t)
      <4>1. m \in Nat /\ t \in SUBSET (0..m)
        BY <2>2
      <4> QED
        BY <4>1, Largest
    <3>3. CASE t = {}
      <4>1. m \notin t /\ t \in SUBSET (1..(m - 1))
        BY <3>3
      <4>2. h[t] = c
        BY <2>1, <3>3, <4>1 DEF Folding
      <4> QED
        BY <3>1, <3>3, <4>1, <4>2
    <3>4. CASE m \in t
      <4>1. Max(t) = m
        <5>1. m <= Max(t) /\ Max(t) \in 1..m
          BY <3>2, <3>4
        <5> QED
          BY <2>2, <5>1
      <4>2. t \ {m} \in SUBSET (1..m) /\ m \notin t \ {m} /\ t # {}
        BY <3>4
      <4> QED
        BY <3>1, <3>4, <4>1, <4>2
    <3>5. CASE t # {} /\ m \notin t
      <4>1. t \in SUBSET (1..(m - 1)) /\ t \ {Max(t)} \in SUBSET (1..m) /\ m \notin t \ {Max(t)}
        BY <2>3, <3>5
      <4>2. h[t] = F[<<h[t \ {Max(t)}], s[Max(t)]>>]
        BY <2>1, <3>5, <4>1 DEF Folding
      <4> QED
        BY <3>1, <3>5, <4>1, <4>2
    <3> QED
      BY <3>3, <3>4, <3>5
  <2> HIDE DEF g
  <2>6. Folding(m, F, s, c, g)
    BY <2>5 DEF Folding
  <2> QED
    BY <2>4, <2>6
<1> HIDE DEF Exists
<1>3. missing = {}
  <2> SUFFICES ASSUME missing # {} PROVE FALSE
    OBVIOUS
  <2>1. missing \in SUBSET Nat
    OBVIOUS
  <2>2. PICK m \in missing : \A k \in missing : m <= k
    <3> HIDE DEF missing
    <3> QED
      BY <2>1, Smallest
  <2>3. m \in 0..n /\ m # 0 /\ ~Exists(m)
    BY <1>1
  <2>4. m \in 1..n /\ m - 1 \in 0..n /\ ~(m <= m - 1)
    BY <2>3
  <2>5. Exists(m - 1)
    BY <2>2, <2>4
  <2> QED
    BY <1>2, <2>3, <2>4, <2>5
<1>4. Exists(n)
  BY <1>3
<1> QED
  BY <1>4 DEF Exists

(* The values of such a function on the first places: what has been made   *)
(* of c after each step.                                                   *)
Chained(n, F, s, c, h) ==
  h[1..0] = c /\ \A i \in 1..n : h[1..i] = F[<<h[1..(i - 1)], s[i]>>]

LEMMA FoldChain ==
  ASSUME NEW n \in Nat, NEW F, NEW s, NEW c, NEW h, Folding(n, F, s, c, h)
  PROVE  Chained(n, F, s, c, h)
<1>1. 1..0 = {} /\ {} \in SUBSET (1..n)
  OBVIOUS
<1>2. ASSUME NEW i \in 1..n PROVE h[1..i] = F[<<h[1..(i - 1)], s[i]>>]
  <2>1. i \in Nat \ {0} /\ 1..i \in SUBSET (1..n)
    OBVIOUS
  <2>2. Max(1..i) = i /\ (1..i) \ {i} = 1..(i - 1) /\ 1..i # {}
    BY <2>1, LastOfFirst
  <2> QED
    BY <2>1, <2>2 DEF Folding
<1> QED
  BY <1>1, <1>2 DEF Folding, Chained

(* The first places of a sequence, one more at a time.                     *)
LEMMA FirstPlaces ==
  ASSUME NEW S, NEW s \in Seq(S)
  PROVE  /\ SubSeq(s, 1, 0) = <<>>
         /\ SubSeq(s, 1, Len(s)) = s
         /\ \A i \in 1..Len(s) : SubSeq(s, 1, i) = Append(SubSeq(s, 1, i - 1), s[i])
         /\ \A i \in 0..Len(s) : SubSeq(s, 1, i) \in Seq(S)
<1>1. \A i \in 0..Len(s) : /\ SubSeq(s, 1, i) \in Seq(S) /\ Len(SubSeq(s, 1, i)) = i
                           /\ \A k \in 1..i : SubSeq(s, 1, i)[k] = s[k]
  OBVIOUS
<1>2. ASSUME NEW i \in 1..Len(s)
      PROVE  SubSeq(s, 1, i) = Append(SubSeq(s, 1, i - 1), s[i])
  <2> DEFINE long == SubSeq(s, 1, i)
             short == SubSeq(s, 1, i - 1)
  <2>1. i \in 0..Len(s) /\ i - 1 \in 0..Len(s) /\ i \in Nat \ {0} /\ s[i] \in S
    OBVIOUS
  <2>2. /\ long \in Seq(S) /\ Len(long) = i /\ \A k \in 1..i : long[k] = s[k]
        /\ short \in Seq(S) /\ Len(short) = i - 1 /\ \A k \in 1..(i - 1) : short[k] = s[k]
    BY <1>1, <2>1
  <2> HIDE DEF long, short
  <2>3. /\ Append(short, s[i]) \in Seq(S) /\ Len(Append(short, s[i])) = i
        /\ \A k \in 1..i : Append(short, s[i])[k] = s[k]
    BY <2>1, <2>2
  <2>4. long = Append(short, s[i])
    BY <2>1, <2>2, <2>3, SeqEqual
  <2> QED
    BY <2>4 DEF long, short
<1>3. Len(SubSeq(s, 1, 0)) = 0 /\ SubSeq(s, 1, 0) \in Seq(S)
  BY <1>1
<1>4. SubSeq(s, 1, Len(s)) = s
  BY <1>1, SeqEqual
<1> QED
  BY <1>1, <1>2, <1>3, <1>4, EmptySeq

=============================================================================
