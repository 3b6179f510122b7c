--------------------------- MODULE SequenceLemmas ---------------------------
(***************************************************************************)
(* Facts about sequences the proofs of this project share: what removing   *)
(* the first occurrence of an element leaves, and what the newest part of  *)
(* a sequence is.                                                          *)
(***************************************************************************)
EXTENDS Integers, Sequences, FiniteSets, SequencesExt, SequenceTheorems,
        FiniteSetTheorems, WellFoundedInduction, TLAPS

(* A nonempty set of naturals has a least element.                         *)
LEMMA LeastNat ==
  ASSUME NEW T \in SUBSET Nat, T # {}
  PROVE  \E x \in T : \A y \in T : x <= y
<1>1. IsWellFoundedOn(OpToRel(<, Nat), Nat)
  BY NatLessThanWellFounded
<1>2. PICK x \in T : \A y \in T : ~(<< y, x >> \in OpToRel(<, Nat))
  BY <1>1, WFMin
<1>3. ASSUME NEW y \in T PROVE x <= y
  <2>1. ~(<< y, x >> \in OpToRel(<, Nat))
    BY <1>2
  <2>2. ~(y < x)
    BY <2>1 DEF OpToRel
  <2> QED
    BY <2>2
<1> QED
  BY <1>3

(* Min is the least element.                                               *)
LEMMA MinIsLeast ==
  ASSUME NEW T \in SUBSET Nat, T # {}
  PROVE  Min(T) \in T /\ \A y \in T : Min(T) <= y
BY LeastNat DEF Min

(* Removing the first occurrence of e splits the sequence around it.       *)
LEMMA RemoveFirstSplits ==
  ASSUME NEW S, NEW s \in Seq(S), NEW e, \E i \in 1 .. Len(s) : s[i] = e
  PROVE  \E m \in 1 .. Len(s) :
           /\ s[m] = e
           /\ RemoveFirst(s, e) = SubSeq(s, 1, m - 1) \o SubSeq(s, m + 1, Len(s))
<1> DEFINE T == {i \in 1 .. Len(s) : s[i] = e}
<1>1. T \in SUBSET Nat /\ T # {}
  BY LenProperties
<1>2. Min(T) \in T
  BY <1>1, MinIsLeast
<1>3. RemoveFirst(s, e) = SubSeq(s, 1, Min(T) - 1) \o SubSeq(s, Min(T) + 1, Len(s))
  BY <1>1 DEF RemoveFirst, RemoveAt, SelectInSeq
<1> QED
  BY <1>2, <1>3

(* Element by element: what stood before e stays, the rest moves up.       *)
LEMMA RemoveFirstElements ==
  ASSUME NEW S, NEW s \in Seq(S), NEW e, \E i \in 1 .. Len(s) : s[i] = e
  PROVE  \E m \in 1 .. Len(s) :
           /\ s[m] = e
           /\ RemoveFirst(s, e) \in Seq(S)
           /\ Len(RemoveFirst(s, e)) = Len(s) - 1
           /\ \A i \in 1 .. Len(s) - 1 :
                RemoveFirst(s, e)[i] = IF i < m THEN s[i] ELSE s[i + 1]
<1>1. PICK m \in 1 .. Len(s) :
        /\ s[m] = e
        /\ RemoveFirst(s, e) = SubSeq(s, 1, m - 1) \o SubSeq(s, m + 1, Len(s))
  BY RemoveFirstSplits
<1> DEFINE before == SubSeq(s, 1, m - 1)
           behind == SubSeq(s, m + 1, Len(s))
<1>2. /\ Len(s) \in Nat /\ m \in Nat
      /\ \A i \in 1 .. m - 1 : s[i] \in S
      /\ \A i \in m + 1 .. Len(s) : s[i] \in S
  BY LenProperties, ElementOfSeq
<1>3. /\ before \in Seq(S) /\ Len(before) = m - 1
      /\ \A i \in 1 .. m - 1 : before[i] = s[i]
  <2>1. /\ before \in Seq(S)
        /\ Len(before) = IF 1 <= m - 1 THEN (m - 1) - 1 + 1 ELSE 0
        /\ \A i \in 1 .. (m - 1) - 1 + 1 : before[i] = s[1 + i - 1]
    BY <1>2, SubSeqProperties
  <2> QED
    BY <1>2, <2>1
<1>4. /\ behind \in Seq(S) /\ Len(behind) = Len(s) - m
      /\ \A i \in 1 .. Len(s) - m : behind[i] = s[m + i]
  <2>1. /\ behind \in Seq(S)
        /\ Len(behind) = IF m + 1 <= Len(s) THEN Len(s) - (m + 1) + 1 ELSE 0
        /\ \A i \in 1 .. Len(s) - (m + 1) + 1 : behind[i] = s[(m + 1) + i - 1]
    BY <1>2, SubSeqProperties
  <2> QED
    BY <1>2, <2>1
<1> HIDE DEF before, behind
<1>5. /\ before \o behind \in Seq(S)
      /\ Len(before \o behind) = Len(before) + Len(behind)
      /\ \A i \in 1 .. Len(before) + Len(behind) :
           (before \o behind)[i] = IF i <= Len(before) THEN before[i]
                                   ELSE behind[i - Len(before)]
  BY <1>3, <1>4, ConcatProperties
<1>6. ASSUME NEW i \in 1 .. Len(s) - 1
      PROVE  (before \o behind)[i] = IF i < m THEN s[i] ELSE s[i + 1]
  <2>1. CASE i < m
    BY <1>2, <1>3, <1>4, <1>5, <2>1
  <2>2. CASE ~(i < m)
    <3>1. i - (m - 1) \in 1 .. Len(s) - m
      BY <1>2, <2>2
    <3>2. (before \o behind)[i] = behind[i - (m - 1)]
      BY <1>2, <1>3, <1>4, <1>5, <2>2
    <3>3. behind[i - (m - 1)] = s[m + (i - (m - 1))]
      BY <1>4, <3>1
    <3> QED
      BY <1>2, <2>2, <3>2, <3>3
  <2> QED
    BY <2>1, <2>2
<1>7. RemoveFirst(s, e) = before \o behind
  BY <1>1 DEF before, behind
<1>8. Len(before) + Len(behind) = Len(s) - 1
  BY <1>2, <1>3, <1>4
<1> QED
  BY <1>1, <1>5, <1>6, <1>7, <1>8

(* A sequence that lacks e is left alone, and stays a sequence of S.       *)
LEMMA RemoveFirstInSeq ==
  ASSUME NEW S, NEW s \in Seq(S), NEW e
  PROVE  RemoveFirst(s, e) \in Seq(S)
<1>1. CASE \E i \in 1 .. Len(s) : s[i] = e
  BY <1>1, RemoveFirstElements
<1>2. CASE ~\E i \in 1 .. Len(s) : s[i] = e
  BY <1>2 DEF RemoveFirst
<1> QED
  BY <1>1, <1>2

(* On a sequence without repetitions, RemoveFirst is the removal from a    *)
(* set, and leaves a sequence without repetitions.                         *)
LEMMA RemoveFirstFromSet ==
  ASSUME NEW S, NEW s \in Seq(S), NEW e, IsInjective(s)
  PROVE  /\ ToSet(RemoveFirst(s, e)) = ToSet(s) \ {e}
         /\ IsInjective(RemoveFirst(s, e))
<1> DEFINE t == RemoveFirst(s, e)
<1>1. /\ Len(s) \in Nat /\ DOMAIN s = 1 .. Len(s)
      /\ \A a, b \in 1 .. Len(s) : s[a] = s[b] => a = b
  BY LenProperties DEF IsInjective
<1>2. CASE \E i \in 1 .. Len(s) : s[i] = e
  <2>1. PICK m \in 1 .. Len(s) :
          /\ s[m] = e
          /\ t \in Seq(S)
          /\ Len(t) = Len(s) - 1
          /\ \A i \in 1 .. Len(s) - 1 : t[i] = IF i < m THEN s[i] ELSE s[i + 1]
    BY <1>2, RemoveFirstElements, Zenon
  <2>2. DOMAIN t = 1 .. Len(s) - 1
    BY <2>1, LenProperties
  <2> HIDE DEF t
  <2>3. ASSUME NEW a \in 1 .. Len(s) - 1 PROVE t[a] \in ToSet(s) \ {e}
    <3>1. CASE a < m
      BY <1>1, <2>1, <3>1 DEF ToSet
    <3>2. CASE ~(a < m)
      BY <1>1, <2>1, <3>2 DEF ToSet
    <3> QED
      BY <3>1, <3>2
  <2>4. ASSUME NEW a \in 1 .. Len(s), s[a] # e PROVE s[a] \in ToSet(t)
    <3>1. CASE a < m
      BY <1>1, <2>1, <2>2, <3>1 DEF ToSet
    <3>2. CASE a > m
      <4>1. a - 1 \in 1 .. Len(s) - 1 /\ t[a - 1] = s[a]
        BY <1>1, <2>1, <3>2
      <4> QED
        BY <2>2, <4>1 DEF ToSet
    <3> QED
      BY <1>1, <2>1, <2>4, <3>1, <3>2
  <2>5. ASSUME NEW a \in 1 .. Len(s) - 1, NEW b \in 1 .. Len(s) - 1, t[a] = t[b]
        PROVE  a = b
    BY <1>1, <2>1, <2>5
  <2>6. ToSet(t) = ToSet(s) \ {e}
    BY <1>1, <2>2, <2>3, <2>4 DEF ToSet
  <2>7. IsInjective(t)
    BY <2>2, <2>5 DEF IsInjective
  <2> QED
    BY <2>6, <2>7 DEF t
<1>3. CASE ~\E i \in 1 .. Len(s) : s[i] = e
  BY <1>1, <1>3 DEF RemoveFirst, ToSet
<1> QED
  BY <1>2, <1>3

(* Appending an element that is not there yet.                             *)
LEMMA AppendToSet ==
  ASSUME NEW S, NEW s \in Seq(S), NEW e \in S, IsInjective(s), e \notin ToSet(s)
  PROVE  /\ ToSet(Append(s, e)) = ToSet(s) \cup {e}
         /\ IsInjective(Append(s, e))
<1> DEFINE t == Append(s, e)
<1>1. /\ Len(s) \in Nat /\ DOMAIN s = 1 .. Len(s)
      /\ \A a, b \in 1 .. Len(s) : s[a] = s[b] => a = b
      /\ \A a \in 1 .. Len(s) : s[a] # e
  BY LenProperties DEF IsInjective, ToSet
<1>2. /\ t \in Seq(S) /\ Len(t) = Len(s) + 1
      /\ \A i \in 1 .. Len(s) : t[i] = s[i]
      /\ t[Len(s) + 1] = e
  BY AppendProperties
<1>3. DOMAIN t = 1 .. Len(s) + 1
  BY <1>2, LenProperties
<1> HIDE DEF t
<1>4. ToSet(t) = ToSet(s) \cup {e}
  <2>1. ASSUME NEW i \in 1 .. Len(s) + 1 PROVE t[i] \in ToSet(s) \cup {e}
    BY <1>1, <1>2 DEF ToSet
  <2>2. ASSUME NEW i \in 1 .. Len(s) PROVE s[i] \in ToSet(t)
    BY <1>1, <1>2, <1>3 DEF ToSet
  <2>3. e \in ToSet(t)
    BY <1>1, <1>2, <1>3 DEF ToSet
  <2> QED
    BY <1>1, <1>3, <2>1, <2>2, <2>3 DEF ToSet
<1>5. ASSUME NEW a \in 1 .. Len(s) + 1, NEW b \in 1 .. Len(s) + 1, t[a] = t[b]
      PROVE  a = b
  BY <1>1, <1>2, <1>5
<1>6. IsInjective(t)
  BY <1>3, <1>5 DEF IsInjective
<1> QED
  BY <1>4, <1>6 DEF t

(* What is behind the first n elements of a sequence without repetitions.  *)
LEMMA RestOfSet ==
  ASSUME NEW S, NEW s \in Seq(S), IsInjective(s), NEW n \in 0 .. Len(s)
  PROVE  LET rest == SubSeq(s, n + 1, Len(s))
         IN  /\ rest \in Seq(S)
             /\ ToSet(rest) = ToSet(s) \ {s[i] : i \in 1 .. n}
             /\ IsInjective(rest)
<1> DEFINE rest == SubSeq(s, n + 1, Len(s))
<1>1. /\ Len(s) \in Nat /\ n \in Nat /\ DOMAIN s = 1 .. Len(s)
      /\ \A a, b \in 1 .. Len(s) : s[a] = s[b] => a = b
      /\ \A i \in n + 1 .. Len(s) : s[i] \in S
  BY LenProperties, ElementOfSeq DEF IsInjective
<1>2. /\ rest \in Seq(S) /\ Len(rest) = Len(s) - n
      /\ \A i \in 1 .. Len(s) - n : rest[i] = s[n + i]
  <2>1. /\ rest \in Seq(S)
        /\ Len(rest) = IF n + 1 <= Len(s) THEN Len(s) - (n + 1) + 1 ELSE 0
        /\ \A i \in 1 .. Len(s) - (n + 1) + 1 : rest[i] = s[(n + 1) + i - 1]
    BY <1>1, SubSeqProperties
  <2> QED
    BY <1>1, <2>1
<1>3. DOMAIN rest = 1 .. Len(s) - n
  BY <1>2, LenProperties
<1> HIDE DEF rest
<1>4. ASSUME NEW i \in 1 .. Len(s) - n PROVE rest[i] \in ToSet(s) \ {s[j] : j \in 1 .. n}
  <2>1. n + i \in 1 .. Len(s) /\ rest[i] = s[n + i]
    BY <1>1, <1>2
  <2>2. ASSUME NEW j \in 1 .. n PROVE s[n + i] # s[j]
    BY <1>1, <2>1
  <2> QED
    BY <1>1, <2>1, <2>2 DEF ToSet
<1>5. ASSUME NEW i \in 1 .. Len(s), s[i] \notin {s[j] : j \in 1 .. n} PROVE s[i] \in ToSet(rest)
  <2>1. i - n \in 1 .. Len(s) - n /\ rest[i - n] = s[i]
    BY <1>1, <1>2, <1>5
  <2> QED
    BY <1>3, <2>1 DEF ToSet
<1>6. ToSet(rest) = ToSet(s) \ {s[i] : i \in 1 .. n}
  <2>1. ToSet(rest) \subseteq ToSet(s) \ {s[i] : i \in 1 .. n}
    <3>1. ASSUME NEW x \in ToSet(rest) PROVE x \in ToSet(s) \ {s[i] : i \in 1 .. n}
      BY <1>3, <1>4, <3>1 DEF ToSet
    <3> QED
      BY <3>1
  <2>2. ToSet(s) \ {s[i] : i \in 1 .. n} \subseteq ToSet(rest)
    <3>1. ASSUME NEW x \in ToSet(s), x \notin {s[i] : i \in 1 .. n}
          PROVE  x \in ToSet(rest)
      <4>1. PICK i \in 1 .. Len(s) : x = s[i]
        BY <1>1, <3>1 DEF ToSet
      <4> QED
        BY <1>5, <3>1, <4>1
    <3> QED
      BY <3>1
  <2> QED
    BY <2>1, <2>2
<1>7. ASSUME NEW a \in 1 .. Len(s) - n, NEW b \in 1 .. Len(s) - n, rest[a] = rest[b]
      PROVE  a = b
  <2>1. /\ n + a \in 1 .. Len(s) /\ rest[a] = s[n + a]
        /\ n + b \in 1 .. Len(s) /\ rest[b] = s[n + b]
    BY <1>1, <1>2
  <2>2. n + a = n + b
    BY <1>1, <1>7, <2>1
  <2> QED
    BY <1>1, <2>2
<1>8. IsInjective(rest)
  BY <1>3, <1>7 DEF IsInjective
<1> QED
  BY <1>2, <1>6, <1>8 DEF rest
=============================================================================
