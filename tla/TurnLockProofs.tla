--------------------------- MODULE TurnLockProofs ---------------------------
(***************************************************************************)
(* What one turn lock keeps true, for every queue and every number of      *)
(* turns out: S and X are the chains that hold a shared and an exclusive   *)
(* turn of it, W is who waits and for what.                                *)
(***************************************************************************)
EXTENDS TurnLock, SequenceLemmas

(* The counters are what is held, and an exclusive holder is alone.        *)
HeldIs(l, S, X) ==
  /\ IsFiniteSet(S) /\ l.shared = Cardinality(S)
  /\ l.exclusive = (X # {})
  /\ \A c \in X : X \cup S = {c}

(* The queue lists each of W once; nobody in it holds a turn.              *)
QueueIs(l, S, X, W) ==
  /\ \A i \in 1 .. Len(l.waiting) : l.waiting[i] \in W /\ l.waiting[i].chain \notin S \cup X
  /\ \A w \in W : \E i \in 1 .. Len(l.waiting) : w = l.waiting[i]
  /\ \A i, j \in 1 .. Len(l.waiting) : l.waiting[i].chain = l.waiting[j].chain => i = j

HeadBlocked(l) == l.waiting # <<>> => ~Fits(l, l.waiting[1].kind)

-----------------------------------------------------------------------------
LEMMA LockFields ==
  ASSUME NEW l \in Lock
  PROVE  /\ l.shared \in Nat /\ l.exclusive \in BOOLEAN /\ l.waiting \in Seq(Waiter)
         /\ Len(l.waiting) \in Nat /\ (l.waiting # <<>> <=> Len(l.waiting) >= 1)
         /\ \A i \in 1 .. Len(l.waiting) :
              /\ l.waiting[i] \in Waiter
              /\ l.waiting[i].chain \in Chains /\ l.waiting[i].kind \in Kinds
<1>1. l.shared \in Nat /\ l.exclusive \in BOOLEAN /\ l.waiting \in Seq(Waiter)
  BY DEF Lock
<1>2. Len(l.waiting) \in Nat /\ (l.waiting # <<>> <=> Len(l.waiting) >= 1)
  BY <1>1, LenProperties, EmptySeq
<1>3. ASSUME NEW i \in 1 .. Len(l.waiting)
      PROVE  /\ l.waiting[i] \in Waiter
             /\ l.waiting[i].chain \in Chains /\ l.waiting[i].kind \in Kinds
  <2>1. l.waiting[i] \in Waiter
    BY <1>1, ElementOfSeq
  <2> QED
    BY <2>1 DEF Waiter
<1> QED
  BY <1>1, <1>2, <1>3

(* Where a run of shared waiters at the head of the queue ends.            *)
LEMMA SharedRunEnds ==
  ASSUME NEW l \in Lock, l.waiting # <<>>, l.waiting[1].kind = "shared"
  PROVE  \E n \in 1 .. Len(l.waiting) :
           /\ \A i \in 1 .. n : l.waiting[i].kind = "shared"
           /\ n = Len(l.waiting) \/ l.waiting[n + 1].kind = "exclusive"
<1> DEFINE T == { i \in 1 .. Len(l.waiting) : l.waiting[i].kind = "exclusive" }
<1>1. Len(l.waiting) \in Nat /\ Len(l.waiting) >= 1
  BY LockFields
<1>2. \A i \in 1 .. Len(l.waiting) : i \notin T => l.waiting[i].kind = "shared"
  BY LockFields DEF Kinds
<1>3. CASE T = {}
  <2>1. \A i \in 1 .. Len(l.waiting) : l.waiting[i].kind = "shared"
    BY <1>2, <1>3
  <2> QED
    BY <1>1, <2>1
<1>4. CASE T # {}
  <2>1. T \in SUBSET Nat
    BY <1>1
  <2>2. PICK m \in T : \A y \in T : m <= y
    BY <1>4, <2>1, LeastNat, Zenon
  <2>3. m \in 1 .. Len(l.waiting) /\ l.waiting[m].kind = "exclusive"
    BY <2>2
  <2>4. m # 1
    BY <2>3
  <2>5. m - 1 \in 1 .. Len(l.waiting) /\ (m - 1) + 1 = m
    BY <1>1, <2>3, <2>4
  <2>6. ASSUME NEW i \in 1 .. m - 1 PROVE l.waiting[i].kind = "shared"
    <3>1. i \in 1 .. Len(l.waiting) /\ ~(m <= i)
      BY <1>1, <2>3
    <3>2. i \notin T
      BY <2>2, <3>1
    <3> QED
      BY <1>2, <3>1, <3>2
  <2> QED
    BY <2>3, <2>5, <2>6
<1> QED
  BY <1>3, <1>4

(* How many are granted.                                                   *)
LEMMA GrantsCounts ==
  ASSUME NEW l \in Lock
  PROVE  /\ Grants(l) \in 0 .. Len(l.waiting)
         /\ Grants(l) = 0 => HeadBlocked(l)
         /\ Grants(l) # 0 =>
              /\ l.waiting # <<>> /\ Fits(l, l.waiting[1].kind)
              /\ \A i \in 1 .. Grants(l) : l.waiting[i].kind = l.waiting[1].kind
              /\ l.waiting[1].kind = "exclusive" => Grants(l) = 1
              /\ l.waiting[1].kind = "shared" =>
                   Grants(l) = Len(l.waiting) \/ l.waiting[Grants(l) + 1].kind = "exclusive"
<1>1. Len(l.waiting) \in Nat /\ (l.waiting # <<>> <=> Len(l.waiting) >= 1)
  BY LockFields
<1>2. CASE l.waiting = <<>> \/ ~Fits(l, l.waiting[1].kind)
  <2>1. Grants(l) = 0
    BY <1>2 DEF Grants
  <2> QED
    BY <1>1, <1>2, <2>1 DEF HeadBlocked
<1>3. CASE ~(l.waiting = <<>> \/ ~Fits(l, l.waiting[1].kind)) /\ l.waiting[1].kind = "exclusive"
  <2>1. Grants(l) = 1
    BY <1>3 DEF Grants
  <2> QED
    BY <1>1, <1>3, <2>1
<1>4. CASE ~(l.waiting = <<>> \/ ~Fits(l, l.waiting[1].kind)) /\ l.waiting[1].kind # "exclusive"
  <2>1. l.waiting[1].kind = "shared"
    BY <1>1, <1>4, LockFields DEF Kinds
  <2>2. Grants(l) = CHOOSE n \in 1 .. Len(l.waiting) :
                      /\ \A i \in 1 .. n : l.waiting[i].kind = "shared"
                      /\ n = Len(l.waiting) \/ l.waiting[n + 1].kind = "exclusive"
    BY <1>4 DEF Grants
  <2>3. /\ Grants(l) \in 1 .. Len(l.waiting)
        /\ \A i \in 1 .. Grants(l) : l.waiting[i].kind = "shared"
        /\ Grants(l) = Len(l.waiting) \/ l.waiting[Grants(l) + 1].kind = "exclusive"
    BY <1>4, <2>1, <2>2, SharedRunEnds
  <2> QED
    BY <1>1, <1>4, <2>1, <2>3
<1> QED
  BY <1>2, <1>3, <1>4

-----------------------------------------------------------------------------
(* acquire()                                                               *)

(* A turn at once.                                                         *)
LEMMA TakeKeepsLock ==
  ASSUME NEW l \in Lock, NEW S, NEW X, NEW W, NEW c, NEW kind \in Kinds,
         HeldIs(l, S, X), QueueIs(l, S, X, W), TakesAtOnce(l, kind), c \notin S \cup X,
         NEW S2, NEW X2,
         S2 = IF kind = "shared" THEN S \cup {c} ELSE S,
         X2 = IF kind = "exclusive" THEN X \cup {c} ELSE X
  PROVE  /\ Acquire(l, c, kind) \in Lock
         /\ HeldIs(Acquire(l, c, kind), S2, X2)
         /\ QueueIs(Acquire(l, c, kind), S2, X2, W)
         /\ HeadBlocked(Acquire(l, c, kind))
<1>1. /\ l.shared \in Nat /\ l.exclusive \in BOOLEAN /\ l.waiting \in Seq(Waiter)
      /\ l.waiting = <<>> /\ Len(l.waiting) = 0
  BY LockFields DEF TakesAtOnce
<1>2. /\ Acquire(l, c, kind) = Take(l, kind) /\ ~l.exclusive
      /\ kind = "exclusive" => l.shared = 0
  BY DEF Acquire, TakesAtOnce, Fits
<1>3. X = {} /\ IsFiniteSet(S) /\ l.shared = Cardinality(S)
  BY <1>2 DEF HeldIs
<1>4. W = {}
  BY <1>1 DEF QueueIs
<1>5. CASE kind = "shared"
  <2>1. /\ Take(l, kind) \in Lock
        /\ Take(l, kind).shared = l.shared + 1
        /\ Take(l, kind).exclusive = l.exclusive /\ Take(l, kind).waiting = l.waiting
    BY <1>5 DEF Take, Lock
  <2>2. S2 = S \cup {c} /\ X2 = {}
    BY <1>3, <1>5
  <2>3. IsFiniteSet(S2) /\ Cardinality(S2) = Cardinality(S) + 1
    BY <1>3, <2>2, FS_AddElement
  <2>4. HeldIs(Take(l, kind), S2, X2)
    BY <1>2, <1>3, <2>1, <2>2, <2>3 DEF HeldIs
  <2> QED
    BY <1>1, <1>2, <1>4, <2>1, <2>4 DEF QueueIs, HeadBlocked
<1>6. CASE kind = "exclusive"
  <2>1. /\ Take(l, kind) \in Lock
        /\ Take(l, kind).shared = l.shared
        /\ Take(l, kind).exclusive = TRUE /\ Take(l, kind).waiting = l.waiting
    BY <1>6 DEF Take, Lock
  <2>2. S2 = {} /\ S = {} /\ X2 = {c}
    BY <1>2, <1>3, <1>6, FS_EmptySet
  <2>3. HeldIs(Take(l, kind), S2, X2)
    BY <1>2, <1>3, <2>1, <2>2 DEF HeldIs
  <2> QED
    BY <1>1, <1>2, <1>4, <2>1, <2>3 DEF QueueIs, HeadBlocked
<1> QED
  BY <1>5, <1>6 DEF Kinds

(* A place at the end of the queue.                                        *)
LEMMA QueueUpKeepsLock ==
  ASSUME NEW l \in Lock, NEW S, NEW X, NEW W, NEW c \in Chains, NEW kind \in Kinds,
         HeldIs(l, S, X), QueueIs(l, S, X, W), HeadBlocked(l),
         ~TakesAtOnce(l, kind), c \notin S \cup X, \A w \in W : w.chain # c
  PROVE  /\ Acquire(l, c, kind) \in Lock
         /\ HeldIs(Acquire(l, c, kind), S, X)
         /\ QueueIs(Acquire(l, c, kind), S, X, W \cup {[chain |-> c, kind |-> kind]})
         /\ HeadBlocked(Acquire(l, c, kind))
<1> DEFINE r == [chain |-> c, kind |-> kind]
           q == Append(l.waiting, r)
           m == Acquire(l, c, kind)
<1>1. /\ l.shared \in Nat /\ l.exclusive \in BOOLEAN /\ l.waiting \in Seq(Waiter)
      /\ Len(l.waiting) \in Nat /\ (l.waiting # <<>> <=> Len(l.waiting) >= 1)
  BY LockFields
<1>2. r \in Waiter /\ r.chain = c /\ r.kind = kind
  BY DEF Waiter
<1>3. /\ q \in Seq(Waiter) /\ Len(q) = Len(l.waiting) + 1
      /\ \A i \in 1 .. Len(l.waiting) : q[i] = l.waiting[i]
      /\ q[Len(l.waiting) + 1] = r
  BY <1>1, <1>2, AppendProperties
<1>4. /\ m \in Lock /\ m.shared = l.shared /\ m.exclusive = l.exclusive /\ m.waiting = q
  BY <1>3 DEF Acquire, Lock
<1>5. HeldIs(m, S, X)
  BY <1>4 DEF HeldIs
<1>6. HeadBlocked(m)
  <2>1. CASE l.waiting = <<>>
    <3>1. q[1] = r /\ ~Fits(l, kind)
      BY <1>1, <1>3, <2>1 DEF TakesAtOnce
    <3> QED
      BY <1>2, <1>4, <3>1 DEF HeadBlocked, Fits
  <2>2. CASE l.waiting # <<>>
    <3>1. q[1] = l.waiting[1]
      BY <1>1, <1>3, <2>2
    <3> QED
      BY <1>4, <2>2, <3>1 DEF HeadBlocked, Fits
  <2> QED
    BY <2>1, <2>2
<1> HIDE DEF r, q, m
<1>7. \A i \in 1 .. Len(l.waiting) : l.waiting[i] \in W /\ l.waiting[i].chain # c
  BY DEF QueueIs
<1>8. \A i \in 1 .. Len(q) : i \in 1 .. Len(l.waiting) \/ i = Len(l.waiting) + 1
  BY <1>1, <1>3
<1>9. \A i \in 1 .. Len(q) : q[i] \in W \cup {r} /\ q[i].chain \notin S \cup X
  BY <1>2, <1>3, <1>7, <1>8 DEF QueueIs
<1>10. ASSUME NEW w \in W \cup {r} PROVE \E i \in 1 .. Len(q) : w = q[i]
  <2>1. CASE w \in W
    <3>1. PICK i \in 1 .. Len(l.waiting) : w = l.waiting[i]
      BY <2>1 DEF QueueIs
    <3>2. i \in 1 .. Len(q) /\ q[i] = w
      BY <1>1, <1>3, <3>1
    <3> QED
      BY <3>2
  <2>2. CASE w = r
    <3>1. Len(l.waiting) + 1 \in 1 .. Len(q)
      BY <1>1, <1>3
    <3> QED
      BY <1>3, <2>2, <3>1
  <2> QED
    BY <2>1, <2>2
<1>11. ASSUME NEW i \in 1 .. Len(q), NEW j \in 1 .. Len(q), q[i].chain = q[j].chain
       PROVE  i = j
  <2>1. CASE i \in 1 .. Len(l.waiting) /\ j \in 1 .. Len(l.waiting)
    <3>1. q[i] = l.waiting[i] /\ q[j] = l.waiting[j]
      BY <1>3, <2>1
    <3> QED
      BY <1>11, <2>1, <3>1 DEF QueueIs
  <2>2. CASE i = Len(l.waiting) + 1 /\ j \in 1 .. Len(l.waiting)
    BY <1>2, <1>3, <1>7, <1>11, <2>2
  <2>3. CASE j = Len(l.waiting) + 1 /\ i \in 1 .. Len(l.waiting)
    BY <1>2, <1>3, <1>7, <1>11, <2>3
  <2> QED
    BY <1>8, <2>1, <2>2, <2>3
<1>12. QueueIs(m, S, X, W \cup {r})
  BY <1>4, <1>9, <1>10, <1>11 DEF QueueIs
<1> QED
  BY <1>4, <1>5, <1>6, <1>12 DEF m, r

-----------------------------------------------------------------------------
(* release()                                                               *)

LEMMA GiveBackKeepsLock ==
  ASSUME NEW l \in Lock, NEW S, NEW X, NEW W, NEW c, NEW kind \in Kinds,
         HeldIs(l, S, X), QueueIs(l, S, X, W),
         kind = "shared" => c \in S, kind = "exclusive" => c \in X,
         NEW S1, NEW X1,
         S1 = IF kind = "shared" THEN S \ {c} ELSE S,
         X1 = IF kind = "exclusive" THEN X \ {c} ELSE X
  PROVE  /\ GiveBack(l, kind) \in Lock
         /\ HeldIs(GiveBack(l, kind), S1, X1)
         /\ QueueIs(GiveBack(l, kind), S1, X1, W)
<1>1. /\ l.shared \in Nat /\ l.exclusive \in BOOLEAN /\ l.waiting \in Seq(Waiter)
  BY LockFields
<1>2. IsFiniteSet(S) /\ l.shared = Cardinality(S) /\ \A d \in X : X \cup S = {d}
  BY DEF HeldIs
<1>3. CASE kind = "shared"
  <2>1. S1 = S \ {c} /\ X1 = X /\ c \in S
    BY <1>3
  <2>2. IsFiniteSet(S1) /\ Cardinality(S1) = Cardinality(S) - 1 /\ Cardinality(S1) \in Nat
    BY <1>2, <2>1, FS_RemoveElement, FS_CardinalityType
  <2>3. /\ GiveBack(l, kind) \in Lock
        /\ GiveBack(l, kind).shared = l.shared - 1
        /\ GiveBack(l, kind).exclusive = l.exclusive /\ GiveBack(l, kind).waiting = l.waiting
    BY <1>1, <1>2, <1>3, <2>2 DEF GiveBack, Lock
  <2>4. HeldIs(GiveBack(l, kind), S1, X1)
    BY <1>2, <2>1, <2>2, <2>3 DEF HeldIs
  <2>5. QueueIs(GiveBack(l, kind), S1, X1, W)
    BY <2>1, <2>3 DEF QueueIs
  <2> QED
    BY <2>3, <2>4, <2>5
<1>4. CASE kind = "exclusive"
  <2>1. S1 = S /\ X1 = {}
    BY <1>2, <1>4
  <2>2. /\ GiveBack(l, kind) \in Lock
        /\ GiveBack(l, kind).shared = l.shared
        /\ GiveBack(l, kind).exclusive = FALSE /\ GiveBack(l, kind).waiting = l.waiting
    BY <1>1, <1>4 DEF GiveBack, Lock
  <2>3. HeldIs(GiveBack(l, kind), S1, X1)
    BY <1>2, <2>1, <2>2 DEF HeldIs
  <2>4. QueueIs(GiveBack(l, kind), S1, X1, W)
    BY <2>1, <2>2 DEF QueueIs
  <2> QED
    BY <2>2, <2>3, <2>4
<1> QED
  BY <1>3, <1>4 DEF Kinds

(* The chains that leave the queue with a turn of one kind.                *)
GrantedOf(l, kind) ==
  { l.waiting[i].chain : i \in { j \in 1 .. Grants(l) : l.waiting[j].kind = kind } }

LEMMA GrantedOfOneKind ==
  ASSUME NEW l \in Lock, NEW kind \in Kinds
  PROVE  GrantedOf(l, kind) = IF Grants(l) # 0 /\ l.waiting[1].kind = kind
                              THEN GrantedChains(l) ELSE {}
<1>1. /\ Grants(l) \in 0 .. Len(l.waiting) /\ Len(l.waiting) \in Nat
      /\ Grants(l) # 0 => \A i \in 1 .. Grants(l) : l.waiting[i].kind = l.waiting[1].kind
  BY GrantsCounts, LockFields
<1>2. CASE Grants(l) = 0
  BY <1>1, <1>2 DEF GrantedOf
<1>3. CASE Grants(l) # 0 /\ l.waiting[1].kind = kind
  BY <1>1, <1>3 DEF GrantedOf, GrantedChains
<1>4. CASE Grants(l) # 0 /\ l.waiting[1].kind # kind
  BY <1>1, <1>4 DEF GrantedOf
<1> QED
  BY <1>2, <1>3, <1>4

(* As many chains as grants, none of which held a turn.                    *)
LEMMA GrantedAreNew ==
  ASSUME NEW l \in Lock, NEW S, NEW X, NEW W, QueueIs(l, S, X, W)
  PROVE  /\ IsFiniteSet(GrantedChains(l)) /\ Cardinality(GrantedChains(l)) = Grants(l)
         /\ GrantedChains(l) \cap (S \cup X) = {}
<1> DEFINE n == Grants(l)
           b == [i \in 1 .. n |-> l.waiting[i].chain]
<1>1. n \in 0 .. Len(l.waiting) /\ Len(l.waiting) \in Nat
  BY GrantsCounts, LockFields
<1> HIDE DEF n
<1>2. \A i \in 1 .. n : i \in 1 .. Len(l.waiting)
  BY <1>1
<1>3. b \in Bijection(1 .. n, GrantedChains(l))
  <2>1. GrantedChains(l) = { l.waiting[i].chain : i \in 1 .. n }
    BY DEF GrantedChains, n
  <2>2. b \in [1 .. n -> GrantedChains(l)]
    BY <2>1
  <2>3. \A i, j \in 1 .. n : b[i] = b[j] => i = j
    BY <1>2 DEF QueueIs
  <2>4. \A d \in GrantedChains(l) : \E i \in 1 .. n : b[i] = d
    BY <2>1
  <2> QED
    BY <2>2, <2>3, <2>4 DEF Bijection, Injection, Surjection, IsInjective
<1>4. IsFiniteSet(1 .. n) /\ Cardinality(1 .. n) = n
  BY <1>1, FS_Interval
<1>5. ExistsBijection(1 .. n, GrantedChains(l))
  BY <1>3 DEF ExistsBijection
<1>6. GrantedChains(l) \cap (S \cup X) = {}
  BY <1>2 DEF GrantedChains, QueueIs, n
<1> QED
  BY <1>4, <1>5, <1>6, FS_Bijection DEF n

(* What GrantHeads leaves of the queue.                                    *)
LEMMA QueueAfterGrants ==
  ASSUME NEW l \in Lock
  PROVE  /\ GrantHeads(l).waiting \in Seq(Waiter)
         /\ Len(GrantHeads(l).waiting) = Len(l.waiting) - Grants(l)
         /\ \A i \in 1 .. Len(l.waiting) - Grants(l) :
              /\ Grants(l) + i \in 1 .. Len(l.waiting)
              /\ GrantHeads(l).waiting[i] = l.waiting[Grants(l) + i]
<1> DEFINE n == Grants(l)
           q == SubSeq(l.waiting, n + 1, Len(l.waiting))
<1>1. n \in 0 .. Len(l.waiting) /\ Len(l.waiting) \in Nat
  BY GrantsCounts, LockFields
<1>2. GrantHeads(l).waiting = q
  BY DEF GrantHeads
<1> HIDE DEF n
<1>3. \A i \in n + 1 .. Len(l.waiting) : l.waiting[i] \in Waiter
  BY <1>1, LockFields
<1>4. /\ q \in Seq(Waiter)
      /\ Len(q) = IF n + 1 <= Len(l.waiting) THEN Len(l.waiting) - (n + 1) + 1 ELSE 0
      /\ \A i \in 1 .. Len(l.waiting) - (n + 1) + 1 : q[i] = l.waiting[(n + 1) + i - 1]
  BY <1>1, <1>3, SubSeqProperties
<1> HIDE DEF q
<1>5. ASSUME NEW i \in 1 .. Len(l.waiting) - n
      PROVE  n + i \in 1 .. Len(l.waiting) /\ q[i] = l.waiting[n + i]
  <2>1. /\ i \in 1 .. Len(l.waiting) - (n + 1) + 1
        /\ (n + 1) + i - 1 = n + i /\ n + i \in 1 .. Len(l.waiting)
    BY <1>1
  <2> QED
    BY <1>4, <2>1
<1> QED
  BY <1>1, <1>2, <1>4, <1>5 DEF n

(* Those granted hold their turn; the others wait on behind a head that    *)
(* does not fit.                                                           *)
LEMMA GrantsKeepLock ==
  ASSUME NEW l \in Lock, NEW S, NEW X, NEW W, HeldIs(l, S, X), QueueIs(l, S, X, W),
         NEW S2, NEW X2, NEW W2,
         S2 = S \cup GrantedOf(l, "shared"), X2 = X \cup GrantedOf(l, "exclusive"),
         W2 = { w \in W : w.chain \notin GrantedChains(l) }
  PROVE  /\ GrantHeads(l) \in Lock
         /\ HeldIs(GrantHeads(l), S2, X2)
         /\ QueueIs(GrantHeads(l), S2, X2, W2)
         /\ HeadBlocked(GrantHeads(l))
<1> DEFINE n == Grants(l)
           G == GrantedChains(l)
           m == GrantHeads(l)
<1>1. /\ l.shared \in Nat /\ l.exclusive \in BOOLEAN
      /\ Len(l.waiting) \in Nat /\ n \in 0 .. Len(l.waiting)
  BY LockFields, GrantsCounts
<1>2. IsFiniteSet(S) /\ l.shared = Cardinality(S) /\ l.exclusive = (X # {})
  BY DEF HeldIs
<1>3. /\ m.waiting \in Seq(Waiter) /\ Len(m.waiting) = Len(l.waiting) - n
      /\ \A i \in 1 .. Len(l.waiting) - n :
           n + i \in 1 .. Len(l.waiting) /\ m.waiting[i] = l.waiting[n + i]
  BY QueueAfterGrants
<1>4. /\ m.shared = IF l.waiting # <<>> /\ l.waiting[1].kind = "shared"
                    THEN l.shared + n ELSE l.shared
      /\ m.exclusive = (l.exclusive \/ (n = 1 /\ l.waiting[1].kind = "exclusive"))
  BY DEF GrantHeads
<1>5. m \in Lock
  <2>1. m = [shared |-> m.shared, exclusive |-> m.exclusive, waiting |-> m.waiting]
    BY DEF GrantHeads
  <2>2. m.shared \in Nat /\ m.exclusive \in BOOLEAN
    BY <1>1, <1>4
  <2> HIDE DEF m
  <2> QED
    BY <1>3, <2>1, <2>2, Zenon DEF Lock
<1>6. /\ GrantedOf(l, "shared") = IF n # 0 /\ l.waiting[1].kind = "shared" THEN G ELSE {}
      /\ GrantedOf(l, "exclusive") = IF n # 0 /\ l.waiting[1].kind = "exclusive" THEN G ELSE {}
  BY GrantedOfOneKind DEF Kinds
<1>7. IsFiniteSet(G) /\ Cardinality(G) = n /\ G \cap (S \cup X) = {}
  BY GrantedAreNew
<1>8. S2 \cup X2 \subseteq (S \cup X) \cup G
  BY <1>6
<1>9. QueueIs(m, S2, X2, W2)
  <2> HIDE DEF m
  <2>1. ASSUME NEW i \in 1 .. Len(m.waiting)
        PROVE  /\ m.waiting[i] \in W2
               /\ m.waiting[i].chain \notin S2 \cup X2
    <3>1. /\ n + i \in 1 .. Len(l.waiting) /\ m.waiting[i] = l.waiting[n + i]
      BY <1>3
    <3>2. m.waiting[i].chain \notin G
      <4>1. ASSUME NEW j \in 1 .. n PROVE l.waiting[j].chain # l.waiting[n + i].chain
        <5>1. j \in 1 .. Len(l.waiting) /\ j # n + i
          BY <1>1, <1>3
        <5> QED
          BY <3>1, <5>1 DEF QueueIs
      <4> QED
        BY <3>1, <4>1 DEF GrantedChains
    <3>3. m.waiting[i] \in W /\ m.waiting[i].chain \notin S \cup X
      BY <3>1 DEF QueueIs
    <3> QED
      BY <1>8, <3>2, <3>3
  <2>2. ASSUME NEW w \in W2 PROVE \E i \in 1 .. Len(m.waiting) : w = m.waiting[i]
    <3>1. PICK j \in 1 .. Len(l.waiting) : w = l.waiting[j]
      BY DEF QueueIs
    <3>2. ~(j \in 1 .. n)
      BY <3>1 DEF GrantedChains
    <3>3. j - n \in 1 .. Len(l.waiting) - n /\ n + (j - n) = j
      BY <1>1, <3>2
    <3>4. m.waiting[j - n] = w
      BY <1>3, <3>1, <3>3
    <3> QED
      BY <1>3, <3>3, <3>4
  <2>3. ASSUME NEW i \in 1 .. Len(m.waiting), NEW j \in 1 .. Len(m.waiting),
               m.waiting[i].chain = m.waiting[j].chain
        PROVE  i = j
    <3>1. /\ n + i \in 1 .. Len(l.waiting) /\ m.waiting[i] = l.waiting[n + i]
          /\ n + j \in 1 .. Len(l.waiting) /\ m.waiting[j] = l.waiting[n + j]
      BY <1>3
    <3>2. n + i = n + j
      BY <2>3, <3>1 DEF QueueIs
    <3> QED
      BY <1>1, <3>2
  <2> QED
    BY <2>1, <2>2, <2>3 DEF QueueIs
<1>10. CASE n = 0
  <2>1. HeadBlocked(l)
    BY <1>10, GrantsCounts
  <2>2. S2 = S /\ X2 = X
    BY <1>6, <1>10
  <2>3. m.shared = l.shared /\ m.exclusive = l.exclusive
    BY <1>1, <1>4, <1>10
  <2>4. HeldIs(m, S2, X2)
    BY <2>2, <2>3 DEF HeldIs
  <2>5. ASSUME m.waiting # <<>>
        PROVE  l.waiting # <<>> /\ m.waiting[1] = l.waiting[1]
    <3>1. Len(m.waiting) >= 1 /\ Len(m.waiting) = Len(l.waiting)
      BY <1>1, <1>3, <1>10, <2>5, EmptySeq
    <3> QED
      BY <1>1, <1>3, <1>10, <3>1, LockFields
  <2>6. HeadBlocked(m)
    BY <2>1, <2>3, <2>5 DEF HeadBlocked, Fits
  <2> QED
    BY <1>5, <1>9, <2>4, <2>6
<1>11. CASE n # 0 /\ l.waiting[1].kind = "shared"
  <2>1. /\ l.waiting # <<>> /\ ~l.exclusive
        /\ n = Len(l.waiting) \/ l.waiting[n + 1].kind = "exclusive"
    BY <1>11, GrantsCounts DEF Fits
  <2>2. S2 = S \cup G /\ X = {} /\ X2 = {}
    BY <1>2, <1>6, <1>11, <2>1
  <2>3. m.shared = l.shared + n /\ m.exclusive = FALSE
    BY <1>4, <1>11, <2>1
  <2>4. IsFiniteSet(S2) /\ Cardinality(S2) = l.shared + n
    <3>1. S \cap G = {}
      BY <1>7
    <3>2. /\ IsFiniteSet(S \cup G)
          /\ Cardinality(S \cup G) = Cardinality(S) + Cardinality(G) - Cardinality(S \cap G)
      BY <1>2, <1>7, FS_Union
    <3>3. Cardinality(S \cap G) = 0
      BY <3>1, FS_EmptySet
    <3>4. n \in Int /\ Cardinality(S) \in Int /\ Cardinality(G) = n
      BY <1>1, <1>2, <1>7
    <3>5. Cardinality(S \cup G) = Cardinality(S) + n
      <4> HIDE DEF n, G
      <4> QED
        BY <3>2, <3>3, <3>4
    <3>6. S2 = S \cup G /\ Cardinality(S) = l.shared
      BY <1>2, <2>2
    <3> HIDE DEF n, G
    <3> QED
      BY <3>2, <3>5, <3>6
  <2>5. HeldIs(m, S2, X2)
    BY <2>2, <2>3, <2>4 DEF HeldIs
  <2>6. ASSUME m.waiting # <<>> PROVE m.waiting[1].kind = "exclusive"
    <3>1. Len(m.waiting) >= 1
      BY <1>3, <2>6, EmptySeq
    <3> QED
      BY <1>1, <1>3, <2>1, <3>1
  <2>7. m.shared # 0
    BY <1>1, <1>11, <2>3
  <2>8. HeadBlocked(m)
    BY <2>6, <2>7 DEF HeadBlocked, Fits
  <2> QED
    BY <1>5, <1>9, <2>5, <2>8
<1>12. CASE n # 0 /\ l.waiting[1].kind = "exclusive"
  <2>1. l.waiting # <<>> /\ ~l.exclusive /\ l.shared = 0 /\ n = 1
    BY <1>12, GrantsCounts DEF Fits
  <2>2. S = {} /\ S2 = {} /\ X = {} /\ X2 = G
    BY <1>2, <1>6, <1>12, <2>1, FS_EmptySet
  <2>3. G = {l.waiting[1].chain}
    BY <2>1 DEF GrantedChains
  <2>4. m.shared = 0 /\ m.exclusive = TRUE
    BY <1>4, <1>12, <2>1
  <2>5. HeldIs(m, S2, X2)
    BY <2>2, <2>3, <2>4, FS_EmptySet DEF HeldIs
  <2>6. HeadBlocked(m)
    BY <2>4 DEF HeadBlocked, Fits
  <2> QED
    BY <1>5, <1>9, <2>5, <2>6
<1>13. n # 0 => l.waiting[1].kind \in {"shared", "exclusive"}
  BY <1>1, LockFields DEF Kinds
<1> QED
  BY <1>10, <1>11, <1>12, <1>13

(* A grant is what its chain waited for.                                   *)
LEMMA GrantedWaited ==
  ASSUME NEW l \in Lock, NEW S, NEW X, NEW W \in SUBSET Waiter, QueueIs(l, S, X, W),
         NEW kind \in Kinds, NEW d
  PROVE  d \in GrantedOf(l, kind) <=> d \in GrantedChains(l) /\ [chain |-> d, kind |-> kind] \in W
<1> DEFINE r == [chain |-> d, kind |-> kind]
<1>1. Grants(l) \in 0 .. Len(l.waiting) /\ Len(l.waiting) \in Nat
  BY GrantsCounts, LockFields
<1>2. \A i \in 1 .. Grants(l) : i \in 1 .. Len(l.waiting)
  BY <1>1
<1>3. ASSUME d \in GrantedOf(l, kind) PROVE d \in GrantedChains(l) /\ r \in W
  <2>1. PICK i \in 1 .. Grants(l) : l.waiting[i].kind = kind /\ d = l.waiting[i].chain
    BY <1>3 DEF GrantedOf
  <2>2. l.waiting[i] \in W /\ l.waiting[i] \in Waiter
    BY <1>2, <2>1 DEF QueueIs
  <2>3. l.waiting[i] = r
    BY <2>1, <2>2 DEF Waiter
  <2> QED
    BY <2>1, <2>2, <2>3 DEF GrantedChains
<1>4. ASSUME d \in GrantedChains(l), r \in W PROVE d \in GrantedOf(l, kind)
  <2>1. PICK i \in 1 .. Grants(l) : d = l.waiting[i].chain
    BY <1>4 DEF GrantedChains
  <2>2. PICK j \in 1 .. Len(l.waiting) : r = l.waiting[j]
    BY <1>4 DEF QueueIs
  <2>3. r.chain = d /\ r.kind = kind
    OBVIOUS
  <2>4. i = j
    BY <1>2, <2>1, <2>2, <2>3 DEF QueueIs
  <2> QED
    BY <2>1, <2>2, <2>3, <2>4 DEF GrantedOf
<1> QED
  BY <1>3, <1>4

(* Whoever is ahead of a granted chain is granted too.                     *)
LEMMA GrantedInOrder ==
  ASSUME NEW l \in Lock, NEW d \in GrantedChains(l), NEW i \in 1 .. Len(l.waiting),
         \A h \in 1 .. i : l.waiting[h].chain # d
  PROVE  l.waiting[i].chain \in GrantedChains(l)
<1>1. Grants(l) \in 0 .. Len(l.waiting) /\ Len(l.waiting) \in Nat
  BY GrantsCounts, LockFields
<1>2. PICK m \in 1 .. Grants(l) : d = l.waiting[m].chain
  BY DEF GrantedChains
<1>3. ~(m \in 1 .. i)
  BY <1>2
<1>4. i \in 1 .. Grants(l)
  BY <1>1, <1>3
<1> QED
  BY <1>4 DEF GrantedChains

LEMMA GiveBackKeepsQueue ==
  ASSUME NEW l \in Lock, NEW kind
  PROVE  GiveBack(l, kind).waiting = l.waiting
BY DEF GiveBack, Lock
=============================================================================
