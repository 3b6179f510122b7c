------------------------------ MODULE TurnLock ------------------------------
(***************************************************************************)
(* The turn lock of one database file (db/src/kernel/turn-lock.ts): many   *)
(* run() bodies or one transaction at a time, first come first served.     *)
(*                                                                         *)
(* A lock is a value: the number of shared turns out, whether the          *)
(* exclusive turn is out, and the queue of those who wait.  Acquire and    *)
(* Release return the lock after the call; the class runs each of them     *)
(* without an await.                                                       *)
(***************************************************************************)
EXTENDS Integers, Sequences

CONSTANT Chains    \* call chains: the async contexts that ask for turns

Kinds  == {"shared", "exclusive"}
Waiter == [chain : Chains, kind : Kinds]
Lock   == [shared : Nat, exclusive : BOOLEAN, waiting : Seq(Waiter)]

FreeLock == [shared |-> 0, exclusive |-> FALSE, waiting |-> <<>>]

(* Variant: a transaction does not wait for run() bodies.                  *)
FitsBesideRuns(l, kind) == ~l.exclusive

Fits(l, kind) == ~l.exclusive /\ (kind = "exclusive" => l.shared = 0)

Take(l, kind) == IF kind = "exclusive" THEN [l EXCEPT !.exclusive = TRUE]
                                       ELSE [l EXCEPT !.shared = l.shared + 1]

(* Variant: whoever fits goes past the queue.                              *)
TakesPastQueue(l, kind) == Fits(l, kind)

(* acquire(): a turn at once only when nobody waits; otherwise the end of  *)
(* the queue.                                                              *)
TakesAtOnce(l, kind) == l.waiting = <<>> /\ Fits(l, kind)

Acquire(l, chain, kind) ==
  IF TakesAtOnce(l, kind)
  THEN Take(l, kind)
  ELSE [l EXCEPT !.waiting = Append(l.waiting, [chain |-> chain, kind |-> kind])]

(* Variant: every release counts as a run()'s.                             *)
GiveBackShared(l, kind) == [l EXCEPT !.exclusive = FALSE, !.shared = l.shared - 1]

(* release() first gives the turn back ...                                 *)
GiveBack(l, kind) == IF kind = "exclusive" THEN [l EXCEPT !.exclusive = FALSE]
                                           ELSE [l EXCEPT !.shared = l.shared - 1]

(* Variant: one release, one grant.                                        *)
GrantsOne(l) ==
  IF l.waiting = <<>> \/ ~Fits(l, l.waiting[1].kind) THEN 0 ELSE 1

(* ... and then grants from the head of the queue while the head fits: one *)
(* exclusive turn, or every shared one up to the first exclusive.          *)
Grants(l) ==
  IF l.waiting = <<>> \/ ~Fits(l, l.waiting[1].kind) THEN 0
  ELSE IF l.waiting[1].kind = "exclusive" THEN 1
  ELSE CHOOSE n \in 1 .. Len(l.waiting) :
         /\ \A i \in 1 .. n : l.waiting[i].kind = "shared"
         /\ n = Len(l.waiting) \/ l.waiting[n + 1].kind = "exclusive"

GrantedChains(l) == { l.waiting[i].chain : i \in 1 .. Grants(l) }

GrantHeads(l) ==
  [ shared    |-> IF l.waiting # <<>> /\ l.waiting[1].kind = "shared"
                  THEN l.shared + Grants(l) ELSE l.shared,
    exclusive |-> l.exclusive \/ (Grants(l) = 1 /\ l.waiting[1].kind = "exclusive"),
    waiting   |-> SubSeq(l.waiting, Grants(l) + 1, Len(l.waiting)) ]

Release(l, kind) == GrantHeads(GiveBack(l, kind))
=============================================================================
