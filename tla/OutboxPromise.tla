--------------------------- MODULE OutboxPromise ---------------------------
(***************************************************************************)
(* What the fenced outbox promises about each intent, whoever works on it  *)
(* and whatever dies: nothing is sent before the intent is committed, its  *)
(* effect is tried again only after the host confirmed that the last try   *)
(* had none, and what is settled stays settled and says what happened.     *)
(*                                                                         *)
(* sent counts the tries of an intent that may have had their effect.      *)
(***************************************************************************)
EXTENDS Integers

CONSTANT Rows
VARIABLES intent, sent

vars == << intent, sent >>

Init == intent = [r \in Rows |-> "absent"] /\ sent = [r \in Rows |-> 0]

Move(r, from, to) == intent[r] \in from /\ intent' = [intent EXCEPT ![r] = to]

(* A transaction commits its intents together.                             *)
Commit ==
  /\ \E S \in SUBSET { r \in Rows : intent[r] = "absent" } :
       intent' = [r \in Rows |-> IF r \in S THEN "queued" ELSE intent[r]]
  /\ UNCHANGED sent

(* The effect is tried once; the intent may be written off meanwhile.      *)
Send(r) ==
  /\ intent[r] \in {"queued", "unknown"} /\ sent[r] = 0
  /\ sent' = [sent EXCEPT ![r] = 1]
  /\ UNCHANGED intent

(* The host confirms that the try had no effect.                           *)
NoEffect(r) ==
  /\ sent[r] = 1 /\ intent[r] \in {"queued", "unknown"}
  /\ sent' = [sent EXCEPT ![r] = 0]
  /\ UNCHANGED intent

Settle(r) ==
  /\ \/ sent[r] = 0 /\ Move(r, {"queued"}, "denied")
     \/ sent[r] = 1 /\ Move(r, {"queued"}, "delivered")
     \/ Move(r, {"queued"}, "failed")
  /\ UNCHANGED sent

(* Claims that ran out after the dispatch marker are written off.          *)
WriteOff ==
  /\ \E S \in SUBSET { r \in Rows : intent[r] = "queued" } :
       intent' = [r \in Rows |-> IF r \in S THEN "unknown" ELSE intent[r]]
  /\ UNCHANGED sent

Next == Commit \/ WriteOff \/ \E r \in Rows : Send(r) \/ NoEffect(r) \/ Settle(r)

SafeSpec == Init /\ [][Next]_vars
=============================================================================
