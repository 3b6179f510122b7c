------------------------------ MODULE RunFeed ------------------------------
(***************************************************************************)
(* What one reader of a run is promised, whatever happens to its           *)
(* connections: it reads the recorded events in order and each once, but   *)
(* for the end, which it gets once more each time it comes back after it   *)
(* has read it (run-lifecycle.ts:140-143).  An event it never reads is one *)
(* the log no longer had, and once the run has ended it gets to the end.   *)
(*                                                                         *)
(* Events are their cursors, 1 .. recorded; the end is the last one.  The  *)
(* log retains those from oldest on.  The reader has got as far as seen.   *)
(***************************************************************************)
EXTENDS Integers

VARIABLES
  recorded, oldest, ended, seen,
  reads,   (* the events read, repeated ones too: no read is a stutter     *)
  done     (* the reader has read the end since it last came back          *)

vars == << recorded, oldest, ended, seen, reads, done >>

Init ==
  /\ recorded = 1 /\ oldest = 1 /\ ended = FALSE
  /\ seen = 0 /\ reads = 0 /\ done = FALSE

(* One more event is recorded; the log may evict its oldest ones for it.   *)
Record ==
  /\ ~ended
  /\ recorded' = recorded + 1
  /\ ended' \in BOOLEAN
  /\ oldest' \in oldest .. recorded + 1
  /\ UNCHANGED << seen, reads, done >>

(* The log compacts an ended run.                                          *)
Compact ==
  /\ ended
  /\ oldest' = recorded /\ oldest < recorded
  /\ UNCHANGED << recorded, ended, seen, reads, done >>

(* One event is read.  The reader is done if it is the end.                *)
Read(event) ==
  /\ seen' = event
  /\ reads' = reads + 1
  /\ done' = (ended /\ event = recorded)
  /\ UNCHANGED << recorded, oldest, ended >>

See == seen < recorded /\ Read(seen + 1)

(* Only what the log has lost is skipped.                                  *)
Skip == seen + 1 < oldest /\ \E event \in seen + 2 .. oldest : Read(event)

(* A reader that is done comes back, and gets the end again.               *)
ComeBack ==
  /\ done
  /\ done' = FALSE
  /\ UNCHANGED << recorded, oldest, ended, seen, reads >>

Repeat == ended /\ seen = recorded /\ ~done /\ Read(recorded)

Next == Record \/ Compact \/ See \/ Skip \/ ComeBack \/ Repeat

(* An ended run is read to its end, by a reader that came back, too.       *)
Fairness == WF_vars(ended /\ (See \/ Skip \/ Repeat))

Spec == Init /\ [][Next]_vars /\ Fairness
=============================================================================
