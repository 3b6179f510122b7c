----------------------------- MODULE MCEventLog -----------------------------
(***************************************************************************)
(* The in-memory event log: three runs, one more than the run cap, and a   *)
(* per-run cap smaller than the number of entries a run may record.        *)
(***************************************************************************)
EXTENDS EventLog

(* The log never looks into a payload: one value is enough.                *)
MCPayloads == {"data"}

(* After is the filter of the code, whatever the ids are.                  *)
ASSUME AfterIsFilter ==
  \A n \in 0 .. 4, cursor \in NullCursor .. 4 :
    \A ids \in [1 .. n -> 1 .. 3] :
      LET entries == [i \in 1 .. n |-> [id |-> ids[i]]]
      IN  After(entries, cursor) = SelectSeq(entries, LAMBDA e : e.id > cursor)
============================================================================
