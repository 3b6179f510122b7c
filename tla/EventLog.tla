------------------------------ MODULE EventLog ------------------------------
(***************************************************************************)
(* The run event log of the daemon: one ordered, replayable log per run,   *)
(* behind the EventLog port of packages/protocol/src/event-log.ts.  Two    *)
(* adapters implement the port and this module models both:                *)
(*                                                                         *)
(*   InMemory = TRUE    packages/daemon/src/event-log.ts: FIFO cap,        *)
(*                      compaction of an ended run after a retention       *)
(*                      timer, and a cap on the number of runs held, for   *)
(*                      which only ended runs may be evicted.              *)
(*   InMemory = FALSE   packages/daemon/src/store/event-log/sqlite.ts:     *)
(*                      FIFO cap only, durable across restarts.            *)
(*                                                                         *)
(* The log is one value, log, and its operations are operators from log    *)
(* value to log value, so that a module that composes the log with its     *)
(* users can apply several of them in one step.                            *)
(***************************************************************************)
EXTENDS Integers, Sequences, FiniteSets, SequencesExt

CONSTANTS
  Runs,        (* run ids                                                  *)
  Payloads,    (* the data an entry carries, opaque to the log             *)
  Keys,        (* producer-supplied dedupe keys                            *)
  NoKey,       (* an append without a dedupe key                           *)
  MaxEntries,  (* maxEntriesPerRun                                         *)
  MaxRuns,     (* maxRuns; at least Cardinality(Runs) stands for null      *)
  InMemory,    (* which adapter                                            *)
  MaxCursor    (* bounds the model: cursors handed out per run             *)

ASSUME RunsAssumption    == IsFiniteSet(Runs)
ASSUME KeysAssumption    == NoKey \notin Keys
ASSUME LimitsAssumption  == /\ MaxEntries \in Nat \ {0}
                            /\ MaxRuns \in Nat
                            /\ MaxCursor \in Nat
                            /\ InMemory \in BOOLEAN

VARIABLE log

(***************************************************************************)
(* "agent" stands for every kind a driver may emit (agent, stdout, stderr, *)
(* error): the log only distinguishes the event that closes a run.         *)
(***************************************************************************)
TerminalEvent == "end"
Events        == {"start", "agent", TerminalEvent}

Entry == [id : Nat \ {0}, event : Events, data : Payloads, key : Keys \cup {NoKey}]

(***************************************************************************)
(* What the log keeps of a run.  dedupe[k] is the id of the entry that k   *)
(* named, 0 when there is none.  compaction says that the retention timer  *)
(* is armed.  history is a history variable: every entry the log recorded  *)
(* since it first, or last, heard of the run; no operation reads it.       *)
(***************************************************************************)
RunLog == [held       : BOOLEAN,
           entries    : Seq(Entry),
           nextId     : Nat \ {0},
           dedupe     : [Keys -> Nat],
           compaction : BOOLEAN,
           history    : Seq(Entry)]

(* Variant: cursors start at 0.                                            *)
NoRunLogFromZero == [held |-> FALSE, entries |-> << >>, nextId |-> 0,
                     dedupe |-> [k \in Keys |-> 0], compaction |-> FALSE, history |-> << >>]

NoRunLog == [held       |-> FALSE,
             entries    |-> << >>,
             nextId     |-> 1,
             dedupe     |-> [k \in Keys |-> 0],
             compaction |-> FALSE,
             history    |-> << >>]

(* log.ended is the endedRuns set of the code in its insertion order.      *)
LogType == [runs : [Runs -> RunLog], ended : Seq(Runs)]

EmptyLog == [runs |-> [r \in Runs |-> NoRunLog], ended |-> << >>]

Held(l) == {r \in Runs : l.runs[r].held}

-----------------------------------------------------------------------------
(* Helpers                                                                 *)

(* The newest n elements of s, or all of them.                             *)
Newest(s, n) == IF Len(s) > n THEN SubSeq(s, Len(s) - n + 1, Len(s)) ELSE s

(***************************************************************************)
(* The elements of s at the given positions, in their order: what filter   *)
(* keeps.  Not written with SelectSeq, so that it can be reasoned about.   *)
(***************************************************************************)
Kept(s, positions) ==
  [n \in 1 .. Cardinality(positions) |->
     s[CHOOSE i \in positions : Cardinality({j \in positions : j <= i}) = n]]

(* Variant: all dedupe evidence is forgotten.                              *)
NoEvidence(dedupe, entries) == [k \in Keys |-> 0]

(* The dedupe evidence that points at one of the given entries.            *)
EvidenceIn(dedupe, entries) ==
  [k \in Keys |->
     IF \E i \in 1 .. Len(entries) : entries[i].id = dedupe[k] THEN dedupe[k] ELSE 0]

-----------------------------------------------------------------------------
(* append                                                                  *)

(* removeRun for every run of a set.                                       *)
Forget(l, gone) == [r \in Runs |-> IF r \in gone THEN NoRunLog ELSE l.runs[r]]

(* Variant: the cap is enforced one run too late.                          *)
EnforceRunCapLate(l) ==
  IF Cardinality(Held(l)) <= MaxRuns + 1 \/ l.ended = << >> THEN l
  ELSE [runs |-> Forget(l, {l.ended[1]}), ended |-> Tail(l.ended)]

(* Oldest ended runs first, until the cap is met or no ended run is left.  *)
EnforceRunCap(l) ==
  LET excess == Cardinality(Held(l)) - MaxRuns
      n      == IF excess <= 0 THEN 0
                ELSE IF excess < Len(l.ended) THEN excess ELSE Len(l.ended)
      gone   == {l.ended[i] : i \in 1 .. n}
  IN  [runs |-> Forget(l, gone), ended |-> SubSeq(l.ended, n + 1, Len(l.ended))]

(* Variant: a run that is resumed stays on the list of ended runs.         *)
NoteRunPhaseStale(ended, r, event) ==
  IF event = TerminalEvent THEN Append(RemoveFirst(ended, r), r) ELSE ended

(* An ended run joins the end of the list; any other event takes it off.   *)
NoteRunPhase(ended, r, event) ==
  IF event = TerminalEvent THEN Append(RemoveFirst(ended, r), r) ELSE RemoveFirst(ended, r)

NewEntry(rl, event, data, key) ==
  [id |-> rl.nextId, event |-> event, data |-> data, key |-> key]

(* Variant: the retention timer is never armed.                            *)
RecordUnarmed(rl, entry) ==
  LET kept == Newest(Append(rl.entries, entry), MaxEntries)
  IN  [rl EXCEPT !.held = TRUE, !.entries = kept, !.nextId = @ + 1,
                 !.dedupe = IF entry.key = NoKey THEN @ ELSE [@ EXCEPT ![entry.key] = entry.id],
                 !.compaction = FALSE, !.history = Append(@, entry)]

(* Variant: the next cursor is taken from the number of retained entries.  *)
RecordByCount(rl, entry) ==
  LET kept == Newest(Append(rl.entries, entry), MaxEntries)
  IN  [rl EXCEPT !.held = TRUE, !.entries = kept, !.nextId = Len(kept) + 1,
                 !.history = Append(@, entry)]

(***************************************************************************)
(* One run's log after recording an entry.  Evidence of entries the FIFO   *)
(* cap evicts survives in memory, and goes with the row in sqlite.         *)
(***************************************************************************)
Record(rl, entry) ==
  LET kept   == Newest(Append(rl.entries, entry), MaxEntries)
      dedupe == IF entry.key = NoKey THEN rl.dedupe
                                     ELSE [rl.dedupe EXCEPT ![entry.key] = entry.id]
  IN  [held       |-> TRUE,
       entries    |-> kept,
       nextId     |-> rl.nextId + 1,
       dedupe     |-> IF InMemory THEN dedupe ELSE EvidenceIn(dedupe, kept),
       compaction |-> InMemory /\ entry.event = TerminalEvent,
       history    |-> Append(rl.history, entry)]

(* A known dedupe key returns the original entry and records nothing.      *)
IsDuplicate(l, r, key) == key # NoKey /\ l.runs[r].dedupe[key] # 0

AppendTo(l, r, event, data, key) ==
  IF IsDuplicate(l, r, key) THEN l
  ELSE LET rl    == l.runs[r]
           runs  == [l.runs EXCEPT ![r] = Record(rl, NewEntry(rl, event, data, key))]
           ended == NoteRunPhase(l.ended, r, event)
       IN  IF InMemory THEN EnforceRunCap([runs |-> runs, ended |-> ended])
                       ELSE [runs |-> runs, ended |-> << >>]

-----------------------------------------------------------------------------
(* compaction, drop, replay                                                *)

(* Variant: compaction keeps the oldest entry instead of the newest.       *)
CompactRunToOldest(l, r) ==
  [l EXCEPT !.runs[r].entries = SubSeq(@, 1, 1), !.runs[r].compaction = FALSE]

(* An ended run shrinks to its newest entry; nextId stays.                 *)
CompactRun(l, r) ==
  LET rl == l.runs[r]
      kept == Newest(rl.entries, 1)
  IN  [l EXCEPT !.runs[r] = [rl EXCEPT !.entries    = kept,
                                       !.dedupe     = EvidenceIn(rl.dedupe, kept),
                                       !.compaction = FALSE]]

DropFrom(l, r) == [runs |-> Forget(l, {r}), ended |-> RemoveFirst(l.ended, r)]

(***************************************************************************)
(* replay.  NullCursor is a subscriber that has seen nothing; it is never  *)
(* refused, only told that the answer is truncated.                        *)
(***************************************************************************)
NullCursor == -1

(* The entries after the cursor, in their order: filter by id.             *)
After(entries, cursor) == Kept(entries, {i \in 1 .. Len(entries) : entries[i].id > cursor})

OldestRetainedId(rl) == IF rl.entries # << >> THEN rl.entries[1].id ELSE rl.nextId

Replay(l, r, cursor) ==
  LET rl == l.runs[r] IN
  IF ~rl.held
    THEN [kind |-> "unknown-run", entries |-> << >>, truncated |-> FALSE]
  ELSE IF cursor = NullCursor
    THEN [kind |-> "ok", entries |-> rl.entries,
          truncated |-> rl.entries # << >> /\ rl.entries[1].id > 1]
  ELSE IF cursor < OldestRetainedId(rl) - 1
    THEN [kind |-> "replay-gap", entries |-> << >>, truncated |-> FALSE]
  ELSE [kind |-> "ok", entries |-> After(rl.entries, cursor), truncated |-> FALSE]

-----------------------------------------------------------------------------
(* The log on its own, driven by any producer that respects the port       *)

Init == log = EmptyLog

AppendEvent(r, event, data, key) ==
  /\ log.runs[r].nextId <= MaxCursor
  /\ log' = AppendTo(log, r, event, data, key)

(* The retention timer of an ended run fires.                              *)
Compact(r) ==
  /\ log.runs[r].compaction
  /\ log' = CompactRun(log, r)

Drop(r) ==
  /\ log.runs[r].held
  /\ log' = DropFrom(log, r)

(* Every non-terminal kind is alike to the log, so "agent" stands for all. *)
Next ==
  \/ \E r \in Runs, event \in {"agent", TerminalEvent}, data \in Payloads, key \in Keys \cup {NoKey} :
       AppendEvent(r, event, data, key)
  \/ \E r \in Runs : Compact(r)
  \/ \E r \in Runs : Drop(r)

(* Timers fire: an armed compaction is not postponed for ever.             *)
Fairness == \A r \in Runs : WF_log(Compact(r))

Spec == Init /\ [][Next]_log /\ Fairness

-----------------------------------------------------------------------------
(* Properties                                                              *)

EventLogTypeOK == log \in LogType

LastEvent(s) == IF s = << >> THEN "none" ELSE s[Len(s)].event
Ended(l, r)  == LastEvent(l.runs[r].history) = TerminalEvent

(***************************************************************************)
(* A replay is never silently wrong (protocol event-log.ts, the replay-gap *)
(* contract): an "ok" answer is exactly what was recorded after the        *)
(* cursor, and a gap is reported only when something after the cursor      *)
(* really is gone.  A first subscription is told "truncated" exactly when  *)
(* the beginning is missing.  Eviction, compaction and drop all cut the    *)
(* log; no cut may leave a hole that replay does not see.                  *)
(***************************************************************************)
ReplayIsExact ==
  \A r \in Runs :
    LET rl    == log.runs[r]
        first == Replay(log, r, NullCursor)
    IN  rl.held =>
          /\ first.truncated <=> (first.entries # rl.history)
          /\ \A cursor \in 0 .. MaxCursor :
               LET answer == Replay(log, r, cursor)
               IN  /\ answer.kind = "ok" => answer.entries = After(rl.history, cursor)
                   /\ answer.kind = "replay-gap" =>
                        \E i \in 1 .. Len(rl.history) :
                          /\ rl.history[i].id > cursor
                          /\ \A j \in 1 .. Len(rl.entries) : rl.entries[j] # rl.history[i]

(***************************************************************************)
(* The list of evictable runs is exact: the runs whose last recorded event *)
(* is the terminal one, each once, and only those have an armed timer.     *)
(* What is live is thereby never on the list the run cap takes from.       *)
(***************************************************************************)
EvictableExactlyEnded ==
  InMemory =>
    /\ ToSet(log.ended) = {r \in Runs : log.runs[r].held /\ Ended(log, r)}
    /\ IsInjective(log.ended)
    /\ \A r \in Runs : log.runs[r].compaction => Ended(log, r)

(***************************************************************************)
(* The run cap (event-log.ts, maxRuns): the log exceeds it only while no   *)
(* ended run is left, so with more live runs than the cap it holds every   *)
(* live run and no ended one.                                              *)
(***************************************************************************)
RunCapSparesOnlyLive ==
  InMemory /\ Cardinality(Held(log)) > MaxRuns => log.ended = << >>

(***************************************************************************)
(* A producer that retries with the same key never puts a second copy next *)
(* to the original: retained entries carry distinct dedupe keys.           *)
(***************************************************************************)
RetainedKeysDistinct ==
  \A r \in Runs :
    LET kept == log.runs[r].entries
    IN  \A i, j \in 1 .. Len(kept) :
          i # j /\ kept[i].key # NoKey => kept[i].key # kept[j].key

(***************************************************************************)
(* A step that forgets a live run is its drop: neither the run cap nor the *)
(* compaction takes it.  (The append that ends a run may evict that very   *)
(* run, when it is the only ended one and the log is over its cap.)        *)
(***************************************************************************)
LiveRunsKept ==
  [][\A r \in Runs :
       log.runs[r].held /\ ~Ended(log, r) /\ ~log'.runs[r].held =>
         \/ log' = DropFrom(log, r)
         \/ \E data \in Payloads, key \in Keys \cup {NoKey} :
              AppendEvent(r, TerminalEvent, data, key)]_log

(***************************************************************************)
(* An ended run's payloads do not stay for ever: it is compacted to one    *)
(* entry, unless it goes live again or leaves the log first.               *)
(***************************************************************************)
EndedRunsShrink ==
  \A r \in Runs :
    (InMemory /\ Ended(log, r)) ~> (Len(log.runs[r].entries) <= 1 \/ ~Ended(log, r))
============================================================================
