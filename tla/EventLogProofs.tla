--------------------------- MODULE EventLogProofs ---------------------------
(***************************************************************************)
(* Theorems about the event log, for every set of runs, payloads and keys, *)
(* every cap and both adapters.                                            *)
(***************************************************************************)
EXTENDS EventLog, SequenceLemmas

-----------------------------------------------------------------------------
(* Types of the helpers                                                    *)

LEMMA NewestInSeq ==
  ASSUME NEW S, NEW s \in Seq(S), NEW n \in Nat
  PROVE  Newest(s, n) \in Seq(S)
<1>1. CASE Len(s) > n
  <2>1. \A i \in Len(s) - n + 1 .. Len(s) : s[i] \in S
    BY <1>1, LenProperties, ElementOfSeq
  <2> QED
    BY <1>1, <2>1, LenProperties, SubSeqProperties DEF Newest
<1>2. CASE ~(Len(s) > n)
  BY <1>2 DEF Newest
<1> QED
  BY <1>1, <1>2

LEMMA EvidenceInType ==
  ASSUME NEW dedupe \in [Keys -> Nat], NEW entries
  PROVE  EvidenceIn(dedupe, entries) \in [Keys -> Nat]
BY DEF EvidenceIn

LEMMA NoRunLogType == NoRunLog \in RunLog
BY EmptySeq DEF NoRunLog, RunLog

LEMMA ForgetType ==
  ASSUME NEW l \in LogType, NEW gone
  PROVE  Forget(l, gone) \in [Runs -> RunLog]
BY NoRunLogType DEF Forget, LogType

LEMMA NewEntryType ==
  ASSUME NEW rl \in RunLog, NEW event \in Events, NEW data \in Payloads,
         NEW key \in Keys \cup {NoKey}
  PROVE  NewEntry(rl, event, data, key) \in Entry
BY DEF NewEntry, Entry, RunLog

LEMMA RecordType ==
  ASSUME NEW rl \in RunLog, NEW entry \in Entry
  PROVE  Record(rl, entry) \in RunLog
<1> DEFINE kept   == Newest(Append(rl.entries, entry), MaxEntries)
           dedupe == IF entry.key = NoKey THEN rl.dedupe
                                          ELSE [rl.dedupe EXCEPT ![entry.key] = entry.id]
<1>1. kept \in Seq(Entry)
  BY AppendProperties, NewestInSeq, LimitsAssumption DEF RunLog
<1>2. dedupe \in [Keys -> Nat]
  BY DEF RunLog, Entry
<1>3. (IF InMemory THEN dedupe ELSE EvidenceIn(dedupe, kept)) \in [Keys -> Nat]
  BY <1>2, EvidenceInType
<1>4. Append(rl.history, entry) \in Seq(Entry)
  BY AppendProperties DEF RunLog
<1>5. rl.nextId + 1 \in Nat \ {0}
  BY DEF RunLog
<1>6. (InMemory /\ entry.event = TerminalEvent) \in BOOLEAN
  BY LimitsAssumption
<1> HIDE DEF kept, dedupe
<1> QED
  BY <1>1, <1>3, <1>4, <1>5, <1>6 DEF Record, RunLog, kept, dedupe

LEMMA NoteRunPhaseType ==
  ASSUME NEW ended \in Seq(Runs), NEW r \in Runs, NEW event
  PROVE  NoteRunPhase(ended, r, event) \in Seq(Runs)
BY RemoveFirstInSeq, AppendProperties DEF NoteRunPhase

(* The number of runs the cap takes.                                       *)
Excess(l) ==
  LET excess == Cardinality(Held(l)) - MaxRuns
  IN  IF excess <= 0 THEN 0
      ELSE IF excess < Len(l.ended) THEN excess ELSE Len(l.ended)

Gone(l) == {l.ended[i] : i \in 1 .. Excess(l)}

LEMMA ExcessType ==
  ASSUME NEW l \in LogType
  PROVE  Excess(l) \in 0 .. Len(l.ended)
<1>1. IsFiniteSet(Held(l))
  BY RunsAssumption, FS_Subset DEF Held
<1>2. Cardinality(Held(l)) \in Nat
  BY <1>1, FS_CardinalityType
<1>3. Len(l.ended) \in Nat
  BY LenProperties DEF LogType
<1> QED
  BY <1>2, <1>3, LimitsAssumption DEF Excess

LEMMA EnforceRunCapIs ==
  ASSUME NEW l
  PROVE  EnforceRunCap(l) = [runs  |-> Forget(l, Gone(l)),
                             ended |-> SubSeq(l.ended, Excess(l) + 1, Len(l.ended))]
BY DEF EnforceRunCap, Gone, Excess

LEMMA EnforceRunCapType ==
  ASSUME NEW l \in LogType
  PROVE  EnforceRunCap(l) \in LogType
<1>1. Excess(l) \in 0 .. Len(l.ended) /\ l.ended \in Seq(Runs) /\ Len(l.ended) \in Nat
  BY ExcessType, LenProperties DEF LogType
<1>2. \A i \in Excess(l) + 1 .. Len(l.ended) : l.ended[i] \in Runs
  BY <1>1, ElementOfSeq
<1>3. SubSeq(l.ended, Excess(l) + 1, Len(l.ended)) \in Seq(Runs)
  BY <1>1, <1>2, SubSeqProperties
<1> QED
  BY <1>3, ForgetType, EnforceRunCapIs DEF LogType

(* The log after an append that is no duplicate, before the run cap.       *)
Recorded(l, r, event, data, key) ==
  [runs  |-> [l.runs EXCEPT ![r] = Record(l.runs[r], NewEntry(l.runs[r], event, data, key))],
   ended |-> NoteRunPhase(l.ended, r, event)]

LEMMA AppendToIs ==
  ASSUME NEW l, NEW r, NEW event, NEW data, NEW key
  PROVE  AppendTo(l, r, event, data, key) =
           IF IsDuplicate(l, r, key) THEN l
           ELSE IF InMemory THEN EnforceRunCap(Recorded(l, r, event, data, key))
           ELSE [runs |-> Recorded(l, r, event, data, key).runs, ended |-> << >>]
BY DEF AppendTo, Recorded

LEMMA RecordedType ==
  ASSUME NEW l \in LogType, NEW r \in Runs, NEW event \in Events, NEW data \in Payloads,
         NEW key \in Keys \cup {NoKey}
  PROVE  Recorded(l, r, event, data, key) \in LogType
<1>1. l.runs \in [Runs -> RunLog] /\ l.ended \in Seq(Runs)
  BY DEF LogType
<1>2. l.runs[r] \in RunLog
  BY <1>1
<1>3. Record(l.runs[r], NewEntry(l.runs[r], event, data, key)) \in RunLog
  BY <1>2, NewEntryType, RecordType
<1>4. NoteRunPhase(l.ended, r, event) \in Seq(Runs)
  BY <1>1, NoteRunPhaseType
<1> QED
  BY <1>1, <1>3, <1>4 DEF Recorded, LogType

LEMMA AppendToType ==
  ASSUME NEW l \in LogType, NEW r \in Runs, NEW event \in Events, NEW data \in Payloads,
         NEW key \in Keys \cup {NoKey}
  PROVE  AppendTo(l, r, event, data, key) \in LogType
<1>1. Recorded(l, r, event, data, key) \in LogType
  BY RecordedType
<1>2. EnforceRunCap(Recorded(l, r, event, data, key)) \in LogType
  BY <1>1, EnforceRunCapType
<1>3. [runs |-> Recorded(l, r, event, data, key).runs, ended |-> << >>] \in LogType
  BY <1>1, EmptySeq DEF LogType
<1> QED
  BY <1>2, <1>3, AppendToIs

LEMMA CompactRunType ==
  ASSUME NEW l \in LogType, NEW r \in Runs
  PROVE  CompactRun(l, r) \in LogType
<1> DEFINE rl   == l.runs[r]
           kept == Newest(rl.entries, 1)
<1>1. rl \in RunLog
  BY DEF LogType
<1>2. kept \in Seq(Entry)
  BY <1>1, NewestInSeq DEF RunLog
<1>3. EvidenceIn(rl.dedupe, kept) \in [Keys -> Nat]
  BY <1>1, EvidenceInType DEF RunLog
<1>4. [rl EXCEPT !.entries = kept, !.dedupe = EvidenceIn(rl.dedupe, kept),
                 !.compaction = FALSE] \in RunLog
  BY <1>1, <1>2, <1>3 DEF RunLog
<1> HIDE DEF kept
<1> QED
  BY <1>4 DEF CompactRun, LogType, kept

LEMMA DropFromType ==
  ASSUME NEW l \in LogType, NEW r \in Runs
  PROVE  DropFrom(l, r) \in LogType
BY ForgetType, RemoveFirstInSeq DEF DropFrom, LogType

-----------------------------------------------------------------------------
(* Type correctness                                                        *)

LEMMA NextKeepsType ==
  ASSUME EventLogTypeOK, [Next]_log
  PROVE  EventLogTypeOK'
<1>1. ASSUME NEW r \in Runs, NEW event \in {"agent", TerminalEvent}, NEW data \in Payloads,
             NEW key \in Keys \cup {NoKey}, AppendEvent(r, event, data, key)
      PROVE  EventLogTypeOK'
  <2>1. event \in Events
    BY DEF Events
  <2> QED
    BY <1>1, <2>1, AppendToType DEF AppendEvent, EventLogTypeOK
<1>2. ASSUME NEW r \in Runs, Compact(r)
      PROVE  EventLogTypeOK'
  BY <1>2, CompactRunType DEF Compact, EventLogTypeOK
<1>3. ASSUME NEW r \in Runs, Drop(r)
      PROVE  EventLogTypeOK'
  BY <1>3, DropFromType DEF Drop, EventLogTypeOK
<1>4. CASE UNCHANGED log
  BY <1>4 DEF EventLogTypeOK
<1> QED
  BY <1>1, <1>2, <1>3, <1>4 DEF Next

LEMMA EmptyLogType == EmptyLog \in LogType
BY NoRunLogType, EmptySeq DEF EmptyLog, LogType

(***************************************************************************)
(* The log keeps its types (append, replay's inputs, compaction and drop   *)
(* of event-log.ts), whatever producers do.                                *)
(***************************************************************************)
THEOREM TypeCorrect == Spec => []EventLogTypeOK
<1>1. Init => EventLogTypeOK
  BY EmptyLogType DEF Init, EventLogTypeOK
<1> QED
  BY <1>1, NextKeepsType, PTL DEF Spec
-----------------------------------------------------------------------------
(* The list of evictable runs is exact                                     *)

(* EvictableExactlyEnded as a predicate of a log value.                    *)
Exact(l) ==
  /\ ToSet(l.ended) = {r \in Runs : l.runs[r].held /\ Ended(l, r)}
  /\ IsInjective(l.ended)
  /\ \A r \in Runs : l.runs[r].compaction => Ended(l, r)

(* A recorded entry is the last of its run's history.                      *)
LEMMA RecordEnds ==
  ASSUME NEW rl \in RunLog, NEW entry \in Entry
  PROVE  /\ Record(rl, entry).held
         /\ LastEvent(Record(rl, entry).history) = entry.event
         /\ Record(rl, entry).compaction => entry.event = TerminalEvent
<1>1. /\ Append(rl.history, entry) # << >>
      /\ Len(Append(rl.history, entry)) = Len(rl.history) + 1
      /\ Append(rl.history, entry)[Len(rl.history) + 1] = entry
  BY AppendProperties DEF RunLog
<1>2. /\ Record(rl, entry).held
      /\ Record(rl, entry).history = Append(rl.history, entry)
      /\ Record(rl, entry).compaction = (InMemory /\ entry.event = TerminalEvent)
  BY DEF Record
<1> QED
  BY <1>1, <1>2 DEF LastEvent

LEMMA RecordedIsExact ==
  ASSUME NEW l \in LogType, Exact(l), NEW r \in Runs, NEW event \in Events,
         NEW data \in Payloads, NEW key \in Keys \cup {NoKey}
  PROVE  Exact(Recorded(l, r, event, data, key))
<1> DEFINE m == Recorded(l, r, event, data, key)
           t == RemoveFirst(l.ended, r)
<1>1. l.runs \in [Runs -> RunLog] /\ l.ended \in Seq(Runs) /\ l.runs[r] \in RunLog
  BY DEF LogType
<1>2. /\ m.runs[r].held
      /\ LastEvent(m.runs[r].history) = event
      /\ m.runs[r].compaction => event = TerminalEvent
  <2>1. m.runs[r] = Record(l.runs[r], NewEntry(l.runs[r], event, data, key))
    BY <1>1 DEF Recorded
  <2>2. NewEntry(l.runs[r], event, data, key).event = event
    BY DEF NewEntry
  <2> QED
    BY <1>1, <2>1, <2>2, NewEntryType, RecordEnds
<1>3. \A x \in Runs \ {r} : m.runs[x] = l.runs[x]
  BY <1>1 DEF Recorded
<1>4. /\ t \in Seq(Runs) /\ IsInjective(t)
      /\ ToSet(t) = ToSet(l.ended) \ {r}
  BY <1>1, RemoveFirstInSeq, RemoveFirstFromSet DEF Exact
<1>5. m.ended = IF event = TerminalEvent THEN Append(t, r) ELSE t
  BY DEF Recorded, NoteRunPhase
<1> HIDE DEF m, t
<1>6. /\ IsInjective(m.ended)
      /\ ToSet(m.ended) = IF event = TerminalEvent THEN ToSet(t) \cup {r} ELSE ToSet(t)
  <2>1. CASE event = TerminalEvent
    <3>1. r \notin ToSet(t)
      BY <1>4
    <3>2. ToSet(Append(t, r)) = ToSet(t) \cup {r} /\ IsInjective(Append(t, r))
      BY <1>4, <3>1, AppendToSet
    <3> QED
      BY <1>5, <2>1, <3>2
  <2>2. CASE event # TerminalEvent
    BY <1>4, <1>5, <2>2
  <2> QED
    BY <2>1, <2>2
<1>7. ToSet(m.ended) = {x \in Runs : m.runs[x].held /\ Ended(m, x)}
  <2>1. ASSUME NEW x \in Runs \ {r}
        PROVE  x \in ToSet(m.ended) <=> m.runs[x].held /\ Ended(m, x)
    BY <1>3, <1>4, <1>6 DEF Exact, Ended
  <2>2. r \in ToSet(m.ended) <=> m.runs[r].held /\ Ended(m, r)
    BY <1>2, <1>4, <1>6 DEF Ended
  <2>3. ToSet(m.ended) \subseteq Runs
    BY <1>4, <1>6 DEF Exact
  <2> QED
    BY <2>1, <2>2, <2>3
<1>8. \A x \in Runs : m.runs[x].compaction => Ended(m, x)
  BY <1>2, <1>3 DEF Exact, Ended
<1> QED
  BY <1>6, <1>7, <1>8 DEF Exact, m

(* Forgetting runs and taking them off the list go together.               *)
LEMMA ForgetIsExact ==
  ASSUME NEW l \in LogType, Exact(l), NEW gone \in SUBSET Runs, NEW rest \in Seq(Runs),
         ToSet(rest) = ToSet(l.ended) \ gone, IsInjective(rest)
  PROVE  Exact([runs |-> Forget(l, gone), ended |-> rest])
<1> DEFINE m == [runs |-> Forget(l, gone), ended |-> rest]
<1>1. \A x \in gone : m.runs[x] = NoRunLog
  BY DEF Forget
<1>2. \A x \in Runs \ gone : m.runs[x] = l.runs[x]
  BY DEF Forget
<1>3. ~NoRunLog.held /\ ~NoRunLog.compaction
  BY DEF NoRunLog
<1>4. m.ended = rest
  OBVIOUS
<1> HIDE DEF m
<1>5. ToSet(m.ended) = {x \in Runs : m.runs[x].held /\ Ended(m, x)}
  <2>1. ASSUME NEW x \in Runs
        PROVE  x \in ToSet(m.ended) <=> m.runs[x].held /\ Ended(m, x)
    BY <1>1, <1>2, <1>3, <1>4 DEF Exact, Ended
  <2>2. ToSet(m.ended) \subseteq Runs
    BY <1>4 DEF Exact
  <2> QED
    BY <2>1, <2>2
<1>6. \A x \in Runs : m.runs[x].compaction => Ended(m, x)
  BY <1>1, <1>2, <1>3 DEF Exact, Ended
<1> QED
  BY <1>4, <1>5, <1>6 DEF Exact, m

LEMMA RunCapIsExact ==
  ASSUME NEW l \in LogType, Exact(l)
  PROVE  Exact(EnforceRunCap(l))
<1> DEFINE rest == SubSeq(l.ended, Excess(l) + 1, Len(l.ended))
<1>1. l.ended \in Seq(Runs) /\ IsInjective(l.ended) /\ Excess(l) \in 0 .. Len(l.ended)
  BY ExcessType DEF LogType, Exact
<1>2. rest \in Seq(Runs) /\ ToSet(rest) = ToSet(l.ended) \ Gone(l) /\ IsInjective(rest)
  BY <1>1, RestOfSet DEF Gone
<1>3. Gone(l) \in SUBSET Runs
  BY <1>1, LenProperties, ElementOfSeq DEF Gone
<1> HIDE DEF rest
<1>4. Exact([runs |-> Forget(l, Gone(l)), ended |-> rest])
  BY <1>2, <1>3, ForgetIsExact
<1> QED
  BY <1>4, EnforceRunCapIs DEF rest

LEMMA CompactRunIsExact ==
  ASSUME NEW l \in LogType, Exact(l), NEW r \in Runs
  PROVE  Exact(CompactRun(l, r))
<1> DEFINE m == CompactRun(l, r)
<1>1. l.runs \in [Runs -> RunLog] /\ l.runs[r] \in RunLog
  BY DEF LogType
<1>2. /\ m.ended = l.ended
      /\ m.runs[r].held = l.runs[r].held /\ m.runs[r].history = l.runs[r].history
      /\ m.runs[r].compaction = FALSE
      /\ \A x \in Runs \ {r} : m.runs[x] = l.runs[x]
  BY <1>1 DEF CompactRun, LogType, RunLog
<1> HIDE DEF m
<1>3. \A x \in Runs : /\ m.runs[x].held = l.runs[x].held
                      /\ Ended(m, x) = Ended(l, x)
                      /\ m.runs[x].compaction => l.runs[x].compaction
  BY <1>2 DEF Ended
<1> QED
  BY <1>2, <1>3 DEF Exact, m

LEMMA DropFromIsExact ==
  ASSUME NEW l \in LogType, Exact(l), NEW r \in Runs
  PROVE  Exact(DropFrom(l, r))
<1>1. /\ RemoveFirst(l.ended, r) \in Seq(Runs)
      /\ ToSet(RemoveFirst(l.ended, r)) = ToSet(l.ended) \ {r}
      /\ IsInjective(RemoveFirst(l.ended, r))
  BY RemoveFirstInSeq, RemoveFirstFromSet DEF Exact, LogType
<1> QED
  BY <1>1, ForgetIsExact DEF DropFrom

LEMMA EmptyLogIsExact == Exact(EmptyLog)
<1>1. ToSet(EmptyLog.ended) = {} /\ IsInjective(EmptyLog.ended)
  BY DEF EmptyLog, ToSet, IsInjective
<1>2. \A r \in Runs : ~EmptyLog.runs[r].held /\ ~EmptyLog.runs[r].compaction
  BY DEF EmptyLog, NoRunLog
<1> QED
  BY <1>1, <1>2 DEF Exact

LEMMA AppendToIsExact ==
  ASSUME NEW l \in LogType, Exact(l), InMemory, NEW r \in Runs, NEW event \in Events,
         NEW data \in Payloads, NEW key \in Keys \cup {NoKey}
  PROVE  Exact(AppendTo(l, r, event, data, key))
BY RecordedType, RecordedIsExact, RunCapIsExact, AppendToIs

LEMMA NextKeepsExact ==
  ASSUME EventLogTypeOK, InMemory => Exact(log), [Next]_log
  PROVE  InMemory => Exact(log)'
<1> SUFFICES ASSUME InMemory PROVE Exact(log)'
  OBVIOUS
<1>1. ASSUME NEW r \in Runs, NEW event \in {"agent", TerminalEvent}, NEW data \in Payloads,
             NEW key \in Keys \cup {NoKey}, AppendEvent(r, event, data, key)
      PROVE  Exact(log')
  <2>1. event \in Events
    BY DEF Events
  <2> QED
    BY <1>1, <2>1, AppendToIsExact DEF AppendEvent, EventLogTypeOK
<1>2. ASSUME NEW r \in Runs, Compact(r)
      PROVE  Exact(log')
  BY <1>2, CompactRunIsExact DEF Compact, EventLogTypeOK
<1>3. ASSUME NEW r \in Runs, Drop(r)
      PROVE  Exact(log')
  BY <1>3, DropFromIsExact DEF Drop, EventLogTypeOK
<1>4. Exact(log')
  BY <1>1, <1>2, <1>3 DEF Next
<1> QED
  BY <1>4 DEF Exact, Ended

(***************************************************************************)
(* For every number of runs and every cap: the runs the cap may take from  *)
(* (endedRuns of event-log.ts, kept by noteRunPhase, removeRun and         *)
(* enforceRunCap) are exactly the held runs whose last recorded event is   *)
(* the end, and only those have an armed retention timer.                  *)
(***************************************************************************)
THEOREM EvictableRunsAreEnded == Spec => []EvictableExactlyEnded
<1> DEFINE Inv == EventLogTypeOK /\ (InMemory => Exact(log))
<1>1. Init => Inv
  BY EmptyLogType, EmptyLogIsExact DEF Init, EventLogTypeOK
<1>2. Inv /\ [Next]_log => Inv'
  <2> SUFFICES ASSUME Inv, [Next]_log PROVE Inv'
    OBVIOUS
  <2>1. EventLogTypeOK'
    BY NextKeepsType
  <2>2. (InMemory => Exact(log))'
    BY NextKeepsExact
  <2> QED
    BY <2>1, <2>2
<1>3. Inv => EvictableExactlyEnded
  BY DEF Exact, EvictableExactlyEnded
<1> QED
  BY <1>1, <1>2, <1>3, PTL DEF Spec

-----------------------------------------------------------------------------
(* The log forgets no live run                                             *)

(* The cap forgets only runs of the evictable list.                        *)
LEMMA RunCapForgetsEnded ==
  ASSUME NEW l \in LogType, Exact(l), NEW x \in Runs,
         l.runs[x].held, ~EnforceRunCap(l).runs[x].held
  PROVE  Ended(l, x)
<1>1. Excess(l) \in 0 .. Len(l.ended) /\ l.ended \in Seq(Runs) /\ Len(l.ended) \in Nat
  BY ExcessType, LenProperties DEF LogType
<1>2. x \in Gone(l)
  BY EnforceRunCapIs DEF Forget
<1>3. Gone(l) \subseteq ToSet(l.ended)
  BY <1>1, LenProperties DEF Gone, ToSet
<1> QED
  BY <1>2, <1>3 DEF Exact

LEMMA AppendForgetsEnded ==
  ASSUME EventLogTypeOK, InMemory => Exact(log), NEW r \in Runs, NEW event \in Events,
         NEW data \in Payloads, NEW key \in Keys \cup {NoKey}, NEW x \in Runs,
         log.runs[x].held, ~Ended(log, x),
         ~AppendTo(log, r, event, data, key).runs[x].held
  PROVE  x = r /\ event = TerminalEvent
<1> DEFINE m == Recorded(log, r, event, data, key)
<1>1. log \in LogType /\ m \in LogType
  BY RecordedType DEF EventLogTypeOK
<1>2. log.runs \in [Runs -> RunLog] /\ log.runs[r] \in RunLog
  BY <1>1 DEF LogType
<1>3. ~IsDuplicate(log, r, key)
  BY AppendToIs
<1>4. m.runs[r].held /\ LastEvent(m.runs[r].history) = event
  <2>1. m.runs[r] = Record(log.runs[r], NewEntry(log.runs[r], event, data, key))
    BY <1>2 DEF Recorded
  <2>2. NewEntry(log.runs[r], event, data, key).event = event
    BY DEF NewEntry
  <2> QED
    BY <1>2, <2>1, <2>2, NewEntryType, RecordEnds
<1>5. \A y \in Runs \ {r} : m.runs[y] = log.runs[y]
  BY <1>2 DEF Recorded
<1>6. m.runs[x].held
  BY <1>4, <1>5
<1>7. AppendTo(log, r, event, data, key) =
        IF InMemory THEN EnforceRunCap(m) ELSE [runs |-> m.runs, ended |-> << >>]
  BY <1>3, AppendToIs
<1>8. InMemory
  BY <1>6, <1>7
<1>9. Exact(m)
  BY <1>1, <1>8, RecordedIsExact
<1> HIDE DEF m
<1>10. Ended(m, x)
  BY <1>1, <1>6, <1>7, <1>8, <1>9, RunCapForgetsEnded
<1> QED
  BY <1>4, <1>5, <1>10 DEF Ended

LEMMA CompactKeepsHeld ==
  ASSUME NEW l \in LogType, NEW r \in Runs, NEW x \in Runs
  PROVE  CompactRun(l, r).runs[x].held = l.runs[x].held
BY DEF CompactRun, LogType, RunLog

(***************************************************************************)
(* For every number of runs and every cap: a step in which the log loses a *)
(* run whose last event is not the end is the drop of a run, or the append *)
(* of that run's own end (enforceRunCap and compactRunLog of               *)
(* event-log.ts never take a live run).                                    *)
(***************************************************************************)
THEOREM LiveRunsAreKept == Spec => LiveRunsKept
<1> DEFINE Inv    == EventLogTypeOK /\ (InMemory => Exact(log))
           Spared == \A r \in Runs :
                       log.runs[r].held /\ ~Ended(log, r) /\ ~log'.runs[r].held =>
                         \/ log' = DropFrom(log, r)
                         \/ \E data \in Payloads, key \in Keys \cup {NoKey} :
                              AppendEvent(r, TerminalEvent, data, key)
<1>1. Init => Inv
  BY EmptyLogType, EmptyLogIsExact DEF Init, EventLogTypeOK
<1>2. Inv /\ [Next]_log => Inv'
  <2> SUFFICES ASSUME Inv, [Next]_log PROVE Inv'
    OBVIOUS
  <2>1. EventLogTypeOK'
    BY NextKeepsType
  <2>2. (InMemory => Exact(log))'
    BY NextKeepsExact
  <2> QED
    BY <2>1, <2>2
<1>3. Inv /\ [Next]_log => [Spared]_log
  <2> SUFFICES ASSUME Inv, Next, NEW x \in Runs,
                      log.runs[x].held, ~Ended(log, x), ~log'.runs[x].held
               PROVE  \/ log' = DropFrom(log, x)
                      \/ \E data \in Payloads, key \in Keys \cup {NoKey} :
                           AppendEvent(x, TerminalEvent, data, key)
    OBVIOUS
  <2>1. ASSUME NEW r \in Runs, NEW event \in {"agent", TerminalEvent}, NEW data \in Payloads,
               NEW key \in Keys \cup {NoKey}, AppendEvent(r, event, data, key)
        PROVE  AppendEvent(x, TerminalEvent, data, key)
    <3>1. event \in Events
      BY DEF Events
    <3>2. ~AppendTo(log, r, event, data, key).runs[x].held
      BY <2>1 DEF AppendEvent
    <3>3. x = r /\ event = TerminalEvent
      BY <3>1, <3>2, AppendForgetsEnded
    <3> QED
      BY <2>1, <3>3
  <2>2. ASSUME NEW r \in Runs, Compact(r)
        PROVE  FALSE
    BY <2>2, CompactKeepsHeld DEF Compact, EventLogTypeOK
  <2>3. ASSUME NEW r \in Runs, Drop(r)
        PROVE  log' = DropFrom(log, x)
    BY <2>3 DEF Drop, DropFrom, Forget
  <2> QED
    BY <2>1, <2>2, <2>3 DEF Next
<1> QED
  BY <1>1, <1>2, <1>3, PTL DEF Spec, LiveRunsKept

-----------------------------------------------------------------------------
(* The run cap leaves live runs only                                       *)

(* RunCapSparesOnlyLive as a predicate of a log value.                     *)
CapHolds(l) == Cardinality(Held(l)) > MaxRuns => l.ended = << >>

LEMMA HeldIsFinite ==
  ASSUME NEW l
  PROVE  IsFiniteSet(Held(l)) /\ Cardinality(Held(l)) \in Nat
<1>1. IsFiniteSet(Held(l))
  BY RunsAssumption, FS_Subset DEF Held
<1> QED
  BY <1>1, FS_CardinalityType

(* The cap takes as many runs as it counts.                                *)
LEMMA GoneCounts ==
  ASSUME NEW l \in LogType, Exact(l)
  PROVE  /\ Gone(l) \subseteq Held(l)
         /\ IsFiniteSet(Gone(l)) /\ Cardinality(Gone(l)) = Excess(l)
<1> DEFINE n == Excess(l)
           b == [i \in 1 .. n |-> l.ended[i]]
<1>1. n \in 0 .. Len(l.ended) /\ l.ended \in Seq(Runs) /\ Len(l.ended) \in Nat
  BY ExcessType, LenProperties DEF LogType
<1>2. Gone(l) = { l.ended[i] : i \in 1 .. n }
  BY DEF Gone
<1> HIDE DEF n
<1>3. \A i \in 1 .. n : i \in 1 .. Len(l.ended) /\ l.ended[i] \in Runs
  BY <1>1, ElementOfSeq
<1>4. \A i, j \in 1 .. n : l.ended[i] = l.ended[j] => i = j
  BY <1>1, <1>3, LenProperties DEF Exact, IsInjective
<1>5. Gone(l) \subseteq Held(l)
  <2>1. Gone(l) \subseteq ToSet(l.ended)
    BY <1>1, <1>2, <1>3, LenProperties DEF ToSet
  <2> QED
    BY <2>1 DEF Exact, Held
<1>6. b \in Bijection(1 .. n, Gone(l))
  <2>1. b \in [1 .. n -> Gone(l)]
    BY <1>2
  <2>2. \A i, j \in 1 .. n : b[i] = b[j] => i = j
    BY <1>4
  <2>3. \A x \in Gone(l) : \E i \in 1 .. n : b[i] = x
    BY <1>2
  <2> QED
    BY <2>1, <2>2, <2>3 DEF Bijection, Injection, Surjection, IsInjective
<1>7. IsFiniteSet(1 .. n) /\ Cardinality(1 .. n) = n
  BY <1>1, FS_Interval
<1>8. ExistsBijection(1 .. n, Gone(l))
  BY <1>6 DEF ExistsBijection
<1> QED
  BY <1>5, <1>7, <1>8, FS_Bijection DEF n

LEMMA RunCapHolds ==
  ASSUME NEW l \in LogType, Exact(l)
  PROVE  CapHolds(EnforceRunCap(l))
<1> DEFINE m == EnforceRunCap(l)
           h == Cardinality(Held(l))
           x == Excess(l)
<1>1. h \in Nat /\ IsFiniteSet(Held(l)) /\ MaxRuns \in Nat /\ Len(l.ended) \in Nat
  BY HeldIsFinite, LimitsAssumption, LenProperties DEF LogType
<1>2. x = IF h - MaxRuns <= 0 THEN 0
          ELSE IF h - MaxRuns < Len(l.ended) THEN h - MaxRuns ELSE Len(l.ended)
  BY DEF Excess
<1>3. Held(m) = Held(l) \ Gone(l)
  BY EnforceRunCapIs DEF Held, Forget, NoRunLog
<1>4. m.ended = SubSeq(l.ended, x + 1, Len(l.ended))
  BY EnforceRunCapIs
<1>5. Gone(l) \subseteq Held(l) /\ IsFiniteSet(Gone(l)) /\ Cardinality(Gone(l)) = x
  BY GoneCounts
<1>6. Cardinality(Held(m)) = h - x
  <2>1. /\ (Held(l) \ Gone(l)) \cup Gone(l) = Held(l)
        /\ (Held(l) \ Gone(l)) \cap Gone(l) = {}
    BY <1>5
  <2>2. IsFiniteSet(Held(l) \ Gone(l)) /\ Cardinality(Held(l) \ Gone(l)) \in Nat
    BY <1>1, FS_Subset, FS_CardinalityType
  <2>3. h = Cardinality(Held(l) \ Gone(l)) + x - Cardinality({})
    BY <1>5, <2>1, <2>2, FS_Union
  <2>4. x \in Int /\ Cardinality({}) = 0
    BY <1>1, <1>2, FS_EmptySet
  <2>5. Cardinality(Held(l) \ Gone(l)) = h - x
    <3> HIDE DEF h, x
    <3> QED
      BY <1>1, <2>2, <2>3, <2>4
  <2> QED
    BY <1>3, <2>5
<1> HIDE DEF m, h, x
<1>7. ASSUME Cardinality(Held(m)) > MaxRuns PROVE m.ended = << >>
  <2>1. h - x > MaxRuns
    BY <1>6, <1>7
  <2>2. x = Len(l.ended)
    BY <1>1, <1>2, <2>1
  <2> QED
    BY <1>1, <1>4, <2>2, SubSeqEmpty
<1> QED
  BY <1>7 DEF CapHolds, m

LEMMA CompactKeepsCap ==
  ASSUME NEW l \in LogType, NEW r \in Runs, CapHolds(l)
  PROVE  CapHolds(CompactRun(l, r))
<1>1. Held(CompactRun(l, r)) = Held(l)
  BY CompactKeepsHeld DEF Held
<1>2. CompactRun(l, r).ended = l.ended
  BY DEF CompactRun, LogType
<1> QED
  BY <1>1, <1>2 DEF CapHolds

LEMMA DropKeepsCap ==
  ASSUME NEW l \in LogType, NEW r \in Runs, CapHolds(l)
  PROVE  CapHolds(DropFrom(l, r))
<1> DEFINE m == DropFrom(l, r)
<1>1. Held(m) \subseteq Held(l)
  BY DEF DropFrom, Forget, Held, NoRunLog
<1>2. Cardinality(Held(m)) <= Cardinality(Held(l))
  BY <1>1, HeldIsFinite, FS_Subset
<1>3. Cardinality(Held(m)) \in Nat /\ Cardinality(Held(l)) \in Nat /\ MaxRuns \in Nat
  BY HeldIsFinite, LimitsAssumption
<1>4. ASSUME l.ended = << >> PROVE m.ended = << >>
  <2>1. m.ended = RemoveFirst(l.ended, r)
    BY DEF DropFrom
  <2>2. ~\E i \in 1 .. Len(l.ended) : l.ended[i] = r
    BY <1>4
  <2> QED
    BY <1>4, <2>1, <2>2 DEF RemoveFirst
<1> HIDE DEF m
<1> QED
  BY <1>2, <1>3, <1>4 DEF CapHolds, m

LEMMA AppendKeepsCap ==
  ASSUME NEW l \in LogType, Exact(l), CapHolds(l), InMemory, NEW r \in Runs,
         NEW event \in Events, NEW data \in Payloads, NEW key \in Keys \cup {NoKey}
  PROVE  CapHolds(AppendTo(l, r, event, data, key))
<1>1. Recorded(l, r, event, data, key) \in LogType /\ Exact(Recorded(l, r, event, data, key))
  BY RecordedType, RecordedIsExact
<1>2. CapHolds(EnforceRunCap(Recorded(l, r, event, data, key)))
  BY <1>1, RunCapHolds
<1> QED
  BY <1>2, AppendToIs

(***************************************************************************)
(* For every number of runs and every cap: the log holds more runs than    *)
(* its cap only while no ended run is left to evict (enforceRunCap of      *)
(* event-log.ts goes on until one of the two is reached).                  *)
(***************************************************************************)
THEOREM RunCapIsMet == Spec => []RunCapSparesOnlyLive
<1> DEFINE Inv == EventLogTypeOK /\ (InMemory => Exact(log) /\ CapHolds(log))
<1>1. Init => Inv
  <2> SUFFICES ASSUME Init PROVE Inv
    OBVIOUS
  <2>1. log.ended = << >>
    BY DEF Init, EmptyLog
  <2> QED
    BY <2>1, EmptyLogType, EmptyLogIsExact DEF Init, EventLogTypeOK, CapHolds
<1>2. Inv /\ [Next]_log => Inv'
  <2> SUFFICES ASSUME Inv, [Next]_log PROVE Inv'
    OBVIOUS
  <2>1. EventLogTypeOK' /\ (InMemory => Exact(log))'
    BY NextKeepsType, NextKeepsExact
  <2>2. ASSUME InMemory PROVE CapHolds(log')
    <3>1. ASSUME NEW r \in Runs, NEW event \in {"agent", TerminalEvent}, NEW data \in Payloads,
                 NEW key \in Keys \cup {NoKey}, AppendEvent(r, event, data, key)
          PROVE  CapHolds(log')
      <4>1. event \in Events
        BY DEF Events
      <4> QED
        BY <2>2, <3>1, <4>1, AppendKeepsCap DEF AppendEvent, EventLogTypeOK
    <3>2. ASSUME NEW r \in Runs, Compact(r)
          PROVE  CapHolds(log')
      BY <2>2, <3>2, CompactKeepsCap DEF Compact, EventLogTypeOK
    <3>3. ASSUME NEW r \in Runs, Drop(r)
          PROVE  CapHolds(log')
      BY <2>2, <3>3, DropKeepsCap DEF Drop, EventLogTypeOK
    <3>4. CASE UNCHANGED log
      BY <2>2, <3>4
    <3> QED
      BY <3>1, <3>2, <3>3, <3>4 DEF Next
  <2>3. (InMemory => CapHolds(log))'
    BY <2>2 DEF CapHolds, Held
  <2> QED
    BY <2>1, <2>3
<1>3. Inv => RunCapSparesOnlyLive
  BY DEF CapHolds, RunCapSparesOnlyLive
<1> QED
  BY <1>1, <1>2, <1>3, PTL DEF Spec

-----------------------------------------------------------------------------
(* A retried append leaves no second copy                                  *)

(* Cursors name one entry, and a key remembers the entry that carries it.  *)
KeysKnownIn(entries, nextId, dedupe) ==
  /\ \A i \in 1 .. Len(entries) :
       /\ entries[i].id < nextId
       /\ entries[i].key # NoKey => dedupe[entries[i].key] = entries[i].id
  /\ \A i, j \in 1 .. Len(entries) : entries[i].id = entries[j].id => i = j
KeysKnown(rl) == KeysKnownIn(rl.entries, rl.nextId, rl.dedupe)

(* Newest is the end of the sequence.                                      *)
LEMMA NewestElements ==
  ASSUME NEW S, NEW s \in Seq(S), NEW n \in Nat
  PROVE  /\ Newest(s, n) \in Seq(S)
         /\ \E o \in Nat :
              /\ Len(Newest(s, n)) = Len(s) - o
              /\ \A i \in 1 .. Len(Newest(s, n)) :
                   o + i \in 1 .. Len(s) /\ Newest(s, n)[i] = s[o + i]
<1>1. Len(s) \in Nat
  BY LenProperties
<1>2. CASE Len(s) > n
  <2> DEFINE o == Len(s) - n
             t == SubSeq(s, o + 1, Len(s))
  <2>1. \A i \in o + 1 .. Len(s) : s[i] \in S
    BY <1>1, <1>2, ElementOfSeq
  <2>2. /\ t \in Seq(S)
        /\ Len(t) = IF o + 1 <= Len(s) THEN Len(s) - (o + 1) + 1 ELSE 0
        /\ \A i \in 1 .. Len(s) - (o + 1) + 1 : t[i] = s[(o + 1) + i - 1]
    BY <1>1, <2>1, SubSeqProperties
  <2>3. o \in Nat /\ Len(t) = Len(s) - o
    BY <1>1, <1>2, <2>2
  <2>4. \A i \in 1 .. Len(t) : o + i \in 1 .. Len(s) /\ t[i] = s[o + i]
    <3>1. ASSUME NEW i \in 1 .. Len(t)
          PROVE  o + i \in 1 .. Len(s) /\ i \in 1 .. Len(s) - (o + 1) + 1 /\ (o + 1) + i - 1 = o + i
      <4> HIDE DEF t, o
      <4> QED
        BY <1>1, <2>3
    <3> QED
      BY <2>2, <3>1
  <2>5. Newest(s, n) = t
    BY <1>2 DEF Newest
  <2> HIDE DEF t, o
  <2> QED
    BY <2>2, <2>3, <2>4, <2>5
<1>3. CASE ~(Len(s) > n)
  <2>1. Newest(s, n) = s
    BY <1>3 DEF Newest
  <2>2. Len(s) = Len(s) - 0 /\ \A i \in 1 .. Len(s) : 0 + i \in 1 .. Len(s) /\ 0 + i = i
    BY <1>1
  <2> QED
    BY <2>1, <2>2
<1> QED
  BY <1>2, <1>3

(* Keeping the end of the entries, with or without the evidence of others. *)
LEMMA NewestKeysKnown ==
  ASSUME NEW entries \in Seq(Entry), NEW nextId \in Nat, NEW dedupe \in [Keys -> Nat],
         NEW n \in Nat, KeysKnownIn(entries, nextId, dedupe),
         NEW t, t = Newest(entries, n),
         NEW known, known = dedupe \/ known = EvidenceIn(dedupe, t)
  PROVE  KeysKnownIn(t, nextId, known)
<1>1. PICK o \in Nat :
        /\ Len(t) = Len(entries) - o
        /\ \A i \in 1 .. Len(t) : o + i \in 1 .. Len(entries) /\ t[i] = entries[o + i]
  <2>1. \E o \in Nat :
          /\ Len(Newest(entries, n)) = Len(entries) - o
          /\ \A i \in 1 .. Len(Newest(entries, n)) :
               o + i \in 1 .. Len(entries) /\ Newest(entries, n)[i] = entries[o + i]
    BY NewestElements
  <2> QED
    BY <2>1
<1>2. Len(t) \in Nat
  <2>1. Newest(entries, n) \in Seq(Entry)
    BY NewestElements
  <2> QED
    BY <2>1, LenProperties
<1>3. ASSUME NEW i \in 1 .. Len(t)
      PROVE  t[i].id < nextId /\ (t[i].key # NoKey => known[t[i].key] = t[i].id)
  <2>1. o + i \in 1 .. Len(entries) /\ t[i] = entries[o + i]
    BY <1>1
  <2>2. t[i].id < nextId /\ (t[i].key # NoKey => dedupe[t[i].key] = t[i].id)
    BY <2>1 DEF KeysKnownIn
  <2>3. t[i] \in Entry
    BY <2>1, ElementOfSeq
  <2>4. t[i].key # NoKey => t[i].key \in Keys
    BY <2>3 DEF Entry
  <2>5. ASSUME t[i].key # NoKey PROVE EvidenceIn(dedupe, t)[t[i].key] = t[i].id
    BY <2>2, <2>4, <2>5 DEF EvidenceIn
  <2> QED
    BY <2>2, <2>5
<1>4. ASSUME NEW i \in 1 .. Len(t), NEW j \in 1 .. Len(t), t[i].id = t[j].id
      PROVE  i = j
  <2> DEFINE a == o + i
             b == o + j
  <2>1. a \in 1 .. Len(entries) /\ b \in 1 .. Len(entries) /\ entries[a].id = entries[b].id
    BY <1>1, <1>4
  <2> HIDE DEF a, b
  <2>2. a = b
    BY <2>1 DEF KeysKnownIn
  <2> QED
    BY <1>1, <1>2, <2>2 DEF a, b
<1> QED
  BY <1>3, <1>4 DEF KeysKnownIn

LEMMA RecordKeysKnown ==
  ASSUME NEW rl \in RunLog, KeysKnown(rl), NEW event \in Events, NEW data \in Payloads,
         NEW key \in Keys \cup {NoKey}, key # NoKey => rl.dedupe[key] = 0
  PROVE  KeysKnown(Record(rl, NewEntry(rl, event, data, key)))
<1> DEFINE e == NewEntry(rl, event, data, key)
           s == Append(rl.entries, e)
           d == IF key = NoKey THEN rl.dedupe ELSE [rl.dedupe EXCEPT ![key] = e.id]
           m == Record(rl, e)
<1>1. /\ rl.entries \in Seq(Entry) /\ rl.nextId \in Nat \ {0} /\ rl.dedupe \in [Keys -> Nat]
      /\ Len(rl.entries) \in Nat
  BY LenProperties DEF RunLog
<1>2. e \in Entry /\ e.id = rl.nextId /\ e.key = key
  BY NewEntryType DEF NewEntry
<1> HIDE DEF e
<1>3. /\ s \in Seq(Entry) /\ Len(s) = Len(rl.entries) + 1
      /\ \A i \in 1 .. Len(rl.entries) : s[i] = rl.entries[i]
      /\ s[Len(rl.entries) + 1] = e
  BY <1>1, <1>2, AppendProperties
<1>4. d \in [Keys -> Nat]
  BY <1>1, <1>2
<1> HIDE DEF s
<1>5. \A i \in 1 .. Len(s) : i \in 1 .. Len(rl.entries) \/ i = Len(rl.entries) + 1
  BY <1>1, <1>3
<1>6. \A i \in 1 .. Len(rl.entries) : rl.entries[i].id \in Nat \ {0}
  <2>1. \A i \in 1 .. Len(rl.entries) : rl.entries[i] \in Entry
    BY <1>1, ElementOfSeq
  <2> QED
    BY <2>1 DEF Entry
<1>7. ASSUME NEW i \in 1 .. Len(rl.entries)
      PROVE  /\ s[i].id < rl.nextId
             /\ s[i].key # NoKey => s[i].key \in Keys /\ s[i].key # key
                                    /\ rl.dedupe[s[i].key] = s[i].id
  <2>1. s[i] = rl.entries[i] /\ rl.entries[i] \in Entry
    BY <1>1, <1>3, ElementOfSeq
  <2>2. s[i].key # NoKey => s[i].key \in Keys
    BY <2>1 DEF Entry
  <2> QED
    BY <1>6, <2>1, <2>2 DEF KeysKnown, KeysKnownIn
<1>8. ASSUME NEW i \in 1 .. Len(s)
      PROVE  s[i].id < rl.nextId + 1 /\ (s[i].key # NoKey => d[s[i].key] = s[i].id)
  <2>1. CASE i \in 1 .. Len(rl.entries)
    <3>1. s[i].id < rl.nextId + 1
      BY <1>1, <1>3, <1>6, <1>7, <2>1
    <3>2. s[i].key # NoKey => d[s[i].key] = s[i].id
      BY <1>1, <1>7, <2>1
    <3> QED
      BY <3>1, <3>2
  <2>2. CASE i = Len(rl.entries) + 1
    BY <1>1, <1>2, <1>3, <2>2
  <2> QED
    BY <1>5, <2>1, <2>2
<1>9. ASSUME NEW i \in 1 .. Len(s), NEW j \in 1 .. Len(s), s[i].id = s[j].id
      PROVE  i = j
  <2>1. CASE i \in 1 .. Len(rl.entries) /\ j \in 1 .. Len(rl.entries)
    BY <1>3, <1>9, <2>1 DEF KeysKnown, KeysKnownIn
  <2>2. CASE i \in 1 .. Len(rl.entries) /\ j = Len(rl.entries) + 1
    BY <1>1, <1>2, <1>3, <1>6, <1>7, <1>9, <2>2
  <2>3. CASE j \in 1 .. Len(rl.entries) /\ i = Len(rl.entries) + 1
    BY <1>1, <1>2, <1>3, <1>6, <1>7, <1>9, <2>3
  <2> QED
    BY <1>5, <2>1, <2>2, <2>3
<1>10. /\ m.entries = Newest(s, MaxEntries) /\ m.nextId = rl.nextId + 1
       /\ m.dedupe = d \/ m.dedupe = EvidenceIn(d, Newest(s, MaxEntries))
  BY <1>2 DEF Record, s
<1>11. MaxEntries \in Nat
  BY LimitsAssumption
<1> HIDE DEF d, m
<1>12. KeysKnown(m)
  <2>1. KeysKnownIn(s, rl.nextId + 1, d)
    BY <1>8, <1>9 DEF KeysKnownIn
  <2>2. s \in Seq(Entry) /\ rl.nextId + 1 \in Nat
    BY <1>1, <1>3
  <2>3. KeysKnownIn(m.entries, rl.nextId + 1, m.dedupe)
    BY <1>4, <1>10, <1>11, <2>1, <2>2, NewestKeysKnown
  <2> QED
    BY <1>10, <2>3 DEF KeysKnown
<1> QED
  BY <1>12 DEF m, e

LEMMA CompactKeysKnown ==
  ASSUME NEW l \in LogType, NEW r \in Runs, KeysKnown(l.runs[r])
  PROVE  KeysKnown(CompactRun(l, r).runs[r])
<1> DEFINE rl == l.runs[r]
           m  == CompactRun(l, r).runs[r]
<1>1. rl \in RunLog /\ l.runs \in [Runs -> RunLog]
  BY DEF LogType
<1>2. /\ rl.entries \in Seq(Entry) /\ rl.dedupe \in [Keys -> Nat] /\ rl.nextId \in Nat
      /\ m.entries = Newest(rl.entries, 1) /\ m.nextId = rl.nextId
      /\ m.dedupe = EvidenceIn(rl.dedupe, Newest(rl.entries, 1))
  BY <1>1 DEF CompactRun, RunLog, LogType
<1>3. 1 \in Nat
  OBVIOUS
<1> HIDE DEF m
<1>4. KeysKnown(m)
  <2>1. KeysKnownIn(rl.entries, rl.nextId, rl.dedupe)
    BY DEF KeysKnown
  <2> HIDE DEF rl
  <2>2. KeysKnownIn(m.entries, rl.nextId, m.dedupe)
    BY <1>2, <1>3, <2>1, NewestKeysKnown
  <2> QED
    BY <1>2, <2>2 DEF KeysKnown
<1> QED
  BY <1>4 DEF m

AllKeysKnown(l) == \A r \in Runs : KeysKnown(l.runs[r])

LEMMA ForgetKeysKnown ==
  ASSUME NEW l, AllKeysKnown(l), NEW gone
  PROVE  \A r \in Runs : KeysKnown(Forget(l, gone)[r])
<1>1. KeysKnown(NoRunLog)
  <2>1. NoRunLog.entries = << >> /\ Len(<< >>) = 0 /\ 1 .. 0 = {}
    BY DEF NoRunLog
  <2> QED
    BY <2>1 DEF KeysKnown, KeysKnownIn
<1>2. ASSUME NEW r \in Runs PROVE KeysKnown(Forget(l, gone)[r])
  BY <1>1 DEF Forget, AllKeysKnown
<1> QED
  BY <1>2

LEMMA AppendKeysKnown ==
  ASSUME NEW l \in LogType, AllKeysKnown(l), NEW r \in Runs, NEW event \in Events,
         NEW data \in Payloads, NEW key \in Keys \cup {NoKey}
  PROVE  AllKeysKnown(AppendTo(l, r, event, data, key))
<1> DEFINE m == Recorded(l, r, event, data, key)
<1>1. CASE IsDuplicate(l, r, key)
  BY <1>1, AppendToIs
<1>2. CASE ~IsDuplicate(l, r, key)
  <2>1. l.runs \in [Runs -> RunLog] /\ l.runs[r] \in RunLog
    BY DEF LogType
  <2>2. key # NoKey => l.runs[r].dedupe[key] = 0
    BY <1>2 DEF IsDuplicate
  <2>3. KeysKnown(Record(l.runs[r], NewEntry(l.runs[r], event, data, key)))
    BY <2>1, <2>2, RecordKeysKnown DEF AllKeysKnown
  <2>4. AllKeysKnown(m)
    BY <2>1, <2>3 DEF AllKeysKnown, Recorded
  <2> HIDE DEF m
  <2>5. AllKeysKnown(EnforceRunCap(m))
    BY <2>4, ForgetKeysKnown, EnforceRunCapIs DEF AllKeysKnown
  <2>6. AllKeysKnown([runs |-> m.runs, ended |-> << >>])
    BY <2>4 DEF AllKeysKnown
  <2>7. AppendTo(l, r, event, data, key) =
          IF InMemory THEN EnforceRunCap(m) ELSE [runs |-> m.runs, ended |-> << >>]
    BY <1>2, AppendToIs DEF m
  <2> QED
    BY <2>5, <2>6, <2>7
<1> QED
  BY <1>1, <1>2

LEMMA NextKeepsKeysKnown ==
  ASSUME EventLogTypeOK, AllKeysKnown(log), [Next]_log
  PROVE  AllKeysKnown(log')
<1>1. ASSUME NEW r \in Runs, NEW event \in {"agent", TerminalEvent}, NEW data \in Payloads,
             NEW key \in Keys \cup {NoKey}, AppendEvent(r, event, data, key)
      PROVE  AllKeysKnown(log')
  <2>1. event \in Events
    BY DEF Events
  <2> QED
    BY <1>1, <2>1, AppendKeysKnown DEF AppendEvent, EventLogTypeOK
<1>2. ASSUME NEW r \in Runs, Compact(r)
      PROVE  AllKeysKnown(log')
  <2>1. KeysKnown(CompactRun(log, r).runs[r])
    BY CompactKeysKnown DEF EventLogTypeOK, AllKeysKnown
  <2>2. \A x \in Runs \ {r} : CompactRun(log, r).runs[x] = log.runs[x]
    BY DEF CompactRun, LogType, EventLogTypeOK
  <2> QED
    BY <1>2, <2>1, <2>2 DEF Compact, AllKeysKnown
<1>3. ASSUME NEW r \in Runs, Drop(r)
      PROVE  AllKeysKnown(log')
  BY <1>3, ForgetKeysKnown DEF Drop, DropFrom, AllKeysKnown
<1>4. CASE UNCHANGED log
  BY <1>4
<1> QED
  BY <1>1, <1>2, <1>3, <1>4 DEF Next

LEMMA KnownKeysAreDistinct ==
  ASSUME EventLogTypeOK, AllKeysKnown(log)
  PROVE  RetainedKeysDistinct
<1> SUFFICES ASSUME NEW r \in Runs,
                    NEW i \in 1 .. Len(log.runs[r].entries), NEW j \in 1 .. Len(log.runs[r].entries),
                    i # j, log.runs[r].entries[i].key # NoKey,
                    log.runs[r].entries[i].key = log.runs[r].entries[j].key
             PROVE  FALSE
  BY DEF RetainedKeysDistinct
<1> DEFINE s     == log.runs[r].entries
           known == log.runs[r].dedupe
<1>1. KeysKnownIn(s, log.runs[r].nextId, known)
  BY DEF AllKeysKnown, KeysKnown
<1> HIDE DEF s, known
<1>2. known[s[i].key] = s[i].id /\ known[s[j].key] = s[j].id /\ (s[i].id = s[j].id => i = j)
  BY <1>1 DEF KeysKnownIn, s
<1> QED
  BY <1>2 DEF s

(***************************************************************************)
(* For every number of runs, keys and entries and both adapters: retained  *)
(* entries carry distinct dedupe keys, however the FIFO cap, compaction,   *)
(* eviction and drop cut the log and its dedupe index (append and          *)
(* compactRunLog of event-log.ts).                                         *)
(***************************************************************************)
THEOREM RetriesLeaveNoCopy == Spec => []RetainedKeysDistinct
<1> DEFINE Inv == EventLogTypeOK /\ AllKeysKnown(log)
<1>1. Init => Inv
  <2> SUFFICES ASSUME Init PROVE Inv
    OBVIOUS
  <2>1. \A r \in Runs : log.runs[r].entries = << >>
    BY DEF Init, EmptyLog, NoRunLog
  <2>2. Len(<< >>) = 0 /\ 1 .. 0 = {}
    OBVIOUS
  <2> QED
    BY <2>1, <2>2, EmptyLogType DEF Init, EventLogTypeOK, AllKeysKnown, KeysKnown, KeysKnownIn
<1>2. Inv /\ [Next]_log => Inv'
  <2> SUFFICES ASSUME Inv, [Next]_log PROVE Inv'
    OBVIOUS
  <2>1. EventLogTypeOK' /\ AllKeysKnown(log')
    BY NextKeepsType, NextKeepsKeysKnown
  <2> QED
    BY <2>1 DEF AllKeysKnown, KeysKnown, KeysKnownIn
<1>3. Inv => RetainedKeysDistinct
  BY KnownKeysAreDistinct
<1> QED
  BY <1>1, <1>2, <1>3, PTL DEF Spec

-----------------------------------------------------------------------------
(* A replay is never silently wrong                                        *)

(* s is the end of t.                                                      *)
EndOf(s, t) ==
  \E o \in Nat : Len(t) = Len(s) + o /\ \A i \in 1 .. Len(s) : s[i] = t[o + i]

LEMMA NewestIsEnd ==
  ASSUME NEW S, NEW s \in Seq(S), NEW n \in Nat \ {0}
  PROVE  EndOf(Newest(s, n), s) /\ (s # << >> => Newest(s, n) # << >>)
<1>1. Len(s) \in Nat /\ n \in Nat /\ n > 0
  BY LenProperties
<1>2. CASE Len(s) > n
  <2>1. PICK o \in Nat : Len(s) = n + o
    <3>1. Len(s) - n \in Nat /\ Len(s) = n + (Len(s) - n)
      BY <1>1, <1>2
    <3> QED
      BY <3>1
  <2>2. PICK t : t = Newest(s, n)
    OBVIOUS
  <2>3. t = SubSeq(s, o + 1, Len(s))
    <3>1. Len(s) - n + 1 = o + 1
      BY <1>1, <2>1
    <3> QED
      BY <1>2, <2>2, <3>1 DEF Newest
  <2>4. o + 1 \in 1 .. Len(s) /\ \A i \in o + 1 .. Len(s) : s[i] \in S
    BY <1>1, <2>1, ElementOfSeq
  <2>5. Len(t) = Len(s) - (o + 1) + 1 /\ \A i \in 1 .. Len(s) - (o + 1) + 1 : t[i] = s[(o + 1) + i - 1]
    BY <1>1, <2>3, <2>4, SubSeqProperties
  <2>6. Len(t) = n
    BY <1>1, <2>1, <2>5
  <2>7. \A i \in 1 .. Len(t) : t[i] = s[o + i]
    BY <1>1, <2>1, <2>5, <2>6
  <2>8. t # << >>
    BY <1>1, <2>6, EmptySeq
  <2> QED
    BY <2>1, <2>2, <2>6, <2>7, <2>8 DEF EndOf
<1>3. CASE ~(Len(s) > n)
  <2>1. Newest(s, n) = s
    BY <1>3 DEF Newest
  <2>2. Len(s) = Len(s) + 0 /\ \A i \in 1 .. Len(s) : 0 + i = i
    BY <1>1
  <2> QED
    BY <2>1, <2>2 DEF EndOf
<1> QED
  BY <1>2, <1>3

LEMMA EndOfEnd ==
  ASSUME NEW s, Len(s) \in Nat, NEW t, NEW u, EndOf(s, t), EndOf(t, u)
  PROVE  EndOf(s, u)
<1>1. PICK o \in Nat : Len(t) = Len(s) + o /\ \A i \in 1 .. Len(s) : s[i] = t[o + i]
  BY DEF EndOf
<1>2. PICK p \in Nat : Len(u) = Len(t) + p /\ \A i \in 1 .. Len(t) : t[i] = u[p + i]
  BY DEF EndOf
<1>3. Len(u) = Len(s) + (p + o)
  BY <1>1, <1>2
<1>4. ASSUME NEW i \in 1 .. Len(s) PROVE s[i] = u[(p + o) + i]
  <2>1. o + i \in 1 .. Len(t) /\ p + (o + i) = (p + o) + i
    BY <1>1, <1>2
  <2> QED
    BY <1>1, <1>2, <2>1
<1>5. p + o \in Nat
  OBVIOUS
<1> QED
  BY <1>3, <1>4, <1>5 DEF EndOf

LEMMA EndOfAppended ==
  ASSUME NEW S, NEW s \in Seq(S), NEW t \in Seq(S), NEW e \in S, EndOf(s, t)
  PROVE  EndOf(Append(s, e), Append(t, e))
<1>1. PICK o \in Nat : Len(t) = Len(s) + o /\ \A i \in 1 .. Len(s) : s[i] = t[o + i]
  BY DEF EndOf
<1>2. PICK s2, t2 : s2 = Append(s, e) /\ t2 = Append(t, e)
  OBVIOUS
<1>3. /\ Len(s) \in Nat /\ Len(s2) = Len(s) + 1 /\ s2[Len(s) + 1] = e
      /\ \A i \in 1 .. Len(s) : s2[i] = s[i]
  BY <1>2, AppendProperties, LenProperties
<1>4. /\ Len(t) \in Nat /\ Len(t2) = Len(t) + 1 /\ t2[Len(t) + 1] = e
      /\ \A i \in 1 .. Len(t) : t2[i] = t[i]
  BY <1>2, AppendProperties, LenProperties
<1>5. Len(t2) = Len(s2) + o
  BY <1>1, <1>3, <1>4
<1>6. ASSUME NEW i \in 1 .. Len(s2) PROVE s2[i] = t2[o + i]
  <2>1. CASE i \in 1 .. Len(s)
    <3>1. o + i \in 1 .. Len(t)
      BY <1>1, <1>3, <2>1
    <3> QED
      BY <1>1, <1>3, <1>4, <2>1, <3>1
  <2>2. CASE i = Len(s) + 1
    <3>1. o + i = Len(t) + 1
      BY <1>1, <1>3, <2>2
    <3> QED
      BY <1>3, <1>4, <2>2, <3>1
  <2> QED
    BY <1>3, <2>1, <2>2
<1> QED
  BY <1>2, <1>5, <1>6 DEF EndOf

(***************************************************************************)
(* The history of a run has every cursor from 1 on, and the entries the    *)
(* log retains are the end of it: never empty once the log knows the run.  *)
(***************************************************************************)
NumberedFrom(s, first) == \A i \in 1 .. Len(s) : s[i].id = first + i

RetainsEnd(rl) ==
  /\ rl.nextId = Len(rl.history) + 1 /\ NumberedFrom(rl.history, 0)
  /\ rl.held <=> rl.entries # << >>
  /\ EndOf(rl.entries, rl.history)

AllRetainEnd(l) == \A r \in Runs : RetainsEnd(l.runs[r])

LEMMA NoRunRetainsEnd == RetainsEnd(NoRunLog)
<1>1. EndOf(<< >>, << >>)
  BY EmptySeq DEF EndOf
<1> QED
  BY <1>1, EmptySeq DEF NoRunLog, RetainsEnd, NumberedFrom

LEMMA RecordRetainsEnd ==
  ASSUME NEW rl \in RunLog, RetainsEnd(rl), NEW event \in Events, NEW data \in Payloads,
         NEW key \in Keys \cup {NoKey}
  PROVE  RetainsEnd(Record(rl, NewEntry(rl, event, data, key)))
<1>1. PICK entry : entry = NewEntry(rl, event, data, key)
  OBVIOUS
<1>2. entry \in Entry /\ entry.id = rl.nextId
  BY <1>1, NewEntryType DEF NewEntry
<1>3. PICK h, h2, all, kept, rl2 :
        /\ h = rl.history /\ h2 = Append(h, entry) /\ all = Append(rl.entries, entry)
        /\ kept = Newest(all, MaxEntries) /\ rl2 = Record(rl, entry)
  OBVIOUS
<1>4. /\ rl2.held /\ rl2.nextId = rl.nextId + 1 /\ rl2.entries = kept /\ rl2.history = h2
  BY <1>3 DEF Record
<1>5. rl.entries \in Seq(Entry) /\ h \in Seq(Entry) /\ Len(h) \in Nat /\ rl.nextId = Len(h) + 1
  BY <1>3, LenProperties DEF RunLog, RetainsEnd
<1>6. /\ Len(h2) = Len(h) + 1 /\ h2[Len(h) + 1] = entry
      /\ \A i \in 1 .. Len(h) : h2[i] = h[i]
  BY <1>2, <1>3, <1>5, AppendProperties
<1>7. NumberedFrom(h, 0)
  BY <1>3 DEF RetainsEnd
<1>8. NumberedFrom(h2, 0)
  <2>1. \A i \in 1 .. Len(h2) : i \in 1 .. Len(h) \/ i = Len(h) + 1
    BY <1>5, <1>6
  <2> QED
    BY <1>2, <1>5, <1>6, <1>7, <2>1 DEF NumberedFrom
<1>9. all \in Seq(Entry) /\ all # << >> /\ EndOf(all, h2)
  BY <1>2, <1>3, <1>5, AppendProperties, EndOfAppended DEF RetainsEnd
<1>10. EndOf(kept, all) /\ kept # << >> /\ Len(kept) \in Nat
  <2>1. PICK n \in Nat \ {0} : n = MaxEntries
    BY LimitsAssumption
  <2>2. kept \in Seq(Entry)
    BY <1>3, <1>9, <2>1, NewestInSeq
  <2> QED
    BY <1>3, <1>9, <2>1, <2>2, NewestIsEnd, LenProperties
<1>11. EndOf(kept, h2)
  BY <1>9, <1>10, EndOfEnd
<1> QED
  BY <1>1, <1>3, <1>4, <1>5, <1>6, <1>8, <1>10, <1>11 DEF RetainsEnd

LEMMA CompactRetainsEnd ==
  ASSUME NEW l \in LogType, AllRetainEnd(l), NEW r \in Runs
  PROVE  AllRetainEnd(CompactRun(l, r))
<1>1. PICK rl, kept : rl = l.runs[r] /\ kept = Newest(rl.entries, 1)
  OBVIOUS
<1>2. rl \in RunLog /\ RetainsEnd(rl) /\ rl.entries \in Seq(Entry)
  BY <1>1 DEF LogType, AllRetainEnd, RunLog
<1>3. PICK rl2 : rl2 = [rl EXCEPT !.entries = kept, !.dedupe = EvidenceIn(rl.dedupe, kept),
                                  !.compaction = FALSE]
  OBVIOUS
<1>4. \A s \in Runs : CompactRun(l, r).runs[s] = IF s = r THEN rl2 ELSE l.runs[s]
  BY <1>1, <1>3 DEF CompactRun, LogType
<1>5. /\ rl2.held = rl.held /\ rl2.history = rl.history /\ rl2.nextId = rl.nextId
      /\ rl2.entries = kept
  BY <1>2, <1>3 DEF RunLog
<1>6. /\ EndOf(kept, rl.entries) /\ (rl.entries # << >> => kept # << >>)
      /\ kept \in Seq(Entry) /\ Len(kept) \in Nat
  <2>1. PICK n \in Nat \ {0} : n = 1
    OBVIOUS
  <2>2. kept \in Seq(Entry)
    BY <1>1, <1>2, <2>1, NewestInSeq
  <2> QED
    BY <1>1, <1>2, <2>1, <2>2, NewestIsEnd, LenProperties
<1>7. EndOf(kept, rl.history)
  BY <1>2, <1>6, EndOfEnd DEF RetainsEnd
<1>8. rl.entries = << >> => kept = << >>
  BY <1>1, EmptySeq DEF Newest
<1>9. RetainsEnd(rl2)
  BY <1>2, <1>5, <1>6, <1>7, <1>8 DEF RetainsEnd
<1> QED
  BY <1>4, <1>9 DEF AllRetainEnd

LEMMA ForgetRetainsEnd ==
  ASSUME NEW l, AllRetainEnd(l), NEW gone
  PROVE  \A r \in Runs : RetainsEnd(Forget(l, gone)[r])
BY NoRunRetainsEnd DEF Forget, AllRetainEnd

LEMMA AppendRetainsEnd ==
  ASSUME NEW l \in LogType, AllRetainEnd(l), NEW r \in Runs, NEW event \in Events,
         NEW data \in Payloads, NEW key \in Keys \cup {NoKey}
  PROVE  AllRetainEnd(AppendTo(l, r, event, data, key))
<1> DEFINE m == Recorded(l, r, event, data, key)
<1>1. l.runs \in [Runs -> RunLog] /\ l.runs[r] \in RunLog
  BY DEF LogType
<1>2. RetainsEnd(Record(l.runs[r], NewEntry(l.runs[r], event, data, key)))
  BY <1>1, RecordRetainsEnd DEF AllRetainEnd
<1>3. AllRetainEnd(m)
  BY <1>1, <1>2 DEF AllRetainEnd, Recorded
<1> HIDE DEF m
<1>4. AllRetainEnd(EnforceRunCap(m))
  BY <1>3, ForgetRetainsEnd, EnforceRunCapIs DEF AllRetainEnd
<1>5. AllRetainEnd([runs |-> m.runs, ended |-> << >>])
  BY <1>3 DEF AllRetainEnd
<1>6. AppendTo(l, r, event, data, key) =
        IF IsDuplicate(l, r, key) THEN l
        ELSE IF InMemory THEN EnforceRunCap(m) ELSE [runs |-> m.runs, ended |-> << >>]
  BY AppendToIs DEF m
<1> QED
  BY <1>4, <1>5, <1>6

LEMMA EmptyLogRetainsEnd == AllRetainEnd(EmptyLog)
BY NoRunRetainsEnd DEF EmptyLog, AllRetainEnd

LEMMA NextRetainsEnd ==
  ASSUME EventLogTypeOK, AllRetainEnd(log), [Next]_log
  PROVE  AllRetainEnd(log')
<1>1. ASSUME NEW r \in Runs, NEW event \in {"agent", TerminalEvent}, NEW data \in Payloads,
             NEW key \in Keys \cup {NoKey}, AppendEvent(r, event, data, key)
      PROVE  AllRetainEnd(log')
  <2>1. event \in Events
    BY DEF Events
  <2> QED
    BY <1>1, <2>1, AppendRetainsEnd DEF AppendEvent, EventLogTypeOK
<1>2. ASSUME NEW r \in Runs, Compact(r)
      PROVE  AllRetainEnd(log')
  BY <1>2, CompactRetainsEnd DEF Compact, EventLogTypeOK
<1>3. ASSUME NEW r \in Runs, Drop(r)
      PROVE  AllRetainEnd(log')
  BY <1>3, ForgetRetainsEnd DEF Drop, DropFrom, AllRetainEnd
<1>4. CASE UNCHANGED log
  BY <1>4
<1> QED
  BY <1>1, <1>2, <1>3, <1>4 DEF Next

(* t is what follows the first k elements of s.                            *)
Remainder(s, k, t) ==
  \E m \in Nat : /\ Len(s) = k + m \/ (m = 0 /\ k > Len(s))
                 /\ t = [n \in 1 .. m |-> t[n]] /\ \A n \in 1 .. m : t[n] = s[k + n]

(* After, on entries with consecutive cursors, is such a remainder.        *)
LEMMA AfterNumbered ==
  ASSUME NEW s, Len(s) \in Nat, NEW first \in Nat, NumberedFrom(s, first),
         NEW k \in Nat, NEW t, Remainder(s, k, t), NEW cursor, cursor = first + k
  PROVE  After(s, cursor) = t
<1> DEFINE kept == {i \in 1 .. Len(s) : s[i].id > first + k}
           At(n) == CHOOSE i \in kept : Cardinality({j \in kept : j <= i}) = n
<1>1. PICK m \in Nat : /\ Len(s) = k + m \/ (m = 0 /\ k > Len(s))
                      /\ t = [n \in 1 .. m |-> t[n]] /\ \A n \in 1 .. m : t[n] = s[k + n]
  BY DEF Remainder
<1>2. kept = k + 1 .. Len(s)
  BY <1>1 DEF NumberedFrom
<1>3. Cardinality(kept) = m
  <2>1. Cardinality(k + 1 .. Len(s)) = IF k + 1 > Len(s) THEN 0 ELSE Len(s) - (k + 1) + 1
    <3>1. k + 1 \in Int /\ Len(s) \in Int
      BY <1>1
    <3> QED
      BY <3>1, FS_Interval
  <2>2. Cardinality(k + 1 .. Len(s)) = m
    BY <1>1, <2>1
  <2> QED
    BY <1>2, <2>2
<1>4. After(s, cursor) = [n \in 1 .. m |-> s[At(n)]]
  BY <1>3 DEF After, Kept
<1> HIDE DEF kept
<1>5. ASSUME NEW n \in 1 .. m PROVE At(n) = k + n
  <2>1. ASSUME NEW i \in kept
        PROVE  i \in Nat /\ i > k /\ Cardinality({j \in kept : j <= i}) = i - k
    <3>1. i \in Nat /\ i > k
      BY <1>1, <1>2, <2>1
    <3>2. {j \in kept : j <= i} = k + 1 .. i
      BY <1>1, <1>2, <2>1
    <3>3. Cardinality(k + 1 .. i) = IF k + 1 > i THEN 0 ELSE i - (k + 1) + 1
      <4>1. k + 1 \in Int /\ i \in Int
        BY <3>1
      <4> QED
        BY <4>1, FS_Interval
    <3>4. (IF k + 1 > i THEN 0 ELSE i - (k + 1) + 1) = i - k
      BY <3>1
    <3> QED
      BY <3>1, <3>2, <3>3, <3>4
  <2>2. k + n \in kept
    BY <1>1, <1>2
  <2>3. ASSUME NEW i \in kept PROVE Cardinality({j \in kept : j <= i}) = n <=> i = k + n
    <3>1. PICK c : c = Cardinality({j \in kept : j <= i}) /\ c = i - k /\ i \in Nat
      BY <2>1
    <3>2. c = n <=> i = k + n
      BY <3>1
    <3> QED
      BY <3>1, <3>2
  <2> QED
    BY <2>2, <2>3
<1> HIDE DEF At
<1> QED
  BY <1>1, <1>4, <1>5

(* What a log that retains the end of its history answers.                 *)
LEMMA RetainedEntries ==
  ASSUME NEW rl \in RunLog, RetainsEnd(rl), rl.held
  PROVE  \E o \in Nat :
           /\ Len(rl.history) = Len(rl.entries) + o
           /\ \A i \in 1 .. Len(rl.entries) : rl.entries[i] = rl.history[o + i]
           /\ NumberedFrom(rl.entries, o) /\ OldestRetainedId(rl) = o + 1
           /\ rl.entries # << >> /\ rl.entries[1].id = o + 1
           /\ o = 0 <=> rl.entries = rl.history
<1>1. PICK e, h : e = rl.entries /\ h = rl.history
  OBVIOUS
<1>2. e \in Seq(Entry) /\ h \in Seq(Entry) /\ Len(e) \in Nat /\ Len(h) \in Nat
  BY <1>1, LenProperties DEF RunLog
<1>3. PICK o \in Nat : Len(h) = Len(e) + o /\ \A i \in 1 .. Len(e) : e[i] = h[o + i]
  BY <1>1 DEF RetainsEnd, EndOf
<1>4. e # << >> /\ Len(e) > 0 /\ 1 \in 1 .. Len(e) /\ NumberedFrom(h, 0)
  BY <1>1, <1>2, EmptySeq DEF RetainsEnd
<1>5. ASSUME NEW i \in 1 .. Len(e) PROVE e[i].id = o + i
  <2>1. o + i \in 1 .. Len(h)
    BY <1>2, <1>3
  <2>2. h[o + i].id = 0 + (o + i)
    BY <1>4, <2>1 DEF NumberedFrom
  <2> QED
    BY <1>2, <1>3, <2>2
<1>6. ASSUME o = 0 PROVE e = h
  <2>1. Len(e) = Len(h) /\ \A i \in 1 .. Len(e) : e[i] = h[i]
    BY <1>2, <1>3, <1>6
  <2> QED
    BY <1>2, <2>1, SeqEqual
<1>7. e = h => o = 0
  BY <1>2, <1>3
<1> QED
  BY <1>1, <1>3, <1>4, <1>5, <1>6, <1>7 DEF NumberedFrom, OldestRetainedId

LEMMA RetainedReplayIsExact ==
  ASSUME EventLogTypeOK, AllRetainEnd(log)
  PROVE  ReplayIsExact
<1> SUFFICES ASSUME NEW r \in Runs, NEW rl, rl = log.runs[r], rl.held
             PROVE  /\ Replay(log, r, NullCursor).truncated <=>
                         Replay(log, r, NullCursor).entries # rl.history
                    /\ \A cursor \in 0 .. MaxCursor :
                         LET answer == Replay(log, r, cursor)
                         IN  /\ answer.kind = "ok" => answer.entries = After(rl.history, cursor)
                             /\ answer.kind = "replay-gap" =>
                                  \E i \in 1 .. Len(rl.history) :
                                    /\ rl.history[i].id > cursor
                                    /\ \A j \in 1 .. Len(rl.entries) :
                                         rl.entries[j] # rl.history[i]
  BY DEF ReplayIsExact
<1>1. rl \in RunLog /\ RetainsEnd(rl)
  BY DEF EventLogTypeOK, LogType, AllRetainEnd
<1>2. PICK e, h : e = rl.entries /\ h = rl.history
  OBVIOUS
<1>3. e \in Seq(Entry) /\ h \in Seq(Entry) /\ Len(e) \in Nat /\ Len(h) \in Nat /\ NumberedFrom(h, 0)
  BY <1>1, <1>2, LenProperties DEF RunLog, RetainsEnd
<1>4. PICK o \in Nat :
        /\ Len(h) = Len(e) + o /\ \A i \in 1 .. Len(e) : e[i] = h[o + i]
        /\ NumberedFrom(e, o) /\ OldestRetainedId(rl) = o + 1
        /\ e # << >> /\ e[1].id = o + 1
        /\ o = 0 <=> e = h
  BY <1>1, <1>2, RetainedEntries
<1>5. Replay(log, r, NullCursor).truncated <=> Replay(log, r, NullCursor).entries # h
  <2>1. /\ Replay(log, r, NullCursor).entries = e
        /\ Replay(log, r, NullCursor).truncated <=> e # << >> /\ e[1].id > 1
    BY <1>2 DEF Replay
  <2>2. e[1].id > 1 <=> o # 0
    BY <1>4
  <2> QED
    BY <1>4, <2>1, <2>2
<1>6. ASSUME NEW cursor \in 0 .. MaxCursor
      PROVE  LET answer == Replay(log, r, cursor)
             IN  /\ answer.kind = "ok" => answer.entries = After(h, cursor)
                 /\ answer.kind = "replay-gap" =>
                      \E i \in 1 .. Len(h) :
                        h[i].id > cursor /\ \A j \in 1 .. Len(e) : e[j] # h[i]
  <2>1. cursor \in Nat /\ cursor # NullCursor
    BY LimitsAssumption DEF NullCursor
  <2>2. PICK oldest : oldest = OldestRetainedId(rl) /\ oldest = o + 1
    BY <1>4
  <2>3. Replay(log, r, cursor) =
          IF cursor < oldest - 1
            THEN [kind |-> "replay-gap", entries |-> << >>, truncated |-> FALSE]
            ELSE [kind |-> "ok", entries |-> After(e, cursor), truncated |-> FALSE]
    BY <1>2, <2>1, <2>2 DEF Replay
  <2>4. CASE cursor < o
    <3>1. Replay(log, r, cursor).kind = "replay-gap"
      BY <2>1, <2>2, <2>3, <2>4
    <3>2. cursor + 1 \in 1 .. Len(h)
      BY <1>3, <1>4, <2>1, <2>4
    <3>3. h[cursor + 1].id = cursor + 1 /\ cursor + 1 > cursor
      BY <1>3, <2>1, <3>2 DEF NumberedFrom
    <3>4. ASSUME NEW j \in 1 .. Len(e) PROVE e[j] # h[cursor + 1]
      <4>1. e[j].id = o + j
        BY <1>4 DEF NumberedFrom
      <4>2. o + j # cursor + 1
        BY <1>3, <1>4, <2>1, <2>4
      <4> QED
        BY <3>3, <4>1, <4>2
    <3> QED
      BY <3>1, <3>2, <3>3, <3>4
  <2>5. CASE ~(cursor < o)
    <3>1. Replay(log, r, cursor).kind = "ok" /\ Replay(log, r, cursor).entries = After(e, cursor)
      BY <2>1, <2>2, <2>3, <2>5
    <3>2. PICK k \in Nat : cursor = o + k
      <4>1. cursor - o \in Nat /\ cursor = o + (cursor - o)
        BY <2>1, <2>5
      <4> QED
        BY <4>1
    <3>3. PICK m \in Nat : Len(e) = k + m \/ (m = 0 /\ k > Len(e))
      <4>1. CASE k > Len(e)
        BY <4>1
      <4>2. CASE ~(k > Len(e))
        <5>1. Len(e) - k \in Nat /\ Len(e) = k + (Len(e) - k)
          BY <1>3, <4>2
        <5> QED
          BY <5>1
      <4> QED
        BY <4>1, <4>2
    <3>4. PICK t : t = [n \in 1 .. m |-> e[k + n]]
      OBVIOUS
    <3>5. t = [n \in 1 .. m |-> t[n]] /\ \A n \in 1 .. m : t[n] = e[k + n]
      BY <3>4
    <3>6. Remainder(e, k, t)
      BY <3>3, <3>5 DEF Remainder
    <3>7. Remainder(h, cursor, t)
      <4>1. ASSUME NEW n \in 1 .. m PROVE t[n] = h[cursor + n]
        <5>1. k + n \in 1 .. Len(e) /\ o + (k + n) = cursor + n
          BY <1>3, <3>2, <3>3
        <5>2. e[k + n] = h[o + (k + n)]
          BY <1>4, <5>1
        <5> QED
          BY <3>5, <5>1, <5>2
      <4>2. Len(h) = cursor + m \/ (m = 0 /\ cursor > Len(h))
        <5>1. Len(h) = Len(e) + o /\ Len(e) \in Nat
          BY <1>3, <1>4
        <5> QED
          BY <3>2, <3>3, <5>1
      <4> QED
        BY <3>5, <4>1, <4>2 DEF Remainder
    <3>8. PICK first \in Nat : first = 0
      OBVIOUS
    <3>9. cursor = first + cursor /\ NumberedFrom(h, first) /\ NumberedFrom(e, o)
      BY <1>3, <1>4, <2>1, <3>8
    <3>10. After(e, cursor) = t /\ After(h, cursor) = t
      BY <1>3, <2>1, <3>2, <3>6, <3>7, <3>9, AfterNumbered
    <3> QED
      BY <3>1, <3>10
  <2> QED
    BY <2>4, <2>5
<1> QED
  BY <1>2, <1>5, <1>6

(***************************************************************************)
(* For every cap and both adapters: an answer of replay is exactly what    *)
(* was recorded after the cursor, a gap is reported only when something is *)
(* gone, and a first subscription is told that the beginning is missing    *)
(* exactly when it is (the replay-gap contract of event-log.ts).           *)
(***************************************************************************)
THEOREM ReplaysAreExact == Spec => []ReplayIsExact
<1> DEFINE Inv == EventLogTypeOK /\ AllRetainEnd(log)
<1>1. Init => Inv
  BY EmptyLogType, EmptyLogRetainsEnd DEF Init, EventLogTypeOK
<1>2. Inv /\ [Next]_log => Inv'
  <2> SUFFICES ASSUME Inv, [Next]_log PROVE Inv'
    OBVIOUS
  <2>1. EventLogTypeOK' /\ AllRetainEnd(log')
    BY NextKeepsType, NextRetainsEnd
  <2> QED
    BY <2>1 DEF AllRetainEnd, RetainsEnd, NumberedFrom, EndOf
<1>3. Inv => ReplayIsExact
  BY RetainedReplayIsExact
<1> QED
  BY <1>1, <1>2, <1>3, PTL DEF Spec
=============================================================================
