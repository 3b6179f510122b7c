------------------------- MODULE RunLifecycleProofs -------------------------
(***************************************************************************)
(* Theorems about the run registry, for every set of runs and keys, every  *)
(* option and both log adapters.                                           *)
(*                                                                         *)
(* LifecycleInv joins what the registry's structures say of each other     *)
(* (Shape) with what is in flight: a start that is pending has a starting  *)
(* run, an end a finishing one, one of them at most per run (PendingOK),   *)
(* and while the process boots nothing is in flight, unscanned runs are    *)
(* unknown and exactly the orphans are live (BootOK).                      *)
(*                                                                         *)
(* HistoryInv adds what the logs record: Step says what any step of the    *)
(* registry makes of one run, its log and its record, and RunHistoryOK and *)
(* RunClosedOK are kept by every such step.                                *)
(***************************************************************************)
EXTENDS RunLifecycle, SequenceLemmas

-----------------------------------------------------------------------------
(* The log                                                                 *)

LogFacts == INSTANCE EventLogProofs WITH Payloads <- RunPayloads, Keys <- {}

(* The lemmas speak of the same log as the registry.                       *)
LEMMA SameRemoveFirst ==
  ASSUME NEW s, NEW e
  PROVE  Log!RemoveFirst(s, e) = LogFacts!RemoveFirst(s, e)
<1>1. \A T : Log!Min(T) = LogFacts!Min(T)
  BY DEF Log!Min, LogFacts!Min
<1>2. \A t, i : Log!RemoveAt(t, i) = LogFacts!RemoveAt(t, i)
  BY DEF Log!RemoveAt, LogFacts!RemoveAt
<1> QED
  BY <1>1, <1>2 DEF Log!RemoveFirst, LogFacts!RemoveFirst, Log!SelectInSeq, LogFacts!SelectInSeq

LEMMA SameForget ==
  ASSUME NEW l, NEW gone
  PROVE  Log!Forget(l, gone) = LogFacts!Forget(l, gone)
BY DEF Log!Forget, LogFacts!Forget, Log!NoRunLog, LogFacts!NoRunLog

LEMMA SameRunCap ==
  ASSUME NEW l
  PROVE  Log!EnforceRunCap(l) = LogFacts!EnforceRunCap(l)
<1>1. Log!Cardinality(Log!Held(l)) = LogFacts!Cardinality(LogFacts!Held(l))
  BY DEF Log!Cardinality, LogFacts!Cardinality, Log!Held, LogFacts!Held
<1> QED
  BY <1>1, SameForget DEF Log!EnforceRunCap, LogFacts!EnforceRunCap

LEMMA SameAppend ==
  ASSUME NEW l, NEW r, NEW event, NEW data, NEW key
  PROVE  Log!AppendTo(l, r, event, data, key) = LogFacts!AppendTo(l, r, event, data, key)
<1>1. \A rl, entry : Log!Record(rl, entry) = LogFacts!Record(rl, entry)
  BY DEF Log!Record, LogFacts!Record, Log!Newest, LogFacts!Newest, Log!EvidenceIn,
         LogFacts!EvidenceIn, Log!TerminalEvent, LogFacts!TerminalEvent
<1>2. \A ended : Log!NoteRunPhase(ended, r, event) = LogFacts!NoteRunPhase(ended, r, event)
  BY SameRemoveFirst DEF Log!NoteRunPhase, LogFacts!NoteRunPhase, Log!TerminalEvent,
                         LogFacts!TerminalEvent
<1> QED
  BY <1>1, <1>2, SameRunCap DEF Log!AppendTo, LogFacts!AppendTo, Log!IsDuplicate,
                                LogFacts!IsDuplicate, Log!NewEntry, LogFacts!NewEntry

LEMMA SameLogType == Log!LogType = LogFacts!LogType
BY DEF Log!LogType, LogFacts!LogType, Log!RunLog, LogFacts!RunLog, Log!Entry, LogFacts!Entry,
       Log!Events, LogFacts!Events, Log!TerminalEvent, LogFacts!TerminalEvent

LEMMA LogFactsApply == LogFacts!IsFiniteSet(Runs)
BY RunsAreOrdered DEF IsFiniteSet, LogFacts!IsFiniteSet

LEMMA AppendToLogType ==
  ASSUME NEW l \in Log!LogType, NEW r \in Runs, NEW event \in {"start", "agent", "end"},
         NEW key \in IdemKeys \cup {NoKey}, NEW resumable \in BOOLEAN
  PROVE  AppendToLog(l, r, event, key, resumable) \in Log!LogType
<1>1. [key |-> key, resumable |-> resumable] \in RunPayloads
  BY DEF RunPayloads
<1>2. event \in LogFacts!Events
  BY DEF LogFacts!Events, LogFacts!TerminalEvent
<1> QED
  BY <1>1, <1>2, SameAppend, SameLogType, LogFacts!AppendToType, LogFactsApply,
     LogOptionsAssumption DEF AppendToLog

LEMMA DropFromType ==
  ASSUME NEW l \in Log!LogType, NEW r \in Runs
  PROVE  Log!DropFrom(l, r) \in Log!LogType
<1>1. Log!DropFrom(l, r) = LogFacts!DropFrom(l, r)
  BY SameForget, SameRemoveFirst DEF Log!DropFrom, LogFacts!DropFrom
<1> QED
  BY <1>1, SameLogType, LogFacts!DropFromType, LogFactsApply, LogOptionsAssumption

LEMMA CompactType ==
  ASSUME NEW r \in Runs, log \in Log!LogType, Log!Compact(r)
  PROVE  log' \in Log!LogType
<1>1. Log!CompactRun(log, r) = LogFacts!CompactRun(log, r)
  BY DEF Log!CompactRun, LogFacts!CompactRun, Log!Newest, LogFacts!Newest, Log!EvidenceIn,
         LogFacts!EvidenceIn
<1> QED
  BY <1>1, SameLogType, LogFacts!CompactRunType, LogFactsApply, LogOptionsAssumption
     DEF Log!Compact

LEMMA EmptyLogType == Log!EmptyLog \in Log!LogType
<1>1. Log!EmptyLog = LogFacts!EmptyLog
  BY DEF Log!EmptyLog, LogFacts!EmptyLog, Log!NoRunLog, LogFacts!NoRunLog
<1> QED
  BY <1>1, SameLogType, LogFacts!EmptyLogType, LogFactsApply, LogOptionsAssumption

LEMMA EntryIdType ==
  ASSUME NEW l \in Log!LogType, NEW r \in Runs
  PROVE  EntryId(l, r) \in Nat
BY DEF EntryId, Log!LogType, Log!RunLog

LEMMA ReplayType ==
  ASSUME NEW l \in Log!LogType, NEW r \in Runs
  PROVE  Log!Replay(l, r, Log!NullCursor).entries \in Seq(Log!Entry)
<1>1. l.runs[r].entries \in Seq(Log!Entry)
  BY DEF Log!LogType, Log!RunLog
<1> QED
  BY <1>1, EmptySeq DEF Log!Replay

-----------------------------------------------------------------------------
(* Records                                                                 *)

(* What a record keeps true of itself.                                     *)
RecordOK(x) ==
  /\ x.suspensions > 0 => x.slow = "off"
  /\ x.cancelRequested /\ x.listening => x.told
  /\ x.phase = "starting" => x.suspensions = 0

LEMMA NewRecordType ==
  ASSUME NEW key \in IdemKeys \cup {NoKey}
  PROVE  /\ NewRecord(key) \in RunRecord /\ RecordOK(NewRecord(key))
         /\ NewRecord(key).phase = "starting" /\ NewRecord(key).key = key
BY DEF NewRecord, RunRecord, RecordOK, Phases, WatchdogStates

LEMMA NoRecordType ==
  /\ NoRecord \in RunRecord /\ RecordOK(NoRecord) /\ NoRecord.phase = "absent"
BY NewRecordType DEF NoRecord, NewRecord, RunRecord, RecordOK, Phases, WatchdogStates

LEMMA EntryData ==
  ASSUME NEW entries \in Seq(Log!Entry), NEW i \in 1 .. Len(entries)
  PROVE  /\ entries[i].data.key \in IdemKeys \cup {NoKey} /\ entries[i].data.resumable \in BOOLEAN
         /\ entries[i].id \in Nat
<1>1. entries[i] \in Log!Entry
  BY ElementOfSeq
<1>2. entries[i].data \in RunPayloads /\ entries[i].id \in Nat
  BY <1>1 DEF Log!Entry
<1> QED
  BY <1>2 DEF RunPayloads

LEMMA StartKeyType ==
  ASSUME NEW entries \in Seq(Log!Entry)
  PROVE  StartKey(entries) \in IdemKeys \cup {NoKey}
<1> DEFINE T == {i \in 1 .. Len(entries) : entries[i].event = "start"}
<1>1. Len(entries) \in Nat
  BY LenProperties
<1>2. CASE T # {}
  <2>1. T \in SUBSET Nat
    BY <1>1
  <2>2. PICK m \in T : \A y \in T : m <= y
    BY <1>2, <2>1, LeastNat
  <2>3. \A j \in 1 .. (m - 1) : entries[j].event # "start"
    BY <1>1, <2>2
  <2> DEFINE First1(i) == /\ entries[i].event = "start"
                          /\ \A j \in 1 .. (i - 1) : entries[j].event # "start"
             c == CHOOSE i \in 1 .. Len(entries) : First1(i)
  <2>4. c \in 1 .. Len(entries)
    BY <2>2, <2>3
  <2>5. StartKey(entries) = entries[c].data.key
    BY <1>2 DEF StartKey
  <2> HIDE DEF c
  <2> QED
    BY <2>4, <2>5, EntryData
<1>3. CASE T = {}
  BY <1>3 DEF StartKey
<1> QED
  BY <1>2, <1>3

LEMMA LastEndType ==
  ASSUME NEW entries \in Seq(Log!Entry)
  PROVE  LastEnd(entries) = 0 \/ LastEnd(entries) \in 1 .. Len(entries)
<1> DEFINE T == {i \in 1 .. Len(entries) : entries[i].event = "end"}
<1>1. Len(entries) \in Nat
  BY LenProperties
<1>2. CASE T # {}
  <2> DEFINE U == {Len(entries) - i : i \in T}
  <2>1. U \in SUBSET Nat /\ U # {}
    BY <1>1, <1>2
  <2>2. PICK u \in U : \A y \in U : u <= y
    BY <2>1, LeastNat
  <2>3. PICK m \in T : u = Len(entries) - m
    BY <2>2
  <2>4. ASSUME NEW i \in T PROVE i <= m
    <3>1. u <= Len(entries) - i
      BY <2>2
    <3> HIDE DEF T, U
    <3>2. i \in Nat /\ m \in Nat
      BY <1>1, <2>3 DEF T
    <3> QED
      BY <1>1, <2>3, <3>1, <3>2
  <2>5. \A j \in (m + 1) .. Len(entries) : entries[j].event # "end"
    BY <1>1, <2>3, <2>4
  <2> DEFINE Last1(i) == /\ entries[i].event = "end"
                         /\ \A j \in (i + 1) .. Len(entries) : entries[j].event # "end"
             c == CHOOSE i \in 1 .. Len(entries) : Last1(i)
  <2>6. c \in 1 .. Len(entries)
    BY <2>3, <2>5
  <2>7. LastEnd(entries) = c
    BY <1>2 DEF LastEnd
  <2> QED
    BY <2>6, <2>7
<1>3. CASE T = {}
  BY <1>3 DEF LastEnd
<1> QED
  BY <1>2, <1>3

LEMMA RehydratedType ==
  ASSUME NEW entries \in Seq(Log!Entry)
  PROVE  /\ RehydratedRecord(entries) \in RunRecord /\ RecordOK(RehydratedRecord(entries))
         /\ RehydratedRecord(entries).phase \in {"running", "terminal"}
<1> DEFINE end == LastEnd(entries)
           new == NewRecord(StartKey(entries))
<1>1. new \in RunRecord /\ RecordOK(new) /\ new.suspensions = 0
  BY StartKeyType, NewRecordType DEF NewRecord
<1> HIDE DEF new
<1>2. CASE end = 0
  <2>1. RehydratedRecord(entries) = [new EXCEPT !.phase = "running"]
    BY <1>2 DEF RehydratedRecord, new
  <2> QED
    BY <1>1, <2>1 DEF RunRecord, RecordOK, Phases
<1>3. CASE end # 0
  <2>1. entries[end].data.resumable \in BOOLEAN /\ entries[end].id \in Nat
    BY <1>3, LastEndType, EntryData
  <2> DEFINE b == entries[end].data.resumable
             n == entries[end].id
             x == [new EXCEPT !.phase = "terminal"]
             y == [x EXCEPT !.resumable = b]
             z == [y EXCEPT !.endId = n]
  <2>2. RehydratedRecord(entries) = z
    BY <1>3, <1>1 DEF RehydratedRecord, new, RunRecord
  <2> HIDE DEF b, n, end
  <2>3. b \in BOOLEAN /\ n \in Nat
    BY <2>1 DEF b, n
  <2>4. x \in RunRecord /\ RecordOK(x) /\ x.phase = "terminal"
    BY <1>1 DEF RunRecord, RecordOK, Phases
  <2> HIDE DEF x
  <2>5. y \in RunRecord /\ RecordOK(y) /\ y.phase = "terminal"
    BY <2>3, <2>4 DEF RunRecord, RecordOK
  <2> HIDE DEF y
  <2>6. z \in RunRecord /\ RecordOK(z) /\ z.phase = "terminal"
    BY <2>3, <2>5 DEF RunRecord, RecordOK
  <2> QED
    BY <2>2, <2>6
<1> QED
  BY <1>2, <1>3

-----------------------------------------------------------------------------
(* The registry's shape                                                    *)

(* What a step may not do to a live run: take its record away.             *)
KeepsLive == \A s \in Runs : Live(s) => rec'[s].phase # "absent"

(* Every index entry names a record that carries the key (IndexSound).     *)
IndexOK(rc, ix) ==
  /\ ix \in [IdemKeys -> Runs \cup {NoRun}]
  /\ \A k \in IdemKeys : ix[k] # NoRun => rc[ix[k]].phase # "absent" /\ rc[ix[k]].key = k

(* The terminal runs, each listed once with a timer armed.                 *)
RetentionOK(rc, order, tm) ==
  /\ order \in Seq(Runs) /\ IsInjective(order)
  /\ ToSet(order) = {r \in Runs : rc[r].phase = "terminal"}
  /\ tm \subseteq Runs /\ ToSet(order) \subseteq tm
  /\ \A r \in tm : rc[r].phase \in {"terminal", "absent"}

Shape(rc, ix, order, tm, pk) ==
  /\ rc \in [Runs -> RunRecord] /\ \A r \in Runs : RecordOK(rc[r])
  /\ IndexOK(rc, ix)
  /\ RetentionOK(rc, order, tm)
  /\ pk \subseteq Runs /\ \A r \in pk : rc[r].phase \in {"running", "finishing"}

(* Replacing one record keeps the shape, if the bookkeeping follows.       *)
LEMMA UpdateShape ==
  ASSUME NEW rc, NEW ix, NEW order, NEW tm, NEW pk, Shape(rc, ix, order, tm, pk),
         NEW r \in Runs, NEW x \in RunRecord, RecordOK(x),
         NEW ix2, IndexOK([rc EXCEPT ![r] = x], ix2),
         NEW order2 \in Seq(Runs), IsInjective(order2),
         ToSet(order2) = IF x.phase = "terminal" THEN ToSet(order) \cup {r} ELSE ToSet(order) \ {r},
         NEW tm2 \in SUBSET Runs, tm2 \ {r} = tm \ {r},
         x.phase = "terminal" => r \in tm2,
         r \in tm2 => x.phase \in {"terminal", "absent"},
         NEW pk2 \in SUBSET Runs, pk2 \ {r} = pk \ {r},
         r \in pk2 => x.phase \in {"running", "finishing"}
  PROVE  Shape([rc EXCEPT ![r] = x], ix2, order2, tm2, pk2)
<1> DEFINE rc2 == [rc EXCEPT ![r] = x]
<1>1. rc \in [Runs -> RunRecord]
  BY DEF Shape
<1>2. rc2 \in [Runs -> RunRecord] /\ rc2[r] = x /\ \A s \in Runs \ {r} : rc2[s] = rc[s]
  BY <1>1
<1> HIDE DEF rc2
<1>3. \A s \in Runs : RecordOK(rc2[s])
  BY <1>2 DEF Shape
<1>4. ToSet(order2) = {s \in Runs : rc2[s].phase = "terminal"}
  BY <1>2 DEF Shape, RetentionOK
<1>5. ToSet(order2) \subseteq tm2
  BY <1>2 DEF Shape, RetentionOK
<1>6. \A s \in tm2 : rc2[s].phase \in {"terminal", "absent"}
  BY <1>2 DEF Shape, RetentionOK
<1>7. \A s \in pk2 : rc2[s].phase \in {"running", "finishing"}
  BY <1>2 DEF Shape
<1>8. IndexOK(rc2, ix2)
  BY DEF rc2
<1>9. Shape(rc2, ix2, order2, tm2, pk2)
  BY <1>2, <1>3, <1>4, <1>5, <1>6, <1>7, <1>8 DEF Shape, RetentionOK
<1> QED
  BY <1>9 DEF rc2

(* A step of a run's own: it keeps its key and is on no list.              *)
LEMMA TouchShape ==
  ASSUME NEW rc, NEW ix, NEW order, NEW tm, NEW pk, Shape(rc, ix, order, tm, pk),
         NEW r \in Runs, NEW x \in RunRecord, RecordOK(x), x.key = rc[r].key,
         \/ x.phase = rc[r].phase
         \/ /\ rc[r].phase \in {"starting", "running", "finishing"}
            /\ x.phase \in {"running", "finishing"}
  PROVE  Shape([rc EXCEPT ![r] = x], ix, order, tm, pk)
<1>1. rc \in [Runs -> RunRecord] /\ order \in Seq(Runs) /\ IsInjective(order)
      /\ tm \in SUBSET Runs /\ pk \in SUBSET Runs
  BY DEF Shape, RetentionOK
<1>2. IndexOK([rc EXCEPT ![r] = x], ix)
  BY <1>1 DEF Shape, IndexOK
<1>3. ToSet(order) = IF x.phase = "terminal" THEN ToSet(order) \cup {r} ELSE ToSet(order) \ {r}
  BY DEF Shape, RetentionOK
<1>4. /\ x.phase = "terminal" => r \in tm
      /\ r \in tm => x.phase \in {"terminal", "absent"}
      /\ r \in pk => x.phase \in {"running", "finishing"}
  BY DEF Shape, RetentionOK
<1> QED
  BY <1>1, <1>2, <1>3, <1>4, UpdateShape

(* Removing a record and its index entry.                                  *)
LEMMA RemoveShape ==
  ASSUME NEW rc, NEW ix, NEW order, NEW tm, NEW pk, Shape(rc, ix, order, tm, pk),
         NEW r \in Runs, r \notin pk,
         NEW order2 \in Seq(Runs), IsInjective(order2), ToSet(order2) = ToSet(order) \ {r},
         NEW tm2 \in SUBSET Runs, tm2 \ {r} = tm \ {r}
  PROVE  Shape([rc EXCEPT ![r] = NoRecord], Unindex(ix, rc[r].key, r), order2, tm2, pk)
<1> DEFINE rc2 == [rc EXCEPT ![r] = NoRecord]
           ix2 == Unindex(ix, rc[r].key, r)
<1>1. rc \in [Runs -> RunRecord] /\ pk \in SUBSET Runs /\ IndexOK(rc, ix)
  BY DEF Shape
<1>2. rc[r].key \in IdemKeys \cup {NoKey}
  BY <1>1 DEF RunRecord
<1>3. ix2 \in [IdemKeys -> Runs \cup {NoRun}]
  BY <1>1 DEF Unindex, IndexOK
<1>4. \A k \in IdemKeys : ix2[k] # NoRun => ix2[k] = ix[k] /\ ix[k] # r
  <2> SUFFICES ASSUME NEW k \in IdemKeys, ix2[k] # NoRun PROVE ix2[k] = ix[k] /\ ix[k] # r
    OBVIOUS
  <2>1. r # NoRun
    BY NullsAssumption
  <2>2. ix[k] = r => rc[r].key = k
    BY <1>1, <2>1 DEF IndexOK
  <2>3. k # NoKey
    BY NullsAssumption
  <2>4. ix \in [IdemKeys -> Runs \cup {NoRun}]
    BY <1>1 DEF IndexOK
  <2> QED
    BY <2>1, <2>2, <2>3, <2>4 DEF Unindex
<1>5. IndexOK(rc2, ix2)
  <2> SUFFICES ASSUME NEW k \in IdemKeys, ix2[k] # NoRun
               PROVE  rc2[ix2[k]].phase # "absent" /\ rc2[ix2[k]].key = k
    BY <1>3 DEF IndexOK
  <2>1. ix2[k] = ix[k] /\ ix[k] # r /\ ix[k] # NoRun /\ ix[k] \in Runs
    BY <1>1, <1>4 DEF IndexOK
  <2> HIDE DEF ix2
  <2> QED
    BY <1>1, <2>1 DEF IndexOK
<1> HIDE DEF ix2
<1>6. Shape(rc2, ix2, order2, tm2, pk)
  BY <1>1, <1>5, NoRecordType, UpdateShape
<1> QED
  BY <1>6 DEF ix2

(* A run that is not registered is registered, under its key if it has one. *)
LEMMA RegisterIndex ==
  ASSUME NEW rc \in [Runs -> RunRecord], NEW ix, IndexOK(rc, ix),
         NEW r \in Runs, rc[r].phase = "absent", NEW x \in RunRecord, x.phase # "absent"
  PROVE  IndexOK([rc EXCEPT ![r] = x],
                 IF x.key = NoKey THEN ix ELSE [ix EXCEPT ![x.key] = r])
<1>1. x.key \in IdemKeys \cup {NoKey}
  BY DEF RunRecord
<1>2. \A k \in IdemKeys : ix[k] # r
  BY NullsAssumption DEF IndexOK
<1>3. CASE x.key = NoKey
  BY <1>2, <1>3 DEF IndexOK
<1>4. CASE x.key # NoKey
  BY <1>1, <1>2, <1>4 DEF IndexOK
<1> QED
  BY <1>3, <1>4

(* An ended run joins the list, and the oldest leaves a list that is full. *)
LEMMA TrackShape ==
  ASSUME NEW rc, NEW ix, NEW order, NEW tm, NEW pk, Shape(rc, ix, order, tm, pk),
         Len(order) <= MaxTerminalRuns,
         NEW r \in Runs, r \notin ToSet(order),
         NEW x \in RunRecord, RecordOK(x), x.phase = "terminal",
         NEW ix2, IndexOK([rc EXCEPT ![r] = x], ix2)
  PROVE  LET recs == [rc EXCEPT ![r] = x]
             all  == Append(order, r)
             v    == Head(all)
         IN  /\ Shape(recs, ix2, all, tm \cup {r}, pk \ {r})
             /\ Len(all) > MaxTerminalRuns =>
                  /\ v \in Runs /\ v # r /\ rc[v].phase = "terminal"
                  /\ Shape([recs EXCEPT ![v] = NoRecord], Unindex(ix2, recs[v].key, v),
                           Tail(all), tm \cup {r}, pk \ {r})
                  /\ Len(Tail(all)) <= MaxTerminalRuns
<1> DEFINE recs == [rc EXCEPT ![r] = x]
           all  == Append(order, r)
           v    == Head(all)
<1>1. /\ rc \in [Runs -> RunRecord] /\ order \in Seq(Runs) /\ IsInjective(order)
      /\ tm \in SUBSET Runs /\ pk \in SUBSET Runs
      /\ \A s \in pk : rc[s].phase \in {"running", "finishing"}
      /\ ToSet(order) = {s \in Runs : rc[s].phase = "terminal"}
  BY DEF Shape, RetentionOK
<1>2. all \in Seq(Runs) /\ ToSet(all) = ToSet(order) \cup {r} /\ IsInjective(all)
  BY <1>1, AppendToSet
<1>3. Shape(recs, ix2, all, tm \cup {r}, pk \ {r})
  <2> DEFINE tm2 == tm \cup {r}
             pk2 == pk \ {r}
  <2>1. /\ tm2 \in SUBSET Runs /\ tm2 \ {r} = tm \ {r} /\ r \in tm2
        /\ pk2 \in SUBSET Runs /\ pk2 \ {r} = pk \ {r} /\ r \notin pk2
    BY <1>1
  <2> HIDE DEF tm2, pk2, all
  <2>2. Shape(recs, ix2, all, tm2, pk2)
    BY <1>2, <2>1, UpdateShape
  <2> QED
    BY <2>2 DEF tm2, pk2
<1>4. ASSUME Len(all) > MaxTerminalRuns
      PROVE  /\ v \in Runs /\ v # r /\ rc[v].phase = "terminal"
             /\ Shape([recs EXCEPT ![v] = NoRecord], Unindex(ix2, recs[v].key, v),
                      Tail(all), tm \cup {r}, pk \ {r})
             /\ Len(Tail(all)) <= MaxTerminalRuns
  <2>1. Len(order) \in Nat /\ Len(all) = Len(order) + 1 /\ Len(order) > 0
    BY <1>1, <1>4, OptionsAssumption
  <2>2. v = order[1] /\ v = all[1] /\ v \in Runs
    BY <1>1, <2>1
  <2>3. v \in ToSet(order)
    BY <2>1, <2>2, <1>1 DEF ToSet
  <2>4. v # r /\ rc[v].phase = "terminal" /\ v \notin pk \ {r}
    BY <1>1, <2>3
  <2>5. Tail(all) = SubSeq(all, 1 + 1, Len(all)) /\ Len(Tail(all)) = Len(order)
    BY <1>1, <2>1
  <2>6. 1 \in 0 .. Len(all) /\ {all[i] : i \in 1 .. 1} = {v}
    BY <2>1, <2>2
  <2> HIDE DEF all, v
  <2>7. Tail(all) \in Seq(Runs) /\ ToSet(Tail(all)) = ToSet(all) \ {v} /\ IsInjective(Tail(all))
    <3>1. LET rest == SubSeq(all, 1 + 1, Len(all))
          IN  /\ rest \in Seq(Runs)
              /\ ToSet(rest) = ToSet(all) \ {all[i] : i \in 1 .. 1}
              /\ IsInjective(rest)
      BY ONLY <1>2, <2>6, RestOfSet
    <3> QED
      BY ONLY <2>5, <2>6, <3>1, Zenon
  <2>8. tm \cup {r} \in SUBSET Runs
    BY <1>1
  <2> HIDE DEF recs
  <2>9. Shape([recs EXCEPT ![v] = NoRecord], Unindex(ix2, recs[v].key, v),
              Tail(all), tm \cup {r}, pk \ {r})
    BY <1>3, <2>2, <2>4, <2>7, <2>8, RemoveShape
  <2> QED
    BY <2>2, <2>4, <2>5, <2>9
<1> QED
  BY <1>3, <1>4

-----------------------------------------------------------------------------
(* Requests in flight                                                      *)

(* No start and no end of r is in flight.                                  *)
Quiet(pend, r) == \A i \in 1 .. Len(pend) : pend[i].op # "emit" => pend[i].run # r

(* A start in flight has a starting run, an end a finishing one, and no    *)
(* run has two of them in flight.                                          *)
PendingOK(rc, pend) ==
  /\ pend \in Seq(Request)
  /\ \A i \in 1 .. Len(pend) :
       /\ pend[i].op = "start" => rc[pend[i].run].phase = "starting"
       /\ pend[i].op = "end" => rc[pend[i].run].phase = "finishing"
  /\ \A i, j \in 1 .. Len(pend) :
       pend[i].op # "emit" /\ pend[j].op # "emit" /\ pend[i].run = pend[j].run => i = j

LEMMA RequestAt ==
  ASSUME NEW pend \in Seq(Request), NEW i \in 1 .. Len(pend)
  PROVE  pend[i].op \in {"start", "emit", "end"} /\ pend[i].run \in Runs
<1>1. pend[i] \in Request
  BY ElementOfSeq
<1> QED
  BY <1>1 DEF Request

LEMMA QuietPhase ==
  ASSUME NEW rc, NEW pend, PendingOK(rc, pend), NEW r \in Runs,
         rc[r].phase \notin {"starting", "finishing"}
  PROVE  Quiet(pend, r)
BY RequestAt DEF PendingOK, Quiet

LEMMA PendingTail ==
  ASSUME NEW rc, NEW pend, PendingOK(rc, pend), pend # << >>
  PROVE  /\ Head(pend) \in Request
         /\ Head(pend).op = "start" => rc[Head(pend).run].phase = "starting"
         /\ Head(pend).op = "end" => rc[Head(pend).run].phase = "finishing"
         /\ PendingOK(rc, Tail(pend))
         /\ Head(pend).op # "emit" => Quiet(Tail(pend), Head(pend).run)
<1>1. pend \in Seq(Request) /\ Len(pend) \in Nat /\ Len(pend) > 0
  BY EmptySeq DEF PendingOK
<1>2. Head(pend) = pend[1] /\ 1 \in 1 .. Len(pend) /\ pend[1] \in Request
  BY <1>1
<1>3. /\ Tail(pend) \in Seq(Request) /\ Len(Tail(pend)) = Len(pend) - 1
      /\ \A i \in 1 .. Len(Tail(pend)) : i + 1 \in 1 .. Len(pend) /\ Tail(pend)[i] = pend[i + 1]
  BY <1>1
<1> DEFINE t == Tail(pend)
<1> HIDE DEF t
<1>4. \A i \in 1 .. Len(t) : i + 1 \in 1 .. Len(pend) /\ t[i] = pend[i + 1] /\ i \in Nat
  BY <1>1, <1>3 DEF t
<1>5. \A i \in 1 .. Len(t) :
        /\ t[i].op = "start" => rc[t[i].run].phase = "starting"
        /\ t[i].op = "end" => rc[t[i].run].phase = "finishing"
  BY <1>4 DEF PendingOK
<1>6. \A i, j \in 1 .. Len(t) :
        t[i].op # "emit" /\ t[j].op # "emit" /\ t[i].run = t[j].run => i = j
  <2> SUFFICES ASSUME NEW i \in 1 .. Len(t), NEW j \in 1 .. Len(t),
                      t[i].op # "emit", t[j].op # "emit", t[i].run = t[j].run
               PROVE  i = j
    OBVIOUS
  <2>1. /\ pend[i + 1].op # "emit" /\ pend[j + 1].op # "emit"
        /\ pend[i + 1].run = pend[j + 1].run
        /\ i + 1 \in 1 .. Len(pend) /\ j + 1 \in 1 .. Len(pend)
    BY <1>4
  <2>2. \A a, b \in 1 .. Len(pend) :
          pend[a].op # "emit" /\ pend[b].op # "emit" /\ pend[a].run = pend[b].run => a = b
    BY DEF PendingOK
  <2>3. i + 1 = j + 1
    BY ONLY <2>1, <2>2, Zenon
  <2> QED
    BY <1>4, <2>3
<1>7. PendingOK(rc, t)
  BY <1>3, <1>5, <1>6 DEF PendingOK, t
<1>8. pend[1].op # "emit" => Quiet(t, pend[1].run)
  <2> SUFFICES ASSUME pend[1].op # "emit", NEW i \in 1 .. Len(t), t[i].op # "emit",
                      t[i].run = pend[1].run
               PROVE  FALSE
    BY DEF Quiet
  <2>1. i + 1 = 1
    BY <1>2, <1>4 DEF PendingOK
  <2> QED
    BY <1>4, <2>1
<1> QED
  BY <1>2, <1>7, <1>8 DEF PendingOK, t

LEMMA PendingAppend ==
  ASSUME NEW rc, NEW pend, PendingOK(rc, pend), NEW q \in Request,
         q.op = "start" => rc[q.run].phase = "starting",
         q.op = "end" => rc[q.run].phase = "finishing",
         q.op # "emit" => Quiet(pend, q.run)
  PROVE  PendingOK(rc, Append(pend, q))
<1> DEFINE t == Append(pend, q)
<1>1. /\ pend \in Seq(Request) /\ Len(pend) \in Nat
      /\ t \in Seq(Request) /\ Len(t) = Len(pend) + 1 /\ t[Len(pend) + 1] = q
      /\ \A i \in 1 .. Len(pend) : t[i] = pend[i]
  BY DEF PendingOK
<1> HIDE DEF t
<1>2. \A i \in 1 .. Len(t) : i \in 1 .. Len(pend) \/ i = Len(pend) + 1
  BY <1>1
<1>3. \A i \in 1 .. Len(t) :
        /\ t[i].op = "start" => rc[t[i].run].phase = "starting"
        /\ t[i].op = "end" => rc[t[i].run].phase = "finishing"
  BY <1>1, <1>2 DEF PendingOK
<1>4. \A i, j \in 1 .. Len(t) :
        t[i].op # "emit" /\ t[j].op # "emit" /\ t[i].run = t[j].run => i = j
  BY <1>1, <1>2 DEF PendingOK, Quiet
<1> QED
  BY <1>1, <1>3, <1>4 DEF PendingOK, t

(* Records change under the requests of others.                            *)
LEMMA PendingPhases ==
  ASSUME NEW rc, NEW pend, PendingOK(rc, pend), NEW rc2,
         \A s \in Runs : Quiet(pend, s) \/ rc2[s].phase = rc[s].phase
  PROVE  PendingOK(rc2, pend)
<1>1. pend \in Seq(Request) /\ \A i \in 1 .. Len(pend) : pend[i].run \in Runs
  BY RequestAt DEF PendingOK
<1>2. \A i \in 1 .. Len(pend) :
        /\ pend[i].op = "start" => rc2[pend[i].run].phase = "starting"
        /\ pend[i].op = "end" => rc2[pend[i].run].phase = "finishing"
  BY <1>1 DEF PendingOK, Quiet
<1> QED
  BY <1>1, <1>2 DEF PendingOK

LEMMA PendingTouch ==
  ASSUME NEW rc \in [Runs -> RunRecord], NEW pend, PendingOK(rc, pend), NEW r \in Runs, NEW x,
         Quiet(pend, r) \/ x.phase = rc[r].phase
  PROVE  PendingOK([rc EXCEPT ![r] = x], pend)
<1> DEFINE rc2 == [rc EXCEPT ![r] = x]
<1>1. \A s \in Runs : Quiet(pend, s) \/ rc2[s].phase = rc[s].phase
  OBVIOUS
<1> HIDE DEF rc2
<1>2. PendingOK(rc2, pend)
  BY <1>1, PendingPhases
<1> QED
  BY <1>2 DEF rc2

-----------------------------------------------------------------------------
(* The inductive invariant                                                 *)

(* A scanned run is unknown so far, an orphan is running, and while the    *)
(* process boots nothing is in flight and only orphans are live.           *)
BootOK(rc, tm, pk, pend, b) ==
  /\ b \in Boots
  /\ \A r \in b.toScan : rc[r].phase = "absent" /\ r \notin tm
  /\ \A r \in b.orphans : rc[r].phase = "running"
  /\ b.phase = "up" => b.toScan = {} /\ b.orphans = {}
  /\ b.phase # "up" =>
       /\ pend = << >> /\ pk = {}
       /\ \A r \in Runs : /\ rc[r].phase \notin {"starting", "finishing"}
                          /\ rc[r].phase = "running" => r \in b.orphans

Counters == resumes \in [Runs -> Nat] /\ failures \in Nat /\ crashes \in Nat

LifecycleInv ==
  /\ log \in Log!LogType
  /\ Shape(rec, index, terminalOrder, timers, parked)
  /\ Len(terminalOrder) <= MaxTerminalRuns
  /\ PendingOK(rec, pending)
  /\ BootOK(rec, timers, parked, pending, boot)
  /\ Counters

LEMMA RecordType ==
  ASSUME LifecycleInv, NEW r \in Runs
  PROVE  /\ rec \in [Runs -> RunRecord] /\ rec[r] \in RunRecord /\ RecordOK(rec[r])
         /\ rec[r].phase \in Phases
BY DEF LifecycleInv, Shape, RunRecord

LEMMA InitInv == Init => LifecycleInv
<1> SUFFICES ASSUME Init PROVE LifecycleInv
  OBVIOUS
<1>1. log \in Log!LogType
  BY EmptyLogType DEF Init
<1>2. \A r \in Runs : rec[r] = NoRecord
  BY DEF Init
<1>3. rec \in [Runs -> RunRecord] /\ \A r \in Runs : RecordOK(rec[r]) /\ rec[r].phase = "absent"
  BY <1>2, NoRecordType DEF Init
<1>4. IndexOK(rec, index)
  BY DEF Init, IndexOK
<1>5. terminalOrder \in Seq(Runs) /\ Len(terminalOrder) = 0 /\ ToSet(terminalOrder) = {}
      /\ IsInjective(terminalOrder)
  BY EmptySeq DEF Init, ToSet, IsInjective
<1>6. Shape(rec, index, terminalOrder, timers, parked)
  BY <1>3, <1>4, <1>5 DEF Init, Shape, RetentionOK
<1>7. pending \in Seq(Request) /\ Len(pending) = 0
  BY EmptySeq DEF Init
<1>8. PendingOK(rec, pending)
  BY <1>7 DEF PendingOK
<1>9. BootOK(rec, timers, parked, pending, boot)
  BY DEF Init, BootOK, Booted, Boots
<1> QED
  BY <1>1, <1>5, <1>6, <1>8, <1>9, OptionsAssumption DEF LifecycleInv, Counters, Init

(* A call on one run that leaves its phase and key alone.                  *)
LEMMA TouchStep ==
  ASSUME LifecycleInv, NEW r \in Runs, NEW x \in RunRecord, RecordOK(x),
         x.key = rec[r].key, x.phase = rec[r].phase,
         rec' = [rec EXCEPT ![r] = x],
         \/ UNCHANGED pending
         \/ Up /\ \E q \in Request : q.op = "emit" /\ pending' = Append(pending, q),
         UNCHANGED << log, index, terminalOrder, timers, parked, boot, resumes, failures, crashes >>
  PROVE  LifecycleInv'
<1>1. rec \in [Runs -> RunRecord]
  BY RecordType
<1>2. \A s \in Runs : rec'[s].phase = rec[s].phase
  BY <1>1
<1>3. Shape(rec', index, terminalOrder, timers, parked)
  BY TouchShape DEF LifecycleInv
<1>4. PendingOK(rec', pending)
  BY <1>1, PendingTouch DEF LifecycleInv
<1>5. PendingOK(rec', pending')
  BY <1>4, PendingAppend
<1>6. boot \in Boots /\ timers \subseteq Runs
  BY DEF LifecycleInv, BootOK, Shape, RetentionOK
<1>7. BootOK(rec', timers, parked, pending', boot)
  BY <1>2, <1>6 DEF LifecycleInv, BootOK, Up, Boots
<1> QED
  BY <1>3, <1>5, <1>7 DEF LifecycleInv, Counters

LEMMA NoteType ==
  ASSUME NEW w \in WatchdogStates
  PROVE  NoteActivity(w) \in WatchdogStates /\ SlowWindow \in WatchdogStates
BY DEF NoteActivity, WatchdogStates, SlowWindow

LEMMA SetWatchdog ==
  ASSUME NEW x \in RunRecord, RecordOK(x), NEW w \in WatchdogStates
  PROVE  LET y == [x EXCEPT !.watchdog = w]
         IN  /\ y \in RunRecord /\ RecordOK(y)
             /\ y.key = x.key /\ y.phase = x.phase /\ y.slow = x.slow
             /\ y.suspensions = x.suspensions
BY DEF RunRecord, RecordOK

LEMMA SetSlow ==
  ASSUME NEW x \in RunRecord, RecordOK(x), NEW w \in WatchdogStates,
         x.suspensions = 0 \/ w = "off"
  PROVE  LET y == [x EXCEPT !.slow = w]
         IN  y \in RunRecord /\ RecordOK(y) /\ y.key = x.key /\ y.phase = x.phase
BY DEF RunRecord, RecordOK

LEMMA SlowActivity ==
  ASSUME NEW x \in RunRecord, RecordOK(x)
  PROVE  /\ x.slow \in WatchdogStates /\ x.watchdog \in WatchdogStates
         /\ x.suspensions \in Nat
         /\ x.suspensions = 0 \/ x.slow = "off"
         /\ x.suspensions = 0 \/ NoteActivity(x.slow) = "off"
BY DEF RunRecord, RecordOK, NoteActivity

LEMMA EmitStep ==
  ASSUME LifecycleInv, NEW r \in Runs, NEW kind, Emit(r, kind)
  PROVE  LifecycleInv'
<1>1. rec \in [Runs -> RunRecord] /\ rec[r] \in RunRecord /\ RecordOK(rec[r])
  BY RecordType
<1>2. PICK a, b : /\ a = NoteActivity(rec[r].watchdog)
                  /\ b = IF kind = "agent" THEN NoteActivity(rec[r].slow) ELSE rec[r].slow
  OBVIOUS
<1>3. a \in WatchdogStates /\ b \in WatchdogStates /\ (rec[r].suspensions = 0 \/ b = "off")
  BY <1>1, <1>2, NoteType, SlowActivity
<1>4. PICK y : y = [rec[r] EXCEPT !.watchdog = a]
  OBVIOUS
<1>5. PICK x : x = [y EXCEPT !.slow = b]
  OBVIOUS
<1>6. rec' = [rec EXCEPT ![r] = x]
  BY <1>1, <1>2, <1>4, <1>5 DEF Emit, RunRecord
<1>7. /\ y \in RunRecord /\ RecordOK(y) /\ y.key = rec[r].key /\ y.phase = rec[r].phase
      /\ y.suspensions = rec[r].suspensions
  BY <1>1, <1>3, <1>4, SetWatchdog
<1>8. x \in RunRecord /\ RecordOK(x) /\ x.key = rec[r].key /\ x.phase = rec[r].phase
  BY <1>3, <1>5, <1>7, SetSlow
<1>9. EmitRequest(r, "driver") \in Request /\ EmitRequest(r, "driver").op = "emit"
  BY DEF EmitRequest, Request
<1> QED
  BY <1>6, <1>8, <1>9, TouchStep DEF Emit

LEMMA InactivityStep ==
  ASSUME LifecycleInv, NEW r \in Runs, InactivityTimeout(r)
  PROVE  LifecycleInv'
<1>1. rec \in [Runs -> RunRecord] /\ rec[r] \in RunRecord /\ RecordOK(rec[r])
  BY RecordType
<1>2. PICK x : x = IF rec[r].phase = "running"
                     THEN [rec[r] EXCEPT !.slow = NoteActivity(@)]
                     ELSE [rec[r] EXCEPT !.watchdog = "expired"]
  OBVIOUS
<1>3. rec' = [rec EXCEPT ![r] = x]
  BY <1>1, <1>2 DEF InactivityTimeout
<1>4. x \in RunRecord /\ RecordOK(x) /\ x.key = rec[r].key /\ x.phase = rec[r].phase
  <2>1. "expired" \in WatchdogStates /\ NoteActivity(rec[r].slow) \in WatchdogStates
    BY <1>1, NoteType, SlowActivity DEF WatchdogStates
  <2> QED
    BY <1>1, <1>2, <2>1, SlowActivity, SetSlow, SetWatchdog
<1>5. EmitRequest(r, "inactivity") \in Request /\ EmitRequest(r, "inactivity").op = "emit"
  BY DEF EmitRequest, Request
<1> QED
  BY <1>3, <1>4, <1>5, TouchStep DEF InactivityTimeout

LEMMA NoticeStep ==
  ASSUME LifecycleInv, NEW r \in Runs, SlowRunNotice(r)
  PROVE  LifecycleInv'
<1>1. rec \in [Runs -> RunRecord] /\ rec[r] \in RunRecord /\ RecordOK(rec[r])
  BY RecordType
<1>2. PICK x : x = IF rec[r].phase = "running"
                     THEN [rec[r] EXCEPT !.watchdog = NoteActivity(@)]
                     ELSE [rec[r] EXCEPT !.slow = "expired"]
  OBVIOUS
<1>3. rec' = [rec EXCEPT ![r] = x]
  BY <1>1, <1>2 DEF SlowRunNotice
<1>4. x \in RunRecord /\ RecordOK(x) /\ x.key = rec[r].key /\ x.phase = rec[r].phase
  <2>1. "expired" \in WatchdogStates /\ NoteActivity(rec[r].watchdog) \in WatchdogStates
    BY <1>1, NoteType, SlowActivity DEF WatchdogStates
  <2>2. rec[r].suspensions = 0
    BY <1>1, SlowActivity DEF SlowRunNotice
  <2> QED
    BY <1>1, <1>2, <2>1, <2>2, SetSlow, SetWatchdog
<1>5. EmitRequest(r, "slow") \in Request /\ EmitRequest(r, "slow").op = "emit"
  BY DEF EmitRequest, Request
<1> QED
  BY <1>3, <1>4, <1>5, TouchStep DEF SlowRunNotice

LEMMA SuspensionStep ==
  ASSUME LifecycleInv, NEW r \in Runs, SuspendSlowRunNotice(r) \/ ResumeSlowRunNotice(r)
  PROVE  LifecycleInv'
<1>1. rec \in [Runs -> RunRecord] /\ rec[r] \in RunRecord /\ RecordOK(rec[r])
      /\ rec[r].suspensions \in Nat
  BY RecordType DEF RunRecord
<1>2. CASE SuspendSlowRunNotice(r)
  <2>1. PICK n : n = rec[r].suspensions + 1
    OBVIOUS
  <2>2. PICK y : y = [rec[r] EXCEPT !.slow = "off"]
    OBVIOUS
  <2>3. PICK x : x = [y EXCEPT !.suspensions = n]
    OBVIOUS
  <2>4. rec' = [rec EXCEPT ![r] = x]
    BY <1>1, <1>2, <2>1, <2>2, <2>3 DEF SuspendSlowRunNotice, RunRecord
  <2>5. n \in Nat /\ "off" \in WatchdogStates
    BY <1>1, <2>1 DEF WatchdogStates
  <2>6. /\ y \in RunRecord /\ RecordOK(y) /\ y.key = rec[r].key /\ y.phase = rec[r].phase
        /\ y.slow = "off"
    BY <1>1, <2>2, <2>5, SetSlow DEF RunRecord
  <2>7. y.phase # "starting"
    BY <1>2, <2>6 DEF SuspendSlowRunNotice, Live
  <2>8. x \in RunRecord /\ RecordOK(x) /\ x.key = rec[r].key /\ x.phase = rec[r].phase
    BY <2>5, <2>6, <2>7, <2>3 DEF RunRecord, RecordOK
  <2> QED
    BY <1>2, <2>4, <2>8, TouchStep DEF SuspendSlowRunNotice
<1>3. CASE ResumeSlowRunNotice(r)
  <2>1. PICK open : open = IF rec[r].suspensions > 0 THEN rec[r].suspensions - 1 ELSE 0
    OBVIOUS
  <2>2. open \in Nat /\ (open > 0 => rec[r].suspensions > 0)
    BY <1>1, <2>1
  <2>3. PICK x : x = [rec[r] EXCEPT !.suspensions = open,
                                    !.slow = IF open > 0 THEN @ ELSE SlowWindow]
    OBVIOUS
  <2>4. rec' = [rec EXCEPT ![r] = x]
    BY <1>1, <1>3, <2>1, <2>3 DEF ResumeSlowRunNotice
  <2>5. x \in RunRecord /\ RecordOK(x) /\ x.key = rec[r].key /\ x.phase = rec[r].phase
    BY <1>1, <1>3, <2>2, <2>3, NoteType DEF RunRecord, RecordOK, ResumeSlowRunNotice, Live
  <2> QED
    BY <1>3, <2>4, <2>5, TouchStep DEF ResumeSlowRunNotice
<1> QED
  BY <1>2, <1>3

LEMMA CancelStep ==
  ASSUME LifecycleInv, NEW r \in Runs,
         Cancel(r) \/ OnCancelRequested(r) \/ StopListening(r)
  PROVE  LifecycleInv'
<1>1. rec \in [Runs -> RunRecord] /\ rec[r] \in RunRecord /\ RecordOK(rec[r])
      /\ rec[r].told \in BOOLEAN /\ rec[r].listening \in BOOLEAN
      /\ rec[r].cancelRequested \in BOOLEAN
  BY RecordType DEF RunRecord
<1>2. CASE Cancel(r)
  <2>1. PICK b : b = (rec[r].told \/ rec[r].listening)
    OBVIOUS
  <2>2. b \in BOOLEAN /\ (rec[r].listening => b)
    BY <1>1, <2>1
  <2>3. PICK x : x = [rec[r] EXCEPT !.cancelRequested = TRUE, !.told = b]
    OBVIOUS
  <2>4. rec' = [rec EXCEPT ![r] = x]
    BY <1>1, <1>2, <2>1, <2>3 DEF Cancel
  <2>5. x \in RunRecord /\ RecordOK(x) /\ x.key = rec[r].key /\ x.phase = rec[r].phase
    BY <1>1, <2>2, <2>3 DEF RunRecord, RecordOK
  <2> QED
    BY <1>2, <2>4, <2>5, TouchStep DEF Cancel
<1>3. CASE OnCancelRequested(r)
  <2>1. PICK x : x = [rec[r] EXCEPT !.listening = TRUE, !.told = rec[r].cancelRequested]
    OBVIOUS
  <2>2. rec' = [rec EXCEPT ![r] = x]
    BY <1>1, <1>3, <2>1 DEF OnCancelRequested
  <2>3. x \in RunRecord /\ RecordOK(x) /\ x.key = rec[r].key /\ x.phase = rec[r].phase
    BY <1>1, <2>1 DEF RunRecord, RecordOK
  <2> QED
    BY <1>3, <2>2, <2>3, TouchStep DEF OnCancelRequested
<1>4. CASE StopListening(r)
  <2>1. PICK x : x = [rec[r] EXCEPT !.listening = FALSE, !.told = FALSE]
    OBVIOUS
  <2>2. rec' = [rec EXCEPT ![r] = x]
    BY <1>1, <1>4, <2>1 DEF StopListening
  <2>3. x \in RunRecord /\ RecordOK(x) /\ x.key = rec[r].key /\ x.phase = rec[r].phase
    BY <1>1, <2>1 DEF RunRecord, RecordOK
  <2> QED
    BY <1>4, <2>2, <2>3, TouchStep DEF StopListening
<1> QED
  BY <1>2, <1>3, <1>4

(* While the process is up, boot constrains nothing.                       *)
LEMMA UpBoot ==
  ASSUME NEW rc, NEW tm, NEW pk, NEW pend, NEW b, BootOK(rc, tm, pk, pend, b), b.phase = "up",
         NEW rc2, NEW tm2, NEW pk2, NEW pend2
  PROVE  BootOK(rc2, tm2, pk2, pend2, b)
BY DEF BootOK

LEMMA StartStep ==
  ASSUME LifecycleInv, NEW r \in Runs, NEW key \in IdemKeys \cup {NoKey},
         NEW watched \in WatchChoices, Start(r, key, watched)
  PROVE  LifecycleInv'
<1>1. rec \in [Runs -> RunRecord] /\ rec[r].phase = "absent" /\ r \notin timers
  BY RecordType DEF Start, Fresh, Present
<1>2. PICK x : x = NewRecord(key)
  OBVIOUS
<1>3. x \in RunRecord /\ RecordOK(x) /\ x.phase = "starting" /\ x.key = key
  BY <1>2, NewRecordType
<1>4. rec' = [rec EXCEPT ![r] = x] /\ index' = IF x.key = NoKey THEN index ELSE [index EXCEPT ![x.key] = r]
  BY <1>2, <1>3 DEF Start
<1>5. IndexOK(rec', index')
  BY <1>1, <1>3, <1>4, RegisterIndex DEF LifecycleInv, Shape
<1>6. /\ terminalOrder \in Seq(Runs) /\ IsInjective(terminalOrder) /\ timers \in SUBSET Runs
      /\ parked \in SUBSET Runs /\ r \notin ToSet(terminalOrder) /\ r \notin parked
  BY <1>1 DEF LifecycleInv, Shape, RetentionOK
<1>7. Shape(rec', index', terminalOrder, timers, parked)
  <2>1. PICK ix : ix = index'
    OBVIOUS
  <2>2. IndexOK([rec EXCEPT ![r] = x], ix)
    BY <1>4, <1>5, <2>1
  <2>3. ToSet(terminalOrder) = ToSet(terminalOrder) \ {r}
    BY <1>6
  <2>4. Shape([rec EXCEPT ![r] = x], ix, terminalOrder, timers, parked)
    BY <1>1, <1>3, <1>6, <2>2, <2>3, UpdateShape DEF LifecycleInv
  <2> QED
    BY <1>4, <2>1, <2>4
<1>8. Quiet(pending, r)
  BY <1>1, QuietPhase DEF LifecycleInv
<1>9. PendingOK(rec', pending) /\ rec'[r].phase = "starting"
  BY <1>1, <1>3, <1>4, <1>8, PendingTouch DEF LifecycleInv
<1>10. /\ StartRequest(r, watched) \in Request
       /\ StartRequest(r, watched).op = "start" /\ StartRequest(r, watched).run = r
  BY OptionsAssumption DEF StartRequest, Request
<1>11. PendingOK(rec', pending')
  BY <1>8, <1>9, <1>10, PendingAppend DEF Start
<1>12. BootOK(rec', timers', parked', pending', boot')
  BY UpBoot DEF LifecycleInv, Start, Up
<1>13. resumes' \in [Runs -> Nat]
  BY DEF LifecycleInv, Counters, Start
<1> QED
  BY <1>7, <1>11, <1>12, <1>13 DEF LifecycleInv, Counters, Start

LEMMA FinishStep ==
  ASSUME LifecycleInv, NEW r \in Runs, NEW resumable \in ResumableChoices, Finish(r, resumable)
  PROVE  LifecycleInv'
<1>1. rec \in [Runs -> RunRecord] /\ rec[r] \in RunRecord /\ RecordOK(rec[r]) /\ rec[r].phase = "running"
  BY RecordType DEF Finish
<1>2. PICK x : x = [rec[r] EXCEPT !.phase = "finishing"]
  OBVIOUS
<1>3. x \in RunRecord /\ RecordOK(x) /\ x.phase = "finishing" /\ x.key = rec[r].key
  BY <1>1, <1>2 DEF RunRecord, RecordOK, Phases
<1>4. rec' = [rec EXCEPT ![r] = x]
  BY <1>1, <1>2 DEF Finish
<1>5. Shape(rec', index, terminalOrder, timers, parked)
  BY <1>1, <1>3, <1>4, TouchShape DEF LifecycleInv
<1>6. Quiet(pending, r)
  BY <1>1, QuietPhase DEF LifecycleInv
<1>7. PendingOK(rec', pending) /\ rec'[r].phase = "finishing"
  BY <1>1, <1>3, <1>4, <1>6, PendingTouch DEF LifecycleInv
<1>8. /\ EndRequest(r, resumable) \in Request
      /\ EndRequest(r, resumable).op = "end" /\ EndRequest(r, resumable).run = r
  BY OptionsAssumption DEF EndRequest, Request
<1>9. PendingOK(rec', pending')
  BY <1>6, <1>7, <1>8, PendingAppend DEF Finish
<1>10. BootOK(rec', timers', parked', pending', boot')
  BY UpBoot DEF LifecycleInv, Finish, Up
<1> QED
  BY <1>5, <1>9, <1>10 DEF LifecycleInv, Counters, Finish

LEMMA RemoveFirstShorter ==
  ASSUME NEW s \in Seq(Runs), NEW e, IsInjective(s)
  PROVE  /\ RemoveFirst(s, e) \in Seq(Runs) /\ IsInjective(RemoveFirst(s, e))
         /\ ToSet(RemoveFirst(s, e)) = ToSet(s) \ {e}
         /\ Len(RemoveFirst(s, e)) <= Len(s)
<1>1. Len(s) \in Nat
  BY LenProperties
<1>2. CASE \E i \in 1 .. Len(s) : s[i] = e
  <2>1. Len(RemoveFirst(s, e)) = Len(s) - 1
    BY <1>2, RemoveFirstElements
  <2> QED
    BY <1>1, <2>1, RemoveFirstInSeq, RemoveFirstFromSet
<1>3. CASE ~\E i \in 1 .. Len(s) : s[i] = e
  <2>1. RemoveFirst(s, e) = s
    BY <1>3 DEF RemoveFirst
  <2> QED
    BY <1>1, <2>1, RemoveFirstInSeq, RemoveFirstFromSet
<1> QED
  BY <1>2, <1>3

(* The record a resume leaves.                                             *)
LEMMA ResumedRecord ==
  ASSUME NEW x \in RunRecord
  PROVE  LET y == [x EXCEPT !.phase = "running", !.resumable = FALSE, !.endId = 0,
                            !.cancelRequested = FALSE, !.told = FALSE, !.slow = SlowWindow,
                            !.suspensions = 0]
         IN  y \in RunRecord /\ RecordOK(y) /\ y.phase = "running" /\ y.key = x.key
<1> DEFINE a == [x EXCEPT !.phase = "running"]
           b == [a EXCEPT !.resumable = FALSE]
           c == [b EXCEPT !.endId = 0]
           d == [c EXCEPT !.cancelRequested = FALSE]
           e == [d EXCEPT !.told = FALSE]
           f == [e EXCEPT !.slow = SlowWindow]
           g == [f EXCEPT !.suspensions = 0]
<1>1. SlowWindow \in WatchdogStates
  BY NoteType DEF SlowWindow, WatchdogStates
<1>2. a \in RunRecord /\ a.phase = "running" /\ a.key = x.key
  BY DEF RunRecord, Phases
<1> HIDE DEF a
<1>3. b \in RunRecord /\ b.phase = "running" /\ b.key = x.key
  BY <1>2 DEF RunRecord
<1> HIDE DEF b
<1>4. c \in RunRecord /\ c.phase = "running" /\ c.key = x.key
  BY <1>3 DEF RunRecord
<1> HIDE DEF c
<1>5. d \in RunRecord /\ d.phase = "running" /\ d.key = x.key /\ d.cancelRequested = FALSE
  BY <1>4 DEF RunRecord
<1> HIDE DEF d
<1>6. e \in RunRecord /\ e.phase = "running" /\ e.key = x.key /\ e.cancelRequested = FALSE
  BY <1>5 DEF RunRecord
<1> HIDE DEF e
<1>7. f \in RunRecord /\ f.phase = "running" /\ f.key = x.key /\ f.cancelRequested = FALSE
  BY <1>1, <1>6 DEF RunRecord
<1> HIDE DEF f
<1>8. /\ g \in RunRecord /\ g.phase = "running" /\ g.key = x.key /\ g.cancelRequested = FALSE
      /\ g.suspensions = 0
  BY <1>7 DEF RunRecord
<1>9. RecordOK(g)
  BY <1>8 DEF RecordOK
<1> QED
  BY <1>8, <1>9 DEF a, b, c, d, e, f

LEMMA ResumeStep ==
  ASSUME LifecycleInv, NEW r \in Runs, Resume(r)
  PROVE  LifecycleInv'
<1>1. rec \in [Runs -> RunRecord] /\ rec[r] \in RunRecord /\ rec[r].phase = "terminal"
  BY RecordType DEF Resume
<1>2. PICK x : x = [rec[r] EXCEPT !.phase = "running", !.resumable = FALSE, !.endId = 0,
                                  !.cancelRequested = FALSE, !.told = FALSE,
                                  !.slow = SlowWindow, !.suspensions = 0]
  OBVIOUS
<1>3. x \in RunRecord /\ RecordOK(x) /\ x.phase = "running" /\ x.key = rec[r].key
  BY <1>1, <1>2, ResumedRecord
<1>4. rec' = [rec EXCEPT ![r] = x]
  BY <1>1, <1>2 DEF Resume, RunRecord
<1>5. /\ terminalOrder \in Seq(Runs) /\ IsInjective(terminalOrder) /\ timers \in SUBSET Runs
      /\ parked \in SUBSET Runs /\ index \in [IdemKeys -> Runs \cup {NoRun}] /\ IndexOK(rec, index)
  BY DEF LifecycleInv, Shape, RetentionOK, IndexOK
<1>6. PICK order, tm : order = terminalOrder' /\ tm = timers'
  OBVIOUS
<1>7. /\ order \in Seq(Runs) /\ IsInjective(order) /\ ToSet(order) = ToSet(terminalOrder) \ {r}
      /\ Len(order) <= Len(terminalOrder)
  BY <1>5, <1>6, RemoveFirstShorter DEF Resume
<1>8. tm \in SUBSET Runs /\ tm \ {r} = timers \ {r} /\ r \notin tm
  BY <1>5, <1>6 DEF Resume
<1>9. IndexOK([rec EXCEPT ![r] = x], index)
  BY <1>1, <1>3, <1>5 DEF IndexOK
<1>10. Shape([rec EXCEPT ![r] = x], index, order, tm, parked)
  BY <1>3, <1>5, <1>7, <1>8, <1>9, UpdateShape DEF LifecycleInv
<1>11. Len(order) <= MaxTerminalRuns
  <2>1. Len(order) \in Nat /\ Len(terminalOrder) \in Nat
    BY <1>5, <1>7, LenProperties
  <2> QED
    BY <1>7, <2>1, OptionsAssumption DEF LifecycleInv
<1>12. PendingOK(rec', pending)
  BY <1>1, <1>4, QuietPhase, PendingTouch DEF LifecycleInv
<1>13. BootOK(rec', timers', parked', pending', boot')
  BY UpBoot DEF LifecycleInv, Resume, Up
<1>14. resumes' \in [Runs -> Nat]
  <2>1. resumes \in [Runs -> Nat] /\ resumes' = [resumes EXCEPT ![r] = @ + 1]
    BY DEF LifecycleInv, Counters, Resume
  <2> QED
    BY <2>1
<1> QED
  BY <1>4, <1>6, <1>10, <1>11, <1>12, <1>13, <1>14 DEF LifecycleInv, Counters, Resume

LEMMA DropType ==
  ASSUME NEW l \in Log!LogType, NEW r \in Runs
  PROVE  DropIfConfigured(l, r) \in Log!LogType
BY DropFromType DEF DropIfConfigured

LEMMA RetentionStep ==
  ASSUME LifecycleInv, NEW r \in Runs, RetentionTimer(r)
  PROVE  LifecycleInv' /\ KeepsLive
<1>1. rec \in [Runs -> RunRecord] /\ rec[r] \in RunRecord /\ RecordOK(rec[r]) /\ r \in timers
  BY RecordType DEF RetentionTimer
<1>2. /\ terminalOrder \in Seq(Runs) /\ IsInjective(terminalOrder) /\ timers \in SUBSET Runs
      /\ parked \in SUBSET Runs /\ IndexOK(rec, index)
      /\ rec[r].phase \in {"terminal", "absent"} /\ r \notin parked
  BY <1>1 DEF LifecycleInv, Shape, RetentionOK
<1>3. PICK order, tm : order = terminalOrder' /\ tm = timers'
  OBVIOUS
<1>4. /\ order \in Seq(Runs) /\ IsInjective(order) /\ ToSet(order) = ToSet(terminalOrder) \ {r}
      /\ Len(order) <= Len(terminalOrder)
  BY <1>2, <1>3, RemoveFirstShorter DEF RetentionTimer
<1>5. tm \in SUBSET Runs /\ tm \ {r} = timers \ {r} /\ r \notin tm /\ tm \subseteq timers
  BY <1>2, <1>3 DEF RetentionTimer
<1>6. Len(order) <= MaxTerminalRuns
  <2>1. Len(order) \in Nat /\ Len(terminalOrder) \in Nat
    BY <1>2, <1>4, LenProperties
  <2> QED
    BY <1>4, <2>1, OptionsAssumption DEF LifecycleInv
<1>7. /\ Shape(rec', index', order, tm, parked) /\ log' \in Log!LogType
      /\ rec'[r].phase = "absent"
      /\ \A s \in Runs \ {r} : rec'[s] = rec[s]
  <2>1. CASE Present(r)
    <3>1. Shape([rec EXCEPT ![r] = NoRecord], Unindex(index, rec[r].key, r), order, tm, parked)
      BY <1>2, <1>4, <1>5, RemoveShape DEF LifecycleInv
    <3>2. rec' = [rec EXCEPT ![r] = NoRecord] /\ index' = Unindex(index, rec[r].key, r)
          /\ log' = DropIfConfigured(log, r)
      BY <2>1 DEF RetentionTimer
    <3> QED
      BY <1>1, <3>1, <3>2, NoRecordType, DropType DEF LifecycleInv
  <2>2. CASE ~Present(r)
    <3>1. [rec EXCEPT ![r] = rec[r]] = rec /\ rec[r].phase = "absent"
      BY <1>1, <2>2 DEF Present
    <3>2. IndexOK([rec EXCEPT ![r] = rec[r]], index)
      BY <1>2, <3>1
    <3>3. Shape([rec EXCEPT ![r] = rec[r]], index, order, tm, parked)
      BY <1>1, <1>2, <1>4, <1>5, <3>1, <3>2, UpdateShape DEF LifecycleInv
    <3> QED
      BY <2>2, <3>1, <3>3 DEF RetentionTimer, LifecycleInv
  <2> QED
    BY <2>1, <2>2
<1>8. Quiet(pending, r)
  BY <1>2, QuietPhase DEF LifecycleInv
<1>9. PendingOK(rec', pending)
  <2>1. PICK rc : rc = rec'
    OBVIOUS
  <2>2. \A s \in Runs : Quiet(pending, s) \/ rc[s].phase = rec[s].phase
    BY <1>7, <1>8, <2>1
  <2> QED
    BY <2>1, <2>2, PendingPhases DEF LifecycleInv
<1>10. BootOK(rec', tm, parked, pending, boot)
  <2>1. BootOK(rec, timers, parked, pending, boot)
    BY DEF LifecycleInv
  <2>2. boot \in Boots /\ boot.toScan \subseteq Runs /\ boot.orphans \subseteq Runs
    BY <2>1 DEF BootOK, Boots
  <2>3. r \notin boot.toScan /\ r \notin boot.orphans
    BY <1>1, <1>2, <2>1 DEF BootOK
  <2>4. \A s \in boot.toScan : rec'[s].phase = "absent" /\ s \notin tm
    BY <1>5, <1>7, <2>1, <2>2, <2>3 DEF BootOK
  <2>5. \A s \in boot.orphans : rec'[s].phase = "running"
    BY <1>7, <2>1, <2>2, <2>3 DEF BootOK
  <2>6. boot.phase # "up" =>
          \A s \in Runs : /\ rec'[s].phase \notin {"starting", "finishing"}
                          /\ rec'[s].phase = "running" => s \in boot.orphans
    BY <1>7, <2>1 DEF BootOK
  <2>7. /\ boot.phase = "up" => boot.toScan = {} /\ boot.orphans = {}
        /\ boot.phase # "up" => pending = << >> /\ parked = {}
    BY <2>1 DEF BootOK
  <2> QED
    BY ONLY <2>2, <2>4, <2>5, <2>6, <2>7 DEF BootOK
<1>11. KeepsLive
  BY <1>2, <1>7 DEF KeepsLive, Live
<1> QED
  BY <1>11, <1>3, <1>6, <1>7, <1>9, <1>10 DEF LifecycleInv, Counters, RetentionTimer

LEMMA WaitStep ==
  ASSUME LifecycleInv, NEW r \in Runs, WaitForTerminal(r) \/ AbortWait(r)
  PROVE  LifecycleInv'
<1>1. Shape(rec, index, terminalOrder, timers, parked')
  BY DEF LifecycleInv, Shape, WaitForTerminal, AbortWait
<1>2. BootOK(rec, timers, parked', pending, boot)
  BY DEF LifecycleInv, BootOK, WaitForTerminal, AbortWait, Up
<1> QED
  BY <1>1, <1>2 DEF LifecycleInv, Counters, WaitForTerminal, AbortWait

LEMMA CompactStep ==
  ASSUME LifecycleInv, NEW r \in Runs, CompactLog(r)
  PROVE  LifecycleInv'
BY CompactType DEF LifecycleInv, Counters, CompactLog

LEMMA CrashStep ==
  ASSUME LifecycleInv, Crash
  PROVE  LifecycleInv'
<1>1. rec' \in [Runs -> RunRecord] /\ \A r \in Runs : RecordOK(rec'[r]) /\ rec'[r].phase = "absent"
  BY NoRecordType DEF Crash
<1>2. IndexOK(rec', index')
  BY DEF Crash, IndexOK
<1>3. terminalOrder' \in Seq(Runs) /\ Len(terminalOrder') = 0 /\ ToSet(terminalOrder') = {}
      /\ IsInjective(terminalOrder')
  BY EmptySeq DEF Crash, ToSet, IsInjective
<1>4. Shape(rec', index', terminalOrder', timers', parked')
  BY <1>1, <1>2, <1>3 DEF Crash, Shape, RetentionOK
<1>5. pending' \in Seq(Request) /\ Len(pending') = 0
  BY EmptySeq DEF Crash
<1>6. PendingOK(rec', pending')
  BY <1>5 DEF PendingOK
<1>7. Log!Held(log) \subseteq Runs
  BY DEF Log!Held
<1>8. boot' \in Boots
  BY <1>7 DEF Crash, Boots
<1>9. BootOK(rec', timers', parked', pending', boot')
  BY <1>1, <1>7, <1>8 DEF Crash, BootOK
<1>10. Counters'
  BY DEF LifecycleInv, Counters, Crash
<1>11. Len(terminalOrder') <= MaxTerminalRuns
  BY <1>3, OptionsAssumption
<1> QED
  BY <1>4, <1>6, <1>9, <1>10, <1>11 DEF LifecycleInv, Crash

LEMMA BootDoneStep ==
  ASSUME LifecycleInv, BootDone
  PROVE  LifecycleInv'
<1>1. BootOK(rec, timers, parked, pending, boot')
  BY DEF LifecycleInv, BootOK, BootDone, Booted, Boots
<1> QED
  BY <1>1 DEF LifecycleInv, Counters, BootDone

-----------------------------------------------------------------------------
(* The continuations                                                       *)

(* trackTerminalRun: nobody's record changes but the run's and that of the *)
(* oldest terminal run.                                                    *)
LEMMA TrackStep ==
  ASSUME Shape(rec, index, terminalOrder, timers, parked),
         Len(terminalOrder) <= MaxTerminalRuns,
         NEW r \in Runs, r \notin ToSet(terminalOrder),
         NEW x \in RunRecord, RecordOK(x), x.phase = "terminal",
         NEW idx, IndexOK([rec EXCEPT ![r] = x], idx), NEW l \in Log!LogType,
         TrackTerminal(r, [rec EXCEPT ![r] = x], idx, l)
  PROVE  /\ Shape(rec', index', terminalOrder', timers', parked \ {r})
         /\ Len(terminalOrder') <= MaxTerminalRuns
         /\ log' \in Log!LogType
         /\ timers' = timers \cup {r}
         /\ rec'[r].phase = "terminal"
         /\ \A s \in Runs \ {r} : \/ rec'[s].phase = rec[s].phase
                                  \/ rec[s].phase = "terminal" /\ rec'[s].phase = "absent"
<1> DEFINE recs == [rec EXCEPT ![r] = x]
           all  == Append(terminalOrder, r)
           v    == Head(all)
<1>1. rec \in [Runs -> RunRecord] /\ terminalOrder \in Seq(Runs)
  BY DEF Shape, RetentionOK
<1>2. recs \in [Runs -> RunRecord] /\ recs[r] = x /\ \A s \in Runs \ {r} : recs[s] = rec[s]
  BY <1>1
<1>3. /\ Shape(recs, idx, all, timers \cup {r}, parked \ {r})
      /\ Len(all) > MaxTerminalRuns =>
           /\ v \in Runs /\ v # r /\ rec[v].phase = "terminal"
           /\ Shape([recs EXCEPT ![v] = NoRecord], Unindex(idx, recs[v].key, v),
                    Tail(all), timers \cup {r}, parked \ {r})
           /\ Len(Tail(all)) <= MaxTerminalRuns
  BY TrackShape
<1>4. TrackTerminal(r, recs, idx, l)
  OBVIOUS
<1> HIDE DEF recs
<1>5. timers' = timers \cup {r}
  BY <1>4 DEF TrackTerminal
<1>6. CASE Len(all) > MaxTerminalRuns
  <2>1. /\ terminalOrder' = Tail(all) /\ rec' = [recs EXCEPT ![v] = NoRecord]
        /\ index' = Unindex(idx, recs[v].key, v) /\ log' = DropIfConfigured(l, v)
    BY <1>4, <1>6 DEF TrackTerminal
  <2> HIDE DEF v, all
  <2>2. rec'[v].phase = "absent" /\ \A s \in Runs \ {v} : rec'[s] = recs[s]
    BY <1>2, <1>3, <1>6, <2>1, NoRecordType
  <2>3. log' \in Log!LogType
    BY <1>3, <1>6, <2>1, DropType
  <2>4. /\ rec'[r].phase = "terminal"
        /\ \A s \in Runs \ {r} : \/ rec'[s].phase = rec[s].phase
                                 \/ rec[s].phase = "terminal" /\ rec'[s].phase = "absent"
    BY <1>2, <1>3, <1>6, <2>2
  <2> QED
    BY <1>3, <1>5, <1>6, <2>1, <2>3, <2>4
<1>7. CASE ~(Len(all) > MaxTerminalRuns)
  <2>1. terminalOrder' = all /\ rec' = recs /\ index' = idx /\ log' = l
    BY <1>4, <1>7 DEF TrackTerminal
  <2>2. Len(all) \in Nat
    BY <1>1
  <2> HIDE DEF all
  <2>3. Len(terminalOrder') <= MaxTerminalRuns
    BY <1>7, <2>1, <2>2, OptionsAssumption
  <2> QED
    BY <1>2, <1>3, <1>5, <2>1, <2>3
<1> QED
  BY <1>6, <1>7

(* A registered run that is not terminal ends, with its entry in the log.  *)
LEMMA EndStep ==
  ASSUME LifecycleInv, NEW r \in Runs, rec[r].phase \in {"running", "finishing"},
         NEW resumable \in BOOLEAN,
         TrackTerminal(r, Terminated(r, resumable, EntryId(log, r)), index,
                       AppendToLog(log, r, "end", NoKey, resumable))
  PROVE  /\ Shape(rec', index', terminalOrder', timers', parked \ {r})
         /\ Len(terminalOrder') <= MaxTerminalRuns
         /\ log' \in Log!LogType
         /\ timers' = timers \cup {r}
         /\ rec'[r].phase = "terminal"
         /\ \A s \in Runs \ {r} : \/ rec'[s].phase = rec[s].phase
                                  \/ rec[s].phase = "terminal" /\ rec'[s].phase = "absent"
<1>1. /\ rec \in [Runs -> RunRecord] /\ rec[r] \in RunRecord /\ RecordOK(rec[r])
      /\ log \in Log!LogType /\ IndexOK(rec, index) /\ r \notin ToSet(terminalOrder)
  BY RecordType DEF LifecycleInv, Shape, RetentionOK
<1>2. PICK id : id = EntryId(log, r)
  OBVIOUS
<1>3. id \in Nat
  BY <1>1, <1>2, EntryIdType
<1>4. PICK a : a = [rec[r] EXCEPT !.phase = "terminal"]
  OBVIOUS
<1>5. PICK b : b = [a EXCEPT !.watchdog = "off"]
  OBVIOUS
<1>6. PICK c : c = [b EXCEPT !.slow = "off"]
  OBVIOUS
<1>7. PICK d : d = [c EXCEPT !.resumable = resumable]
  OBVIOUS
<1>8. PICK x : x = [d EXCEPT !.endId = id]
  OBVIOUS
<1>9. x \in RunRecord /\ RecordOK(x) /\ x.phase = "terminal" /\ x.key = rec[r].key
  <2>1. "off" \in WatchdogStates
    BY DEF WatchdogStates
  <2>2. a \in RunRecord /\ RecordOK(a) /\ a.phase = "terminal" /\ a.key = rec[r].key
    BY <1>1, <1>4 DEF RunRecord, Phases, RecordOK
  <2>3. b \in RunRecord /\ RecordOK(b) /\ b.phase = "terminal" /\ b.key = rec[r].key
    BY <1>5, <2>1, <2>2, SetWatchdog
  <2>4. c \in RunRecord /\ RecordOK(c) /\ c.phase = "terminal" /\ c.key = rec[r].key
    BY <1>6, <2>1, <2>3, SetSlow
  <2>5. d \in RunRecord /\ RecordOK(d) /\ d.phase = "terminal" /\ d.key = rec[r].key
    BY <1>7, <2>4 DEF RunRecord, RecordOK
  <2> QED
    BY <1>8, <1>3, <2>5 DEF RunRecord, RecordOK
<1>10. Terminated(r, resumable, EntryId(log, r)) = [rec EXCEPT ![r] = x]
  BY <1>1, <1>2, <1>4, <1>5, <1>6, <1>7, <1>8 DEF Terminated, RunRecord
<1>11. PICK idx, l : idx = index /\ l = AppendToLog(log, r, "end", NoKey, resumable)
  OBVIOUS
<1>12. l \in Log!LogType
  BY <1>1, <1>11, AppendToLogType
<1>13. IndexOK([rec EXCEPT ![r] = x], idx)
  BY <1>1, <1>9, <1>11 DEF IndexOK
<1>14. TrackTerminal(r, [rec EXCEPT ![r] = x], idx, l)
  BY <1>10, <1>11
<1> QED
  BY <1>1, <1>9, <1>12, <1>13, <1>14, TrackStep DEF LifecycleInv

(* What is known of the oldest request and of the rest.                    *)
LEMMA OldestRequest ==
  ASSUME LifecycleInv, pending # << >>, NEW q, q = Head(pending), NEW t, t = Tail(pending)
  PROVE  /\ Up /\ q \in Request /\ q.run \in Runs /\ q.resumable \in BOOLEAN
         /\ q.op = "start" => rec[q.run].phase = "starting"
         /\ q.op = "end" => rec[q.run].phase = "finishing"
         /\ PendingOK(rec, t)
         /\ q.op # "emit" => Quiet(t, q.run)
<1>1. Up
  BY DEF LifecycleInv, BootOK, Up
<1>2. q \in Request
  BY PendingTail DEF LifecycleInv
<1>3. q.run \in Runs /\ q.resumable \in BOOLEAN
  BY <1>2 DEF Request
<1> QED
  BY <1>1, <1>2, <1>3, PendingTail DEF LifecycleInv

LEMMA CommitStartStep ==
  ASSUME LifecycleInv, pending # << >>, NEW q, q = Head(pending), q.op = "start", CommitStart(q),
         UNCHANGED << boot, resumes, failures, crashes >>
  PROVE  LifecycleInv' /\ KeepsLive
<1>1. PICK r, t : r = q.run /\ t = Tail(pending)
  OBVIOUS
<1>2. Up /\ r \in Runs /\ rec[r].phase = "starting" /\ PendingOK(rec, t) /\ Quiet(t, r)
  BY <1>1, OldestRequest
<1>3. rec \in [Runs -> RunRecord] /\ rec[r] \in RunRecord /\ RecordOK(rec[r])
      /\ log \in Log!LogType
  BY <1>2, RecordType DEF LifecycleInv
<1>4. PICK w : w = IF q.watched THEN "armed" ELSE "off"
  OBVIOUS
<1>5. PICK a : a = [rec[r] EXCEPT !.phase = "running"]
  OBVIOUS
<1>6. PICK b : b = [a EXCEPT !.watchdog = w]
  OBVIOUS
<1>7. PICK x : x = [b EXCEPT !.slow = SlowWindow]
  OBVIOUS
<1>8. x \in RunRecord /\ RecordOK(x) /\ x.phase = "running" /\ x.key = rec[r].key
  <2>1. w \in WatchdogStates /\ SlowWindow \in WatchdogStates
    BY <1>4 DEF WatchdogStates, SlowWindow
  <2>2. /\ a \in RunRecord /\ RecordOK(a) /\ a.phase = "running" /\ a.key = rec[r].key
        /\ a.suspensions = 0
    BY <1>2, <1>3, <1>5 DEF RunRecord, Phases, RecordOK
  <2>3. /\ b \in RunRecord /\ RecordOK(b) /\ b.phase = "running" /\ b.key = rec[r].key
        /\ b.suspensions = 0
    BY <1>6, <2>1, <2>2, SetWatchdog
  <2> QED
    BY <1>7, <2>1, <2>3, SetSlow
<1>9. rec' = [rec EXCEPT ![r] = x]
  BY <1>1, <1>3, <1>4, <1>5, <1>6, <1>7 DEF CommitStart, RunRecord
<1>10. Shape(rec', index, terminalOrder, timers, parked)
  BY <1>2, <1>8, <1>9, TouchShape DEF LifecycleInv
<1>11. PendingOK(rec', t)
  BY <1>2, <1>3, <1>9, PendingTouch
<1>12. log' \in Log!LogType
  <2>1. rec[r].key \in IdemKeys \cup {NoKey}
    BY <1>3 DEF RunRecord
  <2>2. PICK key \in IdemKeys \cup {NoKey} : key = rec[r].key
    BY <2>1
  <2>3. log' = AppendToLog(log, r, "start", key, FALSE)
    BY <1>1, <2>2 DEF CommitStart
  <2> QED
    BY <1>2, <1>3, <2>3, AppendToLogType
<1>13. BootOK(rec', timers', parked', pending', boot')
  BY <1>2, UpBoot DEF LifecycleInv, Up
<1>14. KeepsLive
  BY <1>2, <1>3, <1>8, <1>9 DEF KeepsLive, Live
<1> QED
  BY <1>1, <1>14, <1>10, <1>11, <1>12, <1>13 DEF LifecycleInv, Counters, CommitStart

LEMMA CommitEmitStep ==
  ASSUME LifecycleInv, pending # << >>, NEW q, q = Head(pending), q.op = "emit", CommitEmit(q),
         UNCHANGED << boot, resumes, failures, crashes >>
  PROVE  LifecycleInv'
<1>1. PICK r, t : r = q.run /\ t = Tail(pending)
  OBVIOUS
<1>2. Up /\ r \in Runs /\ PendingOK(rec, t)
  BY <1>1, OldestRequest
<1>3. rec \in [Runs -> RunRecord] /\ rec[r] \in RunRecord /\ RecordOK(rec[r])
      /\ log \in Log!LogType
  BY <1>2, RecordType DEF LifecycleInv
<1>4. log' \in Log!LogType
  <2>1. log' = AppendToLog(log, r, "agent", NoKey, FALSE)
    BY <1>1 DEF CommitEmit
  <2> QED
    BY <1>2, <1>3, <2>1, AppendToLogType
<1>5. Shape(rec', index, terminalOrder, timers, parked) /\ PendingOK(rec', pending')
  <2>1. CASE q.by = "inactivity" /\ rec[r].phase = "running"
    <3>1. PICK x : x = [rec[r] EXCEPT !.phase = "finishing"]
      OBVIOUS
    <3>2. x \in RunRecord /\ RecordOK(x) /\ x.phase = "finishing" /\ x.key = rec[r].key
      BY <1>3, <3>1 DEF RunRecord, RecordOK, Phases
    <3>3. rec' = [rec EXCEPT ![r] = x] /\ pending' = Append(t, EndRequest(r, FALSE))
      BY <1>1, <1>3, <2>1, <3>1 DEF CommitEmit
    <3>4. Shape(rec', index, terminalOrder, timers, parked)
      BY <1>2, <2>1, <3>2, <3>3, TouchShape DEF LifecycleInv
    <3>5. Quiet(t, r)
      BY <1>2, <2>1, QuietPhase
    <3>6. PendingOK(rec', t) /\ rec'[r].phase = "finishing"
      BY <1>2, <1>3, <3>2, <3>3, <3>5, PendingTouch
    <3>7. /\ EndRequest(r, FALSE) \in Request
          /\ EndRequest(r, FALSE).op = "end" /\ EndRequest(r, FALSE).run = r
      BY <1>2 DEF EndRequest, Request
    <3> QED
      BY <3>3, <3>4, <3>5, <3>6, <3>7, PendingAppend
  <2>2. CASE ~(q.by = "inactivity" /\ rec[r].phase = "running")
    BY <1>1, <1>2, <2>2 DEF CommitEmit, LifecycleInv
  <2> QED
    BY <2>1, <2>2
<1>6. BootOK(rec', timers', parked', pending', boot')
  BY <1>2, UpBoot DEF LifecycleInv, Up
<1> QED
  BY <1>4, <1>5, <1>6 DEF LifecycleInv, Counters, CommitEmit

LEMMA CommitEndStep ==
  ASSUME LifecycleInv, pending # << >>, NEW q, q = Head(pending), q.op = "end", CommitEnd(q),
         UNCHANGED << boot, resumes, failures, crashes >>
  PROVE  LifecycleInv' /\ KeepsLive
<1>1. PICK r, t, resumable : r = q.run /\ t = Tail(pending) /\ resumable = q.resumable
  OBVIOUS
<1>2. /\ Up /\ r \in Runs /\ resumable \in BOOLEAN /\ rec[r].phase = "finishing"
      /\ PendingOK(rec, t) /\ Quiet(t, r)
  BY <1>1, OldestRequest
<1>3. TrackTerminal(r, Terminated(r, resumable, EntryId(log, r)), index,
                    AppendToLog(log, r, "end", NoKey, resumable))
  BY <1>1 DEF CommitEnd
<1>4. /\ Shape(rec', index', terminalOrder', timers', parked \ {r})
      /\ Len(terminalOrder') <= MaxTerminalRuns
      /\ log' \in Log!LogType
      /\ \A s \in Runs \ {r} : \/ rec'[s].phase = rec[s].phase
                               \/ rec[s].phase = "terminal" /\ rec'[s].phase = "absent"
  BY <1>2, <1>3, EndStep
<1>5. \A s \in Runs : rec[s].phase = "terminal" => Quiet(t, s)
  BY <1>2, QuietPhase
<1>6. PendingOK(rec', t)
  <2>1. PICK rc : rc = rec'
    OBVIOUS
  <2>2. \A s \in Runs : Quiet(t, s) \/ rc[s].phase = rec[s].phase
    BY <1>2, <1>4, <1>5, <2>1
  <2> QED
    BY <1>2, <2>1, <2>2, PendingPhases
<1>7. BootOK(rec', timers', parked', pending', boot')
  BY <1>2, UpBoot DEF LifecycleInv, Up
<1>8. rec'[r].phase = "terminal"
  BY <1>2, <1>3, EndStep
<1>9. KeepsLive
  BY <1>4, <1>8 DEF KeepsLive, Live
<1> QED
  BY <1>9, <1>1, <1>4, <1>6, <1>7 DEF LifecycleInv, Counters, CommitEnd

LEMMA CommitStep ==
  ASSUME LifecycleInv, Commit
  PROVE  LifecycleInv'
<1>1. PICK q : q = Head(pending)
  OBVIOUS
<1>2. CASE q.op = "start" /\ CommitStart(q)
  BY <1>1, <1>2, CommitStartStep DEF Commit
<1>3. CASE q.op = "emit" /\ CommitEmit(q)
  BY <1>1, <1>3, CommitEmitStep DEF Commit
<1>4. CASE q.op = "end" /\ CommitEnd(q)
  BY <1>1, <1>4, CommitEndStep DEF Commit
<1> QED
  BY <1>1, <1>2, <1>3, <1>4 DEF Commit

LEMMA FailStep ==
  ASSUME LifecycleInv, Fail
  PROVE  LifecycleInv' /\ KeepsLive
<1>1. PICK q, r, t : q = Head(pending) /\ r = q.run /\ t = Tail(pending)
  OBVIOUS
<1>2. /\ Up /\ r \in Runs /\ PendingOK(rec, t)
      /\ q.op = "start" => rec[r].phase = "starting"
      /\ q.op = "end" => rec[r].phase = "finishing"
      /\ q.op # "emit" => Quiet(t, r)
  BY <1>1, OldestRequest DEF Fail
<1>3. /\ rec \in [Runs -> RunRecord] /\ rec[r] \in RunRecord /\ RecordOK(rec[r])
      /\ terminalOrder \in Seq(Runs) /\ IsInjective(terminalOrder) /\ timers \in SUBSET Runs
  BY <1>2, RecordType DEF LifecycleInv, Shape, RetentionOK
<1>4. Shape(rec', index', terminalOrder, timers, parked) /\ PendingOK(rec', t)
      /\ UNCHANGED << log, terminalOrder, timers, parked >>
  <2>1. CASE q.op = "start" /\ FailStart(q)
    <3>1. rec' = [rec EXCEPT ![r] = NoRecord] /\ index' = Unindex(index, rec[r].key, r)
      BY <1>1, <2>1 DEF FailStart
    <3>2. r \notin parked /\ r \notin ToSet(terminalOrder)
      BY <1>2, <2>1 DEF LifecycleInv, Shape, RetentionOK
    <3>3. ToSet(terminalOrder) = ToSet(terminalOrder) \ {r}
      BY <3>2
    <3>4. Shape(rec', index', terminalOrder, timers, parked)
      BY <1>2, <1>3, <3>1, <3>2, <3>3, RemoveShape DEF LifecycleInv
    <3>5. PendingOK(rec', t)
      BY <1>2, <1>3, <2>1, <3>1, PendingTouch
    <3> QED
      BY <2>1, <3>4, <3>5 DEF FailStart
  <2>2. CASE q.op = "emit" /\ FailEmit(q)
    BY <1>2, <2>2 DEF FailEmit, LifecycleInv
  <2>3. CASE q.op = "end" /\ FailEnd(q)
    <3>1. PICK x : x = [rec[r] EXCEPT !.phase = "running"]
      OBVIOUS
    <3>2. x \in RunRecord /\ RecordOK(x) /\ x.phase = "running" /\ x.key = rec[r].key
      BY <1>3, <3>1 DEF RunRecord, RecordOK, Phases
    <3>3. rec' = [rec EXCEPT ![r] = x]
      BY <1>1, <1>3, <2>3, <3>1 DEF FailEnd
    <3>4. Shape(rec', index, terminalOrder, timers, parked)
      BY <1>2, <2>3, <3>2, <3>3, TouchShape DEF LifecycleInv
    <3>5. PendingOK(rec', t)
      BY <1>2, <1>3, <2>3, <3>3, PendingTouch
    <3> QED
      BY <2>3, <3>4, <3>5 DEF FailEnd
  <2> QED
    BY <1>1, <2>1, <2>2, <2>3 DEF Fail
<1>5. pending' = t
  BY <1>1 DEF Fail, FailStart, FailEmit, FailEnd
<1>6. BootOK(rec', timers', parked', pending', boot')
  BY <1>2, UpBoot DEF LifecycleInv, Up, Fail
<1>7. Counters'
  BY DEF LifecycleInv, Counters, Fail
<1>8. KeepsLive
  <2>1. CASE q.op = "start" /\ FailStart(q)
    BY <1>1, <1>2, <1>3, <2>1 DEF KeepsLive, Live, FailStart
  <2>2. CASE q.op = "emit" /\ FailEmit(q)
    BY <2>2 DEF KeepsLive, Live, FailEmit
  <2>3. CASE q.op = "end" /\ FailEnd(q)
    BY <1>1, <1>2, <1>3, <2>3 DEF KeepsLive, Live, FailEnd
  <2> QED
    BY <1>1, <2>1, <2>2, <2>3 DEF Fail
<1> QED
  BY <1>8, <1>4, <1>5, <1>6, <1>7 DEF LifecycleInv

-----------------------------------------------------------------------------
(* Rehydration                                                             *)

(* What holds while the process boots.                                     *)
LEMMA Booting ==
  ASSUME LifecycleInv, ~Up
  PROVE  /\ boot \in Boots /\ pending = << >> /\ parked = {}
         /\ \A r \in boot.toScan : r \in Runs /\ rec[r].phase = "absent" /\ r \notin timers
         /\ \A r \in boot.orphans : r \in Runs /\ rec[r].phase = "running"
         /\ \A r \in Runs : /\ rec[r].phase \notin {"starting", "finishing"}
                            /\ rec[r].phase = "running" => r \in boot.orphans
BY DEF LifecycleInv, BootOK, Boots, Up

LEMMA NothingPending ==
  ASSUME NEW rc
  PROVE  PendingOK(rc, << >>)
BY EmptySeq DEF PendingOK

(* Of the other runs, at most terminal ones are dropped.                   *)
OthersKept(rc, rc2, r) ==
  \A s \in Runs \ {r} : \/ rc2[s].phase = rc[s].phase
                        \/ rc[s].phase = "terminal" /\ rc2[s].phase = "absent"

(* The bookkeeping of a boot that restores or finishes one run.            *)
LEMMA BootMoves ==
  ASSUME NEW rc, NEW tm, NEW pk, NEW pend, NEW b, BootOK(rc, tm, pk, pend, b), b.phase # "up",
         NEW r \in Runs, NEW rc2, OthersKept(rc, rc2, r),
         NEW tm2 \in SUBSET Runs, tm2 \subseteq tm \cup {r},
         NEW toScan \in SUBSET Runs, NEW orphans \in SUBSET Runs,
         toScan = b.toScan \ {r}, orphans \ {r} = b.orphans \ {r},
         rc2[r].phase \in {"absent", "running", "terminal"},
         r \in orphans <=> rc2[r].phase = "running",
         NEW b2 \in Boots, b2 = [phase |-> "rehydrating", toScan |-> toScan, orphans |-> orphans]
  PROVE  BootOK(rc2, tm2, pk, pend, b2)
<1>1. b2 \in Boots /\ b2.phase = "rehydrating" /\ b2.toScan = toScan /\ b2.orphans = orphans
  BY DEF Boots
<1>2. b \in Boots /\ b.toScan \subseteq Runs /\ b.orphans \subseteq Runs
  BY DEF BootOK, Boots
<1>3. \A s \in toScan : rc2[s].phase = "absent" /\ s \notin tm2
  BY <1>2 DEF BootOK, OthersKept
<1>4. \A s \in orphans : rc2[s].phase = "running"
  BY <1>2 DEF BootOK, OthersKept
<1>5. \A s \in Runs : /\ rc2[s].phase \notin {"starting", "finishing"}
                      /\ rc2[s].phase = "running" => s \in orphans
  BY <1>2 DEF BootOK, OthersKept
<1>6. pend = << >> /\ pk = {}
  BY DEF BootOK
<1> QED
  BY ONLY <1>1, <1>3, <1>4, <1>5, <1>6 DEF BootOK

LEMMA FinishOrphanStep ==
  ASSUME LifecycleInv, FinishOrphan
  PROVE  LifecycleInv' /\ KeepsLive
<1>1. PICK r \in Runs :
        /\ r \in boot.orphans
        /\ TrackTerminal(r, Terminated(r, TRUE, EntryId(log, r)), index,
                         AppendToLog(log, r, "end", NoKey, TRUE))
        /\ boot' = [boot EXCEPT !.orphans = @ \ {r}]
  BY DEF FinishOrphan, First
<1>2. ~Up /\ boot.phase = "rehydrating"
  BY DEF FinishOrphan, Up
<1>3. rec[r].phase = "running" /\ boot \in Boots /\ pending = << >> /\ parked = {}
  BY <1>1, <1>2, Booting
<1>4. /\ Shape(rec', index', terminalOrder', timers', parked \ {r})
      /\ Len(terminalOrder') <= MaxTerminalRuns
      /\ log' \in Log!LogType
      /\ timers' = timers \cup {r}
      /\ rec'[r].phase = "terminal"
      /\ \A s \in Runs \ {r} : \/ rec'[s].phase = rec[s].phase
                               \/ rec[s].phase = "terminal" /\ rec'[s].phase = "absent"
  BY <1>1, <1>3, EndStep
<1>5. parked \ {r} = parked
  BY <1>3
<1>6. PICK rc, tm, b, orphans, toScan :
        /\ rc = rec' /\ tm = timers' /\ b = boot'
        /\ orphans = boot.orphans \ {r} /\ toScan = boot.toScan
  OBVIOUS
<1>7. b = [phase |-> "rehydrating", toScan |-> toScan, orphans |-> orphans]
  BY <1>1, <1>2, <1>3, <1>6 DEF Boots
<1>8. orphans \in SUBSET Runs /\ toScan \in SUBSET Runs /\ toScan = boot.toScan \ {r}
  <2>1. r \notin boot.toScan
    BY <1>2, <1>3, Booting
  <2> QED
    BY <1>3, <1>6, <2>1 DEF Boots
<1>9. BootOK(rc, tm, parked, pending, b)
  <2>1. BootOK(rec, timers, parked, pending, boot) /\ boot.phase # "up"
    BY <1>2 DEF LifecycleInv
  <2>2. orphans \ {r} = boot.orphans \ {r} /\ r \notin orphans /\ rc[r].phase = "terminal"
        /\ tm \subseteq timers \cup {r} /\ tm \in SUBSET Runs /\ b \in Boots
    BY <1>4, <1>6, <1>7, <1>8 DEF Shape, RetentionOK, Boots
  <2>3. OthersKept(rec, rc, r)
    BY <1>4, <1>6 DEF OthersKept
  <2>4. rc[r].phase \in {"absent", "running", "terminal"} /\ (r \in orphans <=> rc[r].phase = "running")
    BY <2>2
  <2> QED
    BY <1>7, <1>8, <2>1, <2>2, <2>3, <2>4, BootMoves
<1>10. PendingOK(rec', pending)
  BY <1>3, NothingPending
<1>11. KeepsLive
  BY <1>4 DEF KeepsLive, Live
<1> QED
  BY <1>11, <1>4, <1>5, <1>6, <1>9, <1>10 DEF LifecycleInv, Counters, FinishOrphan

LEMMA RehydrateStep ==
  ASSUME LifecycleInv, RehydrateOne
  PROVE  LifecycleInv' /\ KeepsLive
<1> DEFINE Entries(r) == Log!Replay(log, r, Log!NullCursor).entries
           Restores(r, entries) ==
             LET new  == RehydratedRecord(entries)
                 recs == [rec EXCEPT ![r] = new]
                 idx  == IF new.key = NoKey THEN index ELSE [index EXCEPT ![new.key] = r]
                 live == new.phase = "running"
             IN  IF entries = << >>
                   THEN /\ boot' = [boot EXCEPT !.toScan = @ \ {r}]
                        /\ UNCHANGED << log, rec, index, terminalOrder, timers >>
                   ELSE /\ boot' = [boot EXCEPT !.toScan = @ \ {r},
                                                !.orphans = IF live THEN @ \cup {r} ELSE @]
                        /\ IF live
                             THEN /\ rec' = recs /\ index' = idx
                                  /\ UNCHANGED << log, terminalOrder, timers >>
                             ELSE TrackTerminal(r, recs, idx, log)
<1>1. PICK r \in Runs : \E entries :
        r \in boot.toScan /\ entries = Entries(r) /\ Restores(r, entries)
  BY DEF RehydrateOne, First
<1>2. PICK entries : r \in boot.toScan /\ entries = Entries(r) /\ Restores(r, entries)
  BY <1>1
<1> HIDE DEF Entries
<1>3. ~Up /\ boot.phase = "rehydrating"
  BY DEF RehydrateOne, Up
<1>4. /\ rec[r].phase = "absent" /\ r \notin timers /\ boot \in Boots
      /\ pending = << >> /\ parked = {} /\ r \notin boot.orphans
  BY <1>2, <1>3, Booting
<1>5. /\ rec \in [Runs -> RunRecord] /\ log \in Log!LogType /\ IndexOK(rec, index)
      /\ terminalOrder \in Seq(Runs) /\ IsInjective(terminalOrder) /\ timers \in SUBSET Runs
      /\ ToSet(terminalOrder) = {s \in Runs : rec[s].phase = "terminal"}
      /\ Shape(rec, index, terminalOrder, timers, parked)
      /\ BootOK(rec, timers, parked, pending, boot)
  BY DEF LifecycleInv, Shape, RetentionOK
<1>6. entries \in Seq(Log!Entry)
  BY <1>2, <1>5, ReplayType DEF Entries
<1>7. PICK x : x = RehydratedRecord(entries)
  OBVIOUS
<1>8. x \in RunRecord /\ RecordOK(x) /\ x.phase \in {"running", "terminal"}
  BY <1>6, <1>7, RehydratedType
<1>9. PICK idx : idx = IF x.key = NoKey THEN index ELSE [index EXCEPT ![x.key] = r]
  OBVIOUS
<1>10. IndexOK([rec EXCEPT ![r] = x], idx)
  BY <1>4, <1>5, <1>8, <1>9, RegisterIndex
<1>11. PICK rc, tm, b, toScan, orphans :
         /\ rc = rec' /\ tm = timers' /\ b = boot' /\ toScan = boot.toScan \ {r}
         /\ orphans = IF entries # << >> /\ x.phase = "running" THEN boot.orphans \cup {r}
                                                                ELSE boot.orphans
  OBVIOUS
<1>12. toScan \in SUBSET Runs /\ orphans \in SUBSET Runs /\ orphans \ {r} = boot.orphans \ {r}
  BY <1>4, <1>11 DEF Boots
<1>13. b = [phase |-> "rehydrating", toScan |-> toScan, orphans |-> orphans]
  <2>1. CASE entries = << >>
    <3>1. b = [boot EXCEPT !.toScan = @ \ {r}]
      BY <1>2, <1>11, <2>1
    <3> QED
      BY <1>3, <1>4, <1>11, <2>1, <3>1 DEF Boots
  <2>2. CASE entries # << >> /\ x.phase = "running"
    <3>1. b = [boot EXCEPT !.toScan = @ \ {r}, !.orphans = @ \cup {r}]
      BY <1>2, <1>7, <1>11, <2>2
    <3> QED
      BY <1>3, <1>4, <1>11, <2>2, <3>1 DEF Boots
  <2>3. CASE entries # << >> /\ x.phase # "running"
    <3>1. b = [boot EXCEPT !.toScan = @ \ {r}, !.orphans = @]
      BY <1>2, <1>7, <1>11, <2>3
    <3> QED
      BY <1>3, <1>4, <1>11, <2>3, <3>1 DEF Boots
  <2> QED
    BY <2>1, <2>2, <2>3
<1>14. /\ Shape(rec', index', terminalOrder', tm, parked)
       /\ Len(terminalOrder') <= MaxTerminalRuns /\ log' \in Log!LogType
       /\ tm \subseteq timers \cup {r}
       /\ rc[r].phase \in {"absent", "running", "terminal"}
       /\ r \in orphans <=> rc[r].phase = "running"
       /\ OthersKept(rec, rc, r)
  <2>1. CASE entries = << >>
    BY <1>2, <1>4, <1>5, <1>11, <2>1 DEF OthersKept, LifecycleInv
  <2>2. CASE entries # << >> /\ x.phase = "running"
    <3>1. /\ rec' = [rec EXCEPT ![r] = x] /\ index' = idx
          /\ UNCHANGED << log, terminalOrder, timers >>
      BY <1>2, <1>7, <1>9, <2>2
    <3>2. ToSet(terminalOrder) = ToSet(terminalOrder) \ {r} /\ parked \in SUBSET Runs
      BY <1>4, <1>5
    <3>3. Shape([rec EXCEPT ![r] = x], idx, terminalOrder, timers, parked)
      BY <1>4, <1>5, <1>8, <1>10, <2>2, <3>2, UpdateShape
    <3>4. rc[r] = x /\ \A s \in Runs \ {r} : rc[s] = rec[s]
      BY <1>5, <1>11, <3>1
    <3> QED
      BY <1>11, <2>2, <3>1, <3>3, <3>4 DEF OthersKept, LifecycleInv
  <2>3. CASE entries # << >> /\ x.phase # "running"
    <3>1. TrackTerminal(r, [rec EXCEPT ![r] = x], idx, log)
      BY <1>2, <1>7, <1>9, <2>3
    <3>2. PICK l : l = log
      OBVIOUS
    <3>3. TrackTerminal(r, [rec EXCEPT ![r] = x], idx, l) /\ l \in Log!LogType
          /\ r \notin ToSet(terminalOrder) /\ x.phase = "terminal"
      BY <1>4, <1>5, <1>8, <2>3, <3>1, <3>2
    <3>4. /\ Shape(rec', index', terminalOrder', timers', parked \ {r})
          /\ Len(terminalOrder') <= MaxTerminalRuns
          /\ log' \in Log!LogType
          /\ timers' = timers \cup {r}
          /\ rec'[r].phase = "terminal"
          /\ \A s \in Runs \ {r} : \/ rec'[s].phase = rec[s].phase
                                   \/ rec[s].phase = "terminal" /\ rec'[s].phase = "absent"
      BY <1>5, <1>8, <1>10, <3>3, TrackStep DEF LifecycleInv
    <3>5. parked \ {r} = parked
      BY <1>4
    <3> QED
      BY <1>4, <1>11, <2>3, <3>4, <3>5 DEF OthersKept
  <2> QED
    BY <1>8, <2>1, <2>2, <2>3
<1>15. tm \in SUBSET Runs /\ b \in Boots
  BY <1>12, <1>13, <1>14 DEF Shape, RetentionOK, Boots
<1>16. boot.phase # "up"
  BY <1>3
<1>17. BootOK(rc, tm, parked, pending, b)
  <2>1. toScan = boot.toScan \ {r} /\ BootOK(rec, timers, parked, pending, boot)
    BY <1>5, <1>11
  <2>2. /\ OthersKept(rec, rc, r) /\ tm \subseteq timers \cup {r}
        /\ rc[r].phase \in {"absent", "running", "terminal"}
        /\ r \in orphans <=> rc[r].phase = "running"
    BY <1>14
  <2> QED
    BY <1>12, <1>13, <1>15, <1>16, <2>1, <2>2, BootMoves
<1>18. PendingOK(rec', pending)
  BY <1>4, NothingPending
<1>19. KeepsLive
  BY <1>4, <1>11, <1>14 DEF KeepsLive, Live, OthersKept
<1> QED
  BY <1>19, <1>11, <1>14, <1>17, <1>18 DEF LifecycleInv, Counters, RehydrateOne

-----------------------------------------------------------------------------
(* Theorems                                                                *)

LEMMA NextInv == LifecycleInv /\ [Next]_vars => LifecycleInv'
<1> SUFFICES ASSUME LifecycleInv, [Next]_vars PROVE LifecycleInv'
  OBVIOUS
<1>1. CASE \E r \in Runs, key \in IdemKeys \cup {NoKey}, watched \in WatchChoices :
             Start(r, key, watched)
  BY <1>1, StartStep
<1>2. CASE \E r \in Runs, kind \in {"agent", "stdout"} : Emit(r, kind)
  BY <1>2, EmitStep
<1>3. CASE \E r \in Runs, resumable \in ResumableChoices : Finish(r, resumable)
  BY <1>3, FinishStep
<1>4. CASE Commit \/ Fail
  BY <1>4, CommitStep, FailStep
<1>5. CASE \E r \in Runs : Resume(r) \/ RetentionTimer(r)
  BY <1>5, ResumeStep, RetentionStep
<1>6. CASE \E r \in Runs : Cancel(r) \/ OnCancelRequested(r) \/ StopListening(r)
  BY <1>6, CancelStep
<1>7. CASE \E r \in Runs : WaitForTerminal(r) \/ AbortWait(r) \/ CompactLog(r)
  BY <1>7, WaitStep, CompactStep
<1>8. CASE \E r \in Runs : InactivityTimeout(r) \/ SlowRunNotice(r)
  BY <1>8, InactivityStep, NoticeStep
<1>9. CASE \E r \in Runs : SuspendSlowRunNotice(r) \/ ResumeSlowRunNotice(r)
  BY <1>9, SuspensionStep
<1>10. CASE Crash \/ RehydrateOne \/ FinishOrphan \/ BootDone
  BY <1>10, CrashStep, RehydrateStep, FinishOrphanStep, BootDoneStep
<1>11. CASE UNCHANGED vars
  BY <1>11 DEF vars, LifecycleInv, Counters
<1> QED
  BY <1>1, <1>2, <1>3, <1>4, <1>5, <1>6, <1>7, <1>8, <1>9, <1>10, <1>11 DEF Next

LEMMA InvMeans ==
  ASSUME LifecycleInv
  PROVE  /\ RunLifecycleTypeOK /\ IndexSound /\ TerminalBookkeeping
         /\ NoStrandedWaiter /\ SuspendedNoticeIsOff /\ CancelReachesDriver
<1>1. RunLifecycleTypeOK
  BY DEF LifecycleInv, Shape, IndexOK, RetentionOK, PendingOK, BootOK, Counters,
         RunLifecycleTypeOK
<1>2. IndexSound
  BY DEF LifecycleInv, Shape, IndexOK, IndexSound, Present
<1>3. TerminalBookkeeping
  BY DEF LifecycleInv, Shape, RetentionOK, TerminalBookkeeping, Live
<1>4. NoStrandedWaiter
  BY DEF LifecycleInv, Shape, NoStrandedWaiter, Live
<1>5. SuspendedNoticeIsOff /\ CancelReachesDriver
  BY DEF LifecycleInv, Shape, RecordOK, SuspendedNoticeIsOff, CancelReachesDriver
<1> QED
  BY <1>1, <1>2, <1>3, <1>4, <1>5

LEMMA InvHolds == Spec => []LifecycleInv
BY InitInv, NextInv, PTL DEF Spec

(* Every variable of the registry keeps its type: no record is half        *)
(* written, whatever interleaves with the appends in flight.               *)
THEOREM RegistryTypeIsCorrect == Spec => []RunLifecycleTypeOK
BY InvHolds, InvMeans, PTL

(* The replay lookup of start never meets a missing run: an indexed key    *)
(* names a present record that carries it, through rollbacks, evictions by *)
(* timer and by cap, restarts and resumes.                                 *)
THEOREM IndexIsSound == Spec => []IndexSound
BY InvHolds, InvMeans, PTL

(* The retention list is the terminal runs, each once, within the cap,     *)
(* each with its timer, and no timer is armed for a run that is not over.  *)
THEOREM RetentionIsExact == Spec => []TerminalBookkeeping
BY InvHolds, InvMeans, PTL

(* A caller of waitForTerminal is parked on a live run only, so an end, an *)
(* abort or the death of the process is still to come for it.              *)
THEOREM WaitersAreNotStranded == Spec => []NoStrandedWaiter
BY InvHolds, InvMeans, PTL

(* The slow-run notice is silent as long as any suspension is open.        *)
THEOREM SuspensionSilences == Spec => []SuspendedNoticeIsOff
BY InvHolds, InvMeans, PTL

(* A driver that listens knows of every cancellation request, whether it   *)
(* subscribed before the request or after it.                              *)
THEOREM CancellationArrives == Spec => []CancelReachesDriver
BY InvHolds, InvMeans, PTL

(* No step but a crash takes the record of a live run away.                *)
LEMMA NextKeepsLive ==
  ASSUME LifecycleInv, [Next]_vars, crashes' = crashes
  PROVE  KeepsLive
<1>1. /\ rec \in [Runs -> RunRecord] /\ crashes \in Nat
      /\ \A s \in Runs : rec[s] \in RunRecord
  BY DEF LifecycleInv, Shape, Counters
<1>2. ASSUME rec' = rec PROVE KeepsLive
  BY <1>2 DEF KeepsLive, Live
<1>3. ASSUME NEW r \in Runs, NEW key \in IdemKeys \cup {NoKey}, NEW watched, Start(r, key, watched)
      PROVE  KeepsLive
  <2>1. rec' = [rec EXCEPT ![r] = NewRecord(key)] /\ NewRecord(key).phase = "starting"
    BY <1>3, NewRecordType DEF Start
  <2> QED
    BY <1>1, <2>1 DEF KeepsLive, Live
<1>4. ASSUME NEW r \in Runs, NEW kind, Emit(r, kind) PROVE KeepsLive
  BY <1>1, <1>4 DEF Emit, KeepsLive, Live, RunRecord
<1>5. ASSUME NEW r \in Runs, NEW resumable, Finish(r, resumable) PROVE KeepsLive
  BY <1>1, <1>5 DEF Finish, KeepsLive, Live, RunRecord
<1>6. ASSUME Commit PROVE KeepsLive
  <2>1. PICK q : q = Head(pending)
    OBVIOUS
  <2>2. CASE q.op = "start" /\ CommitStart(q)
    BY <1>6, <2>1, <2>2, CommitStartStep DEF Commit
  <2>3. CASE q.op = "emit" /\ CommitEmit(q)
    <3>1. rec' = rec \/ rec' = [rec EXCEPT ![q.run].phase = "finishing"]
      BY <2>3, Zenon DEF CommitEmit
    <3> QED
      BY <1>1, <3>1 DEF KeepsLive, Live, RunRecord
  <2>4. CASE q.op = "end" /\ CommitEnd(q)
    BY <1>6, <2>1, <2>4, CommitEndStep DEF Commit
  <2> QED
    BY <1>6, <2>1, <2>2, <2>3, <2>4 DEF Commit
<1>7. ASSUME NEW r \in Runs, Resume(r) PROVE KeepsLive
  BY <1>1, <1>7 DEF Resume, KeepsLive, Live, RunRecord
<1>8. ASSUME NEW r \in Runs, Cancel(r) \/ OnCancelRequested(r) \/ StopListening(r)
      PROVE  KeepsLive
  BY <1>1, <1>8 DEF Cancel, OnCancelRequested, StopListening, KeepsLive, Live, RunRecord
<1>9. ASSUME NEW r \in Runs, InactivityTimeout(r) \/ SlowRunNotice(r) PROVE KeepsLive
  <2>1. \/ \E w : rec' = [rec EXCEPT ![r].watchdog = w]
        \/ \E w : rec' = [rec EXCEPT ![r].slow = w]
    BY <1>9, Zenon DEF InactivityTimeout, SlowRunNotice
  <2> QED
    BY <1>1, <2>1 DEF KeepsLive, Live, RunRecord
<1>10. ASSUME NEW r \in Runs, SuspendSlowRunNotice(r) \/ ResumeSlowRunNotice(r)
       PROVE  KeepsLive
  BY <1>1, <1>10 DEF SuspendSlowRunNotice, ResumeSlowRunNotice, KeepsLive, Live, RunRecord
<1>11. ASSUME Crash PROVE FALSE
  BY <1>1, <1>11 DEF Crash
<1>12. ASSUME NEW r \in Runs, WaitForTerminal(r) \/ AbortWait(r) \/ CompactLog(r)
       PROVE  KeepsLive
  BY <1>2, <1>12 DEF WaitForTerminal, AbortWait, CompactLog
<1>13. ASSUME BootDone \/ UNCHANGED vars PROVE KeepsLive
  BY <1>2, <1>13 DEF BootDone, vars
<1> QED
  BY <1>3, <1>4, <1>5, <1>6, <1>7, <1>8, <1>9, <1>10, <1>11, <1>12, <1>13, FailStep,
     RetentionStep, RehydrateStep, FinishOrphanStep DEF Next

(* Only the death of the process takes the record of a live run away: not  *)
(* the retention timer of its previous attempt, not the cap.               *)
THEOREM LiveRecordsAreKept == Spec => LiveRecordsKept
<1>1. LifecycleInv /\ [Next]_vars =>
        [\A r \in Runs : Live(r) /\ rec'[r].phase = "absent" => crashes' # crashes]_vars
  BY NextKeepsLive DEF KeepsLive
<1> QED
  BY <1>1, InvHolds, PTL DEF Spec, LiveRecordsKept

(* Only boot's last step brings the process up.                            *)
LEMMA OnlyBootDone ==
  ASSUME LifecycleInv, [Next]_vars, ~Up, boot'.phase = "up"
  PROVE  \A r \in Runs : ~Live(r)
<1>1. BootDone
  <2>1. ASSUME boot' = boot PROVE FALSE
    BY <2>1 DEF Up
  <2>2. CASE Crash
    BY <2>2 DEF Crash
  <2>3. CASE RehydrateOne
    <3>1. boot.phase = "rehydrating" /\ boot \in Boots
      BY <2>3 DEF RehydrateOne, LifecycleInv, BootOK
    <3>2. boot'.phase = boot.phase
      BY <2>3, <3>1 DEF RehydrateOne, Boots
    <3> QED
      BY <3>1, <3>2
  <2>4. CASE FinishOrphan
    <3>1. boot.phase = "rehydrating" /\ boot \in Boots
      BY <2>4 DEF FinishOrphan, LifecycleInv, BootOK
    <3>2. boot'.phase = boot.phase
      BY <2>4, <3>1 DEF FinishOrphan, Boots
    <3> QED
      BY <3>1, <3>2
  <2> QED
    BY <2>1, <2>2, <2>3, <2>4 DEF Next, vars, Start, Emit, Finish, Commit, Fail, Resume, Cancel,
       OnCancelRequested, StopListening, WaitForTerminal, AbortWait, RetentionTimer,
       InactivityTimeout, SlowRunNotice, SuspendSlowRunNotice, ResumeSlowRunNotice, CompactLog
<1>2. boot.orphans = {}
  BY <1>1 DEF BootDone
<1> QED
  BY <1>2, Booting DEF Live

(* When a boot hands the registry over, every run the previous process     *)
(* left without an end has been finished.                                  *)
THEOREM BootFinishesOrphans == Spec => BootLeavesNoOrphan
<1>1. LifecycleInv /\ [Next]_vars =>
        [~Up /\ boot'.phase = "up" => \A r \in Runs : ~Live(r)]_vars
  BY OnlyBootDone
<1> QED
  BY <1>1, InvHolds, PTL DEF Spec, BootLeavesNoOrphan

-----------------------------------------------------------------------------
(* What becomes of one run's log                                           *)

(* rl2 is rl after an event was recorded in it.                            *)
Recorded(rl, event, rl2) ==
  \E data : rl2 = Log!Record(rl, Log!NewEntry(rl, event, data, NoKey))

(* rl2 is rl, compacted perhaps: nothing recorded, the last entry kept.    *)
Kept(rl, rl2) ==
  /\ rl2.held = rl.held /\ rl2.history = rl.history /\ rl2.nextId = rl.nextId
  /\ Log!LastEvent(rl2.entries) = Log!LastEvent(rl.entries)

(* An append records in its run; only the run cap of the in-memory log     *)
(* touches another one.                                                    *)
LEMMA AppendEffect ==
  ASSUME NEW l \in Log!LogType, NEW r \in Runs, NEW event, NEW key, NEW resumable,
         NEW l2, l2 = AppendToLog(l, r, event, key, resumable), NEW s \in Runs
  PROVE  \/ InMemory /\ l2.runs[s] = Log!NoRunLog
         \/ s # r /\ l2.runs[s] = l.runs[s]
         \/ s = r /\ Recorded(l.runs[r], event, l2.runs[r])
<1> DEFINE entry == Log!NewEntry(l.runs[r], event, [key |-> key, resumable |-> resumable], NoKey)
           runs  == [l.runs EXCEPT ![r] = Log!Record(l.runs[r], entry)]
           ended == Log!NoteRunPhase(l.ended, r, event)
<1>1. l.runs \in [Runs -> Log!RunLog]
  BY DEF Log!LogType
<1>2. l2 = IF InMemory THEN Log!EnforceRunCap([runs |-> runs, ended |-> ended])
                       ELSE [runs |-> runs, ended |-> << >>]
  BY DEF AppendToLog, Log!AppendTo, Log!IsDuplicate
<1>3. /\ s # r => runs[s] = l.runs[s]
      /\ s = r => Recorded(l.runs[r], event, runs[r])
  BY <1>1, Zenon DEF Recorded
<1> HIDE DEF runs, ended
<1>4. CASE InMemory
  <2> DEFINE before == [runs |-> runs, ended |-> ended]
             excess == Log!Cardinality(Log!Held(before)) - MaxRuns
             n      == IF excess <= 0 THEN 0
                       ELSE IF excess < Len(ended) THEN excess ELSE Len(ended)
             gone   == {ended[i] : i \in 1 .. n}
  <2>1. l2.runs = Log!Forget(before, gone)
    BY <1>2, <1>4 DEF Log!EnforceRunCap
  <2> HIDE DEF gone
  <2>2. l2.runs[s] = IF s \in gone THEN Log!NoRunLog ELSE runs[s]
    BY <2>1 DEF Log!Forget
  <2> QED
    BY <1>3, <1>4, <2>2
<1>5. CASE ~InMemory
  BY <1>2, <1>3, <1>5
<1> QED
  BY <1>4, <1>5

LEMMA DropEffect ==
  ASSUME NEW l \in Log!LogType, NEW r, NEW s \in Runs
  PROVE  \/ DropIfConfigured(l, r).runs[s] = l.runs[s]
         \/ s = r /\ DropIfConfigured(l, r).runs[s] = Log!NoRunLog
BY DEF DropIfConfigured, Log!DropFrom, Log!Forget

LEMMA CompactEffect ==
  ASSUME NEW l \in Log!LogType, NEW r \in Runs, NEW s \in Runs
  PROVE  Kept(l.runs[s], Log!CompactRun(l, r).runs[s])
<1>1. PICK rl : rl = l.runs[r]
  OBVIOUS
<1>2. rl \in Log!RunLog /\ rl.entries \in Seq(Log!Entry)
  BY <1>1 DEF Log!LogType, Log!RunLog
<1>3. PICK kept : kept = Log!Newest(rl.entries, 1)
  OBVIOUS
<1>4. PICK rl2 : rl2 = [rl EXCEPT !.entries = kept, !.dedupe = Log!EvidenceIn(rl.dedupe, kept),
                                  !.compaction = FALSE]
  OBVIOUS
<1>5. Log!CompactRun(l, r).runs[s] = IF s = r THEN rl2 ELSE l.runs[s]
  BY <1>1, <1>3, <1>4 DEF Log!CompactRun, Log!LogType
<1>6. /\ rl2.held = rl.held /\ rl2.history = rl.history /\ rl2.nextId = rl.nextId
      /\ rl2.entries = kept
  BY <1>2, <1>4 DEF Log!RunLog
<1>7. Log!LastEvent(kept) = Log!LastEvent(rl.entries)
  <2>1. Len(rl.entries) \in Nat
    BY <1>2, LenProperties
  <2>2. CASE Len(rl.entries) > 1
    <3>1. kept = SubSeq(rl.entries, Len(rl.entries), Len(rl.entries))
      BY <1>3, <2>1, <2>2 DEF Log!Newest
    <3>2. Len(kept) = 1 /\ kept[1] = rl.entries[Len(rl.entries)]
      BY <1>2, <2>1, <2>2, <3>1
    <3>3. Len(<< >>) = 0
      BY EmptySeq
    <3>4. Len(kept) # Len(<< >>) /\ Len(rl.entries) # Len(<< >>)
      BY <2>1, <2>2, <3>2, <3>3
    <3>5. kept # << >> /\ rl.entries # << >>
      BY <3>4, Zenon
    <3> QED
      BY <3>2, <3>5 DEF Log!LastEvent
  <2>3. CASE ~(Len(rl.entries) > 1)
    BY <1>3, <2>3 DEF Log!Newest
  <2> QED
    BY <2>2, <2>3
<1> QED
  BY <1>1, <1>5, <1>6, <1>7 DEF Kept

(* What recording an event means for the history, the cursor and the last  *)
(* entry that is retained.                                                 *)
LEMMA RecordEffect ==
  ASSUME NEW rl \in Log!RunLog, NEW event, NEW rl2, Recorded(rl, event, rl2)
  PROVE  /\ rl2.held /\ rl2.nextId = rl.nextId + 1
         /\ \E entry : /\ rl2.history = Append(rl.history, entry)
                       /\ entry.event = event /\ entry.id = rl.nextId
         /\ Log!LastEvent(rl2.entries) = event
<1>1. PICK data : rl2 = Log!Record(rl, Log!NewEntry(rl, event, data, NoKey))
  BY DEF Recorded
<1>2. PICK entry : entry = Log!NewEntry(rl, event, data, NoKey)
  OBVIOUS
<1>3. entry.event = event /\ entry.id = rl.nextId
  BY <1>2 DEF Log!NewEntry
<1>4. PICK all, kept : all = Append(rl.entries, entry) /\ kept = Log!Newest(all, MaxEntries)
  OBVIOUS
<1>5. /\ rl2.held /\ rl2.nextId = rl.nextId + 1 /\ rl2.history = Append(rl.history, entry)
      /\ rl2.entries = kept
  BY <1>1, <1>2, <1>4 DEF Log!Record
<1>6. kept # << >> /\ kept[Len(kept)] = entry
  <2>1. rl.entries \in Seq(Log!Entry \cup {entry}) /\ Len(rl.entries) \in Nat
    <3>1. rl.entries \in Seq(Log!Entry)
      BY DEF Log!RunLog
    <3> QED
      BY <3>1, LenProperties
  <2>2. /\ all \in Seq(Log!Entry \cup {entry}) /\ Len(all) = Len(rl.entries) + 1
        /\ all[Len(all)] = entry
    BY <1>4, <2>1, AppendProperties
  <2>3. CASE Len(all) > MaxEntries
    <3>1. kept = SubSeq(all, Len(all) - MaxEntries + 1, Len(all))
      BY <1>4, <2>3 DEF Log!Newest
    <3>2. MaxEntries \in Nat /\ MaxEntries > 0
      BY LogOptionsAssumption
    <3>3. PICK m : m = Len(all) - MaxEntries + 1
      OBVIOUS
    <3>4. m \in 1 .. Len(all) /\ kept = SubSeq(all, m, Len(all))
      BY <2>1, <2>2, <2>3, <3>1, <3>2, <3>3
    <3>5. \A i \in m .. Len(all) : all[i] \in Log!Entry \cup {entry}
      BY <2>2, <3>4, ElementOfSeq
    <3>6. /\ Len(kept) = Len(all) - m + 1
          /\ \A i \in 1 .. Len(all) - m + 1 : kept[i] = all[m + i - 1]
      BY <2>1, <2>2, <3>4, <3>5, SubSeqProperties
    <3>7. Len(kept) \in 1 .. Len(all) /\ kept[Len(kept)] = all[Len(all)]
      BY <2>1, <2>2, <3>4, <3>6
    <3> QED
      BY <2>2, <3>7
  <2>4. CASE ~(Len(all) > MaxEntries)
    BY <1>4, <2>1, <2>2, <2>4 DEF Log!Newest
  <2> QED
    BY <2>3, <2>4
<1>7. Log!LastEvent(rl2.entries) = event
  BY <1>3, <1>5, <1>6 DEF Log!LastEvent
<1> QED
  BY <1>3, <1>5, <1>7

-----------------------------------------------------------------------------
(* How many ends a history holds                                           *)

EndsOf(h) == Cardinality({i \in 1 .. Len(h) : h[i].event = "end"})

LEMMA EndsOfType ==
  ASSUME NEW S, NEW h \in Seq(S)
  PROVE  /\ IsFiniteSet({i \in 1 .. Len(h) : h[i].event = "end"})
         /\ EndsOf(h) \in Nat
<1>1. Len(h) \in Nat
  BY LenProperties
<1>2. IsFiniteSet(1 .. Len(h))
  BY <1>1, FS_Interval
<1>3. IsFiniteSet({i \in 1 .. Len(h) : h[i].event = "end"})
  BY <1>2, FS_Subset
<1> QED
  BY <1>3, FS_CardinalityType DEF EndsOf

LEMMA EndsOfEmpty == EndsOf(<< >>) = 0
<1>1. {i \in 1 .. Len(<< >>) : << >>[i].event = "end"} = {}
  BY EmptySeq
<1> QED
  BY <1>1, FS_EmptySet DEF EndsOf

LEMMA EndsOfAppend ==
  ASSUME NEW S, NEW h \in Seq(S), NEW entry
  PROVE  EndsOf(Append(h, entry)) = IF entry.event = "end" THEN EndsOf(h) + 1 ELSE EndsOf(h)
<1> DEFINE h2 == Append(h, entry)
           T  == {i \in 1 .. Len(h) : h[i].event = "end"}
           T2 == {i \in 1 .. Len(h2) : h2[i].event = "end"}
<1>1. h \in Seq(S \cup {entry}) /\ Len(h) \in Nat
  BY LenProperties
<1>2. /\ Len(h2) = Len(h) + 1 /\ h2[Len(h) + 1] = entry
      /\ \A i \in 1 .. Len(h) : h2[i] = h[i]
  BY <1>1, AppendProperties
<1> HIDE DEF h2
<1>3. T2 = IF entry.event = "end" THEN T \cup {Len(h) + 1} ELSE T
  BY <1>1, <1>2
<1>4. IsFiniteSet(T) /\ Len(h) + 1 \notin T
  BY <1>1, EndsOfType
<1>5. Cardinality(T2) = IF entry.event = "end" THEN Cardinality(T) + 1 ELSE Cardinality(T)
  BY <1>3, <1>4, FS_AddElement
<1> QED
  BY <1>5 DEF EndsOf, h2

-----------------------------------------------------------------------------
(* What a step makes of one run                                            *)

(* The run owes an end: its start is in flight, or it is live.             *)
Active == {"starting", "running", "finishing"}

(***************************************************************************)
(* Every step takes each run from its log rl, its number of resumes n and  *)
(* its record x to rl2, n2 and y in one of these ways: it leaves the run   *)
(* as it is, moves it within an attempt, removes its record, or lets the   *)
(* in-memory cap forget its log; starts it over an unknown log, records an *)
(* event of its attempt, ends it, resumes it, or, when the process is      *)
(* booting, restores it from the retained entries.                         *)
(***************************************************************************)
Unmoved(rl, rl2, n, n2, x, y) ==
  Kept(rl, rl2) /\ n2 = n /\ y.phase = x.phase /\ y.endId = x.endId
Moves(rl, rl2, n, n2, x, y) ==
  Kept(rl, rl2) /\ n2 = n /\ x.phase \in Active /\ y.phase \in Active
Removed(rl, rl2, n, n2, y) ==
  (Kept(rl, rl2) \/ rl2 = Log!NoRunLog) /\ n2 = n /\ y.phase = "absent"
Forgotten(rl2, n, n2) ==
  InMemory /\ rl2 = Log!NoRunLog /\ n2 = n
Starts(rl, rl2, n2, x, y) ==
  Kept(rl, rl2) /\ ~rl.held /\ n2 = 0 /\ x.phase = "absent" /\ y.phase = "starting"
Records(rl, rl2, n, n2, x, y) ==
  /\ \E event \in {"start", "agent"} : Recorded(rl, event, rl2)
  /\ n2 = n /\ x.phase \in Active /\ y.phase \in Active
Closes(rl, rl2, n, n2, x, y) ==
  /\ Recorded(rl, "end", rl2)
  /\ n2 = n /\ x.phase \in Active /\ y.phase = "terminal" /\ y.endId = rl.nextId
Resumes(rl, rl2, n, n2, x, y) ==
  Kept(rl, rl2) /\ n2 = n + 1 /\ x.phase = "terminal" /\ y.phase = "running"
Restores(up, rl, rl2, n, n2, y) ==
  /\ ~up /\ Kept(rl, rl2) /\ n2 = n
  /\ \/ y.phase = "terminal"
     \/ y.phase = "running" /\ Log!LastEvent(rl.entries) # "end"

Step(up, rl, rl2, n, n2, x, y) ==
  \/ Unmoved(rl, rl2, n, n2, x, y) \/ Moves(rl, rl2, n, n2, x, y)
  \/ Removed(rl, rl2, n, n2, y) \/ Forgotten(rl2, n, n2)
  \/ Starts(rl, rl2, n2, x, y) \/ Records(rl, rl2, n, n2, x, y)
  \/ Closes(rl, rl2, n, n2, x, y) \/ Resumes(rl, rl2, n, n2, x, y)
  \/ Restores(up, rl, rl2, n, n2, y)

(***************************************************************************)
(* A log that is not held has no history.  There is at most one end per    *)
(* attempt, n + 1 of them only once the last attempt is over, and then the *)
(* end is still the last entry, so a boot cannot take the run for an       *)
(* orphan.                                                                 *)
(***************************************************************************)
RunHistoryOK(rl, n, x) ==
  /\ ~rl.held => rl.history = << >>
  /\ EndsOf(rl.history) <= n + 1
  /\ EndsOf(rl.history) = n + 1 => Log!LastEvent(rl.entries) = "end"
  /\ x.phase \in Active => EndsOf(rl.history) <= n

LEMMA NoHistory ==
  ASSUME NEW n \in Nat, NEW x
  PROVE  RunHistoryOK(Log!NoRunLog, n, x)
<1>1. EndsOf(Log!NoRunLog.history) = 0 /\ Log!NoRunLog.history = << >>
  BY EndsOfEmpty DEF Log!NoRunLog
<1> QED
  BY <1>1 DEF RunHistoryOK

LEMMA StepKeepsHistory ==
  ASSUME NEW up, NEW rl \in Log!RunLog, NEW rl2, NEW n \in Nat, NEW n2 \in Nat, NEW x, NEW y,
         Step(up, rl, rl2, n, n2, x, y), RunHistoryOK(rl, n, x)
  PROVE  RunHistoryOK(rl2, n2, y)
<1>1. rl.history \in Seq(Log!Entry)
  BY DEF Log!RunLog
<1>2. EndsOf(rl.history) \in Nat
  BY <1>1, EndsOfType
<1>3. CASE Unmoved(rl, rl2, n, n2, x, y) \/ Moves(rl, rl2, n, n2, x, y)
  BY <1>3 DEF Unmoved, Moves, Kept, RunHistoryOK
<1>4. CASE Removed(rl, rl2, n, n2, y)
  BY <1>4, NoHistory DEF Removed, Kept, RunHistoryOK, Active
<1>5. CASE Forgotten(rl2, n, n2)
  BY <1>5, NoHistory DEF Forgotten
<1>6. CASE Starts(rl, rl2, n2, x, y)
  <2>1. EndsOf(rl2.history) = 0 /\ rl2.history = << >>
    BY <1>6, EndsOfEmpty DEF Starts, Kept, RunHistoryOK
  <2> QED
    BY <2>1 DEF RunHistoryOK
<1>7. CASE Records(rl, rl2, n, n2, x, y)
  <2>1. PICK event \in {"start", "agent"} : Recorded(rl, event, rl2)
    BY <1>7 DEF Records
  <2>2. PICK entry : rl2.history = Append(rl.history, entry) /\ entry.event = event /\ rl2.held
    BY <2>1, RecordEffect
  <2>3. EndsOf(rl2.history) = EndsOf(rl.history)
    BY <1>1, <2>2, EndsOfAppend
  <2> QED
    BY <1>2, <1>7, <2>2, <2>3 DEF Records, RunHistoryOK
<1>8. CASE Closes(rl, rl2, n, n2, x, y)
  <2>1. Recorded(rl, "end", rl2)
    BY <1>8 DEF Closes
  <2>2. /\ rl2.held /\ Log!LastEvent(rl2.entries) = "end"
        /\ \E entry : rl2.history = Append(rl.history, entry) /\ entry.event = "end"
    BY <2>1, RecordEffect
  <2>3. EndsOf(rl2.history) = EndsOf(rl.history) + 1
    BY <1>1, <2>2, EndsOfAppend
  <2> QED
    BY <1>2, <1>8, <2>2, <2>3 DEF Closes, RunHistoryOK, Active
<1>9. CASE Resumes(rl, rl2, n, n2, x, y)
  BY <1>2, <1>9 DEF Resumes, Kept, RunHistoryOK
<1>10. CASE Restores(up, rl, rl2, n, n2, y)
  BY <1>2, <1>10 DEF Restores, Kept, RunHistoryOK, Active
<1> QED
  BY <1>3, <1>4, <1>5, <1>6, <1>7, <1>8, <1>9, <1>10 DEF Step

(* The last event of a terminal run's log is the end its record names.     *)
RunClosedOK(rl, x) ==
  x.phase = "terminal" /\ rl.held =>
    LET h == rl.history
    IN  h # << >> /\ h[Len(h)].event = "end" /\ h[Len(h)].id = x.endId

LEMMA StepKeepsClosed ==
  ASSUME NEW rl \in Log!RunLog, NEW rl2, NEW n, NEW n2, NEW x, NEW y,
         Step(TRUE, rl, rl2, n, n2, x, y), RunClosedOK(rl, x)
  PROVE  RunClosedOK(rl2, y)
<1>1. CASE Unmoved(rl, rl2, n, n2, x, y)
  BY <1>1 DEF Unmoved, Kept, RunClosedOK
<1>2. CASE \/ Moves(rl, rl2, n, n2, x, y) \/ Removed(rl, rl2, n, n2, y)
           \/ Starts(rl, rl2, n2, x, y) \/ Records(rl, rl2, n, n2, x, y)
           \/ Resumes(rl, rl2, n, n2, x, y)
  <2>1. y.phase # "terminal"
    BY <1>2 DEF Moves, Removed, Starts, Records, Resumes, Active
  <2> QED
    BY <2>1 DEF RunClosedOK
<1>3. CASE Forgotten(rl2, n, n2)
  BY <1>3 DEF Forgotten, Log!NoRunLog, RunClosedOK
<1>4. CASE Closes(rl, rl2, n, n2, x, y)
  <2>1. Recorded(rl, "end", rl2) /\ y.endId = rl.nextId
    BY <1>4 DEF Closes
  <2>2. PICK entry : /\ rl2.history = Append(rl.history, entry)
                     /\ entry.event = "end" /\ entry.id = rl.nextId
    BY <2>1, RecordEffect
  <2>3. rl.history \in Seq(Log!Entry \cup {entry}) /\ Len(rl.history) \in Nat
    <3>1. rl.history \in Seq(Log!Entry)
      BY DEF Log!RunLog
    <3> QED
      BY <3>1, LenProperties
  <2>4. /\ Len(rl2.history) = Len(rl.history) + 1 /\ rl2.history[Len(rl.history) + 1] = entry
        /\ rl2.history # << >>
    BY <2>2, <2>3, AppendProperties
  <2>5. rl2.history[Len(rl2.history)] = entry
    BY <2>4
  <2> QED
    BY <2>1, <2>2, <2>4, <2>5 DEF RunClosedOK
<1> QED
  BY <1>1, <1>2, <1>3, <1>4 DEF Step, Restores

-----------------------------------------------------------------------------
(* Emits in flight                                                         *)

(* No emit of r is in flight.                                              *)
NoEmits(pend, r) == \A i \in 1 .. Len(pend) : pend[i].op = "emit" => pend[i].run # r

(***************************************************************************)
(* An emit in flight has a live run, and none was called behind the end of *)
(* its run: once an end commits, nothing follows it into the log.          *)
(***************************************************************************)
EmitsOK(rc, pend) ==
  /\ \A i \in 1 .. Len(pend) :
       pend[i].op = "emit" => rc[pend[i].run].phase \in {"running", "finishing"}
  /\ \A i, j \in 1 .. Len(pend) :
       i < j /\ pend[i].op = "end" /\ pend[j].op = "emit" => pend[i].run # pend[j].run

LEMMA EmitsTail ==
  ASSUME NEW rc, NEW pend \in Seq(Request), EmitsOK(rc, pend), pend # << >>
  PROVE  /\ EmitsOK(rc, Tail(pend))
         /\ Head(pend).op = "emit" => rc[Head(pend).run].phase \in {"running", "finishing"}
         /\ Head(pend).op = "end" => NoEmits(Tail(pend), Head(pend).run)
<1>1. Len(pend) \in Nat /\ Len(pend) > 0 /\ Head(pend) = pend[1] /\ 1 \in 1 .. Len(pend)
  BY EmptySeq
<1>2. PICK t : t = Tail(pend)
  OBVIOUS
<1>3. \A i \in 1 .. Len(t) : i + 1 \in 1 .. Len(pend) /\ t[i] = pend[i + 1] /\ i \in Nat
  BY <1>1, <1>2
<1>4. EmitsOK(rc, t)
  <2>1. \A i \in 1 .. Len(t) :
          t[i].op = "emit" => rc[t[i].run].phase \in {"running", "finishing"}
    BY <1>3 DEF EmitsOK
  <2>2. ASSUME NEW i \in 1 .. Len(t), NEW j \in 1 .. Len(t), i < j, t[i].op = "end",
               t[j].op = "emit"
        PROVE  t[i].run # t[j].run
    <3>1. i + 1 < j + 1
      BY <1>3, <2>2
    <3> QED
      BY <1>3, <2>2, <3>1 DEF EmitsOK
  <2> QED
    BY <2>1, <2>2 DEF EmitsOK
<1>5. ASSUME pend[1].op = "end", NEW i \in 1 .. Len(t), t[i].op = "emit"
      PROVE  t[i].run # pend[1].run
  <2>1. 1 < i + 1
    BY <1>3
  <2> QED
    BY <1>1, <1>3, <1>5, <2>1 DEF EmitsOK
<1> QED
  BY <1>1, <1>2, <1>4, <1>5 DEF EmitsOK, NoEmits

LEMMA EmitsAppend ==
  ASSUME NEW rc, NEW pend \in Seq(Request), EmitsOK(rc, pend), NEW q \in Request,
         q.op = "emit" => rc[q.run].phase \in {"running", "finishing"} /\ Quiet(pend, q.run)
  PROVE  EmitsOK(rc, Append(pend, q))
<1>1. PICK t : t = Append(pend, q)
  OBVIOUS
<1>2. /\ Len(pend) \in Nat /\ Len(t) = Len(pend) + 1 /\ t[Len(pend) + 1] = q
      /\ \A i \in 1 .. Len(pend) : t[i] = pend[i]
  BY <1>1
<1>3. \A i \in 1 .. Len(t) : i \in 1 .. Len(pend) \/ i = Len(pend) + 1
  BY <1>2
<1>4. \A i \in 1 .. Len(t) :
        t[i].op = "emit" => rc[t[i].run].phase \in {"running", "finishing"}
  BY <1>2, <1>3 DEF EmitsOK
<1>5. ASSUME NEW i \in 1 .. Len(t), NEW j \in 1 .. Len(t), i < j, t[i].op = "end",
             t[j].op = "emit"
      PROVE  t[i].run # t[j].run
  <2>1. i \in 1 .. Len(pend)
    BY <1>2, <1>3, <1>5
  <2>2. CASE j \in 1 .. Len(pend)
    BY <1>2, <1>5, <2>1, <2>2 DEF EmitsOK
  <2>3. CASE j = Len(pend) + 1
    BY <1>2, <1>5, <2>1, <2>3 DEF Quiet
  <2> QED
    BY <1>3, <2>2, <2>3
<1> QED
  BY <1>1, <1>4, <1>5 DEF EmitsOK

LEMMA EmitsPhases ==
  ASSUME NEW rc, NEW pend \in Seq(Request), EmitsOK(rc, pend), NEW rc2,
         \A s \in Runs : \/ NoEmits(pend, s) \/ rc2[s].phase = rc[s].phase
                         \/ rc2[s].phase \in {"running", "finishing"}
  PROVE  EmitsOK(rc2, pend)
<1>1. \A i \in 1 .. Len(pend) : pend[i].run \in Runs
  BY RequestAt
<1>2. \A i \in 1 .. Len(pend) :
        pend[i].op = "emit" => rc2[pend[i].run].phase \in {"running", "finishing"}
  BY <1>1 DEF EmitsOK, NoEmits
<1> QED
  BY <1>2 DEF EmitsOK

LEMMA NoEmitsPhase ==
  ASSUME NEW rc, NEW pend, EmitsOK(rc, pend), NEW r,
         rc[r].phase \notin {"running", "finishing"}
  PROVE  NoEmits(pend, r)
BY DEF EmitsOK, NoEmits

LEMMA NoEmitsPending ==
  ASSUME NEW rc
  PROVE  EmitsOK(rc, << >>)
BY EmptySeq DEF EmitsOK

-----------------------------------------------------------------------------
(* Every step of the registry, run by run                                  *)

Stepped == \A s \in Runs : Step(Up, log.runs[s], log'.runs[s], resumes[s], resumes'[s],
                                rec[s], rec'[s])

EmitsKept == EmitsOK(rec', pending')

(* A step that touches neither the log nor any phase.                      *)
LEMMA TouchSteps ==
  ASSUME LifecycleInv, EmitsOK(rec, pending), UNCHANGED << log, resumes >>,
         \A s \in Runs : rec'[s].phase = rec[s].phase /\ rec'[s].endId = rec[s].endId,
         \/ UNCHANGED pending
         \/ \E q \in Request : /\ pending' = Append(pending, q)
                               /\ q.op = "emit" /\ rec[q.run].phase = "running"
  PROVE  Stepped /\ EmitsKept
<1>1. Stepped
  BY DEF Stepped, Step, Unmoved, Kept
<1>2. pending \in Seq(Request)
  BY DEF LifecycleInv, PendingOK
<1>3. EmitsOK(rec', pending)
  <2>1. PICK rc : rc = rec'
    OBVIOUS
  <2>2. EmitsOK(rc, pending)
    BY <1>2, <2>1, EmitsPhases
  <2> QED
    BY <2>1, <2>2
<1>4. ASSUME NEW q \in Request, pending' = Append(pending, q), q.op = "emit",
             rec[q.run].phase = "running"
      PROVE  EmitsKept
  <2>1. q.run \in Runs
    BY DEF Request
  <2>2. Quiet(pending, q.run)
    BY <1>4, <2>1, QuietPhase DEF LifecycleInv
  <2>3. PICK rc : rc = rec'
    OBVIOUS
  <2>4. rc[q.run].phase = "running" /\ EmitsOK(rc, pending)
    BY <1>3, <1>4, <2>1, <2>3
  <2>5. EmitsOK(rc, Append(pending, q))
    BY <1>2, <2>2, <2>4, EmitsAppend
  <2> QED
    BY <1>4, <2>3, <2>5 DEF EmitsKept
<1> QED
  BY <1>1, <1>3, <1>4 DEF EmitsKept

LEMMA CallSteps ==
  ASSUME LifecycleInv, EmitsOK(rec, pending), NEW r \in Runs,
         \/ \E kind : Emit(r, kind)
         \/ Cancel(r) \/ OnCancelRequested(r) \/ StopListening(r)
         \/ InactivityTimeout(r) \/ SlowRunNotice(r)
         \/ SuspendSlowRunNotice(r) \/ ResumeSlowRunNotice(r)
         \/ WaitForTerminal(r) \/ AbortWait(r)
  PROVE  Stepped /\ EmitsKept
<1>1. rec \in [Runs -> RunRecord] /\ \A s \in Runs : rec[s] \in RunRecord
  BY DEF LifecycleInv, Shape
<1>2. \A by \in {"driver", "inactivity", "slow"} :
        /\ EmitRequest(r, by) \in Request /\ EmitRequest(r, by).op = "emit"
        /\ EmitRequest(r, by).run = r
  BY DEF EmitRequest, Request
<1>3. ASSUME NEW kind, Emit(r, kind) PROVE Stepped /\ EmitsKept
  <2>1. \E a, b : rec' = [rec EXCEPT ![r].watchdog = a, ![r].slow = b]
    BY <1>3, Zenon DEF Emit
  <2>2. \A s \in Runs : rec'[s].phase = rec[s].phase /\ rec'[s].endId = rec[s].endId
    BY <1>1, <2>1 DEF RunRecord
  <2> QED
    BY <1>2, <1>3, <2>2, TouchSteps DEF Emit
<1>4. CASE Cancel(r) \/ OnCancelRequested(r) \/ StopListening(r)
  <2>1. \/ \E a, b : rec' = [rec EXCEPT ![r].cancelRequested = a, ![r].told = b]
        \/ \E a, b : rec' = [rec EXCEPT ![r].listening = a, ![r].told = b]
    BY <1>4, Zenon DEF Cancel, OnCancelRequested, StopListening
  <2>2. ASSUME NEW a, NEW b, rec' = [rec EXCEPT ![r].cancelRequested = a, ![r].told = b]
        PROVE  \A s \in Runs : rec'[s].phase = rec[s].phase /\ rec'[s].endId = rec[s].endId
    BY <1>1, <2>2 DEF RunRecord
  <2>3. ASSUME NEW a, NEW b, rec' = [rec EXCEPT ![r].listening = a, ![r].told = b]
        PROVE  \A s \in Runs : rec'[s].phase = rec[s].phase /\ rec'[s].endId = rec[s].endId
    BY <1>1, <2>3 DEF RunRecord
  <2>4. \A s \in Runs : rec'[s].phase = rec[s].phase /\ rec'[s].endId = rec[s].endId
    BY <2>1, <2>2, <2>3
  <2> QED
    BY <1>4, <2>4, TouchSteps DEF Cancel, OnCancelRequested, StopListening
<1>5. CASE InactivityTimeout(r) \/ SlowRunNotice(r)
  <2>1. \/ \E a : rec' = [rec EXCEPT ![r].watchdog = a]
        \/ \E a : rec' = [rec EXCEPT ![r].slow = a]
    BY <1>5, Zenon DEF InactivityTimeout, SlowRunNotice
  <2>2. \A s \in Runs : rec'[s].phase = rec[s].phase /\ rec'[s].endId = rec[s].endId
    BY <1>1, <2>1 DEF RunRecord
  <2> QED
    BY <1>2, <1>5, <2>2, TouchSteps DEF InactivityTimeout, SlowRunNotice
<1>6. CASE SuspendSlowRunNotice(r) \/ ResumeSlowRunNotice(r)
  <2>1. \E a, b : rec' = [rec EXCEPT ![r].suspensions = a, ![r].slow = b]
    BY <1>6, Zenon DEF SuspendSlowRunNotice, ResumeSlowRunNotice
  <2>2. \A s \in Runs : rec'[s].phase = rec[s].phase /\ rec'[s].endId = rec[s].endId
    BY <1>1, <2>1 DEF RunRecord
  <2> QED
    BY <1>6, <2>2, TouchSteps DEF SuspendSlowRunNotice, ResumeSlowRunNotice
<1>7. CASE WaitForTerminal(r) \/ AbortWait(r)
  BY <1>7, TouchSteps DEF WaitForTerminal, AbortWait
<1> QED
  BY <1>3, <1>4, <1>5, <1>6, <1>7

(* Finishing and starting a run, and giving its start up.                  *)
LEMMA StartSteps ==
  ASSUME LifecycleInv, EmitsOK(rec, pending), NEW r \in Runs, NEW key \in IdemKeys \cup {NoKey},
         NEW watched \in WatchChoices, Start(r, key, watched)
  PROVE  Stepped /\ EmitsKept
<1>1. rec \in [Runs -> RunRecord] /\ rec[r].phase = "absent" /\ ~log.runs[r].held
      /\ pending \in Seq(Request) /\ resumes \in [Runs -> Nat]
  BY DEF Start, Fresh, Present, LifecycleInv, Shape, PendingOK, Counters
<1>2. /\ \A s \in Runs \ {r} : rec'[s] = rec[s] /\ resumes'[s] = resumes[s]
      /\ rec'[r].phase = "starting" /\ resumes'[r] = 0 /\ log' = log
  BY <1>1, NewRecordType DEF Start
<1>3. Stepped
  BY <1>1, <1>2 DEF Stepped, Step, Unmoved, Starts, Kept
<1>4. PICK rc, q : rc = rec' /\ q = StartRequest(r, watched)
  OBVIOUS
<1>5. q \in Request /\ q.op = "start"
  BY <1>4, OptionsAssumption DEF StartRequest, Request
<1>6. \A s \in Runs : NoEmits(pending, s) \/ rc[s].phase = rec[s].phase
  BY <1>1, <1>2, <1>4, NoEmitsPhase
<1>7. EmitsOK(rc, pending)
  BY <1>1, <1>6, EmitsPhases
<1>8. EmitsOK(rc, Append(pending, q))
  BY <1>1, <1>5, <1>7, EmitsAppend
<1> QED
  BY <1>3, <1>4, <1>8 DEF EmitsKept, Start

LEMMA FinishSteps ==
  ASSUME LifecycleInv, EmitsOK(rec, pending), NEW r \in Runs, NEW resumable \in ResumableChoices,
         Finish(r, resumable)
  PROVE  Stepped /\ EmitsKept
<1>1. /\ rec \in [Runs -> RunRecord] /\ rec[r] \in RunRecord /\ rec[r].phase = "running"
      /\ pending \in Seq(Request)
  BY RecordType DEF Finish, LifecycleInv, PendingOK
<1>2. /\ \A s \in Runs \ {r} : rec'[s] = rec[s]
      /\ rec'[r].phase = "finishing" /\ log' = log /\ resumes' = resumes
  BY <1>1 DEF Finish, RunRecord
<1>3. Stepped
  BY <1>1, <1>2 DEF Stepped, Step, Unmoved, Moves, Kept, Active
<1>4. PICK rc, q : rc = rec' /\ q = EndRequest(r, resumable)
  OBVIOUS
<1>5. q \in Request /\ q.op = "end"
  BY <1>4, OptionsAssumption DEF EndRequest, Request
<1>6. EmitsOK(rc, pending)
  BY <1>1, <1>2, <1>4, EmitsPhases
<1>7. EmitsOK(rc, Append(pending, q))
  BY <1>1, <1>5, <1>6, EmitsAppend
<1> QED
  BY <1>3, <1>4, <1>7 DEF EmitsKept, Finish

LEMMA ResumeSteps ==
  ASSUME LifecycleInv, EmitsOK(rec, pending), NEW r \in Runs, Resume(r)
  PROVE  Stepped /\ EmitsKept
<1>1. /\ rec \in [Runs -> RunRecord] /\ rec[r] \in RunRecord /\ rec[r].phase = "terminal"
      /\ pending \in Seq(Request) /\ resumes \in [Runs -> Nat]
  BY RecordType DEF Resume, LifecycleInv, PendingOK, Counters
<1>2. PICK x : x = [rec[r] EXCEPT !.phase = "running", !.resumable = FALSE, !.endId = 0,
                                  !.cancelRequested = FALSE, !.told = FALSE,
                                  !.slow = SlowWindow, !.suspensions = 0]
  OBVIOUS
<1>3. x.phase = "running"
  BY <1>1, <1>2, ResumedRecord
<1>4. rec' = [rec EXCEPT ![r] = x] /\ resumes' = [resumes EXCEPT ![r] = @ + 1]
      /\ log' = log /\ pending' = pending
  BY <1>1, <1>2 DEF Resume, RunRecord
<1>5. /\ \A s \in Runs \ {r} : rec'[s] = rec[s] /\ resumes'[s] = resumes[s]
      /\ rec'[r].phase = "running" /\ resumes'[r] = resumes[r] + 1
  BY <1>1, <1>3, <1>4
<1>6. Stepped
  BY <1>1, <1>4, <1>5 DEF Stepped, Step, Unmoved, Resumes, Kept
<1>7. PICK rc : rc = rec'
  OBVIOUS
<1>8. EmitsOK(rc, pending)
  BY <1>1, <1>5, <1>7, EmitsPhases
<1> QED
  BY <1>4, <1>6, <1>7, <1>8 DEF EmitsKept

(* trackTerminalRun takes the record, and perhaps the log, of one other    *)
(* run at most.                                                            *)
LEMMA TrackEffect ==
  ASSUME LifecycleInv, NEW r \in Runs, r \notin ToSet(terminalOrder), NEW x, NEW idx,
         NEW l \in Log!LogType, TrackTerminal(r, [rec EXCEPT ![r] = x], idx, l)
  PROVE  /\ rec'[r] = x /\ log'.runs[r] = l.runs[r]
         /\ \A s \in Runs \ {r} :
              \/ rec'[s] = rec[s] /\ log'.runs[s] = l.runs[s]
              \/ /\ rec'[s].phase = "absent" /\ rec[s].phase = "terminal"
                 /\ log'.runs[s] = l.runs[s] \/ log'.runs[s] = Log!NoRunLog
<1> DEFINE recs == [rec EXCEPT ![r] = x]
           all  == Append(terminalOrder, r)
           v    == Head(all)
<1>1. /\ rec \in [Runs -> RunRecord] /\ terminalOrder \in Seq(Runs)
      /\ ToSet(terminalOrder) = {s \in Runs : rec[s].phase = "terminal"}
  BY DEF LifecycleInv, Shape, RetentionOK
<1>2. recs[r] = x /\ \A s \in Runs \ {r} : recs[s] = rec[s]
  BY <1>1
<1>3. TrackTerminal(r, recs, idx, l)
  OBVIOUS
<1>4. DOMAIN recs = Runs
  BY <1>1
<1> HIDE DEF recs
<1>5. CASE Len(all) > MaxTerminalRuns
  <2>1. rec' = [recs EXCEPT ![v] = NoRecord] /\ log' = DropIfConfigured(l, v)
    BY <1>3, <1>5 DEF TrackTerminal
  <2>2. v \in Runs /\ v # r /\ rec[v].phase = "terminal"
    <3>1. Len(terminalOrder) \in Nat /\ Len(terminalOrder) > 0
      BY <1>1, <1>5, OptionsAssumption
    <3>2. v = terminalOrder[1]
      BY <1>1, <3>1
    <3>3. v \in ToSet(terminalOrder)
      BY <1>1, <3>1, <3>2 DEF ToSet
    <3> QED
      BY <1>1, <3>3
  <2> HIDE DEF v, all
  <2>3. rec'[v].phase = "absent" /\ \A s \in Runs \ {v} : rec'[s] = recs[s]
    BY <1>4, <2>1, <2>2, NoRecordType
  <2>4. \A s \in Runs : \/ log'.runs[s] = l.runs[s]
                        \/ s = v /\ log'.runs[s] = Log!NoRunLog
    BY <2>1, DropEffect
  <2> QED
    BY <1>2, <2>2, <2>3, <2>4
<1>6. CASE ~(Len(all) > MaxTerminalRuns)
  BY <1>2, <1>3, <1>6 DEF TrackTerminal
<1> QED
  BY <1>5, <1>6

(* A live run ends, with its entry in the log.                             *)
LEMMA EndSteps ==
  ASSUME LifecycleInv, NEW r \in Runs, rec[r].phase \in {"running", "finishing"},
         NEW resumable,
         TrackTerminal(r, Terminated(r, resumable, EntryId(log, r)), index,
                       AppendToLog(log, r, "end", NoKey, resumable)),
         resumable \in BOOLEAN, resumes' = resumes
  PROVE  /\ Stepped
         /\ \A s \in Runs \ {r} : \/ rec'[s].phase = rec[s].phase
                                  \/ rec[s].phase = "terminal" /\ rec'[s].phase = "absent"
<1>1. /\ rec \in [Runs -> RunRecord] /\ rec[r] \in RunRecord /\ log \in Log!LogType
      /\ r \notin ToSet(terminalOrder)
  BY RecordType DEF LifecycleInv, Shape, RetentionOK
<1>2. PICK id : id = EntryId(log, r)
  OBVIOUS
<1>3. PICK x : x = [rec[r] EXCEPT !.phase = "terminal", !.watchdog = "off", !.slow = "off",
                                  !.resumable = resumable, !.endId = id]
  OBVIOUS
<1>4. x.phase = "terminal" /\ x.endId = id
  BY <1>1, <1>3 DEF RunRecord
<1>5. Terminated(r, resumable, EntryId(log, r)) = [rec EXCEPT ![r] = x]
  BY <1>1, <1>2, <1>3 DEF Terminated, RunRecord
<1>6. PICK l, idx : l = AppendToLog(log, r, "end", NoKey, resumable) /\ idx = index
  OBVIOUS
<1>7. l \in Log!LogType
  BY <1>1, <1>6, AppendToLogType
<1>8. TrackTerminal(r, [rec EXCEPT ![r] = x], idx, l)
  BY <1>5, <1>6
<1>9. /\ rec'[r] = x /\ log'.runs[r] = l.runs[r]
      /\ \A s \in Runs \ {r} :
           \/ rec'[s] = rec[s] /\ log'.runs[s] = l.runs[s]
           \/ /\ rec'[s].phase = "absent" /\ rec[s].phase = "terminal"
              /\ log'.runs[s] = l.runs[s] \/ log'.runs[s] = Log!NoRunLog
  <2>1. r \notin ToSet(terminalOrder) /\ TrackTerminal(r, [rec EXCEPT ![r] = x], idx, l)
    BY <1>1, <1>8
  <2>2. rec'[r] = x
    BY <1>7, <2>1, TrackEffect
  <2>3. log'.runs[r] = l.runs[r]
    BY <1>7, <2>1, TrackEffect
  <2>4. ASSUME NEW s \in Runs \ {r}
        PROVE  \/ rec'[s] = rec[s] /\ log'.runs[s] = l.runs[s]
               \/ /\ rec'[s].phase = "absent" /\ rec[s].phase = "terminal"
                  /\ log'.runs[s] = l.runs[s] \/ log'.runs[s] = Log!NoRunLog
    BY <1>7, <2>1, TrackEffect
  <2> QED
    BY <2>2, <2>3, <2>4
<1>10. \A s \in Runs :
         \/ InMemory /\ l.runs[s] = Log!NoRunLog
         \/ s # r /\ l.runs[s] = log.runs[s]
         \/ s = r /\ Recorded(log.runs[r], "end", l.runs[r])
  BY <1>1, <1>6, AppendEffect
<1>11. Step(Up, log.runs[r], log'.runs[r], resumes[r], resumes'[r], rec[r], rec'[r])
  BY <1>2, <1>4, <1>9, <1>10 DEF Step, Forgotten, Closes, Active, EntryId
<1>12. ASSUME NEW s \in Runs \ {r}
       PROVE  Step(Up, log.runs[s], log'.runs[s], resumes[s], resumes'[s], rec[s], rec'[s])
  <2>1. \/ InMemory /\ l.runs[s] = Log!NoRunLog
        \/ l.runs[s] = log.runs[s]
    BY <1>10
  <2>2. \/ rec'[s] = rec[s] /\ log'.runs[s] = l.runs[s]
        \/ rec'[s].phase = "absent" /\ (log'.runs[s] = l.runs[s] \/ log'.runs[s] = Log!NoRunLog)
    BY <1>9
  <2>3. CASE InMemory /\ log'.runs[s] = Log!NoRunLog
    BY <2>3 DEF Step, Forgotten
  <2>4. CASE rec'[s] = rec[s] /\ log'.runs[s] = log.runs[s]
    BY <2>4 DEF Step, Unmoved, Kept
  <2>5. CASE rec'[s].phase = "absent" /\ (log'.runs[s] = log.runs[s] \/ log'.runs[s] = Log!NoRunLog)
    BY <2>5 DEF Step, Removed, Kept
  <2> QED
    BY <2>1, <2>2, <2>3, <2>4, <2>5
<1>13. Stepped
  BY <1>11, <1>12 DEF Stepped
<1> QED
  BY <1>9, <1>13

(* What is known of the emits behind the oldest request.                   *)
LEMMA OldestEmits ==
  ASSUME LifecycleInv, EmitsOK(rec, pending), pending # << >>,
         NEW q, q = Head(pending), NEW t, t = Tail(pending)
  PROVE  /\ t \in Seq(Request) /\ EmitsOK(rec, t)
         /\ q.op = "emit" => rec[q.run].phase \in {"running", "finishing"}
         /\ q.op = "end" => NoEmits(t, q.run)
BY EmitsTail, PendingTail DEF LifecycleInv, PendingOK

LEMMA CommitStartSteps ==
  ASSUME LifecycleInv, EmitsOK(rec, pending), pending # << >>, NEW q, q = Head(pending),
         q.op = "start", CommitStart(q), UNCHANGED << boot, resumes, failures, crashes >>
  PROVE  Stepped /\ EmitsKept
<1>1. PICK r, t : r = q.run /\ t = Tail(pending)
  OBVIOUS
<1>2. r \in Runs /\ rec[r].phase = "starting" /\ t \in Seq(Request) /\ EmitsOK(rec, t)
  BY <1>1, OldestRequest, OldestEmits
<1>3. rec \in [Runs -> RunRecord] /\ rec[r] \in RunRecord /\ log \in Log!LogType
  BY <1>2, RecordType DEF LifecycleInv
<1>4. \E a, b : rec' = [rec EXCEPT ![r].phase = "running", ![r].watchdog = a, ![r].slow = b]
  BY <1>1, Zenon DEF CommitStart
<1>5. rec'[r].phase = "running" /\ \A s \in Runs \ {r} : rec'[s] = rec[s]
  BY <1>2, <1>3, <1>4 DEF RunRecord
<1>6. PICK key : key = rec[r].key
  OBVIOUS
<1>7. log' = AppendToLog(log, r, "start", key, FALSE) /\ resumes' = resumes /\ pending' = t
  BY <1>1, <1>6 DEF CommitStart
<1>8. \A s \in Runs : \/ InMemory /\ log'.runs[s] = Log!NoRunLog
                      \/ s # r /\ log'.runs[s] = log.runs[s]
                      \/ s = r /\ Recorded(log.runs[r], "start", log'.runs[r])
  <2>1. PICK l2, b : l2 = AppendToLog(log, r, "start", key, b) /\ b = FALSE
    OBVIOUS
  <2>2. \A s \in Runs : \/ InMemory /\ l2.runs[s] = Log!NoRunLog
                        \/ s # r /\ l2.runs[s] = log.runs[s]
                        \/ s = r /\ Recorded(log.runs[r], "start", l2.runs[r])
    BY <1>2, <1>3, <2>1, AppendEffect
  <2> QED
    BY <1>7, <2>1, <2>2
<1>9. Step(Up, log.runs[r], log'.runs[r], resumes[r], resumes'[r], rec[r], rec'[r])
  BY <1>2, <1>5, <1>7, <1>8 DEF Step, Forgotten, Records, Active
<1>10. ASSUME NEW s \in Runs \ {r}
       PROVE  Step(Up, log.runs[s], log'.runs[s], resumes[s], resumes'[s], rec[s], rec'[s])
  BY <1>5, <1>7, <1>8 DEF Step, Forgotten, Unmoved, Kept
<1>11. PICK rc : rc = rec'
  OBVIOUS
<1>12. EmitsOK(rc, t)
  BY <1>2, <1>5, <1>11, EmitsPhases
<1> QED
  BY <1>7, <1>9, <1>10, <1>11, <1>12 DEF Stepped, EmitsKept

LEMMA CommitEmitSteps ==
  ASSUME LifecycleInv, EmitsOK(rec, pending), pending # << >>, NEW q, q = Head(pending),
         q.op = "emit", CommitEmit(q), UNCHANGED << boot, resumes, failures, crashes >>
  PROVE  Stepped /\ EmitsKept
<1>1. PICK r, t : r = q.run /\ t = Tail(pending)
  OBVIOUS
<1>2. /\ r \in Runs /\ rec[r].phase \in {"running", "finishing"} /\ t \in Seq(Request)
      /\ EmitsOK(rec, t)
  BY <1>1, OldestRequest, OldestEmits
<1>3. rec \in [Runs -> RunRecord] /\ rec[r] \in RunRecord /\ log \in Log!LogType
  BY <1>2, RecordType DEF LifecycleInv
<1>4. log' = AppendToLog(log, r, "agent", NoKey, FALSE) /\ resumes' = resumes
  BY <1>1 DEF CommitEmit
<1>5. \A s \in Runs : \/ InMemory /\ log'.runs[s] = Log!NoRunLog
                      \/ s # r /\ log'.runs[s] = log.runs[s]
                      \/ s = r /\ Recorded(log.runs[r], "agent", log'.runs[r])
  <2>1. PICK l2, b : l2 = AppendToLog(log, r, "agent", NoKey, b) /\ b = FALSE
    OBVIOUS
  <2>2. \A s \in Runs : \/ InMemory /\ l2.runs[s] = Log!NoRunLog
                        \/ s # r /\ l2.runs[s] = log.runs[s]
                        \/ s = r /\ Recorded(log.runs[r], "agent", l2.runs[r])
    BY <1>2, <1>3, <2>1, AppendEffect
  <2> QED
    BY <1>4, <2>1, <2>2
<1>6. /\ rec'[r].phase \in {"running", "finishing"} /\ \A s \in Runs \ {r} : rec'[s] = rec[s]
      /\ \/ pending' = t
         \/ pending' = Append(t, EndRequest(r, FALSE))
  <2>1. \/ rec' = rec /\ pending' = t
        \/ /\ rec' = [rec EXCEPT ![r].phase = "finishing"]
           /\ pending' = Append(t, EndRequest(r, FALSE))
    BY <1>1, Zenon DEF CommitEmit
  <2> QED
    BY <1>2, <1>3, <2>1 DEF RunRecord
<1>7. Step(Up, log.runs[r], log'.runs[r], resumes[r], resumes'[r], rec[r], rec'[r])
  BY <1>2, <1>4, <1>5, <1>6 DEF Step, Forgotten, Records, Active
<1>8. ASSUME NEW s \in Runs \ {r}
      PROVE  Step(Up, log.runs[s], log'.runs[s], resumes[s], resumes'[s], rec[s], rec'[s])
  BY <1>4, <1>5, <1>6 DEF Step, Forgotten, Unmoved, Kept
<1>9. PICK rc, e : rc = rec' /\ e = EndRequest(r, FALSE)
  OBVIOUS
<1>10. EmitsOK(rc, t)
  BY <1>2, <1>6, <1>9, EmitsPhases
<1>11. e \in Request /\ e.op = "end"
  BY <1>2, <1>9 DEF EndRequest, Request
<1>12. EmitsOK(rc, Append(t, e))
  BY <1>2, <1>10, <1>11, EmitsAppend
<1>13. EmitsKept
  BY <1>6, <1>9, <1>10, <1>12 DEF EmitsKept
<1> QED
  BY <1>7, <1>8, <1>13 DEF Stepped

LEMMA CommitEndSteps ==
  ASSUME LifecycleInv, EmitsOK(rec, pending), pending # << >>, NEW q, q = Head(pending),
         q.op = "end", CommitEnd(q), UNCHANGED << boot, resumes, failures, crashes >>
  PROVE  Stepped /\ EmitsKept
<1>1. PICK r, t, resumable : r = q.run /\ t = Tail(pending) /\ resumable = q.resumable
  OBVIOUS
<1>2. /\ r \in Runs /\ rec[r].phase = "finishing" /\ resumable \in BOOLEAN
      /\ t \in Seq(Request) /\ EmitsOK(rec, t) /\ NoEmits(t, r)
  BY <1>1, OldestRequest, OldestEmits
<1>3. TrackTerminal(r, Terminated(r, resumable, EntryId(log, r)), index,
                    AppendToLog(log, r, "end", NoKey, resumable))
  BY <1>1 DEF CommitEnd
<1>4. /\ Stepped
      /\ \A s \in Runs \ {r} : \/ rec'[s].phase = rec[s].phase
                               \/ rec[s].phase = "terminal" /\ rec'[s].phase = "absent"
  BY <1>2, <1>3, EndSteps
<1>5. PICK rc : rc = rec'
  OBVIOUS
<1>6. \A s \in Runs : NoEmits(t, s) \/ rc[s].phase = rec[s].phase
  BY <1>2, <1>4, <1>5, NoEmitsPhase
<1>7. EmitsOK(rc, t)
  BY <1>2, <1>6, EmitsPhases
<1> QED
  BY <1>1, <1>4, <1>5, <1>7 DEF EmitsKept, CommitEnd

LEMMA FailSteps ==
  ASSUME LifecycleInv, EmitsOK(rec, pending), Fail
  PROVE  Stepped /\ EmitsKept
<1>1. PICK q, r, t : q = Head(pending) /\ r = q.run /\ t = Tail(pending)
  OBVIOUS
<1>2. /\ r \in Runs /\ t \in Seq(Request) /\ EmitsOK(rec, t)
      /\ q.op = "start" => rec[r].phase = "starting"
      /\ q.op = "end" => rec[r].phase = "finishing"
  BY <1>1, OldestRequest, OldestEmits DEF Fail
<1>3. rec \in [Runs -> RunRecord] /\ rec[r] \in RunRecord
  BY <1>2, RecordType
<1>4. log' = log /\ resumes' = resumes /\ pending' = t
  BY <1>1 DEF Fail, FailStart, FailEmit, FailEnd
<1>5. /\ \A s \in Runs \ {r} : rec'[s] = rec[s]
      /\ \/ rec[r].phase = "starting" /\ rec'[r].phase = "absent"
         \/ rec'[r] = rec[r]
         \/ rec[r].phase = "finishing" /\ rec'[r].phase = "running"
  <2>1. CASE q.op = "start" /\ FailStart(q)
    BY <1>1, <1>2, <1>3, <2>1, NoRecordType DEF FailStart
  <2>2. CASE q.op = "emit" /\ FailEmit(q)
    BY <2>2 DEF FailEmit
  <2>3. CASE q.op = "end" /\ FailEnd(q)
    BY <1>1, <1>2, <1>3, <2>3 DEF FailEnd, RunRecord
  <2> QED
    BY <1>1, <2>1, <2>2, <2>3 DEF Fail
<1>6. Stepped
  BY <1>2, <1>4, <1>5 DEF Stepped, Step, Unmoved, Moves, Removed, Kept, Active
<1>7. PICK rc : rc = rec'
  OBVIOUS
<1>8. \A s \in Runs : \/ NoEmits(t, s) \/ rc[s].phase = rec[s].phase
                      \/ rc[s].phase \in {"running", "finishing"}
  BY <1>2, <1>5, <1>7, NoEmitsPhase
<1>9. EmitsOK(rc, t)
  BY <1>2, <1>8, EmitsPhases
<1> QED
  BY <1>4, <1>6, <1>7, <1>9 DEF EmitsKept

LEMMA RetentionSteps ==
  ASSUME LifecycleInv, EmitsOK(rec, pending), NEW r \in Runs, RetentionTimer(r)
  PROVE  Stepped /\ EmitsKept
<1>1. /\ rec \in [Runs -> RunRecord] /\ rec[r].phase \in {"terminal", "absent"}
      /\ log \in Log!LogType /\ pending \in Seq(Request)
  BY DEF LifecycleInv, Shape, RetentionOK, RetentionTimer, PendingOK
<1>2. /\ rec'[r].phase = "absent" /\ \A s \in Runs \ {r} : rec'[s] = rec[s]
      /\ resumes' = resumes /\ pending' = pending
  BY <1>1, NoRecordType DEF RetentionTimer, Present
<1>3. log' = log \/ log' = DropIfConfigured(log, r)
  BY DEF RetentionTimer
<1>4. \A s \in Runs : \/ log'.runs[s] = log.runs[s]
                      \/ s = r /\ log'.runs[s] = Log!NoRunLog
  BY <1>1, <1>3, DropEffect
<1>5. Stepped
  BY <1>2, <1>4 DEF Stepped, Step, Unmoved, Removed, Kept
<1>6. PICK rc : rc = rec'
  OBVIOUS
<1>7. \A s \in Runs : NoEmits(pending, s) \/ rc[s].phase = rec[s].phase
  BY <1>1, <1>2, <1>6, NoEmitsPhase
<1>8. EmitsOK(rc, pending)
  BY <1>1, <1>7, EmitsPhases
<1> QED
  BY <1>2, <1>5, <1>6, <1>8 DEF EmitsKept

LEMMA CompactSteps ==
  ASSUME LifecycleInv, EmitsOK(rec, pending), NEW r \in Runs, CompactLog(r)
  PROVE  Stepped /\ EmitsKept
<1>1. log' = Log!CompactRun(log, r) /\ rec' = rec /\ resumes' = resumes /\ pending' = pending
  BY DEF CompactLog, Log!Compact
<1>2. \A s \in Runs : Kept(log.runs[s], log'.runs[s])
  BY <1>1, CompactEffect DEF LifecycleInv
<1> QED
  BY <1>1, <1>2 DEF Stepped, Step, Unmoved, EmitsKept

LEMMA CrashSteps ==
  ASSUME LifecycleInv, Crash
  PROVE  Stepped /\ EmitsKept
<1>1. \A s \in Runs : rec'[s].phase = "absent"
  BY NoRecordType DEF Crash
<1>2. log' = log /\ resumes' = resumes /\ pending' = << >>
  BY DEF Crash
<1> QED
  BY <1>1, <1>2, NoEmitsPending DEF Stepped, Step, Removed, Kept, EmitsKept

(* A run is only restored as live if its last retained entry is no end.    *)
LEMMA RehydratedOpen ==
  ASSUME NEW entries \in Seq(Log!Entry), RehydratedRecord(entries).phase = "running"
  PROVE  Log!LastEvent(entries) # "end"
<1>1. SUFFICES ASSUME Log!LastEvent(entries) = "end" PROVE FALSE
  OBVIOUS
<1>2. entries # << >> /\ entries[Len(entries)].event = "end"
  BY <1>1 DEF Log!LastEvent
<1>3. Len(entries) \in 1 .. Len(entries)
  <2>1. Len(entries) \in Nat /\ Len(entries) > 0
    BY <1>2, EmptySeq
  <2> QED
    BY <2>1
<1> DEFINE Last1(i) == /\ entries[i].event = "end"
                       /\ \A j \in (i + 1) .. Len(entries) : entries[j].event # "end"
<1>4. LastEnd(entries) = CHOOSE i \in 1 .. Len(entries) : Last1(i)
  BY <1>2, <1>3 DEF LastEnd
<1>5. Last1(Len(entries))
  BY <1>2, <1>3
<1>6. LastEnd(entries) \in 1 .. Len(entries)
  <2> HIDE DEF Last1
  <2> QED
    BY <1>3, <1>4, <1>5
<1>7. LastEnd(entries) # 0
  BY <1>6
<1> DEFINE end == LastEnd(entries)
           new == NewRecord(StartKey(entries))
<1>8. RehydratedRecord(entries) = [new EXCEPT !.phase = "terminal",
                                              !.resumable = entries[end].data.resumable,
                                              !.endId = entries[end].id]
  BY <1>7 DEF RehydratedRecord
<1>9. new \in RunRecord
  BY StartKeyType, NewRecordType
<1> HIDE DEF new, end
<1>10. RehydratedRecord(entries).phase = "terminal"
  BY <1>8, <1>9 DEF RunRecord
<1> QED
  BY <1>10

LEMMA RehydrateSteps ==
  ASSUME LifecycleInv, RehydrateOne
  PROVE  Stepped /\ EmitsKept
<1> DEFINE Entries(r) == Log!Replay(log, r, Log!NullCursor).entries
           Restored(r, entries) ==
             LET new  == RehydratedRecord(entries)
                 recs == [rec EXCEPT ![r] = new]
                 idx  == IF new.key = NoKey THEN index ELSE [index EXCEPT ![new.key] = r]
             IN  IF entries = << >> THEN UNCHANGED << log, rec >>
                 ELSE IF new.phase = "running" THEN rec' = recs /\ UNCHANGED log
                 ELSE TrackTerminal(r, recs, idx, log)
<1>1. PICK r \in Runs : \E entries :
        r \in boot.toScan /\ entries = Entries(r) /\ Restored(r, entries)
  BY DEF RehydrateOne, First
<1>2. PICK entries : r \in boot.toScan /\ entries = Entries(r) /\ Restored(r, entries)
  BY <1>1
<1> HIDE DEF Entries
<1>3. ~Up
  BY DEF RehydrateOne, Up
<1>4. rec[r].phase = "absent" /\ pending = << >> /\ pending' = << >> /\ resumes' = resumes
  BY <1>2, <1>3, Booting DEF RehydrateOne
<1>5. rec \in [Runs -> RunRecord] /\ log \in Log!LogType /\ r \notin ToSet(terminalOrder)
  BY <1>4 DEF LifecycleInv, Shape, RetentionOK
<1>6. EmitsKept
  BY <1>4, NoEmitsPending DEF EmitsKept
<1>7. CASE entries = << >>
  BY <1>2, <1>4, <1>6, <1>7 DEF Stepped, Step, Unmoved, Kept
<1>8. CASE entries # << >>
  <2>1. entries \in Seq(Log!Entry) /\ entries = log.runs[r].entries
    BY <1>2, <1>5, <1>8, ReplayType DEF Entries, Log!Replay
  <2>2. PICK x : x = RehydratedRecord(entries)
    OBVIOUS
  <2>3. /\ x.phase \in {"running", "terminal"}
        /\ x.phase = "running" => Log!LastEvent(log.runs[r].entries) # "end"
    BY <2>1, <2>2, RehydratedType, RehydratedOpen
  <2>4. CASE x.phase = "running"
    <3>1. rec' = [rec EXCEPT ![r] = x] /\ log' = log
      BY <1>2, <1>8, <2>2, <2>4
    <3>2. rec'[r] = x /\ \A s \in Runs \ {r} : rec'[s] = rec[s]
      BY <1>5, <3>1
    <3>3. Step(Up, log.runs[r], log'.runs[r], resumes[r], resumes'[r], rec[r], rec'[r])
      BY <1>3, <1>4, <2>3, <2>4, <3>1, <3>2 DEF Step, Restores, Kept
    <3>4. ASSUME NEW s \in Runs \ {r}
          PROVE  Step(Up, log.runs[s], log'.runs[s], resumes[s], resumes'[s], rec[s], rec'[s])
      BY <1>4, <3>1, <3>2 DEF Step, Unmoved, Kept
    <3> QED
      BY <1>6, <3>3, <3>4 DEF Stepped
  <2>5. CASE x.phase # "running"
    <3>1. PICK idx : TrackTerminal(r, [rec EXCEPT ![r] = x], idx, log)
      BY <1>2, <1>8, <2>2, <2>5
    <3>2. PICK l : l = log
      OBVIOUS
    <3>3. /\ TrackTerminal(r, [rec EXCEPT ![r] = x], idx, l) /\ l \in Log!LogType
          /\ r \notin ToSet(terminalOrder)
      BY <1>5, <3>1, <3>2
    <3>4. rec'[r] = x
      BY <3>3, TrackEffect
    <3>5. log'.runs[r] = l.runs[r]
      BY <3>3, TrackEffect
    <3>6. ASSUME NEW s \in Runs \ {r}
          PROVE  \/ rec'[s] = rec[s] /\ log'.runs[s] = l.runs[s]
                 \/ /\ rec'[s].phase = "absent" /\ rec[s].phase = "terminal"
                    /\ log'.runs[s] = l.runs[s] \/ log'.runs[s] = Log!NoRunLog
      BY <3>3, TrackEffect
    <3>7. Step(Up, log.runs[r], log'.runs[r], resumes[r], resumes'[r], rec[r], rec'[r])
      BY <1>3, <1>4, <2>3, <2>5, <3>2, <3>4, <3>5 DEF Step, Restores, Kept
    <3>8. ASSUME NEW s \in Runs \ {r}
          PROVE  Step(Up, log.runs[s], log'.runs[s], resumes[s], resumes'[s], rec[s], rec'[s])
      BY <1>4, <3>2, <3>6 DEF Step, Unmoved, Removed, Kept
    <3> QED
      BY <1>6, <3>7, <3>8 DEF Stepped
  <2> QED
    BY <2>4, <2>5
<1> QED
  BY <1>7, <1>8

LEMMA FinishOrphanSteps ==
  ASSUME LifecycleInv, FinishOrphan
  PROVE  Stepped /\ EmitsKept
<1>1. PICK r \in Runs :
        /\ r \in boot.orphans
        /\ TrackTerminal(r, Terminated(r, TRUE, EntryId(log, r)), index,
                         AppendToLog(log, r, "end", NoKey, TRUE))
  BY DEF FinishOrphan, First
<1>2. ~Up /\ resumes' = resumes /\ pending' = pending
  BY DEF FinishOrphan, Up
<1>3. rec[r].phase = "running" /\ pending' = << >>
  BY <1>1, <1>2, Booting
<1>4. PICK b : b = TRUE /\ b \in BOOLEAN
  OBVIOUS
<1>5. TrackTerminal(r, Terminated(r, b, EntryId(log, r)), index,
                    AppendToLog(log, r, "end", NoKey, b))
  BY <1>1, <1>4
<1>6. Stepped
  BY <1>2, <1>3, <1>4, <1>5, EndSteps
<1> QED
  BY <1>3, <1>6, NoEmitsPending DEF EmitsKept

LEMMA NextSteps ==
  ASSUME LifecycleInv, EmitsOK(rec, pending), [Next]_vars
  PROVE  Stepped /\ EmitsKept
<1>1. CASE \E r \in Runs, key \in IdemKeys \cup {NoKey}, watched \in WatchChoices :
             Start(r, key, watched)
  BY <1>1, StartSteps
<1>2. CASE \E r \in Runs, resumable \in ResumableChoices : Finish(r, resumable)
  BY <1>2, FinishSteps
<1>3. CASE Commit
  <2>1. PICK q : q = Head(pending)
    OBVIOUS
  <2>2. /\ pending # << >> /\ UNCHANGED << boot, resumes, failures, crashes >>
        /\ \/ q.op = "start" /\ CommitStart(q)
           \/ q.op = "emit" /\ CommitEmit(q)
           \/ q.op = "end" /\ CommitEnd(q)
    BY <1>3, <2>1 DEF Commit
  <2> QED
    BY <2>1, <2>2, CommitStartSteps, CommitEmitSteps, CommitEndSteps
<1>4. CASE Fail
  BY <1>4, FailSteps
<1>5. CASE \E r \in Runs : Resume(r) \/ RetentionTimer(r) \/ CompactLog(r)
  BY <1>5, ResumeSteps, RetentionSteps, CompactSteps
<1>6. CASE \/ \E r \in Runs, kind \in {"agent", "stdout"} : Emit(r, kind)
           \/ \E r \in Runs : \/ Cancel(r) \/ OnCancelRequested(r) \/ StopListening(r)
                              \/ InactivityTimeout(r) \/ SlowRunNotice(r)
                              \/ SuspendSlowRunNotice(r) \/ ResumeSlowRunNotice(r)
                              \/ WaitForTerminal(r) \/ AbortWait(r)
  BY <1>6, CallSteps
<1>7. CASE Crash \/ RehydrateOne \/ FinishOrphan
  BY <1>7, CrashSteps, RehydrateSteps, FinishOrphanSteps
<1>8. CASE BootDone \/ UNCHANGED vars
  BY <1>8, TouchSteps DEF BootDone, vars
<1> QED
  BY <1>1, <1>2, <1>3, <1>4, <1>5, <1>6, <1>7, <1>8 DEF Next

(***************************************************************************)
(* The invariant behind the history: LifecycleInv, the emits in flight,    *)
(* every run's history, and, since only a death of the process can lose    *)
(* what a record said of its log, closed logs until the first one.         *)
(***************************************************************************)
HistoryInv ==
  /\ LifecycleInv
  /\ EmitsOK(rec, pending)
  /\ \A r \in Runs : RunHistoryOK(log.runs[r], resumes[r], rec[r])

ClosedInv == crashes = 0 => Up /\ \A r \in Runs : RunClosedOK(log.runs[r], rec[r])

LEMMA HistoryInit == Init => HistoryInv /\ ClosedInv
<1> SUFFICES ASSUME Init PROVE HistoryInv /\ ClosedInv
  OBVIOUS
<1>1. /\ \A r \in Runs : /\ log.runs[r] = Log!NoRunLog /\ resumes[r] = 0
                         /\ rec[r].phase = "absent"
      /\ pending = << >>
  BY NoRecordType DEF Init, Log!EmptyLog
<1>2. Up
  BY DEF Init, Booted, Up
<1>3. LifecycleInv
  BY InitInv
<1> QED
  BY <1>1, <1>2, <1>3, NoHistory, NoEmitsPending DEF HistoryInv, ClosedInv, RunClosedOK

LEMMA HistoryNext == HistoryInv /\ [Next]_vars => HistoryInv'
<1> SUFFICES ASSUME HistoryInv, [Next]_vars PROVE HistoryInv'
  OBVIOUS
<1>1. LifecycleInv'
  BY NextInv DEF HistoryInv
<1>2. Stepped /\ EmitsKept
  BY NextSteps DEF HistoryInv
<1>3. ASSUME NEW r \in Runs PROVE RunHistoryOK(log'.runs[r], resumes'[r], rec'[r])
  <2>1. PICK rl, rl2, n, n2, x, y :
          /\ rl = log.runs[r] /\ rl2 = log'.runs[r] /\ n = resumes[r] /\ n2 = resumes'[r]
          /\ x = rec[r] /\ y = rec'[r]
    OBVIOUS
  <2>2. rl \in Log!RunLog /\ n \in Nat
    BY <2>1 DEF HistoryInv, LifecycleInv, Counters, Log!LogType
  <2>3. n2 \in Nat
    BY <1>1, <2>1 DEF LifecycleInv, Counters
  <2>4. Step(Up, rl, rl2, n, n2, x, y) /\ RunHistoryOK(rl, n, x)
    BY <1>2, <2>1 DEF Stepped, HistoryInv
  <2>5. PICK up : up = Up
    OBVIOUS
  <2>6. Step(up, rl, rl2, n, n2, x, y)
    BY <2>4, <2>5
  <2>7. RunHistoryOK(rl2, n2, y)
    BY <2>2, <2>3, <2>4, <2>6, StepKeepsHistory
  <2> QED
    BY <2>1, <2>7
<1> QED
  BY <1>1, <1>2, <1>3 DEF HistoryInv, EmitsKept

LEMMA ClosedNext == HistoryInv /\ ClosedInv /\ [Next]_vars => ClosedInv'
<1> SUFFICES ASSUME HistoryInv, ClosedInv, [Next]_vars, crashes' = 0
             PROVE  Up' /\ \A r \in Runs : RunClosedOK(log'.runs[r], rec'[r])
  BY DEF ClosedInv
<1>1. crashes \in Nat /\ LifecycleInv
  BY DEF HistoryInv, LifecycleInv, Counters
<1>2. ~Crash
  BY <1>1 DEF Crash
<1>3. crashes = 0
  BY <1>2 DEF Next, vars, Start, Emit, Finish, Commit, Fail, Resume, Cancel,
     OnCancelRequested, StopListening, WaitForTerminal, AbortWait, RetentionTimer,
     InactivityTimeout, SlowRunNotice, SuspendSlowRunNotice, ResumeSlowRunNotice, CompactLog,
     RehydrateOne, FinishOrphan, BootDone
<1>4. Up /\ \A r \in Runs : RunClosedOK(log.runs[r], rec[r])
  BY <1>3 DEF ClosedInv
<1>5. boot' = boot
  BY <1>2, <1>4 DEF Next, vars, Start, Emit, Finish, Commit, Fail, Resume, Cancel,
     OnCancelRequested, StopListening, WaitForTerminal, AbortWait, RetentionTimer,
     InactivityTimeout, SlowRunNotice, SuspendSlowRunNotice, ResumeSlowRunNotice, CompactLog,
     RehydrateOne, FinishOrphan, BootDone, Up
<1>6. Stepped
  BY NextSteps DEF HistoryInv
<1>7. ASSUME NEW r \in Runs PROVE RunClosedOK(log'.runs[r], rec'[r])
  <2>1. PICK rl, rl2, n, n2, x, y :
          /\ rl = log.runs[r] /\ rl2 = log'.runs[r] /\ n = resumes[r] /\ n2 = resumes'[r]
          /\ x = rec[r] /\ y = rec'[r]
    OBVIOUS
  <2>2. rl \in Log!RunLog
    BY <1>1, <2>1 DEF LifecycleInv, Log!LogType
  <2>3. Step(TRUE, rl, rl2, n, n2, x, y) /\ RunClosedOK(rl, x)
    BY <1>4, <1>6, <2>1 DEF Stepped, Step, Restores
  <2>4. RunClosedOK(rl2, y)
    BY <2>2, <2>3, StepKeepsClosed
  <2> QED
    BY <2>1, <2>4
<1> QED
  BY <1>4, <1>5, <1>7 DEF Up

LEMMA HistoryHolds == Spec => [](HistoryInv /\ ClosedInv)
<1>1. HistoryInv /\ ClosedInv /\ [Next]_vars => (HistoryInv /\ ClosedInv)'
  BY HistoryNext, ClosedNext
<1> QED
  BY <1>1, HistoryInit, PTL DEF Spec

(* One terminal outcome per attempt: whoever raced to finish a run, its    *)
(* log never records more ends than the run had attempts, whatever failed  *)
(* to append and however often the process died and booted over its log.   *)
THEOREM OneOutcomePerAttempt == Spec => []EndsWithinAttempts
<1>1. HistoryInv => EndsWithinAttempts
  <2> SUFFICES ASSUME HistoryInv, NEW r \in Runs PROVE Ends(r) <= 1 + resumes[r]
    BY DEF EndsWithinAttempts
  <2>1. PICK h, n : h = log.runs[r].history /\ n = resumes[r]
    OBVIOUS
  <2>2. n \in Nat /\ EndsOf(h) <= n + 1 /\ h \in Seq(Log!Entry)
    BY <2>1 DEF HistoryInv, RunHistoryOK, LifecycleInv, Counters, Log!LogType, Log!RunLog
  <2>3. Ends(r) = EndsOf(h)
    BY <2>1 DEF Ends, EndsOf
  <2> QED
    BY <2>1, <2>2, <2>3, EndsOfType
<1> QED
  BY <1>1, HistoryHolds, PTL

(* A terminal run's log is closed by the end its status was taken from,    *)
(* as long as no crash replaced the records by what rehydrate read.        *)
THEOREM TerminalLogsAreClosed == Spec => [](crashes = 0 => TerminalLogClosed)
<1>1. ClosedInv => (crashes = 0 => TerminalLogClosed)
  BY DEF ClosedInv, RunClosedOK, TerminalLogClosed
<1> QED
  BY <1>1, HistoryHolds, PTL

(* Over a durable log no cursor of a registered run is ever reused.        *)
THEOREM CursorsAreMonotonic == ASSUME ~InMemory PROVE Spec => CursorNeverReused
<1>1. ASSUME HistoryInv, [Next]_vars, NEW r \in Runs,
             Present(r), log'.runs[r].history # log.runs[r].history
      PROVE  \/ log'.runs[r].nextId > log.runs[r].nextId
             \/ log'.runs[r].history = << >> /\ ~Live(r)'
  <2>1. PICK rl, rl2, n, n2, x, y :
          /\ rl = log.runs[r] /\ rl2 = log'.runs[r] /\ n = resumes[r] /\ n2 = resumes'[r]
          /\ x = rec[r] /\ y = rec'[r]
    OBVIOUS
  <2>2. rl \in Log!RunLog /\ rl.nextId \in Nat
    BY <1>1, <2>1 DEF HistoryInv, LifecycleInv, Log!LogType, Log!RunLog
  <2>3. Step(Up, rl, rl2, n, n2, x, y)
    BY <1>1, <2>1, NextSteps DEF Stepped, HistoryInv
  <2>4. \/ rl2.history = rl.history
        \/ rl2 = Log!NoRunLog /\ y.phase = "absent"
        \/ \E event : Recorded(rl, event, rl2)
    BY <2>3 DEF Step, Unmoved, Moves, Removed, Forgotten, Starts, Records, Closes, Resumes,
                Restores, Kept
  <2>5. ASSUME NEW event, Recorded(rl, event, rl2) PROVE rl2.nextId > rl.nextId
    BY <2>2, <2>5, RecordEffect
  <2> QED
    BY <1>1, <2>1, <2>4, <2>5 DEF Live, Log!NoRunLog
<1>2. HistoryInv /\ [Next]_vars =>
        [\A r \in Runs :
           Present(r) /\ log'.runs[r].history # log.runs[r].history =>
             \/ log'.runs[r].nextId > log.runs[r].nextId
             \/ log'.runs[r].history = << >> /\ ~Live(r)']_vars
  BY <1>1
<1> QED
  BY <1>2, HistoryHolds, PTL DEF Spec, CursorNeverReused
=============================================================================
